------------------------------ MODULE MCDbSync ------------------------------
(* DbSync with one agent, who also goes on and off line where the run says *)
(* so, and one call: with a department and a description (c1) or without   *)
(* them (c2).                                                              *)
EXTENDS DbSync

CONSTANTS a1, c1, c2

OneAgent == {a1}
OneCall == {c1}
BareCalls == {c2}
Empty == {}
=============================================================================
