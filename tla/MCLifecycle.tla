---------------------------- MODULE MCLifecycle ----------------------------
(* Two departments, the second open to outside calls; neither size is a     *)
(* multiple of the batches.                                                 *)
EXTENDS Lifecycle

Dept(first, last, external) == [first |-> first, last |-> last, external |-> external]
MCDepts == <<Dept(1, 1, FALSE), Dept(2, 4, TRUE)>>
=============================================================================
