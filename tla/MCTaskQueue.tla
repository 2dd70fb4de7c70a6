---------------------------- MODULE MCTaskQueue ----------------------------
(* TaskQueue with a queue of two: five tasks overflow it several times and *)
(* four addresses (two queued, one in hand, one fresh) are all reused.     *)
EXTENDS TaskQueue

CONSTANTS n1, n2, n3, n4

MCNodes == {n1, n2, n3, n4}
MCMaxQueue == 2
MCMaxSubmissions == 5
=============================================================================
