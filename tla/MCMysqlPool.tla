---------------------------- MODULE MCMysqlPool ----------------------------
(* MysqlPool with two slots.  The main thread and the worker are the two   *)
(* threads of the program; three threads make a pool smaller than its      *)
(* users.  The start sets: every slot, or some but not all of them.        *)
EXTENDS MysqlPool, TLC

CONSTANTS t1, t2, t3

TwoThreads == {t1, t2}
ThreeThreads == {t1, t2, t3}

AllSlots == {1..PoolSize}
SomeSlots == SUBSET (1..PoolSize) \ {{}, 1..PoolSize}

TwoSymmetry == Permutations(TwoThreads)
ThreeSymmetry == Permutations(ThreeThreads)
=============================================================================
