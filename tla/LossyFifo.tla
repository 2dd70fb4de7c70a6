----------------------------- MODULE LossyFifo -----------------------------
(***************************************************************************)
(* What db_sync.c promises of its asynchronous MySQL writes ("queue        *)
(* overflow protection: when full the oldest task is dropped", "the call   *)
(* returns at once"), without lists, locks or threads.  Tasks are numbered *)
(* in the order of their submission.  A task is handled after every        *)
(* earlier task that is not lost, at most once, and is lost only when      *)
(* Capacity later tasks are waiting behind it and another one arrives.     *)
(***************************************************************************)
EXTENDS Naturals, Sequences

CONSTANT Capacity        \* how many tasks may wait
CONSTANT MaxSubmissions  \* bound on the tasks ever submitted

None == 0                \* no task: tasks are numbered from 1

VARIABLES
  submitted,  \* how many tasks were submitted
  pending,    \* the tasks waiting, oldest first
  inHand,     \* the task being executed, or None
  handled,    \* the tasks executed, in the order of their execution
  lost,       \* the tasks dropped by an overflow
  closed      \* no further submission, no task left

vars == <<submitted, pending, inHand, handled, lost, closed>>

Init ==
  /\ submitted = 0
  /\ pending = <<>>
  /\ inHand = None
  /\ handled = <<>>
  /\ lost = {}
  /\ closed = FALSE

(* The caller never waits: a full queue makes room by losing its head.     *)
Submit ==
  /\ ~closed
  /\ submitted < MaxSubmissions
  /\ submitted' = submitted + 1
  /\ IF Len(pending) >= Capacity
     THEN /\ pending' = Append(Tail(pending), submitted + 1)
          /\ lost' = lost \cup {Head(pending)}
     ELSE /\ pending' = Append(pending, submitted + 1)
          /\ lost' = lost
  /\ UNCHANGED <<inHand, handled, closed>>

Take ==
  /\ inHand = None
  /\ pending # <<>>
  /\ inHand' = Head(pending)
  /\ pending' = Tail(pending)
  /\ UNCHANGED <<submitted, handled, lost, closed>>

Finish ==
  /\ inHand # None
  /\ handled' = Append(handled, inHand)
  /\ inHand' = None
  /\ UNCHANGED <<submitted, pending, lost, closed>>

(* Closing loses nothing: everything submitted was executed or had been    *)
(* dropped before.                                                         *)
Close ==
  /\ ~closed
  /\ pending = <<>>
  /\ inHand = None
  /\ closed' = TRUE
  /\ UNCHANGED <<submitted, pending, inHand, handled, lost>>

Next == Submit \/ Take \/ Finish \/ Close

Spec == Init /\ [][Next]_vars
=============================================================================
