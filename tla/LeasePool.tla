----------------------------- MODULE LeasePool -----------------------------
(***************************************************************************)
(* What db_mysql.h and db_sync.h promise of the connection pool ("returns  *)
(* a connection, or NULL after timeout_ms", "each worker holds a           *)
(* connection of its own"), without lock, marks, counter or reconnection.  *)
(* A thread that asks is granted a handle that nobody has, or comes back   *)
(* without one, which it may only when its time is over.                   *)
(***************************************************************************)
CONSTANTS
  Threads,  \* the users
  Handles,  \* what is lent
  Nothing   \* no handle

VARIABLES
  asking,  \* the threads inside borrow
  late,    \* those of them whose time is over
  lease    \* lease[t]: the handle t has, or Nothing

vars == <<asking, late, lease>>

Init ==
  /\ asking = {}
  /\ late = {}
  /\ lease = [t \in Threads |-> Nothing]

Leased == {lease[t] : t \in Threads} \ {Nothing}

(* Nobody asks for a second handle.                                        *)
Ask(t) ==
  /\ t \notin asking /\ lease[t] = Nothing
  /\ asking' = asking \cup {t}
  /\ UNCHANGED <<late, lease>>

Grant(t) ==
  /\ t \in asking
  /\ \E h \in Handles \ Leased : lease' = [lease EXCEPT ![t] = h]
  /\ asking' = asking \ {t}
  /\ late' = late \ {t}

TimeIsOver(t) ==
  /\ t \in asking
  /\ late' = late \cup {t}
  /\ UNCHANGED <<asking, lease>>

GiveUp(t) ==
  /\ t \in late
  /\ asking' = asking \ {t}
  /\ late' = late \ {t}
  /\ UNCHANGED lease

GiveBack(t) ==
  /\ lease[t] # Nothing
  /\ lease' = [lease EXCEPT ![t] = Nothing]
  /\ UNCHANGED <<asking, late>>

Next ==
  \E t \in Threads : Ask(t) \/ Grant(t) \/ TimeIsOver(t) \/ GiveUp(t) \/ GiveBack(t)

Spec == Init /\ [][Next]_vars
=============================================================================
