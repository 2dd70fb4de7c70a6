------------------------------ MODULE CallLog ------------------------------
(* The call log of lua/route.lua: a ring of CALL_LOG_MAX entries that       *)
(* log_call writes and get_call_logs reads.  An entry is known by its       *)
(* number in the order of writing; its texts are left out.                  *)
EXTENDS Integers, Sequences

CONSTANT CallLogMax   \* CALL_LOG_MAX

ASSUME CallLogMaxAssumption == CallLogMax \in Nat \ {0}

VARIABLES
  callLog,        \* CALL_LOG, 0 for nil
  callLogIndex,   \* CALL_LOG_INDEX
  logged          \* history: the number of entries written so far

logVars == <<callLog, callLogIndex, logged>>

Places == 1..CallLogMax

LogInit ==
  /\ callLog = [i \in Places |-> 0]
  /\ callLogIndex = 0
  /\ logged = 0

SkipsFirst == IF callLogIndex = CallLogMax THEN 2 ELSE callLogIndex + 1  \* faulty
NeverWraps == callLogIndex + 1  \* faulty
NextPlace == (callLogIndex % CallLogMax) + 1

LogCall ==
  /\ callLogIndex' = NextPlace
  /\ callLog' = [callLog EXCEPT ![NextPlace] = logged + 1]
  /\ logged' = logged + 1

-----------------------------------------------------------------------------
\* The loops of get_recent_logs skip the places that were never written.
Written(log) == SelectSeq(log, LAMBDA entry : entry # 0)

\* The latest n, or as many as come before the index: `start` of get_recent_logs.
UpToIndex(n) ==
  Written(SubSeq(callLog, IF callLogIndex > n THEN callLogIndex - n + 1 ELSE 1, callLogIndex))

\* Its second loop; CALL_LOG_INDEX + n - CALL_LOG_MAX - 1 may be negative.
FromStart(n) ==
  LET last == callLogIndex + n - CallLogMax - 1
  IN  IF callLogIndex + n <= CallLogMax + 1 THEN <<>>
      ELSE Written(SubSeq(callLog, 1, IF last > CallLogMax THEN CallLogMax ELSE last))

RecentLogs(n) == UpToIndex(n) \o FromStart(n)

-----------------------------------------------------------------------------
\* The number of the entry that belongs in place i after `logged` entries.
Latest(i) ==
  IF i <= callLogIndex THEN logged - (callLogIndex - i)
  ELSE IF logged > callLogIndex THEN logged - callLogIndex + i - CallLogMax
  ELSE 0

\* log_call: however often the index wrapped, the ring holds the latest
\* CALL_LOG_MAX entries, each in its place, and none is lost before its time.
RingHoldsLatest ==
  /\ callLogIndex <= CallLogMax /\ callLogIndex <= logged
  /\ \A i \in Places : callLog[i] = Latest(i)
  /\ \A e \in 1..logged : e + CallLogMax > logged => \E i \in Places : callLog[i] = e

Newest(n) == [k \in 1..n |-> logged - n + k]

-----------------------------------------------------------------------------
(* What the comment of get_call_logs says and the script does not do: TLC   *)
(* refutes it; no run is kept for it.                                       *)

\* route.lua, "get the most recent call logs": get_call_logs(n) never returns more
\* than n entries, nor fewer when they are there.
RecentLogsExact ==
  \A n \in Places : n <= logged => RecentLogs(n) = Newest(n)
=============================================================================
