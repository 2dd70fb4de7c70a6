---------------------------- MODULE RoutingProofs ----------------------------
(* Proofs about Routing and SipCalls, for any departments, agents, callers, *)
(* configurations and hours.  Whom a call is offered and whether it is      *)
(* refused follows from the agents' states when it is routed, along every   *)
(* path of route_call; the retries of a caller follow from an invariant     *)
(* that relates what he heard in a row to the script's own counter and the  *)
(* times it was set back; that the queues are fresh and bounded follows     *)
(* from what the walk of queue_cleanup has left behind, by induction over   *)
(* its passes.                                                              *)
EXTENDS SipCalls, WellFoundedInduction, TLAPS

-----------------------------------------------------------------------------
(* A set of numbers that is not empty has a least one: induction, as a fact *)
(* about sets.                                                              *)
LEMMA LeastNumber ==
  ASSUME NEW S \in SUBSET Nat, S # {}
  PROVE  \E n \in S : \A m \in S : n <= m
<1>1. PICK x \in S : \A y \in S : ~(<<y, x>> \in OpToRel(<, Nat))
  BY WFMin, NatLessThanWellFounded, Zenon
<1>2. \A y \in S : ~(y < x)
  BY <1>1 DEF OpToRel
<1>3. QED
  BY <1>2

(* A set of ranks that is not empty has a lowest one.                       *)
LEMMA LowestRank ==
  ASSUME NEW S \in SUBSET Nat, S # {}
  PROVE  Min(S) \in S
BY LeastNumber, Zenon DEF Min

(* overflow_priority: its ranks are numbers, its entries what Range says.   *)
LEMMA Ranks ==
  ASSUME config \in Configs
  PROVE  /\ DOMAIN config.overflow_priority \in SUBSET Nat
         /\ \A i \in DOMAIN config.overflow_priority :
              config.overflow_priority[i] \in Range(config.overflow_priority)
         /\ \A d \in Range(config.overflow_priority) :
              \E i \in DOMAIN config.overflow_priority : config.overflow_priority[i] = d
<1> DEFINE p == config.overflow_priority
<1>1. p \in Seq(Depts)
  BY ConfigAssumption DEF ConfigType
<1>2. DOMAIN p = 1..Len(p) /\ Len(p) \in Nat
  BY <1>1
<1>3. QED
  BY <1>2 DEF Range

(* The digits of a key are a department that is open to the outside.        *)
LEMMA KeyOfExternal ==
  ASSUME NEW k \in Digits, k.kind = "key"
  PROVE  k.of \in External
BY DEF Digits

(* pick_idle_agent: an idle agent of the department.                        *)
LEMMA PickedIdle ==
  ASSUME NEW d, NEW a \in PickIdleAgent(d)
  PROVE  a \in Agents /\ DeptOf[a] = d /\ status[a] = "idle"
BY DEF PickIdleAgent, LongestIdle, IdleOf, AgentsOf

(* An agent of the department, or the common desk, which is no agent.       *)
LEMMA DeskOrIdle ==
  ASSUME NEW d, NEW t \in PickOr(d, Support), t \in Agents
  PROVE  status[t] = "idle" /\ DeptOf[t] = d
<1>1. Support \notin Agents
  BY ResourceAssumption
<1>2. CASE IdleOf(d) = {}
  BY <1>1, <1>2 DEF PickOr
<1>3. CASE IdleOf(d) # {}
  BY <1>1, <1>3, PickedIdle DEF PickOr
<1>4. QED
  BY <1>2, <1>3

-----------------------------------------------------------------------------
Offered == status[answer'.target] = "idle" /\ DeptOf[answer'.target] \in Reachable

(* route_call for a key: the agent offered, if any, is idle and of the      *)
(* department asked for, the common desk or one on the overflow list.       *)
LEMMA KeyOffers ==
  ASSUME config \in Configs, NEW c, NEW k \in Digits, KeyRoute(c, k), answer'.target \in Agents
  PROVE  Offered
<1>1. /\ k.of \in External /\ Support \in External /\ open
      /\ External \cap Agents = {} /\ Depts \cap Agents = {} /\ None \notin Agents
  BY KeyOfExternal, ResourceAssumption DEF KeyRoute
<1>2. CASE AssignAgent(c, k)
  BY <1>1, <1>2, PickedIdle DEF AssignAgent, Respond, Offered, Reachable
<1>3. CASE DeptOffline(c, k)
  BY <1>1, <1>3 DEF DeptOffline, Respond
<1>4. CASE OverflowToSupport(c, k)
  BY <1>1, <1>4, PickedIdle DEF OverflowToSupport, Respond, Offered, Reachable
<1>5. CASE OverflowToOther(c, k)
  <2>1. OverflowRanks(k.of) \in SUBSET Nat /\ OverflowRanks(k.of) # {}
        /\ OverflowRanks(k.of) \subseteq DOMAIN config.overflow_priority
    BY <1>5, Ranks DEF OverflowToOther, OverflowRanks
  <2>2. config.overflow_priority[Min(OverflowRanks(k.of))] \in Range(config.overflow_priority)
    BY <2>1, LowestRank, Ranks
  <2>3. QED
    BY <1>1, <1>5, <2>2, PickedIdle DEF OverflowToOther, Respond, Offered, Reachable
<1>6. CASE QueuePush(c, k) \/ QueueRefused(c, k)
  BY <1>1, <1>6 DEF QueuePush, QueueRefused, Respond
<1>7. QED
  BY <1>2, <1>3, <1>4, <1>5, <1>6 DEF KeyRoute, OverflowRoute

(* route_call for a caller from outside.                                    *)
LEMMA CallOffers ==
  ASSUME config \in Configs, NEW c, NEW k \in Digits, ExternalCall(c, k), answer'.target \in Agents
  PROVE  Offered
<1>1. None \notin Agents /\ Support \in External
  BY ResourceAssumption
<1>2. CASE NightRoute(c, k)
  BY <1>1, <1>2, DeskOrIdle DEF NightRoute, Respond, Offered, Reachable
<1>3. CASE TimeoutFallback(c, k)
  BY <1>1, <1>3, DeskOrIdle DEF TimeoutFallback, Respond, Offered, Reachable
<1>4. CASE InvalidKeyFallback(c, k)
  BY <1>1, <1>4, DeskOrIdle DEF InvalidKeyFallback, Respond, Offered, Reachable
<1>5. CASE KeyRoute(c, k)
  BY <1>5, KeyOffers
<1>6. QED
  BY <1>2, <1>3, <1>4, <1>5 DEF ExternalCall

Refusable(k) ==
  /\ k.kind = "key"
  /\ \/ Online(k.of) = {}
     \/ \A d \in {k.of, Support} \cup Range(config.overflow_priority) : IdleOf(d) = {}

(* sip_handle_invite: by day, a status of 400 or more means that the        *)
(* department of the key was offline, or that every overflow found nobody.  *)
LEMMA CallRefusals ==
  ASSUME config \in Configs, NEW c, NEW k \in Digits, ExternalCall(c, k), open, Status >= 400
  PROVE  Refusable(answer'.digits)
<1>1. answer'.code \notin {"SUCCESS", "QUEUED", "FALLBACK_AGENT", "TIMEOUT_RETRY", "INVALID_KEY_RETRY"}
  BY DEF Status, Outcome, Ringing
<1>2. KeyRoute(c, k)
  BY <1>1 DEF ExternalCall, NightRoute, TimeoutFallback, InvalidKeyFallback, Respond
<1>3. DeptOffline(c, k) \/ (QueueRefused(c, k) /\ OverflowRoute(c, k))
  BY <1>1, <1>2 DEF KeyRoute, OverflowRoute, AssignAgent, OverflowToSupport, OverflowToOther,
     QueuePush, Respond
<1>4. CASE DeptOffline(c, k)
  BY <1>2, <1>4 DEF DeptOffline, KeyRoute, Respond, Refusable
<1>5. CASE QueueRefused(c, k) /\ OverflowRoute(c, k)
  <2>1. /\ IdleOf(k.of) = {} /\ IdleOf(Support) = {} /\ OverflowRanks(k.of) = {}
        /\ k.kind = "key" /\ answer'.digits = k
    BY <1>2, <1>5 DEF KeyRoute, OverflowRoute, QueueRefused, Respond
  <2>2. ASSUME NEW d \in Range(config.overflow_priority), IdleOf(d) # {}
        PROVE  FALSE
    <3>1. PICK i \in DOMAIN config.overflow_priority : config.overflow_priority[i] = d
      BY <2>2, Ranks
    <3>2. d # k.of
      BY <2>1, <2>2
    <3>3. QED
      BY <2>1, <2>2, <3>1, <3>2 DEF OverflowRanks
  <2>3. QED
    BY <2>1, <2>2 DEF Refusable
<1>6. QED
  BY <1>3, <1>4, <1>5

-----------------------------------------------------------------------------
(* The inductive invariant: a caller's count is below some limit in use,    *)
(* and it lags behind what he heard in a row by at most as much as the      *)
(* resets in that row can have taken away.                                  *)
Limit(f) == f.max_invalid_keys - 1

Below(n) == \E f \in Configs : n <= Limit(f)
Lags(heard, times, count) == \E f \in Configs : heard <= times * Limit(f) + count

Counters ==
  /\ config \in Configs
  /\ invalid \in [Outsiders -> Nat]
  /\ streak \in [Outsiders -> Nat] /\ resets \in [Outsiders -> Nat]
  /\ \A c \in Outsiders : Below(invalid[c]) /\ Lags(streak[c], resets[c], invalid[c])
  /\ answer.digits \in Digits

(* Limits are numbers, and of two there is a larger one.                    *)
LEMMA Limits ==
  /\ \A f \in Configs : Limit(f) \in Nat
  /\ \A f, g \in Configs : \E h \in Configs : Limit(f) <= Limit(h) /\ Limit(g) <= Limit(h)
  /\ DefaultConfig \in Configs
<1>1. \A f \in Configs : Limit(f) \in Nat
  BY ConfigAssumption DEF ConfigType, Limit
<1>2. ASSUME NEW f \in Configs, NEW g \in Configs
      PROVE  \E h \in Configs : Limit(f) <= Limit(h) /\ Limit(g) <= Limit(h)
  <2>1. Limit(f) \in Nat /\ Limit(g) \in Nat
    BY <1>1
  <2>2. CASE Limit(f) <= Limit(g)
    BY <2>1, <2>2
  <2>3. CASE Limit(g) <= Limit(f)
    BY <2>1, <2>3
  <2>4. QED
    BY <2>1, <2>2, <2>3
<1>3. QED
  BY <1>1, <1>2, ConfigAssumption

(* Multiplication is monotonic.                                             *)
LEMMA Times ==
  ASSUME NEW n \in Nat, NEW a \in Nat, NEW b \in Nat, a <= b
  PROVE  n * a \in Nat /\ n * a <= n * b /\ (n + 1) * a = n * a + a
<1>1. PICK d \in Nat : b = a + d
  <2>1. b - a \in Nat /\ b = a + (b - a)
    OBVIOUS
  <2>2. QED
    BY <2>1
<1>2. n * b = n * a + n * d /\ n * d >= 0 /\ n * a >= 0
  BY <1>1
<1>3. QED
  BY <1>1, <1>2

(* What he heard, with the count set back now, or bounded by the limits.    *)
LEMMA OneMoreReset ==
  ASSUME NEW heard \in Nat, NEW times \in Nat, NEW count \in Nat,
         Below(count), Lags(heard, times, count)
  PROVE  \E h \in Configs : heard <= (times + 1) * Limit(h)
<1>1. PICK f \in Configs : count <= Limit(f)
  BY DEF Below
<1>2. PICK g \in Configs : heard <= times * Limit(g) + count
  BY DEF Lags
<1>3. PICK h \in Configs : Limit(f) <= Limit(h) /\ Limit(g) <= Limit(h)
  BY Limits
<1>4. Limit(f) \in Nat /\ Limit(g) \in Nat /\ Limit(h) \in Nat
  BY Limits
<1>5. /\ times * Limit(g) <= times * Limit(h)
      /\ (times + 1) * Limit(h) = times * Limit(h) + Limit(h)
      /\ times * Limit(g) \in Nat /\ times * Limit(h) \in Nat
  BY <1>3, <1>4, Times
<1>6. heard <= (times + 1) * Limit(h)
  <2>1. \A x1, y1, l1, c1, lf \in Nat :
          heard <= x1 + c1 /\ c1 <= lf /\ lf <= l1 /\ x1 <= y1 => heard <= y1 + l1
    OBVIOUS
  <2>2. heard <= times * Limit(h) + Limit(h)
    BY <1>1, <1>2, <1>3, <1>4, <1>5, <2>1
  <2>3. QED
    BY <1>5, <2>2
<1>7. QED
  BY <1>6

(* A row that has ended, or not begun.                                      *)
LEMMA NoneHeard ==
  ASSUME NEW times \in Nat, NEW count \in Nat
  PROVE  Below(0) /\ Lags(0, times, count)
<1>1. Limit(DefaultConfig) \in Nat /\ DefaultConfig \in Configs
  BY Limits
<1>2. times * Limit(DefaultConfig) \in Nat
  BY <1>1, Times
<1>3. QED
  BY <1>1, <1>2 DEF Below, Lags

(* What a step may do to a caller's counters: nothing; one more retry; end  *)
(* his row, with or without his count; or set his count back within it.     *)
Untouched(c) == invalid'[c] = invalid[c] /\ streak'[c] = streak[c] /\ resets'[c] = resets[c]
Retried(c) ==
  /\ invalid'[c] = invalid[c] + 1 /\ ~TooMany(invalid[c] + 1)
  /\ streak'[c] = streak[c] + 1 /\ resets'[c] = resets[c]
RowEnds(c) == invalid'[c] \in {0, invalid[c]} /\ streak'[c] = 0 /\ resets'[c] = 0
SetBack(c) ==
  /\ invalid'[c] = 0 /\ streak'[c] = streak[c]
  /\ resets'[c] = IF streak[c] > 0 THEN resets[c] + 1 ELSE resets[c]

LEMMA CountersKept ==
  ASSUME Counters, config' \in Configs, answer'.digits \in Digits,
         invalid' \in [Outsiders -> Nat], streak' \in [Outsiders -> Nat],
         resets' \in [Outsiders -> Nat],
         \A c \in Outsiders : Untouched(c) \/ Retried(c) \/ RowEnds(c) \/ SetBack(c)
  PROVE  Counters'
<1>1. ASSUME NEW c \in Outsiders
      PROVE  Below(invalid'[c]) /\ Lags(streak'[c], resets'[c], invalid'[c])
  <2>0. /\ invalid[c] \in Nat /\ streak[c] \in Nat /\ resets[c] \in Nat
        /\ Below(invalid[c]) /\ Lags(streak[c], resets[c], invalid[c])
    BY DEF Counters
  <2>1. CASE Untouched(c)
    BY <2>0, <2>1 DEF Untouched
  <2>2. CASE Retried(c)
    <3>1. config \in Configs /\ config.max_invalid_keys \in Nat /\ Limit(config) \in Nat
      BY Limits, ConfigAssumption DEF Counters, ConfigType
    <3>2. Below(invalid'[c])
      BY <2>0, <2>2, <3>1 DEF Retried, TooMany, Below, Limit
    <3>3. PICK f \in Configs : streak[c] <= resets[c] * Limit(f) + invalid[c]
      BY <2>0 DEF Lags
    <3>4. resets[c] * Limit(f) \in Nat
      BY <2>0, Limits, Times
    <3>5. streak[c] + 1 <= resets[c] * Limit(f) + (invalid[c] + 1)
      <4>1. \A h, x, n \in Nat : h <= x + n => h + 1 <= x + (n + 1)
        OBVIOUS
      <4>2. QED
        BY <2>0, <3>3, <3>4, <4>1
    <3>6. QED
      BY <2>2, <3>2, <3>5 DEF Retried, Lags
  <2>3. CASE RowEnds(c)
    <3>1. invalid'[c] \in Nat /\ streak'[c] = 0 /\ resets'[c] = 0
      BY <2>0, <2>3 DEF RowEnds
    <3>2. Below(invalid'[c])
      BY <2>0, <2>3, NoneHeard DEF RowEnds
    <3>3. QED
      BY <3>1, <3>2, NoneHeard
  <2>4. CASE SetBack(c) /\ streak[c] = 0
    <3>1. invalid'[c] = 0 /\ streak'[c] = 0 /\ resets'[c] = resets[c]
      BY <2>4 DEF SetBack
    <3>2. QED
      BY <2>0, <3>1, NoneHeard
  <2>5. CASE SetBack(c) /\ streak[c] # 0
    <3>1. invalid'[c] = 0 /\ streak'[c] = streak[c] /\ resets'[c] = resets[c] + 1
      BY <2>0, <2>5 DEF SetBack
    <3>2. PICK h \in Configs : streak[c] <= (resets[c] + 1) * Limit(h)
      BY <2>0, OneMoreReset
    <3>3. (resets[c] + 1) * Limit(h) \in Nat
      <4>1. Limit(h) \in Nat
        BY Limits
      <4>2. resets[c] + 1 \in Nat /\ Limit(h) <= Limit(h)
        BY <2>0, <4>1
      <4>3. QED
        BY <4>1, <4>2, Times
    <3>4. Lags(streak'[c], resets'[c], invalid'[c])
      <4>1. \A x, y \in Nat : x <= y => x <= y + 0
        OBVIOUS
      <4>2. streak[c] <= (resets[c] + 1) * Limit(h) + 0
        BY <2>0, <3>2, <3>3, <4>1
      <4>3. QED
        BY <3>1, <4>2 DEF Lags
    <3>5. QED
      BY <2>0, <3>1, <3>4, NoneHeard
  <2>6. QED
    BY <2>1, <2>2, <2>3, <2>4, <2>5
<1>2. QED
  BY <1>1 DEF Counters

(* route_call for a caller from outside: a retry below the limit, or the    *)
(* end of his row; other callers are not touched.                           *)
LEMMA CallCounts ==
  ASSUME Counters, NEW c \in Outsiders, NEW k \in Digits, ExternalCall(c, k)
  PROVE  Counters'
<1>1. /\ config \in Configs /\ invalid \in [Outsiders -> Nat]
      /\ streak \in [Outsiders -> Nat] /\ resets \in [Outsiders -> Nat]
  BY DEF Counters
<1>2. config' \in Configs
  BY <1>1 DEF ExternalCall
<1>3. answer'.digits \in Digits
  BY DEF ExternalCall, NightRoute, TimeoutFallback, InvalidKeyFallback, KeyRoute, AssignAgent,
     DeptOffline, OverflowRoute, OverflowToSupport, OverflowToOther, QueuePush, QueueRefused,
     Respond
<1>4. /\ invalid' \in [Outsiders -> Nat]
      /\ streak' \in [Outsiders -> Nat] /\ resets' \in [Outsiders -> Nat]
      /\ \A b \in Outsiders : Untouched(b) \/ Retried(b) \/ RowEnds(b)
  <2>1. CASE Settled(c) /\ invalid' = invalid
    BY <1>1, <2>1 DEF Settled, Untouched, RowEnds
  <2>2. CASE Settled(c) /\ invalid' = Forgotten(c)
    BY <1>1, <2>2 DEF Settled, Forgotten, Untouched, RowEnds
  <2>3. CASE /\ ~TooMany(invalid[c] + 1) /\ resets' = resets
             /\ invalid' = [invalid EXCEPT ![c] = @ + 1] /\ streak' = [streak EXCEPT ![c] = @ + 1]
    BY <1>1, <2>3 DEF Untouched, Retried
  <2>4. QED
    BY <2>1, <2>2, <2>3 DEF ExternalCall, NightRoute, TimeoutFallback, InvalidKeyFallback, KeyRoute
<1>5. QED
  BY <1>2, <1>3, <1>4, CountersKept

(* Calls between extensions, and the upkeep.                                *)
LEMMA OthersCount ==
  ASSUME Counters, Upkeep \/ (\E a \in Agents, k \in Digits : InternalCall(a, k)) \/ UNCHANGED vars
  PROVE  Counters'
<1>1. /\ config \in Configs /\ invalid \in [Outsiders -> Nat] /\ answer.digits \in Digits
      /\ streak \in [Outsiders -> Nat] /\ resets \in [Outsiders -> Nat] /\ DefaultConfig \in Configs
  BY Limits DEF Counters
<1>2. CASE Reload
  <2>1. ResetInRow(Outsiders) /\ invalid' = [c \in Outsiders |-> 0]
        /\ config' = DefaultConfig /\ answer' = answer
    BY <1>2 DEF Reload
  <2>2. \A c \in Outsiders : SetBack(c)
    BY <1>1, <2>1 DEF ResetInRow, SetBack
  <2>3. /\ invalid' \in [Outsiders -> Nat] /\ streak' \in [Outsiders -> Nat]
        /\ resets' \in [Outsiders -> Nat]
    BY <1>1, <2>1 DEF ResetInRow
  <2>4. QED
    BY <1>1, <2>1, <2>2, <2>3, CountersKept
<1>3. ASSUME NEW c \in Outsiders, ResetInvalidKeyCount(c) PROVE Counters'
  <2>1. ResetInRow({c}) /\ invalid' = [invalid EXCEPT ![c] = 0] /\ UNCHANGED <<config, answer>>
    BY <1>3 DEF ResetInvalidKeyCount, Forgotten
  <2>2. \A b \in Outsiders : SetBack(b) \/ Untouched(b)
    BY <1>1, <2>1 DEF ResetInRow, SetBack, Untouched
  <2>3. /\ invalid' \in [Outsiders -> Nat] /\ streak' \in [Outsiders -> Nat]
        /\ resets' \in [Outsiders -> Nat]
    BY <1>1, <2>1 DEF ResetInRow
  <2>4. QED
    BY <1>1, <2>1, <2>2, <2>3, CountersKept
<1>4. CASE config' \in Configs /\ UNCHANGED <<invalid, row>> /\ answer'.digits \in Digits
  <2>1. \A c \in Outsiders : Untouched(c)
    BY <1>4 DEF row, Untouched
  <2>2. /\ invalid' \in [Outsiders -> Nat] /\ streak' \in [Outsiders -> Nat]
        /\ resets' \in [Outsiders -> Nat]
    BY <1>1, <1>4 DEF row
  <2>3. QED
    BY <1>4, <2>1, <2>2, CountersKept
<1>5. CASE CheckAgentStatus
  BY <1>1, <1>4, <1>5 DEF CheckAgentStatus, counters
<1>6. CASE Tick
  BY <1>1, <1>4, <1>6 DEF Tick, counters
<1>7. ASSUME NEW a \in Agents, NEW s \in AgentStates, SetAgentState(a, s) PROVE Counters'
  BY <1>1, <1>4, <1>7 DEF SetAgentState, counters
<1>8. ASSUME NEW f \in Configs, UpdateRouteConfig(f) PROVE Counters'
  BY <1>1, <1>4, <1>8 DEF UpdateRouteConfig, counters
<1>9. ASSUME NEW a \in Agents, NEW k \in Digits, InternalCall(a, k) PROVE Counters'
  BY <1>1, <1>4, <1>9 DEF InternalCall, Respond, counters
<1>10. CASE UNCHANGED vars
  BY <1>1, <1>4, <1>10 DEF vars, counters
<1>11. QED
  BY <1>2, <1>3, <1>5, <1>6, <1>7, <1>8, <1>9, <1>10 DEF Upkeep

(* The invariant at the start and from step to step.                        *)
LEMMA CountersAlways == Spec => []Counters
<1>1. Init => Counters
  <2> SUFFICES ASSUME Init PROVE Counters
    OBVIOUS
  <2>1. /\ config = DefaultConfig /\ invalid = [c \in Outsiders |-> 0]
        /\ streak = [c \in Outsiders |-> 0] /\ resets = [c \in Outsiders |-> 0]
        /\ answer.digits = [kind |-> "empty", of |-> None]
    BY DEF Init
  <2>2. answer.digits \in Digits
    BY <2>1 DEF Digits
  <2>3. \A c \in Outsiders : Below(invalid[c]) /\ Lags(streak[c], resets[c], invalid[c])
    BY <2>1, NoneHeard
  <2>4. QED
    BY <2>1, <2>2, <2>3, Limits DEF Counters
<1>2. ASSUME Counters, [Next]_vars PROVE Counters'
  <2>1. \/ Upkeep \/ UNCHANGED vars
        \/ \E c \in Outsiders, k \in Digits : ExternalCall(c, k)
        \/ \E a \in Agents, k \in Digits : InternalCall(a, k)
    BY <1>2, ResourceAssumption DEF Next, Route
  <2>2. QED
    BY <1>2, <2>1, CallCounts, OthersCount
<1>3. QED
  BY <1>1, <1>2, PTL DEF Spec

-----------------------------------------------------------------------------
(* invalid_key_fallback: in a row of wrong keys a caller hears "try again"  *)
(* below the limit, and as often again for each time his count was set back *)
(* within it, for any limits, however they change, and any other callers.   *)
THEOREM CallersGuided == Spec => []Guided
<1>1. Counters => Guided
  <2> SUFFICES ASSUME Counters, NEW c \in Outsiders
               PROVE  \E f \in Configs : streak[c] <= (resets[c] + 1) * (f.max_invalid_keys - 1)
    BY DEF Guided
  <2>1. /\ invalid[c] \in Nat /\ streak[c] \in Nat /\ resets[c] \in Nat
        /\ Below(invalid[c]) /\ Lags(streak[c], resets[c], invalid[c])
    BY DEF Counters
  <2>2. \E f \in Configs : streak[c] <= (resets[c] + 1) * Limit(f)
    BY <2>1, OneMoreReset
  <2>3. QED
    BY <2>2 DEF Limit
<1>2. QED
  BY <1>1, CountersAlways, PTL

(* An answered call of a caller from outside is one of ExternalCall.        *)
LEMMA OutsideCalls ==
  ASSUME Outside, Answered
  PROVE  ExternalCall(answer'.caller, answer'.digits)
BY ResourceAssumption DEF Outside, Answered, Route

(* pick_idle_agent along every path of route_call: whoever is offered to a  *)
(* caller from outside is idle, and by day of a department with a key or on *)
(* the overflow list, at night of the one on duty.                          *)
THEOREM OffersAreFree == Spec => OfferedAgentIdle
<1>1. ASSUME Counters, Counters', Outside, answer'.target \in Agents, Answered
      PROVE  status[answer'.target] = "idle" /\ DeptOf[answer'.target] \in Reachable
  BY <1>1, OutsideCalls, CallOffers DEF Counters, Offered
<1>2. QED
  BY <1>1, CountersAlways, PTL DEF OfferedAgentIdle

(* The overflow of route.lua and the status table of sip_handle_invite: a   *)
(* caller from outside is refused by day only for a key whose department is *)
(* offline, or when nobody the overflow may send him to is idle.            *)
THEOREM RefusalsJustified == Spec => RefusalJustified
<1>1. ASSUME Counters, Counters', open, Outside, Answered, Status >= 400
      PROVE  Refusable(answer'.digits)
  BY <1>1, OutsideCalls, CallRefusals DEF Counters
<1>2. QED
  BY <1>1, CountersAlways, PTL DEF RefusalJustified, Refusable

-----------------------------------------------------------------------------
(* The walk of queue_cleanup over a queue: w[n] is its list and its index   *)
(* after n passes.                                                          *)
Walk(q, m, w) == w = [n \in 0..m |-> IF n = 0 THEN [list |-> q, i |-> 1] ELSE Pass(w[n - 1])]

(* There is a walk of any number of passes: with the least number for which *)
(* there were none, the walk that is one pass shorter could go on.          *)
LEMMA WalkExists ==
  ASSUME NEW q, NEW m \in Nat
  PROVE  \E w : Walk(q, m, w)
<1> DEFINE B == {n \in Nat : ~\E w : Walk(q, n, w)}
<1>1. SUFFICES ASSUME B # {} PROVE FALSE
  OBVIOUS
<1>2. PICK l \in B : \A k \in B : l <= k
  <2> HIDE DEF B
  <2>1. B \in SUBSET Nat
    BY DEF B
  <2>2. QED
    BY <1>1, <2>1, LeastNumber
<1>3. l # 0
  <2>1. Walk(q, 0, [n \in 0..0 |-> [list |-> q, i |-> 1]])
    BY DEF Walk
  <2>2. QED
    BY <2>1
<1>4. PICK g : Walk(q, l - 1, g)
  BY <1>2, <1>3
<1> DEFINE f == [n \in 0..l |-> IF n = l THEN Pass(g[l - 1]) ELSE g[n]]
<1>5. ASSUME NEW n \in 0..l
      PROVE  f[n] = IF n = 0 THEN [list |-> q, i |-> 1] ELSE Pass(f[n - 1])
  <2>1. CASE n = l
    BY <1>3, <2>1
  <2>2. CASE n # l
    <3>1. n \in 0..(l - 1) /\ l \in Nat
      BY <1>2, <1>3, <2>2
    <3>2. g[n] = IF n = 0 THEN [list |-> q, i |-> 1] ELSE Pass(g[n - 1])
      BY <1>4, <3>1 DEF Walk
    <3>3. f[n] = g[n] /\ (n # 0 => f[n - 1] = g[n - 1])
      BY <3>1
    <3>4. QED
      BY <3>2, <3>3
  <2>3. QED
    BY <2>1, <2>2
<1>6. Walk(q, l, f)
  BY <1>5 DEF Walk
<1>7. QED
  BY <1>6

(* table.remove: the entries before the one removed stay where they are.    *)
LEMMA RemovedFacts ==
  ASSUME NEW T, NEW s \in Seq(T), NEW i \in 1..Len(s)
  PROVE  /\ RemoveAt(s, i) \in Seq(T) /\ Len(RemoveAt(s, i)) = Len(s) - 1
         /\ \A j \in 1..(i - 1) : RemoveAt(s, i)[j] = s[j]
<1> DEFINE a == SubSeq(s, 1, i - 1)
           b == SubSeq(s, i + 1, Len(s))
<1>1. a \in Seq(T) /\ Len(a) = i - 1 /\ \A j \in 1..(i - 1) : a[j] = s[j]
  OBVIOUS
<1>2. b \in Seq(T) /\ Len(b) = Len(s) - i
  OBVIOUS
<1>3. RemoveAt(s, i) = a \o b
  BY DEF RemoveAt
<1> HIDE DEF a, b
<1>4. /\ a \o b \in Seq(T) /\ Len(a \o b) = Len(a) + Len(b)
      /\ \A j \in 1..Len(a) : (a \o b)[j] = a[j]
  BY <1>1, <1>2
<1>5. Len(a) + Len(b) = Len(s) - 1
  BY <1>1, <1>2
<1>6. QED
  BY <1>1, <1>3, <1>4, <1>5

(* After each pass: nobody before the index is expired, and as many entries *)
(* are left to look at as passes.                                           *)
LEMMA CleanedQueueFacts ==
  ASSUME NEW q \in Seq(Entries)
  PROVE  /\ CleanedQueue(q) \in Seq(Entries) /\ Len(CleanedQueue(q)) <= Len(q)
         /\ \A j \in DOMAIN CleanedQueue(q) : Fresh(CleanedQueue(q)[j])
<1> DEFINE m == Len(q)
           w == CHOOSE g : Walk(q, m, g)
<1>1. m \in Nat
  OBVIOUS
<1>2. CleanedQueue(q) = w[m].list
  BY DEF CleanedQueue, Walk
<1>3. Walk(q, m, w)
  BY <1>1, WalkExists
<1> HIDE DEF w
<1> DEFINE Good(n) == /\ w[n] \in [list : Seq(Entries), i : Nat \ {0}]
                      /\ Len(w[n].list) <= m /\ Len(w[n].list) + 1 = w[n].i + (m - n)
                      /\ \A j \in 1..(w[n].i - 1) : Fresh(w[n].list[j])
           B == {n \in 0..m : ~Good(n)}
<1>4. ASSUME B # {} PROVE FALSE
  <2>1. PICK n \in B : \A k \in B : n <= k
    <3> HIDE DEF B
    <3>1. B \in SUBSET Nat
      BY <1>1 DEF B
    <3>2. QED
      BY <1>4, <3>1, LeastNumber
  <2>2. \A k \in 0..m : w[k] = IF k = 0 THEN [list |-> q, i |-> 1] ELSE Pass(w[k - 1])
    BY <1>3 DEF Walk
  <2>3. CASE n = 0
    <3>1. w[0] = [list |-> q, i |-> 1]
      BY <1>1, <2>2
    <3>2. Good(0)
      BY <1>1, <3>1
    <3>3. QED
      BY <2>1, <2>3, <3>2
  <2>4. CASE n # 0
    <3>1. n \in 1..m /\ Good(n - 1) /\ w[n] = Pass(w[n - 1])
      BY <1>1, <2>1, <2>2, <2>4
    <3> DEFINE l == w[n - 1].list
               i == w[n - 1].i
    <3>2. /\ l \in Seq(Entries) /\ i \in Nat \ {0} /\ Len(l) <= m /\ Len(l) = i + (m - n)
          /\ \A j \in 1..(i - 1) : Fresh(l[j]) /\ w[n - 1] = [list |-> l, i |-> i]
      BY <1>1, <3>1
    <3>2a. w[n - 1] = [list |-> l, i |-> i]
      BY <3>1
    <3> HIDE DEF l, i
    <3>3. i \in 1..Len(l) /\ Len(l) \in Nat
      BY <1>1, <3>1, <3>2
    <3>4. CASE Expired(l[i])
      <4>1. w[n] = [list |-> RemoveAt(l, i), i |-> i]
        BY <3>1, <3>2a, <3>3, <3>4 DEF Pass
      <4>2. /\ RemoveAt(l, i) \in Seq(Entries) /\ Len(RemoveAt(l, i)) = Len(l) - 1
            /\ \A j \in 1..(i - 1) : RemoveAt(l, i)[j] = l[j]
        BY <3>2, <3>3, RemovedFacts
      <4>3. Len(RemoveAt(l, i)) <= m /\ Len(RemoveAt(l, i)) + 1 = i + (m - n)
        BY <1>1, <3>1, <3>2, <3>3, <4>2
      <4>4. \A j \in 1..(i - 1) : Fresh(RemoveAt(l, i)[j])
        BY <3>2, <4>2
      <4>5. Good(n)
        BY <3>2, <4>1, <4>2, <4>3, <4>4
      <4>6. QED
        BY <2>1, <4>5
    <3>5. CASE Fresh(l[i])
      <4>1. w[n] = [list |-> l, i |-> i + 1]
        BY <3>1, <3>2a, <3>3, <3>5 DEF Pass, Fresh
      <4>2. \A j \in 1..((i + 1) - 1) : Fresh(l[j])
        BY <3>2, <3>3, <3>5
      <4>3. Len(l) + 1 = (i + 1) + (m - n)
        BY <1>1, <3>1, <3>2, <3>3
      <4>4. Good(n)
        BY <3>2, <4>1, <4>2, <4>3
      <4>5. QED
        BY <2>1, <4>4
    <3>6. QED
      BY <3>4, <3>5 DEF Fresh
  <2>5. QED
    BY <2>3, <2>4
<1>5. Good(m)
  BY <1>1, <1>4
<1>6. w[m].list \in Seq(Entries) /\ Len(w[m].list) <= m /\ Len(w[m].list) + 1 = w[m].i
  BY <1>1, <1>5
<1>7. DOMAIN w[m].list = 1..(w[m].i - 1)
  BY <1>6
<1>8. QED
  BY <1>2, <1>5, <1>6, <1>7

-----------------------------------------------------------------------------
(* The queues: bounded by some limit in use, and of callers from outside.   *)
Held(q) == q \in Seq(Entries) /\ \E f \in Configs : Len(q) <= f.max_queue_size

Desk ==
  /\ status \in [Agents -> AgentStates \cup {"idle"}]
  /\ lastActive \in [Agents -> 0..MaxTime]
  /\ open \in Hours /\ now \in 0..MaxTime

Queues == queue \in [Depts -> Seq(Entries)] /\ \A d \in Depts : Held(queue[d])

Said ==
  /\ timeouts \in [Outsiders -> 0..1]
  /\ answer.code \in Codes /\ answer.target \in Agents \cup Depts \cup {None}

Shapes == Desk /\ Queues /\ Said

(* queue_cleanup: what is left waited, is fresh, and is no more than before. *)
LEMMA CleanedFacts ==
  ASSUME Queues
  PROVE  /\ Cleaned \in [Depts -> Seq(Entries)]
         /\ \A d \in Depts : /\ Held(Cleaned[d])
                             /\ \A i \in DOMAIN Cleaned[d] : Fresh(Cleaned[d][i])
<1>1. ASSUME NEW d \in Depts
      PROVE  /\ Cleaned[d] \in Seq(Entries) /\ Len(Cleaned[d]) <= Len(queue[d])
             /\ \A i \in DOMAIN Cleaned[d] : Fresh(Cleaned[d][i])
  <2>1. queue[d] \in Seq(Entries) /\ Cleaned[d] = CleanedQueue(queue[d])
    BY DEF Queues, Cleaned
  <2>2. QED
    BY <2>1, CleanedQueueFacts
<1>2. ASSUME NEW d \in Depts PROVE Held(Cleaned[d])
  <2>1. PICK f \in Configs : Len(queue[d]) <= f.max_queue_size
    BY DEF Queues, Held
  <2>2. f.max_queue_size \in Nat /\ Len(queue[d]) \in Nat /\ Len(Cleaned[d]) \in Nat
    BY <1>1, ConfigAssumption DEF Queues, ConfigType
  <2>3. Len(Cleaned[d]) <= f.max_queue_size
    BY <1>1, <2>1, <2>2
  <2>4. QED
    BY <1>1, <2>3 DEF Held
<1>3. Cleaned \in [Depts -> Seq(Entries)]
  BY <1>1 DEF Cleaned
<1>4. QED
  BY <1>1, <1>2, <1>3

(* queue_push: the caller who is let in is fresh, and within the limit.     *)
LEMMA PushedFacts ==
  ASSUME Queues, config \in Configs, now \in 0..MaxTime, NEW c \in Outsiders, NEW d \in Depts,
         ~QueueFull(Cleaned[d]),
         queue' = [Cleaned EXCEPT ![d] = Append(@, [caller |-> c, arrival |-> now])]
  PROVE  /\ queue' \in [Depts -> Seq(Entries)]
         /\ \A b \in Depts : Held(queue'[b]) /\ \A i \in DOMAIN queue'[b] : Fresh(queue'[b][i])
<1> DEFINE e == [caller |-> c, arrival |-> now]
<1>1. /\ Cleaned \in [Depts -> Seq(Entries)]
      /\ \A b \in Depts : /\ Held(Cleaned[b])
                          /\ \A i \in DOMAIN Cleaned[b] : Fresh(Cleaned[b][i])
  BY CleanedFacts
<1>2. e \in Entries
  BY DEF Entries
<1>3. Fresh(e)
  <2>1. config.queue_timeout \in Nat
    BY ConfigAssumption DEF ConfigType
  <2>2. QED
    BY <2>1 DEF Fresh, Expired
<1> HIDE DEF e
<1>4. queue' = [Cleaned EXCEPT ![d] = Append(Cleaned[d], e)]
  BY DEF e
<1>5. Append(Cleaned[d], e) \in Seq(Entries) /\ Len(Append(Cleaned[d], e)) = Len(Cleaned[d]) + 1
  BY <1>1, <1>2
<1>6. Held(Append(Cleaned[d], e))
  <2>1. config.max_queue_size \in Nat /\ Len(Cleaned[d]) \in Nat
    BY <1>1, ConfigAssumption DEF ConfigType
  <2>2. Len(Cleaned[d]) + 1 <= config.max_queue_size
    BY <2>1 DEF QueueFull
  <2>3. QED
    BY <1>5, <2>2 DEF Held
<1>7. \A i \in DOMAIN Append(Cleaned[d], e) : Fresh(Append(Cleaned[d], e)[i])
  <2>1. Cleaned[d] \in Seq(Entries) /\ \A i \in DOMAIN Cleaned[d] : Fresh(Cleaned[d][i])
    BY <1>1
  <2>2. \A i \in DOMAIN Append(Cleaned[d], e) :
          Append(Cleaned[d], e)[i] = e \/ (i \in DOMAIN Cleaned[d] /\ Append(Cleaned[d], e)[i] = Cleaned[d][i])
    BY <1>2, <2>1
  <2>3. QED
    BY <1>3, <2>1, <2>2
<1>8. \A b \in Depts : queue'[b] = IF b = d THEN Append(Cleaned[d], e) ELSE Cleaned[b]
  BY <1>1, <1>4
<1>9. queue' \in [Depts -> Seq(Entries)]
  BY <1>1, <1>4, <1>5
<1>10. QED
  BY <1>1, <1>6, <1>7, <1>8, <1>9

(* Everything route_call does for a key cleans the queues.                  *)
LEMMA KeyQueues ==
  ASSUME Queues, config \in Configs, now \in 0..MaxTime, NEW c \in Outsiders, NEW k \in Digits,
         KeyRoute(c, k)
  PROVE  /\ queue' \in [Depts -> Seq(Entries)]
         /\ \A d \in Depts : Held(queue'[d]) /\ \A i \in DOMAIN queue'[d] : Fresh(queue'[d][i])
<1>1. k.of \in Depts
  BY KeyOfExternal, ResourceAssumption DEF KeyRoute
<1>2. CASE QueuePush(c, k)
  BY <1>1, <1>2, PushedFacts DEF QueuePush
<1>3. CASE queue' = Cleaned
  BY <1>3, CleanedFacts
<1>4. QED
  BY <1>2, <1>3 DEF KeyRoute, OverflowRoute, AssignAgent, DeptOffline, OverflowToSupport,
     OverflowToOther, QueueRefused

(* Whom an answer names.                                                    *)
LEMMA TargetsNamed ==
  /\ \A d : PickIdleAgent(d) \subseteq Agents
  /\ \A d : PickOr(d, Support) \subseteq Agents \cup Depts
  /\ Support \in Depts
<1>1. \A d : PickIdleAgent(d) \subseteq Agents
  BY PickedIdle
<1>2. Support \in Depts
  BY ResourceAssumption
<1>3. QED
  BY <1>1, <1>2 DEF PickOr

(* The answer to a key.                                                     *)
LEMMA KeySaid ==
  ASSUME NEW c \in Outsiders, NEW k \in Digits, KeyRoute(c, k)
  PROVE  answer'.code \in Codes /\ answer'.target \in Agents \cup Depts \cup {None}
<1>1. k.of \in Depts
  BY KeyOfExternal, ResourceAssumption DEF KeyRoute
<1>2. CASE AssignAgent(c, k)
  BY <1>2, TargetsNamed DEF AssignAgent, Respond, Codes
<1>3. CASE DeptOffline(c, k)
  BY <1>3, TargetsNamed DEF DeptOffline, Respond, Codes
<1>4. CASE OverflowToSupport(c, k)
  BY <1>4, TargetsNamed DEF OverflowToSupport, Respond, Codes
<1>5. CASE OverflowToOther(c, k)
  BY <1>5, TargetsNamed DEF OverflowToOther, Respond, Codes
<1>6. CASE QueuePush(c, k) \/ QueueRefused(c, k)
  BY <1>1, <1>6 DEF QueuePush, QueueRefused, Respond, Codes
<1>7. QED
  BY <1>2, <1>3, <1>4, <1>5, <1>6 DEF KeyRoute, OverflowRoute

(* route_call for a caller from outside.                                    *)
LEMMA CallShapes ==
  ASSUME Shapes, Counters, NEW c \in Outsiders, NEW k \in Digits, ExternalCall(c, k)
  PROVE  Shapes'
<1>1. /\ Desk /\ Queues /\ Said /\ config \in Configs /\ now \in 0..MaxTime
      /\ UNCHANGED <<status, lastActive, config, open, now>>
  BY DEF Shapes, Desk, Counters, ExternalCall, desk, clock
<1>2. Desk'
  BY <1>1 DEF Desk
<1>3. Queues'
  <2>1. CASE KeyRoute(c, k)
    BY <1>1, <2>1, KeyQueues DEF Queues, Held
  <2>2. CASE queue' = queue
    BY <1>1, <2>2 DEF Queues, Held
  <2>3. QED
    BY <2>1, <2>2 DEF ExternalCall, NightRoute, TimeoutFallback, InvalidKeyFallback
<1>4. Said'
  <2>1. timeouts' \in [Outsiders -> 0..1]
    <3>1. CASE TimeoutFallback(c, k)
      <4>1. timeouts[c] \in 0..1 /\ timeouts \in [Outsiders -> 0..1]
        BY <1>1 DEF Said
      <4>2. CASE timeouts[c] + 1 < 2
        <5>1. timeouts' = [timeouts EXCEPT ![c] = timeouts[c] + 1] /\ timeouts[c] + 1 \in 0..1
          BY <3>1, <4>1, <4>2 DEF TimeoutFallback
        <5>2. QED
          BY <4>1, <5>1
      <4>3. CASE timeouts[c] + 1 >= 2
        BY <3>1, <4>1, <4>3 DEF TimeoutFallback
      <4>4. QED
        BY <4>1, <4>2, <4>3
    <3>2. CASE timeouts' = timeouts
      BY <1>1, <3>2 DEF Said
    <3>3. QED
      BY <3>1, <3>2 DEF ExternalCall, NightRoute, InvalidKeyFallback, KeyRoute
  <2>2. answer'.code \in Codes /\ answer'.target \in Agents \cup Depts \cup {None}
    <3>1. CASE NightRoute(c, k)
      BY <3>1, TargetsNamed DEF NightRoute, Respond, Codes
    <3>2. CASE TimeoutFallback(c, k)
      BY <3>2, TargetsNamed DEF TimeoutFallback, Respond, Codes
    <3>3. CASE InvalidKeyFallback(c, k)
      BY <3>3, TargetsNamed DEF InvalidKeyFallback, Respond, Codes
    <3>4. QED
      BY <3>1, <3>2, <3>3, KeySaid DEF ExternalCall
  <2>3. QED
    BY <2>1, <2>2 DEF Said
<1>5. QED
  BY <1>2, <1>3, <1>4 DEF Shapes

(* Calls between extensions, and the upkeep.                                *)
LEMMA OthersShaped ==
  ASSUME Shapes, Upkeep \/ (\E a \in Agents, k \in Digits : InternalCall(a, k)) \/ UNCHANGED vars
  PROVE  Shapes'
<1>1. /\ Desk /\ Queues /\ Said /\ now \in 0..MaxTime
      /\ status \in [Agents -> AgentStates \cup {"idle"}] /\ lastActive \in [Agents -> 0..MaxTime]
  BY DEF Shapes, Desk
<1>2. CASE CheckAgentStatus
  <2>1. Queues'
    BY <1>1, <1>2, CleanedFacts DEF CheckAgentStatus, Queues, Held
  <2>2. QED
    BY <1>1, <1>2, <2>1 DEF CheckAgentStatus, Shapes, Desk, Said, desk, counters, clock
<1>3. CASE Reload
  <2>1. Desk'
    BY <1>1, <1>3 DEF Reload, Desk, clock
  <2>2. Said'
    BY <1>1, <1>3 DEF Reload, Said
  <2>3. Queues'
    <3>1. /\ <<>> \in Seq(Entries) /\ DefaultConfig \in Configs
          /\ Len(<<>>) <= DefaultConfig.max_queue_size
      BY ConfigAssumption DEF ConfigType
    <3>2. queue' = [d \in Depts |-> <<>>]
      BY <1>3 DEF Reload
    <3>3. QED
      BY <3>1, <3>2 DEF Queues, Held
  <2>4. QED
    BY <2>1, <2>2, <2>3 DEF Shapes
<1>4. CASE Tick
  <2>1. now' \in 0..MaxTime
    BY <1>1, <1>4, ConfigAssumption DEF Tick
  <2>2. QED
    BY <1>1, <1>4, <2>1 DEF Tick, Shapes, Desk, Queues, Held, Said, desk, counters
<1>5. ASSUME NEW a \in Agents, NEW s \in AgentStates, SetAgentState(a, s) PROVE Shapes'
  <2>1. Desk'
    BY <1>1, <1>5 DEF SetAgentState, Desk, clock
  <2>2. QED
    BY <1>1, <1>5, <2>1 DEF SetAgentState, Shapes, Queues, Held, Said, counters
<1>6. ASSUME NEW f \in Configs, UpdateRouteConfig(f) PROVE Shapes'
  BY <1>1, <1>6 DEF UpdateRouteConfig, Shapes, Desk, Queues, Held, Said, desk, counters, clock
<1>7. ASSUME NEW c \in Outsiders, ResetInvalidKeyCount(c) PROVE Shapes'
  <2>1. timeouts' \in [Outsiders -> 0..1]
    BY <1>1, <1>7 DEF ResetInvalidKeyCount, Said
  <2>2. QED
    BY <1>1, <1>7, <2>1 DEF ResetInvalidKeyCount, Shapes, Desk, Queues, Held, Said, desk, clock
<1>8. ASSUME NEW a \in Agents, NEW k \in Digits, InternalCall(a, k) PROVE Shapes'
  <2>1. UNCHANGED <<desk, queue, counters, config, clock>>
    BY <1>8 DEF InternalCall
  <2>2. answer'.code \in Codes /\ answer'.target \in Agents \cup Depts \cup {None}
    <3>1. k.kind = "extension" => k.of \in Agents /\ DeptOf[k.of] \in Depts
      BY ResourceAssumption DEF Digits
    <3>2. QED
      BY <1>8, <3>1, TargetsNamed DEF InternalCall, Respond, Codes
  <2>3. QED
    BY <1>1, <2>1, <2>2 DEF Shapes, Desk, Queues, Held, Said, desk, counters, clock
<1>9. CASE UNCHANGED vars
  BY <1>1, <1>9 DEF vars, Shapes, Desk, Queues, Held, Said, desk, counters, clock
<1>10. QED
  BY <1>2, <1>3, <1>4, <1>5, <1>6, <1>7, <1>8, <1>9 DEF Upkeep

(* The shapes at the start and from step to step.                           *)
LEMMA ShapesAlways == Spec => []Shapes
<1>1. Init => Shapes
  <2> SUFFICES ASSUME Init PROVE Shapes
    OBVIOUS
  <2>1. Desk
    BY ConfigAssumption DEF Init, Desk
  <2>2. Queues
    <3>1. /\ <<>> \in Seq(Entries) /\ DefaultConfig \in Configs
          /\ Len(<<>>) <= DefaultConfig.max_queue_size
      BY ConfigAssumption DEF ConfigType
    <3>2. queue = [d \in Depts |-> <<>>]
      BY DEF Init
    <3>3. QED
      BY <3>1, <3>2 DEF Queues, Held
  <2>3. Said
    BY DEF Init, Said, Codes
  <2>4. QED
    BY <2>1, <2>2, <2>3 DEF Shapes
<1>2. ASSUME Shapes, Counters, [Next]_vars PROVE Shapes'
  <2>1. \/ Upkeep \/ UNCHANGED vars
        \/ \E c \in Outsiders, k \in Digits : ExternalCall(c, k)
        \/ \E a \in Agents, k \in Digits : InternalCall(a, k)
    BY <1>2, ResourceAssumption DEF Next, Route
  <2>2. QED
    BY <1>2, <2>1, CallShapes, OthersShaped
<1>3. QED
  BY <1>1, <1>2, CountersAlways, PTL DEF Spec

(* The types of the script's state; no queue is longer than some limit that *)
(* was in use, however the limit changes (queue_push).                      *)
THEOREM RoutingTypes == Spec => []TypeOK
<1>1. ASSUME Shapes, Counters PROVE TypeOK
  <2>1. ASSUME NEW d \in Depts
        PROVE  /\ \E f \in Configs : Len(queue[d]) <= f.max_queue_size
               /\ \A i \in DOMAIN queue[d] : queue[d][i] \in Entries
    BY <1>1 DEF Shapes, Queues, Held
  <2>2. ASSUME NEW c \in Outsiders PROVE \E f \in Configs : invalid[c] < f.max_invalid_keys
    <3>1. PICK f \in Configs : invalid[c] <= f.max_invalid_keys - 1
      BY <1>1 DEF Counters, Below, Limit
    <3>2. invalid[c] \in Nat /\ f.max_invalid_keys \in Nat
      BY <1>1, ConfigAssumption DEF Counters, ConfigType
    <3>3. QED
      BY <3>1, <3>2
  <2>3. QED
    BY <1>1, <2>1, <2>2 DEF Shapes, Desk, Said, Counters, TypeOK
<1>2. QED
  BY <1>1, ShapesAlways, CountersAlways, PTL

(* queue_cleanup removes while it walks, and nobody expired is left: once a *)
(* key has been routed, everyone who waits anywhere came in time.           *)
THEOREM QueuesFresh == Spec => QueueFresh
<1>1. ASSUME Shapes, Counters, Counters', open, Outside, answer'.digits.kind = "key", Answered
      PROVE  \A d \in Depts : \A i \in DOMAIN queue'[d] : Fresh(queue'[d][i])
  <2>1. answer'.caller \in Outsiders /\ answer'.digits \in Digits
    BY <1>1 DEF Outside, Counters
  <2>2. KeyRoute(answer'.caller, answer'.digits)
    BY <1>1, OutsideCalls DEF ExternalCall, NightRoute, TimeoutFallback, InvalidKeyFallback
  <2>3. Queues /\ config \in Configs /\ now \in 0..MaxTime
    BY <1>1 DEF Shapes, Desk, Counters
  <2>4. QED
    BY <2>1, <2>2, <2>3, KeyQueues
<1>2. QED
  BY <1>1, ShapesAlways, CountersAlways, PTL DEF QueueFresh
=============================================================================
