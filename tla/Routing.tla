------------------------------ MODULE Routing ------------------------------
(* lua/route.lua: the routing script behind lua_vm_call_route.  One call of *)
(* route_call runs to its end on the caller's thread, so each call is one   *)
(* step; what the properties are about is the state that stays in the       *)
(* script between calls: agent states, waiting queues, error counters and   *)
(* the configuration.  A retransmitted INVITE is routed again like a new    *)
(* one, so Route is always enabled.                                         *)
(*                                                                          *)
(* Abstracted: extensions, departments and callers are model values;        *)
(* descriptions, the call log and the unused `calls` counter are left out.  *)
(* ROUTE_CONFIG is a record of the five fields that decide anything; of the *)
(* others, fallback_agent is the desk that answers name as Support, and     *)
(* work_hours and work_days stand behind what is_work_time answers.         *)
EXTENDS Integers, Sequences, FiniteSets, FiniteSetsExt, Functions, SequencesExt

CONSTANTS
  Depts,          \* DEPARTMENTS
  External,       \* those with external = true and an ivr_key
  Support,        \* "support": the common desk, short number 9000
  Agents,         \* extensions
  DeptOf,         \* the department whose range holds an extension
  Outsiders,      \* external caller numbers
  Dialled,        \* the digits that are dialled, a subset of Digits
  AgentStates,    \* the states set_agent_state is given; {} in the shipped script
  Hours,          \* the values is_work_time takes
  Configs,        \* what update_route_config may make of ROUTE_CONFIG
  DefaultConfig,  \* ROUTE_CONFIG as the script loads
  MaxTime,        \* bound of the clock
  MaxResets,      \* bound of the resets while a caller presses wrong keys
  None            \* the target "" of an answer that names nobody

Digits ==
  [kind : {"key"}, of : External] \cup [kind : {"short"}, of : Depts]
    \cup [kind : {"extension"}, of : Agents] \cup [kind : {"gateway", "other", "empty"}, of : {None}]

\* queue_timeout is in ticks.
ConfigType ==
  [max_invalid_keys : Nat \ {0}, max_queue_size : Nat, queue_timeout : Nat,
   night_duty_dept : Depts, overflow_priority : Seq(Depts)]

Codes == {"SUCCESS", "INVALID_DIGITS", "DEPT_FULL", "AGENT_OFFLINE", "FALLBACK_AGENT",
          "QUEUED", "NIGHT_MODE", "VOICEMAIL", "TIMEOUT_RETRY", "INVALID_KEY_RETRY"}

ASSUME ResourceAssumption ==
  /\ External \subseteq Depts /\ Support \in External
  /\ DeptOf \in [Agents -> Depts]
  /\ Dialled \subseteq Digits
  /\ Agents \cap Depts = {} /\ Agents \cap Outsiders = {} /\ None \notin Agents

ASSUME ConfigAssumption ==
  /\ Configs \subseteq ConfigType /\ DefaultConfig \in Configs
  /\ Hours \subseteq BOOLEAN /\ Hours # {}
  /\ MaxTime \in Nat /\ MaxResets \in Nat

ASSUME AgentStateAssumption == AgentStates \subseteq {"idle", "talking", "offline", "busy"}

VARIABLES
  status,      \* AGENT_STATUS[ext].state
  lastActive,  \* AGENT_STATUS[ext].last_active
  queue,       \* QUEUE[dept], oldest first
  invalid,     \* INVALID_KEY_COUNT[caller]
  timeouts,    \* TIMEOUT_RETRY_COUNT[caller]
  config,      \* ROUTE_CONFIG
  open,        \* what is_work_time() answers
  now,         \* os.time()
  answer,      \* the table route_call returned last, with its arguments
  streak,      \* history: how often in a row a caller has heard "try again"
               \*   for a wrong key, whatever became of his count meanwhile
  resets       \* history: how often his count was set back from outside in that row

counters == <<invalid, timeouts>>
row == <<streak, resets>>
desk == <<status, lastActive>>
clock == <<open, now>>
vars == <<desk, queue, counters, row, config, clock, answer>>

----------------------------------------------------------------------------
AgentsOf(d) == {a \in Agents : DeptOf[a] = d}
IdleOf(d) == {a \in AgentsOf(d) : status[a] = "idle"}
Online(d) == {a \in AgentsOf(d) : status[a] # "offline"}

LongestIdle(d) == {a \in IdleOf(d) : \A b \in IdleOf(d) : lastActive[a] <= lastActive[b]}

\* Whom pick_idle_agent may return; table.sort leaves the order of ties open.
PickIdleAgent(d) == LongestIdle(d)

\* `agent and agent.extension or default`
AnyOr(d, default) ==  \* faulty: busy ones too
  IF AgentsOf(d) = {} THEN {default} ELSE AgentsOf(d)
PickOr(d, default) == IF IdleOf(d) = {} THEN {default} ELSE PickIdleAgent(d)

Expired(e) == now - e.arrival > config.queue_timeout
Fresh(e) == ~Expired(e)

\* One pass of the loop of queue_cleanup: the entry at i is removed, and the next
\* one comes to its place, or i goes on.
PassOn(w) ==  \* faulty: i goes on after a removal too
  IF w.i > Len(w.list) THEN w
  ELSE [i |-> w.i + 1, list |-> IF Expired(w.list[w.i]) THEN RemoveAt(w.list, w.i) ELSE w.list]
Pass(w) ==
  IF w.i > Len(w.list) THEN w
  ELSE IF Expired(w.list[w.i]) THEN [w EXCEPT !.list = RemoveAt(@, w.i)]
  ELSE [w EXCEPT !.i = @ + 1]

\* The loop over one queue: each pass removes an entry or leaves one behind.
CleanedQueue(q) ==
  LET walk[n \in 0..Len(q)] == IF n = 0 THEN [list |-> q, i |-> 1] ELSE Pass(walk[n - 1])
  IN  walk[Len(q)].list
Cleaned == [d \in Depts |-> CleanedQueue(queue[d])]

FullOneLate(q) == Len(q) > config.max_queue_size  \* faulty
QueueFull(q) == Len(q) >= config.max_queue_size

\* Departments an overflow from d may go to, by rank in the priority list.
OverflowRanks(d) ==
  LET p == config.overflow_priority
  IN  {i \in DOMAIN p : p[i] # d /\ IdleOf(p[i]) # {}}

Respond(c, k, code, target) ==
  answer' = [caller |-> c, digits |-> k, code |-> code, target |-> target]

\* The caller's row of wrong keys ends.
Settled(c) == streak' = [streak EXCEPT ![c] = 0] /\ resets' = [resets EXCEPT ![c] = 0]

\* The count of each caller in C may be, and is, set back in the middle of his row.
MayReset(C) == \A c \in C : streak[c] = 0 \/ resets[c] < MaxResets
ResetInRow(C) ==
  /\ resets' = [c \in Outsiders |-> IF c \in C /\ streak[c] > 0 THEN resets[c] + 1 ELSE resets[c]]
  /\ UNCHANGED streak

----------------------------------------------------------------------------
Init ==
  /\ status = [a \in Agents |-> "idle"]
  /\ lastActive = [a \in Agents |-> 0]
  /\ queue = [d \in Depts |-> <<>>]
  /\ invalid = [c \in Outsiders |-> 0]
  /\ timeouts = [c \in Outsiders |-> 0]
  /\ streak = [c \in Outsiders |-> 0]
  /\ resets = [c \in Outsiders |-> 0]
  /\ config = DefaultConfig
  /\ open \in Hours
  /\ now = 0
  /\ answer = [caller |-> None, digits |-> [kind |-> "empty", of |-> None],
               code |-> "SUCCESS", target |-> None]

----------------------------------------------------------------------------
(* External callers.                                                        *)

OnDuty(d) == {a \in AgentsOf(d) : status[a] \in {"idle", "talking"}}

NightRoute(c, k) ==
  /\ ~open
  /\ \/ /\ OnDuty(config.night_duty_dept) # {}
        /\ \E t \in PickOr(config.night_duty_dept, Support) : Respond(c, k, "NIGHT_MODE", t)
     \/ /\ OnDuty(config.night_duty_dept) = {}
        /\ Respond(c, k, "VOICEMAIL", None)
  /\ Settled(c)
  /\ UNCHANGED <<queue, invalid, timeouts>>

TimeoutFallback(c, k) ==
  /\ open /\ k.kind = "empty"
  /\ \/ /\ timeouts[c] + 1 < 2
        /\ timeouts' = [timeouts EXCEPT ![c] = @ + 1]
        /\ Respond(c, k, "TIMEOUT_RETRY", None)
     \/ /\ timeouts[c] + 1 >= 2
        /\ timeouts' = [timeouts EXCEPT ![c] = 0]
        /\ \E t \in PickOr(Support, Support) : Respond(c, k, "FALLBACK_AGENT", t)
  /\ Settled(c)
  /\ UNCHANGED <<queue, invalid>>

\* err_count >= max_err
OneMoreTry(n) == n > config.max_invalid_keys  \* faulty
TooMany(n) == n >= config.max_invalid_keys

AllForgotten(c) == [b \in Outsiders |-> 0]  \* faulty: of all callers
Forgotten(c) == [invalid EXCEPT ![c] = 0]

InvalidKeyFallback(c, k) ==
  /\ open /\ k.kind \notin {"empty", "key"}
  /\ \/ /\ ~TooMany(invalid[c] + 1)
        /\ invalid' = [invalid EXCEPT ![c] = @ + 1]
        /\ streak' = [streak EXCEPT ![c] = @ + 1]
        /\ UNCHANGED resets
        /\ Respond(c, k, "INVALID_KEY_RETRY", None)
     \/ /\ TooMany(invalid[c] + 1)
        /\ invalid' = Forgotten(c)
        /\ Settled(c)
        /\ \E t \in PickOr(Support, Support) : Respond(c, k, "FALLBACK_AGENT", t)
  /\ UNCHANGED <<queue, timeouts>>

\* check_agent_status comes first in every arm below and cleans all queues.
AssignAgent(c, k) ==
  /\ IdleOf(k.of) # {}
  /\ \E t \in PickIdleAgent(k.of) : Respond(c, k, "SUCCESS", t)
  /\ queue' = Cleaned

DeptOffline(c, k) ==
  /\ Online(k.of) = {}
  /\ Respond(c, k, "AGENT_OFFLINE", Support)
  /\ queue' = Cleaned

OverflowToSupport(c, k) ==
  /\ IdleOf(Support) # {}
  /\ \E t \in PickIdleAgent(Support) : Respond(c, k, "FALLBACK_AGENT", t)
  /\ queue' = Cleaned

OverflowToOther(c, k) ==
  /\ IdleOf(Support) = {} /\ OverflowRanks(k.of) # {}
  /\ \E t \in PickIdleAgent(config.overflow_priority[Min(OverflowRanks(k.of))]) :
       Respond(c, k, "FALLBACK_AGENT", t)
  /\ queue' = Cleaned

QueuePush(c, k) ==
  /\ IdleOf(Support) = {} /\ OverflowRanks(k.of) = {}
  /\ ~QueueFull(Cleaned[k.of])
  /\ queue' = [Cleaned EXCEPT ![k.of] = Append(@, [caller |-> c, arrival |-> now])]
  /\ Respond(c, k, "QUEUED", k.of)

QueueRefused(c, k) ==
  /\ IdleOf(Support) = {} /\ OverflowRanks(k.of) = {}
  /\ QueueFull(Cleaned[k.of])
  /\ queue' = Cleaned
  /\ Respond(c, k, "VOICEMAIL", None)

OverflowRoute(c, k) ==
  /\ Online(k.of) # {} /\ IdleOf(k.of) = {}
  /\ \/ OverflowToSupport(c, k) \/ OverflowToOther(c, k)
     \/ QueuePush(c, k) \/ QueueRefused(c, k)

KeyRoute(c, k) ==
  /\ open /\ k.kind = "key"
  /\ AssignAgent(c, k) \/ DeptOffline(c, k) \/ OverflowRoute(c, k)
  /\ Settled(c)
  /\ UNCHANGED <<invalid, timeouts>>

ExternalCall(c, k) ==
  /\ \/ NightRoute(c, k) \/ TimeoutFallback(c, k)
     \/ InvalidKeyFallback(c, k) \/ KeyRoute(c, k)
  /\ UNCHANGED <<desk, config, clock>>

----------------------------------------------------------------------------
(* Calls between extensions.  A short number lies in no department's range. *)

InternalCall(a, k) ==
  /\ \/ /\ k.kind # "extension"
        /\ Respond(a, k, "INVALID_DIGITS", Support)
     \/ /\ k.kind = "extension" /\ status[k.of] = "offline"
        /\ Respond(a, k, "AGENT_OFFLINE", DeptOf[k.of])
     \/ /\ k.kind = "extension" /\ status[k.of] = "talking"
        /\ Respond(a, k, "DEPT_FULL", k.of)
     \/ /\ k.kind = "extension" /\ status[k.of] \in {"idle", "busy"}
        /\ Respond(a, k, "SUCCESS", k.of)
  /\ UNCHANGED <<desk, queue, counters, row, config, clock>>

Route(c, k) ==
  \/ c \in Outsiders /\ ExternalCall(c, k)
  \/ c \in Agents /\ InternalCall(c, k)

----------------------------------------------------------------------------
CheckAgentStatus ==
  /\ queue' = Cleaned
  /\ UNCHANGED <<desk, counters, row, config, clock, answer>>

\* The script's own state feed: a local function that nothing calls yet, and all
\* that could make AGENT_STATUS differ from idle.  The script as it is shipped is
\* the instance AgentStates = {}.
SetAgentState(a, s) ==
  /\ status' = [status EXCEPT ![a] = s]
  /\ lastActive' = [lastActive EXCEPT ![a] = now]
  /\ UNCHANGED <<queue, counters, row, config, clock, answer>>

\* Any of the fields get new values; with work_hours or work_days among them,
\* is_work_time may answer differently at once.
UpdateRouteConfig(f) ==
  /\ config' = f
  /\ open' \in Hours
  /\ UNCHANGED <<desk, queue, counters, row, now, answer>>

ResetInvalidKeyCount(c) ==
  /\ MayReset({c})
  /\ invalid' = Forgotten(c)
  /\ timeouts' = [timeouts EXCEPT ![c] = 0]
  /\ ResetInRow({c})
  /\ UNCHANGED <<desk, queue, config, clock, answer>>

\* lua_vm_reload_script runs the file again: all its tables are new.
Reload ==
  /\ MayReset(Outsiders)
  /\ status' = [a \in Agents |-> "idle"]
  /\ lastActive' = [a \in Agents |-> now]
  /\ queue' = [d \in Depts |-> <<>>]
  /\ invalid' = [c \in Outsiders |-> 0]
  /\ timeouts' = [c \in Outsiders |-> 0]
  /\ ResetInRow(Outsiders)
  /\ config' = DefaultConfig
  /\ open' \in Hours
  /\ UNCHANGED <<now, answer>>

Tick ==
  /\ now < MaxTime
  /\ now' = now + 1
  /\ open' \in Hours
  /\ UNCHANGED <<desk, queue, counters, row, config, answer>>

Upkeep ==
  \/ CheckAgentStatus \/ Reload \/ Tick
  \/ \E a \in Agents, s \in AgentStates : SetAgentState(a, s)
  \/ \E f \in Configs : UpdateRouteConfig(f)
  \/ \E c \in Outsiders : ResetInvalidKeyCount(c)

Next ==
  \/ Upkeep
  \/ \E c \in Outsiders \cup Agents, k \in Dialled : Route(c, k)

Spec == Init /\ [][Next]_vars

----------------------------------------------------------------------------
(* Properties.                                                              *)

Entries == [caller : Outsiders, arrival : 0..MaxTime]

\* Types, with the bounds the code keeps: queue_push stops at max_queue_size,
\* invalid_key_fallback and timeout_fallback reset their counters at the limit.
TypeOK ==
  /\ status \in [Agents -> AgentStates \cup {"idle"}]
  /\ lastActive \in [Agents -> 0..MaxTime]
  /\ \A d \in Depts : /\ \E f \in Configs : Len(queue[d]) <= f.max_queue_size
                      /\ \A i \in DOMAIN queue[d] : queue[d][i] \in Entries
  /\ invalid \in [Outsiders -> Nat]
  /\ \A c \in Outsiders : \E f \in Configs : invalid[c] < f.max_invalid_keys
  /\ timeouts \in [Outsiders -> 0..1]
  /\ config \in Configs /\ open \in Hours /\ now \in 0..MaxTime
  /\ answer.code \in Codes /\ answer.target \in Agents \cup Depts \cup {None}

\* The step is a call of route_call; its arguments are in the answer.
Answered == Route(answer'.caller, answer'.digits)
Outside == answer'.caller \in Outsiders
Inside == answer'.caller \in Agents

\* The departments a caller from outside may be sent to: by day those with a key
\* and those the overflow list names, at night the one on duty.
Reachable ==
  IF open THEN External \cup Range(config.overflow_priority) ELSE {config.night_duty_dept}

\* An agent an external caller is put through to is idle and belongs to a
\* department he may be sent to: pick_idle_agent and the IVR map, along every path
\* of route_call, night duty and error fall-backs included, however the
\* configuration changes between his calls.
OfferedAgentIdle ==
  [][Outside /\ answer'.target \in Agents /\ Answered =>
       status[answer'.target] = "idle" /\ DeptOf[answer'.target] \in Reachable]_vars

\* Once a caller's key has been routed nobody is left waiting in any queue longer
\* than queue_timeout: queue_cleanup removes while it walks the array.
QueueFresh ==
  [][open /\ Outside /\ answer'.digits.kind = "key" /\ Answered =>
       \A d \in Depts : \A i \in DOMAIN queue'[d] : Fresh(queue'[d][i])]_vars

\* A caller who presses wrong keys only hears "try again" at most max_invalid_keys - 1
\* times in a row (invalid_key_fallback), and as often again for each time his count was
\* set back meanwhile, by reset_invalid_key_count or a new script; what other callers do
\* makes no difference, and of limits that change the largest one counts.
Guided ==
  \A c \in Outsiders : \E f \in Configs : streak[c] <= (resets[c] + 1) * (f.max_invalid_keys - 1)

----------------------------------------------------------------------------
(* Statements of the docs that the script does not satisfy: TLC refutes each *)
(* of them; no run is kept for them.                                         *)

\* max_invalid_keys counts errors in a row, "consecutive" in the comment of the
\* configuration and in the text of the answer: a caller who is sent to the desk for
\* them has pressed that many wrong keys since his last valid one.
ConsecutiveErrors ==
  [][open /\ Outside /\ answer'.digits.kind \notin {"empty", "key"}
       /\ answer'.code = "FALLBACK_AGENT" /\ Answered =>
         streak[answer'.caller] + 1 >= config.max_invalid_keys]_vars

\* Idle agents of a department take calls in turn: two answers in a row to the
\* same key do not name the same agent while a colleague is idle.
TakesTurns ==
  [][Outside /\ answer.code = "SUCCESS" /\ answer'.code = "SUCCESS"
       /\ answer'.digits = answer.digits /\ Answered =>
         answer'.target # answer.target \/ Cardinality(IdleOf(answer.digits.of)) = 1]_vars

\* A free agent goes to the caller who waits longest: nobody is put through to a
\* department whose queue holds another caller.
NoOvertaking ==
  [][Outside /\ answer'.code = "SUCCESS" /\ Answered =>
       LET q == queue'[answer'.digits.of]
       IN  \A i \in DOMAIN q : q[i].caller = answer'.caller]_vars

\* An extension that is busy, "temporarily unable to answer", is not put through.
BusyNotCalled ==
  [][Inside /\ answer'.code = "SUCCESS" /\ Answered => status[answer'.target] # "busy"]_vars

\* Dialling a department's own number from an extension reaches the department.
ShortNumberReaches ==
  [][Inside /\ answer'.digits.kind = "short" /\ Answered => answer'.code # "INVALID_DIGITS"]_vars
=============================================================================
