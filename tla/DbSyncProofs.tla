---------------------------- MODULE DbSyncProofs ----------------------------
(* Proofs about DbSync: MySQL ends up with what was reported, for any       *)
(* agents, calls, capacity of the queue and number of faults.  The          *)
(* invariant follows each agent and each call through the queue, the        *)
(* worker's hand and MySQL: the last task of an agent carries its latest    *)
(* row, and the tasks of a call are a start and then an end.  Redis, as     *)
(* long as it is not lost, shows what was reported: that invariant follows  *)
(* a process from its start through the warm-up to its reports.             *)
EXTENDS DbSync, FiniteSetTheorems, TLAPS

\* The task will leave v in the agent's status column.
RowOf(task, v) ==
  \/ task.kind = "status" /\ task.value = v
  \/ task.kind = "online" /\ OnlineRow(task.value) = v

Waits(q, x) == \E i \in DOMAIN q : q[i].who = x
InHand(x) == hand # None /\ hand.who = x

LastLeaves(q, a, v) ==
  \E i \in DOMAIN q : /\ q[i].who = a /\ RowOf(q[i], v)
                      /\ \A j \in DOMAIN q : j > i => q[j].who # a

OnlyTask(q, c, kind) ==
  \E i \in DOMAIN q : /\ q[i].who = c /\ q[i].kind = kind
                      /\ \A j \in DOMAIN q : j # i => q[j].who # c

StartThenEnd(q, c) ==
  \E i, j \in DOMAIN q : /\ i < j
                         /\ q[i].who = c /\ q[i].kind = "start"
                         /\ q[j].who = c /\ q[j].kind = "end"
                         /\ \A k \in DOMAIN q : k # i /\ k # j => q[k].who # c

AgentFollowed(a) ==
  \/ LastLeaves(queue, a, told.row[a])
  \/ ~Waits(queue, a) /\ InHand(a) /\ RowOf(hand, told.row[a])
  \/ ~Waits(queue, a) /\ ~InHand(a) /\ store.agent[a].status = told.row[a]

StartPending(c) ==
  \/ OnlyTask(queue, c, "start") /\ ~InHand(c)
  \/ ~Waits(queue, c) /\ InHand(c) /\ hand.kind = "start"

BothPending(c) ==
  \/ StartThenEnd(queue, c) /\ ~InHand(c)
  \/ OnlyTask(queue, c, "end") /\ InHand(c) /\ hand.kind = "start"

EndPending(c) ==
  \/ OnlyTask(queue, c, "end") /\ ~InHand(c)
  \/ ~Waits(queue, c) /\ InHand(c) /\ hand.kind = "end"

NonePending(c) == ~Waits(queue, c) /\ ~InHand(c)

CallFollowed(c) ==
  \/ told.call[c] = store.call[c] /\ NonePending(c)
  \/ told.call[c] = "open" /\ store.call[c] = "none" /\ StartPending(c)
  \/ told.call[c] = "closed" /\ store.call[c] = "none" /\ BothPending(c)
  \/ told.call[c] = "closed" /\ store.call[c] = "open" /\ EndPending(c)

QueueTypes ==
  /\ queue \in Seq(Tasks) /\ hand \in Tasks \cup {None}
  /\ store \in [agent : [Agents -> [status : Statuses, online : Switch]],
                call : [Calls -> Phases], garbled : SUBSET Calls]
  /\ told \in [status : [Agents -> Statuses], row : [Agents -> Statuses],
               online : [Agents -> Switch], call : [Calls -> Phases]]

Followed ==
  /\ QueueTypes
  /\ \A a \in Agents \ lost : AgentFollowed(a)
  /\ \A c \in Calls \ lost : CallFollowed(c)

-----------------------------------------------------------------------------
(* queue_push appends: the tasks of the others keep their places.           *)
LEMMA AppendFacts ==
  ASSUME NEW q \in Seq(Tasks), NEW t \in Tasks, NEW x
  PROVE  /\ Waits(Append(q, t), x) <=> Waits(q, x) \/ t.who = x
         /\ t.who # x => /\ \A v : LastLeaves(q, x, v) => LastLeaves(Append(q, t), x, v)
                         /\ \A k : OnlyTask(q, x, k) => OnlyTask(Append(q, t), x, k)
                         /\ StartThenEnd(q, x) => StartThenEnd(Append(q, t), x)
         /\ t.who = x => \A v : RowOf(t, v) => LastLeaves(Append(q, t), x, v)
         /\ t.who = x /\ ~Waits(q, x) => OnlyTask(Append(q, t), x, t.kind)
         /\ t.who = x /\ t.kind = "end" /\ OnlyTask(q, x, "start")
              => StartThenEnd(Append(q, t), x)
<1> DEFINE p == Append(q, t)
<1>1. /\ Len(q) \in Nat /\ DOMAIN q = 1..Len(q) /\ DOMAIN p = 1..(Len(q) + 1)
      /\ \A i \in DOMAIN q : i \in DOMAIN p /\ p[i] = q[i]
      /\ p[Len(q) + 1] = t
  OBVIOUS
<1> HIDE DEF p
<1>2. Waits(p, x) <=> Waits(q, x) \/ t.who = x
  BY <1>1 DEF Waits
<1>3. ASSUME t.who # x, NEW v, LastLeaves(q, x, v) PROVE LastLeaves(p, x, v)
  BY <1>1, <1>3 DEF LastLeaves, RowOf
<1>4. ASSUME t.who # x, NEW k, OnlyTask(q, x, k) PROVE OnlyTask(p, x, k)
  BY <1>1, <1>4 DEF OnlyTask
<1>5. ASSUME t.who # x, StartThenEnd(q, x) PROVE StartThenEnd(p, x)
  BY <1>1, <1>5 DEF StartThenEnd
<1>6. ASSUME t.who = x, NEW v, RowOf(t, v) PROVE LastLeaves(p, x, v)
  BY <1>1, <1>6 DEF LastLeaves, RowOf
<1>7. ASSUME t.who = x, ~Waits(q, x) PROVE OnlyTask(p, x, t.kind)
  BY <1>1, <1>7 DEF OnlyTask, Waits
<1>8. ASSUME t.who = x, t.kind = "end", OnlyTask(q, x, "start") PROVE StartThenEnd(p, x)
  BY <1>1, <1>8 DEF OnlyTask, StartThenEnd
<1>9. QED
  BY <1>2, <1>3, <1>4, <1>5, <1>6, <1>7, <1>8 DEF p

(* queue_pop, and queue_push on a full queue, take the first task.          *)
LEMMA TailFacts ==
  ASSUME NEW q \in Seq(Tasks), q # <<>>, NEW x
  PROVE  /\ Tail(q) \in Seq(Tasks) /\ Head(q) \in Tasks
         /\ Waits(q, x) <=> Waits(Tail(q), x) \/ Head(q).who = x
         /\ \A v : LastLeaves(q, x, v) =>
              \/ LastLeaves(Tail(q), x, v)
              \/ ~Waits(Tail(q), x) /\ Head(q).who = x /\ RowOf(Head(q), v)
         /\ \A k : OnlyTask(q, x, k) =>
              \/ OnlyTask(Tail(q), x, k) /\ Head(q).who # x
              \/ ~Waits(Tail(q), x) /\ Head(q).who = x /\ Head(q).kind = k
         /\ StartThenEnd(q, x) =>
              \/ StartThenEnd(Tail(q), x) /\ Head(q).who # x
              \/ OnlyTask(Tail(q), x, "end") /\ Head(q).who = x /\ Head(q).kind = "start"
<1> DEFINE r == Tail(q)
           h == Head(q)
<1>1. /\ Len(q) \in Nat /\ Len(q) > 0 /\ DOMAIN q = 1..Len(q) /\ DOMAIN r = 1..(Len(q) - 1)
      /\ \A i \in DOMAIN r : i + 1 \in DOMAIN q /\ r[i] = q[i + 1]
      /\ h = q[1] /\ 1 \in DOMAIN q
      /\ \A i \in DOMAIN q : i # 1 => i - 1 \in DOMAIN r /\ r[i - 1] = q[i]
  OBVIOUS
<1>2. r \in Seq(Tasks) /\ h \in Tasks
  OBVIOUS
<1> HIDE DEF r, h
<1>3. Waits(q, x) <=> Waits(r, x) \/ h.who = x
  BY <1>1 DEF Waits
<1>4. ASSUME NEW v, LastLeaves(q, x, v)
      PROVE  LastLeaves(r, x, v) \/ (~Waits(r, x) /\ h.who = x /\ RowOf(h, v))
  <2>1. PICK i \in DOMAIN q : /\ q[i].who = x /\ RowOf(q[i], v)
                              /\ \A j \in DOMAIN q : j > i => q[j].who # x
    BY <1>4 DEF LastLeaves
  <2>2. CASE i = 1
    BY <1>1, <2>1, <2>2 DEF Waits
  <2>3. CASE i # 1
    <3>1. i - 1 \in DOMAIN r /\ r[i - 1] = q[i]
      BY <1>1, <2>3
    <3>2. \A j \in DOMAIN r : j > i - 1 => r[j].who # x
      BY <1>1, <2>1
    <3>3. QED
      BY <2>1, <3>1, <3>2 DEF LastLeaves
  <2>4. QED
    BY <2>2, <2>3
<1>5. ASSUME NEW k, OnlyTask(q, x, k)
      PROVE  \/ OnlyTask(r, x, k) /\ h.who # x
             \/ ~Waits(r, x) /\ h.who = x /\ h.kind = k
  <2>1. PICK i \in DOMAIN q : /\ q[i].who = x /\ q[i].kind = k
                              /\ \A j \in DOMAIN q : j # i => q[j].who # x
    BY <1>5 DEF OnlyTask
  <2>2. CASE i = 1
    BY <1>1, <2>1, <2>2 DEF Waits
  <2>3. CASE i # 1
    <3>1. i - 1 \in DOMAIN r /\ r[i - 1] = q[i] /\ h.who # x
      BY <1>1, <2>1, <2>3
    <3>2. \A j \in DOMAIN r : j # i - 1 => r[j].who # x
      BY <1>1, <2>1
    <3>3. QED
      BY <2>1, <3>1, <3>2 DEF OnlyTask
  <2>4. QED
    BY <2>2, <2>3
<1>6. ASSUME StartThenEnd(q, x)
      PROVE  \/ StartThenEnd(r, x) /\ h.who # x
             \/ OnlyTask(r, x, "end") /\ h.who = x /\ h.kind = "start"
  <2>1. PICK i \in DOMAIN q, j \in DOMAIN q :
           /\ i < j /\ q[i].who = x /\ q[i].kind = "start" /\ q[j].who = x /\ q[j].kind = "end"
           /\ \A k \in DOMAIN q : k # i /\ k # j => q[k].who # x
    BY <1>6 DEF StartThenEnd
  <2>2. j - 1 \in DOMAIN r /\ r[j - 1] = q[j]
    BY <1>1, <2>1
  <2>3. CASE i = 1
    <3>1. \A k \in DOMAIN r : k # j - 1 => r[k].who # x
      BY <1>1, <2>1, <2>3
    <3>2. QED
      BY <1>1, <2>1, <2>2, <2>3, <3>1 DEF OnlyTask
  <2>4. CASE i # 1
    <3>1. i - 1 \in DOMAIN r /\ r[i - 1] = q[i] /\ h.who # x /\ i - 1 < j - 1
      <4>1. i \in Nat /\ j \in Nat /\ i > 1
        BY <1>1, <2>4
      <4>2. i - 1 \in DOMAIN r /\ r[i - 1] = q[i] /\ i - 1 < j - 1
        BY <1>1, <2>1, <2>4, <4>1
      <4>3. 1 # i /\ 1 # j
        BY <2>1, <4>1
      <4>4. QED
        BY <1>1, <2>1, <4>2, <4>3
    <3>2. ASSUME NEW k \in DOMAIN r, k # i - 1, k # j - 1 PROVE r[k].who # x
      <4>1. k + 1 \in DOMAIN q /\ r[k] = q[k + 1]
        BY <1>1
      <4>2. k + 1 # i /\ k + 1 # j
        BY <1>1, <3>2
      <4>3. QED
        BY <2>1, <4>1, <4>2
    <3>3. QED
      BY <2>1, <2>2, <3>1, <3>2 DEF StartThenEnd
  <2>5. QED
    BY <2>3, <2>4
<1>7. QED
  BY <1>2, <1>3, <1>4, <1>5, <1>6 DEF r, h

-----------------------------------------------------------------------------
(* The tasks: those of agents write a status, those of calls do not.        *)
LEMMA TaskFacts ==
  ASSUME NEW t \in Tasks
  PROVE  /\ t.kind \in {"status", "online"} <=> t.who \in Agents
         /\ t.kind \in {"start", "end"} <=> t.who \in Calls
         /\ t.kind \in {"status", "online", "start", "end", "stop"}
         /\ t.kind = "status" => t.value \in Statuses
         /\ t.kind = "online" => OnlineRow(t.value) \in Statuses
BY SubsetAssumption, DisjointAssumption DEF Tasks, OnlineRow, Statuses

(* What one task does to the row of an agent and to the record of a call.   *)
LEMMA AppliedFacts ==
  ASSUME QueueTypes, hand # None, NEW new \in Stored(hand, Applied(hand))
  PROVE  /\ new \in [agent : [Agents -> [status : Statuses, online : Switch]],
                     call : [Calls -> Phases], garbled : SUBSET Calls]
         /\ \A a \in Agents : IF hand.who = a
              THEN \A v : RowOf(hand, v) => new.agent[a].status = v
              ELSE new.agent[a].status = store.agent[a].status
         /\ \A c \in Calls : IF hand.who = c
              THEN /\ hand.kind = "start" => new.call[c] = "open"
                   /\ hand.kind = "end" /\ store.call[c] # "none" => new.call[c] = "closed"
              ELSE new.call[c] = store.call[c]
<1> DEFINE StoreType == [agent : [Agents -> [status : Statuses, online : Switch]],
                         call : [Calls -> Phases], garbled : SUBSET Calls]
           done == Applied(hand)
<1>1. hand \in Tasks /\ store \in StoreType
  BY DEF QueueTypes
<1>2. store.agent \in [Agents -> [status : Statuses, online : Switch]]
      /\ store.call \in [Calls -> Phases] /\ store.garbled \in SUBSET Calls
  BY <1>1
<1>3. ASSUME done \in StoreType
      PROVE  new \in StoreType /\ new.agent = done.agent /\ new.call = done.call
  <2>1. new = done \/ (hand.who \in Bare /\ new = [done EXCEPT !.garbled = @ \cup {hand.who}])
    BY DEF Stored
  <2>2. CASE hand.who \in Bare /\ new = [done EXCEPT !.garbled = @ \cup {hand.who}]
    <3>1. done.garbled \cup {hand.who} \in SUBSET Calls
      BY <1>3, <2>2, SubsetAssumption
    <3>2. QED
      BY <1>3, <2>2, <3>1
  <2>3. QED
    BY <1>3, <2>1, <2>2
<1>4. CASE hand.kind \in {"status", "online"}
  <2>1. PICK w \in Statuses : /\ done = [store EXCEPT !.agent[hand.who].status = w]
                              /\ RowOf(hand, w) /\ \A v : RowOf(hand, v) => v = w
    BY <1>1, <1>4, TaskFacts DEF Applied, RowOf
  <2>2. hand.who \in Agents /\ hand.who \notin Calls
    BY <1>1, <1>4, TaskFacts, DisjointAssumption
  <2>3. /\ done.call = store.call /\ done.garbled = store.garbled
        /\ done.agent = [store.agent EXCEPT ![hand.who].status = w]
    BY <1>1, <2>1
  <2>4. done.agent \in [Agents -> [status : Statuses, online : Switch]]
    BY <1>2, <2>2, <2>3
  <2>5. done \in StoreType
    BY <1>1, <1>2, <2>1, <2>3, <2>4
  <2>6. \A a \in Agents : done.agent[a].status = IF hand.who = a THEN w ELSE store.agent[a].status
    BY <1>2, <2>2, <2>3
  <2>7. QED
    BY <1>3, <2>1, <2>2, <2>3, <2>5, <2>6
<1>5. CASE hand.kind \notin {"status", "online"}
  <2>1. hand.who \notin Agents
    BY <1>1, <1>5, TaskFacts
  <2>2. CASE hand.kind = "start"
    <3>1. hand.who \in Calls
      BY <1>1, <2>2, TaskFacts
    <3>2. done = [store EXCEPT !.call[hand.who] = "open"]
      BY <2>2 DEF Applied
    <3>3. /\ done.agent = store.agent /\ done.garbled = store.garbled
          /\ done.call = [store.call EXCEPT ![hand.who] = "open"]
      BY <1>1, <3>2
    <3>4. done.call \in [Calls -> Phases]
      BY <1>2, <3>3 DEF Phases
    <3>5. done \in StoreType
      BY <1>1, <1>2, <3>2, <3>3, <3>4
    <3>6. QED
      BY <1>2, <1>3, <2>1, <2>2, <3>3, <3>5
  <2>3. CASE hand.kind = "end" /\ store.call[hand.who] # "none"
    <3>1. hand.who \in Calls
      BY <1>1, <2>3, TaskFacts
    <3>2. done = [store EXCEPT !.call[hand.who] = "closed"]
      BY <2>3 DEF Applied
    <3>3. /\ done.agent = store.agent /\ done.garbled = store.garbled
          /\ done.call = [store.call EXCEPT ![hand.who] = "closed"]
      BY <1>1, <3>2
    <3>4. done.call \in [Calls -> Phases]
      BY <1>2, <3>3 DEF Phases
    <3>5. done \in StoreType
      BY <1>1, <1>2, <3>2, <3>3, <3>4
    <3>6. QED
      BY <1>2, <1>3, <2>1, <2>3, <3>3, <3>5
  <2>4. CASE hand.kind # "start" /\ ~(hand.kind = "end" /\ store.call[hand.who] # "none")
    <3>1. done = store
      BY <1>1, <1>5, <2>4, TaskFacts DEF Applied
    <3>2. QED
      BY <1>1, <1>3, <2>1, <2>4, <3>1
  <2>5. QED
    BY <2>2, <2>3, <2>4
<1>6. QED
  BY <1>4, <1>5

-----------------------------------------------------------------------------
(* queue_push, which drops the oldest task of a full queue: whoever is not  *)
(* the dropped task's keeps its place, and the new task comes last.         *)
LEMMA PushFacts ==
  ASSUME queue \in Seq(Tasks), NEW t \in Tasks
  PROVE  /\ Pushed(t) \in Seq(Tasks)
         /\ Full => queue # <<>> /\ Head(queue) \in Tasks
         /\ \A x : \A v : t.who = x /\ RowOf(t, v) => LastLeaves(Pushed(t), x, v)
         /\ \A x : (Full => Head(queue).who # x) =>
              /\ Waits(Pushed(t), x) <=> Waits(queue, x) \/ t.who = x
              /\ t.who # x =>
                   /\ \A v : LastLeaves(queue, x, v) => LastLeaves(Pushed(t), x, v)
                   /\ \A k : OnlyTask(queue, x, k) => OnlyTask(Pushed(t), x, k)
                   /\ StartThenEnd(queue, x) => StartThenEnd(Pushed(t), x)
              /\ t.who = x /\ ~Waits(queue, x) => OnlyTask(Pushed(t), x, t.kind)
              /\ t.who = x /\ t.kind = "end" /\ OnlyTask(queue, x, "start")
                   => StartThenEnd(Pushed(t), x)
<1> DEFINE kept == IF Full THEN Tail(queue) ELSE queue
<1>1. Full => queue # <<>> /\ Head(queue) \in Tasks
  BY BoundsAssumption DEF Full
<1>2. kept \in Seq(Tasks) /\ Pushed(t) = Append(kept, t)
  BY <1>1 DEF Pushed
<1>3. ASSUME NEW x, Full => Head(queue).who # x
      PROVE  /\ Waits(kept, x) <=> Waits(queue, x)
             /\ \A v : LastLeaves(queue, x, v) => LastLeaves(kept, x, v)
             /\ \A k : OnlyTask(queue, x, k) => OnlyTask(kept, x, k)
             /\ StartThenEnd(queue, x) => StartThenEnd(kept, x)
  <2>1. CASE Full
    BY <1>1, <1>3, <2>1, TailFacts
  <2>2. CASE ~Full
    BY <2>2
  <2>3. QED
    BY <2>1, <2>2
<1> HIDE DEF kept
<1>4. Pushed(t) \in Seq(Tasks)
  BY <1>2
<1>5. \A x : \A v : t.who = x /\ RowOf(t, v) => LastLeaves(Pushed(t), x, v)
  BY <1>2, AppendFacts
<1>6. ASSUME NEW x, Full => Head(queue).who # x
      PROVE  /\ Waits(Pushed(t), x) <=> Waits(queue, x) \/ t.who = x
             /\ t.who # x =>
                  /\ \A v : LastLeaves(queue, x, v) => LastLeaves(Pushed(t), x, v)
                  /\ \A k : OnlyTask(queue, x, k) => OnlyTask(Pushed(t), x, k)
                  /\ StartThenEnd(queue, x) => StartThenEnd(Pushed(t), x)
             /\ t.who = x /\ ~Waits(queue, x) => OnlyTask(Pushed(t), x, t.kind)
             /\ t.who = x /\ t.kind = "end" /\ OnlyTask(queue, x, "start")
                  => StartThenEnd(Pushed(t), x)
  BY <1>2, <1>3, <1>6, AppendFacts
<1>7. QED
  BY <1>1, <1>4, <1>5, <1>6

(* A push leaves the other agents and calls where they are.                 *)
LEMMA PushKeeps ==
  ASSUME queue \in Seq(Tasks), NEW t \in Tasks, NEW x, t.who # x,
         Full => Head(queue).who # x,
         queue' = Pushed(t), UNCHANGED <<hand, store>>
  PROVE  /\ AgentFollowed(x) /\ told'.row[x] = told.row[x] => AgentFollowed(x)'
         /\ CallFollowed(x) /\ told'.call[x] = told.call[x] => CallFollowed(x)'
<1>1. /\ Waits(queue', x) <=> Waits(queue, x)
      /\ \A v : LastLeaves(queue, x, v) => LastLeaves(queue', x, v)
      /\ \A k : OnlyTask(queue, x, k) => OnlyTask(queue', x, k)
      /\ StartThenEnd(queue, x) => StartThenEnd(queue', x)
  BY PushFacts
<1>2. AgentFollowed(x) /\ told'.row[x] = told.row[x] => AgentFollowed(x)'
  BY <1>1 DEF AgentFollowed, InHand
<1>3. CallFollowed(x) /\ told'.call[x] = told.call[x] => CallFollowed(x)'
  BY <1>1 DEF CallFollowed, InHand, NonePending, StartPending, BothPending, EndPending
<1>4. QED
  BY <1>2, <1>3

(* An agent's report, whether or not it is queued.                          *)
LEMMA AgentReported ==
  ASSUME Followed, NEW t \in Tasks, t.who \in Agents, Submit(t), UNCHANGED <<hand, store>>,
         NEW v \in Statuses, RowOf(t, v),
         told' \in [status : [Agents -> Statuses], row : [Agents -> Statuses],
                    online : [Agents -> Switch], call : [Calls -> Phases]],
         told'.row = [told.row EXCEPT ![t.who] = v], told'.call = told.call
  PROVE  Followed'
<1>1. QueueTypes /\ queue \in Seq(Tasks) /\ told.row \in [Agents -> Statuses]
  BY DEF Followed, QueueTypes
<1>2. \A x : x # t.who => told'.row[x] = told.row[x]
  BY <1>1
<1>3. CASE /\ queue' = Pushed(t)
           /\ lost' = (lost \cup (IF Full THEN {Head(queue).who} ELSE {})) \ {t.who}
  <2>1. /\ queue' = Pushed(t)
        /\ lost' = (lost \cup (IF Full THEN {Head(queue).who} ELSE {})) \ {t.who}
    BY <1>3
  <2>2. QueueTypes'
    BY <1>1, <2>1, PushFacts DEF QueueTypes
  <2>3. AgentFollowed(t.who)'
    <3>1. told'.row[t.who] = v
      BY <1>1
    <3>2. LastLeaves(queue', t.who, v)
      BY <1>1, <2>1, PushFacts
    <3>3. QED
      BY <3>1, <3>2 DEF AgentFollowed
  <2>4. \A x : x \notin lost' /\ x # t.who => x \notin lost /\ (Full => Head(queue).who # x)
    BY <2>1
  <2>5. ASSUME NEW a \in Agents, a \notin lost', a # t.who PROVE AgentFollowed(a)'
    <3>1. AgentFollowed(a)
      BY <2>4, <2>5 DEF Followed
    <3>2. QED
      BY <1>1, <1>2, <2>1, <2>4, <2>5, <3>1, PushKeeps
  <2>6. ASSUME NEW c \in Calls, c \notin lost' PROVE CallFollowed(c)'
    <3>1. c # t.who
      BY DisjointAssumption
    <3>2. CallFollowed(c)
      BY <2>4, <2>6, <3>1 DEF Followed
    <3>3. QED
      BY <1>1, <2>1, <2>4, <2>6, <3>1, <3>2, PushKeeps
  <2>7. QED
    BY <2>2, <2>3, <2>5, <2>6 DEF Followed
<1>4. CASE queue' = queue /\ lost' = lost \cup {t.who}
  <2>1. queue' = queue /\ lost' = lost \cup {t.who}
    BY <1>4
  <2>2. QueueTypes'
    BY <1>1, <2>1 DEF QueueTypes
  <2>3. ASSUME NEW a \in Agents, a \notin lost' PROVE AgentFollowed(a)'
    <3>1. AgentFollowed(a) /\ told'.row[a] = told.row[a]
      BY <1>2, <2>1, <2>3 DEF Followed
    <3>2. QED
      BY <2>1, <3>1 DEF AgentFollowed, InHand
  <2>4. ASSUME NEW c \in Calls, c \notin lost' PROVE CallFollowed(c)'
    <3>1. CallFollowed(c)
      BY <2>1, <2>4 DEF Followed
    <3>2. QED
      BY <2>1, <3>1
        DEF CallFollowed, InHand, NonePending, StartPending, BothPending, EndPending
  <2>5. QED
    BY <2>2, <2>3, <2>4 DEF Followed
<1>5. QED
  BY <1>3, <1>4 DEF Submit

(* The start and the end of a call.                                         *)
LEMMA CallReported ==
  ASSUME Followed, NEW t \in Tasks, Submit(t), UNCHANGED <<hand, store>>,
         NEW c \in Calls, t.who = c,
         told' \in [status : [Agents -> Statuses], row : [Agents -> Statuses],
                    online : [Agents -> Switch], call : [Calls -> Phases]],
         told'.row = told.row,
         \/ t.kind = "start" /\ told.call[c] = "none"
              /\ told'.call = [told.call EXCEPT ![c] = "open"]
         \/ t.kind = "end" /\ told.call[c] = "open"
              /\ told'.call = [told.call EXCEPT ![c] = "closed"]
  PROVE  Followed'
<1>1. QueueTypes /\ queue \in Seq(Tasks) /\ told.call \in [Calls -> Phases]
  BY DEF Followed, QueueTypes
<1>2. \A d \in Calls : d # c => told'.call[d] = told.call[d]
  BY <1>1
<1>3. c \notin Agents
  BY DisjointAssumption
<1>4. CASE /\ queue' = Pushed(t)
           /\ lost' = lost \cup (IF Full THEN {Head(queue).who} ELSE {})
  <2>1. /\ queue' = Pushed(t)
        /\ lost' = lost \cup (IF Full THEN {Head(queue).who} ELSE {})
    BY <1>4
  <2>2. QueueTypes'
    BY <1>1, <2>1, PushFacts DEF QueueTypes
  <2>3. \A x : x \notin lost' => x \notin lost /\ (Full => Head(queue).who # x)
    BY <2>1
  <2>4. ASSUME NEW a \in Agents, a \notin lost' PROVE AgentFollowed(a)'
    <3>1. AgentFollowed(a) /\ a # c
      BY <1>3, <2>3, <2>4 DEF Followed
    <3>2. QED
      BY <1>1, <2>1, <2>3, <2>4, <3>1, PushKeeps
  <2>5. ASSUME NEW d \in Calls, d \notin lost', d # c PROVE CallFollowed(d)'
    <3>1. CallFollowed(d)
      BY <2>3, <2>5 DEF Followed
    <3>2. QED
      BY <1>1, <1>2, <2>1, <2>3, <2>5, <3>1, PushKeeps
  <2>6. ASSUME c \notin lost' PROVE CallFollowed(c)'
    <3>1. CallFollowed(c)
      BY <2>3, <2>6 DEF Followed
    <3>2. /\ ~Waits(queue, c) => OnlyTask(queue', c, t.kind)
          /\ t.kind = "end" /\ OnlyTask(queue, c, "start") => StartThenEnd(queue', c)
      BY <1>1, <2>1, <2>3, <2>6, PushFacts
    <3>3. CASE t.kind = "start" /\ told.call[c] = "none"
      <4>1. told'.call[c] = "open"
        BY <1>1, <3>3
      <4>2. store.call[c] = "none" /\ NonePending(c)
        BY <3>1, <3>3 DEF CallFollowed
      <4>3. QED
        BY <3>2, <3>3, <4>1, <4>2 DEF CallFollowed, NonePending, StartPending, InHand
    <3>4. CASE t.kind = "end" /\ told.call[c] = "open"
      <4>1. told'.call[c] = "closed"
        BY <1>1, <3>4
      <4>2. CASE store.call[c] = "open" /\ NonePending(c)
        BY <3>2, <3>4, <4>1, <4>2 DEF CallFollowed, NonePending, EndPending, InHand
      <4>3. CASE store.call[c] = "none" /\ StartPending(c)
        BY <3>2, <3>4, <4>1, <4>3 DEF CallFollowed, StartPending, BothPending, InHand
      <4>4. QED
        BY <3>1, <3>4, <4>2, <4>3 DEF CallFollowed
    <3>5. QED
      BY <1>1, <3>3, <3>4
  <2>7. QED
    BY <2>2, <2>4, <2>5, <2>6 DEF Followed
<1>5. CASE queue' = queue /\ lost' = lost \cup {c}
  <2>1. queue' = queue /\ lost' = lost \cup {c}
    BY <1>5
  <2>2. QueueTypes'
    BY <1>1, <2>1 DEF QueueTypes
  <2>3. ASSUME NEW a \in Agents, a \notin lost' PROVE AgentFollowed(a)'
    <3>1. AgentFollowed(a)
      BY <2>1, <2>3 DEF Followed
    <3>2. QED
      BY <2>1, <3>1 DEF AgentFollowed, InHand
  <2>4. ASSUME NEW d \in Calls, d \notin lost' PROVE CallFollowed(d)'
    <3>1. CallFollowed(d) /\ told'.call[d] = told.call[d]
      BY <1>2, <2>1, <2>4 DEF Followed
    <3>2. QED
      BY <2>1, <3>1
        DEF CallFollowed, InHand, NonePending, StartPending, BothPending, EndPending
  <2>5. QED
    BY <2>2, <2>3, <2>4 DEF Followed
<1>6. QED
  BY <1>3, <1>4, <1>5 DEF Submit

(* db_sync_stop_worker pushes the stop task, no agent's and no call's.      *)
LEMMA StopFollowed ==
  ASSUME Followed, Stop
  PROVE  Followed'
<1> DEFINE t == Task("stop", None, None)
<1>1. t \in Tasks /\ t.who = None
  BY DEF Task, Tasks
<1>2. QueueTypes /\ queue \in Seq(Tasks) /\ None \notin Agents \cup Calls
  BY DisjointAssumption DEF Followed, QueueTypes
<1> HIDE DEF t
<1>3. UNCHANGED <<hand, store, told>>
  BY DEF Stop
<1>4. CASE workerRunning
  <2>1. queue' = Pushed(t) /\ lost' = IF Full THEN lost \cup {Head(queue).who} ELSE lost
    BY <1>4 DEF Stop, t
  <2>2. QueueTypes'
    BY <1>1, <1>2, <1>3, <2>1, PushFacts DEF QueueTypes
  <2>3. \A x : x \notin lost' => x \notin lost /\ (Full => Head(queue).who # x)
    BY <2>1
  <2>4. ASSUME NEW a \in Agents, a \notin lost' PROVE AgentFollowed(a)'
    <3>1. AgentFollowed(a) /\ t.who # a
      BY <1>1, <1>2, <2>3, <2>4 DEF Followed
    <3>2. QED
      BY <1>1, <1>2, <1>3, <2>1, <2>3, <2>4, <3>1, PushKeeps
  <2>5. ASSUME NEW c \in Calls, c \notin lost' PROVE CallFollowed(c)'
    <3>1. CallFollowed(c) /\ t.who # c
      BY <1>1, <1>2, <2>3, <2>5 DEF Followed
    <3>2. QED
      BY <1>1, <1>2, <1>3, <2>1, <2>3, <2>5, <3>1, PushKeeps
  <2>6. QED
    BY <2>2, <2>4, <2>5 DEF Followed
<1>5. CASE ~workerRunning
  <2>1. UNCHANGED <<queue, lost>>
    BY <1>5 DEF Stop
  <2>2. QED
    BY <1>3, <2>1 DEF Followed, QueueTypes, AgentFollowed, CallFollowed, InHand, NonePending,
                      StartPending, BothPending, EndPending
<1>6. QED
  BY <1>4, <1>5

(* The worker takes the first task.                                         *)
LEMMA PopFollowed ==
  ASSUME Followed, Pop
  PROVE  Followed'
<1>1. /\ QueueTypes /\ queue \in Seq(Tasks) /\ queue # <<>> /\ hand = None
      /\ hand' = Head(queue) /\ queue' = Tail(queue)
      /\ UNCHANGED <<store, told, lost>>
  BY DEF Followed, QueueTypes, Pop
<1>2. Head(queue) \in Tasks /\ Tail(queue) \in Seq(Tasks) /\ Head(queue) # None
  BY <1>1, TailFacts, TasksAssumption
<1>3. QueueTypes'
  BY <1>1, <1>2 DEF QueueTypes
<1>4. \A x : ~InHand(x) /\ (InHand(x)' <=> Head(queue).who = x)
  BY <1>1, <1>2 DEF InHand
<1>5. ASSUME NEW a \in Agents \ lost PROVE AgentFollowed(a)'
  <2>1. AgentFollowed(a)
    BY DEF Followed
  <2>2. CASE LastLeaves(queue, a, told.row[a])
    BY <1>1, <1>4, <2>2, TailFacts DEF AgentFollowed
  <2>3. CASE ~Waits(queue, a) /\ store.agent[a].status = told.row[a]
    BY <1>1, <1>4, <2>3, TailFacts DEF AgentFollowed
  <2>4. QED
    BY <1>4, <2>1, <2>2, <2>3 DEF AgentFollowed
<1>6. ASSUME NEW c \in Calls \ lost PROVE CallFollowed(c)'
  <2>1. CallFollowed(c)
    BY DEF Followed
  <2>2. NonePending(c) => NonePending(c)'
    BY <1>1, <1>4, TailFacts DEF NonePending
  <2>3. StartPending(c) => StartPending(c)'
    BY <1>1, <1>4, TailFacts DEF StartPending
  <2>4. BothPending(c) => BothPending(c)'
    BY <1>1, <1>4, TailFacts DEF BothPending
  <2>5. EndPending(c) => EndPending(c)'
    BY <1>1, <1>4, TailFacts DEF EndPending
  <2>6. QED
    BY <1>1, <2>1, <2>2, <2>3, <2>4, <2>5 DEF CallFollowed
<1>7. QED
  BY <1>1, <1>3, <1>5, <1>6 DEF Followed

(* The worker applies its task to MySQL, or the task is lost.               *)
LEMMA ExecuteFollowed ==
  ASSUME Followed, Execute
  PROVE  Followed'
<1>1. /\ QueueTypes /\ hand \in Tasks /\ hand # None /\ hand' = None
      /\ UNCHANGED <<queue, told>>
  BY DEF Followed, QueueTypes, Execute
<1>2. \A x : (InHand(x) <=> hand.who = x) /\ ~InHand(x)'
  BY <1>1 DEF InHand
<1>3. ASSUME NEW x, hand.who # x
      PROVE  /\ AgentFollowed(x) /\ store'.agent[x].status = store.agent[x].status
                  => AgentFollowed(x)'
             /\ CallFollowed(x) /\ store'.call[x] = store.call[x] => CallFollowed(x)'
  <2>1. AgentFollowed(x) /\ store'.agent[x].status = store.agent[x].status => AgentFollowed(x)'
    BY <1>1, <1>2, <1>3 DEF AgentFollowed
  <2>2. CallFollowed(x) /\ store'.call[x] = store.call[x] => CallFollowed(x)'
    BY <1>1, <1>2, <1>3 DEF CallFollowed, NonePending, StartPending, BothPending, EndPending
  <2>3. QED
    BY <2>1, <2>2
<1>4. CASE store' \in Stored(hand, Applied(hand)) /\ UNCHANGED lost
  <2>1. /\ store' \in [agent : [Agents -> [status : Statuses, online : Switch]],
                       call : [Calls -> Phases], garbled : SUBSET Calls]
        /\ \A a \in Agents : IF hand.who = a
             THEN \A v : RowOf(hand, v) => store'.agent[a].status = v
             ELSE store'.agent[a].status = store.agent[a].status
        /\ \A c \in Calls : IF hand.who = c
             THEN /\ hand.kind = "start" => store'.call[c] = "open"
                  /\ hand.kind = "end" /\ store.call[c] # "none" => store'.call[c] = "closed"
             ELSE store'.call[c] = store.call[c]
    BY <1>1, <1>4, AppliedFacts
  <2>2. QueueTypes'
    BY <1>1, <2>1 DEF QueueTypes
  <2>3. ASSUME NEW a \in Agents \ lost PROVE AgentFollowed(a)'
    <3>1. AgentFollowed(a)
      BY DEF Followed
    <3>2. CASE hand.who # a
      BY <1>3, <2>1, <3>1, <3>2
    <3>3. CASE hand.who = a
      BY <1>1, <1>2, <2>1, <3>1, <3>3 DEF AgentFollowed
    <3>4. QED
      BY <3>2, <3>3
  <2>4. ASSUME NEW c \in Calls \ lost PROVE CallFollowed(c)'
    <3>1. CallFollowed(c)
      BY DEF Followed
    <3>2. CASE hand.who # c
      BY <1>3, <2>1, <3>1, <3>2
    <3>3. CASE hand.who = c
      <4>1. InHand(c) /\ ~InHand(c)'
        BY <1>2, <3>3
      <4>2. CASE told.call[c] = "open" /\ store.call[c] = "none" /\ StartPending(c)
        BY <1>1, <2>1, <3>3, <4>1, <4>2 DEF CallFollowed, StartPending, NonePending
      <4>3. CASE told.call[c] = "closed" /\ store.call[c] = "none" /\ BothPending(c)
        BY <1>1, <2>1, <3>3, <4>1, <4>3 DEF CallFollowed, BothPending, EndPending
      <4>4. CASE told.call[c] = "closed" /\ store.call[c] = "open" /\ EndPending(c)
        BY <1>1, <2>1, <3>3, <4>1, <4>4 DEF CallFollowed, EndPending, NonePending
      <4>5. QED
        BY <3>1, <4>1, <4>2, <4>3, <4>4 DEF CallFollowed, NonePending
    <3>4. QED
      BY <3>2, <3>3
  <2>5. QED
    BY <1>4, <2>2, <2>3, <2>4 DEF Followed
<1>5. CASE lost' = lost \cup {hand.who} /\ UNCHANGED store
  <2>1. QueueTypes'
    BY <1>1, <1>5 DEF QueueTypes
  <2>2. ASSUME NEW a \in Agents, a \notin lost' PROVE AgentFollowed(a)'
    <3>1. AgentFollowed(a) /\ hand.who # a
      BY <1>5, <2>2 DEF Followed
    <3>2. QED
      BY <1>3, <1>5, <3>1
  <2>3. ASSUME NEW c \in Calls, c \notin lost' PROVE CallFollowed(c)'
    <3>1. CallFollowed(c) /\ hand.who # c
      BY <1>5, <2>3 DEF Followed
    <3>2. QED
      BY <1>3, <1>5, <3>1
  <2>4. QED
    BY <2>1, <2>2, <2>3 DEF Followed
<1>6. QED
  BY <1>4, <1>5 DEF Execute

(* A crash empties the queue; whoever had a task left loses it.             *)
LEMMA CrashFollowed ==
  ASSUME Followed, Crash
  PROVE  Followed'
<1>1. QueueTypes
  BY DEF Followed
<1>2. /\ queue' = <<>> /\ hand' = None /\ UNCHANGED store
      /\ lost' = lost \cup {queue[i].who : i \in DOMAIN queue}
                      \cup (IF hand = None THEN {} ELSE {hand.who})
      /\ told' = [told EXCEPT !.status = [a \in Agents |-> store.agent[a].status],
                              !.online = [a \in Agents |-> store.agent[a].online]]
  BY DEF Crash
<1>3. told'.row = told.row /\ told'.call = told.call
  BY <1>1, <1>2 DEF QueueTypes
<1>4. QueueTypes'
  <2>1. /\ [a \in Agents |-> store.agent[a].status] \in [Agents -> Statuses]
        /\ [a \in Agents |-> store.agent[a].online] \in [Agents -> Switch]
    BY <1>1 DEF QueueTypes
  <2>2. told' \in [status : [Agents -> Statuses], row : [Agents -> Statuses],
                   online : [Agents -> Switch], call : [Calls -> Phases]]
    BY <1>1, <1>2, <2>1 DEF QueueTypes
  <2>3. queue' \in Seq(Tasks) /\ hand' \in Tasks \cup {None}
    BY <1>2
  <2>4. store' = store
    BY <1>2
  <2>5. QED
    BY <1>1, <2>2, <2>3, <2>4 DEF QueueTypes
<1>5. \A x : ~Waits(queue', x) /\ ~InHand(x)'
  BY <1>2 DEF Waits, InHand
<1>6. ASSUME NEW x, x \notin lost' PROVE x \notin lost /\ ~Waits(queue, x) /\ ~InHand(x)
  BY <1>2, <1>6 DEF Waits, InHand
<1>7. ASSUME NEW a \in Agents, a \notin lost' PROVE AgentFollowed(a)'
  <2>1. AgentFollowed(a) /\ ~Waits(queue, a) /\ ~InHand(a)
    BY <1>6, <1>7 DEF Followed
  <2>2. store.agent[a].status = told.row[a]
    BY <2>1 DEF AgentFollowed, LastLeaves, Waits
  <2>3. QED
    BY <1>2, <1>3, <1>5, <2>2 DEF AgentFollowed
<1>8. ASSUME NEW c \in Calls, c \notin lost' PROVE CallFollowed(c)'
  <2>1. CallFollowed(c) /\ ~Waits(queue, c) /\ ~InHand(c)
    BY <1>6, <1>8 DEF Followed
  <2>2. told.call[c] = store.call[c]
    BY <2>1 DEF CallFollowed, StartPending, BothPending, EndPending, OnlyTask, StartThenEnd,
                Waits
  <2>3. QED
    BY <1>2, <1>3, <1>5, <2>2 DEF CallFollowed, NonePending
<1>9. QED
  BY <1>4, <1>7, <1>8 DEF Followed

-----------------------------------------------------------------------------
(* At the start nothing is queued and MySQL holds what is known.            *)
LEMMA InitFollowed ==
  ASSUME Init
  PROVE  Followed
<1>1. /\ queue = <<>> /\ hand = None
      /\ store = [agent |-> Seeded, call |-> [c \in Calls |-> "none"], garbled |-> {}]
      /\ told = [status |-> [a \in Agents |-> "idle"], row |-> [a \in Agents |-> "idle"],
                 online |-> [a \in Agents |-> "on"], call |-> [c \in Calls |-> "none"]]
  BY DEF Init
<1>2. Seeded \in [Agents -> [status : Statuses, online : Switch]]
  BY DEF Seeded, Statuses, Switch
<1>3. QueueTypes
  BY <1>1, <1>2 DEF QueueTypes, Statuses, Switch, Phases
<1>4. \A x : ~Waits(queue, x) /\ ~InHand(x)
  BY <1>1 DEF Waits, InHand
<1>5. \A a \in Agents : AgentFollowed(a)
  BY <1>1, <1>4 DEF AgentFollowed, Seeded
<1>6. \A c \in Calls : CallFollowed(c)
  BY <1>1, <1>4 DEF CallFollowed, NonePending
<1>7. QED
  BY <1>3, <1>5, <1>6 DEF Followed

(* The steps that neither queue, execute nor lose a task.                   *)
LEMMA OthersFollowed ==
  ASSUME Followed, UNCHANGED <<queue, hand, store, told, lost>>
  PROVE  Followed'
BY DEF Followed, QueueTypes, AgentFollowed, CallFollowed, InHand, NonePending, StartPending,
       BothPending, EndPending

(* db_sync_agent_status_change                                              *)
LEMMA StatusFollowed ==
  ASSUME Followed, NEW a \in Agents, NEW s \in {"idle", "busy"}, AgentStatusChange(a, s)
  PROVE  Followed'
<1> DEFINE t == Task("status", a, s)
<1>1. t \in Tasks /\ t.who = a /\ RowOf(t, s) /\ s \in Statuses
  BY DEF Task, Tasks, RowOf, Statuses
<1>2. Submit(t) /\ UNCHANGED <<hand, store>>
      /\ told' = [told EXCEPT !.status[a] = s, !.row[a] = s]
  BY DEF AgentStatusChange, Quiet
<1> HIDE DEF t
<1>3. told \in [status : [Agents -> Statuses], row : [Agents -> Statuses],
                online : [Agents -> Switch], call : [Calls -> Phases]]
  BY DEF Followed, QueueTypes
<1>4. /\ told' \in [status : [Agents -> Statuses], row : [Agents -> Statuses],
                    online : [Agents -> Switch], call : [Calls -> Phases]]
      /\ told'.row = [told.row EXCEPT ![a] = s] /\ told'.call = told.call
  <2>1. [told.row EXCEPT ![a] = s] \in [Agents -> Statuses]
        /\ [told.status EXCEPT ![a] = s] \in [Agents -> Statuses]
    BY <1>1, <1>3
  <2>2. QED
    BY <1>2, <1>3, <2>1
<1>5. QED
  BY <1>1, <1>2, <1>4, AgentReported

(* db_sync_agent_online                                                     *)
LEMMA OnlineFollowed ==
  ASSUME Followed, NEW a \in Agents, NEW on \in Switch, AgentOnline(a, on)
  PROVE  Followed'
<1> DEFINE t == Task("online", a, on)
           s == OnlineRow(on)
<1>1. t \in Tasks /\ t.who = a /\ RowOf(t, s) /\ s \in Statuses
  BY DEF Task, Tasks, RowOf, OnlineRow, Statuses, AgentOnline
<1>2. Submit(t) /\ UNCHANGED <<hand, store>>
      /\ told' = [told EXCEPT !.online[a] = on, !.row[a] = s]
  BY DEF AgentOnline, Quiet, OnlineRow
<1> HIDE DEF t, s
<1>3. told \in [status : [Agents -> Statuses], row : [Agents -> Statuses],
                online : [Agents -> Switch], call : [Calls -> Phases]]
  BY DEF Followed, QueueTypes
<1>4. /\ told' \in [status : [Agents -> Statuses], row : [Agents -> Statuses],
                    online : [Agents -> Switch], call : [Calls -> Phases]]
      /\ told'.row = [told.row EXCEPT ![a] = s] /\ told'.call = told.call
  <2>1. [told.row EXCEPT ![a] = s] \in [Agents -> Statuses]
        /\ [told.online EXCEPT ![a] = on] \in [Agents -> Switch]
    BY <1>1, <1>3
  <2>2. QED
    BY <1>2, <1>3, <2>1
<1>5. QED
  BY <1>1, <1>2, <1>4, AgentReported

(* db_sync_call_start and db_sync_call_end                                  *)
LEMMA CallsFollowed ==
  ASSUME Followed, NEW c \in Calls, CallStart(c) \/ CallEnd(c)
  PROVE  Followed'
<1>1. told \in [status : [Agents -> Statuses], row : [Agents -> Statuses],
                online : [Agents -> Switch], call : [Calls -> Phases]]
  BY DEF Followed, QueueTypes
<1>2. ASSUME NEW p \in Phases, told' = [told EXCEPT !.call[c] = p]
      PROVE  /\ told' \in [status : [Agents -> Statuses], row : [Agents -> Statuses],
                           online : [Agents -> Switch], call : [Calls -> Phases]]
             /\ told'.row = told.row /\ told'.call = [told.call EXCEPT ![c] = p]
  <2>1. [told.call EXCEPT ![c] = p] \in [Calls -> Phases]
    BY <1>1
  <2>2. QED
    BY <1>1, <1>2, <2>1
<1>3. CASE CallStart(c)
  <2> DEFINE t == Task("start", c, None)
  <2>1. t \in Tasks /\ t.who = c /\ t.kind = "start"
    BY DEF Task, Tasks
  <2>2. Submit(t) /\ told.call[c] = "none" /\ told' = [told EXCEPT !.call[c] = "open"]
        /\ UNCHANGED <<hand, store>>
    BY <1>3 DEF CallStart, Quiet
  <2> HIDE DEF t
  <2>3. "open" \in Phases
    BY DEF Phases
  <2>4. QED
    BY <1>2, <2>1, <2>2, <2>3, CallReported
<1>4. CASE CallEnd(c)
  <2> DEFINE t == Task("end", c, None)
  <2>1. t \in Tasks /\ t.who = c /\ t.kind = "end"
    BY DEF Task, Tasks
  <2>2. Submit(t) /\ told.call[c] = "open" /\ told' = [told EXCEPT !.call[c] = "closed"]
        /\ UNCHANGED <<hand, store>>
    BY <1>4 DEF CallEnd, Quiet
  <2> HIDE DEF t
  <2>3. "closed" \in Phases
    BY DEF Phases
  <2>4. QED
    BY <1>2, <2>1, <2>2, <2>3, CallReported
<1>5. QED
  BY <1>3, <1>4

(* Every step keeps the tasks in line with the reports.                     *)
LEMMA NextFollowed ==
  ASSUME Followed, [Next]_vars
  PROVE  Followed'
<1> DEFINE Same == UNCHANGED <<queue, hand, store, told, lost>>
<1>1. ASSUME Start \/ WarmRead \/ HealthCheck \/ DeptIdleUpdate \/ DeptIdleQuery PROVE Same
  BY <1>1 DEF Start, WarmRead, HealthCheck, DeptIdleUpdate, DeptIdleQuery, queueVars
<1>2. ASSUME NEW a \in Agents,
             WarmWrite(a) \/ StatusQuery(a) \/ StatusQueryAnswered(a) \/ WriteBack(a)
      PROVE  Same
  BY <1>2 DEF WarmWrite, StatusQuery, StatusQueryAnswered, WriteBack, Quiet, queueVars
<1>3. ASSUME MysqlLost \/ RedisLost \/ RedisBack \/ SecondPasses PROVE Same
  BY <1>3 DEF MysqlLost, RedisLost, RedisBack, SecondPasses, queueVars
<1>4. ASSUME UNCHANGED vars PROVE Same
  BY <1>4 DEF vars, queueVars
<1>5. CASE Main
  BY <1>1, <1>2, <1>5, OthersFollowed, StopFollowed, StatusFollowed, OnlineFollowed,
     CallsFollowed DEF Main
<1>6. QED
  BY <1>3, <1>4, <1>5, OthersFollowed, PopFollowed, ExecuteFollowed, CrashFollowed DEF Next

-----------------------------------------------------------------------------
(* Every report that no overflow, no crash and no failure of MySQL has lost *)
(* is in the queue, in the worker's hand, or in MySQL.                      *)
THEOREM DbSyncInvariance == Spec => []Followed
<1>1. Init => Followed
  BY InitFollowed
<1>2. Followed /\ [Next]_vars => Followed'
  BY NextFollowed
<1>3. QED
  BY <1>1, <1>2, PTL DEF Spec

(* The asynchronous writes arrive: MySQL holds what was last reported of an *)
(* agent or a call once the worker has none of its tasks left.              *)
THEOREM StoreCaughtUp == Spec => []StoreKeepsUp
<1>1. ASSUME Followed PROVE StoreKeepsUp
  <2>1. \A x : Drained(x) <=> ~Waits(queue, x) /\ ~InHand(x)
    BY DEF Drained, Waits, InHand
  <2>2. ASSUME NEW a \in Agents \ lost, Drained(a) PROVE store.agent[a].status = told.row[a]
    <3>1. AgentFollowed(a)
      BY <1>1 DEF Followed
    <3>2. QED
      BY <2>1, <2>2, <3>1 DEF AgentFollowed, LastLeaves, Waits
  <2>3. ASSUME NEW c \in Calls \ lost, Drained(c) PROVE store.call[c] = told.call[c]
    <3>1. CallFollowed(c)
      BY <1>1 DEF Followed
    <3>2. QED
      BY <2>1, <2>3, <3>1 DEF CallFollowed, StartPending, BothPending, EndPending, OnlyTask,
                              StartThenEnd, Waits
  <2>4. QED
    BY <2>2, <2>3 DEF StoreKeepsUp
<1>2. QED
  BY <1>1, DbSyncInvariance, PTL


-----------------------------------------------------------------------------
(* Types, and the reports each write of MySQL's row came from.              *)
Rows == [Agents -> [status : Statuses, online : Switch]]
CacheType == [status : [Agents -> Statuses \cup {None}], online : [Agents -> Switch \cup {None}],
              session : SUBSET Calls, idle : {None} \cup (-1)..Cardinality(Agents)]

ConnTypes == link \in BOOLEAN /\ connected \in BOOLEAN /\ recent \in BOOLEAN

MainTypes ==
  /\ pc \in {"init", "ready", "warm", "writing", "fill", "stopped"}
  /\ warmups \in 0..2 /\ (pc = "warm" => warmups > 0)
  /\ rows \in Rows /\ todo \subseteq Agents /\ warmed \in BOOLEAN

FlagTypes ==
  /\ dbEnabled \in BOOLEAN /\ cacheEnabled \in BOOLEAN
  /\ workerRunning \in BOOLEAN /\ poolActive \in BOOLEAN

EnvTypes ==
  /\ mysqlUp \in BOOLEAN /\ redisUp \in BOOLEAN
  /\ redisLost \in 0..MaxFaults /\ crashes \in 0..MaxFaults

Bounded == Len(queue) <= Capacity /\ lost \subseteq Agents \cup Calls \cup {None}

CountTypes == ops \in 0..MaxOps /\ first \in 0..ops

Typed == ConnTypes /\ MainTypes /\ FlagTypes /\ EnvTypes /\ Bounded /\ CountTypes
           /\ cache \in CacheType

(* Redis keys keep their types when one of them is written.                 *)
LEMMA CacheFields ==
  ASSUME NEW old \in CacheType
  PROVE  /\ old.status \in [Agents -> Statuses \cup {None}]
         /\ old.online \in [Agents -> Switch \cup {None}]
         /\ old.session \in SUBSET Calls /\ old.idle \in {None} \cup (-1)..Cardinality(Agents)
         /\ \A s \in [Agents -> Statuses \cup {None}] : [old EXCEPT !.status = s] \in CacheType
         /\ \A s \in [Agents -> Switch \cup {None}] : [old EXCEPT !.online = s] \in CacheType
         /\ \A s \in SUBSET Calls : [old EXCEPT !.session = s] \in CacheType
         /\ \A n \in {None} \cup (-1)..Cardinality(Agents) : [old EXCEPT !.idle = n] \in CacheType
BY DEF CacheType

(* One key written at a time, as the actions do.                            *)
LEMMA CacheWrites ==
  ASSUME NEW old \in CacheType
  PROVE  /\ \A a \in Agents, s \in Statuses : [old EXCEPT !.status[a] = s] \in CacheType
         /\ \A a \in Agents, o \in Switch : [old EXCEPT !.online[a] = o] \in CacheType
         /\ \A c \in Calls : /\ [old EXCEPT !.session = @ \cup {c}] \in CacheType
                             /\ [old EXCEPT !.session = @ \ {c}] \in CacheType
         /\ \A n \in {None} \cup (-1)..Cardinality(Agents) : [old EXCEPT !.idle = n] \in CacheType
         /\ \A a \in Agents, s \in Statuses, o \in Switch :
              [old EXCEPT !.status[a] = s, !.online[a] = o] \in CacheType
<1>1. ASSUME NEW a \in Agents, NEW s \in Statuses PROVE [old EXCEPT !.status[a] = s] \in CacheType
  <2>1. [old EXCEPT !.status[a] = s] = [old EXCEPT !.status = [old.status EXCEPT ![a] = s]]
    BY DEF CacheType
  <2>2. [old.status EXCEPT ![a] = s] \in [Agents -> Statuses \cup {None}]
    BY CacheFields
  <2>3. QED
    BY <2>1, <2>2, CacheFields
<1>2. ASSUME NEW new \in CacheType, NEW a \in Agents, NEW o \in Switch
      PROVE  [new EXCEPT !.online[a] = o] \in CacheType
  <2>1. [new EXCEPT !.online[a] = o] = [new EXCEPT !.online = [new.online EXCEPT ![a] = o]]
    BY DEF CacheType
  <2>2. [new.online EXCEPT ![a] = o] \in [Agents -> Switch \cup {None}]
    BY CacheFields
  <2>3. QED
    BY <2>1, <2>2, CacheFields
<1>3. ASSUME NEW c \in Calls
      PROVE  /\ [old EXCEPT !.session = @ \cup {c}] \in CacheType
             /\ [old EXCEPT !.session = @ \ {c}] \in CacheType
  <2>1. old.session \cup {c} \in SUBSET Calls /\ old.session \ {c} \in SUBSET Calls
    BY CacheFields
  <2>2. QED
    BY <2>1, CacheFields
<1>4. \A n \in {None} \cup (-1)..Cardinality(Agents) : [old EXCEPT !.idle = n] \in CacheType
  BY CacheFields
<1>5. ASSUME NEW a \in Agents, NEW s \in Statuses, NEW o \in Switch
      PROVE  [old EXCEPT !.status[a] = s, !.online[a] = o] \in CacheType
  BY <1>1, <1>2
<1>6. QED
  BY <1>1, <1>2, <1>3, <1>4, <1>5

(* What the schema seeds are rows.                                          *)
LEMMA SeededRows == Seeded \in Rows
BY DEF Seeded, Rows, Statuses, Switch

(* A process that starts.                                                   *)
LEMMA StartTypes ==
  ASSUME pc = "init", warmups = 0, todo = {}, warmed = FALSE, rows = Seeded
  PROVE  MainTypes
<1>1. rows \in Rows
  BY SeededRows
<1>2. warmups \in 0..2 /\ (pc = "warm" => warmups > 0)
  OBVIOUS
<1>3. QED
  BY <1>1, <1>2 DEF MainTypes

(* What a crash in the middle of a report leaves in Redis.                  *)
LEMMA HalvesTypes ==
  ASSUME cache \in CacheType
  PROVE  RedisHalves \subseteq CacheType
<1>1. ASSUME NEW c \in Calls PROVE [cache EXCEPT !.session = @ \cup {c}] \in CacheType
  BY CacheWrites
<1>2. ASSUME NEW c \in Calls PROVE [cache EXCEPT !.session = @ \ {c}] \in CacheType
  BY CacheWrites
<1>3. ASSUME NEW a \in Agents, NEW s \in {"idle", "busy"} PROVE [cache EXCEPT !.status[a] = s] \in CacheType
  <2>1. s \in Statuses
    BY DEF Statuses
  <2>2. QED
    BY <2>1, CacheWrites
<1>3a. ASSUME NEW a \in Switched, NEW on \in Switch PROVE [cache EXCEPT !.online[a] = on] \in CacheType
  BY SubsetAssumption, CacheWrites
<1>4. ASSUME NEW h \in RedisHalves PROVE h \in CacheType
  <2>1. CASE \E a \in Agents, s \in {"idle", "busy"} : h = [cache EXCEPT !.status[a] = s]
    BY <1>3, <2>1
  <2>2. CASE \E c \in Calls : h = [cache EXCEPT !.session = @ \cup {c}]
    BY <1>1, <2>2
  <2>3. CASE \E c \in Calls : h = [cache EXCEPT !.session = @ \ {c}]
    BY <1>2, <2>3
  <2>4. CASE \E a \in Switched, on \in Switch : h = [cache EXCEPT !.online[a] = on]
    BY <1>3a, <2>4
  <2>5. QED
    BY <2>1, <2>2, <2>3, <2>4 DEF RedisHalves
<1>5. QED
  BY <1>4

(* db_redis_ensure_connected, and a write that follows it.                  *)
LEMMA EnsureTypes ==
  ASSUME ConnTypes, EnvTypes, NEW ok, Ensure(ok)
  PROVE  ConnTypes'
BY DEF ConnTypes, EnvTypes, Ensure, redisConn

(* A write that follows it.                                                 *)
LEMMA WriteTypes ==
  ASSUME ConnTypes, EnvTypes, cache \in CacheType, NEW new \in CacheType, Write(new)
  PROVE  ConnTypes' /\ cache' \in CacheType
<1>1. CASE cacheEnabled
  <2>1. PICK ok \in BOOLEAN : Ensure(ok) /\ cache' = IF ok THEN new ELSE cache
    BY <1>1 DEF Write
  <2>2. QED
    BY <2>1, EnsureTypes
<1>2. CASE ~cacheEnabled
  BY <1>2 DEF Write, redisConn, ConnTypes
<1>3. QED
  BY <1>1, <1>2

(* queue_push keeps to the capacity; what it drops belonged to somebody.    *)
LEMMA PushBounded ==
  ASSUME queue \in Seq(Tasks), Len(queue) <= Capacity, NEW t \in Tasks
  PROVE  /\ Len(Pushed(t)) <= Capacity
         /\ Full => Head(queue).who \in Agents \cup Calls \cup {None}
         /\ t.who \in Agents \cup Calls \cup {None}
<1>1. \A u \in Tasks : u.who \in Agents \cup Calls \cup {None}
  BY SubsetAssumption DEF Tasks
<1>2. Full => Head(queue) \in Tasks
  BY PushFacts
<1>3. Len(Pushed(t)) <= Capacity
  BY BoundsAssumption DEF Pushed, Full
<1>4. QED
  BY <1>1, <1>2, <1>3

(* db_sync_agent_status_change and the others, to queue_push.               *)
LEMMA SubmitBounded ==
  ASSUME QueueTypes, Bounded, NEW t \in Tasks, Submit(t)
  PROVE  Bounded'
BY PushBounded DEF QueueTypes, Bounded, Submit

(* The count of idle agents is no more than there are agents.               *)
LEMMA IdleCounted ==
  /\ Cardinality(IdleRows) \in 0..Cardinality(Agents)
  /\ \A n \in IdleCounts : n \in (-1)..Cardinality(Agents)
<1>1. IdleRows \subseteq Agents
  BY DEF IdleRows
<1>2. /\ IsFiniteSet(IdleRows) /\ Cardinality(IdleRows) <= Cardinality(Agents)
      /\ Cardinality(IdleRows) \in Nat /\ Cardinality(Agents) \in Nat
  BY <1>1, FiniteAssumption, FS_Subset, FS_CardinalityType
<1>3. QED
  BY <1>2 DEF IdleCounts

-----------------------------------------------------------------------------
(* The steps of the main thread that report nothing.                        *)
LEMMA MainTyped ==
  ASSUME Typed, QueueTypes, QueueTypes',
         \/ Start \/ WarmRead \/ HealthCheck \/ DeptIdleUpdate \/ DeptIdleQuery \/ Stop
         \/ \E a \in Agents : WarmWrite(a) \/ StatusQuery(a) \/ StatusQueryAnswered(a) \/ WriteBack(a)
  PROVE  Typed'
<1>1. /\ ConnTypes /\ MainTypes /\ FlagTypes /\ EnvTypes /\ Bounded /\ CountTypes
      /\ cache \in CacheType /\ store.agent \in Rows
  BY DEF Typed, QueueTypes, Rows
<1>2. Seeded \in Rows
  BY SeededRows
<1>3. CASE Start
  <2>1. PICK created \in BOOLEAN :
          /\ workerRunning' = created
          /\ \/ pc' = "warm" /\ warmups' = 1
             \/ pc' = "ready" /\ warmups' = 0
    BY <1>3 DEF Start
  <2>2. ConnTypes' /\ FlagTypes'
    BY <1>1, <1>3, <2>1 DEF Start, ConnTypes, FlagTypes, EnvTypes, MainTypes
  <2>3. MainTypes'
    BY <1>1, <1>3, <2>1 DEF Start, MainTypes
  <2>4. EnvTypes' /\ Bounded' /\ CountTypes' /\ cache' = cache
    BY <1>1, <1>3 DEF Start, EnvTypes, envVars, Bounded, queueVars, CountTypes
  <2>5. QED
    BY <1>1, <2>2, <2>3, <2>4 DEF Typed
<1>4. CASE WarmRead
  <2>1. MainTypes'
    BY <1>1, <1>4 DEF WarmRead, MainTypes
  <2>2. ConnTypes' /\ FlagTypes' /\ EnvTypes' /\ Bounded' /\ CountTypes' /\ cache' = cache
    BY <1>1, <1>4 DEF WarmRead, ConnTypes, FlagTypes, EnvTypes, Bounded, CountTypes, flags, envVars,
                      redisConn, queueVars
  <2>3. QED
    BY <1>1, <2>1, <2>2 DEF Typed
<1>5. CASE HealthCheck
  <2>1. ConnTypes'
    <3>1. CASE cacheEnabled
      BY <1>1, <1>5, <3>1 DEF HealthCheck, ConnTypes, PingOk
    <3>2. CASE ~cacheEnabled
      <4>1. PICK ok \in BOOLEAN : Ensure(ok)
        BY <1>5, <3>2 DEF HealthCheck
      <4>2. QED
        BY <1>1, <4>1, EnsureTypes
    <3>3. QED
      BY <3>1, <3>2
  <2>2. FlagTypes'
    <3>1. PingOk \in BOOLEAN
      BY <1>1 DEF PingOk, ConnTypes
    <3>2. QED
      BY <1>1, <1>5, <3>1 DEF HealthCheck, FlagTypes
  <2>3. MainTypes'
    <3>1. \/ pc' = "warm" /\ warmups' = 2
          \/ pc' = pc /\ warmups' = warmups
      BY <1>5 DEF HealthCheck
    <3>2. UNCHANGED <<rows, todo, warmed>>
      BY <1>5 DEF HealthCheck
    <3>3. QED
      BY <1>1, <3>1, <3>2 DEF MainTypes
  <2>4. EnvTypes' /\ Bounded' /\ CountTypes' /\ cache' = cache
    BY <1>1, <1>5 DEF HealthCheck, EnvTypes, envVars, Bounded, queueVars, CountTypes
  <2>5. QED
    BY <1>1, <2>1, <2>2, <2>3, <2>4 DEF Typed
<1>6. CASE DeptIdleUpdate \/ DeptIdleQuery
  <2>1. ConnTypes' /\ cache' \in CacheType
    <3>1. CASE DeptIdleUpdate
      <4>1. PICK n \in 0..Cardinality(Agents) : Write([cache EXCEPT !.idle = n])
        BY <3>1 DEF DeptIdleUpdate
      <4>2. [cache EXCEPT !.idle = n] \in CacheType
        <5>1. n \in (-1)..Cardinality(Agents)
          BY FiniteAssumption, FS_CardinalityType
        <5>2. QED
          BY <1>1, <5>1, CacheWrites
      <4>3. QED
        BY <1>1, <4>1, <4>2, WriteTypes
    <3>2. CASE DeptIdleQuery
      <4>1. CASE cacheEnabled
        <5>1. PICK ok \in BOOLEAN :
                /\ Ensure(ok)
                /\ \/ \E n \in IdleCounts : cache' = [cache EXCEPT !.idle = n]
                   \/ cache' = cache
          BY <3>2, <4>1 DEF DeptIdleQuery
        <5>2. ConnTypes'
          BY <1>1, <5>1, EnsureTypes
        <5>3. QED
          BY <1>1, <5>1, <5>2, CacheWrites, IdleCounted
      <4>2. CASE ~cacheEnabled
        BY <1>1, <3>2, <4>2 DEF DeptIdleQuery, redisConn, ConnTypes
      <4>3. QED
        BY <4>1, <4>2
    <3>3. QED
      BY <1>6, <3>1, <3>2
  <2>2. UNCHANGED <<pc, warmVars, flags, envVars, queueVars, lost, ops>>
    BY <1>6 DEF DeptIdleUpdate, DeptIdleQuery
  <2>3. MainTypes' /\ FlagTypes' /\ EnvTypes' /\ Bounded' /\ CountTypes'
    BY <1>1, <2>2 DEF MainTypes, FlagTypes, EnvTypes, Bounded, CountTypes, warmVars, flags, envVars,
                      queueVars
  <2>4. QED
    BY <2>1, <2>3 DEF Typed
<1>7. CASE Stop
  <2>1. pc' = "stopped" /\ UNCHANGED <<warmVars, flags, envVars, redisConn, cache, ops>>
    BY <1>7 DEF Stop
  <2>2. Bounded'
    <3>1. Task("stop", None, None) \in Tasks
      BY DEF Task, Tasks
    <3>2. QED
      BY <1>1, <1>7, <3>1, PushBounded DEF Stop, Bounded, QueueTypes
  <2>3. ConnTypes' /\ MainTypes' /\ FlagTypes' /\ EnvTypes' /\ CountTypes'
    BY <1>1, <2>1 DEF ConnTypes, MainTypes, FlagTypes, EnvTypes, CountTypes, warmVars, flags, envVars,
                      redisConn
  <2>4. QED
    BY <1>1, <2>1, <2>2, <2>3 DEF Typed
<1>8. ASSUME NEW a \in Agents, WarmWrite(a) PROVE Typed'
  <2>1. rows[a].status \in Statuses /\ rows[a].online \in Switch
    BY <1>1 DEF MainTypes, Rows
  <2>2. ConnTypes' /\ cache' \in CacheType
    BY <1>1, <1>8, <2>1, CacheWrites, WriteTypes DEF WarmWrite
  <2>3. MainTypes'
    <3>1. warmed' \in BOOLEAN
      BY <1>1, <1>8 DEF WarmWrite, MainTypes
    <3>2. rows' \in Rows /\ todo' \subseteq Agents /\ warmups' = warmups
      BY <1>1, <1>2, <1>8 DEF WarmWrite, MainTypes
    <3>3. pc' \in {"writing", "ready", "warm"} /\ (pc' = "warm" => warmups # 0)
      BY <1>8 DEF WarmWrite
    <3>4. QED
      BY <1>1, <3>1, <3>2, <3>3 DEF MainTypes
  <2>4. FlagTypes' /\ EnvTypes' /\ Bounded' /\ CountTypes'
    BY <1>1, <1>8 DEF WarmWrite, FlagTypes, EnvTypes, Bounded, CountTypes, flags, envVars, queueVars
  <2>5. QED
    BY <2>2, <2>3, <2>4 DEF Typed
<1>9. ASSUME NEW a \in Agents, StatusQuery(a) \/ StatusQueryAnswered(a) PROVE Typed'
  <2>1. ConnTypes'
    <3>1. CASE cacheEnabled
      <4>1. PICK ok \in BOOLEAN : Ensure(ok)
        BY <1>9, <3>1 DEF StatusQuery, StatusQueryAnswered
      <4>2. QED
        BY <1>1, <4>1, EnsureTypes
    <3>2. CASE ~cacheEnabled
      BY <1>1, <1>9, <3>2 DEF StatusQuery, StatusQueryAnswered, redisConn, ConnTypes
    <3>3. QED
      BY <3>1, <3>2
  <2>2. MainTypes'
    <3>1. CASE UNCHANGED <<rows, todo, pc>>
      BY <1>1, <1>9, <3>1 DEF StatusQuery, StatusQueryAnswered, Quiet, warmVars, MainTypes
    <3>2. CASE rows' = [rows EXCEPT ![a] = store.agent[a]] /\ todo' = {a} /\ pc' = "fill"
      <4>1. rows' \in Rows
        BY <1>1, <3>2 DEF MainTypes, Rows
      <4>2. QED
        BY <1>1, <1>9, <3>2, <4>1 DEF StatusQuery, StatusQueryAnswered, Quiet, warmVars, MainTypes
    <3>3. QED
      BY <1>9, <3>1, <3>2 DEF StatusQuery, StatusQueryAnswered, Quiet, warmVars
  <2>3. FlagTypes' /\ EnvTypes' /\ Bounded' /\ CountTypes' /\ cache' = cache
    BY <1>1, <1>9 DEF StatusQuery, StatusQueryAnswered, Quiet, warmVars, FlagTypes, EnvTypes, Bounded,
                      CountTypes, flags, envVars, queueVars
  <2>4. QED
    BY <1>1, <2>1, <2>2, <2>3 DEF Typed
<1>10. ASSUME NEW a \in Agents, WriteBack(a) PROVE Typed'
  <2>1. ConnTypes' /\ cache' \in CacheType
    <3>1. rows[a].status \in Statuses
      BY <1>1 DEF MainTypes, Rows
    <3>2. QED
      BY <1>1, <1>10, <3>1, CacheWrites, WriteTypes DEF WriteBack
  <2>2. MainTypes'
    BY <1>1, <1>2, <1>10 DEF WriteBack, MainTypes
  <2>3. FlagTypes' /\ EnvTypes' /\ Bounded' /\ CountTypes'
    BY <1>1, <1>10 DEF WriteBack, FlagTypes, EnvTypes, Bounded, CountTypes, flags, envVars, queueVars
  <2>4. QED
    BY <2>1, <2>2, <2>3 DEF Typed
<1>11. QED
  BY <1>3, <1>4, <1>5, <1>6, <1>7, <1>8, <1>9, <1>10

(* The reports.                                                             *)
LEMMA ReportsTyped ==
  ASSUME Typed, QueueTypes, QueueTypes', NEW new \in CacheType, NEW t \in Tasks,
         Reporting, Write(new), Submit(t), Quiet
  PROVE  Typed'
<1>1. /\ ConnTypes /\ MainTypes /\ FlagTypes /\ EnvTypes /\ Bounded /\ CountTypes /\ cache \in CacheType
  BY DEF Typed
<1>2. ConnTypes' /\ cache' \in CacheType
  BY <1>1, WriteTypes
<1>3. Bounded'
  BY <1>1, SubmitBounded
<1>4. CountTypes'
  BY <1>1, BoundsAssumption DEF CountTypes, Reporting, Quiet, warmVars
<1>5. MainTypes' /\ FlagTypes' /\ EnvTypes'
  BY <1>1 DEF Quiet, MainTypes, FlagTypes, EnvTypes, warmVars, flags, envVars
<1>6. QED
  BY <1>2, <1>3, <1>4, <1>5 DEF Typed

(* The worker, the servers and time; a crash.                               *)
LEMMA OthersTyped ==
  ASSUME Typed, QueueTypes, QueueTypes',
         Pop \/ Execute \/ MysqlLost \/ RedisLost \/ RedisBack \/ Crash \/ SecondPasses \/ UNCHANGED vars
  PROVE  Typed'
<1>1. /\ ConnTypes /\ MainTypes /\ FlagTypes /\ EnvTypes /\ Bounded /\ CountTypes /\ cache \in CacheType
  BY DEF Typed
<1>2. \A u \in Tasks : u.who \in Agents \cup Calls \cup {None}
  BY SubsetAssumption DEF Tasks
<1>3. CASE Pop \/ Execute
  <2>1. UNCHANGED <<pc, warmVars, flags, envVars, redisConn, cache, ops>>
    BY <1>3 DEF Pop, Execute
  <2>2. Bounded'
    <3>1. CASE Pop
      <4>1. queue' = Tail(queue) /\ queue # <<>> /\ lost' = lost /\ queue \in Seq(Tasks)
        BY <3>1 DEF Pop, QueueTypes
      <4>2. Len(queue') <= Len(queue) /\ Len(queue') \in Nat /\ Len(queue) \in Nat
        BY <4>1
      <4>3. QED
        BY <1>1, <4>1, <4>2, BoundsAssumption DEF Bounded
    <3>2. CASE Execute
      <4>1. hand \in Tasks /\ queue' = queue /\ (lost' = lost \/ lost' = lost \cup {hand.who})
        BY <3>2 DEF Execute, QueueTypes
      <4>2. QED
        BY <1>1, <1>2, <4>1 DEF Bounded
    <3>3. QED
      BY <1>3, <3>1, <3>2
  <2>3. ConnTypes' /\ MainTypes' /\ FlagTypes' /\ EnvTypes' /\ CountTypes'
    BY <1>1, <2>1 DEF ConnTypes, MainTypes, FlagTypes, EnvTypes, CountTypes, warmVars, flags, envVars,
                      redisConn
  <2>4. QED
    BY <1>1, <2>1, <2>2, <2>3 DEF Typed
<1>4. CASE MysqlLost \/ RedisLost \/ RedisBack \/ SecondPasses \/ UNCHANGED vars
  <2>1. UNCHANGED <<pc, warmVars, flags, queueVars, lost, ops>>
    BY <1>4 DEF MysqlLost, RedisLost, RedisBack, SecondPasses, vars
  <2>2. MainTypes' /\ FlagTypes' /\ Bounded' /\ CountTypes'
    BY <1>1, <2>1 DEF MainTypes, FlagTypes, Bounded, CountTypes, warmVars, flags, queueVars
  <2>3. ConnTypes'
    BY <1>1, <1>4 DEF MysqlLost, RedisLost, RedisBack, SecondPasses, vars, ConnTypes, redisConn
  <2>4. EnvTypes'
    <3>1. CASE RedisLost
      <4>1. /\ redisLost \in Nat /\ crashes \in Nat /\ MaxFaults \in Nat
            /\ redisLost + crashes < MaxFaults
        BY <1>1, <3>1, BoundsAssumption DEF RedisLost, EnvTypes
      <4>2. redisLost + 1 \in 0..MaxFaults
        BY <4>1
      <4>3. redisLost' = redisLost + 1 /\ crashes' = crashes /\ mysqlUp' = mysqlUp /\ redisUp' = FALSE
        BY <3>1 DEF RedisLost
      <4>4. redisLost' \in 0..MaxFaults /\ crashes' \in 0..MaxFaults
        BY <1>1, <4>2, <4>3 DEF EnvTypes
      <4>5. QED
        BY <1>1, <4>3, <4>4 DEF EnvTypes
    <3>2. CASE MysqlLost \/ RedisBack \/ SecondPasses \/ UNCHANGED vars
      BY <1>1, <3>2 DEF MysqlLost, RedisBack, SecondPasses, vars, EnvTypes, envVars
    <3>3. QED
      BY <1>4, <3>1, <3>2
  <2>5. cache' \in CacheType
    <3>1. [status |-> [a \in Agents |-> None], online |-> [a \in Agents |-> None],
           session |-> {}, idle |-> None] \in CacheType
      BY DEF CacheType
    <3>2. QED
      BY <1>1, <1>4, <3>1 DEF MysqlLost, RedisLost, RedisBack, SecondPasses, vars
  <2>6. QED
    BY <2>2, <2>3, <2>4, <2>5 DEF Typed
<1>5. CASE Crash
  <2>1. ConnTypes'
    BY <1>5 DEF Crash, ConnTypes
  <2>2. MainTypes'
    <3>1. pc' = "init" /\ warmups' = 0 /\ todo' = {} /\ rows' \in Rows /\ warmed' = FALSE
      BY <1>5, SeededRows DEF Crash
    <3>2. warmups' \in 0..2 /\ (pc' = "warm" => warmups' > 0) /\ todo' \subseteq Agents
      BY <3>1
    <3>3. pc' \in {"init", "ready", "warm", "writing", "fill", "stopped"} /\ warmed' \in BOOLEAN
      BY <3>1
    <3>4. QED
      BY <3>1, <3>2, <3>3, Zenon DEF MainTypes
  <2>3. FlagTypes'
    BY <1>5 DEF Crash, FlagTypes
  <2>4. EnvTypes'
    BY <1>1, <1>5, BoundsAssumption DEF Crash, EnvTypes
  <2>5. CountTypes'
    BY <1>1, <1>5 DEF Crash, CountTypes
  <2>6. Bounded'
    <3>1. /\ queue' = <<>>
          /\ lost' = lost \cup {queue[i].who : i \in DOMAIN queue}
                          \cup (IF hand = None THEN {} ELSE {hand.who})
      BY <1>5 DEF Crash
    <3>2. \A i \in DOMAIN queue : queue[i].who \in Agents \cup Calls \cup {None}
      BY <1>2 DEF QueueTypes
    <3>3. hand # None => hand.who \in Agents \cup Calls \cup {None}
      BY <1>2 DEF QueueTypes
    <3>4. Len(queue') <= Capacity
      BY <3>1, BoundsAssumption
    <3>5. QED
      BY <1>1, <3>1, <3>2, <3>3, <3>4 DEF Bounded
  <2>7. cache' \in CacheType
    <3>1. RedisHalves \subseteq CacheType
      BY <1>1, HalvesTypes
    <3>2. QED
      BY <1>1, <1>5, <3>1 DEF Crash
  <2>8. QED
    BY <2>1, <2>2, <2>3, <2>4, <2>5, <2>6, <2>7 DEF Typed
<1>6. QED
  BY <1>3, <1>4, <1>5

(* Every step keeps the types.                                              *)
LEMMA NextTyped ==
  ASSUME Typed, QueueTypes, QueueTypes', [Next]_vars
  PROVE  Typed'
<1>1. cache \in CacheType
  BY DEF Typed
<1>2. ASSUME NEW a \in Agents, NEW s \in {"idle", "busy"}, AgentStatusChange(a, s) PROVE Typed'
  <2>1. s \in Statuses /\ Task("status", a, s) \in Tasks
    BY DEF Task, Tasks, Statuses
  <2>2. QED
    BY <1>1, <1>2, <2>1, CacheWrites, ReportsTyped DEF AgentStatusChange
<1>3. ASSUME NEW a \in Agents, NEW on \in Switch, AgentOnline(a, on) PROVE Typed'
  <2>1. Task("online", a, on) \in Tasks
    BY <1>3 DEF AgentOnline, Task, Tasks
  <2>2. QED
    BY <1>1, <1>3, <2>1, CacheWrites, ReportsTyped DEF AgentOnline
<1>4. ASSUME NEW c \in Calls, CallStart(c) \/ CallEnd(c) PROVE Typed'
  <2>1. Task("start", c, None) \in Tasks /\ Task("end", c, None) \in Tasks
    BY DEF Task, Tasks
  <2>2. CASE CallStart(c)
    BY <1>1, <2>1, <2>2, CacheWrites, ReportsTyped DEF CallStart
  <2>3. CASE CallEnd(c)
    BY <1>1, <2>1, <2>3, CacheWrites, ReportsTyped DEF CallEnd
  <2>4. QED
    BY <1>4, <2>2, <2>3
<1>5. CASE Main
  BY <1>2, <1>3, <1>4, <1>5, MainTyped DEF Main
<1>6. QED
  BY <1>5, OthersTyped DEF Next

(* The types at the start.                                                  *)
LEMMA InitTyped == Init => Typed
<1> SUFFICES ASSUME Init PROVE Typed
  OBVIOUS
<1>1. ConnTypes /\ FlagTypes
  BY DEF Init, ConnTypes, FlagTypes
<1>2. EnvTypes /\ CountTypes
  BY BoundsAssumption DEF Init, EnvTypes, CountTypes
<1>3. MainTypes
  BY StartTypes DEF Init
<1>4. Bounded
  BY BoundsAssumption DEF Init, Bounded
<1>5. cache \in CacheType
  BY DEF Init, CacheType, Statuses, Switch
<1>6. QED
  BY <1>1, <1>2, <1>3, <1>4, <1>5 DEF Typed

(* The types in every state.                                                *)
LEMMA TypedAlways == Spec => []Typed
<1>1. Followed => QueueTypes
  BY DEF Followed
<1>2. Typed /\ QueueTypes /\ QueueTypes' /\ [Next]_vars => Typed'
  BY NextTyped
<1>3. QED
  BY <1>1, <1>2, InitTyped, DbSyncInvariance, PTL DEF Spec

(* The types of the layer's state, for any agents, calls and capacity.      *)
THEOREM TypesKept == Spec => []TypeOK
<1>1. ASSUME Typed, QueueTypes PROVE TypeOK
  <2>1. \A i \in DOMAIN queue : queue[i] \in Tasks
    BY <1>1 DEF QueueTypes
  <2>2. QED
    BY <1>1, <2>1 DEF Typed, QueueTypes, TypeOK, ConnTypes, MainTypes, FlagTypes, EnvTypes, Bounded,
                      CountTypes, Rows, CacheType
<1>2. Followed => QueueTypes
  BY DEF Followed
<1>3. QED
  BY <1>1, <1>2, TypedAlways, DbSyncInvariance, PTL

-----------------------------------------------------------------------------
(* Redis and the reports.  Before the first report of a process MySQL holds *)
(* what is known, and the queue nothing but the stop of the worker          *)
(* (Untouched); a warm-up copies it, agent by agent (Warming); from then on *)
(* every report is written to Redis, which is never found unreachable or    *)
(* without a key as long as it is not lost (Reached, Mirrored).             *)
Shown(a) == cache.status[a] = told.status[a] /\ cache.online[a] = told.online[a]
Sessions == {c \in Calls : told.call[c] = "open"}

Untouched == ops = first =>
  /\ \A a \in Agents : store.agent[a].status = told.status[a] /\ store.agent[a].online = told.online[a]
  /\ \A i \in DOMAIN queue : queue[i].kind = "stop"
  /\ hand # None => hand.kind = "stop"

Reached == /\ link => redisUp
           /\ redisLost = 0 /\ cacheEnabled => PingOk

Warming ==
  /\ pc \in {"warm", "writing"} => cacheEnabled
  /\ pc = "init" => ~warmed
  /\ pc = "writing" /\ ops = first =>
       /\ rows = store.agent
       /\ redisLost = 0 => \A a \in Agents \ todo : Shown(a)

Mirrored == warmed /\ redisLost = 0 =>
  /\ cacheEnabled /\ pc # "fill"
  /\ pc \in {"warm", "writing"} => ops = first
  /\ \A a \in Agents : Shown(a)
  /\ crashes = 0 => cache.session = Sessions

Fresh == crashes = 0 => first = 0 /\ (ops = 0 => cache.session = {} /\ Sessions = {})

MirrorInv == Untouched /\ Reached /\ Warming /\ Mirrored /\ Fresh

(* A Redis that was not lost answers every command.                         *)
LEMMA EnsureReached ==
  ASSUME Reached, NEW ok, Ensure(ok), UNCHANGED <<cacheEnabled, redisUp, redisLost>>
  PROVE  Reached' /\ (redisLost = 0 /\ cacheEnabled => ok)
<1>1. CASE PingOk /\ ok /\ UNCHANGED redisConn
  BY <1>1 DEF Reached, redisConn, PingOk
<1>2. CASE ~PingOk /\ recent /\ ~ok /\ connected' = FALSE /\ UNCHANGED <<link, recent>>
  BY <1>2 DEF Reached
<1>3. CASE ~PingOk /\ ~recent /\ ok = redisUp /\ link' = redisUp /\ connected' = redisUp
  BY <1>3 DEF Reached
<1>4. QED
  BY <1>1, <1>2, <1>3 DEF Ensure

(* A Redis that was not lost takes every write.                             *)
LEMMA WriteReached ==
  ASSUME Reached, NEW new, Write(new), UNCHANGED <<cacheEnabled, redisUp, redisLost>>
  PROVE  /\ Reached' /\ cache' \in {cache, new}
         /\ redisLost = 0 /\ cacheEnabled => cache' = new
<1>1. CASE cacheEnabled
  <2>1. PICK ok \in BOOLEAN : Ensure(ok) /\ cache' = IF ok THEN new ELSE cache
    BY <1>1 DEF Write
  <2>2. QED
    BY <1>1, <2>1, EnsureReached
<1>2. CASE ~cacheEnabled
  BY <1>2 DEF Write, redisConn, Reached, PingOk
<1>3. QED
  BY <1>1, <1>2

(* What a write does to the keys.                                           *)
LEMMA StatusKeys ==
  ASSUME NEW old \in CacheType, NEW a \in Agents, NEW s \in Statuses, NEW o \in Switch
  PROVE  /\ LET new == [old EXCEPT !.status[a] = s]
            IN  /\ new.session = old.session
                /\ \A b \in Agents : /\ new.status[b] = IF b = a THEN s ELSE old.status[b]
                                     /\ new.online[b] = old.online[b]
         /\ LET new == [old EXCEPT !.online[a] = o]
            IN  /\ new.session = old.session
                /\ \A b \in Agents : /\ new.online[b] = IF b = a THEN o ELSE old.online[b]
                                     /\ new.status[b] = old.status[b]
         /\ LET new == [old EXCEPT !.status[a] = s, !.online[a] = o]
            IN  /\ new.session = old.session
                /\ \A b \in Agents : /\ new.status[b] = IF b = a THEN s ELSE old.status[b]
                                     /\ new.online[b] = IF b = a THEN o ELSE old.online[b]
<1>1. old.status \in [Agents -> Statuses \cup {None}] /\ old.online \in [Agents -> Switch \cup {None}]
  BY CacheFields
<1>2. QED
  BY <1>1 DEF CacheType

(* A call's session key is none of the agents' keys.                        *)
LEMMA SessionKeys ==
  ASSUME NEW old \in CacheType, NEW s
  PROVE  LET new == [old EXCEPT !.session = s]
         IN  new.session = s /\ new.status = old.status /\ new.online = old.online
BY DEF CacheType

(* The count of idle agents is none of the other keys.                      *)
LEMMA IdleKey ==
  ASSUME NEW old \in CacheType, NEW n
  PROVE  LET new == [old EXCEPT !.idle = n]
         IN  new.session = old.session /\ new.status = old.status /\ new.online = old.online
BY DEF CacheType

-----------------------------------------------------------------------------
(* A report: Redis shows it at once.                                        *)
LEMMA AgentMirrored ==
  ASSUME Typed, QueueTypes, MirrorInv, NEW new, NEW a \in Agents,
         Reporting, Write(new), Quiet,
         told'.call = told.call, new.session = cache.session,
         \A b \in Agents : (Shown(b) => new.status[b] = told'.status[b] /\ new.online[b] = told'.online[b])
  PROVE  MirrorInv'
<1>1. /\ pc = "ready" /\ ops' = ops + 1
      /\ UNCHANGED <<pc, warmups, rows, todo, warmed, first, dbEnabled, cacheEnabled, mysqlUp, redisUp,
                     redisLost, crashes, store>>
  BY DEF Reporting, Quiet, warmVars, flags, envVars
<1>2. ops \in Nat /\ first \in 0..ops
  BY BoundsAssumption DEF Typed, CountTypes
<1>3. ops' # first' /\ ops' # 0
  BY <1>1, <1>2
<1>4. /\ Reached' /\ cache' \in {cache, new}
      /\ redisLost = 0 /\ cacheEnabled => cache' = new
  BY <1>1, WriteReached DEF MirrorInv
<1>5. Untouched' /\ Warming' /\ Fresh'
  BY <1>1, <1>3 DEF MirrorInv, Untouched, Warming, Fresh
<1>6. Mirrored'
  <2> SUFFICES ASSUME warmed', redisLost' = 0
               PROVE  /\ cacheEnabled' /\ pc' # "fill" /\ pc' \notin {"warm", "writing"}
                      /\ \A b \in Agents : Shown(b)'
                      /\ crashes' = 0 => cache'.session = Sessions'
    BY DEF Mirrored
  <2>1. /\ cacheEnabled /\ (\A b \in Agents : Shown(b))
        /\ crashes = 0 => cache.session = Sessions
    BY <1>1 DEF MirrorInv, Mirrored
  <2>2. cache' = new /\ Sessions' = Sessions
    BY <1>1, <1>4, <2>1 DEF Sessions
  <2>3. QED
    BY <1>1, <2>1, <2>2 DEF Shown
<1>7. QED
  BY <1>4, <1>5, <1>6 DEF MirrorInv

(* A report about a call.                                                   *)
LEMMA CallMirrored ==
  ASSUME Typed, QueueTypes, MirrorInv, NEW new,
         Reporting, Write(new), Quiet,
         told'.status = told.status, told'.online = told.online,
         new.status = cache.status, new.online = cache.online,
         cache.session = Sessions => new.session = Sessions'
  PROVE  MirrorInv'
<1>1. /\ pc = "ready" /\ ops' = ops + 1
      /\ UNCHANGED <<pc, warmups, rows, todo, warmed, first, dbEnabled, cacheEnabled, mysqlUp, redisUp,
                     redisLost, crashes, store>>
  BY DEF Reporting, Quiet, warmVars, flags, envVars
<1>2. ops \in Nat /\ first \in 0..ops
  BY BoundsAssumption DEF Typed, CountTypes
<1>3. ops' # first' /\ ops' # 0
  BY <1>1, <1>2
<1>4. /\ Reached' /\ cache' \in {cache, new}
      /\ redisLost = 0 /\ cacheEnabled => cache' = new
  BY <1>1, WriteReached DEF MirrorInv
<1>5. Untouched' /\ Warming' /\ Fresh'
  BY <1>1, <1>3 DEF MirrorInv, Untouched, Warming, Fresh
<1>6. Mirrored'
  <2> SUFFICES ASSUME warmed', redisLost' = 0
               PROVE  /\ cacheEnabled' /\ pc' # "fill" /\ pc' \notin {"warm", "writing"}
                      /\ \A b \in Agents : Shown(b)'
                      /\ crashes' = 0 => cache'.session = Sessions'
    BY DEF Mirrored
  <2>1. /\ cacheEnabled /\ (\A b \in Agents : Shown(b))
        /\ crashes = 0 => cache.session = Sessions
    BY <1>1 DEF MirrorInv, Mirrored
  <2>2. cache' = new
    BY <1>1, <1>4, <2>1
  <2>3. QED
    BY <1>1, <2>1, <2>2 DEF Shown
<1>7. QED
  BY <1>4, <1>5, <1>6 DEF MirrorInv

(* The steps that leave Redis, MySQL, the queue and the reports alone.      *)
LEMMA QuietMirrored ==
  ASSUME MirrorInv, UNCHANGED <<warmed, first, redisLost, crashes, store, told, ops>>,
         \A i \in DOMAIN queue' : queue'[i].kind = "stop" \/ \E j \in DOMAIN queue : queue'[i] = queue[j],
         hand' = hand \/ hand' = None \/ \E j \in DOMAIN queue : hand' = queue[j],
         cache'.status = cache.status, cache'.online = cache.online, cache'.session = cache.session,
         Reached',
         UNCHANGED cacheEnabled \/ (redisLost = 0 /\ cacheEnabled => cacheEnabled'),
         \/ UNCHANGED <<pc, rows, todo, cacheEnabled>>
         \/ pc \in {"ready", "stopped"} /\ pc' \in {"ready", "stopped"}
  PROVE  MirrorInv'
<1>1. Untouched'
  <2> SUFFICES ASSUME ops = first
               PROVE  /\ \A a \in Agents : /\ store.agent[a].status = told.status[a]
                                           /\ store.agent[a].online = told.online[a]
                      /\ \A i \in DOMAIN queue' : queue'[i].kind = "stop"
                      /\ hand' # None => hand'.kind = "stop"
    BY DEF Untouched
  <2>1. /\ \A a \in Agents : store.agent[a].status = told.status[a] /\ store.agent[a].online = told.online[a]
        /\ \A i \in DOMAIN queue : queue[i].kind = "stop"
        /\ hand # None => hand.kind = "stop"
    BY DEF MirrorInv, Untouched
  <2>2. QED
    BY <2>1
<1>2. \A a : Shown(a)' <=> Shown(a)
  BY DEF Shown
<1>3. Sessions' = Sessions
  BY DEF Sessions
<1>4. Warming'
  <2>1. CASE UNCHANGED <<pc, rows, todo, cacheEnabled>>
    BY <1>2, <2>1 DEF MirrorInv, Warming
  <2>2. CASE pc' \in {"ready", "stopped"}
    BY <2>2 DEF Warming
  <2>3. QED
    BY <2>1, <2>2
<1>5. Mirrored'
  BY <1>2, <1>3 DEF MirrorInv, Mirrored
<1>6. Fresh'
  BY <1>3 DEF MirrorInv, Fresh
<1>7. QED
  BY <1>1, <1>4, <1>5, <1>6 DEF MirrorInv

(* The steps of the main thread that report nothing.                        *)
LEMMA StepsMirrored ==
  ASSUME Typed, QueueTypes, MirrorInv,
         HealthCheck \/ DeptIdleUpdate \/ DeptIdleQuery \/ Stop \/ \E a \in Agents : StatusQueryAnswered(a)
  PROVE  MirrorInv'
<1>1. Reached /\ cache \in CacheType /\ queue \in Seq(Tasks)
  BY DEF MirrorInv, Typed, QueueTypes
<1>2. CASE DeptIdleUpdate \/ DeptIdleQuery
  <2>1. /\ pc = "ready" /\ UNCHANGED <<pc, warmVars, flags, envVars, queueVars, store, told, ops>>
    BY <1>2 DEF DeptIdleUpdate, DeptIdleQuery
  <2>2. Reached' /\ \E n : cache' \in {cache, [cache EXCEPT !.idle = n]}
    <3>1. CASE DeptIdleUpdate
      <4>1. PICK n \in 0..Cardinality(Agents) : Write([cache EXCEPT !.idle = n])
        BY <3>1 DEF DeptIdleUpdate
      <4>2. QED
        BY <1>1, <2>1, <4>1, WriteReached DEF flags, envVars
    <3>2. CASE DeptIdleQuery
      <4>1. CASE cacheEnabled
        <5>1. PICK ok \in BOOLEAN :
                /\ Ensure(ok)
                /\ \/ \E n \in IdleCounts : cache' = [cache EXCEPT !.idle = n]
                   \/ cache' = cache
          BY <3>2, <4>1 DEF DeptIdleQuery
        <5>2. Reached'
          BY <1>1, <2>1, <5>1, EnsureReached DEF flags, envVars
        <5>3. QED
          BY <5>1, <5>2
      <4>2. CASE ~cacheEnabled
        BY <1>1, <2>1, <3>2, <4>2 DEF DeptIdleQuery, redisConn, Reached, PingOk, flags, envVars
      <4>3. QED
        BY <4>1, <4>2
    <3>3. QED
      BY <1>2, <3>1, <3>2
  <2>3. cache'.status = cache.status /\ cache'.online = cache.online /\ cache'.session = cache.session
    <3>1. PICK n : cache' \in {cache, [cache EXCEPT !.idle = n]}
      BY <2>2
    <3>2. CASE cache' = cache
      BY <3>2
    <3>3. CASE cache' = [cache EXCEPT !.idle = n]
      BY <1>1, <3>3, IdleKey
    <3>4. QED
      BY <3>1, <3>2, <3>3
  <2>4. QED
    BY <2>1, <2>2, <2>3, QuietMirrored DEF warmVars, flags, envVars, queueVars
<1>3. ASSUME NEW a \in Agents, StatusQueryAnswered(a) PROVE MirrorInv'
  <2>1. /\ pc = "ready" /\ UNCHANGED <<pc, warmVars, flags, envVars, queueVars, store, told, ops, cache>>
    BY <1>3 DEF StatusQueryAnswered, Quiet, queueVars
  <2>2. Reached'
    <3>1. PICK ok \in BOOLEAN : Ensure(ok)
      BY <1>3 DEF StatusQueryAnswered
    <3>2. QED
      BY <1>1, <2>1, <3>1, EnsureReached DEF flags, envVars
  <2>3. QED
    BY <2>1, <2>2, QuietMirrored DEF warmVars, flags, envVars, queueVars
<1>4. CASE Stop
  <2>1. /\ pc = "ready" /\ pc' = "stopped"
        /\ UNCHANGED <<warmVars, flags, envVars, redisConn, hand, store, told, ops, cache>>
    BY <1>4 DEF Stop
  <2>2. Reached'
    BY <1>1, <2>1 DEF Reached, PingOk, flags, envVars, redisConn
  <2>3. ASSUME NEW i \in DOMAIN queue'
        PROVE  queue'[i].kind = "stop" \/ \E j \in DOMAIN queue : queue'[i] = queue[j]
    <3>1. CASE queue' = queue
      BY <3>1
    <3>2. CASE queue' = Pushed(Task("stop", None, None))
      <4> DEFINE t == Task("stop", None, None)
      <4>1. t.kind = "stop" /\ t \in Tasks
        BY DEF Task, Tasks
      <4> HIDE DEF t
      <4>2. CASE Full
        <5>1. queue # <<>>
          BY <1>1, <4>1, <4>2, PushFacts
        <5>2. queue' = Append(Tail(queue), t)
          BY <3>2, <4>2 DEF Pushed, t
        <5>3. QED
          BY <1>1, <4>1, <5>1, <5>2
      <4>3. CASE ~Full
        <5>1. queue' = Append(queue, t)
          BY <3>2, <4>3 DEF Pushed, t
        <5>2. QED
          BY <1>1, <4>1, <5>1
      <4>4. QED
        BY <4>2, <4>3
    <3>3. QED
      BY <1>4, <3>1, <3>2 DEF Stop
  <2>4. QED
    BY <2>1, <2>2, <2>3, QuietMirrored DEF warmVars, flags, envVars
<1>5. CASE HealthCheck
  <2>1. /\ pc = "ready" /\ UNCHANGED <<rows, todo, warmed, first, envVars, queueVars, cache, store, told, ops>>
    BY <1>5 DEF HealthCheck
  <2>2. CASE cacheEnabled
    <3>1. cacheEnabled' = PingOk /\ connected' = PingOk /\ UNCHANGED <<link, pc>>
      BY <1>5, <2>2 DEF HealthCheck
    <3>2. redisLost = 0 => cacheEnabled' /\ connected'
      BY <1>1, <2>2, <3>1 DEF Reached
    <3>3. Reached'
      BY <1>1, <2>1, <2>2, <3>1, <3>2 DEF Reached, PingOk, envVars
    <3>4. QED
      BY <2>1, <3>1, <3>2, <3>3, QuietMirrored DEF envVars, queueVars
  <2>3. CASE ~cacheEnabled
    <3>1. PICK ok \in BOOLEAN : /\ Ensure(ok) /\ cacheEnabled' = ok
                                /\ IF ok /\ dbEnabled' THEN pc' = "warm" ELSE pc' = pc
      BY <1>5, <2>3 DEF HealthCheck
    <3>2. ~(warmed /\ redisLost = 0)
      BY <2>3 DEF MirrorInv, Mirrored
    <3>3. Reached'
      <4>1. CASE PingOk /\ ok /\ UNCHANGED redisConn
        BY <1>1, <2>1, <3>1, <4>1 DEF Reached, PingOk, redisConn, envVars
      <4>2. CASE ~PingOk /\ recent /\ ~ok /\ connected' = FALSE /\ UNCHANGED <<link, recent>>
        BY <1>1, <2>1, <3>1, <4>2 DEF Reached, envVars
      <4>3. CASE ~PingOk /\ ~recent /\ ok = redisUp /\ link' = redisUp /\ connected' = redisUp
        BY <1>1, <2>1, <3>1, <4>3 DEF Reached, PingOk, envVars
      <4>4. QED
        BY <3>1, <4>1, <4>2, <4>3 DEF Ensure
    <3>4. Mirrored'
      BY <2>1, <3>2 DEF Mirrored, envVars
    <3>5. Untouched' /\ Fresh'
      BY <2>1 DEF MirrorInv, Untouched, Fresh, Sessions, envVars, queueVars
    <3>6. Warming'
      <4>1. pc' \in {"warm", "ready"} /\ (pc' = "warm" => cacheEnabled')
        BY <2>1, <3>1
      <4>2. QED
        BY <4>1 DEF Warming
    <3>7. QED
      BY <3>3, <3>4, <3>5, <3>6 DEF MirrorInv
  <2>4. QED
    BY <2>2, <2>3
<1>6. QED
  BY <1>2, <1>3, <1>4, <1>5

(* Start and the two halves of a warm-up.                                   *)
LEMMA WarmMirrored ==
  ASSUME Typed, QueueTypes, MirrorInv, Start \/ WarmRead \/ \E a \in Agents : WarmWrite(a)
  PROVE  MirrorInv'
<1>1. Untouched /\ Reached /\ Warming /\ Mirrored /\ Fresh /\ cache \in CacheType
  BY DEF MirrorInv, Typed
<1>2. CASE Start
  <2>1. /\ pc = "init" /\ ~warmed /\ pc' \in {"warm", "ready"} /\ (pc' = "warm" => redisUp)
        /\ cacheEnabled' = redisUp /\ link' = redisUp /\ connected' = redisUp
        /\ UNCHANGED <<warmed, first, redisUp, redisLost, crashes, queue, hand, cache, store, told, ops>>
    BY <1>1, <1>2 DEF Start, Warming, envVars, queueVars
  <2>2. Untouched' /\ Fresh'
    BY <1>1, <2>1 DEF Untouched, Fresh, Sessions
  <2>3. Reached' /\ Warming' /\ Mirrored'
    BY <2>1 DEF Reached, PingOk, Warming, Mirrored
  <2>4. QED
    BY <2>2, <2>3 DEF MirrorInv
<1>3. CASE WarmRead
  <2>1. /\ pc = "warm"
        /\ UNCHANGED <<warmed, first, cacheEnabled, redisUp, redisLost, crashes, link, connected, queue,
                       hand, cache, store, told, ops>>
        /\ \/ rows' = store.agent /\ todo' = Agents /\ pc' = "writing"
           \/ pc' \in {"ready", "warm"}
    BY <1>3 DEF WarmRead, flags, envVars, redisConn, queueVars
  <2>2. Untouched' /\ Fresh' /\ Reached'
    BY <1>1, <2>1 DEF Untouched, Fresh, Sessions, Reached, PingOk
  <2>3. Warming'
    BY <1>1, <2>1 DEF Warming
  <2>4. Mirrored'
    BY <1>1, <2>1 DEF Mirrored, Shown, Sessions
  <2>5. QED
    BY <2>2, <2>3, <2>4 DEF MirrorInv
<1>4. ASSUME NEW a \in Agents, WarmWrite(a) PROVE MirrorInv'
  <2> DEFINE new == [cache EXCEPT !.status[a] = rows[a].status, !.online[a] = rows[a].online]
  <2>1. /\ pc = "writing" /\ a \in todo /\ todo' = todo \ {a}
        /\ pc' \in {"writing", "ready", "warm"} /\ (pc' = "writing" <=> todo' # {})
        /\ warmed' = (warmed \/ (todo' = {} /\ ops = first))
        /\ rows' = (IF todo' = {} THEN Seeded ELSE rows)
        /\ UNCHANGED <<first, cacheEnabled, redisUp, redisLost, crashes, queue, hand, store, told, ops>>
        /\ Write(new)
    BY <1>4 DEF WarmWrite, flags, envVars, queueVars
  <2>2. /\ Reached' /\ cache' \in {cache, new} /\ (redisLost = 0 /\ cacheEnabled => cache' = new)
    BY <1>1, <2>1, WriteReached
  <2>3. /\ new.session = cache.session
        /\ \A b \in Agents : /\ new.status[b] = IF b = a THEN rows[a].status ELSE cache.status[b]
                             /\ new.online[b] = IF b = a THEN rows[a].online ELSE cache.online[b]
    <3>1. rows[a].status \in Statuses /\ rows[a].online \in Switch
      BY DEF Typed, MainTypes, Rows
    <3>2. QED
      BY <1>1, <3>1, StatusKeys
  <2> HIDE DEF new
  <2>4. cacheEnabled /\ (ops = first => rows = store.agent)
    BY <1>1, <2>1 DEF Warming
  <2>5. ASSUME redisLost = 0, ops = first
        PROVE  /\ cache' = new
               /\ \A b \in Agents : Shown(b) \/ b = a => Shown(b)'
    <3>1. cache' = new
      BY <2>2, <2>4, <2>5
    <3>2. rows[a].status = told.status[a] /\ rows[a].online = told.online[a]
      BY <1>1, <2>4, <2>5 DEF Untouched
    <3>3. QED
      BY <2>1, <2>3, <3>1, <3>2 DEF Shown
  <2>6. Untouched'
    BY <1>1, <2>1 DEF Untouched
  <2>7. cache'.session = cache.session
    BY <2>2, <2>3
  <2>8. Fresh'
    BY <1>1, <2>1, <2>7 DEF Fresh, Sessions
  <2>9. Warming'
    <3>1. ASSUME pc' = "writing", ops' = first'
          PROVE  /\ rows' = store'.agent
                 /\ redisLost' = 0 => \A b \in Agents \ todo' : Shown(b)'
      <4>1. todo' # {} /\ rows' = rows /\ ops = first
        BY <2>1, <3>1
      <4>2. redisLost = 0 => \A b \in Agents \ todo : Shown(b)
        BY <1>1, <2>1, <4>1 DEF Warming
      <4>3. QED
        BY <2>1, <2>4, <2>5, <4>1, <4>2
    <3>2. pc' # "init" /\ cacheEnabled'
      BY <2>1, <2>4
    <3>3. QED
      BY <3>1, <3>2 DEF Warming
  <2>10. Mirrored'
    <3> SUFFICES ASSUME warmed', redisLost' = 0
                 PROVE  /\ cacheEnabled' /\ pc' # "fill" /\ ops' = first'
                        /\ \A b \in Agents : Shown(b)'
                        /\ crashes' = 0 => cache'.session = Sessions'
      BY DEF Mirrored
    <3>1. redisLost = 0 /\ ops = first
      BY <1>1, <2>1 DEF Mirrored
    <3>2. \A b \in Agents : Shown(b)'
      <4>1. CASE warmed
        BY <1>1, <2>5, <3>1, <4>1 DEF Mirrored
      <4>2. CASE todo' = {}
        <5>1. \A b \in Agents \ todo : Shown(b)
          BY <1>1, <2>1, <3>1 DEF Warming
        <5>2. QED
          BY <2>1, <2>5, <3>1, <4>2, <5>1
      <4>3. QED
        BY <2>1, <4>1, <4>2
    <3>3. crashes = 0 => cache.session = Sessions
      BY <1>1, <3>1 DEF Fresh, Mirrored
    <3>4. QED
      BY <2>1, <2>4, <2>7, <3>1, <3>2, <3>3 DEF Sessions
  <2>11. QED
    BY <2>2, <2>6, <2>8, <2>9, <2>10 DEF MirrorInv
<1>5. QED
  BY <1>2, <1>3, <1>4

(* A query that misses, and its writing back: neither happens to a mirror.  *)
LEMMA FillMirrored ==
  ASSUME Typed, QueueTypes, MirrorInv, \E a \in Agents : StatusQuery(a) \/ WriteBack(a)
  PROVE  MirrorInv'
<1>1. Untouched /\ Reached /\ Mirrored /\ Fresh /\ cache \in CacheType
  BY DEF MirrorInv, Typed
<1>2. ASSUME NEW a \in Agents, StatusQuery(a) PROVE MirrorInv'
  <2>1. /\ pc = "ready" /\ pc' \in {"ready", "fill"}
        /\ UNCHANGED <<warmed, first, cacheEnabled, redisUp, redisLost, crashes, queue, hand, cache,
                       store, told, ops>>
    BY <1>2 DEF StatusQuery, flags, envVars, queueVars
  <2>2. Untouched' /\ Fresh' /\ Warming'
    BY <1>1, <2>1 DEF Untouched, Fresh, Sessions, Warming
  <2>3. CASE cacheEnabled
    <3>1. PICK ok \in BOOLEAN : Ensure(ok) /\ ~(ok /\ cache.status[a] # None)
      BY <1>2, <2>3 DEF StatusQuery
    <3>2. Reached' /\ (redisLost = 0 => ok)
      BY <1>1, <2>1, <2>3, <3>1, EnsureReached
    <3>3. ~(warmed /\ redisLost = 0)
      <4>1. told.status[a] # None
        BY DisjointAssumption DEF QueueTypes
      <4>2. QED
        BY <1>1, <3>1, <3>2, <4>1 DEF Mirrored, Shown
    <3>4. Mirrored'
      BY <2>1, <3>3 DEF Mirrored
    <3>5. QED
      BY <2>2, <3>2, <3>4 DEF MirrorInv
  <2>4. CASE ~cacheEnabled
    <3>1. Mirrored'
      BY <1>1, <2>1, <2>4 DEF Mirrored
    <3>2. Reached'
      BY <1>1, <1>2, <2>1, <2>4 DEF StatusQuery, Reached, PingOk, redisConn
    <3>3. QED
      BY <2>2, <3>1, <3>2 DEF MirrorInv
  <2>5. QED
    BY <2>3, <2>4
<1>3. ASSUME NEW a \in Agents, WriteBack(a) PROVE MirrorInv'
  <2> DEFINE new == [cache EXCEPT !.status[a] = rows[a].status]
  <2>1. /\ pc = "fill" /\ pc' = "ready" /\ Write(new)
        /\ UNCHANGED <<warmed, first, cacheEnabled, redisUp, redisLost, crashes, queue, hand, store,
                       told, ops>>
    BY <1>3 DEF WriteBack, flags, envVars, queueVars
  <2>2. Reached' /\ cache' \in {cache, new}
    BY <1>1, <2>1, WriteReached
  <2>3. new.session = cache.session
    <3>1. rows[a].status \in Statuses
      BY DEF Typed, MainTypes, Rows
    <3>2. "on" \in Switch
      BY DEF Switch
    <3>3. QED
      BY <1>1, <3>1, <3>2, StatusKeys
  <2> HIDE DEF new
  <2>4. ~(warmed /\ redisLost = 0)
    BY <1>1, <2>1 DEF Mirrored
  <2>5. Untouched' /\ Warming' /\ Mirrored'
    BY <1>1, <2>1, <2>4 DEF Untouched, Warming, Mirrored
  <2>6. cache'.session = cache.session
    BY <2>2, <2>3
  <2>7. Fresh'
    BY <1>1, <2>1, <2>6 DEF Fresh, Sessions
  <2>8. QED
    BY <2>2, <2>5, <2>7 DEF MirrorInv
<1>4. QED
  BY <1>2, <1>3

(* The worker, the servers and time; a crash.                               *)
LEMMA OutsideMirrored ==
  ASSUME Typed, QueueTypes, MirrorInv,
         Pop \/ Execute \/ MysqlLost \/ RedisLost \/ RedisBack \/ Crash \/ SecondPasses \/ UNCHANGED vars
  PROVE  MirrorInv'
<1>1. /\ Untouched /\ Reached /\ Warming /\ Mirrored /\ Fresh /\ cache \in CacheType
      /\ queue \in Seq(Tasks) /\ hand \in Tasks \cup {None}
  BY DEF MirrorInv, Typed, QueueTypes
<1>2. CASE Pop
  <2>1. /\ queue # <<>> /\ hand' = Head(queue) /\ queue' = Tail(queue)
        /\ UNCHANGED <<pc, warmVars, flags, envVars, redisConn, cache, store, told, ops>>
    BY <1>2 DEF Pop
  <2>2. hand' = queue[1] /\ 1 \in DOMAIN queue
    BY <1>1, <2>1
  <2>3. \A i \in DOMAIN queue' : queue'[i] = queue[i + 1] /\ i + 1 \in DOMAIN queue
    BY <1>1, <2>1
  <2>4. Reached'
    BY <1>1, <2>1 DEF Reached, PingOk, flags, envVars, redisConn
  <2>5. QED
    BY <2>1, <2>2, <2>3, <2>4, QuietMirrored DEF warmVars, flags, envVars
<1>3. CASE Execute
  <2>1. /\ hand # None /\ hand' = None /\ (store' \in Stored(hand, Applied(hand)) \/ store' = store)
        /\ UNCHANGED <<pc, warmVars, flags, envVars, redisConn, queue, cache, told, ops>>
    BY <1>3 DEF Execute
  <2>2. Reached'
    BY <1>1, <2>1 DEF Reached, PingOk, flags, envVars, redisConn
  <2>3. ops = first => store' = store
    <3>1. CASE ops = first
      <4>1. hand.kind = "stop"
        BY <1>1, <2>1, <3>1 DEF Untouched
      <4>2. Applied(hand) = store
        BY <4>1 DEF Applied
      <4>3. QED
        BY <2>1, <4>2 DEF Stored
    <3>2. QED
      BY <3>1
  <2>4. Untouched'
    BY <1>1, <2>1, <2>3 DEF Untouched, warmVars
  <2>5. Warming'
    BY <1>1, <2>1, <2>3 DEF Warming, Shown, warmVars, flags, envVars
  <2>6. Mirrored' /\ Fresh'
    BY <1>1, <2>1 DEF Mirrored, Fresh, Shown, Sessions, warmVars, flags, envVars
  <2>7. QED
    BY <2>2, <2>4, <2>5, <2>6 DEF MirrorInv
<1>4. CASE MysqlLost \/ SecondPasses \/ UNCHANGED vars
  <2>1. UNCHANGED <<pc, warmVars, flags, redisUp, redisLost, crashes, link, connected, queueVars, cache,
                    store, told, ops>>
    BY <1>4 DEF MysqlLost, SecondPasses, vars, envVars, redisConn
  <2>2. Reached'
    BY <1>1, <2>1 DEF Reached, PingOk, flags
  <2>3. QED
    BY <2>1, <2>2, QuietMirrored DEF warmVars, flags, queueVars
<1>5. CASE RedisLost
  <2>1. /\ link' = FALSE /\ redisLost' = redisLost + 1
        /\ UNCHANGED <<pc, warmVars, flags, crashes, queueVars, cache, store, told, ops>>
    BY <1>5 DEF RedisLost
  <2>2. redisLost' # 0
    BY <2>1 DEF Typed, EnvTypes
  <2>3. Reached' /\ Warming' /\ Mirrored'
    BY <1>1, <2>1, <2>2 DEF Reached, Warming, Mirrored, warmVars, flags
  <2>4. Untouched' /\ Fresh'
    BY <1>1, <2>1 DEF Untouched, Fresh, Sessions, warmVars, queueVars
  <2>5. QED
    BY <2>3, <2>4 DEF MirrorInv
<1>6. CASE RedisBack
  <2>1. /\ ~redisUp /\ redisUp'
        /\ cache' = cache \/ cache'.session = {}
        /\ UNCHANGED <<pc, warmVars, flags, redisLost, crashes, redisConn, queueVars, store, told, ops>>
    BY <1>6 DEF RedisBack
  <2>2. ~(redisLost = 0 /\ cacheEnabled)
    BY <1>1, <2>1 DEF Reached, PingOk
  <2>3. Reached' /\ Untouched' /\ Fresh'
    BY <1>1, <2>1 DEF Reached, PingOk, Untouched, Fresh, Sessions, warmVars, flags, redisConn, queueVars
  <2>4. Mirrored'
    BY <1>1, <2>1, <2>2 DEF Mirrored, warmVars, flags
  <2>5. Warming'
    BY <1>1, <2>1, <2>2 DEF Warming, warmVars, flags
  <2>6. QED
    BY <2>3, <2>4, <2>5 DEF MirrorInv
<1>7. CASE Crash
  <2>1. /\ pc' = "init" /\ ~warmed' /\ ~cacheEnabled' /\ ~link' /\ queue' = <<>> /\ hand' = None
        /\ crashes' = crashes + 1 /\ store' = store
        /\ told' = [told EXCEPT !.status = [a \in Agents |-> store.agent[a].status],
                                !.online = [a \in Agents |-> store.agent[a].online]]
    BY <1>7 DEF Crash
  <2>2. /\ told'.status = [a \in Agents |-> store.agent[a].status]
        /\ told'.online = [a \in Agents |-> store.agent[a].online]
    BY <2>1 DEF QueueTypes
  <2>3. Untouched'
    BY <2>1, <2>2 DEF Untouched
  <2>4. crashes' # 0
    BY <2>1 DEF Typed, EnvTypes
  <2>5. Reached' /\ Warming' /\ Mirrored' /\ Fresh'
    BY <2>1, <2>4 DEF Reached, Warming, Mirrored, Fresh
  <2>6. QED
    BY <2>3, <2>5 DEF MirrorInv
<1>8. QED
  BY <1>2, <1>3, <1>4, <1>5, <1>6, <1>7

(* Every step keeps Redis in line with the reports.                         *)
LEMMA NextMirrored ==
  ASSUME Typed, QueueTypes, MirrorInv, [Next]_vars
  PROVE  MirrorInv'
<1>1. /\ cache \in CacheType
      /\ told \in [status : [Agents -> Statuses], row : [Agents -> Statuses],
                   online : [Agents -> Switch], call : [Calls -> Phases]]
  BY DEF Typed, QueueTypes
<1>2. ASSUME NEW a \in Agents, NEW s \in {"idle", "busy"}, AgentStatusChange(a, s) PROVE MirrorInv'
  <2> DEFINE new == [cache EXCEPT !.status[a] = s]
  <2>1. s \in Statuses /\ "on" \in Switch
    BY DEF Statuses, Switch
  <2>2. /\ new.session = cache.session
        /\ \A b \in Agents : /\ new.status[b] = IF b = a THEN s ELSE cache.status[b]
                             /\ new.online[b] = cache.online[b]
    BY <1>1, <2>1, StatusKeys
  <2>3. Reporting /\ Write(new) /\ Quiet /\ told' = [told EXCEPT !.status[a] = s, !.row[a] = s]
    BY <1>2 DEF AgentStatusChange
  <2>4. /\ told'.call = told.call /\ told'.online = told.online
        /\ \A b \in Agents : told'.status[b] = IF b = a THEN s ELSE told.status[b]
    BY <1>1, <2>3
  <2> HIDE DEF new
  <2>5. \A b \in Agents : (Shown(b) => new.status[b] = told'.status[b] /\ new.online[b] = told'.online[b])
    BY <2>2, <2>4 DEF Shown
  <2>6. QED
    BY <2>2, <2>3, <2>4, <2>5, AgentMirrored
<1>3. ASSUME NEW a \in Agents, NEW on \in Switch, AgentOnline(a, on) PROVE MirrorInv'
  <2> DEFINE new == [cache EXCEPT !.online[a] = on]
  <2>1. "idle" \in Statuses
    BY DEF Statuses
  <2>2. /\ new.session = cache.session
        /\ \A b \in Agents : /\ new.online[b] = IF b = a THEN on ELSE cache.online[b]
                             /\ new.status[b] = cache.status[b]
    BY <1>1, <2>1, StatusKeys
  <2>3. /\ Reporting /\ Write(new) /\ Quiet
        /\ told' = [told EXCEPT !.online[a] = on, !.row[a] = IF on = "on" THEN "idle" ELSE "offline"]
    BY <1>3 DEF AgentOnline
  <2>4. /\ told'.call = told.call /\ told'.status = told.status
        /\ \A b \in Agents : told'.online[b] = IF b = a THEN on ELSE told.online[b]
    BY <1>1, <2>3
  <2> HIDE DEF new
  <2>5. \A b \in Agents : (Shown(b) => new.status[b] = told'.status[b] /\ new.online[b] = told'.online[b])
    BY <2>2, <2>4 DEF Shown
  <2>6. QED
    BY <2>2, <2>3, <2>4, <2>5, AgentMirrored
<1>4. ASSUME NEW c \in Calls, CallStart(c) PROVE MirrorInv'
  <2> DEFINE new == [cache EXCEPT !.session = @ \cup {c}]
  <2>1. new.session = cache.session \cup {c} /\ new.status = cache.status /\ new.online = cache.online
    BY <1>1, SessionKeys
  <2>2. Reporting /\ Write(new) /\ Quiet /\ told' = [told EXCEPT !.call[c] = "open"]
    BY <1>4 DEF CallStart
  <2>3. /\ told'.status = told.status /\ told'.online = told.online
        /\ \A d \in Calls : told'.call[d] = IF d = c THEN "open" ELSE told.call[d]
    BY <1>1, <2>2
  <2> HIDE DEF new
  <2>4. cache.session = Sessions => new.session = Sessions'
    BY <2>1, <2>3 DEF Sessions
  <2>5. QED
    BY <2>1, <2>2, <2>3, <2>4, CallMirrored
<1>5. ASSUME NEW c \in Calls, CallEnd(c) PROVE MirrorInv'
  <2> DEFINE new == [cache EXCEPT !.session = @ \ {c}]
  <2>1. new.session = cache.session \ {c} /\ new.status = cache.status /\ new.online = cache.online
    BY <1>1, SessionKeys
  <2>2. Reporting /\ Write(new) /\ Quiet /\ told' = [told EXCEPT !.call[c] = "closed"]
    BY <1>5 DEF CallEnd
  <2>3. /\ told'.status = told.status /\ told'.online = told.online
        /\ \A d \in Calls : told'.call[d] = IF d = c THEN "closed" ELSE told.call[d]
    BY <1>1, <2>2
  <2> HIDE DEF new
  <2>4. cache.session = Sessions => new.session = Sessions'
    BY <2>1, <2>3 DEF Sessions
  <2>5. QED
    BY <2>1, <2>2, <2>3, <2>4, CallMirrored
<1>6. CASE Main
  BY <1>2, <1>3, <1>4, <1>5, <1>6, StepsMirrored, WarmMirrored, FillMirrored DEF Main
<1>7. QED
  BY <1>6, OutsideMirrored DEF Next

(* At the start nothing was reported.                                       *)
LEMMA InitMirrored == Init => MirrorInv
<1> SUFFICES ASSUME Init PROVE MirrorInv
  OBVIOUS
<1>1. Untouched
  BY DEF Init, Untouched, Seeded
<1>2. Reached /\ Warming /\ Mirrored
  BY DEF Init, Reached, Warming, Mirrored
<1>3. cache.session = {} /\ Sessions = {}
  BY DEF Init, Sessions
<1>4. Fresh
  BY <1>3 DEF Init, Fresh
<1>5. QED
  BY <1>1, <1>2, <1>4 DEF MirrorInv

(* Redis follows the reports in every state.                                *)
LEMMA MirrorAlways == Spec => []MirrorInv
<1>1. Followed => QueueTypes
  BY DEF Followed
<1>2. Typed /\ QueueTypes /\ MirrorInv /\ [Next]_vars => MirrorInv'
  BY NextMirrored
<1>3. QED
  BY <1>1, <1>2, InitMirrored, TypedAlways, DbSyncInvariance, PTL DEF Spec

(* A Redis that was filled at startup and not lost since shows every agent  *)
(* as last reported, and the open calls unless a process crashed: whatever  *)
(* overflows, failing MySQL servers, queries and health checks come between *)
(* (db_sync_agent_status_change, db_sync_call_start and their callees).     *)
THEOREM RedisMirrorsReports == Spec => []CacheLeads
<1>1. MirrorInv => CacheLeads
  BY DEF MirrorInv, Mirrored, Shown, Sessions, CacheLeads
<1>2. QED
  BY <1>1, MirrorAlways, PTL
=============================================================================
