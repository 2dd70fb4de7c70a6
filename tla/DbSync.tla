------------------------------- MODULE DbSync -------------------------------
(***************************************************************************)
(* db_sync.c as the main thread and the worker use it: every change goes   *)
(* to Redis at once and to MySQL through the task queue; queries read      *)
(* Redis first and fill it from MySQL (cache aside); a health check        *)
(* re-enables Redis and warms it up again.                                 *)
(*                                                                         *)
(* The queue is the abstract one (LossyFifo, which TaskQueue implements):  *)
(* queue, and hand for the task being executed.  Only the main thread      *)
(* touches Redis and the two enabled flags, so that one entry point        *)
(* without MySQL read is one action; a MySQL read and the Redis writes     *)
(* that follow it are separate steps, between which the worker writes.     *)
(* The department table, a constant, is left out; the count of idle agents *)
(* is that of the one department all agents are in.  A crash loses what    *)
(* the process holds; Redis and MySQL stay as they are.  told, lost,       *)
(* warmed, first, crashes and redisLost are history.                       *)
(***************************************************************************)
EXTENDS Integers, Sequences, FiniteSets

CONSTANTS
  Agents,      \* extensions with an agents row
  Switched,    \* the agents db_sync_agent_online is called for
  Calls,       \* call ids
  Bare,        \* the calls with no department, or no result description
  None,        \* no task, no agent, or no such key
  Capacity,    \* DB_QUEUE_MAX_SIZE
  MaxOps,      \* bound on the changes reported by the callers
  MaxFaults    \* bound on losses of the Redis server and crashes of the process

ASSUME FiniteAssumption == IsFiniteSet(Agents)
ASSUME SubsetAssumption == Switched \subseteq Agents /\ Bare \subseteq Calls
ASSUME BoundsAssumption == Capacity \in Nat \ {0} /\ MaxOps \in Nat /\ MaxFaults \in Nat

VARIABLES
  pc,            \* the main thread: "init", "ready", "warm" (a warm-up is due),
                 \*   "writing" (its rows are being written), "fill", "stopped"
  warmups,       \* warm-up rounds still to run
  rows,          \* the rows of the MySQL read in progress
  todo,          \* the agents whose row is still to be written to Redis
  dbEnabled, cacheEnabled, workerRunning,
  poolActive,    \* db_mysql_pool_health > 0
  mysqlUp,       \* the pool's connections reach the server
  redisUp,       \* the Redis server runs
  link,          \* the TCP connection to it is alive
  connected,     \* ctx->connected
  recent,        \* the last reconnection attempt is under a second old
  queue, hand,   \* the tasks waiting and the task being executed
  cache,         \* Redis: agent:status, agent:online, call:session and dept:idle keys
  store,         \* MySQL: agents.status, agents.is_online, call_records
  told,          \* history: what the callers reported, and what was queued
  lost,          \* history: agents and calls of which a write was lost
  warmed,        \* history: the cache was filled at startup
  first,         \* history: the value of ops when the process started
  crashes,
  redisLost,     \* history: how often the Redis server was lost
  ops

redisConn == <<link, connected, recent>>
envVars == <<mysqlUp, redisUp, redisLost, crashes>>
flags == <<dbEnabled, cacheEnabled, workerRunning, poolActive>>
warmVars == <<warmups, rows, todo, warmed, first>>
queueVars == <<queue, hand>>
vars == <<pc, warmVars, flags, envVars, redisConn, queueVars, cache, store,
          told, lost, ops>>

Statuses == {"idle", "busy", "offline"}
Switch == {"on", "off"}
Phases == {"none", "open", "closed"}

Tasks ==
  [kind : {"status"}, who : Agents, value : Statuses]
    \cup [kind : {"online"}, who : Switched, value : Switch]
    \cup [kind : {"start", "end"}, who : Calls, value : {None}]
    \cup [kind : {"stop"}, who : {None}, value : {None}]

ASSUME TasksAssumption == None \notin Tasks
ASSUME DisjointAssumption == Agents \cap Calls = {} /\ None \notin Agents \cup Calls \cup Statuses

(* The rows db_sync_seed_demo_data inserts.                                *)
Seeded == [a \in Agents |-> [status |-> "idle", online |-> "on"]]

(* db_sync_create, with the agents seeded and whatever an earlier process  *)
(* left in Redis.                                                          *)
Init ==
  /\ pc = "init"
  /\ warmups = 0 /\ todo = {}
  /\ rows = Seeded
  /\ dbEnabled = FALSE /\ cacheEnabled = FALSE /\ workerRunning = FALSE
  /\ poolActive = FALSE
  /\ mysqlUp \in BOOLEAN /\ redisUp \in BOOLEAN
  /\ link = FALSE /\ connected = FALSE /\ recent = FALSE
  /\ queue = <<>> /\ hand = None
  /\ \E old \in {None, "busy"} :
       cache = [status |-> [a \in Agents |-> old],
                online |-> [a \in Agents |-> IF old = None THEN None ELSE "off"],
                session |-> {}, idle |-> None]
  /\ store = [agent |-> Seeded,
              call |-> [c \in Calls |-> "none"],
              garbled |-> {}]
  /\ told = [status |-> [a \in Agents |-> "idle"],
             row |-> [a \in Agents |-> "idle"],
             online |-> [a \in Agents |-> "on"],
             call |-> [c \in Calls |-> "none"]]
  /\ lost = {} /\ warmed = FALSE /\ redisLost = 0 /\ ops = 0
  /\ first = 0 /\ crashes = 0

-----------------------------------------------------------------------------
(* db_redis.c: every command first runs db_redis_ensure_connected, that is *)
(* PING and, when that fails, one reconnection attempt per second.         *)
PingOk == connected /\ link

Ensure(ok) ==
  \/ PingOk /\ ok /\ UNCHANGED redisConn
  \/ ~PingOk /\ recent /\ ~ok /\ connected' = FALSE /\ UNCHANGED <<link, recent>>
  \/ /\ ~PingOk /\ ~recent /\ ok = redisUp
     /\ link' = redisUp /\ connected' = redisUp /\ recent' = TRUE

(* A write to Redis that leaves it as new, when it is enabled and answers. *)
Write(new) ==
  IF cacheEnabled
  THEN \E ok \in BOOLEAN : Ensure(ok) /\ cache' = IF ok THEN new ELSE cache
  ELSE UNCHANGED <<redisConn, cache>>

(* queue_push, and what it drops.                                          *)
Full == Len(queue) >= Capacity
Unbounded(task) == Append(queue, task)  \* faulty: nothing is dropped
Pushed(task) == Append(IF Full THEN Tail(queue) ELSE queue, task)

(* A new update of an agent makes up for the earlier ones.  Nothing is     *)
(* queued when either is disabled, or calloc has no memory for the task.   *)
Submit(task) ==
  \/ /\ dbEnabled /\ workerRunning
     /\ queue' = Pushed(task)
     /\ lost' = (lost \cup (IF Full THEN {Head(queue).who} ELSE {}))
                  \ ({task.who} \cap Agents)
  \/ /\ lost' = lost \cup {task.who}
     /\ UNCHANGED queue

Task(kind, who, value) == [kind |-> kind, who |-> who, value |-> value]

-----------------------------------------------------------------------------
(* Startup *)

(* db_sync_init: both servers are tried, then the worker is started; when  *)
(* that fails there is no warm-up.                                         *)
Start ==
  /\ pc = "init"
  /\ dbEnabled' = mysqlUp /\ poolActive' = mysqlUp
  /\ cacheEnabled' = redisUp /\ link' = redisUp /\ connected' = redisUp
  /\ \E created \in BOOLEAN :
       /\ workerRunning' = created
       /\ IF created /\ mysqlUp /\ redisUp
          THEN pc' = "warm" /\ warmups' = 1
          ELSE pc' = "ready" /\ warmups' = 0
  /\ UNCHANGED <<rows, todo, warmed, first, envVars, recent, queueVars, cache, store,
                 told, lost, ops>>

(* db_sync_cache_warmup_agents reads every row; a query may fail, and does *)
(* when the connections are dead.                                          *)
WarmRead ==
  /\ pc = "warm"
  /\ warmups' = warmups - 1
  /\ \/ /\ mysqlUp
        /\ rows' = store.agent /\ todo' = Agents
        /\ pc' = "writing"
     \/ /\ pc' = IF warmups = 1 THEN "ready" ELSE "warm"
        /\ UNCHANGED <<rows, todo>>
  /\ UNCHANGED <<warmed, first, flags, envVars, redisConn, queueVars, cache, store,
                 told, lost, ops>>

(* ... and writes them, one agent after the other.                         *)
WarmWrite(a) ==
  /\ pc = "writing" /\ a \in todo
  /\ Write([cache EXCEPT !.status[a] = rows[a].status, !.online[a] = rows[a].online])
  /\ todo' = todo \ {a}
  /\ pc' = IF todo' # {} THEN "writing" ELSE IF warmups = 0 THEN "ready" ELSE "warm"
  /\ warmed' = (warmed \/ (todo' = {} /\ ops = first))
  /\ rows' = IF todo' = {} THEN Seeded ELSE rows
  /\ UNCHANGED <<warmups, first, flags, envVars, queueVars, store, told, lost, ops>>

-----------------------------------------------------------------------------
(* The entry points of the main thread *)

Reporting == pc = "ready" /\ ops < MaxOps /\ ops' = ops + 1
Quiet == UNCHANGED <<pc, warmVars, flags, envVars, hand, store>>

AgentStatusChange(a, s) ==
  /\ Reporting
  /\ Write([cache EXCEPT !.status[a] = s])
  /\ Submit(Task("status", a, s))
  /\ told' = [told EXCEPT !.status[a] = s, !.row[a] = s]
  /\ Quiet

SwitchedRow(on) == IF on = "on" THEN "offline" ELSE "idle"  \* faulty: swapped
OnlineRow(on) == IF on = "on" THEN "idle" ELSE "offline"

(* Redis gets the online key, MySQL will get a status.                     *)
AgentOnline(a, on) ==
  /\ Reporting /\ a \in Switched
  /\ Write([cache EXCEPT !.online[a] = on])
  /\ Submit(Task("online", a, on))
  /\ told' = [told EXCEPT !.online[a] = on, !.row[a] = IF on = "on" THEN "idle" ELSE "offline"]
  /\ Quiet

(* SET, and EXPIRE (left out: no run lasts the 7200 seconds).               *)
CallStart(c) ==
  /\ Reporting /\ told.call[c] = "none"
  /\ Write([cache EXCEPT !.session = @ \cup {c}])
  /\ Submit(Task("start", c, None))
  /\ told' = [told EXCEPT !.call[c] = "open"]
  /\ Quiet

(* Faulty: the session key is left to its expiry.                          *)
CallEndKeepsSession(c) ==
  /\ Reporting /\ told.call[c] = "open"
  /\ Write(cache)
  /\ Submit(Task("end", c, None))
  /\ told' = [told EXCEPT !.call[c] = "closed"]
  /\ Quiet

CallEnd(c) ==
  /\ Reporting /\ told.call[c] = "open"
  /\ Write([cache EXCEPT !.session = @ \ {c}])
  /\ Submit(Task("end", c, None))
  /\ told' = [told EXCEPT !.call[c] = "closed"]
  /\ Quiet

(* db_sync_agent_status_query: nothing is read from MySQL on a hit, or     *)
(* when MySQL is disabled; only a row found is written back.               *)
StatusQuery(a) ==
  /\ pc = "ready"
  /\ IF cacheEnabled
     THEN \E ok \in BOOLEAN : Ensure(ok) /\ ~(ok /\ cache.status[a] # None)
     ELSE UNCHANGED redisConn
  /\ dbEnabled
  /\ IF mysqlUp THEN rows' = [rows EXCEPT ![a] = store.agent[a]] /\ todo' = {a} /\ pc' = "fill"
     ELSE UNCHANGED <<rows, todo, pc>>
  /\ UNCHANGED <<warmups, warmed, first, flags, envVars, queueVars, cache, store, told,
                 lost, ops>>

(* A hit, or no MySQL to ask: only the connection to Redis is looked at.   *)
StatusQueryAnswered(a) ==
  /\ pc = "ready" /\ cacheEnabled
  /\ \E ok \in BOOLEAN : Ensure(ok) /\ (dbEnabled => ok /\ cache.status[a] # None)
  /\ UNCHANGED <<cache, queue, lost, told, ops>> /\ Quiet

WriteBack(a) ==
  /\ pc = "fill" /\ a \in todo
  /\ Write([cache EXCEPT !.status[a] = rows[a].status])
  /\ todo' = {} /\ rows' = Seeded /\ pc' = "ready"
  /\ UNCHANGED <<warmups, warmed, first, flags, envVars, queueVars, store, told,
                 lost, ops>>

(* db_sync_dept_idle_update                                                *)
DeptIdleUpdate ==
  /\ pc = "ready"
  /\ \E n \in 0..Cardinality(Agents) : Write([cache EXCEPT !.idle = n])
  /\ UNCHANGED <<pc, warmVars, flags, envVars, queueVars, store, told, lost, ops>>

(* db_mysql_find_idle_agents; concurrent_calls is 0 in an idle row.        *)
IdleRows == {a \in Agents : store.agent[a].online = "on" /\ store.agent[a].status = "idle"}

(* A cached -1, which a failed count leaves behind, is no hit.             *)
IdleHit == cache.idle # None /\ cache.idle >= 0

IdleCounts == {-1} \cup (IF mysqlUp THEN {Cardinality(IdleRows)} ELSE {})

(* db_sync_dept_idle_query: on a miss what MySQL gives is written to Redis *)
(* as it is, -1 included.  The count is an instant's and nothing corrects  *)
(* it later, so that count and write are one step.                         *)
DeptIdleQuery ==
  /\ pc = "ready"
  /\ IF cacheEnabled
     THEN \E ok \in BOOLEAN :
            /\ Ensure(ok)
            /\ IF ok /\ ~IdleHit /\ dbEnabled
               THEN \E n \in IdleCounts : cache' = [cache EXCEPT !.idle = n]
               ELSE UNCHANGED cache
     ELSE UNCHANGED <<redisConn, cache>>
  /\ UNCHANGED <<pc, warmVars, flags, envVars, queueVars, store, told, lost, ops>>

(* db_sync_health_check.  The pool's health is its active_count; both      *)
(* branches for a recovered Redis run, hence two rounds of warm-up.        *)
HealthCheck ==
  /\ pc = "ready"
  /\ dbEnabled' = poolActive
  /\ IF cacheEnabled
     THEN /\ cacheEnabled' = PingOk /\ connected' = PingOk
          /\ UNCHANGED <<link, recent, pc, warmups>>
     ELSE \E ok \in BOOLEAN :
            /\ Ensure(ok)
            /\ cacheEnabled' = ok
            /\ IF ok /\ dbEnabled' THEN pc' = "warm" /\ warmups' = 2
               ELSE UNCHANGED <<pc, warmups>>
  /\ UNCHANGED <<rows, todo, warmed, first, workerRunning, poolActive, envVars, queueVars,
                 cache, store, told, lost, ops>>

(* db_sync_stop_worker: the shutdown task is pushed like any other one.    *)
Stop ==
  /\ pc = "ready"
  /\ pc' = "stopped"
  /\ IF workerRunning
     THEN /\ queue' = Pushed(Task("stop", None, None))
          /\ lost' = IF Full THEN lost \cup {Head(queue).who} ELSE lost
     ELSE UNCHANGED <<queue, lost>>
  /\ UNCHANGED <<warmVars, flags, envVars, redisConn, hand, cache, store, told, ops>>

-----------------------------------------------------------------------------
(* db_sync_worker *)

Pop ==
  /\ workerRunning /\ hand = None /\ queue # <<>>
  /\ hand' = Head(queue)
  /\ queue' = Tail(queue)
  /\ UNCHANGED <<pc, warmVars, flags, envVars, redisConn, cache, store, told, lost, ops>>

(* The UPDATE of a call that has no row changes none.                      *)
Applied(task) ==
  CASE task.kind = "status" -> [store EXCEPT !.agent[task.who].status = task.value]
    [] task.kind = "online" -> [store EXCEPT !.agent[task.who].status = OnlineRow(task.value)]
    [] task.kind = "start"  -> [store EXCEPT !.call[task.who] = "open"]
    [] task.kind = "end" /\ store.call[task.who] # "none"
                            -> [store EXCEPT !.call[task.who] = "closed"]
    [] OTHER                -> store

(* sscanf leaves the fields from the first empty one on unassigned, and    *)
(* the threshold of three lets the statement use them: whatever the stack  *)
(* holds goes into the row.                                                *)
Stored(task, new) ==
  IF task.who \in Bare /\ new # store
  THEN {new, [new EXCEPT !.garbled = @ \cup {task.who}]}
  ELSE {new}

Execute ==
  /\ hand # None
  /\ hand' = None
  /\ \/ /\ dbEnabled /\ mysqlUp
        /\ store' \in Stored(hand, Applied(hand))
        /\ UNCHANGED lost
     \/ /\ lost' = lost \cup {hand.who}
        /\ UNCHANGED store
  /\ UNCHANGED <<pc, warmVars, flags, envVars, redisConn, queue, cache, told, ops>>

-----------------------------------------------------------------------------
(* The servers and time.  A pool whose connections the MySQL server closed *)
(* never reconnects (MysqlPool).  A restarted Redis may have lost its keys.*)

MysqlLost ==
  /\ mysqlUp /\ pc # "init"
  /\ mysqlUp' = FALSE
  /\ UNCHANGED <<pc, warmVars, flags, redisUp, redisLost, crashes, redisConn, queueVars,
                 cache, store, told, lost, ops>>

RedisLost ==
  /\ redisUp /\ pc # "init" /\ redisLost + crashes < MaxFaults
  /\ redisUp' = FALSE /\ link' = FALSE
  /\ redisLost' = redisLost + 1
  /\ UNCHANGED <<pc, warmVars, flags, mysqlUp, crashes, connected, recent, queueVars,
                 cache, store, told, lost, ops>>

RedisBack ==
  /\ ~redisUp
  /\ redisUp' = TRUE
  /\ \/ UNCHANGED cache
     \/ cache' = [status |-> [a \in Agents |-> None],
                  online |-> [a \in Agents |-> None], session |-> {}, idle |-> None]
  /\ UNCHANGED <<pc, warmVars, flags, mysqlUp, redisLost, crashes, redisConn, queueVars,
                 store, told, lost, ops>>

(* The process dies, possibly between the two halves of a report, and is   *)
(* started again with what Redis and MySQL hold.                           *)
RedisHalves ==
  {[cache EXCEPT !.status[a] = s] : a \in Agents, s \in {"idle", "busy"}}
    \cup {[cache EXCEPT !.online[a] = on] : a \in Switched, on \in Switch}
    \cup {[cache EXCEPT !.session = @ \cup {c}] : c \in Calls}
    \cup {[cache EXCEPT !.session = @ \ {c}] : c \in Calls}

Crash ==
  /\ pc # "init" /\ redisLost + crashes < MaxFaults
  /\ crashes' = crashes + 1 /\ first' = ops
  /\ cache' \in {cache} \cup (IF pc = "ready" /\ cacheEnabled /\ PingOk THEN RedisHalves ELSE {})
  /\ pc' = "init" /\ warmups' = 0 /\ todo' = {} /\ rows' = Seeded
  /\ dbEnabled' = FALSE /\ cacheEnabled' = FALSE /\ workerRunning' = FALSE
  /\ poolActive' = FALSE /\ mysqlUp' \in BOOLEAN
  /\ link' = FALSE /\ connected' = FALSE /\ recent' = FALSE
  /\ queue' = <<>> /\ hand' = None
  /\ lost' = lost \cup {queue[i].who : i \in DOMAIN queue}
                  \cup (IF hand = None THEN {} ELSE {hand.who})
  /\ warmed' = FALSE
  /\ told' = [told EXCEPT !.status = [a \in Agents |-> store.agent[a].status],
                          !.online = [a \in Agents |-> store.agent[a].online]]
  /\ UNCHANGED <<redisUp, redisLost, store, ops>>

SecondPasses ==
  /\ recent
  /\ recent' = FALSE
  /\ UNCHANGED <<pc, warmVars, flags, envVars, link, connected, queueVars, cache,
                 store, told, lost, ops>>

Main ==
  \/ Start \/ WarmRead \/ HealthCheck \/ Stop \/ DeptIdleUpdate \/ DeptIdleQuery
  \/ \E a \in Agents :
       \/ WarmWrite(a) \/ StatusQuery(a) \/ StatusQueryAnswered(a) \/ WriteBack(a)
       \/ \E s \in {"idle", "busy"} : AgentStatusChange(a, s)
       \/ \E on \in Switch : AgentOnline(a, on)
  \/ \E c \in Calls : CallStart(c) \/ CallEnd(c)

Next == Main \/ Pop \/ Execute \/ MysqlLost \/ RedisLost \/ RedisBack \/ Crash \/ SecondPasses

Spec == Init /\ [][Next]_vars

-----------------------------------------------------------------------------
TypeOK ==
  /\ pc \in {"init", "ready", "warm", "writing", "fill", "stopped"}
  /\ warmups \in 0..2
  /\ rows \in [Agents -> [status : Statuses, online : Switch]]
  /\ todo \subseteq Agents
  /\ {dbEnabled, cacheEnabled, workerRunning, poolActive} \subseteq BOOLEAN
  /\ {mysqlUp, redisUp, link, connected, recent, warmed} \subseteq BOOLEAN
  /\ Len(queue) <= Capacity
  /\ \A i \in DOMAIN queue : queue[i] \in Tasks
  /\ hand \in Tasks \cup {None}
  /\ cache \in [status : [Agents -> Statuses \cup {None}],
                online : [Agents -> Switch \cup {None}], session : SUBSET Calls,
                idle : {None} \cup (-1)..Cardinality(Agents)]
  /\ store \in [agent : [Agents -> [status : Statuses, online : Switch]],
                call : [Calls -> Phases], garbled : SUBSET Calls]
  /\ told \in [status : [Agents -> Statuses], row : [Agents -> Statuses],
               online : [Agents -> Switch], call : [Calls -> Phases]]
  /\ lost \subseteq Agents \cup Calls \cup {None}
  /\ redisLost \in 0..MaxFaults /\ ops \in 0..MaxOps
  /\ first \in 0..ops /\ crashes \in 0..MaxFaults

Drained(x) == /\ \A i \in DOMAIN queue : queue[i].who # x
              /\ hand = None \/ hand.who # x

(* The asynchronous writes arrive: once the worker has none of an agent's  *)
(* or a call's tasks left, its MySQL row is what was last reported, unless *)
(* an overflow, a disabled or failing MySQL lost one of its tasks.         *)
StoreKeepsUp ==
  /\ \A a \in Agents \ lost : Drained(a) => store.agent[a].status = told.row[a]
  /\ \A c \in Calls \ lost : Drained(c) => store.call[c] = told.call[c]

(* A Redis that was filled at startup and never lost since stays enabled   *)
(* and mirrors what the callers reported, however far behind MySQL is, and *)
(* whatever queries, health checks and MySQL failures come in.  After a    *)
(* crash the reports start from what MySQL holds, and nothing of the       *)
(* crashed process shows through a complete warm-up, but for the keys of   *)
(* its calls, which stay.                                                  *)
CacheLeads ==
  warmed /\ redisLost = 0 =>
    /\ cacheEnabled
    /\ \A a \in Agents : cache.status[a] = told.status[a] /\ cache.online[a] = told.online[a]
    /\ crashes = 0 => cache.session = {c \in Calls : told.call[c] = "open"}

(* db_sync.h, "after Redis reconnects, an automatic full warm-up": a       *)
(* re-established connection is followed by a warm-up.                     *)
ReconnectWarmsUp ==
  [][~link /\ link' /\ warmed /\ dbEnabled => pc' = "warm"]_vars

-----------------------------------------------------------------------------
(* Statements of the comments that the code does not satisfy: TLC refutes *)
(* each of them; no run is kept for them.                                  *)

(* db_sync.h, "status change -> Redis updated in real time": an entry that *)
(* shows an agent's latest status is not replaced by an older one while    *)
(* the process lives.                                                      *)
CacheNeverRegresses ==
  [][\A a \in Agents :
       warmed /\ pc' # "init" /\ a \notin lost' /\ cache.status[a] = told.status[a]
         /\ told'.status[a] = told.status[a]
         => cache'.status[a] \in {told.status[a], None}]_vars

(* db_sync.h, "health check: the state of MySQL and Redis": a health check *)
(* of a dead MySQL disables it.                                            *)
HealthCheckSeesMysql == [][HealthCheck /\ ~mysqlUp => ~dbEnabled']_vars

(* schema.sql, agents.is_online, "1 = online, 0 = offline": the column     *)
(* follows db_sync_agent_online.                                           *)
OnlineRecorded ==
  \A a \in Agents \ lost : Drained(a) => store.agent[a].online = told.online[a]

(* schema.sql, start_time and result_desc: the columns hold what the call  *)
(* was reported with.                                                      *)
RecordsInitialised == store.garbled = {}
=============================================================================
