# A TLA+ model of the call centre's SIP server

This directory specifies the C and Lua program in `src/`: a SIP signalling
server (`src/src/*.c`) whose calls are routed by a script
(`src/lua/route.lua`) and whose agent and call states are kept in Redis and,
through a queue and a worker thread, in MySQL. The modules translate the code;
where a document or a comment says something else, that is a finding below.

    tlc -config MCTaskQueue.cfg MCTaskQueue.tla      # a run
    tlapm TaskQueueProofs.tla                        # the proofs of one module

## 1. Inventory

The program has two threads. The **main thread** starts everything, then runs the
event loop: it reads datagrams, parses them, asks the Lua script where the call goes,
answers. It also calls the data synchronisation layer, which writes Redis at once and
pushes a task. The **worker** takes tasks and executes them on a pooled MySQL
connection. A signal handler may interrupt either one, and the process may be killed
at any moment; Redis, MySQL and its tables go on without it.

| Component | State it keeps | Operations | What makes it correct |
|---|---|---|---|
| Task queue (`db_sync.c`) | linked list, count, mutex, condition variable, shutdown flag | push (drops the oldest when full), pop (blocks), stop and join, destroy | list well formed; order kept, no task twice; no lost wake-up; stop drains and returns |
| MySQL pool (`db_mysql.c`) | slots: handle, `connected`, `in_use`; `active_count`, `reconnecting`, backoff | borrow with time-out, return, lazy reconnection | one user per handle; no slot lost; counters true; borrow returns |
| Data synchronisation (`db_sync.c`) | the flags `db_enabled`, `cache_enabled`, `worker_running` | status change, online, call start/end, status query and idle count (cache aside), warm-up, health check | Redis shows what was last reported, MySQL gets there unless a write was lost, a crash leaves nothing that a warm-up does not repair |
| Redis client (`db_redis.c`) | connection, time of the last attempt | ping, reconnection before each command, at most one attempt per second | – (seen through the layer above) |
| Schema and seeding (`schema.sql`, `db_sync.c`) | the tables; the loops of the seeding | create, insert in batches | a seeding that ends has put every row in, whatever an earlier one left |
| Event loop (`event_loop.c`, `epoll_socket.c`) | connection slots, `active_count`, send buffers, `running` | accept, read, write, error, idle check, run, stop, destroy | no event for a slot given away; sockets closed once; counts true; a stopped loop ends |
| SIP signalling (`sip_handler.c`) | one message, overwritten by each datagram | receive until empty, parse, validate, dispatch, answer | responses match their request; nothing but requests is answered; no datagram stays behind |
| Routing script (`route.lua`) | agent states, a waiting queue per department, counters of wrong keys and time-outs per caller, the configuration, the call log | `route_call`, agent states, limits, resets, reloading, `get_recent_logs` | who is offered a call is free; nobody refused while someone is; queues expire; callers are not kept in error loops; the log holds the latest calls |
| Lua binding (`lua_utils.c`) | the VM | create, load, reload, `route_call`, destroy | – (part of the callers' actions) |
| Program (`main.c`, `logger.c`, `call_test.c`) | pointers to all of the above, `keep_running` | three modes: startup, run, shutdown; signal handler | the worker never uses what is freed; a graceful stop leaves nothing; a signal is honoured |

**Hard behaviours.** Threads: the queue's lock and condition variable; the pool's
lock, which reconnection runs without; `db_enabled` read by the worker; the shutdown
against the worker. Callbacks: handlers that close connections for which events are
still in the batch. Failures: Redis or MySQL gone and back, failing statements, failing
`send`, `recvfrom`, `calloc` and `pthread_create`, a startup failing at any call. Crashes:
a kill between a Redis write and its task, or between two batches of the seeding.
Ordering: updates executed late by the worker against cache fills read early. Time-outs:
borrow deadlines, reconnection backoff, idle sockets, queue expiry. Signals: on either
thread, in the middle of startup or shutdown. UDP: repeated, damaged and reordered
datagrams against a handler without transactions, on an edge-triggered socket.
`PROJECT.json` lists each hazard at its line.

Several entry points have no caller in the repository: `db_sync_health_check`,
`db_sync_agent_status_change`, `_agent_online` and the queries outside of the
tests, `el_send_data`, TCP listeners, and the script's `update_route_config`, `reset_invalid_key_count`, `lua_vm_reload_script`. They are the
interfaces the program offers, and are modelled as such: their callers are
the environment. The script's `set_agent_state` is local and nothing in the script calls it,
so in the shipped server the agents stay idle, and the overflow and waiting paths, which are
most of the script, only come alive once something does. The constant `AgentStates` says
which states it is given: `{}` is the script as shipped.

## 2. Modules

| Module | Models | EXTENDS / INSTANCE |
|---|---|---|
| `LossyFifo` | the promise of the asynchronous writes, without lists, locks or threads | |
| `TaskQueue` | `queue_*`, the loop of `db_sync_worker`, `db_sync_stop_worker` | refines `LossyFifo` |
| `LeasePool` | the promise of borrow and return, without lock, marks or reconnection | |
| `MysqlPool` | borrow, return, `pool_try_reconnect`, `slot_connect` | refines `LeasePool`, if it started complete |
| `DbSync` | the data synchronisation layer with both servers, outages and crashes | uses the queue in its abstract form |
| `EventLoop` | `event_loop.c` with the signal handler of `main.c` | |
| `Routing` | `route.lua`, but for its log | |
| `SipStatus` | the status tables of `sip_handler.c` | |
| `SipCalls` | what a caller hears of the script's answers | `Routing`, `SipStatus` |
| `CallLog` | the ring buffer of `route.lua` and its query | |
| `SipServer` | `sip_handler_on_read` and all it calls, on the socket as epoll reports it | `CallLog`, `SipStatus` |
| `Seeding` | `schema.sql` and `db_sync_seed_demo_data` on tables that outlive the process | |
| `Lifecycle` | `main.c` with the worker and the signal handler, kills and restarts | `Seeding` |
| `*Proofs` | the theorems about the module of that name | it, and TLAPS |

`MC*` modules give constants their values. Operators marked "faulty" stand
directly before the definition they distort; `PROJECT.json` pairs each property with
one that breaks it.

### How state and actions correspond to the code

**TaskQueue.** `head`, `tail`, `next`, `count`, `shutdown` are the fields of
`db_task_queue_t`; `data[n]` stands for the task at address `n`. Addresses are
reused as `calloc` may reuse them. A critical section is one action; the worker's
test and sleep are separate from the pushes that may come between; `Push`
contains drop, link and signal. `worker` and `main` are the program counters of
the two threads. `Wait` and the signal follow POSIX: waiting releases the mutex
atomically, and may end without a signal (`SpuriousWakeup`). A failing
`calloc` at the stop skips the shutdown task; a failing `pthread_create` leaves no
worker. `order`, `submitted`, `handled`, `lost` are history; only the bound reads them.

**MysqlPool.** The scan under the lock is one action (`Take`), the decision to sleep
(`GoWait`, holding `lock`) and the sleep (`Sleep`) two, because unlocked code
runs in between. `pool_try_reconnect` is taken apart at every access of a shared
field: test (`Check`), set (`Claim`), each slot (`SkipSlot`, `OpenSlot`, `Connect`),
`connected = 1` (`Publish`), `in_use = 0` (`Unmark`), the counter, the end.
A handle is known by its slot, and is open, broken (by the server) or reported
(a query failed on it). The deadline is an event that may come at any moment. A signal of `Return`
may be swallowed by a waiter that is timing out, as POSIX allows; the code does not scan again
then, so another waiter may sleep on beside a free slot until its own deadline. For
`LeasePool`, who asks is who is in `borrow`, and a lease is `held`. `Return` finds its slot by
comparing handles, as the code does: while a second reconnecter, which takes a third thread, has
replaced the handle of the slot (`dangling`), it may find none (`Released`).

**DbSync.** One entry point without a MySQL read is one action: Redis first,
then the task. A MySQL read and the Redis writes that follow are steps of their
own, so that the worker may write between them (`WarmRead`/`WarmWrite`,
`StatusQuery`/`WriteBack`). `Ensure` is `db_redis_ensure_connected`: ping, else
one attempt per second. MySQL, once lost, stays lost: `MysqlPool` shows that a pool
whose connections died reconnects none of them. `Crash` ends the process anywhere, also
between the Redis half and the queued half of a report: queue, hand and flags go, both
servers' data stay, and the reports are judged against what MySQL holds from then on.
`DeptIdleQuery` is the count of idle agents, which writes a failed count (-1) into Redis.
`Submit` may fail to get memory for its task, which is then lost.
`told`, `lost`, `warmed`, `first`, `redisLost` are history.

**EventLoop.** The loop is one thread, so an event is handled in one step and every
system call's outcome is a choice. Handlers that call handlers are functions
from loop states to loop states (`OnError` after `OnClose` after `Removed`), which
keeps the order of calls, double removals included. `batch` is the array filled by
`epoll_wait`; each entry carries, as history, the fd it was reported for.
`ServerMode` is what `main.c` installs (`on_read` only), otherwise the default callbacks.
`Run` may find no memory for the events, and `EpollFails` leaves the loop with `running` set.

**Routing, SipCalls.** A call of `route_call` runs to its end on its caller's thread: one
action per path of the script. `status`, `lastActive`, `queue`, `invalid`, `timeouts` are its
tables, `config` the five fields of `ROUTE_CONFIG` that decide anything, `answer` the table
returned last. `streak` and `resets` are history: how often in a row a caller heard "try again",
which no reset and no new script makes unheard, and how often his count was set back in that row.
Ties in `pick_idle_agent` are open, as `table.sort` leaves them. `check_agent_status` cleans
every queue before any decision by key: `Pass` is one pass of the loop of `queue_cleanup`, which
removes the entry at the index or goes on, `CleanedQueue` its walk over one queue. `SipCalls` adds the
status each answer gets. No final 200 is ever sent to an INVITE by this code.

**SipServer.** A datagram is a start line and header lines, a header value a sequence of
tokens: the separators the parser looks for and the words between them; a scheme is a word
and the `:` behind it, which `strchr` may find as well as `strstr`. `Receive` is
`recvfrom` and `sip_parse_message`; `ParsedInto` keeps the last of two headers of one
name and ignores a last line without CRLF; `UriUser` is `sip_extract_uri_user` with its
order of separators. `msg` is the one `sip_message_t` of the callback, `replies` what
`sendto` took of the responses. `pending` is epoll's edge-triggered report: an arrival sets
it, `epoll_wait` takes it. The script's answer is left open here, but it writes the log.

**CallLog.** `callLog` and `callLogIndex` are `CALL_LOG` and `CALL_LOG_INDEX`; an entry is
its number. `RecentLogs` is `get_recent_logs` with its two loops, negative ends included.

**Seeding, Lifecycle.** `pc` is the place in `main`, `mem` what each global pointer holds
(NULL, an object, or an object already freed). Each startup call may fail; a fatal log line
closes the log (`Fatal`) and then ends the process (`Exit`), with the worker free to run between
the two; `handler` is the signal handler on the thread named by `on`, which
stands still meanwhile. `TestCall` is one of the two reports of a call. The worker is reduced to taking, storing and leaving, the queue to
its length: `TaskQueue` has the rest. A seeding statement is atomic, refused by a key
or a foreign key, or lost with its connection before or after MySQL did it. The
departments get the ids 1, 2, ... that the seeding assumes.

## 3. Runs

| Run | Shows | Distinct states | Bounds |
|---|---|---|---|
| `task_queue` | list, wake-ups, draining, refinement of `LossyFifo`; every task settles | 91 000 | queue of 2, 5 tasks, 4 addresses |
| `pool_partial` | two threads, some slots connected at the start: single reconnecter, no use after close, no slot lost, counter true | 47 000 | 2 slots, 2 threads, backoff up to 3 |
| `pool_full` | three threads on two connected slots: every borrow returns; refinement of `LeasePool`, which includes one user per handle | 13 000 | 2 slots, 3 threads |
| `db_sync` | MySQL follows the reports unless a write was lost; a filled, never lost Redis stays enabled and mirrors them, also after a crash | 8 730 000 | 1 agent, 1 call, 3 reports, queue of 1, 1 outage of Redis or crash |
| `event_loop` | counts, sockets, no stale event, units in order; stop ends, idle clients go | 94 000 | 3 slots, 2 events per batch, 1 message of 2 units |
| `routing_calls` | whoever is offered is free and of a department the caller may be sent to; refusals over SIP justified; queues bounded and expiring; how often in a row a wrong key is forgiven | 620 000 | 3 agents in 3 states, one of them internal; two configurations; day and night; 4 kinds of digits, 2 callers, 1 reset in a row of wrong keys |
| `sip_server` | responses match, only requests are answered, the right users are asked for, no datagram stranded; the log's ring | 180 000 | 11 datagrams of 2 peers, buffer of 2, ring of 3 with 5 entries |
| `lifecycle` | worker safe, nothing left, seeding complete, signals honoured | 299 000 | 2 departments of 1 and 3 numbers, batches of 2, 1 test call (2 tasks), 2 signals, 2 starts |
| `pool_shared` *(violation)* | finding 1 | | |
| `pool_spin` *(violation)* | finding 2 | | |
| `db_sync_reconnect` *(violation)* | finding 3 | | |
| `event_loop_deaf` *(violation)* | finding 4 | | |

**Why the bounds are enough.** *Queue:* 2 is the smallest length with a head that
is not the tail; five tasks overflow it repeatedly, with another task in hand;
four addresses (two queued, one in hand, one fresh) are all reused. *Pool:* two threads
are what the program has; the third makes users outnumber slots; two slots allow one
connected and one not, and backoff 3 reaches doubling and its cap. *DbSync:* the second
report overflows the queue of 1 while a task is in hand, the third supersedes or follows
one that was dropped; one fault is a crash or an outage at any point, after which the
rest of the reports are made to the restarted or reconnected side. The proof of
`StoreKeepsUp` covers every other bound. *Event loop:* SIP socket, listener and a client
with its slot reused; two events are the least at which one handler can
spoil another's event, and no handler touches a slot other than its own. *Routing:* an
agent in each of two external departments are all overflow tells apart (wanted, desk,
other); a third department is internal, and one of the configurations puts it on duty at night and
first on the overflow list. Queue limits of 2 and 1 put a queue at, and after a change above, its
limit; with the time-out 0, clock 1 is the first at which an entry has expired while one that just
came has not. For wrong keys the limits 2 and 1 allow one to be forgiven, or none, a change in the
middle of a row, and a reset that starts the count, but not the row, again; the second caller is
what must not touch the first. `VIEW` leaves out the answer of the last call, which no action
reads: the properties of the run look at the answer a step gives. The proofs cover every other bound. *SIP server:* two datagrams in the buffer while a third is
handled; the messages cover missing and repeated headers, a cut last line, a separator
before and after the user, a password, a second address in a parameter, an address without `@`, a response, an unknown method and garbage; 5 entries wrap
the ring of 3. *Lifecycle:* a one-row batch, a full one and a cut one in two departments; a
second start finds what the first one left; two signals can fall on the shutdown that
the first began.

**Stopping.** `CHECK_DEADLOCK FALSE` stands where the program ends: a destroyed
queue, a destroyed loop, a stopped layer with no report left, the last exit. The other
runs check for deadlock.

**Fairness.** *TaskQueue:* the worker is scheduled, and a stop once begun goes on;
nothing is assumed of callers or spurious wake-ups. *MysqlPool:* threads are
scheduled, time passes, deadlines pass, and a thread that keeps asking for a
mutex gets it (strong fairness on what it does under the lock); nothing of the
servers. *EventLoop:* the loop's thread is scheduled, time passes, and the interval
between two idle checks ends again and again (strong fairness of `Cleanup`, since
a batch may end before or after that interval); nothing of
clients, signals or `epoll_wait`. *Lifecycle:* the two threads are scheduled and a handler runs
to its end; no signal is promised, and `epoll_wait` need not fail.

## 4. Findings

1. `pool_shared`: `slot_connect` sets `connected = 1` and then `in_use = 0` with
   no lock held (`db_mysql.c:118-119`). A borrower takes the slot in between, its mark is
   erased, the next borrower gets the same handle.
2. `pool_spin`: with a slot missing and the backoff running, `borrow` goes round
   through `pool_try_reconnect` and `continue` (`db_mysql.c:227-231`) and never
   reaches its timed wait: the deadline passes unseen.
3. `db_sync_reconnect`: a command that finds Redis gone reconnects by itself
   (`db_redis.c:145-154`); the automatic warm-up of `db_sync.h:8` does not follow.
4. `event_loop_deaf`: the idle check closes the UDP SIP socket
   (`event_loop.c:521-533`); the server runs on without it.

Further statements of comments and documents that the code does not satisfy were
met while modelling and refuted by TLC. They stay in the modules, under a heading of
their own, and no run is kept for them; naming one in a configuration reproduces it.

| Property | Statement | What happens |
|---|---|---|
| `MysqlPool!SingleReconnecter`, `NoUseAfterClose`, `NoSlotLeak` (three threads) | `db_mysql.c:151` only one thread reconnects | the flag is tested and set without the lock; the program's two threads cannot both find every slot taken, three can: one closes the handle the other has just opened and lent, and its return finds no slot |
| `MysqlPool!BorrowChecksConnection` | `db_mysql.c:8` borrow detects dead connections | nothing clears `connected` |
| `DbSync!HealthCheckSeesMysql` | health check of MySQL | `active_count` does not fall |
| `DbSync!CacheNeverRegresses` | `db_sync.h:67` a status change updates Redis in real time | a query that missed while Redis was away writes MySQL's row back to it (`db_sync.c:588`) though a newer status, already in Redis, is still queued for MySQL |
| `DbSync!OnlineRecorded` | `schema.sql` `is_online` | the worker only writes `status` |
| `DbSync!RecordsInitialised` | call record columns | an empty field ends `sscanf` early; unset buffers are stored |
| `EventLoop!MessagesWhole` | the rest is kept and sent later | a second `el_send_data` replaces it |
| `EventLoop!WritingKeepsSip` | EPOLLOUT continues sending | the address is not kept; the error callback closes the SIP socket |
| `EventLoop!SignalHonoured`, `Lifecycle!ServerHonoursSignal` | exits gracefully | a signal before `el_run` is overwritten by `running = 1` |
| `Routing!ConsecutiveErrors` | `route.lua:33` limit of consecutive errors | a valid key and the end of a call leave the count (`route.lua:571`); nothing calls `reset_invalid_key_count` |
| `CallLog!RecentLogsExact` | `route.lua:822` the latest call logs | after a wrap the second loop (`route.lua:278`) misses some of them or adds old ones |
| `Routing!NoOvertaking` | `README.md:270` waiting queue | nothing calls `queue_pop` |
| `Routing!TakesTurns` | idle agents share the calls in turn | routing does not touch `last_active`: the same agent is offered again |
| `Routing!BusyNotCalled` | busy: temporarily unable to answer | a busy extension is put through from inside |
| `Routing!ShortNumberReaches` | a department's number can be dialled | the short number is in no range: invalid |
| `SipCalls!TransfersRing` | transfer to the duty agent, to the desk | the handler answers a transfer with 480 or 486 (`sip_handler.c:358-368`) |
| `SipServer!BareUsersFound` | the user part of an address | without a `@` the `>` and what follows belong to it |
| `SipServer!CallbackReturns` | one event, one callback | it goes on as long as datagrams arrive |
| `Lifecycle!HandlerSafe` | the handler stops a loop that exists | between `el_destroy` and `g_event_loop = NULL` it writes to freed memory |
| `Lifecycle!LogOutlivesWorker` | `logger.c:235` the log is written completely before the exit | a fatal message closes it while the worker runs |
| `Lifecycle!ReportSafe` | the test's report finds its context | a failed `db_sync_create` leaves NULL |
| `Seeding!SkippedOnlyWhenComplete` | the seeding is idempotent | above 100 agents, what an interrupted seeding lacks is never added |

## 5. Proofs

Every theorem is for all values of the constants, under the assumptions the modules name
(positive capacities, natural bounds, some slot connected at the start, `NULL` and `None` no
addresses, agents, calls or statuses, header texts sequences of strings, the departments' ranges
in ascending order; agents, departments and outside callers distinct, which
`is_external_caller` tells apart by their numbers) and where the table says so, one more.
Every invariant and action property that a passing run checks is also proved.

| Module | Theorems | What they state of the runs' properties |
|---|---|---|
| `TaskQueueProofs` | `TypeCorrect`, `ListCorrect`, `WakeupCorrect`, `OrderCorrect`, `DrainCorrect`, `Refinement` | `TypeOK`, `ListShape`, `NoLostWakeup`, (`InOrderAtMostOnce`,) `StopDrains`, `ImplementsLossyFifo` |
| `MysqlPoolProofs` | `TypeCorrect` | `TypeOK` |
| | `SlotsReturned`, `ReconnectExclusive`, `HandlesOpen`, `CountTrue`, assuming `TwoThreads` | `NoSlotLeak`, `SingleReconnecter`, `NoUseAfterClose`, `ActiveCountTruth` |
| | `BorrowExclusive`, `LeasesKept`, assuming `AllConnected` | `ExclusiveBorrow`, `ImplementsLeasePool` |
| `DbSyncProofs` | `TypesKept`, `StoreCaughtUp`, `RedisMirrorsReports` | `TypeOK`, `StoreKeepsUp`, `CacheLeads` |
| `EventLoopProofs` | `LoopTypes`, `CountTrue`, `SocketsKept`, `EventsFresh`, `UnitsInOrder` | `TypeOK`, `ActiveCountTruth`, `SocketsOwned`, `NoStaleEvent`, `NoUnitTwice` |
| `SipServerProofs` | `SipTypes`, `RepliesCorrect`, `StrayUnanswered`, `UsersAsked`, `BufferReported` | `RepliesMatch`, `NoStrayReplies`, `AskedForThem`, `NoneStranded` |
| | `RingCorrect` | `RingHoldsLatest` |
| `RoutingProofs` | `RoutingTypes`, `CallersGuided`, `OffersAreFree`, `RefusalsJustified`, `QueuesFresh` | `TypeOK`, `Guided`, `OfferedAgentIdle`, `RefusalJustified`, `QueueFresh` |
| `LifecycleProofs` | `TypesKept`, `WorkerKeptSafe`, `GracefulStop`, `SeedingComplete` | `TypeOK`, `WorkerSafe`, `NothingLeft`, `SeedCompletes` |
| `SeedingProofs` | lemmas for `LifecycleProofs` | |

*TaskQueue.* `IInv` is the conjunction of `TypeOK`, `ListShape`, `NoLostWakeup`,
`InOrderAtMostOnce`, `Numbering` and `Phases`. The first four are not inductive:
that an executed task has a higher number than all before it follows only if the
list holds exactly the last `Len(order)` numbers and everything older is handled, lost or
in hand (`Numbering`); that the stop drains follows only if the worker has left,
with an empty list, before `main` gets past the join (`Phases`). `PushPreserves`,
`PopPreserves` and `ExecutePreserves` carry the three list operations, with two lemmas
on sequences (`TailShifts`, `AppendKeeps`) and one on what the overflow leaves
(`PushRest`); `QuietSteps` the others. For the refinement, `PushSubmits` and
`PopTakes` show that a push is a `Submit` and a pop a `Take` under the mapping
`Pending`, `InHand`; `Execute` is `Finish`, `Destroy` is `Close`, all else stutters.

*MysqlPool.* `TInv` adds that a reconnection counts no more slots than it has passed.
`GInv` has the marks with their holders and asks for no exclusion: it survives even
finding 1. It is kept as long as nobody holds a handle that was closed, whose return would find
no slot; with two threads that follows from `RInv`. `RInv` shows why two threads cannot reconnect at once although test and set
are apart: a thread gets there only after finding every connected slot marked, and at
least one is connected; while the other one reconnects, neither holds a slot, so none is
marked. It also carries the count of the loop (`Progress`) to `active_count`. `IInv`, for a pool that starts complete, shows that nothing ever leaves that
state. `LeasesKept` needs it for one step: the slot a scan takes is in nobody's hands, because
every borrower's slot is marked. `Borrow`, `Take`, `Deadline`, `TimeOut` and `Return` are the five
steps of `LeasePool`, all else stutters. With a slot missing at the start the refinement fails as
`ExclusiveBorrow` does (finding 1).

*DbSync.* `Followed` follows each agent and call through the stages: the last task of it in the
queue carries what was last reported; if none is queued, the one in hand does; if
none is there either, MySQL does; and of a call the tasks are in the order of its phases.
A task that is dropped or fails puts its agent or call into `lost`, which ends the claim.
`MirrorInv` follows one process from its start to its reports. Before the first report MySQL
holds what is known and the queue nothing but the stop (`Untouched`), so that a warm-up, which
reads MySQL at one moment and writes Redis agent by agent, copies what is true throughout
(`Warming`). From then on every report is written to Redis; as long as that is not lost, each
command reaches it (`Reached`), so nobody disables it, and no key is ever found missing, so no
fill from MySQL overtakes a report (`Mirrored`: `pc # "fill"`). `Fresh` starts the claim about
session keys.

*EventLoop.* The handlers are functions, so the lemmas are about any `Sound` loop state:
types, slots and sockets in bijection (`Owned`), the counter (`Counted`), what each
connection has on the wire (`UnitsOK`). Every handler's results are sound and leave other
slots' sockets alone (`Fine`). `LoopInv` adds that the events left are of different
slots and fit their sockets (`BatchFits`); a new client takes a free slot, which no
event left can name.

*SipServer.* `SipInv` ties `msg` to the datagram taken last while the script runs (`Asked`), which
holds because the message is cleared before each parse, and each place of the ring to
the number of its entry (`Ring`). For `UsersAsked`, where `sip:` stands in a header that names a
user is a fact about sequences of any length (`AddressPlace`, `StartFound`, `UserFound`), and the
invariant `UserInv` says that a 400 was earned.

*Routing.* What a caller heard in a row is what the script has counted for him, and for each
time the count was set back in that row at most what it may have been then: a limit in use less
one (`Counters`). The count goes up only while the new one is below the present limit, and a
changed limit is one of those in use.
Offers and refusals follow from the agents' states when the call is routed, along each path
of `route_call`: a refused caller passed every overflow, so no rank of the priority list has an idle
agent. That `queue_cleanup` passes nobody by is an invariant of its walk: after each pass nobody
before the index is expired, and as many entries are left to look at as passes
(`CleanedQueueFacts`); with `Shapes` that bounds the queues and makes them fresh.

*Induction over data.* The library's induction theorems cannot be instantiated here. What the walk
of `queue_cleanup` does to queues of every length is proved with a least counterexample instead:
`LeastNumber`, from the library's well-foundedness of the natural numbers, is a fact about sets.

*Lifecycle.* For each stage of `main`, which objects exist, whether there can be a worker and what
it may still do (`WorkerStages`, `Kept`, `Released`). For the seeding, that the batches before
`at` are in unless a connection broke, and that what a table has of a department is whole
batches counted from its first number, so that a refused batch is one that is there.

*Model-checked only.* Liveness under fairness (`TasksSettle`, `BorrowReturns`, `StopEnds`,
`IdleReleased`, `SignalHonoured`) and `ENABLED`, which are out of the prover's reach.
`DbSync` builds on the abstract queue; that the concrete one implements it is `Refinement`.

## 6. Abstractions to keep in mind

* Data are model values: numbers, names and JSON are never spelled out; SIP headers only as far as
  the parser looks into them.
* Time is counted in ticks; the seconds of the code are constants.
* `DbSync` takes each Redis command sequence of one entry point as one step: only
  the main thread uses Redis. Expiry of session keys (7200 s) is left out.
* `MaxOps`, `MaxFaults`, `MaxSends`, `MaxBatch`, `MaxBuffer`, `MaxLogged`, `MaxTime`,
  `MaxSubmissions`, `TestCalls`, `MaxResets`, `MaxSignals`, `MaxStarts` and `MaxBackoff` are the bounds; the
  last is also a constant of the code, and `MaxBuffer` the kernel's.
* The order in which the compiler leaves `connected`/`in_use` stores is the source's order;
  the read of `pool->slots[i].conn` after unlocking is in `Take`: with two threads only a slot
  that is not `connected` gets a new handle.
* `Lifecycle` takes the signal handler as three steps (flag, pointer, `el_stop`). That it also
  writes a log line, which is not async-signal-safe, is left out.

## 7. Not modelled

The scripted calls of `call_test.c` and the demos of `main.c` (one sequence of calls each, whose
effects are in the modules they call), the formatting of `logger.c`, the build files and
configuration samples. Of the Redis client, the heartbeat, queue and ordered-set commands,
which nothing calls, and the expiry of keys. Of the pool's CRUD functions, the SQL texts: each is
one `execute` or `query`. Of the SIP handler, message bodies, which nothing reads, and the
truncation of values to their buffers. Of the Lua binding, stack handling and
conversions. Of the sockets, options and addresses. The department table in the warm-up is a
constant, and the columns of a call record are its phase and whether they were set.

## 8. What a next step could add

Safety lemmas under the liveness properties, such as that a borrower who waits has a thread
that will wake him; what of the pool's promise survives with a slot missing at the start and
two threads; an abstract cache that `DbSync` implements.
