----------------------------- MODULE Lifecycle -----------------------------
(* main.c from its first call to its exit, with what runs beside it: the    *)
(* worker thread of db_sync and the signal handler, which the kernel runs   *)
(* on either thread.  Startup may fail at every call; a fatal log line ends *)
(* the process where it is written; the process may be killed and started   *)
(* again, with the tables of Seeding as they were.                          *)
(*                                                                          *)
(* The queue is a number of tasks (TaskQueue); the callbacks of the event   *)
(* loop (EventLoop) and the calls of the test (Routing) are left out, but   *)
(* for the tasks the test gives to the worker.                              *)
EXTENDS Seeding

CONSTANTS
  TestCalls,   \* the calls the call test makes
  MaxSignals,  \* bound of the signals a process gets
  MaxStarts    \* bound of the starts of the program

ASSUME LifecycleAssumption ==
  TestCalls \in Nat /\ MaxSignals \in Nat /\ MaxStarts \in Nat \ {0}

\* run_single_call reports the start and the end of its call.
MaxTasks == 2 * TestCalls

Objects == {"log", "vm", "pool", "redis", "sync", "loop"}
Ended == {"stopped", "exited"}

VARIABLES
  mode,         \* "test", "demo" or "server", from the arguments
  pc,           \* the main thread
  mem,          \* mem[o]: "none" (the pointer is NULL), "live", "dangling" (freed)
  dbEnabled,    \* sync->db_enabled; cache_enabled decides nothing here
  worker,       \* the worker thread: "none", "idle", "busy", "left"
  queued, sent, \* tasks waiting, and submitted by the call test
  stopping,     \* queue.shutdown
  keepRunning,  \* keep_running
  running,      \* el->running
  handler,      \* the signal handler: "none", "entered", "stops" (in el_stop)
  on,           \* the thread it interrupts
  signals, starts

procVars == <<mode, dbEnabled, starts>>
workVars == <<worker, queued, sent, stopping>>
sigVars == <<keepRunning, running, handler, on, signals>>
vars == <<pc, mem, procVars, workVars, sigVars, seedVars>>

NewProcess ==
  /\ mode' \in {"test", "demo", "server"}
  /\ pc' = "log" /\ mem' = [o \in Objects |-> "none"]
  /\ dbEnabled' = FALSE
  /\ worker' = "none" /\ queued' = 0 /\ sent' = 0 /\ stopping' = FALSE
  /\ keepRunning' = TRUE /\ running' = FALSE
  /\ handler' = "none" /\ on' = "main" /\ signals' = 0

Init ==
  /\ mode \in {"test", "demo", "server"}
  /\ pc = "log" /\ mem = [o \in Objects |-> "none"]
  /\ dbEnabled = FALSE
  /\ worker = "none" /\ queued = 0 /\ sent = 0 /\ stopping = FALSE
  /\ keepRunning = TRUE /\ running = FALSE
  /\ handler = "none" /\ on = "main" /\ signals = 0
  /\ starts = 1
  /\ SeedInit

\* main and the worker stand still while the handler runs on them.
MainAt(label) == pc = label /\ (handler = "none" \/ on = "worker")
WorkerAt(label) == worker = label /\ (handler = "none" \/ on = "main")

Made(o) == mem' = [mem EXCEPT ![o] = "live"]
Freed(o) == mem' = [mem EXCEPT ![o] = "none"]
Has(o) == mem[o] # "none"

-----------------------------------------------------------------------------
(* Startup *)

\* A message of LOG_LEVEL_FATAL: logger_write closes the log and then calls exit,
\* which ends the worker wherever it is.
Fatal == pc' = "fatal" /\ Freed("log")

Exit ==
  /\ MainAt("fatal")
  /\ pc' = "exited" /\ mem' = [o \in Objects |-> "none"] /\ worker' = "none"
  /\ UNCHANGED <<procVars, queued, sent, stopping, sigVars, seedVars>>

\* logger_init
OpenLog ==
  /\ MainAt("log")
  /\ \/ Made("log") /\ pc' = "vm"
     \/ pc' = "exited" /\ UNCHANGED mem
  /\ UNCHANGED <<procVars, workVars, sigVars, seedVars>>

\* lua_vm_create, lua_vm_init and lua_vm_load_script.
LoadScript ==
  /\ MainAt("vm")
  /\ \/ Made("vm") /\ pc' = "database"
     \/ Fatal
  /\ UNCHANGED <<procVars, workVars, sigVars, seedVars>>

\* init_database: each of the three may be NULL; only db_sync_init needs the last.
CreateDatabase ==
  /\ MainAt("database")
  /\ \E made \in SUBSET {"pool", "redis", "sync"} :
       /\ mem' = [o \in Objects |-> IF o \in made THEN "live" ELSE mem[o]]
       /\ pc' = IF "sync" \in made THEN "mysql" ELSE "mode"
  /\ UNCHANGED <<procVars, workVars, sigVars, seedVars>>

\* db_sync_init, 1: db_mysql_pool_connect_all.
ConnectMysql ==
  /\ MainAt("mysql")
  /\ \/ /\ Has("pool")
        /\ dbEnabled' = TRUE /\ pc' = "seed" /\ seeding' = "schema"
     \/ pc' = "worker" /\ UNCHANGED <<dbEnabled, seeding>>
  /\ UNCHANGED <<mode, starts, mem, workVars, sigVars, tables, at, broken>>

SeedDatabase ==
  /\ MainAt("seed")
  /\ Seed
  /\ pc' = IF seeding' \in {"skipped", "done"} THEN "worker" ELSE "seed"
  /\ UNCHANGED <<mem, procVars, workVars, sigVars>>

\* 2 to 4: db_redis_connect, which never stops the startup, and pthread_create; what
\* the warm-up does is DbSync's.
StartWorker ==
  /\ MainAt("worker")
  /\ worker' \in {"none", "idle"}
  /\ pc' = "mode"
  /\ UNCHANGED <<mem, procVars, queued, sent, stopping, sigVars, seedVars>>

-----------------------------------------------------------------------------
(* The three modes *)

ChooseMode ==
  /\ MainAt("mode")
  /\ pc' = CASE mode = "test" -> "test" [] mode = "demo" -> "wait" [] OTHER -> "create"
  /\ UNCHANGED <<mem, procVars, workVars, sigVars, seedVars>>

\* run_single_call, one of its two reports: db_sync_call_start, then db_sync_call_end; a
\* disabled database, or a missing worker or context, takes no task.
TestCall ==
  /\ MainAt("test") /\ sent < MaxTasks
  /\ sent' = sent + 1
  /\ queued' = IF Has("sync") /\ dbEnabled /\ worker # "none" THEN queued + 1 ELSE queued
  /\ UNCHANGED <<pc, mem, procVars, worker, stopping, sigVars, seedVars>>

\* The report of call_test_run reads sync->db_enabled without looking at sync.
EndTest ==
  /\ MainAt("test") /\ sent = MaxTasks
  /\ IF Has("sync") THEN pc' = "wait" /\ UNCHANGED mem
     ELSE pc' = "exited" /\ mem' = [o \in Objects |-> "none"]
  /\ UNCHANGED <<procVars, workVars, sigVars, seedVars>>

Waited ==
  /\ MainAt("wait") /\ ~keepRunning
  /\ pc' = "leave"
  /\ UNCHANGED <<mem, procVars, workVars, sigVars, seedVars>>

\* start_server_mode: el_create, or a fatal message.
CreateLoop ==
  /\ MainAt("create")
  /\ \/ Made("loop") /\ pc' = "start"
     \/ Fatal
  /\ UNCHANGED <<procVars, workVars, sigVars, seedVars>>

\* el_run: running is set here, whatever the handler did before.
EnterLoop ==
  /\ MainAt("start")
  /\ \/ running' = TRUE /\ pc' = "loop"
     \/ pc' = "leave" /\ UNCHANGED running
  /\ UNCHANGED <<mem, procVars, workVars, keepRunning, handler, on, signals, seedVars>>

\* The loop ends when el_stop was called, or when epoll_wait fails.
LoopStopped == MainAt("loop") /\ ~running
LoopFails == MainAt("loop") /\ running

LeaveLoop ==
  /\ LoopStopped \/ LoopFails
  /\ pc' = "leave"
  /\ UNCHANGED <<mem, procVars, workVars, sigVars, seedVars>>

-----------------------------------------------------------------------------
(* Shutdown *)

DestroyLoop ==
  /\ MainAt("leave")
  /\ mem' = [mem EXCEPT !["loop"] = IF @ = "live" THEN "dangling" ELSE @]
  /\ pc' = "forget"
  /\ UNCHANGED <<procVars, workVars, sigVars, seedVars>>

ForgetLoop ==
  /\ MainAt("forget")
  /\ Freed("loop")
  /\ pc' = "stop"
  /\ UNCHANGED <<procVars, workVars, sigVars, seedVars>>

\* shutdown_database: db_sync_destroy stops and joins the worker first.
Unasked == UNCHANGED stopping  \* faulty: pthread_join alone
Asked == stopping' = (worker # "none")

StopWorker ==
  /\ MainAt("stop")
  /\ Asked
  /\ pc' = "join"
  /\ UNCHANGED <<mem, procVars, worker, queued, sent, sigVars, seedVars>>

FreeUnjoined == pc' = "redis" /\ Freed("sync")  \* faulty: the worker may still run
FreeSync == worker \in {"none", "left"} /\ pc' = "redis" /\ Freed("sync")

JoinWorker ==
  /\ MainAt("join")
  /\ FreeSync
  /\ UNCHANGED <<procVars, workVars, sigVars, seedVars>>

FreedNext == [redis |-> "vmoff", pool |-> "vmoff", vmoff |-> "logoff", logoff |-> "stopped"] \* faulty
NextOff == [redis |-> "pool", pool |-> "vmoff", vmoff |-> "logoff", logoff |-> "stopped"]
Object == [redis |-> "redis", pool |-> "pool", vmoff |-> "vm", logoff |-> "log"]

\* db_redis_destroy, db_mysql_pool_destroy, lua_vm_destroy, logger_close.
FreeNext ==
  /\ \E label \in DOMAIN Object :
       /\ MainAt(label)
       /\ Freed(Object[label])
       /\ pc' = NextOff[label]
  /\ UNCHANGED <<procVars, workVars, sigVars, seedVars>>

Main ==
  \/ OpenLog \/ LoadScript \/ Exit \/ CreateDatabase \/ ConnectMysql \/ SeedDatabase
  \/ StartWorker \/ ChooseMode \/ TestCall \/ EndTest \/ Waited
  \/ CreateLoop \/ EnterLoop \/ LeaveLoop
  \/ DestroyLoop \/ ForgetLoop \/ StopWorker \/ JoinWorker \/ FreeNext

-----------------------------------------------------------------------------
(* The worker: it leaves when it is told to and nothing is queued.          *)

Take ==
  /\ WorkerAt("idle") /\ queued > 0
  /\ worker' = "busy" /\ queued' = queued - 1
  /\ UNCHANGED <<pc, mem, procVars, sent, stopping, sigVars, seedVars>>

Store ==
  /\ WorkerAt("busy")
  /\ worker' = "idle"
  /\ UNCHANGED <<pc, mem, procVars, queued, sent, stopping, sigVars, seedVars>>

LeaveAtOnce == stopping  \* faulty: what is queued is left
MayLeave == stopping /\ queued = 0

Leave ==
  /\ WorkerAt("idle") /\ MayLeave
  /\ worker' = "left"
  /\ UNCHANGED <<pc, mem, procVars, queued, sent, stopping, sigVars, seedVars>>

Worker == Take \/ Store \/ Leave

-----------------------------------------------------------------------------
(* signal_handler: keep_running, then g_event_loop, then el_stop.           *)

Signal ==
  /\ handler = "none" /\ pc \notin Ended /\ signals < MaxSignals
  /\ handler' = "entered" /\ keepRunning' = FALSE
  /\ on' \in {"main"} \cup {t \in {"worker"} : worker \in {"idle", "busy"}}
  /\ signals' = signals + 1
  /\ UNCHANGED <<pc, mem, procVars, workVars, running, seedVars>>

\* Faulty: the event loop is not told.
LookAway == handler' = "none"
LookAtLoop == handler' = IF Has("loop") THEN "stops" ELSE "none"

HandlerLooks ==
  /\ handler = "entered" /\ pc \notin Ended
  /\ LookAtLoop
  /\ UNCHANGED <<pc, mem, procVars, workVars, keepRunning, running, on, signals, seedVars>>

ElStop ==
  /\ handler = "stops" /\ pc \notin Ended
  /\ handler' = "none" /\ running' = FALSE
  /\ UNCHANGED <<pc, mem, procVars, workVars, keepRunning, on, signals, seedVars>>

Handler == HandlerLooks \/ ElStop

-----------------------------------------------------------------------------
\* The process is killed: what it holds is gone.
Killed ==
  /\ pc \notin Ended
  /\ pc' = "exited" /\ mem' = [o \in Objects |-> "none"]
  /\ worker' = "none" /\ handler' = "none" /\ queued' = 0
  /\ UNCHANGED <<procVars, sent, stopping, keepRunning, running, on, signals, seedVars>>

Restart ==
  /\ pc \in Ended /\ starts < MaxStarts
  /\ NewProcess
  /\ starts' = starts + 1
  /\ seeding' = "off" /\ at' = FirstBatch /\ broken' = FALSE
  /\ UNCHANGED tables

Next == Main \/ Worker \/ Signal \/ Handler \/ Killed \/ Restart

Spec == Init /\ [][Next]_vars

(* Threads run and a handler runs to its end; no signal is promised, and    *)
(* epoll_wait need not fail.                                                *)
FairSpec ==
  /\ Spec
  /\ WF_vars(Main /\ ~LoopFails) /\ WF_vars(Worker) /\ WF_vars(Handler)

-----------------------------------------------------------------------------
TypeOK ==
  /\ mode \in {"test", "demo", "server"}
  /\ pc \in {"log", "vm", "database", "mysql", "seed", "worker", "mode", "test",
             "wait", "create", "start", "loop", "leave", "forget", "stop", "join", "fatal"}
            \cup DOMAIN Object \cup Ended
  /\ mem \in [Objects -> {"none", "live", "dangling"}]
  /\ {dbEnabled, stopping, keepRunning, running} \subseteq BOOLEAN
  /\ worker \in {"none", "idle", "busy", "left"}
  /\ sent \in 0..MaxTasks /\ queued \in 0..sent
  /\ handler \in {"none", "entered", "stops"} /\ on \in {"main", "worker"}
  /\ signals \in 0..MaxSignals /\ starts \in 1..MaxStarts
  /\ SeedTypeOK

\* main.c, shutdown_database: the worker never touches a context or a pool that was
\* freed or never made, nor, unless a fatal message closed it, a closed log; the order
\* of the destructions is what keeps it so.
WorkerSafe ==
  /\ worker \in {"idle", "busy"} =>
       mem["sync"] = "live" /\ (mem["log"] = "live" \/ pc = "fatal")
  /\ worker = "busy" => mem["pool"] = "live"

\* main.c, "stopped gracefully": whatever was made is freed, and what was queued for
\* MySQL has been executed.
NothingLeft ==
  pc = "stopped" => queued = 0 /\ worker \in {"none", "left"} /\ \A o \in Objects : mem[o] = "none"

\* main.c, keep_running and el_stop: in the demo and test modes a signal at any moment,
\* during the startup too, leads to the end of the process, and so does a signal while
\* the event loop runs, on whichever thread it falls.
SignalHonoured ==
  (~keepRunning /\ mode # "server") \/ (pc = "loop" /\ handler = "entered") ~> pc \in Ended

-----------------------------------------------------------------------------
(* Statements that the code does not satisfy: TLC refutes each of them; no  *)
(* run is kept for them.                                                    *)

\* main.c, "Press Ctrl+C to shutdown": a signal before el_run sets running is lost, for
\* the server mode never reads keep_running.
ServerHonoursSignal == ~keepRunning /\ pc \notin Ended ~> pc \in Ended

\* signal_handler: el_stop is given an event loop that exists; it is not when the signal
\* falls between el_destroy and g_event_loop = NULL.
HandlerSafe == handler = "stops" => mem["loop"] = "live"

\* logger_write, "the log is written completely before the exit": nobody is left to log
\* once a fatal message has closed it; the worker is, when el_create fails.
LogOutlivesWorker == worker \in {"idle", "busy"} => mem["log"] = "live"

\* call_test_run: the report finds a db_sync context.
ReportSafe == pc = "test" => Has("sync")
=============================================================================
