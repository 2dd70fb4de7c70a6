-------------------------- MODULE LifecycleProofs --------------------------
(* Proofs about Lifecycle, for any number of tasks, signals and starts and  *)
(* any table of departments.  The inductive invariant says, for each stage  *)
(* of main.c, which objects are there and what the worker may be doing; it  *)
(* rests on the order of shutdown_database: the worker is joined before     *)
(* anything it uses is freed.                                               *)
EXTENDS Lifecycle, SeedingProofs

StartLabels == {"log", "vm", "database", "mysql", "seed", "worker"}
WorkLabels ==
  {"mode", "test", "wait", "create", "start", "loop", "leave", "forget", "stop", "join"}
FreeLabels == {"redis", "pool", "vmoff", "logoff", "stopped"}

WorkerStages ==
  /\ pc \in StartLabels => worker = "none" /\ queued = 0
  /\ pc \in StartLabels \cup WorkLabels /\ pc # "join" => ~stopping
  /\ pc \in FreeLabels => worker \in {"none", "left"} /\ queued = 0
  /\ pc = "exited" => worker \notin {"idle", "busy"}
  /\ worker = "left" => stopping /\ queued = 0
  /\ (queued > 0 \/ worker = "busy") /\ pc \notin Ended => dbEnabled /\ worker # "none"

Kept ==
  /\ pc \in (StartLabels \cup WorkLabels) \ {"log"} => mem["log"] = "live"
  /\ pc \in {"mysql", "seed", "worker"} => mem["sync"] = "live"
  /\ pc \in {"seed", "worker", "fatal"} \cup WorkLabels /\ dbEnabled => mem["pool"] = "live"
  /\ pc \in StartLabels \ {"seed", "worker"} => ~dbEnabled
  /\ worker \in {"idle", "busy"} => mem["sync"] = "live"
  /\ \A o \in Objects : mem[o] = "dangling" => o = "loop" /\ pc = "forget"

Released ==
  /\ pc \notin {"start", "loop", "leave", "forget"} => mem["loop"] = "none"
  /\ pc \in FreeLabels => mem["sync"] = "none"
  /\ pc \in FreeLabels \ {"redis"} => mem["redis"] = "none"
  /\ pc \in {"vmoff", "logoff", "stopped"} => mem["pool"] = "none"
  /\ pc \in {"logoff", "stopped"} => mem["vm"] = "none"
  /\ pc = "stopped" => mem["log"] = "none"

LInv == TypeOK /\ WorkerStages /\ Kept /\ Released /\ SInv

-----------------------------------------------------------------------------
(* Two tasks for each call of the test.                                     *)
LEMMA TasksCounted == MaxTasks \in Nat
BY LifecycleAssumption DEF MaxTasks

(* The first process starts with nothing.                                   *)
LEMMA InitLInv == Init => LInv
<1> SUFFICES ASSUME Init PROVE LInv
  OBVIOUS
<1>1. SInv
  BY InitSInv DEF Init
<1>2. TypeOK
  <2>1. 0 \in 0..MaxSignals /\ 0 \in 0..MaxTasks /\ 1 \in 1..MaxStarts
    BY LifecycleAssumption, TasksCounted
  <2>2. mem \in [Objects -> {"none", "live", "dangling"}]
    BY DEF Init
  <2>3. sent \in 0..MaxTasks /\ queued \in 0..sent
    BY <2>1 DEF Init
  <2>4. SeedTypeOK
    BY <1>1 DEF SInv
  <2>5. QED
    BY <2>1, <2>2, <2>3, <2>4 DEF Init, TypeOK
<1>3. WorkerStages /\ Kept /\ Released
  BY DEF Init, WorkerStages, Kept, Released, StartLabels, WorkLabels, FreeLabels, Objects, Ended
<1>4. QED
  BY <1>1, <1>2, <1>3 DEF LInv

(* The steps that leave the seeding alone.                                  *)
LEMMA SameSeeding ==
  ASSUME SInv, UNCHANGED seedVars
  PROVE  SInv'
BY DEF SInv, seedVars, tables, SeedTypeOK, Whole, AtStart, Before, Filled, SeedCompletes, Complete

(* Startup, up to the worker thread.                                        *)
LEMMA StartLInv ==
  ASSUME LInv,
         OpenLog \/ LoadScript \/ CreateDatabase \/ ConnectMysql \/ SeedDatabase \/ StartWorker
  PROVE  LInv'
<1> USE DEF LInv, procVars, workVars, sigVars, MainAt, Made, Freed, Has, Fatal, Objects, Ended,
        StartLabels, WorkLabels, FreeLabels
<1>1. CASE OpenLog
  <2>1. SInv'
    BY <1>1, SameSeeding DEF OpenLog
  <2>2. TypeOK'
    BY <1>1, <2>1 DEF OpenLog, TypeOK, SInv, Object
  <2>3. WorkerStages' /\ Kept' /\ Released'
    BY <1>1 DEF OpenLog, TypeOK, WorkerStages, Kept, Released
  <2>4. QED
    BY <2>1, <2>2, <2>3
<1>2. CASE LoadScript
  <2>1. SInv'
    BY <1>2, SameSeeding DEF LoadScript
  <2>2. TypeOK'
    BY <1>2, <2>1 DEF LoadScript, TypeOK, SInv, Object
  <2>3. WorkerStages' /\ Kept' /\ Released'
    BY <1>2 DEF LoadScript, TypeOK, WorkerStages, Kept, Released
  <2>4. QED
    BY <2>1, <2>2, <2>3
<1>3. CASE CreateDatabase
  <2>1. SInv'
    BY <1>3, SameSeeding DEF CreateDatabase
  <2>2. TypeOK'
    BY <1>3, <2>1 DEF CreateDatabase, TypeOK, SInv, Object
  <2>3. WorkerStages' /\ Kept' /\ Released'
    BY <1>3 DEF CreateDatabase, TypeOK, WorkerStages, Kept, Released
  <2>4. QED
    BY <2>1, <2>2, <2>3
<1>4. CASE ConnectMysql
  <2>1. SInv'
    BY <1>4 DEF ConnectMysql, tables, SInv, SeedTypeOK, Whole, AtStart, Before, Filled,
       SeedCompletes, Complete
  <2>2. TypeOK'
    BY <1>4, <2>1 DEF ConnectMysql, TypeOK, SInv, Object
  <2>3. WorkerStages' /\ Kept' /\ Released'
    BY <1>4 DEF ConnectMysql, TypeOK, WorkerStages, Kept, Released
  <2>4. QED
    BY <2>1, <2>2, <2>3
<1>5. CASE SeedDatabase
  <2>1. SInv'
    BY <1>5, SeedSInv DEF SeedDatabase
  <2>2. TypeOK'
    BY <1>5, <2>1 DEF SeedDatabase, TypeOK, SInv, Object
  <2>3. WorkerStages' /\ Kept' /\ Released'
    BY <1>5 DEF SeedDatabase, TypeOK, WorkerStages, Kept, Released
  <2>4. QED
    BY <2>1, <2>2, <2>3
<1>6. CASE StartWorker
  <2>1. SInv'
    BY <1>6, SameSeeding DEF StartWorker
  <2>2. TypeOK'
    BY <1>6, <2>1 DEF StartWorker, TypeOK, SInv, Object
  <2>3. WorkerStages' /\ Kept' /\ Released'
    BY <1>6 DEF StartWorker, TypeOK, WorkerStages, Kept, Released
  <2>4. QED
    BY <2>1, <2>2, <2>3
<1>7. QED
  BY <1>1, <1>2, <1>3, <1>4, <1>5, <1>6

(* The three modes, until main leaves them.                                 *)
LEMMA ModeLInv ==
  ASSUME LInv,
         ChooseMode \/ TestCall \/ EndTest \/ Waited \/ CreateLoop \/ EnterLoop \/
         LeaveLoop \/ Exit
  PROVE  LInv'
<1> USE DEF LInv, procVars, workVars, sigVars, MainAt, WorkerAt, Made, Freed, Has, Fatal,
        Objects, Ended, StartLabels, WorkLabels, FreeLabels
<1>0. SInv'
  BY SameSeeding DEF ChooseMode, TestCall, EndTest, Waited, CreateLoop, EnterLoop, LeaveLoop, Exit
<1>1. CASE ChooseMode
  <2>1. TypeOK'
    BY <1>0, <1>1 DEF ChooseMode, TypeOK, SInv, Object
  <2>2. WorkerStages' /\ Kept' /\ Released'
    BY <1>1 DEF ChooseMode, TypeOK, WorkerStages, Kept, Released
  <2>3. QED
    BY <1>0, <2>1, <2>2
<1>2. CASE TestCall
  <2>1. TypeOK'
    <3>1. sent' \in 0..MaxTasks /\ queued' \in 0..sent'
      BY <1>2, TasksCounted DEF TestCall, TypeOK
    <3>2. QED
      BY <1>0, <1>2, <3>1 DEF TestCall, TypeOK, SInv, Object
  <2>2. WorkerStages' /\ Kept' /\ Released'
    BY <1>2 DEF TestCall, TypeOK, WorkerStages, Kept, Released
  <2>3. QED
    BY <1>0, <2>1, <2>2
<1>3. CASE EndTest
  <2>1. TypeOK'
    BY <1>0, <1>3 DEF EndTest, TypeOK, SInv, Object
  <2>2. WorkerStages' /\ Kept' /\ Released'
    BY <1>3 DEF EndTest, TypeOK, WorkerStages, Kept, Released
  <2>3. QED
    BY <1>0, <2>1, <2>2
<1>4. CASE Waited
  <2>1. TypeOK'
    BY <1>0, <1>4 DEF Waited, TypeOK, SInv, Object
  <2>2. WorkerStages' /\ Kept' /\ Released'
    BY <1>4 DEF Waited, TypeOK, WorkerStages, Kept, Released
  <2>3. QED
    BY <1>0, <2>1, <2>2
<1>5. CASE CreateLoop
  <2>1. TypeOK'
    BY <1>0, <1>5 DEF CreateLoop, TypeOK, SInv, Object
  <2>2. WorkerStages' /\ Kept' /\ Released'
    BY <1>5 DEF CreateLoop, TypeOK, WorkerStages, Kept, Released
  <2>3. QED
    BY <1>0, <2>1, <2>2
<1>6. CASE EnterLoop
  <2>1. TypeOK'
    BY <1>0, <1>6 DEF EnterLoop, TypeOK, SInv, Object
  <2>2. WorkerStages' /\ Kept' /\ Released'
    BY <1>6 DEF EnterLoop, TypeOK, WorkerStages, Kept, Released
  <2>3. QED
    BY <1>0, <2>1, <2>2
<1>7. CASE LeaveLoop
  <2>1. TypeOK'
    BY <1>0, <1>7 DEF LeaveLoop, LoopStopped, LoopFails, TypeOK, SInv, Object
  <2>2. WorkerStages' /\ Kept' /\ Released'
    BY <1>7 DEF LeaveLoop, LoopStopped, LoopFails, TypeOK, WorkerStages, Kept, Released
  <2>3. QED
    BY <1>0, <2>1, <2>2
<1>8. CASE Exit
  <2>1. TypeOK'
    BY <1>0, <1>8 DEF Exit, TypeOK, SInv, Object
  <2>2. WorkerStages' /\ Kept' /\ Released'
    BY <1>8 DEF Exit, TypeOK, WorkerStages, Kept, Released
  <2>3. QED
    BY <1>0, <2>1, <2>2
<1>9. QED
  BY <1>1, <1>2, <1>3, <1>4, <1>5, <1>6, <1>7, <1>8

(* Shutdown: nothing the worker uses goes before it has left.               *)
LEMMA ShutdownLInv ==
  ASSUME LInv,
         DestroyLoop \/ ForgetLoop \/ StopWorker \/ JoinWorker \/ FreeNext
  PROVE  LInv'
<1> USE DEF LInv, procVars, workVars, sigVars, MainAt, WorkerAt, Made, Freed, Has, Fatal,
        Objects, Ended, StartLabels, WorkLabels, FreeLabels
<1>0. SInv'
  BY SameSeeding DEF DestroyLoop, ForgetLoop, StopWorker, JoinWorker, FreeNext
<1>1. CASE DestroyLoop
  <2>1. TypeOK'
    BY <1>0, <1>1 DEF DestroyLoop, TypeOK, SInv, Object
  <2>2. WorkerStages' /\ Kept' /\ Released'
    BY <1>1 DEF DestroyLoop, TypeOK, WorkerStages, Kept, Released
  <2>3. QED
    BY <1>0, <2>1, <2>2
<1>2. CASE ForgetLoop
  <2>1. TypeOK'
    BY <1>0, <1>2 DEF ForgetLoop, TypeOK, SInv, Object
  <2>2. WorkerStages' /\ Kept' /\ Released'
    BY <1>2 DEF ForgetLoop, TypeOK, WorkerStages, Kept, Released
  <2>3. QED
    BY <1>0, <2>1, <2>2
<1>3. CASE StopWorker
  <2>1. TypeOK'
    BY <1>0, <1>3 DEF StopWorker, Asked, TypeOK, SInv, Object
  <2>2. WorkerStages' /\ Kept' /\ Released'
    BY <1>3 DEF StopWorker, Asked, TypeOK, WorkerStages, Kept, Released
  <2>3. QED
    BY <1>0, <2>1, <2>2
<1>4. CASE JoinWorker
  <2>1. TypeOK'
    BY <1>0, <1>4 DEF JoinWorker, FreeSync, TypeOK, SInv, Object
  <2>2. WorkerStages' /\ Kept' /\ Released'
    BY <1>4 DEF JoinWorker, FreeSync, TypeOK, WorkerStages, Kept, Released
  <2>3. QED
    BY <1>0, <2>1, <2>2
<1>5. CASE FreeNext
  <2>1. TypeOK'
    BY <1>0, <1>5 DEF FreeNext, Object, NextOff, TypeOK, SInv, Object
  <2>2. WorkerStages' /\ Kept' /\ Released'
    BY <1>5 DEF FreeNext, Object, NextOff, TypeOK, WorkerStages, Kept, Released
  <2>3. QED
    BY <1>0, <2>1, <2>2
<1>6. QED
  BY <1>1, <1>2, <1>3, <1>4, <1>5

(* The worker, the signal handler, and the death of the process.            *)
LEMMA BesideLInv ==
  ASSUME LInv,
         Take \/ Store \/ Leave \/ Signal \/ HandlerLooks \/ ElStop \/ Killed
  PROVE  LInv'
<1> USE DEF LInv, procVars, workVars, sigVars, MainAt, WorkerAt, Made, Freed, Has, Fatal,
        Objects, Ended, StartLabels, WorkLabels, FreeLabels
<1>0. SInv'
  BY SameSeeding DEF Take, Store, Leave, Signal, HandlerLooks, ElStop, Killed
<1>1. CASE Take
  <2>1. TypeOK'
    BY <1>0, <1>1 DEF Take, TypeOK, SInv, Object
  <2>2. WorkerStages' /\ Kept' /\ Released'
    BY <1>1 DEF Take, TypeOK, WorkerStages, Kept, Released
  <2>3. QED
    BY <1>0, <2>1, <2>2
<1>2. CASE Store
  <2>1. TypeOK'
    BY <1>0, <1>2 DEF Store, TypeOK, SInv, Object
  <2>2. WorkerStages' /\ Kept' /\ Released'
    BY <1>2 DEF Store, TypeOK, WorkerStages, Kept, Released
  <2>3. QED
    BY <1>0, <2>1, <2>2
<1>3. CASE Leave
  <2>1. TypeOK'
    BY <1>0, <1>3 DEF Leave, MayLeave, TypeOK, SInv, Object
  <2>2. WorkerStages' /\ Kept' /\ Released'
    BY <1>3 DEF Leave, MayLeave, TypeOK, WorkerStages, Kept, Released
  <2>3. QED
    BY <1>0, <2>1, <2>2
<1>4. CASE Signal
  <2>1. TypeOK'
    <3>1. signals' \in 0..MaxSignals /\ on' \in {"main", "worker"}
      BY <1>4, LifecycleAssumption DEF Signal, TypeOK
    <3>2. {dbEnabled', stopping', keepRunning', running'} \subseteq BOOLEAN
      BY <1>4 DEF Signal, TypeOK
    <3>3. QED
      BY <1>0, <1>4, <3>1, <3>2 DEF Signal, TypeOK, SInv, Object
  <2>2. WorkerStages' /\ Kept' /\ Released'
    BY <1>4 DEF Signal, TypeOK, WorkerStages, Kept, Released
  <2>3. QED
    BY <1>0, <2>1, <2>2
<1>5. CASE HandlerLooks
  <2>1. TypeOK'
    BY <1>0, <1>5 DEF HandlerLooks, LookAtLoop, TypeOK, SInv, Object
  <2>2. WorkerStages' /\ Kept' /\ Released'
    BY <1>5 DEF HandlerLooks, LookAtLoop, TypeOK, WorkerStages, Kept, Released
  <2>3. QED
    BY <1>0, <2>1, <2>2
<1>6. CASE ElStop
  <2>1. TypeOK'
    BY <1>0, <1>6 DEF ElStop, TypeOK, SInv, Object
  <2>2. WorkerStages' /\ Kept' /\ Released'
    BY <1>6 DEF ElStop, TypeOK, WorkerStages, Kept, Released
  <2>3. QED
    BY <1>0, <2>1, <2>2
<1>7. CASE Killed
  <2>1. TypeOK'
    BY <1>0, <1>7 DEF Killed, TypeOK, SInv, Object
  <2>2. WorkerStages' /\ Kept' /\ Released'
    BY <1>7 DEF Killed, TypeOK, WorkerStages, Kept, Released
  <2>3. QED
    BY <1>0, <2>1, <2>2
<1>8. QED
  BY <1>1, <1>2, <1>3, <1>4, <1>5, <1>6, <1>7

(* A new process finds the rows of the old one, and nothing else.           *)
LEMMA RestartLInv ==
  ASSUME LInv, Restart
  PROVE  LInv'
<1>1. SInv'
  BY RestartSInv DEF Restart, LInv
<1>2. /\ pc' = "log" /\ mem' = [o \in Objects |-> "none"] /\ worker' = "none"
      /\ queued' = 0 /\ sent' = 0 /\ stopping' = FALSE /\ dbEnabled' = FALSE
      /\ keepRunning' = TRUE /\ running' = FALSE /\ handler' = "none" /\ on' = "main"
      /\ signals' = 0 /\ starts' = starts + 1 /\ starts < MaxStarts
      /\ mode' \in {"test", "demo", "server"}
  BY DEF Restart, NewProcess
<1>3. TypeOK'
  <2>1. 0 \in 0..MaxSignals /\ 0 \in 0..MaxTasks /\ starts' \in 1..MaxStarts
    BY <1>2, LifecycleAssumption, TasksCounted DEF LInv, TypeOK
  <2>2. mem' \in [Objects -> {"none", "live", "dangling"}]
    BY <1>2
  <2>3. sent' \in 0..MaxTasks /\ queued' \in 0..sent'
    BY <1>2, <2>1
  <2>4. SeedTypeOK'
    BY <1>1 DEF SInv
  <2>5. QED
    BY <1>2, <2>1, <2>2, <2>3, <2>4 DEF TypeOK
<1>4. WorkerStages' /\ Kept' /\ Released'
  BY <1>2 DEF WorkerStages, Kept, Released, StartLabels, WorkLabels, FreeLabels, Objects, Ended
<1>5. QED
  BY <1>1, <1>3, <1>4 DEF LInv

(* Every step keeps the inductive invariant.                                *)
LEMMA NextLInv == LInv /\ [Next]_vars => LInv'
<1> SUFFICES ASSUME LInv, [Next]_vars PROVE LInv'
  OBVIOUS
<1>1. CASE UNCHANGED vars
  <2>1. SInv'
    BY <1>1, SameSeeding DEF vars, LInv
  <2>2. TypeOK'
    BY <1>1, <2>1 DEF vars, procVars, workVars, sigVars, LInv, TypeOK, SInv
  <2>3. WorkerStages' /\ Kept' /\ Released'
    BY <1>1 DEF vars, procVars, workVars, sigVars, LInv, WorkerStages, Kept, Released
  <2>4. QED
    BY <2>1, <2>2, <2>3 DEF LInv
<1>2. QED
  BY <1>1, StartLInv, ModeLInv, ShutdownLInv, BesideLInv, RestartLInv
  DEF Next, Main, Worker, Handler

(* The inductive invariant holds in every state of the program.             *)
THEOREM LifecycleInvariance == Spec => []LInv
  BY InitLInv, NextLInv, PTL DEF Spec

(* The stages of main.c, and the bounds of the seeding's loops.             *)
THEOREM TypesKept == Spec => []TypeOK
<1>1. LInv => TypeOK
  BY DEF LInv
<1>2. QED
  BY <1>1, LifecycleInvariance, PTL

(* shutdown_database: the worker is gone before what it uses is freed,      *)
(* wherever the startup failed and whenever a signal came.                  *)
THEOREM WorkerKeptSafe == Spec => []WorkerSafe
<1>1. LInv => WorkerSafe
  BY DEF LInv, TypeOK, WorkerStages, Kept, WorkerSafe, StartLabels, WorkLabels, FreeLabels,
     Ended, Object
<1>2. QED
  BY <1>1, LifecycleInvariance, PTL

(* main: a graceful stop has freed everything and executed every task.      *)
THEOREM GracefulStop == Spec => []NothingLeft
<1>1. LInv => NothingLeft
  BY DEF LInv, WorkerStages, Released, NothingLeft, FreeLabels, Objects
<1>2. QED
  BY <1>1, LifecycleInvariance, PTL

(* db_sync_seed_demo_data: a seeding that ran to its end over unbroken      *)
(* connections leaves every row in place, whatever the starts before it     *)
(* left, for any departments and any size of a batch.                       *)
THEOREM SeedingComplete == Spec => []SeedCompletes
<1>1. LInv => SeedCompletes
  BY DEF LInv, SInv
<1>2. QED
  BY <1>1, LifecycleInvariance, PTL
==============================================================================
