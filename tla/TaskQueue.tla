----------------------------- MODULE TaskQueue -----------------------------
(***************************************************************************)
(* db_task_queue_t of db_sync.c: a singly linked list under a mutex and a  *)
(* condition variable, one producer (the SIP main thread) and one consumer *)
(* (db_sync_worker), and the shutdown protocol of db_sync_stop_worker.     *)
(*                                                                         *)
(* Each critical section of the mutex is one action; what a thread does    *)
(* outside of it (executing a task, the gap between the two critical       *)
(* sections of db_sync_stop_worker, pthread_join, queue_destroy) is a step *)
(* of its own.  A task's number stands for its data.  order, submitted,    *)
(* handled and lost are history: no guard reads them except the bound.     *)
(***************************************************************************)
EXTENDS Naturals, Sequences

CONSTANTS
  Nodes,          \* addresses calloc may return for a db_task_t
  NULL,           \* the null pointer
  MaxQueue,       \* DB_QUEUE_MAX_SIZE
  MaxSubmissions  \* bound on the tasks ever pushed

ASSUME NullAssumption == NULL \notin Nodes
ASSUME MaxQueueAssumption == MaxQueue \in Nat \ {0}
ASSUME MaxSubmissionsAssumption == MaxSubmissions \in Nat

VARIABLES
  head, tail, next, count, shutdown,  \* the fields of db_task_queue_t
  data,       \* data[n]: the number of the task stored at node n
  worker,     \* what the worker thread is about to do
  current,    \* the node queue_pop returned to the worker
  main,       \* where the main thread is in the context's lifecycle
  order,      \* history: the nodes of the list, oldest first
  submitted,  \* history: how many tasks were pushed
  handled,    \* history: the tasks the worker executed, in order
  lost        \* history: the tasks dropped by the overflow protection

queueVars == <<head, tail, next, count, data, order>>
vars == <<head, tail, next, count, shutdown, data, worker, current, main,
          order, submitted, handled, lost>>

Pointers == Nodes \cup {NULL}
InUse == {order[i] : i \in DOMAIN order} \cup {current}

Init ==
  /\ head = NULL
  /\ tail = NULL
  /\ next = [n \in Nodes |-> NULL]
  /\ count = 0
  /\ shutdown = FALSE
  /\ data = [n \in Nodes |-> 0]
  /\ worker = "none"
  /\ current = NULL
  /\ main = "created"
  /\ order = <<>>
  /\ submitted = 0
  /\ handled = <<>>
  /\ lost = {}

(* pthread_cond_signal: the worker, if it is waiting, returns from         *)
(* pthread_cond_wait and tests queue_pop's loop condition again.           *)
NoSignal == worker  \* faulty: the signal is forgotten
Woken == IF worker = "asleep" THEN "poll" ELSE worker

-----------------------------------------------------------------------------
(* The main thread *)

(* db_sync_init step 3: pthread_create succeeds, or fails and leaves       *)
(* worker_running at 0.                                                    *)
StartWorker ==
  /\ main = "created"
  /\ \/ main' = "running" /\ worker' = "poll"
     \/ main' = "workerless" /\ worker' = worker
  /\ UNCHANGED <<queueVars, shutdown, current, submitted, handled, lost>>

(* The overflow check of queue_push: the oldest node is unlinked and freed *)
(* when count has reached the maximum.                                     *)
OverflowingLate == count > MaxQueue /\ head # NULL  \* faulty: off by one
Overflowing == count >= MaxQueue /\ head # NULL

(* queue_push: drop the oldest when full, link the new node at the tail,   *)
(* signal the condition.  A signal wakes the worker if it is waiting.      *)
Push(n) ==
  LET rest  == IF Overflowing THEN Tail(order) ELSE order
      first == IF Overflowing THEN next[head] ELSE head
      last  == IF first = NULL THEN NULL ELSE tail
  IN /\ submitted < MaxSubmissions
     /\ n \in Nodes \ InUse
     /\ submitted' = submitted + 1
     /\ data' = [data EXCEPT ![n] = submitted + 1]
     /\ lost' = IF Overflowing THEN lost \cup {data[head]} ELSE lost
     /\ head' = IF last = NULL THEN n ELSE first
     /\ next' = IF last = NULL THEN [next EXCEPT ![n] = NULL]
                ELSE [next EXCEPT ![n] = NULL, ![last] = n]
     /\ tail' = n
     /\ count' = IF Overflowing THEN count ELSE count + 1
     /\ order' = Append(rest, n)
     /\ worker' = Woken
     /\ UNCHANGED <<shutdown, current, handled>>

(* The enqueueing half of db_sync_agent_status_change, _agent_online,      *)
(* _call_start and _call_end.  When calloc fails nothing is pushed and     *)
(* nothing changes.                                                        *)
Enqueue(n) ==
  /\ main = "running"
  /\ Push(n)
  /\ UNCHANGED main

(* db_sync_stop_worker, first critical section: the DB_TASK_SHUTDOWN task  *)
(* is pushed like any other, dropping the oldest when full; a failed       *)
(* calloc skips it.                                                        *)
StopPush ==
  /\ main = "running"
  /\ main' = "pilled"
  /\ \/ \E n \in Nodes : Push(n)
     \/ UNCHANGED <<queueVars, shutdown, worker, current, submitted, handled, lost>>

(* Second critical section: raise the flag and signal.                     *)
StopFlag ==
  /\ main = "pilled"
  /\ main' = "joining"
  /\ shutdown' = TRUE
  /\ worker' = Woken
  /\ UNCHANGED <<queueVars, current, submitted, handled, lost>>

(* pthread_join returns once the thread function has returned.             *)
StopJoin ==
  /\ main = "joining"
  /\ worker = "exited"
  /\ main' = "stopped"
  /\ UNCHANGED <<queueVars, shutdown, worker, current, submitted, handled, lost>>

(* queue_destroy: whatever is still linked is freed, unexecuted.  Without  *)
(* a worker db_sync_stop_worker returns at once.                           *)
Destroy ==
  /\ main \in {"stopped", "workerless"}
  /\ main' = "destroyed"
  /\ head' = NULL
  /\ tail' = NULL
  /\ count' = 0
  /\ order' = <<>>
  /\ UNCHANGED <<next, shutdown, data, worker, current, submitted, handled, lost>>

-----------------------------------------------------------------------------
(* The worker thread *)

(* queue_pop's loop condition holds: pthread_cond_wait releases the mutex. *)
Wait ==
  /\ worker = "poll"
  /\ head = NULL
  /\ ~shutdown
  /\ worker' = "asleep"
  /\ UNCHANGED <<queueVars, shutdown, current, main, submitted, handled, lost>>

(* A condition variable may wake its waiter without a signal.              *)
SpuriousWakeup ==
  /\ worker = "asleep"
  /\ worker' = "poll"
  /\ UNCHANGED <<queueVars, shutdown, current, main, submitted, handled, lost>>

(* The tail is reset when the last node is unlinked.                       *)
TailKept == tail  \* faulty: the reset is forgotten
TailAfterPop == IF next[head] = NULL THEN NULL ELSE tail

(* queue_pop unlinks the head; a raised shutdown flag does not stop it     *)
(* while tasks remain.                                                     *)
Pop ==
  /\ worker = "poll"
  /\ head # NULL
  /\ current' = head
  /\ head' = next[head]
  /\ tail' = TailAfterPop
  /\ count' = count - 1
  /\ order' = Tail(order)
  /\ worker' = "execute"
  /\ UNCHANGED <<next, data, shutdown, main, submitted, handled, lost>>

(* Faulty: the flag alone ends the worker.                                 *)
ExitAtOnce ==
  /\ worker = "poll"
  /\ shutdown
  /\ worker' = "exited"
  /\ UNCHANGED <<queueVars, shutdown, current, main, submitted, handled, lost>>

(* queue_pop returns NULL and the thread function returns.                 *)
Exit ==
  /\ worker = "poll"
  /\ head = NULL
  /\ shutdown
  /\ worker' = "exited"
  /\ UNCHANGED <<queueVars, shutdown, current, main, submitted, handled, lost>>

(* Faulty: the task is freed and kept, so that it runs again.              *)
ExecuteAgain ==
  /\ worker = "execute"
  /\ handled' = Append(handled, data[current])
  /\ worker' \in {"poll", "execute"}
  /\ current' = IF worker' = "poll" THEN NULL ELSE current
  /\ UNCHANGED <<queueVars, shutdown, main, submitted, lost>>

(* The switch of db_sync_worker and free(task): DbSync has its branches.   *)
Execute ==
  /\ worker = "execute"
  /\ handled' = Append(handled, data[current])
  /\ current' = NULL
  /\ worker' = "poll"
  /\ UNCHANGED <<queueVars, shutdown, main, submitted, lost>>

-----------------------------------------------------------------------------
Main == StartWorker \/ (\E n \in Nodes : Enqueue(n)) \/ StopPush \/ StopFlag
        \/ StopJoin \/ Destroy
Worker == Wait \/ Pop \/ Exit \/ Execute

Next == Main \/ Worker \/ SpuriousWakeup

Spec == Init /\ [][Next]_vars

(* The scheduler runs both threads.  The main thread is not obliged to     *)
(* submit or to stop, but finishes a stop once begun; spurious wakeups may *)
(* never happen.                                                           *)
Fairness ==
  /\ WF_vars(Worker)
  /\ WF_vars(StopFlag)
  /\ WF_vars(StopJoin)
  /\ WF_vars(Destroy)

FairSpec == Spec /\ Fairness

-----------------------------------------------------------------------------
(* The refinement mapping: the list is the sequence of its tasks.          *)
Pending == [i \in 1..Len(order) |-> data[order[i]]]
InHand == IF current = NULL THEN 0 ELSE data[current]

Fifo == INSTANCE LossyFifo WITH
  Capacity <- MaxQueue,
  pending  <- Pending,
  inHand   <- InHand,
  closed   <- (main = "destroyed")

(* The linked list under the mutex implements the abstract FIFO of         *)
(* LossyFifo: the db_sync.c header's "drops the oldest task when full".    *)
ImplementsLossyFifo == Fifo!Spec

-----------------------------------------------------------------------------
TypeOK ==
  /\ head \in Pointers /\ tail \in Pointers /\ current \in Pointers
  /\ next \in [Nodes -> Pointers]
  /\ count \in 0..MaxQueue
  /\ shutdown \in BOOLEAN
  /\ data \in [Nodes -> Nat]
  /\ worker \in {"none", "poll", "asleep", "execute", "exited"}
  /\ main \in {"created", "running", "workerless", "pilled", "joining",
               "stopped", "destroyed"}
  /\ order \in Seq(Nodes)
  /\ submitted \in Nat
  /\ handled \in Seq(Nat)
  /\ lost \in SUBSET Nat

(* The pointers and the counter of queue_push and queue_pop always         *)
(* describe one NULL-terminated list of distinct nodes, never longer than  *)
(* DB_QUEUE_MAX_SIZE, which the worker's node in hand has left.            *)
ListShape ==
  /\ count = Len(order)
  /\ head = IF order = <<>> THEN NULL ELSE order[1]
  /\ tail = IF order = <<>> THEN NULL ELSE order[Len(order)]
  /\ order # <<>> => next[order[Len(order)]] = NULL
  /\ \A i \in 1..(Len(order) - 1) : next[order[i]] = order[i + 1]
  /\ \A i, j \in 1..Len(order) : order[i] = order[j] => i = j
  /\ \A i \in 1..Len(order) : order[i] # current

(* A worker asleep in pthread_cond_wait has nothing to do: no push and no  *)
(* stop happened between its test and its sleep without waking it.         *)
NoLostWakeup == worker = "asleep" => head = NULL /\ ~shutdown

(* Tasks are executed in the order of their submission and none twice,     *)
(* whatever the overflow protection dropped in between: an UPDATE never    *)
(* overtakes the INSERT it needs.                                          *)
InOrderAtMostOnce ==
  /\ \A i, j \in DOMAIN handled : i < j => handled[i] < handled[j]
  /\ \A i \in DOMAIN handled : handled[i] \notin lost

(* A stopped and destroyed context has discarded no task: each one pushed  *)
(* before db_sync_stop_worker was executed unless an overflow dropped it.  *)
StopDrains ==
  main = "destroyed" => {handled[i] : i \in DOMAIN handled} \cup lost = 1..submitted

(* Every task pushed is executed or dropped in the end, without help from  *)
(* later pushes.                                                           *)
TasksSettle ==
  \A t \in 1..MaxSubmissions :
    submitted >= t ~> t \in lost \/ \E i \in DOMAIN handled : handled[i] = t
=============================================================================
