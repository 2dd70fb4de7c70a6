----------------------------- MODULE MysqlPool -----------------------------
(***************************************************************************)
(* The MySQL connection pool of db_mysql.c: db_mysql_pool_borrow and       *)
(* db_mysql_pool_return under pool_lock and pool_cond, and the lazy        *)
(* reconnection pool_try_reconnect / slot_connect, which runs WITHOUT      *)
(* pool_lock.  A critical section that nothing unlocked can interrupt is   *)
(* one action; every unlocked access to a shared field is a step of its    *)
(* own, and so is the gap between the scan of a borrower and its sleep.    *)
(*                                                                         *)
(* A handle is known by the slot it was borrowed from, as long as nobody   *)
(* closes it.  A thread whose handle was closed is dangling: what it gives *)
(* back is a pointer that stands in no slot any more, or in one whose new  *)
(* handle mysql_init put at the same address.  Time: since is the seconds  *)
(* since the last reconnection attempt, counted up to MaxBackoff; a        *)
(* borrower's deadline passes at any moment.                               *)
(***************************************************************************)
EXTENDS Naturals, FiniteSets

CONSTANTS
  Threads,     \* the callers of db_mysql_execute and db_mysql_query
  None,        \* nobody holds pool_lock
  PoolSize,    \* pool_size
  MaxBackoff,  \* DB_RECONNECT_MAX_SEC
  StartSets    \* the sets of slots db_mysql_pool_connect_all may connect

Slots == 1..PoolSize

ASSUME ThreadsAssumption == IsFiniteSet(Threads) /\ None \notin Threads
ASSUME PoolSizeAssumption == PoolSize \in Nat \ {0}
ASSUME MaxBackoffAssumption == MaxBackoff \in Nat \ {0}
ASSUME StartAssumption == StartSets \subseteq (SUBSET Slots) \ {{}}

VARIABLES
  conn,          \* conn[i]: the handle: "null", "open", "broken" (the server
                 \*   closed it) or "reported" (and a query failed on it)
  connected,     \* slots[i].connected
  inUse,         \* slots[i].in_use
  activeCount,   \* active_count
  reconnecting,  \* reconnecting
  backoff,       \* reconnect_backoff_secs
  since,         \* now - last_reconnect_attempt, up to MaxBackoff
  lock,          \* who holds pool_lock across two steps
  pc,            \* where each thread is
  held,          \* held[t]: the slot whose handle t borrowed, or 0
  dangling,      \* the threads whose borrowed handle was closed
  idx, ok,       \* the locals of pool_try_reconnect
  expired        \* expired[t]: t's borrow deadline has passed

slotVars == <<conn, connected, inUse>>
poolVars == <<activeCount, reconnecting, backoff, since>>
localVars == <<held, dangling, idx, ok, expired>>
vars == <<slotVars, poolVars, lock, pc, localVars>>

(* db_mysql_pool_create and db_mysql_pool_connect_all, before any other    *)
(* thread runs.  With no slot at all db_sync keeps MySQL disabled and      *)
(* nobody borrows.                                                         *)
Init ==
  /\ connected \in {[i \in Slots |-> i \in S] : S \in StartSets}
  /\ conn = [i \in Slots |-> IF connected[i] THEN "open" ELSE "null"]
  /\ inUse = [i \in Slots |-> FALSE]
  /\ activeCount = Cardinality({i \in Slots : connected[i]})
  /\ reconnecting = FALSE
  /\ backoff = 1
  /\ since = MaxBackoff
  /\ lock = None
  /\ pc = [t \in Threads |-> "idle"]
  /\ held = [t \in Threads |-> 0]
  /\ dangling = {}
  /\ idx = [t \in Threads |-> 1]
  /\ ok = [t \in Threads |-> 0]
  /\ expired = [t \in Threads |-> FALSE]

Goto(t, label) == pc' = [pc EXCEPT ![t] = label]

(* pthread_cond_broadcast: every waiter will scan again.                   *)
WakeAll(p) == [t \in Threads |-> IF p[t] = "waiting" THEN "scan" ELSE p[t]]

FreeUnmarked == {i \in Slots : connected[i]}  \* faulty: in_use is not tested
Free == {i \in Slots : ~inUse[i] /\ connected[i]}

-----------------------------------------------------------------------------
(* db_mysql_pool_borrow *)

Borrow(t) ==
  /\ pc[t] = "idle"
  /\ Goto(t, "scan")
  /\ expired' = [expired EXCEPT ![t] = FALSE]
  /\ UNCHANGED <<slotVars, poolVars, lock, held, dangling, idx, ok>>

(* The scan finds a slot: the first one is taken.                          *)
Take(t) ==
  /\ pc[t] = "scan" /\ lock = None
  /\ \E i \in Free :
       /\ \A j \in Free : i <= j
       /\ inUse' = [inUse EXCEPT ![i] = TRUE]
       /\ held' = [held EXCEPT ![t] = i]
  /\ Goto(t, "query")
  /\ UNCHANGED <<conn, connected, poolVars, lock, dangling, idx, ok, expired>>

Reconnectable == activeCount < PoolSize /\ ~reconnecting

(* Nothing free, some slot unconnected: unlock and try to reconnect.  The  *)
(* deadline is not looked at.                                              *)
GoReconnect(t) ==
  /\ pc[t] = "scan" /\ lock = None
  /\ Free = {} /\ Reconnectable
  /\ Goto(t, "try")
  /\ UNCHANGED <<slotVars, poolVars, lock, localVars>>

(* Nothing free, nothing to reconnect: on to pthread_cond_timedwait, with  *)
(* the lock held until it sleeps.                                          *)
GoWait(t) ==
  /\ pc[t] = "scan" /\ lock = None
  /\ Free = {} /\ ~Reconnectable
  /\ lock' = t
  /\ Goto(t, "sleep")
  /\ UNCHANGED <<slotVars, poolVars, localVars>>

Sleep(t) ==
  /\ pc[t] = "sleep"
  /\ lock' = None
  /\ Goto(t, "waiting")
  /\ UNCHANGED <<slotVars, poolVars, localVars>>

SpuriousWakeup(t) ==
  /\ pc[t] = "waiting"
  /\ Goto(t, "scan")
  /\ UNCHANGED <<slotVars, poolVars, lock, localVars>>

(* Faulty: an untimed wait.                                                *)
NoTimeOut(t) == FALSE /\ UNCHANGED vars

(* Faulty: any wakeup passes for a time-out.                               *)
TimeOutEarly(t) ==
  /\ pc[t] = "waiting" /\ lock = None
  /\ Goto(t, "idle")
  /\ UNCHANGED <<slotVars, poolVars, lock, localVars>>

(* ETIMEDOUT: borrow returns NULL, without another scan.                   *)
TimeOut(t) ==
  /\ pc[t] = "waiting" /\ expired[t] /\ lock = None
  /\ Goto(t, "idle")
  /\ UNCHANGED <<slotVars, poolVars, lock, localVars>>

-----------------------------------------------------------------------------
(* db_mysql_execute, db_mysql_query and db_mysql_pool_return *)

(* mysql_real_query fails on a connection the server closed; the pool is   *)
(* not told.                                                               *)
Query(t) ==
  /\ pc[t] = "query"
  /\ Goto(t, "return")
  /\ conn' = [conn EXCEPT ![held[t]] = IF @ = "broken" THEN "reported" ELSE @]
  /\ UNCHANGED <<connected, inUse, poolVars, lock, localVars>>

(* The slot whose conn is the pointer given back becomes free: the one it  *)
(* was borrowed from or, if that handle was closed, none, or any whose     *)
(* handle has the same address.                                            *)
NotReleased(t) == {inUse}  \* faulty: the slot stays marked
Released(t) ==
  IF t \in dangling
  THEN {inUse} \cup {[inUse EXCEPT ![i] = FALSE] : i \in {j \in Slots : conn[j] # "null"}}
  ELSE {[inUse EXCEPT ![held[t]] = FALSE]}

Waiters == {u \in Threads : pc[u] = "waiting"}

(* pthread_cond_signal wakes one waiter, if there is one; a waiter whose   *)
(* time is over may swallow the signal, as POSIX allows, and leaves        *)
(* without another scan (TimeOut).                                         *)
Return(t) ==
  /\ pc[t] = "return" /\ lock = None
  /\ inUse' \in Released(t)
  /\ held' = [held EXCEPT ![t] = 0]
  /\ dangling' = dangling \ {t}
  /\ \/ /\ Waiters = {} \/ \E u \in Waiters : expired[u]
        /\ Goto(t, "idle")
     \/ \E u \in Waiters : pc' = [pc EXCEPT ![t] = "idle", ![u] = "scan"]
  /\ UNCHANGED <<conn, connected, poolVars, lock, idx, ok, expired>>

-----------------------------------------------------------------------------
(* pool_try_reconnect and slot_connect, without the lock *)

(* The flag and the backoff are read here ...                              *)
Check(t) ==
  /\ pc[t] = "try"
  /\ Goto(t, IF reconnecting \/ since < backoff THEN "scan" ELSE "claim")
  /\ UNCHANGED <<slotVars, poolVars, lock, localVars>>

(* ... and the flag is set here.                                           *)
Claim(t) ==
  /\ pc[t] = "claim"
  /\ reconnecting' = TRUE
  /\ since' = 0
  /\ idx' = [idx EXCEPT ![t] = 1]
  /\ ok' = [ok EXCEPT ![t] = 0]
  /\ Goto(t, "slot")
  /\ UNCHANGED <<slotVars, activeCount, backoff, lock, held, dangling, expired>>

Count(t) == /\ ok' = [ok EXCEPT ![t] = @ + 1]
            /\ idx' = [idx EXCEPT ![t] = @ + 1]

(* Faulty: only the slots connected just now are counted.                  *)
SkipSlotUncounted(t) ==
  /\ pc[t] = "slot" /\ idx[t] \in Slots
  /\ connected[idx[t]]
  /\ idx' = [idx EXCEPT ![t] = @ + 1]
  /\ UNCHANGED <<slotVars, poolVars, lock, pc, held, dangling, ok, expired>>

SkipSlot(t) ==
  /\ pc[t] = "slot" /\ idx[t] \in Slots
  /\ connected[idx[t]]
  /\ Count(t)
  /\ UNCHANGED <<slotVars, poolVars, lock, pc, held, dangling, expired>>

(* Faulty: every slot is connected anew.                                   *)
OpenAnySlot(t) ==
  /\ pc[t] = "slot" /\ idx[t] \in Slots
  /\ Goto(t, "connect")
  /\ UNCHANGED <<slotVars, poolVars, lock, localVars>>

OpenSlot(t) ==
  /\ pc[t] = "slot" /\ idx[t] \in Slots
  /\ ~connected[idx[t]]
  /\ Goto(t, "connect")
  /\ UNCHANGED <<slotVars, poolVars, lock, localVars>>

(* slot_connect: the old handle is closed, also under a thread that has    *)
(* borrowed it, and a new one connects, or not.                            *)
Connect(t) ==
  /\ pc[t] = "connect"
  /\ dangling' = dangling \cup {u \in Threads : held[u] = idx[t]}
  /\ \/ /\ conn' = [conn EXCEPT ![idx[t]] = "open"]
        /\ Goto(t, "publish")
        /\ UNCHANGED <<connected, idx>>
     \/ /\ conn' = [conn EXCEPT ![idx[t]] = "null"]
        /\ connected' = [connected EXCEPT ![idx[t]] = FALSE]
        /\ idx' = [idx EXCEPT ![t] = @ + 1]
        /\ Goto(t, "slot")
  /\ UNCHANGED <<inUse, poolVars, lock, held, ok, expired>>

(* slot->connected = 1 ...                                                 *)
Publish(t) ==
  /\ pc[t] = "publish"
  /\ connected' = [connected EXCEPT ![idx[t]] = TRUE]
  /\ Goto(t, "unmark")
  /\ UNCHANGED <<conn, inUse, poolVars, lock, localVars>>

(* ... and only then slot->in_use = 0.                                     *)
Unmark(t) ==
  /\ pc[t] = "unmark"
  /\ inUse' = [inUse EXCEPT ![idx[t]] = FALSE]
  /\ Count(t)
  /\ Goto(t, "slot")
  /\ UNCHANGED <<conn, connected, poolVars, lock, held, dangling, expired>>

Uncapped == 2 * backoff  \* faulty: no upper bound
Doubled == IF 2 * backoff > MaxBackoff THEN MaxBackoff ELSE 2 * backoff

SetActiveCount(t) ==
  /\ pc[t] = "slot" /\ idx[t] \notin Slots
  /\ activeCount' = ok[t]
  /\ backoff' = IF ok[t] = PoolSize THEN 1 ELSE Doubled
  /\ Goto(t, "finish")
  /\ UNCHANGED <<slotVars, reconnecting, since, lock, localVars>>

Finish(t) ==
  /\ pc[t] = "finish"
  /\ reconnecting' = FALSE
  /\ pc' = [WakeAll(pc) EXCEPT ![t] = "scan"]
  /\ UNCHANGED <<slotVars, activeCount, backoff, since, lock, localVars>>

-----------------------------------------------------------------------------
(* The environment: the server closes a connection, time passes.           *)

ServerCloses(i) ==
  /\ conn[i] = "open" /\ connected[i]
  /\ conn' = [conn EXCEPT ![i] = "broken"]
  /\ UNCHANGED <<connected, inUse, poolVars, lock, pc, localVars>>

Deadline(t) ==
  /\ pc[t] \notin {"idle", "query", "return"} /\ ~expired[t]
  /\ expired' = [expired EXCEPT ![t] = TRUE]
  /\ UNCHANGED <<slotVars, poolVars, lock, pc, held, dangling, idx, ok>>

Tick ==
  /\ since < MaxBackoff
  /\ since' = since + 1
  /\ UNCHANGED <<slotVars, activeCount, reconnecting, backoff, lock, pc, localVars>>

Reconnect(t) ==
  Check(t) \/ Claim(t) \/ SkipSlot(t) \/ OpenSlot(t) \/ Connect(t)
  \/ Publish(t) \/ Unmark(t) \/ SetActiveCount(t) \/ Finish(t)

(* What a thread inside the pool does next.                                *)
Step(t) ==
  Take(t) \/ GoReconnect(t) \/ GoWait(t) \/ Sleep(t) \/ TimeOut(t)
  \/ Query(t) \/ Return(t) \/ Reconnect(t)

Next ==
  \/ \E t \in Threads : Borrow(t) \/ Step(t) \/ SpuriousWakeup(t) \/ Deadline(t)
  \/ \E i \in Slots : ServerCloses(i)
  \/ Tick

Spec == Init /\ [][Next]_vars

(* Threads run, deadlines pass, and a thread that keeps asking for the     *)
(* lock gets it in the end.                                                *)
FairSpec ==
  /\ Spec
  /\ WF_vars(Tick)
  /\ \A t \in Threads : WF_vars(Step(t)) /\ WF_vars(Deadline(t))
  /\ \A t \in Threads : SF_vars(GoWait(t)) /\ SF_vars(GoReconnect(t)) /\ SF_vars(TimeOut(t))

-----------------------------------------------------------------------------
TypeOK ==
  /\ conn \in [Slots -> {"null", "open", "broken", "reported"}]
  /\ connected \in [Slots -> BOOLEAN] /\ inUse \in [Slots -> BOOLEAN]
  /\ activeCount \in 0..PoolSize
  /\ reconnecting \in BOOLEAN
  /\ backoff \in 1..MaxBackoff /\ since \in 0..MaxBackoff
  /\ lock \in Threads \cup {None}
  /\ pc \in [Threads -> {"idle", "scan", "sleep", "waiting", "query", "return",
                         "try", "claim", "slot", "connect", "publish",
                         "unmark", "finish"}]
  /\ held \in [Threads -> 0..PoolSize] /\ dangling \subseteq Threads
  /\ idx \in [Threads -> 1..(PoolSize + 1)]
  /\ ok \in [Threads -> 0..PoolSize]
  /\ expired \in [Threads -> BOOLEAN]

InReconnect(t) == pc[t] \in {"slot", "connect", "publish", "unmark", "finish"}

(* db_sync.h: each worker holds a MySQL connection of its own.  A MYSQL    *)
(* handle is not safe for two threads at once.                             *)
ExclusiveBorrow ==
  \A t, u \in Threads : t # u /\ held[t] # 0 => held[t] # held[u]

(* db_mysql.c, pool_try_reconnect: "only one thread may reconnect".        *)
SingleReconnecter ==
  \A t, u \in Threads : InReconnect(t) /\ InReconnect(u) => t = u

(* A handle in use is open on the client's side: slot_connect never closes *)
(* a handle that a thread borrowed, and its slot stays connected.          *)
NoUseAfterClose ==
  /\ dangling = {}
  /\ \A t \in Threads : held[t] # 0 => connected[held[t]] /\ conn[held[t]] # "null"

(* A slot marked in use is in some thread's hands: none is lost for good   *)
(* by db_mysql_pool_return, which knows a handle by its pointer only.      *)
NoSlotLeak == \A i \in Slots : inUse[i] => \E t \in Threads : held[t] = i

(* Outside of a reconnection active_count, all that db_mysql_pool_health   *)
(* and the reconnection test look at, is the number of connected slots.    *)
ActiveCountTruth ==
  (\A t \in Threads : ~InReconnect(t)) =>
    activeCount = Cardinality({i \in Slots : connected[i]})

(* What the users see: who is in db_mysql_pool_borrow, whose deadline has  *)
(* passed there, and who has which handle.                                 *)
Asking == {t \in Threads : pc[t] \notin {"idle", "query", "return"}}

Leases == INSTANCE LeasePool WITH
  Handles <- Slots, Nothing <- 0,
  asking <- Asking, late <- {t \in Asking : expired[t]}, lease <- held

(* db_sync.h, db_mysql.h: marks, counter, lock and reconnection amount to  *)
(* a pool of leases: a handle goes to a thread that asks while nobody has  *)
(* it, and NULL only to one whose deadline has passed.                     *)
ImplementsLeasePool == Leases!Spec

(* db_mysql.h: borrow returns a connection, or NULL after timeout_ms.      *)
BorrowReturns ==
  \A t \in Threads : pc[t] = "scan" ~> pc[t] \in {"query", "idle"}

-----------------------------------------------------------------------------
(* A statement of the comments that the code does not satisfy: TLC refutes *)
(* it, as it does SingleReconnecter, NoUseAfterClose and NoSlotLeak for    *)
(* three threads; no run is kept.                                          *)

(* db_mysql.c: "borrow detects lost connections and triggers the           *)
(* reconnection": a connection on which a query failed is not handed out.  *)
BorrowChecksConnection ==
  [][\A t \in Threads : held[t] = 0 /\ held'[t] # 0 => conn[held'[t]] # "reported"]_vars
=============================================================================
