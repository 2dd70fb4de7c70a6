-------------------------- MODULE MysqlPoolProofs --------------------------
(***************************************************************************)
(* Proofs about MysqlPool for every number of slots.  The types hold       *)
(* whatever db_mysql_pool_connect_all connected and for any number of      *)
(* threads.  That one thread reconnects at a time, on no handle in use,    *)
(* with a true counter and without losing a slot, is proved for two        *)
(* threads, main and worker: three can pass the unlocked test together.    *)
(* Exclusive use is proved on the assumption that every slot was           *)
(* connected.  With fewer, ExclusiveBorrow does not hold (slot_connect     *)
(* marks a slot connected before it is free); with all, no slot is ever    *)
(* found unconnected, active_count stays pool_size and nobody reconnects.  *)
(* That, with the correspondence of marks and borrowers, is the inductive  *)
(* invariant; under it the pool implements LeasePool.                      *)
(***************************************************************************)
EXTENDS MysqlPool, FiniteSetTheorems, TLAPS

-----------------------------------------------------------------------------
(* The types, whatever slots were connected at first and however many      *)
(* threads reconnect at once: each counts no more slots than it has passed.*)

Locals ==
  \A t \in Threads :
    /\ ok[t] < idx[t]
    /\ pc[t] \in {"connect", "publish", "unmark"} => idx[t] \in Slots

TInv == TypeOK /\ Locals

(* The initial state: the slots connected are at most pool_size.           *)
LEMMA InitTInv == Init => TInv
<1> SUFFICES ASSUME Init PROVE TInv
  OBVIOUS
<1>1. connected \in [Slots -> BOOLEAN]
  <2>1. PICK S \in StartSets : connected = [i \in Slots |-> i \in S]
    BY DEF Init
  <2>2. \A i \in Slots : (i \in S) \in BOOLEAN
    OBVIOUS
  <2>3. QED
    BY <2>1, <2>2, Zenon
<1>2. Cardinality({i \in Slots : connected[i]}) \in 0..PoolSize
  <2>1. IsFiniteSet(Slots) /\ Cardinality(Slots) = PoolSize
    BY PoolSizeAssumption, FS_Interval, SMT DEF Slots
  <2>2. /\ IsFiniteSet({i \in Slots : connected[i]})
        /\ Cardinality({i \in Slots : connected[i]}) <= Cardinality(Slots)
    BY <2>1, FS_Subset
  <2>3. Cardinality({i \in Slots : connected[i]}) \in Nat
    BY <2>2, FS_CardinalityType
  <2>4. QED
    BY <2>1, <2>2, <2>3, PoolSizeAssumption
<1>3. conn \in [Slots -> {"null", "open", "broken", "reported"}]
  BY <1>1 DEF Init
<1>4. inUse \in [Slots -> BOOLEAN] /\ expired \in [Threads -> BOOLEAN]
  BY DEF Init
<1>5. /\ held \in [Threads -> 0..PoolSize] /\ ok \in [Threads -> 0..PoolSize]
      /\ idx \in [Threads -> 1..(PoolSize + 1)]
  BY PoolSizeAssumption DEF Init
<1>6. backoff \in 1..MaxBackoff /\ since \in 0..MaxBackoff
  BY MaxBackoffAssumption DEF Init
<1>7. TypeOK
  <2>1. activeCount \in 0..PoolSize
    BY <1>2 DEF Init
  <2>2. /\ reconnecting \in BOOLEAN /\ lock = None /\ dangling = {}
        /\ pc = [t \in Threads |-> "idle"]
    BY DEF Init
  <2>3. QED
    BY <1>1, <1>3, <1>4, <1>5, <1>6, <2>1, <2>2 DEF TypeOK
<1>8. Locals
  BY DEF Init, Locals
<1>9. QED
  BY <1>7, <1>8 DEF TInv

(* A reconnection: the index stays in the pool, the count behind it.       *)
LEMMA ReconnectTInv ==
  ASSUME TInv, NEW t \in Threads, Reconnect(t)
  PROVE  TInv'
<1> USE PoolSizeAssumption, MaxBackoffAssumption
<1>1. CASE Check(t)
  BY <1>1 DEF Check, Goto, TInv, TypeOK, Locals, slotVars, poolVars, localVars, Slots
<1>2. CASE Claim(t)
  BY <1>2 DEF Claim, Goto, TInv, TypeOK, Locals, slotVars, Slots
<1>3. CASE SkipSlot(t)
  BY <1>3 DEF SkipSlot, Count, TInv, TypeOK, Locals, slotVars, poolVars, Slots
<1>4. CASE OpenSlot(t)
  BY <1>4 DEF OpenSlot, Goto, TInv, TypeOK, Locals, slotVars, poolVars, localVars, Slots
<1>5. CASE Connect(t)
  <2>1. CASE pc'[t] = "publish"
    BY <1>5, <2>1, ZenonT(30) DEF Connect, Goto, TInv, TypeOK, Locals, poolVars, Slots
  <2>2. CASE pc'[t] = "slot"
    <3>1. /\ connected' \in [Slots -> BOOLEAN]
          /\ conn' \in [Slots -> {"null", "open", "broken", "reported"}]
          /\ pc' = [pc EXCEPT ![t] = "slot"]
          /\ idx' = [idx EXCEPT ![t] = @ + 1]
          /\ dangling' \subseteq Threads
          /\ UNCHANGED <<inUse, poolVars, lock, held, ok, expired>>
      BY <1>5, <2>2 DEF Connect, Goto, TInv, TypeOK
    <3>2. idx[t] \in Slots
      BY <1>5 DEF Connect, TInv, Locals
    <3>3. QED
      BY <3>1, <3>2 DEF TInv, TypeOK, Locals, poolVars, Slots
  <2>3. QED
    BY <1>5, <2>1, <2>2 DEF Connect, Goto, TInv, TypeOK
<1>6. CASE Publish(t)
  BY <1>6 DEF Publish, Goto, TInv, TypeOK, Locals, poolVars, localVars, Slots
<1>7. CASE Unmark(t)
  BY <1>7 DEF Unmark, Count, Goto, TInv, TypeOK, Locals, poolVars, Slots
<1>8. CASE SetActiveCount(t)
  <2>1. backoff' \in 1..MaxBackoff
    BY <1>8 DEF SetActiveCount, Doubled, TInv, TypeOK
  <2>2. QED
    BY <1>8, <2>1 DEF SetActiveCount, Goto, TInv, TypeOK, Locals, slotVars, localVars, Slots
<1>9. CASE Finish(t)
  BY <1>9 DEF Finish, WakeAll, TInv, TypeOK, Locals, slotVars, localVars, Slots
<1>10. QED
  BY <1>1, <1>2, <1>3, <1>4, <1>5, <1>6, <1>7, <1>8, <1>9 DEF Reconnect

(* Every step keeps the types.                                             *)
LEMMA NextTInv == TInv /\ [Next]_vars => TInv'
<1> SUFFICES ASSUME TInv, [Next]_vars PROVE TInv'
  OBVIOUS
<1> USE PoolSizeAssumption
<1>1. ASSUME NEW t \in Threads, Borrow(t) \/ GoReconnect(t) \/ GoWait(t) \/ Sleep(t)
      PROVE  TInv'
  BY <1>1 DEF Borrow, GoReconnect, GoWait, Sleep, Goto, slotVars, poolVars, localVars,
     TInv, TypeOK, Locals, Slots
<1>2. ASSUME NEW t \in Threads, SpuriousWakeup(t) \/ TimeOut(t) \/ Deadline(t)
      PROVE  TInv'
  BY <1>2 DEF SpuriousWakeup, TimeOut, Deadline, Goto, slotVars, poolVars, localVars,
     TInv, TypeOK, Locals, Slots
<1>3. ASSUME NEW t \in Threads, Take(t) PROVE TInv'
  BY <1>3 DEF Take, Free, Goto, poolVars, TInv, TypeOK, Locals, Slots
<1>4. ASSUME NEW t \in Threads, Query(t) PROVE TInv'
  BY <1>4 DEF Query, Goto, poolVars, localVars, TInv, TypeOK, Locals, Slots
<1>5. ASSUME NEW t \in Threads, Return(t) PROVE TInv'
  <2>1. \E u \in Threads :
           pc' = [pc EXCEPT ![t] = "idle"] \/ pc' = [pc EXCEPT ![t] = "idle", ![u] = "scan"]
    <3>1. CASE \E u \in Waiters : pc' = [pc EXCEPT ![t] = "idle", ![u] = "scan"]
      BY <3>1 DEF Waiters
    <3>2. QED
      BY <1>5, <3>1 DEF Return, Goto
  <2>2. /\ held' = [held EXCEPT ![t] = 0] /\ dangling' = dangling \ {t}
        /\ UNCHANGED <<conn, connected, poolVars, lock, idx, ok, expired>>
    BY <1>5 DEF Return
  <2>3. inUse' \in [Slots -> BOOLEAN] /\ held' \in [Threads -> 0..PoolSize]
    <3>1. \A i : inUse \in [Slots -> BOOLEAN] => [inUse EXCEPT ![i] = FALSE] \in [Slots -> BOOLEAN]
      BY Zenon
    <3>2. inUse' = inUse \/ \E i : inUse' = [inUse EXCEPT ![i] = FALSE]
      BY <1>5 DEF Return, Released
    <3>3. 0 \in 0..PoolSize
      OBVIOUS
    <3>4. QED
      BY <2>2, <3>1, <3>2, <3>3 DEF TInv, TypeOK
  <2>4. \A u \in Threads : pc'[u] = pc[u] \/ pc'[u] = "idle" \/ pc'[u] = "scan"
    BY <2>1 DEF TInv, TypeOK
  <2>5. DOMAIN pc' = Threads /\ pc' = [u \in Threads |-> pc'[u]]
    BY <2>1 DEF TInv, TypeOK
  <2>6. QED
    BY <2>2, <2>3, <2>4, <2>5, ZenonT(30) DEF poolVars, TInv, TypeOK, Locals, Slots
<1>6. ASSUME NEW i \in Slots, ServerCloses(i) PROVE TInv'
  BY <1>6 DEF ServerCloses, poolVars, localVars, TInv, TypeOK, Locals, Slots
<1>7. CASE Tick
  BY <1>7, MaxBackoffAssumption DEF Tick, slotVars, localVars, TInv, TypeOK, Locals, Slots
<1>8. CASE UNCHANGED vars
  BY <1>8 DEF vars, slotVars, poolVars, localVars, TInv, TypeOK, Locals, Slots
<1>9. QED
  BY <1>1, <1>2, <1>3, <1>4, <1>5, <1>6, <1>7, <1>8, ReconnectTInv DEF Next, Step

(* slot_connect and pool_try_reconnect: active_count never exceeds         *)
(* pool_size, the backoff stays within DB_RECONNECT_MAX_SEC and no index   *)
(* leaves the pool, for any connected slots and any number of threads that *)
(* reconnect at once.                                                      *)
THEOREM TypeCorrect == Spec => []TypeOK
<1>1. TInv => TypeOK
  BY DEF TInv
<1>2. QED
  BY <1>1, InitTInv, NextTInv, PTL DEF Spec

-----------------------------------------------------------------------------
(* Marks: in_use is set only by the borrower, and cleared by its return.   *)

Hands == \A t \in Threads : held[t] # 0 <=> pc[t] \in {"query", "return"}

GInv == TInv /\ Hands /\ NoSlotLeak

(* The steps that touch neither a mark nor a borrowed handle.              *)
LEMMA OthersGInv ==
  ASSUME GInv, NEW t \in Threads, TInv',
         \/ Borrow(t) \/ GoReconnect(t) \/ GoWait(t) \/ Sleep(t) \/ TimeOut(t)
         \/ Query(t) \/ Reconnect(t) \/ SpuriousWakeup(t) \/ Deadline(t)
  PROVE  GInv'
<1>1. held' = held
  BY DEF Borrow, GoReconnect, GoWait, Sleep, TimeOut, Query, Reconnect, SpuriousWakeup,
     Deadline, Check, Claim, SkipSlot, OpenSlot, Connect, Publish, Unmark, SetActiveCount,
     Finish, localVars
<1>2. \A i \in Slots : inUse'[i] => inUse[i]
  BY DEF GInv, TInv, TypeOK, Borrow, GoReconnect, GoWait, Sleep, TimeOut, Query, Reconnect,
     SpuriousWakeup, Deadline, Check, Claim, SkipSlot, OpenSlot, Connect, Publish, Unmark,
     SetActiveCount, Finish, slotVars
<1>3. NoSlotLeak'
  BY <1>1, <1>2 DEF GInv, NoSlotLeak
<1>4. Hands'
  <2>1. CASE Finish(t)
    BY <2>1, <1>1 DEF GInv, TInv, TypeOK, Hands, Finish, WakeAll
  <2>2. CASE ~Finish(t)
    BY <2>2, <1>1 DEF GInv, TInv, TypeOK, Hands, Borrow, GoReconnect, GoWait, Sleep, TimeOut,
       Query, Reconnect, SpuriousWakeup, Deadline, Check, Claim, SkipSlot, Count, OpenSlot,
       Connect, Publish, Unmark, SetActiveCount, Goto
  <2>3. QED
    BY <2>1, <2>2
<1>5. QED
  BY <1>3, <1>4 DEF GInv

(* Every step keeps the correspondence of marks and borrowers, as long as  *)
(* nobody gives back a handle that was closed.                             *)
LEMMA NextGInv ==
  ASSUME GInv, dangling = {}, [Next]_vars
  PROVE  GInv'
<1>0. TInv'
  BY NextTInv DEF GInv
<1>1. ASSUME NEW t \in Threads, Take(t) PROVE GInv'
  <2>1. PICK i \in Slots : /\ inUse' = [inUse EXCEPT ![i] = TRUE]
                           /\ held' = [held EXCEPT ![t] = i]
    BY <1>1 DEF Take, Free
  <2>2. pc[t] = "scan" /\ pc' = [pc EXCEPT ![t] = "query"] /\ held[t] = 0
    BY <1>1 DEF Take, Goto, GInv, Hands
  <2>3. i # 0
    BY PoolSizeAssumption DEF Slots
  <2>4. Hands'
    BY <2>1, <2>2, <2>3 DEF GInv, TInv, TypeOK, Hands
  <2>5. NoSlotLeak'
    <3> SUFFICES ASSUME NEW j \in Slots, inUse'[j]
                 PROVE  \E u \in Threads : held'[u] = j
      BY DEF NoSlotLeak
    <3>1. CASE j = i
      BY <3>1, <2>1 DEF GInv, TInv, TypeOK
    <3>2. CASE j # i
      <4>1. PICK u \in Threads : held[u] = j
        BY <3>2, <2>1 DEF GInv, TInv, TypeOK, NoSlotLeak
      <4>2. u # t
        BY <4>1, <2>2, PoolSizeAssumption DEF Slots
      <4>3. QED
        BY <4>1, <4>2, <2>1 DEF GInv, TInv, TypeOK
    <3>3. QED
      BY <3>1, <3>2
  <2>6. QED
    BY <1>0, <2>4, <2>5 DEF GInv
<1>2. ASSUME NEW t \in Threads, Return(t) PROVE GInv'
  <2>1. /\ pc[t] = "return"
        /\ inUse' = [inUse EXCEPT ![held[t]] = FALSE]
        /\ held' = [held EXCEPT ![t] = 0]
    BY <1>2 DEF Return, Released
  <2>2. /\ pc'[t] = "idle"
        /\ \A u \in Threads : u # t => pc'[u] = pc[u] \/ (pc[u] = "waiting" /\ pc'[u] = "scan")
    <3>1. CASE pc' = [pc EXCEPT ![t] = "idle"]
      BY <3>1 DEF GInv, TInv, TypeOK
    <3>2. CASE \E u \in Waiters : pc' = [pc EXCEPT ![t] = "idle", ![u] = "scan"]
      BY <3>2, <2>1 DEF Waiters, GInv, TInv, TypeOK
    <3>3. QED
      BY <1>2, <3>1, <3>2 DEF Return, Goto
  <2>3. Hands'
    BY <2>1, <2>2 DEF GInv, TInv, TypeOK, Hands
  <2>4. NoSlotLeak'
    BY <2>1 DEF GInv, TInv, TypeOK, NoSlotLeak
  <2>5. QED
    BY <1>0, <2>3, <2>4 DEF GInv
<1>3. ASSUME NEW i \in Slots, ServerCloses(i) PROVE GInv'
  BY <1>0, <1>3 DEF ServerCloses, localVars, GInv, Hands, NoSlotLeak
<1>4. CASE Tick
  BY <1>0, <1>4 DEF Tick, slotVars, localVars, GInv, Hands, NoSlotLeak
<1>5. CASE UNCHANGED vars
  BY <1>0, <1>5 DEF vars, slotVars, localVars, GInv, Hands, NoSlotLeak
<1>6. QED
  BY <1>0, <1>1, <1>2, <1>3, <1>4, <1>5, OthersGInv DEF Next, Step

-----------------------------------------------------------------------------
(* Reconnection by the program's two threads, main and the db_sync worker, *)
(* for any number of slots of which any one at least was connected.  While *)
(* one of them reconnects, the other either holds a connected slot or      *)
(* finds one: that, and nothing in pool_try_reconnect, keeps it from       *)
(* reconnecting too.  With three threads SingleReconnecter is false.       *)

TwoThreads == \A t, u, v \in Threads : t = u \/ t = v \/ u = v

Reconnecter(t) == pc[t] \in {"try", "claim", "slot", "connect", "publish", "unmark", "finish"}

OneReconnecter == \A t, u \in Threads : Reconnecter(t) /\ Reconnecter(u) => t = u

Counted(n) == {i \in Slots : i < n /\ connected[i]}

(* The slots connected are counted by active_count, or by the loop so far. *)
Progress ==
  /\ ActiveCountTruth
  /\ \A t \in Threads :
       /\ pc[t] \in {"slot", "connect", "publish", "unmark"} =>
            ok[t] = Cardinality(Counted(idx[t]))
       /\ pc[t] = "finish" => activeCount = Cardinality({i \in Slots : connected[i]})
       /\ pc[t] \in {"connect", "publish"} => ~connected[idx[t]]
       /\ pc[t] = "publish" => conn[idx[t]] # "null"
       /\ pc[t] = "unmark" => connected[idx[t]]

Usable ==
  /\ \E i \in Slots : connected[i]
  /\ \A i \in Slots : connected[i] => conn[i] # "null"
  /\ NoUseAfterClose

RInv == GInv /\ OneReconnecter /\ Progress /\ Usable

(* The initial state: somebody connected some slot, nobody reconnects.     *)
LEMMA InitRInv == Init => RInv
<1> SUFFICES ASSUME Init PROVE RInv
  OBVIOUS
<1>1. GInv
  <2>1. Hands /\ NoSlotLeak
    BY DEF Init, Hands, NoSlotLeak
  <2>2. QED
    BY <2>1, InitTInv DEF GInv
<1>2. OneReconnecter /\ Progress
  BY DEF Init, OneReconnecter, Reconnecter, Progress, ActiveCountTruth
<1>3. Usable
  <2>1. PICK S \in StartSets : connected = [i \in Slots |-> i \in S]
    BY DEF Init
  <2>2. S # {} /\ S \subseteq Slots
    BY StartAssumption
  <2>3. \E i \in Slots : connected[i]
    BY <2>1, <2>2
  <2>4. \A i \in Slots : connected[i] => conn[i] # "null"
    BY DEF Init
  <2>5. NoUseAfterClose
    BY DEF Init, NoUseAfterClose
  <2>6. QED
    BY <2>3, <2>4, <2>5 DEF Usable
<1>4. QED
  BY <1>1, <1>2, <1>3 DEF RInv

(* A thread that finds nothing free while the other one holds nothing      *)
(* would have found every connected slot free.                             *)
LEMMA SomebodyHolds ==
  ASSUME RInv, TwoThreads, NEW t \in Threads, NEW u \in Threads,
         t # u, pc[t] = "scan", Free = {}
  PROVE  ~Reconnecter(u)
<1>1. PICK i \in Slots : connected[i]
  BY DEF RInv, Usable
<1>2. inUse[i]
  BY <1>1 DEF Free
<1>3. PICK v \in Threads : held[v] = i
  BY <1>2 DEF RInv, GInv, NoSlotLeak
<1>4. held[v] # 0
  BY <1>3, PoolSizeAssumption DEF Slots
<1>5. v # t
  BY <1>4 DEF RInv, GInv, Hands
<1>6. v = u
  BY <1>5 DEF TwoThreads
<1>7. QED
  BY <1>4, <1>6 DEF RInv, GInv, Hands, Reconnecter

(* The slots counted up to the next one, when this one is connected or not.*)
LEMMA CountedNext ==
  ASSUME TypeOK, NEW n \in Slots
  PROVE  /\ connected[n] => Cardinality(Counted(n + 1)) = Cardinality(Counted(n)) + 1
         /\ ~connected[n] => Counted(n + 1) = Counted(n)
         /\ Counted(PoolSize + 1) = {i \in Slots : connected[i]}
         /\ Counted(1) = {}
<1> USE PoolSizeAssumption DEF Slots
<1>1. IsFiniteSet(Slots)
  BY FS_Interval
<1>2. IsFiniteSet(Counted(n))
  <2>1. Counted(n) \subseteq Slots
    BY DEF Counted
  <2>2. QED
    BY <1>1, <2>1, FS_Subset
<1>3. n \notin Counted(n)
  BY DEF Counted
<1>4. ASSUME connected[n] PROVE Counted(n + 1) = Counted(n) \cup {n}
  BY <1>4 DEF Counted
<1>5. ASSUME ~connected[n] PROVE Counted(n + 1) = Counted(n)
  BY <1>5 DEF Counted
<1>6. Counted(PoolSize + 1) = {i \in Slots : connected[i]} /\ Counted(1) = {}
  BY DEF Counted
<1>7. QED
  BY <1>2, <1>3, <1>4, <1>5, <1>6, FS_AddElement

(* A step outside of pool_try_reconnect changes none of its state.         *)
LEMMA QuietRInv ==
  ASSUME RInv, GInv', dangling' \subseteq dangling, UNCHANGED <<connected, activeCount, ok, idx>>,
         \A i \in Slots : conn'[i] = "null" => conn[i] = "null",
         \A t \in Threads : Reconnecter(t) \/ Reconnecter(t)' => pc'[t] = pc[t],
         \A t \in Threads : held'[t] = 0 \/ held'[t] = held[t] \/ connected[held'[t]]
  PROVE  RInv'
<1>1. \A t \in Threads : held'[t] # 0 => held'[t] \in Slots
  BY PoolSizeAssumption DEF GInv, TInv, TypeOK, Slots
<1>2. Usable'
  BY <1>1 DEF RInv, Usable, NoUseAfterClose
<1>3. OneReconnecter'
  BY DEF RInv, OneReconnecter, Reconnecter
<1>4. ActiveCountTruth'
  BY DEF RInv, Progress, ActiveCountTruth, InReconnect, Reconnecter
<1>5. \A n : Counted(n)' = Counted(n)
  BY DEF Counted
<1>6. Progress'
  <2> SUFFICES ASSUME NEW t \in Threads, Reconnecter(t)'
               PROVE
         /\ pc'[t] \in {"slot", "connect", "publish", "unmark"} =>
              ok'[t] = Cardinality(Counted(idx[t])')
         /\ pc'[t] = "finish" => activeCount' = Cardinality({i \in Slots : connected'[i]})
         /\ pc'[t] \in {"connect", "publish"} => ~connected'[idx'[t]]
         /\ pc'[t] = "publish" => conn'[idx'[t]] # "null"
         /\ pc'[t] = "unmark" => connected'[idx'[t]]
    BY <1>4 DEF Progress, Reconnecter, Counted
  <2>1. pc'[t] = pc[t]
    OBVIOUS
  <2>2. pc[t] = "publish" => idx[t] \in Slots
    BY DEF RInv, GInv, TInv, Locals
  <2>3. Counted(idx[t])' = Counted(idx[t])
    BY DEF Counted
  <2>4. QED
    BY <2>1, <2>2, <2>3 DEF RInv, Progress
<1>7. QED
  BY <1>2, <1>3, <1>6 DEF RInv

(* The steps of pool_try_reconnect, taken by the only thread in it.        *)
LEMMA ReconnectRInv ==
  ASSUME RInv, GInv', NEW t \in Threads, Reconnect(t)
  PROVE  RInv'
<1> USE PoolSizeAssumption
<1> DEFINE Ready(u) ==
      /\ pc[u] \in {"slot", "connect", "publish", "unmark"} =>
           ok[u] = Cardinality(Counted(idx[u]))
      /\ pc[u] = "finish" => activeCount = Cardinality({i \in Slots : connected[i]})
      /\ pc[u] \in {"connect", "publish"} => ~connected[idx[u]]
      /\ pc[u] = "publish" => conn[idx[u]] # "null"
      /\ pc[u] = "unmark" => connected[idx[u]]
<1>1. Reconnecter(t) /\ \A u \in Threads : u # t => ~Reconnecter(u)
  BY DEF RInv, OneReconnecter, Reconnecter, Reconnect, Check, Claim, SkipSlot, OpenSlot,
     Connect, Publish, Unmark, SetActiveCount, Finish
<1>2. \A u \in Threads : u # t => ~Reconnecter(u)'
  <2>1. CASE Finish(t)
    BY <1>1, <2>1 DEF RInv, GInv, TInv, TypeOK, Reconnecter, Finish, WakeAll
  <2>2. CASE ~Finish(t)
    BY <1>1, <2>2 DEF RInv, GInv, TInv, TypeOK, Reconnecter, Reconnect, Check, Claim,
       SkipSlot, OpenSlot, Connect, Publish, Unmark, SetActiveCount, Goto
  <2>3. QED
    BY <2>1, <2>2
<1>3. OneReconnecter'
  BY <1>2 DEF OneReconnecter
<1>4. TypeOK /\ Locals /\ Ready(t) /\ ActiveCountTruth
  BY DEF RInv, GInv, TInv, Progress
<1>5. ASSUME Ready(t)',
             \/ InReconnect(t)'
             \/ activeCount' = Cardinality({i \in Slots : connected'[i]})
      PROVE  Progress'
  <2>1. ActiveCountTruth'
    BY <1>5 DEF ActiveCountTruth
  <2>2. \A u \in Threads : Ready(u)'
    BY <1>2, <1>5 DEF Reconnecter
  <2>3. QED
    BY <2>1, <2>2 DEF Progress
<1>6. ASSUME UNCHANGED connected, \A i \in Slots : connected[i] => conn'[i] = conn[i],
             held' = held, dangling' = dangling
      PROVE  Usable'
  <2>1. \A u \in Threads : held[u] # 0 => held[u] \in Slots
    BY <1>4 DEF TypeOK, Slots
  <2>2. QED
    BY <1>6, <2>1 DEF RInv, Usable, NoUseAfterClose
<1>7. CASE Check(t)
  <2>1. UNCHANGED <<conn, connected, held, dangling, activeCount, ok, idx>> /\ pc'[t] \in {"scan", "claim"}
    BY <1>7, <1>4 DEF Check, Goto, TypeOK, slotVars, poolVars, localVars
  <2>2. activeCount' = Cardinality({i \in Slots : connected'[i]})
    BY <1>1, <1>4, <1>7, <2>1 DEF ActiveCountTruth, InReconnect, Reconnecter, Check
  <2>3. QED
    BY <1>3, <1>5, <1>6, <2>1, <2>2 DEF RInv
<1>8. CASE Claim(t)
  <2>1. /\ UNCHANGED <<conn, connected, held, dangling, activeCount>>
        /\ pc'[t] = "slot" /\ ok'[t] = 0 /\ idx'[t] = 1
    BY <1>8, <1>4 DEF Claim, Goto, TypeOK, slotVars
  <2>2. Counted(idx[t])' = {}
    BY <2>1 DEF Counted, Slots
  <2>3. Cardinality({}) = 0
    BY FS_EmptySet
  <2>4. Ready(t)' /\ InReconnect(t)'
    BY <2>1, <2>2, <2>3 DEF InReconnect
  <2>5. QED
    BY <1>3, <1>5, <1>6, <2>1, <2>4 DEF RInv
<1>9. CASE SkipSlot(t)
  <2>1. /\ UNCHANGED <<conn, connected, held, dangling, activeCount, pc>>
        /\ pc[t] = "slot" /\ idx[t] \in Slots /\ connected[idx[t]]
        /\ ok'[t] = ok[t] + 1 /\ idx'[t] = idx[t] + 1
    BY <1>9, <1>4 DEF SkipSlot, Count, TypeOK, slotVars, poolVars
  <2>2. Counted(idx[t])' = Counted(idx[t] + 1)
    BY <2>1 DEF Counted
  <2>3. Ready(t)' /\ InReconnect(t)'
    BY <1>4, <2>1, <2>2, CountedNext DEF InReconnect
  <2>4. QED
    BY <1>3, <1>5, <1>6, <2>1, <2>3 DEF RInv
<1>10. CASE OpenSlot(t)
  <2>1. /\ UNCHANGED <<conn, connected, held, dangling, activeCount, ok, idx>>
        /\ pc[t] = "slot" /\ pc'[t] = "connect" /\ ~connected[idx[t]]
    BY <1>10, <1>4 DEF OpenSlot, Goto, TypeOK, slotVars, poolVars, localVars
  <2>2. Counted(idx[t])' = Counted(idx[t])
    BY <2>1 DEF Counted
  <2>3. Ready(t)' /\ InReconnect(t)'
    BY <1>4, <2>1, <2>2 DEF InReconnect
  <2>4. QED
    BY <1>3, <1>5, <1>6, <2>1, <2>3 DEF RInv
<1>11. CASE Connect(t)
  <2>1. pc[t] = "connect" /\ ~connected[idx[t]] /\ idx[t] \in Slots
    BY <1>4, <1>11 DEF Connect, Locals
  <2>2. connected' = connected
    <3>1. [connected EXCEPT ![idx[t]] = FALSE] = connected
      BY <1>4, <2>1 DEF TypeOK
    <3>2. QED
      BY <1>11, <3>1 DEF Connect
  <2>3. UNCHANGED <<held, activeCount, ok>> /\ \A i \in Slots : i # idx[t] => conn'[i] = conn[i]
    BY <1>4, <1>11 DEF Connect, TypeOK, poolVars
  <2>4. ASSUME pc'[t] = "publish" PROVE Ready(t)' /\ InReconnect(t)'
    <3>1. idx' = idx /\ conn'[idx[t]] = "open"
      BY <1>4, <1>11, <2>1, <2>4 DEF Connect, Goto, TypeOK
    <3>2. Counted(idx[t])' = Counted(idx[t])
      BY <2>2, <3>1 DEF Counted
    <3>3. QED
      BY <1>4, <1>11, <2>1, <2>2, <2>3, <2>4, <3>1, <3>2 DEF InReconnect, Connect
  <2>5. ASSUME pc'[t] = "slot" PROVE Ready(t)' /\ InReconnect(t)'
    <3>1. idx'[t] = idx[t] + 1
      BY <1>4, <1>11, <2>5 DEF Connect, Goto, TypeOK
    <3>2. Counted(idx[t])' = Counted(idx[t])
      <4>1. Counted(idx[t])' = Counted(idx[t] + 1)
        BY <2>2, <3>1 DEF Counted
      <4>2. QED
        BY <1>4, <2>1, <4>1, CountedNext
    <3>3. QED
      BY <1>4, <1>11, <2>1, <2>2, <2>3, <2>5, <3>1, <3>2 DEF InReconnect, Connect
  <2>6. Ready(t)' /\ InReconnect(t)'
    BY <1>4, <1>11, <2>4, <2>5 DEF Connect, Goto, TypeOK
  <2>7. dangling' = dangling
    <3>1. \A u \in Threads : held[u] # idx[t]
      BY <2>1, PoolSizeAssumption DEF RInv, Usable, NoUseAfterClose, Slots
    <3>2. QED
      BY <1>11, <3>1 DEF Connect
  <2>8. QED
    BY <1>3, <1>5, <1>6, <2>1, <2>2, <2>3, <2>6, <2>7 DEF RInv
<1>12. CASE Publish(t)
  <2>1. pc[t] = "publish" /\ ~connected[idx[t]] /\ idx[t] \in Slots /\ conn[idx[t]] # "null"
    BY <1>4, <1>12 DEF Publish, Locals
  <2>2. /\ UNCHANGED <<conn, held, dangling, activeCount, ok, idx>> /\ pc'[t] = "unmark"
        /\ connected' = [connected EXCEPT ![idx[t]] = TRUE]
    BY <1>4, <1>12 DEF Publish, Goto, TypeOK, poolVars, localVars
  <2>3. Counted(idx[t])' = Counted(idx[t])
    BY <1>4, <2>1, <2>2 DEF Counted, TypeOK, Slots
  <2>4. Ready(t)' /\ InReconnect(t)'
    BY <1>4, <2>1, <2>2, <2>3 DEF InReconnect, TypeOK
  <2>5. Usable'
    <3>1. \A u \in Threads : held[u] # 0 => held[u] \in Slots
      BY <1>4 DEF TypeOK, Slots
    <3>2. QED
      BY <1>4, <2>1, <2>2, <3>1 DEF RInv, Usable, NoUseAfterClose, TypeOK
  <2>6. QED
    BY <1>3, <1>5, <2>4, <2>5 DEF RInv
<1>13. CASE Unmark(t)
  <2>1. /\ UNCHANGED <<conn, connected, held, dangling, activeCount>>
        /\ pc[t] = "unmark" /\ idx[t] \in Slots /\ connected[idx[t]] /\ pc'[t] = "slot"
        /\ ok'[t] = ok[t] + 1 /\ idx'[t] = idx[t] + 1
    BY <1>13, <1>4 DEF Unmark, Count, Goto, TypeOK, Locals, poolVars
  <2>2. Counted(idx[t])' = Counted(idx[t] + 1)
    BY <2>1 DEF Counted
  <2>3. Ready(t)' /\ InReconnect(t)'
    BY <1>4, <2>1, <2>2, CountedNext DEF InReconnect
  <2>4. QED
    BY <1>3, <1>5, <1>6, <2>1, <2>3 DEF RInv
<1>14. CASE SetActiveCount(t)
  <2>1. /\ UNCHANGED <<conn, connected, held, dangling, ok, idx>>
        /\ pc[t] = "slot" /\ idx[t] = PoolSize + 1 /\ pc'[t] = "finish" /\ activeCount' = ok[t]
    BY <1>14, <1>4 DEF SetActiveCount, Goto, TypeOK, slotVars, localVars, Slots
  <2>2. Counted(idx[t]) = {i \in Slots : connected[i]}
    BY <2>1 DEF Counted, Slots
  <2>3. Ready(t)' /\ InReconnect(t)'
    BY <1>4, <2>1, <2>2 DEF InReconnect
  <2>4. QED
    BY <1>3, <1>5, <1>6, <2>1, <2>3 DEF RInv
<1>15. CASE Finish(t)
  <2>1. /\ UNCHANGED <<conn, connected, held, dangling, activeCount, ok, idx>>
        /\ pc[t] = "finish" /\ pc'[t] = "scan"
    BY <1>15, <1>4 DEF Finish, WakeAll, TypeOK, slotVars, localVars
  <2>2. QED
    BY <1>3, <1>4, <1>5, <1>6, <2>1 DEF RInv
<1>16. QED
  BY <1>7, <1>8, <1>9, <1>10, <1>11, <1>12, <1>13, <1>14, <1>15 DEF Reconnect

(* Every step of a program of two threads keeps the invariant.             *)
LEMMA NextRInv ==
  ASSUME TwoThreads
  PROVE  RInv /\ [Next]_vars => RInv'
<1> SUFFICES ASSUME RInv, [Next]_vars PROVE RInv'
  OBVIOUS
<1>0. TypeOK /\ Hands /\ GInv'
  BY NextGInv DEF RInv, GInv, TInv, Usable, NoUseAfterClose
<1>1. ASSUME NEW t \in Threads,
             Borrow(t) \/ GoWait(t) \/ Sleep(t) \/ SpuriousWakeup(t) \/ TimeOut(t) \/ Deadline(t)
      PROVE  RInv'
  <2>1. UNCHANGED <<conn, connected, activeCount, ok, idx, held, dangling>>
    BY <1>1 DEF Borrow, GoWait, Sleep, SpuriousWakeup, TimeOut, Deadline, slotVars, poolVars,
       localVars
  <2>2. \A u \in Threads : Reconnecter(u) \/ Reconnecter(u)' => pc'[u] = pc[u]
    BY <1>0, <1>1 DEF Borrow, GoWait, Sleep, SpuriousWakeup, TimeOut, Deadline, Goto,
       Reconnecter, TypeOK
  <2>3. QED
    BY <2>1, <2>2, QuietRInv, <1>0
<1>2. ASSUME NEW t \in Threads, Take(t) PROVE RInv'
  <2>1. UNCHANGED <<conn, connected, activeCount, ok, idx, dangling>>
    BY <1>2 DEF Take, poolVars
  <2>2. \A u \in Threads : Reconnecter(u) \/ Reconnecter(u)' => pc'[u] = pc[u]
    BY <1>0, <1>2 DEF Take, Goto, Reconnecter, TypeOK
  <2>3. \A u \in Threads : held'[u] = held[u] \/ connected[held'[u]]
    BY <1>0, <1>2 DEF Take, Free, TypeOK
  <2>4. QED
    BY <2>1, <2>2, <2>3, QuietRInv, <1>0
<1>3. ASSUME NEW t \in Threads, Query(t) PROVE RInv'
  <2>1. UNCHANGED <<connected, activeCount, ok, idx, held, dangling>>
    BY <1>3 DEF Query, poolVars, localVars
  <2>2. \A u \in Threads : Reconnecter(u) \/ Reconnecter(u)' => pc'[u] = pc[u]
    BY <1>0, <1>3 DEF Query, Goto, Reconnecter, TypeOK
  <2>3. \A i \in Slots : conn'[i] = "null" => conn[i] = "null"
    BY <1>0, <1>3 DEF Query, TypeOK
  <2>4. QED
    BY <2>1, <2>2, <2>3, QuietRInv, <1>0
<1>4. ASSUME NEW t \in Threads, Return(t) PROVE RInv'
  <2>1. /\ UNCHANGED <<conn, connected, activeCount, ok, idx>> /\ held' = [held EXCEPT ![t] = 0]
        /\ dangling' \subseteq dangling
    BY <1>4 DEF Return, poolVars
  <2>2. \A u \in Threads : Reconnecter(u) \/ Reconnecter(u)' => pc'[u] = pc[u]
    <3>1. CASE pc' = [pc EXCEPT ![t] = "idle"]
      BY <1>0, <1>4, <3>1 DEF Return, Reconnecter, TypeOK
    <3>2. CASE \E u \in Waiters : pc' = [pc EXCEPT ![t] = "idle", ![u] = "scan"]
      <4>1. PICK u \in Threads : /\ pc[u] = "waiting"
                                /\ pc' = [pc EXCEPT ![t] = "idle", ![u] = "scan"]
        BY <3>2 DEF Waiters
      <4>2. pc[t] = "return"
        BY <1>4 DEF Return
      <4>3. QED
        BY <1>0, <4>1, <4>2 DEF Reconnecter, TypeOK
    <3>3. QED
      BY <1>4, <3>1, <3>2 DEF Return, Goto
  <2>3. \A u \in Threads : held'[u] = 0 \/ held'[u] = held[u]
    BY <1>0, <2>1 DEF TypeOK
  <2>4. QED
    BY <2>1, <2>2, <2>3, QuietRInv, <1>0
<1>5. ASSUME NEW t \in Threads, GoReconnect(t) PROVE RInv'
  <2>1. /\ UNCHANGED <<conn, connected, activeCount, ok, idx, held, dangling>>
        /\ pc[t] = "scan" /\ Free = {} /\ pc' = [pc EXCEPT ![t] = "try"]
    BY <1>5 DEF GoReconnect, Goto, slotVars, poolVars, localVars
  <2>2. \A u \in Threads : u # t => ~Reconnecter(u) /\ pc'[u] = pc[u]
    BY <1>0, <2>1, SomebodyHolds DEF TypeOK
  <2>3. OneReconnecter'
    BY <2>2 DEF OneReconnecter, Reconnecter
  <2>4. \A u \in Threads : ~InReconnect(u) /\ ~InReconnect(u)'
    BY <1>0, <2>1, <2>2 DEF InReconnect, Reconnecter, TypeOK
  <2>5. Progress'
    BY <2>1, <2>4 DEF RInv, Progress, ActiveCountTruth, InReconnect
  <2>6. Usable'
    BY <2>1 DEF RInv, Usable, NoUseAfterClose
  <2>7. QED
    BY <1>0, <2>3, <2>5, <2>6 DEF RInv
<1>6. ASSUME NEW i \in Slots, ServerCloses(i) PROVE RInv'
  <2>1. UNCHANGED <<connected, activeCount, ok, idx, held, dangling, pc>>
    BY <1>6 DEF ServerCloses, poolVars, localVars
  <2>2. \A j \in Slots : conn'[j] = "null" => conn[j] = "null"
    BY <1>0, <1>6 DEF ServerCloses, TypeOK
  <2>3. QED
    BY <2>1, <2>2, QuietRInv, <1>0
<1>7. CASE Tick \/ UNCHANGED vars
  <2>1. UNCHANGED <<conn, connected, activeCount, ok, idx, held, dangling, pc>>
    BY <1>7 DEF Tick, vars, slotVars, poolVars, localVars
  <2>2. QED
    BY <2>1, QuietRInv, <1>0
<1>8. QED
  BY <1>1, <1>2, <1>3, <1>4, <1>5, <1>6, <1>7, <1>0, ReconnectRInv DEF Next, Step

(* Reconnection is exclusive and counts right in every state of a program  *)
(* of two threads.                                                         *)
LEMMA RInvariance == ASSUME TwoThreads PROVE Spec => []RInv
<1>1. RInv /\ [Next]_vars => RInv'
  BY NextRInv
<1>2. QED
  BY <1>1, InitRInv, PTL DEF Spec

(* pool_try_reconnect: its check and its claim of the flag are two steps,  *)
(* and still two threads never reconnect at once, for any number of slots. *)
THEOREM ReconnectExclusive == ASSUME TwoThreads PROVE Spec => []SingleReconnecter
<1>1. RInv => SingleReconnecter
  BY DEF RInv, OneReconnecter, SingleReconnecter, InReconnect, Reconnecter
<1>2. QED
  BY <1>1, RInvariance, PTL

(* slot_connect: a handle in the hands of one thread is never closed by    *)
(* the other one's reconnection.                                           *)
THEOREM HandlesOpen == ASSUME TwoThreads PROVE Spec => []NoUseAfterClose
<1>1. RInv => NoUseAfterClose
  BY DEF RInv, Usable
<1>2. QED
  BY <1>1, RInvariance, PTL

(* db_mysql_pool_return: with two threads no slot stays marked without a   *)
(* borrower, even when both were handed the same one: each gives back a    *)
(* pointer that still stands in its slot, as nobody closed it meanwhile.   *)
(* With three, two of them may reconnect at once and a slot is lost.       *)
THEOREM SlotsReturned == ASSUME TwoThreads PROVE Spec => []NoSlotLeak
<1>1. RInv => NoSlotLeak
  BY DEF RInv, GInv
<1>2. QED
  BY <1>1, RInvariance, PTL

(* active_count, set from a loop that runs without the lock, is the number *)
(* of connected slots whenever nobody reconnects.                          *)
THEOREM CountTrue == ASSUME TwoThreads PROVE Spec => []ActiveCountTruth
<1>1. RInv => ActiveCountTruth
  BY DEF RInv, Progress
<1>2. QED
  BY <1>1, RInvariance, PTL

-----------------------------------------------------------------------------
(* Exclusion, for a pool that started complete.                            *)

AllConnected == StartSets = {Slots}

Settled ==
  /\ connected = [i \in Slots |-> TRUE]
  /\ activeCount = PoolSize
  /\ reconnecting = FALSE

Borrowers ==
  /\ pc \in [Threads -> {"idle", "scan", "sleep", "waiting", "query", "return"}]
  /\ held \in [Threads -> 0..PoolSize]
  /\ \A t \in Threads : held[t] # 0 <=> pc[t] \in {"query", "return"}
  /\ dangling = {}

Marks ==
  /\ inUse \in [Slots -> BOOLEAN]
  /\ \A t \in Threads : held[t] # 0 => inUse[held[t]]

IInv == Settled /\ Borrowers /\ Marks /\ ExclusiveBorrow

-----------------------------------------------------------------------------
(* Initially every slot is connected and counted, and none is borrowed.    *)
LEMMA InitIInv == ASSUME AllConnected, Init PROVE IInv
<1>1. connected = [i \in Slots |-> TRUE]
  BY DEF Init, AllConnected
<1>2. {i \in Slots : connected[i]} = 1..PoolSize
  BY <1>1 DEF Slots
<1>3. activeCount = PoolSize
  <2>1. PoolSize \in Nat
    BY PoolSizeAssumption
  <2>2. Cardinality(1..PoolSize) = PoolSize
    BY <2>1, FS_Interval, SMT
  <2>3. QED
    BY <1>2, <2>2 DEF Init
<1>4. Settled
  BY <1>1, <1>3 DEF Init, Settled
<1>5. Borrowers /\ Marks
  BY PoolSizeAssumption DEF Init, Borrowers, Marks
<1>6. ExclusiveBorrow
  BY DEF Init, ExclusiveBorrow
<1>7. QED
  BY <1>4, <1>5, <1>6 DEF IInv

(* A scan takes a slot that nobody has, and a slot of the pool.            *)
LEMMA TakeIInv ==
  ASSUME IInv, NEW t \in Threads, Take(t)
  PROVE  IInv'
<1>1. PICK i \in Free :
        /\ inUse' = [inUse EXCEPT ![i] = TRUE]
        /\ held' = [held EXCEPT ![t] = i]
  BY DEF Take
<1>2. i \in Slots /\ ~inUse[i] /\ i # 0 /\ i \in 0..PoolSize
  BY <1>1, PoolSizeAssumption DEF Free, Slots
<1>3. \A u \in Threads : held[u] # i
  BY <1>2 DEF IInv, Marks
<1>4. /\ pc' = [pc EXCEPT ![t] = "query"]
      /\ UNCHANGED <<conn, connected, activeCount, reconnecting, dangling>>
      /\ pc[t] = "scan"
  BY DEF Take, Goto, poolVars
<1>5. Settled'
  BY <1>4 DEF IInv, Settled
<1>6. Borrowers'
  BY <1>1, <1>2, <1>4 DEF IInv, Borrowers
<1>7. Marks'
  <2>1. inUse' \in [Slots -> BOOLEAN]
    BY <1>1, <1>2 DEF IInv, Marks
  <2>2. ASSUME NEW u \in Threads, held'[u] # 0 PROVE inUse'[held'[u]]
    <3>1. CASE u = t
      BY <3>1, <1>1, <1>2 DEF IInv, Marks, Borrowers
    <3>2. CASE u # t
      <4>1. held'[u] = held[u] /\ held[u] \in Slots
        BY <3>2, <2>2, <1>1, PoolSizeAssumption DEF IInv, Borrowers, Slots
      <4>2. QED
        BY <4>1, <2>2, <1>1 DEF IInv, Marks
    <3>3. QED
      BY <3>1, <3>2
  <2>3. QED
    BY <2>1, <2>2 DEF Marks
<1>8. ExclusiveBorrow'
  BY <1>1, <1>3 DEF IInv, ExclusiveBorrow, Borrowers
<1>9. QED
  BY <1>5, <1>6, <1>7, <1>8 DEF IInv

(* A return frees the returner's slot and no other one.                    *)
LEMMA ReturnIInv ==
  ASSUME IInv, NEW t \in Threads, Return(t)
  PROVE  IInv'
<1>1. /\ pc[t] = "return"
      /\ inUse' = [inUse EXCEPT ![held[t]] = FALSE]
      /\ held' = [held EXCEPT ![t] = 0]
      /\ UNCHANGED <<conn, connected, activeCount, reconnecting, dangling>>
  BY DEF Return, Released, poolVars, IInv, Borrowers
<1>2. held[t] \in Slots
  BY <1>1, PoolSizeAssumption DEF IInv, Borrowers, Slots
<1>3. \E u \in Threads : (u = t \/ pc[u] = "waiting") /\
        pc' = IF u = t THEN [pc EXCEPT ![t] = "idle"]
                       ELSE [pc EXCEPT ![t] = "idle", ![u] = "scan"]
  <2>1. CASE pc' = [pc EXCEPT ![t] = "idle"]
    BY <2>1
  <2>2. CASE \E u \in Waiters : pc' = [pc EXCEPT ![t] = "idle", ![u] = "scan"]
    BY <2>2, <1>1 DEF Waiters
  <2>3. QED
    BY <2>1, <2>2 DEF Return, Goto
<1>4. Settled'
  BY <1>1 DEF IInv, Settled
<1>5. Borrowers'
  BY <1>1, <1>3, PoolSizeAssumption DEF IInv, Borrowers
<1>6. Marks'
  BY <1>1, <1>2, PoolSizeAssumption DEF IInv, Marks, Borrowers, ExclusiveBorrow, Slots
<1>7. ExclusiveBorrow'
  BY <1>1 DEF IInv, ExclusiveBorrow, Borrowers
<1>8. QED
  BY <1>4, <1>5, <1>6, <1>7 DEF IInv

(* With every slot counted, no scan goes on to a reconnection.             *)
LEMMA NobodyReconnects ==
  ASSUME IInv, NEW t \in Threads
  PROVE  ~GoReconnect(t) /\ ~Reconnect(t)
<1>1. ~Reconnectable
  BY PoolSizeAssumption DEF IInv, Settled, Reconnectable
<1>2. pc[t] \in {"idle", "scan", "sleep", "waiting", "query", "return"}
  BY DEF IInv, Borrowers
<1>3. QED
  BY <1>1, <1>2 DEF GoReconnect, Reconnect, Check, Claim, SkipSlot, OpenSlot, Connect,
     Publish, Unmark, SetActiveCount, Finish

(* Every step keeps the inductive invariant.                               *)
LEMMA NextIInv == ASSUME IInv, [Next]_vars PROVE IInv'
<1>1. ASSUME NEW t \in Threads, Borrow(t) PROVE IInv'
  BY <1>1 DEF Borrow, Goto, slotVars, poolVars, IInv, Settled, Borrowers, Marks,
     ExclusiveBorrow
<1>2. ASSUME NEW t \in Threads, GoWait(t) PROVE IInv'
  BY <1>2 DEF GoWait, Goto, slotVars, poolVars, localVars, IInv, Settled, Borrowers, Marks,
     ExclusiveBorrow
<1>3. ASSUME NEW t \in Threads, Sleep(t) \/ SpuriousWakeup(t) \/ TimeOut(t) PROVE IInv'
  BY <1>3 DEF Sleep, SpuriousWakeup, TimeOut, Goto, slotVars, poolVars, localVars, IInv,
     Settled, Borrowers, Marks, ExclusiveBorrow
<1>4. ASSUME NEW t \in Threads, Query(t) PROVE IInv'
  BY <1>4 DEF Query, Goto, poolVars, localVars, IInv, Settled, Borrowers, Marks,
     ExclusiveBorrow
<1>5. ASSUME NEW t \in Threads, Deadline(t) PROVE IInv'
  BY <1>5 DEF Deadline, slotVars, poolVars, IInv, Settled, Borrowers, Marks,
     ExclusiveBorrow
<1>6. ASSUME NEW i \in Slots, ServerCloses(i) PROVE IInv'
  BY <1>6 DEF ServerCloses, poolVars, localVars, IInv, Settled, Borrowers, Marks,
     ExclusiveBorrow
<1>7. CASE Tick
  BY <1>7 DEF Tick, slotVars, localVars, IInv, Settled, Borrowers, Marks,
     ExclusiveBorrow
<1>8. CASE UNCHANGED vars
  BY <1>8 DEF vars, slotVars, poolVars, localVars, IInv, Settled, Borrowers, Marks,
     ExclusiveBorrow
<1>9. QED
  BY <1>1, <1>2, <1>3, <1>4, <1>5, <1>6, <1>7, <1>8, TakeIInv, ReturnIInv, NobodyReconnects
     DEF Next, Step

(* The inductive invariant holds in every state of a pool that started     *)
(* complete.                                                               *)
THEOREM Invariance == ASSUME AllConnected PROVE Spec => []IInv
<1>1. Init => IInv
  BY InitIInv
<1>2. IInv /\ [Next]_vars => IInv'
  BY NextIInv
<1>3. QED
  BY <1>1, <1>2, PTL DEF Spec

(* db_mysql_pool_borrow: two threads never have the same handle, for every *)
(* size of the pool and any number of threads, if the pool started         *)
(* complete.                                                               *)
THEOREM BorrowExclusive == ASSUME AllConnected PROVE Spec => []ExclusiveBorrow
<1>1. IInv => ExclusiveBorrow
  BY DEF IInv
<1>2. QED
  BY <1>1, Invariance, PTL

-----------------------------------------------------------------------------
(* The refinement of LeasePool.  Asking and the leases change only in      *)
(* Borrow, Take, TimeOut and Return; the invariant is needed where a       *)
(* handle is granted: a free slot is in nobody's hands.                    *)

late == {t \in Asking : expired[t]}

(* At the start nobody asks and nothing is lent.                           *)
LEMMA InitLeases == Init => Leases!Init
<1> SUFFICES ASSUME Init PROVE Leases!Init
  OBVIOUS
<1>1. Asking = {}
  BY DEF Init, Asking
<1>2. held = [t \in Threads |-> 0]
  BY DEF Init
<1>3. QED
  BY <1>1, <1>2 DEF Leases!Init

(* A step in which nobody enters or leaves borrow, no deadline passes and  *)
(* no handle changes hands is none of the pool of leases.                  *)
LEMMA LeasesStutter ==
  ASSUME Asking' = Asking, held' = held, \A t \in Asking : expired'[t] = expired[t]
  PROVE  UNCHANGED Leases!vars
<1>1. late' = late
  BY DEF late
<1>2. QED
  BY <1>1 DEF late, Leases!vars

(* Who moves between places inside borrow, or outside of it, changes       *)
(* nothing in Asking.                                                      *)
LEMMA AskingMoves ==
  ASSUME IInv, NEW t \in Threads, NEW label,
         pc' = [pc EXCEPT ![t] = label],
         label \in {"idle", "query", "return"} <=> pc[t] \in {"idle", "query", "return"}
  PROVE  Asking' = Asking
<1>1. pc'[t] = label /\ \A u \in Threads : u # t => pc'[u] = pc[u]
  BY DEF IInv, Borrowers
<1>2. \A u \in Threads : pc'[u] \notin {"idle", "query", "return"}
                          <=> pc[u] \notin {"idle", "query", "return"}
  BY <1>1
<1>3. QED
  BY <1>2 DEF Asking

(* db_mysql_pool_borrow is entered.                                        *)
LEMMA BorrowAsks ==
  ASSUME IInv, expired \in [Threads -> BOOLEAN], NEW t \in Threads, Borrow(t)
  PROVE  Leases!Ask(t)
<1>1. /\ pc[t] = "idle" /\ pc' = [pc EXCEPT ![t] = "scan"]
      /\ expired' = [expired EXCEPT ![t] = FALSE]
      /\ held' = held
  BY DEF Borrow, Goto
<1>2. t \notin Asking /\ held[t] = 0
  BY <1>1 DEF Asking, IInv, Borrowers
<1>3. Asking' = Asking \cup {t}
  BY <1>1 DEF Asking, IInv, Borrowers
<1>4. late' = late
  <2>1. ~expired'[t]
    BY <1>1
  <2>2. QED
    BY <1>1, <1>2, <1>3, <2>1 DEF late
<1>5. QED
  BY <1>1, <1>2, <1>3, <1>4 DEF late, Leases!Ask

(* The scan finds a slot: nobody has it.                                   *)
LEMMA TakeGrants ==
  ASSUME IInv, NEW t \in Threads, Take(t)
  PROVE  Leases!Grant(t)
<1>1. PICK i \in Free : held' = [held EXCEPT ![t] = i]
  BY DEF Take
<1>2. /\ pc[t] = "scan" /\ pc' = [pc EXCEPT ![t] = "query"]
      /\ expired' = expired
  BY DEF Take, Goto
<1>3. t \in Asking /\ Asking' = Asking \ {t}
  BY <1>2 DEF Asking, IInv, Borrowers
<1>4. late' = late \ {t}
  BY <1>2, <1>3 DEF late
<1>5. i \in Slots \ Leases!Leased
  <2>1. \A u \in Threads : held[u] # i
    BY PoolSizeAssumption DEF Free, Slots, IInv, Marks
  <2>2. QED
    BY <2>1 DEF Leases!Leased, Free
<1>6. QED
  BY <1>1, <1>3, <1>4, <1>5 DEF late, Leases!Grant

(* The deadline passes inside borrow.                                      *)
LEMMA DeadlineIsOver ==
  ASSUME IInv, expired \in [Threads -> BOOLEAN], NEW t \in Threads, Deadline(t)
  PROVE  Leases!TimeIsOver(t)
<1>1. /\ pc[t] \notin {"idle", "query", "return"}
      /\ expired' = [expired EXCEPT ![t] = TRUE]
      /\ pc' = pc /\ held' = held
  BY DEF Deadline
<1>2. t \in Asking /\ Asking' = Asking
  BY <1>1 DEF Asking
<1>3. late' = late \cup {t}
  BY <1>1, <1>2 DEF late, Asking
<1>4. QED
  BY <1>1, <1>2, <1>3 DEF late, Leases!TimeIsOver

(* ETIMEDOUT, and only after the deadline.                                 *)
LEMMA TimeOutGivesUp ==
  ASSUME IInv, NEW t \in Threads, TimeOut(t)
  PROVE  Leases!GiveUp(t)
<1>1. /\ pc[t] = "waiting" /\ expired[t] /\ pc' = [pc EXCEPT ![t] = "idle"]
      /\ held' = held /\ expired' = expired
  BY DEF TimeOut, Goto, localVars
<1>2. t \in Asking /\ Asking' = Asking \ {t}
  BY <1>1 DEF Asking, IInv, Borrowers
<1>3. t \in late /\ late' = late \ {t}
  BY <1>1, <1>2 DEF late
<1>4. QED
  BY <1>1, <1>2, <1>3 DEF late, Leases!GiveUp

(* A handle is given back; the waiter that is woken goes on asking.        *)
LEMMA ReturnGivesBack ==
  ASSUME IInv, NEW t \in Threads, Return(t)
  PROVE  Leases!GiveBack(t)
<1>1. /\ pc[t] = "return"
      /\ held' = [held EXCEPT ![t] = 0] /\ expired' = expired
  BY DEF Return
<1>2. held[t] # 0
  BY <1>1 DEF IInv, Borrowers
<1>3. \/ pc' = [pc EXCEPT ![t] = "idle"]
      \/ \E u \in Threads : /\ pc[u] = "waiting"
                            /\ pc' = [pc EXCEPT ![t] = "idle", ![u] = "scan"]
  BY DEF Return, Goto, Waiters
<1>4. \A u \in Threads : pc'[u] \notin {"idle", "query", "return"}
                          <=> pc[u] \notin {"idle", "query", "return"}
  BY <1>1, <1>3 DEF IInv, Borrowers
<1>5. Asking' = Asking
  BY <1>4 DEF Asking
<1>6. late' = late
  BY <1>1, <1>5 DEF late
<1>7. QED
  BY <1>1, <1>2, <1>5, <1>6 DEF late, Leases!GiveBack

(* Every step is one of the pool of leases, or none.                       *)
LEMMA NextLeases ==
  ASSUME IInv, TypeOK, [Next]_vars
  PROVE  [Leases!Next]_(Leases!vars)
<1>1. ASSUME NEW t \in Threads, Borrow(t) PROVE Leases!Next
  BY <1>1, BorrowAsks DEF Leases!Next, TypeOK
<1>2. ASSUME NEW t \in Threads, Take(t) PROVE Leases!Next
  BY <1>2, TakeGrants DEF Leases!Next
<1>3. ASSUME NEW t \in Threads, Deadline(t) PROVE Leases!Next
  BY <1>3, DeadlineIsOver DEF Leases!Next, TypeOK
<1>4. ASSUME NEW t \in Threads, TimeOut(t) PROVE Leases!Next
  BY <1>4, TimeOutGivesUp DEF Leases!Next
<1>5. ASSUME NEW t \in Threads, Return(t) PROVE Leases!Next
  BY <1>5, ReturnGivesBack DEF Leases!Next
<1>6. ASSUME NEW t \in Threads, GoWait(t) \/ Sleep(t) \/ SpuriousWakeup(t) \/ Query(t)
      PROVE  UNCHANGED Leases!vars
  <2>1. held' = held /\ expired' = expired
    BY <1>6 DEF GoWait, Sleep, SpuriousWakeup, Query, localVars
  <2>2. Asking' = Asking
    BY <1>6, AskingMoves DEF GoWait, Sleep, SpuriousWakeup, Query, Goto
  <2>3. QED
    BY <2>1, <2>2, LeasesStutter
<1>7. ASSUME UNCHANGED <<pc, held, expired>> PROVE UNCHANGED Leases!vars
  BY <1>7, LeasesStutter DEF Asking
<1>8. ASSUME NEW i \in Slots, ServerCloses(i) PROVE UNCHANGED Leases!vars
  BY <1>7, <1>8 DEF ServerCloses, localVars
<1>9. CASE Tick
  BY <1>7, <1>9 DEF Tick, localVars
<1>10. CASE UNCHANGED vars
  BY <1>7, <1>10 DEF vars, localVars
<1>11. QED
  BY <1>1, <1>2, <1>3, <1>4, <1>5, <1>6, <1>8, <1>9, <1>10, NobodyReconnects DEF Next, Step

(* db_mysql_pool_borrow and db_mysql_pool_return, with in_use, pool_cond   *)
(* and a lock that is free while a waiter decides, implement the pool of   *)
(* leases, for every size of the pool and any number of threads, if the    *)
(* pool started complete: a handle goes only to a thread that asks, while  *)
(* nobody has it, and NULL only to one whose deadline has passed.          *)
THEOREM LeasesKept == ASSUME AllConnected PROVE Spec => ImplementsLeasePool
<1>1. Init => Leases!Init
  BY InitLeases
<1>2. IInv /\ TypeOK /\ [Next]_vars => [Leases!Next]_(Leases!vars)
  BY NextLeases
<1>3. QED
  BY <1>1, <1>2, Invariance, TypeCorrect, PTL DEF Spec, ImplementsLeasePool, Leases!Spec
=============================================================================
