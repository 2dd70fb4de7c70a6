-------------------------- MODULE TaskQueueProofs --------------------------
(***************************************************************************)
(* Proofs about TaskQueue for every queue limit, every set of addresses    *)
(* and every bound on submissions.                                         *)
(*                                                                         *)
(* The inductive invariant adds two facts to the properties the runs       *)
(* check: Numbering (the list holds the last Len(order) tasks submitted,   *)
(* everything older is handled, lost or in hand) and Phases (what the      *)
(* worker and the main thread may be doing at the same time).              *)
(***************************************************************************)
EXTENDS TaskQueue, SequenceTheorems, TLAPS

Handled == {handled[i] : i \in DOMAIN handled}

Numbering ==
  /\ Len(order) <= submitted
  /\ \A i \in 1..Len(order) : data[order[i]] = submitted - Len(order) + i
  /\ \A t \in Handled \cup lost : t \in 1..(submitted - Len(order))
  /\ current # NULL =>
       /\ data[current] \in 1..(submitted - Len(order))
       /\ data[current] \notin lost
       /\ \A t \in Handled : t < data[current]
  /\ \A t \in 1..(submitted - Len(order)) :
       t \in Handled \/ t \in lost \/ (current # NULL /\ t = data[current])

Phases ==
  /\ (worker = "execute") <=> (current # NULL)
  /\ shutdown => main \in {"joining", "stopped", "destroyed"}
  /\ main \in {"joining", "stopped"} => shutdown
  /\ main = "stopped" => worker = "exited"
  /\ main \in {"created", "workerless"} => worker = "none"
  /\ main \in {"running", "pilled", "joining"} => worker # "none"
  /\ worker \in {"none", "exited"} => order = <<>>
  /\ worker = "exited" => shutdown
  /\ main = "destroyed" => worker \in {"none", "exited"}

IInv ==
  /\ TypeOK
  /\ ListShape
  /\ NoLostWakeup
  /\ InOrderAtMostOnce
  /\ Numbering
  /\ Phases

-----------------------------------------------------------------------------
(* Sequences *)

(* The tail of a nonempty sequence shifts every element down by one.       *)
LEMMA TailShifts ==
  ASSUME NEW S, NEW s \in Seq(S), s # <<>>
  PROVE  /\ Tail(s) \in Seq(S)
         /\ Len(s) \in Nat /\ Len(s) > 0
         /\ Len(Tail(s)) = Len(s) - 1
         /\ \A i \in 1..(Len(s) - 1) : Tail(s)[i] = s[i + 1]
         /\ Tail(s) = <<>> <=> Len(s) = 1
<1>1. /\ Tail(s) \in Seq(S)
      /\ Len(Tail(s)) = Len(s) - 1
      /\ \A i \in 1..Len(Tail(s)) : Tail(s)[i] = s[i + 1]
  BY HeadTailProperties
<1>2. Len(s) \in Nat /\ Len(s) # 0
  BY EmptySeq, LenProperties
<1>3. Tail(s) = <<>> <=> Len(Tail(s)) = 0
  BY <1>1, EmptySeq
<1>4. QED
  BY <1>1, <1>2, <1>3

(* Append keeps every element and puts the new one last.                   *)
LEMMA AppendKeeps ==
  ASSUME NEW S, NEW s \in Seq(S), NEW e \in S
  PROVE  /\ Append(s, e) \in Seq(S)
         /\ Len(Append(s, e)) = Len(s) + 1
         /\ \A i \in 1..Len(s) : Append(s, e)[i] = s[i]
         /\ Append(s, e)[Len(s) + 1] = e
         /\ Append(s, e) # <<>>
  BY AppendProperties

-----------------------------------------------------------------------------
(* The critical section of queue_push                                      *)

(* The list that remains after the overflow check is a suffix of the list, *)
(* has room for a node, and first and last point at its ends.              *)
LEMMA PushRest ==
  ASSUME IInv
  PROVE  LET rest  == IF Overflowing THEN Tail(order) ELSE order
             first == IF Overflowing THEN next[head] ELSE head
             last  == IF first = NULL THEN NULL ELSE tail
         IN /\ rest \in Seq(Nodes)
            /\ Len(rest) = IF Overflowing THEN Len(order) - 1 ELSE Len(order)
            /\ Len(rest) \in 0..(MaxQueue - 1)
            /\ \A i \in 1..Len(rest) :
                 rest[i] = IF Overflowing THEN order[i + 1] ELSE order[i]
            /\ first = IF rest = <<>> THEN NULL ELSE rest[1]
            /\ last = IF rest = <<>> THEN NULL ELSE rest[Len(rest)]
            /\ \A i \in 1..Len(rest) : rest[i] \in Nodes
            /\ Overflowing => order # <<>> /\ head = order[1]
<1> DEFINE rest  == IF Overflowing THEN Tail(order) ELSE order
           first == IF Overflowing THEN next[head] ELSE head
           last  == IF first = NULL THEN NULL ELSE tail
<1>1. /\ order \in Seq(Nodes) /\ Len(order) \in Nat
      /\ (order = <<>>) <=> (Len(order) = 0)
      /\ \A i \in 1..Len(order) : order[i] \in Nodes
  BY EmptySeq, LenProperties, ElementOfSeq DEF IInv, TypeOK
<1>2. CASE Overflowing
  <2>1. order # <<>> /\ head = order[1]
    BY <1>2, NullAssumption DEF IInv, ListShape, Overflowing
  <2>2. /\ rest \in Seq(Nodes)
        /\ Len(rest) = Len(order) - 1
        /\ \A i \in 1..(Len(order) - 1) : rest[i] = order[i + 1]
        /\ rest = <<>> <=> Len(order) = 1
    BY <1>1, <1>2, <2>1, TailShifts
  <2>a. /\ first = next[head]
        /\ last = IF first = NULL THEN NULL ELSE tail
    BY <1>2
  <2> HIDE DEF rest, first, last
  <2>3. first = IF rest = <<>> THEN NULL ELSE rest[1]
    <3>1. CASE Len(order) = 1
      BY <1>1, <2>1, <2>2, <2>a, <3>1 DEF IInv, ListShape
    <3>2. CASE Len(order) # 1
      <4>1. next[order[1]] = order[2]
        BY <1>1, <2>1, <3>2 DEF IInv, ListShape
      <4>2. QED
        BY <1>1, <2>1, <2>2, <2>a, <3>2, <4>1
    <3>3. QED
      BY <3>1, <3>2
  <2>4. last = IF rest = <<>> THEN NULL ELSE rest[Len(rest)]
    <3>1. CASE Len(order) = 1
      BY <2>2, <2>3, <2>a, <3>1
    <3>2. CASE Len(order) # 1
      <4>1. rest # <<>> /\ rest[1] \in Nodes /\ rest[Len(rest)] = order[Len(order)]
        BY <1>1, <2>1, <2>2, <3>2
      <4>2. tail = order[Len(order)]
        BY <2>1 DEF IInv, ListShape
      <4>3. QED
        BY <2>3, <2>a, <4>1, <4>2, NullAssumption
    <3>3. QED
      BY <3>1, <3>2
  <2>5. Len(order) \in 1..MaxQueue
    BY <1>1, <2>1, MaxQueueAssumption DEF IInv, TypeOK, ListShape
  <2>6. QED
    <3>1. \A i \in 1..Len(rest) : rest[i] \in Nodes
      BY <1>1, <2>2
    <3>2. QED
      BY <1>2, <2>1, <2>2, <2>3, <2>4, <2>5, <3>1, MaxQueueAssumption
      DEF rest, first, last
<1>3. CASE ~Overflowing
  <2>1. Len(order) < MaxQueue
    <3>1. CASE order = <<>>
      BY <1>1, <3>1, MaxQueueAssumption
    <3>2. CASE order # <<>>
      BY <1>1, <1>3, <3>2, NullAssumption, MaxQueueAssumption
      DEF IInv, ListShape, Overflowing
    <3>3. QED
      BY <3>1, <3>2
  <2>2. first = head /\ rest = order
    BY <1>3
  <2>3. last = IF order = <<>> THEN NULL ELSE order[Len(order)]
    BY <1>1, <2>2, NullAssumption DEF IInv, ListShape
  <2>4. first = IF order = <<>> THEN NULL ELSE order[1]
    BY <2>2 DEF IInv, ListShape
  <2>5. QED
    BY <1>1, <1>3, <2>1, <2>2, <2>3, <2>4, MaxQueueAssumption
<1>4. QED
  BY <1>2, <1>3

(* A push, whichever thread state it leaves behind, keeps the invariant.   *)
LEMMA PushPreserves ==
  ASSUME IInv, NEW n \in Nodes, Push(n),
         main = "running", main' \in {"running", "pilled"}
  PROVE  IInv'
<1> DEFINE rest  == IF Overflowing THEN Tail(order) ELSE order
           first == IF Overflowing THEN next[head] ELSE head
           last  == IF first = NULL THEN NULL ELSE tail
           kept  == Len(rest)
<1>1. /\ rest \in Seq(Nodes)
      /\ kept = IF Overflowing THEN Len(order) - 1 ELSE Len(order)
      /\ kept \in 0..(MaxQueue - 1)
  BY PushRest
<1>2. /\ Overflowing => \A i \in 1..kept : rest[i] = order[i + 1]
      /\ ~Overflowing => \A i \in 1..kept : rest[i] = order[i]
      /\ \A i \in 1..kept : rest[i] \in Nodes
  BY PushRest
<1>3. /\ first = IF rest = <<>> THEN NULL ELSE rest[1]
      /\ last = IF rest = <<>> THEN NULL ELSE rest[kept]
      /\ Overflowing => order # <<>> /\ head = order[1]
  BY PushRest
<1>4. /\ n \notin InUse
      /\ submitted' = submitted + 1
      /\ data' = [data EXCEPT ![n] = submitted + 1]
  BY DEF Push
<1>5. /\ lost' = IF Overflowing THEN lost \cup {data[head]} ELSE lost
      /\ count' = IF Overflowing THEN count ELSE count + 1
  BY DEF Push
<1>6. /\ head' = IF last = NULL THEN n ELSE first
      /\ next' = IF last = NULL THEN [next EXCEPT ![n] = NULL]
                 ELSE [next EXCEPT ![n] = NULL, ![last] = n]
      /\ tail' = n
  BY DEF Push
<1>7. order' = Append(rest, n)
  BY DEF Push
<1>8. worker' = Woken /\ UNCHANGED <<shutdown, current, handled>>
  BY DEF Push
<1>9. /\ order \in Seq(Nodes) /\ Len(order) \in Nat
      /\ (order = <<>>) <=> (Len(order) = 0)
      /\ DOMAIN order = 1..Len(order)
      /\ \A i \in 1..Len(order) : order[i] \in Nodes
      /\ MaxQueue \in Nat /\ MaxQueue > 0
  BY MaxQueueAssumption, EmptySeq, LenProperties, ElementOfSeq DEF IInv, TypeOK
<1>10. /\ kept \in Nat
       /\ (rest = <<>>) <=> (kept = 0)
  BY <1>1, EmptySeq, LenProperties
<1>11. /\ order' \in Seq(Nodes)
       /\ Len(order') = kept + 1
       /\ \A i \in 1..kept : order'[i] = rest[i]
       /\ order'[kept + 1] = n
       /\ order' # <<>>
  BY <1>1, <1>7, AppendKeeps
<1> HIDE DEF rest, first, last, kept
<1>12. /\ n # current
       /\ \A i \in 1..Len(order) : order[i] # n
  BY <1>4, <1>9 DEF InUse
<1>13. \A i \in 1..kept : rest[i] # n
  <2>1. CASE Overflowing
    BY <1>1, <1>2, <1>9, <1>12, <2>1
  <2>2. CASE ~Overflowing
    BY <1>1, <1>2, <1>9, <1>12, <2>2
  <2>3. QED
    BY <2>1, <2>2
<1>14. last # NULL => last \in Nodes /\ kept # 0 /\ last = rest[kept]
  BY <1>2, <1>3, <1>10
<1>15. last = NULL <=> kept = 0
  BY <1>2, <1>3, <1>10, NullAssumption
<1>16. first # NULL => first \in Nodes /\ first = rest[1]
  BY <1>2, <1>3, <1>10
<1>17. /\ submitted \in Nat /\ lost \in SUBSET Nat
       /\ next \in [Nodes -> Pointers] /\ data \in [Nodes -> Nat]
       /\ count = Len(order)
  BY DEF IInv, TypeOK, ListShape
<1>a. count' = kept + 1
  <2>1. CASE Overflowing
    BY <1>1, <1>5, <1>9, <1>17, <2>1
  <2>2. CASE ~Overflowing
    BY <1>1, <1>5, <1>9, <1>17, <2>2
  <2>3. QED
    BY <2>1, <2>2
<1>18. TypeOK'
  <2>1. count' \in 0..MaxQueue
    <3>1. kept + 1 \in 0..MaxQueue
      <4>1. kept \in 0..(MaxQueue - 1)
        BY <1>1
      <4>2. QED
        BY <4>1, MaxQueueAssumption
    <3>2. QED
      BY <1>a, <3>1
  <2>2. next' \in [Nodes -> Pointers]
    BY <1>6, <1>14, <1>17 DEF Pointers
  <2>3. head' \in Pointers /\ tail' \in Pointers
    BY <1>3, <1>6, <1>10, <1>14, <1>15, <1>16 DEF Pointers
  <2>4. Overflowing => data[head] \in Nat
    BY <1>3, <1>9, <1>17
  <2>5. lost' \in SUBSET Nat
    BY <1>5, <1>17, <2>4
  <2>6. data' \in [Nodes -> Nat] /\ submitted' \in Nat
    BY <1>4, <1>17
  <2>7. worker' \in {"none", "poll", "asleep", "execute", "exited"}
    BY <1>8 DEF IInv, TypeOK, Woken
  <2>8. current' \in Pointers /\ shutdown' \in BOOLEAN /\ handled' \in Seq(Nat)
    BY <1>8 DEF IInv, TypeOK
  <2>9. QED
    BY <1>11, <2>1, <2>2, <2>3, <2>5, <2>6, <2>7, <2>8 DEF TypeOK
<1>19. ListShape'
  <2>1. count' = Len(order')
    BY <1>11, <1>a
  <2>2. head' = order'[1]
    BY <1>3, <1>6, <1>10, <1>11, <1>15
  <2>3. tail' = order'[Len(order')]
    BY <1>6, <1>11
  <2>4. next'[n] = NULL
    BY <1>6, <1>10, <1>13, <1>14, <1>17
  <2>5. ASSUME NEW i \in 1..kept
        PROVE  next'[order'[i]] = order'[i + 1]
    <3>1. /\ order'[i] = rest[i] /\ rest[i] \in Nodes /\ rest[i] # n
          /\ last # NULL /\ last = rest[kept] /\ last \in Nodes
      BY <1>2, <1>10, <1>11, <1>13, <1>14, <1>15
    <3>2. CASE i = kept
      BY <1>6, <1>11, <1>17, <3>1, <3>2
    <3>3. CASE i # kept
      <4>1. i + 1 \in 1..kept /\ kept \in 1..kept
        BY <1>10, <3>3
      <4>2. next[rest[i]] = rest[i + 1]
        <5>1. CASE Overflowing
          <6>1. i + 1 \in 1..(Len(order) - 1)
            BY <1>1, <1>9, <4>1, <5>1
          <6>2. next[order[i + 1]] = order[(i + 1) + 1]
            BY <6>1 DEF IInv, ListShape
          <6>3. rest[i] = order[i + 1] /\ rest[i + 1] = order[(i + 1) + 1]
            BY <1>2, <4>1, <5>1
          <6>4. QED
            BY <6>2, <6>3
        <5>2. CASE ~Overflowing
          <6>1. i \in 1..(Len(order) - 1)
            BY <1>1, <1>9, <4>1, <5>2
          <6>2. next[order[i]] = order[i + 1]
            BY <6>1 DEF IInv, ListShape
          <6>3. rest[i] = order[i] /\ rest[i + 1] = order[i + 1]
            BY <1>2, <4>1, <5>2
          <6>4. QED
            BY <6>2, <6>3
        <5>3. QED
          BY <5>1, <5>2
      <4>3. rest[i] # rest[kept]
        <5>1. CASE Overflowing
          <6>1. i + 1 \in 1..Len(order) /\ kept + 1 \in 1..Len(order) /\ i + 1 # kept + 1
            BY <1>1, <1>9, <3>3, <4>1, <5>1
          <6>2. order[i + 1] # order[kept + 1]
            BY <6>1 DEF IInv, ListShape
          <6>3. QED
            BY <1>2, <4>1, <5>1, <6>2
        <5>2. CASE ~Overflowing
          <6>1. i \in 1..Len(order) /\ kept \in 1..Len(order)
            BY <1>1, <1>9, <4>1, <5>2
          <6>2. order[i] # order[kept]
            BY <3>3, <6>1 DEF IInv, ListShape
          <6>3. QED
            BY <1>2, <4>1, <5>2, <6>2
        <5>3. QED
          BY <5>1, <5>2
      <4>4. next'[rest[i]] = next[rest[i]]
        BY <1>6, <1>17, <3>1, <4>3
      <4>5. order'[i + 1] = rest[i + 1]
        BY <1>11, <4>1
      <4>6. QED
        BY <3>1, <4>2, <4>4, <4>5
    <3>4. QED
      BY <3>2, <3>3
  <2>6. ASSUME NEW i \in 1..kept, NEW j \in 1..kept, rest[i] = rest[j]
        PROVE  i = j
    <3>1. CASE Overflowing
      <4>1. i + 1 \in 1..Len(order) /\ j + 1 \in 1..Len(order)
        BY <1>1, <1>9, <3>1
      <4>2. order[i + 1] = order[j + 1]
        BY <1>2, <2>6, <3>1
      <4>3. QED
        BY <4>1, <4>2 DEF IInv, ListShape
    <3>2. CASE ~Overflowing
      BY <1>1, <1>2, <2>6, <3>2 DEF IInv, ListShape
    <3>3. QED
      BY <3>1, <3>2
  <2>7. \A i, j \in 1..Len(order') : order'[i] = order'[j] => i = j
    BY <1>10, <1>11, <1>13, <2>6
  <2>8. \A i \in 1..kept : rest[i] # current
    <3>1. \A i \in 1..Len(order) : order[i] # current
      BY DEF IInv, ListShape
    <3>2. CASE Overflowing
      BY <1>1, <1>2, <1>9, <3>1, <3>2
    <3>3. CASE ~Overflowing
      BY <1>1, <1>2, <1>9, <3>1, <3>3
    <3>4. QED
      BY <3>2, <3>3
  <2>9. \A i \in 1..Len(order') : order'[i] # current'
    BY <1>8, <1>10, <1>11, <1>12, <2>8
  <2>10. \A i \in 1..(Len(order') - 1) : next'[order'[i]] = order'[i + 1]
    BY <1>10, <1>11, <2>5
  <2>11. next'[order'[Len(order')]] = NULL
    BY <1>11, <2>4
  <2>12. QED
    BY <1>11, <2>1, <2>2, <2>3, <2>7, <2>9, <2>10, <2>11 DEF ListShape
<1>20. NoLostWakeup'
  BY <1>8 DEF NoLostWakeup, Woken
<1>21. Handled' = Handled /\ handled' = handled
  BY <1>8 DEF Handled
<1>22. Overflowing =>
         /\ data[head] = submitted - Len(order) + 1
         /\ data[head] \notin Handled
         /\ current # NULL => data[current] # data[head]
  <2>1. SUFFICES ASSUME Overflowing
                 PROVE  /\ data[head] = submitted - Len(order) + 1
                        /\ data[head] \notin Handled
                        /\ current # NULL => data[current] # data[head]
    OBVIOUS
  <2>2. 1 \in 1..Len(order) /\ head = order[1]
    BY <1>3, <1>9, <2>1
  <2>3. data[head] = submitted - Len(order) + 1
    BY <2>2 DEF IInv, Numbering
  <2>4. submitted - Len(order) + 1 \notin 1..(submitted - Len(order))
    BY <1>9, <1>17
  <2>5. QED
    BY <2>3, <2>4 DEF IInv, Numbering
<1>23. InOrderAtMostOnce'
  BY <1>5, <1>21, <1>22 DEF IInv, InOrderAtMostOnce, Handled
<1>24. Numbering'
  <2> DEFINE old == submitted - Len(order)
             new == submitted - kept
  <2>1. /\ submitted' - Len(order') = new
        /\ Overflowing => new = old + 1
        /\ ~Overflowing => new = old
        /\ Len(order') <= submitted'
        /\ old \in Nat /\ new \in Nat
    <3>1. old \in Nat
      BY <1>9, <1>17 DEF IInv, Numbering
    <3>2. CASE Overflowing
      BY <1>1, <1>4, <1>9, <1>10, <1>11, <1>17, <3>1, <3>2
    <3>3. CASE ~Overflowing
      BY <1>1, <1>4, <1>9, <1>10, <1>11, <1>17, <3>1, <3>3
    <3>4. QED
      BY <3>1, <3>2, <3>3
  <2>2. \A t \in Handled \cup lost : t \in 1..old
    BY DEF IInv, Numbering
  <2>3. current # NULL => /\ data[current] \in 1..old
                          /\ data[current] \notin lost
                          /\ \A t \in Handled : t < data[current]
    BY DEF IInv, Numbering
  <2>4. \A t \in 1..old :
          t \in Handled \/ t \in lost \/ (current # NULL /\ t = data[current])
    BY DEF IInv, Numbering
  <2>5. \A i \in 1..Len(order) : data[order[i]] = old + i
    BY DEF IInv, Numbering
  <2>6. Overflowing => data[head] = old + 1
    BY <1>22
  <2>7. current' = current /\ (current # NULL => data'[current] = data[current])
    BY <1>4, <1>8, <1>12, <1>17 DEF IInv, TypeOK, Pointers
  <2>8. ASSUME NEW i \in 1..kept
        PROVE  data'[rest[i]] = new + i
    <3>1. data'[rest[i]] = data[rest[i]]
      BY <1>2, <1>4, <1>13, <1>17
    <3>2. CASE Overflowing
      <4>1. i + 1 \in 1..Len(order) /\ rest[i] = order[i + 1]
        BY <1>1, <1>2, <1>9, <3>2
      <4>2. data[order[i + 1]] = old + (i + 1)
        BY <2>5, <4>1
      <4>3. QED
        BY <2>1, <3>1, <3>2, <4>1, <4>2
    <3>3. CASE ~Overflowing
      <4>1. i \in 1..Len(order) /\ rest[i] = order[i]
        BY <1>1, <1>2, <1>9, <3>3
      <4>2. data[order[i]] = old + i
        BY <2>5, <4>1
      <4>3. QED
        BY <2>1, <3>1, <3>3, <4>1, <4>2
    <3>4. QED
      BY <3>2, <3>3
  <2>9. data'[n] = new + (kept + 1)
    BY <1>4, <1>10, <1>17
  <2> HIDE DEF old, new
  <2>10. \A i \in 1..Len(order') : data'[order'[i]] = new + i
    BY <1>10, <1>11, <2>8, <2>9
  <2>11. \A t \in Handled' \cup lost' : t \in 1..new
    <3>1. CASE Overflowing
      BY <1>5, <1>21, <2>1, <2>2, <2>6, <3>1
    <3>2. CASE ~Overflowing
      BY <1>5, <1>21, <2>1, <2>2, <3>2
    <3>3. QED
      BY <3>1, <3>2
  <2>12. current' # NULL =>
          /\ data'[current'] \in 1..new
          /\ data'[current'] \notin lost'
          /\ \A t \in Handled' : t < data'[current']
    <3>1. CASE Overflowing
      BY <1>5, <1>21, <1>22, <2>1, <2>3, <2>6, <2>7, <3>1
    <3>2. CASE ~Overflowing
      BY <1>5, <1>21, <2>1, <2>3, <2>7, <3>2
    <3>3. QED
      BY <3>1, <3>2
  <2>13. \A t \in 1..new :
          t \in Handled' \/ t \in lost' \/ (current' # NULL /\ t = data'[current'])
    <3>1. CASE Overflowing
      BY <1>5, <1>21, <2>1, <2>4, <2>6, <2>7, <3>1
    <3>2. CASE ~Overflowing
      BY <1>5, <1>21, <2>1, <2>4, <2>7, <3>2
    <3>3. QED
      BY <3>1, <3>2
  <2>14. QED
    BY <2>1, <2>10, <2>11, <2>12, <2>13 DEF Numbering
<1>25. Phases'
  BY <1>8 DEF IInv, Phases, Woken
<1>26. QED
  BY <1>18, <1>19, <1>20, <1>23, <1>24, <1>25 DEF IInv

-----------------------------------------------------------------------------
(* The other steps                                                         *)

(* Steps that touch neither the list nor the tasks keep the list facts.    *)
LEMMA QuietSteps ==
  ASSUME IInv, UNCHANGED <<queueVars, current, submitted, handled, lost>>
  PROVE  ListShape' /\ InOrderAtMostOnce' /\ Numbering'
<1> USE DEF queueVars
<1>1. ListShape'
  BY DEF IInv, ListShape
<1>2. InOrderAtMostOnce'
  BY DEF IInv, InOrderAtMostOnce
<1>3. Numbering'
  BY DEF IInv, Numbering, Handled
<1>4. QED
  BY <1>1, <1>2, <1>3

(* queue_pop takes the oldest task and leaves a well-formed list.          *)
LEMMA PopPreserves ==
  ASSUME IInv, Pop
  PROVE  IInv'
<1>1. /\ worker = "poll" /\ head # NULL
      /\ current' = head /\ head' = next[head]
      /\ count' = count - 1 /\ order' = Tail(order) /\ worker' = "execute"
      /\ tail' = IF next[head] = NULL THEN NULL ELSE tail
  BY DEF Pop, TailAfterPop
<1>2. UNCHANGED <<next, data, shutdown, main, submitted, handled, lost>>
  BY DEF Pop
<1>3. /\ order \in Seq(Nodes) /\ Len(order) \in Nat
      /\ (order = <<>>) <=> (Len(order) = 0)
      /\ \A i \in 1..Len(order) : order[i] \in Nodes
  BY EmptySeq, LenProperties, ElementOfSeq DEF IInv, TypeOK
<1>4. order # <<>> /\ head = order[1] /\ Len(order) > 0
  BY <1>1, <1>3 DEF IInv, ListShape
<1>5. /\ order' \in Seq(Nodes)
      /\ Len(order') = Len(order) - 1
      /\ \A i \in 1..(Len(order) - 1) : order'[i] = order[i + 1]
      /\ order' = <<>> <=> Len(order) = 1
  BY <1>1, <1>3, <1>4, TailShifts
<1>6. current = NULL
  BY <1>1 DEF IInv, Phases
<1>7. TypeOK'
  <2>1. head \in Nodes
    BY <1>3, <1>4
  <2>2. count' \in 0..MaxQueue
    <3>1. count \in 0..MaxQueue /\ count > 0
      BY <1>4 DEF IInv, TypeOK, ListShape
    <3>2. QED
      BY <1>1, <3>1, MaxQueueAssumption
  <2>3. QED
    BY <1>1, <1>2, <1>5, <2>1, <2>2 DEF IInv, TypeOK, Pointers
<1>8. ListShape'
  <2>1. count' = Len(order')
    BY <1>1, <1>5 DEF IInv, ListShape
  <2>2. CASE Len(order) = 1
    <3>1. next[head] = NULL
      BY <1>4, <2>2 DEF IInv, ListShape
    <3>2. /\ order' = <<>> /\ Len(order') = 0
          /\ head' = NULL /\ tail' = NULL
      BY <1>1, <1>5, <2>2, <3>1
    <3>3. QED
      BY <2>1, <3>2 DEF ListShape
  <2>3. CASE Len(order) > 1
    <3>1. /\ 1 \in 1..(Len(order) - 1) /\ 2 \in 1..Len(order)
          /\ Len(order) - 1 \in 1..(Len(order) - 1)
      <4>1. Len(order) \in Nat
        BY <1>3
      <4>2. QED
        BY <2>3, <4>1
    <3>2. order' # <<>> /\ order'[1] = order[2] /\ order'[Len(order')] = order[Len(order)]
      BY <1>3, <1>5, <2>3, <3>1
    <3>3. next[head] = order[2] /\ order[2] # NULL
      <4>1. next[order[1]] = order[1 + 1]
        BY <3>1 DEF IInv, ListShape
      <4>2. order[2] \in Nodes
        BY <1>3, <3>1
      <4>3. QED
        BY <1>4, <4>1, <4>2, NullAssumption
    <3>4. head' = order'[1] /\ tail' = order'[Len(order')]
      <4>1. tail = order[Len(order)]
        BY <1>4 DEF IInv, ListShape
      <4>2. QED
        BY <1>1, <3>2, <3>3, <4>1
    <3>5. next'[order'[Len(order')]] = NULL
      BY <1>2, <1>4, <3>2 DEF IInv, ListShape
    <3>6. ASSUME NEW i \in 1..(Len(order') - 1)
          PROVE  next'[order'[i]] = order'[i + 1]
      <4>1. /\ i \in 1..(Len(order) - 1) /\ i + 1 \in 1..(Len(order) - 1)
        BY <1>3, <1>5
      <4>2. order'[i] = order[i + 1] /\ order'[i + 1] = order[(i + 1) + 1]
        BY <1>5, <4>1
      <4>3. next[order[i + 1]] = order[(i + 1) + 1]
        BY <4>1 DEF IInv, ListShape
      <4>4. QED
        BY <1>2, <4>2, <4>3
    <3>7. ASSUME NEW i \in 1..Len(order')
          PROVE  /\ order'[i] # current'
                 /\ \A j \in 1..Len(order') : order'[i] = order'[j] => i = j
      <4>1. /\ i \in 1..(Len(order) - 1) /\ i + 1 \in 1..Len(order) /\ i + 1 # 1
            /\ \A j \in 1..Len(order') : j \in 1..(Len(order) - 1) /\ j + 1 \in 1..Len(order)
        BY <1>3, <1>5
      <4>2. order'[i] = order[i + 1] /\ \A j \in 1..Len(order') : order'[j] = order[j + 1]
        BY <1>5, <4>1
      <4>3. order[i + 1] # order[1]
        BY <3>1, <4>1 DEF IInv, ListShape
      <4>4. ASSUME NEW j \in 1..Len(order'), order'[i] = order'[j]
            PROVE  i = j
        <5>1. i + 1 = j + 1
          BY <4>1, <4>2, <4>4 DEF IInv, ListShape
        <5>2. QED
          BY <4>1, <5>1
      <4>5. QED
        BY <1>1, <1>4, <4>2, <4>3, <4>4
    <3>8. QED
      BY <2>1, <3>2, <3>4, <3>5, <3>6, <3>7 DEF ListShape
  <2>4. QED
    <3>1. \A k \in Nat : k > 0 => k = 1 \/ k > 1
      OBVIOUS
    <3>2. Len(order) = 1 \/ Len(order) > 1
      BY <1>3, <1>4, <3>1
    <3>3. QED
      BY <2>2, <2>3, <3>2
<1>9. NoLostWakeup'
  BY <1>1 DEF NoLostWakeup
<1>10. InOrderAtMostOnce'
  BY <1>2 DEF IInv, InOrderAtMostOnce
<1>11. Numbering'
  <2> DEFINE old == submitted - Len(order)
  <2>1. /\ submitted \in Nat /\ old \in Nat
        /\ submitted' - Len(order') = old + 1 /\ Len(order') <= submitted'
    BY <1>2, <1>3, <1>5 DEF IInv, TypeOK, Numbering
  <2>2. data[head] = old + 1
    <3>1. 1 \in 1..Len(order)
      BY <1>3, <1>4
    <3>2. QED
      BY <1>4, <3>1 DEF IInv, Numbering
  <2>3. ASSUME NEW i \in 1..Len(order')
        PROVE  data'[order'[i]] = (old + 1) + i
    <3>1. i \in 1..(Len(order) - 1) /\ i + 1 \in 1..Len(order)
      BY <1>3, <1>5
    <3>2. data[order[i + 1]] = old + (i + 1)
      BY <3>1 DEF IInv, Numbering
    <3>3. QED
      <4>1. data'[order'[i]] = old + (i + 1)
        BY <1>2, <1>5, <3>1, <3>2
      <4>2. i \in Int /\ old \in Int
        BY <2>1, <3>1
      <4> HIDE DEF old
      <4>3. QED
        BY <4>1, <4>2
  <2>4. /\ \A t \in Handled \cup lost : t \in 1..old
        /\ \A t \in 1..old : t \in Handled \/ t \in lost
    BY <1>6 DEF IInv, Numbering
  <2>5. Handled' = Handled /\ lost' = lost /\ data'[current'] = old + 1
    BY <1>1, <1>2, <2>2 DEF Handled
  <2> HIDE DEF old
  <2>6. \A t \in Handled' \cup lost' : t \in 1..(old + 1)
    BY <2>1, <2>4, <2>5
  <2>7. /\ data'[current'] \in 1..(old + 1)
        /\ data'[current'] \notin lost'
        /\ \A t \in Handled' : t < data'[current']
    BY <2>1, <2>4, <2>5
  <2>8. \A t \in 1..(old + 1) : t \in Handled' \/ t \in lost' \/ t = data'[current']
    BY <2>1, <2>4, <2>5
  <2>9. current' # NULL
    BY <1>1
  <2>10. QED
    BY <2>1, <2>3, <2>6, <2>7, <2>8, <2>9 DEF Numbering
<1>12. Phases'
  BY <1>1, <1>2 DEF IInv, TypeOK, Phases
<1>13. QED
  BY <1>7, <1>8, <1>9, <1>10, <1>11, <1>12 DEF IInv

(* The task in hand is appended to handled and leaves the worker's hand.   *)
LEMMA ExecutePreserves ==
  ASSUME IInv, Execute
  PROVE  IInv'
<1>1. /\ worker = "execute" /\ worker' = "poll" /\ current' = NULL
      /\ handled' = Append(handled, data[current])
      /\ UNCHANGED <<queueVars, shutdown, main, submitted, lost>>
  BY DEF Execute
<1>2. current # NULL /\ current \in Nodes /\ data[current] \in Nat
  BY <1>1 DEF IInv, Phases, TypeOK, Pointers
<1>3. /\ handled \in Seq(Nat) /\ Len(handled) \in Nat
      /\ DOMAIN handled = 1..Len(handled)
  BY LenProperties DEF IInv, TypeOK
<1>4. /\ handled' \in Seq(Nat)
      /\ Len(handled') = Len(handled) + 1
      /\ \A i \in 1..Len(handled) : handled'[i] = handled[i]
      /\ handled'[Len(handled) + 1] = data[current]
  BY <1>1, <1>2, <1>3, AppendKeeps
<1>5. DOMAIN handled' = 1..(Len(handled) + 1)
  BY <1>4, LenProperties
<1>6. Handled' = Handled \cup {data[current]}
  <2>1. \A i \in DOMAIN handled' : handled'[i] \in Handled \cup {data[current]}
    BY <1>3, <1>4, <1>5 DEF Handled
  <2>2. \A i \in DOMAIN handled : i \in DOMAIN handled' /\ handled'[i] = handled[i]
    BY <1>3, <1>4, <1>5
  <2>3. Len(handled) + 1 \in DOMAIN handled'
    BY <1>3, <1>5
  <2>4. QED
    BY <1>4, <2>1, <2>2, <2>3 DEF Handled
<1>7. /\ data[current] \notin lost
      /\ \A i \in DOMAIN handled : handled[i] < data[current]
      /\ data[current] \in 1..(submitted - Len(order))
  BY <1>2 DEF IInv, Numbering, Handled
<1>8. TypeOK'
  BY <1>1, <1>4 DEF IInv, TypeOK, queueVars, Pointers
<1>9. ListShape'
  <2>1. \A i \in 1..Len(order) : order[i] # NULL
    BY NullAssumption, ElementOfSeq DEF IInv, TypeOK
  <2>2. QED
    BY <1>1, <2>1 DEF IInv, ListShape, queueVars
<1>10. NoLostWakeup'
  BY <1>1 DEF NoLostWakeup
<1>11. InOrderAtMostOnce'
  <2>1. \A i, j \in DOMAIN handled' : i < j => handled'[i] < handled'[j]
    <3>1. SUFFICES ASSUME NEW i \in 1..(Len(handled) + 1),
                          NEW j \in 1..(Len(handled) + 1), i < j
                   PROVE  handled'[i] < handled'[j]
      BY <1>5
    <3>2. i \in 1..Len(handled)
      BY <1>3, <3>1
    <3>3. CASE j = Len(handled) + 1
      BY <1>3, <1>4, <1>7, <3>2, <3>3
    <3>4. CASE j # Len(handled) + 1
      <4>1. j \in 1..Len(handled)
        BY <1>3, <3>4
      <4>2. handled[i] < handled[j]
        BY <1>3, <3>1, <3>2, <4>1 DEF IInv, InOrderAtMostOnce
      <4>3. QED
        BY <1>4, <3>2, <4>1, <4>2
    <3>5. QED
      BY <3>3, <3>4
  <2>2. \A t \in Handled' : t \notin lost'
    BY <1>1, <1>6, <1>7 DEF IInv, InOrderAtMostOnce, Handled
  <2>3. QED
    BY <2>1, <2>2 DEF InOrderAtMostOnce, Handled
<1>12. Numbering'
  BY <1>1, <1>6, <1>7 DEF IInv, Numbering, queueVars
<1>13. Phases'
  BY <1>1 DEF IInv, Phases, TypeOK, queueVars
<1>14. QED
  BY <1>8, <1>9, <1>10, <1>11, <1>12, <1>13 DEF IInv

-----------------------------------------------------------------------------
(* The invariant                                                           *)

(* queue_init leaves an empty list, on which the invariant holds.          *)
LEMMA InitIInv == Init => IInv
<1> SUFFICES ASSUME Init PROVE IInv
  OBVIOUS
<1>1. order = <<>> /\ Len(order) = 0 /\ order \in Seq(Nodes)
  BY EmptySeq DEF Init
<1>2. handled = <<>> /\ DOMAIN handled = {} /\ handled \in Seq(Nat) /\ Handled = {}
  BY EmptySeq DEF Init, Handled
<1>3. TypeOK
  <2>1. count \in 0..MaxQueue
    BY MaxQueueAssumption DEF Init
  <2>2. next \in [Nodes -> Pointers] /\ data \in [Nodes -> Nat]
    BY DEF Init, Pointers
  <2>3. QED
    BY <1>1, <1>2, <2>1, <2>2 DEF Init, TypeOK, Pointers
<1>4. ListShape
  BY <1>1 DEF Init, ListShape
<1>5. NoLostWakeup /\ Phases
  BY <1>1 DEF Init, NoLostWakeup, Phases
<1>6. InOrderAtMostOnce
  BY <1>2 DEF InOrderAtMostOnce
<1>7. Numbering
  BY <1>1, <1>2 DEF Init, Numbering
<1>8. QED
  BY <1>3, <1>4, <1>5, <1>6, <1>7 DEF IInv

(* Every step of either thread keeps the invariant.                        *)
LEMMA NextIInv == IInv /\ [Next]_vars => IInv'
<1> SUFFICES ASSUME IInv, [Next]_vars PROVE IInv'
  OBVIOUS
<1>1. CASE StartWorker
  <2>1. ListShape' /\ InOrderAtMostOnce' /\ Numbering'
    BY <1>1, QuietSteps DEF StartWorker
  <2>2. TypeOK' /\ NoLostWakeup' /\ Phases'
    BY <1>1 DEF StartWorker, IInv, TypeOK, NoLostWakeup, Phases, queueVars, Pointers
  <2>3. QED
    BY <2>1, <2>2 DEF IInv
<1>2. ASSUME NEW n \in Nodes, Enqueue(n)
      PROVE  IInv'
  BY <1>2, PushPreserves DEF Enqueue
<1>3. CASE StopPush
  <2>1. CASE \E n \in Nodes : Push(n)
    BY <1>3, <2>1, PushPreserves DEF StopPush
  <2>2. CASE UNCHANGED <<queueVars, shutdown, worker, current, submitted, handled, lost>>
    <3>1. ListShape' /\ InOrderAtMostOnce' /\ Numbering'
      BY <2>2, QuietSteps
    <3>2. TypeOK' /\ NoLostWakeup' /\ Phases'
      BY <1>3, <2>2 DEF StopPush, IInv, TypeOK, NoLostWakeup, Phases, queueVars, Pointers
    <3>3. QED
      BY <3>1, <3>2 DEF IInv
  <2>3. QED
    BY <1>3, <2>1, <2>2 DEF StopPush
<1>4. CASE StopFlag
  <2>1. ListShape' /\ InOrderAtMostOnce' /\ Numbering'
    BY <1>4, QuietSteps DEF StopFlag
  <2>2. TypeOK' /\ NoLostWakeup' /\ Phases'
    BY <1>4 DEF StopFlag, Woken, IInv, TypeOK, NoLostWakeup, Phases, queueVars, Pointers
  <2>3. QED
    BY <2>1, <2>2 DEF IInv
<1>5. CASE StopJoin
  <2>1. ListShape' /\ InOrderAtMostOnce' /\ Numbering'
    BY <1>5, QuietSteps DEF StopJoin
  <2>2. TypeOK' /\ NoLostWakeup' /\ Phases'
    BY <1>5 DEF StopJoin, IInv, TypeOK, NoLostWakeup, Phases, queueVars, Pointers
  <2>3. QED
    BY <2>1, <2>2 DEF IInv
<1>6. CASE Destroy
  <2>1. order = <<>> /\ order' = <<>>
    BY <1>6 DEF Destroy, IInv, Phases
  <2>2. head = NULL /\ tail = NULL /\ count = 0
    BY <2>1, EmptySeq DEF IInv, ListShape
  <2>3. UNCHANGED <<queueVars, current, submitted, handled, lost>>
    BY <1>6, <2>1, <2>2 DEF Destroy, queueVars
  <2>4. ListShape' /\ InOrderAtMostOnce' /\ Numbering'
    BY <2>3, QuietSteps
  <2>5. TypeOK' /\ NoLostWakeup' /\ Phases'
    BY <1>6, <2>1, <2>3 DEF Destroy, IInv, TypeOK, NoLostWakeup, Phases, queueVars, Pointers
  <2>6. QED
    BY <2>4, <2>5 DEF IInv
<1>7. CASE Wait
  <2>1. ListShape' /\ InOrderAtMostOnce' /\ Numbering'
    BY <1>7, QuietSteps DEF Wait
  <2>2. TypeOK' /\ NoLostWakeup' /\ Phases'
    BY <1>7 DEF Wait, IInv, TypeOK, NoLostWakeup, Phases, queueVars, Pointers
  <2>3. QED
    BY <2>1, <2>2 DEF IInv
<1>8. CASE Pop
  BY <1>8, PopPreserves
<1>9. CASE Exit
  <2>1. ListShape' /\ InOrderAtMostOnce' /\ Numbering'
    BY <1>9, QuietSteps DEF Exit
  <2>2. order = <<>>
    <3>1. \A i \in 1..Len(order) : order[i] # NULL
      BY NullAssumption, ElementOfSeq DEF IInv, TypeOK
    <3>2. order # <<>> => 1 \in 1..Len(order)
      BY EmptySeq, LenProperties DEF IInv, TypeOK
    <3>3. QED
      BY <1>9, <3>1, <3>2 DEF Exit, IInv, ListShape
  <2>3. TypeOK' /\ NoLostWakeup' /\ Phases'
    BY <1>9, <2>2 DEF Exit, IInv, TypeOK, NoLostWakeup, Phases, queueVars, Pointers
  <2>4. QED
    BY <2>1, <2>3 DEF IInv
<1>10. CASE Execute
  BY <1>10, ExecutePreserves
<1>11. CASE SpuriousWakeup
  <2>1. ListShape' /\ InOrderAtMostOnce' /\ Numbering'
    BY <1>11, QuietSteps DEF SpuriousWakeup
  <2>2. TypeOK' /\ NoLostWakeup' /\ Phases'
    BY <1>11 DEF SpuriousWakeup, IInv, TypeOK, NoLostWakeup, Phases, queueVars, Pointers
  <2>3. QED
    BY <2>1, <2>2 DEF IInv
<1>12. CASE UNCHANGED vars
  <2>1. ListShape' /\ InOrderAtMostOnce' /\ Numbering'
    BY <1>12, QuietSteps DEF vars, queueVars
  <2>2. TypeOK' /\ NoLostWakeup' /\ Phases'
    BY <1>12 DEF vars, IInv, TypeOK, NoLostWakeup, Phases, Pointers
  <2>3. QED
    BY <2>1, <2>2 DEF IInv
<1>13. QED
  BY <1>1, <1>2, <1>3, <1>4, <1>5, <1>6, <1>7, <1>8, <1>9, <1>10, <1>11, <1>12
  DEF Next, Main, Worker

(* The inductive invariant holds in every state of the queue.              *)
THEOREM Invariance == Spec => []IInv
  BY InitIInv, NextIInv, PTL DEF Spec

(* The types of the queue, and the limit DB_QUEUE_MAX_SIZE on its counter. *)
THEOREM TypeCorrect == Spec => []TypeOK
<1>1. IInv => TypeOK
  BY DEF IInv
<1>2. QED
  BY <1>1, Invariance, PTL

(* queue_push and queue_pop keep one well-formed list.                     *)
THEOREM ListCorrect == Spec => []ListShape
<1>1. IInv => ListShape
  BY DEF IInv
<1>2. QED
  BY <1>1, Invariance, PTL

(* The worker never sleeps through a push or a stop.                       *)
THEOREM WakeupCorrect == Spec => []NoLostWakeup
<1>1. IInv => NoLostWakeup
  BY DEF IInv
<1>2. QED
  BY <1>1, Invariance, PTL

(* Tasks are executed in order, none twice and none that was dropped.      *)
THEOREM OrderCorrect == Spec => []InOrderAtMostOnce
<1>1. IInv => InOrderAtMostOnce
  BY DEF IInv
<1>2. QED
  BY <1>1, Invariance, PTL

(* Stopping the context executes everything the overflow did not drop.     *)
THEOREM DrainCorrect == Spec => []StopDrains
<1>1. IInv => StopDrains
  <2>1. SUFFICES ASSUME IInv, main = "destroyed"
                 PROVE  Handled \cup lost = 1..submitted
    BY DEF StopDrains, Handled
  <2>2. order = <<>> /\ current = NULL
    BY <2>1 DEF IInv, Phases
  <2>3. submitted - Len(order) = submitted
    BY <2>1, <2>2, EmptySeq DEF IInv, TypeOK
  <2>4. QED
    BY <2>1, <2>2, <2>3 DEF IInv, Numbering
<1>2. QED
  BY <1>1, Invariance, PTL

-----------------------------------------------------------------------------
(* The refinement of LossyFifo                                             *)

(* The tasks of a well-formed list, as a sequence.                         *)
LEMMA PendingIsSequence ==
  ASSUME IInv
  PROVE  /\ Pending \in Seq(Nat)
         /\ Len(Pending) = Len(order)
         /\ \A i \in 1..Len(order) : Pending[i] = data[order[i]]
         /\ Len(order) \in Nat
         /\ Pending = <<>> <=> order = <<>>
<1>1. /\ Len(order) \in Nat
      /\ \A i \in 1..Len(order) : order[i] \in Nodes
      /\ (order = <<>>) <=> (Len(order) = 0)
  BY EmptySeq, LenProperties, ElementOfSeq DEF IInv, TypeOK
<1>2. \A i \in 1..Len(order) : data[order[i]] \in Nat
  BY <1>1 DEF IInv, TypeOK
<1>3. Pending \in Seq(Nat) /\ Len(Pending) = Len(order)
  BY <1>1, <1>2, IsASeq, LenProperties DEF Pending
<1>4. (Pending = <<>>) <=> (Len(Pending) = 0)
  BY <1>3, EmptySeq
<1>5. \A i \in 1..Len(order) : Pending[i] = data[order[i]]
  BY DEF Pending
<1>6. QED
  BY <1>1, <1>3, <1>4, <1>5

(* A push is a submission: it appends the next number, and loses the       *)
(* oldest waiting task exactly when MaxQueue tasks wait.                   *)
LEMMA PushSubmits ==
  ASSUME IInv, IInv', NEW n \in Nodes, Push(n),
         main = "running", main' \in {"running", "pilled"}
  PROVE  Fifo!Submit
<1>1. /\ submitted < MaxSubmissions /\ submitted' = submitted + 1
      /\ data' = [data EXCEPT ![n] = submitted + 1]
      /\ order' = Append(IF Overflowing THEN Tail(order) ELSE order, n)
      /\ lost' = IF Overflowing THEN lost \cup {data[head]} ELSE lost
      /\ n \notin InUse
      /\ UNCHANGED <<current, handled>>
  BY DEF Push
<1>2. /\ submitted \in Nat /\ data \in [Nodes -> Nat] /\ order \in Seq(Nodes)
      /\ Len(order) \in Nat /\ DOMAIN order = 1..Len(order)
      /\ \A i \in 1..Len(order) : order[i] \in Nodes
  BY LenProperties, ElementOfSeq DEF IInv, TypeOK
<1>3. /\ n # current
      /\ \A i \in 1..Len(order) : order[i] # n
  BY <1>1, <1>2 DEF InUse
<1>4. InHand' = InHand
  BY <1>1, <1>2, <1>3 DEF InHand, IInv, TypeOK, Pointers
<1>5. /\ Pending \in Seq(Nat) /\ Len(Pending) = Len(order)
      /\ \A i \in 1..Len(order) : Pending[i] = data[order[i]]
      /\ Pending = <<>> <=> order = <<>>
  BY PendingIsSequence
<1>6. /\ Pending' \in Seq(Nat) /\ Len(Pending') = Len(order')
      /\ \A i \in 1..Len(order') : Pending'[i] = data'[order'[i]]
  <2>1. \A i \in 1..Len(order') : Pending'[i] = data'[order'[i]]
    BY DEF Pending
  <2>2. \A i \in 1..Len(order') : data'[order'[i]] \in Nat
    BY LenProperties, ElementOfSeq DEF IInv, TypeOK
  <2>3. Pending' \in Seq(Nat) /\ Len(Pending') = Len(order')
    BY <2>2, LenProperties DEF Pending, IInv, TypeOK
  <2>4. QED
    BY <2>1, <2>3
<1>7. submitted + 1 \in Nat
  BY <1>2
<1>8. CASE Overflowing
  <2>1. order # <<>> /\ head = order[1]
    BY <1>8, NullAssumption DEF IInv, ListShape, Overflowing
  <2>2. /\ Tail(order) \in Seq(Nodes) /\ Len(order) > 0
        /\ Len(Tail(order)) = Len(order) - 1
        /\ \A i \in 1..(Len(order) - 1) : Tail(order)[i] = order[i + 1]
    BY <1>2, <2>1, TailShifts
  <2>3. /\ Len(order') = Len(order)
        /\ \A i \in 1..(Len(order) - 1) : order'[i] = order[i + 1]
        /\ order'[Len(order)] = n
    <3>1. order' = Append(Tail(order), n)
      BY <1>1, <1>8
    <3>2. /\ Len(order') = (Len(order) - 1) + 1
          /\ \A i \in 1..(Len(order) - 1) : order'[i] = Tail(order)[i]
          /\ order'[(Len(order) - 1) + 1] = n
      BY <2>2, <3>1, AppendKeeps
    <3>3. (Len(order) - 1) + 1 = Len(order)
      BY <1>2
    <3>4. QED
      BY <2>2, <3>2, <3>3
  <2>4. /\ Tail(Pending) \in Seq(Nat)
        /\ Len(Tail(Pending)) = Len(order) - 1
        /\ \A i \in 1..(Len(order) - 1) : Tail(Pending)[i] = Pending[i + 1]
    BY <1>5, <2>1, TailShifts
  <2> DEFINE A == Append(Tail(Pending), submitted + 1)
  <2>5. /\ A \in Seq(Nat) /\ Len(A) = (Len(order) - 1) + 1
        /\ \A i \in 1..(Len(order) - 1) : A[i] = Tail(Pending)[i]
        /\ A[(Len(order) - 1) + 1] = submitted + 1
    BY <1>7, <2>4, AppendKeeps
  <2>6. Len(A) = Len(order) /\ A[Len(order)] = submitted + 1
    <3>1. (Len(order) - 1) + 1 = Len(order)
      BY <1>2
    <3>2. QED
      BY <2>5, <3>1
  <2> HIDE DEF A
  <2>7. ASSUME NEW i \in 1..Len(order)
        PROVE  Pending'[i] = A[i]
    <3>1. CASE i = Len(order)
      BY <1>1, <1>2, <1>6, <2>3, <2>6, <3>1
    <3>2. CASE i # Len(order)
      <4>1. i \in 1..(Len(order) - 1) /\ i + 1 \in 1..Len(order)
        <5>1. \A k \in Nat : \A j \in 1..k : j # k => j \in 1..(k - 1) /\ j + 1 \in 1..k
          OBVIOUS
        <5>2. QED
          BY <1>2, <3>2, <5>1
      <4>2. A[i] = data[order[i + 1]]
        BY <1>5, <2>4, <2>5, <4>1
      <4>3. Pending'[i] = data'[order[i + 1]]
        BY <1>6, <2>3, <4>1
      <4>4. QED
        BY <1>1, <1>2, <1>3, <4>1, <4>2, <4>3
    <3>3. QED
      BY <3>1, <3>2
  <2>8. Pending' = A
    BY <1>6, <2>3, <2>5, <2>6, <2>7, SeqEqual
  <2>9. Len(Pending) >= MaxQueue
    BY <1>5, <1>8 DEF Overflowing, IInv, ListShape
  <2>10. Head(Pending) = data[head]
    <3>1. Head(Pending) = Pending[1]
      OBVIOUS
    <3>2. 1 \in 1..Len(order)
      BY <1>2, <2>2
    <3>3. QED
      BY <1>5, <2>1, <3>1, <3>2
  <2>11. lost' = lost \cup {Head(Pending)}
    BY <1>1, <1>8, <2>10
  <2>12. QED
    BY <1>1, <1>4, <2>8, <2>9, <2>11 DEF Fifo!Submit, A
<1>9. CASE ~Overflowing
  <2>1. Len(Pending) < MaxQueue
    <3>1. CASE order = <<>>
      BY <1>5, <3>1, EmptySeq, MaxQueueAssumption
    <3>2. CASE order # <<>>
      <4>1. head # NULL
        <5>1. 1 \in 1..Len(order)
          BY <1>2, <3>2, EmptySeq
        <5>2. QED
          BY <1>2, <3>2, <5>1, NullAssumption DEF IInv, ListShape
      <4>2. ~(count >= MaxQueue)
        BY <1>9, <4>1 DEF Overflowing
      <4>3. QED
        BY <1>2, <1>5, <4>2, MaxQueueAssumption DEF IInv, ListShape
    <3>3. QED
      BY <3>1, <3>2
  <2>2. /\ Len(order') = Len(order) + 1
        /\ \A i \in 1..Len(order) : order'[i] = order[i]
        /\ order'[Len(order) + 1] = n
    <3>1. order' = Append(order, n)
      BY <1>1, <1>9
    <3>2. QED
      BY <1>2, <3>1, AppendKeeps
  <2> DEFINE A == Append(Pending, submitted + 1)
  <2>3. /\ A \in Seq(Nat) /\ Len(A) = Len(order) + 1
        /\ \A i \in 1..Len(order) : A[i] = Pending[i]
        /\ A[Len(order) + 1] = submitted + 1
    BY <1>5, <1>7, AppendKeeps
  <2> HIDE DEF A
  <2>4. ASSUME NEW i \in 1..(Len(order) + 1)
        PROVE  Pending'[i] = A[i]
    <3>1. CASE i = Len(order) + 1
      BY <1>1, <1>2, <1>6, <2>2, <2>3, <3>1, ZenonT(30)
    <3>2. CASE i # Len(order) + 1
      <4>1. i \in 1..Len(order)
        BY <1>2, <3>2
      <4>2. A[i] = data[order[i]]
        BY <1>5, <2>3, <4>1
      <4>3. Pending'[i] = data'[order[i]]
        BY <1>6, <2>2, <4>1
      <4>4. QED
        BY <1>1, <1>2, <1>3, <4>1, <4>2, <4>3
    <3>3. QED
      BY <3>1, <3>2
  <2>5. Pending' = A
    BY <1>6, <2>2, <2>3, <2>4, SeqEqual
  <2>6. ~(Len(Pending) >= MaxQueue)
    BY <1>2, <1>5, <2>1, MaxQueueAssumption
  <2>7. lost' = lost
    BY <1>1, <1>9
  <2>8. QED
    BY <1>1, <1>4, <2>5, <2>6, <2>7 DEF Fifo!Submit, A
<1>10. QED
  BY <1>8, <1>9

(* A pop is a Take.                                                        *)
LEMMA PopTakes ==
  ASSUME IInv, IInv', Pop
  PROVE  Fifo!Take
<1>1. /\ worker = "poll" /\ head # NULL /\ current' = head
      /\ order' = Tail(order)
      /\ UNCHANGED <<data, main, submitted, handled, lost>>
  BY DEF Pop
<1>2. /\ order \in Seq(Nodes) /\ order # <<>> /\ head = order[1]
      /\ Len(order) \in Nat
  BY <1>1, LenProperties DEF IInv, TypeOK, ListShape
<1>3. /\ Len(order) > 0 /\ Len(order') = Len(order) - 1
      /\ \A i \in 1..(Len(order) - 1) : order'[i] = order[i + 1]
  BY <1>1, <1>2, TailShifts
<1>4. /\ Pending \in Seq(Nat) /\ Len(Pending) = Len(order)
      /\ \A i \in 1..Len(order) : Pending[i] = data[order[i]]
      /\ Pending # <<>>
  BY <1>2, PendingIsSequence
<1>5. /\ Tail(Pending) \in Seq(Nat) /\ Len(Tail(Pending)) = Len(order) - 1
      /\ \A i \in 1..(Len(order) - 1) : Tail(Pending)[i] = Pending[i + 1]
  BY <1>4, TailShifts
<1>6. /\ \A i \in 1..Len(order') : Pending'[i] = data'[order'[i]]
      /\ Pending' \in Seq(Nat) /\ Len(Pending') = Len(order')
  <2>1. \A i \in 1..Len(order') : Pending'[i] = data'[order'[i]]
    BY DEF Pending
  <2>2. \A i \in 1..Len(order') : data'[order'[i]] \in Nat
    BY LenProperties, ElementOfSeq DEF IInv, TypeOK
  <2>3. Pending' \in Seq(Nat) /\ Len(Pending') = Len(order')
    BY <2>2, LenProperties DEF Pending, IInv, TypeOK
  <2>4. QED
    BY <2>1, <2>3
<1>7. ASSUME NEW i \in 1..(Len(order) - 1)
      PROVE  Pending'[i] = Tail(Pending)[i]
  <2>1. i + 1 \in 1..Len(order)
    BY <1>2
  <2>2. QED
    BY <1>1, <1>3, <1>4, <1>5, <1>6, <2>1, ZenonT(30)
<1>8. Pending' = Tail(Pending)
  BY <1>3, <1>5, <1>6, <1>7, SeqEqual
<1>9. Head(Pending) = data[head]
  <2>1. Head(Pending) = Pending[1]
    OBVIOUS
  <2>2. 1 \in 1..Len(order)
    BY <1>2, <1>3
  <2>3. QED
    BY <1>2, <1>4, <2>1, <2>2
<1>10. current = NULL
  BY <1>1 DEF IInv, Phases
<1>11. QED
  BY <1>1, <1>4, <1>8, <1>9, <1>10 DEF Fifo!Take, Fifo!None, InHand

(* The linked list, its locks and its threads implement the lossy FIFO:    *)
(* the overflow promise of the db_sync.c header, for every queue limit.    *)
THEOREM Refinement == Spec => ImplementsLossyFifo
<1>1. Init => Fifo!Init
  <2>1. SUFFICES ASSUME Init PROVE Fifo!Init
    OBVIOUS
  <2>2. IInv
    BY <2>1, InitIInv
  <2>3. Pending = <<>>
    BY <2>1, <2>2, PendingIsSequence DEF Init
  <2>4. QED
    BY <2>1, <2>3 DEF Init, Fifo!Init, Fifo!None, InHand
<1>2. IInv /\ IInv' /\ [Next]_vars => [Fifo!Next]_Fifo!vars
  <2> SUFFICES ASSUME IInv, IInv', [Next]_vars
               PROVE  [Fifo!Next]_Fifo!vars
    OBVIOUS
  <2>1. CASE /\ UNCHANGED <<queueVars, current, submitted, handled, lost>>
             /\ (main = "destroyed") = (main' = "destroyed")
    BY <2>1 DEF queueVars, Fifo!vars, Pending, InHand
  <2>2. ASSUME NEW n \in Nodes, Push(n), main = "running", main' \in {"running", "pilled"}
        PROVE  Fifo!Next
    BY <2>2, PushSubmits DEF Fifo!Next
  <2>3. CASE Pop
    BY <2>3, PopTakes DEF Fifo!Next
  <2>4. CASE Execute
    <3>1. current # NULL /\ current \in Nodes /\ data[current] # 0
      BY <2>4 DEF Execute, IInv, TypeOK, Phases, Pointers, Numbering
    <3>2. Pending' = Pending
      BY <2>4 DEF Execute, queueVars, Pending
    <3>3. QED
      BY <2>4, <3>1, <3>2 DEF Execute, Fifo!Next, Fifo!Finish, Fifo!None, InHand
  <2>5. CASE Destroy
    <3>1. order = <<>> /\ order' = <<>> /\ current = NULL /\ current' = NULL
      BY <2>5 DEF Destroy, IInv, Phases
    <3>2. Pending = <<>> /\ Pending' = <<>>
      <4>1. Pending = <<>>
        BY <3>1, PendingIsSequence
      <4>2. Pending' = Pending
        BY <2>5, <3>1 DEF Pending, Destroy
      <4>3. QED
        BY <4>1, <4>2
    <3>3. QED
      BY <2>5, <3>1, <3>2 DEF Destroy, Fifo!Next, Fifo!Close, Fifo!None, InHand
  <2>6. CASE StopPush
    BY <2>1, <2>2, <2>6 DEF StopPush
  <2>7. CASE StartWorker \/ StopFlag \/ StopJoin \/ Wait \/ Exit \/ SpuriousWakeup
             \/ UNCHANGED vars
    BY <2>1, <2>7
    DEF StartWorker, StopFlag, StopJoin, Wait, Exit, SpuriousWakeup, vars, queueVars
  <2>8. ASSUME NEW n \in Nodes, Enqueue(n)
        PROVE  Fifo!Next
    BY <2>2, <2>8 DEF Enqueue
  <2>9. QED
    BY <2>3, <2>4, <2>5, <2>6, <2>7, <2>8 DEF Next, Main, Worker
<1>3. QED
  BY <1>1, <1>2, Invariance, PTL DEF Spec, ImplementsLossyFifo, Fifo!Spec
=============================================================================
