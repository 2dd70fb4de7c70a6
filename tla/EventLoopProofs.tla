--------------------------- MODULE EventLoopProofs ---------------------------
(* Proofs about EventLoop: the connection slots, the sockets and the        *)
(* counter agree, no event is handled for a connection it was not reported  *)
(* for, and what goes out on a connection goes out in order, for any number *)
(* of slots and messages, any length of a message, and with the default     *)
(* callbacks or those of main.c.                                            *)
(*                                                                          *)
(* The handlers are functions on loop states, so that the lemmas are about  *)
(* any sound loop state e: every handler's results are sound again and      *)
(* leave the other slots' sockets alone.                                    *)
EXTENDS EventLoop, FiniteSetTheorems, SequenceTheorems, WellFoundedInduction, TLAPS

\* The slots in use, and what is on the wire of one, n messages having been given.
Used(e) == {s \in Slots : ~IsFree(e, s)}

UnitsOK(c, n) ==
  /\ c.msg <= n
  /\ \A i \in DOMAIN c.wire :
       /\ c.wire[i][1] <= c.msg
       /\ c.len # 0 /\ c.wire[i][1] = c.msg => c.wire[i][2] <= c.off
  /\ \A i, j \in DOMAIN c.wire : i < j =>
       \/ c.wire[i][1] < c.wire[j][1]
       \/ c.wire[i][1] = c.wire[j][1] /\ c.wire[i][2] < c.wire[j][2]

Loops == [conn : [Slots -> Connections], active : Nat, open : SUBSET Fds, out : SUBSET Fds]

\* A slot is in use when it has a socket, and no two have the same one.
Owned(e) ==
  /\ \A s \in Slots : IsFree(e, s) <=> e.conn[s].fd = NoFd
  /\ \A s, t \in Slots : ~IsFree(e, s) /\ ~IsFree(e, t) /\ s # t
                            => e.conn[s].fd # e.conn[t].fd
  /\ e.open = {e.conn[s].fd : s \in Used(e)}
  /\ e.out \subseteq e.open

Counted(e) == e.active = Cardinality(Used(e))

Sound(e, n) ==
  /\ e \in Loops /\ Owned(e) /\ Counted(e)
  /\ \A s \in Slots : UnitsOK(e.conn[s], n)

\* f comes from e by a handler of slot s.
Fine(f, e, s, n) ==
  /\ Sound(f, n)
  /\ \A t \in Slots : t # s => f.conn[t].fd = e.conn[t].fd

-----------------------------------------------------------------------------
(* The counter of a sound state cannot pass the number of slots.            *)
LEMMA CountFacts ==
  ASSUME NEW e
  PROVE  /\ IsFiniteSet(Used(e)) /\ Cardinality(Used(e)) \in 0..Capacity
         /\ Cardinality(Used(e)) < Capacity => \E s \in Slots : IsFree(e, s)
<1>1. IsFiniteSet(Slots) /\ Cardinality(Slots) = Capacity
  BY FS_Interval, CapacityAssumption DEF Slots
<1>2. Used(e) \in SUBSET Slots
  BY DEF Used
<1>3. /\ IsFiniteSet(Used(e)) /\ Cardinality(Used(e)) <= Capacity
      /\ Cardinality(Used(e)) \in Nat
  BY <1>1, <1>2, FS_Subset, FS_CardinalityType
<1>4. ASSUME \A s \in Slots : ~IsFree(e, s) PROVE Cardinality(Used(e)) = Capacity
  <2>1. Used(e) = Slots
    BY <1>4 DEF Used
  <2>2. QED
    BY <1>1, <2>1
<1>5. QED
  BY <1>3, <1>4, CapacityAssumption

(* A set of numbers that is not empty has a lowest one.                     *)
LEMMA LowestFacts ==
  ASSUME NEW S \in SUBSET Nat, S # {}
  PROVE  Lowest(S) \in S /\ \A y \in S : Lowest(S) <= y
<1>1. \E x \in S : \A y \in S : ~(<<y, x>> \in OpToRel(<, Nat))
  BY WFMin, NatLessThanWellFounded, Zenon
<1>2. PICK x \in S : \A y \in S : ~(<<y, x>> \in OpToRel(<, Nat))
  BY <1>1
<1>3. \A y \in S : ~(y < x)
  BY <1>2 DEF OpToRel
<1>4. x \in S /\ \A y \in S : x <= y
  BY <1>3
<1>5. QED
  BY <1>4, Zenon DEF Lowest

(* Closing slots in use frees them and their sockets, and counts them off.  *)
LEMMA FreedSound ==
  ASSUME NEW n \in Nat, NEW e, Sound(e, n), NEW T \in SUBSET Used(e),
         NEW k, NEW f, f = Freed(e, T, k)
  PROVE  /\ f.conn \in [Slots -> Connections] /\ f.open \in SUBSET Fds /\ f.out \in SUBSET Fds
         /\ f.active = e.active - k
         /\ \A s \in Slots : f.conn[s] = IF s \in T THEN FreeSlot ELSE e.conn[s]
         /\ Owned(f)
         /\ \A s \in Slots : UnitsOK(f.conn[s], n)
         /\ k = Cardinality(T) => Sound(f, n)
<1>1. /\ e \in Loops /\ Owned(e) /\ Counted(e) /\ T \subseteq Slots
      /\ \A s \in Slots : UnitsOK(e.conn[s], n)
  BY DEF Sound, Used
<1>2. /\ f.conn = [s \in Slots |-> IF s \in T THEN FreeSlot ELSE e.conn[s]]
      /\ f.active = e.active - k
      /\ f.open = e.open \ {e.conn[s].fd : s \in T}
      /\ f.out = e.out \ {e.conn[s].fd : s \in T}
  BY <1>1 DEF Freed, Loops
<1>3. FreeSlot \in Connections /\ UnitsOK(FreeSlot, n) /\ FreeSlot.type = "free" /\ FreeSlot.fd = NoFd
  BY BoundsAssumption DEF FreeSlot, Fresh, Connections, UnitsOK, NoFd
<1>4. \A s \in Slots : f.conn[s] = IF s \in T THEN FreeSlot ELSE e.conn[s]
  BY <1>2
<1>5. /\ f.conn \in [Slots -> Connections] /\ f.open \in SUBSET Fds /\ f.out \in SUBSET Fds
      /\ \A s \in Slots : UnitsOK(f.conn[s], n)
  BY <1>1, <1>2, <1>3, <1>4 DEF Loops
<1>6. Used(f) = Used(e) \ T
  BY <1>3, <1>4 DEF Used, IsFree
<1>7. Owned(f)
  <2>1. \A s \in Slots : IsFree(f, s) <=> f.conn[s].fd = NoFd
    BY <1>1, <1>3, <1>4 DEF Owned, IsFree
  <2>2. \A s, t \in Slots : ~IsFree(f, s) /\ ~IsFree(f, t) /\ s # t
                              => f.conn[s].fd # f.conn[t].fd
    BY <1>1, <1>3, <1>4 DEF Owned, IsFree
  <2>3. f.open = {f.conn[s].fd : s \in Used(f)}
    <3>1. \A s \in Used(e) \ T : f.conn[s].fd = e.conn[s].fd
                                 /\ \A t \in T : e.conn[t].fd # e.conn[s].fd
      BY <1>1, <1>4 DEF Owned, Used
    <3>2. f.open = {e.conn[s].fd : s \in Used(e)} \ {e.conn[s].fd : s \in T}
      BY <1>1, <1>2 DEF Owned
    <3>3. QED
      BY <1>6, <3>1, <3>2
  <2>4. f.out \subseteq f.open
    BY <1>1, <1>2 DEF Owned
  <2>5. QED
    BY <2>1, <2>2, <2>3, <2>4 DEF Owned
<1>8. ASSUME k = Cardinality(T) PROVE f \in Loops /\ Counted(f)
  <2>1. /\ Cardinality(Used(f)) = Cardinality(Used(e)) - Cardinality(T)
        /\ Cardinality(Used(f)) \in Nat
    <3>1. Used(e) \cap T = T
      OBVIOUS
    <3>2. /\ IsFiniteSet(Used(e)) /\ Cardinality(Used(e)) \in Nat
          /\ Cardinality(Used(f)) \in Nat
      BY CountFacts
    <3>3. Cardinality(Used(e) \ T) = Cardinality(Used(e)) - Cardinality(Used(e) \cap T)
      BY <3>2, FS_Difference
    <3>4. QED
      BY <1>6, <3>1, <3>2, <3>3
  <2>2. f.active = Cardinality(Used(f)) /\ f.active \in Nat
    BY <1>1, <1>2, <1>8, <2>1 DEF Counted
  <2>3. f = [conn |-> f.conn, active |-> f.active, open |-> f.open, out |-> f.out]
    BY <1>1 DEF Freed, Loops
  <2>4. QED
    BY <1>5, <2>2, <2>3 DEF Counted, Loops
<1>9. QED
  BY <1>2, <1>4, <1>5, <1>7, <1>8 DEF Sound

(* el_remove_connection, one slot or several, free ones among them.         *)
LEMMA RemovedSound ==
  ASSUME NEW n \in Nat, NEW e, Sound(e, n), NEW S \in SUBSET Slots
  PROVE  /\ Sound(Removed(e, S), n)
         /\ \A t \in Slots \ S : Removed(e, S).conn[t] = e.conn[t]
<1>1. Taken(e, S) \in SUBSET Used(e) /\ Taken(e, S) \subseteq S
  BY DEF Taken, Used
<1>2. QED
  BY <1>1, FreedSound DEF Removed

(* on_close, where it is set, removes.                                      *)
LEMMA OnCloseSound ==
  ASSUME NEW n \in Nat, NEW e, Sound(e, n), NEW S \in SUBSET Slots
  PROVE  /\ Sound(OnClose(e, S), n)
         /\ \A t \in Slots \ S : OnClose(e, S).conn[t] = e.conn[t]
BY RemovedSound DEF OnClose

(* More messages having been given, what was sound still is.                *)
LEMMA SoundLater ==
  ASSUME NEW n \in Nat, NEW m \in Nat, n <= m, NEW e, Sound(e, n)
  PROVE  Sound(e, m)
<1>1. \A t \in Slots : e.conn[t].msg \in Nat
  BY DEF Sound, Loops, Connections
<1>2. \A t \in Slots : UnitsOK(e.conn[t], m)
  BY <1>1 DEF Sound, UnitsOK
<1>3. QED
  BY <1>2 DEF Sound

\* e with another connection in slot s and other registrations for EPOLLOUT.
With(e, s, c, o) ==
  [conn |-> [e.conn EXCEPT ![s] = c], active |-> e.active, open |-> e.open, out |-> o]

(* A handler that changes one slot's buffers and keeps its socket.          *)
LEMMA ConnSound ==
  ASSUME NEW n \in Nat, NEW e, Sound(e, n), NEW s \in Slots,
         NEW c \in Connections, c.fd = e.conn[s].fd, c.type = e.conn[s].type, UnitsOK(c, n),
         NEW o \in SUBSET e.open
  PROVE  Fine(With(e, s, c, o), e, s, n) /\ With(e, s, c, o).conn[s] = c
<1> DEFINE f == With(e, s, c, o)
<1>1. /\ e \in Loops /\ Owned(e) /\ Counted(e)
      /\ \A t \in Slots : UnitsOK(e.conn[t], n)
  BY DEF Sound
<1>2. /\ e.conn \in [Slots -> Connections] /\ e.active \in Nat
      /\ e.open \in SUBSET Fds
  BY <1>1 DEF Loops
<1>3. /\ f.conn = [e.conn EXCEPT ![s] = c] /\ f.conn \in [Slots -> Connections]
      /\ f.active = e.active /\ f.open = e.open /\ f.out = o
      /\ f = [conn |-> f.conn, active |-> f.active, open |-> f.open, out |-> f.out]
  BY <1>2 DEF With
<1> HIDE DEF f
<1>4. \A t \in Slots : f.conn[t] = IF t = s THEN c ELSE e.conn[t]
  BY <1>2, <1>3
<1>5. /\ \A t \in Slots : f.conn[t].fd = e.conn[t].fd /\ (IsFree(f, t) <=> IsFree(e, t))
      /\ Used(f) = Used(e)
  BY <1>4 DEF Used, IsFree
<1>6. f \in Loops /\ Counted(f)
  BY <1>1, <1>2, <1>3, <1>5 DEF Loops, Counted
<1>7. Owned(f)
  <2>1. {f.conn[t].fd : t \in Used(f)} = {e.conn[t].fd : t \in Used(e)}
    BY <1>5 DEF Used
  <2>2. \A t, u \in Slots : ~IsFree(f, t) /\ ~IsFree(f, u) /\ t # u
                              => f.conn[t].fd # f.conn[u].fd
    BY <1>1, <1>5 DEF Owned
  <2>3. \A t \in Slots : IsFree(f, t) <=> f.conn[t].fd = NoFd
    BY <1>1, <1>5 DEF Owned
  <2>4. f.open = {f.conn[t].fd : t \in Used(f)} /\ f.out \subseteq f.open
    BY <1>1, <1>3, <2>1 DEF Owned
  <2>5. QED
    BY <2>2, <2>3, <2>4 DEF Owned
<1>8. \A t \in Slots : UnitsOK(f.conn[t], n)
  BY <1>1, <1>4
<1>9. Fine(f, e, s, n) /\ f.conn[s] = c
  BY <1>4, <1>5, <1>6, <1>7, <1>8 DEF Fine, Sound
<1>10. QED
  BY <1>9 DEF f

(* default_on_error                                                         *)
LEMMA OnErrorSound ==
  ASSUME NEW n \in Nat, NEW e, Sound(e, n), NEW s \in Slots
  PROVE  Fine(OnError(e, s), e, s, n)
<1>1. CASE ServerMode
  BY <1>1 DEF OnError, Fine
<1>2. CASE ~ServerMode
  <2> DEFINE c == [e.conn[s] EXCEPT !.state = "error"]
             f == [e EXCEPT !.conn[s].state = "error"]
  <2>1. e \in Loops /\ Owned(e) /\ UnitsOK(e.conn[s], n)
    BY DEF Sound
  <2>2. e.conn \in [Slots -> Connections] /\ e.conn[s] \in Connections
    BY <2>1 DEF Loops
  <2>3. /\ c \in Connections /\ c.fd = e.conn[s].fd /\ c.type = e.conn[s].type
        /\ c.msg = e.conn[s].msg /\ c.wire = e.conn[s].wire /\ c.len = e.conn[s].len
        /\ c.off = e.conn[s].off
    BY <2>2 DEF Connections
  <2>4. UnitsOK(c, n)
    BY <2>1, <2>3 DEF UnitsOK
  <2>5. f = With(e, s, c, e.out)
    BY <2>1, <2>2 DEF Loops, With
  <2> HIDE DEF c, f
  <2>6. e.out \in SUBSET e.open
    BY <2>1 DEF Owned
  <2>7. Fine(f, e, s, n)
    BY <2>1, <2>3, <2>4, <2>5, <2>6, ConnSound
  <2> DEFINE g == OnClose(f, {s})
  <2>8. Sound(g, n) /\ \A t \in Slots : t # s => g.conn[t].fd = e.conn[t].fd
    <3>1. Sound(f, n) /\ {s} \in SUBSET Slots
      BY <2>7 DEF Fine
    <3>2. Sound(g, n) /\ \A t \in Slots \ {s} : g.conn[t] = f.conn[t]
      BY <3>1, OnCloseSound
    <3>3. QED
      BY <2>7, <3>2 DEF Fine
  <2> HIDE DEF g
  <2>9. Sound(Removed(g, {s}), n) /\ \A t \in Slots \ {s} : Removed(g, {s}).conn[t] = g.conn[t]
    BY <2>8, RemovedSound
  <2>10. Fine(Removed(g, {s}), e, s, n)
    BY <2>8, <2>9 DEF Fine
  <2>11. QED
    BY <1>2, <2>10 DEF OnError, f, g
<1>3. QED
  BY <1>1, <1>2

-----------------------------------------------------------------------------
(* What the small steps of the handlers do to their slot.                   *)

\* f comes from e by a change of the buffers of slot s.
Buffered(f, e, s, m) ==
  /\ Fine(f, e, s, m)
  /\ f.conn[s].fd = e.conn[s].fd /\ f.conn[s].type = e.conn[s].type

(* Two small steps after one another.                                       *)
LEMMA FineChain ==
  ASSUME NEW n, NEW m, NEW e, NEW f, NEW g, NEW s \in Slots,
         Fine(f, e, s, n), Fine(g, f, s, m)
  PROVE  Fine(g, e, s, m)
BY DEF Fine

(* The connection was just active.                                          *)
LEMMA TouchedFine ==
  ASSUME NEW n \in Nat, NEW e, Sound(e, n), NEW s \in Slots
  PROVE  Buffered([e EXCEPT !.conn[s].idle = 0], e, s, n)
<1> DEFINE c == [e.conn[s] EXCEPT !.idle = 0]
           f == [e EXCEPT !.conn[s].idle = 0]
<1>1. e \in Loops /\ Owned(e) /\ UnitsOK(e.conn[s], n)
  BY DEF Sound
<1>2. e.conn \in [Slots -> Connections] /\ e.conn[s] \in Connections
  BY <1>1 DEF Loops
<1>3. /\ c \in Connections /\ c.fd = e.conn[s].fd /\ c.type = e.conn[s].type
      /\ c.msg = e.conn[s].msg /\ c.wire = e.conn[s].wire /\ c.len = e.conn[s].len
      /\ c.off = e.conn[s].off
  <2>1. 0 \in 0..IdleTimeout
    BY BoundsAssumption
  <2>2. QED
    BY <1>2, <2>1 DEF Connections
<1>4. UnitsOK(c, n)
  BY <1>1, <1>3 DEF UnitsOK
<1>5. f = With(e, s, c, e.out)
  BY <1>1, <1>2 DEF Loops, With
<1> HIDE DEF c, f
<1>6. e.out \in SUBSET e.open
  BY <1>1 DEF Owned
<1>7. Buffered(f, e, s, n)
  BY <1>1, <1>3, <1>4, <1>5, <1>6, ConnSound DEF Buffered
<1>8. QED
  BY <1>7 DEF f

(* A message is forgotten.                                                  *)
LEMMA DroppedFine ==
  ASSUME NEW n \in Nat, NEW e, Sound(e, n), NEW s \in Slots
  PROVE  Buffered(Dropped(e, s), e, s, n)
<1> DEFINE c == [e.conn[s] EXCEPT !.len = 0, !.off = 0]
           f == Dropped(e, s)
<1>1. e \in Loops /\ Owned(e) /\ UnitsOK(e.conn[s], n)
  BY DEF Sound
<1>2. e.conn \in [Slots -> Connections] /\ e.conn[s] \in Connections
  BY <1>1 DEF Loops
<1>3. /\ c \in Connections /\ c.fd = e.conn[s].fd /\ c.type = e.conn[s].type
      /\ c.msg = e.conn[s].msg /\ c.wire = e.conn[s].wire /\ c.len = 0
  <2>1. 0 \in {0, Units} /\ 0 \in 0..Units
    BY BoundsAssumption
  <2>2. QED
    BY <1>2, <2>1 DEF Connections
<1>4. UnitsOK(c, n)
  BY <1>1, <1>3 DEF UnitsOK
<1>5. f = With(e, s, c, e.out)
  BY <1>1, <1>2 DEF Loops, With, Dropped
<1> HIDE DEF c, f
<1>6. e.out \in SUBSET e.open
  BY <1>1 DEF Owned
<1>7. Buffered(f, e, s, n)
  BY <1>1, <1>3, <1>4, <1>5, <1>6, ConnSound DEF Buffered
<1>8. QED
  BY <1>7 DEF f

(* el_send_data reports that it did not take message m.                     *)
LEMMA RefusedFine ==
  ASSUME NEW n \in Nat, NEW e, Sound(e, n), NEW s \in Slots, NEW m \in 1..MaxSends
  PROVE  Buffered(Refused(e, s, m), e, s, n)
<1> DEFINE c == [e.conn[s] EXCEPT !.refused = @ \cup {m}]
           f == Refused(e, s, m)
<1>1. e \in Loops /\ Owned(e) /\ UnitsOK(e.conn[s], n)
  BY DEF Sound
<1>2. e.conn \in [Slots -> Connections] /\ e.conn[s] \in Connections
  BY <1>1 DEF Loops
<1>3. /\ c \in Connections /\ c.fd = e.conn[s].fd /\ c.type = e.conn[s].type
      /\ c.msg = e.conn[s].msg /\ c.wire = e.conn[s].wire /\ c.len = e.conn[s].len
      /\ c.off = e.conn[s].off
  <2>1. e.conn[s].refused \cup {m} \in SUBSET (1..MaxSends)
    BY <1>2 DEF Connections
  <2>2. QED
    BY <1>2, <2>1 DEF Connections
<1>4. UnitsOK(c, n)
  BY <1>1, <1>3 DEF UnitsOK
<1>5. f = With(e, s, c, e.out)
  BY <1>1, <1>2 DEF Loops, With, Refused
<1> HIDE DEF c, f
<1>6. e.out \in SUBSET e.open
  BY <1>1 DEF Owned
<1>7. Buffered(f, e, s, n)
  BY <1>1, <1>3, <1>4, <1>5, <1>6, ConnSound DEF Buffered
<1>8. QED
  BY <1>7 DEF f

(* A new message, numbered after all the others, replaces what was pending. *)
LEMMA BegunFine ==
  ASSUME NEW n \in Nat, NEW e, Sound(e, n), NEW s \in Slots, NEW m \in 1..MaxSends, m = n + 1
  PROVE  /\ Buffered(Begun(e, s, m), e, s, m)
         /\ Begun(e, s, m).conn[s].len = Units /\ Begun(e, s, m).conn[s].off = 0
<1> DEFINE c == [e.conn[s] EXCEPT !.msg = m, !.len = Units, !.off = 0]
           f == Begun(e, s, m)
<1>1. e \in Loops /\ Owned(e) /\ UnitsOK(e.conn[s], n)
  BY DEF Sound
<1>2. e.conn \in [Slots -> Connections] /\ e.conn[s] \in Connections
  BY <1>1 DEF Loops
<1>3. /\ c \in Connections /\ c.fd = e.conn[s].fd /\ c.type = e.conn[s].type
      /\ c.msg = m /\ c.wire = e.conn[s].wire /\ c.len = Units /\ c.off = 0
  <2>1. m \in 0..MaxSends /\ Units \in {0, Units} /\ 0 \in 0..Units
    BY BoundsAssumption
  <2>2. QED
    BY <1>2, <2>1 DEF Connections
<1>4. UnitsOK(c, m)
  <2>1. \A i \in DOMAIN c.wire : c.wire[i][1] \in Nat /\ c.wire[i][1] <= n
    <3>1. c.wire = e.conn[s].wire
      BY <1>3
    <3>2. e.conn[s].msg \in Nat /\ \A i \in DOMAIN e.conn[s].wire : e.conn[s].wire[i][1] \in Nat
      BY <1>2, BoundsAssumption, SMTT(30) DEF Connections
    <3>3. \A i \in DOMAIN e.conn[s].wire : e.conn[s].wire[i][1] <= n
      BY <1>1, <3>2 DEF UnitsOK
    <3>4. QED
      BY <3>1, <3>2, <3>3, Zenon
  <2>2. QED
    BY <1>1, <1>3, <2>1 DEF UnitsOK
<1>5. f = With(e, s, c, e.out)
  BY <1>1, <1>2 DEF Loops, With, Begun
<1> HIDE DEF c, f
<1>6. e.out \in SUBSET e.open /\ m \in Nat /\ Sound(e, m)
  BY <1>1, SoundLater DEF Owned
<1>7. Fine(f, e, s, m) /\ f.conn[s] = c
  BY <1>3, <1>4, <1>5, <1>6, ConnSound
<1>8. QED
  BY <1>3, <1>7 DEF f, Buffered

(* Units put after what is on the wire: where they come, ...                *)
LEMMA UnitsAppended ==
  ASSUME NEW w \in Seq(Nat \X Nat), NEW m \in Nat, NEW o \in Nat, NEW k \in Nat
  PROVE  LET v == w \o [i \in 1..k |-> <<m, o + i>>] IN
         /\ v \in Seq(Nat \X Nat) /\ Len(v) = Len(w) + k
         /\ \A i \in 1..Len(w) : v[i] = w[i]
         /\ \A i \in 1..k : v[Len(w) + i][1] = m /\ v[Len(w) + i][2] = o + i
<1> DEFINE new == [i \in 1..k |-> <<m, o + i>>]
           v == w \o new
<1>1. new \in Seq(Nat \X Nat) /\ Len(new) = k
  <2>1. \A i \in 1..k : <<m, o + i>> \in Nat \X Nat
    OBVIOUS
  <2>2. new \in [1..k -> Nat \X Nat]
    BY <2>1
  <2>3. QED
    BY <2>2
<1>2. \A i \in 1..k : new[i][1] = m /\ new[i][2] = o + i
  OBVIOUS
<1> HIDE DEF new
<1>3. /\ v \in Seq(Nat \X Nat) /\ Len(v) = Len(w) + k
      /\ \A i \in 1..Len(w) + k : v[i] = IF i <= Len(w) THEN w[i] ELSE new[i - Len(w)]
  BY <1>1, ConcatProperties
<1>4. Len(w) \in Nat
  OBVIOUS
<1> HIDE DEF v
<1>5. \A i \in 1..Len(w) : v[i] = w[i]
  BY <1>3, <1>4, SMTT(30)
<1>6. ASSUME NEW i \in 1..k PROVE v[Len(w) + i][1] = m /\ v[Len(w) + i][2] = o + i
  <2>1. Len(w) + i \in 1..Len(w) + k /\ ~(Len(w) + i <= Len(w)) /\ (Len(w) + i) - Len(w) = i
    BY <1>4
  <2>2. v[Len(w) + i] = new[i]
    BY <1>3, <2>1
  <2>3. QED
    BY <1>2, <2>2
<1>7. QED
  BY <1>3, <1>5, <1>6 DEF v, new

\* All of w is before unit o + 1 of message m; w is in order.
Until(w, m, o) == \A i \in DOMAIN w : w[i][1] <= m /\ (w[i][1] = m => w[i][2] <= o)
Rising(w) ==
  \A i, j \in DOMAIN w : i < j =>
    w[i][1] < w[j][1] \/ (w[i][1] = w[j][1] /\ w[i][2] < w[j][2])

\* v is w with k units of message m after it.
Longer(v, w, l, m, o, k) ==
  /\ \A i \in 1..l : v[i] = w[i]
  /\ \A i \in 1..k : v[l + i][1] = m /\ v[l + i][2] = o + i

(* ... and that they keep the order.                                        *)
LEMMA WireFacts ==
  ASSUME NEW w \in Seq(Nat \X Nat), NEW v \in Seq(Nat \X Nat),
         NEW m \in Nat, NEW o \in Nat, NEW k \in Nat, NEW l \in Nat,
         l = Len(w), Len(v) = l + k, Longer(v, w, l, m, o, k), Until(w, m, o), Rising(w)
  PROVE  Until(v, m, o + k) /\ Rising(v)
<1>1. DOMAIN w = 1..l /\ DOMAIN v = 1..(l + k)
  OBVIOUS
<1>2. ASSUME NEW i \in 1..l
      PROVE  /\ v[i] = w[i] /\ v[i][1] \in Nat /\ v[i][2] \in Nat
             /\ v[i][1] <= m /\ (v[i][1] = m => v[i][2] <= o)
  <2>1. w[i] \in Nat \X Nat
    BY <1>1
  <2>2. v[i] = w[i]
    BY DEF Longer
  <2>3. QED
    BY <1>1, <2>1, <2>2 DEF Until
<1>3. \A h \in 1..k : v[l + h][1] = m /\ v[l + h][2] = o + h
  BY DEF Longer
<1>4. ASSUME NEW i \in 1..(l + k), i \notin 1..l PROVE \E h \in 1..k : i = l + h
  <2>1. i - l \in 1..k /\ i = l + (i - l)
    BY <1>4
  <2>2. QED
    BY <2>1
<1>5. ASSUME NEW i \in 1..(l + k) PROVE v[i][1] <= m /\ (v[i][1] = m => v[i][2] <= o + k)
  <2>1. CASE i \in 1..l
    BY <1>2, <2>1, SMTT(30)
  <2>2. CASE i \notin 1..l
    <3>1. PICK h \in 1..k : i = l + h
      BY <1>4, <2>2
    <3>2. v[i][1] = m /\ v[i][2] = o + h
      BY <1>3, <3>1
    <3>3. QED
      BY <3>2, SMTT(30)
  <2>3. QED
    BY <2>1, <2>2
<1>6. ASSUME NEW i \in 1..(l + k), NEW j \in 1..(l + k), i < j
      PROVE  v[i][1] < v[j][1] \/ (v[i][1] = v[j][1] /\ v[i][2] < v[j][2])
  <2>1. CASE j \in 1..l
    <3>1. i \in 1..l
      BY <1>6, <2>1
    <3>2. v[i] = w[i] /\ v[j] = w[j]
      BY <1>2, <2>1, <3>1
    <3>3. QED
      BY <1>1, <1>6, <2>1, <3>1, <3>2, ZenonT(30) DEF Rising
  <2>2. CASE j \notin 1..l
    <3>1. PICK h \in 1..k : j = l + h
      BY <1>4, <2>2
    <3>2. v[j][1] = m /\ v[j][2] = o + h
      BY <1>3, <3>1
    <3>3. CASE i \in 1..l
      <4>1. v[i][1] \in Nat /\ v[i][2] \in Nat /\ v[i][1] <= m /\ (v[i][1] = m => v[i][2] <= o)
        BY <1>2, <3>3
      <4>2. QED
        BY <3>2, <4>1, SMTT(30)
    <3>4. CASE i \notin 1..l
      <4>1. PICK g \in 1..k : i = l + g
        BY <1>4, <3>4
      <4>2. v[i][1] = m /\ v[i][2] = o + g
        BY <1>3, <4>1
      <4>3. g < h
        BY <1>6, <3>1, <4>1
      <4>4. QED
        BY <3>2, <4>2, <4>3
    <3>5. QED
      BY <3>3, <3>4
  <2>3. QED
    BY <2>1, <2>2
<1>7. QED
  BY <1>1, <1>5, <1>6 DEF Until, Rising

(* The next k units of a pending message go out.                            *)
LEMMA SentFine ==
  ASSUME NEW n \in Nat, NEW e, Sound(e, n), NEW s \in Slots, e.conn[s].len # 0,
         NEW k \in 0..(e.conn[s].len - e.conn[s].off)
  PROVE  Buffered(Sent(e, s, k), e, s, n)
<1> DEFINE b == e.conn[s]
           v == b.wire \o [i \in 1..k |-> <<b.msg, b.off + i>>]
           c == [b EXCEPT !.off = b.off + k, !.wire = v]
           f == Sent(e, s, k)
<1>1. e \in Loops /\ Owned(e) /\ UnitsOK(b, n)
  BY DEF Sound
<1>2. e.conn \in [Slots -> Connections] /\ b \in Connections
  BY <1>1 DEF Loops
<1>3. /\ b.msg \in Nat /\ b.off \in Nat /\ b.len = Units /\ b.wire \in Seq(Nat \X Nat)
      /\ Units \in Nat /\ k \in Nat /\ b.off + k \in 0..Units
  BY <1>2, BoundsAssumption DEF Connections
<1>4. f = With(e, s, c, e.out)
  BY <1>1, <1>2 DEF Loops, With, Sent
<1>5. v \in Seq(Nat \X Nat) /\ Until(v, b.msg, b.off + k) /\ Rising(v)
  <2> DEFINE w == b.wire
             m == b.msg
             o == b.off
  <2>1. Until(w, m, o) /\ Rising(w)
    BY <1>1, <1>2 DEF UnitsOK, Until, Rising
  <2>2. w \in Seq(Nat \X Nat) /\ m \in Nat /\ o \in Nat /\ k \in Nat /\ Len(w) \in Nat
    BY <1>3
  <2> HIDE DEF w, m, o
  <2>3. v = w \o [i \in 1..k |-> <<m, o + i>>]
    BY DEF w, m, o
  <2> HIDE DEF v
  <2>4. v \in Seq(Nat \X Nat) /\ Len(v) = Len(w) + k /\ Longer(v, w, Len(w), m, o, k)
    BY <2>2, <2>3, UnitsAppended, SMTT(30) DEF Longer
  <2>5. Until(v, m, o + k) /\ Rising(v)
    BY <2>1, <2>2, <2>4, WireFacts
  <2>6. QED
    BY <2>4, <2>5 DEF m, o
<1> HIDE DEF v
<1>6. /\ c \in Connections /\ c.fd = b.fd /\ c.type = b.type /\ c.msg = b.msg
      /\ c.wire = v /\ c.len = b.len /\ c.off = b.off + k
  BY <1>2, <1>3, <1>5 DEF Connections
<1>7. UnitsOK(c, n)
  <2>1. b.msg <= n
    BY <1>1 DEF UnitsOK
  <2>2. QED
    BY <1>5, <1>6, <2>1 DEF UnitsOK, Until, Rising
<1> HIDE DEF c, f
<1>8. e.out \in SUBSET e.open
  BY <1>1 DEF Owned
<1>9. c \in Connections /\ c.fd = e.conn[s].fd /\ c.type = e.conn[s].type
  BY <1>6
<1> HIDE DEF b
<1>10. Fine(f, e, s, n) /\ f.conn[s] = c
  BY <1>4, <1>7, <1>8, <1>9, ConnSound
<1>11. QED
  BY <1>9, <1>10 DEF Buffered, f

-----------------------------------------------------------------------------
(* The handlers                                                             *)

(* Registering for EPOLLOUT, or no longer.                                  *)
LEMMA OutFine ==
  ASSUME NEW n \in Nat, NEW e, Sound(e, n), NEW s \in Slots, NEW o \in SUBSET e.open
  PROVE  Buffered([e EXCEPT !.out = o], e, s, n)
<1> DEFINE f == [e EXCEPT !.out = o]
<1>1. e \in Loops /\ Owned(e) /\ Counted(e) /\ \A t \in Slots : UnitsOK(e.conn[t], n)
  BY DEF Sound
<1>2. o \in SUBSET Fds
  BY <1>1 DEF Loops
<1>3. /\ f \in Loops /\ f.conn = e.conn /\ f.active = e.active /\ f.open = e.open /\ f.out = o
  BY <1>1, <1>2 DEF Loops
<1> HIDE DEF f
<1>4. (\A t \in Slots : IsFree(f, t) <=> IsFree(e, t)) /\ Used(f) = Used(e)
  BY <1>3 DEF IsFree, Used
<1>5. Owned(f) /\ Counted(f)
  BY <1>1, <1>3, <1>4 DEF Owned, Counted
<1>6. Buffered(f, e, s, n)
  BY <1>1, <1>3, <1>5 DEF Buffered, Fine, Sound
<1>7. QED
  BY <1>6 DEF f

(* The connection asks for EPOLLOUT.                                        *)
LEMMA WantsOutFine ==
  ASSUME NEW n \in Nat, NEW e, Sound(e, n), NEW s \in Slots, ~IsFree(e, s)
  PROVE  Fine(WantsOut(e, s), e, s, n)
<1>1. e.out \cup {e.conn[s].fd} \in SUBSET e.open
  BY DEF Sound, Owned, Used
<1>2. Fine([e EXCEPT !.out = e.out \cup {e.conn[s].fd}], e, s, n)
  BY <1>1, OutFine DEF Buffered
<1>3. QED
  BY <1>2 DEF WantsOut

(* el_send_data, whatever the socket takes.                                 *)
LEMMA SendFine ==
  ASSUME NEW n \in Nat, NEW e, Sound(e, n), NEW s \in Slots, ~IsFree(e, s),
         NEW m \in 1..MaxSends, m = n + 1, NEW f \in SendResults(e, s, m)
  PROVE  Fine(f, e, s, m)
<1> DEFINE begun == Begun(e, s, m)
<1>1. /\ Buffered(begun, e, s, m) /\ begun.conn[s].len = Units /\ begun.conn[s].off = 0
      /\ m \in Nat
  BY BegunFine
<1>2. Sound(begun, m) /\ begun.conn[s].len # 0 /\ Units - 0 = Units
  BY <1>1, BoundsAssumption DEF Buffered, Fine
<1>3. Accepted(e, s, Units) \subseteq 0..Units
  BY BoundsAssumption DEF Accepted
<1>4. PICK k \in Accepted(e, s, Units) :
        \/ f = Dropped(Sent(begun, s, k), s)
        \/ f = WantsOut(Sent(begun, s, k), s)
        \/ f = Refused(Dropped(Sent(begun, s, k), s), s, m)
  BY DEF SendResults
<1> HIDE DEF begun
<1> DEFINE t == Sent(begun, s, k)
<1>6. Buffered(t, begun, s, m)
  <2>1. k \in 0..(begun.conn[s].len - begun.conn[s].off)
    BY <1>1, <1>2, <1>3
  <2>2. QED
    BY <1>1, <1>2, <2>1, SentFine
<1> HIDE DEF t
<1>7. Fine(t, e, s, m) /\ Sound(t, m) /\ ~IsFree(t, s)
  BY <1>1, <1>6, FineChain DEF Buffered, Fine, IsFree
<1>8. CASE f = Dropped(t, s)
  BY <1>1, <1>7, <1>8, DroppedFine, FineChain DEF Buffered
<1>9. CASE f = WantsOut(t, s)
  BY <1>1, <1>7, <1>9, WantsOutFine, FineChain
<1>10. CASE f = Refused(Dropped(t, s), s, m)
  <2> DEFINE d == Dropped(t, s)
  <2>1. Fine(d, t, s, m) /\ Sound(d, m)
    BY <1>1, <1>7, DroppedFine DEF Buffered, Fine
  <2> HIDE DEF d
  <2>2. Fine(Refused(d, s, m), d, s, m)
    BY <1>1, <2>1, RefusedFine DEF Buffered
  <2>3. Fine(Refused(d, s, m), t, s, m)
    BY <2>1, <2>2, FineChain
  <2>4. QED
    BY <1>7, <1>10, <2>3, FineChain DEF d
<1>11. QED
  BY <1>4, <1>8, <1>9, <1>10 DEF t

(* default_on_write                                                         *)
LEMMA WriteFine ==
  ASSUME NEW n \in Nat, NEW e, Sound(e, n), NEW s \in Slots, NEW f \in WriteResults(e, s)
  PROVE  Fine(f, e, s, n)
<1>1. \A g : Sound(g, n) => Fine(Continued(g, s), g, s, n)
  <2>1. ASSUME NEW g, Sound(g, n) PROVE Fine(Continued(g, s), g, s, n)
    <3>1. CASE ~Complete(g, s)
      BY <2>1, <3>1 DEF Continued, Fine
    <3>2. CASE Complete(g, s)
      <4> DEFINE d == Dropped(g, s)
                 o == d.out \ {g.conn[s].fd}
      <4>1. Fine(d, g, s, n) /\ Sound(d, n)
        BY <2>1, DroppedFine DEF Buffered, Fine
      <4> HIDE DEF d
      <4>2. o \in SUBSET d.open
        BY <4>1 DEF Sound, Owned
      <4> HIDE DEF o
      <4>3. Fine([d EXCEPT !.out = o], d, s, n)
        BY <4>1, <4>2, OutFine DEF Buffered
      <4>4. Continued(g, s) = [d EXCEPT !.out = o]
        BY <3>2 DEF Continued, d, o
      <4>5. QED
        BY <4>1, <4>3, <4>4, FineChain
    <3>3. QED
      BY <3>1, <3>2
  <2>2. QED
    BY <2>1
<1>2. Fine(OnError(Dropped(e, s), s), e, s, n)
  <2>1. Fine(Dropped(e, s), e, s, n) /\ Sound(Dropped(e, s), n)
    BY DroppedFine DEF Buffered, Fine
  <2>2. Fine(OnError(Dropped(e, s), s), Dropped(e, s), s, n)
    BY <2>1, OnErrorSound
  <2>3. QED
    BY <2>1, <2>2, FineChain
<1>3. ASSUME e.conn[s].len # 0, NEW k \in 0..(e.conn[s].len - e.conn[s].off)
      PROVE  Fine(Continued(Sent(e, s, k), s), e, s, n)
  <2>1. Fine(Sent(e, s, k), e, s, n) /\ Sound(Sent(e, s, k), n)
    BY <1>3, SentFine DEF Buffered, Fine
  <2>2. QED
    BY <1>1, <2>1, FineChain
<1>4. Fine(e, e, s, n)
  BY DEF Fine
<1>5. \/ f = e \/ f = Continued(e, s) \/ f = OnError(Dropped(e, s), s)
      \/ e.conn[s].len # 0
         /\ \E k \in 0..(e.conn[s].len - e.conn[s].off) : f = Continued(Sent(e, s, k), s)
  BY DEF WriteResults
<1>6. QED
  BY <1>1, <1>2, <1>3, <1>4, <1>5

(* handle_client_event, with el_default_on_read.                            *)
LEMMA ClientFine ==
  ASSUME NEW n \in Nat, NEW e, Sound(e, n), NEW s \in Slots, NEW flags,
         NEW f \in ClientResults(e, s, flags)
  PROVE  Fine(f, e, s, n)
<1> DEFINE touched == [e EXCEPT !.conn[s].idle = 0]
<1>1. Fine(touched, e, s, n) /\ Sound(touched, n)
  BY TouchedFine DEF Buffered, Fine
<1> HIDE DEF touched
<1>2. ASSUME NEW g, Sound(g, n) PROVE Fine(OnClose(g, {s}), g, s, n)
  <2>1. {s} \in SUBSET Slots
    OBVIOUS
  <2>2. QED
    BY <1>2, <2>1, OnCloseSound DEF Fine
<1>3. ASSUME NEW g, Sound(g, n) PROVE \A h \in ReadResults(g, s) : Fine(h, g, s, n)
  <2>1. Fine(g, g, s, n)
    BY <1>3 DEF Fine
  <2>2. Fine(OnClose(g, {s}), g, s, n) /\ Fine(OnError(g, s), g, s, n)
    BY <1>2, <1>3, OnErrorSound
  <2>3. QED
    BY <2>1, <2>2 DEF ReadResults
<1>4. Fine(e, e, s, n) /\ Fine(touched, touched, s, n)
  BY <1>1 DEF Fine
<1>5. \A w \in (IF "out" \in flags THEN WriteResults(touched, s) ELSE {touched}) :
        Fine(w, touched, s, n) /\ Sound(w, n)
  BY <1>1, <1>4, WriteFine DEF Fine
<1>6. \/ f = e \/ f = OnError(touched, s) \/ f = OnClose(touched, {s})
      \/ \E w \in (IF "out" \in flags THEN WriteResults(touched, s) ELSE {touched}) :
           f = w \/ f \in ReadResults(w, s)
  BY DEF ClientResults, touched
<1>7. CASE f = e
  BY <1>4, <1>7
<1>8. CASE f = OnError(touched, s) \/ f = OnClose(touched, {s})
  BY <1>1, <1>2, <1>8, OnErrorSound, FineChain
<1>9. ASSUME NEW w, Fine(w, touched, s, n), Sound(w, n), f = w \/ f \in ReadResults(w, s)
      PROVE  Fine(f, e, s, n)
  <2>1. Fine(w, e, s, n)
    BY <1>1, <1>9, FineChain
  <2>2. CASE f \in ReadResults(w, s)
    BY <1>3, <1>9, <2>1, <2>2, FineChain
  <2>3. QED
    BY <1>9, <2>1, <2>2
<1>10. QED
  BY <1>5, <1>6, <1>7, <1>8, <1>9

-----------------------------------------------------------------------------
(* el_add_connection, when a slot is free: another slot, another socket.    *)
LEMMA AddedSound ==
  ASSUME NEW n \in Nat, NEW e, Sound(e, n), e.active < Capacity,
         NEW type \in {"listen", "client", "sip"}
  PROVE  /\ Sound(Added(e, type), n)
         /\ \A t \in Slots : ~IsFree(e, t) => Added(e, type).conn[t] = e.conn[t]
         /\ NewFd(e) \in Fds
<1> DEFINE free == {s \in Slots : IsFree(e, s)}
           new == Lowest(free)
           fd == NewFd(e)
           c == Fresh(type, fd)
           f == Added(e, type)
<1>1. /\ e \in Loops /\ Owned(e) /\ Counted(e) /\ \A t \in Slots : UnitsOK(e.conn[t], n)
  BY DEF Sound
<1>2. e.conn \in [Slots -> Connections] /\ e.active \in Nat /\ e.open \in SUBSET Fds
  BY <1>1 DEF Loops
<1>3. new \in free
  <2>1. free # {} /\ free \in SUBSET Nat
    BY <1>1, CountFacts DEF Counted, Slots
  <2>2. QED
    BY <2>1, LowestFacts
<1>4. fd \in Fds /\ fd \notin e.open
  <2>1. IsFiniteSet(Used(e)) /\ Cardinality(Used(e)) < Capacity /\ Cardinality(Used(e)) \in Nat
    BY <1>1, CountFacts DEF Counted
  <2>2. IsFiniteSet(e.open) /\ Cardinality(e.open) <= Cardinality(Used(e))
    <3> DEFINE socket == [s \in Used(e) |-> e.conn[s].fd]
    <3>1. socket \in Surjection(Used(e), e.open)
      BY <1>1 DEF Owned, Surjection
    <3> HIDE DEF socket
    <3>2. QED
      BY <2>1, <3>1, FS_Surjection
  <2>3. Cardinality(Fds) = Capacity + 1
    BY FS_Interval, CapacityAssumption DEF Fds
  <2>4. Cardinality(e.open) \in Nat
    BY <2>2, FS_CardinalityType
  <2>5. e.open # Fds
    BY <2>1, <2>2, <2>3, <2>4, CapacityAssumption
  <2>6. Fds \ e.open # {} /\ Fds \ e.open \in SUBSET Nat
    <3>1. Fds \ e.open # {}
      BY <1>2, <2>5
    <3>2. Fds \in SUBSET Nat
      BY DEF Fds
    <3>3. QED
      BY <3>1, <3>2
  <2>7. Lowest(Fds \ e.open) \in Fds \ e.open
    BY <2>6, LowestFacts
  <2>8. QED
    BY <2>7 DEF NewFd
<1> HIDE DEF new, fd
<1>5. fd # NoFd /\ new \in Slots /\ IsFree(e, new)
  BY <1>3, <1>4 DEF Fds, NoFd
<1>6. /\ c \in Connections /\ c.type = type /\ c.fd = fd /\ UnitsOK(c, n) /\ type # "free"
  <2>1. 0 \in 0..IdleTimeout /\ 0 \in {0, Units} /\ 0 \in 0..Units /\ 0 \in 0..MaxSends
    BY BoundsAssumption
  <2>2. c = Fresh(type, fd)
    OBVIOUS
  <2> HIDE DEF c
  <2>3. c \in Connections /\ c.type = type /\ c.fd = fd /\ c.msg = 0 /\ c.wire = <<>>
    BY <1>4, <2>1, <2>2 DEF Connections, Fresh
  <2>4. UnitsOK(c, n)
    BY <2>3 DEF UnitsOK
  <2>5. QED
    BY <2>3, <2>4
<1> HIDE DEF c
<1>7. /\ f.conn = [e.conn EXCEPT ![new] = c] /\ f.active = e.active + 1
      /\ f.open = e.open \cup {fd} /\ f.out = e.out
      /\ f = [conn |-> f.conn, active |-> f.active, open |-> f.open, out |-> f.out]
  <2>1. f = [e EXCEPT !.conn[new] = c, !.active = @ + 1, !.open = @ \cup {fd}]
    BY DEF Added, new, fd, c
  <2> HIDE DEF f
  <2>2. QED
    BY <1>1, <2>1 DEF Loops
<1> HIDE DEF f
<1>8. \A t \in Slots : f.conn[t] = IF t = new THEN c ELSE e.conn[t]
  BY <1>2, <1>5, <1>7
<1>9. /\ \A t \in Slots : IsFree(f, t) <=> IsFree(e, t) /\ t # new
      /\ Used(f) = Used(e) \cup {new} /\ new \notin Used(e)
  BY <1>5, <1>6, <1>8 DEF IsFree, Used
<1>10. Counted(f)
  BY <1>1, <1>7, <1>9, CountFacts, FS_AddElement, ZenonT(30) DEF Counted
<1>11. Owned(f)
  <2>1. \A t \in Slots : IsFree(f, t) <=> f.conn[t].fd = NoFd
    BY <1>1, <1>5, <1>6, <1>8, <1>9 DEF Owned
  <2>2. \A t \in Slots : ~IsFree(e, t) => e.conn[t].fd \in e.open
    BY <1>1 DEF Owned, Used
  <2>3. \A s, t \in Slots : ~IsFree(f, s) /\ ~IsFree(f, t) /\ s # t
                              => f.conn[s].fd # f.conn[t].fd
    BY <1>1, <1>4, <1>6, <1>8, <1>9, <2>2 DEF Owned
  <2>4. f.open = {f.conn[t].fd : t \in Used(f)}
    <3>1. \A t \in Used(e) : f.conn[t].fd = e.conn[t].fd
      BY <1>8, <1>9 DEF Used
    <3>2. f.conn[new].fd = fd
      BY <1>5, <1>6, <1>8
    <3>3. QED
      BY <1>1, <1>7, <1>9, <3>1, <3>2 DEF Owned
  <2>5. f.out \subseteq f.open
    BY <1>1, <1>7 DEF Owned
  <2>6. QED
    BY <2>1, <2>3, <2>4, <2>5 DEF Owned
<1>12. f \in Loops
  <2>1. f.conn \in [Slots -> Connections]
    BY <1>2, <1>5, <1>6, <1>7
  <2>2. f.open \in SUBSET Fds /\ f.out \in SUBSET Fds /\ f.active \in Nat
    BY <1>1, <1>2, <1>4, <1>7 DEF Loops
  <2>3. QED
    BY <1>7, <2>1, <2>2 DEF Loops
<1>13. \A t \in Slots : UnitsOK(f.conn[t], n)
  BY <1>1, <1>6, <1>8
<1>14. Sound(f, n) /\ \A t \in Slots : ~IsFree(e, t) => f.conn[t] = e.conn[t]
  BY <1>5, <1>8, <1>10, <1>11, <1>12, <1>13 DEF Sound
<1>15. QED
  BY <1>4, <1>14 DEF f, fd

-----------------------------------------------------------------------------
(* The inductive invariant: the loop state is sound until el_destroy stops  *)
(* counting, and the events still to be handled are of different slots,     *)
(* each of which still has the socket it was reported for.                  *)
Reported == [slot : Slots, flags : SUBSET {"in", "err", "rdhup", "out"}, fd : Fds]

BatchFits(b, e) ==
  /\ b \in Seq(Reported)
  /\ \A i \in DOMAIN b : e.conn[b[i].slot].fd = b[i].fd
  /\ \A i, j \in DOMAIN b : b[i].slot = b[j].slot => i = j

LoopInv ==
  /\ el \in Loops /\ Owned(el) /\ el.active <= Capacity
  /\ \A s \in Slots : UnitsOK(el.conn[s], sends)
  /\ pc # "destroyed" => Counted(el)
  /\ sipFd \in {NoFd} \cup Fds
  /\ pc \in {"created", "wait", "dispatch", "tidy", "exited", "destroyed"}
  /\ running \in BOOLEAN /\ signal \in BOOLEAN /\ sends \in 0..MaxSends
  /\ BatchFits(batch, el) /\ (pc # "dispatch" => batch = <<>>)

(* What a step has to show of the loop state.                               *)
LEMMA SoundInv ==
  ASSUME LoopInv, pc # "destroyed"
  PROVE  Sound(el, sends) /\ sends \in Nat
BY BoundsAssumption DEF LoopInv, Sound

(* What a sound loop state gives the invariant.                             *)
LEMMA InvSound ==
  ASSUME NEW n \in Nat, NEW e, Sound(e, n)
  PROVE  /\ e \in Loops /\ Owned(e) /\ Counted(e) /\ e.active <= Capacity
         /\ \A s \in Slots : UnitsOK(e.conn[s], n)
BY CountFacts, CapacityAssumption DEF Sound, Counted

(* The event handled leaves the others where they were.                     *)
LEMMA TailFits ==
  ASSUME NEW b, NEW e, NEW f, BatchFits(b, e), b # <<>>,
         \A t \in Slots : t # Head(b).slot => f.conn[t].fd = e.conn[t].fd
  PROVE  BatchFits(Tail(b), f) /\ Head(b) \in Reported
<1>1. /\ b \in Seq(Reported) /\ Head(b) = b[1] /\ 1 \in DOMAIN b
      /\ Tail(b) \in Seq(Reported)
      /\ \A i \in DOMAIN Tail(b) : i + 1 \in DOMAIN b /\ Tail(b)[i] = b[i + 1] /\ i + 1 # 1
      /\ \A i \in DOMAIN Tail(b) : i \in Nat
      /\ \A i \in DOMAIN b : b[i] \in Reported
  BY DEF BatchFits
<1>2. ASSUME NEW i \in DOMAIN Tail(b) PROVE f.conn[Tail(b)[i].slot].fd = Tail(b)[i].fd
  <2>1. b[i + 1].slot # b[1].slot /\ b[i + 1].slot \in Slots
    BY <1>1 DEF BatchFits, Reported
  <2>2. QED
    BY <1>1, <2>1 DEF BatchFits
<1>3. ASSUME NEW i \in DOMAIN Tail(b), NEW j \in DOMAIN Tail(b),
             Tail(b)[i].slot = Tail(b)[j].slot
      PROVE  i = j
  <2>1. i + 1 = j + 1
    BY <1>1, <1>3 DEF BatchFits
  <2>2. QED
    BY <1>1, <2>1
<1>4. QED
  BY <1>1, <1>2, <1>3 DEF BatchFits

(* No events fit any loop state.                                            *)
LEMMA EmptyFits ==
  ASSUME NEW e
  PROVE  BatchFits(<<>>, e)
BY DEF BatchFits

(* epoll_wait reports registered sockets, that is those of slots in use.    *)
LEMMA WaitFits ==
  ASSUME LoopInv, EpollWait
  PROVE  BatchFits(batch', el)
<1>1. PICK n \in 0..MaxBatch : batch' \in [1..n -> Events]
  BY DEF EpollWait
<1>2. \A i, j \in DOMAIN batch' : batch'[i].slot = batch'[j].slot => i = j
  BY DEF EpollWait
<1>3. ASSUME NEW r \in Events PROVE r \in Reported /\ el.conn[r.slot].fd = r.fd
  <2>1. PICK s \in Slots : r \in {[slot |-> s, flags |-> g, fd |-> el.conn[s].fd] : g \in Flags(s)}
    BY <1>3 DEF Events
  <2>0. PICK f \in Flags(s) : r = [slot |-> s, flags |-> f, fd |-> el.conn[s].fd]
    BY <2>1
  <2>2. f \in SUBSET {"in", "err", "rdhup", "out"} /\ ~IsFree(el, s)
    BY DEF Flags, IsFree
  <2>3. el.conn[s].fd \in Fds
    BY <2>2 DEF LoopInv, Owned, Loops, Used
  <2>4. QED
    BY <2>0, <2>2, <2>3 DEF Reported
<1>4. n \in Nat
  BY DEF MaxBatch
<1>5. batch' \in Seq(Reported) /\ DOMAIN batch' = 1..n
  <2>1. batch' \in [1..n -> Reported]
    BY <1>1, <1>3
  <2>2. QED
    BY <1>4, <2>1
<1>6. \A i \in DOMAIN batch' : el.conn[batch'[i].slot].fd = batch'[i].fd
  BY <1>1, <1>3, <1>5
<1>7. QED
  BY <1>2, <1>5, <1>6 DEF BatchFits

(* el_create                                                                *)
LEMMA InitLoopInv ==
  ASSUME Init
  PROVE  LoopInv
<1> DEFINE none == [conn |-> [s \in Slots |-> FreeSlot], active |-> 0, open |-> {}, out |-> {}]
<1>1. Sound(none, 0)
  <2>1. 0 \in 0..IdleTimeout /\ 0 \in {0, Units} /\ 0 \in 0..Units /\ 0 \in 0..MaxSends
    BY BoundsAssumption
  <2>2. FreeSlot \in Connections /\ UnitsOK(FreeSlot, 0) /\ FreeSlot.type = "free"
        /\ FreeSlot.fd = NoFd
    BY <2>1 DEF FreeSlot, Fresh, Connections, UnitsOK
  <2>3. none \in Loops /\ \A s \in Slots : IsFree(none, s) /\ none.conn[s] = FreeSlot
    BY <2>2 DEF Loops, IsFree
  <2>4. Used(none) = {}
    BY <2>3 DEF Used
  <2>5. Counted(none)
    BY <2>4, FS_EmptySet DEF Counted
  <2>6. Owned(none)
    BY <2>2, <2>3, <2>4 DEF Owned
  <2>7. QED
    BY <2>2, <2>3, <2>5, <2>6 DEF Sound
<1>2. none.active < Capacity
  BY CapacityAssumption
<1>3. \/ el = Added(none, "sip") /\ sipFd = NewFd(none)
      \/ el = none /\ sipFd = NoFd
  BY DEF Init
<1> HIDE DEF none
<1>4. Sound(Added(none, "sip"), 0) /\ NewFd(none) \in Fds
  BY <1>1, <1>2, AddedSound
<1>5. Sound(el, 0) /\ sipFd \in {NoFd} \cup Fds
  BY <1>1, <1>3, <1>4
<1>6. batch = <<>> /\ pc = "created" /\ running = FALSE /\ signal = FALSE /\ sends = 0
  BY DEF Init
<1>7. BatchFits(batch, el)
  BY <1>6, EmptyFits
<1>8. /\ el \in Loops /\ Owned(el) /\ Counted(el) /\ el.active <= Capacity
      /\ \A s \in Slots : UnitsOK(el.conn[s], 0)
  BY <1>5, InvSound
<1>9. 0 \in 0..MaxSends
  BY BoundsAssumption
<1>10. QED
  BY <1>5, <1>6, <1>7, <1>8, <1>9 DEF LoopInv

-----------------------------------------------------------------------------
(* One lemma per kind of step.  A step that leaves the loop state alone     *)
(* keeps the invariant if it empties, keeps or fills the batch.             *)
LEMMA StillInv ==
  ASSUME LoopInv, el' = el, sipFd' = sipFd, sends' = sends, pc # "destroyed",
         pc' \in {"wait", "dispatch", "tidy", "exited"}, running' \in BOOLEAN,
         signal' \in BOOLEAN, BatchFits(batch', el), pc' # "dispatch" => batch' = <<>>
  PROVE  LoopInv'
BY DEF LoopInv, Owned, Counted, Used, IsFree, BatchFits

(* A step to a sound loop state keeps it.                                   *)
LEMMA MovedInv ==
  ASSUME LoopInv, Sound(el', sends'), sipFd' = sipFd, sends' \in 0..MaxSends,
         pc' \in {"created", "wait", "dispatch", "tidy", "exited"}, running' = running,
         signal' = signal, BatchFits(batch', el'), pc' # "dispatch" => batch' = <<>>
  PROVE  LoopInv'
<1>1. sends' \in Nat
  BY BoundsAssumption
<1>2. /\ el' \in Loops /\ Owned(el') /\ Counted(el') /\ el'.active <= Capacity
      /\ \A s \in Slots : UnitsOK(el'.conn[s], sends')
  BY <1>1, InvSound
<1>3. QED
  BY <1>2 DEF LoopInv, Owned, Counted, Used, IsFree, BatchFits

(* Run, EpollWait and its errors, BatchDone, NoCleanup and AcceptDone.      *)
LEMMA QuietSteps ==
  ASSUME LoopInv,
         Run \/ EpollWait \/ Interrupted \/ EpollFails \/ BatchDone \/ NoCleanup \/ AcceptDone
  PROVE  LoopInv'
<1>1. running \in BOOLEAN /\ signal \in BOOLEAN /\ BatchFits(batch, el)
      /\ (pc # "dispatch" => batch = <<>>)
  BY DEF LoopInv
<1>2. Again \in {"wait", "exited"}
  BY DEF Again
<1>3. CASE Run
  BY <1>1, <1>3, StillInv DEF Run
<1>4. CASE EpollWait
  <2>1. BatchFits(batch', el)
    BY <1>4, WaitFits
  <2>2. QED
    BY <1>1, <1>4, <2>1, StillInv DEF EpollWait
<1>5. CASE Interrupted
  BY <1>1, <1>2, <1>5, StillInv DEF Interrupted
<1>5a. CASE EpollFails
  BY <1>1, <1>5a, StillInv DEF EpollFails
<1>6. CASE BatchDone
  BY <1>1, <1>6, StillInv DEF BatchDone
<1>7. CASE NoCleanup
  BY <1>1, <1>2, <1>7, StillInv DEF NoCleanup
<1>8. CASE AcceptDone
  <2>1. BatchFits(batch', el)
    BY <1>1, <1>8, TailFits DEF AcceptDone, Dispatching
  <2>2. QED
    BY <1>1, <1>8, <2>1, StillInv DEF AcceptDone, Dispatching
<1>9. QED
  BY <1>3, <1>4, <1>5, <1>5a, <1>6, <1>7, <1>8

(* Signal                                                                   *)
LEMMA SignalInv ==
  ASSUME LoopInv, Signal
  PROVE  LoopInv'
BY ZenonT(30) DEF LoopInv, Signal, Owned, Counted, Used, IsFree, BatchFits

(* AddListener and Accept take a free slot: no event of the batch is of it. *)
LEMMA AddSteps ==
  ASSUME LoopInv, AddListener \/ Accept
  PROVE  LoopInv'
<1>1. /\ Sound(el, sends) /\ sends \in Nat /\ BatchFits(batch, el)
      /\ (pc # "dispatch" => batch = <<>>) /\ sends \in 0..MaxSends
  BY SoundInv DEF LoopInv, AddListener, Accept, Dispatching
<1>2. PICK type \in {"listen", "client", "sip"} : el.active < Capacity /\ el' = Added(el, type)
  BY DEF AddListener, Accept
<1>3. Sound(el', sends) /\ \A t \in Slots : ~IsFree(el, t) => el'.conn[t] = el.conn[t]
  BY <1>1, <1>2, AddedSound
<1>4. ASSUME NEW i \in DOMAIN batch PROVE el'.conn[batch[i].slot] = el.conn[batch[i].slot]
  <2>1. /\ batch[i] \in Reported /\ el.conn[batch[i].slot].fd = batch[i].fd
    BY <1>1 DEF BatchFits
  <2>2. batch[i].slot \in Slots /\ ~IsFree(el, batch[i].slot)
    BY <1>1, <2>1 DEF Reported, Sound, Owned, Fds, NoFd
  <2>3. QED
    BY <1>3, <2>2
<1>5. BatchFits(batch, el')
  BY <1>1, <1>4 DEF BatchFits
<1>6. /\ sipFd' = sipFd /\ batch' = batch /\ pc' = pc /\ running' = running
      /\ signal' = signal /\ sends' = sends /\ pc \in {"created", "dispatch"}
  BY DEF AddListener, Accept, Dispatching
<1>7. QED
  BY <1>1, <1>3, <1>5, <1>6, MovedInv

(* ClientEvent                                                              *)
LEMMA ClientInv ==
  ASSUME LoopInv, ClientEvent
  PROVE  LoopInv'
<1>1. /\ Sound(el, sends) /\ sends \in Nat /\ BatchFits(batch, el) /\ batch # <<>>
      /\ sends \in 0..MaxSends
  BY SoundInv DEF LoopInv, ClientEvent, Dispatching
<1>2. Event \in Reported
  BY <1>1 DEF BatchFits, Event
<1>3. Fine(el', el, Event.slot, sends)
  BY <1>1, <1>2, ClientFine DEF ClientEvent, Reported
<1>4. BatchFits(batch', el')
  <2>1. \A t \in Slots : t # Head(batch).slot => el'.conn[t].fd = el.conn[t].fd
    BY <1>3 DEF Fine, Event
  <2>2. QED
    BY <1>1, <2>1, TailFits DEF ClientEvent
<1>5. QED
  BY <1>1, <1>3, <1>4, MovedInv DEF ClientEvent, Dispatching, Fine

(* Cleanup: on_close, then el_remove_connection again.                      *)
LEMMA CleanupInv ==
  ASSUME LoopInv, Cleanup
  PROVE  LoopInv'
<1>1. Sound(el, sends) /\ sends \in Nat /\ batch = <<>> /\ sends \in 0..MaxSends
  BY SoundInv DEF LoopInv, Cleanup
<1>2. IdleSlots \in SUBSET Slots
  BY DEF IdleSlots
<1>3. Sound(OnClose(el, IdleSlots), sends)
  BY <1>1, <1>2, OnCloseSound
<1>4. Sound(TidyNow(el), sends)
  BY <1>1, <1>2, <1>3, RemovedSound DEF TidyNow
<1>5. BatchFits(<<>>, el') /\ Again \in {"wait", "exited"}
  BY EmptyFits DEF Again
<1>6. QED
  BY <1>1, <1>4, <1>5, MovedInv DEF Cleanup

(* SendData                                                                 *)
LEMMA SendInv ==
  ASSUME LoopInv, NEW s \in Slots, SendData(s)
  PROVE  LoopInv'
<1>1. /\ Sound(el, sends) /\ sends \in Nat /\ batch = <<>> /\ sends \in 0..MaxSends
      /\ sends < MaxSends
  BY SoundInv DEF LoopInv, SendData
<1>2. el' \in SendResults(el, s, sends + 1) /\ sends' = sends + 1 /\ ~IsFree(el, s)
  BY DEF SendData, IsFree
<1>3. Sound(el', sends + 1)
  <2>1. sends + 1 \in 1..MaxSends
    BY <1>1, BoundsAssumption
  <2>2. Fine(el', el, s, sends + 1)
    BY <1>1, <1>2, <2>1, SendFine
  <2>3. QED
    BY <2>2 DEF Fine
<1>4. BatchFits(<<>>, el') /\ sends + 1 \in 0..MaxSends
  BY <1>1, EmptyFits, BoundsAssumption
<1>5. QED
  BY <1>1, <1>2, <1>3, <1>4, MovedInv DEF SendData

(* Tick: the connections' ages alone.                                       *)
LEMMA TickInv ==
  ASSUME LoopInv, Tick
  PROVE  LoopInv'
<1> DEFINE conn == [s \in Slots |-> Older(el.conn[s])]
<1>1. /\ Sound(el, sends) /\ sends \in Nat /\ batch = <<>> /\ sends \in 0..MaxSends
  BY SoundInv DEF LoopInv, Tick
<1>2. el \in Loops /\ Owned(el) /\ Counted(el) /\ \A s \in Slots : UnitsOK(el.conn[s], sends)
  BY <1>1 DEF Sound
<1>3. el' = [conn |-> conn, active |-> el.active, open |-> el.open, out |-> el.out]
  BY <1>2 DEF Tick, Loops
<1>4. ASSUME NEW s \in Slots
      PROVE  /\ conn[s] \in Connections
             /\ conn[s].type = el.conn[s].type /\ conn[s].fd = el.conn[s].fd
             /\ UnitsOK(conn[s], sends)
  <2>1. el.conn[s] \in Connections
    BY <1>2 DEF Loops
  <2>2. CASE IsFree(el, s) \/ el.conn[s].idle = IdleTimeout
    BY <1>2, <2>1, <2>2 DEF IsFree, Older
  <2>3. CASE ~(IsFree(el, s) \/ el.conn[s].idle = IdleTimeout)
    <3>1. conn[s] = [el.conn[s] EXCEPT !.idle = @ + 1]
      BY <2>3 DEF IsFree, Older
    <3> HIDE DEF conn
    <3>2. el.conn[s].idle + 1 \in 0..IdleTimeout
      <4>1. el.conn[s].idle \in 0..IdleTimeout
        BY <2>1 DEF Connections
      <4>2. el.conn[s].idle # IdleTimeout
        BY <2>3
      <4>3. ASSUME NEW i \in 0..IdleTimeout, i # IdleTimeout PROVE i + 1 \in 0..IdleTimeout
        BY <4>3, BoundsAssumption
      <4>4. QED
        BY <4>1, <4>2, <4>3
    <3>3. conn[s] \in Connections
      BY <2>1, <3>1, <3>2 DEF Connections
    <3>4. /\ conn[s].type = el.conn[s].type /\ conn[s].fd = el.conn[s].fd
          /\ conn[s].msg = el.conn[s].msg /\ conn[s].wire = el.conn[s].wire
          /\ conn[s].len = el.conn[s].len /\ conn[s].off = el.conn[s].off
      BY <2>1, <3>1 DEF Connections
    <3>5. UnitsOK(conn[s], sends)
      BY <1>2, <3>4 DEF UnitsOK
    <3>6. QED
      BY <3>3, <3>4, <3>5
  <2>4. QED
    BY <2>2, <2>3
<1>5. conn \in [Slots -> Connections]
  BY <1>4
<1> HIDE DEF conn
<1>6. el'.conn = conn /\ el'.active = el.active /\ el'.open = el.open /\ el'.out = el.out
  BY <1>3
<1>7. el' \in Loops
  BY <1>2, <1>3, <1>5 DEF Loops
<1>8. \A s \in Slots : /\ IsFree(el', s) <=> IsFree(el, s)
                       /\ el'.conn[s].fd = el.conn[s].fd
                       /\ UnitsOK(el'.conn[s], sends)
  BY <1>4, <1>6 DEF IsFree
<1>9. Used(el') = Used(el)
  BY <1>8 DEF Used
<1>10. Counted(el')
  BY <1>2, <1>6, <1>9 DEF Counted
<1>11. {el'.conn[s].fd : s \in Used(el)} = {el.conn[s].fd : s \in Used(el)}
  BY <1>8 DEF Used
<1>12. Owned(el')
  BY <1>2, <1>6, <1>8, <1>9, <1>11 DEF Owned
<1>13. Sound(el', sends) /\ BatchFits(<<>>, el')
  BY <1>7, <1>8, <1>10, <1>12, EmptyFits DEF Sound
<1>14. QED
  BY <1>1, <1>13, MovedInv DEF Tick

(* Destroy closes every socket; active_count is left behind.                *)
LEMMA DestroyInv ==
  ASSUME LoopInv, Destroy
  PROVE  LoopInv'
<1> DEFINE closed == OnClose(el, Slots)
<1>1. /\ Sound(el, sends) /\ sends \in Nat /\ batch = <<>> /\ sends \in 0..MaxSends
  BY SoundInv DEF LoopInv, Destroy
<1>2. Sound(closed, sends)
  BY <1>1, OnCloseSound
<1> HIDE DEF closed
<1>3. el' = Freed(closed, Taken(closed, Slots), 0)
  BY DEF Destroy, closed
<1>4. Taken(closed, Slots) \in SUBSET Used(closed)
  BY DEF Taken, Used
<1>5. /\ el'.conn \in [Slots -> Connections] /\ el'.open \in SUBSET Fds
      /\ el'.out \in SUBSET Fds /\ el'.active = closed.active - 0
      /\ Owned(el') /\ \A s \in Slots : UnitsOK(el'.conn[s], sends)
  <2> DEFINE T == Taken(closed, Slots)
             freed == Freed(closed, T, 0)
  <2>1. sends \in Nat /\ Sound(closed, sends) /\ T \in SUBSET Used(closed)
    BY <1>1, <1>2, <1>4
  <2> HIDE DEF T
  <2>2. Owned(freed)
    BY <2>1, FreedSound
  <2>3. freed.conn \in [Slots -> Connections]
    BY <2>1, FreedSound
  <2>4. freed.open \in SUBSET Fds /\ freed.out \in SUBSET Fds
    BY <2>1, FreedSound
  <2>5. \A s \in Slots : UnitsOK(freed.conn[s], sends)
    BY <2>1, FreedSound
  <2>6. freed.active = closed.active - 0
    BY <2>1 DEF Freed, Sound, Loops
  <2> HIDE DEF freed
  <2>7. el' = freed
    BY <1>3 DEF freed, T
  <2>8. QED
    BY <2>2, <2>3, <2>4, <2>5, <2>6, <2>7
<1>6. closed \in Loops /\ closed.active <= Capacity
  BY <1>1, <1>2, InvSound
<1>7. el' = [conn |-> el'.conn, active |-> el'.active, open |-> el'.open, out |-> el'.out]
  BY <1>3, <1>6 DEF Freed, Loops
<1>8. el'.active \in Nat /\ el'.active <= Capacity
  BY <1>5, <1>6 DEF Loops
<1>9. el' \in Loops
  BY <1>5, <1>7, <1>8 DEF Loops
<1>10. BatchFits(<<>>, el')
  BY EmptyFits
<1>11. QED
  BY <1>1, <1>5, <1>8, <1>9, <1>10 DEF LoopInv, Destroy, Owned, Used, IsFree, BatchFits

(* Every step keeps the invariant.                                          *)
LEMMA NextLoopInv ==
  ASSUME LoopInv, [Next]_vars
  PROVE  LoopInv'
<1>1. CASE Next
  <2>1. \/ Run \/ EpollWait \/ Interrupted \/ EpollFails \/ BatchDone \/ NoCleanup \/ AcceptDone
        \/ ClientEvent \/ Cleanup \/ Destroy \/ AddListener \/ Accept \/ Signal \/ Tick
        \/ \E s \in Slots : SendData(s)
    BY <1>1 DEF Next, Loop
  <2>2. QED
    BY <2>1, QuietSteps, SignalInv, AddSteps, ClientInv, CleanupInv, SendInv, TickInv, DestroyInv
<1>2. CASE UNCHANGED vars
  BY <1>2 DEF vars, LoopInv, Owned, Counted, Used, IsFree, BatchFits
<1>3. QED
  BY <1>1, <1>2

-----------------------------------------------------------------------------
(* The invariant holds in every run of the loop.                            *)
THEOREM LoopInvariance == Spec => []LoopInv
<1>1. Init => LoopInv
  BY InitLoopInv
<1>2. LoopInv /\ [Next]_vars => LoopInv'
  BY NextLoopInv
<1>3. QED
  BY <1>1, <1>2, PTL DEF Spec

(* Types; in particular active_count stays between 0 and conn_capacity and  *)
(* only open sockets are registered for EPOLLOUT.                           *)
THEOREM LoopTypes == Spec => []TypeOK
<1>1. LoopInv => TypeOK
  BY DEF LoopInv, TypeOK, Loops, Owned, BatchFits, Reported
<1>2. QED
  BY <1>1, LoopInvariance, PTL

(* active_count is the number of slots in use, for any capacity, although   *)
(* on_close, default_on_error and the idle check may each remove the same   *)
(* connection.                                                              *)
THEOREM CountTrue == Spec => []ActiveCountTruth
<1>1. LoopInv => ActiveCountTruth
  BY DEF LoopInv, ActiveCountTruth, Counted, Used
<1>2. QED
  BY <1>1, LoopInvariance, PTL

(* Each open socket belongs to one slot: none is leaked or shared.          *)
THEOREM SocketsKept == Spec => []SocketsOwned
<1>1. LoopInv => SocketsOwned
  BY DEF LoopInv, SocketsOwned, Owned, Used
<1>2. QED
  BY <1>1, LoopInvariance, PTL

(* An event is handled for the connection it was reported for, for batches  *)
(* of two and with any number of slots freed and taken again.               *)
THEOREM EventsFresh == Spec => []NoStaleEvent
<1>1. LoopInv => NoStaleEvent
  BY DEF LoopInv, NoStaleEvent, BatchFits
<1>2. QED
  BY <1>1, LoopInvariance, PTL

(* Nothing goes out twice or out of order on a connection, for messages of  *)
(* any length cut into any partial sends.                                   *)
THEOREM UnitsInOrder == Spec => []NoUnitTwice
<1>1. LoopInv => NoUnitTwice
  BY DEF LoopInv, NoUnitTwice, UnitsOK
<1>2. QED
  BY <1>1, LoopInvariance, PTL
=============================================================================
