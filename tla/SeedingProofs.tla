--------------------------- MODULE SeedingProofs ---------------------------
(* Proofs about Seeding, for every table of departments and every size of a *)
(* batch: what one step of the seeding keeps.  Lifecycle repeats it and     *)
(* interrupts it; LifecycleProofs has the theorems.                         *)
(*                                                                          *)
(* A refused batch is the difficulty: the code cannot tell a key that is    *)
(* taken from another failure, and goes on.  That is right only if a batch  *)
(* one of whose extensions is there is there as a whole (Whole), which is   *)
(* so because every start cuts the numbers in the same batches.             *)
EXTENDS Seeding, SequenceTheorems, TLAPS

Starts(d) == {n \in Numbers(d) : \E k \in Nat : n = Depts[d].first + k * BatchRows}

\* The rows of the batch of department d that begins with n.
BatchAt(d, n) ==
  n..(IF n + BatchRows - 1 > Depts[d].last THEN Depts[d].last ELSE n + BatchRows - 1)

Whole ==
  \A d \in DOMAIN Depts : \A n \in Starts(d) :
    BatchAt(d, n) \subseteq extensions \/ BatchAt(d, n) \cap extensions = {}

AtStart ==
  /\ at.first \in Starts(at.dept)
  /\ at.table = "agents" => Depts[at.dept].external

Filled(d) ==
  /\ Numbers(d) \subseteq extensions
  /\ Depts[d].external => Numbers(d) \subseteq agents

\* What lies before the batch at hand is there, if no connection broke.
Before ==
  /\ departments
  /\ \A d \in DOMAIN Depts : d < at.dept => Filled(d)
  /\ IF at.table = "extensions"
     THEN Depts[at.dept].first..(at.first - 1) \subseteq extensions
     ELSE /\ Numbers(at.dept) \subseteq extensions
          /\ Depts[at.dept].first..(at.first - 1) \subseteq agents

SInv ==
  /\ SeedTypeOK /\ Whole /\ AtStart
  /\ ~broken /\ seeding = "count" => departments
  /\ ~broken /\ seeding = "insert" => Before
  /\ SeedCompletes

-----------------------------------------------------------------------------
(* Facts about the departments and the batches.                             *)
LEMMA DeptFacts ==
  ASSUME NEW d \in DOMAIN Depts
  PROVE  /\ d \in Nat /\ d \in 1..Len(Depts) /\ Len(Depts) \in Nat
         /\ Depts[d].first \in Nat /\ Depts[d].last \in Nat
         /\ Depts[d].external \in BOOLEAN /\ Depts[d].first <= Depts[d].last
         /\ 1 \in DOMAIN Depts
         /\ d # Len(Depts) => d + 1 \in DOMAIN Depts
         /\ BatchRows \in Nat /\ BatchRows > 0
<1> DEFINE Rows == [first : Nat, last : Nat, external : BOOLEAN]
<1>1. Depts \in Seq(Rows) /\ Depts # <<>>
  BY DeptsAssumption
<1>2. Len(Depts) \in Nat \ {0}
  BY <1>1, EmptySeq
<1>3. DOMAIN Depts = 1..Len(Depts) /\ \A e \in DOMAIN Depts : Depts[e] \in Rows
  <2> HIDE DEF Rows
  <2>1. QED
    BY <1>1
<1>4. Depts[d].first \in Nat /\ Depts[d].last \in Nat /\ Depts[d].external \in BOOLEAN
  <2>1. Depts[d] \in Rows
    BY <1>3
  <2>2. \A r \in Rows : r.first \in Nat /\ r.last \in Nat /\ r.external \in BOOLEAN
    OBVIOUS
  <2>3. QED
    BY <2>1, <2>2
<1>5. QED
  BY <1>2, <1>3, <1>4, DeptsAssumption, SeedAssumption

(* Two batches of a department begin BatchRows apart at least.              *)
LEMMA StartsApart ==
  ASSUME NEW d \in DOMAIN Depts, NEW n \in Starts(d), NEW m \in Starts(d), n < m
  PROVE  n + BatchRows <= m
<1> USE DeptFacts
<1>1. PICK k \in Nat : n = Depts[d].first + k * BatchRows
  BY DEF Starts
<1>2. PICK l \in Nat : m = Depts[d].first + l * BatchRows
  BY DEF Starts
<1>3. \A a, b, c \in Nat : a <= b => a * c <= b * c
  OBVIOUS
<1>4. k < l
  BY <1>1, <1>2, <1>3
<1>5. (k + 1) * BatchRows <= l * BatchRows
  BY <1>3, <1>4
<1>6. QED
  BY <1>1, <1>2, <1>5

(* Different batches have no row in common.                                 *)
LEMMA BatchesDisjoint ==
  ASSUME NEW d \in DOMAIN Depts, NEW e \in DOMAIN Depts,
         NEW n \in Starts(d), NEW m \in Starts(e), d # e \/ n # m
  PROVE  BatchAt(d, n) \cap BatchAt(e, m) = {}
<1> USE DeptFacts
<1>1. n \in Numbers(d) /\ m \in Numbers(e)
  BY DEF Starts
<1>2. BatchAt(d, n) \subseteq Numbers(d) /\ BatchAt(e, m) \subseteq Numbers(e)
  <2>1. n \in Nat /\ m \in Nat
    BY <1>1 DEF Numbers
  <2>2. BatchAt(d, n) \subseteq Numbers(d)
    BY <1>1, <2>1 DEF BatchAt, Numbers
  <2>3. BatchAt(e, m) \subseteq Numbers(e)
    BY <1>1, <2>1 DEF BatchAt, Numbers
  <2>4. QED
    BY <2>2, <2>3
<1>3. CASE d # e
  <2>1. Depts[d].last < Depts[e].first \/ Depts[e].last < Depts[d].first
    BY <1>3, DeptsAssumption
  <2>2. QED
    BY <1>2, <2>1 DEF Numbers
<1>4. CASE d = e
  <2>1. n + BatchRows <= m \/ m + BatchRows <= n
    BY <1>1, <1>4, StartsApart DEF Numbers
  <2>2. QED
    BY <1>1, <1>4, <2>1, SMTT(30) DEF BatchAt, Numbers
<1>5. QED
  BY <1>3, <1>4

(* The next batch begins where this one ends, or the department is done.    *)
LEMMA NextBatch ==
  ASSUME NEW d \in DOMAIN Depts, NEW n \in Starts(d)
  PROVE  /\ n + BatchRows <= Depts[d].last =>
              /\ n + BatchRows \in Starts(d)
              /\ Depts[d].first..(n + BatchRows - 1) =
                   (Depts[d].first..(n - 1)) \cup BatchAt(d, n)
         /\ ~(n + BatchRows <= Depts[d].last) =>
              Numbers(d) = (Depts[d].first..(n - 1)) \cup BatchAt(d, n)
         /\ Depts[d].first \in Starts(d)
         /\ BatchAt(d, n) \subseteq Numbers(d) /\ BatchAt(d, n) # {}
<1> USE DeptFacts
<1>1. n \in Numbers(d)
  BY DEF Starts
<1>2. ASSUME n + BatchRows <= Depts[d].last PROVE n + BatchRows \in Starts(d)
  <2>1. PICK k \in Nat : n = Depts[d].first + k * BatchRows
    BY DEF Starts
  <2>2. n + BatchRows = Depts[d].first + (k + 1) * BatchRows /\ k + 1 \in Nat
    BY <2>1
  <2>3. n + BatchRows \in Numbers(d)
    BY <1>1, <1>2 DEF Numbers
  <2>4. QED
    BY <2>2, <2>3, Zenon DEF Starts
<1>3. Depts[d].first \in Starts(d)
  <2>1. Depts[d].first = Depts[d].first + 0 * BatchRows /\ 0 \in Nat
    OBVIOUS
  <2>2. Depts[d].first \in Numbers(d)
    BY DEF Numbers
  <2>3. QED
    BY <2>1, <2>2, Zenon DEF Starts
<1>4. BatchAt(d, n) \subseteq Numbers(d) /\ BatchAt(d, n) # {}
  <2>1. n \in BatchAt(d, n)
    BY <1>1 DEF BatchAt, Numbers
  <2>2. n \in Nat /\ Depts[d].first <= n /\ n <= Depts[d].last
    BY <1>1 DEF Numbers
  <2>3. BatchAt(d, n) \subseteq Numbers(d)
    BY <2>2 DEF BatchAt, Numbers
  <2>4. QED
    BY <2>1, <2>3
<1>5. ASSUME n + BatchRows <= Depts[d].last
      PROVE  Depts[d].first..(n + BatchRows - 1) = (Depts[d].first..(n - 1)) \cup BatchAt(d, n)
  BY <1>1, <1>5 DEF BatchAt, Numbers
<1>6. ASSUME ~(n + BatchRows <= Depts[d].last)
      PROVE  Numbers(d) = (Depts[d].first..(n - 1)) \cup BatchAt(d, n)
  BY <1>1, <1>6 DEF BatchAt, Numbers
<1>7. QED
  BY <1>2, <1>3, <1>4, <1>5, <1>6

-----------------------------------------------------------------------------
(* The first batch of the first department is a batch.                      *)
LEMMA FirstBatchOK ==
  /\ FirstBatch \in [dept : DOMAIN Depts, table : {"extensions", "agents"}, first : Nat]
  /\ FirstBatch.dept = 1 /\ FirstBatch.table = "extensions"
  /\ FirstBatch.first = Depts[1].first
  /\ FirstBatch.first \in Starts(1) /\ FirstBatch.first \in Numbers(1)
<1>1. 1 \in DOMAIN Depts
  <2>1. PICK d \in DOMAIN Depts : TRUE
    BY DeptsAssumption, EmptySeq
  <2>2. QED
    BY DeptFacts
<1>2. Depts[1].first \in Nat /\ Depts[1].first \in Numbers(1)
  BY <1>1, DeptFacts DEF Numbers
<1>3. Depts[1].first \in Starts(1)
  <2>1. Depts[1].first = Depts[1].first + 0 * BatchRows /\ 0 \in Nat
    BY <1>2, SeedAssumption
  <2>2. QED
    BY <1>2, <2>1, Zenon DEF Starts
<1>4. QED
  BY <1>1, <1>2, <1>3 DEF FirstBatch

(* A new deployment has no row.                                             *)
LEMMA InitSInv == SeedInit => SInv
<1> SUFFICES ASSUME SeedInit PROVE SInv
  OBVIOUS
<1>1. SeedTypeOK /\ AtStart
  BY FirstBatchOK DEF SeedInit, SeedTypeOK, AtStart
<1>2. Whole
  BY DEF SeedInit, Whole
<1>3. QED
  BY <1>1, <1>2 DEF SeedInit, SInv, SeedCompletes

(* A restart keeps the rows, and forgets where the seeding was.             *)
LEMMA RestartSInv ==
  ASSUME SInv, UNCHANGED tables, seeding' = "off", at' = FirstBatch, broken' = FALSE
  PROVE  SInv'
<1>1. SeedTypeOK' /\ AtStart'
  BY FirstBatchOK DEF SInv, SeedTypeOK, AtStart, tables
<1>2. Whole'
  BY DEF SInv, Whole, tables
<1>3. QED
  BY <1>1, <1>2 DEF SInv, SeedCompletes

(* The schema and the count of the agents touch no extension and no agent.  *)
LEMMA StartSInv ==
  ASSUME SInv, InitSchema \/ CountAgents
  PROVE  SInv'
<1>1. UNCHANGED <<extensions, agents>>
  BY DEF InitSchema, CountAgents, tables
<1>2. CASE InitSchema
  <2>1. /\ at' = at /\ seeding' \in {"count", "skipped"}
        /\ departments' \in BOOLEAN /\ broken' \in BOOLEAN
        /\ ~broken' /\ seeding' = "count" => departments'
    BY <1>2 DEF InitSchema, Insert, SInv, SeedTypeOK
  <2>2. SeedTypeOK' /\ AtStart' /\ Whole'
    BY <1>1, <2>1 DEF SInv, SeedTypeOK, AtStart, Whole
  <2>3. QED
    BY <2>1, <2>2 DEF SInv, SeedCompletes
<1>3. CASE CountAgents
  <2>1. /\ seeding = "count" /\ seeding' \in {"skipped", "insert"} /\ at' = FirstBatch
        /\ UNCHANGED <<departments, broken>>
    BY <1>3 DEF CountAgents, tables
  <2>2. SeedTypeOK' /\ AtStart' /\ Whole'
    BY <1>1, <2>1, FirstBatchOK DEF SInv, SeedTypeOK, AtStart, Whole
  <2>3. ASSUME departments' PROVE Before'
    <3>1. /\ \A d \in DOMAIN Depts : ~(d < at'.dept)
          /\ at'.table = "extensions" /\ at'.first = Depts[at'.dept].first
          /\ Depts[at'.dept].first \in Nat
      BY <2>1, FirstBatchOK, DeptFacts
    <3>2. Depts[at'.dept].first..(at'.first - 1) = {}
      BY <3>1
    <3>3. QED
      BY <2>3, <3>1, <3>2 DEF Before
  <2>4. QED
    BY <2>1, <2>2, <2>3 DEF SInv, SeedCompletes
<1>4. QED
  BY <1>2, <1>3

(* A batch: it is added, or was there, or a connection broke.               *)
LEMMA BatchRowsAdded ==
  ASSUME SInv, InsertBatch
  PROVE  /\ departments' = departments /\ broken' \in BOOLEAN
         /\ extensions' = extensions \/ (at.table = "extensions" /\ extensions' = extensions \cup Batch
                                           /\ Batch \cap extensions = {})
         /\ agents' = agents \/ (at.table = "agents" /\ agents' = agents \cup Batch)
         /\ ~broken' => /\ ~broken
                        /\ at.table = "extensions" => Batch \subseteq extensions'
                        /\ at.table = "agents" => Batch \subseteq agents'
<1>1. seeding = "insert" /\ at.table \in {"extensions", "agents"} /\ broken \in BOOLEAN
  BY DEF InsertBatch, SInv, SeedTypeOK
<1>2. Batch = BatchAt(at.dept, at.first) /\ at.dept \in DOMAIN Depts
      /\ at.first \in Starts(at.dept)
  BY DEF Batch, BatchEnd, BatchAt, SInv, AtStart, SeedTypeOK
<1>3. Batch \subseteq extensions \/ Batch \cap extensions = {}
  BY <1>2 DEF SInv, Whole
<1>4. ~broken => departments
  BY <1>1 DEF SInv, Before
<1>5. CASE at.table = "extensions"
  BY <1>1, <1>3, <1>4, <1>5 DEF InsertBatch, Insert, tables
<1>6. CASE at.table = "agents"
  BY <1>1, <1>4, <1>6 DEF InsertBatch, Insert, tables
<1>7. QED
  BY <1>1, <1>5, <1>6

(* The batches stay whole: the one added meets no other one.                *)
LEMMA BatchTables ==
  ASSUME SInv, InsertBatch
  PROVE  /\ Whole'
         /\ extensions' \subseteq UNION {Numbers(d) : d \in DOMAIN Depts}
         /\ agents' \subseteq UNION {Numbers(d) : d \in {e \in DOMAIN Depts : Depts[e].external}}
<1>1. Batch = BatchAt(at.dept, at.first) /\ at.dept \in DOMAIN Depts
      /\ at.first \in Starts(at.dept)
      /\ (at.table = "agents" => Depts[at.dept].external)
  BY DEF Batch, BatchEnd, BatchAt, SInv, AtStart, SeedTypeOK
<1>2. Batch \subseteq Numbers(at.dept)
  BY <1>1, NextBatch
<1>3. Whole'
  <2> SUFFICES ASSUME NEW d \in DOMAIN Depts, NEW n \in Starts(d)
               PROVE  BatchAt(d, n) \subseteq extensions' \/ BatchAt(d, n) \cap extensions' = {}
    BY DEF Whole
  <2>1. BatchAt(d, n) \subseteq extensions \/ BatchAt(d, n) \cap extensions = {}
    BY DEF SInv, Whole
  <2>2. (d = at.dept /\ n = at.first) \/ BatchAt(d, n) \cap Batch = {}
    BY <1>1, BatchesDisjoint
  <2>3. QED
    BY <1>1, <2>1, <2>2, BatchRowsAdded
<1>4. extensions' \subseteq UNION {Numbers(d) : d \in DOMAIN Depts}
  BY <1>1, <1>2, BatchRowsAdded DEF SInv, SeedTypeOK
<1>5. agents' \subseteq UNION {Numbers(d) : d \in {e \in DOMAIN Depts : Depts[e].external}}
  BY <1>1, <1>2, BatchRowsAdded DEF SInv, SeedTypeOK
<1>6. QED
  BY <1>3, <1>4, <1>5

(* Where the seeding goes on: what it leaves behind is filled.              *)
LEMMA InsertSInv ==
  ASSUME SInv, InsertBatch
  PROVE  SInv'
<1> SUFFICES ASSUME NEW CONSTANT d, NEW CONSTANT n, d = at.dept, n = at.first
             PROVE  SInv'
  OBVIOUS
<1> DEFINE more == n + BatchRows <= Depts[d].last
           toAgents == at.table = "extensions" /\ Depts[d].external
<1>1. /\ seeding = "insert" /\ at.table \in {"extensions", "agents"}
      /\ d \in DOMAIN Depts /\ n \in Starts(d)
      /\ at.table = "agents" => Depts[d].external
      /\ at = [dept |-> d, table |-> at.table, first |-> n]
      /\ Batch = BatchAt(d, n)
  BY DEF InsertBatch, SInv, SeedTypeOK, AtStart, Batch, BatchEnd, BatchAt
<1>2. /\ d \in Nat /\ Len(Depts) \in Nat /\ d <= Len(Depts) /\ n \in Nat
      /\ Depts[d].first \in Nat /\ Depts[d].last \in Nat /\ Depts[d].external \in BOOLEAN
      /\ d # Len(Depts) => d + 1 \in DOMAIN Depts
      /\ DOMAIN Depts \subseteq Nat
  BY <1>1, DeptFacts DEF Starts, Numbers
<1>3. /\ more => /\ n + BatchRows \in Starts(d)
                 /\ Depts[d].first..(n + BatchRows - 1) = (Depts[d].first..(n - 1)) \cup Batch
      /\ ~more => Numbers(d) = (Depts[d].first..(n - 1)) \cup Batch
      /\ Depts[d].first \in Starts(d)
  BY <1>1, NextBatch
<1>4. ASSUME ~broken'
      PROVE  /\ departments'
             /\ \A e \in DOMAIN Depts : e < d => Filled(e)'
             /\ at.table = "extensions" => (Depts[d].first..(n - 1)) \cup Batch \subseteq extensions'
             /\ at.table = "agents" => /\ Numbers(d) \subseteq extensions'
                                       /\ (Depts[d].first..(n - 1)) \cup Batch \subseteq agents'
  <2>1. Before
    BY <1>1, <1>4, BatchRowsAdded DEF SInv
  <2>2. extensions \subseteq extensions' /\ agents \subseteq agents' /\ departments' = departments
    BY BatchRowsAdded
  <2>3. QED
    BY <1>1, <1>4, <2>1, <2>2, BatchRowsAdded DEF Before, Filled
<1>5. CASE more
  <2>1. seeding' = "insert" /\ at' = [dept |-> d, table |-> at.table, first |-> n + BatchRows]
    BY <1>1, <1>5 DEF InsertBatch, NextFirst
  <2>2. ~broken' => Before'
    <3> SUFFICES ASSUME ~broken' PROVE Before'
      OBVIOUS
    <3>1. at'.dept = d /\ at'.table = at.table /\ at'.first = n + BatchRows
      BY <2>1
    <3>2. Depts[d].first..(at'.first - 1) = (Depts[d].first..(n - 1)) \cup Batch
      <4>1. at'.first - 1 = n + BatchRows - 1
        BY <1>2, <3>1, SeedAssumption
      <4>2. QED
        BY <1>3, <1>5, <4>1
    <3>3. CASE at.table = "extensions"
      <4>1. Depts[d].first..(at'.first - 1) \subseteq extensions'
        BY <1>4, <3>2, <3>3
      <4>2. QED
        BY <1>4, <3>1, <3>3, <4>1, Zenon DEF Before
    <3>4. CASE at.table = "agents"
      <4>1. /\ Depts[d].first..(at'.first - 1) \subseteq agents'
            /\ Numbers(d) \subseteq extensions'
        BY <1>4, <3>2, <3>4
      <4>2. at'.table # "extensions"
        BY <3>1, <3>4
      <4>3. QED
        BY <1>4, <3>1, <4>1, <4>2, Zenon DEF Before
    <3>5. QED
      BY <1>1, <3>3, <3>4
  <2>3. AtStart' /\ at' \in [dept : DOMAIN Depts, table : {"extensions", "agents"}, first : Nat]
        /\ at'.first \in Numbers(at'.dept)
    <3>1. n + BatchRows \in Starts(d)
      BY <1>3, <1>5
    <3>2. n + BatchRows \in Numbers(d) /\ n + BatchRows \in Nat
      BY <1>2, <3>1, SeedAssumption DEF Starts
    <3>3. QED
      BY <1>1, <2>1, <3>1, <3>2 DEF AtStart
  <2>4. QED
    BY <2>1, <2>2, <2>3, BatchTables, BatchRowsAdded DEF SInv, SeedTypeOK, SeedCompletes
<1>6. CASE ~more /\ toAgents
  <2>1. seeding' = "insert" /\ at' = [dept |-> d, table |-> "agents", first |-> Depts[d].first]
    BY <1>1, <1>6 DEF InsertBatch, NextFirst
  <2>2. Depts[d].first..(Depts[d].first - 1) = {}
    BY <1>2
  <2>3. ~broken' => Before'
    BY <1>1, <1>3, <1>4, <1>6, <2>1, <2>2 DEF Before
  <2>4. AtStart' /\ at' \in [dept : DOMAIN Depts, table : {"extensions", "agents"}, first : Nat]
        /\ at'.first \in Numbers(at'.dept)
    BY <1>1, <1>2, <1>3, <1>6, <2>1 DEF AtStart, Starts
  <2>5. QED
    BY <2>1, <2>3, <2>4, BatchTables, BatchRowsAdded DEF SInv, SeedTypeOK, SeedCompletes
<1>7. ASSUME ~more, ~toAgents, ~broken' PROVE Filled(d)'
  BY <1>1, <1>2, <1>3, <1>4, <1>7 DEF Filled
<1>8. CASE ~more /\ ~toAgents /\ d # Len(Depts)
  <2>1. seeding' = "insert"
        /\ at' = [dept |-> d + 1, table |-> "extensions", first |-> Depts[d + 1].first]
    BY <1>1, <1>8 DEF InsertBatch, NextFirst
  <2>2. d + 1 \in DOMAIN Depts /\ Depts[d + 1].first \in Nat
        /\ Depts[d + 1].first..(Depts[d + 1].first - 1) = {}
    BY <1>2, <1>8, DeptFacts
  <2>3. ~broken' => Before'
    <3> SUFFICES ASSUME ~broken' PROVE Before'
      OBVIOUS
    <3>1. \A e \in DOMAIN Depts : e < d + 1 => Filled(e)'
      BY <1>2, <1>4, <1>7, <1>8
    <3>2. QED
      BY <1>4, <2>1, <2>2, <3>1 DEF Before
  <2>4. AtStart' /\ at' \in [dept : DOMAIN Depts, table : {"extensions", "agents"}, first : Nat]
        /\ at'.first \in Numbers(at'.dept)
    <3>1. Depts[d + 1].first \in Numbers(d + 1)
      BY <2>2, DeptFacts DEF Numbers
    <3>2. Depts[d + 1].first = Depts[d + 1].first + 0 * BatchRows /\ 0 \in Nat
      BY <2>2, SeedAssumption
    <3>3. Depts[d + 1].first \in Starts(d + 1)
      BY <3>1, <3>2, Zenon DEF Starts
    <3>4. QED
      BY <2>1, <2>2, <3>1, <3>3 DEF AtStart
  <2>5. QED
    BY <2>1, <2>3, <2>4, BatchTables, BatchRowsAdded DEF SInv, SeedTypeOK, SeedCompletes
<1>9. CASE ~more /\ ~toAgents /\ d = Len(Depts)
  <2>1. seeding' = "done" /\ at' = FirstBatch
    BY <1>1, <1>9 DEF InsertBatch, NextFirst
  <2>2. SeedCompletes'
    <3> SUFFICES ASSUME ~broken' PROVE Complete'
      BY DEF SeedCompletes
    <3>1. \A e \in DOMAIN Depts : Filled(e)'
      <4> SUFFICES ASSUME NEW e \in DOMAIN Depts PROVE Filled(e)'
        OBVIOUS
      <4>1. e < d \/ e = d
        BY <1>2, <1>9, DeptFacts
      <4>2. QED
        BY <1>4, <1>7, <1>9, <4>1
    <3>2. QED
      BY <1>4, <3>1 DEF Complete, Filled
  <2>3. AtStart' /\ SeedTypeOK'
    BY <2>1, FirstBatchOK, BatchTables, BatchRowsAdded DEF AtStart, SInv, SeedTypeOK
  <2>4. QED
    BY <2>1, <2>2, <2>3, BatchTables DEF SInv
<1>10. QED
  BY <1>5, <1>6, <1>8, <1>9

(* Every step of the seeding keeps the invariant.                           *)
LEMMA SeedSInv == ASSUME SInv, Seed PROVE SInv'
  BY StartSInv, InsertSInv DEF Seed

==============================================================================
