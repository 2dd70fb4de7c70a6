------------------------------ MODULE Seeding ------------------------------
(* The rows a fresh deployment gets: db_mysql_init_schema runs schema.sql,  *)
(* whose last statement inserts the departments, and db_sync_seed_demo_data *)
(* inserts the extensions of every department and the agents of those open  *)
(* to outside calls, in batches, unless it counts enough agents.            *)
(*                                                                          *)
(* The tables outlive the process (Lifecycle restarts it).  A statement is  *)
(* atomic; it is refused when it breaks a key or a foreign key of           *)
(* schema.sql, and it may fail with its connection, before or after MySQL   *)
(* did it.  A row is its number; names and shifts are left out, and the     *)
(* departments are one row set, whose ids are the 1, 2, ... the seed uses.  *)
EXTENDS Integers, FiniteSets, Sequences

CONSTANTS
  Depts,      \* dept_seeds: a sequence of [first, last, external]
  BatchRows,  \* SEED_BATCH_ROWS
  Enough      \* the number of agents above which nothing is seeded: 100

ASSUME DeptsAssumption ==
  /\ Depts # <<>> /\ Depts \in Seq([first : Nat, last : Nat, external : BOOLEAN])
  /\ \A d \in DOMAIN Depts : Depts[d].first <= Depts[d].last
  /\ \A d, e \in DOMAIN Depts : d < e => Depts[d].last < Depts[e].first
ASSUME SeedAssumption == BatchRows \in Nat \ {0} /\ Enough \in Nat

Numbers(d) == Depts[d].first..Depts[d].last

VARIABLES
  departments,  \* the rows of table departments are there
  extensions,   \* the numbers with a row in table extensions
  agents,       \* ... in table agents
  seeding,      \* "off", "schema", "count", "insert", "skipped", "done"
  at,           \* the loops of the seeding: department, table, batch_start
  broken        \* history: a statement of this start failed with its connection

tables == <<departments, extensions, agents>>
seedVars == <<tables, seeding, at, broken>>

FirstBatch == [dept |-> 1, table |-> "extensions", first |-> Depts[1].first]

SeedInit ==
  /\ departments = FALSE /\ extensions = {} /\ agents = {}
  /\ seeding = "off" /\ at = FirstBatch /\ broken = FALSE

-----------------------------------------------------------------------------
(* One INSERT: sound when no constraint refuses it.                         *)
Insert(sound, done, undone) ==
  \/ sound /\ done /\ UNCHANGED broken
  \/ ~sound /\ undone /\ UNCHANGED broken
  \/ broken' = TRUE /\ (undone \/ (sound /\ done))

\* The CREATE statements say IF NOT EXISTS; the INSERT of the departments does not,
\* and fails on every start but the first.  A failed statement is only logged; without
\* the file nothing is seeded.
InitSchema ==
  /\ seeding = "schema"
  /\ \/ /\ Insert(~departments, departments' = TRUE, UNCHANGED departments)
        /\ seeding' = "count"
     \/ seeding' = "skipped" /\ UNCHANGED <<departments, broken>>
  /\ UNCHANGED <<extensions, agents, at>>

\* db_mysql_load_all_agents_for_cache gives -1 when the query fails.
CountAgents ==
  /\ seeding = "count"
  /\ \E existing \in {-1, Cardinality(agents)} :
       seeding' = IF existing > Enough THEN "skipped" ELSE "insert"
  /\ at' = FirstBatch
  /\ UNCHANGED <<tables, broken>>

PastTheEnd(p) == p.first + BatchRows - 1  \* faulty: not cut at the last number
BatchEnd(p) ==
  LET end == p.first + BatchRows - 1
  IN  IF end > Depts[p.dept].last THEN Depts[p.dept].last ELSE end

Batch == at.first..BatchEnd(at)

OneTooFar(p) == p.first + BatchRows + 1  \* faulty
NextFirst(p) == p.first + BatchRows

\* Extensions are plain INSERTs, agents are updated if they are there.
InsertBatch ==
  /\ seeding = "insert"
  /\ IF at.table = "extensions"
     THEN Insert(departments /\ Batch \cap extensions = {},
                 extensions' = extensions \cup Batch /\ UNCHANGED <<departments, agents>>,
                 UNCHANGED tables)
     ELSE Insert(departments,
                 agents' = agents \cup Batch /\ UNCHANGED <<departments, extensions>>,
                 UNCHANGED tables)
  /\ LET d == at.dept
         more == NextFirst(at) <= Depts[d].last
         toAgents == at.table = "extensions" /\ Depts[d].external
         last == ~more /\ ~toAgents /\ d = Len(Depts)
     IN  /\ seeding' = IF last THEN "done" ELSE "insert"
         /\ at' = CASE last -> FirstBatch
                    [] more -> [at EXCEPT !.first = NextFirst(at)]
                    [] ~more /\ toAgents -> [at EXCEPT !.table = "agents", !.first = Depts[d].first]
                    [] OTHER -> [dept |-> d + 1, table |-> "extensions", first |-> Depts[d + 1].first]

Seed == InitSchema \/ CountAgents \/ InsertBatch

-----------------------------------------------------------------------------
SeedTypeOK ==
  /\ departments \in BOOLEAN /\ broken \in BOOLEAN
  /\ extensions \subseteq UNION {Numbers(d) : d \in DOMAIN Depts}
  /\ agents \subseteq UNION {Numbers(d) : d \in {e \in DOMAIN Depts : Depts[e].external}}
  /\ seeding \in {"off", "schema", "count", "insert", "skipped", "done"}
  /\ at \in [dept : DOMAIN Depts, table : {"extensions", "agents"}, first : Nat]
  /\ at.first \in Numbers(at.dept)

Complete ==
  /\ departments
  /\ \A d \in DOMAIN Depts : /\ Numbers(d) \subseteq extensions
                             /\ Depts[d].external => Numbers(d) \subseteq agents

\* db_sync_seed_demo_data: a seeding that was not skipped and met no broken connection
\* leaves every extension and agent in place, whatever an interrupted or failing one
\* left behind: the batches it is refused are those that are there as a whole.
SeedCompletes == seeding = "done" /\ ~broken => Complete

-----------------------------------------------------------------------------
(* A statement of the comments that the code does not satisfy: TLC refutes  *)
(* it; no run is kept for it.                                               *)

\* db_sync.c, "idempotence": once more than 100 agents are there the seeding is
\* skipped for good, although departments may still lack their rows.
SkippedOnlyWhenComplete == seeding = "skipped" /\ ~broken /\ agents # {} => Complete
=============================================================================
