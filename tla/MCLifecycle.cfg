SPECIFICATION FairSpec
CONSTANTS
  Depts <- MCDepts
  BatchRows = 2
  Enough = 1
  TestCalls = 1
  MaxSignals = 2
  MaxStarts = 2
INVARIANTS
  TypeOK
  WorkerSafe
  NothingLeft
  SeedCompletes
PROPERTY SignalHonoured
CHECK_DEADLOCK FALSE
