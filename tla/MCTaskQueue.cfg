SPECIFICATION FairSpec
CONSTANTS
  n1 = n1
  n2 = n2
  n3 = n3
  n4 = n4
  NULL = NULL
  Nodes <- MCNodes
  MaxQueue <- MCMaxQueue
  MaxSubmissions <- MCMaxSubmissions
INVARIANTS
  TypeOK
  ListShape
  NoLostWakeup
  StopDrains
PROPERTIES
  ImplementsLossyFifo
  TasksSettle
CHECK_DEADLOCK FALSE
