SPECIFICATION FairSpec
CONSTANTS
  Capacity = 3
  ServerMode = FALSE
  IdleTimeout = 1
  MaxSends = 1
  Units = 2
INVARIANTS
  TypeOK
  ActiveCountTruth
  SocketsOwned
  NoStaleEvent
  NoUnitTwice
PROPERTIES
  StopEnds
  IdleReleased
CHECK_DEADLOCK FALSE
