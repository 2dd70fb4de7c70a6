SPECIFICATION FairSpec
CONSTANTS
  t1 = t1
  t2 = t2
  t3 = t3
  None = None
  Threads <- ThreeThreads
  StartSets <- AllSlots
  PoolSize = 2
  MaxBackoff = 3
PROPERTIES
  BorrowReturns
  ImplementsLeasePool
