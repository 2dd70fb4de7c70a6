SPECIFICATION Spec
CONSTANTS
  t1 = t1
  t2 = t2
  t3 = t3
  None = None
  Threads <- TwoThreads
  StartSets <- SomeSlots
  PoolSize = 2
  MaxBackoff = 3
SYMMETRY TwoSymmetry
INVARIANT ExclusiveBorrow
