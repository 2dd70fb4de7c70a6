SPECIFICATION Spec
CONSTANTS
  a1 = a1
  c1 = c1
  c2 = c2
  Agents <- OneAgent
  Switched <- OneAgent
  Calls <- OneCall
  Bare <- Empty
  None = None
  Capacity = 1
  MaxOps = 3
  MaxFaults = 1
INVARIANTS
  TypeOK
  StoreKeepsUp
  CacheLeads
CHECK_DEADLOCK FALSE
