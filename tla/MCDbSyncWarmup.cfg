SPECIFICATION Spec
CONSTANTS
  a1 = a1
  c1 = c1
  c2 = c2
  Agents <- OneAgent
  Switched <- Empty
  Calls <- OneCall
  Bare <- Empty
  None = None
  Capacity = 2
  MaxOps = 2
  MaxFaults = 1
PROPERTY
  ReconnectWarmsUp
CHECK_DEADLOCK FALSE
