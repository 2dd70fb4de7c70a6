SPECIFICATION Spec
CONSTANTS
  support = support
  sales = sales
  hr = hr
  s1 = s1
  a1 = a1
  h1 = h1
  x = x
  y = y
  None = None
  Depts <- MCDepts
  External <- MCExternal
  Support = support
  DeptOf <- MCDeptOf
  Agents = {s1, a1, h1}
  Outsiders = {x, y}
  Dialled <- Mixed
  AgentStates = {"idle", "talking", "offline"}
  Hours = {TRUE, FALSE}
  Configs <- TwoConfigs
  DefaultConfig <- Shipped
  MaxTime = 1
  MaxResets = 1
INVARIANTS TypeOK Guided
PROPERTIES OfferedAgentIdle RefusalJustified QueueFresh
VIEW ButForAnswer
