SPECIFICATION Spec
CONSTANTS
  Capacity = 2
  ServerMode = TRUE
  IdleTimeout = 1
  MaxSends = 1
  Units = 2
INVARIANT
  SipStaysOpen
CHECK_DEADLOCK FALSE
