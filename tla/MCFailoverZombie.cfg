SPECIFICATION Spec
CONSTANTS
  n1 = n1
  n2 = n2
  None = None
  Node <- Gateways
  Eager <- Gateways
  Ctl <- OneCtl
  Request <- TakeoverOnly
  Ttl = 3
  Punctual = FALSE
  MaxRequest = 1
  MaxFault = 0
  MaxDown = 0
  MaxEpoch = 2
SYMMETRY Interchangeable
INVARIANT QuietStandbyServesNothing
CHECK_DEADLOCK FALSE
