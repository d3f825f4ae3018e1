SPECIFICATION Spec
CONSTANTS
  n1 = n1
  n2 = n2
  None = None
  Node <- Gateways
  Eager <- NoGateway
  Ctl <- OneCtl
  Request <- AnyRequest
  Ttl = 1
  Punctual = FALSE
  MaxRequest = 2
  MaxFault = 1
  MaxDown = 0
  MaxEpoch = 2
SYMMETRY Interchangeable
INVARIANT EpochsDistinct
PROPERTY ReleasedAfterTeardown
CHECK_DEADLOCK FALSE
