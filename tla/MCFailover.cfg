SPECIFICATION FairSpec
CONSTANTS
  n1 = n1
  n2 = n2
  None = None
  Node <- Gateways
  Eager <- Gateways
  Ctl <- NoCtl
  Request <- NoRequest
  Ttl = 3
  Punctual = TRUE
  MaxRequest = 0
  MaxFault = 3
  MaxDown = 1
  MaxEpoch = 9
INVARIANTS TypeOK StandbyServesNothing AtMostOneActive
PROPERTIES ReleasedAfterTeardown Settles
CHECK_DEADLOCK FALSE
