SPECIFICATION Spec
CONSTANTS
  s1 = s1
  s2 = s2
  o1 = o1
  Renewer <- Sequences1
  Conflicter <- NoOpens
  LeaseTime = 2
  Window = 3
  Lag = 1
  RenewUntil = 4
  MaxTime = 14
  Forced = FALSE
PROPERTY RevivedIsKept
CHECK_DEADLOCK FALSE
