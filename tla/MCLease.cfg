SPECIFICATION FairSpec
CONSTANTS
  s1 = s1
  s2 = s2
  o1 = o1
  Renewer <- Sequences2
  Conflicter <- Opens
  LeaseTime = 1
  Window = 2
  Lag = 1
  RenewUntil = 2
  MaxTime = 16
  Forced = TRUE
INVARIANTS TypeOK NoticedOnTime CourtesyCounted
PROPERTY SilentIsReclaimed
CHECK_DEADLOCK FALSE
