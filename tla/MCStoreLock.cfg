SPECIFICATION FairSpec
CONSTANTS
  p1 = p1
  p2 = p2
  NoFile = NoFile
  Proc <- Gateways
  MaxCalls = 1
  MaxCrash = 1
INVARIANTS TypeOK BumpsDistinct
PROPERTY DeadLockReclaimed
CHECK_DEADLOCK FALSE
