SPECIFICATION Spec
CONSTANTS
  p1 = p1
  p2 = p2
  NoFile = NoFile
  Proc <- Gateways
  MaxCalls = 2
  MaxCrash = 0
SYMMETRY Interchangeable
INVARIANT BumpsDistinct
CHECK_DEADLOCK FALSE
