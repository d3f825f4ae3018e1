CONSTANTS
  SlotCount = 1
  c1 = c1
  c2 = c2
  Conn <- MCConn
  MaxReq = 4
  SeqMod = 3
  MaxThrow = 1
SPECIFICATION FairSpec
INVARIANTS TypeOK ExactlyOnce InFlightOwned WaiterHasOwner
PROPERTIES ReplayIsOwn LastIsReplayed WaiterAnswered
CHECK_DEADLOCK FALSE
