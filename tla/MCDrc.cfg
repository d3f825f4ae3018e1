CONSTANTS
  r1 = r1
  r2 = r2
  r3 = r3
  r4 = r4
  ka = ka
  kb = kb
  Req <- MCReq
  Key <- MCKey
  KeyOf <- MCKeyOf
  Sizes = {1, 2}
  MaxMemory = 2
  MaxFlush = 1
SPECIFICATION FairSpec
INVARIANTS TypeOK CompletedIsDone BytesExact NoConcurrentExecution WaiterHasOwner
PROPERTY WaiterAnswered
CHECK_DEADLOCK FALSE
