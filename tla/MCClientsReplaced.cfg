SPECIFICATION Spec
CONSTANTS
  t1 = t1
  t2 = t2
  v1 = v1
  v2 = v2
  root = root
  user = user
  Thread <- OneThread
  Verifier <- OneBoot
  Principal <- OnePrincipal
  Capped = FALSE
  MaxRec = 3
  MaxSession = 2
  MaxCrash = 0
INVARIANT SlotIsIndexed
CHECK_DEADLOCK FALSE
