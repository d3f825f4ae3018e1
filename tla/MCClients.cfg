SPECIFICATION Spec
CONSTANTS
  t1 = t1
  t2 = t2
  v1 = v1
  v2 = v2
  root = root
  user = user
  Thread <- TwoThreads
  Verifier <- TwoBoots
  Principal <- TwoPrincipals
  Capped = TRUE
  MaxRec = 2
  MaxSession = 2
  MaxCrash = 1
SYMMETRY Interchangeable
INVARIANTS TypeOK SlotIsIndexedButGhosts SessionHasClient ConfirmedIsListed
PROPERTY ReplayIsOwn
CHECK_DEADLOCK FALSE
