SPECIFICATION Spec
CONSTANTS
  h1 = h1
  h2 = h2
  t1 = t1
  t2 = t2
  Users = {u}
  Admins = {alice, bob}
  Handlers = {h1, h2}
  Tokens = {t1, t2}
  DeletionRequests = {q}
  None = None
  CodeCount = 1
  MaxSetups = 2
  MaxActivations = 2
CHECK_DEADLOCK FALSE
SYMMETRY Symmetry
INVARIANT TypeOK
 
INVARIANT MfaHolds
INVARIANT PurgeIsAccounted
