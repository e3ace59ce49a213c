SPECIFICATION Spec
CONSTANTS
  k1 = k1
  k2 = k2
  t1 = t1
  t2 = t2
  NoKey = NoKey
  None = None
  Key <- MCKey
  Task <- MCTask
  Scopes <- MCScopes
  Operations <- MCOperations
  MaxTime = 1
  MaxDone = 2
INVARIANT MaxUsesRespected
CHECK_DEADLOCK FALSE
SYMMETRY MCSymmetry
