SPECIFICATION Spec
CONSTANTS
  g = g
  p = p
  Null = Null
  H = 4
  Guarded <- GuardedMaps
  Plain <- PlainMaps
  Prefix <- Prefixes
  Keys <- TwoKeys
  LockKey <- Lock
  Amounts <- EdgeAmounts
  Factors <- EdgeFactors
  MaxDepth = 6
  MaxInvocations = 3
INVARIANT MulExact
