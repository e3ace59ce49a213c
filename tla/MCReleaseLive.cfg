SPECIFICATION Spec
CONSTANTS
  r1 = r1
  r2 = r2
  a = a
  b = b
  None = None
  Bootstrap = Bootstrap
  NumPackages = 2
  Runs <- TwoRuns
  Payloads <- TwoPayloads
  Builds <- SameCommit
  Attested <- TwoRuns
  Bootstraps <- Fresh
  Retries = 0
  MaxFaults = 1
PROPERTY EventuallyReleased
CHECK_DEADLOCK FALSE
