SPECIFICATION SafetySpec
CONSTANTS
  r1 = r1
  r2 = r2
  a = a
  b = b
  None = None
  Bootstrap = Bootstrap
  NumPackages = 2
  Runs <- OneRun
  Payloads <- TwoPayloads
  Builds <- SameCommit
  Attested <- OneRun
  Bootstraps <- Fresh
  Retries = 1
  MaxFaults = 1
PROPERTY NeverFailsOnPublished
CHECK_DEADLOCK FALSE
