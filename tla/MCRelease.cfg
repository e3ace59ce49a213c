SPECIFICATION SafetySpec
CONSTANTS
  r1 = r1
  r2 = r2
  a = a
  b = b
  None = None
  Bootstrap = Bootstrap
  NumPackages = 2
  Runs <- TwoRuns
  Payloads <- TwoPayloads
  Builds <- DifferentCommits
  Attested <- TwoRuns
  Bootstraps <- FreshOrBootstrapped
  Retries = 1
  MaxFaults = 1
INVARIANT TypeOK
INVARIANT GreenIsLive
INVARIANT ManifestHonest
INVARIANT ShippedPrefix
INVARIANT NothingShippedAroundAChange
INVARIANT ResumeNeverConflicts
PROPERTY KeepsContract
CHECK_DEADLOCK FALSE
