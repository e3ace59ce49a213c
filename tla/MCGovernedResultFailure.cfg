SPECIFICATION Spec
CONSTANTS
  Options <- AllOptions
  MaxWait = 2
  PollInterval = 1
  MaxClock = 4
  MaxBundles = 2
INVARIANT FailureIsGovernanceError
CHECK_DEADLOCK FALSE
