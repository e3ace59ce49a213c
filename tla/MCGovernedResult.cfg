SPECIFICATION Spec
CONSTANTS
  Options <- AllOptions
  MaxWait = 2
  PollInterval = 1
  MaxClock = 4
  MaxBundles = 2
INVARIANT TypeOK
INVARIANT NothingInvented
INVARIANT ReturnedIsComplete
INVARIANT TimeoutHonest
INVARIANT LatePollsBounded
INVARIANT ProofIsTheIntents
PROPERTY Settles
CHECK_DEADLOCK FALSE
