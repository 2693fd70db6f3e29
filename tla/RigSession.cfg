SPECIFICATION FairSpec
CONSTANTS
    MaxAttempts = 2
    MaxTx = 2
    FailThreshold = 2
INVARIANTS
  RigsKept
PROPERTIES
  QuietDuringTx
  ConnectResolves
CHECK_DEADLOCK FALSE
