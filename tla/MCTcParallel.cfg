SPECIFICATION FairSpec
CONSTANTS
  Groups <- SmallGroups
  CHANNELS = 3
  BYTES = 3
  MAX_POLLS = 3
INVARIANTS
  GivenBackInTime
  ZeroMeansAllPassed
  WaitsUnpaused
PROPERTIES
  Terminates
