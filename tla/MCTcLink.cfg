SPECIFICATION FairSpec
CONSTANTS
  Links <- SmallLinks
INVARIANTS
  LentAndReturned
  VerdictIsRight
PROPERTIES
  Terminates
