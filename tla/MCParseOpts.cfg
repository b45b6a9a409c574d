SPECIFICATION FairSpec
CONSTANTS
  Runs <- AllRuns
  JUNK = JUNK
  W = 4
  MAXPROC = 4
  MAXLC = 4
  EARLY = 1
INVARIANTS
  LoopsAsAsked
  CopiesMade
PROPERTIES
  Terminates
