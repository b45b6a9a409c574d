SPECIFICATION FairSpec
CONSTANTS
  m1 = m1
  m2 = m2
  f1 = f1
  NULL = NULL
  Mesgs <- TwoMesgs
  Files <- OneFile
  Unreadable <- NoFiles
  Breaks <- SomeBreaks
  MAX_CALLS = 3
INVARIANTS
  EveryFailureShown
  ExitTellsAll
  RemainingOnce
PROPERTIES
  LinesInOrder
  BreakEnds
