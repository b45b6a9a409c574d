SPECIFICATION DmaSpec
CONSTANTS
  Testnums <- Options
  LOOPS = 3
INVARIANTS
  ResultsRight
