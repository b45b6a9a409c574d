SPECIFICATION MCSpec
CONSTANTS
  Calls <- ShortCalls
  SAMPLE = 2
  HelperCalls <- AllHelperCalls
  W = 8
  DEPTH = 4
  Fills <- PatternFills
  Lost = {0, 5, 85}
  SKIP = 2
CHECK_DEADLOCK FALSE
INVARIANTS
  ListRight
  RangesRight
  ParsedRight
  CheckTells
