SPECIFICATION FairSpec
CONSTANTS
  Calls <- AllCalls
  RETRIES = 1
  SIGNALS = 1
INVARIANTS
  AmountRight
  NothingLeftBehind
PROPERTIES
  Returns
