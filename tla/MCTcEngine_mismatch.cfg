SPECIFICATION Spec
CONSTANTS
  Configs <- SmallTestCases
INVARIANT
  MismatchFails
