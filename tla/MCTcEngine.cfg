SPECIFICATION FairSpec
CONSTANTS
  Configs <- SmallTestCases
INVARIANTS
  TornDown
  TransferGuarded
  JobAccounting
  NoUseAfterFree
  ZeroMeansCopied
PROPERTIES
  Terminates
  ImplementsTestCase
