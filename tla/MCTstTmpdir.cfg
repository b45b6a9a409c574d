SPECIFICATION FairSpec
CONSTANTS
  Nodes <- TreeNodes
  TMP = "tmp"
  Parent <- TreeParent
  Kind <- TreeKind
  Target <- TreeTarget
  Outside <- TreeOutside
  CHURN = 2
INVARIANTS
  NothingElseRemoved
  GoneOrWarned
PROPERTIES
  Terminates
