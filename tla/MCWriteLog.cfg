SPECIFICATION WlogFairSpec
CONSTANTS
  Clients <- Writers
  Paths <- SomePaths
  Logs <- SomeLogs
  Ways <- SomeWays
  Scans <- SomeScans
  B = 2
  BUF = 12
  WLOG_MAX_PATH = 3
  FILL = 9
INVARIANTS
  ScanRight
PROPERTIES
  ImplementsRecordLog
  ScanEnds
