SPECIFICATION FairSpec
CONSTANTS
  Devices <- MCTwoDevices
  Scanners <- MCScanners
  Keyers <- MCKeyers
  None = None
  MaxSends = 1
  MaxCalls = 2
  MaxChanges = 1
  MaxFailures = 0
INVARIANTS
  TypeOK
  ReturnMeansRun
  SilentOnlyIfRemoved
  EmptyIsTemporary
PROPERTIES
  RescanConnects
  AloneReturns
CHECK_DEADLOCK FALSE
