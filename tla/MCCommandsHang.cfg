SPECIFICATION FairSpec
CONSTANTS
  Devices <- MCOneDevice
  Scanners <- MCScanners
  Keyers <- MCKeyers
  None = None
  MaxSends = 0
  MaxCalls = 2
  MaxChanges = 0
  MaxFailures = 0
PROPERTIES
  CallsReturn
CHECK_DEADLOCK FALSE
