SPECIFICATION Spec
CONSTANTS
  Sessions = {s1}
  LastIdx = 1
  Commands <- MCCommands
  MaxRecv = 1
  MaxCrashes = 1
  MaxDbErrors = 0
  MaxCbErrors = 0
  MaxFaults = 2
INVARIANT NoneRejected
CHECK_DEADLOCK FALSE
