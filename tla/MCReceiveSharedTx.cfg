SPECIFICATION Spec
CONSTANTS
  Sessions = {s1}
  LastIdx = 1
  Commands <- MCCommands
  MaxRecv = 1
  MaxCrashes = 0
  MaxDbErrors = 1
  MaxCbErrors = 0
  MaxFaults = 2
INVARIANT StoredIsHeld
CHECK_DEADLOCK FALSE
