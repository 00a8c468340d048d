SPECIFICATION Spec
CONSTANTS
  Parties <- MCParties
  Greater = "bob"
  Setters <- MCParties
  NoKey = NoKey
  MaxSend = 2
  MaxSetups = 1
  MaxReKeys = 0
  MaxFaults = 0
INVARIANTS
  CollisionLosesNothing
CHECK_DEADLOCK FALSE
