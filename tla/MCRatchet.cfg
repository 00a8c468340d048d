SPECIFICATION Spec
CONSTANTS
  Parties <- MCParties
  Greater = "bob"
  Setters <- MCParties
  NoKey = NoKey
  MaxSend = 4
  MaxSetups = 2
  MaxReKeys = 1
  MaxFaults = 1
INVARIANTS
  TypeOK
  KeyUsedOnce
  UnreadIsReadable
  ReadIsForgotten
  ReadOnce
  StagedIsOwed
  ContextNamesRoot
CONSTRAINT MCFewMessages
CHECK_DEADLOCK FALSE
