SPECIFICATION FairSpec
CONSTANTS
  Sessions = {s1}
  LastIdx = 2
  Commands <- MCCommands
  MaxRecv = 2
  MaxCrashes = 1
  MaxDbErrors = 1
  MaxCbErrors = 1
  MaxFaults = 3
CONSTRAINT MCFewFaults
INVARIANTS
  TypeOK
  
  ShownOnce
  DuplicateIsHeld
  ReceiptIsHeld
  AcceptedIsHeld
  RejectedOnlyByFault
  RetryKeepsOrder
PROPERTY InboxPromise
CHECK_DEADLOCK FALSE
