SPECIFICATION Spec
CONSTANTS
  Parties = {Alice, Bob}
  MaxResend = 2
  MaxCalls = 3
  MaxFaults = 1
INVARIANTS
  TypeOK
  SecureAgrees
  MediaReadable
  VerifiedIsContinuous
  
PROPERTY GetsSecure
CHECK_DEADLOCK FALSE
