SPECIFICATION FairSpec
CONSTANTS
  p1 = p1
  p2 = p2
  g1 = g1
  t1 = t1
  Me = Me
  None = None
  Peers <- MCPeers
  Groups <- MCGroups
  Started <- MCGroups
  Threads <- MCThreads
  MaxNames = 1
  MaxEdits = 2
  MaxSends = 2
  MaxFaults = 1
CHECK_DEADLOCK FALSE
INVARIANTS
  TypeOK
  
  
PROPERTIES
  UpdateEnds
