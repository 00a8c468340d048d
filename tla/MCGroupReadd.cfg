SPECIFICATION Spec
CONSTANTS
  p1 = p1
  p2 = p2
  g1 = g1
  t1 = t1
  Me = Me
  None = None
  Peers <- MCPeers
  Groups <- MCGroups
  Started <- MCGroups
  Threads <- MCThreads
  MaxNames = 0
  MaxEdits = 2
  MaxSends = 2
  MaxFaults = 0
CHECK_DEADLOCK FALSE
INVARIANT AddedIsMember
