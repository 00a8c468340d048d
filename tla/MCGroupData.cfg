SPECIFICATION Spec
CONSTANTS
  d1 = d1
  d2 = d2
  d3 = d3
  NoMsg = NoMsg
  Devices <- MCThree
  MaxChanges = 3
  MaxTold = 1
  MaxOpen = 1
SYMMETRY MCSymmetry
INVARIANTS
    TypeOK
    
    NewestIsShown
    Converged
CHECK_DEADLOCK FALSE
