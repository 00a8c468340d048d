SPECIFICATION Spec
CONSTANTS
  d1 = d1
  d2 = d2
  d3 = d3
  NoMsg = NoMsg
  Devices <- MCThree
  MaxChanges = 6
  MaxTold = 0
  MaxOpen = 1
SYMMETRY MCSymmetry
INVARIANTS
    EqualClocksEqualData
CONSTRAINT MCFewChanges
CHECK_DEADLOCK FALSE
