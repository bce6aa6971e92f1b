SPECIFICATION Spec
CONSTANTS
  rum = rum
  gin = gin
  c1 = c1
  c2 = c2
  Bottle = {rum, gin}
  MaxQty = 1
  Caller = {c1, c2}
  Wanted <- RumOrGin
  Legal <- Lines
  Uncoded = {}
  MaxCarts = 2
  MaxEdits = 0
SYMMETRY Interchangeable
CHECK_DEADLOCK FALSE
INVARIANTS
  LinesOfOnePhone
