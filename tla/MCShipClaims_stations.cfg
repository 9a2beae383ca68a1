SPECIFICATION Spec
CONSTANTS
  b1 = b1
  b2 = b2
  Stations = {b1, b2}
  Orders = {1}
  MaxNow = 4
SYMMETRY MCSymmetry
CHECK_DEADLOCK FALSE
INVARIANTS
  ClaimsTypeOK
  
