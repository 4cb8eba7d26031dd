\* The same, for trucks loaded with finished goods.
SPECIFICATION Spec
CONSTANTS
  x = x
  y = y
  Admins <- TwoAdmins
  Weights = {1, 2}
  Processes = {"GBJ"}
  MaxRevision = 3
SYMMETRY AdminSymmetry
CHECK_DEADLOCK FALSE
PROPERTIES
  GrossIsCorrected
