\* One vehicle whose plate has not the standard shape.
SPECIFICATION Spec
CONSTANTS
  p1 = p1
  p2 = p2
  v1 = v1
  v2 = v2
  v3 = v3
  Posts <- TwoPosts
  Standard <- None
  Special <- OneSpecial
  Reopens = FALSE
  MaxDay = 1
  MaxRows = 3
CHECK_DEADLOCK FALSE
INVARIANTS
  OneActivePerVehicle
