\* Two administrators correct a transaction that ended at any station.
SPECIFICATION Spec
CONSTANTS
  x = x
  y = y
  Admins <- TwoAdmins
  Weights = {1, 2}
  Processes = {"inbound", "GBJ"}
  MaxRevision = 3
SYMMETRY AdminSymmetry
CHECK_DEADLOCK FALSE
INVARIANTS
  TypeOK
  RowFollowsRecords
  FraudFollowsWeights
PROPERTIES
  EnteredIsStored
  TrailTellsAll
