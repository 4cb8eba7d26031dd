\* Two requests race on a truck nobody reopens.
SPECIFICATION Spec
CONSTANTS
  r1 = r1
  r2 = r2
  Requests <- TwoRequests
  ProcessTypes <- AllTypes
  Weights = {1, 2}
  MaxRevision = 11
  ClientLag = 1
  ReopenRequests <- NoReopen
  Corrections <- NoCorrection
SYMMETRY RequestSymmetry
CHECK_DEADLOCK FALSE
INVARIANTS
  TypeOK
  ChildrenMatchStatus
  SomeStationAccepts
  SnapshotsExact
PROPERTIES
  DecidesOnCurrentRow
  Sequential
