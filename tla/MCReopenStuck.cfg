\* Administrators reopen; every open truck should have a way on.
SPECIFICATION Spec
CONSTANTS
  r1 = r1
  r2 = r2
  Requests <- OneRequest
  ProcessTypes <- AllTypes
  Weights = {1, 2}
  MaxRevision = 9
  ClientLag = 0
  ReopenRequests <- EveryReopen
  Corrections <- NoCorrection
CHECK_DEADLOCK FALSE
INVARIANTS
  SomeStationAccepts
