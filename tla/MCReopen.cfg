\* One request races with administrators who reopen and correct.
SPECIFICATION Spec
CONSTANTS
  r1 = r1
  r2 = r2
  Requests <- OneRequest
  ProcessTypes <- AllTypes
  Weights = {1, 2}
  MaxRevision = 11
  ClientLag = 1
  ReopenRequests <- EveryReopen
  Corrections <- EveryCorrection
CHECK_DEADLOCK FALSE
INVARIANTS
  HistoryMatchesStatus
  NothingAheadOfStatus
  CurrentIsNewest
  SettledWeights
PROPERTIES
  HistoryChained
  EveryWriteTakesARevision
  StatusMovesByTable
  VoidIsForever
