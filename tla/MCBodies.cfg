CONSTANTS
  Programs <- MCPrograms
  CountBound = 8
  WorkerUses = {"b"}
  Parents <- MCParents
SPECIFICATION Spec
INVARIANTS
  PathsAreThere
  OrderIsExact
  ExitIsExact
  CleanupIsExact
  JoinIsExact
  StopOrderHolds
  MismatchIsProved
  UnjoinedIsReal
CHECK_DEADLOCK FALSE
