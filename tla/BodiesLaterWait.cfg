CONSTANTS
  Programs <- LaterWaitPrograms
  CountBound = 8
  WorkerUses = {"b"}
  Parents <- MCParents
SPECIFICATION Spec
INVARIANT UnjoinedIsReal
CHECK_DEADLOCK FALSE
