SPECIFICATION Spec
CONSTANTS
  Packages = {"a", "b"}
  Programs <- MCPrograms
INVARIANTS
  
  
  IncompleteIsExact
  ReportedOnce
CHECK_DEADLOCK FALSE
