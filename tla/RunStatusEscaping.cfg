SPECIFICATION Spec
CONSTANTS
  Packages = {"a", "b"}
  Programs <- MCEscaping
INVARIANTS
  NothingIsLost
CHECK_DEADLOCK FALSE
