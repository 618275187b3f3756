SPECIFICATION Spec
CONSTANTS
  f = f
  g = g
  h = h
  Funcs <- MCFuncs
  Programs <- MCPrograms
INVARIANTS NoStaleSummary SummariesExact
PROPERTY Terminates
CHECK_DEADLOCK FALSE
