SPECIFICATION Spec
CONSTANTS
  f = f
  g = g
  h = h
  Funcs <- MCFuncs
  Programs <- MCPrograms
INVARIANT MustMeansEveryPath
CHECK_DEADLOCK FALSE
