SPECIFICATION MCSpec
CONSTANTS
  Blocks <- MCBlocks
  Kinds <- MCKinds
  CFGs <- MCCFGs
  Entry = 0
  Exit = 1
  LoopCFGs <- MCLoopCFGs
  Equations <- MCEquations
  Values = {0, 1, 2}
INVARIANTS
  SearchIsExact
  ComponentsExact
  VerdictIsTrap
  SolveIsExact
CHECK_DEADLOCK FALSE
