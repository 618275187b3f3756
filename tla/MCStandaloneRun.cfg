CONSTANTS
  Paths <- MCPaths
  Names <- MCNames
  Main <- MCMain
  Listings <- MCListings
  Workers = {w1, w2}
  FailOnIncomplete = TRUE
  NoUnit = NoUnit
SPECIFICATION Spec
INVARIANTS
  DependencyFirst
  ErrorIsACause
  OkMeansWhole
PROPERTIES
  SummariesStable
  RefinesOrder
  Terminates
