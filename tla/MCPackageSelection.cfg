CONSTANTS
  Paths <- MCPaths
  Names <- MCNames
  Main <- MCMain
  Listings <- MCListings
  Workers = {w}
  FailOnIncomplete = FALSE
  NoUnit = NoUnit
SPECIFICATION Selected
INVARIANTS
  NothingTwice
  ReachableSourceSummarised
