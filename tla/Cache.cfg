SPECIFICATION FairSpec
CONSTANTS
  p = p
  q = q
  Paths <- MCPaths
  MaxEdits <- MCMaxEdits
  Predicted <- MCPredicted
  Stoppable = TRUE
INVARIANTS NothingOlderThanFlush AdoptedIsRunning
PROPERTIES NoOlderThanCachedReads BatchEnds
