SPECIFICATION Spec
CONSTANTS
  p = p
  q = q
  Paths <- MCPaths
  MaxEdits <- MCEditedTwice
  Predicted = {}
  Stoppable = FALSE
INVARIANT NextCallSeesFreshState
