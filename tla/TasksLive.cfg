SPECIFICATION FairSpec
CONSTANTS
  Children = {a, b}
  Root = Root
  MaxDepth = 2
  MaxConcurrent = 3
  MinCap = 1
  Throttled = {Root}
PROPERTIES SlotIsFreed DependencyWaitEnds
