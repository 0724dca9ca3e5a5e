SPECIFICATION Spec
CONSTANTS
  Children = {a, b, c}
  Root = Root
  MaxDepth = 2
  MaxConcurrent = 3
  MinCap = 1
  Throttled = {Root}
PROPERTY CancelledDependencyFails
