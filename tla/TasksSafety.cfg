SPECIFICATION Spec
CONSTANTS
  Children = {a, b, c}
  Root = Root
  MaxDepth = 2
  MaxConcurrent = 3
  MinCap = 1
  Throttled = {Root}
SYMMETRY MCSymmetry
INVARIANTS TypeOK NoStartBeforeDependencies RunningWithinCap RunningChildIsTimed
