SPECIFICATION Spec
CONSTANTS
  PhaseCount = 2
  MaxTasks = 2
  MaxIterations = 2
  MaxAgents = 3
  MaxConcurrent = 2
PROPERTY WallClockCap
