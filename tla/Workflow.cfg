SPECIFICATION FairSpec
CONSTANTS
  PhaseCount = 2
  MaxTasks = 3
  MaxIterations = 2
  MaxAgents = 3
  MaxConcurrent = 2
INVARIANTS PhaseAfterDependencies InFlightBound ReportIsHonest OvershootIsBounded TotalCountsEveryAgent
PROPERTY RunEnds
