SPECIFICATION SidecarSpec
CONSTANTS
  TaskIds = {t1, t2}
  Synth = synth
  ClientYolo = FALSE
  MaxWorkers = 2
  MaxRuns = 2
  LastMail = 2
  Processors = {p1}
  MaxTriage = 1
  Backfill = 1
  QueueMax = 1
  MaxCommands = 2
  MaxCrashes = 1
INVARIANTS SidecarTypeOK UpstreamDecides AutopilotIsCurrent ToldOnce RepeatedOnlyIfLost
PROPERTIES TerminalIsFinal MissionEnds ProcessingIsRecovered
CHECK_DEADLOCK FALSE
