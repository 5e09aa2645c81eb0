CONSTANTS
  MaxJobs = 2
  MaxProcs = 3
  PidMax = 3
  MaxStages = 2
  MaxPipes = 1
  MaxCmdLines = 3
  Builtins <- MCNoBgBuiltins
  KillNums = {9, 19, 5}
  FailStages = {0}
  SetupFailStages = {0}
  OmitArgs = FALSE
  Attrs <- MCAttrs
  NoJob = NoJob
SPECIFICATION Spec
PROPERTY ForegroundWaitEnds
PROPERTY FinishedJobsNoticed
