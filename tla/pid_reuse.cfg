CONSTANTS
  MaxJobs = 2
  MaxProcs = 3
  PidMax = 2
  MaxStages = 2
  MaxPipes = 1
  MaxCmdLines = 3
  Builtins <- MCAllBuiltins
  KillNums = {9, 19, 5}
  FailStages = {0}
  SetupFailStages = {}
  OmitArgs = FALSE
  Attrs <- MCAttrs
  NoJob = NoJob
SPECIFICATION Spec
INVARIANT AliveCountMatchesMembers
