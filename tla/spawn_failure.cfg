\* The shell with posix_spawnp failing at the second stage of a pipeline
\* and the spawn-attribute setup failing at the first.
CONSTANTS
  MaxJobs = 2
  MaxProcs = 3
  PidMax = 3
  MaxStages = 2
  MaxPipes = 1
  MaxCmdLines = 3
  Builtins <- MCAllBuiltins
  KillNums = {9, 19, 5}
  FailStages = {1}
  SetupFailStages = {0}
  OmitArgs = FALSE
  Attrs <- MCAttrs
  NoJob = NoJob
SPECIFICATION Spec
INVARIANT ResourceErrorsContained
