\* A foreground job that changes the terminal mode and is stopped by ^Z:
\* wait_for_job samples the terminal state although the job has not finished.
CONSTANTS
  MaxJobs = 2
  MaxProcs = 3
  PidMax = 3
  MaxStages = 2
  MaxPipes = 1
  MaxCmdLines = 3
  Builtins <- MCAllBuiltins
  KillNums = {9, 19, 5}
  FailStages = {0}
  SetupFailStages = {}
  OmitArgs = FALSE
  Attrs <- MCAttrs
  NoJob = NoJob
SPECIFICATION Spec
PROPERTY SampleOnlyWhenJobFinishes
