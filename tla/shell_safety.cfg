CONSTANTS
  MaxJobs = 2
  MaxProcs = 3
  PidMax = 3
  MaxStages = 2
  MaxPipes = 1
  MaxCmdLines = 3
  Builtins <- MCAllBuiltins
  KillNums = {9, 19, 5}
  FailStages = {0}
  SetupFailStages = {0}
  OmitArgs = TRUE
  Attrs <- MCAttrs
  NoJob = NoJob
SPECIFICATION Spec
INVARIANT TypeOK
INVARIANT ShellOwnsTerminalAtPrompt
INVARIANT ForegroundJobIsWaitedOn
INVARIANT AliveCountMatchesMembers
PROPERTY JobControlRefined
