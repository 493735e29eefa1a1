SPECIFICATION Spec
CONSTANTS
  MAX_TASKS = 4
  Status <- MCStatus
  MaxInput = 2
  ReapsBeforeExit = FALSE
INVARIANTS
  IdleIsPidOne
  CpuRunsLiveTask
  NoLostChild
  ReaderSleepsOnEmptyInput
PROPERTIES
  IdleOnlyWhenNoneReady
  StoppedKeptForWait
  ImplementsProcLife
