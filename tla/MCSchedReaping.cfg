SPECIFICATION FairSpec
CONSTANTS
  MAX_TASKS = 5
  Status <- MCOneStatus
  MaxInput = 0
  ReapsBeforeExit = TRUE
INVARIANTS
  ParentAlive
  OnlyFullTablePanics
PROPERTIES
  WaitReportsOwnChild
  ReadyTaskRuns
  WaitedChildIsFreed
