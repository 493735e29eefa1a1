SPECIFICATION FairSpec
CONSTANTS
  TASKS = 2
  PAGES = 2
  Heap <- MCDifferent
INVARIANTS
  InServiceIsOnStack
  StackBounded
PROPERTIES
  KeyIsRead
  EveryTaskRuns
  TouchSucceeds
