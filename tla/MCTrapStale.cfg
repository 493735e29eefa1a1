SPECIFICATION TrapSpec
CONSTANTS
  TASKS = 2
  PAGES = 2
  Heap <- MCDifferent
INVARIANTS
  LegalTouchNeverPanics
