SPECIFICATION Spec
CONSTANTS
  PAGE_SIZE = 4
  BITMAP_SIZE = 6
  KERNEL = 1
  Maps <- MCAnywhere
INVARIANTS
  UnusableNeverFree
CHECK_DEADLOCK FALSE
