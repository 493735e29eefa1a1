SPECIFICATION Spec
CONSTANTS
  PAGE_SIZE = 4
  BITMAP_SIZE = 6
  KERNEL = 1
  Maps <- MCHighMemory
INVARIANTS
  NothingWrittenBeyond
CHECK_DEADLOCK FALSE
