SPECIFICATION FairSpec
CONSTANTS
  HEAP = 13
  HEADER = 2
  ALLOC_SIZE = 4
  Requests <- MCRequests
INVARIANTS
  HeapIsTiled
  ListInOrder
PROPERTIES
  CallReturns
  ImplementsAllocator
