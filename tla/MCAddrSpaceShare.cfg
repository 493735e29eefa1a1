SPECIFICATION Spec
CONSTANTS
  TASKS = 3
  DIRS = 2
  SLOTS = 2
  FRAMES = 16
  UINT8 = 256
  Images <- MCImages
  MaxBrk = 1
  Value <- MCValue
  SharedBuffers = FALSE
VIEW MCView
INVARIANTS
  WritableIsPrivate
PROPERTIES
  ImplementsPrivateMemory
