SPECIFICATION Spec
CONSTANTS
  TASKS = 2
  DIRS = 2
  SLOTS = 2
  FRAMES = 12
  UINT8 = 256
  Images <- MCImages
  MaxBrk = 2
  Value <- MCValue
  SharedBuffers = FALSE
VIEW MCView
INVARIANTS
  WritableIsPrivate
