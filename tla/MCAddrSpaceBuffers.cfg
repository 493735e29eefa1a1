SPECIFICATION Spec
CONSTANTS
  TASKS = 2
  DIRS = 2
  SLOTS = 2
  FRAMES = 12
  UINT8 = 256
  Images <- MCImages
  MaxBrk = 1
  Value <- MCValue
  SharedBuffers = TRUE
VIEW MCView
PROPERTIES
  ImplementsPrivateMemory
