SPECIFICATION Spec
CONSTANTS
  TASKS = 2
  DIRS = 3
  SLOTS = 2
  FRAMES = 14
  UINT8 = 256
  Images <- MCImages
  MaxBrk = 3
  Value <- MCValue
  SharedBuffers = FALSE
VIEW MCView
PROPERTIES
  TouchedPageAppears
