SPECIFICATION BootSpec
CONSTANTS
  PAGE_SIZE = 4
  BITMAP_SIZE = 6
  KERNEL = 1
  Maps <- MCAnywhere
  Machines <- MCMachines
  Path <- MCPath
  BLOCK = 2
  DIGITS = 2
  UINT = 256
INVARIANTS
  UserModeIsReady
  FindsFile
  LastByteDecides
PROPERTIES
  Boots
