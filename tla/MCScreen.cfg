SPECIFICATION Spec
CONSTANTS
  VGA_WIDTH = 2
  VGA_HEIGTH = 4
  Char = {"a"}
  Blank = " "
  Newline = "newline"
  MAX_TYPED = 2
INVARIANTS
  CursorReturns
PROPERTIES
  ImplementsTeletype
