SPECIFICATION Spec
CONSTANTS
  VGA_WIDTH = 2
  VGA_HEIGTH = 4
  Char = {"a", "b"}
  Blank = " "
  Newline = "newline"
  MAX_TYPED = 2
PROPERTIES
  AlwaysTeletype
