SPECIFICATION Spec
CONSTANTS
  INT_MAX = 31
  MAX_TASKS = 7
  Newline <- MCNewline
  Archive <- MCArchive
  ShellName <- MCShellName
  Sessions <- MCSessions
  Behind <- MCBehind
  BUFSIZ = 8
  MAX_LINE_SIZ = 6
  MAX_TOKENS = 3
  SIZE_BUF = 10
INVARIANTS
  ShellHasItsChild
PROPERTIES
  ImplementsDialogue
  Settles
