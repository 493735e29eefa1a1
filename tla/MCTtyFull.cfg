SPECIFICATION Spec
CONSTANTS
  BUF_SIZE = 4
  UINT = 16
  Char <- MCChar
  Newline = "newline"
  Requests <- MCRequests
  Writes <- MCWrites
PROPERTIES
  TypingKeepsTheLine
VIEW MCView
