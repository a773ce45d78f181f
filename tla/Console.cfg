\* A screen of eight rows of two columns: printf waits at every second row, and
\* as many rows are scrolled away as the screen has.
CONSTANTS
  Rows = 8
  Cols = 2
  Chars = {"x"}
  Colors = {15}
  Newline = "newline"
  Blank <- MCBlank
  MaxLines = 8
SPECIFICATION Spec
INVARIANT TypeOK
PROPERTIES
  EveryRowSeen
  ShowsTape
