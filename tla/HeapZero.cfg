\* A caller may ask for nothing: malloc(0), as the JIT does for a function
\* without arguments.
CONSTANTS
  MemSize = 9
  Sizes = {0, 1}
  Values = {3}
  Fill = 15
  Junk = 5
  Word <- MCWord
SPECIFICATION Spec
INVARIANT AssertsHold
CHECK_DEADLOCK FALSE
