\* Up to six blocks of no, one or two words: malloc, free, realloc, writes,
\* walks.  The system stops for ever when an assertion fails.
CONSTANTS
  MemSize = 14
  Sizes = {0, 1, 2}
  Values = {3}
  Fill = 15
  Junk = 5
  Word <- MCWord
SPECIFICATION Spec
INVARIANTS
  TypeOK
  AccountingExact
  HeadersIntact
  AssertsHoldForWords
  WalkExact
PROPERTY ImplementsStore
CHECK_DEADLOCK FALSE
