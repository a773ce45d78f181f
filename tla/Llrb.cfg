CONSTANTS
  Owners <- MCOwners
  Keys <- MCKeys
  Values <- MCValues
  Inserts <- MCInserts
  Room <- MCRoom
SPECIFICATION Spec
INVARIANTS
  Balanced
  FindsExactly
  EqualSets
PROPERTY
  ImplementsMap
