CONSTANTS
  Programs <- MCPrograms
  BUF_SIZE = 256
  MINIMAL_BUF_SPACE = 76
  Data <- MCData
  StackTop <- MCStackTop
  Magic <- MCMagic
  MaxSteps = 60
  Mapped <- MCMapped
SPECIFICATION Spec
INVARIANTS
  ComputesRight
  NeverFaults
  PassesKeepMeaning
  StackRestored
PROPERTY RoomLeft
CHECK_DEADLOCK FALSE
