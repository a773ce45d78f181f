\* Straight lines, calls, loops and arguments, with more values than registers.
CONSTANTS
  Programs <- JitPrograms
  VReg <- MCVReg
  GpArgRegs = 2
  FpArgRegs = 1
  MaxArgs = 3
  GpRegs = {"ax", "bx", "di", "si"}
  FpRegs = {"x0", "x1"}
  CalleeSaved = {"bx"}
  RetReg = "ax"
  FpRetReg = "x0"
  GpArgs <- MCGpArgs
  FpArgs <- MCFpArgs
  Analysis <- MCAnalysis
SPECIFICATION ExecSpec
INVARIANTS
  TypeOK
  OneEach
  NothingLost
  NoArgLoads
  SlotsApart
  AliveAtHome
  ReadsRight
  ArgumentsPassed
  CallsRight
PROPERTY Allocates
CHECK_DEADLOCK FALSE
