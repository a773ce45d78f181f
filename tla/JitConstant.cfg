\* A value in RAX is passed with a floating-point constant after it.
CONSTANTS
  Programs <- ConstantPrograms
  VReg <- MCVReg
  GpArgRegs = 2
  FpArgRegs = 1
  MaxArgs = 3
  GpRegs = {"ax", "bx", "di", "si"}
  FpRegs = {"x0", "x1"}
  CalleeSaved = {"bx"}
  RetReg = "ax"
  FpRetReg = "x0"
  GpArgs <- MCGpArgs
  FpArgs <- MCFpArgs
  Analysis <- MCAnalysis
SPECIFICATION ExecSpec
INVARIANT ArgumentsPassed
CHECK_DEADLOCK FALSE
