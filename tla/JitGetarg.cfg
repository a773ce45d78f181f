\* A loop that reads an argument and calls: the argument is to be loaded back.
CONSTANTS
  Programs <- GetargPrograms
  VReg <- MCVReg
  GpArgRegs = 2
  FpArgRegs = 1
  MaxArgs = 3
  GpRegs = {"ax", "bx", "di", "si"}
  FpRegs = {"x0", "x1"}
  CalleeSaved = {"bx"}
  RetReg = "ax"
  FpRetReg = "x0"
  GpArgs <- MCGpArgs
  FpArgs <- MCFpArgs
  Analysis <- MCAnalysis
SPECIFICATION ExecSpec
INVARIANT NoArgLoads
CHECK_DEADLOCK FALSE
