\* A loop closed by a BEQ: a value is moved over the call and back on the edge.
CONSTANTS
  Programs <- SavedPrograms
  VReg <- MCVReg
  GpArgRegs = 2
  FpArgRegs = 1
  MaxArgs = 3
  GpRegs = {"ax", "bx", "di", "si"}
  FpRegs = {"x0", "x1"}
  CalleeSaved = {"bx"}
  RetReg = "ax"
  FpRetReg = "x0"
  GpArgs <- MCGpArgs
  FpArgs <- MCFpArgs
  Analysis <- MCAnalysis
SPECIFICATION ExecSpec
INVARIANT CalleeSavedKept
CHECK_DEADLOCK FALSE
