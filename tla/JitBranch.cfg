\* A loop closed by a BMS: its top expects a value where it is no longer.
CONSTANTS
  Programs <- BmsPrograms
  VReg <- MCVReg
  GpArgRegs = 2
  FpArgRegs = 1
  MaxArgs = 3
  GpRegs = {"ax", "bx", "di", "si"}
  FpRegs = {"x0", "x1"}
  CalleeSaved = {"bx"}
  RetReg = "ax"
  FpRetReg = "x0"
  GpArgs <- MCGpArgs
  FpArgs <- MCFpArgs
  Analysis <- MCAnalysis
SPECIFICATION ExecSpec
INVARIANT JumpsAgree
CHECK_DEADLOCK FALSE
