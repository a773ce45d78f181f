\* All programs of two shapes over two virtual registers, with loops, dead code
\* and a second function.  The analysis stops when it has returned.
CONSTANTS
  Programs <- MCPrograms
  VReg <- MCVReg
  GpArgRegs = 1
  FpArgRegs = 1
  MaxArgs = 1
SPECIFICATION Spec
INVARIANTS
  TypeOK
  ReturnsSolution
  FindsLiveness
PROPERTIES
  OnlyGrow
  Terminates
CHECK_DEADLOCK FALSE
