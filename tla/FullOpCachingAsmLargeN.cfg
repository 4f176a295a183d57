CONSTANTS
  E = 3
  OP_REGS <- MCOpRegs
  IM_REGS <- MCImRegs
  W <- MCW
  Bits <- MCLargeBits
  NOARG = NOARG
  MaxN <- MCMaxN
  Inputs <- MCInputs
  UNDEF = UNDEF
  NOREG = NOREG
SPECIFICATION Spec
INVARIANTS
  ProductCorrect
\* The script ends after the last row.
CHECK_DEADLOCK FALSE
