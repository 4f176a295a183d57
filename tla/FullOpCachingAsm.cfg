CONSTANTS
  E = 3
  OP_REGS <- MCOpRegs
  IM_REGS <- MCImRegs
  W <- MCW
  Bits <- MCBits
  NOARG = NOARG
  MaxN <- MCMaxN
  Inputs <- MCInputs
  UNDEF = UNDEF
  NOREG = NOREG
SPECIFICATION Spec
INVARIANTS
  TypeOK
  ProductCorrect
  NoGeneratorError
  OperandRegistersCoherent
\* The script ends after the last row.
CHECK_DEADLOCK FALSE
