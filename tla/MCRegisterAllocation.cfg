SPECIFICATION AllocSpec
CONSTANTS
  N = 3
  V = 2
  NumColors = 2
  Vreg <- MCVreg
  Val <- MCVal
  Op <- MCOp
  Inputs <- MCInputs
INVARIANTS
  InterferenceRespected
  OperandsIntact
CHECK_DEADLOCK FALSE
