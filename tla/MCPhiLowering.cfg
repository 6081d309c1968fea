SPECIFICATION PhiSpec
CONSTANTS
  N = 3
  NumVars = 4
  MaxReg = 6
  Reg <- MCReg
  Val <- MCVal
  Inputs <- MCInputs
  Functions <- MCFunctions
INVARIANTS
  EdgesCarryTheirCopies
  PendingSourcesIntact
  TemporariesBounded
PROPERTIES
  ImplementsSsa
CHECK_DEADLOCK FALSE
