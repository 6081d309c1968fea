SPECIFICATION Spec
CONSTANTS
  N = 5
  MaxLocal = 36
  Functions <- MCFunctions
  SingleDefLimit = 1
  MaxBlocks = 7
INVARIANTS
  PassesSound
  ResultIsDominatorTree
  WellFormedSsa
  SameOutput
CHECK_DEADLOCK FALSE
