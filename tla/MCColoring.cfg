SPECIFICATION ColorSpec
CONSTANTS
  NumVregs = 5
  NumColors = 2
  Vreg <- MCVreg
  GraphInputs <- MCInputs
INVARIANTS
  ProperColoring
  IncrementalStateExact
  SpillsArePotential
  EveryVregPlaced
PROPERTIES
  ColoringTerminates
CHECK_DEADLOCK FALSE
