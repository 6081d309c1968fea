SPECIFICATION StreamSpec
CONSTANTS
  N = 3
  Capacity = 3
  WordBits = 2
  Streams <- MCStreams
  Inputs <- MCInputs
INVARIANTS
  WorklistSound
  BelowEverySolution
  InterferenceExact
PROPERTIES
  Terminates
  ImplementsLiveness
CHECK_DEADLOCK FALSE
