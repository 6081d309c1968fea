CONSTANTS
  Limit = 4
  Expressions <- MCExpressions
  Programs <- MCPrograms
  Headers <- MCHeaders
  Malformed <- MCMalformed
SPECIFICATION Spec
INVARIANTS ExactlyConsistent LinkageSound SameAsExecuted LayoutsSound FrameSound
