CONSTANTS
  Chunk = 8
  ImmLimit = 4
  Unscaled = 24
  ScratchSpillSlot = 12
  Registers <- MCRegisters
  FpValue <- MCFp
  SpValue <- MCSp
  SlotsOf <- MCSlotsOf
  NextVReg <- MCNextVReg
  Allocas <- MCAllocas
  Layouts <- MCLayouts
  Programs <- MCWideLiterals
SPECIFICATION Spec
INVARIANT LiteralsAssemble
CHECK_DEADLOCK FALSE
