CONSTANTS
  Chunk = 8
  ImmLimit = 4
  Unscaled = 24
  ScratchSpillSlot = 12
  Registers <- MCRegisters
  FpValue <- MCFp
  SpValue <- MCSp
  SlotsOf <- MCSlotsOf
  NextVReg <- MCNextVReg
  Allocas <- MCAllocas
  Layouts <- MCLayouts
  Programs <- MCPrograms
SPECIFICATION Spec
INVARIANTS SelectionFaithful SameEffect OthersUntouched AllEncodable
CHECK_DEADLOCK FALSE
