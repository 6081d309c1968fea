CONSTANTS
  Sources <- MCSources
  GlobalTypes <- MCGlobalTypes
  Structs <- MCStructs
  Returns <- MCReturns
  Width = 3
  MaxLiteral = 3
  Replies = {0, 2}
SPECIFICATION Spec
INVARIANTS ParsedAsWritten ErrorsExact WellFormedIr SameEvents
