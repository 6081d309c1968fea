CONSTANTS
  Sources <- MCGrouped
  GlobalTypes <- MCGlobalTypes
  Structs <- MCStructs
  Returns <- MCReturns
  Width = 3
  MaxLiteral = 3
  Replies = {0, 2}
SPECIFICATION Spec
INVARIANT KeywordsReserved
