CONSTANTS
  MaxLiteral = 3
  Bodies <- MCBodies
  Locals <- MCLocals
  Params <- MCParams
  Globals <- MCGlobals
  Returns <- MCReturns
  Structs <- MCStructs
  Types <- MCTypes
SPECIFICATION Spec
INVARIANTS ViewsInSync ExactlyTypeable StoresFit
