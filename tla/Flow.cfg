SPECIFICATION Spec
CONSTANTS
  Programs <- FlowPrograms
  Names = {"m"}
  MaxIncludeLevel = 2
  IntWidth = 4
  StackLimit = 6
INVARIANT IInv
INVARIANT FlowIsLexical
PROPERTY StopsInTime
PROPERTY Termination
