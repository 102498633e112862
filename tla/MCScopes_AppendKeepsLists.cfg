\* Two appends to the same list.
SPECIFICATION Spec
CONSTANTS
  Strings = {"", "a", "b", "o", "0", "1"}
  Names = {"x", "y"}
  Param = "x"
  NodeRows <- MCListRows
  ExprRows <- MCListExprRows
  MaxStatements = 4
  MaxCalls = 0
PROPERTY
  AppendKeepsLists
CHECK_DEADLOCK FALSE
