\* Every statement, up to two calls: results, closures, lists and exports.
SPECIFICATION Spec
CONSTANTS
  Strings = {"", "a", "b", "o", "0", "1"}
  Names = {"x", "y"}
  Param = "x"
  NodeRows <- MCNodeRows
  ExprRows <- MCExprRows
  MaxStatements = 5
  MaxCalls = 2
INVARIANTS
  TypeOK
PROPERTIES
  ExportsWhatItSees
  CallerIsPrivate
  ResultsReachCaller
CHECK_DEADLOCK FALSE
