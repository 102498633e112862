\* A limit of three lines and four submitted: lines are dropped, the file rewritten.
SPECIFICATION Spec
CONSTANTS
  Lines <- MCLines
  Limit = 3
  MaxSubmits = 4
INVARIANTS
  TypeOK
  LineIsCurrentItem
  FileFollowsList
PROPERTIES
  ImplementsRecall
CHECK_DEADLOCK FALSE
