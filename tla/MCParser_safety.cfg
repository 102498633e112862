\* Every input of eight tokens and newlines.
SPECIFICATION Spec
CONSTANT
  MaxTokens = 8
INVARIANTS
  OpenblocksIsDepth
  UnfinishedIsOpen
PROPERTIES
  ParseEnds
CHECK_DEADLOCK FALSE
