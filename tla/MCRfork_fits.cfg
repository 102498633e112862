\* Every statement fits in the buffer of the child.
SPECIFICATION FairSpec
CONSTANTS
  MaxStatements = 3
  MaxSize = 2
  Buf = 2
  MaxTries = 3
INVARIANTS
  TypeOK
  ExecutesWholeStatements
  NoChildLeftBehind
PROPERTIES
  ImplementsRemoteBlock
  RforkEnds
CHECK_DEADLOCK FALSE
