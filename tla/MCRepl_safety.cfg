\* Eight lines: blocks in blocks, errors and interrupts inside them.
SPECIFICATION ReplSpec
CONSTANT
  MaxLines = 8
INVARIANTS
  PendingIsUnfinished
PROPERTY
  HooksAlternate
CHECK_DEADLOCK FALSE
