SPECIFICATION Spec
CONSTANTS
  MaxData = 2
  MaxWrites = 5
  MaxWidths = 1
INVARIANTS
  StreamArrives
  TerminalGivenBack
PROPERTY InFlightWakes
CHECK_DEADLOCK FALSE
