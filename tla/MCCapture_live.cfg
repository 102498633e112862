\* Components that read to end of file before they end: the statement ends.
SPECIFICATION CaptureFairSpec
CONSTANTS
  N = 3
  Cap = 1
  MaxOut = 2
  ExitCodes <- MCExitCodes
  Kinds <- MCFnAndCmd
  NoStatus = "nostatus"
  Results <- MCExitResult
  EarlyExit = FALSE
  MaxFns = 1
  MaxRedirects = 1
  MaxErrs = 1
INVARIANTS
  NothingLost
  CaptureIsWhole
PROPERTIES
  CaptureReturns
CHECK_DEADLOCK FALSE
