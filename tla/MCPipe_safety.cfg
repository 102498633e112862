\* Every kind of component, ending when it likes: the shell may hang here.
SPECIFICATION Spec
CONSTANTS
  N = 3
  Cap = 1
  MaxOut = 1
  ExitCodes <- MCExitCodes
  Kinds <- MCAllKinds
  NoStatus = "nostatus"
  Results <- MCAnyResult
  EarlyExit = TRUE
INVARIANTS
  TypeOK
  SuccessIsComplete
  BlamesFirstFailure
  NoFileLeak
CHECK_DEADLOCK FALSE
