\* Two scripts, one level of functions, loops nested in loops and calls.
SPECIFICATION FairSpec
CONSTANTS
  MaxLevel = 1
  MaxFrames = 7
  MaxBody = 1
  MaxIter = 1
  MaxScripts = 2
  MaxSignals = 2
INVARIANTS
  TypeOK
  NoMarkerEscapes
  LoopingHasALoop
  OneLoopPerSignal
PROPERTIES
  
  FlagIsSeen
CHECK_DEADLOCK FALSE
