\* Every key but Ctrl-T, in both modes, in lines of up to three runes.
SPECIFICATION FairSpec
CONSTANTS
  Keys <- MCKeys
  MaxLen = 3
  NoWidth = FALSE
INVARIANTS
  TypeOK
  StdinIsLent
  EmacsNeverStuck
PROPERTY ReadlineEnds
CHECK_DEADLOCK FALSE
