SPECIFICATION Spec
CONSTANTS
  Ident = {"a", "b", "f", "x", "ls", "in"}
  Arg = {"-l", "-x", "/p"}
  Quoted = {"Q"}
  Number = {"0", "1", "2"}
  Variable = {"$x"}
  Comment = {"#c", "#!"}
  Dashed = {"-l", "-x"}
  Shebang = {"#!"}
  Width = 6
  Texts <- MCTexts
  MaxRuns = 3
INVARIANT KeepsProgram
PROPERTY Settles
