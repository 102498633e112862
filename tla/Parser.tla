------------------------------- MODULE Parser -------------------------------
(***************************************************************************)
(* The parser (parser/parse.go), which takes its tokens from the lexer and *)
(* looks at one of them ahead.                                             *)
(*                                                                         *)
(* The Go call stack is a sequence of items, the first one running: an     *)
(* item is a place of a parse function, with what the function was told.   *)
(* Rules gives, for the item that runs, what the code does with a token: a *)
(* token without a rule is a parse error. The tree itself is not built.    *)
(***************************************************************************)
EXTENDS Lexer, FiniteSets

VARIABLES
  stack,        \* items
  openblocks,
  insidePipe,
  result        \* "none" while parsing, "ok", "error" or "unfinished"
parser == <<stack, openblocks, insidePipe, result>>
vars == <<lexer, tok, parser>>

Item(at, flags, n) == [at |-> at, flags |-> flags, n |-> n]
At(at) == Item(at, {}, 0)
With(at, flags) == Item(at, flags, 0)
(* A list of names or values, n more names than values so far. *)
Count(at, n) == Item(at, {}, n)
(* Just one of these tokens. *)
Expect(tokens) == With("expect", tokens)

Init ==
  /\ InitLexer
  /\ stack = <<At("block")>>
  /\ openblocks = 0 /\ insidePipe = FALSE
  /\ result = "none"

-----------------------------------------------------------------------------
(* A rule: the tokens it is for, whether they are taken, the items that    *)
(* replace the one that runs, and what becomes of the rest.                *)
Rule(on, take, push) ==
  [on |-> on, take |-> take, push |-> push, open |-> 0,
   inside |-> insidePipe, result |-> "none"]
Shift(on, push) == Rule(on, TRUE, push)
Look(on, push) == Rule(on, FALSE, push)
Open(push) == [Shift({"LBrace"}, <<At("block")>> \o push) EXCEPT !.open = 1]
LeavePipe(rule) == [rule EXCEPT !.inside = FALSE]
EnterPipe(rule) == [rule EXCEPT !.inside = TRUE]
Unfinished == [Look({"EOF"}, << >>) EXCEPT !.result = "unfinished"]
(* A semicolon that may be missing. *)
OptSemicolon == {Shift({"Semicolon"}, << >>), Look(Token \ {"Semicolon"}, << >>)}

ValidArgument == {"String", "Number", "Arg", "Dotdotdot", "Variable"} \cup Identifier \cup Keyword
Command == Identifier \cup {"Arg"}

(* What getArgument is told. *)
CommandArg == With("arg", {"Concat", "Arg", "Variadic"})
Location == With("arg", {"Concat", "Arg"})
ListArg == With("arg", {"Concat", "Arg"})
ConcatArg == With("arg", {"Funcall"})
Expression == With("arg", {"Concat", "Funcall"})
CallArg == With("arg", {"Concat", "Funcall", "Variadic"})

-----------------------------------------------------------------------------
(* A brace ends the block if there is one to end. *)
BlockRules ==
  {[Look({"EOF"}, << >>) EXCEPT !.result = IF openblocks = 0 THEN "none" ELSE "unfinished"],
   Look(Token \ {"EOF", "LBrace", "RBrace"}, <<At("statement"), At("block")>>)}
    \cup (IF openblocks > 0
          THEN {[Shift({"RBrace"}, << >>) EXCEPT !.open = -1]} ELSE {})

StatementRules ==
  {Shift({"If"}, <<At("if")>>), Shift({"For"}, <<At("for")>>), Shift({"Fn"}, <<At("fn")>>),
   Shift({"Var"}, <<At("var")>>), Shift({"Return"}, <<At("return")>>),
   Shift({"Import"}, <<Expect(Command \cup {"String"}), At("semicolon")>>),
   Shift({"SetEnv"}, <<At("setenv")>>), Shift({"Rfork"}, <<At("rfork")>>),
   Shift({"BindFn"}, <<Expect(Identifier), Expect(Identifier), At("semicolon")>>),
   Shift({"Comment"}, << >>),
   Shift(Identifier, <<At("identifier")>>), Shift({"Arg"}, <<At("command")>>),
   Shift({"Variable"}, <<With("call", {"semicolon"})>>),
   Shift({"LParen"}, <<At("multi")>>)}

(* A statement that starts with an identifier. *)
Assignment == {"Assign", "AssignCmd", "LBrack", "Comma"}
IdentifierRules ==
  {Look({"LParen"}, <<With("call", {"semicolon"})>>),
   Look(Assignment, <<Count("assign", 1)>>),
   Look(Token \ (Assignment \cup {"LParen"}), <<At("command")>>)}

-----------------------------------------------------------------------------
(* Commands and pipes. *)
MultiRules == {Shift(Command, <<With("command", {"multi"})>>), Unfinished}

(* A parenthesis that is open must be closed; it may end on a later line.  *)
CloseMulti(next) == {Shift({"RParen"}, next), Unfinished}

(* A command in a pipe leaves the semicolon to the pipe. *)
\* Mutant: one without a semicolon could end on a later line.
CommandEndWaiting ==
  IF insidePipe THEN {LeavePipe(Look(Token, << >>))}
  ELSE {Shift({"Semicolon"}, << >>), Unfinished}
CommandEnd ==
  IF insidePipe THEN {LeavePipe(Look(Token, << >>))} ELSE {Shift({"Semicolon"}, << >>)}

CommandRules(item) ==
  LET blockEnds == IF openblocks > 0 THEN {"RBrace"} ELSE {}
      others == Token \ (ValidArgument \cup {"Plus", "Gt", "Pipe"} \cup blockEnds)
  IN  {Look(ValidArgument, <<CommandArg, item>>),
       Shift({"Gt"}, <<At("redirection"), item>>),
       LeavePipe(Look(blockEnds, << >>)),
       IF insidePipe THEN Shift({"Pipe"}, << >>)
       ELSE EnterPipe(Shift({"Pipe"}, <<With("pipe", item.flags)>>))}
      \cup (IF "multi" \in item.flags
            THEN CloseMulti(<<At("commandEnd")>>)
            ELSE {[r EXCEPT !.on = r.on \cap others] : r \in CommandEnd})

PipeRules(item) ==
  {Shift(Command, <<At("command"), With("pipeNext", item.flags)>>),
   Look(Token \ Command, <<With("pipeEnd", item.flags)>>)}
PipeNextRules(item) ==
  {Look(Token, <<With(IF insidePipe THEN "pipe" ELSE "pipeEnd", item.flags)>>)}
PipeSemicolon == {Shift({"Semicolon"}, << >>), Look({"RBrace"}, << >>)}
PipeEndRules(item) ==
  IF "multi" \in item.flags THEN CloseMulti(<<At("pipeSemicolon")>>) ELSE PipeSemicolon

RedirectionRules ==
  {Look(ValidArgument, <<Location>>), Shift({"LBrack"}, <<Expect({"Number"}), At("map")>>)}
MapRules ==
  {Shift({"RBrack"}, <<At("location")>>), Shift({"Assign"}, <<At("mapRight")>>)}
MapRightRules ==
  {Shift({"RBrack"}, <<At("location")>>),
   Shift({"Number"}, <<Expect({"RBrack"}), At("location")>>)}
LocationRules == {Look(ValidArgument, <<Location>>), Look(Token \ ValidArgument, << >>)}

-----------------------------------------------------------------------------
(* Expressions. *)
ArgumentRules(item) ==
  {Shift({"Variable"}, <<With("argVariable", item.flags), With("argEnd", item.flags)>>),
   Shift({"String"}, <<With("argEnd", item.flags)>>),
   Shift(Command, <<With("argWord", item.flags \cup {"unquoted"})>>),
   Shift(ValidArgument \ (Command \cup {"Variable", "String"}), <<With("argWord", item.flags)>>)}

(* Calls, where they are allowed. *)
CallIf(item, push) ==
  IF "Funcall" \in item.flags THEN {Look({"LParen"}, push)} ELSE {}
NoCall(item) == IF "Funcall" \in item.flags THEN Token \ {"LParen"} ELSE Token

ArgVariableRules(item) ==
  CallIf(item, <<At("call")>>) \cup {Look(NoCall(item), <<With("variable", item.flags)>>)}
ArgWordRules(item) ==
  CallIf(item, <<At("call"), With("argEnd", item.flags \ {"unquoted"})>>)
    \cup {Look(NoCall(item), <<With("argEnd", item.flags)>>)}
(* A word without quotes is no value, unless something is added to it. *)
ArgEndRules(item) ==
  LET plus == IF "Concat" \in item.flags THEN {"Plus"} ELSE {}
  IN  {Look(plus, <<At("concat")>>)}
        \cup (IF "unquoted" \in item.flags /\ "Arg" \notin item.flags THEN {}
              ELSE {Look(Token \ plus, << >>)})
ConcatRules ==
  {Shift({"Plus"}, <<ConcatArg, At("concat")>>), Look(Token \ {"Plus"}, << >>)}

(* What may follow a variable: an index, dots. *)
DotsRules(item) ==
  {Look(Token \ {"Dotdotdot"}, << >>)}
    \cup (IF "Variadic" \in item.flags THEN {Shift({"Dotdotdot"}, << >>)} ELSE {})
Index(next) == Shift({"LBrack"}, <<At("index"), Expect({"RBrack"})>> \o next)
IndexRules == {Shift({"Number"}, << >>), Shift({"Variable"}, <<At("variable")>>)}
VariableRules(item) ==
  {Index(<<With("dots", item.flags)>>)}
    \cup {[r EXCEPT !.on = r.on \ {"LBrack"}] : r \in DotsRules(item)}

(* A list may end on a later line. *)
\* Mutant: the end of the input does not end the loop over its elements.
ListRulesGoingOn(item) ==
  {Look(ValidArgument, <<ListArg, item>>),
   Look({"LParen"}, <<Expect({"LParen"}), item, item>>),
   Shift({"RParen"}, <<With("dots", {"Variadic"})>>), Look({"EOF"}, <<item>>)}
ListRules(item) ==
  {Look(ValidArgument, <<ListArg, item>>),
   Look({"LParen"}, <<Expect({"LParen"}), item, item>>),
   Shift({"RParen"}, <<With("dots", {"Variadic"})>>), Unfinished}
List == <<Expect({"LParen"}), At("list")>>

(* The arguments of a call. A token that can start none is skipped. *)
CallRules(item) == {Shift({"LParen"}, <<With("callArg", item.flags)>>)}
CallArgRules(item) ==
  LET next == With("callNext", item.flags)
  IN  {Look(ValidArgument, <<CallArg, next>>), Look({"LParen"}, List \o <<next>>),
       Shift({"RParen"}, <<With("callEnd", item.flags)>>),
       Shift(Token \ (ValidArgument \cup {"LParen", "RParen", "EOF"}), <<next>>)}
CallNextRules(item) ==
  {Shift({"Comma"}, <<With("callArg", item.flags)>>),
   Shift({"RParen"}, <<With("callEnd", item.flags)>>)}
CallEndRules(item) ==
  IF "semicolon" \in item.flags THEN OptSemicolon ELSE {Look(Token, << >>)}

-----------------------------------------------------------------------------
(* Assignments: as many values as names. *)
AssignOp(n) == {Shift({"Assign"}, <<Count("values", n)>>), Shift({"AssignCmd"}, <<At("output")>>)}
NameEndRules(n) == {Shift({"Comma"}, <<Count("names", n)>>)} \cup AssignOp(n)
AssignRules(n) == {Index(<<Count("nameEnd", n)>>)} \cup NameEndRules(n)
NamesRules(n) == {Shift(Identifier, <<Count("assign", n + 1)>>)} \cup AssignOp(n)

ValuesRules(n) ==
  {Look({"Variable", "String"}, <<Expression, Count("valuesNext", n - 1)>>),
   Look({"LParen"}, List \o <<Count("valuesNext", n - 1)>>)}
ValuesNextRules(n) ==
  {Shift({"Comma"}, <<Count("moreValues", n)>>)}
    \cup (IF n = 0 THEN {[r EXCEPT !.on = r.on \ {"Comma"}] : r \in OptSemicolon} ELSE {})
(* A comma may be the last. *)
MoreValuesRules(n) ==
  ValuesRules(n)
    \cup (IF n = 0
          THEN {[r EXCEPT !.on = r.on \ {"Variable", "String", "LParen"}] : r \in OptSemicolon}
          ELSE {})

OutputRules ==
  {Shift({"LParen"}, <<At("multi")>>), Shift(Command, <<At("commandOrCall")>>),
   Shift({"Variable"}, <<With("call", {"semicolon"})>>)}
CommandOrCallRules ==
  {Look({"LParen"}, <<With("call", {"semicolon"})>>),
   Look(Token \ {"LParen"}, <<At("command")>>)}

SetenvRules == {Shift(Identifier, <<At("setenvEnd")>>)}
SetenvEndRules ==
  {Look({"Assign", "AssignCmd"}, <<Count("assign", 1)>>), Shift({"Semicolon"}, << >>)}
VarRules == {Shift(Identifier, <<Count("assign", 1)>>)}

-----------------------------------------------------------------------------
(* Statements with blocks. *)
IfExpr == Look(Identifier \cup {"String", "Variable"}, <<Expression>>)
IfRules ==
  {[IfExpr EXCEPT !.push = @ \o <<Expect({"Equal", "NotEqual"}), At("ifRight"),
                                  At("open"), At("else")>>]}
ElseRules == {Shift({"Else"}, <<At("elseBlock")>>), Look(Token \ {"Else"}, << >>)}
\* Mutant: the block is not counted.
ElseBlockRulesUncounted ==
  {Shift({"If"}, <<At("if")>>), Shift({"LBrace"}, <<At("block")>>)}
ElseBlockRules == {Shift({"If"}, <<At("if")>>), Open(<< >>)}

FnRules ==
  {Shift(Identifier, <<Expect({"LParen"}), At("parameters"), At("open")>>),
   Shift({"LParen"}, <<At("parameters"), At("open")>>)}
ParametersRules == {Shift({"RParen"}, << >>), Shift(Identifier, <<At("parameter")>>)}
ParameterEndRules == {Shift({"RParen"}, << >>), Shift({"Comma"}, <<At("moreParameters")>>)}
ParameterRules == {Shift({"Dotdotdot"}, <<At("parameterEnd")>>)} \cup ParameterEndRules
(* After a comma the parenthesis ends the loop and is not taken. *)
MoreParametersRules == {Look({"RParen"}, << >>), Shift(Identifier, <<At("parameter")>>)}

ForRules == {Open(<< >>), Shift(Identifier, <<Expect({"In"}), At("in"), At("open")>>)}
InRules ==
  {Shift(Identifier, <<At("call")>>), Shift({"Variable"}, <<At("callOrVariable")>>),
   Look({"LParen"}, List)}
CallOrVariableRules ==
  {Look({"LParen"}, <<At("call")>>), Look(Token \ {"LParen"}, <<At("variable")>>)}

RforkRules == {Shift(Identifier, <<At("rforkBlock")>>)}
RforkBlockRules ==
  {Open(<<At("semicolon")>>), Look(Token \ {"LBrace"}, <<At("semicolon")>>)}

ReturnRules ==
  {Look({"Semicolon", "RBrace", "Variable", "String", "LParen"} \cup Identifier,
        <<At("returned")>>)}
ReturnedRules ==
  {Shift({"Semicolon"}, << >>), Look({"RBrace"}, << >>),
   Look({"LParen"}, List \o <<At("returnEnd")>>),
   Shift(Identifier, <<With("call", {"semicolon"}), At("returnEnd")>>),
   Look(ValidArgument \ Identifier, <<Expression, At("returnEnd")>>)}
ReturnEndRules ==
  {Shift({"Comma"}, <<At("returned")>>), Shift({"Semicolon"}, << >>),
   Look(Token \ {"Comma", "Semicolon"}, << >>)}

-----------------------------------------------------------------------------
Rules(item) ==
  CASE item.at = "expect" -> {Shift(item.flags, << >>)}
    [] item.at = "open" -> {Open(<< >>)}
    [] item.at = "semicolon" -> OptSemicolon
    [] item.at = "block" -> BlockRules
    [] item.at = "statement" -> StatementRules
    [] item.at = "identifier" -> IdentifierRules
    [] item.at = "multi" -> MultiRules
    [] item.at = "command" -> CommandRules(item)
    [] item.at = "commandEnd" -> CommandEnd
    [] item.at = "pipe" -> PipeRules(item)
    [] item.at = "pipeNext" -> PipeNextRules(item)
    [] item.at = "pipeEnd" -> PipeEndRules(item)
    [] item.at = "pipeSemicolon" -> PipeSemicolon
    [] item.at = "redirection" -> RedirectionRules
    [] item.at = "map" -> MapRules
    [] item.at = "mapRight" -> MapRightRules
    [] item.at = "location" -> LocationRules
    [] item.at = "arg" -> ArgumentRules(item)
    [] item.at = "argVariable" -> ArgVariableRules(item)
    [] item.at = "argWord" -> ArgWordRules(item)
    [] item.at = "argEnd" -> ArgEndRules(item)
    [] item.at = "concat" -> ConcatRules
    [] item.at = "variable" -> VariableRules(item)
    [] item.at = "index" -> IndexRules
    [] item.at = "dots" -> DotsRules(item)
    [] item.at = "list" -> ListRules(item)
    [] item.at = "call" -> CallRules(item)
    [] item.at = "callArg" -> CallArgRules(item)
    [] item.at = "callNext" -> CallNextRules(item)
    [] item.at = "callEnd" -> CallEndRules(item)
    [] item.at = "assign" -> AssignRules(item.n)
    [] item.at = "nameEnd" -> NameEndRules(item.n)
    [] item.at = "names" -> NamesRules(item.n)
    [] item.at = "values" -> ValuesRules(item.n)
    [] item.at = "valuesNext" -> ValuesNextRules(item.n)
    [] item.at = "moreValues" -> MoreValuesRules(item.n)
    [] item.at = "output" -> OutputRules
    [] item.at = "commandOrCall" -> CommandOrCallRules
    [] item.at = "setenv" -> SetenvRules
    [] item.at = "setenvEnd" -> SetenvEndRules
    [] item.at = "var" -> VarRules
    [] item.at = "if" -> IfRules
    [] item.at = "ifRight" -> {IfExpr}
    [] item.at = "else" -> ElseRules
    [] item.at = "elseBlock" -> ElseBlockRules
    [] item.at = "fn" -> FnRules
    [] item.at = "parameters" -> ParametersRules
    [] item.at = "parameter" -> ParameterRules
    [] item.at = "parameterEnd" -> ParameterEndRules
    [] item.at = "moreParameters" -> MoreParametersRules
    [] item.at = "for" -> ForRules
    [] item.at = "in" -> InRules
    [] item.at = "callOrVariable" -> CallOrVariableRules
    [] item.at = "rfork" -> RforkRules
    [] item.at = "rforkBlock" -> RforkBlockRules
    [] item.at = "return" -> ReturnRules
    [] item.at = "returned" -> ReturnedRules
    [] item.at = "returnEnd" -> ReturnEndRules

-----------------------------------------------------------------------------
Parsing == result = "none" /\ stack # << >>

Parse ==
  /\ Parsing /\ tok # NoToken
  /\ \E r \in Rules(Head(stack)) :
       /\ tok \in r.on
       /\ stack' = IF r.result = "none" THEN r.push \o Tail(stack) ELSE stack
       /\ tok' = IF r.take THEN NoToken ELSE tok
       /\ openblocks' = openblocks + r.open
       /\ insidePipe' = r.inside
       /\ result' = r.result
  /\ UNCHANGED lexer

(* What the lexer does not know is a panic that Parse recovers. *)
ParseError ==
  /\ Parsing /\ tok # NoToken
  /\ \A r \in Rules(Head(stack)) : tok \notin r.on
  /\ result' = "error"
  /\ UNCHANGED <<lexer, tok, stack, openblocks, insidePipe>>

(* The block of the program has ended. *)
ParseOk ==
  /\ result = "none" /\ stack = << >>
  /\ result' = "ok"
  /\ UNCHANGED <<lexer, tok, stack, openblocks, insidePipe>>

Parser == Parse \/ ParseError \/ ParseOk

Lexer_ == Run /\ UNCHANGED parser

Next == Lexer_ \/ Parser

(* While one of the goroutines can go on, one does. The input has an end,  *)
(* so neither keeps the other waiting by what it does alone.               *)
Spec == Init /\ [][Next]_vars /\ WF_vars(Next)

-----------------------------------------------------------------------------
(* The count that tells an unfinished program from a wrong brace is that   *)
(* of the blocks being parsed, through all the functions that open one.    *)
OpenblocksIsDepth ==
  result = "none" /\ stack # << >> =>
    openblocks + 1 = Cardinality({n \in DOMAIN stack : stack[n].at = "block"})

(* The prompt asks for the rest of a program (cli.go) only when a brace or *)
(* a parenthesis of it is open, so that a later line can end it.           *)
UnfinishedIsOpen == result = "unfinished" => openblocks > 0 \/ openParens > 0

(* Every parse has a result: neither goroutine waits for the other forever *)
(* and no loop over tokens goes on at the end of the input. Unless it is   *)
(* an error all there is was read, and the goroutine of the lexer ends.    *)
ParseEnds == <>(result = "error" \/ (result # "none" /\ state = "closed"))
=============================================================================
