------------------------------- MODULE Reader -------------------------------
(***************************************************************************)
(* What the lexer and the parser make of a text (scanner/lex.go,           *)
(* parser/parse.go, ast/node.go), as functions: the tree, of which Parser  *)
(* models everything but the result.  A text is a sequence of lexemes and  *)
(* newlines; the spaces between lexemes are left out.                      *)
(*                                                                         *)
(* A parse function gives a set with one pair, a node and the index of the *)
(* next token, or the empty set if the code refuses the text.  Statements  *)
(* have the line of their FileInfo, the only position anybody asks for.    *)
(***************************************************************************)
EXTENDS Integers, Sequences

CONSTANTS Ident, Arg, Quoted, Number, Variable, Comment   \* lexemes

Keyword == {"import", "setenv", "bindfn", "return", "if", "else", "for",
            "rfork", "fn", "var"}

(* A word or number with a + behind it is lexed as one argument, with the  *)
(* next word if no space keeps it apart. (Two words at most.)              *)
Bare == Ident \cup Number \cup Arg
Glued == {w \o "+" : w \in Bare} \cup {w[1] \o "+" \o w[2] : w \in Bare \X Bare}
Word == Ident \cup Arg \cup Glued

(* What is between two quotes: a text without a backslash and behind it    *)
(* nothing, a character, or an escape.  The tab stands for the characters  *)
(* whose escape the lexer reads back; it knows no \r, and leaves it out.   *)
Escapes == {"\\t", "\\015", "\\r"}
Escaped(e) == CASE e = "\\t" -> "\t" [] e = "\\015" -> "\r" [] OTHER -> ""
Control == {"\t", "\r"}
String == Quoted \cup {q \o c : q \in Quoted, c \in Control}
Literal == String \cup {q \o e : q \in Quoted, e \in Escapes}
lexQuote(x) ==
  IF x \in String THEN x
  ELSE LET cut == CHOOSE c \in Quoted \X Escapes : x = c[1] \o c[2]
       IN  cut[1] \o Escaped(cut[2])

-----------------------------------------------------------------------------
(* The lexer: lines, and the semicolons that stand for newlines.           *)

Asks(x) == x \in Word \cup Keyword \cup {")"}
Forgets(x) == x \in {"(", "{", "}"}
Parens(x) == CASE x = "(" -> 1 [] x = ")" -> -1 [] OTHER -> 0

(* The state of the lexer behind the first n items of a text.              *)
Lexing(text) ==
  LET st[n \in 0 .. Len(text)] ==
        IF n = 0 THEN [toks |-> << >>, add |-> FALSE, parens |-> 0, line |-> 1]
        ELSE LET l == st[n - 1]
                 x == text[n]
                 Semi == IF l.add /\ l.parens = 0 THEN <<[t |-> ";", line |-> l.line]>>
                         ELSE << >>
                 parens == l.parens + Parens(x)
                 val == IF x \in Literal THEN lexQuote(x) ELSE x
             IN  IF x = "\n"
                 THEN [l EXCEPT !.toks = @ \o Semi, !.add = FALSE, !.line = @ + 1]
                 ELSE [toks |-> Append(l.toks, [t |-> val, line |-> l.line]),
                       add |-> CASE x \in Word \cup Keyword ->
                                      ~(n = Len(text) /\ l.parens > 0)
                                 [] OTHER -> (l.add \/ Asks(x)) /\ ~Forgets(x),
                       parens |-> parens,
                       line |-> l.line]
  IN  st[Len(text)]

Lex(text) ==
  LET l == Lexing(text)
      Last(t) == [t |-> t, line |-> l.line]
  IN  l.toks \o (IF l.add THEN <<Last(";")>> ELSE << >>) \o <<Last("EOF")>>

-----------------------------------------------------------------------------
(* Helpers of the parse functions. s is the sequence of tokens, p an index.*)

One(node, p) == {<<node, p>>}
Then(parsed, Go(_, _)) == UNION {Go(r[1], r[2]) : r \in parsed}
T(s, p) == s[p].t
Expect(s, p, t, node) == IF T(s, p) = t THEN One(node, p + 1) ELSE {}
Optional(s, p, t, node) == One(node, IF T(s, p) = t THEN p + 1 ELSE p)

IsValidArgument(t) ==
  t \in String \cup Number \cup Word \cup Keyword \cup Variable \cup {"..."}
IsFuncall(t, next) == t \in Ident \cup Variable /\ next = "("
IsAssignment(t) == t \in {"=", "<=", "[", ","}
IsExpr(t) == t \in Variable \cup String \cup {"("}

exprConfig(arg, variadic, funcall, concat) ==
  [arg |-> arg, variadic |-> variadic, funcall |-> funcall, concat |-> concat]

(* Nodes of expressions. *)
StringExpr(str, quoted) == [k |-> "string", str |-> str, quoted |-> quoted]
IntExpr(val) == [k |-> "int", val |-> val]
VarExpr(name, variadic) == [k |-> "var", name |-> name, variadic |-> variadic]
IndexExpr(name, index, variadic) ==
  [k |-> "index", name |-> name, index |-> index, variadic |-> variadic]
ListExpr(list, variadic) == [k |-> "list", list |-> list, variadic |-> variadic]
ConcatExpr(parts) == [k |-> "concat", parts |-> parts]
FnInvNode(line, name, args) == [k |-> "fninv", line |-> line, name |-> name, args |-> args]

RECURSIVE ParseVariable(_, _, _), GetArgument(_, _, _), GetConcatArg(_, _, _),
          ListElements(_, _, _), FnInvArgs(_, _, _)

Dots(s, p, allowed) ==
  CASE T(s, p) # "..." -> One(FALSE, p)
    [] OTHER -> IF allowed THEN One(TRUE, p + 1) ELSE {}

ParseIndexing(s, p) ==
  Then(CASE T(s, p) \in Number   -> One(IntExpr(T(s, p)), p + 1)
         [] T(s, p) \in Variable -> ParseVariable(s, p, FALSE)
         [] OTHER                -> {},
       LAMBDA index, q : Expect(s, q, "]", index))

ParseVariable(s, p, allowVararg) ==
  IF T(s, p + 1) = "["
  THEN Then(ParseIndexing(s, p + 2), LAMBDA index, q :
         Then(Dots(s, q, allowVararg), LAMBDA dots, r :
           One(IndexExpr(T(s, p), index, dots), r)))
  ELSE Then(Dots(s, p + 1, allowVararg), LAMBDA dots, q :
         One(VarExpr(T(s, p), dots), q))

ParseList(s, p) == IF T(s, p) = "(" THEN ListElements(s, << >>, p + 1) ELSE {}

ListElements(s, values, p) ==
  LET More(value, q) == ListElements(s, Append(values, value), q)
  IN  CASE T(s, p) = "(" -> Then(ParseList(s, p), More)
        [] IsValidArgument(T(s, p)) ->
             Then(GetArgument(s, p, exprConfig(TRUE, FALSE, FALSE, TRUE)), More)
        [] T(s, p) = ")" ->
             Then(Dots(s, p + 1, TRUE), LAMBDA dots, q : One(ListExpr(values, dots), q))
        [] OTHER -> {}

ParseFnInv(s, p) ==
  IF T(s, p + 1) # "(" THEN {}
  ELSE Then(FnInvArgs(s, << >>, p + 2), LAMBDA args, q :
         One(FnInvNode(s[p].line, T(s, p), args), q))

(* What can start no argument is skipped. *)
FnInvArgs(s, args, p) ==
  LET After(more, q) ==
        CASE T(s, q) = "," -> FnInvArgs(s, more, q + 1)
          [] T(s, q) = ")" -> One(more, q + 1)
          [] OTHER -> {}
      Arg1(arg, q) == After(Append(args, arg), q)
  IN  CASE IsValidArgument(T(s, p)) ->
             Then(GetArgument(s, p, exprConfig(FALSE, TRUE, TRUE, TRUE)), Arg1)
        [] T(s, p) = "(" -> Then(ParseList(s, p), Arg1)
        [] T(s, p) = ")" -> One(args, p + 1)
        [] T(s, p) = "EOF" -> {}
        [] OTHER -> After(args, p + 1)

GetArgument(s, p, cfg) ==
  LET first == T(s, p)
      call == cfg.funcall /\ first \notin String /\ T(s, p + 1) = "("
      bare == first \in Word
  IN  IF ~IsValidArgument(first) THEN {}
      ELSE Then(IF call THEN ParseFnInv(s, p)
                ELSE IF first \in Variable THEN ParseVariable(s, p, cfg.variadic)
                ELSE One(StringExpr(first, first \in String), p + 1),
                LAMBDA arg, q :
                  IF T(s, q) = "+" /\ cfg.concat THEN GetConcatArg(s, <<arg>>, q)
                  ELSE IF bare /\ ~cfg.arg /\ ~call THEN {} ELSE One(arg, q))

GetConcatArg(s, parts, p) ==
  IF T(s, p) # "+" THEN One(ConcatExpr(parts), p)
  ELSE Then(GetArgument(s, p + 1, exprConfig(FALSE, FALSE, TRUE, FALSE)),
            LAMBDA arg, q : GetConcatArg(s, Append(parts, arg), q))

-----------------------------------------------------------------------------
(* Commands and pipes.                                                     *)

RedirectNode(lfd, rfd, location) ==
  [k |-> "redirect", lfd |-> lfd, rfd |-> rfd, location |-> location]
NoLocation == [k |-> "nil"]
CommandNode(line, name, args, redirs, multi) ==
  [k |-> "command", line |-> line, name |-> name, args |-> args, redirs |-> redirs,
   multi |-> multi]
PipeNode(line, cmds, multi) == [k |-> "pipe", line |-> line, cmds |-> cmds, multi |-> multi]

(* The map of a redirection, [2=1], [2=], [2], or none. *)
RedirectMap(s, p) ==
  LET left == T(s, p + 1)
      right == T(s, p + 3)
  IN  IF T(s, p) # "[" THEN One(<<"none", "none">>, p)
      ELSE IF left \notin Number THEN {}
      ELSE CASE T(s, p + 2) = "]" -> One(<<left, "none">>, p + 3)
             [] T(s, p + 2) = "=" ->
                  CASE right = "]" -> One(<<left, "suppress">>, p + 4)
                    [] right \in Number -> Expect(s, p + 4, "]", <<left, right>>)
                    [] OTHER -> {}
             [] OTHER -> {}

ParseRedirection(s, p) ==
  Then(RedirectMap(s, p), LAMBDA fds, q :
    CASE IsValidArgument(T(s, q)) ->
           Then(GetArgument(s, q, exprConfig(TRUE, FALSE, FALSE, TRUE)), LAMBDA loc, r :
             One(RedirectNode(fds[1], fds[2], loc), r))
      [] OTHER -> IF fds = <<"none", "none">> THEN {}
                  ELSE One(RedirectNode(fds[1], fds[2], NoLocation), q))

RECURSIVE CommandParts(_, _, _), PipeParts(_, _, _)

CommandParts(s, cmd, p) ==
  CASE IsValidArgument(T(s, p)) ->
         Then(GetArgument(s, p, exprConfig(TRUE, TRUE, FALSE, TRUE)), LAMBDA arg, q :
           CommandParts(s, [cmd EXCEPT !.args = Append(@, arg)], q))
    [] T(s, p) = ">" ->
         Then(ParseRedirection(s, p + 1), LAMBDA redir, q :
           CommandParts(s, [cmd EXCEPT !.redirs = Append(@, redir)], q))
    [] OTHER -> IF T(s, p) = "+" THEN {} ELSE One(cmd, p)

CommandAt(s, p, multi) ==
  IF T(s, p) \notin Word THEN {}
  ELSE CommandParts(s, CommandNode(s[p].line, T(s, p), << >>, << >>, multi), p + 1)

(* p is behind a |. (Without a second command insidePipe stays set in the *)
(* code, see Parser; here a pipe ends with its statement.)                 *)
PipeParts(s, pipe, p) ==
  IF T(s, p) \notin Word THEN One(pipe, p)
  ELSE Then(CommandAt(s, p, FALSE), LAMBDA cmd, q :
         LET longer == [pipe EXCEPT !.cmds = Append(@, cmd)]
         IN  IF T(s, q) = "|" THEN PipeParts(s, longer, q + 1) ELSE One(longer, q))

Multi(s, p, node) == IF node.multi THEN Expect(s, p, ")", node) ELSE One(node, p)
Ended(s, p, node, depth) ==
  IF T(s, p) = "}" /\ depth > 0 THEN One(node, p) ELSE Expect(s, p, ";", node)

(* The line of a pipe is that of its first |, that of a command the one of *)
(* its name: the parenthesis before it may be on an earlier line.          *)
ParsePipe(s, first, p, depth) ==
  Then(PipeParts(s, PipeNode(s[p].line, <<[first EXCEPT !.multi = FALSE]>>, first.multi), p + 1),
       LAMBDA pipe, q :
         Then(Multi(s, q, pipe), LAMBDA node, r : Ended(s, r, node, depth)))

ParseCommand(s, p, depth) ==
  LET multi == T(s, p) = "("
  IN  Then(CommandAt(s, IF multi THEN p + 1 ELSE p, multi), LAMBDA cmd, q :
        CASE T(s, q) = "|" -> ParsePipe(s, cmd, q, depth)
          [] T(s, q) = "}" -> Ended(s, q, cmd, depth)
          [] OTHER -> Then(Multi(s, q, cmd), LAMBDA node, r : Expect(s, r, ";", node)))

-----------------------------------------------------------------------------
(* Assignments.                                                            *)

NoIndex == [k |-> "nil"]
NameNode(ident, index) == [k |-> "name", ident |-> ident, index |-> index]
AssignNode(line, names, values) ==
  [k |-> "assign", line |-> line, names |-> names, values |-> values]
ExecAssignNode(line, names, cmd) ==
  [k |-> "execassign", line |-> line, names |-> names, cmd |-> cmd]

RECURSIVE Names(_, _, _), Values(_, _, _)

(* A comma after the last name is forgiven. *)
Names(s, names, p) ==
  IF T(s, p) \notin Ident THEN One(names, p)
  ELSE Then(IF T(s, p + 1) = "[" THEN ParseIndexing(s, p + 2) ELSE One(NoIndex, p + 1),
            LAMBDA index, q :
              LET more == Append(names, NameNode(T(s, p), index))
              IN  IF T(s, q) = "," THEN Names(s, more, q + 1) ELSE One(more, q))

Values(s, values, p) ==
  LET More(value, q) ==
        LET more == Append(values, value)
        IN  IF T(s, q) = "," THEN Values(s, more, q + 1) ELSE One(more, q)
  IN  CASE T(s, p) = "(" -> Then(ParseList(s, p), More)
        [] IsExpr(T(s, p)) /\ T(s, p) # "(" ->
             Then(GetArgument(s, p, exprConfig(FALSE, FALSE, TRUE, TRUE)), More)
        [] OTHER -> One(values, p)

ParseAssignValues(s, line, names, p) ==
  Then(Values(s, << >>, p), LAMBDA values, q :
    IF Len(values) # Len(names) THEN {}
    ELSE Optional(s, q, ";", AssignNode(line, names, values)))

ParseAssignCmdOut(s, line, names, p, depth) ==
  Then(CASE T(s, p) = "(" -> ParseCommand(s, p, depth)
         [] T(s, p) \notin Word \cup Variable \cup {"("} -> {}
         [] OTHER -> IF T(s, p + 1) # "(" THEN ParseCommand(s, p, depth)
                     ELSE Then(ParseFnInv(s, p), LAMBDA n, q : Optional(s, q, ";", n)),
       LAMBDA exec, r : One(ExecAssignNode(line, names, exec), r))

ParseAssignment(s, p, depth) ==
  Then(Names(s, << >>, p), LAMBDA names, q :
    CASE T(s, q) = "="  -> ParseAssignValues(s, s[p].line, names, q + 1)
      [] T(s, q) = "<=" -> ParseAssignCmdOut(s, s[p].line, names, q + 1, depth)
      [] OTHER -> {})

-----------------------------------------------------------------------------
(* The other statements.                                                   *)

ImportNode(line, path) == [k |-> "import", line |-> line, path |-> path]
SetenvNode(line, name, assign) == [k |-> "setenv", line |-> line, name |-> name, assign |-> assign]
(* The declarations forget their position (ast/node.go:1078, 1102). *)
VarDeclNode(assign) ==
  [k |-> IF assign.k = "assign" THEN "varassign" ELSE "varexecassign", line |-> 0,
   assign |-> assign]
CommentNode(line, val) == [k |-> "comment", line |-> line, val |-> val]
BindFnNode(line, name, cmdname) ==
  [k |-> "bindfn", line |-> line, name |-> name, cmdname |-> cmdname]
ReturnNode(line, returns) == [k |-> "return", line |-> line, returns |-> returns]
RforkNode(line, flags, tree) == [k |-> "rfork", line |-> line, flags |-> flags, tree |-> tree]
IfNode(line, l, op, r, then, else, elseIf) ==
  [k |-> "if", line |-> line, lvalue |-> l, op |-> op, rvalue |-> r, ifTree |-> then,
   elseTree |-> else, elseIf |-> elseIf]
FnDeclNode(line, name, args, tree) ==
  [k |-> "fndecl", line |-> line, name |-> name, args |-> args, tree |-> tree]
ForNode(line, identifier, inExpr, tree) ==
  [k |-> "for", line |-> line, identifier |-> identifier, inExpr |-> inExpr, tree |-> tree]
NoAssign == [k |-> "nil"]
NoTree == << [k |-> "nil"] >>
NoName == ""

RECURSIVE ParseBlock(_, _, _, _), ParseIf(_, _, _), ParseReturns(_, _, _), FnArgs(_, _, _)

ParseImport(s, p) ==
  IF T(s, p + 1) \notin Word \cup String THEN {}
  ELSE Optional(s, p + 2, ";",
                ImportNode(s[p].line, StringExpr(T(s, p + 1), T(s, p + 1) \in String)))

ParseSetenv(s, p, depth) ==
  LET Node(assign, q) == One(SetenvNode(s[p].line, T(s, p + 1), assign), q)
  IN  CASE T(s, p + 1) \notin Ident -> {}
        [] T(s, p + 2) \in {"=", "<="} -> Then(ParseAssignment(s, p + 1, depth), Node)
        [] OTHER -> Then(Expect(s, p + 2, ";", NoAssign), Node)

ParseVar(s, p, depth) ==
  IF T(s, p + 1) \notin Ident \/ ~IsAssignment(T(s, p + 2)) THEN {}
  ELSE Then(ParseAssignment(s, p + 1, depth), LAMBDA assign, q : One(VarDeclNode(assign), q))

ParseBindFn(s, p) ==
  IF T(s, p + 1) \notin Ident \/ T(s, p + 2) \notin Ident THEN {}
  ELSE Optional(s, p + 3, ";", BindFnNode(s[p].line, T(s, p + 1), T(s, p + 2)))

ParseReturns(s, returns, p) ==
  LET More(value, q) ==
        LET more == Append(returns, value)
        IN  IF T(s, q) = "," THEN ParseReturns(s, more, q + 1)
            ELSE Optional(s, q, ";", more)
  IN  CASE T(s, p) = ";" -> One(returns, p + 1)
        [] T(s, p) = "}" -> One(returns, p)
        [] T(s, p) = "(" -> Then(ParseList(s, p), More)
        [] T(s, p) \in Ident ->
             Then(ParseFnInv(s, p), LAMBDA n, q :
               Then(Optional(s, q, ";", n), More))
        [] OTHER ->
             Then(GetArgument(s, p, exprConfig(FALSE, FALSE, TRUE, TRUE)), More)

ParseReturn(s, p) ==
  IF T(s, p + 1) \notin {";", "}", "("} \cup Variable \cup String \cup Ident THEN {}
  ELSE Then(ParseReturns(s, << >>, p + 1), LAMBDA returns, q :
         One(ReturnNode(s[p].line, returns), q))

(* A block in braces that belongs to a statement. *)
Braces(s, p, depth) ==
  Then(Expect(s, p, "{", "block"), LAMBDA b, q : ParseBlock(s, << >>, q, depth + 1))

ParseRfork(s, p, depth) ==
  IF T(s, p + 1) \notin Ident THEN {}
  ELSE Then(IF T(s, p + 2) = "{" THEN Braces(s, p + 2, depth) ELSE One(NoTree, p + 2),
            LAMBDA tree, q :
              Optional(s, q, ";", RforkNode(s[p].line, StringExpr(T(s, p + 1), FALSE), tree)))

ParseIfExpr(s, p) ==
  IF T(s, p) \notin Ident \cup String \cup Variable THEN {}
  ELSE GetArgument(s, p, exprConfig(FALSE, FALSE, TRUE, TRUE))

ParseElse(s, p, depth) ==
  IF T(s, p) # "else" THEN One(<<NoTree, FALSE>>, p)
  ELSE IF T(s, p + 1) = "if"
  THEN Then(ParseIf(s, p + 1, depth), LAMBDA n, q : One(<< <<n>>, TRUE>>, q))
  ELSE Then(Braces(s, p + 1, depth), LAMBDA tree, q : One(<<tree, FALSE>>, q))

ParseIf(s, p, depth) ==
  Then(ParseIfExpr(s, p + 1), LAMBDA l, q :
    IF T(s, q) \notin {"==", "!="} THEN {}
    ELSE Then(ParseIfExpr(s, q + 1), LAMBDA r, q2 :
           Then(Braces(s, q2, depth), LAMBDA then, q3 :
             Then(ParseElse(s, q3, depth), LAMBDA else, q4 :
               One(IfNode(s[p].line, l, T(s, q), r, then, else[1], else[2]), q4)))))

(* p is behind the parenthesis or a comma. *)
FnArgs(s, args, p) ==
  CASE T(s, p) = ")" /\ args = << >> -> One(args, p + 1)
    [] T(s, p) \in Ident ->
         Then(Dots(s, p + 1, TRUE), LAMBDA dots, q :
           LET more == Append(args, [name |-> T(s, p), variadic |-> dots])
           IN  CASE T(s, q) = "," -> FnArgs(s, more, q + 1)
                 [] OTHER -> Expect(s, q, ")", more))
    [] OTHER -> {}

ParseFnDecl(s, p, depth) ==
  LET named == T(s, p + 1) \in Ident
      paren == IF named THEN p + 2 ELSE p + 1
  IN  IF T(s, paren) # "(" THEN {}
      ELSE Then(FnArgs(s, << >>, paren + 1), LAMBDA args, q :
             Then(Braces(s, q, depth), LAMBDA tree, r :
               One(FnDeclNode(s[p + 1].line, IF named THEN T(s, p + 1) ELSE NoName,
                              args, tree), r)))

ParseFor(s, p, depth) ==
  LET Node(id, in, q) ==
        Then(Braces(s, q, depth), LAMBDA tree, r : One(ForNode(s[p].line, id, in, tree), r))
      InExpr(q) ==
        CASE IsFuncall(T(s, q), T(s, q + 1)) -> ParseFnInv(s, q)
          [] T(s, q) = "(" -> ParseList(s, q)
          [] OTHER -> IF T(s, q) \in Variable THEN ParseVariable(s, q, FALSE) ELSE {}
  IN  IF T(s, p + 1) \notin Ident THEN Node(NoName, NoIndex, p + 1)
      ELSE IF T(s, p + 2) # "in" THEN {}
      ELSE Then(InExpr(p + 3), LAMBDA in, q : Node(T(s, p + 1), in, q))

ParseStatement(s, p, depth) ==
  LET t == T(s, p)
  IN  CASE t = "import" -> ParseImport(s, p)
        [] t = "setenv" -> ParseSetenv(s, p, depth)
        [] t = "var"    -> ParseVar(s, p, depth)
        [] t = "bindfn" -> ParseBindFn(s, p)
        [] t = "return" -> ParseReturn(s, p)
        [] t = "rfork"  -> ParseRfork(s, p, depth)
        [] t = "if"     -> ParseIf(s, p, depth)
        [] t = "fn"     -> ParseFnDecl(s, p, depth)
        [] t = "for"    -> ParseFor(s, p, depth)
        [] t \in Comment -> One(CommentNode(s[p].line, t), p + 1)
        [] OTHER ->
             CASE IsFuncall(t, T(s, p + 1)) ->
                    Then(ParseFnInv(s, p), LAMBDA n, q : Optional(s, q, ";", n))
               [] t \in Ident /\ IsAssignment(T(s, p + 1)) -> ParseAssignment(s, p, depth)
               [] OTHER -> IF t \in Word \cup {"("} THEN ParseCommand(s, p, depth) ELSE {}

ParseBlock(s, nodes, p, depth) ==
  CASE T(s, p) = "EOF" -> IF depth = 0 THEN One(nodes, p) ELSE {}
    [] T(s, p) = "{"   -> {}
    [] T(s, p) = "}"   -> IF depth = 0 THEN {} ELSE One(nodes, p + 1)
    [] OTHER -> Then(ParseStatement(s, p, depth), LAMBDA node, q :
                  ParseBlock(s, Append(nodes, node), q, depth))

(* The tree of a text, in a set, or no tree. *)
Parse(text) == {r[1] : r \in ParseBlock(Lex(text), << >>, 1, 0)}

(* The same without positions. *)
Program(text) ==
  LET s == Lex(text)
      placeless == [n \in DOMAIN s |-> [s[n] EXCEPT !.line = 0]]
  IN  {r[1] : r \in ParseBlock(placeless, << >>, 1, 0)}
=============================================================================
