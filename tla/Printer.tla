------------------------------ MODULE Printer ------------------------------
(***************************************************************************)
(* The text of a tree (ast/node_fmt.go): the String methods of the nodes,  *)
(* as functions into the texts that Reader reads.  Spaces, tabs and the    *)
(* alignment of = are left out: what a space keeps apart are two lexemes,  *)
(* and where the code leaves it out the lexer sees one (Glue).  A length   *)
(* is counted in lexemes instead of bytes.                                 *)
(***************************************************************************)
EXTENDS Reader, SequencesExt

CONSTANTS
  Width,     \* of a line, 50 in the code
  Dashed,    \* the arguments that start with a minus sign
  Shebang    \* the comments that start with #!

ASSUME PrinterAssumption == Width \in Nat /\ Dashed \subseteq Arg /\ Shebang \subseteq Comment

(* strings.Join; the parts with a space, a newline or a comma between them. *)
RECURSIVE Join(_, _)
Join(parts, separator) ==
  CASE Len(parts) = 0 -> << >>
    [] Len(parts) = 1 -> parts[1]
    [] OTHER -> parts[1] \o separator \o Join(Tail(parts), separator)
Spaces(parts) == Join(parts, << >>)
Lines(parts) == Join(parts, <<"\n">>)
Commas(parts) == Join(parts, <<",">>)

(* Lengths: of the parts, and one more for each.                           *)
Columns(parts) == Len(Spaces(parts)) + Len(parts)

-----------------------------------------------------------------------------
(* Expressions.                                                            *)

RECURSIVE ExprString(_)
ExprStrings(exprs) == [n \in DOMAIN exprs |-> ExprString(exprs[n])]

MultiList(list) ==
  \/ \E n \in DOMAIN list : list[n].k = "list"
  \/ Columns(ExprStrings(list)) > Width

ListString(l) ==
  LET elems == ExprStrings(l.list)
  IN  IF MultiList(l.list) THEN <<"(", "\n">> \o Lines(elems) \o <<"\n", ")">>
      ELSE <<"(">> \o Spaces(elems) \o <<")">>

(* No spaces around the +: what ends in a bare word takes it, and the bare *)
(* word behind it.                                                         *)
Glue(text, part) ==
  LET last == text[Len(text)]
      front == SubSeq(text, 1, Len(text) - 1)
  IN  IF last \notin Word \cup Number THEN text \o <<"+">> \o part
      ELSE IF part[1] \in Word \cup Number THEN front \o <<last \o "+" \o part[1]>> \o Tail(part)
      ELSE front \o <<last \o "+">> \o part

ConcatString(c) ==
  LET parts == ExprStrings(c.parts)
  IN  FoldLeft(Glue, parts[1], Tail(parts))

FnInvString(n) == <<n.name, "(">> \o Commas(ExprStrings(n.args)) \o <<")">>
Variadic(e) == IF e.variadic THEN <<"...">> ELSE << >>

(* The escapes of the characters that may end a string. *)
stringify(str) ==
  IF str \in Quoted THEN str
  ELSE LET cut == CHOOSE c \in Quoted \X Control : str = c[1] \o c[2]
       IN  cut[1] \o (IF cut[2] = "\t" THEN "\\t" ELSE "\\r")

ExprString(e) ==
  CASE e.k = "string" -> <<IF e.quoted THEN stringify(e.str) ELSE e.str>>
    [] e.k = "int"    -> <<e.val>>
    [] e.k = "var"    -> <<e.name>> \o Variadic(e)
    [] e.k = "index"  -> <<e.name, "[">> \o ExprString(e.index) \o <<"]">> \o Variadic(e)
    [] e.k = "list"   -> ListString(e)
    [] e.k = "concat" -> ConcatString(e)
    [] e.k = "fninv"  -> FnInvString(e)

-----------------------------------------------------------------------------
(* Commands and pipes.                                                     *)

RedirectString(r) ==
  LET location == IF r.location = NoLocation THEN << >> ELSE ExprString(r.location)
      right == CASE r.rfd = "none" -> << >>
                 [] r.rfd = "suppress" -> <<"=">>
                 [] OTHER -> <<"=", r.rfd>>
  IN  IF r.lfd = r.rfd
      THEN IF r.location = NoLocation THEN << >> ELSE <<">">> \o location
      ELSE <<">", "[", r.lfd>> \o right \o <<"]">> \o location

RedirectStrings(c) == [n \in DOMAIN c.redirs |-> RedirectString(c.redirs[n])]
StartsDash(text) == text # << >> /\ text[1] \in Dashed

(* The arguments, the name before the first, and two by two. *)
Words(c) ==
  [n \in DOMAIN c.args |-> (IF n = 1 THEN <<c.name>> ELSE << >>) \o ExprString(c.args[n])]
Pairs(words) ==
  [i \in 1 .. (Len(words) + 1) \div 2 |->
     <<words[2 * i - 1], IF 2 * i <= Len(words) THEN words[2 * i] ELSE << >> >>]

Flush(parts) == IF parts.line = << >> THEN parts.content ELSE Append(parts.content, parts.line)

\* Mutant: the arguments before a flag are not flushed.
PutPairOverLine(parts, pair) ==
  IF ~StartsDash(pair[1]) THEN [parts EXCEPT !.line = @ \o pair[1] \o pair[2]]
  ELSE IF pair[2] # << >> /\ ~StartsDash(pair[2])
  THEN [content |-> parts.content, line |-> pair[1] \o pair[2]]
  ELSE [content |-> parts.content \o pair, line |-> << >>]

(* A flag begins a line, and keeps the next argument unless that is a      *)
(* flag, too.                                                              *)
PutPair(parts, pair) ==
  IF ~StartsDash(pair[1]) THEN [parts EXCEPT !.line = @ \o pair[1] \o pair[2]]
  ELSE IF pair[2] # << >> /\ ~StartsDash(pair[2])
  THEN [content |-> Flush(parts), line |-> pair[1] \o pair[2]]
  ELSE [content |-> Flush(parts) \o pair, line |-> << >>]

(* What goes on a line of its own if the command takes several lines.      *)
toStringParts(c) ==
  (IF c.args = << >> THEN << <<c.name>> >>
   ELSE Flush(FoldLeft(PutPair, [content |-> << >>, line |-> << >>], Pairs(Words(c)))))
  \o RedirectStrings(c)

EachJoined(parts) == [i \in DOMAIN parts |-> Spaces(parts[i])]

(* The texts whose lengths, and one for each, are the length of a command. *)
Counted(c) == EachJoined(Pairs(Words(c))) \o RedirectStrings(c)

CommandOnALine(c) ==
  <<c.name>> \o Spaces(ExprStrings(c.args)) \o Spaces(RedirectStrings(c))

CommandString(c) ==
  IF ~c.multi THEN CommandOnALine(c)
  ELSE IF Columns(Counted(c)) < Width THEN <<"(">> \o Spaces(toStringParts(c)) \o <<")">>
  ELSE <<"(", "\n">> \o Lines(toStringParts(c)) \o <<"\n", ")">>

PipeString(n) ==
  IF ~n.multi THEN Join([i \in DOMAIN n.cmds |-> CommandString(n.cmds[i])], <<"|">>)
  ELSE IF Columns(Spaces([i \in DOMAIN n.cmds |-> Counted(n.cmds[i])])) + 3 < Width
  THEN <<"(">> \o Join(EachJoined([i \in DOMAIN n.cmds |-> toStringParts(n.cmds[i])]), <<"|">>)
       \o <<")">>
  ELSE <<"(", "\n">>
       \o Join([i \in DOMAIN n.cmds |-> Lines(toStringParts(n.cmds[i]))], <<"|", "\n">>)
       \o <<"\n", ")">>

-----------------------------------------------------------------------------
(* Statements and blocks.                                                  *)

RECURSIVE NodeString(_), BlockString(_)

NameString(n) ==
  IF n.index = NoIndex THEN <<n.ident>> ELSE <<n.ident, "[">> \o ExprString(n.index) \o <<"]">>
getlhs(n) == Commas([i \in DOMAIN n.names |-> NameString(n.names[i])])

(* Between the first and the last value commas come twice.                 *)
ValuesString(values) ==
  LET Value(n) ==
        CASE n = 1 -> ExprString(values[n])
          [] n > 1 /\ n < Len(values) -> <<",">> \o ExprString(values[n]) \o <<",">>
          [] OTHER -> <<",">> \o ExprString(values[n])
  IN  Spaces([n \in DOMAIN values |-> Value(n)])

AssignString(n) == getlhs(n) \o <<"=">> \o ValuesString(n.values)
ExecAssignString(n) == getlhs(n) \o <<"<=">> \o NodeString(n.cmd)

(* What string() says of an assignment beside the text.                    *)
IsMultiAssign(n) ==
  CASE n.k = "assign" -> \E i \in DOMAIN n.values :
                           n.values[i].k = "list" /\ MultiList(n.values[i].list)
    [] n.k = "execassign" -> n.cmd.k # "fninv" /\ n.cmd.multi

(* An empty block leaves an empty line between the braces. *)
InBraces(tree) == <<"{", "\n">> \o BlockString(tree) \o <<"\n", "}">>

RforkString(n) ==
  <<"rfork">> \o ExprString(n.flags) \o (IF n.tree = NoTree THEN << >> ELSE InBraces(n.tree))

IfString(n) ==
  <<"if">> \o ExprString(n.lvalue) \o <<n.op>> \o ExprString(n.rvalue) \o InBraces(n.ifTree)
  \o CASE n.elseTree = NoTree -> << >>
       [] n.elseIf -> <<"else">> \o BlockString(n.elseTree)
       [] OTHER -> <<"else">> \o InBraces(n.elseTree)

(* Without a name there is no parenthesis and no space behind the fn.      *)
FnDeclString(n) ==
  LET args == Commas([i \in DOMAIN n.args |-> <<n.args[i].name>> \o Variadic(n.args[i])])
      head == IF n.name # NoName THEN <<"fn", n.name, "(">> \o args
              ELSE IF args = << >> THEN <<"fn">>
              ELSE <<"fn" \o args[1]>> \o Tail(args)
  IN  head \o <<")">> \o InBraces(n.tree)

ForString(n) ==
  <<"for">>
  \o (IF n.identifier = NoName THEN << >> ELSE <<n.identifier, "in">> \o ExprString(n.inExpr))
  \o InBraces(n.tree)

SetenvString(n) ==
  <<"setenv">> \o (IF n.assign = NoAssign THEN <<n.name>> ELSE NodeString(n.assign))
ReturnString(n) == <<"return">> \o Commas(ExprStrings(n.returns))

NodeString(n) ==
  CASE n.k = "command"    -> CommandString(n)
    [] n.k = "pipe"       -> PipeString(n)
    [] n.k = "fninv"      -> FnInvString(n)
    [] n.k = "assign"     -> AssignString(n)
    [] n.k = "execassign" -> ExecAssignString(n)
    [] n.k \in {"varassign", "varexecassign"} -> <<"var">> \o NodeString(n.assign)
    [] n.k = "import"     -> <<"import">> \o ExprString(n.path)
    [] n.k = "setenv"     -> SetenvString(n)
    [] n.k = "comment"    -> <<n.val>>
    [] n.k = "bindfn"     -> <<"bindfn", n.name, n.cmdname>>
    [] n.k = "return"     -> ReturnString(n)
    [] n.k = "rfork"      -> RforkString(n)
    [] n.k = "if"         -> IfString(n)
    [] n.k = "fndecl"     -> FnDeclString(n)
    [] n.k = "for"        -> ForString(n)

\* Mutant: the test for lines that are apart is turned round.
AddEOLUnlessApart(nodes, i) ==
  LET node == nodes[i]
      next == nodes[i + 1]
  IN  i < Len(nodes) /\ IF node.k = "comment" THEN next.line < node.line + 2
                        ELSE node.k # next.k

(* An empty line behind statement i of a block.                            *)
AddEOL(nodes, i) ==
  LET node == nodes[i]
      next == nodes[i + 1]
      last == Len(nodes)
  IN  \/ i = 1 /\ node.k = "comment" /\ node.val \in Shebang
      \/ i < last /\ node.k = "comment" /\ next.line > node.line + 1
      \/ /\ i < last /\ node.k # "comment"
         /\ \/ node.k # next.k
            \/ node.k = "fndecl"
            \/ node.k \in {"assign", "execassign"} /\ IsMultiAssign(node)

BlockString(nodes) ==
  Lines([i \in DOMAIN nodes |->
           NodeString(nodes[i]) \o (IF AddEOL(nodes, i) THEN <<"\n">> ELSE << >>)])
=============================================================================
