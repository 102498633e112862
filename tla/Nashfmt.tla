------------------------------ MODULE Nashfmt ------------------------------
(***************************************************************************)
(* The formatter (cmd/nashfmt/main.go), run on one file again and again:   *)
(* read, parse, print, and with -w write if the text is another one.       *)
(* WriteFile is one step: nothing else uses the file meanwhile, and a      *)
(* crash between its truncation and its write is left out.                 *)
(***************************************************************************)
EXTENDS Printer

CONSTANTS Texts,     \* the contents of the file to begin with
          MaxRuns    \* bound: runs that write

ASSUME NashfmtAssumption == MaxRuns \in Nat

VARIABLES
  file,        \* its text
  pc,          \* "start", "parse", "print" or "exit"
  overwrite,   \* -w
  content,     \* what ReadAll returned
  ast,         \* the tree that Parse returned
  first,       \* history: the text of the file before all runs
  runs         \* history: runs that wrote
vars == <<file, pc, overwrite, content, ast, first, runs>>

Init ==
  /\ file \in Texts
  /\ pc = "exit" /\ overwrite = FALSE
  /\ content = << >> /\ ast = << >>
  /\ first = file /\ runs = 0

Start ==
  /\ pc = "exit" /\ runs < MaxRuns
  /\ overwrite' \in BOOLEAN
  /\ content' = file
  /\ pc' = "parse"
  /\ UNCHANGED <<file, ast, first, runs>>

(* The program ends with an error if the text is not a program.            *)
ParseContent ==
  /\ pc = "parse"
  /\ LET trees == Parse(content)
     IN  IF trees = {} THEN pc' = "exit" /\ content' = << >> /\ UNCHANGED ast
         ELSE pc' = "print" /\ ast' \in trees /\ UNCHANGED content
  /\ UNCHANGED <<file, overwrite, first, runs>>

(* The end of a run: the text goes to the standard output, or is the       *)
(* content already. Two texts that are equal here may differ in spaces.    *)
Show ==
  /\ pc = "print"
  /\ overwrite => BlockString(ast) = content
  /\ pc' = "exit" /\ content' = << >> /\ ast' = << >>
  /\ UNCHANGED <<file, overwrite, first, runs>>

(* WriteFile and Fprintf, which ends the last line.                        *)
Rewrite ==
  /\ pc = "print" /\ overwrite
  /\ file' = Append(BlockString(ast), "\n")
  /\ runs' = runs + 1
  /\ pc' = "exit" /\ content' = << >> /\ ast' = << >>
  /\ UNCHANGED <<overwrite, first>>

Done ==
  /\ pc = "exit" /\ runs = MaxRuns
  /\ UNCHANGED vars

Next == Start \/ ParseContent \/ Show \/ Rewrite \/ Done

Spec == Init /\ [][Next]_vars

-----------------------------------------------------------------------------
(* What String is known to print as something else.                        *)

RECURSIVE ExprLost(_), NodeLost(_)

(* A list passed on as arguments, a bare word before a +, and a carriage   *)
(* return in quotes, which is printed as the escape that nobody reads.     *)
HasReturn(e) == e.quoted /\ e.str \in {q \o "\r" : q \in Quoted}
ExprLost(e) ==
  CASE e.k = "string" -> HasReturn(e)
    [] e.k = "list" -> e.variadic \/ \E n \in DOMAIN e.list : ExprLost(e.list[n])
    [] e.k = "concat" ->
         \E n \in DOMAIN e.parts :
           \/ ExprLost(e.parts[n])
           \/ n < Len(e.parts) /\ e.parts[n].k = "string" /\ ~e.parts[n].quoted
    [] e.k = "fninv" -> \E n \in DOMAIN e.args : ExprLost(e.args[n])
    [] OTHER -> FALSE

AnyLost(exprs) == \E n \in DOMAIN exprs : ExprLost(exprs[n])

(* A descriptor redirected to itself. *)
RedirectLost(r) ==
  \/ r.lfd = r.rfd /\ r.lfd # "none"
  \/ r.location # NoLocation /\ ExprLost(r.location)

(* Three values, and a function without a name.                            *)
NodeLost(n) ==
  LET Some(nodes) == \E i \in DOMAIN nodes : NodeLost(nodes[i])
  IN  CASE n.k = "command" -> \/ AnyLost(n.args)
                              \/ \E i \in DOMAIN n.redirs : RedirectLost(n.redirs[i])
        [] n.k = "pipe"    -> Some(n.cmds)
        [] n.k = "assign"  -> Len(n.values) > 2 \/ AnyLost(n.values)
        [] n.k = "execassign" -> NodeLost(n.cmd)
        [] n.k \in {"varassign", "varexecassign", "setenv"} -> NodeLost(n.assign)
        [] n.k = "fninv"  -> ExprLost(n)
        [] n.k = "return" -> AnyLost(n.returns)
        [] n.k = "import" -> ExprLost(n.path)
        [] n.k = "rfork"  -> Some(n.tree)
        [] n.k = "fndecl" -> n.name = NoName \/ Some(n.tree)
        [] n.k = "for"    -> ExprLost(n.inExpr) \/ Some(n.tree)
        [] n.k = "if"     -> \/ ExprLost(n.lvalue) \/ ExprLost(n.rvalue)
                             \/ Some(n.ifTree) \/ Some(n.elseTree)
        [] OTHER -> FALSE

Lost(text) == \E nodes \in Program(text) : \E i \in DOMAIN nodes : NodeLost(nodes[i])

(* However often a file is formatted it holds the same program: its tree   *)
(* without positions is the tree it had before.                            *)
KeepsProgram == pc = "exit" => Program(file) = Program(first) \/ Lost(first)

(* Two runs are enough: the third finds nothing to change. (One is not:    *)
(* the line behind a comment moves when a command is broken into lines.)   *)
Settles == [][runs >= 2 /\ file' # file => Lost(first)]_vars
=============================================================================
