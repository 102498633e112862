------------------------------- MODULE Scopes -------------------------------
(***************************************************************************)
(* The variables of nash (internal/sh/shell.go).  A call of a function     *)
(* runs in a shell of its own whose parent is the shell that declared the  *)
(* function, so a shell may outlive its call.  Declarations are local, an  *)
(* assignment goes to the nearest shell that has the name, setenv to the   *)
(* root, and a list is shared by all that hold it.                         *)
(*                                                                         *)
(* A program is not given: each statement is chosen when it is reached. A  *)
(* statement that fails ends the calls around it, and the root shell goes  *)
(* on with the next program of the session.                                *)
(***************************************************************************)
EXTENDS Values

CONSTANTS
  Names,         \* the variables
  Param,         \* the name of the parameter of every function
  NodeRows,      \* the names, or elements, a statement of the programs sets
  ExprRows,      \* the expressions it sets them to
  MaxStatements, \* bound: statements executed
  MaxCalls       \* bound: calls of functions

NoIndex == -1

(* A variable or an element of one. *)
Node(x) == [id |-> x, idx |-> NoIndex]
ElemNode(x, i) == [id |-> x, idx |-> i]

Nodes == [id : Names, idx : Nat \cup {NoIndex}]

(* Expressions: a value (a string, or what was computed before), a         *)
(* variable, an element of it, a list of strings.                          *)
Expr(kind, id, idx, strs, val) ==
  [kind |-> kind, id |-> id, idx |-> idx, strs |-> strs, val |-> val]
ValExpr(v) == Expr("val", Param, NoIndex, << >>, v)
StrExpr(s) == ValExpr(Str(s))
VarExpr(x) == Expr("var", x, NoIndex, << >>, Unset)
ElemExpr(x, i) == Expr("elem", x, i, << >>, Unset)
ListExpr(s) == Expr("list", Param, NoIndex, s, Unset)
Exprs == [kind : {"val", "var", "elem", "list"}, id : Names, idx : Nat \cup {NoIndex},
          strs : Seq(Strings), val : Vals]

(* The parser accepts no empty row, and no program names an array.         *)
ASSUME ScopesAssumption ==
  /\ Param \in Names
  /\ NodeRows \subseteq Seq(Nodes) \ {<< >>}
  /\ ExprRows \subseteq Seq(Exprs) \ {<< >>}
  /\ \A es \in ExprRows : \A n \in DOMAIN es :
       /\ es[n].kind = "elem" => es[n].idx \in Nat
       /\ es[n].kind = "val" => es[n].val.type = "str"
  /\ MaxStatements \in Nat /\ MaxCalls \in Nat

VARIABLES
  shells,    \* all shells: parent (0 for the root, which is 1) and variables
  stack,     \* the calls: the shell, the form of the statement it is in,
             \* the names that statement gives the results to
  env,       \* the environment of the root shell
  heap,      \* the arrays of the lists
  executed   \* statements so far
vars == <<shells, stack, env, heap, executed>>

Root == 1
NoVars == [x \in Names |-> Unset]
Frame(s, form, nodes) == [shell |-> s, form |-> form, nodes |-> nodes]

Init ==
  /\ shells = <<[parent |-> 0, vars |-> NoVars]>>
  /\ stack = <<Frame(Root, "none", << >>)>>
  /\ env = NoVars
  /\ heap = << >>
  /\ executed = 0

Top == stack[Len(stack)]
Cur == Top.shell

-----------------------------------------------------------------------------
(***************************************************************************)
(* What statements do to the shells, the heap and the environment.         *)
(***************************************************************************)
World == [shells |-> shells, heap |-> heap, env |-> env, ok |-> TRUE, modelled |-> TRUE]
Fail(w) == [w EXCEPT !.ok = FALSE]

(* Cells hold strings: a statement that puts another value in a list is no *)
(* step of the model.                                                      *)
NotModelled(w) == [w EXCEPT !.modelled = FALSE]

(* A shell and the ones around it. Parents are older than their children. *)
Chain(sh, s) ==
  LET chain[k \in 0 .. Len(sh)] == IF k = 0 THEN {} ELSE {k} \cup chain[sh[k].parent]
  IN  chain[s]

(* The nearest shell that has the name, 0 if none has: in a chain it is the *)
(* youngest.                                                               *)
Youngest(ks) == IF ks = {} THEN 0 ELSE CHOOSE k \in ks : \A j \in ks : j <= k
\* Mutant: any shell has, the youngest first.
OwnerAnywhere(sh, s, x) == Youngest({k \in DOMAIN sh : sh[k].vars[x] # Unset})
Owner(sh, s, x) == Youngest({k \in Chain(sh, s) : sh[k].vars[x] # Unset})

VarOf(w, k, x) == IF k = 0 THEN Unset ELSE w.shells[k].vars[x]
Getvar(w, s, x) == VarOf(w, Owner(w.shells, s, x), x)

Newvar(w, s, x, v) == [w EXCEPT !.shells[s].vars[x] = v]

Setvar(w, s, x, v) ==
  LET k == Owner(w.shells, s, x) IN IF k = 0 THEN Fail(w) ELSE Newvar(w, k, x, v)

(* Any shell asks the root. *)
Setenv(w, x, v) == [Newvar(w, Root, x, v) EXCEPT !.env[x] = v]

(* The variable of the shell itself is exported. *)
Export(w, s, x) ==
  LET v == w.shells[s].vars[x] IN IF v = Unset THEN Fail(w) ELSE Setenv(w, x, v)

(* An element is written where the list is, whoever holds it. *)
PutElement(w, s, node, v) ==
  LET obj == Getvar(w, s, node.id)
  IN  IF ~Writable(obj, node.idx) THEN Fail(w)
      ELSE IF v.type # "str" THEN NotModelled(w)
      ELSE [w EXCEPT !.heap = Put(w.heap, obj, node.idx, v.str)]

NewNode(w, s, node, v) ==
  IF node.idx = NoIndex THEN Newvar(w, s, node.id, v)
  ELSE LET put == PutElement(w, s, node, v)
       IN  IF put.ok THEN Newvar(put, s, node.id, Getvar(w, s, node.id)) ELSE put

SetNode(w, s, node, v) ==
  IF node.idx = NoIndex THEN Setvar(w, s, node.id, v)
  ELSE LET put == PutElement(w, s, node, v)
       IN  IF put.ok THEN Setvar(put, s, node.id, Getvar(w, s, node.id)) ELSE put

\* Mutant: what is exported is looked up before the name is declared.
SetenvNodeStale(w, s, node, v) ==
  LET new == NewNode(w, s, node, v)
      old == Getvar(w, s, node.id)
  IN  IF new.ok THEN Setenv(new, node.id, IF old = Unset THEN v ELSE old) ELSE new

(* setenv with an assignment declares the name in this shell first. *)
SetenvNode(w, s, node, v) ==
  LET new == NewNode(w, s, node, v) IN IF new.ok THEN Export(new, s, node.id) ELSE new

-----------------------------------------------------------------------------
(* The value of an expression, and the world with the list it makes.       *)
Eval(w, s, e) ==
  LET obj  == Getvar(w, s, e.id)
      made == NewList(w.heap, e.strs)
  IN  CASE e.kind = "val"  -> [w |-> w, val |-> e.val]
        [] e.kind = "list" -> [w |-> [w EXCEPT !.heap = made.heap], val |-> made.val]
        [] e.kind = "var"  -> [w |-> IF obj = Unset THEN Fail(w) ELSE w, val |-> obj]
        [] e.kind = "elem" ->
             IF HasIndex(obj, e.idx)
             THEN [w |-> w, val |-> Str(Get(w.heap, obj, e.idx))]
             ELSE [w |-> Fail(w), val |-> Unset]

(* Values of several expressions: evaluation stops at the first that fails.*)
EvalAll(w, s, es) ==
  LET vals[n \in 0 .. Len(es)] ==
        IF n = 0 THEN [w |-> w, vals |-> << >>]
        ELSE LET before == vals[n - 1]
                 this   == Eval(before.w, s, es[n])
             IN  IF ~before.w.ok THEN before
                 ELSE [w |-> this.w, vals |-> Append(before.vals, this.val)]
  IN  vals[Len(es)]

(* What is done with a name and its value: the three forms of an           *)
(* assignment, the declaration of a result, which goes on after an element *)
(* it cannot write, and the export of what was assigned.                   *)
SetOne(w, s, how, node, v) ==
  CASE how = "var"     -> NewNode(w, s, node, v)
    [] how = "set"     -> SetNode(w, s, node, v)
    [] how = "setenv"  -> SetenvNode(w, s, node, v)
    [] how = "newvars" -> [NewNode(w, s, node, v) EXCEPT !.ok = TRUE]
    [] how = "export"  -> Export(w, s, node.id)

Turn(w, s, how, node, e) ==
  LET this == Eval(w, s, e)
  IN  IF this.w.ok THEN SetOne(this.w, s, how, node, this.val) ELSE this.w

(* One name after the other, up to the first that fails. Each value is     *)
(* computed after the names before it were set.                            *)
InTurn(w, s, how, nodes, es) ==
  LET done[n \in 0 .. Len(nodes)] ==
        IF n = 0 THEN w
        ELSE IF ~done[n - 1].ok THEN done[n - 1]
        ELSE Turn(done[n - 1], s, how, nodes[n], es[n])
  IN  done[Len(nodes)]

(* The names get the results of a call: nothing is given when they are not *)
(* as many.                                                                *)
Give(w, s, form, nodes, vals) ==
  LET es  == [n \in DOMAIN vals |-> ValExpr(vals[n])]
      set == InTurn(w, s, "set", nodes, es)
  IN  CASE form = "none" -> w
        [] form # "none" /\ Len(nodes) # Len(vals) -> Fail(w)
        [] form = "var" /\ Len(nodes) = Len(vals) -> InTurn(w, s, "newvars", nodes, es)
        [] form = "set" /\ Len(nodes) = Len(vals) -> set
        [] form = "setenv" /\ Len(nodes) = Len(vals) ->
             IF set.ok THEN InTurn(set, s, "export", nodes, es) ELSE set

-----------------------------------------------------------------------------
(***************************************************************************)
(* Statements                                                              *)
(***************************************************************************)

(* What a statement made of the world; if it failed the calls are over,    *)
(* and what it did before it failed stays.                                 *)
\* Mutant: the calls go on.
ExecutedGoingOn(w, calls) ==
  /\ w.modelled
  /\ executed' = executed + 1
  /\ shells' = w.shells /\ heap' = w.heap /\ env' = w.env
  /\ stack' = calls
Executed(w, calls) ==
  /\ w.modelled
  /\ executed' = executed + 1
  /\ shells' = w.shells /\ heap' = w.heap /\ env' = w.env
  /\ stack' = IF w.ok THEN calls ELSE SubSeq(stack, 1, 1)

(* As many values as names, or the program is not parsed. *)
Statement(how, nodes, es) ==
  Len(nodes) = Len(es) /\ Executed(InTurn(World, Cur, how, nodes, es), stack)

VarAssign(nodes, es) == Statement("var", nodes, es)
Assign(nodes, es) == Statement("set", nodes, es)
SetenvAssign(nodes, es) == Statement("setenv", nodes, es)

SetenvName(x) ==
  LET v == Getvar(World, Cur, x)
  IN  Executed(IF v = Unset THEN Fail(World) ELSE Setenv(World, x, v), stack)

FnDecl(x, variadic) == Executed(Newvar(World, Cur, x, Fn(Cur, variadic)), stack)

(* SetArgs: a function has one parameter, which takes one argument or, if  *)
(* it is variadic, all there are (two at most) as a list without room.     *)
Arguments(w, fn, vals) ==
  LET strs == [n \in DOMAIN vals |-> vals[n].str]
      made == NewList(w.heap, strs)
      variadic == fn.len = 1
  IN  IF variadic /\ \E n \in DOMAIN vals : vals[n].type # "str"
      THEN [w |-> NotModelled(w), val |-> Unset]
      ELSE IF variadic THEN [w |-> [w EXCEPT !.heap = made.heap], val |-> made.val]
      ELSE IF Len(vals) = 1 THEN [w |-> w, val |-> vals[1]]
      ELSE [w |-> Fail(w), val |-> Unset]

(* The shell of a call has the parameter and the shell that declared the   *)
(* function as its parent. Once it failed there is no call.                *)
Call(x, es, form, nodes) ==
  LET fn   == Getvar(World, Cur, x)
      vals == EvalAll(World, Cur, es)
      args == Arguments(vals.w, fn, vals.vals)
      new  == [parent |-> fn.ref, vars |-> [NoVars EXCEPT ![Param] = args.val]]
  IN  /\ Len(shells) <= MaxCalls
      /\ Executed(IF fn.type # "fn" THEN Fail(World)
                  ELSE IF ~vals.w.ok THEN vals.w
                  ELSE IF ~args.w.ok THEN args.w
                  ELSE [args.w EXCEPT !.shells = Append(@, new)],
                  Append(stack, Frame(Len(shells) + 1, form, nodes)))

(* The values are computed in the function and given in its caller. *)
Return(es) ==
  LET caller == stack[Len(stack) - 1]
      vals   == EvalAll(World, Cur, es)
  IN  /\ Len(stack) > 1
      /\ Executed(IF vals.w.ok
                  THEN Give(vals.w, caller.shell, Top.form, Top.nodes, vals.vals)
                  ELSE vals.w,
                  SubSeq(stack, 1, Len(stack) - 1))

(* x <= append($list, "a", ...): a call that needs no shell. *)
AppendCall(x, es, form, nodes) ==
  LET list == Getvar(World, Cur, x)
      args == EvalAll(World, Cur, es)
      strs == [n \in DOMAIN args.vals |-> args.vals[n].str]
      more == AppendList(args.w.heap, list, strs)
  IN  Executed(IF list = Unset THEN Fail(World)
               ELSE IF ~args.w.ok THEN args.w
               ELSE IF list.type # "list" THEN Fail(args.w)
               ELSE IF \E n \in DOMAIN args.vals : args.vals[n].type # "str"
               THEN NotModelled(args.w)
               ELSE Give([args.w EXCEPT !.heap = more.heap], Cur, form, nodes, <<more.val>>),
               stack)

(* out, status <= command: alone, the output needs a command that succeeds;*)
(* with a status the failure of the command is not one of the statement.   *)
(* What three names get is a matter of Capture.                            *)
CmdAssign(form, nodes, fails) ==
  LET vals == <<Str("o"), Str(IF fails THEN "1" ELSE "0")>>
  IN  /\ Len(nodes) <= 2
      /\ Executed(IF fails /\ Len(nodes) = 1 THEN Fail(World)
               ELSE Give(World, Cur, form, nodes, SubSeq(vals, 1, Len(nodes))),
                  stack)

-----------------------------------------------------------------------------
(* What becomes of the results of a call. *)
Targets == {<<"none", << >>>>} \cup ({"var", "set", "setenv"} \X NodeRows)
ArgRows == ExprRows \cup {<< >>}

(* The programs go on up to the bound. *)
Bounded(S) == IF executed < MaxStatements THEN S ELSE {}

AppendAny ==
  \E x \in Bounded(Names), es \in ExprRows, t \in Targets :
    AppendCall(x, es, t[1], t[2])

Next ==
  \/ \E nodes \in Bounded(NodeRows), es \in ExprRows :
       VarAssign(nodes, es) \/ Assign(nodes, es) \/ SetenvAssign(nodes, es)
  \/ \E form \in {"var", "set", "setenv"}, nodes \in Bounded(NodeRows), fails \in BOOLEAN :
       CmdAssign(form, nodes, fails)
  \/ \E x \in Bounded(Names) : SetenvName(x) \/ \E variadic \in BOOLEAN : FnDecl(x, variadic)
  \/ \E x \in Bounded(Names), es \in ArgRows, t \in Targets : Call(x, es, t[1], t[2])
  \/ \E es \in Bounded(ArgRows) : Return(es)
  \/ AppendAny

Spec == Init /\ [][Next]_vars

-----------------------------------------------------------------------------
ValueOK(v) ==
  CASE v.type = "list" -> v.ref \in DOMAIN heap /\ v.len \in 0 .. Len(heap[v.ref])
    [] v.type = "fn"   -> v.ref \in DOMAIN shells
    [] OTHER           -> v.type \in {"none", "str"}

(* The values of all variables, exported ones included. *)
Values_ == (UNION {{shells[k].vars[x] : x \in Names} : k \in DOMAIN shells})
             \cup {env[x] : x \in Names}

TypeOK ==
  /\ \A k \in DOMAIN shells : shells[k].parent \in IF k = Root THEN {0} ELSE 1 .. k - 1
  /\ \A n \in DOMAIN stack : stack[n].shell \in DOMAIN shells
  /\ stack # << >> /\ stack[1].shell = Root
  /\ \A v \in Values_ : ValueOK(v)
  /\ executed \in 0 .. MaxStatements

(* What setenv exports is what its shell sees under that name afterwards,  *)
(* whatever its own and other variables of that name were before.          *)
ExportsWhatItSees ==
  [][\A x \in Names : env'[x] # env[x] => env'[x] = Getvar(World', Cur', x)]_vars

(* The shells whose names a step of the program can use: those around the  *)
(* current one, and around its caller when it returns.                     *)
InReach == Chain(shells, Cur) \cup (IF Len(stack') < Len(stack)
                                    THEN Chain(shells, stack[Len(stack) - 1].shell) ELSE {})

(* A function can change no variable of its caller, and no list it was not *)
(* given, unless it was declared there (NewSubShell).                      *)
CallerIsPrivate ==
  [][/\ \A k \in DOMAIN shells \ InReach : shells'[k] = shells[k]
     /\ \A a \in DOMAIN heap :
          heap'[a] # heap[a] =>
            \E k \in InReach, x \in Names :
              shells[k].vars[x].type = "list" /\ shells[k].vars[x].ref = a]_vars

(* The results of a function reach the variables of its caller, also when  *)
(* both have variables of that name, or the call was made by a function    *)
(* declared elsewhere.                                                     *)
ResultsReachCaller ==
  [][\A es \in ExprRows :
       LET node == Top.nodes[1]
           caller == stack[Len(stack) - 1].shell
           given == Eval(World, Cur, es[1])
       IN  (/\ Len(stack) > 1 /\ Len(stack') < Len(stack)
            /\ Len(es) = 1 /\ Len(Top.nodes) = 1 /\ node.idx = NoIndex
            /\ \/ Top.form = "var"
               \/ Top.form = "set" /\ Getvar(World, caller, node.id) # Unset
            /\ given.w.ok
            /\ Return(es))
           => Getvar(World', caller, node.id) = given.val]_vars

(* docs/reference.md:245: append appends one element to the end of a list  *)
(* and returns the updated list, so the other lists stay what they are.    *)
AppendKeepsLists ==
  [][AppendAny =>
       \A k \in DOMAIN shells, x \in Names :
         LET v == shells[k].vars[x]
         IN  v.type = "list" /\ shells'[k].vars[x] = v
               => Contents(heap', v) = Contents(heap, v)]_vars
=============================================================================
