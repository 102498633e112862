----------------------------- MODULE ShellProofs -----------------------------
(***************************************************************************)
(* Theorems about the shell that the user talks to: the interactive loop   *)
(* (Repl), for any number of lines, and the variables of the programs it   *)
(* runs (Scopes), for all names, statements, bounds and depths of calls.   *)
(*                                                                         *)
(* For Scopes the invariant is that every reference is Sound and that      *)
(* shells form a tree.  What a statement does is compared with the world o *)
(* before it: what it makes of o stays Within the shells R whose names it  *)
(* can use.  Each operation on a world is shown to keep both (Good) once,  *)
(* and the statements are put together from those lemmas.                  *)
(***************************************************************************)
EXTENDS Repl, Scopes, SequenceTheorems, WellFoundedInduction, TLAPS

-----------------------------------------------------------------------------
(***************************************************************************)
(* Repl                                                                    *)
(***************************************************************************)

\* Does the turn of nash_repl_after come next?
AfterIsNext == pc \in {"read", "cont"} \/ (pc = "loop" /\ unfinished)

\* The hook called last is the one whose turn came last, if neither was missed.
HookInv ==
  /\ AfterIsNext => missed \/ lastHook = "before"
  /\ pc = "loop" /\ ~unfinished => missed \/ lastHook # "before"

LoopInv == PendingIsUnfinished /\ HookInv

LEMMA InitLoopInv == ReplInit => LoopInv
BY DEF ReplInit, LoopInv, PendingIsUnfinished, HookInv, AfterIsNext

\* The lines kept are those of an unfinished program: they grow only by a line
\* that leaves it unfinished, and are dropped by every other line of code.
LEMMA PendingStep ==
  ASSUME PendingIsUnfinished, [ReplNext]_replVars
  PROVE  PendingIsUnfinished'
<1>1. CASE UNCHANGED <<content, unfinished, prompt>>
  BY <1>1 DEF PendingIsUnfinished
<1>2. CASE Before
  BY <1>2 DEF Before, PendingIsUnfinished
<1>3. CASE \E k \in Code : SyntaxError(k) \/ Execute(k)
  BY <1>3 DEF SyntaxError, Execute, PendingIsUnfinished
<1>4. CASE \E k \in Code : Unfinished(k)
  BY <1>4 DEF Unfinished, PendingIsUnfinished
<1>5. CASE Interrupt \/ EndOfInput \/ Complete \/ ShowMode \/ After \/ (\E m \in Modes : SetMode(m))
  BY <1>1, <1>5 DEF Interrupt, EndOfInput, Complete, ShowMode, After, SetMode
<1> QED
  BY <1>1, <1>2, <1>3, <1>4, <1>5 DEF ReplNext, replVars

LEMMA HookStep ==
  ASSUME HookInv, [ReplNext]_replVars
  PROVE  HookInv'
<1>1. CASE Before
  BY <1>1 DEF Before, CallHook, Calls, HookInv, AfterIsNext
<1>2. CASE After
  BY <1>2 DEF After, CallHook, Calls, HookInv, AfterIsNext
<1>3. CASE Interrupt \/ EndOfInput \/ Complete
  BY <1>3 DEF Interrupt, EndOfInput, Complete, HookInv, AfterIsNext
<1>4. CASE ShowMode \/ (\E m \in Modes : SetMode(m))
  BY <1>4 DEF ShowMode, SetMode, TypeLine, HookInv, AfterIsNext
<1>5. CASE \E k \in Code : SyntaxError(k) \/ Unfinished(k) \/ Execute(k)
  <2>1. pc = "read" /\ pc' = "cont" /\ UNCHANGED <<lastHook, missed>>
    BY <1>5 DEF SyntaxError, Unfinished, Execute, TypeLine
  <2> QED
    BY <2>1 DEF HookInv, AfterIsNext
<1>6. CASE UNCHANGED replVars
  BY <1>6 DEF replVars, HookInv, AfterIsNext
<1> QED
  BY <1>1, <1>2, <1>3, <1>4, <1>5, <1>6 DEF ReplNext

LEMMA LoopInvariance == ReplSpec => []LoopInv
<1>1. LoopInv /\ [ReplNext]_replVars => LoopInv'
  BY PendingStep, HookStep DEF LoopInv
<1> QED
  BY InitLoopInv, <1>1, PTL DEF ReplSpec

\* Whatever is typed, and however often with errors and interrupts, lines wait
\* only as the start of a program that can still be finished, and the user is
\* shown the prompt of a block while they do (docli, content and unfinished).
THEOREM LinesWaitInABlock == ReplSpec => []PendingIsUnfinished
<1>1. LoopInv => PendingIsUnfinished
  BY DEF LoopInv
<1> QED
  BY <1>1, LoopInvariance, PTL

\* The hooks alternate, wherever blocks, errors and interrupts fall, unless the
\* turn of one comes while it is no function; whatever defines and redefines
\* them, and when.
THEOREM HooksTakeTurns == ReplSpec => HooksAlternate
<1>1. LoopInv => /\ Before /\ Calls("before") => lastHook # "before" \/ missed
                 /\ After /\ Calls("after") => lastHook # "after" \/ missed
  BY DEF LoopInv, HookInv, AfterIsNext, Before, After, Calls
<1> QED
  BY <1>1, LoopInvariance, PTL DEF HooksAlternate

-----------------------------------------------------------------------------
(***************************************************************************)
(* Scopes: the shells a name is looked up in.                              *)
(***************************************************************************)

ShellRecords == [parent : Nat, vars : [Names -> Vals]]

\* Every shell but the root has a parent, which is older.
Tree(sh) ==
  /\ sh \in Seq(ShellRecords)
  /\ Len(sh) >= 1
  /\ sh[1].parent = 0
  /\ \A k \in 2 .. Len(sh) : sh[k].parent \in 1 .. k - 1

(* Induction.  The provers instantiate no operator, and so none of the     *)
(* induction theorems of the library, but they can pick a least element.   *)
LEMMA LeastNatural ==
  ASSUME NEW T \in SUBSET Nat, T # {}
  PROVE  \E m \in T : \A n \in T : m <= n
<1> DEFINE R == {ss \in Nat \X Nat : ss[1] < ss[2]}
<1>1. IsWellFoundedOn(R, Nat)
  BY NatLessThanWellFounded DEF OpToRel
<1>2. PICK m \in T : \A n \in T : <<n, m>> \notin R
  BY <1>1, WFMin
<1>3. ASSUME NEW n \in T PROVE m <= n
  <2>1. <<n, m>> \in Nat \X Nat /\ <<n, m>> \notin R
    BY <1>2
  <2>2. ~(n < m)
    BY <2>1
  <2> QED
    BY <2>2
<1> QED
  BY <1>3

LEMMA GreatestNatural ==
  ASSUME NEW b \in Nat, NEW T \in SUBSET (0 .. b), T # {}
  PROVE  \E m \in T : \A n \in T : n <= m
<1> DEFINE U == {b - n : n \in T}
<1>1. U \in SUBSET Nat /\ U # {}
  <2>1. \A n \in T : b - n \in Nat
    OBVIOUS
  <2> QED
    BY <2>1
<1>2. PICK k \in U : \A n \in U : k <= n
  BY <1>1, LeastNatural
<1>3. PICK m \in T : k = b - m
  BY <1>2
<1>4. ASSUME NEW n \in T PROVE n <= m
  <2>1. k <= b - n
    BY <1>2
  <2> QED
    BY <1>3, <2>1
<1> QED
  BY <1>4

\* What holds of a number when it holds of all smaller ones holds up to b.
LEMMA UpTo ==
  ASSUME NEW S, NEW b \in Nat,
         \A n \in 0 .. b : (\A k \in 0 .. n - 1 : k \in S) => n \in S
  PROVE  \A n \in 0 .. b : n \in S
<1> SUFFICES ASSUME NEW j \in 0 .. b, j \notin S PROVE FALSE
  OBVIOUS
<1> DEFINE T == {n \in 0 .. b : n \notin S}
<1>1. T \in SUBSET Nat /\ T # {}
  OBVIOUS
<1>2. PICK m \in T : \A n \in T : m <= n
  BY <1>1, LeastNatural
<1>3. \A k \in 0 .. m - 1 : k \in 0 .. b /\ k \notin T
  BY <1>2
<1>4. m \in S
  BY <1>3
<1> QED
  BY <1>4

ChainOf(sh) ==
  CHOOSE f : f = [k \in 0 .. Len(sh) |-> IF k = 0 THEN {} ELSE {k} \cup f[sh[k].parent]]

LEMMA ChainUnfolds ==
  ASSUME NEW sh, Tree(sh)
  PROVE  ChainOf(sh) = [k \in 0 .. Len(sh) |->
                          IF k = 0 THEN {} ELSE {k} \cup ChainOf(sh)[sh[k].parent]]
<1> DEFINE Step(f, k) == IF k = 0 THEN {} ELSE {k} \cup f[sh[k].parent]
           Known == {m \in 0 .. Len(sh) : \E f : f = [k \in 0 .. m |-> Step(f, k)]}
<1>n. Len(sh) \in Nat /\ \A k \in 1 .. Len(sh) : sh[k].parent \in 0 .. k - 1
  BY DEF Tree
<1>1. ASSUME NEW m \in 0 .. Len(sh), \A k \in 0 .. m - 1 : k \in Known
      PROVE  m \in Known
  <2>1. CASE m = 0
    <3> DEFINE f0 == [k \in 0 .. 0 |-> {}]
    <3>1. f0 = [k \in 0 .. 0 |-> Step(f0, k)]
      OBVIOUS
    <3>2. \E f : f = [k \in 0 .. 0 |-> Step(f, k)]
      BY <3>1
    <3> QED
      BY <3>2, <2>1
  <2>2. CASE m > 0
    <3>1. m - 1 \in Known
      <4> HIDE DEF Known
      <4> QED
        BY <1>1, <2>2
    <3>2. PICK f : f = [k \in 0 .. m - 1 |-> Step(f, k)]
      BY <3>1
    <3> DEFINE g == [k \in 0 .. m |-> IF k = m THEN {k} \cup f[sh[k].parent] ELSE f[k]]
    <3>3. ASSUME NEW k \in 0 .. m PROVE g[k] = Step(g, k)
      <4>1. CASE k = 0
        BY <4>1, <3>2, <2>2
      <4>2. CASE k \in 1 .. m
        <5>1. sh[k].parent \in 0 .. k - 1
          BY <4>2, <1>n
        <5>2. g[sh[k].parent] = f[sh[k].parent]
          BY <5>1, <4>2
        <5>3. k # m => f[k] = {k} \cup f[sh[k].parent]
          <6>1. k # m => k \in 0 .. m - 1 /\ k # 0
            BY <4>2
          <6> HIDE DEF g
          <6> QED
            BY <3>2, <6>1
        <5>4. g[k] = {k} \cup f[sh[k].parent]
          BY <5>3, <4>2
        <5>5. k # 0
          BY <4>2
        <5> HIDE DEF g
        <5> QED
          BY <5>2, <5>4, <5>5
      <4> QED
        BY <4>1, <4>2
    <3>4. g = [k \in 0 .. m |-> Step(g, k)]
      BY <3>3
    <3>5. \E f1 : f1 = [k \in 0 .. m |-> Step(f1, k)]
      BY <3>4
    <3> QED
      BY <3>5
  <2> QED
    BY <2>1, <2>2
<1> HIDE DEF Known
<1>2. \A m \in 0 .. Len(sh) : m \in Known
  BY <1>n, <1>1, UpTo
<1>3. Len(sh) \in Known
  BY <1>n, <1>2
<1>4. \E f : f = [k \in 0 .. Len(sh) |-> Step(f, k)]
  BY <1>3 DEF Known
<1> QED
  BY <1>4 DEF ChainOf

LEMMA ChainIs ==
  ASSUME NEW sh, Tree(sh), NEW s \in 1 .. Len(sh)
  PROVE  /\ Chain(sh, s) = {s} \cup Chain(sh, sh[s].parent)
         /\ Chain(sh, 0) = {}
<1>1. \A k : Chain(sh, k) = ChainOf(sh)[k]
  BY DEF Chain, ChainOf
<1>2. sh[s].parent \in 0 .. Len(sh) /\ 0 \in 0 .. Len(sh) /\ s \in 0 .. Len(sh) /\ s # 0
  BY DEF Tree
<1>3. ChainOf(sh)[s] = {s} \cup ChainOf(sh)[sh[s].parent] /\ ChainOf(sh)[0] = {}
  BY <1>2, ChainUnfolds
<1> QED
  BY <1>1, <1>3

\* A set of shells that has the parents of its shells.
Closed(sh, R) ==
  /\ R \subseteq 1 .. Len(sh)
  /\ 1 \in R
  /\ \A k \in R : k # 1 => sh[k].parent \in R

LEMMA ChainWithin ==
  ASSUME NEW sh, Tree(sh), NEW R, Closed(sh, R), NEW s \in R
  PROVE  Chain(sh, s) \subseteq R
<1> DEFINE Good == {n \in 0 .. Len(sh) : n \in R => Chain(sh, n) \subseteq R}
<1>n. Len(sh) \in Nat
  BY DEF Tree
<1>1. ASSUME NEW n \in 0 .. Len(sh), \A k \in 0 .. n - 1 : k \in Good
      PROVE  n \in Good
  <2> SUFFICES ASSUME n \in R PROVE Chain(sh, n) \subseteq R
    OBVIOUS
  <2>1. n \in 1 .. Len(sh)
    BY DEF Closed
  <2>2. Chain(sh, n) = {n} \cup Chain(sh, sh[n].parent) /\ Chain(sh, 0) = {}
    BY <2>1, ChainIs
  <2>3. CASE n = 1
    BY <2>2, <2>3 DEF Tree
  <2>4. CASE n # 1
    <3>1. sh[n].parent \in 0 .. n - 1 /\ sh[n].parent \in R
      BY <2>1, <2>4 DEF Tree, Closed
    <3> QED
      BY <2>2, <3>1, <1>1
  <2> QED
    BY <2>3, <2>4
<1> HIDE DEF Good
<1>2. \A n \in 0 .. Len(sh) : n \in Good
  BY <1>n, <1>1, UpTo
<1>3. s \in 0 .. Len(sh)
  BY <1>n DEF Closed
<1> QED
  BY <1>2, <1>3 DEF Good

\* The shell itself is the youngest of its chain, which ends at the root.
LEMMA ChainClosed ==
  ASSUME NEW sh, Tree(sh), NEW s \in 1 .. Len(sh)
  PROVE  /\ Closed(sh, Chain(sh, s))
         /\ Chain(sh, s) \subseteq 1 .. s
         /\ s \in Chain(sh, s)
<1> DEFINE Good == {n \in 0 .. Len(sh) :
                      n # 0 => /\ Closed(sh, Chain(sh, n))
                               /\ Chain(sh, n) \subseteq 1 .. n
                               /\ n \in Chain(sh, n)}
<1>n. Len(sh) \in Nat
  BY DEF Tree
<1>1. ASSUME NEW n \in 0 .. Len(sh), \A k \in 0 .. n - 1 : k \in Good
      PROVE  n \in Good
  <2> SUFFICES ASSUME n # 0
               PROVE  /\ Closed(sh, Chain(sh, n))
                      /\ Chain(sh, n) \subseteq 1 .. n
                      /\ n \in Chain(sh, n)
    OBVIOUS
  <2>1. n \in 1 .. Len(sh)
    BY <1>n
  <2>2. Chain(sh, n) = {n} \cup Chain(sh, sh[n].parent) /\ Chain(sh, 0) = {}
    BY <2>1, ChainIs
  <2>3. CASE n = 1
    BY <2>1, <2>2, <2>3 DEF Tree, Closed
  <2>4. CASE n # 1
    <3> DEFINE q == sh[n].parent
    <3>1. q \in 1 .. n - 1 /\ q \in 0 .. n - 1
      BY <2>1, <2>4 DEF Tree
    <3>2. /\ Closed(sh, Chain(sh, q))
          /\ Chain(sh, q) \subseteq 1 .. q
          /\ q \in Chain(sh, q)
      BY <3>1, <1>1
    <3> QED
      BY <2>1, <2>2, <3>1, <3>2 DEF Closed
  <2> QED
    BY <2>3, <2>4
<1> HIDE DEF Good
<1>2. \A n \in 0 .. Len(sh) : n \in Good
  BY <1>n, <1>1, UpTo
<1> QED
  BY <1>2, <1>n DEF Good

\* The nearest shell that has the name, if one in the chain has it.
LEMMA OwnerIs ==
  ASSUME NEW sh, Tree(sh), NEW s \in 1 .. Len(sh), NEW x
  PROVE  LET k == Owner(sh, s, x) IN
         \/ /\ k = 0
            /\ \A j \in Chain(sh, s) : sh[j].vars[x] = Unset
         \/ /\ k \in Chain(sh, s)
            /\ sh[k].vars[x] # Unset
            /\ \A j \in Chain(sh, s) : sh[j].vars[x] # Unset => j <= k
<1> DEFINE having == {k \in Chain(sh, s) : sh[k].vars[x] # Unset}
<1>1. CASE having = {}
  BY <1>1 DEF Owner, Youngest
<1>2. CASE having # {}
  <2>1. s \in Nat /\ having \in SUBSET (0 .. s)
    BY ChainClosed DEF Tree
  <2>2. \E k \in having : \A j \in having : j <= k
    BY <1>2, <2>1, GreatestNatural
  <2>3. Owner(sh, s, x) = CHOOSE k \in having : \A j \in having : j <= k
    BY <1>2 DEF Owner, Youngest
  <2>4. Owner(sh, s, x) \in having /\ \A j \in having : j <= Owner(sh, s, x)
    BY <2>2, <2>3
  <2> QED
    BY <2>4
<1> QED
  BY <1>1, <1>2

-----------------------------------------------------------------------------
(***************************************************************************)
(* Scopes: what the operations on a world change in it.                    *)
(***************************************************************************)

Arrays == Seq(Strings)

Worlds == [shells : Seq(ShellRecords), heap : Seq(Arrays), env : [Names -> Vals],
           ok : BOOLEAN, modelled : BOOLEAN]

\* What a value refers to is there.
Held(w, v) ==
  /\ v \in Vals
  /\ v.type = "list" => v.ref \in 1 .. Len(w.heap) /\ v.len <= Len(w.heap[v.ref])
  /\ v.type = "fn" => v.ref \in 1 .. Len(w.shells)

Sound(w) ==
  /\ w \in Worlds
  /\ Tree(w.shells)
  /\ \A k \in 1 .. Len(w.shells) : \A x \in Names : Held(w, w.shells[k].vars[x])
  /\ \A x \in Names : Held(w, w.env[x])

\* Nothing that a value can refer to goes away.
Grows(w, u) ==
  /\ Len(u.shells) = Len(w.shells)
  /\ Len(w.heap) <= Len(u.heap)
  /\ \A a \in 1 .. Len(w.heap) : Len(u.heap[a]) = Len(w.heap[a])

\* A list that the shells of R hold in the world o.
Open(o, R, a) ==
  \E k \in R, x \in Names : o.shells[k].vars[x].type = "list" /\ o.shells[k].vars[x].ref = a

\* The value is no list of o, or one that R holds there.
Mine(o, R, v) == v.type = "list" /\ v.ref \in 1 .. Len(o.heap) => Open(o, R, v.ref)

\* What a statement that uses the names of the shells of R can make of o: it
\* writes to these shells and to the arrays they hold, and gets hold of no other.
Within(o, R, w) ==
  /\ Len(w.shells) = Len(o.shells)
  /\ \A k \in 1 .. Len(o.shells) : w.shells[k].parent = o.shells[k].parent
  /\ \A k \in (1 .. Len(o.shells)) \ R : w.shells[k] = o.shells[k]
  /\ Len(o.heap) <= Len(w.heap)
  /\ \A a \in 1 .. Len(o.heap) : w.heap[a] = o.heap[a] \/ Open(o, R, a)
  /\ \A k \in R : \A x \in Names : Mine(o, R, w.shells[k].vars[x])

Good(o, R, w) == Sound(w) /\ Closed(o.shells, R) /\ Within(o, R, w)
Fits(o, R, w, v) == Held(w, v) /\ Mine(o, R, v)

LEMMA FailIs ==
  ASSUME NEW w \in Worlds
  PROVE  /\ Fail(w) \in Worlds /\ NotModelled(w) \in Worlds
         /\ Fail(w).shells = w.shells /\ Fail(w).heap = w.heap /\ Fail(w).env = w.env
         /\ ~Fail(w).ok
         /\ NotModelled(w).shells = w.shells /\ NotModelled(w).heap = w.heap
         /\ NotModelled(w).env = w.env /\ NotModelled(w).ok = w.ok
BY DEF Fail, NotModelled, Worlds

LEMMA UnsetIs ==
  /\ Unset \in Vals /\ Unset.type = "none"
  /\ \A s \in Strings : Str(s) \in Vals /\ Str(s).type = "str" /\ Str(s) # Unset /\ Str(s).str = s
BY ValuesAssumption DEF Unset, Str, Value, Vals, Hole

LEMMA NewvarIs ==
  ASSUME NEW w \in Worlds, NEW k \in 1 .. Len(w.shells), NEW x \in Names, NEW v \in Vals
  PROVE  LET u == Newvar(w, k, x, v) IN
         /\ u \in Worlds
         /\ u.heap = w.heap /\ u.env = w.env /\ u.ok = w.ok
         /\ Len(u.shells) = Len(w.shells)
         /\ \A j \in 1 .. Len(w.shells) :
              /\ u.shells[j].parent = w.shells[j].parent
              /\ j # k => u.shells[j] = w.shells[j]
              /\ \A y \in Names :
                   u.shells[j].vars[y] = IF j = k /\ y = x THEN v ELSE w.shells[j].vars[y]
<1> DEFINE r == [w.shells[k] EXCEPT !.vars[x] = v]
           sh == [w.shells EXCEPT ![k] = r]
           u == Newvar(w, k, x, v)
<1>1. w.shells \in Seq(ShellRecords) /\ w.shells[k] \in ShellRecords
  BY DEF Worlds
<1>2. /\ r \in ShellRecords /\ r.parent = w.shells[k].parent
      /\ \A y \in Names : r.vars[y] = IF y = x THEN v ELSE w.shells[k].vars[y]
  BY <1>1 DEF ShellRecords
<1> HIDE DEF r
<1>3. /\ sh \in Seq(ShellRecords) /\ Len(sh) = Len(w.shells)
      /\ \A j \in 1 .. Len(w.shells) : sh[j] = IF j = k THEN r ELSE w.shells[j]
  BY <1>1, <1>2
<1>4. u = [w EXCEPT !.shells = sh]
  BY DEF Newvar, r
<1> HIDE DEF sh
<1>5. /\ u \in Worlds /\ u.shells = sh
      /\ u.heap = w.heap /\ u.env = w.env /\ u.ok = w.ok
  <2> HIDE DEF u
  <2> QED
    BY <1>3, <1>4 DEF Worlds
<1> HIDE DEF u
<1>6. ASSUME NEW j \in 1 .. Len(w.shells)
      PROVE  /\ u.shells[j].parent = w.shells[j].parent
             /\ j # k => u.shells[j] = w.shells[j]
             /\ \A y \in Names :
                  u.shells[j].vars[y] = IF j = k /\ y = x THEN v ELSE w.shells[j].vars[y]
  BY <1>2, <1>3, <1>5
<1> QED
  BY <1>3, <1>5, <1>6 DEF u

LEMMA SetenvIs ==
  ASSUME NEW w \in Worlds, Len(w.shells) >= 1, NEW x \in Names, NEW v \in Vals
  PROVE  LET n == Newvar(w, Root, x, v)
             u == Setenv(w, x, v) IN
         /\ u \in Worlds
         /\ u.shells = n.shells /\ u.heap = w.heap /\ u.ok = w.ok
         /\ \A y \in Names : u.env[y] = IF y = x THEN v ELSE w.env[y]
<1> DEFINE n == Newvar(w, Root, x, v)
<1>0. Root \in 1 .. Len(w.shells)
  BY DEF Root, Worlds
<1>1. n \in Worlds /\ n.heap = w.heap /\ n.env = w.env /\ n.ok = w.ok
  BY <1>0, NewvarIs
<1> DEFINE e == [w.env EXCEPT ![x] = v]
           u == Setenv(w, x, v)
<1>2. u = [n EXCEPT !.env = e]
  BY <1>1 DEF Setenv
<1>3. e \in [Names -> Vals] /\ \A y \in Names : e[y] = IF y = x THEN v ELSE w.env[y]
  BY DEF Worlds
<1> HIDE DEF n, e, u
<1>4. u \in Worlds /\ u.shells = n.shells /\ u.heap = n.heap /\ u.ok = n.ok /\ u.env = e
  BY <1>1, <1>2, <1>3 DEF Worlds
<1> QED
  BY <1>1, <1>3, <1>4 DEF n, u

\* An element is written, and an array made, in the heap alone.
LEMMA HeapIs ==
  ASSUME NEW w \in Worlds, NEW h \in Seq(Arrays)
  PROVE  LET u == [w EXCEPT !.heap = h] IN
         /\ u \in Worlds /\ u.heap = h
         /\ u.shells = w.shells /\ u.env = w.env /\ u.ok = w.ok
BY DEF Worlds

LEMMA PutIs ==
  ASSUME NEW w \in Worlds, NEW v, Held(w, v), NEW i \in Nat, Writable(v, i), NEW s \in Strings
  PROVE  LET h == Put(w.heap, v, i, s) IN
         /\ h \in Seq(Arrays) /\ Len(h) = Len(w.heap)
         /\ \A a \in 1 .. Len(w.heap) :
              Len(h[a]) = Len(w.heap[a]) /\ (a # v.ref => h[a] = w.heap[a])
<1> DEFINE r == [w.heap[v.ref] EXCEPT ![i + 1] = s]
<1>1. /\ w.heap \in Seq(Arrays) /\ v.ref \in 1 .. Len(w.heap)
      /\ w.heap[v.ref] \in Arrays
  BY DEF Worlds, Held, Writable
<1>2. r \in Arrays /\ Len(r) = Len(w.heap[v.ref])
  <2>1. i + 1 \in 1 .. Len(w.heap[v.ref])
    BY <1>1 DEF Arrays, Held, Writable, Vals
  <2> QED
    BY <1>1, <2>1 DEF Arrays
<1>3. Put(w.heap, v, i, s) = [w.heap EXCEPT ![v.ref] = r]
  BY DEF Put
<1> HIDE DEF r
<1> QED
  BY <1>1, <1>2, <1>3

LEMMA NewListIs ==
  ASSUME NEW h \in Seq(Arrays), NEW strs \in Arrays
  PROVE  /\ NewList(h, strs).heap = Append(h, strs)
         /\ NewList(h, strs).val \in Vals
         /\ NewList(h, strs).val.type = "list"
         /\ NewList(h, strs).val.ref = Len(h) + 1
         /\ NewList(h, strs).val.len = Len(strs)
<1>1. Len(h) + 1 \in Nat /\ Len(strs) \in Nat
  BY DEF Arrays
<1> QED
  BY <1>1, ValuesAssumption DEF NewList, List, Value, Vals, Hole

-----------------------------------------------------------------------------
(***************************************************************************)
(* Scopes: what the operations on a world keep.                            *)
(***************************************************************************)

LEMMA HeldGrows ==
  ASSUME NEW w \in Worlds, NEW u \in Worlds, Grows(w, u), NEW v, Held(w, v)
  PROVE  Held(u, v)
BY DEF Held, Grows, Worlds

LEMMA GrowsTransitive ==
  ASSUME NEW w \in Worlds, NEW u \in Worlds, NEW t \in Worlds, Grows(w, u), Grows(u, t)
  PROVE  Grows(w, t)
<1>1. Len(w.heap) \in Nat /\ Len(u.heap) \in Nat /\ Len(t.heap) \in Nat
  BY DEF Worlds
<1>2. \A a \in 1 .. Len(w.heap) : a \in 1 .. Len(u.heap)
  BY <1>1 DEF Grows
<1> QED
  BY <1>1, <1>2 DEF Grows

LEMMA GoodIs ==
  ASSUME NEW o, NEW R, NEW w, Good(o, R, w)
  PROVE  /\ w \in Worlds /\ Tree(w.shells)
         /\ Len(w.shells) \in Nat /\ Len(w.heap) \in Nat
         /\ R \subseteq 1 .. Len(w.shells)
         /\ Closed(w.shells, R)
         /\ Root \in R
BY DEF Good, Sound, Closed, Within, Worlds, Root

LEMMA GoodStart ==
  ASSUME NEW o, NEW R, Sound(o), Closed(o.shells, R)
  PROVE  Good(o, R, o) /\ Grows(o, o)
<1>1. Len(o.shells) \in Nat /\ Len(o.heap) \in Nat
  BY DEF Sound, Worlds
<1>2. \A k \in R : \A x \in Names : Mine(o, R, o.shells[k].vars[x])
  BY DEF Mine, Open
<1> QED
  BY <1>1, <1>2 DEF Good, Within, Grows

LEMMA SameGood ==
  ASSUME NEW o, NEW R, NEW w, Good(o, R, w), NEW u \in Worlds,
         u.shells = w.shells, u.heap = w.heap, u.env = w.env
  PROVE  Good(o, R, u) /\ Grows(w, u)
<1>1. Len(w.heap) \in Nat
  BY GoodIs
<1>2. Grows(w, u)
  BY <1>1 DEF Grows
<1>3. \A v : Held(w, v) => Held(u, v)
  BY DEF Held
<1> QED
  BY <1>2, <1>3 DEF Good, Sound, Within

LEMMA NewvarGood ==
  ASSUME NEW o, NEW R, NEW w, Good(o, R, w),
         NEW k \in R, NEW x \in Names, NEW v, Fits(o, R, w, v)
  PROVE  Good(o, R, Newvar(w, k, x, v)) /\ Grows(w, Newvar(w, k, x, v))
<1> DEFINE u == Newvar(w, k, x, v)
<1>1. w \in Worlds /\ k \in 1 .. Len(w.shells) /\ v \in Vals /\ Tree(w.shells) /\ R \subseteq 1 .. Len(w.shells)
  BY GoodIs DEF Fits, Held
<1>2. /\ u \in Worlds
      /\ u.heap = w.heap /\ u.env = w.env
      /\ Len(u.shells) = Len(w.shells)
      /\ \A j \in 1 .. Len(w.shells) :
           /\ u.shells[j].parent = w.shells[j].parent
           /\ j # k => u.shells[j] = w.shells[j]
           /\ \A y \in Names :
                u.shells[j].vars[y] = IF j = k /\ y = x THEN v ELSE w.shells[j].vars[y]
  BY <1>1, NewvarIs
<1> HIDE DEF u
<1>3. Grows(w, u)
  BY <1>2, GoodIs DEF Grows
<1>4. \A val : Held(w, val) => Held(u, val)
  BY <1>2 DEF Held
<1>5. Tree(u.shells)
  BY <1>1, <1>2 DEF Tree, Worlds
<1>6. \A j \in 1 .. Len(u.shells) : \A y \in Names : Held(u, u.shells[j].vars[y])
  BY <1>2, <1>4 DEF Good, Sound, Fits
<1>7. \A y \in Names : Held(u, u.env[y])
  BY <1>2, <1>4 DEF Good, Sound
<1>8. Within(o, R, u)
  <2>1. \A j \in R : \A y \in Names : Mine(o, R, u.shells[j].vars[y])
    BY <1>1, <1>2 DEF Good, Within, Fits
  <2> QED
    BY <1>1, <1>2, <2>1 DEF Good, Within
<1> QED
  BY <1>2, <1>3, <1>5, <1>6, <1>7, <1>8 DEF Good, Sound, u

LEMMA SetenvGood ==
  ASSUME NEW o, NEW R, NEW w, Good(o, R, w), NEW x \in Names, NEW v, Fits(o, R, w, v)
  PROVE  Good(o, R, Setenv(w, x, v)) /\ Grows(w, Setenv(w, x, v))
<1> DEFINE n == Newvar(w, Root, x, v)
           u == Setenv(w, x, v)
<1>1. w \in Worlds /\ Len(w.shells) >= 1 /\ v \in Vals /\ Root \in R
  BY GoodIs DEF Fits, Held, Tree
<1>2. Good(o, R, n) /\ Grows(w, n)
  BY <1>1, NewvarGood
<1>3. /\ u \in Worlds /\ u.shells = n.shells /\ u.heap = w.heap
      /\ \A y \in Names : u.env[y] = IF y = x THEN v ELSE w.env[y]
  BY <1>1, SetenvIs
<1>4. n.heap = w.heap /\ n.env = w.env /\ n \in Worlds
  <2>1. Root \in 1 .. Len(w.shells)
    BY GoodIs
  <2> QED
    BY <1>1, <2>1, NewvarIs
<1> HIDE DEF n, u
<1>5. \A val : Held(n, val) => Held(u, val)
  BY <1>3, <1>4 DEF Held
<1>6. Held(n, v)
  BY <1>1, <1>2, <1>4, HeldGrows DEF Fits
<1>7. \A y \in Names : Held(u, u.env[y])
  BY <1>2, <1>3, <1>4, <1>5, <1>6 DEF Good, Sound
<1>8. Good(o, R, u)
  BY <1>2, <1>3, <1>4, <1>5, <1>7 DEF Good, Sound, Within
<1>9. Grows(w, u)
  BY <1>2, <1>3, <1>4 DEF Grows
<1> QED
  BY <1>8, <1>9 DEF u

LEMMA HeapGood ==
  ASSUME NEW o, NEW R, NEW w, Good(o, R, w), NEW h \in Seq(Arrays),
         Len(w.heap) <= Len(h),
         \A a \in 1 .. Len(w.heap) :
           /\ Len(h[a]) = Len(w.heap[a])
           /\ h[a] = w.heap[a] \/ (a \in 1 .. Len(o.heap) => Open(o, R, a))
  PROVE  Good(o, R, [w EXCEPT !.heap = h]) /\ Grows(w, [w EXCEPT !.heap = h])
<1> DEFINE u == [w EXCEPT !.heap = h]
<1>1. w \in Worlds /\ Len(w.heap) \in Nat /\ Len(h) \in Nat
  BY GoodIs
<1>2. u \in Worlds /\ u.heap = h /\ u.shells = w.shells /\ u.env = w.env
  BY <1>1, HeapIs
<1> HIDE DEF u
<1>3. Grows(w, u)
  BY <1>2 DEF Grows
<1>4. \A v : Held(w, v) => Held(u, v)
  BY <1>1, <1>2, <1>3, HeldGrows
<1>5. Sound(u)
  BY <1>2, <1>4 DEF Good, Sound
<1>6. Within(o, R, u)
  <2>1. Len(o.heap) <= Len(w.heap) /\ Len(w.heap) <= Len(u.heap)
    BY <1>2 DEF Good, Within
  <2>2. ASSUME NEW a \in 1 .. Len(o.heap) PROVE u.heap[a] = o.heap[a] \/ Open(o, R, a)
    <3>1. a \in 1 .. Len(w.heap)
      BY <1>1, <2>1
    <3>2. w.heap[a] = o.heap[a] \/ Open(o, R, a)
      BY DEF Good, Within
    <3> QED
      BY <1>2, <3>1, <3>2
  <2>3. Len(o.heap) <= Len(u.heap)
    <3>1. Len(u.heap) \in Nat
      BY <1>1, <1>2
    <3> QED
      BY <1>1, <2>1, <3>1
  <2> QED
    BY <1>2, <2>2, <2>3 DEF Good, Within
<1> QED
  BY <1>3, <1>5, <1>6 DEF Good, u

LEMMA OwnerGood ==
  ASSUME NEW o, NEW R, NEW w, Good(o, R, w), NEW s \in R, NEW x \in Names
  PROVE  LET k == Owner(w.shells, s, x) IN
         \/ k = 0 /\ \A j \in Chain(w.shells, s) : w.shells[j].vars[x] = Unset
         \/ /\ k \in R /\ k # 0 /\ k \in Chain(w.shells, s)
            /\ w.shells[k].vars[x] # Unset
            /\ \A j \in Chain(w.shells, s) : w.shells[j].vars[x] # Unset => j <= k
<1>1. Tree(w.shells) /\ Closed(w.shells, R) /\ s \in 1 .. Len(w.shells) /\ R \subseteq 1 .. Len(w.shells)
  BY GoodIs
<1>2. Chain(w.shells, s) \subseteq R
  BY <1>1, ChainWithin
<1> QED
  BY <1>1, <1>2, OwnerIs

\* What a name stands for is a value of R.
LEMMA GetvarGood ==
  ASSUME NEW o, NEW R, NEW w, Good(o, R, w), NEW s \in R, NEW x \in Names
  PROVE  Fits(o, R, w, Getvar(w, s, x))
<1> DEFINE k == Owner(w.shells, s, x)
<1>1. Fits(o, R, w, Unset)
  BY UnsetIs DEF Fits, Held, Mine
<1>2. \A j \in R : Fits(o, R, w, w.shells[j].vars[x])
  BY GoodIs DEF Fits, Good, Sound, Within
<1>3. k = 0 \/ (k \in R /\ k # 0)
  BY OwnerGood
<1> HIDE DEF k
<1>4. Getvar(w, s, x) = IF k = 0 THEN Unset ELSE w.shells[k].vars[x]
  BY DEF Getvar, VarOf, k
<1> QED
  BY <1>1, <1>2, <1>3, <1>4

LEMMA SetvarGood ==
  ASSUME NEW o, NEW R, NEW w, Good(o, R, w),
         NEW s \in R, NEW x \in Names, NEW v, Fits(o, R, w, v)
  PROVE  /\ Good(o, R, Setvar(w, s, x, v)) /\ Grows(w, Setvar(w, s, x, v))
         /\ Setvar(w, s, x, v).env = w.env
<1> DEFINE k == Owner(w.shells, s, x)
<1>1. w \in Worlds /\ v \in Vals
  BY GoodIs DEF Fits, Held
<1>2. Setvar(w, s, x, v) = IF k = 0 THEN Fail(w) ELSE Newvar(w, k, x, v)
  BY DEF Setvar
<1>3. k = 0 \/ k \in R
  BY OwnerGood
<1> HIDE DEF k
<1>4. Good(o, R, Fail(w)) /\ Grows(w, Fail(w)) /\ Fail(w).env = w.env
  BY <1>1, FailIs, SameGood
<1>5. CASE k = 0
  BY <1>2, <1>4, <1>5
<1>6. CASE k \in R /\ k # 0
  <2>1. Newvar(w, k, x, v).env = w.env
    BY <1>1, <1>6, GoodIs, NewvarIs
  <2> QED
    BY <1>2, <1>6, <2>1, NewvarGood
<1> QED
  BY <1>3, <1>5, <1>6

\* The array of a list that the shell can name may be written to.
LEMMA PutElementGood ==
  ASSUME NEW o, NEW R, NEW w, Good(o, R, w),
         NEW s \in R, NEW node \in Nodes, node.idx # NoIndex, NEW v, Fits(o, R, w, v)
  PROVE  LET u == PutElement(w, s, node, v) IN
         /\ Good(o, R, u) /\ Grows(w, u)
         /\ u.env = w.env /\ u.shells = w.shells
<1> DEFINE obj == Getvar(w, s, node.id)
           h == Put(w.heap, obj, node.idx, v.str)
           u == PutElement(w, s, node, v)
<1>1. w \in Worlds /\ v \in Vals /\ node.id \in Names /\ node.idx \in Nat
  BY GoodIs DEF Fits, Held, Nodes
<1>2. u = IF ~Writable(obj, node.idx) THEN Fail(w)
          ELSE IF v.type # "str" THEN NotModelled(w)
          ELSE [w EXCEPT !.heap = h]
  BY DEF PutElement
<1>3. Fits(o, R, w, obj)
  BY <1>1, GetvarGood
<1>4. v.str \in Strings
  BY <1>1 DEF Vals
<1> HIDE DEF obj, u
<1>5. CASE ~Writable(obj, node.idx)
  BY <1>1, <1>2, <1>5, FailIs, SameGood DEF u
<1>6. CASE Writable(obj, node.idx) /\ v.type # "str"
  BY <1>1, <1>2, <1>6, FailIs, SameGood DEF u
<1>7. CASE Writable(obj, node.idx) /\ v.type = "str"
  <2>1. /\ h \in Seq(Arrays) /\ Len(h) = Len(w.heap)
        /\ \A a \in 1 .. Len(w.heap) :
              Len(h[a]) = Len(w.heap[a]) /\ (a # obj.ref => h[a] = w.heap[a])
    BY <1>1, <1>3, <1>4, <1>7, PutIs DEF Fits
  <2>2. obj.ref \in 1 .. Len(o.heap) => Open(o, R, obj.ref)
    BY <1>3, <1>7 DEF Fits, Mine, Writable
  <2> HIDE DEF h
  <2>3. Good(o, R, [w EXCEPT !.heap = h]) /\ Grows(w, [w EXCEPT !.heap = h])
    <3>1. Len(w.heap) <= Len(h)
      BY <2>1, GoodIs
    <3> QED
      BY <2>1, <2>2, <3>1, HeapGood
  <2> QED
    BY <1>1, <1>2, <1>7, <2>1, <2>3, HeapIs DEF u
<1> QED
  BY <1>5, <1>6, <1>7 DEF u

\* A declaration changes one variable of the shell itself.
LEMMA NewNodeGood ==
  ASSUME NEW o, NEW R, NEW w, Good(o, R, w),
         NEW s \in R, NEW node \in Nodes, NEW v, Fits(o, R, w, v)
  PROVE  LET u == NewNode(w, s, node, v) IN
         /\ Good(o, R, u) /\ Grows(w, u)
         /\ u.env = w.env
         /\ \A j \in 1 .. Len(w.shells), y \in Names :
              (j # s \/ y # node.id) => u.shells[j].vars[y] = w.shells[j].vars[y]
<1> DEFINE put == PutElement(w, s, node, v)
           obj == Getvar(w, s, node.id)
           u == NewNode(w, s, node, v)
<1>1. w \in Worlds /\ v \in Vals /\ node.id \in Names /\ s \in 1 .. Len(w.shells)
  BY GoodIs DEF Fits, Held, Nodes
<1>2. u = IF node.idx = NoIndex THEN Newvar(w, s, node.id, v)
          ELSE IF put.ok THEN Newvar(put, s, node.id, obj) ELSE put
  BY DEF NewNode
<1> HIDE DEF put, obj, u
<1>3. CASE node.idx = NoIndex
  <2>1. u = Newvar(w, s, node.id, v)
    BY <1>2, <1>3
  <2>2. Good(o, R, u) /\ Grows(w, u)
    BY <1>1, <2>1, NewvarGood
  <2>3. /\ u.env = w.env
        /\ \A j \in 1 .. Len(w.shells), y \in Names :
             (j # s \/ y # node.id) => u.shells[j].vars[y] = w.shells[j].vars[y]
    BY <1>1, <2>1, NewvarIs
  <2> QED
    BY <2>2, <2>3 DEF u
<1>4. CASE node.idx # NoIndex
  <2>1. Good(o, R, put) /\ Grows(w, put) /\ put.env = w.env /\ put.shells = w.shells
    BY <1>4, PutElementGood DEF put
  <2>2. CASE ~put.ok
    BY <1>2, <1>4, <2>1, <2>2 DEF u
  <2>3. CASE put.ok
    <3>1. u = Newvar(put, s, node.id, obj)
      BY <1>2, <1>4, <2>3
    <3>2. Fits(o, R, put, obj)
      <4>1. Fits(o, R, w, obj)
        BY <1>1, GetvarGood DEF obj
      <4>2. put \in Worlds
        BY <2>1, GoodIs
      <4> QED
        BY <1>1, <2>1, <4>1, <4>2, HeldGrows DEF Fits
    <3>3. put \in Worlds /\ obj \in Vals /\ s \in 1 .. Len(put.shells)
      BY <1>1, <2>1, <3>2, GoodIs DEF Fits, Held
    <3>4. Good(o, R, u) /\ Grows(put, u)
      BY <1>1, <2>1, <3>1, <3>2, NewvarGood
    <3>5. Grows(w, u)
      BY <1>1, <2>1, <3>3, <3>4, GoodIs, GrowsTransitive
    <3>6. /\ u.env = w.env
          /\ \A j \in 1 .. Len(w.shells), y \in Names :
               (j # s \/ y # node.id) => u.shells[j].vars[y] = w.shells[j].vars[y]
      <4>1. /\ u.env = put.env
            /\ \A j \in 1 .. Len(put.shells) :
                 /\ j # s => u.shells[j] = put.shells[j]
                 /\ \A y \in Names : u.shells[j].vars[y] =
                      IF j = s /\ y = node.id THEN obj ELSE put.shells[j].vars[y]
        BY <1>1, <3>1, <3>3, NewvarIs
      <4> QED
        BY <2>1, <4>1
    <3> QED
      BY <3>4, <3>5, <3>6 DEF u
  <2> QED
    BY <2>2, <2>3
<1> QED
  BY <1>3, <1>4

LEMMA SetNodeGood ==
  ASSUME NEW o, NEW R, NEW w, Good(o, R, w),
         NEW s \in R, NEW node \in Nodes, NEW v, Fits(o, R, w, v)
  PROVE  LET u == SetNode(w, s, node, v) IN
         Good(o, R, u) /\ Grows(w, u) /\ u.env = w.env
<1> DEFINE put == PutElement(w, s, node, v)
           obj == Getvar(w, s, node.id)
           u == SetNode(w, s, node, v)
<1>1. w \in Worlds /\ v \in Vals /\ node.id \in Names
  BY GoodIs DEF Fits, Held, Nodes
<1>2. u = IF node.idx = NoIndex THEN Setvar(w, s, node.id, v)
          ELSE IF put.ok THEN Setvar(put, s, node.id, obj) ELSE put
  BY DEF SetNode
<1> HIDE DEF put, obj, u
<1>3. CASE node.idx = NoIndex
  BY <1>1, <1>2, <1>3, SetvarGood DEF u
<1>4. CASE node.idx # NoIndex
  <2>1. Good(o, R, put) /\ Grows(w, put) /\ put.env = w.env
    BY <1>4, PutElementGood DEF put
  <2>2. put \in Worlds
    BY <2>1, GoodIs
  <2>3. CASE ~put.ok
    BY <1>2, <1>4, <2>1, <2>3 DEF u
  <2>4. CASE put.ok
    <3>1. u = Setvar(put, s, node.id, obj)
      BY <1>2, <1>4, <2>4
    <3>2. Fits(o, R, put, obj)
      <4>1. Fits(o, R, w, obj)
        BY <1>1, GetvarGood DEF obj
      <4> QED
        BY <1>1, <2>1, <2>2, <4>1, HeldGrows DEF Fits
    <3>3. Good(o, R, u) /\ Grows(put, u) /\ u.env = put.env
      BY <1>1, <2>1, <3>1, <3>2, SetvarGood
    <3>4. Grows(w, u)
      BY <1>1, <2>1, <2>2, <3>3, GoodIs, GrowsTransitive
    <3> QED
      BY <2>1, <3>3, <3>4 DEF u
  <2> QED
    BY <2>3, <2>4
<1> QED
  BY <1>3, <1>4

LEMMA ExportGood ==
  ASSUME NEW o, NEW R, NEW w, Good(o, R, w), NEW s \in R, NEW x \in Names
  PROVE  Good(o, R, Export(w, s, x)) /\ Grows(w, Export(w, s, x))
<1> DEFINE v == w.shells[s].vars[x]
<1>1. w \in Worlds /\ Fits(o, R, w, v)
  BY GoodIs DEF Fits, Good, Sound, Within
<1>2. Export(w, s, x) = IF v = Unset THEN Fail(w) ELSE Setenv(w, x, v)
  BY DEF Export
<1> HIDE DEF v
<1>3. Good(o, R, Fail(w)) /\ Grows(w, Fail(w))
  BY <1>1, FailIs, SameGood
<1> QED
  BY <1>1, <1>2, <1>3, SetenvGood

LEMMA SetenvNodeGood ==
  ASSUME NEW o, NEW R, NEW w, Good(o, R, w),
         NEW s \in R, NEW node \in Nodes, NEW v, Fits(o, R, w, v)
  PROVE  Good(o, R, SetenvNode(w, s, node, v)) /\ Grows(w, SetenvNode(w, s, node, v))
<1> DEFINE new == NewNode(w, s, node, v)
           u == Export(new, s, node.id)
<1>1. Good(o, R, new) /\ Grows(w, new)
  BY NewNodeGood
<1>2. SetenvNode(w, s, node, v) = IF new.ok THEN u ELSE new
  BY DEF SetenvNode
<1> HIDE DEF new
<1>3. node.id \in Names
  BY DEF Nodes
<1>4. Good(o, R, u) /\ Grows(new, u)
  BY <1>1, <1>3, ExportGood
<1> HIDE DEF u
<1>5. Grows(w, u)
  BY <1>1, <1>4, GoodIs, GrowsTransitive
<1> QED
  BY <1>1, <1>2, <1>4, <1>5

\* The expression refers to nothing but values of R.
ExprFits(o, R, w, e) ==
  /\ e \in Exprs
  /\ e.kind = "elem" => e.idx \in Nat
  /\ e.kind = "val" => Fits(o, R, w, e.val)

LEMMA PlainFits ==
  ASSUME NEW o, NEW R, NEW w
  PROVE  Fits(o, R, w, Unset) /\ \A t \in Strings : Fits(o, R, w, Str(t))
BY UnsetIs DEF Fits, Held, Mine

LEMMA NewListGood ==
  ASSUME NEW o, NEW R, NEW w, Good(o, R, w), NEW strs \in Arrays
  PROVE  LET made == NewList(w.heap, strs)
             u == [w EXCEPT !.heap = made.heap] IN
         /\ Good(o, R, u) /\ Grows(w, u) /\ Fits(o, R, u, made.val)
         /\ u.env = w.env /\ u.shells = w.shells /\ u.ok = w.ok
         /\ made.val.type = "list"
<1> DEFINE made == NewList(w.heap, strs)
           h == made.heap
           u == [w EXCEPT !.heap = h]
<1>1. w \in Worlds /\ w.heap \in Seq(Arrays) /\ Len(w.heap) \in Nat
  BY GoodIs DEF Worlds
<1>2. /\ h = Append(w.heap, strs)
      /\ made.val \in Vals /\ made.val.type = "list"
      /\ made.val.ref = Len(w.heap) + 1 /\ made.val.len = Len(strs)
  BY <1>1, NewListIs
<1> HIDE DEF made
<1>3. /\ h \in Seq(Arrays) /\ Len(h) = Len(w.heap) + 1 /\ h[Len(w.heap) + 1] = strs
      /\ \A a \in 1 .. Len(w.heap) : h[a] = w.heap[a]
  BY <1>1, <1>2
<1> HIDE DEF h
<1>4. u \in Worlds /\ u.heap = h /\ u.env = w.env /\ u.shells = w.shells /\ u.ok = w.ok
  BY <1>1, <1>3, HeapIs
<1>5. Good(o, R, u) /\ Grows(w, u)
  BY <1>1, <1>3, HeapGood
<1> HIDE DEF u
<1>6. Fits(o, R, u, made.val)
  <2>1. Held(u, made.val)
    <3>1. Len(strs) <= Len(strs)
      BY DEF Arrays
    <3> QED
      BY <1>1, <1>2, <1>3, <1>4, <3>1 DEF Held
  <2>2. made.val.ref \notin 1 .. Len(o.heap)
    BY <1>1, <1>2 DEF Good, Within
  <2> QED
    BY <2>1, <2>2 DEF Fits, Mine
<1> QED
  BY <1>2, <1>4, <1>5, <1>6 DEF made, h, u

LEMMA GetIs ==
  ASSUME NEW o, NEW R, NEW w, Good(o, R, w), NEW v, Held(w, v), NEW i \in Nat, HasIndex(v, i)
  PROVE  Get(w.heap, v, i) \in Strings
<1>1. CASE v.type = "str"
  BY <1>1 DEF Get, Held, Vals
<1>2. CASE v.type # "str"
  <2>1. v.type = "list" /\ i < v.len /\ v.len \in Nat /\ w.heap \in Seq(Seq(Strings))
    BY <1>2, GoodIs DEF HasIndex, Held, Vals, Worlds, Arrays
  <2>2. v.ref \in 1 .. Len(w.heap) /\ v.len <= Len(w.heap[v.ref]) /\ w.heap[v.ref] \in Seq(Strings)
    BY <2>1 DEF Held
  <2>3. i + 1 \in 1 .. Len(w.heap[v.ref])
    BY <2>1, <2>2
  <2>4. w.heap[v.ref][i + 1] \in Strings
    BY <2>2, <2>3
  <2> QED
    BY <1>2, <2>4 DEF Get
<1> QED
  BY <1>1, <1>2

\* Evaluation writes to no variable.
LEMMA EvalGood ==
  ASSUME NEW o, NEW R, NEW w, Good(o, R, w), NEW s \in R, NEW e, ExprFits(o, R, w, e)
  PROVE  LET this == Eval(w, s, e) IN
         /\ Good(o, R, this.w) /\ Grows(w, this.w)
         /\ Fits(o, R, this.w, this.val)
         /\ this.w.env = w.env /\ this.w.shells = w.shells
<1> DEFINE obj == Getvar(w, s, e.id)
           made == NewList(w.heap, e.strs)
           this == Eval(w, s, e)
<1>1. /\ w \in Worlds /\ e.id \in Names /\ e.strs \in Arrays
      /\ e.kind \in {"val", "var", "elem", "list"}
  BY GoodIs DEF ExprFits, Exprs, Arrays
<1>2. this = CASE e.kind = "val"  -> [w |-> w, val |-> e.val]
               [] e.kind = "list" -> [w |-> [w EXCEPT !.heap = made.heap], val |-> made.val]
               [] e.kind = "var"  -> [w |-> IF obj = Unset THEN Fail(w) ELSE w, val |-> obj]
               [] e.kind = "elem" ->
                    IF HasIndex(obj, e.idx)
                    THEN [w |-> w, val |-> Str(Get(w.heap, obj, e.idx))]
                    ELSE [w |-> Fail(w), val |-> Unset]
  BY DEF Eval
<1>3. Fits(o, R, w, obj)
  BY <1>1, GetvarGood
<1>4. /\ Good(o, R, Fail(w)) /\ Grows(w, Fail(w)) /\ Good(o, R, w) /\ Grows(w, w)
      /\ Fail(w).env = w.env /\ Fail(w).shells = w.shells
      /\ \A v : Fits(o, R, w, v) => Fits(o, R, Fail(w), v)
  <2>1. /\ Fail(w) \in Worlds /\ Fail(w).env = w.env
        /\ Fail(w).shells = w.shells /\ Fail(w).heap = w.heap
    BY <1>1, FailIs
  <2> QED
    BY <1>1, <2>1, SameGood DEF Fits, Held
<1> HIDE DEF obj, made, this
<1>5. CASE e.kind = "val"
  <2>1. this.w = w /\ this.val = e.val
    BY <1>2, <1>5
  <2> QED
    BY <1>4, <1>5, <2>1 DEF this, ExprFits
<1>6. CASE e.kind = "list"
  <2>1. this.w = [w EXCEPT !.heap = made.heap] /\ this.val = made.val
    BY <1>2, <1>6
  <2> QED
    BY <1>1, <2>1, NewListGood DEF this, made
<1>7. CASE e.kind = "var"
  <2>1. (this.w = w \/ this.w = Fail(w)) /\ this.val = obj
    BY <1>2, <1>7
  <2> QED
    BY <1>3, <1>4, <2>1 DEF this
<1>8. CASE e.kind = "elem"
  <2>1. CASE HasIndex(obj, e.idx)
    <3>1. this.w = w /\ this.val = Str(Get(w.heap, obj, e.idx))
      BY <1>2, <1>8, <2>1
    <3>2. Get(w.heap, obj, e.idx) \in Strings
      BY <1>3, <1>8, <2>1, GetIs DEF ExprFits, Fits
    <3> QED
      BY <1>4, <3>1, <3>2, PlainFits DEF this
  <2>2. CASE ~HasIndex(obj, e.idx)
    <3>1. this.w = Fail(w) /\ this.val = Unset
      BY <1>2, <1>8, <2>2
    <3> QED
      BY <1>4, <3>1, PlainFits DEF this
  <2> QED
    BY <2>1, <2>2
<1> QED
  BY <1>1, <1>5, <1>6, <1>7, <1>8

LEMMA ExprGrows ==
  ASSUME NEW o, NEW R, NEW w \in Worlds, NEW u \in Worlds, Grows(w, u),
         NEW e, ExprFits(o, R, w, e)
  PROVE  ExprFits(o, R, u, e)
BY HeldGrows DEF ExprFits, Fits

Hows == {"var", "set", "setenv", "newvars", "export"}

LEMMA TurnGood ==
  ASSUME NEW o, NEW R, NEW w, Good(o, R, w), NEW s \in R, NEW how \in Hows,
         NEW node \in Nodes, NEW e, ExprFits(o, R, w, e)
  PROVE  LET u == Turn(w, s, how, node, e) IN
         /\ Good(o, R, u) /\ Grows(w, u)
         /\ how \in {"var", "set", "newvars"} => u.env = w.env
<1> DEFINE this == Eval(w, s, e)
           v == this.w
           new == NewNode(v, s, node, this.val)
           one == SetOne(v, s, how, node, this.val)
           u == Turn(w, s, how, node, e)
<1>1. /\ Good(o, R, v) /\ Grows(w, v) /\ Fits(o, R, v, this.val)
      /\ v.env = w.env
  BY EvalGood
<1>2. u = IF v.ok THEN one ELSE v
  BY DEF Turn
<1> HIDE DEF this, v
<1>3. /\ Good(o, R, new) /\ Grows(v, new) /\ new.env = v.env
  BY <1>1, NewNodeGood
<1>4. /\ Good(o, R, one) /\ Grows(v, one)
      /\ how \in {"var", "set", "newvars"} => one.env = v.env
  <2>1. CASE how = "var"
    BY <1>3, <2>1 DEF SetOne
  <2>2. CASE how = "set"
    BY <1>1, <2>2, SetNodeGood DEF SetOne
  <2>3. CASE how = "setenv"
    BY <1>1, <2>3, SetenvNodeGood DEF SetOne
  <2>4. CASE how = "newvars"
    <3> DEFINE t == [new EXCEPT !.ok = TRUE]
    <3>1. one = t
      BY <2>4 DEF SetOne
    <3>2. new \in Worlds
      BY <1>3, GoodIs
    <3> HIDE DEF new
    <3>3. t \in Worlds /\ t.shells = new.shells /\ t.heap = new.heap /\ t.env = new.env
      BY <3>2 DEF Worlds
    <3> HIDE DEF t
    <3>4. Good(o, R, t) /\ Grows(new, t)
      BY <1>3, <3>3, SameGood
    <3>5. Grows(v, t)
      BY <1>1, <1>3, <3>2, <3>3, <3>4, GoodIs, GrowsTransitive
    <3> QED
      BY <1>3, <2>4, <3>1, <3>3, <3>4, <3>5
  <2>5. CASE how = "export"
    <3>1. node.id \in Names
      BY DEF Nodes
    <3> QED
      BY <1>1, <2>5, <3>1, ExportGood DEF SetOne
  <2> QED
    BY <2>1, <2>2, <2>3, <2>4, <2>5 DEF Hows
<1> HIDE DEF one
<1>5. Grows(w, one)
  BY <1>1, <1>4, GoodIs, GrowsTransitive
<1> QED
  BY <1>1, <1>2, <1>4, <1>5

-----------------------------------------------------------------------------
(***************************************************************************)
(* Scopes: one name after the other.                                       *)
(***************************************************************************)

DoneOf(w, s, how, nodes, es) ==
  CHOOSE f : f = [n \in 0 .. Len(nodes) |->
                    IF n = 0 THEN w
                    ELSE IF ~f[n - 1].ok THEN f[n - 1]
                    ELSE Turn(f[n - 1], s, how, nodes[n], es[n])]

LEMMA DoneUnfolds ==
  ASSUME NEW w, NEW s, NEW how, NEW nodes, Len(nodes) \in Nat, NEW es
  PROVE  LET f == DoneOf(w, s, how, nodes, es) IN
         /\ f[0] = w
         /\ \A n \in 1 .. Len(nodes) :
              f[n] = IF ~f[n - 1].ok THEN f[n - 1] ELSE Turn(f[n - 1], s, how, nodes[n], es[n])
<1> DEFINE Next1(u, n) == IF ~u.ok THEN u ELSE Turn(u, s, how, nodes[n], es[n])
           Step(f, n) == IF n = 0 THEN w ELSE Next1(f[n - 1], n)
           Known == {m \in 0 .. Len(nodes) : \E f : f = [n \in 0 .. m |-> Step(f, n)]}
<1> HIDE DEF Next1
<1>1. ASSUME NEW m \in 0 .. Len(nodes), \A k \in 0 .. m - 1 : k \in Known
      PROVE  m \in Known
  <2>1. CASE m = 0
    <3> DEFINE f0 == [n \in 0 .. 0 |-> w]
    <3>1. f0 = [n \in 0 .. 0 |-> Step(f0, n)]
      OBVIOUS
    <3>2. \E f : f = [n \in 0 .. 0 |-> Step(f, n)]
      BY <3>1
    <3> QED
      BY <3>2, <2>1
  <2>2. CASE m > 0
    <3>1. m - 1 \in Known
      <4> HIDE DEF Known
      <4> QED
        BY <1>1, <2>2
    <3>2. PICK f : f = [n \in 0 .. m - 1 |-> Step(f, n)]
      BY <3>1
    <3> DEFINE g == [n \in 0 .. m |-> IF n = m THEN Next1(f[m - 1], m) ELSE f[n]]
    <3>3. ASSUME NEW n \in 0 .. m PROVE g[n] = Step(g, n)
      <4>1. CASE n = 0
        BY <4>1, <3>2, <2>2
      <4>2. CASE n \in 1 .. m
        <5>1. n - 1 \in 0 .. m - 1 /\ g[n - 1] = f[n - 1]
          BY <4>2
        <5>2. n # m => f[n] = Next1(f[n - 1], n)
          BY <3>2, <4>2
        <5>3. g[n] = Next1(f[n - 1], n)
          BY <5>2, <4>2
        <5> QED
          BY <5>1, <5>3, <4>2
      <4> QED
        BY <4>1, <4>2
    <3>4. g = [n \in 0 .. m |-> Step(g, n)]
      BY <3>3
    <3>5. \E f1 : f1 = [n \in 0 .. m |-> Step(f1, n)]
      BY <3>4
    <3> QED
      BY <3>5
  <2> QED
    BY <2>1, <2>2
<1> HIDE DEF Known
<1>2. \A m \in 0 .. Len(nodes) : m \in Known
  BY <1>1, UpTo
<1>3. Len(nodes) \in Known
  BY <1>2
<1>4. \E f : f = [n \in 0 .. Len(nodes) |-> Step(f, n)]
  BY <1>3 DEF Known
<1> DEFINE d == DoneOf(w, s, how, nodes, es)
<1>5. d = [n \in 0 .. Len(nodes) |-> Step(d, n)]
  BY <1>4 DEF DoneOf, Next1
<1> HIDE DEF d
<1>6. d[0] = w /\ \A n \in 1 .. Len(nodes) : d[n] = Next1(d[n - 1], n)
  BY <1>5
<1> QED
  BY <1>6 DEF d, Next1

\* What every turn keeps, the whole keeps.
LEMMA InTurnKeeps ==
  ASSUME NEW w, NEW s, NEW how, NEW nodes, Len(nodes) \in Nat, NEW es,
         NEW T, w \in T,
         \A u \in T : \A n \in 1 .. Len(nodes) :
           u.ok => Turn(u, s, how, nodes[n], es[n]) \in T
  PROVE  InTurn(w, s, how, nodes, es) \in T
<1> DEFINE f == DoneOf(w, s, how, nodes, es)
           S == {n \in 0 .. Len(nodes) : f[n] \in T}
<1>1. /\ f[0] = w
      /\ \A n \in 1 .. Len(nodes) :
           f[n] = IF ~f[n - 1].ok THEN f[n - 1] ELSE Turn(f[n - 1], s, how, nodes[n], es[n])
  BY DoneUnfolds
<1>2. InTurn(w, s, how, nodes, es) = f[Len(nodes)]
  BY DEF InTurn, DoneOf
<1> HIDE DEF f
<1>3. ASSUME NEW n \in 0 .. Len(nodes), \A k \in 0 .. n - 1 : k \in S PROVE n \in S
  <2>1. CASE n = 0
    BY <1>1, <2>1
  <2>2. CASE n > 0
    <3>1. f[n - 1] \in T /\ n \in 1 .. Len(nodes)
      BY <1>3, <2>2
    <3>2. f[n] \in T
      BY <1>1, <3>1
    <3> QED
      BY <3>2
  <2> QED
    BY <2>1, <2>2
<1> HIDE DEF S
<1>4. \A n \in 0 .. Len(nodes) : n \in S
  BY <1>3, UpTo
<1> QED
  BY <1>2, <1>4 DEF S

LEMMA InTurnOne ==
  ASSUME NEW w, w.ok, NEW s, NEW how, NEW nodes, Len(nodes) = 1, NEW es
  PROVE  InTurn(w, s, how, nodes, es) = Turn(w, s, how, nodes[1], es[1])
<1> DEFINE f == DoneOf(w, s, how, nodes, es)
<1>1. f[0] = w /\ f[1] = IF ~f[0].ok THEN f[0] ELSE Turn(f[0], s, how, nodes[1], es[1])
  BY DoneUnfolds
<1>2. InTurn(w, s, how, nodes, es) = f[Len(nodes)]
  BY DEF InTurn, DoneOf
<1> HIDE DEF f
<1> QED
  BY <1>1, <1>2

LEMMA InTurnGood ==
  ASSUME NEW o, NEW R, NEW w, Good(o, R, w), NEW s \in R, NEW how \in Hows,
         NEW nodes \in Seq(Nodes), NEW es,
         \A n \in 1 .. Len(nodes) : ExprFits(o, R, w, es[n])
  PROVE  LET u == InTurn(w, s, how, nodes, es) IN
         /\ Good(o, R, u) /\ Grows(w, u)
         /\ how \in {"var", "set", "newvars"} => u.env = w.env
<1> DEFINE T == {u \in Worlds : /\ Good(o, R, u) /\ Grows(w, u)
                                /\ how \in {"var", "set", "newvars"} => u.env = w.env}
<1>1. w \in T
  BY GoodIs, SameGood
<1>2. ASSUME NEW u \in T, NEW n \in 1 .. Len(nodes)
      PROVE  Turn(u, s, how, nodes[n], es[n]) \in T
  <2> DEFINE t == Turn(u, s, how, nodes[n], es[n])
  <2>1. nodes[n] \in Nodes /\ w \in Worlds
    BY GoodIs
  <2>2. ExprFits(o, R, u, es[n])
    BY <2>1, ExprGrows
  <2>3. /\ Good(o, R, t) /\ Grows(u, t)
        /\ how \in {"var", "set", "newvars"} => t.env = u.env
    BY <2>1, <2>2, TurnGood
  <2> HIDE DEF t
  <2>4. t \in Worlds
    BY <2>3, GoodIs
  <2>5. Grows(w, t)
    BY <2>1, <2>3, <2>4, GrowsTransitive
  <2> QED
    BY <2>3, <2>4, <2>5 DEF t
<1> HIDE DEF T
<1>3. InTurn(w, s, how, nodes, es) \in T
  BY <1>1, <1>2, InTurnKeeps
<1> QED
  BY <1>3 DEF T

-----------------------------------------------------------------------------
(***************************************************************************)
(* Scopes: what a name stands for afterwards.                              *)
(***************************************************************************)

\* Which shells are looked up does not depend on their variables.
LEMMA ChainSame ==
  ASSUME NEW sh, Tree(sh), NEW sh2, Tree(sh2), Len(sh2) = Len(sh),
         \A k \in 1 .. Len(sh) : sh2[k].parent = sh[k].parent,
         NEW s \in 1 .. Len(sh)
  PROVE  Chain(sh2, s) = Chain(sh, s)
<1> DEFINE S == {n \in 0 .. Len(sh) : Chain(sh2, n) = Chain(sh, n)}
<1>1. Len(sh) \in Nat
  BY DEF Tree
<1>2. ASSUME NEW n \in 0 .. Len(sh), \A k \in 0 .. n - 1 : k \in S PROVE n \in S
  <2> SUFFICES Chain(sh2, n) = Chain(sh, n)
    OBVIOUS
  <2>1. CASE n = 0
    <3>1. 1 \in 1 .. Len(sh)
      BY DEF Tree
    <3> QED
      BY <2>1, <3>1, ChainIs
  <2>2. CASE n > 0
    <3> DEFINE q == sh[n].parent
    <3>1. n \in 1 .. Len(sh) /\ q \in 0 .. n - 1 /\ sh2[n].parent = q
      BY <1>1, <2>2 DEF Tree
    <3>2. Chain(sh2, q) = Chain(sh, q)
      BY <1>2, <3>1
    <3>3. Chain(sh, n) = {n} \cup Chain(sh, q)
      BY <3>1, ChainIs
    <3>4. Chain(sh2, n) = {n} \cup Chain(sh2, sh2[n].parent)
      BY <3>1, ChainIs
    <3> QED
      BY <3>1, <3>2, <3>3, <3>4
  <2> QED
    BY <1>1, <2>1, <2>2
<1> HIDE DEF S
<1>3. \A n \in 0 .. Len(sh) : n \in S
  BY <1>1, <1>2, UpTo
<1> QED
  BY <1>1, <1>3 DEF S

\* The variable of the shell itself comes first.
LEMMA GetvarOwn ==
  ASSUME NEW w, Tree(w.shells), NEW s \in 1 .. Len(w.shells), NEW x,
         w.shells[s].vars[x] # Unset
  PROVE  Getvar(w, s, x) = w.shells[s].vars[x]
<1> DEFINE k == Owner(w.shells, s, x)
<1>1. Chain(w.shells, s) \subseteq 1 .. s /\ s \in Chain(w.shells, s) /\ s \in Nat
  BY ChainClosed
<1>2. k \in Chain(w.shells, s) /\ s <= k
  BY <1>1, OwnerIs
<1>3. k = s /\ k # 0
  BY <1>1, <1>2
<1> QED
  BY <1>3 DEF Getvar, VarOf

LEMMA NewvarTree ==
  ASSUME NEW w \in Worlds, Tree(w.shells), NEW k \in 1 .. Len(w.shells),
         NEW x \in Names, NEW v \in Vals
  PROVE  LET u == Newvar(w, k, x, v) IN
         /\ Tree(u.shells)
         /\ Len(u.shells) = Len(w.shells)
         /\ \A s \in 1 .. Len(w.shells) : Chain(u.shells, s) = Chain(w.shells, s)
<1> DEFINE u == Newvar(w, k, x, v)
<1>1. /\ u \in Worlds /\ Len(u.shells) = Len(w.shells)
      /\ \A j \in 1 .. Len(w.shells) : u.shells[j].parent = w.shells[j].parent
  BY NewvarIs
<1> HIDE DEF u
<1>2. Tree(u.shells)
  BY <1>1 DEF Tree, Worlds
<1> QED
  BY <1>1, <1>2, ChainSame DEF u

\* A name that is set where it is found, or nearer, is found with its value.
LEMMA NewvarSeen ==
  ASSUME NEW w \in Worlds, Tree(w.shells), NEW s \in 1 .. Len(w.shells),
         NEW x \in Names, NEW v \in Vals, v # Unset, NEW j \in Chain(w.shells, s),
         \A i \in Chain(w.shells, s) : w.shells[i].vars[x] # Unset => i <= j
  PROVE  Getvar(Newvar(w, j, x, v), s, x) = v
<1> DEFINE u == Newvar(w, j, x, v)
           k == Owner(u.shells, s, x)
<1>1. Chain(w.shells, s) \subseteq 1 .. Len(w.shells) /\ Len(w.shells) \in Nat
  <2>1. Closed(w.shells, Chain(w.shells, s)) /\ w.shells \in Seq(ShellRecords)
    BY ChainClosed DEF Tree
  <2> QED
    BY <2>1 DEF Closed
<1>2. /\ Tree(u.shells) /\ Len(u.shells) = Len(w.shells)
      /\ Chain(u.shells, s) = Chain(w.shells, s)
  BY <1>1, NewvarTree
<1>3. \A i \in 1 .. Len(w.shells) :
        u.shells[i].vars[x] = IF i = j THEN v ELSE w.shells[i].vars[x]
  BY <1>1, NewvarIs
<1> HIDE DEF u
<1>4. u.shells[j].vars[x] = v
  BY <1>1, <1>3
<1>5. k \in Chain(w.shells, s) /\ u.shells[k].vars[x] # Unset /\ j <= k
  BY <1>2, <1>4, OwnerIs
<1>6. k <= j
  BY <1>1, <1>3, <1>5
<1> HIDE DEF k
<1>7. k = j /\ k # 0
  BY <1>1, <1>5, <1>6
<1>8. Getvar(u, s, x) = IF k = 0 THEN Unset ELSE u.shells[k].vars[x]
  BY DEF Getvar, VarOf, k
<1> QED
  BY <1>4, <1>7, <1>8 DEF u

\* What is copied to the root is still found where it was.
LEMMA RootSeen ==
  ASSUME NEW w \in Worlds, Tree(w.shells), NEW s \in 1 .. Len(w.shells),
         NEW x \in Names, Getvar(w, s, x) # Unset, Getvar(w, s, x) \in Vals
  PROVE  Getvar(Newvar(w, Root, x, Getvar(w, s, x)), s, x) = Getvar(w, s, x)
<1> DEFINE v == Getvar(w, s, x)
           u == Newvar(w, Root, x, v)
           old == Owner(w.shells, s, x)
           k == Owner(u.shells, s, x)
<1>1. /\ Chain(w.shells, s) \subseteq 1 .. Len(w.shells) /\ Len(w.shells) \in Nat
      /\ Root \in 1 .. Len(w.shells)
  <2>1. Closed(w.shells, Chain(w.shells, s)) /\ w.shells \in Seq(ShellRecords)
    BY ChainClosed DEF Tree
  <2>2. Len(w.shells) \in Nat /\ Len(w.shells) >= 1
    BY <2>1 DEF Tree
  <2> QED
    BY <2>1, <2>2 DEF Closed, Root
<1>2. /\ old # 0 /\ old \in Chain(w.shells, s)
      /\ v = w.shells[old].vars[x] /\ v # Unset /\ v \in Vals
      /\ \A i \in Chain(w.shells, s) : w.shells[i].vars[x] # Unset => i <= old
  BY OwnerIs DEF Getvar, VarOf
<1> HIDE DEF old, v
<1>3. /\ Tree(u.shells) /\ Len(u.shells) = Len(w.shells)
      /\ Chain(u.shells, s) = Chain(w.shells, s)
  BY <1>1, <1>2, NewvarTree
<1>4. \A i \in 1 .. Len(w.shells) :
        u.shells[i].vars[x] = IF i = Root THEN v ELSE w.shells[i].vars[x]
  BY <1>1, <1>2, NewvarIs
<1> HIDE DEF u
<1>5. u.shells[old].vars[x] = v
  BY <1>1, <1>2, <1>4
<1>6. k \in Chain(w.shells, s) /\ u.shells[k].vars[x] # Unset /\ old <= k
  BY <1>2, <1>3, <1>5, OwnerIs
<1> HIDE DEF k
<1>7. k = Root \/ k <= old
  BY <1>1, <1>2, <1>4, <1>6
<1>8. k = old
  BY <1>1, <1>2, <1>6, <1>7 DEF Root
<1>9. Getvar(u, s, x) = IF k = 0 THEN Unset ELSE u.shells[k].vars[x]
  BY DEF Getvar, VarOf, k
<1> QED
  BY <1>2, <1>5, <1>8, <1>9 DEF u, v

\* The value exported under y is the one of the variable of the shell s, and
\* the root has it too.
Shown(s, w, y) ==
  /\ w.env[y] # Unset
  /\ w.shells[s].vars[y] = w.env[y]
  /\ w.shells[Root].vars[y] = w.env[y]

\* So it is with every name that is not exported as it was in the world o.
Exports(o, s, w) == \A y \in Names : w.env[y] # o.env[y] => Shown(s, w, y)

LEMMA EvalSet ==
  ASSUME NEW o, NEW R, NEW w, Good(o, R, w), NEW s \in R, NEW e, ExprFits(o, R, w, e),
         e.kind = "val" => e.val # Unset, Eval(w, s, e).w.ok
  PROVE  Eval(w, s, e).val # Unset
<1> DEFINE obj == Getvar(w, s, e.id)
           made == NewList(w.heap, e.strs)
           this == Eval(w, s, e)
<1>1. /\ w \in Worlds /\ e.id \in Names /\ e.strs \in Arrays
      /\ e.kind \in {"val", "var", "elem", "list"}
  BY GoodIs DEF ExprFits, Exprs, Arrays
<1>2. this = CASE e.kind = "val"  -> [w |-> w, val |-> e.val]
               [] e.kind = "list" -> [w |-> [w EXCEPT !.heap = made.heap], val |-> made.val]
               [] e.kind = "var"  -> [w |-> IF obj = Unset THEN Fail(w) ELSE w, val |-> obj]
               [] e.kind = "elem" ->
                    IF HasIndex(obj, e.idx)
                    THEN [w |-> w, val |-> Str(Get(w.heap, obj, e.idx))]
                    ELSE [w |-> Fail(w), val |-> Unset]
  BY DEF Eval
<1>3. Fits(o, R, w, obj)
  BY <1>1, GetvarGood
<1>4. ~Fail(w).ok
  BY <1>1, FailIs
<1>5. CASE e.kind = "val"
  <2>1. this.val = e.val
    BY <1>2, <1>5
  <2> QED
    BY <1>5, <2>1
<1>6. CASE e.kind = "list"
  <2>1. this.val = made.val
    BY <1>2, <1>6
  <2>2. made.val.type = "list"
    BY <1>1, NewListGood
  <2> QED
    BY <2>1, <2>2, UnsetIs
<1> HIDE DEF obj, made
<1>7. CASE e.kind = "var"
  <2>1. this.val = obj /\ this.w = IF obj = Unset THEN Fail(w) ELSE w
    BY <1>2, <1>7
  <2> QED
    BY <1>4, <2>1
<1>8. CASE e.kind = "elem"
  <2>1. CASE HasIndex(obj, e.idx)
    <3>1. this.val = Str(Get(w.heap, obj, e.idx))
      BY <1>2, <1>8, <2>1
    <3>2. Get(w.heap, obj, e.idx) \in Strings
      BY <1>3, <1>8, <2>1, GetIs DEF ExprFits, Fits
    <3> QED
      BY <3>1, <3>2, UnsetIs
  <2>2. CASE ~HasIndex(obj, e.idx)
    <3>1. this.w = Fail(w)
      BY <1>2, <1>8, <2>2
    <3> QED
      BY <1>4, <3>1
  <2> QED
    BY <2>1, <2>2
<1> QED
  BY <1>1, <1>5, <1>6, <1>7, <1>8

\* A declaration that fails does nothing to the variables, and one that does
\* not declares the name.
LEMMA NewNodeSets ==
  ASSUME NEW o, NEW R, NEW w, Good(o, R, w), w.ok,
         NEW s \in R, NEW node \in Nodes, NEW v, Fits(o, R, w, v), v # Unset
  PROVE  LET u == NewNode(w, s, node, v) IN
         /\ ~u.ok => u.shells = w.shells
         /\ u.ok => u.shells[s].vars[node.id] # Unset
<1> DEFINE put == PutElement(w, s, node, v)
           obj == Getvar(w, s, node.id)
           u == NewNode(w, s, node, v)
<1>1. w \in Worlds /\ v \in Vals /\ node.id \in Names /\ s \in 1 .. Len(w.shells)
  BY GoodIs DEF Fits, Held, Nodes
<1>2. u = IF node.idx = NoIndex THEN Newvar(w, s, node.id, v)
          ELSE IF put.ok THEN Newvar(put, s, node.id, obj) ELSE put
  BY DEF NewNode
<1>3. Fits(o, R, w, obj)
  BY <1>1, GetvarGood
<1>4. put.ok => obj # Unset
  <2>1. ~Writable(obj, node.idx) => put = Fail(w)
    BY DEF PutElement
  <2>2. Writable(obj, node.idx) => obj.type = "list"
    BY DEF Writable
  <2> QED
    BY <1>1, <2>1, <2>2, FailIs, UnsetIs
<1> HIDE DEF put, obj, u
<1>5. CASE node.idx = NoIndex
  <2>1. u = Newvar(w, s, node.id, v)
    BY <1>2, <1>5
  <2>2. u.ok /\ u.shells[s].vars[node.id] = v
    BY <1>1, <2>1, NewvarIs
  <2> QED
    BY <2>2 DEF u
<1>6. CASE node.idx # NoIndex
  <2>1. Good(o, R, put) /\ put.shells = w.shells
    BY <1>6, PutElementGood DEF put
  <2>2. CASE ~put.ok
    BY <1>2, <1>6, <2>1, <2>2 DEF u
  <2>3. CASE put.ok
    <3>1. u = Newvar(put, s, node.id, obj)
      BY <1>2, <1>6, <2>3
    <3>2. put \in Worlds /\ obj \in Vals /\ s \in 1 .. Len(put.shells)
      BY <1>1, <1>3, <2>1, GoodIs DEF Fits, Held
    <3>3. u.ok /\ u.shells[s].vars[node.id] = obj
      BY <1>1, <2>3, <3>1, <3>2, NewvarIs
    <3> QED
      BY <1>4, <2>3, <3>3 DEF u
  <2> QED
    BY <2>2, <2>3
<1> QED
  BY <1>5, <1>6

\* What is exported is what the shell has, and nothing if it has nothing.
LEMMA ExportExports ==
  ASSUME NEW o, NEW R, NEW w, Good(o, R, w), NEW s \in R, NEW x \in Names,
         \A y \in Names \ {x} : w.env[y] # o.env[y] => Shown(s, w, y),
         w.shells[s].vars[x] = Unset => Exports(o, s, w)
  PROVE  Exports(o, s, Export(w, s, x))
<1> DEFINE v == w.shells[s].vars[x]
           n == Newvar(w, Root, x, v)
           u == Export(w, s, x)
<1>1. /\ w \in Worlds /\ v \in Vals /\ Len(w.shells) >= 1
      /\ s \in 1 .. Len(w.shells) /\ Root \in 1 .. Len(w.shells)
  BY GoodIs DEF Good, Sound, Held, Tree
<1>2. u = IF v = Unset THEN Fail(w) ELSE Setenv(w, x, v)
  BY DEF Export
<1>3. CASE v = Unset
  <2>1. u.shells = w.shells /\ u.env = w.env
    BY <1>1, <1>2, <1>3, FailIs
  <2>2. Exports(o, s, w)
    BY <1>3
  <2> HIDE DEF u
  <2> QED
    BY <2>1, <2>2 DEF Exports, Shown, u
<1>4. CASE v # Unset
  <2>1. /\ u.shells = n.shells
        /\ \A y \in Names : u.env[y] = IF y = x THEN v ELSE w.env[y]
    BY <1>1, <1>2, <1>4, SetenvIs
  <2>2. \A j \in 1 .. Len(w.shells) : \A y \in Names :
          n.shells[j].vars[y] = IF j = Root /\ y = x THEN v ELSE w.shells[j].vars[y]
    BY <1>1, NewvarIs
  <2> HIDE DEF u, n
  <2>3. ASSUME NEW y \in Names, u.env[y] # o.env[y] PROVE Shown(s, u, y)
    <3>1. CASE y = x
      <4>1. u.env[y] = v /\ u.shells[Root].vars[y] = v /\ u.shells[s].vars[y] = v
        BY <1>1, <2>1, <2>2, <3>1
      <4> QED
        BY <1>4, <4>1 DEF Shown
    <3>2. CASE y # x
      <4>1. /\ u.env[y] = w.env[y]
            /\ u.shells[Root].vars[y] = w.shells[Root].vars[y]
            /\ u.shells[s].vars[y] = w.shells[s].vars[y]
        BY <1>1, <2>1, <2>2, <3>2
      <4> QED
        BY <2>3, <3>2, <4>1 DEF Shown
    <3> QED
      BY <3>1, <3>2
  <2> QED
    BY <2>3 DEF Exports, u
<1> QED
  BY <1>3, <1>4

LEMMA SetenvNodeExports ==
  ASSUME NEW o, NEW R, NEW w, Good(o, R, w), w.ok, NEW s \in R, Exports(o, s, w),
         NEW node \in Nodes, NEW v, Fits(o, R, w, v), v # Unset
  PROVE  Exports(o, s, SetenvNode(w, s, node, v))
<1> DEFINE new == NewNode(w, s, node, v)
<1>1. /\ Good(o, R, new) /\ new.env = w.env
      /\ \A j \in 1 .. Len(w.shells), y \in Names :
           (j # s \/ y # node.id) => new.shells[j].vars[y] = w.shells[j].vars[y]
      /\ ~new.ok => new.shells = w.shells
      /\ new.ok => new.shells[s].vars[node.id] # Unset
  BY NewNodeGood, NewNodeSets
<1>2. SetenvNode(w, s, node, v) = IF new.ok THEN Export(new, s, node.id) ELSE new
  BY DEF SetenvNode
<1> HIDE DEF new
<1>3. node.id \in Names /\ s \in 1 .. Len(w.shells) /\ Root \in 1 .. Len(w.shells)
  BY GoodIs DEF Nodes
<1>4. CASE ~new.ok
  BY <1>1, <1>2, <1>4 DEF Exports, Shown
<1>5. CASE new.ok
  <2>1. \A y \in Names \ {node.id} : new.env[y] # o.env[y] => Shown(s, new, y)
    BY <1>1, <1>3 DEF Exports, Shown
  <2>2. Exports(o, s, Export(new, s, node.id))
    BY <1>1, <1>3, <1>5, <2>1, ExportExports
  <2> QED
    BY <1>2, <1>5, <2>2
<1> QED
  BY <1>4, <1>5

LEMMA TurnExports ==
  ASSUME NEW o, NEW R, NEW w, Good(o, R, w), NEW s \in R, Exports(o, s, w),
         NEW how \in {"setenv", "export"}, NEW node \in Nodes,
         NEW e, ExprFits(o, R, w, e), how = "setenv" /\ e.kind = "val" => e.val # Unset
  PROVE  Exports(o, s, Turn(w, s, how, node, e))
<1> DEFINE this == Eval(w, s, e)
           v == this.w
           one == SetOne(v, s, how, node, this.val)
<1>1. /\ Good(o, R, v) /\ Fits(o, R, v, this.val)
      /\ v.env = w.env /\ v.shells = w.shells
  BY EvalGood
<1>2. Turn(w, s, how, node, e) = IF v.ok THEN one ELSE v
  BY DEF Turn
<1>3. v.ok /\ how = "setenv" => this.val # Unset
  BY EvalSet
<1> HIDE DEF this, v
<1>4. Exports(o, s, v)
  BY <1>1 DEF Exports, Shown
<1>5. ASSUME v.ok PROVE Exports(o, s, one)
  <2>1. CASE how = "setenv"
    BY <1>1, <1>3, <1>4, <1>5, <2>1, SetenvNodeExports DEF SetOne
  <2>2. CASE how = "export"
    <3>1. node.id \in Names
      BY DEF Nodes
    <3>2. Exports(o, s, Export(v, s, node.id))
      BY <1>1, <1>4, <3>1, ExportExports DEF Exports
    <3> QED
      BY <2>2, <3>2 DEF SetOne
  <2> QED
    BY <2>1, <2>2
<1> QED
  BY <1>2, <1>4, <1>5

LEMMA InTurnExports ==
  ASSUME NEW o, NEW R, NEW w, Good(o, R, w), NEW s \in R, Exports(o, s, w),
         NEW how \in {"setenv", "export"}, NEW nodes \in Seq(Nodes), NEW es,
         \A n \in 1 .. Len(nodes) :
           /\ ExprFits(o, R, w, es[n])
           /\ how = "setenv" /\ es[n].kind = "val" => es[n].val # Unset
  PROVE  Exports(o, s, InTurn(w, s, how, nodes, es))
<1> DEFINE T == {u \in Worlds : Good(o, R, u) /\ Grows(w, u) /\ Exports(o, s, u)}
<1>1. w \in T
  BY GoodIs, SameGood
<1>2. ASSUME NEW u \in T, NEW n \in 1 .. Len(nodes)
      PROVE  Turn(u, s, how, nodes[n], es[n]) \in T
  <2> DEFINE t == Turn(u, s, how, nodes[n], es[n])
  <2>1. nodes[n] \in Nodes /\ w \in Worlds
    BY GoodIs
  <2>2. ExprFits(o, R, u, es[n])
    BY <2>1, ExprGrows
  <2>3. Good(o, R, t) /\ Grows(u, t)
    BY <2>1, <2>2, TurnGood DEF Hows
  <2>4. Exports(o, s, t)
    BY <2>1, <2>2, TurnExports
  <2> HIDE DEF t
  <2>5. t \in Worlds
    BY <2>3, GoodIs
  <2>6. Grows(w, t)
    BY <2>1, <2>3, <2>5, GrowsTransitive
  <2> QED
    BY <2>3, <2>4, <2>5, <2>6 DEF t
<1> HIDE DEF T
<1>3. InTurn(w, s, how, nodes, es) \in T
  BY <1>1, <1>2, InTurnKeeps
<1> QED
  BY <1>3 DEF T

-----------------------------------------------------------------------------
(***************************************************************************)
(* Scopes: several values, the arguments and the results of a call.        *)
(***************************************************************************)

ValsFit(o, R, w, vals) ==
  vals \in Seq(Vals) /\ \A n \in 1 .. Len(vals) : Fits(o, R, w, vals[n])

LEMMA ValsGrow ==
  ASSUME NEW o, NEW R, NEW w \in Worlds, NEW u \in Worlds, Grows(w, u),
         NEW vals, ValsFit(o, R, w, vals)
  PROVE  ValsFit(o, R, u, vals)
BY HeldGrows DEF ValsFit, Fits

LEMMA ValExprFits ==
  ASSUME NEW o, NEW R, NEW w, NEW v, Fits(o, R, w, v)
  PROVE  ExprFits(o, R, w, ValExpr(v))
<1>1. v \in Vals /\ Param \in Names /\ << >> \in Seq(Strings)
  BY ScopesAssumption DEF Fits, Held
<1> QED
  BY <1>1 DEF ExprFits, ValExpr, Expr, Exprs

Forms == {"none", "var", "set", "setenv"}

LEMMA GiveGood ==
  ASSUME NEW o, NEW R, NEW w, Good(o, R, w), NEW s \in R, NEW form \in Forms,
         NEW nodes \in Seq(Nodes), NEW vals, ValsFit(o, R, w, vals)
  PROVE  LET u == Give(w, s, form, nodes, vals) IN
         /\ Good(o, R, u) /\ Grows(w, u)
         /\ form # "setenv" => u.env = w.env
<1> DEFINE es == [n \in DOMAIN vals |-> ValExpr(vals[n])]
           set == InTurn(w, s, "set", nodes, es)
           new == InTurn(w, s, "newvars", nodes, es)
           out == InTurn(set, s, "export", nodes, es)
           u == Give(w, s, form, nodes, vals)
<1>1. w \in Worlds /\ vals \in Seq(Vals) /\ Len(vals) \in Nat
  BY GoodIs DEF ValsFit
<1>2. u = CASE form = "none" -> w
            [] form # "none" /\ Len(nodes) # Len(vals) -> Fail(w)
            [] form = "var" /\ Len(nodes) = Len(vals) -> new
            [] form = "set" /\ Len(nodes) = Len(vals) -> set
            [] form = "setenv" /\ Len(nodes) = Len(vals) -> IF set.ok THEN out ELSE set
  BY DEF Give
<1>3. \A n \in 1 .. Len(vals) : ExprFits(o, R, w, es[n])
  BY <1>1, ValExprFits DEF ValsFit
<1> HIDE DEF es
<1>4. CASE form = "none"
  <2>1. u = w
    BY <1>2, <1>4
  <2> HIDE DEF u
  <2> QED
    BY <1>1, <2>1, SameGood DEF u
<1>5. CASE form # "none" /\ Len(nodes) # Len(vals)
  <2>1. u = Fail(w)
    BY <1>2, <1>5
  <2> HIDE DEF u
  <2> QED
    BY <1>1, <2>1, SameGood, FailIs DEF u
<1>6. CASE form # "none" /\ Len(nodes) = Len(vals)
  <2>1. Good(o, R, set) /\ Grows(w, set) /\ set.env = w.env
    BY <1>3, <1>6, InTurnGood DEF Hows
  <2>2. Good(o, R, new) /\ Grows(w, new) /\ new.env = w.env
    BY <1>3, <1>6, InTurnGood DEF Hows
  <2> HIDE DEF set
  <2>3. Good(o, R, out) /\ Grows(w, out)
    <3>1. \A n \in 1 .. Len(nodes) : ExprFits(o, R, set, es[n])
      BY <1>1, <1>3, <1>6, <2>1, GoodIs, ExprGrows
    <3>2. Good(o, R, out) /\ Grows(set, out)
      BY <2>1, <3>1, InTurnGood DEF Hows
    <3> HIDE DEF out
    <3> QED
      BY <1>1, <2>1, <3>2, GoodIs, GrowsTransitive
  <2> HIDE DEF new, out, u
  <2>4. u = new \/ u = set \/ (u = out /\ form = "setenv")
    BY <1>2, <1>6 DEF Forms
  <2> QED
    BY <2>1, <2>2, <2>3, <2>4 DEF u
<1> QED
  BY <1>4, <1>5, <1>6

LEMMA SameExports ==
  ASSUME NEW o, NEW s, NEW w, w.env = o.env
  PROVE  Exports(o, s, w)
BY DEF Exports

LEMMA GiveExports ==
  ASSUME NEW o, NEW R, NEW w, Good(o, R, w), w.env = o.env, NEW s \in R, NEW form \in Forms,
         NEW nodes \in Seq(Nodes), NEW vals, ValsFit(o, R, w, vals)
  PROVE  Exports(o, s, Give(w, s, form, nodes, vals))
<1> DEFINE es == [n \in DOMAIN vals |-> ValExpr(vals[n])]
           set == InTurn(w, s, "set", nodes, es)
           out == InTurn(set, s, "export", nodes, es)
           u == Give(w, s, form, nodes, vals)
<1>1. CASE form # "setenv"
  <2>1. u.env = o.env
    BY <1>1, GiveGood
  <2> QED
    BY <2>1, SameExports
<1>2. CASE form = "setenv" /\ Len(nodes) # Len(vals)
  <2>1. u = Fail(w)
    BY <1>2 DEF Give
  <2>2. u.env = o.env
    BY <2>1, GoodIs, FailIs
  <2> QED
    BY <2>2, SameExports
<1>3. CASE form = "setenv" /\ Len(nodes) = Len(vals)
  <2>1. u = IF set.ok THEN out ELSE set
    BY <1>3 DEF Give
  <2>2. w \in Worlds /\ \A n \in 1 .. Len(nodes) : ExprFits(o, R, w, es[n])
    <3>1. vals \in Seq(Vals)
      BY DEF ValsFit
    <3> QED
      BY <1>3, <3>1, GoodIs, ValExprFits DEF ValsFit
  <2> HIDE DEF es
  <2>3. Good(o, R, set) /\ Grows(w, set) /\ set.env = w.env
    BY <2>2, InTurnGood DEF Hows
  <2> HIDE DEF set
  <2>4. \A n \in 1 .. Len(nodes) : ExprFits(o, R, set, es[n])
    BY <2>2, <2>3, GoodIs, ExprGrows
  <2>5. Exports(o, s, set)
    BY <2>3, SameExports
  <2>6. Exports(o, s, out)
    BY <2>3, <2>4, <2>5, InTurnExports
  <2> HIDE DEF out, u
  <2> QED
    BY <2>1, <2>5, <2>6 DEF u
<1> QED
  BY <1>1, <1>2, <1>3

AllStep(u, s, e) ==
  IF ~u.w.ok THEN u
  ELSE [w |-> Eval(u.w, s, e).w, vals |-> Append(u.vals, Eval(u.w, s, e).val)]

AllOf(w, s, es) ==
  CHOOSE f : f = [n \in 0 .. Len(es) |-> IF n = 0 THEN [w |-> w, vals |-> << >>]
                                         ELSE AllStep(f[n - 1], s, es[n])]

LEMMA AllUnfolds ==
  ASSUME NEW w, NEW s, NEW es, Len(es) \in Nat
  PROVE  LET f == AllOf(w, s, es) IN
         /\ f[0] = [w |-> w, vals |-> << >>]
         /\ \A n \in 1 .. Len(es) : f[n] = AllStep(f[n - 1], s, es[n])
<1> DEFINE Next1(u, n) == AllStep(u, s, es[n])
           first == [w |-> w, vals |-> << >>]
           Step(f, n) == IF n = 0 THEN first ELSE Next1(f[n - 1], n)
           Known == {m \in 0 .. Len(es) : \E f : f = [n \in 0 .. m |-> Step(f, n)]}
<1> HIDE DEF Next1, first
<1>1. ASSUME NEW m \in 0 .. Len(es), \A k \in 0 .. m - 1 : k \in Known
      PROVE  m \in Known
  <2>1. CASE m = 0
    <3> DEFINE f0 == [n \in 0 .. 0 |-> first]
    <3>1. f0 = [n \in 0 .. 0 |-> Step(f0, n)]
      OBVIOUS
    <3>2. \E f : f = [n \in 0 .. 0 |-> Step(f, n)]
      BY <3>1
    <3> QED
      BY <3>2, <2>1
  <2>2. CASE m > 0
    <3>1. m - 1 \in Known
      <4> HIDE DEF Known
      <4> QED
        BY <1>1, <2>2
    <3>2. PICK f : f = [n \in 0 .. m - 1 |-> Step(f, n)]
      BY <3>1
    <3> DEFINE g == [n \in 0 .. m |-> IF n = m THEN Next1(f[m - 1], m) ELSE f[n]]
    <3>3. ASSUME NEW n \in 0 .. m PROVE g[n] = Step(g, n)
      <4>1. CASE n = 0
        BY <4>1, <3>2, <2>2
      <4>2. CASE n \in 1 .. m
        <5>1. n - 1 \in 0 .. m - 1 /\ g[n - 1] = f[n - 1]
          BY <4>2
        <5>2. n # m => f[n] = Next1(f[n - 1], n)
          BY <3>2, <4>2
        <5>3. g[n] = Next1(f[n - 1], n)
          BY <5>2, <4>2
        <5> QED
          BY <5>1, <5>3, <4>2
      <4> QED
        BY <4>1, <4>2
    <3>4. g = [n \in 0 .. m |-> Step(g, n)]
      BY <3>3
    <3>5. \E f1 : f1 = [n \in 0 .. m |-> Step(f1, n)]
      BY <3>4
    <3> QED
      BY <3>5
  <2> QED
    BY <2>1, <2>2
<1> HIDE DEF Known
<1>2. \A m \in 0 .. Len(es) : m \in Known
  BY <1>1, UpTo
<1>3. Len(es) \in Known
  BY <1>2
<1>4. \E f : f = [n \in 0 .. Len(es) |-> Step(f, n)]
  BY <1>3 DEF Known
<1> DEFINE d == AllOf(w, s, es)
<1>5. d = [n \in 0 .. Len(es) |-> Step(d, n)]
  BY <1>4 DEF AllOf, Next1, first
<1> HIDE DEF d
<1>6. d[0] = first /\ \A n \in 1 .. Len(es) : d[n] = Next1(d[n - 1], n)
  BY <1>5
<1> QED
  BY <1>6 DEF d, Next1, first

LEMMA EvalAllIs ==
  ASSUME NEW w, NEW s, NEW es
  PROVE  EvalAll(w, s, es) = AllOf(w, s, es)[Len(es)]
BY DEF EvalAll, AllOf, AllStep

LEMMA EvalAllOne ==
  ASSUME NEW w, w.ok, NEW s, NEW es, Len(es) = 1
  PROVE  LET this == Eval(w, s, es[1]) IN
         EvalAll(w, s, es) = [w |-> this.w, vals |-> <<this.val>>]
<1> DEFINE f == AllOf(w, s, es)
           this == Eval(w, s, es[1])
<1>1. /\ f[0] = [w |-> w, vals |-> << >>]
      /\ f[1] = AllStep(f[0], s, es[1])
  BY AllUnfolds
<1>2. EvalAll(w, s, es) = f[1]
  BY EvalAllIs
<1> HIDE DEF f
<1>3. f[0].w = w /\ f[0].vals = << >>
  BY <1>1
<1>4. f[1] = [w |-> this.w, vals |-> Append(<< >>, this.val)]
  BY <1>1, <1>3 DEF AllStep
<1> HIDE DEF this
<1> QED
  BY <1>2, <1>4 DEF this

LEMMA EvalAllGood ==
  ASSUME NEW o, NEW R, NEW w, Good(o, R, w), NEW s \in R, NEW es, Len(es) \in Nat,
         \A n \in 1 .. Len(es) : ExprFits(o, R, w, es[n])
  PROVE  LET all == EvalAll(w, s, es) IN
         /\ Good(o, R, all.w) /\ Grows(w, all.w)
         /\ ValsFit(o, R, all.w, all.vals)
         /\ all.w.env = w.env /\ all.w.shells = w.shells
<1> DEFINE f == AllOf(w, s, es)
           Fine(u) == /\ Good(o, R, u.w) /\ Grows(w, u.w)
                      /\ ValsFit(o, R, u.w, u.vals)
                      /\ u.w.env = w.env /\ u.w.shells = w.shells
           S == {n \in 0 .. Len(es) : Fine(f[n])}
<1>1. /\ f[0] = [w |-> w, vals |-> << >>]
      /\ \A n \in 1 .. Len(es) : f[n] = AllStep(f[n - 1], s, es[n])
  BY AllUnfolds
<1> HIDE DEF f
<1>2. ASSUME NEW n \in 0 .. Len(es), \A k \in 0 .. n - 1 : k \in S PROVE n \in S
  <2>1. CASE n = 0
    <3>1. f[0].w = w /\ f[0].vals = << >>
      BY <1>1
    <3>2. ValsFit(o, R, w, << >>)
      BY DEF ValsFit
    <3>3. Fine(f[0])
      BY <3>1, <3>2, GoodIs, SameGood
    <3> HIDE DEF Fine
    <3> QED
      BY <2>1, <3>3
  <2>2. CASE n > 0
    <3> DEFINE u == f[n - 1]
               this == Eval(u.w, s, es[n])
    <3>1. Fine(u) /\ n \in 1 .. Len(es)
      <4> HIDE DEF Fine
      <4> QED
        BY <1>2, <2>2
    <3>2. f[n] = IF ~u.w.ok THEN u ELSE [w |-> this.w, vals |-> Append(u.vals, this.val)]
      BY <1>1, <3>1 DEF AllStep
    <3> HIDE DEF u
    <3>3. w \in Worlds /\ u.w \in Worlds
      BY <3>1, GoodIs
    <3>4. ExprFits(o, R, u.w, es[n])
      BY <3>1, <3>3, ExprGrows
    <3>5. /\ Good(o, R, this.w) /\ Grows(u.w, this.w)
          /\ Fits(o, R, this.w, this.val)
          /\ this.w.env = u.w.env /\ this.w.shells = u.w.shells
      BY <3>1, <3>4, EvalGood
    <3> HIDE DEF this
    <3>6. this.w \in Worlds
      BY <3>5, GoodIs
    <3>7. Grows(w, this.w)
      BY <3>1, <3>3, <3>5, <3>6, GrowsTransitive
    <3>8. ValsFit(o, R, this.w, Append(u.vals, this.val))
      <4>1. ValsFit(o, R, this.w, u.vals)
        BY <3>1, <3>3, <3>5, <3>6, ValsGrow
      <4>2. this.val \in Vals
        BY <3>5 DEF Fits, Held
      <4> QED
        BY <3>5, <4>1, <4>2 DEF ValsFit
    <3>9. Fine([w |-> this.w, vals |-> Append(u.vals, this.val)])
      BY <3>1, <3>5, <3>7, <3>8
    <3> HIDE DEF Fine
    <3> QED
      BY <3>1, <3>2, <3>9
  <2> QED
    BY <2>1, <2>2
<1> HIDE DEF S
<1>3. \A n \in 0 .. Len(es) : n \in S
  BY <1>2, UpTo
<1>4. Fine(f[Len(es)])
  <2> HIDE DEF Fine
  <2> QED
    BY <1>3 DEF S
<1> QED
  BY <1>4, EvalAllIs DEF f

LEMMA ArgumentsGood ==
  ASSUME NEW o, NEW R, NEW w, Good(o, R, w), NEW fn, NEW vals, ValsFit(o, R, w, vals)
  PROVE  LET args == Arguments(w, fn, vals) IN
         /\ Good(o, R, args.w) /\ Grows(w, args.w)
         /\ Fits(o, R, args.w, args.val)
         /\ args.w.env = w.env /\ args.w.shells = w.shells
<1> DEFINE strs == [n \in DOMAIN vals |-> vals[n].str]
           made == NewList(w.heap, strs)
           odd == fn.len = 1 /\ \E n \in DOMAIN vals : vals[n].type # "str"
           args == Arguments(w, fn, vals)
<1>1. w \in Worlds /\ vals \in Seq(Vals)
  BY GoodIs DEF ValsFit
<1>2. strs \in Arrays
  <2>1. ASSUME NEW n \in 1 .. Len(vals) PROVE vals[n].str \in Strings
    <3>1. vals[n] \in Vals
      BY <1>1
    <3> QED
      BY <3>1 DEF Vals
  <2> QED
    BY <1>1, <2>1 DEF Arrays
<1>3. args = IF odd THEN [w |-> NotModelled(w), val |-> Unset]
             ELSE IF fn.len = 1 THEN [w |-> [w EXCEPT !.heap = made.heap], val |-> made.val]
             ELSE IF Len(vals) = 1 THEN [w |-> w, val |-> vals[1]]
             ELSE [w |-> Fail(w), val |-> Unset]
  BY DEF Arguments
<1> HIDE DEF made, odd, args
<1>4. CASE odd
  <2>1. args.w = NotModelled(w) /\ args.val = Unset
    BY <1>3, <1>4
  <2> QED
    BY <1>1, <2>1, FailIs, SameGood, PlainFits DEF args
<1>5. CASE ~odd /\ fn.len = 1
  <2>1. args.w = [w EXCEPT !.heap = made.heap] /\ args.val = made.val
    BY <1>3, <1>5
  <2> HIDE DEF strs
  <2> QED
    BY <1>2, <2>1, NewListGood DEF args, made
<1>6. CASE ~odd /\ fn.len # 1 /\ Len(vals) = 1
  <2>1. args.w = w /\ args.val = vals[1]
    BY <1>3, <1>6
  <2>2. Fits(o, R, w, vals[1])
    BY <1>6 DEF ValsFit
  <2> QED
    BY <1>1, <2>1, <2>2, SameGood DEF args
<1>7. CASE ~odd /\ fn.len # 1 /\ Len(vals) # 1
  <2>1. args.w = Fail(w) /\ args.val = Unset
    BY <1>3, <1>7
  <2> QED
    BY <1>1, <2>1, FailIs, SameGood, PlainFits DEF args
<1> QED
  BY <1>4, <1>5, <1>6, <1>7

LEMMA ListIs ==
  ASSUME NEW a \in Nat, NEW n \in Nat
  PROVE  List(a, n) \in Vals /\ List(a, n).type = "list" /\ List(a, n).ref = a /\ List(a, n).len = n
BY ValuesAssumption DEF List, Value, Vals, Hole

\* append writes to the array of its list or to one of its own.
LEMMA AppendListGood ==
  ASSUME NEW o, NEW R, NEW w, Good(o, R, w), NEW v, Fits(o, R, w, v), v.type = "list",
         NEW strs \in Arrays
  PROVE  LET more == AppendList(w.heap, v, strs)
             u == [w EXCEPT !.heap = more.heap] IN
         /\ Good(o, R, u) /\ Grows(w, u) /\ Fits(o, R, u, more.val)
         /\ u.env = w.env /\ u.shells = w.shells
<1> DEFINE array == w.heap[v.ref]
           old == Len(array)
           need == v.len + Len(strs)
           size == IF need > 2 * old THEN need ELSE 2 * old
           written == [k \in 1 .. old |-> IF k \in v.len + 1 .. need
                                          THEN strs[k - v.len] ELSE array[k]]
           holes == [k \in 1 .. size - need |-> Hole]
           copy == Contents(w.heap, v) \o strs \o holes
           more == AppendList(w.heap, v, strs)
           h == more.heap
           u == [w EXCEPT !.heap = h]
<1>1. /\ w \in Worlds /\ w.heap \in Seq(Arrays) /\ Len(w.heap) \in Nat
      /\ v \in Vals /\ v.len \in Nat /\ v.ref \in 1 .. Len(w.heap)
      /\ array \in Seq(Strings) /\ old \in Nat /\ v.len <= old
      /\ strs \in Seq(Strings) /\ Len(strs) \in Nat
      /\ need \in Nat
  BY GoodIs DEF Worlds, Arrays, Fits, Held, Vals
<1>2. more = IF need <= old
             THEN [heap |-> [w.heap EXCEPT ![v.ref] = written], val |-> [v EXCEPT !.len = need]]
             ELSE [heap |-> Append(w.heap, copy), val |-> List(Len(w.heap) + 1, need)]
  BY DEF AppendList
<1> HIDE DEF array, more
<1>3. CASE need <= old
  <2>1. written \in Arrays /\ Len(written) = old
    <3>1. ASSUME NEW k \in 1 .. old, k \in v.len + 1 .. need
          PROVE  k - v.len \in 1 .. Len(strs)
      <4>1. v.len \in Nat /\ Len(strs) \in Nat /\ old \in Nat
        BY <1>1
      <4> HIDE DEF old
      <4> QED
        BY <3>1, <4>1
    <3>2. \A k \in 1 .. old : written[k] \in Strings
      BY <1>1, <3>1
    <3> QED
      BY <1>1, <3>2 DEF Arrays
  <2> HIDE DEF written
  <2>2. h = [w.heap EXCEPT ![v.ref] = written] /\ more.val = [v EXCEPT !.len = need]
    BY <1>2, <1>3
  <2>3. /\ h \in Seq(Arrays) /\ Len(h) = Len(w.heap) /\ h[v.ref] = written
        /\ \A a \in 1 .. Len(w.heap) : a # v.ref => h[a] = w.heap[a]
    BY <1>1, <2>1, <2>2
  <2> HIDE DEF h
  <2>4. v.ref \in 1 .. Len(o.heap) => Open(o, R, v.ref)
    BY DEF Fits, Mine
  <2>5. \A a \in 1 .. Len(w.heap) : Len(h[a]) = Len(w.heap[a])
    BY <2>1, <2>3 DEF array
  <2>6. Good(o, R, u) /\ Grows(w, u)
    <3>1. Len(w.heap) <= Len(h)
      BY <1>1, <2>3
    <3>2. \A a \in 1 .. Len(w.heap) : h[a] = w.heap[a] \/ (a \in 1 .. Len(o.heap) => Open(o, R, a))
      BY <2>3, <2>4
    <3> QED
      BY <2>3, <2>5, <3>1, <3>2, HeapGood
  <2>7. u.env = w.env /\ u.shells = w.shells /\ u.heap = h
    BY <1>1, <2>3, HeapIs
  <2> HIDE DEF u, need, old
  <2>8. more.val \in Vals /\ more.val.type = "list" /\ more.val.ref = v.ref /\ more.val.len = need
    BY <1>1, <2>2 DEF Vals
  <2>9. Fits(o, R, u, more.val)
    BY <1>1, <1>3, <2>1, <2>3, <2>4, <2>7, <2>8 DEF Fits, Held, Mine
  <2> QED
    BY <2>6, <2>7, <2>9 DEF u, h, more
<1>4. CASE ~(need <= old)
  <2>1. copy \in Arrays /\ need <= Len(copy)
    <3>1. size - need \in Nat
      BY <1>1
    <3> HIDE DEF size
    <3>2. holes \in Seq(Strings) /\ Len(holes) = size - need
      BY <3>1, ValuesAssumption
    <3>3. Contents(w.heap, v) \in Seq(Strings) /\ Len(Contents(w.heap, v)) = v.len
      BY <1>1 DEF Contents, array
    <3> HIDE DEF holes
    <3> QED
      BY <1>1, <3>1, <3>2, <3>3 DEF Arrays
  <2> HIDE DEF copy
  <2>2. h = Append(w.heap, copy) /\ more.val = List(Len(w.heap) + 1, need)
    BY <1>2, <1>4
  <2>3. /\ h \in Seq(Arrays) /\ Len(h) = Len(w.heap) + 1 /\ h[Len(w.heap) + 1] = copy
        /\ \A a \in 1 .. Len(w.heap) : h[a] = w.heap[a]
    BY <1>1, <2>1, <2>2
  <2> HIDE DEF h
  <2>4. Good(o, R, u) /\ Grows(w, u)
    <3>1. Len(w.heap) <= Len(h)
      BY <1>1, <2>3
    <3> QED
      BY <2>3, <3>1, HeapGood
  <2>5. u.env = w.env /\ u.shells = w.shells /\ u.heap = h
    BY <1>1, <2>3, HeapIs
  <2> HIDE DEF u, need
  <2>6. /\ more.val \in Vals /\ more.val.type = "list"
        /\ more.val.ref = Len(w.heap) + 1 /\ more.val.len = need
    <3>1. Len(w.heap) + 1 \in Nat
      BY <1>1
    <3> QED
      BY <1>1, <2>2, <3>1, ListIs DEF need
  <2>7. more.val.ref \notin 1 .. Len(o.heap)
    BY <1>1, <2>6 DEF Good, Within
  <2>8. Held(u, more.val)
    BY <1>1, <2>1, <2>3, <2>5, <2>6 DEF Held
  <2>9. Fits(o, R, u, more.val)
    BY <2>7, <2>8 DEF Fits, Mine
  <2> QED
    BY <2>4, <2>5, <2>9 DEF u, h, more
<1> QED
  BY <1>3, <1>4

-----------------------------------------------------------------------------
(***************************************************************************)
(* Scopes: statements.                                                     *)
(***************************************************************************)

Frames == [shell : Nat, form : Forms, nodes : Seq(Nodes)]

\* The session runs in the root, and every call in a shell that is there.
StackInv ==
  /\ stack \in Seq(Frames)
  /\ stack # << >> /\ stack[1].shell = Root
  /\ \A n \in 1 .. Len(stack) : stack[n].shell \in 1 .. Len(shells)

ScopeInv ==
  /\ Sound(World)
  /\ StackInv
  /\ executed \in 0 .. MaxStatements

LEMMA WorldIs ==
  /\ World.shells = shells /\ World.heap = heap /\ World.env = env /\ World.ok
  /\ World'.shells = shells' /\ World'.heap = heap' /\ World'.env = env'
BY DEF World

LEMMA StackIs ==
  ASSUME StackInv
  PROVE  /\ Len(stack) \in Nat /\ Len(stack) >= 1
         /\ Cur \in 1 .. Len(shells)
         /\ Top.form \in Forms /\ Top.nodes \in Seq(Nodes)
         /\ Len(stack) > 1 => stack[Len(stack) - 1].shell \in 1 .. Len(shells)
<1>1. Len(stack) \in Nat /\ Len(stack) >= 1
  BY DEF StackInv
<1>2. stack[Len(stack)] \in Frames
  BY <1>1 DEF StackInv
<1> QED
  BY <1>1, <1>2 DEF StackInv, Cur, Top, Frames

LEMMA RowFits ==
  ASSUME NEW o, NEW R, NEW w, NEW es \in ArgRows
  PROVE  /\ Len(es) \in Nat
         /\ \A n \in 1 .. Len(es) : ExprFits(o, R, w, es[n])
<1>1. es \in Seq(Exprs)
  <2>1. << >> \in Seq(Exprs) /\ ExprRows \subseteq Seq(Exprs)
    BY ScopesAssumption
  <2>2. es \in ExprRows \/ es = << >>
    BY DEF ArgRows
  <2> QED
    BY <2>1, <2>2
<1>2. ASSUME NEW n \in 1 .. Len(es) PROVE ExprFits(o, R, w, es[n])
  <2>1. es[n] \in Exprs /\ n \in DOMAIN es /\ es \in ExprRows
    BY <1>1 DEF ArgRows
  <2>2. /\ es[n].kind = "elem" => es[n].idx \in Nat
        /\ es[n].kind = "val" => es[n].val.type = "str"
    BY <2>1, ScopesAssumption
  <2>3. es[n].val \in Vals
    BY <2>1 DEF Exprs
  <2> QED
    BY <2>1, <2>2, <2>3 DEF ExprFits, Fits, Held, Mine
<1> QED
  BY <1>1, <1>2

LEMMA ValuesAreSet ==
  ASSUME NEW es \in ExprRows, NEW n \in 1 .. Len(es), es[n].kind = "val"
  PROVE  es[n].val # Unset
<1>1. n \in DOMAIN es
  BY ScopesAssumption
<1>2. es[n].val.type = "str"
  BY <1>1, ScopesAssumption
<1> QED
  BY <1>2, UnsetIs

LEMMA NodesAre ==
  ASSUME NEW nodes \in NodeRows
  PROVE  nodes \in Seq(Nodes) /\ nodes # << >> /\ Len(nodes) \in Nat
BY ScopesAssumption

LEMMA TargetsAre ==
  ASSUME NEW t \in Targets
  PROVE  t[1] \in Forms /\ t[2] \in Seq(Nodes)
<1>1. t = <<"none", << >>>> \/ t \in {"var", "set", "setenv"} \X NodeRows
  BY DEF Targets
<1>2. << >> \in Seq(Nodes)
  OBVIOUS
<1>3. CASE t = <<"none", << >>>>
  BY <1>2, <1>3 DEF Forms
<1>4. CASE t \in {"var", "set", "setenv"} \X NodeRows
  <2>1. t[1] \in {"var", "set", "setenv"} /\ t[2] \in NodeRows
    BY <1>4
  <2> QED
    BY <2>1, NodesAre DEF Forms
<1> QED
  BY <1>1, <1>3, <1>4

\* The world of a statement is the next one, and the calls go on as it says.
LEMMA ExecutedGood ==
  ASSUME NEW R, NEW w, Good(World, R, w), NEW calls, Executed(w, calls)
  PROVE  /\ Good(World, R, World')
         /\ shells' = w.shells /\ heap' = w.heap /\ env' = w.env
         /\ stack' = IF w.ok THEN calls ELSE SubSeq(stack, 1, 1)
<1>1. /\ shells' = w.shells /\ heap' = w.heap /\ env' = w.env
      /\ stack' = IF w.ok THEN calls ELSE SubSeq(stack, 1, 1)
  BY DEF Executed
<1>2. w \in Worlds
  BY GoodIs
<1>3. World' \in Worlds /\ World'.shells = w.shells /\ World'.heap = w.heap /\ World'.env = w.env
  BY <1>1, <1>2 DEF World, Worlds
<1> QED
  BY <1>1, <1>3, SameGood

LEMMA StackKept ==
  ASSUME StackInv, Len(shells') = Len(shells),
         \/ stack' = stack
         \/ stack' = SubSeq(stack, 1, 1)
         \/ Len(stack) > 1 /\ stack' = SubSeq(stack, 1, Len(stack) - 1)
  PROVE  StackInv'
<1>1. CASE stack' = stack
  BY <1>1 DEF StackInv
<1>2. ASSUME NEW m \in 1 .. Len(stack), stack' = SubSeq(stack, 1, m) PROVE StackInv'
  <2>1. stack \in Seq(Frames) /\ stack[1].shell = Root
    BY DEF StackInv
  <2>2. /\ stack' \in Seq(Frames) /\ Len(stack') = m
        /\ \A n \in 1 .. m : stack'[n] = stack[n] /\ n \in 1 .. Len(stack)
    BY <1>2, <2>1
  <2> QED
    BY <2>1, <2>2 DEF StackInv
<1>3. 1 \in 1 .. Len(stack) /\ (Len(stack) > 1 => Len(stack) - 1 \in 1 .. Len(stack))
  BY StackIs
<1> QED
  BY <1>1, <1>2, <1>3

Caller == stack[Len(stack) - 1].shell

Seen == \A x \in Names : env'[x] # env[x] => env'[x] = Getvar(World', Cur', x)

\* What a statement leaves of the world and of the calls.
Kept(R) ==
  /\ Good(World, R, World')
  /\ StackInv'
  /\ Seen

LEMMA StaysIs ==
  ASSUME StackInv, NEW R, NEW w, Good(World, R, w), NEW calls, Executed(w, calls),
         \/ ~w.ok
         \/ calls = stack
         \/ Len(stack) > 1 /\ calls = SubSeq(stack, 1, Len(stack) - 1)
  PROVE  Good(World, R, World') /\ StackInv'
<1>1. /\ Good(World, R, World')
      /\ shells' = w.shells
      /\ stack' = IF w.ok THEN calls ELSE SubSeq(stack, 1, 1)
  BY ExecutedGood
<1>2. Len(shells') = Len(shells)
  BY <1>1, WorldIs DEF Good, Within
<1> QED
  BY <1>1, <1>2, StackKept

\* What is exported is seen in the shell that did it, and in the root if the
\* statement failed after that.
LEMMA KeptIs ==
  ASSUME StackInv, NEW R, NEW w, Good(World, R, w), NEW calls, Executed(w, calls),
         NEW s \in R, Exports(World, s, w),
         \/ ~w.ok
         \/ calls = stack /\ s = Cur
         \/ Len(stack) > 1 /\ calls = SubSeq(stack, 1, Len(stack) - 1) /\ s = Caller
  PROVE  Kept(R)
<1>1. /\ Good(World, R, World')
      /\ shells' = w.shells /\ env' = w.env
      /\ stack' = IF w.ok THEN calls ELSE SubSeq(stack, 1, 1)
  BY ExecutedGood
<1>2. StackInv'
  BY StaysIs
<1>3. Cur' = s \/ Cur' = Root
  <2>1. Cur' = stack'[Len(stack')].shell
    BY DEF Cur, Top
  <2>2. stack \in Seq(Frames) /\ Len(stack) \in Nat /\ Len(stack) >= 1
    BY StackIs DEF StackInv
  <2>3. ASSUME NEW m \in 1 .. Len(stack), stack' = SubSeq(stack, 1, m)
        PROVE  Cur' = stack[m].shell
    <3>1. Len(stack') = m /\ stack'[m] = stack[m]
      BY <2>2, <2>3
    <3> QED
      BY <2>1, <3>1
  <2>4. CASE ~w.ok
    BY <1>1, <2>2, <2>3, <2>4 DEF StackInv
  <2>5. CASE w.ok /\ calls = stack /\ s = Cur
    BY <1>1, <2>1, <2>5 DEF Cur, Top
  <2>6. CASE w.ok /\ Len(stack) > 1 /\ calls = SubSeq(stack, 1, Len(stack) - 1) /\ s = Caller
    <3>1. Len(stack) - 1 \in 1 .. Len(stack)
      BY <2>2, <2>6
    <3> QED
      BY <1>1, <2>3, <2>6, <3>1 DEF Caller
  <2> QED
    BY <2>4, <2>5, <2>6
<1>4. ASSUME NEW x \in Names, env'[x] # env[x] PROVE env'[x] = Getvar(World', Cur', x)
  <2>1. Shown(s, w, x)
    BY <1>1, <1>4, WorldIs DEF Exports
  <2>2. shells'[Cur'].vars[x] = env'[x] /\ env'[x] # Unset
    BY <1>1, <1>3, <2>1 DEF Shown
  <2>3. Tree(World'.shells) /\ Cur' \in 1 .. Len(World'.shells)
    <3>1. Len(shells') \in Nat /\ s \in 1 .. Len(shells') /\ Root \in 1 .. Len(shells')
      BY <1>1, GoodIs
    <3> QED
      BY <1>1, <1>3, <3>1, GoodIs, WorldIs
  <2>4. Getvar(World', Cur', x) = World'.shells[Cur'].vars[x]
    BY <2>2, <2>3, GetvarOwn, WorldIs
  <2> QED
    BY <2>2, <2>4, WorldIs
<1> QED
  BY <1>1, <1>2, <1>4 DEF Kept, Seen

LEMMA WorldGood ==
  ASSUME ScopeInv, NEW R, Closed(shells, R)
  PROVE  Good(World, R, World) /\ World \in Worlds
BY GoodStart, WorldIs DEF ScopeInv, Sound

LEMMA StatementKept ==
  ASSUME ScopeInv, NEW R, Closed(shells, R), Cur \in R,
         NEW how \in {"var", "set", "setenv"}, NEW nodes \in NodeRows, NEW es \in ExprRows,
         Statement(how, nodes, es)
  PROVE  Kept(R)
<1> DEFINE w == InTurn(World, Cur, how, nodes, es)
<1>1. Len(nodes) = Len(es) /\ Executed(w, stack)
  BY DEF Statement
<1>2. \A n \in 1 .. Len(nodes) : ExprFits(World, R, World, es[n])
  BY <1>1, RowFits DEF ArgRows
<1>3. Good(World, R, World) /\ Exports(World, Cur, World)
  BY WorldGood, SameExports
<1>4. Good(World, R, w) /\ (how \in {"var", "set"} => w.env = World.env)
  BY <1>2, <1>3, NodesAre, InTurnGood DEF Hows
<1>5. Exports(World, Cur, w)
  <2>1. CASE how = "setenv"
    <3>1. \A n \in 1 .. Len(nodes) : es[n].kind = "val" => es[n].val # Unset
      BY <1>1, ValuesAreSet, RowFits DEF ArgRows
    <3> QED
      BY <1>2, <1>3, <2>1, <3>1, NodesAre, InTurnExports
  <2>2. CASE how # "setenv"
    BY <1>4, <2>2, SameExports
  <2> QED
    BY <2>1, <2>2
<1> HIDE DEF w
<1> QED
  BY <1>1, <1>4, <1>5, KeptIs DEF ScopeInv

LEMMA CmdAssignKept ==
  ASSUME ScopeInv, NEW R, Closed(shells, R), Cur \in R,
         NEW form \in {"var", "set", "setenv"}, NEW nodes \in NodeRows, NEW fails \in BOOLEAN,
         CmdAssign(form, nodes, fails)
  PROVE  Kept(R)
<1> DEFINE both == <<Str("o"), Str(IF fails THEN "1" ELSE "0")>>
           vals == SubSeq(both, 1, Len(nodes))
           give == Give(World, Cur, form, nodes, vals)
           w == IF fails /\ Len(nodes) = 1 THEN Fail(World) ELSE give
<1>1. Len(nodes) <= 2 /\ Executed(w, stack)
  BY DEF CmdAssign
<1>2. /\ Str("o") \in Vals /\ Str(IF fails THEN "1" ELSE "0") \in Vals
      /\ Fits(World, R, World, Str("o")) /\ Fits(World, R, World, Str(IF fails THEN "1" ELSE "0"))
  BY ValuesAssumption, UnsetIs, PlainFits
<1>3. ValsFit(World, R, World, vals)
  <2>1. both \in Seq(Vals) /\ Len(both) = 2 /\ \A n \in 1 .. 2 : Fits(World, R, World, both[n])
    BY <1>2
  <2> HIDE DEF both
  <2>2. vals \in Seq(Vals) /\ Len(vals) = Len(nodes) /\ \A n \in 1 .. Len(nodes) : vals[n] = both[n]
    BY <1>1, <2>1, NodesAre
  <2> QED
    BY <1>1, <2>1, <2>2, NodesAre DEF ValsFit
<1>4. Good(World, R, World) /\ World \in Worlds
  BY WorldGood
<1> HIDE DEF vals
<1>5. Good(World, R, give) /\ Exports(World, Cur, give)
  BY <1>3, <1>4, GiveGood, GiveExports, NodesAre DEF Forms
<1>6. Good(World, R, Fail(World)) /\ Exports(World, Cur, Fail(World))
  BY <1>4, FailIs, SameGood, SameExports
<1> HIDE DEF give
<1>7. Good(World, R, w) /\ Exports(World, Cur, w)
  BY <1>5, <1>6
<1> HIDE DEF w
<1> QED
  BY <1>1, <1>7, KeptIs DEF ScopeInv

LEMMA SetenvNameKept ==
  ASSUME ScopeInv, NEW R, Closed(shells, R), Cur \in R, NEW x \in Names, SetenvName(x)
  PROVE  Kept(R)
<1> DEFINE v == Getvar(World, Cur, x)
           w == IF v = Unset THEN Fail(World) ELSE Setenv(World, x, v)
<1>1. Executed(w, stack)
  BY DEF SetenvName
<1>2. Good(World, R, World) /\ World \in Worlds
  BY WorldGood
<1>3. Fits(World, R, World, v)
  BY <1>2, GetvarGood
<1> HIDE DEF v
<1>4. Good(World, R, Setenv(World, x, v)) /\ Good(World, R, Fail(World))
  BY <1>2, <1>3, SetenvGood, FailIs, SameGood
<1>5. CASE v = Unset
  <2>1. w = Fail(World) /\ Fail(World).env = World.env /\ ~w.ok
    BY <1>2, <1>5, FailIs
  <2> HIDE DEF w
  <2> QED
    BY <1>1, <1>4, <2>1, SameExports, KeptIs DEF ScopeInv
<1>6. CASE v # Unset
  <2> DEFINE n == Newvar(World, Root, x, v)
  <2>1. w = Setenv(World, x, v)
    BY <1>6
  <2>2. Good(World, R, World') /\ StackInv'
    BY <1>1, <1>4, <2>1, StaysIs DEF ScopeInv
  <2>3. v \in Vals /\ Tree(shells) /\ Cur \in 1 .. Len(shells)
    BY <1>3, WorldIs, StackIs DEF Fits, Held, ScopeInv, Sound
  <2>4. /\ w.shells = n.shells /\ w.ok
        /\ \A y \in Names : w.env[y] = IF y = x THEN v ELSE env[y]
    <3>1. Len(World.shells) >= 1
      BY <2>3, WorldIs DEF Tree
    <3> QED
      BY <1>2, <2>1, <2>3, <3>1, SetenvIs, WorldIs
  <2>5. Getvar(n, Cur, x) = v
    BY <1>2, <1>6, <2>3, RootSeen, WorldIs DEF v
  <2> HIDE DEF n, w
  <2>6. shells' = w.shells /\ env' = w.env /\ stack' = stack
    BY <1>1, <2>4 DEF Executed
  <2>7. Cur' = Cur /\ Getvar(World', Cur, x) = Getvar(n, Cur, x)
    BY <2>4, <2>6, WorldIs DEF Cur, Top, Getvar, VarOf
  <2>8. Seen
    BY <2>4, <2>5, <2>6, <2>7 DEF Seen
  <2> QED
    BY <2>2, <2>8 DEF Kept
<1> QED
  BY <1>5, <1>6

LEMMA FnDeclKept ==
  ASSUME ScopeInv, NEW R, Closed(shells, R), Cur \in R, NEW x \in Names,
         NEW variadic \in BOOLEAN, FnDecl(x, variadic)
  PROVE  Kept(R)
<1> DEFINE v == Fn(Cur, variadic)
           w == Newvar(World, Cur, x, v)
<1>1. Executed(w, stack)
  BY DEF FnDecl
<1>2. Good(World, R, World) /\ World \in Worlds /\ Cur \in 1 .. Len(shells) /\ Cur \in Nat
  BY WorldGood, StackIs DEF ScopeInv
<1>3. Fits(World, R, World, v) /\ v \in Vals
  <2>1. v \in Vals /\ v.type = "fn" /\ v.ref = Cur
    BY <1>2, ValuesAssumption DEF Fn, Value, Vals, Hole
  <2> QED
    BY <1>2, <2>1, WorldIs DEF Fits, Held, Mine
<1> HIDE DEF v
<1>4. Good(World, R, w)
  BY <1>2, <1>3, NewvarGood
<1>5. Exports(World, Cur, w)
  BY <1>2, <1>3, NewvarIs, WorldIs, SameExports
<1> HIDE DEF w
<1> QED
  BY <1>1, <1>4, <1>5, KeptIs DEF ScopeInv

LEMMA ReturnKept ==
  ASSUME ScopeInv, NEW R, Closed(shells, R), Cur \in R, Caller \in R,
         NEW es \in ArgRows, Return(es)
  PROVE  Kept(R)
<1> DEFINE s == Caller
           all == EvalAll(World, Cur, es)
           give == Give(all.w, s, Top.form, Top.nodes, all.vals)
           w == IF all.w.ok THEN give ELSE all.w
           calls == SubSeq(stack, 1, Len(stack) - 1)
<1>1. Len(stack) > 1 /\ Executed(w, calls)
  BY DEF Return, Caller
<1>2. Good(World, R, World)
  BY WorldGood
<1>3. Good(World, R, all.w) /\ ValsFit(World, R, all.w, all.vals) /\ all.w.env = env
  <2>1. Len(es) \in Nat /\ \A n \in 1 .. Len(es) : ExprFits(World, R, World, es[n])
    BY RowFits
  <2> QED
    BY <1>2, <2>1, EvalAllGood, WorldIs
<1> HIDE DEF all
<1>4. Good(World, R, give) /\ Exports(World, s, give)
  BY <1>3, StackIs, GiveGood, GiveExports, WorldIs DEF ScopeInv
<1>5. Exports(World, s, all.w)
  BY <1>3, WorldIs, SameExports
<1> HIDE DEF give
<1>6. Good(World, R, w) /\ Exports(World, s, w)
  BY <1>3, <1>4, <1>5
<1> HIDE DEF w
<1> QED
  BY <1>1, <1>6, KeptIs DEF ScopeInv

LEMMA AppendCallKept ==
  ASSUME ScopeInv, NEW R, Closed(shells, R), Cur \in R, NEW x \in Names,
         NEW es \in ExprRows, NEW t \in Targets, AppendCall(x, es, t[1], t[2])
  PROVE  Kept(R)
<1> DEFINE list == Getvar(World, Cur, x)
           all == EvalAll(World, Cur, es)
           v == all.w
           strs == [n \in DOMAIN all.vals |-> all.vals[n].str]
           more == AppendList(v.heap, list, strs)
           grown == [v EXCEPT !.heap = more.heap]
           give == Give(grown, Cur, t[1], t[2], <<more.val>>)
           odd == \E n \in DOMAIN all.vals : all.vals[n].type # "str"
           w == IF list = Unset THEN Fail(World)
                ELSE IF ~v.ok THEN v
                ELSE IF list.type # "list" THEN Fail(v)
                ELSE IF odd THEN NotModelled(v)
                ELSE give
<1>1. Executed(w, stack)
  BY DEF AppendCall
<1>2. Good(World, R, World) /\ World \in Worlds /\ Fits(World, R, World, list)
  BY WorldGood, GetvarGood
<1>3. /\ Good(World, R, v) /\ Grows(World, v) /\ ValsFit(World, R, v, all.vals)
      /\ v.env = env
  <2>1. Len(es) \in Nat /\ \A n \in 1 .. Len(es) : ExprFits(World, R, World, es[n])
    BY RowFits DEF ArgRows
  <2> QED
    BY <1>2, <2>1, EvalAllGood, WorldIs
<1>4. v \in Worlds
  BY <1>3, GoodIs
<1>5. strs \in Arrays
  <2>1. ASSUME NEW n \in 1 .. Len(all.vals) PROVE all.vals[n].str \in Strings
    <3>1. all.vals[n] \in Vals
      BY <1>3 DEF ValsFit
    <3> QED
      BY <3>1 DEF Vals
  <2> QED
    BY <1>3, <2>1 DEF Arrays, ValsFit
<1>6. Fits(World, R, v, list)
  BY <1>2, <1>3, <1>4, HeldGrows DEF Fits
<1> HIDE DEF strs, v, list, odd
<1>7. CASE list.type = "list"
  <2>1. Good(World, R, grown) /\ Fits(World, R, grown, more.val) /\ grown.env = env
    BY <1>3, <1>5, <1>6, <1>7, AppendListGood
  <2> HIDE DEF grown, more
  <2>2. ValsFit(World, R, grown, <<more.val>>)
    BY <2>1 DEF ValsFit, Fits, Held
  <2>3. Good(World, R, give) /\ Exports(World, Cur, give)
    BY <2>1, <2>2, TargetsAre, GiveGood, GiveExports, WorldIs
  <2>4. /\ Good(World, R, Fail(World)) /\ Fail(World).env = env
        /\ Good(World, R, NotModelled(v)) /\ NotModelled(v).env = env
    BY <1>2, <1>3, <1>4, FailIs, SameGood, WorldIs
  <2> HIDE DEF give
  <2>5. Good(World, R, w) /\ (w = give \/ w.env = World.env)
    BY <1>3, <1>7, <2>3, <2>4, WorldIs
  <2> HIDE DEF w
  <2>6. Exports(World, Cur, w)
    BY <2>3, <2>5, SameExports
  <2> QED
    BY <1>1, <2>5, <2>6, KeptIs DEF ScopeInv
<1>8. CASE list.type # "list"
  <2>1. /\ Good(World, R, Fail(World)) /\ Fail(World).env = env
        /\ Good(World, R, Fail(v)) /\ Fail(v).env = env
    BY <1>2, <1>3, <1>4, FailIs, SameGood, WorldIs
  <2> HIDE DEF give
  <2>2. Good(World, R, w) /\ w.env = World.env
    BY <1>3, <1>8, <2>1, WorldIs
  <2> HIDE DEF w
  <2> QED
    BY <1>1, <2>2, SameExports, KeptIs DEF ScopeInv
<1> QED
  BY <1>7, <1>8

\* A call leaves what a statement leaves, and a shell more.
Called(R) ==
  \E w, new, form, nodes :
    /\ Good(World, R, w) /\ w.env = env
    /\ shells' = Append(w.shells, new) /\ heap' = w.heap /\ env' = w.env
    /\ new \in ShellRecords /\ new.parent \in 1 .. Len(shells)
    /\ \A x \in Names : Held(w, new.vars[x])
    /\ stack' = Append(stack, Frame(Len(shells) + 1, form, nodes))
    /\ form \in Forms /\ nodes \in Seq(Nodes)

LEMMA CallKept ==
  ASSUME ScopeInv, NEW R, Closed(shells, R), Cur \in R, NEW x \in Names,
         NEW es \in ArgRows, NEW t \in Targets, Call(x, es, t[1], t[2])
  PROVE  Kept(R) \/ Called(R)
<1> DEFINE fn == Getvar(World, Cur, x)
           all == EvalAll(World, Cur, es)
           v == all.w
           args == Arguments(v, fn, all.vals)
           a == args.w
           new == [parent |-> fn.ref, vars |-> [NoVars EXCEPT ![Param] = args.val]]
           called == [a EXCEPT !.shells = Append(a.shells, new)]
           calls == Append(stack, Frame(Len(shells) + 1, t[1], t[2]))
           w == IF fn.type # "fn" THEN Fail(World)
                ELSE IF ~v.ok THEN v
                ELSE IF ~a.ok THEN a
                ELSE called
<1>1. Executed(w, calls)
  BY DEF Call
<1>2. Good(World, R, World) /\ World \in Worlds /\ Fits(World, R, World, fn)
  BY WorldGood, GetvarGood
<1>3. Good(World, R, v) /\ ValsFit(World, R, v, all.vals) /\ v.env = env
  <2>1. Len(es) \in Nat /\ \A n \in 1 .. Len(es) : ExprFits(World, R, World, es[n])
    BY RowFits
  <2> QED
    BY <1>2, <2>1, EvalAllGood, WorldIs
<1> HIDE DEF v
<1>4. Good(World, R, a) /\ Fits(World, R, a, args.val) /\ a.env = env
  BY <1>3, ArgumentsGood
<1>5. /\ Good(World, R, Fail(World)) /\ Fail(World).env = env /\ ~Fail(World).ok
  BY <1>2, FailIs, SameGood, WorldIs
<1> HIDE DEF fn, args, calls
<1>6. CASE fn.type = "fn" /\ v.ok /\ a.ok
  <2>1. w = called
    BY <1>6
  <2>2. a \in Worlds
    BY <1>4, GoodIs
  <2>3. called.shells = Append(a.shells, new) /\ called.heap = a.heap /\ called.env = a.env /\ called.ok
    BY <1>6, <2>2 DEF Worlds
  <2>4. fn.ref \in 1 .. Len(shells) /\ Len(shells) \in Nat
    BY <1>2, <1>6, GoodIs, WorldIs DEF Fits, Held
  <2>5. /\ new \in ShellRecords /\ new.parent \in 1 .. Len(shells)
        /\ \A y \in Names : Held(a, new.vars[y])
    <3>1. args.val \in Vals /\ Held(a, args.val) /\ Unset \in Vals /\ Held(a, Unset)
      BY <1>4, UnsetIs DEF Fits, Held
    <3>2. new.vars \in [Names -> Vals] /\ \A y \in Names : new.vars[y] = args.val \/ new.vars[y] = Unset
      BY <3>1, ScopesAssumption DEF NoVars
    <3>3. new.parent = fn.ref /\ fn.ref \in Nat
      BY <2>4
    <3> QED
      BY <2>4, <3>1, <3>2, <3>3 DEF ShellRecords
  <2> HIDE DEF called, new
  <2>6. /\ shells' = Append(a.shells, new) /\ heap' = a.heap /\ env' = a.env
        /\ stack' = calls
    BY <1>1, <2>1, <2>3 DEF Executed
  <2>7. t[1] \in Forms /\ t[2] \in Seq(Nodes)
    BY TargetsAre
  <2>8. Called(R)
    BY <1>4, <2>5, <2>6, <2>7 DEF Called, calls
  <2> QED
    BY <2>8
<1>7. CASE ~(fn.type = "fn" /\ v.ok /\ a.ok)
  <2> HIDE DEF called, a
  <2>1. Good(World, R, w) /\ w.env = env /\ ~w.ok
    BY <1>3, <1>4, <1>5, <1>7
  <2> HIDE DEF w
  <2> QED
    BY <1>1, <2>1, WorldIs, SameExports, KeptIs DEF ScopeInv
<1> QED
  BY <1>6, <1>7

-----------------------------------------------------------------------------
(***************************************************************************)
(* Scopes: steps.                                                          *)
(***************************************************************************)

LEMMA BoundedIs ==
  ASSUME NEW S, NEW x \in Bounded(S)
  PROVE  x \in S /\ executed < MaxStatements
BY DEF Bounded

\* Whatever a step does, the shells it uses the names of are its own and, when
\* it returns, those of the caller.
LEMMA StepKept ==
  ASSUME ScopeInv, Next, NEW R, Closed(shells, R), Cur \in R,
         \A es \in ArgRows : Return(es) => Caller \in R
  PROVE  Kept(R) \/ Called(R)
<1>1. ASSUME NEW nodes \in Bounded(NodeRows), NEW es \in ExprRows,
             VarAssign(nodes, es) \/ Assign(nodes, es) \/ SetenvAssign(nodes, es)
      PROVE  Kept(R)
  BY <1>1, BoundedIs, StatementKept DEF VarAssign, Assign, SetenvAssign
<1>2. ASSUME NEW form \in {"var", "set", "setenv"}, NEW nodes \in Bounded(NodeRows),
             NEW fails \in BOOLEAN, CmdAssign(form, nodes, fails)
      PROVE  Kept(R)
  BY <1>2, BoundedIs, CmdAssignKept
<1>3. ASSUME NEW x \in Bounded(Names),
             SetenvName(x) \/ \E variadic \in BOOLEAN : FnDecl(x, variadic)
      PROVE  Kept(R)
  BY <1>3, BoundedIs, SetenvNameKept, FnDeclKept
<1>4. ASSUME NEW x \in Bounded(Names), NEW es \in ArgRows, NEW t \in Targets,
             Call(x, es, t[1], t[2])
      PROVE  Kept(R) \/ Called(R)
  BY <1>4, BoundedIs, CallKept
<1>5. ASSUME NEW es \in Bounded(ArgRows), Return(es)
      PROVE  Kept(R)
  BY <1>5, BoundedIs, ReturnKept
<1>6. ASSUME AppendAny PROVE Kept(R)
  BY <1>6, BoundedIs, AppendCallKept DEF AppendAny
<1> QED
  BY <1>1, <1>2, <1>3, <1>4, <1>5, <1>6 DEF Next

LEMMA StepCounts ==
  ASSUME ScopeInv, Next
  PROVE  executed' \in 0 .. MaxStatements
<1>1. executed < MaxStatements /\ executed' = executed + 1
  <2>1. ASSUME NEW nodes \in Bounded(NodeRows), NEW es \in ExprRows,
               VarAssign(nodes, es) \/ Assign(nodes, es) \/ SetenvAssign(nodes, es)
        PROVE  executed < MaxStatements /\ executed' = executed + 1
    BY <2>1, BoundedIs DEF VarAssign, Assign, SetenvAssign, Statement, Executed
  <2>2. ASSUME NEW form \in {"var", "set", "setenv"}, NEW nodes \in Bounded(NodeRows),
               NEW fails \in BOOLEAN, CmdAssign(form, nodes, fails)
        PROVE  executed < MaxStatements /\ executed' = executed + 1
    BY <2>2, BoundedIs DEF CmdAssign, Executed
  <2>3. ASSUME NEW x \in Bounded(Names),
               SetenvName(x) \/ \E variadic \in BOOLEAN : FnDecl(x, variadic)
        PROVE  executed < MaxStatements /\ executed' = executed + 1
    BY <2>3, BoundedIs DEF SetenvName, FnDecl, Executed
  <2>4. ASSUME NEW x \in Bounded(Names), NEW es \in ArgRows, NEW t \in Targets,
               Call(x, es, t[1], t[2])
        PROVE  executed < MaxStatements /\ executed' = executed + 1
    BY <2>4, BoundedIs DEF Call, Executed
  <2>5. ASSUME NEW es \in Bounded(ArgRows), Return(es)
        PROVE  executed < MaxStatements /\ executed' = executed + 1
    BY <2>5, BoundedIs DEF Return, Executed
  <2>6. ASSUME AppendAny
        PROVE  executed < MaxStatements /\ executed' = executed + 1
    <3>1. PICK x \in Bounded(Names), es \in ExprRows, t \in Targets : AppendCall(x, es, t[1], t[2])
      BY <2>6 DEF AppendAny
    <3> QED
      BY <3>1, BoundedIs DEF AppendCall, Executed
  <2> QED
    BY <2>1, <2>2, <2>3, <2>4, <2>5, <2>6 DEF Next
<1> QED
  BY <1>1, ScopesAssumption DEF ScopeInv

LEMMA CalledSound ==
  ASSUME ScopeInv, NEW R, Called(R)
  PROVE  Sound(World') /\ StackInv'
<1>1. PICK w, new, form, nodes :
        /\ Good(World, R, w) /\ w.env = env
        /\ shells' = Append(w.shells, new) /\ heap' = w.heap /\ env' = w.env
        /\ new \in ShellRecords /\ new.parent \in 1 .. Len(shells)
        /\ \A x \in Names : Held(w, new.vars[x])
        /\ stack' = Append(stack, Frame(Len(shells) + 1, form, nodes))
        /\ form \in Forms /\ nodes \in Seq(Nodes)
  BY DEF Called
<1> DEFINE L == Len(shells)
<1>2. /\ w \in Worlds /\ Tree(w.shells) /\ Len(w.shells) = L /\ L \in Nat /\ L >= 1
      /\ w.shells \in Seq(ShellRecords) /\ w.heap \in Seq(Arrays) /\ w.env \in [Names -> Vals]
  <2>1. w \in Worlds /\ Tree(w.shells) /\ Len(w.shells) \in Nat
    BY <1>1, GoodIs
  <2>2. Len(w.shells) = L
    <3>1. Len(w.shells) = Len(World.shells)
      BY <1>1 DEF Good, Within
    <3> QED
      BY <3>1, WorldIs
  <2>3. w.shells \in Seq(ShellRecords) /\ w.heap \in Seq(Arrays) /\ w.env \in [Names -> Vals]
    BY <2>1 DEF Worlds
  <2>4. Len(w.shells) >= 1
    BY <2>1 DEF Tree
  <2> QED
    BY <2>1, <2>2, <2>3, <2>4
<1>3. /\ shells' \in Seq(ShellRecords) /\ Len(shells') = L + 1
      /\ shells'[L + 1] = new
      /\ \A k \in 1 .. L : shells'[k] = w.shells[k]
  <2>1. shells' = Append(w.shells, new) /\ new \in ShellRecords
    BY <1>1
  <2>2. w.shells \in Seq(ShellRecords) /\ Len(w.shells) = L
    BY <1>2
  <2> HIDE DEF L
  <2> QED
    BY <2>1, <2>2
<1>4. World' \in Worlds
  BY <1>1, <1>2, <1>3 DEF World, Worlds
<1>5. \A v : Held(w, v) => Held(World', v)
  BY <1>1, <1>2, <1>3, WorldIs DEF Held
<1>6. Tree(shells')
  <2>1. \A k \in 2 .. L + 1 : shells'[k].parent \in 1 .. k - 1
    BY <1>1, <1>2, <1>3 DEF Tree
  <2> QED
    BY <1>2, <1>3, <2>1 DEF Tree
<1>7. \A k \in 1 .. L + 1 : \A x \in Names : Held(World', shells'[k].vars[x])
  BY <1>1, <1>2, <1>3, <1>5 DEF Good, Sound
<1>8. \A x \in Names : Held(World', env'[x])
  BY <1>1, <1>5 DEF Good, Sound
<1>9. StackInv'
  <2> DEFINE top == Frame(L + 1, form, nodes)
  <2>1. top \in Frames /\ top.shell = L + 1
    BY <1>1, <1>2 DEF Frame, Frames
  <2> HIDE DEF top
  <2>2. stack' = Append(stack, top) /\ stack \in Seq(Frames) /\ stack # << >>
    BY <1>1 DEF top, ScopeInv, StackInv
  <2>3. /\ stack' \in Seq(Frames) /\ Len(stack') = Len(stack) + 1
        /\ stack'[Len(stack) + 1] = top
        /\ \A n \in 1 .. Len(stack) : stack'[n] = stack[n]
    BY <2>1, <2>2
  <2>4. 1 \in 1 .. Len(stack) /\ Len(stack) \in Nat
    BY StackIs DEF ScopeInv
  <2>5. stack' # << >> /\ stack'[1].shell = Root
    BY <2>3, <2>4 DEF ScopeInv, StackInv
  <2>6. ASSUME NEW n \in 1 .. Len(stack') PROVE stack'[n].shell \in 1 .. Len(shells')
    <3>1. CASE n \in 1 .. Len(stack)
      <4>1. stack'[n].shell \in 1 .. L
        BY <2>3, <3>1 DEF ScopeInv, StackInv
      <4> QED
        BY <1>2, <1>3, <4>1
    <3>2. CASE n = Len(stack) + 1
      <4>1. stack'[n].shell = L + 1
        BY <2>1, <2>3, <3>2
      <4> QED
        BY <1>2, <1>3, <4>1
    <3> QED
      BY <2>3, <2>4, <3>1, <3>2
  <2> QED
    BY <2>3, <2>5, <2>6 DEF StackInv
<1> QED
  BY <1>3, <1>4, <1>6, <1>7, <1>8, <1>9, WorldIs DEF Sound

LEMMA InitScopeInv == Init => ScopeInv
<1> SUFFICES ASSUME Init PROVE ScopeInv
  OBVIOUS
<1> DEFINE root == [parent |-> 0, vars |-> NoVars]
           frame == Frame(Root, "none", << >>)
<1>1. NoVars \in [Names -> Vals] /\ \A x \in Names : NoVars[x] = Unset
  BY UnsetIs DEF NoVars
<1>2. root \in ShellRecords /\ root.parent = 0 /\ root.vars = NoVars
  BY <1>1 DEF ShellRecords
<1>3. frame \in Frames /\ frame.shell = 1
  BY DEF Frame, Frames, Root, Forms
<1> HIDE DEF root, frame
<1>4. /\ shells = <<root>> /\ heap = << >> /\ env = NoVars
      /\ stack = <<frame>> /\ executed = 0
  BY DEF Init, root, frame
<1>5. shells \in Seq(ShellRecords) /\ Len(shells) = 1 /\ shells[1] = root
  BY <1>2, <1>4
<1>6. Tree(shells)
  BY <1>2, <1>5 DEF Tree
<1>7. World \in Worlds
  BY <1>1, <1>4, <1>5 DEF World, Worlds
<1>8. Held(World, Unset)
  BY UnsetIs DEF Held
<1>9. Sound(World)
  BY <1>1, <1>2, <1>4, <1>5, <1>6, <1>7, <1>8, WorldIs DEF Sound
<1>10. StackInv
  BY <1>3, <1>4, <1>5 DEF StackInv, Root
<1> QED
  BY <1>4, <1>9, <1>10, ScopesAssumption DEF ScopeInv

LEMMA AllClosed ==
  ASSUME ScopeInv
  PROVE  Closed(shells, 1 .. Len(shells))
<1>1. Tree(shells) /\ Len(shells) \in Nat
  BY WorldIs DEF ScopeInv, Sound, Worlds
<1>2. \A k \in 1 .. Len(shells) : k # 1 => shells[k].parent \in 1 .. Len(shells)
  BY <1>1 DEF Tree
<1> QED
  BY <1>1, <1>2 DEF Closed, Tree

LEMMA StepScopeInv ==
  ASSUME ScopeInv, [Next]_vars
  PROVE  ScopeInv'
<1>1. CASE UNCHANGED vars
  BY <1>1 DEF vars, ScopeInv, StackInv, World
<1>2. CASE Next
  <2> DEFINE R == 1 .. Len(shells)
  <2>1. Closed(shells, R) /\ Cur \in R
    BY AllClosed, StackIs DEF ScopeInv
  <2>2. \A es \in ArgRows : Return(es) => Caller \in R
    BY StackIs DEF ScopeInv, Return, Caller
  <2> HIDE DEF R
  <2>3. Kept(R) \/ Called(R)
    BY <1>2, <2>1, <2>2, StepKept
  <2>4. Sound(World') /\ StackInv'
    BY <2>3, CalledSound DEF Kept, Good
  <2>5. executed' \in 0 .. MaxStatements
    BY <1>2, StepCounts
  <2>6. Sound(World)'
    BY <2>4
  <2> QED
    BY <2>4, <2>5, <2>6 DEF ScopeInv
<1> QED
  BY <1>1, <1>2

LEMMA ScopeInvariance == Spec => []ScopeInv
BY InitScopeInv, StepScopeInv, PTL DEF Spec

\* No value of a variable, exported or not, ever refers to an array or a shell
\* that is not there, or to more of an array than it has; every call runs in a
\* shell that is there, with the root at the bottom (Obj, NewSubShell).
THEOREM ReferencesAreSound == Spec => []TypeOK
<1>1. ScopeInv => TypeOK
  <2> SUFFICES ASSUME ScopeInv PROVE TypeOK
    OBVIOUS
  <2>1. /\ shells \in Seq(ShellRecords) /\ heap \in Seq(Arrays) /\ Tree(shells)
        /\ \A k \in 1 .. Len(shells) : \A x \in Names : Held(World, shells[k].vars[x])
        /\ \A x \in Names : Held(World, env[x])
    BY WorldIs DEF ScopeInv, Sound, Worlds
  <2>2. \A k \in DOMAIN shells : shells[k].parent \in IF k = Root THEN {0} ELSE 1 .. k - 1
    BY <2>1 DEF Tree, Root
  <2>3. ASSUME NEW v, Held(World, v) PROVE ValueOK(v)
    <3>1. v.len \in Nat /\ v.type \in {"none", "str", "list", "fn"}
      BY <2>3 DEF Held, Vals
    <3>2. CASE v.type = "list"
      <4>1. v.ref \in DOMAIN heap /\ v.len <= Len(heap[v.ref])
        BY <2>1, <2>3, <3>2, WorldIs DEF Held
      <4>2. Len(heap[v.ref]) \in Nat
        BY <2>1, <4>1 DEF Arrays
      <4> QED
        BY <3>1, <3>2, <4>1, <4>2 DEF ValueOK
    <3>3. CASE v.type = "fn"
      BY <2>1, <2>3, <3>3, WorldIs DEF Held, ValueOK
    <3>4. CASE v.type \in {"none", "str"}
      BY <3>4 DEF ValueOK
    <3> QED
      BY <3>1, <3>2, <3>3, <3>4
  <2>4. ASSUME NEW v \in Values_ PROVE ValueOK(v)
    <3>1. Held(World, v)
      <4>1. CASE v \in UNION {{shells[k].vars[x] : x \in Names} : k \in DOMAIN shells}
        <5>1. PICK A \in {{shells[k].vars[x] : x \in Names} : k \in DOMAIN shells} : v \in A
          BY <4>1
        <5>2. PICK k \in DOMAIN shells : A = {shells[k].vars[x] : x \in Names}
          BY <5>1
        <5>3. DOMAIN shells = 1 .. Len(shells)
          BY <2>1
        <5> QED
          BY <2>1, <5>1, <5>2, <5>3
      <4>2. CASE v \in {env[x] : x \in Names}
        BY <2>1, <4>2
      <4>3. \/ v \in UNION {{shells[k].vars[x] : x \in Names} : k \in DOMAIN shells}
            \/ v \in {env[x] : x \in Names}
        BY Zenon DEF Values_
      <4> QED
        BY <4>1, <4>2, <4>3
    <3> QED
      BY <2>3, <3>1
  <2>5. /\ \A n \in DOMAIN stack : stack[n].shell \in DOMAIN shells
        /\ stack # << >> /\ stack[1].shell = Root
    BY <2>1 DEF ScopeInv, StackInv
  <2> QED
    BY <2>2, <2>4, <2>5 DEF TypeOK, ScopeInv
<1> QED
  BY <1>1, ScopeInvariance, PTL

LEMMA ReachIs ==
  ASSUME ScopeInv, Next
  PROVE  /\ Closed(shells, InReach) /\ Cur \in InReach
         /\ \A es \in ArgRows : Return(es) => Caller \in InReach
<1>1. Tree(shells) /\ Len(shells) \in Nat /\ Cur \in 1 .. Len(shells)
  BY WorldIs, StackIs DEF ScopeInv, Sound, Worlds
<1>2. Closed(shells, Chain(shells, Cur)) /\ Cur \in Chain(shells, Cur)
  BY <1>1, ChainClosed
<1>3. Len(stack') >= 1 /\ Len(stack') \in Nat /\ Len(stack) \in Nat
  <2>1. StackInv'
    BY StepScopeInv DEF ScopeInv
  <2> QED
    BY <2>1, StackIs DEF ScopeInv, StackInv
<1>4. CASE Len(stack') < Len(stack)
  <2>1. Caller \in 1 .. Len(shells)
    BY <1>3, <1>4, StackIs DEF ScopeInv, Caller
  <2>2. Closed(shells, Chain(shells, Caller)) /\ Caller \in Chain(shells, Caller)
    BY <1>1, <2>1, ChainClosed
  <2>3. InReach = Chain(shells, Cur) \cup Chain(shells, Caller)
    BY <1>4 DEF InReach, Caller
  <2> QED
    BY <1>2, <2>2, <2>3 DEF Closed
<1>5. CASE ~(Len(stack') < Len(stack))
  <2>1. InReach = Chain(shells, Cur)
    BY <1>5 DEF InReach
  <2>2. ASSUME NEW es \in ArgRows, Return(es) PROVE FALSE
    <3>1. Len(stack) > 1 /\ Len(stack) - 1 \in 1 .. Len(stack) /\ 1 \in 1 .. Len(stack)
      BY <1>3, <2>2 DEF Return
    <3>2. \/ stack' = SubSeq(stack, 1, Len(stack) - 1)
          \/ stack' = SubSeq(stack, 1, 1)
      BY <2>2 DEF Return, Executed
    <3>3. stack \in Seq(Frames)
      BY DEF ScopeInv, StackInv
    <3>4. ASSUME NEW m \in 1 .. Len(stack) PROVE Len(SubSeq(stack, 1, m)) = m
      BY <3>3
    <3>5. Len(stack') = Len(stack) - 1 \/ Len(stack') = 1
      BY <3>1, <3>2, <3>4
    <3> DEFINE new == Len(stack')
               old == Len(stack)
    <3>6. new \in Nat /\ old \in Nat /\ ~(new < old) /\ old > 1 /\ (new = old - 1 \/ new = 1)
      BY <1>3, <1>5, <3>1, <3>5
    <3> HIDE DEF new, old
    <3> QED
      BY <3>6
  <2> QED
    BY <1>2, <2>1, <2>2
<1> QED
  BY <1>4, <1>5

\* A function changes no variable of its caller and no list that it was not
\* given, however deep the calls are and wherever its closures were declared:
\* a step writes to the shells around the current one, those around the caller
\* when it returns, and the arrays of the lists they hold (Setvar, setvar).
THEOREM CallersAreSafe == Spec => CallerIsPrivate
<1> DEFINE Private ==
      /\ \A k \in DOMAIN shells \ InReach : shells'[k] = shells[k]
      /\ \A a \in DOMAIN heap :
           heap'[a] # heap[a] =>
             \E k \in InReach, x \in Names :
               shells[k].vars[x].type = "list" /\ shells[k].vars[x].ref = a
<1>1. ASSUME ScopeInv, [Next]_vars PROVE [Private]_vars
  <2> SUFFICES ASSUME Next PROVE Private
    BY <1>1
  <2>1. /\ Closed(shells, InReach) /\ Cur \in InReach
        /\ \A es \in ArgRows : Return(es) => Caller \in InReach
    BY <1>1, ReachIs
  <2>2. Kept(InReach) \/ Called(InReach)
    BY <1>1, <2>1, StepKept
  <2>3. DOMAIN shells = 1 .. Len(shells) /\ DOMAIN heap = 1 .. Len(heap)
    BY <1>1, WorldIs DEF ScopeInv, Sound, Worlds
  <2>4. PICK w : /\ Within(World, InReach, w) /\ heap' = w.heap
                 /\ \A k \in 1 .. Len(shells) : shells'[k] = w.shells[k]
    <3>1. CASE Kept(InReach)
      BY <3>1, WorldIs DEF Kept, Good
    <3>2. CASE Called(InReach)
      <4>1. PICK w, new : /\ Good(World, InReach, w) /\ heap' = w.heap
                          /\ shells' = Append(w.shells, new)
        BY <3>2 DEF Called
      <4>2. w.shells \in Seq(ShellRecords) /\ Len(w.shells) = Len(shells)
        BY <4>1, WorldIs, GoodIs DEF Good, Within, Tree
      <4>3. \A k \in 1 .. Len(shells) : shells'[k] = w.shells[k]
        BY <4>1, <4>2
      <4> QED
        BY <4>1, <4>3 DEF Good
    <3> QED
      BY <2>2, <3>1, <3>2
  <2>5. \A k \in (1 .. Len(shells)) \ InReach : shells'[k] = shells[k]
    BY <2>4, WorldIs DEF Within
  <2>6. \A a \in 1 .. Len(heap) : heap'[a] = heap[a] \/ Open(World, InReach, a)
    BY <2>4, WorldIs DEF Within
  <2> QED
    BY <2>3, <2>5, <2>6, WorldIs DEF Open
<1> QED
  BY <1>1, ScopeInvariance, PTL DEF Spec, CallerIsPrivate

\* What a statement exports is what the shell it was in, or goes back to, sees
\* under that name, whatever the variables of that name were before: the name is
\* declared before it is exported (executeSetenvAssign), and the copy in the
\* root hides nothing.
THEOREM SetenvExportsTheVariable == Spec => ExportsWhatItSees
<1>1. ASSUME ScopeInv, [Next]_vars PROVE [Seen]_vars
  <2> SUFFICES ASSUME Next PROVE Seen
    BY <1>1
  <2>1. /\ Closed(shells, InReach) /\ Cur \in InReach
        /\ \A es \in ArgRows : Return(es) => Caller \in InReach
    BY <1>1, ReachIs
  <2>2. Kept(InReach) \/ Called(InReach)
    BY <1>1, <2>1, StepKept
  <2>3. Called(InReach) => env' = env
    BY DEF Called
  <2> QED
    BY <2>2, <2>3 DEF Kept, Seen
<1> QED
  BY <1>1, ScopeInvariance, PTL DEF Spec, ExportsWhatItSees, Seen

LEMMA ValExprIs ==
  ASSUME NEW w, NEW s, NEW v
  PROVE  Eval(w, s, ValExpr(v)).w = w /\ Eval(w, s, ValExpr(v)).val = v
<1>1. ValExpr(v).kind = "val" /\ ValExpr(v).val = v
  BY DEF ValExpr, Expr
<1>2. Eval(w, s, ValExpr(v)) = [w |-> w, val |-> v]
  BY <1>1 DEF Eval
<1> QED
  BY <1>2

\* A result given to a name is found in the shell it was given in.
LEMMA GivenIsSeen ==
  ASSUME NEW o, NEW R, NEW w, Good(o, R, w), w.ok, NEW s \in R,
         NEW nodes \in Seq(Nodes), Len(nodes) = 1, nodes[1].idx = NoIndex,
         NEW v, Fits(o, R, w, v), v # Unset,
         NEW form, form = "var" \/ (form = "set" /\ Getvar(w, s, nodes[1].id) # Unset)
  PROVE  LET u == Give(w, s, form, nodes, <<v>>) IN
         u.ok /\ Getvar(u, s, nodes[1].id) = v
<1>0. nodes[1] \in Nodes
  OBVIOUS
<1> DEFINE vals == <<v>>
           es == [n \in DOMAIN vals |-> ValExpr(vals[n])]
           x == nodes[1].id
           u == Give(w, s, form, nodes, vals)
           k == Owner(w.shells, s, x)
<1>1. /\ w \in Worlds /\ Tree(w.shells) /\ s \in 1 .. Len(w.shells) /\ v \in Vals
      /\ nodes[1] \in Nodes /\ x \in Names
  BY <1>0, GoodIs DEF Fits, Held, Nodes
<1>2. es[1] = ValExpr(v) /\ Len(vals) = 1
  OBVIOUS
<1>3. u = CASE form = "none" -> w
            [] form # "none" /\ Len(nodes) # Len(vals) -> Fail(w)
            [] form = "var" /\ Len(nodes) = Len(vals) -> InTurn(w, s, "newvars", nodes, es)
            [] form = "set" /\ Len(nodes) = Len(vals) -> InTurn(w, s, "set", nodes, es)
            [] form = "setenv" /\ Len(nodes) = Len(vals) ->
                 IF InTurn(w, s, "set", nodes, es).ok
                 THEN InTurn(InTurn(w, s, "set", nodes, es), s, "export", nodes, es)
                 ELSE InTurn(w, s, "set", nodes, es)
  BY DEF Give
<1> HIDE DEF es, vals, u
<1>4. \A how : InTurn(w, s, how, nodes, es) = SetOne(w, s, how, nodes[1], v)
  BY <1>2, InTurnOne, ValExprIs DEF Turn
<1>5. CASE form = "var"
  <2> DEFINE n == Newvar(w, s, x, v)
  <2>1. u = [n EXCEPT !.ok = TRUE]
    <3>1. u = InTurn(w, s, "newvars", nodes, es)
      BY <1>2, <1>3, <1>5
    <3>2. SetOne(w, s, "newvars", nodes[1], v) = [NewNode(w, s, nodes[1], v) EXCEPT !.ok = TRUE]
      BY DEF SetOne
    <3> QED
      BY <1>4, <3>1, <3>2 DEF NewNode
  <2>2. s \in Chain(w.shells, s) /\ \A i \in Chain(w.shells, s) : i <= s
    BY <1>1, ChainClosed
  <2>3. Getvar(n, s, x) = v
    BY <1>1, <2>2, NewvarSeen
  <2>4. n \in Worlds
    BY <1>1, NewvarIs
  <2> HIDE DEF n
  <2>5. u.ok /\ u.shells = n.shells
    BY <2>1, <2>4 DEF Worlds
  <2> QED
    BY <2>3, <2>5 DEF Getvar, VarOf, u, vals
<1>6. CASE form = "set" /\ Getvar(w, s, x) # Unset
  <2>1. u = Setvar(w, s, x, v)
    <3>1. u = InTurn(w, s, "set", nodes, es)
      BY <1>2, <1>3, <1>6
    <3>2. SetOne(w, s, "set", nodes[1], v) = SetNode(w, s, nodes[1], v)
      BY DEF SetOne
    <3> QED
      BY <1>4, <3>1, <3>2 DEF SetNode
  <2>2. k # 0
    BY <1>6 DEF Getvar, VarOf
  <2>3. u = Newvar(w, k, x, v)
    BY <2>1, <2>2 DEF Setvar
  <2>4. /\ k \in Chain(w.shells, s)
        /\ \A i \in Chain(w.shells, s) : w.shells[i].vars[x] # Unset => i <= k
    BY <1>1, <2>2, OwnerIs
  <2>5. k \in 1 .. Len(w.shells)
    BY <1>1, <2>4, ChainClosed DEF Closed
  <2> HIDE DEF k
  <2>6. u.ok
    BY <1>1, <2>3, <2>5, NewvarIs
  <2>7. Getvar(u, s, x) = v
    <3> DEFINE y == x
    <3>1. y \in Names
      BY <1>1
    <3> HIDE DEF y
    <3>2. Getvar(Newvar(w, k, y, v), s, y) = v
      BY <1>1, <2>4, <3>1, NewvarSeen DEF y
    <3> QED
      BY <2>3, <3>2 DEF y
  <2> QED
    BY <2>6, <2>7 DEF u, vals
<1> QED
  BY <1>5, <1>6

\* The result of a function is what its caller finds under the name it gave,
\* also when the function has a variable of that name or was declared in a shell
\* the caller knows nothing of (executeFnInv: the results are set in the caller).
THEOREM CallersGetResults == Spec => ResultsReachCaller
<1> DEFINE Reach ==
      \A es \in ExprRows :
        LET node == Top.nodes[1]
            caller == stack[Len(stack) - 1].shell
            given == Eval(World, Cur, es[1])
        IN  (/\ Len(stack) > 1 /\ Len(stack') < Len(stack)
             /\ Len(es) = 1 /\ Len(Top.nodes) = 1 /\ node.idx = NoIndex
             /\ \/ Top.form = "var"
                \/ Top.form = "set" /\ Getvar(World, caller, node.id) # Unset
             /\ given.w.ok
             /\ Return(es))
            => Getvar(World', caller, node.id) = given.val
<1>1. ASSUME ScopeInv PROVE Reach
  <2> DEFINE x == Top.nodes[1].id
             R == 1 .. Len(shells)
  <2> SUFFICES ASSUME NEW es \in ExprRows,
                      Len(stack) > 1, Len(es) = 1, Len(Top.nodes) = 1,
                      Top.nodes[1].idx = NoIndex,
                      \/ Top.form = "var"
                      \/ Top.form = "set" /\ Getvar(World, Caller, x) # Unset,
                      Eval(World, Cur, es[1]).w.ok,
                      Return(es)
               PROVE  Getvar(World', Caller, x) = Eval(World, Cur, es[1]).val
    BY DEF Caller
  <2> DEFINE given == Eval(World, Cur, es[1])
             g == given.w
             w == Give(g, Caller, Top.form, Top.nodes, <<given.val>>)
  <2>1. Closed(shells, R) /\ Cur \in R /\ Caller \in R /\ Top.nodes \in Seq(Nodes)
    BY <1>1, AllClosed, StackIs DEF ScopeInv, Caller
  <2> HIDE DEF R
  <2>2. Good(World, R, World) /\ World.ok
    BY <1>1, <2>1, WorldGood, WorldIs
  <2>3. ExprFits(World, R, World, es[1]) /\ (es[1].kind = "val" => es[1].val # Unset)
    <3>1. es \in ArgRows /\ 1 \in 1 .. Len(es)
      BY DEF ArgRows
    <3> QED
      BY <3>1, RowFits, ValuesAreSet
  <2>4. /\ Good(World, R, g) /\ Fits(World, R, g, given.val) /\ given.val # Unset
        /\ g.shells = shells
    BY <2>1, <2>2, <2>3, EvalGood, EvalSet, WorldIs
  <2>5. EvalAll(World, Cur, es) = [w |-> g, vals |-> <<given.val>>]
    BY <2>2, EvalAllOne
  <2>6. Executed(w, SubSeq(stack, 1, Len(stack) - 1))
    BY <2>5 DEF Return, Caller
  <2> HIDE DEF given, g
  <2>7. Getvar(g, Caller, x) = Getvar(World, Caller, x)
    BY <2>4, WorldIs DEF Getvar, VarOf
  <2>8. w.ok /\ Getvar(w, Caller, x) = given.val
    <3>1. g.ok /\ (Top.form = "var" \/ (Top.form = "set" /\ Getvar(g, Caller, x) # Unset))
      BY <2>7 DEF g, given
    <3> QED
      BY <2>1, <2>4, <3>1, GivenIsSeen
  <2> HIDE DEF w
  <2>9. World'.shells = w.shells
    BY <2>6, WorldIs DEF Executed
  <2> QED
    BY <2>8, <2>9 DEF Getvar, VarOf, given
<1> QED
  BY <1>1, ScopeInvariance, PTL DEF Spec, ResultsReachCaller
=============================================================================
