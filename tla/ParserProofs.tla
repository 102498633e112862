---------------------------- MODULE ParserProofs ----------------------------
(***************************************************************************)
(* Theorems about Parser, for inputs of any length.  Both properties are   *)
(* about counters the parser and the lexer keep and the stack of the       *)
(* parse functions.  The counters are compared with the stack here: an     *)
(* item is in a block, or owes a right parenthesis, or is about to take a  *)
(* left one; each rule changes the counter by what it does to the items.   *)
(***************************************************************************)
EXTENDS Parser, SequenceTheorems, FiniteSetTheorems, TLAPS

Places ==
  {"expect", "open", "semicolon", "block", "statement", "identifier", "multi", "command",
   "commandEnd", "pipe", "pipeNext", "pipeEnd", "pipeSemicolon", "redirection", "map",
   "mapRight", "location", "arg", "argVariable", "argWord", "argEnd", "concat", "variable",
   "index", "dots", "list", "call", "callArg", "callNext", "callEnd", "assign", "nameEnd",
   "names", "values", "valuesNext", "moreValues", "output", "commandOrCall", "setenv",
   "setenvEnd", "var", "if", "ifRight", "else", "elseBlock", "fn", "parameters",
   "parameter", "parameterEnd", "moreParameters", "for", "in", "callOrVariable", "rfork",
   "rforkBlock", "return", "returned", "returnEnd"}

Flags ==
  Token \union {"Concat", "Arg", "Variadic", "Funcall", "unquoted", "semicolon", "multi"}

\* Where a right parenthesis is owed, always or with the flag "multi".
AlwaysOwes ==
  {"multi", "list", "callArg", "callNext", "parameters", "parameter", "parameterEnd",
   "moreParameters"}
MayOwe == {"command", "pipe", "pipeNext", "pipeEnd"}

\* A left parenthesis is expected alone, a right one nowhere.
Items ==
  {x \in [at : Places, flags : SUBSET Flags, n : Int] :
     x.at = "expect" => "RParen" \notin x.flags
                        /\ ("LParen" \in x.flags => x.flags = {"LParen"})}
Blocks == {x \in Items : x.at = "block"}
Owing == {x \in Items : x.at \in AlwaysOwes \/ (x.at \in MayOwe /\ "multi" \in x.flags)}
Asking == {x \in Items : x.at = "expect" /\ "LParen" \in x.flags}

\* How many items of a stack are in a set.
Positions(S, s) == {k \in 1 .. Len(s) : s[k] \in S}
In(S, s) == Cardinality(Positions(S, s))
Is(S, x) == IF x \in S THEN 1 ELSE 0
AtHead(S, s) == IF s # << >> THEN Is(S, s[1]) ELSE 0

(* The parenthesis the parser has not taken yet. *)
Weight(t) == IF t = "LParen" THEN 1 ELSE IF t = "RParen" THEN 0 - 1 ELSE 0

TypeInv ==
  /\ stack \in Seq(Items)
  /\ openblocks \in Nat /\ openParens \in Int
  /\ insidePipe \in BOOLEAN
  /\ result \in {"none", "ok", "error", "unfinished"}
  /\ tok \in Token \union {NoToken, "Illegal"}
  /\ state \in {"run", "nil", "eof", "closed"}
  /\ tok = "EOF" => state \in {"eof", "closed"}

\* The first item that was put on the stack is the block of the program.
BlocksInv ==
  result = "none" /\ stack # << >> =>
    openblocks + 1 = In(Blocks, stack) /\ stack[Len(stack)] \in Blocks

\* What is owed was opened.  The stack can owe less than the lexer has counted:
\* a command in parentheses that ends at a brace leaves its own behind, and
\* so do parameters that end after a comma.
ParensInv ==
  result = "none" =>
    /\ In(Owing, stack) + Weight(tok) <= openParens + AtHead(Asking, stack)
    /\ \A k \in 2 .. Len(stack) : stack[k] \notin Asking

UnfinishedInv == result = "unfinished" => tok = "EOF" /\ UnfinishedIsOpen

IInv == TypeInv /\ BlocksInv /\ ParensInv /\ UnfinishedInv

-----------------------------------------------------------------------------
(***************************************************************************)
(* Counting                                                                *)
(***************************************************************************)

\* The positions of a finite sequence are finitely many.
LEMMA InTypes ==
  ASSUME NEW S, NEW s \in Seq(Items)
  PROVE  /\ IsFiniteSet(Positions(S, s)) /\ In(S, s) \in Nat
         /\ Is(S, s[1]) \in {0, 1} /\ AtHead(S, s) \in {0, 1}
<1>1. Len(s) \in Nat /\ IsFiniteSet(1 .. Len(s))
  BY FS_Interval
<1>2. Positions(S, s) \subseteq 1 .. Len(s)
  BY DEF Positions
<1>3. IsFiniteSet(Positions(S, s))
  BY <1>1, <1>2, FS_Subset
<1> QED
  BY <1>3, FS_CardinalityType DEF In, Is, AtHead

\* What is put on a stack is counted with what is there.
LEMMA InConcat ==
  ASSUME NEW S, NEW p \in Seq(Items), NEW s \in Seq(Items)
  PROVE  In(S, p \o s) = In(S, p) + In(S, s)
<1> DEFINE A == Positions(S, p)
           T == Positions(S, s)
           up(k) == k + Len(p)
           U == {up(k) : k \in T}
           f == [k \in T |-> k + Len(p)]
<1>1. /\ p \o s \in Seq(Items) /\ Len(p \o s) = Len(p) + Len(s)
      /\ \A k \in 1 .. Len(p) + Len(s) : (p \o s)[k] = IF k <= Len(p) THEN p[k] ELSE s[k - Len(p)]
      /\ Len(p) \in Nat /\ Len(s) \in Nat
  BY ConcatProperties
<1>2. /\ A \subseteq 1 .. Len(p) /\ IsFiniteSet(A) /\ Cardinality(A) \in Nat
      /\ T \subseteq 1 .. Len(s) /\ IsFiniteSet(T) /\ Cardinality(T) \in Nat
  BY <1>1, InTypes DEF Positions, In
<1>3. Positions(S, p \o s) = A \union U
  <2>1. ASSUME NEW k \in Positions(S, p \o s), k > Len(p)
        PROVE  k \in U
    <3>1. k - Len(p) \in T /\ k = (k - Len(p)) + Len(p)
      BY <1>1, <2>1 DEF Positions
    <3> QED
      BY <3>1
  <2>2. ASSUME NEW k \in Positions(S, p \o s), k <= Len(p)
        PROVE  k \in A
    BY <1>1, <2>2 DEF Positions
  <2>3. A \subseteq Positions(S, p \o s) /\ U \subseteq Positions(S, p \o s)
    BY <1>1 DEF Positions
  <2>4. \A k \in Positions(S, p \o s) : k > Len(p) \/ k <= Len(p)
    BY <1>1 DEF Positions
  <2> HIDE DEF A, U
  <2> QED
    BY <2>1, <2>2, <2>3, <2>4
<1>4. f \in Bijection(T, U)
  <2>1. f \in [T -> U]
    OBVIOUS
  <2>2. \A a, b \in T : f[a] = f[b] => a = b
    BY <1>1, <1>2
  <2>3. \A u \in U : \E a \in T : f[a] = u
    OBVIOUS
  <2> HIDE DEF f, T, U
  <2> QED
    BY <2>1, <2>2, <2>3 DEF Bijection, Injection, Surjection, IsInjective
<1>5. IsFiniteSet(U) /\ Cardinality(U) = Cardinality(T)
  BY <1>2, <1>4, FS_Bijection DEF ExistsBijection
<1>6. A \cap U = {}
  BY <1>1, <1>2
<1>7. In(S, p) = Cardinality(A) /\ In(S, s) = Cardinality(T)
      /\ In(S, p \o s) = Cardinality(Positions(S, p \o s))
  BY DEF In
<1> HIDE DEF A, T, U
<1>8. Cardinality(A \union U) = Cardinality(A) + Cardinality(U) - Cardinality({})
  BY <1>2, <1>5, <1>6, FS_Union
<1> QED
  BY <1>2, <1>3, <1>5, <1>7, <1>8, FS_EmptySet

\* The counts of what the rules put on the stack.
LEMMA InOne ==
  ASSUME NEW S
  PROVE  /\ In(S, << >>) = 0
         /\ \A a \in Items : In(S, <<a>>) = Is(S, a)
<1>1. Positions(S, << >>) = {}
  BY DEF Positions
<1>2. ASSUME NEW a \in Items
      PROVE  In(S, <<a>>) = Is(S, a)
  <2>1. Positions(S, <<a>>) = IF a \in S THEN {1} ELSE {}
    BY DEF Positions
  <2> QED
    BY <2>1, FS_EmptySet, FS_Singleton DEF In, Is
<1> QED
  BY <1>1, <1>2, FS_EmptySet DEF In

\* The same for two items and for three.
LEMMA InTuples ==
  ASSUME NEW S, NEW a \in Items, NEW b \in Items
  PROVE  /\ In(S, <<a, b>>) = Is(S, a) + Is(S, b)
         /\ \A c \in Items : In(S, <<a, b, c>>) = Is(S, a) + Is(S, b) + Is(S, c)
<1>1. <<a>> \in Seq(Items) /\ <<b>> \in Seq(Items) /\ <<a, b>> \in Seq(Items)
  OBVIOUS
<1>2. <<a, b>> = <<a>> \o <<b>>
  <2> DEFINE p == <<a>>  q == <<b>>  t == <<a, b>>
  <2>1. Len(p) = 1 /\ Len(q) = 1 /\ Len(t) = 2 /\ p[1] = a /\ q[1] = b /\ t[1] = a /\ t[2] = b
    OBVIOUS
  <2>2. p \in Seq(Items) /\ q \in Seq(Items) /\ t \in Seq(Items)
    OBVIOUS
  <2> HIDE DEF p, q, t
  <2>3. /\ p \o q \in Seq(Items) /\ Len(p \o q) = Len(p) + Len(q)
        /\ \A k \in 1 .. Len(p) + Len(q) :
             (p \o q)[k] = IF k <= Len(p) THEN p[k] ELSE q[k - Len(p)]
    BY <2>2, ConcatProperties
  <2>4. Len(t) = Len(p \o q) /\ \A k \in 1 .. Len(t) : t[k] = (p \o q)[k]
    BY <2>1, <2>3
  <2>5. t = p \o q
    BY <2>2, <2>3, <2>4, SeqEqual
  <2> QED
    BY <2>5 DEF p, q, t
<1>3. In(S, <<a, b>>) = Is(S, a) + Is(S, b)
  <2>1. In(S, <<a>> \o <<b>>) = In(S, <<a>>) + In(S, <<b>>)
    BY <1>1, InConcat, Zenon
  <2>2. In(S, <<a>>) = Is(S, a) /\ In(S, <<b>>) = Is(S, b)
    BY InOne
  <2> QED
    BY <1>2, <2>1, <2>2, Zenon
<1>4. ASSUME NEW c \in Items
      PROVE  In(S, <<a, b, c>>) = Is(S, a) + Is(S, b) + Is(S, c)
  <2>1. <<c>> \in Seq(Items) /\ <<a, b, c>> \in Seq(Items)
    OBVIOUS
  <2>2. <<a, b, c>> = <<a, b>> \o <<c>>
    <3> DEFINE p == <<a, b>>  q == <<c>>  t == <<a, b, c>>
    <3>1. /\ Len(p) = 2 /\ Len(q) = 1 /\ Len(t) = 3
          /\ p[1] = a /\ p[2] = b /\ q[1] = c /\ t[1] = a /\ t[2] = b /\ t[3] = c
      OBVIOUS
    <3>2. p \in Seq(Items) /\ q \in Seq(Items) /\ t \in Seq(Items)
      OBVIOUS
    <3> HIDE DEF p, q, t
    <3>3. /\ p \o q \in Seq(Items) /\ Len(p \o q) = Len(p) + Len(q)
          /\ \A k \in 1 .. Len(p) + Len(q) :
               (p \o q)[k] = IF k <= Len(p) THEN p[k] ELSE q[k - Len(p)]
      BY <3>2, ConcatProperties
    <3>4. Len(t) = Len(p \o q) /\ \A k \in 1 .. Len(t) : t[k] = (p \o q)[k]
      BY <3>1, <3>3
    <3>5. t = p \o q
      BY <3>2, <3>3, <3>4, SeqEqual
    <3> QED
      BY <3>5 DEF p, q, t
  <2>3. In(S, <<a, b>> \o <<c>>) = In(S, <<a, b>>) + In(S, <<c>>)
    BY <1>1, <2>1, InConcat, Zenon
  <2>4. In(S, <<c>>) = Is(S, c)
    BY InOne
  <2> QED
    BY <1>3, <2>2, <2>3, <2>4, Zenon
<1> QED
  BY <1>3, <1>4

\* An item that goes counts no more.
LEMMA InTail ==
  ASSUME NEW S, NEW s \in Seq(Items), s # << >>
  PROVE  In(S, s) = Is(S, Head(s)) + In(S, Tail(s))
<1>1. /\ Head(s) \in Items /\ Tail(s) \in Seq(Items) /\ <<Head(s)>> \in Seq(Items)
      /\ Len(Tail(s)) = Len(s) - 1 /\ Head(s) = s[1]
      /\ \A k \in 1 .. Len(Tail(s)) : Tail(s)[k] = s[k + 1]
  BY HeadTailProperties
<1>2. s = <<Head(s)>> \o Tail(s)
  BY <1>1, ConcatProperties, SeqEqual
<1>3. In(S, <<Head(s)>> \o Tail(s)) = In(S, <<Head(s)>>) + In(S, Tail(s))
  BY <1>1, InConcat, Zenon
<1>4. In(S, <<Head(s)>>) = Is(S, Head(s))
  BY <1>1, InOne
<1> QED
  BY <1>2, <1>3, <1>4, Zenon

-----------------------------------------------------------------------------
(***************************************************************************)
(* Items and rules                                                         *)
(***************************************************************************)
Inert == Items \ (Blocks \union Owing \union Asking)

\* Which items count for what.
LEMMA ItemKinds ==
  /\ \A a \in Places \ ({"expect", "block"} \union AlwaysOwes) :
       /\ At(a) \in Inert
       /\ \A n \in Int : Count(a, n) \in Inert
       /\ \A f \in SUBSET Flags : "multi" \notin f \/ a \notin MayOwe => With(a, f) \in Inert
  /\ \A f \in SUBSET Flags :
       "RParen" \notin f /\ "LParen" \notin f => Expect(f) \in Inert
  /\ At("block") \in Blocks \ (Owing \union Asking)
  /\ \A a \in AlwaysOwes : \A f \in SUBSET Flags :
       At(a) \in Owing \ (Blocks \union Asking) /\ With(a, f) \in Owing \ (Blocks \union Asking)
  /\ \A a \in MayOwe : \A f \in SUBSET Flags :
       /\ With(a, f) \in Items \ (Blocks \union Asking)
       /\ With(a, f) \in Owing <=> "multi" \in f
  /\ Expect({"LParen"}) \in Asking \ (Blocks \union Owing)
<1>1. \A a \in Places : \A f \in SUBSET Flags : \A n \in Int :
        /\ Item(a, f, n) \in [at : Places, flags : SUBSET Flags, n : Int]
        /\ Item(a, f, n).at = a /\ Item(a, f, n).flags = f
  BY DEF Item
<1>2. \A a, f, n : At(a) = Item(a, {}, 0) /\ With(a, f) = Item(a, f, 0)
                   /\ Count(a, n) = Item(a, {}, n) /\ Expect(f) = Item("expect", f, 0)
  BY DEF At, With, Count, Expect
<1>3. {"LParen"} \in SUBSET Flags
  BY DEF Flags, Token
<1>4. /\ AlwaysOwes \subseteq Places \ {"expect", "block"}
      /\ MayOwe \subseteq Places \ {"expect", "block"}
      /\ AlwaysOwes \cap MayOwe = {} /\ {"expect", "block"} \subseteq Places
      /\ "expect" # "block"
  BY DEF AlwaysOwes, MayOwe, Places
<1>5. \A a \in Places \ {"expect"} : \A f \in SUBSET Flags : \A n \in Int :
        /\ Item(a, f, n) \in Items
        /\ Item(a, f, n) \in Blocks <=> a = "block"
        /\ Item(a, f, n) \in Owing <=> a \in AlwaysOwes \/ (a \in MayOwe /\ "multi" \in f)
        /\ Item(a, f, n) \notin Asking
  BY <1>1 DEF Items, Blocks, Owing, Asking
<1>6. \A f \in SUBSET Flags : "RParen" \notin f /\ ("LParen" \in f => f = {"LParen"}) =>
        /\ Expect(f) \in Items \ (Blocks \union Owing)
        /\ Expect(f) \in Asking <=> "LParen" \in f
  BY <1>1, <1>2, <1>4 DEF Items, Blocks, Owing, Asking
<1> HIDE DEF Places, AlwaysOwes, MayOwe
<1>7. {} \in SUBSET Flags /\ 0 \in Int /\ "multi" \notin {} /\ "RParen" \notin {"LParen"}
  OBVIOUS
<1>8. ASSUME NEW a \in Places \ ({"expect", "block"} \union AlwaysOwes)
      PROVE  /\ At(a) \in Inert
             /\ \A n \in Int : Count(a, n) \in Inert
             /\ \A f \in SUBSET Flags :
                  "multi" \notin f \/ a \notin MayOwe => With(a, f) \in Inert
  <2>1. \A f \in SUBSET Flags : \A n \in Int :
          "multi" \notin f \/ a \notin MayOwe => Item(a, f, n) \in Inert
    BY <1>5, <1>8 DEF Inert
  <2>2. At(a) \in Inert
    BY <1>2, <1>7, <2>1
  <2>3. \A n \in Int : Count(a, n) \in Inert
    BY <1>2, <1>7, <2>1
  <2> QED
    BY <1>2, <1>7, <2>1, <2>2, <2>3
<1>9. \A f \in SUBSET Flags :
       "RParen" \notin f /\ "LParen" \notin f => Expect(f) \in Inert
  BY <1>6 DEF Inert
<1>10. At("block") \in Blocks \ (Owing \union Asking)
  BY <1>2, <1>4, <1>5, <1>7
<1>11. \A a \in AlwaysOwes : \A f \in SUBSET Flags :
       At(a) \in Owing \ (Blocks \union Asking) /\ With(a, f) \in Owing \ (Blocks \union Asking)
  BY <1>2, <1>4, <1>5, <1>7
<1>12. \A a \in MayOwe : \A f \in SUBSET Flags :
       /\ With(a, f) \in Items \ (Blocks \union Asking)
       /\ With(a, f) \in Owing <=> "multi" \in f
  BY <1>2, <1>4, <1>5, <1>7
<1>13. Expect({"LParen"}) \in Asking \ (Blocks \union Owing)
  BY <1>3, <1>6, <1>7
<1> QED
  BY <1>8, <1>9, <1>10, <1>11, <1>12, <1>13

\* What is owed by what a rule puts on the stack, and by the item that goes:
\* nothing for the left parenthesis that the first item will take.
Owes(push) == In(Owing, push) - AtHead(Asking, push)
Lends(x) == Is(Owing, x) - Is(Asking, x)

\* What a rule may do: it puts a block on the stack, or takes one off, as it
\* counts; it owes a right parenthesis more only for a left one, and takes a
\* right one only where it is owed.
Sound(x, r) ==
  /\ r.push \in Seq(Items) /\ r.take \in BOOLEAN /\ r.inside \in BOOLEAN
  /\ r.open \in Int /\ openblocks + r.open \in Nat
  /\ \A k \in 2 .. Len(r.push) : r.push[k] \notin Asking
  /\ r.result = "none" =>
       /\ \/ /\ In(Blocks, r.push) = Is(Blocks, x) + r.open
             /\ x \in Blocks => \/ r.push # << >> /\ r.push[Len(r.push)] \in Blocks
                                \/ r.push = << >> /\ r.open = 0 - 1 /\ openblocks > 0
          \/ x \in Blocks /\ openblocks = 0 /\ r.open = 0 /\ r.push = << >>
       /\ \A t \in r.on : Owes(r.push) <= Lends(x) + (IF r.take THEN Weight(t) ELSE 0)
  /\ r.result # "none" =>
       r.result = "unfinished" /\ r.on \subseteq {"EOF"} /\ ~r.take /\ r.open = 0
       /\ (openblocks > 0 \/ x \in Owing)

\* Rules that have to do with neither blocks nor parentheses.
Easy(r) ==
  /\ r.push \in Seq(Inert) /\ r.take \in BOOLEAN /\ r.inside \in BOOLEAN /\ r.open = 0
  /\ r.result = "none"
  /\ r.take => "RParen" \notin r.on

\* Inert items are not counted.
LEMMA InInert ==
  ASSUME NEW S \in {Blocks, Owing, Asking}, NEW s \in Seq(Inert)
  PROVE  In(S, s) = 0 /\ AtHead(S, s) = 0 /\ s \in Seq(Items)
         /\ \A k \in 1 .. Len(s) : s[k] \notin S
<1>1. s \in Seq(Items) /\ \A k \in 1 .. Len(s) : s[k] \in Inert
  BY DEF Inert
<1>2. \A k \in 1 .. Len(s) : s[k] \notin S
  BY <1>1 DEF Inert
<1>3. Positions(S, s) = {}
  BY <1>2 DEF Positions
<1>4. s # << >> => 1 \in 1 .. Len(s)
  BY <1>1
<1> QED
  BY <1>1, <1>2, <1>3, <1>4, FS_EmptySet DEF In, AtHead, Is

\* An easy rule is sound wherever it is used.
LEMMA EasySound ==
  ASSUME TypeInv, NEW x \in Items \ (Blocks \union Asking), NEW r, Easy(r)
  PROVE  Sound(x, r)
<1>1. /\ r.push \in Seq(Items) /\ In(Blocks, r.push) = 0 /\ In(Owing, r.push) = 0
      /\ AtHead(Asking, r.push) = 0 /\ \A k \in 1 .. Len(r.push) : r.push[k] \notin Asking
  BY InInert DEF Easy
<1>2. Is(Blocks, x) = 0 /\ Lends(x) \in {0, 1} /\ Owes(r.push) = 0
  BY <1>1 DEF Is, Lends, Owes
<1>3. \A t \in r.on : r.take => Weight(t) >= 0
  BY DEF Easy, Weight
<1>4. openblocks \in Nat /\ \A t : Weight(t) \in Int
  BY DEF TypeInv, Weight
<1>5. \A k \in 2 .. Len(r.push) : r.push[k] \notin Asking
  BY <1>1
<1> QED
  BY <1>1, <1>2, <1>3, <1>4, <1>5 DEF Sound, Easy

-----------------------------------------------------------------------------
\* Places whose rules are easy.
EasyPlaces ==
  {"semicolon", "identifier", "commandEnd", "pipeSemicolon", "redirection", "map",
   "mapRight", "location", "arg", "argVariable", "argWord", "argEnd", "concat", "variable",
   "index", "dots", "callEnd", "assign", "nameEnd", "names", "valuesNext", "commandOrCall",
   "setenv", "setenvEnd", "var", "if", "ifRight", "else", "callOrVariable", "rfork",
   "return", "returnEnd"}

\* Places that neither are in a block of their own nor owe a parenthesis.
InertPlaces ==
  EasyPlaces \union {"statement", "open", "elseBlock", "fn", "for", "in", "rforkBlock",
                     "returned", "call", "output", "values", "moreValues"}

\* Items of those places are inert, whatever they were told.
LEMMA InertItems ==
  /\ \A a \in InertPlaces :
       /\ At(a) \in Inert
       /\ \A n \in Int : Count(a, n) \in Inert
       /\ \A f \in SUBSET Flags : With(a, f) \in Inert
  /\ {CommandArg, Location, ListArg, ConcatArg, Expression, CallArg} \subseteq Inert
  /\ \A f \in SUBSET Flags :
       "RParen" \notin f /\ "LParen" \notin f => Expect(f) \in Inert
  /\ At("command") \in Inert /\ With("call", {"semicolon"}) \in Inert
<1>1. \A a \in InertPlaces :
        a \in Places \ ({"expect", "block"} \union AlwaysOwes \union MayOwe)
  BY DEF InertPlaces, EasyPlaces, Places, AlwaysOwes, MayOwe
<1>2. /\ {"Concat", "Arg", "Variadic"} \in SUBSET Flags /\ {"Concat", "Arg"} \in SUBSET Flags
      /\ {"Funcall"} \in SUBSET Flags /\ {"Concat", "Funcall"} \in SUBSET Flags
      /\ {"Concat", "Funcall", "Variadic"} \in SUBSET Flags /\ {"semicolon"} \in SUBSET Flags
  BY DEF Flags
<1>3. {"arg", "call"} \subseteq InertPlaces
  BY DEF InertPlaces, EasyPlaces
<1>4. "command" \in Places \ ({"expect", "block"} \union AlwaysOwes)
  BY DEF Places, AlwaysOwes
<1> HIDE DEF InertPlaces, EasyPlaces, Places, AlwaysOwes, MayOwe, Flags
<1>5. \A a \in InertPlaces :
       /\ At(a) \in Inert
       /\ \A n \in Int : Count(a, n) \in Inert
       /\ \A f \in SUBSET Flags : With(a, f) \in Inert
  BY <1>1, ItemKinds
<1>6. {CommandArg, Location, ListArg, ConcatArg, Expression, CallArg} \subseteq Inert
  BY <1>2, <1>3, <1>5 DEF CommandArg, Location, ListArg, ConcatArg, Expression, CallArg
<1>7. With("call", {"semicolon"}) \in Inert /\ At("command") \in Inert
  BY <1>2, <1>3, <1>4, <1>5, ItemKinds
<1> QED
  BY <1>5, <1>6, <1>7, ItemKinds

\* Parentheses are no arguments, commands or names.
LEMMA TokenSets ==
  /\ "RParen" \notin ValidArgument /\ "LParen" \notin ValidArgument
  /\ "RParen" \notin Command /\ "LParen" \notin Command
  /\ "RParen" \notin Identifier /\ "LParen" \notin Identifier
  /\ Command \subseteq Flags /\ Identifier \subseteq Flags /\ Token \subseteq Flags
  /\ {"unquoted", "Concat", "Arg", "Variadic", "Funcall", "semicolon", "multi"} \subseteq Flags
  /\ {"Number", "RBrack", "String", "Equal", "NotEqual", "In", "LParen"} \subseteq Flags
  BY DEF ValidArgument, Command, Identifier, Keyword, Flags, Token, Word, Plain

\* To look or to take a token and push inert items is easy.
LEMMA EasyKinds ==
  ASSUME TypeInv, NEW on, NEW push \in Seq(Inert)
  PROVE  Easy(Look(on, push)) /\ ("RParen" \notin on => Easy(Shift(on, push)))
  BY DEF TypeInv, Easy, Look, Shift, Rule

\* The changes made to rules leave them easy.
LEMMA EasyChanged ==
  ASSUME TypeInv, NEW on, NEW push \in Seq(Inert)
  PROVE  /\ Easy(LeavePipe(Look(on, push)))
         /\ \A S : Easy([Look(on, push) EXCEPT !.on = Look(on, push).on \ S])
         /\ \A S : "RParen" \notin on =>
              Easy([Shift(on, push) EXCEPT !.on = Shift(on, push).on \ S])
         /\ \A p \in Seq(Inert) : Easy([Look(on, push) EXCEPT !.push = p])
<1> USE DEF TypeInv, Easy, Look, Shift, Rule, LeavePipe
<1>1. Easy(LeavePipe(Look(on, push)))
  OBVIOUS
<1>2. \A S : Easy([Look(on, push) EXCEPT !.on = Look(on, push).on \ S])
  OBVIOUS
<1>3. \A S : "RParen" \notin on => Easy([Shift(on, push) EXCEPT !.on = Shift(on, push).on \ S])
  OBVIOUS
<1>4. \A p \in Seq(Inert) : Easy([Look(on, push) EXCEPT !.push = p])
  OBVIOUS
<1> QED
  BY <1>1, <1>2, <1>3, <1>4

\* The rules of the easy places, one place after the other.
LEMMA EasyRules ==
  ASSUME TypeInv, NEW x \in Items, x.at \in EasyPlaces
  PROVE  \A r \in Rules(x) : Easy(r)
<1>x. x.flags \in SUBSET Flags /\ x.n \in Int
  BY DEF Items
<1>i. \A a \in InertPlaces :
       /\ At(a) \in Inert
       /\ \A n \in Int : Count(a, n) \in Inert
       /\ \A f \in SUBSET Flags : With(a, f) \in Inert
  BY InertItems
<1>a. /\ {CommandArg, Location, ListArg, ConcatArg, Expression, CallArg} \subseteq Inert
      /\ At("command") \in Inert /\ With("call", {"semicolon"}) \in Inert
      /\ << >> \in Seq(Inert)
  BY InertItems
<1>e. /\ Expect({"RBrack"}) \in Inert /\ Expect({"Number"}) \in Inert
      /\ Expect({"Equal", "NotEqual"}) \in Inert
  BY InertItems, TokenSets
<1>1. ASSUME x.at = "semicolon"
      PROVE  \A r \in Rules(x) : Easy(r)
  <2>1. Rules(x) = OptSemicolon
    BY <1>1 DEF Rules
  <2> QED
    BY <1>a, <2>1, EasyKinds DEF OptSemicolon
<1>2. ASSUME x.at = "identifier"
      PROVE  \A r \in Rules(x) : Easy(r)
  <2>1. Rules(x) = IdentifierRules
    BY <1>2 DEF Rules
  <2>2. {"assign"} \subseteq InertPlaces
    BY DEF InertPlaces, EasyPlaces
  <2>3. /\ <<With("call", {"semicolon"})>> \in Seq(Inert)
        /\ <<Count("assign", 1)>> \in Seq(Inert)
        /\ <<At("command")>> \in Seq(Inert)
    BY <1>i, <1>a, <2>2
  <2> QED
    BY <1>a, <2>1, <2>3, EasyKinds DEF IdentifierRules, Assignment
<1>3. ASSUME x.at = "commandEnd"
      PROVE  \A r \in Rules(x) : Easy(r)
  <2>1. Rules(x) = CommandEnd
    BY <1>3 DEF Rules
  <2>2. Easy(LeavePipe(Look(Token, << >>)))
    BY <1>a, EasyChanged
  <2>3. Easy(Shift({"Semicolon"}, << >>))
    BY <1>a, EasyKinds
  <2> QED
    BY <2>1, <2>2, <2>3 DEF CommandEnd
<1>4. ASSUME x.at = "pipeSemicolon"
      PROVE  \A r \in Rules(x) : Easy(r)
  <2>1. Rules(x) = PipeSemicolon
    BY <1>4 DEF Rules
  <2> QED
    BY <1>a, <2>1, EasyKinds DEF PipeSemicolon
<1>5. ASSUME x.at = "redirection"
      PROVE  \A r \in Rules(x) : Easy(r)
  <2>1. Rules(x) = RedirectionRules
    BY <1>5 DEF Rules
  <2>2. {"map"} \subseteq InertPlaces
    BY DEF InertPlaces, EasyPlaces
  <2>3. /\ <<Location>> \in Seq(Inert)
        /\ <<Expect({"Number"}), At("map")>> \in Seq(Inert)
    BY <1>i, <1>a, <1>e, <2>2
  <2> QED
    BY <1>a, <2>1, <2>3, EasyKinds, TokenSets DEF RedirectionRules
<1>6. ASSUME x.at = "map"
      PROVE  \A r \in Rules(x) : Easy(r)
  <2>1. Rules(x) = MapRules
    BY <1>6 DEF Rules
  <2>2. {"location", "mapRight"} \subseteq InertPlaces
    BY DEF InertPlaces, EasyPlaces
  <2>3. /\ <<At("location")>> \in Seq(Inert)
        /\ <<At("mapRight")>> \in Seq(Inert)
    BY <1>i, <1>a, <2>2
  <2> QED
    BY <1>a, <2>1, <2>3, EasyKinds DEF MapRules
<1>7. ASSUME x.at = "mapRight"
      PROVE  \A r \in Rules(x) : Easy(r)
  <2>1. Rules(x) = MapRightRules
    BY <1>7 DEF Rules
  <2>2. {"location"} \subseteq InertPlaces
    BY DEF InertPlaces, EasyPlaces
  <2>3. /\ <<At("location")>> \in Seq(Inert)
        /\ <<Expect({"RBrack"}), At("location")>> \in Seq(Inert)
    BY <1>i, <1>a, <1>e, <2>2
  <2> QED
    BY <1>a, <2>1, <2>3, EasyKinds DEF MapRightRules
<1>8. ASSUME x.at = "location"
      PROVE  \A r \in Rules(x) : Easy(r)
  <2>1. Rules(x) = LocationRules
    BY <1>8 DEF Rules
  <2>2. <<Location>> \in Seq(Inert)
    BY <1>i, <1>a
  <2> QED
    BY <1>a, <2>1, <2>2, EasyKinds, TokenSets DEF LocationRules
<1>9. ASSUME x.at = "arg"
      PROVE  \A r \in Rules(x) : Easy(r)
  <2>1. Rules(x) = ArgumentRules(x)
    BY <1>9 DEF Rules
  <2> DEFINE f == x.flags
             g == x.flags \union {"unquoted"}
  <2>2. f \in SUBSET Flags /\ g \in SUBSET Flags
    BY <1>x, TokenSets
  <2>3. {"argVariable", "argEnd", "argWord"} \subseteq InertPlaces
    BY DEF InertPlaces, EasyPlaces
  <2>4. /\ <<With("argVariable", f), With("argEnd", f)>> \in Seq(Inert)
        /\ <<With("argEnd", f)>> \in Seq(Inert)
        /\ <<With("argWord", g)>> \in Seq(Inert)
        /\ <<With("argWord", f)>> \in Seq(Inert)
    BY <1>i, <1>a, <2>2, <2>3
  <2>5. /\ Easy(Shift({"Variable"}, <<With("argVariable", f), With("argEnd", f)>>))
        /\ Easy(Shift({"String"}, <<With("argEnd", f)>>))
    BY <2>4, EasyKinds
  <2>6. /\ Easy(Shift(Command, <<With("argWord", g)>>))
        /\ Easy(Shift(ValidArgument \ (Command \union {"Variable", "String"}),
                      <<With("argWord", f)>>))
    BY <2>4, EasyKinds, TokenSets
  <2> QED
    BY <2>1, <2>5, <2>6 DEF ArgumentRules
<1>10. ASSUME x.at = "argVariable"
      PROVE  \A r \in Rules(x) : Easy(r)
  <2>1. Rules(x) = ArgVariableRules(x)
    BY <1>10 DEF Rules
  <2> DEFINE f == x.flags
  <2>2. f \in SUBSET Flags
    BY <1>x, TokenSets
  <2>3. {"call", "variable"} \subseteq InertPlaces
    BY DEF InertPlaces, EasyPlaces
  <2>4. /\ <<At("call")>> \in Seq(Inert)
        /\ <<With("variable", f)>> \in Seq(Inert)
    BY <1>i, <1>a, <2>2, <2>3
  <2> QED
    BY <1>a, <2>1, <2>4, EasyKinds DEF ArgVariableRules, CallIf, NoCall
<1>11. ASSUME x.at = "argWord"
      PROVE  \A r \in Rules(x) : Easy(r)
  <2>1. Rules(x) = ArgWordRules(x)
    BY <1>11 DEF Rules
  <2> DEFINE f == x.flags
             h == x.flags \ {"unquoted"}
  <2>2. f \in SUBSET Flags /\ h \in SUBSET Flags
    BY <1>x, TokenSets
  <2>3. {"call", "argEnd"} \subseteq InertPlaces
    BY DEF InertPlaces, EasyPlaces
  <2>4. /\ <<At("call"), With("argEnd", h)>> \in Seq(Inert)
        /\ <<With("argEnd", f)>> \in Seq(Inert)
    BY <1>i, <1>a, <2>2, <2>3
  <2> QED
    BY <1>a, <2>1, <2>4, EasyKinds DEF ArgWordRules, CallIf, NoCall
<1>12. ASSUME x.at = "argEnd"
      PROVE  \A r \in Rules(x) : Easy(r)
  <2>1. Rules(x) = ArgEndRules(x)
    BY <1>12 DEF Rules
  <2>2. {"concat"} \subseteq InertPlaces
    BY DEF InertPlaces, EasyPlaces
  <2>3. <<At("concat")>> \in Seq(Inert)
    BY <1>i, <1>a, <2>2
  <2> QED
    BY <1>a, <2>1, <2>3, EasyKinds DEF ArgEndRules
<1>13. ASSUME x.at = "concat"
      PROVE  \A r \in Rules(x) : Easy(r)
  <2>1. Rules(x) = ConcatRules
    BY <1>13 DEF Rules
  <2>2. {"concat"} \subseteq InertPlaces
    BY DEF InertPlaces, EasyPlaces
  <2>3. <<ConcatArg, At("concat")>> \in Seq(Inert)
    BY <1>i, <1>a, <2>2
  <2> QED
    BY <1>a, <2>1, <2>3, EasyKinds DEF ConcatRules
<1>14. ASSUME x.at = "variable"
      PROVE  \A r \in Rules(x) : Easy(r)
  <2>1. Rules(x) = VariableRules(x)
    BY <1>14 DEF Rules
  <2> DEFINE f == x.flags
             next == <<With("dots", f)>>
             two == <<At("index"), Expect({"RBrack"})>>
  <2>2. {"dots", "index"} \subseteq InertPlaces
    BY DEF InertPlaces, EasyPlaces
  <2>3. With("dots", f) \in Inert /\ At("index") \in Inert /\ Expect({"RBrack"}) \in Inert
    BY <1>x, <1>i, <1>e, <2>2
  <2>4. next \in Seq(Inert) /\ two \in Seq(Inert) /\ << >> \in Seq(Inert)
    BY <2>3
  <2> HIDE DEF next, two
  <2>5. two \o next \in Seq(Inert)
    BY <2>4, ConcatProperties
  <2>6. Index(next) = Shift({"LBrack"}, two \o next)
    BY DEF Index, two
  <2>7. \A r \in DotsRules(x) : \E on :
          r = Look(on, << >>) \/ (r = Shift(on, << >>) /\ "RParen" \notin on)
    BY DEF DotsRules
  <2>8. \A r \in DotsRules(x) : Easy([r EXCEPT !.on = r.on \ {"LBrack"}])
    BY <2>4, <2>7, EasyChanged
  <2>9. Rules(x) = {Index(next)} \union {[r EXCEPT !.on = r.on \ {"LBrack"}] : r \in DotsRules(x)}
    BY <2>1 DEF VariableRules, next
  <2>10. Easy(Index(next))
    BY <2>5, <2>6, EasyKinds
  <2> QED
    BY <2>8, <2>9, <2>10
<1>15. ASSUME x.at = "index"
      PROVE  \A r \in Rules(x) : Easy(r)
  <2>1. Rules(x) = IndexRules
    BY <1>15 DEF Rules
  <2>2. {"variable"} \subseteq InertPlaces
    BY DEF InertPlaces, EasyPlaces
  <2>3. <<At("variable")>> \in Seq(Inert)
    BY <1>i, <1>a, <2>2
  <2> QED
    BY <1>a, <2>1, <2>3, EasyKinds DEF IndexRules
<1>16. ASSUME x.at = "dots"
      PROVE  \A r \in Rules(x) : Easy(r)
  <2>1. Rules(x) = DotsRules(x)
    BY <1>16 DEF Rules
  <2> QED
    BY <1>a, <2>1, EasyKinds DEF DotsRules
<1>17. ASSUME x.at = "callEnd"
      PROVE  \A r \in Rules(x) : Easy(r)
  <2>1. Rules(x) = CallEndRules(x)
    BY <1>17 DEF Rules
  <2>2. \A r \in OptSemicolon : Easy(r)
    BY <1>a, EasyKinds DEF OptSemicolon
  <2>3. Easy(Look(Token, << >>))
    BY <1>a, EasyKinds
  <2> QED
    BY <2>1, <2>2, <2>3 DEF CallEndRules
<1>18. ASSUME x.at = "assign"
      PROVE  \A r \in Rules(x) : Easy(r)
  <2>1. Rules(x) = AssignRules(x.n)
    BY <1>18 DEF Rules
  <2> DEFINE next == <<Count("nameEnd", x.n)>>
             two == <<At("index"), Expect({"RBrack"})>>
  <2>2. {"nameEnd", "index", "names", "values", "output"}
          \subseteq InertPlaces
    BY DEF InertPlaces, EasyPlaces
  <2>3. /\ Count("nameEnd", x.n) \in Inert /\ At("index") \in Inert
        /\ Count("names", x.n) \in Inert /\ Count("values", x.n) \in Inert
        /\ At("output") \in Inert /\ Expect({"RBrack"}) \in Inert
    BY <1>x, <1>i, <1>e, <2>2
  <2>4. /\ next \in Seq(Inert) /\ two \in Seq(Inert) /\ <<Count("names", x.n)>> \in Seq(Inert)
        /\ <<Count("values", x.n)>> \in Seq(Inert) /\ <<At("output")>> \in Seq(Inert)
    BY <2>3
  <2> HIDE DEF next, two
  <2>5. two \o next \in Seq(Inert)
    BY <2>4, ConcatProperties
  <2>6. Index(next) = Shift({"LBrack"}, two \o next)
    BY DEF Index, two
  <2>7. \A r \in NameEndRules(x.n) : Easy(r)
    BY <2>4, EasyKinds DEF NameEndRules, AssignOp
  <2>8. Rules(x) = {Index(next)} \union NameEndRules(x.n)
    BY <2>1 DEF AssignRules, next
  <2> QED
    BY <2>5, <2>6, <2>7, <2>8, EasyKinds
<1>19. ASSUME x.at = "nameEnd"
      PROVE  \A r \in Rules(x) : Easy(r)
  <2>1. Rules(x) = NameEndRules(x.n)
    BY <1>19 DEF Rules
  <2>2. {"names", "values", "output"} \subseteq InertPlaces
    BY DEF InertPlaces, EasyPlaces
  <2>3. /\ <<Count("names", x.n)>> \in Seq(Inert)
        /\ <<Count("values", x.n)>> \in Seq(Inert)
        /\ <<At("output")>> \in Seq(Inert)
    BY <1>i, <1>a, <1>x, <2>2
  <2> QED
    BY <1>a, <2>1, <2>3, EasyKinds DEF NameEndRules, AssignOp
<1>20. ASSUME x.at = "names"
      PROVE  \A r \in Rules(x) : Easy(r)
  <2>1. Rules(x) = NamesRules(x.n)
    BY <1>20 DEF Rules
  <2>2. {"assign", "values", "output"} \subseteq InertPlaces
    BY DEF InertPlaces, EasyPlaces
  <2>3. /\ <<Count("assign", x.n + 1)>> \in Seq(Inert)
        /\ <<Count("values", x.n)>> \in Seq(Inert)
        /\ <<At("output")>> \in Seq(Inert)
    BY <1>i, <1>a, <1>x, <2>2
  <2>4. Easy(Shift(Identifier, <<Count("assign", x.n + 1)>>))
    BY <2>3, EasyKinds, TokenSets
  <2>5. /\ Easy(Shift({"Assign"}, <<Count("values", x.n)>>))
        /\ Easy(Shift({"AssignCmd"}, <<At("output")>>))
    BY <2>3, EasyKinds
  <2> QED
    BY <2>1, <2>4, <2>5 DEF NamesRules, AssignOp
<1>21. ASSUME x.at = "valuesNext"
      PROVE  \A r \in Rules(x) : Easy(r)
  <2>1. Rules(x) = ValuesNextRules(x.n)
    BY <1>21 DEF Rules
  <2>2. "moreValues" \in InertPlaces
    BY DEF InertPlaces
  <2>3. Count("moreValues", x.n) \in Inert
    BY <1>x, <1>i, <2>2
  <2>4. <<Count("moreValues", x.n)>> \in Seq(Inert) /\ << >> \in Seq(Inert)
    BY <2>3
  <2>5. \A r \in OptSemicolon : \E on :
          r = Look(on, << >>) \/ (r = Shift(on, << >>) /\ "RParen" \notin on)
    BY DEF OptSemicolon
  <2>6. \A r \in OptSemicolon : Easy([r EXCEPT !.on = r.on \ {"Comma"}])
    BY <2>4, <2>5, EasyChanged
  <2>7. \A r \in Rules(x) : \/ r = Shift({"Comma"}, <<Count("moreValues", x.n)>>)
                          \/ \E q \in OptSemicolon : r = [q EXCEPT !.on = q.on \ {"Comma"}]
    BY <2>1 DEF ValuesNextRules
  <2>8. Easy(Shift({"Comma"}, <<Count("moreValues", x.n)>>))
    BY <2>4, EasyKinds
  <2> QED
    BY <2>6, <2>7, <2>8
<1>22. ASSUME x.at = "commandOrCall"
      PROVE  \A r \in Rules(x) : Easy(r)
  <2>1. Rules(x) = CommandOrCallRules
    BY <1>22 DEF Rules
  <2>2. /\ <<With("call", {"semicolon"})>> \in Seq(Inert)
        /\ <<At("command")>> \in Seq(Inert)
    BY <1>i, <1>a
  <2> QED
    BY <1>a, <2>1, <2>2, EasyKinds DEF CommandOrCallRules
<1>23. ASSUME x.at = "setenv"
      PROVE  \A r \in Rules(x) : Easy(r)
  <2>1. Rules(x) = SetenvRules
    BY <1>23 DEF Rules
  <2>2. {"setenvEnd"} \subseteq InertPlaces
    BY DEF InertPlaces, EasyPlaces
  <2>3. <<At("setenvEnd")>> \in Seq(Inert)
    BY <1>i, <1>a, <2>2
  <2> QED
    BY <1>a, <2>1, <2>3, EasyKinds, TokenSets DEF SetenvRules
<1>24. ASSUME x.at = "setenvEnd"
      PROVE  \A r \in Rules(x) : Easy(r)
  <2>1. Rules(x) = SetenvEndRules
    BY <1>24 DEF Rules
  <2>2. {"assign"} \subseteq InertPlaces
    BY DEF InertPlaces, EasyPlaces
  <2>3. <<Count("assign", 1)>> \in Seq(Inert)
    BY <1>i, <1>a, <2>2
  <2> QED
    BY <1>a, <2>1, <2>3, EasyKinds DEF SetenvEndRules
<1>25. ASSUME x.at = "var"
      PROVE  \A r \in Rules(x) : Easy(r)
  <2>1. Rules(x) = VarRules
    BY <1>25 DEF Rules
  <2>2. {"assign"} \subseteq InertPlaces
    BY DEF InertPlaces, EasyPlaces
  <2>3. <<Count("assign", 1)>> \in Seq(Inert)
    BY <1>i, <1>a, <2>2
  <2> QED
    BY <1>a, <2>1, <2>3, EasyKinds, TokenSets DEF VarRules
<1>26. ASSUME x.at = "if"
      PROVE  \A r \in Rules(x) : Easy(r)
  <2>1. Rules(x) = IfRules
    BY <1>26 DEF Rules
  <2> DEFINE tokens == Identifier \union {"String", "Variable"}
             p == <<Expression>>
             q == <<Expect({"Equal", "NotEqual"}), At("ifRight"), At("open"), At("else")>>
  <2>2. {"ifRight", "open", "else"} \subseteq InertPlaces
    BY DEF InertPlaces, EasyPlaces
  <2>3. /\ Expression \in Inert /\ Expect({"Equal", "NotEqual"}) \in Inert
        /\ At("ifRight") \in Inert /\ At("open") \in Inert /\ At("else") \in Inert
    BY <1>i, <1>e, <1>a, <2>2
  <2>4. p \in Seq(Inert) /\ q \in Seq(Inert)
    BY <2>3
  <2>5. Rules(x) = {[Look(tokens, p) EXCEPT !.push = Look(tokens, p).push \o q]}
    BY <2>1 DEF IfRules, IfExpr
  <2> HIDE DEF p, q, tokens
  <2>6. p \o q \in Seq(Inert)
    BY <2>4, ConcatProperties
  <2>7. Look(tokens, p).push = p
    BY DEF Look, Rule
  <2>8. Easy([Look(tokens, p) EXCEPT !.push = p \o q])
    BY <2>4, <2>6, EasyChanged
  <2> QED
    BY <2>5, <2>7, <2>8
<1>27. ASSUME x.at = "ifRight"
      PROVE  \A r \in Rules(x) : Easy(r)
  <2>1. Rules(x) = {IfExpr}
    BY <1>27 DEF Rules
  <2>2. <<Expression>> \in Seq(Inert)
    BY <1>i, <1>a
  <2> QED
    BY <1>a, <2>1, <2>2, EasyKinds, TokenSets DEF IfExpr
<1>28. ASSUME x.at = "else"
      PROVE  \A r \in Rules(x) : Easy(r)
  <2>1. Rules(x) = ElseRules
    BY <1>28 DEF Rules
  <2>2. {"elseBlock"} \subseteq InertPlaces
    BY DEF InertPlaces, EasyPlaces
  <2>3. <<At("elseBlock")>> \in Seq(Inert)
    BY <1>i, <1>a, <2>2
  <2> QED
    BY <1>a, <2>1, <2>3, EasyKinds DEF ElseRules
<1>29. ASSUME x.at = "callOrVariable"
      PROVE  \A r \in Rules(x) : Easy(r)
  <2>1. Rules(x) = CallOrVariableRules
    BY <1>29 DEF Rules
  <2>2. {"call", "variable"} \subseteq InertPlaces
    BY DEF InertPlaces, EasyPlaces
  <2>3. /\ <<At("call")>> \in Seq(Inert)
        /\ <<At("variable")>> \in Seq(Inert)
    BY <1>i, <1>a, <2>2
  <2> QED
    BY <1>a, <2>1, <2>3, EasyKinds DEF CallOrVariableRules
<1>30. ASSUME x.at = "rfork"
      PROVE  \A r \in Rules(x) : Easy(r)
  <2>1. Rules(x) = RforkRules
    BY <1>30 DEF Rules
  <2>2. {"rforkBlock"} \subseteq InertPlaces
    BY DEF InertPlaces, EasyPlaces
  <2>3. <<At("rforkBlock")>> \in Seq(Inert)
    BY <1>i, <1>a, <2>2
  <2> QED
    BY <1>a, <2>1, <2>3, EasyKinds, TokenSets DEF RforkRules
<1>31. ASSUME x.at = "return"
      PROVE  \A r \in Rules(x) : Easy(r)
  <2>1. Rules(x) = ReturnRules
    BY <1>31 DEF Rules
  <2>2. {"returned"} \subseteq InertPlaces
    BY DEF InertPlaces, EasyPlaces
  <2>3. <<At("returned")>> \in Seq(Inert)
    BY <1>i, <1>a, <2>2
  <2> QED
    BY <1>a, <2>1, <2>3, EasyKinds, TokenSets DEF ReturnRules
<1>32. ASSUME x.at = "returnEnd"
      PROVE  \A r \in Rules(x) : Easy(r)
  <2>1. Rules(x) = ReturnEndRules
    BY <1>32 DEF Rules
  <2>2. {"returned"} \subseteq InertPlaces
    BY DEF InertPlaces, EasyPlaces
  <2>3. <<At("returned")>> \in Seq(Inert)
    BY <1>i, <1>a, <2>2
  <2> QED
    BY <1>a, <2>1, <2>3, EasyKinds DEF ReturnEndRules
<1> QED
  BY <1>1, <1>2, <1>3, <1>4, <1>5, <1>6, <1>7, <1>8, <1>9, <1>10, <1>11, <1>12,
     <1>13, <1>14, <1>15, <1>16, <1>17, <1>18, <1>19, <1>20, <1>21, <1>22, <1>23, <1>24,
     <1>25, <1>26, <1>27, <1>28, <1>29, <1>30, <1>31, <1>32 DEF EasyPlaces

Clean(push) ==
  push \in Seq(Items \ Blocks) /\ \A k \in 2 .. Len(push) : push[k] \notin Asking

\* What is pushed without blocks counts none.
LEMMA CleanTypes ==
  ASSUME NEW push, Clean(push)
  PROVE  /\ push \in Seq(Items) /\ In(Blocks, push) = 0 /\ Owes(push) \in Int
         /\ \A k \in 2 .. Len(push) : push[k] \notin Asking
<1>1. push \in Seq(Items) /\ \A k \in 1 .. Len(push) : push[k] \notin Blocks
  BY DEF Clean
<1>2. Positions(Blocks, push) = {}
  BY <1>1 DEF Positions
<1>3. Owes(push) \in Int
  BY <1>1, InTypes DEF Owes, AtHead, Is
<1> QED
  BY <1>1, <1>2, <1>3, FS_EmptySet DEF In, Clean

\* A rule is sound that owes no more than its item, with the parenthesis it
\* takes.
LEMMA SoundKinds ==
  ASSUME TypeInv, NEW x \in Items \ Blocks, NEW push, Clean(push), NEW on
  PROVE  /\ Owes(push) <= Lends(x) => Sound(x, Look(on, push))
         /\ Owes(push) <= Lends(x) /\ "RParen" \notin on => Sound(x, Shift(on, push))
         /\ Owes(push) <= Lends(x) + 1 /\ on = {"LParen"} => Sound(x, Shift(on, push))
         /\ Owes(push) <= Lends(x) - 1 /\ on = {"RParen"} => Sound(x, Shift(on, push))
<1>1. /\ push \in Seq(Items) /\ In(Blocks, push) = 0 /\ Owes(push) \in Int
      /\ \A k \in 2 .. Len(push) : push[k] \notin Asking
      /\ Lends(x) \in Int
      /\ Is(Blocks, x) = 0 /\ insidePipe \in BOOLEAN /\ openblocks \in Nat
  BY CleanTypes DEF Lends, Is, TypeInv
<1>2. /\ Look(on, push).on = on /\ Look(on, push).push = push
      /\ ~Look(on, push).take /\ Look(on, push).take \in BOOLEAN
      /\ Look(on, push).open = 0 /\ Look(on, push).inside = insidePipe
      /\ Look(on, push).result = "none"
  BY DEF Look, Rule
<1>3. /\ Shift(on, push).on = on /\ Shift(on, push).push = push
      /\ Shift(on, push).take /\ Shift(on, push).take \in BOOLEAN
      /\ Shift(on, push).open = 0 /\ Shift(on, push).inside = insidePipe
      /\ Shift(on, push).result = "none"
  BY DEF Shift, Rule
<1>4. Weight("LParen") = 1 /\ Weight("RParen") = 0 - 1
      /\ \A t : t # "RParen" => Weight(t) \in {0, 1}
  BY DEF Weight
<1> HIDE DEF Clean
<1>5. ASSUME Owes(push) <= Lends(x)
      PROVE  Sound(x, Look(on, push))
  BY <1>1, <1>2, <1>5 DEF Sound
<1>6. ASSUME \A t \in on : Owes(push) <= Lends(x) + Weight(t)
      PROVE  Sound(x, Shift(on, push))
  BY <1>1, <1>3, <1>6 DEF Sound
<1>7. ASSUME Owes(push) <= Lends(x), "RParen" \notin on
      PROVE  Sound(x, Shift(on, push))
  BY <1>1, <1>4, <1>6, <1>7
<1>8. ASSUME Owes(push) <= Lends(x) + 1, on = {"LParen"}
      PROVE  Sound(x, Shift(on, push))
  BY <1>1, <1>4, <1>6, <1>8
<1>9. ASSUME Owes(push) <= Lends(x) - 1, on = {"RParen"}
      PROVE  Sound(x, Shift(on, push))
  BY <1>1, <1>4, <1>6, <1>9
<1> QED
  BY <1>5, <1>7, <1>8, <1>9

Ruled(r) ==
  \E on, take, push, inside :
    r = [on |-> on, take |-> take, push |-> push, open |-> 0, inside |-> inside,
         result |-> "none"]

\* The rules that others are made of have this form.
LEMMA RulesRuled ==
  \A on, push : /\ Ruled(Look(on, push)) /\ Ruled(Shift(on, push))
                /\ Ruled(LeavePipe(Look(on, push)))
<1>1. \A on, push : Ruled(Look(on, push))
  BY DEF Ruled, Look, Rule
<1>2. \A on, push : Ruled(Shift(on, push))
  BY DEF Ruled, Shift, Rule
<1>3. ASSUME NEW on, NEW push
      PROVE  Ruled(LeavePipe(Look(on, push)))
  <2>1. PICK take, inside : Look(on, push) = [on |-> on, take |-> take, push |-> push,
                                             open |-> 0, inside |-> inside, result |-> "none"]
    BY DEF Look, Rule
  <2>2. \A v : [[on |-> on, take |-> take, push |-> push, open |-> 0, inside |-> inside,
                result |-> "none"] EXCEPT !.inside = v]
                = [on |-> on, take |-> take, push |-> push, open |-> 0, inside |-> v,
                   result |-> "none"]
    OBVIOUS
  <2>3. LeavePipe(Look(on, push)) = [on |-> on, take |-> take, push |-> push, open |-> 0,
                                     inside |-> FALSE, result |-> "none"]
    BY <2>1, <2>2, Zenon DEF LeavePipe
  <2> QED
    BY <2>3, Zenon DEF Ruled
<1> QED
  BY <1>1, <1>2, <1>3

\* Where a rule is used, and what it tells of the pipe, does not matter.
LEMMA SoundChanged ==
  ASSUME NEW x, NEW r, Sound(x, r), Ruled(r)
  PROVE  /\ Sound(x, LeavePipe(r)) /\ Sound(x, EnterPipe(r))
         /\ \A S : Sound(x, [r EXCEPT !.on = r.on \ S]) /\ Sound(x, [r EXCEPT !.on = r.on \cap S])
<1> PICK on, take, push, inside :
      r = [on |-> on, take |-> take, push |-> push, open |-> 0, inside |-> inside,
           result |-> "none"]
  BY DEF Ruled
<1>1. ASSUME NEW q, q.push = r.push, q.take = r.take, q.open = r.open, q.result = r.result,
             q.on \subseteq r.on, q.inside \in BOOLEAN
      PROVE  Sound(x, q)
  BY <1>1 DEF Sound
<1>2. Sound(x, LeavePipe(r)) /\ Sound(x, EnterPipe(r))
  <2>1. /\ LeavePipe(r).push = r.push /\ LeavePipe(r).take = r.take /\ LeavePipe(r).open = r.open
        /\ LeavePipe(r).result = r.result /\ LeavePipe(r).on = r.on
        /\ EnterPipe(r).push = r.push /\ EnterPipe(r).take = r.take /\ EnterPipe(r).open = r.open
        /\ EnterPipe(r).result = r.result /\ EnterPipe(r).on = r.on
    BY DEF LeavePipe, EnterPipe
  <2>2. LeavePipe(r).inside \in BOOLEAN /\ EnterPipe(r).inside \in BOOLEAN
    BY DEF LeavePipe, EnterPipe
  <2> QED
    BY <1>1, <2>1, <2>2
<1>3. r.inside \in BOOLEAN
  BY DEF Sound
<1>4. ASSUME NEW S
      PROVE  Sound(x, [r EXCEPT !.on = r.on \ S]) /\ Sound(x, [r EXCEPT !.on = r.on \cap S])
  BY <1>1, <1>3
<1> QED
  BY <1>2, <1>4

\* What is owed for one or two items, and for a list.
LEMMA OwesTuples ==
  /\ Clean(<< >>) /\ Owes(<< >>) = 0
  /\ \A a \in Items \ (Blocks \union Asking) : Clean(<<a>>) /\ Owes(<<a>>) = Is(Owing, a)
  /\ \A a, b \in Items \ (Blocks \union Asking) :
       Clean(<<a, b>>) /\ Owes(<<a, b>>) = Is(Owing, a) + Is(Owing, b)
  /\ \A b, c \in Items \ (Blocks \union Asking) :
       /\ Clean(<<Expect({"LParen"}), b, c>>)
       /\ Owes(<<Expect({"LParen"}), b, c>>) = Is(Owing, b) + Is(Owing, c) - 1
<1>1. Clean(<< >>) /\ Owes(<< >>) = 0
  BY InOne DEF Clean, Owes, AtHead
<1>2. ASSUME NEW a \in Items \ (Blocks \union Asking)
      PROVE  Clean(<<a>>) /\ Owes(<<a>>) = Is(Owing, a)
  <2>1. In(Owing, <<a>>) = Is(Owing, a) /\ Is(Owing, a) \in Int
    BY InOne DEF Is
  <2>2. AtHead(Asking, <<a>>) = 0
    BY DEF AtHead, Is
  <2>3. <<a>> \in Seq(Items \ Blocks) /\ Len(<<a>>) = 1
    OBVIOUS
  <2> QED
    BY <2>1, <2>2, <2>3 DEF Clean, Owes
<1>3. ASSUME NEW a \in Items \ (Blocks \union Asking), NEW b \in Items \ (Blocks \union Asking)
      PROVE  Clean(<<a, b>>) /\ Owes(<<a, b>>) = Is(Owing, a) + Is(Owing, b)
  <2>1. In(Owing, <<a, b>>) = Is(Owing, a) + Is(Owing, b)
        /\ Is(Owing, a) \in Int /\ Is(Owing, b) \in Int
    BY InTuples DEF Is
  <2>2. AtHead(Asking, <<a, b>>) = 0
    BY DEF AtHead, Is
  <2>3. <<a, b>> \in Seq(Items \ Blocks) /\ \A k \in 2 .. Len(<<a, b>>) : <<a, b>>[k] \notin Asking
    OBVIOUS
  <2> QED
    BY <2>1, <2>2, <2>3 DEF Clean, Owes
<1>4. ASSUME NEW b \in Items \ (Blocks \union Asking), NEW c \in Items \ (Blocks \union Asking)
      PROVE  /\ Clean(<<Expect({"LParen"}), b, c>>)
             /\ Owes(<<Expect({"LParen"}), b, c>>) = Is(Owing, b) + Is(Owing, c) - 1
  <2>1. PICK e \in Asking \ (Blocks \union Owing) : e = Expect({"LParen"})
    BY ItemKinds
  <2>2. e \in Items /\ b \in Items /\ c \in Items
    BY <2>1 DEF Asking
  <2>3. In(Owing, <<e, b, c>>) = Is(Owing, e) + Is(Owing, b) + Is(Owing, c)
    <3>1. \A d \in Items : In(Owing, <<e, b, d>>) = Is(Owing, e) + Is(Owing, b) + Is(Owing, d)
      BY <2>2, InTuples
    <3> QED
      BY <2>2, <3>1, Zenon
  <2>4. Is(Owing, e) = 0 /\ Is(Owing, b) \in Int /\ Is(Owing, c) \in Int
    BY <2>1 DEF Is
  <2>5. AtHead(Asking, <<e, b, c>>) = 1
    BY <2>1 DEF AtHead, Is
  <2>6. /\ <<e, b, c>> \in Seq(Items \ Blocks)
        /\ \A k \in 2 .. Len(<<e, b, c>>) : <<e, b, c>>[k] \notin Asking
    BY <2>1, <2>2
  <2> QED
    BY <2>1, <2>3, <2>4, <2>5, <2>6 DEF Clean, Owes
<1> QED
  BY <1>1, <1>2, <1>3, <1>4

\* A block is counted where its brace is taken.
LEMMA OpenSound ==
  ASSUME TypeInv, NEW x \in Items \ (Blocks \union Asking), NEW push \in Seq(Inert)
  PROVE  Sound(x, Open(push))
<1> DEFINE b == At("block")  s == <<b>> \o push
<1>1. b \in Items \ (Owing \union Asking) /\ b \in Blocks /\ <<b>> \in Seq(Items)
  BY ItemKinds DEF Blocks
<1>2. push \in Seq(Items) /\ In(Blocks, push) = 0 /\ In(Owing, push) = 0
      /\ \A k \in 1 .. Len(push) : push[k] \notin Asking
  BY InInert
<1>3. In(Blocks, <<b>>) = 1 /\ In(Owing, <<b>>) = 0
  BY <1>1, InOne DEF Is
<1> HIDE DEF b
<1>4. In(Blocks, s) = In(Blocks, <<b>>) + In(Blocks, push)
      /\ In(Owing, s) = In(Owing, <<b>>) + In(Owing, push)
  BY <1>1, <1>2, InConcat, Zenon
<1>5. In(Blocks, s) = 1 /\ In(Owing, s) = 0
  BY <1>2, <1>3, <1>4
<1>6. /\ s \in Seq(Items) /\ Len(s) = 1 + Len(push) /\ s[1] = b /\ Len(push) \in Nat
      /\ \A k \in 2 .. Len(s) : s[k] = push[k - 1]
  BY <1>1, <1>2, ConcatProperties
<1> HIDE DEF s
<1>7. AtHead(Asking, s) = 0 /\ \A k \in 2 .. Len(s) : s[k] \notin Asking
  BY <1>1, <1>2, <1>6 DEF AtHead, Is
<1>8. /\ Open(push).on = {"LBrace"} /\ Open(push).push = s /\ Open(push).take
      /\ Open(push).take \in BOOLEAN
      /\ Open(push).open = 1 /\ Open(push).inside = insidePipe /\ Open(push).result = "none"
  BY DEF Open, Shift, Rule, s, b
<1>9. /\ Is(Blocks, x) = 0 /\ Lends(x) \in {0, 1} /\ Owes(s) = 0 /\ Weight("LBrace") = 0
      /\ x \notin Blocks /\ insidePipe \in BOOLEAN /\ openblocks \in Nat
  BY <1>5, <1>7 DEF Is, Lends, Owes, Weight, TypeInv
<1> HIDE DEF Open
<1> QED
  BY <1>5, <1>6, <1>7, <1>8, <1>9 DEF Sound

\* The end of the input may come where a right parenthesis is owed.
LEMMA UnfinishedSound ==
  ASSUME TypeInv, NEW x \in Items, x \in Owing \/ openblocks > 0
  PROVE  Sound(x, Unfinished)
<1>1. /\ Unfinished.on = {"EOF"} /\ Unfinished.push = << >> /\ ~Unfinished.take
      /\ Unfinished.take \in BOOLEAN
      /\ Unfinished.open = 0 /\ Unfinished.inside = insidePipe /\ Unfinished.result = "unfinished"
  BY DEF Unfinished, Look, Rule
<1>2. << >> \in Seq(Items) /\ Len(<< >>) = 0 /\ insidePipe \in BOOLEAN
      /\ openblocks \in Nat
  BY DEF TypeInv
<1> HIDE DEF Unfinished
<1> QED
  BY <1>1, <1>2 DEF Sound

\* A list is a left parenthesis to take and one to owe.
LEMMA ListOwes ==
  /\ Clean(List) /\ Owes(List) = 0
  /\ \A c \in Items \ (Blocks \union Asking) :
       Clean(List \o <<c>>) /\ Owes(List \o <<c>>) = Is(Owing, c)
<1> DEFINE e == Expect({"LParen"})  l == At("list")
<1>1. e \in Asking \ (Blocks \union Owing) /\ l \in Owing \ (Blocks \union Asking)
  BY ItemKinds DEF AlwaysOwes
<1>2. e \in Items /\ l \in Items \ (Blocks \union Asking) /\ Is(Owing, e) = 0 /\ Is(Owing, l) = 1
  BY <1>1 DEF Asking, Owing, Is
<1>3. List = <<e, l>>
  BY DEF List
<1> HIDE DEF e, l
<1>4. Clean(List) /\ Owes(List) = 0
  <2>1. In(Owing, <<e, l>>) = 1
    BY <1>2, InTuples
  <2>2. AtHead(Asking, <<e, l>>) = 1
    BY <1>1 DEF AtHead, Is
  <2>3. /\ <<e, l>> \in Seq(Items \ Blocks)
        /\ \A k \in 2 .. Len(<<e, l>>) : <<e, l>>[k] \notin Asking
    BY <1>1, <1>2
  <2> QED
    BY <1>3, <2>1, <2>2, <2>3 DEF Clean, Owes
<1>5. ASSUME NEW c \in Items \ (Blocks \union Asking)
      PROVE  Clean(List \o <<c>>) /\ Owes(List \o <<c>>) = Is(Owing, c)
  <2> DEFINE p == <<e, l>>  q == <<c>>  t == <<e, l, c>>
  <2>1. /\ Len(p) = 2 /\ Len(q) = 1 /\ Len(t) = 3
        /\ p[1] = e /\ p[2] = l /\ q[1] = c /\ t[1] = e /\ t[2] = l /\ t[3] = c
    OBVIOUS
  <2>2. p \in Seq(Items) /\ q \in Seq(Items) /\ t \in Seq(Items)
    BY <1>2
  <2> HIDE DEF p, q, t
  <2>3. /\ p \o q \in Seq(Items) /\ Len(p \o q) = Len(p) + Len(q)
        /\ \A k \in 1 .. Len(p) + Len(q) :
             (p \o q)[k] = IF k <= Len(p) THEN p[k] ELSE q[k - Len(p)]
    BY <2>2, ConcatProperties
  <2>4. Len(t) = Len(p \o q) /\ \A k \in 1 .. Len(t) : t[k] = (p \o q)[k]
    BY <2>1, <2>3
  <2>5. t = p \o q
    BY <2>2, <2>3, <2>4, SeqEqual
  <2>6. List \o <<c>> = <<Expect({"LParen"}), l, c>>
    BY <1>3, <2>5 DEF p, q, t, e
  <2>7. Clean(<<Expect({"LParen"}), l, c>>)
        /\ Owes(<<Expect({"LParen"}), l, c>>) = Is(Owing, l) + Is(Owing, c) - 1
    BY <1>2, OwesTuples
  <2>8. Is(Owing, c) \in Int
    BY DEF Is
  <2>9. Is(Owing, l) + Is(Owing, c) - 1 = Is(Owing, c)
    BY <1>2, <2>8
  <2> QED
    BY <2>6, <2>7, <2>9, Zenon
<1> QED
  BY <1>4, <1>5

\* An item of a place that never owes, and one that does.
LEMMA LendsNothing ==
  ASSUME NEW x \in Items, x.at \notin {"expect", "block"} \union AlwaysOwes \union MayOwe
  PROVE  x \in Items \ (Blocks \union Asking) /\ Lends(x) = 0
  BY DEF Blocks, Asking, Owing, Lends, Is

\* Where a right parenthesis is always owed.
LEMMA LendsOne ==
  ASSUME NEW x \in Items, x.at \in AlwaysOwes
  PROVE  x \in Items \ (Blocks \union Asking) /\ x \in Owing /\ Lends(x) = 1 /\ Is(Owing, x) = 1
<1>1. x.at \notin {"expect", "block"}
  BY DEF AlwaysOwes
<1> QED
  BY <1>1 DEF Blocks, Asking, Owing, Lends, Is

\* Where one is owed by a command of several lines.
LEMMA LendsMulti ==
  ASSUME NEW x \in Items, x.at \in MayOwe
  PROVE  /\ x \in Items \ (Blocks \union Asking) /\ Lends(x) \in {0, 1} /\ Is(Owing, x) = Lends(x)
         /\ "multi" \in x.flags => Lends(x) = 1 /\ x \in Owing
         /\ \A a \in MayOwe : /\ With(a, x.flags) \in Items \ (Blocks \union Asking)
                              /\ Is(Owing, With(a, x.flags)) = Lends(x)
<1>1. x.at \notin {"expect", "block"} \union AlwaysOwes /\ x.flags \in SUBSET Flags
  BY DEF AlwaysOwes, MayOwe, Items
<1>2. x \in Items \ (Blocks \union Asking)
  BY <1>1 DEF Blocks, Asking
<1>3. x \in Owing <=> "multi" \in x.flags
  BY <1>1 DEF Owing
<1>4. \A a \in MayOwe : /\ With(a, x.flags) \in Items \ (Blocks \union Asking)
                        /\ With(a, x.flags) \in Owing <=> "multi" \in x.flags
  BY <1>1, ItemKinds
<1> QED
  BY <1>2, <1>3, <1>4 DEF Lends, Is

\* An inert item owes nothing.
LEMMA InertOwes ==
  ASSUME NEW a \in Inert
  PROVE  a \in Items \ (Blocks \union Asking) /\ Is(Owing, a) = 0
  BY DEF Inert, Is

-----------------------------------------------------------------------------
(***************************************************************************)
(* The rules of each other place                                           *)
(***************************************************************************)

\* Statements and what follows them: a parenthesis opens a command of several lines.
LEMMA StatementSound ==
  ASSUME TypeInv, NEW x \in Items,
         x.at \in {"statement", "output", "rforkBlock", "elseBlock", "open", "for"}
  PROVE  \A r \in Rules(x) : Sound(x, r)
<1>1. x \in Items \ (Blocks \union Asking) /\ Lends(x) = 0
  BY LendsNothing DEF AlwaysOwes, MayOwe
<1>2. At("multi") \in Items \ (Blocks \union Asking) /\ Is(Owing, At("multi")) = 1
  BY ItemKinds DEF AlwaysOwes, Owing, Is
<1>3. Clean(<<At("multi")>>) /\ Owes(<<At("multi")>>) = 1
  BY <1>2, OwesTuples
<1>4. Sound(x, Shift({"LParen"}, <<At("multi")>>))
  BY <1>1, <1>3, SoundKinds
<1>5. \A r : Easy(r) => Sound(x, r)
  BY <1>1, EasySound
<1>i. \A a \in InertPlaces : At(a) \in Inert
  BY InertItems
<1>s. {"statement", "open", "for", "fn", "in", "call"} \subseteq InertPlaces
  BY DEF InertPlaces
<1>p. {"if", "var", "return", "semicolon", "setenv", "rfork", "identifier"} \subseteq InertPlaces
  BY DEF InertPlaces, EasyPlaces
<1>a. /\ At("command") \in Inert /\ With("call", {"semicolon"}) \in Inert
      /\ << >> \in Seq(Inert)
  BY InertItems
<1>6. ASSUME x.at = "statement"
      PROVE  \A r \in Rules(x) : Sound(x, r)
  <2> DEFINE name == Expect(Command \union {"String"})
             id == Expect(Identifier)
  <2>1. Rules(x) = StatementRules
    BY <1>6 DEF Rules
  <2>2. name \in Inert /\ id \in Inert
    BY InertItems, TokenSets
  <2>3. /\ <<At("if")>> \in Seq(Inert) /\ <<At("for")>> \in Seq(Inert)
        /\ <<At("fn")>> \in Seq(Inert)
        /\ <<At("var")>> \in Seq(Inert) /\ <<At("return")>> \in Seq(Inert)
        /\ <<At("setenv")>> \in Seq(Inert) /\ <<At("rfork")>> \in Seq(Inert)
        /\ <<At("identifier")>> \in Seq(Inert)
    BY <1>i, <1>p, <1>s
  <2>4. /\ <<name, At("semicolon")>> \in Seq(Inert)
        /\ <<id, id, At("semicolon")>> \in Seq(Inert)
        /\ <<At("command")>> \in Seq(Inert) /\ <<With("call", {"semicolon"})>> \in Seq(Inert)
    BY <1>i, <1>p, <1>a, <2>2
  <2>5. /\ Easy(Shift({"If"}, <<At("if")>>)) /\ Easy(Shift({"For"}, <<At("for")>>))
        /\ Easy(Shift({"Fn"}, <<At("fn")>>)) /\ Easy(Shift({"Var"}, <<At("var")>>))
        /\ Easy(Shift({"Return"}, <<At("return")>>)) /\ Easy(Shift({"SetEnv"}, <<At("setenv")>>))
        /\ Easy(Shift({"Rfork"}, <<At("rfork")>>)) /\ Easy(Shift({"Comment"}, << >>))
    BY <1>a, <2>3, EasyKinds
  <2>6. /\ Easy(Shift({"Import"}, <<name, At("semicolon")>>))
        /\ Easy(Shift({"BindFn"}, <<id, id, At("semicolon")>>))
        /\ Easy(Shift({"Arg"}, <<At("command")>>))
        /\ Easy(Shift({"Variable"}, <<With("call", {"semicolon"})>>))
    BY <2>4, EasyKinds
  <2>7. Easy(Shift(Identifier, <<At("identifier")>>))
    BY <2>3, EasyKinds, TokenSets
  <2>8. \A r \in StatementRules : Easy(r) \/ r = Shift({"LParen"}, <<At("multi")>>)
    BY <2>5, <2>6, <2>7 DEF StatementRules
  <2> QED
    BY <1>4, <1>5, <2>1, <2>8
<1>7. ASSUME x.at = "output"
      PROVE  \A r \in Rules(x) : Sound(x, r)
  <2>1. Rules(x) = OutputRules
    BY <1>7 DEF Rules
  <2>2. At("commandOrCall") \in Inert
    BY <1>i DEF InertPlaces, EasyPlaces
  <2>3. <<At("commandOrCall")>> \in Seq(Inert) /\ <<With("call", {"semicolon"})>> \in Seq(Inert)
    BY <1>a, <2>2
  <2>4. \A r \in OutputRules : Easy(r) \/ r = Shift({"LParen"}, <<At("multi")>>)
    BY <2>3, EasyKinds, TokenSets DEF OutputRules
  <2> QED
    BY <1>4, <1>5, <2>1, <2>4
<1>8. ASSUME x.at \in {"rforkBlock", "open", "elseBlock", "for"}
      PROVE  \A r \in Rules(x) : Sound(x, r)
  <2>1. /\ x.at = "rforkBlock" => Rules(x) = RforkBlockRules
        /\ x.at = "open" => Rules(x) = {Open(<< >>)}
        /\ x.at = "elseBlock" => Rules(x) = ElseBlockRules
        /\ x.at = "for" => Rules(x) = ForRules
    BY DEF Rules
  <2>2. {"In"} \in SUBSET Flags /\ "LParen" \notin {"In"} /\ "RParen" \notin {"In"}
    BY TokenSets
  <2>3. Expect({"In"}) \in Inert
    BY <2>2, InertItems
  <2>4. /\ <<At("semicolon")>> \in Seq(Inert) /\ <<At("if")>> \in Seq(Inert)
        /\ <<Expect({"In"}), At("in"), At("open")>> \in Seq(Inert)
    BY <1>i, <1>p, <1>s, <2>3
  <2>5. Sound(x, Open(<< >>)) /\ Sound(x, Open(<<At("semicolon")>>))
    BY <1>1, <1>a, <2>4, OpenSound
  <2>6. /\ Easy(Look(Token \ {"LBrace"}, <<At("semicolon")>>))
        /\ Easy(Shift({"If"}, <<At("if")>>))
        /\ Easy(Shift(Identifier, <<Expect({"In"}), At("in"), At("open")>>))
    BY <2>4, EasyKinds, TokenSets
  <2> QED
    BY <1>5, <1>8, <2>1, <2>5, <2>6 DEF RforkBlockRules, ElseBlockRules, ForRules
<1> QED
  BY <1>6, <1>7, <1>8

\* The block: one statement after the other, up to its brace or the end.
LEMMA BlockSound ==
  ASSUME TypeInv, NEW x \in Items, x.at \in {"block"}
  PROVE  \A r \in Rules(x) : Sound(x, r)
<1> DEFINE s == At("statement")  b == At("block")
           more == Look(Token \ {"EOF", "LBrace", "RBrace"}, <<s, b>>)
           end == [Look({"EOF"}, << >>)
                     EXCEPT !.result = IF openblocks = 0 THEN "none" ELSE "unfinished"]
           brace == [Shift({"RBrace"}, << >>) EXCEPT !.open = 0 - 1]
<1>1. x \in Blocks /\ Is(Blocks, x) = 1 /\ Lends(x) = 0
  BY DEF Blocks, Owing, Asking, AlwaysOwes, MayOwe, Is, Lends
<1>2. s \in Inert /\ b \in Items \ (Owing \union Asking) /\ b \in Blocks
  <2>1. "statement" \in InertPlaces
    BY DEF InertPlaces
  <2>2. s \in Inert
    BY <2>1, InertItems
  <2> QED
    BY <2>2, ItemKinds DEF Blocks
<1>3. s \in Items \ (Blocks \union Owing \union Asking)
  BY <1>2 DEF Inert
<1>4. insidePipe \in BOOLEAN /\ openblocks \in Nat /\ << >> \in Seq(Items) /\ Len(<< >>) = 0
      /\ Owes(<< >>) = 0 /\ In(Blocks, << >>) = 0
  BY InOne, OwesTuples DEF TypeInv
<1> HIDE DEF s, b
<1>5. Sound(x, more)
  <2>1. In(Blocks, <<s, b>>) = 1 /\ In(Owing, <<s, b>>) = 0
    BY <1>2, <1>3, InTuples DEF Is
  <2>2. AtHead(Asking, <<s, b>>) = 0 /\ \A k \in 2 .. Len(<<s, b>>) : <<s, b>>[k] \notin Asking
    BY <1>2, <1>3 DEF AtHead, Is
  <2>3. <<s, b>> \in Seq(Items) /\ <<s, b>>[Len(<<s, b>>)] \in Blocks /\ <<s, b>> # << >>
    BY <1>2, <1>3
  <2>4. Owes(<<s, b>>) = 0
    BY <2>1, <2>2 DEF Owes
  <2>5. /\ more.push = <<s, b>> /\ ~more.take /\ more.take \in BOOLEAN
        /\ more.open = 0 /\ more.inside = insidePipe /\ more.result = "none"
    BY DEF Look, Rule
  <2> HIDE DEF more
  <2> QED
    BY <1>1, <1>4, <2>1, <2>2, <2>3, <2>4, <2>5 DEF Sound
<1>6. Sound(x, end)
  <2>1. /\ end.on = {"EOF"} /\ end.push = << >> /\ ~end.take /\ end.take \in BOOLEAN
        /\ end.open = 0 /\ end.inside = insidePipe
        /\ end.result = IF openblocks = 0 THEN "none" ELSE "unfinished"
    BY DEF Look, Rule
  <2> HIDE DEF end
  <2>2. CASE openblocks = 0
    BY <1>1, <1>4, <2>1, <2>2 DEF Sound
  <2>3. CASE openblocks > 0
    BY <1>1, <1>4, <2>1, <2>3 DEF Sound
  <2> QED
    BY <1>4, <2>2, <2>3
<1>7. ASSUME openblocks > 0
      PROVE  Sound(x, brace)
  <2>1. /\ brace.on = {"RBrace"} /\ brace.push = << >> /\ brace.take /\ brace.take \in BOOLEAN
        /\ brace.open = 0 - 1 /\ brace.inside = insidePipe /\ brace.result = "none"
    BY DEF Shift, Rule
  <2>2. Weight("RBrace") = 0
    BY DEF Weight
  <2> HIDE DEF brace
  <2> QED
    BY <1>1, <1>4, <1>7, <2>1, <2>2 DEF Sound
<1>8. \A r \in Rules(x) : r = more \/ r = end \/ (r = brace /\ openblocks > 0)
  <2>1. Rules(x) = BlockRules
    BY DEF Rules
  <2>2. BlockRules = {end, more} \union (IF openblocks > 0 THEN {brace} ELSE {})
    BY DEF BlockRules, s, b
  <2> HIDE DEF more, end, brace
  <2> QED
    BY <2>1, <2>2
<1> HIDE DEF more, end, brace
<1> QED
  BY <1>5, <1>6, <1>7, <1>8

\* Commands and pipes: the parenthesis is owed until the end of the pipe.
LEMMA CommandSound ==
  ASSUME TypeInv, NEW x \in Items, x.at \in MayOwe \union {"multi"}
  PROVE  \A r \in Rules(x) : Sound(x, r)
<1> DEFINE f == x.flags
<1>f. f \in SUBSET Flags /\ {"multi"} \in SUBSET Flags
  BY TokenSets DEF Items
<1>i. /\ CommandArg \in Inert /\ At("command") \in Inert /\ << >> \in Seq(Inert)
      /\ At("redirection") \in Inert /\ At("commandEnd") \in Inert /\ At("pipeSemicolon") \in Inert
  BY InertItems DEF InertPlaces, EasyPlaces
<1>e. \A a \in Inert : a \in Items \ (Blocks \union Asking) /\ Is(Owing, a) = 0
  BY InertOwes
<1>m. {"command", "pipe", "pipeNext", "pipeEnd"} \subseteq MayOwe
  BY DEF MayOwe
<1>1. ASSUME x.at = "multi"
      PROVE  \A r \in Rules(x) : Sound(x, r)
  <2> DEFINE c == With("command", {"multi"})
  <2>1. Lends(x) = 1 /\ x \in Owing /\ x \in Items \ Blocks
    BY <1>1, LendsOne DEF AlwaysOwes
  <2>2. c \in Items \ (Blocks \union Asking) /\ c \in Owing
    BY <1>f, <1>m, ItemKinds
  <2>3. Clean(<<c>>) /\ Owes(<<c>>) = 1
    BY <2>2, OwesTuples DEF Is
  <2>4. Sound(x, Shift(Command, <<c>>)) /\ Sound(x, Unfinished)
    BY <2>1, <2>3, SoundKinds, UnfinishedSound, TokenSets
  <2>5. Rules(x) = MultiRules
    BY <1>1 DEF Rules
  <2> QED
    BY <2>4, <2>5 DEF MultiRules
<1>2. ASSUME x.at \in MayOwe
      PROVE  /\ x \in Items \ (Blocks \union Asking) /\ Lends(x) \in {0, 1}
             /\ Is(Owing, x) = Lends(x)
             /\ \A a \in {"command", "pipe", "pipeNext", "pipeEnd"} :
                  /\ With(a, f) \in Items \ (Blocks \union Asking)
                  /\ Is(Owing, With(a, f)) = Lends(x)
             /\ \A r : Easy(r) => Sound(x, r)
             /\ "multi" \in f => Lends(x) = 1 /\ x \in Owing
  BY <1>2, <1>m, LendsMulti, EasySound
<1>3. ASSUME x.at \in MayOwe, "multi" \in f, NEW a \in Inert
      PROVE  \A r \in CloseMulti(<<a>>) : Sound(x, r)
  <2>1. Lends(x) = 1 /\ x \in Owing /\ x \in Items \ Blocks
    BY <1>2, <1>3
  <2>2. Clean(<<a>>) /\ Owes(<<a>>) = 0
    BY <1>e, OwesTuples
  <2>3. Sound(x, Shift({"RParen"}, <<a>>)) /\ Sound(x, Unfinished)
    BY <2>1, <2>2, SoundKinds, UnfinishedSound
  <2> QED
    BY <2>3 DEF CloseMulti
<1>4. ASSUME x.at = "command"
      PROVE  \A r \in Rules(x) : Sound(x, r)
  <2> DEFINE ends == IF openblocks > 0 THEN {"RBrace"} ELSE {}
             others == Token \ (ValidArgument \union {"Plus", "Gt", "Pipe"} \union ends)
  <2>p. PICK pipe \in Items \ (Blocks \union Asking) :
          pipe = With("pipe", f) /\ Is(Owing, pipe) = Lends(x)
    BY <1>2, <1>4, <1>m
  <2>1. x \in Items \ (Blocks \union Asking) /\ Lends(x) \in {0, 1} /\ Is(Owing, x) = Lends(x)
        /\ \A r : Easy(r) => Sound(x, r)
    BY <1>2, <1>4, <1>m
  <2>2. /\ Clean(<<CommandArg, x>>) /\ Owes(<<CommandArg, x>>) = Lends(x)
        /\ Clean(<<At("redirection"), x>>) /\ Owes(<<At("redirection"), x>>) = Lends(x)
        /\ Clean(<<pipe>>) /\ Owes(<<pipe>>) = Lends(x)
    <3> DEFINE a == CommandArg  b == At("redirection")
    <3>1. /\ a \in Items \ (Blocks \union Asking) /\ Is(Owing, a) = 0
          /\ b \in Items \ (Blocks \union Asking) /\ Is(Owing, b) = 0
      BY <1>i, <1>e
    <3> HIDE DEF a, b
    <3>2. /\ Clean(<<a, x>>) /\ Owes(<<a, x>>) = Is(Owing, a) + Is(Owing, x)
          /\ Clean(<<b, x>>) /\ Owes(<<b, x>>) = Is(Owing, b) + Is(Owing, x)
          /\ Clean(<<pipe>>) /\ Owes(<<pipe>>) = Is(Owing, pipe)
      <4>1. x \in Items \ (Blocks \union Asking)
        BY <2>1
      <4> QED
        BY <3>1, <4>1, OwesTuples, Zenon
    <3>3. Is(Owing, a) + Is(Owing, x) = Lends(x) /\ Is(Owing, b) + Is(Owing, x) = Lends(x)
      BY <2>1, <3>1
    <3>4. /\ Clean(<<a, x>>) /\ Owes(<<a, x>>) = Lends(x)
          /\ Clean(<<b, x>>) /\ Owes(<<b, x>>) = Lends(x)
          /\ Clean(<<pipe>>) /\ Owes(<<pipe>>) = Lends(x)
      BY <2>p, <3>2, <3>3, Zenon
    <3> QED
      BY <3>4 DEF a, b
  <2>3. /\ Sound(x, Look(ValidArgument, <<CommandArg, x>>))
        /\ Sound(x, Shift({"Gt"}, <<At("redirection"), x>>))
        /\ Sound(x, Shift({"Pipe"}, <<pipe>>))
    BY <2>1, <2>2, SoundKinds
  <2>4. Sound(x, EnterPipe(Shift({"Pipe"}, <<pipe>>)))
    <3>1. Ruled(Shift({"Pipe"}, <<pipe>>))
      BY RulesRuled
    <3> QED
      BY <2>3, <3>1, SoundChanged
  <2>5. Sound(x, LeavePipe(Look(ends, << >>))) /\ Sound(x, Shift({"Pipe"}, << >>))
    BY <1>i, <2>1, EasyKinds, EasyChanged
  <2> HIDE DEF others
  <2>6. ASSUME NEW r \in CommandEnd
        PROVE  Sound(x, [r EXCEPT !.on = r.on \cap others])
    <3>1. << >> \in Seq(Inert)
      BY <1>i
    <3>2. r \in {LeavePipe(Look(Token, << >>)), Shift({"Semicolon"}, << >>)}
      BY <2>6 DEF CommandEnd
    <3>3. Easy(LeavePipe(Look(Token, << >>))) /\ Easy(Shift({"Semicolon"}, << >>))
      BY <3>1, EasyKinds, EasyChanged
    <3>4. Ruled(LeavePipe(Look(Token, << >>))) /\ Ruled(Shift({"Semicolon"}, << >>))
      BY RulesRuled
    <3>5. Sound(x, r) /\ Ruled(r)
      BY <2>1, <3>2, <3>3, <3>4
    <3> QED
      BY <3>5, SoundChanged
  <2>7. Rules(x) = CommandRules(x)
    BY <1>4 DEF Rules
  <2> HIDE DEF ends
  <2>8. \A r \in CommandRules(x) :
          \/ r = Look(ValidArgument, <<CommandArg, x>>)
          \/ r = Shift({"Gt"}, <<At("redirection"), x>>)
          \/ r = LeavePipe(Look(ends, << >>)) \/ r = Shift({"Pipe"}, << >>)
          \/ r = EnterPipe(Shift({"Pipe"}, <<pipe>>))
          \/ "multi" \in f /\ r \in CloseMulti(<<At("commandEnd")>>)
          \/ \E q \in CommandEnd : r = [q EXCEPT !.on = q.on \cap others]
    BY <2>p DEF CommandRules, others, ends
  <2>9. "multi" \in f => \A r \in CloseMulti(<<At("commandEnd")>>) : Sound(x, r)
    BY <1>3, <1>4, <1>i, <1>m
  <2> HIDE DEF f
  <2> QED
    BY <2>3, <2>4, <2>5, <2>6, <2>7, <2>8, <2>9
<1>5. ASSUME x.at \in {"pipe", "pipeNext"}
      PROVE  \A r \in Rules(x) : Sound(x, r)
  <2> DEFINE p == With("pipe", f)  n == With("pipeNext", f)  e == With("pipeEnd", f)
             c == At("command")
  <2>1. x \in Items \ (Blocks \union Asking) /\ Lends(x) \in {0, 1}
        /\ {p, n, e} \subseteq Items \ (Blocks \union Asking)
        /\ Is(Owing, p) = Lends(x) /\ Is(Owing, n) = Lends(x) /\ Is(Owing, e) = Lends(x)
        /\ c \in Items \ (Blocks \union Asking) /\ Is(Owing, c) = 0
    BY <1>2, <1>5, <1>m, <1>i, <1>e
  <2>2. /\ Clean(<<c, n>>) /\ Owes(<<c, n>>) = Lends(x)
        /\ Clean(<<p>>) /\ Owes(<<p>>) = Lends(x) /\ Clean(<<e>>) /\ Owes(<<e>>) = Lends(x)
    BY <2>1, OwesTuples
  <2>3. /\ Sound(x, Shift(Command, <<c, n>>)) /\ Sound(x, Look(Token \ Command, <<e>>))
        /\ Sound(x, Look(Token, <<e>>)) /\ Sound(x, Look(Token, <<p>>))
    BY <2>1, <2>2, SoundKinds, TokenSets
  <2>4. /\ x.at = "pipe" => Rules(x) = PipeRules(x)
        /\ x.at = "pipeNext" => Rules(x) = PipeNextRules(x)
    BY DEF Rules
  <2>5. PipeRules(x) = {Shift(Command, <<c, n>>), Look(Token \ Command, <<e>>)}
        /\ PipeNextRules(x) \in {{Look(Token, <<e>>)}, {Look(Token, <<p>>)}}
    BY DEF PipeRules, PipeNextRules
  <2> HIDE DEF p, n, e, c
  <2> QED
    BY <1>5, <2>3, <2>4, <2>5
<1>6. ASSUME x.at = "pipeEnd"
      PROVE  \A r \in Rules(x) : Sound(x, r)
  <2>1. \A r \in PipeSemicolon : Sound(x, r)
    BY <1>2, <1>6, <1>m, <1>i, EasyKinds DEF PipeSemicolon
  <2>2. "multi" \in f => \A r \in CloseMulti(<<At("pipeSemicolon")>>) : Sound(x, r)
    BY <1>3, <1>6, <1>i, <1>m
  <2>3. Rules(x) = PipeEndRules(x)
    BY <1>6 DEF Rules
  <2> QED
    BY <2>1, <2>2, <2>3 DEF PipeEndRules
<1> QED
  BY <1>1, <1>4, <1>5, <1>6 DEF MayOwe

\* Calls, lists and parameters owe their right parenthesis until they take it.
LEMMA OwingSound ==
  ASSUME TypeInv, NEW x \in Items,
         x.at \in {"list", "callArg", "callNext", "parameters", "parameter", "parameterEnd",
                   "moreParameters"}
  PROVE  \A r \in Rules(x) : Sound(x, r)
<1>1. x \in Items \ (Blocks \union Asking) /\ Lends(x) = 1 /\ x \in Owing /\ Is(Owing, x) = 1
      /\ x \in Items \ Blocks
  BY LendsOne DEF AlwaysOwes
<1>2. ASSUME NEW a \in Inert
      PROVE  /\ Clean(<<a>>) /\ Owes(<<a>>) = 0
             /\ Clean(<<a, x>>) /\ Owes(<<a, x>>) = 1
  <2>1. a \in Items \ (Blocks \union Asking) /\ Is(Owing, a) = 0
    BY InertOwes
  <2>2. /\ Clean(<<a>>) /\ Owes(<<a>>) = Is(Owing, a)
        /\ Clean(<<a, x>>) /\ Owes(<<a, x>>) = Is(Owing, a) + Is(Owing, x)
    BY <1>1, <2>1, OwesTuples, Zenon
  <2>3. Is(Owing, a) + Is(Owing, x) = 1
    BY <1>1, <2>1
  <2> QED
    BY <2>1, <2>2, <2>3, Zenon
<1>3. \A a \in Items \ (Blocks \union Asking) : a \in Owing => Clean(<<a>>) /\ Owes(<<a>>) = 1
  BY OwesTuples DEF Is
<1>4. /\ \A a \in Inert : Sound(x, Shift({"RParen"}, <<a>>))
      /\ Sound(x, Shift({"RParen"}, << >>)) /\ Sound(x, Look({"RParen"}, << >>))
  <2>1. \A p : Clean(p) /\ Owes(p) = 0 => /\ Sound(x, Shift({"RParen"}, p))
                                         /\ Sound(x, Look({"RParen"}, p))
    BY <1>1, SoundKinds
  <2>2. Clean(<< >>) /\ Owes(<< >>) = 0
    BY OwesTuples
  <2> QED
    BY <1>2, <2>1, <2>2
<1>5. \A on : \A a \in Items \ (Blocks \union Asking) :
        "RParen" \notin on /\ a \in Owing => Sound(x, Shift(on, <<a>>))
  BY <1>1, <1>3, SoundKinds
<1>6. \A on : \A a \in Inert : Sound(x, Look(on, <<a, x>>))
  <2>1. \A on, p : Clean(p) /\ Owes(p) = 1 => Sound(x, Look(on, p))
    BY <1>1, SoundKinds
  <2> QED
    BY <1>2, <2>1
<1>7. {x.flags, {"Variadic"}} \subseteq SUBSET Flags
  BY TokenSets DEF Items
<1>8. \A a \in AlwaysOwes : \A f \in SUBSET Flags :
        /\ At(a) \in Items \ (Blocks \union Asking) /\ At(a) \in Owing
        /\ With(a, f) \in Items \ (Blocks \union Asking) /\ With(a, f) \in Owing
  BY ItemKinds DEF Owing
<1>9. {"parameter", "parameterEnd", "moreParameters", "callArg", "callNext"} \subseteq AlwaysOwes
  BY DEF AlwaysOwes
<1>10. ASSUME x.at \in {"parameters", "parameter", "parameterEnd", "moreParameters"}
       PROVE  \A r \in Rules(x) : Sound(x, r)
  <2>1. \A a \in {"parameter", "parameterEnd", "moreParameters"} :
          At(a) \in Items \ (Blocks \union Asking) /\ At(a) \in Owing
    BY <1>8, <1>9
  <2>2. /\ Sound(x, Shift(Identifier, <<At("parameter")>>))
        /\ Sound(x, Shift({"Dotdotdot"}, <<At("parameterEnd")>>))
        /\ Sound(x, Shift({"Comma"}, <<At("moreParameters")>>))
    BY <1>5, <2>1, TokenSets
  <2>3. /\ x.at = "parameters" => Rules(x) = ParametersRules
        /\ x.at = "parameter" => Rules(x) = ParameterRules
        /\ x.at = "parameterEnd" => Rules(x) = ParameterEndRules
        /\ x.at = "moreParameters" => Rules(x) = MoreParametersRules
    BY DEF Rules
  <2> QED
    BY <1>4, <1>10, <2>2, <2>3
       DEF ParametersRules, ParameterRules, ParameterEndRules, MoreParametersRules
<1>11. ASSUME x.at = "list"
       PROVE  \A r \in Rules(x) : Sound(x, r)
  <2>1. Rules(x) = ListRules(x)
    BY <1>11 DEF Rules
  <2>2. "dots" \in InertPlaces
    BY DEF InertPlaces, EasyPlaces
  <2>3. With("dots", {"Variadic"}) \in Inert /\ ListArg \in Inert
    BY <1>7, <2>2, InertItems
  <2>4. Clean(<<Expect({"LParen"}), x, x>>) /\ Owes(<<Expect({"LParen"}), x, x>>) = 1
    <3>1. /\ Clean(<<Expect({"LParen"}), x, x>>)
          /\ Owes(<<Expect({"LParen"}), x, x>>) = Is(Owing, x) + Is(Owing, x) - 1
      BY <1>1, OwesTuples, Zenon
    <3>2. Is(Owing, x) + Is(Owing, x) - 1 = 1
      BY <1>1
    <3> QED
      BY <3>1, <3>2, Zenon
  <2>5. Sound(x, Look({"LParen"}, <<Expect({"LParen"}), x, x>>))
    BY <1>1, <2>4, SoundKinds
  <2>6. Sound(x, Look(ValidArgument, <<ListArg, x>>)) /\ Sound(x, Unfinished)
        /\ Sound(x, Shift({"RParen"}, <<With("dots", {"Variadic"})>>))
    BY <1>1, <1>4, <1>6, <2>3, UnfinishedSound
  <2> QED
    BY <2>1, <2>5, <2>6 DEF ListRules
<1>12. ASSUME x.at \in {"callArg", "callNext"}
       PROVE  \A r \in Rules(x) : Sound(x, r)
  <2> DEFINE skipped == Token \ (ValidArgument \union {"LParen", "RParen", "EOF"})
  <2>1. PICK next \in Items \ (Blocks \union Asking) :
          next = With("callNext", x.flags) /\ next \in Owing
    BY <1>7, <1>8, <1>9
  <2>2. PICK arg \in Items \ (Blocks \union Asking) :
          arg = With("callArg", x.flags) /\ arg \in Owing
    BY <1>7, <1>8, <1>9
  <2>3. "callEnd" \in InertPlaces
    BY DEF InertPlaces, EasyPlaces
  <2>4. PICK end \in Inert : end = With("callEnd", x.flags)
    BY <1>7, <2>3, InertItems
  <2>5. Sound(x, Shift(skipped, <<next>>)) /\ Sound(x, Shift({"Comma"}, <<arg>>))
        /\ Sound(x, Shift({"RParen"}, <<end>>))
    BY <1>4, <1>5, <2>1, <2>2, <2>4
  <2>6. Sound(x, Look(ValidArgument, <<CallArg, next>>))
    <3>1. PICK a \in Inert : a = CallArg
      BY InertItems
    <3>2. a \in Items \ (Blocks \union Asking) /\ Is(Owing, a) = 0 /\ Is(Owing, next) = 1
      BY <2>1, InertOwes DEF Is
    <3>3. Clean(<<a, next>>) /\ Owes(<<a, next>>) = Is(Owing, a) + Is(Owing, next)
      BY <3>2, OwesTuples, Zenon
    <3>4. Owes(<<a, next>>) <= Lends(x)
      BY <1>1, <3>2, <3>3
    <3> QED
      BY <1>1, <3>1, <3>3, <3>4, SoundKinds
  <2>7. Sound(x, Look({"LParen"}, List \o <<next>>))
    <3>1. Clean(List \o <<next>>) /\ Owes(List \o <<next>>) = Is(Owing, next)
      BY ListOwes, Zenon
    <3>2. Owes(List \o <<next>>) <= Lends(x)
      BY <1>1, <2>1, <3>1 DEF Is
    <3> QED
      BY <1>1, <3>1, <3>2, SoundKinds
  <2>8. /\ x.at = "callArg" => Rules(x) = CallArgRules(x)
        /\ x.at = "callNext" => Rules(x) = CallNextRules(x)
    BY DEF Rules
  <2>9. /\ CallArgRules(x) = {Look(ValidArgument, <<CallArg, next>>),
                              Look({"LParen"}, List \o <<next>>),
                              Shift({"RParen"}, <<end>>), Shift(skipped, <<next>>)}
        /\ CallNextRules(x) = {Shift({"Comma"}, <<arg>>), Shift({"RParen"}, <<end>>)}
    BY <2>1, <2>2, <2>4 DEF CallArgRules, CallNextRules
  <2> HIDE DEF skipped
  <2> QED
    BY <1>12, <2>5, <2>6, <2>7, <2>8, <2>9
<1> QED
  BY <1>10, <1>11, <1>12

\* What opens a list, a call or the parameters of a function.
LEMMA ValueSound ==
  ASSUME TypeInv, NEW x \in Items,
         x.at \in {"fn", "in", "returned", "values", "moreValues", "call"}
  PROVE  \A r \in Rules(x) : Sound(x, r)
<1>1. x \in Items \ (Blocks \union Asking) /\ Lends(x) = 0 /\ x \in Items \ Blocks
  BY LendsNothing DEF AlwaysOwes, MayOwe
<1>2. \A r : Easy(r) => Sound(x, r)
  BY <1>1, EasySound
<1>3. Sound(x, Look({"LParen"}, List))
  BY <1>1, ListOwes, SoundKinds
<1>4. ASSUME NEW a \in Inert
      PROVE  Sound(x, Look({"LParen"}, List \o <<a>>))
  <2>1. a \in Items \ (Blocks \union Asking) /\ Is(Owing, a) = 0
    BY InertOwes
  <2>2. Clean(List \o <<a>>) /\ Owes(List \o <<a>>) = Is(Owing, a)
    BY <2>1, ListOwes, Zenon
  <2>3. Owes(List \o <<a>>) <= Lends(x)
    BY <1>1, <2>1, <2>2
  <2> QED
    BY <1>1, <2>2, <2>3, SoundKinds
<1>5. /\ Expression \in Inert /\ << >> \in Seq(Inert) /\ At("call") \in Inert
      /\ With("call", {"semicolon"}) \in Inert /\ At("open") \in Inert
      /\ \A n \in Int : Count("valuesNext", n) \in Inert
      /\ At("callOrVariable") \in Inert /\ At("returnEnd") \in Inert
  BY InertItems DEF InertPlaces, EasyPlaces
<1>6. x.n - 1 \in Int /\ x.flags \in SUBSET Flags
  BY DEF Items
<1>7. ASSUME x.at = "fn"
      PROVE  \A r \in Rules(x) : Sound(x, r)
  <2>1. PICK p \in Items \ (Blocks \union Asking) : p = At("parameters") /\ Is(Owing, p) = 1
    BY ItemKinds DEF AlwaysOwes, Owing, Is
  <2>2. PICK o \in Items \ (Blocks \union Asking) : o = At("open") /\ Is(Owing, o) = 0
    BY <1>5, InertOwes
  <2>3. /\ Clean(<<Expect({"LParen"}), p, o>>)
        /\ Owes(<<Expect({"LParen"}), p, o>>) = Is(Owing, p) + Is(Owing, o) - 1
        /\ Clean(<<p, o>>) /\ Owes(<<p, o>>) = Is(Owing, p) + Is(Owing, o)
    BY OwesTuples, Zenon
  <2>4. Owes(<<Expect({"LParen"}), p, o>>) <= Lends(x) /\ Owes(<<p, o>>) <= Lends(x) + 1
    BY <1>1, <2>1, <2>2, <2>3
  <2>5. Sound(x, Shift(Identifier, <<Expect({"LParen"}), p, o>>))
    BY <1>1, <2>3, <2>4, SoundKinds, TokenSets
  <2>6. Sound(x, Shift({"LParen"}, <<p, o>>))
    BY <1>1, <2>3, <2>4, SoundKinds
  <2>7. Rules(x) = FnRules
    BY <1>7 DEF Rules
  <2>8. FnRules = {Shift(Identifier, <<Expect({"LParen"}), p, o>>), Shift({"LParen"}, <<p, o>>)}
    BY <2>1, <2>2, Zenon DEF FnRules
  <2> QED
    BY <2>5, <2>6, <2>7, <2>8
<1>8. ASSUME x.at = "call"
      PROVE  \A r \in Rules(x) : Sound(x, r)
  <2>1. PICK a \in Items \ (Blocks \union Asking) : a = With("callArg", x.flags) /\ Is(Owing, a) = 1
    BY <1>6, ItemKinds DEF AlwaysOwes, Owing, Is
  <2>2. Clean(<<a>>) /\ Owes(<<a>>) <= Lends(x) + 1
    BY <1>1, <2>1, OwesTuples
  <2>3. Sound(x, Shift({"LParen"}, <<a>>))
    BY <1>1, <2>2, SoundKinds
  <2>4. Rules(x) = CallRules(x)
    BY <1>8 DEF Rules
  <2> QED
    BY <2>1, <2>3, <2>4 DEF CallRules
<1>9. ASSUME x.at = "in"
      PROVE  \A r \in Rules(x) : Sound(x, r)
  <2>1. <<At("call")>> \in Seq(Inert) /\ <<At("callOrVariable")>> \in Seq(Inert)
    BY <1>5
  <2>2. /\ Easy(Shift(Identifier, <<At("call")>>))
        /\ Easy(Shift({"Variable"}, <<At("callOrVariable")>>))
    BY <2>1, EasyKinds, TokenSets
  <2>3. Rules(x) = InRules
    BY <1>9 DEF Rules
  <2> QED
    BY <1>2, <1>3, <2>2, <2>3 DEF InRules
<1>10. ASSUME x.at = "returned"
       PROVE  \A r \in Rules(x) : Sound(x, r)
  <2>1. /\ <<With("call", {"semicolon"}), At("returnEnd")>> \in Seq(Inert)
        /\ <<Expression, At("returnEnd")>> \in Seq(Inert)
    BY <1>5
  <2>2. /\ Easy(Shift({"Semicolon"}, << >>)) /\ Easy(Look({"RBrace"}, << >>))
        /\ Easy(Shift(Identifier, <<With("call", {"semicolon"}), At("returnEnd")>>))
        /\ Easy(Look(ValidArgument \ Identifier, <<Expression, At("returnEnd")>>))
    BY <1>5, <2>1, EasyKinds, TokenSets
  <2>3. Sound(x, Look({"LParen"}, List \o <<At("returnEnd")>>))
    BY <1>4, <1>5
  <2>4. Rules(x) = ReturnedRules
    BY <1>10 DEF Rules
  <2> QED
    BY <1>2, <2>2, <2>3, <2>4 DEF ReturnedRules
<1>11. \A r \in ValuesRules(x.n) : Sound(x, r)
  <2>1. PICK next \in Inert : next = Count("valuesNext", x.n - 1)
    BY <1>5, <1>6
  <2>2. <<Expression, next>> \in Seq(Inert)
    BY <1>5
  <2>3. Easy(Look({"Variable", "String"}, <<Expression, next>>))
    BY <2>2, EasyKinds
  <2>4. Sound(x, Look({"LParen"}, List \o <<next>>))
    BY <1>4
  <2>5. ValuesRules(x.n) = {Look({"Variable", "String"}, <<Expression, next>>),
                            Look({"LParen"}, List \o <<next>>)}
    BY <2>1 DEF ValuesRules
  <2> QED
    BY <1>2, <2>3, <2>4, <2>5
<1>12. ASSUME x.at = "moreValues"
       PROVE  \A r \in Rules(x) : Sound(x, r)
  <2> DEFINE S == {"Variable", "String", "LParen"}
  <2>1. \A r \in OptSemicolon : \E on :
          r = Look(on, << >>) \/ (r = Shift(on, << >>) /\ "RParen" \notin on)
    BY DEF OptSemicolon
  <2>2. \A r \in OptSemicolon : Easy([r EXCEPT !.on = r.on \ S])
    BY <1>5, <2>1, EasyChanged
  <2>3. Rules(x) = MoreValuesRules(x.n)
    BY <1>12 DEF Rules
  <2>4. \A r \in MoreValuesRules(x.n) :
          r \in ValuesRules(x.n) \/ \E q \in OptSemicolon : r = [q EXCEPT !.on = q.on \ S]
    BY DEF MoreValuesRules
  <2> QED
    BY <1>2, <1>11, <2>2, <2>3, <2>4
<1>13. ASSUME x.at = "values"
       PROVE  \A r \in Rules(x) : Sound(x, r)
  <2>1. Rules(x) = ValuesRules(x.n)
    BY <1>13 DEF Rules
  <2> QED
    BY <1>11, <2>1
<1> QED
  BY <1>7, <1>8, <1>9, <1>10, <1>12, <1>13

\* One token, of these.
LEMMA ExpectSound ==
  ASSUME TypeInv, NEW x \in Items, x.at = "expect"
  PROVE  \A r \in Rules(x) : Sound(x, r)
<1>1. Rules(x) = {Shift(x.flags, << >>)}
  BY DEF Rules
<1>2. x \in Items \ Blocks /\ Clean(<< >>) /\ Owes(<< >>) = 0 /\ x \notin Owing
  BY OwesTuples DEF Blocks, Owing, AlwaysOwes, MayOwe
<1>3. CASE "LParen" \in x.flags
  <2>1. x.flags = {"LParen"} /\ Lends(x) = 0 - 1
    BY <1>2, <1>3 DEF Items, Asking, Lends, Is
  <2>2. Owes(<< >>) <= Lends(x) + 1
    BY <1>2, <2>1
  <2> QED
    BY <1>1, <1>2, <2>1, <2>2, SoundKinds
<1>4. CASE "LParen" \notin x.flags
  <2>1. Lends(x) = 0 /\ "RParen" \notin x.flags
    BY <1>2, <1>4 DEF Items, Asking, Lends, Is
  <2> QED
    BY <1>1, <1>2, <2>1, SoundKinds
<1> QED
  BY <1>3, <1>4

\* Whatever item runs, its rules are sound.
LEMMA AllSound ==
  ASSUME TypeInv, NEW x \in Items
  PROVE  \A r \in Rules(x) : Sound(x, r)
<1>1. x.at \in Places
  BY DEF Items
<1>2. ASSUME x.at \in EasyPlaces
      PROVE  \A r \in Rules(x) : Sound(x, r)
  <2>1. x.at \notin {"expect", "block"} \union AlwaysOwes \union MayOwe
    BY <1>2 DEF EasyPlaces, AlwaysOwes, MayOwe
  <2> QED
    BY <1>2, <2>1, EasyRules, EasySound, LendsNothing
<1>3. \/ x.at \in EasyPlaces
      \/ x.at \in {"statement", "output", "rforkBlock", "elseBlock", "open", "for"}
      \/ x.at \in {"block"} \/ x.at \in MayOwe \union {"multi"}
      \/ x.at \in {"list", "callArg", "callNext", "parameters", "parameter", "parameterEnd",
                   "moreParameters"}
      \/ x.at \in {"fn", "in", "returned", "values", "moreValues", "call"}
      \/ x.at = "expect"
  BY <1>1 DEF Places, EasyPlaces, MayOwe
<1> QED
  BY <1>2, <1>3, StatementSound, BlockSound, CommandSound, OwingSound, ValueSound, ExpectSound

-----------------------------------------------------------------------------
(***************************************************************************)
(* The invariant                                                           *)
(***************************************************************************)

\* An item of a stack is counted.
LEMMA InSome ==
  ASSUME NEW S, NEW s \in Seq(Items), NEW k \in 1 .. Len(s), s[k] \in S
  PROVE  In(S, s) >= 1
<1>1. k \in Positions(S, s) /\ IsFiniteSet(Positions(S, s)) /\ In(S, s) \in Nat
  BY InTypes DEF Positions
<1>2. Cardinality(Positions(S, s)) # 0
  BY <1>1, FS_EmptySet
<1> QED
  BY <1>1, <1>2 DEF In

\* The lexer counts the parentheses it hands over, and none after the end.
LEMMA RunCounts ==
  ASSUME TypeInv, Run
  PROVE  /\ openParens' \in Int /\ tok' \in Token \union {NoToken, "Illegal"}
         /\ state' \in {"run", "nil", "eof", "closed"}
         /\ tok' = "EOF" => state' \in {"eof", "closed"}
         /\ openParens' - Weight(tok') = openParens - Weight(tok)
         /\ tok = "EOF" => tok' = "EOF" /\ openParens' = openParens
<1> DEFINE Goal == /\ openParens' \in Int /\ tok' \in Token \union {NoToken, "Illegal"}
                   /\ state' \in {"run", "nil", "eof", "closed"}
                   /\ tok' = "EOF" => state' \in {"eof", "closed"}
                   /\ openParens' - Weight(tok') = openParens - Weight(tok)
                   /\ tok = "EOF" => tok' = "EOF" /\ openParens' = openParens
           Others == (Token \ {"LParen", "RParen", "EOF"}) \union {"Illegal"}
<1>1. /\ openParens \in Int /\ tok \in Token \union {NoToken, "Illegal"}
      /\ tok = "EOF" => state \in {"eof", "closed"}
  BY DEF TypeInv
<1>2. /\ NoToken \notin {"LParen", "RParen", "EOF"}
      /\ Others \subseteq Token \union {NoToken, "Illegal"}
      /\ {"LParen", "RParen", "EOF"} \subseteq Token
      /\ \A t \in Others : t \notin {"LParen", "RParen", "EOF"}
      /\ Plain \union Word \union {"LBrace", "RBrace", "Semicolon", "Comment"} \subseteq Others
  BY DEF NoToken, Token, Plain, Word, Identifier, Keyword
<1> HIDE DEF Others
<1>3. ASSUME NEW t \in Others, emit(t), openParens' = openParens, state' \in {"run", "nil"}
      PROVE  Goal
  BY <1>1, <1>2, <1>3 DEF emit, Weight
<1>4. ASSUME tok' = tok, tok # "EOF", openParens' = openParens, state' \in {"run", "nil"}
      PROVE  Goal
  BY <1>1, <1>4 DEF Weight
<1>5. ASSUME NEW t \in Plain, LexPlain(t)
      PROVE  Goal
  BY <1>2, <1>3, <1>5 DEF LexPlain, Scan
<1>6. ASSUME NEW t \in Word, NEW last \in BOOLEAN, LexWord(t, last)
      PROVE  Goal
  BY <1>2, <1>3, <1>6 DEF LexWord, Scan
<1>7. ASSUME NEW t \in {"LParen", "RParen"}, LexParen(t)
      PROVE  Goal
  BY <1>1, <1>2, <1>7 DEF LexParen, Scan, emit, Weight
<1>8. ASSUME NEW t \in {"LBrace", "RBrace"}, LexBrace(t)
      PROVE  Goal
  BY <1>2, <1>3, <1>8 DEF LexBrace, Scan
<1>9. CASE LexSemicolon
  BY <1>2, <1>3, <1>9 DEF LexSemicolon, Scan
<1>10. CASE LexComment
  BY <1>2, <1>3, <1>10 DEF LexComment, Scan
<1>11. CASE LexNewline
  BY <1>1, <1>2, <1>3, <1>4, <1>11 DEF LexNewline
<1>12. CASE LexIllegal
  <2>1. "Illegal" \in Others
    BY DEF Others
  <2> QED
    BY <1>3, <1>12, <2>1 DEF LexIllegal, Scan
<1>13. CASE LexEnd
  BY <1>1, <1>2, <1>3, <1>4, <1>13 DEF LexEnd
<1>14. CASE EmitEOF
  BY <1>1, <1>2, <1>14 DEF EmitEOF, emit, Weight
<1>15. CASE Close
  BY <1>1, <1>15 DEF Close
<1> QED
  BY <1>5, <1>6, <1>7, <1>8, <1>9, <1>10, <1>11, <1>12, <1>13, <1>14, <1>15 DEF Run

\* At the start there is the block of the program and no parenthesis.
LEMMA InitInv == Init => IInv
<1> SUFFICES ASSUME Init
             PROVE  IInv
  OBVIOUS
<1>1. PICK b \in Blocks \ (Owing \union Asking) : b = At("block")
  BY ItemKinds
<1>2. b \in Items /\ stack = <<b>> /\ stack \in Seq(Items) /\ Len(stack) = 1 /\ stack[1] = b
  BY <1>1 DEF Init, Blocks
<1>3. In(Blocks, stack) = 1 /\ In(Owing, stack) = 0 /\ AtHead(Asking, stack) = 0
  BY <1>1, <1>2, InOne DEF AtHead, Is
<1>4. /\ openblocks = 0 /\ openParens = 0 /\ insidePipe \in BOOLEAN /\ result = "none"
      /\ tok = NoToken /\ state = "run" /\ tok # "EOF" /\ Weight(tok) = 0
  BY DEF Init, InitLexer, NoToken, Weight
<1> QED
  BY <1>1, <1>2, <1>3, <1>4 DEF IInv, TypeInv, BlocksInv, ParensInv, UnfinishedInv

\* A step of the lexer leaves the stack alone.
LEMMA LexerInv == IInv /\ Lexer_ => IInv'
<1> SUFFICES ASSUME IInv, Lexer_
             PROVE  IInv'
  OBVIOUS
<1>1. /\ stack' = stack /\ openblocks' = openblocks /\ insidePipe' = insidePipe
      /\ result' = result /\ Run /\ TypeInv
  BY DEF Lexer_, parser, IInv
<1>2. /\ openParens' \in Int /\ tok' \in Token \union {NoToken, "Illegal"}
      /\ state' \in {"run", "nil", "eof", "closed"}
      /\ tok' = "EOF" => state' \in {"eof", "closed"}
      /\ openParens' - Weight(tok') = openParens - Weight(tok)
      /\ tok = "EOF" => tok' = "EOF" /\ openParens' = openParens
  BY <1>1, RunCounts
<1>3. TypeInv'
  BY <1>1, <1>2 DEF TypeInv
<1>4. BlocksInv'
  BY <1>1 DEF IInv, BlocksInv
<1>5. ParensInv'
  <2>1. In(Owing, stack) \in Nat /\ AtHead(Asking, stack) \in {0, 1} /\ openParens \in Int
        /\ Weight(tok) \in Int /\ Weight(tok') \in Int
    BY <1>1, InTypes DEF TypeInv, Weight
  <2>2. result = "none" =>
          /\ In(Owing, stack) + Weight(tok) <= openParens + AtHead(Asking, stack)
          /\ \A k \in 2 .. Len(stack) : stack[k] \notin Asking
    BY DEF IInv, ParensInv
  <2>3. result = "none" =>
          In(Owing, stack) + Weight(tok') <= openParens' + AtHead(Asking, stack)
    BY <1>2, <2>1, <2>2
  <2> QED
    BY <1>1, <2>2, <2>3 DEF ParensInv
<1>6. UnfinishedInv'
  BY <1>1, <1>2 DEF IInv, UnfinishedInv, UnfinishedIsOpen
<1> QED
  BY <1>3, <1>4, <1>5, <1>6 DEF IInv

\* What Parse does by a rule that goes on.
Applied(x, r) ==
  /\ result = "none" /\ stack # << >> /\ x = Head(stack) /\ tok \in r.on
  /\ Sound(x, r) /\ r.result = "none"
  /\ stack' = r.push \o Tail(stack) /\ openblocks' = openblocks + r.open

\* The stack changes by what the rule is sound for.
LEMMA GoesOn ==
  ASSUME IInv, NEW x, NEW r, Applied(x, r)
  PROVE  /\ stack' \in Seq(Items)
         /\ stack' # << >> =>
              openblocks' + 1 = In(Blocks, stack') /\ stack'[Len(stack')] \in Blocks
         /\ In(Owing, stack') + Weight(tok)
              <= openParens + AtHead(Asking, stack') + (IF r.take THEN Weight(tok) ELSE 0)
         /\ \A k \in 2 .. Len(stack') : stack'[k] \notin Asking
<1>1. /\ stack \in Seq(Items) /\ openblocks \in Nat /\ openParens \in Int
      /\ openblocks + 1 = In(Blocks, stack) /\ stack[Len(stack)] \in Blocks
      /\ In(Owing, stack) + Weight(tok) <= openParens + AtHead(Asking, stack)
      /\ \A k \in 2 .. Len(stack) : stack[k] \notin Asking
  BY DEF IInv, TypeInv, BlocksInv, ParensInv, Applied
<1>0. stack # << >> /\ x = Head(stack) /\ Sound(x, r) /\ r.result = "none" /\ tok \in r.on
  BY DEF Applied
<1>t. PICK t : t = Tail(stack) /\ t \in Seq(Items)
  BY <1>0, <1>1, HeadTailProperties
<1>2. /\ x \in Items /\ x = stack[1] /\ Len(stack) \in Nat /\ Len(stack) >= 1
      /\ Len(t) = Len(stack) - 1
      /\ \A k \in 1 .. Len(t) : t[k] = stack[k + 1]
  BY <1>0, <1>1, <1>t, HeadTailProperties
<1>p. PICK p : p = r.push /\ p \in Seq(Items)
  BY <1>0 DEF Sound
<1>o. PICK open \in Int : open = r.open
  BY <1>0 DEF Sound
<1>3. /\ \A k \in 2 .. Len(p) : p[k] \notin Asking
      /\ \/ /\ In(Blocks, p) = Is(Blocks, x) + open
            /\ x \in Blocks => \/ p # << >> /\ p[Len(p)] \in Blocks
                               \/ p = << >> /\ open = 0 - 1 /\ openblocks > 0
         \/ x \in Blocks /\ openblocks = 0 /\ open = 0 /\ p = << >>
      /\ Owes(p) <= Lends(x) + (IF r.take THEN Weight(tok) ELSE 0)
  BY <1>0, <1>p, <1>o DEF Sound
<1>s. PICK s : s = p \o t /\ s \in Seq(Items)
  BY <1>t, <1>p, ConcatProperties
<1>4. ASSUME NEW S
      PROVE  /\ In(S, stack) = Is(S, x) + In(S, t) /\ In(S, s) = In(S, p) + In(S, t)
             /\ In(S, p) \in Nat /\ In(S, t) \in Nat /\ Is(S, x) \in {0, 1}
             /\ AtHead(S, p) \in {0, 1}
  <2>1. In(S, stack) = Is(S, x) + In(S, t)
    BY <1>0, <1>1, <1>t, InTail
  <2>2. In(S, s) = In(S, p) + In(S, t)
    BY <1>t, <1>p, <1>s, InConcat
  <2> QED
    BY <1>t, <1>p, <2>1, <2>2, InTypes DEF Is
<1>5. /\ Len(s) = Len(p) + Len(t) /\ Len(p) \in Nat /\ Len(t) \in Nat
      /\ \A k \in 1 .. Len(p) + Len(t) : s[k] = IF k <= Len(p) THEN p[k] ELSE t[k - Len(p)]
  BY <1>t, <1>p, <1>s, ConcatProperties
<1>6. Weight(tok) \in Int
  BY DEF Weight
<1>n. /\ Len(stack) \in Nat /\ Len(p) \in Nat /\ Len(t) = Len(stack) - 1
      /\ Len(s) = Len(p) + Len(t)
  BY <1>2, <1>5
<1>e. (p = << >> <=> Len(p) = 0) /\ (t = << >> <=> Len(t) = 0) /\ (s = << >> <=> Len(s) = 0)
  <2>1. \A q \in Seq(Items) : q = << >> <=> Len(q) = 0
    OBVIOUS
  <2> QED
    BY <1>t, <1>p, <1>s, <2>1, Zenon
<1>7. \A k \in 2 .. Len(s) : s[k] \notin Asking
  <2> SUFFICES ASSUME NEW k \in 2 .. Len(s)
               PROVE  s[k] \notin Asking
    OBVIOUS
  <2>1. CASE k <= Len(p)
    BY <1>3, <1>5, <2>1
  <2>2. CASE k > Len(p)
    <3>1. k - Len(p) \in 1 .. Len(t) /\ k - Len(p) + 1 \in 2 .. Len(stack)
      BY <1>2, <1>5, <2>2
    <3>2. s[k] = t[k - Len(p)]
      BY <1>5, <2>2
    <3>3. t[k - Len(p)] = stack[k - Len(p) + 1]
      BY <1>2, <3>1
    <3> QED
      BY <1>1, <3>1, <3>2, <3>3
  <2> QED
    BY <1>5, <2>1, <2>2
<1>8. In(Owing, s) + Weight(tok)
        <= openParens + AtHead(Asking, s) + (IF r.take THEN Weight(tok) ELSE 0)
  <2>1. AtHead(Asking, stack) = Is(Asking, x)
    BY <1>0, <1>2 DEF AtHead
  <2>2. AtHead(Asking, p) <= AtHead(Asking, s)
    <3>1. CASE p = << >>
      BY <3>1 DEF AtHead, Is
    <3>2. CASE p # << >>
      <4>1. s # << >> /\ s[1] = p[1]
        BY <1>5, <1>e, <3>2
      <4> QED
        BY <3>2, <4>1 DEF AtHead, Is
    <3> QED
      BY <3>1, <3>2
  <2>3. /\ In(Owing, p) - AtHead(Asking, p)
             <= Is(Owing, x) - Is(Asking, x) + (IF r.take THEN Weight(tok) ELSE 0)
    BY <1>3 DEF Owes, Lends
  <2>4. /\ In(Owing, stack) = Is(Owing, x) + In(Owing, t)
        /\ In(Owing, s) = In(Owing, p) + In(Owing, t)
        /\ In(Owing, p) \in Nat /\ In(Owing, t) \in Nat /\ Is(Owing, x) \in {0, 1}
        /\ Is(Asking, x) \in {0, 1} /\ AtHead(Asking, p) \in {0, 1} /\ AtHead(Asking, s) \in {0, 1}
    BY <1>4, <1>s, InTypes DEF Is
  <2> DEFINE w == IF r.take THEN Weight(tok) ELSE 0
  <2>5. w \in Int
    BY <1>6
  <2> HIDE DEF w
  <2>6. In(Owing, p) - AtHead(Asking, p) <= Is(Owing, x) - Is(Asking, x) + w
    BY <2>3 DEF w
  <2>7. In(Owing, stack) + Weight(tok) <= openParens + Is(Asking, x) /\ openParens \in Int
    BY <1>1, <2>1
  <2>8. Is(Owing, x) + In(Owing, t) + Weight(tok) <= openParens + Is(Asking, x)
    BY <2>4, <2>7
  <2>9. In(Owing, p) + In(Owing, t) + Weight(tok) <= openParens + AtHead(Asking, p) + w
    <3>1. /\ Is(Owing, x) \in Int /\ In(Owing, t) \in Int /\ Weight(tok) \in Int
          /\ openParens \in Int /\ Is(Asking, x) \in Int /\ In(Owing, p) \in Int
          /\ AtHead(Asking, p) \in Int
      BY <1>6, <2>4, <2>7
    <3> QED
      BY <2>5, <2>6, <2>8, <3>1
  <2>10. In(Owing, s) + Weight(tok) <= openParens + AtHead(Asking, s) + w
    BY <1>6, <2>2, <2>4, <2>5, <2>7, <2>9
  <2> QED
    BY <2>10 DEF w
<1>9. ASSUME s # << >>
      PROVE  openblocks + open + 1 = In(Blocks, s) /\ s[Len(s)] \in Blocks
  <2>1. /\ In(Blocks, stack) = Is(Blocks, x) + In(Blocks, t)
        /\ In(Blocks, s) = In(Blocks, p) + In(Blocks, t)
        /\ In(Blocks, p) \in Nat /\ In(Blocks, t) \in Nat /\ Is(Blocks, x) \in {0, 1}
    BY <1>4
  <2>2. t # << >> => /\ s[Len(s)] = t[Len(t)] /\ t[Len(t)] = stack[Len(stack)]
                     /\ Len(t) \in 1 .. Len(t)
    <3> SUFFICES ASSUME t # << >>
                 PROVE  /\ s[Len(s)] = t[Len(t)] /\ t[Len(t)] = stack[Len(stack)]
                        /\ Len(t) \in 1 .. Len(t)
      OBVIOUS
    <3>1. Len(t) \in 1 .. Len(t) /\ Len(s) \in 1 .. Len(p) + Len(t) /\ ~(Len(s) <= Len(p))
          /\ Len(s) - Len(p) = Len(t) /\ Len(t) + 1 = Len(stack)
      BY <1>2, <1>5, <1>e
    <3> QED
      BY <1>2, <1>5, <3>1
  <2>3. t # << >> => In(Blocks, t) >= 1
    BY <1>1, <1>2, <1>t, <2>2, InSome
  <2>4. t = << >> => x \in Blocks /\ In(Blocks, t) = 0 /\ s[Len(s)] = p[Len(p)]
    <3>0. SUFFICES ASSUME t = << >>
                 PROVE  x \in Blocks /\ In(Blocks, t) = 0 /\ s[Len(s)] = p[Len(p)]
      OBVIOUS
    <3>1. Len(t) = 0
      BY <1>e, <3>0
    <3>2. Len(stack) = 1 /\ Len(s) = Len(p) /\ Len(p) # 0
      <4>1. Len(s) # 0
        BY <1>e, <1>9
      <4>2. Len(stack) = 1
        BY <1>n, <3>1
      <4>3. Len(s) = Len(p) + 0
        BY <1>n, <3>1, Zenon
      <4>4. Len(p) + 0 = Len(p)
        BY <1>n
      <4> QED
        BY <4>1, <4>2, <4>3, <4>4
    <3>3. x \in Blocks
      BY <1>1, <1>2, <3>2
    <3>4. s[Len(s)] = p[Len(p)]
      BY <1>5, <3>1, <3>2
    <3> QED
      BY <3>0, <3>3, <3>4, InOne
  <2>5. x \in Blocks => Is(Blocks, x) = 1
    BY DEF Is
  <2>6. CASE x \in Blocks /\ openblocks = 0 /\ open = 0 /\ p = << >>
    <3>1. t # << >>
      BY <1>5, <1>e, <1>9, <2>6
    <3> QED
      BY <1>1, <2>1, <2>3, <2>5, <2>6, <3>1
  <2>7. CASE /\ In(Blocks, p) = Is(Blocks, x) + open
             /\ x \in Blocks => \/ p # << >> /\ p[Len(p)] \in Blocks
                                \/ p = << >> /\ open = 0 - 1 /\ openblocks > 0
    <3>1. openblocks + open + 1 = In(Blocks, s)
      <4>1. openblocks + 1 = In(Blocks, stack) /\ openblocks \in Nat /\ Is(Blocks, x) \in Int
        BY <1>1, <2>1
      <4> QED
        BY <2>1, <2>7, <4>1
    <3>2. CASE t # << >>
      BY <1>1, <2>2, <3>1, <3>2
    <3>3. CASE t = << >>
      <4>1. p # << >>
        BY <1>1, <2>1, <2>4, <2>5, <2>7, <3>3
      <4> QED
        BY <2>4, <2>7, <3>1, <3>3, <4>1
    <3> QED
      BY <3>2, <3>3
  <2> QED
    BY <1>3, <2>6, <2>7
<1>10. stack' = s /\ openblocks' = openblocks + open
  BY <1>t, <1>p, <1>o, <1>s DEF Applied
<1> QED
  BY <1>s, <1>7, <1>8, <1>9, <1>10

\* A step of the parser is a sound rule, or ends the parse.
LEMMA ParseInv == IInv /\ Parse => IInv'
<1> SUFFICES ASSUME IInv, Parse
             PROVE  IInv'
  OBVIOUS
<1> DEFINE x == Head(stack)
<1>1. /\ result = "none" /\ stack # << >> /\ tok # NoToken
      /\ openParens' = openParens /\ state' = state /\ TypeInv
  BY DEF Parse, Parsing, lexer, IInv
<1>2. PICK r \in Rules(x) :
        /\ tok \in r.on
        /\ stack' = IF r.result = "none" THEN r.push \o Tail(stack) ELSE stack
        /\ tok' = IF r.take THEN NoToken ELSE tok
        /\ openblocks' = openblocks + r.open
        /\ insidePipe' = r.inside
        /\ result' = r.result
  BY DEF Parse
<1>3. x \in Items
  BY <1>1, HeadTailProperties DEF TypeInv
<1>4. Sound(x, r)
  BY <1>1, <1>2, <1>3, AllSound
<1>5. /\ r.take \in BOOLEAN /\ r.inside \in BOOLEAN /\ r.open \in Int /\ openblocks + r.open \in Nat
  BY <1>4 DEF Sound
<1>6. /\ openParens \in Int /\ tok \in Token \union {NoToken, "Illegal"} /\ NoToken # "EOF"
      /\ state \in {"run", "nil", "eof", "closed"} /\ (tok = "EOF" => state \in {"eof", "closed"})
      /\ stack \in Seq(Items) /\ openblocks \in Nat
      /\ Weight(NoToken) = 0 /\ Weight(tok) \in Int
  BY <1>1 DEF TypeInv, NoToken, Weight
<1>7. CASE r.result = "none"
  <2>1. /\ stack' \in Seq(Items)
        /\ stack' # << >> =>
             openblocks' + 1 = In(Blocks, stack') /\ stack'[Len(stack')] \in Blocks
        /\ In(Owing, stack') + Weight(tok)
             <= openParens + AtHead(Asking, stack') + (IF r.take THEN Weight(tok) ELSE 0)
        /\ \A k \in 2 .. Len(stack') : stack'[k] \notin Asking
    <3>1. Applied(x, r)
      BY <1>1, <1>2, <1>4, <1>7 DEF Applied
    <3> HIDE DEF x
    <3> QED
      BY <3>1, GoesOn
  <2>2. TypeInv'
    BY <1>1, <1>2, <1>5, <1>6, <1>7, <2>1 DEF TypeInv
  <2>3. BlocksInv'
    BY <2>1 DEF BlocksInv
  <2>4. In(Owing, stack') \in Nat /\ AtHead(Asking, stack') \in {0, 1}
    BY <2>1, InTypes
  <2>5. In(Owing, stack') + Weight(tok') <= openParens' + AtHead(Asking, stack')
    BY <1>1, <1>2, <1>5, <1>6, <2>1, <2>4
  <2>6. ParensInv'
    BY <2>1, <2>5 DEF ParensInv
  <2>7. UnfinishedInv'
    BY <1>2, <1>7 DEF UnfinishedInv
  <2> QED
    BY <2>2, <2>3, <2>6, <2>7 DEF IInv
<1>8. CASE r.result # "none"
  <2>1. /\ r.result = "unfinished" /\ r.on \subseteq {"EOF"} /\ ~r.take /\ r.open = 0
        /\ (openblocks > 0 \/ x \in Owing)
    BY <1>4, <1>8 DEF Sound
  <2>2. tok = "EOF" /\ tok' = tok /\ stack' = stack /\ openblocks' = openblocks
        /\ result' = "unfinished"
    BY <1>2, <1>6, <1>8, <2>1
  <2>3. TypeInv'
    BY <1>1, <1>2, <1>5, <1>6, <2>2 DEF TypeInv
  <2>4. x \in Owing => openParens > 0
    <3> SUFFICES ASSUME x \in Owing
                 PROVE  openParens > 0
      OBVIOUS
    <3>1. In(Owing, stack) + Weight(tok) <= openParens + AtHead(Asking, stack)
      BY <1>1 DEF IInv, ParensInv
    <3>2. x \notin Asking /\ x = stack[1]
      BY <1>1, <1>6 DEF Owing, Asking, AlwaysOwes, MayOwe
    <3>3. AtHead(Asking, stack) = 0 /\ Weight(tok) = 0
      BY <1>1, <2>2, <3>2 DEF AtHead, Is, Weight
    <3>4. In(Owing, stack) >= 1 /\ In(Owing, stack) \in Nat
      <4>1. 1 \in 1 .. Len(stack)
        BY <1>1, <1>6
      <4> QED
        BY <1>6, <3>2, <4>1, InSome, InTypes
    <3> QED
      BY <1>6, <3>1, <3>3, <3>4
  <2>5. UnfinishedInv'
    BY <1>1, <2>1, <2>2, <2>4 DEF UnfinishedInv, UnfinishedIsOpen
  <2>6. BlocksInv' /\ ParensInv'
    BY <2>2 DEF BlocksInv, ParensInv
  <2> QED
    BY <2>3, <2>5, <2>6 DEF IInv
<1> QED
  BY <1>7, <1>8

\* The result of a parse that is over says nothing of what is open.
LEMMA EndInv == IInv /\ (ParseError \/ ParseOk \/ UNCHANGED vars) => IInv'
<1> SUFFICES ASSUME IInv, ParseError \/ ParseOk \/ UNCHANGED vars
             PROVE  IInv'
  OBVIOUS
<1>1. CASE ParseError \/ ParseOk
  <2>1. /\ result' \in {"ok", "error"} /\ stack' = stack /\ openblocks' = openblocks
        /\ insidePipe' = insidePipe /\ tok' = tok /\ state' = state /\ openParens' = openParens
    BY <1>1 DEF ParseError, ParseOk, lexer
  <2> QED
    BY <2>1 DEF IInv, TypeInv, BlocksInv, ParensInv, UnfinishedInv
<1>2. CASE UNCHANGED vars
  <2>1. /\ result' = result /\ stack' = stack /\ openblocks' = openblocks
        /\ insidePipe' = insidePipe /\ tok' = tok /\ state' = state /\ openParens' = openParens
    BY <1>2 DEF vars, lexer, parser
  <2>2. TypeInv' /\ BlocksInv' /\ UnfinishedInv'
    BY <2>1 DEF IInv, TypeInv, BlocksInv, UnfinishedInv, UnfinishedIsOpen
  <2>3. ParensInv'
    BY <2>1 DEF IInv, ParensInv
  <2> QED
    BY <2>2, <2>3 DEF IInv
<1> QED
  BY <1>1, <1>2

\* The counts stay true to the stack while both goroutines run.
LEMMA InductiveInv == Spec => []IInv
<1>1. IInv /\ [Next]_vars => IInv'
  BY LexerInv, ParseInv, EndInv DEF Next, Parser
<1> QED
  BY InitInv, <1>1, PTL DEF Spec

-----------------------------------------------------------------------------
(* openblocks, which parseBlock compares with zero to tell a wrong brace   *)
(* from one that is missing, is the depth of the blocks being parsed, for  *)
(* every input: no function that opens a block forgets to count it.        *)
THEOREM BlocksAreCounted == Spec => []OpenblocksIsDepth
<1>1. IInv => OpenblocksIsDepth
  <2> SUFFICES ASSUME IInv, result = "none", stack # << >>
               PROVE  openblocks + 1
                        = Cardinality({n \in DOMAIN stack : stack[n].at = "block"})
    BY DEF OpenblocksIsDepth
  <2>1. stack \in Seq(Items) /\ openblocks + 1 = Cardinality(Positions(Blocks, stack))
    BY DEF IInv, TypeInv, BlocksInv, In
  <2>2. {n \in DOMAIN stack : stack[n].at = "block"} = Positions(Blocks, stack)
    BY <2>1 DEF Positions, Blocks
  <2> QED
    BY <2>1, <2>2
<1> QED
  BY <1>1, InductiveInv, PTL

(* Where the parser says that the program is unfinished, and the prompt    *)
(* asks for another line, a brace or a parenthesis is open: the parser     *)
(* never waits for a right parenthesis that the lexer does not count.      *)
THEOREM UnfinishedCanEnd == Spec => []UnfinishedIsOpen
<1>1. IInv => UnfinishedIsOpen
  BY DEF IInv, UnfinishedInv, UnfinishedIsOpen
<1> QED
  BY <1>1, InductiveInv, PTL
=============================================================================
