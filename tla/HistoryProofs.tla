--------------------------- MODULE HistoryProofs ----------------------------
(***************************************************************************)
(* Theorems about History, for every set of lines, limit and number of     *)
(* submissions: its types, that the item under the cursor shows the line   *)
(* under edit, that the file follows the list, and that a session          *)
(* implements Recall.                                                      *)
(***************************************************************************)
EXTENDS History, WellFoundedInduction, SequenceTheorems, TLAPS

Texts == Seq(Lines)
Items == [src : Texts, tmp : Texts, live : BOOLEAN]
Lists == [items : Seq(Items), cur : Nat, bumped : BOOLEAN]

\* A list whose current is an element of it, or nil while it is empty.
Sound(g) ==
  /\ g \in Lists
  /\ IF g.items = << >> THEN g.cur = 0 ELSE g.cur \in 1 .. Len(g.items)

HistoryTypes ==
  /\ Sound(h)
  /\ Len(h.items) <= Limit + 1
  /\ fd \in {"closed", "open", "none"}
  /\ file \in [lines : Seq(Texts), tail : Texts]
  /\ text \in Texts
  /\ vi \in BOOLEAN
  /\ submits \in 0 .. MaxSubmits

\* Only the list a session begins with is over the limit, with its cursor on
\* the last item: what walks from there drops the oldest.
FullInv == Len(h.items) = Limit + 1 => h.cur = Len(h.items)

\* With a file the last item is the line to come.
OpenInv ==
  fd = "open" => /\ h.items # << >>
                 /\ h.items[Len(h.items)].src = Empty

\* An older item the cursor is on was updated since the last submission.
LiveInv == h.cur # Len(h.items) => h.items[h.cur].live

ClosedInv == fd = "closed" => text = Empty

\* What will be a line of the file once it is followed by a newline.
Whole(f) == IF f.tail = Empty THEN f.lines ELSE Append(f.lines, f.tail)
Short(f) == \A n \in 1 .. Len(Whole(f)) : Len(Whole(f)[n]) <= 1

Ends(s, t) ==
  /\ Len(s) <= Len(t)
  /\ \A n \in 1 .. Len(s) : s[n] = t[Len(t) - Len(s) + n]

\* Only a rewrite leaves a line without its newline, and it leaves no other:
\* while no line is two, the lines to recall are the end of the file.
FileInv ==
  /\ file.tail # Empty => file.lines = << >>
  /\ fd = "open" /\ Short(file) => Ends(NonEmpty(Sources), NonEmpty(Whole(file)))

ListInv ==
  /\ HistoryTypes
  /\ FullInv
  /\ OpenInv
  /\ LiveInv
  /\ ClosedInv
  /\ LineIsCurrentItem

HInv == ListInv /\ FileInv

-----------------------------------------------------------------------------
(* Induction.  The provers instantiate no operator, and so none of the     *)
(* induction theorems of the library, but they can pick a least element.   *)

LEMMA LeastNatural ==
  ASSUME NEW T \in SUBSET Nat, T # {}
  PROVE  \E m \in T : \A n \in T : m <= n
<1> DEFINE R == {ss \in Nat \X Nat : ss[1] < ss[2]}
<1>1. IsWellFoundedOn(R, Nat)
  BY NatLessThanWellFounded DEF OpToRel
<1>2. PICK m \in T : \A n \in T : <<n, m>> \notin R
  BY <1>1, WFMin
<1>3. ASSUME NEW n \in T PROVE m <= n
  <2>1. <<n, m>> \in Nat \X Nat /\ <<n, m>> \notin R
    BY <1>2
  <2>2. ~(n < m)
    BY <2>1
  <2> QED
    BY <2>2
<1> QED
  BY <1>3

\* What holds of a and, with n, of n + 1, holds up to b.
LEMMA UpTo ==
  ASSUME NEW S, NEW a \in Nat, NEW b \in Nat, a \in S,
         \A n \in a .. (b - 1) : n \in S => n + 1 \in S
  PROVE  \A n \in a .. b : n \in S
<1> SUFFICES ASSUME NEW k \in a .. b, k \notin S PROVE FALSE
  OBVIOUS
<1> DEFINE T == {n \in a .. b : n \notin S}
<1>1. T \in SUBSET Nat /\ T # {}
  OBVIOUS
<1>2. PICK m \in T : \A n \in T : m <= n
  BY <1>1, LeastNatural
<1>3. m # a /\ m \in a .. b /\ m \notin S
  OBVIOUS
<1>4. m - 1 \in a .. (b - 1) /\ (m - 1) + 1 = m
  BY <1>3
<1>5. m - 1 \notin T
  BY <1>2, <1>4
<1>6. m - 1 \in S
  BY <1>4, <1>5
<1> QED
  BY <1>3, <1>4, <1>6

-----------------------------------------------------------------------------
(* The lines of a file that are read.                                      *)

KeptStep(s, f) ==
  [n \in 0 .. Len(s) |->
     IF n = 0 THEN << >>
     ELSE IF s[n] = Empty THEN f[n - 1] ELSE Append(f[n - 1], s[n])]
KeptOf(s) == CHOOSE f : f = KeptStep(s, f)

LEMMA NonEmptyIsKept ==
  ASSUME NEW s PROVE NonEmpty(s) = KeptOf(s)[Len(s)]
BY DEF NonEmpty, KeptOf, KeptStep

LEMMA KeptUnfolds ==
  ASSUME NEW s \in Seq(Texts)
  PROVE  /\ KeptOf(s)[0] = << >>
         /\ \A n \in 1 .. Len(s) :
              KeptOf(s)[n] = IF s[n] = Empty THEN KeptOf(s)[n - 1]
                                             ELSE Append(KeptOf(s)[n - 1], s[n])
<1> DEFINE Step(f, n) == IF n = 0 THEN << >>
                         ELSE IF s[n] = Empty THEN f[n - 1] ELSE Append(f[n - 1], s[n])
           Known == {m \in 0 .. Len(s) : \E f : f = [n \in 0 .. m |-> Step(f, n)]}
<1>n. Len(s) \in Nat /\ 0 \in 0 .. Len(s)
  OBVIOUS
<1>1. 0 \in Known
  <2> DEFINE f0 == [n \in 0 .. 0 |-> << >>]
  <2>1. f0 = [n \in 0 .. 0 |-> Step(f0, n)]
    OBVIOUS
  <2>2. \E f : f = [n \in 0 .. 0 |-> Step(f, n)]
    BY <2>1
  <2> HIDE DEF Step
  <2> QED
    BY <1>n, <2>2
<1>2. ASSUME NEW m \in 0 .. (Len(s) - 1), m \in Known PROVE m + 1 \in Known
  <2>1. PICK f : f = [n \in 0 .. m |-> Step(f, n)]
    BY <1>2
  <2> DEFINE g == [n \in 0 .. (m + 1) |-> IF n <= m THEN f[n] ELSE Step(f, n)]
  <2>2. ASSUME NEW n \in 0 .. (m + 1) PROVE g[n] = Step(g, n)
    <3>1. CASE n = 0
      BY <2>1, <3>1
    <3>2. CASE n # 0
      <4>1. n - 1 \in 0 .. m /\ g[n - 1] = f[n - 1]
        BY <3>2
      <4>2. g[n] = Step(f, n)
        <5>1. n <= m => f[n] = Step(f, n)
          <6> HIDE DEF Step
          <6> QED
            BY <2>1
        <5>2. g[n] = IF n <= m THEN f[n] ELSE Step(f, n)
          OBVIOUS
        <5> QED
          BY <5>1, <5>2
      <4> QED
        BY <3>2, <4>1, <4>2
    <3> QED
      BY <3>1, <3>2
  <2>3. g = [n \in 0 .. (m + 1) |-> Step(g, n)]
    BY <2>2
  <2>4. m + 1 \in 0 .. Len(s)
    OBVIOUS
  <2>5. \E f1 : f1 = [n \in 0 .. (m + 1) |-> Step(f1, n)]
    BY <2>3
  <2> HIDE DEF Step
  <2> QED
    BY <2>4, <2>5
<1>3. Len(s) \in Known
  <2> HIDE DEF Known
  <2>1. \A n \in 0 .. Len(s) : n \in Known
    BY <1>n, <1>1, <1>2, UpTo
  <2> QED
    BY <1>n, <2>1
<1>4. \E f : f = KeptStep(s, f)
  BY <1>3 DEF KeptStep
<1>5. KeptOf(s) = KeptStep(s, KeptOf(s))
  BY <1>4 DEF KeptOf
<1>6. \A n \in 0 .. Len(s) : KeptStep(s, KeptOf(s))[n] = Step(KeptOf(s), n)
  BY DEF KeptStep
<1> QED
  BY <1>n, <1>5, <1>6

Recorded == Texts \ {Empty}

LEMMA KeptType ==
  ASSUME NEW s \in Seq(Texts)
  PROVE  \A n \in 0 .. Len(s) : KeptOf(s)[n] \in Seq(Recorded)
<1> DEFINE S == {n \in 0 .. Len(s) : KeptOf(s)[n] \in Seq(Recorded)}
<1>n. Len(s) \in Nat /\ 0 \in 0 .. Len(s)
  OBVIOUS
<1>1. 0 \in S
  <2>1. KeptOf(s)[0] = << >> /\ << >> \in Seq(Recorded)
    BY KeptUnfolds
  <2> QED
    BY <1>n, <2>1
<1>2. ASSUME NEW n \in 0 .. (Len(s) - 1), n \in S PROVE n + 1 \in S
  <2>1. n + 1 \in 1 .. Len(s) /\ (n + 1) - 1 = n /\ s[n + 1] \in Texts
    OBVIOUS
  <2>2. KeptOf(s)[n + 1] = IF s[n + 1] = Empty THEN KeptOf(s)[n]
                                               ELSE Append(KeptOf(s)[n], s[n + 1])
    BY <2>1, KeptUnfolds
  <2>3. KeptOf(s)[n + 1] \in Seq(Recorded)
    BY <1>2, <2>1, <2>2 DEF Recorded
  <2> QED
    BY <2>1, <2>3
<1> HIDE DEF S
<1>3. \A n \in 0 .. Len(s) : n \in S
  BY <1>n, <1>1, <1>2, UpTo
<1> QED
  BY <1>3 DEF S

LEMMA NonEmptyType ==
  ASSUME NEW s \in Seq(Texts)
  PROVE  /\ NonEmpty(s) \in Seq(Recorded)
         /\ NonEmpty(s) \in Seq(Texts)
BY KeptType, NonEmptyIsKept DEF Recorded

LEMMA EndsTransitive ==
  ASSUME NEW S, NEW s \in Seq(S), NEW t \in Seq(S), NEW u \in Seq(S), Ends(s, t), Ends(t, u)
  PROVE  Ends(s, u)
<1>1. Len(s) \in Nat /\ Len(t) \in Nat /\ Len(u) \in Nat /\ Len(s) <= Len(t) /\ Len(t) <= Len(u)
  BY DEF Ends
<1>2. ASSUME NEW n \in 1 .. Len(s) PROVE s[n] = u[Len(u) - Len(s) + n]
  <2> DEFINE m == Len(t) - Len(s) + n
  <2>1. s[n] = t[m] /\ m \in 1 .. Len(t)
    BY <1>1 DEF Ends
  <2>2. t[m] = u[Len(u) - Len(t) + m]
    BY <2>1 DEF Ends
  <2>3. Len(u) - Len(t) + m = Len(u) - Len(s) + n
    BY <1>1
  <2> QED
    BY <2>1, <2>2, <2>3
<1> QED
  BY <1>1, <1>2 DEF Ends

LEMMA EndsAppend ==
  ASSUME NEW S, NEW s \in Seq(S), NEW t \in Seq(S), NEW e \in S, Ends(s, t)
  PROVE  Ends(Append(s, e), Append(t, e))
<1> DEFINE sa == Append(s, e)
           ta == Append(t, e)
<1>1. /\ Len(s) \in Nat /\ Len(t) \in Nat /\ Len(s) <= Len(t)
      /\ Len(sa) = Len(s) + 1 /\ Len(ta) = Len(t) + 1
      /\ \A n \in 1 .. Len(s) : sa[n] = s[n]
      /\ \A n \in 1 .. Len(t) : ta[n] = t[n]
      /\ sa[Len(s) + 1] = e /\ ta[Len(t) + 1] = e
  BY DEF Ends
<1> HIDE DEF sa, ta
<1>2. ASSUME NEW n \in 1 .. (Len(s) + 1) PROVE sa[n] = ta[(Len(t) + 1) - (Len(s) + 1) + n]
  <2>1. CASE n = Len(s) + 1
    BY <1>1, <2>1
  <2>2. CASE n # Len(s) + 1
    <3>1. n \in 1 .. Len(s)
      BY <1>1, <2>2
    <3>2. s[n] = t[Len(t) - Len(s) + n]
      BY <3>1 DEF Ends
    <3>3. Len(t) - Len(s) + n \in 1 .. Len(t)
      BY <1>1, <3>1
    <3>4. (Len(t) + 1) - (Len(s) + 1) + n = Len(t) - Len(s) + n
      BY <1>1
    <3> QED
      BY <1>1, <3>1, <3>2, <3>3, <3>4
  <2> QED
    BY <2>1, <2>2
<1>3. Ends(sa, ta)
  BY <1>1, <1>2 DEF Ends
<1> QED
  BY <1>3 DEF sa, ta

LEMMA EndsIsSuffix ==
  ASSUME NEW S, NEW s \in Seq(S), NEW t \in Seq(S), Ends(s, t)
  PROVE  IsSuffix(s, t)
<1> DEFINE rs == Reverse(s)
           rt == Reverse(t)
<1>1. /\ Len(s) \in Nat /\ Len(t) \in Nat /\ Len(s) <= Len(t)
      /\ rs \in Seq(S) /\ rt \in Seq(S)
      /\ Len(rs) = Len(s) /\ Len(rt) = Len(t)
      /\ \A n \in 1 .. Len(s) : rs[n] = s[Len(s) - n + 1]
      /\ \A n \in 1 .. Len(t) : rt[n] = t[Len(t) - n + 1]
  BY DEF Ends, Reverse
<1> HIDE DEF rs, rt
<1>2. ASSUME NEW n \in 1 .. Len(s) PROVE rs[n] = rt[n]
  <2>1. Len(s) - n + 1 \in 1 .. Len(s) /\ n \in 1 .. Len(t)
    BY <1>1
  <2>2. s[Len(s) - n + 1] = t[Len(t) - Len(s) + (Len(s) - n + 1)]
    BY <2>1 DEF Ends
  <2>3. ASSUME NEW a \in Int, NEW b \in Int, NEW c \in Int
        PROVE  b - a + (a - c + 1) = b - c + 1
    OBVIOUS
  <2>4. Len(t) - Len(s) + (Len(s) - n + 1) = Len(t) - n + 1
    BY <1>1, <2>3
  <2> QED
    BY <1>1, <2>1, <2>2, <2>4
<1>3. SubSeq(rs, 1, Len(rs)) = SubSeq(rt, 1, Len(rs))
  BY <1>1, <1>2
<1>4. IsPrefix(rs, rt)
  BY <1>1, <1>2, <1>3 DEF IsPrefix
<1> QED
  BY <1>4 DEF IsSuffix, rs, rt

LEMMA NonEmptyOfNone == NonEmpty(<< >>) = << >>
<1>1. << >> \in Seq(Texts) /\ Len(<< >>) = 0
  OBVIOUS
<1> QED
  BY <1>1, KeptUnfolds, NonEmptyIsKept

\* A line at the end of a file is read if it is not empty.
LEMMA NonEmptyAppend ==
  ASSUME NEW s \in Seq(Texts), NEW e \in Texts
  PROVE  NonEmpty(Append(s, e)) = IF e = Empty THEN NonEmpty(s) ELSE Append(NonEmpty(s), e)
<1> DEFINE a == Append(s, e)
           S == {n \in 0 .. Len(s) : KeptOf(a)[n] = KeptOf(s)[n]}
<1>1. /\ Len(s) \in Nat /\ a \in Seq(Texts) /\ Len(a) = Len(s) + 1
      /\ \A n \in 1 .. Len(s) : a[n] = s[n]
      /\ a[Len(s) + 1] = e
  OBVIOUS
<1> HIDE DEF a
<1>2. /\ KeptOf(a)[0] = << >> /\ KeptOf(s)[0] = << >>
      /\ \A n \in 1 .. Len(a) : KeptOf(a)[n] =
           IF a[n] = Empty THEN KeptOf(a)[n - 1] ELSE Append(KeptOf(a)[n - 1], a[n])
      /\ \A n \in 1 .. Len(s) : KeptOf(s)[n] =
           IF s[n] = Empty THEN KeptOf(s)[n - 1] ELSE Append(KeptOf(s)[n - 1], s[n])
  BY <1>1, KeptUnfolds
<1>3. 0 \in S
  BY <1>1, <1>2
<1>4. ASSUME NEW n \in 0 .. (Len(s) - 1), n \in S PROVE n + 1 \in S
  <2>1. n + 1 \in 1 .. Len(s) /\ n + 1 \in 1 .. Len(a) /\ (n + 1) - 1 = n
        /\ n + 1 \in 0 .. Len(s)
    BY <1>1
  <2>2. KeptOf(a)[n] = KeptOf(s)[n] /\ a[n + 1] = s[n + 1]
    BY <1>1, <1>4, <2>1
  <2>3. /\ KeptOf(a)[n + 1] =
             IF a[n + 1] = Empty THEN KeptOf(a)[n] ELSE Append(KeptOf(a)[n], a[n + 1])
        /\ KeptOf(s)[n + 1] =
             IF s[n + 1] = Empty THEN KeptOf(s)[n] ELSE Append(KeptOf(s)[n], s[n + 1])
    BY <1>2, <2>1
  <2>4. KeptOf(a)[n + 1] = KeptOf(s)[n + 1]
    BY <2>2, <2>3
  <2> QED
    BY <2>1, <2>4
<1> HIDE DEF S
<1>5. Len(s) \in S
  <2>1. \A n \in 0 .. Len(s) : n \in S
    BY <1>1, <1>3, <1>4, UpTo
  <2> QED
    BY <1>1, <2>1
<1>6. KeptOf(a)[Len(s)] = NonEmpty(s)
  BY <1>5, NonEmptyIsKept DEF S
<1>7. Len(s) + 1 \in 1 .. Len(a) /\ (Len(s) + 1) - 1 = Len(s)
  BY <1>1
<1>8. NonEmpty(a) = KeptOf(a)[Len(s) + 1]
  BY <1>1, NonEmptyIsKept
<1> QED
  BY <1>1, <1>2, <1>6, <1>7, <1>8 DEF a

\* Lines that are not empty are all read.
LEMMA NonEmptyIdentity ==
  ASSUME NEW s \in Seq(Recorded)
  PROVE  NonEmpty(s) = s
<1> DEFINE S == {n \in 0 .. Len(s) : KeptOf(s)[n] = SubSeq(s, 1, n)}
<1>1. /\ Len(s) \in Nat /\ s \in Seq(Texts) /\ SubSeq(s, 1, 0) = << >>
      /\ SubSeq(s, 1, Len(s)) = s
  BY DEF Recorded
<1>2. /\ KeptOf(s)[0] = << >>
      /\ \A n \in 1 .. Len(s) : KeptOf(s)[n] =
           IF s[n] = Empty THEN KeptOf(s)[n - 1] ELSE Append(KeptOf(s)[n - 1], s[n])
  BY <1>1, KeptUnfolds
<1>3. 0 \in S
  <2>1. 0 \in 0 .. Len(s) /\ KeptOf(s)[0] = SubSeq(s, 1, 0)
    BY <1>1, <1>2
  <2> QED
    BY <2>1
<1>4. ASSUME NEW n \in 0 .. (Len(s) - 1), n \in S PROVE n + 1 \in S
  <2>1. n + 1 \in 1 .. Len(s) /\ (n + 1) - 1 = n /\ n + 1 \in 0 .. Len(s)
    BY <1>1
  <2>2. s[n + 1] # Empty
    BY <2>1 DEF Recorded
  <2>3. KeptOf(s)[n + 1] = Append(SubSeq(s, 1, n), s[n + 1])
    BY <1>2, <1>4, <2>1, <2>2
  <2>4. Append(SubSeq(s, 1, n), s[n + 1]) = SubSeq(s, 1, n + 1)
    BY <1>1, <2>1
  <2> QED
    BY <2>1, <2>3, <2>4
<1> HIDE DEF S
<1>5. Len(s) \in S
  <2>1. \A n \in 0 .. Len(s) : n \in S
    BY <1>1, <1>3, <1>4, UpTo
  <2> QED
    BY <1>1, <2>1
<1> QED
  BY <1>1, <1>5, NonEmptyIsKept DEF S

\* Of the last lines of a file, the last lines are read.
LEMMA NonEmptyOfEnd ==
  ASSUME NEW s \in Seq(Texts), NEW t \in Seq(Texts), Ends(s, t)
  PROVE  Ends(NonEmpty(s), NonEmpty(t))
<1> DEFINE k == Len(t) - Len(s)
           S == {n \in 0 .. Len(s) : Ends(KeptOf(s)[n], KeptOf(t)[k + n])}
<1>1. /\ Len(s) \in Nat /\ Len(t) \in Nat /\ k \in Nat /\ k + Len(s) = Len(t)
      /\ \A n \in 1 .. Len(s) : s[n] = t[k + n]
  BY DEF Ends
<1> HIDE DEF k
<1>2. /\ KeptOf(s)[0] = << >>
      /\ \A n \in 1 .. Len(s) : KeptOf(s)[n] =
           IF s[n] = Empty THEN KeptOf(s)[n - 1] ELSE Append(KeptOf(s)[n - 1], s[n])
      /\ \A n \in 1 .. Len(t) : KeptOf(t)[n] =
           IF t[n] = Empty THEN KeptOf(t)[n - 1] ELSE Append(KeptOf(t)[n - 1], t[n])
  BY KeptUnfolds
<1>3. 0 \in S
  <2>1. k + 0 \in 0 .. Len(t)
    BY <1>1
  <2>2. Len(KeptOf(t)[k + 0]) \in Nat
    BY <2>1, KeptType
  <2>3. Ends(<< >>, KeptOf(t)[k + 0])
    BY <2>2 DEF Ends
  <2> QED
    BY <1>1, <1>2, <2>3
<1>4. ASSUME NEW n \in 0 .. (Len(s) - 1), n \in S PROVE n + 1 \in S
  <2>1. /\ n + 1 \in 1 .. Len(s) /\ (n + 1) - 1 = n /\ n + 1 \in 0 .. Len(s)
        /\ k + (n + 1) \in 1 .. Len(t) /\ (k + (n + 1)) - 1 = k + n
        /\ n \in 0 .. Len(s) /\ k + n \in 0 .. Len(t)
    BY <1>1
  <2> DEFINE e == s[n + 1]
             ks == KeptOf(s)[n]
             kt == KeptOf(t)[k + n]
  <2>2. e = t[k + (n + 1)] /\ e \in Texts
    BY <1>1, <2>1
  <2>3. ks \in Seq(Texts) /\ kt \in Seq(Texts) /\ Ends(ks, kt)
    BY <1>4, <2>1, KeptType DEF Recorded
  <2>4. /\ KeptOf(s)[n + 1] = IF e = Empty THEN ks ELSE Append(ks, e)
        /\ KeptOf(t)[k + (n + 1)] = IF e = Empty THEN kt ELSE Append(kt, e)
    BY <1>2, <2>1, <2>2
  <2> HIDE DEF e, ks, kt
  <2>5. Ends(Append(ks, e), Append(kt, e))
    BY <2>2, <2>3, EndsAppend
  <2>6. Ends(KeptOf(s)[n + 1], KeptOf(t)[k + (n + 1)])
    BY <2>3, <2>4, <2>5
  <2> QED
    BY <2>1, <2>6
<1> HIDE DEF S
<1>5. Len(s) \in S
  <2>1. \A n \in 0 .. Len(s) : n \in S
    BY <1>1, <1>3, <1>4, UpTo
  <2> QED
    BY <1>1, <2>1
<1> QED
  BY <1>1, <1>5, NonEmptyIsKept DEF S

-----------------------------------------------------------------------------
(* The line that a rewrite leaves.                                         *)

FlatStep(s, f) == [n \in 1 .. Len(s) |-> IF n = 1 THEN s[n] ELSE f[n - 1] \o s[n]]
FlatOf(s) == CHOOSE f : f = FlatStep(s, f)

LEMMA FlattenIsFlat ==
  ASSUME NEW s PROVE FlattenSeq(s) = IF Len(s) = 0 THEN s ELSE FlatOf(s)[Len(s)]
BY DEF FlattenSeq, FlatOf, FlatStep

LEMMA FlatUnfolds ==
  ASSUME NEW s \in Seq(Texts), Len(s) > 0
  PROVE  \A n \in 1 .. Len(s) :
           FlatOf(s)[n] = IF n = 1 THEN s[n] ELSE FlatOf(s)[n - 1] \o s[n]
<1> DEFINE Step(f, n) == IF n = 1 THEN s[n] ELSE f[n - 1] \o s[n]
           Known == {m \in 1 .. Len(s) : \E f : f = [n \in 1 .. m |-> Step(f, n)]}
<1>n. Len(s) \in Nat /\ 1 \in 1 .. Len(s) /\ Len(s) \in 1 .. Len(s)
  OBVIOUS
<1>1. 1 \in Known
  <2> DEFINE f0 == [n \in 1 .. 1 |-> s[1]]
  <2>1. f0 = [n \in 1 .. 1 |-> Step(f0, n)]
    OBVIOUS
  <2>2. \E f : f = [n \in 1 .. 1 |-> Step(f, n)]
    BY <2>1
  <2> HIDE DEF Step
  <2> QED
    BY <1>n, <2>2
<1>2. ASSUME NEW m \in 1 .. (Len(s) - 1), m \in Known PROVE m + 1 \in Known
  <2>1. PICK f : f = [n \in 1 .. m |-> Step(f, n)]
    BY <1>2
  <2> DEFINE g == [n \in 1 .. (m + 1) |-> IF n <= m THEN f[n] ELSE Step(f, n)]
  <2>2. ASSUME NEW n \in 1 .. (m + 1) PROVE g[n] = Step(g, n)
    <3>1. n <= m => f[n] = Step(f, n)
      <4> HIDE DEF Step
      <4> QED
        BY <2>1
    <3>2. g[n] = Step(f, n)
      <4>1. g[n] = IF n <= m THEN f[n] ELSE Step(f, n)
        OBVIOUS
      <4> QED
        BY <3>1, <4>1
    <3>3. CASE n = 1
      BY <3>2, <3>3
    <3>4. CASE n # 1
      <4>1. n - 1 \in 1 .. m /\ g[n - 1] = f[n - 1]
        BY <3>4
      <4> QED
        BY <3>2, <3>4, <4>1
    <3> QED
      BY <3>3, <3>4
  <2>3. g = [n \in 1 .. (m + 1) |-> Step(g, n)]
    BY <2>2
  <2>4. m + 1 \in 1 .. Len(s)
    OBVIOUS
  <2>5. \E f1 : f1 = [n \in 1 .. (m + 1) |-> Step(f1, n)]
    BY <2>3
  <2> HIDE DEF Step
  <2> QED
    BY <2>4, <2>5
<1>3. Len(s) \in Known
  <2> HIDE DEF Known
  <2>1. \A n \in 1 .. Len(s) : n \in Known
    BY <1>n, <1>1, <1>2, UpTo
  <2> QED
    BY <1>n, <2>1
<1>4. \E f : f = FlatStep(s, f)
  BY <1>3 DEF FlatStep
<1>5. FlatOf(s) = FlatStep(s, FlatOf(s))
  BY <1>4 DEF FlatOf
<1>6. \A n \in 1 .. Len(s) : FlatStep(s, FlatOf(s))[n] = Step(FlatOf(s), n)
  BY DEF FlatStep
<1> QED
  BY <1>5, <1>6

\* The lines that a rewrite joins are at least as long as they are many, and
\* one line stays itself.
LEMMA FlattenFacts ==
  ASSUME NEW s \in Seq(Recorded)
  PROVE  /\ FlattenSeq(s) \in Texts
         /\ Len(FlattenSeq(s)) >= Len(s)
         /\ Len(s) = 1 => FlattenSeq(s) = s[1]
<1>1. Len(s) \in Nat /\ s \in Seq(Texts)
  BY DEF Recorded
<1>2. CASE Len(s) = 0
  <2>1. FlattenSeq(s) = << >> /\ << >> \in Texts
    BY <1>2, FlattenIsFlat DEF Texts
  <2> QED
    BY <1>2, <2>1
<1>3. CASE Len(s) > 0
  <2> DEFINE S == {n \in 1 .. Len(s) : FlatOf(s)[n] \in Texts /\ Len(FlatOf(s)[n]) >= n}
  <2>1. \A n \in 1 .. Len(s) : s[n] \in Texts /\ Len(s[n]) >= 1
    <3> TAKE n \in 1 .. Len(s)
    <3>1. s[n] \in Texts /\ s[n] # << >>
      BY DEF Recorded, Empty
    <3> QED
      BY <3>1 DEF Texts
  <2>2. \A n \in 1 .. Len(s) :
           FlatOf(s)[n] = IF n = 1 THEN s[n] ELSE FlatOf(s)[n - 1] \o s[n]
    BY <1>1, <1>3, FlatUnfolds
  <2>3. 1 \in 1 .. Len(s) /\ Len(s) \in 1 .. Len(s)
    BY <1>1, <1>3
  <2>4. 1 \in S
    BY <2>1, <2>2, <2>3
  <2>5. ASSUME NEW n \in 1 .. (Len(s) - 1), n \in S PROVE n + 1 \in S
    <3>1. n + 1 \in 1 .. Len(s) /\ (n + 1) - 1 = n /\ n + 1 # 1
      BY <1>1
    <3>2. FlatOf(s)[n + 1] = FlatOf(s)[n] \o s[n + 1]
      BY <2>2, <3>1
    <3>3. /\ FlatOf(s)[n] \in Texts /\ Len(FlatOf(s)[n]) >= n
          /\ s[n + 1] \in Texts /\ Len(s[n + 1]) >= 1
      BY <2>1, <2>5, <3>1
    <3>4. /\ FlatOf(s)[n + 1] \in Texts
          /\ Len(FlatOf(s)[n + 1]) = Len(FlatOf(s)[n]) + Len(s[n + 1])
      BY <3>2, <3>3 DEF Texts
    <3>5. Len(FlatOf(s)[n]) \in Nat /\ Len(s[n + 1]) \in Nat
      BY <3>3 DEF Texts
    <3>6. ASSUME NEW a \in Nat, NEW b \in Nat, a >= n, b >= 1
          PROVE  a + b >= n + 1
      BY <1>1, <3>6
    <3>7. Len(FlatOf(s)[n + 1]) >= n + 1
      BY <3>3, <3>4, <3>5, <3>6
    <3> QED
      BY <3>1, <3>4, <3>7
  <2> HIDE DEF S
  <2>6. \A n \in 1 .. Len(s) : n \in S
    BY <1>1, <2>3, <2>4, <2>5, UpTo
  <2>7. FlattenSeq(s) = FlatOf(s)[Len(s)]
    BY <1>3, FlattenIsFlat
  <2>8. Len(s) = 1 => FlattenSeq(s) = s[1]
    BY <2>2, <2>3, <2>7
  <2> QED
    BY <2>3, <2>6, <2>7, <2>8 DEF S
<1> QED
  BY <1>1, <1>2, <1>3

-----------------------------------------------------------------------------
(* The operations of the list.                                             *)

LEMMA NewestFacts ==
  ASSUME NEW S, NEW q \in Seq(S), NEW n \in Nat, NEW gone \in Nat, Len(q) = gone + n
  PROVE  /\ Newest(q, n) \in Seq(S) /\ Len(Newest(q, n)) = n
         /\ \A j \in 1 .. n : Newest(q, n)[j] = q[j + gone]
<1>1. CASE gone = 0
  <2>1. Newest(q, n) = q /\ Len(q) = n /\ \A j \in 1 .. n : j + gone = j
    BY <1>1 DEF Newest
  <2> QED
    BY <2>1
<1>2. CASE gone # 0
  <2> DEFINE len == Len(q)
  <2>1. len \in Nat /\ len = gone + n
    OBVIOUS
  <2>2. Newest(q, n) = IF len <= n THEN q ELSE SubSeq(q, len - n + 1, len)
    BY DEF Newest
  <2> HIDE DEF len
  <2>3. ~(len <= n) /\ len - n + 1 = gone + 1
    BY <1>2, <2>1
  <2>4. Newest(q, n) = SubSeq(q, gone + 1, len)
    BY <2>2, <2>3
  <2> QED
    BY <2>1, <2>4 DEF len
<1> QED
  BY <1>1, <1>2

LEMMA NewestOfTexts ==
  \A q \in Seq(Texts), n \in Nat, gone \in Nat :
    Len(q) = gone + n =>
      /\ Newest(q, n) \in Seq(Texts) /\ Len(Newest(q, n)) = n
      /\ \A j \in 1 .. n : Newest(q, n)[j] = q[j + gone]
BY NewestFacts

LEMMA CompactFacts ==
  ASSUME NEW g, Sound(g), NEW gone \in Nat, NEW len \in Nat,
         len = Len(g.items), gone = IF len > Limit THEN len - Limit ELSE 0,
         gone = 0 \/ g.cur > gone
  PROVE  /\ Sound(Compact(g))
         /\ Len(Compact(g).items) = len - gone
         /\ Compact(g).cur = g.cur - gone
         /\ Compact(g).bumped = g.bumped
         /\ \A j \in 1 .. (len - gone) : Compact(g).items[j] = g.items[j + gone]
<1>a. Limit \in Nat /\ Limit >= 2
  BY HistoryAssumption
<1> DEFINE q == g.items
           c == Compact(g)
<1>1. /\ g \in Lists /\ q \in Seq(Items) /\ Len(q) = len
      /\ g.cur \in Nat /\ g.bumped \in BOOLEAN
  BY DEF Sound, Lists
<1>2. c = IF len - Limit <= 0 THEN g
          ELSE [g EXCEPT !.items = Newest(q, Limit),
                         !.cur = IF g.cur = 0 THEN 0 ELSE g.cur - (len - Limit)]
  BY <1>1 DEF Compact
<1>3. CASE gone = 0
  <2>1. len - Limit <= 0
    BY <1>a, <1>3
  <2>2. c = g
    BY <1>2, <2>1
  <2>3. g.cur - gone = g.cur /\ len - gone = len /\ \A j \in 1 .. len : j + gone = j
    BY <1>1, <1>3
  <2> QED
    BY <1>1, <2>2, <2>3
<1>4. CASE gone # 0
  <2> DEFINE kept == Newest(q, Limit)
             last == g.cur - gone
  <2>1. /\ ~(len - Limit <= 0) /\ gone = len - Limit /\ len = gone + Limit
        /\ len - gone = Limit /\ g.cur # 0 /\ last \in Nat /\ last >= 1
    BY <1>a, <1>1, <1>4
  <2>2. q # << >>
    BY <1>1, <1>4, <1>a, <2>1
  <2>3. g.cur \in 1 .. len
    BY <1>1, <2>2 DEF Sound
  <2>4. last \in 1 .. Limit
    BY <1>a, <2>1, <2>3
  <2>5. c = [g EXCEPT !.items = kept, !.cur = last]
    BY <1>2, <2>1
  <2>6. /\ kept \in Seq(Items) /\ Len(kept) = Limit
        /\ \A j \in 1 .. Limit : kept[j] = q[j + gone]
    <3>1. Len(q) = gone + Limit
      BY <1>1, <2>1
    <3> HIDE DEF q
    <3> QED
      BY <1>a, <1>1, <3>1, NewestFacts, ZenonT(40)
  <2>7. kept # << >>
    BY <1>a, <2>6
  <2> HIDE DEF kept, last, c, q
  <2>8. /\ c.items = kept /\ c.cur = last /\ c.bumped = g.bumped /\ c \in Lists
    BY <1>1, <2>1, <2>5, <2>6 DEF Lists
  <2>9. Sound(c)
    BY <2>4, <2>6, <2>7, <2>8 DEF Sound
  <2> QED
    BY <2>1, <2>6, <2>8, <2>9 DEF c, last, q
<1> QED
  BY <1>3, <1>4

LEMMA PushFacts ==
  ASSUME NEW g, Sound(g), NEW s \in Texts, NEW len \in Nat, len = Len(g.items)
  PROVE  /\ Sound(Push(g, s))
         /\ Len(Push(g, s).items) = len + 1
         /\ Push(g, s).cur = len + 1
         /\ Push(g, s).bumped = g.bumped
         /\ \A j \in 1 .. len : Push(g, s).items[j] = g.items[j]
         /\ Push(g, s).items[len + 1] = Item(s, ~g.bumped)
<1> DEFINE p == Push(g, s)
           q == g.items
           e == Item(s, ~g.bumped)
           longer == Append(q, e)
           next == len + 1
<1>1. /\ g \in Lists /\ q \in Seq(Items) /\ Len(q) = len
      /\ g.cur \in Nat /\ g.bumped \in BOOLEAN
  BY DEF Sound, Lists
<1>2. e \in Items
  BY <1>1 DEF Item, Items, Texts, Empty
<1>3. p = [g EXCEPT !.items = longer, !.cur = next] /\ next \in Nat
  BY <1>1 DEF Push
<1> HIDE DEF p, q, e
<1>4. /\ longer \in Seq(Items) /\ Len(longer) = len + 1 /\ longer # << >>
      /\ \A j \in 1 .. len : longer[j] = q[j]
      /\ longer[len + 1] = e
  BY <1>1, <1>2
<1> HIDE DEF longer, next
<1>5. /\ p.items = longer /\ p.cur = next /\ p.bumped = g.bumped /\ p \in Lists
  BY <1>1, <1>3, <1>4 DEF Lists
<1>6. Sound(p)
  <2>1. len + 1 \in 1 .. (len + 1)
    OBVIOUS
  <2> QED
    BY <1>4, <1>5, <2>1 DEF Sound, next
<1> QED
  BY <1>4, <1>5, <1>6 DEF p, q, e, next

LEMMA BumpFacts ==
  ASSUME NEW g, Sound(g), NEW len \in Nat, len = Len(g.items)
  PROVE  /\ Sound(Bump(g))
         /\ Len(Bump(g).items) = len
         /\ Bump(g).cur = g.cur
         /\ Bump(g).bumped
         /\ \A j \in 1 .. len : /\ Bump(g).items[j].src = g.items[j].src
                                /\ Bump(g).items[j].tmp = g.items[j].tmp
                                /\ ~Bump(g).items[j].live
<1> DEFINE b == Bump(g)
           q == g.items
           aged == [j \in 1 .. len |-> [q[j] EXCEPT !.live = FALSE]]
<1>1. /\ g \in Lists /\ q \in Seq(Items) /\ Len(q) = len
      /\ g.cur \in Nat /\ g.bumped \in BOOLEAN /\ DOMAIN q = 1 .. len
  BY DEF Sound, Lists
<1>2. b = [g EXCEPT !.items = aged, !.bumped = TRUE]
  BY <1>1 DEF Bump
<1>3. ASSUME NEW j \in 1 .. len
      PROVE  /\ aged[j] \in Items /\ aged[j].live = FALSE
             /\ aged[j].src = q[j].src /\ aged[j].tmp = q[j].tmp
  <2>1. q[j] \in Items /\ aged[j] = [q[j] EXCEPT !.live = FALSE]
    BY <1>1
  <2> HIDE DEF aged
  <2> QED
    BY <2>1 DEF Items
<1>4. DOMAIN aged = 1 .. len /\ aged = [j \in 1 .. len |-> aged[j]]
  OBVIOUS
<1> HIDE DEF b, aged, q
<1>5. aged \in [1 .. len -> Items]
  BY <1>3, <1>4
<1>6. aged \in Seq(Items) /\ Len(aged) = len
  BY <1>5
<1>7. /\ b.items = aged /\ b.cur = g.cur /\ b.bumped = TRUE /\ b \in Lists
  BY <1>1, <1>2, <1>6 DEF Lists
<1>8. Sound(b)
  <2>1. aged = << >> <=> q = << >>
    BY <1>1, <1>6
  <2> QED
    BY <1>1, <1>6, <1>7, <2>1 DEF Sound, q
<1> QED
  BY <1>3, <1>6, <1>7, <1>8 DEF b, q

\* Update and Commit of a list with a current item, before they compact it.
MarkTmp(g, s) == [g EXCEPT !.items[g.cur].tmp = s, !.items[g.cur].live = TRUE]
MarkSrc(g, s) == [g EXCEPT !.items[g.cur].src = s, !.items[g.cur].live = TRUE]

SetItem(g, item) == [g EXCEPT !.items = [g.items EXCEPT ![g.cur] = item]]

LEMMA SetItemFacts ==
  ASSUME NEW g, Sound(g), g.items # << >>, NEW item \in Items,
         NEW len \in Nat, len = Len(g.items)
  PROVE  /\ Sound(SetItem(g, item)) /\ SetItem(g, item) \in Lists
         /\ Len(SetItem(g, item).items) = len
         /\ SetItem(g, item).items # << >>
         /\ SetItem(g, item).cur = g.cur /\ SetItem(g, item).bumped = g.bumped
         /\ \A j \in 1 .. len : SetItem(g, item).items[j] = IF j = g.cur THEN item ELSE g.items[j]
<1> DEFINE m == SetItem(g, item)
           q == g.items
           r == [q EXCEPT ![g.cur] = item]
<1>1. /\ g \in Lists /\ q \in Seq(Items) /\ Len(q) = len /\ q # << >>
      /\ g.cur \in 1 .. len /\ g.cur \in Nat /\ g.bumped \in BOOLEAN
  BY DEF Sound, Lists
<1>2. m = [g EXCEPT !.items = r]
  BY DEF SetItem
<1>3. /\ r \in Seq(Items) /\ Len(r) = len /\ r # << >>
      /\ \A j \in 1 .. len : r[j] = IF j = g.cur THEN item ELSE q[j]
  BY <1>1
<1> HIDE DEF m, r, q
<1>4. /\ m.items = r /\ m.cur = g.cur /\ m.bumped = g.bumped /\ m \in Lists
  BY <1>1, <1>2, <1>3 DEF Lists
<1>5. Sound(m)
  BY <1>1, <1>3, <1>4 DEF Sound
<1> QED
  BY <1>3, <1>4, <1>5 DEF m, q

\* One EXCEPT after another at the same item.
LEMMA SetItemTwice ==
  ASSUME NEW g \in Lists, NEW i1, NEW i2, g.cur \in DOMAIN g.items
  PROVE  /\ SetItem(SetItem(g, i1), i2) = SetItem(g, i2)
         /\ SetItem(g, i1).items[SetItem(g, i1).cur] = i1
<1> DEFINE q == g.items
           r == [q EXCEPT ![g.cur] = i1]
           m == [g EXCEPT !.items = r]
<1>1. m.items = r /\ m.cur = g.cur /\ r[g.cur] = i1
  BY DEF Lists
<1>2. [r EXCEPT ![g.cur] = i2] = [q EXCEPT ![g.cur] = i2]
  OBVIOUS
<1>3. SetItem(m, i2) = [m EXCEPT !.items = [r EXCEPT ![g.cur] = i2]]
  BY <1>1 DEF SetItem
<1> HIDE DEF r
<1>4. [m EXCEPT !.items = [r EXCEPT ![g.cur] = i2]] = [g EXCEPT !.items = [r EXCEPT ![g.cur] = i2]]
  BY DEF Lists
<1>5. SetItem(g, i1) = m
  BY DEF SetItem, r
<1> HIDE DEF m
<1> QED
  BY <1>1, <1>2, <1>3, <1>4, <1>5 DEF SetItem

LEMMA MarkTmpIsSetItem ==
  ASSUME NEW g, Sound(g), g.items # << >>, NEW s \in Texts
  PROVE  \E item \in Items :
           /\ MarkTmp(g, s) = SetItem(g, item)
           /\ item.src = g.items[g.cur].src /\ item.tmp = s /\ item.live
<1> DEFINE x == g.items[g.cur]
           i1 == [x EXCEPT !.tmp = s]
           i2 == [i1 EXCEPT !.live = TRUE]
           m == SetItem(g, i1)
<1>1. g \in Lists /\ g.cur \in DOMAIN g.items /\ x \in Items
  BY DEF Sound, Lists
<1>2. /\ i2 \in Items /\ i2.src = x.src /\ i2.tmp = s /\ i2.live = TRUE
  BY <1>1 DEF Items
<1>3. m.items[m.cur] = i1 /\ SetItem(m, i2) = SetItem(g, i2)
  BY <1>1, SetItemTwice
<1>4. MarkTmp(g, s) = SetItem(m, [m.items[m.cur] EXCEPT !.live = TRUE])
  BY <1>1 DEF MarkTmp, SetItem, Lists
<1> QED
  BY <1>2, <1>3, <1>4

LEMMA MarkSrcIsSetItem ==
  ASSUME NEW g, Sound(g), g.items # << >>, NEW s \in Texts
  PROVE  \E item \in Items : MarkSrc(g, s) = SetItem(g, item) /\ item.src = s
<1> DEFINE x == g.items[g.cur]
           i1 == [x EXCEPT !.src = s]
           i2 == [i1 EXCEPT !.live = TRUE]
           m == SetItem(g, i1)
<1>1. g \in Lists /\ g.cur \in DOMAIN g.items /\ x \in Items
  BY DEF Sound, Lists
<1>2. i2 \in Items /\ i2.src = s
  BY <1>1 DEF Items
<1>3. m.items[m.cur] = i1 /\ SetItem(m, i2) = SetItem(g, i2)
  BY <1>1, SetItemTwice
<1>4. MarkSrc(g, s) = SetItem(m, [m.items[m.cur] EXCEPT !.live = TRUE])
  BY <1>1 DEF MarkSrc, SetItem, Lists
<1> QED
  BY <1>2, <1>3, <1>4

Over(len) == IF len > Limit THEN 1 ELSE 0

\* Update shows the text at the cursor, and may forget the oldest item.
LEMMA UpdateFacts ==
  ASSUME NEW g, Sound(g), g.items # << >>, NEW s \in Texts,
         NEW len \in Nat, len = Len(g.items), len <= Limit + 1,
         len = Limit + 1 => g.cur >= 2
  PROVE  LET u == Update(g, s)
             gone == Over(len)
         IN  /\ Sound(u) /\ Len(u.items) = len - gone
             /\ u.cur = g.cur - gone /\ u.bumped = g.bumped
             /\ u.cur \in 1 .. (len - gone)
             /\ u.items[u.cur].tmp = s /\ u.items[u.cur].live
             /\ \A j \in 1 .. (len - gone) : u.items[j].src = g.items[j + gone].src
<1> DEFINE u == Update(g, s)
           gone == Over(len)
           m == MarkTmp(g, s)
<1>a. Limit \in Nat /\ Limit >= 2
  BY HistoryAssumption
<1>1. /\ gone \in Nat /\ gone = IF len > Limit THEN len - Limit ELSE 0
      /\ gone = 0 \/ g.cur > gone
      /\ g.cur \in 1 .. len /\ g.cur # 0
  <2>1. g.cur \in 1 .. len
    BY DEF Sound
  <2> QED
    BY <1>a, <2>1 DEF Over
<1>2. u = Compact(m)
  BY <1>1 DEF Update, MarkTmp
<1>3. PICK item \in Items : /\ m = SetItem(g, item)
                            /\ item.src = g.items[g.cur].src /\ item.tmp = s /\ item.live
  BY MarkTmpIsSetItem
<1> HIDE DEF gone, m, u
<1>4. /\ Sound(m) /\ Len(m.items) = len /\ m.cur = g.cur /\ m.bumped = g.bumped
      /\ \A j \in 1 .. len : m.items[j] = IF j = g.cur THEN item ELSE g.items[j]
  BY <1>3, SetItemFacts
<1>5. /\ Sound(u) /\ Len(u.items) = len - gone /\ u.cur = g.cur - gone /\ u.bumped = g.bumped
      /\ \A j \in 1 .. (len - gone) : u.items[j] = m.items[j + gone]
  <2>1. len = Len(m.items) /\ (gone = 0 \/ m.cur > gone)
    BY <1>1, <1>4
  <2>2. /\ Sound(Compact(m)) /\ Len(Compact(m).items) = len - gone
        /\ Compact(m).cur = m.cur - gone /\ Compact(m).bumped = m.bumped
        /\ \A j \in 1 .. (len - gone) : Compact(m).items[j] = m.items[j + gone]
    BY <1>1, <1>4, <2>1, CompactFacts, SMTT(40)
  <2> QED
    BY <1>2, <1>4, <2>2
<1>6. u.cur \in 1 .. (len - gone) /\ u.cur + gone = g.cur
  <2>1. u.cur = g.cur - gone
    BY <1>5
  <2> QED
    BY <1>1, <2>1
<1>7. u.items[u.cur] = item
  BY <1>1, <1>4, <1>5, <1>6
<1>8. ASSUME NEW j \in 1 .. (len - gone) PROVE u.items[j].src = g.items[j + gone].src
  <2>1. j + gone \in 1 .. len
    BY <1>1
  <2> QED
    BY <1>3, <1>4, <1>5, <2>1
<1> QED
  BY <1>3, <1>5, <1>6, <1>7, <1>8 DEF gone, u

\* An empty list has no current item: Update pushes one.
LEMMA UpdateOfNone ==
  ASSUME NEW g, Sound(g), g.items = << >>, NEW s \in Texts
  PROVE  LET u == Update(g, s)
         IN  Sound(u) /\ Len(u.items) = 1 /\ u.cur = 1
<1> DEFINE p == Push(g, s)
<1>a. Limit \in Nat /\ Limit >= 2
  BY HistoryAssumption
<1>1. g.cur = 0 /\ Len(g.items) = 0
  BY DEF Sound
<1>2. Update(g, s) = Compact(p)
  BY <1>1 DEF Update
<1>3. Sound(p) /\ Len(p.items) = 1 /\ p.cur = 1
  <2>1. 0 + 1 = 1
    OBVIOUS
  <2> HIDE DEF p
  <2> QED
    BY <1>1, <2>1, PushFacts DEF p
<1> HIDE DEF p
<1>4. Compact(p) = p
  <2>1. Len(p.items) - Limit <= 0
    BY <1>a, <1>3
  <2> QED
    BY <2>1 DEF Compact
<1> QED
  BY <1>2, <1>3, <1>4

\* Commit records the text as the source of the last item.
LEMMA CommitFacts ==
  ASSUME NEW g, Sound(g), g.items # << >>, NEW s \in Texts,
         NEW len \in Nat, len = Len(g.items), len <= Limit + 1, g.cur = len
  PROVE  LET c == Commit(g, s)
             gone == Over(len)
         IN  /\ Sound(c) /\ Len(c.items) = len - gone
             /\ c.cur = len - gone /\ c.bumped = g.bumped
             /\ \A j \in 1 .. (len - gone) :
                  c.items[j].src = IF j + gone = len THEN s ELSE g.items[j + gone].src
<1> DEFINE c == Commit(g, s)
           gone == Over(len)
           m == MarkSrc(g, s)
<1>a. Limit \in Nat /\ Limit >= 2
  BY HistoryAssumption
<1>1. /\ gone \in Nat /\ gone = IF len > Limit THEN len - Limit ELSE 0
      /\ gone = 0 \/ g.cur > gone
      /\ g.cur \in 1 .. len /\ g.cur # 0
  <2>1. g.cur \in 1 .. len
    BY DEF Sound
  <2> QED
    BY <1>a, <2>1 DEF Over
<1>2. c = Compact(m)
  BY <1>1 DEF Commit, MarkSrc
<1>3. PICK item \in Items : m = SetItem(g, item) /\ item.src = s
  BY MarkSrcIsSetItem
<1> HIDE DEF gone, m, c
<1>4. /\ Sound(m) /\ Len(m.items) = len /\ m.cur = g.cur /\ m.bumped = g.bumped
      /\ \A j \in 1 .. len : m.items[j] = IF j = g.cur THEN item ELSE g.items[j]
  BY <1>3, SetItemFacts
<1>5. /\ Sound(c) /\ Len(c.items) = len - gone /\ c.cur = g.cur - gone /\ c.bumped = g.bumped
      /\ \A j \in 1 .. (len - gone) : c.items[j] = m.items[j + gone]
  <2>1. len = Len(m.items) /\ (gone = 0 \/ m.cur > gone)
    BY <1>1, <1>4
  <2>2. /\ Sound(Compact(m)) /\ Len(Compact(m).items) = len - gone
        /\ Compact(m).cur = m.cur - gone /\ Compact(m).bumped = m.bumped
        /\ \A j \in 1 .. (len - gone) : Compact(m).items[j] = m.items[j + gone]
    BY <1>1, <1>4, <2>1, CompactFacts, SMTT(40)
  <2> QED
    BY <1>2, <1>4, <2>2
<1>6. ASSUME NEW j \in 1 .. (len - gone)
      PROVE  c.items[j].src = IF j + gone = len THEN s ELSE g.items[j + gone].src
  <2>1. j + gone \in 1 .. len
    BY <1>1
  <2> QED
    BY <1>3, <1>4, <1>5, <2>1
<1> QED
  BY <1>5, <1>6 DEF gone, c

LEMMA AtBackFacts ==
  ASSUME NEW g, Sound(g), g.items # << >>, NEW len \in Nat, len = Len(g.items)
  PROVE  /\ Sound(AtBack(g)) /\ AtBack(g).items = g.items
         /\ AtBack(g).cur = len /\ AtBack(g).bumped = g.bumped
         /\ len \in 1 .. len
<1>1. /\ g \in Lists /\ g.items \in Seq(Items) /\ len >= 1
  BY DEF Sound, Lists
<1>2. AtBack(g) = [g EXCEPT !.cur = len]
  BY <1>1 DEF AtBack
<1>3. /\ AtBack(g).items = g.items /\ AtBack(g).cur = len /\ AtBack(g).bumped = g.bumped
      /\ AtBack(g) \in Lists
  BY <1>1, <1>2 DEF Lists
<1> QED
  BY <1>1, <1>3 DEF Sound

\* The last item is emptied, with what was typed into it.
LEMMA ClearedFacts ==
  ASSUME NEW g, Sound(g), g.items # << >>, NEW len \in Nat, len = Len(g.items)
  PROVE  /\ Sound(Cleared(g)) /\ Cleared(g).items # << >>
         /\ Len(Cleared(g).items) = len /\ Cleared(g).cur = len
         /\ \A j \in 1 .. len :
              Cleared(g).items[j].src = IF j = len THEN Empty ELSE g.items[j].src
<1> DEFINE a == AtBack(g)
           item == Item(Empty, g.items[len].live)
           k == SetItem(a, item)
<1>1. /\ Sound(a) /\ a.items = g.items /\ a.cur = len /\ len \in 1 .. len
      /\ g.items \in Seq(Items) /\ g.items[len] \in Items
  BY AtBackFacts DEF Sound, Lists
<1>2. item \in Items /\ item.src = Empty
  BY <1>1 DEF Item, Items, Texts, Empty
<1>3. Cleared(g) = Bump(k)
  BY <1>1 DEF Cleared, SetItem, Item
<1> HIDE DEF a, item, k
<1>4. /\ Sound(k) /\ Len(k.items) = len /\ k.cur = len
      /\ \A j \in 1 .. len : k.items[j] = IF j = len THEN item ELSE g.items[j]
  BY <1>1, <1>2, SetItemFacts DEF k
<1>5. /\ Sound(Bump(k)) /\ Len(Bump(k).items) = len /\ Bump(k).cur = k.cur
      /\ \A j \in 1 .. len : Bump(k).items[j].src = k.items[j].src
  BY <1>4, BumpFacts
<1>6. Bump(k).items # << >>
  BY <1>1, <1>4, <1>5 DEF Sound
<1> QED
  BY <1>2, <1>3, <1>4, <1>5, <1>6

\* A line that is nothing new: the list is as it was, but for the last item.
LEMMA SubmitNothing ==
  ASSUME NEW g, Sound(g), NEW s \in Texts, Nothing(g, s),
         NEW len \in Nat, len = Len(g.items), len <= Limit + 1
  PROVE  LET u == Update(New(g, s), Empty)
             gone == Over(len)
         IN  /\ Sound(u) /\ Len(u.items) = len - gone /\ len - gone >= 1
             /\ u.cur = len - gone
             /\ u.items[u.cur].tmp = Empty /\ u.items[u.cur].live
             /\ u.items[u.cur].src = Empty
             /\ \A j \in 1 .. (len - gone - 1) : u.items[j].src = g.items[j + gone].src
<1> DEFINE u == Update(New(g, s), Empty)
           gone == Over(len)
           n == Cleared(g)
<1>a. Limit \in Nat /\ Limit >= 2
  BY HistoryAssumption
<1>1. len > 0 /\ g.items # << >> /\ New(g, s) = n
  <2>1. len > 0
    BY DEF Nothing
  <2> QED
    BY <2>1 DEF New
<1>2. gone \in {0, 1} /\ len - gone >= 1
  BY <1>a, <1>1 DEF Over
<1>3. Empty \in Texts
  BY DEF Empty, Texts
<1> HIDE DEF n
<1>4. /\ Sound(n) /\ n.items # << >> /\ Len(n.items) = len /\ n.cur = len
      /\ \A j \in 1 .. len : n.items[j].src = IF j = len THEN Empty ELSE g.items[j].src
  BY <1>1, ClearedFacts DEF n
<1>5. len = Limit + 1 => n.cur >= 2
  BY <1>a, <1>4
<1>6. /\ Sound(u) /\ Len(u.items) = len - gone
      /\ u.cur = n.cur - gone
      /\ u.items[u.cur].tmp = Empty /\ u.items[u.cur].live
      /\ \A j \in 1 .. (len - gone) : u.items[j].src = n.items[j + gone].src
  BY <1>1, <1>3, <1>4, <1>5, UpdateFacts
<1> HIDE DEF u, gone
<1>7. u.cur = len - gone /\ len - gone \in 1 .. (len - gone) /\ (len - gone) + gone = len
      /\ len \in 1 .. len
  BY <1>1, <1>2, <1>4, <1>6
<1>8. u.items[u.cur].src = Empty
  BY <1>4, <1>6, <1>7
<1>9. ASSUME NEW j \in 1 .. (len - gone - 1) PROVE u.items[j].src = g.items[j + gone].src
  <2>1. j \in 1 .. (len - gone) /\ j + gone \in 1 .. len /\ j + gone # len
    BY <1>2
  <2> QED
    BY <1>4, <1>6, <2>1
<1> QED
  BY <1>2, <1>6, <1>7, <1>8, <1>9 DEF u, gone

\* A new line becomes the one before last, and the oldest may be forgotten.
Added(u, g, len, moved, gone) ==
  /\ gone = IF len < Limit THEN 0 ELSE len - Limit + 1
  /\ Sound(u) /\ Len(u.items) = len + 1 - gone
  /\ u.cur = len + 1 - gone
  /\ u.items[u.cur].tmp = Empty /\ u.items[u.cur].live
  /\ u.items[u.cur].src = Empty
  /\ \A j \in 1 .. (len - gone) :
       u.items[j].src = IF j + gone = len THEN moved ELSE g.items[j + gone].src

LEMMA SubmitNew ==
  ASSUME NEW g, Sound(g), g.items # << >>, NEW s \in Texts, ~Nothing(g, s),
         NEW len \in Nat, len = Len(g.items), len <= Limit + 1,
         NEW moved \in Texts, moved = Moved(g, s)
  PROVE  \E gone \in Nat : Added(Update(New(g, s), Empty), g, len, moved, gone)
<1> DEFINE u == Update(New(g, s), Empty)
           a == AtBack(g)
           c == Commit(a, moved)
           b == Bump(c)
           p == Push(b, Empty)
<1>a. Limit \in Nat /\ Limit >= 2
  BY HistoryAssumption
<1>1. /\ Sound(a) /\ a.items = g.items /\ a.cur = len /\ len \in 1 .. len
  BY AtBackFacts
<1>f. PICK first \in {0, 1} : first = Over(len) /\ first = IF len > Limit THEN 1 ELSE 0
  BY DEF Over
<1>m. PICK mid \in Nat : mid = len - first /\ mid >= 1 /\ mid <= Limit
  BY <1>a, <1>1, <1>f
<1>s. PICK second \in {0, 1} : second = Over(mid + 1) /\ second = IF mid + 1 > Limit THEN 1 ELSE 0
  BY DEF Over
<1>d. PICK gone \in Nat : gone = first + second
  OBVIOUS
<1>2. /\ gone = IF len < Limit THEN 0 ELSE len - Limit + 1
      /\ mid + first = len /\ mid + 1 <= Limit + 1
  <2>1. CASE len = Limit + 1
    <3>1. first = 1 /\ mid = Limit
      BY <1>a, <1>f, <1>m, <2>1
    <3>2. second = 1
      BY <1>a, <1>s, <3>1
    <3> QED
      BY <1>a, <1>d, <2>1, <3>1, <3>2
  <2>2. CASE len = Limit
    <3>1. first = 0 /\ mid = Limit
      BY <1>a, <1>f, <1>m, <2>2
    <3>2. second = 1
      BY <1>a, <1>s, <3>1
    <3> QED
      BY <1>a, <1>d, <2>2, <3>1, <3>2
  <2>3. CASE len < Limit
    <3>0. first = 0
      BY <1>a, <1>f, <2>3
    <3>1. first = 0 /\ mid = len
      BY <1>m, <3>0
    <3>2. second = 0
      BY <1>a, <1>s, <2>3, <3>1
    <3> QED
      BY <1>a, <1>d, <2>3, <3>1, <3>2
  <2> QED
    BY <1>a, <2>1, <2>2, <2>3
<1>3. Empty \in Texts
  BY DEF Empty, Texts
<1>4. New(g, s) = p
  BY DEF New
<1> HIDE DEF u, a, c, b, p
<1>5. /\ Sound(c) /\ Len(c.items) = mid
      /\ \A j \in 1 .. mid :
           c.items[j].src = IF j + first = len THEN moved ELSE g.items[j + first].src
  <2>1. a.items # << >> /\ len = Len(a.items)
    BY <1>1
  <2>2. /\ Sound(c) /\ Len(c.items) = len - Over(len)
        /\ \A j \in 1 .. (len - Over(len)) : c.items[j].src =
             IF j + Over(len) = len THEN moved ELSE a.items[j + Over(len)].src
    BY <1>1, <2>1, CommitFacts DEF c
  <2> QED
    BY <1>1, <1>f, <1>m, <2>2
<1>6. /\ Sound(b) /\ Len(b.items) = mid
      /\ \A j \in 1 .. mid : b.items[j].src = c.items[j].src
  BY <1>2, <1>5, BumpFacts DEF b
<1>7. /\ Sound(p) /\ Len(p.items) = mid + 1 /\ p.cur = mid + 1
      /\ \A j \in 1 .. mid : p.items[j] = b.items[j]
      /\ p.items[mid + 1] = Item(Empty, ~b.bumped)
  BY <1>2, <1>3, <1>6, PushFacts DEF p
<1>8. p.items # << >> /\ p.items[mid + 1].src = Empty
      /\ (mid + 1 = Limit + 1 => p.cur >= 2) /\ mid + 1 \in Nat
  BY <1>a, <1>2, <1>7 DEF Item
<1>9. /\ Sound(u) /\ Len(u.items) = mid + 1 - second
      /\ u.cur = p.cur - second
      /\ u.items[u.cur].tmp = Empty /\ u.items[u.cur].live
      /\ \A j \in 1 .. (mid + 1 - second) : u.items[j].src = p.items[j + second].src
  <2>1. PICK n \in Nat : n = mid + 1
    OBVIOUS
  <2>2. n = Len(p.items) /\ n <= Limit + 1 /\ (n = Limit + 1 => p.cur >= 2)
    BY <1>2, <1>7, <1>8, <2>1
  <2>3. /\ Sound(u) /\ Len(u.items) = n - Over(n)
        /\ u.cur = p.cur - Over(n)
        /\ u.items[u.cur].tmp = Empty /\ u.items[u.cur].live
        /\ \A j \in 1 .. (n - Over(n)) : u.items[j].src = p.items[j + Over(n)].src
    BY <1>3, <1>4, <1>7, <1>8, <2>2, UpdateFacts DEF u
  <2> QED
    BY <1>s, <2>1, <2>3
<1>10. /\ mid + 1 - second = len + 1 - gone /\ u.cur = len + 1 - gone
       /\ len + 1 - gone \in 1 .. (mid + 1 - second)
       /\ (len + 1 - gone) + second = mid + 1
  <2>1. u.cur = mid + 1 - second
    BY <1>7, <1>9
  <2>2. mid + 1 - second = len + 1 - gone /\ mid + 1 - second >= 1
    BY <1>2, <1>m, <1>d, SMTT(40)
  <2> QED
    BY <1>2, <1>m, <1>d, <2>1, <2>2
<1>11. u.items[u.cur].src = Empty
  BY <1>8, <1>9, <1>10
<1>12. ASSUME NEW j \in 1 .. (len - gone)
       PROVE  u.items[j].src = IF j + gone = len THEN moved ELSE g.items[j + gone].src
  <2>1. /\ j \in 1 .. (mid + 1 - second) /\ j + second \in 1 .. mid
        /\ (j + second) + first = j + gone
    BY <1>2, <1>m, <1>d, SMTT(40)
  <2>2. u.items[j].src = p.items[j + second].src
    BY <1>9, <2>1
  <2>3. p.items[j + second].src = c.items[j + second].src
    BY <1>6, <1>7, <2>1
  <2> QED
    BY <1>5, <2>1, <2>2, <2>3
<1>13. Added(u, g, len, moved, gone)
  BY <1>2, <1>9, <1>10, <1>11, <1>12 DEF Added
<1> QED
  BY <1>13 DEF u

\* The first line of a session without a file: nothing was current before.
LEMMA SubmitFirst ==
  ASSUME NEW g, Sound(g), g.items = << >>, NEW s \in Texts, ~Nothing(g, s)
  PROVE  LET u == Update(New(g, s), Empty)
         IN  Sound(u) /\ Len(u.items) = 2 /\ u.cur = 2
<1> DEFINE a == AtBack(g)
           q == Push(a, s)
           b == Bump(q)
           p == Push(b, Empty)
           u == Update(p, Empty)
<1>a. Limit \in Nat /\ Limit >= 2
  BY HistoryAssumption
<1>1. /\ g \in Lists /\ g.cur = 0 /\ Len(g.items) = 0
  BY DEF Sound
<1>2. a = g
  BY <1>1 DEF AtBack, Lists
<1>3. Moved(g, s) = s /\ Empty \in Texts
  BY <1>1 DEF Moved, Empty, Texts
<1>4. Sound(q) /\ Len(q.items) = 1
  <2>1. 0 + 1 = 1
    OBVIOUS
  <2> HIDE DEF a
  <2> QED
    BY <1>1, <1>2, <2>1, PushFacts
<1>5. New(g, s) = p
  <2>1. Compact(q) = q
    <3> HIDE DEF q
    <3>1. Len(q.items) - Limit <= 0
      BY <1>a, <1>4
    <3> QED
      BY <3>1 DEF Compact
  <2>2. Commit(a, s) = q
    BY <1>1, <1>2, <2>1 DEF Commit
  <2> HIDE DEF a, q
  <2> QED
    BY <1>3, <2>2 DEF New, a
<1> HIDE DEF q
<1>n. PICK one \in Nat, two \in Nat : one = 1 /\ two = 2 /\ two = one + 1
  OBVIOUS
<1>6. Sound(b) /\ Len(b.items) = one
  <2>1. one = Len(q.items)
    BY <1>4, <1>n
  <2> QED
    BY <1>4, <2>1, BumpFacts
<1> HIDE DEF b
<1>7. Sound(p) /\ Len(p.items) = two /\ p.cur = two /\ p.items # << >>
  <2>1. Sound(p) /\ Len(p.items) = one + 1 /\ p.cur = one + 1
    BY <1>3, <1>6, PushFacts
  <2> HIDE DEF p
  <2> QED
    BY <1>n, <2>1 DEF Sound
<1> HIDE DEF p
<1>8. two <= Limit + 1 /\ (two = Limit + 1 => p.cur >= 2) /\ Over(two) = 0
  BY <1>a, <1>n, <1>7 DEF Over
<1>9. /\ Sound(u) /\ Len(u.items) = two - Over(two) /\ u.cur = p.cur - Over(two)
  BY <1>3, <1>7, <1>8, UpdateFacts
<1> QED
  BY <1>5, <1>n, <1>7, <1>8, <1>9

LEMMA RevertFacts ==
  ASSUME NEW g, Sound(g), NEW len \in Nat, len = Len(g.items)
  PROVE  /\ Sound(Revert(g)) /\ Len(Revert(g).items) = len /\ Revert(g).cur = len
         /\ \A j \in 1 .. len : /\ Revert(g).items[j].src = g.items[j].src
                                /\ ~Revert(g).items[j].live
<1> DEFINE a == AtBack(g)
<1>1. Sound(a) /\ a.items = g.items /\ a.cur = len
  <2>1. CASE g.items # << >>
    BY <2>1, AtBackFacts
  <2>2. CASE g.items = << >>
    <3>1. g \in Lists /\ g.cur = 0 /\ len = 0
      BY <2>2 DEF Sound
    <3>2. a = g
      BY <2>2, <3>1 DEF AtBack, Lists
    <3> QED
      BY <3>1, <3>2
  <2> QED
    BY <2>1, <2>2
<1>2. Revert(g) = Bump(a)
  BY DEF Revert
<1> HIDE DEF a
<1> QED
  BY <1>1, <1>2, BumpFacts

-----------------------------------------------------------------------------
(* The lines that can be recalled.                                         *)

SourcesOf(g) == [j \in 1 .. Len(g.items) - 1 |-> g.items[j].src]

LEMMA SourcesFacts ==
  ASSUME NEW g, Sound(g), NEW len \in Nat, len = Len(g.items), len >= 1
  PROVE  /\ SourcesOf(g) \in Seq(Texts) /\ Len(SourcesOf(g)) = len - 1
         /\ \A j \in 1 .. (len - 1) : SourcesOf(g)[j] = g.items[j].src
<1> DEFINE ss == SourcesOf(g)
<1>1. g.items \in Seq(Items)
  BY DEF Sound, Lists
<1>2. PICK n \in Nat : n = len - 1
  OBVIOUS
<1>3. ss = [j \in 1 .. n |-> g.items[j].src]
  BY <1>2 DEF SourcesOf
<1>4. ASSUME NEW j \in 1 .. n PROVE g.items[j].src \in Texts
  <2>1. g.items[j] \in Items
    BY <1>1, <1>2
  <2> QED
    BY <2>1 DEF Items
<1> HIDE DEF ss
<1>5. ss \in [1 .. n -> Texts]
  BY <1>3, <1>4
<1>6. ss \in Seq(Texts) /\ Len(ss) = n
  BY <1>5
<1> QED
  BY <1>2, <1>3, <1>6 DEF ss

\* Losing the oldest lines leaves the end of what there was.
LEMMA DroppedEnds ==
  ASSUME NEW S, NEW s \in Seq(S), NEW t \in Seq(S), NEW gone \in Nat,
         Len(t) = Len(s) + gone, \A j \in 1 .. Len(s) : s[j] = t[j + gone]
  PROVE  Ends(s, t)
<1>1. PICK a \in Nat, b \in Nat : a = Len(s) /\ b = Len(t)
  OBVIOUS
<1>2. b = a + gone
  BY <1>1
<1>3. ASSUME NEW j \in 1 .. a PROVE s[j] = t[b - a + j]
  <2>1. b - a + j = j + gone
    BY <1>2
  <2> QED
    BY <1>1, <2>1
<1> QED
  BY <1>1, <1>2, <1>3 DEF Ends

\* The same lines, or all but the oldest of a full list.
Forgotten(s, t) == s = t \/ (Len(t) = Limit /\ s = Tail(t))

LEMMA ForgottenEnds ==
  ASSUME NEW S, NEW s \in Seq(S), NEW t \in Seq(S), Forgotten(s, t)
  PROVE  Ends(s, t)
<1>1. CASE s = t
  <2>1. \A j \in 1 .. Len(s) : j + 0 = j
    OBVIOUS
  <2> QED
    BY <1>1, <2>1, DroppedEnds
<1>2. CASE Len(t) = Limit /\ s = Tail(t)
  <2>1. Limit \in Nat /\ Limit >= 2 /\ t # << >>
    BY <1>2, HistoryAssumption
  <2>2. Len(t) = Len(s) + 1 /\ \A j \in 1 .. Len(s) : s[j] = t[j + 1]
    BY <1>2, <2>1
  <2> QED
    BY <2>2, DroppedEnds
<1> QED
  BY <1>1, <1>2 DEF Forgotten

LEMMA SourcesForgotten ==
  ASSUME NEW g, Sound(g), NEW u, Sound(u), NEW len \in Nat, len = Len(g.items), len >= 1,
         len <= Limit + 1, Len(u.items) = len - Over(len),
         \A j \in 1 .. (len - Over(len) - 1) : u.items[j].src = g.items[j + Over(len)].src
  PROVE  Forgotten(SourcesOf(u), SourcesOf(g))
<1> DEFINE s == SourcesOf(u)
           t == SourcesOf(g)
<1>a. Limit \in Nat /\ Limit >= 2
  BY HistoryAssumption
<1>1. t \in Seq(Texts) /\ Len(t) = len - 1 /\ \A j \in 1 .. (len - 1) : t[j] = g.items[j].src
  BY SourcesFacts
<1>2. CASE len = Limit + 1
  <2>1. Over(len) = 1
    BY <1>a, <1>2 DEF Over
  <2>2. PICK n \in Nat : n = len - 1 /\ n = Limit /\ n >= 1
    BY <1>a, <1>2
  <2>3. /\ s \in Seq(Texts) /\ Len(s) = n - 1
        /\ \A j \in 1 .. (n - 1) : s[j] = u.items[j].src
    <3>1. n = Len(u.items)
      BY <2>1, <2>2
    <3> QED
      BY <2>2, <3>1, SourcesFacts
  <2>4. \A j \in 1 .. (n - 1) : s[j] = t[j + 1]
    <3> TAKE j \in 1 .. (n - 1)
    <3>1. j \in 1 .. (len - Over(len) - 1) /\ j + 1 \in 1 .. (len - 1)
      BY <2>1, <2>2
    <3> QED
      BY <1>1, <2>1, <2>3, <3>1
  <2> HIDE DEF s, t
  <2>5. t # << >> /\ Len(t) = n /\ Tail(t) \in Seq(Texts) /\ Len(Tail(t)) = n - 1
        /\ \A j \in 1 .. (n - 1) : Tail(t)[j] = t[j + 1]
    BY <1>1, <2>2
  <2>6. s = Tail(t)
    <3>1. Len(s) = Len(Tail(t)) /\ \A j \in 1 .. Len(s) : s[j] = Tail(t)[j]
      BY <2>3, <2>4, <2>5
    <3> QED
      BY <2>3, <2>5, <3>1, SeqEqual
  <2> QED
    BY <2>2, <2>5, <2>6 DEF Forgotten, s, t
<1>3. CASE len <= Limit
  <2>0. Over(len) = 0
    BY <1>a, <1>3 DEF Over
  <2>1. Over(len) = 0 /\ len - Over(len) = len
    BY <2>0
  <2>2. /\ s \in Seq(Texts) /\ Len(s) = len - 1
        /\ \A j \in 1 .. (len - 1) : s[j] = u.items[j].src
    <3>1. len = Len(u.items)
      BY <2>1
    <3> QED
      BY <3>1, SourcesFacts
  <2>3. \A j \in 1 .. (len - 1) : s[j] = t[j]
    <3> TAKE j \in 1 .. (len - 1)
    <3>1. j \in 1 .. (len - Over(len) - 1) /\ j + Over(len) = j
      BY <2>1
    <3> QED
      BY <1>1, <2>2, <3>1
  <2> HIDE DEF s, t
  <2>4. s = t
    BY <1>1, <2>2, <2>3
  <2> QED
    BY <2>4 DEF Forgotten, s, t
<1> QED
  BY <1>a, <1>2, <1>3

-----------------------------------------------------------------------------
(* The invariant of the list.                                              *)

\* The end of the loop of the editor: what is shown is in the item.
LEMMA UpdateStep ==
  ASSUME ListInv, fd # "closed", NEW g, Sound(g), g.items = h.items,
         Len(g.items) = Limit + 1 => g.cur >= 2,
         NEW s \in Texts, h' = Update(g, s), text' = s,
         UNCHANGED <<fd, file, vi, submits>>
  PROVE  ListInv' /\ (fd = "open" => Forgotten(Sources', Sources))
<1>a. Limit \in Nat /\ Limit >= 2
  BY HistoryAssumption
<1>t. HistoryTypes /\ OpenInv
  BY DEF ListInv
<1>1. CASE g.items = << >>
  <2>1. fd # "open"
    BY <1>1, <1>t DEF OpenInv
  <2>2. Sound(h') /\ Len(h'.items) = 1 /\ h'.cur = 1
    BY <1>1, UpdateOfNone
  <2> QED
    BY <1>a, <1>t, <2>1, <2>2
       DEF ListInv, HistoryTypes, FullInv, OpenInv, LiveInv, ClosedInv, LineIsCurrentItem
<1>2. CASE g.items # << >>
  <2>1. PICK len \in Nat : len = Len(g.items) /\ len <= Limit + 1 /\ len = Len(h.items) /\ len >= 1
    <3>1. Len(h.items) \in Nat /\ Len(h.items) <= Limit + 1 /\ g.cur \in 1 .. Len(h.items)
      BY <1>2, <1>t DEF HistoryTypes, Sound, Lists
    <3> QED
      BY <3>1
  <2>2. /\ Sound(h') /\ Len(h'.items) = len - Over(len)
        /\ h'.cur \in 1 .. (len - Over(len))
        /\ h'.items[h'.cur].tmp = s /\ h'.items[h'.cur].live
        /\ \A j \in 1 .. (len - Over(len)) : h'.items[j].src = g.items[j + Over(len)].src
    BY <1>2, <2>1, UpdateFacts
  <2>3. PICK gone \in {0, 1} : gone = Over(len) /\ gone = IF len > Limit THEN 1 ELSE 0
    BY DEF Over
  <2>4. PICK n \in Nat : n = len - gone /\ n >= 1 /\ n <= Limit
    BY <1>a, <2>1, <2>3
  <2>5. Len(h'.items) = n /\ n \in 1 .. n /\ n + gone = len
    BY <2>1, <2>2, <2>3, <2>4
  <2>6. h'.items # << >>
    BY <2>2 DEF Sound
  <2>7. h'.items[n].src = h.items[len].src
    BY <2>2, <2>3, <2>4, <2>5
  <2>8. HistoryTypes' /\ FullInv'
    BY <1>a, <1>t, <2>2, <2>4, <2>5 DEF HistoryTypes, FullInv
  <2>9. OpenInv'
    BY <1>t, <2>1, <2>5, <2>6, <2>7 DEF OpenInv
  <2>10. LiveInv' /\ ClosedInv' /\ LineIsCurrentItem'
    BY <2>2 DEF LiveInv, ClosedInv, LineIsCurrentItem, Shown
  <2>11. Forgotten(Sources', Sources)
    <3>1. \A j \in 1 .. (len - Over(len) - 1) : j \in 1 .. (len - Over(len))
      BY <2>3, <2>4
    <3>2. \A j \in 1 .. (len - Over(len) - 1) : h'.items[j].src = h.items[j + Over(len)].src
      BY <2>2, <3>1
    <3>3. Forgotten(SourcesOf(h'), SourcesOf(h))
      BY <1>t, <2>1, <2>2, <3>2, SourcesForgotten DEF HistoryTypes
    <3> QED
      BY <3>3 DEF Sources, SourcesOf
  <2> QED
    BY <2>8, <2>9, <2>10, <2>11 DEF ListInv
<1> QED
  BY <1>1, <1>2

LEMMA SourcesNewest ==
  ASSUME NEW g, Sound(g), NEW u, Sound(u), NEW len \in Nat, len = Len(g.items), len >= 1,
         NEW moved \in Texts, NEW gone \in Nat,
         gone = IF len < Limit THEN 0 ELSE len - Limit + 1,
         Len(u.items) = len + 1 - gone,
         \A j \in 1 .. (len - gone) :
           u.items[j].src = IF j + gone = len THEN moved ELSE g.items[j + gone].src
  PROVE  SourcesOf(u) = Newest(Append(SourcesOf(g), moved), Limit - 1)
<1> DEFINE s == SourcesOf(u)
           t == Append(SourcesOf(g), moved)
<1>a. Limit \in Nat /\ Limit >= 2
  BY HistoryAssumption
<1>1. /\ t \in Seq(Texts) /\ Len(t) = len
      /\ \A j \in 1 .. len : t[j] = IF j = len THEN moved ELSE g.items[j].src
  <2>1. /\ SourcesOf(g) \in Seq(Texts) /\ Len(SourcesOf(g)) = len - 1
        /\ \A j \in 1 .. (len - 1) : SourcesOf(g)[j] = g.items[j].src
    BY SourcesFacts
  <2>2. PICK n \in Nat : n = len - 1 /\ len = n + 1
    <3>1. len - 1 \in Nat /\ len = (len - 1) + 1
      OBVIOUS
    <3> QED
      BY <3>1
  <2>3. /\ t \in Seq(Texts) /\ Len(t) = n + 1
        /\ \A j \in 1 .. n : t[j] = SourcesOf(g)[j]
        /\ t[n + 1] = moved
    BY <2>1, <2>2
  <2> HIDE DEF t
  <2> QED
    BY <2>1, <2>2, <2>3
<1>2. PICK n \in Nat : n = len - gone /\ n <= Limit - 1 /\ n + 1 = len + 1 - gone
                       /\ n + gone = len
  <2>1. CASE len < Limit
    <3>1. gone = 0
      BY <2>1
    <3>2. len - gone = len /\ len <= Limit - 1 /\ len + 1 = len + 1 - gone /\ len + gone = len
      BY <1>a, <2>1, <3>1
    <3> QED
      BY <3>2
  <2>2. CASE ~(len < Limit)
    <3>1. gone = len - Limit + 1
      BY <2>2
    <3>2. PICK k \in Nat : k = Limit - 1
      BY <1>a
    <3>3. k = len - gone /\ k <= Limit - 1 /\ k + 1 = len + 1 - gone /\ k + gone = len
      BY <1>a, <3>1, <3>2
    <3> QED
      BY <3>3
  <2> QED
    BY <2>1, <2>2
<1>3. /\ s \in Seq(Texts) /\ Len(s) = n /\ \A j \in 1 .. n : s[j] = u.items[j].src
  <2>1. PICK m \in Nat : m = n + 1 /\ m - 1 = n /\ m >= 1
    <3>1. n + 1 \in Nat /\ (n + 1) - 1 = n /\ n + 1 >= 1
      OBVIOUS
    <3> QED
      BY <3>1
  <2>2. m = Len(u.items)
    BY <1>2, <2>1
  <2> QED
    BY <2>1, <2>2, SourcesFacts
<1>4. ASSUME NEW j \in 1 .. n PROVE s[j] = t[j + gone]
  <2>1. j \in 1 .. (len - gone) /\ j + gone \in 1 .. len
    <3>1. ASSUME NEW a \in Nat, NEW b \in Nat, NEW c \in Nat, a + b = c
          PROVE  \A k \in 1 .. a : k + b \in 1 .. c
      BY <3>1
    <3>2. \A k \in 1 .. n : k + gone \in 1 .. len
      BY <1>2, <3>1
    <3> QED
      BY <1>2, <3>2
  <2> QED
    BY <1>1, <1>3, <2>1
<1> HIDE DEF s, t
<1>5. /\ Newest(t, Limit - 1) \in Seq(Texts) /\ Len(Newest(t, Limit - 1)) = n
      /\ \A j \in 1 .. n : Newest(t, Limit - 1)[j] = t[j + gone]
  <2>1. CASE len < Limit
    <3>1. gone = 0 /\ n = len /\ Len(t) <= Limit - 1
      BY <1>a, <1>1, <1>2, <2>1
    <3>2. Newest(t, Limit - 1) = t
      BY <3>1 DEF Newest
    <3>3. \A j \in 1 .. n : j + gone = j
      BY <3>1
    <3> QED
      BY <1>1, <3>1, <3>2, <3>3
  <2>2. CASE ~(len < Limit)
    <3>1. gone = len - Limit + 1 /\ n = Limit - 1
      BY <1>a, <1>2, <2>2
    <3>2. Len(t) = gone + n
      BY <1>1, <1>2
    <3>3. /\ Newest(t, n) \in Seq(Texts) /\ Len(Newest(t, n)) = n
          /\ \A j \in 1 .. n : Newest(t, n)[j] = t[j + gone]
      BY <1>1, <3>2, NewestOfTexts
    <3> QED
      BY <3>1, <3>3
  <2> QED
    BY <2>1, <2>2
<1>6. Len(s) = Len(Newest(t, Limit - 1)) /\ \A j \in 1 .. Len(s) : s[j] = Newest(t, Limit - 1)[j]
  BY <1>3, <1>4, <1>5
<1>7. s = Newest(t, Limit - 1)
  BY <1>3, <1>5, <1>6, SeqEqual
<1> QED
  BY <1>7 DEF s, t

LEMMA MovedType ==
  ASSUME ListInv
  PROVE  Moved(h, text) \in Texts
<1>1. Sound(h) /\ text \in Texts
  BY DEF ListInv, HistoryTypes
<1>2. CASE h.cur # Len(h.items)
  <2>1. h.cur \in 1 .. Len(h.items) /\ h.items \in Seq(Items)
    BY <1>1, <1>2 DEF Sound, Lists
  <2>2. h.items[h.cur] \in Items
    BY <2>1
  <2> QED
    BY <1>2, <2>2 DEF Moved, Items
<1> QED
  BY <1>1, <1>2 DEF Moved

\* Submit keeps the list, and adds a line to it or none.
LEMMA SubmitStep ==
  ASSUME ListInv, Submit
  PROVE  /\ ListInv'
         /\ fd = "open" /\ Nothing(h, text) => Forgotten(Sources', Sources)
         /\ fd = "open" /\ ~Nothing(h, text) =>
              Sources' = Newest(Append(Sources, Moved(h, text)), Limit - 1)
<1>a. Limit \in Nat /\ Limit >= 2 /\ MaxSubmits \in Nat
  BY HistoryAssumption
<1>t. HistoryTypes /\ OpenInv
  BY DEF ListInv
<1>e. /\ h' = Update(New(h, text), Empty) /\ text' = Empty /\ fd # "closed"
      /\ submits < MaxSubmits /\ submits' = submits + 1 /\ UNCHANGED <<fd, vi>>
  BY DEF Submit
<1>f. file' \in [lines : Seq(Texts), tail : Texts]
  <2>1. /\ file.lines \in Seq(Texts) /\ file.tail \in Texts /\ Moved(h, text) \in Texts
        /\ Empty \in Texts
    BY <1>t, MovedType DEF HistoryTypes, Empty, Texts
  <2>2. file.tail \o Moved(h, text) \in Texts
    BY <2>1 DEF Texts
  <2>3. file' = file \/ file' = [lines |-> Append(file.lines, file.tail \o Moved(h, text)),
                                 tail |-> Empty]
    BY DEF Submit, Written
  <2>4. Append(file.lines, file.tail \o Moved(h, text)) \in Seq(Texts)
    BY <2>1, <2>2
  <2>5. [lines |-> Append(file.lines, file.tail \o Moved(h, text)), tail |-> Empty]
          \in [lines : Seq(Texts), tail : Texts]
    BY <2>1, <2>4
  <2>6. file \in [lines : Seq(Texts), tail : Texts]
    BY <1>t DEF HistoryTypes
  <2> QED
    BY <2>3, <2>5, <2>6
<1>g. /\ Sound(h) /\ text \in Texts /\ submits' \in 0 .. MaxSubmits
      /\ fd' \in {"closed", "open", "none"} /\ text' \in Texts /\ vi' \in BOOLEAN
  BY <1>a, <1>t, <1>e DEF HistoryTypes, Empty, Texts
<1>1. PICK len \in Nat : len = Len(h.items) /\ len <= Limit + 1
  BY <1>t DEF HistoryTypes, Sound, Lists
<1>2. ASSUME NEW n \in Nat, Sound(h'), Len(h'.items) = n, h'.cur = n, 1 <= n, n <= Limit + 1,
             fd = "open" => /\ h'.items[n].src = Empty /\ h'.items[n].tmp = Empty
      PROVE  ListInv'
  <2>1. h'.items # << >>
    BY <1>2 DEF Sound
  <2>2. HistoryTypes' /\ FullInv'
    BY <1>f, <1>g, <1>2 DEF HistoryTypes, FullInv
  <2>3. OpenInv' /\ LiveInv' /\ ClosedInv' /\ LineIsCurrentItem'
    BY <1>e, <1>2, <2>1 DEF OpenInv, LiveInv, ClosedInv, LineIsCurrentItem, Shown
  <2> QED
    BY <2>2, <2>3 DEF ListInv
<1>3. CASE Nothing(h, text)
  <2>1. /\ Sound(h') /\ Len(h'.items) = len - Over(len) /\ len - Over(len) >= 1
        /\ h'.cur = len - Over(len)
        /\ h'.items[h'.cur].tmp = Empty /\ h'.items[h'.cur].src = Empty
        /\ \A j \in 1 .. (len - Over(len) - 1) : h'.items[j].src = h.items[j + Over(len)].src
    BY <1>e, <1>g, <1>1, <1>3, SubmitNothing
  <2>2. PICK n \in Nat : n = len - Over(len) /\ 1 <= n /\ n <= Limit + 1 /\ len >= 1
    <3>1. PICK gone \in {0, 1} : gone = Over(len)
      BY DEF Over
    <3>2. len - gone >= 1 /\ len - gone \in Nat /\ len - gone <= Limit + 1 /\ len >= 1
      BY <1>a, <1>1, <2>1, <3>1
    <3> QED
      BY <3>1, <3>2
  <2>3. ListInv'
    BY <1>2, <2>1, <2>2
  <2>4. Forgotten(SourcesOf(h'), SourcesOf(h))
    BY <1>g, <1>1, <2>1, <2>2, SourcesForgotten
  <2> QED
    BY <1>3, <2>3, <2>4 DEF Sources, SourcesOf
<1>4. CASE ~Nothing(h, text) /\ h.items # << >>
  <2>1. PICK moved \in Texts : moved = Moved(h, text)
    BY MovedType
  <2>2. PICK gone \in Nat :
          /\ gone = IF len < Limit THEN 0 ELSE len - Limit + 1
          /\ Sound(h') /\ Len(h'.items) = len + 1 - gone
          /\ h'.cur = len + 1 - gone
          /\ h'.items[h'.cur].tmp = Empty /\ h'.items[h'.cur].src = Empty
          /\ \A j \in 1 .. (len - gone) :
               h'.items[j].src = IF j + gone = len THEN moved ELSE h.items[j + gone].src
    <3>2. Sound(h) /\ text \in Texts /\ len = Len(h.items) /\ len <= Limit + 1
      BY <1>g, <1>1
    <3>3. \E gone \in Nat : Added(Update(New(h, text), Empty), h, len, moved, gone)
      BY <1>4, <2>1, <3>2, SubmitNew
    <3> QED
      BY <1>e, <3>3 DEF Added
  <2>3. len >= 1
    BY <1>g, <1>1, <1>4 DEF Sound
  <2>4. PICK n \in Nat : n = len + 1 - gone /\ 1 <= n /\ n <= Limit + 1
    <3>1. CASE len < Limit
      <4>1. gone = 0
        BY <2>2, <3>1
      <4>2. len + 1 \in Nat /\ len + 1 = len + 1 - gone /\ 1 <= len + 1 /\ len + 1 <= Limit + 1
        BY <1>a, <1>1, <3>1, <4>1
      <4> QED
        BY <4>2
    <3>2. CASE ~(len < Limit)
      <4>1. gone = len - Limit + 1
        BY <2>2, <3>2
      <4>2. Limit = len + 1 - gone /\ 1 <= Limit /\ Limit <= Limit + 1
        BY <1>a, <4>1
      <4> QED
        BY <1>a, <4>2
    <3> QED
      BY <3>1, <3>2
  <2>5. ListInv'
    BY <1>2, <2>2, <2>4
  <2>6. SourcesOf(h') = Newest(Append(SourcesOf(h), moved), Limit - 1)
    BY <1>g, <1>1, <2>1, <2>2, <2>3, SourcesNewest, ZenonT(40)
  <2> QED
    BY <1>4, <2>1, <2>5, <2>6 DEF Sources, SourcesOf
<1>5. CASE ~Nothing(h, text) /\ h.items = << >>
  <2>1. fd # "open"
    BY <1>5, <1>t DEF OpenInv
  <2>2. Sound(h') /\ Len(h'.items) = 2 /\ h'.cur = 2
    BY <1>e, <1>g, <1>5, SubmitFirst
  <2>3. ListInv'
    BY <1>a, <1>2, <2>1, <2>2
  <2> QED
    BY <2>1, <2>3
<1> QED
  BY <1>3, <1>4, <1>5


LEMMA EditStep ==
  ASSUME ListInv, NEW t \in Texts, Edit(t)
  PROVE  ListInv' /\ (fd = "open" => Forgotten(Sources', Sources))
<1>a. Limit \in Nat /\ Limit >= 2
  BY HistoryAssumption
<1>1. Sound(h) /\ (Len(h.items) = Limit + 1 => h.cur >= 2)
  BY <1>a DEF ListInv, HistoryTypes, FullInv
<1>2. /\ fd # "closed" /\ h' = Update(h, t) /\ text' = t
      /\ UNCHANGED <<fd, file, vi, submits>>
  BY DEF Edit
<1> QED
  BY <1>1, <1>2, UpdateStep

LEMMA WalkStep ==
  ASSUME ListInv, NEW to \in {h.cur - 1, h.cur + 1}, Walk(to)
  PROVE  ListInv' /\ (fd = "open" => Forgotten(Sources', Sources))
<1>a. Limit \in Nat /\ Limit >= 2
  BY HistoryAssumption
<1>1. /\ Sound(h) /\ h \in Lists /\ h.items \in Seq(Items) /\ h.cur \in Nat /\ text \in Texts
      /\ (Len(h.items) = Limit + 1 => h.cur = Limit + 1)
      /\ DOMAIN h.items = 1 .. Len(h.items)
  BY <1>a DEF ListInv, HistoryTypes, FullInv, Sound, Lists
<1>2. fd # "closed" /\ UNCHANGED <<fd, file, vi, submits>>
  BY DEF Walk
<1>3. CASE to \notin DOMAIN h.items
  <2>1. h' = Update(h, text) /\ text' = text
    BY <1>3 DEF Walk
  <2>2. Len(h.items) = Limit + 1 => h.cur >= 2
    BY <1>a, <1>1
  <2> QED
    BY <1>1, <1>2, <2>1, <2>2, UpdateStep
<1>4. CASE to \in DOMAIN h.items
  <2>1. PICK g : g = [h EXCEPT !.cur = to]
    OBVIOUS
  <2>2. PICK s : s = Shown(h.items[to])
    OBVIOUS
  <2>3. h' = Update(g, s) /\ text' = s
    BY <1>4, <2>1, <2>2 DEF Walk
  <2>4. s \in Texts
    <3>1. h.items[to] \in Items
      BY <1>1, <1>4
    <3> QED
      BY <2>2, <3>1 DEF Shown, Items
  <2>5. to \in 1 .. Len(h.items) /\ to \in Nat /\ h.items # << >>
    BY <1>1, <1>4
  <2>6. g.items = h.items /\ g.cur = to /\ g \in Lists
    BY <1>1, <2>1, <2>5 DEF Lists
  <2>7. Sound(g)
    BY <2>5, <2>6 DEF Sound
  <2>8. Len(g.items) = Limit + 1 => g.cur >= 2
    <3>1. SUFFICES ASSUME Len(h.items) = Limit + 1 PROVE to >= 2
      BY <2>6
    <3>2. h.cur = Limit + 1
      BY <1>1, <3>1
    <3> QED
      BY <1>a, <3>2
  <2> QED
    BY <1>2, <2>3, <2>4, <2>6, <2>7, <2>8, UpdateStep
<1> QED
  BY <1>3, <1>4

LEMMA InterruptStep ==
  ASSUME ListInv, Interrupt
  PROVE  ListInv' /\ (fd = "open" => Forgotten(Sources', Sources))
<1>t. HistoryTypes /\ OpenInv
  BY DEF ListInv
<1>e. /\ h' = Revert(h) /\ text' = Empty /\ fd # "closed"
      /\ UNCHANGED <<fd, file, vi, submits>>
  BY DEF Interrupt
<1>1. PICK len \in Nat : len = Len(h.items) /\ len <= Limit + 1
  BY <1>t DEF HistoryTypes, Sound, Lists
<1>2. /\ Sound(h') /\ Len(h'.items) = len /\ h'.cur = len
      /\ \A j \in 1 .. len : /\ h'.items[j].src = h.items[j].src /\ ~h'.items[j].live
  BY <1>t, <1>e, <1>1, RevertFacts DEF HistoryTypes
<1>3. HistoryTypes' /\ FullInv' /\ LiveInv' /\ ClosedInv'
  BY <1>t, <1>e, <1>1, <1>2 DEF HistoryTypes, FullInv, LiveInv, ClosedInv, Empty, Texts
<1>4. ASSUME fd = "open"
      PROVE  OpenInv' /\ LineIsCurrentItem' /\ Sources' = Sources
  <2>1. h.items # << >> /\ h.items[len].src = Empty
    BY <1>1, <1>4, <1>t DEF OpenInv
  <2>2. h.items \in Seq(Items)
    BY <1>t DEF HistoryTypes, Sound, Lists
  <2>3. len >= 1 /\ len \in 1 .. len
    BY <1>1, <2>1, <2>2
  <2>4. h'.items # << >>
    BY <1>2, <2>3
  <2>5. h'.items[len].src = Empty /\ ~h'.items[len].live
    BY <1>2, <2>1, <2>3
  <2>6. OpenInv' /\ LineIsCurrentItem'
    BY <1>e, <1>2, <2>4, <2>5 DEF OpenInv, LineIsCurrentItem, Shown
  <2>7. /\ SourcesOf(h) \in Seq(Texts) /\ Len(SourcesOf(h)) = len - 1
        /\ \A j \in 1 .. (len - 1) : SourcesOf(h)[j] = h.items[j].src
    BY <1>1, <1>t, <2>3, SourcesFacts DEF HistoryTypes
  <2>8. /\ SourcesOf(h') \in Seq(Texts) /\ Len(SourcesOf(h')) = len - 1
        /\ \A j \in 1 .. (len - 1) : SourcesOf(h')[j] = h'.items[j].src
    BY <1>1, <1>2, <2>3, SourcesFacts
  <2>9. \A j \in 1 .. (len - 1) : SourcesOf(h')[j] = SourcesOf(h)[j]
    BY <1>2, <2>7, <2>8
  <2>10. SourcesOf(h') = SourcesOf(h)
    BY <2>7, <2>8, <2>9, SeqEqual
  <2> QED
    BY <2>6, <2>10 DEF Sources, SourcesOf
<1>5. CASE fd # "open"
  BY <1>e, <1>3, <1>5 DEF ListInv, OpenInv, LineIsCurrentItem
<1> QED
  BY <1>3, <1>4, <1>5 DEF ListInv, Forgotten

LEMMA ViEditStep ==
  ASSUME ListInv, NEW t \in Texts, ViEdit(t)
  PROVE  ListInv' /\ Sources' = Sources
BY DEF ListInv, HistoryTypes, FullInv, OpenInv, LiveInv, ClosedInv, LineIsCurrentItem,
       ViEdit, Sources

LEMMA OtherSteps ==
  ASSUME ListInv, BeginWithoutFile \/ Leave
  PROVE  ListInv' /\ fd' # "open"
<1>1. Sound(NoHistory) /\ Len(NoHistory.items) = 0 /\ NoHistory.cur = 0
  BY DEF NoHistory, Sound, Lists
<1>2. /\ h' = NoHistory /\ fd' \in {"closed", "none"} /\ text' = Empty
      /\ submits' = submits /\ file' = file /\ vi' \in BOOLEAN
  BY DEF BeginWithoutFile, Leave, ListInv, ClosedInv, HistoryTypes
<1>3. Limit \in Nat /\ 0 # Limit + 1
  BY HistoryAssumption
<1> QED
  BY <1>1, <1>2, <1>3
     DEF ListInv, HistoryTypes, FullInv, OpenInv, LiveInv, ClosedInv, LineIsCurrentItem,
         Empty, Texts

LEMMA NewestEnds ==
  ASSUME NEW S, NEW q \in Seq(S), NEW n \in Nat
  PROVE  /\ Newest(q, n) \in Seq(S) /\ Len(Newest(q, n)) <= n
         /\ Ends(Newest(q, n), q)
<1>1. CASE Len(q) <= n
  <2>1. Newest(q, n) = q /\ Len(q) \in Nat
    BY <1>1 DEF Newest
  <2>2. Ends(q, q)
    <3>1. \A j \in 1 .. Len(q) : q[j] = q[Len(q) - Len(q) + j]
      OBVIOUS
    <3> QED
      BY <2>1, <3>1 DEF Ends
  <2> QED
    BY <1>1, <2>1, <2>2
<1>2. CASE ~(Len(q) <= n)
  <2>1. PICK gone \in Nat : Len(q) = gone + n
    <3>1. Len(q) - n \in Nat /\ Len(q) = (Len(q) - n) + n
      BY <1>2
    <3> QED
      BY <3>1
  <2>2. /\ Newest(q, n) \in Seq(S) /\ Len(Newest(q, n)) = n
        /\ \A j \in 1 .. n : Newest(q, n)[j] = q[j + gone]
    BY <2>1, NewestFacts
  <2>3. Len(q) = Len(Newest(q, n)) + gone
    BY <2>1, <2>2
  <2>4. Ends(Newest(q, n), q)
    BY <2>2, <2>3, DroppedEnds
  <2> QED
    BY <2>2, <2>4
<1> QED
  BY <1>1, <1>2

\* A session begins with the last lines of the file, and a line to come.
LEMMA BeginStep ==
  ASSUME ListInv, Begin, NEW kept, kept = Newest(NonEmpty(file.lines), Limit)
  PROVE  /\ kept \in Seq(Recorded) /\ Len(kept) <= Limit
         /\ Ends(kept, NonEmpty(file.lines))
         /\ Sources' = kept /\ ListInv'
<1>a. Limit \in Nat /\ Limit >= 2
  BY HistoryAssumption
<1>t. /\ file.lines \in Seq(Texts) /\ file.tail \in Texts /\ text = Empty /\ fd = "closed"
      /\ file = [lines |-> file.lines, tail |-> file.tail]
      /\ file \in [lines : Seq(Texts), tail : Texts]
      /\ submits \in 0 .. MaxSubmits
  BY DEF ListInv, HistoryTypes, ClosedInv, Begin
<1>1. kept \in Seq(Recorded) /\ Len(kept) <= Limit /\ Ends(kept, NonEmpty(file.lines))
  <2>1. NonEmpty(file.lines) \in Seq(Recorded)
    BY <1>t, NonEmptyType
  <2> QED
    BY <1>a, <2>1, NewestEnds
<1>2. PICK n \in Nat : n = Len(kept) /\ n <= Limit /\ DOMAIN kept = 1 .. n
  BY <1>1
<1> DEFINE old == [i \in 1 .. n |-> Item(kept[i], FALSE)]
           last == <<Item(Empty, FALSE)>>
           all == old \o last
           next == n + 1
<1>3. Item(Empty, FALSE) \in Items /\ \A i \in 1 .. n : Item(kept[i], FALSE) \in Items
  <2>1. Empty \in Texts
    BY DEF Empty, Texts
  <2>2. \A i \in 1 .. n : kept[i] \in Texts
    BY <1>1, <1>2 DEF Recorded
  <2> QED
    BY <2>1, <2>2 DEF Item, Items
<1>4. old \in Seq(Items) /\ Len(old) = n /\ \A i \in 1 .. n : old[i] = Item(kept[i], FALSE)
  <2> DEFINE E(i) == Item(kept[i], FALSE)
  <2>1. \A i \in 1 .. n : E(i) \in Items
    BY <1>3
  <2> HIDE DEF E
  <2>2. /\ [i \in 1 .. n |-> E(i)] \in Seq(Items) /\ Len([i \in 1 .. n |-> E(i)]) = n
        /\ \A i \in 1 .. n : [k \in 1 .. n |-> E(k)][i] = E(i)
    BY <2>1
  <2> QED
    BY <2>2 DEF E
<1>5. last \in Seq(Items) /\ Len(last) = 1 /\ last[1] = Item(Empty, FALSE)
  <2> DEFINE e == Item(Empty, FALSE)
  <2>1. e \in Items
    BY <1>3
  <2> HIDE DEF e
  <2>2. <<e>> \in Seq(Items) /\ Len(<<e>>) = 1 /\ <<e>>[1] = e
    BY <2>1
  <2> QED
    BY <2>2 DEF e
<1>6. h' = [items |-> all, cur |-> next, bumped |-> TRUE]
  BY <1>2 DEF Begin
<1> HIDE DEF old, last
<1>7. /\ all \in Seq(Items) /\ Len(all) = n + 1
      /\ \A i \in 1 .. n : all[i] = Item(kept[i], FALSE)
      /\ all[n + 1] = Item(Empty, FALSE)
  <2>0. /\ all \in Seq(Items) /\ Len(all) = Len(old) + Len(last)
        /\ \A i \in 1 .. (Len(old) + Len(last)) :
             all[i] = IF i <= Len(old) THEN old[i] ELSE last[i - Len(old)]
    BY <1>4, <1>5, ConcatProperties
  <2>1. all \in Seq(Items) /\ Len(all) = n + 1
    BY <1>4, <1>5, <2>0
  <2>2. \A i \in 1 .. (n + 1) : all[i] = IF i <= n THEN old[i] ELSE last[i - n]
    BY <1>4, <1>5, <2>0
  <2>3. n + 1 \in 1 .. (n + 1) /\ ~(n + 1 <= n) /\ (n + 1) - n = 1
    OBVIOUS
  <2>4. \A i \in 1 .. n : i \in 1 .. (n + 1) /\ i <= n
    OBVIOUS
  <2> HIDE DEF all
  <2> QED
    BY <1>4, <1>5, <2>1, <2>2, <2>3, <2>4
<1> HIDE DEF all
<1>8. h'.items = all /\ h'.cur = n + 1 /\ h' \in Lists
  <2>1. next \in Nat /\ next = n + 1
    OBVIOUS
  <2> HIDE DEF next
  <2> QED
    BY <1>6, <1>7, <2>1 DEF Lists
<1>9. Sound(h') /\ all # << >> /\ n + 1 \in 1 .. (n + 1)
  <2>1. n + 1 \in 1 .. (n + 1)
    OBVIOUS
  <2>2. all # << >>
    BY <1>7
  <2> QED
    BY <1>7, <1>8, <2>1, <2>2 DEF Sound
<1>10. Sources' = kept
  <2>1. PICK m \in Nat : m = n + 1 /\ m >= 1 /\ m - 1 = n
    <3>1. n + 1 \in Nat /\ n + 1 >= 1 /\ (n + 1) - 1 = n
      OBVIOUS
    <3> QED
      BY <3>1
  <2>2. m = Len(h'.items)
    BY <1>7, <1>8, <2>1
  <2>3. /\ SourcesOf(h') \in Seq(Texts) /\ Len(SourcesOf(h')) = n
        /\ \A j \in 1 .. n : SourcesOf(h')[j] = h'.items[j].src
    BY <1>9, <2>1, <2>2, SourcesFacts
  <2>4. \A j \in 1 .. n : SourcesOf(h')[j] = kept[j]
    <3>1. \A j \in 1 .. n : Item(kept[j], FALSE).src = kept[j]
      BY DEF Item
    <3> QED
      BY <1>7, <1>8, <2>3, <3>1
  <2>5. SourcesOf(h') = kept
    BY <1>1, <1>2, <2>3, <2>4, SeqEqual
  <2> QED
    BY <2>5 DEF Sources, SourcesOf
<1>11. file' \in [lines : Seq(Texts), tail : Texts]
  <2>1. file' = Rewritten(file, kept)
    BY DEF Begin
  <2>2. FlattenSeq(kept) \in Texts /\ << >> \in Seq(Texts)
    BY <1>1, FlattenFacts
  <2>3. [lines |-> << >>, tail |-> FlattenSeq(kept)] \in [lines : Seq(Texts), tail : Texts]
    BY <2>2
  <2> QED
    BY <1>t, <2>1, <2>3 DEF Rewritten
<1>12. fd' = "open" /\ vi' \in BOOLEAN /\ text' = Empty /\ submits' = submits
  BY <1>t DEF Begin
<1>13. HistoryTypes' /\ FullInv'
  <2>1. Len(h'.items) <= Limit + 1 /\ Len(h'.items) = h'.cur
    BY <1>a, <1>2, <1>7, <1>8
  <2>2. Empty \in Texts
    BY DEF Empty, Texts
  <2> QED
    BY <1>t, <1>9, <1>11, <1>12, <2>1, <2>2 DEF HistoryTypes, FullInv
<1>14. OpenInv' /\ LiveInv' /\ ClosedInv' /\ LineIsCurrentItem'
  BY <1>7, <1>8, <1>9, <1>12
     DEF OpenInv, LiveInv, ClosedInv, LineIsCurrentItem, Item, Shown
<1> QED
  BY <1>1, <1>10, <1>13, <1>14 DEF ListInv

LEMMA InitList == Init => ListInv
<1>1. Sound(NoHistory) /\ Len(NoHistory.items) = 0 /\ NoHistory.cur = 0
  BY DEF NoHistory, Sound, Lists
<1>2. Limit \in Nat /\ 0 # Limit + 1 /\ 0 \in 0 .. MaxSubmits
  BY HistoryAssumption
<1>3. Empty \in Texts /\ << >> \in Seq(Texts)
  BY DEF Empty, Texts
<1>4. [lines |-> << >>, tail |-> Empty] \in [lines : Seq(Texts), tail : Texts]
  BY <1>3
<1> QED
  <2> SUFFICES ASSUME Init PROVE ListInv
    OBVIOUS
  <2>1. /\ h = NoHistory /\ fd = "closed" /\ text = Empty /\ submits = 0
        /\ vi \in BOOLEAN /\ file = [lines |-> << >>, tail |-> Empty]
    BY DEF Init
  <2>2. HistoryTypes
    BY <1>1, <1>2, <1>3, <1>4, <2>1 DEF HistoryTypes
  <2>3. FullInv /\ OpenInv /\ LiveInv /\ ClosedInv /\ LineIsCurrentItem
    BY <1>1, <1>2, <2>1 DEF FullInv, OpenInv, LiveInv, ClosedInv, LineIsCurrentItem
  <2> QED
    BY <2>2, <2>3 DEF ListInv

-----------------------------------------------------------------------------
(* The invariant of the file.                                              *)

LEMMA SourcesType ==
  ASSUME NEW g, Sound(g), g.items # << >>
  PROVE  SourcesOf(g) \in Seq(Texts)
<1>1. PICK len \in Nat : len = Len(g.items) /\ len >= 1
  <2>1. g.items \in Seq(Items)
    BY DEF Sound, Lists
  <2>2. Len(g.items) \in Nat /\ Len(g.items) >= 1
    BY <2>1
  <2> QED
    BY <2>2
<1> QED
  BY <1>1, SourcesFacts

LEMMA NoneEnds ==
  ASSUME NEW S, NEW t \in Seq(S)
  PROVE  Ends(<< >>, t)
<1>1. Len(t) \in Nat /\ Len(<< >>) = 0
  OBVIOUS
<1> QED
  BY <1>1 DEF Ends

LEMMA WholeType ==
  ASSUME NEW f \in [lines : Seq(Texts), tail : Texts]
  PROVE  Whole(f) \in Seq(Texts)
<1>1. f.lines \in Seq(Texts) /\ f.tail \in Texts
  OBVIOUS
<1>2. Append(f.lines, f.tail) \in Seq(Texts)
  BY <1>1
<1> QED
  BY <1>1, <1>2 DEF Whole

\* Fewer of the lines are still the end of the file.
LEMMA FileStays ==
  ASSUME HInv, ListInv', UNCHANGED <<fd, file>>,
         fd = "open" => Forgotten(Sources', Sources)
  PROVE  FileInv'
<1>1. file.tail # Empty => file.lines = << >>
  BY DEF HInv, FileInv
<1>2. ASSUME fd = "open", Short(file)
      PROVE  Ends(NonEmpty(Sources'), NonEmpty(Whole(file)))
  <2>1. Sources \in Seq(Texts) /\ Sources' \in Seq(Texts)
    <3>1. Sound(h) /\ h.items # << >> /\ Sound(h') /\ h'.items # << >>
      BY <1>2 DEF HInv, ListInv, HistoryTypes, OpenInv
    <3> QED
      BY <3>1, SourcesType DEF Sources, SourcesOf
  <2>2. PICK s \in Seq(Texts), t \in Seq(Texts), w \in Seq(Texts) :
          s = Sources' /\ t = Sources /\ w = Whole(file)
    <3>1. Whole(file) \in Seq(Texts)
      BY WholeType DEF HInv, ListInv, HistoryTypes
    <3> QED
      BY <2>1, <3>1
  <2>3. Ends(s, t)
    BY <1>2, <2>2, ForgottenEnds
  <2>4. Ends(NonEmpty(s), NonEmpty(t)) /\ Ends(NonEmpty(t), NonEmpty(w))
    BY <1>2, <2>2, <2>3, NonEmptyOfEnd DEF HInv, FileInv
  <2>5. NonEmpty(s) \in Seq(Texts) /\ NonEmpty(t) \in Seq(Texts) /\ NonEmpty(w) \in Seq(Texts)
    BY NonEmptyType
  <2>6. Ends(NonEmpty(s), NonEmpty(w))
    BY <2>4, <2>5, EndsTransitive
  <2> QED
    BY <2>2, <2>6
<1>3. file' = file /\ fd' = fd /\ Short(file)' = Short(file) /\ Whole(file)' = Whole(file)
  BY DEF Short, Whole
<1> QED
  BY <1>1, <1>2, <1>3 DEF FileInv

\* A line at the end of both the list and the file.
LEMMA BothAppend ==
  ASSUME NEW s \in Seq(Texts), NEW t \in Seq(Texts), NEW e \in Texts,
         Ends(NonEmpty(s), NonEmpty(t))
  PROVE  Ends(NonEmpty(Append(s, e)), NonEmpty(Append(t, e)))
<1>1. PICK ns \in Seq(Texts), nt \in Seq(Texts) : ns = NonEmpty(s) /\ nt = NonEmpty(t)
  BY NonEmptyType
<1>2. /\ NonEmpty(Append(s, e)) = IF e = Empty THEN ns ELSE Append(ns, e)
      /\ NonEmpty(Append(t, e)) = IF e = Empty THEN nt ELSE Append(nt, e)
  BY <1>1, NonEmptyAppend
<1>3. Ends(ns, nt) /\ Ends(Append(ns, e), Append(nt, e))
  BY <1>1, EndsAppend
<1> QED
  BY <1>2, <1>3

\* What is written when a line is recorded.
LEMMA WrittenEnds ==
  ASSUME NEW lines \in Seq(Texts), NEW tail \in Texts, NEW moved \in Texts,
         NEW s \in Seq(Texts), NEW f, NEW g,
         f = [lines |-> lines, tail |-> tail],
         g = [lines |-> Append(lines, tail \o moved), tail |-> Empty],
         tail # Empty => lines = << >>,
         Short(f) => Ends(NonEmpty(s), NonEmpty(Whole(f))), Short(g)
  PROVE  Ends(NonEmpty(Append(s, moved)), NonEmpty(Whole(g)))
<1>1. PICK line \in Texts : line = tail \o moved
  <2>1. tail \o moved \in Texts
    BY ConcatProperties DEF Texts
  <2> QED
    BY <2>1
<1>2. Whole(g) = Append(lines, line)
  BY <1>1 DEF Whole
<1>3. CASE tail = Empty
  <2>1. line = moved
    BY <1>1, <1>3 DEF Empty, Texts
  <2>2. Whole(f) = lines
    BY <1>3 DEF Whole
  <2>3. Short(f)
    <3>1. \A n \in 1 .. Len(lines) : /\ Append(lines, line)[n] = lines[n]
                                     /\ n \in 1 .. Len(Append(lines, line))
      OBVIOUS
    <3> QED
      BY <1>2, <2>2, <3>1 DEF Short
  <2> QED
    BY <1>2, <2>1, <2>2, <2>3, BothAppend
<1>4. CASE tail # Empty
  <2>1. lines = << >> /\ Whole(f) = Append(lines, tail)
    BY <1>4 DEF Whole
  <2>2. Len(Append(lines, line)) = 1 /\ Append(lines, line)[1] = line
        /\ Len(Append(lines, tail)) = 1 /\ Append(lines, tail)[1] = tail
    BY <2>1
  <2>3. 1 \in 1 .. 1
    OBVIOUS
  <2>4. Len(line) <= 1
    BY <1>2, <2>2, <2>3 DEF Short
  <2>5. moved = Empty /\ line = tail
    <3>1. Len(line) = Len(tail) + Len(moved) /\ Len(tail) \in Nat /\ Len(moved) \in Nat
      BY <1>1 DEF Texts
    <3>2. Len(tail) >= 1
      BY <1>4 DEF Texts, Empty
    <3>3. Len(moved) = 0
      BY <2>4, <3>1, <3>2
    <3>4. moved = << >>
      BY <3>3 DEF Texts
    <3>5. tail \o << >> = tail
      BY DEF Texts
    <3> QED
      BY <1>1, <3>4, <3>5 DEF Empty
  <2>6. Whole(g) = Whole(f) /\ Short(f)
    BY <1>2, <2>1, <2>5 DEF Short
  <2>7. NonEmpty(Append(s, moved)) = NonEmpty(s)
    BY <2>5, NonEmptyAppend
  <2> QED
    BY <2>6, <2>7
<1> QED
  BY <1>3, <1>4

LEMMA SubmitFile ==
  ASSUME HInv, Submit
  PROVE  ListInv' /\ FileInv'
<1>a. Limit \in Nat /\ Limit >= 2
  BY HistoryAssumption
<1>t. /\ ListInv /\ HistoryTypes /\ Sound(h) /\ text \in Texts
      /\ file.lines \in Seq(Texts) /\ file.tail \in Texts
      /\ file = [lines |-> file.lines, tail |-> file.tail]
      /\ fd = "open" => h.items # << >>
  BY DEF HInv, ListInv, HistoryTypes, OpenInv
<1>1. /\ ListInv'
      /\ fd = "open" /\ Nothing(h, text) => Forgotten(Sources', Sources)
      /\ fd = "open" /\ ~Nothing(h, text) =>
           Sources' = Newest(Append(Sources, Moved(h, text)), Limit - 1)
  BY <1>t, SubmitStep
<1>2. fd' = fd /\ file' = Written(file, h, text)
  BY DEF Submit
<1>3. CASE fd # "open" \/ Nothing(h, text)
  <2>1. file' = file
    BY <1>2, <1>3 DEF Written
  <2> QED
    BY <1>1, <1>2, <1>3, <2>1, FileStays
<1>4. CASE fd = "open" /\ ~Nothing(h, text)
  <2>1. PICK moved \in Texts : moved = Moved(h, text)
    BY <1>t, MovedType
  <2>2. PICK lines \in Seq(Texts), tail \in Texts :
          lines = file.lines /\ tail = file.tail
    BY <1>t
  <2>3. PICK f, g : /\ f = file /\ g = file'
                    /\ f = [lines |-> lines, tail |-> tail]
                    /\ g = [lines |-> Append(lines, tail \o moved), tail |-> Empty]
    BY <1>2, <1>4, <1>t, <2>1, <2>2 DEF Written
  <2>4. PICK s \in Seq(Texts), all \in Seq(Texts) : s = Sources /\ all = Append(s, moved)
    <3>1. Sources \in Seq(Texts)
      BY <1>4, <1>t, SourcesType DEF Sources, SourcesOf
    <3>2. Append(Sources, moved) \in Seq(Texts)
      BY <2>1, <3>1, AppendProperties
    <3> QED
      BY <3>1, <3>2, Zenon
  <2>5. /\ tail # Empty => lines = << >>
        /\ Short(f) => Ends(NonEmpty(s), NonEmpty(Whole(f)))
    BY <1>4, <2>2, <2>3, <2>4 DEF HInv, FileInv
  <2>6. ASSUME Short(g) PROVE Ends(NonEmpty(Sources'), NonEmpty(Whole(g)))
    <3>1. Ends(NonEmpty(all), NonEmpty(Whole(g)))
      BY <2>3, <2>4, <2>5, <2>6, WrittenEnds
    <3>2. PICK n \in Nat : n = Limit - 1
      BY <1>a
    <3>3. Newest(all, n) \in Seq(Texts) /\ Ends(Newest(all, n), all)
      BY <3>2, NewestEnds
    <3>4. Ends(NonEmpty(Newest(all, n)), NonEmpty(all))
      BY <3>3, NonEmptyOfEnd
    <3>5. Whole(g) \in Seq(Texts)
      <4>1. Append(lines, tail \o moved) \in Seq(Texts)
        BY <1>1, <2>3 DEF ListInv, HistoryTypes
      <4> QED
        BY <2>3, <4>1 DEF Whole
    <3>6. /\ NonEmpty(Newest(all, n)) \in Seq(Texts) /\ NonEmpty(all) \in Seq(Texts)
          /\ NonEmpty(Whole(g)) \in Seq(Texts)
      BY <3>3, <3>5, NonEmptyType
    <3>7. Ends(NonEmpty(Newest(all, n)), NonEmpty(Whole(g)))
      BY <3>1, <3>4, <3>6, EndsTransitive
    <3>8. Sources' = Newest(all, n)
      BY <1>1, <1>4, <2>1, <2>4, <3>2
    <3> QED
      BY <3>7, <3>8
  <2>7. file'.tail = Empty /\ Short(file)' = Short(g) /\ Whole(file)' = Whole(g)
    BY <2>3 DEF Short, Whole
  <2> QED
    BY <1>1, <2>6, <2>7 DEF FileInv
<1> QED
  BY <1>3, <1>4

LEMMA BeginFile ==
  ASSUME HInv, Begin
  PROVE  ListInv' /\ FileInv'
<1>a. Limit \in Nat /\ Limit >= 2
  BY HistoryAssumption
<1>t. /\ file.lines \in Seq(Texts) /\ file.tail \in Texts
      /\ file = [lines |-> file.lines, tail |-> file.tail]
      /\ file.tail # Empty => file.lines = << >>
      /\ file \in [lines : Seq(Texts), tail : Texts]
  BY DEF HInv, ListInv, HistoryTypes, FileInv
<1>1. PICK kept : kept = Newest(NonEmpty(file.lines), Limit)
  OBVIOUS
<1>2. /\ kept \in Seq(Recorded) /\ Len(kept) <= Limit
      /\ Ends(kept, NonEmpty(file.lines))
      /\ Sources' = kept /\ ListInv'
  BY <1>1, BeginStep DEF HInv
<1>3. file' = Rewritten(file, kept)
  BY <1>1 DEF Begin
<1>4. NonEmpty(kept) = kept
  BY <1>2, NonEmptyIdentity
<1>5. kept \in Seq(Texts)
  BY <1>2 DEF Recorded
<1>6. CASE Len(file.lines) > Limit
  <2>1. file' = [lines |-> << >>, tail |-> FlattenSeq(kept)]
    BY <1>3, <1>6 DEF Rewritten
  <2>2. PICK line \in Texts : /\ line = FlattenSeq(kept) /\ Len(line) >= Len(kept)
                              /\ Len(kept) = 1 => line = kept[1]
    BY <1>2, FlattenFacts
  <2>3. PICK f : f = file' /\ f.lines = << >> /\ f.tail = line
                 /\ f \in [lines : Seq(Texts), tail : Texts]
    <3>1. file' \in [lines : Seq(Texts), tail : Texts]
      BY <1>2 DEF ListInv, HistoryTypes
    <3>2. file'.lines = << >> /\ file'.tail = line
      BY <2>1, <2>2
    <3> QED
      BY <3>1, <3>2
  <2>4. Whole(f) \in Seq(Texts) /\ NonEmpty(Whole(f)) \in Seq(Texts)
    BY <2>3, WholeType, NonEmptyType
  <2>5. ASSUME Short(f) PROVE Ends(kept, NonEmpty(Whole(f)))
    <3>1. CASE kept = << >>
      BY <2>4, <3>1, NoneEnds
    <3>2. CASE kept # << >>
      <4>1. Len(kept) \in Nat /\ Len(kept) >= 1
        BY <1>2, <3>2
      <4>2. line # Empty /\ Len(line) \in Nat
        <5>1. Len(<< >>) = 0 /\ Len(line) \in Nat
          BY DEF Texts
        <5> QED
          BY <2>2, <4>1, <5>1 DEF Empty
      <4>3. Whole(f) = Append(<< >>, line)
        BY <2>3, <4>2 DEF Whole
      <4>4. Len(Append(<< >>, line)) = 1 /\ Append(<< >>, line)[1] = line /\ 1 \in 1 .. 1
        OBVIOUS
      <4>5. Len(line) <= 1
        BY <2>5, <4>3, <4>4 DEF Short
      <4>6. Len(kept) = 1 /\ line = kept[1]
        <5>1. ASSUME NEW a \in Nat, NEW b \in Nat, a >= 1, b >= a, b <= 1
              PROVE  a = 1
          BY <5>1
        <5>2. Len(kept) = 1
          BY <2>2, <4>1, <4>2, <4>5, <5>1
        <5> QED
          BY <2>2, <5>2
      <4>7. Append(<< >>, line) = kept
        <5>1. Append(<< >>, line) \in Seq(Texts)
          BY <2>4, <4>3
        <5> QED
          BY <1>5, <4>4, <4>6, <5>1, SeqEqual
      <4>8. \A j \in 1 .. Len(kept) : kept[j] = kept[Len(kept) - Len(kept) + j]
        BY <4>6
      <4>9. Ends(kept, kept)
        BY <4>1, <4>8 DEF Ends
      <4> QED
        BY <1>4, <4>3, <4>7, <4>9
    <3> QED
      BY <3>1, <3>2
  <2>6. /\ file'.tail # Empty => file'.lines = << >>
        /\ Short(file)' = Short(f) /\ Whole(file)' = Whole(f)
    BY <2>3 DEF Short, Whole
  <2> QED
    BY <1>2, <1>4, <2>5, <2>6 DEF FileInv
<1>7. CASE ~(Len(file.lines) > Limit)
  <2>1. file' = file
    BY <1>3, <1>7 DEF Rewritten
  <2>2. Ends(kept, NonEmpty(Whole(file)))
    <3>1. CASE file.tail = Empty
      BY <1>2, <3>1 DEF Whole
    <3>2. CASE file.tail # Empty
      <4>1. NonEmpty(file.lines) = << >>
        BY <1>t, <3>2, NonEmptyOfNone
      <4>2. Len(kept) <= 0
        <5>1. Len(<< >>) = 0
          OBVIOUS
        <5> QED
          BY <1>2, <4>1, <5>1 DEF Ends
      <4>3. kept = << >>
        BY <1>2, <4>2
      <4>4. NonEmpty(Whole(file)) \in Seq(Texts)
        BY <1>t, WholeType, NonEmptyType
      <4> QED
        BY <4>3, <4>4, NoneEnds
    <3> QED
      BY <3>1, <3>2
  <2>3. Short(file)' = Short(file) /\ Whole(file)' = Whole(file)
    BY <2>1 DEF Short, Whole
  <2> QED
    BY <1>2, <1>4, <1>t, <2>1, <2>2, <2>3 DEF FileInv
<1> QED
  BY <1>6, <1>7

-----------------------------------------------------------------------------
(* The theorems.                                                           *)

\* What a step does to the lines that can be recalled.
Keeping ==
  \/ Prev \/ Next_ \/ Interrupt
  \/ \E t \in Typed \cup {Empty} : Edit(t)

LEMMA TypedTexts == Typed \cup {Empty} \subseteq Texts
<1>1. \A l \in Lines : <<l>> \in Texts
  BY DEF Texts
<1>2. Empty \in Texts
  BY DEF Empty, Texts
<1> QED
  BY <1>1, <1>2 DEF Typed

LEMMA KeepingStep ==
  ASSUME ListInv, Keeping
  PROVE  /\ ListInv' /\ UNCHANGED <<fd, file, vi>>
         /\ fd = "open" => Forgotten(Sources', Sources)
<1>1. CASE Prev
  <2>1. h.cur - 1 \in {h.cur - 1, h.cur + 1} /\ Walk(h.cur - 1)
    BY <1>1 DEF Prev
  <2> QED
    BY <2>1, WalkStep DEF Walk
<1>2. CASE Next_
  <2>1. h.cur + 1 \in {h.cur - 1, h.cur + 1} /\ Walk(h.cur + 1)
    BY <1>2 DEF Next_
  <2> QED
    BY <2>1, WalkStep DEF Walk
<1>3. CASE Interrupt
  BY <1>3, InterruptStep DEF Interrupt
<1>4. CASE \E t \in Typed \cup {Empty} : Edit(t)
  <2>1. PICK t \in Texts : Edit(t)
    BY <1>4, TypedTexts
  <2> QED
    BY <2>1, EditStep DEF Edit
<1> QED
  BY <1>1, <1>2, <1>3, <1>4 DEF Keeping

LEMMA NextCases ==
  ASSUME Next
  PROVE  \/ Begin \/ BeginWithoutFile \/ Leave \/ Submit \/ Keeping
         \/ \E t \in Texts : ViEdit(t)
BY TypedTexts DEF Next, Keeping

LEMMA InvInit == Init => HInv
<1> SUFFICES ASSUME Init PROVE HInv
  OBVIOUS
<1>1. ListInv
  BY InitList
<1>2. FileInv
  BY DEF Init, FileInv
<1> QED
  BY <1>1, <1>2 DEF HInv

LEMMA InvStep == HInv /\ [Next]_vars => HInv'
<1> SUFFICES ASSUME HInv, [Next]_vars PROVE HInv'
  OBVIOUS
<1>i. ListInv /\ FileInv
  BY DEF HInv
<1>1. CASE Begin
  BY <1>1, BeginFile DEF HInv
<1>2. CASE BeginWithoutFile \/ Leave
  <2>1. ListInv' /\ fd' # "open"
    BY <1>i, <1>2, OtherSteps
  <2>2. file' = file
    BY <1>2 DEF BeginWithoutFile, Leave
  <2> QED
    BY <1>i, <2>1, <2>2 DEF HInv, FileInv
<1>3. CASE Submit
  BY <1>3, SubmitFile DEF HInv
<1>4. CASE Keeping
  BY <1>i, <1>4, KeepingStep, FileStays DEF HInv
<1>5. CASE \E t \in Texts : ViEdit(t)
  <2>1. PICK t \in Texts : ViEdit(t)
    BY <1>5
  <2>2. ListInv' /\ Sources' = Sources
    BY <1>i, <2>1, ViEditStep
  <2>3. UNCHANGED <<fd, file>>
    BY <2>1 DEF ViEdit
  <2> QED
    BY <2>2, <2>3, FileStays DEF HInv, Forgotten
<1>6. CASE UNCHANGED vars
  BY <1>i, <1>6
     DEF vars, HInv, ListInv, HistoryTypes, FullInv, OpenInv, LiveInv, ClosedInv,
         LineIsCurrentItem, FileInv, Sources, Short, Whole
<1> QED
  BY <1>1, <1>2, <1>3, <1>4, <1>5, <1>6, NextCases

LEMMA InvAlways == Spec => []HInv
BY InvInit, InvStep, PTL DEF Spec

\* Everything has its type; in particular the cursor is always an element of
\* the list while there is one, which New uses without a look
\* (history.go:262), and the list never has more than one line over its limit.
THEOREM HistoryTypeCorrect == Spec => []TypeOK
<1>1. HInv => TypeOK
  <2> SUFFICES ASSUME HInv PROVE TypeOK
    OBVIOUS
  <2>1. HistoryTypes /\ Sound(h) /\ h.items \in Seq(Items) /\ DOMAIN h.items = 1 .. Len(h.items)
    BY DEF HInv, ListInv, HistoryTypes, Sound, Lists
  <2>2. \A i \in DOMAIN h.items : h.items[i] \in Items
    BY <2>1
  <2>3. file.lines \in Seq(Texts) /\ file.tail \in Texts /\ h.bumped \in BOOLEAN
    BY <2>1 DEF HistoryTypes, Sound, Lists
  <2>4. \A i \in DOMAIN file.lines : file.lines[i] \in Texts
    BY <2>3
  <2> QED
    BY <2>1, <2>2, <2>3, <2>4 DEF HistoryTypes, Sound, Items, Texts, TypeOK, IsText
<1> QED
  BY <1>1, InvAlways, PTL

\* The item under the cursor shows the line under edit, whatever was walked
\* to, edited, submitted or interrupted before (operation.go:291, history.go:262).
THEOREM LineIsShown == Spec => []LineIsCurrentItem
<1>1. HInv => LineIsCurrentItem
  BY DEF HInv, ListInv
<1> QED
  BY <1>1, InvAlways, PTL

\* The lines that can be recalled are the last lines of the file, from one
\* session to the next, until a rewrite joins lines (history.go:120).
THEOREM FileKeepsLines == Spec => []FileFollowsList
<1>1. HInv => FileFollowsList
  <2> SUFFICES ASSUME HInv, fd = "open", ~Joined
               PROVE  IsSuffix(NonEmpty(Sources), NonEmpty(file.lines))
    BY DEF FileFollowsList
  <2>1. /\ Sound(h) /\ h.items # << >> /\ file.lines \in Seq(Texts)
        /\ file.tail = Empty /\ \A i \in DOMAIN file.lines : ~(Len(file.lines[i]) > 1)
    BY DEF HInv, ListInv, HistoryTypes, OpenInv, Joined
  <2>2. Sources \in Seq(Texts)
    BY <2>1, SourcesType DEF Sources, SourcesOf
  <2>3. Whole(file) = file.lines
    BY <2>1 DEF Whole
  <2>4. Short(file)
    <3>1. SUFFICES ASSUME NEW i \in 1 .. Len(file.lines) PROVE Len(file.lines[i]) <= 1
      BY <2>3 DEF Short
    <3>2. i \in DOMAIN file.lines /\ file.lines[i] \in Texts
      BY <2>1
    <3>3. Len(file.lines[i]) \in Nat
      BY <3>2 DEF Texts
    <3> QED
      BY <2>1, <3>2, <3>3
  <2>5. Ends(NonEmpty(Sources), NonEmpty(file.lines))
    BY <2>3, <2>4 DEF HInv, FileInv
  <2>6. NonEmpty(Sources) \in Seq(Texts) /\ NonEmpty(file.lines) \in Seq(Texts)
    BY <2>1, <2>2, NonEmptyType
  <2> QED
    BY <2>5, <2>6, EndsIsSuffix
<1> QED
  BY <1>1, InvAlways, PTL

-----------------------------------------------------------------------------
(* The refinement of Recall.                                               *)

Emacs == fd = "open" /\ ~vi
Recalled == IF Emacs THEN Sources ELSE << >>

LEMMA SameNewest ==
  ASSUME NEW s, NEW n PROVE Promise!Newest(s, n) = Newest(s, n)
BY DEF Newest, Promise!Newest

\* Only lines are forgotten: nothing, or the oldest line of a full list.
LEMMA ForgetMaps ==
  ASSUME UNCHANGED <<fd, vi>>, fd = "open" => Forgotten(Sources', Sources)
  PROVE  [Promise!Next]_<<Emacs, Recalled>>
<1>1. CASE Emacs /\ Sources' # Sources
  <2>1. Len(Sources) = Limit /\ Sources' = Tail(Sources) /\ Emacs'
    BY <1>1 DEF Forgotten, Emacs
  <2>2. Recalled = Sources /\ Recalled' = Sources' /\ Emacs' = Emacs
    BY <1>1, <2>1 DEF Recalled
  <2>3. Promise!Forget
    BY <1>1, <2>1, <2>2 DEF Promise!Forget, Emacs, Recalled
  <2> QED
    BY <2>3 DEF Promise!Next
<1>2. CASE ~(Emacs /\ Sources' # Sources)
  <2>1. Emacs' = Emacs
    BY DEF Emacs
  <2>2. Recalled' = Recalled
    BY <1>2, <2>1 DEF Recalled
  <2> QED
    BY <2>1, <2>2
<1> QED
  BY <1>1, <1>2

LEMMA BeginMaps ==
  ASSUME HInv, Begin
  PROVE  [Promise!Next]_<<Emacs, Recalled>>
<1>1. PICK kept : kept = Newest(NonEmpty(file.lines), Limit)
  OBVIOUS
<1>2. kept \in Seq(Seq(Lines)) /\ Len(kept) <= Limit /\ Sources' = kept
  BY <1>1, BeginStep DEF HInv, Recorded, Texts
<1>3. ~Emacs /\ Recalled = << >>
  BY DEF Begin, Emacs, Recalled
<1>4. CASE Emacs'
  <2>1. Recalled' = kept
    BY <1>2, <1>4 DEF Recalled
  <2>2. Promise!Begin
    BY <1>2, <1>3, <1>4, <2>1 DEF Promise!Begin, Emacs, Recalled
  <2> QED
    BY <2>2 DEF Promise!Next
<1>5. CASE ~Emacs'
  <2>1. Recalled' = << >>
    BY <1>5 DEF Recalled
  <2>2. Emacs' = Emacs
    BY <1>3, <1>5 DEF Emacs
  <2> QED
    BY <1>3, <2>1, <2>2
<1> QED
  BY <1>4, <1>5

\* Without a file, and after the end, nothing can be recalled.
LEMMA EndMaps ==
  ASSUME BeginWithoutFile \/ Leave
  PROVE  [Promise!Next]_<<Emacs, Recalled>>
<1>1. ~Emacs' /\ Recalled' = << >>
  BY DEF BeginWithoutFile, Leave, Emacs, Recalled
<1>2. CASE Emacs
  <2>1. Promise!End
    BY <1>1, <1>2 DEF Promise!End, Emacs, Recalled
  <2> QED
    BY <2>1 DEF Promise!Next
<1>3. CASE ~Emacs
  <2>1. Emacs' = Emacs /\ Recalled' = Recalled
    BY <1>1, <1>3 DEF Emacs, Recalled
  <2> QED
    BY <2>1
<1> QED
  BY <1>2, <1>3

\* The line that is recorded is the one that was under edit.
LEMMA MovedIsText ==
  ASSUME HInv, Emacs
  PROVE  Moved(h, text) = text
<1>1. CASE h.cur # Len(h.items)
  <2>1. h.items[h.cur].live /\ Shown(h.items[h.cur]) = text
    BY <1>1 DEF HInv, ListInv, LiveInv, LineIsCurrentItem, Emacs
  <2> QED
    BY <1>1, <2>1 DEF Moved, Shown
<1> QED
  BY <1>1 DEF Moved

\* The newest lines end in the last one.
LEMMA NewestKeepsLast ==
  ASSUME NEW q \in Seq(Texts), NEW n \in Nat, Len(q) = n + 1, NEW k \in Nat, k >= 1
  PROVE  Newest(q, k) # << >> /\ Newest(q, k)[Len(Newest(q, k))] = q[n + 1]
<1>1. CASE n + 1 <= k
  <2>1. Newest(q, k) = q /\ q # << >>
    BY <1>1 DEF Newest
  <2> QED
    BY <2>1
<1>2. CASE ~(n + 1 <= k)
  <2>1. PICK gone \in Nat : n + 1 = gone + k
    <3>1. n + 1 - k \in Nat /\ n + 1 = (n + 1 - k) + k
      BY <1>2
    <3> QED
      BY <3>1
  <2>2. /\ Newest(q, k) \in Seq(Texts) /\ Len(Newest(q, k)) = k
        /\ \A j \in 1 .. k : Newest(q, k)[j] = q[j + gone]
    <3>1. Len(q) = gone + k
      BY <2>1
    <3> QED
      BY <3>1, NewestFacts
  <2>3. k \in 1 .. k /\ k + gone = n + 1
    BY <2>1
  <2>4. Newest(q, k) # << >>
    BY <2>2
  <2> QED
    BY <2>2, <2>3, <2>4
<1> QED
  BY <1>1, <1>2

LEMMA RecordMaps ==
  ASSUME HInv, Submit, Emacs, ~Nothing(h, text)
  PROVE  [Promise!Next]_<<Emacs, Recalled>>
<1>a. Limit \in Nat /\ Limit >= 2
  BY HistoryAssumption
<1>t. /\ ListInv /\ Sound(h) /\ text \in Seq(Lines) /\ h.items # << >> /\ fd = "open"
      /\ h.items \in Seq(Items)
  BY DEF HInv, ListInv, HistoryTypes, OpenInv, Emacs, Texts, Sound, Lists
<1>1. PICK len \in Nat : len = Len(h.items) /\ len >= 1
  BY <1>t
<1>2. text # << >> /\ (len > 1 => h.items[len - 1].src # text)
  BY <1>1 DEF Nothing, Empty
<1>3. Sources' = Newest(Append(Sources, text), Limit - 1)
  BY <1>t, SubmitStep, MovedIsText
<1>4. /\ SourcesOf(h) \in Seq(Texts) /\ Len(SourcesOf(h)) = len - 1
      /\ \A j \in 1 .. (len - 1) : SourcesOf(h)[j] = h.items[j].src
  BY <1>t, <1>1, SourcesFacts
<1>5. PICK s \in Seq(Texts), all \in Seq(Texts), n \in Nat :
        /\ s = Sources /\ Len(s) = n /\ len = n + 1
        /\ all = Append(s, text) /\ Len(all) = n + 1 /\ all[n + 1] = text
        /\ s # << >> => s[n] # text
  <2>1. PICK n \in Nat : n = len - 1 /\ len = n + 1
    <3>1. len - 1 \in Nat /\ len = (len - 1) + 1
      BY <1>1
    <3> QED
      BY <3>1
  <2>2. PICK s \in Seq(Texts) : s = Sources /\ s = SourcesOf(h) /\ Len(s) = n
    BY <1>4, <2>1 DEF Sources, SourcesOf
  <2>3. PICK all \in Seq(Texts) : /\ all = Append(s, text) /\ Len(all) = n + 1
                                  /\ all[n + 1] = text
    <3>1. text \in Texts
      BY <1>t DEF Texts
    <3>2. /\ Append(s, text) \in Seq(Texts) /\ Len(Append(s, text)) = n + 1
          /\ Append(s, text)[n + 1] = text
      BY <2>2, <3>1, AppendProperties
    <3> QED
      BY <3>2
  <2>4. s # << >> => s[n] # text
    <3>1. SUFFICES ASSUME s # << >> PROVE s[n] # text
      OBVIOUS
    <3>2. n \in 1 .. n /\ len > 1 /\ n \in 1 .. (len - 1) /\ len - 1 = n
      BY <2>1, <2>2, <3>1
    <3> QED
      BY <1>2, <1>4, <2>2, <3>2
  <2> QED
    BY <2>1, <2>2, <2>3, <2>4
<1>6. PICK k \in Nat : k = Limit - 1 /\ k >= 1
  <2>1. Limit - 1 \in Nat /\ Limit - 1 >= 1
    BY <1>a
  <2> QED
    BY <2>1
<1>7. PICK new : new = Newest(all, k)
  OBVIOUS
<1>8. new # << >> /\ new[Len(new)] = text
  <2>1. Len(all) = n + 1
    BY <1>5
  <2>2. Newest(all, k) # << >> /\ Newest(all, k)[Len(Newest(all, k))] = all[n + 1]
    BY <1>6, <2>1, NewestKeepsLast
  <2> QED
    BY <1>5, <1>7, <2>2
<1>9. Emacs' /\ Emacs' = Emacs /\ Recalled = s /\ Recalled' = new
  BY <1>3, <1>5, <1>6, <1>7 DEF Submit, Emacs, Recalled
<1>10. new = Promise!Newest(Append(s, text), Limit - 1)
  BY <1>5, <1>6, <1>7, SameNewest
<1>11. Promise!Record
  BY <1>t, <1>2, <1>5, <1>8, <1>9, <1>10 DEF Promise!Record, Emacs, Recalled
<1> QED
  BY <1>11 DEF Promise!Next

LEMMA SubmitMaps ==
  ASSUME HInv, Submit
  PROVE  [Promise!Next]_<<Emacs, Recalled>>
<1>1. UNCHANGED <<fd, vi>>
  BY DEF Submit
<1>2. CASE Emacs /\ ~Nothing(h, text)
  BY <1>2, RecordMaps
<1>3. CASE Emacs /\ Nothing(h, text)
  <2>1. Forgotten(Sources', Sources)
    BY <1>3, SubmitStep DEF HInv, Emacs
  <2> QED
    BY <1>1, <2>1, ForgetMaps
<1>4. CASE ~Emacs
  <2>1. Emacs' = Emacs /\ Recalled' = Recalled
    BY <1>1, <1>4 DEF Emacs, Recalled
  <2> QED
    BY <2>1
<1> QED
  BY <1>2, <1>3, <1>4

\* A session in emacs mode keeps what Recall promises: a submitted line is added
\* at the end of what can be recalled, never twice in a row and never empty, and
\* only the oldest line is forgotten, when the list is full (history.go:92, 234).
THEOREM SessionRecalls == Spec => ImplementsRecall
<1>1. Init => Promise!Init
  BY DEF Init, Promise!Init
<1>2. HInv /\ [Next]_vars => [Promise!Next]_<<Emacs, Recalled>>
  <2> SUFFICES ASSUME HInv, [Next]_vars PROVE [Promise!Next]_<<Emacs, Recalled>>
    OBVIOUS
  <2>1. CASE Begin
    BY <2>1, BeginMaps
  <2>2. CASE BeginWithoutFile \/ Leave
    BY <2>2, EndMaps
  <2>3. CASE Submit
    BY <2>3, SubmitMaps
  <2>4. CASE Keeping
    BY <2>4, KeepingStep, ForgetMaps DEF HInv
  <2>5. CASE \E t \in Texts : ViEdit(t)
    <3>1. vi /\ UNCHANGED <<fd, vi>>
      BY <2>5 DEF ViEdit
    <3> QED
      BY <3>1 DEF Emacs, Recalled
  <2>6. CASE UNCHANGED vars
    BY <2>6 DEF vars, Emacs, Recalled, Sources
  <2> QED
    BY <2>1, <2>2, <2>3, <2>4, <2>5, <2>6, NextCases
<1>3. Promise!Spec <=> Promise!Init /\ [][Promise!Next]_<<Emacs, Recalled>>
  BY DEF Promise!Spec, Emacs, Recalled
<1> QED
  BY <1>1, <1>2, <1>3, InvAlways, PTL DEF Spec, ImplementsRecall
=============================================================================
