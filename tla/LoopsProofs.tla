----------------------------- MODULE LoopsProofs ---------------------------
(***************************************************************************)
(* Theorems about Loops, for every depth of the stack, size of a block and *)
(* number of scripts and signals.  The invariant is about the frames: what *)
(* kind of frame may be below or above which, and which values can reach   *)
(* the innermost one.                                                      *)
(***************************************************************************)
EXTENDS Loops, SequenceTheorems, TLAPS

FrameOK(k) ==
  /\ k = 1 => stack[k].t = "tree" /\ stack[k].stop
  /\ stack[k].t = "loop" => k < MaxFrames
  /\ stack[k].t = "tree" /\ (k < Depth \/ val # "none") => stack[k].left > 0
  /\ stack[k].t = "loop" /\ stack[k].phase = "in" =>
       IF k < Depth THEN stack[k + 1].t = "fn" ELSE val \in {"nil", "err"}
  /\ stack[k].t = "loop" /\ stack[k].phase = "exit" => k = Depth /\ val # "none"
  /\ stack[k].t \in CallKinds =>
       IF k < Depth THEN stack[k + 1].t = "tree" /\ stack[k + 1].stop ELSE val # "stop"

\* A script is a block that takes returns; a block that waits for a statement
\* has one left; a loop that waits for its list waits for a function; a loop
\* that ends calls nothing and has a value to return; a call runs a body that
\* takes returns, and gets none.
FrameInv == \A k \in 1 .. Depth : FrameOK(k)

WalkInv == TypeOK /\ FrameInv /\ NoMarkerEscapes /\ LoopingHasALoop

IInv == WalkInv /\ OneLoopPerSignal

\* The types of what the walker's stack is not.
RestTypes ==
  /\ interrupted \in BOOLEAN /\ pending \in BOOLEAN /\ received \in BOOLEAN
  /\ scripts \in 0 .. MaxScripts /\ sent \in 0 .. MaxSignals
  /\ handled \in Nat /\ taken \in Nat

-----------------------------------------------------------------------------
(* What the primitives of the walker do to the stack.                      *)

LEMMA Bounds ==
  /\ MaxLevel \in Nat /\ MaxBody \in Nat /\ MaxIter \in Nat /\ MaxScripts \in Nat
  /\ MaxSignals \in Nat /\ MaxFrames \in Nat \ {0}
BY LoopsAssumption

\* The frames the walker makes.
LEMMA FrameTypes ==
  ASSUME NEW l \in Levels
  PROVE  /\ \A n \in 0 .. MaxBody, s \in BOOLEAN : Tree(l, n, s) \in Frames
         /\ \A n \in 0 .. MaxIter, inf \in BOOLEAN, ph \in {"in", "iter", "exit"} :
              Loop(l, n, inf, ph) \in Frames
         /\ \A kind \in CallKinds : Call(kind, l) \in Frames
BY Bounds DEF Tree, Loop, Call, Frames

LEMMA LeftFacts ==
  ASSUME NEW f \in Frames, NEW x \in 0 .. (MaxBody + MaxIter)
  PROVE  /\ [f EXCEPT !.left = x] \in Frames
         /\ [f EXCEPT !.left = x].t = f.t /\ [f EXCEPT !.left = x].stop = f.stop
         /\ [f EXCEPT !.left = x].lv = f.lv /\ [f EXCEPT !.left = x].phase = f.phase
BY DEF Frames

\* A call is put on the stack with its body, and so is a loop that calls.
LEMMA CallFacts ==
  ASSUME NEW a \in Frames, NEW b \in Frames, NEW c \in Frames
  PROVE  /\ <<a, b>> \in Seq(Frames) /\ Len(<<a, b>>) = 2
         /\ <<a, b>>[1] = a /\ <<a, b>>[2] = b
         /\ <<c>> \o <<a, b>> = <<c, a, b>>
<1>1. /\ <<a, b>> \in Seq(Frames) /\ Len(<<a, b>>) = 2
      /\ <<a, b>>[1] = a /\ <<a, b>>[2] = b
  OBVIOUS
<1>2. /\ <<c>> \in Seq(Frames) /\ Len(<<c>>) = 1 /\ <<c>>[1] = c
  OBVIOUS
<1>3. /\ <<c>> \o <<a, b>> \in Seq(Frames) /\ Len(<<c>> \o <<a, b>>) = 3
      /\ (<<c>> \o <<a, b>>)[1] = c /\ (<<c>> \o <<a, b>>)[2] = a
      /\ (<<c>> \o <<a, b>>)[3] = b
  BY <1>1, <1>2, ConcatProperties
<1>4. <<c, a, b>> \in Seq(Frames) /\ Len(<<c, a, b>>) = 3
  OBVIOUS
<1>5. <<c>> \o <<a, b>> = <<c, a, b>>
  <2> DEFINE u == <<c>> \o <<a, b>>
             w == <<c, a, b>>
  <2>1. u \in Seq(Frames) /\ w \in Seq(Frames) /\ Len(u) = 3 /\ Len(w) = 3
    BY <1>3, <1>4
  <2>2. u[1] = w[1] /\ u[2] = w[2] /\ u[3] = w[3]
    BY <1>3
  <2> HIDE DEF u, w
  <2>3. u = w
    BY <2>1, <2>2, SeqEqual
  <2> QED
    BY <2>3 DEF u, w
<1> QED
  BY <1>1, <1>5

LEMMA TopFacts ==
  ASSUME stack \in Seq(Frames), stack # <<>>
  PROVE  /\ Depth \in Nat \ {0} /\ Top \in Frames
         /\ Below \in Seq(Frames) /\ Len(Below) = Depth - 1
         /\ \A k \in 1 .. Depth - 1 : Below[k] = stack[k]
<1>1. Depth \in Nat \ {0}
  BY EmptySeq DEF Depth
<1>2. Top \in Frames
  BY <1>1, ElementOfSeq DEF Depth, Top
<1>3. /\ Below \in Seq(Frames) /\ Len(Below) = Depth - 1
      /\ \A k \in 1 .. Depth - 1 : Below[k] = stack[k]
  <2>1. \A k \in 1 .. Depth - 1 : stack[k] \in Frames
    BY <1>1 DEF Depth
  <2> QED
    BY <1>1, <2>1, SubSeqProperties DEF Below
<1> QED
  BY <1>1, <1>2, <1>3

\* The innermost call returns; a function returns nothing but nil and err, and
\* its body takes a return.
LEMMA PopFacts ==
  ASSUME TypeOK, FrameInv, stack # <<>>, NEW v \in Errors, Pop(v),
         Top.t = "fn" => v \in {"nil", "err"},
         Top.t = "tree" /\ Top.stop => v # "stop"
  PROVE  /\ stack' \in Seq(Frames) /\ Len(stack') = Depth - 1 /\ val' = v
         /\ \A k \in 1 .. Depth - 1 : stack'[k] = stack[k]
         /\ FrameInv'
<1>1. /\ Depth \in Nat \ {0} /\ Top = stack[Depth] /\ stack' = Below /\ val' = v
      /\ Below \in Seq(Frames) /\ Len(Below) = Depth - 1
      /\ \A k \in 1 .. Depth - 1 : Below[k] = stack[k]
  BY TopFacts DEF TypeOK, Pop, Top
<1>2. ASSUME NEW k \in 1 .. Depth - 1
      PROVE  FrameOK(k)'
  <2>1. k \in 1 .. Depth /\ FrameOK(k) /\ k < Depth /\ Depth' = Depth - 1
    BY <1>1 DEF FrameInv, Depth
  <2>2. stack'[k] = stack[k]
    BY <1>1
  <2>3. CASE k < Depth - 1
    <3>1. k + 1 \in 1 .. Depth - 1 /\ stack'[k + 1] = stack[k + 1]
      BY <1>1, <2>3
    <3> QED
      BY <1>1, <2>1, <2>2, <2>3, <3>1 DEF FrameOK
  <2>4. CASE k = Depth - 1
    BY <1>1, <2>1, <2>2, <2>4 DEF FrameOK
  <2> QED
    BY <1>1, <2>3, <2>4
<1>3. FrameInv'
  BY <1>1, <1>2 DEF FrameInv, Depth
<1> QED
  BY <1>1, <1>3

\* The innermost frame changes, but stays what it is.
LEMMA ReplaceFacts ==
  ASSUME TypeOK, FrameInv, stack # <<>>, NEW f \in Frames, Replace(f),
         f.t = Top.t, f.stop = Top.stop, f.t \notin CallKinds,
         f.t = "tree" => val' = "none",
         f.t = "loop" => f.phase # "in" /\ (f.phase = "exit" => val' # "none")
  PROVE  /\ stack' \in Seq(Frames) /\ Len(stack') = Depth /\ stack'[Depth] = f
         /\ \A k \in 1 .. Depth - 1 : stack'[k] = stack[k]
         /\ FrameInv'
<1>1. /\ Depth \in Nat \ {0} /\ Top = stack[Depth] /\ stack' = Append(Below, f)
      /\ Below \in Seq(Frames) /\ Len(Below) = Depth - 1
      /\ \A k \in 1 .. Depth - 1 : Below[k] = stack[k]
  BY TopFacts DEF TypeOK, Replace, Top
<1>2. /\ stack' \in Seq(Frames) /\ Len(stack') = Depth /\ stack'[Depth] = f
      /\ \A k \in 1 .. Depth - 1 : stack'[k] = stack[k]
  BY <1>1
<1>3. ASSUME NEW k \in 1 .. Depth
      PROVE  FrameOK(k)'
  <2>1. FrameOK(k) /\ Depth' = Depth
    BY <1>2 DEF FrameInv, Depth
  <2>2. CASE k < Depth
    <3>1. k \in 1 .. Depth - 1 /\ stack'[k] = stack[k]
      BY <1>1, <1>2, <2>2
    <3>2. stack'[k + 1].t = stack[k + 1].t /\ stack'[k + 1].stop = stack[k + 1].stop
      BY <1>1, <1>2, <2>2
    <3> QED
      BY <2>1, <2>2, <3>1, <3>2 DEF FrameOK
  <2>3. CASE k = Depth
    BY <1>1, <1>2, <2>1, <2>3 DEF FrameOK, CallKinds
  <2> QED
    BY <1>1, <2>2, <2>3
<1>4. FrameInv'
  BY <1>1, <1>2, <1>3 DEF FrameInv, Depth
<1> QED
  BY <1>2, <1>4

\* A block, with the frames it is executed in, is put on the stack.
LEMMA PushFacts ==
  ASSUME TypeOK, FrameInv, AtStatement, NEW fs \in Seq(Frames), Push(fs),
         \A j \in 1 .. Len(fs) :
           /\ fs[j].t = "tree" => j = Len(fs) /\ val' = "none"
           /\ fs[j].t = "loop" /\ fs[j].phase = "in" => j < Len(fs) /\ fs[j + 1].t = "fn"
           /\ fs[j].t = "loop" /\ fs[j].phase = "exit" => j = Len(fs) /\ val' # "none"
           /\ fs[j].t \in CallKinds => j < Len(fs) /\ fs[j + 1].t = "tree" /\ fs[j + 1].stop
  PROVE  /\ stack' \in Seq(Frames) /\ Len(stack') = Depth + Len(fs)
         /\ Len(stack') < MaxFrames
         /\ \A k \in 1 .. Depth : stack'[k] = stack[k]
         /\ \A j \in 1 .. Len(fs) : stack'[Depth + j] = fs[j]
         /\ FrameInv'
<1>1. /\ stack \in Seq(Frames) /\ Depth \in Nat \ {0} /\ Top = stack[Depth] /\ Len(fs) \in Nat
      /\ Top.t = "tree" /\ Top.left > 0 /\ val = "none"
      /\ stack' = stack \o fs /\ Depth + Len(fs) < MaxFrames
  BY TopFacts DEF TypeOK, AtStatement, Top, Push
<1>2. /\ stack' \in Seq(Frames) /\ Len(stack') = Depth + Len(fs)
      /\ \A k \in 1 .. Depth : stack'[k] = stack[k]
      /\ \A j \in 1 .. Len(fs) : stack'[Depth + j] = fs[j]
  BY <1>1 DEF Depth
<1>3. Depth' = Depth + Len(fs) /\ MaxFrames \in Nat
  BY <1>2, Bounds DEF Depth
<1>4. ASSUME NEW k \in 1 .. Depth
      PROVE  FrameOK(k)'
  <2>1. FrameOK(k) /\ stack'[k] = stack[k]
    BY <1>2 DEF FrameInv
  <2>2. CASE k = Depth
    BY <1>1, <1>3, <2>1, <2>2 DEF FrameOK, CallKinds
  <2>3. CASE k < Depth
    <3>1. k + 1 \in 1 .. Depth /\ stack'[k + 1] = stack[k + 1] /\ k < Depth'
      BY <1>1, <1>2, <1>3, <2>3
    <3> QED
      BY <2>1, <2>3, <3>1 DEF FrameOK
  <2> QED
    BY <1>1, <2>2, <2>3
<1>5. ASSUME NEW k \in Depth + 1 .. Depth + Len(fs)
      PROVE  FrameOK(k)'
  <2> DEFINE j == k - Depth
  <2>1. j \in 1 .. Len(fs) /\ k = Depth + j /\ k \in Int
    BY <1>1, SMTT(40)
  <2> HIDE DEF j
  <2>2. stack'[k] = fs[j] /\ k # 1 /\ k < MaxFrames
    BY <1>1, <1>2, <1>3, <2>1
  <2>3. fs[j].t = "tree" => ~(k < Depth') /\ val' = "none"
    BY <1>1, <1>3, <2>1
  <2>4. ASSUME fs[j].t = "loop", fs[j].phase = "in"
        PROVE  k < Depth' /\ stack'[k + 1].t = "fn"
    <3>1. j + 1 \in 1 .. Len(fs) /\ fs[j + 1].t = "fn"
      BY <1>1, <2>1, <2>4
    <3>2. stack'[Depth + (j + 1)] = fs[j + 1]
      BY <1>2, <3>1
    <3>3. Depth + (j + 1) = k + 1 /\ k < Depth + Len(fs)
      BY <1>1, <2>1, <3>1
    <3> QED
      BY <1>3, <3>1, <3>2, <3>3
  <2>5. fs[j].t = "loop" /\ fs[j].phase = "exit" => k = Depth' /\ val' # "none"
    BY <1>1, <1>3, <2>1
  <2>6. ASSUME fs[j].t \in CallKinds
        PROVE  k < Depth' /\ stack'[k + 1].t = "tree" /\ stack'[k + 1].stop
    <3>1. j + 1 \in 1 .. Len(fs) /\ fs[j + 1].t = "tree" /\ fs[j + 1].stop
      <4>1. j < Len(fs) /\ fs[j + 1].t = "tree" /\ fs[j + 1].stop
        BY <2>1, <2>6
      <4> QED
        BY <1>1, <2>1, <4>1
    <3>2. stack'[Depth + (j + 1)] = fs[j + 1]
      BY <1>2, <3>1
    <3>3. Depth + (j + 1) = k + 1 /\ k < Depth + Len(fs)
      BY <1>1, <2>1, <3>1
    <3> QED
      BY <1>3, <3>1, <3>2, <3>3
  <2> QED
    BY <2>2, <2>3, <2>4, <2>5, <2>6 DEF FrameOK
<1>6. FrameInv'
  <2>1. ASSUME NEW k \in 1 .. Depth + Len(fs) PROVE FrameOK(k)'
    <3>1. k \in 1 .. Depth \/ k \in Depth + 1 .. Depth + Len(fs)
      BY <1>1
    <3> QED
      BY <1>4, <1>5, <3>1
  <2> QED
    BY <1>3, <2>1 DEF FrameInv
<1> QED
  BY <1>1, <1>2, <1>6

-----------------------------------------------------------------------------
(* What they do to the invariant.                                          *)

\* A statement that calls nothing hands its value to its block.
LEMMA KeepStep ==
  ASSUME WalkInv, RestTypes', AtStatement, stack' = stack, val' \in Errors,
         looping' = looping
  PROVE  WalkInv'
<1>1. /\ stack \in Seq(Frames) /\ stack # <<>> /\ Depth \in Nat \ {0} /\ Top = stack[Depth]
      /\ Top.t = "tree" /\ Top.left > 0 /\ Depth' = Depth
  BY TopFacts DEF WalkInv, TypeOK, AtStatement, Top, Depth
<1>2. TypeOK'
  BY <1>1 DEF WalkInv, TypeOK, RestTypes
<1>3. FrameInv'
  <2> SUFFICES ASSUME NEW k \in 1 .. Depth PROVE FrameOK(k)'
    BY <1>1 DEF FrameInv
  <2>1. FrameOK(k)
    BY DEF WalkInv, FrameInv
  <2> QED
    BY <1>1, <2>1 DEF FrameOK, CallKinds
<1>4. LoopingHasALoop'
  BY <1>1 DEF WalkInv, LoopingHasALoop, LoopsOn
<1> QED
  BY <1>1, <1>2, <1>3, <1>4 DEF WalkInv, NoMarkerEscapes

\* A call that is not a loop returns; a script, well or with an error.
LEMMA PopStep ==
  ASSUME WalkInv, RestTypes', stack # <<>>, NEW v \in Errors, Pop(v), looping' = looping,
         Top.t # "loop",
         Top.t = "fn" => v \in {"nil", "err"},
         Top.t = "tree" /\ Top.stop => v \in {"nil", "err", "intr"}
  PROVE  WalkInv'
<1>1. /\ TypeOK /\ FrameInv /\ stack \in Seq(Frames)
      /\ Depth \in Nat \ {0} /\ Depth <= MaxFrames /\ MaxFrames \in Nat /\ Top = stack[Depth]
  BY TopFacts, Bounds DEF WalkInv, TypeOK, Top
<1>2. /\ stack' \in Seq(Frames) /\ Depth' = Depth - 1 /\ val' = v
      /\ \A k \in 1 .. Depth - 1 : stack'[k] = stack[k]
      /\ FrameInv'
  BY <1>1, PopFacts DEF Depth
<1>3. TypeOK'
  BY <1>1, <1>2 DEF TypeOK, RestTypes
<1>4. NoMarkerEscapes'
  <2>1. stack' = <<>> => Depth = 1
    BY <1>1, <1>2 DEF Depth
  <2>2. Depth = 1 => Top.t = "tree" /\ Top.stop
    BY <1>1 DEF FrameInv, FrameOK
  <2> QED
    BY <1>2, <2>1, <2>2 DEF NoMarkerEscapes
<1>5. \A l \in Levels : LoopsOn(l)' = LoopsOn(l)
  BY <1>1, <1>2 DEF LoopsOn
<1>6. LoopingHasALoop'
  BY <1>5 DEF WalkInv, LoopingHasALoop
<1> QED
  BY <1>2, <1>3, <1>4, <1>6 DEF WalkInv

\* The innermost frame goes on.
LEMMA ReplaceStep ==
  ASSUME WalkInv, RestTypes', stack # <<>>, NEW f \in Frames, Replace(f), looping' = looping,
         val' \in Errors \union {"none"},
         f.t = Top.t, f.stop = Top.stop, f.lv = Top.lv, f.t \notin CallKinds,
         f.t = "tree" => val' = "none",
         f.t = "loop" => f.phase # "in" /\ (f.phase = "exit" => val' # "none")
  PROVE  WalkInv'
<1>1. /\ TypeOK /\ FrameInv /\ stack \in Seq(Frames)
      /\ Depth \in Nat \ {0} /\ Depth <= MaxFrames /\ Top = stack[Depth]
  BY TopFacts DEF WalkInv, TypeOK, Top
<1>2. /\ stack' \in Seq(Frames) /\ Depth' = Depth /\ stack'[Depth] = f
      /\ \A k \in 1 .. Depth - 1 : stack'[k] = stack[k]
      /\ FrameInv'
  BY <1>1, ReplaceFacts DEF Depth
<1>3. TypeOK'
  BY <1>1, <1>2 DEF TypeOK, RestTypes
<1>4. NoMarkerEscapes'
  BY <1>1, <1>2 DEF NoMarkerEscapes, Depth
<1>5. \A l \in Levels : LoopsOn(l)' = LoopsOn(l)
  <2>1. \A k \in 1 .. Depth : stack'[k].t = stack[k].t /\ stack'[k].lv = stack[k].lv
    BY <1>1, <1>2
  <2> QED
    BY <1>2, <2>1 DEF LoopsOn
<1>6. LoopingHasALoop'
  BY <1>5 DEF WalkInv, LoopingHasALoop
<1> QED
  BY <1>2, <1>3, <1>4, <1>6 DEF WalkInv

\* A statement starts what it calls.
LEMMA PushStep ==
  ASSUME WalkInv, RestTypes', AtStatement, NEW fs \in Seq(Frames), Push(fs),
         val' \in Errors \union {"none"},
         looping' \in [Levels -> BOOLEAN],
         \A l \in Levels : looping'[l] =>
           \/ looping[l]
           \/ \E j \in 1 .. Len(fs) : fs[j].t = "loop" /\ fs[j].lv = l,
         \A j \in 1 .. Len(fs) :
           /\ fs[j].t = "tree" => j = Len(fs) /\ val' = "none"
           /\ fs[j].t = "loop" /\ fs[j].phase = "in" => j < Len(fs) /\ fs[j + 1].t = "fn"
           /\ fs[j].t = "loop" /\ fs[j].phase = "exit" => j = Len(fs) /\ val' # "none"
           /\ fs[j].t \in CallKinds => j < Len(fs) /\ fs[j + 1].t = "tree" /\ fs[j + 1].stop
  PROVE  WalkInv'
<1>1. /\ TypeOK /\ FrameInv /\ stack \in Seq(Frames) /\ stack # <<>>
      /\ Depth \in Nat \ {0} /\ MaxFrames \in Nat /\ Len(fs) \in Nat
  BY TopFacts, Bounds DEF WalkInv, TypeOK, AtStatement
<1>2. /\ stack' \in Seq(Frames) /\ Depth' = Depth + Len(fs) /\ Depth' < MaxFrames
      /\ \A k \in 1 .. Depth : stack'[k] = stack[k]
      /\ \A j \in 1 .. Len(fs) : stack'[Depth + j] = fs[j]
      /\ FrameInv'
  BY <1>1, PushFacts DEF Depth
<1>3. TypeOK'
  BY <1>1, <1>2 DEF TypeOK, RestTypes
<1>4. NoMarkerEscapes'
  BY <1>1, <1>2 DEF NoMarkerEscapes, Depth
<1>5. LoopingHasALoop'
  <2> SUFFICES ASSUME NEW l \in Levels, looping'[l] PROVE LoopsOn(l)' # {}
    BY DEF LoopingHasALoop
  <2>1. CASE looping[l]
    <3>1. PICK k \in 1 .. Depth : stack[k].t = "loop" /\ stack[k].lv = l
      BY <2>1 DEF WalkInv, LoopingHasALoop, LoopsOn
    <3>2. k \in 1 .. Depth' /\ stack'[k] = stack[k]
      BY <1>1, <1>2
    <3> QED
      BY <3>1, <3>2 DEF LoopsOn
  <2>2. CASE ~looping[l]
    <3>1. PICK j \in 1 .. Len(fs) : fs[j].t = "loop" /\ fs[j].lv = l
      BY <2>2
    <3>2. Depth + j \in 1 .. Depth' /\ stack'[Depth + j] = fs[j]
      BY <1>1, <1>2
    <3> QED
      BY <3>1, <3>2 DEF LoopsOn
  <2> QED
    BY <2>1, <2>2
<1> QED
  BY <1>2, <1>3, <1>4, <1>5 DEF WalkInv

\* The body of a loop is put on top of it.
LEMMA IterateStep ==
  ASSUME WalkInv, LoopIterate
  PROVE  WalkInv'
<1> DEFINE f == [Top EXCEPT !.left = IF Top.inf THEN 0 ELSE @ - 1]
<1>1. /\ TypeOK /\ FrameInv /\ NoMarkerEscapes /\ LoopingHasALoop
      /\ stack \in Seq(Frames) /\ stack # <<>> /\ Depth \in Nat \ {0} /\ MaxFrames \in Nat
      /\ Top \in Frames /\ Top = stack[Depth] /\ Top.t = "loop" /\ Top.phase = "iter"
      /\ Top.inf \/ Top.left > 0
      /\ Below \in Seq(Frames) /\ Len(Below) = Depth - 1
      /\ \A k \in 1 .. Depth - 1 : Below[k] = stack[k]
      /\ val = "none" /\ Quiet /\ val' = val
  BY TopFacts, Bounds DEF WalkInv, TypeOK, LoopIterate, InLoop, Top
<1>2. PICK n \in 0 .. MaxBody : stack' = Append(Below, f) \o <<Tree(Top.lv, n, FALSE)>>
  BY DEF LoopIterate
<1>3. f \in Frames /\ f.t = "loop" /\ f.lv = Top.lv /\ f.phase = "iter"
  <2> DEFINE x == IF Top.inf THEN 0 ELSE Top.left - 1
  <2>1. Top.left \in 0 .. (MaxBody + MaxIter)
    BY <1>1 DEF Frames
  <2>2. x \in 0 .. (MaxBody + MaxIter)
    <3>1. Top.inf \/ (Top.left > 0 /\ Top.left \in Nat)
      BY <1>1, <2>1, Bounds
    <3> QED
      BY <2>1, <3>1, Bounds
  <2>3. f = [Top EXCEPT !.left = x]
    OBVIOUS
  <2> HIDE DEF x
  <2> QED
    BY <1>1, <2>2, <2>3, LeftFacts
<1> DEFINE g == Tree(Top.lv, n, FALSE)
<1>4. g \in Frames /\ g.t = "tree"
  <2>1. Top.lv \in Levels
    BY <1>1 DEF Frames
  <2> QED
    BY <2>1, FrameTypes DEF Tree
<1> HIDE DEF f, g
<1>5. /\ stack' \in Seq(Frames) /\ Len(stack') = Depth + 1
      /\ \A k \in 1 .. Depth - 1 : stack'[k] = stack[k]
      /\ stack'[Depth] = f /\ stack'[Depth + 1] = g
  <2>1. stack' = Append(Below, f) \o <<g>> /\ g \in Frames /\ f \in Frames
    BY <1>2, <1>3, <1>4 DEF g
  <2>2. Append(Below, f) \in Seq(Frames) /\ <<g>> \in Seq(Frames) /\ Len(Append(Below, f)) = Depth
    BY <1>1, <2>1
  <2>3. /\ stack' \in Seq(Frames) /\ Len(stack') = Depth + 1
        /\ \A k \in 1 .. Depth : stack'[k] = Append(Below, f)[k]
        /\ stack'[Depth + 1] = g
    <3>1. Depth \in Nat /\ Len(<<g>>) = 1 /\ <<g>>[1] = g
      BY <1>1
    <3> DEFINE s == Append(Below, f)  t == <<g>>
    <3> HIDE DEF s, t
    <3>2. /\ s \o t \in Seq(Frames) /\ Len(s \o t) = Len(s) + Len(t)
          /\ \A k \in 1 .. Len(s) + Len(t) :
               (s \o t)[k] = IF k <= Len(s) THEN s[k] ELSE t[k - Len(s)]
      BY <2>2, ConcatProperties DEF s, t
    <3> QED
      BY <2>1, <2>2, <3>1, <3>2 DEF s, t
  <2> QED
    BY <1>1, <2>1, <2>3
<1>6. Depth < MaxFrames /\ Depth' = Depth + 1
  BY <1>1, <1>5 DEF FrameInv, FrameOK, Depth
<1>7. RestTypes' /\ UNCHANGED looping
  BY <1>1 DEF TypeOK, RestTypes, Quiet, signalVars
<1>8. TypeOK'
  <2>1. val' \in Errors \union {"none"} /\ looping' \in [Levels -> BOOLEAN]
    BY <1>1, <1>7 DEF TypeOK
  <2>2. Depth' <= MaxFrames
    BY <1>1, <1>6
  <2> QED
    BY <1>5, <1>7, <2>1, <2>2 DEF TypeOK, RestTypes
<1>9. FrameInv'
  <2>1. ASSUME NEW k \in 1 .. Depth + 1 PROVE FrameOK(k)'
    <3>1. CASE k < Depth
      <4>1. FrameOK(k) /\ k \in 1 .. Depth - 1 /\ stack'[k] = stack[k]
        BY <1>1, <1>5, <3>1 DEF FrameInv
      <4>2. stack'[k + 1].t = stack[k + 1].t /\ (k + 1 < Depth => stack'[k + 1] = stack[k + 1])
        BY <1>1, <1>3, <1>5, <3>1
      <4> QED
        BY <1>1, <1>6, <3>1, <4>1, <4>2 DEF FrameOK
    <3>2. CASE k = Depth
      <4>1. k # 1
        BY <1>1, <3>2 DEF FrameInv, FrameOK
      <4> QED
        BY <1>3, <1>5, <1>6, <3>2, <4>1 DEF FrameOK, CallKinds
    <3>3. CASE k = Depth + 1
      BY <1>1, <1>4, <1>5, <1>6, <3>3 DEF FrameOK
    <3> QED
      BY <1>1, <3>1, <3>2, <3>3
  <2> QED
    BY <1>6, <2>1 DEF FrameInv
<1>10. NoMarkerEscapes'
  BY <1>1, <1>5 DEF NoMarkerEscapes
<1>11. LoopingHasALoop'
  <2> SUFFICES ASSUME NEW l \in Levels, looping'[l] PROVE LoopsOn(l)' # {}
    BY DEF LoopingHasALoop
  <2>1. PICK k \in 1 .. Depth : stack[k].t = "loop" /\ stack[k].lv = l
    BY <1>1, <1>7 DEF LoopingHasALoop, LoopsOn
  <2>2. k \in 1 .. Depth' /\ stack'[k].t = "loop" /\ stack'[k].lv = l
    BY <1>1, <1>3, <1>5, <1>6, <2>1
  <2> QED
    BY <2>2 DEF LoopsOn
<1> QED
  BY <1>8, <1>9, <1>10, <1>11 DEF WalkInv

\* The deferred function of a loop resets looping of its shell.
LEMMA ExitStep ==
  ASSUME WalkInv, LoopExit
  PROVE  WalkInv'
<1>1. /\ TypeOK /\ FrameInv /\ LoopingHasALoop
      /\ stack \in Seq(Frames) /\ stack # <<>> /\ Depth \in Nat \ {0}
      /\ Depth <= MaxFrames /\ MaxFrames \in Nat
      /\ Top \in Frames /\ Top = stack[Depth] /\ Top.t = "loop" /\ val \in Errors
      /\ Pop(val) /\ looping' = [looping EXCEPT ![Top.lv] = FALSE]
      /\ UNCHANGED <<scripts, interrupted, signalVars, handled, taken>>
  <2>1. /\ TypeOK /\ FrameInv /\ LoopingHasALoop
        /\ stack \in Seq(Frames) /\ stack # <<>> /\ Depth \in Nat \ {0}
        /\ Depth <= MaxFrames /\ MaxFrames \in Nat /\ Top \in Frames /\ Top = stack[Depth]
    BY TopFacts, Bounds DEF WalkInv, TypeOK, LoopExit, InLoop, Top
  <2>2. Top.t = "loop" /\ Top.phase = "exit"
    BY DEF LoopExit, InLoop
  <2>3. FrameOK(Depth)
    BY <2>1 DEF FrameInv
  <2>4. val \in Errors
    BY <2>1, <2>2, <2>3 DEF FrameOK, TypeOK
  <2> QED
    BY <2>1, <2>2, <2>4 DEF LoopExit
<1>2. /\ stack' \in Seq(Frames) /\ Depth' = Depth - 1 /\ val' = val
      /\ \A k \in 1 .. Depth - 1 : stack'[k] = stack[k]
      /\ FrameInv'
  BY <1>1, PopFacts DEF Depth
<1>3. TypeOK'
  <2>1. RestTypes'
    BY <1>1 DEF TypeOK, RestTypes, signalVars
  <2>2. looping' \in [Levels -> BOOLEAN]
    BY <1>1 DEF TypeOK
  <2> QED
    BY <1>1, <1>2, <2>1, <2>2 DEF TypeOK, RestTypes
<1>4. NoMarkerEscapes'
  <2>1. Depth # 1
    BY <1>1 DEF FrameInv, FrameOK
  <2> QED
    BY <1>1, <1>2, <2>1 DEF NoMarkerEscapes, Depth
<1>5. LoopingHasALoop'
  <2> SUFFICES ASSUME NEW l \in Levels, looping'[l] PROVE LoopsOn(l)' # {}
    BY DEF LoopingHasALoop
  <2>1. l # Top.lv /\ looping[l]
    BY <1>1 DEF TypeOK
  <2>2. PICK k \in 1 .. Depth : stack[k].t = "loop" /\ stack[k].lv = l
    BY <1>1, <2>1 DEF LoopingHasALoop, LoopsOn
  <2>3. k \in 1 .. Depth - 1
    BY <1>1, <2>1, <2>2
  <2> QED
    BY <1>2, <2>2, <2>3 DEF LoopsOn
<1> QED
  BY <1>2, <1>3, <1>4, <1>5 DEF WalkInv

\* A loop leaves for its deferred function.
LEMMA LeaveStep ==
  ASSUME WalkInv, RestTypes', stack # <<>>, Top.t = "loop",
         NEW v \in Errors, LeaveLoop(v), looping' = looping
  PROVE  WalkInv'
<1> DEFINE f == [Top EXCEPT !.phase = "exit"]
<1>1. Top \in Frames
  BY TopFacts DEF WalkInv, TypeOK
<1>2. /\ f \in Frames /\ f.t = "loop" /\ f.t \notin CallKinds
      /\ f.stop = Top.stop /\ f.lv = Top.lv /\ f.phase = "exit"
  BY <1>1 DEF Frames, CallKinds
<1>3. Replace(f) /\ val' = v
  BY DEF LeaveLoop
<1>4. v # "none"
  BY DEF Errors, Markers
<1> HIDE DEF f
<1> QED
  BY <1>2, <1>3, <1>4, ReplaceStep

-----------------------------------------------------------------------------
(* The actions of the walker.                                              *)

LEMMA StatementStep ==
  ASSUME WalkInv,
         \/ Simple \/ ReturnStatement \/ IfStatement \/ ImportStatement
         \/ CallStatement \/ ForStatement
  PROVE  WalkInv'
<1>1. /\ AtStatement /\ val = "none" /\ TypeOK /\ Top \in Frames /\ Top.lv \in Levels
      /\ MaxLevel \in Nat
      /\ UNCHANGED <<scripts, interrupted, signalVars, handled, taken>>
  <2>1. AtStatement /\ UNCHANGED <<scripts, interrupted, signalVars, handled, taken>>
    BY DEF Simple, ReturnStatement, IfStatement, ImportStatement, CallStatement, ForStatement,
       Quiet
  <2>2. TypeOK /\ Top \in Frames
    BY <2>1, TopFacts DEF WalkInv, TypeOK, AtStatement
  <2> QED
    BY <2>1, <2>2, Bounds DEF AtStatement, Frames
<1>2. RestTypes'
  BY <1>1 DEF TypeOK, RestTypes, signalVars
<1>3. CASE Simple \/ ReturnStatement
  BY <1>1, <1>2, <1>3, KeepStep DEF Simple, ReturnStatement, Quiet, Errors, Markers
<1>4. CASE IfStatement \/ ImportStatement
  <2>1. PICK n \in 0 .. MaxBody, s \in BOOLEAN : Push(<<Tree(Top.lv, n, s)>>)
    BY <1>4 DEF IfStatement, ImportStatement
  <2> DEFINE fs == <<Tree(Top.lv, n, s)>>
  <2>2. fs \in Seq(Frames) /\ Len(fs) = 1 /\ fs[1].t = "tree"
    BY <1>1, FrameTypes DEF Tree
  <2>3. looping' = looping /\ val' = val
    BY <1>4 DEF IfStatement, ImportStatement, Quiet
  <2>4. Push(fs)
    BY <2>1
  <2> HIDE DEF fs
  <2>5. \A j \in 1 .. Len(fs) :
          j = 1 /\ j = Len(fs) /\ fs[j].t = "tree" /\ fs[j].t \notin CallKinds
    BY <2>2 DEF CallKinds
  <2>6. looping' \in [Levels -> BOOLEAN] /\ \A l \in Levels : looping'[l] => looping[l]
    BY <1>1, <2>3 DEF TypeOK
  <2> QED
    BY <1>1, <1>2, <2>2, <2>3, <2>4, <2>5, <2>6, PushStep
<1>5. CASE CallStatement
  <2>1. PICK kind \in CallKinds, n \in 0 .. MaxBody :
          Push(<<Call(kind, Top.lv), Tree(Top.lv + 1, n, TRUE)>>)
    BY <1>5 DEF CallStatement, Called
  <2> DEFINE fs == <<Call(kind, Top.lv), Tree(Top.lv + 1, n, TRUE)>>
  <2>2. Top.lv + 1 \in Levels
    BY <1>1, <1>5 DEF CallStatement, Levels
  <2>3. /\ fs \in Seq(Frames) /\ Len(fs) = 2
        /\ fs[1].t \in CallKinds /\ fs[2].t = "tree" /\ fs[2].stop
    <3>1. Call(kind, Top.lv) \in Frames /\ Call(kind, Top.lv).t = kind
      BY <1>1, FrameTypes DEF Call
    <3>2. /\ Tree(Top.lv + 1, n, TRUE) \in Frames /\ Tree(Top.lv + 1, n, TRUE).t = "tree"
          /\ Tree(Top.lv + 1, n, TRUE).stop
      BY <2>2, FrameTypes DEF Tree
    <3> QED
      BY <3>1, <3>2, CallFacts
  <2>4. /\ val' = val /\ looping' \in [Levels -> BOOLEAN]
        /\ \A l \in Levels : looping'[l] => looping[l]
    BY <1>1, <1>5 DEF CallStatement, TypeOK
  <2>5. Push(fs)
    BY <2>1
  <2> HIDE DEF fs
  <2> QED
    <3>1. \A j \in 1 .. Len(fs) :
            \/ /\ j = 1 /\ j < Len(fs) /\ fs[j].t \notin {"tree", "loop"}
               /\ fs[j + 1].t = "tree" /\ fs[j + 1].stop
            \/ j = 2 /\ j = Len(fs) /\ fs[j].t = "tree" /\ fs[j].t \notin CallKinds
      BY <2>3 DEF CallKinds
    <3> QED
      BY <1>1, <1>2, <2>3, <2>4, <2>5, <3>1, PushStep
<1>6. CASE ForStatement
  <2>1. looping' = [looping EXCEPT ![Top.lv] = TRUE]
    BY <1>6 DEF ForStatement
  <2>2. looping' \in [Levels -> BOOLEAN] /\ \A l \in Levels : looping'[l] => looping[l] \/ l = Top.lv
    BY <1>1, <2>1 DEF TypeOK
  <2>3. ASSUME NEW n \in 0 .. MaxIter, NEW inf \in BOOLEAN, NEW ph \in {"iter", "exit"},
               Push(<<Loop(Top.lv, n, inf, ph)>>),
               val' = IF ph = "exit" THEN "err" ELSE "none"
        PROVE  WalkInv'
    <3> DEFINE fs == <<Loop(Top.lv, n, inf, ph)>>
    <3>1. /\ fs \in Seq(Frames) /\ Len(fs) = 1
          /\ fs[1].t = "loop" /\ fs[1].lv = Top.lv /\ fs[1].phase = ph
      <4>1. Loop(Top.lv, n, inf, ph) \in Frames
        BY <1>1, FrameTypes
      <4>2. /\ Loop(Top.lv, n, inf, ph).t = "loop" /\ Loop(Top.lv, n, inf, ph).lv = Top.lv
            /\ Loop(Top.lv, n, inf, ph).phase = ph
        BY DEF Loop
      <4> QED
        BY <4>1, <4>2
    <3>2. Push(fs)
      BY <2>3
    <3> HIDE DEF fs
    <3>3. val' \in Errors \union {"none"}
      BY <2>3 DEF Errors
    <3> QED
      <4>1. \A j \in 1 .. Len(fs) : /\ j = 1 /\ j = Len(fs) /\ fs[j].t = "loop"
                                    /\ fs[j].phase # "in" /\ fs[j].t \notin CallKinds
                                    /\ fs[j].phase = "exit" => val' # "none"
        BY <2>3, <3>1 DEF CallKinds
      <4>2. \A l \in Levels : looping'[l] =>
              looping[l] \/ \E j \in 1 .. Len(fs) : fs[j].t = "loop" /\ fs[j].lv = l
        BY <2>2, <3>1
      <4> QED
        BY <1>1, <1>2, <2>2, <3>1, <3>2, <3>3, <4>1, <4>2, PushStep
  <2>4. ASSUME Top.lv < MaxLevel, NEW frames \in Called("fn", Top.lv),
               Push(<<Loop(Top.lv, 0, FALSE, "in")>> \o frames), val' = val
        PROVE  WalkInv'
    <3>1. PICK n \in 0 .. MaxBody : frames = <<Call("fn", Top.lv), Tree(Top.lv + 1, n, TRUE)>>
      BY <2>4 DEF Called
    <3> DEFINE fs == <<Loop(Top.lv, 0, FALSE, "in"), Call("fn", Top.lv), Tree(Top.lv + 1, n, TRUE)>>
    <3>2. Top.lv + 1 \in Levels /\ 0 \in 0 .. MaxIter
      BY <1>1, <2>4, Bounds DEF Levels
    <3>3. /\ Loop(Top.lv, 0, FALSE, "in") \in Frames /\ Call("fn", Top.lv) \in Frames
          /\ Tree(Top.lv + 1, n, TRUE) \in Frames
      BY <1>1, <3>2, FrameTypes DEF CallKinds
    <3>4. /\ fs \in Seq(Frames) /\ Len(fs) = 3
          /\ fs[1].t = "loop" /\ fs[1].lv = Top.lv /\ fs[1].phase = "in"
          /\ fs[2].t = "fn" /\ fs[3].t = "tree" /\ fs[3].stop
      BY <3>3 DEF Loop, Call, Tree
    <3>5. Push(fs)
      <4>1. <<Loop(Top.lv, 0, FALSE, "in")>> \o frames = fs
        <5> DEFINE c == Loop(Top.lv, 0, FALSE, "in")
                   a == Call("fn", Top.lv)
                   b == Tree(Top.lv + 1, n, TRUE)
        <5>1. c \in Frames /\ a \in Frames /\ b \in Frames /\ frames = <<a, b>> /\ fs = <<c, a, b>>
          BY <3>1, <3>3
        <5> HIDE DEF fs, a, b, c
        <5>2. <<c>> \o frames = fs
          BY <5>1, CallFacts
        <5> QED
          BY <5>2 DEF c
      <4> HIDE DEF fs
      <4> QED
        BY <2>4, <4>1
    <3> HIDE DEF fs
    <3>6. \A j \in 1 .. Len(fs) : \/ /\ j = 1 /\ j < Len(fs) /\ fs[j].t = "loop"
                                     /\ fs[j].phase = "in" /\ fs[j + 1].t = "fn"
                                     /\ fs[j].t \notin CallKinds
                                  \/ /\ j = 2 /\ j < Len(fs) /\ fs[j].t = "fn"
                                     /\ fs[j + 1].t = "tree" /\ fs[j + 1].stop
                                  \/ /\ j = 3 /\ j = Len(fs) /\ fs[j].t = "tree"
                                     /\ fs[j].t \notin CallKinds
      BY <3>4 DEF CallKinds
    <3>7. \A l \in Levels : looping'[l] =>
            looping[l] \/ \E j \in 1 .. Len(fs) : fs[j].t = "loop" /\ fs[j].lv = l
      BY <2>2, <3>4
    <3> QED
      <4>1. val' = "none" /\ AtStatement
        BY <1>1, <2>4
      <4>2. \A j \in 1 .. Len(fs) :
              /\ fs[j].t = "tree" => j = Len(fs)
              /\ fs[j].t = "loop" /\ fs[j].phase = "in" => j < Len(fs) /\ fs[j + 1].t = "fn"
              /\ ~(fs[j].t = "loop" /\ fs[j].phase = "exit")
              /\ fs[j].t \in CallKinds => j < Len(fs) /\ fs[j + 1].t = "tree" /\ fs[j + 1].stop
        BY <3>6
      <4> QED
        BY <1>2, <2>2, <3>4, <3>5, <3>7, <4>1, <4>2, PushStep
  <2>5. 0 \in 0 .. MaxIter
    BY Bounds
  <2> QED
    BY <1>1, <1>6, <2>3, <2>4, <2>5 DEF ForStatement
<1> QED
  BY <1>3, <1>4, <1>5, <1>6

LEMMA ReceiveStep ==
  ASSUME WalkInv, TreeEnd \/ TreeReceive \/ FnReceive \/ CommandReceive
  PROVE  WalkInv'
<1>1. /\ TypeOK /\ FrameInv /\ stack # <<>> /\ Depth \in Nat \ {0}
      /\ Top \in Frames /\ Top = stack[Depth] /\ Quiet
  <2>1. stack # <<>> /\ Quiet
    BY DEF TreeEnd, TreeReceive, FnReceive, CommandReceive
  <2> QED
    BY <2>1, TopFacts DEF WalkInv, TypeOK, Top
<1>2. RestTypes' /\ looping' = looping
  BY <1>1 DEF TypeOK, RestTypes, Quiet, signalVars
<1>3. val # "none" => val \in Errors
  BY <1>1 DEF TypeOK
<1>4. CASE TreeEnd
  BY <1>1, <1>2, <1>4, PopStep DEF TreeEnd, Errors
<1>5. CASE TreeReceive
  <2>1. CASE val \in {"nil", "ignore"}
    <3> DEFINE f == [Top EXCEPT !.left = @ - 1]
    <3>1. Replace(f) /\ val' = "none" /\ Top.t = "tree"
      BY <1>5, <2>1 DEF TreeReceive
    <3>2. Top.left > 0
      BY <1>1, <2>1, <3>1 DEF FrameInv, FrameOK
    <3>3. f \in Frames /\ f.t = Top.t /\ f.stop = Top.stop /\ f.lv = Top.lv
      BY <1>1, <3>2, Bounds, SMTT(40) DEF Frames
    <3>4. Top.t \notin CallKinds
      BY <3>1 DEF CallKinds
    <3> HIDE DEF f
    <3> QED
      BY <1>1, <1>2, <3>1, <3>3, <3>4, ReplaceStep
  <2>2. CASE val \notin {"nil", "ignore"}
    <3>1. PICK v \in {"nil", "stop", "intr", "err"} :
            Pop(v) /\ Top.t = "tree" /\ (Top.stop => v # "stop")
      BY <1>5, <2>2 DEF TreeReceive
    <3>2. v \in Errors
      BY DEF Errors, Markers
    <3> QED
      BY <1>1, <1>2, <3>1, <3>2, PopStep
  <2> QED
    BY <2>1, <2>2
<1>6. CASE FnReceive
  <2>1. PICK v \in {"nil", "err"} : Pop(v)
    BY <1>6 DEF FnReceive
  <2>2. v \in Errors /\ Top.t = "fn"
    BY <1>6 DEF Errors, FnReceive
  <2> QED
    BY <1>1, <1>2, <2>1, <2>2, PopStep
<1>7. CASE CommandReceive
  <2>1. PICK v \in Errors : Pop(v) /\ Top.t \in {"cmd", "-cmd"}
    BY <1>3, <1>7 DEF CommandReceive, Errors, Markers
  <2> QED
    BY <1>1, <1>2, <2>1, PopStep
<1> QED
  BY <1>4, <1>5, <1>6, <1>7

LEMMA LoopStep ==
  ASSUME WalkInv, LoopList \/ LoopDone \/ LoopUnwinds \/ LoopInterrupted \/ LoopContinues
  PROVE  WalkInv'
<1>1. /\ TypeOK /\ FrameInv /\ stack # <<>> /\ Depth \in Nat \ {0}
      /\ Top \in Frames /\ Top = stack[Depth] /\ Top.t = "loop" /\ looping' = looping
      /\ UNCHANGED <<scripts, signalVars, handled>>
  <2>1. /\ stack # <<>> /\ Top.t = "loop"
        /\ UNCHANGED <<looping, scripts, signalVars, handled>>
    BY DEF LoopList, LoopDone, LoopUnwinds, LoopInterrupted, LoopContinues, InLoop, Quiet
  <2> QED
    BY <2>1, TopFacts DEF WalkInv, TypeOK, Top
<1>2. RestTypes'
  <2>1. interrupted' \in BOOLEAN /\ taken' \in Nat
    <3>1. interrupted \in BOOLEAN /\ taken \in Nat
      BY <1>1 DEF TypeOK
    <3>2. CASE LoopInterrupted
      <4>1. interrupted' = FALSE /\ taken' = taken + 1
        BY <3>2 DEF LoopInterrupted
      <4>2. taken' \in Nat
        BY <3>1, <4>1
      <4> QED
        BY <4>1, <4>2
    <3>3. CASE ~LoopInterrupted
      <4>1. UNCHANGED <<interrupted, taken>>
        BY <3>3 DEF LoopList, LoopDone, LoopUnwinds, LoopContinues, Quiet
      <4> QED
        BY <3>1, <4>1
    <3> QED
      BY <3>2, <3>3
  <2> QED
    BY <1>1, <2>1 DEF TypeOK, RestTypes, signalVars
<1>3. ASSUME NEW v \in {"nil", "err", "intr", "stop"}, LeaveLoop(v)
      PROVE  WalkInv'
  <2>1. v \in Errors
    BY DEF Errors, Markers
  <2> QED
    BY <1>1, <1>2, <1>3, <2>1, LeaveStep
<1>4. ASSUME NEW n \in 0 .. MaxIter, val' = "none",
             Replace([Top EXCEPT !.phase = "iter", !.left = n])
      PROVE  WalkInv'
  <2> DEFINE f == [Top EXCEPT !.phase = "iter", !.left = n]
  <2>1. n \in 0 .. (MaxBody + MaxIter)
    BY Bounds
  <2>2. /\ f \in Frames /\ f.t = "loop" /\ f.t \notin CallKinds
        /\ f.stop = Top.stop /\ f.lv = Top.lv /\ f.phase = "iter"
    BY <1>1, <2>1 DEF Frames, CallKinds
  <2>3. Replace(f)
    BY <1>4
  <2> HIDE DEF f
  <2> QED
    BY <1>1, <1>2, <1>4, <2>2, <2>3, ReplaceStep
<1>5. ASSUME stack' = stack, val' = "none", Top.phase = "iter"
      PROVE  WalkInv'
  <2>1. Depth' = Depth
    BY <1>5 DEF Depth
  <2>2. TypeOK'
    BY <1>1, <1>2, <1>5, <2>1 DEF TypeOK, RestTypes
  <2>3. FrameInv'
    <3>1. ASSUME NEW k \in 1 .. Depth PROVE FrameOK(k)'
      <4>1. FrameOK(k)
        BY <1>1 DEF FrameInv
      <4> QED
        BY <1>1, <1>5, <2>1, <4>1 DEF FrameOK
    <3> QED
      BY <2>1, <3>1 DEF FrameInv
  <2>4. LoopingHasALoop'
    BY <1>1, <1>5, <2>1 DEF WalkInv, LoopingHasALoop, LoopsOn
  <2>5. NoMarkerEscapes'
    BY <1>1, <1>5 DEF NoMarkerEscapes
  <2> QED
    BY <2>2, <2>3, <2>4, <2>5 DEF WalkInv
<1>6. CASE LoopList
  BY <1>3, <1>4, <1>6 DEF LoopList
<1>7. CASE LoopDone
  BY <1>3, <1>7 DEF LoopDone
<1>8. CASE LoopUnwinds
  BY <1>3, <1>8 DEF LoopUnwinds
<1>9. CASE LoopInterrupted
  BY <1>3, <1>9 DEF LoopInterrupted
<1>10. CASE LoopContinues
  <2>1. CASE val = "nil"
    BY <1>5, <1>10, <2>1 DEF LoopContinues, InLoop
  <2>2. CASE val # "nil"
    BY <1>3, <1>10, <2>2 DEF LoopContinues
  <2> QED
    BY <2>1, <2>2
<1> QED
  BY <1>6, <1>7, <1>8, <1>9, <1>10

\* A script is a block at the bottom of the stack that takes returns.
LEMMA ScriptStep ==
  ASSUME WalkInv, StartScript
  PROVE  WalkInv'
<1>1. PICK n \in 0 .. MaxBody : stack' = <<Tree(0, n, TRUE)>>
  BY DEF StartScript
<1> DEFINE f == Tree(0, n, TRUE)
<1>2. f \in Frames /\ f.t = "tree" /\ f.stop
  <2>1. 0 \in Levels
    BY Bounds DEF Levels
  <2> QED
    BY <2>1, FrameTypes DEF Tree
<1>3. stack' = <<f>>
  BY <1>1
<1> HIDE DEF f
<1>4. stack' \in Seq(Frames) /\ Depth' = 1 /\ stack'[1] = f /\ val' = "none"
  <2>1. <<f>> \in Seq(Frames) /\ Len(<<f>>) = 1 /\ <<f>>[1] = f
    BY <1>2
  <2>2. val' = "none"
    BY DEF StartScript
  <2> QED
    BY <1>3, <2>1, <2>2 DEF Depth
<1>5. /\ stack = <<>> /\ Depth = 0 /\ looping' = looping /\ scripts' = scripts + 1
      /\ scripts < MaxScripts /\ handled' = 0
      /\ UNCHANGED <<interrupted, signalVars, taken>>
  BY DEF StartScript, Depth
<1>6. TypeOK'
  <2>1. RestTypes'
    BY <1>5, Bounds DEF WalkInv, TypeOK, RestTypes, signalVars
  <2> QED
    BY <1>4, <1>5, <2>1, Bounds DEF WalkInv, TypeOK, RestTypes
<1>7. FrameInv'
  <2>1. ASSUME NEW k \in 1 .. 1 PROVE FrameOK(k)'
    BY <1>2, <1>4 DEF FrameOK
  <2> QED
    BY <1>4, <2>1 DEF FrameInv
<1>8. NoMarkerEscapes'
  BY <1>4 DEF NoMarkerEscapes
<1>9. LoopingHasALoop'
  BY <1>5 DEF WalkInv, LoopingHasALoop, LoopsOn
<1> QED
  BY <1>6, <1>7, <1>8, <1>9 DEF WalkInv

\* The signal handler does not touch the walker.
LEMMA SignalStep ==
  ASSUME WalkInv, Signal \/ Receive \/ Handle \/ UNCHANGED vars
  PROVE  WalkInv'
<1>1. UNCHANGED <<walkerVars, looping>>
  BY DEF Signal, Receive, Handle, vars
<1>2. RestTypes'
  <2>1. looping[0] \in BOOLEAN
    BY Bounds DEF WalkInv, TypeOK, Levels
  <2>2. CASE Signal
    BY <2>2, Bounds DEF WalkInv, TypeOK, RestTypes, Signal, walkerVars
  <2>3. CASE Receive
    BY <2>3 DEF WalkInv, TypeOK, RestTypes, Receive, walkerVars
  <2>4. CASE Handle
    <3>1. TypeOK /\ interrupted' = (interrupted \/ looping[0]) /\ received' = FALSE
      BY <2>4 DEF WalkInv, Handle
    <3>2. interrupted' \in BOOLEAN
      BY <3>1 DEF TypeOK
    <3>3. handled' = handled + 1 /\ UNCHANGED <<scripts, pending, sent, taken>>
      BY <2>4 DEF Handle, walkerVars
    <3>4. handled' \in Nat
      BY <3>1, <3>3 DEF TypeOK
    <3>5. /\ pending \in BOOLEAN /\ scripts \in 0 .. MaxScripts /\ sent \in 0 .. MaxSignals
          /\ taken \in Nat
      BY <3>1 DEF TypeOK
    <3> QED
      BY <3>1, <3>2, <3>3, <3>4, <3>5 DEF RestTypes
  <2>5. CASE UNCHANGED vars
    BY <2>5 DEF WalkInv, TypeOK, RestTypes, vars, walkerVars, signalVars
  <2> QED
    BY <2>2, <2>3, <2>4, <2>5
<1>3. stack' = stack /\ val' = val /\ Depth' = Depth /\ looping' = looping
  BY <1>1 DEF walkerVars, Depth
<1>4. TypeOK'
  BY <1>2, <1>3 DEF WalkInv, TypeOK, RestTypes
<1>5. FrameInv'
  BY <1>3 DEF WalkInv, FrameInv, FrameOK
<1>6. NoMarkerEscapes' /\ LoopingHasALoop'
  BY <1>3 DEF WalkInv, NoMarkerEscapes, LoopingHasALoop, LoopsOn
<1> QED
  BY <1>4, <1>5, <1>6 DEF WalkInv

LEMMA WalkInvStep ==
  ASSUME WalkInv, [Next]_vars
  PROVE  WalkInv'
BY StatementStep, ReceiveStep, LoopStep, IterateStep, ExitStep, ScriptStep, SignalStep
   DEF Next, Walk

\* A SIGINT is in the channel, with the handler, raised as a flag, taken by a
\* loop or lost: it is never in two of these places.
LEMMA SignalsStep ==
  ASSUME TypeOK, OneLoopPerSignal, [Next]_vars
  PROVE  OneLoopPerSignal'
<1> DEFINE n(b) == IF b THEN 1 ELSE 0
<1>1. /\ taken \in Nat /\ sent \in Nat
      /\ interrupted \in BOOLEAN /\ received \in BOOLEAN /\ pending \in BOOLEAN
      /\ taken + n(interrupted) + n(received) + n(pending) <= sent
  BY Bounds DEF TypeOK, OneLoopPerSignal
<1>2. CASE UNCHANGED <<interrupted, signalVars, taken>>
  BY <1>2 DEF OneLoopPerSignal, signalVars
<1>3. CASE LoopInterrupted
  BY <1>1, <1>3 DEF LoopInterrupted, OneLoopPerSignal, signalVars
<1>4. CASE Signal
  BY <1>1, <1>4 DEF Signal, OneLoopPerSignal
<1>5. CASE Receive
  BY <1>1, <1>5 DEF Receive, OneLoopPerSignal
<1>6. CASE Handle
  <2>1. interrupted' \in BOOLEAN /\ received /\ ~received' /\ UNCHANGED <<taken, sent, pending>>
    BY <1>1, <1>6, Bounds DEF Handle, TypeOK, Levels
  <2> QED
    BY <1>1, <2>1 DEF OneLoopPerSignal
<1>7. CASE Walk /\ ~LoopInterrupted
  <2>1. UNCHANGED <<interrupted, signalVars, taken>>
    BY <1>7 DEF Walk, Simple, ReturnStatement, IfStatement, ImportStatement, CallStatement,
       ForStatement, TreeEnd, TreeReceive, FnReceive, CommandReceive, LoopList, LoopIterate,
       LoopDone, LoopUnwinds, LoopContinues, LoopExit, Quiet
  <2> QED
    BY <1>2, <2>1
<1>8. CASE StartScript \/ UNCHANGED vars
  BY <1>2, <1>8 DEF StartScript, vars, signalVars
<1> QED
  BY <1>3, <1>4, <1>5, <1>6, <1>7, <1>8 DEF Next

LEMMA InitIInv == Init => IInv
<1> SUFFICES ASSUME Init PROVE IInv
  OBVIOUS
<1>1. stack = <<>> /\ stack \in Seq(Frames) /\ Depth = 0
  BY DEF Init, Depth
<1>2. TypeOK
  <2>1. looping \in [Levels -> BOOLEAN]
    BY DEF Init
  <2>2. Depth <= MaxFrames /\ val \in Errors \union {"none"}
    BY <1>1, Bounds DEF Init
  <2>3. interrupted \in BOOLEAN /\ pending \in BOOLEAN /\ received \in BOOLEAN
    BY DEF Init
  <2>4. /\ scripts \in 0 .. MaxScripts /\ sent \in 0 .. MaxSignals
        /\ handled \in Nat /\ taken \in Nat
    BY Bounds DEF Init
  <2> QED
    BY <1>1, <2>1, <2>2, <2>3, <2>4 DEF TypeOK
<1>3. FrameInv
  BY <1>1 DEF FrameInv
<1> QED
  BY <1>2, <1>3, Bounds DEF Init, IInv, WalkInv, NoMarkerEscapes, LoopingHasALoop, OneLoopPerSignal

LEMMA NextIInv == IInv /\ [Next]_vars => IInv'
BY WalkInvStep, SignalsStep DEF IInv, WalkInv

LEMMA Invariance == Spec => []IInv
BY InitIInv, NextIInv, PTL DEF Spec

-----------------------------------------------------------------------------
(* What a step does while a failure, an interrupt or a return unwinds.     *)

\* v is a return when w is, and a failure or an interrupt when w is.
SameFlight(v, w) == IF w = "stop" THEN v = "stop" ELSE v \in Failures

LEMMA SameTakers ==
  ASSUME NEW f, NEW v, NEW w \in Thrown, SameFlight(v, w)
  PROVE  Takes(f, v) = Takes(f, w)
BY DEF SameFlight, Takes, Thrown, Failures

\* A call that does not take what flies returns it, and the one that does is
\* still on the stack below.
LEMMA PopFlies ==
  ASSUME TypeOK, stack # <<>>, NEW v, Pop(v), val \in Thrown, SameFlight(v, val),
         ~Takes(Top, val)
  PROVE  FliesOn
<1>1. /\ Depth \in Nat \ {0} /\ Top = stack[Depth] /\ stack' = Below /\ val' = v
      /\ Len(Below) = Depth - 1 /\ \A k \in 1 .. Depth - 1 : Below[k] = stack[k]
  BY TopFacts DEF TypeOK, Pop, Top
<1>2. Depth' = Depth - 1 /\ \A k \in 1 .. Depth - 1 : stack'[k] = stack[k]
  BY <1>1 DEF Depth
<1>3. ASSUME NEW k \in 1 .. Depth, CaughtAt(k, val)
      PROVE  CaughtAt(k, val)'
  <2>1. k \in 1 .. Depth - 1
    BY <1>1, <1>3 DEF CaughtAt
  <2>2. Takes(stack[k], val')
    BY <1>1, <1>3, SameTakers DEF CaughtAt
  <2>3. ASSUME NEW m \in k + 1 .. Depth - 1 PROVE ~Takes(stack[m], val')
    <3>1. m \in k + 1 .. Depth
      BY <1>1, <2>1
    <3> QED
      BY <1>1, <1>3, <3>1, SameTakers DEF CaughtAt
  <2>4. \A m \in k + 1 .. Depth - 1 : stack'[m] = stack[m]
    BY <1>2, <2>1
  <2> QED
    BY <1>2, <2>1, <2>2, <2>3, <2>4 DEF CaughtAt
<1>4. Len(stack') < Depth
  BY <1>1
<1> QED
  BY <1>1, <1>3, <1>4 DEF FliesOn, SameFlight

\* A loop, which takes nothing, is sent to its exit.
LEMMA LeaveFlies ==
  ASSUME TypeOK, stack # <<>>, NEW v, LeaveLoop(v), val \in Thrown, SameFlight(v, val),
         Top.t = "loop"
  PROVE  FliesOn
<1> DEFINE f == [Top EXCEPT !.phase = "exit"]
<1>1. /\ Depth \in Nat \ {0} /\ Top \in Frames /\ Top = stack[Depth] /\ Below \in Seq(Frames)
      /\ Len(Below) = Depth - 1 /\ \A k \in 1 .. Depth - 1 : Below[k] = stack[k]
  BY TopFacts DEF TypeOK, Top
<1>2. f \in Frames /\ f.t = "loop" /\ f.phase = "exit"
  BY <1>1 DEF Frames
<1>3. stack' = Append(Below, f) /\ val' = v
  BY DEF LeaveLoop, Replace
<1> HIDE DEF f
<1>4. /\ Len(stack') = Depth /\ stack'[Depth] = f
      /\ \A k \in 1 .. Depth - 1 : stack'[k] = stack[k]
  BY <1>1, <1>2, <1>3
<1>5. Depth' = Depth
  BY <1>4 DEF Depth
<1>6. \A w \in Thrown : ~Takes(Top, w) /\ ~Takes(f, w)
  BY <1>2 DEF Takes
<1>7. ASSUME NEW k \in 1 .. Depth, CaughtAt(k, val)
      PROVE  CaughtAt(k, val)'
  <2>1. k \in 1 .. Depth - 1
    BY <1>1, <1>6, <1>7 DEF CaughtAt
  <2>2. Takes(stack'[k], val')
    BY <1>3, <1>4, <1>7, <2>1, SameTakers DEF CaughtAt
  <2>3. ASSUME NEW m \in k + 1 .. Depth PROVE ~Takes(stack'[m], val')
    <3>1. CASE m = Depth
      BY <1>3, <1>4, <1>6, <3>1, SameTakers
    <3>2. CASE m # Depth
      <4>1. m \in 1 .. Depth - 1
        BY <1>1, <2>1, <3>2
      <4> QED
        BY <1>3, <1>4, <1>7, <4>1, SameTakers DEF CaughtAt
    <3> QED
      BY <3>1, <3>2
  <2> QED
    BY <1>5, <2>1, <2>2, <2>3 DEF CaughtAt
<1>8. InLoop("exit")'
  <2>1. stack' # <<>> /\ Top' = f
    BY <1>1, <1>4, <1>5 DEF Top
  <2> QED
    BY <1>2, <2>1 DEF InLoop
<1> QED
  BY <1>3, <1>4, <1>7, <1>8 DEF FliesOn, SameFlight

\* The innermost frame takes what flies.
LEMMA PopTakes ==
  ASSUME TypeOK, stack # <<>>, NEW v, Pop(v), Takes(Top, val),
         v = IF val = "stop" THEN "nil" ELSE "ignore"
  PROVE  IsTaken
<1>1. Depth \in Nat \ {0} /\ Top = stack[Depth]
  BY TopFacts DEF TypeOK, Top
<1> QED
  BY <1>1 DEF IsTaken, CaughtAt, Pop

LEMMA UnwindStep ==
  ASSUME TypeOK, FrameInv, Walk, stack # <<>>, val \in Thrown
  PROVE  FliesOn \/ IsTaken
<1>1. Depth \in Nat \ {0} /\ Top = stack[Depth] /\ FrameOK(Depth)
  BY TopFacts DEF TypeOK, Top, FrameInv
<1>2. val \in {"err", "intr", "stop"}
  BY DEF Thrown, Failures
<1>3. ASSUME NEW v, LeaveLoop(v), Top.t = "loop", SameFlight(v, val)
      PROVE  FliesOn
  BY <1>3, LeaveFlies
<1>4. CASE TreeReceive
  <2>1. Top.t = "tree"
    BY <1>4 DEF TreeReceive
  <2>2. CASE val = "stop" /\ Top.stop
    <3>1. Pop("nil") /\ Takes(Top, val)
      BY <1>4, <2>1, <2>2 DEF TreeReceive, Takes
    <3> QED
      BY <2>2, <3>1, PopTakes
  <2>3. CASE ~(val = "stop" /\ Top.stop)
    <3>1. Pop(val) /\ SameFlight(val, val) /\ ~Takes(Top, val)
      BY <1>2, <1>4, <2>1, <2>3 DEF TreeReceive, Takes, SameFlight, Failures
    <3> QED
      BY <3>1, PopFlies
  <2> QED
    BY <2>2, <2>3
<1>5. CASE FnReceive
  <2>1. Top.t = "fn" /\ Pop("err")
    BY <1>2, <1>5 DEF FnReceive
  <2>2. val # "stop"
    BY <1>1, <2>1 DEF FrameOK, CallKinds
  <2> QED
    BY <2>1, <2>2, PopFlies DEF SameFlight, Failures, Takes
<1>6. CASE CommandReceive
  <2>1. Top.t \in {"cmd", "-cmd"} /\ Pop(IF Top.t = "-cmd" THEN "ignore" ELSE val)
    BY <1>2, <1>6 DEF CommandReceive
  <2>2. val # "stop"
    BY <1>1, <2>1 DEF FrameOK, CallKinds
  <2>3. CASE Top.t = "-cmd"
    BY <2>1, <2>2, <2>3, PopTakes DEF Takes
  <2>4. CASE Top.t = "cmd"
    BY <1>2, <2>1, <2>2, <2>4, PopFlies DEF SameFlight, Failures, Takes
  <2> QED
    BY <2>1, <2>3, <2>4
<1>7. CASE LoopList
  <2>1. Top.t = "loop" /\ Top.phase = "in"
    BY <1>7 DEF LoopList, InLoop
  <2>2. val = "err"
    BY <1>1, <1>2, <2>1 DEF FrameOK
  <2>3. LeaveLoop("err")
    BY <1>7, <2>2 DEF LoopList
  <2> QED
    BY <1>3, <2>1, <2>2, <2>3 DEF SameFlight, Failures
<1>8. CASE LoopUnwinds
  BY <1>3, <1>8 DEF LoopUnwinds, InLoop, SameFlight, Failures
<1>9. CASE LoopInterrupted
  <2>1. Top.t = "loop" /\ val = "err" /\ LeaveLoop("intr")
    BY <1>2, <1>9 DEF LoopInterrupted, InLoop
  <2> QED
    BY <1>3, <2>1 DEF SameFlight, Failures
<1>10. CASE LoopContinues
  <2>1. Top.t = "loop" /\ val = "err" /\ LeaveLoop("err")
    BY <1>2, <1>10 DEF LoopContinues, InLoop
  <2> QED
    BY <1>3, <2>1 DEF SameFlight, Failures
<1>11. CASE LoopExit
  <2>1. Pop(val) /\ Top.t = "loop"
    BY <1>11 DEF LoopExit, InLoop
  <2> QED
    BY <1>2, <2>1, PopFlies DEF SameFlight, Failures, Takes
<1>12. ~(\/ Simple \/ ReturnStatement \/ IfStatement \/ ImportStatement \/ CallStatement
         \/ ForStatement \/ TreeEnd \/ LoopIterate \/ LoopDone)
  BY <1>2 DEF Simple, ReturnStatement, IfStatement, ImportStatement, CallStatement,
     ForStatement, TreeEnd, LoopIterate, LoopDone, AtStatement
<1> QED
  BY <1>4, <1>5, <1>6, <1>7, <1>8, <1>9, <1>10, <1>11, <1>12 DEF Walk

-----------------------------------------------------------------------------
(* The theorems.                                                           *)

\* The stack of the walker stays within its bound, every frame on it is one
\* that the code makes, and the counters of signals and scripts are in range.
THEOREM WalkerTypeCorrect == Spec => []TypeOK
<1>1. IInv => TypeOK
  BY DEF IInv, WalkInv
<1> QED
  BY <1>1, Invariance, PTL

\* Whatever a script consists of, it ends well, with an error or interrupted:
\* the errors that stand for a return and for an ignored failure are taken
\* inside (executeTree, executeFnInv).
THEOREM MarkersStayInside == Spec => []NoMarkerEscapes
<1>1. IInv => NoMarkerEscapes
  BY DEF IInv, WalkInv
<1> QED
  BY <1>1, Invariance, PTL

\* A shell is only marked as looping while it executes a loop, however the
\* loops before ended (the deferred reset of executeFor).
THEOREM LoopingIsReset == Spec => []LoopingHasALoop
<1>1. IInv => LoopingHasALoop
  BY DEF IInv, WalkInv
<1> QED
  BY <1>1, Invariance, PTL

\* However many signals arrive and whenever the handler runs, no more loops
\* are interrupted than SIGINTs were sent (setupSignals, getIntr, setIntr).
THEOREM SignalsAreNotReused == Spec => []OneLoopPerSignal
<1>1. IInv => OneLoopPerSignal
  BY DEF IInv
<1> QED
  BY <1>1, Invariance, PTL

\* A return is taken by the body of its function and a failure or an interrupt
\* by the innermost command with a minus before its name, or by nobody: however
\* deep the loops, blocks, calls and imports in between, nothing else takes it
\* and no statement runs before it is taken (executeTree, executeFnInv,
\* executeCommand, executeFor).
THEOREM NothingRunsWhileUnwinding == Spec => FailureUnwinds
<1>1. IInv /\ Walk /\ stack # <<>> /\ val \in Thrown => FliesOn \/ IsTaken
  BY UnwindStep DEF IInv, WalkInv
<1> QED
  BY <1>1, Invariance, PTL DEF Spec, FailureUnwinds
=============================================================================
