-------------------------- MODULE LineEditorProofs --------------------------
(***************************************************************************)
(* Theorems about LineEditor, for any set of keys and length of a line:    *)
(* who waits for whom, which does not depend on the line, and that no key  *)
(* leaves the cursor outside of it.                                        *)
(***************************************************************************)
EXTENDS LineEditor, SequenceTheorems, TLAPS

ControlTypes ==
  /\ tpc \in {"top", "kick", "read", "send", "gone"}
  /\ key \in Keys \cup {"none"}
  /\ expect \in BOOLEAN /\ pause \in BOOLEAN /\ kicked \in BOOLEAN
  /\ stopped \in BOOLEAN /\ vi \in BOOLEAN
  /\ opc \in {"read", "operand", "complete", "deliver", "gone"}
  /\ cmd \in ViOperands \cup {"none"}
  /\ msg \in {"none", "line", "interrupt", "eof", "closed"}
  /\ mode \in {"insert", "normal"}
  /\ cpc \in {"busy", "reading", "closing", "waiting", "closed", "panicked"}

\* The terminal reads no key before it is kicked.
Idle ==
  \/ tpc = "gone"
  \/ tpc \in {"top", "kick"} /\ ~expect /\ ~kicked /\ ~pause

\* When the terminal goes on by itself: after a key that cannot end the line,
\* unless it is a Tab.  A kick is only under way when it will not.
TermInv ==
  /\ tpc \in {"kick", "read"} => ~expect /\ ~pause
  /\ tpc \in {"read", "send"} => ~kicked
  /\ tpc = "top" /\ kicked => ~expect
  /\ tpc = "send" => (expect <=> key \notin StopKeys) /\ (pause <=> key = "Tab")

\* What holds between the goroutines: the terminal is idle while the shell is
\* not in Readline, and as soon as the operation has a line for it.
SharedInv ==
  /\ opc = "deliver" \/ cpc # "reading" => Idle
  /\ opc = "complete" => cpc = "reading" /\ tpc = "top" /\ pause /\ expect
  /\ cpc # "reading" => /\ opc \notin {"operand", "complete"}
                        /\ opc = "deliver" => tpc = "gone"

\* In emacs mode somebody will wake the terminal.
EmacsInv ==
  ~vi =>
    /\ opc # "operand"
    /\ ~NoWidth /\ cpc = "reading" /\ opc = "read" =>
         /\ tpc = "kick" => kicked
         /\ tpc = "top" => ~pause /\ (expect \/ kicked)

ControlInv == ControlTypes /\ TermInv /\ SharedInv /\ EmacsInv

-----------------------------------------------------------------------------
(* A key is handed over.                                                   *)

LEMMA HandOver ==
  ASSUME ControlInv, Take
  PROVE  /\ tpc' = "top" /\ cpc = "reading" /\ opc \notin {"deliver", "complete"} /\ ~kicked
         /\ UNCHANGED <<key, expect, pause, stopped, vi>>
         /\ expect <=> key \notin StopKeys
         /\ pause <=> key = "Tab"
<1>1. tpc = "send" /\ tpc' = "top" /\ UNCHANGED <<key, expect, pause, stopped, vi>>
  BY DEF Take
<1>2. ~Idle
  BY <1>1 DEF Idle
<1> QED
  BY <1>1, <1>2 DEF ControlInv, TermInv, SharedInv

\* The operation goes on reading; in emacs mode the key was none that makes
\* the terminal wait.
LEMMA GoOnStep ==
  ASSUME ControlInv, Take, opc' \in {"read", "operand"}, UNCHANGED <<kicked, msg, cpc>>,
         cmd' \in ViOperands \cup {"none"}, mode' \in {"insert", "normal"},
         ~vi => opc' = "read" /\ (NoWidth \/ key \notin StopKeys \cup {"Tab"})
  PROVE  ControlInv'
<1>1. /\ tpc' = "top" /\ cpc = "reading" /\ ~kicked
      /\ UNCHANGED <<key, expect, pause, stopped, vi>>
      /\ expect <=> key \notin StopKeys
      /\ pause <=> key = "Tab"
  BY HandOver
<1>2. ControlTypes'
  BY <1>1 DEF ControlInv, ControlTypes
<1>3. TermInv'
  BY <1>1 DEF TermInv
<1>4. SharedInv'
  BY <1>1 DEF SharedInv
<1>5. EmacsInv'
  BY <1>1 DEF EmacsInv
<1> QED
  BY <1>2, <1>3, <1>4, <1>5 DEF ControlInv

\* The key ends the line: the terminal will wait for the next Readline.
LEMMA EndStep ==
  ASSUME ControlInv, Take, key \in StopKeys, opc' = "deliver", UNCHANGED <<kicked, cmd, cpc>>,
         msg' \in {"line", "interrupt", "eof"}, mode' \in {"insert", "normal"}
  PROVE  ControlInv'
<1>1. /\ tpc' = "top" /\ cpc = "reading" /\ ~kicked /\ ~expect /\ ~pause
      /\ UNCHANGED <<key, expect, pause, stopped, vi>>
  BY HandOver DEF StopKeys, Submits
<1>2. ControlTypes'
  BY <1>1 DEF ControlInv, ControlTypes
<1>3. TermInv'
  BY <1>1 DEF TermInv
<1>4. SharedInv'
  BY <1>1 DEF SharedInv, Idle
<1>5. EmacsInv'
  BY <1>1 DEF EmacsInv
<1> QED
  BY <1>2, <1>3, <1>4, <1>5 DEF ControlInv

LEMMA EditStep ==
  ASSUME ControlInv, Edit
  PROVE  ControlInv'
<1>1. /\ Take /\ opc' = "read" /\ UNCHANGED <<kicked, msg, cpc, cmd, mode>>
      /\ Meant \in EditKeys
  BY DEF Edit
<1>2. ~vi => key \notin StopKeys \cup {"Tab"}
  BY <1>1 DEF Meant, Normal, EditKeys
<1>3. cmd \in ViOperands \cup {"none"} /\ mode \in {"insert", "normal"}
  BY DEF ControlInv, ControlTypes
<1> QED
  BY <1>1, <1>2, <1>3, GoOnStep

LEMMA EndOfLineStep ==
  ASSUME ControlInv, Submit \/ Interrupt \/ EndKey
  PROVE  ControlInv'
<1>1. /\ Take /\ key \in StopKeys /\ opc' = "deliver" /\ UNCHANGED <<kicked, cmd, cpc>>
      /\ msg' \in {"line", "interrupt", "eof"}
  BY DEF Submit, Interrupt, EndKey, StopKeys, Submits
<1>2. mode' \in {"insert", "normal"}
  BY DEF Submit, Interrupt, EndKey, ControlInv, ControlTypes
<1> QED
  BY <1>1, <1>2, EndStep

\* Ctrl-D on a line with runes stops the terminal, and kicks it.
LEMMA DeleteKeyStep ==
  ASSUME ControlInv, DeleteKey
  PROVE  ControlInv'
<1>1. /\ Take /\ key = "CtrlD" /\ kicked' = TRUE /\ opc = "read"
      /\ UNCHANGED <<opc, cmd, msg, mode, cpc>>
  BY DEF DeleteKey, Kick
<1>2. /\ tpc' = "top" /\ cpc = "reading" /\ ~expect /\ ~pause
      /\ UNCHANGED <<key, expect, pause, stopped, vi>>
  BY <1>1, HandOver DEF StopKeys
<1>3. ControlTypes'
  BY <1>1, <1>2 DEF ControlInv, ControlTypes
<1>4. TermInv' /\ SharedInv' /\ EmacsInv'
  BY <1>1, <1>2 DEF TermInv, SharedInv, EmacsInv
<1> QED
  BY <1>3, <1>4 DEF ControlInv

\* A Tab pauses the terminal until the completer is done.
LEMMA TabStep ==
  ASSUME ControlInv, TabKey
  PROVE  ControlInv'
<1>1. /\ Take /\ key = "Tab" /\ UNCHANGED <<kicked, cmd, msg, mode, cpc>>
      /\ opc' = IF NoWidth THEN "read" ELSE "complete"
  BY DEF TabKey
<1>2. cmd \in ViOperands \cup {"none"} /\ mode \in {"insert", "normal"}
  BY DEF ControlInv, ControlTypes
<1>3. CASE NoWidth
  BY <1>1, <1>2, <1>3, GoOnStep
<1>4. CASE ~NoWidth
  <2>1. /\ tpc' = "top" /\ cpc = "reading" /\ ~kicked /\ expect /\ pause
        /\ UNCHANGED <<key, expect, pause, stopped, vi>>
    BY <1>1, HandOver DEF StopKeys, Submits
  <2>2. opc' = "complete"
    BY <1>1, <1>4
  <2>3. ControlTypes'
    BY <1>1, <2>1, <2>2 DEF ControlInv, ControlTypes
  <2>4. TermInv' /\ SharedInv' /\ EmacsInv'
    BY <1>1, <2>1, <2>2 DEF TermInv, SharedInv, EmacsInv, StopKeys, Submits
  <2> QED
    BY <2>3, <2>4 DEF ControlInv
<1> QED
  BY <1>3, <1>4

LEMMA CompleterStep ==
  ASSUME ControlInv, CompleterReturns
  PROVE  ControlInv'
<1>1. /\ opc = "complete" /\ pause' = FALSE /\ opc' = "read"
      /\ UNCHANGED <<tpc, key, expect, kicked, stopped, cmd, msg, vi, mode, cpc>>
  BY DEF CompleterReturns
<1>2. cpc = "reading" /\ tpc = "top" /\ expect /\ ~kicked
  BY <1>1 DEF ControlInv, SharedInv, TermInv
<1>3. pause' \in BOOLEAN
  BY <1>1
<1>4. ControlTypes'
  BY <1>1, <1>3 DEF ControlInv, ControlTypes
<1>5. TermInv' /\ SharedInv' /\ EmacsInv'
  BY <1>1, <1>2 DEF TermInv, SharedInv, EmacsInv
<1> QED
  BY <1>4, <1>5 DEF ControlInv

\* The commands of vi: none is taken in emacs mode.
LEMMA ViStep ==
  ASSUME ControlInv, ViEscape \/ ViMotion \/ ViInsert \/ ViCommand \/ ViOperand \/ ViBell
  PROVE  ControlInv'
<1>1. cmd \in ViOperands \cup {"none"} /\ mode \in {"insert", "normal"}
  BY DEF ControlInv, ControlTypes
<1>2. CASE ViEscape
  BY <1>1, <1>2, GoOnStep DEF ViEscape, InsertMode
<1>3. CASE ViMotion \/ ViBell
  BY <1>1, <1>3, GoOnStep DEF ViMotion, ViBell, NormalMode, Normal
<1>4. CASE ViInsert
  BY <1>1, <1>4, GoOnStep DEF ViInsert, NormalMode, Normal
<1>5. CASE ViCommand
  BY <1>1, <1>5, GoOnStep DEF ViCommand, NormalMode, Normal
<1>6. CASE ViOperand
  <2>1. /\ Take /\ opc = "operand" /\ opc' = "read" /\ cmd' = "none"
        /\ mode' \in {"insert", mode} /\ UNCHANGED <<msg, kicked, cpc>>
    BY <1>6 DEF ViOperand, Operate
  <2>2. vi
    BY <2>1 DEF ControlInv, EmacsInv
  <2> QED
    BY <1>1, <2>1, <2>2, GoOnStep
<1> QED
  BY <1>2, <1>3, <1>4, <1>5, <1>6

-----------------------------------------------------------------------------
(* The other steps.                                                        *)

\* The terminal is gone: what was typed is delivered, or an operand is none.
LEMMA WithoutTerminalStep ==
  ASSUME ControlInv, InputEnded \/ ViOperandEnded \/ Panic
  PROVE  ControlInv'
<1>1. /\ tpc' = "gone" /\ opc' \in {"read", "deliver", "gone"}
      /\ UNCHANGED <<key, expect, pause, kicked, stopped, vi>>
      /\ cmd' \in {cmd, "none"} /\ msg' \in {msg, "closed", "line"}
      /\ mode' \in {mode, "insert"} /\ cpc' \in {cpc, "panicked"}
  <2>1. CASE InputEnded
    BY <2>1 DEF InputEnded, tvars
  <2>2. CASE ViOperandEnded
    BY <2>2 DEF ViOperandEnded, Operate, tvars
  <2>3. CASE Panic
    BY <2>3 DEF Panic
  <2> QED
    BY <2>1, <2>2, <2>3
<1>2. ControlTypes'
  BY <1>1 DEF ControlInv, ControlTypes
<1>3. TermInv' /\ SharedInv' /\ EmacsInv'
  BY <1>1 DEF TermInv, SharedInv, EmacsInv, Idle
<1> QED
  BY <1>2, <1>3 DEF ControlInv

\* Readline finds an idle terminal and kicks it.
LEMMA ReadlineStep ==
  ASSUME ControlInv, Readline
  PROVE  ControlInv'
<1>1. /\ cpc = "busy" /\ cpc' = "reading" /\ kicked' = TRUE
      /\ UNCHANGED <<tpc, key, expect, pause, opc, cmd, msg, mode, stopped, vi>>
  BY DEF Readline, Kick, tvars, ovars
<1>2. /\ tpc = "gone" \/ (tpc \in {"top", "kick"} /\ ~expect /\ ~pause)
      /\ opc \notin {"operand", "complete"}
      /\ opc = "deliver" => tpc = "gone"
  BY <1>1 DEF ControlInv, SharedInv, Idle
<1>3. ControlTypes'
  BY <1>1 DEF ControlInv, ControlTypes
<1>4. TermInv' /\ EmacsInv'
  BY <1>1, <1>2 DEF TermInv, EmacsInv
<1>5. SharedInv'
  BY <1>1, <1>2 DEF ControlInv, SharedInv, Idle
<1> QED
  BY <1>3, <1>4, <1>5 DEF ControlInv

LEMMA DeliverStep ==
  ASSUME ControlInv, Deliver
  PROVE  ControlInv'
<1>1. /\ opc = "deliver" /\ opc' \in {"read", "gone"} /\ cpc' \in {"closing", "busy"}
      /\ msg' = "none" /\ UNCHANGED <<tpc, key, expect, pause, cmd, mode, kicked, stopped, vi>>
  BY DEF Deliver, tvars
<1>2. Idle
  BY <1>1 DEF ControlInv, SharedInv
<1>3. ControlTypes'
  BY <1>1 DEF ControlInv, ControlTypes
<1>4. TermInv' /\ SharedInv' /\ EmacsInv'
  BY <1>1, <1>2 DEF ControlInv, TermInv, SharedInv, EmacsInv, Idle
<1> QED
  BY <1>3, <1>4 DEF ControlInv

LEMMA ShellStep ==
  ASSUME ControlInv, SetVimMode \/ Close \/ Closed
  PROVE  ControlInv'
<1>1. /\ cpc # "reading" /\ cpc' # "reading"
      /\ UNCHANGED <<tpc, key, expect, pause, kicked, opc, cmd, msg>>
      /\ cpc' \in {cpc, "waiting", "closed"}
      /\ mode' \in {mode, "insert"}
  BY DEF SetVimMode, Close, Closed, tvars, ovars
<1>2. stopped' \in BOOLEAN /\ vi' \in BOOLEAN
  <2>1. CASE SetVimMode
    BY <2>1 DEF SetVimMode, ControlInv, ControlTypes
  <2>2. CASE Close
    BY <2>2 DEF Close, ControlInv, ControlTypes
  <2>3. CASE Closed
    BY <2>3 DEF Closed, ControlInv, ControlTypes
  <2> QED
    BY <2>1, <2>2, <2>3
<1>3. ControlTypes'
  BY <1>1, <1>2 DEF ControlInv, ControlTypes
<1>4. TermInv' /\ SharedInv'
  BY <1>1 DEF ControlInv, TermInv, SharedInv, Idle
<1>5. EmacsInv'
  BY <1>1 DEF ControlInv, SharedInv, EmacsInv
<1> QED
  BY <1>3, <1>4, <1>5 DEF ControlInv

LEMMA TerminalStep ==
  ASSUME ControlInv, TermLoop \/ TermKicked \/ TermStopped \/ EndOfInput
  PROVE  ControlInv'
<1>1. UNCHANGED <<key, pause, opc, cmd, msg, mode, stopped, vi, cpc>>
  BY DEF TermLoop, TermKicked, TermStopped, EndOfInput, ovars
<1>2. CASE TermLoop
  <2>1. /\ tpc = "top" /\ ~pause /\ tpc' = (IF expect THEN "read" ELSE "kick")
        /\ expect' = FALSE /\ kicked' = kicked
    BY <1>2 DEF TermLoop
  <2>2. expect' \in BOOLEAN /\ tpc' \in {"read", "kick"}
    BY <2>1
  <2>3. ControlTypes'
    BY <1>1, <2>1, <2>2 DEF ControlInv, ControlTypes
  <2>4. TermInv' /\ SharedInv' /\ EmacsInv'
    BY <1>1, <2>1 DEF ControlInv, TermInv, SharedInv, EmacsInv, Idle
  <2> QED
    BY <2>3, <2>4 DEF ControlInv
<1>3. CASE TermKicked
  <2>1. tpc = "kick" /\ kicked /\ tpc' = "read" /\ kicked' = FALSE /\ expect' = expect
    BY <1>3 DEF TermKicked
  <2>2. kicked' \in BOOLEAN
    BY <2>1
  <2>3. ControlTypes'
    BY <1>1, <2>1, <2>2 DEF ControlInv, ControlTypes
  <2>4. TermInv' /\ SharedInv' /\ EmacsInv'
    BY <1>1, <2>1 DEF ControlInv, TermInv, SharedInv, EmacsInv, Idle
  <2> QED
    BY <2>3, <2>4 DEF ControlInv
<1>4. CASE TermStopped \/ EndOfInput
  <2>1. tpc \in {"kick", "read"} /\ tpc' = "gone" /\ UNCHANGED <<expect, kicked>>
    BY <1>4 DEF TermStopped, EndOfInput, ovars
  <2>2. ControlTypes'
    BY <1>1, <2>1 DEF ControlInv, ControlTypes
  <2>3. TermInv' /\ SharedInv' /\ EmacsInv'
    BY <1>1, <2>1 DEF ControlInv, TermInv, SharedInv, EmacsInv, Idle
  <2> QED
    BY <2>2, <2>3 DEF ControlInv
<1> QED
  BY <1>2, <1>3, <1>4

LEMMA PressStep ==
  ASSUME ControlInv, NEW k \in Keys, Press(k)
  PROVE  ControlInv'
<1>1. /\ tpc = "read" /\ tpc' = "send" /\ key' = k
      /\ expect' = (k \notin StopKeys) /\ pause' = (pause \/ k = "Tab")
      /\ UNCHANGED <<opc, cmd, msg, mode, kicked, stopped, vi, cpc>>
  BY DEF Press, ovars
<1>2. ~pause /\ ~kicked /\ ~Idle
  BY <1>1 DEF ControlInv, TermInv, Idle
<1>3. expect' \in BOOLEAN /\ pause' \in BOOLEAN
  BY <1>1
<1>4. (expect' <=> k \notin StopKeys) /\ (pause' <=> k = "Tab")
  BY <1>1, <1>2
<1>5. ControlTypes'
  BY <1>1, <1>3 DEF ControlInv, ControlTypes
<1>6. TermInv' /\ SharedInv' /\ EmacsInv'
  BY <1>1, <1>2, <1>4 DEF ControlInv, TermInv, SharedInv, EmacsInv
<1> QED
  BY <1>5, <1>6 DEF ControlInv

LEMMA InitControl == Init => ControlInv
BY DEF Init, ControlInv, ControlTypes, TermInv, SharedInv, EmacsInv, Idle

LEMMA NextControl == ControlInv /\ [Next]_vars => ControlInv'
<1> SUFFICES ASSUME ControlInv, [Next]_vars PROVE ControlInv'
  OBVIOUS
<1>1. CASE UNCHANGED vars
  BY <1>1 DEF vars, ControlInv, ControlTypes, TermInv, SharedInv, EmacsInv, Idle
<1>2. CASE Next
  BY <1>2, EditStep, EndOfLineStep, DeleteKeyStep, TabStep, CompleterStep, ViStep,
     WithoutTerminalStep, ReadlineStep, DeliverStep, ShellStep, TerminalStep, PressStep
     DEF Next, Shell, Terminal, User, Operation
<1> QED
  BY <1>1, <1>2

LEMMA ControlInvariance == Spec => []ControlInv
BY InitControl, NextControl, PTL DEF Spec

\* While the shell runs a command, and while the function of a completer runs,
\* the terminal reads no key: stdin is theirs (Terminal.ioloop, KickRead,
\* PauseRead).
THEOREM StdinIsNotShared == Spec => []StdinIsLent
<1>1. ControlInv => StdinIsLent
  BY DEF ControlInv, SharedInv, Idle, StdinIsLent
<1> QED
  BY <1>1, ControlInvariance, PTL

\* On a terminal that tells its width, the two loops of emacs mode never wait
\* for each other: every key that stops the terminal is answered, and every
\* pause ends (Operation.ioloop).
THEOREM EmacsGoesOn ==
  ASSUME ~NoWidth
  PROVE  Spec => []EmacsNeverStuck
<1>1. ControlInv => EmacsNeverStuck
  BY DEF ControlInv, EmacsInv, EmacsNeverStuck, Stuck
<1> QED
  BY <1>1, ControlInvariance, PTL

-----------------------------------------------------------------------------
(* The operations of the rune buffer keep the cursor in the line, and make *)
(* it no longer.                                                           *)

Good(l) == l \in Line /\ Sound(l) /\ Len(l.text) <= MaxLen

LEMMA TextsDef == \A t : t \in Texts <=> t \in Seq(Runes) /\ Len(t) <= MaxLen
<1>1. MaxLen \in Nat
  BY LineEditorAssumption
<1>2. ASSUME NEW t \in Texts PROVE t \in Seq(Runes) /\ Len(t) <= MaxLen
  <2>1. PICK n \in 0 .. MaxLen : t \in [1 .. n -> Runes]
    BY DEF Texts
  <2>2. n \in Nat
    BY <1>1
  <2>3. t \in Seq(Runes)
    BY <2>1, <2>2, SeqDef
  <2>4. Len(t) = n
    BY <2>1, <2>2, <2>3, LenProperties
  <2> QED
    BY <1>1, <2>3, <2>4
<1>3. ASSUME NEW t \in Seq(Runes), Len(t) <= MaxLen PROVE t \in Texts
  <2>1. Len(t) \in 0 .. MaxLen /\ t \in [1 .. Len(t) -> Runes]
    BY <1>1, <1>3, LenProperties
  <2> QED
    BY <2>1 DEF Texts
<1> QED
  BY <1>2, <1>3

LEMMA GoodDef == \A l : Good(l) <=> l \in [text : Texts, cur : Nat] /\ Sound(l)
<1>1. ASSUME NEW l, Good(l) PROVE l \in [text : Texts, cur : Nat] /\ Sound(l)
  BY <1>1, TextsDef DEF Good, Line
<1>2. ASSUME NEW l \in [text : Texts, cur : Nat], Sound(l) PROVE Good(l)
  BY <1>2, TextsDef DEF Good, Line
<1> QED
  BY <1>1, <1>2

LEMMA LineFacts ==
  ASSUME NEW l, Good(l)
  PROVE  /\ l.text \in Seq(Runes) /\ Len(l.text) \in Nat /\ Len(l.text) <= MaxLen
         /\ l.cur \in 0 .. Len(l.text) /\ MaxLen \in Nat
BY LineEditorAssumption DEF Good, Line, Sound

LEMMA GoodAt ==
  ASSUME NEW l, Good(l), NEW i \in 0 .. Len(l.text)
  PROVE  Good(At(l, i))
<1>1. l.text \in Seq(Runes) /\ l \in Line /\ i \in Nat
  BY LineFacts DEF Good
<1>2. At(l, i) \in Line /\ At(l, i).text = l.text /\ At(l, i).cur = i
  BY <1>1 DEF At, Line
<1> QED
  BY <1>2 DEF Good, Sound

LEMMA GoodSet ==
  ASSUME NEW t \in Seq(Runes), Len(t) <= MaxLen
  PROVE  Good(Set(t))
BY DEF Good, Set, Line, Sound

LEMMA GoodErase == Good(Erase) /\ Len(Erase.text) = 0
<1>1. << >> \in Seq(Runes) /\ Len(<< >>) = 0 /\ MaxLen \in Nat
  BY LineEditorAssumption, EmptySeq
<1> QED
  BY <1>1 DEF Good, Erase, Line, Sound

LEMMA LeastFacts == \A S, d : Least(S, d) \in S \/ Least(S, d) = d
BY DEF Least

LEMMA GreatestFacts == \A S, d : Greatest(S, d) \in S \/ Greatest(S, d) = d
BY DEF Greatest

LEMMA GoodCut ==
  ASSUME NEW l, Good(l), NEW i \in 0 .. Len(l.text), NEW j \in i .. Len(l.text)
  PROVE  Good(Cut(l, i, j))
<1> DEFINE n == Len(l.text)
           a == SubSeq(l.text, 1, i)
           b == SubSeq(l.text, j + 1, n)
<1>1. l.text \in Seq(Runes) /\ n \in Nat /\ n <= MaxLen /\ i \in Nat /\ j \in Nat /\ i <= j /\ j <= n
      /\ MaxLen \in Nat
  BY LineFacts
<1>2. a \in Seq(Runes) /\ Len(a) = i
  <2>1. \A k \in 1 .. i : l.text[k] \in Runes
    BY <1>1
  <2> QED
    BY <1>1, <2>1, SubSeqProperties
<1>3. b \in Seq(Runes) /\ Len(b) = n - j
  <2>1. \A k \in j + 1 .. n : l.text[k] \in Runes
    BY <1>1
  <2> QED
    BY <1>1, <2>1, SubSeqProperties
<1>4. Cut(l, i, j) = [text |-> a \o b, cur |-> i]
  BY DEF Cut
<1> HIDE DEF a, b, n
<1>5. a \o b \in Seq(Runes) /\ Len(a \o b) = i + (n - j)
  BY <1>2, <1>3, ConcatProperties
<1>6. Len(a \o b) <= MaxLen /\ i \in 0 .. Len(a \o b)
  BY <1>1, <1>5
<1> QED
  BY <1>1, <1>4, <1>5, <1>6 DEF Good, Line, Sound

LEMMA GoodWrite ==
  ASSUME NEW l, Good(l), NEW s \in Seq(Runes), Len(l.text) + Len(s) <= MaxLen
  PROVE  Good(WriteRunes(l, s))
<1> DEFINE n == Len(l.text)
           a == SubSeq(l.text, 1, l.cur)
           b == SubSeq(l.text, l.cur + 1, n)
<1>1. l.text \in Seq(Runes) /\ n \in Nat /\ l.cur \in 0 .. n /\ Len(s) \in Nat /\ n + Len(s) <= MaxLen
      /\ MaxLen \in Nat
  BY LineFacts
<1>2. a \in Seq(Runes) /\ Len(a) = l.cur
  <2>1. \A k \in 1 .. l.cur : l.text[k] \in Runes
    BY <1>1
  <2> QED
    BY <1>1, <2>1, SubSeqProperties
<1>3. b \in Seq(Runes) /\ Len(b) = n - l.cur
  <2>1. \A k \in l.cur + 1 .. n : l.text[k] \in Runes
    BY <1>1
  <2> QED
    BY <1>1, <2>1, SubSeqProperties, SMTT(40)
<1>4. WriteRunes(l, s) = [text |-> a \o s \o b, cur |-> l.cur + Len(s)]
  BY DEF WriteRunes
<1> HIDE DEF a, b
<1> DEFINE c == a \o s
<1>5. c \in Seq(Runes) /\ Len(c) = l.cur + Len(s)
  BY <1>2, ConcatProperties
<1> HIDE DEF c
<1>6. c \o b \in Seq(Runes) /\ Len(c \o b) = Len(c) + Len(b)
  BY <1>3, <1>5, ConcatProperties
<1>7. Len(c \o b) = n + Len(s) /\ l.cur + Len(s) \in 0 .. Len(c \o b)
  BY <1>1, <1>3, <1>5, <1>6, SMTT(40)
<1>8. WriteRunes(l, s) = [text |-> c \o b, cur |-> l.cur + Len(s)]
  BY <1>4 DEF c
<1> QED
  BY <1>1, <1>6, <1>7, <1>8 DEF Good, Line, Sound

LEMMA GoodMoves ==
  ASSUME NEW l, Good(l)
  PROVE  /\ Good(MoveToLineStart(l)) /\ Good(MoveToLineEnd(l))
         /\ Good(MoveBackward(l)) /\ Good(MoveForward(l))
         /\ Good(MoveToPrevWord(l)) /\ Good(MoveToNextWord(l)) /\ Good(MoveToEndWord(l))
<1> DEFINE n == Len(l.text)
<1>1. n \in Nat /\ l.cur \in 0 .. n
  BY LineFacts
<1>2. Good(MoveToLineStart(l)) /\ Good(MoveToLineEnd(l))
  BY <1>1, GoodAt DEF MoveToLineStart, MoveToLineEnd
<1>3. Good(MoveBackward(l)) /\ Good(MoveForward(l))
  <2>1. l.cur # 0 => l.cur - 1 \in 0 .. n
    BY <1>1
  <2>2. l.cur # n => l.cur + 1 \in 0 .. n
    BY <1>1
  <2> QED
    BY <2>1, <2>2, GoodAt DEF MoveBackward, MoveForward
<1>4. WordStarts(l) \subseteq 1 .. n - 1 /\ WordEnds(l) \subseteq 1 .. n - 1
  BY DEF WordStarts, WordEnds
<1>5. Good(MoveToPrevWord(l))
  <2>1. Greatest({i \in WordStarts(l) : i < l.cur}, 0) \in 0 .. n
    <3>1. \/ Greatest({i \in WordStarts(l) : i < l.cur}, 0) \in {i \in WordStarts(l) : i < l.cur}
          \/ Greatest({i \in WordStarts(l) : i < l.cur}, 0) = 0
      BY GreatestFacts
    <3> QED
      BY <1>1, <1>4, <3>1
  <2> QED
    BY <2>1, GoodAt DEF MoveToPrevWord
<1>6. Good(MoveToNextWord(l))
  <2>1. Least({i \in WordStarts(l) : i > l.cur}, n) \in 0 .. n
    <3>1. \/ Least({i \in WordStarts(l) : i > l.cur}, n) \in {i \in WordStarts(l) : i > l.cur}
          \/ Least({i \in WordStarts(l) : i > l.cur}, n) = n
      BY LeastFacts
    <3> QED
      BY <1>1, <1>4, <3>1
  <2> QED
    BY <2>1, GoodAt DEF MoveToNextWord
<1>7. Good(MoveToEndWord(l))
  <2> DEFINE from == IF ~IsBreak(l, l.cur) /\ IsBreak(l, l.cur + 1) THEN l.cur + 1 ELSE l.cur
             S == {i - 1 : i \in {e \in WordEnds(l) : e > from}}
  <2>1. S \subseteq 0 .. n
    BY <1>1, <1>4
  <2>2. MoveToEndWord(l) = IF l.cur = n THEN l ELSE At(l, Least(S, n))
    BY DEF MoveToEndWord
  <2> HIDE DEF S, from
  <2>3. Least(S, n) \in 0 .. n
    <3>1. Least(S, n) \in S \/ Least(S, n) = n
      BY LeastFacts
    <3>2. n \in 0 .. n
      BY <1>1
    <3> HIDE DEF n
    <3> QED
      BY <2>1, <3>1, <3>2
  <2> QED
    BY <2>2, <2>3, GoodAt
<1> QED
  BY <1>2, <1>3, <1>5, <1>6, <1>7

LEMMA GoodMoveTo ==
  ASSUME NEW l, Good(l), NEW rune, NEW prevChar \in BOOLEAN, NEW reverse \in BOOLEAN,
         NEW r \in MoveTo(l, rune, prevChar, reverse)
  PROVE  Good(r)
<1> DEFINE n == Len(l.text)
           found == {i \in 0 .. n - 1 : /\ l.text[i + 1] = rune
                                        /\ IF reverse THEN i < l.cur ELSE i > l.cur}
           step == IF ~prevChar THEN 0 ELSE IF reverse THEN 1 ELSE -1
<1>1. n \in Nat /\ l.cur \in 0 .. n
  BY LineFacts
<1>2. r = l \/ \E i \in found : r = At(l, i + step)
  BY DEF MoveTo
<1>3. \A i \in found : i + step \in 0 .. n
  BY <1>1
<1> HIDE DEF found, step
<1> QED
  BY <1>2, <1>3, GoodAt

LEMMA GoodDeletes ==
  ASSUME NEW l, Good(l)
  PROVE  /\ Good(Delete(l)) /\ Good(Backspace(l)) /\ Good(KillFront(l)) /\ Good(Kill(l))
         /\ Good(DeleteWord(l)) /\ Good(BackEscapeWord(l))
<1> DEFINE n == Len(l.text)
<1>1. n \in Nat /\ l.cur \in 0 .. n /\ n \in l.cur .. n /\ l.cur \in 0 .. l.cur /\ 0 \in 0 .. n
  BY LineFacts
<1>2. Good(KillFront(l)) /\ Good(Kill(l))
  BY <1>1, GoodCut DEF KillFront, Kill
<1>3. Good(Delete(l))
  <2>1. l.cur # n => l.cur + 1 \in l.cur .. n
    BY <1>1
  <2> QED
    BY <1>1, <2>1, GoodCut DEF Delete
<1>4. Good(Backspace(l))
  <2>1. l.cur # 0 => l.cur - 1 \in 0 .. n /\ l.cur \in l.cur - 1 .. n
    BY <1>1
  <2> QED
    BY <2>1, GoodCut DEF Backspace
<1>5. Good(DeleteWord(l))
  <2> DEFINE init == Least({i \in l.cur .. n - 1 : ~IsBreak(l, i)}, n)
             start == Least({i \in WordStarts(l) : i > init}, n + 1)
  <2>1. init \in l.cur .. n
    <3>1. init \in {i \in l.cur .. n - 1 : ~IsBreak(l, i)} \/ init = n
      BY LeastFacts
    <3> QED
      BY <1>1, <3>1
  <2>2. DeleteWord(l) = Cut(l, l.cur, start - 1)
    BY DEF DeleteWord
  <2> HIDE DEF init
  <2>3. start \in init + 1 .. n + 1
    <3>1. start \in {i \in WordStarts(l) : i > init} \/ start = n + 1
      BY LeastFacts
    <3>2. WordStarts(l) \subseteq 1 .. n - 1
      BY DEF WordStarts
    <3> HIDE DEF start
    <3> QED
      BY <1>1, <2>1, <3>1, <3>2
  <2> HIDE DEF start
  <2>4. start - 1 \in l.cur .. n
    BY <1>1, <2>1, <2>3
  <2> QED
    BY <1>1, <2>2, <2>4, GoodCut
<1>6. Good(BackEscapeWord(l))
  <2> DEFINE start == Greatest({i \in WordStarts(l) : i < l.cur}, 0)
  <2>1. start \in 0 .. n /\ l.cur \in start .. n
    <3>1. start \in {i \in WordStarts(l) : i < l.cur} \/ start = 0
      BY GreatestFacts
    <3>2. WordStarts(l) \subseteq 1 .. n - 1
      BY DEF WordStarts
    <3> HIDE DEF start
    <3> QED
      BY <1>1, <3>1, <3>2
  <2>2. BackEscapeWord(l) = IF l.cur = 0 THEN l ELSE IF start = 0 THEN Erase ELSE Cut(l, start, l.cur)
    BY DEF BackEscapeWord
  <2> HIDE DEF start
  <2> QED
    BY <2>1, <2>2, GoodCut, GoodErase
<1> QED
  BY <1>2, <1>3, <1>4, <1>5, <1>6

LEMMA GoodReplace ==
  ASSUME NEW l, Good(l), NEW rune \in Runes
  PROVE  ~ReplacePanics(l) => Good(Replace(l, rune))
<1> SUFFICES ASSUME l.cur # Len(l.text) PROVE Good(Replace(l, rune))
  BY DEF ReplacePanics
<1> DEFINE t == [l.text EXCEPT ![l.cur + 1] = rune]
<1>1. /\ l.text \in Seq(Runes) /\ Len(l.text) \in Nat /\ Len(l.text) <= MaxLen
      /\ l.cur \in 0 .. Len(l.text)
  BY LineFacts
<1>2. t \in Seq(Runes) /\ Len(t) = Len(l.text)
  BY <1>1, ExceptSeq
<1>3. Replace(l, rune) = [l EXCEPT !.text = t]
  BY DEF Replace
<1> HIDE DEF t
<1>4. l \in Line
  BY DEF Good
<1>5. Replace(l, rune) \in Line /\ Replace(l, rune).text = t /\ Replace(l, rune).cur = l.cur
  BY <1>2, <1>3, <1>4 DEF Line
<1> QED
  BY <1>1, <1>2, <1>5 DEF Good, Sound
-----------------------------------------------------------------------------
(* What the keys do to the line.                                           *)

LEMMA RuneFacts ==
  ASSUME NEW k
  PROVE  RuneOf(k) \in Runes /\ <<RuneOf(k)>> \in Seq(Runes) /\ Len(<<RuneOf(k)>>) = 1
<1>1. RuneOf(k) \in Runes
  BY DEF RuneOf, Runes
<1> QED
  BY <1>1

LEMMA GoodFromHistory ==
  ASSUME NEW l, Good(l), NEW r \in FromHistory(l)
  PROVE  Good(r)
BY TextsDef, GoodSet DEF FromHistory

LEMMA GoodEdited ==
  ASSUME NEW l, Good(l), NEW k, k # "CtrlT", k \in Letters => Len(l.text) < MaxLen,
         NEW r \in Edited(k, l)
  PROVE  Good(r)
<1>1. CASE k \in Letters
  <2>1. r = WriteRunes(l, <<RuneOf(k)>>)
    <3>1. k \notin {"Left", "Right", "Home", "End", "MetaB", "MetaF", "MetaD", "Backspace",
                    "CtrlU", "CtrlK", "CtrlW", "CtrlT", "Up", "Down"}
      BY <1>1 DEF Letters, ViMotions, ViAliases, ViInserts, ViOperands
    <3> QED
      BY <1>1, <3>1 DEF Edited
  <2>2. Len(l.text) + 1 <= MaxLen
    BY <1>1, LineFacts
  <2> QED
    BY <2>1, <2>2, RuneFacts, GoodWrite
<1>2. CASE k \notin Letters
  <2>1. \/ r \in {l, MoveBackward(l), MoveForward(l), MoveToLineStart(l), MoveToLineEnd(l),
                 MoveToPrevWord(l), MoveToNextWord(l)}
        \/ r \in {DeleteWord(l), Backspace(l), KillFront(l), Kill(l), BackEscapeWord(l)}
        \/ r \in FromHistory(l)
    <3>1. CASE k \in {"Left", "Right", "Home", "End", "MetaB", "MetaF"}
      BY <1>2, <3>1 DEF Edited
    <3>2. CASE k \in {"MetaD", "Backspace", "CtrlU", "CtrlK", "CtrlW"}
      BY <1>2, <3>2 DEF Edited
    <3>3. CASE k \in {"Up", "Down"}
      BY <1>2, <3>3 DEF Edited
    <3>4. CASE k \notin {"Left", "Right", "Home", "End", "MetaB", "MetaF", "MetaD", "Backspace",
                       "CtrlU", "CtrlK", "CtrlW", "Up", "Down"}
      BY <1>2, <3>4 DEF Edited
    <3> QED
      BY <3>1, <3>2, <3>3, <3>4
  <2> QED
    BY <2>1, GoodMoves, GoodDeletes, GoodFromHistory
<1> QED
  BY <1>1, <1>2

LEMMA GoodCompleted ==
  ASSUME NEW l, Good(l), NEW r \in Completed(l)
  PROVE  Good(r)
<1>1. /\ l.text \in Seq(Runes) /\ Len(l.text) \in Nat /\ MaxLen \in Nat
      /\ \A t \in Candidates : t \in Seq(Runes) /\ Len(t) \in Nat
  BY LineFacts, TextsDef DEF Candidates
<1>2. ASSUME NEW t \in Candidates, Len(t) + Len(l.text) <= MaxLen, r = WriteRunes(l, t)
      PROVE  Good(r)
  BY <1>1, <1>2, GoodWrite
<1>3. ASSUME NEW n \in 1 .. Len(l.text), NEW t \in Candidates,
             Len(t) + Len(l.text) <= MaxLen, r = Set(SubSeq(l.text, 1, n) \o t)
      PROVE  Good(r)
  <2> DEFINE a == SubSeq(l.text, 1, n)
  <2>1. a \in Seq(Runes) /\ Len(a) = n
    <3>1. \A i \in 1 .. n : l.text[i] \in Runes
      BY <1>1
    <3> QED
      BY <1>1, <3>1, SubSeqProperties
  <2>2. r = Set(a \o t)
    BY <1>3
  <2> HIDE DEF a
  <2>3. a \o t \in Seq(Runes) /\ Len(a \o t) = Len(a) + Len(t)
    BY <1>1, <2>1, ConcatProperties
  <2>4. Len(a \o t) <= MaxLen
    BY <1>1, <1>3, <2>1, <2>3
  <2> QED
    BY <2>2, <2>3, <2>4, GoodSet
<1> QED
  BY <1>2, <1>3 DEF Completed

LEMMA GoodVi ==
  ASSUME NEW l, Good(l)
  PROVE  /\ \A k \in ViMotions : Good(Moved(k, l))
         /\ \A k \in ViInserts : Good(Inserting(k, l))
         /\ \A k : Good(Deleted(k, l))
<1>1. Good(ViDelete(l))
  <2>1. Good(Delete(l)) /\ Good(MoveBackward(Delete(l)))
    BY GoodDeletes, GoodMoves
  <2> QED
    BY <2>1 DEF ViDelete
<1>2. ASSUME NEW k \in ViMotions PROVE Good(Moved(k, l))
  BY <1>1, GoodMoves DEF Moved, ViMotions
<1>3. ASSUME NEW k \in ViInserts PROVE Good(Inserting(k, l))
  BY GoodMoves, GoodDeletes, GoodErase DEF Inserting, ViInserts
<1>4. ASSUME NEW k PROVE Good(Deleted(k, l))
  BY GoodDeletes, GoodErase DEF Deleted
<1> QED
  BY <1>2, <1>3, <1>4

LEMMA GoodOperated ==
  ASSUME NEW l, Good(l), NEW k, ~(cmd = "r" /\ ReplacePanics(l)), NEW r \in Operated(k, l)
  PROVE  Good(r)
<1>1. CASE cmd = "r"
  BY <1>1, RuneFacts, GoodReplace DEF Operated
<1>2. CASE cmd \in {"d", "c"}
  BY <1>2, GoodVi DEF Operated
<1>3. CASE cmd \notin {"r", "d", "c"}
  <2>1. r = l \/ r \in MoveTo(l, RuneOf(k), cmd \in {"t", "T"}, cmd \in {"F", "T"})
    BY <1>3 DEF Operated
  <2>2. (cmd \in {"t", "T"}) \in BOOLEAN /\ (cmd \in {"F", "T"}) \in BOOLEAN
    OBVIOUS
  <2> QED
    BY <2>1, <2>2, GoodMoveTo
<1> QED
  BY <1>1, <1>2, <1>3

-----------------------------------------------------------------------------
(* The line.                                                               *)

\* The length of the line is tested when a letter is pressed, so that it must
\* not grow before the letter is taken.
LineInv ==
  /\ Good(line)
  /\ mode = "normal" => vi
  /\ tpc = "send" /\ key \in Letters /\ mode = "insert" => Room

LEMMA LineStep ==
  ASSUME "CtrlT" \notin Keys, ControlInv, LineInv, [Next]_vars
  PROVE  LineInv'
<1>1. /\ Good(line) /\ (mode = "normal" => vi) /\ mode \in {"insert", "normal"}
      /\ tpc = "send" /\ key \in Letters /\ mode = "insert" => Len(line.text) < MaxLen
  BY DEF LineInv, ControlInv, ControlTypes, Room
<1>2. ASSUME tpc' # "send" \/ UNCHANGED <<tpc, key, mode, line>>, Good(line'),
             mode' = "insert" \/ UNCHANGED <<vi, mode>>
      PROVE  LineInv'
  BY <1>1, <1>2 DEF LineInv, Room
<1>3. CASE Edit
  <2>1. /\ Take /\ Passes /\ Meant \in EditKeys /\ line' \in Edited(Meant, line) /\ mode' = mode
        /\ tpc = "send" /\ tpc' = "top" /\ vi' = vi
    BY <1>3 DEF Edit, Take
  <2>2. key \in Keys \cup {"none"}
    BY DEF ControlInv, ControlTypes
  <2>3. CASE Normal /\ key \in ViAliases
    <3>1. Meant \in {"Left", "Right", "Up", "Down"}
      BY <2>3 DEF Meant, Alias, ViAliases
    <3>2. Meant # "CtrlT" /\ Meant \notin Letters
      BY <3>1 DEF Letters, ViMotions, ViAliases, ViInserts, ViOperands
    <3>3. Good(line')
      BY <1>1, <2>1, <3>2, GoodEdited
    <3> QED
      BY <1>2, <2>1, <3>3
  <2>4. CASE ~(Normal /\ key \in ViAliases)
    <3>1. Meant = key
      BY <2>4 DEF Meant
    <3>2. key # "CtrlT"
      BY <2>2
    <3>3. key \in Letters => Len(line.text) < MaxLen
      <4>1. key \in Letters => ~Normal
        BY <2>1, <2>4 DEF Passes, Letters, ViMotions, ViAliases, ViInserts, ViOperands
      <4>2. ~Normal => mode = "insert"
        BY <1>1 DEF Normal
      <4> QED
        BY <1>1, <2>1, <4>1, <4>2
    <3>4. Good(line')
      BY <1>1, <2>1, <3>1, <3>2, <3>3, GoodEdited
    <3> QED
      BY <1>2, <2>1, <3>4
  <2> QED
    BY <2>3, <2>4
<1>4. CASE Submit \/ Interrupt \/ EndKey
  <2>1. /\ line' = Erase /\ tpc' = "top" /\ vi' = vi
        /\ mode' = "insert" \/ mode' = mode
    BY <1>4 DEF Submit, Interrupt, EndKey, Take
  <2> QED
    BY <1>2, <2>1, GoodErase
<1>5. CASE DeleteKey
  BY <1>1, <1>2, <1>5, GoodDeletes DEF DeleteKey, Take
<1>6. CASE InputEnded
  <2>1. /\ line' = Erase /\ tpc' = "gone" /\ vi' = vi
        /\ mode' = "insert" \/ mode' = mode
    BY <1>6 DEF InputEnded, tvars
  <2> QED
    BY <1>2, <2>1, GoodErase
<1>7. CASE TabKey \/ ViBell \/ ViCommand
  BY <1>1, <1>2, <1>7 DEF TabKey, ViBell, ViCommand, NormalMode, Take
<1>8. CASE CompleterReturns
  <2>1. tpc' = "top"
    BY <1>8 DEF CompleterReturns, ControlInv, SharedInv
  <2>2. Good(line')
    BY <1>1, <1>8, GoodCompleted DEF CompleterReturns
  <2> QED
    BY <1>2, <1>8, <2>1, <2>2 DEF CompleterReturns
<1>9. CASE ViEscape
  BY <1>1, <1>9 DEF ViEscape, InsertMode, Take, LineInv
<1>10. CASE ViMotion
  BY <1>1, <1>2, <1>10, GoodVi DEF ViMotion, NormalMode, Take
<1>11. CASE ViInsert
  <2>1. line' = Inserting(key, line) /\ key \in ViInserts /\ tpc' = "top" /\ mode' = "insert"
    BY <1>11 DEF ViInsert, NormalMode, Take
  <2>2. Good(line')
    BY <1>1, <2>1, GoodVi
  <2> QED
    BY <1>2, <2>1, <2>2
<1>12. CASE ViOperand
  <2>1. /\ tpc' = "top" /\ vi' = vi /\ mode' \in {"insert", mode}
        /\ ~(cmd = "r" /\ ReplacePanics(line)) /\ line' \in Operated(key, line)
    BY <1>12 DEF ViOperand, Operate, Take
  <2>2. Good(line')
    BY <1>1, <2>1, GoodOperated
  <2> QED
    BY <1>2, <2>1, <2>2
<1>13. CASE ViOperandEnded
  <2>1. /\ tpc' = "gone" /\ vi' = vi /\ mode' \in {"insert", mode}
        /\ ~(cmd = "r" /\ ReplacePanics(line)) /\ line' \in Operated("Space", line)
    BY <1>13 DEF ViOperandEnded, Operate, tvars
  <2>2. Good(line')
    BY <1>1, <2>1, GoodOperated
  <2> QED
    BY <1>2, <2>1, <2>2
<1>14. CASE Panic
  BY <1>1, <1>2, <1>14 DEF Panic
<1>15. CASE Readline \/ Close \/ Closed \/ Deliver \/ UNCHANGED vars
  BY <1>1, <1>2, <1>15 DEF Readline, Close, Closed, Deliver, tvars, ovars, vars
<1>16. CASE SetVimMode
  <2>1. tpc # "send"
    BY <1>16 DEF SetVimMode, ControlInv, SharedInv, Idle
  <2> QED
    <3>1. tpc' # "send" /\ mode' = "insert" /\ line' = line
      BY <1>16, <2>1 DEF SetVimMode, tvars
    <3> QED
      BY <1>1, <1>2, <3>1
<1>17. CASE TermLoop \/ TermKicked \/ TermStopped \/ EndOfInput
  BY <1>1, <1>2, <1>17 DEF TermLoop, TermKicked, TermStopped, EndOfInput, ovars
<1>18. ASSUME NEW k \in Keys, Press(k)
       PROVE  LineInv'
  <2>1. /\ key' = k /\ UNCHANGED <<line, mode, vi>>
        /\ k \in Letters /\ mode = "insert" => Room
    BY <1>18 DEF Press, Pressable, ovars
  <2> QED
    BY <1>1, <2>1 DEF LineInv, Room
<1> QED
  BY <1>3, <1>4, <1>5, <1>6, <1>7, <1>8, <1>9, <1>10, <1>11, <1>12, <1>13, <1>14, <1>15,
     <1>16, <1>17, <1>18 DEF Next, Shell, Terminal, User, Operation

\* Ctrl-T apart, which may put the cursor outside a line of one rune, no key
\* leaves the cursor where the next one would index a slice out of its range,
\* in emacs mode and in vi's, whatever the history and the completer give
\* (RuneBuffer of runebuf.go).
THEOREM CursorInLine ==
  ASSUME "CtrlT" \notin Keys
  PROVE  Spec => []TypeOK
<1>1. Init => LineInv
  BY GoodErase DEF Init, LineInv
<1>2. ControlInv /\ LineInv /\ [Next]_vars => LineInv'
  BY LineStep
<1>3. ControlInv /\ LineInv => TypeOK
  BY GoodDef DEF ControlInv, ControlTypes, LineInv, TypeOK
<1> QED
  BY <1>1, <1>2, <1>3, ControlInvariance, PTL DEF Spec
=============================================================================
