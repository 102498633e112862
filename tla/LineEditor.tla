----------------------------- MODULE LineEditor -----------------------------
(***************************************************************************)
(* Three goroutines that make an interactive line (readline/):             *)
(*                                                                         *)
(*   Terminal.ioloop   reads keys from stdin and hands them on,            *)
(*   Operation.ioloop  edits the line and hands it on, in emacs or vi mode,*)
(*   the shell         calls Readline, runs what it gets, closes both.     *)
(*                                                                         *)
(* The terminal stops reading after a key that may end the line, so that a *)
(* command started by the shell has stdin for itself, and goes on when     *)
(* somebody kicks it; after a Tab it pauses until the completer is done.   *)
(* Both channels are unbuffered, so a hand-over is a step of both sides.   *)
(***************************************************************************)
EXTENDS RuneBuffer, FiniteSets

CONSTANTS
  Keys,     \* the keys the user presses
  MaxLen,   \* bound: runes in a line
  NoWidth   \* TRUE when the terminal reports a width of 0

(* Letters that are commands of vi's normal mode; "z" is none. *)
ViMotions == {"0", "$", "x", "b", "w", "e"}
ViAliases == {"h", "j", "k", "l"}
ViInserts == {"i", "I", "a", "A", "s", "S"}
ViOperands == {"r", "d", "f", "F", "t", "T", "c"}
Letters == ViMotions \cup ViAliases \cup ViInserts \cup ViOperands \cup {"z", "Space"}

(* Keys that reach the terminal as an escape sequence; in vi mode it hands *)
(* on the escape by itself.                                                *)
Escapes == {"MetaB", "MetaF", "MetaD", "Up", "Down", "Left", "Right"}
Submits == {"Enter", "CtrlJ"}
Control == Submits \cup {"CtrlC", "CtrlD", "Tab", "Esc", "Home", "End", "Backspace",
                         "CtrlU", "CtrlK", "CtrlW", "CtrlT", "CtrlL"}
AllKeys == Letters \cup Escapes \cup Control

ASSUME LineEditorAssumption ==
  /\ Keys \subseteq AllKeys
  /\ MaxLen \in Nat
  /\ NoWidth \in BOOLEAN

VARIABLES
  line,      \* the RuneBuffer
  tpc,       \* Terminal.ioloop: "top", "kick", "read", "send" or "gone"
  key,       \* the key it read last
  expect,    \* its expectNextChar
  pause,     \* Terminal.pause
  kicked,    \* kickChan, a channel with room for one kick
  stopped,   \* stopChan is closed
  opc,       \* Operation.ioloop: "read", "operand", "complete", "deliver" or "gone"
  cmd,       \* the vi command that waits for its operand
  msg,       \* what it delivers: "line", "interrupt", "eof" or "closed"
  vi,        \* Config.VimMode
  mode,      \* vimMode: "insert" or "normal"
  cpc        \* the shell: "busy", "reading", "closing", "waiting", "closed", "panicked"

tvars == <<tpc, key, expect, pause>>
ovars == <<line, opc, cmd, msg, mode>>
vars == <<line, tpc, key, expect, pause, kicked, stopped, opc, cmd, msg, vi, mode, cpc>>

RuneOf(k) == IF k \in {"Space", "$"} THEN Break ELSE Word
Room == Len(line.text) < MaxLen
Texts == UNION {[1 .. n -> Runes] : n \in 0 .. MaxLen}

(* No key leaves the cursor outside the line: the next one would index a   *)
(* slice out of its range (runebuf.go).                                    *)
TypeOK ==
  /\ line \in [text: Texts, cur: Nat] /\ Sound(line)
  /\ tpc \in {"top", "kick", "read", "send", "gone"}
  /\ key \in Keys \cup {"none"}
  /\ {expect, pause, kicked, stopped, vi} \subseteq BOOLEAN
  /\ opc \in {"read", "operand", "complete", "deliver", "gone"}
  /\ cmd \in ViOperands \cup {"none"}
  /\ msg \in {"none", "line", "interrupt", "eof", "closed"}
  /\ mode \in {"insert", "normal"}
  /\ cpc \in {"busy", "reading", "closing", "waiting", "closed", "panicked"}

Init ==
  /\ line = Erase
  /\ tpc = "top" /\ key = "none" /\ expect = FALSE /\ pause = FALSE
  /\ kicked = FALSE /\ stopped = FALSE
  /\ opc = "read" /\ cmd = "none" /\ msg = "none"
  /\ vi \in BOOLEAN /\ mode = "insert"
  /\ cpc = "busy"

-----------------------------------------------------------------------------
(***************************************************************************)
(* The shell                                                               *)
(***************************************************************************)

(* KickRead: a kick that is there already is enough. *)
Kick == kicked' = TRUE

(* Readline is called: the prompt is drawn and the terminal kicked. *)
Readline ==
  /\ cpc = "busy"
  /\ cpc' = "reading"
  /\ Kick
  /\ UNCHANGED <<tvars, ovars, stopped, vi>>

(* set mode, between two lines *)
SetVimMode ==
  /\ cpc = "busy"
  /\ vi' = ~vi
  /\ mode' = "insert"
  /\ UNCHANGED <<tvars, line, opc, cmd, msg, kicked, stopped, cpc>>

(* The select in Runes. Only the end of the input ends the loop of docli. *)
Deliver ==
  /\ cpc = "reading" /\ opc = "deliver"
  /\ cpc' = IF msg \in {"eof", "closed"} THEN "closing" ELSE "busy"
  /\ opc' = IF msg = "closed" THEN "gone" ELSE "read"
  /\ msg' = "none"
  /\ UNCHANGED <<tvars, line, cmd, mode, kicked, stopped, vi>>

(* Terminal.Close: stdin and stopChan are closed, then it waits. *)
Close ==
  /\ cpc = "closing"
  /\ cpc' = "waiting"
  /\ stopped' = TRUE
  /\ UNCHANGED <<tvars, ovars, kicked, vi>>

Closed ==
  /\ cpc = "waiting" /\ tpc = "gone"
  /\ cpc' = "closed"
  /\ UNCHANGED <<tvars, ovars, kicked, stopped, vi>>

-----------------------------------------------------------------------------
(***************************************************************************)
(* The terminal                                                            *)
(***************************************************************************)

(* One round of the loop begins; while it is paused there is none. *)
TermLoop ==
  /\ tpc = "top" /\ ~pause
  /\ tpc' = IF expect THEN "read" ELSE "kick"
  /\ expect' = FALSE
  /\ UNCHANGED <<key, pause, ovars, kicked, stopped, vi, cpc>>

TermKicked ==
  /\ tpc = "kick" /\ kicked
  /\ tpc' = "read"
  /\ kicked' = FALSE
  /\ UNCHANGED <<key, expect, pause, ovars, stopped, vi, cpc>>

TermStopped ==
  /\ tpc = "kick" /\ stopped
  /\ tpc' = "gone"
  /\ UNCHANGED <<key, expect, pause, ovars, kicked, stopped, vi, cpc>>

(* Keys after which the terminal reads no further unless it is kicked. *)
StopKeys == Submits \cup {"CtrlC", "CtrlD"}

(* The mode decides whether an escape is a key or begins one. A line that  *)
(* is full takes no more letters: a bound of the model, not of the code.   *)
Pressable(k) ==
  /\ k \in Escapes => ~vi
  /\ k = "Esc" => vi
  /\ k \in Letters /\ mode = "insert" => Room

(* The user presses a key; a Tab pauses the terminal before it is sent. *)
\* Mutant: the terminal is not paused.
PressWithoutPause(k) ==
  /\ tpc = "read" /\ Pressable(k)
  /\ tpc' = "send"
  /\ key' = k
  /\ expect' = (k \notin StopKeys)
  /\ UNCHANGED <<pause, ovars, kicked, stopped, vi, cpc>>
Press(k) ==
  /\ tpc = "read" /\ Pressable(k)
  /\ tpc' = "send"
  /\ key' = k
  /\ expect' = (k \notin StopKeys)
  /\ pause' = (pause \/ k = "Tab")
  /\ UNCHANGED <<ovars, kicked, stopped, vi, cpc>>

(* Stdin ends or cannot be read: outchan is closed. *)
EndOfInput ==
  /\ tpc = "read"
  /\ tpc' = "gone"
  /\ UNCHANGED <<key, expect, pause, ovars, kicked, stopped, vi, cpc>>

-----------------------------------------------------------------------------
(***************************************************************************)
(* The operation.  Take is the hand-over of a key; the rest of a handler   *)
(* is said by what it does to the line.                                    *)
(***************************************************************************)
Take ==
  /\ tpc = "send"
  /\ tpc' = "top"
  /\ UNCHANGED <<key, expect, pause, stopped, vi>>

(* The key that ends a command of vi or is none: HandleVim passes on. *)
Normal == vi /\ mode = "normal"
Passes == Normal => key \in {"Enter", "CtrlC"} \cup ViAliases

(* handleVimNormalMovement gives the key that does the same. *)
Alias == [h |-> "Left", j |-> "Down", k |-> "Up", l |-> "Right"]
Meant == IF Normal /\ key \in ViAliases THEN Alias[key] ELSE key

(* Lines the history can put in place of this one, if it has any. *)
FromHistory(l) == {l} \cup {Set(t) : t \in Texts}

(* What a key that only edits makes of the line. *)
Edited(k, l) ==
  CASE k \in Letters     -> {WriteRunes(l, <<RuneOf(k)>>)}
    [] k = "Left"        -> {MoveBackward(l)}
    [] k = "Right"       -> {MoveForward(l)}
    [] k = "Home"        -> {MoveToLineStart(l)}
    [] k = "End"         -> {MoveToLineEnd(l)}
    [] k = "MetaB"       -> {MoveToPrevWord(l)}
    [] k = "MetaF"       -> {MoveToNextWord(l)}
    [] k = "MetaD"       -> {DeleteWord(l)}
    [] k = "Backspace"   -> {Backspace(l)}
    [] k = "CtrlU"       -> {KillFront(l)}
    [] k = "CtrlK"       -> {Kill(l)}
    [] k = "CtrlW"       -> {BackEscapeWord(l)}
    [] k = "CtrlT"       -> {Transpose(l)}
    [] k \in {"Up", "Down"} -> FromHistory(l)
    [] OTHER             -> {l}
EditKeys == AllKeys \ (StopKeys \cup {"Tab", "Esc"})

Edit ==
  /\ opc = "read" /\ Take /\ Passes
  /\ Meant \in EditKeys
  /\ line' \in Edited(Meant, line)
  /\ UNCHANGED <<opc, cmd, msg, mode, kicked, cpc>>

(* Enter: the line is delivered. ExitVimMode goes back to insert mode. *)
\* Mutant: an empty line is not delivered.
SubmitUnlessEmpty ==
  /\ opc = "read" /\ Take /\ Passes
  /\ key \in Submits
  /\ line' = Erase /\ mode' = "insert"
  /\ IF line = Erase THEN UNCHANGED <<opc, msg>> ELSE opc' = "deliver" /\ msg' = "line"
  /\ UNCHANGED <<cmd, kicked, cpc>>
Submit ==
  /\ opc = "read" /\ Take /\ Passes
  /\ key \in Submits
  /\ line' = Erase /\ mode' = "insert"
  /\ opc' = "deliver" /\ msg' = "line"
  /\ UNCHANGED <<cmd, kicked, cpc>>

Interrupt ==
  /\ opc = "read" /\ Take /\ key = "CtrlC"
  /\ line' = Erase /\ mode' = "insert"
  /\ opc' = "deliver" /\ msg' = "interrupt"
  /\ UNCHANGED <<cmd, kicked, cpc>>

(* Ctrl-D deletes a rune, and the terminal must go on reading. *)
\* Mutant: nobody kicks the terminal.
DeleteWithoutKick ==
  /\ opc = "read" /\ Take /\ Passes
  /\ key = "CtrlD" /\ Len(line.text) > 0
  /\ line' = Delete(line)
  /\ UNCHANGED <<opc, cmd, msg, mode, kicked, cpc>>
DeleteKey ==
  /\ opc = "read" /\ Take /\ Passes
  /\ key = "CtrlD" /\ Len(line.text) > 0
  /\ Kick
  /\ line' = Delete(line)
  /\ UNCHANGED <<opc, cmd, msg, mode, cpc>>

(* On an empty line it is the end of the input. *)
EndKey ==
  /\ opc = "read" /\ Take /\ Passes
  /\ key = "CtrlD" /\ Len(line.text) = 0
  /\ line' = Erase
  /\ opc' = "deliver" /\ msg' = "eof"
  /\ UNCHANGED <<cmd, mode, kicked, cpc>>

(* The terminal is gone: what was typed is a line, then comes the end. *)
InputEnded ==
  /\ opc = "read" /\ tpc = "gone"
  /\ opc' = "deliver"
  /\ msg' = IF Len(line.text) = 0 THEN "closed" ELSE "line"
  /\ line' = Erase
  /\ mode' = IF Len(line.text) = 0 THEN mode ELSE "insert"
  /\ UNCHANGED <<tvars, cmd, kicked, stopped, vi, cpc>>

-----------------------------------------------------------------------------
(***************************************************************************)
(* Completion.  The completer of nash gives one candidate or none, so the  *)
(* menu never opens; it runs a function of the user, which may read stdin. *)
(***************************************************************************)
TabKey ==
  /\ opc = "read" /\ Take /\ Passes
  /\ key = "Tab"
  /\ opc' = IF NoWidth THEN "read" ELSE "complete"
  /\ UNCHANGED <<line, cmd, msg, mode, kicked, cpc>>

(* The candidate is inserted, or replaces the line after the offset. *)
Candidates == {t \in Texts : Len(t) <= 1}
Completed(l) ==
  {l}
  \cup {WriteRunes(l, t) : t \in {c \in Candidates : Len(c) + Len(l.text) <= MaxLen}}
  \cup {Set(SubSeq(l.text, 1, n) \o t) :
          n \in 1 .. Len(l.text), t \in {c \in Candidates : Len(c) + Len(l.text) <= MaxLen}}

CompleterReturns ==
  /\ opc = "complete"
  /\ pause' = FALSE
  /\ line' \in Completed(line)
  /\ opc' = "read"
  /\ UNCHANGED <<tpc, key, expect, kicked, stopped, cmd, msg, vi, mode, cpc>>

-----------------------------------------------------------------------------
(***************************************************************************)
(* vi                                                                      *)
(***************************************************************************)
InsertMode == opc = "read" /\ Take /\ vi /\ mode = "insert"
NormalMode == opc = "read" /\ Take /\ Normal

ViEscape ==
  /\ InsertMode /\ key = "Esc"
  /\ mode' = "normal"
  /\ UNCHANGED <<line, opc, cmd, msg, kicked, cpc>>

ViDelete(l) ==
  LET d == Delete(l) IN IF d.cur = Len(d.text) THEN MoveBackward(d) ELSE d

Moved(k, l) ==
  CASE k = "0" -> MoveToLineStart(l)
    [] k = "$" -> MoveToLineEnd(l)
    [] k = "x" -> ViDelete(l)
    [] k = "b" -> MoveToPrevWord(l)
    [] k = "w" -> MoveToNextWord(l)
    [] k = "e" -> MoveToEndWord(l)

ViMotion ==
  /\ NormalMode /\ key \in ViMotions
  /\ ~(key = "e" /\ MoveToEndWordPanics(line))
  /\ line' = Moved(key, line)
  /\ UNCHANGED <<opc, cmd, msg, mode, kicked, cpc>>

Inserting(k, l) ==
  CASE k = "i" -> l
    [] k = "I" -> MoveToLineStart(l)
    [] k = "a" -> MoveForward(l)
    [] k = "A" -> MoveToLineEnd(l)
    [] k = "s" -> Delete(l)
    [] k = "S" -> Erase

ViInsert ==
  /\ NormalMode /\ key \in ViInserts
  /\ line' = Inserting(key, line)
  /\ mode' = "insert"
  /\ UNCHANGED <<opc, cmd, msg, kicked, cpc>>

(* readNext: the command takes the next key, whatever it is. *)
ViCommand ==
  /\ NormalMode /\ key \in ViOperands
  /\ opc' = "operand" /\ cmd' = key
  /\ UNCHANGED <<line, msg, mode, kicked, cpc>>

(* What d and c delete with an operand; with any other they do nothing. *)
Deleted(k, l) ==
  CASE k = cmd -> Erase
    [] k = "w" -> DeleteWord(l)
    [] k = "h" -> Backspace(l)
    [] k = "l" -> Delete(l)
    [] OTHER   -> l

Operated(k, l) ==
  CASE cmd = "r"         -> {Replace(l, RuneOf(k))}
    [] cmd \in {"d", "c"} -> {Deleted(k, l)}
    [] OTHER             ->
         IF k = "Esc" THEN {l}
         ELSE MoveTo(l, RuneOf(k), cmd \in {"t", "T"}, cmd \in {"F", "T"})

Operate(k) ==
  /\ opc = "operand"
  /\ ~(cmd = "r" /\ ReplacePanics(line))
  /\ line' \in Operated(k, line)
  /\ opc' = "read" /\ cmd' = "none"
  /\ mode' = IF cmd = "c" THEN "insert" ELSE mode
  /\ UNCHANGED <<msg, kicked, cpc>>

ViOperand == Take /\ Operate(key)

(* Without a terminal ReadRune returns 0, which is not a rune of a word. *)
ViOperandEnded ==
  /\ tpc = "gone"
  /\ Operate("Space")
  /\ UNCHANGED <<tvars, stopped, vi>>

(* Any other key rings the bell, and with it ends the handling of it. *)
ViBell ==
  /\ NormalMode
  /\ key \notin {"Enter", "CtrlC"} \cup ViAliases \cup ViMotions \cup ViInserts \cup ViOperands
  /\ UNCHANGED <<line, opc, cmd, msg, mode, kicked, cpc>>

(* An index behind the line: the process ends. *)
Panic ==
  /\ \/ opc = "operand" /\ cmd = "r" /\ ReplacePanics(line) /\ tpc \in {"send", "gone"}
     \/ opc = "read" /\ tpc = "send" /\ Normal /\ key = "e" /\ MoveToEndWordPanics(line)
  /\ opc' = "gone" /\ tpc' = "gone" /\ cpc' = "panicked"
  /\ UNCHANGED <<line, key, expect, pause, kicked, stopped, cmd, msg, vi, mode>>

-----------------------------------------------------------------------------
Shell == Readline \/ SetVimMode \/ Close \/ Closed
Terminal == TermLoop \/ TermKicked \/ TermStopped
User == EndOfInput \/ \E k \in Keys : Press(k)
Operation ==
  \/ Edit \/ Submit \/ Interrupt \/ DeleteKey \/ EndKey \/ InputEnded
  \/ TabKey \/ CompleterReturns
  \/ ViEscape \/ ViMotion \/ ViInsert \/ ViCommand \/ ViOperand \/ ViOperandEnded
  \/ ViBell \/ Panic

Next == Shell \/ Terminal \/ User \/ Operation \/ Deliver

Spec == Init /\ [][Next]_vars

(* The goroutines run, the function of the completer ends and the shell    *)
(* closes what it opened. Nothing is asked of the user.                    *)
FairSpec ==
  Spec /\ WF_vars(Terminal) /\ WF_vars(Operation) /\ WF_vars(Deliver)
       /\ WF_vars(Close) /\ WF_vars(Closed)

-----------------------------------------------------------------------------
(* While the shell runs a command, and while the function of a completer   *)
(* runs (completer.go:29), nobody reads their keys from stdin: the         *)
(* terminal waits for a kick or for the end of its pause.                  *)
StdinIsLent == cpc # "reading" \/ opc = "complete" => tpc # "read"

(* Both loops wait for each other: for a kick, or for the end of a pause,  *)
(* that nobody will give.                                                  *)
Stuck ==
  /\ cpc = "reading"
  /\ opc \in {"read", "operand"}
  /\ \/ tpc = "kick" /\ ~kicked
     \/ tpc = "top" /\ pause

(* In emacs mode every key that stops the terminal is answered by a line,  *)
(* an error or a kick, and every pause ends.                               *)
EmacsNeverStuck == ~vi => ~Stuck

(* Enter ends Readline, in emacs mode and in vi's modes but as an operand, *)
(* and the shell can always close the terminal at its end.                 *)
ReadlineEnds ==
  /\ (tpc = "send" /\ key = "Enter" /\ opc # "operand") ~> (cpc # "reading")
  /\ (cpc = "closing") ~> (cpc = "closed")
=============================================================================
