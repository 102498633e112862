-------------------------------- MODULE Repl --------------------------------
(***************************************************************************)
(* The interactive loop (docli, cmd/nash/cli.go).  An iteration runs the   *)
(* hook nash_repl_before, shows a prompt, reads a line and treats it, and  *)
(* runs the hook nash_repl_after.  Lines that do not yet form a program    *)
(* accumulate in content.                                                  *)
(*                                                                         *)
(* A line is one of a few kinds: code that is a statement ("plain"), that  *)
(* opens or closes a block, or that is no nash ("bad"), and the commands   *)
(* the loop keeps for itself.                                              *)
(***************************************************************************)
EXTENDS Integers, Sequences

CONSTANT MaxLines   \* lines the user types

ASSUME ReplAssumption == MaxLines \in Nat

VARIABLES
  pc,         \* "loop", "read", "cont" (the label) or "returned"
  content,    \* lines not executed yet
  unfinished, \* is the loop in a block?
  prompt,     \* what Readline shows
  line,       \* lines nash_repl_after would be given
  vim,        \* line editing mode
  hooks,      \* the hooks that are functions of the shell
  lastHook,   \* history: the hook called last
  missed,     \* history: has the turn of a hook that is no function come since?
  typed       \* lines typed

replVars ==
  <<pc, content, unfinished, prompt, line, vim, hooks, lastHook, missed, typed>>

Hooks == {"before", "after"}
Code == {"plain", "open", "close", "bad"}
Modes == {"vi", "vim", "emacs"}

\* How a program parses: the first line that cannot follow is an error, else
\* blocks left open make it unfinished.
Parse(program) ==
  LET depth[n \in 0 .. Len(program)] ==
        IF n = 0 THEN 0
        ELSE depth[n - 1] + (CASE program[n] = "open" -> 1
                               [] program[n] = "close" -> -1
                               [] OTHER -> 0)
  IN IF \E n \in 1 .. Len(program) : program[n] = "bad" \/ depth[n] < 0
       THEN "error"
       ELSE IF depth[Len(program)] > 0 THEN "unfinished" ELSE "ok"

ReplInit ==
  /\ pc = "loop" /\ content = <<>> /\ unfinished = FALSE /\ prompt = ""
  /\ line = <<>> /\ lastHook = "none" /\ missed = FALSE /\ typed = 0
  /\ vim \in BOOLEAN /\ hooks \in SUBSET Hooks

-----------------------------------------------------------------------------
\* A hook is looked up each time its turn comes and called when it is a
\* function and the loop is in no block.
Calls(hook) == hook \in hooks /\ ~unfinished

\* What a hook runs may define and redefine both.
CallHook(hook) ==
  \/ Calls(hook) /\ lastHook' = hook /\ missed' = FALSE /\ hooks' \in SUBSET Hooks
  \/ ~Calls(hook) /\ missed' = (missed \/ ~unfinished) /\ UNCHANGED <<hooks, lastHook>>

\* Up to the call of Readline.
Before ==
  /\ pc = "loop"
  /\ CallHook("before")
  /\ prompt' = IF unfinished THEN prompt ELSE "PROMPT"
  /\ pc' = "read"
  /\ UNCHANGED <<content, unfinished, line, vim, typed>>

TypeLine ==
  /\ pc = "read" /\ typed < MaxLines
  /\ typed' = typed + 1
  /\ pc' = "cont"
  /\ UNCHANGED <<hooks, lastHook, missed>>

\* Ctrl-C: what was typed on the line is dropped, nothing else is.
Interrupt ==
  /\ pc = "read"
  /\ line' = <<>>
  /\ pc' = "cont"
  /\ UNCHANGED <<content, unfinished, prompt, vim, hooks, lastHook, missed, typed>>

EndOfInput ==
  /\ pc = "read"
  /\ pc' = "returned"
  /\ UNCHANGED <<content, unfinished, prompt, line, vim, hooks, lastHook, missed, typed>>

\* Tab: the user's function nash_complete runs in the shell.
Complete ==
  /\ pc = "read"
  /\ hooks' \in SUBSET Hooks
  /\ UNCHANGED <<pc, content, unfinished, prompt, line, vim, lastHook, missed, typed>>

\* set mode m; anything but vi and emacs is an invalid mode.
SetMode(m) ==
  /\ TypeLine
  /\ line' = <<"set mode">>
  /\ vim' = (m = "vi" \/ (m # "emacs" /\ vim))
  /\ UNCHANGED <<content, unfinished, prompt>>

ShowMode ==
  /\ TypeLine
  /\ line' = <<"mode">>
  /\ UNCHANGED <<content, unfinished, prompt, vim>>

\* Mutant: the lines that do not parse are kept.
SyntaxErrorKeepingContent(k) ==
  LET program == Append(content, k) IN
  /\ TypeLine
  /\ Parse(program) = "error"
  /\ line' = program
  /\ content' = program
  /\ UNCHANGED <<unfinished, prompt, vim>>

\* The error is printed and the lines are dropped; unfinished stays.
SyntaxError(k) ==
  LET program == Append(content, k) IN
  /\ TypeLine
  /\ Parse(program) = "error"
  /\ line' = program
  /\ content' = <<>>
  /\ UNCHANGED <<unfinished, prompt, vim>>

Unfinished(k) ==
  LET program == Append(content, k) IN
  /\ TypeLine
  /\ Parse(program) = "unfinished"
  /\ line' = program
  /\ content' = program
  /\ unfinished' = TRUE
  /\ prompt' = ">>> "
  /\ UNCHANGED vim

\* The program is executed; it may define a hook, or give its name to what is
\* no function.
Execute(k) ==
  LET program == Append(content, k) IN
  /\ pc = "read" /\ typed < MaxLines
  /\ Parse(program) = "ok"
  /\ line' = program
  /\ content' = <<>>
  /\ unfinished' = FALSE
  /\ hooks' \in SUBSET Hooks
  /\ typed' = typed + 1
  /\ pc' = "cont"
  /\ UNCHANGED <<prompt, vim, lastHook, missed>>

\* Mutant: nash_repl_after is called in a block too.
AfterInBlock ==
  /\ pc = "cont"
  /\ \/ "after" \in hooks /\ lastHook' = "after" /\ missed' = FALSE
     \/ "after" \notin hooks /\ missed' = TRUE /\ UNCHANGED lastHook
  /\ pc' = "loop"
  /\ UNCHANGED <<content, unfinished, prompt, line, vim, hooks, typed>>

After ==
  /\ pc = "cont"
  /\ CallHook("after")
  /\ pc' = "loop"
  /\ UNCHANGED <<content, unfinished, prompt, line, vim, typed>>

ReplNext ==
  \/ Before \/ Interrupt \/ EndOfInput \/ Complete \/ ShowMode \/ After
  \/ \E m \in Modes : SetMode(m)
  \/ \E k \in Code : SyntaxError(k) \/ Unfinished(k) \/ Execute(k)

ReplSpec == ReplInit /\ [][ReplNext]_replVars

-----------------------------------------------------------------------------
(* Properties.                                                             *)

ReplTypeOK ==
  /\ pc \in {"loop", "read", "cont", "returned"}
  /\ content \in Seq(Code) /\ line \in Seq(Code \union {"set mode", "mode"})
  /\ unfinished \in BOOLEAN /\ vim \in BOOLEAN /\ hooks \subseteq Hooks
  /\ prompt \in {"", "PROMPT", ">>> "}
  /\ lastHook \in Hooks \union {"none"} /\ missed \in BOOLEAN
  /\ typed \in 0 .. MaxLines

\* Lines wait in the buffer only as the start of a program that a later line
\* can finish, and then the user is shown the prompt of a block.
PendingIsUnfinished ==
  content # <<>> =>
    /\ Parse(content) = "unfinished"
    /\ unfinished
    /\ prompt = ">>> "

\* The hooks alternate, however blocks, errors and interrupts follow each
\* other, and whatever programs, hooks and completions make of them: one is
\* called twice in a row only if the turn of the other came in between and it
\* was no function then.  With both defined no command is prepared twice and
\* none is reported twice.
HooksAlternate ==
  [][/\ Before /\ Calls("before") => lastHook # "before" \/ missed
     /\ After /\ Calls("after") => lastHook # "after" \/ missed]_replVars
=============================================================================
