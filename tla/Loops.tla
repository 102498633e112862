------------------------------- MODULE Loops -------------------------------
(***************************************************************************)
(* The tree walker of the interpreter and the SIGINT handler               *)
(* (executeTree, executeFor, executeInfLoop, executeFnInv, executeReturn   *)
(* and setupSignals of internal/sh/shell.go).                              *)
(*                                                                         *)
(* The walker is one thread.  Its Go call stack is a sequence of frames,   *)
(* each a running executeTree ("tree"), executeFor ("loop"), function call *)
(* ("fn") or command that names a bound function ("cmd", with a minus      *)
(* before the name "-cmd"), and the error value a callee hands to its      *)
(* caller is val.                                                          *)
(* Scripts are arbitrary: every statement is chosen when it is reached.    *)
(* The signal handler is a second goroutine; the mutex it shares with      *)
(* every shell makes the accesses to looping and interrupted atomic.       *)
(***************************************************************************)
EXTENDS Integers, Sequences

CONSTANTS
  MaxLevel,    \* nesting of function calls
  MaxFrames,   \* depth of the call stack
  MaxBody,     \* statements in a block
  MaxIter,     \* elements a finite loop iterates over
  MaxScripts,  \* scripts executed one after the other in the same shell
  MaxSignals   \* SIGINTs sent to the process

ASSUME LoopsAssumption ==
  /\ {MaxLevel, MaxBody, MaxIter, MaxScripts, MaxSignals} \subseteq Nat
  /\ MaxFrames \in Nat \ {0}

Levels == 0 .. MaxLevel   \* 0 is the root shell, l > 0 a function's subshell

VARIABLES
  stack,       \* frames of the walker, innermost last
  val,         \* error in flight to the innermost frame, "none" if none
  looping,     \* Shell.looping, per level
  interrupted, \* Shell.interrupted of the root shell
  pending,     \* is a SIGINT in the channel sigs (of capacity one)?
  received,    \* has the handler taken a SIGINT and not looked at looping?
  scripts,     \* scripts started
  sent,        \* SIGINTs sent
  handled,     \* SIGINTs the handler treated since the script started
  taken        \* times a loop was interrupted

walkerVars == <<stack, val, scripts>>
signalVars == <<pending, received, sent>>
vars == <<walkerVars, looping, interrupted, signalVars, handled, taken>>

Markers == {"ignore", "intr", "stop"}   \* errIgnore, errInterrupted, errStopWalking
Errors == {"nil", "err"} \union Markers

Tree(l, n, stopable) ==
  [t |-> "tree", lv |-> l, left |-> n, stop |-> stopable, inf |-> FALSE, phase |-> "run"]
Loop(l, n, infinite, ph) ==
  [t |-> "loop", lv |-> l, left |-> n, stop |-> FALSE, inf |-> infinite, phase |-> ph]
Call(kind, l) ==
  [t |-> kind, lv |-> l, left |-> 0, stop |-> FALSE, inf |-> FALSE, phase |-> "run"]

Init ==
  /\ stack = <<>> /\ val = "none" /\ scripts = 0
  /\ looping = [l \in Levels |-> FALSE] /\ interrupted = FALSE
  /\ pending = FALSE /\ received = FALSE /\ sent = 0
  /\ handled = 0 /\ taken = 0

-----------------------------------------------------------------------------
Depth == Len(stack)
Top == stack[Depth]
Below == SubSeq(stack, 1, Depth - 1)

\* The innermost frame is a block about to execute its next statement.
AtStatement == stack # <<>> /\ val = "none" /\ Top.t = "tree" /\ Top.left > 0

\* One frame is kept free, for the body of a loop on top.
Push(frames) ==
  /\ Depth + Len(frames) < MaxFrames
  /\ stack' = stack \o frames

Replace(frame) == stack' = Append(Below, frame)

\* The innermost call returns v to its caller.
Pop(v) == stack' = Below /\ val' = v

StartScript ==
  /\ stack = <<>> /\ scripts < MaxScripts
  /\ scripts' = scripts + 1
  /\ \E n \in 0 .. MaxBody : stack' = <<Tree(0, n, TRUE)>>
  /\ val' = "none"
  /\ handled' = 0
  /\ UNCHANGED <<looping, interrupted, signalVars, taken>>

Quiet == UNCHANGED <<scripts, looping, interrupted, signalVars, handled, taken>>

-----------------------------------------------------------------------------
(* executeNode: one statement of the innermost block.                      *)

\* A command, an assignment, a declaration, or a statement that fails before
\* it calls anything ("ignore" is the failure of a command prefixed with -).
Simple ==
  /\ AtStatement
  /\ \E v \in {"nil", "err", "ignore"} : val' = v
  /\ Quiet /\ UNCHANGED stack

\* executeReturn; outside a function it is an error, see Simple.
ReturnStatement ==
  /\ AtStatement
  /\ Top.lv > 0
  /\ val' = "stop"
  /\ Quiet /\ UNCHANGED stack

IfStatement ==
  /\ AtStatement
  /\ \E n \in 0 .. MaxBody : Push(<<Tree(Top.lv, n, FALSE)>>)
  /\ Quiet /\ UNCHANGED val

\* executeImport runs a file in the same shell, as a tree that takes returns.
ImportStatement ==
  /\ AtStatement
  /\ \E n \in 0 .. MaxBody : Push(<<Tree(Top.lv, n, TRUE)>>)
  /\ Quiet /\ UNCHANGED val

CallKinds == {"fn", "cmd", "-cmd"}

Called(kind, l) == {<<Call(kind, l), Tree(l + 1, n, TRUE)>> : n \in 0 .. MaxBody}

\* executeFnInv, or executeCommand with the name of a bound function: the body
\* runs in a fresh subshell.
CallStatement ==
  /\ AtStatement
  /\ Top.lv < MaxLevel
  /\ \E kind \in CallKinds : \E frames \in Called(kind, Top.lv) : Push(frames)
  /\ looping' = [looping EXCEPT ![Top.lv + 1] = FALSE]
  /\ UNCHANGED <<val, scripts, interrupted, signalVars, handled, taken>>

\* executeFor sets looping before it looks at the list to iterate over.
ForStatement ==
  /\ AtStatement
  /\ looping' = [looping EXCEPT ![Top.lv] = TRUE]
  /\ \/ Push(<<Loop(Top.lv, 0, TRUE, "iter")>>) /\ UNCHANGED val
     \/ \E n \in 0 .. MaxIter :
          Push(<<Loop(Top.lv, n, FALSE, "iter")>>) /\ UNCHANGED val
     \/ Push(<<Loop(Top.lv, 0, FALSE, "exit")>>) /\ val' = "err"
     \/ /\ Top.lv < MaxLevel
        /\ \E frames \in Called("fn", Top.lv) :
             Push(<<Loop(Top.lv, 0, FALSE, "in")>> \o frames)
        /\ UNCHANGED val
  /\ UNCHANGED <<scripts, interrupted, signalVars, handled, taken>>

-----------------------------------------------------------------------------
(* Returns from callees.                                                   *)

TreeEnd ==
  /\ stack # <<>> /\ val = "none" /\ Top.t = "tree" /\ Top.left = 0
  /\ Pop("nil")
  /\ Quiet

\* Mutant: a return leaves the innermost block only.
TreeSwallowsReturn ==
  /\ stack # <<>> /\ val # "none" /\ Top.t = "tree"
  /\ \/ val \in {"nil", "ignore"}
        /\ Replace([Top EXCEPT !.left = @ - 1]) /\ val' = "none"
     \/ val = "stop" /\ Pop("nil")
     \/ val \in {"intr", "err"} /\ Pop(val)
  /\ Quiet

\* Mutant: an ignored error is handed to the caller of the block.
TreeLeaksMarkers ==
  /\ stack # <<>> /\ val # "none" /\ Top.t = "tree"
  /\ \/ val = "nil" /\ Replace([Top EXCEPT !.left = @ - 1]) /\ val' = "none"
     \/ val = "stop" /\ Top.stop /\ Pop("nil")
     \/ val \in {"intr", "err", "ignore"} /\ Pop(val)
     \/ val = "stop" /\ ~Top.stop /\ Pop(val)
  /\ Quiet

\* executeTree looks at the error of the statement it has executed.
TreeReceive ==
  /\ stack # <<>> /\ val # "none" /\ Top.t = "tree"
  /\ \/ /\ val \in {"nil", "ignore"}
        /\ Replace([Top EXCEPT !.left = @ - 1])
        /\ val' = "none"
     \/ val = "stop" /\ Top.stop /\ Pop("nil")
     \/ val = "stop" /\ ~Top.stop /\ Pop(val)
     \/ val \in {"intr", "err"} /\ Pop(val)
  /\ Quiet

\* executeFnInv wraps any error of the body in an EvalError.
FnReceive ==
  /\ stack # <<>> /\ val # "none" /\ Top.t = "fn"
  /\ Pop(IF val = "nil" THEN "nil" ELSE "err")
  /\ Quiet

\* executeCommand returns the error of a bound function as it is, or as one
\* to ignore when the command has a minus.
CommandReceive ==
  /\ stack # <<>> /\ val # "none" /\ Top.t \in {"cmd", "-cmd"}
  /\ Pop(IF Top.t = "-cmd" /\ val # "nil" THEN "ignore" ELSE val)
  /\ Quiet

InLoop(ph) == stack # <<>> /\ Top.t = "loop" /\ Top.phase = ph

LeaveLoop(v) == Replace([Top EXCEPT !.phase = "exit"]) /\ val' = v

\* The function called for the list of the loop has returned.
LoopList ==
  /\ InLoop("in") /\ val # "none"
  /\ \/ val = "nil"
        /\ \E n \in 0 .. MaxIter :
             Replace([Top EXCEPT !.phase = "iter", !.left = n]) /\ val' = "none"
     \/ LeaveLoop("err")
  /\ Quiet

\* Mutant: one iteration past the end of the list.
LoopIteratePastEnd ==
  /\ InLoop("iter") /\ val = "none"
  /\ \E n \in 0 .. MaxBody :
       stack' = Append(Below, [Top EXCEPT !.left = IF Top.inf THEN 0 ELSE @ - 1])
                  \o <<Tree(Top.lv, n, FALSE)>>
  /\ Quiet /\ UNCHANGED val

\* The next iteration: executeTree(n.Tree(), false).
LoopIterate ==
  /\ InLoop("iter") /\ val = "none"
  /\ Top.inf \/ Top.left > 0
  /\ \E n \in 0 .. MaxBody :
       stack' = Append(Below, [Top EXCEPT !.left = IF Top.inf THEN 0 ELSE @ - 1])
                  \o <<Tree(Top.lv, n, FALSE)>>
  /\ Quiet /\ UNCHANGED val

LoopDone ==
  /\ InLoop("iter") /\ val = "none"
  /\ ~Top.inf /\ Top.left = 0
  /\ LeaveLoop("nil")
  /\ Quiet

\* The body ended by an interrupt or a return: both leave the loop at once.
LoopUnwinds ==
  /\ InLoop("iter") /\ val \in {"intr", "stop"}
  /\ LeaveLoop(val)
  /\ Quiet

\* Mutant: the flag is not reset when it is seen.
LoopInterruptedKeepsFlag ==
  /\ InLoop("iter") /\ val \in {"nil", "err"}
  /\ interrupted
  /\ taken' = taken + 1
  /\ LeaveLoop("intr")
  /\ UNCHANGED <<scripts, looping, interrupted, signalVars, handled>>

\* Under the mutex: getIntr, then setIntr(false).
LoopInterrupted ==
  /\ InLoop("iter") /\ val \in {"nil", "err"}
  /\ interrupted
  /\ interrupted' = FALSE
  /\ taken' = taken + 1
  /\ LeaveLoop("intr")
  /\ UNCHANGED <<scripts, looping, signalVars, handled>>

\* Mutant: an iteration that ended well goes on without looking at the flag.
LoopContinuesUnchecked ==
  /\ InLoop("iter") /\ val \in {"nil", "err"}
  /\ IF val = "nil" THEN UNCHANGED stack /\ val' = "none" ELSE LeaveLoop("err")
  /\ Quiet

LoopContinues ==
  /\ InLoop("iter") /\ val \in {"nil", "err"}
  /\ ~interrupted
  /\ IF val = "nil" THEN UNCHANGED stack /\ val' = "none" ELSE LeaveLoop("err")
  /\ Quiet

\* Mutant: looping is only reset when the loop ends without an error.
LoopExitOnSuccess ==
  /\ InLoop("exit")
  /\ looping' = [looping EXCEPT ![Top.lv] = val # "nil"]
  /\ Pop(val)
  /\ UNCHANGED <<scripts, interrupted, signalVars, handled, taken>>

\* The deferred function of executeFor.
LoopExit ==
  /\ InLoop("exit")
  /\ looping' = [looping EXCEPT ![Top.lv] = FALSE]
  /\ Pop(val)
  /\ UNCHANGED <<scripts, interrupted, signalVars, handled, taken>>

Walk ==
  \/ Simple \/ ReturnStatement \/ IfStatement \/ ImportStatement
  \/ CallStatement \/ ForStatement
  \/ TreeEnd \/ TreeReceive \/ FnReceive \/ CommandReceive
  \/ LoopList \/ LoopIterate \/ LoopDone \/ LoopUnwinds \/ LoopInterrupted
  \/ LoopContinues \/ LoopExit

-----------------------------------------------------------------------------
(* Signals.                                                                *)

\* signal.Notify drops a signal the channel has no room for.
Signal ==
  /\ sent < MaxSignals
  /\ sent' = sent + 1
  /\ pending' = TRUE
  /\ UNCHANGED <<walkerVars, looping, interrupted, received, handled, taken>>

Receive ==
  /\ pending /\ ~received
  /\ pending' = FALSE /\ received' = TRUE
  /\ UNCHANGED <<walkerVars, looping, interrupted, sent, handled, taken>>

\* The handler looks at looping of the root shell only.
Handle ==
  /\ received
  /\ received' = FALSE
  /\ interrupted' = (interrupted \/ looping[0])
  /\ handled' = handled + 1
  /\ UNCHANGED <<walkerVars, looping, pending, sent, taken>>

Next == StartScript \/ Walk \/ Signal \/ Receive \/ Handle

Spec == Init /\ [][Next]_vars

\* Both goroutines are scheduled; nobody has to press Ctrl-C.
Fairness == WF_vars(Walk) /\ WF_vars(Receive) /\ WF_vars(Handle)

FairSpec == Spec /\ Fairness

-----------------------------------------------------------------------------
(* Properties.                                                             *)

Frames ==
  [t : {"tree", "loop"} \union CallKinds, lv : Levels, left : 0 .. (MaxBody + MaxIter),
   stop : BOOLEAN, inf : BOOLEAN, phase : {"run", "in", "iter", "exit"}]

\* The shape of the walker's stack and of the signal state.
TypeOK ==
  /\ stack \in Seq(Frames) /\ Depth <= MaxFrames
  /\ val \in Errors \union {"none"}
  /\ looping \in [Levels -> BOOLEAN] /\ interrupted \in BOOLEAN
  /\ pending \in BOOLEAN /\ received \in BOOLEAN
  /\ scripts \in 0 .. MaxScripts /\ sent \in 0 .. MaxSignals
  /\ handled \in Nat /\ taken \in Nat

LoopsOn(l) == {k \in 1 .. Depth : stack[k].t = "loop" /\ stack[k].lv = l}

\* The markers the walker uses inside never reach the caller of a script:
\* a script ends well, with an error, or interrupted.
NoMarkerEscapes == stack = <<>> => val \in {"none", "nil", "err", "intr"}

\* looping is never set in a shell that executes no loop.
LoopingHasALoop == \A l \in Levels : looping[l] => LoopsOn(l) # {}

\* One SIGINT interrupts at most one loop.
OneLoopPerSignal ==
  taken + (IF interrupted THEN 1 ELSE 0) + (IF received THEN 1 ELSE 0)
        + (IF pending THEN 1 ELSE 0) <= sent

Failures == {"err", "intr"}
Thrown == Failures \union {"stop"}

\* The frames that end the flight of v: the body of the innermost function (or
\* the file imported, or the script) for a return, and for a failure or an
\* interrupt a command with a minus.
Takes(frame, v) ==
  IF v = "stop" THEN frame.t = "tree" /\ frame.stop ELSE frame.t = "-cmd"

\* The innermost of them is frame k.
CaughtAt(k, v) ==
  /\ k \in 1 .. Depth /\ Takes(stack[k], v)
  /\ \A m \in k + 1 .. Depth : ~Takes(stack[m], v)

\* Nobody takes what is in flight now, and it stays what it is; only a failure
\* may be found to be an interrupt, and an interrupt be reported as a failure.
FliesOn ==
  /\ IF val = "stop" THEN val' = "stop" ELSE val' \in Failures
  /\ \A k \in 1 .. Depth : CaughtAt(k, val) => CaughtAt(k, val)'
  /\ Len(stack') < Depth \/ (Len(stack') = Depth /\ InLoop("exit")')

IsTaken ==
  /\ CaughtAt(Depth, val)
  /\ stack' = Below
  /\ val' = IF val = "stop" THEN "nil" ELSE "ignore"

\* A return flies to the body of its function and a failure or an interrupt to
\* the innermost command with a minus, or out of the script, through all the
\* loops, blocks, calls and imports in between and past no frame that takes
\* it; no statement is executed on the way.  The command may name a bound
\* function, whose failures a minus bypasses too (shell.go:1505): README.md:197
\* has it that a dash "works only for operating system commands".
FailureUnwinds ==
  [][Walk /\ stack # <<>> /\ val \in Thrown => FliesOn \/ IsTaken]_vars

NoLoop == \A l \in Levels : LoopsOn(l) = {}

\* A raised flag is seen by a running loop, infinite ones included.
FlagIsSeen == interrupted ~> (~interrupted \/ NoLoop)
=============================================================================
