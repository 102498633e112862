------------------------------- MODULE Rfork -------------------------------
(***************************************************************************)
(* An rfork statement: the shell starts a second nash in new namespaces    *)
(* (executeRfork, internal/sh/rfork_linux.go) and hands it the statements  *)
(* of the block over a unix stream socket, one at a time; the child        *)
(* executes what it reads and answers with a status (serveConn,            *)
(* cmd/nash/rpc.go).                                                       *)
(*                                                                         *)
(* The socket keeps no message boundaries.  A statement is a run of units, *)
(* all equal to its index; "quit" is one unit, Quit.  The child reads at   *)
(* most Buf units, the size of its buffer.                                 *)
(***************************************************************************)
EXTENDS Integers, Sequences

CONSTANTS
  MaxStatements,  \* statements in a block
  MaxSize,        \* units in the text of a statement
  Buf,            \* units the child reads at a time
  MaxTries        \* dials that may fail before the last one

ASSUME RforkAssumption ==
  {MaxStatements, MaxTries} \subseteq Nat /\ {MaxSize, Buf} \subseteq Nat \ {0}

VARIABLES
  pc,       \* where executeRfork is
  block,    \* has the statement a block?
  sizes,    \* units of each statement of the block
  i,        \* statement to send
  tries,    \* dials that failed
  err,      \* did the loop over the statements end with an error?
  copies,   \* is stdout or stderr of the child copied by a goroutine?
  ret,      \* what executeRfork returned
  srv,      \* where the child is
  code,     \* exit status of the child
  chunk,    \* what the child has read
  status,   \* what executing it gave
  requests, \* units on their way to the child
  answers,  \* statuses on their way back
  log       \* what the child has executed, with the status

clientVars == <<pc, block, sizes, i, tries, err, copies, ret>>
childVars == <<srv, code, chunk, status, log>>
vars == <<clientVars, childVars, requests, answers>>

Quit == 0

Blocks == UNION {[1 .. n -> 1 .. MaxSize] : n \in 0 .. MaxStatements}

Text(k) == [u \in 1 .. sizes[k] |-> k]

Init ==
  /\ pc = "start" /\ i = 1 /\ tries = 0 /\ err = FALSE /\ ret = "none"
  /\ block \in BOOLEAN
  /\ sizes \in IF block THEN Blocks ELSE {<<>>}
  /\ copies \in BOOLEAN
  /\ srv = "none" /\ code = "0" /\ chunk = <<>> /\ status = "0" /\ log = <<>>
  /\ requests = <<>> /\ answers = <<>>

Exited == srv = "exited"

\* The shell's end of the connection is closed: by the deferred call of Close
\* on every return of executeRfork, or by the kernel.
Closed == pc \in {"returned", "gone"}

-----------------------------------------------------------------------------
(* The shell: executeRfork.                                                *)

Return(v) == pc' = "returned" /\ ret' = v

\* nashd is not set, a flag is wrong, a pipe or the process cannot be made.
StartFails ==
  /\ pc = "start"
  /\ Return("err")
  /\ UNCHANGED <<block, sizes, i, tries, err, copies, childVars, requests, answers>>

StartChild ==
  /\ pc = "start"
  /\ pc' = "dial"
  /\ srv' = "boot"
  /\ UNCHANGED <<block, sizes, i, tries, err, copies, ret, code, chunk, status, log,
                 requests, answers>>

NextStatement(k) ==
  /\ i' = k
  /\ pc' = IF k <= Len(sizes) THEN "send" ELSE "quit"

Dial ==
  /\ pc = "dial" /\ srv = "listen" /\ block
  /\ NextStatement(1)
  /\ UNCHANGED <<block, sizes, tries, err, copies, ret, childVars, requests, answers>>

\* An rfork without a block, which the parser accepts, is refused only here:
\* the child runs, is connected, and is neither told to quit nor waited for.
NoBlock ==
  /\ pc = "dial" /\ srv = "listen" /\ ~block
  /\ Return("err")
  /\ UNCHANGED <<block, sizes, i, tries, err, copies, childVars, requests, answers>>

\* Mutant: one dial too many.
DialFailsOnceMore ==
  /\ pc = "dial" /\ srv # "listen"
  /\ IF tries <= MaxTries
       THEN tries' = tries + 1 /\ UNCHANGED pc
       ELSE pc' = "panicked" /\ UNCHANGED tries
  /\ UNCHANGED <<block, sizes, i, err, copies, ret, childVars, requests, answers>>

\* dialRc gives up in the end and returns no connection; the deferred call of
\* its Close then panics.
DialFails ==
  /\ pc = "dial" /\ srv # "listen"
  /\ IF tries < MaxTries
       THEN tries' = tries + 1 /\ UNCHANGED pc
       ELSE pc' = "panicked" /\ UNCHANGED tries
  /\ UNCHANGED <<block, sizes, i, err, copies, ret, childVars, requests, answers>>

\* Mutant: the next statement is sent before this one is answered.
SendWithoutWaiting ==
  /\ pc = "send" /\ ~Exited
  /\ requests' = requests \o Text(i)
  /\ NextStatement(i + 1)
  /\ UNCHANGED <<block, sizes, tries, err, copies, ret, childVars, answers>>

Send ==
  /\ pc = "send" /\ ~Exited
  /\ requests' = requests \o Text(i)
  /\ pc' = "receive"
  /\ UNCHANGED <<block, sizes, i, tries, err, copies, ret, childVars, answers>>

\* The write fails; executeRfork returns at once, the child is not waited for.
SendFails ==
  /\ pc = "send" /\ Exited
  /\ Return("err")
  /\ UNCHANGED <<block, sizes, i, tries, err, copies, childVars, requests, answers>>

\* Mutant: a failing status ends the statement at once.
ReceiveReturning ==
  /\ pc = "receive" /\ answers # <<>>
  /\ answers' = <<>>
  /\ IF \A k \in 1 .. Len(answers) : answers[k] = "0"
       THEN NextStatement(i + 1) /\ UNCHANGED <<err, ret>>
       ELSE err' = TRUE /\ Return("err") /\ UNCHANGED i
  /\ UNCHANGED <<block, sizes, tries, copies, childVars, requests>>

\* Mutant: a failing status does not leave the loop.
ReceiveGoingOn ==
  /\ pc = "receive" /\ answers # <<>>
  /\ answers' = <<>>
  /\ NextStatement(i + 1)
  /\ err' = (err \/ \E k \in 1 .. Len(answers) : answers[k] # "0")
  /\ UNCHANGED <<block, sizes, tries, copies, ret, childVars, requests>>

\* Everything there is to read, taken for one decimal number.
Receive ==
  /\ pc = "receive" /\ answers # <<>>
  /\ answers' = <<>>
  /\ IF \A k \in 1 .. Len(answers) : answers[k] = "0"
       THEN NextStatement(i + 1) /\ UNCHANGED err
       ELSE err' = TRUE /\ pc' = "quit" /\ UNCHANGED i
  /\ UNCHANGED <<block, sizes, tries, copies, ret, childVars, requests>>

ReceiveEOF ==
  /\ pc = "receive" /\ answers = <<>> /\ Exited
  /\ err' = TRUE
  /\ pc' = "quit"
  /\ UNCHANGED <<block, sizes, i, tries, copies, ret, childVars, requests, answers>>

\* Mutant: the child is not told that the block is over.
NoQuit ==
  /\ pc = "quit"
  /\ pc' = "drain"
  /\ UNCHANGED <<block, sizes, i, tries, err, copies, ret, childVars, requests, answers>>

SendQuit ==
  /\ pc = "quit"
  /\ requests' = IF Exited THEN requests ELSE Append(requests, Quit)
  /\ pc' = "drain"
  /\ UNCHANGED <<block, sizes, i, tries, err, copies, ret, childVars, answers>>

\* <-stdoutDone and <-stderrDone: the goroutines see the end of the pipes.
Drain ==
  /\ pc = "drain"
  /\ copies => Exited
  /\ pc' = "wait"
  /\ UNCHANGED <<block, sizes, i, tries, err, copies, ret, childVars, requests, answers>>

\* cmd.Wait.
Wait ==
  /\ pc = "wait" /\ Exited
  /\ Return(IF err \/ code # "0" THEN "err" ELSE "ok")
  /\ UNCHANGED <<block, sizes, i, tries, err, copies, childVars, requests, answers>>

\* The shell dies while it is connected; the kernel closes its end.
ShellDies ==
  /\ pc \in {"send", "receive", "quit", "drain", "wait"}
  /\ pc' = "gone"
  /\ UNCHANGED <<block, sizes, i, tries, err, copies, ret, childVars, requests, answers>>

ClientStep ==
  \/ StartFails \/ StartChild \/ Dial \/ NoBlock \/ DialFails
  \/ Send \/ SendFails \/ Receive \/ ReceiveEOF \/ SendQuit \/ Drain \/ Wait

-----------------------------------------------------------------------------
(* The child: startNashd and serveConn.                                    *)

Exit(c) == srv' = "exited" /\ code' = c

Listen ==
  /\ srv = "boot"
  /\ srv' = "listen"
  /\ UNCHANGED <<clientVars, code, chunk, status, log, requests, answers>>

\* The socket cannot be made: startNashd returns, and so does main.
ListenFails ==
  /\ srv = "boot"
  /\ Exit("0")
  /\ UNCHANGED <<clientVars, chunk, status, log, requests, answers>>

Accept ==
  /\ srv = "listen" /\ pc \notin {"dial", "panicked"}
  /\ srv' = "read"
  /\ UNCHANGED <<clientVars, code, chunk, status, log, requests, answers>>

Read ==
  /\ srv = "read" /\ requests # <<>>
  /\ LET n == IF Len(requests) < Buf THEN Len(requests) ELSE Buf
         data == SubSeq(requests, 1, n)
     IN /\ requests' = SubSeq(requests, n + 1, Len(requests))
        /\ IF data = <<Quit>>
             THEN Exit("0") /\ UNCHANGED chunk
             ELSE srv' = "execute" /\ chunk' = data /\ UNCHANGED code
  /\ UNCHANGED <<clientVars, status, log, answers>>

ReadEOF ==
  /\ srv = "read" /\ requests = <<>> /\ Closed
  /\ Exit("0")
  /\ UNCHANGED <<clientVars, chunk, status, log, requests, answers>>

\* ExecuteString.  A piece of a statement may well be a program of its own.
Execute ==
  /\ srv = "execute"
  /\ \E s \in {"0", "1"} :
       status' = s /\ log' = Append(log, [text |-> chunk, status |-> s])
  /\ srv' = "answer"
  /\ UNCHANGED <<clientVars, code, chunk, requests, answers>>

Answer ==
  /\ srv = "answer" /\ ~Closed
  /\ answers' = Append(answers, status)
  /\ srv' = "read"
  /\ UNCHANGED <<clientVars, code, chunk, status, log, requests>>

AnswerFails ==
  /\ srv = "answer" /\ Closed
  /\ Exit("0")
  /\ UNCHANGED <<clientVars, chunk, status, log, requests, answers>>

\* The child is killed, or a statement of the block is exit; the kernel closes
\* its end of the socket.
Crash ==
  /\ srv \notin {"none", "exited"}
  /\ \E c \in {"0", "1"} : Exit(c)
  /\ UNCHANGED <<clientVars, chunk, status, log, requests, answers>>

ChildStep ==
  \/ Listen \/ Accept \/ Read \/ ReadEOF \/ Execute \/ Answer \/ AnswerFails

Next == ClientStep \/ ShellDies \/ ChildStep \/ ListenFails \/ Crash

Spec == Init /\ [][Next]_vars

\* Both processes are scheduled, and a statement of the block ends.
FairSpec == Spec /\ WF_vars(ClientStep) /\ WF_vars(ChildStep)

-----------------------------------------------------------------------------
(* Properties.                                                             *)

Units == 0 .. MaxStatements

TypeOK ==
  /\ pc \in {"start", "dial", "send", "receive", "quit", "drain", "wait",
             "returned", "panicked", "gone"}
  /\ block \in BOOLEAN /\ sizes \in Blocks
  /\ i \in 1 .. (Len(sizes) + 1) /\ tries \in 0 .. MaxTries
  /\ err \in BOOLEAN /\ copies \in BOOLEAN /\ ret \in {"none", "ok", "err"}
  /\ srv \in {"none", "boot", "listen", "read", "execute", "answer", "exited"}
  /\ code \in {"0", "1"} /\ status \in {"0", "1"}
  /\ chunk \in Seq(Units) /\ Len(chunk) <= Buf
  /\ requests \in Seq(Units) /\ answers \in Seq({"0", "1"})
  /\ log \in Seq([text : Seq(Units), status : {"0", "1"}])

\* The child executes the statements of the block, each one whole and in
\* order, although the socket keeps no boundaries between them.
ExecutesWholeStatements ==
  /\ Len(log) <= Len(sizes)
  /\ \A k \in 1 .. Len(log) : log[k].text = Text(k)

\* When executeRfork returns, the child of a statement with a block is gone,
\* however the exchange went; the only child left running is one that got no
\* block, and that one is never given anything to execute.
NoChildLeftBehind ==
  pc = "returned" /\ srv \notin {"none", "exited"} =>
    /\ ~block /\ srv \in {"listen", "read"}
    /\ requests = <<>> /\ log = <<>>

\* Once the shell is connected to the child, the statement ends and the child
\* with it, even if the shell dies or there was no block to send.
RforkEnds ==
  <>(pc = "panicked" \/ (pc \in {"returned", "gone"} /\ srv \in {"none", "exited"}))

\* An rfork statement whose statements fit in the child's buffer keeps the
\* promise of RemoteBlock.
Promise ==
  INSTANCE RemoteBlock WITH
    length <- Len(sizes),
    done <- Len(log),
    failed <- log # <<>> /\ log[Len(log)].status # "0",
    outcome <- IF pc = "panicked" \/ ret = "err" THEN "err"
               ELSE IF ret = "ok" THEN "ok" ELSE "running"

ImplementsRemoteBlock == Promise!Spec
=============================================================================
