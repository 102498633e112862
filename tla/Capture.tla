------------------------------ MODULE Capture -------------------------------
(***************************************************************************)
(* The assignment of the output of a pipe,  out, err, status <= c_1 | c_2  *)
(* (Shell.execCmdOutput, internal/sh/shell.go).  While executePipe runs,   *)
(* the stdout of the shell, and with three names its stderr, is a buffer   *)
(* in memory.  A command cannot write to one itself: os/exec gives it a    *)
(* pipe and copies what comes out of it in a goroutine for each command    *)
(* and buffer, that Wait waits for.  Where a command writes is decided by  *)
(* its redirections (setRedirects, buildRedirect), which may also send the *)
(* stderr of a component to the stdout of the shell.                       *)
(*                                                                         *)
(* A function bound to a name is built while the buffers are in place, in  *)
(* a subshell that takes the streams its parent, the shell that declared   *)
(* it, has then: they are the buffers when the capturing shell declared it *)
(* itself.  Redirections do not reach the subshell, the pipe does.  The    *)
(* body writes to a buffer as it runs, or waits for the commands that do,  *)
(* so it has nothing left to copy when it ends; it counts as one writer,   *)
(* and a pipe in it is a statement of its own.                             *)
(*                                                                         *)
(* A minus before a name changes what is reported and not what runs, so    *)
(* there is none here; the components all write one chunk or all they may. *)
(***************************************************************************)
EXTENDS Pipe, FiniteSetsExt, SequencesExt

CONSTANTS
  MaxFns,       \* bound: components that are functions
  MaxRedirects, \* bound: redirections in one statement
  MaxErrs       \* bound: components that write to a captured stderr, a chunk each

ASSUME CaptureAssumption == MaxFns \in Nat /\ MaxRedirects \in Nat /\ MaxErrs \in Nat

VARIABLES
  capture, \* the streams of the shell that are buffers
  dest,    \* the stdout and stderr each component writes to
  used,    \* redirections so far
  pend,    \* chunks between a component and the buffer
  seen,    \* the length a writer found when it began a write, or Idle
  held,    \* chunks in each buffer
  given,   \* chunks ever written towards each buffer
  writers, \* the components that wrote them
  errs,    \* components that wrote to a captured stderr
  taken    \* execCmdOutput has read the buffers

captureVars == <<capture, dest, used, pend, seen, held, given, writers, errs, taken>>
allVars == <<vars, captureVars>>

Buffers == {"outBuf", "errBuf"}
Idle == -1

ShellStreams == [out |-> "stdout", err |-> "stderr"]
OtherStreams == [out |-> "elsewhere", err |-> "elsewhere"]

\* The streams of a runner before redirections: those of the shell, or for a
\* function those of the shell that declared it.
StreamsOf(k) == IF kind[k] = "fn" THEN {ShellStreams, OtherStreams} ELSE {ShellStreams}

CaptureInit ==
  /\ Init
  /\ igns = {}
  /\ Cardinality({k \in Components : kind[k] = "fn"}) <= MaxFns
  /\ \E n \in {1, MaxOut} : \A k \in Components : todo[k] = n
  /\ capture \in {{"stdout"}, {"stdout", "stderr"}}
  /\ dest \in [Components -> {ShellStreams, OtherStreams}]
  /\ \A k \in Components : dest[k] \in StreamsOf(k)
  /\ used = 0
  /\ pend = [k \in Components |-> [b \in Buffers |-> 0]]
  /\ seen = [k \in Components |-> [b \in Buffers |-> Idle]]
  /\ held = [b \in Buffers |-> 0]
  /\ given = [b \in Buffers |-> 0]
  /\ writers = [b \in Buffers |-> {}]
  /\ errs = {}
  /\ taken = FALSE

-----------------------------------------------------------------------------
(* Redirections.                                                           *)

Fds == {"0", "1", "2"}
Redirection == [left : Fds \union {"none"}, right : Fds \union {"none", "suppress"}]

\* What buildRedirect does not refuse; >file has neither number.
Valid(r) ==
  /\ r.left # "0" /\ r.right # "0"
  /\ r.left = "none" => r.right = "none"

Stream(left) == IF left = "2" THEN "err" ELSE "out"

\* The right descriptor is what the runner has for it at this point.
Redirected(streams, r) ==
  [streams EXCEPT ![Stream(r.left)] =
     IF r.right \in {"none", "suppress"} THEN "elsewhere"
     ELSE streams[Stream(r.right)]]

\* The lists of redirections that the bound leaves room for.
RedirectLists == {rs \in BoundedSeq(Redirection, MaxRedirects - used) :
                    \A n \in DOMAIN rs : Valid(rs[n])}

Opens(rs) == \E n \in DOMAIN rs : rs[n].right = "none"

\* setRedirects applies them to the runner in their order; the subshell of a
\* function keeps its streams.
SetRedirects(k, rs) ==
  /\ dest' = IF kind[k] = "fn" THEN dest
             ELSE [dest EXCEPT ![k] = FoldLeft(Redirected, @, rs)]
  /\ used' = used + Len(rs)

-----------------------------------------------------------------------------
(* The shell.                                                              *)

\* Those of the components but the last are applied before the pipes.
Create ==
  /\ pc = "create"
  /\ \E rs \in RedirectLists :
       /\ i = N => rs = << >>
       /\ CreateCommand(Opens(rs))
       /\ SetRedirects(i, rs)
  /\ UNCHANGED <<capture, pend, seen, held, given, writers, errs, taken>>

\* SetStdout(nil), then the pipe, for the subshell of a function too: a
\* redirection of stdout is forgotten.
Wire ==
  /\ WirePipe
  /\ dest' = [dest EXCEPT ![i].out = "pipe"]
  /\ UNCHANGED <<capture, used, pend, seen, held, given, writers, errs, taken>>

RedirectLast ==
  /\ pc = "redirect"
  /\ \E rs \in RedirectLists :
       /\ LastRedirect(Opens(rs))
       /\ SetRedirects(N, rs)
  /\ UNCHANGED <<capture, pend, seen, held, given, writers, errs, taken>>

Fails ==
  /\ \/ CommandNotFound \/ BadArguments \/ WireFails \/ StartFails
     \/ \E opens \in BOOLEAN : BadRedirect(opens) \/ LastRedirectFails(opens)
  /\ UNCHANGED captureVars

Start == StartCommand /\ UNCHANGED captureVars

\* Mutant: the end of the process is all that Wait waits for.
CopiedAnyway(k) == TRUE

\* Wait of a Cmd returns when its goroutines have copied everything.
Copied(k) == \A b \in Buffers : pend[k][b] = 0 /\ seen[k][b] = Idle

Wait ==
  /\ WaitFails \/ WaitCommand
  /\ Copied(i)
  /\ UNCHANGED captureVars

\* outBuf.Bytes() as soon as executePipe returns.
Take ==
  /\ pc = "returned" /\ ~taken
  /\ taken' = TRUE
  /\ UNCHANGED <<vars, capture, dest, used, pend, seen, held, given, writers, errs>>

CaptureShell == Create \/ Wire \/ RedirectLast \/ Fails \/ Start \/ Wait \/ Take

-----------------------------------------------------------------------------
(* The components and the goroutines of os/exec.                           *)

\* The buffer a stream of a component ends in, if any. With one or two names
\* only stdout is captured.
BufferOf(k, stream) ==
  CASE dest[k][stream] = "stdout" /\ "stdout" \in capture -> "outBuf"
    [] dest[k][stream] = "stderr" /\ "stderr" \in capture -> "errBuf"
    [] OTHER -> "none"

PutTo(k, b) ==
  /\ pend[k][b] < Cap
  /\ pend' = [pend EXCEPT ![k][b] = @ + 1]
  /\ given' = [given EXCEPT ![b] = @ + 1]
  /\ writers' = [writers EXCEPT ![b] = @ \union {k}]

WriteOut(k) ==
  /\ Write(k)
  /\ IF BufferOf(k, "out") \in Buffers
       THEN PutTo(k, BufferOf(k, "out")) /\ UNCHANGED <<capture, dest, used, seen, held, errs, taken>>
       ELSE UNCHANGED captureVars

WriteErr(k) ==
  /\ proc[k] = "running"
  /\ BufferOf(k, "err") \in Buffers
  /\ k \notin errs /\ Cardinality(errs) < MaxErrs
  /\ errs' = errs \union {k}
  /\ PutTo(k, BufferOf(k, "err"))
  /\ UNCHANGED <<vars, capture, dest, used, seen, held, taken>>

\* A goroutine or a function writes to the buffer. Two that do so at the same
\* time both find the length it had, and one chunk is lost.
CopyBegins(k, b) ==
  /\ pend[k][b] > 0 /\ seen[k][b] = Idle
  /\ seen' = [seen EXCEPT ![k][b] = held[b]]
  /\ UNCHANGED <<vars, capture, dest, used, pend, held, given, writers, errs, taken>>

CopyEnds(k, b) ==
  /\ seen[k][b] # Idle
  /\ held' = [held EXCEPT ![b] = seen[k][b] + 1]
  /\ seen' = [seen EXCEPT ![k][b] = Idle]
  /\ pend' = [pend EXCEPT ![k][b] = @ - 1]
  /\ UNCHANGED <<vars, capture, dest, used, given, writers, errs, taken>>

Copy(k) == \E b \in Buffers : CopyBegins(k, b) \/ CopyEnds(k, b)

\* What runs in the shell has written everything before it ends.
Ends(k) ==
  /\ BrokenPipe(k) \/ End(k)
  /\ kind[k] # "cmd" => Copied(k)

Rest(k) == (Ends(k) \/ Read(k) \/ Collect(k)) /\ UNCHANGED captureVars

CaptureNext ==
  \/ CaptureShell
  \/ \E k \in Components : WriteOut(k) \/ WriteErr(k) \/ Copy(k) \/ Rest(k)

CaptureSpec == CaptureInit /\ [][CaptureNext]_allVars

\* The scheduler runs the shell, every component and the goroutines of os/exec;
\* a component ends by itself once it has nothing left to write (and to read,
\* if it must).
CaptureFairSpec ==
  /\ CaptureSpec
  /\ WF_allVars(CaptureShell)
  /\ \A k \in Components :
       /\ WF_allVars(WriteOut(k) \/ (BrokenPipe(k) /\ UNCHANGED captureVars))
       /\ WF_allVars(Read(k) /\ UNCHANGED captureVars)
       /\ WF_allVars(Ends(k) /\ todo[k] = 0 /\ UNCHANGED captureVars)
       /\ WF_allVars(Copy(k))

-----------------------------------------------------------------------------
ReadersDrain == ~EarlyExit /\ \A k \in 2 .. N : kind[k] = "cmd"

\* When the readers read to end of file, a successful statement loses no
\* output: nothing is left in any pipe.
NothingLost ==
  ReadersDrain /\ Returned /\ errIndex = 0 => \A k \in Components : buf[k] = 0

(* What a successful statement assigns is all that was written to the      *)
(* buffer, unless two components wrote to it: then the goroutines that     *)
(* copy may overwrite each other (shell.go:1963).                          *)
CaptureIsWhole ==
  taken /\ errIndex = 0 =>
    \A b \in Buffers : Cardinality(writers[b]) <= 1 => held[b] = given[b]

(* The statement ends and its output is taken.                             *)
CaptureReturns == ReadersDrain => <>taken
=============================================================================
