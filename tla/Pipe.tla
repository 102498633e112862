-------------------------------- MODULE Pipe --------------------------------
(***************************************************************************)
(* One execution of a pipe statement  c_1 | c_2 | ... | c_N                *)
(* (Shell.executePipe, internal/sh/shell.go) together with the components  *)
(* it starts.  The shell is one sequential process that walks five loops:  *)
(* create every runner, wire stdout to stdin, apply the redirections of    *)
(* the last one, start all, wait for all in order.  Any error jumps to the *)
(* label pipeError, which computes the status and returns at once: what    *)
(* was started and not yet waited for keeps running.                       *)
(*                                                                         *)
(* A component is an external command (Cmd, an os/exec child), a function  *)
(* bound to a command name (UserFn, a goroutine) or a bound builtin        *)
(* (builtinFn, a goroutine).  Data is chunks: a pipe holds at most Cap.    *)
(***************************************************************************)
EXTENDS Integers, Sequences

CONSTANTS
  N,          \* number of components of the statement
  Cap,        \* chunks a pipe holds before its writer blocks
  MaxOut,     \* most chunks a component writes to its stdout
  ExitCodes,  \* non-zero exit statuses of a failing command
  Kinds,      \* which runners appear: a subset of AllKinds
  NoStatus,   \* how a component ends when its error is no *exec.ExitError
  Results,    \* how components end: "0", an exit code or NoStatus
  EarlyExit   \* may a component end before its input is at end of file, or
              \* fail before its output is written?

AllKinds == {"cmd", "fn", "builtin"}

ASSUME PipeAssumption ==
  /\ N \in Nat /\ N >= 2
  /\ Cap \in Nat \ {0}
  /\ MaxOut \in Nat
  /\ Kinds \subseteq AllKinds
  /\ "0" \notin ExitCodes
  /\ NoStatus \notin ExitCodes \union {"0"}
  /\ Results \subseteq {"0", NoStatus} \union ExitCodes
  /\ EarlyExit \in BOOLEAN

Components == 1 .. N

VARIABLES
  pc,        \* the loop of executePipe the shell is in
  i,         \* the index of that loop
  kind,      \* the runner behind each component
  igns,      \* components whose name starts with '-'
  cods,      \* the status code kept for each component
  errIndex,  \* the component that failed, 0 if none did
  ret,       \* the status and error returned
  files,     \* components whose redirection file is open in the shell
  toClose,   \* closeAfterWait: the files the deferred function will close
  piped,     \* components whose stdout is a pipe
  readEnds,  \* pipes whose read end the shell holds open
  writeEnds, \* pipes whose write end the shell holds open
  buf,       \* chunks in each pipe
  todo,      \* chunks each component has still to write
  proc,      \* life of each component
  result     \* how each component ended

shellVars == <<pc, i, kind, igns, cods, errIndex, ret, files, toClose>>
pipeVars  == <<piped, readEnds, writeEnds>>
dataVars  == <<buf, todo>>
procVars  == <<proc, result>>
vars == <<shellVars, pipeVars, dataVars, procVars>>

ENotFound   == "127"
ENotStarted == "255"

NotReturned == [status |-> <<>>, failed |-> FALSE]

Init ==
  /\ pc = "create" /\ i = 1
  /\ kind \in [Components -> Kinds]
  /\ igns \in SUBSET Components
  /\ cods = [k \in Components |-> ENotStarted]
  /\ errIndex = 0
  /\ ret = NotReturned
  /\ files = {} /\ toClose = {}
  /\ piped = {} /\ readEnds = {} /\ writeEnds = {}
  /\ buf = [k \in Components |-> 0]
  /\ todo \in [Components -> 0 .. MaxOut]
  /\ proc = [k \in Components |-> "none"]
  /\ result = [k \in Components |-> "none"]

-----------------------------------------------------------------------------
(* Helpers of executePipe.                                                 *)

\* The status is one string per component joined with '|', or a single one
\* when all of them are equal.
StatusOf(codes) ==
  IF \A k \in Components : codes[k] = codes[1] THEN <<codes[1]>> ELSE codes

\* getErrStatus: only an *exec.ExitError carries an exit status.
GetErrStatus(r, default) == IF r \in ExitCodes THEN r ELSE default

\* Mutant: the files are appended only after the error was looked at.
RegisteredIfOk(k, opens, ok) == IF opens /\ ok THEN {k} ELSE {}

\* setRedirects returns the files it opened even when it fails, and both are
\* appended to closeAfterWait before the error is looked at.
Registered(k, opens, ok) == IF opens THEN {k} ELSE {}

\* The statement is over: the deferred function closes closeAfterWait.
Return(status, failed, opened, registered) ==
  /\ pc' = "returned"
  /\ ret' = [status |-> status, failed |-> failed]
  /\ files' = opened \ registered
  /\ toClose' = registered

\* goto pipeError with component k blamed for an error that ended as r.
PipeError(k, codes, r, opened, registered) ==
  LET final == [codes EXCEPT ![k] = GetErrStatus(r, codes[k])] IN
  /\ errIndex' = k
  /\ cods' = final
  /\ Return(StatusOf(final), k \notin igns, opened, registered)

\* Mutant: off by one, an iteration too many.
AdvancePastEnd(last, loop) ==
  IF i > last THEN i' = 1 /\ pc' = loop ELSE i' = i + 1 /\ UNCHANGED pc

\* Next iteration of the loop, or the first one of the loop after it.
Advance(last, loop) ==
  IF i = last THEN i' = 1 /\ pc' = loop ELSE i' = i + 1 /\ UNCHANGED pc

-----------------------------------------------------------------------------
(* Loop 1: create all commands.                                            *)

\* getCommand fails: not in PATH, or a bound name in a non-interactive shell.
CommandNotFound ==
  /\ pc = "create"
  /\ PipeError(i, [cods EXCEPT ![i] = ENotFound], NoStatus, files, toClose)
  /\ UNCHANGED <<i, kind, igns, pipeVars, dataVars, procVars>>

\* evalExprs or SetArgs fails.
BadArguments ==
  /\ pc = "create"
  /\ PipeError(i, cods, NoStatus, files, toClose)
  /\ UNCHANGED <<i, kind, igns, pipeVars, dataVars, procVars>>

\* setRedirects fails on a component that is not the last one.
BadRedirect(opens) ==
  /\ pc = "create" /\ i < N
  /\ PipeError(i, cods, NoStatus,
               files \union (IF opens THEN {i} ELSE {}),
               toClose \union Registered(i, opens, FALSE))
  /\ UNCHANGED <<i, kind, igns, pipeVars, dataVars, procVars>>

CreateCommand(opens) ==
  /\ pc = "create"
  /\ opens => i < N
  /\ files' = files \union (IF opens THEN {i} ELSE {})
  /\ toClose' = toClose \union Registered(i, opens, TRUE)
  /\ Advance(N, "wire")
  /\ UNCHANGED <<kind, igns, cods, errIndex, ret, pipeVars, dataVars, procVars>>

-----------------------------------------------------------------------------
(* Loop 2: stdout of each component but the last is the stdin of the next. *)

\* StdoutPipe fails: always for a builtin, else when os.Pipe does.
WireFails ==
  /\ pc = "wire"
  /\ PipeError(i, cods, NoStatus, files, toClose)
  /\ UNCHANGED <<i, kind, igns, pipeVars, dataVars, procVars>>

WirePipe ==
  /\ pc = "wire"
  /\ kind[i] # "builtin"
  /\ piped' = piped \union {i}
  /\ readEnds' = readEnds \union {i}
  /\ writeEnds' = writeEnds \union {i}
  /\ Advance(N - 1, "redirect")
  /\ UNCHANGED <<kind, igns, cods, errIndex, ret, files, toClose, dataVars, procVars>>

\* Between the loops: redirections of the last component.
LastRedirectFails(opens) ==
  /\ pc = "redirect"
  /\ PipeError(N, cods, NoStatus,
               files \union (IF opens THEN {N} ELSE {}),
               toClose \union Registered(N, opens, FALSE))
  /\ UNCHANGED <<i, kind, igns, pipeVars, dataVars, procVars>>

LastRedirect(opens) ==
  /\ pc = "redirect"
  /\ files' = files \union (IF opens THEN {N} ELSE {})
  /\ toClose' = toClose \union Registered(N, opens, TRUE)
  /\ pc' = "start"
  /\ UNCHANGED <<i, kind, igns, cods, errIndex, ret, pipeVars, dataVars, procVars>>

-----------------------------------------------------------------------------
(* Loop 3: start all.                                                      *)

\* Only an external command can fail to start; os/exec then closes the pipe
\* StdoutPipe made for it.  Components started before it are left running.
StartFails ==
  /\ pc = "start"
  /\ kind[i] = "cmd"
  /\ PipeError(i, cods, NoStatus, files, toClose)
  /\ readEnds' = readEnds \ {i}
  /\ writeEnds' = writeEnds \ {i}
  /\ UNCHANGED <<i, kind, igns, piped, dataVars, procVars>>

\* The child of a Cmd owns its write end from here on and the shell drops
\* its own; a UserFn runs in the shell, which keeps it until Wait.
StartCommand ==
  /\ pc = "start"
  /\ proc' = [proc EXCEPT ![i] = "running"]
  /\ cods' = [cods EXCEPT ![i] = "0"]
  /\ writeEnds' = IF kind[i] = "cmd" THEN writeEnds \ {i} ELSE writeEnds
  /\ Advance(N, "wait")
  /\ UNCHANGED <<kind, igns, errIndex, ret, files, toClose, piped, readEnds,
                 dataVars, result>>

-----------------------------------------------------------------------------
(* Loop 4: wait for all, in order.                                         *)

\* Mutant: the components are waited for from the last one to the first.
ReapBackwards ==
  /\ pc = "wait"
  /\ proc[N + 1 - i] = "ended"
  /\ proc' = [proc EXCEPT ![N + 1 - i] = "reaped"]
  /\ readEnds' = readEnds \ {N + 1 - i}
  /\ writeEnds' = writeEnds \ {N + 1 - i}

\* Wait returns once component i has ended, and closes the pipe ends of i
\* that the shell still holds.
Reap ==
  /\ pc = "wait"
  /\ proc[i] = "ended"
  /\ proc' = [proc EXCEPT ![i] = "reaped"]
  /\ readEnds' = readEnds \ {i}
  /\ writeEnds' = writeEnds \ {i}

\* Mutant: a failure of a component prefixed with '-' does not stop the loop.
FailedUnlessIgnored(k) == result[k] # "0" /\ k \notin igns

Failed(k) == result[k] # "0"

WaitFails ==
  /\ Reap
  /\ Failed(i)
  /\ PipeError(i, cods, result[i], files, toClose)
  /\ UNCHANGED <<i, kind, igns, piped, dataVars, result>>

WaitCommand ==
  /\ Reap
  /\ ~Failed(i)
  /\ cods' = [cods EXCEPT ![i] = "0"]
  /\ IF i < N
       THEN i' = i + 1 /\ UNCHANGED <<pc, ret, files, toClose>>
       ELSE Return(<<"0">>, FALSE, files, toClose) /\ UNCHANGED i
  /\ UNCHANGED <<kind, igns, errIndex, piped, dataVars, result>>

ShellStep ==
  \/ CommandNotFound
  \/ BadArguments
  \/ \E opens \in BOOLEAN :
       \/ BadRedirect(opens)
       \/ CreateCommand(opens)
       \/ LastRedirectFails(opens)
       \/ LastRedirect(opens)
  \/ WireFails
  \/ WirePipe
  \/ StartFails
  \/ StartCommand
  \/ WaitFails
  \/ WaitCommand

-----------------------------------------------------------------------------
(* The components, running concurrently with the shell.                    *)

\* Mutant: the read end of the pipe is never given to the next component.
ReadsNothing(k) == FALSE

\* SetStdin reaches a Cmd only: the subshell of a UserFn keeps the stdin it
\* was built with, and no builtin reads its stdin.
ReadsPipe(k) == k > 1 /\ kind[k] = "cmd"

WriterOpen(k) == k \in writeEnds \/ (proc[k] = "running" /\ kind[k] = "cmd")

ReaderOpen(k) ==
  k \in readEnds \/ (proc[k + 1] = "running" /\ kind[k + 1] = "cmd")

\* A Cmd ends without an exit status when copying its output to a redirection
\* that is no file fails; the error of a builtin never carries one.
Endings(k) ==
  {r \in Results : /\ r = NoStatus => kind[k] # "cmd" \/ k \in files
                  /\ r \in ExitCodes => kind[k] # "builtin"}

\* A chunk is written to the pipe; the last component writes to the shell's
\* stdout, which always takes it.
Write(k) ==
  /\ proc[k] = "running"
  /\ todo[k] > 0
  /\ k < N => ReaderOpen(k) /\ buf[k] < Cap
  /\ todo' = [todo EXCEPT ![k] = @ - 1]
  /\ buf' = IF k < N THEN [buf EXCEPT ![k] = @ + 1] ELSE buf
  /\ UNCHANGED <<shellVars, pipeVars, procVars>>

\* Writing to a pipe nobody reads ends the writer (SIGPIPE, or EPIPE).
BrokenPipe(k) ==
  /\ proc[k] = "running"
  /\ todo[k] > 0
  /\ k < N /\ ~ReaderOpen(k)
  /\ proc' = [proc EXCEPT ![k] = "ended"]
  /\ \E r \in Endings(k) \ {"0"} : result' = [result EXCEPT ![k] = r]
  /\ UNCHANGED <<shellVars, pipeVars, dataVars>>

Read(k) ==
  /\ proc[k] = "running"
  /\ ReadsPipe(k)
  /\ buf[k - 1] > 0
  /\ buf' = [buf EXCEPT ![k - 1] = @ - 1]
  /\ UNCHANGED <<shellVars, pipeVars, procVars, todo>>

AtEOF(k) == ReadsPipe(k) => buf[k - 1] = 0 /\ ~WriterOpen(k - 1)

End(k) ==
  /\ proc[k] = "running"
  /\ EarlyExit \/ (todo[k] = 0 /\ AtEOF(k))
  /\ proc' = [proc EXCEPT ![k] = "ended"]
  /\ \E r \in Endings(k) : result' = [result EXCEPT ![k] = r]
  /\ UNCHANGED <<shellVars, pipeVars, dataVars>>

\* The goroutine of a started and unreaped UserFn or builtinFn keeps its
\* descriptors reachable.
Holds(k) == kind[k] # "cmd" /\ proc[k] \in {"running", "ended"}

\* After an error nobody closes the pipe ends of components that were not
\* waited for; the garbage collector does, at a time of its choosing.
Collect(k) ==
  /\ pc = "returned"
  /\ k \in readEnds \union writeEnds
  /\ ~Holds(k) /\ ~Holds(k + 1)
  /\ readEnds' = readEnds \ {k}
  /\ writeEnds' = writeEnds \ {k}
  /\ UNCHANGED <<shellVars, piped, dataVars, procVars>>

ComponentStep(k) == Write(k) \/ BrokenPipe(k) \/ Read(k) \/ End(k) \/ Collect(k)

Next == ShellStep \/ \E k \in Components : ComponentStep(k)

Spec == Init /\ [][Next]_vars

-----------------------------------------------------------------------------
(* Properties.                                                             *)

Codes == {"0", ENotFound, ENotStarted} \union ExitCodes

Verdicts == [status : Seq(Codes), failed : BOOLEAN]

\* Every variable has the shape the code gives it.
TypeOK ==
  /\ pc \in {"create", "wire", "redirect", "start", "wait", "returned"}
  /\ i \in Components
  /\ kind \in [Components -> Kinds]
  /\ igns \subseteq Components
  /\ cods \in [Components -> Codes]
  /\ errIndex \in 0 .. N
  /\ ret \in Verdicts
  /\ files \subseteq Components /\ toClose \subseteq Components
  /\ piped \subseteq Components
  /\ readEnds \subseteq piped /\ writeEnds \subseteq piped
  /\ buf \in [Components -> 0 .. Cap]
  /\ todo \in [Components -> 0 .. MaxOut]
  /\ proc \in [Components -> {"none", "running", "ended", "reaped"}]
  /\ result \in [Components -> Results \union {"none"}]

Returned == pc = "returned"

\* When executePipe reports no failing component, every component was waited
\* for and succeeded, and the shell holds no end of any pipe.
SuccessIsComplete ==
  Returned /\ errIndex = 0 =>
    /\ \A k \in Components : proc[k] = "reaped" /\ result[k] = "0"
    /\ readEnds = {} /\ writeEnds = {}

\* The component blamed is the first one whose failure the shell saw: every
\* other component it waited for succeeded, and those before a component
\* that failed while running were all waited for.
BlamesFirstFailure ==
  Returned /\ errIndex # 0 =>
    \A k \in Components \ {errIndex} :
      /\ proc[k] = "reaped" => result[k] = "0"
      /\ k < errIndex /\ proc[errIndex] = "reaped" => proc[k] = "reaped"

\* A code other than "0" in the status is never made up: it belongs to a
\* component that was not started, or is the exit status of the one blamed.
NonZeroCodeIsReal ==
  Returned =>
    \A k \in Components :
      cods[k] # "0" =>
        \/ proc[k] = "none"
        \/ (k = errIndex /\ cods[k] = result[k])

\* No component is waited for before all of them run: a wait between two
\* starts would block on a writer whose reader does not exist yet.
AllStartedBeforeAnyWait ==
  (\E k \in Components : proc[k] = "reaped") =>
    \A k \in Components : proc[k] # "none"

\* No component runs before the whole pipeline is wired.
PlumbedBeforeStart ==
  (\E k \in Components : proc[k] # "none") => piped = 1 .. (N - 1)

\* Whichever step fails, no redirection file stays open in the shell.
NoFileLeak == Returned => files = {}
=============================================================================
