------------------------------- MODULE Remote -------------------------------
(***************************************************************************)
(* The remote terminal (readline/remote.go): a client passes its stdin to  *)
(* a shell behind a connection, and shows what that writes.                *)
(*                                                                         *)
(*   client   ServeBy and its readLoop, a goroutine that copies stdin, and *)
(*            the handler of SIGWINCH                                      *)
(*   server   readLoop and writeLoop of RemoteSvr, the terminal that calls *)
(*            Read, and the goroutines of the shell that call Write        *)
(*                                                                         *)
(* The shell is the caller: it makes the terminal raw for each line, and   *)
(* its editor echoes while the line is made (operation.go, Runes).  The    *)
(* connection keeps the order, and may break.  reciveChan, writeChan and   *)
(* the reply channels are unbuffered: to send is a step of both sides.     *)
(***************************************************************************)
EXTENDS Integers, Sequences

CONSTANTS
  MaxData,     \* bound: bytes of the client's stdin
  MaxWrites,   \* bound: messages of the server
  MaxWidths    \* bound: changes of the width

ASSUME RemoteAssumption == {MaxData, MaxWrites, MaxWidths} \subseteq Nat

Writers == {"shell", "editor"}

VARIABLES
  c2s, s2c,      \* messages in the connection
  cliClosed, svrClosed,   \* conn.Close was called
  down,          \* the connection is broken
  cli,           \* the client: "istty", "width", "serve", "exit" or "gone"
  copier,        \* its goroutine: "off", "copy", "close" or "done"
  given,         \* bytes read from its stdin
  widths,        \* changes of the width
  term, saved,   \* its terminal, "cooked" or "raw", and RawMode.state
  svr,           \* "istty", "width", "run" or "failed"
  dataBuf, eof, stop,     \* of RemoteSvr; stop: stopChan is closed
  readLoop,      \* "off", "read", "wake" or "gone"
  writeLoop,     \* "off", "select", "reply" or "gone"
  reader,        \* Read: "read", "check", "go", "wait", "woken", "check again", "eof"
  delivered,     \* bytes that Read returned
  wpc, wmsg,     \* each Write: "idle", "send" or "reply", and its message
  serving,       \* the writer whose message the writeLoop has
  shell,         \* "prompt", "line", "end line", "run" or "gone"
  writes         \* messages handed to Write

connvars == <<c2s, s2c, cliClosed, svrClosed, down>>
clivars == <<cli, copier, given, widths, term, saved>>
loopvars == <<svr, dataBuf, eof, stop, readLoop>>
readvars == <<reader, delivered>>
writevars == <<writeLoop, wpc, wmsg, serving, shell, writes>>
vars == <<connvars, clivars, loopvars, readvars, writevars>>

Message(t) == [t |-> t, d |-> 0]
DataMessage(d) == [t |-> "DATA", d |-> d]

Init ==
  /\ c2s = << >> /\ s2c = << >>
  /\ cliClosed = FALSE /\ svrClosed = FALSE /\ down = FALSE
  /\ cli = "istty" /\ copier = "off" /\ given = 0 /\ widths = 0
  /\ term = "cooked" /\ saved = "none"
  /\ svr = "istty" /\ dataBuf = << >> /\ eof = FALSE /\ stop = FALSE
  /\ readLoop = "off" /\ writeLoop = "off"
  /\ reader = "read" /\ delivered = << >>
  /\ wpc = [w \in Writers |-> "idle"] /\ wmsg = [w \in Writers |-> Message("none")]
  /\ serving = "shell" /\ shell = "prompt" /\ writes = 0

-----------------------------------------------------------------------------
(***************************************************************************)
(* The connection. What is written after a side has closed is lost, and    *)
(* the side that writes to a closed peer may or may not be told.           *)
(***************************************************************************)

(* A server that closes with messages unread resets the connection.        *)
CloseServer ==
  /\ svrClosed' = TRUE
  /\ s2c' \in {s2c} \cup (IF c2s # << >> THEN {<< >>} ELSE {})
  /\ UNCHANGED <<c2s, cliClosed, down>>

CliWriteFails == down \/ cliClosed \/ svrClosed
CliWritten(m) ==
  /\ c2s' = IF CliWriteFails THEN c2s ELSE Append(c2s, m)
  /\ UNCHANGED <<s2c, cliClosed, svrClosed, down>>

CliReadFails == down \/ cliClosed \/ (s2c = << >> /\ svrClosed)
SvrReadFails == down \/ svrClosed \/ (c2s = << >> /\ cliClosed)

Break ==
  /\ ~down
  /\ down' = TRUE
  /\ c2s' = << >> /\ s2c' = << >>
  /\ UNCHANGED <<cliClosed, svrClosed, clivars, loopvars, readvars, writevars>>

-----------------------------------------------------------------------------
(***************************************************************************)
(* The client                                                              *)
(***************************************************************************)

Dialed == UNCHANGED <<given, widths, term, saved, loopvars, readvars, writevars>>

(* ServeBy returns, and DialRemote closes the connection. *)
Leave == cliClosed' = TRUE /\ UNCHANGED <<c2s, s2c, svrClosed, down>>

reportIsTerminal ==
  /\ cli = "istty"
  /\ \/ CliWritten(Message("ISTTY")) /\ ~(down \/ cliClosed) /\ cli' = "width"
     \/ CliWriteFails /\ Leave /\ cli' = "gone"
  /\ UNCHANGED copier
  /\ Dialed

(* The last step of init; then the goroutine for stdin is started. *)
reportWidth ==
  /\ cli = "width"
  /\ \/ CliWritten(Message("WIDTH")) /\ ~(down \/ cliClosed) /\ cli' = "serve" /\ copier' = "copy"
     \/ CliWriteFails /\ Leave /\ cli' = "gone" /\ UNCHANGED copier
  /\ Dialed

WidthChanged ==
  /\ cli \notin {"istty", "width"} /\ copier # "off" /\ widths < MaxWidths
  /\ widths' = widths + 1
  /\ CliWritten(Message("WIDTH"))
  /\ UNCHANGED <<cli, copier, given, term, saved, loopvars, readvars, writevars>>

(* io.Copy; errors of Write are not looked at. *)
CopyChunk ==
  /\ copier = "copy" /\ given < MaxData
  /\ given' = given + 1
  /\ CliWritten(DataMessage(given'))
  /\ UNCHANGED <<cli, copier, widths, term, saved, loopvars, readvars, writevars>>

CopyEnds ==
  /\ copier = "copy"
  /\ copier' = "close"
  /\ UNCHANGED <<connvars, cli, given, widths, term, saved, loopvars, readvars, writevars>>

CliClose ==
  /\ copier = "close"
  /\ copier' = "done"
  /\ CliWritten(Message("EOF"))
  /\ UNCHANGED <<cli, given, widths, term, saved, loopvars, readvars, writevars>>

(* RawMode keeps the state it finds, and never forgets it. *)
RawEnter == saved' = term /\ term' = "raw"
RawExit == term' = (IF saved = "none" THEN term ELSE saved) /\ UNCHANGED saved

CliReceive ==
  /\ cli = "serve" /\ ~down /\ s2c # << >>
  /\ s2c' = Tail(s2c)
  /\ CASE Head(s2c).t = "RAW"  -> RawEnter
       [] Head(s2c).t = "ERAW" -> RawExit
       [] OTHER                -> UNCHANGED <<term, saved>>
  /\ UNCHANGED <<c2s, cliClosed, svrClosed, down, cli, copier, given, widths,
                 loopvars, readvars, writevars>>

CliReadEnds ==
  /\ cli = "serve" /\ CliReadFails
  /\ cli' = "exit"
  /\ UNCHANGED <<connvars, copier, given, widths, term, saved, loopvars, readvars, writevars>>

\* Mutant: raw.Exit is not deferred.
CliExitAsItIs ==
  /\ cli = "exit"
  /\ cli' = "gone"
  /\ Leave
  /\ UNCHANGED <<term, saved, copier, given, widths, loopvars, readvars, writevars>>

(* The deferred raw.Exit. *)
CliExit ==
  /\ cli = "exit"
  /\ cli' = "gone"
  /\ RawExit
  /\ Leave
  /\ UNCHANGED <<copier, given, widths, loopvars, readvars, writevars>>

-----------------------------------------------------------------------------
(***************************************************************************)
(* The server: init and readLoop                                           *)
(***************************************************************************)

SvrInit ==
  /\ svr \in {"istty", "width"}
  /\ \/ /\ ~SvrReadFails /\ c2s # << >>
        /\ CASE svr = "istty" /\ Head(c2s).t = "ISTTY" ->
                  svr' = "width" /\ UNCHANGED <<svrClosed, readLoop, writeLoop>>
             [] svr = "width" /\ Head(c2s).t = "WIDTH" ->
                  /\ svr' = "run" /\ readLoop' = "read" /\ writeLoop' = "select"
                  /\ UNCHANGED svrClosed
             [] OTHER -> /\ svr' = "failed" /\ svrClosed' = TRUE
                         /\ UNCHANGED <<readLoop, writeLoop>>
        /\ c2s' = Tail(c2s)
     \/ /\ SvrReadFails
        /\ svr' = "failed" /\ svrClosed' = TRUE
        /\ UNCHANGED <<c2s, readLoop, writeLoop>>
  /\ UNCHANGED <<s2c, cliClosed, down, clivars, dataBuf, eof, stop, readvars,
                 wpc, wmsg, serving, shell, writes>>

\* Mutant: a width wakes the reader, too.
SvrReceiveWakingAlways ==
  /\ readLoop = "read" /\ ~SvrReadFails /\ c2s # << >>
  /\ c2s' = Tail(c2s)
  /\ readLoop' = "wake"
  /\ dataBuf' = IF Head(c2s).t = "DATA" THEN Append(dataBuf, Head(c2s).d) ELSE dataBuf
  /\ eof' = (eof \/ Head(c2s).t = "EOF")
  /\ UNCHANGED <<s2c, cliClosed, svrClosed, down, clivars, svr, stop, readvars, writevars>>

SvrReceive ==
  /\ readLoop = "read" /\ ~SvrReadFails /\ c2s # << >>
  /\ c2s' = Tail(c2s)
  /\ CASE Head(c2s).t = "EOF"  -> eof' = TRUE /\ readLoop' = "wake" /\ UNCHANGED dataBuf
       [] Head(c2s).t = "DATA" ->
            dataBuf' = Append(dataBuf, Head(c2s).d) /\ readLoop' = "wake" /\ UNCHANGED eof
       [] OTHER -> UNCHANGED <<dataBuf, eof, readLoop>>
  /\ UNCHANGED <<s2c, cliClosed, svrClosed, down, clivars, svr, stop, readvars, writevars>>

\* Mutant: only for data the reader is woken.
SvrWakeForData ==
  /\ readLoop = "wake"
  /\ readLoop' = "read"
  /\ reader' = IF reader = "wait" /\ ~eof THEN "woken" ELSE reader
  /\ UNCHANGED <<connvars, clivars, svr, dataBuf, eof, stop, delivered, writevars>>

(* Nobody is woken if nobody waits yet. *)
SvrWake ==
  /\ readLoop = "wake"
  /\ readLoop' = "read"
  /\ reader' = IF reader = "wait" THEN "woken" ELSE reader
  /\ UNCHANGED <<connvars, clivars, svr, dataBuf, eof, stop, delivered, writevars>>

(* RemoteSvr.Close, by the first that calls it. *)
SvrClose == IF stop THEN UNCHANGED <<stop, connvars>> ELSE stop' = TRUE /\ CloseServer

SvrReadEnds ==
  /\ readLoop = "read" /\ SvrReadFails
  /\ readLoop' = "gone"
  /\ SvrClose
  /\ UNCHANGED <<clivars, svr, dataBuf, eof, readvars, writevars>>

-----------------------------------------------------------------------------
(***************************************************************************)
(* Read, step by step                                                      *)
(***************************************************************************)

ReadOnly == UNCHANGED <<connvars, clivars, svr, eof, stop, readLoop, writevars>>

(* The buffer gives as much as the caller has room for. *)
TakeData ==
  \E n \in 1 .. Len(dataBuf) :
    /\ delivered' = delivered \o SubSeq(dataBuf, 1, n)
    /\ dataBuf' = SubSeq(dataBuf, n + 1, Len(dataBuf))
    /\ reader' = "read"

ReadFirst ==
  /\ svr = "run" /\ reader = "read"
  /\ \/ TakeData
     \/ dataBuf = << >> /\ reader' = "check" /\ UNCHANGED <<delivered, dataBuf>>
  /\ ReadOnly

CheckEOF ==
  /\ reader = "check"
  /\ reader' = IF eof THEN "eof" ELSE "go"
  /\ UNCHANGED <<delivered, dataBuf>>
  /\ ReadOnly

(* Only now a signal is received: one sent since the look at eof is lost,  *)
(* and so is the one for an end that came meanwhile.                       *)
WaitForSignal ==
  /\ reader = "go"
  /\ reader' = "wait"
  /\ UNCHANGED <<delivered, dataBuf>>
  /\ ReadOnly

ReadAgain ==
  /\ reader = "woken"
  /\ \/ TakeData
     \/ dataBuf = << >> /\ reader' = "check again" /\ UNCHANGED <<delivered, dataBuf>>
  /\ ReadOnly

(* With eof or not: the empty buffer's error is io.EOF, too. *)
CheckEOFAgain ==
  /\ reader = "check again"
  /\ reader' = "eof"
  /\ UNCHANGED <<delivered, dataBuf>>
  /\ ReadOnly

-----------------------------------------------------------------------------
(***************************************************************************)
(* Write and writeLoop                                                     *)
(***************************************************************************)

Call(w, m) ==
  /\ wpc[w] = "idle" /\ writes < MaxWrites
  /\ wpc' = [wpc EXCEPT ![w] = "send"]
  /\ wmsg' = [wmsg EXCEPT ![w] = m]
  /\ writes' = writes + 1
  /\ UNCHANGED <<connvars, clivars, loopvars, readvars, writeLoop, serving>>

(* A line may have been typed ahead. *)
LineReady == delivered # << >> \/ reader = "eof"

(* One round: raw, the line, no longer raw, the output of its command.     *)
ShellWrites ==
  /\ svr = "run"
  /\ \/ shell = "prompt" /\ Call("shell", Message("RAW")) /\ shell' = "line"
     \/ shell = "line" /\ LineReady /\ Call("shell", Message("ERAW")) /\ shell' = "run"
     \/ shell = "run" /\ reader # "eof" /\ Call("shell", DataMessage(0)) /\ shell' = "prompt"

EditorWrites ==
  /\ shell = "line" /\ wpc["shell"] = "idle"
  /\ Call("editor", DataMessage(0))
  /\ UNCHANGED shell

(* The handler returns, and its deferred conn.Close runs. *)
ShellReturns ==
  /\ shell = "run" /\ wpc["shell"] = "idle"
  /\ shell' = "gone"
  /\ CloseServer
  /\ UNCHANGED <<clivars, loopvars, readvars, writeLoop, wpc, wmsg, serving, writes>>

(* The loop has the message and writes it. *)
WriteMessage(w) ==
  /\ writeLoop = "select" /\ wpc[w] = "send"
  /\ writeLoop' = "reply" /\ serving' = w
  /\ wpc' = [wpc EXCEPT ![w] = "reply"]
  /\ s2c' = IF down \/ svrClosed \/ cliClosed THEN s2c ELSE Append(s2c, wmsg[w])
  /\ UNCHANGED <<c2s, cliClosed, svrClosed, down, clivars, loopvars, readvars,
                 wmsg, shell, writes>>

Reply ==
  /\ writeLoop = "reply"
  /\ writeLoop' = "select"
  /\ wpc' = [wpc EXCEPT ![serving] = "idle"]
  /\ UNCHANGED <<connvars, clivars, loopvars, readvars, wmsg, serving, shell, writes>>

WriteLoopEnds ==
  /\ writeLoop = "select" /\ stop
  /\ writeLoop' = "gone"
  /\ SvrClose
  /\ UNCHANGED <<clivars, svr, dataBuf, eof, readLoop, readvars, wpc, wmsg, serving,
                 shell, writes>>

-----------------------------------------------------------------------------
ClientReads == CliReceive \/ CliReadEnds \/ CliExit
ServerReads == SvrReceive \/ SvrWake \/ SvrReadEnds
ServerWrites == (\E w \in Writers : WriteMessage(w)) \/ Reply \/ WriteLoopEnds
Reads == ReadFirst \/ CheckEOF \/ WaitForSignal \/ ReadAgain \/ CheckEOFAgain

Next ==
  \/ Break
  \/ reportIsTerminal \/ reportWidth \/ WidthChanged
  \/ CopyChunk \/ CopyEnds \/ CliClose
  \/ ClientReads \/ SvrInit \/ ServerReads \/ ServerWrites \/ Reads
  \/ ShellWrites \/ EditorWrites \/ ShellReturns

(* The loops run. Nobody has to type, and nobody has to read or write.     *)
Fairness ==
  /\ WF_vars(ClientReads) /\ WF_vars(ServerReads) /\ WF_vars(ServerWrites)
  /\ WF_vars(SvrInit) /\ WF_vars(reportIsTerminal \/ reportWidth)

Spec == Init /\ [][Next]_vars /\ Fairness

-----------------------------------------------------------------------------
(* The shell reads what was typed, in order and once, and the end of the   *)
(* input is never the first it reads, unless the client has seen it. (It   *)
(* may read one too early later: the signal for data that it has taken     *)
(* already wakes its next Read. And data that arrives together with the    *)
(* end between the two looks of Read stays in the buffer.)                 *)
StreamArrives ==
  /\ delivered \o dataBuf = [n \in 1 .. Len(delivered \o dataBuf) |-> n]
  /\ Len(delivered \o dataBuf) <= given
  /\ reader = "eof" => delivered # << >> \/ copier = "done"

(* However the connection ends, the client's terminal is as it was.        *)
TerminalGivenBack == cli = "gone" => term = "cooked"

(* Data or an end on its way wakes a reader that waits, also one whose     *)
(* last signal came too early. (What came with that signal waits in the    *)
(* server: an end that came too early wakes nobody any more.)              *)
InFlight == \E n \in DOMAIN c2s : c2s[n].t \in {"DATA", "EOF"}
InFlightWakes ==
  (reader = "wait" /\ InFlight) ~> (reader # "wait" \/ down \/ svrClosed)
=============================================================================
