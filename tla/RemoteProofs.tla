---------------------------- MODULE RemoteProofs ---------------------------
(***************************************************************************)
(* Theorems about Remote, for any number of bytes typed, messages written  *)
(* and changes of the width.  Two invariants, one for each direction of    *)
(* the connection: what is on its way to the server continues what has     *)
(* arrived, and what is on its way to the client never makes its terminal  *)
(* raw twice.                                                              *)
(***************************************************************************)
EXTENDS Remote, SequenceTheorems, TLAPS

Tags == {"none", "ISTTY", "WIDTH", "DATA", "EOF", "RAW", "ERAW"}
Messages == [t : Tags, d : Nat]

TypeInv ==
  /\ c2s \in Seq(Messages) /\ s2c \in Seq(Messages)
  /\ given \in Nat
  /\ dataBuf \in Seq(Nat) /\ delivered \in Seq(Nat)
  /\ wpc \in [Writers -> {"idle", "send", "reply"}]
  /\ wmsg \in [Writers -> Messages]
  /\ serving \in Writers
  /\ eof \in BOOLEAN
  /\ term \in {"cooked", "raw"} /\ saved \in {"none", "cooked", "raw"}

-----------------------------------------------------------------------------
(* From the client to the server.                                          *)

Got == delivered \o dataBuf

\* The messages s carry byte v.
Carries(s, v) == \E n \in 1 .. Len(s) : s[n].t = "DATA" /\ s[n].d = v

\* The data of the messages s continues the first k bytes, without a gap.
Continues(s, k) ==
  /\ \A n \in 1 .. Len(s) :
       s[n].t = "DATA" =>
         /\ s[n].d > k
         /\ \A v \in k + 1 .. s[n].d : Carries(s, v)
  /\ \A n, m \in 1 .. Len(s) :
       n < m /\ s[n].t = "DATA" /\ s[m].t = "DATA" => s[n].d < s[m].d

\* No message carries more than was read from stdin.
Bounded(s) == \A n \in 1 .. Len(s) : s[n].t = "DATA" => s[n].d <= given

StreamInv ==
  /\ \A n \in 1 .. Len(Got) : Got[n] = n
  /\ Len(Got) <= given
  /\ ~down /\ ~svrClosed =>
       /\ Continues(c2s, Len(Got)) /\ Bounded(c2s)
       /\ ~cliClosed => \A v \in Len(Got) + 1 .. given : Carries(c2s, v)

\* An end of the input comes from the client, and nobody is woken for nothing.
EndInv ==
  /\ cli \in {"istty", "width"} => copier = "off"
  /\ eof \/ (\E n \in 1 .. Len(c2s) : c2s[n].t = "EOF") => copier = "done"
  /\ readLoop = "wake" \/ reader = "woken" => Got # <<>> \/ eof
  /\ reader = "check again" => delivered # <<>> \/ eof
  /\ reader = "eof" => delivered # <<>> \/ copier = "done"

-----------------------------------------------------------------------------
(* From the server to the client.                                          *)

\* Between two RAW messages there is one that ends the raw mode,
Alternate(s) ==
  \A n, m \in 1 .. Len(s) :
    n < m /\ s[n].t = "RAW" /\ s[m].t = "RAW" =>
      \E k \in 1 .. Len(s) : n < k /\ k < m /\ s[k].t = "ERAW"

\* there is one before every RAW,
ExitFirst(s) ==
  \A m \in 1 .. Len(s) :
    s[m].t = "RAW" => \E k \in 1 .. Len(s) : k < m /\ s[k].t = "ERAW"

\* there is one after every RAW.
ExitLast(s) ==
  \A n \in 1 .. Len(s) :
    s[n].t = "RAW" => \E k \in 1 .. Len(s) : n < k /\ s[k].t = "ERAW"

HasExit(s) == \E k \in 1 .. Len(s) : s[k].t = "ERAW"

\* Once the client has taken all that is on its way, its terminal is cooked.
Settled == ExitLast(s2c) /\ (term = "raw" => HasExit(s2c))

Open == ~down /\ ~svrClosed /\ ~cliClosed

Pending(tag) == wpc["shell"] = "send" => wmsg["shell"].t = tag

\* What the shell has on its way, by its place in the round.
WriterInv ==
  /\ writeLoop = "reply" => wpc[serving] = "reply"
  /\ wpc["editor"] = "send" => wmsg["editor"].t = "DATA"
  /\ shell \in {"prompt", "line", "run", "gone"}
  /\ shell = "prompt" => Pending("DATA") /\ (Open => Settled)
  /\ shell = "line" => Pending("RAW") /\ (Open /\ wpc["shell"] = "send" => Settled)
  /\ shell = "run" => Pending("ERAW") /\ (Open /\ wpc["shell"] # "send" => Settled)
  /\ shell = "gone" => svrClosed

\* RawMode.state is never that of a raw terminal.
TerminalInv ==
  /\ Alternate(s2c)
  /\ term = "raw" => ExitFirst(s2c) /\ saved = "cooked"
  /\ saved # "raw"
  /\ cli \in {"istty", "width", "gone"} => term = "cooked"

IInv == TypeInv /\ StreamInv /\ EndInv /\ WriterInv /\ TerminalInv

-----------------------------------------------------------------------------
(* Facts about messages in the connection.                                 *)

\* Where the messages are after one is put at the end.
LEMMA AppendFacts ==
  ASSUME NEW s \in Seq(Messages), NEW x \in Messages
  PROVE  /\ Append(s, x) \in Seq(Messages)
         /\ Len(s) \in Nat /\ Len(Append(s, x)) = Len(s) + 1
         /\ \A n \in 1 .. Len(s) : Append(s, x)[n] = s[n]
         /\ Append(s, x)[Len(s) + 1] = x
OBVIOUS

\* Where the messages are after the first is taken.
LEMMA TailFacts ==
  ASSUME NEW s \in Seq(Messages), s # <<>>
  PROVE  /\ Head(s) \in Messages /\ Head(s) = s[1]
         /\ Tail(s) \in Seq(Messages)
         /\ Len(s) \in Nat \ {0} /\ Len(Tail(s)) = Len(s) - 1
         /\ \A n \in 1 .. Len(Tail(s)) : Tail(s)[n] = s[n + 1]
BY HeadTailProperties, EmptySeq

LEMMA CarriesAppend ==
  ASSUME NEW s \in Seq(Messages), NEW x \in Messages, NEW v
  PROVE  Carries(Append(s, x), v) <=> Carries(s, v) \/ (x.t = "DATA" /\ x.d = v)
BY AppendFacts DEF Carries

LEMMA CarriesTail ==
  ASSUME NEW s \in Seq(Messages), s # <<>>, NEW v
  PROVE  Carries(s, v) <=> Carries(Tail(s), v) \/ (Head(s).t = "DATA" /\ Head(s).d = v)
<1> USE TailFacts
<1>1. ASSUME Carries(s, v)
      PROVE  Carries(Tail(s), v) \/ (Head(s).t = "DATA" /\ Head(s).d = v)
  <2>1. PICK n \in 1 .. Len(s) : s[n].t = "DATA" /\ s[n].d = v
    BY <1>1 DEF Carries
  <2>2. CASE n = 1
    BY <2>1, <2>2
  <2>3. CASE n # 1
    <3>1. n - 1 \in 1 .. Len(Tail(s)) /\ Tail(s)[n - 1] = s[n]
      BY <2>3
    <3> QED
      BY <2>1, <3>1 DEF Carries
  <2> QED
    BY <2>2, <2>3
<1>2. ASSUME Carries(Tail(s), v) PROVE Carries(s, v)
  <2>1. PICK n \in 1 .. Len(Tail(s)) : Tail(s)[n].t = "DATA" /\ Tail(s)[n].d = v
    BY <1>2 DEF Carries
  <2>2. n + 1 \in 1 .. Len(s) /\ s[n + 1] = Tail(s)[n]
    OBVIOUS
  <2> QED
    BY <2>1, <2>2 DEF Carries
<1>3. Head(s).t = "DATA" /\ Head(s).d = v => Carries(s, v)
  BY DEF Carries
<1> QED
  BY <1>1, <1>2, <1>3

\* A message that is no data changes nothing, and the next byte continues.
LEMMA ContinuesAppend ==
  ASSUME NEW s \in Seq(Messages), NEW k \in Nat, NEW g \in Nat,
         Continues(s, k), k <= g,
         \A v \in k + 1 .. g : Carries(s, v),
         \A n \in 1 .. Len(s) : s[n].t = "DATA" => s[n].d <= g,
         NEW x \in Messages, x.t = "DATA" => x.d = g + 1
  PROVE  Continues(Append(s, x), k)
<1> DEFINE q == Append(s, x)
<1>1. /\ q \in Seq(Messages) /\ Len(s) \in Nat /\ Len(q) = Len(s) + 1
      /\ \A n \in 1 .. Len(s) : q[n] = s[n]
      /\ q[Len(s) + 1] = x
  BY AppendFacts
<1>2. \A v : Carries(q, v) <=> Carries(s, v) \/ (x.t = "DATA" /\ x.d = v)
  BY CarriesAppend
<1> HIDE DEF q
<1>3. ASSUME NEW n \in 1 .. Len(q), q[n].t = "DATA"
      PROVE  q[n].d > k /\ \A v \in k + 1 .. q[n].d : Carries(q, v)
  <2>1. CASE n \in 1 .. Len(s)
    BY <1>1, <1>2, <1>3, <2>1 DEF Continues
  <2>2. CASE n = Len(s) + 1
    <3>1. q[n].d = g + 1 /\ x.t = "DATA" /\ x.d = g + 1
      BY <1>1, <1>3, <2>2
    <3>2. ASSUME NEW v \in k + 1 .. g + 1 PROVE Carries(q, v)
      BY <1>2, <3>1
    <3> QED
      BY <3>1, <3>2
  <2> QED
    BY <1>1, <2>1, <2>2
<1>4. ASSUME NEW n \in 1 .. Len(q), NEW m \in 1 .. Len(q), n < m,
             q[n].t = "DATA", q[m].t = "DATA"
      PROVE  q[n].d < q[m].d
  <2>1. n \in 1 .. Len(s) /\ q[n] = s[n] /\ s[n] \in Messages
    BY <1>1, <1>4
  <2>2. CASE m \in 1 .. Len(s)
    BY <1>1, <1>4, <2>1, <2>2 DEF Continues
  <2>3. CASE m = Len(s) + 1
    <3>1. q[m].d = g + 1 /\ s[n].d <= g
      BY <1>1, <1>4, <2>1, <2>3
    <3> QED
      BY <2>1, <3>1 DEF Messages
  <2> QED
    BY <1>1, <2>2, <2>3
<1>5. Continues(q, k)
  BY <1>3, <1>4 DEF Continues
<1> QED
  BY <1>5 DEF q

\* The first byte on its way is the one after the last that has arrived.
LEMMA ContinuesTail ==
  ASSUME NEW s \in Seq(Messages), s # <<>>, NEW k \in Nat, Continues(s, k)
  PROVE  /\ Head(s).t # "DATA" => Continues(Tail(s), k)
         /\ Head(s).t = "DATA" => Head(s).d = k + 1 /\ Continues(Tail(s), k + 1)
<1> DEFINE q == Tail(s)
<1>1. /\ Head(s) \in Messages /\ Head(s) = s[1] /\ q \in Seq(Messages)
      /\ Len(s) \in Nat \ {0} /\ Len(q) = Len(s) - 1
      /\ \A n \in 1 .. Len(q) : q[n] = s[n + 1]
  BY TailFacts
<1>2. \A v : Carries(s, v) <=> Carries(q, v) \/ (Head(s).t = "DATA" /\ Head(s).d = v)
  BY CarriesTail
<1> HIDE DEF q
<1>3. \A n \in 1 .. Len(q) : n + 1 \in 1 .. Len(s) /\ q[n] = s[n + 1] /\ q[n].d \in Nat
  <2> SUFFICES ASSUME NEW n \in 1 .. Len(q)
               PROVE  n + 1 \in 1 .. Len(s) /\ q[n] = s[n + 1] /\ q[n].d \in Nat
    OBVIOUS
  <2>1. q[n] \in Messages
    BY <1>1
  <2> QED
    BY <1>1, <2>1, SMTT(40) DEF Messages
<1>4. \A n, m \in 1 .. Len(q) :
        n < m /\ q[n].t = "DATA" /\ q[m].t = "DATA" => q[n].d < q[m].d
  <2> SUFFICES ASSUME NEW n \in 1 .. Len(q), NEW m \in 1 .. Len(q), n < m,
                      q[n].t = "DATA", q[m].t = "DATA"
               PROVE  q[n].d < q[m].d
    OBVIOUS
  <2>1. n + 1 < m + 1 /\ n + 1 \in 1 .. Len(s) /\ m + 1 \in 1 .. Len(s)
    BY <1>3
  <2> QED
    BY <1>3, <2>1 DEF Continues
<1>5. CASE Head(s).t # "DATA"
  <2>1. \A n \in 1 .. Len(q) :
          q[n].t = "DATA" => q[n].d > k /\ \A v \in k + 1 .. q[n].d : Carries(q, v)
    BY <1>2, <1>3, <1>5 DEF Continues
  <2> QED
    BY <1>4, <1>5, <2>1 DEF Continues, q
<1>6. CASE Head(s).t = "DATA"
  <2>1. s[1].d > k /\ Carries(s, k + 1) /\ s[1].d \in Nat
    <3>1. s[1].d \in Nat /\ s[1].t = "DATA" /\ 1 \in 1 .. Len(s)
      BY <1>1, <1>6 DEF Messages
    <3>2. s[1].d > k /\ \A v \in k + 1 .. s[1].d : Carries(s, v)
      BY <3>1 DEF Continues
    <3> QED
      BY <3>1, <3>2
  <2>2. PICK n \in 1 .. Len(s) : s[n].t = "DATA" /\ s[n].d = k + 1
    BY <2>1 DEF Carries
  <2>3. n = 1
    BY <1>1, <1>6, <2>1, <2>2, SMTT(40) DEF Continues
  <2>4. Head(s).d = k + 1
    BY <1>1, <2>2, <2>3
  <2>5. ASSUME NEW m \in 1 .. Len(q), q[m].t = "DATA"
        PROVE  q[m].d > k + 1 /\ \A v \in (k + 1) + 1 .. q[m].d : Carries(q, v)
    <3>1. /\ m + 1 \in 1 .. Len(s) /\ 1 \in 1 .. Len(s) /\ 1 < m + 1
          /\ s[m + 1] = q[m] /\ q[m].d \in Nat
      BY <1>1, <1>3
    <3>2. s[1].d < q[m].d /\ \A v \in k + 1 .. q[m].d : Carries(s, v)
      BY <1>1, <1>6, <2>5, <3>1 DEF Continues
    <3> QED
      BY <1>1, <1>2, <2>4, <3>1, <3>2
  <2> QED
    BY <1>4, <1>6, <2>4, <2>5 DEF Continues, q
<1> QED
  BY <1>5, <1>6

\* The next message written keeps RAW and its end in turn: one that enters raw
\* mode comes when the last has ended.
LEMMA RawAppend ==
  ASSUME NEW s \in Seq(Messages), NEW x \in Messages, Alternate(s),
         x.t = "RAW" => ExitLast(s)
  PROVE  /\ Alternate(Append(s, x))
         /\ ExitFirst(s) /\ (x.t = "RAW" => HasExit(s)) => ExitFirst(Append(s, x))
         /\ x.t # "RAW" /\ ExitLast(s) => ExitLast(Append(s, x))
         /\ x.t = "ERAW" => ExitLast(Append(s, x)) /\ HasExit(Append(s, x))
         /\ HasExit(s) => HasExit(Append(s, x))
<1> DEFINE q == Append(s, x)
<1>1. /\ q \in Seq(Messages) /\ Len(s) \in Nat /\ Len(q) = Len(s) + 1
      /\ \A n \in 1 .. Len(s) : q[n] = s[n]
      /\ q[Len(s) + 1] = x
  BY AppendFacts
<1> HIDE DEF q
<1>2. Alternate(q)
  <2> SUFFICES ASSUME NEW n \in 1 .. Len(q), NEW m \in 1 .. Len(q), n < m,
                      q[n].t = "RAW", q[m].t = "RAW"
               PROVE  \E k \in 1 .. Len(q) : n < k /\ k < m /\ q[k].t = "ERAW"
    BY DEF Alternate
  <2>1. n \in 1 .. Len(s) /\ s[n].t = "RAW"
    BY <1>1
  <2>2. CASE m \in 1 .. Len(s)
    BY <1>1, <2>1, <2>2, SMTT(40) DEF Alternate
  <2>3. CASE m = Len(s) + 1
    BY <1>1, <2>1, <2>3 DEF ExitLast
  <2> QED
    BY <1>1, <2>2, <2>3
<1>3. ExitFirst(s) /\ (x.t = "RAW" => HasExit(s)) => ExitFirst(q)
  BY <1>1 DEF ExitFirst, HasExit
<1>4. x.t # "RAW" /\ ExitLast(s) => ExitLast(q)
  BY <1>1 DEF ExitLast
<1>5. x.t = "ERAW" => ExitLast(q) /\ HasExit(q)
  BY <1>1 DEF ExitLast, HasExit
<1>6. HasExit(s) => HasExit(q)
  BY <1>1 DEF HasExit
<1> QED
  BY <1>2, <1>3, <1>4, <1>5, <1>6 DEF q

\* What the client learns of the rest from the first message.
LEMMA RawTail ==
  ASSUME NEW s \in Seq(Messages), s # <<>>, Alternate(s)
  PROVE  /\ Alternate(Tail(s))
         /\ Head(s).t = "RAW" => ExitFirst(Tail(s))
         /\ Head(s).t \notin {"RAW", "ERAW"} /\ ExitFirst(s) => ExitFirst(Tail(s))
         /\ ExitFirst(s) => Head(s).t # "RAW"
         /\ ExitLast(s) => ExitLast(Tail(s)) /\ (Head(s).t = "RAW" => HasExit(Tail(s)))
         /\ HasExit(s) /\ Head(s).t # "ERAW" => HasExit(Tail(s))
<1> DEFINE q == Tail(s)
<1>1. /\ Head(s) = s[1] /\ q \in Seq(Messages)
      /\ Len(s) \in Nat \ {0} /\ Len(q) = Len(s) - 1
      /\ \A n \in 1 .. Len(q) : q[n] = s[n + 1]
  BY TailFacts
<1> HIDE DEF q
<1>2. \A n \in 1 .. Len(q) : n + 1 \in 1 .. Len(s) /\ q[n] = s[n + 1]
  BY <1>1
<1>3. \A k \in 1 .. Len(s) : k # 1 => k - 1 \in 1 .. Len(q) /\ q[k - 1] = s[k]
  BY <1>1
<1>4. Alternate(q)
  <2> SUFFICES ASSUME NEW n \in 1 .. Len(q), NEW m \in 1 .. Len(q), n < m,
                      q[n].t = "RAW", q[m].t = "RAW"
               PROVE  \E k \in 1 .. Len(q) : n < k /\ k < m /\ q[k].t = "ERAW"
    BY DEF Alternate
  <2>1. PICK k \in 1 .. Len(s) : n + 1 < k /\ k < m + 1 /\ s[k].t = "ERAW"
    BY <1>2 DEF Alternate
  <2> QED
    BY <1>3, <2>1
<1>5. Head(s).t = "RAW" => ExitFirst(q)
  <2> SUFFICES ASSUME Head(s).t = "RAW", NEW m \in 1 .. Len(q), q[m].t = "RAW"
               PROVE  \E k \in 1 .. Len(q) : k < m /\ q[k].t = "ERAW"
    BY DEF ExitFirst
  <2>1. PICK k \in 1 .. Len(s) : 1 < k /\ k < m + 1 /\ s[k].t = "ERAW"
    BY <1>1, <1>2 DEF Alternate
  <2> QED
    BY <1>3, <2>1
<1>6. Head(s).t \notin {"RAW", "ERAW"} /\ ExitFirst(s) => ExitFirst(q)
  <2> SUFFICES ASSUME Head(s).t # "ERAW", ExitFirst(s), NEW m \in 1 .. Len(q), q[m].t = "RAW"
               PROVE  \E k \in 1 .. Len(q) : k < m /\ q[k].t = "ERAW"
    BY DEF ExitFirst
  <2>1. PICK k \in 1 .. Len(s) : k < m + 1 /\ s[k].t = "ERAW"
    BY <1>2 DEF ExitFirst
  <2>2. k # 1
    BY <1>1, <2>1
  <2>3. k - 1 \in 1 .. Len(q) /\ q[k - 1].t = "ERAW" /\ k - 1 < m
    BY <1>3, <2>1, <2>2
  <2> QED
    BY <2>3
<1>7. ExitFirst(s) => Head(s).t # "RAW"
  BY <1>1 DEF ExitFirst
<1>8. ExitLast(s) => ExitLast(q) /\ (Head(s).t = "RAW" => HasExit(q))
  <2> SUFFICES ASSUME ExitLast(s) PROVE ExitLast(q) /\ (Head(s).t = "RAW" => HasExit(q))
    OBVIOUS
  <2>1. ASSUME NEW n \in 1 .. Len(q), q[n].t = "RAW"
        PROVE  \E k \in 1 .. Len(q) : n < k /\ q[k].t = "ERAW"
    <3>1. PICK k \in 1 .. Len(s) : n + 1 < k /\ s[k].t = "ERAW"
      BY <1>2, <2>1 DEF ExitLast
    <3>2. k - 1 \in 1 .. Len(q) /\ q[k - 1].t = "ERAW" /\ n < k - 1
      BY <1>3, <3>1
    <3> QED
      BY <3>2
  <2>2. ASSUME Head(s).t = "RAW" PROVE HasExit(q)
    <3>1. PICK k \in 1 .. Len(s) : 1 < k /\ s[k].t = "ERAW"
      BY <1>1, <2>2 DEF ExitLast
    <3> QED
      BY <1>3, <3>1 DEF HasExit
  <2> QED
    BY <2>1, <2>2 DEF ExitLast
<1>9. HasExit(s) /\ Head(s).t # "ERAW" => HasExit(q)
  BY <1>1, <1>3 DEF HasExit
<1> QED
  BY <1>4, <1>5, <1>6, <1>7, <1>8, <1>9 DEF q

-----------------------------------------------------------------------------
(* What the actions do to the connection and to Read.                      *)

LEMMA MessageTypes ==
  /\ \A tag \in Tags : Message(tag) \in Messages /\ Message(tag).t = tag
  /\ \A d \in Nat : /\ DataMessage(d) \in Messages
                    /\ DataMessage(d).t = "DATA" /\ DataMessage(d).d = d
BY DEF Message, DataMessage, Messages, Tags

\* What is cut off stays cut off.
CutStays ==
  /\ down => down'
  /\ svrClosed => svrClosed'
  /\ cliClosed => cliClosed'

LEMMA CutForGood == ASSUME [Next]_vars PROVE CutStays
<1> USE DEF CutStays, connvars
<1>1. CASE Break \/ WidthChanged \/ CopyChunk \/ CopyEnds \/ CliClose
  BY <1>1 DEF Break, WidthChanged, CopyChunk, CopyEnds, CliClose, CliWritten
<1>2. CASE reportIsTerminal \/ reportWidth
  BY <1>2 DEF reportIsTerminal, reportWidth, CliWritten, Leave
<1>3. CASE ClientReads
  BY <1>3 DEF ClientReads, CliReceive, CliReadEnds, CliExit, Leave
<1>4. CASE SvrInit
  BY <1>4 DEF SvrInit
<1>5. CASE ServerReads
  BY <1>5 DEF ServerReads, SvrReceive, SvrWake, SvrReadEnds, SvrClose, CloseServer
<1>6. CASE ServerWrites
  BY <1>6 DEF ServerWrites, WriteMessage, Reply, WriteLoopEnds, SvrClose, CloseServer
<1>7. CASE Reads
  <2>1. ReadOnly
    BY <1>7 DEF Reads, ReadFirst, CheckEOF, WaitForSignal, ReadAgain, CheckEOFAgain
  <2> QED
    BY <2>1 DEF ReadOnly
<1>8. CASE ShellWrites \/ EditorWrites \/ ShellReturns
  BY <1>8 DEF ShellWrites, EditorWrites, ShellReturns, Call, CloseServer
<1>9. CASE UNCHANGED vars
  BY <1>9 DEF vars
<1> QED
  BY <1>1, <1>2, <1>3, <1>4, <1>5, <1>6, <1>7, <1>8, <1>9 DEF Next

\* Bytes are bytes, whatever the slices they come in.
LEMMA BytesAssociative ==
  ASSUME NEW x \in Seq(Nat), NEW y \in Seq(Nat), NEW z \in Seq(Nat)
  PROVE  (x \o y) \o z = x \o (y \o z)
BY ConcatAssociative, SMTT(40)

\* Read moves bytes from the buffer to its caller; together they stay the same.
LEMMA TakeFacts ==
  ASSUME TypeInv, TakeData
  PROVE  /\ delivered' \in Seq(Nat) /\ dataBuf' \in Seq(Nat)
         /\ delivered' # <<>> /\ reader' = "read"
         /\ Got' = Got
<1>1. PICK n \in 1 .. Len(dataBuf) :
        /\ delivered' = delivered \o SubSeq(dataBuf, 1, n)
        /\ dataBuf' = SubSeq(dataBuf, n + 1, Len(dataBuf))
        /\ reader' = "read"
  BY DEF TakeData
<1>2. delivered \in Seq(Nat) /\ dataBuf \in Seq(Nat) /\ Len(dataBuf) \in Nat
  BY DEF TypeInv
<1> DEFINE a == SubSeq(dataBuf, 1, n)
           b == SubSeq(dataBuf, n + 1, Len(dataBuf))
<1>3. a \in Seq(Nat) /\ b \in Seq(Nat) /\ Len(a) = n
  BY <1>2
<1>4. a \o b = dataBuf
  <2>1. SubSeq(dataBuf, 1, n) \o SubSeq(dataBuf, n + 1, Len(dataBuf))
          = SubSeq(dataBuf, 1, Len(dataBuf))
    BY <1>2, ConcatAdjacentSubSeq
  <2> QED
    BY <1>2, <2>1, SubSeqFull
<1> HIDE DEF a, b
<1>5. (delivered \o a) \o b = delivered \o dataBuf
  <2>1. (delivered \o a) \o b = delivered \o (a \o b)
    BY <1>2, <1>3, BytesAssociative
  <2> QED
    BY <1>4, <2>1
<1>6. delivered \o a \in Seq(Nat) /\ delivered \o a # <<>>
  <2>1. delivered \o a \in Seq(Nat) /\ Len(delivered \o a) = Len(delivered) + n
    BY <1>2, <1>3, ConcatProperties
  <2>2. Len(delivered) \in Nat /\ Len(<<>>) = 0 /\ n > 0
    BY <1>2
  <2> QED
    BY <2>1, <2>2
<1> QED
  <2>1. delivered' = delivered \o a /\ dataBuf' = b /\ reader' = "read"
    BY <1>1 DEF a, b
  <2> QED
    BY <1>3, <1>5, <1>6, <2>1 DEF Got

\* The buffers of Read change only when it takes data.
LEMMA ReadsFacts ==
  ASSUME TypeInv, Reads
  PROVE  /\ UNCHANGED <<connvars, clivars, svr, eof, stop, readLoop, writevars>>
         /\ delivered' \in Seq(Nat) /\ dataBuf' \in Seq(Nat)
         /\ Got' = Got
<1>1. TakeData \/ UNCHANGED <<delivered, dataBuf>>
  BY DEF Reads, ReadFirst, CheckEOF, WaitForSignal, ReadAgain, CheckEOFAgain
<1>2. ReadOnly
  BY DEF Reads, ReadFirst, CheckEOF, WaitForSignal, ReadAgain, CheckEOFAgain
<1> QED
  BY <1>1, <1>2, TakeFacts DEF ReadOnly, TypeInv, Got

\* What a write of the client leaves in the connection.
LEMMA CliWrittenFacts ==
  ASSUME TypeInv, NEW m \in Messages, CliWritten(m)
  PROVE  /\ c2s' \in Seq(Messages)
         /\ UNCHANGED <<s2c, cliClosed, svrClosed, down>>
         /\ c2s' = c2s \/ c2s' = Append(c2s, m)
         /\ Open => c2s' = Append(c2s, m)
BY AppendFacts DEF CliWritten, CliWriteFails, TypeInv, Open

\* What closing the server leaves: its messages, or nothing.
LEMMA SvrCloseFacts ==
  ASSUME CloseServer \/ SvrClose
  PROVE  /\ UNCHANGED <<c2s, cliClosed, down>>
         /\ svrClosed => svrClosed'
         /\ s2c' = s2c \/ (s2c' = <<>> /\ svrClosed')
BY DEF CloseServer, SvrClose, connvars

-----------------------------------------------------------------------------
(* The types.                                                              *)

LEMMA InitTypeInv == Init => TypeInv
<1> SUFFICES ASSUME Init PROVE TypeInv
  OBVIOUS
<1>1. <<>> \in Seq(Messages) /\ <<>> \in Seq(Nat) /\ "shell" \in Writers
      /\ Message("none") \in Messages
  BY MessageTypes DEF Writers, Tags
<1> QED
  BY <1>1 DEF Init, TypeInv

LEMMA CallType ==
  ASSUME TypeInv, NEW w \in Writers, NEW m \in Messages, Call(w, m)
  PROVE  TypeInv'
BY DEF TypeInv, Call, connvars, clivars, loopvars, readvars

LEMMA TypeStep == ASSUME TypeInv, [Next]_vars PROVE TypeInv'
<1> USE DEF TypeInv, connvars, clivars, loopvars, readvars, writevars
<1>0. /\ Message("ISTTY") \in Messages /\ Message("WIDTH") \in Messages
      /\ Message("EOF") \in Messages /\ Message("RAW") \in Messages
      /\ Message("ERAW") \in Messages /\ DataMessage(0) \in Messages
  BY MessageTypes DEF Tags
<1>1. CASE Break
  BY <1>1 DEF Break
<1>2. CASE reportIsTerminal \/ reportWidth
  <2>1. c2s' \in Seq(Messages) /\ UNCHANGED s2c
    BY <1>0, <1>2, CliWrittenFacts DEF reportIsTerminal, reportWidth, Leave
  <2> QED
    BY <1>2, <2>1 DEF reportIsTerminal, reportWidth, Dialed
<1>3. CASE WidthChanged
  BY <1>0, <1>3, CliWrittenFacts DEF WidthChanged
<1>4. CASE CopyChunk
  <2>1. given' \in Nat /\ DataMessage(given') \in Messages
    BY <1>4, MessageTypes DEF CopyChunk
  <2>2. c2s' \in Seq(Messages) /\ UNCHANGED s2c
    BY <1>4, <2>1, CliWrittenFacts DEF CopyChunk
  <2> QED
    BY <1>4, <2>1, <2>2 DEF CopyChunk
<1>5. CASE CopyEnds \/ CliReadEnds
  BY <1>5 DEF CopyEnds, CliReadEnds
<1>6. CASE CliClose
  BY <1>0, <1>6, CliWrittenFacts DEF CliClose
<1>7. CASE CliReceive
  <2>1. s2c' \in Seq(Messages)
    BY <1>7, TailFacts DEF CliReceive
  <2>2. term' \in {"cooked", "raw"} /\ saved' \in {"none", "cooked", "raw"}
    BY <1>7 DEF CliReceive, RawEnter, RawExit
  <2> QED
    BY <1>7, <2>1, <2>2 DEF CliReceive
<1>8. CASE CliExit
  BY <1>8 DEF CliExit, RawExit, Leave
<1>9. CASE SvrInit
  <2>1. c2s' \in Seq(Messages)
    BY <1>9, TailFacts DEF SvrInit
  <2> QED
    BY <1>9, <2>1 DEF SvrInit
<1>10. CASE SvrReceive
  <2>1. c2s' \in Seq(Messages) /\ Head(c2s).d \in Nat
    BY <1>10, TailFacts DEF SvrReceive, Messages
  <2>2. dataBuf' \in Seq(Nat) /\ eof' \in BOOLEAN
    <3>1. CASE Head(c2s).t = "DATA"
      <4>1. dataBuf' = Append(dataBuf, Head(c2s).d) /\ eof' = eof
        BY <1>10, <3>1 DEF SvrReceive
      <4> QED
        BY <2>1, <4>1
    <3>2. CASE Head(c2s).t # "DATA"
      BY <1>10, <3>2 DEF SvrReceive
    <3> QED
      BY <3>1, <3>2
  <2> QED
    BY <1>10, <2>1, <2>2 DEF SvrReceive
<1>11. CASE SvrWake
  BY <1>11 DEF SvrWake
<1>12. CASE SvrReadEnds \/ WriteLoopEnds \/ ShellReturns
  <2>1. c2s' \in Seq(Messages) /\ s2c' \in Seq(Messages)
    <3>1. <<>> \in Seq(Messages)
      OBVIOUS
    <3>2. SvrClose \/ CloseServer
      BY <1>12 DEF SvrReadEnds, WriteLoopEnds, ShellReturns
    <3>3. c2s' = c2s /\ (s2c' = s2c \/ s2c' = <<>>)
      BY <3>2, SvrCloseFacts
    <3> QED
      BY <3>1, <3>3
  <2> QED
    BY <1>12, <2>1 DEF SvrReadEnds, WriteLoopEnds, ShellReturns
<1>13. CASE \E w \in Writers : WriteMessage(w)
  <2>1. PICK w \in Writers : WriteMessage(w)
    BY <1>13
  <2>2. s2c' \in Seq(Messages)
    BY <2>1, AppendFacts DEF WriteMessage
  <2> QED
    BY <2>1, <2>2 DEF WriteMessage
<1>14. CASE Reply
  BY <1>14 DEF Reply
<1>15. CASE Reads
  BY <1>15, ReadsFacts
<1>16. CASE ShellWrites \/ EditorWrites
  BY <1>0, <1>16, CallType DEF ShellWrites, EditorWrites, Writers
<1>17. CASE UNCHANGED vars
  BY <1>17 DEF vars
<1> QED
  BY <1>1, <1>2, <1>3, <1>4, <1>5, <1>6, <1>7, <1>8, <1>9, <1>10, <1>11, <1>12, <1>13,
     <1>14, <1>15, <1>16, <1>17 DEF Next, ClientReads, ServerReads, ServerWrites

-----------------------------------------------------------------------------
(* The bytes typed.                                                        *)

GotTyped == TypeInv => Got \in Seq(Nat) /\ Len(Got) \in Nat

LEMMA GotType == GotTyped
<1>1. ASSUME TypeInv PROVE Got \in Seq(Nat)
  BY <1>1, ConcatProperties DEF TypeInv, Got
<1> QED
  BY <1>1 DEF GotTyped

\* A step that leaves the bytes where they are.
LEMMA StreamFrame ==
  ASSUME StreamInv, CutStays, given' = given, c2s' = c2s, Got' = Got
  PROVE  StreamInv'
BY DEF StreamInv, CutStays, Bounded

\* A message that is no data.
LEMMA StreamAppend ==
  ASSUME TypeInv, StreamInv, NEW m \in Messages, m.t # "DATA",
         c2s' = c2s \/ (Open /\ c2s' = Append(c2s, m)),
         CutStays, given' = given, Got' = Got
  PROVE  StreamInv'
<1>1. CASE c2s' = c2s
  BY <1>1, StreamFrame
<1>2. CASE Open /\ c2s' = Append(c2s, m)
  <2>1. /\ c2s \in Seq(Messages) /\ given \in Nat /\ Len(Got) \in Nat
        /\ Len(Got) <= given
    BY GotType DEF GotTyped, TypeInv, StreamInv
  <2>2. /\ Continues(c2s, Len(Got)) /\ Bounded(c2s)
        /\ \A v \in Len(Got) + 1 .. given : Carries(c2s, v)
    BY <1>2 DEF Open, StreamInv
  <2>3. Continues(c2s', Len(Got))
    BY <1>2, <2>1, <2>2, ContinuesAppend DEF Bounded
  <2>4. \A v : Carries(c2s, v) => Carries(c2s', v)
    BY <1>2, <2>1, CarriesAppend
  <2>5. Bounded(c2s)'
    BY <1>2, <2>1, <2>2, AppendFacts DEF Bounded
  <2> QED
    BY <2>2, <2>3, <2>4, <2>5 DEF StreamInv
<1> QED
  BY <1>1, <1>2

\* A byte of stdin.
LEMMA StreamCopy ==
  ASSUME TypeInv, StreamInv, CopyChunk
  PROVE  StreamInv'
<1> DEFINE m == DataMessage(given + 1)
<1>1. /\ c2s \in Seq(Messages) /\ given \in Nat /\ Len(Got) \in Nat
      /\ Len(Got) <= given /\ given' = given + 1 /\ Got' = Got
  BY GotType DEF GotTyped, TypeInv, StreamInv, CopyChunk, loopvars, readvars, Got
<1>2. m \in Messages /\ m.t = "DATA" /\ m.d = given + 1
  BY <1>1, MessageTypes
<1>3. CliWritten(m)
  BY <1>1 DEF CopyChunk
<1> HIDE DEF m
<1>4. /\ UNCHANGED <<cliClosed, svrClosed, down>>
      /\ c2s' = IF Open THEN Append(c2s, m) ELSE c2s
  BY <1>3 DEF CliWritten, CliWriteFails, Open
<1>5. CASE Open
  <2>1. /\ Continues(c2s, Len(Got)) /\ Bounded(c2s)
        /\ \A v \in Len(Got) + 1 .. given : Carries(c2s, v)
    BY <1>5 DEF Open, StreamInv
  <2>2. Continues(c2s', Len(Got))
    BY <1>1, <1>2, <1>4, <1>5, <2>1, ContinuesAppend DEF Bounded
  <2>3. \A v : Carries(c2s', v) <=> Carries(c2s, v) \/ v = given + 1
    BY <1>1, <1>2, <1>4, <1>5, CarriesAppend
  <2>4. \A v \in Len(Got) + 1 .. given' : Carries(c2s', v)
    BY <1>1, <2>1, <2>3
  <2>5. Bounded(c2s)'
    <3> SUFFICES ASSUME NEW n \in 1 .. Len(c2s'), c2s'[n].t = "DATA"
                 PROVE  c2s'[n].d <= given'
      BY DEF Bounded
    <3>1. CASE n \in 1 .. Len(c2s)
      <4>1. c2s'[n] = c2s[n] /\ c2s[n] \in Messages
        BY <1>1, <1>2, <1>4, <1>5, <3>1, AppendFacts
      <4>2. c2s[n].d <= given /\ c2s[n].d \in Nat
        BY <2>1, <3>1, <4>1 DEF Bounded, Messages
      <4> QED
        BY <1>1, <4>1, <4>2
    <3>2. CASE n = Len(c2s) + 1
      BY <1>1, <1>2, <1>4, <1>5, <3>2, AppendFacts
    <3> QED
      BY <1>1, <1>2, <1>4, <1>5, <3>1, <3>2, AppendFacts
  <2> QED
    BY <1>1, <2>2, <2>4, <2>5 DEF StreamInv
<1>6. CASE ~Open
  <2>1. c2s' = c2s
    BY <1>4, <1>6
  <2>2. Bounded(c2s) => Bounded(c2s)'
    <3>1. \A n \in 1 .. Len(c2s) : c2s[n].d \in Nat
      <4> SUFFICES ASSUME NEW n \in 1 .. Len(c2s) PROVE c2s[n].d \in Nat
        OBVIOUS
      <4>1. c2s[n] \in Messages
        BY <1>1
      <4> QED
        BY <4>1 DEF Messages
    <3> QED
      BY <1>1, <2>1, <3>1 DEF Bounded
  <2>3. Len(Got) <= given'
    BY <1>1
  <2> QED
    BY <1>1, <1>4, <1>6, <2>1, <2>2, <2>3 DEF StreamInv, Open
<1> QED
  BY <1>5, <1>6

\* The server takes a message.
LEMMA StreamReceive ==
  ASSUME TypeInv, StreamInv, SvrReceive
  PROVE  StreamInv'
<1> DEFINE k == Len(Got)
           h == Head(c2s)
<1>1. /\ c2s \in Seq(Messages) /\ c2s # <<>> /\ given \in Nat /\ k \in Nat
      /\ delivered \in Seq(Nat) /\ dataBuf \in Seq(Nat) /\ Got \in Seq(Nat)
      /\ c2s' = Tail(c2s) /\ ~down /\ ~svrClosed
      /\ UNCHANGED <<given, delivered, cliClosed, svrClosed, down>>
  BY GotType DEF GotTyped, TypeInv, SvrReceive, SvrReadFails, clivars, readvars
<1>2. /\ Continues(c2s, k) /\ Bounded(c2s)
      /\ ~cliClosed => \A v \in k + 1 .. given : Carries(c2s, v)
      /\ \A n \in 1 .. k : Got[n] = n
      /\ k <= given
  BY <1>1 DEF StreamInv
<1>3. /\ \A v : Carries(c2s, v) <=> Carries(c2s', v) \/ (h.t = "DATA" /\ h.d = v)
      /\ h.t # "DATA" => Continues(c2s', k)
      /\ h.t = "DATA" => h.d = k + 1 /\ Continues(c2s', k + 1)
  BY <1>1, <1>2, CarriesTail, ContinuesTail
<1>4. Bounded(c2s)' /\ (h.t = "DATA" => h.d <= given)
  BY <1>1, <1>2, TailFacts DEF Bounded
<1>5. CASE h.t = "DATA"
  <2>1. dataBuf' = Append(dataBuf, k + 1)
    BY <1>3, <1>5 DEF SvrReceive
  <2>2. Got' = Append(Got, k + 1)
    BY <1>1, <2>1, SMTT(40) DEF Got
  <2> HIDE DEF k, h
  <2>3. /\ Len(Got') = k + 1 /\ k + 1 <= given
        /\ \A n \in 1 .. k + 1 : Got'[n] = n
    BY <1>1, <1>2, <1>3, <1>4, <1>5, <2>2, SMTT(40) DEF k
  <2>4. ~cliClosed => \A v \in (k + 1) + 1 .. given : Carries(c2s', v)
    BY <1>1, <1>2, <1>3, <1>5
  <2> QED
    BY <1>1, <1>3, <1>4, <1>5, <2>3, <2>4 DEF StreamInv
<1>6. CASE h.t # "DATA"
  <2>1. Got' = Got
    <3>1. dataBuf' = dataBuf
      BY <1>6 DEF SvrReceive
    <3> QED
      BY <1>1, <3>1 DEF Got
  <2> QED
    BY <1>1, <1>2, <1>3, <1>4, <1>6, <2>1 DEF StreamInv
<1> QED
  BY <1>5, <1>6

\* The server takes what the client says first; the client says it once.
LEMMA StreamInit ==
  ASSUME TypeInv, StreamInv, SvrInit
  PROVE  StreamInv'
<1>1. /\ UNCHANGED <<given, delivered, dataBuf, cliClosed, down>> /\ Got' = Got
      /\ svrClosed => svrClosed'
  BY DEF SvrInit, clivars, readvars, Got
<1>2. CASE down' \/ svrClosed'
  BY <1>1, <1>2 DEF StreamInv
<1>3. CASE ~down' /\ ~svrClosed'
  <2>1. /\ ~down /\ ~svrClosed
        /\ c2s # <<>> /\ c2s' = Tail(c2s) /\ Head(c2s).t \in {"ISTTY", "WIDTH"}
    BY <1>1, <1>3 DEF SvrInit
  <2>2. /\ c2s \in Seq(Messages) /\ Len(Got) \in Nat
        /\ Continues(c2s, Len(Got)) /\ Bounded(c2s)
        /\ ~cliClosed => \A v \in Len(Got) + 1 .. given : Carries(c2s, v)
    BY <2>1, GotType DEF GotTyped, TypeInv, StreamInv
  <2>3. /\ Continues(c2s', Len(Got))
        /\ \A v : Carries(c2s, v) <=> Carries(c2s', v)
    BY <2>1, <2>2, CarriesTail, ContinuesTail
  <2>4. Bounded(c2s)'
    BY <1>1, <2>1, <2>2, TailFacts DEF Bounded
  <2> QED
    BY <1>1, <2>1, <2>2, <2>3, <2>4 DEF StreamInv
<1> QED
  BY <1>2, <1>3

LEMMA StreamStep ==
  ASSUME TypeInv, StreamInv, [Next]_vars
  PROVE  StreamInv'
<1>0. CutStays
  BY CutForGood
<1>1. CASE Break
  BY <1>1 DEF Break, StreamInv, clivars, loopvars, readvars, Got
<1>2. CASE reportIsTerminal \/ reportWidth
  <2>1. UNCHANGED <<given, delivered, dataBuf>>
    BY <1>2 DEF reportIsTerminal, reportWidth, Dialed, loopvars, readvars
  <2>2. PICK m \in {Message("ISTTY"), Message("WIDTH")} : CliWritten(m) \/ UNCHANGED c2s
    BY <1>2 DEF reportIsTerminal, reportWidth, Leave
  <2>3. m \in Messages /\ m.t # "DATA"
    BY MessageTypes DEF Tags
  <2>4. c2s' = c2s \/ (Open /\ c2s' = Append(c2s, m))
    BY <2>2, <2>3 DEF CliWritten, CliWriteFails, Open
  <2> QED
    BY <1>0, <2>1, <2>3, <2>4, StreamAppend DEF Got
<1>3. CASE WidthChanged \/ CliClose
  <2>1. UNCHANGED <<given, delivered, dataBuf>>
    BY <1>3 DEF WidthChanged, CliClose, loopvars, readvars
  <2>2. PICK m \in {Message("EOF"), Message("WIDTH")} : CliWritten(m)
    BY <1>3 DEF WidthChanged, CliClose
  <2>3. m \in Messages /\ m.t # "DATA"
    BY MessageTypes DEF Tags
  <2>4. c2s' = c2s \/ (Open /\ c2s' = Append(c2s, m))
    BY <2>2, <2>3 DEF CliWritten, CliWriteFails, Open
  <2> QED
    BY <1>0, <2>1, <2>3, <2>4, StreamAppend DEF Got
<1>4. CASE CopyChunk
  BY <1>4, StreamCopy
<1>5. CASE CopyEnds \/ ClientReads
  <2>1. UNCHANGED <<c2s, given, delivered, dataBuf>>
    BY <1>5 DEF CopyEnds, ClientReads, CliReceive, CliReadEnds, CliExit, Leave, connvars,
       loopvars, readvars
  <2> QED
    BY <1>0, <2>1, StreamFrame DEF Got
<1>6. CASE SvrInit
  BY <1>6, StreamInit
<1>7. CASE SvrReceive
  BY <1>7, StreamReceive
<1>8. CASE SvrWake \/ SvrReadEnds
  <2>1. UNCHANGED <<c2s, given, delivered, dataBuf>>
    BY <1>8, SvrCloseFacts DEF SvrWake, SvrReadEnds, connvars, clivars, readvars
  <2> QED
    BY <1>0, <2>1, StreamFrame DEF Got
<1>9. CASE ServerWrites
  <2>1. UNCHANGED <<c2s, given, delivered, dataBuf>>
    BY <1>9, SvrCloseFacts DEF ServerWrites, WriteMessage, Reply, WriteLoopEnds, connvars,
       clivars, loopvars, readvars
  <2> QED
    BY <1>0, <2>1, StreamFrame DEF Got
<1>10. CASE Reads
  BY <1>0, <1>10, ReadsFacts, StreamFrame DEF connvars, clivars
<1>11. CASE ShellWrites \/ EditorWrites \/ ShellReturns
  <2>1. UNCHANGED <<c2s, given, delivered, dataBuf>>
    BY <1>11, SvrCloseFacts DEF ShellWrites, EditorWrites, ShellReturns, Call, connvars,
       clivars, loopvars, readvars
  <2> QED
    BY <1>0, <2>1, StreamFrame DEF Got
<1>12. CASE UNCHANGED vars
  BY <1>0, <1>12, StreamFrame DEF vars, connvars, clivars, loopvars, readvars, Got
<1> QED
  BY <1>1, <1>2, <1>3, <1>4, <1>5, <1>6, <1>7, <1>8, <1>9, <1>10, <1>11, <1>12
  DEF Next, ServerReads

-----------------------------------------------------------------------------
(* The end of the input.                                                   *)

HasEOF(s) == \E n \in 1 .. Len(s) : s[n].t = "EOF"

LEMMA EndMessages ==
  ASSUME NEW s \in Seq(Messages)
  PROVE  /\ \A x \in Messages : HasEOF(Append(s, x)) <=> HasEOF(s) \/ x.t = "EOF"
         /\ s # <<>> => /\ HasEOF(Tail(s)) => HasEOF(s)
                        /\ Head(s).t = "EOF" => HasEOF(s)
<1>1. ASSUME NEW x \in Messages
      PROVE  HasEOF(Append(s, x)) <=> HasEOF(s) \/ x.t = "EOF"
  BY AppendFacts DEF HasEOF
<1>2. ASSUME s # <<>>
      PROVE  (HasEOF(Tail(s)) => HasEOF(s)) /\ (Head(s).t = "EOF" => HasEOF(s))
  <2>1. \A n \in 1 .. Len(Tail(s)) : n + 1 \in 1 .. Len(s) /\ Tail(s)[n] = s[n + 1]
    BY <1>2, TailFacts
  <2>2. Head(s) = s[1] /\ 1 \in 1 .. Len(s)
    BY <1>2, TailFacts
  <2> QED
    BY <2>1, <2>2 DEF HasEOF
<1> QED
  BY <1>1, <1>2

\* The client's half: its goroutine is started once, and ends before it tells.
LEMMA EndClient ==
  ASSUME TypeInv, EndInv,
         \/ Break \/ reportIsTerminal \/ reportWidth \/ WidthChanged
         \/ CopyChunk \/ CopyEnds \/ CliClose \/ ClientReads
  PROVE  EndInv'
<1> USE DEF clivars, loopvars, readvars, connvars
<1>0. /\ c2s \in Seq(Messages) /\ given \in Nat
      /\ Message("ISTTY") \in Messages /\ Message("ISTTY").t = "ISTTY"
      /\ Message("WIDTH") \in Messages /\ Message("WIDTH").t = "WIDTH"
      /\ Message("EOF") \in Messages /\ Message("EOF").t = "EOF"
      /\ \A d \in Nat : DataMessage(d) \in Messages /\ DataMessage(d).t = "DATA"
  BY MessageTypes DEF TypeInv, Tags
<1>1. UNCHANGED <<dataBuf, eof, readLoop, reader, delivered>> /\ Got' = Got
  BY DEF Break, reportIsTerminal, reportWidth, WidthChanged, CopyChunk, CopyEnds, CliClose,
     ClientReads, CliReceive, CliReadEnds, CliExit, Dialed, Got
<1>2. /\ cli \in {"istty", "width"} => copier = "off"
      /\ eof \/ HasEOF(c2s) => copier = "done"
      /\ reader = "eof" => delivered # <<>> \/ copier = "done"
  BY DEF EndInv, HasEOF
<1>3. /\ cli' \in {"istty", "width"} => copier' = "off"
      /\ copier = "done" => copier' = "done"
  BY <1>2 DEF Break, reportIsTerminal, reportWidth, WidthChanged, CopyChunk, CopyEnds,
     CliClose, ClientReads, CliReceive, CliReadEnds, CliExit
<1>4. HasEOF(c2s') => HasEOF(c2s) \/ copier' = "done"
  <2>1. CASE Break
    BY <2>1 DEF Break, HasEOF
  <2>2. CASE CopyEnds \/ ClientReads
    <3>1. c2s' = c2s
      BY <2>2 DEF CopyEnds, ClientReads, CliReceive, CliReadEnds, CliExit, Leave
    <3> QED
      BY <3>1
  <2>3. CASE reportIsTerminal \/ reportWidth \/ WidthChanged \/ CopyChunk
    <3>1. PICK m \in Messages : m.t # "EOF" /\ (c2s' = c2s \/ c2s' = Append(c2s, m))
      BY <1>0, <2>3 DEF reportIsTerminal, reportWidth, WidthChanged, CopyChunk, CliWritten, Leave
    <3>2. \A x \in Messages : HasEOF(Append(c2s, x)) <=> HasEOF(c2s) \/ x.t = "EOF"
      BY <1>0, EndMessages
    <3>3. HasEOF(Append(c2s, m)) <=> HasEOF(c2s)
      BY <3>1, <3>2
    <3> QED
      BY <3>1, <3>3
  <2>4. CASE CliClose
    BY <2>4 DEF CliClose
  <2> QED
    BY <2>1, <2>2, <2>3, <2>4
<1> QED
  BY <1>1, <1>2, <1>3, <1>4 DEF EndInv, HasEOF

\* The server's half.
LEMMA EndServer ==
  ASSUME TypeInv, EndInv,
         SvrInit \/ ServerReads \/ ServerWrites \/ ShellWrites \/ EditorWrites \/ ShellReturns
  PROVE  EndInv'
<1> USE DEF clivars, readvars, connvars, loopvars
<1>0. c2s \in Seq(Messages) /\ delivered \in Seq(Nat) /\ dataBuf \in Seq(Nat)
  BY DEF TypeInv
<1>1. UNCHANGED <<cli, copier, delivered>>
  BY DEF SvrInit, ServerReads, SvrReceive, SvrWake, SvrReadEnds, ServerWrites, WriteMessage,
     Reply, WriteLoopEnds, ShellWrites, EditorWrites, ShellReturns, Call
<1>2. HasEOF(c2s') => HasEOF(c2s)
  <2>1. c2s' = c2s \/ (c2s # <<>> /\ c2s' = Tail(c2s))
    BY SvrCloseFacts DEF SvrInit, ServerReads, SvrReceive, SvrWake, SvrReadEnds, ServerWrites,
       WriteMessage, Reply, WriteLoopEnds, ShellWrites, EditorWrites, ShellReturns, Call
  <2> QED
    BY <1>0, <2>1, EndMessages
<1>3. /\ cli \in {"istty", "width"} => copier = "off"
      /\ eof \/ HasEOF(c2s) => copier = "done"
  BY DEF EndInv, HasEOF
<1>4. CASE SvrReceive
  <2>1. UNCHANGED reader
    BY <1>4 DEF SvrReceive
  <2>2. CASE Head(c2s).t = "EOF"
    <3>1. copier = "done" /\ eof' = TRUE
      BY <1>0, <1>3, <1>4, <2>2, EndMessages DEF SvrReceive
    <3> QED
      BY <1>1, <2>1, <3>1 DEF EndInv
  <2>3. CASE Head(c2s).t = "DATA"
    <3>1. dataBuf' = Append(dataBuf, Head(c2s).d) /\ eof' = eof
      BY <1>4, <2>3 DEF SvrReceive
    <3>2. Head(c2s).d \in Nat
      BY <1>0, <1>4, TailFacts DEF SvrReceive, Messages
    <3>3. dataBuf' \in Seq(Nat) /\ dataBuf' # <<>>
      BY <1>0, <3>1, <3>2
    <3>4. Got' # <<>>
      BY <1>0, <1>1, <3>3, ConcatEqualIffEmpty DEF Got
    <3> QED
      BY <1>1, <1>2, <1>3, <2>1, <3>1, <3>4 DEF EndInv, HasEOF
  <2>4. CASE Head(c2s).t \notin {"EOF", "DATA"}
    <3>1. UNCHANGED <<dataBuf, eof, readLoop>>
      BY <1>4, <2>4 DEF SvrReceive
    <3> QED
      BY <1>1, <1>2, <1>3, <2>1, <3>1 DEF EndInv, HasEOF, Got
  <2> QED
    BY <2>2, <2>3, <2>4
<1>5. CASE SvrWake
  BY <1>1, <1>2, <1>3, <1>5 DEF SvrWake, EndInv, HasEOF, Got
<1>6. CASE ~SvrReceive /\ ~SvrWake
  <2>1. UNCHANGED <<dataBuf, eof, reader>> /\ (readLoop' = "wake" => readLoop = "wake")
    BY <1>6 DEF SvrInit, ServerReads, SvrReadEnds, ServerWrites, WriteMessage, Reply,
       WriteLoopEnds, ShellWrites, EditorWrites, ShellReturns, Call
  <2> QED
    BY <1>1, <1>2, <1>3, <2>1 DEF EndInv, HasEOF, Got
<1> QED
  BY <1>4, <1>5, <1>6

\* Read: an end is reported after data, or after the end has been seen.
LEMMA EndReads ==
  ASSUME TypeInv, EndInv, Reads
  PROVE  EndInv'
<1>1. UNCHANGED <<c2s, cli, copier, eof, readLoop>> /\ Got' = Got
  BY ReadsFacts DEF connvars, clivars
<1>2. delivered \in Seq(Nat) /\ (dataBuf = <<>> => Got = delivered)
  BY ConcatEmptySeq DEF TypeInv, Got
<1>3. CASE TakeData
  BY <1>1, <1>3, TakeFacts DEF EndInv
<1>4. CASE ~TakeData
  <2>1. UNCHANGED delivered
    BY <1>4 DEF Reads, ReadFirst, CheckEOF, WaitForSignal, ReadAgain, CheckEOFAgain
  <2>2. \/ reader' \in {"check", "go", "wait"}
        \/ reader' = "eof" /\ (eof \/ delivered # <<>>)
        \/ reader' = "check again" /\ (eof \/ delivered # <<>>)
    BY <1>2, <1>4 DEF Reads, ReadFirst, CheckEOF, WaitForSignal, ReadAgain, CheckEOFAgain, EndInv
  <2> QED
    BY <1>1, <2>1, <2>2 DEF EndInv
<1> QED
  BY <1>3, <1>4

LEMMA EndStep ==
  ASSUME TypeInv, EndInv, [Next]_vars
  PROVE  EndInv'
<1>1. CASE UNCHANGED vars
  BY <1>1 DEF vars, connvars, clivars, loopvars, readvars, EndInv, Got
<1> QED
  BY <1>1, EndClient, EndServer, EndReads DEF Next

-----------------------------------------------------------------------------
(* The terminal of the client.                                             *)

OutInv == WriterInv /\ TerminalInv

LEMMA NothingOnItsWay ==
  Alternate(<<>>) /\ ExitFirst(<<>>) /\ ExitLast(<<>>)
BY DEF Alternate, ExitFirst, ExitLast

LEMMA OpenBefore == CutStays /\ Open' => Open
BY DEF CutStays, Open

\* A step that says nothing to the client.
LEMMA OutFrame ==
  ASSUME OutInv, CutStays,
         UNCHANGED <<wpc, wmsg, serving, shell, term, saved>>,
         writeLoop' = "reply" => writeLoop = "reply",
         s2c' = s2c \/ (s2c' = <<>> /\ ~Open'),
         cli' \in {"istty", "width", "gone"} => cli \in {"istty", "width", "gone"}
  PROVE  OutInv'
<1>1. WriterInv'
  <2>1. Open' => Open /\ s2c' = s2c
    BY OpenBefore
  <2> QED
    BY <2>1 DEF OutInv, WriterInv, Pending, Settled, CutStays
<1>2. TerminalInv'
  BY NothingOnItsWay DEF OutInv, TerminalInv
<1> QED
  BY <1>1, <1>2 DEF OutInv

\* The client obeys.
LEMMA OutReceive ==
  ASSUME TypeInv, OutInv, CliReceive
  PROVE  OutInv'
<1>1. /\ s2c \in Seq(Messages) /\ s2c # <<>> /\ s2c' = Tail(s2c)
      /\ cli = "serve" /\ cli' = "serve"
      /\ UNCHANGED <<writeLoop, wpc, wmsg, serving, shell, cliClosed, svrClosed, down>>
  BY DEF TypeInv, CliReceive, writevars
<1>2. /\ Alternate(s2c) /\ saved # "raw" /\ term \in {"cooked", "raw"}
      /\ term = "raw" => ExitFirst(s2c) /\ saved = "cooked"
  BY DEF OutInv, TerminalInv, TypeInv
<1>3. CASE Head(s2c).t = "RAW"
  <2>1. term = "cooked" /\ term' = "raw" /\ saved' = "cooked"
    BY <1>1, <1>2, <1>3, RawTail DEF CliReceive, RawEnter
  <2>2. Alternate(s2c') /\ ExitFirst(s2c')
    BY <1>1, <1>2, <1>3, RawTail
  <2>3. Settled => Settled'
    BY <1>1, <1>2, <1>3, RawTail DEF Settled
  <2> QED
    BY <1>1, <2>1, <2>2, <2>3 DEF OutInv, WriterInv, TerminalInv, Pending, Open
<1>4. CASE Head(s2c).t = "ERAW"
  <2>1. term' = "cooked" /\ saved' = saved
    BY <1>2, <1>4 DEF CliReceive, RawExit, TypeInv
  <2>2. Alternate(s2c')
    BY <1>1, <1>2, RawTail
  <2>3. Settled => Settled'
    BY <1>1, <1>2, <2>1, RawTail DEF Settled
  <2> QED
    BY <1>1, <1>2, <2>1, <2>2, <2>3 DEF OutInv, WriterInv, TerminalInv, Pending, Open
<1>5. CASE Head(s2c).t \notin {"RAW", "ERAW"}
  <2>1. UNCHANGED <<term, saved>>
    BY <1>5 DEF CliReceive
  <2>2. Alternate(s2c') /\ (term = "raw" => ExitFirst(s2c'))
    BY <1>1, <1>2, <1>5, RawTail
  <2>3. Settled => Settled'
    BY <1>1, <1>2, <1>5, <2>1, RawTail DEF Settled
  <2> QED
    BY <1>1, <1>2, <2>1, <2>2, <2>3 DEF OutInv, WriterInv, TerminalInv, Pending, Open
<1> QED
  BY <1>3, <1>4, <1>5

\* The client gives its terminal back.
LEMMA OutExit ==
  ASSUME TypeInv, OutInv, CliExit
  PROVE  OutInv'
<1>1. /\ UNCHANGED <<writeLoop, wpc, wmsg, serving, shell, s2c, saved, svrClosed>>
      /\ cliClosed' = TRUE
  BY DEF CliExit, Leave, RawExit, writevars
<1>2. term' = "cooked"
  BY DEF CliExit, RawExit, OutInv, TerminalInv, TypeInv
<1> QED
  BY <1>1, <1>2 DEF OutInv, WriterInv, TerminalInv, Pending, Open

\* The writeLoop puts a message on its way.
LEMMA OutWrite ==
  ASSUME TypeInv, OutInv, NEW w \in Writers, WriteMessage(w)
  PROVE  OutInv'
<1> DEFINE m == wmsg[w]
<1>1. /\ s2c \in Seq(Messages) /\ m \in Messages
      /\ wpc \in [Writers -> {"idle", "send", "reply"}]
      /\ "shell" \in Writers /\ "editor" \in Writers
      /\ wpc[w] = "send" /\ wpc' = [wpc EXCEPT ![w] = "reply"]
      /\ writeLoop' = "reply" /\ serving' = w
      /\ UNCHANGED <<wmsg, shell, term, saved, cli, cliClosed, svrClosed, down>>
      /\ s2c' = IF Open THEN Append(s2c, m) ELSE s2c
  BY DEF TypeInv, WriteMessage, Writers, clivars, Open
<1>2. Open' = Open
  BY <1>1 DEF Open
<1>3. /\ wpc'["shell"] = IF w = "shell" THEN "reply" ELSE wpc["shell"]
      /\ wpc'["editor"] = IF w = "editor" THEN "reply" ELSE wpc["editor"]
      /\ wpc'[serving'] = "reply"
  BY <1>1
<1>4. w \in {"shell", "editor"} /\ Alternate(s2c)
  BY DEF Writers, OutInv, TerminalInv
<1>5. Open /\ m.t = "RAW" => Settled
  <2>1. CASE w = "editor"
    BY <1>1, <2>1 DEF OutInv, WriterInv
  <2>2. CASE w = "shell"
    BY <1>1, <2>2 DEF OutInv, WriterInv, Pending, Open
  <2> QED
    BY <1>4, <2>1, <2>2
<1>6. /\ Alternate(s2c')
      /\ term = "raw" /\ ExitFirst(s2c) => ExitFirst(s2c')
      /\ Open /\ m.t = "DATA" /\ Settled => Settled'
      /\ Open /\ m.t = "ERAW" => Settled'
  <2>1. CASE Open
    <3> HIDE DEF m
    <3>1. /\ s2c' = Append(s2c, m) /\ term' = term
          /\ m.t = "RAW" => ExitLast(s2c) /\ (term = "raw" => HasExit(s2c))
      BY <1>1, <1>5, <2>1 DEF Settled
    <3> QED
      BY <1>1, <1>4, <3>1, RawAppend DEF Settled
  <2>2. CASE ~Open
    BY <1>1, <1>4, <2>2
  <2> QED
    BY <2>1, <2>2
<1>7. TerminalInv'
  BY <1>1, <1>6 DEF OutInv, TerminalInv
<1>8. CASE w = "shell"
  <2>1. /\ shell = "prompt" => m.t = "DATA" /\ (Open => Settled)
        /\ shell = "line" => m.t = "RAW"
        /\ shell = "run" => m.t = "ERAW"
        /\ shell = "gone" => svrClosed
        /\ shell \in {"prompt", "line", "run", "gone"}
    BY <1>1, <1>8 DEF OutInv, WriterInv, Pending
  <2>2. wpc'["editor"] = "send" => wmsg'["editor"].t = "DATA"
    BY <1>1, <1>3, <1>8 DEF OutInv, WriterInv
  <2> QED
    BY <1>1, <1>2, <1>3, <1>6, <1>7, <1>8, <2>1, <2>2 DEF OutInv, WriterInv, Pending
<1>9. CASE w = "editor"
  <2>1. m.t = "DATA"
    BY <1>1, <1>9 DEF OutInv, WriterInv
  <2>2. Open /\ Settled => Settled'
    BY <1>6, <2>1
  <2> QED
    BY <1>1, <1>2, <1>3, <1>7, <1>9, <2>2 DEF OutInv, WriterInv, Pending
<1> QED
  BY <1>4, <1>8, <1>9

\* The writer has its answer.
LEMMA OutReply ==
  ASSUME TypeInv, OutInv, Reply
  PROVE  OutInv'
<1>1. /\ wpc \in [Writers -> {"idle", "send", "reply"}] /\ serving \in Writers
      /\ "shell" \in Writers /\ "editor" \in Writers
      /\ wpc' = [wpc EXCEPT ![serving] = "idle"] /\ wpc[serving] = "reply"
      /\ writeLoop' = "select"
      /\ UNCHANGED <<s2c, wmsg, shell, term, saved, cli, cliClosed, svrClosed, down>>
  BY DEF TypeInv, Reply, OutInv, WriterInv, Writers, connvars, clivars
<1>2. /\ wpc'["shell"] = "send" <=> wpc["shell"] = "send"
      /\ wpc'["editor"] = "send" <=> wpc["editor"] = "send"
  BY <1>1
<1> QED
  BY <1>1, <1>2 DEF OutInv, WriterInv, TerminalInv, Pending, Settled, Open

\* The shell enters and leaves raw mode in turn, for each line it reads.
LEMMA OutCall ==
  ASSUME TypeInv, OutInv, ShellWrites \/ EditorWrites
  PROVE  OutInv'
<1>1. /\ wpc \in [Writers -> {"idle", "send", "reply"}] /\ wmsg \in [Writers -> Messages]
      /\ "shell" \in Writers /\ "editor" \in Writers
      /\ DataMessage(0).t = "DATA" /\ Message("RAW").t = "RAW" /\ Message("ERAW").t = "ERAW"
  BY MessageTypes DEF TypeInv, Writers, Tags
<1>2. CASE EditorWrites
  <2>1. /\ wpc["editor"] = "idle" /\ wpc' = [wpc EXCEPT !["editor"] = "send"]
        /\ wmsg' = [wmsg EXCEPT !["editor"] = DataMessage(0)]
        /\ UNCHANGED <<s2c, term, saved, cli, cliClosed, svrClosed, down, writeLoop, serving,
                       shell>>
    BY <1>2 DEF EditorWrites, Call, connvars, clivars
  <2>2. /\ wpc'["shell"] = wpc["shell"] /\ wmsg'["shell"] = wmsg["shell"]
        /\ wmsg'["editor"].t = "DATA"
        /\ \A w \in Writers : wpc[w] = "reply" => wpc'[w] = "reply"
    BY <1>1, <2>1
  <2> QED
    BY <2>1, <2>2 DEF OutInv, WriterInv, TerminalInv, Pending, Settled, Open, TypeInv
<1>3. CASE ShellWrites
  <2>1. PICK m \in Messages :
          /\ wpc["shell"] = "idle" /\ wpc' = [wpc EXCEPT !["shell"] = "send"]
          /\ wmsg' = [wmsg EXCEPT !["shell"] = m]
          /\ \/ shell = "prompt" /\ shell' = "line" /\ m.t = "RAW"
             \/ shell = "line" /\ shell' = "run" /\ m.t = "ERAW"
             \/ shell = "run" /\ shell' = "prompt" /\ m.t = "DATA"
          /\ UNCHANGED <<s2c, term, saved, cli, cliClosed, svrClosed, down, writeLoop, serving>>
    BY <1>1, <1>3, MessageTypes DEF ShellWrites, Call, connvars, clivars, Tags
  <2>2. /\ wpc'["editor"] = wpc["editor"] /\ wmsg'["editor"] = wmsg["editor"]
        /\ wmsg'["shell"] = m /\ wpc'["shell"] = "send"
        /\ \A w \in Writers : wpc[w] = "reply" => wpc'[w] = "reply"
    BY <1>1, <2>1
  <2> QED
    BY <2>1, <2>2 DEF OutInv, WriterInv, TerminalInv, Pending, Settled, Open, TypeInv
<1> QED
  BY <1>2, <1>3

LEMMA OutStep ==
  ASSUME TypeInv, OutInv, [Next]_vars
  PROVE  OutInv'
<1> USE DEF connvars, clivars, loopvars, readvars, writevars
<1>0. CutStays
  BY CutForGood
<1>1. CASE Break
  BY <1>0, <1>1, OutFrame DEF Break, Open
<1>2. CASE reportIsTerminal \/ reportWidth \/ WidthChanged \/ CopyChunk \/ CopyEnds \/ CliClose
  <2>1. /\ UNCHANGED <<s2c, writeLoop, wpc, wmsg, serving, shell, term, saved>>
        /\ cli' \in {"istty", "width", "gone"} => cli \in {"istty", "width", "gone"}
    BY <1>2 DEF reportIsTerminal, reportWidth, WidthChanged, CopyChunk, CopyEnds, CliClose,
       CliWritten, Leave, Dialed
  <2> QED
    BY <1>0, <2>1, OutFrame
<1>3. CASE CliReceive
  BY <1>3, OutReceive
<1>4. CASE CliReadEnds
  BY <1>0, <1>4, OutFrame DEF CliReadEnds
<1>5. CASE CliExit
  BY <1>5, OutExit
<1>6. CASE SvrInit
  <2>1. /\ UNCHANGED <<s2c, wpc, wmsg, serving, shell, term, saved, cli>>
        /\ writeLoop' = "select" \/ writeLoop' = writeLoop
    BY <1>6 DEF SvrInit
  <2> QED
    BY <1>0, <2>1, OutFrame
<1>7. CASE SvrReceive \/ SvrWake
  BY <1>0, <1>7, OutFrame DEF SvrReceive, SvrWake
<1>8. CASE SvrReadEnds
  BY <1>0, <1>8, OutFrame, SvrCloseFacts DEF SvrReadEnds, Open
<1>9. CASE \E w \in Writers : WriteMessage(w)
  BY <1>9, OutWrite
<1>10. CASE Reply
  BY <1>10, OutReply
<1>11. CASE WriteLoopEnds
  <2>1. /\ stop /\ UNCHANGED connvars /\ writeLoop = "select" /\ writeLoop' = "gone"
    BY <1>11 DEF WriteLoopEnds, SvrClose
  <2> QED
    BY <1>11, <2>1 DEF WriteLoopEnds, OutInv, WriterInv, TerminalInv, Pending, Settled, Open
<1>12. CASE Reads
  BY <1>0, <1>12, ReadsFacts, OutFrame
<1>13. CASE ShellWrites \/ EditorWrites
  BY <1>13, OutCall
<1>14. CASE ShellReturns
  <2>1. /\ svrClosed' = TRUE /\ shell' = "gone" /\ (s2c' = s2c \/ s2c' = <<>>)
        /\ UNCHANGED <<writeLoop, wpc, wmsg, serving, term, saved, cli>>
    BY <1>14 DEF ShellReturns, CloseServer
  <2> QED
    BY <2>1, NothingOnItsWay DEF OutInv, WriterInv, TerminalInv
<1>15. CASE UNCHANGED vars
  BY <1>0, <1>15, OutFrame DEF vars
<1> QED
  BY <1>1, <1>2, <1>3, <1>4, <1>5, <1>6, <1>7, <1>8, <1>9, <1>10, <1>11, <1>12, <1>13,
     <1>14, <1>15 DEF Next, ClientReads, ServerReads, ServerWrites

-----------------------------------------------------------------------------
LEMMA InitIInv == Init => IInv
<1> SUFFICES ASSUME Init PROVE IInv
  OBVIOUS
<1>1. Got = <<>>
  BY DEF Init, Got
<1>2. StreamInv
  BY <1>1 DEF Init, StreamInv, Continues, Bounded
<1>3. EndInv
  BY <1>1 DEF Init, EndInv
<1>4. wpc["shell"] = "idle" /\ wpc["editor"] = "idle"
  BY DEF Init, Writers
<1>5. WriterInv /\ TerminalInv
  BY <1>4, NothingOnItsWay DEF Init, WriterInv, TerminalInv, Pending, Settled
<1> QED
  BY <1>2, <1>3, <1>5, InitTypeInv DEF IInv

LEMMA NextIInv == IInv /\ [Next]_vars => IInv'
BY TypeStep, StreamStep, EndStep, OutStep DEF IInv, OutInv

LEMMA Inductive == Spec => []IInv
BY InitIInv, NextIInv, PTL DEF Spec

\* What the shell has read and what RemoteSvr holds for it is what was typed
\* first, without a gap and in order, however the connection is cut; the first
\* thing it reads is an end only when the client has reported one.
THEOREM TypedStreamArrives == Spec => []StreamArrives
<1>1. IInv => StreamArrives
  <2> SUFFICES ASSUME IInv PROVE StreamArrives
    OBVIOUS
  <2>1. Got \in Seq(Nat) /\ Len(Got) \in Nat
    BY GotType DEF GotTyped, IInv
  <2>2. Got = [n \in 1 .. Len(Got) |-> n]
    BY <2>1 DEF IInv, StreamInv
  <2> QED
    BY <2>2 DEF IInv, StreamInv, EndInv, StreamArrives, Got
<1> QED
  BY <1>1, Inductive, PTL

\* RawMode remembers the state it finds; the messages keep RAW and ERAW in turn,
\* so that is never a raw one, and the client leaves its terminal cooked.
THEOREM TerminalIsGivenBack == Spec => []TerminalGivenBack
<1>1. IInv => TerminalGivenBack
  BY DEF IInv, TerminalInv, TerminalGivenBack
<1> QED
  BY <1>1, Inductive, PTL
=============================================================================
