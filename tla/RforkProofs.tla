---------------------------- MODULE RforkProofs ----------------------------
(***************************************************************************)
(* Theorems about Rfork, for blocks of every length, statements of every   *)
(* size and every number of dials.  Types and the fate of the child hold   *)
(* for every buffer; what the child executes, and the refinement of        *)
(* RemoteBlock, for a buffer that takes the longest statement.             *)
(***************************************************************************)
EXTENDS Rfork, SequenceTheorems, TLAPS

\* The longest statement fits in the buffer of the child.
Fits == MaxSize <= Buf

\* Where the two processes are with respect to each other.
PhaseInv ==
  /\ pc = "start" => srv = "none"
  /\ pc \in {"start", "dial", "panicked"} =>
       /\ srv \in {"none", "boot", "listen", "exited"}
       /\ requests = <<>> /\ log = <<>>
  /\ ~block => sizes = <<>>
  /\ pc \in {"send", "receive", "quit", "drain", "wait", "gone"} => block
  /\ srv = "none" => pc \in {"start", "returned"}
  /\ pc \in {"send", "receive"} => i <= Len(sizes)
  /\ ret = "none" <=> pc # "returned"

\* The child has executed the first k statements, all of them with success.
Succeeded(k) ==
  /\ Len(log) = k
  /\ \A j \in 1 .. k : log[j].status = "0"

\* Every entry of the log is a statement of the block, the one before the last
\* and all before it succeeded.
LogInv ==
  /\ Len(log) <= Len(sizes)
  /\ \A k \in 1 .. Len(log) :
       /\ log[k].text = Text(k)
       /\ k < Len(log) => log[k].status = "0"

\* What is under way to the child, whoever still waits for the answer.
ChildInv ==
  /\ srv \in {"none", "boot"} => requests = <<>> /\ log = <<>>
  /\ srv \in {"listen", "read"} =>
       \/ requests \in {<<>>, <<Quit>>}
       \/ requests = Text(i) /\ i <= Len(sizes) /\ Succeeded(i - 1)
  /\ srv = "execute" =>
       /\ requests = <<>> /\ i <= Len(sizes)
       /\ chunk = Text(i) /\ Succeeded(i - 1)
  /\ srv = "answer" => requests = <<>>

\* The statement the shell waits for is in one place.
InFlight ==
  \/ /\ requests = Text(i) /\ answers = <<>> /\ Succeeded(i - 1)
     /\ srv \in {"listen", "read", "exited"}
  \/ /\ requests = <<>> /\ answers = <<>> /\ Succeeded(i - 1)
     /\ srv \in {"execute", "exited"}
  \/ /\ requests = <<>> /\ answers = <<>> /\ Len(log) = i
     /\ srv \in {"answer", "exited"}
     /\ srv = "answer" => status = log[i].status
  \/ /\ requests = <<>> /\ Len(log) = i /\ answers = <<log[i].status>>
     /\ srv \in {"read", "exited"}

\* What the shell knows of the child.
ShellInv ==
  /\ pc \in {"start", "dial", "panicked"} =>
       requests = <<>> /\ answers = <<>> /\ log = <<>> /\ ~err
  /\ pc = "send" =>
       /\ requests = <<>> /\ answers = <<>> /\ Succeeded(i - 1) /\ ~err
       /\ srv \in {"listen", "read", "exited"}
  /\ pc = "receive" => InFlight /\ ~err
  /\ pc = "quit" => srv = "exited" \/ (requests = <<>> /\ srv \in {"listen", "read"})
  /\ pc \in {"drain", "wait"} =>
       srv = "exited" \/ (requests = <<Quit>> /\ srv \in {"listen", "read"})
  /\ (pc \in {"quit", "drain", "wait"} /\ ~err) \/ ret = "ok" =>
       Succeeded(Len(sizes))

TypeInv == TypeOK /\ PhaseInv

IInv == TypeInv /\ NoChildLeftBehind /\ LogInv /\ ChildInv /\ ShellInv

-----------------------------------------------------------------------------
(* Facts about blocks and the texts of their statements.                   *)

\* A block is a sequence of at most MaxStatements sizes.
LEMMA BlockFacts ==
  ASSUME NEW b \in Blocks
  PROVE  b \in Seq(1 .. MaxSize) /\ Len(b) \in 0 .. MaxStatements
<1>1. PICK n \in 0 .. MaxStatements : b \in [1 .. n -> 1 .. MaxSize]
  BY DEF Blocks
<1>2. n \in Nat
  BY RforkAssumption
<1>3. b \in Seq(1 .. MaxSize)
  BY <1>1, <1>2, SeqDef
<1>4. Len(b) = n
  <2>1. Len(b) \in Nat /\ DOMAIN b = 1 .. Len(b)
    BY <1>3, LenProperties
  <2>2. DOMAIN b = 1 .. n
    BY <1>1
  <2>3. \A k, m \in Nat : 1 .. k = 1 .. m => k = m
    <3>1. SUFFICES ASSUME NEW k \in Nat, NEW m \in Nat, 1 .. k = 1 .. m, k < m
                   PROVE  FALSE
      OBVIOUS
    <3>2. m \in 1 .. m /\ m \notin 1 .. k
      BY <3>1
    <3> QED
      BY <3>1, <3>2
  <2> QED
    BY <1>2, <2>1, <2>2, <2>3
<1> QED
  BY <1>3, <1>4

\* What is sent without a block is a block of no statements.
LEMMA EmptyBlock == <<>> \in Blocks
<1>1. 0 \in 0 .. MaxStatements /\ 1 .. 0 = {}
  BY RforkAssumption
<1>2. <<>> \in [1 .. 0 -> 1 .. MaxSize]
  BY <1>1
<1> QED
  BY <1>1, <1>2 DEF Blocks

\* The text of a statement is not empty, no longer than MaxSize, and is never
\* taken for quit.
LEMMA TextFacts ==
  ASSUME sizes \in Blocks, NEW k \in 1 .. Len(sizes)
  PROVE  /\ Text(k) \in Seq(Units)
         /\ Len(Text(k)) = sizes[k]
         /\ Len(Text(k)) \in 1 .. MaxSize
         /\ Text(k) # <<>> /\ Text(k) # <<Quit>>
<1>1. sizes[k] \in 1 .. MaxSize /\ Len(sizes) \in 0 .. MaxStatements /\ k \in Units
  BY BlockFacts, RforkAssumption DEF Units
<1>2. sizes[k] \in Nat /\ sizes[k] >= 1
  BY <1>1, RforkAssumption
<1>3. Text(k) \in [1 .. sizes[k] -> Units]
  BY <1>1 DEF Text
<1>4. Text(k) \in Seq(Units) /\ Len(Text(k)) = sizes[k]
  BY <1>2, <1>3
<1>5. Text(k)[1] = k
  BY <1>2 DEF Text
<1>6. Text(k) # <<Quit>>
  BY <1>5 DEF Quit
<1> QED
  BY <1>1, <1>2, <1>4, <1>6

-----------------------------------------------------------------------------
(* Types and phases.                                                       *)

LEMMA InitTypeInv == Init => TypeInv
<1> SUFFICES ASSUME Init PROVE TypeInv
  OBVIOUS
<1>1. sizes \in Blocks /\ Len(sizes) \in 0 .. MaxStatements
  BY BlockFacts, EmptyBlock DEF Init
<1>0. MaxStatements \in Nat /\ MaxTries \in Nat /\ Buf \in Nat \ {0}
  BY RforkAssumption
<1>3. <<>> \in Seq(Units) /\ <<>> \in Seq({"0", "1"}) /\ Len(<<>>) = 0
      /\ <<>> \in Seq([text : Seq(Units), status : {"0", "1"}])
  OBVIOUS
<1>4. i \in 1 .. (Len(sizes) + 1) /\ tries \in 0 .. MaxTries /\ Len(chunk) <= Buf
  BY <1>0, <1>1, <1>3 DEF Init
<1>2. TypeOK
  BY <1>1, <1>3, <1>4, Zenon DEF Init, TypeOK
<1> QED
  BY <1>2 DEF Init, TypeInv, PhaseInv

\* Every step of the shell, and its death, keeps the types and the phases.
LEMMA ShellTypeInv ==
  ASSUME TypeInv, ClientStep \/ ShellDies
  PROVE  TypeInv'
<1> USE DEF TypeInv, childVars
<1>0. Len(sizes) \in 0 .. MaxStatements /\ MaxStatements \in Nat /\ MaxTries \in Nat
  BY BlockFacts, RforkAssumption DEF TypeOK
<1>1. CASE StartFails
  BY <1>1 DEF StartFails, Return, TypeOK, PhaseInv
<1>2. CASE StartChild
  BY <1>2 DEF StartChild, TypeOK, PhaseInv
<1>3. CASE Dial
  BY <1>0, <1>3 DEF Dial, NextStatement, TypeOK, PhaseInv
<1>4. CASE DialFails \/ NoBlock
  BY <1>0, <1>4 DEF DialFails, NoBlock, Return, TypeOK, PhaseInv
<1>5. CASE Send
  <2>1. i \in 1 .. Len(sizes)
    BY <1>0, <1>5 DEF Send, TypeOK, PhaseInv
  <2>2. requests' \in Seq(Units)
    BY <1>5, <2>1, TextFacts, ConcatProperties DEF Send, TypeOK
  <2> QED
    BY <1>5, <2>1, <2>2 DEF Send, TypeOK, PhaseInv
<1>6. CASE SendFails
  BY <1>6 DEF SendFails, Return, Exited, TypeOK, PhaseInv
<1>7. CASE Receive
  <2>1. i \in 1 .. Len(sizes) /\ answers' = <<>> /\ UNCHANGED <<ret, sizes>>
    BY <1>0, <1>7 DEF Receive, TypeOK, PhaseInv
  <2>2. \/ NextStatement(i + 1) /\ UNCHANGED err
        \/ err' = TRUE /\ pc' = "quit" /\ UNCHANGED i
    BY <1>7 DEF Receive
  <2>3. i' \in 1 .. (Len(sizes) + 1)
    BY <1>0, <2>1, <2>2 DEF NextStatement
  <2>4. pc' \in {"send", "quit"} /\ (pc' = "send" => i' <= Len(sizes))
    BY <2>2 DEF NextStatement
  <2>5. err' \in BOOLEAN
    BY <2>2 DEF TypeOK
  <2>6. TypeOK'
    BY <1>7, <2>1, <2>3, <2>4, <2>5 DEF Receive, TypeOK
  <2>7. PhaseInv'
    BY <1>7, <2>1, <2>4 DEF Receive, PhaseInv
  <2> QED
    BY <2>6, <2>7
<1>8. CASE ReceiveEOF
  BY <1>8 DEF ReceiveEOF, Exited, TypeOK, PhaseInv
<1>9. CASE SendQuit
  <2>0. Quit \in Units
    BY <1>0 DEF Quit, Units
  <2>1. requests' \in Seq(Units)
    BY <1>9, <2>0 DEF SendQuit, TypeOK
  <2> QED
    BY <1>9, <2>1 DEF SendQuit, TypeOK, PhaseInv
<1>10. CASE Drain
  BY <1>10 DEF Drain, TypeOK, PhaseInv
<1>11. CASE Wait
  BY <1>11 DEF Wait, Return, Exited, TypeOK, PhaseInv
<1>12. CASE ShellDies
  BY <1>12 DEF ShellDies, TypeOK, PhaseInv
<1> QED
  BY <1>1, <1>2, <1>3, <1>4, <1>5, <1>6, <1>7, <1>8, <1>9, <1>10, <1>11, <1>12
  DEF ClientStep

\* What a read takes, and what it leaves.
LEMMA ReadFacts ==
  ASSUME NEW q \in Seq(Units), q # <<>>,
         NEW n, n = IF Len(q) < Buf THEN Len(q) ELSE Buf
  PROVE  /\ SubSeq(q, 1, n) \in Seq(Units) /\ Len(SubSeq(q, 1, n)) <= Buf
         /\ SubSeq(q, n + 1, Len(q)) \in Seq(Units)
         /\ Len(q) <= Buf => /\ SubSeq(q, 1, n) = q
                             /\ SubSeq(q, n + 1, Len(q)) = <<>>
<1>1. Len(q) \in Nat \ {0} /\ Buf \in Nat \ {0}
  BY RforkAssumption, EmptySeq
<1>2. n \in 1 .. Len(q) /\ n <= Buf
  BY <1>1
<1>3. SubSeq(q, 1, n) \in Seq(Units) /\ Len(SubSeq(q, 1, n)) = n
  BY <1>1, <1>2
<1>4. SubSeq(q, n + 1, Len(q)) \in Seq(Units)
  BY <1>1, <1>2
<1>5. ASSUME Len(q) <= Buf
      PROVE  SubSeq(q, 1, n) = q /\ SubSeq(q, n + 1, Len(q)) = <<>>
  <2>1. n = Len(q)
    BY <1>1, <1>5
  <2> QED
    <3>1. SubSeq(q, 1, Len(q)) = q
      BY SubSeqFull
    <3>2. n + 1 \in Int /\ Len(q) \in Int /\ Len(q) < n + 1
      BY <1>1, <2>1
    <3> QED
      BY <2>1, <3>1, <3>2, SubSeqEmpty
<1> QED
  BY <1>2, <1>3, <1>4, <1>5

\* Every step of the child keeps the types and the phases.
LEMMA ChildTypeInv ==
  ASSUME TypeInv, ChildStep \/ ListenFails \/ Crash
  PROVE  TypeInv'
<1> USE DEF TypeInv, clientVars
<1>1. CASE Listen \/ ListenFails \/ Accept \/ ReadEOF \/ AnswerFails \/ Crash
  BY <1>1 DEF Listen, ListenFails, Accept, ReadEOF, AnswerFails, Crash, Exit, Closed, TypeOK, PhaseInv
<1>2. CASE Read
  <2>1. requests \in Seq(Units) /\ requests # <<>>
    BY <1>2 DEF Read, TypeOK
  <2>2. /\ requests' \in Seq(Units)
        /\ \/ srv' = "exited" /\ code' = "0" /\ UNCHANGED chunk
           \/ /\ srv' = "execute" /\ UNCHANGED code
              /\ chunk' \in Seq(Units) /\ Len(chunk') <= Buf
    BY <1>2, <2>1, ReadFacts DEF Read, Exit
  <2>3. TypeOK'
    BY <1>2, <2>2 DEF Read, TypeOK
  <2> QED
    BY <1>2, <2>2, <2>3 DEF Read, PhaseInv
<1>3. CASE Execute
  <2>1. PICK s \in {"0", "1"} :
          status' = s /\ log' = Append(log, [text |-> chunk, status |-> s])
    BY <1>3 DEF Execute
  <2>2. log' \in Seq([text : Seq(Units), status : {"0", "1"}])
    BY <2>1 DEF TypeOK
  <2> QED
    BY <1>3, <2>1, <2>2 DEF Execute, TypeOK, PhaseInv
<1>4. CASE Answer
  BY <1>4 DEF Answer, TypeOK, PhaseInv
<1> QED
  BY <1>1, <1>2, <1>3, <1>4 DEF ChildStep

LEMMA NextTypeInv == TypeInv /\ [Next]_vars => TypeInv'
<1> SUFFICES ASSUME TypeInv, [Next]_vars PROVE TypeInv'
  OBVIOUS
<1>1. CASE UNCHANGED vars
  BY <1>1 DEF vars, clientVars, childVars, TypeInv, TypeOK, PhaseInv
<1> QED
  BY <1>1, ShellTypeInv, ChildTypeInv DEF Next

LEMMA Typing == Spec => []TypeInv
<1> QED
  BY InitTypeInv, NextTypeInv, PTL DEF Spec

\* executeRfork and serveConn keep every variable in its type, whatever the
\* sizes of the statements and of the buffer.
THEOREM RforkTypeCorrect == Spec => []TypeOK
<1>1. TypeInv => TypeOK
  BY DEF TypeInv
<1> QED
  BY <1>1, Typing, PTL

\* A shell that returns has not started a child, or its child is gone, or it
\* had no block to send.
LEMMA OrphanStep == TypeInv /\ NoChildLeftBehind /\ [Next]_vars => NoChildLeftBehind'
<1> SUFFICES ASSUME TypeInv, NoChildLeftBehind, [Next]_vars
             PROVE  NoChildLeftBehind'
  OBVIOUS
<1> USE DEF NoChildLeftBehind
<1>1. CASE ClientStep
  <2>1. CASE StartFails \/ SendFails \/ Wait \/ NoBlock
    BY <2>1 DEF StartFails, SendFails, Wait, NoBlock, Return, Exited, childVars, TypeInv, PhaseInv
  <2>2. CASE ~(StartFails \/ SendFails \/ Wait \/ NoBlock)
    <3>1. pc' # "returned"
      BY <1>1, <2>2 DEF ClientStep, StartChild, Dial, DialFails, NextStatement, Send,
         Receive, ReceiveEOF, SendQuit, Drain
    <3> QED
      BY <3>1
  <2> QED
    BY <2>1, <2>2
<1>2. CASE ShellDies
  BY <1>2 DEF ShellDies
<1>3. CASE ChildStep \/ ListenFails \/ Crash
  BY <1>3 DEF ChildStep, Listen, Accept, Read, ReadEOF, Execute, Answer, AnswerFails,
     ListenFails, Crash, Exit, clientVars
<1>4. CASE UNCHANGED vars
  BY <1>4 DEF vars, clientVars, childVars
<1> QED
  BY <1>1, <1>2, <1>3, <1>4 DEF Next

\* executeRfork returns before it has started a child, or when the child is
\* gone; only without a block does it leave one, and that one executes nothing.
THEOREM NoOrphan == Spec => []NoChildLeftBehind
<1>1. Init => NoChildLeftBehind
  BY DEF Init, NoChildLeftBehind
<1> QED
  BY <1>1, OrphanStep, Typing, PTL DEF Spec

-----------------------------------------------------------------------------
(* The exchange of statements and statuses, when every statement fits.     *)

LEMMA InitIInv == Init => IInv
<1> SUFFICES ASSUME Init PROVE IInv
  OBVIOUS
<1>1. Len(sizes) \in 0 .. MaxStatements /\ MaxStatements \in Nat
  BY BlockFacts, EmptyBlock, RforkAssumption DEF Init
<1>2. LogInv
  BY <1>1 DEF Init, LogInv
<1>3. ChildInv /\ ShellInv
  BY DEF Init, ChildInv, ShellInv
<1>4. NoChildLeftBehind
  BY DEF Init, NoChildLeftBehind
<1> QED
  BY <1>2, <1>3, <1>4, InitTypeInv DEF IInv

\* A step of the shell leaves the child and what it has executed alone.
LEMMA ShellLeavesLog ==
  ASSUME IInv, UNCHANGED <<sizes, log>>
  PROVE  LogInv' /\ \A k : Succeeded(k)' <=> Succeeded(k)
BY DEF IInv, LogInv, Succeeded, Text

LEMMA ShellInvStep ==
  ASSUME IInv, ClientStep \/ ShellDies
  PROVE  LogInv' /\ ChildInv' /\ ShellInv'
<1> USE DEF childVars
<1>0. /\ TypeOK /\ PhaseInv /\ ChildInv /\ ShellInv
      /\ Len(sizes) \in Nat
  BY BlockFacts, RforkAssumption DEF IInv, TypeInv, TypeOK
<1>1. UNCHANGED <<sizes, log, chunk, status, copies>>
  BY DEF ClientStep, StartFails, StartChild, Dial, NoBlock, DialFails, Send, SendFails,
     Receive, ReceiveEOF, SendQuit, Drain, Wait, ShellDies
<1>2. LogInv' /\ \A k : Succeeded(k)' <=> Succeeded(k)
  BY <1>1, ShellLeavesLog
<1>3. \A k : Text(k)' = Text(k)
  BY <1>1 DEF Text
<1>4. CASE StartFails \/ StartChild
  BY <1>0, <1>1, <1>2, <1>3, <1>4 DEF StartFails, StartChild, Return, PhaseInv, ChildInv, ShellInv
<1>5. CASE Dial
  <2>1. log = <<>> /\ i' = 1 /\ Succeeded(0)
    BY <1>0, <1>5 DEF Dial, NextStatement, ShellInv, Succeeded
  <2> QED
    BY <1>0, <1>1, <1>2, <1>3, <1>5, <2>1 DEF Dial, NextStatement, ChildInv, ShellInv
<1>6. CASE DialFails \/ NoBlock
  BY <1>0, <1>1, <1>2, <1>3, <1>6 DEF DialFails, NoBlock, Return, ChildInv, ShellInv, PhaseInv
<1>7. CASE Send
  <2>1. i \in 1 .. Len(sizes)
    BY <1>0, <1>7 DEF Send, TypeOK, PhaseInv
  <2>2. requests' = Text(i)
    <3>1. Text(i) \in Seq(Units) /\ requests = <<>>
      BY <1>0, <1>7, <2>1, TextFacts DEF Send, TypeOK, ShellInv
    <3> QED
      BY <1>7, <3>1, ConcatEmptySeq DEF Send
  <2>3. Succeeded(i - 1) /\ srv \in {"listen", "read"} /\ answers = <<>> /\ ~err
    BY <1>0, <1>7 DEF Send, Exited, ShellInv
  <2> QED
    BY <1>0, <1>1, <1>2, <1>3, <1>7, <2>1, <2>2, <2>3 DEF Send, ChildInv, ShellInv, InFlight, PhaseInv
<1>8. CASE SendFails
  BY <1>0, <1>1, <1>2, <1>3, <1>8 DEF SendFails, Return, Exited, ChildInv, ShellInv, PhaseInv
<1>9. CASE Receive
  <2>1. /\ pc = "receive" /\ requests = <<>> /\ requests' = <<>>
        /\ Len(log) = i /\ answers = <<log[i].status>> /\ answers' = <<>>
        /\ srv \in {"read", "exited"} /\ ~err /\ i \in 1 .. Len(sizes)
        /\ UNCHANGED <<srv, ret>>
    BY <1>0, <1>9 DEF Receive, TypeOK, PhaseInv, ShellInv, InFlight
  <2>2. CASE log[i].status = "0"
    <3>1. NextStatement(i + 1) /\ UNCHANGED err
      BY <1>9, <2>1, <2>2 DEF Receive
    <3>2. Succeeded(i)
      BY <2>1, <2>2 DEF Succeeded, IInv, LogInv
    <3>3. i' = i + 1 /\ i' - 1 = i /\ i' \in Int
      BY <2>1, <3>1 DEF NextStatement
    <3>4. pc' = "send" \/ (pc' = "quit" /\ i = Len(sizes))
      BY <1>0, <2>1, <3>1 DEF NextStatement
    <3> QED
      BY <1>0, <1>1, <1>2, <1>3, <2>1, <3>1, <3>2, <3>3, <3>4 DEF ChildInv, ShellInv, PhaseInv
  <2>3. CASE log[i].status # "0"
    <3>1. err' = TRUE /\ pc' = "quit" /\ UNCHANGED i
      BY <1>9, <2>1, <2>3 DEF Receive
    <3> QED
      BY <1>0, <1>1, <1>2, <1>3, <2>1, <3>1 DEF ChildInv, ShellInv, PhaseInv
  <2> QED
    BY <2>2, <2>3
<1>10. CASE ReceiveEOF
  BY <1>0, <1>1, <1>2, <1>3, <1>10 DEF ReceiveEOF, Exited, ChildInv, ShellInv, PhaseInv
<1>11. CASE SendQuit
  <2>1. srv # "exited" => requests' = <<Quit>> /\ srv \in {"listen", "read"}
    <3>1. Append(<<>>, Quit) = <<Quit>>
      OBVIOUS
    <3> QED
      BY <1>0, <1>11, <3>1 DEF SendQuit, Exited, ShellInv
  <2> QED
    BY <1>0, <1>1, <1>2, <1>3, <1>11, <2>1 DEF SendQuit, ChildInv, ShellInv, PhaseInv
<1>12. CASE Drain
  BY <1>0, <1>1, <1>2, <1>3, <1>12 DEF Drain, ChildInv, ShellInv, PhaseInv
<1>13. CASE Wait
  BY <1>0, <1>1, <1>2, <1>3, <1>13 DEF Wait, Return, Exited, ChildInv, ShellInv, PhaseInv
<1>14. CASE ShellDies
  BY <1>0, <1>1, <1>2, <1>3, <1>14 DEF ShellDies, ChildInv, ShellInv, PhaseInv
<1> QED
  BY <1>4, <1>5, <1>6, <1>7, <1>8, <1>9, <1>10, <1>11, <1>12, <1>13, <1>14 DEF ClientStep

\* The child reads quit or a whole statement: it has room for either.
LEMMA ReadsWhole ==
  ASSUME Fits, IInv, Read
  PROVE  \/ requests = <<Quit>> /\ srv' = "exited" /\ requests' = <<>>
         \/ /\ srv' = "execute" /\ requests' = <<>> /\ chunk' = Text(i)
            /\ requests = Text(i) /\ i <= Len(sizes) /\ Succeeded(i - 1)
<1>1. /\ TypeOK /\ ChildInv /\ srv = "read" /\ requests # <<>> /\ requests \in Seq(Units)
      /\ Len(sizes) \in Nat
  BY BlockFacts, RforkAssumption DEF IInv, TypeInv, TypeOK, Read
<1>2. \/ requests = <<Quit>>
      \/ requests = Text(i) /\ i \in 1 .. Len(sizes) /\ Succeeded(i - 1)
  BY <1>1 DEF ChildInv, TypeOK
<1>3. Len(requests) <= Buf
  <2>1. CASE requests = <<Quit>>
    BY <2>1, RforkAssumption
  <2>2. CASE requests # <<Quit>>
    BY <1>1, <1>2, <2>2, TextFacts, RforkAssumption DEF Fits, TypeOK
  <2> QED
    BY <2>1, <2>2
<1>4. /\ requests' = <<>>
      /\ IF requests = <<Quit>> THEN srv' = "exited" ELSE srv' = "execute" /\ chunk' = requests
  BY <1>1, <1>3, ReadFacts DEF Read, Exit
<1>5. i \in 1 .. Len(sizes) => Text(i) # <<Quit>>
  BY <1>1, TextFacts DEF TypeOK
<1> QED
  BY <1>2, <1>4, <1>5

LEMMA ChildInvStep ==
  ASSUME Fits, IInv, ChildStep \/ ListenFails \/ Crash
  PROVE  LogInv' /\ ChildInv' /\ ShellInv'
<1> USE DEF clientVars
<1>0. /\ TypeOK /\ PhaseInv /\ LogInv /\ ChildInv /\ ShellInv
      /\ Len(sizes) \in Nat
  BY BlockFacts, RforkAssumption DEF IInv, TypeInv, TypeOK
<1>1. UNCHANGED <<pc, sizes, i, err, ret>> /\ \A k : Text(k)' = Text(k)
  BY DEF ChildStep, Listen, ListenFails, Accept, Read, ReadEOF, Execute, Answer,
     AnswerFails, Crash, Text
<1>2. ASSUME UNCHANGED log
      PROVE  LogInv' /\ \A k : Succeeded(k)' <=> Succeeded(k)
  BY <1>0, <1>1, <1>2 DEF LogInv, Succeeded
<1>3. CASE Listen
  BY <1>0, <1>1, <1>2, <1>3 DEF Listen, ChildInv, ShellInv, PhaseInv, InFlight
<1>4. CASE Accept
  BY <1>0, <1>1, <1>2, <1>4 DEF Accept, ChildInv, ShellInv, PhaseInv, InFlight
<1>5. CASE ListenFails \/ ReadEOF \/ AnswerFails \/ Crash
  BY <1>0, <1>1, <1>2, <1>5 DEF ListenFails, ReadEOF, AnswerFails, Crash, Exit, Closed,
     ChildInv, ShellInv, PhaseInv, InFlight
<1>6. CASE Read
  <2>1. UNCHANGED <<answers, log>>
    BY <1>6 DEF Read
  <2>2. CASE requests = <<Quit>> /\ srv' = "exited" /\ requests' = <<>>
    BY <1>0, <1>1, <1>2, <1>6, <2>1, <2>2, TextFacts
    DEF Read, TypeOK, ChildInv, ShellInv, PhaseInv, InFlight
  <2>3. CASE /\ srv' = "execute" /\ requests' = <<>> /\ chunk' = Text(i)
             /\ requests = Text(i) /\ i <= Len(sizes) /\ Succeeded(i - 1)
    <3>1. Text(i) # <<>> /\ Text(i) # <<Quit>> /\ i \in 1 .. Len(sizes)
      BY <1>0, <2>3, TextFacts DEF TypeOK
    <3> QED
      BY <1>0, <1>1, <1>2, <1>6, <2>1, <2>3, <3>1
      DEF Read, ChildInv, ShellInv, PhaseInv, InFlight
  <2> QED
    BY <1>6, <2>2, <2>3, ReadsWhole
<1>7. CASE Execute
  <2>1. PICK s \in {"0", "1"} :
          status' = s /\ log' = Append(log, [text |-> chunk, status |-> s])
    BY <1>7 DEF Execute
  <2>2. /\ srv = "execute" /\ srv' = "answer" /\ UNCHANGED <<requests, answers, chunk>>
        /\ requests = <<>> /\ i \in 1 .. Len(sizes) /\ chunk = Text(i)
        /\ Len(log) = i - 1 /\ \A j \in 1 .. i - 1 : log[j].status = "0"
    BY <1>0, <1>7 DEF Execute, ChildInv, Succeeded, TypeOK
  <2>3. /\ Len(log') = i /\ log'[i] = [text |-> Text(i), status |-> s]
        /\ \A j \in 1 .. i - 1 : log'[j] = log[j]
    BY <1>0, <2>1, <2>2 DEF TypeOK
  <2>4. LogInv'
    BY <1>0, <1>1, <2>2, <2>3 DEF LogInv
  <2>5. ChildInv'
    BY <1>0, <1>1, <2>2 DEF ChildInv
  <2>6. pc \in {"receive", "gone"}
    BY <1>0, <2>2 DEF ShellInv, PhaseInv, TypeOK, IInv, NoChildLeftBehind
  <2>7. ShellInv'
    <3>1. pc = "receive" => answers = <<>>
      BY <1>0, <2>2 DEF ShellInv, InFlight
    <3> QED
      BY <1>0, <1>1, <2>1, <2>2, <2>3, <2>6, <3>1 DEF ShellInv, InFlight, PhaseInv
  <2> QED
    BY <2>4, <2>5, <2>7
<1>8. CASE Answer
  <2>1. /\ pc = "receive" /\ srv' = "read" /\ UNCHANGED <<log, requests, status>>
        /\ requests = <<>> /\ answers = <<>> /\ Len(log) = i /\ status = log[i].status
        /\ answers' = Append(answers, status)
    BY <1>0, <1>8 DEF Answer, Closed, ChildInv, ShellInv, InFlight, PhaseInv, TypeOK
  <2>2. answers' = <<status>>
    BY <2>1
  <2> QED
    BY <1>0, <1>1, <1>2, <2>1, <2>2 DEF ChildInv, ShellInv, InFlight, PhaseInv
<1> QED
  BY <1>3, <1>4, <1>5, <1>6, <1>7, <1>8 DEF ChildStep

LEMMA NextIInv == ASSUME Fits PROVE IInv /\ [Next]_vars => IInv'
<1> SUFFICES ASSUME IInv, [Next]_vars PROVE IInv'
  OBVIOUS
<1>1. TypeInv' /\ NoChildLeftBehind'
  BY NextTypeInv, OrphanStep DEF IInv
<1>2. LogInv' /\ ChildInv' /\ ShellInv'
  <2>1. CASE UNCHANGED vars
    BY <2>1 DEF vars, clientVars, childVars, IInv, LogInv, ChildInv, ShellInv, InFlight,
       Succeeded, Text
  <2> QED
    BY <2>1, ShellInvStep, ChildInvStep DEF Next
<1> QED
  BY <1>1, <1>2 DEF IInv

LEMMA Inductive == ASSUME Fits PROVE Spec => []IInv
BY InitIInv, NextIInv, PTL DEF Spec

\* A buffer that takes the longest statement is all the child needs to execute
\* the statements of the block whole and in order: the answers that the shell
\* waits for keep two statements from meeting in the socket.
THEOREM WholeStatements ==
  ASSUME Fits
  PROVE  Spec => []ExecutesWholeStatements
<1>1. IInv => ExecutesWholeStatements
  BY DEF IInv, LogInv, ExecutesWholeStatements
<1> QED
  BY <1>1, Inductive, PTL

-----------------------------------------------------------------------------
(* The refinement of RemoteBlock.                                          *)

\* The outcome the caller of executeRfork sees.
Outcome ==
  IF pc = "panicked" \/ ret = "err" THEN "err" ELSE IF ret = "ok" THEN "ok" ELSE "running"

LastFailed == log # <<>> /\ log[Len(log)].status # "0"

LEMMA SucceededDone ==
  ASSUME NEW k, k \in Nat, Succeeded(k)
  PROVE  Len(log) = k /\ ~LastFailed
BY DEF Succeeded, LastFailed

\* While a child may still execute, the caller waits.
LEMMA RunningWhileExecuting ==
  ASSUME IInv, srv = "execute"
  PROVE  Outcome = "running"
BY DEF IInv, TypeInv, PhaseInv, NoChildLeftBehind, Outcome

LEMMA PromiseInit == Init => Promise!Init
<1> SUFFICES ASSUME Init PROVE Promise!Init
  OBVIOUS
<1>1. Len(sizes) \in 0 .. MaxStatements
  BY BlockFacts, EmptyBlock DEF Init
<1> QED
  BY <1>1 DEF Init, Promise!Init

\* A step of the shell ends the statement as promised or is not seen.
LEMMA PromiseShell ==
  ASSUME IInv, ClientStep \/ ShellDies
  PROVE  [Promise!Next]_(Promise!vars)
<1>1. UNCHANGED <<sizes, log>>
  BY DEF ClientStep, StartFails, StartChild, Dial, NoBlock, DialFails, Send, SendFails,
     Receive, ReceiveEOF, SendQuit, Drain, Wait, ShellDies, childVars
<1>2. /\ Len(sizes) \in Nat /\ pc \in {"start", "dial", "send", "wait"} => Outcome = "running"
      /\ ret = "none" <=> pc # "returned"
  BY BlockFacts, RforkAssumption DEF IInv, TypeInv, TypeOK, PhaseInv, Outcome
<1>3. CASE StartFails \/ NoBlock \/ SendFails \/ (Wait /\ ret' = "err")
  <2>1. Outcome = "running" /\ Outcome' = "err"
    BY <1>2, <1>3 DEF StartFails, NoBlock, SendFails, Wait, Return, Outcome
  <2> QED
    BY <1>1, <2>1 DEF Promise!Next, Promise!GiveUp, Outcome, LastFailed
<1>4. CASE Wait /\ ret' = "ok"
  <2>1. Outcome = "running" /\ Outcome' = "ok" /\ pc = "wait" /\ ~err
    BY <1>2, <1>4 DEF Wait, Return, Outcome
  <2>2. Len(log) = Len(sizes) /\ ~LastFailed
    BY <1>2, <2>1, SucceededDone DEF IInv, ShellInv
  <2> QED
    BY <1>1, <2>1, <2>2 DEF Promise!Next, Promise!Succeed, Outcome, LastFailed
<1>5. CASE DialFails
  <2>1. Outcome = "running" /\ Outcome' \in {"running", "err"}
    BY <1>2, <1>5 DEF DialFails, Outcome
  <2> QED
    BY <1>1, <2>1 DEF Promise!Next, Promise!GiveUp, Promise!vars, Outcome, LastFailed
<1>6. CASE ~(StartFails \/ NoBlock \/ SendFails \/ Wait \/ DialFails)
  <2>1. UNCHANGED ret /\ pc' # "panicked" /\ pc # "panicked"
    BY <1>6 DEF ClientStep, StartChild, Dial, NextStatement, Send, Receive, ReceiveEOF,
       SendQuit, Drain, ShellDies
  <2> QED
    BY <1>1, <2>1 DEF Promise!vars
<1>7. Wait => ret' \in {"ok", "err"}
  BY DEF Wait, Return
<1> QED
  BY <1>3, <1>4, <1>5, <1>6, <1>7

\* The child executes the next statement of the block, or is not seen.
LEMMA PromiseChild ==
  ASSUME Fits, IInv, ChildStep \/ ListenFails \/ Crash
  PROVE  [Promise!Next]_(Promise!vars)
<1>1. UNCHANGED <<sizes, pc, ret>>
  BY DEF ChildStep, Listen, ListenFails, Accept, Read, ReadEOF, Execute, Answer,
     AnswerFails, Crash, clientVars
<1>2. CASE Execute
  <2>1. PICK s \in {"0", "1"} : log' = Append(log, [text |-> chunk, status |-> s])
    BY <1>2 DEF Execute
  <2>2. /\ Len(sizes) \in Nat /\ i \in 1 .. Len(sizes) /\ Succeeded(i - 1)
        /\ log \in Seq([text : Seq(Units), status : {"0", "1"}])
    BY <1>2, BlockFacts, RforkAssumption DEF Execute, IInv, ChildInv, TypeInv, TypeOK
  <2>3. Outcome = "running"
    BY <1>2, RunningWhileExecuting DEF Execute
  <2>4. Len(log) = i - 1 /\ ~LastFailed
    BY <2>2, SucceededDone, SMTT(40)
  <2>5. Len(log') = Len(log) + 1
    BY <2>1, <2>2
  <2> QED
    BY <1>1, <2>2, <2>3, <2>4, <2>5 DEF Promise!Next, Promise!Execute, Outcome, LastFailed
<1>3. CASE ~Execute
  <2>1. UNCHANGED log
    BY <1>3 DEF ChildStep, Listen, ListenFails, Accept, Read, ReadEOF, Answer,
       AnswerFails, Crash
  <2> QED
    BY <1>1, <2>1 DEF Promise!vars
<1> QED
  BY <1>2, <1>3

\* An rfork statement whose statements fit keeps what RemoteBlock promises: it
\* succeeds only after the child has executed all of them with success, the
\* first failure is the last thing executed, and nothing is executed after the
\* caller has its answer.
THEOREM KeepsPromise ==
  ASSUME Fits
  PROVE  Spec => ImplementsRemoteBlock
<1>1. IInv /\ [Next]_vars => [Promise!Next]_(Promise!vars)
  <2> SUFFICES ASSUME IInv, [Next]_vars PROVE [Promise!Next]_(Promise!vars)
    OBVIOUS
  <2>1. CASE UNCHANGED vars
    BY <2>1 DEF vars, clientVars, childVars, Promise!vars
  <2> QED
    BY <2>1, PromiseShell, PromiseChild DEF Next
<1> QED
  BY <1>1, PromiseInit, Inductive, PTL DEF Spec, Promise!Spec, ImplementsRemoteBlock
=============================================================================
