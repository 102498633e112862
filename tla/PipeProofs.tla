----------------------------- MODULE PipeProofs -----------------------------
(***************************************************************************)
(* Theorems about Pipe and about Capture, which extends it, for every      *)
(* number of components, pipe capacity, set of exit codes and list of      *)
(* redirections.                                                           *)
(*                                                                         *)
(* The safety properties of Pipe rest on one inductive invariant, IInv:    *)
(* each loop of executePipe knows what the loops before it have            *)
(* established for the components below its index.  A step of Capture is a *)
(* step of Pipe or none, so what Pipe promises is inherited; what Capture  *)
(* promises needs to know who can still write to a pipe (DrainInv) and,    *)
(* for a buffer with one writer, where each chunk on its way to it is      *)
(* (CopyInv).                                                              *)
(***************************************************************************)
EXTENDS Capture, SequenceTheorems, FiniteSetTheorems, TLAPS

Unreturned == pc # "returned"

\* What loops 1 and 2 have built.
PlumbingInv ==
  /\ pc = "create" => piped = {}
  /\ pc = "wire" => i < N /\ piped = 1 .. (i - 1)
  /\ pc \in {"redirect", "start", "wait"} => piped = 1 .. (N - 1)

\* Where the components are in their life, by the loop the shell is in.
LifeInv ==
  /\ pc \in {"create", "wire", "redirect"} =>
       \A k \in Components : proc[k] = "none"
  /\ pc = "redirect" => i = 1
  /\ pc = "start" =>
       \A k \in Components : IF k < i THEN proc[k] \in {"running", "ended"}
                                      ELSE proc[k] = "none"
  /\ pc = "wait" =>
       \A k \in Components : IF k < i THEN proc[k] = "reaped" /\ result[k] = "0"
                                      ELSE proc[k] \in {"running", "ended"}

\* What the shell has recorded while it is still running.
RecordInv ==
  Unreturned =>
    /\ errIndex = 0
    /\ files \subseteq toClose
    /\ \A k \in Components :
         cods[k] = IF proc[k] = "none" THEN ENotStarted ELSE "0"

\* The pipes of the components already waited for are closed in the shell.
EndsInv ==
  pc = "wait" => \A k \in Components : k < i => k \notin readEnds \union writeEnds

\* What the shell has returned stays true while components still run.
VerdictInv ==
  Returned =>
    \A k \in Components :
      cods[k] # "0" =>
        \/ proc[k] = "none"
        \/ (k = errIndex /\ proc[k] = "reaped" /\ cods[k] = result[k])

IInv ==
  /\ TypeOK
  /\ PlumbingInv
  /\ LifeInv
  /\ RecordInv
  /\ EndsInv
  /\ VerdictInv
  /\ SuccessIsComplete
  /\ BlamesFirstFailure
  /\ AllStartedBeforeAnyWait
  /\ PlumbedBeforeStart
  /\ NoFileLeak

-----------------------------------------------------------------------------
(* Facts about the helpers.                                                *)

\* The status returned is a sequence of codes, collapsed or not.
LEMMA StatusOfType ==
  ASSUME NEW codes \in [Components -> Codes]
  PROVE  StatusOf(codes) \in Seq(Codes)
<1> N \in Nat /\ N >= 2 /\ 1 \in Components
  BY PipeAssumption DEF Components
<1>1. codes \in Seq(Codes)
  BY DEF Components
<1>2. <<codes[1]>> \in Seq(Codes)
  OBVIOUS
<1> QED
  BY <1>1, <1>2 DEF StatusOf

\* Blaming component k touches the code of k only, keeps the types, closes
\* every registered file and leaves the loops.
LEMMA PipeErrorFacts ==
  ASSUME NEW k \in Components,
         NEW codes \in [Components -> Codes],
         NEW r,
         NEW opened \in SUBSET Components,
         NEW registered \in SUBSET Components,
         opened \subseteq registered,
         PipeError(k, codes, r, opened, registered)
  PROVE  /\ pc' = "returned" /\ errIndex' = k
         /\ ret' \in Verdicts
         /\ files' = {} /\ toClose' = registered
         /\ cods' = [codes EXCEPT ![k] = GetErrStatus(r, codes[k])]
         /\ cods' \in [Components -> Codes]
<1> DEFINE final == [codes EXCEPT ![k] = GetErrStatus(r, codes[k])]
<1>1. final \in [Components -> Codes]
  BY DEF GetErrStatus, Codes
<1>2. StatusOf(final) \in Seq(Codes)
  BY <1>1, StatusOfType
<1>3. cods' = final /\ errIndex' = k /\ Return(StatusOf(final), k \notin igns, opened, registered)
  BY DEF PipeError
<1> QED
  BY <1>1, <1>2, <1>3 DEF Return, Verdicts

\* The index of a loop stays in range, and the loop ends after its last.
LEMMA AdvanceFacts ==
  ASSUME i \in Components, NEW last \in Components, i <= last, NEW loop,
         Advance(last, loop)
  PROVE  /\ i' \in Components
         /\ \/ i = last /\ i' = 1 /\ pc' = loop
            \/ i < last /\ i' = i + 1 /\ pc' = pc
BY PipeAssumption DEF Advance, Components

-----------------------------------------------------------------------------
LEMMA InitIInv == Init => IInv
<1> SUFFICES ASSUME Init PROVE IInv
  OBVIOUS
<1> USE PipeAssumption DEF Init, Components
<1>1. TypeOK
  <2>1. ret \in Verdicts
    BY DEF NotReturned, Verdicts
  <2> QED
    BY <2>1 DEF TypeOK, Codes
<1> QED
  BY <1>1 DEF IInv, PlumbingInv, LifeInv, RecordInv, EndsInv, VerdictInv, Unreturned,
     SuccessIsComplete, BlamesFirstFailure, AllStartedBeforeAnyWait,
     PlumbedBeforeStart, NoFileLeak, Returned

-----------------------------------------------------------------------------
(* A step that ends the statement.  What it needs: the loops before it left *)
(* the invariant, component k is blamed, and the components keep their      *)
(* lives, except that the one waited for is reaped.                         *)

\* A failure before any wait: no component was reaped.
LEMMA EarlyFailure ==
  ASSUME IInv,
         pc \in {"create", "wire", "redirect", "start"},
         NEW k \in Components, NEW codes \in [Components -> Codes],
         codes[k] \in {ENotFound, ENotStarted},
         \A j \in Components \ {k} : codes[j] = cods[j],
         proc[k] = "none",
         NEW opened \in SUBSET Components,
         NEW registered \in SUBSET Components,
         opened \subseteq registered,
         PipeError(k, codes, NoStatus, opened, registered),
         i' = i, kind' = kind, igns' = igns, piped' = piped,
         readEnds' \subseteq readEnds, writeEnds' \subseteq writeEnds,
         UNCHANGED dataVars, UNCHANGED procVars
  PROVE  IInv'
<1>1. /\ pc' = "returned" /\ errIndex' = k
      /\ ret' \in Verdicts
      /\ files' = {} /\ toClose' = registered
      /\ cods' = [codes EXCEPT ![k] = GetErrStatus(NoStatus, codes[k])]
      /\ cods' \in [Components -> Codes]
  BY PipeErrorFacts
<1>2. cods' = codes
  BY <1>1, PipeAssumption DEF GetErrStatus
<1>3. \A j \in Components : proc[j] # "reaped"
  BY DEF IInv, LifeInv, TypeOK
<1>4. \A j \in Components \ {k} : codes[j] # "0" => proc[j] = "none"
  BY DEF IInv, RecordInv, Unreturned
<1>5. TypeOK'
  BY <1>1 DEF IInv, TypeOK, dataVars, procVars, Codes, Components
<1>6. VerdictInv'
  BY <1>1, <1>2, <1>4 DEF VerdictInv, procVars
<1>7. PlumbedBeforeStart'
  BY <1>1 DEF IInv, PlumbedBeforeStart, procVars
<1> QED
  BY <1>1, <1>3, <1>5, <1>6, <1>7, PipeAssumption DEF IInv, PlumbingInv, LifeInv, RecordInv, EndsInv,
     Unreturned, SuccessIsComplete, BlamesFirstFailure, AllStartedBeforeAnyWait,
     NoFileLeak, Returned, procVars, Components

-----------------------------------------------------------------------------
(* The invariant is preserved by every step of the shell.                  *)

\* Loop 1.
LEMMA CreateSteps ==
  ASSUME IInv,
         \/ CommandNotFound
         \/ BadArguments
         \/ \E opens \in BOOLEAN : BadRedirect(opens) \/ CreateCommand(opens)
  PROVE  IInv'
<1> USE PipeAssumption DEF Components
<1>t. TypeOK /\ RecordInv /\ LifeInv
  BY DEF IInv
<1>u. ASSUME pc = "create"
      PROVE  /\ errIndex = 0 /\ files \subseteq toClose
             /\ \A k \in Components : cods[k] = ENotStarted /\ proc[k] = "none"
  BY <1>t, <1>u DEF RecordInv, LifeInv, Unreturned
<1>c. cods \in [Components -> Codes] /\ i \in Components
      /\ files \subseteq Components /\ toClose \subseteq Components
      /\ proc \in [Components -> {"none", "running", "ended", "reaped"}]
      /\ N \in Components
  BY <1>t DEF TypeOK, Codes
<1>1. CASE CommandNotFound
  <2>1. [cods EXCEPT ![i] = ENotFound] \in [Components -> Codes]
    BY <1>c DEF Codes
  <2> QED
    BY <1>1, <1>u, <1>c, <2>1, EarlyFailure DEF CommandNotFound, pipeVars
<1>2. CASE BadArguments
  BY <1>2, <1>u, <1>c, EarlyFailure DEF BadArguments, pipeVars
<1>3. ASSUME NEW opens \in BOOLEAN, BadRedirect(opens)
      PROVE  IInv'
  <2> DEFINE opened == files \union (IF opens THEN {i} ELSE {})
             registered == toClose \union Registered(i, opens, FALSE)
  <2>1. opened \subseteq registered /\ registered \subseteq Components
        /\ opened \subseteq Components
    BY <1>3, <1>u, <1>c DEF BadRedirect, Registered
  <2>2. /\ PipeError(i, cods, NoStatus, opened, registered)
        /\ pc \in {"create", "redirect"}
        /\ UNCHANGED <<i, kind, igns, pipeVars, dataVars, procVars>>
    BY <1>3 DEF BadRedirect
  <2>3. /\ cods[i] = ENotStarted /\ proc[i] = "none"
        /\ opened \in SUBSET Components /\ registered \in SUBSET Components
    BY <1>3, <1>u, <1>c, <2>1 DEF BadRedirect
  <2> HIDE DEF opened, registered
  <2> QED
    BY <1>c, <2>1, <2>2, <2>3, EarlyFailure DEF pipeVars
<1>4. ASSUME NEW opens \in BOOLEAN, CreateCommand(opens)
      PROVE  IInv'
  <2>i. /\ i' \in Components
        /\ \/ i = N /\ i' = 1 /\ pc' = "wire"
           \/ i < N /\ i' = i + 1 /\ pc' = pc
    BY <1>4, <1>c, AdvanceFacts DEF CreateCommand
  <2>1. TypeOK'
    BY <1>4, <1>t, <1>c, <2>i DEF CreateCommand, TypeOK, Registered, pipeVars, dataVars, procVars
  <2>2. RecordInv'
    BY <1>4, <1>t, <1>u DEF CreateCommand, RecordInv, Advance, Registered, Unreturned, procVars
  <2>p. pc = "create" /\ UNCHANGED <<piped, proc>>
    BY <1>4 DEF CreateCommand, pipeVars, procVars
  <2>3. PlumbingInv'
    <3>1. piped' = {} /\ 1 .. (1 - 1) = {} /\ 1 < N
      BY <2>p DEF IInv, PlumbingInv
    <3> QED
      BY <2>i, <2>p, <3>1 DEF PlumbingInv
  <2>4. LifeInv' /\ EndsInv'
    BY <1>u, <2>i, <2>p DEF LifeInv, EndsInv
  <2> QED
    BY <1>4, <1>u, <2>1, <2>2, <2>3, <2>4 DEF IInv, CreateCommand, Advance, VerdictInv,
       SuccessIsComplete, BlamesFirstFailure, AllStartedBeforeAnyWait,
       PlumbedBeforeStart, NoFileLeak, Returned, pipeVars, procVars
<1> QED
  BY <1>1, <1>2, <1>3, <1>4

\* Loop 2 and the redirections of the last component.
LEMMA WireSteps ==
  ASSUME IInv,
         \/ WireFails
         \/ WirePipe
         \/ \E opens \in BOOLEAN : LastRedirectFails(opens) \/ LastRedirect(opens)
  PROVE  IInv'
<1> USE PipeAssumption DEF Components
<1>t. TypeOK /\ RecordInv /\ LifeInv /\ PlumbingInv
  BY DEF IInv
<1>u. ASSUME pc \in {"wire", "redirect"}
      PROVE  /\ errIndex = 0 /\ files \subseteq toClose
             /\ \A k \in Components : cods[k] = ENotStarted /\ proc[k] = "none"
  BY <1>t, <1>u DEF RecordInv, LifeInv, Unreturned
<1>c. cods \in [Components -> Codes] /\ i \in Components
      /\ files \subseteq Components /\ toClose \subseteq Components
      /\ proc \in [Components -> {"none", "running", "ended", "reaped"}]
      /\ N \in Components
  BY <1>t DEF TypeOK, Codes
<1>1. CASE WireFails
  BY <1>1, <1>u, <1>c, EarlyFailure DEF WireFails, pipeVars
<1>2. CASE WirePipe
  <2>i. /\ i < N /\ i' \in Components
        /\ \/ i = N - 1 /\ i' = 1 /\ pc' = "redirect"
           \/ i < N - 1 /\ i' = i + 1 /\ pc' = "wire"
    BY <1>2, <1>t, <1>c, AdvanceFacts DEF WirePipe, PlumbingInv
  <2>1. TypeOK'
    BY <1>2, <1>t, <2>i DEF WirePipe, TypeOK, dataVars, procVars
  <2>2. RecordInv'
    BY <1>2, <1>t, <1>u DEF WirePipe, RecordInv, Advance, Unreturned, procVars
  <2>3. PlumbingInv'
    <3>1. pc = "wire" /\ piped' = piped \union {i} /\ piped = 1 .. (i - 1)
      BY <1>2, <1>t DEF WirePipe, PlumbingInv
    <3>2. piped' = 1 .. i
      BY <3>1, <1>c
    <3> QED
      BY <2>i, <3>2, <1>c DEF PlumbingInv
  <2>4. LifeInv' /\ EndsInv'
    BY <1>2, <1>t, <1>u DEF WirePipe, LifeInv, EndsInv, Advance, procVars
  <2> QED
    BY <1>2, <1>u, <2>1, <2>2, <2>3, <2>4 DEF IInv, WirePipe, Advance, VerdictInv,
       SuccessIsComplete, BlamesFirstFailure, AllStartedBeforeAnyWait,
       PlumbedBeforeStart, NoFileLeak, Returned, procVars
<1>3. ASSUME NEW opens \in BOOLEAN, LastRedirectFails(opens)
      PROVE  IInv'
  <2> DEFINE opened == files \union (IF opens THEN {N} ELSE {})
             registered == toClose \union Registered(N, opens, FALSE)
  <2>1. opened \subseteq registered /\ registered \subseteq Components
        /\ opened \subseteq Components
    BY <1>3, <1>u, <1>c DEF LastRedirectFails, Registered
  <2>2. /\ PipeError(N, cods, NoStatus, opened, registered)
        /\ pc \in {"create", "redirect"}
        /\ UNCHANGED <<i, kind, igns, pipeVars, dataVars, procVars>>
    BY <1>3 DEF LastRedirectFails
  <2>3. /\ cods[N] = ENotStarted /\ proc[N] = "none"
        /\ opened \in SUBSET Components /\ registered \in SUBSET Components
    BY <1>3, <1>u, <1>c, <2>1 DEF LastRedirectFails
  <2> HIDE DEF opened, registered
  <2> QED
    BY <1>c, <2>1, <2>2, <2>3, EarlyFailure DEF pipeVars
<1>4. ASSUME NEW opens \in BOOLEAN, LastRedirect(opens)
      PROVE  IInv'
  <2>1. TypeOK'
    BY <1>4, <1>t, SMTT(40) DEF LastRedirect, TypeOK, Registered, pipeVars, dataVars, procVars
  <2>2. RecordInv'
    BY <1>4, <1>t, <1>u DEF LastRedirect, RecordInv, Registered, Unreturned, procVars
  <2>3. PlumbingInv' /\ LifeInv' /\ EndsInv'
    BY <1>4, <1>t, <1>u DEF LastRedirect, PlumbingInv, LifeInv, EndsInv, pipeVars, procVars
  <2> QED
    BY <1>4, <1>u, <2>1, <2>2, <2>3 DEF IInv, LastRedirect, VerdictInv,
       SuccessIsComplete, BlamesFirstFailure, AllStartedBeforeAnyWait,
       PlumbedBeforeStart, NoFileLeak, Returned, pipeVars, procVars
<1> QED
  BY <1>1, <1>2, <1>3, <1>4

\* Loop 3.
LEMMA StartSteps ==
  ASSUME IInv, StartFails \/ StartCommand
  PROVE  IInv'
<1> USE PipeAssumption DEF Components
<1>t. TypeOK /\ RecordInv /\ LifeInv /\ PlumbingInv
  BY DEF IInv
<1>u. /\ pc = "start" /\ errIndex = 0 /\ files \subseteq toClose
      /\ \A k \in Components : IF k < i THEN proc[k] \in {"running", "ended"}
                                        ELSE proc[k] = "none"
      /\ cods[i] = ENotStarted /\ piped = 1 .. (N - 1)
  BY <1>t DEF RecordInv, LifeInv, PlumbingInv, Unreturned, StartFails, StartCommand, TypeOK
<1>c. cods \in [Components -> Codes] /\ i \in Components
      /\ files \subseteq Components /\ toClose \subseteq Components
      /\ proc \in [Components -> {"none", "running", "ended", "reaped"}]
      /\ proc[i] = "none"
  BY <1>t, <1>u DEF TypeOK, Codes
<1>1. CASE StartFails
  BY <1>1, <1>u, <1>c, EarlyFailure DEF StartFails
<1>2. CASE StartCommand
  <2>i. /\ i' \in Components
        /\ \/ i = N /\ i' = 1 /\ pc' = "wait"
           \/ i < N /\ i' = i + 1 /\ pc' = pc
    BY <1>2, <1>c, AdvanceFacts DEF StartCommand
  <2>1. TypeOK'
    BY <1>2, <1>t, <2>i DEF StartCommand, TypeOK, Codes, dataVars
  <2>2. RecordInv'
    BY <1>2, <1>t, <1>u DEF StartCommand, RecordInv, TypeOK, Advance, Unreturned
  <2>3. PlumbingInv'
    BY <1>2, <1>u DEF StartCommand, PlumbingInv, Advance
  <2>4. LifeInv'
    BY <1>2, <1>c, <1>u, <2>i DEF StartCommand, LifeInv
  <2>5. EndsInv'
    BY <1>2, <1>u DEF StartCommand, EndsInv, Advance
  <2>6. AllStartedBeforeAnyWait' /\ PlumbedBeforeStart'
    BY <1>2, <1>t, <1>u DEF StartCommand, TypeOK, AllStartedBeforeAnyWait, PlumbedBeforeStart
  <2>7. pc' # "returned"
    BY <1>2, <1>u DEF StartCommand, Advance
  <2> QED
    BY <2>1, <2>2, <2>3, <2>4, <2>5, <2>6, <2>7 DEF IInv, VerdictInv, SuccessIsComplete,
       BlamesFirstFailure, NoFileLeak, Returned
<1> QED
  BY <1>1, <1>2

\* Loop 4.
LEMMA WaitSteps ==
  ASSUME IInv, WaitFails \/ WaitCommand
  PROVE  IInv'
<1> USE PipeAssumption DEF Components
<1>t. TypeOK /\ RecordInv /\ LifeInv /\ PlumbingInv /\ EndsInv
  BY DEF IInv
<1>u. /\ pc = "wait" /\ errIndex = 0 /\ files \subseteq toClose
      /\ \A k \in Components : IF k < i THEN proc[k] = "reaped" /\ result[k] = "0"
                                        ELSE proc[k] \in {"running", "ended"}
      /\ \A k \in Components : cods[k] = "0"
      /\ \A k \in Components : k < i => k \notin readEnds \union writeEnds
      /\ piped = 1 .. (N - 1)
  BY <1>t DEF RecordInv, LifeInv, PlumbingInv, EndsInv, Unreturned, WaitFails, WaitCommand,
     Reap, TypeOK
<1>c. cods \in [Components -> Codes] /\ i \in Components
      /\ files \subseteq Components /\ toClose \subseteq Components
      /\ proc \in [Components -> {"none", "running", "ended", "reaped"}]
      /\ N \in Components
  BY <1>t DEF TypeOK, Codes
<1>1. CASE WaitFails
  <2>1. /\ pc' = "returned" /\ errIndex' = i
        /\ ret' \in Verdicts
        /\ files' = {} /\ toClose' = toClose
        /\ cods' = [cods EXCEPT ![i] = GetErrStatus(result[i], cods[i])]
        /\ cods' \in [Components -> Codes]
    BY <1>1, <1>u, <1>c, PipeErrorFacts DEF WaitFails
  <2>2. TypeOK'
    BY <1>1, <1>t, <2>1, SMTT(40) DEF WaitFails, Reap, TypeOK, Codes, dataVars
  <2>3. proc' = [proc EXCEPT ![i] = "reaped"] /\ UNCHANGED <<result, piped>>
    BY <1>1 DEF WaitFails, Reap
  <2>4. VerdictInv'
    BY <1>u, <1>c, <1>t, <2>1, <2>3 DEF VerdictInv, GetErrStatus, TypeOK
  <2>5. BlamesFirstFailure'
    <3>1. \A k \in Components \ {i} : IF k < i THEN proc'[k] = "reaped" /\ result'[k] = "0"
                                              ELSE proc'[k] # "reaped"
      BY <1>u, <1>c, <2>3
    <3> QED
      BY <2>1, <3>1 DEF BlamesFirstFailure
  <2>6. AllStartedBeforeAnyWait' /\ PlumbedBeforeStart'
    BY <1>u, <1>c, <1>t, <2>3 DEF AllStartedBeforeAnyWait, PlumbedBeforeStart, TypeOK
  <2> QED
    BY <1>c, <2>1, <2>2, <2>4, <2>5, <2>6 DEF IInv, PlumbingInv, LifeInv, RecordInv, EndsInv,
       Unreturned, SuccessIsComplete, NoFileLeak, Returned
<1>2. CASE WaitCommand
  <2>1. /\ proc[i] = "ended" /\ result[i] = "0"
        /\ proc' = [proc EXCEPT ![i] = "reaped"] /\ cods' = [cods EXCEPT ![i] = "0"]
        /\ readEnds' = readEnds \ {i} /\ writeEnds' = writeEnds \ {i}
        /\ UNCHANGED <<kind, igns, errIndex, piped, buf, todo, result>>
    BY <1>2 DEF WaitCommand, Reap, Failed, dataVars
  <2>2. cods' = cods
    BY <1>u, <1>c, <2>1
  <2>3. AllStartedBeforeAnyWait' /\ PlumbedBeforeStart'
    BY <1>u, <1>c, <1>t, <2>1, SMTT(40) DEF AllStartedBeforeAnyWait, PlumbedBeforeStart, TypeOK
  <2>4. CASE i < N
    <3>1. i' = i + 1 /\ UNCHANGED <<pc, ret, files, toClose>>
      BY <1>2, <2>4 DEF WaitCommand
    <3>2. TypeOK'
      <4>1. i' \in Components
        BY <1>c, <2>4, <3>1
      <4> QED
        BY <1>t, <2>1, <2>2, <3>1, <4>1 DEF TypeOK
    <3>3. RecordInv'
      <4>1. \A k \in Components : proc'[k] # "none"
        BY <1>u, <1>c, <2>1
      <4> QED
        BY <1>u, <2>1, <2>2, <3>1, <4>1 DEF RecordInv
    <3>4. PlumbingInv' /\ LifeInv' /\ EndsInv'
      BY <1>u, <1>c, <1>t, <2>1, <3>1, SMTT(40) DEF PlumbingInv, LifeInv, EndsInv, TypeOK
    <3> QED
      BY <1>u, <2>3, <3>1, <3>2, <3>3, <3>4 DEF IInv, VerdictInv, SuccessIsComplete,
         BlamesFirstFailure, NoFileLeak, Returned
  <2>5. CASE i = N
    <3>1. pc' = "returned" /\ ret' = [status |-> <<"0">>, failed |-> FALSE]
          /\ files' = files \ toClose /\ toClose' = toClose /\ i' = i
      BY <1>2, <2>5 DEF WaitCommand, Return
    <3>2. ret' \in Verdicts
      BY <3>1 DEF Codes, Verdicts
    <3>3. TypeOK'
      BY <1>t, <2>1, <2>2, <3>1, <3>2 DEF TypeOK, Codes
    <3>4. SuccessIsComplete'
      <4>1. \A k \in Components : proc'[k] = "reaped" /\ result'[k] = "0"
        BY <1>u, <1>c, <2>1, <2>5
      <4>2. readEnds' = {} /\ writeEnds' = {}
        BY <1>u, <1>c, <1>t, <2>1, <2>5 DEF TypeOK
      <4> QED
        BY <4>1, <4>2 DEF SuccessIsComplete
    <3> QED
      BY <1>u, <2>1, <2>2, <2>3, <3>1, <3>3, <3>4 DEF IInv, PlumbingInv, LifeInv, RecordInv,
         EndsInv, VerdictInv, Unreturned, BlamesFirstFailure, NoFileLeak, Returned
  <2> QED
    BY <1>c, <2>4, <2>5
<1> QED
  BY <1>1, <1>2

-----------------------------------------------------------------------------
(* The invariant is preserved by every step of a component.                *)

\* Components never touch what the shell has recorded, and a component that
\* was reaped or never started takes no step of its own.
LEMMA ComponentSteps ==
  ASSUME IInv, NEW k \in Components, ComponentStep(k)
  PROVE  IInv'
<1> USE PipeAssumption
<1>t. TypeOK
  BY DEF IInv
<1>1. CASE Write(k)
  <2>1. k \in Components /\ todo[k] \in 0 .. MaxOut /\ todo[k] > 0
        /\ buf[k] \in 0 .. Cap /\ (k < N => buf[k] < Cap)
    BY <1>1, <1>t DEF Write, TypeOK
  <2>2. buf' \in [Components -> 0 .. Cap] /\ todo' \in [Components -> 0 .. MaxOut]
    BY <1>1, <1>t, <2>1 DEF Write, TypeOK
  <2>3. TypeOK'
    BY <1>1, <1>t, <2>2 DEF Write, TypeOK, shellVars, pipeVars, procVars
  <2> QED
    BY <1>1, <2>3 DEF Write, IInv, shellVars, pipeVars, procVars, PlumbingInv, LifeInv,
       RecordInv, EndsInv, VerdictInv, Unreturned, SuccessIsComplete, BlamesFirstFailure,
       AllStartedBeforeAnyWait, PlumbedBeforeStart, NoFileLeak, Returned
<1>2. CASE Read(k)
  <2>1. k - 1 \in Components /\ buf[k - 1] \in 0 .. Cap /\ buf[k - 1] > 0
    BY <1>2, <1>t DEF Read, ReadsPipe, TypeOK, Components
  <2>2. buf' \in [Components -> 0 .. Cap]
    BY <1>2, <1>t, <2>1 DEF Read, TypeOK
  <2>3. TypeOK'
    BY <1>2, <1>t, <2>2 DEF Read, TypeOK, shellVars, pipeVars, procVars
  <2> QED
    BY <1>2, <2>3 DEF Read, IInv, shellVars, pipeVars, procVars, PlumbingInv, LifeInv,
       RecordInv, EndsInv, VerdictInv, Unreturned, SuccessIsComplete, BlamesFirstFailure,
       AllStartedBeforeAnyWait, PlumbedBeforeStart, NoFileLeak, Returned
<1>3. CASE BrokenPipe(k) \/ End(k)
  <2>1. /\ proc[k] = "running" /\ proc' = [proc EXCEPT ![k] = "ended"]
        /\ \E r \in Results : result' = [result EXCEPT ![k] = r]
        /\ UNCHANGED <<shellVars, pipeVars, dataVars>>
    BY <1>3 DEF BrokenPipe, End, Endings
  <2>2. /\ proc \in [Components -> {"none", "running", "ended", "reaped"}]
        /\ result \in [Components -> Results \union {"none"}]
        /\ errIndex \in 0 .. N
    BY <1>t DEF TypeOK
  <2>3. /\ \A j \in Components : proc'[j] = IF j = k THEN "ended" ELSE proc[j]
        /\ \A j \in Components \ {k} : result'[j] = result[j]
    BY <2>1, <2>2
  <2>4. TypeOK'
    BY <1>t, <2>1, <2>2 DEF TypeOK, shellVars, pipeVars, dataVars
  <2>5. PlumbingInv' /\ LifeInv' /\ RecordInv' /\ EndsInv'
    BY <2>1, <2>3 DEF IInv, PlumbingInv, LifeInv, RecordInv, EndsInv, Unreturned,
       shellVars, pipeVars
  <2>6. VerdictInv' /\ SuccessIsComplete' /\ BlamesFirstFailure'
    BY <2>1, <2>2, <2>3 DEF IInv, VerdictInv, SuccessIsComplete, BlamesFirstFailure,
       Returned, shellVars, pipeVars
  <2>7. AllStartedBeforeAnyWait' /\ PlumbedBeforeStart' /\ NoFileLeak'
    BY <2>1, <2>3 DEF IInv, AllStartedBeforeAnyWait, PlumbedBeforeStart, NoFileLeak,
       Returned, shellVars, pipeVars
  <2> QED
    BY <2>4, <2>5, <2>6, <2>7 DEF IInv
<1>4. CASE Collect(k)
  <2>1. TypeOK'
    BY <1>4, <1>t DEF Collect, TypeOK, shellVars, dataVars, procVars
  <2> QED
    BY <1>4, <2>1 DEF Collect, IInv, shellVars, procVars, PlumbingInv, LifeInv,
       RecordInv, EndsInv, VerdictInv, Unreturned, SuccessIsComplete, BlamesFirstFailure,
       AllStartedBeforeAnyWait, PlumbedBeforeStart, NoFileLeak, Returned
<1> QED
  BY <1>1, <1>2, <1>3, <1>4 DEF ComponentStep

LEMMA NextIInv == IInv /\ [Next]_vars => IInv'
<1> SUFFICES ASSUME IInv, [Next]_vars PROVE IInv'
  OBVIOUS
<1>1. CASE ShellStep
  BY <1>1, CreateSteps, WireSteps, StartSteps, WaitSteps DEF ShellStep
<1>2. ASSUME NEW k \in Components, ComponentStep(k) PROVE IInv'
  BY <1>2, ComponentSteps
<1>3. CASE UNCHANGED vars
  BY <1>3 DEF vars, shellVars, pipeVars, dataVars, procVars, IInv, TypeOK, PlumbingInv,
     LifeInv, RecordInv, EndsInv, VerdictInv, Unreturned, SuccessIsComplete,
     BlamesFirstFailure, AllStartedBeforeAnyWait, PlumbedBeforeStart, NoFileLeak, Returned
<1> QED
  BY <1>1, <1>2, <1>3 DEF Next

\* The inductive invariant holds of every pipe statement.
THEOREM Inductive == Spec => []IInv
BY InitIInv, NextIInv, PTL DEF Spec

-----------------------------------------------------------------------------
(* The properties, for every value of the constants.                       *)

\* Every variable of executePipe keeps its type.
THEOREM TypeCorrect == Spec => []TypeOK
<1>1. IInv => TypeOK
  BY DEF IInv
<1> QED
  BY <1>1, Inductive, PTL

\* A pipe statement that blames nobody has waited for all its components,
\* all of them succeeded and the shell has closed every pipe.
THEOREM SuccessTheorem == Spec => []SuccessIsComplete
<1>1. IInv => SuccessIsComplete
  BY DEF IInv
<1> QED
  BY <1>1, Inductive, PTL

\* The component blamed is the first failure in the order of waiting.
THEOREM BlameTheorem == Spec => []BlamesFirstFailure
<1>1. IInv => BlamesFirstFailure
  BY DEF IInv
<1> QED
  BY <1>1, Inductive, PTL

\* A code in the status other than "0" is a real exit status or belongs to a
\* component that never started.
THEOREM CodeTheorem == Spec => []NonZeroCodeIsReal
<1>1. IInv => NonZeroCodeIsReal
  BY DEF IInv, VerdictInv, NonZeroCodeIsReal
<1> QED
  BY <1>1, Inductive, PTL

\* Everything is wired before anything runs, and everything runs before
\* anything is waited for.
THEOREM OrderTheorem == Spec => [](PlumbedBeforeStart /\ AllStartedBeforeAnyWait)
<1>1. IInv => PlumbedBeforeStart /\ AllStartedBeforeAnyWait
  BY DEF IInv
<1> QED
  BY <1>1, Inductive, PTL

\* No redirection file stays open whichever step fails.
THEOREM FileTheorem == Spec => []NoFileLeak
<1>1. IInv => NoFileLeak
  BY DEF IInv
<1> QED
  BY <1>1, Inductive, PTL

-----------------------------------------------------------------------------
(***************************************************************************)
(* Capture                                                                 *)
(***************************************************************************)

CopyTypes ==
  /\ pend \in [Components -> [Buffers -> 0 .. Cap]]
  /\ seen \in [Components -> [Buffers -> Nat \union {Idle}]]
  /\ held \in [Buffers -> Nat]
  /\ given \in [Buffers -> Nat]
  /\ writers \in [Buffers -> SUBSET Components]

\* A goroutine is in a write only with a chunk, and only for a component that
\* wrote one; Wait leaves it none.
CopyInv ==
  \A k \in Components : \A b \in Buffers :
    /\ seen[k][b] # Idle => pend[k][b] > 0
    /\ pend[k][b] > 0 => k \in writers[b]
    /\ proc[k] = "reaped" => pend[k][b] = 0

\* While one component has written to a buffer, every chunk it gave is in the
\* buffer or with its goroutine, and that one appends at the end.
SingleInv ==
  \A k \in Components : \A b \in Buffers :
    writers[b] \subseteq {k} =>
      /\ held[b] + pend[k][b] = given[b]
      /\ seen[k][b] # Idle => seen[k][b] = held[b]

TakenInv == taken => Returned

\* The shell holds the write end of a pipe until its writer is started, and
\* when that is a function of the shell, until it has ended.
HoldsInv ==
  \A k \in 1 .. (N - 1) :
    /\ k \in piped /\ proc[k] = "none" /\ ~Returned => k \in writeEnds
    /\ kind[k] # "cmd" /\ proc[k] = "running" => k \in writeEnds

\* A command that succeeded, having read to end of file, left its pipe empty
\* and nobody writes to it any more. The last component has no pipe.
DrainInv ==
  /\ buf[N] = 0
  /\ ~EarlyExit =>
       \A k \in 2 .. N :
         kind[k] = "cmd" /\ proc[k] \in {"ended", "reaped"} /\ result[k] = "0" =>
           buf[k - 1] = 0 /\ ~WriterOpen(k - 1)

CInv ==
  /\ CopyTypes
  /\ CopyInv
  /\ SingleInv
  /\ TakenInv
  /\ HoldsInv
  /\ DrainInv

-----------------------------------------------------------------------------
(* Capture constrains Pipe: its steps are steps of Pipe or leave it alone. *)

LEMMA CaptureStepIsPipeStep == CaptureNext => [Next]_vars
<1> SUFFICES ASSUME CaptureNext PROVE Next \/ UNCHANGED vars
  OBVIOUS
<1>1. CASE CaptureShell
  <2>1. ASSUME NEW rs \in RedirectLists, CreateCommand(Opens(rs)) \/ LastRedirect(Opens(rs))
        PROVE  Next
    <3>1. Opens(rs) \in BOOLEAN
      BY DEF Opens
    <3> QED
      BY <2>1, <3>1 DEF Next, ShellStep
  <2>2. CASE Create
    BY <2>1, <2>2 DEF Create
  <2>3. CASE RedirectLast
    BY <2>1, <2>3 DEF RedirectLast
  <2>4. CASE Wire \/ Fails \/ Start \/ Wait
    BY <2>4 DEF Wire, Fails, Start, Wait, Next, ShellStep
  <2>5. CASE Take
    BY <2>5 DEF Take
  <2> QED
    BY <1>1, <2>2, <2>3, <2>4, <2>5 DEF CaptureShell
<1>2. ASSUME NEW k \in Components, WriteOut(k) \/ WriteErr(k) \/ Copy(k) \/ Rest(k)
      PROVE  Next \/ UNCHANGED vars
  <2>1. CASE WriteOut(k)
    BY <2>1 DEF WriteOut, Next, ComponentStep
  <2>2. CASE WriteErr(k) \/ Copy(k)
    BY <2>2 DEF WriteErr, Copy, CopyBegins, CopyEnds
  <2>3. CASE Rest(k)
    BY <2>3 DEF Rest, Ends, Next, ComponentStep
  <2> QED
    BY <1>2, <2>1, <2>2, <2>3
<1> QED
  BY <1>1, <1>2 DEF CaptureNext

LEMMA CaptureIsPipe == CaptureSpec => Spec
<1>1. CaptureInit => Init
  BY DEF CaptureInit
<1>2. [CaptureNext]_allVars => [Next]_vars
  BY CaptureStepIsPipeStep DEF allVars
<1> QED
  BY <1>1, <1>2, PTL DEF CaptureSpec, Spec

-----------------------------------------------------------------------------
(* The pipes.                                                              *)

LEMMA HoldsStep ==
  ASSUME IInv, HoldsInv, [Next]_vars
  PROVE  HoldsInv'
<1> USE PipeAssumption DEF Components
<1>t. /\ i \in Components /\ piped \subseteq Components
      /\ writeEnds \subseteq piped
      /\ proc \in [Components -> {"none", "running", "ended", "reaped"}]
  BY DEF IInv, TypeOK
<1>1. CASE \/ CommandNotFound \/ BadArguments \/ WireFails
           \/ \E opens \in BOOLEAN : BadRedirect(opens) \/ LastRedirectFails(opens)
  <2>1. pc' = "returned" /\ UNCHANGED <<kind, proc, piped, writeEnds>>
    BY <1>1 DEF CommandNotFound, BadArguments, WireFails, BadRedirect, LastRedirectFails,
       PipeError, Return, pipeVars, procVars
  <2> QED
    BY <2>1 DEF HoldsInv, Returned
<1>2. CASE \E opens \in BOOLEAN : CreateCommand(opens) \/ LastRedirect(opens)
  <2>1. pc # "returned" /\ UNCHANGED <<kind, proc, piped, writeEnds>>
    BY <1>2 DEF CreateCommand, LastRedirect, pipeVars, procVars
  <2> QED
    BY <2>1 DEF HoldsInv, Returned
<1>3. CASE WirePipe
  <2>1. /\ pc = "wire" /\ UNCHANGED <<kind, proc>>
        /\ piped' = piped \union {i} /\ writeEnds' = writeEnds \union {i}
    BY <1>3 DEF WirePipe, procVars
  <2> QED
    BY <2>1 DEF HoldsInv, Returned
<1>4. CASE StartFails
  <2>1. /\ pc' = "returned" /\ UNCHANGED <<kind, proc>>
        /\ kind[i] = "cmd" /\ writeEnds' = writeEnds \ {i}
    BY <1>4 DEF StartFails, PipeError, Return, procVars
  <2> QED
    BY <2>1 DEF HoldsInv, Returned
<1>5. CASE StartCommand
  <2>1. /\ pc = "start" /\ UNCHANGED <<kind, piped>>
        /\ proc' = [proc EXCEPT ![i] = "running"]
        /\ writeEnds' = IF kind[i] = "cmd" THEN writeEnds \ {i} ELSE writeEnds
    BY <1>5 DEF StartCommand
  <2>2. proc[i] = "none" /\ piped = 1 .. (N - 1)
    BY <1>t, <2>1 DEF IInv, LifeInv, PlumbingInv
  <2>3. i < N => i \in writeEnds
    BY <1>t, <2>1, <2>2 DEF HoldsInv, Returned
  <2> QED
    BY <1>t, <2>1, <2>2, <2>3 DEF HoldsInv, Returned
<1>6. CASE WaitFails \/ WaitCommand
  <2>1. /\ pc = "wait" /\ UNCHANGED <<kind, piped>>
        /\ proc' = [proc EXCEPT ![i] = "reaped"] /\ writeEnds' = writeEnds \ {i}
    BY <1>6 DEF WaitFails, WaitCommand, Reap
  <2> QED
    BY <1>t, <2>1 DEF HoldsInv, Returned
<1>7. ASSUME NEW k \in Components, ComponentStep(k) PROVE HoldsInv'
  <2>1. CASE Write(k) \/ Read(k)
    BY <2>1 DEF Write, Read, HoldsInv, Returned, shellVars, pipeVars, procVars
  <2>2. CASE BrokenPipe(k) \/ End(k)
    <3>1. /\ proc' = [proc EXCEPT ![k] = "ended"]
          /\ UNCHANGED <<pc, kind, piped, writeEnds>>
      BY <2>2 DEF BrokenPipe, End, shellVars, pipeVars
    <3> QED
      BY <1>t, <3>1 DEF HoldsInv, Returned
  <2>3. CASE Collect(k)
    <3>1. /\ pc = "returned" /\ writeEnds' = writeEnds \ {k}
          /\ ~(kind[k] # "cmd" /\ proc[k] \in {"running", "ended"})
          /\ UNCHANGED <<pc, kind, piped, proc>>
      BY <2>3 DEF Collect, Holds, shellVars, procVars
    <3> QED
      BY <3>1 DEF HoldsInv, Returned
  <2> QED
    BY <1>7, <2>1, <2>2, <2>3 DEF ComponentStep
<1>8. CASE UNCHANGED vars
  BY <1>8 DEF vars, shellVars, pipeVars, procVars, HoldsInv, Returned
<1> QED
  BY <1>1, <1>2, <1>3, <1>4, <1>5, <1>6, <1>7, <1>8 DEF Next, ShellStep

\* What a step of Pipe may do to a pipe and its two components: the pipe is
\* filled by its writer, and drained once its reader ends with success.
LEMMA DrainStep ==
  ASSUME IInv, HoldsInv, DrainInv, [Next]_vars
  PROVE  DrainInv'
<1> USE PipeAssumption DEF Components
<1>t. /\ i \in Components /\ N \in Components
      /\ writeEnds \subseteq piped /\ piped \subseteq Components
      /\ proc \in [Components -> {"none", "running", "ended", "reaped"}]
      /\ result \in [Components -> Results \union {"none"}]
      /\ buf \in [Components -> 0 .. Cap]
  BY DEF IInv, TypeOK
<1> DEFINE Drained(k) == kind[k] = "cmd" /\ proc[k] \in {"ended", "reaped"} /\ result[k] = "0" =>
                           buf[k - 1] = 0 /\ ~WriterOpen(k - 1)
<1>d. buf[N] = 0 /\ (~EarlyExit => \A k \in 2 .. N : Drained(k))
  BY DEF DrainInv
<1>g. SUFFICES buf'[N] = 0 /\ (~EarlyExit => \A k \in 2 .. N : Drained(k)')
  BY DEF DrainInv
<1>1. CASE UNCHANGED <<kind, proc, result, buf>> /\ writeEnds' \subseteq writeEnds
  BY <1>1, <1>d DEF WriterOpen
<1>2. CASE WirePipe
  <2>1. pc = "wire" /\ UNCHANGED <<buf, proc>>
    BY <1>2 DEF WirePipe, dataVars, procVars
  <2>2. \A k \in Components : proc[k] = "none"
    BY <2>1 DEF IInv, LifeInv
  <2> QED
    BY <1>d, <2>1, <2>2
<1>3. CASE StartCommand
  <2>1. /\ pc = "start" /\ UNCHANGED <<kind, buf, result>>
        /\ proc' = [proc EXCEPT ![i] = "running"] /\ writeEnds' \subseteq writeEnds
    BY <1>3 DEF StartCommand, dataVars
  <2>2. \A k \in Components : IF k < i THEN proc[k] \in {"running", "ended"}
                                       ELSE proc[k] = "none"
    BY <2>1 DEF IInv, LifeInv
  <2>3. ASSUME NEW k \in 2 .. N, ~EarlyExit, kind'[k] = "cmd",
               proc'[k] \in {"ended", "reaped"}, result'[k] = "0"
        PROVE  buf'[k - 1] = 0 /\ ~WriterOpen(k - 1)'
    <3>1. k # i /\ proc[k] \in {"ended", "reaped"}
      BY <1>t, <2>1, <2>3
    <3>2. k < i /\ k - 1 \in Components /\ k - 1 # i
      BY <1>t, <2>2, <3>1
    <3>3. buf[k - 1] = 0 /\ ~WriterOpen(k - 1)
      BY <1>d, <2>1, <2>3, <3>1
    <3> QED
      BY <1>t, <2>1, <3>2, <3>3 DEF WriterOpen
  <2> QED
    BY <1>d, <2>1, <2>3
<1>4. CASE WaitFails \/ WaitCommand
  <2>1. /\ proc[i] = "ended" /\ UNCHANGED <<kind, buf, result>>
        /\ proc' = [proc EXCEPT ![i] = "reaped"] /\ writeEnds' \subseteq writeEnds
    BY <1>4 DEF WaitFails, WaitCommand, Reap, dataVars
  <2>2. ASSUME NEW k \in 2 .. N, ~EarlyExit, kind'[k] = "cmd",
               proc'[k] \in {"ended", "reaped"}, result'[k] = "0"
        PROVE  buf'[k - 1] = 0 /\ ~WriterOpen(k - 1)'
    <3>1. proc[k] \in {"ended", "reaped"} /\ k - 1 \in Components
      BY <1>t, <2>1, <2>2
    <3>2. buf[k - 1] = 0 /\ ~WriterOpen(k - 1)
      BY <1>d, <2>1, <2>2, <3>1
    <3> QED
      BY <1>t, <2>1, <3>1, <3>2 DEF WriterOpen
  <2> QED
    BY <1>d, <2>1, <2>2
<1>5. ASSUME NEW k \in Components, Write(k)
      PROVE  buf'[N] = 0 /\ (~EarlyExit => \A j \in 2 .. N : Drained(j)')
  <2>1. /\ proc[k] = "running" /\ UNCHANGED <<kind, proc, result, writeEnds>>
        /\ buf' = IF k < N THEN [buf EXCEPT ![k] = @ + 1] ELSE buf
    BY <1>5 DEF Write, shellVars, pipeVars, procVars
  <2>2. k < N => WriterOpen(k)
    BY <1>t, <2>1 DEF HoldsInv, WriterOpen
  <2>3. ASSUME NEW j \in 2 .. N, ~EarlyExit, kind'[j] = "cmd",
               proc'[j] \in {"ended", "reaped"}, result'[j] = "0"
        PROVE  buf'[j - 1] = 0 /\ ~WriterOpen(j - 1)'
    <3>1. buf[j - 1] = 0 /\ ~WriterOpen(j - 1) /\ j - 1 \in Components /\ j - 1 < N
      BY <1>d, <2>1, <2>3
    <3>2. j - 1 # k
      BY <2>2, <3>1
    <3> QED
      BY <1>t, <2>1, <3>1, <3>2 DEF WriterOpen
  <2> QED
    BY <1>t, <1>d, <2>1, <2>3
<1>6. ASSUME NEW k \in Components, Read(k)
      PROVE  buf'[N] = 0 /\ (~EarlyExit => \A j \in 2 .. N : Drained(j)')
  <2>1. /\ k > 1 /\ buf[k - 1] > 0 /\ UNCHANGED <<kind, proc, result, writeEnds>>
        /\ buf' = [buf EXCEPT ![k - 1] = @ - 1]
    BY <1>6 DEF Read, ReadsPipe, shellVars, pipeVars, procVars
  <2>2. ASSUME NEW j \in 2 .. N, ~EarlyExit, kind'[j] = "cmd",
               proc'[j] \in {"ended", "reaped"}, result'[j] = "0"
        PROVE  buf'[j - 1] = 0 /\ ~WriterOpen(j - 1)'
    <3>1. buf[j - 1] = 0 /\ ~WriterOpen(j - 1) /\ j - 1 \in Components
      BY <1>d, <2>1, <2>2
    <3>2. j - 1 # k - 1
      BY <2>1, <3>1
    <3> QED
      BY <1>t, <2>1, <3>1, <3>2 DEF WriterOpen
  <2> QED
    BY <1>t, <1>d, <2>1, <2>2
<1>7. ASSUME NEW k \in Components, BrokenPipe(k) \/ End(k)
      PROVE  buf'[N] = 0 /\ (~EarlyExit => \A j \in 2 .. N : Drained(j)')
  <2>1. /\ proc[k] = "running" /\ UNCHANGED <<kind, buf, writeEnds>>
        /\ proc' = [proc EXCEPT ![k] = "ended"]
        /\ \E r \in Results : result' = [result EXCEPT ![k] = r]
    BY <1>7 DEF BrokenPipe, End, Endings, shellVars, pipeVars, dataVars
  <2>2. ~EarlyExit /\ result'[k] = "0" => AtEOF(k)
    <3>1. CASE BrokenPipe(k)
      BY <1>t, <3>1 DEF BrokenPipe
    <3>2. CASE End(k)
      BY <3>2 DEF End
    <3> QED
      BY <1>7, <3>1, <3>2
  <2>3. ASSUME NEW j \in 2 .. N, ~EarlyExit, kind'[j] = "cmd",
               proc'[j] \in {"ended", "reaped"}, result'[j] = "0"
        PROVE  buf'[j - 1] = 0 /\ ~WriterOpen(j - 1)'
    <3>1. j \in Components /\ j - 1 \in Components
      OBVIOUS
    <3>2. buf[j - 1] = 0 /\ ~WriterOpen(j - 1)
      <4>1. CASE j = k
        BY <2>1, <2>2, <2>3, <4>1 DEF AtEOF, ReadsPipe
      <4>2. CASE j # k
        <5>1. proc[j] = proc'[j] /\ result[j] = result'[j]
          BY <1>t, <2>1, <3>1, <4>2
        <5> QED
          BY <1>d, <2>1, <2>3, <5>1
      <4> QED
        BY <4>1, <4>2
    <3> QED
      BY <1>t, <2>1, <3>1, <3>2 DEF WriterOpen
  <2> QED
    BY <1>d, <2>1, <2>3
<1> HIDE DEF Drained
<1>8. ASSUME CommandNotFound \/ BadArguments \/ WireFails \/ StartFails
              \/ \E opens \in BOOLEAN : \/ BadRedirect(opens) \/ LastRedirectFails(opens)
                                        \/ CreateCommand(opens) \/ LastRedirect(opens)
      PROVE  UNCHANGED <<kind, proc, result, buf>> /\ writeEnds' \subseteq writeEnds
  BY <1>8 DEF CommandNotFound, BadArguments, WireFails, StartFails, BadRedirect,
     LastRedirectFails, CreateCommand, LastRedirect, pipeVars, dataVars, procVars
<1>9. ASSUME UNCHANGED vars \/ \E k \in Components : Collect(k)
      PROVE  UNCHANGED <<kind, proc, result, buf>> /\ writeEnds' \subseteq writeEnds
  BY <1>9 DEF Collect, vars, shellVars, pipeVars, dataVars, procVars
<1> QED
  BY <1>1, <1>2, <1>3, <1>4, <1>5, <1>6, <1>7, <1>8, <1>9 DEF Next, ShellStep, ComponentStep

-----------------------------------------------------------------------------
(* The buffers.                                                            *)

\* To the goroutines every step is one of four: a chunk is written towards a
\* buffer, a copy begins, a copy ends, or none of this, and then only a
\* component whose output was all copied is reaped.
LEMMA CopyShapes ==
  ASSUME CaptureNext, TypeOK
  PROVE  \/ \E k \in Components : \E b \in Buffers :
              \/ /\ proc[k] = "running" /\ UNCHANGED <<proc, seen, held>>
                 /\ PutTo(k, b)
              \/ CopyBegins(k, b)
              \/ CopyEnds(k, b)
         \/ /\ UNCHANGED <<pend, seen, held, given, writers>>
            /\ \A k \in Components : proc'[k] = "reaped" => proc[k] = "reaped" \/ Copied(k)
<1>t. proc \in [Components -> {"none", "running", "ended", "reaped"}] /\ i \in Components
  BY DEF TypeOK
<1>1. CASE CaptureShell
  <2>1. UNCHANGED <<pend, seen, held, given, writers>>
    BY <1>1 DEF CaptureShell, Create, Wire, RedirectLast, Fails, Start, Wait, Take, captureVars
  <2>2. CASE Create \/ Wire \/ RedirectLast \/ Fails \/ Take
    <3>1. UNCHANGED proc
      BY <2>2 DEF Create, Wire, RedirectLast, Fails, Take, CreateCommand, WirePipe, LastRedirect,
         CommandNotFound, BadArguments, WireFails, StartFails, BadRedirect, LastRedirectFails,
         vars, procVars
    <3> QED
      BY <2>1, <3>1
  <2>3. CASE Start
    <3>1. proc' = [proc EXCEPT ![i] = "running"]
      BY <2>3 DEF Start, StartCommand
    <3> QED
      BY <1>t, <2>1, <3>1
  <2>4. CASE Wait
    <3>1. proc' = [proc EXCEPT ![i] = "reaped"] /\ Copied(i)
      BY <2>4 DEF Wait, WaitFails, WaitCommand, Reap
    <3> QED
      BY <1>t, <2>1, <3>1
  <2> QED
    BY <1>1, <2>2, <2>3, <2>4 DEF CaptureShell
<1>2. ASSUME NEW k \in Components, WriteOut(k) \/ WriteErr(k)
      PROVE  \/ \E b \in Buffers : /\ proc[k] = "running" /\ UNCHANGED <<proc, seen, held>>
                                   /\ PutTo(k, b)
             \/ UNCHANGED <<proc, pend, seen, held, given, writers>>
  <2>1. CASE WriteOut(k)
    <3>1. proc[k] = "running" /\ UNCHANGED proc
      BY <2>1 DEF WriteOut, Write, procVars
    <3> QED
      BY <2>1, <3>1 DEF WriteOut, captureVars
  <2>2. CASE WriteErr(k)
    BY <2>2 DEF WriteErr, vars, procVars
  <2> QED
    BY <1>2, <2>1, <2>2
<1>3. ASSUME NEW k \in Components, Rest(k)
      PROVE  /\ UNCHANGED <<pend, seen, held, given, writers>>
             /\ \A j \in Components : proc'[j] = "reaped" => proc[j] = "reaped"
  <2>1. proc' = proc \/ proc' = [proc EXCEPT ![k] = "ended"]
    BY <1>3 DEF Rest, Ends, BrokenPipe, Read, End, Collect, procVars
  <2> QED
    BY <1>t, <1>3, <2>1 DEF Rest, captureVars
<1> QED
  BY <1>1, <1>2, <1>3 DEF CaptureNext, Copy

\* The facts that CopyInv and SingleInv keep.
BufferInv == CopyTypes /\ CopyInv /\ SingleInv

LEMMA PutStep ==
  ASSUME BufferInv, NEW k \in Components, NEW b \in Buffers,
         proc[k] = "running", UNCHANGED <<proc, seen, held>>, PutTo(k, b)
  PROVE  BufferInv'
<1> USE PipeAssumption DEF BufferInv
<1>1. /\ pend[k][b] \in 0 .. Cap /\ pend[k][b] < Cap
      /\ pend' = [pend EXCEPT ![k][b] = pend[k][b] + 1]
      /\ given' = [given EXCEPT ![b] = given[b] + 1]
      /\ writers' = [writers EXCEPT ![b] = writers[b] \union {k}]
  BY DEF PutTo, CopyTypes
<1>2. CopyTypes'
  BY <1>1 DEF CopyTypes
<1>3. ASSUME NEW j \in Components, NEW c \in Buffers
      PROVE  /\ pend'[j][c] = IF j = k /\ c = b THEN pend[j][c] + 1 ELSE pend[j][c]
             /\ given'[c] = IF c = b THEN given[c] + 1 ELSE given[c]
             /\ writers'[c] = IF c = b THEN writers[c] \union {k} ELSE writers[c]
             /\ pend[j][c] \in Nat /\ given[c] \in Nat /\ held[c] \in Nat
  <2>1. pend'[j][c] = IF j = k /\ c = b THEN pend[j][c] + 1 ELSE pend[j][c]
    BY <1>1 DEF CopyTypes
  <2>2. given'[c] = IF c = b THEN given[c] + 1 ELSE given[c]
    BY <1>1 DEF CopyTypes
  <2>3. writers'[c] = IF c = b THEN writers[c] \union {k} ELSE writers[c]
    BY <1>1 DEF CopyTypes
  <2>4. pend[j][c] \in Nat /\ given[c] \in Nat /\ held[c] \in Nat
    BY DEF CopyTypes
  <2> QED
    BY <2>1, <2>2, <2>3, <2>4
<1>4. CopyInv'
  <2> SUFFICES ASSUME NEW j \in Components, NEW c \in Buffers
               PROVE  /\ seen'[j][c] # Idle => pend'[j][c] > 0
                      /\ pend'[j][c] > 0 => j \in writers'[c]
                      /\ proc'[j] = "reaped" => pend'[j][c] = 0
    BY DEF CopyInv
  <2>1. /\ seen[j][c] # Idle => pend[j][c] > 0
        /\ pend[j][c] > 0 => j \in writers[c]
        /\ proc[j] = "reaped" => pend[j][c] = 0
    BY DEF CopyInv
  <2>2. CASE j = k /\ c = b
    <3>1. pend'[j][c] = pend[j][c] + 1 /\ writers'[c] = writers[c] \union {k}
      BY <1>3, <2>2
    <3>2. pend[j][c] \in Nat
      BY <1>3
    <3>3. pend'[j][c] > 0
      BY <3>1, <3>2
    <3>4. proc'[j] # "reaped" /\ j \in writers'[c]
      BY <2>2, <3>1
    <3> QED
      BY <3>3, <3>4
  <2>3. CASE ~(j = k /\ c = b)
    <3>1. pend'[j][c] = pend[j][c] /\ (j \in writers[c] => j \in writers'[c])
      BY <1>3, <2>3
    <3> QED
      BY <2>1, <3>1
  <2> QED
    BY <2>2, <2>3
<1>5. SingleInv'
  <2> SUFFICES ASSUME NEW j \in Components, NEW c \in Buffers, writers'[c] \subseteq {j}
               PROVE  /\ held'[c] + pend'[j][c] = given'[c]
                      /\ seen'[j][c] # Idle => seen'[j][c] = held'[c]
    BY DEF SingleInv
  <2>1. writers[c] \subseteq {j} /\ (c = b => j = k)
    BY <1>3
  <2>2. /\ held[c] + pend[j][c] = given[c]
        /\ seen[j][c] # Idle => seen[j][c] = held[c]
    BY <2>1 DEF SingleInv
  <2>3. CASE c = b
    <3>1. pend'[j][c] = pend[j][c] + 1 /\ given'[c] = given[c] + 1
      BY <1>3, <2>1, <2>3
    <3>2. pend[j][c] \in Nat /\ given[c] \in Nat /\ held[c] \in Nat
      BY <1>3
    <3> QED
      BY <2>2, <3>1, <3>2
  <2>4. CASE c # b
    <3>1. pend'[j][c] = pend[j][c] /\ given'[c] = given[c]
      BY <1>3, <2>4
    <3> QED
      BY <2>2, <3>1
  <2> QED
    BY <2>3, <2>4
<1> QED
  BY <1>2, <1>4, <1>5

LEMMA CopyBeginsStep ==
  ASSUME BufferInv, NEW k \in Components, NEW b \in Buffers, CopyBegins(k, b)
  PROVE  BufferInv'
<1> USE PipeAssumption DEF BufferInv
<1>1. /\ pend[k][b] > 0 /\ seen' = [seen EXCEPT ![k][b] = held[b]]
      /\ UNCHANGED <<proc, pend, held, given, writers>>
  BY DEF CopyBegins, vars, procVars
<1>2. CopyTypes'
  BY <1>1 DEF CopyTypes
<1>3. ASSUME NEW j \in Components, NEW c \in Buffers
      PROVE  seen'[j][c] = IF j = k /\ c = b THEN held[b] ELSE seen[j][c]
  BY <1>1 DEF CopyTypes
<1> QED
  BY <1>1, <1>2, <1>3 DEF CopyInv, SingleInv

LEMMA CopyEndsStep ==
  ASSUME BufferInv, NEW k \in Components, NEW b \in Buffers, CopyEnds(k, b)
  PROVE  BufferInv'
<1> USE PipeAssumption DEF BufferInv
<1>1. /\ seen[k][b] # Idle /\ held' = [held EXCEPT ![b] = seen[k][b] + 1]
      /\ seen' = [seen EXCEPT ![k][b] = Idle]
      /\ pend' = [pend EXCEPT ![k][b] = pend[k][b] - 1]
      /\ UNCHANGED <<proc, given, writers>>
  BY DEF CopyEnds, vars, procVars
<1>2. /\ pend[k][b] \in 0 .. Cap /\ pend[k][b] > 0 /\ k \in writers[b]
      /\ seen[k][b] \in Nat
  BY <1>1 DEF CopyTypes, CopyInv
<1>3. CopyTypes'
  BY <1>1, <1>2 DEF CopyTypes
<1>4. ASSUME NEW j \in Components, NEW c \in Buffers
      PROVE  /\ pend'[j][c] = IF j = k /\ c = b THEN pend[j][c] - 1 ELSE pend[j][c]
             /\ seen'[j][c] = IF j = k /\ c = b THEN Idle ELSE seen[j][c]
             /\ held'[c] = IF c = b THEN seen[k][b] + 1 ELSE held[c]
             /\ pend[j][c] \in Nat /\ given[c] \in Nat /\ held[c] \in Nat
  BY <1>1 DEF CopyTypes
<1>5. CopyInv'
  <2> SUFFICES ASSUME NEW j \in Components, NEW c \in Buffers
               PROVE  /\ seen'[j][c] # Idle => pend'[j][c] > 0
                      /\ pend'[j][c] > 0 => j \in writers'[c]
                      /\ proc'[j] = "reaped" => pend'[j][c] = 0
    BY DEF CopyInv
  <2>1. /\ seen[j][c] # Idle => pend[j][c] > 0
        /\ pend[j][c] > 0 => j \in writers[c]
        /\ proc[j] = "reaped" => pend[j][c] = 0
    BY DEF CopyInv
  <2> QED
    BY <1>1, <1>2, <1>4, <2>1
<1>6. SingleInv'
  <2> SUFFICES ASSUME NEW j \in Components, NEW c \in Buffers, writers'[c] \subseteq {j}
               PROVE  /\ held'[c] + pend'[j][c] = given'[c]
                      /\ seen'[j][c] # Idle => seen'[j][c] = held'[c]
    BY DEF SingleInv
  <2>1. writers[c] \subseteq {j} /\ (c = b => j = k)
    BY <1>1, <1>2
  <2>2. /\ held[c] + pend[j][c] = given[c]
        /\ seen[j][c] # Idle => seen[j][c] = held[c]
    BY <2>1 DEF SingleInv
  <2> QED
    BY <1>1, <1>2, <1>4, <2>1, <2>2
<1> QED
  BY <1>3, <1>5, <1>6

LEMMA BufferStep ==
  ASSUME BufferInv, CaptureNext, TypeOK
  PROVE  BufferInv'
<1>1. CASE /\ UNCHANGED <<pend, seen, held, given, writers>>
           /\ \A k \in Components : proc'[k] = "reaped" => proc[k] = "reaped" \/ Copied(k)
  BY <1>1 DEF BufferInv, CopyTypes, CopyInv, SingleInv, Copied
<1> QED
  BY <1>1, CopyShapes, PutStep, CopyBeginsStep, CopyEndsStep

-----------------------------------------------------------------------------
(* The invariant.                                                          *)

LEMMA InitCInv == CaptureInit => CInv
<1> SUFFICES ASSUME CaptureInit PROVE CInv
  OBVIOUS
<1> USE PipeAssumption DEF CaptureInit, Init, Components
<1>1. CopyTypes
  BY DEF CopyTypes, Idle
<1>2. CopyInv /\ SingleInv
  BY DEF CopyInv, SingleInv, Idle
<1> QED
  BY <1>1, <1>2 DEF CInv, TakenInv, HoldsInv, DrainInv, Returned

\* What was returned is not taken back: no step of Pipe leaves "returned".
LEMMA ReturnedStays ==
  ASSUME [Next]_vars, Returned
  PROVE  Returned'
BY DEF Next, ShellStep, ComponentStep, CommandNotFound, BadArguments, BadRedirect,
   CreateCommand, WireFails, WirePipe, LastRedirectFails, LastRedirect, StartFails,
   StartCommand, WaitFails, WaitCommand, Reap, Write, BrokenPipe, Read, End, Collect,
   vars, shellVars, Returned

LEMMA NextCInv == IInv /\ CInv /\ [CaptureNext]_allVars => CInv'
<1> SUFFICES ASSUME IInv, CInv, [CaptureNext]_allVars PROVE CInv'
  OBVIOUS
<1>1. [Next]_vars
  BY CaptureStepIsPipeStep DEF allVars
<1>3. HoldsInv' /\ DrainInv'
  BY <1>1, HoldsStep, DrainStep DEF CInv
<1>4. TakenInv'
  <2>1. CASE Take \/ UNCHANGED taken
    BY <1>1, <2>1, ReturnedStays DEF CInv, TakenInv, Take, Returned, vars, shellVars
  <2>2. Take \/ UNCHANGED taken
    BY DEF CaptureNext, CaptureShell, Create, Wire, RedirectLast, Fails, Start, Wait,
       WriteOut, WriteErr, Copy, CopyBegins, CopyEnds, Rest, captureVars, allVars
  <2> QED
    BY <2>1, <2>2
<1>5. BufferInv'
  <2>1. CASE UNCHANGED allVars
    BY <2>1 DEF allVars, captureVars, vars, procVars, CInv, BufferInv, CopyTypes, CopyInv, SingleInv
  <2>2. CASE CaptureNext
    BY <2>2, BufferStep DEF CInv, BufferInv, IInv
  <2> QED
    BY <2>1, <2>2
<1> QED
  BY <1>3, <1>4, <1>5 DEF CInv, BufferInv

LEMMA CaptureInductive == CaptureSpec => [](IInv /\ CInv)
<1>1. CaptureSpec => []IInv
  BY CaptureIsPipe, Inductive, PTL
<1> QED
  BY <1>1, InitCInv, NextCInv, PTL DEF CaptureSpec

-----------------------------------------------------------------------------
(* The properties, for every value of the constants.                       *)

\* A successful statement whose readers read to end of file leaves nothing in
\* any pipe: executePipe waits for every component, and Wait closes what the
\* shell still holds.
THEOREM SuccessLosesNothing == CaptureSpec => []NothingLost
<1>1. IInv /\ CInv => NothingLost
  <2> SUFFICES ASSUME IInv, CInv, ReadersDrain, Returned, errIndex = 0,
                      NEW k \in Components
               PROVE  buf[k] = 0
    BY DEF NothingLost
  <2> USE PipeAssumption DEF Components
  <2>1. \A j \in Components : proc[j] = "reaped" /\ result[j] = "0"
    BY DEF IInv, SuccessIsComplete
  <2>2. CASE k = N
    BY <2>2 DEF CInv, DrainInv
  <2>3. CASE k < N
    <3>1. k + 1 \in 2 .. N /\ (k + 1) - 1 = k
      BY <2>3
    <3>2. buf[(k + 1) - 1] = 0
      BY <2>1, <3>1 DEF CInv, DrainInv, ReadersDrain
    <3> QED
      BY <3>1, <3>2
  <2> QED
    BY <2>2, <2>3
<1> QED
  BY <1>1, CaptureInductive, PTL

\* What execCmdOutput assigns after a success is all that was written to the
\* buffer when one component wrote to it, however the goroutines interleave.
THEOREM OutputIsWhole == CaptureSpec => []CaptureIsWhole
<1>1. IInv /\ CInv => CaptureIsWhole
  <2> SUFFICES ASSUME IInv, CInv, taken, errIndex = 0, NEW b \in Buffers,
                      Cardinality(writers[b]) <= 1
               PROVE  held[b] = given[b]
    BY DEF CaptureIsWhole
  <2> USE PipeAssumption DEF Components
  <2>1. \A k \in Components : proc[k] = "reaped"
    BY DEF IInv, CInv, TakenInv, SuccessIsComplete
  <2>2. \A k \in Components : pend[k][b] = 0
    BY <2>1 DEF CInv, CopyInv
  <2>3. writers[b] \subseteq Components /\ IsFiniteSet(writers[b])
    <3>1. writers[b] \subseteq Components
      BY DEF CInv, CopyTypes
    <3>2. IsFiniteSet(1 .. N)
      BY FS_Interval
    <3> QED
      BY <3>1, <3>2, FS_Subset
  <2>4. PICK k \in Components : writers[b] \subseteq {k}
    <3>1. CASE writers[b] = {}
      BY <3>1
    <3>2. ASSUME NEW k \in writers[b] PROVE writers[b] \subseteq {k}
      <4>1. SUFFICES ASSUME NEW j \in writers[b], j # k PROVE FALSE
        OBVIOUS
      <4>2. IsFiniteSet({j, k}) /\ Cardinality({j, k}) = 2
        <5>1. IsFiniteSet({k}) /\ Cardinality({k}) = 1
          BY FS_Singleton
        <5>2. {j, k} = {k} \union {j} /\ j \notin {k}
          BY <4>1
        <5>3. /\ IsFiniteSet({k} \union {j})
              /\ Cardinality({k} \union {j}) = Cardinality({k}) + 1
          BY <5>1, <5>2, FS_AddElement
        <5> QED
          BY <5>1, <5>2, <5>3
      <4>3. 2 <= Cardinality(writers[b])
        BY <2>3, <4>2, FS_Subset
      <4> QED
        BY <2>3, <4>3, FS_CardinalityType
    <3> QED
      BY <2>3, <3>1, <3>2
  <2>5. held[b] + pend[k][b] = given[b]
    BY <2>4 DEF CInv, SingleInv
  <2>6. held[b] \in Nat /\ pend[k][b] = 0
    BY <2>2 DEF CInv, CopyTypes
  <2> QED
    BY <2>5, <2>6
<1> QED
  BY <1>1, CaptureInductive, PTL
=============================================================================
