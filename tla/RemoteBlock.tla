---------------------------- MODULE RemoteBlock ----------------------------
(***************************************************************************)
(* What an rfork statement promises: the statements of its block are       *)
(* executed one after the other in the child, the first one that fails is  *)
(* the last one executed, and the statement succeeds only after all of     *)
(* them did.  The child may be lost at any time; then the statement fails. *)
(***************************************************************************)
EXTENDS Naturals

CONSTANT MaxStatements   \* statements in a block

VARIABLES
  length,   \* statements in the block
  done,     \* statements executed
  failed,   \* did the last one fail?
  outcome   \* "running", then "ok" or "err"

vars == <<length, done, failed, outcome>>

Init ==
  /\ length \in 0 .. MaxStatements
  /\ done = 0 /\ failed = FALSE /\ outcome = "running"

Execute ==
  /\ outcome = "running" /\ ~failed /\ done < length
  /\ done' = done + 1
  /\ failed' \in BOOLEAN
  /\ UNCHANGED <<length, outcome>>

Succeed ==
  /\ outcome = "running" /\ ~failed /\ done = length
  /\ outcome' = "ok"
  /\ UNCHANGED <<length, done, failed>>

GiveUp ==
  /\ outcome = "running"
  /\ outcome' = "err"
  /\ UNCHANGED <<length, done, failed>>

Next == Execute \/ Succeed \/ GiveUp

Spec == Init /\ [][Next]_vars
=============================================================================
