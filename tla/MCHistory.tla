----------------------------- MODULE MCHistory ------------------------------
(* Instances of History for TLC. *)
EXTENDS History

MCLines == {"a", "b"}
=============================================================================
