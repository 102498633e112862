------------------------------ MODULE MCParser ------------------------------
(* Instances of Parser for TLC. *)
EXTENDS Parser
=============================================================================
