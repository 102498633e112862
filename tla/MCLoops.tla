------------------------------ MODULE MCLoops ------------------------------
(* Instances of Loops for TLC; all constants are small numbers.            *)
EXTENDS Loops
=============================================================================
