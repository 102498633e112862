------------------------------ MODULE MCRfork ------------------------------
(* Instances of Rfork for TLC; all constants are small numbers.            *)
EXTENDS Rfork
=============================================================================
