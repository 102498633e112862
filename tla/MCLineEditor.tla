---------------------------- MODULE MCLineEditor ----------------------------
(* Instances of LineEditor for TLC. Ctrl-T is left out of the first: after *)
(* it the cursor may be outside a line of one rune.                        *)
EXTENDS LineEditor

MCKeys == AllKeys \ {"CtrlT"}
=============================================================================
