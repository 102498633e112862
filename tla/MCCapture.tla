----------------------------- MODULE MCCapture ------------------------------
(* Instances of Capture for TLC: three components, pipes of one chunk.     *)
EXTENDS Capture

MCExitCodes == {"1"}
MCFnAndCmd == {"cmd", "fn"}
MCExitResult == {"0", "1"}
=============================================================================
