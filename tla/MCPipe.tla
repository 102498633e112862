------------------------------- MODULE MCPipe -------------------------------
(* Instances of Pipe for TLC: three components, pipes of one chunk.        *)
EXTENDS Pipe

MCExitCodes == {"1"}
MCAllKinds == {"cmd", "fn", "builtin"}
MCAnyResult == {"0", "1", "nostatus"}
=============================================================================
