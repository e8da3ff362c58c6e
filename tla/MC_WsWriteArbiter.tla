-------------------------- MODULE MC_WsWriteArbiter --------------------------
(* Model-checking instance: all four write-class operations contend.        *)
EXTENDS WsWriteArbiter

MC_Issued == {"close", "rd", "ping", "wr"}
=============================================================================
