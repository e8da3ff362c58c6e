----------------------------- MODULE MC_Clients -----------------------------
EXTENDS Clients

\* All three client programs, each running once.
MC_Clients == {"async", "sync_ssl", "ws_coro"}
=============================================================================
