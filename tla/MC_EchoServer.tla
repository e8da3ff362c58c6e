---------------------------- MODULE MC_EchoServer ----------------------------
EXTENDS EchoServer

\* The three servers of websocket_server_fast, one per port, and the
\* standalone coroutine server.
MC_Styles == {"sync", "async", "coro", "coro_server"}
=============================================================================
