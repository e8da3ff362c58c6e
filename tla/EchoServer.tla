----------------------------- MODULE EchoServer -----------------------------
(***************************************************************************)
(* The three echo servers of example/websocket/server/fast: the           *)
(* synchronous listener and session (do_sync_listen, do_sync_session),    *)
(* the asynchronous ones (async_listener, async_session) and the          *)
(* coroutine ones (do_coro_listen, do_coro_session); and the standalone  *)
(* coroutine server of example/websocket/server/coro (do_listen,          *)
(* do_session), style "coro_server".  Each style has one listener and one *)
(* session slot; a listener fills the slot on a successful accept.        *)
(*                                                                        *)
(* The websocket stream below a session is abstracted to its status: a    *)
(* read completes with a message, with the peer's close, or with an       *)
(* error that fails the stream; once the stream is not open every new     *)
(* read or write fails at once (check_open, spec 5).                      *)
(*                                                                        *)
(* The three servers of websocket_server_fast share one process, and     *)
(* websocket_server_coro is a process of its own.  A process ends when    *)
(* main returns after ioc.run(), and websocket_server_fast also when an   *)
(* exception escapes the synchronous listener's thread (std::terminate);  *)
(* every listener and session of the process ends with it.               *)
(***************************************************************************)
EXTENDS Naturals

CONSTANTS Styles   \* subset of {"sync", "async", "coro", "coro_server"}

VARIABLES
    lpc,          \* listener control point
    listening,    \* acceptor bound and listening
    spc,          \* session control point
    ws,           \* status of the session's websocket stream
    lastRead,     \* outcome of the session's last completed read
    proc          \* proc[p]: whether program p's process runs

vars == <<lpc, listening, spc, ws, lastRead, proc>>

\* The program serving each style: websocket_server_fast ("fast") or
\* websocket_server_coro.
Program(l) == IF l = "coro_server" THEN "coro_server" ELSE "fast"
Programs == {Program(l) : l \in Styles}

\* The styles whose listener and sessions are handlers run by program p's
\* ioc.run(); the synchronous ones run on threads of their own.
IocStyles(p) == IF p = "fast" THEN {"async", "coro"} ELSE {"coro_server"}

\* A listener or session can take a step only while its process runs.
Alive(l) == proc[Program(l)] = "running"

SetupSteps == {"open", "set_option", "bind", "listen"}
ReadResults == {"message", "closed", "error"}

TypeOK ==
    /\ lpc \in [Styles -> {"setup", "accepting", "stopped"}]
    /\ listening \in [Styles -> BOOLEAN]
    /\ spc \in [Styles -> {"none", "handshake", "reading", "writing", "done"}]
    /\ ws \in [Styles -> {"open", "closed", "failed"}]
    /\ lastRead \in [Styles -> ReadResults \cup {"none"}]
    /\ proc \in [Programs -> {"running", "terminated", "exited"}]

-----------------------------------------------------------------------------
(* Listener setup.  fail is the first of open, set_option, bind and       *)
(* listen that fails, or "none".                                          *)

\* do_sync_listen: the acceptor{ioc, endpoint} constructor throws on a
\* failed step, on a detached thread: std::terminate (Terminates).
\* async_listener: the constructor returns after reporting the failed
\* step; run() then accepts whenever the acceptor is open.
\* do_coro_listen and the coro server's do_listen: every failed step
\* returns.
ListenerAfterSetup(l, fail) ==
    IF fail = "none" THEN "accepting"
    ELSE CASE l = "sync"  -> "stopped"
           [] l = "async" -> IF fail = "open" THEN "stopped" ELSE "accepting"
           [] l \in {"coro", "coro_server"} -> "stopped"

\* The failed setup throws out of the thread function.
Terminates(l, fail) == l = "sync" /\ fail # "none"

SetupListener(l) ==
    /\ lpc[l] = "setup"
    /\ Alive(l)
    /\ \E fail \in SetupSteps \cup {"none"}:
          /\ lpc' = [lpc EXCEPT ![l] = ListenerAfterSetup(l, fail)]
          /\ listening' = [listening EXCEPT ![l] = fail = "none"]
          /\ proc' = IF Terminates(l, fail)
                     THEN [proc EXCEPT !["fast"] = "terminated"] ELSE proc
    /\ UNCHANGED <<spc, ws, lastRead>>

\* Where an accept error leaves the listener: do_sync_listen returns,
\* async_listener::on_accept and do_coro_listen accept again.
AfterAcceptError == [sync |-> "stopped", async |-> "accepting",
                     coro |-> "accepting", coro_server |-> "accepting"]

\* An accept on an acceptor that is not listening fails at once; on a
\* listening one it fails (resource exhaustion, aborted connection) or
\* hands the connection to a new session when the slot is free.
AcceptError(l) ==
    /\ lpc[l] = "accepting"
    /\ Alive(l)
    /\ lpc' = [lpc EXCEPT ![l] = AfterAcceptError[l]]
    /\ UNCHANGED <<listening, spc, ws, lastRead, proc>>

AcceptConnection(l) ==
    /\ lpc[l] = "accepting"
    /\ Alive(l)
    /\ listening[l]
    /\ spc[l] = "none"
    /\ spc' = [spc EXCEPT ![l] = "handshake"]
    /\ UNCHANGED <<lpc, listening, ws, lastRead, proc>>

-----------------------------------------------------------------------------
(* Sessions.                                                              *)

\* accept_ex / async_accept_ex: every style returns on a failed handshake.
Handshake(s) ==
    /\ spc[s] = "handshake"
    /\ Alive(s)
    /\ \E ok \in BOOLEAN:
          /\ spc' = [spc EXCEPT ![s] = IF ok THEN "reading" ELSE "done"]
          /\ ws' = [ws EXCEPT ![s] = IF ok THEN "open" ELSE "failed"]
    /\ UNCHANGED <<lpc, listening, lastRead, proc>>

\* do_sync_session: closed breaks the loop, another error returns.
SyncAfterRead == [message |-> "writing", closed |-> "done", error |-> "done"]

\* do_coro_session: the same control as the synchronous loop.
CoroAfterRead == [message |-> "writing", closed |-> "done", error |-> "done"]

\* async_session::on_read: closed returns; any other error is reported
\* with fail(ec, "read") and the handler goes on to echo the buffer.
AsyncAfterRead == [message |-> "writing", closed |-> "done", error |-> "writing"]

\* The coro server's do_session: closed breaks the loop, another error
\* returns.
CoroServerAfterRead ==
    [message |-> "writing", closed |-> "done", error |-> "done"]

\* (mutant: the read error is recorded as a stream status of its own)
ReadErrorStatusAbort(st) == "aborted"

\* check_ok after a failed read: an open stream fails.
ReadErrorStatus(st) == IF st = "open" THEN "failed" ELSE st

\* The stream's read: only an open stream delivers a message or a close.
ReadResult(s, r) ==
    /\ ws[s] # "open" => r = "error"
    /\ ws' = [ws EXCEPT ![s] = CASE r = "message" -> ws[s]
                                 [] r = "closed"  -> "closed"
                                 [] r = "error"   -> ReadErrorStatus(ws[s])]

ReadDone(s) ==
    /\ spc[s] = "reading"
    /\ Alive(s)
    /\ \E r \in ReadResults:
          /\ ReadResult(s, r)
          /\ lastRead' = [lastRead EXCEPT ![s] = r]
          /\ spc' = [spc EXCEPT ![s] =
                  CASE s = "sync"  -> SyncAfterRead[r]
                    [] s = "async" -> AsyncAfterRead[r]
                    [] s = "coro"  -> CoroAfterRead[r]
                    [] OTHER       -> CoroServerAfterRead[r]]
    /\ UNCHANGED <<lpc, listening, proc>>

\* (mutant: the completion handler reads again after a failed write)
AfterWriteErrorNoReturn == "reading"

\* on_write and the loops return on a write error.
AfterWriteError == "done"

\* The echo write and its completion (async_session::on_write and the
\* tails of the two loops): an error returns, success reads again.  Only
\* an open stream accepts a write; a failing write fails the stream.
OnWrite(s) ==
    /\ spc[s] = "writing"
    /\ Alive(s)
    /\ \E ok \in BOOLEAN:
          /\ ok => ws[s] = "open"
          /\ ws' = [ws EXCEPT ![s] = IF ok \/ ws[s] # "open" THEN ws[s]
                                                             ELSE "failed"]
          /\ spc' = [spc EXCEPT ![s] = IF ok THEN "reading"
                                                 ELSE AfterWriteError]
    /\ UNCHANGED <<lpc, listening, lastRead, proc>>

-----------------------------------------------------------------------------
Init ==
    /\ lpc = [l \in Styles |-> "setup"]
    /\ listening = [l \in Styles |-> FALSE]
    /\ spc = [s \in Styles |-> "none"]
    /\ ws = [s \in Styles |-> "open"]
    /\ lastRead = [s \in Styles |-> "none"]
    /\ proc = [p \in Programs |-> "running"]

\* Program p's ioc.run() has nothing left to run: none of its io_context
\* listeners is setting up or accepting, and none of their sessions is
\* active.
IocIdle(p) ==
    \A l \in IocStyles(p) \cap Styles :
        lpc[l] = "stopped" /\ spc[l] \in {"none", "done"}

\* ioc.run() returns on every thread and main returns EXIT_SUCCESS (with
\* more than one thread the unjoined std::thread objects of v terminate
\* the process instead); the detached synchronous threads end with it.
MainExit(p) ==
    /\ proc[p] = "running"
    /\ IocIdle(p)
    /\ proc' = [proc EXCEPT ![p] = "exited"]
    /\ UNCHANGED <<lpc, listening, spc, ws, lastRead>>

Next ==
    \E l \in Styles:
        \/ SetupListener(l)
        \/ AcceptError(l)
        \/ AcceptConnection(l)
        \/ Handshake(l)
        \/ ReadDone(l)
        \/ OnWrite(l)
    \/ \E p \in Programs : MainExit(p)

\* A read or write on a stream that is no longer open fails without
\* waiting on the peer (check_open posts the error), so it is taken.
AbortedIO(s) == ws[s] # "open" /\ (ReadDone(s) \/ OnWrite(s))

\* ioc.run() returns once it runs out of work.
Spec == Init /\ [][Next]_vars /\ \A s \in Styles: WF_vars(AbortedIO(s))
                              /\ \A p \in Programs : WF_vars(MainExit(p))

-----------------------------------------------------------------------------
(* Properties.                                                            *)

\* A session whose stream has closed or failed ends, or its process does:
\* it neither loops on failing reads and writes nor waits forever.
SessionEnds == \A s \in Styles: ws[s] # "open" /\ spc[s] # "none"
                                  ~> spc[s] = "done" \/ ~Alive(s)

\* A session writes only after a successful read (what do_sync_session
\* and do_coro_session do, and what "Echo the message" in on_read says).
WritesOnlyAfterMessage ==
    \A s \in Styles: spc[s] = "writing" => lastRead[s] = "message"

\* A listener accepts only on an acceptor that is bound and listening;
\* otherwise every async_accept fails at once and the loop spins.
AcceptOnlyWhenListening ==
    \A l \in Styles: lpc[l] = "accepting" => listening[l]

\* A port whose listener is bound and accepting stays served until that
\* listener gives up on an accept error of its own: the three ports of
\* websocket_server_fast are started as independent servers, so neither a
\* failed setup of another port nor the io_context running out of work
\* may take it down.
PortServedUntilAcceptError ==
    \A l \in Styles : lpc[l] = "accepting" /\ listening[l] => Alive(l)
=============================================================================
