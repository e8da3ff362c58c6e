------------------------------ MODULE Clients ------------------------------
(***************************************************************************)
(* The three client programs: http_client_async (a chain of completion    *)
(* handlers), http_client_sync_ssl (blocking calls inside one try block)  *)
(* and websocket_client_coro (a coroutine).  Each performs a fixed        *)
(* sequence of steps and gives up at the first error; a step completes   *)
(* with success, an error, or an error code the program accepts as a     *)
(* graceful end (not_connected on a TCP shutdown, eof on a TLS shutdown). *)
(* Messages, host names and printing are abstracted to whether the       *)
(* response was printed.                                                  *)
(***************************************************************************)
EXTENDS Naturals, Sequences

CONSTANTS Clients    \* subset of {"async", "sync_ssl", "ws_coro"}

VARIABLES
    step,       \* index of the next step of each client
    printed,    \* the response has been written to standard out
    lastResult, \* result of the client's last completed step
    exit        \* "running", or main's return value

vars == <<step, printed, lastResult, exit>>

Results == {"ok", "error", "not_connected", "eof"}

\* session::run and the handlers of http_client_async.
AsyncSteps == <<"resolve", "connect", "write", "read", "shutdown">>

\* The calls in the try block of http_client_sync_ssl's main.
SslSteps == <<"sni", "resolve", "connect", "handshake", "write", "read",
              "shutdown">>

\* do_session of websocket_client_coro.
WsSteps == <<"resolve", "connect", "handshake", "write", "read", "close">>

Steps == [async |-> AsyncSteps, sync_ssl |-> SslSteps, ws_coro |-> WsSteps]

\* The step after which the response is printed: the HTTP clients print
\* before shutting down, the websocket client after closing.
PrintAfter == [async |-> "read", sync_ssl |-> "read", ws_coro |-> "close"]

\* A TCP shutdown may complete with not_connected, a TLS shutdown with eof
\* when the server closed first.
StepResults(c, st) ==
    IF st = "shutdown" THEN {"ok", "error", IF c = "async" THEN "not_connected"
                                                           ELSE "eof"}
    ELSE {"ok", "error"}

\* Results the program goes on with: on_read ignores not_connected; the
\* SSL client clears eof before testing ec.
Tolerated(c, st, r) ==
    \/ r = "ok"
    \/ c = "async" /\ st = "shutdown" /\ r = "not_connected"
    \/ c = "sync_ssl" /\ st = "shutdown" /\ r = "eof"

\* What main returns after a failed step: the handler or coroutine
\* returns, ioc.run() returns and main returns EXIT_SUCCESS; the SSL
\* client's exception reaches the catch and EXIT_FAILURE.
ExitOnError == [async |-> "success", sync_ssl |-> "failure",
                ws_coro |-> "success"]

\* (mutant: the last step is taken to be one further on)
IsLastOffByOne(c) == step[c] = Len(Steps[c]) + 1

\* The step being completed is the program's last one.
IsLast(c) == step[c] = Len(Steps[c])

\* One step completes; the client goes on, finishes, or gives up.
Step(c) ==
    /\ exit[c] = "running"
    /\ LET st == Steps[c][step[c]]
       IN \E r \in StepResults(c, st):
            /\ lastResult' = [lastResult EXCEPT ![c] = r]
            /\ IF Tolerated(c, st, r)
                  THEN /\ step' = [step EXCEPT ![c] = @ + 1]
                       /\ printed' = [printed EXCEPT ![c] = @ \/ st = PrintAfter[c]]
                       /\ exit' = [exit EXCEPT ![c] = IF IsLast(c) THEN "success"
                                                             ELSE "running"]
                  ELSE /\ exit' = [exit EXCEPT ![c] = ExitOnError[c]]
                       /\ UNCHANGED <<step, printed>>

Init ==
    /\ step = [c \in Clients |-> 1]
    /\ printed = [c \in Clients |-> FALSE]
    /\ lastResult = [c \in Clients |-> "ok"]
    /\ exit = [c \in Clients |-> "running"]

Next == \E c \in Clients : Step(c)

Spec == Init /\ [][Next]_vars

-----------------------------------------------------------------------------
(* Properties.                                                            *)

TypeOK ==
    /\ step \in [Clients -> 1 .. 8]
    /\ \A c \in Clients : exit[c] = "running" => step[c] <= Len(Steps[c])
    /\ printed \in [Clients -> BOOLEAN]
    /\ lastResult \in [Clients -> Results]
    /\ exit \in [Clients -> {"running", "success", "failure"}]
=============================================================================
