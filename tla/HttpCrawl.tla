------------------------------ MODULE HttpCrawl ------------------------------
(***************************************************************************)
(* The asynchronous HTTP crawler (src/example/http/client/crawl/           *)
(* http_crawl.cpp).                                                        *)
(*                                                                         *)
(* Each worker thread runs its own io_context with one worker object.  A   *)
(* worker takes hosts from the shared crawl_report through an atomic       *)
(* index, and for each host resolves, connects, writes a GET and reads     *)
(* the response.  A steady_timer guards every step: expires_after() moves  *)
(* the deadline (and cancels the pending wait), on_timer() closes the      *)
(* socket once the deadline has really passed.  Every outcome is counted   *)
(* by posting an aggregate lambda to the report's strand, run by the main  *)
(* io_context thread.                                                      *)
(*                                                                         *)
(* Time is abstracted to a deadline that is unset (time_point::max), in    *)
(* the future, or past; Tick lets a future deadline pass.  The HTTP        *)
(* request and response, host names and status codes are abstracted away. *)
(***************************************************************************)
EXTENDS Naturals, Sequences, FiniteSets, Functions

CONSTANTS
    Workers,    \* the worker threads (model values)
    NumHosts,   \* hosts_.size()
    None

ASSUME NumHosts \in Nat /\ Workers # {} /\ None \notin Nat

\* the counters of crawl_report an aggregate lambda increments
Outcomes == {"resolve", "connect", "write", "read", "success"}

VARIABLES
    index,      \* crawl_report::index_ (std::atomic)
    wpc,        \* which completion handler the worker is waiting for
    host,       \* the host index the worker is working on, or None
    expiry,     \* timer_.expiry(): "max", "future" or "past"
    timer,      \* the timer's wait: pending, completed and queued, or none
    sockOpen,   \* socket_ is open
    strand,     \* aggregate lambdas posted to the report's strand, FIFO
    report,     \* report[o]: the counter for outcome o
    work,       \* main's work guard on the main io_context is held
    reportAlive,\* the thread running the main io_context has not returned
    printed     \* main has printed the report

vars == <<index, wpc, host, expiry, timer, sockOpen, strand, report,
          work, reportAlive, printed>>
workerVars == <<index, wpc, host, expiry, timer, sockOpen>>

Phases  == {"init", "resolving", "connecting", "writing", "reading", "noHost"}
\* "idle": on_timer never called; "waiting": async_wait pending;
\* "aborted"/"fired": the wait completed and on_timer is queued;
\* "stopped": on_timer returned without waiting again
TimerStates == {"idle", "waiting", "aborted", "fired", "stopped"}
Hosts == 0 .. NumHosts - 1

TypeOK ==
    /\ index \in 0 .. NumHosts + Cardinality(Workers)
    /\ wpc \in [Workers -> Phases]
    /\ host \in [Workers -> Hosts \cup {None}]
    /\ expiry \in [Workers -> {"max", "future", "past"}]
    /\ timer \in [Workers -> TimerStates]
    /\ sockOpen \in [Workers -> BOOLEAN]
    /\ strand \in Seq(Outcomes)
    /\ report \in [Outcomes -> 0 .. NumHosts]
    /\ work \in BOOLEAN /\ reportAlive \in BOOLEAN /\ printed \in BOOLEAN

-----------------------------------------------------------------------------
(* Helpers for the worker's own state; w is the worker taking a step.     *)

\* timer_.cancel_one(), or the cancellation done by expires_after(): a
\* pending wait completes with operation_aborted and on_timer is queued.
Cancelled(t) == IF t = "waiting" THEN "aborted" ELSE t

\* timer_.expires_after(timeout) when the timer's wait is in state t.
ExpiresAfter(w, t) ==
    /\ expiry' = [expiry EXCEPT ![w] = "future"]
    /\ timer' = [timer EXCEPT ![w] = Cancelled(t)]

\* crawl_report::aggregate: post the lambda to the strand
Aggregate(o) == strand' = Append(strand, o)

\* (mutant: the bound check is off by one)
OutOfHostsOffByOne == index > NumHosts

\* crawl_report::get_host: index_++ returns nullptr past the last host.
OutOfHosts == index >= NumHosts

\* do_get_host: report_.get_host() does index_++ and returns nullptr past
\* the end; then either timer_.cancel_one() and stop, or set the deadline
\* and start async_resolve.  t is the state of the timer's wait.
DoGetHost(w, t) ==
    /\ index' = index + 1
    /\ IF OutOfHosts
          THEN /\ host' = [host EXCEPT ![w] = None]
               /\ wpc' = [wpc EXCEPT ![w] = "noHost"]
               /\ timer' = [timer EXCEPT ![w] = Cancelled(t)]
               /\ UNCHANGED expiry
          ELSE /\ host' = [host EXCEPT ![w] = index]
               /\ wpc' = [wpc EXCEPT ![w] = "resolving"]
               /\ ExpiresAfter(w, t)

\* A failed step: count it and go on with the next host.
FailAndNext(w, o) ==
    /\ Aggregate(o)
    /\ DoGetHost(w, timer[w])
    /\ UNCHANGED sockOpen

-----------------------------------------------------------------------------
(* Handlers.  A worker's handlers run one at a time on its io_context.     *)

\* worker::run: on_timer({}) with the deadline at max waits on the timer,
\* then do_get_host.
Run(w) ==
    /\ wpc[w] = "init"
    /\ timer[w] = "idle"
    /\ DoGetHost(w, "waiting")
    /\ UNCHANGED <<sockOpen, strand, report, work, reportAlive, printed>>

\* on_resolve: an error is counted; otherwise a new deadline and
\* async_connect, which (re)opens the socket.  Name resolution is not
\* interrupted by closing the socket.
OnResolve(w) ==
    /\ wpc[w] = "resolving"
    /\ \/ FailAndNext(w, "resolve")
       \/ /\ ExpiresAfter(w, timer[w])
          /\ wpc' = [wpc EXCEPT ![w] = "connecting"]
          /\ sockOpen' = [sockOpen EXCEPT ![w] = TRUE]
          /\ UNCHANGED <<index, host, strand>>
    /\ UNCHANGED <<report, work, reportAlive, printed>>

\* on_connect / on_write: an error (always, once the timer closed the
\* socket) is counted; otherwise a new deadline and the next operation.
Proceed(w, o, next) ==
    /\ \/ FailAndNext(w, o)
       \/ /\ sockOpen[w]
          /\ ExpiresAfter(w, timer[w])
          /\ wpc' = [wpc EXCEPT ![w] = next]
          /\ UNCHANGED <<index, host, strand, sockOpen>>
    /\ UNCHANGED <<report, work, reportAlive, printed>>

OnConnect(w) == wpc[w] = "connecting" /\ Proceed(w, "connect", "writing")

OnWrite(w) == wpc[w] = "writing" /\ Proceed(w, "write", "reading")

\* on_read: an error is counted; a response is counted as a success, the
\* socket is shut down and closed, and the worker takes the next host.
OnRead(w) ==
    /\ wpc[w] = "reading"
    /\ \/ FailAndNext(w, "read")
       \/ /\ sockOpen[w]
          /\ Aggregate("success")
          /\ sockOpen' = [sockOpen EXCEPT ![w] = FALSE]
          /\ DoGetHost(w, timer[w])
    /\ UNCHANGED <<report, work, reportAlive, printed>>

\* on_timer's check that the deadline has really passed (expiry <= now).
DeadlinePassed(w) == expiry[w] = "past"

\* (mutant: the expired deadline stops the timer without closing the socket)
CloseOnTimeoutNoClose(w) == UNCHANGED sockOpen

\* socket_.shutdown and socket_.close on an expired deadline.
CloseOnTimeout(w) == sockOpen' = [sockOpen EXCEPT ![w] = FALSE]

\* on_timer, for a completed wait (operation_aborted or expiry): if the
\* deadline has really passed, shut down and close the socket and stop;
\* otherwise wait again.
OnTimer(w) ==
    /\ timer[w] \in {"aborted", "fired"}
    /\ IF DeadlinePassed(w)
          THEN /\ CloseOnTimeout(w)
               /\ timer' = [timer EXCEPT ![w] = "stopped"]
          ELSE /\ timer' = [timer EXCEPT ![w] = "waiting"]
               /\ UNCHANGED sockOpen
    /\ UNCHANGED <<index, wpc, host, expiry, strand, report>>
    /\ UNCHANGED <<work, reportAlive, printed>>

\* Time passes a worker's deadline; a pending wait completes.
Tick(w) ==
    /\ expiry[w] = "future"
    /\ expiry' = [expiry EXCEPT ![w] = "past"]
    /\ timer' = [timer EXCEPT ![w] = IF @ = "waiting" THEN "fired" ELSE @]
    /\ UNCHANGED <<index, wpc, host, sockOpen, strand, report, work>>
    /\ UNCHANGED <<reportAlive, printed>>

\* The main io_context thread runs the next lambda on the report's strand.
RunAggregate ==
    /\ reportAlive
    /\ strand # <<>>
    /\ report' = [report EXCEPT ![Head(strand)] = @ + 1]
    /\ strand' = Tail(strand)
    /\ UNCHANGED <<workerVars, work, reportAlive, printed>>

(* main(): join the worker threads in turn, reset the work guard before
   joining the last thread (the one running the main io_context), then
   print the report. *)

\* A worker thread returns from ioc.run() once its io_context has no work:
\* no host, and no wait pending or queued on its timer.
Finished(w) == wpc[w] = "noHost" /\ timer[w] = "stopped"

\* (mutant: the work guard is reset before the workers are joined)
JoinedOthersEarly == TRUE

\* The join loop reaches work.reset() once it has joined every worker.
JoinedOthers == \A w \in Workers : Finished(w)

ResetWork ==
    /\ work /\ JoinedOthers
    /\ work' = FALSE
    /\ UNCHANGED <<workerVars, strand, report, reportAlive, printed>>

\* Without the work guard, the main io_context's run() returns as soon as
\* the strand has nothing left to run.
ReportThreadExits ==
    /\ reportAlive
    /\ ~work
    /\ strand = <<>>
    /\ reportAlive' = FALSE
    /\ UNCHANGED <<workerVars, strand, report, work, printed>>

\* Every thread joined: print the elapsed time and the report.
PrintReport ==
    /\ ~printed
    /\ ~reportAlive
    /\ \A w \in Workers : Finished(w)
    /\ printed' = TRUE
    /\ UNCHANGED <<workerVars, strand, report, work, reportAlive>>

-----------------------------------------------------------------------------

Init ==
    /\ index = 0
    /\ wpc = [w \in Workers |-> "init"]
    /\ host = [w \in Workers |-> None]
    /\ expiry = [w \in Workers |-> "max"]
    /\ timer = [w \in Workers |-> "idle"]
    /\ sockOpen = [w \in Workers |-> FALSE]
    /\ strand = <<>>
    /\ report = [o \in Outcomes |-> 0]
    /\ work = TRUE
    /\ reportAlive = TRUE
    /\ printed = FALSE

Next ==
    \/ \E w \in Workers :
          \/ Run(w)
          \/ OnResolve(w)
          \/ OnConnect(w)
          \/ OnWrite(w)
          \/ OnRead(w)
          \/ OnTimer(w)
          \/ Tick(w)
    \/ RunAggregate
    \/ ResetWork
    \/ ReportThreadExits
    \/ PrintReport

\* Socket operations on a closed socket complete with an error.
AbortedIO(w) ==
    /\ ~sockOpen[w]
    /\ \/ OnConnect(w)
       \/ OnWrite(w)
       \/ OnRead(w)

\* Every thread gets to run; the resolver, the timer service and the strand
\* eventually deliver their completions; time passes.  A connected peer is
\* not assumed to answer: only a closed socket forces an I/O completion.
Fairness ==
    /\ \A w \in Workers :
          /\ WF_vars(Run(w))
          /\ WF_vars(OnResolve(w))
          /\ WF_vars(OnTimer(w))
          /\ WF_vars(Tick(w))
          /\ WF_vars(AbortedIO(w))
    /\ WF_vars(RunAggregate)

Spec == Init /\ [][Next]_vars /\ Fairness

-----------------------------------------------------------------------------
(* Properties                                                              *)

Min2(a, b) == IF a < b THEN a ELSE b

\* Every host handed out by the atomic index is, at any time, either being
\* crawled by exactly one worker or counted exactly once by the report
\* (applied, or still queued on the strand): hosts are neither lost, nor
\* crawled twice, nor counted twice, across workers and the strand.
EveryHostAccountedOnce ==
    /\ \A v, w \in Workers : v # w /\ host[v] # None => host[v] # host[w]
    /\ FoldFunction(+, 0, report) + Len(strand)
         + Cardinality({w \in Workers : host[w] # None})
       = Min2(index, NumHosts)

\* When main prints the report, it counts every host exactly once: no
\* aggregate lambda was still queued, or posted after the thread running
\* the main io_context had returned.
ReportCompleteWhenPrinted ==
    printed => FoldFunction(+, 0, report) = NumHosts /\ strand = <<>>

\* A host whose connect, write or read is under way while the worker's timer
\* is running is finished (counted and left) eventually, whether or not the
\* server answers: the deadline closes the socket and aborts the operation.
InFlightWithTimerFinishes ==
    \A w \in Workers, h \in Hosts :
        (/\ host[w] = h
         /\ wpc[w] \in {"connecting", "writing", "reading"}
         /\ timer[w] # "stopped") ~> host[w] # h

\* Every host is eventually counted in the report.  Checked as a violation:
\* after a timeout, on_timer returns without waiting again, so the rest of
\* that host (a timeout during async_resolve closes a socket not yet
\* opened) and the later hosts of that worker have no deadline, and a
\* silent server hangs the worker.
EveryHostReported ==
    <>(FoldFunction(+, 0, report) = NumHosts)

\* A worker out of hosts lets its io_context run out of work, so that its
\* thread returns and main() can join it.  Checked as a violation: a worker
\* whose first get_host() returns nullptr cancels a wait whose deadline is
\* still time_point::max, and on_timer waits again for ever.
OutOfHostsWorkerFinishes ==
    \A w \in Workers : wpc[w] = "noHost" ~> timer[w] = "stopped"

=============================================================================
