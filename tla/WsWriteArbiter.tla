--------------------------- MODULE WsWriteArbiter ---------------------------
(***************************************************************************)
(* The write block of a websocket::stream and the write-class composed     *)
(* operations that contend for it.                                         *)
(*                                                                         *)
(* ping_op (src/include/beast/websocket/impl/ping.ipp) is translated line  *)
(* by line: try_lock the write block, or park in the paused_ping_ slot;    *)
(* when resumed by another operation's upcall, lock(this) and post; check  *)
(* the stream is open; async_write the frame; then the upcall unlocks and  *)
(* resumes at most one paused operation in a fixed order.                  *)
(*                                                                         *)
(* The other write-class operations (close_op, write_op and the control-  *)
(* frame reply of read_op), the soft_mutex wr_block_, the pausation slots  *)
(* and check_open/check_ok are not under src/: they follow the same        *)
(* skeleton and are modelled from the spec (sections 4.3, 4.5, 5).         *)
(*                                                                         *)
(* One operation of each kind is outstanding at a time: the library        *)
(* requires the caller not to start a second ping/pong, write or close     *)
(* before the first completes.  An operation is identified by its kind,    *)
(* as soft_mutex identifies its holder by the operation's static id.       *)
(***************************************************************************)
EXTENDS Naturals, Sequences, SequencesExt, FiniteSets

CONSTANTS
    None,       \* soft_mutex id_ == 0 / an empty pausation / no frame yet
    Issued,     \* the kinds of operation the caller issues in this model
    SyncPingAnytime \* the caller may call ping() while async operations run

\* close_op, read_op (its pong/close reply), ping_op, write_op
Kinds == {"close", "rd", "ping", "wr"}

\* pc also follows the caller's synchronous ping()/pong(), "sync".
Actors == Kinds \cup {"sync"}

ASSUME None \notin Kinds /\ Issued \subseteq Kinds /\ SyncPingAnytime \in BOOLEAN

VARIABLES
    pc,         \* pc[k]: where operation k is in its coroutine
    wrBlock,    \* stream::wr_block_, the soft_mutex: holder kind or None
    paused,     \* paused[k]: the pausation paused_<k>_ holds operation k
    status,     \* stream::status_
    wrClose,    \* stream::wr_close_: a close frame has been sent
    lastFrame   \* the frame written last: "close", or the kind whose
                \* ping, pong or message frame it was

vars == <<pc, wrBlock, paused, status, wrClose, lastFrame>>

Phases  == {"idle", "paused", "resumed", "postErr", "writing", "closeWait"}
\* phases in which the operation owns wr_block_
Holding == {"resumed", "postErr", "writing", "closeWait"}
Status  == {"open", "closing", "closed", "failed"}

TypeOK ==
    /\ pc \in [Actors -> Phases]
    /\ wrBlock \in Kinds \cup {None}
    /\ paused \in [Kinds -> BOOLEAN]
    /\ status \in Status
    /\ wrClose \in BOOLEAN
    /\ lastFrame \in Kinds \cup {None}

-----------------------------------------------------------------------------
(* Stream helpers modelled from the spec.                                  *)

\* stream::check_open: only an open stream accepts a new frame
CheckOpen == status = "open"

\* stream::check_ok on a transport error: the stream fails, unless closed
FailedStatus == IF status = "closed" THEN "closed" ELSE "failed"

\* the order in which each operation's upcall tries the pausations
\* (mutant: ping's upcall forgets paused_wr_)
PingResumeOrderNoWr == <<"close", "rd">>

PingResumeOrder  == <<"close", "rd", "wr">>
WrResumeOrder    == <<"close", "rd", "ping">>
RdResumeOrder    == <<"close", "ping", "wr">>
CloseResumeOrder == <<"rd", "ping", "wr">>

ResumeOrder(o) ==
    CASE o = "ping"  -> PingResumeOrder
      [] o = "wr"    -> WrResumeOrder
      [] o = "rd"    -> RdResumeOrder
      [] o = "close" -> CloseResumeOrder

\* The operation the upcall of o resumes: the first kind, in o's order,
\* whose pausation is non-empty (maybe_invoke returns false on an empty
\* one), or None.
ResumedBy(o) ==
    LET order == ResumeOrder(o)
        i     == SelectInSeq(order, LAMBDA k : paused[k])
    IN  IF i = 0 THEN None ELSE order[i]

\* (mutant: the resumed operation does not take wr_block_)
LockedByNoLock(r) == None

\* wr_block_ after unlock(this) and the resumed operation's lock(this).
LockedBy(r) == r

\* (mutant: the emptied pausation is reset to "no operation", not empty)
UnpauseToNone(r) == IF r = None THEN paused ELSE [paused EXCEPT ![r] = None]

\* maybe_invoke empties the pausation it invokes.
Unpause(r) == IF r = None THEN paused ELSE [paused EXCEPT ![r] = FALSE]

\* The upcall: wr_block_.unlock(this), then
\* paused_a_.maybe_invoke() || paused_b_.maybe_invoke() || paused_c_...
\* The invoked operation does wr_block_.lock(this) and posts itself; o's
\* own handler is then invoked and o is idle again.
Upcall(o) ==
    LET r == ResumedBy(o)
    IN  /\ wrBlock' = LockedBy(r)
        /\ paused' = Unpause(r)
        /\ pc' = [k \in Actors |-> IF k = o THEN "idle"
                                  ELSE IF k = r THEN "resumed" ELSE pc[k]]

\* The frames o may send: close_op a close frame; read_op a pong, or the
\* echo of the peer's close frame; ping_op and write_op their own frame.
SendsClose(o) ==
    CASE o = "close" -> {TRUE}
      [] o = "rd"    -> BOOLEAN
      [] OTHER       -> {FALSE}

\* Serialising and starting async_write of o's frame.  Before a close
\* frame (close_op's, or read_op's echo) the stream is marked closing and
\* wr_close_ is set.
SendFrame(o) ==
    \E close \in SendsClose(o) :
        /\ lastFrame' = IF close THEN "close" ELSE o
        /\ IF close
              THEN /\ wrClose' = TRUE
                   /\ status' = "closing"
              ELSE UNCHANGED <<wrClose, status>>

-----------------------------------------------------------------------------
(* The steps of ping_op::operator(), shared by every write-class op.       *)

\* The caller starts o; read_op replies to a ping or close from the peer
\* only while the stream is open.
CanStart(o) ==
    /\ o \in Issued
    /\ pc[o] = "idle"
    /\ o = "rd" => CheckOpen
    /\ SyncPingAnytime \/ pc["sync"] = "idle"

\* soft_mutex::try_lock(this): succeeds only on a free block.
TryLock(o) == wrBlock = None

\* First entry, wr_block_.try_lock(this) succeeds: if the stream is open
\* start writing the frame, else post the operation_aborted completion.
Acquire(o) ==
    /\ CanStart(o)
    /\ TryLock(o)
    /\ wrBlock' = o
    /\ \/ /\ CheckOpen
          /\ pc' = [pc EXCEPT ![o] = "writing"]
          /\ SendFrame(o)
       \/ /\ ~CheckOpen
          /\ pc' = [pc EXCEPT ![o] = "postErr"]
          /\ UNCHANGED <<status, wrClose, lastFrame>>
    /\ UNCHANGED paused

\* First entry, try_lock fails: the operation parks in its pausation.
Suspend(o) ==
    /\ CanStart(o)
    /\ ~TryLock(o)
    /\ paused' = [paused EXCEPT ![o] = TRUE]
    /\ pc' = [pc EXCEPT ![o] = "paused"]
    /\ UNCHANGED <<wrBlock, status, wrClose, lastFrame>>

\* (mutant: the resumed operation does not re-check the stream)
ResumeCheckOpenSkipped == TRUE

\* check_open after the post: the stream may have closed while o waited.
ResumeCheckOpen == CheckOpen

\* The post after lock(this) runs: check_open, then write or go to upcall.
Resume(o) ==
    /\ pc[o] = "resumed"
    /\ \/ /\ ResumeCheckOpen
          /\ pc' = [pc EXCEPT ![o] = "writing"]
          /\ SendFrame(o)
          /\ UNCHANGED <<wrBlock, paused>>
       \/ /\ ~ResumeCheckOpen
          /\ Upcall(o)
          /\ UNCHANGED <<status, wrClose, lastFrame>>

\* The posted operation_aborted completion runs: goto upcall.
\* (mutant: the abort path returns without the upcall's unlock)
PostedAbortNoUnlock(o) ==
    /\ pc[o] = "postErr"
    /\ pc' = [pc EXCEPT ![o] = "idle"]
    /\ UNCHANGED <<wrBlock, paused, status, wrClose, lastFrame>>

PostedAbort(o) ==
    /\ pc[o] = "postErr"
    /\ Upcall(o)
    /\ UNCHANGED <<status, wrClose, lastFrame>>

\* async_write completes; check_ok(ec) fails the stream on an error.
\* close_op goes on to wait for the peer's close frame, holding wr_block_.
WriteComplete(o) ==
    /\ pc[o] = "writing"
    /\ \/ /\ o = "close"
          /\ pc' = [pc EXCEPT ![o] = "closeWait"]
          /\ UNCHANGED <<wrBlock, paused, status>>
       \/ /\ o # "close"
          /\ Upcall(o)
          /\ UNCHANGED status
       \/ /\ status' = FailedStatus
          /\ Upcall(o)
    /\ UNCHANGED <<wrClose, lastFrame>>

\* close_op reads until the peer's close frame arrives and tears down the
\* transport (status closed), or the read fails (status failed); upcall.
CloseWait ==
    /\ pc["close"] = "closeWait"
    /\ \E peerClosed \in BOOLEAN :
          status' = IF peerClosed /\ status = "closing" THEN "closed"
                                                         ELSE FailedStatus
    /\ Upcall("close")
    /\ UNCHANGED <<wrClose, lastFrame>>

\* A read on the other side of the full-duplex stream fails: check_ok in
\* read_op marks the stream failed without holding wr_block_.
ReadFails ==
    /\ status \in {"open", "closing"}
    /\ status' = "failed"
    /\ UNCHANGED <<pc, wrBlock, paused, wrClose, lastFrame>>

\* (mutant: the synchronous ping does not check the stream first)
SyncCheckOpenSkipped == TRUE

\* check_open at the top of ping(payload, ec) and pong(payload, ec); on a
\* stream that is not open they return the error and change nothing.
SyncCheckOpen == CheckOpen

\* ping(payload, ec) / pong(payload, ec): write_ping into a local buffer
\* and asio::write it on the next layer, blocking the caller, without
\* taking wr_block_.  The caller is otherwise expected not to have
\* asynchronous operations outstanding.
SyncPing ==
    /\ pc["sync"] = "idle"
    /\ SyncPingAnytime \/ \A k \in Kinds : pc[k] = "idle"
    /\ SyncCheckOpen
    /\ pc' = [pc EXCEPT !["sync"] = "writing"]
    /\ lastFrame' = "ping"
    /\ UNCHANGED <<wrBlock, paused, status, wrClose>>

\* asio::write returns; check_ok fails the stream on an error.
SyncWriteDone ==
    /\ pc["sync"] = "writing"
    /\ pc' = [pc EXCEPT !["sync"] = "idle"]
    /\ \/ UNCHANGED status
       \/ status' = FailedStatus
    /\ UNCHANGED <<wrBlock, paused, wrClose, lastFrame>>

-----------------------------------------------------------------------------

Init ==
    /\ pc = [k \in Actors |-> "idle"]
    /\ wrBlock = None
    /\ paused = [k \in Kinds |-> FALSE]
    /\ status = "open"
    /\ wrClose = FALSE
    /\ lastFrame = None

Next ==
    \/ \E o \in Kinds :
          \/ Acquire(o)
          \/ Suspend(o)
          \/ Resume(o)
          \/ PostedAbort(o)
          \/ WriteComplete(o)
    \/ CloseWait
    \/ ReadFails
    \/ SyncPing
    \/ SyncWriteDone

\* The executor eventually runs every posted handler and the transport
\* eventually completes every write it was given; the caller's starts and
\* the peer's failures are not forced.  CloseWait is not fair: close_op's
\* read of the peer's close frame has no timeout (spec 5), so a silent
\* peer keeps it, and wr_block_, forever.
Fairness ==
    /\ \A o \in Kinds : WF_vars(Resume(o))
    /\ \A o \in Kinds : WF_vars(PostedAbort(o))
    /\ \A o \in Kinds : WF_vars(WriteComplete(o))
    /\ WF_vars(SyncWriteDone)

Spec == Init /\ [][Next]_vars /\ Fairness

-----------------------------------------------------------------------------
(* Properties                                                              *)

\* wr_block_ is held by exactly the operation that is between acquiring
\* it (try_lock, or lock(this) in maybe_invoke) and its upcall's unlock:
\* no two operations write at once and no finished one keeps the lock.
LockOwnership ==
    \A o \in Kinds : (pc[o] \in Holding) <=> (wrBlock = o)

\* No lost wakeup: an operation parked in a pausation always waits on a
\* write block held by another operation, whose upcall will resume it.
\* Broken if an upcall skips a non-empty pausation.
NoStrandedPause ==
    \A k \in Kinds : paused[k] => wrBlock \notin {None, k}

\* RFC 6455: after the close frame nothing more is sent.  An operation
\* resumed from its pausation re-runs check_open after the post, since the
\* close may have been sent while it waited.
CloseFrameIsLast ==
    wrClose => lastFrame = "close"

\* Every started ping/pong, read reply and close completes (its handler
\* is invoked) however the caller keeps issuing operations, unless the
\* close handshake is left waiting on a silent peer: each of them is ahead
\* of some other kind in every upcall's resume order, so a steady stream
\* of other operations cannot starve it.  write_op is last in every order
\* but its own and is not covered.
ControlOpsComplete ==
    \A o \in Kinds \ {"wr"} :
        pc[o] # "idle" ~> (pc[o] = "idle" \/ pc["close"] = "closeWait")

\* At most one frame is being written on the next layer at any time, by
\* the asynchronous operations (through wr_block_) and the synchronous
\* ping()/pong() (through the caller not mixing the two) together: frames
\* never interleave on the wire.
OneFrameOnTheWire ==
    Cardinality({k \in Actors : pc[k] = "writing"}) <= 1

\* Spec 4.3: once the stream is closed or failed, every paused operation
\* is resumed with operation_aborted.  In the code a paused operation is
\* resumed only by an upcall, one per release, in the fixed orders.
PausedAbortedOnFailure ==
    \A k \in Kinds : (paused[k] /\ status \in {"closed", "failed"}) ~> ~paused[k]

=============================================================================
