----------------------------- MODULE WholeWrite -----------------------------
(***************************************************************************)
(* What a caller's write of a whole message (asio::write or async_write   *)
(* of a buffer sequence, as ping_op does on its next layer) promises when *)
(* the stream below is a flat_stream: the message's bytes reach the next  *)
(* layer in order, never more than Limit of them per step, and the write  *)
(* ends, complete once every byte is delivered, or failed at any point.   *)
(* No byte is skipped, repeated or reordered across the steps.           *)
(***************************************************************************)
EXTENDS Naturals, Sequences

CONSTANTS
    Messages,   \* the byte strings a caller may write
    Limit       \* the most bytes one step may deliver

VARIABLES
    msg,        \* the message being written
    delivered,  \* the bytes of it the next layer has written so far
    state       \* "idle", "sending", "complete" or "error"

vars == <<msg, delivered, state>>

Init == msg = <<>> /\ delivered = <<>> /\ state = "idle"

\* The caller starts a write once the previous one has ended.
Begin(m) ==
    /\ state # "sending"
    /\ msg' = m /\ delivered' = <<>> /\ state' = "sending"

\* The next k bytes of the message are written.
Deliver(k) ==
    /\ state = "sending"
    /\ Len(delivered) + k <= Len(msg)
    /\ delivered' = SubSeq(msg, 1, Len(delivered) + k)
    /\ UNCHANGED <<msg, state>>

\* The write reports success once the whole message is delivered.
Complete ==
    /\ state = "sending" /\ delivered = msg
    /\ state' = "complete" /\ UNCHANGED <<msg, delivered>>

\* The write reports an error, with whatever was delivered so far.
Fail ==
    /\ state = "sending"
    /\ state' = "error" /\ UNCHANGED <<msg, delivered>>

Progress == (\E k \in 1..Limit : Deliver(k)) \/ Complete \/ Fail

Next == (\E m \in Messages : Begin(m)) \/ Progress

\* A started write keeps making progress, so it ends.
Spec == Init /\ [][Next]_vars /\ WF_vars(Progress)
=============================================================================
