----------------------------- MODULE FlatStream -----------------------------
(***************************************************************************)
(* beast::flat_stream (experimental/core/impl/flat_stream.ipp): a stream  *)
(* wrapper whose write_some hands the next layer one contiguous buffer.   *)
(* coalesce decides how many bytes to write and whether they must first   *)
(* be copied into a scratch buffer; otherwise buffers_prefix clips the    *)
(* caller's sequence.  One write at a time, synchronous (write_some) or   *)
(* asynchronous (async_write_some and its write_op).                      *)
(*                                                                        *)
(* The caller is either a single write_some call, or a write of a whole   *)
(* message (asio::async_write, as ping_op uses on its next layer) that    *)
(* tracks what it has written with a consumer (spec 4.4) and calls        *)
(* write_some on the rest until nothing is left or a call fails.          *)
(*                                                                        *)
(* A buffer sequence is a sequence of segments; a segment is a sequence   *)
(* of byte identities, numbered 1, 2, ... across the whole sequence, so   *)
(* a byte written twice, out of order or from the wrong place shows.      *)
(***************************************************************************)
EXTENDS Naturals, Sequences, SequencesExt

CONSTANTS
    Limit,       \* coalesce_limit
    InPlaceSegs, \* the segment count up to which coalesce writes in place
    MaxSegs,     \* segments in a caller's buffer sequence
    MaxSegLen    \* bytes in one segment

VARIABLES
    opc,          \* "idle", "writing" (write_op awaiting the next layer), "done"
    input,        \* the caller's buffer sequence (b_)
    handed,       \* bytes handed to the next layer's write_some
    scratch,      \* size of the write_op's scratch allocation (p_), 0 if none
    wire,         \* bytes the next layer wrote
    transferred,  \* bytes_transferred reported to the caller
    ec,           \* an error was reported to the caller
    caller,       \* the whole-message write: "idle", "sending", "complete", "error"
    message,      \* the sequence it writes
    consumed,     \* the consumer's offset: bytes the reported counts add up to
    sent          \* the bytes of the whole write the next layer really wrote

vars == <<opc, input, handed, scratch, wire, transferred, ec, caller, message,
          consumed, sent>>
loopVars == <<caller, message, consumed, sent>>

ASSUME Limit \in Nat \ {0} /\ InPlaceSegs \in Nat \ {0}

-----------------------------------------------------------------------------
(* Buffer sequences.                                                      *)

RECURSIVE SumLens(_)
SumLens(lens) == IF lens = <<>> THEN 0 ELSE Head(lens) + SumLens(Tail(lens))

\* The segments of lengths lens, holding bytes 1 .. SumLens(lens) in order.
Segments(lens) ==
    [i \in 1..Len(lens) |->
        [j \in 1..lens[i] |-> SumLens(SubSeq(lens, 1, i - 1)) + j]]

BufferSeqs == {Segments(lens) : lens \in SeqOf(0..MaxSegLen, MaxSegs)}

\* buffers_to_string(b): the bytes of every segment, appended in order.
BuffersToString(b) == FlattenSeq(b)

BufferSize(b) == Len(BuffersToString(b))

\* buffers_prefix(n, b): the segments up to the one holding byte n, that
\* one clipped at n (spec 4.4).
RECURSIVE BuffersPrefix(_, _)
BuffersPrefix(n, b) ==
    IF b = <<>> \/ n = 0 THEN <<>>
    ELSE IF n <= Len(Head(b)) THEN <<SubSeq(Head(b), 1, n)>>
    ELSE <<Head(b)>> \o BuffersPrefix(n - Len(Head(b)), Tail(b))

\* coalesce(b, limit) -> <<size, needs_copy>>: a sequence of at most
\* InPlaceSegs segments (one, or the transport's small-segment-count
\* threshold) is written in place, a longer one copied; either way at most
\* limit bytes (spec 4.4).
Coalesce(b, limit) ==
    <<Min({BufferSize(b), limit}), Len(b) > InPlaceSegs>>

\* (mutant: a segment consumed in part is kept whole)
RECURSIVE ConsumerRestKeepsHead(_, _)
ConsumerRestKeepsHead(b, n) ==
    IF b = <<>> \/ n < Len(Head(b)) THEN b
    ELSE ConsumerRestKeepsHead(Tail(b), n - Len(Head(b)))

\* consumer(b) after consume(n): the unconsumed remainder as a sequence,
\* the segment holding byte n + 1 clipped at its front (spec 4.4).
RECURSIVE ConsumerRest(_, _)
ConsumerRest(b, n) ==
    IF b = <<>> THEN <<>>
    ELSE IF n < Len(Head(b))
         THEN <<SubSeq(Head(b), n + 1, Len(Head(b)))>> \o Tail(b)
         ELSE ConsumerRest(Tail(b), n - Len(Head(b)))

-----------------------------------------------------------------------------
(* The write path.                                                        *)

\* (mutant: the handler is told the size of the buffer handed down)
HandlerBytesSize(buf, k) == Len(buf)

\* The count the caller's handler, or write_some's return, reports: the
\* next layer's bytes_transferred, passed through.
HandlerBytes(buf, k) == k

\* What the next layer's write_some may do with a buffer of bytes: write
\* a non-empty prefix of it, or fail having written nothing.
NextLayerWrite(buf) ==
    \E ok \in BOOLEAN, k \in 0..Len(buf):
        /\ ok => (k > 0 \/ buf = <<>>)
        /\ ~ok => k = 0
        /\ wire' = SubSeq(buf, 1, k)
        /\ transferred' = HandlerBytes(buf, k)
        /\ ec' = ~ok

\* (mutant: the in-place path hands the next layer the whole sequence)
HandedUnclipped(b) ==
    LET r == Coalesce(b, Limit) IN
    IF r[2] THEN SubSeq(FlattenSeq(b), 1, r[1])
            ELSE FlattenSeq(b)

\* The bytes of b that write_some hands the next layer: on the copy path
\* the first n bytes copied into one buffer (buffer_copy), otherwise
\* buffers_prefix(n, b).
Handed(b) ==
    LET r == Coalesce(b, Limit) IN
    IF r[2] THEN SubSeq(FlattenSeq(b), 1, r[1])
            ELSE FlattenSeq(BuffersPrefix(r[1], b))

\* write_some (both overloads): coalesce, copy or clip, write, return.
\* The throwing overload turns the error into an exception; either way
\* the caller learns the error and nothing was written.
WriteSome(b) ==
    /\ opc = "idle"
    /\ input' = b
    /\ handed' = Handed(b)
    /\ NextLayerWrite(Handed(b))
    /\ opc' = "done"
    /\ UNCHANGED <<scratch, loopVars>>

\* The scratch allocation of the copy path: coalesce's size.
ScratchSize(b) == IF Coalesce(b, Limit)[2] THEN Coalesce(b, Limit)[1] ELSE 0

\* async_write_some: the write_op starts at once; its first step
\* coalesces, allocates and fills the scratch buffer on the copy path,
\* and starts the next layer's async_write_some.
AsyncWriteSome(b) ==
    /\ opc = "idle"
    /\ input' = b
    /\ handed' = Handed(b)
    /\ scratch' = ScratchSize(b)
    /\ opc' = "writing"
    /\ UNCHANGED <<wire, transferred, ec, loopVars>>

\* write_op resumed by the next layer: release the scratch (p_.reset())
\* and invoke the caller's handler with the next layer's result.
WriteOpComplete ==
    /\ opc = "writing"
    /\ NextLayerWrite(handed)
    /\ scratch' = 0
    /\ opc' = "done"
    /\ UNCHANGED <<input, handed, loopVars>>

\* The caller takes the result.  A whole-message write consumes the
\* reported count and stops on an error; a single call just ends.
Consume ==
    /\ opc = "done"
    /\ opc' = "idle"
    /\ input' = <<>>
    /\ handed' = <<>>
    /\ wire' = <<>>
    /\ transferred' = 0
    /\ ec' = FALSE
    /\ IF caller = "sending"
          THEN /\ consumed' = consumed + transferred
               /\ sent' = sent \o wire
               /\ caller' = IF ec THEN "error" ELSE "sending"
          ELSE UNCHANGED <<consumed, sent, caller>>
    /\ UNCHANGED <<scratch, message>>

-----------------------------------------------------------------------------
(* The whole-message write (asio::write / async_write over flat_stream).  *)

\* What the write still has to send.
Rest == ConsumerRest(message, consumed)

\* The caller starts writing a whole message once the stream is idle.
BeginWrite(b) ==
    /\ opc = "idle" /\ caller # "sending"
    /\ caller' = "sending" /\ message' = b /\ consumed' = 0 /\ sent' = <<>>
    /\ UNCHANGED <<opc, input, handed, scratch, wire, transferred, ec>>

\* The next write_some or async_write_some, on what is left.
WriteRest ==
    /\ caller = "sending"
    /\ BufferSize(Rest) > 0
    /\ WriteSome(Rest) \/ AsyncWriteSome(Rest)

\* Nothing is left: the write completes.
WriteComplete ==
    /\ caller = "sending" /\ opc = "idle"
    /\ BufferSize(Rest) = 0
    /\ caller' = "complete"
    /\ UNCHANGED <<opc, input, handed, scratch, wire, transferred, ec>>
    /\ UNCHANGED <<message, consumed, sent>>

Init ==
    /\ opc = "idle"
    /\ input = <<>>
    /\ handed = <<>>
    /\ scratch = 0
    /\ wire = <<>>
    /\ transferred = 0
    /\ ec = FALSE
    /\ caller = "idle"
    /\ message = <<>>
    /\ consumed = 0
    /\ sent = <<>>

Next ==
    \/ \E b \in BufferSeqs:
          \/ caller # "sending" /\ (WriteSome(b) \/ AsyncWriteSome(b))
          \/ BeginWrite(b)
    \/ WriteRest
    \/ WriteOpComplete
    \/ Consume
    \/ WriteComplete

\* The next layer completes a started write; a whole-message write goes on
\* by itself (the composed operation's own continuation).
Spec == Init /\ [][Next]_vars /\ WF_vars(WriteOpComplete)
            /\ WF_vars(WriteRest) /\ WF_vars(caller = "sending" /\ Consume)
            /\ WF_vars(WriteComplete)

-----------------------------------------------------------------------------
(* Properties.                                                            *)

TypeOK ==
    /\ opc \in {"idle", "writing", "done"}
    /\ input \in Seq(Seq(Nat))
    /\ handed \in Seq(Nat) /\ wire \in Seq(Nat)
    /\ scratch \in Nat
    /\ transferred \in 0..Limit
    /\ ec \in BOOLEAN
    /\ caller \in {"idle", "sending", "complete", "error"}
    /\ message \in BufferSeqs \cup {<<>>}
    /\ consumed \in Nat /\ sent \in Seq(Nat)

\* The count a write reports is the number of the caller's bytes that
\* reached the next layer, and they are its first bytes in order, on the
\* copy path and the clipped path alike.
ReportedBytesArePrefix ==
    opc = "done" => wire = SubSeq(BuffersToString(input), 1, transferred)

\* Every write hands the next layer at most coalesce_limit bytes, and at
\* least one when the caller has any, so a write loop makes progress.
WriteWithinLimit ==
    opc # "idle" =>
        /\ Len(handed) <= Limit
        /\ BufferSize(input) > 0 => Len(handed) > 0

\* A write of a whole message over flat_stream is a WholeWrite: the bytes
\* the next layer writes, across all the write_some calls, are the
\* message's bytes in order, at most coalesce_limit per call, and the
\* write ends, complete only once every byte went out.  The consumer
\* advances by the reported counts, the next layer by what it wrote, so a
\* count or a remainder that is off lets bytes be skipped or repeated.
WW == INSTANCE WholeWrite WITH
          Messages <- {BuffersToString(b) : b \in BufferSeqs},
          msg <- BuffersToString(message),
          delivered <- IF caller = "sending" THEN sent \o wire ELSE sent,
          state <- caller

ImplementsWholeWrite == WW!Spec
=============================================================================
