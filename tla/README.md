# TLA+ models of beast-asio-standalone

This directory holds TLA+ models of the concurrent and stateful parts of this
repository (Beast on standalone Asio). Each one is checked with TLC.
`PROJECT.json` lists:

- the components;
- the runs and what they check;
- the mutants that show every checked property can fail;
- the source lines each definition models (`map`);
- the findings and the hazards.

## 1. The system

The repository under `src/` has three kinds of code.

**Library code.**
- `include/beast/websocket/impl/ping.ipp`: `ping_op`, the composed operation
  behind `async_ping`/`async_pong`, and the synchronous `ping`/`pong`.
- `include/beast/experimental/core/impl/flat_stream.ipp`: `flat_stream`. It
  wraps a stream so that each `write_some` hands the next layer one buffer, which
  it makes either by copying into a scratch buffer or by clipping the caller's
  sequence with `buffers_prefix`.
- `include/beast/websocket/impl/ssl.ipp`: `teardown` for SSL streams.
- Headers such as `buffers_to_string.hpp`, `version.hpp` and `error.hpp`.

The rest of the websocket stream is not under `src/`: `soft_mutex`
`wr_block_`, the pausations, `close_op`, `write_op`, `read_op`, `check_open`,
`coalesce` and `buffers_prefix`. It is described by `spec.md` sections 4.3 to
4.5 and 5.

**Example programs.**
- `http_crawl.cpp`: a multi-threaded crawler. Each worker thread has its own
  `io_context` and a deadline timer. Workers take hosts from an atomic index and
  post counters to a strand on the main `io_context`.
- `websocket_server_fast.cpp`: three echo servers (synchronous, asynchronous,
  coroutine) on three ports of one process.
- `websocket_server_coro.cpp`: a standalone coroutine echo server.
- Two HTTP clients and a websocket client.

**Unit tests.** These include `buffers_prefix.cpp`, whose `testMatrix` gives
the reference meaning of `buffers_prefix`.

How the parts interact:
- The write-class operations of one stream contend for `wr_block_`. An operation
  that finds it taken parks in its pausation. The holder's completion (the
  "upcall") unlocks and resumes one paused operation, in a fixed order.
- The crawler's workers share the atomic index and the report strand.
  `main` joins them.
- Each echo server pairs a listener with the sessions it creates. The three
  servers of `websocket_server_fast` share one process: the synchronous
  listener runs on a detached thread, and the other two are handlers on the
  process's `io_context`. When the process ends, all three ports end with it.

### Inventory

| Component | State | Operations | Hard behaviour |
|---|---|---|---|
| write arbiter / `ping_op` | `wr_block_` holder, pausations `paused_close_`, `paused_rd_`, `paused_ping_`, `paused_wr_`, `status_`, `wr_close_` | try_lock or suspend, resume (lock, post, `check_open`), write, upcall (unlock and resume one) | interleaving of four operation kinds, lost wake-ups, writing after the close frame, starvation |
| crawler | `index_`, per worker: host, step, timer deadline and wait, socket; the strand queue; the report counters; `main`'s work guard | `get_host`, `do_get_host`, `on_timer`, `on_resolve`/`connect`/`write`/`read`, `aggregate`, `main`'s join/reset/print | workers racing on the index, timer completions that are stale when they run, a timer never re-armed, threads that never end |
| echo servers | per server: listener state, acceptor listening, session step, stream status, last read outcome; per program: process running, terminated or exited | listener setup, accept (ok or error), handshake, read, echo write, process exit | error paths that go on, listeners that spin or stop, sessions that loop after a failure, one port's failure or `main`'s return ending the other ports |
| `flat_stream` | the caller's sequence, the bytes handed down, the scratch allocation, the bytes written, the result | `write_some` (both overloads), `async_write_some` / `write_op`; a whole-message write looping over them | partial writes, clipping at segment boundaries, scratch bound and release, bytes skipped or repeated across a sequence of partial writes |
| clients | per client: next step, response printed, last step's result, exit status | each step completing with success, an error, or a tolerated error code | the server closing first at shutdown; the exit status after a failure |

## 2. Modules

| Module | Models | MC module / cfgs |
|---|---|---|
| `WsWriteArbiter` | `ping_op` line by line, with the other write-class operations as operations of the same shape | `MC_WsWriteArbiter`; `MC_WsWriteArbiter.cfg`, `MC_WsWriteArbiter_syncping.cfg`, `MC_WsWriteArbiter_abort.cfg` |
| `HttpCrawl` | the crawler: workers, timers, report strand, `main` | `MC_HttpCrawl`; `MC_HttpCrawl.cfg`, `MC_HttpCrawl_LostTimer.cfg`, `MC_HttpCrawl_OutOfHosts.cfg` |
| `EchoServer` | the four echo servers: listeners, sessions and the processes that run them | `MC_EchoServer`; `MC_EchoServer.cfg` and one cfg per violation |
| `FlatStream` | the `flat_stream` write path, with `buffers_prefix`, `buffers_to_string` and `coalesce` as operators, and a whole-message write over it | `MC_FlatStream`; `MC_FlatStream.cfg` |
| `WholeWrite` | what a whole-message write promises: the abstract specification `FlatStream`'s write loop refines | instantiated by `FlatStream` |
| `Clients` | `http_client_async`, `http_client_sync_ssl`, `websocket_client_coro` | `MC_Clients`; `MC_Clients.cfg` |

### WsWriteArbiter

State:
- `pc[k]`: the coroutine position of operation kind `k` (close, rd, ping, wr).
  The library allows one outstanding operation per kind.
- `wrBlock`: `wr_block_`.
- `paused[k]`: the pausation `paused_<k>_` is non-empty.
- `status`: `status_`.
- `wrClose`: `wr_close_`.
- `lastFrame`: the last frame written: `"close"` for a close frame,
  otherwise the kind of operation that wrote it.

Actions (`ping.ipp` 131-182):

| Action | `ping_op` step |
|---|---|
| `Acquire` | `try_lock` succeeds. Check the stream is open, then write the frame, or post the error. |
| `Suspend` | `try_lock` fails: `paused_ping_.emplace`. |
| `Resume` | The posted continuation after `lock(this)`: `check_open`, then write or upcall. |
| `PostedAbort` | The posted error: goto upcall. |
| `WriteComplete` | `async_write` completes: `check_ok`, then upcall. `close_op` goes on to wait for the peer. |
| `Upcall` | Unlock, then the first `maybe_invoke` that finds an operation hands it `wr_block_`. |

`close_op`, `write_op` and the read side's reply have the same skeleton.
The read side's reply is a pong, or the echo of the peer's close frame
(`SendsClose`): that echo sets `wr_close_` and marks the stream closing, as
`close_op`'s frame does. They differ only in their resume orders (`*ResumeOrder`). These come
from the spec and are marked `spec_modelled` in the map.

Two more actions come from the spec:
- `CloseWait`: `close_op` reading until the peer's close frame arrives. A
  close frame from the peer ends a closing stream as `closed`; anything else
  (or a stream that had already failed) leaves it `failed`.
- `ReadFails`: a failing read on the other half of the full-duplex stream.

The synchronous `stream::ping(payload, ec)` (`ping.ipp` 198-212) is a fifth
actor, `"sync"`: `SyncPing` checks the stream is open and writes the frame
with `asio::write`, and `SyncWriteDone` completes it (`check_ok` may fail the
stream). It never touches `wr_block_`. The constant `SyncPingAnytime` says
whether the caller may call it while asynchronous operations are
outstanding; when it is `FALSE` the caller waits until every asynchronous
operation is idle and does not start one during the call (the Asio usage
rule for one stream).

**Fairness.** The executor runs every posted continuation and the
transport completes every write, so `Resume`, `PostedAbort`,
`WriteComplete` and `SyncWriteDone` are weakly fair. `CloseWait` is not:
`close_op` keeps `wr_block_` through a read of the peer's close frame, and
that read has no timeout (spec 5). A silent peer therefore keeps the close,
and every operation paused behind it, waiting forever, and
`ControlOpsComplete` names that case as its one exception.

### HttpCrawl

Each worker has:
- a step `wpc` (init, resolving, connecting, writing, reading, noHost);
- the host index it holds;
- a deadline: `max` (never set), `future` or `past`;
- the state of its timer's wait: idle, waiting, aborted, fired, stopped. Aborted
  and fired mean the completion is queued and `on_timer` has yet to run.
- whether its socket is open.

Shared state:
- `index`: `index_`.
- `strand`: the FIFO of posted `aggregate` lambdas.
- `report`: the counters.
- `main`'s work guard, whether the report thread is alive, and whether the
  report was printed.

Actions:
- One per handler: `Run`, `OnResolve`, `OnConnect`, `OnWrite`, `OnRead`,
  `OnTimer`. `do_get_host`, `expires_after` (which cancels the pending wait) and
  `cancel_one` are inside them, as in the code.
- `Tick`: time passes a future deadline.
- `RunAggregate`: the strand runs one lambda.
- `main`'s `ResetWork`, `ReportThreadExits` and `PrintReport`.

### EchoServer

`Styles` picks the servers: `sync`, `async` and `coro` (`websocket_server_fast`),
and `coro_server` (`websocket_server_coro`).

The listener:
- `SetupListener` tries open, set_option, bind and listen. Any step can fail.
  What follows a failure differs by style (`ListenerAfterSetup`): the synchronous
  acceptor constructor throws on a detached thread, `async_listener::run` checks
  only `is_open()`, and the coroutines return.
- `AcceptError` and `AcceptConnection` model the accept loop.
  `AfterAcceptError` records which listeners keep accepting after an error.

**Processes.** `proc[p]` is the state of each program's process
(`Program(l)` gives the program of a style). Every action of a listener or
session is guarded by `Alive(l)`:
- `SetupListener` of the synchronous listener with a failed step throws out
  of its detached thread (`Terminates`). The whole `websocket_server_fast`
  process is then `terminated`.
- `MainExit(p)` is `ioc.run()` returning on every thread, followed by `main`
  returning. It is enabled when `IocIdle(p)` holds: none of the program's
  io_context listeners (`IocStyles(p)`) is setting up or accepting, and none
  of their sessions is active. The synchronous listener and its sessions do
  not keep `ioc.run()` busy. With more than one thread, the never-joined
  threads of `v` make the exit a `std::terminate`. The model does not tell
  these two endings apart.

A session goes through `Handshake`, `ReadDone` and `OnWrite`. Where a read
outcome leads is a table per style (`SyncAfterRead`, `AsyncAfterRead`,
`CoroAfterRead`, `CoroServerAfterRead`), which `ReadDone` looks up by style. The websocket stream is only its status.
A read delivers a message, a close, or an error that fails the stream. On a
stream that is not open, every read and write fails at once (`check_open`).

### FlatStream

A buffer sequence is a sequence of segments of byte identities 1, 2, 3, ...
A byte that is duplicated, reordered or taken from the wrong place therefore
changes the result.

Pure operators:
- `BuffersToString` (`buffers_to_string`).
- `BuffersPrefix`: RECURSIVE, from spec 4.4.
- `Coalesce`: from spec 4.4. A sequence of at most `InPlaceSegs` segments (the
  spec's small-segment-count threshold) is written in place through
  `buffers_prefix`; a longer one is copied. Either way the size is
  `min(total, coalesce_limit)`.

Actions:
- `WriteSome`: both synchronous overloads.
- `AsyncWriteSome`: the first step of `write_op`, which coalesces, allocates,
  copies or clips, and starts the write.
- `WriteOpComplete`: `p_.reset()`, then the handler. The two calls run one
  after the other in the same invocation with no scheduling point between
  them, so the action is one step.
- `Consume`: the caller takes the result. A single call just ends. A
  whole-message write advances its consumer by the reported count, and stops
  on an error.

The next layer may write any non-empty prefix of what it is handed, or fail
having written nothing.

**Whole-message write and refinement.** The caller may also write a whole
message, as `ping_op` does with `asio::async_write(d.ws.stream_, ...)`. Such a
write tracks its progress with the `consumer` of spec 4.4: `ConsumerRest` is
the unconsumed remainder, with the segment holding the next byte clipped at
its front. The actions are:
- `BeginWrite` starts the write.
- `WriteRest` calls `write_some` or `async_write_some` on `Rest`.
- `Consume` advances `consumed` by the reported count and appends what the
  next layer really wrote to `sent`.
- `WriteComplete` ends the write once nothing is left.

Single calls are still possible between whole-message writes, so every
earlier case stays reachable.

`WholeWrite` states what such a write promises, and nothing of how:
- the message's bytes are delivered in order;
- each step delivers at most `Limit` bytes;
- the write ends, as `complete` only once every byte is delivered, or as
  `error`.

`FlatStream` instantiates it with `delivered <- sent \o wire` while sending,
and `state <- caller`. `ImplementsWholeWrite` checks `WW!Spec`, including its
weak fairness on progress. Two counts are kept apart: the consumer advances
by the count the handler reports, and the next layer by what it wrote. A
count or a remainder that is off by any amount therefore shows as a skipped
or repeated byte.

### Clients

Each client is its fixed sequence of steps (`AsyncSteps`, `SslSteps`,
`WsSteps`). One action, `Step(c)`, completes the next step with one of the
results the call can give (`StepResults`):
- a result the program goes on with (`Tolerated`): success, `not_connected`
  on the asynchronous client's TCP shutdown, `eof` on the SSL client's TLS
  shutdown;
- any other error: the handler or coroutine returns (asynchronous clients) or
  the exception reaches the `catch` (SSL client), and `main` returns
  `ExitOnError[c]`.

`PrintAfter` is the step after which the response is printed: the read for
the HTTP clients, the close for the websocket client.

## 3. Runs

| Run | Expect | What it shows |
|---|---|---|
| `ws_arbiter` | pass | All four kinds of operation contend for `wr_block_`, with closes, close echoes and read failures at any point. `LockOwnership`: the lock is held by exactly the operation between acquiring it and its upcall. `NoStrandedPause`: a paused operation always waits on another holder, so there is no lost wake-up. `CloseFrameIsLast`: no frame follows a close frame (`close_op`'s or the read side's echo), because of the re-check after the post. `ControlOpsComplete`: every close, ping and read reply completes, however the caller keeps issuing operations, unless `close_op` waits on a silent peer. |
| `ws_sync_ping_interleaves` | violation | `OneFrameOnTheWire` with `SyncPingAnytime = TRUE`: a synchronous ping issued while an asynchronous write holds `wr_block_` puts a second frame on the wire, although spec 4.5 says ping acquires the write lock. |
| `ws_paused_not_aborted` | violation | `PausedAbortedOnFailure`: after the stream fails, close and ping re-issued by the caller hand `wr_block_` to each other, and the paused message write is never aborted, contrary to spec 4.3. |
| `crawl` | pass | Two workers and three hosts. `EveryHostAccountedOnce`: across workers and the strand, each host is crawled by one worker or counted once. `ReportCompleteWhenPrinted`. `InFlightWithTimerFinishes`: a connect, write or read guarded by a running timer ends even if the server never answers. |
| `crawl_lost_timer` | violation | `EveryHostReported`: after one timeout the timer is never re-armed, and a silent server hangs the worker. |
| `crawl_out_of_hosts` | violation | `OutOfHostsWorkerFinishes`: a worker that gets no host waits for ever on a timer whose deadline is `time_point::max`. |
| `echo` | pass | All four servers. `SessionEnds`: a session whose stream closed or failed ends, or its process does. |
| `echo_port_taken_down` | violation | `PortServedUntilAcceptError`: a failed bind of the synchronous port terminates the process while the asynchronous port is accepting. The same property also fails by another path: `main` returning once the io_context listeners have stopped, while the synchronous listener still accepts. |
| `echo_write_after_read_error` | violation | `WritesOnlyAfterMessage`: `async_session::on_read` writes after a read error. |
| `echo_listener_spin` | violation | `AcceptOnlyWhenListening`: after a failed bind, `async_listener` accepts on an unbound acceptor for ever. |
| `clients` | pass | Every step of the three clients may fail. `TypeOK`: each client stays within its steps and ends with one of `main`'s return values. |
| `flat_stream` | pass | Every sequence of up to 3 segments of up to 3 bytes, with a limit of 2; one or two segments are written in place, three copied. `ReportedBytesArePrefix`: the reported count equals the caller's first bytes, in order, that reached the next layer. `WriteWithinLimit`: between 1 and `coalesce_limit` bytes are handed down. `ImplementsWholeWrite`: a whole-message write made of these calls delivers every byte once, in order, and ends. |

Every property of a passing run has a mutant in `PROJECT.json`. A mutant is an
operator defined just before the definition it replaces, usually a one-line
helper the action calls, and it stands for a plausible bug, such as:
- an upcall that skips a pausation (`PingResumeOrderNoWr`) or whose resumed
  operation does not lock (`LockedByNoLock`);
- no re-check after the post (`ResumeCheckOpenSkipped`), or a synchronous
  ping without `check_open` (`SyncCheckOpenSkipped`);
- an error path that returns without the upcall's unlock
  (`PostedAbortNoUnlock`, which starves the operations paused behind it);
- a `get_host` bound check off by one (`OutOfHostsOffByOne`);
- `on_timer` not closing the socket (`CloseOnTimeoutNoClose`);
- the work guard reset before the joins (`JoinedOthersEarly`);
- the in-place path handing down the whole sequence unclipped
  (`HandedUnclipped`);
- a consumer that keeps a partly consumed segment whole (`ConsumerRestKeepsHead`), which breaks the `WholeWrite` refinement.

TLC finds each of them.

## 4. Bounds and why they are enough

**`ws_arbiter`.** All four kinds are issued, which makes every resume order
reachable. One operation per kind is the library's own usage rule. The stream
can close or fail at any step.

**`crawl`.** Two workers and three hosts are enough for:
- both workers racing on the index while both crawl;
- a worker going on to a second host after a timeout or a success, which is
  where the lost timer matters;
- one worker running out of hosts while the other still crawls;
- both outcomes of every step;
- a timeout at every step.

`index` is bounded by `NumHosts + |Workers|`, since each worker calls
`get_host` once past the end.

**`echo`.** One session slot per listener. Every listener setup may fail at
any step, so both process endings happen: the terminate, and `main` returning
under the synchronous listener. The sessions of one server do not
share state, so one session shows every path.

**`flat_stream`.** The segments are shorter than, equal to and longer than the
limit, and there are one to three of them. With `InPlaceSegs = 2`, sequences
of one and two segments take the in-place path, where `buffers_prefix` clips
across a segment boundary, and sequences of three take the copy path. This
covers clipping inside a segment and at a boundary, empty segments, and
empty sequences. A whole-message write of up to 9 bytes with a limit of 2
takes up to 5 partial calls. Its remainders start in the middle of a
segment and after empty segments, and alternate between the copy path and
the clipped path. The run has about 143,000 states and takes 25 seconds.

**`clients`.** Each client runs once, and every step may fail. This covers
every early return and both shutdown codes.

All passing runs finish within a minute. The largest is `crawl`, at about
222,000 states in 40 seconds.

## 5. Fairness

**WsWriteArbiter.** Weak fairness on:
- the posted continuations (`Resume`, `PostedAbort`), because the executor runs
  what is posted;
- `WriteComplete`, because the transport completes a write;
- `SyncWriteDone`, because a blocking `asio::write` returns.

The caller's starts, the peer's failures and the peer's answer to a close
(`CloseWait`) are not forced. `close_op`'s read of the peer's close frame
has no timeout (spec 5), so the model lets a silent peer keep it waiting.

**HttpCrawl.** Weak fairness on:
- `Run`;
- resolver completions;
- `on_timer`;
- the passage of time;
- the strand.

Connect, write and read are forced only when the socket is closed (`AbortedIO`).
A connected server is not assumed to answer.

**EchoServer.** Only operations on a stream that is no longer open are forced,
because they fail at once. `MainExit` is forced too: `ioc.run()` returns once
it has no work. A peer is not assumed to send or answer.

**FlatStream.** The next layer eventually completes a started write. A whole-message write is a composed operation that continues by itself, so `WriteRest`, its `Consume` and `WriteComplete` are weakly fair. The caller's choice to start a write is not forced.

**Clients.** None. The properties checked are invariants, and a client that
waits for ever on a silent server is a real behaviour (there is no deadline).

## 6. Not modelled

- The message writer's progress on an open stream. The fixed resume orders
  let pings and pong replies hand `wr_block_` to each other past a paused
  message write (`ping.ipp:175`). Spec 4.3 fixes the priority and promises
  nothing more, so no run checks it. `ws_paused_not_aborted` shows the same
  hand-off cycle on a dead stream, where the spec does promise an abort.
- The synchronous `pong` (`ping.ipp` 214-239). It is the synchronous ping
  with a different opcode; `SyncPing` stands for both.
- The synchronous listener's stop after one accept error
  (`websocket_server_fast.cpp:128`) is modelled (`AfterAcceptError`) but not
  checked: nothing in the repository says that listener must survive it.
- The clients' exit status after a failed step (`ExitOnError`) is modelled
  but not checked: nothing in the repository says what it means.
- What the read side does after echoing the peer's close frame. The echo
  (`SendsClose`) sets `wr_close_` and marks the stream closing; the
  transport teardown that follows is not an action of its own, and the
  stream leaves `closing` only through a failing read (`ReadFails`).
- SSL teardown. It only forwards to `ssl::stream::shutdown`.
- The internals of `asio::write`/`async_write`. Asio is not part of the
  repository. The whole-message write over `flat_stream` follows the
  `consumer` of spec 4.4, and its map entries are marked as modelled from
  the spec. Only its call site in `ping_op` (`ping.ipp` 166-168) is code
  under `src/`.
- `flat_stream`'s read functions and teardown. They only forward to the next
  layer.
- The clients' argument checks, request contents and printed text. The
  asynchronous client's missing read deadline is a hazard with no property,
  since the program has no timer to model.
- The crawler's timer error branch ("Should never happen"): a steady timer's
  wait completes only with success or `operation_aborted`.
- Frame encoding, HTTP messages, host names, status codes, logging and output
  formatting. No property distinguishes them.
- Headers with no operations (`core.hpp`, `version.hpp`, `error.hpp`,
  `dynamic_body.hpp`), and unit tests of code not under `src/` (`clamp`,
  `read_size`, `file_stdio`, `file_win32`, `core_snippets`, `sig_wait`).

## 7. Findings

1. **One port's failure ends the others.** `websocket_server_fast.cpp:121`
   and `:480`. The synchronous acceptor's constructor throws on a failed
   bind inside a detached thread, and `std::terminate` kills the asynchronous
   and coroutine ports. Separately, once those two ports have stopped,
   `ioc.run()` returns and `main` returns under the still accepting
   synchronous listener.
2. **Crawler timer lost after a timeout.** `http_crawl.cpp:211`. This
   contradicts the comment "The timer is operated continuously". Later steps run
   without a deadline.
3. **Crawler hang when a worker gets no host.** `http_crawl.cpp:233`. The
   cancelled wait has deadline `max`, so `on_timer` waits again for ever, and
   `main`'s `join` never returns.
4. **Echo after a read error.** `websocket_server_fast.cpp:212`. There is no
   `return` after `fail(ec, "read")`.
5. **The asynchronous listener spins after a failed bind or listen.**
   `websocket_server_fast.cpp:301`.
6. **Synchronous ping ignores the write block (spec divergence).**
   `ping.ipp:209`. Spec 4.5 says ping "acquire[s] write lock (or queue via
   OperationArbiter)"; the synchronous overload writes with `asio::write`
   without `wr_block_`, so it is safe only under the caller's usage rule.
7. **Paused operations are not aborted on failure (spec divergence).**
   `ping.ipp:152`. Spec 4.3 says every paused operation is resumed at once
   with `operation_aborted` when the stream closes or fails. The code resumes
   one paused operation per release, in the fixed orders, and only after it
   has taken `wr_block_`; close and ping re-issued on a dead stream can keep
   a paused message write waiting for ever.
