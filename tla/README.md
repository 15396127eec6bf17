# fizz-py: a TLA+ verification project

fizz-py is a Python TLS 1.3 client built on Facebook's Fizz: a C++ core
(`src/_core.cpp`) that runs Fizz on one background event loop, and a Python
package (`src/fizzpy/`) with HTTP clients, a socket layer, adapters for httpx and
requests, and a post-quantum prober. This directory models the parts of it that
hold state across threads, callbacks and awaits, model-checks them with TLC and
proves with TLAPS the safety of the core (with its refinement of an abstract
contract), of the socket layer, the clients, the response parser, the prober, the
scans and the command line.  Every invariant that a run checks is also a theorem.

## 1. The system

### Components

| Component | State it keeps | Operations | Modelled by |
|---|---|---|---|
| TLS connection core (`_core.cpp`, `TlsConnection`) | `client_`, `buffer_`, `pendingRead_`, `eof_`, `readErr_`, the read deadline, the send deadline, the descriptor, the tasks posted to the EventBase | `connect`, `wrap_fd`, `write`, `read`, `close`, the destructor; the transport's callbacks (connect, handshake, write, read) and the deadlines | `TlsConnection`, promise in `ConnectionContract` |
| Resolve/reject bridge (`_transport.py`) | one promise per call | `run_sync`, `run_async` | `WrapSocket` (`Answer`, `Deliver`, `StopWaiting`), `TlsSocket`; the callers of `TlsConnection` (`Abandon`, `Idle`) |
| HTTP clients (`__init__.py`, `aio.py`, `_common.py`) | the pool (a list of idle connections per host), the redirect counter of a call | `request`, `_perform`, `_exchange`, `_take`, `_give`, `close` | `HttpClient` |
| Response parser (`_http.py`) | `_buf`, `_state`, framing, chunk cursor, body | `feed`, `feed_eof` | `ResponseParser` |
| Post-quantum probe (`probe.py`, `probe`) | sockets, tasks, attempts, round | `probe`, `_handshake`, `_handshake_fresh`, `_verdict`, `_settled` | `Probe` |
| Probe scans (`probe.py`, `probe_many`) | semaphore, tasks, completion order | the generator, its tasks, its cleanup | `ProbeMany` |
| Socket layer (`_tls.py`) | leftover bytes of `recv`, the descriptor number, the timeout, `_eof`, `_closed` | `wrap_socket`, `handshake_async`; `recv`, `send`, `makefile`, `settimeout`, `fileno`, `close` | `WrapSocket`, `TlsSocket` |
| Adapters, TLS 1.2 fallback (`contrib/`) | the trust settings of a shared context, the sockets a downgrade owns | `FizzSSLContext.wrap_socket`, `_stdlib_handshake`, `_is_protocol_version_failure` | `WrapSocket` |
| Extensions and timeouts (`_common.py`) | none | `normalize_extensions`, `timeout_to_ms` | `Deadline`, `WrapSocket` (`Refused`) |
| Command line (`__main__.py`) | the targets, the results, the exit status | `main`, `_read_targets`, `_cmd_probe`, `_probe_all` | `Cli` |
| Requests, headers, responses; target and URL parsing | none | `build_request`, `strip_body_headers`, `parse_target`, `parse_url` | partly: `HttpClient` (`BuildRequest`, `Stripped`), `Cli` (`parse_target`) |
| Certificate verification, bindings, build scripts | - | - | not modelled (section 7) |

### How they interact

A Python thread (or asyncio task) never touches the fields of a connection: it
posts a task to the EventBase, a FIFO that one daemon thread serves, and waits for
the promise the task carries. The loop thread runs the tasks and the callbacks of
Fizz one at a time, and takes the GIL only to answer a promise. The clients call
the core through the bridge for `connect`, `write` and `read` and feed what `read`
returns to a parser of their own; between two calls they exchange connections
through the pool (under a lock in `Client`, between two awaits in `AsyncClient`).
The prober makes its own TCP sockets and hands them to `wrap_fd`; a scan runs
many probes as tasks behind a semaphore, and the command line consumes the scan.
The socket layer duplicates the caller's descriptor and hands the copy to `wrap_fd`;
the answer comes back through the bridge, directly or over an asyncio loop. The
contexts of requests and httpx call it with settings that other requests change.

### What is hard, and what correctness means

* **Core.** Submissions, callbacks, deadlines, interruption of a caller and the
  destruction of the object interleave freely. Correct means: the byte stream is
  intact and its end comes last; no reader sleeps beside its data; a promise is
  answered once, and never lost while somebody waits for it; a deadline belongs to
  one operation; after the destructor nothing reaches the object, its descriptor is
  closed, and the destructor itself does not deadlock with the loop over the GIL.
* **Clients.** Requests and `close()` race for pooled connections that the server
  may close at any time, before or after it has acted on a request. Correct means:
  one owner per connection, the response of one's own request, at most one retry,
  the body and the host decided anew at each redirect, and an end to every call.
* **Parser.** A response may be cut anywhere and end anywhere. Correct means: the
  result does not depend on the cuts, a truncated chunked body is not taken for a
  whole one, a complete response is noticed at its last byte, and `feed` returns.
* **Prober.** Concurrent attempts fail, raise or are cancelled at any await, over
  paths that lose packets. Correct means: nothing is left behind, the verdict is
  true of the host, and permits are neither lost nor invented.
* **Socket layer and adapters.** A descriptor passes from the caller over Python to the
  core while handshakes fail, callers give up and the asyncio loop closes, and its number
  is reused by the process at once. Correct means: every number has one owner, which
  closes it and nobody else's; a handshake and its retry use one trust setting and are
  downgraded only away from a peer without TLS 1.3; `recv` hands the bytes out in order;
  an operation with a timeout ends, however short the timeout.
* **Command line.** Duplicates in several spellings, failing hosts, a broken pipe and
  Control-C. Correct means: the exit status tells the truth, the output is complete and in
  order, and the command ends with nothing left running.

`PROJECT.json` lists each hazard at its line with the properties that watch it.

## 2. Modules and the code

* **`TlsConnection`** (`_core.cpp`). One variable per data member that matters
  (`client`, `buffer`, `pendingRead`, `timer`, `sendTimeout`, `eof`, `readErr`,
  `fd`), the EventBase's `queue`, and the `status` of each operation, which stands
  for its promise. Python threads take `Connect`, `WrapFd`, `Write`, `Read`, `Close`,
  `Abandon` (asyncio cancellation or KeyboardInterrupt) and the destructor in the
  three steps another thread can see (`DtorEnter` with the GIL, `DtorRelease`: GIL
  released and teardown posted, `DtorFinish`). The `Run...` actions are the bodies of
  the posted tasks, run in FIFO order, each whole; the rest are callbacks of the
  transport. An operation is submitted at most once, so sets of operations take the
  place of a counter. Data chunks are numbers in order of arrival.
  `received`, `delivered`, `status` of finished operations are history.
  The transport is external: it may deliver data, EOF or an error whenever it is up.
* **`ConnectionContract`** is the abstract specification of the same component, in
  terms of what the callers see: phases of operations, how many chunks have arrived
  and been handed out, whether the stream has ended. `TlsConnection` instantiates it
  with a refinement mapping (`PhaseOf`, `Contract`).
* **`TlsConnectionInv`** holds the inductive invariant, **`TlsConnectionProofs`** the
  theorems about the core, **`TlsContractProofs`** the refinement.
* **`HttpClient`** (`__init__.py`, `aio.py`, `_common.py`). A call is an actor with a
  program counter (`take`, `connect`, `write`, `read`, `decide`); each step is what
  happens between two hand-overs to the core, so that the synchronous and the
  asynchronous client have the same steps. The connection is what the contract
  promises: a write or read succeeds, fails or times out. `GiveUp` and `Finish` are the
  two ways out of `_exchange`; a call may be cancelled at each of its awaits, and follow
  redirects or not. A request carries its body and its Content-Length separately, since
  `build_request` and `strip_body_headers` decide about them in different places. The
  server is external: it may act on a request or not, answer with any code, location and
  framing, announce to HEAD a length that no body follows (`"silent"`), announce the
  answer with a 1xx response (`Hinted`), send its answer in any number of parts, without end
  if it likes (`ReadPart`; `got` tells `Parts` of them apart), and close at any time.
* **`ResponseParser`** (`_http.py`). The text of a response is a sequence of tokens:
  CR and LF are tokens of their own, since a feed may end between them, and so is every
  byte of a body, which may itself be a CR or an LF. One action per branch of
  `_parse`; `running` says that `_parse` is in its loop. A response may break the framing
  in each place where it is read, negative sizes included (`int()` takes a sign), or hold
  a compressed stream that is corrupt or that itself ends early; `_decompress` may then
  return the raw bytes or raise EOFError (`Decompress` is the set of its outcomes).
  `Responses` is the set of responses, `Bytes` what bodies are made of, and
  `SizeToken[n]` the token of a chunk-size line that announces n bytes.
* **`Probe`**, **`ProbeMany`** (`probe.py`). The steps of a task are its awaits;
  cancellation is delivered to each task on its own, before or after its first step.
  The host (mode, groups, path, loss) is part of the state, so that a verdict can be
  compared with the truth. A host may be silent; `Answers` are what it says, and what a
  timer does when it says nothing is a failure of its own (`TaskFails`, `TaskConnectFails`,
  `ConnectFirstFails`, `DnsFails`). `Bounded` names the awaits the code puts under
  `wait_for`: only there does fairness let a timer fire (`Timeouts`).
* **`Cli`** (`__main__.py`) extends `ProbeMany`: the command is the consumer of the
  generator, from the lines of its input (a bare IP address, or the parts `urlsplit()`
  finds; `parse_target` refuses and normalizes them) to the exit status. `firsts` are the
  lines that `dict.fromkeys` keeps, `order` the key the table is sorted by. The second
  consumer is a library user, who may leave at any yield or be cancelled in any await.
* **`Deadline`** (`_common.py`). `TimeoutToMs` and `Convertible`, over None, infinity, NaN
  and multiples of half a millisecond.
* **`WrapSocket`** (`_tls.py`, `_transport.py`, `contrib/_context.py`). One call that wraps
  a socket, directly, on an asyncio loop, or through the context of requests or httpx. The
  descriptor table of the process is state, with the lowest free number handed out next,
  so that a stale number really is somebody else's. `cfg` is the snapshot `ctx` is
  read into; `Answer` and `Deliver` are the bridge. The handshake is external and may fail
  in every way in which the fallback can tell failures apart (`Errors`).
* **`TlsSocket`** (`_tls.py`) extends it with the object the call returns, over the core
  reduced to what the socket sees: its task queue, the parked read and its deadline, the
  buffer. Bytes are numbered; `lost` is history: those that went to a caller who had
  given up.
* **`ProbeProofs`**, **`CliProofs`**, **`HttpClientProofs`**, **`ResponseParserProofs`**,
  **`TlsSocketProofs`** and **`TlsStreamProofs`** hold the inductive invariants and the
  theorems of the other components (section 5).
* **`MC...`** modules name the instances; every cfg gives constants their values only.

The mutants (`Mutant:` comments) stand before the definition they alter. They are no
part of any specification: each is a plausible bug that the named property catches.

## 3. Runs

Passing runs:

| Run | Checks | Shows |
|---|---|---|
| `tls_safety` | `IndInv`, `StreamIntact`, `EndOfStreamLast`, `ParkedMeansStarved`, `NoUseAfterFree`, `NoLostPromise`, `NoDescriptorLeak`, `AnsweredOnce`, `ImplementsContract` | Every interleaving over two reads, two writes, a close, the destructor and two chunks; a caller that was interrupted may submit again at once (`Reissue`). |
| `tls_deadlines` | `TimeoutOnlyWithDeadline`, `TimedOpsSettle`, `DestroyFinishes` | When callers keep to one operation per direction, no deadline is inherited; operations with a deadline are answered, and a destructor returns, whatever the peer does. |
| `tls_layer` | `DescriptorsAccounted`, `SameTrust`, `StreamInOrder`, `LateAnswers`, `NeverClosesOthers`, `DeadlineHonoured` | A socket is wrapped in each way, with the downgrade, and then used: descriptors change hands and are reused, callers give up, the asyncio loop closes, another request overwrites the context. |
| `client_pool` | `SingleOwner`, `OwnResponse`, `PooledIsIdle`, `AtMostOneRetry` | Three requests share one host's pool while the server closes connections, answers HEAD with a length and no body, and `close()` runs. |
| `client_redirect` | `OwnHost`, `BodyWithMethod`, `CallsEnd` | One request over two hosts and up to two redirects, followed or not, with reuse, retries, interim responses, a non-https Location and cancellation. A call ends unless the server drips bytes for ever. |
| `parser` | `BodyIsPrefix`, `CompleteIsExact`, `LastByteCompletes`, `RefusalsAreRight`, `EarlyEof`, `FeedReturns` | All framings, well formed and malformed, cut at every place, with EOF at every place; a body that is not chunked is returned as far as it was received, a chunked one whole or not at all. |
| `probe` | `NothingLeftBehind`, `VerdictIsTrue`, `ProbeEnds` | Every kind of host over clear, blocked and lossy paths, cancelled at any await; a probe of a silent host ends because each await has a timer. |
| `probe_many` | `ScanInv`, `EachTargetOnce`, `NoTaskLeft`, `ExitIsTrue`, `ShownInOrder`, `NeverStuck` | Up to three targets and two permits, driven by the command line over inputs with duplicates and malformed lines, with a broken pipe or Control-C at any moment, or by a library user. |

Runs that end in a violation, each of a statement of the repository:

| Run | Property | What TLC shows |
|---|---|---|
| `tls_refcount` | `RefcountsUnderGil` | "py::function refcounts are only ever touched while the GIL is held" (`_core.cpp:44`): a read parked over an abandoned one releases its callables on the loop thread without the GIL. |
| `client_resend` | `NonIdempotentOnce` | "replaced for idempotent retries" (`__init__.py:82`): a POST is sent again too, also after the server has acted on it. |
| `parser_gzip` | `SurfacesRawBytes` | "surface the raw bytes rather than crashing" (`_http.py:461`): a gzip stream that ends early raises EOFError, which is not caught. EOF may have cut it off, or the stream is truncated inside a framing that is whole; then no EOF is needed (`Responses` holds both). |
| `probe_contradiction` | `NeverContradicts` | "the result never contradicts its own verdict" (`probe.py:440`): the two retried handshakes may disagree. |

Further disagreements were met while modelling and have no run of their own:

* An early EOF in a chunked body raises or leaves the response incomplete, where
  `_http.py:248-250` says that it "is tolerated by finalizing with whatever was received".
  `EarlyEof` states the promise for the bodies that keep it, which are all but the chunked
  ones, and names those as its exception.
* `_resolve_framing` looks at `Transfer-Encoding` before the status code, so that a 204
  that announces chunks waits for them, where `_http.py:327` says such responses carry no
  body "regardless of headers".
* A 1xx response is taken for the whole response, so that its connection is pooled before
  the real one has come (`__init__.py:230`; `PooledIsIdle` and `OwnResponse` fail in
  `client_pool` when `Hinted` is set).
* A negative Content-Length is returned as a complete, empty response (`_http.py:335`),
  the exception `RefusalsAreRight` names.
* `_prepare_wrap` promises that "a bad config cannot leak" the handle (`_tls.py:306-307`),
  but `timeout_ms` is evaluated by the lambda: an infinite or NaN timeout raises after the
  handle was duplicated. `DescriptorsAccounted` names it as its one exception.
* A handshake that succeeds, or cannot be set up, after its asyncio loop was closed ends
  the process: `call_soon_threadsafe` raises into a callback that is `noexcept`
  (`_core.cpp:568`). `LateAnswers` says that this is the only way.
* After the stream has ended `fileno()` still returns the number the core has closed
  (`_tls.py:244`, "The fd Fizz reads from"), the exception of `DescriptorsAccounted`.
* An untimed read parked over an abandoned timed one inherits its deadline, where
  `_tls.py:226` says "None = block indefinitely" (`TimeoutOnlyWithDeadline` needs callers
  that do not reissue).
* `append_to_last` folds a line "onto the most recently added value" (`_http.py:100`), but
  takes the header *name* that was added last; after a repeated name they differ.
* `parse_target` says "The host is lowercased" (`probe.py:169`); a bare IP address is
  taken as it is spelled, so two spellings of one IPv6 address are two targets (`Cli`).

### Bounds

* Two reads are needed for one to be parked over or after the other, two writes for a
  send deadline to outlive its write, one of each timed and one not; two chunks for
  chunks to be lost, repeated or reordered. A third operation of a kind meets the
  object in no state the second does not. The theorems of section 5 hold for any number.
* Three calls and four connections: two calls that race for one pooled connection while
  a third returns one, with a fresh connection for a retry. When no connection is left,
  `connect` fails, which the code allows at any time anyway.
* Two redirects: 303 after 307 and 307 after 303 differ; codes 301, 303, 307 and methods
  POST and HEAD reach each case of `next_redirect` (302 is as 301, 308 as 307). The
  server hints on the first hop only.
* Bodies of up to three bytes in up to two chunks, each byte possibly CR or LF, so that
  every state of the chunk cursor meets every cut.
* Two classical groups, one offered by a stock client and one not; two addresses; two
  rounds (the code's own bound).
* Three targets and two permits: one target must wait. The inputs of the command line
  hold one target in several spellings, every reason to refuse a line, and nothing.
* `Parts` = 2 in `client_redirect`: a read that returns some more bytes always changes the
  state, so that reading for ever is a behaviour the fairness does not exclude. One part is
  enough where no liveness is checked.
* Up to three runs of a request are counted in `client_pool` (`MaxRuns`), so that a third
  would be seen; one suffices where no property counts them.
* Two descriptor numbers: the caller's and the duplicate, which are also what the
  downgrade and the rest of the process take when they are free. Three bytes in arrivals
  of one or two, received one or two at a time, so that a chunk leaves a rest and another
  comes behind it; one interruption (`MaxStops`). Timeouts are counted in halves of a
  millisecond, with `MaxMs` = 5 for 2^32 - 1: 0, half a millisecond, one above the limit,
  none, and NaN.
* Six uses (`MCUses`): one for each way in, with and without a timeout, with extensions
  that are accepted and that are refused, with options that are refused, and a timeout
  that cannot be converted. The object is the same whoever asked for it, and is driven in
  the run for the direct calls.

`CHECK_DEADLOCK FALSE` is said wherever the system may stop: a connection that is
freed, a call that has returned, a parser that is done, a probe or scan that has ended.

## 4. Fairness

* `TlsConnection`: weak fairness of `RunTask`, of the three deadlines and of the
  destructor's own steps. The loop thread runs `loopForever` and serves its queue;
  timers of the EventBase expire; the destructor is straight-line code. Nothing is
  assumed of the peer or of the callers. Blocking name lookups of other connections
  delay the loop and do not stop it.
* `HttpClient`: weak fairness of each call's steps: every connect, write and read is answered
  because it is submitted with a deadline of its own (`TimedOpsSettle`; the clients always
  pass one unless the user asks for none). The exchange as a whole has none
  (`__init__.py:206`), so a server that answers read after read with some more bytes keeps
  a call for ever: `CallsEnd` says that a call ends or is read for without end. Nothing is
  assumed of the server.
* `ResponseParser`: `_parse` runs to its end; it awaits nothing.
* `Probe`: the asyncio loop runs (`LoopSteps`), a timer fires if its await is one of `Bounded`
  (`Timeouts`), and a host that loses nothing and is not silent answers (`Replies`). Nothing
  is assumed of the resolver, of the first connection, or of a host that loses packets or is
  silent: there a probe ends by its timers alone, and without one of them (the mutant takes
  it from `_connect`) it need not end.
* `Cli` (with `ProbeMany`): the asyncio loop and the command run, and probes end
  (`ProbeEnds`). A library user who has a result need not come back for the next one.
* `TlsSocket`: the loop thread serves its tasks, deadlines expire, an open asyncio loop
  runs what was posted to it, and a thread that has its answer goes on. Nothing is
  assumed of the peer, nor of who interrupts or closes.

## 5. Proofs

Every theorem holds for all values of the constants that satisfy the named assumptions,
which TLC evaluates on the instances of the runs. A safety property is seldom inductive:
each proof module states the invariant that is, in named parts, has one lemma per part that
says that a step preserves it (one step per action, or per group of actions with the same
effect), and derives the properties. The invariants were checked by TLC on the instances of
section 3 before they were proved.

### The core (`TlsConnectionProofs`)

For every set of operations, every choice of deadlines, both values of `Reissue` and every
number of chunks, from `OpsDisjoint` (operations are distinct) and `ParamTypes`:

`Invariance`, `TypeCorrect`, `StreamIsIntact`, `EndIsLast`, `NoLostWakeup`,
`FreedIsUnreachable`, `WaitersAreAnswered`, `DeadlinesAreOwn`, `DescriptorIsClosed`
and, of actions, `AnswersAreFinal`.

`IndInv` adds what the code relies on without saying so:

* `QueueInv`, `DtorInv`: a task is queued once, its operation is "queued" until it runs,
  and the teardown task is the last one. So nothing runs after the teardown.
* `TornInv`: after the teardown there is no task, deadline, transport or callback.
  With it, `NoUseAfterFree` follows; with `ConnInv`, `NoDescriptorLeak`.
* `ParkInv`, `ConnInv`: `pendingRead_` holds an unanswered promise; `client_`, the
  descriptor and the connect operation move together.
* `EndInv` with `StreamIntact`: a reader was told of the end only with an empty buffer,
  and nothing is delivered afterwards, so `EndOfStreamLast`.
* `GoneInv`, `ReadOrder`: who is still outstanding when the object goes, or when another
  read is parked, was abandoned. So `NoLostPromise`.
* `DeadlineInv` (without `Reissue`): one operation per direction, and the armed deadline
  is its own. So `TimeoutOnlyWithDeadline`.

### The core implements its contract (`TlsContractProofs`)

`CoreImplementsContract`: `Spec => ImplementsContract`. There is a lemma for each action of
`ConnectionContract` that says what a step must do to `status`, `received`, `delivered` and
`client` to be that action under the refinement mapping, and `StepMaps` shows for each
action of the core which one it is: parking a read over another is `Discard` (allowed since
`ReadOrder` says the older one was given up), `close` and the teardown are `End` or unseen,
depending on whether the stream was over already, a deadline is `Complete`. Besides `IndInv`
it needs `EndIsKept`: a recorded EOF or error belongs to a transport that is gone, so that
a read that finds it is a `ServeEnd`.

### The socket layer (`TlsSocketProofs`, `TlsStreamProofs`)

From `WrapConstants`, `DeadlineConstants` and `SocketConstants` (the constants have the
types of the parameters):

* `TimeoutRange`: a timeout that can be converted becomes a number of milliseconds that fits
  the core's field, rounded up and never early, and only None becomes 0, "no deadline".
* `SocketInvariant`, `NumbersAccounted` (`DescriptorsAccounted`), `TrustIsTheCalls`
  (`SameTrust`) and, of actions, `OthersKeepTheirs` (`NeverClosesOthers`) and `LateIsHarmless`
  (`LateAnswers`), for any number of descriptors. `SocketInv` consists of `Ledger` (each
  number is in the books of the one who has to close it), `Stages` (what a call has and has
  not got at each stage, so that its error paths know what to close), `Transport` (it holds
  the duplicate until it is down), `Answers` (what each failure says of the peer and of the
  trust setting it was met with) and `Queued`.
* `StreamInvariant`, `BytesInOrder` (`StreamInOrder`), for any number and size of arrivals,
  receives and interruptions. `StreamInv` adds `OneRead` (a `recv` has at most one read, and
  takes its answer before it submits the next), `Parking` (a read is parked only beside an
  empty buffer), `Orphans` (until something is given up every read has somebody waiting),
  `Ending` (the end is behind the last byte). The bytes of the five places where they can
  be are one sequence, `stream`: it is increasing and holds exactly the bytes that arrived
  and did not go to a caller who had given up. That says the same as an equation of
  sequences, without recursion.

### The clients (`HttpClientProofs`)

From `ClientConstants`, for any number of calls, connections and hosts:

* `ClientInvariant`, `OneOwner` (`SingleOwner`), `HostsNeverMix` (`OwnHost`),
  `BodiesFollowMethods` (`BodyWithMethod`). `ClientInv` adds `Linked` (program counter,
  connection and request of a call go together), `Owned` (single ownership, said of the
  positions in the pool), `Fresh` (a connection that has not been made belongs to nobody),
  `Replied` and `Announced`.
* `OneRetry` (`AtMostOneRetry`): `Accounted` bounds the runs of a request together with the
  copies of it that wait on some connection by the number of times it can have been sent;
  `WaitsOnce` and `SentNothing` make that countable.
* `OwnResponses` (`OwnResponse`), `PoolIsIdle` (`PooledIsIdle`), under `Hinted = {}`: a server
  that sends no interim response. The hypothesis is needed: with one, the client takes the
  1xx for the response and both properties fail (section 3). `Exchanges` says what is under
  way on a connection at each step of the call that owns it, and that a pooled one is quiet.

### The response parser (`ResponseParserProofs`)

For any set of responses, any number and size of chunks, any bytes (CR and LF among them)
and any cuts of the text into feeds, with EOF anywhere: `ParserCollectsPrefix`
(`BodyIsPrefix`), `ParserIsExact` (`CompleteIsExact`), `ParserEndsInTime`
(`LastByteCompletes`), `ParserRefusesRightly` (`RefusalsAreRight`) and `ParserEndsAtEof`
(`EarlyEof`). `ParserEndsInTime` has one exception, a gzip stream that ends early inside the
framing: the parser does not wait then either, but fails with the error of the gzip module
instead of its own, and `RefusalsAreRight` says that nothing else makes it fail so. The
assumptions:

* `NoLengthAssumption`: None is not a number.
* `SizesAssumption`: the chunk-size lines of different sizes differ, and none is a line
  end, the size 0 or something `int(..., 16)` refuses or takes for a negative number. Hexadecimal
  numbers are like that; leading zeros and extensions would be further spellings.
* `ResponsesAssumption`: the responses are well typed (`WellTyped`: a chunk of no bytes would
  be the last one), what is malformed about one is in a place that is there (`Visible`), and
  its headers and its body agree (`Consistent`). That is what a server that follows the
  format sends, apart from the one deviation `bad` names; a 204 with chunks (section 3) and a
  Content-Length that contradicts the body are left out. A body shorter than
  announced is in: EOF may come before any byte.

`ParserInv` says where the parser stands in the text. `Pos` is the number of bytes consumed and
`Window` that `_buf` is the text from there to what has been fed. Each state has its
part: `AtStatus`, `AtHeaders`, `AtFixed`, and for chunks `AtSize(i)` and `AtData(i)`, which tie
the cursor (`_awaiting_chunk_size`, `_chunk_remaining`) to the place of the i-th chunk in the
text, `ChunkAt`, and in the body, `DataAt`; then `AtTrailers` and `AfterNegative`. `AtDone` and
`AtFailure` say what each end was for, `AtEof` what EOF found: a fixed body or one up to the
close collected to the last byte that was fed, a chunked one broken off. `Hungry` is what `LastByteCompletes` needs: a
parser that waits has not been fed everything. A parser that waits for a line has no line end
in its buffer, and the rest of the text has one, so some of it is still to come (`NoCrlf`,
`NoBlank`, `HeaderBlank`): a search that stopped one byte short would fail here.

The text is put together from a list of chunks of any length (`FlattenSeq`, a recursive
function), so where a chunk begins in it is known only by induction over that list. The
library's induction theorems take an operator as a parameter, which the provers cannot
instantiate; `SetInduction` is induction for a *set* of numbers, from the least element of
its complement (`WFMin`). Used on {k : the first k chunks, joined, have the property}, it gives
`JoinsExists` (the recursive function exists), `JoinedNext`, `JoinedLayout`, and from them
`ChunkFacts`: the bytes of the text from `ChunkAt(m, i)` on are the i-th size line, the i-th
chunk and its line end.

### The prober, the scans and the command line (`ProbeProofs`, `CliProofs`)

* `ProbeCleansUp` (`NothingLeftBehind`) and `ProbeTellsTheTruth` (`VerdictIsTrue`), from
  `ProbeAssumption`, for any set of groups, hosts and addresses. `ProbeInv`: `SocketsOwned` and
  `TasksGathered` (who closes a socket, who awaits a task), `AttemptsTrue` (a settled attempt is
  an answer this host can give), `Lost` (what a round has already lost), `VerdictReached`.
* `PermitsConserved` (`ScanInv`), `ResultsOnce` (`EachTargetOnce`), `TasksAreOver`
  (`NoTaskLeft`) and `ExitStatusIsTrue` (`ExitIsTrue`), from `ConcurrencyAssumption` (at least
  one permit, finitely many targets) and `InputsAssumption` (inputs are sequences of lines, and
  the targets include what their lines are parsed to). `Scanning`: permits are
  `Conserved`; a task that is done is in `ready` or in `yielded`, once (`Queued`, `Once`), which
  with the count of the loop (`Ending`) gives that a scan that ends by itself yielded every
  target. `Capability`, `Stages` and `Exits` tie the command to the scan.
* `RowsInOrder` (`ShownInOrder`), for an input of any length. `Prints` says that the JSON lines
  are at most one behind the generator. For the table, `Sortable` shows by `SetInduction` that a
  sorted arrangement exists, `SortedFacts` that the sort loses and repeats no row (the results
  are distinct, by `Once`), and `OrderOfLines` that a smaller `order` means an earlier line.

## 6. What is only model-checked

* Liveness (`TimedOpsSettle`, `DestroyFinishes`, `CallsEnd`, `FeedReturns`, `ProbeEnds`,
  `NeverStuck`, `DeadlineHonoured`) is out of the prover's reach.
* `OwnResponse` and `PooledIsIdle` for servers with interim responses, where they are false.

`DeadlineInv` says nothing in `tls_safety`, where `Reissue` is set; it is proved, and its
consequence is checked in `tls_deadlines`.

## 7. What is not modelled

Cryptography, certificates and hostname verification (data that Fizz and OpenSSL
compute; a peer is trusted or not), the negotiated parameters and ALPN, header values other
than the framing ones (`Headers` is a lookup table), the text of requests, URL parsing beyond
its refusals, formatting and printing, the pybind11 declarations and the build scripts. The
name lookup inside `connect` blocks the shared loop: a delay, not a state. That the
destructor does not wait for the thread it runs on, when the last reference is dropped by
a callback, depends on folly.

## 8. What could come next

1. A composition of client and parser that knows the method and a 204 with chunks.
2. `Headers` with a reference definition.
