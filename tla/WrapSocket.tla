----------------------------- MODULE WrapSocket -----------------------------
(***************************************************************************)
(* wrap_socket() and handshake_async() of fizzpy/_tls.py, with the bridge  *)
(* to the core (fizzpy/_transport.py) and the SSL context through which    *)
(* requests and httpx reach them (fizzpy/contrib).                         *)
(*                                                                         *)
(* One call hands a connected socket over.  Its descriptor is duplicated,  *)
(* the copy goes to the core, and the handshake is answered from the loop  *)
(* thread: directly to a blocked caller (run_sync), or through an asyncio  *)
(* loop that may be closed by then (run_async).  With fallback, a peer     *)
(* without TLS 1.3 is reached again over the standard library.  Descriptor *)
(* numbers are the ones of the process: a number that is closed goes to    *)
(* whoever opens next.                                                     *)
(***************************************************************************)
EXTENDS Deadline, Sequences, FiniteSets, FiniteSetsExt

CONSTANTS
  Uses,       \* the calls: [via, fallback, timeout, extensions, options, config]
  Peers,      \* the servers: [tls13, ca]
  Fds,        \* the descriptor numbers of the process
  Bundles,    \* CA bundles
  DefaultCa,  \* the bundle of certifi
  NoCa        \* cafile=None

NoFd == -1
Trust == [verify : BOOLEAN, cafile : Bundles \cup {NoCa}]

ASSUME WrapConstants ==
  /\ Fds \subseteq Nat /\ Fds # {}
  /\ DefaultCa \in Bundles /\ NoCa \notin Bundles
  /\ Uses \subseteq [via : {"wrap_socket", "handshake_async", "requests", "httpx"},
                     fallback : BOOLEAN,
                     timeout : Int \cup {NoTimeout, Infinite, NotANumber},
                     extensions : Seq([type : Int, size : Nat]),
                     options : BOOLEAN, config : Trust]
  /\ Peers \subseteq [tls13 : BOOLEAN, ca : Bundles]

\* What a failed handshake raises: the class, the typed alert (fizz_alert), and
\* whether the message mentions protocol_version.
Errors == [cert : BOOLEAN, alert : {"none", "protocol_version", "other"}, text : BOOLEAN]
Untagged == [cert |-> FALSE, alert |-> "none", text |-> FALSE]

VARIABLES
  how,      \* the call
  peer,     \* the server
  ctx,      \* trust settings of the context (verify_mode, _cafile) or the config
  cfg,      \* the TlsConfig of this call: a snapshot of ctx
  pc,       \* where the call is
  fds,      \* who owns each descriptor number
  sock,     \* the number the caller's socket object holds
  handle,   \* the number _dup_handle() returned
  adopted,  \* the number the transport of the core holds
  fresh,    \* the number of the socket of the stdlib retry
  op,       \* the transport of the core
  deadline, \* of the handshake, in milliseconds, 0 for none
  error,    \* what the handshake was rejected with
  fut,      \* the future of run_async, or the box of run_sync
  posted,   \* answers handed to the asyncio loop and not yet run
  loop,     \* the asyncio loop
  held,     \* the TlsConnection object is referenced
  result,   \* what the call returned
  process   \* "alive" or "terminated"

call == <<how, peer, cfg>>
numbers == <<fds, sock, handle, adopted, fresh>>
core == <<op, deadline, error>>
bridge == <<fut, posted, loop, process>>
wrapvars == <<call, ctx, pc, numbers, core, bridge, held, result>>

WrapTypeOK ==
  /\ how \in Uses /\ peer \in Peers /\ ctx \in Trust /\ cfg \in Trust
  /\ pc \in {"call", "prepare", "submit", "wait", "downgrade", "retry", "returned", "raised"}
  /\ fds \in [Fds -> {"free", "caller", "handle", "core", "stdlib", "other"}]
  /\ {sock, handle, adopted, fresh} \subseteq Fds \cup {NoFd}
  /\ op \in {"none", "queued", "shaking", "up", "down"}
  /\ deadline \in 0 .. MaxMs
  /\ error \in Errors
  /\ fut \in {"none", "pending", "result", "error", "cancelled"}
  /\ posted \in Seq({"result", "error"})
  /\ loop \in {"open", "closed"} /\ process \in {"alive", "terminated"}
  /\ held \in BOOLEAN
  /\ result \in {"none", "fizz", "stdlib"}

WrapInit ==
  /\ how \in Uses
  /\ peer \in Peers
  /\ ctx = how.config /\ cfg = how.config
  /\ pc = "call"
  /\ sock = Min(Fds)
  /\ fds = [d \in Fds |-> IF d = sock THEN "caller" ELSE "free"]
  /\ handle = NoFd /\ adopted = NoFd /\ fresh = NoFd
  /\ op = "none" /\ deadline = 0 /\ error = Untagged
  /\ fut = "none" /\ posted = <<>> /\ loop = "open" /\ process = "alive"
  /\ held = FALSE /\ result = "none"

Async == how.via = "handshake_async"
Goto(label) == pc' = label

\* The system hands out the lowest number that is free.
Free == {d \in Fds : fds[d] = "free"}
Opened(owner) == [fds EXCEPT ![Min(Free)] = owner]
Closed(d) == [e \in Fds |-> IF e = d THEN "free" ELSE fds[e]]

-----------------------------------------------------------------------------
(* The context and the adapters. *)

\* Options fizzpy cannot honour: verify, cert and http2 of httpx, capath and
\* cadata of load_verify_locations(), load_cert_chain().
RefuseOptions ==
  /\ pc = "call" /\ how.options
  /\ Goto("raised")
  /\ UNCHANGED <<call, ctx, numbers, core, bridge, held, result>>

\* urllib3 writes the settings of any request to the context all requests share.
Overwrite(trust) ==
  /\ how.via = "requests"
  /\ pc \notin {"returned", "raised"}
  /\ \/ ctx' = [ctx EXCEPT !.verify = trust.verify]
     \/ trust.cafile # NoCa /\ ctx' = [ctx EXCEPT !.cafile = trust.cafile]
  /\ UNCHANGED <<call, pc, numbers, core, bridge, held, result>>

\* FizzSSLContext.wrap_socket() reads the context once.
Call ==
  /\ pc = "call" /\ ~how.options
  /\ cfg' = ctx
  /\ \/ Goto("prepare") /\ held' = TRUE
     \/ how.fallback /\ Goto("raised") /\ UNCHANGED held    \* getpeername() raises
  /\ UNCHANGED <<how, peer, ctx, numbers, core, bridge, result>>

Resolved(cafile) == IF cafile = NoCa THEN DefaultCa ELSE cafile
Trusted(trust) == ~trust.verify \/ Resolved(trust.cafile) = peer.ca

-----------------------------------------------------------------------------
(* _prepare_wrap(), and the submission in the lambda it returns. *)

FIZZ_MANAGED_EXTENSIONS == {0, 10, 13, 16, 41, 42, 43, 44, 45, 47, 50, 51, 65037}

\* normalize_extensions() raises ValueError.
Refused(extensions) ==
  \E i \in DOMAIN extensions :
    LET x == extensions[i] IN
      \/ x.type \notin 0 .. 65535
      \/ x.size > 65535
      \/ x.type \in FIZZ_MANAGED_EXTENSIONS
      \/ \E j \in 1 .. i - 1 : extensions[j].type = x.type

\* Mutant: the handle is duplicated before the extensions are looked at.
PrepareRaisesLate ==
  /\ pc = "prepare"
  /\ Refused(how.extensions) /\ Free # {}
  /\ Goto("raised")
  /\ fds' = Opened("handle") /\ handle' = Min(Free)
  /\ UNCHANGED <<call, ctx, sock, adopted, fresh, core, bridge, held, result>>

PrepareRaises ==
  /\ pc = "prepare"
  /\ Refused(how.extensions) \/ sock = NoFd \/ Free = {}
  /\ Goto("raised")
  /\ UNCHANGED <<call, ctx, numbers, core, bridge, held, result>>

Dup ==
  /\ pc = "prepare"
  /\ ~Refused(how.extensions) /\ sock # NoFd /\ Free # {}
  /\ Goto("submit")
  /\ handle' = Min(Free)
  /\ fds' = Opened("handle")
  /\ UNCHANGED <<call, ctx, sock, adopted, fresh, core, bridge, held, result>>

\* The lambda evaluates config.timeout_ms, which may raise: the handle has no
\* owner then.
SubmitRaises ==
  /\ pc = "submit" /\ ~Convertible(how.timeout)
  /\ Goto("raised")
  /\ UNCHANGED <<call, ctx, numbers, core, bridge, held, result>>

Submit ==
  /\ pc = "submit" /\ Convertible(how.timeout)
  /\ Goto("wait")
  /\ fut' = "pending"
  /\ op' = "queued" /\ deadline' = TimeoutToMs(how.timeout)
  /\ adopted' = handle /\ fds' = [fds EXCEPT ![handle] = "core"]
  /\ UNCHANGED <<call, ctx, sock, handle, fresh, error, posted, loop, process, held, result>>

-----------------------------------------------------------------------------
(* The bridge: resolve() and reject(), called on the loop thread. *)

\* _set_result() and _set_exception(); a box nobody waits for is not read.
Set(f, answer) == IF f = "pending" THEN answer ELSE f

\* call_soon_threadsafe() raises when the asyncio loop is closed.  Where the
\* core does not contain the exception, it ends the process.
Answer(answer, contained) ==
  /\ IF Async THEN /\ posted' = IF loop = "open" THEN Append(posted, answer) ELSE posted
                   /\ UNCHANGED fut
              ELSE fut' = Set(fut, answer) /\ UNCHANGED posted
  /\ process' = IF Async /\ loop = "closed" /\ ~contained THEN "terminated" ELSE process
  /\ UNCHANGED loop

Deliver ==
  /\ loop = "open" /\ posted # <<>>
  /\ fut' = Set(fut, Head(posted))
  /\ posted' = Tail(posted)
  /\ UNCHANGED <<call, ctx, pc, numbers, core, loop, process, held, result>>

\* asyncio.run() closes the loop once the call is over; what is still posted
\* is dropped.
CloseLoop ==
  /\ Async /\ loop = "open" /\ pc \in {"returned", "raised"}
  /\ loop' = "closed" /\ posted' = <<>>
  /\ UNCHANGED <<call, ctx, pc, numbers, core, fut, process, held, result>>

-----------------------------------------------------------------------------
(* The handshake on the loop thread. *)

\* The transport closes its descriptor.
Release == fds' = Closed(adopted) /\ adopted' = NoFd

RunWrap ==
  /\ op = "queued" /\ op' = "shaking"
  /\ UNCHANGED <<call, ctx, pc, numbers, deadline, error, bridge, held, result>>

Fail(e, contained) ==
  /\ op' = "down" /\ error' = e
  /\ Release
  /\ Answer("error", contained)
  /\ UNCHANGED <<call, ctx, pc, sock, handle, fresh, deadline, result>>

\* buildSetup() throws (an unreadable CA bundle): rejectOnLoop().
RunWrapFails == op = "queued" /\ Fail(Untagged, FALSE) /\ UNCHANGED held

HandshakeOk ==
  /\ op = "shaking" /\ peer.tls13 /\ Trusted(cfg)
  /\ op' = "up"
  /\ Answer("result", FALSE)
  /\ UNCHANGED <<call, ctx, pc, numbers, deadline, error, held, result>>

\* Only a peer without TLS 1.3 causes protocol_version, as an alert or as text.
Possible(e) ==
  /\ e.cert <=> e.alert = "other" /\ peer.tls13 /\ ~Trusted(cfg)
  /\ e.text => e.alert # "other" /\ ~peer.tls13
  /\ e.alert = "protocol_version" => e.text

\* Mutant: the error callback does not contain what reject() raises.
HandshakeFailsUncontained(e) ==
  op = "shaking" /\ Possible(e) /\ Fail(e, FALSE) /\ UNCHANGED held

HandshakeFails(e) == op = "shaking" /\ Possible(e) /\ Fail(e, TRUE) /\ UNCHANGED held

HandshakeTimeout == op = "shaking" /\ deadline > 0 /\ Fail(Untagged, TRUE) /\ UNCHANGED held

-----------------------------------------------------------------------------
(* The caller goes on. *)

WakeOk ==
  /\ pc = "wait" /\ fut = "result"
  /\ Goto("returned") /\ result' = "fizz"
  /\ UNCHANGED <<call, ctx, numbers, core, bridge, held>>

IsProtocolVersionFailure(e) ==
  ~e.cert /\ IF e.alert # "none" THEN e.alert = "protocol_version" ELSE e.text

Downgrades == how.fallback /\ IsProtocolVersionFailure(error)

WakeRaises ==
  /\ pc = "wait" /\ fut = "error" /\ ~Downgrades
  /\ Goto("raised")
  /\ UNCHANGED <<call, ctx, numbers, core, bridge, held, result>>

\* _stdlib_handshake() closes the caller's socket, and opens one of its own.
Downgrade ==
  /\ pc = "wait" /\ fut = "error" /\ Downgrades
  /\ Goto("downgrade")
  /\ fds' = Closed(sock) /\ sock' = NoFd
  /\ UNCHANGED <<call, ctx, handle, adopted, fresh, core, bridge, held, result>>

NewSocket ==
  /\ pc = "downgrade"
  /\ IF Free = {} THEN Goto("raised") /\ UNCHANGED <<fds, fresh>>
     ELSE Goto("retry") /\ fds' = Opened("stdlib") /\ fresh' = Min(Free)
  /\ UNCHANGED <<call, ctx, sock, handle, adopted, core, bridge, held, result>>

\* Mutant: the retry takes the trust the context has by now.
RetryTrustNow == ctx

RetryTrust == cfg

\* settimeout() refuses a negative timeout, and 0 makes connect() fail.
RetryOk ==
  /\ pc = "retry" /\ Trusted(RetryTrust)
  /\ how.timeout = NoTimeout \/ how.timeout > 0
  /\ Goto("returned") /\ result' = "stdlib"
  /\ UNCHANGED <<call, ctx, numbers, core, bridge, held>>

\* Also when the caller is interrupted: except BaseException.
RetryFails ==
  /\ pc = "retry"
  /\ Goto("raised")
  /\ fds' = Closed(fresh) /\ fresh' = NoFd
  /\ UNCHANGED <<call, ctx, sock, handle, adopted, core, bridge, held, result>>

\* KeyboardInterrupt in done.wait(), or the awaiting task is cancelled.
StopWaiting ==
  /\ pc = "wait"
  /\ Goto("raised") /\ fut' = Set(fut, "cancelled")
  /\ UNCHANGED <<call, ctx, numbers, core, posted, loop, process, held, result>>

\* The last reference goes, at once or with the traceback that holds it: the
\* destructor runs behind the tasks that are queued.
Teardown ==
  /\ held /\ held' = FALSE
  /\ op # "queued"
  /\ IF op = "shaking" THEN Fail(Untagged, TRUE)
     ELSE /\ op' = IF op = "none" THEN "none" ELSE "down"
          /\ Release
          /\ UNCHANGED <<call, ctx, pc, sock, handle, fresh, deadline, error, bridge, result>>

DropConn ==
  /\ pc = "raised" \/ (pc = "returned" /\ how.via # "wrap_socket")
  /\ Teardown

-----------------------------------------------------------------------------
(* The rest of the process. *)

\* "The caller keeps full control of sock itself (close it whenever)".
CallerCloses ==
  /\ sock # NoFd
  /\ fds' = Closed(sock) /\ sock' = NoFd
  /\ UNCHANGED <<call, ctx, pc, handle, adopted, fresh, core, bridge, held, result>>

\* Some other part of the process opens a descriptor.
OtherOpens ==
  /\ Free # {}
  /\ fds' = Opened("other")
  /\ UNCHANGED <<call, ctx, pc, sock, handle, adopted, fresh, core, bridge, held, result>>

Prepare == RefuseOptions \/ Call \/ PrepareRaises \/ Dup \/ SubmitRaises \/ Submit
Wake == WakeOk \/ WakeRaises \/ Downgrade \/ NewSocket \/ RetryOk \/ RetryFails
Shake == RunWrap \/ RunWrapFails \/ HandshakeOk \/ \E e \in Errors : HandshakeFails(e)
Environment ==
  \/ \E trust \in Trust : Overwrite(trust)
  \/ StopWaiting \/ DropConn \/ CloseLoop \/ CallerCloses \/ OtherOpens

WrapNext ==
  /\ process = "alive"
  /\ Prepare \/ Wake \/ Shake \/ HandshakeTimeout \/ Deliver \/ Environment
=============================================================================
