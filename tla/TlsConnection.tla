--------------------------- MODULE TlsConnection ---------------------------
(***************************************************************************)
(* The native core of fizzpy: one TlsConnection of src/_core.cpp.          *)
(*                                                                         *)
(* A Python thread submits operations by posting a task to the shared      *)
(* EventBase (a FIFO served by one loop thread).  All the fields of the    *)
(* object are touched by the loop thread only: by the posted tasks (the    *)
(* Run... actions), by the callbacks of the Fizz transport, and by the     *)
(* read deadline.  Each operation carries a Promise (a resolve/reject      *)
(* pair) the loop calls while it holds the GIL.  The destructor runs on a  *)
(* Python thread, gives up the GIL, posts a teardown task and waits.       *)
(*                                                                         *)
(* Other connections share the EventBase; they can only delay this one.    *)
(***************************************************************************)
EXTENDS Naturals, Sequences

CONSTANTS
  Conn,     \* the connect() or wrap_fd() operation of the connection
  Reads,    \* the read() operations
  Writes,   \* the write() operations
  Closes,   \* the close() calls (no promise)
  Timed,    \* the operations submitted with timeoutMs > 0
  Reissue,  \* may a caller that abandoned an operation submit the next one
            \* before the abandoned one has settled?
  MaxData,  \* bound: how many chunks the peer sends
  NoOp,     \* "no parked read"
  Dtor      \* the teardown task posted by ~TlsConnection

PromiseOps == {Conn} \cup Reads \cup Writes
Ops == PromiseOps \cup Closes

ASSUME OpsDisjoint ==
  /\ Conn \notin Reads \cup Writes \cup Closes
  /\ Reads \cap Writes = {}
  /\ Reads \cap Closes = {}
  /\ Writes \cap Closes = {}
  /\ Dtor \notin Ops
  /\ NoOp \notin Ops \cup {Dtor}

ASSUME ParamTypes ==
  /\ Timed \subseteq PromiseOps
  /\ Reissue \in BOOLEAN
  /\ MaxData \in Nat

VARIABLES
  status,       \* what became of each operation
  abandoned,    \* operations whose caller stopped waiting (asyncio
                \* cancellation, KeyboardInterrupt)
  queue,        \* tasks posted to the EventBase and not yet run
  client,       \* client_: null, connecting, open (this is its ReadCallback), dead
  fd,           \* the TCP descriptor the core owns
  buffer,       \* buffer_: chunks delivered by the transport, not yet read
  pendingRead,  \* pendingRead_
  timer,        \* readTimeout_ is scheduled
  sendTimeout,  \* the transport has a send deadline
  eof,          \* eof_
  readErr,      \* readErr_
  received,     \* how many chunks the transport has delivered
  delivered,    \* the chunks handed to reads, in order (history)
  life,         \* of the C++ object
  gil           \* who keeps the GIL: nobody for long, or the destructor

vars == <<status, abandoned, queue, client, fd, buffer, pendingRead, timer,
          sendTimeout, eof, readErr, received, delivered, life, gil>>

stream == <<buffer, eof, readErr, received, delivered>>
object == <<life, gil>>

Outstanding == {"queued", "parked", "inflight"}
Settled == {"resolved", "eof", "rejected", "timedout"}
Statuses == {"new"} \cup Outstanding \cup Settled \cup {"dropped", "overwritten"}

\* What each kind of operation may become (WriteStatuses: connect too).
ReadStatuses == Statuses \ {"inflight"}
WriteStatuses == {"new", "queued", "inflight", "resolved", "rejected", "timedout"}
CloseStatuses == {"new", "queued", "resolved"}

TypeOK ==
  /\ status \in [Ops -> Statuses]
  /\ \A r \in Reads : status[r] \in ReadStatuses
  /\ \A w \in {Conn} \cup Writes : status[w] \in WriteStatuses
  /\ \A k \in Closes : status[k] \in CloseStatuses
  /\ abandoned \subseteq PromiseOps
  /\ queue \in Seq(Ops \cup {Dtor})
  /\ client \in {"null", "connecting", "open", "dead"}
  /\ fd \in {"none", "handed", "open", "closed"}
  /\ buffer \in Seq(Nat)
  /\ pendingRead \in Reads \cup {NoOp}
  /\ timer \in BOOLEAN
  /\ sendTimeout \in BOOLEAN
  /\ eof \in BOOLEAN
  /\ readErr \in BOOLEAN
  /\ received \in Nat
  /\ delivered \in Seq(Nat)
  /\ life \in {"alive", "dealloc", "destroying", "torn", "freed"}
  /\ gil \in {"free", "dtor"}

Init ==
  /\ status = [o \in Ops |-> "new"]
  /\ abandoned = {}
  /\ queue = <<>>
  /\ client = "null"
  /\ fd = "none"
  /\ buffer = <<>>
  /\ pendingRead = NoOp
  /\ timer = FALSE
  /\ sendTimeout = FALSE
  /\ eof = FALSE
  /\ readErr = FALSE
  /\ received = 0
  /\ delivered = <<>>
  /\ life = "alive"
  /\ gil = "free"

-----------------------------------------------------------------------------
(* Python threads: submit an operation, stop waiting for it, drop the object. *)

\* The caller has no operation of S under way.  A caller that stopped waiting
\* may or may not submit again before the abandoned operation has settled.
Idle(S) == \A o \in S : status[o] \in Outstanding => Reissue /\ o \in abandoned

Submit(o) ==
  /\ life = "alive"
  /\ status[o] = "new"
  /\ status' = [status EXCEPT ![o] = "queued"]
  /\ queue' = Append(queue, o)
  /\ UNCHANGED <<abandoned, client, buffer, pendingRead, timer, sendTimeout,
                 eof, readErr, received, delivered, life, gil>>

\* TlsConnection.connect(): the core opens the TCP connection itself.
Connect ==
  /\ Submit(Conn)
  /\ UNCHANGED fd

\* TlsConnection.wrap_fd(): the caller hands over a duplicate descriptor.
WrapFd ==
  /\ Submit(Conn)
  /\ fd' = "handed"

\* Python code uses a connection only once connect()/wrap_fd() resolved.
Write(w) ==
  /\ status[Conn] = "resolved"
  /\ Idle(Writes)
  /\ Submit(w)
  /\ UNCHANGED fd

Read(r) ==
  /\ status[Conn] = "resolved"
  /\ Idle(Reads)
  /\ Submit(r)
  /\ UNCHANGED fd

Close(k) ==
  /\ status[Conn] = "resolved"
  /\ Submit(k)
  /\ UNCHANGED fd

Abandon(o) ==
  /\ status[o] \in Outstanding
  /\ o \notin abandoned
  /\ abandoned' = abandoned \cup {o}
  /\ UNCHANGED <<status, queue, client, fd, pendingRead, timer, sendTimeout,
                 stream, object>>

\* Mutant: run_sync/run_async do not keep the connection alive while they wait.
DtorEnterWithWaiters ==
  /\ life = "alive"
  /\ life' = "dealloc"
  /\ gil' = "dtor"
  /\ UNCHANGED <<status, abandoned, queue, client, fd, pendingRead, timer,
                 sendTimeout, stream>>

\* The last reference goes away.  A caller that still waits holds one.
DtorEnter ==
  /\ life = "alive"
  /\ \A o \in PromiseOps : status[o] \in Outstanding => o \in abandoned
  /\ life' = "dealloc"
  /\ gil' = "dtor"
  /\ UNCHANGED <<status, abandoned, queue, client, fd, pendingRead, timer,
                 sendTimeout, stream>>

\* Mutant: runInEventBaseThread without the wait.
DtorReleaseNoWait ==
  /\ life = "dealloc"
  /\ life' = "torn"
  /\ gil' = "free"
  /\ queue' = Append(queue, Dtor)
  /\ UNCHANGED <<status, abandoned, client, fd, pendingRead, timer,
                 sendTimeout, stream>>

\* Mutant: no gil_scoped_release around the wait.
DtorReleaseKeepsGil ==
  /\ life = "dealloc"
  /\ life' = "destroying"
  /\ queue' = Append(queue, Dtor)
  /\ UNCHANGED <<status, abandoned, client, fd, pendingRead, timer,
                 sendTimeout, stream, gil>>

\* gil_scoped_release, then runInEventBaseThreadAndWait posts the teardown.
DtorRelease ==
  /\ life = "dealloc"
  /\ life' = "destroying"
  /\ gil' = "free"
  /\ queue' = Append(queue, Dtor)
  /\ UNCHANGED <<status, abandoned, client, fd, pendingRead, timer,
                 sendTimeout, stream>>

\* The wait is over: a promise that is still parked is released under the GIL.
DtorFinish ==
  /\ life = "torn"
  /\ gil = "free"
  /\ life' = "freed"
  /\ status' = IF pendingRead = NoOp THEN status
               ELSE [status EXCEPT ![pendingRead] = "dropped"]
  /\ pendingRead' = NoOp
  /\ UNCHANGED <<abandoned, queue, client, fd, timer, sendTimeout, stream, gil>>

-----------------------------------------------------------------------------
(* Settling promises, on the loop thread. *)

Marked(S, outcome, st) == [o \in Ops |-> IF o \in S THEN outcome ELSE st[o]]

\* The operations of S are answered with outcome; calling into Python takes
\* the GIL.
Answer(S, outcome) ==
  /\ S # {} => gil = "free"
  /\ status' = Marked(S, outcome, status)

ParkedRead == IF pendingRead = NoOp THEN {} ELSE {pendingRead}

InFlight == {o \in {Conn} \cup Writes : status[o] = "inflight"}

\* Mutant: the promise is copied out and pendingRead_ keeps it.
TakePendingReadKeeps ==
  /\ UNCHANGED pendingRead
  /\ timer' = IF pendingRead = NoOp THEN timer ELSE FALSE

\* takePendingRead(): the deadline is cancelled before the promise moves out.
TakePendingRead ==
  /\ pendingRead' = NoOp
  /\ timer' = IF pendingRead = NoOp THEN timer ELSE FALSE

\* Mutant: buffer_.clear() is forgotten.
FulfillReadNoClear(chunks) ==
  /\ delivered' = delivered \o chunks
  /\ buffer' = chunks

\* fulfillRead(): all buffered chunks in one result.
FulfillRead(chunks) ==
  /\ delivered' = delivered \o chunks
  /\ buffer' = <<>>

-----------------------------------------------------------------------------
(* Tasks, run by the loop thread in the order they were posted. *)

Run(o) ==
  /\ queue # <<>>
  /\ Head(queue) = o
  /\ queue' = Tail(queue)

\* connect(): buildSetup throws before client_ is assigned.
RunConnectNoSetup ==
  /\ Run(Conn)
  /\ fd = "none"
  /\ Answer({Conn}, "rejected")
  /\ UNCHANGED <<abandoned, client, fd, pendingRead, timer, sendTimeout,
                 stream, object>>

\* connect(): the name lookup throws after client_ is assigned.
RunConnectNoAddress ==
  /\ Run(Conn)
  /\ fd = "none"
  /\ client' = "dead"
  /\ Answer({Conn}, "rejected")
  /\ UNCHANGED <<abandoned, fd, pendingRead, timer, sendTimeout, stream, object>>

RunConnect ==
  /\ Run(Conn)
  /\ fd = "none"
  /\ client' = "connecting"
  /\ fd' = "open"
  /\ status' = [status EXCEPT ![Conn] = "inflight"]
  /\ UNCHANGED <<abandoned, pendingRead, timer, sendTimeout, stream, object>>

\* Mutant: wrapFd() leaves the descriptor open when it fails early.
RunWrapFailsLeaking ==
  /\ Run(Conn)
  /\ fd = "handed"
  /\ Answer({Conn}, "rejected")
  /\ UNCHANGED <<abandoned, client, fd, pendingRead, timer, sendTimeout, stream,
                 object>>

\* wrapFd(): the descriptor cannot be adopted, or buildSetup throws; either
\* way the descriptor is closed.
RunWrapFails ==
  /\ Run(Conn)
  /\ fd = "handed"
  /\ fd' = "closed"
  /\ Answer({Conn}, "rejected")
  /\ UNCHANGED <<abandoned, client, pendingRead, timer, sendTimeout, stream,
                 object>>

RunWrap ==
  /\ Run(Conn)
  /\ fd = "handed"
  /\ client' = "connecting"
  /\ fd' = "open"
  /\ status' = [status EXCEPT ![Conn] = "inflight"]
  /\ UNCHANGED <<abandoned, pendingRead, timer, sendTimeout, stream, object>>

\* Mutant: the send deadline is set but never cleared.
RunWriteKeepsDeadline(w) ==
  /\ Run(w)
  /\ IF client = "open"
       THEN /\ sendTimeout' = (sendTimeout \/ w \in Timed)
            /\ status' = [status EXCEPT ![w] = "inflight"]
       ELSE /\ Answer({w}, "rejected")
            /\ UNCHANGED sendTimeout
  /\ UNCHANGED <<abandoned, client, fd, pendingRead, timer, stream, object>>

\* write(): not good() is an error; else the deadline is set, or cleared.
RunWrite(w) ==
  /\ Run(w)
  /\ IF client = "open"
       THEN /\ sendTimeout' = (w \in Timed)
            /\ status' = [status EXCEPT ![w] = "inflight"]
       ELSE /\ Answer({w}, "rejected")
            /\ UNCHANGED sendTimeout
  /\ UNCHANGED <<abandoned, client, fd, pendingRead, timer, stream, object>>

\* Mutant: a recorded EOF or error is reported before the buffered data.
RunReadNowEndFirst(r) ==
  /\ Run(r)
  /\ buffer # <<>> \/ readErr \/ eof
  /\ IF ~readErr /\ ~eof
       THEN Answer({r}, "resolved") /\ FulfillRead(buffer)
       ELSE /\ Answer({r}, IF readErr THEN "rejected" ELSE "eof")
            /\ UNCHANGED <<buffer, delivered>>
  /\ UNCHANGED <<abandoned, client, fd, pendingRead, timer, sendTimeout, eof,
                 readErr, received, object>>

\* read(): buffered data first, then a recorded error, then a recorded EOF.
RunReadNow(r) ==
  /\ Run(r)
  /\ buffer # <<>> \/ readErr \/ eof
  /\ IF buffer # <<>>
       THEN Answer({r}, "resolved") /\ FulfillRead(buffer)
       ELSE /\ Answer({r}, IF readErr THEN "rejected" ELSE "eof")
            /\ UNCHANGED <<buffer, delivered>>
  /\ UNCHANGED <<abandoned, client, fd, pendingRead, timer, sendTimeout, eof,
                 readErr, received, object>>

\* Mutant: the read deadline is not armed.
RunReadParkNoDeadline(r) ==
  /\ Run(r)
  /\ buffer = <<>> /\ ~readErr /\ ~eof
  /\ status' = [o \in Ops |-> IF o = r THEN "parked"
                              ELSE IF o = pendingRead THEN "overwritten"
                              ELSE status[o]]
  /\ pendingRead' = r
  /\ UNCHANGED <<abandoned, client, fd, timer, sendTimeout, stream, object>>

\* read(): otherwise the promise is parked (the assignment overwrites one that
\* is already there), with a deadline if the caller gave one.
RunReadPark(r) ==
  /\ Run(r)
  /\ buffer = <<>> /\ ~readErr /\ ~eof
  /\ status' = [o \in Ops |-> IF o = r THEN "parked"
                              ELSE IF o = pendingRead THEN "overwritten"
                              ELSE status[o]]
  /\ pendingRead' = r
  /\ timer' = (timer \/ r \in Timed)
  /\ UNCHANGED <<abandoned, client, fd, sendTimeout, stream, object>>

\* closeNow() fails what is in flight and closes the descriptor.  The read
\* callback was removed before, so a parked read is not told.
CloseNow(st) ==
  /\ InFlight # {} => gil = "free"
  /\ status' = Marked(InFlight, "rejected", st)
  /\ fd' = IF client \in {"connecting", "open"} THEN "closed" ELSE fd

\* close(): the parked read, its deadline and the buffer stay as they are.
RunClose(k) ==
  /\ Run(k)
  /\ CloseNow([status EXCEPT ![k] = "resolved"])
  /\ client' = IF client = "null" THEN "null" ELSE "dead"
  /\ UNCHANGED <<abandoned, pendingRead, timer, sendTimeout, stream, object>>

\* Mutant: the deadline of a parked read outlives the teardown.
RunDtorKeepsDeadline ==
  /\ Run(Dtor)
  /\ CloseNow(status)
  /\ client' = "null"
  /\ life' = "torn"
  /\ UNCHANGED <<abandoned, pendingRead, timer, sendTimeout, stream, gil>>

\* The teardown task of ~TlsConnection.
RunDtor ==
  /\ Run(Dtor)
  /\ CloseNow(status)
  /\ timer' = FALSE
  /\ client' = "null"
  /\ life' = "torn"
  /\ UNCHANGED <<abandoned, pendingRead, sendTimeout, stream, gil>>

RunTask ==
  \/ RunConnectNoSetup
  \/ RunConnectNoAddress
  \/ RunConnect
  \/ RunWrapFails
  \/ RunWrap
  \/ \E w \in Writes : RunWrite(w)
  \/ \E r \in Reads : RunReadNow(r)
  \/ \E r \in Reads : RunReadPark(r)
  \/ \E k \in Closes : RunClose(k)
  \/ RunDtor

-----------------------------------------------------------------------------
(* Callbacks of the transport and of the timers, on the loop thread. *)

\* connectSuccess / fizzHandshakeSuccess: the negotiated parameters are cached
\* and the connection becomes the read callback before the promise resolves.
HandshakeSuccess ==
  /\ client = "connecting"
  /\ client' = "open"
  /\ Answer({Conn}, "resolved")
  /\ UNCHANGED <<abandoned, queue, fd, pendingRead, timer, sendTimeout, stream,
                 object>>

HandshakeFails(outcome) ==
  /\ client = "connecting"
  /\ client' = "dead"
  /\ fd' = "closed"
  /\ Answer({Conn}, outcome)
  /\ UNCHANGED <<abandoned, queue, pendingRead, timer, sendTimeout, stream,
                 object>>

\* connectErr / fizzHandshakeError: refused, reset, alert, bad certificate.
HandshakeError == HandshakeFails("rejected")

\* The same callbacks, called because the timeoutMs given to connect expired:
\* a ConnectionError (connect) or an ssl.SSLError (wrap_fd), no socket.timeout.
HandshakeTimeout ==
  /\ Conn \in Timed
  /\ HandshakeFails("rejected")

WriteSuccess(w) ==
  /\ client = "open"
  /\ status[w] = "inflight"
  /\ Answer({w}, "resolved")
  /\ UNCHANGED <<abandoned, queue, client, fd, pendingRead, timer, sendTimeout,
                 stream, object>>

\* Mutant: a chunk is only buffered; the parked read is not woken.
DataArrivesNoWake ==
  /\ client = "open"
  /\ received < MaxData
  /\ received' = received + 1
  /\ buffer' = Append(buffer, received + 1)
  /\ UNCHANGED <<status, abandoned, queue, client, fd, pendingRead, timer,
                 sendTimeout, eof, readErr, delivered, object>>

\* readBufferAvailable()
DataArrives ==
  /\ client = "open"
  /\ received < MaxData
  /\ received' = received + 1
  /\ Answer(ParkedRead, "resolved")
  /\ TakePendingRead
  /\ IF ParkedRead = {}
       THEN buffer' = Append(buffer, received + 1) /\ UNCHANGED delivered
       ELSE FulfillRead(Append(buffer, received + 1))
  /\ UNCHANGED <<abandoned, queue, client, fd, sendTimeout, eof, readErr, object>>

\* The transport is gone: its writes fail with writeOutcome and the read side
\* is told once, with readOutcome.
TransportDown(writeOutcome, readOutcome) ==
  /\ client = "open"
  /\ client' = "dead"
  /\ fd' = "closed"
  /\ InFlight \cup ParkedRead # {} => gil = "free"
  /\ status' = Marked(ParkedRead, readOutcome,
                      Marked(InFlight, writeOutcome, status))
  /\ TakePendingRead
  /\ UNCHANGED <<abandoned, queue, sendTimeout, buffer, received, delivered,
                 object>>

\* readEOF()
TransportEOF ==
  /\ TransportDown("rejected", "eof")
  /\ eof' = TRUE
  /\ UNCHANGED readErr

\* readErr()
TransportErr ==
  /\ TransportDown("rejected", "rejected")
  /\ readErr' = TRUE
  /\ UNCHANGED eof

\* The send deadline expires: writeErr(TIMED_OUT), and readErr().
WriteTimeout ==
  /\ sendTimeout
  /\ InFlight # {}
  /\ TransportDown("timedout", "rejected")
  /\ readErr' = TRUE
  /\ UNCHANGED eof

\* Mutant: pendingRead_ is not reset when its deadline expires.
ReadTimeoutKeeps ==
  /\ timer
  /\ timer' = FALSE
  /\ Answer(ParkedRead, "timedout")
  /\ UNCHANGED <<abandoned, queue, client, fd, pendingRead, sendTimeout, stream,
                 object>>

\* onReadTimeout(): nothing to do when no read is parked.
ReadTimeout ==
  /\ timer
  /\ timer' = FALSE
  /\ Answer(ParkedRead, "timedout")
  /\ pendingRead' = NoOp
  /\ UNCHANGED <<abandoned, queue, client, fd, sendTimeout, stream, object>>

-----------------------------------------------------------------------------
Python ==
  \/ Connect
  \/ WrapFd
  \/ \E w \in Writes : Write(w)
  \/ \E r \in Reads : Read(r)
  \/ \E k \in Closes : Close(k)
  \/ \E o \in PromiseOps : Abandon(o)
  \/ DtorEnter
  \/ DtorRelease
  \/ DtorFinish

Callback ==
  \/ HandshakeSuccess
  \/ HandshakeError
  \/ HandshakeTimeout
  \/ \E w \in Writes : WriteSuccess(w)
  \/ DataArrives
  \/ TransportEOF
  \/ TransportErr
  \/ WriteTimeout
  \/ ReadTimeout

Next == Python \/ RunTask \/ Callback

Spec == Init /\ [][Next]_vars

\* The loop thread serves its queue, an expired deadline is noticed, and a
\* destructor that has begun goes on.  Nothing is assumed of the peer, and
\* nothing obliges a caller to submit, abandon or drop anything.
Fairness ==
  /\ WF_vars(RunTask)
  /\ WF_vars(HandshakeTimeout)
  /\ WF_vars(WriteTimeout)
  /\ WF_vars(ReadTimeout)
  /\ WF_vars(DtorRelease)
  /\ WF_vars(DtorFinish)

FairSpec == Spec /\ Fairness

-----------------------------------------------------------------------------
(* Properties. *)

\* The bytes handed to the readers, followed by what is still buffered, are
\* exactly what the transport delivered: the hand-over between buffer_, the
\* parked promise and the deadline loses, repeats and reorders nothing.
StreamIntact == delivered \o buffer = [i \in 1 .. received |-> i]

\* A read learns of the end of the stream (EOF or error) only when every byte
\* that arrived before it has been handed out, whatever the order in which
\* read(), readBufferAvailable(), readEOF() and readErr() ran.
EndOfStreamLast ==
  (\E r \in Reads : status[r] \in {"eof", "rejected"}) => Len(delivered) = received

\* A parked read means there was nothing to give it: data, EOF or an error
\* never sit in the object while its reader waits.
ParkedMeansStarved ==
  pendingRead # NoOp => buffer = <<>> /\ ~eof /\ ~readErr

\* Once the object is freed nothing on the loop thread can reach it: no task
\* captured it, its deadline is off, and no transport calls it back.
NoUseAfterFree ==
  life = "freed" => queue = <<>> /\ ~timer /\ client = "null" /\ InFlight = {}

\* Only a promise whose caller stopped waiting is thrown away unanswered, so
\* a thread in run_sync (or a task in run_async) is never left waiting by the
\* destructor or by a later read().
NoLostPromise ==
  \A o \in PromiseOps : status[o] \in {"dropped", "overwritten"} => o \in abandoned

\* socket.timeout is raised only by an operation that was given a deadline: the
\* deadline of one operation is not inherited by the next.
TimeoutOnlyWithDeadline ==
  ~Reissue => \A o \in PromiseOps : status[o] = "timedout" => o \in Timed

\* "py::function refcounts are only ever touched while the GIL is held": parking
\* a read over another one releases the old callables by a move assignment, on
\* the loop thread, without the GIL.  (Reissue: an interrupted recv() is retried.)
RefcountsUnderGil == \A r \in Reads : status[r] # "overwritten"

\* The descriptor handed to wrap_fd (or opened by connect) is closed by the time
\* the object is freed, on every path.
NoDescriptorLeak == life = "freed" => fd \in {"none", "closed"}

\* An answered promise is never answered again or taken back: one of resolve
\* and reject is called, once.
AnsweredOnce ==
  [][\A o \in Ops : status[o] \in Settled \cup {"dropped", "overwritten"}
                      => status'[o] = status[o]]_vars

\* TlsConnection implements ConnectionContract: its operations, and the byte
\* stream they carry, behave as the contract says, step by step.
PhaseOf(o) ==
  CASE status[o] = "new" -> "idle"
    [] status[o] \in Outstanding -> "pending"
    [] status[o] \in {"dropped", "overwritten"} -> "discarded"
    [] status[o] = "timedout" -> "failed"
    [] status[o] = "resolved" -> IF o \in Reads THEN "data" ELSE "ok"
    [] status[o] \in {"eof", "rejected"} -> IF o \in Reads THEN "end" ELSE "failed"

Contract == INSTANCE ConnectionContract WITH
  phase   <- [o \in PromiseOps |-> PhaseOf(o)],
  gone    <- abandoned,
  arrived <- received,
  handed  <- Len(delivered),
  ended   <- client = "dead" \/ life \in {"torn", "freed"}

ImplementsContract == Contract!Spec

\* An operation submitted with a deadline is answered, whatever the peer does
\* and whatever is closed meanwhile.
TimedOpsSettle ==
  ~Reissue => \A o \in Timed : status[o] = "queued"
                ~> status[o] \in Settled \cup {"dropped"}

\* A destructor that has begun returns: the loop can take the GIL it needs to
\* fail the operations in flight.
DestroyFinishes == (life = "dealloc") ~> (life = "freed")
=============================================================================
