------------------------------ MODULE TlsSocket ------------------------------
(***************************************************************************)
(* The TlsSocket that wrap_socket() returns (fizzpy/_tls.py): recv() over  *)
(* the core's read, with the bytes that are left of a chunk; send();       *)
(* makefile(); settimeout(); fileno() and close().  One thread receives,   *)
(* another may send, and any may close.  A recv() that is interrupted      *)
(* leaves its read behind in the core (an orphan).                         *)
(*                                                                         *)
(* The core is the one of module TlsConnection, reduced to what the socket *)
(* sees of it.  The bytes of the stream are numbered in order of arrival.  *)
(***************************************************************************)
EXTENDS WrapSocket, SequencesExt

CONSTANTS
  Timeouts,   \* what settimeout() is given
  MaxBytes,   \* bound: bytes the peer sends
  MaxStops    \* bound: how often the caller gives up what it has asked for

ASSUME SocketConstants == Timeouts \subseteq Int \cup {NoTimeout, Infinite, NotANumber}

VARIABLES
  timeo,     \* _timeout
  rbuf,      \* _rbuf
  eof,       \* _eof
  shut,      \* _closed
  rd,        \* the recv() in progress: "idle", "timed" or "untimed"
  box,       \* the answer of its read
  queue,     \* tasks posted to the loop thread
  parked,    \* pendingRead_
  armed,     \* the read deadline runs
  buffer,    \* bytes in buffer_
  end,       \* eof_ or readErr_
  arrived,   \* number of bytes the core has received
  wr,        \* the send() in progress
  file,      \* the object of makefile(): "none" or "open"
  fbuf,      \* bytes it has read ahead
  out,       \* bytes the application has been given
  lost,      \* bytes that went to a caller who had given up
  stops

reader == <<timeo, rbuf, eof, shut, rd, box>>
engine == <<queue, parked, armed, buffer, end, arrived>>
app == <<wr, file, fbuf, out, lost, stops>>
vars == <<wrapvars, reader, engine, app>>

NoRead == [live |-> FALSE, timed |-> FALSE, kind |-> "none"]
CloseTask == [live |-> FALSE, timed |-> FALSE, kind |-> "close"]
ReadTask(ms) == [live |-> TRUE, timed |-> ms > 0, kind |-> "read"]
NoAnswer == [kind |-> "none", bytes |-> <<>>]
Data(bytes) == [kind |-> "data", bytes |-> bytes]
Failed(kind) == [kind |-> kind, bytes |-> <<>>]

Init ==
  /\ WrapInit
  /\ timeo = how.timeout /\ rbuf = <<>> /\ eof = FALSE /\ shut = FALSE
  /\ rd = "idle" /\ box = NoAnswer
  /\ queue = <<>> /\ parked = NoRead /\ armed = FALSE
  /\ buffer = <<>> /\ end = "no" /\ arrived = 0
  /\ wr = "idle" /\ file = "none" /\ fbuf = <<>> /\ out = <<>>
  /\ lost = {} /\ stops = 0

\* Bound: the object is the same whoever asked for it, and is driven here when
\* wrap_socket() was called directly.
Driven == how.via = "wrap_socket"
Usable == Driven /\ result = "fizz" /\ held

Mode == IF timeo = NoTimeout THEN "untimed" ELSE "timed"

-----------------------------------------------------------------------------
(* recv() *)

\* Mutant: what does not fit is kept from the start of the chunk.
RestAll(bytes, n) == IF Len(bytes) > n THEN bytes ELSE <<>>

Rest(bytes, n) == SubSeq(bytes, n + 1, Len(bytes))

\* recv(), or readinto() of the file over it, returns at most n bytes.
Give(bytes, n) ==
  LET taken == SubSeq(bytes, 1, IF Len(bytes) < n THEN Len(bytes) ELSE n) IN
    /\ rbuf' = Rest(bytes, n)
    /\ IF file = "open" THEN fbuf' = fbuf \o taken /\ UNCHANGED out
                        ELSE out' = out \o taken /\ UNCHANGED fbuf

RecvBuffered(n) ==
  /\ Usable /\ rd = "idle" /\ rbuf # <<>>
  /\ Give(rbuf, n)
  /\ UNCHANGED <<wrapvars, engine, timeo, eof, shut, rd, box, wr, file, lost, stops>>

\* After EOF, and with a timeout that cannot be converted, nothing is submitted.
RecvSubmit ==
  /\ Usable /\ rd = "idle" /\ rbuf = <<>> /\ ~eof
  /\ Convertible(timeo)
  /\ rd' = Mode
  /\ queue' = Append(queue, ReadTask(TimeoutToMs(timeo)))
  /\ UNCHANGED <<wrapvars, timeo, rbuf, eof, shut, box, parked, armed, buffer, end,
                 arrived, app>>

\* bufsize only matters now: n is the one recv() was called with.
RecvReturns(n) ==
  /\ rd # "idle" /\ box # NoAnswer
  /\ rd' = "idle" /\ box' = NoAnswer
  /\ IF box.bytes # <<>>
       THEN Give(box.bytes, n) /\ UNCHANGED eof
       ELSE /\ eof' = (eof \/ box.kind = "data")      \* READ_DONE
            /\ UNCHANGED <<rbuf, fbuf, out>>
  /\ UNCHANGED <<wrapvars, engine, timeo, shut, wr, file, lost, stops>>

\* KeyboardInterrupt in done.wait(): the read stays in the core.
Interrupt ==
  /\ rd # "idle" /\ stops < MaxStops
  /\ stops' = stops + 1
  /\ rd' = "idle" /\ box' = NoAnswer
  /\ lost' = lost \cup ToSet(box.bytes)
  /\ queue' = [i \in DOMAIN queue |-> [queue[i] EXCEPT !.live = FALSE]]
  /\ parked' = [parked EXCEPT !.live = FALSE]
  /\ UNCHANGED <<wrapvars, timeo, rbuf, eof, shut, armed, buffer, end, arrived,
                 wr, file, fbuf, out>>

-----------------------------------------------------------------------------
(* The loop thread. *)

\* A read is answered: to the recv() that waits for it, or to nobody.
Settle(read, answer) ==
  /\ box' = IF read.live THEN answer ELSE box
  /\ lost' = IF read.live THEN lost ELSE lost \cup ToSet(answer.bytes)

TakePendingRead == parked' = NoRead /\ armed' = FALSE

RunRead ==
  /\ queue # <<>> /\ Head(queue).kind = "read"
  /\ queue' = Tail(queue)
  /\ IF buffer = <<>> /\ end = "no"
       THEN /\ parked' = Head(queue)
            /\ armed' = (armed \/ Head(queue).timed)
            /\ UNCHANGED <<box, lost, buffer>>
       ELSE /\ Settle(Head(queue), IF buffer = <<>> /\ end = "err" THEN Failed("error")
                                                                   ELSE Data(buffer))
            /\ buffer' = <<>>
            /\ UNCHANGED <<parked, armed>>
  /\ UNCHANGED <<wrapvars, timeo, rbuf, eof, shut, rd, end, arrived, wr, file, fbuf,
                 out, stops>>

Arrive(n) ==
  /\ op = "up" /\ Driven /\ arrived + n <= MaxBytes
  /\ arrived' = arrived + n
  /\ LET bytes == buffer \o [i \in 1 .. n |-> arrived + i] IN
       IF parked = NoRead THEN buffer' = bytes /\ UNCHANGED <<parked, armed, box, lost>>
       ELSE /\ Settle(parked, Data(bytes)) /\ TakePendingRead
            /\ buffer' = <<>>
  /\ UNCHANGED <<wrapvars, timeo, rbuf, eof, shut, rd, queue, end, wr, file, fbuf,
                 out, stops>>

\* readEOF() or readErr(): the transport closes its descriptor.
Down(kind) ==
  /\ op = "up" /\ Driven
  /\ op' = "down" /\ Release
  /\ end' = kind
  /\ Settle(parked, IF kind = "eof" THEN Data(<<>>) ELSE Failed("error"))
  /\ TakePendingRead
  /\ wr' = "idle"
  /\ UNCHANGED <<call, ctx, pc, sock, handle, fresh, deadline, error, bridge, held, result,
                 timeo, rbuf, eof, shut, rd, queue, buffer, arrived, file, fbuf, out,
                 stops>>

ReadTimeout ==
  /\ armed
  /\ Settle(parked, Failed("timeout")) /\ TakePendingRead
  /\ UNCHANGED <<wrapvars, timeo, rbuf, eof, shut, rd, queue, buffer, end, arrived,
                 wr, file, fbuf, out, stops>>

\* The read callback is removed: a parked read stays parked.
RunClose ==
  /\ queue # <<>> /\ Head(queue).kind = "close"
  /\ queue' = Tail(queue)
  /\ op' = "down" /\ Release
  /\ wr' = "idle"
  /\ UNCHANGED <<call, ctx, pc, sock, handle, fresh, deadline, error, bridge, held, result,
                 reader, parked, armed, buffer, end, arrived, file, fbuf, out, lost, stops>>

-----------------------------------------------------------------------------
(* The rest of the socket. *)

SetTimeout(t) ==
  /\ Usable /\ timeo # t
  /\ timeo' = t
  /\ UNCHANGED <<wrapvars, rbuf, eof, shut, rd, box, engine, app>>

\* fileno(): the number of the duplicate, until close().
Fileno == IF Usable /\ ~shut THEN handle ELSE NoFd

\* Mutant: the socket closes the number it has kept.
CloseNumber ==
  /\ Usable /\ ~shut
  /\ shut' = TRUE
  /\ fds' = Closed(handle)
  /\ UNCHANGED <<call, ctx, pc, sock, handle, adopted, fresh, core, bridge, held, result,
                 timeo, rbuf, eof, rd, box, engine, app>>

Close ==
  /\ Usable /\ ~shut
  /\ shut' = TRUE
  /\ queue' = Append(queue, CloseTask)
  /\ UNCHANGED <<wrapvars, timeo, rbuf, eof, rd, box, parked, armed, buffer, end,
                 arrived, app>>

\* On a transport that is not open the write is refused at once.
Send ==
  /\ Usable /\ wr = "idle" /\ op = "up" /\ Convertible(timeo)
  /\ wr' = IF TimeoutToMs(timeo) > 0 THEN "timed" ELSE "untimed"
  /\ UNCHANGED <<wrapvars, reader, engine, file, fbuf, out, lost, stops>>

SendEnds ==
  /\ wr # "idle"
  /\ wr' = "idle"
  /\ UNCHANGED <<wrapvars, reader, engine, file, fbuf, out, lost, stops>>

\* The deadline of a write takes the transport down.
SendTimeout == wr = "timed" /\ Down("err")

MakeFile ==
  /\ Usable /\ file = "none" /\ rd = "idle"
  /\ file' = "open"
  /\ UNCHANGED <<wrapvars, reader, engine, wr, fbuf, out, lost, stops>>

FileRead ==
  /\ fbuf # <<>>
  /\ out' = Append(out, Head(fbuf)) /\ fbuf' = Tail(fbuf)
  /\ UNCHANGED <<wrapvars, reader, engine, wr, file, lost, stops>>

\* What the file has read ahead goes with it; the socket stays open.
FileClose ==
  /\ file = "open" /\ rd = "idle"
  /\ file' = "none"
  /\ fbuf = <<>> \/ stops < MaxStops
  /\ stops' = IF fbuf = <<>> THEN stops ELSE stops + 1
  /\ lost' = lost \cup ToSet(fbuf) /\ fbuf' = <<>>
  /\ UNCHANGED <<wrapvars, reader, engine, wr, out>>

\* The last reference to the socket goes.
DropSocket ==
  /\ Usable /\ rd = "idle" /\ wr = "idle" /\ queue = <<>> /\ file = "none"
  /\ Teardown
  /\ TakePendingRead
  /\ UNCHANGED <<reader, queue, buffer, end, arrived, app>>

-----------------------------------------------------------------------------
Engine == RunRead \/ RunClose

Caller ==
  \/ RecvSubmit \/ \E n \in 1 .. 2 : RecvBuffered(n)
  \/ \E t \in Timeouts : SetTimeout(t)
  \/ Interrupt \/ Close \/ Send \/ MakeFile \/ FileRead \/ FileClose \/ DropSocket

Peer == SendEnds \/ \E n \in 1 .. 2 : Arrive(n) \/ \E kind \in {"eof", "err"} : Down(kind)

Wrap == WrapNext /\ UNCHANGED <<reader, engine, app>>

Returns == \E n \in 1 .. 2 : RecvReturns(n)

Next == Wrap \/ Engine \/ Caller \/ Peer \/ Returns \/ ReadTimeout \/ SendTimeout

Spec == Init /\ [][Next]_vars

\* The loop thread and the asyncio loop run, deadlines expire, and a thread
\* that has its answer goes on.  Nothing is assumed of the peer.
FairSpec ==
  /\ Spec
  /\ WF_vars(Wrap /\ (RunWrap \/ RunWrapFails))
  /\ WF_vars(Wrap /\ HandshakeTimeout)
  /\ WF_vars(Wrap /\ Deliver)
  /\ WF_vars(Wrap /\ Wake)
  /\ WF_vars(Engine) /\ WF_vars(ReadTimeout) /\ WF_vars(SendTimeout) /\ WF_vars(Returns)

-----------------------------------------------------------------------------
(* Properties. *)

\* Types, and every descriptor number has one owner that closes it: a failed or
\* abandoned handshake leaves none behind.  The exception is a timeout that
\* cannot be converted, found after the handle was duplicated.  The number
\* fileno() returns is the one the core reads from, until the stream has ended.
DescriptorsAccounted ==
  /\ WrapTypeOK
  /\ \A d \in Fds :
       /\ fds[d] = "caller" <=> sock = d
       /\ fds[d] = "core" <=> adopted = d
       /\ fds[d] = "stdlib" <=> fresh = d
       /\ fds[d] = "handle" => handle = d /\ (pc = "submit" \/ ~Convertible(how.timeout))
  /\ fresh # NoFd => pc = "retry" \/ result = "stdlib"
  /\ adopted # NoFd => held /\ op \notin {"none", "down"}
  /\ Fileno \notin {NoFd, adopted} => op = "down"

\* A call that returns has reached a peer its own trust settings accept, even if
\* another request has overwritten the shared context meanwhile, and it has been
\* downgraded only with fallback, and only away from a peer without TLS 1.3.
SameTrust ==
  /\ result # "none" => Trusted(cfg)
  /\ result = "stdlib" => how.fallback /\ ~peer.tls13

\* An answer that comes late changes no future that is settled.  It ends the
\* process only if the asyncio loop is closed and the handshake has succeeded or
\* could not be set up; one that fails is contained.
LateAnswers ==
  [][/\ fut \notin {"none", "pending"} => fut' = fut
     /\ process' # process => loop = "closed" /\ (op = "queued" \/ op' = "up")]_vars

\* The bytes given to the application, and the ones on their way to it.
stream == out \o fbuf \o rbuf \o box.bytes \o buffer

Increasing(s) == \A i, j \in DOMAIN s : i < j => s[i] < s[j]

\* recv() hands out the bytes in order, none twice, and none is lost unless the
\* caller gave up a recv() or a file that had read ahead; EOF comes last.
StreamInOrder ==
  /\ Increasing(stream)
  /\ ToSet(stream) = (1 .. arrived) \ lost
  /\ stops = 0 => lost = {}
  /\ eof => end = "eof" /\ buffer = <<>>

\* No step closes a descriptor number that has gone to another part of the
\* process: the core and the socket give a number up when they close it.
NeverClosesOthers == [][\A d \in Fds : fds[d] = "other" => fds'[d] = "other"]_vars

\* Whatever the peer does and whoever closes the socket, an operation that was
\* given a timeout ends, however short the timeout is.
DeadlineHonoured ==
  /\ pc = "wait" /\ how.timeout # NoTimeout ~> pc # "wait"
  /\ rd = "timed" ~> rd # "timed"
  /\ wr = "timed" ~> wr # "timed"
=============================================================================
