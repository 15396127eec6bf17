------------------------ MODULE TlsConnectionProofs ------------------------
(* Proofs about TlsConnection, for every value of its constants. *)
EXTENDS TlsConnectionInv, TLAPS

-----------------------------------------------------------------------------
(* Sequences. *)

\* What is left of a task queue after its head has been taken.
LEMMA TailFacts ==
  ASSUME NEW T, NEW q \in Seq(T), q # <<>>
  PROVE  /\ Tail(q) \in Seq(T)
         /\ Len(q) \in Nat \ {0}
         /\ Len(Tail(q)) = Len(q) - 1
         /\ \A i \in 1 .. Len(Tail(q)) : i + 1 \in 1 .. Len(q) /\ Tail(q)[i] = q[i + 1]
         /\ 1 \in 1 .. Len(q)
         /\ Head(q) = q[1]
  OBVIOUS

\* What a task queue is after a task has been posted.
LEMMA AppendFacts ==
  ASSUME NEW T, NEW q \in Seq(T), NEW e \in T
  PROVE  /\ Append(q, e) \in Seq(T)
         /\ Len(q) \in Nat
         /\ Len(Append(q, e)) = Len(q) + 1
         /\ \A i \in 1 .. Len(q) : Append(q, e)[i] = q[i]
         /\ Append(q, e)[Len(q) + 1] = e
  OBVIOUS

\* The type and the length of a concatenation (bytes handed out, then buffered).
LEMMA ConcatFacts ==
  ASSUME NEW T, NEW p \in Seq(T), NEW q \in Seq(T)
  PROVE  /\ p \o q \in Seq(T)
         /\ Len(p \o q) = Len(p) + Len(q)
  OBVIOUS

\* The empty buffer is a sequence of chunks.
LEMMA EmptySeqNat == <<>> \in Seq(Nat)
  OBVIOUS

\* An emptied buffer adds nothing to the bytes handed out.
LEMMA ConcatNil == ASSUME NEW T, NEW p \in Seq(T) PROVE p \o <<>> = p
  OBVIOUS

\* A chunk that arrives extends the stream, wherever the buffer begins.
LEMMA ConcatAppend ==
  ASSUME NEW T, NEW p \in Seq(T), NEW q \in Seq(T), NEW e \in T
  PROVE  p \o Append(q, e) = Append(p \o q, e)
  OBVIOUS

\* The stream of n chunks and the next one is the stream of n + 1 chunks.
LEMMA CountUpNext ==
  ASSUME NEW n \in Nat
  PROVE  Append([i \in 1 .. n |-> i], n + 1) = [i \in 1 .. n + 1 |-> i]
  OBVIOUS

\* The stream of n chunks has n chunks.
LEMMA CountUpLen ==
  ASSUME NEW n \in Nat
  PROVE  Len([i \in 1 .. n |-> i]) = n
  OBVIOUS

-----------------------------------------------------------------------------
(* Type correctness. *)

\* Initially every variable has its type.
LEMMA TypeInit == Init => TypeOK
<1>. SUFFICES ASSUME Init PROVE TypeOK
  OBVIOUS
<1>1. \A o \in Ops : status[o] = "new"
  BY DEF Init
<1>2. status \in [Ops -> Statuses]
  BY <1>1 DEF Init, Statuses
<1>3. queue \in Seq(Ops \cup {Dtor}) /\ buffer \in Seq(Nat) /\ delivered \in Seq(Nat)
  BY DEF Init
<1>. QED
  BY <1>1, <1>2, <1>3 DEF Init, TypeOK, Statuses, ReadStatuses, WriteStatuses,
     CloseStatuses, Outstanding, Settled, Ops, PromiseOps

\* The part of TypeOK that is about the outcomes of operations.
StatusTypes(st) ==
  /\ st \in [Ops -> Statuses]
  /\ \A r \in Reads : st[r] \in ReadStatuses
  /\ \A w \in {Conn} \cup Writes : st[w] \in WriteStatuses
  /\ \A k \in Closes : st[k] \in CloseStatuses

\* Giving reads an outcome reads may have keeps the types.
LEMMA MarkReads ==
  ASSUME NEW st, StatusTypes(st), NEW S, S \subseteq Reads, NEW x \in ReadStatuses
  PROVE  StatusTypes(Marked(S, x, st))
<1>1. x \in Statuses
  BY DEF ReadStatuses
<1>. QED
  BY <1>1, OpsDisjoint DEF StatusTypes, Marked, Ops, PromiseOps

\* Giving connect and writes an outcome they may have keeps the types.
LEMMA MarkWrites ==
  ASSUME NEW st, StatusTypes(st), NEW S, S \subseteq {Conn} \cup Writes,
         NEW x \in WriteStatuses
  PROVE  StatusTypes(Marked(S, x, st))
<1>1. x \in Statuses
  BY DEF WriteStatuses, Statuses, Outstanding, Settled
<1>. QED
  BY <1>1, OpsDisjoint DEF StatusTypes, Marked, Ops, PromiseOps

\* The end of the transport keeps the types, whatever outcome it gives.
LEMMA TransportDownTypes ==
  ASSUME TypeOK, NEW x \in WriteStatuses, NEW y \in ReadStatuses, TransportDown(x, y),
         eof' \in BOOLEAN, readErr' \in BOOLEAN
  PROVE  TypeOK'
<1>1. StatusTypes(status) /\ ParkedRead \subseteq Reads /\ InFlight \subseteq {Conn} \cup Writes
  BY DEF TypeOK, StatusTypes, ParkedRead, InFlight
<1>2. StatusTypes(Marked(InFlight, x, status))
  BY <1>1, MarkWrites
<1>3. StatusTypes(status')
  <2>1. status' = Marked(ParkedRead, y, Marked(InFlight, x, status))
    BY DEF TransportDown
  <2>. QED
    BY <1>1, <1>2, <2>1, MarkReads
<1>4. pendingRead' \in Reads \cup {NoOp} /\ timer' \in BOOLEAN
  BY DEF TypeOK, TransportDown, TakePendingRead
<1>5. client' = "dead" /\ fd' = "closed"
  BY DEF TransportDown
<1>6. UNCHANGED <<abandoned, queue, sendTimeout, buffer, received, delivered, life, gil>>
  BY DEF TransportDown, object
<1>. QED
  BY <1>3, <1>4, <1>5, <1>6 DEF TypeOK, StatusTypes

\* Every step keeps every variable in its type.
LEMMA TypeStep == TypeOK /\ [Next]_vars => TypeOK'
<1>. SUFFICES ASSUME TypeOK, [Next]_vars PROVE TypeOK'
  OBVIOUS
<1>0. StatusTypes(status)
  BY DEF TypeOK, StatusTypes
<1>. USE OpsDisjoint DEF TypeOK, Statuses, ReadStatuses, WriteStatuses, CloseStatuses,
         Outstanding, Settled, Ops, PromiseOps
<1>1. CASE Connect
  BY <1>1 DEF Connect, Submit
<1>2. CASE WrapFd
  BY <1>2 DEF WrapFd, Submit
<1>3. CASE \E w \in Writes : Write(w)
  BY <1>3 DEF Write, Submit
<1>4. CASE \E r \in Reads : Read(r)
  BY <1>4 DEF Read, Submit
<1>5. CASE \E k \in Closes : Close(k)
  BY <1>5 DEF Close, Submit
<1>6. CASE \E o \in PromiseOps : Abandon(o)
  BY <1>6 DEF Abandon, stream, object
<1>7. CASE DtorEnter
  BY <1>7 DEF DtorEnter, stream
<1>8. CASE DtorRelease
  BY <1>8 DEF DtorRelease, stream
<1>9. CASE DtorFinish
  BY <1>9 DEF DtorFinish, stream
<1>10. CASE RunConnectNoSetup
  BY <1>10 DEF RunConnectNoSetup, Run, Answer, Marked, stream, object
<1>11. CASE RunConnectNoAddress
  BY <1>11 DEF RunConnectNoAddress, Run, Answer, Marked, stream, object
<1>12. CASE RunConnect
  BY <1>12 DEF RunConnect, Run, stream, object
<1>13. CASE RunWrapFails
  BY <1>13 DEF RunWrapFails, Run, Answer, Marked, stream, object
<1>14. CASE RunWrap
  BY <1>14 DEF RunWrap, Run, stream, object
<1>15. CASE \E w \in Writes : RunWrite(w)
  <2>. PICK w \in Writes : RunWrite(w)
    BY <1>15
  <2>1. CASE client = "open"
    <3>1. sendTimeout' \in BOOLEAN
      BY <2>1 DEF RunWrite
    <3>2. queue' \in Seq(Ops \cup {Dtor})
      BY TailFacts DEF RunWrite, Run
    <3>3. status' = [status EXCEPT ![w] = "inflight"]
      BY <2>1 DEF RunWrite
    <3>. QED
      BY <3>1, <3>2, <3>3 DEF RunWrite, stream, object
  <2>2. CASE client # "open"
    <3>1. queue' \in Seq(Ops \cup {Dtor})
      BY TailFacts DEF RunWrite, Run
    <3>2. status' = Marked({w}, "rejected", status)
      BY <2>2 DEF RunWrite, Answer
    <3>. QED
      BY <2>2, <3>1, <3>2 DEF RunWrite, Marked, stream, object
  <2>. QED
    BY <2>1, <2>2
<1>16. CASE \E r \in Reads : RunReadNow(r)
  <2>. PICK r \in Reads : RunReadNow(r)
    BY <1>16
  <2>1. queue' \in Seq(Ops \cup {Dtor})
    BY TailFacts DEF RunReadNow, Run
  <2>2. delivered' \in Seq(Nat) /\ buffer' \in Seq(Nat)
    <3>1. delivered \o buffer \in Seq(Nat)
      BY ConcatFacts
    <3>2. CASE buffer # <<>>
      <4>1. delivered' = delivered \o buffer /\ buffer' = <<>>
        BY <3>2 DEF RunReadNow, FulfillRead
      <4>. QED
        BY <3>1, <4>1, EmptySeqNat, Zenon
    <3>3. CASE buffer = <<>>
      BY <3>3 DEF RunReadNow
    <3>. QED
      BY <3>2, <3>3
  <2>3. \E res \in {"resolved", "rejected", "eof"} : status' = Marked({r}, res, status)
    BY DEF RunReadNow, Answer
  <2>. QED
    BY <2>1, <2>2, <2>3 DEF RunReadNow, Marked, object
<1>17. CASE \E r \in Reads : RunReadPark(r)
  BY <1>17 DEF RunReadPark, Run, stream, object
<1>18. CASE \E k \in Closes : RunClose(k)
  BY <1>18 DEF RunClose, Run, CloseNow, Marked, InFlight, stream, object
<1>19. CASE RunDtor
  <2>1. status' = Marked(InFlight, "rejected", status)
    BY <1>19 DEF RunDtor, CloseNow
  <2>2. queue' \in Seq(Ops \cup {Dtor})
    BY <1>19, TailFacts DEF RunDtor, Run
  <2>3. StatusTypes(status')
    <3>1. InFlight \subseteq {Conn} \cup Writes /\ "rejected" \in WriteStatuses
      BY DEF InFlight
    <3>. QED
      BY <1>0, <2>1, <3>1, MarkWrites
  <2>4. fd' \in {"none", "handed", "open", "closed"}
    BY <1>19 DEF RunDtor, CloseNow
  <2>. QED
    BY <1>19, <2>2, <2>3, <2>4 DEF RunDtor, StatusTypes, stream
<1>20. CASE HandshakeSuccess
  BY <1>20 DEF HandshakeSuccess, Answer, Marked, stream, object
<1>21. CASE HandshakeError
  BY <1>21 DEF HandshakeError, HandshakeFails, Answer, Marked, stream, object
<1>22. CASE HandshakeTimeout
  BY <1>22 DEF HandshakeTimeout, HandshakeFails, Answer, Marked, stream, object
<1>23. CASE \E w \in Writes : WriteSuccess(w)
  BY <1>23 DEF WriteSuccess, Answer, Marked, stream, object
<1>24. CASE DataArrives
  <2>1. status' = Marked(ParkedRead, "resolved", status) /\ ParkedRead \subseteq Reads
    BY <1>24 DEF DataArrives, Answer, ParkedRead
  <2>2. received' \in Nat /\ Append(buffer, received + 1) \in Seq(Nat)
    BY <1>24 DEF DataArrives
  <2>3. delivered' \in Seq(Nat) /\ buffer' \in Seq(Nat)
    <3>1. delivered \o Append(buffer, received + 1) \in Seq(Nat)
      BY <2>2, ConcatFacts
    <3>2. CASE ParkedRead = {}
      BY <1>24, <2>2, <3>2 DEF DataArrives
    <3>3. CASE ParkedRead # {}
      <4>1. delivered' = delivered \o Append(buffer, received + 1) /\ buffer' = <<>>
        BY <1>24, <3>3 DEF DataArrives, FulfillRead
      <4>. QED
        BY <3>1, <4>1, EmptySeqNat, Zenon
    <3>. QED
      BY <3>2, <3>3
  <2>4. pendingRead' \in Reads \cup {NoOp} /\ timer' \in BOOLEAN
    BY <1>24 DEF DataArrives, TakePendingRead
  <2>5. StatusTypes(status')
    <3>1. "resolved" \in ReadStatuses
      OBVIOUS
    <3>. QED
      BY <1>0, <2>1, <3>1, MarkReads
  <2>. QED
    BY <1>24, <2>2, <2>3, <2>4, <2>5 DEF DataArrives, StatusTypes, object
<1>25. CASE TransportEOF
  BY <1>25, TransportDownTypes DEF TransportEOF
<1>26. CASE TransportErr
  BY <1>26, TransportDownTypes DEF TransportErr
<1>27. CASE WriteTimeout
  BY <1>27, TransportDownTypes DEF WriteTimeout
<1>28. CASE ReadTimeout
  <2>1. status' = Marked(ParkedRead, "timedout", status) /\ ParkedRead \subseteq Reads
    BY <1>28 DEF ReadTimeout, Answer, ParkedRead
  <2>2. "timedout" \in ReadStatuses
    OBVIOUS
  <2>3. StatusTypes(status')
    BY <1>0, <2>1, <2>2, MarkReads
  <2>4. pendingRead' \in Reads \cup {NoOp} /\ timer' \in BOOLEAN
    BY <1>28 DEF ReadTimeout
  <2>5. UNCHANGED <<abandoned, queue, client, fd, sendTimeout, buffer, eof, readErr,
                    received, delivered, life, gil>>
    BY <1>28 DEF ReadTimeout, stream, object
  <2>. QED
    BY <2>3, <2>4, <2>5 DEF StatusTypes
<1>29. CASE UNCHANGED vars
  BY <1>29 DEF vars
<1>. QED
  BY <1>1, <1>2, <1>3, <1>4, <1>5, <1>6, <1>7, <1>8, <1>9, <1>10, <1>11, <1>12, <1>13,
     <1>14, <1>15, <1>16, <1>17, <1>18, <1>19, <1>20, <1>21, <1>22, <1>23, <1>24,
     <1>25, <1>26, <1>27, <1>28, <1>29 DEF Next, Python, RunTask, Callback

-----------------------------------------------------------------------------
(* The parts of the inductive invariant, one lemma per part, one step per action. *)

\* What posting a task and running the first one do to the queue.
LEMMA QueueFacts ==
  ASSUME TypeOK
  PROVE  /\ Len(queue) \in Nat
         /\ \A i \in 1 .. Len(queue) : queue[i] \in Ops \cup {Dtor}
         /\ \A e \in Ops \cup {Dtor} :
              /\ Len(Append(queue, e)) = Len(queue) + 1
              /\ \A i \in 1 .. Len(queue) : Append(queue, e)[i] = queue[i]
              /\ Append(queue, e)[Len(queue) + 1] = e
         /\ queue # <<>> =>
              /\ Len(queue) > 0
              /\ Head(queue) = queue[1]
              /\ Len(Tail(queue)) = Len(queue) - 1
              /\ \A i \in 1 .. Len(queue) - 1 : Tail(queue)[i] = queue[i + 1]
  BY TailFacts, AppendFacts DEF TypeOK

\* A task that is not in the queue is posted, and no operation leaves it.
LEMMA QueueGrows ==
  ASSUME TypeOK, QueueInv, NEW e \in Ops \cup {Dtor},
         \A i \in 1 .. Len(queue) : queue[i] # e,
         queue' = Append(queue, e),
         e # Dtor => status'[e] = "queued",
         \A p \in Ops : status[p] = "queued" => status'[p] = "queued"
  PROVE  QueueInv'
<1>1. /\ Len(queue) \in Nat
      /\ Len(queue') = Len(queue) + 1
      /\ queue'[Len(queue) + 1] = e
      /\ \A i \in 1 .. Len(queue) : queue'[i] = queue[i] /\ queue[i] \in Ops \cup {Dtor}
  BY QueueFacts
<1>2. \A i \in 1 .. Len(queue') : i \in 1 .. Len(queue) \/ i = Len(queue) + 1
  BY <1>1
<1>3. ASSUME NEW i \in 1 .. Len(queue'), queue'[i] # Dtor
      PROVE  status'[queue'[i]] = "queued"
  BY <1>1, <1>2, <1>3 DEF QueueInv
<1>4. ASSUME NEW i \in 1 .. Len(queue'), NEW j \in 1 .. Len(queue'), queue'[i] = queue'[j]
      PROVE  i = j
  BY <1>1, <1>2, <1>4 DEF QueueInv
<1>. QED
  BY <1>3, <1>4 DEF QueueInv

\* The first task runs, and no other operation leaves the queue.
LEMMA QueueShrinks ==
  ASSUME TypeOK, QueueInv, NEW o, Run(o),
         \A p \in Ops : p # o /\ status[p] = "queued" => status'[p] = "queued"
  PROVE  QueueInv'
  BY QueueFacts DEF Run, QueueInv

\* A new operation is posted: it was in no queue before.
LEMMA SubmitQueues ==
  ASSUME TypeOK, QueueInv, NEW o \in Ops, Submit(o)
  PROVE  QueueInv'
<1>1. queue' = Append(queue, o) /\ status' = [status EXCEPT ![o] = "queued"] /\ status[o] = "new"
  BY DEF Submit
<1>2. o # Dtor
  BY OpsDisjoint
<1>3. \A i \in 1 .. Len(queue) : queue[i] # o
  BY <1>1, <1>2 DEF QueueInv
<1>4. status'[o] = "queued" /\ \A p \in Ops : status[p] = "queued" => status'[p] = "queued"
  BY <1>1 DEF TypeOK
<1>. QED
  BY <1>1, <1>3, <1>4, QueueGrows

\* The operation whose task runs first is still queued.
LEMMA HeadIsQueued ==
  ASSUME TypeOK, QueueInv, NEW o \in Ops, Run(o)
  PROVE  status[o] = "queued"
<1>1. o # Dtor
  BY OpsDisjoint
<1>2. Len(queue) \in Nat /\ Len(queue) > 0 /\ queue[1] = o
  BY QueueFacts DEF Run
<1>. QED
  BY <1>1, <1>2 DEF QueueInv

\* The queue holds each submitted operation once.
LEMMA QueueInvStep == TypeOK /\ QueueInv /\ DtorInv /\ ParkInv /\ ConnInv /\ [Next]_vars => QueueInv'
<1>. SUFFICES ASSUME TypeOK, QueueInv, DtorInv, ParkInv, ConnInv, [Next]_vars PROVE QueueInv'
  OBVIOUS
<1>. USE OpsDisjoint, QueueFacts DEF TypeOK, Ops, PromiseOps, QueueInv, ParkInv, DtorInv
<1>1. CASE Connect
  BY <1>1, SubmitQueues DEF Connect
<1>2. CASE WrapFd
  BY <1>2, SubmitQueues DEF WrapFd
<1>3. CASE \E w \in Writes : Write(w)
  BY <1>3, SubmitQueues DEF Write
<1>4. CASE \E r \in Reads : Read(r)
  BY <1>4, SubmitQueues DEF Read
<1>5. CASE \E k \in Closes : Close(k)
  BY <1>5, SubmitQueues DEF Close
<1>6. CASE \E o \in PromiseOps : Abandon(o)
  BY <1>6 DEF Abandon, stream, object
<1>7. CASE DtorEnter
  BY <1>7 DEF DtorEnter, stream
<1>8. CASE DtorRelease
  <2>1. \A i \in 1 .. Len(queue) : queue[i] # Dtor
    BY <1>8 DEF DtorRelease
  <2>2. queue' = Append(queue, Dtor) /\ status' = status
    BY <1>8 DEF DtorRelease
  <2>. QED
    BY <2>1, <2>2, QueueGrows
<1>9. CASE DtorFinish
  BY <1>9 DEF DtorFinish, stream
<1>10. CASE RunConnectNoSetup
  <2>1. Run(Conn) /\ \A p \in Ops : p # Conn /\ status[p] = "queued" => status'[p] = "queued"
    BY <1>10 DEF RunConnectNoSetup, Run, Answer, Marked, stream, object
  <2>. QED
    BY <2>1, QueueShrinks
<1>11. CASE RunConnectNoAddress
  <2>1. Run(Conn) /\ \A p \in Ops : p # Conn /\ status[p] = "queued" => status'[p] = "queued"
    BY <1>11 DEF RunConnectNoAddress, Run, Answer, Marked, stream, object
  <2>. QED
    BY <2>1, QueueShrinks
<1>12. CASE RunConnect
  <2>1. Run(Conn) /\ \A p \in Ops : p # Conn /\ status[p] = "queued" => status'[p] = "queued"
    BY <1>12 DEF RunConnect, Run, stream, object
  <2>. QED
    BY <2>1, QueueShrinks
<1>13. CASE RunWrapFails
  <2>1. Run(Conn) /\ \A p \in Ops : p # Conn /\ status[p] = "queued" => status'[p] = "queued"
    BY <1>13 DEF RunWrapFails, Run, Answer, Marked, stream, object
  <2>. QED
    BY <2>1, QueueShrinks
<1>14. CASE RunWrap
  <2>1. Run(Conn) /\ \A p \in Ops : p # Conn /\ status[p] = "queued" => status'[p] = "queued"
    BY <1>14 DEF RunWrap, Run, stream, object
  <2>. QED
    BY <2>1, QueueShrinks
<1>15. CASE \E w \in Writes : RunWrite(w)
  BY <1>15 DEF RunWrite, Run, Answer, Marked, stream, object
<1>16. CASE \E r \in Reads : RunReadNow(r)
  BY <1>16 DEF RunReadNow, Run, Answer, Marked, FulfillRead, object
<1>17. CASE \E r \in Reads : RunReadPark(r)
  BY <1>17 DEF RunReadPark, Run, stream, object
<1>18. CASE \E k \in Closes : RunClose(k)
  <2>. PICK k \in Closes : RunClose(k)
    BY <1>18
  <2>1. Run(k) /\ \A p \in Ops : p # k /\ status[p] = "queued" => status'[p] = "queued"
    BY DEF RunClose, Run, CloseNow, Marked, InFlight, stream, object
  <2>. QED
    BY <2>1, QueueShrinks
<1>19. CASE RunDtor
  BY <1>19 DEF RunDtor, Run, CloseNow, Marked, InFlight, stream
<1>20. CASE HandshakeSuccess
  BY <1>20 DEF ConnInv, HandshakeSuccess, Answer, Marked, stream, object
<1>21. CASE HandshakeError
  BY <1>21 DEF ConnInv, HandshakeError, HandshakeFails, Answer, Marked, stream, object
<1>22. CASE HandshakeTimeout
  BY <1>22 DEF ConnInv, HandshakeTimeout, HandshakeFails, Answer, Marked, stream, object
<1>23. CASE \E w \in Writes : WriteSuccess(w)
  BY <1>23 DEF WriteSuccess, Answer, Marked, stream, object
<1>24. CASE DataArrives
  BY <1>24 DEF DataArrives, Answer, Marked, ParkedRead, TakePendingRead, FulfillRead,
     object
<1>25. CASE TransportEOF
  BY <1>25 DEF TransportEOF, TransportDown, Marked, InFlight, ParkedRead,
     TakePendingRead, object
<1>26. CASE TransportErr
  BY <1>26 DEF TransportErr, TransportDown, Marked, InFlight, ParkedRead,
     TakePendingRead, object
<1>27. CASE WriteTimeout
  BY <1>27 DEF WriteTimeout, TransportDown, Marked, InFlight, ParkedRead,
     TakePendingRead, object
<1>28. CASE ReadTimeout
  BY <1>28 DEF ReadTimeout, Answer, Marked, ParkedRead, stream, object
<1>29. CASE UNCHANGED vars
  BY <1>29 DEF vars
<1>. QED
  BY <1>1, <1>2, <1>3, <1>4, <1>5, <1>6, <1>7, <1>8, <1>9, <1>10, <1>11, <1>12, <1>13,
     <1>14, <1>15, <1>16, <1>17, <1>18, <1>19, <1>20, <1>21, <1>22, <1>23, <1>24,
     <1>25, <1>26, <1>27, <1>28, <1>29 DEF Next, Python, RunTask, Callback

\* Nothing is posted behind the teardown task.
LEMMA DtorInvStep == TypeOK /\ QueueInv /\ DtorInv /\ [Next]_vars => DtorInv'
<1>. SUFFICES ASSUME TypeOK, QueueInv, DtorInv, [Next]_vars PROVE DtorInv'
  OBVIOUS
<1>. USE OpsDisjoint, QueueFacts DEF TypeOK, Ops, PromiseOps, DtorInv, QueueInv
<1>1. CASE Connect
  BY <1>1 DEF Connect, Submit
<1>2. CASE WrapFd
  BY <1>2 DEF WrapFd, Submit
<1>3. CASE \E w \in Writes : Write(w)
  BY <1>3 DEF Write, Submit
<1>4. CASE \E r \in Reads : Read(r)
  BY <1>4 DEF Read, Submit
<1>5. CASE \E k \in Closes : Close(k)
  BY <1>5 DEF Close, Submit
<1>6. CASE \E o \in PromiseOps : Abandon(o)
  BY <1>6 DEF Abandon, stream, object
<1>7. CASE DtorEnter
  BY <1>7 DEF DtorEnter, stream
<1>8. CASE DtorRelease
  BY <1>8 DEF DtorRelease, stream
<1>9. CASE DtorFinish
  BY <1>9 DEF DtorFinish, stream
<1>10. CASE RunConnectNoSetup
  BY <1>10 DEF RunConnectNoSetup, Run, Answer, Marked, stream, object
<1>11. CASE RunConnectNoAddress
  BY <1>11 DEF RunConnectNoAddress, Run, Answer, Marked, stream, object
<1>12. CASE RunConnect
  BY <1>12 DEF RunConnect, Run, stream, object
<1>13. CASE RunWrapFails
  BY <1>13 DEF RunWrapFails, Run, Answer, Marked, stream, object
<1>14. CASE RunWrap
  BY <1>14 DEF RunWrap, Run, stream, object
<1>15. CASE \E w \in Writes : RunWrite(w)
  BY <1>15 DEF RunWrite, Run, Answer, Marked, stream, object
<1>16. CASE \E r \in Reads : RunReadNow(r)
  BY <1>16 DEF RunReadNow, Run, Answer, Marked, FulfillRead, object
<1>17. CASE \E r \in Reads : RunReadPark(r)
  BY <1>17 DEF RunReadPark, Run, stream, object
<1>18. CASE \E k \in Closes : RunClose(k)
  BY <1>18 DEF RunClose, Run, CloseNow, Marked, InFlight, stream, object
<1>19. CASE RunDtor
  BY <1>19 DEF RunDtor, Run, CloseNow, Marked, InFlight, stream
<1>20. CASE HandshakeSuccess
  BY <1>20 DEF HandshakeSuccess, Answer, Marked, stream, object
<1>21. CASE HandshakeError
  BY <1>21 DEF HandshakeError, HandshakeFails, Answer, Marked, stream, object
<1>22. CASE HandshakeTimeout
  BY <1>22 DEF HandshakeTimeout, HandshakeFails, Answer, Marked, stream, object
<1>23. CASE \E w \in Writes : WriteSuccess(w)
  BY <1>23 DEF WriteSuccess, Answer, Marked, stream, object
<1>24. CASE DataArrives
  BY <1>24 DEF DataArrives, Answer, Marked, ParkedRead, TakePendingRead, FulfillRead,
     object
<1>25. CASE TransportEOF
  BY <1>25 DEF TransportEOF, TransportDown, Marked, InFlight, ParkedRead,
     TakePendingRead, object
<1>26. CASE TransportErr
  BY <1>26 DEF TransportErr, TransportDown, Marked, InFlight, ParkedRead,
     TakePendingRead, object
<1>27. CASE WriteTimeout
  BY <1>27 DEF WriteTimeout, TransportDown, Marked, InFlight, ParkedRead,
     TakePendingRead, object
<1>28. CASE ReadTimeout
  BY <1>28 DEF ReadTimeout, Answer, Marked, ParkedRead, stream, object
<1>29. CASE UNCHANGED vars
  BY <1>29 DEF vars
<1>. QED
  BY <1>1, <1>2, <1>3, <1>4, <1>5, <1>6, <1>7, <1>8, <1>9, <1>10, <1>11, <1>12, <1>13,
     <1>14, <1>15, <1>16, <1>17, <1>18, <1>19, <1>20, <1>21, <1>22, <1>23, <1>24,
     <1>25, <1>26, <1>27, <1>28, <1>29 DEF Next, Python, RunTask, Callback

\* A torn down object stays inert.
LEMMA TornInvStep == TypeOK /\ QueueInv /\ DtorInv /\ ConnInv /\ TornInv /\ [Next]_vars => TornInv'
<1>. SUFFICES ASSUME TypeOK, QueueInv, DtorInv, ConnInv, TornInv, [Next]_vars PROVE TornInv'
  OBVIOUS
<1>. USE OpsDisjoint, QueueFacts DEF TypeOK, Ops, PromiseOps, DtorInv, TornInv, InFlight
<1>1. CASE Connect
  BY <1>1 DEF Connect, Submit
<1>2. CASE WrapFd
  BY <1>2 DEF WrapFd, Submit
<1>3. CASE \E w \in Writes : Write(w)
  BY <1>3 DEF Write, Submit
<1>4. CASE \E r \in Reads : Read(r)
  BY <1>4 DEF Read, Submit
<1>5. CASE \E k \in Closes : Close(k)
  BY <1>5 DEF Close, Submit
<1>6. CASE \E o \in PromiseOps : Abandon(o)
  BY <1>6 DEF Abandon, stream, object
<1>7. CASE DtorEnter
  BY <1>7 DEF DtorEnter, stream
<1>8. CASE DtorRelease
  BY <1>8 DEF DtorRelease, stream
<1>9. CASE DtorFinish
  BY <1>9 DEF DtorFinish, stream
<1>10. CASE RunConnectNoSetup
  BY <1>10 DEF RunConnectNoSetup, Run, Answer, Marked, stream, object
<1>11. CASE RunConnectNoAddress
  BY <1>11 DEF RunConnectNoAddress, Run, Answer, Marked, stream, object
<1>12. CASE RunConnect
  BY <1>12 DEF RunConnect, Run, stream, object
<1>13. CASE RunWrapFails
  BY <1>13 DEF RunWrapFails, Run, Answer, Marked, stream, object
<1>14. CASE RunWrap
  BY <1>14 DEF RunWrap, Run, stream, object
<1>15. CASE \E w \in Writes : RunWrite(w)
  BY <1>15 DEF RunWrite, Run, Answer, Marked, stream, object
<1>16. CASE \E r \in Reads : RunReadNow(r)
  BY <1>16 DEF RunReadNow, Run, Answer, Marked, FulfillRead, object
<1>17. CASE \E r \in Reads : RunReadPark(r)
  BY <1>17 DEF RunReadPark, Run, stream, object
<1>18. CASE \E k \in Closes : RunClose(k)
  BY <1>18 DEF RunClose, Run, CloseNow, Marked, InFlight, stream, object
<1>19. CASE RunDtor
  BY <1>19 DEF RunDtor, Run, CloseNow, Marked, InFlight, stream
<1>20. CASE HandshakeSuccess
  BY <1>20 DEF HandshakeSuccess, Answer, Marked, stream, object
<1>21. CASE HandshakeError
  BY <1>21 DEF HandshakeError, HandshakeFails, Answer, Marked, stream, object
<1>22. CASE HandshakeTimeout
  BY <1>22 DEF HandshakeTimeout, HandshakeFails, Answer, Marked, stream, object
<1>23. CASE \E w \in Writes : WriteSuccess(w)
  BY <1>23 DEF WriteSuccess, Answer, Marked, stream, object
<1>24. CASE DataArrives
  BY <1>24 DEF DataArrives, Answer, Marked, ParkedRead, TakePendingRead, FulfillRead,
     object
<1>25. CASE TransportEOF
  BY <1>25 DEF TransportEOF, TransportDown, Marked, InFlight, ParkedRead,
     TakePendingRead, object
<1>26. CASE TransportErr
  BY <1>26 DEF TransportErr, TransportDown, Marked, InFlight, ParkedRead,
     TakePendingRead, object
<1>27. CASE WriteTimeout
  BY <1>27 DEF WriteTimeout, TransportDown, Marked, InFlight, ParkedRead,
     TakePendingRead, object
<1>28. CASE ReadTimeout
  BY <1>28 DEF ReadTimeout, Answer, Marked, ParkedRead, stream, object
<1>29. CASE UNCHANGED vars
  BY <1>29 DEF vars
<1>. QED
  BY <1>1, <1>2, <1>3, <1>4, <1>5, <1>6, <1>7, <1>8, <1>9, <1>10, <1>11, <1>12, <1>13,
     <1>14, <1>15, <1>16, <1>17, <1>18, <1>19, <1>20, <1>21, <1>22, <1>23, <1>24,
     <1>25, <1>26, <1>27, <1>28, <1>29 DEF Next, Python, RunTask, Callback

\* The parked promise stays unanswered while it is parked.
LEMMA ParkInvStep == TypeOK /\ QueueInv /\ ParkInv /\ [Next]_vars => ParkInv'
<1>. SUFFICES ASSUME TypeOK, QueueInv, ParkInv, [Next]_vars PROVE ParkInv'
  OBVIOUS
<1>. USE OpsDisjoint, QueueFacts DEF TypeOK, Ops, PromiseOps, QueueInv, ParkInv
<1>1. CASE Connect
  BY <1>1 DEF Connect, Submit
<1>2. CASE WrapFd
  BY <1>2 DEF WrapFd, Submit
<1>3. CASE \E w \in Writes : Write(w)
  BY <1>3 DEF Write, Submit
<1>4. CASE \E r \in Reads : Read(r)
  BY <1>4 DEF Read, Submit
<1>5. CASE \E k \in Closes : Close(k)
  BY <1>5 DEF Close, Submit
<1>6. CASE \E o \in PromiseOps : Abandon(o)
  BY <1>6 DEF Abandon, stream, object
<1>7. CASE DtorEnter
  BY <1>7 DEF DtorEnter, stream
<1>8. CASE DtorRelease
  BY <1>8 DEF DtorRelease, stream
<1>9. CASE DtorFinish
  BY <1>9 DEF DtorFinish, stream
<1>10. CASE RunConnectNoSetup
  BY <1>10 DEF RunConnectNoSetup, Run, Answer, Marked, stream, object
<1>11. CASE RunConnectNoAddress
  BY <1>11 DEF RunConnectNoAddress, Run, Answer, Marked, stream, object
<1>12. CASE RunConnect
  BY <1>12 DEF RunConnect, Run, stream, object
<1>13. CASE RunWrapFails
  BY <1>13 DEF RunWrapFails, Run, Answer, Marked, stream, object
<1>14. CASE RunWrap
  BY <1>14 DEF RunWrap, Run, stream, object
<1>15. CASE \E w \in Writes : RunWrite(w)
  BY <1>15 DEF RunWrite, Run, Answer, Marked, stream, object
<1>16. CASE \E r \in Reads : RunReadNow(r)
  <2>. PICK r \in Reads : RunReadNow(r)
    BY <1>16
  <2>1. status[r] = "queued"
    BY DEF RunReadNow, Run
  <2>2. pendingRead' = pendingRead /\ \A p \in Ops : p # r => status'[p] = status[p]
    BY DEF RunReadNow, Answer, Marked
  <2>. QED
    BY <2>1, <2>2
<1>17. CASE \E r \in Reads : RunReadPark(r)
  BY <1>17 DEF RunReadPark, Run, stream, object
<1>18. CASE \E k \in Closes : RunClose(k)
  BY <1>18 DEF RunClose, Run, CloseNow, Marked, InFlight, stream, object
<1>19. CASE RunDtor
  BY <1>19 DEF RunDtor, Run, CloseNow, Marked, InFlight, stream
<1>20. CASE HandshakeSuccess
  BY <1>20 DEF HandshakeSuccess, Answer, Marked, stream, object
<1>21. CASE HandshakeError
  BY <1>21 DEF HandshakeError, HandshakeFails, Answer, Marked, stream, object
<1>22. CASE HandshakeTimeout
  BY <1>22 DEF HandshakeTimeout, HandshakeFails, Answer, Marked, stream, object
<1>23. CASE \E w \in Writes : WriteSuccess(w)
  BY <1>23 DEF WriteSuccess, Answer, Marked, stream, object
<1>24. CASE DataArrives
  BY <1>24 DEF DataArrives, Answer, Marked, ParkedRead, TakePendingRead, FulfillRead,
     object
<1>25. CASE TransportEOF
  BY <1>25 DEF TransportEOF, TransportDown, Marked, InFlight, ParkedRead,
     TakePendingRead, object
<1>26. CASE TransportErr
  BY <1>26 DEF TransportErr, TransportDown, Marked, InFlight, ParkedRead,
     TakePendingRead, object
<1>27. CASE WriteTimeout
  BY <1>27 DEF WriteTimeout, TransportDown, Marked, InFlight, ParkedRead,
     TakePendingRead, object
<1>28. CASE ReadTimeout
  BY <1>28 DEF ReadTimeout, Answer, Marked, ParkedRead, stream, object
<1>29. CASE UNCHANGED vars
  BY <1>29 DEF vars
<1>. QED
  BY <1>1, <1>2, <1>3, <1>4, <1>5, <1>6, <1>7, <1>8, <1>9, <1>10, <1>11, <1>12, <1>13,
     <1>14, <1>15, <1>16, <1>17, <1>18, <1>19, <1>20, <1>21, <1>22, <1>23, <1>24,
     <1>25, <1>26, <1>27, <1>28, <1>29 DEF Next, Python, RunTask, Callback

\* Running one task leaves the others posted.
LEMMA StaysQueued ==
  ASSUME TypeOK, NEW o, Run(o), NEW p, p # o, InQueue(p)
  PROVE  InQueue(p)'
<1>1. PICK i \in 1 .. Len(queue) : queue[i] = p
  BY DEF InQueue
<1>2. i # 1 /\ i - 1 \in 1 .. Len(queue) - 1
  BY <1>1, QueueFacts DEF Run
<1>3. Tail(queue)[i - 1] = p /\ i - 1 \in 1 .. Len(Tail(queue))
  BY <1>1, <1>2, QueueFacts DEF Run
<1>. QED
  BY <1>3 DEF InQueue, Run

\* The connect operation, client_ and the descriptor move together.
LEMMA ConnInvStep == TypeOK /\ QueueInv /\ DtorInv /\ TornInv /\ ConnInv /\ [Next]_vars => ConnInv'
<1>. SUFFICES ASSUME TypeOK, QueueInv, DtorInv, TornInv, ConnInv, [Next]_vars PROVE ConnInv'
  OBVIOUS
<1>. USE OpsDisjoint, QueueFacts DEF TypeOK, Ops, PromiseOps, QueueInv, DtorInv,
   TornInv, ConnInv, InQueue
<1>1. CASE Connect
  BY <1>1 DEF Connect, Submit
<1>2. CASE WrapFd
  BY <1>2 DEF WrapFd, Submit
<1>3. CASE \E w \in Writes : Write(w)
  BY <1>3 DEF Write, Submit
<1>4. CASE \E r \in Reads : Read(r)
  BY <1>4 DEF Read, Submit
<1>5. CASE \E k \in Closes : Close(k)
  BY <1>5 DEF Close, Submit
<1>6. CASE \E o \in PromiseOps : Abandon(o)
  BY <1>6 DEF Abandon, stream, object
<1>7. CASE DtorEnter
  BY <1>7 DEF DtorEnter, stream
<1>8. CASE DtorRelease
  BY <1>8 DEF DtorRelease, stream
<1>9. CASE DtorFinish
  BY <1>9 DEF DtorFinish, stream
<1>10. CASE RunConnectNoSetup
  BY <1>10 DEF RunConnectNoSetup, Run, Answer, Marked, stream, object
<1>11. CASE RunConnectNoAddress
  BY <1>11 DEF RunConnectNoAddress, Run, Answer, Marked, stream, object
<1>12. CASE RunConnect
  BY <1>12 DEF RunConnect, Run, stream, object
<1>13. CASE RunWrapFails
  BY <1>13 DEF RunWrapFails, Run, Answer, Marked, stream, object
<1>14. CASE RunWrap
  BY <1>14 DEF RunWrap, Run, stream, object
<1>15. CASE \E w \in Writes : RunWrite(w)
  <2>. PICK w \in Writes : RunWrite(w)
    BY <1>15
  <2>. w # Conn /\ Run(w)
    BY DEF RunWrite
  <2>1. fd' = "handed" => InQueue(Conn)'
    <3>. HIDE DEF InQueue, TypeOK
    <3>1. InQueue(Conn) => InQueue(Conn)'
      BY StaysQueued
    <3>2. fd' = "handed" => fd = "handed"
      BY DEF RunWrite, CloseNow
    <3>. QED
      BY <3>1, <3>2
  <2>2. CASE client = "open"
    BY <2>1, <2>2 DEF RunWrite, stream, object
  <2>3. CASE client # "open"
    BY <2>1, <2>3 DEF RunWrite, Answer, Marked, stream, object
  <2>. QED
    BY <2>2, <2>3
<1>16. CASE \E r \in Reads : RunReadNow(r)
  <2>. PICK r \in Reads : RunReadNow(r)
    BY <1>16
  <2>. r # Conn /\ Run(r)
    BY DEF RunReadNow
  <2>1. fd' = "handed" => InQueue(Conn)'
    <3>. HIDE DEF InQueue, TypeOK
    <3>1. InQueue(Conn) => InQueue(Conn)'
      BY StaysQueued
    <3>2. fd' = "handed" => fd = "handed"
      BY DEF RunReadNow, CloseNow
    <3>. QED
      BY <3>1, <3>2
  <2>2. \A p \in {Conn} \cup Writes : status'[p] = status[p]
    BY DEF RunReadNow, Answer, Marked
  <2>. QED
    BY <2>1, <2>2 DEF RunReadNow, object
<1>17. CASE \E r \in Reads : RunReadPark(r)
  <2>. PICK r \in Reads : RunReadPark(r)
    BY <1>17
  <2>. r # Conn /\ Run(r)
    BY DEF RunReadPark
  <2>1. fd' = "handed" => InQueue(Conn)'
    <3>. HIDE DEF InQueue, TypeOK
    <3>1. InQueue(Conn) => InQueue(Conn)'
      BY StaysQueued
    <3>2. fd' = "handed" => fd = "handed"
      BY DEF RunReadPark, CloseNow
    <3>. QED
      BY <3>1, <3>2
  <2>2. \A p \in {Conn} \cup Writes : status'[p] = status[p]
    BY DEF RunReadPark
  <2>. QED
    BY <2>1, <2>2 DEF RunReadPark, stream, object
<1>18. CASE \E k \in Closes : RunClose(k)
  <2>. PICK k \in Closes : RunClose(k)
    BY <1>18
  <2>. k # Conn /\ Run(k)
    BY DEF RunClose
  <2>1. fd' = "handed" => InQueue(Conn)'
    <3>. HIDE DEF InQueue, TypeOK
    <3>1. InQueue(Conn) => InQueue(Conn)'
      BY StaysQueued
    <3>2. fd' = "handed" => fd = "handed"
      BY DEF RunClose, CloseNow
    <3>. QED
      BY <3>1, <3>2
  <2>. QED
    BY <2>1 DEF RunClose, CloseNow, Marked, InFlight, stream, object
<1>19. CASE RunDtor
  BY <1>19 DEF RunDtor, Run, CloseNow, Marked, InFlight, stream
<1>20. CASE HandshakeSuccess
  BY <1>20 DEF HandshakeSuccess, Answer, Marked, stream, object
<1>21. CASE HandshakeError
  BY <1>21 DEF HandshakeError, HandshakeFails, Answer, Marked, stream, object
<1>22. CASE HandshakeTimeout
  BY <1>22 DEF HandshakeTimeout, HandshakeFails, Answer, Marked, stream, object
<1>23. CASE \E w \in Writes : WriteSuccess(w)
  BY <1>23 DEF WriteSuccess, Answer, Marked, stream, object
<1>24. CASE DataArrives
  BY <1>24 DEF DataArrives, Answer, Marked, ParkedRead, TakePendingRead, FulfillRead,
     object
<1>25. CASE TransportEOF
  BY <1>25 DEF TransportEOF, TransportDown, Marked, InFlight, ParkedRead,
     TakePendingRead, object
<1>26. CASE TransportErr
  BY <1>26 DEF TransportErr, TransportDown, Marked, InFlight, ParkedRead,
     TakePendingRead, object
<1>27. CASE WriteTimeout
  BY <1>27 DEF WriteTimeout, TransportDown, Marked, InFlight, ParkedRead,
     TakePendingRead, object
<1>28. CASE ReadTimeout
  BY <1>28 DEF ReadTimeout, Answer, Marked, ParkedRead, stream, object
<1>29. CASE UNCHANGED vars
  BY <1>29 DEF vars
<1>. QED
  BY <1>1, <1>2, <1>3, <1>4, <1>5, <1>6, <1>7, <1>8, <1>9, <1>10, <1>11, <1>12, <1>13,
     <1>14, <1>15, <1>16, <1>17, <1>18, <1>19, <1>20, <1>21, <1>22, <1>23, <1>24,
     <1>25, <1>26, <1>27, <1>28, <1>29 DEF Next, Python, RunTask, Callback

\* A parked read is woken by whatever it waits for.
LEMMA ParkedMeansStarvedStep == TypeOK /\ ParkedMeansStarved /\ [Next]_vars => ParkedMeansStarved'
<1>. SUFFICES ASSUME TypeOK, ParkedMeansStarved, [Next]_vars PROVE ParkedMeansStarved'
  OBVIOUS
<1>. USE OpsDisjoint, QueueFacts DEF TypeOK, Ops, PromiseOps, ParkedMeansStarved
<1>1. CASE Connect
  BY <1>1 DEF Connect, Submit
<1>2. CASE WrapFd
  BY <1>2 DEF WrapFd, Submit
<1>3. CASE \E w \in Writes : Write(w)
  BY <1>3 DEF Write, Submit
<1>4. CASE \E r \in Reads : Read(r)
  BY <1>4 DEF Read, Submit
<1>5. CASE \E k \in Closes : Close(k)
  BY <1>5 DEF Close, Submit
<1>6. CASE \E o \in PromiseOps : Abandon(o)
  BY <1>6 DEF Abandon, stream, object
<1>7. CASE DtorEnter
  BY <1>7 DEF DtorEnter, stream
<1>8. CASE DtorRelease
  BY <1>8 DEF DtorRelease, stream
<1>9. CASE DtorFinish
  BY <1>9 DEF DtorFinish, stream
<1>10. CASE RunConnectNoSetup
  BY <1>10 DEF RunConnectNoSetup, Run, Answer, Marked, stream, object
<1>11. CASE RunConnectNoAddress
  BY <1>11 DEF RunConnectNoAddress, Run, Answer, Marked, stream, object
<1>12. CASE RunConnect
  BY <1>12 DEF RunConnect, Run, stream, object
<1>13. CASE RunWrapFails
  BY <1>13 DEF RunWrapFails, Run, Answer, Marked, stream, object
<1>14. CASE RunWrap
  BY <1>14 DEF RunWrap, Run, stream, object
<1>15. CASE \E w \in Writes : RunWrite(w)
  BY <1>15 DEF RunWrite, Run, Answer, Marked, stream, object
<1>16. CASE \E r \in Reads : RunReadNow(r)
  BY <1>16 DEF RunReadNow, Run, Answer, Marked, FulfillRead, object
<1>17. CASE \E r \in Reads : RunReadPark(r)
  BY <1>17 DEF RunReadPark, Run, stream, object
<1>18. CASE \E k \in Closes : RunClose(k)
  BY <1>18 DEF RunClose, Run, CloseNow, Marked, InFlight, stream, object
<1>19. CASE RunDtor
  BY <1>19 DEF RunDtor, Run, CloseNow, Marked, InFlight, stream
<1>20. CASE HandshakeSuccess
  BY <1>20 DEF HandshakeSuccess, Answer, Marked, stream, object
<1>21. CASE HandshakeError
  BY <1>21 DEF HandshakeError, HandshakeFails, Answer, Marked, stream, object
<1>22. CASE HandshakeTimeout
  BY <1>22 DEF HandshakeTimeout, HandshakeFails, Answer, Marked, stream, object
<1>23. CASE \E w \in Writes : WriteSuccess(w)
  BY <1>23 DEF WriteSuccess, Answer, Marked, stream, object
<1>24. CASE DataArrives
  BY <1>24 DEF DataArrives, Answer, Marked, ParkedRead, TakePendingRead, FulfillRead,
     object
<1>25. CASE TransportEOF
  BY <1>25 DEF TransportEOF, TransportDown, Marked, InFlight, ParkedRead,
     TakePendingRead, object
<1>26. CASE TransportErr
  BY <1>26 DEF TransportErr, TransportDown, Marked, InFlight, ParkedRead,
     TakePendingRead, object
<1>27. CASE WriteTimeout
  BY <1>27 DEF WriteTimeout, TransportDown, Marked, InFlight, ParkedRead,
     TakePendingRead, object
<1>28. CASE ReadTimeout
  BY <1>28 DEF ReadTimeout, Answer, Marked, ParkedRead, stream, object
<1>29. CASE UNCHANGED vars
  BY <1>29 DEF vars
<1>. QED
  BY <1>1, <1>2, <1>3, <1>4, <1>5, <1>6, <1>7, <1>8, <1>9, <1>10, <1>11, <1>12, <1>13,
     <1>14, <1>15, <1>16, <1>17, <1>18, <1>19, <1>20, <1>21, <1>22, <1>23, <1>24,
     <1>25, <1>26, <1>27, <1>28, <1>29 DEF Next, Python, RunTask, Callback

\* The end is told last.
LEMMA EndInvStep == TypeOK /\ QueueInv /\ ParkInv /\ ConnInv /\ ParkedMeansStarved /\ EndInv /\ [Next]_vars => EndInv'
<1>. SUFFICES ASSUME TypeOK, QueueInv, ParkInv, ConnInv, ParkedMeansStarved, EndInv, [Next]_vars PROVE EndInv'
  OBVIOUS
<1>. USE OpsDisjoint, QueueFacts DEF TypeOK, Ops, PromiseOps, QueueInv, ParkInv,
   ConnInv, ParkedMeansStarved, EndInv
<1>1. CASE Connect
  BY <1>1 DEF Connect, Submit
<1>2. CASE WrapFd
  BY <1>2 DEF WrapFd, Submit
<1>3. CASE \E w \in Writes : Write(w)
  BY <1>3 DEF Write, Submit
<1>4. CASE \E r \in Reads : Read(r)
  BY <1>4 DEF Read, Submit
<1>5. CASE \E k \in Closes : Close(k)
  BY <1>5 DEF Close, Submit
<1>6. CASE \E o \in PromiseOps : Abandon(o)
  BY <1>6 DEF Abandon, stream, object
<1>7. CASE DtorEnter
  BY <1>7 DEF DtorEnter, stream
<1>8. CASE DtorRelease
  BY <1>8 DEF DtorRelease, stream
<1>9. CASE DtorFinish
  BY <1>9 DEF DtorFinish, stream
<1>10. CASE RunConnectNoSetup
  BY <1>10 DEF RunConnectNoSetup, Run, Answer, Marked, stream, object
<1>11. CASE RunConnectNoAddress
  BY <1>11 DEF RunConnectNoAddress, Run, Answer, Marked, stream, object
<1>12. CASE RunConnect
  BY <1>12 DEF RunConnect, Run, stream, object
<1>13. CASE RunWrapFails
  BY <1>13 DEF RunWrapFails, Run, Answer, Marked, stream, object
<1>14. CASE RunWrap
  BY <1>14 DEF RunWrap, Run, stream, object
<1>15. CASE \E w \in Writes : RunWrite(w)
  BY <1>15 DEF RunWrite, Run, Answer, Marked, stream, object
<1>16. CASE \E r \in Reads : RunReadNow(r)
  BY <1>16 DEF RunReadNow, Run, Answer, Marked, FulfillRead, object
<1>17. CASE \E r \in Reads : RunReadPark(r)
  BY <1>17 DEF RunReadPark, Run, stream, object
<1>18. CASE \E k \in Closes : RunClose(k)
  BY <1>18 DEF RunClose, Run, CloseNow, Marked, InFlight, stream, object
<1>19. CASE RunDtor
  BY <1>19 DEF RunDtor, Run, CloseNow, Marked, InFlight, stream
<1>20. CASE HandshakeSuccess
  BY <1>20 DEF HandshakeSuccess, Answer, Marked, stream, object
<1>21. CASE HandshakeError
  BY <1>21 DEF HandshakeError, HandshakeFails, Answer, Marked, stream, object
<1>22. CASE HandshakeTimeout
  BY <1>22 DEF HandshakeTimeout, HandshakeFails, Answer, Marked, stream, object
<1>23. CASE \E w \in Writes : WriteSuccess(w)
  BY <1>23 DEF WriteSuccess, Answer, Marked, stream, object
<1>24. CASE DataArrives
  BY <1>24 DEF DataArrives, Answer, Marked, ParkedRead, TakePendingRead, FulfillRead,
     object
<1>25. CASE TransportEOF
  BY <1>25 DEF TransportEOF, TransportDown, Marked, InFlight, ParkedRead,
     TakePendingRead, object
<1>26. CASE TransportErr
  BY <1>26 DEF TransportErr, TransportDown, Marked, InFlight, ParkedRead,
     TakePendingRead, object
<1>27. CASE WriteTimeout
  BY <1>27 DEF WriteTimeout, TransportDown, Marked, InFlight, ParkedRead,
     TakePendingRead, object
<1>28. CASE ReadTimeout
  BY <1>28 DEF ReadTimeout, Answer, Marked, ParkedRead, stream, object
<1>29. CASE UNCHANGED vars
  BY <1>29 DEF vars
<1>. QED
  BY <1>1, <1>2, <1>3, <1>4, <1>5, <1>6, <1>7, <1>8, <1>9, <1>10, <1>11, <1>12, <1>13,
     <1>14, <1>15, <1>16, <1>17, <1>18, <1>19, <1>20, <1>21, <1>22, <1>23, <1>24,
     <1>25, <1>26, <1>27, <1>28, <1>29 DEF Next, Python, RunTask, Callback

\* Nobody begins to wait on a dying object.
LEMMA GoneInvStep == TypeOK /\ QueueInv /\ DtorInv /\ GoneInv /\ [Next]_vars => GoneInv'
<1>. SUFFICES ASSUME TypeOK, QueueInv, DtorInv, GoneInv, [Next]_vars PROVE GoneInv'
  OBVIOUS
<1>. USE OpsDisjoint, QueueFacts DEF TypeOK, Ops, PromiseOps, QueueInv, GoneInv,
   Outstanding
<1>1. CASE Connect
  BY <1>1 DEF Connect, Submit
<1>2. CASE WrapFd
  BY <1>2 DEF WrapFd, Submit
<1>3. CASE \E w \in Writes : Write(w)
  BY <1>3 DEF Write, Submit
<1>4. CASE \E r \in Reads : Read(r)
  BY <1>4 DEF Read, Submit
<1>5. CASE \E k \in Closes : Close(k)
  BY <1>5 DEF Close, Submit
<1>6. CASE \E o \in PromiseOps : Abandon(o)
  BY <1>6 DEF Abandon, stream, object
<1>7. CASE DtorEnter
  BY <1>7 DEF DtorEnter, stream
<1>8. CASE DtorRelease
  BY <1>8 DEF DtorRelease, stream
<1>9. CASE DtorFinish
  BY <1>9 DEF DtorFinish, stream
<1>10. CASE RunConnectNoSetup
  BY <1>10 DEF RunConnectNoSetup, Run, Answer, Marked, stream, object
<1>11. CASE RunConnectNoAddress
  BY <1>11 DEF RunConnectNoAddress, Run, Answer, Marked, stream, object
<1>12. CASE RunConnect
  BY <1>12 DEF RunConnect, Run, stream, object
<1>13. CASE RunWrapFails
  BY <1>13 DEF RunWrapFails, Run, Answer, Marked, stream, object
<1>14. CASE RunWrap
  BY <1>14 DEF RunWrap, Run, stream, object
<1>15. CASE \E w \in Writes : RunWrite(w)
  <2>. PICK w \in Writes : RunWrite(w)
    BY <1>15
  <2>1. status[w] = "queued"
    BY DEF RunWrite, Run
  <2>2. \A p \in Ops : p # w => status'[p] = status[p]
    BY DEF RunWrite, Answer, Marked
  <2>. QED
    BY <2>1, <2>2 DEF RunWrite, object
<1>16. CASE \E r \in Reads : RunReadNow(r)
  BY <1>16 DEF RunReadNow, Run, Answer, Marked, FulfillRead, object
<1>17. CASE \E r \in Reads : RunReadPark(r)
  BY <1>17 DEF RunReadPark, Run, stream, object
<1>18. CASE \E k \in Closes : RunClose(k)
  BY <1>18 DEF RunClose, Run, CloseNow, Marked, InFlight, stream, object
<1>19. CASE RunDtor
  <2>1. \A p \in Ops : status'[p] \in Outstanding => status[p] \in Outstanding
    BY <1>19 DEF RunDtor, CloseNow, Marked
  <2>2. life # "alive" /\ abandoned' = abandoned
    BY <1>19 DEF RunDtor, Run, DtorInv
  <2>. QED
    BY <2>1, <2>2
<1>20. CASE HandshakeSuccess
  BY <1>20 DEF HandshakeSuccess, Answer, Marked, stream, object
<1>21. CASE HandshakeError
  BY <1>21 DEF HandshakeError, HandshakeFails, Answer, Marked, stream, object
<1>22. CASE HandshakeTimeout
  BY <1>22 DEF HandshakeTimeout, HandshakeFails, Answer, Marked, stream, object
<1>23. CASE \E w \in Writes : WriteSuccess(w)
  BY <1>23 DEF WriteSuccess, Answer, Marked, stream, object
<1>24. CASE DataArrives
  BY <1>24 DEF DataArrives, Answer, Marked, ParkedRead, TakePendingRead, FulfillRead,
     object
<1>25. CASE TransportEOF
  BY <1>25 DEF TransportEOF, TransportDown, Marked, InFlight, ParkedRead,
     TakePendingRead, object
<1>26. CASE TransportErr
  BY <1>26 DEF TransportErr, TransportDown, Marked, InFlight, ParkedRead,
     TakePendingRead, object
<1>27. CASE WriteTimeout
  BY <1>27 DEF WriteTimeout, TransportDown, Marked, InFlight, ParkedRead,
     TakePendingRead, object
<1>28. CASE ReadTimeout
  BY <1>28 DEF ReadTimeout, Answer, Marked, ParkedRead, stream, object
<1>29. CASE UNCHANGED vars
  BY <1>29 DEF vars
<1>. QED
  BY <1>1, <1>2, <1>3, <1>4, <1>5, <1>6, <1>7, <1>8, <1>9, <1>10, <1>11, <1>12, <1>13,
     <1>14, <1>15, <1>16, <1>17, <1>18, <1>19, <1>20, <1>21, <1>22, <1>23, <1>24,
     <1>25, <1>26, <1>27, <1>28, <1>29 DEF Next, Python, RunTask, Callback

\* No step loses, repeats or reorders a chunk.
LEMMA StreamIntactStep == TypeOK /\ StreamIntact /\ [Next]_vars => StreamIntact'
<1>. SUFFICES ASSUME TypeOK, StreamIntact, [Next]_vars PROVE StreamIntact'
  OBVIOUS
<1>1. CASE Connect
  BY <1>1 DEF Connect, Submit, StreamIntact
<1>2. CASE WrapFd
  BY <1>2 DEF WrapFd, Submit, StreamIntact
<1>3. CASE \E w \in Writes : Write(w)
  BY <1>3 DEF Write, Submit, StreamIntact
<1>4. CASE \E r \in Reads : Read(r)
  BY <1>4 DEF Read, Submit, StreamIntact
<1>5. CASE \E k \in Closes : Close(k)
  BY <1>5 DEF Close, Submit, StreamIntact
<1>6. CASE \E o \in PromiseOps : Abandon(o)
  BY <1>6 DEF Abandon, stream, StreamIntact
<1>7. CASE DtorEnter
  BY <1>7 DEF DtorEnter, stream, StreamIntact
<1>8. CASE DtorRelease
  BY <1>8 DEF DtorRelease, stream, StreamIntact
<1>9. CASE DtorFinish
  BY <1>9 DEF DtorFinish, stream, StreamIntact
<1>10. CASE RunConnectNoSetup
  BY <1>10 DEF RunConnectNoSetup, stream, StreamIntact
<1>11. CASE RunConnectNoAddress
  BY <1>11 DEF RunConnectNoAddress, stream, StreamIntact
<1>12. CASE RunConnect
  BY <1>12 DEF RunConnect, stream, StreamIntact
<1>13. CASE RunWrapFails
  BY <1>13 DEF RunWrapFails, stream, StreamIntact
<1>14. CASE RunWrap
  BY <1>14 DEF RunWrap, stream, StreamIntact
<1>15. CASE \E w \in Writes : RunWrite(w)
  BY <1>15 DEF RunWrite, stream, StreamIntact
<1>16. CASE \E r \in Reads : RunReadNow(r)
  <2>. PICK r \in Reads : RunReadNow(r)
    BY <1>16
  <2>1. CASE buffer # <<>>
    <3>1. delivered' = delivered \o buffer /\ buffer' = <<>> /\ received' = received
      BY <2>1 DEF RunReadNow, FulfillRead
    <3>2. (delivered \o buffer) \o <<>> = delivered \o buffer
      BY ConcatNil, ConcatFacts DEF TypeOK
    <3>. QED
      BY <3>1, <3>2, Zenon DEF StreamIntact
  <2>2. CASE buffer = <<>>
    BY <2>2 DEF RunReadNow, StreamIntact
  <2>. QED
    BY <2>1, <2>2
<1>17. CASE \E r \in Reads : RunReadPark(r)
  BY <1>17 DEF RunReadPark, stream, StreamIntact
<1>18. CASE \E k \in Closes : RunClose(k)
  BY <1>18 DEF RunClose, stream, StreamIntact
<1>19. CASE RunDtor
  BY <1>19 DEF RunDtor, stream, StreamIntact
<1>20. CASE HandshakeSuccess
  BY <1>20 DEF HandshakeSuccess, stream, StreamIntact
<1>21. CASE HandshakeError
  BY <1>21 DEF HandshakeError, HandshakeFails, stream, StreamIntact
<1>22. CASE HandshakeTimeout
  BY <1>22 DEF HandshakeTimeout, HandshakeFails, stream, StreamIntact
<1>23. CASE \E w \in Writes : WriteSuccess(w)
  BY <1>23 DEF WriteSuccess, stream, StreamIntact
<1>24. CASE DataArrives
  <2>1. delivered \o Append(buffer, received + 1) = [i \in 1 .. received + 1 |-> i]
    <3>1. delivered \o Append(buffer, received + 1) = Append(delivered \o buffer, received + 1)
      BY ConcatAppend DEF TypeOK
    <3>2. Append([i \in 1 .. received |-> i], received + 1) = [i \in 1 .. received + 1 |-> i]
      BY CountUpNext DEF TypeOK
    <3>. QED
      BY <3>1, <3>2, Zenon DEF StreamIntact
  <2>2. received' = received + 1
    BY <1>24 DEF DataArrives
  <2>3. CASE ParkedRead = {}
    <3>1. delivered' = delivered /\ buffer' = Append(buffer, received + 1)
      BY <1>24, <2>3 DEF DataArrives
    <3>. QED
      BY <2>1, <2>2, <3>1, Zenon DEF StreamIntact
  <2>4. CASE ParkedRead # {}
    <3>1. delivered' = delivered \o Append(buffer, received + 1) /\ buffer' = <<>>
      BY <1>24, <2>4 DEF DataArrives, FulfillRead
    <3>2. (delivered \o Append(buffer, received + 1)) \o <<>>
            = delivered \o Append(buffer, received + 1)
      <4>1. Append(buffer, received + 1) \in Seq(Nat)
        BY AppendFacts DEF TypeOK
      <4>2. delivered \o Append(buffer, received + 1) \in Seq(Nat)
        BY <4>1, ConcatFacts DEF TypeOK
      <4>. QED
        BY <4>2, ConcatNil
    <3>. QED
      BY <2>1, <2>2, <3>1, <3>2, Zenon DEF StreamIntact
  <2>. QED
    BY <2>3, <2>4
<1>25. CASE TransportEOF
  BY <1>25 DEF TransportEOF, TransportDown, StreamIntact
<1>26. CASE TransportErr
  BY <1>26 DEF TransportErr, TransportDown, StreamIntact
<1>27. CASE WriteTimeout
  BY <1>27 DEF WriteTimeout, TransportDown, StreamIntact
<1>28. CASE ReadTimeout
  BY <1>28 DEF ReadTimeout, stream, StreamIntact
<1>29. CASE UNCHANGED vars
  BY <1>29 DEF vars, StreamIntact
<1>. QED
  BY <1>1, <1>2, <1>3, <1>4, <1>5, <1>6, <1>7, <1>8, <1>9, <1>10, <1>11, <1>12, <1>13,
     <1>14, <1>15, <1>16, <1>17, <1>18, <1>19, <1>20, <1>21, <1>22, <1>23, <1>24,
     <1>25, <1>26, <1>27, <1>28, <1>29 DEF Next, Python, RunTask, Callback

\* A read is submitted only when the reads before it have been answered or given up.
LEMMA ReadOrderStep == TypeOK /\ QueueInv /\ ParkInv /\ ReadOrder /\ [Next]_vars => ReadOrder'
<1>. SUFFICES ASSUME TypeOK, QueueInv, ParkInv, ReadOrder, [Next]_vars PROVE ReadOrder'
  OBVIOUS
<1>. USE OpsDisjoint, QueueFacts DEF TypeOK, Ops, PromiseOps, QueueInv, ParkInv,
   ReadOrder, Idle, Outstanding
<1>1. CASE Connect
  <2>1. queue' = Append(queue, Conn) /\ Conn \notin Reads /\ Conn \in Ops
    BY <1>1 DEF Connect, Submit
  <2>2. pendingRead' = pendingRead /\ abandoned' = abandoned
    BY <1>1 DEF Connect, Submit
  <2>. QED
    BY <2>1, <2>2
<1>2. CASE WrapFd
  BY <1>2 DEF WrapFd, Submit
<1>3. CASE \E w \in Writes : Write(w)
  BY <1>3 DEF Write, Submit
<1>4. CASE \E r \in Reads : Read(r)
  BY <1>4 DEF Read, Submit
<1>5. CASE \E k \in Closes : Close(k)
  BY <1>5 DEF Close, Submit
<1>6. CASE \E o \in PromiseOps : Abandon(o)
  BY <1>6 DEF Abandon, stream, object
<1>7. CASE DtorEnter
  BY <1>7 DEF DtorEnter, stream
<1>8. CASE DtorRelease
  BY <1>8 DEF DtorRelease, stream
<1>9. CASE DtorFinish
  BY <1>9 DEF DtorFinish, stream
<1>10. CASE RunConnectNoSetup
  BY <1>10 DEF RunConnectNoSetup, Run, Answer, Marked, stream, object
<1>11. CASE RunConnectNoAddress
  BY <1>11 DEF RunConnectNoAddress, Run, Answer, Marked, stream, object
<1>12. CASE RunConnect
  BY <1>12 DEF RunConnect, Run, stream, object
<1>13. CASE RunWrapFails
  BY <1>13 DEF RunWrapFails, Run, Answer, Marked, stream, object
<1>14. CASE RunWrap
  BY <1>14 DEF RunWrap, Run, stream, object
<1>15. CASE \E w \in Writes : RunWrite(w)
  BY <1>15 DEF RunWrite, Run, Answer, Marked, stream, object
<1>16. CASE \E r \in Reads : RunReadNow(r)
  BY <1>16 DEF RunReadNow, Run, Answer, Marked, FulfillRead, object
<1>17. CASE \E r \in Reads : RunReadPark(r)
  BY <1>17 DEF RunReadPark, Run, stream, object
<1>18. CASE \E k \in Closes : RunClose(k)
  BY <1>18 DEF RunClose, Run, CloseNow, Marked, InFlight, stream, object
<1>19. CASE RunDtor
  BY <1>19 DEF RunDtor, Run, CloseNow, Marked, InFlight, stream
<1>20. CASE HandshakeSuccess
  BY <1>20 DEF HandshakeSuccess, Answer, Marked, stream, object
<1>21. CASE HandshakeError
  BY <1>21 DEF HandshakeError, HandshakeFails, Answer, Marked, stream, object
<1>22. CASE HandshakeTimeout
  BY <1>22 DEF HandshakeTimeout, HandshakeFails, Answer, Marked, stream, object
<1>23. CASE \E w \in Writes : WriteSuccess(w)
  BY <1>23 DEF WriteSuccess, Answer, Marked, stream, object
<1>24. CASE DataArrives
  BY <1>24 DEF DataArrives, Answer, Marked, ParkedRead, TakePendingRead, FulfillRead,
     object
<1>25. CASE TransportEOF
  BY <1>25 DEF TransportEOF, TransportDown, Marked, InFlight, ParkedRead,
     TakePendingRead, object
<1>26. CASE TransportErr
  BY <1>26 DEF TransportErr, TransportDown, Marked, InFlight, ParkedRead,
     TakePendingRead, object
<1>27. CASE WriteTimeout
  BY <1>27 DEF WriteTimeout, TransportDown, Marked, InFlight, ParkedRead,
     TakePendingRead, object
<1>28. CASE ReadTimeout
  BY <1>28 DEF ReadTimeout, Answer, Marked, ParkedRead, stream, object
<1>29. CASE UNCHANGED vars
  BY <1>29 DEF vars
<1>. QED
  BY <1>1, <1>2, <1>3, <1>4, <1>5, <1>6, <1>7, <1>8, <1>9, <1>10, <1>11, <1>12, <1>13,
     <1>14, <1>15, <1>16, <1>17, <1>18, <1>19, <1>20, <1>21, <1>22, <1>23, <1>24,
     <1>25, <1>26, <1>27, <1>28, <1>29 DEF Next, Python, RunTask, Callback

\* A promise is thrown away only when its caller is gone.
LEMMA NoLostPromiseStep == TypeOK /\ QueueInv /\ ParkInv /\ GoneInv /\ ReadOrder /\ NoLostPromise /\ [Next]_vars => NoLostPromise'
<1>. SUFFICES ASSUME TypeOK, QueueInv, ParkInv, GoneInv, ReadOrder, NoLostPromise, [Next]_vars PROVE NoLostPromise'
  OBVIOUS
<1>. USE OpsDisjoint, QueueFacts DEF TypeOK, Ops, PromiseOps, QueueInv, ParkInv,
   GoneInv, ReadOrder, NoLostPromise, Outstanding
<1>1. CASE Connect
  BY <1>1 DEF Connect, Submit
<1>2. CASE WrapFd
  BY <1>2 DEF WrapFd, Submit
<1>3. CASE \E w \in Writes : Write(w)
  BY <1>3 DEF Write, Submit
<1>4. CASE \E r \in Reads : Read(r)
  BY <1>4 DEF Read, Submit
<1>5. CASE \E k \in Closes : Close(k)
  BY <1>5 DEF Close, Submit
<1>6. CASE \E o \in PromiseOps : Abandon(o)
  BY <1>6 DEF Abandon, stream, object
<1>7. CASE DtorEnter
  BY <1>7 DEF DtorEnter, stream
<1>8. CASE DtorRelease
  BY <1>8 DEF DtorRelease, stream
<1>9. CASE DtorFinish
  BY <1>9 DEF DtorFinish, stream
<1>10. CASE RunConnectNoSetup
  BY <1>10 DEF RunConnectNoSetup, Run, Answer, Marked, stream, object
<1>11. CASE RunConnectNoAddress
  BY <1>11 DEF RunConnectNoAddress, Run, Answer, Marked, stream, object
<1>12. CASE RunConnect
  BY <1>12 DEF RunConnect, Run, stream, object
<1>13. CASE RunWrapFails
  BY <1>13 DEF RunWrapFails, Run, Answer, Marked, stream, object
<1>14. CASE RunWrap
  BY <1>14 DEF RunWrap, Run, stream, object
<1>15. CASE \E w \in Writes : RunWrite(w)
  BY <1>15 DEF RunWrite, Run, Answer, Marked, stream, object
<1>16. CASE \E r \in Reads : RunReadNow(r)
  BY <1>16 DEF RunReadNow, Run, Answer, Marked, FulfillRead, object
<1>17. CASE \E r \in Reads : RunReadPark(r)
  BY <1>17 DEF RunReadPark, Run, stream, object
<1>18. CASE \E k \in Closes : RunClose(k)
  BY <1>18 DEF RunClose, Run, CloseNow, Marked, InFlight, stream, object
<1>19. CASE RunDtor
  BY <1>19 DEF RunDtor, Run, CloseNow, Marked, InFlight, stream
<1>20. CASE HandshakeSuccess
  BY <1>20 DEF HandshakeSuccess, Answer, Marked, stream, object
<1>21. CASE HandshakeError
  BY <1>21 DEF HandshakeError, HandshakeFails, Answer, Marked, stream, object
<1>22. CASE HandshakeTimeout
  BY <1>22 DEF HandshakeTimeout, HandshakeFails, Answer, Marked, stream, object
<1>23. CASE \E w \in Writes : WriteSuccess(w)
  BY <1>23 DEF WriteSuccess, Answer, Marked, stream, object
<1>24. CASE DataArrives
  BY <1>24 DEF DataArrives, Answer, Marked, ParkedRead, TakePendingRead, FulfillRead,
     object
<1>25. CASE TransportEOF
  BY <1>25 DEF TransportEOF, TransportDown, Marked, InFlight, ParkedRead,
     TakePendingRead, object
<1>26. CASE TransportErr
  BY <1>26 DEF TransportErr, TransportDown, Marked, InFlight, ParkedRead,
     TakePendingRead, object
<1>27. CASE WriteTimeout
  BY <1>27 DEF WriteTimeout, TransportDown, Marked, InFlight, ParkedRead,
     TakePendingRead, object
<1>28. CASE ReadTimeout
  BY <1>28 DEF ReadTimeout, Answer, Marked, ParkedRead, stream, object
<1>29. CASE UNCHANGED vars
  BY <1>29 DEF vars
<1>. QED
  BY <1>1, <1>2, <1>3, <1>4, <1>5, <1>6, <1>7, <1>8, <1>9, <1>10, <1>11, <1>12, <1>13,
     <1>14, <1>15, <1>16, <1>17, <1>18, <1>19, <1>20, <1>21, <1>22, <1>23, <1>24,
     <1>25, <1>26, <1>27, <1>28, <1>29 DEF Next, Python, RunTask, Callback

\* A deadline belongs to the operation that is under way.
LEMMA DeadlineInvStep == TypeOK /\ QueueInv /\ TornInv /\ ParkInv /\ ConnInv /\ DeadlineInv /\ [Next]_vars => DeadlineInv'
<1>. SUFFICES ASSUME TypeOK, QueueInv, TornInv, ParkInv, ConnInv, DeadlineInv, [Next]_vars PROVE DeadlineInv'
  OBVIOUS
<1>. USE OpsDisjoint, QueueFacts DEF TypeOK, Ops, PromiseOps, QueueInv, ParkInv,
   ConnInv, DeadlineInv, Idle, Outstanding
<1>1. CASE Connect
  BY <1>1 DEF Connect, Submit
<1>2. CASE WrapFd
  BY <1>2 DEF WrapFd, Submit
<1>3. CASE \E w \in Writes : Write(w)
  BY <1>3 DEF Write, Submit
<1>4. CASE \E r \in Reads : Read(r)
  <2>. PICK r \in Reads : Read(r)
    BY <1>4
  <2>1. queue' = Append(queue, r) /\ status' = [status EXCEPT ![r] = "queued"]
    BY DEF Read, Submit
  <2>2. UNCHANGED <<pendingRead, timer, sendTimeout>>
    BY DEF Read, Submit
  <2>3. ~Reissue => pendingRead = NoOp /\ \A i \in 1 .. Len(queue) : queue[i] \notin Reads
    BY DEF Read
  <2>4. ASSUME NEW i \in 1 .. Len(queue')
        PROVE  \/ i \in 1 .. Len(queue) /\ queue'[i] = queue[i]
               \/ i = Len(queue) + 1 /\ queue'[i] = r
    BY <2>1
  <2>5. \A w \in Writes : status'[w] = status[w]
    BY <2>1
  <2>6. \A o \in PromiseOps : status'[o] = "timedout" => status[o] = "timedout"
    BY <2>1
  <2>7. r \notin Writes
    OBVIOUS
  <2>. HIDE OpsDisjoint, QueueFacts DEF TypeOK, Ops, PromiseOps, QueueInv, ParkInv,
         ConnInv, Idle, Outstanding
  <2>. QED
    BY <2>2, <2>3, <2>4, <2>5, <2>6, <2>7
<1>5. CASE \E k \in Closes : Close(k)
  <2>. PICK k \in Closes : Close(k)
    BY <1>5
  <2>1. queue' = Append(queue, k) /\ status' = [status EXCEPT ![k] = "queued"]
    BY DEF Close, Submit
  <2>2. UNCHANGED <<pendingRead, timer, sendTimeout>>
    BY DEF Close, Submit
  <2>3. ASSUME NEW i \in 1 .. Len(queue')
        PROVE  \/ i \in 1 .. Len(queue) /\ queue'[i] = queue[i]
               \/ i = Len(queue) + 1 /\ queue'[i] = k
    BY <2>1
  <2>4. \A o \in PromiseOps : status'[o] = status[o]
    BY <2>1
  <2>5. k \notin Reads /\ k \notin Writes /\ Writes \subseteq PromiseOps
    OBVIOUS
  <2>. HIDE OpsDisjoint, QueueFacts DEF TypeOK, Ops, PromiseOps, QueueInv, ParkInv,
         ConnInv, Idle, Outstanding
  <2>. QED
    BY <2>2, <2>3, <2>4, <2>5
<1>6. CASE \E o \in PromiseOps : Abandon(o)
  BY <1>6 DEF Abandon, stream, object
<1>7. CASE DtorEnter
  BY <1>7 DEF DtorEnter, stream
<1>8. CASE DtorRelease
  BY <1>8 DEF DtorRelease, stream
<1>9. CASE DtorFinish
  <2>1. ~timer' /\ \A p \in {Conn} \cup Writes : status'[p] = status[p]
    BY <1>9 DEF DtorFinish, TornInv
  <2>2. \A p \in Ops : status'[p] = "timedout" => status[p] = "timedout"
    BY <1>9 DEF DtorFinish
  <2>. QED
    BY <1>9, <2>1, <2>2 DEF DtorFinish
<1>10. CASE RunConnectNoSetup
  BY <1>10 DEF RunConnectNoSetup, Run, Answer, Marked, stream, object
<1>11. CASE RunConnectNoAddress
  BY <1>11 DEF RunConnectNoAddress, Run, Answer, Marked, stream, object
<1>12. CASE RunConnect
  BY <1>12 DEF RunConnect, Run, stream, object
<1>13. CASE RunWrapFails
  BY <1>13 DEF RunWrapFails, Run, Answer, Marked, stream, object
<1>14. CASE RunWrap
  BY <1>14 DEF RunWrap, Run, stream, object
<1>15. CASE \E w \in Writes : RunWrite(w)
  BY <1>15 DEF RunWrite, Run, Answer, Marked, stream, object
<1>16. CASE \E r \in Reads : RunReadNow(r)
  BY <1>16 DEF RunReadNow, Run, Answer, Marked, FulfillRead, object
<1>17. CASE \E r \in Reads : RunReadPark(r)
  <2>. PICK r \in Reads : RunReadPark(r)
    BY <1>17
  <2>. SUFFICES ASSUME ~Reissue PROVE DeadlineInv'
    OBVIOUS
  <2>1. queue # <<>> /\ queue[1] = r /\ queue' = Tail(queue)
    BY DEF RunReadPark, Run
  <2>2. pendingRead = NoOp
    BY <2>1
  <2>3. ~timer
    BY <2>2, ParamTypes
  <2>4. timer' => r \in Timed
    BY <2>3 DEF RunReadPark
  <2>5. \A i \in 1 .. Len(queue') : queue'[i] \notin Reads
    BY <2>1
  <2>6. \A p \in Ops : p # r => status'[p] = status[p]
    BY <2>2 DEF RunReadPark
  <2>7. status'[r] = "parked" /\ pendingRead' = r /\ sendTimeout' = sendTimeout
    BY DEF RunReadPark
  <2>8. \A w \in Writes : status'[w] = status[w]
    <3>1. \A w \in Writes : w \in Ops /\ w # r
      OBVIOUS
    <3>. QED
      BY <2>6, <3>1
  <2>9. \A i \in 1 .. Len(queue') : queue'[i] \in Writes => \A w \in Writes : status'[w] # "inflight"
    BY <2>1, <2>8
  <2>10. \A i, j \in 1 .. Len(queue') : queue'[i] \in Writes /\ queue'[j] \in Writes => i = j
    <3>1. Len(queue') = Len(queue) - 1 /\ \A i \in 1 .. Len(queue') : queue'[i] = queue[i + 1]
      BY <2>1
    <3>2. \A i, j \in 1 .. Len(queue) : queue[i] \in Writes /\ queue[j] \in Writes => i = j
      OBVIOUS
    <3>. SUFFICES ASSUME NEW i \in 1 .. Len(queue'), NEW j \in 1 .. Len(queue'),
                         queue'[i] \in Writes, queue'[j] \in Writes
                  PROVE  i = j
      OBVIOUS
    <3>3. i + 1 \in 1 .. Len(queue) /\ j + 1 \in 1 .. Len(queue)
      BY <3>1
    <3>4. queue[i + 1] \in Writes /\ queue[j + 1] \in Writes
      BY <3>1
    <3>. QED
      BY <3>2, <3>3, <3>4
  <2>11. \A p \in PromiseOps : status'[p] = "timedout" => p \in Timed
    BY <2>6, <2>7
  <2>. QED
    BY <2>4, <2>5, <2>7, <2>8, <2>9, <2>10, <2>11
<1>18. CASE \E k \in Closes : RunClose(k)
  BY <1>18 DEF RunClose, Run, CloseNow, Marked, InFlight, stream, object
<1>19. CASE RunDtor
  BY <1>19 DEF RunDtor, Run, CloseNow, Marked, InFlight, stream
<1>20. CASE HandshakeSuccess
  BY <1>20 DEF HandshakeSuccess, Answer, Marked, stream, object
<1>21. CASE HandshakeError
  BY <1>21 DEF HandshakeError, HandshakeFails, Answer, Marked, stream, object
<1>22. CASE HandshakeTimeout
  BY <1>22 DEF HandshakeTimeout, HandshakeFails, Answer, Marked, stream, object
<1>23. CASE \E w \in Writes : WriteSuccess(w)
  BY <1>23 DEF WriteSuccess, Answer, Marked, stream, object
<1>24. CASE DataArrives
  BY <1>24 DEF DataArrives, Answer, Marked, ParkedRead, TakePendingRead, FulfillRead,
     object
<1>25. CASE TransportEOF
  BY <1>25 DEF TransportEOF, TransportDown, Marked, InFlight, ParkedRead,
     TakePendingRead, object
<1>26. CASE TransportErr
  BY <1>26 DEF TransportErr, TransportDown, Marked, InFlight, ParkedRead,
     TakePendingRead, object
<1>27. CASE WriteTimeout
  BY <1>27 DEF WriteTimeout, TransportDown, Marked, InFlight, ParkedRead,
     TakePendingRead, object
<1>28. CASE ReadTimeout
  BY <1>28 DEF ReadTimeout, Answer, Marked, ParkedRead, stream, object
<1>29. CASE UNCHANGED vars
  BY <1>29 DEF vars
<1>. QED
  BY <1>1, <1>2, <1>3, <1>4, <1>5, <1>6, <1>7, <1>8, <1>9, <1>10, <1>11, <1>12, <1>13,
     <1>14, <1>15, <1>16, <1>17, <1>18, <1>19, <1>20, <1>21, <1>22, <1>23, <1>24,
     <1>25, <1>26, <1>27, <1>28, <1>29 DEF Next, Python, RunTask, Callback

\* No step changes the outcome of an operation that has one.
LEMMA AnswerStep ==
  ASSUME TypeOK, QueueInv, ParkInv, ConnInv, [Next]_vars,
         NEW p \in Ops, status[p] \in Settled \cup {"dropped", "overwritten"}
  PROVE  status'[p] = status[p]
<1>. USE OpsDisjoint, QueueFacts DEF TypeOK, Ops, PromiseOps, QueueInv, ParkInv,
         ConnInv, Settled
<1>1. CASE Connect
  BY <1>1 DEF Connect, Submit
<1>2. CASE WrapFd
  BY <1>2 DEF WrapFd, Submit
<1>3. CASE \E w \in Writes : Write(w)
  BY <1>3 DEF Write, Submit
<1>4. CASE \E r \in Reads : Read(r)
  BY <1>4 DEF Read, Submit
<1>5. CASE \E k \in Closes : Close(k)
  BY <1>5 DEF Close, Submit
<1>6. CASE \E o \in PromiseOps : Abandon(o)
  BY <1>6 DEF Abandon, stream, object
<1>7. CASE DtorEnter
  BY <1>7 DEF DtorEnter, stream
<1>8. CASE DtorRelease
  BY <1>8 DEF DtorRelease, stream
<1>9. CASE DtorFinish
  BY <1>9 DEF DtorFinish, stream
<1>10. CASE RunConnectNoSetup
  BY <1>10 DEF RunConnectNoSetup, Run, Answer, Marked, stream, object
<1>11. CASE RunConnectNoAddress
  BY <1>11 DEF RunConnectNoAddress, Run, Answer, Marked, stream, object
<1>12. CASE RunConnect
  BY <1>12 DEF RunConnect, Run, stream, object
<1>13. CASE RunWrapFails
  BY <1>13 DEF RunWrapFails, Run, Answer, Marked, stream, object
<1>14. CASE RunWrap
  BY <1>14 DEF RunWrap, Run, stream, object
<1>15. CASE \E w \in Writes : RunWrite(w)
  <2>. PICK w \in Writes : RunWrite(w)
    BY <1>15
  <2>1. p # w
    BY HeadIsQueued DEF RunWrite
  <2>. QED
    BY <2>1 DEF RunWrite, Answer, Marked
<1>16. CASE \E r \in Reads : RunReadNow(r)
  <2>. PICK r \in Reads : RunReadNow(r)
    BY <1>16
  <2>1. p # r
    BY HeadIsQueued DEF RunReadNow
  <2>. QED
    BY <2>1 DEF RunReadNow, Answer, Marked
<1>17. CASE \E r \in Reads : RunReadPark(r)
  <2>. PICK r \in Reads : RunReadPark(r)
    BY <1>17
  <2>1. status[r] = "queued"
    BY HeadIsQueued DEF RunReadPark
  <2>2. p # r /\ p # pendingRead
    BY <2>1
  <2>. QED
    BY <2>2 DEF RunReadPark
<1>18. CASE \E k \in Closes : RunClose(k)
  <2>. PICK k \in Closes : RunClose(k)
    BY <1>18
  <2>1. status[k] = "queued"
    BY HeadIsQueued DEF RunClose
  <2>2. p # k /\ p \notin InFlight
    BY <2>1 DEF InFlight
  <2>3. status' = Marked(InFlight, "rejected", [status EXCEPT ![k] = "resolved"])
    BY DEF RunClose, CloseNow
  <2>. QED
    BY <2>2, <2>3 DEF Marked
<1>19. CASE RunDtor
  BY <1>19 DEF RunDtor, Run, CloseNow, Marked, InFlight, stream
<1>20. CASE HandshakeSuccess
  BY <1>20 DEF HandshakeSuccess, Answer, Marked, stream, object
<1>21. CASE HandshakeError
  BY <1>21 DEF HandshakeError, HandshakeFails, Answer, Marked, stream, object
<1>22. CASE HandshakeTimeout
  BY <1>22 DEF HandshakeTimeout, HandshakeFails, Answer, Marked, stream, object
<1>23. CASE \E w \in Writes : WriteSuccess(w)
  BY <1>23 DEF WriteSuccess, Answer, Marked, stream, object
<1>24. CASE DataArrives
  BY <1>24 DEF DataArrives, Answer, Marked, ParkedRead, TakePendingRead, FulfillRead,
     object
<1>25. CASE TransportEOF
  BY <1>25 DEF TransportEOF, TransportDown, Marked, InFlight, ParkedRead,
     TakePendingRead, object
<1>26. CASE TransportErr
  BY <1>26 DEF TransportErr, TransportDown, Marked, InFlight, ParkedRead,
     TakePendingRead, object
<1>27. CASE WriteTimeout
  BY <1>27 DEF WriteTimeout, TransportDown, Marked, InFlight, ParkedRead,
     TakePendingRead, object
<1>28. CASE ReadTimeout
  BY <1>28 DEF ReadTimeout, Answer, Marked, ParkedRead, stream, object
<1>29. CASE UNCHANGED vars
  BY <1>29 DEF vars
<1>. QED
  BY <1>1, <1>2, <1>3, <1>4, <1>5, <1>6, <1>7, <1>8, <1>9, <1>10, <1>11, <1>12, <1>13,
     <1>14, <1>15, <1>16, <1>17, <1>18, <1>19, <1>20, <1>21, <1>22, <1>23, <1>24,
     <1>25, <1>26, <1>27, <1>28, <1>29 DEF Next, Python, RunTask, Callback

-----------------------------------------------------------------------------
(* The inductive invariant. *)

\* The inductive invariant holds initially.
LEMMA IndInit == Init => IndInv
<1>. SUFFICES ASSUME Init PROVE IndInv
  OBVIOUS
<1>1. TypeOK
  BY TypeInit
<1>2. \A o \in Ops : status[o] = "new"
  BY DEF Init
<1>3. Conn \in Ops /\ Reads \subseteq Ops /\ Writes \subseteq Ops /\ PromiseOps \subseteq Ops
  BY DEF Ops, PromiseOps
<1>4. Len(queue) = 0
  BY DEF Init
<1>5. QueueInv /\ DtorInv /\ ReadOrder
  BY <1>4 DEF QueueInv, DtorInv, ReadOrder
<1>6. TornInv /\ ParkInv /\ ParkedMeansStarved /\ GoneInv
  BY DEF Init, TornInv, ParkInv, ParkedMeansStarved, GoneInv
<1>7. ConnInv
  BY <1>2, <1>3 DEF Init, ConnInv
<1>8. StreamIntact
  BY DEF Init, StreamIntact
<1>9. EndInv /\ NoLostPromise
  BY <1>2, <1>3 DEF EndInv, NoLostPromise
<1>10. DeadlineInv
  BY <1>2, <1>3, <1>4 DEF Init, DeadlineInv
<1>. QED
  BY <1>1, <1>5, <1>6, <1>7, <1>8, <1>9, <1>10 DEF IndInv

\* Every step preserves the inductive invariant, part by part.
LEMMA IndStep == IndInv /\ [Next]_vars => IndInv'
  BY TypeStep, QueueInvStep, DtorInvStep, TornInvStep, ParkInvStep, ConnInvStep,
     StreamIntactStep,
     ParkedMeansStarvedStep, EndInvStep, GoneInvStep, ReadOrderStep, NoLostPromiseStep, DeadlineInvStep
  DEF IndInv

\* The inductive invariant holds in every reachable state, for every number of
\* operations, every choice of deadlines and however often the caller abandons
\* and reissues.
THEOREM Invariance == Spec => []IndInv
<1>1. Init => IndInv
  BY IndInit
<1>2. IndInv /\ [Next]_vars => IndInv'
  BY IndStep
<1>. QED
  BY <1>1, <1>2, PTL DEF Spec

\* Type correctness of the native connection.
THEOREM TypeCorrect == Spec => []TypeOK
<1>1. IndInv => TypeOK
  BY DEF IndInv
<1>. QED
  BY <1>1, Invariance, PTL

\* What the readers get is exactly what the transport delivered, in order.
THEOREM StreamIsIntact == Spec => []StreamIntact
<1>1. IndInv => StreamIntact
  BY DEF IndInv
<1>. QED
  BY <1>1, Invariance, PTL

\* A read is told of EOF or of an error only after the last byte.
THEOREM EndIsLast == Spec => []EndOfStreamLast
<1>1. IndInv => EndOfStreamLast
  <2>. SUFFICES ASSUME IndInv, \E r \in Reads : status[r] \in {"eof", "rejected"}
                PROVE  Len(delivered) = received
    BY DEF EndOfStreamLast
  <2>1. buffer = <<>>
    BY DEF IndInv, EndInv
  <2>2. delivered \o <<>> = delivered
    BY ConcatNil DEF IndInv, TypeOK
  <2>3. delivered = [i \in 1 .. received |-> i]
    BY <2>1, <2>2, Zenon DEF IndInv, StreamIntact
  <2>. QED
    BY <2>3, CountUpLen DEF IndInv, TypeOK
<1>. QED
  BY <1>1, Invariance, PTL

\* No wake-up is lost: a parked read has nothing to be woken for.
THEOREM NoLostWakeup == Spec => []ParkedMeansStarved
<1>1. IndInv => ParkedMeansStarved
  BY DEF IndInv
<1>. QED
  BY <1>1, Invariance, PTL

\* The loop thread never reaches a freed object.
THEOREM FreedIsUnreachable == Spec => []NoUseAfterFree
<1>1. IndInv => NoUseAfterFree
  BY DEF IndInv, TornInv, NoUseAfterFree
<1>. QED
  BY <1>1, Invariance, PTL

\* No caller that still waits loses its promise.
THEOREM WaitersAreAnswered == Spec => []NoLostPromise
<1>1. IndInv => NoLostPromise
  BY DEF IndInv
<1>. QED
  BY <1>1, Invariance, PTL

\* Without reissue, an operation times out only on its own deadline.
THEOREM DeadlinesAreOwn == Spec => []TimeoutOnlyWithDeadline
<1>1. IndInv => TimeoutOnlyWithDeadline
  BY DEF IndInv, DeadlineInv, TimeoutOnlyWithDeadline
<1>. QED
  BY <1>1, Invariance, PTL

\* The descriptor is closed when the object is freed.
THEOREM DescriptorIsClosed == Spec => []NoDescriptorLeak
<1>1. IndInv => NoDescriptorLeak
  <2>. SUFFICES ASSUME IndInv, life = "freed" PROVE fd \in {"none", "closed"}
    BY DEF NoDescriptorLeak
  <2>1. queue = <<>> /\ client = "null"
    BY DEF IndInv, TornInv
  <2>2. ~InQueue(Conn)
    BY <2>1 DEF InQueue
  <2>3. fd # "open" /\ fd # "handed"
    BY <2>1, <2>2 DEF IndInv, ConnInv
  <2>. QED
    BY <2>3 DEF IndInv, TypeOK
<1>. QED
  BY <1>1, Invariance, PTL

\* Each promise is answered at most once, and its outcome is final.
THEOREM AnswersAreFinal == Spec => AnsweredOnce
<1>1. IndInv /\ [Next]_vars =>
        [\A o \in Ops : status[o] \in Settled \cup {"dropped", "overwritten"}
                        => status'[o] = status[o]]_vars
  BY AnswerStep DEF IndInv
<1>. QED
  BY <1>1, Invariance, PTL DEF Spec, AnsweredOnce
=============================================================================
