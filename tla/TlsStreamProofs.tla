--------------------------- MODULE TlsStreamProofs ---------------------------
(***************************************************************************)
(* The byte stream of a TlsSocket, for any number of bytes, reads,         *)
(* interruptions and files: recv() hands out what the peer sent, in order, *)
(* once, and EOF after the last byte.                                      *)
(***************************************************************************)
EXTENDS TlsSocketProofs, SequenceTheorems

Reads == [live : BOOLEAN, timed : BOOLEAN, kind : {"none", "read", "close"}]

StreamTypes ==
  /\ out \in Seq(Nat) /\ fbuf \in Seq(Nat) /\ rbuf \in Seq(Nat) /\ buffer \in Seq(Nat)
  /\ box \in [kind : {"none", "data", "error", "timeout"}, bytes : Seq(Nat)]
  /\ queue \in Seq(Reads) /\ parked \in Reads
  /\ end \in {"no", "eof", "err"}
  /\ arrived \in Nat /\ stops \in Nat /\ lost \subseteq 1 .. arrived

Timed == timeo \in Int \cup {NoTimeout, Infinite, NotANumber}

\* No recv() waits for an answer.
Unawaited == ~parked.live /\ \A i \in DOMAIN queue : ~queue[i].live

\* A recv() has one read at most, and takes its answer before the next.
OneRead ==
  /\ rd = "idle" => box = NoAnswer
  /\ rd = "idle" \/ box # NoAnswer => Unawaited
  /\ rd # "idle" => rbuf = <<>>
  /\ \A i, j \in DOMAIN queue : queue[i].live /\ queue[j].live => i = j
  /\ parked.live => \A i \in DOMAIN queue : ~queue[i].live

\* A read is parked only while there is nothing to answer it with.
Parking ==
  /\ parked # NoRead => parked.kind = "read" /\ buffer = <<>> /\ end = "no"
  /\ file # "open" => fbuf = <<>>

\* Until the caller gives something up, every read has somebody waiting for it.
Orphans ==
  stops = 0 =>
    /\ parked = NoRead \/ parked.live
    /\ \A i \in DOMAIN queue : queue[i].kind = "read" => queue[i].live

\* The end of the stream is behind its last byte.
Ending ==
  /\ end # "no" => op = "down"
  /\ eof \/ (box.kind = "data" /\ box.bytes = <<>>) => end = "eof" /\ buffer = <<>>

StreamInv ==
  SocketInv /\ Timed /\ StreamTypes /\ OneRead /\ Parking /\ Orphans /\ Ending /\ StreamInOrder

-----------------------------------------------------------------------------
(* Increasing sequences of numbers. *)

\* The bytes of two pieces are the bytes of the one and of the other.
LEMMA ConcatBytes ==
  ASSUME NEW s \in Seq(Nat), NEW t \in Seq(Nat)
  PROVE  s \o t \in Seq(Nat) /\ ToSet(s \o t) = ToSet(s) \cup ToSet(t)
<1>1. s \o t \in Seq(Nat) /\ Len(s \o t) = Len(s) + Len(t)
  BY ConcatProperties
<1>2. \A i \in 1 .. Len(s) + Len(t) : (s \o t)[i] = IF i <= Len(s) THEN s[i] ELSE t[i - Len(s)]
  BY ConcatProperties
<1>3. DOMAIN s = 1 .. Len(s) /\ DOMAIN t = 1 .. Len(t) /\ Len(s) \in Nat /\ Len(t) \in Nat
  OBVIOUS
<1>4. DOMAIN (s \o t) = 1 .. Len(s) + Len(t)
  BY <1>1
<1>5. ASSUME NEW x \in ToSet(s \o t) PROVE x \in ToSet(s) \cup ToSet(t)
  <2>1. PICK i \in 1 .. Len(s) + Len(t) : x = (s \o t)[i]
    BY <1>4, <1>5 DEF ToSet
  <2>2. CASE i <= Len(s)
    BY <1>2, <1>3, <2>1, <2>2 DEF ToSet
  <2>3. CASE i > Len(s)
    <3>1. i - Len(s) \in DOMAIN t /\ x = t[i - Len(s)]
      BY <1>2, <1>3, <2>1, <2>3
    <3> QED
      BY <3>1 DEF ToSet
  <2> QED
    BY <1>3, <2>2, <2>3
<1>6. ASSUME NEW x \in ToSet(s) PROVE x \in ToSet(s \o t)
  <2>1. PICK i \in DOMAIN s : x = s[i]
    BY <1>6 DEF ToSet
  <2>2. i \in DOMAIN (s \o t) /\ (s \o t)[i] = x
    BY <1>2, <1>3, <1>4, <2>1
  <2> QED
    BY <2>2 DEF ToSet
<1>7. ASSUME NEW x \in ToSet(t) PROVE x \in ToSet(s \o t)
  <2>1. PICK i \in DOMAIN t : x = t[i]
    BY <1>7 DEF ToSet
  <2>2. i + Len(s) \in DOMAIN (s \o t) /\ (s \o t)[i + Len(s)] = x
    BY <1>2, <1>3, <1>4, <2>1
  <2> QED
    BY <2>2 DEF ToSet
<1> QED
  BY <1>1, <1>5, <1>6, <1>7

\* Two pieces are in order together if each is and the one comes before the other.
LEMMA ConcatOrder ==
  ASSUME NEW s \in Seq(Nat), NEW t \in Seq(Nat)
  PROVE  Increasing(s \o t) <=> /\ Increasing(s) /\ Increasing(t)
                                /\ \A x \in ToSet(s), y \in ToSet(t) : x < y
<1>2. \A i \in 1 .. Len(s) + Len(t) : (s \o t)[i] = IF i <= Len(s) THEN s[i] ELSE t[i - Len(s)]
  BY ConcatProperties
<1>3. DOMAIN s = 1 .. Len(s) /\ DOMAIN t = 1 .. Len(t) /\ Len(s) \in Nat /\ Len(t) \in Nat
  OBVIOUS
<1>4. DOMAIN (s \o t) = 1 .. Len(s) + Len(t)
  BY ConcatProperties, <1>3
<1>5. \A i \in DOMAIN s : i \in DOMAIN (s \o t) /\ (s \o t)[i] = s[i]
  BY <1>2, <1>3, <1>4
<1>6. \A i \in DOMAIN t : Len(s) + i \in DOMAIN (s \o t) /\ (s \o t)[Len(s) + i] = t[i]
  <2> SUFFICES ASSUME NEW i \in DOMAIN t
               PROVE  Len(s) + i \in DOMAIN (s \o t) /\ (s \o t)[Len(s) + i] = t[i]
    OBVIOUS
  <2>1. /\ Len(s) + i \in 1 .. Len(s) + Len(t) /\ ~(Len(s) + i <= Len(s))
        /\ (Len(s) + i) - Len(s) = i
    BY <1>3
  <2> QED
    BY <1>2, <1>4, <2>1
<1>7. ASSUME Increasing(s \o t)
      PROVE  Increasing(s) /\ Increasing(t) /\ \A x \in ToSet(s), y \in ToSet(t) : x < y
  <2>1. Increasing(s)
    BY <1>5, <1>7 DEF Increasing
  <2>2. Increasing(t)
    <3>1. \A i, j \in DOMAIN t : i < j => Len(s) + i < Len(s) + j
      BY <1>3
    <3> QED
      BY <1>6, <1>7, <3>1 DEF Increasing
  <2>3. ASSUME NEW x \in ToSet(s), NEW y \in ToSet(t) PROVE x < y
    <3>1. PICK i \in DOMAIN s : x = s[i]
      BY <2>3 DEF ToSet
    <3>2. PICK j \in DOMAIN t : y = t[j]
      BY <2>3 DEF ToSet
    <3>3. i < Len(s) + j
      BY <1>3
    <3> QED
      BY <1>5, <1>6, <1>7, <3>1, <3>2, <3>3 DEF Increasing
  <2> QED
    BY <2>1, <2>2, <2>3
<1>8. ASSUME Increasing(s), Increasing(t), \A x \in ToSet(s), y \in ToSet(t) : x < y
      PROVE  Increasing(s \o t)
  <2> SUFFICES ASSUME NEW i \in DOMAIN (s \o t), NEW j \in DOMAIN (s \o t), i < j
               PROVE  (s \o t)[i] < (s \o t)[j]
    BY DEF Increasing
  <2>1. CASE j <= Len(s)
    <3>1. i \in DOMAIN s /\ j \in DOMAIN s
      BY <1>3, <1>4, <2>1
    <3> QED
      BY <1>5, <1>8, <3>1 DEF Increasing
  <2>2. CASE i > Len(s)
    <3>1. /\ i - Len(s) \in DOMAIN t /\ j - Len(s) \in DOMAIN t /\ i - Len(s) < j - Len(s)
          /\ (s \o t)[i] = t[i - Len(s)] /\ (s \o t)[j] = t[j - Len(s)]
      BY <1>2, <1>3, <1>4, <2>2
    <3> QED
      BY <1>8, <3>1 DEF Increasing
  <2>3. CASE i <= Len(s) /\ j > Len(s)
    <3>1. /\ i \in DOMAIN s /\ j - Len(s) \in DOMAIN t
          /\ (s \o t)[i] = s[i] /\ (s \o t)[j] = t[j - Len(s)]
      BY <1>2, <1>3, <1>4, <2>3
    <3>2. s[i] \in ToSet(s) /\ t[j - Len(s)] \in ToSet(t)
      BY <3>1 DEF ToSet
    <3> QED
      BY <1>8, <3>1, <3>2
  <2> QED
    BY <1>3, <1>4, <2>1, <2>2, <2>3
<1> QED
  BY <1>7, <1>8

\* A piece that is cut out of the middle leaves the rest in order.
LEMMA CutOut ==
  ASSUME NEW a \in Seq(Nat), NEW b \in Seq(Nat), NEW c \in Seq(Nat), Increasing((a \o b) \o c)
  PROVE  Increasing(a \o c) /\ ToSet(a \o c) = ToSet((a \o b) \o c) \ ToSet(b)
<1>1. a \o b \in Seq(Nat) /\ ToSet(a \o b) = ToSet(a) \cup ToSet(b)
  BY ConcatBytes
<1>2. ToSet((a \o b) \o c) = ToSet(a) \cup ToSet(b) \cup ToSet(c)
  BY <1>1, ConcatBytes
<1>3. ToSet(a \o c) = ToSet(a) \cup ToSet(c)
  BY ConcatBytes
<1>4. Increasing(a \o b) /\ Increasing(c) /\ \A x \in ToSet(a \o b), y \in ToSet(c) : x < y
  BY <1>1, ConcatOrder
<1>5. Increasing(a) /\ \A x \in ToSet(a), y \in ToSet(b) : x < y
  BY <1>4, ConcatOrder
<1>6. Increasing(a \o c)
  BY <1>1, <1>4, <1>5, ConcatOrder
<1>7. ToSet(a) \subseteq Nat /\ ToSet(b) \subseteq Nat /\ ToSet(c) \subseteq Nat
  BY DEF ToSet
<1>8. \A x \in ToSet(b) : x \notin ToSet(a) /\ x \notin ToSet(c)
  BY <1>1, <1>4, <1>5, <1>7
<1> QED
  BY <1>2, <1>3, <1>6, <1>8

\* s holds in order the bytes up to k that are not gone.
Holds(s, k, gone) == Increasing(s) /\ ToSet(s) = (1 .. k) \ gone

\* The bytes that arrive next follow all that have arrived.
LEMMA NextBytes ==
  ASSUME NEW s \in Seq(Nat), NEW k \in Nat, NEW n \in Nat, NEW gone, NEW new,
         Holds(s, k, gone), gone \subseteq 1 .. k, new = [i \in 1 .. n |-> k + i]
  PROVE  new \in Seq(Nat) /\ Holds(s \o new, k + n, gone)
<1>0. Increasing(s) /\ ToSet(s) = (1 .. k) \ gone
  BY DEF Holds
<1>1. new \in Seq(Nat) /\ DOMAIN new = 1 .. n
  OBVIOUS
<1>2. ToSet(new) = k + 1 .. k + n
  <2>1. \A x \in k + 1 .. k + n : x - k \in 1 .. n /\ new[x - k] = x
    OBVIOUS
  <2>2. \A x \in k + 1 .. k + n : x \in ToSet(new)
    BY <1>1, <2>1 DEF ToSet
  <2>3. \A x \in ToSet(new) : x \in k + 1 .. k + n
    BY DEF ToSet
  <2> QED
    BY <2>2, <2>3
<1>3. Increasing(new)
  BY DEF Increasing
<1>4. Increasing(s \o new)
  <2>1. \A x \in ToSet(s), y \in ToSet(new) : x < y
    BY <1>0, <1>2
  <2> QED
    BY <1>0, <1>1, <1>3, <2>1, ConcatOrder
<1>5. ToSet(s \o new) = ((1 .. k) \ gone) \cup (k + 1 .. k + n)
  BY <1>0, <1>1, <1>2, ConcatBytes
<1>6. ((1 .. k) \ gone) \cup (k + 1 .. k + n) = (1 .. k + n) \ gone
  OBVIOUS
<1> QED
  BY <1>1, <1>4, <1>5, <1>6 DEF Holds

-----------------------------------------------------------------------------
(* The steps. *)

seen == <<out, fbuf, rbuf, box, buffer, arrived, lost, stops, queue, parked, rd, eof, end, file>>

\* Every step is one of these.
LEMMA StreamCases ==
  ASSUME [Next]_vars
  PROVE  \/ UNCHANGED seen
         \/ \E n \in 1 .. 2 : RecvBuffered(n) \/ RecvReturns(n) \/ Arrive(n)
         \/ \E kind \in {"eof", "err"} : Down(kind)
         \/ RecvSubmit \/ Interrupt \/ RunRead \/ RunClose \/ Close \/ ReadTimeout
         \/ MakeFile \/ FileRead \/ FileClose \/ DropSocket
<1>1. ASSUME NEW t, SetTimeout(t) PROVE UNCHANGED seen
  BY <1>1 DEF SetTimeout, engine, app, seen
<1>2. ASSUME Send \/ SendEnds PROVE UNCHANGED seen
  BY <1>2 DEF Send, SendEnds, reader, engine, seen
<1>3. ASSUME UNCHANGED <<reader, engine, app>> PROVE UNCHANGED seen
  BY <1>3 DEF reader, engine, app, seen
<1> QED
  BY <1>1, <1>2, <1>3 DEF Next, Wrap, Engine, Caller, Peer, Returns, SendTimeout, vars

\* A transport that is down stays down.
LEMMA StaysDown ==
  ASSUME SocketInv, [Next]_vars, op = "down"
  PROVE  op' = "down"
<1>1. ~Submit
  BY DEF Submit, SocketInv, Stages
<1> QED
  BY <1>1, WrapCases DEF Raises, kept, Call, Dup, WakeOk, Downgrade, NewSocket, RetryOk, RetryFails,
       RunWrap, HandshakeOk, ShakeFails, Falls, Deliver, Aside, StopWaiting, CallerCloses, OtherOpens,
       core

\* Concatenation associates.
LEMMA Together == \A s, t, u \in Seq(Nat) : (s \o t) \o u = s \o (t \o u)
<1> TAKE s, t, u \in Seq(Nat)
<1> QED
  BY ConcatAssociative, SMTT(30)

\* What recv() returns and what it keeps are what it had.
LEMMA GiveKeeps ==
  ASSUME StreamTypes, Parking, NEW bytes \in Seq(Nat), NEW n \in 1 .. 2, Give(bytes, n)
  PROVE  /\ out' \in Seq(Nat) /\ fbuf' \in Seq(Nat) /\ rbuf' \in Seq(Nat)
         /\ out' \o fbuf' \o rbuf' = out \o fbuf \o bytes
         /\ file # "open" => fbuf' = <<>>
<1> DEFINE m == IF Len(bytes) < n THEN Len(bytes) ELSE n
           taken == SubSeq(bytes, 1, m)
           rest == SubSeq(bytes, n + 1, Len(bytes))
<1>1. Len(bytes) \in Nat /\ m \in 0 .. Len(bytes)
  OBVIOUS
<1>2. rest = SubSeq(bytes, m + 1, Len(bytes))
  <2>1. CASE Len(bytes) < n
    <3>1. rest = <<>> /\ SubSeq(bytes, m + 1, Len(bytes)) = <<>>
      BY <2>1, SubSeqEmpty
    <3> QED
      BY <3>1
  <2>2. CASE ~(Len(bytes) < n)
    BY <2>2
  <2> QED
    BY <2>1, <2>2
<1>3. /\ rbuf' = rest
      /\ IF file = "open" THEN fbuf' = fbuf \o taken /\ out' = out
                          ELSE out' = out \o taken /\ fbuf' = fbuf
  BY DEF Give, Rest
<1> HIDE DEF m
<1>4. taken \in Seq(Nat) /\ SubSeq(bytes, m + 1, Len(bytes)) \in Seq(Nat)
  BY <1>1, SubSeqProperties, ElementOfSeq
<1>5. taken \o SubSeq(bytes, m + 1, Len(bytes)) = SubSeq(bytes, 1, Len(bytes))
  <2>1. /\ 1 \in 1 .. Len(bytes) + 1 /\ m \in 1 - 1 .. Len(bytes)
        /\ Len(bytes) \in m .. Len(bytes)
    BY <1>1
  <2> QED
    BY <2>1, ConcatAdjacentSubSeq, Zenon
<1>6. taken \o rest = bytes
  BY <1>2, <1>5, SubSeqFull
<1>7. taken \in Seq(Nat) /\ rest \in Seq(Nat) /\ out \in Seq(Nat) /\ fbuf \in Seq(Nat)
  BY <1>2, <1>4 DEF StreamTypes
<1>8. out \o fbuf \in Seq(Nat)
  BY <1>7
<1> HIDE DEF taken, rest
<1>9. CASE file = "open"
  <2>1. out \o (fbuf \o taken) = (out \o fbuf) \o taken
    BY <1>7, Together, Zenon
  <2>2. ((out \o fbuf) \o taken) \o rest = (out \o fbuf) \o (taken \o rest)
    BY <1>7, <1>8, Together, Zenon
  <2>3. fbuf \o taken \in Seq(Nat)
    BY <1>7, ConcatProperties
  <2> QED
    BY <1>3, <1>6, <1>7, <1>9, <2>1, <2>2, <2>3
<1>10. CASE file # "open"
  <2>1. fbuf = <<>>
    BY <1>10 DEF Parking
  <2>2. (out \o taken) \o <<>> = out \o taken /\ out \o <<>> = out /\ out \o taken \in Seq(Nat)
    BY <1>7, ConcatEmptySeq, ConcatProperties
  <2>3. (out \o taken) \o rest = out \o (taken \o rest)
    BY <1>7, Together, Zenon
  <2> QED
    BY <1>3, <1>6, <1>7, <1>10, <2>1, <2>2, <2>3
<1> QED
  BY <1>9, <1>10

\* A read and its answer have their types.
LEMMA TaskTypes ==
  /\ NoRead \in Reads /\ CloseTask \in Reads /\ \A ms \in Nat : ReadTask(ms) \in Reads
  /\ \A r \in Reads : [r EXCEPT !.live = FALSE] \in Reads
<1>1. NoRead \in Reads /\ CloseTask \in Reads
  BY DEF Reads, NoRead, CloseTask
<1>2. ASSUME NEW ms \in Nat PROVE ReadTask(ms) \in Reads
  <2>1. (ms > 0) \in BOOLEAN
    OBVIOUS
  <2> QED
    BY <2>1, Zenon DEF ReadTask, Reads
<1>3. ASSUME NEW r \in Reads PROVE [r EXCEPT !.live = FALSE] \in Reads
  BY DEF Reads
<1> QED
  BY <1>1, <1>2, <1>3

LEMMA AnswerKinds ==
  ASSUME NEW bytes \in Seq(Nat), NEW kind \in {"error", "timeout"}
  PROVE  /\ Data(bytes) \in [kind : {"none", "data", "error", "timeout"}, bytes : Seq(Nat)]
         /\ Failed(kind) \in [kind : {"none", "data", "error", "timeout"}, bytes : Seq(Nat)]
         /\ NoAnswer \in [kind : {"none", "data", "error", "timeout"}, bytes : Seq(Nat)]
         /\ Data(bytes).bytes = bytes /\ Failed(kind).bytes = <<>> /\ NoAnswer.bytes = <<>>
  BY DEF Data, Failed, NoAnswer

\* The bytes of a sequence are numbers.
LEMMA BytesAreNumbers ==
  ASSUME NEW s \in Seq(Nat)
  PROVE  ToSet(s) \subseteq Nat
  BY DEF ToSet

\* The pieces of the stream are pieces of it.
LEMMA StreamPieces ==
  ASSUME StreamTypes
  PROVE  /\ stream \in Seq(Nat)
         /\ ToSet(stream) = ToSet(out) \cup ToSet(fbuf) \cup ToSet(rbuf) \cup ToSet(box.bytes)
                            \cup ToSet(buffer)
<1>1. /\ out \in Seq(Nat) /\ fbuf \in Seq(Nat) /\ rbuf \in Seq(Nat) /\ buffer \in Seq(Nat)
      /\ box.bytes \in Seq(Nat)
  BY DEF StreamTypes
<1>2. out \o fbuf \in Seq(Nat) /\ ToSet(out \o fbuf) = ToSet(out) \cup ToSet(fbuf)
  BY <1>1, ConcatBytes
<1>3. /\ out \o fbuf \o rbuf \in Seq(Nat)
      /\ ToSet(out \o fbuf \o rbuf) = ToSet(out \o fbuf) \cup ToSet(rbuf)
  BY <1>1, <1>2, ConcatBytes
<1>4. /\ out \o fbuf \o rbuf \o box.bytes \in Seq(Nat)
      /\ ToSet(out \o fbuf \o rbuf \o box.bytes) = ToSet(out \o fbuf \o rbuf) \cup ToSet(box.bytes)
  BY <1>1, <1>3, ConcatBytes
<1>5. /\ stream \in Seq(Nat)
      /\ ToSet(stream) = ToSet(out \o fbuf \o rbuf \o box.bytes) \cup ToSet(buffer)
  BY <1>1, <1>4, ConcatBytes DEF stream
<1> QED
  BY <1>2, <1>3, <1>4, <1>5

\* The steps keep the types.
LEMMA StreamTypesStep ==
  ASSUME StreamInv, [Next]_vars
  PROVE  StreamTypes'
<1>0. StreamTypes /\ Timed /\ Parking /\ StreamInOrder
  BY DEF StreamInv
<1>a. ToSet(stream) \subseteq 1 .. arrived
  BY <1>0 DEF StreamInOrder
<1>b. /\ ToSet(out) \subseteq 1 .. arrived /\ ToSet(fbuf) \subseteq 1 .. arrived
      /\ ToSet(rbuf) \subseteq 1 .. arrived /\ ToSet(box.bytes) \subseteq 1 .. arrived
      /\ ToSet(buffer) \subseteq 1 .. arrived
  BY <1>0, <1>a, StreamPieces
<1>c. ToSet(<<>>) = {}
  BY DEF ToSet
<1>1. CASE UNCHANGED seen
  BY <1>0, <1>1 DEF seen, StreamTypes
<1>2. ASSUME NEW n \in 1 .. 2, RecvBuffered(n) PROVE StreamTypes'
  <2>1. Give(rbuf, n) /\ rbuf \in Seq(Nat)
    BY <1>0, <1>2 DEF RecvBuffered, StreamTypes
  <2>2. out' \in Seq(Nat) /\ fbuf' \in Seq(Nat) /\ rbuf' \in Seq(Nat)
    BY <1>0, <2>1, GiveKeeps
  <2> QED
    BY <1>0, <1>2, <2>2 DEF RecvBuffered, engine, StreamTypes
<1>3. ASSUME NEW n \in 1 .. 2, RecvReturns(n) PROVE StreamTypes'
  <2>1. out' \in Seq(Nat) /\ fbuf' \in Seq(Nat) /\ rbuf' \in Seq(Nat)
    <3>1. CASE box.bytes # <<>>
      <4>1. Give(box.bytes, n) /\ box.bytes \in Seq(Nat)
        BY <1>0, <1>3, <3>1 DEF RecvReturns, StreamTypes
      <4> QED
        BY <1>0, <4>1, GiveKeeps
    <3>2. CASE box.bytes = <<>>
      BY <1>0, <1>3, <3>2 DEF RecvReturns, StreamTypes
    <3> QED
      BY <3>1, <3>2
  <2>2. box' = NoAnswer
    BY <1>3 DEF RecvReturns
  <2>3. box' \in [kind : {"none", "data", "error", "timeout"}, bytes : Seq(Nat)]
    BY <2>2 DEF NoAnswer
  <2> QED
    BY <1>0, <1>3, <2>1, <2>3 DEF RecvReturns, engine, StreamTypes
<1>4. ASSUME NEW n \in 1 .. 2, Arrive(n) PROVE StreamTypes'
  <2> DEFINE bytes == buffer \o [i \in 1 .. n |-> arrived + i]
  <2>1. bytes \in Seq(Nat) /\ ToSet(bytes) \subseteq 1 .. arrived + n
    <3>1. /\ [i \in 1 .. n |-> arrived + i] \in Seq(Nat)
          /\ ToSet([i \in 1 .. n |-> arrived + i]) \subseteq 1 .. arrived + n
      BY <1>0 DEF StreamTypes, ToSet
    <3>2. buffer \in Seq(Nat) /\ arrived \in Nat
      BY <1>0 DEF StreamTypes
    <3>3. /\ bytes \in Seq(Nat)
          /\ ToSet(bytes) = ToSet(buffer) \cup ToSet([i \in 1 .. n |-> arrived + i])
      BY <3>1, <3>2, ConcatBytes
    <3>4. 1 .. arrived \subseteq 1 .. arrived + n
      BY <3>2
    <3> QED
      BY <1>b, <3>1, <3>3, <3>4
  <2>2. /\ arrived' = arrived + n
        /\ IF parked = NoRead THEN buffer' = bytes /\ UNCHANGED <<parked, box, lost>>
           ELSE /\ Settle(parked, Data(bytes)) /\ parked' = NoRead /\ buffer' = <<>>
        /\ UNCHANGED <<out, fbuf, rbuf, queue, end, stops>>
    BY <1>4 DEF Arrive, TakePendingRead
  <2> HIDE DEF bytes
  <2>3. Data(bytes) \in [kind : {"none", "data", "error", "timeout"}, bytes : Seq(Nat)]
    BY <2>1, AnswerKinds
  <2>4. /\ box' \in [kind : {"none", "data", "error", "timeout"}, bytes : Seq(Nat)]
        /\ buffer' \in Seq(Nat) /\ parked' \in Reads
    <3>1. box' = box \/ box' = Data(bytes)
      BY <2>2 DEF Settle
    <3>2. buffer' = bytes \/ buffer' = <<>>
      BY <2>2
    <3>3. parked' = parked \/ parked' = NoRead
      BY <2>2
    <3>4. <<>> \in Seq(Nat)
      OBVIOUS
    <3> QED
      BY <1>0, <2>1, <2>3, <3>1, <3>2, <3>3, <3>4, TaskTypes DEF StreamTypes
  <2>5. lost' \subseteq 1 .. arrived'
    <3>1. Data(bytes).bytes = bytes
      BY <2>1, AnswerKinds
    <3>2. lost' \subseteq lost \cup ToSet(bytes)
      BY <2>2, <3>1 DEF Settle
    <3>3. lost \subseteq 1 .. arrived /\ arrived \in Nat
      BY <1>0 DEF StreamTypes
    <3> QED
      BY <2>1, <2>2, <3>2, <3>3
  <2> QED
    BY <1>0, <2>2, <2>4, <2>5 DEF StreamTypes
<1>5. ASSUME NEW kind \in {"eof", "err"}, Down(kind) PROVE StreamTypes'
  <2> DEFINE answer == IF kind = "eof" THEN Data(<<>>) ELSE Failed("error")
  <2>1. /\ answer \in [kind : {"none", "data", "error", "timeout"}, bytes : Seq(Nat)]
        /\ answer.bytes = <<>>
    <3>1. <<>> \in Seq(Nat)
      OBVIOUS
    <3> QED
      BY <3>1, AnswerKinds
  <2>2. Settle(parked, answer) /\ parked' = NoRead
    BY <1>5 DEF Down, TakePendingRead
  <2> HIDE DEF answer
  <2>3. /\ box' \in [kind : {"none", "data", "error", "timeout"}, bytes : Seq(Nat)]
        /\ lost' = lost
    BY <1>0, <1>c, <2>1, <2>2 DEF Settle, StreamTypes
  <2> QED
    BY <1>0, <1>5, <2>2, <2>3, TaskTypes DEF Down, StreamTypes
<1>6. CASE RecvSubmit
  <2>1. TimeoutToMs(timeo) \in Nat
    <3>1. timeo \in Int \cup {NoTimeout}
      BY <1>0, <1>6 DEF RecvSubmit, Convertible, Timed
    <3> QED
      BY <3>1, TimeoutRange, DeadlineConstants
  <2>2. ReadTask(TimeoutToMs(timeo)) \in Reads
    BY <2>1, TaskTypes
  <2> QED
    BY <1>0, <1>6, <2>2 DEF RecvSubmit, app, StreamTypes
<1>7. CASE Interrupt
  <2>1. queue' = [i \in 1 .. Len(queue) |-> [queue[i] EXCEPT !.live = FALSE]]
    BY <1>0, <1>7 DEF Interrupt, StreamTypes
  <2>2. \A i \in 1 .. Len(queue) : [queue[i] EXCEPT !.live = FALSE] \in Reads
    BY <1>0, TaskTypes DEF StreamTypes
  <2>3. queue' \in Seq(Reads) /\ parked' \in Reads
    BY <1>0, <1>7, <2>1, <2>2, TaskTypes DEF Interrupt, StreamTypes
  <2>4. lost' \subseteq 1 .. arrived
    BY <1>0, <1>7, <1>b DEF Interrupt, StreamTypes
  <2>5. box' \in [kind : {"none", "data", "error", "timeout"}, bytes : Seq(Nat)]
    BY <1>7 DEF Interrupt, NoAnswer
  <2>6. stops' \in Nat
    BY <1>0, <1>7 DEF Interrupt, StreamTypes
  <2> QED
    BY <1>0, <1>7, <2>3, <2>4, <2>5, <2>6 DEF Interrupt, StreamTypes
<1>8. CASE RunRead
  <2>1. queue # <<>> /\ queue \in Seq(Reads)
    BY <1>0, <1>8 DEF RunRead, StreamTypes
  <2>2. Head(queue) \in Reads /\ Tail(queue) \in Seq(Reads)
    BY <2>1, HeadTailProperties
  <2> DEFINE answer == IF buffer = <<>> /\ end = "err" THEN Failed("error") ELSE Data(buffer)
  <2>3. /\ answer \in [kind : {"none", "data", "error", "timeout"}, bytes : Seq(Nat)]
        /\ answer.bytes = buffer
    BY <1>0, AnswerKinds DEF StreamTypes
  <2>4. /\ queue' = Tail(queue)
        /\ \/ parked' = Head(queue) /\ UNCHANGED <<box, lost, buffer>>
           \/ Settle(Head(queue), answer) /\ buffer' = <<>> /\ UNCHANGED parked
        /\ UNCHANGED <<out, fbuf, rbuf, end, arrived, stops>>
    BY <1>8 DEF RunRead
  <2> HIDE DEF answer
  <2>5. lost' \subseteq 1 .. arrived
    BY <1>0, <1>b, <2>3, <2>4 DEF Settle, StreamTypes
  <2>6. box' \in [kind : {"none", "data", "error", "timeout"}, bytes : Seq(Nat)]
    BY <1>0, <2>3, <2>4 DEF Settle, StreamTypes
  <2>7. parked' \in Reads
    BY <1>0, <2>2, <2>4 DEF StreamTypes
  <2>8. buffer' \in Seq(Nat)
    <3>1. buffer' = buffer \/ buffer' = <<>>
      BY <2>4
    <3>2. buffer \in Seq(Nat) /\ <<>> \in Seq(Nat)
      BY <1>0 DEF StreamTypes
    <3> QED
      BY <3>1, <3>2
  <2> QED
    BY <1>0, <2>2, <2>4, <2>5, <2>6, <2>7, <2>8 DEF StreamTypes
<1>9. CASE RunClose
  <2>1. queue' \in Seq(Reads)
    BY <1>0, <1>9, HeadTailProperties DEF RunClose, StreamTypes
  <2> QED
    BY <1>0, <1>9, <2>1 DEF RunClose, reader, StreamTypes
<1>10. CASE Close
  BY <1>0, <1>10, TaskTypes DEF Close, app, StreamTypes
<1>11. CASE ReadTimeout
  <2>1. Settle(parked, Failed("timeout")) /\ parked' = NoRead
    BY <1>11 DEF ReadTimeout, TakePendingRead
  <2>2. /\ box' \in [kind : {"none", "data", "error", "timeout"}, bytes : Seq(Nat)]
        /\ lost' = lost
    <3>1. /\ Failed("timeout") \in [kind : {"none", "data", "error", "timeout"}, bytes : Seq(Nat)]
          /\ Failed("timeout").bytes = <<>>
      BY DEF Failed
    <3> QED
      BY <1>0, <1>c, <2>1, <3>1 DEF Settle, StreamTypes
  <2> QED
    BY <1>0, <1>11, <2>1, <2>2, TaskTypes DEF ReadTimeout, StreamTypes
<1>12. CASE MakeFile
  BY <1>0, <1>12 DEF MakeFile, reader, engine, StreamTypes
<1>13. CASE FileRead
  <2>1. Head(fbuf) \in Nat /\ Tail(fbuf) \in Seq(Nat)
    BY <1>0, <1>13, HeadTailProperties DEF FileRead, StreamTypes
  <2> QED
    BY <1>0, <1>13, <2>1 DEF FileRead, reader, engine, StreamTypes
<1>14. CASE FileClose
  <2>1. lost' \subseteq 1 .. arrived /\ fbuf' = <<>>
    BY <1>0, <1>14, <1>b DEF FileClose, StreamTypes
  <2>2. stops' \in Nat
    BY <1>0, <1>14 DEF FileClose, StreamTypes
  <2> QED
    BY <1>0, <1>14, <2>1, <2>2 DEF FileClose, reader, engine, StreamTypes
<1>15. CASE DropSocket
  BY <1>0, <1>15, TaskTypes DEF DropSocket, TakePendingRead, reader, app, StreamTypes
<1> QED
  BY <1>1, <1>2, <1>3, <1>4, <1>5, <1>6, <1>7, <1>8, <1>9, <1>10, <1>11, <1>12, <1>13, <1>14, <1>15,
     StreamCases

\* The tasks behind the first.
LEMMA TailTasks ==
  ASSUME NEW q \in Seq(Reads), q # <<>>
  PROVE  /\ 1 \in DOMAIN q /\ Head(q) = q[1] /\ Head(q) \in Reads
         /\ \A i \in DOMAIN Tail(q) : i \in Nat /\ i + 1 \in DOMAIN q /\ Tail(q)[i] = q[i + 1]
         /\ \A i \in DOMAIN Tail(q) : i + 1 # 1
         /\ \A i, j \in DOMAIN Tail(q) : i + 1 = j + 1 => i = j
<1>1. Tail(q) \in Seq(Reads) /\ Len(Tail(q)) = Len(q) - 1 /\ Head(q) \in Reads
  BY HeadTailProperties
<1>2. \A i \in 1 .. Len(Tail(q)) : Tail(q)[i] = q[i + 1]
  BY HeadTailProperties
<1>3. Len(q) \in Nat /\ Len(q) # 0 /\ DOMAIN q = 1 .. Len(q) /\ Head(q) = q[1]
  BY EmptySeq
<1>4. DOMAIN Tail(q) = 1 .. Len(q) - 1
  BY <1>1
<1> QED
  BY <1>1, <1>2, <1>3, <1>4

\* The tasks with one more.
LEMMA AppendTask ==
  ASSUME NEW q \in Seq(Reads), NEW r \in Reads
  PROVE  \A i \in DOMAIN Append(q, r) :
           \/ i \in DOMAIN q /\ Append(q, r)[i] = q[i]
           \/ i = Len(q) + 1 /\ Append(q, r)[i] = r
<1> TAKE i \in DOMAIN Append(q, r)
<1>1. i \in 1 .. Len(q) + 1 /\ Len(q) \in Nat /\ DOMAIN q = 1 .. Len(q)
  OBVIOUS
<1>2. CASE i \in 1 .. Len(q)
  BY <1>1, <1>2
<1>3. CASE i = Len(q) + 1
  BY <1>1, <1>3
<1> QED
  BY <1>1, <1>2, <1>3

\* Whoever gets an answer has waited for it alone.
LEMMA OneReadStep ==
  ASSUME StreamInv, [Next]_vars
  PROVE  OneRead'
<1>0. OneRead /\ queue \in Seq(Reads)
  BY DEF StreamInv, StreamTypes
<1>a. ASSUME UNCHANGED <<box, rbuf, queue, parked, rd>> PROVE OneRead'
  BY <1>0, <1>a DEF OneRead, Unawaited
<1>1. CASE UNCHANGED seen
  BY <1>a, <1>1 DEF seen
<1>2. ASSUME NEW n \in 1 .. 2, RecvBuffered(n) PROVE OneRead'
  BY <1>0, <1>2 DEF RecvBuffered, engine, OneRead, Unawaited
<1>3. ASSUME NEW n \in 1 .. 2, RecvReturns(n) PROVE OneRead'
  BY <1>0, <1>3 DEF RecvReturns, engine, OneRead, Unawaited
<1>b. ASSUME NEW answer, Settle(parked, answer), parked' = NoRead, UNCHANGED <<rbuf, queue, rd>>
      PROVE  OneRead'
  <2>1. ~parked'.live
    BY <1>b DEF NoRead
  <2>2. parked.live => rd # "idle" /\ Unawaited'
    BY <1>0, <1>b, <2>1 DEF OneRead, Unawaited
  <2>3. ~parked.live => box' = box
    BY <1>b DEF Settle
  <2> QED
    BY <1>0, <1>b, <2>1, <2>2, <2>3 DEF OneRead, Unawaited
<1>4. ASSUME NEW n \in 1 .. 2, Arrive(n) PROVE OneRead'
  <2>1. CASE parked = NoRead
    BY <1>a, <1>4, <2>1 DEF Arrive
  <2>2. CASE parked # NoRead
    BY <1>b, <1>4, <2>2 DEF Arrive, TakePendingRead
  <2> QED
    BY <2>1, <2>2
<1>5. ASSUME NEW kind \in {"eof", "err"}, Down(kind) PROVE OneRead'
  BY <1>b, <1>5 DEF Down, TakePendingRead
<1>6. CASE RecvSubmit
  <2> DEFINE r == ReadTask(TimeoutToMs(timeo))
  <2>1. /\ queue' = Append(queue, r) /\ rd = "idle" /\ rd' # "idle" /\ rbuf' = <<>>
        /\ UNCHANGED <<box, parked>>
    BY <1>6 DEF RecvSubmit, Mode
  <2>2. r \in Reads
    <3>1. queue' \in Seq(Reads)
      BY StreamTypesStep DEF StreamTypes
    <3>2. TimeoutToMs(timeo) \in Nat
      <4>1. timeo \in Int \cup {NoTimeout}
        BY <1>6 DEF RecvSubmit, Convertible, Timed, StreamInv
      <4> QED
        BY <4>1, TimeoutRange, DeadlineConstants
    <3> QED
      BY <3>2, TaskTypes
  <2> HIDE DEF r
  <2>3. box' = NoAnswer /\ ~parked'.live /\ \A i \in DOMAIN queue : ~queue[i].live
    BY <1>0, <2>1 DEF OneRead, Unawaited
  <2>4. \A i \in DOMAIN queue' : queue'[i].live => i = Len(queue) + 1
    BY <1>0, <2>1, <2>2, <2>3, AppendTask
  <2> QED
    BY <2>1, <2>3, <2>4 DEF OneRead, Unawaited
<1>7. CASE Interrupt
  <2>1. \A i \in DOMAIN queue' : ~queue'[i].live
    <3>1. \A r \in Reads : ~[r EXCEPT !.live = FALSE].live
      BY DEF Reads
    <3>2. \A i \in DOMAIN queue : queue[i] \in Reads
      BY <1>0
    <3>3. queue' = [i \in DOMAIN queue |-> [queue[i] EXCEPT !.live = FALSE]]
      BY <1>7 DEF Interrupt
    <3> QED
      BY <3>1, <3>2, <3>3, Zenon
  <2>2. ~parked'.live
    BY <1>7 DEF Interrupt, StreamInv, StreamTypes, Reads
  <2> QED
    BY <1>7, <2>1, <2>2 DEF Interrupt, OneRead, Unawaited
<1>8. CASE RunRead
  <2>1. /\ queue # <<>> /\ queue' = Tail(queue) /\ UNCHANGED <<rbuf, rd>>
        /\ \/ parked' = Head(queue) /\ UNCHANGED box
           \/ UNCHANGED parked /\ \E answer : Settle(Head(queue), answer)
    BY <1>8 DEF RunRead
  <2>2. /\ 1 \in DOMAIN queue /\ Head(queue) = queue[1]
        /\ \A i \in DOMAIN Tail(queue) :
             i + 1 \in DOMAIN queue /\ Tail(queue)[i] = queue[i + 1] /\ i + 1 # 1
        /\ \A i, j \in DOMAIN Tail(queue) : i + 1 = j + 1 => i = j
    BY <1>0, <2>1, TailTasks
  <2>3. \A i, j \in DOMAIN queue' : queue'[i].live /\ queue'[j].live => i = j
    BY <1>0, <2>1, <2>2 DEF OneRead
  <2>4. Head(queue).live => ~parked.live /\ \A i \in DOMAIN queue' : ~queue'[i].live
    BY <1>0, <2>1, <2>2 DEF OneRead
  <2>5. parked.live => \A i \in DOMAIN queue' : ~queue'[i].live
    BY <1>0, <2>1, <2>2 DEF OneRead
  <2>6. rd = "idle" \/ box # NoAnswer => Unawaited' /\ box' = box
    BY <1>0, <2>1, <2>2 DEF OneRead, Unawaited, Settle
  <2>7. box' # box => Unawaited'
    BY <2>1, <2>4 DEF Unawaited, Settle
  <2>8. parked'.live => \A i \in DOMAIN queue' : ~queue'[i].live
    BY <2>1, <2>4, <2>5
  <2> QED
    BY <1>0, <2>1, <2>3, <2>6, <2>7, <2>8 DEF OneRead
<1>9. CASE RunClose
  <2>1. queue # <<>> /\ queue' = Tail(queue) /\ UNCHANGED <<rbuf, rd, parked, box>>
    BY <1>9 DEF RunClose, reader
  <2>2. /\ \A i \in DOMAIN Tail(queue) : i + 1 \in DOMAIN queue /\ Tail(queue)[i] = queue[i + 1]
        /\ \A i, j \in DOMAIN Tail(queue) : i + 1 = j + 1 => i = j
    BY <1>0, <2>1, TailTasks
  <2> QED
    BY <1>0, <2>1, <2>2 DEF OneRead, Unawaited
<1>10. CASE Close
  <2>1. queue' = Append(queue, CloseTask) /\ UNCHANGED <<rbuf, rd, parked, box>>
    BY <1>10 DEF Close
  <2>2. \A i \in DOMAIN queue' : queue'[i].live => i \in DOMAIN queue /\ queue[i].live
    BY <1>0, <2>1, AppendTask, TaskTypes DEF CloseTask
  <2> QED
    BY <1>0, <2>1, <2>2 DEF OneRead, Unawaited
<1>11. CASE ReadTimeout
  BY <1>b, <1>11 DEF ReadTimeout, TakePendingRead
<1>12. CASE MakeFile \/ FileRead \/ FileClose
  BY <1>a, <1>12 DEF MakeFile, FileRead, FileClose, reader, engine
<1>13. CASE DropSocket
  BY <1>0, <1>13 DEF DropSocket, TakePendingRead, reader, OneRead, Unawaited, NoRead
<1> QED
  BY <1>1, <1>2, <1>3, <1>4, <1>5, <1>6, <1>7, <1>8, <1>9, <1>10, <1>11, <1>12, <1>13, StreamCases

\* A read is answered with what there is, and parked only if there is nothing.
LEMMA ParkingStep ==
  ASSUME StreamInv, [Next]_vars
  PROVE  Parking'
<1>0. Parking /\ StreamTypes
  BY DEF StreamInv
<1>1. CASE UNCHANGED seen
  BY <1>0, <1>1 DEF seen, Parking
<1>2. ASSUME NEW n \in 1 .. 2, RecvBuffered(n) PROVE Parking'
  <2>1. file # "open" => fbuf' = <<>>
    BY <1>0, <1>2 DEF RecvBuffered, Give, Parking
  <2> QED
    BY <1>0, <1>2, <2>1 DEF RecvBuffered, engine, Parking
<1>3. ASSUME NEW n \in 1 .. 2, RecvReturns(n) PROVE Parking'
  <2>1. file # "open" => fbuf' = <<>>
    BY <1>0, <1>3 DEF RecvReturns, Give, Parking
  <2> QED
    BY <1>0, <1>3, <2>1 DEF RecvReturns, engine, Parking
<1>4. ASSUME NEW n \in 1 .. 2, Arrive(n) PROVE Parking'
  BY <1>0, <1>4 DEF Arrive, TakePendingRead, Parking
<1>5. ASSUME NEW kind \in {"eof", "err"}, Down(kind) PROVE Parking'
  BY <1>0, <1>5 DEF Down, TakePendingRead, Parking
<1>6. CASE RecvSubmit \/ Close
  BY <1>0, <1>6 DEF RecvSubmit, Close, app, Parking
<1>7. CASE Interrupt
  <2>1. parked = NoRead => parked' = NoRead
    <3>1. [NoRead EXCEPT !.live = FALSE] = NoRead
      <4>1. \A r \in Reads : r.live = FALSE => [r EXCEPT !.live = FALSE] = r
        BY DEF Reads
      <4>2. NoRead.live = FALSE
        BY DEF NoRead
      <4> QED
        BY <4>1, <4>2, TaskTypes
    <3> QED
      BY <1>7, <3>1 DEF Interrupt
  <2>2. parked'.kind = parked.kind
    BY <1>0, <1>7 DEF Interrupt, StreamTypes, Reads
  <2> QED
    BY <1>0, <1>7, <2>1, <2>2 DEF Interrupt, Parking
<1>8. CASE RunRead
  BY <1>0, <1>8 DEF RunRead, Parking
<1>9. CASE RunClose
  BY <1>0, <1>9 DEF RunClose, Parking
<1>10. CASE ReadTimeout
  BY <1>0, <1>10 DEF ReadTimeout, TakePendingRead, Parking
<1>11. CASE MakeFile \/ FileRead \/ FileClose
  BY <1>0, <1>11 DEF MakeFile, FileRead, FileClose, engine, Parking
<1>12. CASE DropSocket
  BY <1>0, <1>12 DEF DropSocket, TakePendingRead, app, Parking
<1> QED
  BY <1>1, <1>2, <1>3, <1>4, <1>5, <1>6, <1>7, <1>8, <1>9, <1>10, <1>11, <1>12, StreamCases

\* Who gives nothing up is waiting.
LEMMA OrphansStep ==
  ASSUME StreamInv, [Next]_vars
  PROVE  Orphans'
<1>0. Orphans /\ queue \in Seq(Reads) /\ stops \in Nat
  BY DEF StreamInv, StreamTypes
<1>a. ASSUME UNCHANGED <<queue, stops>>, parked' \in {parked, NoRead} PROVE Orphans'
  BY <1>0, <1>a DEF Orphans
<1>1. CASE UNCHANGED seen
  BY <1>a, <1>1 DEF seen
<1>2. ASSUME NEW n \in 1 .. 2, RecvBuffered(n) \/ RecvReturns(n) \/ Arrive(n) PROVE Orphans'
  BY <1>a, <1>2 DEF RecvBuffered, RecvReturns, Arrive, TakePendingRead, engine
<1>3. ASSUME NEW kind \in {"eof", "err"}, Down(kind) PROVE Orphans'
  BY <1>a, <1>3 DEF Down, TakePendingRead
<1>4. CASE RecvSubmit
  <2> DEFINE r == ReadTask(TimeoutToMs(timeo))
  <2>1. queue' = Append(queue, r) /\ UNCHANGED <<stops, parked>> /\ r.live
    BY <1>4 DEF RecvSubmit, app, ReadTask
  <2>2. r \in Reads
    <3>1. timeo \in Int \cup {NoTimeout}
      BY <1>4 DEF RecvSubmit, Convertible, Timed, StreamInv
    <3>2. TimeoutToMs(timeo) \in Nat
      BY <3>1, TimeoutRange, DeadlineConstants
    <3> QED
      BY <3>2, TaskTypes
  <2> HIDE DEF r
  <2>3. \A i \in DOMAIN queue' : queue'[i].live \/ (i \in DOMAIN queue /\ queue'[i] = queue[i])
    BY <1>0, <2>1, <2>2, AppendTask
  <2> QED
    BY <1>0, <2>1, <2>3 DEF Orphans
<1>5. CASE Close
  <2>1. queue' = Append(queue, CloseTask) /\ UNCHANGED <<stops, parked>>
    BY <1>5 DEF Close, app
  <2>2. \A i \in DOMAIN queue' :
          queue'[i].kind # "read" \/ (i \in DOMAIN queue /\ queue'[i] = queue[i])
    BY <1>0, <2>1, AppendTask, TaskTypes DEF CloseTask
  <2> QED
    BY <1>0, <2>1, <2>2 DEF Orphans
<1>6. CASE Interrupt
  BY <1>0, <1>6 DEF Interrupt, Orphans
<1>7. CASE RunRead \/ RunClose
  <2>1. queue # <<>> /\ queue' = Tail(queue) /\ UNCHANGED stops
    BY <1>7 DEF RunRead, RunClose
  <2>2. /\ 1 \in DOMAIN queue /\ Head(queue) = queue[1]
        /\ \A i \in DOMAIN Tail(queue) : i + 1 \in DOMAIN queue /\ Tail(queue)[i] = queue[i + 1]
    BY <1>0, <2>1, TailTasks
  <2>3. parked' = parked \/ (parked' = Head(queue) /\ Head(queue).kind = "read")
    BY <1>7 DEF RunRead, RunClose
  <2> QED
    BY <1>0, <2>1, <2>2, <2>3 DEF Orphans
<1>8. CASE ReadTimeout
  BY <1>a, <1>8 DEF ReadTimeout, TakePendingRead
<1>9. CASE MakeFile \/ FileRead
  BY <1>a, <1>9 DEF MakeFile, FileRead, engine
<1>10. CASE FileClose
  BY <1>0, <1>10 DEF FileClose, engine, Orphans
<1>11. CASE DropSocket
  BY <1>a, <1>11 DEF DropSocket, TakePendingRead, app
<1> QED
  BY <1>1, <1>2, <1>3, <1>4, <1>5, <1>6, <1>7, <1>8, <1>9, <1>10, <1>11, StreamCases

\* EOF is reported when the stream has ended and its last byte has gone out.
LEMMA EndingStep ==
  ASSUME StreamInv, [Next]_vars
  PROVE  Ending'
<1>0. Ending /\ Parking /\ StreamTypes /\ SocketInv
  BY DEF StreamInv
<1>a. op = "down" => op' = "down"
  BY <1>0, StaysDown
<1>b. ASSUME UNCHANGED <<box, buffer, end, eof>> PROVE Ending'
  BY <1>0, <1>a, <1>b DEF Ending
<1>1. CASE UNCHANGED seen
  BY <1>b, <1>1 DEF seen
<1>2. ASSUME NEW n \in 1 .. 2, RecvBuffered(n) PROVE Ending'
  BY <1>b, <1>2 DEF RecvBuffered, engine
<1>3. ASSUME NEW n \in 1 .. 2, RecvReturns(n) PROVE Ending'
  <2>1. box'.kind # "data" /\ UNCHANGED <<buffer, end>>
    BY <1>3 DEF RecvReturns, engine, NoAnswer
  <2>2. eof' => eof \/ (box.kind = "data" /\ box.bytes = <<>>)
    BY <1>3 DEF RecvReturns
  <2> QED
    BY <1>0, <1>a, <2>1, <2>2 DEF Ending
<1>4. ASSUME NEW n \in 1 .. 2, Arrive(n) PROVE Ending'
  <2> DEFINE bytes == buffer \o [i \in 1 .. n |-> arrived + i]
  <2>1. end = "no" /\ ~eof /\ ~(box.kind = "data" /\ box.bytes = <<>>)
    BY <1>0, <1>4 DEF Arrive, Ending
  <2>2. /\ UNCHANGED <<end, eof>>
        /\ box' = box \/ box' = Data(bytes)
    BY <1>4 DEF Arrive, Settle
  <2>3. bytes # <<>>
    <3>1. buffer \in Seq(Nat) /\ [i \in 1 .. n |-> arrived + i] \in Seq(Nat)
      BY <1>0 DEF StreamTypes
    <3>2. Len([i \in 1 .. n |-> arrived + i]) = n
      OBVIOUS
    <3>3. Len(bytes) = Len(buffer) + n /\ Len(buffer) \in Nat
      BY <3>1, <3>2, ConcatProperties
    <3> QED
      BY <3>3
  <2>4. Data(bytes).bytes = bytes
    BY DEF Data
  <2> HIDE DEF bytes
  <2> QED
    BY <2>1, <2>2, <2>3, <2>4 DEF Ending
<1>5. ASSUME NEW kind \in {"eof", "err"}, Down(kind) PROVE Ending'
  <2>1. ~eof /\ ~(box.kind = "data" /\ box.bytes = <<>>)
    BY <1>0, <1>5 DEF Down, Ending
  <2>2. parked.live => buffer = <<>>
    BY <1>0 DEF Parking, NoRead
  <2>3. /\ UNCHANGED <<eof, buffer>> /\ op' = "down" /\ end' = kind
        /\ IF parked.live THEN box' = IF kind = "eof" THEN Data(<<>>) ELSE Failed("error")
                          ELSE box' = box
    BY <1>5 DEF Down, Settle
  <2>4. Failed("error").kind # "data"
    BY DEF Failed
  <2> QED
    BY <2>1, <2>2, <2>3, <2>4 DEF Ending
<1>6. CASE RecvSubmit \/ Close
  BY <1>b, <1>6 DEF RecvSubmit, Close
<1>7. CASE Interrupt
  <2>1. box'.kind # "data" /\ UNCHANGED <<eof, buffer, end>>
    BY <1>7 DEF Interrupt, NoAnswer
  <2> QED
    BY <1>0, <1>a, <2>1 DEF Ending
<1>8. CASE RunRead
  <2>1. UNCHANGED <<end, eof>>
    BY <1>8 DEF RunRead
  <2>2. CASE buffer = <<>> /\ end = "no"
    BY <1>b, <1>8, <2>2 DEF RunRead
  <2>3. CASE ~(buffer = <<>> /\ end = "no")
    <3> DEFINE answer == IF buffer = <<>> /\ end = "err" THEN Failed("error") ELSE Data(buffer)
    <3>1. buffer' = <<>> /\ (box' = box \/ box' = answer)
      BY <1>8, <2>3 DEF RunRead, Settle
    <3>2. CASE box' = box
      BY <1>0, <1>a, <2>1, <3>1, <3>2 DEF Ending
    <3>3. CASE box' = answer
      <4>1. answer.kind = "data" /\ answer.bytes = <<>> => buffer = <<>> /\ end # "err"
        BY DEF Data, Failed
      <4>2. answer.kind = "data" /\ answer.bytes = <<>> => end = "eof"
        BY <1>0, <2>3, <4>1 DEF StreamTypes
      <4> HIDE DEF answer
      <4> QED
        BY <1>0, <1>a, <2>1, <3>1, <3>3, <4>2 DEF Ending
    <3> QED
      BY <3>1, <3>2, <3>3
  <2> QED
    BY <2>2, <2>3
<1>9. CASE RunClose
  BY <1>b, <1>9 DEF RunClose, reader
<1>10. CASE ReadTimeout
  <2>1. UNCHANGED <<eof, buffer, end>> /\ (box' = box \/ box' = Failed("timeout"))
    BY <1>10 DEF ReadTimeout, Settle
  <2>2. Failed("timeout").kind # "data"
    BY DEF Failed
  <2> QED
    BY <1>0, <1>a, <2>1, <2>2 DEF Ending
<1>11. CASE MakeFile \/ FileRead \/ FileClose
  BY <1>b, <1>11 DEF MakeFile, FileRead, FileClose, reader, engine
<1>12. CASE DropSocket
  BY <1>b, <1>12 DEF DropSocket, reader
<1> QED
  BY <1>1, <1>2, <1>3, <1>4, <1>5, <1>6, <1>7, <1>8, <1>9, <1>10, <1>11, <1>12, StreamCases

\* settimeout() takes a timeout.
LEMMA TimedStep ==
  ASSUME StreamInv, [Next]_vars
  PROVE  Timed'
<1>1. timeo' = timeo \/ timeo' \in Timeouts
  BY DEF Next, Wrap, Engine, RunRead, RunClose, Caller, RecvSubmit, RecvBuffered, SetTimeout, Interrupt,
       Close, Send, MakeFile, FileRead, FileClose, DropSocket, Peer, SendEnds, Arrive, Down, Returns,
       RecvReturns, ReadTimeout, SendTimeout, reader, vars
<1> QED
  BY <1>1, SocketConstants DEF StreamInv, Timed

-----------------------------------------------------------------------------
(* The stream. *)

\* The bytes that are handed out or on their way are the ones that have arrived and
\* are not lost, in order.
Whole == Increasing(stream) /\ ToSet(stream) = (1 .. arrived) \ lost

\* Bytes may move along the stream.
LEMMA Moves ==
  ASSUME StreamInv, stream' = stream, UNCHANGED <<arrived, lost>>
  PROVE  Whole'
<1>1. Increasing(stream') /\ ToSet(stream') = (1 .. arrived') \ lost'
  BY DEF StreamInv, StreamInOrder
<1> QED
  BY <1>1 DEF Whole, Increasing, ToSet

\* They may be cut out of it.
LEMMA Loses ==
  ASSUME StreamInv, NEW a \in Seq(Nat), NEW b \in Seq(Nat), NEW c \in Seq(Nat),
         stream = (a \o b) \o c, stream' = a \o c, lost' = lost \cup ToSet(b), UNCHANGED arrived
  PROVE  Whole'
<1>1. Increasing((a \o b) \o c) /\ ToSet((a \o b) \o c) = (1 .. arrived) \ lost
  BY DEF StreamInv, StreamInOrder
<1>2. Increasing(a \o c) /\ ToSet(a \o c) = ToSet((a \o b) \o c) \ ToSet(b)
  BY <1>1, CutOut
<1>3. Increasing(stream') /\ ToSet(stream') = (1 .. arrived') \ lost'
  BY <1>1, <1>2
<1> QED
  BY <1>3 DEF Whole, Increasing, ToSet

\* The pieces, as they are put together.
LEMMA Layout ==
  ASSUME StreamTypes
  PROVE  /\ out \in Seq(Nat) /\ fbuf \in Seq(Nat) /\ rbuf \in Seq(Nat) /\ buffer \in Seq(Nat)
         /\ box.bytes \in Seq(Nat) /\ out \o fbuf \o rbuf \in Seq(Nat)
         /\ out \o fbuf \o rbuf \o box.bytes \in Seq(Nat)
         /\ \A s \in Seq(Nat) : s \o <<>> = s
<1>1. /\ out \in Seq(Nat) /\ fbuf \in Seq(Nat) /\ rbuf \in Seq(Nat) /\ buffer \in Seq(Nat)
      /\ box.bytes \in Seq(Nat)
  BY DEF StreamTypes
<1>2. out \o fbuf \in Seq(Nat)
  BY <1>1, ConcatBytes
<1>3. out \o fbuf \o rbuf \in Seq(Nat)
  BY <1>1, <1>2, ConcatBytes
<1>4. out \o fbuf \o rbuf \o box.bytes \in Seq(Nat)
  BY <1>1, <1>3, ConcatBytes
<1>5. ASSUME NEW s \in Seq(Nat) PROVE s \o <<>> = s
  BY ConcatEmptySeq
<1> QED
  BY <1>1, <1>3, <1>4, <1>5

\* Every step leaves the stream whole.
LEMMA WholeStep ==
  ASSUME StreamInv, [Next]_vars
  PROVE  Whole'
<1>0. StreamTypes /\ OneRead /\ Parking /\ Whole
  BY DEF StreamInv, StreamInOrder, Whole
<1> DEFINE front == out \o fbuf \o rbuf
<1>a. /\ out \in Seq(Nat) /\ fbuf \in Seq(Nat) /\ rbuf \in Seq(Nat) /\ buffer \in Seq(Nat)
      /\ box.bytes \in Seq(Nat) /\ front \in Seq(Nat) /\ front \o box.bytes \in Seq(Nat)
      /\ \A s \in Seq(Nat) : s \o <<>> = s
  BY <1>0, Layout
<1>b. stream = (front \o box.bytes) \o buffer
  BY DEF stream
<1>c. ASSUME UNCHANGED <<out, fbuf, rbuf, box, buffer, arrived, lost>> PROVE Whole'
  BY <1>c, Moves DEF stream
<1>d. ASSUME UNCHANGED <<out, fbuf, rbuf>> PROVE stream' = (front \o box'.bytes) \o buffer'
  BY <1>d DEF stream
<1>e. ASSUME NEW answer, Settle(parked, answer), answer.bytes = <<>>,
             UNCHANGED <<out, fbuf, rbuf, buffer, arrived>>
      PROVE  Whole'
  <2>1. parked.live => box.bytes = <<>>
    BY <1>0 DEF OneRead, Unawaited, NoAnswer
  <2>2. box'.bytes = box.bytes
    BY <1>e, <2>1 DEF Settle
  <2>3. ToSet(<<>>) = {}
    BY DEF ToSet
  <2>4. lost' = lost
    BY <1>e, <2>3 DEF Settle
  <2> QED
    BY <1>b, <1>d, <1>e, <2>2, <2>4, Moves
<1>1. CASE UNCHANGED seen
  BY <1>c, <1>1 DEF seen
<1>2. ASSUME NEW n \in 1 .. 2, RecvBuffered(n) PROVE Whole'
  <2>1. Give(rbuf, n) /\ UNCHANGED <<box, buffer, arrived, lost>>
    BY <1>2 DEF RecvBuffered, engine
  <2>2. out' \o fbuf' \o rbuf' = front
    BY <1>0, <1>a, <2>1, GiveKeeps
  <2> QED
    BY <1>b, <2>1, <2>2, Moves DEF stream
<1>3. ASSUME NEW n \in 1 .. 2, RecvReturns(n) PROVE Whole'
  <2>1. rbuf = <<>> /\ box' = NoAnswer /\ UNCHANGED <<buffer, arrived, lost>>
    BY <1>0, <1>3 DEF RecvReturns, engine, OneRead
  <2>2. box'.bytes = <<>>
    BY <2>1 DEF NoAnswer
  <2>3. CASE box.bytes # <<>>
    <3>1. Give(box.bytes, n)
      BY <1>3, <2>3 DEF RecvReturns
    <3>2. /\ out' \o fbuf' \o rbuf' = out \o fbuf \o box.bytes
          /\ out' \in Seq(Nat) /\ fbuf' \in Seq(Nat) /\ rbuf' \in Seq(Nat)
      BY <1>0, <1>a, <3>1, GiveKeeps
    <3>3. out \o fbuf \in Seq(Nat)
      BY <1>a, ConcatBytes
    <3>4. front = out \o fbuf
      BY <1>a, <2>1, <3>3
    <3>5. front \o box.bytes = out' \o fbuf' \o rbuf'
      BY <3>2, <3>4
    <3>6. (out' \o fbuf' \o rbuf') \o <<>> = out' \o fbuf' \o rbuf'
      BY <1>a, <3>5
    <3> QED
      BY <1>b, <2>1, <2>2, <3>5, <3>6, Moves DEF stream
  <2>4. CASE box.bytes = <<>>
    <3>1. UNCHANGED <<out, fbuf, rbuf>>
      BY <1>3, <2>4 DEF RecvReturns
    <3> QED
      BY <1>b, <1>d, <2>1, <2>2, <2>4, <3>1, Moves
  <2> QED
    BY <2>3, <2>4
<1>4. ASSUME NEW n \in 1 .. 2, Arrive(n) PROVE Whole'
  <2> DEFINE new == [i \in 1 .. n |-> arrived + i]
             bytes == buffer \o new
  <2>1. /\ new \in Seq(Nat) /\ Increasing(stream \o new)
        /\ ToSet(stream \o new) = (1 .. arrived + n) \ lost
    <3>1. stream \in Seq(Nat)
      BY <1>0, StreamPieces
    <3>2. arrived \in Nat /\ lost \subseteq 1 .. arrived /\ n \in Nat
      BY <1>0 DEF StreamTypes
    <3>3. Holds(stream, arrived, lost)
      BY <1>0 DEF Whole, Holds
    <3>4. new = [i \in 1 .. n |-> arrived + i]
      OBVIOUS
    <3> HIDE DEF front, new
    <3>5. new \in Seq(Nat) /\ Holds(stream \o new, arrived + n, lost)
      BY <3>1, <3>2, <3>3, <3>4, NextBytes, Zenon
    <3> QED
      BY <3>5 DEF Holds
  <2>2. /\ arrived' = arrived + n /\ UNCHANGED <<out, fbuf, rbuf>>
        /\ IF parked = NoRead THEN buffer' = bytes /\ UNCHANGED <<box, lost>>
           ELSE Settle(parked, Data(bytes)) /\ buffer' = <<>>
    BY <1>4 DEF Arrive
  <2>3. Data(bytes).bytes = bytes
    BY DEF Data
  <2> HIDE DEF new
  <2>4. bytes \in Seq(Nat) /\ stream \o new = (front \o box.bytes) \o bytes
    <3>1. front \o box.bytes \in Seq(Nat) /\ buffer \in Seq(Nat) /\ new \in Seq(Nat)
      BY <1>a, <2>1
    <3>2. bytes \in Seq(Nat)
      BY <3>1, ConcatBytes
    <3>3. ((front \o box.bytes) \o buffer) \o new = (front \o box.bytes) \o (buffer \o new)
      BY <3>1, Together, Zenon
    <3> QED
      BY <1>b, <3>2, <3>3
  <2> HIDE DEF bytes, front
  <2>5. CASE parked = NoRead \/ parked.live
    <3>1. lost' = lost
      BY <2>2, <2>5 DEF Settle
    <3>2. stream' = stream \o new
      <4>1. CASE parked = NoRead
        BY <1>d, <2>2, <2>4, <4>1
      <4>2. CASE parked # NoRead /\ parked.live
        <5>1. box.bytes = <<>> /\ box'.bytes = bytes /\ buffer' = <<>>
          BY <1>0, <2>2, <2>3, <4>2 DEF OneRead, Unawaited, NoAnswer, Settle
        <5>2. front \o bytes \in Seq(Nat)
          BY <1>a, <2>4, ConcatBytes
        <5> QED
          BY <1>a, <1>d, <2>2, <2>4, <5>1, <5>2
      <4> QED
        BY <2>5, <4>1, <4>2
    <3>3. Increasing(stream') /\ ToSet(stream') = (1 .. arrived') \ lost'
      BY <2>1, <2>2, <3>1, <3>2
    <3> QED
      BY <3>3 DEF Whole, Increasing, ToSet
  <2>6. CASE parked # NoRead /\ ~parked.live
    <3>1. stream' = front \o box.bytes /\ lost' = lost \cup ToSet(bytes)
      <4>1. box' = box /\ buffer' = <<>> /\ lost' = lost \cup ToSet(bytes)
        BY <2>2, <2>3, <2>6 DEF Settle
      <4> QED
        BY <1>a, <1>d, <2>2, <4>1
    <3> DEFINE a == front \o box.bytes
    <3>2. a \in Seq(Nat) /\ <<>> \in Seq(Nat) /\ a \o <<>> = a /\ a \o bytes \in Seq(Nat)
      BY <1>a, <2>4, ConcatBytes
    <3>3. Increasing((a \o bytes) \o <<>>) /\ (a \o bytes) \o <<>> = a \o bytes
      BY <1>a, <2>1, <2>4, <3>2
    <3> HIDE DEF a
    <3>4. Increasing(a \o <<>>) /\ ToSet(a \o <<>>) = ToSet((a \o bytes) \o <<>>) \ ToSet(bytes)
      <4> DEFINE c == <<>>
      <4>1. a \in Seq(Nat) /\ bytes \in Seq(Nat) /\ c \in Seq(Nat) /\ Increasing((a \o bytes) \o c)
        BY <2>4, <3>2, <3>3
      <4> HIDE DEF c
      <4>2. Increasing(a \o c) /\ ToSet(a \o c) = ToSet((a \o bytes) \o c) \ ToSet(bytes)
        BY <4>1, CutOut
      <4> QED
        BY <4>2 DEF c
    <3>5. Increasing(stream') /\ ToSet(stream') = (1 .. arrived') \ lost'
      BY <2>1, <2>2, <2>4, <3>1, <3>2, <3>3, <3>4 DEF a
    <3> QED
      BY <3>5 DEF Whole, Increasing, ToSet
  <2> QED
    BY <2>5, <2>6
<1>5. ASSUME NEW kind \in {"eof", "err"}, Down(kind) PROVE Whole'
  <2> DEFINE answer == IF kind = "eof" THEN Data(<<>>) ELSE Failed("error")
  <2>1. answer.bytes = <<>>
    BY DEF Data, Failed
  <2>2. Settle(parked, answer) /\ UNCHANGED <<out, fbuf, rbuf, buffer, arrived>>
    BY <1>5 DEF Down
  <2> QED
    BY <1>e, <2>1, <2>2
<1>6. CASE RecvSubmit \/ Close
  BY <1>c, <1>6 DEF RecvSubmit, Close, app
<1>7. CASE Interrupt
  <2>1. /\ UNCHANGED <<out, fbuf, rbuf, buffer, arrived>> /\ box' = NoAnswer
        /\ lost' = lost \cup ToSet(box.bytes)
    BY <1>7 DEF Interrupt
  <2>2. box'.bytes = <<>>
    BY <2>1 DEF NoAnswer
  <2>3. stream' = front \o buffer
    BY <1>a, <1>d, <2>1, <2>2
  <2> HIDE DEF front
  <2> QED
    BY <1>a, <1>b, <2>1, <2>3, Loses
<1>8. CASE RunRead
  <2>1. UNCHANGED <<out, fbuf, rbuf, arrived>>
    BY <1>8 DEF RunRead
  <2>2. CASE buffer = <<>> /\ end = "no"
    BY <1>c, <1>8, <2>2 DEF RunRead
  <2>3. CASE ~(buffer = <<>> /\ end = "no")
    <3> DEFINE answer == IF buffer = <<>> /\ end = "err" THEN Failed("error") ELSE Data(buffer)
    <3>1. answer.bytes = buffer
      BY DEF Data, Failed
    <3>2. Settle(Head(queue), answer) /\ buffer' = <<>>
      BY <1>8, <2>3 DEF RunRead
    <3> HIDE DEF answer, front
    <3>3. CASE Head(queue).live
      <4>1. box = NoAnswer
        <5>1. queue # <<>> /\ queue \in Seq(Reads)
          BY <1>0, <1>8 DEF RunRead, StreamTypes
        <5>2. 1 \in DOMAIN queue /\ Head(queue) = queue[1]
          BY <5>1, TailTasks
        <5> QED
          BY <1>0, <3>3, <5>2 DEF OneRead, Unawaited
      <4>2. box.bytes = <<>> /\ box'.bytes = buffer /\ lost' = lost
        BY <3>1, <3>2, <3>3, <4>1 DEF NoAnswer, Settle
      <4>3. front \o buffer \in Seq(Nat)
        BY <1>a, ConcatBytes
      <4>4. stream' = stream
        BY <1>a, <1>b, <1>d, <2>1, <3>2, <4>2, <4>3
      <4> QED
        BY <2>1, <4>2, <4>4, Moves
    <3>4. CASE ~Head(queue).live
      <4>1. box' = box /\ lost' = lost \cup ToSet(buffer)
        BY <3>1, <3>2, <3>4 DEF Settle
      <4>2. stream' = (front \o box.bytes) \o <<>>
        BY <1>d, <2>1, <3>2, <4>1
      <4>3. ((front \o box.bytes) \o buffer) \in Seq(Nat) /\ <<>> \in Seq(Nat)
        BY <1>a, ConcatBytes
      <4>4. stream = ((front \o box.bytes) \o buffer) \o <<>>
        BY <1>a, <1>b, <4>3
      <4> QED
        BY <1>a, <2>1, <4>1, <4>2, <4>3, <4>4, Loses
    <3> QED
      BY <3>3, <3>4
  <2> QED
    BY <2>2, <2>3
<1>9. CASE RunClose
  BY <1>c, <1>9 DEF RunClose, reader
<1>10. CASE ReadTimeout
  <2>1. Failed("timeout").bytes = <<>>
    BY DEF Failed
  <2> QED
    BY <1>e, <1>10, <2>1 DEF ReadTimeout
<1>11. CASE MakeFile
  BY <1>c, <1>11 DEF MakeFile, reader, engine
<1>12. CASE FileRead
  <2>1. /\ fbuf # <<>> /\ out' = Append(out, Head(fbuf)) /\ fbuf' = Tail(fbuf)
        /\ UNCHANGED <<rbuf, box, buffer, arrived, lost>>
    BY <1>12 DEF FileRead, reader, engine
  <2>2. out' \o fbuf' = out \o fbuf
    <3>1. Head(fbuf) \in Nat /\ Tail(fbuf) \in Seq(Nat) /\ <<Head(fbuf)>> \in Seq(Nat)
      BY <1>a, <2>1, HeadTailProperties
    <3>2. Append(out, Head(fbuf)) = out \o <<Head(fbuf)>>
      BY <1>a, <3>1, AppendIsConcat
    <3>3. <<Head(fbuf)>> \o Tail(fbuf) = fbuf
      BY <1>a, <2>1, <3>1
    <3>4. (out \o <<Head(fbuf)>>) \o Tail(fbuf) = out \o (<<Head(fbuf)>> \o Tail(fbuf))
      <4> DEFINE first == <<Head(fbuf)>>
                 rest == Tail(fbuf)
      <4>1. out \in Seq(Nat) /\ first \in Seq(Nat) /\ rest \in Seq(Nat)
        BY <1>a, <3>1
      <4> HIDE DEF first, rest
      <4>2. (out \o first) \o rest = out \o (first \o rest)
        BY <4>1, Together, Zenon
      <4> QED
        BY <4>2 DEF first, rest
    <3> QED
      BY <2>1, <3>2, <3>3, <3>4
  <2> QED
    BY <1>b, <2>1, <2>2, Moves DEF stream
<1>13. CASE FileClose
  <2>1. /\ UNCHANGED <<out, rbuf, box, buffer, arrived>> /\ fbuf' = <<>>
        /\ lost' = lost \cup ToSet(fbuf)
    BY <1>13 DEF FileClose, reader, engine
  <2> DEFINE behind == rbuf \o (box.bytes \o buffer)
  <2>2. behind \in Seq(Nat)
    BY <1>a, ConcatBytes
  <2>3. \A s \in Seq(Nat) : ((s \o rbuf) \o box.bytes) \o buffer = s \o behind
    <3> TAKE s \in Seq(Nat)
    <3> DEFINE p == s \o rbuf
               q == box.bytes
               r == box.bytes \o buffer
    <3>1. p \in Seq(Nat) /\ q \in Seq(Nat) /\ buffer \in Seq(Nat)
      BY <1>a, ConcatBytes
    <3>2. rbuf \in Seq(Nat) /\ r \in Seq(Nat)
      BY <1>a, ConcatBytes
    <3> HIDE DEF p, q, r, front, behind
    <3>3. (p \o q) \o buffer = p \o (q \o buffer)
      BY <3>1, Together, Zenon
    <3>4. (s \o rbuf) \o r = s \o (rbuf \o r)
      BY <3>2, Together, Zenon
    <3> QED
      BY <3>3, <3>4 DEF p, q, r, behind
  <2>4. out \o fbuf \in Seq(Nat) /\ out \o <<>> = out
    BY <1>a, ConcatBytes
  <2>5. stream = (out \o fbuf) \o behind
    BY <1>b, <2>3, <2>4
  <2>6. stream' = out \o behind
    BY <1>a, <2>1, <2>3, <2>4 DEF stream
  <2> HIDE DEF behind
  <2> QED
    BY <1>a, <2>1, <2>2, <2>5, <2>6, Loses
<1>14. CASE DropSocket
  BY <1>c, <1>14 DEF DropSocket, reader, app
<1> QED
  BY <1>1, <1>2, <1>3, <1>4, <1>5, <1>6, <1>7, <1>8, <1>9, <1>10, <1>11, <1>12, <1>13, <1>14,
     StreamCases

-----------------------------------------------------------------------------
(* The invariant and the property. *)

\* A socket begins with an empty stream.
LEMMA StreamInit ==
  ASSUME Init
  PROVE  StreamInv
<1>1. /\ rbuf = <<>> /\ eof = FALSE /\ rd = "idle" /\ box = NoAnswer /\ queue = <<>>
      /\ parked = NoRead /\ buffer = <<>> /\ end = "no" /\ arrived = 0 /\ file = "none"
      /\ fbuf = <<>> /\ out = <<>> /\ lost = {} /\ stops = 0 /\ timeo = how.timeout
  BY DEF Init
<1>2. SocketInv
  BY SocketInit
<1>3. Timed
  BY <1>1, <1>2, WrapConstants DEF Timed, SocketInv, WrapTypeOK
<1>4. StreamTypes
  <2>1. <<>> \in Seq(Nat) /\ <<>> \in Seq(Reads)
    OBVIOUS
  <2>2. box \in [kind : {"none", "data", "error", "timeout"}, bytes : Seq(Nat)]
    BY <1>1, <2>1 DEF NoAnswer
  <2> QED
    BY <1>1, <2>1, <2>2, TaskTypes DEF StreamTypes
<1>5. OneRead /\ Parking /\ Orphans
  BY <1>1 DEF OneRead, Unawaited, Parking, Orphans, NoRead
<1>6. Ending
  BY <1>1 DEF Ending, NoAnswer
<1>7. stream = <<>>
  <2>1. box.bytes = <<>> /\ <<>> \o <<>> = <<>>
    BY <1>1 DEF NoAnswer
  <2> QED
    BY <1>1, <2>1 DEF stream
<1>8. Increasing(<<>>) /\ ToSet(<<>>) = {} /\ (1 .. 0) \ {} = {}
  BY DEF Increasing, ToSet
<1>9. StreamInOrder
  BY <1>1, <1>7, <1>8 DEF StreamInOrder
<1> QED
  BY <1>2, <1>3, <1>4, <1>5, <1>6, <1>9 DEF StreamInv

\* Nothing is lost unless the caller gives it up.
LEMMA LostStep ==
  ASSUME StreamInv, [Next]_vars, stops' = 0
  PROVE  lost' = {}
<1>0. Orphans /\ OneRead /\ StreamTypes /\ StreamInOrder
  BY DEF StreamInv
<1>a. ToSet(<<>>) = {}
  BY DEF ToSet
<1>b. stops \in Nat
  BY <1>0 DEF StreamTypes
<1>1. CASE UNCHANGED <<lost, stops>>
  BY <1>0, <1>1 DEF StreamInOrder
<1>2. ASSUME NEW n \in 1 .. 2, Arrive(n) PROVE lost' = {}
  <2>1. stops = 0
    BY <1>2 DEF Arrive
  <2>2. parked = NoRead \/ parked.live
    BY <1>0, <2>1 DEF Orphans
  <2>3. lost' = lost
    BY <1>2, <2>2 DEF Arrive, Settle
  <2> QED
    BY <1>0, <2>1, <2>3 DEF StreamInOrder
<1>3. ASSUME NEW kind \in {"eof", "err"}, Down(kind) PROVE lost' = {}
  <2>1. (IF kind = "eof" THEN Data(<<>>) ELSE Failed("error")).bytes = <<>>
    BY DEF Data, Failed
  <2>2. lost' = lost /\ stops = 0
    BY <1>3, <1>a, <2>1 DEF Down, Settle
  <2> QED
    BY <1>0, <2>2 DEF StreamInOrder
<1>4. CASE ReadTimeout
  <2>1. Failed("timeout").bytes = <<>>
    BY DEF Failed
  <2>2. lost' = lost /\ stops = 0
    BY <1>4, <1>a, <2>1 DEF ReadTimeout, Settle
  <2> QED
    BY <1>0, <2>2 DEF StreamInOrder
<1>5. CASE RunRead
  <2>1. stops = 0 /\ queue # <<>> /\ Head(queue).kind = "read" /\ queue \in Seq(Reads)
    BY <1>0, <1>5 DEF RunRead, StreamTypes
  <2>2. 1 \in DOMAIN queue /\ Head(queue) = queue[1]
    BY <2>1, TailTasks
  <2>3. Head(queue).live
    BY <1>0, <2>1, <2>2 DEF Orphans
  <2>4. lost' = lost
    BY <1>5, <2>3 DEF RunRead, Settle
  <2> QED
    BY <1>0, <2>1, <2>4 DEF StreamInOrder
<1>6. CASE Interrupt
  BY <1>b, <1>6 DEF Interrupt
<1>7. CASE FileClose
  <2>1. fbuf = <<>> /\ stops = 0
    BY <1>b, <1>7 DEF FileClose
  <2>2. lost' = lost
    BY <1>7, <1>a, <2>1 DEF FileClose
  <2> QED
    BY <1>0, <2>1, <2>2 DEF StreamInOrder
<1>8. ASSUME NEW n \in 1 .. 2, RecvBuffered(n) \/ RecvReturns(n) PROVE UNCHANGED <<lost, stops>>
  BY <1>8 DEF RecvBuffered, RecvReturns
<1>9. ASSUME UNCHANGED seen \/ RecvSubmit \/ RunClose \/ Close \/ MakeFile \/ FileRead \/ DropSocket
      PROVE  UNCHANGED <<lost, stops>>
  BY <1>9 DEF seen, RecvSubmit, RunClose, Close, MakeFile, FileRead, DropSocket, app
<1> QED
  BY <1>1, <1>2, <1>3, <1>4, <1>5, <1>6, <1>7, <1>8, <1>9, StreamCases

\* The invariant of the socket and of its stream, for any number of bytes.
THEOREM StreamInvariant == Spec => []StreamInv
<1>1. ASSUME StreamInv, [Next]_vars PROVE StreamInv'
  <2>1. SocketInv'
    BY <1>1, WrapTypeStep, LedgerStep, StagesStep, TransportStep, AnswersStep, QueuedStep
       DEF SocketInv, StreamInv
  <2>2. StreamInOrder'
    <3>1. Increasing(stream)' /\ (ToSet(stream) = (1 .. arrived) \ lost)'
      BY <1>1, WholeStep DEF Whole
    <3>2. (eof => end = "eof" /\ buffer = <<>>)'
      BY <1>1, EndingStep DEF Ending
    <3>3. (stops = 0 => lost = {})'
      BY <1>1, LostStep
    <3> QED
      BY <3>1, <3>2, <3>3 DEF StreamInOrder
  <2> QED
    BY <1>1, <2>1, <2>2, TimedStep, StreamTypesStep, OneReadStep, ParkingStep, OrphansStep, EndingStep
       DEF StreamInv
<1>2. StreamInv /\ [Next]_vars => StreamInv'
  BY <1>1
<1> QED
  BY <1>2, StreamInit, PTL DEF Spec

\* recv(), and the file over it, hand out exactly the bytes the peer sent, in order
\* and once, through chunks, the buffer, timeouts, close() and EOF; bytes are missing
\* only after the caller gave up a recv() or a file that had read ahead.
THEOREM BytesInOrder == Spec => []StreamInOrder
<1>1. StreamInv => StreamInOrder
  BY DEF StreamInv
<1> QED
  BY <1>1, StreamInvariant, PTL
=============================================================================
