--------------------------- MODULE TlsSocketProofs ---------------------------
(***************************************************************************)
(* Safety of wrap_socket(), handshake_async() and the TlsSocket they       *)
(* return, for any set of descriptor numbers, any calls, any servers and   *)
(* any timeouts: who closes which number, whose trust settings decide,     *)
(* what a late answer may do; and what timeout_to_ms() returns.            *)
(***************************************************************************)
EXTENDS TlsSocket, WellFoundedInduction, TLAPS

\* A number is in the books of the one who has to close it.
Ledger ==
  \A d \in Fds :
    /\ fds[d] = "caller" <=> sock = d
    /\ fds[d] = "core" <=> adopted = d
    /\ fds[d] = "stdlib" <=> fresh = d
    /\ fds[d] = "handle" => handle = d /\ (pc = "submit" \/ ~Convertible(how.timeout))

\* What a call has and has not got at each of its stages.
Stages ==
  /\ pc \in {"call", "prepare"} => handle = NoFd
  /\ pc \in {"call", "prepare", "submit"} => op = "none" /\ fut = "none" /\ posted = <<>>
  /\ pc \in {"prepare", "submit"} => held
  /\ pc = "submit" => handle \in Fds /\ fds[handle] = "handle"
  /\ pc = "retry" => fresh \in Fds
  /\ fresh # NoFd => pc = "retry" \/ result = "stdlib"
  /\ result # "none" => pc = "returned"

\* The transport holds the duplicated handle until it is down.
Transport ==
  /\ op \in {"queued", "shaking", "up"} => held /\ handle \in Fds /\ adopted = handle
  /\ op \in {"none", "down"} => adopted = NoFd

\* A call that has succeeded has a peer it trusts; one that has been downgraded, a
\* peer that has no TLS 1.3.
Answers ==
  /\ \/ fut = "result" \/ result = "fizz" \/ \E i \in DOMAIN posted : posted[i] = "result"
     => op \in {"up", "down"} /\ Trusted(cfg)
  /\ IsProtocolVersionFailure(error) => ~peer.tls13
  /\ pc \in {"downgrade", "retry"} => how.fallback /\ ~peer.tls13
  /\ result = "stdlib" => how.fallback /\ ~peer.tls13 /\ Trusted(cfg)

\* Only a socket that has been returned is closed.
Queued == queue # <<>> => result = "fizz"

SocketInv == WrapTypeOK /\ Ledger /\ Stages /\ Transport /\ Answers /\ Queued

-----------------------------------------------------------------------------
(* timeout_to_ms(). *)

\* The milliseconds timeout_to_ms() returns fit the core's field, are 0 exactly for
\* None, which the core takes for no deadline, and up to the maximum are the timeout
\* rounded up: no deadline is lost, and none comes early.
THEOREM TimeoutRange ==
  ASSUME NEW t \in Int \cup {NoTimeout}
  PROVE  /\ TimeoutToMs(t) \in 0 .. MaxMs
         /\ TimeoutToMs(t) = 0 <=> t = NoTimeout
         /\ t \in 1 .. 2 * MaxMs => t <= 2 * TimeoutToMs(t) /\ 2 * TimeoutToMs(t) <= t + 1
<1> USE DeadlineConstants
<1>1. CASE t = NoTimeout
  <2>1. TimeoutToMs(t) = 0 /\ t \notin Int
    BY <1>1 DEF TimeoutToMs
  <2>2. t \notin 1 .. 2 * MaxMs
    BY <2>1
  <2> QED
    BY <1>1, <2>1, <2>2
<1>2. CASE t \in Int
  <2> DEFINE ms == (t + 1) \div 2
  <2>1. t # NoTimeout
    BY <1>2
  <2>2. ms \in Int /\ t <= 2 * ms /\ 2 * ms <= t + 1
    BY <1>2
  <2>3. TimeoutToMs(t) = IF t <= 0 \/ ms < 1 THEN 1 ELSE IF ms > MaxMs THEN MaxMs ELSE ms
    BY <2>1 DEF TimeoutToMs
  <2> HIDE DEF ms
  <2>4. TimeoutToMs(t) \in 1 .. MaxMs
    BY <1>2, <2>2, <2>3
  <2>5. t \in 1 .. 2 * MaxMs => TimeoutToMs(t) = ms
    BY <1>2, <2>2, <2>3
  <2> QED
    BY <1>2, <2>1, <2>2, <2>4, <2>5
<1> QED
  BY <1>1, <1>2

-----------------------------------------------------------------------------
(* Descriptor numbers. *)

\* The lowest of some numbers is one of them.
LEMMA LowestIsMember ==
  ASSUME NEW S \in SUBSET Nat, S # {}
  PROVE  Min(S) \in S
<1> DEFINE R == OpToRel(<, Nat)
<1>1. IsWellFoundedOn(R, Nat)
  BY NatLessThanWellFounded
<1>2. PICK x \in S : \A y \in S : ~(<<y, x>> \in R)
  BY <1>1, WFMin
<1>3. \A i, j \in Nat : i < j => <<i, j>> \in R
  BY DEF OpToRel
<1> HIDE DEF R
<1>4. ASSUME NEW y \in S, y < x PROVE FALSE
  <2>1. x \in Nat /\ y \in Nat
    OBVIOUS
  <2>2. <<y, x>> \in R
    BY <1>3, <1>4, <2>1, Zenon
  <2> QED
    BY <1>2, <2>2, Zenon
<1>5. \A y \in S : x =< y
  BY <1>4
<1> QED
  BY <1>5 DEF Min

\* No number is NoFd.
LEMMA NumbersAreNumbers == NoFd \notin Fds
  BY WrapConstants DEF NoFd

\* What is opened was free.
LEMMA OpensFree ==
  ASSUME Free # {}
  PROVE  Min(Free) \in Fds /\ fds[Min(Free)] = "free"
<1>1. Free \in SUBSET Nat
  BY WrapConstants DEF Free
<1>2. Min(Free) \in Free
  BY <1>1, LowestIsMember
<1> QED
  BY <1>2 DEF Free

-----------------------------------------------------------------------------
(* The steps, by what they do. *)

kept == <<how, peer, ctx, cfg, sock, handle, adopted, fresh, fds, op, deadline, error, fut,
          posted, loop, held, result, process>>

\* The call raises, and leaves everything as it is.
Raises ==
  /\ pc \in {"call", "prepare", "submit", "wait", "downgrade"}
  /\ pc = "submit" => ~Convertible(how.timeout)
  /\ pc' = "raised"
  /\ UNCHANGED kept

\* The handshake fails.
ShakeFails ==
  /\ op \in {"queued", "shaking"}
  /\ \E e \in Errors, contained \in BOOLEAN :
       /\ IsProtocolVersionFailure(e) => ~peer.tls13
       /\ contained \/ op = "queued"
       /\ Fail(e, contained)
  /\ held' \in BOOLEAN

\* The transport goes down, or had gone or never come.
Falls ==
  /\ pc \notin {"call", "prepare", "submit"}
  /\ op \in {"none", "up", "down"}
  /\ op' \in {"none", "down"} /\ (op # "none" => op' = "down")
  /\ op = "none" => result # "fizz"
  /\ Release
  /\ held' \in BOOLEAN
  /\ UNCHANGED <<call, ctx, pc, sock, handle, fresh, deadline, error, bridge, result>>

\* A context's owner changes its settings, or the asyncio loop is closed.
Aside ==
  /\ ctx' \in Trust
  /\ loop' \in {"open", "closed"}
  /\ posted' \in {posted, <<>>}
  /\ UNCHANGED <<call, pc, numbers, core, fut, process, held, result>>

\* Every step is one of these.
LEMMA WrapCases ==
  ASSUME SocketInv, [Next]_vars
  PROVE  \/ Raises \/ Call \/ Dup \/ Submit \/ WakeOk \/ Downgrade \/ (NewSocket /\ Free # {})
         \/ RetryOk \/ RetryFails \/ RunWrap \/ HandshakeOk \/ ShakeFails \/ Falls \/ Deliver
         \/ Aside \/ StopWaiting \/ CallerCloses \/ OtherOpens
<1>1. ASSUME RefuseOptions \/ PrepareRaises \/ SubmitRaises \/ WakeRaises PROVE Raises
  BY <1>1 DEF RefuseOptions, PrepareRaises, SubmitRaises, WakeRaises, Raises, kept, call, numbers,
       core, bridge, Goto
<1>2. ASSUME NewSocket, Free = {} PROVE Raises
  BY <1>2 DEF NewSocket, Raises, kept, call, core, bridge, Goto
<1>3. IsProtocolVersionFailure(Untagged) = FALSE /\ Untagged \in Errors
  BY DEF IsProtocolVersionFailure, Untagged, Errors
<1>4. held \in BOOLEAN
  BY DEF SocketInv, WrapTypeOK
<1>5. ASSUME RunWrapFails \/ HandshakeTimeout PROVE ShakeFails
  BY <1>3, <1>4, <1>5 DEF RunWrapFails, HandshakeTimeout, ShakeFails
<1>6. ASSUME NEW e \in Errors, HandshakeFails(e) PROVE ShakeFails
  <2>1. IsProtocolVersionFailure(e) => ~peer.tls13
    BY <1>6 DEF HandshakeFails, Possible, IsProtocolVersionFailure, Errors
  <2> QED
    BY <1>4, <1>6, <2>1 DEF HandshakeFails, ShakeFails
<1>7. ASSUME Teardown, pc \in {"raised", "returned"}
      PROVE  ShakeFails \/ Falls
  <2>1. CASE op = "shaking"
    BY <1>3, <1>7, <2>1 DEF Teardown, ShakeFails
  <2>2. CASE op # "shaking"
    <3>1. op \in {"none", "up", "down"}
      BY <1>7, <2>2 DEF Teardown, SocketInv, WrapTypeOK
    <3>2. op = "none" => result # "fizz"
      BY DEF SocketInv, Answers
    <3> QED
      BY <1>7, <2>2, <3>1, <3>2 DEF Teardown, Falls
  <2> QED
    BY <2>1, <2>2
<1>8. ASSUME NEW kind, Down(kind) PROVE Falls
  <2>1. pc \notin {"call", "prepare", "submit"} /\ op = "up"
    BY <1>8 DEF Down, SocketInv, Stages
  <2> QED
    BY <1>4, <1>8, <2>1 DEF Down, Falls
<1>9. ASSUME RunClose PROVE Falls
  <2>1. result = "fizz" /\ pc = "returned" /\ op \in {"up", "down"}
    BY <1>9 DEF RunClose, SocketInv, Queued, Stages, Answers
  <2> QED
    BY <1>4, <1>9, <2>1 DEF RunClose, Falls
<1>10. ASSUME UNCHANGED wrapvars PROVE Aside
  BY <1>10 DEF wrapvars, Aside, SocketInv, WrapTypeOK, call, numbers, core, bridge
<1>11. ASSUME DropConn PROVE ShakeFails \/ Falls
  BY <1>7, <1>11 DEF DropConn
<1>12. ASSUME DropSocket PROVE ShakeFails \/ Falls
  <2>1. pc = "returned"
    BY <1>12 DEF DropSocket, Usable, SocketInv, Stages
  <2> QED
    BY <1>7, <1>12, <2>1 DEF DropSocket
<1>13. ASSUME CloseLoop PROVE Aside
  BY <1>13 DEF CloseLoop, Aside, call, numbers, core, SocketInv, WrapTypeOK
<1>14. ASSUME NEW trust \in Trust, Overwrite(trust) PROVE Aside
  <2>1. ctx \in Trust
    BY DEF SocketInv, WrapTypeOK
  <2>2. ctx' \in Trust
    BY <1>14, <2>1 DEF Overwrite, Trust
  <2> QED
    BY <1>14, <2>2 DEF Overwrite, Aside, bridge, SocketInv, WrapTypeOK
<1>15. CASE WrapNext
  BY <1>1, <1>2, <1>5, <1>6, <1>11, <1>13, <1>14, <1>15
     DEF WrapNext, Prepare, Wake, Shake, Environment
<1>16. CASE Engine
  BY <1>9, <1>10, <1>16 DEF Engine, RunRead
<1>17. CASE Caller
  BY <1>10, <1>12, <1>17 DEF Caller, RecvSubmit, RecvBuffered, SetTimeout, Interrupt, Close, Send,
       MakeFile, FileRead, FileClose
<1>18. CASE Peer \/ Returns \/ ReadTimeout \/ SendTimeout
  BY <1>8, <1>10, <1>18 DEF Peer, SendEnds, Arrive, Returns, RecvReturns, ReadTimeout, SendTimeout
<1>19. CASE UNCHANGED vars
  BY <1>10, <1>19 DEF vars
<1> QED
  BY <1>15, <1>16, <1>17, <1>18, <1>19 DEF Next, Wrap

-----------------------------------------------------------------------------
(* The invariant. *)

\* resolve() and reject() keep the types of the bridge.
LEMMA AnswerTypes ==
  ASSUME WrapTypeOK, NEW answer \in {"result", "error"}, NEW contained, Answer(answer, contained)
  PROVE  /\ posted' \in Seq({"result", "error"}) /\ process' \in {"alive", "terminated"}
         /\ fut' \in {"none", "pending", "result", "error", "cancelled"} /\ UNCHANGED loop
  BY DEF WrapTypeOK, Answer, Set

\* The steps keep the types.
LEMMA WrapTypeStep ==
  ASSUME SocketInv, [Next]_vars
  PROVE  WrapTypeOK'
<1> USE WrapConstants, NumbersAreNumbers
<1>0. WrapTypeOK /\ Ledger /\ Stages /\ Transport /\ Answers
  BY DEF SocketInv
<1>1. CASE Raises
  BY <1>0, <1>1 DEF Raises, kept, WrapTypeOK, Stages, Transport
<1>2. CASE Call
  BY <1>0, <1>2 DEF Call, Goto, numbers, core, bridge, WrapTypeOK, Stages, Transport
<1>3. CASE Dup
  BY <1>0, <1>3, OpensFree DEF Dup, Goto, Opened, call, core, bridge, WrapTypeOK, Stages,
     Transport
<1>4. CASE Submit
  <2>1. how.timeout \in Int \cup {NoTimeout}
    BY <1>0, <1>4 DEF Submit, Convertible, WrapTypeOK
  <2>2. deadline' \in 0 .. MaxMs
    BY <1>4, <2>1, TimeoutRange DEF Submit
  <2> QED
    BY <1>0, <1>4, <2>2 DEF Submit, Goto, call, WrapTypeOK, Stages
<1>5. CASE WakeOk
  BY <1>0, <1>5 DEF WakeOk, Goto, call, numbers, core, bridge, WrapTypeOK, Stages, Transport
<1>6. CASE Downgrade
  BY <1>0, <1>6 DEF Downgrade, Downgrades, Goto, Closed, call, core, bridge, WrapTypeOK, Stages,
     Transport
<1>7. CASE NewSocket /\ Free # {}
  BY <1>0, <1>7, OpensFree DEF NewSocket, Goto, Opened, call, core, bridge, WrapTypeOK, Stages,
     Transport
<1>8. CASE RetryOk
  BY <1>0, <1>8 DEF RetryOk, RetryTrust, Goto, call, numbers, core, bridge, WrapTypeOK, Stages,
     Transport
<1>9. CASE RetryFails
  BY <1>0, <1>9 DEF RetryFails, Goto, Closed, call, core, bridge, WrapTypeOK, Stages, Transport
<1>10. CASE RunWrap
  BY <1>0, <1>10 DEF RunWrap, call, numbers, bridge, WrapTypeOK, Stages, Transport
<1>11. CASE HandshakeOk
  <2>1. /\ posted' \in Seq({"result", "error"}) /\ process' \in {"alive", "terminated"}
        /\ fut' \in {"none", "pending", "result", "error", "cancelled"} /\ UNCHANGED loop
    BY <1>0, <1>11, AnswerTypes DEF HandshakeOk
  <2> QED
    BY <1>0, <1>11, <2>1 DEF HandshakeOk, call, numbers, WrapTypeOK
<1>12. CASE ShakeFails
  <2>1. /\ posted' \in Seq({"result", "error"}) /\ process' \in {"alive", "terminated"}
        /\ fut' \in {"none", "pending", "result", "error", "cancelled"} /\ UNCHANGED loop
    BY <1>0, <1>12, AnswerTypes DEF ShakeFails, Fail
  <2>2. fds' \in [Fds -> {"free", "caller", "handle", "core", "stdlib", "other"}] /\ adopted' = NoFd
    BY <1>0, <1>12 DEF ShakeFails, Fail, Release, Closed, WrapTypeOK
  <2> QED
    BY <1>0, <1>12, <2>1, <2>2 DEF ShakeFails, Fail, call, WrapTypeOK
<1>13. CASE Falls
  BY <1>0, <1>13 DEF Falls, Release, Closed, call, bridge, WrapTypeOK, Stages, Transport
<1>14. CASE Deliver
  BY <1>0, <1>14 DEF Deliver, Set, call, numbers, core, WrapTypeOK, Stages, Transport
<1>15. CASE Aside
  <2>1. posted' \in Seq({"result", "error"})
    <3>1. posted' = posted \/ posted' = <<>>
      BY <1>15 DEF Aside
    <3>2. posted \in Seq({"result", "error"}) /\ <<>> \in Seq({"result", "error"})
      BY <1>0 DEF WrapTypeOK
    <3> QED
      BY <3>1, <3>2
  <2> QED
    BY <1>0, <1>15, <2>1 DEF Aside, call, numbers, core, WrapTypeOK
<1>16. CASE StopWaiting
  BY <1>0, <1>16 DEF StopWaiting, Goto, Set, call, numbers, core, WrapTypeOK, Stages, Transport
<1>17. CASE CallerCloses
  BY <1>0, <1>17 DEF CallerCloses, Closed, call, core, bridge, WrapTypeOK, Stages, Transport
<1>18. CASE OtherOpens
  BY <1>0, <1>18, OpensFree DEF OtherOpens, Opened, call, core, bridge, WrapTypeOK, Stages,
     Transport
<1> QED
  BY <1>1, <1>2, <1>3, <1>4, <1>5, <1>6, <1>7, <1>8, <1>9, <1>10, <1>11, <1>12, <1>13, <1>14,
     <1>15, <1>16, <1>17, <1>18, WrapCases

\* Who opens a number writes it down, who closes it strikes it out, and nobody
\* closes a number of another.
LEMMA LedgerStep ==
  ASSUME SocketInv, [Next]_vars
  PROVE  Ledger' /\ \A d \in Fds : fds[d] = "other" => fds'[d] = "other"
<1> USE WrapConstants, NumbersAreNumbers
<1>0. WrapTypeOK /\ Ledger /\ Stages /\ Transport /\ Answers
  BY DEF SocketInv
<1>1. CASE Raises
  BY <1>0, <1>1 DEF Raises, kept, WrapTypeOK, Ledger, Stages, Transport
<1>2. CASE Call
  BY <1>0, <1>2 DEF Call, Goto, numbers, core, bridge, WrapTypeOK, Ledger, Stages, Transport
<1>3. CASE Dup
  BY <1>0, <1>3, OpensFree DEF Dup, Goto, Opened, call, core, bridge, WrapTypeOK, Ledger,
     Stages, Transport
<1>4. CASE Submit
  BY <1>0, <1>4 DEF Submit, Goto, call, WrapTypeOK, Ledger, Stages, Transport
<1>5. CASE WakeOk
  BY <1>0, <1>5 DEF WakeOk, Goto, call, numbers, core, bridge, WrapTypeOK, Ledger, Stages,
     Transport
<1>6. CASE Downgrade
  BY <1>0, <1>6 DEF Downgrade, Downgrades, Goto, Closed, call, core, bridge, WrapTypeOK, Ledger,
     Stages, Transport
<1>7. CASE NewSocket /\ Free # {}
  BY <1>0, <1>7, OpensFree DEF NewSocket, Goto, Opened, call, core, bridge, WrapTypeOK, Ledger,
     Stages, Transport
<1>8. CASE RetryOk
  BY <1>0, <1>8 DEF RetryOk, RetryTrust, Goto, call, numbers, core, bridge, WrapTypeOK, Ledger,
     Stages, Transport
<1>9. CASE RetryFails
  BY <1>0, <1>9 DEF RetryFails, Goto, Closed, call, core, bridge, WrapTypeOK, Ledger, Stages,
     Transport
<1>10. CASE RunWrap
  BY <1>0, <1>10 DEF RunWrap, call, numbers, bridge, WrapTypeOK, Ledger, Stages, Transport
<1>11. CASE HandshakeOk
  BY <1>0, <1>11 DEF HandshakeOk, Answer, Set, call, numbers, WrapTypeOK, Ledger, Stages,
     Transport
<1>12. CASE ShakeFails
  BY <1>0, <1>12 DEF ShakeFails, Fail, Release, Closed, Answer, Set, call, WrapTypeOK, Ledger,
     Stages, Transport
<1>13. CASE Falls
  BY <1>0, <1>13 DEF Falls, Release, Closed, call, bridge, WrapTypeOK, Ledger, Stages, Transport
<1>14. CASE Deliver
  BY <1>0, <1>14 DEF Deliver, Set, call, numbers, core, WrapTypeOK, Ledger, Stages, Transport
<1>15. CASE Aside
  BY <1>0, <1>15 DEF Aside, call, numbers, core, WrapTypeOK, Ledger, Stages, Transport
<1>16. CASE StopWaiting
  BY <1>0, <1>16 DEF StopWaiting, Goto, Set, call, numbers, core, WrapTypeOK, Ledger, Stages,
     Transport
<1>17. CASE CallerCloses
  BY <1>0, <1>17 DEF CallerCloses, Closed, call, core, bridge, WrapTypeOK, Ledger, Stages,
     Transport
<1>18. CASE OtherOpens
  BY <1>0, <1>18, OpensFree DEF OtherOpens, Opened, call, core, bridge, WrapTypeOK, Ledger,
     Stages, Transport
<1> QED
  BY <1>1, <1>2, <1>3, <1>4, <1>5, <1>6, <1>7, <1>8, <1>9, <1>10, <1>11, <1>12, <1>13, <1>14,
     <1>15, <1>16, <1>17, <1>18, WrapCases

\* The stages follow each other.
LEMMA StagesStep ==
  ASSUME SocketInv, [Next]_vars
  PROVE  Stages'
<1> USE WrapConstants, NumbersAreNumbers
<1>0. WrapTypeOK /\ Ledger /\ Stages /\ Transport /\ Answers
  BY DEF SocketInv
<1>1. CASE Raises
  BY <1>0, <1>1 DEF Raises, kept, WrapTypeOK, Stages, Transport, Answers
<1>2. CASE Call
  BY <1>0, <1>2 DEF Call, Goto, numbers, core, bridge, WrapTypeOK, Stages, Transport, Answers
<1>3. CASE Dup
  BY <1>0, <1>3, OpensFree DEF Dup, Goto, Opened, call, core, bridge, WrapTypeOK, Stages,
     Transport, Answers
<1>4. CASE Submit
  BY <1>0, <1>4 DEF Submit, Goto, call, WrapTypeOK, Stages, Transport, Answers
<1>5. CASE WakeOk
  BY <1>0, <1>5 DEF WakeOk, Goto, call, numbers, core, bridge, WrapTypeOK, Stages, Transport,
     Answers
<1>6. CASE Downgrade
  BY <1>0, <1>6 DEF Downgrade, Downgrades, Goto, Closed, call, core, bridge, WrapTypeOK, Stages,
     Transport, Answers
<1>7. CASE NewSocket /\ Free # {}
  BY <1>0, <1>7, OpensFree DEF NewSocket, Goto, Opened, call, core, bridge, WrapTypeOK, Stages,
     Transport, Answers
<1>8. CASE RetryOk
  BY <1>0, <1>8 DEF RetryOk, RetryTrust, Goto, call, numbers, core, bridge, WrapTypeOK, Stages,
     Transport, Answers
<1>9. CASE RetryFails
  BY <1>0, <1>9 DEF RetryFails, Goto, Closed, call, core, bridge, WrapTypeOK, Stages, Transport,
     Answers
<1>10. CASE RunWrap
  BY <1>0, <1>10 DEF RunWrap, call, numbers, bridge, WrapTypeOK, Stages, Transport, Answers
<1>11. CASE HandshakeOk
  BY <1>0, <1>11 DEF HandshakeOk, Answer, Set, call, numbers, WrapTypeOK, Stages, Transport,
     Answers
<1>12. CASE ShakeFails
  BY <1>0, <1>12 DEF ShakeFails, Fail, Release, Closed, Answer, Set, call, WrapTypeOK, Stages,
     Transport, Answers
<1>13. CASE Falls
  BY <1>0, <1>13 DEF Falls, Release, Closed, call, bridge, WrapTypeOK, Stages, Transport,
     Answers
<1>14. CASE Deliver
  BY <1>0, <1>14 DEF Deliver, Set, call, numbers, core, WrapTypeOK, Stages, Transport, Answers
<1>15. CASE Aside
  BY <1>0, <1>15 DEF Aside, call, numbers, core, WrapTypeOK, Stages, Transport, Answers
<1>16. CASE StopWaiting
  BY <1>0, <1>16 DEF StopWaiting, Goto, Set, call, numbers, core, WrapTypeOK, Stages, Transport,
     Answers
<1>17. CASE CallerCloses
  BY <1>0, <1>17 DEF CallerCloses, Closed, call, core, bridge, WrapTypeOK, Ledger, Stages
<1>18. CASE OtherOpens
  BY <1>0, <1>18, OpensFree DEF OtherOpens, Opened, call, core, bridge, WrapTypeOK, Stages,
     Transport, Answers
<1> QED
  BY <1>1, <1>2, <1>3, <1>4, <1>5, <1>6, <1>7, <1>8, <1>9, <1>10, <1>11, <1>12, <1>13, <1>14,
     <1>15, <1>16, <1>17, <1>18, WrapCases

\* The transport gives the handle up when it goes down.
LEMMA TransportStep ==
  ASSUME SocketInv, [Next]_vars
  PROVE  Transport'
<1> USE WrapConstants, NumbersAreNumbers
<1>0. WrapTypeOK /\ Ledger /\ Stages /\ Transport /\ Answers
  BY DEF SocketInv
<1>1. CASE Raises
  BY <1>0, <1>1 DEF Raises, kept, WrapTypeOK, Stages, Transport
<1>2. CASE Call
  BY <1>0, <1>2 DEF Call, Goto, numbers, core, bridge, WrapTypeOK, Stages, Transport
<1>3. CASE Dup
  BY <1>0, <1>3, OpensFree DEF Dup, Goto, Opened, call, core, bridge, WrapTypeOK, Stages,
     Transport
<1>4. CASE Submit
  BY <1>0, <1>4 DEF Submit, Goto, call, WrapTypeOK, Stages, Transport
<1>5. CASE WakeOk
  BY <1>0, <1>5 DEF WakeOk, Goto, call, numbers, core, bridge, WrapTypeOK, Stages, Transport
<1>6. CASE Downgrade
  BY <1>0, <1>6 DEF Downgrade, Downgrades, Goto, Closed, call, core, bridge, WrapTypeOK, Stages,
     Transport
<1>7. CASE NewSocket /\ Free # {}
  BY <1>0, <1>7, OpensFree DEF NewSocket, Goto, Opened, call, core, bridge, WrapTypeOK, Stages,
     Transport
<1>8. CASE RetryOk
  BY <1>0, <1>8 DEF RetryOk, RetryTrust, Goto, call, numbers, core, bridge, WrapTypeOK, Stages,
     Transport
<1>9. CASE RetryFails
  BY <1>0, <1>9 DEF RetryFails, Goto, Closed, call, core, bridge, WrapTypeOK, Stages, Transport
<1>10. CASE RunWrap
  BY <1>0, <1>10 DEF RunWrap, call, numbers, bridge, WrapTypeOK, Stages, Transport
<1>11. CASE HandshakeOk
  BY <1>0, <1>11 DEF HandshakeOk, Answer, Set, call, numbers, WrapTypeOK, Stages, Transport
<1>12. CASE ShakeFails
  BY <1>0, <1>12 DEF ShakeFails, Fail, Release, Closed, Answer, Set, call, WrapTypeOK, Stages,
     Transport
<1>13. CASE Falls
  BY <1>0, <1>13 DEF Falls, Release, Closed, call, bridge, WrapTypeOK, Stages, Transport
<1>14. CASE Deliver
  BY <1>0, <1>14 DEF Deliver, Set, call, numbers, core, WrapTypeOK, Stages, Transport
<1>15. CASE Aside
  BY <1>0, <1>15 DEF Aside, call, numbers, core, WrapTypeOK, Stages, Transport
<1>16. CASE StopWaiting
  BY <1>0, <1>16 DEF StopWaiting, Goto, Set, call, numbers, core, WrapTypeOK, Stages, Transport
<1>17. CASE CallerCloses
  BY <1>0, <1>17 DEF CallerCloses, Closed, call, core, bridge, WrapTypeOK, Stages, Transport
<1>18. CASE OtherOpens
  BY <1>0, <1>18, OpensFree DEF OtherOpens, Opened, call, core, bridge, WrapTypeOK, Stages,
     Transport
<1> QED
  BY <1>1, <1>2, <1>3, <1>4, <1>5, <1>6, <1>7, <1>8, <1>9, <1>10, <1>11, <1>12, <1>13, <1>14,
     <1>15, <1>16, <1>17, <1>18, WrapCases

\* Success and downgrade are earned.
LEMMA AnswersStep ==
  ASSUME SocketInv, [Next]_vars
  PROVE  Answers'
<1> USE WrapConstants
<1>0. WrapTypeOK /\ Ledger /\ Stages /\ Transport /\ Answers
  BY DEF SocketInv
<1>1. CASE Raises
  BY <1>0, <1>1 DEF Raises, kept, WrapTypeOK, Stages, Answers, Trusted, Resolved
<1>2. CASE Call
  BY <1>0, <1>2 DEF Call, Goto, numbers, core, bridge, WrapTypeOK, Stages, Answers, Trusted,
     Resolved
<1>3. CASE Dup
  BY <1>0, <1>3, OpensFree DEF Dup, Goto, Opened, call, core, bridge, WrapTypeOK, Stages,
     Answers, Trusted, Resolved
<1>4. CASE Submit
  BY <1>0, <1>4 DEF Submit, Goto, call, WrapTypeOK, Stages, Answers, Trusted, Resolved
<1>5. CASE WakeOk
  BY <1>0, <1>5 DEF WakeOk, Goto, call, numbers, core, bridge, WrapTypeOK, Stages, Answers,
     Trusted, Resolved
<1>6. CASE Downgrade
  BY <1>0, <1>6 DEF Downgrade, Downgrades, Goto, Closed, call, core, bridge, WrapTypeOK, Stages,
     Answers, Trusted, Resolved
<1>7. CASE NewSocket /\ Free # {}
  BY <1>0, <1>7, OpensFree DEF NewSocket, Goto, Opened, call, core, bridge, WrapTypeOK, Stages,
     Answers, Trusted, Resolved
<1>8. CASE RetryOk
  BY <1>0, <1>8 DEF RetryOk, RetryTrust, Goto, call, numbers, core, bridge, WrapTypeOK, Stages,
     Answers, Trusted, Resolved
<1>9. CASE RetryFails
  BY <1>0, <1>9 DEF RetryFails, Goto, Closed, call, core, bridge, WrapTypeOK, Stages, Answers,
     Trusted, Resolved
<1>10. CASE RunWrap
  BY <1>0, <1>10 DEF RunWrap, call, numbers, bridge, WrapTypeOK, Stages, Answers, Trusted,
     Resolved
<1>11. CASE HandshakeOk
  BY <1>0, <1>11 DEF HandshakeOk, Answer, Set, call, numbers, WrapTypeOK, Stages, Answers,
     Trusted, Resolved
<1>12. CASE ShakeFails
  <2>1. fut # "result" /\ result # "fizz" /\ ~\E i \in DOMAIN posted : posted[i] = "result"
    BY <1>0, <1>12 DEF ShakeFails, Answers
  <2>2. fut' # "result"
    BY <1>12, <2>1 DEF ShakeFails, Fail, Answer, Set
  <2>3. posted' = posted \/ posted' = Append(posted, "error")
    BY <1>12 DEF ShakeFails, Fail, Answer
  <2>4. ~\E i \in DOMAIN posted' : posted'[i] = "result"
    <3>1. posted \in Seq({"result", "error"})
      BY <1>0 DEF WrapTypeOK
    <3>2. ASSUME posted' = Append(posted, "error"), NEW i \in DOMAIN posted'
          PROVE  posted'[i] # "result"
      <4>1. i \in 1 .. Len(posted) + 1
        BY <3>1, <3>2
      <4>2. CASE i \in 1 .. Len(posted)
        BY <2>1, <3>1, <3>2, <4>2
      <4>3. CASE i = Len(posted) + 1
        BY <3>1, <3>2, <4>3
      <4> QED
        BY <4>1, <4>2, <4>3, <3>1
    <3> QED
      BY <2>1, <2>3, <3>2
  <2>5. IsProtocolVersionFailure(error') => ~peer.tls13
    BY <1>12 DEF ShakeFails, Fail
  <2>6. UNCHANGED <<how, peer, cfg, pc, result>>
    BY <1>12 DEF ShakeFails, Fail, call
  <2> QED
    BY <1>0, <2>1, <2>2, <2>4, <2>5, <2>6 DEF Answers, Trusted, IsProtocolVersionFailure
<1>13. CASE Falls
  BY <1>0, <1>13 DEF Falls, Release, Closed, call, bridge, WrapTypeOK, Stages, Answers, Trusted,
     Resolved
<1>14. CASE Deliver
  BY <1>0, <1>14 DEF Deliver, Set, call, numbers, core, WrapTypeOK, Stages, Answers, Trusted,
     Resolved
<1>15. CASE Aside
  BY <1>0, <1>15 DEF Aside, call, numbers, core, WrapTypeOK, Stages, Answers, Trusted, Resolved
<1>16. CASE StopWaiting
  BY <1>0, <1>16 DEF StopWaiting, Goto, Set, call, numbers, core, WrapTypeOK, Stages, Answers,
     Trusted, Resolved
<1>17. CASE CallerCloses
  BY <1>0, <1>17 DEF CallerCloses, Closed, call, core, bridge, WrapTypeOK, Stages, Answers,
     Trusted, Resolved
<1>18. CASE OtherOpens
  BY <1>0, <1>18, OpensFree DEF OtherOpens, Opened, call, core, bridge, WrapTypeOK, Stages,
     Answers, Trusted, Resolved
<1> QED
  BY <1>1, <1>2, <1>3, <1>4, <1>5, <1>6, <1>7, <1>8, <1>9, <1>10, <1>11, <1>12, <1>13, <1>14,
     <1>15, <1>16, <1>17, <1>18, WrapCases

\* Only a socket that has been returned has tasks.
LEMMA QueuedStep ==
  ASSUME SocketInv, [Next]_vars
  PROVE  Queued'
<1>0. Stages /\ Queued
  BY DEF SocketInv
<1>1. result = "fizz" => result' = "fizz"
  <2>1. result = "fizz" => pc = "returned"
    BY <1>0 DEF Stages
  <2>2. ASSUME RetryOk PROVE pc = "retry"
    BY <2>2 DEF RetryOk
  <2>3. ASSUME WakeOk PROVE result' = "fizz"
    BY <2>3 DEF WakeOk
  <2>4. ASSUME ~RetryOk, ~WakeOk PROVE result' = result
    BY <2>4, WrapCases DEF Raises, kept, Call, Dup, Submit, Downgrade, NewSocket, RetryFails, RunWrap,
         HandshakeOk, ShakeFails, Fail, Falls, Deliver, Aside, StopWaiting, CallerCloses, OtherOpens
  <2> QED
    BY <2>1, <2>2, <2>3, <2>4
<1>2. queue' # <<>> => queue # <<>> \/ result = "fizz"
  <2>1. CASE Wrap \/ Peer \/ Returns \/ ReadTimeout \/ SendTimeout \/ UNCHANGED vars
    BY <2>1 DEF Wrap, Peer, SendEnds, Arrive, Down, Returns, RecvReturns, ReadTimeout, SendTimeout,
         engine, vars
  <2>2. CASE Engine
    BY <2>2 DEF Engine, RunRead, RunClose
  <2>3. CASE Interrupt
    <3>1. queue = <<>> => queue' = <<>>
      BY <2>3 DEF Interrupt
    <3> QED
      BY <3>1
  <2>4. CASE Caller /\ ~Interrupt
    BY <2>4 DEF Caller, RecvSubmit, RecvBuffered, SetTimeout, Close, Send, MakeFile, FileRead,
         FileClose, DropSocket, Usable, engine
  <2> QED
    BY <2>1, <2>2, <2>3, <2>4 DEF Next
<1> QED
  BY <1>0, <1>1, <1>2 DEF Queued

\* A call begins with one number, the caller's.
LEMMA SocketInit ==
  ASSUME Init
  PROVE  SocketInv
<1> USE WrapConstants, NumbersAreNumbers
<1>1. sock \in Fds /\ fds = [d \in Fds |-> IF d = sock THEN "caller" ELSE "free"]
  BY LowestIsMember DEF Init, WrapInit
<1>2. /\ handle = NoFd /\ adopted = NoFd /\ fresh = NoFd /\ pc = "call" /\ op = "none"
      /\ fut = "none" /\ posted = <<>> /\ result = "none" /\ queue = <<>> /\ error = Untagged
  BY DEF Init, WrapInit
<1>3. WrapTypeOK
  <2>1. how \in Uses /\ peer \in Peers /\ ctx \in Trust /\ cfg \in Trust
    BY DEF Init, WrapInit
  <2>2. deadline \in 0 .. MaxMs /\ error \in Errors
    BY DeadlineConstants DEF Init, WrapInit, Untagged, Errors
  <2>3. loop = "open" /\ process = "alive" /\ held \in BOOLEAN
    BY DEF Init, WrapInit
  <2>4. {sock, handle, adopted, fresh} \subseteq Fds \cup {NoFd}
    BY <1>1, <1>2
  <2>5. fds \in [Fds -> {"free", "caller", "handle", "core", "stdlib", "other"}]
    BY <1>1
  <2>6. posted \in Seq({"result", "error"})
    BY <1>2
  <2> QED
    BY <1>2, <2>1, <2>2, <2>3, <2>4, <2>5, <2>6 DEF WrapTypeOK
<1>4. Ledger /\ Stages /\ Transport /\ Queued
  BY <1>1, <1>2 DEF Ledger, Stages, Transport, Queued
<1>5. Answers
  BY <1>2 DEF Answers, IsProtocolVersionFailure, Untagged
<1> QED
  BY <1>3, <1>4, <1>5 DEF SocketInv

\* The invariant holds for every set of descriptor numbers, calls, servers and
\* timeouts, and however many bytes and interruptions there are.
THEOREM SocketInvariant == Spec => []SocketInv
<1>1. SocketInv /\ [Next]_vars => SocketInv'
  BY WrapTypeStep, LedgerStep, StagesStep, TransportStep, AnswersStep, QueuedStep DEF SocketInv
<1> QED
  BY <1>1, SocketInit, PTL DEF Spec

-----------------------------------------------------------------------------
(* The properties. *)

\* Every descriptor number has exactly one owner that closes it, whether the
\* handshake succeeds, fails, is abandoned or is repeated over the standard library;
\* only a timeout that cannot be converted leaves a number behind.  While the stream
\* is up, fileno() is the number the core reads from.
THEOREM NumbersAccounted == Spec => []DescriptorsAccounted
<1>1. ASSUME SocketInv PROVE DescriptorsAccounted
  <2>1. fresh # NoFd => pc = "retry" \/ result = "stdlib"
    BY <1>1 DEF SocketInv, Stages
  <2>2. adopted # NoFd => held /\ op \notin {"none", "down"}
    BY <1>1 DEF SocketInv, WrapTypeOK, Transport
  <2>3. ASSUME Fileno \notin {NoFd, adopted} PROVE op = "down"
    <3>1. Usable /\ handle # adopted
      BY <2>3 DEF Fileno
    <3>2. op \in {"up", "down"}
      BY <1>1, <3>1 DEF SocketInv, Answers, Usable
    <3> QED
      BY <1>1, <3>1, <3>2 DEF SocketInv, Transport
  <2> QED
    BY <1>1, <2>1, <2>2, <2>3 DEF DescriptorsAccounted, SocketInv, Ledger
<1> QED
  BY <1>1, SocketInvariant, PTL

\* wrap_socket() and handshake_async() return only with a peer that the settings of
\* this very call accept, though another request may rewrite the shared context at
\* any moment; and they leave TLS 1.3 only with fallback and only for a peer that
\* does not speak it.
THEOREM TrustIsTheCalls == Spec => []SameTrust
<1>1. ASSUME SocketInv PROVE SameTrust
  <2>1. result \in {"none", "fizz", "stdlib"}
    BY <1>1 DEF SocketInv, WrapTypeOK
  <2> QED
    BY <1>1, <2>1 DEF SocketInv, Answers, SameTrust
<1> QED
  BY <1>1, SocketInvariant, PTL

\* No step of the call, the core or the socket closes a number that by then belongs
\* to another part of the process.
THEOREM OthersKeepTheirs == Spec => NeverClosesOthers
<1>1. SocketInv /\ [Next]_vars => [\A d \in Fds : fds[d] = "other" => fds'[d] = "other"]_vars
  BY LedgerStep
<1> QED
  BY <1>1, SocketInvariant, PTL DEF Spec, NeverClosesOthers

\* resolve() and reject() leave a future alone that is settled, and an exception of
\* theirs ends the process only where the core does not contain it: after a handshake
\* that has succeeded or that could not be set up, with the asyncio loop closed.
THEOREM LateIsHarmless == Spec => LateAnswers
<1> DEFINE Late ==
      /\ fut \notin {"none", "pending"} => fut' = fut
      /\ process' # process => loop = "closed" /\ (op = "queued" \/ op' = "up")
<1>1. ASSUME SocketInv, [Next]_vars PROVE Late
  <2>1. CASE Submit
    <3>1. fut = "none"
      BY <1>1, <2>1 DEF Submit, SocketInv, Stages
    <3> QED
      BY <2>1, <3>1 DEF Submit
  <2>2. CASE HandshakeOk
    BY <2>2 DEF HandshakeOk, Answer, Set
  <2>3. CASE ShakeFails
    BY <2>3 DEF ShakeFails, Fail, Answer, Set
  <2>4. CASE Deliver \/ StopWaiting
    BY <2>4 DEF Deliver, StopWaiting, Set
  <2>5. CASE Raises \/ Call \/ Dup \/ WakeOk \/ Downgrade \/ NewSocket \/ RetryOk \/ RetryFails
             \/ RunWrap \/ Falls \/ Aside \/ CallerCloses \/ OtherOpens
    BY <2>5 DEF Raises, kept, Call, Dup, WakeOk, Downgrade, NewSocket, RetryOk, RetryFails, RunWrap,
         Falls, Aside, CallerCloses, OtherOpens, bridge
  <2> QED
    BY <1>1, <2>1, <2>2, <2>3, <2>4, <2>5, WrapCases
<1>2. SocketInv /\ [Next]_vars => [Late]_vars
  BY <1>1
<1> QED
  BY <1>2, SocketInvariant, PTL DEF Spec, LateAnswers
=============================================================================
