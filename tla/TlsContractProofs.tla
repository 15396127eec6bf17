------------------------- MODULE TlsContractProofs -------------------------
(***************************************************************************)
(* TlsConnection implements ConnectionContract, for every value of its     *)
(* constants: each action of the native core is one action of the contract *)
(* or leaves what the contract sees alone.                                 *)
(***************************************************************************)
EXTENDS TlsConnectionProofs

\* The stream is over, as the contract sees it.
Ended == client = "dead" \/ life \in {"torn", "freed"}

\* A recorded end belongs to a transport that is gone.
EndIsKept == eof \/ readErr => Ended

\* What the proof of the refinement uses in each state.
ContractInv == IndInv /\ EndIsKept

ContractStep == [Contract!Next]_(Contract!cvars)

\* The operations of S, and no others, enter phase p.
Moves(S, p) ==
  \A o \in PromiseOps : PhaseOf(o)' = IF o \in S THEN p ELSE PhaseOf(o)

Stays(o) == PhaseOf(o)' = PhaseOf(o)

StreamStays == received' = received /\ delivered' = delivered

EndStays == Ended' <=> Ended

-----------------------------------------------------------------------------
(* The phases. *)

\* The phase that goes with a status.
PhaseTable(o, s, p) ==
  /\ s = "new" => p = "idle"
  /\ s \in Outstanding => p = "pending"
  /\ s \in {"dropped", "overwritten"} => p = "discarded"
  /\ s = "timedout" => p = "failed"
  /\ s = "resolved" => p = IF o \in Reads THEN "data" ELSE "ok"
  /\ s \in {"eof", "rejected"} => p = IF o \in Reads THEN "end" ELSE "failed"

\* Each operation is in the phase of its status, before a step and after it.
LEMMA PhaseFacts ==
  ASSUME NEW o
  PROVE  /\ PhaseTable(o, status[o], PhaseOf(o))
         /\ PhaseTable(o, status'[o], PhaseOf(o)')
         /\ status'[o] = status[o] => Stays(o)
<1>1. PhaseTable(o, status[o], PhaseOf(o))
  BY DEF PhaseTable, PhaseOf, Outstanding
<1>2. PhaseTable(o, status'[o], PhaseOf(o)')
  BY DEF PhaseTable, PhaseOf, Outstanding
<1>3. status'[o] = status[o] => Stays(o)
  BY DEF Stays, PhaseOf
<1>. QED
  BY <1>1, <1>2, <1>3

\* Steps that only one operation notices.
LEMMA OneMoves ==
  ASSUME NEW o \in PromiseOps, NEW p, PhaseOf(o)' = p,
         \A q \in PromiseOps \ {o} : status'[q] = status[q]
  PROVE  Moves({o}, p)
  BY PhaseFacts DEF Moves, Stays

\* Steps that move no operation into another phase.
LEMMA NoneMoves ==
  ASSUME \A o \in PromiseOps : status'[o] = status[o]
  PROVE  \A o \in PromiseOps : Stays(o)
  BY PhaseFacts

-----------------------------------------------------------------------------
(* The actions of the contract, in terms of TlsConnection. *)

\* A step the contract does not see.
LEMMA Unseen ==
  ASSUME \A o \in PromiseOps : Stays(o), abandoned' = abandoned, StreamStays, EndStays
  PROVE  ContractStep
<1>1. [o \in PromiseOps |-> PhaseOf(o)]' = [o \in PromiseOps |-> PhaseOf(o)]
  BY DEF Stays
<1>2. (client = "dead" \/ life \in {"torn", "freed"})'
        = (client = "dead" \/ life \in {"torn", "freed"})
  BY DEF EndStays, Ended
<1>3. Len(delivered)' = Len(delivered) /\ received' = received
  BY DEF StreamStays
<1>4. UNCHANGED Contract!cvars
  BY <1>1, <1>2, <1>3 DEF Contract!cvars
<1>. QED
  BY <1>4 DEF ContractStep

\* An operation is submitted.
LEMMA SubmitMaps ==
  ASSUME NEW o \in PromiseOps, PhaseOf(o) = "idle", Moves({o}, "pending"),
         abandoned' = abandoned, StreamStays, EndStays
  PROVE  ContractStep
<1>1. Contract!Submit(o)
  BY DEF Contract!Submit, Contract!Becomes, Moves, StreamStays, EndStays, Ended
<1>. QED
  BY <1>1 DEF ContractStep, Contract!Next

\* A caller gives up.
LEMMA GiveUpMaps ==
  ASSUME NEW o \in PromiseOps, PhaseOf(o) = "pending", \A q \in PromiseOps : Stays(q),
         abandoned' = abandoned \cup {o}, StreamStays, EndStays
  PROVE  ContractStep
<1>1. Contract!GiveUp(o)
  BY DEF Contract!GiveUp, Stays, StreamStays, EndStays, Ended
<1>. QED
  BY <1>1 DEF ContractStep, Contract!Next

\* An abandoned operation is thrown away.
LEMMA DiscardMaps ==
  ASSUME NEW o \in PromiseOps, o \in abandoned, PhaseOf(o) = "pending",
         Moves({o}, "discarded"), abandoned' = abandoned, StreamStays, EndStays
  PROVE  ContractStep
<1>1. Contract!Discard(o)
  BY DEF Contract!Discard, Contract!Becomes, Moves, StreamStays, EndStays, Ended
<1>. QED
  BY <1>1 DEF ContractStep, Contract!Next

\* A connect or a write succeeds.
LEMMA SuccessMaps ==
  ASSUME NEW o \in PromiseOps \ Reads, PhaseOf(o) = "pending", ~Ended, Moves({o}, "ok"),
         abandoned' = abandoned, StreamStays, EndStays
  PROVE  ContractStep
<1>1. Contract!Complete(o)
  BY DEF Contract!Complete, Contract!Becomes, Moves, StreamStays, EndStays, Ended
<1>. QED
  BY <1>1 DEF ContractStep, Contract!Next

\* A connect or a write fails, or a read times out.
LEMMA FailureMaps ==
  ASSUME NEW o \in PromiseOps, PhaseOf(o) = "pending", Moves({o}, "failed"),
         abandoned' = abandoned, StreamStays, EndStays
  PROVE  ContractStep
<1>1. Contract!Complete(o)
  BY DEF Contract!Complete, Contract!Becomes, Moves, StreamStays, EndStays, Ended
<1>. QED
  BY <1>1 DEF ContractStep, Contract!Next

\* A chunk arrives, for the reads of S.
LEMMA ArriveMaps ==
  ASSUME NEW S \in {{}} \cup {{r} : r \in Reads}, ~Ended, received' = received + 1,
         \A o \in S : o \in PromiseOps /\ PhaseOf(o) = "pending", Moves(S, "data"),
         S = {} => delivered' = delivered, S # {} => Len(delivered') = received + 1,
         abandoned' = abandoned, EndStays
  PROVE  ContractStep
<1>1. Contract!Arrive(S)
  BY DEF Contract!Arrive, Contract!Becomes, Moves, EndStays, Ended
<1>. QED
  BY <1>1 DEF ContractStep, Contract!Next, Contract!OneRead

\* A read takes what has arrived.
LEMMA ServeMaps ==
  ASSUME NEW r \in Reads, PhaseOf(r) = "pending", Len(delivered) < received,
         Moves({r}, "data"), Len(delivered') = received, received' = received,
         abandoned' = abandoned, EndStays
  PROVE  ContractStep
<1>1. Contract!Serve(r)
  BY DEF Contract!Serve, Contract!Becomes, Moves, EndStays, Ended, PromiseOps
<1>. QED
  BY <1>1 DEF ContractStep, Contract!Next

\* A read finds the end.
LEMMA ServeEndMaps ==
  ASSUME NEW r \in Reads, PhaseOf(r) = "pending", Ended, Len(delivered) = received,
         Moves({r}, "end"), abandoned' = abandoned, StreamStays, EndStays
  PROVE  ContractStep
<1>1. Contract!ServeEnd(r)
  BY DEF Contract!ServeEnd, Contract!Becomes, Moves, StreamStays, EndStays, Ended, PromiseOps
<1>. QED
  BY <1>1 DEF ContractStep, Contract!Next

\* The stream ends: F fail, and E learn of the end.
LEMMA EndMaps ==
  ASSUME NEW F \in SUBSET (PromiseOps \ Reads), NEW E \in {{}} \cup {{r} : r \in Reads},
         ~Ended, Ended', \A o \in F \cup E : o \in PromiseOps /\ PhaseOf(o) = "pending",
         E # {} => Len(delivered) = received,
         \A o \in PromiseOps : PhaseOf(o)' = IF o \in E THEN "end"
                                 ELSE IF o \in F THEN "failed" ELSE PhaseOf(o),
         abandoned' = abandoned, StreamStays
  PROVE  ContractStep
<1>1. Contract!End(F, E)
  BY DEF Contract!End, StreamStays, Ended
<1>. QED
  BY <1>1 DEF ContractStep, Contract!Next, Contract!OneRead

-----------------------------------------------------------------------------
(* A recorded end. *)

\* EOF and errors are recorded when the transport is gone, and it stays gone
\* until the teardown.
LEMMA EndIsKeptStep ==
  ASSUME TypeOK, QueueInv, TornInv, ConnInv, EndIsKept, [Next]_vars
  PROVE  EndIsKept'
<1>. USE DEF EndIsKept, Ended
<1>1. CASE Python
  BY <1>1 DEF Python, Connect, WrapFd, Write, Read, Close, Submit, Abandon, DtorEnter,
     DtorRelease, DtorFinish, stream, object, TornInv
<1>2. CASE \E w \in Writes : RunWrite(w)
  BY <1>2 DEF RunWrite, stream, object
<1>3. CASE \E r \in Reads : RunReadNow(r) \/ RunReadPark(r)
  BY <1>3 DEF RunReadNow, RunReadPark, stream, object
<1>4. CASE \/ RunConnectNoSetup \/ RunConnectNoAddress \/ RunConnect
           \/ RunWrapFails \/ RunWrap
  <2>1. Run(Conn) /\ eof' = eof /\ readErr' = readErr
    BY <1>4 DEF RunConnectNoSetup, RunConnectNoAddress, RunConnect, RunWrapFails, RunWrap,
       stream
  <2>2. status[Conn] = "queued"
    BY <2>1, HeadIsQueued DEF Ops, PromiseOps
  <2>. QED
    BY <2>1, <2>2 DEF ConnInv
<1>5. CASE \E k \in Closes : RunClose(k)
  BY <1>5 DEF RunClose, stream, object
<1>6. CASE RunDtor
  BY <1>6 DEF RunDtor
<1>7. CASE HandshakeSuccess \/ HandshakeError \/ HandshakeTimeout
  BY <1>7 DEF HandshakeSuccess, HandshakeError, HandshakeTimeout, HandshakeFails, stream,
     ConnInv
<1>8. CASE DataArrives \/ ReadTimeout \/ \E w \in Writes : WriteSuccess(w)
  BY <1>8 DEF DataArrives, ReadTimeout, WriteSuccess, stream, object
<1>9. CASE TransportEOF \/ TransportErr \/ WriteTimeout
  BY <1>9 DEF TransportEOF, TransportErr, WriteTimeout, TransportDown
<1>10. CASE UNCHANGED vars
  BY <1>10 DEF vars
<1>. QED
  BY <1>1, <1>2, <1>3, <1>4, <1>5, <1>6, <1>7, <1>8, <1>9, <1>10
  DEF Next, RunTask, Callback

\* ContractInv holds in every reachable state.
LEMMA ContractInvariant == Spec => []ContractInv
<1>1. Init => ContractInv
  BY IndInit DEF Init, ContractInv, EndIsKept
<1>2. ContractInv /\ [Next]_vars => ContractInv'
  BY IndStep, EndIsKeptStep DEF ContractInv, IndInv
<1>. QED
  BY <1>1, <1>2, PTL DEF Spec

-----------------------------------------------------------------------------
(* What the actions do, as the contract sees it. *)

\* Which operations are reads, and that each of them is an operation.
LEMMA Kinds ==
  /\ Conn \in Ops /\ Conn \in PromiseOps /\ Conn \notin Reads
  /\ \A r \in Reads : r \in Ops /\ r \in PromiseOps
  /\ \A w \in Writes : w \in Ops /\ w \in PromiseOps /\ w \notin Reads
  /\ \A k \in Closes : k \in Ops /\ k \notin PromiseOps
  /\ PromiseOps \subseteq Ops
  /\ NoOp \notin Ops
  BY OpsDisjoint DEF Ops, PromiseOps

\* A task runs before the teardown.
LEMMA RunsBeforeTeardown ==
  ASSUME TypeOK, TornInv, NEW o, Run(o)
  PROVE  life \notin {"torn", "freed"}
  BY DEF Run, TornInv

\* The operations in flight need a transport, and none of them is a read.
LEMMA FlightFacts ==
  ASSUME TypeOK, ConnInv
  PROVE  /\ InFlight \in SUBSET (PromiseOps \ Reads)
         /\ \A o \in InFlight : PhaseOf(o) = "pending"
         /\ client \in {"null", "dead"} => InFlight = {}
<1>1. InFlight \in SUBSET (PromiseOps \ Reads)
  BY Kinds DEF InFlight
<1>2. ASSUME NEW o \in InFlight PROVE PhaseOf(o) = "pending"
  BY PhaseFacts DEF InFlight, PhaseTable, Outstanding
<1>3. client \in {"null", "dead"} => InFlight = {}
  BY DEF InFlight, ConnInv
<1>. QED
  BY <1>1, <1>2, <1>3

\* A parked read is a pending read, and everything has been handed out.
LEMMA ParkedFacts ==
  ASSUME TypeOK, ParkInv, ParkedMeansStarved, StreamIntact
  PROVE  /\ ParkedRead \in {{}} \cup {{r} : r \in Reads}
         /\ \A o \in ParkedRead : o \in PromiseOps /\ PhaseOf(o) = "pending"
         /\ ParkedRead # {} => Len(delivered) = received
<1>1. ParkedRead \in {{}} \cup {{r} : r \in Reads}
  BY DEF ParkedRead, TypeOK
<1>2. ASSUME NEW o \in ParkedRead PROVE o \in PromiseOps /\ PhaseOf(o) = "pending"
  <2>1. pendingRead # NoOp /\ o = pendingRead
    BY <1>2 DEF ParkedRead
  <2>2. o \in Reads /\ status[o] = "parked"
    BY <2>1 DEF TypeOK, ParkInv
  <2>. QED
    BY <2>2, Kinds, PhaseFacts DEF PhaseTable, Outstanding
<1>3. ASSUME ParkedRead # {} PROVE Len(delivered) = received
  <2>1. buffer = <<>>
    BY <1>3 DEF ParkedRead, ParkedMeansStarved
  <2>2. delivered \o buffer = delivered
    BY <2>1, ConcatNil DEF TypeOK
  <2>3. delivered = [i \in 1 .. received |-> i]
    BY <2>2 DEF StreamIntact
  <2>. QED
    BY <2>3, CountUpLen DEF TypeOK
<1>. QED
  BY <1>1, <1>2, <1>3

\* An operation is submitted to a live connection.
LEMMA SubmitStep ==
  ASSUME TypeOK, NEW o \in Ops, Submit(o)
  PROVE  ContractStep
<1>1. /\ status[o] = "new" /\ status' = [status EXCEPT ![o] = "queued"]
      /\ abandoned' = abandoned /\ StreamStays /\ EndStays
  BY DEF Submit, StreamStays, EndStays, Ended
<1>2. \A q \in PromiseOps \ {o} : status'[q] = status[q]
  BY <1>1, Kinds DEF TypeOK
<1>3. CASE o \in PromiseOps
  <2>1. status'[o] = "queued"
    BY <1>1 DEF TypeOK
  <2>2. PhaseOf(o) = "idle" /\ PhaseOf(o)' = "pending"
    BY <1>1, <2>1, PhaseFacts DEF PhaseTable, Outstanding
  <2>3. Moves({o}, "pending")
    BY <1>2, <1>3, <2>2, OneMoves
  <2>. QED
    BY <1>1, <1>3, <2>2, <2>3, SubmitMaps
<1>4. CASE o \notin PromiseOps
  <2>1. \A q \in PromiseOps : Stays(q)
    BY <1>2, <1>4, NoneMoves
  <2>. QED
    BY <1>1, <2>1, Unseen
<1>. QED
  BY <1>3, <1>4

\* A task or a callback fails one pending operation that is no read.
LEMMA RejectOne ==
  ASSUME TypeOK, NEW o \in PromiseOps \ Reads, status[o] \in Outstanding,
         status' = Marked({o}, "rejected", status), abandoned' = abandoned, StreamStays
  PROVE  /\ PhaseOf(o) = "pending"
         /\ Moves({o}, "failed")
<1>1. status'[o] = "rejected" /\ \A q \in PromiseOps \ {o} : status'[q] = status[q]
  BY Kinds DEF Marked
<1>2. PhaseOf(o) = "pending" /\ PhaseOf(o)' = "failed"
  BY <1>1, PhaseFacts DEF PhaseTable
<1>. QED
  BY <1>1, <1>2, OneMoves

\* The transport goes away: what is in flight fails, the parked read is told.
LEMMA TransportEnds ==
  ASSUME IndInv, NEW w \in {"rejected", "timedout"}, NEW e \in {"eof", "rejected"},
         TransportDown(w, e)
  PROVE  ContractStep
<1>. USE DEF IndInv
<1>1. /\ status' = Marked(ParkedRead, e, Marked(InFlight, w, status))
      /\ abandoned' = abandoned /\ StreamStays
      /\ client = "open" /\ client' = "dead"
  BY DEF TransportDown, StreamStays
<1>2. ~Ended /\ Ended'
  BY <1>1 DEF Ended, TornInv
<1>3. ASSUME NEW o \in PromiseOps
      PROVE  PhaseOf(o)' = IF o \in ParkedRead THEN "end"
                           ELSE IF o \in InFlight THEN "failed" ELSE PhaseOf(o)
  <2>1. status'[o] = IF o \in ParkedRead THEN e
                     ELSE IF o \in InFlight THEN w ELSE status[o]
    BY <1>1, Kinds DEF Marked
  <2>2. o \in ParkedRead => o \in Reads
    BY DEF ParkedRead, TypeOK
  <2>3. o \in InFlight => o \notin Reads
    BY FlightFacts
  <2>. QED
    BY <2>1, <2>2, <2>3, PhaseFacts DEF PhaseTable, Stays
<1>4. \A o \in InFlight \cup ParkedRead : o \in PromiseOps /\ PhaseOf(o) = "pending"
  BY FlightFacts, ParkedFacts
<1>5. InFlight \in SUBSET (PromiseOps \ Reads)
  BY FlightFacts
<1>6. ParkedRead \in {{}} \cup {{r} : r \in Reads} /\ (ParkedRead # {} => Len(delivered) = received)
  BY ParkedFacts
<1>. QED
  BY <1>1, <1>2, <1>3, <1>4, <1>5, <1>6, EndMaps

\* closeNow(): what is in flight fails, and a stream that was not over ends.
LEMMA CloseStep ==
  ASSUME IndInv, \A o \in PromiseOps : status'[o] = IF o \in InFlight THEN "rejected" ELSE status[o],
         abandoned' = abandoned, StreamStays, Ended => Ended', InFlight # {} => Ended'
  PROVE  ContractStep
<1>. USE DEF IndInv
<1>1. InFlight \in SUBSET (PromiseOps \ Reads) /\ \A o \in InFlight : PhaseOf(o) = "pending"
  BY FlightFacts
<1>2. CASE ~Ended /\ Ended'
  <2>1. ASSUME NEW o \in PromiseOps
        PROVE  PhaseOf(o)' = IF o \in {} THEN "end"
                             ELSE IF o \in InFlight THEN "failed" ELSE PhaseOf(o)
    <3>1. o \in InFlight => o \notin Reads
      BY <1>1
    <3>. QED
      BY <3>1, PhaseFacts DEF PhaseTable, Stays
  <2>2. {} \in {{}} \cup {{r} : r \in Reads}
    OBVIOUS
  <2>3. \A o \in InFlight \cup {} : o \in PromiseOps /\ PhaseOf(o) = "pending"
    BY <1>1
  <2>4. {} # {} => Len(delivered) = received
    OBVIOUS
  <2>. QED
    BY <1>1, <1>2, <2>1, <2>2, <2>3, <2>4, EndMaps, Zenon
<1>3. CASE EndStays
  <2>1. InFlight = {}
    BY <1>3, FlightFacts DEF EndStays, Ended, TornInv
  <2>2. \A o \in PromiseOps : Stays(o)
    BY <2>1, NoneMoves
  <2>. QED
    BY <1>3, <2>2, Unseen
<1>. QED
  BY <1>2, <1>3 DEF EndStays

-----------------------------------------------------------------------------
(* The refinement. *)

\* Every step of the native core is a step of the contract, or unseen by it.
LEMMA StepMaps == ContractInv /\ [Next]_vars => ContractStep
<1>. SUFFICES ASSUME ContractInv, [Next]_vars PROVE ContractStep
  OBVIOUS
<1>0. IndInv /\ EndIsKept /\ TypeOK /\ QueueInv /\ TornInv /\ ParkInv /\ ConnInv
  BY DEF ContractInv, IndInv
<1>1. CASE \/ Connect \/ WrapFd \/ \E w \in Writes : Write(w)
           \/ \E r \in Reads : Read(r)
           \/ \E k \in Closes : Close(k)
  <2>1. \E o \in Ops : Submit(o)
    BY <1>1, Kinds DEF Connect, WrapFd, Write, Read, Close
  <2>. QED
    BY <1>0, <2>1, SubmitStep
<1>2. CASE \E o \in PromiseOps : Abandon(o)
  <2>. PICK o \in PromiseOps : Abandon(o)
    BY <1>2
  <2>1. /\ status' = status /\ abandoned' = abandoned \cup {o} /\ StreamStays /\ EndStays
        /\ status[o] \in Outstanding
    BY DEF Abandon, stream, object, StreamStays, EndStays, Ended
  <2>2. PhaseOf(o) = "pending"
    BY <2>1, PhaseFacts DEF PhaseTable
  <2>3. \A q \in PromiseOps : Stays(q)
    BY <2>1, NoneMoves
  <2>. QED
    BY <2>1, <2>2, <2>3, GiveUpMaps
<1>3. CASE DtorEnter \/ DtorRelease
  <2>1. status' = status /\ abandoned' = abandoned /\ StreamStays /\ EndStays
    BY <1>3 DEF DtorEnter, DtorRelease, stream, StreamStays, EndStays, Ended
  <2>2. \A q \in PromiseOps : Stays(q)
    BY <2>1, NoneMoves
  <2>. QED
    BY <2>1, <2>2, Unseen
<1>4. CASE DtorFinish
  <2>1. abandoned' = abandoned /\ StreamStays /\ EndStays
    BY <1>4 DEF DtorFinish, stream, StreamStays, EndStays, Ended
  <2>2. CASE pendingRead = NoOp
    <3>1. status' = status
      BY <1>4, <2>2 DEF DtorFinish
    <3>2. \A q \in PromiseOps : Stays(q)
      BY <3>1, NoneMoves
    <3>. QED
      BY <2>1, <3>2, Unseen
  <2>3. CASE pendingRead # NoOp
    <3>1. pendingRead \in Reads /\ status[pendingRead] = "parked" /\ life = "torn"
      BY <1>0, <1>4, <2>3 DEF TypeOK, ParkInv, DtorFinish
    <3>. DEFINE r == pendingRead
    <3>2. /\ status' = [status EXCEPT ![r] = "dropped"] /\ r \in PromiseOps
          /\ status[r] \in Outstanding /\ status \in [Ops -> Statuses]
      BY <1>0, <1>4, <2>3, <3>1, Kinds DEF DtorFinish, Outstanding, TypeOK
    <3>3. r \in abandoned
      BY <1>0, <3>1, <3>2 DEF IndInv, GoneInv
    <3>4. /\ status'[r] = "dropped"
          /\ \A q \in PromiseOps \ {r} : status'[q] = status[q]
      BY <3>2, Kinds
    <3>5. PICK o \in PromiseOps : o = r
      BY <3>2
    <3>. HIDE DEF r
    <3>6. PhaseOf(o) = "pending" /\ PhaseOf(o)' = "discarded"
      BY <3>2, <3>4, <3>5, PhaseFacts DEF PhaseTable
    <3>7. Moves({o}, "discarded")
      BY <3>4, <3>5, <3>6, OneMoves
    <3>. QED
      BY <2>1, <3>3, <3>5, <3>6, <3>7, DiscardMaps
  <2>. QED
    BY <2>2, <2>3
<1>5. CASE RunConnectNoSetup \/ RunWrapFails
  <2>1. /\ Run(Conn) /\ status' = Marked({Conn}, "rejected", status)
        /\ abandoned' = abandoned /\ StreamStays /\ EndStays
    BY <1>5 DEF RunConnectNoSetup, RunWrapFails, Answer, stream, object, StreamStays,
       EndStays, Ended
  <2>2. status[Conn] \in Outstanding /\ Conn \in PromiseOps \ Reads
    BY <1>0, <2>1, HeadIsQueued, Kinds DEF Outstanding
  <2>3. PhaseOf(Conn) = "pending" /\ Moves({Conn}, "failed")
    BY <1>0, <2>1, <2>2, RejectOne
  <2>. QED
    BY <2>1, <2>2, <2>3, FailureMaps
<1>6. CASE RunConnectNoAddress \/ HandshakeError \/ HandshakeTimeout
  <2>1. /\ status' = Marked({Conn}, "rejected", status)
        /\ abandoned' = abandoned /\ StreamStays /\ client' = "dead"
    BY <1>6 DEF RunConnectNoAddress, HandshakeError, HandshakeTimeout, HandshakeFails,
       Answer, stream, object, StreamStays
  <2>2. status[Conn] \in Outstanding /\ ~Ended
    <3>1. CASE RunConnectNoAddress
      <4>1. Run(Conn)
        BY <3>1 DEF RunConnectNoAddress
      <4>2. status[Conn] = "queued" /\ life \notin {"torn", "freed"}
        BY <1>0, <4>1, HeadIsQueued, RunsBeforeTeardown, Kinds
      <4>. QED
        BY <1>0, <4>2 DEF ConnInv, Ended, Outstanding
    <3>2. CASE HandshakeError \/ HandshakeTimeout
      <4>1. client = "connecting"
        BY <3>2 DEF HandshakeError, HandshakeTimeout, HandshakeFails
      <4>. QED
        BY <1>0, <4>1 DEF ConnInv, TornInv, Ended, Outstanding
    <3>. QED
      BY <1>6, <3>1, <3>2
  <2>3. PhaseOf(Conn) = "pending" /\ Moves({Conn}, "failed")
    BY <1>0, <2>1, <2>2, RejectOne, Kinds
  <2>4. Ended'
    BY <2>1 DEF Ended
  <2>5. \A o \in PromiseOps : PhaseOf(o)' = IF o \in {} THEN "end"
                                 ELSE IF o \in {Conn} THEN "failed" ELSE PhaseOf(o)
    BY <2>3 DEF Moves
  <2>6. {} \in {{}} \cup {{r} : r \in Reads} /\ {Conn} \in SUBSET (PromiseOps \ Reads)
    BY Kinds
  <2>7. \A o \in {Conn} \cup {} : o \in PromiseOps /\ PhaseOf(o) = "pending"
    BY <2>3, Kinds
  <2>8. {} # {} => Len(delivered) = received
    OBVIOUS
  <2>. QED
    BY <2>1, <2>2, <2>4, <2>5, <2>6, <2>7, <2>8, EndMaps, Zenon
<1>7. CASE RunConnect \/ RunWrap
  <2>1. /\ Run(Conn) /\ status' = [status EXCEPT ![Conn] = "inflight"]
        /\ abandoned' = abandoned /\ StreamStays /\ client' = "connecting" /\ life' = life
    BY <1>7 DEF RunConnect, RunWrap, stream, object, StreamStays
  <2>2. status[Conn] = "queued" /\ life \notin {"torn", "freed"}
    BY <1>0, <2>1, HeadIsQueued, RunsBeforeTeardown, Kinds
  <2>3. EndStays
    BY <1>0, <2>1, <2>2 DEF ConnInv, EndStays, Ended
  <2>4. ASSUME NEW q \in PromiseOps PROVE Stays(q)
    <3>1. q # Conn => status'[q] = status[q]
      BY <1>0, <2>1, Kinds DEF TypeOK
    <3>2. q = Conn => status'[q] = "inflight"
      BY <1>0, <2>1, Kinds DEF TypeOK
    <3>. QED
      BY <2>2, <3>1, <3>2, PhaseFacts DEF PhaseTable, Outstanding, Stays
  <2>. QED
    BY <2>1, <2>3, <2>4, Unseen
<1>8. CASE \E w \in Writes : RunWrite(w)
  <2>. PICK w \in Writes : RunWrite(w)
    BY <1>8
  <2>1. Run(w) /\ abandoned' = abandoned /\ StreamStays /\ EndStays
    BY DEF RunWrite, stream, object, StreamStays, EndStays, Ended
  <2>2. status[w] = "queued" /\ w \in PromiseOps \ Reads
    BY <1>0, <2>1, HeadIsQueued, Kinds
  <2>3. CASE client = "open"
    <3>1. status' = [status EXCEPT ![w] = "inflight"]
      BY <2>3 DEF RunWrite
    <3>2. ASSUME NEW q \in PromiseOps PROVE Stays(q)
      <4>1. q # w => status'[q] = status[q]
        BY <1>0, <3>1, Kinds DEF TypeOK
      <4>2. q = w => status'[q] = "inflight"
        BY <1>0, <3>1, Kinds DEF TypeOK
      <4>. QED
        BY <2>2, <4>1, <4>2, PhaseFacts DEF PhaseTable, Outstanding, Stays
    <3>. QED
      BY <2>1, <3>2, Unseen
  <2>4. CASE client # "open"
    <3>1. status' = Marked({w}, "rejected", status)
      BY <2>4 DEF RunWrite, Answer
    <3>2. PhaseOf(w) = "pending" /\ Moves({w}, "failed")
      BY <1>0, <2>1, <2>2, <3>1, RejectOne DEF Outstanding
    <3>. QED
      BY <2>1, <2>2, <3>2, FailureMaps
  <2>. QED
    BY <2>3, <2>4
<1>9. CASE \E r \in Reads : RunReadNow(r)
  <2>. PICK r \in Reads : RunReadNow(r)
    BY <1>9
  <2>1. Run(r) /\ abandoned' = abandoned /\ received' = received /\ EndStays
    BY DEF RunReadNow, object, EndStays, Ended
  <2>2. status[r] = "queued" /\ r \in PromiseOps
    BY <1>0, <2>1, HeadIsQueued, Kinds
  <2>3. PhaseOf(r) = "pending"
    BY <2>2, PhaseFacts DEF PhaseTable, Outstanding
  <2>4. CASE buffer # <<>>
    <3>1. status' = Marked({r}, "resolved", status) /\ delivered' = delivered \o buffer
      BY <2>4 DEF RunReadNow, Answer, FulfillRead
    <3>2. status'[r] = "resolved" /\ \A q \in PromiseOps \ {r} : status'[q] = status[q]
      BY <2>2, <3>1, Kinds DEF Marked
    <3>3. Moves({r}, "data")
      <4>1. PhaseOf(r)' = "data"
        BY <3>2, PhaseFacts DEF PhaseTable
      <4>. QED
        BY <2>2, <3>2, <4>1, OneMoves
    <3>4. Len(delivered') = received /\ Len(delivered \o buffer) = received
      BY <1>0, <3>1, CountUpLen DEF IndInv, StreamIntact, TypeOK
    <3>5. Len(delivered) < received
      <4>1. Len(delivered) \in Nat /\ Len(buffer) \in Nat /\ Len(buffer) > 0
        BY <1>0, <2>4 DEF TypeOK
      <4>2. Len(delivered \o buffer) = Len(delivered) + Len(buffer)
        BY <1>0, ConcatFacts DEF TypeOK
      <4>. QED
        BY <3>4, <4>1, <4>2
    <3>. QED
      BY <2>1, <2>3, <3>3, <3>4, <3>5, ServeMaps
  <2>5. CASE buffer = <<>>
    <3>1. PICK s \in {"rejected", "eof"} : status' = Marked({r}, s, status)
      BY <2>5 DEF RunReadNow, Answer
    <3>2. StreamStays /\ (readErr \/ eof)
      BY <2>5 DEF RunReadNow, StreamStays
    <3>3. status'[r] \in {"eof", "rejected"} /\ \A q \in PromiseOps \ {r} : status'[q] = status[q]
      BY <2>2, <3>1, Kinds DEF Marked
    <3>4. Moves({r}, "end")
      <4>1. PhaseOf(r)' = "end"
        BY <3>3, PhaseFacts DEF PhaseTable
      <4>. QED
        BY <2>2, <3>3, <4>1, OneMoves
    <3>5. Ended
      BY <1>0, <3>2 DEF EndIsKept
    <3>6. Len(delivered) = received
      <4>1. delivered \o buffer = delivered
        BY <1>0, <2>5, ConcatNil DEF TypeOK
      <4>. QED
        BY <1>0, <4>1, CountUpLen DEF IndInv, StreamIntact, TypeOK
    <3>. QED
      BY <2>1, <2>3, <3>2, <3>4, <3>5, <3>6, ServeEndMaps
  <2>. QED
    BY <2>4, <2>5
<1>10. CASE \E r \in Reads : RunReadPark(r)
  <2>. PICK r \in Reads : RunReadPark(r)
    BY <1>10
  <2>1. Run(r) /\ abandoned' = abandoned /\ StreamStays /\ EndStays
    BY DEF RunReadPark, stream, object, StreamStays, EndStays, Ended
  <2>2. status[r] = "queued"
    BY <1>0, <2>1, HeadIsQueued, Kinds
  <2>3. \A q \in PromiseOps : status'[q] = IF q = r THEN "parked"
                                ELSE IF q = pendingRead THEN "overwritten" ELSE status[q]
    BY Kinds DEF RunReadPark
  <2>4. ASSUME NEW q \in PromiseOps, q # pendingRead PROVE Stays(q)
    BY <2>2, <2>3, <2>4, PhaseFacts DEF PhaseTable, Outstanding, Stays
  <2>5. CASE pendingRead = NoOp
    <3>1. \A q \in PromiseOps : Stays(q)
      BY <2>4, <2>5, Kinds
    <3>. QED
      BY <2>1, <3>1, Unseen
  <2>6. CASE pendingRead # NoOp
    <3>1. PICK o \in PromiseOps : o = pendingRead /\ status[o] = "parked"
      BY <1>0, <2>6, Kinds DEF TypeOK, ParkInv
    <3>2. status'[o] = "overwritten"
      BY <2>2, <2>3, <3>1
    <3>3. PhaseOf(o) = "pending" /\ PhaseOf(o)' = "discarded"
      BY <3>1, <3>2, PhaseFacts DEF PhaseTable, Outstanding
    <3>4. Moves({o}, "discarded")
      BY <2>4, <3>1, <3>3 DEF Moves, Stays
    <3>5. o \in abandoned
      <4>1. Len(queue) \in Nat /\ Len(queue) > 0 /\ queue[1] = r
        BY <1>0, <2>1, QueueFacts DEF Run
      <4>. QED
        BY <1>0, <2>6, <3>1, <4>1 DEF IndInv, ReadOrder
    <3>. QED
      BY <2>1, <3>3, <3>4, <3>5, DiscardMaps
  <2>. QED
    BY <2>5, <2>6
<1>11. CASE \E k \in Closes : RunClose(k)
  <2>. PICK k \in Closes : RunClose(k)
    BY <1>11
  <2>1. /\ Run(k) /\ abandoned' = abandoned /\ StreamStays /\ life' = life
        /\ client' = IF client = "null" THEN "null" ELSE "dead"
        /\ status' = Marked(InFlight, "rejected", [status EXCEPT ![k] = "resolved"])
    BY DEF RunClose, CloseNow, stream, object, StreamStays
  <2>2. \A o \in PromiseOps : status'[o] = IF o \in InFlight THEN "rejected" ELSE status[o]
    BY <1>0, <2>1, Kinds DEF Marked, TypeOK
  <2>3. (Ended => Ended') /\ (InFlight # {} => Ended')
    BY <1>0, <2>1, FlightFacts DEF Ended
  <2>. QED
    BY <1>0, <2>1, <2>2, <2>3, CloseStep
<1>12. CASE RunDtor
  <2>1. /\ abandoned' = abandoned /\ StreamStays /\ life' = "torn"
        /\ status' = Marked(InFlight, "rejected", status)
    BY <1>12 DEF RunDtor, CloseNow, stream, StreamStays
  <2>2. \A o \in PromiseOps : status'[o] = IF o \in InFlight THEN "rejected" ELSE status[o]
    BY <2>1, Kinds DEF Marked
  <2>3. Ended'
    BY <2>1 DEF Ended
  <2>. QED
    BY <1>0, <2>1, <2>2, <2>3, CloseStep
<1>13. CASE HandshakeSuccess \/ \E w \in Writes : WriteSuccess(w)
  <2>1. PICK o \in {Conn} \cup Writes :
          /\ status' = Marked({o}, "resolved", status) /\ status[o] = "inflight"
          /\ client \in {"connecting", "open"} /\ client' \in {"connecting", "open"}
          /\ life' = life /\ abandoned' = abandoned /\ StreamStays
    BY <1>0, <1>13 DEF HandshakeSuccess, WriteSuccess, Answer, stream, object, StreamStays,
       ConnInv
  <2>2. ~Ended /\ EndStays
    BY <1>0, <2>1 DEF Ended, EndStays, TornInv
  <2>3. o \in PromiseOps \ Reads
    BY Kinds
  <2>4. status'[o] = "resolved" /\ \A q \in PromiseOps \ {o} : status'[q] = status[q]
    BY <2>1, <2>3, Kinds DEF Marked
  <2>5. PhaseOf(o) = "pending" /\ PhaseOf(o)' = "ok"
    BY <2>1, <2>3, <2>4, PhaseFacts DEF PhaseTable, Outstanding
  <2>6. Moves({o}, "ok")
    BY <2>3, <2>4, <2>5, OneMoves
  <2>. QED
    BY <2>1, <2>2, <2>3, <2>5, <2>6, SuccessMaps
<1>14. CASE DataArrives
  <2>1. /\ client = "open" /\ client' = client /\ life' = life /\ received' = received + 1
        /\ abandoned' = abandoned /\ status' = Marked(ParkedRead, "resolved", status)
        /\ ParkedRead = {} => delivered' = delivered
        /\ ParkedRead # {} => buffer' = <<>>
    BY <1>14 DEF DataArrives, Answer, FulfillRead, object
  <2>2. ~Ended /\ EndStays
    BY <1>0, <2>1 DEF Ended, EndStays, TornInv
  <2>3. /\ ParkedRead \in {{}} \cup {{r} : r \in Reads}
        /\ \A o \in ParkedRead : o \in PromiseOps /\ PhaseOf(o) = "pending"
    BY <1>0, ParkedFacts DEF IndInv
  <2>4. Moves(ParkedRead, "data")
    <3>1. ASSUME NEW o \in PromiseOps
          PROVE  PhaseOf(o)' = IF o \in ParkedRead THEN "data" ELSE PhaseOf(o)
      <4>1. status'[o] = IF o \in ParkedRead THEN "resolved" ELSE status[o]
        BY <2>1, Kinds DEF Marked
      <4>2. o \in ParkedRead => o \in Reads
        BY <2>3
      <4>. QED
        BY <4>1, <4>2, PhaseFacts DEF PhaseTable, Stays
    <3>. QED
      BY <3>1 DEF Moves
  <2>5. ASSUME ParkedRead # {} PROVE Len(delivered') = received + 1
    <3>1. TypeOK' /\ StreamIntact'
      BY <1>0, IndStep DEF IndInv
    <3>2. delivered' \o buffer' = delivered'
      BY <2>1, <2>5, <3>1, ConcatNil DEF TypeOK
    <3>3. delivered' = [i \in 1 .. received' |-> i]
      BY <3>1, <3>2 DEF StreamIntact
    <3>4. Len(delivered') = received'
      BY <3>1, <3>3, CountUpLen DEF TypeOK
    <3>. QED
      BY <2>1, <3>4
  <2>. QED
    BY <2>1, <2>2, <2>3, <2>4, <2>5, ArriveMaps
<1>15. CASE TransportEOF \/ TransportErr \/ WriteTimeout
  <2>1. \E w \in {"rejected", "timedout"}, e \in {"eof", "rejected"} : TransportDown(w, e)
    BY <1>15 DEF TransportEOF, TransportErr, WriteTimeout
  <2>. QED
    BY <1>0, <2>1, TransportEnds
<1>16. CASE ReadTimeout
  <2>1. /\ abandoned' = abandoned /\ StreamStays /\ EndStays
        /\ status' = Marked(ParkedRead, "timedout", status)
    BY <1>16 DEF ReadTimeout, Answer, stream, object, StreamStays, EndStays, Ended
  <2>2. CASE pendingRead = NoOp
    <3>1. \A q \in PromiseOps : status'[q] = status[q]
      BY <2>1, <2>2, Kinds DEF Marked, ParkedRead
    <3>2. \A q \in PromiseOps : Stays(q)
      BY <3>1, NoneMoves
    <3>. QED
      BY <2>1, <3>2, Unseen
  <2>3. CASE pendingRead # NoOp
    <3>1. PICK o \in PromiseOps : o = pendingRead /\ status[o] = "parked"
      BY <1>0, <2>3, Kinds DEF TypeOK, ParkInv
    <3>2. status'[o] = "timedout" /\ \A q \in PromiseOps \ {o} : status'[q] = status[q]
      BY <2>1, <2>3, <3>1, Kinds DEF Marked, ParkedRead
    <3>3. PhaseOf(o) = "pending" /\ PhaseOf(o)' = "failed"
      BY <3>1, <3>2, PhaseFacts DEF PhaseTable, Outstanding
    <3>4. Moves({o}, "failed")
      BY <3>2, <3>3, OneMoves
    <3>. QED
      BY <2>1, <3>3, <3>4, FailureMaps
  <2>. QED
    BY <2>2, <2>3
<1>17. CASE UNCHANGED vars
  <2>1. status' = status /\ abandoned' = abandoned /\ StreamStays /\ EndStays
    BY <1>17 DEF vars, StreamStays, EndStays, Ended
  <2>2. \A q \in PromiseOps : Stays(q)
    BY <2>1, NoneMoves
  <2>. QED
    BY <2>1, <2>2, Unseen
<1>. QED
  BY <1>1, <1>2, <1>3, <1>4, <1>5, <1>6, <1>7, <1>8, <1>9, <1>10, <1>11, <1>12, <1>13,
     <1>14, <1>15, <1>16, <1>17 DEF Next, Python, RunTask, Callback

\* The native core implements the contract the Python layer relies on: its
\* operations are answered at most once, thrown away only when given up, and
\* carry an unbroken stream whose end is told last.
THEOREM CoreImplementsContract == Spec => ImplementsContract
<1>1. Init => Contract!Init
  <2>. SUFFICES ASSUME Init PROVE Contract!Init
    OBVIOUS
  <2>1. \A o \in PromiseOps : PhaseOf(o) = "idle"
    BY Kinds, PhaseFacts DEF Init, PhaseTable
  <2>. QED
    BY <2>1 DEF Init, Contract!Init
<1>2. ContractInv /\ [Next]_vars => [Contract!Next]_(Contract!cvars)
  BY StepMaps DEF ContractStep
<1>. QED
  BY <1>1, <1>2, ContractInvariant, PTL DEF Spec, ImplementsContract, Contract!Spec
=============================================================================
