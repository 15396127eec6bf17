----------------------------- MODULE ProbeProofs -----------------------------
(***************************************************************************)
(* Safety of probe() for any set of classical groups, any hosts and any    *)
(* number of addresses: nothing is left behind, and the verdict is true.   *)
(***************************************************************************)
EXTENDS Probe, TLAPS

\* Who may hold an open socket: a task that is connecting or shaking hands, and
\* the first connection, which probe() itself closes after the first gather.
SocketsOwned ==
  \A s \in Slots : sock[s] = "open" =>
    /\ phase = "gather"
    /\ task[s] \in {"connecting", "shaking"} \/ (s = Stock /\ round = 1)

\* Tasks exist in a gather only, and are finished when it is over; the second
\* round is a gather too.  Only the cancellation of the probe cancels a task.
TasksGathered ==
  /\ \A s \in Slots : task[s] \in Unfinished => phase = "gather"
  /\ \A s \in Slots : task[s] = "cancelled" => cancelled
  /\ phase \in {"dns", "connect"} => round = 1 /\ \A s \in Slots : task[s] = "none"

\* What a settled attempt says of the host.
Told(s, a) == a \in Answers(s) \/ (a = Failed /\ (server.lossy \/ Silent(s)))

AttemptsTrue == \A s \in Slots : task[s] = "settled" => Told(s, attempt[s])

\* The post-quantum attempts that were not accepted are counted: one for each
\* earlier round, and one when this round's has settled.
Lost ==
  lost = (round - 1) + (IF task[PQ] = "settled" /\ attempt[PQ].outcome # "accepted" THEN 1 ELSE 0)

\* The verdict was reached over settled attempts, of both rounds if it is that
\* the path is blocked.
VerdictReached ==
  verdict \notin {"none", "unreachable"} =>
    /\ verdict = Verdict(attempt)
    /\ \A s \in Slots : task[s] = "settled"
    /\ verdict = "pq-blocked" => round = 2

ProbeInv ==
  TypeOK /\ SocketsOwned /\ TasksGathered /\ AttemptsTrue /\ Lost /\ VerdictReached

-----------------------------------------------------------------------------
(* Types. *)

\* The answers of a host are attempts.
LEMMA AnswersAreAttempts ==
  ASSUME NEW s \in Slots, NEW a \in Answers(s)
  PROVE  a \in Attempt
<1>1. Offer(s) \subseteq Groups
  BY ProbeAssumption DEF Offer, Slots, Groups, Stock
<1>2. Failed \in Attempt
  BY DEF Failed, Attempt, Alerts
<1>3. \A x \in {"internal_error", "unrecognized_name", "protocol_version", "handshake_failure"} :
        Rejected(x) \in Attempt
  BY DEF Rejected, Attempt, Alerts, NO_TLS13, NO_SHARED_GROUP
<1>4. \A g \in Groups : Accepted(g) \in Attempt
  BY DEF Accepted, Attempt, Alerts
<1> QED
  BY <1>1, <1>2, <1>3, <1>4 DEF Answers

\* A step keeps the types.
LEMMA TypeStep == TypeOK /\ Lost /\ [Next]_vars => TypeOK'
<1> SUFFICES ASSUME TypeOK, Lost, [Next]_vars PROVE TypeOK'
  OBVIOUS
<1> USE ProbeAssumption DEF TypeOK, Ended, Unfinished, Finished
<1>1. CASE DnsFails
  BY <1>1 DEF DnsFails, Unreachable, host
<1>2. ASSUME NEW n \in 0 .. MaxAddr, Resolve(n) PROVE TypeOK'
  BY <1>2 DEF Resolve, Unreachable
<1>3. CASE ConnectFirstFails
  BY <1>3 DEF ConnectFirstFails, Unreachable
<1>4. CASE ConnectFirst
  BY <1>4 DEF ConnectFirst, host
<1>5. ASSUME NEW s \in Slots, TaskStart(s) PROVE TypeOK'
  BY <1>5 DEF TaskStart, host
<1>6. ASSUME NEW s \in Slots, TaskConnected(s) PROVE TypeOK'
  BY <1>6 DEF TaskConnected, host
<1>7. ASSUME NEW s \in Slots, NEW a \in Attempt, Settle(s, a), task[s] # "settled",
             UNCHANGED <<host, phase, round, cancelled, verdict>>
      PROVE  TypeOK'
  BY <1>7 DEF Settle, host, Lost
<1>8. ASSUME NEW s \in Slots, TaskConnectFails(s) \/ TaskFails(s) PROVE TypeOK'
  <2>1. Failed \in Attempt
    BY DEF Failed, Attempt, Alerts
  <2> QED
    BY <1>7, <1>8, <2>1 DEF TaskConnectFails, TaskFails
<1>9. ASSUME NEW s \in Slots, TaskAnswered(s) PROVE TypeOK'
  BY <1>7, <1>9, AnswersAreAttempts DEF TaskAnswered
<1>10. ASSUME NEW s \in Slots, TaskRaises(s) PROVE TypeOK'
  BY <1>10 DEF TaskRaises, host
<1>11. ASSUME NEW s \in Slots, TaskCancelled(s) PROVE TypeOK'
  BY <1>11 DEF TaskCancelled, host
<1>12. CASE GatherFails
  BY <1>12 DEF GatherFails, Gathered, CloseFirst, host
<1>13. CASE TryAgain
  <2>1. task' \in [Slots -> {"none"} \cup Unfinished \cup Finished]
    BY <1>13 DEF TryAgain
  <2>2. sock' \in [Slots -> {"none", "open", "closed"}]
    BY <1>13 DEF TryAgain, CloseFirst
  <2> QED
    BY <1>13, <2>1, <2>2 DEF TryAgain, AllSettled, Gathered, host
<1>14. CASE Conclude
  BY <1>14 DEF Conclude, AllSettled, Gathered, CloseFirst, Verdict, host
<1>15. CASE Cancel
  BY <1>15 DEF Cancel, host
<1>16. CASE UNCHANGED vars
  BY <1>16 DEF vars
<1> QED
  BY <1>1, <1>2, <1>3, <1>4, <1>5, <1>6, <1>8, <1>9, <1>10, <1>11, <1>12, <1>13, <1>14,
     <1>15, <1>16 DEF Next, LoopSteps, Arrivals, Failures

-----------------------------------------------------------------------------
(* Sockets and tasks. *)

\* A step leaves no socket without an owner and no task outside a gather.
LEMMA OwnedStep ==
  TypeOK /\ SocketsOwned /\ TasksGathered /\ [Next]_vars => SocketsOwned' /\ TasksGathered'
<1> SUFFICES ASSUME TypeOK, SocketsOwned, TasksGathered, [Next]_vars
             PROVE  SocketsOwned' /\ TasksGathered'
  OBVIOUS
<1> USE ProbeAssumption DEF TypeOK, SocketsOwned, TasksGathered, Unfinished, Finished, Ended
<1>1. CASE DnsFails
  BY <1>1 DEF DnsFails, Unreachable, host
<1>2. ASSUME NEW n \in 0 .. MaxAddr, Resolve(n) PROVE SocketsOwned' /\ TasksGathered'
  BY <1>2 DEF Resolve, Unreachable
<1>3. CASE ConnectFirstFails
  BY <1>3 DEF ConnectFirstFails, Unreachable
<1>4. CASE ConnectFirst
  BY <1>4 DEF ConnectFirst, host
<1>5. ASSUME NEW s \in Slots, TaskStart(s) PROVE SocketsOwned' /\ TasksGathered'
  BY <1>5 DEF TaskStart, host
<1>6. ASSUME NEW s \in Slots, TaskConnected(s) PROVE SocketsOwned' /\ TasksGathered'
  BY <1>6 DEF TaskConnected, host
<1>7. ASSUME NEW s \in Slots, TaskConnectFails(s) \/ TaskFails(s)
      PROVE  SocketsOwned' /\ TasksGathered'
  BY <1>7 DEF TaskConnectFails, TaskFails, Settle, host
<1>8. ASSUME NEW s \in Slots, TaskAnswered(s) PROVE SocketsOwned' /\ TasksGathered'
  BY <1>8 DEF TaskAnswered, Settle, host
<1>9. ASSUME NEW s \in Slots, TaskRaises(s) PROVE SocketsOwned' /\ TasksGathered'
  BY <1>9 DEF TaskRaises, host
<1>10. ASSUME NEW s \in Slots, TaskCancelled(s) PROVE SocketsOwned' /\ TasksGathered'
  BY <1>10 DEF TaskCancelled, host
<1>11. CASE GatherFails
  BY <1>11 DEF GatherFails, Gathered, CloseFirst, host
<1>12. CASE TryAgain
  BY <1>12 DEF TryAgain, AllSettled, Gathered, CloseFirst, host, Slots, Groups
<1>13. CASE Conclude
  BY <1>13 DEF Conclude, AllSettled, Gathered, CloseFirst, host
<1>14. CASE Cancel
  BY <1>14 DEF Cancel, Gathered, host
<1>15. CASE UNCHANGED vars
  BY <1>15 DEF vars
<1> QED
  BY <1>1, <1>2, <1>3, <1>4, <1>5, <1>6, <1>7, <1>8, <1>9, <1>10, <1>11, <1>12, <1>13,
     <1>14, <1>15 DEF Next, LoopSteps, Arrivals, Failures

-----------------------------------------------------------------------------
(* Attempts and the verdict. *)

\* A settled attempt goes on telling the truth about the host, which does not
\* change.
LEMMA AttemptsStep == TypeOK /\ AttemptsTrue /\ [Next]_vars => AttemptsTrue'
<1> SUFFICES ASSUME TypeOK, AttemptsTrue, [Next]_vars PROVE AttemptsTrue'
  OBVIOUS
<1> USE ProbeAssumption DEF TypeOK
<1>1. server' = server
  BY DEF Next, LoopSteps, Arrivals, Failures, vars, host, DnsFails, Resolve,
     ConnectFirstFails, ConnectFirst, TaskStart, TaskConnected, TaskConnectFails, TaskAnswered,
     TaskFails, TaskRaises, TaskCancelled, GatherFails, TryAgain, Conclude, Cancel
<1>2. \A s, a : Told(s, a)' <=> Told(s, a)
  BY <1>1 DEF Told, Answers, Silent, Offer, Failed, Rejected, Accepted
<1>3. ASSUME NEW s \in Slots, NEW a, Settle(s, a), Told(s, a) PROVE AttemptsTrue'
  BY <1>2, <1>3 DEF Settle, AttemptsTrue
<1>4. ASSUME NEW s \in Slots, TaskConnectFails(s) \/ TaskAnswered(s) \/ TaskFails(s)
      PROVE  AttemptsTrue'
  BY <1>3, <1>4 DEF TaskConnectFails, TaskAnswered, TaskFails, Told
<1>5. ASSUME attempt' = attempt, \A s \in Slots : task'[s] = "settled" => task[s] = "settled"
      PROVE  AttemptsTrue'
  BY <1>2, <1>5 DEF AttemptsTrue
<1>6. ASSUME NEW s \in Slots, TaskStart(s) \/ TaskConnected(s) \/ TaskRaises(s) \/ TaskCancelled(s)
      PROVE  AttemptsTrue'
  BY <1>5, <1>6 DEF TaskStart, TaskConnected, TaskRaises, TaskCancelled
<1>7. CASE ConnectFirst \/ TryAgain
  BY <1>5, <1>7 DEF ConnectFirst, TryAgain
<1>8. CASE DnsFails \/ ConnectFirstFails \/ GatherFails \/ Conclude \/ Cancel \/ UNCHANGED vars
  BY <1>5, <1>8 DEF DnsFails, ConnectFirstFails, GatherFails, Conclude, Cancel, vars
<1>9. ASSUME NEW n \in 0 .. MaxAddr, Resolve(n) PROVE AttemptsTrue'
  BY <1>5, <1>9 DEF Resolve
<1> QED
  BY <1>4, <1>6, <1>7, <1>8, <1>9 DEF Next, LoopSteps, Arrivals, Failures

\* Every failure of a post-quantum attempt is counted once.
LEMMA LostStep == TypeOK /\ TasksGathered /\ Lost /\ [Next]_vars => Lost'
<1> SUFFICES ASSUME TypeOK, TasksGathered, Lost, [Next]_vars PROVE Lost'
  OBVIOUS
<1> USE ProbeAssumption DEF TypeOK, Lost
<1>1. PQ \in Slots /\ Stock \in Slots /\ PQ # Stock
  BY DEF Slots, Groups, PQ, Stock
<1>2. CASE DnsFails \/ ConnectFirstFails \/ GatherFails \/ Conclude \/ Cancel \/ UNCHANGED vars
  BY <1>2 DEF DnsFails, ConnectFirstFails, GatherFails, Conclude, Cancel, vars
<1>3. ASSUME NEW n \in 0 .. MaxAddr, Resolve(n) PROVE Lost'
  BY <1>3 DEF Resolve
<1>4. CASE ConnectFirst
  <2>1. task'[PQ] = "ready" /\ round' = round /\ lost' = lost
    BY <1>1, <1>4 DEF ConnectFirst
  <2>2. task[PQ] # "settled"
    BY <1>1, <1>4 DEF ConnectFirst, TasksGathered
  <2> QED
    BY <2>1, <2>2
<1>5. ASSUME NEW s \in Slots, TaskStart(s) \/ TaskConnected(s) PROVE Lost'
  BY <1>1, <1>5 DEF TaskStart, TaskConnected
<1>6. ASSUME NEW s \in Slots, TaskRaises(s) \/ TaskCancelled(s) PROVE Lost'
  BY <1>1, <1>6 DEF TaskRaises, TaskCancelled, Unfinished
<1>7. ASSUME NEW s \in Slots, NEW a, Settle(s, a), task[s] # "settled", round' = round
      PROVE  Lost'
  BY <1>1, <1>7 DEF Settle
<1>8. ASSUME NEW s \in Slots, TaskConnectFails(s) \/ TaskAnswered(s) \/ TaskFails(s) PROVE Lost'
  BY <1>7, <1>8 DEF TaskConnectFails, TaskAnswered, TaskFails
<1>9. CASE TryAgain
  <2>1. task[PQ] = "settled" /\ attempt[PQ].outcome # "accepted" /\ round = 1 /\ round' = 2
    BY <1>1, <1>9 DEF TryAgain, AllSettled, Gathered, Finished, Verdict, TasksGathered
  <2>2. task'[PQ] = "ready" /\ lost' = lost
    BY <1>1, <1>9 DEF TryAgain
  <2> QED
    BY <2>1, <2>2
<1> QED
  BY <1>2, <1>3, <1>4, <1>5, <1>6, <1>8, <1>9 DEF Next, LoopSteps, Arrivals, Failures

\* A verdict over attempts is reached once, at the end.
LEMMA VerdictStep ==
  TypeOK /\ TasksGathered /\ VerdictReached /\ [Next]_vars => VerdictReached'
<1> SUFFICES ASSUME TypeOK, TasksGathered, VerdictReached, [Next]_vars PROVE VerdictReached'
  OBVIOUS
<1> USE ProbeAssumption DEF TypeOK, VerdictReached, Ended
<1>1. CASE phase = "done"
  <2>1. UNCHANGED <<verdict, attempt, task, round>>
    BY <1>1 DEF Next, LoopSteps, Arrivals, Failures, vars, host, DnsFails, Resolve,
       ConnectFirstFails, ConnectFirst, TaskStart, TaskConnected, TaskConnectFails,
       TaskAnswered, TaskFails, TaskRaises, TaskCancelled,
       GatherFails, TryAgain, Conclude, Cancel, Gathered, AllSettled
  <2> QED
    BY <2>1 DEF Verdict
<1>2. CASE phase # "done" /\ Conclude
  <2>1. \A s \in Slots : task'[s] = "settled"
    BY <1>2 DEF Conclude, AllSettled, Gathered, Finished, TasksGathered
  <2>2. verdict' = Verdict(attempt)' /\ round' = round
    BY <1>2 DEF Conclude, Verdict
  <2>3. verdict' = "pq-blocked" => round = 2
    BY <1>2 DEF Conclude
  <2> QED
    BY <2>1, <2>2, <2>3
<1>3. CASE phase # "done" /\ ~Conclude
  <2>1. verdict' \in {"none", "unreachable"}
    BY <1>3 DEF Next, LoopSteps, Arrivals, Failures, vars, host, DnsFails, Resolve,
       ConnectFirstFails, ConnectFirst, TaskStart, TaskConnected, TaskConnectFails,
       TaskAnswered, TaskFails, TaskRaises, TaskCancelled,
       GatherFails, TryAgain, Cancel, Unreachable
  <2> QED
    BY <2>1
<1> QED
  BY <1>1, <1>2, <1>3

-----------------------------------------------------------------------------
(* The inductive invariant. *)

\* It holds initially.
LEMMA ProbeInit == Init => ProbeInv
<1> SUFFICES ASSUME Init PROVE ProbeInv
  OBVIOUS
<1> USE ProbeAssumption DEF Init
<1>1. TypeOK
  <2>1. Failed \in Attempt
    BY DEF Failed, Attempt, Alerts
  <2>2. attempt \in [Slots -> Attempt] /\ task \in [Slots -> {"none"} \cup Unfinished \cup Finished]
    BY <2>1
  <2>3. sock \in [Slots -> {"none", "open", "closed"}]
    OBVIOUS
  <2>4. addrs \in 0 .. MaxAddr /\ round \in 1 .. 2 /\ lost \in 0 .. 2
    OBVIOUS
  <2>5. (verdict # "none") = (phase = "done")
    OBVIOUS
  <2> QED
    BY <2>2, <2>3, <2>4, <2>5 DEF TypeOK
<1>2. SocketsOwned /\ TasksGathered /\ AttemptsTrue /\ VerdictReached
  BY DEF SocketsOwned, TasksGathered, AttemptsTrue, VerdictReached, Unfinished
<1>3. Lost
  BY DEF Lost, Slots, Groups
<1> QED
  BY <1>1, <1>2, <1>3 DEF ProbeInv

\* Every behaviour of probe() keeps it.
LEMMA ProbeInvariance == Spec => []ProbeInv
<1>1. ProbeInv /\ [Next]_vars => ProbeInv'
  BY TypeStep, OwnedStep, AttemptsStep, LostStep, VerdictStep DEF ProbeInv
<1> QED
  BY ProbeInit, <1>1, PTL DEF Spec

\* However probe() ends, it has closed its sockets and none of its tasks runs:
\* for any groups, any host, any number of addresses.
THEOREM ProbeCleansUp == Spec => []NothingLeftBehind
<1>1. ProbeInv => NothingLeftBehind
  BY DEF ProbeInv, SocketsOwned, TasksGathered, NothingLeftBehind, Ended
<1> QED
  BY ProbeInvariance, <1>1, PTL

\* What the settled attempts of a verdict say of the host.
LEMMA VerdictFollows == ProbeInv => VerdictIsTrue
<1> SUFFICES ASSUME ProbeInv, verdict \notin {"none", "unreachable", "error"}
             PROVE  VerdictIsTrue
  BY DEF VerdictIsTrue
<1> USE ProbeAssumption DEF ProbeInv
<1>1. server.groups \subseteq Groups
  BY DEF TypeOK, HostType
<1>2. server.mode \in {"tls13", "old", "name", "deaf"} /\ server.path \in {"clear", "drop", "alert"}
  BY DEF TypeOK, HostType
<1>3. /\ verdict = Verdict(attempt)
      /\ \A s \in Slots : Told(s, attempt[s])
      /\ verdict = "pq-blocked" => round = 2 /\ task[PQ] = "settled"
  BY DEF VerdictReached, AttemptsTrue, Slots, Groups
<1>4. \A g \in Groups : Offer(g) = {g} /\ Told(g, attempt[g])
  BY <1>3 DEF Offer, Slots, Groups, Stock, PQ
<1>5. ASSUME NEW g \in Groups, attempt[g].outcome = "accepted"
      PROVE  g \in server.groups /\ server.mode = "tls13" /\ (g = PQ => server.path = "clear")
  <2>1. attempt[g] \in Answers(g) /\ Offer(g) = {g}
    BY <1>4, <1>5 DEF Told, Failed
  <2>2. \A x : attempt[g] # Rejected(x)
    BY <1>5 DEF Rejected
  <2>3. /\ ~Silent(g)
        /\ ~(PQ \in Offer(g) /\ server.path = "alert")
        /\ server.mode \notin {"name", "old"}
        /\ \E h \in Offer(g) \cap server.groups : attempt[g] = Accepted(h)
    BY <2>1, <2>2 DEF Answers
  <2> QED
    BY <1>2, <2>1, <2>3 DEF Silent
<1>6. ASSUME NEW g \in Groups, Unsupported(attempt[g], NO_TLS13)
      PROVE  server.mode = "old" \/ (server.mode = "tls13" /\ g \notin server.groups)
  <2>1. attempt[g] \in Answers(g) /\ Offer(g) = {g}
    BY <1>4, <1>6 DEF Told, Failed, Unsupported
  <2>2. /\ \A h : attempt[g] # Accepted(h)
        /\ attempt[g] \notin {Rejected("internal_error"), Rejected("unrecognized_name")}
    BY <1>6 DEF Accepted, Rejected, Unsupported, NO_TLS13, NO_SHARED_GROUP
  <2>3. /\ ~Silent(g) /\ server.mode # "name"
        /\ server.mode = "old" \/ Offer(g) \cap server.groups = {}
    BY <2>1, <2>2 DEF Answers
  <2> QED
    BY <1>2, <2>1, <2>3 DEF Silent
<1>7. CASE verdict = "post-quantum"
  <2>1. attempt[PQ].outcome = "accepted"
    BY <1>3, <1>7 DEF Verdict
  <2> QED
    BY <1>5, <1>7, <2>1 DEF VerdictIsTrue, Groups
<1>8. CASE verdict = "classical-only"
  <2>1. /\ \E g \in Classical : attempt[g].outcome = "accepted"
        /\ Unsupported(attempt[PQ], NO_SHARED_GROUP)
    BY <1>3, <1>8 DEF Verdict
  <2>2. server.groups # {} /\ server.mode = "tls13"
    BY <1>5, <2>1 DEF Groups
  <2>3. PQ \notin server.groups
    BY <1>6, <2>1, <2>2 DEF Groups, Unsupported, NO_TLS13
  <2> QED
    BY <1>8, <2>2, <2>3 DEF VerdictIsTrue
<1>9. CASE verdict = "pq-blocked"
  <2>1. /\ \E g \in Classical : attempt[g].outcome = "accepted"
        /\ attempt[PQ].outcome # "accepted"
        /\ ~Unsupported(attempt[PQ], NO_SHARED_GROUP)
    BY <1>3, <1>9 DEF Verdict
  <2>2. server.groups # {} /\ server.mode = "tls13"
    BY <1>5, <2>1 DEF Groups
  <2>3. server.path # "clear" \/ server.lossy
    <3> SUFFICES ASSUME server.path = "clear", ~server.lossy PROVE FALSE
      OBVIOUS
    <3>1. attempt[PQ] \in Answers(PQ) /\ Offer(PQ) = {PQ} /\ ~Silent(PQ)
      BY <1>4, <2>2 DEF Told, Groups, Silent
    <3>2. attempt[PQ] = Rejected("handshake_failure") \/ \E g \in Groups : attempt[PQ] = Accepted(g)
      BY <1>1, <2>2, <3>1 DEF Answers
    <3>3. attempt[PQ] # Rejected("handshake_failure")
      BY <2>1 DEF Rejected, Unsupported, NO_SHARED_GROUP
    <3>4. \A g \in Groups : attempt[PQ] # Accepted(g)
      BY <2>1 DEF Accepted
    <3> QED
      BY <3>2, <3>3, <3>4
  <2>4. lost = 2
    BY <1>3, <1>9, <2>1 DEF Lost
  <2> QED
    BY <1>9, <2>2, <2>3, <2>4 DEF VerdictIsTrue
<1>10. CASE verdict = "no-tls13"
  <2>1. \A g \in Groups : Unsupported(attempt[g], NO_TLS13)
    BY <1>3, <1>10 DEF Verdict
  <2>2. server.mode = "old" \/ (server.mode = "tls13" /\ server.groups = {})
    BY <1>1, <1>6, <2>1 DEF Groups
  <2> QED
    BY <1>10, <2>2 DEF VerdictIsTrue
<1> QED
  BY <1>7, <1>8, <1>9, <1>10 DEF TypeOK

\* A verdict of probe() is true of the host over any path, for any set of
\* groups; a path is called blocked only after two attempts were lost.
THEOREM ProbeTellsTheTruth == Spec => []VerdictIsTrue
BY ProbeInvariance, VerdictFollows, PTL
=============================================================================
