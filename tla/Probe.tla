-------------------------------- MODULE Probe --------------------------------
(***************************************************************************)
(* probe() of fizzpy/probe.py: one host is probed by a stock handshake and *)
(* one handshake for each key-exchange group, all at once on the asyncio   *)
(* loop; the outcomes are folded into a verdict.  The caller may cancel    *)
(* the probe at any await.                                                 *)
(*                                                                         *)
(* The host is a member of Servers, so that a verdict can be compared with *)
(* the truth.  An await under wait_for (Bounded) may time out, which shows *)
(* as a failed step; nothing else makes a silent host answer.              *)
(***************************************************************************)
EXTENDS Naturals

CONSTANTS
  Classical,  \* CLASSICAL_GROUPS
  X25519,     \* the one among them that a stock client offers
  Servers,    \* the hosts that may be probed
  MaxAddr     \* how many addresses a name may resolve to

PQ == "X25519MLKEM768"
Groups == Classical \cup {PQ}     \* _PROBE_GROUPS
Stock == "default"                \* the handshake a stock client would make
Slots == Groups \cup {Stock}

\* A host:
\*   mode  : it speaks TLS 1.3 ("tls13"), only older TLS ("old"), refuses the
\*           server name ("name"), or does not speak TLS ("deaf")
\*   groups: the groups it supports
\*   path  : a post-quantum hello passes ("clear"), is dropped ("drop") or
\*           draws an unrelated alert ("alert")
\*   lossy : any connection may be lost
HostType == [mode: {"tls13", "old", "name", "deaf"}, groups: SUBSET Groups,
             path: {"clear", "drop", "alert"}, lossy: BOOLEAN]

ASSUME ProbeAssumption ==
  /\ X25519 \in Classical
  /\ PQ \notin Classical /\ Stock \notin Classical
  /\ Servers \subseteq HostType
  /\ MaxAddr \in Nat

NO_SHARED_GROUP == {"handshake_failure", "insufficient_security"}
NO_TLS13 == NO_SHARED_GROUP \cup {"protocol_version"}
Alerts == NO_TLS13 \cup {"unrecognized_name", "internal_error", "none"}

Attempt == [outcome: {"accepted", "rejected", "failed"}, alert: Alerts,
            group: Groups \cup {"none"}]
Accepted(g) == [outcome |-> "accepted", alert |-> "none", group |-> g]
Rejected(a) == [outcome |-> "rejected", alert |-> a, group |-> "none"]
Failed == [outcome |-> "failed", alert |-> "none", group |-> "none"]

VARIABLES
  server,    \* the host
  phase,     \* where probe() stands: "dns", "connect", "gather", or how it ended:
             \* "done", "raised" or "cancelled"
  addrs,     \* addresses left to try
  round,     \* 1, or 2 when the post-quantum attempt is made again
  task,      \* the gathered tasks, by slot
  sock,      \* the socket of each slot: "none", "open" or "closed"
  attempt,   \* the Attempt of each slot
  cancelled, \* probe() has been cancelled
  verdict,
  lost       \* history: post-quantum attempts that were not accepted

vars == <<server, phase, addrs, round, task, sock, attempt, cancelled, verdict, lost>>
host == <<server, addrs>>

Unfinished == {"ready", "connecting", "shaking"}
Finished == {"settled", "raised", "cancelled"}
Ended == {"done", "raised", "cancelled"}

TypeOK ==
  /\ server \in Servers
  /\ phase \in {"dns", "connect", "gather"} \cup Ended
  /\ addrs \in 0 .. MaxAddr
  /\ round \in 1 .. 2
  /\ task \in [Slots -> {"none"} \cup Unfinished \cup Finished]
  /\ sock \in [Slots -> {"none", "open", "closed"}]
  /\ attempt \in [Slots -> Attempt]
  /\ cancelled \in BOOLEAN
  /\ verdict \in {"none", "post-quantum", "classical-only", "pq-blocked", "no-tls13",
                  "unreachable", "error"}
  /\ lost \in 0 .. 2
  /\ (verdict # "none") = (phase = "done")

Init ==
  /\ server \in Servers
  /\ phase = "dns"
  /\ addrs = 0
  /\ round = 1
  /\ task = [s \in Slots |-> "none"]
  /\ sock = [s \in Slots |-> "none"]
  /\ attempt = [s \in Slots |-> Failed]
  /\ cancelled = FALSE
  /\ verdict = "none"
  /\ lost = 0

-----------------------------------------------------------------------------
(* Finding an address that accepts a connection. *)

Unreachable == phase' = "done" /\ verdict' = "unreachable"

DnsFails ==
  /\ phase = "dns"
  /\ Unreachable
  /\ UNCHANGED <<host, round, task, sock, attempt, cancelled, lost>>

Resolve(n) ==
  /\ phase = "dns"
  /\ addrs' = n
  /\ \/ n = 0 /\ Unreachable
     \/ n > 0 /\ phase' = "connect" /\ UNCHANGED verdict
  /\ UNCHANGED <<server, round, task, sock, attempt, cancelled, lost>>

ConnectFirstFails ==
  /\ phase = "connect"
  /\ addrs' = addrs - 1
  /\ \/ addrs = 1 /\ Unreachable
     \/ addrs > 1 /\ UNCHANGED <<phase, verdict>>
  /\ UNCHANGED <<server, round, task, sock, attempt, cancelled, lost>>

\* The connection already open serves the stock handshake; the other tasks
\* make their own.
ConnectFirst ==
  /\ phase = "connect"
  /\ phase' = "gather"
  /\ task' = [s \in Slots |-> "ready"]
  /\ sock' = [sock EXCEPT ![Stock] = "open"]
  /\ UNCHANGED <<host, round, attempt, cancelled, verdict, lost>>

-----------------------------------------------------------------------------
(* The gathered tasks: _handshake() and _handshake_fresh(). *)

\* The groups of a hello: _DEFAULT_OFFER, or the one group of the slot.
Offer(s) == IF s = Stock THEN {PQ, X25519} ELSE {s}

\* A host that does not speak TLS, or to which the hello does not get through.
Silent(s) == server.mode = "deaf" \/ (PQ \in Offer(s) /\ server.path = "drop")

\* How the host answers the hello of a slot, if it does.
Answers(s) ==
  LET common == Offer(s) \cap server.groups IN
    IF Silent(s) THEN {}
    ELSE IF PQ \in Offer(s) /\ server.path = "alert" THEN {Rejected("internal_error")}
    ELSE IF server.mode = "name" THEN {Rejected("unrecognized_name")}
    ELSE IF server.mode = "old" THEN {Rejected("protocol_version")}
    ELSE IF common = {} THEN {Rejected("handshake_failure")}
    ELSE {Accepted(g) : g \in common}

Settle(s, a) ==
  /\ task' = [task EXCEPT ![s] = "settled"]
  /\ attempt' = [attempt EXCEPT ![s] = a]
  /\ sock' = [sock EXCEPT ![s] = "closed"]
  /\ lost' = IF s = PQ /\ a.outcome # "accepted" THEN lost + 1 ELSE lost

\* The first step of a task; a task that is cancelled before it never runs.
TaskStart(s) ==
  /\ phase = "gather" /\ task[s] = "ready" /\ ~cancelled
  /\ \/ /\ s = Stock /\ round = 1
        /\ task' = [task EXCEPT ![s] = "shaking"]
        /\ UNCHANGED sock
     \/ /\ ~(s = Stock /\ round = 1)
        /\ task' = [task EXCEPT ![s] = "connecting"]
        /\ sock' = [sock EXCEPT ![s] = "open"]
  /\ UNCHANGED <<host, phase, round, attempt, cancelled, verdict, lost>>

TaskConnected(s) ==
  /\ phase = "gather" /\ task[s] = "connecting"
  /\ task' = [task EXCEPT ![s] = "shaking"]
  /\ UNCHANGED <<host, phase, round, sock, attempt, cancelled, verdict, lost>>

\* _handshake_fresh(): the connection fails, is refused or times out.
TaskConnectFails(s) ==
  /\ phase = "gather" /\ task[s] = "connecting"
  /\ server.lossy
  /\ Settle(s, Failed)
  /\ UNCHANGED <<host, phase, round, cancelled, verdict>>

\* _handshake() returns the Attempt that the answer is, and closes its socket.
TaskAnswered(s) ==
  /\ phase = "gather" /\ task[s] = "shaking"
  /\ \E a \in Answers(s) : Settle(s, a)
  /\ UNCHANGED <<host, phase, round, cancelled, verdict>>

\* _handshake(): the connection breaks, or no answer comes in time.
TaskFails(s) ==
  /\ phase = "gather" /\ task[s] = "shaking"
  /\ server.lossy \/ Silent(s)
  /\ Settle(s, Failed)
  /\ UNCHANGED <<host, phase, round, cancelled, verdict>>

\* An exception that is neither an OSError nor a timeout leaves the task.
TaskRaises(s) ==
  /\ phase = "gather" /\ task[s] = "shaking"
  /\ task' = [task EXCEPT ![s] = "raised"]
  /\ sock' = [sock EXCEPT ![s] = "closed"]
  /\ UNCHANGED <<host, phase, round, attempt, cancelled, verdict, lost>>

\* CancelledError is thrown into the task where it waits.  One that never ran
\* has no finally to run: its socket stays as it is.
TaskCancelled(s) ==
  /\ phase = "gather" /\ cancelled
  /\ task[s] \in Unfinished
  /\ task' = [task EXCEPT ![s] = "cancelled"]
  /\ sock' = IF task[s] = "ready" THEN sock ELSE [sock EXCEPT ![s] = "closed"]
  /\ UNCHANGED <<host, phase, round, attempt, cancelled, verdict, lost>>

-----------------------------------------------------------------------------
(* The verdict. *)

\* Mutant: any alert counts as "this group is unsupported".
UnsupportedAnyAlert(a, alerts) == a.outcome = "rejected"

\* The host refused the offered group with an alert that says just that.
Unsupported(a, alerts) == a.outcome = "rejected" /\ a.alert \in alerts

\* _verdict()
Verdict(at) ==
  LET pq == at[PQ] IN
    IF pq.outcome = "accepted" THEN "post-quantum"
    ELSE IF \E g \in Classical : at[g].outcome = "accepted"
      THEN IF Unsupported(pq, NO_SHARED_GROUP) THEN "classical-only" ELSE "pq-blocked"
    ELSE IF \A g \in Groups : Unsupported(at[g], NO_TLS13) THEN "no-tls13"
    ELSE "error"

\* gather() has returned: every task is finished.
Gathered == phase = "gather" /\ \A s \in Slots : task[s] \in Finished

\* Mutant: the stock handshake is trusted to close the first connection.
CloseFirstNot == UNCHANGED sock

\* The finally of the first round closes the first connection.
CloseFirst == sock' = [sock EXCEPT ![Stock] = IF round = 1 THEN "closed" ELSE @]

\* The cancellation of the gather, or the first exception among its results,
\* leaves probe().
GatherFails ==
  /\ Gathered
  /\ \/ cancelled /\ phase' = "cancelled"
     \/ ~cancelled /\ (\E s \in Slots : task[s] = "raised") /\ phase' = "raised"
  /\ CloseFirst
  /\ UNCHANGED <<host, round, task, attempt, cancelled, verdict, lost>>

AllSettled == Gathered /\ ~cancelled /\ \A s \in Slots : task[s] # "raised"

\* A blocked post-quantum attempt is made again, and the stock one with it.
TryAgain ==
  /\ AllSettled
  /\ round = 1 /\ Verdict(attempt) = "pq-blocked"
  /\ round' = 2
  /\ task' = [task EXCEPT ![PQ] = "ready", ![Stock] = "ready"]
  /\ CloseFirst
  /\ UNCHANGED <<host, phase, attempt, cancelled, verdict, lost>>

\* The ProbeResult is returned.
Conclude ==
  /\ AllSettled
  /\ round = 2 \/ Verdict(attempt) # "pq-blocked"
  /\ phase' = "done"
  /\ verdict' = Verdict(attempt)
  /\ CloseFirst
  /\ UNCHANGED <<host, round, task, attempt, cancelled, lost>>

-----------------------------------------------------------------------------
\* The caller cancels probe(): before the gather it ends at once (_connect
\* closes its socket), in a gather when every task has ended.
Cancel ==
  /\ phase \notin Ended /\ ~cancelled
  /\ ~Gathered
  /\ cancelled' = TRUE
  /\ phase' = IF phase = "gather" THEN phase ELSE "cancelled"
  /\ UNCHANGED <<host, round, task, sock, attempt, verdict, lost>>

\* What the asyncio loop runs without waiting for the network.
LoopSteps ==
  \/ \E s \in Slots : TaskStart(s) \/ TaskCancelled(s)
  \/ GatherFails
  \/ TryAgain
  \/ Conclude

\* What comes from the resolver and from the host.
Arrivals ==
  \/ \E n \in 0 .. MaxAddr : Resolve(n)
  \/ ConnectFirst
  \/ \E s \in Slots : TaskConnected(s) \/ TaskAnswered(s) \/ TaskRaises(s)

Failures ==
  \/ DnsFails
  \/ ConnectFirstFails
  \/ \E s \in Slots : TaskConnectFails(s) \/ TaskFails(s)

Next == LoopSteps \/ Arrivals \/ Failures \/ Cancel

Spec == Init /\ [][Next]_vars

\* Mutant: _connect() awaits sock_connect() without wait_for().
BoundedNotConnect == {"dns", "shaking"}

\* The awaits that are under wait_for(): getaddrinfo() in probe(), sock_connect()
\* in _connect() (of the first connection and of a task), handshake_async() in
\* _handshake().
Bounded == {"dns", "connect", "shaking"}

\* A failure that a timer brings about, if nothing else does.
Timeouts ==
  \/ "dns" \in Bounded /\ DnsFails
  \/ "connect" \in Bounded /\ ConnectFirstFails
  \/ \E s \in Slots : \/ "connect" \in Bounded /\ TaskConnectFails(s)
                      \/ "shaking" \in Bounded /\ TaskFails(s)

\* The answers of a host that loses nothing.
Replies == ~server.lossy /\ \E s \in Slots : TaskConnected(s) \/ TaskAnswered(s)

\* The asyncio loop runs, its timers fire, and what is sent to and by a host that
\* loses nothing arrives.  Nothing is assumed of the resolver, of the first
\* connection, of a host that loses packets or of one that is silent.
FairSpec == Spec /\ WF_vars(LoopSteps) /\ WF_vars(Timeouts) /\ WF_vars(Replies)

-----------------------------------------------------------------------------
(* Properties. *)

\* However the probe ends, by a result, an exception or a cancellation at any
\* await, none of its sockets is left open and none of its tasks is running.
NothingLeftBehind ==
  /\ TypeOK
  /\ phase \in Ended => \A s \in Slots : sock[s] # "open" /\ task[s] \notin Unfinished

\* A verdict other than an error is true of the host, on any path.  "only call it
\* blocked if a second try fails too": one lost packet is never reported as a
\* blocked path.
VerdictIsTrue ==
  /\ verdict = "post-quantum" => server.mode = "tls13" /\ PQ \in server.groups
                                 /\ server.path = "clear"
  /\ verdict = "classical-only" => server.mode = "tls13" /\ PQ \notin server.groups
                                   /\ server.groups # {}
  /\ verdict = "pq-blocked" => server.mode = "tls13" /\ server.groups # {}
                               /\ (server.path # "clear" \/ server.lossy) /\ lost = 2
  /\ verdict = "no-tls13" => \/ server.mode = "old"
                             \/ server.mode = "tls13" /\ server.groups = {}

\* "so the result never contradicts its own verdict": a result whose verdict is
\* that post-quantum hellos break does not show one that was accepted.
NeverContradicts == verdict = "pq-blocked" => attempt[Stock].group # PQ

\* Every probe ends, with any host: one that never answers at any point, drops
\* the hello or loses any packet.
ProbeEnds == <>(phase \in Ended)
=============================================================================
