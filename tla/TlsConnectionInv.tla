-------------------------- MODULE TlsConnectionInv --------------------------
(***************************************************************************)
(* The inductive invariant of TlsConnection, in named parts.  TLC checks   *)
(* it on a small instance (MCTlsSafety.cfg); TlsConnectionProofs proves it *)
(* and derives the safety properties from it.                              *)
(***************************************************************************)
EXTENDS TlsConnection

InQueue(o) == \E i \in 1 .. Len(queue) : queue[i] = o

\* A task is posted once and its operation stays queued until it runs.
QueueInv ==
  /\ \A i \in 1 .. Len(queue) : queue[i] # Dtor => status[queue[i]] = "queued"
  /\ \A i, j \in 1 .. Len(queue) : queue[i] = queue[j] => i = j

\* The teardown task is posted last, by a destructor that waits for it.
DtorInv ==
  \A i \in 1 .. Len(queue) :
    queue[i] = Dtor => i = Len(queue) /\ life = "destroying"

\* After the teardown nothing refers to the object.
TornInv ==
  life \in {"torn", "freed"} =>
    queue = <<>> /\ ~timer /\ client = "null" /\ InFlight = {}

\* The parked promise is an unanswered read.
ParkInv == pendingRead # NoOp => status[pendingRead] = "parked"

\* client_ follows the connect operation, and the descriptor follows client_.
ConnInv ==
  /\ status[Conn] \in {"new", "queued"} => client = "null" /\ ~eof /\ ~readErr
  /\ status[Conn] = "inflight" <=> client = "connecting"
  /\ client \in {"connecting", "open"} => fd = "open"
  /\ fd = "open" => client \in {"connecting", "open"}
  /\ fd = "handed" => InQueue(Conn)
  /\ client \in {"connecting", "open"} => ~eof /\ ~readErr
  /\ \A w \in Writes : status[w] = "inflight" => client = "open"

\* An ended stream was told to readers only when it was drained.
EndInv ==
  /\ (\E r \in Reads : status[r] \in {"eof", "rejected"}) => eof \/ readErr
  /\ (\E r \in Reads : status[r] \in {"eof", "rejected"}) => buffer = <<>>

\* Once the destructor has begun, nobody waits.
GoneInv ==
  life # "alive" =>
    \A o \in PromiseOps : status[o] \in Outstanding => o \in abandoned

\* Of two outstanding reads the older one has been abandoned.
ReadOrder ==
  /\ \A i \in 1 .. Len(queue) :
       queue[i] \in Reads /\ pendingRead # NoOp => pendingRead \in abandoned
  /\ \A i, j \in 1 .. Len(queue) :
       i < j /\ queue[i] \in Reads /\ queue[j] \in Reads => queue[i] \in abandoned

\* Without Reissue there is one outstanding operation in each direction, and
\* the deadline that is armed is its own.
DeadlineInv ==
  ~Reissue =>
    /\ \A i \in 1 .. Len(queue) : queue[i] \in Reads => pendingRead = NoOp
    /\ \A i, j \in 1 .. Len(queue) :
         queue[i] \in Reads /\ queue[j] \in Reads => i = j
    /\ \A i \in 1 .. Len(queue) : queue[i] \in Writes =>
         \A w \in Writes : status[w] # "inflight"
    /\ \A i, j \in 1 .. Len(queue) :
         queue[i] \in Writes /\ queue[j] \in Writes => i = j
    /\ timer => pendingRead \in Timed
    /\ \A w \in Writes : status[w] = "inflight" /\ sendTimeout => w \in Timed
    /\ \A o \in PromiseOps : status[o] = "timedout" => o \in Timed

\* The inductive invariant: the parts above, with the properties that are
\* inductive together with them.
IndInv ==
  /\ TypeOK
  /\ QueueInv
  /\ DtorInv
  /\ TornInv
  /\ ParkInv
  /\ ConnInv
  /\ StreamIntact
  /\ ParkedMeansStarved
  /\ EndInv
  /\ GoneInv
  /\ ReadOrder
  /\ NoLostPromise
  /\ DeadlineInv
=============================================================================
