------------------------ MODULE ConnectionContract ------------------------
(***************************************************************************)
(* What a connection promises to the code above it (_transport.py): every  *)
(* operation submitted is answered at most once and is thrown away only    *)
(* when its caller gave it up; reads take everything that has arrived, in  *)
(* order; the end of the stream is told only after the last byte, and no   *)
(* byte arrives after the end.  TlsConnection implements it.               *)
(***************************************************************************)
EXTENDS Naturals

CONSTANTS PromiseOps, Reads

VARIABLES
  phase,    \* of each operation
  gone,     \* operations whose caller gave up
  arrived,  \* chunks the peer's stream has brought
  handed,   \* chunks handed to reads
  ended     \* the stream is over

cvars == <<phase, gone, arrived, handed, ended>>

Init ==
  /\ phase = [o \in PromiseOps |-> "idle"]
  /\ gone = {}
  /\ arrived = 0
  /\ handed = 0
  /\ ended = FALSE

Becomes(S, p) == [o \in PromiseOps |-> IF o \in S THEN p ELSE phase[o]]

Submit(o) ==
  /\ phase[o] = "idle"
  /\ phase' = Becomes({o}, "pending")
  /\ UNCHANGED <<gone, arrived, handed, ended>>

GiveUp(o) ==
  /\ phase[o] = "pending"
  /\ gone' = gone \cup {o}
  /\ UNCHANGED <<phase, arrived, handed, ended>>

Discard(o) ==
  /\ o \in gone
  /\ phase[o] = "pending"
  /\ phase' = Becomes({o}, "discarded")
  /\ UNCHANGED <<gone, arrived, handed, ended>>

\* connect and write succeed; connect and write fail, and a read times out.
Complete(o) ==
  /\ phase[o] = "pending"
  /\ \/ o \notin Reads /\ ~ended /\ phase' = Becomes({o}, "ok")
     \/ phase' = Becomes({o}, "failed")
  /\ UNCHANGED <<gone, arrived, handed, ended>>

\* A chunk arrives, and goes to a waiting read if there is one.
Arrive(S) ==
  /\ ~ended
  /\ arrived' = arrived + 1
  /\ \A o \in S : phase[o] = "pending"
  /\ phase' = Becomes(S, "data")
  /\ handed' = IF S = {} THEN handed ELSE arrived + 1
  /\ UNCHANGED <<gone, ended>>

\* A read finds chunks that arrived before it.
Serve(r) ==
  /\ phase[r] = "pending"
  /\ handed < arrived
  /\ phase' = Becomes({r}, "data")
  /\ handed' = arrived
  /\ UNCHANGED <<gone, arrived, ended>>

\* A read finds the end.
ServeEnd(r) ==
  /\ ended
  /\ phase[r] = "pending"
  /\ handed = arrived
  /\ phase' = Becomes({r}, "end")
  /\ UNCHANGED <<gone, arrived, handed, ended>>

\* The stream ends: F fail, and the reads E are told, if all was handed out.
End(F, E) ==
  /\ ~ended
  /\ ended' = TRUE
  /\ \A o \in F \cup E : phase[o] = "pending"
  /\ E # {} => handed = arrived
  /\ phase' = [o \in PromiseOps |-> IF o \in E THEN "end"
                                    ELSE IF o \in F THEN "failed" ELSE phase[o]]
  /\ UNCHANGED <<gone, arrived, handed>>

OneRead == {{}} \cup {{r} : r \in Reads}

Next ==
  \/ \E o \in PromiseOps : Submit(o) \/ GiveUp(o) \/ Discard(o) \/ Complete(o)
  \/ \E r \in Reads : Serve(r) \/ ServeEnd(r)
  \/ \E S \in OneRead : Arrive(S)
  \/ \E F \in SUBSET (PromiseOps \ Reads), E \in OneRead : End(F, E)

Spec == Init /\ [][Next]_cvars
=============================================================================
