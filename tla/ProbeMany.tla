------------------------------ MODULE ProbeMany ------------------------------
(***************************************************************************)
(* probe_many() of fizzpy/probe.py: an asynchronous generator over the     *)
(* results of many probes.  One task per target waits at a semaphore,      *)
(* probes, and returns a result; the consumer takes the results in the     *)
(* order in which they complete and may stop, or be cancelled, at any      *)
(* moment, which cancels the tasks that are left.                          *)
(*                                                                         *)
(* A probe is one step of a task here; its own steps are in module Probe.  *)
(***************************************************************************)
EXTENDS Naturals, Sequences, FiniteSets, SequencesExt

CONSTANTS
  Targets,      \* the targets a scan may be asked for
  Concurrency   \* how many may be probed at once

\* The command line refuses a concurrency below one; a scan is given a list.
ASSUME ConcurrencyAssumption == Concurrency \in Nat \ {0} /\ IsFiniteSet(Targets)

VARIABLES
  asked,     \* the targets of this scan
  bad,       \* those parse_target() refuses
  capable,   \* this build can do post-quantum key exchange
  gen,       \* the generator: "new", "waiting" (in its await), "yielded" (at its
             \* yield), "closing" (in its finally) or "closed"
  raised,    \* what leaves the generator: an exception, or "none"
  task,      \* the task of each target
  permits,   \* the semaphore
  ready,     \* tasks in the order in which they were done (as_completed)
  yielded    \* targets whose result the consumer has been given

vars == <<asked, bad, capable, gen, raised, task, permits, ready, yielded>>
given == <<asked, bad, capable>>

Active == {"gated", "probing"}
Results == {"post-quantum", "other", "error"}
Over == Results \cup {"unsupported", "cancelled"}
Exceptions == {"none", "ValueError", "NoPostQuantumSupport", "CancelledError", "GeneratorExit"}

TypeOK ==
  /\ asked \subseteq Targets /\ bad \subseteq asked
  /\ capable \in BOOLEAN
  /\ gen \in {"new", "waiting", "yielded", "closing", "closed"}
  /\ raised \in Exceptions
  /\ task \in [Targets -> {"none"} \cup Active \cup Over]
  /\ permits \in 0 .. Concurrency
  /\ ready \in Seq(Targets)
  /\ yielded \in Seq(Targets)

Init ==
  /\ asked \in SUBSET Targets
  /\ bad \in SUBSET asked
  /\ capable \in BOOLEAN
  /\ gen = "new"
  /\ raised = "none"
  /\ task = [t \in Targets |-> "none"]
  /\ permits = Concurrency
  /\ ready = <<>>
  /\ yielded = <<>>

-----------------------------------------------------------------------------
(* The generator. *)

\* The first step: every target is parsed before any task is made.
Start ==
  /\ gen = "new"
  /\ \/ /\ bad # {}
        /\ gen' = "closed" /\ raised' = "ValueError"
        /\ UNCHANGED task
     \/ /\ bad = {}
        /\ gen' = "waiting"
        /\ task' = [t \in Targets |-> IF t \in asked THEN "gated" ELSE "none"]
        /\ UNCHANGED raised
  /\ UNCHANGED <<given, permits, ready, yielded>>

\* Mutant: the task stays among those that are to be yielded.
Keep(s) == s

\* as_completed() hands a task out once.
Taken(s) == Tail(s)

\* The next task that is done: its result is yielded, or its exception leaves
\* the loop.
TakeNext ==
  /\ gen = "waiting" /\ ready # <<>>
  /\ ready' = Taken(ready)
  /\ \/ /\ task[Head(ready)] \in Results
        /\ yielded' = Append(yielded, Head(ready))
        /\ gen' = "yielded"
        /\ UNCHANGED raised
     \/ /\ task[Head(ready)] = "unsupported"
        /\ gen' = "closing" /\ raised' = "NoPostQuantumSupport"
        /\ UNCHANGED yielded
  /\ UNCHANGED <<given, task, permits>>

\* The loop is over when as many results have been awaited as there are tasks.
Exhausted ==
  /\ gen = "waiting"
  /\ Len(yielded) = Cardinality(asked)
  /\ gen' = "closing"
  /\ UNCHANGED <<given, raised, task, permits, ready, yielded>>

\* Mutant: the tasks are cancelled, but not waited for.
NotWaited == TRUE

\* gather() returns when every task is over.
Gathered == \A t \in asked : task[t] \in Over

\* The finally has cancelled every task.
Cleanup ==
  /\ gen = "closing" /\ Gathered
  /\ gen' = "closed"
  /\ UNCHANGED <<given, raised, task, permits, ready, yielded>>

-----------------------------------------------------------------------------
(* The consumer. *)

Pull ==
  /\ gen = "yielded"
  /\ gen' = "waiting"
  /\ UNCHANGED <<given, raised, task, permits, ready, yielded>>

\* It closes the generator at a yield, or is cancelled while it waits.
Stop ==
  /\ \/ gen = "yielded" /\ raised' = "GeneratorExit"
     \/ gen = "waiting" /\ raised' = "CancelledError"
  /\ gen' = "closing"
  /\ UNCHANGED <<given, task, permits, ready, yielded>>

-----------------------------------------------------------------------------
(* The tasks: one(). *)

\* A task that is being cancelled does not get past the semaphore.
Acquire(t) ==
  /\ gen # "closing"
  /\ task[t] = "gated" /\ permits > 0
  /\ task' = [task EXCEPT ![t] = "probing"]
  /\ permits' = permits - 1
  /\ UNCHANGED <<given, gen, raised, ready, yielded>>

\* Mutant: the permit is not given back.
NotReleased == permits

Released == permits + 1

\* A task leaves the semaphore with its result or exception.
Leave(t, outcome) ==
  /\ task[t] = "probing"
  /\ task' = [task EXCEPT ![t] = outcome]
  /\ permits' = Released
  /\ ready' = Append(ready, t)
  /\ UNCHANGED <<given, gen, raised, yielded>>

ProbeReturns(t, verdict) == capable /\ Leave(t, verdict)

\* One bad host does not end the scan.
ProbeRaises(t) == capable /\ Leave(t, "error")

ProbeRefuses(t) == ~capable /\ Leave(t, "unsupported")

\* The cancellation of the finally arrives: a task that is inside the semaphore
\* leaves it.
TaskCancelled(t) ==
  /\ gen = "closing"
  /\ task[t] \in Active
  /\ task' = [task EXCEPT ![t] = "cancelled"]
  /\ permits' = IF task[t] = "probing" THEN Released ELSE permits
  /\ UNCHANGED <<given, gen, raised, ready, yielded>>

-----------------------------------------------------------------------------
Tasks ==
  \E t \in Targets : \/ Acquire(t)
                     \/ \E verdict \in {"post-quantum", "other"} : ProbeReturns(t, verdict)
                     \/ ProbeRaises(t)
                     \/ ProbeRefuses(t)
                     \/ TaskCancelled(t)

Loop == Start \/ TakeNext \/ Exhausted \/ Cleanup \/ Tasks

-----------------------------------------------------------------------------
(* Properties. *)

\* Types, and no more than Concurrency probes run at once and no permit is lost
\* however the tasks end: the free permits are what the probing tasks leave.
ScanInv ==
  /\ TypeOK
  /\ permits + Cardinality({t \in Targets : task[t] = "probing"}) = Concurrency

\* A result is yielded once, and a scan that ends by itself has yielded one
\* for every target.
EachTargetOnce ==
  /\ Cardinality(ToSet(yielded)) = Len(yielded)
  /\ \A t \in ToSet(yielded) : task[t] \in Results
  /\ gen = "closed" /\ raised = "none" => ToSet(yielded) = asked

\* However the scan ends, no task of it is left, and a typo in any target ends
\* it before any connection is made.
NoTaskLeft ==
  gen = "closed" => \A t \in Targets : task[t] \notin Active /\ (bad # {} => task[t] = "none")
=============================================================================
