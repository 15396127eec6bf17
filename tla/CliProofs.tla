------------------------------ MODULE CliProofs ------------------------------
(***************************************************************************)
(* Safety of probe_many() and of the command line over it, for any number  *)
(* of targets and permits and any input.                                   *)
(***************************************************************************)
EXTENDS Cli, FiniteSetTheorems, WellFoundedInduction, TLAPS

Done == Results \cup {"unsupported"}

Probing == {t \in Targets : task[t] = "probing"}

\* Permits are conserved.
Conserved == permits + Cardinality(Probing) = Concurrency

\* Only what was asked for, in a scan whose targets are all well formed, has a
\* task, and only once the scan has begun.
Begun ==
  /\ \A t \in Targets : task[t] # "none" => t \in asked /\ bad = {} /\ gen # "new"
  /\ gen \in {"waiting", "yielded", "closing"} => bad = {} /\ \A t \in asked : task[t] # "none"

\* A task that is done is handed on once: it waits in ready, or was yielded.
Queued ==
  /\ \A i, j \in DOMAIN ready : ready[i] = ready[j] => i = j
  /\ \A i \in DOMAIN ready : task[ready[i]] \in Done
  /\ \A i \in DOMAIN yielded : task[yielded[i]] \in Results
  /\ \A i \in DOMAIN ready, j \in DOMAIN yielded : ready[i] # yielded[j]

Once == IsFiniteSet(ToSet(yielded)) /\ Cardinality(ToSet(yielded)) = Len(yielded)

\* A generator that ends without an exception has yielded as many results as
\* there are targets, and leaves no task.
Ending ==
  /\ gen \in {"closing", "closed"} /\ raised = "none" => Len(yielded) = Cardinality(asked)
  /\ gen = "closed" => \A t \in Targets : task[t] \notin Active

Scanning == TypeOK /\ Conserved /\ Begun /\ Queued /\ Once /\ Ending

\* A build that cannot do post-quantum key exchange yields nothing, and nothing
\* of it is printed.
Capability ==
  /\ \A t \in Targets : task[t] \in Results => capable
  /\ \A t \in Targets : task[t] = "unsupported" => ~capable
  /\ gen = "yielded" => capable
  /\ raised = "NoPostQuantumSupport" => ~capable
  /\ ~capable /\ stage # "over" => shown = <<>>

\* The command scans what its input was parsed to, and nothing when a line of it
\* is no target; it leaves the scan early only with an exception under way.
Stages ==
  /\ user \in {"cli", "library"} /\ stage \in {"main", "scan", "interrupted", "broken", "over"}
  /\ user = "cli" => input \in Inputs /\ args \in Arguments /\ asked = parsed \cap Targets
  /\ user = "library" => stage = "scan"
  /\ user = "cli" /\ Bad \in parsed => gen = "new" /\ stage \in {"main", "over"}
  /\ stage = "main" => gen = "new" /\ shown = <<>>
  /\ stage \in {"interrupted", "broken"} => raised # "none"
  /\ stage # "over" => exit = -1

\* What each exit status was given for.
Exits ==
  /\ exit = 0 => /\ user = "cli" /\ gen = "closed" /\ raised = "none" /\ Bad \notin parsed
                 /\ args.require_pq => \A t \in ToSet(yielded) : task[t] = "post-quantum"
  /\ exit = 1 /\ args.json /\ raised = "none" =>
       args.require_pq /\ \E t \in ToSet(yielded) : task[t] # "post-quantum"
  /\ exit = 2 => shown = <<>>

CliInv == Scanning /\ Capability /\ Stages /\ Exits

-----------------------------------------------------------------------------
(* What a step of the command, or of a library user, does to the scan. *)

\* Control-C while the generator is in its finally.
InterruptCleanup ==
  /\ gen = "closing" /\ raised' = "CancelledError"
  /\ UNCHANGED <<given, gen, task, permits, ready, yielded>>

ScanStep == Loop \/ Pull \/ Stop \/ InterruptCleanup \/ UNCHANGED vars

\* Every step is one of the scan, or leaves it alone.
LEMMA StepsOfScan == [Next]_allvars => ScanStep
BY DEF Next, Command, Usage, Scan, Run, Consume, Report, Fail, PipeBreaks, KeyboardInterrupt,
   Consumer, allvars, ScanStep, InterruptCleanup

\* One task is among the probing ones or not: how many there are then.
LEMMA OneTask ==
  ASSUME TypeOK, NEW t \in Targets, NEW state \in {"none"} \cup Active \cup Over,
         task' = [task EXCEPT ![t] = state]
  PROVE  /\ Cardinality(Probing) \in Nat
         /\ task[t] = "probing" => Cardinality(Probing) > 0
         /\ task[t] # "probing" /\ state # "probing" => Cardinality(Probing') = Cardinality(Probing)
         /\ task[t] = "probing" /\ state # "probing" => Cardinality(Probing') = Cardinality(Probing) - 1
         /\ task[t] # "probing" /\ state = "probing" => Cardinality(Probing') = Cardinality(Probing) + 1
<1>1. IsFiniteSet(Probing)
  BY ConcurrencyAssumption, FS_Subset DEF Probing
<1>2. Cardinality(Probing) \in Nat
  BY <1>1, FS_CardinalityType
<1>3. task[t] # "probing" /\ state # "probing" => Probing' = Probing
  BY DEF Probing, TypeOK
<1>4. task[t] = "probing" /\ state # "probing" => Probing' = Probing \ {t} /\ t \in Probing
  BY DEF Probing, TypeOK
<1>5. task[t] # "probing" /\ state = "probing" => Probing' = Probing \cup {t} /\ t \notin Probing
  BY DEF Probing, TypeOK
<1>6. task[t] = "probing" => Cardinality(Probing) > 0
  BY <1>1, <1>2, FS_EmptySet DEF Probing
<1>7. task[t] = "probing" /\ state # "probing" => Cardinality(Probing') = Cardinality(Probing) - 1
  BY <1>1, <1>4, FS_RemoveElement
<1>8. task[t] # "probing" /\ state = "probing" => Cardinality(Probing') = Cardinality(Probing) + 1
  BY <1>1, <1>5, FS_AddElement
<1> QED
  BY <1>2, <1>3, <1>6, <1>7, <1>8

\* A step conserves the permits and keeps the types.
LEMMA ConservedStep == TypeOK /\ Conserved /\ Begun /\ ScanStep => TypeOK' /\ Conserved'
<1> SUFFICES ASSUME TypeOK, Conserved, Begun, ScanStep PROVE TypeOK' /\ Conserved'
  OBVIOUS
<1> USE ConcurrencyAssumption
<1>1. ASSUME NEW t \in Targets, NEW state \in {"none"} \cup Active \cup Over,
             task' = [task EXCEPT ![t] = state], permits' \in 0 .. Concurrency,
             ready' \in Seq(Targets), UNCHANGED <<given, gen, raised, yielded>>
      PROVE  TypeOK'
  <2>1. task' \in [Targets -> {"none"} \cup Active \cup Over]
    BY <1>1 DEF TypeOK
  <2> QED
    BY <1>1, <2>1 DEF TypeOK, given
<1>2. ASSUME UNCHANGED <<given, task, permits>>, ready' \in Seq(Targets),
             yielded' \in Seq(Targets), raised' \in Exceptions,
             gen' \in {"new", "waiting", "yielded", "closing", "closed"}
      PROVE  TypeOK' /\ Conserved'
  BY <1>2 DEF TypeOK, Conserved, Probing, given
<1>3. CASE Start
  <2>1. CASE bad # {}
    BY <1>2, <1>3, <2>1 DEF Start, TypeOK, Exceptions
  <2>2. CASE bad = {}
    <3>1. Probing = {} /\ Probing' = {}
      BY <1>3, <2>2 DEF Start, Begun, Probing
    <3>2. task' \in [Targets -> {"none"} \cup Active \cup Over]
      BY <1>3, <2>2 DEF Start, Active
    <3> QED
      BY <1>3, <2>2, <3>1, <3>2 DEF Start, TypeOK, Conserved, given
  <2> QED
    BY <2>1, <2>2
<1>4. CASE TakeNext
  <2>1. Tail(ready) \in Seq(Targets) /\ Append(yielded, Head(ready)) \in Seq(Targets)
    BY <1>4 DEF TakeNext, TypeOK
  <2> QED
    BY <1>2, <1>4, <2>1 DEF TakeNext, Taken, TypeOK, Exceptions
<1>5. CASE Exhausted \/ Cleanup \/ Pull
  BY <1>2, <1>5 DEF Exhausted, Cleanup, Pull, TypeOK
<1>6. CASE Stop \/ InterruptCleanup
  BY <1>2, <1>6 DEF Stop, InterruptCleanup, TypeOK, Exceptions
<1>7. ASSUME NEW t \in Targets, Acquire(t) PROVE TypeOK' /\ Conserved'
  <2>1. /\ task[t] = "gated" /\ task' = [task EXCEPT ![t] = "probing"] /\ "probing" \in Active
        /\ permits > 0 /\ permits' = permits - 1 /\ UNCHANGED <<given, gen, raised, ready, yielded>>
    BY <1>7 DEF Acquire, Active
  <2>2. Cardinality(Probing') = Cardinality(Probing) + 1 /\ Cardinality(Probing) \in Nat
    BY <2>1, OneTask
  <2>3. Conserved' /\ permits' \in 0 .. Concurrency
    BY <2>1, <2>2 DEF Conserved, TypeOK
  <2> QED
    BY <1>1, <2>1, <2>3 DEF TypeOK
<1>8. ASSUME NEW t \in Targets, NEW outcome \in Done, Leave(t, outcome) PROVE TypeOK' /\ Conserved'
  <2>1. /\ task[t] = "probing" /\ task' = [task EXCEPT ![t] = outcome]
        /\ permits' = permits + 1 /\ UNCHANGED <<given, gen, raised, yielded>>
    BY <1>8 DEF Leave, Released
  <2>2. outcome \in Over /\ outcome # "probing"
    BY DEF Done, Over, Results
  <2>3. /\ Cardinality(Probing') = Cardinality(Probing) - 1
        /\ Cardinality(Probing) \in Nat /\ Cardinality(Probing) > 0
    BY <2>1, <2>2, OneTask
  <2>4. Conserved' /\ permits' \in 0 .. Concurrency
    BY <2>1, <2>3 DEF Conserved, TypeOK
  <2>5. ready' \in Seq(Targets)
    BY <1>8 DEF Leave, TypeOK
  <2> QED
    BY <1>1, <2>1, <2>2, <2>4, <2>5
<1>9. ASSUME NEW t \in Targets, TaskCancelled(t) PROVE TypeOK' /\ Conserved'
  <2>1. /\ task' = [task EXCEPT ![t] = "cancelled"] /\ "cancelled" \in Over
        /\ permits' = IF task[t] = "probing" THEN permits + 1 ELSE permits
        /\ UNCHANGED <<given, gen, raised, ready, yielded>>
    BY <1>9 DEF TaskCancelled, Released, Over
  <2>2. /\ Cardinality(Probing) \in Nat
        /\ IF task[t] = "probing"
             THEN Cardinality(Probing') = Cardinality(Probing) - 1 /\ Cardinality(Probing) > 0
             ELSE Cardinality(Probing') = Cardinality(Probing)
    <3>1. "cancelled" # "probing" /\ "cancelled" \in {"none"} \cup Active \cup Over
      BY <2>1
    <3> QED
      BY <2>1, <3>1, OneTask, Zenon
  <2>3. Conserved' /\ permits' \in 0 .. Concurrency
    BY <2>1, <2>2 DEF Conserved, TypeOK
  <2> QED
    BY <1>1, <2>1, <2>3 DEF TypeOK
<1>10. ASSUME NEW t \in Targets, NEW verdict \in {"post-quantum", "other"}, ProbeReturns(t, verdict)
       PROVE  TypeOK' /\ Conserved'
  BY <1>8, <1>10 DEF ProbeReturns, Done, Results
<1>11. ASSUME NEW t \in Targets, ProbeRaises(t) \/ ProbeRefuses(t) PROVE TypeOK' /\ Conserved'
  BY <1>8, <1>11 DEF ProbeRaises, ProbeRefuses, Done, Results
<1>12. CASE UNCHANGED vars
  BY <1>2, <1>12 DEF vars, given, TypeOK
<1> QED
  BY <1>3, <1>4, <1>5, <1>6, <1>7, <1>9, <1>10, <1>11, <1>12 DEF ScanStep, Loop, Tasks

\* A step gives a task to nobody who was not asked for.
LEMMA BegunStep == TypeOK /\ Begun /\ ScanStep => Begun'
<1> SUFFICES ASSUME TypeOK, Begun, ScanStep PROVE Begun'
  OBVIOUS
<1> USE DEF Begun, TypeOK, given, Active
<1>1. CASE Start
  BY <1>1 DEF Start
<1>2. CASE TakeNext
  BY <1>2 DEF TakeNext
<1>3. CASE Exhausted \/ Cleanup \/ Pull \/ Stop \/ InterruptCleanup
  BY <1>3 DEF Exhausted, Cleanup, Pull, Stop, InterruptCleanup
<1>4. ASSUME NEW t \in Targets, Acquire(t) PROVE Begun'
  BY <1>4 DEF Acquire
<1>5. ASSUME NEW t \in Targets, NEW outcome \in Done, Leave(t, outcome) PROVE Begun'
  BY <1>5 DEF Leave, Done, Results
<1>6. ASSUME NEW t \in Targets, TaskCancelled(t) PROVE Begun'
  BY <1>6 DEF TaskCancelled
<1>7. ASSUME NEW t \in Targets, NEW verdict \in {"post-quantum", "other"}, ProbeReturns(t, verdict)
      PROVE  Begun'
  BY <1>5, <1>7 DEF ProbeReturns, Done, Results
<1>8. ASSUME NEW t \in Targets, ProbeRaises(t) \/ ProbeRefuses(t) PROVE Begun'
  BY <1>5, <1>8 DEF ProbeRaises, ProbeRefuses, Done, Results
<1>9. CASE UNCHANGED vars
  BY <1>9 DEF vars
<1> QED
  BY <1>1, <1>2, <1>3, <1>4, <1>6, <1>7, <1>8, <1>9 DEF ScanStep, Loop, Tasks

\* A step hands no result on twice.
LEMMA QueuedStep ==
  TypeOK /\ Begun /\ Queued /\ Once /\ ScanStep => Queued' /\ Once'
<1> SUFFICES ASSUME TypeOK, Begun, Queued, Once, ScanStep PROVE Queued' /\ Once'
  OBVIOUS
<1> USE DEF TypeOK
<1>1. ASSUME UNCHANGED <<task, ready, yielded>> PROVE Queued' /\ Once'
  BY <1>1 DEF Queued, Once
<1>2. ASSUME NEW t \in Targets, task[t] \notin Done, UNCHANGED <<ready, yielded>>,
             \E state : task' = [task EXCEPT ![t] = state]
      PROVE  Queued' /\ Once'
  <2>1. \A u \in Targets : task[u] \in Done => task'[u] = task[u]
    BY <1>2
  <2> QED
    BY <1>2, <2>1 DEF Queued, Once, Done
<1>3. CASE Start
  <2>1. ready = <<>> /\ yielded = <<>>
    <3>1. \A t \in Targets : task[t] = "none"
      BY <1>3 DEF Start, Begun
    <3>2. "none" \notin Done /\ "none" \notin Results
      BY DEF Done, Results
    <3>3. DOMAIN ready = {} /\ DOMAIN yielded = {}
      BY <3>1, <3>2 DEF Queued
    <3> QED
      BY <3>3
  <2> QED
    BY <1>3, <2>1 DEF Start, Queued, Once
<1>4. CASE TakeNext
  <2>1. /\ ready # <<>> /\ ready' = Tail(ready) /\ task' = task /\ Head(ready) = ready[1]
        /\ 1 \in DOMAIN ready
        /\ Len(Tail(ready)) = Len(ready) - 1
        /\ \A i \in DOMAIN Tail(ready) : i + 1 \in DOMAIN ready /\ Tail(ready)[i] = ready[i + 1]
    BY <1>4 DEF TakeNext, Taken
  <2>2. \A i \in DOMAIN Tail(ready) : Tail(ready)[i] # Head(ready)
    BY <2>1 DEF Queued
  <2>3. CASE yielded' = yielded
    BY <2>1, <2>3 DEF Queued, Once
  <2>4. CASE yielded' = Append(yielded, Head(ready)) /\ task[Head(ready)] \in Results
    <3>1. /\ Len(yielded') = Len(yielded) + 1
          /\ \A i \in DOMAIN yielded' : yielded'[i] = IF i = Len(yielded) + 1 THEN Head(ready) ELSE yielded[i]
          /\ \A i \in DOMAIN yielded : yielded'[i] = yielded[i] /\ i \in DOMAIN yielded'
          /\ \A i \in DOMAIN yielded' : i # Len(yielded) + 1 => i \in DOMAIN yielded
          /\ Len(yielded) + 1 \in DOMAIN yielded'
      BY <2>1, <2>4
    <3>2. Queued'
      BY <2>1, <2>2, <2>4, <3>1 DEF Queued
    <3>3. Head(ready) \notin ToSet(yielded)
      BY <2>1 DEF Queued, ToSet
    <3>4. ToSet(yielded') = ToSet(yielded) \cup {Head(ready)}
      BY <3>1 DEF ToSet
    <3>5. /\ IsFiniteSet(ToSet(yielded) \cup {Head(ready)})
          /\ Cardinality(ToSet(yielded) \cup {Head(ready)}) = Len(yielded) + 1
      BY <3>3, FS_AddElement DEF Once
    <3>6. Once'
      BY <3>1, <3>4, <3>5 DEF Once
    <3> QED
      BY <3>2, <3>6
  <2> QED
    BY <1>4, <2>3, <2>4 DEF TakeNext
<1>5. CASE Exhausted \/ Cleanup \/ Pull \/ Stop \/ InterruptCleanup
  BY <1>1, <1>5 DEF Exhausted, Cleanup, Pull, Stop, InterruptCleanup
<1>6. ASSUME NEW t \in Targets, Acquire(t) PROVE Queued' /\ Once'
  BY <1>2, <1>6 DEF Acquire, Done, Results
<1>7. ASSUME NEW t \in Targets, NEW outcome \in Done, Leave(t, outcome) PROVE Queued' /\ Once'
  <2>1. /\ task[t] = "probing" /\ task' = [task EXCEPT ![t] = outcome] /\ yielded' = yielded
        /\ ready' = Append(ready, t) /\ "probing" \notin Done
    BY <1>7 DEF Leave, Done, Results
  <2>2. /\ Len(ready') = Len(ready) + 1
        /\ \A i \in DOMAIN ready' : ready'[i] = IF i = Len(ready) + 1 THEN t ELSE ready[i]
        /\ \A i \in DOMAIN ready' : i # Len(ready) + 1 => i \in DOMAIN ready
    BY <2>1
  <2>3. \A i \in DOMAIN ready : ready[i] # t /\ ready[i] \in Targets
    BY <2>1 DEF Queued
  <2>4. \A i \in DOMAIN yielded : yielded[i] # t /\ yielded[i] \in Targets
    BY <2>1 DEF Queued, Done
  <2>5. \A i, j \in DOMAIN ready' : ready'[i] = ready'[j] => i = j
    BY <2>2, <2>3 DEF Queued
  <2>6. \A i \in DOMAIN ready' : task'[ready'[i]] \in Done
    BY <2>1, <2>2, <2>3 DEF Queued
  <2>7. \A i \in DOMAIN yielded' : task'[yielded'[i]] \in Results
    BY <2>1, <2>4 DEF Queued
  <2>8. \A i \in DOMAIN ready', j \in DOMAIN yielded' : ready'[i] # yielded'[j]
    BY <2>1, <2>2, <2>3, <2>4 DEF Queued
  <2> QED
    BY <2>1, <2>5, <2>6, <2>7, <2>8 DEF Queued, Once
<1>8. ASSUME NEW t \in Targets, TaskCancelled(t) PROVE Queued' /\ Once'
  BY <1>2, <1>8 DEF TaskCancelled, Active, Done, Results
<1>9. ASSUME NEW t \in Targets, NEW verdict \in {"post-quantum", "other"}, ProbeReturns(t, verdict)
      PROVE  Queued' /\ Once'
  BY <1>7, <1>9 DEF ProbeReturns, Done, Results
<1>10. ASSUME NEW t \in Targets, ProbeRaises(t) \/ ProbeRefuses(t) PROVE Queued' /\ Once'
  BY <1>7, <1>10 DEF ProbeRaises, ProbeRefuses, Done, Results
<1>11. CASE UNCHANGED vars
  BY <1>1, <1>11 DEF vars
<1> QED
  BY <1>3, <1>4, <1>5, <1>6, <1>8, <1>9, <1>10, <1>11 DEF ScanStep, Loop, Tasks

\* A step ends the generator only when it has yielded everything or raises, and
\* only when its tasks are over.
LEMMA EndingStep == TypeOK /\ Begun /\ Ending /\ ScanStep => Ending'
<1> SUFFICES ASSUME TypeOK, Begun, Ending, ScanStep PROVE Ending'
  OBVIOUS
<1> USE DEF TypeOK, Ending, given
<1>1. CASE Start
  BY <1>1 DEF Start, Begun, Active
<1>2. CASE TakeNext
  BY <1>2 DEF TakeNext
<1>3. CASE Exhausted \/ Pull \/ Stop \/ InterruptCleanup
  BY <1>3 DEF Exhausted, Pull, Stop, InterruptCleanup
<1>4. CASE Cleanup
  BY <1>4 DEF Cleanup, Gathered, Begun, Over, Results, Active
<1>5. ASSUME NEW t \in Targets, Acquire(t) PROVE Ending'
  BY <1>5 DEF Acquire, Active
<1>6. ASSUME NEW t \in Targets, NEW outcome, Leave(t, outcome) PROVE Ending'
  BY <1>6 DEF Leave, Active
<1>7. ASSUME NEW t \in Targets, TaskCancelled(t) PROVE Ending'
  BY <1>7 DEF TaskCancelled
<1>8. ASSUME NEW t \in Targets, NEW verdict, ProbeReturns(t, verdict) PROVE Ending'
  BY <1>6, <1>8 DEF ProbeReturns
<1>9. ASSUME NEW t \in Targets, ProbeRaises(t) \/ ProbeRefuses(t) PROVE Ending'
  BY <1>6, <1>9 DEF ProbeRaises, ProbeRefuses
<1>10. CASE UNCHANGED vars
  BY <1>10 DEF vars
<1> QED
  BY <1>1, <1>2, <1>3, <1>4, <1>5, <1>7, <1>8, <1>9, <1>10 DEF ScanStep, Loop, Tasks

-----------------------------------------------------------------------------
(* The scan. *)

\* A new scan.
LEMMA ScanInit == CliInit => Scanning
<1> SUFFICES ASSUME CliInit PROVE Scanning
  OBVIOUS
<1> USE ConcurrencyAssumption DEF CliInit, Init
<1>1. TypeOK
  BY DEF TypeOK, Exceptions
<1>2. Probing = {} /\ ToSet(yielded) = {}
  BY DEF Probing, ToSet
<1>3. Conserved /\ Once
  BY <1>2, FS_EmptySet DEF Conserved, Once
<1>4. Begun /\ Queued /\ Ending
  BY DEF Begun, Queued, Ending, Active
<1> QED
  BY <1>1, <1>3, <1>4 DEF Scanning

\* The invariant of the scan holds however it is consumed.
LEMMA ScanInvariance == Spec => []Scanning
<1>1. Scanning /\ [Next]_allvars => Scanning'
  BY StepsOfScan, ConservedStep, BegunStep, QueuedStep, EndingStep DEF Scanning
<1> QED
  BY ScanInit, <1>1, PTL DEF Spec

\* No permit of the semaphore is lost or invented, for any number of targets and
\* permits, however tasks end.
THEOREM PermitsConserved == Spec => []ScanInv
<1>1. Scanning => ScanInv
  BY DEF Scanning, ScanInv, Conserved, Probing
<1> QED
  BY ScanInvariance, <1>1, PTL

\* A scan that has yielded as many results as it has targets has yielded all.
LEMMA AllYielded ==
  Scanning /\ gen = "closed" /\ raised = "none" => ToSet(yielded) = asked
<1> SUFFICES ASSUME Scanning, gen = "closed", raised = "none" PROVE ToSet(yielded) = asked
  OBVIOUS
<1>1. IsFiniteSet(asked)
  BY ConcurrencyAssumption, FS_Subset DEF Scanning, TypeOK
<1>2. ToSet(yielded) \subseteq asked
  BY DEF Scanning, TypeOK, Queued, Begun, ToSet, Results
<1>3. Cardinality(ToSet(yielded)) = Cardinality(asked)
  BY DEF Scanning, Once, Ending
<1> QED
  BY <1>1, <1>2, <1>3, FS_Subset

\* Results are yielded once, and a scan that ends by itself has yielded one for
\* each of its targets.
THEOREM ResultsOnce == Spec => []EachTargetOnce
<1>1. Scanning => EachTargetOnce
  <2> SUFFICES ASSUME Scanning PROVE EachTargetOnce
    OBVIOUS
  <2>1. \A t \in ToSet(yielded) : task[t] \in Results
    BY DEF Scanning, Queued, ToSet
  <2> QED
    BY <2>1, AllYielded DEF EachTargetOnce, Scanning, Once
<1> QED
  BY ScanInvariance, <1>1, PTL

\* A closed generator has left no task, and a malformed target ends the scan
\* before any task was made.
THEOREM TasksAreOver == Spec => []NoTaskLeft
<1>1. Scanning => NoTaskLeft
  BY DEF Scanning, TypeOK, Ending, Begun, NoTaskLeft
<1> QED
  BY ScanInvariance, <1>1, PTL

-----------------------------------------------------------------------------
(* The command line. *)

\* A step does not make a build capable.
LEMMA CapabilityStep ==
  Scanning /\ Capability /\ Stages /\ [Next]_allvars => Capability'
<1> SUFFICES ASSUME Scanning, Capability, Stages, [Next]_allvars PROVE Capability'
  OBVIOUS
<1> USE DEF Scanning, TypeOK, given
<1> DEFINE OfTasks == /\ \A t \in Targets : task[t] \in Results => capable
                      /\ \A t \in Targets : task[t] = "unsupported" => ~capable
                      /\ gen = "yielded" => capable
                      /\ raised = "NoPostQuantumSupport" => ~capable
<1>1. OfTasks'
  <2> USE DEF Capability
  <2>1. CASE Start
    BY <2>1 DEF Start, Results
  <2>2. CASE TakeNext
    <3>1. Head(ready) \in Targets
      BY <2>2 DEF TakeNext
    <3> QED
      BY <2>2, <3>1 DEF TakeNext
  <2>3. CASE Exhausted \/ Cleanup \/ Pull \/ Stop \/ InterruptCleanup
    BY <2>3 DEF Exhausted, Cleanup, Pull, Stop, InterruptCleanup
  <2>4. ASSUME NEW t \in Targets, Acquire(t) PROVE OfTasks'
    BY <2>4 DEF Acquire, Results
  <2>5. ASSUME NEW t \in Targets, NEW outcome, Leave(t, outcome),
               outcome \in Results => capable, outcome = "unsupported" => ~capable
        PROVE  OfTasks'
    BY <2>5 DEF Leave
  <2>6. ASSUME NEW t \in Targets, TaskCancelled(t) PROVE OfTasks'
    BY <2>6 DEF TaskCancelled, Results
  <2>7. ASSUME NEW t \in Targets, NEW verdict \in {"post-quantum", "other"}, ProbeReturns(t, verdict)
        PROVE  OfTasks'
    BY <2>5, <2>7 DEF ProbeReturns, Results
  <2>8. ASSUME NEW t \in Targets, ProbeRaises(t) \/ ProbeRefuses(t) PROVE OfTasks'
    BY <2>5, <2>8 DEF ProbeRaises, ProbeRefuses, Results
  <2>9. CASE UNCHANGED vars
    BY <2>9 DEF vars
  <2> QED
    BY StepsOfScan, <2>1, <2>2, <2>3, <2>4, <2>6, <2>7, <2>8, <2>9 DEF ScanStep, Loop, Tasks
<1>2. (~capable /\ stage # "over" => shown = <<>>)'
  <2>1. capable' = capable
    BY StepsOfScan DEF ScanStep, Loop, Tasks, Start, TakeNext, Exhausted, Cleanup, Pull, Stop,
       InterruptCleanup, Acquire, Leave, ProbeReturns, ProbeRaises, ProbeRefuses, TaskCancelled, vars
  <2>2. CASE Consume
    BY <2>2 DEF Consume, Pull, Capability
  <2>3. CASE stage' = "over"
    BY <2>3
  <2>4. CASE shown' = shown /\ stage # "over"
    BY <2>1, <2>4 DEF Capability
  <2>5. CASE shown' = shown /\ stage' = stage
    BY <2>1, <2>5 DEF Capability
  <2> QED
    BY <2>2, <2>3, <2>4, <2>5 DEF Next, Command, Usage, Scan, Run, Report, Fail, PipeBreaks,
       KeyboardInterrupt, Consumer, allvars, cli, Finish
<1> QED
  BY <1>1, <1>2 DEF Capability

\* A step leaves the stage only where main(), _cmd_probe() and asyncio.run() do.
LEMMA StagesStep == Scanning /\ Stages /\ [Next]_allvars => Stages'
<1> SUFFICES ASSUME Scanning, Stages, [Next]_allvars PROVE Stages'
  OBVIOUS
<1>1. asked' = asked
  BY StepsOfScan DEF ScanStep, Loop, Tasks, Start, TakeNext, Exhausted, Cleanup, Pull, Stop,
     InterruptCleanup, Acquire, Leave, ProbeReturns, ProbeRaises, ProbeRefuses, TaskCancelled,
     vars, given
<1>2. UNCHANGED <<user, args, input>>
  BY DEF Next, Command, Usage, Scan, Run, Consume, Report, Fail, PipeBreaks, KeyboardInterrupt,
     Consumer, allvars, cli
<1>3. parsed' = parsed
  BY <1>2 DEF parsed
<1>4. CASE Usage \/ Scan
  BY <1>1, <1>2, <1>3, <1>4 DEF Usage, Scan, Finish, Stages, vars
<1>5. CASE Run
  <2>1. gen # "new" => gen' # "new"
    BY <1>5 DEF Run, Loop, Tasks, Start, TakeNext, Exhausted, Cleanup, Acquire, Leave, ProbeReturns,
       ProbeRaises, ProbeRefuses, TaskCancelled
  <2>2. raised # "none" => raised' # "none"
    BY <1>5 DEF Run, Loop, Tasks, Start, TakeNext, Exhausted, Cleanup, Acquire, Leave, ProbeReturns,
       ProbeRaises, ProbeRefuses, TaskCancelled
  <2> QED
    BY <1>1, <1>2, <1>3, <1>5, <2>2 DEF Run, Stages, cli
<1>6. CASE Consume \/ Consumer
  BY <1>1, <1>2, <1>3, <1>6 DEF Consume, Consumer, Stages, cli, Pull, Stop
<1>7. CASE PipeBreaks \/ KeyboardInterrupt
  BY <1>1, <1>2, <1>3, <1>7 DEF PipeBreaks, KeyboardInterrupt, Stages, Stop
<1>8. CASE Report \/ Fail
  BY <1>1, <1>2, <1>3, <1>8 DEF Report, Fail, Finish, Stages, vars
<1>9. CASE UNCHANGED allvars
  BY <1>1, <1>2, <1>3, <1>9 DEF allvars, vars, cli, Stages
<1> QED
  BY <1>4, <1>5, <1>6, <1>7, <1>8, <1>9 DEF Next, Command

\* A step gives an exit status for its reason, and a command that is over does
\* nothing more.
LEMMA ExitsStep == CliInv /\ [Next]_allvars => Exits'
<1> SUFFICES ASSUME CliInv, [Next]_allvars PROVE Exits'
  OBVIOUS
<1>1. UNCHANGED <<user, args, input>>
  BY DEF Next, Command, Usage, Scan, Run, Consume, Report, Fail, PipeBreaks, KeyboardInterrupt,
     Consumer, allvars, cli
<1>2. parsed' = parsed
  BY <1>1 DEF parsed
<1>3. CASE exit' = -1
  BY <1>3 DEF Exits
<1>4. CASE UNCHANGED allvars
  <2>1. UNCHANGED <<user, args, exit, shown, gen, raised, yielded, task>>
    BY <1>4 DEF allvars, vars, cli
  <2> QED
    BY <1>2, <2>1 DEF CliInv, Exits
<1>5. CASE Usage
  BY <1>5 DEF Usage, Finish, Exits, CliInv, Stages
<1>6. CASE Report
  <2>1. /\ exit' = Status /\ stage = "scan" /\ user = "cli" /\ gen = "closed" /\ raised = "none"
        /\ UNCHANGED <<yielded, task, gen, raised>>
    BY <1>6 DEF Report, Finish, vars
  <2>2. Bad \notin parsed
    BY <2>1 DEF CliInv, Stages
  <2>3. Status \in {0, 1}
    BY DEF Status
  <2>4. exit' = 0 => (args.require_pq => \A t \in ToSet(yielded) : task[t] = "post-quantum")
    BY <2>1 DEF Status
  <2>5. exit' = 1 => args.require_pq /\ \E t \in ToSet(yielded) : task[t] # "post-quantum"
    BY <2>1 DEF Status
  <2> QED
    BY <1>1, <1>2, <2>1, <2>2, <2>3, <2>4, <2>5 DEF Exits
<1>7. CASE Fail
  BY <1>1, <1>7 DEF Fail, Finish, Exits, CliInv, Stages, Capability, vars
<1>8. CASE exit' = exit /\ stage # "over"
  BY <1>8 DEF Exits, CliInv, Stages
<1> QED
  BY <1>3, <1>4, <1>5, <1>6, <1>7, <1>8 DEF Next, Command, Scan, Run, Consume, PipeBreaks,
     KeyboardInterrupt, Consumer, cli, CliInv, Stages

\* Every behaviour of the command line keeps its invariant.
LEMMA CliInvariance == Spec => []CliInv
<1>1. CliInit => Capability /\ Stages /\ Exits
  <2> SUFFICES ASSUME CliInit PROVE Capability /\ Stages /\ Exits
    OBVIOUS
  <2>1. Capability
    BY DEF CliInit, Init, Capability, Results
  <2>2. Stages
    BY DEF CliInit, Init, Stages
  <2>3. Exits
    BY DEF CliInit, Exits
  <2> QED
    BY <2>1, <2>2, <2>3
<1>2. CliInv /\ [Next]_allvars => (Capability /\ Stages /\ Exits)'
  BY CapabilityStep, StagesStep, ExitsStep DEF CliInv
<1>3. Scanning /\ Capability /\ Stages /\ Exits => CliInv
  BY DEF CliInv
<1>4. CliInv => Scanning
  BY DEF CliInv
<1>5. Scanning /\ [Next]_allvars => Scanning'
  BY StepsOfScan, ConservedStep, BegunStep, QueuedStep, EndingStep DEF Scanning
<1>6. CliInv /\ [Next]_allvars => CliInv'
  BY <1>2, <1>5 DEF CliInv
<1> QED
  BY ScanInit, <1>1, <1>3, <1>6, PTL DEF Spec

\* The exit status of the command can be relied on, for any input and arguments.
THEOREM ExitStatusIsTrue == Spec => []ExitIsTrue
<1>1. CliInv => ExitIsTrue
  <2> SUFFICES ASSUME CliInv PROVE ExitIsTrue
    OBVIOUS
  <2>1. exit = 0 => ToSet(yielded) = asked /\ asked = parsed
    <3> SUFFICES ASSUME exit = 0 PROVE ToSet(yielded) = asked /\ asked = parsed
      OBVIOUS
    <3>1. user = "cli" /\ gen = "closed" /\ raised = "none" /\ Bad \notin parsed
      BY DEF CliInv, Exits
    <3>2. parsed \subseteq Targets \cup {Bad}
      BY <3>1, InputsAssumption DEF CliInv, Stages, parsed
    <3> QED
      BY <3>1, <3>2, AllYielded DEF CliInv, Stages
  <2>2. ToSet(yielded) \subseteq asked
    BY DEF CliInv, Scanning, TypeOK, Queued, Begun, ToSet, Results
  <2>3. user = "cli" /\ Bad \in parsed => \A t \in Targets : task[t] = "none"
    BY DEF CliInv, Stages, Scanning, Begun
  <2> QED
    BY <2>1, <2>2, <2>3 DEF CliInv, Exits, ExitIsTrue
<1> QED
  BY CliInvariance, <1>1, PTL
-----------------------------------------------------------------------------
(* The table in the order of the input. *)

\* A set of numbers that is not empty has a least one.
LEMMA Least ==
  ASSUME NEW S, S \subseteq Nat, S # {}
  PROVE  \E x \in S : \A y \in S : x <= y
<1> DEFINE R == OpToRel(<, Nat)
<1>1. IsWellFoundedOn(R, Nat)
  BY NatLessThanWellFounded
<1>2. \A x, y \in Nat : x < y => <<x, y>> \in R
  BY DEF OpToRel
<1> HIDE DEF R
<1>3. PICK x \in S : \A y \in S : ~ (<<y, x>> \in R)
  BY <1>1, WFMin
<1>4. \A y \in S : ~ (y < x)
  BY <1>2, <1>3
<1> QED
  BY <1>4

\* A set that holds 0 and with every number the next one holds every number.
LEMMA SetInduction ==
  ASSUME NEW S, 0 \in S, \A n \in Nat : n \in S => n + 1 \in S
  PROVE  Nat \subseteq S
<1> SUFFICES ASSUME Nat \ S # {} PROVE FALSE
  OBVIOUS
<1>1. PICK x \in Nat \ S : \A y \in Nat \ S : x <= y
  BY Least
<1>2. x # 0 /\ x - 1 \in Nat /\ x - 1 < x
  BY <1>1
<1>3. x - 1 \in S
  BY <1>1, <1>2
<1> QED
  BY <1>1, <1>2, <1>3

\* How many numbers there are up to n.
LEMMA FirstNumbers ==
  ASSUME NEW n \in Nat
  PROVE  IsFiniteSet(1 .. n) /\ Cardinality(1 .. n) = n
<1>1. 1 \in Int /\ n \in Int
  OBVIOUS
<1>2. IsFiniteSet(1 .. n) /\ Cardinality(1 .. n) = IF 1 > n THEN 0 ELSE n - 1 + 1
  BY <1>1, FS_Interval, Zenon
<1> QED
  BY <1>2

\* Places can be put in the order of their keys: for each k, the k smallest keys
\* come first.
LEMMA Sortable ==
  ASSUME NEW n \in Nat, NEW key \in [1 .. n -> Nat]
  PROVE  \E p \in [1 .. n -> 1 .. n] :
           IsInjective(p) /\ \A i, j \in DOMAIN p : i < j => key[p[i]] <= key[p[j]]
<1> DEFINE Begins(e, k) ==
             /\ IsInjective(e)
             /\ \A i, j \in 1 .. k : i < j => key[e[i]] <= key[e[j]]
             /\ \A x \in 1 .. n : (\A i \in 1 .. k : e[i] # x) => \A i \in 1 .. k : key[e[i]] <= key[x]
           Has(k) == \E e \in [1 .. k -> 1 .. n] : Begins(e, k)
           S == {k \in Nat : k <= n => Has(k)}
<1>1. 0 \in S
  <2>1. [i \in 1 .. 0 |-> 0] \in [1 .. 0 -> 1 .. n]
    OBVIOUS
  <2>2. Begins([i \in 1 .. 0 |-> 0], 0)
    BY DEF IsInjective
  <2> QED
    BY <2>1, <2>2
<1>2. ASSUME NEW k \in Nat, k \in S PROVE k + 1 \in S
  <2> HIDE DEF Has
  <2> SUFFICES ASSUME k + 1 <= n PROVE Has(k + 1)
    OBVIOUS
  <2>0. Has(k)
    BY <1>2
  <2> HIDE DEF Begins
  <2>1. PICK e \in [1 .. k -> 1 .. n] : Begins(e, k)
    BY <2>0 DEF Has
  <2> USE DEF Begins
  <2> DEFINE left == {x \in 1 .. n : \A i \in 1 .. k : e[i] # x}
  <2>2. left # {}
    <3> SUFFICES ASSUME left = {} PROVE FALSE
      OBVIOUS
    <3>1. \A x \in 1 .. n : \E i \in 1 .. k : e[i] = x
      OBVIOUS
    <3>2. e \in Surjection(1 .. k, 1 .. n)
      BY <3>1 DEF Surjection
    <3>3. IsFiniteSet(1 .. k) /\ Cardinality(1 .. k) = k /\ Cardinality(1 .. n) = n
      BY FirstNumbers
    <3>4. Cardinality(1 .. n) <= Cardinality(1 .. k)
      BY <3>2, <3>3, FS_Surjection
    <3> QED
      BY <3>3, <3>4
  <2>3. PICK x0 \in left : \A x \in left : key[x0] <= key[x]
    <3> DEFINE K == {key[x] : x \in left}
    <3>1. K # {} /\ K \subseteq Nat
      BY <2>2
    <3>2. PICK v \in K : \A w \in K : v <= w
      BY <3>1, Least
    <3> QED
      BY <3>2
  <2> DEFINE g == [i \in 1 .. k + 1 |-> IF i = k + 1 THEN x0 ELSE e[i]]
  <2>4. g \in [1 .. k + 1 -> 1 .. n]
    BY <2>3
  <2>5. g[k + 1] = x0 /\ \A i \in 1 .. k : g[i] = e[i] /\ i \in 1 .. k + 1
    OBVIOUS
  <2>6. \A i \in 1 .. k + 1 : i = k + 1 \/ i \in 1 .. k
    OBVIOUS
  <2>7. x0 \in 1 .. n /\ \A i \in 1 .. k : e[i] # x0
    BY <2>3
  <2>8. \A i \in 1 .. k : key[e[i]] <= key[x0]
    BY <2>1, <2>7
  <2>9. \A i \in 1 .. k : \A j \in 1 .. k : e[i] = e[j] => i = j
    BY <2>1 DEF IsInjective
  <2>10. \A i, j \in 1 .. k + 1 : g[i] = g[j] => i = j
    <3> HIDE DEF g
    <3> QED
      BY <2>5, <2>6, <2>7, <2>9
  <2>11. \A i, j \in 1 .. k + 1 : i < j => key[g[i]] <= key[g[j]]
    <3> SUFFICES ASSUME NEW i \in 1 .. k + 1, NEW j \in 1 .. k + 1, i < j
                 PROVE  key[g[i]] <= key[g[j]]
      OBVIOUS
    <3>1. i \in 1 .. k
      OBVIOUS
    <3>2. CASE j = k + 1
      <4>1. g[i] = e[i] /\ g[j] = x0
        BY <2>5, <3>1, <3>2
      <4> QED
        BY <2>8, <3>1, <4>1
    <3>3. CASE j \in 1 .. k
      <4>1. g[i] = e[i] /\ g[j] = e[j]
        BY <2>5, <3>1, <3>3
      <4>2. key[e[i]] <= key[e[j]]
        BY <2>1, <3>1, <3>3
      <4> QED
        BY <4>1, <4>2
    <3> QED
      BY <2>6, <3>2, <3>3
  <2>12. ASSUME NEW x \in 1 .. n, \A i \in 1 .. k + 1 : g[i] # x, NEW i \in 1 .. k + 1
         PROVE  key[g[i]] <= key[x]
    <3> HIDE DEF g
    <3>1. \A m \in 1 .. k : e[m] # x
      BY <2>5, <2>12
    <3>2. \A m \in 1 .. k : key[e[m]] <= key[x]
      BY <2>1, <3>1
    <3>3. key[x0] <= key[x]
      BY <2>3, <3>1
    <3> QED
      BY <2>5, <2>6, <3>2, <3>3
  <2>13. DOMAIN g = 1 .. k + 1
    OBVIOUS
  <2> HIDE DEF g, left
  <2>14. Begins(g, k + 1)
    BY <2>10, <2>11, <2>12, <2>13 DEF IsInjective
  <2> HIDE DEF Begins
  <2> QED
    BY <2>4, <2>14 DEF Has
<1> HIDE DEF S, Has
<1>3. n \in S
  BY <1>1, <1>2, SetInduction
<1>4. Has(n)
  BY <1>3 DEF S
<1> HIDE DEF Begins
<1>5. PICK p \in [1 .. n -> 1 .. n] : Begins(p, n)
  BY <1>4 DEF Has
<1> USE DEF Begins
<1> QED
  BY <1>5
\* The lines that name a target.
Naming(t) == {k \in DOMAIN input : Reads(k, t)}

\* A target that comes no later than another, by the sort's key, is named before it.
LEMMA OrderOfLines ==
  ASSUME NEW t, NEW u, t # u, input \in Seq(Lines \cup {Blank}),
         Naming(t) # {}, Naming(u) # {}, order(t) <= order(u)
  PROVE  \E k \in DOMAIN input : Reads(k, t) /\ \A l \in 1 .. k : ~Reads(l, u)
<1> DEFINE before(x) == {k \in firsts : \A l \in 1 .. k : ~Reads(l, x)}
<1>1. DOMAIN input = 1 .. Len(input) /\ Len(input) \in Nat /\ DOMAIN input \subseteq Nat
  OBVIOUS
<1>2. PICK k \in Naming(t) : \A l \in Naming(t) : k <= l
  BY <1>1, Least DEF Naming
<1>3. PICK m \in Naming(u) : \A l \in Naming(u) : m <= l
  BY <1>1, Least DEF Naming
<1>4. k \in 1 .. Len(input) /\ m \in 1 .. Len(input) /\ Reads(k, t) /\ Reads(m, u)
  BY <1>1 DEF Naming
<1>5. k # m
  BY <1>4 DEF Reads
<1>6. \A l \in 1 .. Len(input) : l < k => ~Reads(l, t)
  BY <1>1, <1>2, <1>4 DEF Naming
<1>7. \A l \in 1 .. Len(input) : l < m => ~Reads(l, u)
  BY <1>1, <1>3, <1>4 DEF Naming
<1>8. CASE k < m
  <2>1. \A l \in 1 .. k : l \in 1 .. Len(input) /\ l < m
    BY <1>4, <1>8
  <2> QED
    BY <1>1, <1>4, <1>7, <2>1
<1>9. CASE m < k
  <2>1. firsts \subseteq 1 .. Len(input)
    BY <1>1 DEF firsts
  <2>2. m \in firsts
    <3>1. \A l \in 1 .. m - 1 : l \in 1 .. Len(input) /\ l < m
      BY <1>4
    <3>2. input[m] # Blank /\ parse_target(input[m]) = u
      BY <1>4 DEF Reads
    <3> QED
      BY <1>1, <1>4, <1>7, <3>1, <3>2 DEF firsts
  <2>3. m \in before(t) /\ m \notin before(u)
    <3>1. \A l \in 1 .. m : l \in 1 .. Len(input) /\ l < k
      BY <1>4, <1>9
    <3>2. m \in 1 .. m
      BY <1>4
    <3> QED
      BY <1>4, <1>6, <2>2, <3>1, <3>2
  <2>4. ASSUME NEW x \in before(u) PROVE x \in before(t)
    <3>1. x \in 1 .. Len(input) /\ x \in firsts /\ \A l \in 1 .. x : ~Reads(l, u)
      BY <2>1, <2>4
    <3>2. x < m
      BY <1>4, <3>1
    <3>3. \A l \in 1 .. x : l \in 1 .. Len(input) /\ l < k
      BY <1>4, <1>9, <3>1, <3>2
    <3> QED
      BY <1>6, <3>1, <3>3
  <2>5. before(t) \subseteq 1 .. Len(input)
    BY <2>1
  <2> HIDE DEF before
  <2>6. IsFiniteSet(before(t))
    BY <1>1, <2>5, FirstNumbers, FS_Subset
  <2>7. IsFiniteSet(before(u)) /\ Cardinality(before(u)) <= Cardinality(before(t))
        /\ (Cardinality(before(t)) = Cardinality(before(u)) => before(t) = before(u))
    BY <2>4, <2>6, FS_Subset
  <2>8. Cardinality(before(t)) <= Cardinality(before(u))
    BY DEF order, before
  <2>9. Cardinality(before(t)) \in Nat /\ Cardinality(before(u)) \in Nat
    BY <2>6, <2>7, FS_CardinalityType
  <2> QED
    BY <2>3, <2>7, <2>8, <2>9
<1>10. k < m \/ m < k
  BY <1>4, <1>5
<1> QED
  BY <1>8, <1>9, <1>10

\* Sorted is a rearrangement of the results by the places of their targets.
LEMMA SortedFacts ==
  ASSUME yielded \in Seq(Targets), Once, input \in Seq(Lines \cup {Blank})
  PROVE  /\ Sorted \in Seq(Targets)
         /\ ToSet(Sorted) = ToSet(yielded)
         /\ \A i, j \in DOMAIN Sorted : i < j =>
              Sorted[i] # Sorted[j] /\ order(Sorted[i]) <= order(Sorted[j])
<1> DEFINE n == Len(yielded)
           key == [i \in DOMAIN yielded |-> order(yielded[i])]
           Fits(p) == IsInjective(p) /\ \A i, j \in DOMAIN p : i < j => key[p[i]] <= key[p[j]]
           perm == CHOOSE p \in [DOMAIN yielded -> DOMAIN yielded] : Fits(p)
<1>1. n \in Nat /\ DOMAIN yielded = 1 .. n /\ \A i \in 1 .. n : yielded[i] \in Targets
  OBVIOUS
<1>2. \A t : order(t) \in Nat
  <2> TAKE t
  <2> DEFINE before == {k \in firsts : \A l \in 1 .. k : ~Reads(l, t)}
  <2>1. before \subseteq 1 .. Len(input) /\ Len(input) \in Nat
    BY DEF firsts
  <2>2. order(t) = Cardinality(before)
    BY DEF order
  <2> HIDE DEF before
  <2> QED
    <3>1. IsFiniteSet(1 .. Len(input))
      BY <2>1, FirstNumbers
    <3>2. IsFiniteSet(before)
      BY <2>1, <3>1, FS_Subset
    <3> QED
      BY <2>2, <3>2, FS_CardinalityType
<1>3. key \in [1 .. n -> Nat]
  BY <1>1, <1>2
<1>4. Sorted = [i \in DOMAIN yielded |-> yielded[perm[i]]]
  BY DEF Sorted
<1> HIDE DEF key
<1>5. \E p \in [1 .. n -> 1 .. n] : Fits(p)
  BY <1>1, <1>3, Sortable
<1> HIDE DEF Fits
<1>6. perm \in [1 .. n -> 1 .. n] /\ Fits(perm)
  BY <1>1, <1>5
<1> HIDE DEF perm
<1> USE DEF Fits
<1>7. \A i, j \in 1 .. n : perm[i] = perm[j] => i = j
  BY <1>6 DEF IsInjective
<1>8. \A i, j \in 1 .. n : i < j => key[perm[i]] <= key[perm[j]]
  BY <1>6
<1>9. \A i, j \in 1 .. n : yielded[i] = yielded[j] => i = j
  <2>1. yielded \in [1 .. n -> ToSet(yielded)]
    BY <1>1 DEF ToSet
  <2>2. yielded \in Surjection(1 .. n, ToSet(yielded))
    BY <1>1, <2>1 DEF Surjection, ToSet
  <2>3. Cardinality(ToSet(yielded)) = Cardinality(1 .. n) /\ IsFiniteSet(1 .. n)
    BY <1>1, FirstNumbers DEF Once
  <2>4. yielded \in Injection(1 .. n, ToSet(yielded))
    BY <2>2, <2>3, FS_Surjection
  <2> QED
    BY <1>1, <2>4 DEF Injection, IsInjective
<1>10. \A m \in 1 .. n : \E i \in 1 .. n : perm[i] = m
  <2>1. perm \in Injection(1 .. n, 1 .. n)
    BY <1>6 DEF Injection
  <2>2. perm \in Surjection(1 .. n, 1 .. n)
    BY <1>1, <2>1, FirstNumbers, FS_Injection
  <2> QED
    BY <2>2 DEF Surjection
<1>11. \A i \in 1 .. n : perm[i] \in 1 .. n /\ Sorted[i] = yielded[perm[i]]
  BY <1>1, <1>4, <1>6
<1>12. DOMAIN Sorted = 1 .. n /\ Sorted \in [1 .. n -> Targets]
  BY <1>1, <1>4, <1>6
<1>13. Sorted \in Seq(Targets)
  BY <1>1, <1>12
<1> HIDE DEF Fits, n
<1>14. ToSet(Sorted) = ToSet(yielded)
  <2>1. ToSet(Sorted) = {Sorted[i] : i \in 1 .. n} /\ ToSet(yielded) = {yielded[i] : i \in 1 .. n}
    BY <1>1, <1>12 DEF ToSet
  <2>2. \A i \in 1 .. n : Sorted[i] \in ToSet(yielded)
    BY <1>11, <2>1
  <2>3. ASSUME NEW m \in 1 .. n PROVE yielded[m] \in ToSet(Sorted)
    <3>1. PICK i \in 1 .. n : perm[i] = m
      BY <1>10
    <3>2. Sorted[i] = yielded[m]
      BY <1>11, <3>1
    <3> QED
      BY <2>1, <3>2
  <2> QED
    BY <2>1, <2>2, <2>3
<1>15. ASSUME NEW i \in 1 .. n, NEW j \in 1 .. n, i < j
       PROVE  Sorted[i] # Sorted[j] /\ order(Sorted[i]) <= order(Sorted[j])
  <2>1. perm[i] # perm[j]
    BY <1>1, <1>7, <1>15
  <2>2. Sorted[i] # Sorted[j]
    BY <1>9, <1>11, <2>1
  <2>3. key[perm[i]] = order(yielded[perm[i]]) /\ key[perm[j]] = order(yielded[perm[j]])
    BY <1>1, <1>11 DEF key
  <2> QED
    BY <1>8, <1>11, <1>15, <2>2, <2>3
<1> QED
  BY <1>12, <1>13, <1>14, <1>15

-----------------------------------------------------------------------------
(* What is printed. *)

\* JSON lines are printed one for each result, behind the generator by the one it
\* is yielding; what a finished command has printed is complete.
Prints ==
  /\ shown \in Seq(Targets)
  /\ args.json => Len(shown) <= Len(yielded) /\ \A i \in DOMAIN shown : shown[i] = yielded[i]
  /\ user = "cli" /\ stage = "scan" /\ args.json =>
       Len(yielded) = IF gen = "yielded" THEN Len(shown) + 1 ELSE Len(shown)
  /\ exit = 0 => IF args.json THEN Len(shown) = Len(yielded) ELSE shown = Sorted

\* Before the scan nothing has been yielded.
LEMMA NothingYet == Scanning /\ gen = "new" => yielded = <<>>
<1> SUFFICES ASSUME Scanning, gen = "new" PROVE yielded = <<>>
  OBVIOUS
<1>1. yielded \in Seq(Targets)
  BY DEF Scanning, TypeOK
<1>2. ASSUME NEW i \in DOMAIN yielded PROVE FALSE
  <2>1. yielded[i] \in Targets
    BY <1>1
  <2>2. task[yielded[i]] = "none"
    BY <2>1 DEF Scanning, Begun
  <2>3. task[yielded[i]] \in Results
    BY DEF Scanning, Queued
  <2> QED
    BY <2>2, <2>3 DEF Results
<1>3. Len(yielded) \in Nat /\ DOMAIN yielded = 1 .. Len(yielded)
  BY <1>1
<1>4. Len(yielded) = 0
  <2>1. 1 \notin 1 .. Len(yielded)
    BY <1>2, <1>3
  <2> QED
    BY <1>3, <2>1
<1> QED
  BY <1>1, <1>4

\* What a step of the scan does to the results.
LEMMA YieldedGrows ==
  ASSUME yielded \in Seq(Targets), ScanStep, ready \in Seq(Targets)
  PROVE  \/ yielded' = yielded /\ (gen' = "yielded" => gen = "yielded")
         \/ /\ gen = "waiting" /\ gen' = "yielded"
            /\ \E t \in Targets : yielded' = Append(yielded, t)
<1>1. CASE TakeNext
  <2>1. Head(ready) \in Targets
    BY <1>1 DEF TakeNext
  <2> QED
    BY <1>1, <2>1 DEF TakeNext
<1>2. CASE ScanStep /\ ~TakeNext
  BY <1>2 DEF ScanStep, Loop, Tasks, Start, Exhausted, Cleanup, Pull, Stop, InterruptCleanup,
     Acquire, Leave, ProbeReturns, ProbeRaises, ProbeRefuses, TaskCancelled, vars
<1> QED
  BY <1>1, <1>2

LEMMA PrintsStep == CliInv /\ Prints /\ [Next]_allvars => Prints'
<1> SUFFICES ASSUME CliInv, Prints, [Next]_allvars PROVE Prints'
  OBVIOUS
<1>1. UNCHANGED <<user, args, input>>
  BY DEF Next, Command, Usage, Scan, Run, Consume, Report, Fail, PipeBreaks, KeyboardInterrupt,
     Consumer, allvars, cli
<1>2. yielded \in Seq(Targets) /\ ready \in Seq(Targets) /\ shown \in Seq(Targets)
  BY DEF CliInv, Scanning, TypeOK, Prints
<1>3. \/ yielded' = yielded /\ (gen' = "yielded" => gen = "yielded")
      \/ /\ gen = "waiting" /\ gen' = "yielded"
         /\ \E t \in Targets : yielded' = Append(yielded, t)
  BY <1>2, StepsOfScan, YieldedGrows
<1>4. stage # "over" => exit = -1
  BY DEF CliInv, Stages
<1>5. CASE UNCHANGED allvars
  <2>1. UNCHANGED <<user, args, input, stage, shown, exit, gen, yielded>>
    BY <1>5 DEF allvars, vars, cli
  <2>2. Sorted' = Sorted
    BY <2>1 DEF Sorted, order, firsts, Reads
  <2> QED
    BY <2>1, <2>2 DEF Prints
<1>6. CASE Usage
  BY <1>1, <1>2, <1>6 DEF Usage, Finish, Prints, vars
<1>7. CASE Scan
  <2>1. gen = "new" /\ shown = <<>> /\ yielded = <<>>
    BY <1>7, NothingYet DEF CliInv, Stages, Scan
  <2>2. stage' = "scan" /\ exit' = exit /\ exit = -1 /\ UNCHANGED <<shown, gen, yielded>>
    BY <1>4, <1>7 DEF Scan, vars
  <2> QED
    BY <1>1, <1>2, <2>1, <2>2 DEF Prints
<1>8. CASE Run
  <2>1. stage' = stage /\ exit' = exit /\ exit = -1 /\ shown' = shown
    BY <1>4, <1>8 DEF Run, cli
  <2>2. CASE yielded' = yielded /\ gen' = "yielded" /\ gen = "yielded"
    BY <1>1, <1>2, <2>1, <2>2 DEF Prints
  <2>3. CASE yielded' = yielded /\ gen' # "yielded"
    <3>1. gen # "yielded"
      BY <1>8, <2>3 DEF Run, Loop, Tasks, Start, TakeNext, Exhausted, Cleanup, Acquire, Leave,
         ProbeReturns, ProbeRaises, ProbeRefuses, TaskCancelled
    <3> QED
      BY <1>1, <1>2, <2>1, <2>3, <3>1 DEF Prints
  <2>4. ASSUME gen = "waiting", gen' = "yielded", NEW t \in Targets, yielded' = Append(yielded, t)
        PROVE  Prints'
    <3>1. Len(yielded') = Len(yielded) + 1 /\ \A i \in 1 .. Len(yielded) : yielded'[i] = yielded[i]
      BY <1>2, <2>4
    <3>2. args.json => Len(shown') <= Len(yielded')
      BY <1>2, <2>1, <3>1 DEF Prints
    <3>3. ASSUME args.json, NEW i \in DOMAIN shown PROVE shown[i] = yielded'[i]
      BY <1>2, <3>1, <3>3 DEF Prints
    <3>4. user = "cli" /\ stage = "scan" /\ args.json => Len(yielded') = Len(shown) + 1
      BY <2>4, <3>1 DEF Prints
    <3> QED
      BY <1>1, <1>2, <2>1, <2>4, <3>2, <3>3, <3>4 DEF Prints
  <2> QED
    BY <1>3, <2>2, <2>3, <2>4
<1>9. CASE Consume
  <2>1. /\ stage = "scan" /\ user = "cli" /\ gen = "yielded" /\ gen' = "waiting" /\ yielded' = yielded
        /\ stage' = stage /\ exit' = exit /\ exit = -1
        /\ shown' = IF args.json THEN Append(shown, Last(yielded)) ELSE shown
    BY <1>4, <1>9 DEF Consume, Pull, Printed
  <2>2. CASE ~args.json
    BY <1>1, <1>2, <2>1, <2>2 DEF Prints
  <2>3. CASE args.json
    <3>1. Len(yielded) = Len(shown) + 1 /\ \A i \in DOMAIN shown : shown[i] = yielded[i]
      BY <2>1, <2>3 DEF Prints
    <3>2. Last(yielded) = yielded[Len(shown) + 1] /\ Last(yielded) \in Targets
      BY <1>2, <3>1 DEF Last
    <3>3. /\ shown' \in Seq(Targets) /\ Len(shown') = Len(shown) + 1
          /\ \A i \in DOMAIN shown' : shown'[i] = yielded[i]
      <4>1. shown' = Append(shown, Last(yielded))
        BY <2>1, <2>3
      <4> QED
        BY <1>2, <3>1, <3>2, <4>1
    <3> QED
      BY <1>1, <2>1, <2>3, <3>1, <3>3 DEF Prints
  <2> QED
    BY <2>2, <2>3
<1>10. CASE Report
  <2>1. /\ user = "cli" /\ stage = "scan" /\ gen = "closed" /\ stage' = "over"
        /\ yielded' = yielded /\ gen' = gen
        /\ shown' = IF args.json THEN shown ELSE Sorted
    BY <1>10 DEF Report, Finish, vars
  <2>2. Sorted' = Sorted
    BY <1>1, <2>1 DEF Sorted, order, firsts, Reads
  <2>3. input \in Seq(Lines \cup {Blank})
    BY <2>1, InputsAssumption DEF CliInv, Stages
  <2>4. Sorted \in Seq(Targets)
    BY <1>2, <2>3, SortedFacts DEF CliInv, Scanning
  <2>5. args.json => Len(shown) = Len(yielded)
    BY <2>1 DEF Prints
  <2> QED
    BY <1>1, <1>2, <2>1, <2>2, <2>4, <2>5 DEF Prints
<1>11. CASE Fail
  BY <1>1, <1>2, <1>11 DEF Fail, Finish, Prints, vars
<1>12. CASE PipeBreaks \/ KeyboardInterrupt
  <2>1. yielded' = yielded /\ shown' = shown /\ exit' = exit /\ exit = -1
        /\ stage' \in {"broken", "interrupted"}
    BY <1>4, <1>12 DEF PipeBreaks, KeyboardInterrupt, Stop
  <2> QED
    BY <1>1, <1>2, <2>1 DEF Prints
<1>13. CASE Consumer
  <2>1. user = "library" /\ yielded' = yielded /\ UNCHANGED <<stage, shown, exit>>
    BY <1>13 DEF Consumer, Pull, Stop, cli
  <2>2. exit = -1
    BY <1>4, <2>1 DEF CliInv, Stages
  <2> QED
    BY <1>1, <1>2, <2>1, <2>2 DEF Prints
<1> QED
  BY <1>5, <1>6, <1>7, <1>8, <1>9, <1>10, <1>11, <1>12, <1>13 DEF Next, Command

\* A finished table has a row for each target in the order of the input, and JSON
\* lines come in the order of completion, with none missing at the end.
THEOREM RowsInOrder == Spec => []ShownInOrder
<1>1. CliInit => Prints
  BY DEF CliInit, Init, Prints, NoArguments
<1>2. CliInv /\ Prints => ShownInOrder
  <2> SUFFICES ASSUME CliInv, Prints PROVE ShownInOrder
    OBVIOUS
  <2>1. yielded \in Seq(Targets) /\ shown \in Seq(Targets) /\ Once
    BY DEF CliInv, Scanning, TypeOK, Prints
  <2>2. ASSUME exit = 0
        PROVE  ToSet(yielded) = asked /\ asked = parsed /\ input \in Seq(Lines \cup {Blank})
    <3>1. user = "cli" /\ gen = "closed" /\ raised = "none" /\ Bad \notin parsed
      BY <2>2 DEF CliInv, Exits
    <3>2. parsed \subseteq Targets \cup {Bad}
      BY <3>1, InputsAssumption DEF CliInv, Stages, parsed
    <3>3. input \in Seq(Lines \cup {Blank})
      BY <3>1, InputsAssumption DEF CliInv, Stages
    <3> QED
      BY <3>1, <3>2, <3>3, AllYielded DEF CliInv, Stages
  <2>3. exit = 0 => ToSet(shown) = asked
    <3> SUFFICES ASSUME exit = 0 PROVE ToSet(shown) = asked
      OBVIOUS
    <3>1. CASE args.json
      <4>1. Len(shown) = Len(yielded) /\ \A i \in 1 .. Len(shown) : shown[i] = yielded[i]
        BY <2>1, <3>1 DEF Prints
      <4>2. shown = yielded
        BY <2>1, <4>1
      <4> QED
        BY <2>2, <4>2
    <3>2. CASE ~args.json
      BY <2>1, <2>2, <3>2, SortedFacts DEF Prints
    <3> QED
      BY <3>1, <3>2
  <2>4. args.json => IsPrefix(shown, yielded)
    <3> SUFFICES ASSUME args.json PROVE IsPrefix(shown, yielded)
      OBVIOUS
    <3>1. Len(shown) <= Len(yielded) /\ \A i \in 1 .. Len(shown) : shown[i] = yielded[i]
      BY <2>1 DEF Prints
    <3> QED
      BY <2>1, <3>1 DEF IsPrefix
  <2>5. ASSUME exit = 0, ~args.json, NEW i \in DOMAIN shown, NEW j \in DOMAIN shown, i < j
        PROVE  \E k \in DOMAIN input : Reads(k, shown[i]) /\ \A l \in 1 .. k : ~Reads(l, shown[j])
    <3>1. shown = Sorted
      BY <2>5 DEF Prints
    <3>2. shown[i] # shown[j] /\ order(shown[i]) <= order(shown[j])
      BY <2>1, <2>2, <2>5, <3>1, SortedFacts
    <3>3. shown[i] \in parsed /\ shown[j] \in parsed
      BY <2>2, <2>3, <2>5 DEF ToSet
    <3>4. ASSUME NEW t \in parsed PROVE Naming(t) # {}
      BY DEF parsed, Naming, Reads, ToSet
    <3> QED
      BY <2>2, <2>5, <3>2, <3>3, <3>4, OrderOfLines
  <2> QED
    BY <2>3, <2>4, <2>5 DEF ShownInOrder
<1> QED
  BY CliInvariance, PrintsStep, <1>1, <1>2, PTL DEF Spec
=============================================================================
