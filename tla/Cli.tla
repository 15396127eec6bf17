--------------------------------- MODULE Cli ---------------------------------
(***************************************************************************)
(* The command line (fizzpy/__main__.py) over probe_many(): the targets    *)
(* are read, parsed and freed of duplicates; results are printed as they   *)
(* arrive (--json) or as one table in the order of the input; the exit     *)
(* status tells a script what happened.  A library user of probe_many() is *)
(* here too, who does what it wants with the generator.                    *)
(*                                                                         *)
(* A line of the input is Blank or one spelling of a target, of which      *)
(* there are several; a host is its name and whether it is in capitals.    *)
(***************************************************************************)
EXTENDS ProbeMany, Integers

CONSTANTS
  Inputs,     \* the inputs: sequences of lines
  Blank,      \* a line that is empty, or a comment
  Bad,        \* ValueError
  NoHost, NoPort

\* A line: a bare IP address, or the parts urlsplit() finds.
\*   usable: the host can be encoded, there is no user info, and no ":" that
\*           is not followed by a number
Lines == [ip : BOOLEAN, scheme : {"", "https", "http"}, usable : BOOLEAN,
          name : STRING \cup {NoHost}, upper : BOOLEAN, port : Int \cup {NoPort}]

\* parse_target(): an IP address is taken as it is spelled, a host is lowercased.
parse_target(line) ==
  IF line.ip THEN <<[name |-> line.name, upper |-> line.upper], 443>>
  ELSE LET port == IF line.port = NoPort THEN 443 ELSE line.port
       IN  IF line.scheme # "http" /\ line.usable /\ line.name # NoHost /\ port \in 1 .. 65535
             THEN <<[name |-> line.name, upper |-> FALSE], port>> ELSE Bad

ASSUME InputsAssumption ==
  /\ Bad \notin Targets
  /\ Inputs \subseteq Seq(Lines \cup {Blank})
  /\ \A s \in Inputs : \A line \in ToSet(s) \ {Blank} :
       parse_target(line) \in Targets \cup {Bad}

VARIABLES
  user,   \* "cli" or "library"
  args,   \* the arguments
  input,  \* the targets given, as arguments and in the file
  stage,  \* where the command is
  shown,  \* what it has printed: targets in order
  exit    \* the exit status, -1 while it runs

cli == <<user, args, input, stage, shown, exit>>
allvars == <<vars, cli>>

Arguments == [usable : BOOLEAN,    \* argparse, --concurrency and --timeout are satisfied
              readable : BOOLEAN,  \* --file can be read
              json : BOOLEAN, require_pq : BOOLEAN]

NoArguments == [usable |-> TRUE, readable |-> TRUE, json |-> TRUE, require_pq |-> FALSE]

\* _read_targets(): blank lines are skipped; the k-th line names t.
Reads(k, t) == input[k] # Blank /\ parse_target(input[k]) = t

\* What the lines are parsed to, Bad if one of them is no target.
parsed == {parse_target(line) : line \in ToSet(input) \ {Blank}}

\* list(dict.fromkeys(...)): the lines that stay, each the first to name its target.
\* Duplicates are recognized by what they are parsed to.
firsts ==
  {k \in DOMAIN input : /\ input[k] # Blank
                        /\ \A l \in 1 .. k - 1 : ~Reads(l, parse_target(input[k]))}

CliInit ==
  /\ Init
  /\ \/ /\ user = "cli" /\ stage = "main"
        /\ input \in Inputs /\ args \in Arguments
        /\ asked = parsed \cap Targets /\ bad = {}
     \/ /\ user = "library" /\ stage = "scan"
        /\ input = <<>> /\ args = NoArguments
  /\ shown = <<>> /\ exit = -1

-----------------------------------------------------------------------------
(* main() and _cmd_probe(), up to the scan. *)

Finish(status) == stage' = "over" /\ exit' = status

\* Wrong arguments, a file that cannot be read, a line that is no target.
Usage ==
  /\ stage = "main"
  /\ ~args.usable \/ ~args.readable \/ Bad \in parsed \/ parsed = {}
  /\ Finish(2)
  /\ UNCHANGED <<vars, user, args, input, shown>>

Scan ==
  /\ stage = "main"
  /\ args.usable /\ args.readable /\ Bad \notin parsed /\ parsed # {}
  /\ stage' = "scan"
  /\ UNCHANGED <<vars, user, args, input, shown, exit>>

-----------------------------------------------------------------------------
(* _probe_all(), under asyncio.run(). *)

Run == stage \in {"scan", "interrupted", "broken"} /\ Loop /\ UNCHANGED cli

Printed == IF args.json THEN Append(shown, Last(yielded)) ELSE shown

Consume ==
  /\ user = "cli" /\ stage = "scan"
  /\ Pull
  /\ shown' = Printed
  /\ UNCHANGED <<user, args, input, stage, exit>>

\* print() raises BrokenPipeError; asyncio.run() cancels the tasks and closes
\* the generator.
PipeBreaks ==
  /\ user = "cli" /\ stage = "scan" /\ args.json
  /\ gen = "yielded" /\ Stop
  /\ stage' = "broken"
  /\ UNCHANGED <<user, args, input, shown, exit>>

\* Control-C: asyncio.run() cancels the main task at its next await.
KeyboardInterrupt ==
  /\ user = "cli" /\ stage = "scan"
  /\ \/ gen = "waiting" /\ Stop
     \/ /\ gen = "closing" /\ raised' = "CancelledError"
        /\ UNCHANGED <<given, gen, task, permits, ready, yielded>>
  /\ stage' = "interrupted"
  /\ UNCHANGED <<user, args, input, shown, exit>>

\* A library user takes the next result, or leaves.
Consumer == user = "library" /\ (Pull \/ Stop) /\ UNCHANGED cli

-----------------------------------------------------------------------------
(* After the scan. *)

\* Mutant: a host that could not be probed does not count.
StatusOfProbed ==
  IF args.require_pq /\ \E t \in ToSet(yielded) : task[t] = "other" THEN 1 ELSE 0

\* --require-pq: "exit 1 unless every target is post-quantum".
Status ==
  IF args.require_pq /\ \E t \in ToSet(yielded) : task[t] # "post-quantum" THEN 1 ELSE 0

\* Mutant: the rows stay in the order of completion.
Unsorted == yielded

\* The place of t: how many of the targets are named before it, all if it is not.
order(t) == Cardinality({k \in firsts : \A l \in 1 .. k : ~Reads(l, t)})

\* results.sort(key=...)
Sorted ==
  LET key == [i \in DOMAIN yielded |-> order(yielded[i])]
      perm == CHOOSE p \in [DOMAIN yielded -> DOMAIN yielded] :
                IsInjective(p) /\ \A i, j \in DOMAIN p : i < j => key[p[i]] <= key[p[j]]
  IN  [i \in DOMAIN yielded |-> yielded[perm[i]]]

Report ==
  /\ user = "cli" /\ stage = "scan"
  /\ gen = "closed" /\ raised = "none"
  /\ Finish(Status)
  /\ shown' = IF args.json THEN shown ELSE Sorted
  /\ UNCHANGED <<vars, user, args, input>>

\* The scan ended with an exception; or the table goes to a broken pipe.
Fail ==
  /\ user = "cli" /\ gen = "closed"
  /\ \/ stage = "scan" /\ raised = "NoPostQuantumSupport" /\ Finish(2)
     \/ stage = "interrupted" /\ Finish(130)
     \/ stage = "broken" /\ Finish(1)
     \/ stage = "scan" /\ raised = "none" /\ ~args.json /\ Finish(1)
  /\ UNCHANGED <<vars, user, args, input, shown>>

-----------------------------------------------------------------------------
Command == Usage \/ Scan \/ Run \/ Consume \/ Report \/ Fail

Next == Command \/ PipeBreaks \/ KeyboardInterrupt \/ Consumer

Spec == CliInit /\ [][Next]_allvars

\* The asyncio loop and the command run, and a probe ends (module Probe).  A
\* library user need not come back.
FairSpec == Spec /\ WF_allvars(Command)

-----------------------------------------------------------------------------
(* Properties. *)

\* The exit status can be relied on: 0 means that every target of the input was
\* probed and, with --require-pq, is post-quantum; 1 never comes from a scan in
\* which all were, unless the reader of the output went away; and what is wrong
\* with the input is told before any connection is made.
ExitIsTrue ==
  /\ exit = 0 => /\ ToSet(yielded) = parsed
                 /\ args.require_pq => \A t \in asked : task[t] = "post-quantum"
  /\ exit = 1 /\ args.json /\ raised = "none" =>
       args.require_pq /\ \E t \in asked : task[t] # "post-quantum"
  /\ exit = 2 => shown = <<>>
  /\ user = "cli" /\ Bad \in parsed => \A t \in Targets : task[t] = "none"

\* A finished table has a row for each target in the order of the input; JSON
\* lines come in the order of completion, and none is missing at the end.
ShownInOrder ==
  /\ exit = 0 /\ ~args.json =>
       \A i, j \in DOMAIN shown : i < j =>
         \E k \in DOMAIN input : /\ Reads(k, shown[i])
                                 /\ \A l \in 1 .. k : ~Reads(l, shown[j])
  /\ exit = 0 => ToSet(shown) = asked
  /\ args.json => IsPrefix(shown, yielded)

\* However the probes and the reader of the output behave, the generator never
\* waits for ever in its await or in its finally, and the command ends.
NeverStuck ==
  /\ gen = "waiting" ~> gen # "waiting"
  /\ gen = "closing" ~> gen = "closed"
  /\ user = "cli" ~> exit # -1
=============================================================================
