-------------------------------- MODULE MCCli --------------------------------
(* Model-checking instance of Cli: three targets, two permits, and inputs with
   duplicates in several spellings, blank lines and lines that are no target. *)
EXTENDS Cli

Host(name) == [name |-> name, upper |-> FALSE]
Spell(scheme, usable, name, upper, port) ==
  [ip |-> FALSE, scheme |-> scheme, usable |-> usable, name |-> name, upper |-> upper,
   port |-> port]

Address == [Spell("", TRUE, "b", TRUE, NoPort) EXCEPT !.ip = TRUE]
A(upper, port) == Spell("", TRUE, "a", upper, port)

MCTargets == {<<Host("a"), 443>>, <<Host("a"), 8443>>, <<[name |-> "b", upper |-> TRUE], 443>>}

MCInputs ==
  { <<A(FALSE, 8443), Blank, A(TRUE, NoPort), A(FALSE, 443), Address>>,
    <<A(TRUE, 443), Spell("https", TRUE, "a", FALSE, NoPort)>>,
    <<Blank>> }
  \cup {<<A(FALSE, NoPort), line>> :
          line \in {A(FALSE, 0), A(FALSE, 65536), Spell("http", TRUE, "a", FALSE, NoPort),
                    Spell("", FALSE, "a", FALSE, NoPort), Spell("", TRUE, NoHost, FALSE, NoPort)}}
=============================================================================
