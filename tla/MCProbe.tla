------------------------------- MODULE MCProbe -------------------------------
(* Model-checking instances of Probe. *)
EXTENDS Probe

Host(m, g, p, l) == [mode |-> m, groups |-> g, path |-> p, lossy |-> l]

\* What a host supports matters only if it speaks TLS 1.3.
AllHosts ==
  {Host("tls13", g, p, l) : g \in SUBSET Groups, p \in {"clear", "drop", "alert"}, l \in BOOLEAN}
  \cup {Host(m, {}, p, l) : m \in {"old", "name", "deaf"}, p \in {"clear", "drop"}, l \in BOOLEAN}
=============================================================================
