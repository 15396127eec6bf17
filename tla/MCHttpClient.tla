---------------------------- MODULE MCHttpClient ----------------------------
(* Model-checking instances of HttpClient. *)
EXTENDS HttpClient, TLC

\* Calls and connections are interchangeable.
Symmetry == Permutations(Calls) \cup Permutations(Conns)
=============================================================================
