-------------------------- MODULE MCTlsConnection --------------------------
(* Model-checking instances of TlsConnection; the constants are in the cfgs. *)
EXTENDS TlsConnectionInv
=============================================================================
