----------------------------- MODULE MCTlsSocket -----------------------------
(* Model-checking instance of TlsSocket: the ways in which a socket is wrapped,
   and the peers it may be connected to. *)
EXTENDS TlsSocket

Default == [verify |-> TRUE, cafile |-> NoCa]
Ext(type, size) == [type |-> type, size |-> size]

Use(via, fallback, timeout, extensions, options) ==
  [via |-> via, fallback |-> fallback, timeout |-> timeout, extensions |-> extensions,
   options |-> options, config |-> Default]

MCUses ==
  { Use("requests", TRUE, 1, <<>>, FALSE),
    Use("httpx", FALSE, 1, <<>>, TRUE),
    Use("wrap_socket", FALSE, NoTimeout, <<Ext(21, 3)>>, FALSE),
    Use("handshake_async", FALSE, 0, <<>>, FALSE),
    Use("wrap_socket", FALSE, NotANumber, <<>>, FALSE),
    Use("wrap_socket", FALSE, 20, <<Ext(21, 3), Ext(21, 0)>>, FALSE) }

MCTimeouts == {NoTimeout, 1}

MCPeers == [tls13 : BOOLEAN, ca : {"certifi", "private"}]
=============================================================================
