----------------------------- MODULE HttpClient -----------------------------
(***************************************************************************)
(* Client (fizzpy/__init__.py) and AsyncClient (fizzpy/aio.py): requests   *)
(* of several threads or tasks over a per-host pool of keep-alive          *)
(* connections, with the retry of a request that finds its pooled          *)
(* connection dead, and with redirects.                                    *)
(*                                                                         *)
(* A call to request() is an actor.  Its steps are the points where        *)
(* run_sync/run_async hands over to the core (connect, write, read) and    *)
(* the accesses to the pool, which the lock (Client) or the absence of an  *)
(* await (AsyncClient) makes atomic.  A connection is what                 *)
(* ConnectionContract says: writes and reads of one exchange succeed, fail *)
(* or time out.  The server is the environment: it may close a connection  *)
(* at any moment, before or after it has acted on what it was sent.        *)
(***************************************************************************)
EXTENDS Naturals, Sequences, FiniteSets, SequencesExt

CONSTANTS
  Calls,         \* calls of request()
  Hosts,         \* (host, port) keys
  Plain,         \* a Location that is not https://
  Conns,         \* bound: the TlsConnection objects that can be made
  MaxRedirects,  \* max_redirects
  Follow,        \* the values of follow_redirects
  Methods,       \* the methods the calls use
  Codes,         \* the status codes the server answers with
  Hinted,        \* bound: the hops the server answers with a 1xx response first
  Parts,         \* bound: the reads of a response that are told apart
  MaxRuns,       \* bound: the runs of a request that are counted
  NoConn, NoReply, NoLocation

ASSUME ClientConstants ==
  /\ MaxRedirects \in Nat /\ MaxRuns \in Nat /\ Parts \in Nat \ {0}
  /\ Hinted \subseteq Nat
  /\ Follow \subseteq BOOLEAN
  /\ Methods \subseteq {"GET", "POST", "PUT", "HEAD", "DELETE"}
  /\ Codes \subseteq {200, 301, 302, 303, 307, 308}
  /\ {Plain, NoLocation} \cap Hosts = {}
  /\ NoConn \notin Conns

Framings == {"keep",   \* delimited, and the connection stays usable
             "close",  \* delimited, Connection: close or HTTP/1.0
             "eof",    \* delimited by the end of the connection
             "silent"} \* to HEAD: a length is announced, and no body follows
EarlyHints == 103
RedirectCodes == {301, 302, 303, 307, 308}
Locations == Hosts \cup {Plain, NoLocation}

Requests == [call : Calls, hop : 0 .. MaxRedirects, hinted : BOOLEAN, method : Methods \cup {"GET"},
             body : BOOLEAN, length : BOOLEAN]
Responses == [call : Calls, hop : 0 .. MaxRedirects, code : Codes \cup {EarlyHints},
              location : Locations, framing : Framings]

VARIABLES
  pc,       \* where each call is
  req,      \* its method, its body and the headers about it, its host, and seen (hop)
  orig,     \* what the caller asked for: the method, and follow_redirects
  using,    \* the connection of its exchange
  reused,   \* that connection came from the pool
  got,      \* the reads that returned a part of the response, up to Parts and then
            \* from 1 again; received is got # 0
  reply,    \* the last response the exchange returned
  pool,     \* _pool
  closing,  \* connections close() has taken out of the pool and not yet closed
  conn,     \* state of each connection
  hostOf,   \* the host each connection was made to (Plain: none yet)
  inbox,    \* requests the server has received and not acted on
  wire,     \* responses sent by the server and not read
  ran       \* how often the server acted on each hop of each call, up to MaxRuns

link == <<using, reused, got>>
pooling == <<pool, closing>>
peers == <<conn, hostOf>>
server == <<inbox, wire, ran>>
vars == <<pc, req, orig, link, reply, pooling, peers, server>>

PooledConns == UNION {ToSet(pool[h]) : h \in Hosts}

TypeOK ==
  /\ pc \in [Calls -> {"idle", "take", "connect", "write", "read", "decide", "ok", "error"}]
  /\ req \in [Calls -> [method : Methods \cup {"GET"}, body : BOOLEAN, headers : BOOLEAN,
                        host : Locations, hop : 0 .. MaxRedirects]]
  /\ orig \in [Calls -> [method : Methods \cup {"GET"}, follow : BOOLEAN]]
  /\ using \in [Calls -> Conns \cup {NoConn}]
  /\ reused \in [Calls -> BOOLEAN]
  /\ got \in [Calls -> 0 .. Parts]
  /\ reply \in [Calls -> Responses \cup {NoReply}]
  /\ pool \in [Hosts -> Seq(Conns)]
  /\ closing \subseteq Conns
  /\ conn \in [Conns -> {"unmade", "up", "hup", "closed"}]
  /\ hostOf \in [Conns -> Hosts \cup {Plain}]
  /\ inbox \in [Conns -> Seq(Requests)] /\ wire \in [Conns -> Seq(Responses)]
  /\ ran \in [Calls \X (0 .. MaxRedirects) -> 0 .. MaxRuns]

Init ==
  /\ pc = [a \in Calls |-> "idle"]
  /\ req = [a \in Calls |-> [method |-> "GET", body |-> FALSE, headers |-> FALSE,
                             host |-> Plain, hop |-> 0]]
  /\ orig = [a \in Calls |-> [method |-> "GET", follow |-> FALSE]]
  /\ hostOf = [c \in Conns |-> Plain]
  /\ using = [a \in Calls |-> NoConn]
  /\ reused = [a \in Calls |-> FALSE]
  /\ got = [a \in Calls |-> 0]
  /\ reply = [a \in Calls |-> NoReply]
  /\ pool = [h \in Hosts |-> <<>>]
  /\ closing = {}
  /\ conn = [c \in Conns |-> "unmade"]
  /\ inbox = [c \in Conns |-> <<>>]
  /\ wire = [c \in Conns |-> <<>>]
  /\ ran = [q \in Calls \X (0 .. MaxRedirects) |-> 0]

-----------------------------------------------------------------------------
(* request() and _perform() *)

Goto(a, label) == pc' = [pc EXCEPT ![a] = label]

\* With a body the caller also passes headers about it (Content-Type).
Begin(a, m, h, follow) ==
  /\ pc[a] = "idle"
  /\ Goto(a, "take")
  /\ LET body == m \in {"POST", "PUT"} IN
       req' = [req EXCEPT ![a] = [method |-> m, body |-> body, headers |-> body, host |-> h,
                                  hop |-> 0]]
  /\ orig' = [orig EXCEPT ![a] = [method |-> m, follow |-> follow]]
  /\ UNCHANGED <<link, reply, pooling, peers, server>>

\* parse_url() refuses what is not https://.
RejectUrl(a) ==
  /\ pc[a] = "take"
  /\ req[a].host = Plain
  /\ Goto(a, "error")
  /\ UNCHANGED <<req, orig, link, reply, pooling, peers, server>>

\* Mutant: the connection is looked up and not removed.
NotPopped(s) == s

Popped(s) == Front(s)

\* Mutant: the pool is one list for all hosts.
OneKey(a) == CHOOSE h \in Hosts : TRUE

Key(a) == req[a].host

\* _take(): the connection pooled last.
Take(a) ==
  /\ pc[a] = "take"
  /\ req[a].host \in Hosts
  /\ LET h == Key(a) IN
       IF pool[h] = <<>>
         THEN /\ Goto(a, "connect")
              /\ UNCHANGED <<using, reused, pool>>
         ELSE /\ Goto(a, "write")
              /\ using' = [using EXCEPT ![a] = Last(pool[h])]
              /\ reused' = [reused EXCEPT ![a] = TRUE]
              /\ pool' = [pool EXCEPT ![h] = Popped(@)]
  /\ UNCHANGED <<req, orig, got, reply, closing, peers, server>>

\* _connect()
Connect(a, c) ==
  /\ pc[a] = "connect"
  /\ conn[c] = "unmade"
  /\ Goto(a, "write")
  /\ conn' = [conn EXCEPT ![c] = "up"]
  /\ hostOf' = [hostOf EXCEPT ![c] = req[a].host]
  /\ using' = [using EXCEPT ![a] = c]
  /\ reused' = [reused EXCEPT ![a] = FALSE]
  /\ UNCHANGED <<req, orig, got, reply, pooling, server>>

\* It raises, or is cancelled.
ConnectFails(a) ==
  /\ pc[a] = "connect"
  /\ Goto(a, "error")
  /\ UNCHANGED <<req, orig, link, reply, pooling, peers, server>>

\* The redirect loop of request(), after an exchange has returned.
NextMethod(method, code) ==
  IF (code = 303 /\ method # "HEAD") \/ (code \in {301, 302} /\ method = "POST")
    THEN "GET" ELSE method

Redirects(a) ==
  orig[a].follow /\ reply[a].code \in RedirectCodes /\ reply[a].location # NoLocation

Return(a) ==
  /\ pc[a] = "decide"
  /\ ~Redirects(a)
  /\ Goto(a, "ok")
  /\ UNCHANGED <<req, orig, link, reply, pooling, peers, server>>

TooManyRedirects(a) ==
  /\ pc[a] = "decide"
  /\ Redirects(a)
  /\ req[a].hop >= MaxRedirects
  /\ Goto(a, "error")
  /\ UNCHANGED <<req, orig, link, reply, pooling, peers, server>>

\* Mutant: the redirects are not counted.
NotCounted(hop) == hop

Counted(hop) == hop + 1

\* Mutant: the headers about the body survive a change of method.
KeepHeaders(headers) == headers

\* strip_body_headers()
Stripped(headers) == FALSE

Redirect(a) ==
  /\ pc[a] = "decide"
  /\ Redirects(a)
  /\ req[a].hop < MaxRedirects
  /\ LET m == NextMethod(req[a].method, reply[a].code)
         same == m = req[a].method
     IN  req' = [req EXCEPT ![a] =
                   [method  |-> m,
                    body    |-> req[a].body /\ same,
                    headers |-> IF same THEN req[a].headers ELSE Stripped(req[a].headers),
                    host    |-> reply[a].location,
                    hop     |-> Counted(req[a].hop)]]
  /\ Goto(a, "take")
  /\ reply' = [reply EXCEPT ![a] = NoReply]
  /\ UNCHANGED <<orig, link, pooling, peers, server>>

-----------------------------------------------------------------------------
(* _exchange() *)

\* Mutant: the connection is put back into the pool on the way out.
DropToPool(a) == pool' = [pool EXCEPT ![Key(a)] = Append(@, using[a])] /\ UNCHANGED conn

\* pooled.close(), or the last reference goes with the exception.
Drop(a) == conn' = [conn EXCEPT ![using[a]] = "closed"] /\ UNCHANGED pool

\* Mutant: the request goes back to the pool.
RetryFromPool == "take"

RetryFrom == "connect"

\* The exchange is given up.  From a stale pooled connection the request goes
\* to a fresh one; otherwise the error is raised.
GiveUp(a, stale) ==
  /\ Goto(a, IF stale THEN RetryFrom ELSE "error")
  /\ Drop(a)
  /\ using' = [using EXCEPT ![a] = NoConn]
  /\ got' = [got EXCEPT ![a] = 0]
  /\ UNCHANGED <<req, orig, reused, reply, closing, hostOf>>

\* _reusable(): the parser did not need the end of the connection, HTTP/1.1, no
\* Connection: close.
Reusable(m) == m.framing \in {"keep", "silent"}

\* The exchange returns m: the connection goes to the pool (_give) or is closed.
Finish(a, m) ==
  /\ Goto(a, "decide")
  /\ reply' = [reply EXCEPT ![a] = m]
  /\ using' = [using EXCEPT ![a] = NoConn]
  /\ got' = [got EXCEPT ![a] = 0]
  /\ IF Reusable(m)
       THEN /\ pool' = [pool EXCEPT ![Key(a)] = Append(@, using[a])]
            /\ UNCHANGED conn
       ELSE /\ conn' = [conn EXCEPT ![using[a]] = "closed"]
            /\ UNCHANGED pool
  /\ UNCHANGED <<req, orig, reused, closing, hostOf>>

\* build_request(): Content-Length is there with a body, or as a header of the caller.
BuildRequest(a) ==
  [call |-> a, hop |-> req[a].hop, hinted |-> FALSE, method |-> req[a].method,
   body |-> req[a].body, length |-> req[a].body \/ req[a].headers]

\* The bytes leave; a server that has gone away does not see them.
Write(a) ==
  /\ pc[a] = "write"
  /\ Goto(a, "read")
  /\ LET c == using[a] IN
       inbox' = IF conn[c] = "up" THEN [inbox EXCEPT ![c] = Append(@, BuildRequest(a))] ELSE inbox
  /\ UNCHANGED <<req, orig, link, reply, pooling, peers, wire, ran>>

WriteFails(a) ==
  /\ pc[a] = "write"
  /\ GiveUp(a, reused[a])
  /\ UNCHANGED server

\* A read returns some bytes of a response and not the last.  Nothing bounds how
\* often: each read has a deadline of its own, and the response as a whole none.
ReadPart(a) ==
  /\ pc[a] = "read"
  /\ wire[using[a]] # <<>>
  /\ got' = [got EXCEPT ![a] = IF @ < Parts THEN @ + 1 ELSE 1]
  /\ UNCHANGED <<pc, req, orig, using, reused, reply, pooling, peers, server>>

\* A read returns the last byte of a response.  What the same chunks bring
\* after it stays in the parser, and is lost with it.  The parser is not told
\* the method, and waits for the body that HEAD does not have.
ReadLast(a, n) ==
  /\ pc[a] = "read"
  /\ n \in 1 .. Len(wire[using[a]])
  /\ LET c == using[a] IN
       /\ Head(wire[c]).framing \notin {"eof", "silent"}
       /\ Finish(a, Head(wire[c]))
       /\ wire' = [wire EXCEPT ![c] = SubSeq(@, n + 1, Len(@))]
  /\ UNCHANGED <<inbox, ran>>

\* A read returns EOF: feed_eof().
ReadEof(a) ==
  /\ pc[a] = "read"
  /\ conn[using[a]] = "hup"
  /\ LET c == using[a] IN
       \/ \* nothing was read: the response never came
          /\ got[a] = 0
          /\ wire[c] = <<>>
          /\ GiveUp(a, reused[a])
          /\ UNCHANGED wire
       \/ \* the body ends here, or is cut short and taken as it is
          /\ got[a] # 0
          /\ Finish(a, Head(wire[c]))
          /\ wire' = [wire EXCEPT ![c] = <<>>]
       \/ \* HttpParseError (FALSE), or no response at a chunk boundary
          /\ got[a] # 0
          /\ \E boundary \in BOOLEAN : GiveUp(a, boundary /\ reused[a])
          /\ UNCHANGED wire
  /\ UNCHANGED <<inbox, ran>>

\* A read fails or times out.
ReadFails(a) ==
  /\ pc[a] = "read"
  /\ GiveUp(a, reused[a] /\ got[a] = 0)
  /\ UNCHANGED server

\* KeyboardInterrupt or CancelledError, which `except Exception` lets through:
\* there is no retry, and the connection with its pending answer is dropped.
Cancel(a) ==
  /\ pc[a] \in {"write", "read"}
  /\ GiveUp(a, FALSE)
  /\ UNCHANGED server

-----------------------------------------------------------------------------
(* Client.close(), at any time and from any thread. *)

Close ==
  /\ PooledConns # {}
  /\ closing' = closing \cup PooledConns
  /\ pool' = [h \in Hosts |-> <<>>]
  /\ UNCHANGED <<pc, req, orig, link, reply, peers, server>>

CloseOne(c) ==
  /\ c \in closing
  /\ closing' = closing \ {c}
  /\ conn' = [conn EXCEPT ![c] = "closed"]
  /\ UNCHANGED <<pc, req, orig, link, reply, pool, hostOf, server>>

-----------------------------------------------------------------------------
(* The server (external). *)

\* It acts on a request it has received, even if the client has left since.
ServerRun(c, code, location, framing) ==
  /\ inbox[c] # <<>>
  /\ conn[c] # "hup"
  /\ code \in RedirectCodes \/ location = NoLocation
  /\ framing = "silent" => Head(inbox[c]).method = "HEAD"
  /\ LET q == Head(inbox[c]) IN
       /\ ran' = [ran EXCEPT ![<<q.call, q.hop>>] = IF @ < MaxRuns THEN @ + 1 ELSE @]
       /\ wire' = IF conn[c] = "closed" THEN wire
                  ELSE [wire EXCEPT ![c] =
                          Append(@, [call |-> q.call, hop |-> q.hop, code |-> code,
                                     location |-> location, framing |-> framing])]
  /\ inbox' = [inbox EXCEPT ![c] = Tail(@)]
  /\ UNCHANGED <<pc, req, orig, link, reply, pooling, peers>>

\* It announces the response with an interim one (103 Early Hints).
ServerHint(c) ==
  /\ inbox[c] # <<>>
  /\ conn[c] = "up"
  /\ ~Head(inbox[c]).hinted /\ Head(inbox[c]).hop \in Hinted
  /\ LET q == Head(inbox[c]) IN
       wire' = [wire EXCEPT ![c] =
                  Append(@, [call |-> q.call, hop |-> q.hop, code |-> EarlyHints,
                             location |-> NoLocation, framing |-> "keep"])]
  /\ inbox' = [inbox EXCEPT ![c][1].hinted = TRUE]
  /\ UNCHANGED <<pc, req, orig, link, reply, pooling, peers, ran>>

\* It closes the connection: idle too long, restart, crash.
ServerClose(c) ==
  /\ conn[c] = "up"
  /\ conn' = [conn EXCEPT ![c] = "hup"]
  /\ UNCHANGED <<pc, req, orig, link, reply, pooling, hostOf, server>>

-----------------------------------------------------------------------------
Step(a) ==
  \/ RejectUrl(a)
  \/ Take(a)
  \/ \E c \in Conns : Connect(a, c)
  \/ ConnectFails(a)
  \/ Return(a)
  \/ TooManyRedirects(a)
  \/ Redirect(a)
  \/ Write(a)
  \/ WriteFails(a)
  \/ ReadPart(a)
  \/ \E n \in 1 .. 2 : ReadLast(a, n)
  \/ ReadEof(a)
  \/ ReadFails(a)

Server(c) ==
  \/ \E code \in Codes, location \in Locations, framing \in Framings :
       ServerRun(c, code, location, framing)
  \/ ServerHint(c)
  \/ ServerClose(c)

Next ==
  \/ \E a \in Calls, m \in Methods, h \in Hosts, follow \in Follow : Begin(a, m, h, follow)
  \/ \E a \in Calls : Step(a) \/ Cancel(a)
  \/ Close
  \/ \E c \in Conns : CloseOne(c)
  \/ \E c \in Conns : Server(c)

Spec == Init /\ [][Next]_vars

\* A call goes on: every connect, write and read it makes is answered, since each
\* is submitted with a deadline of its own (TimedOpsSettle of TlsConnection).
\* Nothing is assumed of the server, which may answer read after read with some
\* more bytes (ReadPart).
FairSpec == Spec /\ \A a \in Calls : WF_vars(Step(a))

-----------------------------------------------------------------------------
(* Properties. *)

\* A connection has one owner: one call, one place in the pool, or close().
\* Two requests never meet on one connection, and what close() closes is not
\* in use.
SingleOwner ==
  /\ \A a, b \in Calls : using[a] = using[b] /\ using[a] # NoConn => a = b
  /\ \A h, k \in Hosts : \A i \in DOMAIN pool[h], j \in DOMAIN pool[k] :
       pool[h][i] = pool[k][j] => h = k /\ i = j
  /\ \A a \in Calls : using[a] \notin PooledConns \cup closing
  /\ PooledConns \cap closing = {}

\* Types, and a request only travels on a connection made to its own host: the pool never
\* mixes keys, even when a redirect changes the host between two exchanges.
OwnHost ==
  /\ TypeOK
  /\ \A a \in Calls : using[a] # NoConn => hostOf[using[a]] = req[a].host
  /\ \A h \in Hosts : \A c \in ToSet(pool[h]) : hostOf[c] = h

\* The response an exchange returns answers the request it sent: retries,
\* timeouts and reuse never leave an old answer where the next reader finds it.
OwnResponse ==
  \A a \in Calls : pc[a] \in {"decide", "ok"} =>
    reply[a].call = a /\ reply[a].hop = req[a].hop

\* "Idle connections are kept in a per-host pool": a pooled connection has no
\* request under way and no response on it that nobody has read.
PooledIsIdle == \A c \in PooledConns : inbox[c] = <<>> /\ wire[c] = <<>>

\* A request is acted on at most twice, however many pooled connections turn
\* out dead: one retry, on a fresh connection.
AtMostOneRetry == \A q \in DOMAIN ran : ran[q] <= 2

\* "transparently replaced for idempotent retries": a request that is not
\* idempotent is acted on at most once.
NonIdempotentOnce ==
  \A a \in Calls : \A n \in 0 .. MaxRedirects :
    req[a].hop = n /\ req[a].method = "POST" => ran[<<a, n>>] <= 1

\* Along a chain of redirects a body is sent exactly as long as the method is
\* the caller's, so no GET carries the body of the POST it came from, and no
\* 307/308 loses it; and no request announces a body it does not carry.
BodyWithMethod ==
  /\ \A a \in Calls :
       req[a].body <=> orig[a].method \in {"POST", "PUT"} /\ req[a].method = orig[a].method
  /\ \A c \in Conns : \A i \in DOMAIN inbox[c] : inbox[c][i].length <=> inbox[c][i].body

\* Every call returns or raises: the redirect loop and the retry are bounded, and
\* no server keeps a call by silence, by closing or by an unending chain of
\* redirects.  The exception is a server that drips: the loop over reads ends only
\* with the response, so one that never ends keeps the call.
CallsEnd ==
  \A a \in Calls :
    \/ pc[a] = "take" ~> pc[a] \in {"ok", "error"}
    \/ []<><<ReadPart(a)>>_vars
=============================================================================
