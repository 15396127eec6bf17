--------------------------- MODULE HttpClientProofs ---------------------------
(***************************************************************************)
(* Safety of Client and AsyncClient for any number of calls, hosts and     *)
(* connections and any server: the owners of the connections, the hosts    *)
(* they are used for, the bodies of redirected requests, how often the     *)
(* server acts on a request and, from a server that sends no interim       *)
(* responses, that every call gets its own response.                       *)
(***************************************************************************)
EXTENDS HttpClient, FiniteSetTheorems, TLAPS

\* A call holds a connection exactly while it writes and reads; by then its URL
\* has been accepted.
Linked ==
  /\ \A a \in Calls : using[a] # NoConn <=> pc[a] \in {"write", "read"}
  /\ \A a \in Calls : pc[a] \in {"connect", "write", "read"} => req[a].host \in Hosts

\* SingleOwner, said of the positions in the pool.
Owned ==
  /\ \A a, b \in Calls : using[a] = using[b] /\ using[a] # NoConn => a = b
  /\ \A h, k \in Hosts : \A i \in DOMAIN pool[h], j \in DOMAIN pool[k] :
       pool[h][i] = pool[k][j] => h = k /\ i = j
  /\ \A h \in Hosts : \A i \in DOMAIN pool[h] :
       pool[h][i] \notin closing /\ \A a \in Calls : using[a] # pool[h][i]
  /\ \A a \in Calls : using[a] \notin closing

\* A connection that has not been made belongs to nobody.
Fresh ==
  \A c \in Conns : conn[c] = "unmade" =>
    /\ \A a \in Calls : using[a] # c
    /\ \A h \in Hosts : \A i \in DOMAIN pool[h] : pool[h][i] # c
    /\ c \notin closing
    /\ inbox[c] = <<>> /\ wire[c] = <<>>

\* A call has read something only while it reads, then there is something left to
\* read, and if it has left its exchange with a response it has that response.
Replied ==
  /\ \A a \in Calls : pc[a] # "read" => got[a] = 0
  /\ \A a \in Calls : pc[a] = "read" /\ got[a] # 0 => wire[using[a]] # <<>>
  /\ \A a \in Calls : pc[a] \in {"decide", "ok"} => reply[a] \in Responses

\* A request has the headers about a body exactly if it has the body.
Announced == \A a \in Calls : req[a].headers <=> req[a].body

ClientInv ==
  TypeOK /\ Linked /\ Owned /\ Fresh /\ OwnHost /\ Replied /\ Announced /\ BodyWithMethod

-----------------------------------------------------------------------------
(* The steps, by what they do. *)

\* The call returns or raises outside an exchange.
Halts(a) ==
  /\ pc[a] \in {"take", "connect", "decide"}
  /\ \E end \in {"ok", "error"} : (end = "ok" => pc[a] = "decide") /\ Goto(a, end)
  /\ UNCHANGED <<req, orig, link, reply, pooling, peers, server>>

\* It finds no connection in the pool.
Misses(a) ==
  /\ pc[a] = "take"
  /\ Key(a) \in Hosts
  /\ Goto(a, "connect")
  /\ UNCHANGED <<req, orig, link, reply, pooling, peers, server>>

\* It takes the connection pooled last.
Hits(a) ==
  /\ pc[a] = "take"
  /\ Key(a) \in Hosts
  /\ pool[Key(a)] # <<>>
  /\ Goto(a, "write")
  /\ using' = [using EXCEPT ![a] = Last(pool[Key(a)])]
  /\ reused' = [reused EXCEPT ![a] = TRUE]
  /\ pool' = [pool EXCEPT ![Key(a)] = Front(@)]
  /\ UNCHANGED <<req, orig, got, reply, closing, peers, server>>

\* It leaves its exchange without a response.
Leaves(a) ==
  /\ pc[a] \in {"write", "read"}
  /\ \E stale \in BOOLEAN : (stale => reused[a]) /\ GiveUp(a, stale)
  /\ UNCHANGED server

\* It leaves its exchange with the first response on the connection.
Completes(a) ==
  /\ pc[a] = "read"
  /\ wire[using[a]] # <<>>
  /\ Finish(a, Head(wire[using[a]]))
  /\ \E w \in Seq(Responses) :
       /\ Len(wire[using[a]]) = 1 => w = <<>>
       /\ wire' = [wire EXCEPT ![using[a]] = w]
  /\ UNCHANGED <<inbox, ran>>

\* A call in an exchange has a connection, made to an accepted host.
LEMMA InExchange ==
  ASSUME TypeOK, Linked, NEW a \in Calls
  PROVE  /\ pc[a] \in {"write", "read"} => using[a] \in Conns /\ Key(a) \in Hosts
         /\ pc[a] \notin {"write", "read"} => using[a] = NoConn
         /\ using[a] \in Conns => pc[a] \in {"write", "read"}
  BY ClientConstants DEF TypeOK, Linked, Key

\* Every step is one of these.
LEMMA StepCases ==
  ASSUME TypeOK, Linked, Replied, Next
  PROVE  \/ \E a \in Calls, m \in Methods, h \in Hosts, follow \in Follow : Begin(a, m, h, follow)
         \/ \E a \in Calls :
              \/ Halts(a) \/ Misses(a) \/ Hits(a) \/ Redirect(a) \/ Write(a) \/ ReadPart(a)
              \/ Leaves(a) \/ Completes(a)
              \/ \E c \in Conns : Connect(a, c)
         \/ Close
         \/ \E c \in Conns : CloseOne(c) \/ ServerHint(c) \/ ServerClose(c)
         \/ \E c \in Conns, code \in Codes, location \in Locations, framing \in Framings :
              ServerRun(c, code, location, framing)
<1>1. ASSUME NEW a \in Calls, RejectUrl(a) \/ ConnectFails(a) \/ Return(a) \/ TooManyRedirects(a)
      PROVE  Halts(a)
  BY <1>1 DEF RejectUrl, ConnectFails, Return, TooManyRedirects, Halts
<1>2. ASSUME NEW a \in Calls, WriteFails(a) \/ ReadFails(a) \/ Cancel(a)
      PROVE  Leaves(a)
  <2>1. reused[a] \in BOOLEAN
    BY DEF TypeOK
  <2>2. CASE WriteFails(a)
    BY <2>1, <2>2 DEF WriteFails, Leaves
  <2>3. CASE ReadFails(a)
    BY <2>1, <2>3 DEF ReadFails, Leaves
  <2>4. CASE Cancel(a)
    BY <2>4 DEF Cancel, Leaves
  <2> QED
    BY <1>2, <2>2, <2>3, <2>4
<1>3. ASSUME NEW a \in Calls, NEW n \in 1 .. 2, ReadLast(a, n)
      PROVE  Completes(a)
  <2> DEFINE s == wire[using[a]]
             w == SubSeq(s, n + 1, Len(s))
  <2>1. pc[a] = "read" /\ n \in 1 .. Len(s) /\ Finish(a, Head(s)) /\ UNCHANGED <<inbox, ran>>
    BY <1>3 DEF ReadLast
  <2>2. s \in Seq(Responses)
    BY <2>1, InExchange DEF TypeOK
  <2>3. w \in Seq(Responses) /\ s # <<>>
    BY <2>1, <2>2
  <2>4. Len(s) = 1 => w = <<>>
    BY <2>1, <2>2
  <2>5. wire' = [wire EXCEPT ![using[a]] = w]
    BY <1>3 DEF ReadLast
  <2> QED
    BY <2>1, <2>3, <2>4, <2>5 DEF Completes
<1>4. ASSUME NEW a \in Calls, ReadEof(a)
      PROVE  Leaves(a) \/ Completes(a)
  <2>1. pc[a] = "read" /\ UNCHANGED <<inbox, ran>> /\ reused[a] \in BOOLEAN
    BY <1>4 DEF ReadEof, TypeOK
  <2>2. CASE GiveUp(a, reused[a]) /\ UNCHANGED wire
    BY <2>1, <2>2 DEF Leaves, server
  <2>3. CASE got[a] # 0 /\ Finish(a, Head(wire[using[a]])) /\ wire' = [wire EXCEPT ![using[a]] = <<>>]
    <3>1. wire[using[a]] # <<>>
      BY <2>1, <2>3 DEF Replied
    <3>2. <<>> \in Seq(Responses)
      OBVIOUS
    <3> QED
      BY <2>1, <2>3, <3>1, <3>2 DEF Completes
  <2>4. ASSUME NEW boundary \in BOOLEAN, GiveUp(a, boundary /\ reused[a]), UNCHANGED wire
        PROVE  Leaves(a)
    <3>1. (boundary /\ reused[a]) \in BOOLEAN
      OBVIOUS
    <3> QED
      BY <2>1, <2>4, <3>1 DEF Leaves, server
  <2> QED
    BY <1>4, <2>2, <2>3, <2>4 DEF ReadEof
<1>5. ASSUME NEW a \in Calls, Take(a)
      PROVE  Misses(a) \/ Hits(a)
  <2>1. CASE pool[Key(a)] = <<>>
    BY <1>5, <2>1 DEF Take, Misses, Key, pooling, link
  <2>2. CASE pool[Key(a)] # <<>>
    BY <1>5, <2>2 DEF Take, Hits, Key, Popped
  <2> QED
    BY <2>1, <2>2
<1> QED
  BY <1>1, <1>2, <1>3, <1>4, <1>5 DEF Next, Step, Server

\* When the server acts on its first request, it answers that request.
LEMMA RunWire ==
  ASSUME TypeOK, NEW c \in Conns, NEW code \in Codes, NEW location \in Locations,
         NEW framing \in Framings, ServerRun(c, code, location, framing)
  PROVE  \E m \in Responses :
           /\ m.call = Head(inbox[c]).call /\ m.hop = Head(inbox[c]).hop
           /\ wire' = wire \/ wire' = [wire EXCEPT ![c] = Append(wire[c], m)]
<1> DEFINE q == Head(inbox[c])
           m == [call |-> q.call, hop |-> q.hop, code |-> code, location |-> location,
                 framing |-> framing]
<1>1. q \in Requests
  BY DEF ServerRun, TypeOK
<1>2. m \in Responses /\ m.call = q.call /\ m.hop = q.hop
  BY <1>1 DEF Requests, Responses
<1>3. wire' = wire \/ wire' = [wire EXCEPT ![c] = Append(wire[c], m)]
  BY DEF ServerRun
<1> QED
  BY <1>2, <1>3

-----------------------------------------------------------------------------
(* Types, and who is in an exchange. *)

\* A request the server has announced a response to is a request.
LEMMA HintedIsRequest ==
  ASSUME NEW r \in Requests
  PROVE  [r EXCEPT !.hinted = TRUE] \in Requests
  BY DEF Requests

\* The client's steps keep the types.
LEMMA TypeStep ==
  ASSUME TypeOK, Linked, Replied, [Next]_vars
  PROVE  TypeOK'
<1> USE ClientConstants
<1>1. ASSUME NEW a \in Calls, NEW m \in Methods, NEW h \in Hosts, NEW follow \in Follow,
             Begin(a, m, h, follow)
      PROVE  TypeOK'
  <2>1. req' \in [Calls -> [method : Methods \cup {"GET"}, body : BOOLEAN, headers : BOOLEAN,
                            host : Locations, hop : 0 .. MaxRedirects]]
    BY <1>1 DEF Begin, TypeOK, Locations
  <2>2. orig' \in [Calls -> [method : Methods \cup {"GET"}, follow : BOOLEAN]]
    BY <1>1 DEF Begin, TypeOK
  <2> QED
    BY <1>1, <2>1, <2>2 DEF Begin, Goto, TypeOK, link, pooling, peers, server
<1>2. ASSUME NEW a \in Calls, Halts(a) PROVE TypeOK'
  BY <1>2 DEF Halts, Goto, TypeOK, link, pooling, peers, server
<1>3. ASSUME NEW a \in Calls, Hits(a) PROVE TypeOK'
  <2>1. Key(a) \in Hosts /\ pool[Key(a)] \in Seq(Conns) /\ pool[Key(a)] # <<>>
    BY <1>3 DEF Hits, TypeOK
  <2>2. Last(pool[Key(a)]) \in Conns /\ Front(pool[Key(a)]) \in Seq(Conns)
    BY <2>1 DEF Last, Front
  <2>3. pool' \in [Hosts -> Seq(Conns)]
    BY <1>3, <2>1, <2>2 DEF Hits, TypeOK
  <2> QED
    <3>1. /\ pc' \in [Calls -> {"idle", "take", "connect", "write", "read", "decide", "ok", "error"}]
          /\ using' \in [Calls -> Conns \cup {NoConn}]
          /\ reused' \in [Calls -> BOOLEAN] /\ got' \in [Calls -> 0 .. Parts]
      BY <1>3, <2>2 DEF Hits, Goto, TypeOK
    <3> QED
      BY <1>3, <2>3, <3>1 DEF Hits, TypeOK, peers, server
<1>16. ASSUME NEW a \in Calls, Misses(a) PROVE TypeOK'
  BY <1>16 DEF Misses, Goto, TypeOK, link, pooling, peers, server
<1>4. ASSUME NEW a \in Calls, Redirect(a) PROVE TypeOK'
  <2>1. reply[a] \in Responses /\ req[a].hop + 1 \in 0 .. MaxRedirects
    BY <1>4 DEF Redirect, Replied, TypeOK
  <2>2. NextMethod(req[a].method, reply[a].code) \in Methods \cup {"GET"}
    BY DEF NextMethod, TypeOK
  <2> DEFINE m == NextMethod(req[a].method, reply[a].code)
             body == req[a].body /\ m = req[a].method
             headers == IF m = req[a].method THEN req[a].headers ELSE FALSE
             r == [method |-> m, body |-> body, headers |-> headers,
                   host |-> reply[a].location, hop |-> req[a].hop + 1]
  <2>3. reply[a].location \in Locations /\ req[a].body \in BOOLEAN /\ req[a].headers \in BOOLEAN
    BY <2>1 DEF Responses, TypeOK
  <2>4. r \in [method : Methods \cup {"GET"}, body : BOOLEAN, headers : BOOLEAN,
               host : Locations, hop : 0 .. MaxRedirects]
    <3>1. body \in BOOLEAN
      OBVIOUS
    <3>2. headers \in BOOLEAN
      <4>1. CASE m = req[a].method
        BY <2>3, <4>1
      <4>2. CASE m # req[a].method
        BY <4>2
      <4> QED
        BY <4>1, <4>2
    <3> HIDE DEF m, body, headers
    <3> QED
      BY <2>1, <2>2, <2>3, <3>1, <3>2 DEF m
  <2>5. req' = [req EXCEPT ![a] = r]
    BY <1>4 DEF Redirect, Stripped, Counted
  <2>6. req' \in [Calls -> [method : Methods \cup {"GET"}, body : BOOLEAN, headers : BOOLEAN,
                            host : Locations, hop : 0 .. MaxRedirects]]
    <3> HIDE DEF r
    <3> QED
      BY <2>4, <2>5 DEF TypeOK
  <2> QED
    BY <1>4, <2>6 DEF Redirect, Goto, TypeOK, link, pooling, peers, server
<1>5. ASSUME NEW a \in Calls, Write(a) PROVE TypeOK'
  <2>1. using[a] \in Conns
    BY <1>5, InExchange DEF Write
  <2>2. BuildRequest(a) \in Requests
    BY DEF BuildRequest, Requests, TypeOK
  <2>3. inbox' \in [Conns -> Seq(Requests)]
    BY <1>5, <2>1, <2>2 DEF Write, TypeOK
  <2> QED
    BY <1>5, <2>3 DEF Write, Goto, TypeOK, link, pooling, peers
<1>6. ASSUME NEW a \in Calls, ReadPart(a) PROVE TypeOK'
  BY <1>6 DEF ReadPart, TypeOK, pooling, peers, server
<1>7. ASSUME NEW a \in Calls, Leaves(a) PROVE TypeOK'
  <2>1. using[a] \in Conns
    BY <1>7, InExchange DEF Leaves
  <2> QED
    BY <1>7, <2>1 DEF Leaves, GiveUp, Drop, RetryFrom, Goto, TypeOK, server
<1>8. ASSUME NEW a \in Calls, Completes(a) PROVE TypeOK'
  <2>1. using[a] \in Conns /\ Key(a) \in Hosts
    BY <1>8, InExchange DEF Completes
  <2>2. Head(wire[using[a]]) \in Responses
    BY <1>8, <2>1 DEF Completes, TypeOK
  <2>3. pool' \in [Hosts -> Seq(Conns)] /\ conn' \in [Conns -> {"unmade", "up", "hup", "closed"}]
    <3>1. pool[Key(a)] \in Seq(Conns) /\ Append(pool[Key(a)], using[a]) \in Seq(Conns)
      BY <2>1 DEF TypeOK
    <3>2. \/ pool' = [pool EXCEPT ![Key(a)] = Append(pool[Key(a)], using[a])] /\ UNCHANGED conn
          \/ conn' = [conn EXCEPT ![using[a]] = "closed"] /\ UNCHANGED pool
      BY <1>8 DEF Completes, Finish
    <3> QED
      <4> DEFINE s == Append(pool[Key(a)], using[a])
      <4> HIDE DEF s
      <4>1. CASE pool' = [pool EXCEPT ![Key(a)] = s] /\ UNCHANGED conn
        BY <2>1, <3>1, <4>1 DEF TypeOK, s
      <4>2. CASE conn' = [conn EXCEPT ![using[a]] = "closed"] /\ UNCHANGED pool
        BY <2>1, <4>2 DEF TypeOK
      <4> QED
        BY <3>2, <4>1, <4>2 DEF s
  <2>4. wire' \in [Conns -> Seq(Responses)]
    BY <1>8, <2>1 DEF Completes, TypeOK
  <2>5. /\ got' \in [Calls -> 0 .. Parts] /\ using' \in [Calls -> Conns \cup {NoConn}]
        /\ reply' \in [Calls -> Responses \cup {NoReply}]
        /\ pc' \in [Calls -> {"idle", "take", "connect", "write", "read", "decide", "ok", "error"}]
    BY <1>8, <2>2 DEF Completes, Finish, Goto, TypeOK
  <2> QED
    BY <1>8, <2>3, <2>4, <2>5 DEF Completes, Finish, TypeOK
<1>9. ASSUME NEW a \in Calls, NEW c \in Conns, Connect(a, c) PROVE TypeOK'
  <2>1. req[a].host \in Hosts
    BY <1>9 DEF Connect, Linked
  <2> QED
    BY <1>9, <2>1 DEF Connect, Goto, TypeOK, pooling, server
<1>10. CASE Close
  <2>1. PooledConns \subseteq Conns
    BY DEF PooledConns, ToSet, TypeOK
  <2> QED
    BY <1>10, <2>1 DEF Close, TypeOK, link, peers, server
<1>11. ASSUME NEW c \in Conns, CloseOne(c) PROVE TypeOK'
  BY <1>11 DEF CloseOne, TypeOK, link, server
<1>12. ASSUME NEW c \in Conns, ServerHint(c) PROVE TypeOK'
  <2>1. inbox[c] \in Seq(Requests) /\ inbox[c] # <<>> /\ inbox[c][1] \in Requests
    BY <1>12 DEF ServerHint, TypeOK
  <2>2. inbox' = [inbox EXCEPT ![c] = [inbox[c] EXCEPT ![1] = [inbox[c][1] EXCEPT !.hinted = TRUE]]]
    BY <1>12 DEF ServerHint
  <2>3. [inbox[c][1] EXCEPT !.hinted = TRUE] \in Requests
    BY <2>1, HintedIsRequest
  <2>4. [inbox[c] EXCEPT ![1] = [inbox[c][1] EXCEPT !.hinted = TRUE]] \in Seq(Requests)
    BY <2>1, <2>3
  <2>5. inbox' \in [Conns -> Seq(Requests)]
    BY <2>2, <2>4 DEF TypeOK
  <2>6. [call |-> Head(inbox[c]).call, hop |-> Head(inbox[c]).hop, code |-> EarlyHints,
         location |-> NoLocation, framing |-> "keep"] \in Responses
    BY <2>1 DEF Requests, Responses, Locations, Framings
  <2>7. wire' \in [Conns -> Seq(Responses)]
    BY <1>12, <2>6 DEF ServerHint, TypeOK
  <2> QED
    BY <1>12, <2>5, <2>7 DEF ServerHint, TypeOK, link, pooling, peers
<1>13. ASSUME NEW c \in Conns, ServerClose(c) PROVE TypeOK'
  BY <1>13 DEF ServerClose, TypeOK, link, pooling, server
<1>14. ASSUME NEW c \in Conns, NEW code \in Codes, NEW location \in Locations,
              NEW framing \in Framings, ServerRun(c, code, location, framing)
       PROVE  TypeOK'
  <2> DEFINE q == Head(inbox[c])
             m == [call |-> q.call, hop |-> q.hop, code |-> code, location |-> location,
                   framing |-> framing]
  <2>1. inbox[c] \in Seq(Requests) /\ q \in Requests
    BY <1>14 DEF ServerRun, TypeOK
  <2>2. m \in Responses /\ <<q.call, q.hop>> \in Calls \X (0 .. MaxRedirects)
    BY <2>1 DEF Requests, Responses
  <2>3. inbox' \in [Conns -> Seq(Requests)]
    BY <1>14, <2>1 DEF ServerRun, TypeOK
  <2>4. wire' \in [Conns -> Seq(Responses)]
    BY <1>14, <2>2 DEF ServerRun, TypeOK
  <2>5. ran' \in [Calls \X (0 .. MaxRedirects) -> 0 .. MaxRuns]
    BY <1>14, <2>2, SMTT(30) DEF ServerRun, TypeOK
  <2> QED
    BY <1>14, <2>3, <2>4, <2>5 DEF ServerRun, TypeOK, link, pooling, peers
<1>15. CASE UNCHANGED vars
  BY <1>15 DEF vars, TypeOK, link, pooling, peers, server
<1> QED
  BY <1>1, <1>2, <1>3, <1>4, <1>5, <1>6, <1>7, <1>8, <1>9, <1>10, <1>11, <1>12, <1>13, <1>14,
     <1>15, <1>16, StepCases

\* A call has a connection while it writes and reads, and only then.
LEMMA LinkedStep ==
  ASSUME TypeOK, Linked, Replied, [Next]_vars
  PROVE  Linked'
<1> USE ClientConstants
<1>1. ASSUME NEW a \in Calls, NEW m \in Methods, NEW h \in Hosts, NEW follow \in Follow,
             Begin(a, m, h, follow)
      PROVE  Linked'
  BY <1>1 DEF Begin, Goto, Linked, TypeOK, link
<1>2. ASSUME NEW a \in Calls, Halts(a) PROVE Linked'
  BY <1>2 DEF Halts, Goto, Linked, TypeOK, link
<1>3. ASSUME NEW a \in Calls, Hits(a) PROVE Linked'
  <2>1. Last(pool[Key(a)]) \in Conns
    BY <1>3 DEF Hits, Last, TypeOK
  <2> QED
    BY <1>3, <2>1 DEF Hits, Key, Goto, Linked, TypeOK
<1>15. ASSUME NEW a \in Calls, Misses(a) PROVE Linked'
  BY <1>15 DEF Misses, Key, Goto, Linked, TypeOK, link
<1>4. ASSUME NEW a \in Calls, Redirect(a) PROVE Linked'
  <2>1. pc[a] = "decide" /\ pc' = [pc EXCEPT ![a] = "take"] /\ UNCHANGED using
        /\ \A b \in Calls \ {a} : req'[b] = req[b]
    BY <1>4 DEF Redirect, Goto, link, TypeOK
  <2> QED
    BY <2>1 DEF Linked, TypeOK
<1>5. ASSUME NEW a \in Calls, Write(a) PROVE Linked'
  BY <1>5 DEF Write, Goto, Linked, TypeOK, link
<1>6. ASSUME NEW a \in Calls, ReadPart(a) PROVE Linked'
  BY <1>6 DEF ReadPart, Linked
<1>7. ASSUME NEW a \in Calls, Leaves(a) PROVE Linked'
  BY <1>7 DEF Leaves, GiveUp, Drop, RetryFrom, Goto, Linked, TypeOK
<1>8. ASSUME NEW a \in Calls, Completes(a) PROVE Linked'
  BY <1>8 DEF Completes, Finish, Goto, Linked, TypeOK
<1>9. ASSUME NEW a \in Calls, NEW c \in Conns, Connect(a, c) PROVE Linked'
  BY <1>9 DEF Connect, Goto, Linked, TypeOK
<1>10. ASSUME UNCHANGED <<pc, req, using>> PROVE Linked'
  BY <1>10 DEF Linked
<1>11. CASE Close
  BY <1>10, <1>11 DEF Close, link
<1>12. ASSUME NEW c \in Conns, CloseOne(c) \/ ServerHint(c) \/ ServerClose(c) PROVE Linked'
  BY <1>10, <1>12 DEF CloseOne, ServerHint, ServerClose, link
<1>13. ASSUME NEW c \in Conns, NEW code \in Codes, NEW location \in Locations,
              NEW framing \in Framings, ServerRun(c, code, location, framing)
       PROVE  Linked'
  BY <1>10, <1>13 DEF ServerRun, link
<1>14. CASE UNCHANGED vars
  BY <1>10, <1>14 DEF vars, link
<1> QED
  BY <1>1, <1>2, <1>3, <1>4, <1>5, <1>6, <1>7, <1>8, <1>9, <1>11, <1>12, <1>13, <1>14, <1>15,
     StepCases

-----------------------------------------------------------------------------
(* Ownership of the connections. *)

\* Nobody gets a connection in this step, and nothing is said to an unmade one.
Kept ==
  /\ \A h \in Hosts : \A i \in DOMAIN pool'[h] : i \in DOMAIN pool[h] /\ pool'[h][i] = pool[h][i]
  /\ closing' \subseteq closing
  /\ \A a \in Calls : using'[a] # NoConn => using'[a] = using[a] /\ req'[a].host = req[a].host
  /\ hostOf' = hostOf
  /\ \A c \in Conns : conn'[c] = "unmade" =>
       conn[c] = "unmade" /\ inbox'[c] = <<>> /\ wire'[c] = <<>>

\* Only four steps give a connection to somebody.
LEMMA MostlyKept ==
  ASSUME TypeOK, Linked, Replied, Fresh, [Next]_vars
  PROVE  \/ Kept
         \/ \E a \in Calls : Hits(a) \/ (Completes(a) /\ Reusable(Head(wire[using[a]])))
         \/ \E a \in Calls, c \in Conns : Connect(a, c)
         \/ Close
<1> USE ClientConstants
<1>1. ASSUME UNCHANGED <<pool, closing, using, hostOf, conn, inbox, wire>>,
             \A a \in Calls : using[a] # NoConn => req'[a].host = req[a].host
      PROVE  Kept
  BY <1>1 DEF Kept, Fresh
<1>2. ASSUME NEW a \in Calls, NEW m \in Methods, NEW h \in Hosts, NEW follow \in Follow,
             Begin(a, m, h, follow)
      PROVE  Kept
  <2>1. \A b \in Calls : using[b] # NoConn => req'[b].host = req[b].host
    <3>1. using[a] = NoConn
      BY <1>2, InExchange DEF Begin
    <3>2. \A b \in Calls : b # a => req'[b] = req[b]
      BY <1>2 DEF Begin, TypeOK
    <3> QED
      BY <3>1, <3>2
  <2> QED
    BY <1>1, <1>2, <2>1 DEF Begin, link, pooling, peers, server
<1>3. ASSUME NEW a \in Calls, Halts(a) \/ Misses(a) \/ ReadPart(a) PROVE Kept
  BY <1>1, <1>3 DEF Halts, Misses, ReadPart, link, pooling, peers, server
<1>4. ASSUME NEW a \in Calls, Redirect(a) PROVE Kept
  <2>1. \A b \in Calls : using[b] # NoConn => req'[b].host = req[b].host
    <3>1. using[a] = NoConn
      BY <1>4, InExchange DEF Redirect
    <3>2. \A b \in Calls : b # a => req'[b] = req[b]
      BY <1>4 DEF Redirect, TypeOK
    <3> QED
      BY <3>1, <3>2
  <2> QED
    BY <1>1, <1>4, <2>1 DEF Redirect, link, pooling, peers, server
<1>5. ASSUME NEW a \in Calls, Write(a) PROVE Kept
  <2>1. using[a] \in Conns
    BY <1>5, InExchange DEF Write
  <2>2. \A c \in Conns : conn[c] = "unmade" => inbox'[c] = <<>>
    BY <1>5, <2>1 DEF Write, Fresh, TypeOK
  <2> QED
    BY <1>5, <2>2 DEF Write, Kept, Fresh, link, pooling, peers
<1>6. ASSUME NEW a \in Calls, Leaves(a) PROVE Kept
  <2>1. using[a] \in Conns
    BY <1>6, InExchange DEF Leaves
  <2>2. \A b \in Calls : using'[b] # NoConn => using'[b] = using[b]
    BY <1>6 DEF Leaves, GiveUp, TypeOK
  <2>3. \A c \in Conns : conn'[c] = "unmade" => conn[c] = "unmade"
    BY <1>6, <2>1 DEF Leaves, GiveUp, Drop, TypeOK
  <2> QED
    BY <1>6, <2>2, <2>3 DEF Leaves, GiveUp, Drop, Kept, Fresh, server
<1>7. ASSUME NEW a \in Calls, Completes(a), ~Reusable(Head(wire[using[a]])) PROVE Kept
  <2>1. using[a] \in Conns
    BY <1>7, InExchange DEF Completes
  <2>2. \A b \in Calls : using'[b] # NoConn => using'[b] = using[b]
    BY <1>7 DEF Completes, Finish, TypeOK
  <2>3. \A c \in Conns : conn'[c] = "unmade" => conn[c] = "unmade" /\ c # using[a]
    BY <1>7, <2>1 DEF Completes, Finish, TypeOK
  <2>4. \A c \in Conns : c # using[a] => wire'[c] = wire[c]
    BY <1>7 DEF Completes, TypeOK
  <2> QED
    BY <1>7, <2>2, <2>3, <2>4 DEF Completes, Finish, Kept, Fresh
<1>8. ASSUME NEW c \in Conns, CloseOne(c) \/ ServerClose(c) PROVE Kept
  BY <1>8 DEF CloseOne, ServerClose, Kept, Fresh, link, pooling, server, TypeOK
<1>9. ASSUME NEW c \in Conns, ServerHint(c) PROVE Kept
  <2>1. conn[c] = "up" /\ \A d \in Conns : d # c => inbox'[d] = inbox[d] /\ wire'[d] = wire[d]
    BY <1>9 DEF ServerHint, TypeOK
  <2> QED
    BY <1>9, <2>1 DEF ServerHint, Kept, Fresh, link, pooling, peers
<1>10. ASSUME NEW c \in Conns, NEW code \in Codes, NEW location \in Locations,
              NEW framing \in Framings, ServerRun(c, code, location, framing)
       PROVE  Kept
  <2>1. inbox[c] # <<>> /\ \A d \in Conns : d # c => inbox'[d] = inbox[d] /\ wire'[d] = wire[d]
    BY <1>10 DEF ServerRun, TypeOK
  <2> QED
    BY <1>10, <2>1 DEF ServerRun, Kept, Fresh, link, pooling, peers
<1>11. CASE UNCHANGED vars
  BY <1>1, <1>11 DEF vars, link, pooling, peers, server
<1> QED
  BY <1>2, <1>3, <1>4, <1>5, <1>6, <1>7, <1>8, <1>9, <1>10, <1>11, StepCases

\* What the pool holds after the last connection of a host has been taken out.
LEMMA PoolPopped ==
  ASSUME TypeOK, NEW a \in Calls, Hits(a)
  PROVE  LET n == Len(pool[Key(a)]) IN
         /\ n \in DOMAIN pool[Key(a)] /\ using'[a] = pool[Key(a)][n] /\ using'[a] \in Conns
         /\ \A h \in Hosts : \A i \in DOMAIN pool'[h] :
              /\ i \in DOMAIN pool[h] /\ pool'[h][i] = pool[h][i]
              /\ ~(h = Key(a) /\ i = n)
<1> DEFINE s == pool[Key(a)]
<1>1. s \in Seq(Conns) /\ s # <<>> /\ Key(a) \in Hosts
  BY DEF Hits, TypeOK
<1>2. Len(s) \in DOMAIN s /\ s[Len(s)] \in Conns
  BY <1>1
<1>3. \A i \in DOMAIN Front(s) : i \in DOMAIN s /\ i # Len(s) /\ Front(s)[i] = s[i]
  BY <1>1 DEF Front
<1>4. using'[a] = s[Len(s)]
  BY DEF Hits, Last, TypeOK
<1>5. \A h \in Hosts : pool'[h] = IF h = Key(a) THEN Front(s) ELSE pool[h]
  BY <1>1 DEF Hits, TypeOK
<1> QED
  BY <1>1, <1>2, <1>3, <1>4, <1>5

\* What the pool holds after a connection has been put back.
LEMMA PoolGiven ==
  ASSUME TypeOK, Linked, NEW a \in Calls, Completes(a), Reusable(Head(wire[using[a]]))
  PROVE  /\ Key(a) \in Hosts /\ using[a] \in Conns
         /\ \A h \in Hosts : \A i \in DOMAIN pool'[h] :
              \/ i \in DOMAIN pool[h] /\ pool'[h][i] = pool[h][i]
              \/ h = Key(a) /\ i = Len(pool[h]) + 1 /\ pool'[h][i] = using[a]
<1> DEFINE s == pool[Key(a)]
<1>1. Key(a) \in Hosts /\ using[a] \in Conns /\ s \in Seq(Conns)
  BY InExchange DEF Completes, TypeOK
<1>2. \A i \in DOMAIN Append(s, using[a]) :
        \/ i \in DOMAIN s /\ Append(s, using[a])[i] = s[i]
        \/ i = Len(s) + 1 /\ Append(s, using[a])[i] = using[a]
  BY <1>1
<1>3. \A h \in Hosts : pool'[h] = IF h = Key(a) THEN Append(s, using[a]) ELSE pool[h]
  BY <1>1 DEF Completes, Finish, TypeOK
<1> QED
  BY <1>1, <1>2, <1>3

\* A connection keeps having one owner, and an unmade one none.
LEMMA OwnedStep ==
  ASSUME TypeOK, Linked, Replied, Owned, Fresh, [Next]_vars
  PROVE  Owned' /\ Fresh'
<1> USE ClientConstants
<1>1. CASE Kept
  <2>1. TypeOK'
    BY TypeStep
  <2>2. Owned'
    <3>1. \A a, b \in Calls : using'[a] = using'[b] /\ using'[a] # NoConn => a = b
      BY <1>1 DEF Kept, Owned
    <3>2. \A h, k \in Hosts : \A i \in DOMAIN pool'[h], j \in DOMAIN pool'[k] :
            pool'[h][i] = pool'[k][j] => h = k /\ i = j
      BY <1>1 DEF Kept, Owned
    <3>3. \A h \in Hosts : \A i \in DOMAIN pool'[h] : pool'[h][i] # NoConn
      BY <2>1 DEF TypeOK
    <3>4. \A h \in Hosts : \A i \in DOMAIN pool'[h] :
            pool'[h][i] \notin closing' /\ \A a \in Calls : using'[a] # pool'[h][i]
      BY <1>1, <3>3 DEF Kept, Owned
    <3>5. \A a \in Calls : using'[a] \notin closing'
      <4>1. NoConn \notin closing'
        BY <2>1 DEF TypeOK
      <4> QED
        BY <1>1, <4>1 DEF Kept, Owned
    <3> QED
      BY <3>1, <3>2, <3>4, <3>5 DEF Owned
  <2>3. Fresh'
    BY <1>1, <2>1 DEF Kept, Fresh, TypeOK
  <2> QED
    BY <2>2, <2>3
<1>2. ASSUME NEW a \in Calls, Hits(a) PROVE Owned' /\ Fresh'
  <2>1. /\ using'[a] \in Conns
        /\ \A b \in Calls : b # a => using'[b] = using[b]
        /\ UNCHANGED <<closing, conn, inbox, wire>>
        /\ Key(a) \in Hosts
    <3>1. using'[a] \in Conns
      BY <1>2, PoolPopped
    <3> QED
      BY <1>2, <3>1 DEF Hits, TypeOK, peers, server
  <2>2. Owned'
    BY <1>2, <2>1, PoolPopped DEF Owned
  <2>3. Fresh'
    BY <1>2, <2>1, PoolPopped DEF Fresh
  <2> QED
    BY <2>2, <2>3
<1>3. ASSUME NEW a \in Calls, Completes(a), Reusable(Head(wire[using[a]])) PROVE Owned' /\ Fresh'
  <2>1. /\ using'[a] = NoConn
        /\ \A b \in Calls : b # a => using'[b] = using[b]
        /\ \A c \in Conns : c # using[a] => wire'[c] = wire[c]
        /\ UNCHANGED <<closing, conn, inbox>>
    BY <1>3 DEF Completes, Finish, TypeOK
  <2>2. \A h \in Hosts : \A i \in DOMAIN pool[h] : pool[h][i] \in Conns /\ i \in 1 .. Len(pool[h])
    BY DEF TypeOK
  <2>3. NoConn \notin closing
    BY DEF TypeOK
  <2>4. Owned'
    BY <1>3, <2>1, <2>2, <2>3, PoolGiven DEF Owned
  <2>5. Fresh'
    BY <1>3, <2>1, <2>2, PoolGiven DEF Fresh
  <2> QED
    BY <2>4, <2>5
<1>4. ASSUME NEW a \in Calls, NEW c \in Conns, Connect(a, c) PROVE Owned' /\ Fresh'
  <2>1. /\ using'[a] = c
        /\ \A b \in Calls : b # a => using'[b] = using[b]
        /\ conn[c] = "unmade" /\ conn'[c] = "up" /\ \A d \in Conns : d # c => conn'[d] = conn[d]
        /\ UNCHANGED <<pool, closing, inbox, wire>>
    BY <1>4 DEF Connect, TypeOK, pooling, server
  <2> QED
    BY <2>1 DEF Owned, Fresh
<1>5. CASE Close
  <2>1. \A h \in Hosts : \A i \in DOMAIN pool'[h] : FALSE
    BY <1>5 DEF Close
  <2>2. \A c \in PooledConns : \E h \in Hosts : \E i \in DOMAIN pool[h] : pool[h][i] = c
    BY DEF PooledConns, ToSet
  <2>3. closing' = closing \cup PooledConns /\ UNCHANGED <<using, conn, inbox, wire>>
    BY <1>5 DEF Close, link, peers, server
  <2> QED
    BY <2>1, <2>2, <2>3 DEF Owned, Fresh
<1> QED
  BY <1>1, <1>2, <1>3, <1>4, <1>5, MostlyKept

\* Said of positions or of sets, it is the same.
LEMMA OwnedIsSingle == TypeOK /\ Owned => SingleOwner
<1> SUFFICES ASSUME TypeOK, Owned PROVE SingleOwner
  OBVIOUS
<1>1. \A c \in PooledConns : \E h \in Hosts : \E i \in DOMAIN pool[h] : pool[h][i] = c
  BY DEF PooledConns, ToSet
<1> QED
  BY <1>1 DEF Owned, SingleOwner

\* A connection in use or in the pool was made to the host it is used or pooled for.
LEMMA HostStep ==
  ASSUME OwnHost, Linked, Replied, Fresh, [Next]_vars
  PROVE  OwnHost'
<1> USE ClientConstants
<1> DEFINE HostOfUse == \A a \in Calls : using[a] # NoConn => hostOf[using[a]] = req[a].host
           HostOfPool == \A h \in Hosts : \A i \in DOMAIN pool[h] : hostOf[pool[h][i]] = h
<1>1. TypeOK /\ HostOfUse /\ HostOfPool
  BY DEF OwnHost, ToSet
<1> SUFFICES HostOfUse' /\ HostOfPool'
  BY <1>1, TypeStep DEF OwnHost, ToSet
<1>2. CASE Kept
  BY <1>1, <1>2 DEF Kept
<1>3. ASSUME NEW a \in Calls, Hits(a) PROVE HostOfUse' /\ HostOfPool'
  <2>1. /\ \A b \in Calls : b # a => using'[b] = using[b]
        /\ UNCHANGED <<req, hostOf>>
        /\ Key(a) \in Hosts
    BY <1>1, <1>3 DEF Hits, TypeOK, peers
  <2>2. using'[a] = pool[Key(a)][Len(pool[Key(a)])] /\ Len(pool[Key(a)]) \in DOMAIN pool[Key(a)]
    BY <1>1, <1>3, PoolPopped
  <2>3. hostOf[using'[a]] = req[a].host
    BY <1>1, <2>1, <2>2 DEF Key
  <2>4. HostOfUse'
    BY <1>1, <2>1, <2>3
  <2>5. HostOfPool'
    BY <1>1, <1>3, <2>1, PoolPopped
  <2> QED
    BY <2>4, <2>5
<1>4. ASSUME NEW a \in Calls, Completes(a), Reusable(Head(wire[using[a]]))
      PROVE  HostOfUse' /\ HostOfPool'
  <2>1. /\ using'[a] = NoConn
        /\ \A b \in Calls : b # a => using'[b] = using[b]
        /\ UNCHANGED <<req, hostOf>>
    BY <1>1, <1>4 DEF Completes, Finish, TypeOK
  <2>2. using[a] # NoConn /\ hostOf[using[a]] = Key(a)
    BY <1>1, <1>4, PoolGiven DEF Key
  <2>3. HostOfUse'
    BY <1>1, <2>1
  <2>4. HostOfPool'
    BY <1>1, <1>4, <2>1, <2>2, PoolGiven
  <2> QED
    BY <2>3, <2>4
<1>5. ASSUME NEW a \in Calls, NEW c \in Conns, Connect(a, c) PROVE HostOfUse' /\ HostOfPool'
  <2>1. /\ using'[a] = c
        /\ \A b \in Calls : b # a => using'[b] = using[b]
        /\ conn[c] = "unmade"
        /\ hostOf'[c] = req[a].host /\ \A d \in Conns : d # c => hostOf'[d] = hostOf[d]
        /\ UNCHANGED <<req, pool>>
    BY <1>1, <1>5 DEF Connect, TypeOK, pooling
  <2>2. \A h \in Hosts : \A i \in DOMAIN pool[h] : pool[h][i] \in Conns
    BY <1>1 DEF TypeOK
  <2>3. \A b \in Calls : using[b] \in Conns \cup {NoConn}
    BY <1>1 DEF TypeOK
  <2>4. HostOfUse'
    BY <1>1, <2>1, <2>3 DEF Fresh
  <2>5. HostOfPool'
    BY <1>1, <2>1, <2>2 DEF Fresh
  <2> QED
    BY <2>4, <2>5
<1>6. CASE Close
  <2>1. \A h \in Hosts : \A i \in DOMAIN pool'[h] : FALSE
    BY <1>6 DEF Close
  <2>2. UNCHANGED <<using, hostOf, req>>
    BY <1>6 DEF Close, link, peers
  <2> QED
    BY <1>1, <2>1, <2>2
<1> QED
  BY <1>1, <1>2, <1>3, <1>4, <1>5, <1>6, MostlyKept

-----------------------------------------------------------------------------
(* What has been read. *)

\* A response that has been read in part stays until it is read to its end.
LEMMA RepliedStep ==
  ASSUME TypeOK, Linked, Replied, Owned, [Next]_vars
  PROVE  Replied'
<1> USE ClientConstants
<1>1. ASSUME UNCHANGED <<using, got, reply>>,
             \A c \in Conns : wire[c] # <<>> => wire'[c] # <<>>,
             \A a \in Calls : \/ pc'[a] = pc[a]
                              \/ pc[a] # "read" /\ pc'[a] \in {"take", "error"}
                              \/ pc[a] = "decide" /\ pc'[a] = "ok"
      PROVE  Replied'
  <2>1. \A a \in Calls : pc[a] = "read" => using[a] \in Conns
    BY InExchange
  <2> QED
    BY <1>1, <2>1 DEF Replied
<1>2. ASSUME NEW a \in Calls, NEW m \in Methods, NEW h \in Hosts, NEW follow \in Follow,
             Begin(a, m, h, follow)
      PROVE  Replied'
  BY <1>1, <1>2 DEF Begin, Goto, TypeOK, link, server
<1>3. ASSUME NEW a \in Calls, Halts(a) PROVE Replied'
  BY <1>1, <1>3 DEF Halts, Goto, TypeOK, link, server
<1>4. ASSUME NEW a \in Calls, Misses(a) \/ Hits(a) PROVE Replied'
  <2>1. /\ pc[a] = "take" /\ pc'[a] \in {"connect", "write"}
        /\ \A b \in Calls : b # a => pc'[b] = pc[b] /\ using'[b] = using[b]
        /\ UNCHANGED <<got, reply, wire>>
    BY <1>4 DEF Misses, Hits, Goto, TypeOK, link, server
  <2> QED
    BY <2>1 DEF Replied
<1>5. ASSUME NEW a \in Calls, Redirect(a) PROVE Replied'
  <2>1. /\ pc[a] = "decide" /\ pc'[a] = "take"
        /\ \A b \in Calls : b # a => pc'[b] = pc[b] /\ reply'[b] = reply[b]
        /\ UNCHANGED <<got, using, wire>>
    BY <1>5 DEF Redirect, Goto, TypeOK, link, server
  <2> QED
    BY <2>1 DEF Replied
<1>6. ASSUME NEW a \in Calls, Write(a) PROVE Replied'
  <2>1. /\ pc[a] = "write" /\ pc'[a] = "read"
        /\ \A b \in Calls : b # a => pc'[b] = pc[b]
        /\ UNCHANGED <<got, using, reply, wire>>
    BY <1>6 DEF Write, Goto, TypeOK, link
  <2> QED
    BY <2>1 DEF Replied
<1>7. ASSUME NEW a \in Calls, ReadPart(a) PROVE Replied'
  <2>1. /\ pc[a] = "read" /\ wire[using[a]] # <<>>
        /\ \A b \in Calls : b # a => got'[b] = got[b]
        /\ UNCHANGED <<pc, using, reply, wire>>
    BY <1>7 DEF ReadPart, TypeOK, server
  <2> QED
    BY <2>1 DEF Replied
<1>8. ASSUME NEW a \in Calls, Leaves(a) PROVE Replied'
  <2>1. /\ pc'[a] \in {"connect", "error"} /\ got'[a] = 0
        /\ \A b \in Calls : b # a => pc'[b] = pc[b] /\ using'[b] = using[b] /\ got'[b] = got[b]
        /\ UNCHANGED <<reply, wire>>
    BY <1>8 DEF Leaves, GiveUp, RetryFrom, Goto, TypeOK, server
  <2> QED
    BY <2>1 DEF Replied
<1>9. ASSUME NEW a \in Calls, Completes(a) PROVE Replied'
  <2>1. pc[a] = "read" /\ using[a] \in Conns
    BY <1>9, InExchange DEF Completes
  <2>2. Head(wire[using[a]]) \in Responses
    BY <1>9, <2>1 DEF Completes, TypeOK
  <2>3. /\ pc'[a] = "decide" /\ reply'[a] = Head(wire[using[a]]) /\ got'[a] = 0
        /\ \A b \in Calls : b # a => /\ pc'[b] = pc[b] /\ using'[b] = using[b]
                                      /\ reply'[b] = reply[b] /\ got'[b] = got[b]
    BY <1>9 DEF Completes, Finish, Goto, TypeOK
  <2>4. \A c \in Conns : c # using[a] => wire'[c] = wire[c]
    BY <1>9 DEF Completes, TypeOK
  <2>5. \A b \in Calls : b # a /\ pc[b] = "read" => using[b] \in Conns /\ using[b] # using[a]
    BY <2>1, InExchange DEF Owned
  <2> QED
    BY <2>2, <2>3, <2>4, <2>5 DEF Replied
<1>10. ASSUME NEW a \in Calls, NEW c \in Conns, Connect(a, c) PROVE Replied'
  <2>1. /\ pc[a] = "connect" /\ pc'[a] = "write"
        /\ \A b \in Calls : b # a => pc'[b] = pc[b] /\ using'[b] = using[b]
        /\ UNCHANGED <<got, reply, wire>>
    BY <1>10 DEF Connect, Goto, TypeOK, server
  <2> QED
    BY <2>1 DEF Replied
<1>11. CASE Close
  BY <1>1, <1>11 DEF Close, link, server
<1>12. ASSUME NEW c \in Conns, CloseOne(c) \/ ServerClose(c) PROVE Replied'
  BY <1>1, <1>12 DEF CloseOne, ServerClose, link, server
<1>13. ASSUME NEW c \in Conns, ServerHint(c) PROVE Replied'
  <2>1. \A d \in Conns : wire[d] # <<>> => wire'[d] # <<>>
    BY <1>13 DEF ServerHint, TypeOK
  <2> QED
    BY <1>1, <1>13, <2>1 DEF ServerHint, link
<1>14. ASSUME NEW c \in Conns, NEW code \in Codes, NEW location \in Locations,
              NEW framing \in Framings, ServerRun(c, code, location, framing)
       PROVE  Replied'
  <2>1. \A d \in Conns : wire[d] # <<>> => wire'[d] # <<>>
    <3>1. PICK m \in Responses : wire' = wire \/ wire' = [wire EXCEPT ![c] = Append(wire[c], m)]
      BY <1>14, RunWire
    <3>2. wire[c] \in Seq(Responses)
      BY DEF TypeOK
    <3>3. Append(wire[c], m) # <<>>
      BY <3>2
    <3> QED
      BY <3>1, <3>3 DEF TypeOK
  <2> QED
    BY <1>1, <1>14, <2>1 DEF ServerRun, link
<1>15. CASE UNCHANGED vars
  BY <1>1, <1>15 DEF vars, link, server
<1> QED
  BY <1>2, <1>3, <1>4, <1>5, <1>6, <1>7, <1>8, <1>9, <1>10, <1>11, <1>12, <1>13, <1>14, <1>15,
     StepCases

-----------------------------------------------------------------------------
(* What the server has received. *)

\* An interim response leaves the requests where and what they are.
LEMMA HintedInbox ==
  ASSUME TypeOK, NEW c \in Conns, ServerHint(c)
  PROVE  \A d \in Conns :
           /\ DOMAIN inbox'[d] = DOMAIN inbox[d]
           /\ \A i \in DOMAIN inbox[d] :
                /\ inbox'[d][i].call = inbox[d][i].call /\ inbox'[d][i].hop = inbox[d][i].hop
                /\ inbox'[d][i].body = inbox[d][i].body /\ inbox'[d][i].length = inbox[d][i].length
<1> DEFINE r == [inbox[c][1] EXCEPT !.hinted = TRUE]
           s == [inbox[c] EXCEPT ![1] = r]
<1>1. inbox[c] \in Seq(Requests) /\ inbox[c][1] \in Requests
  BY DEF ServerHint, TypeOK
<1>2. inbox' = [inbox EXCEPT ![c] = s]
  BY DEF ServerHint
<1>3. /\ r.call = inbox[c][1].call /\ r.hop = inbox[c][1].hop
      /\ r.body = inbox[c][1].body /\ r.length = inbox[c][1].length
  BY <1>1 DEF Requests
<1> HIDE DEF r
<1>4. DOMAIN s = DOMAIN inbox[c] /\ \A i \in DOMAIN inbox[c] : s[i] = IF i = 1 THEN r ELSE inbox[c][i]
  BY <1>1
<1> HIDE DEF s
<1>5. \A d \in Conns : inbox'[d] = IF d = c THEN s ELSE inbox[d]
  BY <1>2 DEF TypeOK
<1> QED
  BY <1>3, <1>4, <1>5

\* When the server acts on its first request, the others move up.
LEMMA RunInbox ==
  ASSUME TypeOK, NEW c \in Conns, NEW code, NEW location, NEW framing,
         ServerRun(c, code, location, framing)
  PROVE  /\ inbox[c] \in Seq(Requests) /\ inbox[c] # <<>>
         /\ \A d \in Conns : d # c => inbox'[d] = inbox[d]
         /\ inbox'[c] \in Seq(Requests) /\ Len(inbox'[c]) = Len(inbox[c]) - 1
         /\ \A i \in DOMAIN inbox'[c] : i + 1 \in DOMAIN inbox[c] /\ inbox'[c][i] = inbox[c][i + 1]
<1>1. inbox[c] \in Seq(Requests) /\ inbox[c] # <<>>
  BY DEF ServerRun, TypeOK
<1>2. \A d \in Conns : inbox'[d] = IF d = c THEN Tail(inbox[c]) ELSE inbox[d]
  BY DEF ServerRun, TypeOK
<1>3. /\ Tail(inbox[c]) \in Seq(Requests) /\ Len(Tail(inbox[c])) = Len(inbox[c]) - 1
      /\ \A i \in DOMAIN Tail(inbox[c]) : i + 1 \in DOMAIN inbox[c] /\ Tail(inbox[c])[i] = inbox[c][i + 1]
  BY <1>1
<1> QED
  BY <1>1, <1>2, <1>3

-----------------------------------------------------------------------------
(* Bodies. *)

\* A redirect that changes the method makes it GET.
LEMMA MethodChange ==
  ASSUME NEW m, NEW code, NextMethod(m, code) # m
  PROVE  NextMethod(m, code) = "GET"
  BY DEF NextMethod

\* A call has the body and the headers about it that its method calls for.
BodyAsked ==
  \A a \in Calls :
    req[a].body <=> orig[a].method \in {"POST", "PUT"} /\ req[a].method = orig[a].method

\* What the server has received announces the body it carries.
BodySent == \A c \in Conns : \A i \in DOMAIN inbox[c] : inbox[c][i].length <=> inbox[c][i].body

\* A redirect drops the body together with the headers about it, and a server sees
\* the headers it was sent.
LEMMA BodyStep ==
  ASSUME TypeOK, Linked, Replied, Announced, BodyAsked, BodySent, [Next]_vars
  PROVE  Announced' /\ BodyAsked' /\ BodySent'
<1> USE ClientConstants
<1>1. ASSUME UNCHANGED <<req, orig>> PROVE Announced' /\ BodyAsked'
  BY <1>1 DEF Announced, BodyAsked
<1>2. ASSUME UNCHANGED inbox PROVE BodySent'
  BY <1>2 DEF BodySent
<1>3. ASSUME NEW a \in Calls, NEW m \in Methods, NEW h \in Hosts, NEW follow \in Follow,
             Begin(a, m, h, follow)
      PROVE  Announced' /\ BodyAsked' /\ BodySent'
  <2>1. /\ \A b \in Calls : b # a => req'[b] = req[b] /\ orig'[b] = orig[b]
        /\ req'[a].method = m /\ orig'[a].method = m
        /\ req'[a].body <=> m \in {"POST", "PUT"}
        /\ req'[a].headers <=> m \in {"POST", "PUT"}
    <3> DEFINE body == m \in {"POST", "PUT"}
               r == [method |-> m, body |-> body, headers |-> body, host |-> h, hop |-> 0]
    <3>1. req' = [req EXCEPT ![a] = r] /\ orig' = [orig EXCEPT ![a] = [method |-> m, follow |-> follow]]
      BY <1>3 DEF Begin
    <3>2. r.method = m /\ (r.body <=> m \in {"POST", "PUT"}) /\ (r.headers <=> m \in {"POST", "PUT"})
      OBVIOUS
    <3> HIDE DEF r
    <3>3. req'[a] = r /\ orig'[a].method = m
      BY <3>1 DEF TypeOK
    <3>4. \A b \in Calls : b # a => req'[b] = req[b] /\ orig'[b] = orig[b]
      BY <3>1 DEF TypeOK
    <3> QED
      BY <3>2, <3>3, <3>4, Zenon
  <2>2. Announced' /\ BodyAsked'
    BY <2>1 DEF Announced, BodyAsked
  <2> QED
    BY <1>2, <1>3, <2>2 DEF Begin, server
<1>4. ASSUME NEW a \in Calls,
             Halts(a) \/ Misses(a) \/ Hits(a) \/ ReadPart(a) \/ Leaves(a) \/ Completes(a)
      PROVE  Announced' /\ BodyAsked' /\ BodySent'
  BY <1>1, <1>2, <1>4 DEF Halts, Misses, Hits, ReadPart, Leaves, GiveUp, Completes, Finish, server
<1>5. ASSUME NEW a \in Calls, Redirect(a) PROVE Announced' /\ BodyAsked' /\ BodySent'
  <2> DEFINE m == NextMethod(req[a].method, reply[a].code)
  <2>1. /\ \A b \in Calls : b # a => req'[b] = req[b]
        /\ req'[a].method = m
        /\ req'[a].body <=> req[a].body /\ m = req[a].method
        /\ req'[a].headers <=> req[a].headers /\ m = req[a].method
        /\ UNCHANGED orig
    <3> DEFINE body == req[a].body /\ m = req[a].method
               headers == IF m = req[a].method THEN req[a].headers ELSE FALSE
               r == [method |-> m, body |-> body, headers |-> headers,
                     host |-> reply[a].location, hop |-> req[a].hop + 1]
    <3>1. req' = [req EXCEPT ![a] = r] /\ UNCHANGED orig
      BY <1>5 DEF Redirect, Stripped, Counted
    <3>2. r.method = m /\ r.body = body /\ r.headers = headers
      OBVIOUS
    <3> HIDE DEF r
    <3>3. req'[a] = r /\ \A b \in Calls : b # a => req'[b] = req[b]
      BY <3>1 DEF TypeOK
    <3>4. headers <=> req[a].headers /\ m = req[a].method
      OBVIOUS
    <3>5. body <=> req[a].body /\ m = req[a].method
      OBVIOUS
    <3> HIDE DEF m, headers, body
    <3>6. req'[a].method = m
      BY <3>2, <3>3, Zenon
    <3>7. req'[a].body = body
      BY <3>2, <3>3, Zenon
    <3>8. req'[a].headers = headers
      BY <3>2, <3>3, Zenon
    <3>9. req'[a].body <=> req[a].body /\ m = req[a].method
      BY ONLY <3>5, <3>7, Zenon
    <3>10. req'[a].headers <=> req[a].headers /\ m = req[a].method
      BY ONLY <3>4, <3>8, Zenon
    <3>11. \A b \in Calls : b # a => req'[b] = req[b]
      BY <3>3, Zenon
    <3> QED
      BY <3>1, <3>6, <3>9, <3>10, <3>11, Zenon
  <2>2. m # req[a].method => m = "GET"
    BY MethodChange
  <2> HIDE DEF m
  <2>3. Announced' /\ BodyAsked'
    BY <2>1, <2>2 DEF Announced, BodyAsked
  <2> QED
    BY <1>2, <1>5, <2>3 DEF Redirect, server
<1>6. ASSUME NEW a \in Calls, Write(a) PROVE Announced' /\ BodyAsked' /\ BodySent'
  <2> DEFINE q == BuildRequest(a)
  <2>1. using[a] \in Conns
    BY <1>6, InExchange DEF Write
  <2>2. q.length <=> q.body
    BY DEF BuildRequest, Announced
  <2>3. inbox' = inbox \/ inbox' = [inbox EXCEPT ![using[a]] = Append(inbox[using[a]], q)]
    BY <1>6 DEF Write
  <2> HIDE DEF q
  <2>4. inbox[using[a]] \in Seq(Requests)
    BY <2>1 DEF TypeOK
  <2>5. \A i \in DOMAIN Append(inbox[using[a]], q) :
          \/ i \in DOMAIN inbox[using[a]] /\ Append(inbox[using[a]], q)[i] = inbox[using[a]][i]
          \/ Append(inbox[using[a]], q)[i] = q
    BY <2>4
  <2>6. BodySent'
    <3>1. CASE inbox' = inbox
      BY <1>2, <3>1
    <3>2. CASE inbox' = [inbox EXCEPT ![using[a]] = Append(inbox[using[a]], q)]
      <4>1. /\ inbox'[using[a]] = Append(inbox[using[a]], q)
            /\ \A c \in Conns : c # using[a] => inbox'[c] = inbox[c]
        BY <2>1, <3>2 DEF TypeOK
      <4> QED
        <5>1. ASSUME NEW i \in DOMAIN Append(inbox[using[a]], q)
              PROVE  Append(inbox[using[a]], q)[i].length <=> Append(inbox[using[a]], q)[i].body
          BY <2>1, <2>2, <2>5 DEF BodySent
        <5>2. ASSUME NEW c \in Conns, NEW i \in DOMAIN inbox'[c]
              PROVE  inbox'[c][i].length <=> inbox'[c][i].body
          <6>1. CASE c = using[a]
            BY <4>1, <5>1, <6>1, ZenonT(30)
          <6>2. CASE c # using[a]
            BY <4>1, <6>2 DEF BodySent
          <6> QED
            BY <6>1, <6>2
        <5> QED
          BY <5>2 DEF BodySent
    <3> QED
      BY <2>3, <3>1, <3>2
  <2> QED
    BY <1>1, <1>6, <2>6 DEF Write
<1>7. ASSUME NEW a \in Calls, NEW c \in Conns, Connect(a, c)
      PROVE  Announced' /\ BodyAsked' /\ BodySent'
  BY <1>1, <1>2, <1>7 DEF Connect, server
<1>8. CASE Close
  BY <1>1, <1>2, <1>8 DEF Close, server
<1>9. ASSUME NEW c \in Conns, CloseOne(c) \/ ServerClose(c)
      PROVE  Announced' /\ BodyAsked' /\ BodySent'
  BY <1>1, <1>2, <1>9 DEF CloseOne, ServerClose, server
<1>10. ASSUME NEW c \in Conns, ServerHint(c) PROVE Announced' /\ BodyAsked' /\ BodySent'
  <2>1. BodySent'
    BY <1>10, HintedInbox DEF BodySent
  <2> QED
    BY <1>1, <1>10, <2>1 DEF ServerHint
<1>11. ASSUME NEW c \in Conns, NEW code \in Codes, NEW location \in Locations,
              NEW framing \in Framings, ServerRun(c, code, location, framing)
       PROVE  Announced' /\ BodyAsked' /\ BodySent'
  <2>1. BodySent'
    BY <1>11, RunInbox DEF BodySent
  <2> QED
    BY <1>1, <1>11, <2>1 DEF ServerRun
<1>12. CASE UNCHANGED vars
  BY <1>1, <1>2, <1>12 DEF vars, server
<1> QED
  BY <1>3, <1>4, <1>5, <1>6, <1>7, <1>8, <1>9, <1>10, <1>11, <1>12, StepCases

-----------------------------------------------------------------------------
(* The invariant, and what follows from it. *)

\* The client starts with nothing.
LEMMA ClientInit == Init => ClientInv
<1> SUFFICES ASSUME Init PROVE ClientInv
  OBVIOUS
<1> USE ClientConstants
<1>1. TypeOK
  <2>1. [method |-> "GET", body |-> FALSE, headers |-> FALSE, host |-> Plain, hop |-> 0]
          \in [method : Methods \cup {"GET"}, body : BOOLEAN, headers : BOOLEAN,
               host : Locations, hop : 0 .. MaxRedirects]
    BY DEF Locations
  <2>2. <<>> \in Seq(Conns) /\ <<>> \in Seq(Requests) /\ <<>> \in Seq(Responses)
    OBVIOUS
  <2> QED
    BY <2>1, <2>2 DEF Init, TypeOK
<1>2. \A h \in Hosts : pool[h] = <<>> /\ DOMAIN pool[h] = {} /\ ToSet(pool[h]) = {}
  BY DEF Init, ToSet
<1>3. Linked /\ Fresh /\ Owned /\ Replied
  BY <1>2 DEF Init, Linked, Fresh, Owned, Replied
<1>4. OwnHost
  BY <1>1, <1>2 DEF Init, OwnHost
<1>5. Announced /\ BodyWithMethod
  BY DEF Init, Announced, BodyWithMethod
<1> QED
  BY <1>1, <1>3, <1>4, <1>5 DEF ClientInv

\* A step of a call, of close() or of the server keeps the invariant.
LEMMA ClientStep == ClientInv /\ [Next]_vars => ClientInv'
<1> SUFFICES ASSUME ClientInv, [Next]_vars PROVE ClientInv'
  OBVIOUS
<1>1. TypeOK /\ Linked /\ Owned /\ Fresh /\ OwnHost /\ Replied /\ Announced /\ BodyAsked /\ BodySent
  BY DEF ClientInv, BodyWithMethod, BodyAsked, BodySent
<1>2. TypeOK' /\ Linked' /\ Replied'
  BY <1>1, TypeStep, LinkedStep, RepliedStep
<1>3. Owned' /\ Fresh' /\ OwnHost'
  BY <1>1, OwnedStep, HostStep
<1>4. Announced' /\ BodyAsked' /\ BodySent'
  BY <1>1, BodyStep
<1> QED
  BY <1>2, <1>3, <1>4 DEF ClientInv, BodyWithMethod, BodyAsked, BodySent

\* The invariant holds of Client and AsyncClient whatever the calls, the hosts and
\* the server do.
THEOREM ClientInvariant == Spec => []ClientInv
  BY ClientInit, ClientStep, PTL DEF Spec

\* Client and AsyncClient give a connection to one owner at a time: one call of
\* request(), one place in the pool, or close().
THEOREM OneOwner == Spec => []SingleOwner
<1>1. ClientInv => SingleOwner
  BY OwnedIsSingle DEF ClientInv
<1> QED
  BY <1>1, ClientInvariant, PTL

\* The pool of Client and AsyncClient never mixes hosts, whatever the redirects.
THEOREM HostsNeverMix == Spec => []OwnHost
<1>1. ClientInv => OwnHost
  BY DEF ClientInv
<1> QED
  BY <1>1, ClientInvariant, PTL

\* The redirect loop of request() sends the body with the caller's method and with
\* no other, and announces it exactly then.
THEOREM BodiesFollowMethods == Spec => []BodyWithMethod
<1>1. ClientInv => BodyWithMethod
  BY DEF ClientInv
<1> QED
  BY <1>1, ClientInvariant, PTL

-----------------------------------------------------------------------------
(* Requests and responses: the invariants. *)

\* A request of call a and hop n waits for the server on connection c.
Has(c, a, n) == \E i \in DOMAIN inbox[c] : inbox[c][i].call = a /\ inbox[c][i].hop = n

\* The connections on which it waits.
Waiting(a, n) == {c \in Conns : Has(c, a, n)}

\* How often the request of the current hop may have been sent.
Sent(a) ==
  CASE pc[a] \in {"idle", "take"} -> 0
    [] pc[a] = "connect" -> 1
    [] pc[a] = "write" -> IF reused[a] THEN 0 ELSE 1
    [] pc[a] = "read" -> IF reused[a] THEN 1 ELSE 2
    [] OTHER -> 2

\* How often the request of hop n may have been sent.
Allowed(a, n) == IF n < req[a].hop THEN 2 ELSE IF n = req[a].hop THEN Sent(a) ELSE 0

\* A request waits on a connection once.
WaitsOnce ==
  \A c \in Conns : \A i, j \in DOMAIN inbox[c] :
    inbox[c][i].call = inbox[c][j].call /\ inbox[c][i].hop = inbox[c][j].hop => i = j

\* Nothing has been sent yet on a new connection, and by a new call.
SentNothing ==
  /\ \A a \in Calls : pc[a] = "write" /\ ~reused[a] => inbox[using[a]] = <<>>
  /\ \A a \in Calls : pc[a] = "idle" => req[a].hop = 0

\* What has been acted on and what still waits is no more than what has been sent.
Accounted ==
  \A a \in Calls, n \in 0 .. MaxRedirects :
    /\ IsFiniteSet(Waiting(a, n))
    /\ ran[<<a, n>>] + Cardinality(Waiting(a, n)) <= Allowed(a, n)

Retries == WaitsOnce /\ SentNothing /\ Accounted

\* Nothing is under way on a connection.
Quiet(c) == inbox[c] = <<>> /\ wire[c] = <<>>

\* On the connection of an exchange there is nothing before the request is written,
\* and then its request or its response or neither; the response it returns is its own.
ExchangeOf(a) ==
  /\ pc[a] = "write" => Quiet(using[a])
  /\ pc[a] = "read" =>
       LET c == using[a] IN
         /\ Len(inbox[c]) + Len(wire[c]) <= 1
         /\ \A i \in DOMAIN inbox[c] : inbox[c][i].call = a /\ inbox[c][i].hop = req[a].hop
         /\ \A i \in DOMAIN wire[c] : wire[c][i].call = a /\ wire[c][i].hop = req[a].hop
  /\ pc[a] \in {"decide", "ok"} => reply[a].call = a /\ reply[a].hop = req[a].hop

Exchanges ==
  /\ \A a \in Calls : ExchangeOf(a)
  /\ \A h \in Hosts : \A i \in DOMAIN pool[h] : Quiet(pool[h][i])

-----------------------------------------------------------------------------
(* Retries. *)

\* A write puts one request on the call's connection.
LEMMA WriteInbox ==
  ASSUME TypeOK, Linked, NEW a \in Calls, Write(a)
  PROVE  \/ UNCHANGED inbox
         \/ /\ using[a] \in Conns /\ inbox[using[a]] \in Seq(Requests)
            /\ \A d \in Conns : d # using[a] => inbox'[d] = inbox[d]
            /\ Len(inbox'[using[a]]) = Len(inbox[using[a]]) + 1
            /\ DOMAIN inbox'[using[a]] = 1 .. Len(inbox[using[a]]) + 1
            /\ \A i \in DOMAIN inbox[using[a]] : inbox'[using[a]][i] = inbox[using[a]][i]
            /\ LET q == inbox'[using[a]][Len(inbox[using[a]]) + 1] IN
                 q.call = a /\ q.hop = req[a].hop
<1> DEFINE q == BuildRequest(a)
           s == inbox[using[a]]
<1>1. using[a] \in Conns /\ s \in Seq(Requests)
  BY InExchange DEF Write, TypeOK
<1>2. q.call = a /\ q.hop = req[a].hop /\ q \in Requests
  BY DEF BuildRequest, Requests, TypeOK
<1>3. inbox' = inbox \/ inbox' = [inbox EXCEPT ![using[a]] = Append(s, q)]
  BY DEF Write
<1> HIDE DEF q
<1>4. /\ Len(Append(s, q)) = Len(s) + 1 /\ DOMAIN Append(s, q) = 1 .. Len(s) + 1
      /\ \A i \in DOMAIN s : Append(s, q)[i] = s[i]
      /\ Append(s, q)[Len(s) + 1] = q
  BY <1>1, <1>2
<1>5. CASE inbox' = [inbox EXCEPT ![using[a]] = Append(s, q)]
  <2>1. inbox'[using[a]] = Append(s, q) /\ \A d \in Conns : d # using[a] => inbox'[d] = inbox[d]
    BY <1>1, <1>5 DEF TypeOK
  <2> QED
    BY <1>1, <1>2, <1>4, <2>1
<1> QED
  BY <1>3, <1>5

\* Where requests wait after a write.
LEMMA WriteHas ==
  ASSUME TypeOK, Linked, NEW a \in Calls, Write(a), inbox' # inbox,
         NEW d \in Conns, NEW b, NEW n
  PROVE  Has(d, b, n)' <=> Has(d, b, n) \/ (d = using[a] /\ b = a /\ n = req[a].hop)
<1> PICK c \in Conns : c = using[a]
  BY InExchange DEF Write
<1> DEFINE k == Len(inbox[c]) + 1
<1>1. /\ c \in Conns /\ inbox[c] \in Seq(Requests)
      /\ \A e \in Conns : e # c => inbox'[e] = inbox[e]
      /\ DOMAIN inbox'[c] = 1 .. k
      /\ \A i \in DOMAIN inbox[c] : inbox'[c][i] = inbox[c][i]
      /\ inbox'[c][k].call = a /\ inbox'[c][k].hop = req[a].hop
  BY WriteInbox
<1>2. DOMAIN inbox[c] = 1 .. (k - 1) /\ k \in Nat /\ k >= 1
  BY <1>1
<1> HIDE DEF k
<1>3. CASE d # c
  BY <1>1, <1>3 DEF Has
<1>4. CASE d = c
  <2>1. Has(c, b, n)' <=> \E i \in 1 .. k : inbox'[c][i].call = b /\ inbox'[c][i].hop = n
    BY <1>1 DEF Has
  <2>2. Has(c, b, n) <=> \E i \in 1 .. (k - 1) : inbox[c][i].call = b /\ inbox[c][i].hop = n
    BY <1>2 DEF Has
  <2>3. \A i \in 1 .. k : i = k \/ (i \in 1 .. (k - 1) /\ inbox'[c][i] = inbox[c][i])
    BY <1>1, <1>2
  <2>4. k \in 1 .. k /\ \A i \in 1 .. (k - 1) : i \in 1 .. k /\ inbox'[c][i] = inbox[c][i]
    BY <1>1, <1>2
  <2> QED
    BY <1>1, <1>4, <2>1, <2>2, <2>3, <2>4
<1> QED
  BY <1>3, <1>4

\* Where requests wait after the server has acted on one.
LEMMA RunHas ==
  ASSUME TypeOK, WaitsOnce, NEW c \in Conns, NEW code, NEW location, NEW framing,
         ServerRun(c, code, location, framing), NEW d \in Conns, NEW b, NEW n
  PROVE  Has(d, b, n)' <=>
           Has(d, b, n) /\ ~(d = c /\ b = Head(inbox[c]).call /\ n = Head(inbox[c]).hop)
<1> DEFINE k == Len(inbox[c])
<1>1. /\ inbox[c] \in Seq(Requests) /\ inbox[c] # <<>>
      /\ \A e \in Conns : e # c => inbox'[e] = inbox[e]
      /\ inbox'[c] \in Seq(Requests) /\ Len(inbox'[c]) = k - 1
      /\ \A i \in DOMAIN inbox'[c] : i + 1 \in DOMAIN inbox[c] /\ inbox'[c][i] = inbox[c][i + 1]
  BY RunInbox
<1>2. /\ k \in Nat /\ k >= 1 /\ DOMAIN inbox[c] = 1 .. k /\ DOMAIN inbox'[c] = 1 .. (k - 1)
      /\ Head(inbox[c]) = inbox[c][1]
  BY <1>1
<1> HIDE DEF k
<1>3. CASE d # c
  BY <1>1, <1>3 DEF Has
<1>4. CASE d = c
  <2>1. ASSUME Has(c, b, n)' 
        PROVE  Has(c, b, n) /\ ~(b = inbox[c][1].call /\ n = inbox[c][1].hop)
    <3>1. PICK i \in 1 .. (k - 1) : inbox'[c][i].call = b /\ inbox'[c][i].hop = n
      BY <1>2, <2>1 DEF Has
    <3>2. i + 1 \in 1 .. k /\ i + 1 # 1 /\ 1 \in 1 .. k /\ inbox'[c][i] = inbox[c][i + 1]
      BY <1>1, <1>2, <3>1
    <3> QED
      BY <1>2, <3>1, <3>2 DEF Has, WaitsOnce
  <2>2. ASSUME Has(c, b, n), ~(b = inbox[c][1].call /\ n = inbox[c][1].hop)
        PROVE  Has(c, b, n)'
    <3>1. PICK i \in 1 .. k : inbox[c][i].call = b /\ inbox[c][i].hop = n
      BY <1>2, <2>2 DEF Has
    <3>2. i - 1 \in 1 .. (k - 1) /\ (i - 1) + 1 = i
      BY <1>2, <2>2, <3>1
    <3>3. inbox'[c][i - 1] = inbox[c][i]
      BY <1>1, <1>2, <3>2
    <3> QED
      BY <1>2, <3>1, <3>2, <3>3 DEF Has
  <2> QED
    BY <1>2, <1>4, <2>1, <2>2
<1> QED
  BY <1>3, <1>4

\* An interim response changes nothing there.
LEMMA HintHas ==
  ASSUME TypeOK, NEW c \in Conns, ServerHint(c), NEW d \in Conns, NEW b, NEW n
  PROVE  Has(d, b, n)' <=> Has(d, b, n)
  BY HintedInbox DEF Has

\* On a connection a request is never added while it waits there.
LEMMA WaitsOnceStep ==
  ASSUME TypeOK, Linked, Replied, Retries, [Next]_vars
  PROVE  WaitsOnce'
<1>1. ASSUME UNCHANGED inbox PROVE WaitsOnce'
  BY <1>1 DEF WaitsOnce, Retries
<1>9. ASSUME NEW c \in Conns, \A e \in Conns : e # c => inbox'[e] = inbox[e],
             \A i, j \in DOMAIN inbox'[c] :
               inbox'[c][i].call = inbox'[c][j].call /\ inbox'[c][i].hop = inbox'[c][j].hop => i = j
      PROVE  WaitsOnce'
  <2> SUFFICES ASSUME NEW e \in Conns, NEW i \in DOMAIN inbox'[e], NEW j \in DOMAIN inbox'[e],
                      inbox'[e][i].call = inbox'[e][j].call, inbox'[e][i].hop = inbox'[e][j].hop
               PROVE  i = j
    BY DEF WaitsOnce
  <2>1. CASE e = c
    BY <1>9, <2>1
  <2>2. CASE e # c
    <3>1. inbox'[e] = inbox[e]
      BY <1>9, <2>2
    <3> QED
      BY <3>1 DEF Retries, WaitsOnce
  <2> QED
    BY <2>1, <2>2
<1>2. ASSUME NEW a \in Calls, Write(a), inbox' # inbox PROVE WaitsOnce'
  <2> PICK c \in Conns : c = using[a]
    BY <1>2, InExchange DEF Write
  <2> DEFINE k == Len(inbox[c]) + 1
  <2>1. /\ c \in Conns /\ inbox[c] \in Seq(Requests)
        /\ \A e \in Conns : e # c => inbox'[e] = inbox[e]
        /\ DOMAIN inbox'[c] = 1 .. k
        /\ \A i \in DOMAIN inbox[c] : inbox'[c][i] = inbox[c][i]
        /\ inbox'[c][k].call = a /\ inbox'[c][k].hop = req[a].hop
    BY <1>2, WriteInbox
  <2>2. ~Has(c, a, req[a].hop)
    <3>1. CASE ~reused[a]
      BY <1>2, <3>1 DEF Has, Write, Retries, SentNothing
    <3>2. CASE reused[a]
      <4>1. Allowed(a, req[a].hop) = 0
        BY <1>2, <3>2 DEF Allowed, Sent, Write, TypeOK
      <4>2. req[a].hop \in 0 .. MaxRedirects /\ ran[<<a, req[a].hop>>] \in Nat
        BY DEF TypeOK
      <4>3. /\ IsFiniteSet(Waiting(a, req[a].hop))
            /\ ran[<<a, req[a].hop>>] + Cardinality(Waiting(a, req[a].hop)) <= 0
        BY <4>1, <4>2 DEF Retries, Accounted
      <4>4. Cardinality(Waiting(a, req[a].hop)) = 0
        BY <4>2, <4>3, FS_CardinalityType
      <4>5. Waiting(a, req[a].hop) = {}
        BY <4>3, <4>4, FS_EmptySet
      <4> QED
        BY <2>1, <4>5 DEF Waiting
    <3> QED
      BY <3>1, <3>2
  <2>3. DOMAIN inbox[c] = 1 .. (k - 1) /\ k \in Nat /\ k >= 1
    BY <2>1
  <2>4. \A i \in DOMAIN inbox'[c] : i = k \/ (i \in DOMAIN inbox[c] /\ inbox'[c][i] = inbox[c][i])
    BY <2>1, <2>3
  <2>5. \A i, j \in DOMAIN inbox[c] :
          inbox[c][i].call = inbox[c][j].call /\ inbox[c][i].hop = inbox[c][j].hop => i = j
    BY <2>1 DEF Retries, WaitsOnce
  <2>6. \A i \in DOMAIN inbox[c] : ~(inbox[c][i].call = a /\ inbox[c][i].hop = req[a].hop)
    BY <2>2 DEF Has
  <2> HIDE DEF k
  <2>7. \A i, j \in DOMAIN inbox'[c] :
          inbox'[c][i].call = inbox'[c][j].call /\ inbox'[c][i].hop = inbox'[c][j].hop => i = j
    BY <2>1, <2>4, <2>5, <2>6
  <2> QED
    BY <1>9, <2>1, <2>7
<1>3. ASSUME NEW c \in Conns, ServerHint(c) PROVE WaitsOnce'
  BY <1>3, HintedInbox DEF Retries, WaitsOnce
<1>4. ASSUME NEW c \in Conns, NEW code \in Codes, NEW location \in Locations,
             NEW framing \in Framings, ServerRun(c, code, location, framing)
      PROVE  WaitsOnce'
  <2>1. /\ inbox'[c] \in Seq(Requests)
        /\ \A e \in Conns : e # c => inbox'[e] = inbox[e]
        /\ \A i \in DOMAIN inbox'[c] : i + 1 \in DOMAIN inbox[c] /\ inbox'[c][i] = inbox[c][i + 1]
    BY <1>4, RunInbox
  <2>2. \A i, j \in DOMAIN inbox'[c] : i + 1 = j + 1 => i = j
    BY <2>1
  <2>3. \A i, j \in DOMAIN inbox'[c] :
          inbox'[c][i].call = inbox'[c][j].call /\ inbox'[c][i].hop = inbox'[c][j].hop => i = j
    <3> SUFFICES ASSUME NEW i \in DOMAIN inbox'[c], NEW j \in DOMAIN inbox'[c],
                        inbox'[c][i].call = inbox'[c][j].call, inbox'[c][i].hop = inbox'[c][j].hop
                 PROVE  i = j
      OBVIOUS
    <3>1. i + 1 \in DOMAIN inbox[c] /\ j + 1 \in DOMAIN inbox[c]
      BY <2>1
    <3>2. inbox[c][i + 1].call = inbox[c][j + 1].call /\ inbox[c][i + 1].hop = inbox[c][j + 1].hop
      BY <2>1
    <3>3. i + 1 = j + 1
      BY <3>1, <3>2 DEF Retries, WaitsOnce
    <3> QED
      BY <2>2, <3>3
  <2> QED
    BY <1>9, <2>1, <2>3
<1>5. ASSUME NEW a \in Calls,
             \/ Halts(a) \/ Misses(a) \/ Hits(a) \/ Redirect(a) \/ ReadPart(a) \/ Leaves(a)
             \/ Completes(a) \/ \E c \in Conns : Connect(a, c)
      PROVE  UNCHANGED inbox
  BY <1>5 DEF Halts, Misses, Hits, Redirect, ReadPart, Leaves, Completes, Connect, server
<1>6. ASSUME NEW a \in Calls, NEW m \in Methods, NEW h \in Hosts, NEW follow \in Follow,
             Begin(a, m, h, follow)
      PROVE  UNCHANGED inbox
  BY <1>6 DEF Begin, server
<1>7. ASSUME NEW c \in Conns, CloseOne(c) \/ ServerClose(c) PROVE UNCHANGED inbox
  BY <1>7 DEF CloseOne, ServerClose, server
<1>8. CASE Close \/ UNCHANGED vars
  BY <1>1, <1>8 DEF Close, vars, server
<1> QED
  BY <1>1, <1>2, <1>3, <1>4, <1>5, <1>6, <1>7, <1>8, StepCases

\* What a new connection carries, and what a new call has sent, is nothing.
LEMMA SentNothingStep ==
  ASSUME ClientInv, Retries, [Next]_vars
  PROVE  SentNothing'
<1> USE ClientConstants
<1>1. TypeOK /\ Linked /\ Owned /\ Fresh /\ Replied /\ SentNothing
  BY DEF ClientInv, Retries
<1>2. ASSUME \A b \in Calls : pc'[b] = "write" /\ ~reused'[b] =>
               pc[b] = "write" /\ ~reused[b] /\ inbox'[using'[b]] = inbox[using[b]],
             \A b \in Calls : pc'[b] = "idle" => pc[b] = "idle" /\ req'[b] = req[b]
      PROVE  SentNothing'
  BY <1>1, <1>2 DEF SentNothing
<1>3. ASSUME NEW a \in Calls, pc'[a] \notin {"idle", "write"} \/ (pc'[a] = "write" /\ reused'[a]),
             \A b \in Calls : b # a => /\ pc'[b] = pc[b] /\ reused'[b] = reused[b]
                                       /\ using'[b] = using[b] /\ req'[b] = req[b],
             \A b \in Calls : b # a /\ pc[b] = "write" => inbox'[using[b]] = inbox[using[b]]
      PROVE  SentNothing'
  BY <1>2, <1>3
<1>4. ASSUME NEW a \in Calls, NEW m \in Methods, NEW h \in Hosts, NEW follow \in Follow,
             Begin(a, m, h, follow)
      PROVE  SentNothing'
  <2>1. /\ pc'[a] = "take"
        /\ \A b \in Calls : b # a => pc'[b] = pc[b] /\ req'[b] = req[b]
        /\ UNCHANGED <<reused, using, inbox>>
    BY <1>1, <1>4 DEF Begin, Goto, TypeOK, link, server
  <2> QED
    BY <1>3, <2>1
<1>5. ASSUME NEW a \in Calls, Halts(a) PROVE SentNothing'
  <2>1. /\ pc'[a] \in {"ok", "error"} /\ \A b \in Calls : b # a => pc'[b] = pc[b]
        /\ UNCHANGED <<req, reused, using, inbox>>
    BY <1>1, <1>5 DEF Halts, Goto, TypeOK, link, server
  <2> QED
    BY <1>3, <2>1
<1>6. ASSUME NEW a \in Calls, Misses(a) PROVE SentNothing'
  <2>1. /\ pc'[a] = "connect" /\ \A b \in Calls : b # a => pc'[b] = pc[b]
        /\ UNCHANGED <<req, reused, using, inbox>>
    BY <1>1, <1>6 DEF Misses, Goto, TypeOK, link, server
  <2> QED
    BY <1>3, <2>1
<1>7. ASSUME NEW a \in Calls, Hits(a) PROVE SentNothing'
  <2>1. /\ pc'[a] = "write" /\ reused'[a]
        /\ \A b \in Calls : b # a => pc'[b] = pc[b] /\ using'[b] = using[b] /\ reused'[b] = reused[b]
        /\ UNCHANGED <<req, inbox>>
    BY <1>1, <1>7 DEF Hits, Goto, TypeOK, server
  <2> QED
    BY <1>3, <2>1
<1>8. ASSUME NEW a \in Calls, Redirect(a) PROVE SentNothing'
  <2>1. /\ pc'[a] = "take"
        /\ \A b \in Calls : b # a => pc'[b] = pc[b] /\ req'[b] = req[b]
        /\ UNCHANGED <<reused, using, inbox>>
    BY <1>1, <1>8 DEF Redirect, Goto, TypeOK, link, server
  <2> QED
    BY <1>3, <2>1
<1>9. ASSUME NEW a \in Calls, Write(a) PROVE SentNothing'
  <2>1. /\ pc[a] = "write" /\ pc'[a] = "read" /\ \A b \in Calls : b # a => pc'[b] = pc[b]
        /\ UNCHANGED <<req, reused, using>>
    BY <1>1, <1>9 DEF Write, Goto, TypeOK, link
  <2>2. ASSUME NEW b \in Calls, b # a, pc[b] = "write" PROVE inbox'[using[b]] = inbox[using[b]]
    <3>1. using[b] \in Conns /\ using[b] # using[a] /\ using[a] \in Conns
      BY <1>1, <2>1, <2>2, InExchange DEF Owned
    <3> QED
      BY <1>1, <1>9, <3>1, WriteInbox
  <2> QED
    BY <1>3, <2>1, <2>2
<1>10. ASSUME NEW a \in Calls, ReadPart(a) PROVE SentNothing'
  BY <1>1, <1>10 DEF ReadPart, server, SentNothing
<1>11. ASSUME NEW a \in Calls, Leaves(a) PROVE SentNothing'
  <2>1. /\ pc'[a] \in {"connect", "error"}
        /\ \A b \in Calls : b # a => pc'[b] = pc[b] /\ using'[b] = using[b]
        /\ UNCHANGED <<req, reused, inbox>>
    BY <1>1, <1>11 DEF Leaves, GiveUp, RetryFrom, Goto, TypeOK, server
  <2> QED
    BY <1>3, <2>1
<1>12. ASSUME NEW a \in Calls, Completes(a) PROVE SentNothing'
  <2>1. /\ pc'[a] = "decide"
        /\ \A b \in Calls : b # a => pc'[b] = pc[b] /\ using'[b] = using[b]
        /\ UNCHANGED <<req, reused, inbox>>
    BY <1>1, <1>12 DEF Completes, Finish, Goto, TypeOK
  <2> QED
    BY <1>3, <2>1
<1>13. ASSUME NEW a \in Calls, NEW c \in Conns, Connect(a, c) PROVE SentNothing'
  <2>1. /\ pc'[a] = "write" /\ using'[a] = c /\ inbox'[c] = <<>>
        /\ \A b \in Calls : b # a => pc'[b] = pc[b] /\ using'[b] = using[b] /\ reused'[b] = reused[b]
        /\ UNCHANGED <<req, inbox>>
    BY <1>1, <1>13 DEF Connect, Goto, TypeOK, server, Fresh
  <2> QED
    BY <1>1, <2>1 DEF SentNothing
<1>14. CASE Close
  BY <1>2, <1>14 DEF Close, link, server
<1>15. ASSUME NEW c \in Conns, CloseOne(c) \/ ServerClose(c) PROVE SentNothing'
  BY <1>2, <1>15 DEF CloseOne, ServerClose, link, server
<1>16. ASSUME NEW c \in Conns, inbox[c] # <<>>, \A d \in Conns : d # c => inbox'[d] = inbox[d],
              UNCHANGED <<pc, req, reused, using>>
       PROVE  SentNothing'
  <2>1. \A b \in Calls : pc[b] = "write" => using[b] \in Conns
    BY <1>1, InExchange
  <2> QED
    BY <1>1, <1>16, <2>1 DEF SentNothing
<1>17. ASSUME NEW c \in Conns, ServerHint(c) PROVE SentNothing'
  <2>1. \A d \in Conns : d # c => inbox'[d] = inbox[d]
    BY <1>1, <1>17 DEF ServerHint, TypeOK
  <2> QED
    BY <1>16, <1>17, <2>1 DEF ServerHint, link
<1>18. ASSUME NEW c \in Conns, NEW code \in Codes, NEW location \in Locations,
              NEW framing \in Framings, ServerRun(c, code, location, framing)
       PROVE  SentNothing'
  <2>1. \A d \in Conns : d # c => inbox'[d] = inbox[d]
    BY <1>1, <1>18, RunInbox
  <2> QED
    BY <1>16, <1>18, <2>1 DEF ServerRun, link
<1>19. CASE UNCHANGED vars
  BY <1>2, <1>19 DEF vars, link, server
<1> QED
  BY <1>1, <1>4, <1>5, <1>6, <1>7, <1>8, <1>9, <1>10, <1>11, <1>12, <1>13, <1>14, <1>15, <1>17,
     <1>18, <1>19, StepCases

\* How often a request may have been sent is a number up to 2.
LEMMA SentRange ==
  ASSUME NEW a \in Calls
  PROVE  Sent(a) \in 0 .. 2
  BY DEF Sent

\* A request that may have been sent may have been sent afterwards; a write allows one more.
LEMMA AllowedStep ==
  ASSUME TypeOK, Linked, Replied, SentNothing, [Next]_vars,
         NEW b \in Calls, NEW n \in 0 .. MaxRedirects
  PROVE  /\ Allowed(b, n) \in 0 .. 2 /\ Allowed(b, n)' \in 0 .. 2
         /\ Allowed(b, n) <= Allowed(b, n)'
         /\ Write(b) /\ n = req[b].hop => Allowed(b, n)' = Allowed(b, n) + 1
<1> USE ClientConstants
<1>1. Sent(b) \in 0 .. 2
  BY SentRange
<1>2. Sent(b)' \in 0 .. 2
  BY DEF Sent
<1>3. req[b].hop \in 0 .. MaxRedirects
  BY DEF TypeOK
<1>4. req'[b].hop \in 0 .. MaxRedirects
  BY TypeStep DEF TypeOK
<1>5. Allowed(b, n) \in 0 .. 2 /\ Allowed(b, n)' \in 0 .. 2
  BY <1>1, <1>2, <1>3, <1>4 DEF Allowed
<1> SUFFICES /\ Allowed(b, n) <= Allowed(b, n)'
             /\ Write(b) /\ n = req[b].hop => Allowed(b, n)' = Allowed(b, n) + 1
  BY <1>5
<1> DEFINE Same == pc'[b] = pc[b] /\ reused'[b] = reused[b] /\ req'[b] = req[b]
           Grows == Allowed(b, n) <= Allowed(b, n)'
<1>6. ASSUME Same PROVE Grows
  BY <1>5, <1>6 DEF Allowed, Sent
<1>7. ASSUME req'[b] = req[b], Sent(b) <= Sent(b)' PROVE Grows
  BY <1>1, <1>2, <1>3, <1>7 DEF Allowed
<1>8. ASSUME NEW a \in Calls, Write(a)
      PROVE  Grows /\ (Write(b) /\ n = req[b].hop => Allowed(b, n)' = Allowed(b, n) + 1)
  <2>1. /\ pc[a] = "write" /\ pc'[a] = "read" /\ \A d \in Calls : d # a => pc'[d] = pc[d]
        /\ UNCHANGED <<req, reused>>
    BY <1>8 DEF Write, Goto, TypeOK, link
  <2>2. CASE b # a
    <3>1. ~Write(b)
      BY <2>1, <2>2 DEF Write, Goto, TypeOK
    <3> QED
      BY <1>6, <2>1, <2>2, <3>1
  <2>3. CASE b = a
    <3>1. Sent(a)' = Sent(a) + 1
      BY <2>1 DEF Sent
    <3> QED
      BY <1>1, <1>2, <1>3, <1>7, <2>1, <2>3, <3>1 DEF Allowed
  <2> QED
    BY <2>2, <2>3
<1>9. ASSUME ~Write(b), Grows
      PROVE  Grows /\ (Write(b) /\ n = req[b].hop => Allowed(b, n)' = Allowed(b, n) + 1)
  BY <1>9
<1>10. ASSUME \A a \in Calls : ~Write(a) PROVE Grows
  <2>1. ASSUME NEW a \in Calls, NEW m \in Methods, NEW h \in Hosts, NEW follow \in Follow,
               Begin(a, m, h, follow)
        PROVE  Grows
    <3>1. /\ pc[a] = "idle" /\ pc'[a] = "take" /\ req'[a].hop = 0
          /\ \A d \in Calls : d # a => pc'[d] = pc[d] /\ req'[d] = req[d]
          /\ UNCHANGED reused
      BY <2>1 DEF Begin, Goto, TypeOK, link
    <3>2. req[a].hop = 0
      BY <3>1 DEF SentNothing
    <3>3. CASE b = a
      <4>1. Sent(a) = 0
        BY <3>1 DEF Sent
      <4> QED
        BY <1>2, <1>5, <3>1, <3>2, <3>3, <4>1 DEF Allowed
    <3> QED
      BY <1>6, <3>1, <3>3
  <2>2. ASSUME NEW a \in Calls, Halts(a) \/ Completes(a) PROVE Grows
    <3>1. /\ pc'[a] \in {"ok", "error", "decide"} /\ \A d \in Calls : d # a => pc'[d] = pc[d]
          /\ UNCHANGED <<req, reused>>
      BY <2>2 DEF Halts, Completes, Finish, Goto, TypeOK, link
    <3>2. Sent(a)' = 2
      BY <3>1 DEF Sent
    <3> QED
      BY <1>1, <1>6, <1>7, <3>1, <3>2
  <2>3. ASSUME NEW a \in Calls, Misses(a) \/ Hits(a) PROVE Grows
    <3>1. /\ pc[a] = "take" /\ \A d \in Calls : d # a => pc'[d] = pc[d] /\ reused'[d] = reused[d]
          /\ UNCHANGED req
      BY <2>3 DEF Misses, Hits, Goto, TypeOK, link, pooling
    <3>2. Sent(a) = 0
      BY <3>1 DEF Sent
    <3> QED
      BY <1>2, <1>6, <1>7, <3>1, <3>2
  <2>4. ASSUME NEW a \in Calls, Redirect(a) PROVE Grows
    <3>1. /\ pc'[a] = "take" /\ req'[a].hop = req[a].hop + 1
          /\ \A d \in Calls : d # a => pc'[d] = pc[d] /\ req'[d] = req[d]
          /\ UNCHANGED reused
      BY <2>4 DEF Redirect, Goto, TypeOK, link, Counted
    <3>2. CASE b = a
      BY <1>1, <1>2, <1>3, <3>1, <3>2 DEF Allowed
    <3> QED
      BY <1>6, <3>1, <3>2
  <2>5. ASSUME NEW a \in Calls, ReadPart(a) PROVE Grows
    BY <1>6, <2>5 DEF ReadPart
  <2>6. ASSUME NEW a \in Calls, Leaves(a) PROVE Grows
    <3>1. /\ pc[a] \in {"write", "read"} /\ pc'[a] \in {"connect", "error"}
          /\ pc'[a] = "connect" => reused[a]
          /\ \A d \in Calls : d # a => pc'[d] = pc[d]
          /\ UNCHANGED <<req, reused>>
      BY <2>6 DEF Leaves, GiveUp, RetryFrom, Goto, TypeOK
    <3>2. Sent(a) <= Sent(a)'
      BY <3>1 DEF Sent
    <3> QED
      BY <1>6, <1>7, <3>1, <3>2
  <2>7. ASSUME NEW a \in Calls, NEW c \in Conns, Connect(a, c) PROVE Grows
    <3>1. /\ pc[a] = "connect" /\ pc'[a] = "write" /\ reused'[a] = FALSE
          /\ \A d \in Calls : d # a => pc'[d] = pc[d] /\ reused'[d] = reused[d]
          /\ UNCHANGED req
      BY <2>7 DEF Connect, Goto, TypeOK
    <3>2. Sent(a) <= Sent(a)'
      BY <3>1 DEF Sent
    <3> QED
      BY <1>6, <1>7, <3>1, <3>2
  <2>8. CASE Close \/ UNCHANGED vars
    BY <1>6, <2>8 DEF Close, vars, link
  <2>9. ASSUME NEW c \in Conns, CloseOne(c) \/ ServerClose(c) \/ ServerHint(c) PROVE Grows
    BY <1>6, <2>9 DEF CloseOne, ServerClose, ServerHint, link
  <2>10. ASSUME NEW c \in Conns, NEW code \in Codes, NEW location \in Locations,
                NEW framing \in Framings, ServerRun(c, code, location, framing)
         PROVE  Grows
    BY <1>6, <2>10 DEF ServerRun, link
  <2> HIDE DEF Grows
  <2> QED
    BY <1>10, <2>1, <2>2, <2>3, <2>4, <2>5, <2>6, <2>7, <2>8, <2>9, <2>10, StepCases
<1> QED
  BY <1>8, <1>9, <1>10

\* What has been acted on and what waits stays within what has been sent.
LEMMA AccountedStep ==
  ASSUME TypeOK, Linked, Replied, Retries, [Next]_vars
  PROVE  Accounted'
<1> USE ClientConstants
<1> SUFFICES ASSUME NEW b \in Calls, NEW n \in 0 .. MaxRedirects
             PROVE  /\ IsFiniteSet(Waiting(b, n)')
                    /\ ran'[<<b, n>>] + Cardinality(Waiting(b, n)') <= Allowed(b, n)'
  BY DEF Accounted
<1>1. IsFiniteSet(Waiting(b, n)) /\ ran[<<b, n>>] + Cardinality(Waiting(b, n)) <= Allowed(b, n)
  BY DEF Retries, Accounted
<1>2. ran[<<b, n>>] \in Nat /\ Cardinality(Waiting(b, n)) \in Nat
  BY <1>1, FS_CardinalityType DEF TypeOK
<1>3. /\ Allowed(b, n) \in 0 .. 2 /\ Allowed(b, n)' \in 0 .. 2 /\ Allowed(b, n) <= Allowed(b, n)'
      /\ Write(b) /\ n = req[b].hop => Allowed(b, n)' = Allowed(b, n) + 1
  BY AllowedStep DEF Retries
<1> DEFINE Goal == /\ IsFiniteSet(Waiting(b, n)')
                   /\ ran'[<<b, n>>] + Cardinality(Waiting(b, n)') <= Allowed(b, n)'
<1>4. ASSUME UNCHANGED ran, Waiting(b, n)' = Waiting(b, n) PROVE Goal
  BY <1>1, <1>2, <1>3, <1>4
<1>5. ASSUME UNCHANGED <<ran, inbox>> PROVE Goal
  BY <1>4, <1>5 DEF Waiting, Has
<1>6. ASSUME NEW a \in Calls, Write(a) PROVE Goal
  <2>1. UNCHANGED ran
    BY <1>6 DEF Write
  <2>2. CASE inbox' = inbox
    BY <1>5, <2>1, <2>2
  <2>3. CASE inbox' # inbox /\ b = a /\ n = req[a].hop
    <3>1. Waiting(b, n)' = Waiting(b, n) \cup {using[a]}
      <4>1. using[a] \in Conns
        BY <1>6, InExchange DEF Write
      <4> QED
        BY <1>6, <2>3, <4>1, WriteHas DEF Waiting
    <3>2. /\ IsFiniteSet(Waiting(b, n)')
          /\ Cardinality(Waiting(b, n)') \in {Cardinality(Waiting(b, n)), Cardinality(Waiting(b, n)) + 1}
      <4> DEFINE W == Waiting(b, n)
      <4>1. /\ IsFiniteSet(W \cup {using[a]})
            /\ Cardinality(W \cup {using[a]}) =
                 IF using[a] \in W THEN Cardinality(W) ELSE Cardinality(W) + 1
        BY <1>1, FS_AddElement, Zenon
      <4> QED
        BY <3>1, <4>1
    <3> QED
      BY <1>1, <1>2, <1>3, <1>6, <2>1, <2>3, <3>2
  <2>4. CASE inbox' # inbox /\ ~(b = a /\ n = req[a].hop)
    <3>1. Waiting(b, n)' = Waiting(b, n)
      BY <1>6, <2>4, WriteHas DEF Waiting
    <3> QED
      BY <1>4, <2>1, <3>1
  <2> QED
    BY <2>2, <2>3, <2>4
<1>7. ASSUME NEW c \in Conns, ServerHint(c) PROVE Goal
  <2>1. Waiting(b, n)' = Waiting(b, n)
    BY <1>7, HintHas DEF Waiting
  <2> QED
    BY <1>4, <1>7, <2>1 DEF ServerHint
<1>8. ASSUME NEW c \in Conns, NEW code \in Codes, NEW location \in Locations,
             NEW framing \in Framings, ServerRun(c, code, location, framing)
      PROVE  Goal
  <2> DEFINE q == Head(inbox[c])
  <2>1. inbox[c] \in Seq(Requests) /\ inbox[c] # <<>> /\ q = inbox[c][1] /\ 1 \in DOMAIN inbox[c]
    BY <1>8 DEF ServerRun, TypeOK
  <2>2. q.call \in Calls /\ q.hop \in 0 .. MaxRedirects
    <3>1. q \in Requests
      BY <2>1
    <3> HIDE DEF q
    <3> QED
      BY <3>1 DEF Requests
  <2>3. CASE b = q.call /\ n = q.hop
    <3>1. c \in Waiting(b, n)
      BY <2>1, <2>3 DEF Waiting, Has
    <3>2. Waiting(b, n)' = Waiting(b, n) \ {c}
      BY <1>8, <2>3, RunHas DEF Waiting, Retries
    <3>3. IsFiniteSet(Waiting(b, n)') /\ Cardinality(Waiting(b, n)') = Cardinality(Waiting(b, n)) - 1
      BY <1>1, <3>1, <3>2, FS_RemoveElement
    <3>4. ran'[<<b, n>>] \in {ran[<<b, n>>], ran[<<b, n>>] + 1}
      BY <1>8, <2>3 DEF ServerRun, TypeOK
    <3> QED
      BY <1>1, <1>2, <1>3, <3>3, <3>4
  <2>4. CASE ~(b = q.call /\ n = q.hop)
    <3>1. Waiting(b, n)' = Waiting(b, n)
      BY <1>8, <2>4, RunHas DEF Waiting, Retries
    <3>2. ran'[<<b, n>>] = ran[<<b, n>>]
      BY <1>8, <2>4 DEF ServerRun, TypeOK
    <3> QED
      BY <1>1, <1>2, <1>3, <3>1, <3>2
  <2> QED
    BY <2>3, <2>4
<1>9. ASSUME NEW a \in Calls,
             \/ Halts(a) \/ Misses(a) \/ Hits(a) \/ Redirect(a) \/ ReadPart(a) \/ Leaves(a)
             \/ Completes(a)
      PROVE  Goal
  <2>1. UNCHANGED <<ran, inbox>>
    BY <1>9 DEF Halts, Misses, Hits, Redirect, ReadPart, Leaves, Completes, server
  <2> QED
    BY <1>5, <2>1
<1>10. ASSUME NEW a \in Calls, NEW m \in Methods, NEW h \in Hosts, NEW follow \in Follow,
              Begin(a, m, h, follow)
       PROVE  Goal
  BY <1>5, <1>10 DEF Begin, server
<1>11. ASSUME NEW c \in Conns, CloseOne(c) \/ ServerClose(c) PROVE Goal
  BY <1>5, <1>11 DEF CloseOne, ServerClose, server
<1>12. ASSUME Close \/ UNCHANGED vars PROVE Goal
  BY <1>5, <1>12 DEF Close, vars, server
<1>13. ASSUME NEW a \in Calls, NEW c \in Conns, Connect(a, c) PROVE Goal
  BY <1>5, <1>13 DEF Connect, server
<1> HIDE DEF Goal
<1>14. Goal
  BY <1>6, <1>7, <1>8, <1>9, <1>10, <1>11, <1>12, <1>13, StepCases
<1> QED
  BY <1>14 DEF Goal

\* At the start nothing has been sent.
LEMMA RetriesInit == Init => Retries
<1> SUFFICES ASSUME Init PROVE Retries
  OBVIOUS
<1>1. WaitsOnce /\ SentNothing
  BY DEF Init, WaitsOnce, SentNothing
<1>2. ASSUME NEW a \in Calls, NEW n \in 0 .. MaxRedirects
      PROVE  /\ IsFiniteSet(Waiting(a, n))
             /\ ran[<<a, n>>] + Cardinality(Waiting(a, n)) <= Allowed(a, n)
  <2>1. Waiting(a, n) = {}
    BY DEF Init, Waiting, Has
  <2>2. ran[<<a, n>>] = 0
    BY DEF Init
  <2>3. Allowed(a, n) = 0
    BY DEF Init, Allowed, Sent
  <2> QED
    BY <2>1, <2>2, <2>3, FS_EmptySet
<1> QED
  BY <1>1, <1>2 DEF Retries, Accounted

\* A request is acted on at most twice, whatever the server does, for any number of
\* calls and however many dead connections the pool holds: _exchange() retries a
\* stale pooled connection on a fresh one, and only there.
THEOREM OneRetry == Spec => []AtMostOneRetry
<1>1. ClientInv /\ Retries /\ [Next]_vars => Retries'
  BY WaitsOnceStep, SentNothingStep, AccountedStep DEF Retries, ClientInv
<1>2. ClientInv /\ Retries => AtMostOneRetry
  <2> SUFFICES ASSUME ClientInv, Retries, NEW q \in DOMAIN ran PROVE ran[q] <= 2
    BY DEF AtMostOneRetry
  <2>1. PICK a \in Calls, n \in 0 .. MaxRedirects : q = <<a, n>>
    BY DEF ClientInv, TypeOK
  <2>2. IsFiniteSet(Waiting(a, n)) /\ ran[q] + Cardinality(Waiting(a, n)) <= Allowed(a, n)
    BY <2>1 DEF Retries, Accounted
  <2>3. ran[q] \in Nat /\ Cardinality(Waiting(a, n)) \in Nat
    BY <2>2, FS_CardinalityType, ClientConstants DEF ClientInv, TypeOK
  <2>4. Allowed(a, n) \in 0 .. 2
    BY SentRange DEF Allowed
  <2> QED
    BY <2>2, <2>3, <2>4
<1> QED
  BY <1>1, <1>2, RetriesInit, ClientInvariant, PTL DEF Spec

-----------------------------------------------------------------------------
(* Responses. *)

\* Of two sequences with one element at most together, one is empty.
LEMMA OneOfTwo ==
  ASSUME NEW s \in Seq(Requests), NEW t \in Seq(Responses), Len(s) + Len(t) <= 1
  PROVE  (t # <<>> => Len(t) = 1 /\ s = <<>>) /\ (s # <<>> => Len(s) = 1 /\ t = <<>>)
<1>1. Len(s) \in Nat /\ Len(t) \in Nat
  OBVIOUS
<1>2. \A i, j \in Nat : i + j <= 1 => (j # 0 => j = 1 /\ i = 0) /\ (i # 0 => i = 1 /\ j = 0)
  OBVIOUS
<1>3. (Len(t) # 0 => Len(t) = 1 /\ Len(s) = 0) /\ (Len(s) # 0 => Len(s) = 1 /\ Len(t) = 0)
  BY <1>1, <1>2, Zenon
<1>4. (s # <<>> => Len(s) # 0) /\ (t # <<>> => Len(t) # 0)
  OBVIOUS
<1>5. (Len(s) = 0 => s = <<>>) /\ (Len(t) = 0 => t = <<>>)
  OBVIOUS
<1> QED
  BY <1>3, <1>4, <1>5, Zenon

\* A connection that carries one message at most carries a request or a response.
LEMMA OneAtMost ==
  ASSUME TypeOK, NEW c \in Conns, Len(inbox[c]) + Len(wire[c]) <= 1
  PROVE  /\ wire[c] # <<>> => Len(wire[c]) = 1 /\ inbox[c] = <<>>
         /\ inbox[c] # <<>> => Len(inbox[c]) = 1 /\ wire[c] = <<>>
<1>1. inbox[c] \in Seq(Requests) /\ wire[c] \in Seq(Responses)
  BY DEF TypeOK
<1> QED
  BY <1>1, OneOfTwo, Zenon

\* An exchange the step does not touch.
LEMMA ExchangeKept ==
  ASSUME NEW b \in Calls, ExchangeOf(b),
         pc'[b] = pc[b] \/ pc'[b] \in {"take", "connect", "error"} \/ (pc'[b] = "ok" /\ pc[b] = "decide"),
         \/ req'[b] = req[b] /\ using'[b] = using[b] /\ reply'[b] = reply[b]
         \/ pc'[b] \in {"take", "connect", "error"},
         pc[b] \in {"write", "read"} =>
           inbox'[using[b]] = inbox[using[b]] /\ wire'[using[b]] = wire[using[b]]
  PROVE  ExchangeOf(b)'
  BY DEF ExchangeOf, Quiet

\* The connections of two calls are two, and none of them is in the pool.
LEMMA Apart ==
  ASSUME TypeOK, Linked, Owned, NEW a \in Calls, pc[a] \in {"write", "read"}
  PROVE  /\ using[a] \in Conns
         /\ \A b \in Calls : b # a /\ pc[b] \in {"write", "read"} =>
              using[b] \in Conns /\ using[b] # using[a]
         /\ \A h \in Hosts : \A i \in DOMAIN pool[h] : pool[h][i] \in Conns /\ pool[h][i] # using[a]
<1>1. using[a] \in Conns
  BY InExchange
<1>2. ASSUME NEW b \in Calls, b # a, pc[b] \in {"write", "read"}
      PROVE  using[b] \in Conns /\ using[b] # using[a]
  BY <1>1, <1>2, InExchange, ClientConstants DEF Owned
<1>3. \A h \in Hosts : \A i \in DOMAIN pool[h] : pool[h][i] \in Conns
  BY DEF TypeOK
<1> QED
  BY <1>1, <1>2, <1>3 DEF Owned

\* From a server that sends no interim responses, a connection carries no more than
\* the exchange that owns it.
LEMMA ExchangesStep ==
  ASSUME Hinted = {}, ClientInv, Exchanges, [Next]_vars
  PROVE  Exchanges'
<1> USE ClientConstants
<1>1. TypeOK /\ Linked /\ Owned /\ Fresh /\ Replied /\ \A a \in Calls : ExchangeOf(a)
  BY DEF ClientInv, Exchanges
<1> DEFINE PoolQuiet == \A h \in Hosts : \A i \in DOMAIN pool[h] : Quiet(pool[h][i])
<1>2. PoolQuiet
  BY DEF Exchanges
<1>3. ASSUME UNCHANGED <<pool, inbox, wire>> PROVE PoolQuiet'
  BY <1>2, <1>3 DEF Quiet
<1>4. ASSUME NEW a \in Calls, NEW m \in Methods, NEW h \in Hosts, NEW follow \in Follow,
             Begin(a, m, h, follow)
      PROVE  Exchanges'
  <2>1. /\ pc'[a] = "take"
        /\ \A b \in Calls : b # a => pc'[b] = pc[b] /\ req'[b] = req[b]
        /\ UNCHANGED <<using, reply, pool, inbox, wire>>
    BY <1>1, <1>4 DEF Begin, Goto, TypeOK, link, pooling, server
  <2>2. \A b \in Calls : ExchangeOf(b)'
    BY <1>1, <2>1, ExchangeKept
  <2> QED
    BY <1>3, <2>1, <2>2 DEF Exchanges
<1>5. ASSUME NEW a \in Calls, Halts(a) PROVE Exchanges'
  <2>1. /\ pc'[a] = "error" \/ (pc'[a] = "ok" /\ pc[a] = "decide")
        /\ \A b \in Calls : b # a => pc'[b] = pc[b]
        /\ UNCHANGED <<req, using, reply, pool, inbox, wire>>
    BY <1>1, <1>5 DEF Halts, Goto, TypeOK, link, pooling, server
  <2>2. \A b \in Calls : ExchangeOf(b)'
    BY <1>1, <2>1, ExchangeKept
  <2> QED
    BY <1>3, <2>1, <2>2 DEF Exchanges
<1>6. ASSUME NEW a \in Calls, Misses(a) PROVE Exchanges'
  <2>1. /\ pc'[a] = "connect"
        /\ \A b \in Calls : b # a => pc'[b] = pc[b]
        /\ UNCHANGED <<req, using, reply, pool, inbox, wire>>
    BY <1>1, <1>6 DEF Misses, Goto, TypeOK, link, pooling, server
  <2>2. \A b \in Calls : ExchangeOf(b)'
    BY <1>1, <2>1, ExchangeKept
  <2> QED
    BY <1>3, <2>1, <2>2 DEF Exchanges
<1>7. ASSUME NEW a \in Calls, Hits(a) PROVE Exchanges'
  <2>1. /\ pc'[a] = "write" /\ Key(a) \in Hosts
        /\ \A b \in Calls : b # a => pc'[b] = pc[b] /\ using'[b] = using[b]
        /\ UNCHANGED <<req, reply, inbox, wire>>
    BY <1>1, <1>7 DEF Hits, Goto, TypeOK, server
  <2>2. using'[a] = pool[Key(a)][Len(pool[Key(a)])] /\ Len(pool[Key(a)]) \in DOMAIN pool[Key(a)]
    BY <1>1, <1>7, PoolPopped
  <2>3. Quiet(pool[Key(a)][Len(pool[Key(a)])])
    BY <1>2, <2>1, <2>2
  <2>4. ExchangeOf(a)'
    BY <2>1, <2>2, <2>3 DEF ExchangeOf, Quiet
  <2>5. \A b \in Calls : b # a => ExchangeOf(b)'
    BY <1>1, <2>1, ExchangeKept
  <2>6. PoolQuiet'
    BY <1>1, <1>2, <1>7, <2>1, PoolPopped DEF Quiet
  <2> QED
    BY <2>4, <2>5, <2>6 DEF Exchanges
<1>8. ASSUME NEW a \in Calls, Redirect(a) PROVE Exchanges'
  <2>1. /\ pc'[a] = "take"
        /\ \A b \in Calls : b # a => pc'[b] = pc[b] /\ req'[b] = req[b] /\ reply'[b] = reply[b]
        /\ UNCHANGED <<using, pool, inbox, wire>>
    BY <1>1, <1>8 DEF Redirect, Goto, TypeOK, link, pooling, server
  <2>2. \A b \in Calls : ExchangeOf(b)'
    BY <1>1, <2>1, ExchangeKept
  <2> QED
    BY <1>3, <2>1, <2>2 DEF Exchanges
<1>9. ASSUME NEW a \in Calls, Write(a) PROVE Exchanges'
  <2>1. /\ pc[a] = "write" /\ pc'[a] = "read"
        /\ \A b \in Calls : b # a => pc'[b] = pc[b]
        /\ UNCHANGED <<req, using, reply, pool, wire>>
    BY <1>1, <1>9 DEF Write, Goto, TypeOK, link, pooling
  <2>2. Quiet(using[a])
    BY <1>1, <2>1 DEF ExchangeOf
  <2>3. /\ using[a] \in Conns
        /\ \A b \in Calls : b # a /\ pc[b] \in {"write", "read"} =>
             using[b] \in Conns /\ using[b] # using[a]
        /\ \A h \in Hosts : \A i \in DOMAIN pool[h] : pool[h][i] \in Conns /\ pool[h][i] # using[a]
    BY <1>1, <2>1, Apart
  <2>4. \A d \in Conns : d # using[a] => inbox'[d] = inbox[d]
    BY <1>1, <1>9, WriteInbox
  <2>5. \A b \in Calls : b # a => ExchangeOf(b)'
    BY <1>1, <2>1, <2>3, <2>4, ExchangeKept
  <2>6. PoolQuiet'
    BY <1>2, <2>1, <2>3, <2>4 DEF Quiet
  <2>7. ExchangeOf(a)'
    <3>1. Len(inbox[using[a]]) = 0 /\ Len(wire[using[a]]) = 0 /\ DOMAIN wire[using[a]] = {}
      BY <2>2 DEF Quiet
    <3>2. CASE inbox' = inbox
      BY <2>1, <2>2, <3>1, <3>2 DEF ExchangeOf, Quiet
    <3>3. CASE inbox' # inbox
      <4>1. /\ Len(inbox'[using[a]]) = 1 /\ DOMAIN inbox'[using[a]] = 1 .. 1
            /\ inbox'[using[a]][1].call = a /\ inbox'[using[a]][1].hop = req[a].hop
        <5>1. LET k == Len(inbox[using[a]]) + 1 IN
              /\ Len(inbox'[using[a]]) = k /\ DOMAIN inbox'[using[a]] = 1 .. k
              /\ inbox'[using[a]][k].call = a /\ inbox'[using[a]][k].hop = req[a].hop
          BY <1>1, <1>9, <3>3, WriteInbox
        <5>2. Len(inbox[using[a]]) + 1 = 1
          BY <3>1
        <5> QED
          BY <5>1, <5>2
      <4> QED
        BY <2>1, <3>1, <4>1 DEF ExchangeOf
    <3> QED
      BY <3>2, <3>3
  <2> QED
    BY <2>5, <2>6, <2>7 DEF Exchanges
<1>10. ASSUME NEW a \in Calls, ReadPart(a) PROVE Exchanges'
  <2>1. UNCHANGED <<pc, req, using, reply, pool, inbox, wire>>
    BY <1>10 DEF ReadPart, pooling, server
  <2>2. \A b \in Calls : ExchangeOf(b)'
    BY <1>1, <2>1, ExchangeKept
  <2> QED
    BY <1>3, <2>1, <2>2 DEF Exchanges
<1>11. ASSUME NEW a \in Calls, Leaves(a) PROVE Exchanges'
  <2>1. /\ pc'[a] \in {"connect", "error"}
        /\ \A b \in Calls : b # a => pc'[b] = pc[b] /\ using'[b] = using[b]
        /\ UNCHANGED <<req, reply, pool, inbox, wire>>
    BY <1>1, <1>11 DEF Leaves, GiveUp, Drop, RetryFrom, Goto, TypeOK, server
  <2>2. \A b \in Calls : ExchangeOf(b)'
    BY <1>1, <2>1, ExchangeKept
  <2> QED
    BY <1>3, <2>1, <2>2 DEF Exchanges
<1>12. ASSUME NEW a \in Calls, Completes(a) PROVE Exchanges'
  <2>1. /\ pc[a] = "read" /\ pc'[a] = "decide" /\ reply'[a] = Head(wire[using[a]])
        /\ wire[using[a]] # <<>>
        /\ \A b \in Calls : b # a => pc'[b] = pc[b] /\ using'[b] = using[b] /\ reply'[b] = reply[b]
        /\ UNCHANGED <<req, inbox>>
    BY <1>1, <1>12 DEF Completes, Finish, Goto, TypeOK
  <2>2. /\ using[a] \in Conns
        /\ \A b \in Calls : b # a /\ pc[b] \in {"write", "read"} =>
             using[b] \in Conns /\ using[b] # using[a]
        /\ \A h \in Hosts : \A i \in DOMAIN pool[h] : pool[h][i] \in Conns /\ pool[h][i] # using[a]
    BY <1>1, <2>1, Apart
  <2>3. wire[using[a]] \in Seq(Responses) /\ inbox[using[a]] \in Seq(Requests)
    BY <1>1, <2>2 DEF TypeOK
  <2>4. /\ Len(inbox[using[a]]) + Len(wire[using[a]]) <= 1
        /\ \A i \in DOMAIN wire[using[a]] :
             wire[using[a]][i].call = a /\ wire[using[a]][i].hop = req[a].hop
    BY <1>1, <2>1, ZenonT(30) DEF ExchangeOf
  <2>5. Len(wire[using[a]]) = 1 /\ inbox[using[a]] = <<>>
    BY <1>1, <2>1, <2>2, <2>4, OneAtMost
  <2>6. wire' = [wire EXCEPT ![using[a]] = <<>>]
    BY <1>12, <2>5 DEF Completes
  <2>7. wire'[using[a]] = <<>> /\ \A d \in Conns : d # using[a] => wire'[d] = wire[d]
    BY <1>1, <2>2, <2>6 DEF TypeOK
  <2>8. reply'[a].call = a /\ reply'[a].hop = req[a].hop
    BY <2>1, <2>3, <2>4, <2>5
  <2>9. ExchangeOf(a)'
    BY <2>1, <2>8 DEF ExchangeOf
  <2>10. \A b \in Calls : b # a => ExchangeOf(b)'
    BY <1>1, <2>1, <2>2, <2>7, ExchangeKept
  <2>11. PoolQuiet'
    <3>1. CASE Reusable(Head(wire[using[a]]))
      BY <1>1, <1>2, <1>12, <2>1, <2>2, <2>5, <2>7, <3>1, PoolGiven DEF Quiet
    <3>2. CASE ~Reusable(Head(wire[using[a]]))
      <4>1. UNCHANGED pool
        BY <1>12, <3>2 DEF Completes, Finish
      <4> QED
        BY <1>2, <2>1, <2>2, <2>7, <4>1 DEF Quiet
    <3> QED
      BY <3>1, <3>2
  <2> QED
    BY <2>9, <2>10, <2>11 DEF Exchanges
<1>13. ASSUME NEW a \in Calls, NEW c \in Conns, Connect(a, c) PROVE Exchanges'
  <2>1. /\ pc'[a] = "write" /\ using'[a] = c /\ conn[c] = "unmade"
        /\ \A b \in Calls : b # a => pc'[b] = pc[b] /\ using'[b] = using[b]
        /\ UNCHANGED <<req, reply, pool, inbox, wire>>
    BY <1>1, <1>13 DEF Connect, Goto, TypeOK, pooling, server
  <2>2. Quiet(c)
    BY <1>1, <2>1 DEF Fresh, Quiet
  <2>3. ExchangeOf(a)'
    BY <2>1, <2>2 DEF ExchangeOf, Quiet
  <2>4. \A b \in Calls : b # a => ExchangeOf(b)'
    BY <1>1, <2>1, ExchangeKept
  <2> QED
    BY <1>3, <2>1, <2>3, <2>4 DEF Exchanges
<1>14. ASSUME Close PROVE Exchanges'
  <2>1. UNCHANGED <<pc, req, using, reply, inbox, wire>>
    BY <1>14 DEF Close, link, server
  <2>2. \A b \in Calls : ExchangeOf(b)'
    BY <1>1, <2>1, ExchangeKept
  <2>3. PoolQuiet'
    BY <1>14 DEF Close
  <2> QED
    BY <2>2, <2>3 DEF Exchanges
<1>15. ASSUME NEW c \in Conns, CloseOne(c) \/ ServerClose(c) PROVE Exchanges'
  <2>1. UNCHANGED <<pc, req, using, reply, pool, inbox, wire>>
    BY <1>15 DEF CloseOne, ServerClose, link, pooling, server
  <2>2. \A b \in Calls : ExchangeOf(b)'
    BY <1>1, <2>1, ExchangeKept
  <2> QED
    BY <1>3, <2>1, <2>2 DEF Exchanges
<1>16. ASSUME NEW c \in Conns PROVE ~ServerHint(c)
  BY DEF ServerHint
<1>17. ASSUME NEW c \in Conns, NEW code \in Codes, NEW location \in Locations,
              NEW framing \in Framings, ServerRun(c, code, location, framing)
       PROVE  Exchanges'
  <2> DEFINE q == Head(inbox[c])
  <2>1. UNCHANGED <<pc, req, using, reply, pool>>
    BY <1>17 DEF ServerRun, link, pooling
  <2>2. /\ inbox[c] \in Seq(Requests) /\ inbox[c] # <<>>
        /\ inbox'[c] \in Seq(Requests) /\ Len(inbox'[c]) = Len(inbox[c]) - 1
        /\ \A d \in Conns : d # c => inbox'[d] = inbox[d]
    BY <1>1, <1>17, RunInbox
  <2>3. PICK r \in Responses : /\ r.call = q.call /\ r.hop = q.hop
                               /\ wire' = wire \/ wire' = [wire EXCEPT ![c] = Append(wire[c], r)]
    BY <1>1, <1>17, RunWire
  <2>4. \A d \in Conns : d # c => wire'[d] = wire[d]
    BY <1>1, <2>3 DEF TypeOK
  <2>5. PoolQuiet'
    <3>1. \A h \in Hosts : \A i \in DOMAIN pool[h] : pool[h][i] \in Conns
      BY <1>1 DEF TypeOK
    <3> QED
      BY <1>2, <2>1, <2>2, <2>4, <3>1 DEF Quiet
  <2>6. ASSUME NEW b \in Calls PROVE ExchangeOf(b)'
    <3>1. CASE pc[b] \notin {"write", "read"} \/ using[b] # c
      <4>1. pc[b] \in {"write", "read"} => using[b] \in Conns
        BY <1>1, InExchange
      <4> QED
        BY <1>1, <2>1, <2>2, <2>4, <3>1, <4>1, ExchangeKept
    <3>2. CASE pc[b] = "write" /\ using[b] = c
      BY <1>1, <2>2, <3>2 DEF ExchangeOf, Quiet
    <3>3. CASE pc[b] = "read" /\ using[b] = c
      <4>1. /\ Len(inbox[c]) + Len(wire[c]) <= 1
            /\ \A i \in DOMAIN inbox[c] : inbox[c][i].call = b /\ inbox[c][i].hop = req[b].hop
        <5>1. /\ Len(inbox[using[b]]) + Len(wire[using[b]]) <= 1
              /\ \A i \in DOMAIN inbox[using[b]] :
                   inbox[using[b]][i].call = b /\ inbox[using[b]][i].hop = req[b].hop
          <6>1. ExchangeOf(b)
            BY <1>1
          <6> QED
            BY <3>3, <6>1 DEF ExchangeOf
        <5>2. using[b] = c
          BY <3>3
        <5>3. Len(inbox[c]) + Len(wire[c]) <= 1
          BY <5>1, <5>2
        <5>4. \A i \in DOMAIN inbox[c] : inbox[c][i].call = b /\ inbox[c][i].hop = req[b].hop
          BY <5>1, <5>2, ZenonT(30)
        <5> QED
          BY <5>3, <5>4
      <4>2. wire[c] \in Seq(Responses)
        BY <1>1 DEF TypeOK
      <4>3. Len(inbox[c]) = 1 /\ Len(wire[c]) = 0 /\ wire[c] = <<>> /\ inbox'[c] = <<>>
        <5>1. Len(inbox[c]) = 1 /\ wire[c] = <<>>
          <6>1. inbox[c] \in Seq(Requests) /\ inbox[c] # <<>> /\ Len(inbox[c]) + Len(wire[c]) <= 1
            BY <2>2, <4>1
          <6> QED
            BY <1>1, <6>1, OneAtMost, ZenonT(30)
        <5> QED
          BY <2>2, <5>1
      <4>4. q.call = b /\ q.hop = req[b].hop
        BY <2>2, <4>1, <4>3
      <4>5. Len(wire'[c]) <= 1 /\ Len(wire'[c]) \in Nat
            /\ \A i \in DOMAIN wire'[c] : wire'[c][i].call = b /\ wire'[c][i].hop = req[b].hop
        <5> HIDE DEF q
        <5>1. CASE wire' = wire
          BY <4>3, <5>1
        <5>2. CASE wire' = [wire EXCEPT ![c] = Append(wire[c], r)]
          <6>1. wire'[c] = <<r>>
            BY <1>1, <4>3, <5>2 DEF TypeOK
          <6> QED
            BY <2>3, <4>4, <6>1
        <5> QED
          BY <2>3, <5>1, <5>2
      <4> QED
        BY <2>1, <3>3, <4>3, <4>5 DEF ExchangeOf
    <3> QED
      BY <3>1, <3>2, <3>3
  <2> QED
    BY <2>5, <2>6 DEF Exchanges
<1>18. ASSUME UNCHANGED vars PROVE Exchanges'
  <2>1. UNCHANGED <<pc, req, using, reply, pool, inbox, wire>>
    BY <1>18 DEF vars, link, pooling, server
  <2>2. \A b \in Calls : ExchangeOf(b)'
    BY <1>1, <2>1, ExchangeKept
  <2> QED
    BY <1>3, <2>1, <2>2 DEF Exchanges
<1> QED
  BY <1>1, <1>4, <1>5, <1>6, <1>7, <1>8, <1>9, <1>10, <1>11, <1>12, <1>13, <1>14, <1>15, <1>16,
     <1>17, <1>18, StepCases

\* At the start nothing is under way.
LEMMA ExchangesInit == Init => Exchanges
  BY DEF Init, Exchanges, ExchangeOf, Quiet

\* From a server that sends no interim responses, the invariant of the exchanges holds
\* whatever the calls, the hosts and the server do.
LEMMA ExchangesInvariant == ASSUME Hinted = {} PROVE Spec => []Exchanges
<1>1. ClientInv /\ Exchanges /\ [Next]_vars => Exchanges'
  BY ExchangesStep
<1> QED
  BY <1>1, ExchangesInit, ClientInvariant, PTL DEF Spec

\* From a server that sends no interim responses, every response that request()
\* returns or follows answers the request it sent, over retries, timeouts, reuse of
\* connections and close().
THEOREM OwnResponses == ASSUME Hinted = {} PROVE Spec => []OwnResponse
<1>1. Exchanges => OwnResponse
  BY DEF Exchanges, ExchangeOf, OwnResponse
<1> QED
  BY <1>1, ExchangesInvariant, PTL

\* From such a server, what Client and AsyncClient keep in the pool is idle.
THEOREM PoolIsIdle == ASSUME Hinted = {} PROVE Spec => []PooledIsIdle
<1>1. Exchanges => PooledIsIdle
  <2>1. \A c \in PooledConns : \E h \in Hosts : \E i \in DOMAIN pool[h] : pool[h][i] = c
    BY DEF PooledConns, ToSet
  <2> QED
    BY <2>1 DEF Exchanges, Quiet, PooledIsIdle
<1> QED
  BY <1>1, ExchangesInvariant, PTL
=============================================================================
