--------------------------- MODULE ResponseParser ---------------------------
(***************************************************************************)
(* ResponseParser of fizzpy/_http.py: the incremental HTTP/1.1 response    *)
(* parser.  It is fed the bytes of one response, well formed or not, in    *)
(* pieces cut anywhere, possibly with EOF before the last byte; each feed  *)
(* drives the parser until it needs more bytes.                            *)
(*                                                                         *)
(* A byte that matters to the framing is a token: "cr" and "lf" (a feed    *)
(* may end between them), one token for the text of a status line, of a    *)
(* header or of a chunk-size line, and one for each byte of a body.        *)
(***************************************************************************)
EXTENDS Integers, Sequences, SequencesExt, FiniteSetsExt

CONSTANTS
  Responses,  \* the responses the parser may be fed (see Text)
  Bytes,      \* the bytes of bodies; some may look like line ends
  SizeToken,  \* SizeToken[n] is the chunk-size line that announces n bytes
  NoLength    \* _content_length is None

\* A response: its status code, its framing headers, and its body as chunks.
\*   code   : the status code
\*   te     : Transfer-Encoding: chunked is present
\*   cl     : the value of Content-Length, or NoLength
\*   chunks : the body, cut into chunks
\*   trailer: trailer lines follow the last chunk
\*   bad    : what is malformed about it: "none", the "status" line, a "header"
\*            line, the "length", a chunk "size", either of them "negative", the
\*            "crlf" after a chunk, or its "coding": a compressed stream that is
\*            corrupt or that itself ends early, inside a framing that is whole
\*   coding : its Content-Encoding, "identity", "gzip" or "deflate"
NoBodyCode(code) == code < 200 \/ code \in {204, 304}

Data(m) == FlattenSeq(m.chunks)

\* The text the server sends for it.
Token ==
  {"status", "junk", "te", "cl", "x", "d", "neg", "s0", "cr", "lf"} \cup Bytes \cup ToSet(SizeToken)

Line(t) == <<t, "cr", "lf">>
Blank == <<"cr", "lf">>
LastSize(m) == IF m.bad = "size" THEN "junk" ELSE IF m.bad = "negative" THEN "neg" ELSE "s0"
SizeOf(t) ==
  IF t = "s0" THEN 0
  ELSE IF t = "neg" THEN -1
  ELSE CHOOSE n \in DOMAIN SizeToken : SizeToken[n] = t

LineIf(there, t) == IF there THEN Line(t) ELSE <<>>

HeaderText(m) ==
  LineIf(m.te, "te") \o LineIf(m.cl # NoLength, "cl") \o LineIf(m.bad = "header", "junk")

ChunkText(c, end) == Line(SizeToken[Len(c)]) \o c \o end
ChunkEnd(m) == IF m.bad = "crlf" THEN <<"d">> \o Blank ELSE Blank

BodyText(m) ==
  IF NoBodyCode(m.code) THEN <<>>
  ELSE IF m.te THEN FlattenSeq([i \in 1 .. Len(m.chunks) |-> ChunkText(m.chunks[i], ChunkEnd(m))])
                    \o Line(LastSize(m))
                    \o LineIf(m.trailer, "x") \o Blank
  ELSE Data(m)

Text(m) == Line(IF m.bad = "status" THEN "junk" ELSE "status") \o HeaderText(m) \o Blank \o BodyText(m)

\* What it means.
Body(m) == IF NoBodyCode(m.code) THEN <<>> ELSE Data(m)
Delimited(m) == NoBodyCode(m.code) \/ m.te \/ m.cl # NoLength
Sized(m) == m.bad # "negative"

\* The fields of a response.
WellTyped(m) ==
  /\ m.code \in Nat
  /\ m.te \in BOOLEAN
  /\ m.cl \in Nat \cup {NoLength}
  /\ m.chunks \in Seq(Seq(Bytes))
  /\ \A i \in DOMAIN m.chunks : Len(m.chunks[i]) \in 1 .. Len(SizeToken)
  /\ m.trailer \in BOOLEAN
  /\ m.bad \in {"none", "status", "header", "length", "size", "negative", "crlf", "coding"}
  /\ m.coding \in {"identity", "gzip", "deflate"}

\* The headers and the body agree: a status that has no body announces no
\* chunks, and a Content-Length that frames a body is the body's length.
Consistent(m) ==
  IF NoBodyCode(m.code) THEN ~m.te
  ELSE m.te \/ m.cl = NoLength \/ m.cl = Len(Data(m))

\* What is malformed is in a place that is there.
Visible(m) ==
  /\ m.bad \in {"size", "crlf"} => m.te
  /\ m.bad = "crlf" => m.chunks # <<>>
  /\ m.bad = "length" => m.cl # NoLength /\ ~m.te /\ ~NoBodyCode(m.code)
  /\ m.bad = "negative" => m.cl # NoLength \/ m.te

ASSUME NoLengthAssumption == NoLength \notin Int

ASSUME SizesAssumption ==
  /\ SizeToken \in Seq(STRING)
  /\ ToSet(SizeToken) \cap {"cr", "lf", "junk", "neg", "s0"} = {}
  /\ \A i, j \in DOMAIN SizeToken : SizeToken[i] = SizeToken[j] => i = j

ASSUME ResponsesAssumption ==
  \A m \in Responses : WellTyped(m) /\ Consistent(m) /\ Visible(m)

VARIABLES
  msg,           \* the response being sent
  fed,           \* how many of its tokens have been fed
  eof,           \* _eof
  running,       \* _parse() is running
  buf,           \* _buf
  state,         \* _state; "error" once HttpParseError was raised, "crash" once
                 \* another exception was
  chunked,       \* _chunked
  contentLength, \* _content_length
  body,          \* _body
  remaining,     \* _chunk_remaining
  awaitingSize,  \* _awaiting_chunk_size
  inTrailers,    \* _in_trailers
  content        \* the content of _response: the decoded bytes ("plain"), the
                 \* bytes as received ("raw"), or "none" while there is no response

vars == <<msg, fed, eof, running, buf, state, chunked, contentLength, body,
          remaining, awaitingSize, inTrailers, content>>
input == <<msg, fed, eof>>
framing == <<chunked, contentLength>>
cursor == <<remaining, awaitingSize, inTrailers>>

TypeOK ==
  /\ msg \in Responses
  /\ fed \in 0 .. Len(Text(msg))
  /\ eof \in BOOLEAN
  /\ running \in BOOLEAN
  /\ buf \in Seq(Token)
  /\ state \in {"status", "headers", "body", "done", "error", "crash"}
  /\ chunked \in BOOLEAN
  /\ contentLength \in Int \cup {NoLength}
  /\ body \in Seq(Bytes)
  /\ remaining \in -1 .. Len(SizeToken)
  /\ awaitingSize \in BOOLEAN
  /\ inTrailers \in BOOLEAN
  /\ content \in {"none", "plain", "raw"}
  /\ (content # "none") = (state = "done")
  /\ Len(buf) + Len(body) <= fed

Init ==
  /\ msg \in Responses
  /\ fed = 0
  /\ eof = FALSE
  /\ running = FALSE
  /\ buf = <<>>
  /\ state = "status"
  /\ chunked = FALSE
  /\ contentLength = NoLength
  /\ body = <<>>
  /\ remaining = 0
  /\ awaitingSize = TRUE
  /\ inTrailers = FALSE
  /\ content = "none"

-----------------------------------------------------------------------------
(* The caller: feed() and feed_eof(), until is_complete(). *)

Feed(n) ==
  /\ ~running /\ ~eof
  /\ state \notin {"done", "error", "crash"}
  /\ fed + n <= Len(Text(msg))
  /\ fed' = fed + n
  /\ buf' = buf \o SubSeq(Text(msg), fed + 1, fed + n)
  /\ running' = TRUE
  /\ UNCHANGED <<msg, eof, state, framing, body, cursor, content>>

FeedEof ==
  /\ ~running /\ ~eof
  /\ state \notin {"done", "error", "crash"}
  /\ eof' = TRUE
  /\ running' = TRUE
  /\ UNCHANGED <<msg, fed, buf, state, framing, body, cursor, content>>

-----------------------------------------------------------------------------
(* _parse() *)

\* The place of the first CRLF (of the first CRLF CRLF) in s, or 0.
FindCrlf(s) ==
  LET at == {i \in 1 .. Len(s) - 1 : s[i] = "cr" /\ s[i + 1] = "lf"}
  IN  IF at = {} THEN 0 ELSE Min(at)

FindBlank(s) ==
  LET at == {i \in 1 .. Len(s) - 3 : SubSeq(s, i, i + 3) = Blank \o Blank}
  IN  IF at = {} THEN 0 ELSE Min(at)

StartsWithCrlf(s) == Len(s) >= 2 /\ s[1] = "cr" /\ s[2] = "lf"
Drop(s, n) == SubSeq(s, n + 1, Len(s))
Take(s, n) == SubSeq(s, 1, n)

\* Mutant: the blank line is taken to be one CRLF.
AfterBlankShort(s, end) == Drop(s, end + 1)

\* What follows the blank line found at end.
AfterBlank(s, end) == Drop(s, end + 3)

\* Mutant: lines of trailers are expected to come before it.
EmptyBlockNever(s) == FALSE

\* A block of headers or trailers without a line is only its blank line.
EmptyBlock(s) == StartsWithCrlf(s)

\* Mutant: the second byte of a CRLF is not waited for.
CrlfToComeShort(s) == Len(s) < 1

\* The CRLF that follows the data of a chunk is not all there.
CrlfToCome(s) == Len(s) < 2

\* HttpParseError leaves _parse().
Raise == state' = "error" /\ running' = FALSE /\ UNCHANGED content

\* The parser needs more bytes: it returns.
Await == running' = FALSE /\ UNCHANGED <<state, content>>

\* Mutant: an incomplete line is looked for again instead of returning.
AwaitLineSpins == IF eof /\ buf # <<>> THEN Raise ELSE UNCHANGED <<running, state, content>>

\* A line is incomplete: at EOF that is an error if it has begun.
AwaitLine == IF eof /\ buf # <<>> THEN Raise ELSE Await

\* The parser goes on to its next part.
Continue(next) == state' = next /\ UNCHANGED <<running, content>>

\* _decompress(), what it may result in.  A stream that is not sound is returned
\* as it is; but gzip reports one that ends after its two magic bytes and before
\* its trailer as EOFError, which is not caught.  A stream with a bad coding may
\* be of either kind.
Decompress(data) ==
  IF msg.coding = "identity" \/ data = <<>> THEN {"raw"}
  ELSE IF msg.bad # "coding" /\ data = Body(msg) THEN {"plain"}
  ELSE IF msg.coding = "deflate" \/ Len(data) = 1 THEN {"raw"}
  ELSE {"EOFError"} \cup {r \in {"raw"} : msg.bad = "coding"}

\* _finalize()
Finalize ==
  /\ running' = FALSE
  /\ \E result \in Decompress(body') :
       \/ result = "EOFError" /\ state' = "crash" /\ UNCHANGED content
       \/ result # "EOFError" /\ state' = "done" /\ content' = result

ParseStatusLine ==
  /\ running /\ state = "status"
  /\ LET idx == FindCrlf(buf) IN
       IF idx = 0
         THEN /\ AwaitLine
              /\ UNCHANGED buf
         ELSE /\ buf' = Drop(buf, idx + 1)
              /\ IF Take(buf, idx - 1) = <<"status">>
                   THEN Continue("headers")
                   ELSE Raise
  /\ UNCHANGED <<input, framing, body, cursor>>

\* _resolve_framing(): chunked first, then the codes without a body, then
\* Content-Length; int() refuses a length that is not a number, and takes a sign.
ResolveFraming(lines) ==
  LET te == "te" \in ToSet(lines)
      cl == "cl" \in ToSet(lines) /\ ~te /\ ~NoBodyCode(msg.code)
  IN  /\ chunked' = te
      /\ contentLength' = IF ~te /\ NoBodyCode(msg.code) THEN 0
                          ELSE IF cl /\ msg.bad = "negative" THEN -1
                          ELSE IF cl /\ msg.bad # "length" THEN msg.cl
                          ELSE NoLength
      /\ IF cl /\ msg.bad = "length" THEN Raise ELSE Continue("body")

\* _parse_headers(): an empty header block, or one that ends at a blank line.
ParseHeaders ==
  /\ running /\ state = "headers"
  /\ LET end == FindBlank(buf)
         empty == EmptyBlock(buf)
         block == IF empty THEN <<>> ELSE Take(buf, end - 1)
     IN  \/ /\ ~empty /\ end = 0
            /\ AwaitLine
            /\ UNCHANGED <<buf, framing>>
         \/ /\ empty \/ end # 0
            /\ buf' = IF empty THEN Drop(buf, 2) ELSE AfterBlank(buf, end)
            /\ IF "junk" \in ToSet(block)
                 THEN Raise /\ UNCHANGED framing
                 ELSE ResolveFraming(block)
  /\ UNCHANGED <<input, body, cursor>>

\* _parse_fixed_length(): a short body is taken as it is at EOF.
ParseFixedLength ==
  /\ running /\ state = "body"
  /\ ~chunked /\ contentLength # NoLength
  /\ LET take == Max({0, Min({contentLength - Len(body), Len(buf)})}) IN
       /\ body' = body \o Take(buf, take)
       /\ buf' = Drop(buf, take)
  /\ IF Len(body') >= contentLength \/ eof THEN Finalize ELSE Await
  /\ UNCHANGED <<input, framing, cursor>>

ParseUntilClose ==
  /\ running /\ state = "body"
  /\ ~chunked /\ contentLength = NoLength
  /\ body' = body \o buf
  /\ buf' = <<>>
  /\ IF eof THEN Finalize ELSE Await
  /\ UNCHANGED <<input, framing, cursor>>

\* _parse_chunked(), one action for each part of its loop.
InChunks == running /\ state = "body" /\ chunked

\* Mutant: a chunk cut off by EOF is returned as far as it came.
AwaitChunkTolerant == IF eof THEN Finalize ELSE Await

\* A chunk is incomplete: at EOF that is an error.
AwaitChunk == IF eof THEN Raise ELSE Await

ParseTrailers ==
  /\ InChunks
  /\ inTrailers
  /\ UNCHANGED <<input, framing, body, cursor>>
  /\ LET end == FindBlank(buf) IN
       \/ EmptyBlock(buf) /\ buf' = Drop(buf, 2) /\ Finalize
       \/ ~EmptyBlock(buf) /\ end # 0 /\ buf' = AfterBlank(buf, end) /\ Finalize
       \/ /\ ~EmptyBlock(buf) /\ end = 0
          /\ IF eof THEN Finalize ELSE Await
          /\ UNCHANGED buf

ParseChunkSize ==
  /\ InChunks
  /\ ~inTrailers /\ awaitingSize
  /\ LET idx == FindCrlf(buf) IN
       \/ /\ idx = 0
          /\ AwaitLine
          /\ UNCHANGED <<buf, cursor>>
       \/ /\ idx # 0 /\ buf[1] = "junk"
          /\ Raise
          /\ UNCHANGED <<buf, cursor>>
       \/ /\ idx # 0 /\ buf[1] # "junk"
          /\ buf' = Drop(buf, idx + 1)
          /\ LET size == SizeOf(buf[1]) IN
               /\ remaining' = IF size = 0 THEN remaining ELSE size
               /\ inTrailers' = (size = 0)
               /\ awaitingSize' = (size = 0)
          /\ Continue(state)
  /\ UNCHANGED <<input, framing, body>>

ParseChunkData ==
  /\ InChunks
  /\ ~inTrailers /\ ~awaitingSize /\ remaining > 0
  /\ LET take == Min({remaining, Len(buf)}) IN
       /\ body' = body \o Take(buf, take)
       /\ buf' = Drop(buf, take)
       /\ remaining' = remaining - take
  /\ IF remaining' = 0 THEN Continue(state) ELSE AwaitChunk
  /\ UNCHANGED <<input, framing, awaitingSize, inTrailers>>

ParseChunkEnd ==
  /\ InChunks
  /\ ~inTrailers /\ ~awaitingSize /\ remaining <= 0
  /\ \/ /\ CrlfToCome(buf)
        /\ AwaitChunk
        /\ UNCHANGED <<buf, awaitingSize>>
     \/ /\ ~CrlfToCome(buf) /\ ~StartsWithCrlf(buf)
        /\ Raise
        /\ UNCHANGED <<buf, awaitingSize>>
     \/ /\ StartsWithCrlf(buf)
        /\ buf' = Drop(buf, 2)
        /\ awaitingSize' = TRUE
        /\ Continue(state)
  /\ UNCHANGED <<input, framing, body, remaining, inTrailers>>

-----------------------------------------------------------------------------
Parse ==
  \/ ParseStatusLine
  \/ ParseHeaders
  \/ ParseFixedLength
  \/ ParseUntilClose
  \/ ParseTrailers
  \/ ParseChunkSize
  \/ ParseChunkData
  \/ ParseChunkEnd

Next ==
  \/ \E n \in 1 .. Len(Text(msg)) : Feed(n)
  \/ FeedEof
  \/ Parse

Spec == Init /\ [][Next]_vars

\* _parse() runs to its end.
FairSpec == Spec /\ WF_vars(Parse)

-----------------------------------------------------------------------------
(* Properties. *)

\* Wherever the response is cut into feeds, the body collected so far is a
\* prefix of its body: no framing byte leaks into it, no body byte is lost.
BodyIsPrefix == TypeOK /\ IsPrefix(body, Body(msg))

\* A response that is complete without EOF has its whole body, decoded if it
\* can be, and the parser has taken exactly the bytes of this response: the
\* connection is in step.
CompleteIsExact ==
  state = "done" /\ ~eof /\ Sized(msg) =>
    /\ body = Body(msg) /\ fed = Len(Text(msg)) /\ buf = <<>>
    /\ (content = "plain") = (msg.coding # "identity" /\ msg.bad = "none" /\ body # <<>>)

\* When the last byte of a delimited response has been fed, the parser is done:
\* the client does not go on to wait for bytes that will not come.  The exception
\* is a gzip stream that ends early inside the framing: its EOFError is not the
\* parser's own error.
LastByteCompletes ==
  fed = Len(Text(msg)) /\ Delimited(msg) /\ Sized(msg) /\ ~running /\ ~eof =>
    \/ state \in {"done", "error"}
    \/ state = "crash" /\ msg.coding = "gzip" /\ msg.bad = "coding"

\* A well-formed response is never refused, however it is cut into feeds, unless
\* the connection broke off; one that breaks the framing is never returned.  The
\* exception is a negative Content-Length, which ends the body before it begins.
\* Only a gzip stream makes the parser fail with an error that is not its own.
RefusalsAreRight ==
  /\ state = "error" /\ msg.bad = "none" => eof /\ fed < Len(Text(msg))
  /\ state = "done" => \/ msg.bad \in {"none", "coding"}
                       \/ msg.bad = "negative" /\ ~chunked /\ body = <<>>
  /\ state = "crash" => msg.coding = "gzip" /\ (msg.bad = "coding" \/ eof)

\* Where the body of the response begins in its text.
BodyStart(m) == Len(Text(m)) - Len(BodyText(m))

\* "An early EOF mid-body is tolerated by finalizing with whatever was received"
\* (feed_eof, whatever the framing): so it is, to the byte, for a body that is
\* not chunked.  The exception is a chunked body.  Cut off inside a chunk it is
\* an error; cut off between two chunks the parser neither raises nor completes;
\* and whether EOF comes or not, one that is returned is whole.
EarlyEof ==
  /\ state = "done" /\ chunked => body = Body(msg)
  /\ eof /\ ~running /\ msg.bad = "none" /\ fed >= BodyStart(msg) =>
       \/ /\ msg.te
          /\ \/ state = "done"
             \/ state \in {"error", "body"} /\ fed < Len(Text(msg))
       \/ /\ ~msg.te
          /\ state \in {"done", "crash"}
          /\ body = SubSeq(BodyText(msg), 1, fed - BodyStart(msg))

\* "Decompression failed: surface the raw bytes rather than crashing": no body
\* makes the parser fail with anything but its own error.
SurfacesRawBytes == state # "crash"

\* Every feed returns: the loop over chunks makes progress or stops.
FeedReturns == running ~> ~running
=============================================================================
