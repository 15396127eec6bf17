-------------------------- MODULE MCResponseParser --------------------------
(* Model-checking instances of ResponseParser. *)
EXTENDS ResponseParser

\* Chunks of one or two bytes.
Sizes == <<"s1", "s2">>

\* Bodies of up to three bytes in one or two chunks; the bytes of a body may
\* look like line ends.
BodyBytes == {"d", "cr", "lf"}
Chunks == {<<a>> : a \in BodyBytes} \cup {<<a, b>> : a \in BodyBytes, b \in BodyBytes}
Bodies == {<<>>} \cup {<<c>> : c \in Chunks}
          \cup {<<c, e>> : c \in Chunks, e \in {<<"d">>, <<"cr">>}}

Reply(c, t, l, b, tr) ==
  [code |-> c, te |-> t, cl |-> l, chunks |-> b, trailer |-> tr,
   bad |-> "none", coding |-> "identity"]

Chunked == {Reply(200, TRUE, NoLength, b, tr) : b \in Bodies, tr \in BOOLEAN}
Fixed == {Reply(200, FALSE, Len(FlattenSeq(b)), b, FALSE) : b \in Bodies}
UntilClose == {Reply(200, FALSE, NoLength, b, FALSE) : b \in Bodies}
BodyLess == {Reply(c, FALSE, l, <<>>, FALSE) : c \in {103, 204, 304}, l \in {NoLength, 0, 2}}

Plain == Chunked \cup Fixed \cup UntilClose \cup BodyLess
Compressed ==
  {[m EXCEPT !.coding = c] : m \in {r \in Plain : r.chunks = <<<<"d", "d">>, <<"d">>>>},
                             c \in {"gzip", "deflate"}}
WellFormed == Plain \cup Compressed

\* The same responses with something wrong in a place that is read.
Malformed ==
  {[m EXCEPT !.bad = f] : m \in WellFormed, f \in {"status", "header"}}
  \cup {[m EXCEPT !.bad = f] : m \in Fixed, f \in {"length", "negative"}}
  \cup {[m EXCEPT !.bad = f] : m \in Chunked, f \in {"size", "negative"}}
  \cup {[m EXCEPT !.bad = "crlf"] : m \in {c \in Chunked : c.chunks # <<>>}}
  \cup {[m EXCEPT !.bad = "coding"] : m \in Compressed}

AllResponses == WellFormed \cup Malformed
=============================================================================
