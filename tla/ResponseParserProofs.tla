------------------------ MODULE ResponseParserProofs ------------------------
(***************************************************************************)
(* Safety of the response parser for any responses, chunks and feeds: the  *)
(* cursor is always at the place of the text it stands for, so that what   *)
(* was collected is the body, and ends where it ends.                      *)
(***************************************************************************)
EXTENDS ResponseParser, WellFoundedInduction, TLAPS

-----------------------------------------------------------------------------
(* Induction, with a set in the place of the predicate. *)

\* A set that holds 0 and with every number the next one holds every number.
LEMMA SetInduction ==
  ASSUME NEW S, 0 \in S, \A n \in Nat : n \in S => n + 1 \in S
  PROVE  Nat \subseteq S
<1>. SUFFICES ASSUME Nat \ S # {} PROVE FALSE
  OBVIOUS
<1>. DEFINE R == OpToRel(<, Nat)
<1>1. IsWellFoundedOn(R, Nat)
  BY NatLessThanWellFounded
<1>2. \A x, y \in Nat : x < y => <<x, y>> \in R
  BY DEF OpToRel
<1>. HIDE DEF R
<1>3. PICK x \in Nat \ S : \A y \in Nat \ S : ~ (<<y, x>> \in R)
  BY <1>1, WFMin
<1>4. x # 0 /\ x - 1 \in Nat /\ x - 1 < x
  BY <1>3
<1>5. x - 1 \in S
  BY <1>2, <1>3, <1>4
<1>. QED
  BY <1>3, <1>4, <1>5

\* FlattenSeq(seqs) is the last value of f: the sequences joined one by one.
Joins(f, seqs, k) ==
  f = [i \in 1 .. k |-> IF i = 1 THEN seqs[i] ELSE f[i - 1] \o seqs[i]]

LEMMA JoinsExists ==
  ASSUME NEW seqs, NEW n \in Nat
  PROVE  \E f : Joins(f, seqs, n)
<1>. DEFINE S == {k \in Nat : \E f : Joins(f, seqs, k)}
<1>1. 0 \in S
  <2>1. Joins([i \in 1 .. 0 |-> 0], seqs, 0)
    BY DEF Joins
  <2>. QED BY <2>1
<1>2. ASSUME NEW k \in Nat, k \in S PROVE k + 1 \in S
  <2>1. PICK g : Joins(g, seqs, k)
    BY <1>2
  <2>. DEFINE h == [i \in 1 .. k + 1 |->
                      IF i = k + 1 THEN IF i = 1 THEN seqs[i] ELSE g[k] \o seqs[i] ELSE g[i]]
  <2>2. ASSUME NEW i \in 1 .. k + 1 PROVE h[i] = IF i = 1 THEN seqs[i] ELSE h[i - 1] \o seqs[i]
    <3>1. CASE i = k + 1
      BY <3>1
    <3>2. CASE i \in 1 .. k
      <4>1. g[i] = IF i = 1 THEN seqs[i] ELSE g[i - 1] \o seqs[i]
        BY <3>2, <2>1 DEF Joins
      <4>2. h[i] = g[i] /\ (i # 1 => h[i - 1] = g[i - 1])
        BY <3>2
      <4>. QED BY <4>1, <4>2
    <3>. QED BY <3>1, <3>2
  <2>3. h = [i \in 1 .. k + 1 |-> h[i]]
    OBVIOUS
  <2>. HIDE DEF h
  <2>4. Joins(h, seqs, k + 1)
    BY <2>2, <2>3 DEF Joins
  <2>. QED BY <2>4
<1>. HIDE DEF S
<1>3. n \in S
  BY <1>1, <1>2, SetInduction
<1>. QED
  BY <1>3 DEF S

LEMMA FlattenJoins ==
  ASSUME NEW seqs, Len(seqs) \in Nat \ {0}
  PROVE  \E f : Joins(f, seqs, Len(seqs)) /\ FlattenSeq(seqs) = f[Len(seqs)]
<1>. DEFINE n == Len(seqs)
<1>1. FlattenSeq(seqs) = (CHOOSE f : Joins(f, seqs, n))[n]
  BY DEF FlattenSeq, Joins
<1>2. \E f : Joins(f, seqs, n)
  BY JoinsExists
<1>. QED
  BY <1>1, <1>2

-----------------------------------------------------------------------------
(* Sequences joined with FlattenSeq. *)

\* The first k sequences of s, joined.
Joined(s, k) == FlattenSeq(SubSeq(s, 1, k))

LEMMA JoinedNone ==
  ASSUME NEW T, NEW s \in Seq(Seq(T))
  PROVE  Joined(s, 0) = <<>>
<1>1. SubSeq(s, 1, 0) = <<>>
  OBVIOUS
<1>. QED
  BY <1>1 DEF Joined, FlattenSeq

LEMMA JoinedAll ==
  ASSUME NEW T, NEW s \in Seq(Seq(T))
  PROVE  Joined(s, Len(s)) = FlattenSeq(s)
<1>1. SubSeq(s, 1, Len(s)) = s
  OBVIOUS
<1>. QED
  BY <1>1 DEF Joined

LEMMA JoinedNext ==
  ASSUME NEW T, NEW s \in Seq(Seq(T)), NEW k \in Nat, k + 1 <= Len(s),
         Joined(s, k) \in Seq(T)
  PROVE  Joined(s, k + 1) = Joined(s, k) \o s[k + 1]
<1>. DEFINE a == SubSeq(s, 1, k)
            b == SubSeq(s, 1, k + 1)
<1>1. /\ Len(a) = k /\ \A i \in 1 .. k : a[i] = s[i]
      /\ Len(b) = k + 1 /\ \A i \in 1 .. k + 1 : b[i] = s[i]
  OBVIOUS
<1>0. FlattenSeq(a) = Joined(s, k) /\ FlattenSeq(b) = Joined(s, k + 1)
  BY DEF Joined
<1>. HIDE DEF a, b
<1>2. PICK g : Joins(g, b, k + 1) /\ FlattenSeq(b) = g[k + 1]
  BY <1>1, FlattenJoins
<1>3. CASE k = 0
  <2>1. g[k + 1] = b[1]
    BY <1>2, <1>3 DEF Joins
  <2>2. s[1] \in Seq(T) /\ <<>> \o s[1] = s[1]
    OBVIOUS
  <2>3. Joined(s, 0) = <<>>
    BY JoinedNone
  <2>. QED
    BY <1>0, <1>1, <1>2, <1>3, <2>1, <2>2, <2>3, SMTT(30)
<1>4. CASE k > 0
  <2>0. Len(a) \in Nat \ {0}
    BY <1>1, <1>4
  <2>1. PICK f : Joins(f, a, k) /\ FlattenSeq(a) = f[k]
    BY <1>1, <2>0, FlattenJoins
  <2>. DEFINE S == {i \in Nat : i \in 1 .. k => f[i] = g[i]}
  <2>2. 0 \in S
    OBVIOUS
  <2>3. ASSUME NEW i \in Nat, i \in S PROVE i + 1 \in S
    <3>. SUFFICES ASSUME i + 1 \in 1 .. k PROVE f[i + 1] = g[i + 1]
      OBVIOUS
    <3>0. (i + 1) - 1 = i /\ i + 1 \in 1 .. k + 1 /\ (i + 1 # 1 => i \in 1 .. k)
      OBVIOUS
    <3>1. f[i + 1] = IF i + 1 = 1 THEN a[i + 1] ELSE f[(i + 1) - 1] \o a[i + 1]
      BY <2>1 DEF Joins
    <3>2. g[i + 1] = IF i + 1 = 1 THEN b[i + 1] ELSE g[(i + 1) - 1] \o b[i + 1]
      BY <1>2, <3>0 DEF Joins
    <3>3. a[i + 1] = b[i + 1]
      BY <1>1, <3>0
    <3>4. i + 1 # 1 => f[i] = g[i]
      BY <2>3, <3>0
    <3>. QED
      BY <3>0, <3>1, <3>2, <3>3, <3>4
  <2>. HIDE DEF S
  <2>4. k \in S
    BY <2>2, <2>3, SetInduction
  <2>5. f[k] = g[k]
    BY <2>4, <1>4 DEF S
  <2>6. g[k + 1] = g[(k + 1) - 1] \o b[k + 1]
    <3>1. k + 1 \in 1 .. k + 1 /\ k + 1 # 1
      BY <1>4
    <3>. QED BY <1>2, <3>1 DEF Joins
  <2>7. (k + 1) - 1 = k /\ b[k + 1] = s[k + 1]
    BY <1>1
  <2>. QED
    BY <1>0, <1>2, <2>1, <2>5, <2>6, <2>7
<1>. QED
  BY <1>3, <1>4

\* One sequence is the beginning of another.
Begins(s, t) ==
  /\ Len(s) <= Len(t)
  /\ \A j \in 1 .. Len(s) : s[j] = t[j]

LEMMA JoinedType ==
  ASSUME NEW T, NEW s \in Seq(Seq(T))
  PROVE  \A k \in 0 .. Len(s) : Joined(s, k) \in Seq(T)
<1>. DEFINE S == {k \in Nat : k <= Len(s) => Joined(s, k) \in Seq(T)}
<1>1. 0 \in S
  <2>1. <<>> \in Seq(T)
    OBVIOUS
  <2>. QED BY <2>1, JoinedNone
<1>2. ASSUME NEW k \in Nat, k \in S PROVE k + 1 \in S
  <2>. SUFFICES ASSUME k + 1 <= Len(s) PROVE Joined(s, k + 1) \in Seq(T)
    OBVIOUS
  <2>1. Joined(s, k) \in Seq(T)
    BY <1>2
  <2>2. Joined(s, k + 1) = Joined(s, k) \o s[k + 1]
    BY <2>1, JoinedNext
  <2>3. s[k + 1] \in Seq(T)
    OBVIOUS
  <2>4. Joined(s, k) \o s[k + 1] \in Seq(T)
    BY <2>1, <2>3
  <2>. QED
    BY <2>2, <2>4
<1>. HIDE DEF S
<1>3. Nat \subseteq S
  BY <1>1, <1>2, SetInduction
<1>. QED
  BY <1>3 DEF S

\* What the first k sequences make is the beginning of what all of them make.
LEMMA JoinedBegins ==
  ASSUME NEW T, NEW s \in Seq(Seq(T)), NEW i \in 0 .. Len(s)
  PROVE  Begins(Joined(s, i), FlattenSeq(s))
<1>. DEFINE S == {k \in Nat : i <= k /\ k <= Len(s) => Begins(Joined(s, i), Joined(s, k))}
<1>1. 0 \in S
  BY DEF Begins
<1>2. ASSUME NEW k \in Nat, k \in S PROVE k + 1 \in S
  <2>. SUFFICES ASSUME i <= k + 1, k + 1 <= Len(s) PROVE Begins(Joined(s, i), Joined(s, k + 1))
    OBVIOUS
  <2>1. CASE i = k + 1
    BY <2>1, JoinedType DEF Begins
  <2>2. CASE i <= k
    <3>1. Begins(Joined(s, i), Joined(s, k))
      BY <1>2, <2>2
    <3>2. Joined(s, k) \in Seq(T) /\ Joined(s, i) \in Seq(T) /\ s[k + 1] \in Seq(T)
      BY <2>2, JoinedType
    <3>3. Joined(s, k + 1) = Joined(s, k) \o s[k + 1]
      BY <3>2, JoinedNext
    <3>. QED
      BY <3>1, <3>2, <3>3 DEF Begins
  <2>. QED
    BY <2>1, <2>2
<1>. HIDE DEF S
<1>3. Nat \subseteq S
  BY <1>1, <1>2, SetInduction
<1>4. Len(s) \in S /\ i <= Len(s)
  BY <1>3
<1>. QED
  BY <1>4, JoinedAll DEF S

\* Where the i-th sequence lies in the joined ones.
LEMMA JoinedLayout ==
  ASSUME NEW T, NEW s \in Seq(Seq(T)), NEW i \in 1 .. Len(s)
  PROVE  /\ FlattenSeq(s) \in Seq(T)
         /\ Len(Joined(s, i - 1)) \in Nat
         /\ Len(Joined(s, i)) = Len(Joined(s, i - 1)) + Len(s[i])
         /\ Len(Joined(s, i)) <= Len(FlattenSeq(s))
         /\ \A j \in 1 .. Len(s[i]) : FlattenSeq(s)[Len(Joined(s, i - 1)) + j] = s[i][j]
<1>1. /\ i - 1 \in Nat /\ i - 1 \in 0 .. Len(s) /\ i \in 0 .. Len(s) /\ (i - 1) + 1 = i
      /\ Len(s) \in 0 .. Len(s) /\ s[i] \in Seq(T)
  OBVIOUS
<1>2. /\ Joined(s, i - 1) \in Seq(T) /\ Joined(s, i) \in Seq(T)
      /\ Joined(s, Len(s)) \in Seq(T)
  BY <1>1, JoinedType
<1>3. Joined(s, i) = Joined(s, i - 1) \o s[i]
  <2>. DEFINE k == i - 1
  <2>1. k \in Nat /\ k + 1 <= Len(s) /\ Joined(s, k) \in Seq(T) /\ k + 1 = i
    BY <1>1, <1>2
  <2>. HIDE DEF k
  <2>2. Joined(s, k + 1) = Joined(s, k) \o s[k + 1]
    BY <2>1, JoinedNext
  <2>. QED
    BY <2>1, <2>2 DEF k
<1>4. Begins(Joined(s, i), FlattenSeq(s))
  BY <1>1, JoinedBegins
<1>5. FlattenSeq(s) \in Seq(T)
  BY <1>2, JoinedAll
<1>6. \A j \in 1 .. Len(s[i]) : /\ Len(Joined(s, i - 1)) + j \in 1 .. Len(Joined(s, i))
                                  /\ Joined(s, i)[Len(Joined(s, i - 1)) + j] = s[i][j]
  BY <1>1, <1>2, <1>3
<1>7. /\ Len(Joined(s, i - 1)) \in Nat
      /\ Len(Joined(s, i)) = Len(Joined(s, i - 1)) + Len(s[i])
  BY <1>1, <1>2, <1>3
<1>. QED
  BY <1>4, <1>5, <1>6, <1>7 DEF Begins

-----------------------------------------------------------------------------
(* The parser's helpers. *)

LEMMA MinIs ==
  ASSUME NEW S \in SUBSET Int, NEW x \in S, \A y \in S : x <= y
  PROVE  Min(S) = x
<1>1. Min(S) \in S /\ \A y \in S : Min(S) <= y
  BY DEF Min
<1>2. Min(S) \in Int /\ x \in Int /\ x <= Min(S) /\ Min(S) <= x
  BY <1>1
<1>. QED
  BY <1>2

LEMMA MaxIs ==
  ASSUME NEW S \in SUBSET Int, NEW x \in S, \A y \in S : y <= x
  PROVE  Max(S) = x
<1>1. Max(S) \in S /\ \A y \in S : Max(S) >= y
  BY DEF Max
<1>2. Max(S) \in Int /\ x \in Int /\ Max(S) <= x /\ Max(S) >= x
  BY <1>1
<1>. QED
  BY <1>2

LEMMA MinOfTwo ==
  ASSUME NEW a \in Int, NEW b \in Int
  PROVE  Min({a, b}) = IF a <= b THEN a ELSE b
<1>1. CASE a <= b
  BY <1>1, MinIs
<1>2. CASE ~ (a <= b)
  BY <1>2, MinIs
<1>. QED
  BY <1>1, <1>2

LEMMA MaxOfTwo ==
  ASSUME NEW a \in Int, NEW b \in Int
  PROVE  Max({a, b}) = IF a >= b THEN a ELSE b
<1>1. CASE a >= b
  BY <1>1, MaxIs
<1>2. CASE ~ (a >= b)
  BY <1>2, MaxIs
<1>. QED
  BY <1>1, <1>2

LEMMA SameSeq ==
  ASSUME NEW a \in Seq(Token), NEW b \in Seq(Token), Len(a) = Len(b),
         \A j \in 1 .. Len(a) : a[j] = b[j]
  PROVE  a = b
<1>1. a = [j \in 1 .. Len(a) |-> a[j]] /\ b = [j \in 1 .. Len(b) |-> b[j]]
  OBVIOUS
<1>. QED
  BY <1>1

LEMMA ConcatFacts ==
  ASSUME NEW T, NEW a \in Seq(T), NEW b \in Seq(T)
  PROVE  /\ a \o b \in Seq(T)
         /\ Len(a \o b) = Len(a) + Len(b)
         /\ \A i \in 1 .. Len(a) : (a \o b)[i] = a[i]
         /\ \A i \in 1 .. Len(b) : (a \o b)[Len(a) + i] = b[i]
  OBVIOUS

LEMMA TokenFacts ==
  /\ "status" \in Token /\ "junk" \in Token /\ "te" \in Token /\ "cl" \in Token
  /\ "x" \in Token /\ "d" \in Token /\ "neg" \in Token /\ "s0" \in Token
  /\ "cr" \in Token /\ "lf" \in Token
  /\ Bytes \subseteq Token
  /\ \A i \in DOMAIN SizeToken : SizeToken[i] \in Token
  BY DEF Token, ToSet

LEMMA BlankFacts ==
  /\ Blank \in Seq(Token)
  /\ Len(Blank) = 2
  /\ Blank[1] = "cr" /\ Blank[2] = "lf"
  BY TokenFacts DEF Blank

LEMMA LineFacts ==
  ASSUME NEW t \in Token
  PROVE  /\ Line(t) \in Seq(Token)
         /\ Len(Line(t)) = 3
         /\ Line(t)[1] = t /\ Line(t)[2] = "cr" /\ Line(t)[3] = "lf"
  BY TokenFacts DEF Line

LEMMA DropFacts ==
  ASSUME NEW s \in Seq(Token), NEW n \in 0 .. Len(s)
  PROVE  /\ Drop(s, n) \in Seq(Token)
         /\ Len(Drop(s, n)) = Len(s) - n
         /\ \A j \in 1 .. Len(s) - n : Drop(s, n)[j] = s[n + j]
  BY DEF Drop

LEMMA TakeFacts ==
  ASSUME NEW s \in Seq(Token), NEW n \in 0 .. Len(s)
  PROVE  /\ Take(s, n) \in Seq(Token)
         /\ Len(Take(s, n)) = n
         /\ \A j \in 1 .. n : Take(s, n)[j] = s[j]
  BY DEF Take

\* A line of one token is found as soon as all of it is there.
LEMMA NoCrlf ==
  ASSUME NEW s \in Seq(Token), Len(s) < 3, Len(s) > 0 => s[1] # "cr"
  PROVE  FindCrlf(s) = 0
<1>1. {i \in 1 .. Len(s) - 1 : s[i] = "cr" /\ s[i + 1] = "lf"} = {}
  OBVIOUS
<1>. QED
  BY <1>1 DEF FindCrlf

LEMMA CrlfAt2 ==
  ASSUME NEW s \in Seq(Token), Len(s) >= 3, s[1] # "cr", s[2] = "cr", s[3] = "lf"
  PROVE  FindCrlf(s) = 2
<1>. DEFINE at == {i \in 1 .. Len(s) - 1 : s[i] = "cr" /\ s[i + 1] = "lf"}
<1>1. 2 \in at /\ at \in SUBSET Int /\ \A y \in at : 2 <= y
  OBVIOUS
<1>2. FindCrlf(s) = IF at = {} THEN 0 ELSE Min(at)
  BY DEF FindCrlf
<1>. HIDE DEF at
<1>3. Min(at) = 2
  BY <1>1, MinIs
<1>. QED
  BY <1>1, <1>2, <1>3

\* A blank line ends at i + 3.
BlankAt(s, i) == s[i] = "cr" /\ s[i + 1] = "lf" /\ s[i + 2] = "cr" /\ s[i + 3] = "lf"

LEMMA BlankIsFour ==
  ASSUME NEW s \in Seq(Token), NEW i \in 1 .. Len(s) - 3
  PROVE  (SubSeq(s, i, i + 3) = Blank \o Blank) <=> BlankAt(s, i)
<1>. DEFINE a == SubSeq(s, i, i + 3)
            b == Blank \o Blank
<1>1. a \in Seq(Token) /\ Len(a) = 4 /\ a[1] = s[i] /\ a[2] = s[i + 1] /\ a[3] = s[i + 2] /\ a[4] = s[i + 3]
  OBVIOUS
<1>2. b \in Seq(Token) /\ Len(b) = 4 /\ b[1] = "cr" /\ b[2] = "lf" /\ b[3] = "cr" /\ b[4] = "lf"
  <2>. DEFINE c == Blank
  <2>0. c \in Seq(Token) /\ b = c \o c
    BY BlankFacts
  <2>1. Len(c) = 2 /\ c[1] = "cr" /\ c[2] = "lf"
    BY BlankFacts
  <2>. HIDE DEF c, b
  <2>2. /\ b \in Seq(Token) /\ Len(b) = Len(c) + Len(c)
        /\ \A j \in 1 .. Len(c) : b[j] = c[j]
        /\ \A j \in 1 .. Len(c) : b[Len(c) + j] = c[j]
    BY <2>0, ConcatFacts
  <2>. QED
    BY <2>1, <2>2
<1>. HIDE DEF a, b
<1>3. ASSUME BlankAt(s, i) PROVE a = b
  <2>1. \A j \in 1 .. 4 : a[j] = b[j]
    BY <1>1, <1>2, <1>3 DEF BlankAt
  <2>. QED
    BY <1>1, <1>2, <2>1, SameSeq
<1>4. ASSUME a = b PROVE BlankAt(s, i)
  BY <1>1, <1>2, <1>4 DEF BlankAt
<1>. QED
  BY <1>3, <1>4 DEF a, b

LEMMA NoBlank ==
  ASSUME NEW s \in Seq(Token), \A i \in 1 .. Len(s) - 3 : ~BlankAt(s, i)
  PROVE  FindBlank(s) = 0
<1>1. {i \in 1 .. Len(s) - 3 : SubSeq(s, i, i + 3) = Blank \o Blank} = {}
  BY BlankIsFour
<1>. QED
  BY <1>1 DEF FindBlank

LEMMA FirstBlank ==
  ASSUME NEW s \in Seq(Token), NEW k \in 1 .. Len(s) - 3, BlankAt(s, k),
         \A i \in 1 .. k - 1 : ~BlankAt(s, i)
  PROVE  FindBlank(s) = k
<1>. DEFINE at == {i \in 1 .. Len(s) - 3 : SubSeq(s, i, i + 3) = Blank \o Blank}
<1>1. k \in at
  BY BlankIsFour
<1>2. ASSUME NEW y \in at PROVE k <= y
  <2>1. y \in 1 .. Len(s) - 3 /\ BlankAt(s, y)
    BY BlankIsFour
  <2>. QED
    BY <2>1
<1>3. FindBlank(s) = IF at = {} THEN 0 ELSE Min(at)
  BY DEF FindBlank
<1>4. at \in SUBSET Int
  OBVIOUS
<1>. HIDE DEF at
<1>5. Min(at) = k
  BY <1>1, <1>2, <1>4, MinIs
<1>. QED
  BY <1>1, <1>3, <1>5

-----------------------------------------------------------------------------
(* The text of a response: the status line, then the header lines. *)

\* h consists of lines of one token each.
Lines(h) ==
  /\ h \in Seq(Token)
  /\ \E k \in Nat :
       /\ Len(h) = 3 * k
       /\ \A i \in 0 .. k - 1 :
            h[3 * i + 1] \notin {"cr", "lf"} /\ h[3 * i + 2] = "cr" /\ h[3 * i + 3] = "lf"

LEMMA LinesMore ==
  ASSUME NEW h, Lines(h), NEW there \in BOOLEAN, NEW t \in Token \ {"cr", "lf"}
  PROVE  /\ Lines(h \o LineIf(there, t))
         /\ \A w \in Token \ {"cr", "lf"} :
              w \in ToSet(h \o LineIf(there, t)) <=> w \in ToSet(h) \/ (there /\ w = t)
<1>1. CASE ~there
  <2>1. h \o LineIf(there, t) = h
    BY <1>1 DEF LineIf, Lines
  <2>. QED
    BY <1>1, <2>1
<1>2. CASE there
  <2>. DEFINE g == h \o Line(t)
  <2>1. h \in Seq(Token)
    BY DEF Lines
  <2>2. /\ g \in Seq(Token)
        /\ Len(g) = Len(h) + 3
        /\ \A i \in 1 .. Len(h) : g[i] = h[i]
        /\ g[Len(h) + 1] = t /\ g[Len(h) + 2] = "cr" /\ g[Len(h) + 3] = "lf"
    <3>. DEFINE c == Line(t)
    <3>0. c \in Seq(Token) /\ g = h \o c
      BY LineFacts
    <3>1. Len(c) = 3 /\ c[1] = t /\ c[2] = "cr" /\ c[3] = "lf"
      BY LineFacts
    <3>. HIDE DEF c, g
    <3>2. /\ g \in Seq(Token) /\ Len(g) = Len(h) + Len(c)
          /\ \A i \in 1 .. Len(h) : g[i] = h[i]
          /\ \A i \in 1 .. Len(c) : g[Len(h) + i] = c[i]
      BY <2>1, <3>0, ConcatFacts
    <3>. QED
      BY <3>1, <3>2
  <2>3. h \o LineIf(there, t) = g
    BY <1>2 DEF LineIf
  <2>. HIDE DEF g
  <2>4. Lines(g)
    <3>1. PICK k \in Nat : /\ Len(h) = 3 * k
                           /\ \A i \in 0 .. k - 1 :
                                h[3 * i + 1] \notin {"cr", "lf"} /\ h[3 * i + 2] = "cr" /\ h[3 * i + 3] = "lf"
      BY DEF Lines
    <3>2. k + 1 \in Nat /\ Len(g) = 3 * (k + 1)
      BY <2>2, <3>1
    <3>3. ASSUME NEW i \in 0 .. (k + 1) - 1
          PROVE  g[3 * i + 1] \notin {"cr", "lf"} /\ g[3 * i + 2] = "cr" /\ g[3 * i + 3] = "lf"
      <4>1. CASE i = k
        BY <2>2, <3>1, <4>1
      <4>2. CASE i \in 0 .. k - 1
        <5>1. 3 * i + 1 \in 1 .. Len(h) /\ 3 * i + 2 \in 1 .. Len(h) /\ 3 * i + 3 \in 1 .. Len(h)
          BY <3>1, <4>2
        <5>. QED
          BY <2>2, <3>1, <4>2, <5>1
      <4>. QED
        BY <4>1, <4>2
    <3>. QED
      BY <2>2, <3>2, <3>3 DEF Lines
  <2>5. ASSUME NEW w \in Token \ {"cr", "lf"} PROVE w \in ToSet(g) <=> w \in ToSet(h) \/ w = t
    <3>1. ASSUME w \in ToSet(g) PROVE w \in ToSet(h) \/ w = t
      <4>1. PICK i \in 1 .. Len(g) : w = g[i]
        BY <3>1, <2>2 DEF ToSet
      <4>2. CASE i \in 1 .. Len(h)
        BY <2>1, <2>2, <4>1, <4>2 DEF ToSet
      <4>3. CASE i \in {Len(h) + 1, Len(h) + 2, Len(h) + 3}
        BY <2>2, <4>1, <4>3
      <4>. QED
        BY <2>1, <2>2, <4>1, <4>2, <4>3
    <3>2. ASSUME w \in ToSet(h) PROVE w \in ToSet(g)
      <4>1. PICK i \in 1 .. Len(h) : w = h[i]
        BY <3>2, <2>1 DEF ToSet
      <4>2. i \in 1 .. Len(g) /\ g[i] = w
        BY <2>1, <2>2, <4>1
      <4>. QED
        BY <2>2, <4>2 DEF ToSet
    <3>3. ASSUME w = t PROVE w \in ToSet(g)
      <4>1. Len(h) + 1 \in 1 .. Len(g)
        BY <2>1, <2>2
      <4>. QED
        BY <2>2, <3>3, <4>1 DEF ToSet
    <3>. QED
      BY <3>1, <3>2, <3>3
  <2>. QED
    BY <1>2, <2>3, <2>4, <2>5
<1>. QED
  BY <1>1, <1>2

LEMMA HeaderFacts ==
  ASSUME NEW m, WellTyped(m)
  PROVE  /\ Lines(HeaderText(m))
         /\ "te" \in ToSet(HeaderText(m)) <=> m.te
         /\ "cl" \in ToSet(HeaderText(m)) <=> m.cl # NoLength
         /\ "junk" \in ToSet(HeaderText(m)) <=> m.bad = "header"
<1>. DEFINE l == m.cl # NoLength
            b == m.bad = "header"
            h1 == <<>> \o LineIf(m.te, "te")
            h2 == h1 \o LineIf(l, "cl")
            h3 == h2 \o LineIf(b, "junk")
<1>1. m.te \in BOOLEAN /\ l \in BOOLEAN /\ b \in BOOLEAN
  BY DEF WellTyped
<1>2. LineIf(m.te, "te") \in Seq(Token)
  BY <1>1, TokenFacts, LineFacts DEF LineIf
<1>3. HeaderText(m) = h3
  BY <1>2 DEF HeaderText
<1>4. Lines(<<>>) /\ ToSet(<<>>) = {}
  BY DEF Lines, ToSet
<1>5. {"te", "cl", "junk"} \subseteq Token \ {"cr", "lf"}
  BY TokenFacts
<1>. HIDE DEF l, b, h2, h3
<1>6. /\ Lines(h1)
      /\ \A w \in Token \ {"cr", "lf"} : w \in ToSet(h1) <=> w \in ToSet(<<>>) \/ (m.te /\ w = "te")
  BY <1>1, <1>4, <1>5, LinesMore
<1>. HIDE DEF h1
<1>7. /\ Lines(h2)
      /\ \A w \in Token \ {"cr", "lf"} : w \in ToSet(h2) <=> w \in ToSet(h1) \/ (l /\ w = "cl")
  BY <1>1, <1>5, <1>6, LinesMore DEF h2
<1>8. /\ Lines(h3)
      /\ \A w \in Token \ {"cr", "lf"} : w \in ToSet(h3) <=> w \in ToSet(h2) \/ (b /\ w = "junk")
  BY <1>1, <1>5, <1>7, LinesMore DEF h3
<1>. QED
  BY <1>3, <1>4, <1>5, <1>6, <1>7, <1>8 DEF l, b

LEMMA DivideByThree ==
  ASSUME NEW p \in Nat, p > 0
  PROVE  \E q \in Nat : p = 3 * q + 1 \/ p = 3 * q + 2 \/ p = 3 * q + 3
<1>. DEFINE S == {n \in Nat : \E q \in Nat : n + 1 = 3 * q + 1 \/ n + 1 = 3 * q + 2 \/ n + 1 = 3 * q + 3}
<1>1. 0 \in S
  <2>1. 0 + 1 = 3 * 0 + 1
    OBVIOUS
  <2>. QED BY <2>1
<1>2. ASSUME NEW n \in Nat, n \in S PROVE n + 1 \in S
  <2>1. PICK q \in Nat : n + 1 = 3 * q + 1 \/ n + 1 = 3 * q + 2 \/ n + 1 = 3 * q + 3
    BY <1>2
  <2>2. CASE n + 1 = 3 * q + 3
    <3>. DEFINE r == q + 1
    <3>1. r \in Nat /\ (n + 1) + 1 = 3 * r + 1
      BY <2>2
    <3>. HIDE DEF r
    <3>2. \E x \in Nat : (n + 1) + 1 = 3 * x + 1
      BY <3>1
    <3>. QED BY <3>2
  <2>3. CASE n + 1 # 3 * q + 3
    BY <2>1, <2>3
  <2>. QED BY <2>2, <2>3
<1>. HIDE DEF S
<1>3. p - 1 \in S
  BY <1>1, <1>2, SetInduction
<1>4. PICK q \in Nat : (p - 1) + 1 = 3 * q + 1 \/ (p - 1) + 1 = 3 * q + 2 \/ (p - 1) + 1 = 3 * q + 3
  BY <1>3 DEF S
<1>. QED
  BY <1>4

\* A block of lines is followed by its blank line: it ends where that begins.
LEMMA HeaderBlank ==
  ASSUME NEW h, Lines(h), Len(h) > 0, NEW s \in Seq(Token),
         \A j \in 1 .. Len(s) : j <= Len(h) => s[j] = h[j],
         Len(s) >= Len(h) + 1 => s[Len(h) + 1] = "cr",
         Len(s) >= Len(h) + 2 => s[Len(h) + 2] = "lf"
  PROVE  /\ Len(h) >= 3
         /\ Len(s) >= 1 => s[1] # "cr"
         /\ FindBlank(s) = IF Len(s) < Len(h) + 2 THEN 0 ELSE Len(h) - 1
         /\ Len(s) >= Len(h) + 2 =>
              \A w \in Token \ {"cr", "lf"} : w \in ToSet(Take(s, Len(h) - 2)) <=> w \in ToSet(h)
<1>1. h \in Seq(Token) /\ Len(h) \in Nat /\ Len(s) \in Nat
  BY DEF Lines
<1>2. PICK k \in Nat : /\ Len(h) = 3 * k
                       /\ \A i \in 0 .. k - 1 :
                            h[3 * i + 1] \notin {"cr", "lf"} /\ h[3 * i + 2] = "cr" /\ h[3 * i + 3] = "lf"
  BY DEF Lines
<1>3. k >= 1 /\ Len(h) >= 3
  BY <1>1, <1>2
<1>4. Len(s) >= 1 => s[1] # "cr"
  <2>1. 0 \in 0 .. k - 1 /\ 3 * 0 + 1 = 1
    BY <1>3
  <2>2. h[1] # "cr"
    BY <1>2, <2>1
  <2>. QED
    BY <1>1, <1>3, <2>2
<1>5. h[Len(h) - 1] = "cr" /\ h[Len(h)] = "lf"
  <2>1. k - 1 \in 0 .. k - 1 /\ 3 * (k - 1) + 2 = Len(h) - 1 /\ 3 * (k - 1) + 3 = Len(h)
    BY <1>2, <1>3
  <2>. QED
    BY <1>2, <2>1
<1>6. ASSUME NEW i \in 1 .. Len(s) - 3, i < Len(h) - 1 PROVE ~BlankAt(s, i)
  <2>1. PICK q \in Nat : i = 3 * q + 1 \/ i = 3 * q + 2 \/ i = 3 * q + 3
    <3>1. i \in Nat /\ i > 0
      BY <1>1
    <3>. QED
      BY <3>1, DivideByThree
  <2>2. i + 2 <= Len(h) /\ i \in 1 .. Len(s) /\ i + 2 \in 1 .. Len(s) /\ q \in 0 .. k - 1
    BY <1>1, <1>2, <1>6, <2>1
  <2>3. s[i] = h[i] /\ s[i + 2] = h[i + 2]
    BY <1>1, <2>2
  <2>4. CASE i = 3 * q + 1
    BY <1>2, <2>2, <2>3, <2>4 DEF BlankAt
  <2>5. CASE i = 3 * q + 2
    <3>1. q + 1 \in 0 .. k - 1 /\ i + 2 = 3 * (q + 1) + 1
      BY <1>2, <2>2, <2>5
    <3>2. h[i + 2] # "cr"
      BY <1>2, <3>1
    <3>. QED
      BY <2>3, <3>2 DEF BlankAt
  <2>6. CASE i = 3 * q + 3
    <3>1. h[i] = "lf"
      BY <1>2, <2>2, <2>6
    <3>. QED
      BY <2>3, <3>1 DEF BlankAt
  <2>. QED
    BY <2>1, <2>4, <2>5, <2>6
<1>7. CASE Len(s) < Len(h) + 2
  <2>1. \A i \in 1 .. Len(s) - 3 : ~BlankAt(s, i)
    BY <1>1, <1>6, <1>7
  <2>2. FindBlank(s) = 0
    BY <2>1, NoBlank
  <2>. QED
    BY <1>1, <1>3, <1>4, <1>7, <2>2
<1>8. CASE Len(s) >= Len(h) + 2
  <2>. DEFINE e == Len(h) - 1
              b == Take(s, Len(h) - 2)
  <2>1. e \in 1 .. Len(s) - 3 /\ e + 1 = Len(h) /\ e + 2 = Len(h) + 1 /\ e + 3 = Len(h) + 2
    BY <1>1, <1>3, <1>8
  <2>2. s[Len(h) - 1] = "cr" /\ s[Len(h)] = "lf" /\ s[Len(h) + 1] = "cr" /\ s[Len(h) + 2] = "lf"
    <3>1. Len(h) - 1 \in 1 .. Len(s) /\ Len(h) \in 1 .. Len(s) /\ Len(h) - 1 <= Len(h) /\ Len(h) <= Len(h)
      BY <1>1, <1>3, <1>8
    <3>2. s[Len(h) - 1] = h[Len(h) - 1] /\ s[Len(h)] = h[Len(h)]
      BY <3>1
    <3>3. Len(s) >= Len(h) + 1
      BY <1>1, <1>8
    <3>. QED
      BY <1>5, <1>8, <3>2, <3>3
  <2>3. BlankAt(s, e)
    BY <2>1, <2>2 DEF BlankAt
  <2>4. \A i \in 1 .. e - 1 : ~BlankAt(s, i)
    <3>1. \A i \in 1 .. e - 1 : i \in 1 .. Len(s) - 3 /\ i < Len(h) - 1
      BY <1>1, <2>1
    <3>. QED
      BY <1>6, <3>1
  <2>5. FindBlank(s) = Len(h) - 1
    <3>. HIDE DEF e
    <3>1. FindBlank(s) = e
      BY <2>1, <2>3, <2>4, FirstBlank
    <3>. QED
      BY <3>1 DEF e
  <2>6. Len(h) - 2 \in 0 .. Len(s)
    BY <1>1, <1>3, <1>8
  <2>7. b \in Seq(Token) /\ Len(b) = Len(h) - 2 /\ \A j \in 1 .. Len(h) - 2 : b[j] = s[j]
    BY <2>6, TakeFacts
  <2>. HIDE DEF b
  <2>8. \A j \in 1 .. Len(h) - 2 : b[j] = h[j] /\ j \in 1 .. Len(h)
    <3>1. \A j \in 1 .. Len(h) - 2 : j \in 1 .. Len(s) /\ j <= Len(h) /\ j \in 1 .. Len(h)
      BY <1>1, <1>8
    <3>. QED
      BY <2>7, <3>1
  <2>9. ASSUME NEW w \in Token \ {"cr", "lf"} PROVE w \in ToSet(b) <=> w \in ToSet(h)
    <3>1. ASSUME w \in ToSet(b) PROVE w \in ToSet(h)
      <4>1. PICK j \in 1 .. Len(h) - 2 : w = b[j]
        BY <2>7, <3>1 DEF ToSet
      <4>2. j \in 1 .. Len(h) /\ w = h[j]
        BY <2>8, <4>1
      <4>. QED
        BY <1>1, <4>2 DEF ToSet
    <3>2. ASSUME w \in ToSet(h) PROVE w \in ToSet(b)
      <4>1. PICK j \in 1 .. Len(h) : w = h[j]
        BY <1>1, <3>2 DEF ToSet
      <4>2. j # Len(h) - 1 /\ j # Len(h)
        BY <1>5, <4>1
      <4>3. j \in 1 .. Len(h) - 2
        BY <1>1, <4>1, <4>2
      <4>4. w = b[j] /\ j \in 1 .. Len(b)
        BY <2>7, <2>8, <4>1, <4>3
      <4>. QED
        BY <2>7, <4>4 DEF ToSet
    <3>. QED
      BY <3>1, <3>2
  <2>10. \A w \in Token \ {"cr", "lf"} : w \in ToSet(Take(s, Len(h) - 2)) <=> w \in ToSet(h)
    BY <2>9 DEF b
  <2>. QED
    BY <1>1, <1>3, <1>4, <1>8, <2>5, <2>10
<1>. QED
  BY <1>1, <1>7, <1>8

-----------------------------------------------------------------------------
(* Where the parts of a text lie in it. *)

\* s lies in t after the first a tokens.
Lies(s, t, a) ==
  /\ a + Len(s) <= Len(t)
  /\ \A j \in 1 .. Len(s) : t[a + j] = s[j]

LEMMA LiesJoined ==
  ASSUME NEW T, NEW s \in Seq(T), NEW t \in Seq(T)
  PROVE  /\ s \o t \in Seq(T)
         /\ Len(s \o t) = Len(s) + Len(t)
         /\ Lies(s, s \o t, 0)
         /\ Lies(t, s \o t, Len(s))
  BY ConcatFacts DEF Lies

LEMMA LiesWithin ==
  ASSUME NEW T, NEW s \in Seq(T), NEW t \in Seq(T), NEW u \in Seq(T), NEW a \in Nat, NEW b \in Nat,
         Lies(s, t, a), Lies(t, u, b)
  PROVE  Lies(s, u, b + a)
<1>1. b + a + Len(s) <= Len(u)
  BY DEF Lies
<1>2. ASSUME NEW j \in 1 .. Len(s) PROVE u[(b + a) + j] = s[j]
  <2>0. a + Len(s) <= Len(t) /\ t[a + j] = s[j]
    BY DEF Lies
  <2>1. a + j \in 1 .. Len(t) /\ t[a + j] = s[j]
    BY <2>0
  <2>2. u[b + (a + j)] = t[a + j]
    BY <2>1 DEF Lies
  <2>3. b + (a + j) = (b + a) + j
    OBVIOUS
  <2>. QED
    BY <2>1, <2>2, <2>3
<1>. QED
  BY <1>1, <1>2 DEF Lies

LEMMA LiesLine ==
  ASSUME NEW t \in Token, NEW u \in Seq(Token), NEW a \in Nat, Lies(Line(t), u, a)
  PROVE  /\ a + 3 <= Len(u)
         /\ u[a + 1] = t /\ u[a + 2] = "cr" /\ u[a + 3] = "lf"
<1>. DEFINE c == Line(t)
<1>1. Len(c) = 3 /\ c[1] = t /\ c[2] = "cr" /\ c[3] = "lf"
  BY LineFacts
<1>2. Lies(c, u, a)
  OBVIOUS
<1>. HIDE DEF c
<1>. QED
  BY <1>1, <1>2 DEF Lies

LEMMA LiesBlank ==
  ASSUME NEW u \in Seq(Token), NEW a \in Nat, Lies(Blank, u, a)
  PROVE  /\ a + 2 <= Len(u)
         /\ u[a + 1] = "cr" /\ u[a + 2] = "lf"
<1>. DEFINE c == Blank
<1>1. Len(c) = 2 /\ c[1] = "cr" /\ c[2] = "lf"
  BY BlankFacts
<1>2. Lies(c, u, a)
  OBVIOUS
<1>. HIDE DEF c
<1>. QED
  BY <1>1, <1>2 DEF Lies

LEMMA DataType ==
  ASSUME NEW m, WellTyped(m)
  PROVE  Data(m) \in Seq(Bytes) /\ Data(m) \in Seq(Token)
<1>1. m.chunks \in Seq(Seq(Bytes))
  BY DEF WellTyped
<1>2. Len(m.chunks) \in 0 .. Len(m.chunks)
  BY <1>1
<1>3. Data(m) \in Seq(Bytes)
  BY <1>1, <1>2, JoinedType, JoinedAll DEF Data
<1>. QED
  BY <1>3, TokenFacts

\* The texts of the chunks.
ChunkTexts(m) == [i \in 1 .. Len(m.chunks) |-> ChunkText(m.chunks[i], ChunkEnd(m))]

\* One chunk: its size line, its data and its end.
LEMMA ChunkTextFacts ==
  ASSUME NEW m, WellTyped(m), NEW i \in 1 .. Len(m.chunks)
  PROVE  LET c == m.chunks[i]
             t == ChunkText(c, ChunkEnd(m))
         IN  /\ c \in Seq(Bytes) /\ Len(c) \in 1 .. Len(SizeToken)
             /\ t \in Seq(Token)
             /\ Len(t) = 3 + Len(c) + (IF m.bad = "crlf" THEN 3 ELSE 2)
             /\ t[1] = SizeToken[Len(c)] /\ t[2] = "cr" /\ t[3] = "lf"
             /\ Lies(c, t, 3)
             /\ t[3 + Len(c) + 1] = IF m.bad = "crlf" THEN "d" ELSE "cr"
             /\ t[3 + Len(c) + 2] = IF m.bad = "crlf" THEN "cr" ELSE "lf"
<1>. DEFINE c == m.chunks[i]
            z == SizeToken[Len(c)]
            e == ChunkEnd(m)
            l == Line(z)
            t1 == l \o c
            t == t1 \o e
<1>1. c \in Seq(Bytes) /\ Len(c) \in 1 .. Len(SizeToken)
  BY DEF WellTyped
<1>2. c \in Seq(Token)
  BY <1>1, TokenFacts
<1>3. z \in Token
  BY <1>1, TokenFacts, SizesAssumption
<1>4. e \in Seq(Token) /\ Len(e) = (IF m.bad = "crlf" THEN 3 ELSE 2)
      /\ e[1] = (IF m.bad = "crlf" THEN "d" ELSE "cr") /\ e[2] = (IF m.bad = "crlf" THEN "cr" ELSE "lf")
  <2>1. CASE m.bad # "crlf"
    BY <2>1, BlankFacts DEF ChunkEnd
  <2>2. CASE m.bad = "crlf"
    <3>. DEFINE d == <<"d">>
                b == Blank
    <3>1. d \in Seq(Token) /\ b \in Seq(Token) /\ e = d \o b
      BY <2>2, TokenFacts, BlankFacts DEF ChunkEnd
    <3>2. Len(d) = 1 /\ d[1] = "d" /\ Len(b) = 2 /\ b[1] = "cr" /\ b[2] = "lf"
      BY BlankFacts
    <3>. HIDE DEF b, d, e
    <3>3. /\ e \in Seq(Token) /\ Len(e) = Len(d) + Len(b)
          /\ \A j \in 1 .. Len(d) : e[j] = d[j]
          /\ \A j \in 1 .. Len(b) : e[Len(d) + j] = b[j]
      BY <3>1, ConcatFacts
    <3>. QED
      BY <2>2, <3>2, <3>3
  <2>. QED
    BY <2>1, <2>2
<1>5. ChunkText(c, ChunkEnd(m)) = t
  BY DEF ChunkText
<1>6. l \in Seq(Token) /\ Len(l) = 3
  BY <1>3, LineFacts
<1>7. Lies(l, l, 0)
  BY DEF Lies
<1>. HIDE DEF c, e, l, t, t1, z
<1>8. t1 \in Seq(Token) /\ Len(t1) = Len(l) + Len(c) /\ Lies(l, t1, 0) /\ Lies(c, t1, Len(l))
  BY <1>2, <1>6, LiesJoined DEF t1
<1>9. t \in Seq(Token) /\ Len(t) = Len(t1) + Len(e) /\ Lies(t1, t, 0) /\ Lies(e, t, Len(t1))
  BY <1>4, <1>8, LiesJoined DEF t
<1>10. Lies(l, t, 0) /\ Lies(c, t, 3)
  BY <1>2, <1>6, <1>8, <1>9 DEF Lies
<1>11. t[1] = z /\ t[2] = "cr" /\ t[3] = "lf"
  <2>1. Lies(Line(z), t, 0) /\ 0 \in Nat
    BY <1>10 DEF l
  <2>2. t[0 + 1] = z /\ t[0 + 2] = "cr" /\ t[0 + 3] = "lf"
    BY <1>3, <1>9, <2>1, LiesLine
  <2>. QED
    BY <2>2
<1>12. Len(t1) = 3 + Len(c) /\ Len(c) \in Nat /\ Len(e) >= 2
  BY <1>1, <1>4, <1>6, <1>8
<1>13. t[Len(t1) + 1] = e[1] /\ t[Len(t1) + 2] = e[2]
  BY <1>9, <1>12 DEF Lies
<1>14. t[3 + Len(c) + 1] = e[1] /\ t[3 + Len(c) + 2] = e[2] /\ Len(t) = 3 + Len(c) + Len(e)
  BY <1>9, <1>12, <1>13
<1>. QED
  BY <1>1, <1>4, <1>5, <1>9, <1>10, <1>11, <1>14 DEF c, t, z

\* The first byte of the body is after the first Start(m) tokens.
Start(m) == Len(HeaderText(m)) + 5

\* The i-th chunk begins after these tokens of the text and these bytes of data.
ChunkAt(m, i) == Start(m) + Len(Joined(ChunkTexts(m), i - 1))
DataAt(m, i) == Len(Joined(m.chunks, i - 1))

LEMMA LineIfType ==
  ASSUME NEW there \in BOOLEAN, NEW t \in Token
  PROVE  LineIf(there, t) \in Seq(Token) /\ Len(LineIf(there, t)) = IF there THEN 3 ELSE 0
<1>1. <<>> \in Seq(Token) /\ Len(<<>>) = 0
  OBVIOUS
<1>2. Line(t) \in Seq(Token) /\ Len(Line(t)) = 3
  BY LineFacts
<1>3. CASE there
  BY <1>2, <1>3 DEF LineIf
<1>4. CASE ~there
  BY <1>1, <1>4 DEF LineIf
<1>. QED
  BY <1>3, <1>4

LEMMA ChunkTextsType ==
  ASSUME NEW m, WellTyped(m)
  PROVE  /\ ChunkTexts(m) \in Seq(Seq(Token)) /\ Len(ChunkTexts(m)) = Len(m.chunks)
         /\ FlattenSeq(ChunkTexts(m)) \in Seq(Token)
<1>1. \A i \in 1 .. Len(m.chunks) : ChunkText(m.chunks[i], ChunkEnd(m)) \in Seq(Token)
  BY ChunkTextFacts
<1>2. Len(m.chunks) \in Nat
  BY DEF WellTyped
<1>3. ChunkTexts(m) \in Seq(Seq(Token)) /\ Len(ChunkTexts(m)) = Len(m.chunks)
  BY <1>1, <1>2 DEF ChunkTexts
<1>4. Len(ChunkTexts(m)) \in 0 .. Len(ChunkTexts(m))
  BY <1>2, <1>3
<1>. QED
  BY <1>3, <1>4, JoinedType, JoinedAll

LEMMA LastSizeType ==
  ASSUME NEW m
  PROVE  LastSize(m) \in {"junk", "neg", "s0"} /\ LastSize(m) \in Token
  BY TokenFacts DEF LastSize

\* The body of a chunked response: the chunks, the last size, the trailers.
LEMMA ChunkedBody ==
  ASSUME NEW m, WellTyped(m), m.te, ~NoBodyCode(m.code)
  PROVE  LET f == FlattenSeq(ChunkTexts(m))
             x == IF m.trailer THEN 3 ELSE 0
         IN  /\ BodyText(m) \in Seq(Token)
             /\ Len(BodyText(m)) = Len(f) + 3 + x + 2
             /\ Lies(f, BodyText(m), 0)
             /\ Lies(Line(LastSize(m)), BodyText(m), Len(f))
             /\ m.trailer => Lies(Line("x"), BodyText(m), Len(f) + 3)
             /\ Lies(Blank, BodyText(m), Len(f) + 3 + x)
<1>. DEFINE f == FlattenSeq(ChunkTexts(m))
            l == Line(LastSize(m))
            x == LineIf(m.trailer, "x")
            e == Blank
            t1 == f \o l
            t2 == t1 \o x
            t3 == t2 \o e
<1>1. BodyText(m) = t3
  BY DEF BodyText, ChunkTexts
<1>2. f \in Seq(Token) /\ l \in Seq(Token) /\ x \in Seq(Token) /\ e \in Seq(Token)
  BY ChunkTextsType, LastSizeType, LineFacts, LineIfType, BlankFacts, TokenFacts DEF WellTyped
<1>3. Len(l) = 3 /\ Len(e) = 2 /\ Len(x) = IF m.trailer THEN 3 ELSE 0
  <2>1. m.trailer \in BOOLEAN /\ "x" \in Token
    BY TokenFacts DEF WellTyped
  <2>2. Len(x) = IF m.trailer THEN 3 ELSE 0
    BY <2>1, LineIfType
  <2>3. Len(l) = 3 /\ Len(e) = 2
    BY LastSizeType, LineFacts, BlankFacts
  <2>. QED
    BY <2>2, <2>3
<1>4. m.trailer => x = Line("x")
  BY DEF LineIf
<1>5. /\ t1 \in Seq(Token) /\ Len(t1) = Len(f) + Len(l)
      /\ Lies(f, t1, 0) /\ Lies(l, t1, Len(f))
  <2>. HIDE DEF f, l, x, e
  <2>. QED BY <1>2, LiesJoined
<1>6. /\ t2 \in Seq(Token) /\ Len(t2) = Len(t1) + Len(x)
      /\ Lies(t1, t2, 0) /\ Lies(x, t2, Len(t1))
  <2>. HIDE DEF f, l, x, e, t1
  <2>. QED BY <1>2, <1>5, LiesJoined
<1>7. /\ t3 \in Seq(Token) /\ Len(t3) = Len(t2) + Len(e)
      /\ Lies(t2, t3, 0) /\ Lies(e, t3, Len(t2))
  <2>. HIDE DEF f, l, x, e, t1, t2
  <2>. QED BY <1>2, <1>6, LiesJoined
<1>. HIDE DEF f, l, x, e, t1, t2, t3
<1>8. Lies(x, t3, Len(t1))
  BY <1>2, <1>5, <1>6, <1>7 DEF Lies
<1>9. Lies(t1, t3, 0)
  BY <1>2, <1>5, <1>6, <1>7 DEF Lies
<1>10. Lies(f, t3, 0) /\ Lies(l, t3, Len(f))
  BY <1>2, <1>5, <1>7, <1>9 DEF Lies
<1>11. /\ Len(t1) = Len(f) + 3
       /\ Len(t2) = Len(f) + 3 + (IF m.trailer THEN 3 ELSE 0)
       /\ Len(t3) = Len(f) + 3 + (IF m.trailer THEN 3 ELSE 0) + 2
  BY <1>2, <1>3, <1>5, <1>6, <1>7
<1>. QED
  BY <1>1, <1>4, <1>7, <1>8, <1>10, <1>11 DEF f, l, e

LEMMA BodyTextType ==
  ASSUME NEW m, WellTyped(m)
  PROVE  /\ BodyText(m) \in Seq(Token)
         /\ NoBodyCode(m.code) => BodyText(m) = <<>>
         /\ ~NoBodyCode(m.code) /\ ~m.te => BodyText(m) = Data(m)
<1>1. CASE NoBodyCode(m.code)
  BY <1>1 DEF BodyText
<1>2. CASE ~NoBodyCode(m.code) /\ m.te
  BY <1>2, ChunkedBody
<1>3. CASE ~NoBodyCode(m.code) /\ ~m.te
  BY <1>3, DataType DEF BodyText
<1>. QED
  BY <1>1, <1>2, <1>3

\* The whole text.
LEMMA TextFacts ==
  ASSUME NEW m, WellTyped(m)
  PROVE  LET h == HeaderText(m)
             t == Text(m)
         IN  /\ t \in Seq(Token) /\ h \in Seq(Token) /\ Len(h) \in Nat
             /\ Len(t) = Start(m) + Len(BodyText(m))
             /\ t[1] = IF m.bad = "status" THEN "junk" ELSE "status"
             /\ t[2] = "cr" /\ t[3] = "lf"
             /\ Lies(h, t, 3)
             /\ t[3 + Len(h) + 1] = "cr" /\ t[3 + Len(h) + 2] = "lf"
             /\ Lies(BodyText(m), t, Start(m))
<1>. DEFINE w == IF m.bad = "status" THEN "junk" ELSE "status"
            l == Line(w)
            h == HeaderText(m)
            e == Blank
            b == BodyText(m)
            t1 == l \o h
            t2 == t1 \o e
            t3 == t2 \o b
<1>1. Text(m) = t3
  BY DEF Text
<1>2. w \in Token
  BY TokenFacts
<1>3. l \in Seq(Token) /\ h \in Seq(Token) /\ e \in Seq(Token) /\ b \in Seq(Token)
  BY <1>2, LineFacts, HeaderFacts, BlankFacts, BodyTextType DEF Lines
<1>4. Len(l) = 3 /\ Len(e) = 2
  BY <1>2, LineFacts, BlankFacts
<1>5. /\ t1 \in Seq(Token) /\ Len(t1) = Len(l) + Len(h)
      /\ Lies(l, t1, 0) /\ Lies(h, t1, Len(l))
  <2>. HIDE DEF h, l, e, b
  <2>. QED BY <1>3, LiesJoined
<1>6. /\ t2 \in Seq(Token) /\ Len(t2) = Len(t1) + Len(e)
      /\ Lies(t1, t2, 0) /\ Lies(e, t2, Len(t1))
  <2>. HIDE DEF h, l, e, b, t1
  <2>. QED BY <1>3, <1>5, LiesJoined
<1>7. /\ t3 \in Seq(Token) /\ Len(t3) = Len(t2) + Len(b)
      /\ Lies(t2, t3, 0) /\ Lies(b, t3, Len(t2))
  <2>. HIDE DEF h, l, e, b, t1, t2
  <2>. QED BY <1>3, <1>6, LiesJoined
<1>. HIDE DEF h, l, e, b, t1, t2, t3, w
<1>8. Lies(e, t3, Len(t1))
  BY <1>3, <1>5, <1>6, <1>7 DEF Lies
<1>9. Lies(t1, t3, 0)
  BY <1>3, <1>5, <1>6, <1>7 DEF Lies
<1>10. Lies(l, t3, 0) /\ Lies(h, t3, Len(l))
  BY <1>3, <1>5, <1>7, <1>9 DEF Lies
<1>11. /\ Len(t1) = 3 + Len(h) /\ Len(t2) = Len(h) + 5
       /\ Len(h) \in Nat /\ 3 + Len(h) \in Nat
  BY <1>3, <1>4, <1>5, <1>6
<1>12. t3[1] = w /\ t3[2] = "cr" /\ t3[3] = "lf"
  <2>1. Lies(Line(w), t3, 0) /\ 0 \in Nat
    BY <1>10 DEF l
  <2>2. t3[0 + 1] = w /\ t3[0 + 2] = "cr" /\ t3[0 + 3] = "lf"
    BY <1>2, <1>7, <2>1, LiesLine
  <2>. QED
    BY <2>2
<1>13. t3[3 + Len(h) + 1] = "cr" /\ t3[3 + Len(h) + 2] = "lf"
  <2>1. Lies(Blank, t3, 3 + Len(h))
    BY <1>8, <1>11 DEF e
  <2>. QED
    BY <1>7, <1>11, <2>1, LiesBlank
<1>14. Start(m) = Len(t2)
  BY <1>11 DEF Start, h
<1>. QED
  BY <1>1, <1>3, <1>4, <1>7, <1>10, <1>11, <1>12, <1>13, <1>14 DEF h, b, w

\* A response whose body is sent in chunks.
SentChunked(m) == WellTyped(m) /\ m.te /\ ~NoBodyCode(m.code)

\* The i-th chunk in the text.
LEMMA ChunkFacts ==
  ASSUME NEW m, SentChunked(m), NEW i \in 1 .. Len(m.chunks)
  PROVE  LET c == m.chunks[i]
             a == ChunkAt(m, i)
             t == Text(m)
         IN  /\ Len(c) \in 1 .. Len(SizeToken)
             /\ a \in Nat /\ DataAt(m, i) \in Nat
             /\ a + 5 + Len(c) <= ChunkAt(m, i + 1)
             /\ m.bad # "crlf" => ChunkAt(m, i + 1) = a + 5 + Len(c)
             /\ a + 5 + Len(c) < Len(t)
             /\ t[a + 1] = SizeToken[Len(c)] /\ t[a + 2] = "cr" /\ t[a + 3] = "lf"
             /\ \A j \in 1 .. Len(c) : t[a + 3 + j] = Data(m)[DataAt(m, i) + j]
             /\ t[a + 3 + Len(c) + 1] = IF m.bad = "crlf" THEN "d" ELSE "cr"
             /\ t[a + 3 + Len(c) + 2] = IF m.bad = "crlf" THEN "cr" ELSE "lf"
             /\ DataAt(m, i + 1) = DataAt(m, i) + Len(c)
             /\ DataAt(m, i + 1) <= Len(Data(m))
<1>. DEFINE s == ChunkTexts(m)
            f == FlattenSeq(s)
            c == m.chunks[i]
            k == Len(Joined(s, i - 1))
            d == DataAt(m, i)
            t == Text(m)
            b == BodyText(m)
            a == ChunkAt(m, i)
            u == s[i]
<1>1. WellTyped(m) /\ m.te /\ ~NoBodyCode(m.code)
  BY DEF SentChunked
<1>2. /\ s \in Seq(Seq(Token)) /\ Len(s) = Len(m.chunks) /\ f \in Seq(Token)
      /\ m.chunks \in Seq(Seq(Bytes)) /\ i \in 1 .. Len(s)
  BY <1>1, ChunkTextsType DEF WellTyped
<1>3. u = ChunkText(c, ChunkEnd(m))
  BY DEF ChunkTexts
<1>4. /\ c \in Seq(Bytes) /\ Len(c) \in 1 .. Len(SizeToken)
      /\ u \in Seq(Token)
      /\ Len(u) = 3 + Len(c) + (IF m.bad = "crlf" THEN 3 ELSE 2)
      /\ u[1] = SizeToken[Len(c)] /\ u[2] = "cr" /\ u[3] = "lf"
      /\ Lies(c, u, 3)
      /\ u[3 + Len(c) + 1] = IF m.bad = "crlf" THEN "d" ELSE "cr"
      /\ u[3 + Len(c) + 2] = IF m.bad = "crlf" THEN "cr" ELSE "lf"
  <2>. DEFINE v == ChunkText(c, ChunkEnd(m))
  <2>1. /\ c \in Seq(Bytes) /\ Len(c) \in 1 .. Len(SizeToken)
        /\ v \in Seq(Token)
        /\ Len(v) = 3 + Len(c) + (IF m.bad = "crlf" THEN 3 ELSE 2)
        /\ v[1] = SizeToken[Len(c)] /\ v[2] = "cr" /\ v[3] = "lf"
        /\ Lies(c, v, 3)
        /\ v[3 + Len(c) + 1] = IF m.bad = "crlf" THEN "d" ELSE "cr"
        /\ v[3 + Len(c) + 2] = IF m.bad = "crlf" THEN "cr" ELSE "lf"
    BY <1>1, ChunkTextFacts
  <2>2. u = v
    BY <1>3
  <2>. HIDE DEF u, v, c
  <2>. QED
    BY <2>1, <2>2
<1>5. /\ k \in Nat
      /\ Len(Joined(s, i)) = k + Len(u)
      /\ Len(Joined(s, i)) <= Len(f)
      /\ \A j \in 1 .. Len(u) : f[k + j] = u[j]
  <2>. HIDE DEF s
  <2>. QED BY <1>2, JoinedLayout
<1>6. /\ d \in Nat
      /\ Len(Joined(m.chunks, i)) = d + Len(c)
      /\ Len(Joined(m.chunks, i)) <= Len(Data(m))
      /\ \A j \in 1 .. Len(c) : Data(m)[d + j] = c[j]
  BY <1>2, JoinedLayout DEF DataAt, Data
<1>7. /\ b \in Seq(Token) /\ Len(b) >= Len(f) + 5
      /\ Lies(f, b, 0)
  BY <1>1, <1>2, ChunkedBody
<1>8. /\ t \in Seq(Token) /\ Len(t) = Start(m) + Len(b) /\ Start(m) \in Nat
      /\ Lies(b, t, Start(m))
  BY <1>1, TextFacts DEF Start
<1>9. a = Start(m) + k
  BY DEF ChunkAt
<1>10. ChunkAt(m, i + 1) = Start(m) + Len(Joined(s, i)) /\ DataAt(m, i + 1) = Len(Joined(m.chunks, i))
  <2>1. (i + 1) - 1 = i
    OBVIOUS
  <2>. QED
    BY <2>1 DEF ChunkAt, DataAt
<1>. HIDE DEF s, f, c, k, d, t, b, a, u
<1>11. Lies(u, f, k)
  BY <1>5 DEF Lies
<1>12. Lies(f, t, Start(m))
  <2>1. f \in Seq(Token) /\ b \in Seq(Token) /\ t \in Seq(Token) /\ Start(m) \in Nat
    BY <1>2, <1>7, <1>8
  <2>2. Lies(f, b, 0) /\ Lies(b, t, Start(m))
    BY <1>7, <1>8
  <2>3. Lies(f, t, Start(m) + 0)
    BY <2>1, <2>2, LiesWithin
  <2>4. Start(m) + 0 = Start(m)
    BY <2>1
  <2>. QED
    BY <2>3, <2>4
<1>13. Lies(u, t, Start(m) + k)
  BY <1>2, <1>4, <1>5, <1>8, <1>11, <1>12, LiesWithin
<1>14. \A j \in 1 .. Len(u) : t[a + j] = u[j]
  BY <1>9, <1>13 DEF Lies
<1>15. a \in Nat /\ Len(c) \in Nat /\ Len(u) \in Nat /\ Len(u) >= 5 + Len(c)
  <2>1. a \in Nat
    BY <1>5, <1>8, <1>9
  <2>2. Len(c) \in Nat /\ Len(u) \in Nat
    BY <1>4
  <2>. QED
    BY <1>4, <2>1, <2>2
<1>16. t[a + 1] = SizeToken[Len(c)] /\ t[a + 2] = "cr" /\ t[a + 3] = "lf"
  <2>1. 1 \in 1 .. Len(u) /\ 2 \in 1 .. Len(u) /\ 3 \in 1 .. Len(u)
    BY <1>15
  <2>2. t[a + 1] = u[1] /\ t[a + 2] = u[2] /\ t[a + 3] = u[3]
    BY <1>14, <2>1
  <2>3. u[1] = SizeToken[Len(c)] /\ u[2] = "cr" /\ u[3] = "lf"
    BY <1>4
  <2>. QED
    BY <2>2, <2>3
<1>17. ASSUME NEW j \in 1 .. Len(c) PROVE t[a + 3 + j] = Data(m)[d + j]
  <2>1. 3 + j \in 1 .. Len(u) /\ a + (3 + j) = a + 3 + j
    BY <1>15
  <2>2. u[3 + j] = c[j]
    BY <1>4 DEF Lies
  <2>. QED
    BY <1>6, <1>14, <2>1, <2>2
<1>18. /\ t[a + 3 + Len(c) + 1] = IF m.bad = "crlf" THEN "d" ELSE "cr"
       /\ t[a + 3 + Len(c) + 2] = IF m.bad = "crlf" THEN "cr" ELSE "lf"
  <2>1. /\ 3 + Len(c) + 1 \in 1 .. Len(u) /\ a + (3 + Len(c) + 1) = a + 3 + Len(c) + 1
        /\ 3 + Len(c) + 2 \in 1 .. Len(u) /\ a + (3 + Len(c) + 2) = a + 3 + Len(c) + 2
    BY <1>15
  <2>2. t[a + (3 + Len(c) + 1)] = u[3 + Len(c) + 1] /\ t[a + (3 + Len(c) + 2)] = u[3 + Len(c) + 2]
    BY <1>14, <2>1
  <2>. QED
    BY <1>4, <2>1, <2>2
<1>19. /\ a + 5 + Len(c) <= ChunkAt(m, i + 1)
       /\ m.bad # "crlf" => ChunkAt(m, i + 1) = a + 5 + Len(c)
       /\ a + 5 + Len(c) < Len(t)
  <2>1. Len(f) \in Nat /\ Len(b) \in Nat /\ Len(Joined(s, i)) \in Nat
    BY <1>2, <1>5, <1>7, <1>15
  <2>2. ChunkAt(m, i + 1) = a + Len(u)
    <3>1. k \in Nat /\ Start(m) \in Nat /\ Len(Joined(s, i)) = k + Len(u)
      BY <1>5, <1>8
    <3>. QED
      BY <1>9, <1>10, <1>15, <3>1
  <2>3. a + Len(u) <= Start(m) + Len(f)
    <3>1. k \in Nat /\ Start(m) \in Nat /\ Len(u) \in Nat /\ Len(f) \in Nat
      BY <1>5, <1>8, <1>15, <2>1
    <3>2. k + Len(u) <= Len(f)
      BY <1>5
    <3>. QED
      BY <1>9, <3>1, <3>2
  <2>4. Start(m) + Len(f) < Len(t)
    BY <1>7, <1>8, <2>1
  <2>5. m.bad # "crlf" => Len(u) = 5 + Len(c)
    BY <1>4, <1>15
  <2>6. a + 5 + Len(c) < Len(t)
    BY <1>8, <1>15, <2>1, <2>3, <2>4
  <2>. QED
    BY <1>15, <2>2, <2>5, <2>6
<1>20. DataAt(m, i + 1) = d + Len(c) /\ DataAt(m, i + 1) <= Len(Data(m))
  BY <1>6, <1>10
<1>. QED
  BY <1>4, <1>6, <1>15, <1>16, <1>17, <1>18, <1>19, <1>20 DEF a, c, d, t

\* The bytes of the i-th chunk are the data's bytes from DataAt(m, i) on.
LEMMA ChunkBytes ==
  ASSUME NEW m, SentChunked(m), NEW i \in 1 .. Len(m.chunks)
  PROVE  \A j \in 1 .. Len(m.chunks[i]) :
            Text(m)[ChunkAt(m, i) + 3 + j] = Data(m)[DataAt(m, i) + j]
  BY ChunkFacts

\* The end of the text: the last size, the trailers and the blank line.
LEMMA LastChunkFacts ==
  ASSUME NEW m, SentChunked(m)
  PROVE  LET a == ChunkAt(m, Len(m.chunks) + 1)
             t == Text(m)
         IN  /\ Len(m.chunks) \in Nat /\ a \in Nat
             /\ t[a + 1] = LastSize(m) /\ t[a + 2] = "cr" /\ t[a + 3] = "lf"
             /\ IF m.trailer
                  THEN /\ Len(t) = a + 8
                       /\ t[a + 4] = "x" /\ t[a + 5] = "cr" /\ t[a + 6] = "lf"
                       /\ t[a + 7] = "cr" /\ t[a + 8] = "lf"
                  ELSE /\ Len(t) = a + 5
                       /\ t[a + 4] = "cr" /\ t[a + 5] = "lf"
             /\ DataAt(m, Len(m.chunks) + 1) = Len(Data(m))
             /\ ChunkAt(m, 1) = Start(m) /\ DataAt(m, 1) = 0
<1>. DEFINE s == ChunkTexts(m)
            n == Len(m.chunks)
            f == FlattenSeq(s)
            t == Text(m)
            b == BodyText(m)
            a == ChunkAt(m, n + 1)
            x == IF m.trailer THEN 3 ELSE 0
<1>1. WellTyped(m) /\ m.te /\ ~NoBodyCode(m.code)
  BY DEF SentChunked
<1>2. /\ s \in Seq(Seq(Token)) /\ Len(s) = n /\ f \in Seq(Token)
      /\ m.chunks \in Seq(Seq(Bytes)) /\ n \in Nat
  <2>1. m.chunks \in Seq(Seq(Bytes))
    BY <1>1 DEF WellTyped
  <2>2. n \in Nat
    BY <2>1
  <2>. QED
    BY <1>1, <2>1, <2>2, ChunkTextsType
<1>3. Joined(s, n) = f /\ Joined(m.chunks, n) = Data(m)
  BY <1>2, JoinedAll DEF Data
<1>4. (n + 1) - 1 = n /\ 1 - 1 = 0
  BY <1>2
<1>5. a = Start(m) + Len(f) /\ DataAt(m, n + 1) = Len(Data(m))
  BY <1>3, <1>4 DEF ChunkAt, DataAt
<1>6. ChunkAt(m, 1) = Start(m) /\ DataAt(m, 1) = 0
  <2>1. Joined(s, 0) = <<>> /\ Joined(m.chunks, 0) = <<>>
    BY <1>2, JoinedNone
  <2>2. Start(m) \in Nat
    BY <1>1, TextFacts DEF Start
  <2>. QED
    BY <1>4, <2>1, <2>2 DEF ChunkAt, DataAt
<1>7. /\ b \in Seq(Token)
      /\ Len(b) = Len(f) + 3 + x + 2
      /\ Lies(Line(LastSize(m)), b, Len(f))
      /\ m.trailer => Lies(Line("x"), b, Len(f) + 3)
      /\ Lies(Blank, b, Len(f) + 3 + x)
  BY <1>1, ChunkedBody
<1>8. /\ t \in Seq(Token) /\ Len(t) = Start(m) + Len(b) /\ Start(m) \in Nat
      /\ Lies(b, t, Start(m))
  BY <1>1, TextFacts DEF Start
<1>9. LastSize(m) \in Token /\ "x" \in Token /\ m.trailer \in BOOLEAN
  BY <1>1, LastSizeType, TokenFacts DEF WellTyped
<1>10. Line(LastSize(m)) \in Seq(Token) /\ Line("x") \in Seq(Token) /\ Blank \in Seq(Token)
  BY <1>9, LineFacts, BlankFacts
<1>. HIDE DEF s, n, f, t, b, a
<1>11. a \in Nat /\ Len(f) \in Nat /\ Len(f) + 3 \in Nat /\ Len(f) + 3 + x \in Nat
  BY <1>2, <1>5, <1>8
<1>. HIDE DEF x
<1>12. t[a + 1] = LastSize(m) /\ t[a + 2] = "cr" /\ t[a + 3] = "lf"
  <2>1. Lies(Line(LastSize(m)), t, Start(m) + Len(f))
    BY <1>7, <1>8, <1>10, <1>11, LiesWithin
  <2>2. Lies(Line(LastSize(m)), t, a)
    BY <1>5, <2>1
  <2>. QED
    BY <1>8, <1>9, <1>11, <2>2, LiesLine
<1>13. CASE m.trailer
  <2>1. Lies(Line("x"), t, Start(m) + (Len(f) + 3))
    BY <1>7, <1>8, <1>10, <1>11, <1>13, LiesWithin
  <2>2. Start(m) + (Len(f) + 3) = a + 3 /\ a + 3 \in Nat
    BY <1>5, <1>8, <1>11, SMTT(30)
  <2>3. t[(a + 3) + 1] = "x" /\ t[(a + 3) + 2] = "cr" /\ t[(a + 3) + 3] = "lf"
    <3>. DEFINE y == a + 3
    <3>1. Lies(Line("x"), t, y) /\ y \in Nat
      BY <2>1, <2>2
    <3>2. "x" \in Token /\ t \in Seq(Token)
      BY <1>8, <1>9
    <3>. HIDE DEF y
    <3>3. t[y + 1] = "x" /\ t[y + 2] = "cr" /\ t[y + 3] = "lf"
      BY <3>1, <3>2, LiesLine
    <3>. QED
      BY <3>3 DEF y
  <2>4. Len(f) + 3 + x = Len(f) + 6 /\ Len(f) + 6 \in Nat
    BY <1>11, <1>13 DEF x
  <2>5. Lies(Blank, t, Start(m) + (Len(f) + 6))
    <3>1. Lies(Blank, b, Len(f) + 6)
      BY <1>7, <2>4
    <3>. QED
      BY <1>7, <1>8, <1>10, <2>4, <3>1, LiesWithin
  <2>6. Start(m) + (Len(f) + 6) = a + 6 /\ a + 6 \in Nat
    BY <1>5, <1>8, <1>11
  <2>7. t[(a + 6) + 1] = "cr" /\ t[(a + 6) + 2] = "lf"
    <3>1. Lies(Blank, t, a + 6)
      BY <2>5, <2>6
    <3>. QED
      BY <1>8, <2>6, <3>1, LiesBlank
  <2>8. /\ (a + 3) + 1 = a + 4 /\ (a + 3) + 2 = a + 5 /\ (a + 3) + 3 = a + 6
        /\ (a + 6) + 1 = a + 7 /\ (a + 6) + 2 = a + 8 /\ Len(t) = a + 8
    <3>1. Len(b) = Len(f) + 6 + 2
      BY <1>7, <2>4
    <3>2. a \in Nat /\ Len(f) \in Nat /\ Start(m) \in Nat /\ Len(t) = Start(m) + Len(b) /\ a = Start(m) + Len(f)
      BY <1>5, <1>8, <1>11
    <3>. QED
      BY <3>1, <3>2
  <2>. QED
    BY <1>2, <1>5, <1>6, <1>11, <1>12, <1>13, <2>3, <2>7, <2>8 DEF a, n, t
<1>14. CASE ~m.trailer
  <2>1. Len(f) + 3 + x = Len(f) + 3
    BY <1>11, <1>14 DEF x
  <2>2. Lies(Blank, b, Len(f) + 3)
    BY <1>7, <2>1
  <2>3. Lies(Blank, t, Start(m) + (Len(f) + 3))
    BY <1>7, <1>8, <1>10, <1>11, <2>2, LiesWithin
  <2>4. Start(m) + (Len(f) + 3) = a + 3 /\ a + 3 \in Nat
    BY <1>5, <1>8, <1>11, SMTT(30)
  <2>5. t[(a + 3) + 1] = "cr" /\ t[(a + 3) + 2] = "lf"
    <3>1. Lies(Blank, t, a + 3)
      BY <2>3, <2>4
    <3>. QED
      BY <1>8, <2>4, <3>1, LiesBlank
  <2>6. (a + 3) + 1 = a + 4 /\ (a + 3) + 2 = a + 5 /\ Len(t) = a + 5
    <3>1. Len(b) = Len(f) + 3 + 2
      BY <1>7, <2>1
    <3>2. a \in Nat /\ Len(f) \in Nat /\ Start(m) \in Nat /\ Len(t) = Start(m) + Len(b) /\ a = Start(m) + Len(f)
      BY <1>5, <1>8, <1>11
    <3>. QED
      BY <3>1, <3>2
  <2>. QED
    BY <1>2, <1>5, <1>6, <1>11, <1>12, <1>14, <2>5, <2>6 DEF a, n, t
<1>. QED
  BY <1>9, <1>13, <1>14 DEF a, n, t

-----------------------------------------------------------------------------
(* The inductive invariant: where in the text the parser is. *)

\* The tokens that _parse() has taken from the buffer.
Pos == fed - Len(buf)

\* The buffer holds the tokens that were fed and not taken.
Window == Lies(buf, Text(msg), Pos)

\* Nothing of a body has been read.
Fresh == body = <<>> /\ remaining = 0 /\ awaitingSize /\ ~inTrailers

AtStatus == state = "status" => Pos = 0 /\ Fresh

AtHeaders == state = "headers" => Pos = 3 /\ Fresh /\ msg.bad # "status"

\* The length that _resolve_framing() finds for a body without chunks.
FramedLength(m) ==
  IF NoBodyCode(m.code) THEN 0
  ELSE IF m.cl = NoLength THEN NoLength
  ELSE IF m.bad = "negative" THEN -1 ELSE m.cl

AtFixed ==
  /\ contentLength = FramedLength(msg)
  /\ Pos = Start(msg) + Len(body)
  /\ msg.bad = "negative" => body = <<>>

\* Before the size of the i-th chunk, or of the last one.
AtSize(i) ==
  /\ ~inTrailers /\ awaitingSize
  /\ Pos = ChunkAt(msg, i)
  /\ Len(body) = DataAt(msg, i)
  /\ i > 1 => msg.bad # "crlf"

\* In the data of the i-th chunk, or at its end.
AtData(i) ==
  LET c == msg.chunks[i] IN
    /\ ~inTrailers /\ ~awaitingSize
    /\ remaining \in 0 .. Len(c)
    /\ Pos = ChunkAt(msg, i) + 3 + Len(c) - remaining
    /\ Len(body) = DataAt(msg, i) + Len(c) - remaining
    /\ i > 1 => msg.bad # "crlf"

LastAt(m) == ChunkAt(m, Len(m.chunks) + 1)

AtTrailers ==
  /\ inTrailers
  /\ Pos = LastAt(msg) + 3
  /\ Len(body) = Len(Data(msg))
  /\ msg.bad \notin {"size", "negative", "crlf"}

\* After a negative chunk size, which is taken for a chunk without data.
AfterNegative ==
  /\ ~inTrailers
  /\ msg.bad = "negative"
  /\ Len(body) = Len(Data(msg))
  /\ IF awaitingSize THEN Pos = Len(Text(msg)) ELSE remaining = -1 /\ Pos = LastAt(msg) + 3

AtChunked ==
  \/ \E i \in 1 .. Len(msg.chunks) + 1 : AtSize(i)
  \/ \E i \in 1 .. Len(msg.chunks) : AtData(i)
  \/ AtTrailers
  \/ AfterNegative

AtBody ==
  state = "body" =>
    /\ msg.bad \notin {"status", "header", "length"}
    /\ chunked = msg.te
    /\ IF chunked THEN AtChunked ELSE AtFixed

\* A response was returned.
AtDone ==
  state = "done" =>
    /\ msg.bad \in {"none", "coding"} \/ (msg.bad = "negative" /\ ~chunked /\ body = <<>>)
    /\ chunked => Len(body) = Len(Body(msg))
    /\ ~eof /\ Sized(msg) => Len(body) = Len(Body(msg)) /\ Pos = Len(Text(msg))
    /\ content \in Decompress(body)

\* The parser failed.
AtFailure ==
  /\ state = "error" /\ msg.bad = "none" =>
       eof /\ fed < Len(Text(msg)) /\ (msg.te \/ fed < Start(msg))
  /\ state = "crash" => msg.coding = "gzip" /\ (msg.bad = "coding" \/ (eof /\ ~msg.te))

\* The parser has run after EOF.
AtEof ==
  eof /\ ~running =>
    /\ state \in {"status", "headers"} => fed < Start(msg)
    /\ state = "body" => chunked /\ (Sized(msg) => fed < Len(Text(msg)))
    /\ state \in {"done", "crash"} /\ msg.bad = "none" /\ ~msg.te => fed = Start(msg) + Len(body)

\* The parser waits for bytes only while there are bytes to come.
Hungry ==
  /\ ~running /\ ~eof /\ state \in {"status", "headers", "body"}
  /\ Delimited(msg) /\ Sized(msg)
  => fed < Len(Text(msg))

ParserInv ==
  /\ TypeOK
  /\ Window
  /\ Begins(body, Body(msg))
  /\ AtStatus
  /\ AtHeaders
  /\ AtBody
  /\ AtDone
  /\ AtFailure
  /\ AtEof
  /\ Hungry

LEMMA InvFacts ==
  ASSUME ParserInv
  PROVE  /\ WellTyped(msg) /\ Consistent(msg) /\ Visible(msg)
         /\ buf \in Seq(Token) /\ Len(buf) \in Nat /\ body \in Seq(Bytes) /\ Len(body) \in Nat
         /\ Len(Text(msg)) \in Nat /\ fed <= Len(Text(msg))
         /\ fed \in Nat /\ Pos \in Nat /\ fed = Pos + Len(buf)
         /\ \A j \in 1 .. Len(buf) : buf[j] = Text(msg)[Pos + j]
<1>1. WellTyped(msg) /\ Consistent(msg) /\ Visible(msg)
  BY ResponsesAssumption DEF ParserInv, TypeOK
<1>2. Text(msg) \in Seq(Token)
  BY <1>1, TextFacts
<1>3. Len(Text(msg)) \in Nat
  BY <1>2
<1>4. /\ buf \in Seq(Token) /\ body \in Seq(Bytes) /\ fed \in 0 .. Len(Text(msg))
      /\ Len(buf) + Len(body) <= fed
  BY DEF ParserInv, TypeOK
<1>5. Len(buf) \in Nat /\ Len(body) \in Nat
  BY <1>4
<1>6. fed \in Nat /\ fed <= Len(Text(msg)) /\ Len(buf) <= fed
  BY <1>3, <1>4, <1>5
<1>7. Pos \in Nat /\ fed = Pos + Len(buf)
  BY <1>5, <1>6 DEF Pos
<1>8. \A j \in 1 .. Len(buf) : buf[j] = Text(msg)[Pos + j]
  BY DEF ParserInv, Window, Lies
<1>. QED
  BY <1>1, <1>3, <1>4, <1>5, <1>6, <1>7, <1>8

\* Taking n tokens from the buffer.
LEMMA DropStep ==
  ASSUME ParserInv, msg' = msg, fed' = fed, NEW n \in 0 .. Len(buf), buf' = Drop(buf, n)
  PROVE  buf' \in Seq(Token) /\ Len(buf') = Len(buf) - n /\ Pos' = Pos + n /\ Window'
<1>1. /\ buf \in Seq(Token) /\ Len(buf) \in Nat /\ fed \in Nat /\ Len(Text(msg)) \in Nat
      /\ fed <= Len(Text(msg)) /\ Pos \in Nat /\ fed = Pos + Len(buf)
      /\ \A j \in 1 .. Len(buf) : buf[j] = Text(msg)[Pos + j]
  BY InvFacts
<1>2. /\ buf' \in Seq(Token) /\ Len(buf') = Len(buf) - n
      /\ \A j \in 1 .. Len(buf) - n : buf'[j] = buf[n + j]
  BY <1>1, DropFacts
<1>3. Pos' = Pos + n
  BY <1>1, <1>2 DEF Pos
<1>4. ASSUME NEW j \in 1 .. Len(buf') PROVE Text(msg)[(Pos + n) + j] = buf'[j]
  <2>1. n + j \in 1 .. Len(buf) /\ Pos + (n + j) = (Pos + n) + j
    BY <1>1, <1>2
  <2>2. buf[n + j] = Text(msg)[Pos + (n + j)]
    BY <1>1, <2>1
  <2>. QED
    BY <1>2, <2>1, <2>2
<1>5. (Pos + n) + Len(buf') <= Len(Text(msg))
  BY <1>1, <1>2
<1>6. Lies(buf', Text(msg), Pos + n)
  BY <1>4, <1>5 DEF Lies
<1>7. Window'
  BY <1>3, <1>6 DEF Window
<1>. QED
  BY <1>2, <1>3, <1>7

LEMMA StayStep ==
  ASSUME ParserInv, msg' = msg, fed' = fed, buf' = buf
  PROVE  Pos' = Pos /\ Window'
  BY DEF ParserInv, Window, Pos, Lies

\* Moving n bytes from the buffer to the body.
LEMMA TakeStep ==
  ASSUME ParserInv, msg' = msg, NEW n \in 0 .. Len(buf), body' = body \o Take(buf, n),
         Len(body) + n <= Len(Body(msg)),
         \A j \in 1 .. n : Text(msg)[Pos + j] = Body(msg)[Len(body) + j]
  PROVE  body' \in Seq(Bytes) /\ Len(body') = Len(body) + n /\ Begins(body, Body(msg))'
<1>1. /\ buf \in Seq(Token) /\ Len(buf) \in Nat /\ body \in Seq(Bytes) /\ Len(body) \in Nat
      /\ \A j \in 1 .. Len(buf) : buf[j] = Text(msg)[Pos + j]
      /\ WellTyped(msg)
  BY InvFacts
<1>2. Body(msg) \in Seq(Bytes)
  BY <1>1, DataType DEF Body
<1>. DEFINE t == Take(buf, n)
<1>3. Len(t) = n /\ \A j \in 1 .. n : t[j] = buf[j]
  BY <1>1, TakeFacts
<1>4. t \in Seq(Token)
  BY <1>1, TakeFacts
<1>5. ASSUME NEW j \in 1 .. n PROVE t[j] = Body(msg)[Len(body) + j] /\ t[j] \in Bytes
  <2>1. j \in 1 .. Len(buf) /\ Len(body) + j \in 1 .. Len(Body(msg))
    BY <1>1, <1>2
  <2>2. t[j] = Body(msg)[Len(body) + j]
    BY <1>1, <1>3, <2>1
  <2>. QED
    BY <1>2, <2>1, <2>2
<1>. HIDE DEF t
<1>6. t \in Seq(Bytes)
  BY <1>3, <1>4, <1>5
<1>7. body' = body \o t
  BY DEF t
<1>8. /\ body' \in Seq(Bytes) /\ Len(body') = Len(body) + Len(t)
      /\ \A j \in 1 .. Len(body) : body'[j] = body[j]
      /\ \A j \in 1 .. Len(t) : body'[Len(body) + j] = t[j]
  BY <1>1, <1>6, <1>7, ConcatFacts
<1>9. \A j \in 1 .. Len(body) : body[j] = Body(msg)[j]
  BY DEF ParserInv, Begins
<1>10. ASSUME NEW j \in 1 .. Len(body') PROVE body'[j] = Body(msg)[j]
  <2>1. CASE j \in 1 .. Len(body)
    BY <1>8, <1>9, <2>1
  <2>2. CASE j \notin 1 .. Len(body)
    <3>1. j - Len(body) \in 1 .. n /\ Len(body) + (j - Len(body)) = j
      BY <1>1, <1>3, <1>8, <2>2
    <3>2. body'[Len(body) + (j - Len(body))] = t[j - Len(body)]
      BY <1>3, <1>8, <3>1
    <3>3. t[j - Len(body)] = Body(msg)[Len(body) + (j - Len(body))]
      BY <1>5, <3>1
    <3>. QED
      BY <3>1, <3>2, <3>3
  <2>. QED
    BY <2>1, <2>2
<1>11. Begins(body', Body(msg))
  BY <1>3, <1>8, <1>10 DEF Begins
<1>. QED
  BY <1>3, <1>8, <1>11

\* The invariant after a step, by the state it leads to.
LEMMA InvStatus ==
  ASSUME TypeOK', Window', Begins(body, Body(msg))', state' = "status",
         Pos' = 0, Fresh', AtEof', Hungry'
  PROVE  ParserInv'
  BY DEF ParserInv, AtStatus, AtHeaders, AtBody, AtDone, AtFailure

LEMMA InvHeaders ==
  ASSUME TypeOK', Window', Begins(body, Body(msg))', state' = "headers",
         Pos' = 3, Fresh', msg.bad' # "status", AtEof', Hungry'
  PROVE  ParserInv'
  BY DEF ParserInv, AtStatus, AtHeaders, AtBody, AtDone, AtFailure

LEMMA InvBody ==
  ASSUME TypeOK', Window', Begins(body, Body(msg))', state' = "body", AtBody', AtEof', Hungry'
  PROVE  ParserInv'
  BY DEF ParserInv, AtStatus, AtHeaders, AtDone, AtFailure

LEMMA InvDone ==
  ASSUME TypeOK', Window', Begins(body, Body(msg))', state' = "done", AtDone', AtEof'
  PROVE  ParserInv'
  BY DEF ParserInv, AtStatus, AtHeaders, AtBody, AtFailure, Hungry

LEMMA InvFailed ==
  ASSUME TypeOK', Window', Begins(body, Body(msg))', state' = "error", AtFailure'
  PROVE  ParserInv'
  BY DEF ParserInv, AtStatus, AtHeaders, AtBody, AtDone, AtEof, Hungry

LEMMA InvCrashed ==
  ASSUME TypeOK', Window', Begins(body, Body(msg))', state' = "crash", AtFailure', AtEof'
  PROVE  ParserInv'
  BY DEF ParserInv, AtStatus, AtHeaders, AtBody, AtDone, Hungry

LEMMA InvInit ==
  ASSUME Init
  PROVE  ParserInv
<1>1. WellTyped(msg)
  BY ResponsesAssumption DEF Init
<1>2. Text(msg) \in Seq(Token) /\ Start(msg) \in Nat /\ Len(Text(msg)) = Start(msg) + Len(BodyText(msg)) /\ Start(msg) >= 5
  BY <1>1, TextFacts DEF Start
<1>3. BodyText(msg) \in Seq(Token) /\ Body(msg) \in Seq(Bytes)
  BY <1>1, BodyTextType, DataType DEF Body
<1>4. Len(Text(msg)) \in Nat /\ Len(Text(msg)) > 0
  BY <1>2, <1>3
<1>5. Len(SizeToken) \in Nat
  BY SizesAssumption
<1>0. buf \in Seq(Token) /\ body \in Seq(Bytes) /\ Len(buf) = 0 /\ Len(body) = 0
  BY DEF Init
<1>6. TypeOK
  <2>1. fed = 0 /\ fed \in 0 .. Len(Text(msg)) /\ Len(buf) + Len(body) <= fed /\ remaining \in -1 .. Len(SizeToken)
    BY <1>0, <1>4, <1>5 DEF Init
  <2>2. /\ msg \in Responses /\ eof \in BOOLEAN /\ running \in BOOLEAN /\ state = "status"
        /\ chunked \in BOOLEAN /\ contentLength = NoLength /\ awaitingSize \in BOOLEAN
        /\ inTrailers \in BOOLEAN /\ content = "none"
    BY DEF Init
  <2>. QED
    BY <1>0, <2>1, <2>2 DEF TypeOK
<1>7. Pos = 0 /\ Len(buf) = 0 /\ Len(body) = 0
  <2>1. fed = 0
    BY DEF Init
  <2>. QED
    BY <1>0, <2>1 DEF Pos
<1>8. Window
  BY <1>4, <1>7 DEF Window, Lies
<1>9. Begins(body, Body(msg))
  BY <1>3, <1>7 DEF Begins
<1>10. AtStatus /\ AtHeaders /\ AtBody /\ AtDone /\ AtFailure /\ AtEof
  BY <1>7 DEF Init, AtStatus, AtHeaders, AtBody, AtDone, AtFailure, AtEof, Fresh
<1>11. Hungry
  BY <1>4 DEF Init, Hungry
<1>. QED
  BY <1>6, <1>8, <1>9, <1>10, <1>11 DEF ParserInv

-----------------------------------------------------------------------------
(* Each action keeps the invariant. *)

LEMMA FeedInv ==
  ASSUME ParserInv, NEW n \in 1 .. Len(Text(msg)), Feed(n)
  PROVE  ParserInv'
<1>. DEFINE t == Text(msg)
            p == SubSeq(t, fed + 1, fed + n)
<1>1. /\ buf \in Seq(Token) /\ Len(buf) \in Nat /\ fed \in Nat /\ Len(t) \in Nat
      /\ Pos \in Nat /\ fed = Pos + Len(buf) /\ Len(body) \in Nat
      /\ \A j \in 1 .. Len(buf) : buf[j] = t[Pos + j]
  BY InvFacts
<1>2. t \in Seq(Token)
  BY InvFacts, TextFacts
<1>3. /\ ~running /\ ~eof /\ state \in {"status", "headers", "body"}
      /\ fed + n <= Len(t) /\ fed' = fed + n /\ buf' = buf \o p /\ running' = TRUE
      /\ msg' = msg /\ eof' = eof /\ state' = state /\ chunked' = chunked
      /\ contentLength' = contentLength /\ body' = body /\ remaining' = remaining
      /\ awaitingSize' = awaitingSize /\ inTrailers' = inTrailers /\ content' = content
  BY DEF Feed, framing, cursor, ParserInv, TypeOK
<1>4. p \in Seq(Token) /\ Len(p) = n /\ \A j \in 1 .. n : p[j] = t[fed + j]
  <2>1. n \in Nat /\ fed + n <= Len(t)
    BY <1>1, <1>3
  <2>. HIDE DEF t
  <2>. QED
    BY <1>1, <1>2, <2>1
<1>. HIDE DEF p
<1>5. /\ buf' \in Seq(Token) /\ Len(buf') = Len(buf) + Len(p)
      /\ \A j \in 1 .. Len(buf) : buf'[j] = buf[j]
      /\ \A j \in 1 .. Len(p) : buf'[Len(buf) + j] = p[j]
  <2>1. p \in Seq(Token) /\ buf \in Seq(Token) /\ buf' = buf \o p
    BY <1>1, <1>3, <1>4
  <2>. QED
    BY <2>1, ConcatFacts
<1>. HIDE DEF t
<1>6. Pos' = Pos
  BY <1>1, <1>3, <1>4, <1>5 DEF Pos
<1>7. ASSUME NEW j \in 1 .. Len(buf') PROVE t[Pos + j] = buf'[j]
  <2>1. CASE j \in 1 .. Len(buf)
    BY <1>1, <1>5, <2>1
  <2>2. CASE j \notin 1 .. Len(buf)
    <3>. DEFINE k == j - Len(buf)
    <3>1. k \in 1 .. n /\ Len(buf) + k = j /\ fed + k = Pos + j
      BY <1>1, <1>4, <1>5, <2>2
    <3>. HIDE DEF k
    <3>2. buf'[Len(buf) + k] = p[k] /\ p[k] = t[fed + k]
      BY <1>4, <1>5, <3>1
    <3>. QED
      BY <3>1, <3>2
  <2>. QED
    BY <2>1, <2>2
<1>8. Window'
  <2>1. Pos + Len(buf') <= Len(t)
    BY <1>1, <1>3, <1>4, <1>5
  <2>2. Lies(buf', t, Pos)
    BY <1>7, <2>1 DEF Lies
  <2>. QED
    BY <1>3, <1>6, <2>2 DEF Window, t
<1>9. TypeOK'
  <2>1. fed' \in 0 .. Len(Text(msg')) /\ Len(buf') + Len(body') <= fed'
    <3>1. Len(buf) + Len(body) <= fed
      BY DEF ParserInv, TypeOK
    <3>. QED
      BY <1>1, <1>3, <1>4, <1>5, <3>1, SMTT(30) DEF t
  <2>. QED
    BY <1>3, <1>5, <2>1 DEF ParserInv, TypeOK
<1>10. /\ Begins(body, Body(msg))' /\ Hungry'
       /\ AtStatus' /\ AtHeaders' /\ AtDone' /\ AtFailure' /\ AtEof'
  BY <1>3, <1>6 DEF ParserInv, Hungry, AtStatus, AtHeaders, AtDone, AtFailure, AtEof, Fresh, Begins
<1>11. AtBody'
  BY <1>3, <1>6 DEF ParserInv, AtBody, AtChunked, AtFixed, AtSize, AtData, AtTrailers, AfterNegative
<1>. QED
  BY <1>8, <1>9, <1>10, <1>11 DEF ParserInv

LEMMA FeedEofInv ==
  ASSUME ParserInv, FeedEof
  PROVE  ParserInv'
<1>1. /\ state \in {"status", "headers", "body"} /\ eof' = TRUE /\ running' = TRUE
      /\ msg' = msg /\ fed' = fed /\ buf' = buf /\ state' = state /\ chunked' = chunked
      /\ contentLength' = contentLength /\ body' = body /\ remaining' = remaining
      /\ awaitingSize' = awaitingSize /\ inTrailers' = inTrailers /\ content' = content
  BY DEF FeedEof, framing, cursor, ParserInv, TypeOK
<1>2. Pos' = Pos /\ Window'
  BY <1>1, StayStep
<1>3. TypeOK'
  BY <1>1 DEF ParserInv, TypeOK
<1>4. /\ Begins(body, Body(msg))' /\ Hungry'
      /\ AtStatus' /\ AtHeaders' /\ AtDone' /\ AtFailure' /\ AtEof'
  BY <1>1, <1>2 DEF ParserInv, Hungry, AtStatus, AtHeaders, AtDone, AtFailure, AtEof, Fresh, Begins
<1>5. AtBody'
  BY <1>1, <1>2 DEF ParserInv, AtBody, AtChunked, AtFixed, AtSize, AtData, AtTrailers, AfterNegative
<1>. QED
  BY <1>2, <1>3, <1>4, <1>5 DEF ParserInv

LEMMA StatusLineInv ==
  ASSUME ParserInv, ParseStatusLine
  PROVE  ParserInv'
<1>. DEFINE t == Text(msg)
            idx == FindCrlf(buf)
<1>1. /\ WellTyped(msg)
      /\ buf \in Seq(Token) /\ Len(buf) \in Nat /\ fed \in Nat /\ Len(t) \in Nat /\ Len(body) \in Nat
      /\ Pos \in Nat /\ fed = Pos + Len(buf) /\ fed <= Len(t)
      /\ \A j \in 1 .. Len(buf) : buf[j] = t[Pos + j]
  BY InvFacts
<1>2. /\ running /\ state = "status" /\ Pos = 0 /\ Fresh
      /\ msg' = msg /\ fed' = fed /\ eof' = eof /\ chunked' = chunked
      /\ contentLength' = contentLength /\ body' = body /\ remaining' = remaining
      /\ awaitingSize' = awaitingSize /\ inTrailers' = inTrailers
  BY DEF ParseStatusLine, input, framing, cursor, ParserInv, AtStatus
<1>3. Len(t) >= 5 /\ Start(msg) >= 5
  <2>1. Len(t) = Start(msg) + Len(BodyText(msg)) /\ Start(msg) >= 5 /\ Start(msg) \in Nat
    BY <1>1, TextFacts DEF Start
  <2>2. Len(BodyText(msg)) \in Nat
    BY <1>1, BodyTextType
  <2>. QED
    BY <2>1, <2>2
<1>4. t[1] = (IF msg.bad = "status" THEN "junk" ELSE "status") /\ t[2] = "cr" /\ t[3] = "lf"
  BY <1>1, TextFacts
<1>5. Begins(body, Body(msg))' /\ Fresh'
  BY <1>2 DEF ParserInv, Begins, Fresh
<1>. HIDE DEF t
<1>6. \A j \in 1 .. Len(buf) : buf[j] = t[j]
  BY <1>1, <1>2
<1>7. CASE Len(buf) < 3
  <2>1. idx = 0
    <3>1. Len(buf) > 0 => buf[1] # "cr"
      BY <1>1, <1>4, <1>6
    <3>. QED
      BY <1>1, <1>7, <3>1, NoCrlf
  <2>2. AwaitLine /\ buf' = buf
    BY <2>1 DEF ParseStatusLine
  <2>3. Pos' = Pos /\ Window'
    BY <1>2, <2>2, StayStep
  <2>4. fed < Len(t) /\ fed < Start(msg)
    <3>1. Start(msg) \in Nat
      BY <1>1, TextFacts DEF Start
    <3>. QED
      BY <1>1, <1>2, <1>3, <1>7, <3>1
  <2>5. CASE eof /\ buf # <<>>
    <3>1. state' = "error" /\ running' = FALSE /\ content' = content
      BY <2>2, <2>5 DEF AwaitLine, Raise
    <3>2. TypeOK'
      BY <1>2, <2>2, <3>1 DEF ParserInv, TypeOK
    <3>3. AtFailure'
      BY <1>2, <2>4, <2>5, <3>1 DEF AtFailure, t
    <3>. QED
      BY <1>5, <2>3, <3>1, <3>2, <3>3, InvFailed
  <2>6. CASE ~(eof /\ buf # <<>>)
    <3>1. state' = state /\ running' = FALSE /\ content' = content
      BY <2>2, <2>6 DEF AwaitLine, Await
    <3>2. TypeOK'
      BY <1>2, <2>2, <3>1 DEF ParserInv, TypeOK
    <3>3. Hungry'
      BY <1>2, <2>4 DEF Hungry, t
    <3>4. AtEof'
      BY <1>2, <2>4, <3>1 DEF AtEof
    <3>. QED
      BY <1>2, <1>5, <2>3, <3>1, <3>2, <3>3, <3>4, InvStatus
  <2>. QED
    BY <2>5, <2>6
<1>8. CASE Len(buf) >= 3
  <2>1. buf[1] = t[1] /\ buf[2] = "cr" /\ buf[3] = "lf"
    <3>1. 1 \in 1 .. Len(buf) /\ 2 \in 1 .. Len(buf) /\ 3 \in 1 .. Len(buf)
      BY <1>1, <1>8
    <3>. QED
      BY <1>4, <1>6, <3>1
  <2>2. idx = 2
    <3>1. buf[1] # "cr"
      BY <1>4, <2>1
    <3>. QED
      BY <1>1, <1>8, <2>1, <3>1, CrlfAt2
  <2>3. /\ buf' = Drop(buf, 3)
        /\ IF Take(buf, 1) = <<"status">> THEN Continue("headers") ELSE Raise
    BY <2>2 DEF ParseStatusLine
  <2>4. /\ buf' \in Seq(Token) /\ Len(buf') = Len(buf) - 3 /\ Pos' = 3 /\ Window'
    <3>1. 3 \in 0 .. Len(buf)
      BY <1>1, <1>8
    <3>2. buf' \in Seq(Token) /\ Len(buf') = Len(buf) - 3 /\ Pos' = Pos + 3 /\ Window'
      BY <1>2, <2>3, <3>1, DropStep
    <3>. QED
      BY <1>2, <3>2
  <2>5. Take(buf, 1) = <<"status">> <=> msg.bad # "status"
    <3>1. 1 \in 0 .. Len(buf)
      BY <1>1, <1>8
    <3>2. Take(buf, 1) \in Seq(Token) /\ Len(Take(buf, 1)) = 1 /\ Take(buf, 1)[1] = buf[1]
      <4>1. /\ Take(buf, 1) \in Seq(Token) /\ Len(Take(buf, 1)) = 1
            /\ \A j \in 1 .. 1 : Take(buf, 1)[j] = buf[j]
        BY <1>1, <3>1, TakeFacts
      <4>. QED
        BY <4>1
    <3>. DEFINE a == Take(buf, 1)
                b == <<"status">>
    <3>3. b \in Seq(Token) /\ Len(b) = 1 /\ b[1] = "status"
      BY TokenFacts
    <3>. HIDE DEF a, b
    <3>4. a = b <=> a[1] = b[1]
      <4>1. a \in Seq(Token) /\ Len(a) = 1
        BY <3>2 DEF a
      <4>2. ASSUME a[1] = b[1] PROVE a = b
        BY <3>3, <4>1, <4>2, SameSeq
      <4>. QED
        BY <4>2
    <3>. QED
      BY <1>4, <2>1, <3>2, <3>3, <3>4 DEF a, b
  <2>6. Len(buf') + Len(body') <= fed'
    BY <1>1, <1>2, <2>4 DEF ParserInv, TypeOK
  <2>7. CASE msg.bad = "status"
    <3>1. state' = "error" /\ running' = FALSE /\ content' = content
      BY <2>3, <2>5, <2>7 DEF Raise
    <3>2. TypeOK'
      BY <1>2, <2>4, <2>6, <3>1 DEF ParserInv, TypeOK
    <3>3. AtFailure'
      BY <1>2, <2>7, <3>1 DEF AtFailure
    <3>. QED
      BY <1>5, <2>4, <3>1, <3>2, <3>3, InvFailed
  <2>8. CASE msg.bad # "status"
    <3>1. state' = "headers" /\ running' = running /\ content' = content
      BY <2>3, <2>5, <2>8 DEF Continue
    <3>2. TypeOK'
      BY <1>2, <2>4, <2>6, <3>1 DEF ParserInv, TypeOK
    <3>3. Hungry'
      BY <1>2, <3>1 DEF Hungry
    <3>4. msg.bad' # "status"
      BY <1>2, <2>8
    <3>5. AtEof'
      BY <1>2, <3>1 DEF AtEof
    <3>. QED
      BY <1>5, <2>4, <3>1, <3>2, <3>3, <3>4, <3>5, InvHeaders
  <2>. QED
    BY <2>7, <2>8
<1>. QED
  BY <1>1, <1>7, <1>8

LEMMA HeadersInv ==
  ASSUME ParserInv, ParseHeaders
  PROVE  ParserInv'
<1>. DEFINE t == Text(msg)
            h == HeaderText(msg)
            end == FindBlank(buf)
            empty == EmptyBlock(buf)
            block == IF empty THEN <<>> ELSE Take(buf, end - 1)
<1>1. /\ WellTyped(msg) /\ Consistent(msg) /\ Visible(msg)
      /\ buf \in Seq(Token) /\ Len(buf) \in Nat /\ fed \in Nat /\ Len(t) \in Nat /\ Len(body) \in Nat
      /\ Pos \in Nat /\ fed = Pos + Len(buf) /\ fed <= Len(t)
      /\ \A j \in 1 .. Len(buf) : buf[j] = t[Pos + j]
  BY InvFacts
<1>2. /\ running /\ state = "headers" /\ Pos = 3 /\ Fresh /\ msg.bad # "status"
      /\ msg' = msg /\ fed' = fed /\ eof' = eof /\ body' = body /\ remaining' = remaining
      /\ awaitingSize' = awaitingSize /\ inTrailers' = inTrailers
  BY DEF ParseHeaders, input, cursor, ParserInv, AtHeaders
<1>3. /\ h \in Seq(Token) /\ Len(h) \in Nat /\ Start(msg) = Len(h) + 5
      /\ Len(t) = Start(msg) + Len(BodyText(msg))
      /\ \A j \in 1 .. Len(h) : t[3 + j] = h[j]
      /\ t[3 + Len(h) + 1] = "cr" /\ t[3 + Len(h) + 2] = "lf"
  BY <1>1, TextFacts DEF Start, Lies
<1>4. Len(t) >= Len(h) + 5
  <2>1. Len(BodyText(msg)) \in Nat
    BY <1>1, BodyTextType
  <2>. QED
    BY <1>3, <2>1
<1>5. /\ Lines(h)
      /\ "te" \in ToSet(h) <=> msg.te
      /\ "cl" \in ToSet(h) <=> msg.cl # NoLength
      /\ "junk" \in ToSet(h) <=> msg.bad = "header"
  BY <1>1, HeaderFacts
<1>6. Begins(body, Body(msg))' /\ Fresh'
  BY <1>2 DEF ParserInv, Begins, Fresh
<1>. HIDE DEF t, h
<1>7. /\ \A j \in 1 .. Len(buf) : j <= Len(h) => buf[j] = h[j]
      /\ Len(buf) >= Len(h) + 1 => buf[Len(h) + 1] = "cr"
      /\ Len(buf) >= Len(h) + 2 => buf[Len(h) + 2] = "lf"
  <2>1. ASSUME NEW j \in 1 .. Len(buf), j <= Len(h) PROVE buf[j] = h[j]
    <3>1. j \in 1 .. Len(h)
      BY <1>3, <2>1
    <3>. QED
      BY <1>1, <1>2, <1>3, <3>1
  <2>2. ASSUME Len(buf) >= Len(h) + 1 PROVE buf[Len(h) + 1] = "cr"
    <3>1. Len(h) + 1 \in 1 .. Len(buf) /\ 3 + (Len(h) + 1) = 3 + Len(h) + 1
      BY <1>1, <1>3, <2>2
    <3>. QED
      BY <1>1, <1>2, <1>3, <3>1
  <2>3. ASSUME Len(buf) >= Len(h) + 2 PROVE buf[Len(h) + 2] = "lf"
    <3>1. Len(h) + 2 \in 1 .. Len(buf) /\ 3 + (Len(h) + 2) = 3 + Len(h) + 2
      BY <1>1, <1>3, <2>3
    <3>. QED
      BY <1>1, <1>2, <1>3, <3>1
  <2>. QED
    BY <2>1, <2>2, <2>3
<1>8. CASE Len(buf) < Len(h) + 2
  <2>1. ~empty /\ end = 0
    <3>1. CASE Len(h) = 0
      <4>1. Len(buf) < 2
        BY <1>8, <3>1
      <4>2. \A i \in 1 .. Len(buf) - 3 : ~BlankAt(buf, i)
        BY <1>1, <4>1
      <4>3. end = 0
        BY <1>1, <4>2, NoBlank
      <4>. QED
        BY <1>1, <4>1, <4>3 DEF EmptyBlock, StartsWithCrlf
    <3>2. CASE Len(h) > 0
      <4>1. (Len(buf) >= 1 => buf[1] # "cr") /\ end = 0
        BY <1>1, <1>5, <1>7, <1>8, <3>2, HeaderBlank
      <4>. QED
        BY <1>1, <4>1 DEF EmptyBlock, StartsWithCrlf
    <3>. QED
      BY <1>3, <3>1, <3>2
  <2>2. AwaitLine /\ buf' = buf /\ chunked' = chunked /\ contentLength' = contentLength
    BY <2>1 DEF ParseHeaders, framing
  <2>3. Pos' = Pos /\ Window'
    BY <1>2, <2>2, StayStep
  <2>4. fed < Len(t) /\ fed < Start(msg)
    BY <1>1, <1>2, <1>3, <1>4, <1>8
  <2>5. CASE eof /\ buf # <<>>
    <3>1. state' = "error" /\ running' = FALSE /\ content' = content
      BY <2>2, <2>5 DEF AwaitLine, Raise
    <3>2. TypeOK'
      BY <1>2, <2>2, <3>1 DEF ParserInv, TypeOK
    <3>3. AtFailure'
      BY <1>2, <2>4, <2>5, <3>1 DEF AtFailure, t
    <3>. QED
      BY <1>6, <2>3, <3>1, <3>2, <3>3, InvFailed
  <2>6. CASE ~(eof /\ buf # <<>>)
    <3>1. state' = state /\ running' = FALSE /\ content' = content
      BY <2>2, <2>6 DEF AwaitLine, Await
    <3>2. TypeOK'
      BY <1>2, <2>2, <3>1 DEF ParserInv, TypeOK
    <3>3. Hungry'
      BY <1>2, <2>4 DEF Hungry, t
    <3>4. msg.bad' # "status"
      BY <1>2
    <3>5. AtEof'
      BY <1>2, <2>4, <3>1 DEF AtEof
    <3>. QED
      BY <1>2, <1>6, <2>3, <3>1, <3>2, <3>3, <3>4, <3>5, InvHeaders
  <2>. QED
    BY <2>5, <2>6
<1>9. CASE Len(buf) >= Len(h) + 2
  <2>1. /\ buf' = Drop(buf, Len(h) + 2)
        /\ IF "junk" \in ToSet(block)
             THEN Raise /\ UNCHANGED framing
             ELSE ResolveFraming(block)
        /\ \A w \in {"te", "cl", "junk"} : w \in ToSet(block) <=> w \in ToSet(h)
    <3>1. CASE Len(h) = 0
      <4>1. Len(buf) >= 2 /\ buf[1] = "cr" /\ buf[2] = "lf"
        <5>1. Len(buf) >= Len(h) + 1 /\ Len(h) + 1 = 1 /\ Len(h) + 2 = 2
          BY <1>1, <1>9, <3>1
        <5>. QED
          BY <1>7, <1>9, <5>1
      <4>2. empty
        BY <4>1 DEF EmptyBlock, StartsWithCrlf
      <4>3. block = <<>> /\ ToSet(block) = {}
        BY <4>2 DEF ToSet
      <4>4. ToSet(h) = {}
        BY <1>3, <3>1 DEF ToSet
      <4>5. Len(h) + 2 = 2
        BY <3>1
      <4>6. /\ buf' = Drop(buf, 2)
            /\ IF "junk" \in ToSet(block)
                 THEN Raise /\ UNCHANGED framing
                 ELSE ResolveFraming(block)
        BY <4>2 DEF ParseHeaders
      <4>. QED
        BY <4>3, <4>4, <4>5, <4>6
    <3>2. CASE Len(h) > 0
      <4>1. /\ Len(h) >= 3
            /\ Len(buf) >= 1 => buf[1] # "cr"
            /\ end = Len(h) - 1
            /\ \A w \in Token \ {"cr", "lf"} : w \in ToSet(Take(buf, Len(h) - 2)) <=> w \in ToSet(h)
        <5>1. ~(Len(buf) < Len(h) + 2)
          BY <1>1, <1>3, <1>9
        <5>. QED
          BY <1>1, <1>5, <1>7, <1>9, <3>2, <5>1, HeaderBlank
      <4>2. ~empty /\ end # 0 /\ end - 1 = Len(h) - 2 /\ end + 3 = Len(h) + 2
        BY <1>1, <1>3, <4>1 DEF EmptyBlock, StartsWithCrlf
      <4>3. block = Take(buf, Len(h) - 2)
        BY <4>2
      <4>4. buf' = Drop(buf, end + 3)
        BY <4>2 DEF ParseHeaders, AfterBlank
      <4>5. IF "junk" \in ToSet(block)
              THEN Raise /\ UNCHANGED framing
              ELSE ResolveFraming(block)
        BY <4>2 DEF ParseHeaders
      <4>6. {"te", "cl", "junk"} \subseteq Token \ {"cr", "lf"}
        BY TokenFacts
      <4>7. \A w \in {"te", "cl", "junk"} : w \in ToSet(block) <=> w \in ToSet(h)
        <5>. HIDE DEF block
        <5>. QED
          BY <4>1, <4>3, <4>6
      <4>. QED
        BY <4>2, <4>4, <4>5, <4>7
    <3>. QED
      BY <1>3, <3>1, <3>2
  <2>. HIDE DEF block, empty, end
  <2>2. /\ buf' \in Seq(Token) /\ Len(buf') = Len(buf) - (Len(h) + 2)
        /\ Pos' = Start(msg) /\ Window'
    <3>1. Len(h) + 2 \in 0 .. Len(buf)
      BY <1>1, <1>3, <1>9
    <3>2. /\ buf' \in Seq(Token) /\ Len(buf') = Len(buf) - (Len(h) + 2)
          /\ Pos' = Pos + (Len(h) + 2) /\ Window'
      BY <1>2, <2>1, <3>1, DropStep
    <3>. QED
      BY <1>2, <1>3, <3>2
  <2>3. Len(buf') + Len(body') <= fed'
    BY <1>1, <1>2, <1>3, <2>2 DEF ParserInv, TypeOK
  <2>4. CASE msg.bad = "header"
    <3>1. "junk" \in ToSet(block)
      BY <1>5, <2>1, <2>4
    <3>2. state' = "error" /\ running' = FALSE /\ content' = content /\ chunked' = chunked /\ contentLength' = contentLength
      BY <2>1, <3>1 DEF Raise, framing
    <3>3. TypeOK'
      BY <1>2, <2>2, <2>3, <3>2 DEF ParserInv, TypeOK
    <3>4. AtFailure'
      BY <1>2, <2>4, <3>2 DEF AtFailure
    <3>. QED
      BY <1>6, <2>2, <3>2, <3>3, <3>4, InvFailed
  <2>5. CASE msg.bad # "header"
    <3>. DEFINE te == "te" \in ToSet(block)
                cl == "cl" \in ToSet(block) /\ ~te /\ ~NoBodyCode(msg.code)
    <3>1. ResolveFraming(block)
      BY <1>5, <2>1, <2>5
    <3>2. /\ te <=> msg.te
          /\ cl <=> (msg.cl # NoLength /\ ~msg.te /\ ~NoBodyCode(msg.code))
      BY <1>5, <2>1
    <3>3. /\ chunked' = te
          /\ contentLength' = IF ~te /\ NoBodyCode(msg.code) THEN 0
                              ELSE IF cl /\ msg.bad = "negative" THEN -1
                              ELSE IF cl /\ msg.bad # "length" THEN msg.cl
                              ELSE NoLength
          /\ IF cl /\ msg.bad = "length" THEN Raise ELSE Continue("body")
      BY <3>1 DEF ResolveFraming
    <3>. HIDE DEF te, cl
    <3>4. chunked' \in BOOLEAN /\ contentLength' \in Int \cup {NoLength}
      <4>1. msg.cl \in Nat \cup {NoLength}
        BY <1>1 DEF WellTyped
      <4>2. te \in BOOLEAN
        BY DEF te
      <4>. QED
        BY <3>3, <4>1, <4>2
    <3>5. CASE msg.bad = "length"
      <4>1. cl
        BY <1>1, <3>2, <3>5 DEF Visible
      <4>2. state' = "error" /\ running' = FALSE /\ content' = content
        BY <3>3, <3>5, <4>1 DEF Raise
      <4>3. TypeOK'
        BY <1>2, <2>2, <2>3, <3>4, <4>2 DEF ParserInv, TypeOK
      <4>4. AtFailure'
        BY <1>2, <3>5, <4>2 DEF AtFailure
      <4>. QED
        BY <1>6, <2>2, <4>2, <4>3, <4>4, InvFailed
    <3>6. CASE msg.bad # "length"
      <4>1. state' = "body" /\ running' = running /\ content' = content
        BY <3>3, <3>6 DEF Continue
      <4>2. TypeOK'
        BY <1>2, <2>2, <2>3, <3>4, <4>1 DEF ParserInv, TypeOK
      <4>3. Hungry'
        BY <1>2, <4>1 DEF Hungry
      <4>4. chunked' = msg.te
        <5>1. msg.te \in BOOLEAN
          BY <1>1 DEF WellTyped
        <5>2. te \in BOOLEAN
          BY DEF te
        <5>. QED
          BY <3>2, <3>3, <5>1, <5>2
      <4>5. ASSUME ~msg.te PROVE AtFixed'
        <5>1. contentLength' = FramedLength(msg)
          BY <3>2, <3>3, <3>6, <4>5 DEF FramedLength
        <5>2. Len(body') = 0 /\ Start(msg) \in Nat
          BY <1>2, <1>3 DEF Fresh
        <5>. QED
          BY <1>2, <2>2, <5>1, <5>2 DEF AtFixed, Fresh
      <4>6. ASSUME msg.te PROVE AtChunked'
        <5>1. SentChunked(msg)
          BY <1>1, <4>6 DEF SentChunked, Consistent
        <5>2. Len(msg.chunks) \in Nat /\ ChunkAt(msg, 1) = Start(msg) /\ DataAt(msg, 1) = 0
          BY <5>1, LastChunkFacts
        <5>3. Len(body') = 0
          BY <1>2 DEF Fresh
        <5>4. AtSize(1)'
          BY <1>2, <1>6, <2>2, <5>2, <5>3 DEF AtSize, Fresh
        <5>5. 1 \in 1 .. Len(msg.chunks) + 1
          BY <5>2
        <5>. QED
          BY <1>2, <5>4, <5>5 DEF AtChunked
      <4>7. msg.bad \notin {"status", "header", "length"}
        BY <1>2, <2>5, <3>6
      <4>8. AtBody'
        BY <1>2, <4>4, <4>5, <4>6, <4>7 DEF AtBody
      <4>9. AtEof'
        BY <1>2, <4>1 DEF AtEof
      <4>. QED
        BY <1>6, <2>2, <4>1, <4>2, <4>3, <4>8, <4>9, InvBody
    <3>. QED
      BY <3>5, <3>6
  <2>. QED
    BY <2>4, <2>5
<1>. QED
  BY <1>1, <1>3, <1>8, <1>9

\* A body that is all there is the body of the response.
LEMMA WholeBody ==
  ASSUME WellTyped(msg), NEW b \in Seq(Bytes), Begins(b, Body(msg)), Len(b) = Len(Body(msg))
  PROVE  b = Body(msg)
<1>1. Body(msg) \in Seq(Bytes)
  BY DataType DEF Body
<1>2. b \in Seq(Token) /\ Body(msg) \in Seq(Token)
  BY <1>1, TokenFacts
<1>. QED
  BY <1>2, SameSeq DEF Begins

\* _finalize() from a place where the body may be returned.
LEMMA FinalizeInv ==
  ASSUME ParserInv, state = "body", Finalize,
         msg' = msg, fed' = fed, eof' = eof, chunked' = chunked, contentLength' = contentLength,
         remaining' = remaining, awaitingSize' = awaitingSize, inTrailers' = inTrailers,
         body' \in Seq(Bytes), buf' \in Seq(Token), Len(buf') + Len(body') <= fed,
         Window', Begins(body, Body(msg))',
         msg.bad \in {"none", "coding"} \/ (msg.bad = "negative" /\ ~chunked /\ body' = <<>>),
         chunked => Len(body') = Len(Body(msg)),
         ~chunked /\ msg.bad = "none" => fed = Start(msg) + Len(body'),
         ~eof /\ Sized(msg) => Len(body') = Len(Body(msg)) /\ Pos' = Len(Text(msg))
  PROVE  ParserInv'
<1>1. WellTyped(msg) /\ content = "none" /\ chunked = msg.te /\ msg.te \in BOOLEAN
  BY InvFacts DEF ParserInv, TypeOK, AtBody, WellTyped
<1>2. PICK result \in Decompress(body') :
        \/ result = "EOFError" /\ state' = "crash" /\ content' = content
        \/ result # "EOFError" /\ state' = "done" /\ content' = result
  BY DEF Finalize
<1>3. running' = FALSE
  BY DEF Finalize
<1>4. result \in {"EOFError", "plain", "raw"}
  BY <1>2 DEF Decompress
<1>5. AtEof'
  BY <1>1, <1>2 DEF AtEof
<1>6. CASE result = "EOFError"
  <2>1. state' = "crash" /\ content' = content
    BY <1>2, <1>6
  <2>2. TypeOK'
    BY <1>1, <1>3, <2>1 DEF ParserInv, TypeOK
  <2>3. msg.coding = "gzip"
    BY <1>1, <1>2, <1>6 DEF Decompress, WellTyped
  <2>4. ASSUME msg.bad # "coding" PROVE eof /\ ~msg.te
    <3>1. body' # <<>> /\ body' # Body(msg)
      BY <1>2, <1>6, <2>4 DEF Decompress
    <3>2. Sized(msg)
      BY <3>1, <2>4 DEF Sized
    <3>3. Len(body') # Len(Body(msg))
      <4>1. Begins(body', Body(msg))
        OBVIOUS
      <4>. QED
        BY <1>1, <3>1, <4>1, WholeBody
    <3>. QED
      BY <1>1, <3>2, <3>3
  <2>5. AtFailure'
    BY <2>1, <2>3, <2>4 DEF AtFailure
  <2>. QED
    BY <1>5, <2>1, <2>2, <2>5, InvCrashed
<1>7. CASE result # "EOFError"
  <2>1. state' = "done" /\ content' = result
    BY <1>2, <1>7
  <2>2. TypeOK'
    BY <1>3, <1>4, <1>7, <2>1 DEF ParserInv, TypeOK
  <2>3. /\ Body(msg)' = Body(msg) /\ Text(msg)' = Text(msg) /\ Sized(msg)' = Sized(msg)
        /\ Decompress(body)' = Decompress(body')
    BY DEF Decompress
  <2>4. AtDone'
    BY <1>2, <2>1, <2>3 DEF AtDone
  <2>. QED
    BY <1>5, <2>1, <2>2, <2>4, InvDone
<1>. QED
  BY <1>6, <1>7

\* A body that is not chunked: all that was fed of it is moved to the body.
LEMMA PlainBodyStep ==
  ASSUME ParserInv, state = "body", ~chunked, ~NoBodyCode(msg.code),
         msg' = msg, fed' = fed, body' = body \o Take(buf, Len(buf)), buf' = Drop(buf, Len(buf))
  PROVE  /\ body' \in Seq(Bytes) /\ Len(body') = Len(body) + Len(buf) /\ Begins(body, Body(msg))'
         /\ buf' \in Seq(Token) /\ Len(buf') = 0 /\ Window'
         /\ Pos' = fed /\ Start(msg) \in Nat /\ fed = Start(msg) + Len(body')
         /\ Len(Text(msg)) = Start(msg) + Len(Data(msg))
<1>. DEFINE t == Text(msg)
            d == Data(msg)
<1>1. /\ WellTyped(msg)
      /\ buf \in Seq(Token) /\ Len(buf) \in Nat /\ fed \in Nat /\ Len(t) \in Nat /\ Len(body) \in Nat
      /\ Pos \in Nat /\ fed = Pos + Len(buf) /\ fed <= Len(t)
  BY InvFacts
<1>2. ~msg.te /\ Pos = Start(msg) + Len(body)
  BY DEF ParserInv, AtBody, AtFixed
<1>3. BodyText(msg) = d /\ Body(msg) = d /\ d \in Seq(Bytes)
  BY <1>1, <1>2, BodyTextType, DataType DEF Body
<1>4. /\ Start(msg) \in Nat /\ Len(t) = Start(msg) + Len(d)
      /\ \A j \in 1 .. Len(d) : t[Start(msg) + j] = d[j]
  <2>. DEFINE b == BodyText(msg)
  <2>1. Len(HeaderText(msg)) \in Nat /\ Len(t) = Start(msg) + Len(b) /\ Lies(b, t, Start(msg))
    BY <1>1, TextFacts
  <2>2. Start(msg) \in Nat
    BY <2>1 DEF Start
  <2>. HIDE DEF b, t, d
  <2>3. b = d
    BY <1>3 DEF b, d
  <2>. QED
    BY <2>1, <2>2, <2>3 DEF Lies
<1>. HIDE DEF t, d
<1>5. Len(d) \in Nat /\ Len(body) + Len(buf) <= Len(d)
  BY <1>1, <1>2, <1>3, <1>4
<1>6. ASSUME NEW j \in 1 .. Len(buf) PROVE t[Pos + j] = d[Len(body) + j]
  <2>1. Len(body) + j \in 1 .. Len(d) /\ Start(msg) + (Len(body) + j) = Pos + j
    <3>1. Start(msg) \in Nat /\ Len(body) \in Nat /\ j \in Nat /\ Pos = Start(msg) + Len(body)
      BY <1>1, <1>2, <1>4
    <3>2. Len(body) + j \in 1 .. Len(d)
      BY <1>1, <1>5, <3>1
    <3>3. Start(msg) + (Len(body) + j) = Pos + j
      BY <3>1
    <3>. QED
      BY <3>2, <3>3
  <2>2. t[Start(msg) + (Len(body) + j)] = d[Len(body) + j]
    BY <1>4, <2>1
  <2>. QED
    BY <2>1, <2>2
<1>7. Len(buf) \in 0 .. Len(buf)
  BY <1>1
<1>8. body' \in Seq(Bytes) /\ Len(body') = Len(body) + Len(buf) /\ Begins(body, Body(msg))'
  <2>1. /\ Len(body) + Len(buf) <= Len(Body(msg))
        /\ \A j \in 1 .. Len(buf) : Text(msg)[Pos + j] = Body(msg)[Len(body) + j]
    BY <1>3, <1>5, <1>6 DEF t
  <2>. QED
    BY <1>7, <2>1, TakeStep
<1>9. buf' \in Seq(Token) /\ Len(buf') = Len(buf) - Len(buf) /\ Pos' = Pos + Len(buf) /\ Window'
  BY <1>7, DropStep
<1>. QED
  BY <1>1, <1>2, <1>4, <1>8, <1>9 DEF t, d

LEMMA FixedLengthInv ==
  ASSUME ParserInv, ParseFixedLength
  PROVE  ParserInv'
<1>. DEFINE take == Max({0, Min({contentLength - Len(body), Len(buf)})})
            t == Text(msg)
<1>1. /\ WellTyped(msg) /\ Consistent(msg) /\ Visible(msg)
      /\ buf \in Seq(Token) /\ Len(buf) \in Nat /\ fed \in Nat /\ Len(t) \in Nat /\ Len(body) \in Nat
      /\ body \in Seq(Bytes)
      /\ Pos \in Nat /\ fed = Pos + Len(buf) /\ fed <= Len(t)
  BY InvFacts
<1>2. /\ running /\ state = "body" /\ ~chunked /\ contentLength # NoLength
      /\ body' = body \o Take(buf, take) /\ buf' = Drop(buf, take)
      /\ IF Len(body') >= contentLength \/ eof THEN Finalize ELSE Await
      /\ msg' = msg /\ fed' = fed /\ eof' = eof /\ chunked' = chunked
      /\ contentLength' = contentLength /\ remaining' = remaining
      /\ awaitingSize' = awaitingSize /\ inTrailers' = inTrailers
  BY DEF ParseFixedLength, input, framing, cursor
<1>3. /\ ~msg.te /\ contentLength = FramedLength(msg) /\ Pos = Start(msg) + Len(body)
      /\ msg.bad = "negative" => body = <<>>
      /\ msg.bad \notin {"status", "header", "length"}
  BY <1>2 DEF ParserInv, AtBody, AtFixed
<1>4. msg.bad \in {"none", "coding", "negative"}
  BY <1>1, <1>3 DEF Visible, WellTyped
<1>5. contentLength \in Int
  BY <1>2 DEF ParserInv, TypeOK
<1>6. take = LET r == contentLength - Len(body)
                 x == IF r <= Len(buf) THEN r ELSE Len(buf)
             IN  IF 0 >= x THEN 0 ELSE x
  <2>. DEFINE r == contentLength - Len(body)
              x == IF r <= Len(buf) THEN r ELSE Len(buf)
  <2>1. r \in Int /\ Len(buf) \in Int
    BY <1>1, <1>5
  <2>. HIDE DEF r
  <2>2. Min({r, Len(buf)}) = x
    BY <2>1, MinOfTwo
  <2>3. x \in Int
    BY <2>1
  <2>. HIDE DEF x
  <2>4. Max({0, x}) = IF 0 >= x THEN 0 ELSE x
    BY <2>3, MaxOfTwo
  <2>. QED
    BY <2>2, <2>4 DEF r, x
<1>. HIDE DEF take
<1>7. CASE NoBodyCode(msg.code) \/ msg.bad = "negative"
  <2>1. contentLength \in {0, -1}
    BY <1>2, <1>3, <1>7 DEF FramedLength
  <2>2. Len(body) = 0 /\ body = <<>> /\ (NoBodyCode(msg.code) => Len(Body(msg)) = 0)
    <3>1. CASE NoBodyCode(msg.code)
      <4>1. Body(msg) = <<>> /\ Len(Body(msg)) = 0
        BY <3>1 DEF Body
      <4>2. Len(body) = 0
        BY <1>1, <4>1 DEF ParserInv, Begins
      <4>3. body = <<>>
        BY <1>1, <4>2
      <4>. QED
        BY <4>1, <4>2, <4>3
    <3>2. CASE ~NoBodyCode(msg.code)
      BY <1>3, <1>7, <3>2
    <3>. QED
      BY <3>1, <3>2
  <2>3. take = 0
    BY <1>1, <1>6, <2>1, <2>2
  <2>4. Take(buf, 0) = <<>>
    BY <1>1 DEF Take
  <2>5. body' = <<>> /\ Len(body') = 0 /\ body' \in Seq(Bytes)
    <3>1. body' = <<>> \o <<>>
      BY <1>2, <2>2, <2>3, <2>4
    <3>2. <<>> \o <<>> = <<>> /\ <<>> \in Seq(Bytes) /\ Len(<<>>) = 0
      OBVIOUS
    <3>. QED
      BY <3>1, <3>2
  <2>6. /\ buf' \in Seq(Token) /\ Len(buf') = Len(buf) /\ Pos' = Pos /\ Window'
    <3>1. 0 \in 0 .. Len(buf) /\ buf' = Drop(buf, 0)
      BY <1>1, <1>2, <2>3
    <3>2. buf' \in Seq(Token) /\ Len(buf') = Len(buf) - 0 /\ Pos' = Pos + 0 /\ Window'
      BY <1>2, <3>1, DropStep
    <3>. QED
      BY <1>1, <3>2
  <2>7. Finalize
    BY <1>2, <2>1, <2>5
  <2>8. Begins(body, Body(msg))'
    <3>1. body' = body
      BY <2>2, <2>5
    <3>. QED
      BY <1>2, <3>1 DEF ParserInv, Begins
  <2>9. Len(buf') + Len(body') <= fed
    BY <1>1, <2>5, <2>6
  <2>10. ASSUME Sized(msg)
         PROVE  Len(body') = Len(Body(msg)) /\ Pos' = Len(t) /\ fed = Start(msg) + Len(body')
    <3>1. NoBodyCode(msg.code)
      BY <1>7, <2>10 DEF Sized
    <3>2. Len(t) = Start(msg) + Len(BodyText(msg)) /\ BodyText(msg) = <<>> /\ Start(msg) \in Nat
      BY <1>1, <3>1, TextFacts, BodyTextType DEF Start
    <3>. QED
      BY <1>1, <1>3, <2>2, <2>5, <2>6, <3>1, <3>2
  <2>11. msg.bad = "none" => fed = Start(msg) + Len(body')
    BY <2>10 DEF Sized
  <2>. QED
    BY <1>2, <1>4, <2>5, <2>6, <2>7, <2>8, <2>9, <2>10, <2>11, FinalizeInv DEF t
<1>8. CASE ~NoBodyCode(msg.code) /\ msg.bad # "negative"
  <2>. DEFINE d == Data(msg)
  <2>1. contentLength = Len(d) /\ Body(msg) = d
    BY <1>1, <1>2, <1>3, <1>8 DEF FramedLength, Consistent, Body
  <2>2. take = Len(buf)
    <3>1. Len(t) = Start(msg) + Len(d) /\ Start(msg) \in Nat
      <4>1. BodyText(msg) = d
        BY <1>1, <1>3, <1>8, BodyTextType
      <4>2. Len(t) = Start(msg) + Len(BodyText(msg)) /\ Len(HeaderText(msg)) \in Nat
        BY <1>1, TextFacts
      <4>. QED
        BY <4>1, <4>2 DEF Start
    <3>2. Len(buf) <= contentLength - Len(body)
      BY <1>1, <1>3, <1>5, <2>1, <3>1
    <3>. QED
      BY <1>1, <1>5, <1>6, <3>2
  <2>3. /\ body' \in Seq(Bytes) /\ Len(body') = Len(body) + Len(buf) /\ Begins(body, Body(msg))'
        /\ buf' \in Seq(Token) /\ Len(buf') = 0 /\ Window'
        /\ Pos' = fed /\ Start(msg) \in Nat /\ fed = Start(msg) + Len(body')
        /\ Len(t) = Start(msg) + Len(d)
    BY <1>2, <1>8, <2>2, PlainBodyStep
  <2>4. Len(buf') + Len(body') <= fed /\ Len(body') \in Nat
    BY <1>1, <2>3
  <2>5. CASE Len(body') >= contentLength \/ eof
    <3>1. Finalize
      BY <1>2, <2>5
    <3>2. ASSUME ~eof PROVE Len(body') = Len(Body(msg)) /\ Pos' = Len(t)
      <4>1. Len(body') >= Len(d) /\ Len(d) \in Int /\ Len(body') <= Len(d)
        BY <1>1, <1>5, <2>1, <2>3, <2>4, <2>5, <3>2
      <4>2. Len(body') = Len(d)
        BY <2>4, <4>1
      <4>. QED
        BY <2>1, <2>3, <4>2
    <3>. QED
      BY <1>2, <1>4, <1>8, <2>3, <2>4, <3>1, <3>2, FinalizeInv DEF t
  <2>6. CASE ~(Len(body') >= contentLength \/ eof)
    <3>1. running' = FALSE /\ state' = state /\ content' = content
      BY <1>2, <2>6 DEF Await
    <3>2. TypeOK'
      BY <1>2, <2>3, <2>4, <3>1 DEF ParserInv, TypeOK
    <3>3. fed < Len(t)
      <4>1. Len(body') < Len(d) /\ Len(d) \in Int
        BY <1>5, <2>1, <2>4, <2>6
      <4>. QED
        BY <2>3, <2>4, <4>1
    <3>4. Hungry'
      BY <1>2, <3>3 DEF Hungry, t
    <3>5. AtFixed'
      BY <1>2, <1>3, <1>8, <2>3 DEF AtFixed
    <3>6. AtBody'
      BY <1>2, <1>3, <3>5 DEF ParserInv, AtBody
    <3>7. AtEof'
      BY <1>2, <2>6 DEF AtEof
    <3>. QED
      BY <1>2, <2>3, <3>1, <3>2, <3>4, <3>6, <3>7, InvBody
  <2>. QED
    BY <2>5, <2>6
<1>. QED
  BY <1>7, <1>8

LEMMA UntilCloseInv ==
  ASSUME ParserInv, ParseUntilClose
  PROVE  ParserInv'
<1>1. /\ WellTyped(msg) /\ Consistent(msg) /\ Visible(msg)
      /\ buf \in Seq(Token) /\ Len(buf) \in Nat /\ fed \in Nat /\ Len(Text(msg)) \in Nat
      /\ Pos \in Nat /\ fed = Pos + Len(buf) /\ fed <= Len(Text(msg)) /\ Len(body) \in Nat
  BY InvFacts
<1>2. /\ running /\ state = "body" /\ ~chunked /\ contentLength = NoLength
      /\ body' = body \o buf /\ buf' = <<>>
      /\ IF eof THEN Finalize ELSE Await
      /\ msg' = msg /\ fed' = fed /\ eof' = eof /\ chunked' = chunked
      /\ contentLength' = contentLength /\ remaining' = remaining
      /\ awaitingSize' = awaitingSize /\ inTrailers' = inTrailers
  BY DEF ParseUntilClose, input, framing, cursor
<1>3. /\ ~msg.te /\ contentLength = FramedLength(msg) /\ Pos = Start(msg) + Len(body)
      /\ msg.bad = "negative" => body = <<>>
      /\ msg.bad \notin {"status", "header", "length"}
  BY <1>2 DEF ParserInv, AtBody, AtFixed
<1>4. ~NoBodyCode(msg.code) /\ msg.cl = NoLength
  BY <1>2, <1>3, NoLengthAssumption DEF FramedLength
<1>5. msg.bad \in {"none", "coding"}
  BY <1>1, <1>3, <1>4 DEF Visible, WellTyped
<1>6. buf = Take(buf, Len(buf)) /\ <<>> = Drop(buf, Len(buf))
  BY <1>1 DEF Take, Drop
<1>7. /\ body' \in Seq(Bytes) /\ Len(body') = Len(body) + Len(buf) /\ Begins(body, Body(msg))'
      /\ buf' \in Seq(Token) /\ Len(buf') = 0 /\ Window'
      /\ Pos' = fed /\ Start(msg) \in Nat /\ fed = Start(msg) + Len(body')
  <2>1. body' = body \o Take(buf, Len(buf)) /\ buf' = Drop(buf, Len(buf))
    BY <1>2, <1>6
  <2>. QED
    BY <1>2, <1>4, <2>1, PlainBodyStep
<1>8. Len(buf') + Len(body') <= fed
  BY <1>1, <1>7
<1>9. CASE eof
  BY <1>2, <1>5, <1>7, <1>8, <1>9, FinalizeInv
<1>10. CASE ~eof
  <2>1. running' = FALSE /\ state' = state /\ content' = content
    BY <1>2, <1>10 DEF Await
  <2>2. TypeOK'
    BY <1>2, <1>7, <1>8, <2>1 DEF ParserInv, TypeOK
  <2>3. Hungry'
    BY <1>2, <1>3, <1>4 DEF Hungry, Delimited
  <2>4. AtFixed'
    BY <1>2, <1>3, <1>5, <1>7 DEF AtFixed
  <2>5. AtBody'
    BY <1>2, <1>3, <2>4 DEF ParserInv, AtBody
  <2>6. AtEof'
    BY <1>2, <1>10 DEF AtEof
  <2>. QED
    BY <1>2, <1>7, <2>1, <2>2, <2>3, <2>5, <2>6, InvBody
<1>. QED
  BY <1>9, <1>10

\* What the parts of _parse_chunked() start from.
LEMMA ChunkedStart ==
  ASSUME ParserInv, InChunks
  PROVE  /\ running /\ state = "body" /\ chunked /\ msg.te
         /\ SentChunked(msg) /\ AtChunked /\ Body(msg) = Data(msg)
         /\ msg.bad \in {"none", "size", "negative", "crlf", "coding"}
         /\ content = "none"
<1>1. WellTyped(msg) /\ Consistent(msg)
  BY InvFacts
<1>2. /\ running /\ state = "body" /\ chunked /\ msg.te /\ AtChunked
      /\ msg.bad \notin {"status", "header", "length"}
  BY DEF InChunks, ParserInv, AtBody, TypeOK
<1>3. ~NoBodyCode(msg.code)
  BY <1>1, <1>2 DEF Consistent
<1>4. msg.bad \in {"none", "size", "negative", "crlf", "coding"}
  BY <1>1, <1>2 DEF WellTyped
<1>5. content = "none"
  BY <1>2 DEF ParserInv, TypeOK
<1>. QED
  BY <1>1, <1>2, <1>3, <1>4, <1>5 DEF SentChunked, Body

\* What a part of _parse_chunked() leaves: the types, the window and the body.
Kept ==
  /\ msg' = msg /\ fed' = fed /\ eof' = eof /\ chunked' = chunked /\ contentLength' = contentLength
  /\ body' \in Seq(Bytes) /\ buf' \in Seq(Token) /\ Len(buf') + Len(body') <= fed
  /\ remaining' \in -1 .. Len(SizeToken) /\ awaitingSize' \in BOOLEAN /\ inTrailers' \in BOOLEAN
  /\ Window' /\ Begins(body, Body(msg))'

LEMMA ChunkedRaise ==
  ASSUME ParserInv, InChunks, Kept, Raise, msg.bad = "none" => eof /\ fed < Len(Text(msg))
  PROVE  ParserInv'
<1>1. state' = "error" /\ running' = FALSE /\ content' = "none"
  BY ChunkedStart DEF Raise
<1>2. TypeOK'
  BY <1>1 DEF Kept, ParserInv, TypeOK
<1>3. AtFailure'
  BY <1>1, ChunkedStart DEF Kept, AtFailure
<1>. QED
  BY <1>1, <1>2, <1>3, InvFailed DEF Kept

LEMMA ChunkedAwait ==
  ASSUME ParserInv, InChunks, Kept, Await, AtChunked', Sized(msg) => fed < Len(Text(msg))
  PROVE  ParserInv'
<1>1. state' = "body" /\ running' = FALSE /\ content' = "none"
  BY ChunkedStart DEF Await
<1>2. TypeOK'
  BY <1>1 DEF Kept, ParserInv, TypeOK
<1>3. Hungry'
  BY <1>1 DEF Kept, Hungry
<1>4. AtBody'
  BY <1>1, ChunkedStart DEF Kept, AtBody
<1>5. AtEof'
  BY <1>1, ChunkedStart DEF Kept, AtEof
<1>. QED
  BY <1>1, <1>2, <1>3, <1>4, <1>5, InvBody DEF Kept

LEMMA ChunkedContinue ==
  ASSUME ParserInv, InChunks, Kept, Continue(state), AtChunked'
  PROVE  ParserInv'
<1>1. state' = "body" /\ running' = TRUE /\ content' = "none"
  BY ChunkedStart DEF Continue, ParserInv, TypeOK
<1>2. TypeOK'
  BY <1>1 DEF Kept, ParserInv, TypeOK
<1>3. Hungry'
  BY <1>1 DEF Hungry
<1>4. AtBody'
  BY <1>1, ChunkedStart DEF Kept, AtBody
<1>5. AtEof'
  BY <1>1 DEF AtEof
<1>. QED
  BY <1>1, <1>2, <1>3, <1>4, <1>5, InvBody DEF Kept

LEMMA KeptStay ==
  ASSUME ParserInv, msg' = msg, fed' = fed, eof' = eof, chunked' = chunked,
         contentLength' = contentLength, body' = body, buf' = buf,
         remaining' = remaining, awaitingSize' = awaitingSize, inTrailers' = inTrailers
  PROVE  Kept /\ Pos' = Pos
<1>1. Pos' = Pos /\ Window'
  BY StayStep
<1>. QED
  BY <1>1 DEF Kept, ParserInv, TypeOK, Begins

LEMMA KeptDrop ==
  ASSUME ParserInv, msg' = msg, fed' = fed, eof' = eof, chunked' = chunked,
         contentLength' = contentLength, body' = body,
         NEW n \in 0 .. Len(buf), buf' = Drop(buf, n),
         remaining' \in -1 .. Len(SizeToken), awaitingSize' \in BOOLEAN, inTrailers' \in BOOLEAN
  PROVE  Kept /\ Pos' = Pos + n /\ Len(buf') = Len(buf) - n
<1>1. buf' \in Seq(Token) /\ Len(buf') = Len(buf) - n /\ Pos' = Pos + n /\ Window'
  BY DropStep
<1>2. Len(buf) \in Nat /\ Len(body) \in Nat /\ fed \in Nat
  BY InvFacts
<1>3. Len(buf) + Len(body) <= fed /\ body \in Seq(Bytes) /\ Begins(body, Body(msg))
  BY DEF ParserInv, TypeOK
<1>4. Len(buf') + Len(body') <= fed
  BY <1>1, <1>2, <1>3
<1>. QED
  BY <1>1, <1>3, <1>4 DEF Kept, Begins

LEMMA TrailersInv ==
  ASSUME ParserInv, ParseTrailers
  PROVE  ParserInv'
<1>. DEFINE t == Text(msg)
            a == LastAt(msg)
            end == FindBlank(buf)
<1>1. /\ buf \in Seq(Token) /\ Len(buf) \in Nat /\ fed \in Nat /\ Len(t) \in Nat
      /\ Pos \in Nat /\ fed = Pos + Len(buf) /\ fed <= Len(t)
      /\ \A j \in 1 .. Len(buf) : buf[j] = t[Pos + j]
  BY InvFacts
<1>2. /\ InChunks /\ inTrailers
      /\ msg' = msg /\ fed' = fed /\ eof' = eof /\ chunked' = chunked
      /\ contentLength' = contentLength /\ body' = body /\ remaining' = remaining
      /\ awaitingSize' = awaitingSize /\ inTrailers' = inTrailers
  BY DEF ParseTrailers, input, framing, cursor
<1>3. /\ state = "body" /\ chunked /\ SentChunked(msg) /\ AtChunked /\ Body(msg) = Data(msg)
      /\ msg.bad \in {"none", "size", "negative", "crlf", "coding"}
  BY <1>2, ChunkedStart
<1>4. Pos = a + 3 /\ Len(body) = Len(Data(msg)) /\ msg.bad \in {"none", "coding"} /\ AtTrailers
  BY <1>2, <1>3 DEF AtChunked, AtSize, AtData, AfterNegative, AtTrailers
<1>5. /\ a \in Nat
      /\ IF msg.trailer
           THEN /\ Len(t) = a + 8
                /\ t[a + 4] = "x" /\ t[a + 5] = "cr" /\ t[a + 6] = "lf"
                /\ t[a + 7] = "cr" /\ t[a + 8] = "lf"
           ELSE /\ Len(t) = a + 5
                /\ t[a + 4] = "cr" /\ t[a + 5] = "lf"
  BY <1>3, LastChunkFacts DEF LastAt
<1>. HIDE DEF t, a
<1>6. \A j \in 1 .. Len(buf) : buf[j] = t[a + 3 + j]
  BY <1>1, <1>4
<1>7. \/ buf' = Drop(buf, Len(buf)) /\ fed = Len(t) /\ Finalize
      \/ /\ buf' = buf /\ fed < Len(t)
         /\ IF eof THEN Finalize ELSE Await
  <2>1. CASE msg.trailer
    <3>1. Len(t) = a + 8 /\ Len(buf) <= 5
      BY <1>1, <1>4, <1>5, <2>1
    <3>2. Len(buf) >= 1 => buf[1] = "x"
      BY <1>1, <1>5, <1>6, <2>1
    <3>3. ~EmptyBlock(buf)
      BY <1>1, <3>2 DEF EmptyBlock, StartsWithCrlf
    <3>4. CASE Len(buf) = 5
      <4>1. buf[2] = "cr" /\ buf[3] = "lf" /\ buf[4] = "cr" /\ buf[5] = "lf"
        <5>1. buf[2] = t[a + 3 + 2] /\ buf[3] = t[a + 3 + 3] /\ buf[4] = t[a + 3 + 4] /\ buf[5] = t[a + 3 + 5]
          BY <1>6, <3>4
        <5>2. a + 3 + 2 = a + 5 /\ a + 3 + 3 = a + 6 /\ a + 3 + 4 = a + 7 /\ a + 3 + 5 = a + 8
          BY <1>5
        <5>. QED
          BY <1>5, <2>1, <5>1, <5>2
      <4>2. BlankAt(buf, 2)
        BY <4>1 DEF BlankAt
      <4>3. \A i \in 1 .. 2 - 1 : ~BlankAt(buf, i)
        BY <3>2, <3>4 DEF BlankAt
      <4>4. 2 \in 1 .. Len(buf) - 3
        BY <3>4
      <4>5. end = 2
        BY <1>1, <4>2, <4>3, <4>4, FirstBlank
      <4>6. buf' = Drop(buf, 5) /\ Finalize
        BY <3>3, <4>5 DEF ParseTrailers, AfterBlank
      <4>7. fed = Len(t)
        BY <1>1, <1>4, <1>5, <3>1, <3>4
      <4>. QED
        BY <3>4, <4>6, <4>7
    <3>5. CASE Len(buf) < 5
      <4>1. \A i \in 1 .. Len(buf) - 3 : ~BlankAt(buf, i)
        <5>1. \A i \in 1 .. Len(buf) - 3 : i = 1 /\ Len(buf) >= 1
          BY <1>1, <3>5
        <5>. QED
          BY <3>2, <5>1 DEF BlankAt
      <4>2. end = 0
        BY <1>1, <4>1, NoBlank
      <4>3. fed < Len(t)
        BY <1>1, <1>4, <1>5, <3>1, <3>5
      <4>4. buf' = buf /\ IF eof THEN Finalize ELSE Await
        BY <3>3, <4>2 DEF ParseTrailers
      <4>. QED
        BY <4>3, <4>4
    <3>6. Len(buf) = 5 \/ Len(buf) < 5
      <4>1. Len(buf) \in Nat /\ Len(buf) <= 5
        BY <1>1, <3>1
      <4>2. \A k \in Nat : k <= 5 => k = 5 \/ k < 5
        OBVIOUS
      <4>. QED BY <4>1, <4>2, Zenon
    <3>. QED
      BY <3>4, <3>5, <3>6
  <2>2. CASE ~msg.trailer
    <3>1. Len(t) = a + 5 /\ Len(buf) <= 2
      BY <1>1, <1>4, <1>5, <2>2
    <3>2. CASE Len(buf) = 2
      <4>1. buf[1] = t[a + 3 + 1] /\ buf[2] = t[a + 3 + 2]
        BY <1>6, <3>2
      <4>2. a + 3 + 1 = a + 4 /\ a + 3 + 2 = a + 5
        BY <1>5
      <4>3. EmptyBlock(buf)
        BY <1>5, <2>2, <3>2, <4>1, <4>2 DEF EmptyBlock, StartsWithCrlf
      <4>4. buf' = Drop(buf, 2) /\ Finalize
        BY <4>3 DEF ParseTrailers
      <4>5. fed = Len(t)
        BY <1>1, <1>4, <1>5, <3>1, <3>2
      <4>. QED
        BY <3>2, <4>4, <4>5
    <3>3. CASE Len(buf) < 2
      <4>1. ~EmptyBlock(buf)
        BY <1>1, <3>3 DEF EmptyBlock, StartsWithCrlf
      <4>2. \A i \in 1 .. Len(buf) - 3 : ~BlankAt(buf, i)
        BY <1>1, <3>3
      <4>3. end = 0
        BY <1>1, <4>2, NoBlank
      <4>4. fed < Len(t)
        BY <1>1, <1>4, <1>5, <3>1, <3>3
      <4>5. buf' = buf /\ IF eof THEN Finalize ELSE Await
        BY <4>1, <4>3 DEF ParseTrailers
      <4>. QED
        BY <4>4, <4>5
    <3>4. Len(buf) = 2 \/ Len(buf) < 2
      <4>1. Len(buf) \in Nat /\ Len(buf) <= 2
        BY <1>1, <3>1
      <4>2. \A k \in Nat : k <= 2 => k = 2 \/ k < 2
        OBVIOUS
      <4>. QED BY <4>1, <4>2, Zenon
    <3>. QED
      BY <3>2, <3>3, <3>4
  <2>. QED
    BY <2>1, <2>2
<1>8. CASE buf' = Drop(buf, Len(buf)) /\ fed = Len(t) /\ Finalize
  <2>1. Len(buf) \in 0 .. Len(buf) /\ remaining' \in -1 .. Len(SizeToken) /\ awaitingSize' \in BOOLEAN /\ inTrailers' \in BOOLEAN
    BY <1>1, <1>2 DEF ParserInv, TypeOK
  <2>2. Kept /\ Pos' = Pos + Len(buf)
    BY <1>2, <1>8, <2>1, KeptDrop
  <2>3. Pos' = Len(t)
    BY <1>1, <1>8, <2>2
  <2>. QED
    BY <1>2, <1>3, <1>4, <1>8, <2>2, <2>3, FinalizeInv DEF Kept, t
<1>9. CASE buf' = buf /\ fed < Len(t) /\ IF eof THEN Finalize ELSE Await
  <2>1. Kept /\ Pos' = Pos
    BY <1>2, <1>9, KeptStay
  <2>2. CASE eof
    BY <1>2, <1>3, <1>4, <1>9, <2>1, <2>2, FinalizeInv DEF Kept
  <2>3. CASE ~eof
    <3>1. AtTrailers'
      BY <1>2, <1>4, <2>1 DEF AtTrailers
    <3>2. AtChunked'
      BY <3>1 DEF AtChunked
    <3>. QED
      BY <1>2, <1>9, <2>1, <2>3, <3>2, ChunkedAwait DEF t
  <2>. QED
    BY <2>2, <2>3
<1>. QED
  BY <1>7, <1>8, <1>9

LEMMA SizeOfToken ==
  ASSUME NEW n \in 1 .. Len(SizeToken)
  PROVE  SizeToken[n] \notin {"cr", "junk"} /\ SizeOf(SizeToken[n]) = n
<1>1. SizeToken[n] \notin {"cr", "lf", "junk", "neg", "s0"}
  BY SizesAssumption DEF ToSet
<1>2. n \in DOMAIN SizeToken
  BY SizesAssumption
<1>3. \A k \in DOMAIN SizeToken : SizeToken[k] = SizeToken[n] => k = n
  BY <1>2, SizesAssumption
<1>4. (CHOOSE k \in DOMAIN SizeToken : SizeToken[k] = SizeToken[n]) = n
  BY <1>2, <1>3
<1>. QED
  BY <1>1, <1>4 DEF SizeOf

\* A chunk-size line at the window's beginning, there or not all there yet.
LEMMA SizeLine ==
  ASSUME ParserInv, ParseChunkSize, NEW z, z # "cr", Pos + 3 <= Len(Text(msg)),
         Text(msg)[Pos + 1] = z, Text(msg)[Pos + 2] = "cr", Text(msg)[Pos + 3] = "lf"
  PROVE  \/ /\ AwaitLine /\ fed < Len(Text(msg))
            /\ buf' = buf /\ remaining' = remaining /\ awaitingSize' = awaitingSize /\ inTrailers' = inTrailers
         \/ /\ z = "junk" /\ Raise
            /\ buf' = buf /\ remaining' = remaining /\ awaitingSize' = awaitingSize /\ inTrailers' = inTrailers
         \/ /\ z # "junk" /\ 3 \in 0 .. Len(buf) /\ buf' = Drop(buf, 3)
            /\ remaining' = IF SizeOf(z) = 0 THEN remaining ELSE SizeOf(z)
            /\ inTrailers' = (SizeOf(z) = 0)
            /\ awaitingSize' = (SizeOf(z) = 0)
            /\ Continue(state)
<1>. DEFINE t == Text(msg)
<1>1. /\ buf \in Seq(Token) /\ Len(buf) \in Nat /\ fed \in Nat /\ Len(t) \in Nat
      /\ Pos \in Nat /\ fed = Pos + Len(buf)
      /\ \A j \in 1 .. Len(buf) : buf[j] = t[Pos + j]
  BY InvFacts
<1>2. t[Pos + 1] = z /\ t[Pos + 2] = "cr" /\ t[Pos + 3] = "lf" /\ Pos + 3 <= Len(t)
  OBVIOUS
<1>. HIDE DEF t
<1>3. CASE Len(buf) < 3
  <2>1. Len(buf) > 0 => buf[1] # "cr"
    BY <1>1, <1>2
  <2>2. FindCrlf(buf) = 0
    BY <1>1, <1>3, <2>1, NoCrlf
  <2>3. fed < Len(t)
    BY <1>1, <1>2, <1>3
  <2>4. AwaitLine /\ buf' = buf /\ remaining' = remaining /\ awaitingSize' = awaitingSize /\ inTrailers' = inTrailers
    BY <2>2 DEF ParseChunkSize, cursor
  <2>. QED
    BY <2>3, <2>4 DEF t
<1>4. CASE Len(buf) >= 3
  <2>1. 1 \in 1 .. Len(buf) /\ 2 \in 1 .. Len(buf) /\ 3 \in 1 .. Len(buf) /\ 3 \in 0 .. Len(buf)
    BY <1>1, <1>4
  <2>2. buf[1] = z /\ buf[2] = "cr" /\ buf[3] = "lf"
    BY <1>1, <1>2, <2>1
  <2>3. FindCrlf(buf) = 2
    BY <1>1, <1>4, <2>2, CrlfAt2
  <2>4. CASE z = "junk"
    BY <2>2, <2>3, <2>4 DEF ParseChunkSize, cursor
  <2>5. CASE z # "junk"
    <3>1. /\ buf' = Drop(buf, 3)
          /\ remaining' = IF SizeOf(z) = 0 THEN remaining ELSE SizeOf(z)
          /\ inTrailers' = (SizeOf(z) = 0)
          /\ awaitingSize' = (SizeOf(z) = 0)
          /\ Continue(state)
      BY <2>2, <2>3, <2>5 DEF ParseChunkSize
    <3>. QED
      BY <2>1, <2>5, <3>1
  <2>. QED
    BY <2>4, <2>5
<1>. QED
  BY <1>1, <1>3, <1>4

LEMMA ChunkSizeInv ==
  ASSUME ParserInv, ParseChunkSize
  PROVE  ParserInv'
<1>. DEFINE t == Text(msg)
            n == Len(msg.chunks)
<1>1. /\ WellTyped(msg) /\ Visible(msg)
      /\ buf \in Seq(Token) /\ Len(buf) \in Nat /\ fed \in Nat /\ Len(t) \in Nat
      /\ Pos \in Nat /\ fed = Pos + Len(buf) /\ fed <= Len(t)
  BY InvFacts
<1>2. /\ InChunks /\ ~inTrailers /\ awaitingSize
      /\ msg' = msg /\ fed' = fed /\ eof' = eof /\ chunked' = chunked
      /\ contentLength' = contentLength /\ body' = body
  BY DEF ParseChunkSize, input, framing
<1>3. /\ SentChunked(msg) /\ AtChunked
      /\ msg.bad \in {"none", "size", "negative", "crlf", "coding"}
  BY <1>2, ChunkedStart
<1>4. Len(SizeToken) \in Nat /\ n \in Nat
  BY <1>3, SizesAssumption, LastChunkFacts
<1>5. remaining \in -1 .. Len(SizeToken)
  BY DEF ParserInv, TypeOK
<1>6. ASSUME AwaitLine, fed < Len(t), AtChunked', Kept
      PROVE  ParserInv'
  <2>1. CASE eof /\ buf # <<>>
    <3>1. Raise
      BY <1>6, <2>1 DEF AwaitLine
    <3>. QED
      BY <1>2, <1>6, <2>1, <3>1, ChunkedRaise
  <2>2. CASE ~(eof /\ buf # <<>>)
    <3>1. Await
      BY <1>6, <2>2 DEF AwaitLine
    <3>. QED
      BY <1>2, <1>6, <3>1, ChunkedAwait
  <2>. QED
    BY <2>1, <2>2
<1>7. ASSUME NEW i \in 1 .. n, AtSize(i) PROVE ParserInv'
  <2>. DEFINE c == msg.chunks[i]
              z == SizeToken[Len(c)]
  <2>1. /\ Len(c) \in 1 .. Len(SizeToken) /\ ChunkAt(msg, i) \in Nat /\ DataAt(msg, i) \in Nat
        /\ ChunkAt(msg, i) + 5 + Len(c) < Len(t)
        /\ t[ChunkAt(msg, i) + 1] = z /\ t[ChunkAt(msg, i) + 2] = "cr" /\ t[ChunkAt(msg, i) + 3] = "lf"
    BY <1>3, ChunkFacts
  <2>2. z \notin {"cr", "junk"} /\ SizeOf(z) = Len(c)
    BY <2>1, SizeOfToken
  <2>. HIDE DEF z
  <2>3. Pos = ChunkAt(msg, i) /\ Pos + 3 <= Len(t) /\ Len(c) \in Nat /\ Len(c) # 0
    <3>1. Pos = ChunkAt(msg, i)
      BY <1>7 DEF AtSize
    <3>2. Len(c) \in Nat /\ Len(c) # 0
      <4>1. \A k \in 1 .. Len(SizeToken) : k \in Nat /\ k # 0
        BY <1>4
      <4>2. Len(c) \in 1 .. Len(SizeToken)
        BY <2>1
      <4>. QED BY <4>1, <4>2, Zenon
    <3>3. ChunkAt(msg, i) \in Nat /\ ChunkAt(msg, i) + 5 + Len(c) < Len(t)
      BY <2>1
    <3>4. Len(t) \in Nat
      BY <1>1
    <3>5. ChunkAt(msg, i) + 3 <= Len(t)
      <4>. HIDE DEF t, c
      <4>. QED BY <3>2, <3>3, <3>4
    <3>. QED
      BY <3>1, <3>2, <3>5
  <2>4. \/ /\ AwaitLine /\ fed < Len(t)
           /\ buf' = buf /\ remaining' = remaining /\ awaitingSize' = awaitingSize /\ inTrailers' = inTrailers
        \/ /\ 3 \in 0 .. Len(buf) /\ buf' = Drop(buf, 3)
           /\ remaining' = Len(c) /\ inTrailers' = FALSE /\ awaitingSize' = FALSE
           /\ Continue(state)
    <3>1. z # "cr" /\ t[Pos + 1] = z /\ t[Pos + 2] = "cr" /\ t[Pos + 3] = "lf"
      BY <2>1, <2>2, <2>3
    <3>. QED
      BY <2>2, <2>3, <3>1, SizeLine
  <2>5. CASE /\ AwaitLine /\ fed < Len(t)
             /\ buf' = buf /\ remaining' = remaining /\ awaitingSize' = awaitingSize /\ inTrailers' = inTrailers
    <3>1. Kept /\ Pos' = Pos
      BY <1>2, <2>5, KeptStay
    <3>2. AtSize(i)'
      BY <1>2, <1>7, <2>5, <3>1 DEF AtSize
    <3>3. i \in 1 .. Len(msg.chunks) + 1
      BY <1>4
    <3>4. AtChunked'
      BY <1>2, <3>2, <3>3 DEF AtChunked
    <3>. QED
      BY <1>6, <2>5, <3>1, <3>4
  <2>6. CASE /\ 3 \in 0 .. Len(buf) /\ buf' = Drop(buf, 3)
             /\ remaining' = Len(c) /\ inTrailers' = FALSE /\ awaitingSize' = FALSE
             /\ Continue(state)
    <3>1. remaining' \in -1 .. Len(SizeToken) /\ awaitingSize' \in BOOLEAN /\ inTrailers' \in BOOLEAN
      <4>1. \A k \in 1 .. Len(SizeToken) : k \in -1 .. Len(SizeToken)
        BY <1>4
      <4>. QED
        BY <2>1, <2>6, <4>1
    <3>2. Kept /\ Pos' = Pos + 3
      BY <1>2, <2>6, <3>1, KeptDrop
    <3>3. /\ Pos + 3 = ChunkAt(msg, i) + 3 + Len(c) - Len(c)
          /\ Len(body) = DataAt(msg, i) + Len(c) - Len(c)
          /\ Len(c) \in 0 .. Len(c)
          /\ i > 1 => msg.bad # "crlf"
      BY <1>7, <2>1, <2>3, SMTT(30) DEF AtSize
    <3>4. AtData(i)'
      BY <1>2, <2>6, <3>2, <3>3 DEF AtData
    <3>5. AtChunked'
      BY <1>2, <3>4 DEF AtChunked
    <3>. QED
      BY <1>2, <2>6, <3>2, <3>5, ChunkedContinue
  <2>. QED
    BY <2>4, <2>5, <2>6
<1>8. ASSUME AtSize(n + 1) PROVE ParserInv'
  <2>. DEFINE a == LastAt(msg)
              z == LastSize(msg)
  <2>1. /\ a \in Nat /\ t[a + 1] = z /\ t[a + 2] = "cr" /\ t[a + 3] = "lf"
        /\ a + 3 < Len(t) /\ DataAt(msg, n + 1) = Len(Data(msg))
    <3>1. CASE msg.trailer
      BY <1>3, <3>1, LastChunkFacts, SMTT(30) DEF LastAt
    <3>2. CASE ~msg.trailer
      BY <1>3, <3>2, LastChunkFacts, SMTT(30) DEF LastAt
    <3>. QED
      BY <3>1, <3>2
  <2>2. Pos = a /\ Len(body) = Len(Data(msg)) /\ (n + 1 > 1 => msg.bad # "crlf")
    BY <1>8, <2>1 DEF AtSize, LastAt
  <2>3. z # "cr" /\ z \in {"junk", "neg", "s0"}
    BY LastSizeType
  <2>. HIDE DEF a
  <2>4. \/ /\ AwaitLine /\ fed < Len(t)
           /\ buf' = buf /\ remaining' = remaining /\ awaitingSize' = awaitingSize /\ inTrailers' = inTrailers
        \/ /\ z = "junk" /\ Raise
           /\ buf' = buf /\ remaining' = remaining /\ awaitingSize' = awaitingSize /\ inTrailers' = inTrailers
        \/ /\ z # "junk" /\ 3 \in 0 .. Len(buf) /\ buf' = Drop(buf, 3)
           /\ remaining' = IF SizeOf(z) = 0 THEN remaining ELSE SizeOf(z)
           /\ inTrailers' = (SizeOf(z) = 0)
           /\ awaitingSize' = (SizeOf(z) = 0)
           /\ Continue(state)
    <3>. HIDE DEF z
    <3>1. t[Pos + 1] = z /\ t[Pos + 2] = "cr" /\ t[Pos + 3] = "lf" /\ Pos + 3 <= Len(t)
      BY <1>1, <2>1, <2>2
    <3>. QED
      BY <2>3, <3>1, SizeLine
  <2>5. CASE /\ AwaitLine /\ fed < Len(t)
             /\ buf' = buf /\ remaining' = remaining /\ awaitingSize' = awaitingSize /\ inTrailers' = inTrailers
    <3>1. Kept /\ Pos' = Pos
      BY <1>2, <2>5, KeptStay
    <3>2. AtSize(n + 1)'
      BY <1>2, <1>8, <2>5, <3>1 DEF AtSize
    <3>3. n + 1 \in 1 .. Len(msg.chunks) + 1
      BY <1>4
    <3>4. AtChunked'
      BY <1>2, <3>2, <3>3 DEF AtChunked
    <3>. QED
      BY <1>6, <2>5, <3>1, <3>4
  <2>6. CASE /\ z = "junk" /\ Raise
             /\ buf' = buf /\ remaining' = remaining /\ awaitingSize' = awaitingSize /\ inTrailers' = inTrailers
    <3>1. Kept
      BY <1>2, <2>6, KeptStay
    <3>2. msg.bad # "none"
      BY <2>6 DEF LastSize
    <3>. QED
      BY <1>2, <2>6, <3>1, <3>2, ChunkedRaise
  <2>7. CASE /\ z # "junk" /\ 3 \in 0 .. Len(buf) /\ buf' = Drop(buf, 3)
             /\ remaining' = IF SizeOf(z) = 0 THEN remaining ELSE SizeOf(z)
             /\ inTrailers' = (SizeOf(z) = 0)
             /\ awaitingSize' = (SizeOf(z) = 0)
             /\ Continue(state)
    <3>1. CASE z = "neg"
      <4>1. SizeOf(z) = -1 /\ msg.bad = "negative"
        BY <3>1 DEF SizeOf, LastSize
      <4>2. remaining' = -1 /\ inTrailers' = FALSE /\ awaitingSize' = FALSE
        <5>1. SizeOf(z) # 0
          BY <4>1
        <5>. QED
          BY <2>7, <4>1, <5>1
      <4>3. remaining' \in -1 .. Len(SizeToken) /\ awaitingSize' \in BOOLEAN /\ inTrailers' \in BOOLEAN
        <5>1. -1 \in -1 .. Len(SizeToken)
          BY <1>4
        <5>. QED
          BY <4>2, <5>1
      <4>4. Kept /\ Pos' = Pos + 3
        BY <1>2, <2>7, <4>3, KeptDrop
      <4>5. AfterNegative'
        BY <1>2, <2>2, <4>1, <4>2, <4>4 DEF AfterNegative, a
      <4>6. AtChunked'
        BY <4>5 DEF AtChunked
      <4>. QED
        BY <1>2, <2>7, <4>4, <4>6, ChunkedContinue
    <3>2. CASE z = "s0"
      <4>1. SizeOf(z) = 0 /\ msg.bad \notin {"size", "negative"}
        BY <3>2 DEF SizeOf, LastSize
      <4>2. remaining' = remaining /\ inTrailers' = TRUE /\ awaitingSize' = TRUE
        BY <2>7, <4>1
      <4>3. remaining' \in -1 .. Len(SizeToken) /\ awaitingSize' \in BOOLEAN /\ inTrailers' \in BOOLEAN
        BY <1>5, <4>2
      <4>4. Kept /\ Pos' = Pos + 3
        BY <1>2, <2>7, <4>3, KeptDrop
      <4>5. msg.bad # "crlf"
        <5>1. SUFFICES ASSUME msg.bad = "crlf" PROVE FALSE
          OBVIOUS
        <5>2. msg.chunks # <<>> /\ msg.chunks \in Seq(Seq(Bytes))
          BY <1>1, <5>1 DEF Visible, WellTyped
        <5>3. n > 0
          BY <5>2
        <5>. QED
          BY <1>4, <2>2, <5>1, <5>3
      <4>6. AtTrailers'
        BY <1>2, <2>2, <4>1, <4>2, <4>4, <4>5 DEF AtTrailers, a
      <4>7. AtChunked'
        BY <4>6 DEF AtChunked
      <4>. QED
        BY <1>2, <2>7, <4>4, <4>7, ChunkedContinue
    <3>. QED
      BY <2>3, <2>7, <3>1, <3>2
  <2>. QED
    BY <2>4, <2>5, <2>6, <2>7
<1>9. ASSUME AfterNegative PROVE ParserInv'
  <2>1. Pos = Len(t) /\ msg.bad = "negative"
    BY <1>2, <1>9 DEF AfterNegative
  <2>2. Len(buf) = 0 /\ buf = <<>>
    BY <1>1, <2>1
  <2>3. FindCrlf(buf) = 0
    <3>1. Len(buf) < 3 /\ ~(Len(buf) > 0)
      BY <2>2
    <3>. QED
      BY <1>1, <3>1, NoCrlf
  <2>4. AwaitLine /\ buf' = buf /\ remaining' = remaining /\ awaitingSize' = awaitingSize /\ inTrailers' = inTrailers
    BY <2>3 DEF ParseChunkSize, cursor
  <2>5. Await
    BY <2>2, <2>4 DEF AwaitLine
  <2>6. Kept /\ Pos' = Pos
    BY <1>2, <2>4, KeptStay
  <2>7. AfterNegative'
    BY <1>2, <1>9, <2>4, <2>6 DEF AfterNegative
  <2>8. AtChunked'
    BY <2>7 DEF AtChunked
  <2>9. ~Sized(msg)
    BY <2>1 DEF Sized
  <2>. QED
    BY <1>2, <2>5, <2>6, <2>8, <2>9, ChunkedAwait
<1>10. (\E i \in 1 .. n + 1 : AtSize(i)) \/ AfterNegative
  BY <1>2, <1>3 DEF AtChunked, AtData, AtTrailers
<1>11. ASSUME NEW i \in 1 .. n + 1, AtSize(i) PROVE ParserInv'
  <2>1. i \in 1 .. n \/ i = n + 1
    BY <1>4
  <2>. QED
    BY <1>7, <1>8, <1>11, <2>1
<1>. QED
  BY <1>9, <1>10, <1>11

LEMMA ChunkDataInv ==
  ASSUME ParserInv, ParseChunkData
  PROVE  ParserInv'
<1>. DEFINE t == Text(msg)
            take == Min({remaining, Len(buf)})
<1>1. /\ buf \in Seq(Token) /\ Len(buf) \in Nat /\ fed \in Nat /\ Len(t) \in Nat
      /\ body \in Seq(Bytes) /\ Len(body) \in Nat
      /\ Pos \in Nat /\ fed = Pos + Len(buf)
  BY InvFacts
<1>2. /\ InChunks /\ ~inTrailers /\ ~awaitingSize /\ remaining > 0
      /\ body' = body \o Take(buf, take) /\ buf' = Drop(buf, take) /\ remaining' = remaining - take
      /\ IF remaining' = 0 THEN Continue(state) ELSE AwaitChunk
      /\ msg' = msg /\ fed' = fed /\ eof' = eof /\ chunked' = chunked
      /\ contentLength' = contentLength /\ awaitingSize' = awaitingSize /\ inTrailers' = inTrailers
  BY DEF ParseChunkData, input, framing
<1>3. SentChunked(msg) /\ AtChunked /\ Body(msg) = Data(msg)
  BY <1>2, ChunkedStart
<1>4. Len(SizeToken) \in Nat /\ remaining \in -1 .. Len(SizeToken)
  BY SizesAssumption DEF ParserInv, TypeOK
<1>5. remaining \in Nat /\ remaining <= Len(SizeToken)
  BY <1>2, <1>4
<1>6. take = IF remaining <= Len(buf) THEN remaining ELSE Len(buf)
  <2>1. remaining \in Int /\ Len(buf) \in Int
    BY <1>1, <1>5
  <2>. QED
    BY <2>1, MinOfTwo
<1>. HIDE DEF take
<1>7. take \in 0 .. Len(buf) /\ take \in Nat /\ take <= remaining /\ (take # remaining => take = Len(buf) /\ take < remaining)
  BY <1>1, <1>5, <1>6
<1>8. PICK i \in 1 .. Len(msg.chunks) : AtData(i)
  <2>1. ~AfterNegative
    BY <1>2 DEF AfterNegative
  <2>. QED
    BY <1>2, <1>3, <2>1 DEF AtChunked, AtSize, AtTrailers
<1>. DEFINE l == Len(msg.chunks[i])
            a == ChunkAt(msg, i)
            d == DataAt(msg, i)
<1>9. /\ l \in 1 .. Len(SizeToken) /\ a \in Nat /\ d \in Nat
      /\ a + 5 + l < Len(t)
      /\ \A j \in 1 .. l : t[a + 3 + j] = Data(msg)[d + j]
      /\ d + l <= Len(Data(msg))
  <2>1. l \in 1 .. Len(SizeToken) /\ a \in Nat /\ d \in Nat
    BY <1>3, ChunkFacts
  <2>3. a + 5 + l < Len(t)
    BY <1>3, ChunkFacts
  <2>4. \A j \in 1 .. Len(msg.chunks[i]) : Text(msg)[ChunkAt(msg, i) + 3 + j] = Data(msg)[DataAt(msg, i) + j]
    BY <1>3, ChunkBytes
  <2>2. DataAt(msg, i + 1) = d + l /\ DataAt(msg, i + 1) <= Len(Data(msg))
    BY <1>3, ChunkFacts
  <2>5. \A j \in 1 .. l : t[a + 3 + j] = Data(msg)[d + j]
    BY <2>4
  <2>. HIDE DEF l, a, d, t
  <2>. QED
    BY <2>1, <2>2, <2>3, <2>5
<1>10. /\ remaining \in 0 .. l
       /\ Pos = a + 3 + l - remaining
       /\ Len(body) = d + l - remaining
       /\ i > 1 => msg.bad # "crlf"
  BY <1>8 DEF AtData
<1>. HIDE DEF l, a, d, t
<1>11. l \in Nat
  BY <1>4, <1>9
<1>12. ASSUME NEW j \in 1 .. take PROVE t[Pos + j] = Data(msg)[Len(body) + j]
  <2>. DEFINE k == l - remaining + j
  <2>1. k \in 1 .. l /\ a + 3 + k = Pos + j /\ d + k = Len(body) + j
    BY <1>5, <1>7, <1>9, <1>10, <1>11
  <2>. HIDE DEF k
  <2>2. t[a + 3 + k] = Data(msg)[d + k]
    BY <1>9, <2>1
  <2>. QED
    BY <2>1, <2>2
<1>13. body' \in Seq(Bytes) /\ Len(body') = Len(body) + take /\ Begins(body, Body(msg))'
  <2>1. Len(body) + take <= Len(Data(msg))
    <3>1. Len(Data(msg)) \in Nat
      BY <1>3, DataType DEF SentChunked
    <3>2. Len(body) + take <= d + l
      BY <1>5, <1>7, <1>9, <1>10, <1>11
    <3>3. d + l <= Len(Data(msg)) /\ d + l \in Nat
      BY <1>9, <1>11
    <3>. QED
      BY <1>1, <1>7, <3>1, <3>2, <3>3
  <2>2. /\ Len(body) + take <= Len(Body(msg))
        /\ \A j \in 1 .. take : Text(msg)[Pos + j] = Body(msg)[Len(body) + j]
    BY <1>3, <1>12, <2>1 DEF t
  <2>. QED
    BY <1>2, <1>7, <2>2, TakeStep
<1>14. buf' \in Seq(Token) /\ Len(buf') = Len(buf) - take /\ Pos' = Pos + take /\ Window'
  BY <1>2, <1>7, DropStep
<1>15. Kept
  <2>1. Len(buf) + Len(body) <= fed
    BY DEF ParserInv, TypeOK
  <2>2. Len(buf') + Len(body') <= fed
    BY <1>1, <1>7, <1>13, <1>14, <2>1
  <2>3. remaining' \in -1 .. Len(SizeToken)
    BY <1>2, <1>4, <1>5, <1>7
  <2>4. awaitingSize' \in BOOLEAN /\ inTrailers' \in BOOLEAN
    BY <1>2 DEF ParserInv, TypeOK
  <2>. QED
    BY <1>2, <1>13, <1>14, <2>2, <2>3, <2>4 DEF Kept
<1>16. AtData(i)'
  <2>1. /\ remaining' \in 0 .. l
        /\ Pos' = a + 3 + l - remaining'
        /\ Len(body') = d + l - remaining'
    BY <1>1, <1>2, <1>5, <1>7, <1>9, <1>10, <1>11, <1>13, <1>14
  <2>. QED
    BY <1>2, <1>10, <2>1 DEF AtData, l, a, d
<1>17. AtChunked'
  BY <1>2, <1>16 DEF AtChunked
<1>18. CASE remaining' = 0
  BY <1>2, <1>15, <1>17, <1>18, ChunkedContinue
<1>19. CASE remaining' # 0
  <2>1. AwaitChunk
    BY <1>2, <1>19
  <2>2. take # remaining
    BY <1>2, <1>5, <1>19
  <2>3. fed < Len(t)
    <3>1. fed = Pos + take /\ take < remaining
      BY <1>1, <1>7, <2>2
    <3>2. Pos + take < a + 3 + l
      BY <1>5, <1>7, <1>9, <1>10, <1>11, <3>1
    <3>. QED
      BY <1>1, <1>9, <1>11, <3>1, <3>2
  <2>4. CASE eof
    <3>1. Raise
      BY <2>1, <2>4 DEF AwaitChunk
    <3>. QED
      BY <1>2, <1>15, <2>3, <2>4, <3>1, ChunkedRaise DEF t
  <2>5. CASE ~eof
    <3>1. Await
      BY <2>1, <2>5 DEF AwaitChunk
    <3>. QED
      BY <1>2, <1>15, <1>17, <2>3, <3>1, ChunkedAwait DEF t
  <2>. QED
    BY <2>4, <2>5
<1>. QED
  BY <1>18, <1>19

LEMMA ChunkEndInv ==
  ASSUME ParserInv, ParseChunkEnd
  PROVE  ParserInv'
<1>. DEFINE t == Text(msg)
            p == Pos
<1>1. /\ buf \in Seq(Token) /\ Len(buf) \in Nat /\ fed \in Nat /\ Len(t) \in Nat
      /\ p \in Nat /\ fed = p + Len(buf) /\ fed <= Len(t)
      /\ \A j \in 1 .. Len(buf) : buf[j] = t[p + j]
  BY InvFacts
<1>2. /\ InChunks /\ ~inTrailers /\ ~awaitingSize /\ remaining <= 0
      /\ msg' = msg /\ fed' = fed /\ eof' = eof /\ chunked' = chunked /\ body' = body
      /\ contentLength' = contentLength /\ remaining' = remaining /\ inTrailers' = inTrailers
  BY DEF ParseChunkEnd, input, framing
<1>3. SentChunked(msg) /\ AtChunked
  BY <1>2, ChunkedStart
<1>4. /\ Len(msg.chunks) \in Nat /\ remaining \in -1 .. Len(SizeToken) /\ Len(SizeToken) \in Nat
      /\ inTrailers \in BOOLEAN
  BY <1>3, SizesAssumption, LastChunkFacts DEF ParserInv, TypeOK
<1>5. \/ /\ Len(buf) < 2 /\ AwaitChunk
         /\ buf' = buf /\ awaitingSize' = awaitingSize
      \/ /\ Len(buf) >= 2 /\ ~(buf[1] = "cr" /\ buf[2] = "lf") /\ Raise
         /\ buf' = buf /\ awaitingSize' = awaitingSize
      \/ /\ Len(buf) >= 2 /\ buf[1] = "cr" /\ buf[2] = "lf"
         /\ buf' = Drop(buf, 2) /\ awaitingSize' = TRUE /\ Continue(state)
  BY <1>1 DEF ParseChunkEnd, CrlfToCome, StartsWithCrlf
<1>6. ASSUME buf' = buf, awaitingSize' = awaitingSize PROVE Kept /\ Pos' = Pos
  BY <1>2, <1>6, KeptStay
<1>7. ASSUME Len(buf) >= 2, buf' = Drop(buf, 2), awaitingSize' = TRUE PROVE Kept /\ Pos' = Pos + 2
  <2>1. 2 \in 0 .. Len(buf) /\ remaining' \in -1 .. Len(SizeToken) /\ awaitingSize' \in BOOLEAN /\ inTrailers' \in BOOLEAN
    BY <1>1, <1>2, <1>4, <1>7
  <2>. QED
    BY <1>2, <1>7, <2>1, KeptDrop
<1>8. Len(buf) >= 2 => buf[1] = t[p + 1] /\ buf[2] = t[p + 2]
  BY <1>1
<1>. HIDE DEF t, p
<1>9. ASSUME NEW i \in 1 .. Len(msg.chunks), AtData(i) PROVE ParserInv'
  <2>. DEFINE l == Len(msg.chunks[i])
              a == ChunkAt(msg, i)
  <2>1. /\ l \in 1 .. Len(SizeToken) /\ a \in Nat /\ DataAt(msg, i) \in Nat
        /\ (msg.bad # "crlf" => ChunkAt(msg, i + 1) = a + 5 + l)
        /\ a + 5 + l < Len(t)
        /\ t[a + 3 + l + 1] = IF msg.bad = "crlf" THEN "d" ELSE "cr"
        /\ t[a + 3 + l + 2] = IF msg.bad = "crlf" THEN "cr" ELSE "lf"
        /\ DataAt(msg, i + 1) = DataAt(msg, i) + l
    BY <1>3, ChunkFacts DEF t
  <2>2. /\ remaining \in 0 .. l
        /\ Pos = a + 3 + l - remaining
        /\ Len(body) = DataAt(msg, i) + l - remaining
    BY <1>9 DEF AtData
  <2>3. l \in Nat
    BY <1>4, <2>1
  <2>. HIDE DEF l, a
  <2>4. remaining = 0
    BY <1>2, <2>2, <2>3
  <2>5. p = a + 3 + l /\ Len(body) = DataAt(msg, i) + l
    BY <2>1, <2>2, <2>3, <2>4 DEF p
  <2>6. CASE /\ Len(buf) < 2 /\ AwaitChunk
             /\ buf' = buf /\ awaitingSize' = awaitingSize
    <3>1. fed < Len(t)
      BY <1>1, <2>1, <2>3, <2>5, <2>6
    <3>2. Kept /\ Pos' = Pos
      BY <1>6, <2>6
    <3>3. AtData(i)'
      BY <1>2, <1>9, <2>6, <3>2 DEF AtData
    <3>4. AtChunked'
      BY <1>2, <3>3 DEF AtChunked
    <3>5. CASE eof
      <4>1. Raise
        BY <2>6, <3>5 DEF AwaitChunk
      <4>. QED
        BY <1>2, <3>1, <3>2, <3>5, <4>1, ChunkedRaise DEF t
    <3>6. CASE ~eof
      <4>1. Await
        BY <2>6, <3>6 DEF AwaitChunk
      <4>. QED
        BY <1>2, <3>1, <3>2, <3>4, <4>1, ChunkedAwait DEF t
    <3>. QED
      BY <3>5, <3>6
  <2>7. CASE /\ Len(buf) >= 2 /\ ~(buf[1] = "cr" /\ buf[2] = "lf") /\ Raise
             /\ buf' = buf /\ awaitingSize' = awaitingSize
    <3>1. msg.bad = "crlf"
      BY <1>8, <2>1, <2>5, <2>7
    <3>. QED
      BY <1>2, <1>6, <2>7, <3>1, ChunkedRaise
  <2>8. CASE /\ Len(buf) >= 2 /\ buf[1] = "cr" /\ buf[2] = "lf"
             /\ buf' = Drop(buf, 2) /\ awaitingSize' = TRUE /\ Continue(state)
    <3>1. msg.bad # "crlf"
      BY <1>8, <2>1, <2>5, <2>8
    <3>2. Kept /\ Pos' = Pos + 2
      BY <1>7, <2>8
    <3>3. Pos' = ChunkAt(msg, i + 1) /\ Len(body) = DataAt(msg, i + 1)
      BY <2>1, <2>3, <2>5, <3>1, <3>2 DEF p
    <3>4. AtSize(i + 1)'
      BY <1>2, <2>8, <3>1, <3>3 DEF AtSize
    <3>5. i + 1 \in 1 .. Len(msg.chunks) + 1
      BY <1>4
    <3>6. AtChunked'
      BY <1>2, <3>4, <3>5 DEF AtChunked
    <3>. QED
      BY <1>2, <2>8, <3>2, <3>6, ChunkedContinue
  <2>. QED
    BY <1>5, <2>6, <2>7, <2>8
<1>10. ASSUME AfterNegative PROVE ParserInv'
  <2>1. /\ msg.bad = "negative" /\ Len(body) = Len(Data(msg)) /\ remaining = -1
        /\ Pos = LastAt(msg) + 3
    BY <1>2, <1>10 DEF AfterNegative
  <2>2. ~Sized(msg) /\ msg.bad # "none"
    BY <2>1 DEF Sized
  <2>3. CASE /\ Len(buf) < 2 /\ AwaitChunk
             /\ buf' = buf /\ awaitingSize' = awaitingSize
    <3>1. Kept /\ Pos' = Pos
      BY <1>6, <2>3
    <3>2. AfterNegative'
      BY <1>2, <1>10, <2>3, <3>1 DEF AfterNegative
    <3>3. AtChunked'
      BY <3>2 DEF AtChunked
    <3>4. CASE eof
      <4>1. Raise
        BY <2>3, <3>4 DEF AwaitChunk
      <4>. QED
        BY <1>2, <2>2, <3>1, <4>1, ChunkedRaise
    <3>5. CASE ~eof
      <4>1. Await
        BY <2>3, <3>5 DEF AwaitChunk
      <4>. QED
        BY <1>2, <2>2, <3>1, <3>3, <4>1, ChunkedAwait
    <3>. QED
      BY <3>4, <3>5
  <2>4. CASE /\ Len(buf) >= 2 /\ ~(buf[1] = "cr" /\ buf[2] = "lf") /\ Raise
             /\ buf' = buf /\ awaitingSize' = awaitingSize
    BY <1>2, <1>6, <2>2, <2>4, ChunkedRaise
  <2>5. CASE /\ Len(buf) >= 2 /\ buf[1] = "cr" /\ buf[2] = "lf"
             /\ buf' = Drop(buf, 2) /\ awaitingSize' = TRUE /\ Continue(state)
    <3>. DEFINE a == LastAt(msg)
    <3>1. /\ a \in Nat
          /\ msg.trailer => t[a + 4] = "x"
          /\ ~msg.trailer => Len(t) = a + 5
      BY <1>3, LastChunkFacts DEF LastAt, t
    <3>. HIDE DEF a
    <3>2. p = a + 3 /\ p + 1 = a + 4 /\ p + 2 = a + 5
      BY <2>1, <3>1 DEF a, p
    <3>3. ~msg.trailer
      BY <1>8, <2>5, <3>1, <3>2
    <3>4. Kept /\ Pos' = Pos + 2
      BY <1>7, <2>5
    <3>5. Pos' = Len(t)
      BY <3>1, <3>2, <3>3, <3>4 DEF p
    <3>6. AfterNegative'
      BY <1>2, <2>1, <2>5, <3>5 DEF AfterNegative, t
    <3>7. AtChunked'
      BY <3>6 DEF AtChunked
    <3>. QED
      BY <1>2, <2>5, <3>4, <3>7, ChunkedContinue
  <2>. QED
    BY <1>5, <2>3, <2>4, <2>5
<1>11. (\E i \in 1 .. Len(msg.chunks) : AtData(i)) \/ AfterNegative
  BY <1>2, <1>3 DEF AtChunked, AtSize, AtTrailers
<1>. QED
  BY <1>9, <1>10, <1>11

-----------------------------------------------------------------------------
(* The theorems. *)

LEMMA InvNext ==
  ASSUME ParserInv, [Next]_vars
  PROVE  ParserInv'
<1>1. CASE UNCHANGED vars
  <2>1. /\ msg' = msg /\ fed' = fed /\ eof' = eof /\ running' = running /\ buf' = buf /\ state' = state
        /\ chunked' = chunked /\ contentLength' = contentLength /\ body' = body
        /\ remaining' = remaining /\ awaitingSize' = awaitingSize /\ inTrailers' = inTrailers
        /\ content' = content
    BY <1>1 DEF vars
  <2>2. Pos' = Pos /\ Window'
    BY <2>1, StayStep
  <2>3. TypeOK'
    BY <2>1 DEF ParserInv, TypeOK
  <2>4. /\ Begins(body, Body(msg))' /\ Hungry'
        /\ AtStatus' /\ AtHeaders' /\ AtFailure' /\ AtEof'
    BY <2>1, <2>2 DEF ParserInv, Hungry, AtStatus, AtHeaders, AtFailure, AtEof, Fresh, Begins
  <2>5. AtDone'
    BY <2>1, <2>2 DEF ParserInv, AtDone, Decompress
  <2>6. AtBody'
    BY <2>1, <2>2 DEF ParserInv, AtBody, AtChunked, AtFixed, AtSize, AtData, AtTrailers, AfterNegative
  <2>. QED
    BY <2>2, <2>3, <2>4, <2>5, <2>6 DEF ParserInv
<1>2. CASE Next
  BY <1>2, FeedInv, FeedEofInv, StatusLineInv, HeadersInv, FixedLengthInv, UntilCloseInv,
     TrailersInv, ChunkSizeInv, ChunkDataInv, ChunkEndInv DEF Next, Parse
<1>. QED
  BY <1>1, <1>2

\* The parser is always at the place in the text that its cursor says, whatever
\* the response, its chunks and the feeds.
THEOREM ParserInvariant == Spec => []ParserInv
<1>1. Init => ParserInv
  BY InvInit
<1>2. ParserInv /\ [Next]_vars => ParserInv'
  BY InvNext
<1>. QED
  BY <1>1, <1>2, PTL DEF Spec

\* The body collected is at all times a prefix of the response's body: no byte
\* of the framing gets into it and no byte of the body is lost.
THEOREM ParserCollectsPrefix == Spec => []BodyIsPrefix
<1>1. ASSUME ParserInv PROVE BodyIsPrefix
  <2>1. WellTyped(msg) /\ body \in Seq(Bytes) /\ Len(body) \in Nat
    BY <1>1, InvFacts
  <2>2. Body(msg) \in Seq(Bytes)
    BY <2>1, DataType DEF Body
  <2>3. Len(body) <= Len(Body(msg)) /\ \A j \in 1 .. Len(body) : body[j] = Body(msg)[j]
    BY <1>1 DEF ParserInv, Begins
  <2>. DEFINE a == SubSeq(body, 1, Len(body))
              b == SubSeq(Body(msg), 1, Len(body))
  <2>4. a \in Seq(Bytes) /\ Len(a) = Len(body) /\ \A j \in 1 .. Len(body) : a[j] = body[j]
    BY <2>1
  <2>5. b \in Seq(Bytes) /\ Len(b) = Len(body) /\ \A j \in 1 .. Len(body) : b[j] = Body(msg)[j]
    BY <2>1, <2>2, <2>3
  <2>. HIDE DEF a, b
  <2>6. a \in Seq(Token) /\ b \in Seq(Token)
    BY <2>4, <2>5, TokenFacts
  <2>7. a = b
    BY <2>3, <2>4, <2>5, <2>6, SameSeq
  <2>. QED
    BY <1>1, <2>3, <2>7 DEF BodyIsPrefix, IsPrefix, ParserInv, a, b
<1>. QED
  BY <1>1, ParserInvariant, PTL

\* A response that is complete before EOF is exact: the whole body, decoded if
\* it can be, and not a byte of what may follow it on the connection.
THEOREM ParserIsExact == Spec => []CompleteIsExact
<1>1. ASSUME ParserInv PROVE CompleteIsExact
  <2>. SUFFICES ASSUME state = "done", ~eof, Sized(msg)
                PROVE  /\ body = Body(msg) /\ fed = Len(Text(msg)) /\ buf = <<>>
                       /\ (content = "plain") = (msg.coding # "identity" /\ msg.bad = "none" /\ body # <<>>)
    BY DEF CompleteIsExact
  <2>1. /\ WellTyped(msg) /\ body \in Seq(Bytes) /\ buf \in Seq(Token) /\ Len(buf) \in Nat
        /\ Pos \in Nat /\ fed = Pos + Len(buf) /\ fed <= Len(Text(msg)) /\ Len(Text(msg)) \in Nat
    BY <1>1, InvFacts
  <2>2. /\ msg.bad \in {"none", "coding"} /\ content \in Decompress(body)
        /\ Len(body) = Len(Body(msg)) /\ Pos = Len(Text(msg)) /\ Begins(body, Body(msg))
    BY <1>1 DEF ParserInv, AtDone, Sized
  <2>3. body = Body(msg)
    BY <2>1, <2>2, WholeBody
  <2>4. Len(buf) = 0 /\ fed = Len(Text(msg))
    BY <2>1, <2>2
  <2>5. buf = <<>>
    BY <2>1, <2>4
  <2>6. (content = "plain") = (msg.coding # "identity" /\ msg.bad = "none" /\ body # <<>>)
    <3>1. content = "plain" => msg.coding # "identity" /\ msg.bad # "coding" /\ body # <<>>
      BY <2>2 DEF Decompress
    <3>2. msg.coding # "identity" /\ msg.bad # "coding" /\ body # <<>> => content = "plain"
      BY <2>2, <2>3 DEF Decompress
    <3>. QED
      BY <2>2, <3>1, <3>2
  <2>. QED
    BY <2>3, <2>4, <2>5, <2>6
<1>. QED
  BY <1>1, ParserInvariant, PTL

\* With the last byte of a delimited response the parser is done: the client
\* never waits for bytes that do not come.  A gzip stream that ends early inside
\* the framing ends it too, but with an error that is not the parser's own.
THEOREM ParserEndsInTime == Spec => []LastByteCompletes
<1>1. ASSUME ParserInv PROVE LastByteCompletes
  <2>. SUFFICES ASSUME fed = Len(Text(msg)), Delimited(msg), Sized(msg), ~running, ~eof
                PROVE  \/ state \in {"done", "error"}
                       \/ state = "crash" /\ msg.coding = "gzip" /\ msg.bad = "coding"
    BY DEF LastByteCompletes
  <2>1. Len(Text(msg)) \in Nat
    BY <1>1, InvFacts
  <2>2. ~(fed < Len(Text(msg)))
    BY <2>1
  <2>3. state \notin {"status", "headers", "body"}
    BY <1>1, <2>2 DEF ParserInv, Hungry
  <2>4. state = "crash" => msg.coding = "gzip" /\ msg.bad = "coding"
    BY <1>1 DEF ParserInv, AtFailure
  <2>. QED
    BY <1>1, <2>3, <2>4 DEF ParserInv, TypeOK
<1>. QED
  BY <1>1, ParserInvariant, PTL

\* Only what is malformed or cut off is refused, and what breaks the framing is
\* never returned.
THEOREM ParserRefusesRightly == Spec => []RefusalsAreRight
<1>1. ASSUME ParserInv PROVE RefusalsAreRight
  BY <1>1 DEF ParserInv, AtDone, AtFailure, RefusalsAreRight
<1>. QED
  BY <1>1, ParserInvariant, PTL

\* What EOF does to a body, wherever it comes: one that is not chunked is returned
\* as far as it was received, to the byte; one that is chunked is returned whole or
\* not at all.
THEOREM ParserEndsAtEof == Spec => []EarlyEof
<1>1. ASSUME ParserInv PROVE EarlyEof
  <2>. DEFINE b == BodyText(msg)
  <2>1. /\ WellTyped(msg) /\ body \in Seq(Bytes) /\ Len(body) \in Nat
        /\ fed \in Nat /\ fed <= Len(Text(msg)) /\ Len(Text(msg)) \in Nat
    BY <1>1, InvFacts
  <2>2. /\ Start(msg) \in Nat /\ Len(Text(msg)) = Start(msg) + Len(b)
        /\ b \in Seq(Token) /\ Len(b) \in Nat /\ BodyStart(msg) = Start(msg)
    <3>1. Start(msg) \in Nat /\ Len(Text(msg)) = Start(msg) + Len(b) /\ b \in Seq(Token)
      BY <2>1, TextFacts, BodyTextType DEF Start
    <3>2. Len(b) \in Nat
      BY <3>1
    <3>. QED
      BY <3>1, <3>2 DEF BodyStart
  <2>3. ASSUME state = "done", chunked PROVE body = Body(msg)
    <3>1. Len(body) = Len(Body(msg)) /\ Begins(body, Body(msg))
      BY <1>1, <2>3 DEF ParserInv, AtDone
    <3>. QED
      BY <2>1, <3>1, WholeBody
  <2>4. ASSUME eof, ~running, msg.bad = "none", fed >= Start(msg)
        PROVE  \/ /\ msg.te
                  /\ state = "done" \/ (state \in {"error", "body"} /\ fed < Len(Text(msg)))
               \/ /\ ~msg.te
                  /\ state \in {"done", "crash"}
                  /\ body = SubSeq(b, 1, fed - Start(msg))
    <3>1. Sized(msg) /\ ~(fed < Start(msg))
      BY <2>1, <2>2, <2>4 DEF Sized
    <3>2. /\ state \in {"body", "done", "error", "crash"}
          /\ state = "body" => chunked /\ chunked = msg.te /\ fed < Len(Text(msg))
          /\ state = "error" => msg.te /\ fed < Len(Text(msg))
          /\ state = "crash" => ~msg.te
          /\ state \in {"done", "crash"} /\ ~msg.te => fed = Start(msg) + Len(body)
      BY <1>1, <2>4, <3>1 DEF ParserInv, TypeOK, AtBody, AtFailure, AtEof
    <3>3. ASSUME ~msg.te, fed = Start(msg) + Len(body) PROVE body = SubSeq(b, 1, fed - Start(msg))
      <4>1. fed - Start(msg) = Len(body) /\ Len(body) <= Len(b)
        BY <2>1, <2>2, <3>3
      <4>2. Body(msg) = b
        BY <2>1, <3>3, BodyTextType DEF Body
      <4>3. \A j \in 1 .. Len(body) : body[j] = b[j]
        BY <1>1, <4>2 DEF ParserInv, Begins
      <4>. DEFINE c == SubSeq(b, 1, Len(body))
      <4>. HIDE DEF b
      <4>4. c \in Seq(Token) /\ Len(c) = Len(body) /\ \A j \in 1 .. Len(body) : c[j] = b[j]
        BY <2>1, <2>2, <4>1
      <4>. HIDE DEF c
      <4>5. body \in Seq(Token)
        BY <2>1, TokenFacts
      <4>6. body = c
        BY <4>3, <4>4, <4>5, SameSeq
      <4>. QED
        BY <4>1, <4>6 DEF c
    <3>4. msg.te \in BOOLEAN
      BY <2>1 DEF WellTyped
    <3>. QED
      BY <3>2, <3>3, <3>4
  <2>. QED
    BY <2>2, <2>3, <2>4 DEF EarlyEof
<1>. QED
  BY <1>1, ParserInvariant, PTL
=============================================================================
