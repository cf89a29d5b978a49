------------------------- MODULE HighlighterProofs -------------------------
(***************************************************************************)
(* For every text, every capacity and any number of failed allocations:    *)
(* the spans are in order, highlight.c prints the text, only a failed      *)
(* allocation leads to a bad access, and a span shown as a key is the text *)
(* of the key the library reads from it.  First come facts about sequences *)
(* of spans, then the inductive invariant and a lemma for each step.  The  *)
(* text form of a key follows, in groups of twenty-four bits, and what the *)
(* steps keep of the spans shown as keys; and last that highlight_value    *)
(* and highlight_multivalue_value stay inside the value they are handed.   *)
(***************************************************************************)
EXTENDS Highlighter, TLAPS

SpanSet == [s : Nat, len : Nat]
Types == {"Section", "Field", "PrivateKey", "PublicKey", "PresharedKey", "IP", "Cidr", "Host",
          "Port", "MTU", "Keepalive", "Table", "FwMark", "SaveConfig", "Cmd", "Comment",
          "Delimiter", "Error"}
MarkSet == [type : Types \cup {"End"}, start : Nat, len : Int]
After(m) == m.start + m.len

\* Spans between two offsets, each one after all those before it.
Chain(q, from, to) ==
  /\ from <= to
  /\ \A n \in 1..Len(q) : /\ q[n].type # "End" /\ q[n].len >= 0
                          /\ from <= q[n].start /\ After(q[n]) <= to
  /\ \A m, n \in 1..Len(q) : m < n => After(q[m]) <= q[n].start

Kept(q) == \A n \in 1..Len(q) : q[n].len > 0

-----------------------------------------------------------------------------
(* Facts about sequences of spans.                                         *)

LEMMA PlainType == \A type \in Types : type # "End"
  BY DEF Types

LEMMA SpanFields == ASSUME NEW s \in SpanSet PROVE s.s \in Nat /\ s.len \in Nat
  BY DEF SpanSet

LEMMA GrownSpan ==
    ASSUME NEW s \in SpanSet
    PROVE  /\ [s EXCEPT !.len = @ + 1] \in SpanSet
           /\ [s EXCEPT !.len = @ + 1].s = s.s
           /\ [s EXCEPT !.len = @ + 1].len = s.len + 1
  BY DEF SpanSet

LEMMA MarkFields ==
    ASSUME NEW q \in Seq(MarkSet), NEW n \in 1..Len(q)
    PROVE  q[n] \in MarkSet /\ q[n].start \in Nat /\ q[n].len \in Int
<1>1. q[n] \in MarkSet
  OBVIOUS
<1> QED BY <1>1 DEF MarkSet

LEMMA ChainEmpty == ASSUME NEW a \in Nat, NEW b \in Nat, a <= b PROVE Chain(<<>>, a, b)
  BY DEF Chain

LEMMA ChainWiden ==
    ASSUME NEW q \in Seq(MarkSet), NEW a \in Nat, NEW b \in Nat, NEW c \in Nat, NEW d \in Nat,
           Chain(q, a, b), b <= c, d <= a
    PROVE  Chain(q, d, c)
<1>1. ASSUME NEW n \in 1..Len(q)
      PROVE  /\ q[n].type # "End" /\ q[n].len >= 0
             /\ d <= q[n].start /\ After(q[n]) <= c
  <2>1. /\ q[n].type # "End" /\ q[n].len >= 0
        /\ a <= q[n].start /\ q[n].start + q[n].len <= b
    BY DEF Chain, After
  <2>2. q[n].start \in Nat /\ q[n].len \in Int
    BY MarkFields
  <2> QED BY <2>1, <2>2 DEF After
<1>2. d <= c
  BY DEF Chain
<1> QED BY <1>1, <1>2 DEF Chain

LEMMA ChainCons ==
    ASSUME NEW m \in MarkSet, NEW q \in Seq(MarkSet), NEW a \in Nat, NEW b \in Nat,
           m.type # "End", m.len >= 0, After(m) <= a, Chain(q, a, b)
    PROVE  <<m>> \o q \in Seq(MarkSet) /\ Chain(<<m>> \o q, m.start, b)
<1> DEFINE p == <<m>> \o q
<1>1. p \in Seq(MarkSet) /\ Len(p) = Len(q) + 1 /\ p[1] = m
  OBVIOUS
<1>2. \A n \in 1..Len(p) : n # 1 => n - 1 \in 1..Len(q) /\ p[n] = q[n - 1]
  OBVIOUS
<1>3. m.start \in Nat /\ m.len \in Nat /\ m.start + m.len <= a /\ a <= b
  BY DEF MarkSet, After, Chain
<1> HIDE DEF p
<1>4. ASSUME NEW n \in 1..Len(p), n # 1
      PROVE  /\ p[n].type # "End" /\ p[n].len >= 0
             /\ a <= p[n].start /\ After(p[n]) <= b
             /\ p[n].start \in Nat
  <2>1. n - 1 \in 1..Len(q) /\ p[n] = q[n - 1]
    BY <1>2, <1>4
  <2>2. q[n - 1].start \in Nat
    BY <2>1, MarkFields
  <2> QED BY <2>1, <2>2 DEF Chain
<1>5. ASSUME NEW n \in 1..Len(p)
      PROVE  /\ p[n].type # "End" /\ p[n].len >= 0
             /\ m.start <= p[n].start /\ After(p[n]) <= b
  <2>1. CASE n = 1
    BY <2>1, <1>1, <1>3 DEF After
  <2>2. CASE n # 1
    BY <2>2, <1>3, <1>4
  <2> QED BY <2>1, <2>2
<1>6. ASSUME NEW k \in 1..Len(p), NEW n \in 1..Len(p), k < n
      PROVE  After(p[k]) <= p[n].start
  <2>0. n # 1
    BY <1>6, <1>1
  <2>1. CASE k = 1
    <3>1. a <= p[n].start /\ p[n].start \in Nat
      BY <2>0, <1>4
    <3> QED BY <3>1, <2>1, <1>1, <1>3 DEF After
  <2>2. CASE k # 1
    <3>1. /\ n - 1 \in 1..Len(q) /\ p[n] = q[n - 1]
          /\ k - 1 \in 1..Len(q) /\ p[k] = q[k - 1] /\ k - 1 < n - 1
      BY <2>0, <2>2, <1>2, <1>6
    <3> QED BY <3>1 DEF Chain
  <2> QED BY <2>1, <2>2
<1>7. Chain(p, m.start, b)
  BY <1>3, <1>5, <1>6 DEF Chain
<1> QED BY <1>1, <1>7 DEF p

LEMMA ChainAppend ==
    ASSUME NEW m \in MarkSet, NEW q \in Seq(MarkSet), NEW a \in Nat, NEW b \in Nat, NEW c \in Nat,
           m.type # "End", m.len >= 0, Chain(q, a, b), b <= m.start, After(m) <= c
    PROVE  Append(q, m) \in Seq(MarkSet) /\ Chain(Append(q, m), a, c)
<1> DEFINE p == Append(q, m)
           l == Len(q) + 1
<1>1. p \in Seq(MarkSet) /\ Len(p) = l /\ p[l] = m /\ Len(q) \in Nat
  OBVIOUS
<1>2. \A n \in 1..Len(p) : n # l => n \in 1..Len(q) /\ p[n] = q[n]
  OBVIOUS
<1>3. m.start \in Nat /\ m.len \in Nat /\ m.start + m.len <= c /\ a <= b
  BY DEF MarkSet, After, Chain
<1> HIDE DEF p
<1>4. ASSUME NEW n \in 1..Len(p), n # l
      PROVE  /\ p[n].type # "End" /\ p[n].len >= 0
             /\ a <= p[n].start /\ After(p[n]) <= b
             /\ After(p[n]) \in Int
  <2>1. n \in 1..Len(q) /\ p[n] = q[n]
    BY <1>2, <1>4
  <2>2. q[n].start \in Nat /\ q[n].len \in Int
    BY <2>1, MarkFields
  <2>3. /\ q[n].type # "End" /\ q[n].len >= 0
        /\ a <= q[n].start /\ After(q[n]) <= b
    BY <2>1 DEF Chain
  <2> QED BY <2>1, <2>2, <2>3 DEF After
<1>5. ASSUME NEW n \in 1..Len(p)
      PROVE  /\ p[n].type # "End" /\ p[n].len >= 0
             /\ a <= p[n].start /\ After(p[n]) <= c
  <2>1. CASE n = l
    BY <2>1, <1>1, <1>3 DEF After
  <2>2. CASE n # l
    BY <2>2, <1>3, <1>4
  <2> QED BY <2>1, <2>2
<1>6. ASSUME NEW k \in 1..Len(p), NEW n \in 1..Len(p), k < n
      PROVE  After(p[k]) <= p[n].start
  <2>0. k # l
    BY <1>6, <1>1
  <2>1. CASE n = l
    <3>1. After(p[k]) <= b /\ After(p[k]) \in Int
      BY <2>0, <1>4
    <3> QED BY <3>1, <2>1, <1>1, <1>3
  <2>2. CASE n # l
    <3>1. n \in 1..Len(q) /\ p[n] = q[n] /\ k \in 1..Len(q) /\ p[k] = q[k]
      BY <2>0, <2>2, <1>2
    <3> QED BY <3>1, <1>6 DEF Chain
  <2> QED BY <2>1, <2>2
<1>7. a <= c
  BY <1>3
<1>8. Chain(p, a, c)
  BY <1>5, <1>6, <1>7 DEF Chain
<1> QED BY <1>1, <1>8 DEF p

LEMMA ChainTail ==
    ASSUME NEW q \in Seq(MarkSet), NEW a \in Nat, NEW b \in Nat, Chain(q, a, b), q # <<>>
    PROVE  /\ Head(q) \in MarkSet /\ Head(q).type # "End" /\ Head(q).len >= 0
           /\ a <= Head(q).start /\ After(Head(q)) <= b
           /\ Tail(q) \in Seq(MarkSet) /\ Chain(Tail(q), After(Head(q)), b)
<1> DEFINE p == Tail(q)
<1>1. Len(q) \in Nat \ {0} /\ Head(q) = q[1] /\ Head(q) \in MarkSet
  OBVIOUS
<1>2. p \in Seq(MarkSet) /\ Len(p) = Len(q) - 1
  BY <1>1
<1>3. \A n \in 1..Len(p) : n + 1 \in 1..Len(q) /\ p[n] = q[n + 1]
  BY <1>1
<1> HIDE DEF p
<1>5. /\ Head(q).type # "End" /\ Head(q).len >= 0
      /\ a <= Head(q).start /\ After(Head(q)) <= b
  BY <1>1 DEF Chain
<1>6. Chain(p, After(Head(q)), b)
  <2>1. \A n \in 1..Len(p) : /\ p[n].type # "End" /\ p[n].len >= 0
                             /\ After(Head(q)) <= p[n].start /\ After(p[n]) <= b
    <3> TAKE n \in 1..Len(p)
    <3>1. n + 1 \in 1..Len(q) /\ p[n] = q[n + 1] /\ 1 \in 1..Len(q) /\ 1 < n + 1
      BY <1>1, <1>2, <1>3
    <3> QED BY <3>1, <1>1 DEF Chain
  <2>2. \A k, n \in 1..Len(p) : k < n => After(p[k]) <= p[n].start
    <3> TAKE k, n \in 1..Len(p)
    <3> HAVE k < n
    <3>1. /\ k + 1 \in 1..Len(q) /\ p[k] = q[k + 1]
          /\ n + 1 \in 1..Len(q) /\ p[n] = q[n + 1] /\ k + 1 < n + 1
      BY <1>2, <1>3
    <3> QED BY <3>1 DEF Chain
  <2> QED BY <2>1, <2>2, <1>5 DEF Chain
<1> QED BY <1>1, <1>2, <1>5, <1>6 DEF p

LEMMA KeptAppend ==
    ASSUME NEW q \in Seq(MarkSet), NEW m \in MarkSet, Kept(q), m.len > 0
    PROVE  Kept(Append(q, m))
<1> DEFINE p == Append(q, m)
<1>1. Len(p) = Len(q) + 1 /\ p[Len(q) + 1] = m /\ Len(q) \in Nat
  OBVIOUS
<1>2. \A n \in 1..Len(q) : p[n] = q[n]
  OBVIOUS
<1> HIDE DEF p
<1>3. \A n \in 1..Len(p) : p[n].len > 0
  BY <1>1, <1>2 DEF Kept
<1> QED BY <1>3 DEF Kept, p

LEMMA KeptTail == ASSUME NEW q \in Seq(MarkSet), q # <<>>, Kept(q)
                  PROVE  Kept(Tail(q)) /\ Head(q).len > 0
<1> DEFINE p == Tail(q)
<1>1. Len(q) \in Nat \ {0} /\ Head(q) = q[1] /\ 1 \in 1..Len(q)
  OBVIOUS
<1>2. \A n \in 1..Len(p) : n + 1 \in 1..Len(q) /\ p[n] = q[n + 1]
  BY <1>1
<1> HIDE DEF p
<1>3. \A n \in 1..Len(p) : p[n].len > 0
  BY <1>2 DEF Kept
<1> QED BY <1>1, <1>3 DEF Kept, p

\* A span may change its type as long as it does not become the terminator.
LEMMA Retyped ==
    ASSUME NEW q \in Seq(MarkSet), NEW n \in 1..Len(q), NEW b \in Nat,
           Chain(q, 0, b), Kept(q)
    PROVE  LET p == [q EXCEPT ![n].type = "Error"]
           IN p \in Seq(MarkSet) /\ Chain(p, 0, b) /\ Kept(p)
<1> DEFINE p == [q EXCEPT ![n].type = "Error"]
           m == [q[n] EXCEPT !.type = "Error"]
<1>1. q[n] \in MarkSet
  BY MarkFields
<1>2. m \in MarkSet /\ m.type = "Error" /\ m.start = q[n].start /\ m.len = q[n].len
  BY <1>1, Zenon DEF MarkSet, Types
<1>3. p = [q EXCEPT ![n] = m]
  OBVIOUS
<1> HIDE DEF m, p
<1>4. p \in Seq(MarkSet) /\ Len(p) = Len(q)
  BY <1>2, <1>3
<1>5. ASSUME NEW k \in 1..Len(q)
      PROVE  /\ p[k].start = q[k].start /\ p[k].len = q[k].len
             /\ p[k].type # "End"
  <2>1. CASE k = n
    BY <2>1, <1>2, <1>3
  <2>2. CASE k # n
    <3>1. p[k] = q[k]
      BY <2>2, <1>3
    <3> QED BY <3>1 DEF Chain
  <2> QED BY <2>1, <2>2
<1>6. Chain(p, 0, b)
  <2>1. \A k \in 1..Len(p) : After(p[k]) = After(q[k])
    BY <1>4, <1>5 DEF After
  <2>2. \A k \in 1..Len(p) : /\ p[k].type # "End" /\ p[k].len >= 0
                             /\ 0 <= p[k].start /\ After(p[k]) <= b
    <3> TAKE k \in 1..Len(p)
    <3> QED BY <1>4, <1>5, <2>1 DEF Chain
  <2>3. \A j, k \in 1..Len(p) : j < k => After(p[j]) <= p[k].start
    <3> TAKE j, k \in 1..Len(p)
    <3> QED BY <1>4, <1>5, <2>1 DEF Chain
  <2> QED BY <2>2, <2>3 DEF Chain
<1>7. Kept(p)
  BY <1>4, <1>5 DEF Kept
<1> QED BY <1>4, <1>6, <1>7 DEF p

LEMMA InOrder ==
    ASSUME NEW q \in Seq(MarkSet), NEW a \in Nat, NEW b \in Nat, Chain(q, a, b), Kept(q),
           NEW n \in 1..Len(q)
    PROVE  /\ q[n].len > 0 /\ q[n].start + q[n].len <= b
           /\ n > 1 => q[n - 1].start + q[n - 1].len <= q[n].start
<1>1. q[n].len > 0 /\ q[n].start + q[n].len <= b
  BY DEF Chain, Kept, After
<1>2. ASSUME n > 1 PROVE q[n - 1].start + q[n - 1].len <= q[n].start
  <2>1. n - 1 \in 1..Len(q) /\ n - 1 < n
    BY <1>2
  <2> QED BY <2>1 DEF Chain, After
<1> QED BY <1>1, <1>2

LEMMA HeadOfAppend ==
    ASSUME NEW q \in Seq(MarkSet), NEW m \in MarkSet
    PROVE  /\ q = <<>> => Head(Append(q, m)) = m
           /\ q # <<>> => Head(Append(q, m)) = Head(q) /\ Tail(Append(q, m)) = Append(Tail(q), m)
           /\ Append(q, m) # <<>>
<1>1. CASE q = <<>>
  BY <1>1
<1>2. CASE q # <<>>
  <2>1. Head(Append(q, m)) = Head(q) /\ Append(q, m) # <<>>
    BY <1>2
  <2>2. Tail(Append(q, m)) = Append(Tail(q), m)
    BY <1>2
  <2> QED BY <1>2, <2>1, <2>2
<1> QED BY <1>1, <1>2

LEMMA Part ==
    ASSUME NEW t \in Seq(Nat), NEW a \in Nat, NEW b \in Nat, a <= b, b <= Len(t)
    PROVE  LET p == SubSeq(t, a + 1, b)
           IN p \in Seq(Nat) /\ Len(p) = b - a /\ \A n \in 1..(b - a) : p[n] = t[a + n]
<1>1. a + 1 \in 1..(Len(t) + 1) /\ b \in a..Len(t)
  OBVIOUS
<1>2. \A n \in (a + 1)..b : t[n] \in Nat
  OBVIOUS
<1> QED BY <1>1, <1>2

\* Where the second of two texts stands behind the first.
LEMMA SecondPart ==
    ASSUME NEW x \in Seq(Nat), NEW y \in Seq(Nat), NEW n \in 1..Len(y)
    PROVE  (x \o y)[Len(x) + n] = y[n]
<1>1. Len(x) \in Nat /\ Len(y) \in Nat
  OBVIOUS
<1>2. Len(x) + n \in Len(x) + 1 .. Len(x) + Len(y) /\ (Len(x) + n) - Len(x) = n
  BY <1>1
<1> QED BY <1>1, <1>2

LEMMA TwoParts ==
    ASSUME NEW t \in Seq(Nat), NEW a \in Nat, NEW b \in Nat, a <= b, b <= Len(t)
    PROVE  SubSeq(t, 1, a) \o SubSeq(t, a + 1, b) = SubSeq(t, 1, b)
<1> DEFINE p == SubSeq(t, 1, a)
           q == SubSeq(t, a + 1, b)
           r == SubSeq(t, 1, b)
<1>1. p \in Seq(Nat) /\ Len(p) = a /\ \A n \in 1..a : p[n] = t[n]
  OBVIOUS
<1>2. q \in Seq(Nat) /\ Len(q) = b - a /\ \A n \in 1..(b - a) : q[n] = t[a + n]
  BY Part
<1>3. r \in Seq(Nat) /\ Len(r) = b /\ \A n \in 1..b : r[n] = t[n]
  OBVIOUS
<1> HIDE DEF p, q, r
<1>4. p \o q \in Seq(Nat) /\ Len(p \o q) = b
  <2>1. p \o q \in Seq(Nat) /\ Len(p \o q) = Len(p) + Len(q)
    <3>1. \A x, y \in Seq(Nat) : x \o y \in Seq(Nat) /\ Len(x \o y) = Len(x) + Len(y)
      OBVIOUS
    <3> QED BY ONLY <1>1, <1>2, <3>1, Zenon
  <2>2. a + (b - a) = b
    OBVIOUS
  <2> QED BY ONLY <1>1, <1>2, <2>1, <2>2
<1>5. ASSUME NEW n \in 1..b PROVE (p \o q)[n] = r[n]
  <2>0. n \in Nat /\ (n <= a \/ n > a)
    OBVIOUS
  <2>1. CASE n <= a
    <3>1. n \in 1..Len(p) /\ n \in 1..a
      BY <1>1, <2>0, <2>1
    <3>2. (p \o q)[n] = p[n]
      BY ONLY <1>1, <1>2, <3>1
    <3> QED BY <3>1, <3>2, <1>1, <1>3, Zenon
  <2>2. CASE n > a
    <3>1. (p \o q)[n] = q[n - a]
      <4>1. n - a \in 1..Len(q) /\ Len(p) + (n - a) = n
        BY <1>1, <1>2, <2>2
      <4>2. (p \o q)[Len(p) + (n - a)] = q[n - a]
        BY ONLY <1>1, <1>2, <4>1, SecondPart
      <4> QED BY ONLY <4>1, <4>2, Zenon
    <3>2. n - a \in 1..(b - a) /\ a + (n - a) = n
      BY <2>2
    <3> QED BY <3>1, <3>2, <1>2, <1>3, Zenon
  <2> QED BY <2>0, <2>1, <2>2, Zenon
<1> QED BY <1>3, <1>4, <1>5 DEF p, q, r

LEMMA NoText == ASSUME NEW t \in Seq(Nat) PROVE SubSeq(t, 1, 0) = <<>>
  OBVIOUS

LEMMA WholeText == ASSUME NEW t \in Seq(Nat) PROVE SubSeq(t, 1, Len(t)) = t
  OBVIOUS

-----------------------------------------------------------------------------
(* The helpers of the actions.                                             *)

LEMMA MarkType ==
    ASSUME NEW type \in Types, NEW s \in SpanSet
    PROVE  /\ Mark(type, s) \in MarkSet
           /\ Mark(type, s).type = type
           /\ Mark(type, s).start = s.s /\ Mark(type, s).len = s.len
  BY DEF Mark, MarkSet, SpanSet

LEMMA ChainOne ==
    ASSUME NEW type \in Types, NEW s \in SpanSet
    PROVE  /\ <<Mark(type, s)>> \in Seq(MarkSet)
           /\ Chain(<<Mark(type, s)>>, s.s, s.s + s.len)
<1>1. s.s \in Nat /\ s.len \in Nat
  BY DEF SpanSet
<1> DEFINE m == Mark(type, s)
<1>2. m \in MarkSet /\ m.type = type /\ m.start = s.s /\ m.len = s.len
  BY MarkType
<1> HIDE DEF m
<1>3. Chain(<<m>>, s.s, s.s + s.len) /\ <<m>> \in Seq(MarkSet)
  BY <1>1, <1>2, PlainType DEF Chain, After
<1> QED BY <1>3 DEF m

LEMMA SpanMake ==
    ASSUME NEW a \in Nat, NEW l \in Nat
    PROVE  Span(a, l) \in SpanSet /\ Span(a, l).s = a /\ Span(a, l).len = l
  BY DEF Span, SpanSet

LEMMA TrimmedSpan ==
    ASSUME NEW s \in SpanSet, NEW l \in Nat
    PROVE  /\ Trimmed(s, l) \in SpanSet
           /\ Trimmed(s, l).s = s.s /\ Trimmed(s, l).len = l
  BY DEF Trimmed, SpanSet

LEMMA PastBlankSpan ==
    ASSUME NEW s \in SpanSet, NEW k \in Nat, s.s + s.len = k
    PROVE  /\ PastBlank(s, k) \in SpanSet
           /\ PastBlank(s, k).s + PastBlank(s, k).len = k + 1
           /\ PastBlank(s, k).s >= s.s
           /\ s.len = 0 => PastBlank(s, k).len = 0
           /\ s.len # 0 => PastBlank(s, k).len = s.len + 1 /\ PastBlank(s, k).s = s.s
<1>1. s.s \in Nat /\ s.len \in Nat
  BY SpanFields
<1>2. CASE s.len = 0
  <2>1. PastBlank(s, k) = [s EXCEPT !.s = @ + 1]
    BY <1>1, <1>2 DEF PastBlank
  <2>2. /\ [s EXCEPT !.s = @ + 1] \in SpanSet
        /\ [s EXCEPT !.s = @ + 1].s = s.s + 1 /\ [s EXCEPT !.s = @ + 1].len = s.len
    BY DEF SpanSet
  <2> QED BY <1>1, <1>2, <2>1, <2>2
<1>3. CASE s.len # 0
  <2>1. PastBlank(s, k) = [s EXCEPT !.len = @ + 1]
    BY <1>1, <1>3 DEF PastBlank
  <2> QED BY <1>1, <1>3, <2>1, GrownSpan
<1> QED BY <1>2, <1>3

LEMMA SubFields ==
    ASSUME NEW s \in SpanSet, NEW k \in Nat, NEW l \in Nat
    PROVE  Sub(s, k, l) \in SpanSet /\ Sub(s, k, l).s = s.s + k /\ Sub(s, k, l).len = l
<1>1. Sub(s, k, l) = Span(s.s + k, l)
  BY DEF Sub
<1> QED BY <1>1, SpanFields, SpanMake

\* What the two functions for values append to a span s.
Inside(v, s) == v \in Seq(MarkSet) /\ Chain(v, s.s, s.s + s.len)

LEMMA SpanParts ==
    ASSUME NEW s \in SpanSet, NEW k \in 0..(s.len - 1)
    PROVE  /\ Sub(s, 0, k) = Span(s.s, k) /\ Span(s.s, k) \in SpanSet
           /\ Sub(s, k, 1) = Span(s.s + k, 1) /\ Span(s.s + k, 1) \in SpanSet
           /\ Sub(s, k + 1, s.len - k - 1) = Span(s.s + k + 1, s.len - k - 1)
           /\ Span(s.s + k + 1, s.len - k - 1) \in SpanSet
<1>1. s.s \in Nat /\ s.len \in Nat /\ k \in Nat /\ s.len - k - 1 \in Nat
  BY DEF SpanSet
<1> QED BY <1>1 DEF Sub, Span, SpanSet

LEMMA CutChain ==
    ASSUME NEW s \in SpanSet, NEW k \in 0..(s.len - 1),
           NEW before \in Types, NEW after \in Types
    PROVE  Inside(Cut(s, k, before, after), s)
<1> DEFINE s1 == Span(s.s, k)
           s2 == Span(s.s + k, 1)
           s3 == Span(s.s + k + 1, s.len - k - 1)
           m1 == Mark(before, s1)
           m2 == Mark("Delimiter", s2)
           m3 == Mark(after, s3)
<1>0. s.s \in Nat /\ s.len \in Nat /\ k \in Nat /\ s.len - k - 1 \in Nat
  BY DEF SpanSet
<1>1. s1 \in SpanSet /\ s1.s = s.s /\ s1.len = k
  BY <1>0 DEF Span, SpanSet
<1>2. s2 \in SpanSet /\ s2.s = s.s + k /\ s2.len = 1
  BY <1>0 DEF Span, SpanSet
<1>3. s3 \in SpanSet /\ s3.s = s.s + k + 1 /\ s3.len = s.len - k - 1
  BY <1>0 DEF Span, SpanSet
<1>4. Cut(s, k, before, after) = <<m1, m2, m3>>
  BY SpanParts DEF Cut
<1> HIDE DEF s1, s2, s3
<1>5. m1 \in MarkSet /\ m1.type = before /\ m1.start = s.s /\ m1.len = k
  BY <1>1, MarkType
<1>6. m2 \in MarkSet /\ m2.type \in Types /\ m2.start = s.s + k /\ m2.len = 1
  <2>1. "Delimiter" \in Types
    BY DEF Types
  <2> QED BY <1>2, <2>1, MarkType
<1>7. m3 \in MarkSet /\ m3.type = after /\ m3.start = s.s + k + 1 /\ m3.len = s.len - k - 1
  BY <1>3, MarkType
<1> HIDE DEF m1, m2, m3
<1>8. Chain(<<m1, m2, m3>>, s.s, s.s + s.len)
  <2> DEFINE q == <<m1, m2, m3>>
  <2>1. Len(q) = 3 /\ q[1] = m1 /\ q[2] = m2 /\ q[3] = m3
    OBVIOUS
  <2> HIDE DEF q
  <2>2. \A n \in 1..3 : n = 1 \/ n = 2 \/ n = 3
    OBVIOUS
  <2>3. ASSUME NEW n \in 1..3
        PROVE  /\ q[n].type # "End" /\ q[n].len >= 0
               /\ s.s <= q[n].start /\ After(q[n]) <= s.s + s.len
    <3>1. CASE n = 1
      BY <3>1, <2>1, <1>0, <1>5, PlainType DEF After
    <3>2. CASE n = 2
      BY <3>2, <2>1, <1>0, <1>6, PlainType DEF After
    <3>3. CASE n = 3
      BY <3>3, <2>1, <1>0, <1>7, PlainType DEF After
    <3> QED BY <2>2, <3>1, <3>2, <3>3
  <2>4. ASSUME NEW j \in 1..3, NEW n \in 1..3, j < n
        PROVE  After(q[j]) <= q[n].start
    <3>1. (j = 1 /\ n = 2) \/ (j = 1 /\ n = 3) \/ (j = 2 /\ n = 3)
      BY <2>2, <2>4
    <3>2. /\ After(m1) = s.s + k /\ After(m2) = s.s + k + 1
          /\ m2.start = s.s + k /\ m3.start = s.s + k + 1
      BY <1>0, <1>5, <1>6, <1>7 DEF After
    <3> QED BY <3>1, <3>2, <2>1, <1>0
  <2>5. Chain(q, s.s, s.s + s.len)
    BY <1>0, <2>1, <2>3, <2>4 DEF Chain
  <2> QED BY <2>5 DEF q
<1>9. <<m1, m2, m3>> \in Seq(MarkSet)
  BY <1>5, <1>6, <1>7
<1> QED BY <1>4, <1>8, <1>9 DEF Inside

-----------------------------------------------------------------------------
(* The inductive invariant.                                                *)

N == Len(text)
EndMark == Mark("End", Span(0, -1))

FrameType ==
  /\ i \in Nat /\ i <= N + 1
  /\ current_span \in SpanSet
  /\ state \in {"OnNone", "OnKey", "OnValue", "OnComment", "OnSection"}
  /\ len_at_last_space \in Nat /\ equals_location \in Nat

Type ==
  /\ text \in Seq(Nat) /\ FrameType
  /\ pc \in {"scan", "multi", "print", "printed", "crash"}
  /\ mv.s \in SpanSet /\ mv.current_span \in SpanSet
  /\ mv.i \in Nat /\ mv.len_at_last_space \in Nat
  /\ mv = [s |-> mv.s, i |-> mv.i, current_span |-> mv.current_span,
           len_at_last_space |-> mv.len_at_last_space, section |-> mv.section]
  /\ todo \in Seq(MarkSet)
  /\ ret.spans \in Seq(MarkSet) /\ ret.capacity \in Nat
  /\ ret = [spans |-> ret.spans, capacity |-> ret.capacity]
  /\ lost \in Nat /\ last \in Nat

\* current_span ends at i; the part it holds is not empty, and neither is the
\* part of it up to the last blank, where a branch relies on it.
FrameInv ==
  /\ i <= N => current_span.s + current_span.len = i
  /\ state \in {"OnKey", "OnSection"} => current_span.len > 0
  /\ state # "OnComment" /\ current_span.len > 0 => len_at_last_space \in 1..current_span.len
  /\ state = "OnValue" => equals_location < current_span.s

\* Every span highlight_config has yet to hand over starts here or later.
ScanLimit == IF i > N THEN N
             ELSE IF state = "OnValue" THEN equals_location ELSE current_span.s
Limit == IF pc = "multi" THEN mv.current_span.s ELSE ScanLimit

\* The same of highlight_multivalue, which is never left without a span to
\* change unless the array was lost.
MultiInv ==
  pc = "multi" =>
    /\ mv.i <= mv.s.len
    /\ mv.current_span.s + mv.current_span.len = mv.s.s + mv.i
    /\ mv.len_at_last_space <= mv.current_span.len
    /\ mv.s.s + mv.s.len <= ScanLimit
    /\ lost = 0 => ret.spans # <<>> \/ (todo # <<>> /\ Head(todo).len > 0)

SpansInv ==
  pc \in {"scan", "multi"} =>
    /\ Kept(ret.spans)
    /\ \E m \in Nat : Chain(ret.spans, 0, m) /\ Chain(todo, m, Limit)

\* What is printed is the text up to last; the spans still to print follow it
\* and the terminator follows them.
ToPrint(q) ==
  /\ Chain(q, last, N) /\ Kept(q)
  /\ \/ todo = <<EndMark>> /\ ret.spans = q
     \/ todo = <<>> /\ ret.spans = Append(q, EndMark)
     \/ todo = <<>> /\ ret.spans = <<>> /\ lost > 0

PrintInv ==
  /\ last <= N
  /\ out = IF pc = "printed" THEN text ELSE SubSeq(text, 1, last)
  /\ pc \in {"scan", "multi"} => last = 0
  /\ pc \in {"print", "printed"} => \E q \in Seq(MarkSet) : ToPrint(q)
  /\ pc = "crash" => todo = <<>> /\ ret.spans = <<>> /\ lost > 0

IInv == Type /\ FrameInv /\ MultiInv /\ SpansInv /\ PrintInv

\* What the steps need to know of the two functions for values.
ValuesInside ==
  \A s \in SpanSet : s.len # 0 => \A f : Inside(highlight_value(text, s, f), s)
ItemsInside ==
  \A s \in SpanSet : \A f : Inside(highlight_multivalue_value(text, s, f), s)

-----------------------------------------------------------------------------
(* The scan.                                                               *)

LEMMA Typed ==
    ASSUME IInv
    PROVE  /\ text \in Seq(Nat) /\ N \in Nat /\ FrameType
           /\ mv.s \in SpanSet /\ mv.current_span \in SpanSet
           /\ mv.i \in Nat /\ mv.len_at_last_space \in Nat
           /\ todo \in Seq(MarkSet) /\ ret.spans \in Seq(MarkSet) /\ ret.capacity \in Nat
           /\ ret = [spans |-> ret.spans, capacity |-> ret.capacity]
           /\ lost \in Nat /\ last \in Nat
<1>1. Type
  BY DEF IInv
<1>2. text \in Seq(Nat)
  BY ONLY <1>1 DEF Type
<1>3. N \in Nat
  BY ONLY <1>2 DEF N
<1> QED BY ONLY <1>1, <1>2, <1>3 DEF Type

\* The limits are offsets.
LEMMA LimitsAreNumbers == ASSUME IInv PROVE ScanLimit \in Nat /\ Limit \in Nat
<1>1. current_span \in SpanSet /\ equals_location \in Nat
  BY Typed DEF FrameType
<1>2. mv.current_span.s \in Nat /\ current_span.s \in Nat /\ N \in Nat
  BY <1>1, Typed, SpanFields
<1>3. ScanLimit \in Nat
  BY ONLY <1>1, <1>2 DEF ScanLimit
<1> QED BY ONLY <1>2, <1>3 DEF Limit

LEMMA IInvInit == Init => IInv
<1> SUFFICES ASSUME Init PROVE IInv
  OBVIOUS
<1>1. text \in Seq(Nat) /\ N \in Nat
  BY HighlighterAssumption DEF Init, N
<1>2. Span(0, 0) \in SpanSet /\ Span(0, 0).s = 0 /\ Span(0, 0).len = 0
  BY SpanMake
<1>3. ret.spans = <<>> /\ ret.capacity = 0 /\ todo = <<>> /\ lost = 0 /\ last = 0 /\ out = <<>>
  BY DEF Init, NoArray
<1>4. ret.spans \in Seq(MarkSet) /\ todo \in Seq(MarkSet)
  BY <1>3
<1>5. Type
  <2>1. FrameType
    BY <1>1, <1>2 DEF Init, FrameType
  <2>2. /\ mv.s = Span(0, 0) /\ mv.current_span = Span(0, 0) /\ mv.i = 0
        /\ mv.len_at_last_space = 0
        /\ mv = [s |-> mv.s, i |-> mv.i, current_span |-> mv.current_span,
                 len_at_last_space |-> mv.len_at_last_space, section |-> mv.section]
    BY DEF Init
  <2>3. ret = [spans |-> ret.spans, capacity |-> ret.capacity]
    BY DEF Init, NoArray
  <2>4. pc = "scan"
    BY DEF Init
  <2> QED BY <1>1, <1>2, <1>3, <1>4, <2>1, <2>2, <2>3, <2>4 DEF Type
<1>6. FrameInv
  BY <1>2 DEF Init, FrameInv
<1>7. MultiInv
  BY DEF Init, MultiInv
<1>8. SpansInv
  <2>1. Limit = 0
    BY <1>1, <1>2 DEF Init, Limit, ScanLimit
  <2>2. Chain(<<>>, 0, 0)
    BY ChainEmpty
  <2>3. Kept(<<>>)
    BY DEF Kept
  <2> QED BY <1>3, <2>1, <2>2, <2>3 DEF SpansInv
<1>9. PrintInv
  <2>1. SubSeq(text, 1, 0) = <<>>
    BY <1>1, NoText
  <2> QED BY <1>1, <1>3, <2>1 DEF Init, PrintInv
<1> QED BY <1>5, <1>6, <1>7, <1>8, <1>9 DEF IInv

\* Where the scan stands when it looks at a character.
LEMMA ScanFacts ==
    ASSUME IInv, Scanning
    PROVE  /\ current_span \in SpanSet /\ current_span.s \in Nat /\ current_span.len \in Nat
           /\ i \in Nat /\ N \in Nat /\ i <= N
           /\ current_span.s + current_span.len = i
           /\ ScanLimit \in Nat /\ ScanLimit <= current_span.s
           /\ state # "OnValue" => ScanLimit = current_span.s
           /\ state = "OnValue" => ScanLimit = equals_location
           /\ Chain(ret.spans, 0, ScanLimit) /\ Kept(ret.spans)
           /\ pc = "scan" /\ todo = <<>> /\ last = 0 /\ out = <<>>
<1>1. pc = "scan" /\ todo = <<>> /\ i <= N
  BY DEF Scanning, N
<1>2. /\ current_span \in SpanSet /\ i \in Nat /\ equals_location \in Nat
      /\ text \in Seq(Nat) /\ ret.spans \in Seq(MarkSet)
  BY DEF IInv, Type, FrameType
<1>3. current_span.s \in Nat /\ current_span.len \in Nat /\ N \in Nat
  BY <1>2, SpanFields DEF N
<1>4. /\ current_span.s + current_span.len = i
      /\ state = "OnValue" => equals_location < current_span.s
  BY <1>1 DEF IInv, FrameInv
<1>5. ScanLimit = IF state = "OnValue" THEN equals_location ELSE current_span.s
  BY <1>1, <1>2, <1>3 DEF ScanLimit
<1>6. ScanLimit \in Nat /\ ScanLimit <= current_span.s
  BY <1>2, <1>3, <1>4, <1>5
<1>7. Kept(ret.spans) /\ \E m \in Nat : Chain(ret.spans, 0, m) /\ Chain(<<>>, m, ScanLimit)
  BY <1>1 DEF IInv, SpansInv, Limit
<1>8. PICK m \in Nat : Chain(ret.spans, 0, m) /\ Chain(<<>>, m, ScanLimit)
  BY <1>7
<1>9. m <= ScanLimit
  BY <1>8 DEF Chain
<1>10. Chain(ret.spans, 0, ScanLimit)
  BY <1>2, <1>6, <1>8, <1>9, ChainWiden
<1>11. last = 0 /\ out = <<>>
  <2>1. last = 0 /\ out = SubSeq(text, 1, 0)
    BY <1>1 DEF IInv, PrintInv
  <2> QED BY <1>2, <2>1, NoText
<1> QED BY <1>1, <1>2, <1>3, <1>4, <1>5, <1>6, <1>7, <1>10, <1>11

\* A step of the scan keeps the invariant when the spans it hands over follow
\* those it handed over before and precede those it has yet to hand over.
LEMMA ScanKeeps ==
    ASSUME IInv, Scanning, UNCHANGED <<text, pc, mv, ret, lost, printing>>,
           todo' \in Seq(MarkSet), FrameType', FrameInv', ScanLimit' \in Nat,
           NEW m \in Nat, ScanLimit <= m, Chain(todo', m, ScanLimit')
    PROVE  IInv'
<1>1. /\ Chain(ret.spans, 0, ScanLimit) /\ Kept(ret.spans) /\ pc = "scan"
      /\ ScanLimit \in Nat
  BY ScanFacts
<1>2. pc' = "scan" /\ ret' = ret /\ text' = text /\ N' = N /\ last' = last /\ out' = out
  BY <1>1 DEF N, printing
<1>3. Type'
  BY <1>2 DEF IInv, Type
<1>4. MultiInv'
  BY <1>2 DEF MultiInv
<1>5. SpansInv'
  <2>1. ret.spans \in Seq(MarkSet)
    BY DEF IInv, Type
  <2>2. Chain(ret.spans, 0, m)
    BY <1>1, <2>1, ChainWiden
  <2>3. Limit' = ScanLimit'
    BY <1>2 DEF Limit
  <2>4. ret'.spans = ret.spans
    BY <1>2
  <2>5. Kept(ret'.spans) /\ Chain(ret'.spans, 0, m) /\ Chain(todo', m, Limit')
    BY <1>1, <2>2, <2>3, <2>4
  <2> QED BY <2>5 DEF SpansInv
<1>6. PrintInv'
  BY <1>1, <1>2 DEF IInv, PrintInv
<1> QED BY <1>3, <1>4, <1>5, <1>6 DEF IInv

\* NextPart: what is handed over at the end of a part may extend up to i.
LEMMA PartFacts ==
    ASSUME IInv, Scanning, NextPart
    PROVE  /\ FrameType' /\ FrameInv'
           /\ ScanLimit' \in Nat /\ i <= ScanLimit'
           /\ UNCHANGED <<text, ret, lost, printing>>
<1>0. UNCHANGED <<text, equals_location, ret, lost, printing>> /\ i' = i + 1 /\ N' = N
  BY DEF NextPart, N
<1>1. /\ current_span \in SpanSet /\ current_span.s \in Nat /\ current_span.len \in Nat
      /\ i \in Nat /\ N \in Nat /\ i <= N
  BY ScanFacts
<1>2. FrameType
  BY DEF IInv, Type
<1>3. CASE i = N
  <2>1. UNCHANGED <<current_span, state, len_at_last_space>>
    BY <1>3, <1>1 DEF NextPart, N
  <2>2. FrameType'
    BY ONLY <2>1, <1>0, <1>1, <1>2 DEF FrameType
  <2>3. FrameInv'
    <3>1. ~(i' <= N')
      BY <1>0, <1>1, <1>3
    <3> QED BY <3>1, <2>1, <1>0 DEF IInv, FrameInv
  <2>4. ScanLimit' = N
    BY <1>0, <1>1, <1>3 DEF ScanLimit
  <2> QED BY <1>0, <1>1, <1>3, <2>2, <2>3, <2>4
<1>4. CASE i # N
  <2>1. /\ len_at_last_space' = 0
        /\ \/ current_span' = Span(i, 1) /\ state' = "OnComment"
           \/ current_span' = Span(i + 1, 0) /\ state' = "OnNone"
    BY <1>4 DEF NextPart, N
  <2>2. /\ Span(i, 1) \in SpanSet /\ Span(i, 1).s = i /\ Span(i, 1).len = 1
        /\ Span(i + 1, 0) \in SpanSet /\ Span(i + 1, 0).s = i + 1 /\ Span(i + 1, 0).len = 0
    BY <1>1, SpanMake
  <2>3. FrameType'
    BY ONLY <2>1, <2>2, <1>0, <1>1, <1>2 DEF FrameType
  <2>4. FrameInv'
    <3>1. CASE current_span' = Span(i, 1) /\ state' = "OnComment"
      BY ONLY <3>1, <2>1, <2>2, <1>0, <1>1 DEF FrameInv
    <3>2. CASE current_span' = Span(i + 1, 0) /\ state' = "OnNone"
      BY ONLY <3>2, <2>1, <2>2, <1>0, <1>1 DEF FrameInv
    <3> QED BY ONLY <2>1, <3>1, <3>2
  <2>5. ScanLimit' = current_span'.s
    BY <2>1, <1>0, <1>1, <1>4 DEF ScanLimit
  <2> QED BY <1>0, <1>1, <2>1, <2>2, <2>3, <2>4, <2>5
<1> QED BY <1>3, <1>4

LEMMA OneMark ==
    ASSUME NEW type \in Types, NEW s \in SpanSet, NEW b \in Nat, s.s + s.len <= b
    PROVE  <<Mark(type, s)>> \in Seq(MarkSet) /\ Chain(<<Mark(type, s)>>, s.s, b)
<1>1. s.s \in Nat /\ s.len \in Nat
  BY SpanFields
<1>2. <<Mark(type, s)>> \in Seq(MarkSet) /\ Chain(<<Mark(type, s)>>, s.s, s.s + s.len)
  BY ChainOne
<1>3. s.s + s.len \in Nat /\ s.s <= s.s
  BY <1>1
<1> QED BY <1>1, <1>2, <1>3, ChainWiden, Zenon

\* The part up to its last character that is no blank.
LEMMA TrimmedPart ==
    ASSUME IInv, Scanning, state # "OnComment", current_span.len # 0
    PROVE  LET s == Trimmed(current_span, len_at_last_space)
           IN /\ s \in SpanSet /\ s.s = current_span.s /\ s.len = len_at_last_space
              /\ s.len # 0 /\ s.s + s.len <= i
<1>1. /\ current_span \in SpanSet /\ current_span.s \in Nat /\ current_span.len \in Nat
      /\ current_span.s + current_span.len = i
  BY ScanFacts
<1>2. len_at_last_space \in 1..current_span.len
  BY <1>1 DEF IInv, FrameInv
<1>3. len_at_last_space \in Nat
  BY <1>1, <1>2
<1> DEFINE s == Trimmed(current_span, len_at_last_space)
<1>4. s \in SpanSet /\ s.s = current_span.s /\ s.len = len_at_last_space
  BY <1>1, <1>3, TrimmedSpan, Zenon
<1> HIDE DEF s
<1>5. s.len # 0 /\ s.s + s.len <= i
  BY <1>1, <1>2, <1>4
<1> QED BY <1>4, <1>5 DEF s

LEMMA PlainTypes == {"Section", "Field", "Comment", "Delimiter", "Error"} \subseteq Types
  BY DEF Types

LEMMA EndNoneKeeps == ASSUME IInv, EndNone PROVE IInv'
<1>1. Scanning /\ NextPart /\ UNCHANGED <<pc, mv, todo>>
  BY DEF EndNone
<1>2. /\ FrameType' /\ FrameInv' /\ ScanLimit' \in Nat /\ i <= ScanLimit'
      /\ UNCHANGED <<text, ret, lost, printing>>
  BY <1>1, PartFacts
<1>3. /\ ScanLimit \in Nat /\ ScanLimit <= i /\ todo' = <<>>
  BY <1>1, ScanFacts
<1>4. todo' \in Seq(MarkSet) /\ Chain(todo', ScanLimit, ScanLimit')
  <2>1. ScanLimit <= ScanLimit'
    BY <1>2, <1>3, <1>1, ScanFacts
  <2>2. Chain(<<>>, ScanLimit, ScanLimit')
    BY <1>2, <1>3, <2>1, ChainEmpty
  <2> QED BY <1>3, <2>2
<1> QED BY <1>1, <1>2, <1>3, <1>4, ScanKeeps

\* The branches that hand over one span.
LEMMA EndOneKeeps ==
    ASSUME IInv, Scanning, NextPart, UNCHANGED <<pc, mv>>,
           NEW type \in Types, NEW s \in SpanSet,
           todo' = <<Mark(type, s)>>, ScanLimit <= s.s, s.s + s.len <= i
    PROVE  IInv'
<1>1. /\ FrameType' /\ FrameInv' /\ ScanLimit' \in Nat /\ i <= ScanLimit'
      /\ UNCHANGED <<text, ret, lost, printing>>
  BY PartFacts
<1>2. s.s \in Nat /\ s.len \in Nat /\ i \in Nat
  BY SpanFields, ScanFacts
<1>3. s.s + s.len <= ScanLimit'
  BY <1>1, <1>2
<1>4. todo' \in Seq(MarkSet) /\ Chain(todo', s.s, ScanLimit')
  BY <1>1, <1>3, OneMark
<1> QED BY <1>1, <1>2, <1>4, ScanKeeps

LEMMA EndKeyKeeps == ASSUME IInv, EndKey PROVE IInv'
<1>1. /\ Scanning /\ NextPart /\ UNCHANGED <<pc, mv>> /\ state = "OnKey"
      /\ todo' = <<Mark("Error", Trimmed(current_span, len_at_last_space))>>
  BY DEF EndKey
<1>2. current_span.len # 0 /\ ScanLimit <= current_span.s
  BY <1>1, ScanFacts DEF IInv, FrameInv
<1> QED BY <1>1, <1>2, TrimmedPart, EndOneKeeps, PlainTypes

LEMMA EndSectionKeeps == ASSUME IInv, EndSection PROVE IInv'
<1> DEFINE s == Trimmed(current_span, len_at_last_space)
           type == IF current_section' = "Invalid" THEN "Error" ELSE "Section"
<1>1. /\ Scanning /\ NextPart /\ UNCHANGED <<pc, mv>> /\ state = "OnSection"
      /\ todo' = <<Mark(type, s)>>
  BY DEF EndSection
<1>2. current_span.len # 0 /\ ScanLimit <= current_span.s
  BY <1>1, ScanFacts DEF IInv, FrameInv
<1>3. type \in Types
  BY PlainTypes
<1>4. s \in SpanSet /\ s.s = current_span.s /\ s.s + s.len <= i
  BY <1>1, <1>2, TrimmedPart
<1> HIDE DEF s, type
<1> QED BY <1>1, <1>2, <1>3, <1>4, EndOneKeeps

LEMMA EndCommentKeeps == ASSUME IInv, EndComment PROVE IInv'
<1>1. /\ Scanning /\ NextPart /\ UNCHANGED <<pc, mv>>
      /\ todo' = <<Mark("Comment", current_span)>>
  BY DEF EndComment
<1>2. /\ current_span \in SpanSet /\ ScanLimit <= current_span.s
      /\ i \in Nat /\ current_span.s + current_span.len = i
  BY <1>1, ScanFacts
<1>3. current_span.s + current_span.len <= i
  BY <1>2
<1> QED BY <1>1, <1>2, <1>3, EndOneKeeps, PlainTypes

\* The '=' of a line lies before its value.
LEMMA EqualsPart ==
    ASSUME IInv, Scanning, state = "OnValue"
    PROVE  /\ Span(equals_location, 1) \in SpanSet
           /\ Span(equals_location, 1).s = ScanLimit /\ Span(equals_location, 1).len = 1
           /\ ScanLimit + 1 <= current_span.s /\ current_span.s <= i
           /\ ScanLimit \in Nat /\ current_span.s \in Nat /\ i \in Nat
<1>1. equals_location \in Nat /\ equals_location < current_span.s
  BY DEF IInv, Type, FrameType, FrameInv
<1>2. /\ ScanLimit = equals_location /\ current_span.s \in Nat /\ current_span.len \in Nat
      /\ i \in Nat /\ current_span.s + current_span.len = i
  BY ScanFacts
<1> QED BY <1>1, <1>2, SpanMake

LEMMA EndNoValueKeeps == ASSUME IInv, EndNoValue PROVE IInv'
<1> DEFINE s == Span(equals_location, 1)
<1>1. /\ Scanning /\ NextPart /\ UNCHANGED <<pc, mv>> /\ state = "OnValue"
      /\ todo' = <<Mark("Error", s)>>
  BY DEF EndNoValue
<1>2. /\ s \in SpanSet /\ s.s = ScanLimit /\ s.len = 1
      /\ ScanLimit + 1 <= current_span.s /\ current_span.s <= i
      /\ ScanLimit \in Nat /\ current_span.s \in Nat /\ i \in Nat
  BY <1>1, EqualsPart
<1> HIDE DEF s
<1>3. s.s + s.len <= i /\ ScanLimit <= s.s
  BY <1>2
<1> QED BY <1>1, <1>2, <1>3, EndOneKeeps, PlainTypes

LEMMA EndValueKeeps == ASSUME IInv, ValuesInside, EndValue PROVE IInv'
<1> DEFINE s == Trimmed(current_span, len_at_last_space)
           e == Span(equals_location, 1)
           d == Mark("Delimiter", e)
           v == highlight_value(text, s, current_field)
<1>1. /\ Scanning /\ NextPart /\ state = "OnValue" /\ current_span.len # 0
      /\ \/ /\ todo' = <<d>> /\ pc' = "multi"
            /\ mv' = [s |-> s, i |-> 0, current_span |-> Span(s.s, 0),
                      len_at_last_space |-> 0, section |-> current_field]
         \/ todo' = <<d>> \o v /\ UNCHANGED <<pc, mv>>
  BY DEF EndValue
<1>2. /\ s \in SpanSet /\ s.s = current_span.s /\ s.len # 0 /\ s.s + s.len <= i
      /\ s.s \in Nat /\ s.len \in Nat
  BY <1>1, TrimmedPart, SpanFields
<1>3. /\ e \in SpanSet /\ e.s = ScanLimit /\ e.len = 1
      /\ ScanLimit + 1 <= s.s /\ ScanLimit \in Nat /\ i \in Nat
  BY <1>1, <1>2, EqualsPart
<1>4. /\ FrameType' /\ FrameInv' /\ ScanLimit' \in Nat /\ i <= ScanLimit'
      /\ UNCHANGED <<text, ret, lost, printing>>
  BY <1>1, PartFacts
<1> HIDE DEF e
<1>5. /\ d \in MarkSet /\ d.type # "End" /\ d.start = ScanLimit /\ d.len = 1
      /\ After(d) <= s.s
  <2>1. d \in MarkSet /\ d.type = "Delimiter" /\ d.start = ScanLimit /\ d.len = 1
    BY <1>3, MarkType, PlainTypes
  <2> QED BY <2>1, <1>2, <1>3 DEF After
<1> HIDE DEF d
<1>6. CASE todo' = <<d>> \o v /\ UNCHANGED <<pc, mv>>
  <2>1. v \in Seq(MarkSet) /\ Chain(v, s.s, s.s + s.len)
    BY <1>2 DEF ValuesInside, Inside
  <2> HIDE DEF v, s
  <2>2. s.s + s.len \in Nat /\ s.s + s.len <= ScanLimit' /\ s.s <= s.s
    BY <1>2, <1>3, <1>4
  <2>3. Chain(v, s.s, ScanLimit')
    BY <1>2, <1>4, <2>1, <2>2, ChainWiden
  <2>4. <<d>> \o v \in Seq(MarkSet) /\ Chain(<<d>> \o v, d.start, ScanLimit')
    <3>1. d.len >= 0
      BY <1>5
    <3> QED BY <1>2, <1>4, <1>5, <2>1, <2>3, <3>1, ChainCons
  <2>5. todo' \in Seq(MarkSet) /\ Chain(todo', ScanLimit, ScanLimit') /\ ScanLimit <= ScanLimit
    BY <1>3, <1>5, <1>6, <2>4
  <2> QED BY <1>1, <1>3, <1>4, <1>6, <2>5, ScanKeeps
<1>7. CASE /\ todo' = <<d>> /\ pc' = "multi"
           /\ mv' = [s |-> s, i |-> 0, current_span |-> Span(s.s, 0),
                     len_at_last_space |-> 0, section |-> current_field]
  <2> HIDE DEF v, s
  <2>0. /\ mv'.s = s /\ mv'.i = 0 /\ mv'.current_span = Span(s.s, 0)
        /\ mv'.len_at_last_space = 0
        /\ mv' = [s |-> mv'.s, i |-> mv'.i, current_span |-> mv'.current_span,
                  len_at_last_space |-> mv'.len_at_last_space, section |-> mv'.section]
    BY <1>7
  <2>1. Span(s.s, 0) \in SpanSet /\ Span(s.s, 0).s = s.s /\ Span(s.s, 0).len = 0
    BY <1>2, SpanMake
  <2>2. todo' \in Seq(MarkSet) /\ todo' # <<>> /\ Head(todo') = d /\ pc' = "multi"
    BY <1>5, <1>7
  <2>3. /\ Chain(ret.spans, 0, ScanLimit) /\ Kept(ret.spans) /\ last = 0 /\ out = <<>>
    BY <1>1, ScanFacts
  <2>4. Type'
    BY <1>2, <1>4, <2>0, <2>1, <2>2 DEF IInv, Type, printing
  <2>5. MultiInv'
    <3>1. s.s + s.len <= ScanLimit'
      BY <1>2, <1>3, <1>4
    <3>2. Head(todo').len > 0
      BY <1>5, <2>2
    <3> QED BY <1>2, <2>0, <2>1, <2>2, <3>1, <3>2 DEF MultiInv
  <2>6. SpansInv'
    <3>1. Limit' = s.s
      BY <2>0, <2>1, <2>2 DEF Limit
    <3>2. Chain(<<d>>, ScanLimit, s.s)
      <4>1. Chain(<<>>, s.s, s.s) /\ <<>> \in Seq(MarkSet)
        BY <1>2, ChainEmpty
      <4>2. Chain(<<d>> \o <<>>, d.start, s.s)
        <5>1. d.len >= 0
          BY <1>5
        <5> QED BY <1>2, <1>5, <4>1, <5>1, ChainCons, Zenon
      <4>3. <<d>> \o <<>> = <<d>>
        BY <1>5
      <4> QED BY <1>5, <4>2, <4>3
    <3>3. ret' = ret
      BY <1>4
    <3>4. Kept(ret'.spans) /\ Chain(ret'.spans, 0, ScanLimit) /\ Chain(todo', ScanLimit, Limit')
      BY <1>7, <2>3, <3>1, <3>2, <3>3
    <3> QED BY <1>3, <3>4 DEF SpansInv
  <2>7. PrintInv'
    <3>1. last' = last /\ out' = out /\ text' = text /\ N' = N
      BY <1>4 DEF printing, N
    <3>2. pc = "scan"
      BY <1>1, ScanFacts
    <3> QED BY <2>2, <3>1, <3>2 DEF IInv, PrintInv
  <2> QED BY <1>4, <2>4, <2>5, <2>6, <2>7 DEF IInv
<1> QED BY <1>1, <1>6, <1>7

\* The branches that hand over nothing and move on by one character.
LEMMA CharKeeps ==
    ASSUME IInv, Scanning, i < N, i' = i + 1,
           UNCHANGED <<text, pc, mv, todo, ret, lost, printing, equals_location>>,
           current_span' \in SpanSet, current_span'.s + current_span'.len = i + 1,
           current_span'.s >= current_span.s,
           state' \in {"OnNone", "OnKey", "OnValue", "OnComment", "OnSection"},
           state' = "OnValue" <=> state = "OnValue",
           state' \in {"OnKey", "OnSection"} => current_span'.len > 0,
           state' # "OnComment" /\ current_span'.len > 0
             => len_at_last_space' \in 1..current_span'.len,
           len_at_last_space' \in Nat
    PROVE  IInv'
<1>1. /\ current_span.s \in Nat /\ i \in Nat /\ N \in Nat /\ todo = <<>>
      /\ ScanLimit \in Nat /\ ScanLimit <= current_span.s
      /\ state # "OnValue" => ScanLimit = current_span.s
      /\ state = "OnValue" => ScanLimit = equals_location
  BY ScanFacts
<1>2. current_span'.s \in Nat /\ current_span'.len \in Nat
  BY SpanFields
<1>3. N' = N /\ i' <= N'
  BY <1>1 DEF N
<1>4. FrameType'
  <2>1. equals_location \in Nat
    BY DEF IInv, Type, FrameType
  <2> QED BY <1>1, <1>3, <2>1 DEF FrameType
<1>5. FrameInv'
  <2>1. state = "OnValue" => equals_location < current_span.s
    BY DEF IInv, FrameInv
  <2>2. equals_location \in Nat
    BY DEF IInv, Type, FrameType
  <2>3. state' = "OnValue" => equals_location' < current_span'.s
    BY <1>1, <1>2, <2>1, <2>2
  <2> QED BY <1>1, <2>3 DEF FrameInv
<1>6. ScanLimit' \in Nat /\ ScanLimit <= ScanLimit'
  <2>1. ScanLimit' = IF state' = "OnValue" THEN equals_location' ELSE current_span'.s
    BY <1>1, <1>3 DEF ScanLimit
  <2>2. CASE state = "OnValue"
    BY <1>1, <2>1, <2>2
  <2>3. CASE state # "OnValue"
    BY <1>1, <1>2, <2>1, <2>3
  <2> QED BY <2>2, <2>3
<1>7. todo' \in Seq(MarkSet) /\ Chain(todo', ScanLimit, ScanLimit') /\ ScanLimit <= ScanLimit
  BY <1>1, <1>6, ChainEmpty
<1> QED BY <1>1, <1>4, <1>5, <1>6, <1>7, ScanKeeps

LEMMA NotAtEnd == ASSUME IInv, Scanning, ~PartEnds PROVE i < N
<1>1. i \in Nat /\ N \in Nat /\ i <= N
  BY ScanFacts
<1>2. i # N
  BY DEF PartEnds, N
<1> QED BY <1>1, <1>2

LEMMA CommentCharKeeps == ASSUME IInv, CommentChar PROVE IInv'
<1>1. /\ Scanning /\ ~PartEnds /\ state = "OnComment" /\ i' = i + 1
      /\ current_span' = [current_span EXCEPT !.len = @ + 1]
      /\ UNCHANGED <<text, pc, mv, todo, ret, lost, printing, equals_location>>
      /\ UNCHANGED <<state, len_at_last_space>>
  BY DEF CommentChar
<1>2. /\ current_span \in SpanSet /\ current_span.s \in Nat /\ current_span.len \in Nat
      /\ current_span.s + current_span.len = i /\ i < N /\ i \in Nat
  BY <1>1, ScanFacts, NotAtEnd
<1>3. /\ current_span' \in SpanSet /\ current_span'.s = current_span.s
      /\ current_span'.len = current_span.len + 1
  BY <1>1, <1>2, GrownSpan
<1>4. current_span'.s + current_span'.len = i + 1 /\ current_span'.s >= current_span.s
  BY <1>2, <1>3
<1>5. len_at_last_space \in Nat
  BY DEF IInv, Type, FrameType
<1> QED BY <1>1, <1>2, <1>3, <1>4, <1>5, CharKeeps

LEMMA BlankCharKeeps == ASSUME IInv, BlankChar PROVE IInv'
<1>1. /\ Scanning /\ ~PartEnds /\ state # "OnComment" /\ i' = i + 1
      /\ current_span' = PastBlank(current_span, i)
      /\ UNCHANGED <<text, pc, mv, todo, ret, lost, printing, equals_location>>
      /\ UNCHANGED <<state, len_at_last_space>>
  BY DEF BlankChar
<1>2. /\ current_span \in SpanSet /\ current_span.s \in Nat /\ current_span.len \in Nat
      /\ current_span.s + current_span.len = i /\ i < N /\ i \in Nat
  BY <1>1, ScanFacts, NotAtEnd
<1>3. /\ current_span' \in SpanSet /\ current_span'.s + current_span'.len = i + 1
      /\ current_span'.s >= current_span.s
      /\ current_span.len = 0 => current_span'.len = 0
      /\ current_span.len # 0 => current_span'.len = current_span.len + 1
  BY <1>1, <1>2, PastBlankSpan
<1>4. /\ len_at_last_space \in Nat
      /\ state \in {"OnNone", "OnKey", "OnValue", "OnComment", "OnSection"}
  BY DEF IInv, Type, FrameType
<1>5. /\ state \in {"OnKey", "OnSection"} => current_span.len > 0
      /\ current_span.len > 0 => len_at_last_space \in 1..current_span.len
  BY <1>1 DEF IInv, FrameInv
<1>6. state' \in {"OnKey", "OnSection"} => current_span'.len > 0
  BY <1>1, <1>2, <1>3, <1>5
<1>7. current_span'.len > 0 => len_at_last_space' \in 1..current_span'.len
  BY <1>1, <1>2, <1>3, <1>4, <1>5
<1> QED BY <1>1, <1>2, <1>3, <1>4, <1>6, <1>7, CharKeeps

LEMMA OtherCharKeeps == ASSUME IInv, OtherChar PROVE IInv'
<1>1. /\ Scanning /\ ~PartEnds /\ state # "OnComment" /\ i' = i + 1
      /\ state' = state \/ state' \in {"OnSection", "OnKey"}
      /\ state = "OnValue" => state' = state
      /\ current_span' = [current_span EXCEPT !.len = @ + 1]
      /\ len_at_last_space' = current_span.len + 1
      /\ UNCHANGED <<text, pc, mv, todo, ret, lost, printing, equals_location>>
  BY DEF OtherChar
<1>2. /\ current_span \in SpanSet /\ current_span.s \in Nat /\ current_span.len \in Nat
      /\ current_span.s + current_span.len = i /\ i < N /\ i \in Nat
  BY <1>1, ScanFacts, NotAtEnd
<1>3. /\ current_span' \in SpanSet /\ current_span'.s = current_span.s
      /\ current_span'.len = current_span.len + 1
  BY <1>1, <1>2, GrownSpan
<1>4. /\ current_span'.s + current_span'.len = i + 1 /\ current_span'.s >= current_span.s
      /\ current_span'.len > 0
      /\ len_at_last_space' \in Nat /\ len_at_last_space' \in 1..current_span'.len
  BY <1>1, <1>2, <1>3
<1>5. state \in {"OnNone", "OnKey", "OnValue", "OnComment", "OnSection"}
  BY DEF IInv, Type, FrameType
<1>6. /\ state' \in {"OnNone", "OnKey", "OnValue", "OnComment", "OnSection"}
      /\ state' = "OnValue" <=> state = "OnValue"
  BY <1>1, <1>5
<1> QED BY <1>1, <1>2, <1>3, <1>4, <1>6, CharKeeps

LEMMA EqualsCharKeeps == ASSUME IInv, EqualsChar PROVE IInv'
<1> DEFINE s == Trimmed(current_span, len_at_last_space)
<1>1. /\ Scanning /\ ~PartEnds /\ state = "OnKey"
      /\ i' = i + 1 /\ equals_location' = i /\ current_span' = Span(i + 1, 0)
      /\ state' = "OnValue"
      /\ UNCHANGED <<text, pc, mv, ret, lost, printing, len_at_last_space>>
      /\ \E type \in {"Error", "Field"} : todo' = <<Mark(type, s)>>
  BY DEF EqualsChar
<1>2. PICK type \in Types : todo' = <<Mark(type, s)>>
  BY <1>1, PlainTypes
<1>3. /\ i \in Nat /\ N \in Nat /\ i < N /\ current_span.s \in Nat /\ current_span.len \in Nat
      /\ ScanLimit = current_span.s
  BY <1>1, ScanFacts, NotAtEnd
<1>4. current_span.len # 0
  BY <1>1, <1>3 DEF IInv, FrameInv
<1>5. s \in SpanSet /\ s.s = current_span.s /\ s.s + s.len <= i
  BY <1>1, <1>4, TrimmedPart
<1> HIDE DEF s
<1>6. current_span' \in SpanSet /\ current_span'.s = i + 1 /\ current_span'.len = 0
  BY <1>1, <1>3, SpanMake
<1>7. N' = N /\ len_at_last_space \in Nat
  BY <1>1 DEF N, IInv, Type, FrameType
<1>8. FrameType'
  BY <1>1, <1>3, <1>6, <1>7 DEF FrameType
<1>9. FrameInv'
  BY <1>1, <1>3, <1>6, <1>7 DEF FrameInv
<1>10. ScanLimit' = i
  BY <1>1, <1>3, <1>7 DEF ScanLimit
<1>11. todo' \in Seq(MarkSet) /\ Chain(todo', s.s, ScanLimit')
  BY <1>2, <1>3, <1>5, <1>10, OneMark
<1>12. s.s \in Nat /\ ScanLimit <= s.s
  BY <1>3, <1>5
<1> QED BY <1>1, <1>3, <1>8, <1>9, <1>10, <1>11, <1>12, ScanKeeps

-----------------------------------------------------------------------------
(* The terminator, and the appends.                                        *)

LEMMA EndMarkFields ==
    /\ EndMark \in MarkSet /\ EndMark.type = "End" /\ EndMark.len # 0
    /\ <<EndMark>> \in Seq(MarkSet) /\ <<EndMark>> # <<>>
    /\ Head(<<EndMark>>) = EndMark /\ Tail(<<EndMark>>) = <<>>
<1>1. EndMark = [type |-> "End", start |-> 0, len |-> -1]
  BY DEF EndMark, Mark, Span
<1>2. EndMark \in MarkSet /\ EndMark.type = "End" /\ EndMark.len # 0
  BY <1>1 DEF MarkSet
<1> QED BY <1>2

LEMMA EndKeeps == ASSUME IInv, End PROVE IInv'
<1>1. /\ pc = "scan" /\ todo = <<>> /\ i > N /\ todo' = <<EndMark>> /\ pc' = "print"
      /\ UNCHANGED <<text, frame, mv, ret, lost, printing>>
  BY DEF End, EndMark, N
<1>2. /\ text \in Seq(Nat) /\ N \in Nat /\ i \in Nat /\ ret.spans \in Seq(MarkSet)
  BY DEF IInv, Type, FrameType, N
<1>3. /\ UNCHANGED <<i, current_span, state, len_at_last_space, equals_location>>
      /\ N' = N /\ last' = last /\ out' = out /\ ret' = ret
  BY <1>1 DEF frame, printing, N
<1>4. Type'
  BY <1>1, <1>3, EndMarkFields DEF IInv, Type, FrameType
<1>5. FrameInv'
  BY <1>3 DEF IInv, FrameInv
<1>6. MultiInv' /\ SpansInv'
  BY <1>1 DEF MultiInv, SpansInv
<1>7. PrintInv'
  <2>1. last = 0 /\ out = SubSeq(text, 1, last)
    BY <1>1 DEF IInv, PrintInv
  <2>2. Limit = N
    BY <1>1, <1>2 DEF Limit, ScanLimit
  <2>3. Kept(ret.spans) /\ \E m \in Nat : Chain(ret.spans, 0, m) /\ Chain(<<>>, m, N)
    BY <1>1, <2>2 DEF IInv, SpansInv
  <2>4. PICK m \in Nat : Chain(ret.spans, 0, m) /\ Chain(<<>>, m, N)
    BY <2>3
  <2>5. m <= N
    BY <2>4 DEF Chain
  <2>6. Chain(ret.spans, 0, N)
    BY <1>2, <2>4, <2>5, ChainWiden
  <2>7. PICK q \in Seq(MarkSet) : q = ret.spans
    BY <1>2
  <2>8. ToPrint(q)'
    BY <1>1, <1>3, <2>1, <2>3, <2>6, <2>7 DEF ToPrint
  <2> QED BY <1>1, <1>2, <1>3, <2>1, <2>8 DEF PrintInv
<1> QED BY <1>4, <1>5, <1>6, <1>7 DEF IInv

\* What an append, done or failed, leaves alone.
LEMMA AppendFrame ==
    ASSUME IInv, UNCHANGED <<text, pc, frame, mv, printing>>
    PROVE  /\ FrameType' /\ FrameInv' /\ N' = N /\ Limit' = Limit /\ ScanLimit' = ScanLimit
           /\ text' \in Seq(Nat) /\ pc' = pc /\ mv' = mv /\ last' = last /\ out' = out
<1>1. /\ UNCHANGED <<i, current_span, state, len_at_last_space, equals_location>>
      /\ N' = N /\ last' = last /\ out' = out
  BY DEF frame, printing, N
<1>2. ScanLimit' = ScanLimit /\ Limit' = Limit
  BY <1>1 DEF ScanLimit, Limit
<1>3. FrameType' /\ FrameInv'
  BY <1>1 DEF IInv, Type, FrameType, FrameInv
<1>4. text' \in Seq(Nat)
  BY DEF IInv, Type
<1> QED BY <1>1, <1>2, <1>3, <1>4

LEMMA TodoHead ==
    ASSUME IInv, todo # <<>>
    PROVE  /\ todo \in Seq(MarkSet) /\ Head(todo) \in MarkSet /\ Tail(todo) \in Seq(MarkSet)
           /\ Head(todo).start \in Nat /\ Head(todo).len \in Int
           /\ pc \in {"scan", "multi", "print", "printed"}
<1>1. todo \in Seq(MarkSet) /\ pc # "crash"
  BY DEF IInv, Type, PrintInv
<1>2. Head(todo) \in MarkSet /\ Tail(todo) \in Seq(MarkSet)
  BY <1>1
<1> QED BY <1>1, <1>2 DEF MarkSet, IInv, Type

LEMMA AppendedFields ==
    ASSUME NEW a, NEW m \in MarkSet, a.spans \in Seq(MarkSet), a.capacity \in Nat,
           a = [spans |-> a.spans, capacity |-> a.capacity]
    PROVE  /\ Appended(a, m) = [spans |-> Appended(a, m).spans,
                                capacity |-> Appended(a, m).capacity]
           /\ Appended(a, m).spans = IF m.len = 0 THEN a.spans ELSE Append(a.spans, m)
           /\ Appended(a, m).spans \in Seq(MarkSet)
           /\ Appended(a, m).capacity \in Nat
<1>1. CASE m.len = 0
  BY <1>1 DEF Appended
<1>2. CASE m.len # 0
  <2> DEFINE c == IF Len(a.spans) < a.capacity THEN a.capacity
                  ELSE IF a.capacity # 0 THEN a.capacity * 2 ELSE FirstCap
  <2>1. c \in Nat
    <3>1. a.capacity * 2 \in Nat
      OBVIOUS
    <3> QED BY <3>1, HighlighterAssumption
  <2>2. Appended(a, m) = [spans |-> Append(a.spans, m), capacity |-> c]
    BY <1>2 DEF Appended
  <2> HIDE DEF c
  <2> QED BY <1>2, <2>1, <2>2
<1> QED BY <1>1, <1>2

LEMMA AppendSpanKeeps == ASSUME IInv, AppendSpan PROVE IInv'
<1> DEFINE m == Head(todo)
<1>1. /\ todo # <<>> /\ ret' = Appended(ret, m) /\ todo' = Tail(todo)
      /\ UNCHANGED <<text, pc, frame, mv, lost, printing>>
  BY DEF AppendSpan
<1>2. /\ FrameType' /\ FrameInv' /\ N' = N /\ Limit' = Limit /\ ScanLimit' = ScanLimit
      /\ text' \in Seq(Nat) /\ pc' = pc /\ mv' = mv /\ last' = last /\ out' = out
  BY <1>1, AppendFrame
<1>3. /\ todo \in Seq(MarkSet) /\ m \in MarkSet /\ Tail(todo) \in Seq(MarkSet)
      /\ m.start \in Nat /\ m.len \in Int /\ pc \in {"scan", "multi", "print", "printed"}
  BY <1>1, TodoHead
<1>4. /\ ret.spans \in Seq(MarkSet) /\ ret.capacity \in Nat
      /\ ret = [spans |-> ret.spans, capacity |-> ret.capacity]
  BY DEF IInv, Type
<1>5. /\ ret' = [spans |-> ret'.spans, capacity |-> ret'.capacity]
      /\ ret'.spans = IF m.len = 0 THEN ret.spans ELSE Append(ret.spans, m)
      /\ ret'.spans \in Seq(MarkSet) /\ ret'.capacity \in Nat
  BY <1>1, <1>3, <1>4, AppendedFields
<1>6. Type'
  BY <1>1, <1>2, <1>3, <1>5 DEF IInv, Type
<1>7. SpansInv'
  <2> SUFFICES ASSUME pc \in {"scan", "multi"}
               PROVE  /\ Kept(ret'.spans)
                      /\ \E b \in Nat : Chain(ret'.spans, 0, b) /\ Chain(todo', b, Limit')
    BY <1>2 DEF SpansInv
  <2>1. Kept(ret.spans)
    BY DEF IInv, SpansInv
  <2>2. PICK b \in Nat : Chain(ret.spans, 0, b) /\ Chain(todo, b, Limit)
    BY DEF IInv, SpansInv
  <2>3. Limit \in Nat
    BY LimitsAreNumbers
  <2>4. /\ m.type # "End" /\ m.len >= 0 /\ b <= m.start /\ After(m) <= Limit
        /\ Chain(Tail(todo), After(m), Limit)
    BY <1>1, <1>3, <2>2, <2>3, ChainTail
  <2>5. After(m) \in Nat /\ b <= After(m) /\ After(m) <= After(m)
    BY <1>3, <2>4 DEF After
  <2> HIDE DEF m
  <2>6. Chain(ret'.spans, 0, After(m))
    <3>1. CASE m.len = 0
      <4>1. Chain(ret.spans, 0, After(m))
        BY <1>4, <2>2, <2>5, ChainWiden
      <4> QED BY <3>1, <4>1, <1>5
    <3>2. CASE m.len # 0
      <4>1. Chain(Append(ret.spans, m), 0, After(m))
        BY <1>3, <1>4, <2>2, <2>4, <2>5, ChainAppend
      <4> QED BY <3>2, <4>1, <1>5
    <3> QED BY <3>1, <3>2
  <2>7. Kept(ret'.spans)
    <3>1. CASE m.len = 0
      BY <3>1, <2>1, <1>5
    <3>2. CASE m.len # 0
      <4>1. m.len > 0
        BY <3>2, <2>4, <1>3
      <4>2. Kept(Append(ret.spans, m))
        BY <1>3, <1>4, <2>1, <4>1, KeptAppend
      <4> QED BY <3>2, <4>2, <1>5
    <3> QED BY <3>1, <3>2
  <2>8. Chain(todo', After(m), Limit')
    BY <1>1, <1>2, <2>4
  <2> QED BY <2>5, <2>6, <2>7, <2>8
<1>8. MultiInv'
  <2> SUFFICES ASSUME pc = "multi" PROVE MultiInv'
    BY <1>2 DEF MultiInv
  <2>1. lost = 0 => ret'.spans # <<>>
    <3>1. lost = 0 => ret.spans # <<>> \/ m.len > 0
      BY <1>1 DEF IInv, MultiInv
    <3>2. m.len > 0 => ret'.spans = Append(ret.spans, m)
      BY <1>3, <1>5
    <3>3. m.len = 0 \/ ret'.spans = Append(ret.spans, m)
      BY <1>5
    <3>4. Append(ret.spans, m) # <<>>
      BY <1>4
    <3> HIDE DEF m
    <3> QED BY <1>5, <3>1, <3>2, <3>3, <3>4
  <2> QED BY <1>1, <1>2, <2>1 DEF IInv, MultiInv
<1>9. PrintInv'
  <2>1. CASE pc \in {"scan", "multi"}
    BY <1>1, <1>2, <2>1 DEF IInv, PrintInv
  <2>2. CASE pc \in {"print", "printed"}
    <3>1. PICK q \in Seq(MarkSet) : ToPrint(q)
      BY <2>2 DEF IInv, PrintInv
    <3>2. todo = <<EndMark>> /\ ret.spans = q
      BY <1>1, <3>1 DEF ToPrint
    <3>3. todo' = <<>> /\ ret'.spans = Append(q, EndMark)
      BY <1>1, <1>5, <3>2, EndMarkFields
    <3>4. ToPrint(q)'
      BY <1>2, <3>1, <3>3 DEF ToPrint
    <3> QED BY <1>1, <1>2, <2>2, <3>1, <3>4 DEF IInv, PrintInv
  <2> QED BY <1>3, <2>1, <2>2
<1> QED BY <1>2, <1>6, <1>7, <1>8, <1>9 DEF IInv

LEMMA AppendFailsKeeps == ASSUME IInv, AppendFails PROVE IInv'
<1>1. /\ todo # <<>> /\ ret' = NoArray /\ lost' = lost + 1 /\ todo' = Tail(todo)
      /\ UNCHANGED <<text, pc, frame, mv, printing>>
  BY DEF AppendFails
<1>2. /\ FrameType' /\ FrameInv' /\ N' = N /\ Limit' = Limit /\ ScanLimit' = ScanLimit
      /\ text' \in Seq(Nat) /\ pc' = pc /\ mv' = mv /\ last' = last /\ out' = out
  BY <1>1, AppendFrame
<1>3. /\ todo \in Seq(MarkSet) /\ Tail(todo) \in Seq(MarkSet)
      /\ pc \in {"scan", "multi", "print", "printed"}
  BY <1>1, TodoHead
<1>4. /\ ret'.spans = <<>> /\ ret'.capacity = 0 /\ ret'.spans \in Seq(MarkSet)
      /\ ret' = [spans |-> ret'.spans, capacity |-> ret'.capacity]
  BY <1>1 DEF NoArray
<1>5. lost' \in Nat /\ lost' > 0
  BY <1>1, Typed
<1>6. Type'
  <2>1. todo' \in Seq(MarkSet) /\ ret'.capacity \in Nat /\ last' \in Nat
    BY <1>1, <1>2, <1>3, <1>4, Typed
  <2>2. Type
    BY DEF IInv
  <2> QED BY ONLY <1>2, <1>4, <1>5, <2>1, <2>2 DEF Type
<1>7. SpansInv'
  <2> SUFFICES ASSUME pc \in {"scan", "multi"}
               PROVE  /\ Kept(ret'.spans)
                      /\ \E b \in Nat : Chain(ret'.spans, 0, b) /\ Chain(todo', b, Limit')
    BY <1>2 DEF SpansInv
  <2>1. PICK b \in Nat : Chain(ret.spans, 0, b) /\ Chain(todo, b, Limit)
    BY DEF IInv, SpansInv
  <2>2. Limit \in Nat
    BY LimitsAreNumbers
  <2>3. /\ Head(todo).len >= 0 /\ b <= Head(todo).start
        /\ Chain(Tail(todo), After(Head(todo)), Limit)
    BY <1>1, <1>3, <2>1, <2>2, ChainTail
  <2>4. After(Head(todo)) \in Nat
    BY <1>1, <2>3, TodoHead DEF After
  <2>5. Kept(<<>>) /\ Chain(<<>>, 0, After(Head(todo)))
    BY <2>4, ChainEmpty DEF Kept
  <2> QED BY <1>1, <1>2, <1>4, <2>3, <2>4, <2>5
<1>8. MultiInv'
  BY <1>2, <1>5 DEF IInv, MultiInv
<1>9. PrintInv'
  <2>1. CASE pc \in {"scan", "multi"}
    BY <1>1, <1>2, <2>1 DEF IInv, PrintInv
  <2>2. CASE pc \in {"print", "printed"}
    <3>1. PICK q \in Seq(MarkSet) : ToPrint(q)
      BY <2>2 DEF IInv, PrintInv
    <3>2. todo = <<EndMark>>
      BY <1>1, <3>1 DEF ToPrint
    <3>3. todo' = <<>>
      BY <1>1, <3>2, EndMarkFields
    <3>4. ToPrint(q)'
      BY <1>2, <1>4, <1>5, <3>1, <3>3 DEF ToPrint
    <3> QED BY <1>1, <1>2, <2>2, <3>1, <3>4 DEF IInv, PrintInv
  <2> QED BY <1>3, <2>1, <2>2
<1> QED BY <1>2, <1>6, <1>7, <1>8, <1>9 DEF IInv

-----------------------------------------------------------------------------
(* highlight_multivalue.                                                   *)

LEMMA MultiFacts ==
    ASSUME IInv, InMulti
    PROVE  /\ pc = "multi" /\ todo = <<>> /\ last = 0 /\ out = SubSeq(text, 1, 0)
           /\ mv.s \in SpanSet /\ mv.s.s \in Nat /\ mv.s.len \in Nat
           /\ mv.current_span \in SpanSet
           /\ mv.current_span.s \in Nat /\ mv.current_span.len \in Nat
           /\ mv.i \in Nat /\ mv.i <= mv.s.len /\ mv.len_at_last_space \in Nat
           /\ mv.current_span.s + mv.current_span.len = mv.s.s + mv.i
           /\ mv.len_at_last_space <= mv.current_span.len
           /\ mv.s.s + mv.s.len <= ScanLimit /\ ScanLimit \in Nat
           /\ lost = 0 => ret.spans # <<>>
           /\ ret.spans \in Seq(MarkSet)
           /\ Chain(ret.spans, 0, mv.current_span.s) /\ Kept(ret.spans)
<1>1. pc = "multi" /\ todo = <<>>
  BY DEF InMulti
<1>2. /\ mv.s \in SpanSet /\ mv.current_span \in SpanSet /\ mv.i \in Nat
      /\ mv.len_at_last_space \in Nat /\ current_span \in SpanSet
      /\ equals_location \in Nat /\ N \in Nat /\ ret.spans \in Seq(MarkSet)
  BY Typed DEF FrameType
<1>3. /\ mv.s.s \in Nat /\ mv.s.len \in Nat /\ mv.current_span.s \in Nat
      /\ mv.current_span.len \in Nat /\ current_span.s \in Nat
  BY <1>2, SpanFields
<1>4. ScanLimit \in Nat
  BY LimitsAreNumbers
<1>5. /\ mv.i <= mv.s.len
      /\ mv.current_span.s + mv.current_span.len = mv.s.s + mv.i
      /\ mv.len_at_last_space <= mv.current_span.len
      /\ mv.s.s + mv.s.len <= ScanLimit
      /\ lost = 0 => ret.spans # <<>>
  BY <1>1 DEF IInv, MultiInv
<1>6. Kept(ret.spans) /\ Chain(ret.spans, 0, mv.current_span.s)
  <2>1. Limit = mv.current_span.s
    BY <1>1 DEF Limit
  <2>2. Kept(ret.spans)
    BY <1>1 DEF IInv, SpansInv
  <2>3. PICK b \in Nat : Chain(ret.spans, 0, b) /\ Chain(<<>>, b, mv.current_span.s)
    BY <1>1, <2>1 DEF IInv, SpansInv
  <2>4. b <= mv.current_span.s
    BY <2>3 DEF Chain
  <2>5. Chain(ret.spans, 0, mv.current_span.s)
    BY ONLY <1>2, <1>3, <2>3, <2>4, 0 \in Nat, 0 <= 0, ChainWiden
  <2> QED BY <2>2, <2>5
<1>7. last = 0 /\ out = SubSeq(text, 1, 0)
  BY <1>1 DEF IInv, PrintInv
<1> QED BY <1>1, <1>2, <1>3, <1>4, <1>5, <1>6, <1>7

\* A step of highlight_multivalue that stays in it.
LEMMA MultiKeeps ==
    ASSUME IInv, InMulti, UNCHANGED <<text, pc, frame, ret, lost, printing>>,
           mv' = [s |-> mv.s, i |-> mv'.i, current_span |-> mv'.current_span,
                  len_at_last_space |-> mv'.len_at_last_space, section |-> mv.section],
           mv'.i = mv.i + 1, mv.i < mv.s.len, mv'.current_span \in SpanSet,
           mv'.len_at_last_space \in Nat,
           mv'.current_span.s + mv'.current_span.len = mv.s.s + mv.i + 1,
           mv'.len_at_last_space <= mv'.current_span.len,
           todo' \in Seq(MarkSet), Chain(todo', mv.current_span.s, mv'.current_span.s)
    PROVE  IInv'
<1>1. /\ pc = "multi" /\ todo = <<>> /\ last = 0
      /\ mv.s \in SpanSet /\ mv.s.s \in Nat /\ mv.s.len \in Nat /\ mv.i \in Nat
      /\ mv.current_span.s \in Nat
      /\ mv.s.s + mv.s.len <= ScanLimit /\ ScanLimit \in Nat
      /\ lost = 0 => ret.spans # <<>>
      /\ Chain(ret.spans, 0, mv.current_span.s) /\ Kept(ret.spans)
  BY MultiFacts
<1>2. /\ UNCHANGED <<i, current_span, state, len_at_last_space, equals_location>>
      /\ N' = N /\ last' = last /\ out' = out /\ pc' = "multi" /\ ret' = ret /\ lost' = lost
      /\ text' = text
  BY <1>1 DEF frame, printing, N
<1>3. FrameType' /\ FrameInv'
  BY <1>2 DEF IInv, Type, FrameType, FrameInv
<1>4. ScanLimit' = ScanLimit
  BY <1>2 DEF ScanLimit
<1>5. mv'.s = mv.s /\ mv'.section = mv.section
  OBVIOUS
<1>6. mv' = [s |-> mv'.s, i |-> mv'.i, current_span |-> mv'.current_span,
             len_at_last_space |-> mv'.len_at_last_space, section |-> mv'.section]
  BY <1>5
<1>7. Type'
  <2>1. mv'.i \in Nat
    BY <1>1
  <2> QED BY <1>1, <1>2, <1>3, <1>5, <1>6, <2>1 DEF IInv, Type
<1>8. MultiInv'
  <2>1. mv'.i <= mv'.s.len /\ mv'.s.s + mv'.i = mv.s.s + mv.i + 1
    <3>1. mv'.s.s = mv.s.s /\ mv'.s.len = mv.s.len
      BY ONLY <1>5
    <3>2. mv.s.s \in Nat /\ mv.s.len \in Nat /\ mv.i \in Nat
      BY ONLY <1>1
    <3> QED BY ONLY <3>1, <3>2, mv'.i = mv.i + 1, mv.i < mv.s.len
  <2> QED BY <1>1, <1>2, <1>4, <1>5, <2>1 DEF MultiInv
<1>9. SpansInv'
  <2>1. Limit' = mv'.current_span.s
    BY <1>2 DEF Limit
  <2> QED BY <1>1, <1>2, <2>1 DEF SpansInv
<1>10. PrintInv'
  BY <1>1, <1>2 DEF IInv, PrintInv
<1> QED BY <1>3, <1>7, <1>8, <1>9, <1>10 DEF IInv

\* The item up to its last character that is no blank.
LEMMA ItemPart ==
    ASSUME IInv, ItemsInside, InMulti
    PROVE  LET s == Trimmed(mv.current_span, mv.len_at_last_space)
               v == highlight_multivalue_value(text, s, mv.section)
           IN v \in Seq(MarkSet) /\ Chain(v, mv.current_span.s, mv.s.s + mv.i)
<1> DEFINE s == Trimmed(mv.current_span, mv.len_at_last_space)
           v == highlight_multivalue_value(text, s, mv.section)
<1>1. /\ mv.current_span \in SpanSet /\ mv.current_span.s \in Nat
      /\ mv.current_span.len \in Nat /\ mv.len_at_last_space \in Nat
      /\ mv.len_at_last_space <= mv.current_span.len /\ mv.s.s \in Nat /\ mv.i \in Nat
      /\ mv.current_span.s + mv.current_span.len = mv.s.s + mv.i
  BY MultiFacts
<1>2. s \in SpanSet /\ s.s = mv.current_span.s /\ s.len = mv.len_at_last_space
  BY <1>1, TrimmedSpan, Zenon
<1> HIDE DEF s
<1>3. v \in Seq(MarkSet) /\ Chain(v, s.s, s.s + s.len)
  BY <1>2 DEF ItemsInside, Inside
<1> HIDE DEF v
<1> DEFINE b == s.s + s.len
           c == mv.s.s + mv.i
<1>4. s.s \in Nat /\ b \in Nat /\ c \in Nat /\ b <= c /\ s.s <= s.s
  BY <1>1, <1>2
<1> HIDE DEF b, c
<1>5. v \in Seq(MarkSet) /\ Chain(v, s.s, b)
  BY <1>3 DEF b
<1>6. Chain(v, s.s, c)
  BY ONLY <1>4, <1>5, ChainWiden
<1> QED BY <1>2, <1>3, <1>6, Zenon DEF s, v, c

LEMMA MvFields ==
    ASSUME IInv
    PROVE  mv = [s |-> mv.s, i |-> mv.i, current_span |-> mv.current_span,
                 len_at_last_space |-> mv.len_at_last_space, section |-> mv.section]
  BY DEF IInv, Type

LEMMA MultiCommaKeeps == ASSUME IInv, ItemsInside, MultiComma PROVE IInv'
<1> DEFINE v == highlight_multivalue_value(text,
                  Trimmed(mv.current_span, mv.len_at_last_space), mv.section)
           e == Sub(mv.s, mv.i, 1)
           d == Mark("Delimiter", e)
           n == Sub(mv.s, mv.i + 1, 0)
<1>1. /\ InMulti /\ mv.i < mv.s.len /\ todo' = Append(v, d)
      /\ mv' = [mv EXCEPT !.i = @ + 1, !.len_at_last_space = 0, !.current_span = n]
      /\ UNCHANGED <<text, pc, frame, ret, lost, printing>>
  BY DEF MultiComma
<1>2. /\ mv.s \in SpanSet /\ mv.s.s \in Nat /\ mv.i \in Nat /\ mv.current_span.s \in Nat
  BY <1>1, MultiFacts
<1>3. v \in Seq(MarkSet) /\ Chain(v, mv.current_span.s, mv.s.s + mv.i)
  BY <1>1, ItemPart
<1>4. e \in SpanSet /\ e.s = mv.s.s + mv.i /\ e.len = 1
  <2>1. 1 \in Nat
    OBVIOUS
  <2> QED BY ONLY <1>2, <2>1, SubFields, Zenon
<1>5. n \in SpanSet /\ n.s = mv.s.s + (mv.i + 1) /\ n.len = 0
  <2> DEFINE a == mv.s.s + (mv.i + 1)
  <2>1. a \in Nat
    BY <1>2
  <2>2. n = Span(a, 0)
    BY DEF Sub
  <2> HIDE DEF a, n
  <2>3. n \in SpanSet /\ n.s = a /\ n.len = 0
    BY <2>1, <2>2 DEF Span, SpanSet
  <2> QED BY <2>3 DEF a
<1> HIDE DEF v, e, n
<1>6. /\ d \in MarkSet /\ d.type = "Delimiter" /\ d.start = mv.s.s + mv.i /\ d.len = 1
  BY <1>4, MarkType, PlainTypes
<1> HIDE DEF d
<1>7. /\ mv'.i = mv.i + 1 /\ mv'.len_at_last_space = 0 /\ mv'.current_span = n
      /\ mv' = [s |-> mv.s, i |-> mv'.i, current_span |-> mv'.current_span,
                len_at_last_space |-> mv'.len_at_last_space, section |-> mv.section]
  BY <1>1, MvFields, Zenon
<1>8. todo' \in Seq(MarkSet) /\ Chain(todo', mv.current_span.s, mv'.current_span.s)
  <2>1. /\ d.type # "End" /\ d.len >= 0 /\ mv.s.s + mv.i <= d.start /\ After(d) <= n.s
        /\ mv.s.s + mv.i \in Nat /\ n.s \in Nat
    BY <1>2, <1>5, <1>6 DEF After
  <2>2. Append(v, d) \in Seq(MarkSet) /\ Chain(Append(v, d), mv.current_span.s, n.s)
    BY <1>2, <1>3, <1>6, <2>1, ChainAppend
  <2> QED BY <1>1, <1>7, <2>2
<1>9. /\ mv'.current_span \in SpanSet /\ mv'.len_at_last_space \in Nat
      /\ mv'.current_span.s + mv'.current_span.len = mv.s.s + mv.i + 1
      /\ mv'.len_at_last_space <= mv'.current_span.len
  BY <1>2, <1>5, <1>7
<1> QED BY <1>1, <1>7, <1>8, <1>9, MultiKeeps

\* The branches of highlight_multivalue that hand over nothing.
LEMMA MultiQuiet ==
    ASSUME NEW a \in Nat, NEW b \in Nat, a <= b, todo = <<>>, UNCHANGED todo
    PROVE  todo' \in Seq(MarkSet) /\ Chain(todo', a, b)
  BY ChainEmpty

LEMMA MultiBlankKeeps == ASSUME IInv, MultiBlank PROVE IInv'
<1> DEFINE p == PastBlank(mv.current_span, mv.s.s + mv.i)
<1>1. /\ InMulti /\ mv.i < mv.s.len
      /\ mv' = [mv EXCEPT !.i = @ + 1, !.current_span = p]
      /\ UNCHANGED <<text, pc, frame, todo, ret, lost, printing>>
  BY DEF MultiBlank
<1>2. /\ mv.s \in SpanSet /\ mv.s.s \in Nat /\ mv.i \in Nat /\ todo = <<>>
      /\ mv.current_span \in SpanSet
      /\ mv.current_span.s \in Nat /\ mv.current_span.len \in Nat
      /\ mv.current_span.s + mv.current_span.len = mv.s.s + mv.i
      /\ mv.len_at_last_space \in Nat /\ mv.len_at_last_space <= mv.current_span.len
  BY <1>1, MultiFacts
<1>3. /\ p \in SpanSet /\ p.s + p.len = mv.s.s + mv.i + 1 /\ p.s >= mv.current_span.s
      /\ mv.current_span.len = 0 => p.len = 0
      /\ mv.current_span.len # 0 => p.len = mv.current_span.len + 1
  <2> DEFINE k == mv.s.s + mv.i
             s == mv.current_span
  <2>1. k \in Nat /\ s \in SpanSet /\ s.s + s.len = k
    BY <1>2
  <2> HIDE DEF k, s
  <2>2. /\ PastBlank(s, k) \in SpanSet
        /\ PastBlank(s, k).s + PastBlank(s, k).len = k + 1
        /\ PastBlank(s, k).s >= s.s
        /\ s.len = 0 => PastBlank(s, k).len = 0
        /\ s.len # 0 => PastBlank(s, k).len = s.len + 1
    BY ONLY <2>1, PastBlankSpan
  <2> QED BY <2>2 DEF k, s
<1> HIDE DEF p
<1>4. p.s \in Nat /\ p.len \in Nat
  BY <1>3, SpanFields
<1>5. /\ mv'.i = mv.i + 1 /\ mv'.len_at_last_space = mv.len_at_last_space
      /\ mv'.current_span = p
      /\ mv' = [s |-> mv.s, i |-> mv'.i, current_span |-> mv'.current_span,
                len_at_last_space |-> mv'.len_at_last_space, section |-> mv.section]
  BY <1>1, MvFields, Zenon
<1>6. mv.len_at_last_space <= p.len
  <2>1. mv.current_span.len <= p.len
    BY ONLY <1>2, <1>3
  <2> QED BY ONLY <1>2, <1>4, <2>1
<1>7. todo' \in Seq(MarkSet) /\ Chain(todo', mv.current_span.s, mv'.current_span.s)
  <2>1. mv.current_span.s <= p.s
    BY <1>2, <1>3, <1>4
  <2> QED BY <1>1, <1>2, <1>4, <1>5, <2>1, MultiQuiet
<1> QED BY <1>1, <1>2, <1>3, <1>5, <1>6, <1>7, MultiKeeps

LEMMA MultiOtherKeeps == ASSUME IInv, MultiOther PROVE IInv'
<1> DEFINE p == [mv.current_span EXCEPT !.len = @ + 1]
<1>1. /\ InMulti /\ mv.i < mv.s.len
      /\ mv' = [mv EXCEPT !.i = @ + 1, !.current_span.len = @ + 1,
                          !.len_at_last_space = mv.current_span.len + 1]
      /\ UNCHANGED <<text, pc, frame, todo, ret, lost, printing>>
  BY DEF MultiOther
<1>2. /\ mv.s \in SpanSet /\ mv.s.s \in Nat /\ mv.i \in Nat /\ todo = <<>>
      /\ mv.current_span \in SpanSet
      /\ mv.current_span.s \in Nat /\ mv.current_span.len \in Nat
      /\ mv.current_span.s + mv.current_span.len = mv.s.s + mv.i
  BY <1>1, MultiFacts
<1>3. p \in SpanSet /\ p.s = mv.current_span.s /\ p.len = mv.current_span.len + 1
  BY <1>2, GrownSpan
<1>4. mv' = [s |-> mv.s, i |-> mv.i + 1, current_span |-> p,
             len_at_last_space |-> mv.current_span.len + 1, section |-> mv.section]
  BY <1>1, MvFields, Zenon
<1> HIDE DEF p
<1>5. /\ mv'.i = mv.i + 1 /\ mv'.len_at_last_space = mv.current_span.len + 1
      /\ mv'.current_span = p
      /\ mv' = [s |-> mv.s, i |-> mv'.i, current_span |-> mv'.current_span,
                len_at_last_space |-> mv'.len_at_last_space, section |-> mv.section]
  BY <1>4
<1>6. /\ mv'.len_at_last_space <= mv'.current_span.len /\ mv'.len_at_last_space \in Nat
      /\ mv'.current_span.s + mv'.current_span.len = mv.s.s + mv.i + 1
      /\ mv'.current_span \in SpanSet
  <2> DEFINE a == mv.current_span.s
             l == mv.current_span.len
             top == mv.s.s + mv.i
  <2>1. a \in Nat /\ l \in Nat /\ top \in Nat /\ a + l = top
    BY ONLY <1>2
  <2>2. /\ mv'.current_span.s = a /\ mv'.current_span.len = l + 1
        /\ mv'.len_at_last_space = l + 1 /\ mv'.current_span \in SpanSet
    BY ONLY <1>3, <1>5
  <2> HIDE DEF a, l, top
  <2>3. a + (l + 1) = top + 1 /\ l + 1 \in Nat /\ l + 1 <= l + 1
    BY ONLY <2>1
  <2>4. mv'.current_span.s + mv'.current_span.len = top + 1
    BY ONLY <2>2, <2>3
  <2> QED BY ONLY <2>2, <2>3, <2>4 DEF top
<1>7. todo' \in Seq(MarkSet) /\ Chain(todo', mv.current_span.s, mv'.current_span.s)
  <2>1. mv.current_span.s <= mv.current_span.s
    BY <1>2
  <2> QED BY <1>1, <1>2, <1>3, <1>5, <2>1, MultiQuiet
<1> QED BY <1>1, <1>5, <1>6, <1>7, MultiKeeps

\* highlight_multivalue returns.
LEMMA ReturnKeeps ==
    ASSUME IInv, InMulti, pc' = "scan", UNCHANGED <<text, frame, mv, lost, printing>>,
           todo' \in Seq(MarkSet), ret'.spans \in Seq(MarkSet), ret'.capacity \in Nat,
           ret' = [spans |-> ret'.spans, capacity |-> ret'.capacity],
           Kept(ret'.spans), Chain(ret'.spans, 0, mv.current_span.s),
           Chain(todo', mv.current_span.s, ScanLimit)
    PROVE  IInv'
<1>1. pc = "multi" /\ last = 0 /\ mv.current_span.s \in Nat
  BY MultiFacts
<1>2. /\ UNCHANGED <<i, current_span, state, len_at_last_space, equals_location>>
      /\ N' = N /\ last' = last /\ out' = out
  BY DEF frame, printing, N
<1>3. FrameType' /\ FrameInv'
  BY <1>2 DEF IInv, Type, FrameType, FrameInv
<1>4. Limit' = ScanLimit
  BY <1>2 DEF Limit, ScanLimit
<1>5. Type'
  BY <1>2, <1>3 DEF IInv, Type
<1>6. MultiInv'
  BY DEF MultiInv
<1>7. SpansInv'
  BY <1>1, <1>4 DEF SpansInv
<1>8. PrintInv'
  BY <1>1, <1>2 DEF IInv, PrintInv
<1> QED BY <1>3, <1>5, <1>6, <1>7, <1>8 DEF IInv

LEMMA MultiEndKeeps == ASSUME IInv, ItemsInside, MultiEnd PROVE IInv'
<1> DEFINE v == highlight_multivalue_value(text,
                  Trimmed(mv.current_span, mv.len_at_last_space), mv.section)
<1>1. /\ InMulti /\ mv.i = mv.s.len /\ todo' = v /\ pc' = "scan"
      /\ UNCHANGED <<text, frame, mv, ret, lost, printing>>
  BY Zenon DEF MultiEnd
<1>2. v \in Seq(MarkSet) /\ Chain(v, mv.current_span.s, mv.s.s + mv.i)
  BY <1>1, ItemPart
<1> HIDE DEF v
<1>3. /\ mv.s.s + mv.s.len <= ScanLimit /\ ScanLimit \in Nat /\ mv.s.s \in Nat
      /\ mv.i \in Nat /\ mv.current_span.s \in Nat
  BY <1>1, MultiFacts
<1>4. Chain(v, mv.current_span.s, ScanLimit)
  <2> DEFINE b == mv.s.s + mv.i
  <2>1. b \in Nat /\ b <= ScanLimit /\ mv.current_span.s <= mv.current_span.s
    BY <1>1, <1>3
  <2> HIDE DEF b
  <2>2. v \in Seq(MarkSet) /\ Chain(v, mv.current_span.s, b)
    BY <1>2 DEF b
  <2> QED BY ONLY <1>3, <2>1, <2>2, ChainWiden
<1>5. /\ ret.spans \in Seq(MarkSet) /\ ret.capacity \in Nat
      /\ ret = [spans |-> ret.spans, capacity |-> ret.capacity]
  BY DEF IInv, Type
<1>6. Kept(ret.spans) /\ Chain(ret.spans, 0, mv.current_span.s)
  BY <1>1, MultiFacts
<1> QED BY <1>1, <1>2, <1>4, <1>5, <1>6, ReturnKeeps

LEMMA MultiEndEmptyKeeps == ASSUME IInv, MultiEndEmpty PROVE IInv'
<1> DEFINE n == Len(ret.spans)
           p == [ret.spans EXCEPT ![n].type = "Error"]
<1>1. /\ InMulti /\ mv.i = mv.s.len /\ UNCHANGED <<text, frame, mv, todo, lost, printing>>
      /\ \/ n = 0 /\ pc' = "crash" /\ ret' = ret
         \/ n # 0 /\ pc' = "scan" /\ (ret' = ret \/ ret' = [ret EXCEPT !.spans[n].type = "Error"])
  BY DEF MultiEndEmpty
<1>2. /\ ret.spans \in Seq(MarkSet) /\ ret.capacity \in Nat
      /\ ret = [spans |-> ret.spans, capacity |-> ret.capacity]
  BY DEF IInv, Type
<1>3. /\ pc = "multi" /\ todo = <<>> /\ last = 0 /\ out = SubSeq(text, 1, 0)
      /\ mv.current_span.s \in Nat /\ ScanLimit \in Nat /\ mv.current_span.s <= ScanLimit
      /\ lost = 0 => ret.spans # <<>>
      /\ Chain(ret.spans, 0, mv.current_span.s) /\ Kept(ret.spans)
  BY <1>1, MultiFacts
<1>4. CASE n = 0 /\ pc' = "crash" /\ ret' = ret
  <2>1. ret.spans = <<>> /\ lost \in Nat
    BY <1>2, <1>4 DEF IInv, Type
  <2>2. lost > 0
    BY <1>3, <2>1
  <2>3. /\ UNCHANGED <<i, current_span, state, len_at_last_space, equals_location>>
        /\ N' = N /\ last' = last /\ out' = out
    BY <1>1 DEF frame, printing, N
  <2>4. Type'
    BY <1>1, <1>4, <2>3 DEF IInv, Type, FrameType
  <2>5. FrameInv' /\ MultiInv' /\ SpansInv'
    BY <1>4, <2>3 DEF IInv, FrameInv, MultiInv, SpansInv
  <2>6. PrintInv'
    BY <1>1, <1>3, <1>4, <2>1, <2>2, <2>3 DEF IInv, PrintInv
  <2> QED BY <2>4, <2>5, <2>6 DEF IInv
<1>5. CASE n # 0 /\ pc' = "scan" /\ (ret' = ret \/ ret' = [ret EXCEPT !.spans[n].type = "Error"])
  <2>1. /\ ret'.spans \in Seq(MarkSet) /\ Kept(ret'.spans)
        /\ Chain(ret'.spans, 0, mv.current_span.s)
        /\ ret'.capacity \in Nat /\ ret' = [spans |-> ret'.spans, capacity |-> ret'.capacity]
    <3>1. CASE ret' = ret
      BY <3>1, <1>2, <1>3
    <3>2. CASE ret' = [ret EXCEPT !.spans[n].type = "Error"]
      <4>1. ret' = [spans |-> p, capacity |-> ret.capacity]
        BY <1>2, <3>2
      <4>2. n \in 1..Len(ret.spans)
        BY <1>2, <1>5
      <4>3. p \in Seq(MarkSet) /\ Chain(p, 0, mv.current_span.s) /\ Kept(p)
        BY <1>2, <1>3, <4>2, Retyped
      <4> HIDE DEF p
      <4> QED BY <1>2, <4>1, <4>3
    <3> QED BY <1>5, <3>1, <3>2
  <2>2. todo' \in Seq(MarkSet) /\ Chain(todo', mv.current_span.s, ScanLimit)
    BY <1>1, <1>3, ChainEmpty
  <2> QED BY <1>1, <1>5, <2>1, <2>2, ReturnKeeps
<1> QED BY <1>1, <1>4, <1>5

-----------------------------------------------------------------------------
(* highlight.c.                                                            *)

\* What a step of main's loop leaves alone.
LEMMA PrintFrame ==
    ASSUME IInv, UNCHANGED <<text, frame, mv, todo, lost>>,
           pc' \in {"print", "printed", "crash"}, last' \in Nat,
           ret'.spans \in Seq(MarkSet), ret'.capacity \in Nat,
           ret' = [spans |-> ret'.spans, capacity |-> ret'.capacity], PrintInv'
    PROVE  IInv'
<1>1. /\ UNCHANGED <<i, current_span, state, len_at_last_space, equals_location>> /\ N' = N
  BY DEF frame, N
<1>2. Type'
  BY <1>1 DEF IInv, Type, FrameType
<1>3. FrameInv' /\ MultiInv' /\ SpansInv'
  BY <1>1 DEF IInv, FrameInv, MultiInv, SpansInv
<1> QED BY <1>2, <1>3 DEF IInv

LEMMA PrintFacts ==
    ASSUME IInv, pc = "print"
    PROVE  /\ text \in Seq(Nat) /\ N \in Nat /\ last \in Nat /\ last <= N
           /\ out = SubSeq(text, 1, last)
           /\ ret.spans \in Seq(MarkSet) /\ ret.capacity \in Nat
           /\ ret = [spans |-> ret.spans, capacity |-> ret.capacity]
           /\ \E q \in Seq(MarkSet) : ToPrint(q)
<1>1. PrintInv
  BY DEF IInv
<1> QED BY <1>1, Typed DEF PrintInv

LEMMA PrintSpanKeeps == ASSUME IInv, PrintSpan PROVE IInv'
<1> DEFINE m == Head(ret.spans)
<1>1. /\ pc = "print" /\ todo = <<>> /\ ret.spans # <<>> /\ m.type # "End"
      /\ out' = out \o SubSeq(text, last + 1, m.start)
                    \o SubSeq(text, m.start + 1, m.start + m.len)
      /\ last' = m.start + m.len
      /\ ret' = [ret EXCEPT !.spans = Tail(@)]
      /\ UNCHANGED <<text, pc, frame, mv, todo, lost>>
  BY Zenon DEF PrintSpan
<1>2. /\ text \in Seq(Nat) /\ N \in Nat /\ last \in Nat /\ last <= N
      /\ out = SubSeq(text, 1, last)
      /\ ret.spans \in Seq(MarkSet) /\ ret.capacity \in Nat
      /\ ret = [spans |-> ret.spans, capacity |-> ret.capacity]
      /\ \E q \in Seq(MarkSet) : ToPrint(q)
  BY <1>1, PrintFacts, Zenon
<1>3. PICK q \in Seq(MarkSet) : ToPrint(q)
  BY <1>2
<1>4. Chain(q, last, N) /\ Kept(q) /\ ret.spans = Append(q, EndMark)
  BY <1>1, <1>3, EndMarkFields, Zenon DEF ToPrint
<1>5. q # <<>> /\ m = Head(q) /\ Tail(ret.spans) = Append(Tail(q), EndMark)
  <2>1. EndMark \in MarkSet /\ EndMark.type = "End"
    BY ONLY EndMarkFields
  <2>2. q = <<>> => m = EndMark
    BY ONLY <1>4, <2>1, HeadOfAppend, q \in Seq(MarkSet)
  <2>3. q # <<>>
    BY ONLY <1>1, <2>1, <2>2, Zenon
  <2> QED BY ONLY <1>4, <2>1, <2>3, HeadOfAppend, q \in Seq(MarkSet)
<1>6. /\ m \in MarkSet /\ m.len >= 0 /\ last <= m.start /\ After(m) <= N
      /\ Tail(q) \in Seq(MarkSet) /\ Chain(Tail(q), After(m), N)
  BY <1>2, <1>4, <1>5, ChainTail
<1>7. Kept(Tail(q))
  BY <1>4, <1>5, KeptTail
<1> HIDE DEF m
<1>8. /\ m.start \in Nat /\ m.len \in Nat /\ last' \in Nat /\ m.start <= last' /\ last' <= N
      /\ last' = After(m)
  <2>1. m.start \in Nat /\ m.len \in Int
    BY ONLY <1>6 DEF MarkSet
  <2>2. last' = After(m)
    BY ONLY <1>1 DEF After
  <2> QED BY ONLY <1>6, <2>1, <2>2 DEF After
<1>9. /\ ret'.spans = Tail(ret.spans) /\ ret'.capacity = ret.capacity
      /\ ret' = [spans |-> ret'.spans, capacity |-> ret'.capacity]
  BY <1>1, <1>2
<1>10. ret'.spans = Append(Tail(q), EndMark) /\ ret'.spans \in Seq(MarkSet)
  <2>1. Append(Tail(q), EndMark) \in Seq(MarkSet)
    BY ONLY <1>6, EndMarkFields
  <2> QED BY ONLY <1>5, <1>9, <2>1, Zenon
<1>11. out' = SubSeq(text, 1, last')
  <2>1. SubSeq(text, 1, last) \o SubSeq(text, last + 1, m.start) = SubSeq(text, 1, m.start)
    <3>1. m.start <= Len(text)
      BY <1>2, <1>8 DEF N
    <3> QED BY <1>2, <1>6, <1>8, <3>1, TwoParts, Zenon
  <2>2. SubSeq(text, 1, m.start) \o SubSeq(text, m.start + 1, last') = SubSeq(text, 1, last')
    <3>1. last' <= Len(text)
      BY <1>8 DEF N
    <3> QED BY <1>2, <1>8, <3>1, TwoParts, Zenon
  <2> QED BY <1>1, <1>2, <2>1, <2>2, Zenon
<1>12. PrintInv'
  <2>1. N' = N /\ text' = text /\ pc' = "print" /\ todo' = <<>>
    BY <1>1 DEF N
  <2>2. PICK p \in Seq(MarkSet) : p = Tail(q)
    BY <1>6, Zenon
  <2>3. ToPrint(p)'
    BY <1>6, <1>7, <1>8, <1>10, <2>1, <2>2 DEF ToPrint
  <2> QED BY <1>8, <1>11, <2>1, <2>3 DEF PrintInv
<1> QED BY <1>1, <1>2, <1>8, <1>9, <1>10, <1>12, PrintFrame

LEMMA PrintRestKeeps == ASSUME IInv, PrintRest PROVE IInv'
<1>1. /\ pc = "print" /\ todo = <<>> /\ ret.spans # <<>> /\ Head(ret.spans).type = "End"
      /\ out' = out \o SubSeq(text, last + 1, N) /\ pc' = "printed"
      /\ UNCHANGED <<text, frame, mv, todo, ret, lost, last>>
  BY DEF PrintRest, N
<1>2. /\ text \in Seq(Nat) /\ N \in Nat /\ last \in Nat /\ last <= N
      /\ out = SubSeq(text, 1, last)
      /\ ret.spans \in Seq(MarkSet) /\ ret.capacity \in Nat
      /\ ret = [spans |-> ret.spans, capacity |-> ret.capacity]
      /\ \E q \in Seq(MarkSet) : ToPrint(q)
  BY <1>1, PrintFacts
<1>3. out' = text
  <2>1. N <= Len(text)
    BY <1>2 DEF N
  <2>2. SubSeq(text, 1, last) \o SubSeq(text, last + 1, N) = SubSeq(text, 1, N)
    BY <1>2, <2>1, TwoParts, Zenon
  <2>3. SubSeq(text, 1, N) = text
    BY <1>2, WholeText DEF N
  <2> QED BY <1>1, <1>2, <2>2, <2>3, Zenon
<1>4. PrintInv'
  <2>1. N' = N
    BY <1>1 DEF N
  <2>2. PICK q \in Seq(MarkSet) : ToPrint(q)
    BY <1>2
  <2>3. ToPrint(q)'
    BY <1>1, <2>1, <2>2 DEF ToPrint
  <2> QED BY <1>1, <1>2, <1>3, <2>1, <2>3, Zenon DEF PrintInv
<1> QED BY <1>1, <1>2, <1>4, PrintFrame

LEMMA PrintNullKeeps == ASSUME IInv, PrintNull PROVE IInv'
<1>1. /\ pc = "print" /\ todo = <<>> /\ ret.spans = <<>> /\ pc' = "crash"
      /\ UNCHANGED <<text, frame, mv, todo, ret, lost, printing>>
  BY DEF PrintNull
<1>2. /\ text \in Seq(Nat) /\ N \in Nat /\ last \in Nat /\ last <= N
      /\ out = SubSeq(text, 1, last)
      /\ ret.spans \in Seq(MarkSet) /\ ret.capacity \in Nat
      /\ ret = [spans |-> ret.spans, capacity |-> ret.capacity]
      /\ \E q \in Seq(MarkSet) : ToPrint(q)
  BY <1>1, PrintFacts
<1>3. lost > 0
  <2>1. PICK q \in Seq(MarkSet) : ToPrint(q)
    BY <1>2
  <2>2. Append(q, EndMark) # <<>>
    BY HeadOfAppend, EndMarkFields
  <2> QED BY <1>1, <2>1, <2>2, EndMarkFields DEF ToPrint
<1>4. PrintInv'
  BY <1>1, <1>2, <1>3 DEF PrintInv, printing, N
<1>5. last' \in Nat
  BY <1>1, <1>2 DEF printing
<1> QED BY <1>1, <1>2, <1>4, <1>5, PrintFrame, Zenon

-----------------------------------------------------------------------------
(* Every step, and what the invariant says.                                *)

LEMMA IInvStep == ASSUME IInv, ValuesInside, ItemsInside, [Next]_vars PROVE IInv'
<1>1. CASE UNCHANGED vars
  <2>1. /\ UNCHANGED <<text, pc, mv, todo, ret, lost, last, out>> /\ N' = N
        /\ UNCHANGED <<i, current_span, state, len_at_last_space, equals_location>>
    BY <1>1 DEF vars, frame, printing, N
  <2>2. ScanLimit' = ScanLimit /\ Limit' = Limit
    BY <2>1 DEF ScanLimit, Limit
  <2>3. Type' /\ FrameInv'
    BY <2>1 DEF IInv, Type, FrameType, FrameInv
  <2>4. MultiInv' /\ SpansInv'
    BY <2>1, <2>2, Zenon DEF IInv, MultiInv, SpansInv
  <2>5. PrintInv'
    BY <2>1, Zenon DEF IInv, PrintInv, ToPrint
  <2> QED BY <2>3, <2>4, <2>5 DEF IInv
<1>2. CASE AppendSpan
  BY <1>2, AppendSpanKeeps
<1>3. CASE AppendFails
  BY <1>3, AppendFailsKeeps
<1>4. CASE EndNone \/ EndKey \/ EndSection \/ EndComment \/ EndNoValue \/ EndValue
  BY <1>4, EndNoneKeeps, EndKeyKeeps, EndSectionKeeps, EndCommentKeeps, EndNoValueKeeps,
     EndValueKeeps
<1>5. CASE CommentChar \/ BlankChar \/ EqualsChar \/ OtherChar \/ End
  BY <1>5, CommentCharKeeps, BlankCharKeeps, EqualsCharKeeps, OtherCharKeeps, EndKeeps
<1>6. CASE MultiComma \/ MultiBlank \/ MultiOther \/ MultiEnd \/ MultiEndEmpty
  BY <1>6, MultiCommaKeeps, MultiBlankKeeps, MultiOtherKeeps, MultiEndKeeps, MultiEndEmptyKeeps
<1>7. CASE PrintSpan \/ PrintRest \/ PrintNull
  BY <1>7, PrintSpanKeeps, PrintRestKeeps, PrintNullKeeps
<1>8. CASE Done
  BY <1>1, <1>8 DEF Done
<1> QED BY <1>1, <1>2, <1>3, <1>4, <1>5, <1>6, <1>7, <1>8 DEF Next

LEMMA IInvPrints == IInv => PrintsText
  BY DEF IInv, PrintInv, PrintsText

LEMMA IInvCrash == IInv => CrashNeedsLoss
  BY DEF IInv, PrintInv, CrashNeedsLoss

LEMMA IInvInOrder == IInv => SpansInOrder
<1> SUFFICES ASSUME IInv, NEW n \in 1..Len(ret.spans), ret.spans[n].type # "End"
             PROVE  /\ ret.spans[n].len > 0
                    /\ ret.spans[n].start + ret.spans[n].len <= Len(text)
                    /\ n > 1 => ret.spans[n - 1].start + ret.spans[n - 1].len <= ret.spans[n].start
  BY DEF SpansInOrder
<1>1. ret.spans \in Seq(MarkSet) /\ N \in Nat
  BY Typed
<1>2. CASE pc \in {"scan", "multi"}
  <2>1. Kept(ret.spans)
    BY <1>2 DEF IInv, SpansInv
  <2>2. PICK b \in Nat : Chain(ret.spans, 0, b) /\ Chain(todo, b, Limit)
    BY <1>2 DEF IInv, SpansInv
  <2>3. Limit \in Nat /\ Limit <= N
    <3>1. mv.current_span \in SpanSet /\ mv.s \in SpanSet /\ current_span \in SpanSet
      BY Typed DEF FrameType
    <3>2. /\ mv.current_span.s \in Nat /\ mv.current_span.len \in Nat
          /\ mv.s.s \in Nat /\ mv.s.len \in Nat
          /\ current_span.s \in Nat /\ current_span.len \in Nat
      BY <3>1, SpanFields
    <3>3. i \in Nat /\ equals_location \in Nat /\ mv.i \in Nat
      BY Typed DEF FrameType
    <3>4. ScanLimit \in Nat /\ ScanLimit <= N
      <4>1. /\ i <= N => current_span.s + current_span.len = i
            /\ state = "OnValue" => equals_location < current_span.s
        BY DEF IInv, FrameInv
      <4>2. i <= N => current_span.s <= N
        BY ONLY <1>1, <3>2, <3>3, <4>1
      <4>3. i <= N /\ state = "OnValue" => equals_location <= N
        BY ONLY <1>1, <3>2, <3>3, <4>1, <4>2
      <4> QED BY ONLY <1>1, <3>2, <3>3, <4>2, <4>3 DEF ScanLimit
    <3>5. CASE pc = "multi"
      <4>1. /\ mv.i <= mv.s.len
            /\ mv.current_span.s + mv.current_span.len = mv.s.s + mv.i
            /\ mv.s.s + mv.s.len <= ScanLimit
        BY <3>5 DEF IInv, MultiInv
      <4>2. mv.current_span.s <= ScanLimit
        <5> DEFINE top == mv.s.s + mv.i
        <5>0. mv.i <= mv.s.len
          BY ONLY <4>1
        <5>1. top \in Nat /\ top <= mv.s.s + mv.s.len
          BY ONLY <3>2, <3>3, <5>0
        <5>2. mv.current_span.s + mv.current_span.len = top
          BY ONLY <4>1
        <5>3. mv.s.s + mv.s.len \in Nat /\ mv.s.s + mv.s.len <= ScanLimit
          BY ONLY <3>2, <4>1
        <5> HIDE DEF top
        <5>4. mv.current_span.s <= top
          BY ONLY <3>2, <5>1, <5>2
        <5> QED BY ONLY <3>2, <3>4, <5>1, <5>3, <5>4
      <4> QED BY <1>1, <3>2, <3>4, <3>5, <4>2 DEF Limit
    <3>6. CASE pc # "multi"
      BY <3>4, <3>6 DEF Limit
    <3> QED BY <3>5, <3>6
  <2>4. b <= N
    <3>1. b <= Limit
      BY ONLY <2>2 DEF Chain
    <3> QED BY ONLY <1>1, <2>3, <3>1, b \in Nat
  <2>5. Chain(ret.spans, 0, N)
    BY <1>1, <2>2, <2>4, ChainWiden
  <2> QED BY <1>1, <2>1, <2>5, InOrder, Zenon DEF N
<1>3. CASE pc \in {"print", "printed"}
  <2>1. PICK q \in Seq(MarkSet) : ToPrint(q)
    BY <1>3 DEF IInv, PrintInv
  <2>2. last \in Nat /\ Chain(q, last, N) /\ Kept(q)
    BY <2>1 DEF IInv, Type, ToPrint
  <2>3. ret.spans # <<>>
    BY <1>1
  <2>4. ret.spans = q \/ ret.spans = Append(q, EndMark)
    BY <2>1, <2>3 DEF ToPrint
  <2>5. n \in 1..Len(q) /\ ret.spans[n] = q[n]
    <3>1. CASE ret.spans = q
      BY <3>1
    <3>2. CASE ret.spans = Append(q, EndMark)
      BY <3>2, EndMarkFields
    <3> QED BY <2>4, <3>1, <3>2
  <2>6. n > 1 => ret.spans[n - 1] = q[n - 1]
    <3>1. CASE ret.spans = q
      BY <3>1
    <3>2. CASE ret.spans = Append(q, EndMark)
      BY <2>5, <3>2
    <3> QED BY <2>4, <3>1, <3>2
  <2> QED BY <1>1, <2>2, <2>5, <2>6, InOrder DEF N
<1>4. CASE pc = "crash"
  BY <1>4 DEF IInv, PrintInv
<1> QED BY <1>2, <1>3, <1>4 DEF IInv, Type

-----------------------------------------------------------------------------
(* The text form of a key.                                                 *)

\* A byte, six bits, and the low byte of a number.
Byte == 0..255
Six == 0..63
LowByte(v) == v % 256

\* The character of six bits, as encode_base64 computes it.
Letter(x) == x + 65 + Select(25 - x, 6) - Select(51 - x, 75)
               - Select(61 - x, 15) + Select(62 - x, 3)

\* The character of six bits, and the bits of a character, case by case.
LEMMA LetterCases ==
  ASSUME NEW x \in Six
  PROVE  Letter(x) = IF x < 26 THEN x + 65 ELSE IF x < 52 THEN x + 71
                     ELSE IF x < 62 THEN x - 4 ELSE IF x = 62 THEN 43 ELSE 47
  BY SMTT(30) DEF Letter, Select, Six

LEMMA SextetCases ==
  ASSUME NEW c \in Nat
  PROVE  Sextet(c) = IF c \in 65..90 THEN c - 65 ELSE IF c \in 97..122 THEN c - 71
                     ELSE IF c \in 48..57 THEN c + 4 ELSE IF c = 43 THEN 62
                     ELSE IF c = 47 THEN 63 ELSE -1
  BY SMTT(30) DEF Sextet

\* encode_base64 and decode_base64 agree on the alphabet: the characters that
\* have six bits are the ones their bits are written as.
LEMMA LetterSextet ==
  ASSUME NEW x \in Six
  PROVE  Letter(x) \in Nat /\ Sextet(Letter(x)) = x /\ Sextet(Letter(x)) \in Six
<1> DEFINE c == Letter(x)
<1>1. /\ x < 26 => c = x + 65
      /\ x >= 26 /\ x < 52 => c = x + 71
      /\ x >= 52 /\ x < 62 => c = x - 4
      /\ x = 62 => c = 43
      /\ x = 63 => c = 47
  BY LetterCases, SMTT(30) DEF Six
<1> HIDE DEF c
<1>2. c \in Nat
  BY <1>1, SMTT(30) DEF Six
<1>3. Sextet(c) = x
  BY <1>1, <1>2, SextetCases, SMTT(30) DEF Six
<1> QED BY <1>2, <1>3, Zenon DEF c

LEMMA SextetLetter ==
  ASSUME NEW c \in Nat
  PROVE  /\ Sextet(c) \in Six \/ Sextet(c) = -1
         /\ Sextet(c) \in Six => Letter(Sextet(c)) = c
<1> DEFINE x == Sextet(c)
<1>1. /\ c \in 65..90 => x = c - 65
      /\ c \in 97..122 => x = c - 71
      /\ c \in 48..57 => x = c + 4
      /\ c = 43 => x = 62
      /\ c = 47 => x = 63
      /\ c \in 65..90 \/ c \in 97..122 \/ c \in 48..57 \/ c = 43 \/ c = 47 \/ x = -1
  BY SextetCases, SMTT(30)
<1> HIDE DEF x
<1>2. x \in Six \/ x = -1
  BY <1>1, SMTT(30) DEF Six
<1>3. x \in Six => Letter(x) = c
  BY <1>1, LetterCases, SMTT(30) DEF Six
<1> QED BY <1>2, <1>3, Zenon DEF x

\* The number of whole groups of a key, and the lengths they give.
LEMMA Sizes ==
  Groups \in Nat /\ KeyBytes = 3 * Groups + 2 /\ B64Len = 4 * Groups + 4
  BY KeyBytesAssumption DEF Groups, B64Len

\* What encode_base64 shifts out of three bytes.
Parts(x, y, z) ==
  << x \div 4, (x * 16 + (y \div 16)) % 64, (y * 4 + (z \div 64)) % 64, z % 64 >>

\* What decode_base64 shifts together from four characters.
Joined(a, b, c, d) == a * 262144 + b * 4096 + c * 64 + d

\* Byte n of a decoded group.
ByteOf(v, n) == (v \div <<65536, 256, 1>>[n]) % 256

\* The number whose bytes are x, y and z.
OfBytes(x, y, z) == 65536 * x + 256 * y + z

\* wg_key_from_base64's shifts find the three bytes of a number.
LEMMA ThreeBytes ==
  ASSUME NEW x \in Byte, NEW y \in Byte, NEW z \in Byte
  PROVE  /\ ByteOf(OfBytes(x, y, z), 1) = x
         /\ ByteOf(OfBytes(x, y, z), 2) = y
         /\ ByteOf(OfBytes(x, y, z), 3) = z
         /\ OfBytes(x, y, z) \in Nat /\ LowByte(OfBytes(x, y, z)) = z
<1> DEFINE v == OfBytes(x, y, z)
<1>1. v = 65536 * x + 256 * y + z
  BY SMTT(30) DEF OfBytes
<1>4. v \in Nat
  BY SMTT(30) DEF OfBytes, Byte
<1> HIDE DEF v
<1>2. /\ (v \div 65536) % 256 = x /\ (v \div 256) % 256 = y /\ (v \div 1) % 256 = z
      /\ LowByte(v) = z
  BY <1>1, SMT DEF Byte, LowByte
<1>3. ByteOf(v, 1) = x /\ ByteOf(v, 2) = y /\ ByteOf(v, 3) = z
  BY <1>2, SMTT(30) DEF ByteOf
<1> QED
  <2>1. LowByte(v) = z
    BY <1>2, SMT
  <2> QED BY <2>1, <1>3, <1>4, Zenon DEF v

\* Six bits each, joined and cut into bytes, are found again in the bytes.
PartsBack(a, b, c, d, v) ==
  /\ \A n \in 1..3 : ByteOf(v, n) \in Byte
  /\ Parts(ByteOf(v, 1), ByteOf(v, 2), ByteOf(v, 3)) = <<a, b, c, d>>
  /\ v \in Nat /\ LowByte(v) = ByteOf(v, 3)
  /\ d = 0 => (LowByte(v) = 0 <=> c % 4 = 0)

LEMMA PartsOfBytes ==
  ASSUME NEW a \in Six, NEW b \in Six, NEW c \in Six, NEW d \in Six
  PROVE  PartsBack(a, b, c, d, Joined(a, b, c, d))
<1> DEFINE v == Joined(a, b, c, d)
<1>1. PICK b1 \in 0..3, b0 \in 0..15 : b = 16 * b1 + b0
  <2>1. b \div 16 \in 0..3 /\ b % 16 \in 0..15 /\ b = 16 * (b \div 16) + (b % 16)
    BY SMTT(30) DEF Byte, Six
  <2> QED BY <2>1, Zenon
<1>2. PICK c1 \in 0..15, c0 \in 0..3 : c = 4 * c1 + c0
  <2>1. c \div 4 \in 0..15 /\ c % 4 \in 0..3 /\ c = 4 * (c \div 4) + (c % 4)
    BY SMTT(30) DEF Byte, Six
  <2> QED BY <2>1, Zenon
<1>3. PICK x \in Byte : x = 4 * a + b1
  BY SMTT(30) DEF Byte, Six
<1>4. PICK y \in Byte : y = 16 * b0 + c1
  BY SMTT(30) DEF Byte, Six
<1>5. PICK z \in Byte : z = 64 * c0 + d
  BY SMTT(30) DEF Byte, Six
<1>6. v = OfBytes(x, y, z)
  BY <1>1, <1>2, <1>3, <1>4, <1>5, SMTT(30) DEF Joined, OfBytes, Byte, Six
<1> HIDE DEF v
<1>7. /\ ByteOf(v, 1) = x /\ ByteOf(v, 2) = y /\ ByteOf(v, 3) = z
      /\ v \in Nat /\ LowByte(v) = z
  BY <1>6, ThreeBytes, SMTT(30)
<1>8. /\ x \div 4 = a /\ (x * 16 + (y \div 16)) % 64 = b
      /\ (y * 4 + (z \div 64)) % 64 = c /\ z % 64 = d
  BY <1>1, <1>2, <1>3, <1>4, <1>5, SMT DEF Byte, Six
<1>9. Parts(x, y, z) = <<a, b, c, d>>
  BY <1>8, SMTT(30) DEF Parts, Byte, Six
<1>10. d = 0 => (z = 0 <=> c % 4 = 0)
  BY <1>2, <1>5, SMT DEF Byte, Six
<1>11. \A n \in 1..3 : ByteOf(v, n) \in Byte
  BY <1>7, SMT
<1>12. /\ Parts(ByteOf(v, 1), ByteOf(v, 2), ByteOf(v, 3)) = <<a, b, c, d>>
       /\ v \in Nat /\ LowByte(v) = ByteOf(v, 3)
       /\ d = 0 => (LowByte(v) = 0 <=> c % 4 = 0)
  BY <1>7, <1>9, <1>10, SMT
<1> QED BY <1>11, <1>12, Zenon DEF PartsBack, v

\* Three bytes, cut into parts of six bits and joined, are found again.
BytesBack(x, y, z, p, v) ==
  /\ p[1] \in Six /\ p[2] \in Six /\ p[3] \in Six /\ p[4] \in Six
  /\ v = Joined(p[1], p[2], p[3], p[4])
  /\ ByteOf(v, 1) = x /\ ByteOf(v, 2) = y /\ ByteOf(v, 3) = z
  /\ v \in Nat /\ LowByte(v) = z
  /\ z = 0 => p[4] = 0

LEMMA BytesOfParts ==
  ASSUME NEW x \in Byte, NEW y \in Byte, NEW z \in Byte
  PROVE  \E v : BytesBack(x, y, z, Parts(x, y, z), v)
<1>1. PICK a \in Six, b1 \in 0..3 : x = 4 * a + b1
  <2>1. x \div 4 \in Six /\ x % 4 \in 0..3 /\ x = 4 * (x \div 4) + (x % 4)
    BY SMTT(30) DEF Byte, Six
  <2> QED BY <2>1, Zenon
<1>2. PICK b0 \in 0..15, c1 \in 0..15 : y = 16 * b0 + c1
  <2>1. y \div 16 \in 0..15 /\ y % 16 \in 0..15 /\ y = 16 * (y \div 16) + (y % 16)
    BY SMTT(30) DEF Byte, Six
  <2> QED BY <2>1, Zenon
<1>3. PICK c0 \in 0..3, d \in Six : z = 64 * c0 + d
  <2>1. z \div 64 \in 0..3 /\ z % 64 \in Six /\ z = 64 * (z \div 64) + (z % 64)
    BY SMTT(30) DEF Byte, Six
  <2> QED BY <2>1, Zenon
<1>4. PICK b \in Six : b = 16 * b1 + b0
  BY SMTT(30) DEF Byte, Six
<1>5. PICK c \in Six : c = 4 * c1 + c0
  BY SMTT(30) DEF Byte, Six
<1>6. /\ x \div 4 = a /\ (x * 16 + (y \div 16)) % 64 = b
      /\ (y * 4 + (z \div 64)) % 64 = c /\ z % 64 = d
  BY <1>1, <1>2, <1>3, <1>4, <1>5, SMT DEF Byte, Six
<1> DEFINE p == Parts(x, y, z)
           v == Joined(p[1], p[2], p[3], p[4])
<1>7. p[1] = a /\ p[2] = b /\ p[3] = c /\ p[4] = d
  BY <1>6, SMTT(30) DEF Parts
<1> HIDE DEF p
<1>8. v = OfBytes(x, y, z)
  BY <1>1, <1>2, <1>3, <1>4, <1>5, <1>7, SMTT(30) DEF Joined, OfBytes, Byte, Six
<1> HIDE DEF v
<1>9. /\ ByteOf(v, 1) = x /\ ByteOf(v, 2) = y /\ ByteOf(v, 3) = z
      /\ v \in Nat /\ LowByte(v) = z
  BY <1>8, ThreeBytes, SMTT(30)
<1>10. z = 0 => d = 0
  BY <1>3, SMT DEF Six
<1> QED BY <1>7, <1>9, <1>10, Zenon DEF BytesBack, p, v

\* The four characters of group g as wg_key_from_base64 hands them to
\* decode_base64, and the number it gets back.
SrcAt(w, g) ==
  IF g < Groups THEN SubSeq(w, 4 * g + 1, 4 * g + 4)
  ELSE SubSeq(w, 4 * g + 1, 4 * g + 3) \o <<65>>
ValAt(w, g) == decode_base64(SrcAt(w, g))

\* The text of a key: the alphabet's characters up to one '=', the last of them
\* without bits that no byte of the key takes.
KeyText(w) ==
  /\ Len(w) = B64Len /\ w[B64Len] = 61
  /\ \A k \in 1..(B64Len - 1) : Sextet(w[k]) \in Six
  /\ Sextet(w[B64Len - 1]) % 4 = 0

LEMMA Concat ==
  ASSUME NEW T, NEW x \in Seq(T), NEW y \in Seq(T)
  PROVE  /\ \A k \in 1..Len(x) : (x \o y)[k] = x[k]
         /\ \A k \in 1..Len(y) : (x \o y)[Len(x) + k] = y[k]
<1>1. /\ Len(x) \in Nat /\ Len(y) \in Nat
      /\ x \o y \in Seq(T) /\ Len(x \o y) = Len(x) + Len(y)
  OBVIOUS
<1>2. \A k \in 1..Len(x) : (x \o y)[k] = x[k]
  BY <1>1
<1>3. ASSUME NEW k \in 1..Len(y) PROVE (x \o y)[Len(x) + k] = y[k]
  <2>1. Len(x) + k \in Len(x) + 1..Len(x) + Len(y) /\ (Len(x) + k) - Len(x) = k
    BY <1>1
  <2> QED BY <2>1, <1>1
<1> QED BY <1>2, <1>3

LEMMA SixNotNegative == \A x \in Six : ~(x < 0)
  BY DEF Six

\* Character n of group g; in the place of the '=' stands an 'A', six zero bits.
LEMMA SrcChars ==
  ASSUME NEW w \in Seq(Nat), Len(w) = B64Len, NEW g \in 0..Groups, NEW n \in 1..4
  PROVE  SrcAt(w, g)[n] = IF 4 * g + n = B64Len THEN 65 ELSE w[4 * g + n]
<1>1. CASE g < Groups
  BY <1>1, Sizes, SMT DEF SrcAt
<1>2. CASE g = Groups
  <2>1. SrcAt(w, g) = SubSeq(w, 4 * g + 1, 4 * g + 3) \o <<65>>
    BY <1>2, Sizes, SMT DEF SrcAt
  <2> DEFINE u == SubSeq(w, 4 * g + 1, 4 * g + 3)
             e == <<65>>
  <2>2. u \in Seq(Nat) /\ Len(u) = 3 /\ \A k \in 1..3 : u[k] = w[4 * g + k]
    BY <1>2, Sizes, SMT
  <2>3. e \in Seq(Nat) /\ Len(e) = 1 /\ e[1] = 65
    BY SMT
  <2> HIDE DEF u, e
  <2>4. SrcAt(w, g) = u \o e
    BY <2>1 DEF u, e
  <2>5. /\ SrcAt(w, g)[1] = u[1] /\ SrcAt(w, g)[2] = u[2] /\ SrcAt(w, g)[3] = u[3]
        /\ SrcAt(w, g)[4] = e[1]
    <3> DEFINE j == u \o e
    <3>1. u \in Seq(Nat) /\ e \in Seq(Nat)
      BY <2>2, <2>3
    <3>2. /\ \A k \in 1..Len(u) : j[k] = u[k]
          /\ \A k \in 1..Len(e) : j[Len(u) + k] = e[k]
      BY ONLY <3>1, Concat
    <3> HIDE DEF j
    <3>3. Len(u) = 3 /\ Len(e) = 1
      BY <2>2, <2>3
    <3>4. j[1] = u[1] /\ j[2] = u[2] /\ j[3] = u[3] /\ j[4] = e[1]
      BY ONLY <3>2, <3>3, SMT
    <3> QED BY <2>4, <3>4, Zenon DEF j
  <2> QED
    <3>1. n = 1 \/ n = 2 \/ n = 3 \/ n = 4
      BY SMT
    <3>2. \A k \in 1..3 : 4 * g + k # B64Len
      BY <1>2, Sizes, SMT
    <3>3. 4 * g + 4 = B64Len
      BY <1>2, Sizes, SMT
    <3>4. \A k \in 1..3 : SrcAt(w, g)[k] = w[4 * g + k]
      <4> SUFFICES ASSUME NEW k \in 1..3 PROVE SrcAt(w, g)[k] = w[4 * g + k]
        BY Zenon
      <4>1. k = 1 \/ k = 2 \/ k = 3
        BY SMT
      <4> QED BY <4>1, <2>2, <2>5, Zenon
    <3>5. SrcAt(w, g)[4] = 65
      BY <2>3, <2>5, Zenon
    <3> QED
      <4>1. n \in 1..3 \/ n = 4
        BY <3>1, SMT
      <4> QED BY <4>1, <3>2, <3>3, <3>4, <3>5, Zenon
<1> QED BY <1>1, <1>2, Sizes, SMT

\* What wg_key_from_base64 returns for a text of the right length and end.
LEMMA ReadShape ==
  ASSUME NEW w \in Seq(Nat), Len(w) = B64Len, w[B64Len] = 61
  PROVE  wg_key_from_base64(w) =
           [errno |-> IF (\E g \in 0..Groups : ValAt(w, g) < 0)
                          \/ ValAt(w, Groups) % 256 # 0 THEN "EINVAL" ELSE "0",
            key |-> [k \in 1..KeyBytes |->
                       ByteOf(ValAt(w, (k - 1) \div 3), ((k - 1) % 3) + 1)]]
<1> DEFINE val == [g \in 0..Groups |-> ValAt(w, g)]
           bytes == [k \in 1..KeyBytes |-> (val[(k - 1) \div 3]
                       \div <<65536, 256, 1>>[((k - 1) % 3) + 1]) % 256]
           bad == (\E g \in 0..Groups : val[g] < 0) \/ val[Groups] % 256 # 0
<1>1. wg_key_from_base64(w) = [errno |-> IF bad THEN "EINVAL" ELSE "0", key |-> bytes]
  BY SMTT(30) DEF wg_key_from_base64, ValAt, SrcAt
<1>2. bad <=> (\E g \in 0..Groups : ValAt(w, g) < 0) \/ ValAt(w, Groups) % 256 # 0
  BY Sizes, SMT
<1>3. \A k \in 1..KeyBytes : (k - 1) \div 3 \in 0..Groups
  BY Sizes, SMT
<1>4. bytes = [k \in 1..KeyBytes |->
                 ByteOf(ValAt(w, (k - 1) \div 3), ((k - 1) % 3) + 1)]
  BY <1>3, SMTT(30) DEF ByteOf
<1> HIDE DEF bad, bytes
<1> QED BY <1>1, <1>2, <1>4, Zenon

\* The number of a group of a key's text.
LEMMA ValOfText ==
  ASSUME NEW w \in Seq(Nat), KeyText(w), NEW g \in 0..Groups
  PROVE  \E a, b, c, d \in Six :
            /\ ValAt(w, g) = Joined(a, b, c, d)
            /\ Letter(a) = w[4 * g + 1] /\ Letter(b) = w[4 * g + 2]
            /\ Letter(c) = w[4 * g + 3]
            /\ g < Groups => Letter(d) = w[4 * g + 4]
            /\ g = Groups => d = 0 /\ c % 4 = 0
<1> DEFINE s == SrcAt(w, g)
<1>1. /\ 4 * g + 1 \in 1..(B64Len - 1) /\ 4 * g + 2 \in 1..(B64Len - 1)
      /\ 4 * g + 3 \in 1..(B64Len - 1)
      /\ 4 * g + 4 \in 1..B64Len /\ (4 * g + 4 = B64Len <=> g = Groups)
      /\ 4 * g + 1 # B64Len /\ 4 * g + 2 # B64Len /\ 4 * g + 3 # B64Len
      /\ g = Groups => 4 * g + 3 = B64Len - 1
      /\ g # Groups => 4 * g + 4 \in 1..(B64Len - 1)
  BY Sizes, SMT
<1>2. Len(w) = B64Len
  BY DEF KeyText
<1>3. /\ s[1] = w[4 * g + 1] /\ s[2] = w[4 * g + 2] /\ s[3] = w[4 * g + 3]
      /\ s[4] = IF g = Groups THEN 65 ELSE w[4 * g + 4]
  <2>1. \A n \in 1..4 : s[n] = IF 4 * g + n = B64Len THEN 65 ELSE w[4 * g + n]
    BY <1>2, SrcChars, Zenon
  <2> HIDE DEF s
  <2> QED BY <1>1, <2>1, SMT
<1>4. \A k \in 1..(B64Len - 1) : Sextet(w[k]) \in Six /\ Letter(Sextet(w[k])) = w[k]
  <2> TAKE k \in 1..(B64Len - 1)
  <2>1. w[k] \in Nat
    BY <1>2, Sizes, SMT
  <2>2. Sextet(w[k]) \in Six
    BY DEF KeyText
  <2> QED BY <2>1, <2>2, SextetLetter, SMTT(30)
<1>5. Sextet(65) = 0 /\ 0 \in Six
  BY SMTT(30) DEF Sextet, Six
<1> HIDE DEF s
<1>6. /\ Sextet(s[1]) \in Six /\ Letter(Sextet(s[1])) = w[4 * g + 1]
      /\ Sextet(s[2]) \in Six /\ Letter(Sextet(s[2])) = w[4 * g + 2]
      /\ Sextet(s[3]) \in Six /\ Letter(Sextet(s[3])) = w[4 * g + 3]
  BY <1>1, <1>3, <1>4, Zenon
<1>7. /\ Sextet(s[4]) \in Six
      /\ g # Groups => Letter(Sextet(s[4])) = w[4 * g + 4]
      /\ g = Groups => Sextet(s[4]) = 0
  BY <1>1, <1>3, <1>4, <1>5, SMT
<1>8. g = Groups => Sextet(s[3]) % 4 = 0
  BY <1>1, <1>3, Zenon DEF KeyText
<1>9. ValAt(w, g) = Joined(Sextet(s[1]), Sextet(s[2]), Sextet(s[3]), Sextet(s[4]))
  <2>1. \A k \in 1..4 : ~(Sextet(s[k]) < 0)
    <3> TAKE k \in 1..4
    <3>1. k = 1 \/ k = 2 \/ k = 3 \/ k = 4
      BY SMT
    <3>2. Sextet(s[k]) \in Six
      BY <3>1, <1>6, <1>7, Zenon
    <3> QED BY <3>2, SixNotNegative, Zenon
  <2>2. decode_base64(s) = Joined(Sextet(s[1]), Sextet(s[2]), Sextet(s[3]), Sextet(s[4]))
    BY <2>1, SMTT(30) DEF decode_base64, Joined
  <2> QED BY <2>2 DEF ValAt, s
<1>10. g < Groups => g # Groups
  BY Sizes, SMT
<1> QED BY <1>6, <1>7, <1>8, <1>9, <1>10, Zenon

\* The parts of six bits of group g of a key, as wg_key_to_base64 encodes it.
GroupParts(key, g) ==
  Parts(key[3 * g + 1], key[3 * g + 2], IF g < Groups THEN key[3 * g + 3] ELSE 0)

\* encode_base64 writes the letters of the parts.
LEMMA EncodeLetters ==
  ASSUME NEW src, NEW n \in 1..4
  PROVE  encode_base64(src)[n] = Letter(Parts(src[1], src[2], src[3])[n])
  BY Zenon DEF encode_base64, Parts, Letter

\* The bytes of a group.
LEMMA GroupBytes ==
  ASSUME NEW key \in [1..KeyBytes -> Byte], NEW g \in 0..Groups
  PROVE  /\ key[3 * g + 1] \in Byte /\ key[3 * g + 2] \in Byte
         /\ g < Groups => key[3 * g + 3] \in Byte
         /\ 0 \in Byte
         /\ (IF g < Groups THEN key[3 * g + 3] ELSE 0) \in Byte
<1>1. /\ 3 * g + 1 \in 1..KeyBytes /\ 3 * g + 2 \in 1..KeyBytes
      /\ g < Groups => 3 * g + 3 \in 1..KeyBytes
  BY Sizes, SMT
<1>2. 0 \in Byte
  BY SMT DEF Byte
<1> QED BY <1>1, <1>2, Zenon

\* wg_key_to_base64, group by group.
GroupOut(key, g) ==
  IF g < Groups THEN encode_base64(SubSeq(key, 3 * g + 1, 3 * g + 3))
  ELSE encode_base64(<<key[3 * g + 1], key[3 * g + 2], 0>>)

LEMMA GroupLetters ==
  ASSUME NEW key \in [1..KeyBytes -> Byte], NEW g \in 0..Groups, NEW n \in 1..4
  PROVE  GroupOut(key, g)[n] = Letter(GroupParts(key, g)[n])
<1>1. CASE g < Groups
  <2> DEFINE src == SubSeq(key, 3 * g + 1, 3 * g + 3)
  <2>1. key \in Seq(Byte) /\ Len(key) = KeyBytes
    BY Sizes, SMT
  <2>2. src[1] = key[3 * g + 1] /\ src[2] = key[3 * g + 2] /\ src[3] = key[3 * g + 3]
    BY <1>1, <2>1, Sizes, SMT
  <2> HIDE DEF src
  <2>3. encode_base64(src)[n] = Letter(Parts(src[1], src[2], src[3])[n])
    BY EncodeLetters, Zenon
  <2> QED BY <1>1, <2>2, <2>3, Zenon DEF GroupOut, GroupParts, src
<1>2. CASE ~(g < Groups)
  <2> DEFINE src == <<key[3 * g + 1], key[3 * g + 2], 0>>
  <2>1. src[1] = key[3 * g + 1] /\ src[2] = key[3 * g + 2] /\ src[3] = 0
    BY SMT
  <2> HIDE DEF src
  <2>2. encode_base64(src)[n] = Letter(Parts(src[1], src[2], src[3])[n])
    BY EncodeLetters, Zenon
  <2> QED BY <1>2, <2>1, <2>2, Zenon DEF GroupOut, GroupParts, src
<1> QED BY <1>1, <1>2, Zenon

\* What wg_key_to_base64 writes.
LEMMA WriteShape ==
  ASSUME NEW key \in [1..KeyBytes -> Byte]
  PROVE  /\ wg_key_to_base64(key) \in Seq(Nat)
         /\ Len(wg_key_to_base64(key)) = B64Len
         /\ wg_key_to_base64(key)[B64Len] = 61
         /\ \A g \in 0..Groups, n \in 1..4 : 4 * g + n < B64Len =>
              wg_key_to_base64(key)[4 * g + n] = Letter(GroupParts(key, g)[n])
<1> DEFINE w == wg_key_to_base64(key)
           char(k) == GroupOut(key, (k - 1) \div 4)[((k - 1) % 4) + 1]
<1>1. w = [k \in 1..B64Len |-> IF k = B64Len THEN 61 ELSE char(k)]
  BY Zenon DEF wg_key_to_base64, GroupOut
<1>2. \A g \in 0..Groups, n \in 1..4 : GroupParts(key, g)[n] \in Six
  <2> SUFFICES ASSUME NEW g \in 0..Groups, NEW n \in 1..4
               PROVE  GroupParts(key, g)[n] \in Six
    BY Zenon
  <2> DEFINE z == IF g < Groups THEN key[3 * g + 3] ELSE 0
  <2>1. key[3 * g + 1] \in Byte /\ key[3 * g + 2] \in Byte /\ z \in Byte
    BY GroupBytes, Zenon
  <2>2. GroupParts(key, g) = Parts(key[3 * g + 1], key[3 * g + 2], z)
    BY Zenon DEF GroupParts
  <2> HIDE DEF z
  <2>3. /\ GroupParts(key, g)[1] \in Six /\ GroupParts(key, g)[2] \in Six
        /\ GroupParts(key, g)[3] \in Six /\ GroupParts(key, g)[4] \in Six
    <3>1. PICK v : BytesBack(key[3 * g + 1], key[3 * g + 2], z,
                             Parts(key[3 * g + 1], key[3 * g + 2], z), v)
      BY <2>1, BytesOfParts, Zenon
    <3> QED BY <2>2, <3>1, Zenon DEF BytesBack
  <2>4. n = 1 \/ n = 2 \/ n = 3 \/ n = 4
    BY SMT
  <2> QED BY <2>3, <2>4, Zenon
<1>3. \A k \in 1..B64Len : (k - 1) \div 4 \in 0..Groups /\ ((k - 1) % 4) + 1 \in 1..4
  BY Sizes, SMT
<1>4. ASSUME NEW k \in 1..B64Len PROVE char(k) \in Nat
  <2>1. /\ (k - 1) \div 4 \in 0..Groups /\ ((k - 1) % 4) + 1 \in 1..4
    BY <1>3, Zenon
  <2>2. char(k) = Letter(GroupParts(key, (k - 1) \div 4)[((k - 1) % 4) + 1])
    BY <2>1, GroupLetters, Zenon
  <2> QED BY <2>1, <2>2, <1>2, LetterSextet, Zenon
<1>5. ASSUME NEW g \in 0..Groups, NEW n \in 1..4, 4 * g + n < B64Len
      PROVE  w[4 * g + n] = Letter(GroupParts(key, g)[n])
  <2>1. /\ 4 * g + n \in 1..B64Len /\ 4 * g + n # B64Len
        /\ (4 * g + n - 1) \div 4 = g /\ ((4 * g + n - 1) % 4) + 1 = n
    BY <1>5, Sizes, SMT
  <2>2. w[4 * g + n] = char(4 * g + n)
    BY <2>1, <1>1, Zenon
  <2>3. char(4 * g + n) = GroupOut(key, g)[n]
    BY <2>1, SMT
  <2> QED BY <2>2, <2>3, GroupLetters, Zenon
<1> HIDE DEF w, char
<1>6. w \in Seq(Nat) /\ Len(w) = B64Len /\ w[B64Len] = 61
  BY <1>1, <1>4, Sizes, SMT
<1> QED BY <1>5, <1>6, Zenon DEF w

\* A text that is one is read, and written again as it was.
LEMMA TextReads ==
  ASSUME NEW w \in Seq(Nat), KeyText(w)
  PROVE  /\ wg_key_from_base64(w).errno = "0"
         /\ wg_key_from_base64(w).key \in [1..KeyBytes -> Byte]
         /\ wg_key_to_base64(wg_key_from_base64(w).key) = w
<1> DEFINE key == [k \in 1..KeyBytes |->
                     ByteOf(ValAt(w, (k - 1) \div 3), ((k - 1) % 3) + 1)]
<1>1. ASSUME NEW g \in 0..Groups
      PROVE  /\ \A n \in 1..3 : ByteOf(ValAt(w, g), n) \in Byte
             /\ ~(ValAt(w, g) < 0)
             /\ g = Groups => ByteOf(ValAt(w, g), 3) = 0 /\ LowByte(ValAt(w, g)) = 0
             /\ \A n \in 1..4 : 4 * g + n < B64Len =>
                  Letter(Parts(ByteOf(ValAt(w, g), 1), ByteOf(ValAt(w, g), 2),
                               ByteOf(ValAt(w, g), 3))[n]) = w[4 * g + n]
  <2> DEFINE v == ValAt(w, g)
  <2>1. PICK a \in Six, b \in Six, c \in Six, d \in Six :
          /\ v = Joined(a, b, c, d)
          /\ Letter(a) = w[4 * g + 1] /\ Letter(b) = w[4 * g + 2]
          /\ Letter(c) = w[4 * g + 3]
          /\ g < Groups => Letter(d) = w[4 * g + 4]
          /\ g = Groups => d = 0 /\ c % 4 = 0
    BY ValOfText, Zenon
  <2> HIDE DEF v
  <2>2. /\ \A n \in 1..3 : ByteOf(v, n) \in Byte
        /\ Parts(ByteOf(v, 1), ByteOf(v, 2), ByteOf(v, 3)) = <<a, b, c, d>>
        /\ v \in Nat /\ LowByte(v) = ByteOf(v, 3)
        /\ d = 0 => (LowByte(v) = 0 <=> c % 4 = 0)
    <3>1. PartsBack(a, b, c, d, Joined(a, b, c, d))
      BY PartsOfBytes, Zenon
    <3> QED BY <2>1, <3>1, Zenon DEF PartsBack
  <2>3. ~(v < 0)
    BY <2>2, SMT
  <2>4. ASSUME NEW n \in 1..4, 4 * g + n < B64Len
        PROVE  Letter(<<a, b, c, d>>[n]) = w[4 * g + n]
    <3>1. n = 1 \/ n = 2 \/ n = 3 \/ (n = 4 /\ g < Groups)
      BY <2>4, Sizes, SMT
    <3>2. <<a, b, c, d>>[1] = a /\ <<a, b, c, d>>[2] = b
          /\ <<a, b, c, d>>[3] = c /\ <<a, b, c, d>>[4] = d
      BY SMT
    <3> QED BY <2>1, <3>1, <3>2, Zenon
  <2> QED BY <2>1, <2>2, <2>3, <2>4, Zenon DEF v
<1>2. wg_key_from_base64(w).errno = "0" /\ wg_key_from_base64(w).key = key
  <2>1. Len(w) = B64Len /\ w[B64Len] = 61
    BY Zenon DEF KeyText
  <2>2. Groups \in 0..Groups
    BY Sizes, SMT
  <2>3. /\ ~(\E g \in 0..Groups : ValAt(w, g) < 0)
        /\ ~(ValAt(w, Groups) % 256 # 0)
    BY <1>1, <2>2, Zenon DEF LowByte
  <2>4. wg_key_from_base64(w) = [errno |-> "0", key |-> key]
    BY <2>1, <2>3, ReadShape, Zenon
  <2> HIDE DEF key
  <2> QED BY <2>4, SMT
<1>3. ASSUME NEW k \in 1..KeyBytes PROVE key[k] \in Byte
  <2>1. (k - 1) \div 3 \in 0..Groups /\ ((k - 1) % 3) + 1 \in 1..3
    BY Sizes, SMT
  <2>2. key[k] = ByteOf(ValAt(w, (k - 1) \div 3), ((k - 1) % 3) + 1)
    BY Zenon
  <2> QED BY <1>1, <2>1, <2>2, Zenon
<1>4. ASSUME NEW g \in 0..Groups, NEW n \in 1..3, 3 * g + n <= KeyBytes
      PROVE  key[3 * g + n] = ByteOf(ValAt(w, g), n)
  <2>1. /\ 3 * g + n \in 1..KeyBytes
        /\ ((3 * g + n) - 1) \div 3 = g /\ (((3 * g + n) - 1) % 3) + 1 = n
    BY <1>4, Sizes, SMT
  <2>2. key[3 * g + n] = ByteOf(ValAt(w, ((3 * g + n) - 1) \div 3),
                                (((3 * g + n) - 1) % 3) + 1)
    BY <2>1, Zenon
  <2> QED BY <2>1, <2>2, SMT
<1>5. key \in [1..KeyBytes -> Byte]
  BY <1>3, Zenon
<1> HIDE DEF key
<1>6. ASSUME NEW g \in 0..Groups
      PROVE  GroupParts(key, g) = Parts(ByteOf(ValAt(w, g), 1), ByteOf(ValAt(w, g), 2),
                                        ByteOf(ValAt(w, g), 3))
  <2>1. /\ 3 * g + 1 <= KeyBytes /\ 3 * g + 2 <= KeyBytes
        /\ g < Groups => 3 * g + 3 <= KeyBytes
        /\ ~(g < Groups) => g = Groups
        /\ 1 \in 1..3 /\ 2 \in 1..3 /\ 3 \in 1..3
    BY Sizes, SMT
  <2>2. /\ key[3 * g + 1] = ByteOf(ValAt(w, g), 1)
        /\ key[3 * g + 2] = ByteOf(ValAt(w, g), 2)
        /\ g < Groups => key[3 * g + 3] = ByteOf(ValAt(w, g), 3)
    BY <2>1, <1>4, Zenon
  <2>3. ~(g < Groups) => ByteOf(ValAt(w, g), 3) = 0
    BY <2>1, <1>1, Zenon
  <2> QED BY <2>2, <2>3, Zenon DEF GroupParts
<1>7. wg_key_to_base64(key) = w
  <2> DEFINE u == wg_key_to_base64(key)
  <2>1. /\ u \in Seq(Nat) /\ Len(u) = B64Len /\ u[B64Len] = 61
        /\ \A g \in 0..Groups, n \in 1..4 : 4 * g + n < B64Len =>
             u[4 * g + n] = Letter(GroupParts(key, g)[n])
    BY <1>5, WriteShape, Zenon
  <2> HIDE DEF u
  <2>2. ASSUME NEW k \in 1..B64Len PROVE u[k] = w[k]
    <3>1. CASE k = B64Len
      BY <3>1, <2>1, Zenon DEF KeyText
    <3>2. CASE k # B64Len
      <4> DEFINE g == (k - 1) \div 4
                 n == ((k - 1) % 4) + 1
      <4>1. g \in 0..Groups /\ n \in 1..4 /\ 4 * g + n = k /\ 4 * g + n < B64Len
        BY <3>2, Sizes, SMT
      <4> HIDE DEF g, n
      <4>2. u[4 * g + n] = w[4 * g + n]
        <5>1. u[4 * g + n] = Letter(GroupParts(key, g)[n])
          BY <4>1, <2>1, Zenon
        <5>2. GroupParts(key, g) = Parts(ByteOf(ValAt(w, g), 1),
                                         ByteOf(ValAt(w, g), 2),
                                         ByteOf(ValAt(w, g), 3))
          BY <4>1, <1>6, Zenon
        <5>3. Letter(Parts(ByteOf(ValAt(w, g), 1), ByteOf(ValAt(w, g), 2),
                           ByteOf(ValAt(w, g), 3))[n]) = w[4 * g + n]
          BY <4>1, <1>1, Zenon
        <5> QED BY <5>1, <5>2, <5>3, Zenon
      <4> QED BY <4>1, <4>2, Zenon
    <3> QED BY <3>1, <3>2
  <2>3. Len(w) = B64Len
    BY DEF KeyText
  <2> QED BY <2>1, <2>2, <2>3, SMT DEF u
<1> QED BY <1>2, <1>5, <1>7, Zenon

\* The place of a character in its group.
LEMMA GroupOf ==
  ASSUME NEW k \in 1..(B64Len - 1)
  PROVE  \E g \in 0..Groups, n \in 1..4 : 4 * g + n = k /\ 4 * g + n # B64Len
<1>1. /\ (k - 1) \div 4 \in 0..Groups /\ ((k - 1) % 4) + 1 \in 1..4
      /\ 4 * ((k - 1) \div 4) + (((k - 1) % 4) + 1) = k /\ k # B64Len
  BY Sizes, SMT
<1> QED BY <1>1, Zenon

\* What is read without an error is a text as KeyText describes it.
LEMMA ReadIsText ==
  ASSUME NEW w \in Seq(Nat), wg_key_from_base64(w).errno = "0"
  PROVE  KeyText(w)
<1>1. Len(w) = B64Len /\ w[B64Len] = 61
  <2> SUFFICES ASSUME Len(w) # B64Len \/ w[Len(w)] # 61 PROVE FALSE
    BY Zenon
  <2>1. wg_key_from_base64(w) = [errno |-> "EINVAL", key |-> <<>>]
    BY SMTT(30) DEF wg_key_from_base64
  <2> QED BY <2>1, SMT
<1>2. /\ \A g \in 0..Groups : ~(ValAt(w, g) < 0)
      /\ LowByte(ValAt(w, Groups)) = 0
  <2> DEFINE bad == (\E g \in 0..Groups : ValAt(w, g) < 0)
                      \/ ValAt(w, Groups) % 256 # 0
             key == [k \in 1..KeyBytes |->
                       ByteOf(ValAt(w, (k - 1) \div 3), ((k - 1) % 3) + 1)]
  <2>1. wg_key_from_base64(w) = [errno |-> IF bad THEN "EINVAL" ELSE "0", key |-> key]
    BY <1>1, ReadShape, Zenon
  <2> HIDE DEF bad, key
  <2>2. ~bad
    BY <2>1, SMT
  <2> QED BY <2>2, Zenon DEF bad, LowByte
<1>3. ASSUME NEW g \in 0..Groups, NEW n \in 1..4, 4 * g + n # B64Len
      PROVE  Sextet(w[4 * g + n]) \in Six
  <2>1. SrcAt(w, g)[n] = w[4 * g + n]
    BY <1>1, <1>3, SrcChars, Zenon
  <2>2. w[4 * g + n] \in Nat
    BY <1>1, <1>3, Sizes, SMT
  <2>3. ~(Sextet(SrcAt(w, g)[n]) < 0)
    <3> SUFFICES ASSUME Sextet(SrcAt(w, g)[n]) < 0 PROVE FALSE
      BY Zenon
    <3>1. ValAt(w, g) = -1
      BY SMTT(30) DEF ValAt, decode_base64
    <3>2. ValAt(w, g) < 0
      BY <3>1, SMT
    <3> QED BY <1>2, <3>2, Zenon
  <2>4. Sextet(w[4 * g + n]) # -1
    BY <2>1, <2>3, SMT
  <2> QED BY <2>2, <2>4, SextetLetter, Zenon
<1>4. \A k \in 1..(B64Len - 1) : Sextet(w[k]) \in Six
  BY <1>3, GroupOf, Zenon
<1>5. Sextet(w[B64Len - 1]) % 4 = 0
  <2> DEFINE s == SrcAt(w, Groups)
  <2>1. /\ Groups \in 0..Groups
        /\ 4 * Groups + 1 \in 1..(B64Len - 1) /\ 4 * Groups + 2 \in 1..(B64Len - 1)
        /\ 4 * Groups + 3 = B64Len - 1 /\ B64Len - 1 \in 1..(B64Len - 1)
        /\ 4 * Groups + 4 = B64Len
        /\ 4 * Groups + 1 # B64Len /\ 4 * Groups + 2 # B64Len
        /\ 4 * Groups + 3 # B64Len
        /\ 1 \in 1..4 /\ 2 \in 1..4 /\ 3 \in 1..4 /\ 4 \in 1..4
    BY Sizes, SMT
  <2>2. \A n \in 1..4 : s[n] = IF 4 * Groups + n = B64Len THEN 65 ELSE w[4 * Groups + n]
    BY <1>1, <2>1, SrcChars, Zenon
  <2> HIDE DEF s
  <2>3. /\ s[1] = w[4 * Groups + 1] /\ s[2] = w[4 * Groups + 2]
        /\ s[3] = w[B64Len - 1] /\ s[4] = 65
    BY <2>1, <2>2, Zenon
  <2>4. Sextet(s[4]) = 0 /\ 0 \in Six
    BY <2>3, SMTT(30) DEF Sextet, Six
  <2>5. /\ Sextet(s[1]) \in Six /\ Sextet(s[2]) \in Six /\ Sextet(s[3]) \in Six
        /\ Sextet(s[4]) \in Six
    BY <1>4, <2>1, <2>3, <2>4, Zenon
  <2> DEFINE v == Joined(Sextet(s[1]), Sextet(s[2]), Sextet(s[3]), Sextet(s[4]))
  <2>6. ValAt(w, Groups) = v
    <3>1. ASSUME NEW k \in 1..4 PROVE ~(Sextet(s[k]) < 0)
      <4>1. k = 1 \/ k = 2 \/ k = 3 \/ k = 4
        BY SMT
      <4>2. Sextet(s[k]) \in Six
        BY <4>1, <2>5, Zenon
      <4> QED BY <4>2, SixNotNegative, Zenon
    <3>2. decode_base64(s) = v
      BY <3>1, SMTT(30) DEF decode_base64, Joined
    <3> QED BY <3>2, Zenon DEF ValAt, s
  <2>7. PartsBack(Sextet(s[1]), Sextet(s[2]), Sextet(s[3]), Sextet(s[4]), v)
    BY <2>5, PartsOfBytes, Zenon
  <2> HIDE DEF v
  <2> QED BY <1>2, <2>3, <2>4, <2>6, <2>7, Zenon DEF PartsBack
<1> QED BY <1>1, <1>4, <1>5, Zenon DEF KeyText

\* The characters is_valid_key asks for are the ones with six bits, and before
\* the '=' the ones whose last two bits are zero.
LEMMA ValidCharacters ==
  ASSUME NEW c \in Nat
  PROVE  /\ Sextet(c) \in Six <=> is_decimal(c) \/ is_alphabet(c) \/ c \in {Slash, Plus}
         /\ (Sextet(c) \in Six /\ Sextet(c) % 4 = 0) <=>
              c \in {65, 69, 73, 77, 81, 85, 89, 99, 103, 107, 111, 115, 119, 52, 56, 48}
<1>1. Sextet(c) \in Six <=> is_decimal(c) \/ is_alphabet(c) \/ c \in {Slash, Plus}
  BY SMTT(30) DEF Sextet, Six, is_decimal, is_alphabet, Slash, Plus, Lower
<1>2. (Sextet(c) \in Six /\ Sextet(c) % 4 = 0) <=>
        c \in {65, 69, 73, 77, 81, 85, 89, 99, 103, 107, 111, 115, 119, 52, 56, 48}
  BY SMTT(30) DEF Sextet, Six
<1> QED BY <1>1, <1>2, SMT

\* is_valid_key looks for exactly that text.
LEMMA ValidIsText ==
  ASSUME NEW t \in Seq(Nat), NEW a \in Nat, NEW l \in Nat, a + l <= Len(t)
  PROVE  is_valid_key(t, Span(a, l)) <=> KeyText(SubSeq(t, a + 1, a + l))
<1> DEFINE s == Span(a, l)
           w == SubSeq(t, a + 1, a + l)
<1>1. s.s = a /\ s.len = l
  BY SMT DEF Span
<1>2. w \in Seq(Nat) /\ Len(w) = l /\ \A k \in 1..l : w[k] = t[a + k] /\ w[k] \in Nat
  <2>1. \A n \in (a + 1)..(a + l) : t[n] \in Nat
    BY SMT
  <2>2. w \in Seq(Nat) /\ Len(w) = l
    BY <2>1, SMT
  <2>3. ASSUME NEW k \in 1..l PROVE w[k] = t[a + k]
    <3>1. k \in 1..((a + l) - (a + 1) + 1) /\ k + (a + 1) - 1 = a + k
      BY SMT
    <3>2. w[k] = t[k + (a + 1) - 1]
      BY <3>1, SMT
    <3> QED BY <3>1, <3>2, Zenon
  <2>4. \A k \in 1..l : a + k \in (a + 1)..(a + l)
    BY SMT
  <2> QED BY <2>1, <2>2, <2>3, <2>4, Zenon
<1> HIDE DEF s, w
<1>3. ASSUME NEW k \in 1..l PROVE At(t, s, k - 1) = w[k]
  <2>1. a + (k - 1) < Len(t) /\ a + (k - 1) + 1 = a + k
    BY SMT
  <2>2. At(t, s, k - 1) = t[a + (k - 1) + 1]
    BY <1>1, <2>1, Zenon DEF At
  <2> QED BY <1>2, <2>1, <2>2, Zenon
<1>4. ASSUME l = B64Len
      PROVE  is_valid_key(t, s) <=> KeyText(w)
  <2> DEFINE ok(c) == is_decimal(c) \/ is_alphabet(c) \/ c \in {Slash, Plus}
             tail == {65, 69, 73, 77, 81, 85, 89, 99, 103, 107, 111, 115, 119, 52, 56, 48}
  <2>1. /\ B64Len \in 1..l /\ B64Len - 1 \in 1..l /\ B64Len - 1 \in 1..(B64Len - 1)
        /\ (B64Len - 1) - 1 = B64Len - 2
        /\ \A k \in 1..(B64Len - 1) : k \in 1..l
    BY <1>4, Sizes, SMT
  <2>2. At(t, s, B64Len - 1) = w[B64Len] /\ At(t, s, B64Len - 2) = w[B64Len - 1]
    BY <1>3, <2>1, Zenon
  <2>3. \A c \in Nat : (Sextet(c) \in Six <=> ok(c))
                       /\ (Sextet(c) \in Six /\ Sextet(c) % 4 = 0 <=> c \in tail)
    BY ValidCharacters, SMTT(30)
  <2>4. is_valid_key(t, s) <=>
          /\ At(t, s, B64Len - 1) = 61
          /\ \A k \in 0..(B64Len - 3) : ok(At(t, s, k))
          /\ At(t, s, B64Len - 2) \in tail
    BY <1>1, <1>4, SMTT(30) DEF is_valid_key, EqualsSign
  <2> HIDE DEF ok, tail
  <2>5. (\A k \in 0..(B64Len - 3) : ok(At(t, s, k))) <=>
          (\A k \in 1..(B64Len - 2) : ok(w[k]))
    <3>1. ASSUME \A k \in 0..(B64Len - 3) : ok(At(t, s, k)), NEW k \in 1..(B64Len - 2)
          PROVE  ok(w[k])
      <4>1. k - 1 \in 0..(B64Len - 3) /\ k \in 1..l
        BY <1>4, Sizes, SMT
      <4> QED BY <4>1, <3>1, <1>3, Zenon
    <3>2. ASSUME \A k \in 1..(B64Len - 2) : ok(w[k]), NEW k \in 0..(B64Len - 3)
          PROVE  ok(At(t, s, k))
      <4>1. k + 1 \in 1..(B64Len - 2) /\ k + 1 \in 1..l /\ (k + 1) - 1 = k
        BY <1>4, Sizes, SMT
      <4>2. At(t, s, k) = w[k + 1]
        BY <4>1, <1>3, Zenon
      <4> QED BY <4>1, <4>2, <3>2, Zenon
    <3> QED BY <3>1, <3>2, Zenon
  <2>6. \A k \in 1..(B64Len - 1) : w[k] \in Nat
    BY <1>2, <2>1, Zenon
  <2>7. \A k \in 1..(B64Len - 1) : k = B64Len - 1 \/ k \in 1..(B64Len - 2)
    BY Sizes, SMT
  <2>8. \A k \in 1..(B64Len - 2) : k \in 1..(B64Len - 1)
    BY Sizes, SMT
  <2>9. (\A k \in 1..(B64Len - 1) : Sextet(w[k]) \in Six)
            /\ Sextet(w[B64Len - 1]) % 4 = 0 <=>
          (\A k \in 1..(B64Len - 2) : ok(w[k])) /\ w[B64Len - 1] \in tail
    <3>1. ASSUME \A k \in 1..(B64Len - 1) : Sextet(w[k]) \in Six,
                 Sextet(w[B64Len - 1]) % 4 = 0
          PROVE  (\A k \in 1..(B64Len - 2) : ok(w[k])) /\ w[B64Len - 1] \in tail
      BY <3>1, <2>1, <2>3, <2>6, <2>8, Zenon
    <3>2. ASSUME \A k \in 1..(B64Len - 2) : ok(w[k]), w[B64Len - 1] \in tail
          PROVE  /\ \A k \in 1..(B64Len - 1) : Sextet(w[k]) \in Six
                 /\ Sextet(w[B64Len - 1]) % 4 = 0
      BY <3>2, <2>1, <2>3, <2>6, <2>7, Zenon
    <3> QED BY <3>1, <3>2, Zenon
  <2>10. Len(w) = B64Len
    BY <1>2, <1>4, Zenon
  <2> QED BY <2>2, <2>4, <2>5, <2>9, <2>10, Zenon DEF KeyText
<1>5. ASSUME l # B64Len
      PROVE  ~is_valid_key(t, s) /\ ~KeyText(w)
  BY <1>1, <1>2, <1>5, Zenon DEF is_valid_key, KeyText
<1> QED BY <1>4, <1>5, Zenon DEF s, w

\* The highlighter and the library agree on what a key is: is_valid_key accepts
\* a part of a text exactly when wg_key_from_base64 reads it without an error,
\* for keys of any length.
THEOREM KeyAccepted ==
  ASSUME NEW t \in Seq(Nat), NEW a \in Nat, NEW l \in Nat, a + l <= Len(t)
  PROVE  is_valid_key(t, Span(a, l)) <=>
           wg_key_from_base64(SubSeq(t, a + 1, a + l)).errno = "0"
<1>1. SubSeq(t, a + 1, a + l) \in Seq(Nat)
  BY SMT
<1> QED BY <1>1, ValidIsText, TextReads, ReadIsText, Zenon

\* Every key survives the way through its text: wg_key_from_base64 takes what
\* wg_key_to_base64 writes and gives back the same bytes.
THEOREM KeyReadBack ==
  ASSUME NEW key \in [1..KeyBytes -> Byte]
  PROVE  wg_key_from_base64(wg_key_to_base64(key)) = [errno |-> "0", key |-> key]
<1> DEFINE w == wg_key_to_base64(key)
<1>1. /\ w \in Seq(Nat) /\ Len(w) = B64Len /\ w[B64Len] = 61
      /\ \A g \in 0..Groups, n \in 1..4 : 4 * g + n < B64Len =>
           w[4 * g + n] = Letter(GroupParts(key, g)[n])
  BY WriteShape, Zenon
<1> HIDE DEF w
<1>2. ASSUME NEW g \in 0..Groups
      PROVE  /\ ValAt(w, g) \in Nat
             /\ ByteOf(ValAt(w, g), 1) = key[3 * g + 1]
             /\ ByteOf(ValAt(w, g), 2) = key[3 * g + 2]
             /\ g < Groups => ByteOf(ValAt(w, g), 3) = key[3 * g + 3]
             /\ g = Groups => LowByte(ValAt(w, g)) = 0
  <2> DEFINE z == IF g < Groups THEN key[3 * g + 3] ELSE 0
             p == GroupParts(key, g)
             s == SrcAt(w, g)
  <2>1. key[3 * g + 1] \in Byte /\ key[3 * g + 2] \in Byte /\ z \in Byte
    BY GroupBytes, Zenon
  <2>2. p = Parts(key[3 * g + 1], key[3 * g + 2], z)
    BY Zenon DEF GroupParts
  <2>3. (g < Groups => z = key[3 * g + 3]) /\ (g = Groups => z = 0)
    BY Sizes, SMT
  <2> HIDE DEF z, p
  <2>4. PICK v : BytesBack(key[3 * g + 1], key[3 * g + 2], z, p, v)
    BY <2>1, <2>2, BytesOfParts, Zenon
  <2>5. /\ p[1] \in Six /\ p[2] \in Six /\ p[3] \in Six /\ p[4] \in Six
        /\ v = Joined(p[1], p[2], p[3], p[4])
        /\ z = 0 => p[4] = 0
    BY <2>4, Zenon DEF BytesBack
  <2>6. ASSUME NEW n \in 1..4 PROVE s[n] = Letter(p[n])
    <3>1. s[n] = IF 4 * g + n = B64Len THEN 65 ELSE w[4 * g + n]
      BY <1>1, SrcChars, Zenon
    <3>2. CASE 4 * g + n = B64Len
      <4>1. n = 4 /\ g = Groups
        BY <3>2, Sizes, SMT
      <4>2. Letter(0) = 65
        BY SMTT(30) DEF Letter, Select
      <4> QED BY <3>1, <3>2, <4>1, <4>2, <2>3, <2>5, Zenon
    <3>3. CASE 4 * g + n # B64Len
      <4>1. 4 * g + n < B64Len
        BY <3>3, Sizes, SMT
      <4> QED BY <3>1, <3>3, <4>1, <1>1, Zenon DEF p
    <3> QED BY <3>2, <3>3, Zenon
  <2> HIDE DEF s
  <2>7. ASSUME NEW n \in 1..4 PROVE Sextet(s[n]) = p[n] /\ p[n] \in Six
    <3>1. n = 1 \/ n = 2 \/ n = 3 \/ n = 4
      BY SMT
    <3>2. p[n] \in Six
      BY <3>1, <2>5, Zenon
    <3> QED BY <3>2, <2>6, LetterSextet, Zenon
  <2>8. ValAt(w, g) = v
    <3>1. \A n \in 1..4 : ~(Sextet(s[n]) < 0)
      BY <2>7, SixNotNegative, Zenon
    <3>2. decode_base64(s) = Joined(Sextet(s[1]), Sextet(s[2]), Sextet(s[3]), Sextet(s[4]))
      BY <3>1, SMTT(30) DEF decode_base64, Joined
    <3>3. 1 \in 1..4 /\ 2 \in 1..4 /\ 3 \in 1..4 /\ 4 \in 1..4
      BY SMT
    <3>4. /\ Sextet(s[1]) = p[1] /\ Sextet(s[2]) = p[2]
          /\ Sextet(s[3]) = p[3] /\ Sextet(s[4]) = p[4]
      BY <3>3, <2>7, Zenon
    <3> QED BY <3>2, <3>4, <2>5, Zenon DEF ValAt, s
  <2> QED BY <2>3, <2>4, <2>8, Zenon DEF BytesBack
<1> DEFINE back == [k \in 1..KeyBytes |->
                      ByteOf(ValAt(w, (k - 1) \div 3), ((k - 1) % 3) + 1)]
<1>3. wg_key_from_base64(w) = [errno |-> "0", key |-> back]
  <2>1. Groups \in 0..Groups
    BY Sizes, SMT
  <2>2. \A g \in 0..Groups : ~(ValAt(w, g) < 0)
    <3> SUFFICES ASSUME NEW g \in 0..Groups PROVE ~(ValAt(w, g) < 0)
      BY Zenon
    <3>1. ValAt(w, g) \in Nat
      BY <1>2, Zenon
    <3> QED BY <3>1, SMT
  <2>3. ~(ValAt(w, Groups) % 256 # 0)
    BY <2>1, <1>2, Zenon DEF LowByte
  <2> QED BY <1>1, <2>2, <2>3, ReadShape, Zenon
<1>4. ASSUME NEW k \in 1..KeyBytes PROVE back[k] = key[k]
  <2> DEFINE g == (k - 1) \div 3
             n == ((k - 1) % 3) + 1
  <2>1. /\ g \in 0..Groups /\ 3 * g + n = k
        /\ n = 1 \/ n = 2 \/ (n = 3 /\ g < Groups)
    BY Sizes, SMT
  <2>2. back[k] = ByteOf(ValAt(w, g), n)
    BY Zenon
  <2> HIDE DEF g, n
  <2>3. ByteOf(ValAt(w, g), n) = key[3 * g + n]
    BY <2>1, <1>2, Zenon
  <2> QED BY <2>1, <2>2, <2>3, Zenon
<1>5. back = key
  BY <1>4, Zenon
<1> QED BY <1>3, <1>5, Zenon DEF w

-----------------------------------------------------------------------------
(* Spans shown as keys.                                                    *)

\* A span shown as a key is one that is_valid_key accepts.
KeyTypes == {"PrivateKey", "PublicKey", "PresharedKey"}
RightKey(t, m) == m.type \in KeyTypes => is_valid_key(t, Span(m.start, m.len))
RightKeys(t, q) == \A n \in 1..Len(q) : RightKey(t, q[n])

LEMMA RightOne ==
  ASSUME NEW t, NEW m, RightKey(t, m)
  PROVE  RightKeys(t, <<m>>)
<1> SUFFICES ASSUME NEW n \in 1..Len(<<m>>) PROVE RightKey(t, <<m>>[n])
  BY Zenon DEF RightKeys
<1>1. <<m>>[n] = m
  OBVIOUS
<1> QED BY <1>1, Zenon

LEMMA RightThree ==
  ASSUME NEW t, NEW a, NEW b, NEW c, RightKey(t, a), RightKey(t, b), RightKey(t, c)
  PROVE  RightKeys(t, <<a, b, c>>)
<1> SUFFICES ASSUME NEW n \in 1..Len(<<a, b, c>>) PROVE RightKey(t, <<a, b, c>>[n])
  BY Zenon DEF RightKeys
<1>1. <<a, b, c>>[n] = a \/ <<a, b, c>>[n] = b \/ <<a, b, c>>[n] = c
  OBVIOUS
<1> QED BY <1>1, Zenon

LEMMA RightCons ==
  ASSUME NEW t, NEW m \in MarkSet, NEW q \in Seq(MarkSet), RightKey(t, m), RightKeys(t, q)
  PROVE  RightKeys(t, <<m>> \o q)
<1> SUFFICES ASSUME NEW n \in 1..Len(<<m>> \o q) PROVE RightKey(t, (<<m>> \o q)[n])
  BY Zenon DEF RightKeys
<1>1. \/ (<<m>> \o q)[n] = m
      \/ n - 1 \in 1..Len(q) /\ (<<m>> \o q)[n] = q[n - 1]
  OBVIOUS
<1> QED BY <1>1, Zenon DEF RightKeys

LEMMA RightAppend ==
  ASSUME NEW t, NEW m \in MarkSet, NEW q \in Seq(MarkSet), RightKey(t, m), RightKeys(t, q)
  PROVE  RightKeys(t, Append(q, m))
<1> SUFFICES ASSUME NEW n \in 1..Len(Append(q, m)) PROVE RightKey(t, Append(q, m)[n])
  BY Zenon DEF RightKeys
<1>1. \/ Append(q, m)[n] = m
      \/ n \in 1..Len(q) /\ Append(q, m)[n] = q[n]
  OBVIOUS
<1> QED BY <1>1, Zenon DEF RightKeys

LEMMA RightHeadTail ==
  ASSUME NEW t, NEW q \in Seq(MarkSet), q # <<>>, RightKeys(t, q)
  PROVE  RightKey(t, Head(q)) /\ RightKeys(t, Tail(q))
<1>1. 1 \in 1..Len(q) /\ Head(q) = q[1]
  OBVIOUS
<1>2. RightKey(t, Head(q))
  BY <1>1, Zenon DEF RightKeys
<1>3. ASSUME NEW n \in 1..Len(Tail(q)) PROVE RightKey(t, Tail(q)[n])
  <2>1. n + 1 \in 1..Len(q) /\ Tail(q)[n] = q[n + 1]
    OBVIOUS
  <2> QED BY <2>1, Zenon DEF RightKeys
<1> QED BY <1>2, <1>3, Zenon DEF RightKeys

LEMMA RightRetyped ==
  ASSUME NEW t, NEW q \in Seq(MarkSet), NEW k \in 1..Len(q), RightKeys(t, q)
  PROVE  RightKeys(t, [q EXCEPT ![k].type = "Error"])
<1> DEFINE m == [q[k] EXCEPT !.type = "Error"]
           p == [q EXCEPT ![k] = m]
<1>1. q[k] \in MarkSet
  OBVIOUS
<1>2. m.type = "Error"
  BY <1>1, Zenon DEF MarkSet
<1> HIDE DEF m
<1>3. Len(p) = Len(q) /\ \A n \in 1..Len(q) : p[n] = IF n = k THEN m ELSE q[n]
  OBVIOUS
<1>4. RightKey(t, m)
  BY <1>2 DEF RightKey, KeyTypes
<1> HIDE DEF p
<1>5. RightKeys(t, p)
  BY <1>3, <1>4, Zenon DEF RightKeys
<1> QED BY <1>5, Zenon DEF p, m

\* A span of any other type.
LEMMA OtherMark ==
  ASSUME NEW t, NEW type, type \notin KeyTypes, NEW s
  PROVE  RightKey(t, Mark(type, s))
  BY DEF RightKey, Mark

\* A span that is a key.
LEMMA KeyMark ==
  ASSUME NEW t, NEW s \in SpanSet, NEW type, is_valid_key(t, s)
  PROVE  RightKey(t, Mark(type, s))
<1> DEFINE m == Mark(type, s)
<1>1. Span(m.start, m.len) = s
  BY DEF Mark, Span, SpanSet
<1> HIDE DEF m
<1> QED BY <1>1, Zenon DEF RightKey, m

LEMMA CutRight ==
  ASSUME NEW t, NEW s, NEW k, NEW before, NEW after,
         before \notin KeyTypes, after \notin KeyTypes
  PROVE  RightKeys(t, Cut(s, k, before, after))
<1>1. "Delimiter" \notin KeyTypes
  BY DEF KeyTypes
<1> QED BY <1>1, OtherMark, RightThree, Zenon DEF Cut

\* Of all the fields only the three keys' lead to a span of a key's type, and
\* highlight_value asks is_valid_key first.
LEMMA ValueRight ==
  ASSUME NEW t, NEW s \in SpanSet, NEW f
  PROVE  RightKeys(t, highlight_value(t, s, f))
<1> DEFINE v == highlight_value(t, s, f)
           others == {"MTU", "SaveConfig", "FwMark", "Table", "Cmd", "Port", "Keepalive",
                      "Error"}
<1>1. \A type \in others : type \notin KeyTypes
  BY DEF KeyTypes
<1>2. "Host" \notin KeyTypes /\ "Port" \notin KeyTypes
  BY DEF KeyTypes
<1>3. \/ \E type \in KeyTypes : is_valid_key(t, s) /\ v = <<Mark(type, s)>>
      \/ \E type \in others : v = <<Mark(type, s)>>
      \/ v = Cut(s, LastColon(t, s), "Host", "Port")
  BY Zenon DEF highlight_value, Single, KeyTypes
<1> HIDE DEF v, others
<1>4. CASE \E type \in KeyTypes : is_valid_key(t, s) /\ v = <<Mark(type, s)>>
  BY <1>4, KeyMark, RightOne, Zenon DEF v
<1>5. CASE \E type \in others : v = <<Mark(type, s)>>
  BY <1>1, <1>5, OtherMark, RightOne, Zenon DEF v
<1>6. CASE v = Cut(s, LastColon(t, s), "Host", "Port")
  BY <1>2, <1>6, CutRight, Zenon DEF v
<1> QED BY <1>3, <1>4, <1>5, <1>6, Zenon

LEMMA ItemRight ==
  ASSUME NEW t, NEW s \in SpanSet, NEW f
  PROVE  RightKeys(t, highlight_multivalue_value(t, s, f))
<1>1. "IP" \notin KeyTypes /\ "Host" \notin KeyTypes /\ "Cidr" \notin KeyTypes
      /\ "Error" \notin KeyTypes
  BY DEF KeyTypes
<1>2. \A type \in {"IP", "Host", "Error"} : RightKeys(t, <<Mark(type, s)>>)
  BY <1>1, OtherMark, RightOne, Zenon
<1>3. RightKeys(t, Cut(s, First(t, s, Slash), "IP", "Cidr"))
  BY <1>1, CutRight, Zenon
<1>4. \/ \E type \in {"IP", "Host", "Error"} :
            highlight_multivalue_value(t, s, f) = <<Mark(type, s)>>
      \/ highlight_multivalue_value(t, s, f) = Cut(s, First(t, s, Slash), "IP", "Cidr")
  BY Zenon DEF highlight_multivalue_value
<1> QED BY <1>2, <1>3, <1>4, Zenon

-----------------------------------------------------------------------------
(* The spans shown as keys, step by step.                                  *)

\* The inductive part: the spans in the array and the ones still to append.
KeysInv == RightKeys(text, ret.spans) /\ RightKeys(text, todo)

LEMMA KeysInit == Init => KeysInv
<1> SUFFICES ASSUME Init PROVE KeysInv
  OBVIOUS
<1>1. ret.spans = <<>> /\ todo = <<>>
  BY DEF Init, NoArray
<1> QED BY <1>1 DEF KeysInv, RightKeys

LEMMA KeysQuiet == ASSUME KeysInv, UNCHANGED <<text, ret, todo>> PROVE KeysInv'
  BY Zenon DEF KeysInv

LEMMA KeysOther ==
  ASSUME KeysInv, UNCHANGED <<text, ret>>,
         NEW type, type \notin KeyTypes, NEW s, todo' = <<Mark(type, s)>>
  PROVE  KeysInv'
<1>1. RightKeys(text, todo')
  BY OtherMark, RightOne, Zenon
<1> QED BY <1>1, Zenon DEF KeysInv

LEMMA OtherTypes ==
  \A type \in {"Error", "Section", "Comment", "Field", "Delimiter", "End"} :
    type \notin KeyTypes
  BY DEF KeyTypes

LEMMA KeysAppendSpan == ASSUME IInv, KeysInv, AppendSpan PROVE KeysInv'
<1> DEFINE m == Head(todo)
<1>1. todo # <<>> /\ ret' = Appended(ret, m) /\ todo' = Tail(todo) /\ text' = text
  BY Zenon DEF AppendSpan
<1>2. todo \in Seq(MarkSet) /\ m \in MarkSet
  BY <1>1, TodoHead, Zenon
<1>3. RightKey(text, m) /\ RightKeys(text, Tail(todo))
  BY <1>1, <1>2, RightHeadTail, Zenon DEF KeysInv
<1>4. /\ ret.spans \in Seq(MarkSet) /\ ret.capacity \in Nat
      /\ ret = [spans |-> ret.spans, capacity |-> ret.capacity]
  BY Typed, Zenon
<1> HIDE DEF m
<1>5. ret'.spans = IF m.len = 0 THEN ret.spans ELSE Append(ret.spans, m)
  BY <1>1, <1>2, <1>4, AppendedFields
<1>6. RightKeys(text, ret'.spans)
  BY <1>2, <1>3, <1>4, <1>5, RightAppend, Zenon DEF KeysInv
<1> QED BY <1>1, <1>3, <1>6, Zenon DEF KeysInv

LEMMA KeysAppendFails == ASSUME IInv, KeysInv, AppendFails PROVE KeysInv'
<1>1. todo # <<>> /\ ret' = NoArray /\ todo' = Tail(todo) /\ text' = text
  BY Zenon DEF AppendFails
<1>2. todo \in Seq(MarkSet)
  BY Typed, Zenon
<1>3. RightKeys(text, Tail(todo))
  BY <1>1, <1>2, RightHeadTail, Zenon DEF KeysInv
<1>4. ret'.spans = <<>>
  BY <1>1 DEF NoArray
<1>5. RightKeys(text, ret'.spans)
  BY <1>4 DEF RightKeys
<1> QED BY <1>1, <1>3, <1>5, Zenon DEF KeysInv

LEMMA KeysEndValue == ASSUME IInv, ValuesInside, KeysInv, EndValue PROVE KeysInv'
<1> DEFINE s == Trimmed(current_span, len_at_last_space)
           e == Span(equals_location, 1)
           d == Mark("Delimiter", e)
           v == highlight_value(text, s, current_field)
<1>1. /\ Scanning /\ NextPart /\ state = "OnValue" /\ current_span.len # 0
      /\ todo' = <<d>> \/ todo' = <<d>> \o v
  BY Zenon DEF EndValue
<1>2. text' = text /\ ret' = ret
  BY <1>1, Zenon DEF NextPart
<1>3. s \in SpanSet /\ s.len # 0
  BY <1>1, TrimmedPart, Zenon
<1>4. e \in SpanSet
  BY <1>1, EqualsPart, Zenon
<1>5. v \in Seq(MarkSet)
  BY <1>3, Zenon DEF ValuesInside, Inside
<1>6. RightKeys(text, v)
  BY <1>3, ValueRight, Zenon
<1> HIDE DEF v, s, e
<1>7. d \in MarkSet
  BY <1>4, MarkType, PlainTypes, Zenon
<1>8. RightKey(text, d)
  BY OtherTypes, OtherMark, Zenon
<1> HIDE DEF d
<1>9. RightKeys(text, <<d>>) /\ RightKeys(text, <<d>> \o v)
  BY <1>5, <1>6, <1>7, <1>8, RightOne, RightCons, Zenon
<1> QED BY <1>1, <1>2, <1>9, Zenon DEF KeysInv

LEMMA KeysItem ==
  ASSUME IInv, ItemsInside, KeysInv, MultiComma \/ MultiEnd
  PROVE  KeysInv'
<1> DEFINE s == Trimmed(mv.current_span, mv.len_at_last_space)
           v == highlight_multivalue_value(text, s, mv.section)
           e == Sub(mv.s, mv.i, 1)
           d == Mark("Delimiter", e)
<1>1. /\ text' = text /\ ret' = ret
      /\ todo' = v \/ todo' = Append(v, d)
  BY Zenon DEF MultiComma, MultiEnd
<1>2. /\ mv.s \in SpanSet /\ mv.current_span \in SpanSet
      /\ mv.i \in Nat /\ mv.len_at_last_space \in Nat
  BY Typed, Zenon
<1>3. s \in SpanSet
  BY <1>2, TrimmedSpan, Zenon
<1>4. v \in Seq(MarkSet) /\ RightKeys(text, v)
  BY <1>3, ItemRight, Zenon DEF ItemsInside, Inside
<1>5. e \in SpanSet
  BY <1>2, SubFields, Zenon
<1> HIDE DEF v, s, e
<1>6. d \in MarkSet
  BY <1>5, MarkType, PlainTypes, Zenon
<1>7. RightKey(text, d)
  BY OtherTypes, OtherMark, Zenon
<1> HIDE DEF d
<1>8. RightKeys(text, Append(v, d))
  BY <1>4, <1>6, <1>7, RightAppend, Zenon
<1> QED BY <1>1, <1>4, <1>8, Zenon DEF KeysInv

LEMMA KeysMultiEndEmpty == ASSUME IInv, KeysInv, MultiEndEmpty PROVE KeysInv'
<1> DEFINE n == Len(ret.spans)
           p == [ret.spans EXCEPT ![n].type = "Error"]
<1>1. /\ text' = text /\ todo' = todo
      /\ ret' = ret \/ (n # 0 /\ ret' = [ret EXCEPT !.spans[n].type = "Error"])
  BY DEF MultiEndEmpty
<1>2. /\ ret.spans \in Seq(MarkSet)
      /\ ret = [spans |-> ret.spans, capacity |-> ret.capacity]
  BY Typed, Zenon
<1>3. CASE ret' = ret
  BY <1>1, <1>3, Zenon DEF KeysInv
<1>4. CASE n # 0 /\ ret' = [ret EXCEPT !.spans[n].type = "Error"]
  <2>1. n \in 1..Len(ret.spans)
    BY <1>2, <1>4
  <2>2. ret'.spans = p
    BY <1>2, <1>4
  <2>3. RightKeys(text, p)
    BY <1>2, <2>1, RightRetyped, Zenon DEF KeysInv
  <2> QED BY <1>1, <2>2, <2>3, Zenon DEF KeysInv
<1> QED BY <1>1, <1>3, <1>4

LEMMA KeysPrintSpan == ASSUME IInv, KeysInv, PrintSpan PROVE KeysInv'
<1>1. /\ text' = text /\ todo' = todo /\ ret.spans # <<>>
      /\ ret' = [ret EXCEPT !.spans = Tail(@)]
  BY Zenon DEF PrintSpan
<1>2. /\ ret.spans \in Seq(MarkSet)
      /\ ret = [spans |-> ret.spans, capacity |-> ret.capacity]
  BY Typed, Zenon
<1>3. ret'.spans = Tail(ret.spans)
  BY <1>1, <1>2
<1> QED BY <1>1, <1>2, <1>3, RightHeadTail, Zenon DEF KeysInv

LEMMA KeysStep == ASSUME IInv, ValuesInside, ItemsInside, KeysInv, [Next]_vars PROVE KeysInv'
<1>1. CASE EndNone \/ CommentChar \/ BlankChar \/ OtherChar \/ MultiBlank \/ MultiOther
  <2>1. UNCHANGED <<text, ret, todo>>
    BY <1>1 DEF EndNone, NextPart, CommentChar, BlankChar, OtherChar, MultiBlank, MultiOther
  <2> QED BY <2>1, KeysQuiet
<1>2. CASE PrintRest \/ PrintNull \/ Done \/ UNCHANGED vars
  <2>1. UNCHANGED <<text, ret, todo>>
    BY <1>2, Zenon DEF PrintRest, PrintNull, Done, vars
  <2> QED BY <2>1, KeysQuiet
<1>3. CASE EndKey \/ EndSection \/ EndComment \/ EndNoValue \/ EqualsChar \/ End
  <2>1. UNCHANGED <<text, ret>>
    BY <1>3, Zenon DEF EndKey, EndSection, EndComment, EndNoValue, EqualsChar, End, NextPart
  <2>2. \E type \in {"Error", "Section", "Comment", "Field", "Delimiter", "End"} :
          \E s : todo' = <<Mark(type, s)>>
    BY <1>3, Zenon DEF EndKey, EndSection, EndComment, EndNoValue, EqualsChar, End
  <2> QED BY <2>1, <2>2, OtherTypes, KeysOther, Zenon
<1>4. CASE EndValue
  BY <1>4, KeysEndValue
<1>5. CASE MultiComma \/ MultiEnd
  BY <1>5, KeysItem
<1>6. CASE MultiEndEmpty
  BY <1>6, KeysMultiEndEmpty
<1>7. CASE AppendSpan
  BY <1>7, KeysAppendSpan
<1>8. CASE AppendFails
  BY <1>8, KeysAppendFails
<1>9. CASE PrintSpan
  BY <1>9, KeysPrintSpan
<1> QED BY <1>1, <1>2, <1>3, <1>4, <1>5, <1>6, <1>7, <1>8, <1>9 DEF Next

LEMMA KeysHold == IInv /\ KeysInv => KeysRoundTrip
<1> SUFFICES ASSUME IInv, KeysInv, NEW n \in 1..Len(ret.spans),
                    ret.spans[n].type \in KeyTypes
             PROVE  LET span == ret.spans[n]
                        w == SubSeq(text, span.start + 1, span.start + span.len)
                    IN wg_key_to_base64(wg_key_from_base64(w).key) = w
  BY Zenon DEF KeysRoundTrip, KeyTypes
<1> DEFINE m == ret.spans[n]
           w == SubSeq(text, m.start + 1, m.start + m.len)
<1>1. text \in Seq(Nat) /\ ret.spans \in Seq(MarkSet)
  BY Typed, Zenon
<1>2. m.start \in Nat /\ m.len \in Int
  BY <1>1, MarkFields, Zenon
<1>3. m.type # "End"
  BY DEF KeyTypes
<1>4. m.len > 0 /\ m.start + m.len <= Len(text)
  BY <1>3, IInvInOrder, Zenon DEF SpansInOrder
<1>5. is_valid_key(text, Span(m.start, m.len))
  BY Zenon DEF KeysInv, RightKeys, RightKey
<1> HIDE DEF m
<1>6. m.len \in Nat /\ m.start <= m.start + m.len /\ m.start + m.len \in Nat
  BY <1>2, <1>4
<1>7. w \in Seq(Nat)
  BY <1>1, <1>2, <1>4, <1>6, Part, Zenon
<1>8. KeyText(w)
  BY <1>1, <1>2, <1>4, <1>5, <1>6, ValidIsText, Zenon
<1> QED BY <1>7, <1>8, TextReads, Zenon DEF m

-----------------------------------------------------------------------------
(* Least and greatest members of sets of numbers.                          *)

INSTANCE WellFoundedInduction

LEMMA LessIn == \A x, y \in Nat : <<x, y>> \in OpToRel(<, Nat) <=> x < y
  BY DEF OpToRel

LEMMA LeastExists ==
    ASSUME NEW S \in SUBSET Nat, S # {} PROVE \E x \in S : \A y \in S : x <= y
<1>1. PICK x \in S : \A y \in S : ~(<<y, x>> \in OpToRel(<, Nat))
  BY WFMin, NatLessThanWellFounded, Zenon
<1>2. \A y \in S : x <= y
  <2> TAKE y \in S
  <2>1. x \in Nat /\ y \in Nat
    OBVIOUS
  <2>2. ~(y < x)
    BY <1>1, <2>1, LessIn, Zenon
  <2> QED BY <2>1, <2>2
<1> QED BY <1>2

LEMMA GreatestExists ==
    ASSUME NEW b \in Nat, NEW S \in SUBSET (0..b), S # {}
    PROVE  \E x \in S : \A y \in S : x >= y
<1> DEFINE T == {m \in Nat : \E k \in S : m = b - k}
<1>1. T \in SUBSET Nat
  OBVIOUS
<1>0. \A k \in S : b - k \in T
  <2> TAKE k \in S
  <2>1. k \in Nat /\ b - k \in Nat
    OBVIOUS
  <2> QED BY <2>1
<1>2. PICK m \in T : \A y \in T : m <= y
  <2>1. T # {}
    BY <1>0, Zenon
  <2> HIDE DEF T
  <2> QED BY <1>1, <2>1, LeastExists
<1>3. PICK x \in S : m = b - x
  OBVIOUS
<1>4. \A y \in S : x >= y
  <2> TAKE y \in S
  <2>1. m <= b - y
    BY <1>0, <1>2
  <2>2. x \in Nat /\ y \in Nat
    OBVIOUS
  <2> QED BY ONLY <2>1, <2>2, <1>3, b \in Nat
<1> QED BY <1>4

LEMMA FirstInSpan ==
    ASSUME NEW t, NEW s \in SpanSet, NEW c
    PROVE  First(t, s, c) \in 0..s.len
<1> DEFINE S == {k \in 0..(s.len - 1) : At(t, s, k) = c} \cup {s.len}
<1>0. s.len \in Nat
  BY DEF SpanSet
<1>1. S \in SUBSET Nat /\ S # {} /\ S \subseteq 0..s.len
  BY <1>0
<1>2. First(t, s, c) = Smallest(S)
  BY DEF First
<1> HIDE DEF S
<1>3. Smallest(S) \in S
  BY <1>1, LeastExists, Zenon DEF Smallest
<1> QED BY <1>1, <1>2, <1>3, Zenon

LEMMA LastColonInSpan ==
    ASSUME NEW t, NEW s \in SpanSet, s.len # 0
    PROVE  LastColon(t, s) \in 0..(s.len - 1)
<1> DEFINE S == {k \in 0..(s.len - 1) : At(t, s, k) = Colon} \cup {0}
<1>0. s.len - 1 \in Nat
  BY DEF SpanSet
<1>1. S \in SUBSET (0..(s.len - 1)) /\ S # {}
  BY <1>0
<1>2. LastColon(t, s) = Largest(S)
  BY DEF LastColon
<1> HIDE DEF S
<1>3. Largest(S) \in S
  BY <1>0, <1>1, GreatestExists, Zenon DEF Largest
<1> QED BY <1>1, <1>2, <1>3, Zenon

-----------------------------------------------------------------------------
(* What the two functions for values append stays inside the value.        *)

LEMMA ValueInside ==
    ASSUME NEW t, NEW s \in SpanSet, s.len # 0, NEW field
    PROVE  Inside(highlight_value(t, s, field), s)
<1>1. \/ highlight_value(t, s, field) = Cut(s, LastColon(t, s), "Host", "Port")
      \/ \E type \in Types : highlight_value(t, s, field) = <<Mark(type, s)>>
  BY Zenon DEF highlight_value, Single, Types
<1>2. LastColon(t, s) \in 0..(s.len - 1)
  BY LastColonInSpan
<1>3. "Host" \in Types /\ "Port" \in Types
  BY DEF Types
<1>4. CASE highlight_value(t, s, field) = Cut(s, LastColon(t, s), "Host", "Port")
  BY <1>2, <1>3, <1>4, CutChain
<1>5. CASE \E type \in Types : highlight_value(t, s, field) = <<Mark(type, s)>>
  BY <1>5, ChainOne DEF Inside
<1> QED BY <1>1, <1>4, <1>5

LEMMA ItemInside ==
    ASSUME NEW t, NEW s \in SpanSet, NEW section
    PROVE  Inside(highlight_multivalue_value(t, s, section), s)
<1> DEFINE k == First(t, s, Slash)
<1>1. \/ k # s.len /\ highlight_multivalue_value(t, s, section) = Cut(s, k, "IP", "Cidr")
      \/ \E type \in Types : highlight_multivalue_value(t, s, section) = <<Mark(type, s)>>
  BY DEF highlight_multivalue_value, Types
<1>2. k \in 0..s.len /\ s.len \in Nat
  BY FirstInSpan DEF SpanSet
<1>3. "IP" \in Types /\ "Cidr" \in Types
  BY DEF Types
<1> HIDE DEF k
<1>4. CASE k # s.len /\ highlight_multivalue_value(t, s, section) = Cut(s, k, "IP", "Cidr")
  <2>1. k \in 0..(s.len - 1)
    BY <1>2, <1>4
  <2> QED BY <2>1, <1>3, <1>4, CutChain
<1>5. CASE \E type \in Types : highlight_multivalue_value(t, s, section) = <<Mark(type, s)>>
  BY <1>5, ChainOne DEF Inside
<1> QED BY <1>1, <1>4, <1>5

LEMMA AllInside == ValuesInside /\ ItemsInside
<1>1. ValuesInside
  BY ValueInside DEF ValuesInside
<1>2. ItemsInside
  BY ItemInside DEF ItemsInside
<1> QED BY <1>1, <1>2

LEMMA IInvAlways == Spec => []IInv
<1>1. IInv /\ [Next]_vars => IInv'
  BY AllInside, IInvStep, Zenon
<1> QED BY <1>1, IInvInit, PTL DEF Spec

-----------------------------------------------------------------------------
\* For every set of texts, every first capacity and every number of failed
\* allocations: the spans highlight_config builds are not empty, lie in the
\* text, and each one follows the one before it.
THEOREM SpansInOrderAlways == Spec => []SpansInOrder
  BY IInvAlways, IInvInOrder, PTL

\* Whatever spans were lost, highlight.c has written the text, each character
\* once and in its place, when its loop meets the terminator.
THEOREM PrintsTextAlways == Spec => []PrintsText
  BY IInvAlways, IInvPrints, PTL

\* Neither highlight_multivalue, which changes the type of the last span, nor
\* highlight.c, which reads the first one, goes outside the array unless an
\* allocation failed.
THEOREM CrashNeedsLossAlways == Spec => []CrashNeedsLoss
  BY IInvAlways, IInvCrash, PTL

\* Whatever the text and whichever allocations fail: the text of each span
\* highlight_config returns as a key is the one wg_key_to_base64 writes for the
\* key wg_key_from_base64 reads from it, for keys of any length that leaves two
\* bytes after groups of three.
THEOREM KeysRoundTripAlways == Spec => []KeysRoundTrip
<1>1. IInv /\ KeysInv /\ [Next]_vars => KeysInv'
  BY AllInside, KeysStep, Zenon
<1> QED BY <1>1, KeysInit, IInvAlways, KeysHold, PTL DEF Spec

=============================================================================
