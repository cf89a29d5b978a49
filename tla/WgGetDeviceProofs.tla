------------------------- MODULE WgGetDeviceProofs -------------------------
(***************************************************************************)
(* Proofs about wg_get_device, for every set of configurations, every way  *)
(* the kernel cuts a dump, and any number of changes, signals and failed   *)
(* allocations.                                                            *)
(***************************************************************************)
EXTENDS WgGetDevice, WellFoundedInduction, TLAPS

-----------------------------------------------------------------------------
\* Induction on natural numbers, for a set.
LEMMA EveryNat ==
    ASSUME NEW S \in SUBSET Nat, 0 \in S, \A n \in S : n + 1 \in S
    PROVE  S = Nat
<1> SUFFICES ASSUME Nat \ S # {} PROVE FALSE
  BY Zenon
<1>1. PICK x \in Nat \ S : \A y \in Nat \ S : ~(<<y, x>> \in OpToRel(<, Nat))
  BY WFMin, NatLessThanWellFounded, Zenon
<1>2. x - 1 \in Nat /\ x - 1 < x /\ x - 1 + 1 = x
  OBVIOUS
<1>3. <<x - 1, x>> \in OpToRel(<, Nat)
  BY <1>2 DEF OpToRel
<1>4. QED
  BY <1>1, <1>2, <1>3, Zenon

\* coalesce_peers goes through the pieces one by one: the recursion is well
\* founded.
IsLoop(f, d, m) == f = [n \in 0 .. m |-> IF n = 0 THEN << >> ELSE CoalesceNext(f[n - 1], d[n])]

LEMMA LoopExists ==
    ASSUME NEW d, NEW m \in Nat
    PROVE  \E f : IsLoop(f, d, m)
<1> DEFINE S == {j \in Nat : \E f : IsLoop(f, d, j)}
<1>1. 0 \in S
  <2> DEFINE f == [n \in 0 .. 0 |-> << >>]
  <2>1. IsLoop(f, d, 0)
    BY DEF IsLoop
  <2>2. QED
    BY <2>1
<1>2. ASSUME NEW j \in S
      PROVE  j + 1 \in S
  <2>1. PICK f : IsLoop(f, d, j)
    OBVIOUS
  <2> DEFINE g == [n \in 0 .. j + 1 |-> IF n = j + 1 THEN CoalesceNext(f[j], d[j + 1]) ELSE f[n]]
  <2>2. \A n \in 0 .. j : g[n] = f[n]
    OBVIOUS
  <2>3. \A n \in 0 .. j : f[n] = IF n = 0 THEN << >> ELSE CoalesceNext(f[n - 1], d[n])
    BY <2>1 DEF IsLoop
  <2>4. \A n \in 0 .. j + 1 : g[n] = IF n = 0 THEN << >> ELSE CoalesceNext(g[n - 1], d[n])
    <3> TAKE n \in 0 .. j + 1
    <3>1. CASE n = j + 1
      BY <3>1, <2>2
    <3>2. CASE n \in 0 .. j
      BY <3>2, <2>2, <2>3
    <3>3. QED
      BY <3>1, <3>2
  <2>5. IsLoop(g, d, j + 1)
    BY <2>4, Zenon DEF IsLoop
  <2>6. QED
    BY <2>5
<1>3. S \in SUBSET Nat
  OBVIOUS
<1>4. S = Nat
  <2> HIDE DEF S
  <2> QED BY <1>1, <1>2, <1>3, EveryNat
<1>5. QED
  BY <1>4

LEMMA LoopOfPieces ==
    ASSUME NEW d \in Seq(Peer)
    PROVE  \E f : IsLoop(f, d, Len(d)) /\ coalesce_peers(d) = f[Len(d)]
<1>1. \E f : IsLoop(f, d, Len(d))
  BY LoopExists
<1> DEFINE f == CHOOSE f : IsLoop(f, d, Len(d))
<1>2. IsLoop(f, d, Len(d))
  BY <1>1
<1>3. coalesce_peers(d) = f[Len(d)]
  BY DEF coalesce_peers, IsLoop
<1>4. QED
  BY <1>2, <1>3, Zenon

LEMMA CoalesceNone == coalesce_peers(<< >>) = << >>
<1>1. << >> \in Seq(Peer) /\ Len(<< >>) = 0
  OBVIOUS
<1>2. PICK f : IsLoop(f, << >>, 0) /\ coalesce_peers(<< >>) = f[0]
  BY <1>1, LoopOfPieces, Zenon
<1>3. QED
  BY <1>2 DEF IsLoop

\* A piece more is a round of the loop more.
LEMMA CoalesceAppend ==
    ASSUME NEW d \in Seq(Peer), NEW x \in Peer
    PROVE  coalesce_peers(Append(d, x)) = CoalesceNext(coalesce_peers(d), x)
<1> DEFINE u == Append(d, x)
<1>1. /\ u \in Seq(Peer)
      /\ Len(u) = Len(d) + 1
      /\ Len(d) \in Nat
      /\ \A n \in 1 .. Len(d) : u[n] = d[n]
      /\ u[Len(d) + 1] = x
  OBVIOUS
<1> HIDE DEF u
<1>2. PICK f : IsLoop(f, d, Len(d)) /\ coalesce_peers(d) = f[Len(d)]
  BY LoopOfPieces
<1>3. PICK g : IsLoop(g, u, Len(u)) /\ coalesce_peers(u) = g[Len(u)]
  BY <1>1, LoopOfPieces
<1>4. f[Len(d)] = g[Len(d)]
  <2> DEFINE S == {j \in Nat : j <= Len(d) => f[j] = g[j]}
  <2>1. 0 \in S
    BY <1>1, <1>2, <1>3 DEF IsLoop
  <2>2. ASSUME NEW j \in S
        PROVE  j + 1 \in S
    <3> SUFFICES ASSUME j + 1 <= Len(d) PROVE f[j + 1] = g[j + 1]
      OBVIOUS
    <3>1. f[j] = g[j] /\ d[j + 1] = u[j + 1]
      BY <1>1
    <3>2. f[j + 1] = CoalesceNext(f[j], d[j + 1])
      BY <1>1, <1>2 DEF IsLoop
    <3>3. g[j + 1] = CoalesceNext(g[j], u[j + 1])
      BY <1>1, <1>3 DEF IsLoop
    <3>4. QED
      BY <3>1, <3>2, <3>3
  <2>3. S \in SUBSET Nat
    OBVIOUS
  <2>4. S = Nat
    <3> HIDE DEF S
    <3> QED BY <2>1, <2>2, <2>3, EveryNat
  <2>5. QED
    BY <1>1, <2>4
<1>5. g[Len(u)] = CoalesceNext(g[Len(d)], x)
  BY <1>1, <1>3 DEF IsLoop
<1>6. QED
  BY <1>2, <1>3, <1>4, <1>5 DEF u
-----------------------------------------------------------------------------
Node == [key : Key, aips : Seq(Ip), tail : BOOLEAN]

\* A place of the dump of c, or its start.
IsPlace(c, t) == /\ t \in Nat \X Nat
                 /\ t[1] \in 0 .. Len(c)
                 /\ t[2] \in 0 .. Aips(c, t[1])

\* The pieces d are those of the first p peers of c, in their order, and no
\* piece has an allowed IP of another peer.
Named(d, c, p) ==
    LET list == coalesce_peers(d)
    IN  /\ d \in Seq(Peer)
        /\ p = 0 => d = << >>
        /\ list \in Seq(Node)
        /\ Len(list) = p
        /\ \A q \in 1 .. p : /\ list[q].key = c[q].key
                             /\ Entries(list[q].aips) \subseteq Entries(c[q].aips)

\* The pieces d are all there is of c up to the place t, and coalesce_peers
\* can join them.
Exact(d, c, t) ==
    LET list == coalesce_peers(d)
    IN  /\ \A q \in 1 .. t[1] :
              list[q].aips = SubSeq(c[q].aips, 1, IF q = t[1] THEN t[2] ELSE Len(c[q].aips))
        /\ t[2] > 0 => list[t[1]].tail
        /\ ~FollowsNull(d)

\* While a dump is received: nothing yet, or the pieces of snap so far.
Dumped == /\ snap \in Configs
          /\ seen = gen => conf = snap
          /\ IsPlace(snap, sent)
          /\ more <=> Ahead(snap, sent) # {}
          /\ Named(device, snap, sent[1])
          /\ oom = 0 => Exact(device, snap, sent)

Receiving == pc = "recv" => IF seen = -1 THEN device = << >> /\ sent = Start /\ more
                            ELSE Dumped

\* What the device is once it is complete.
Complete == /\ Len(device) = Len(snap)
            /\ \A p \in 1 .. Len(device) :
                  /\ device[p].key = snap[p].key
                  /\ Entries(device[p].aips) \subseteq Entries(snap[p].aips)
            /\ oom = 0 => device = snap

\* Who owns the socket and the device at every label of wg_get_device.
Owned == /\ pc = "try_again" => live = 0 /\ ~nlg
         /\ pc = "open" => live = 1 /\ ~nlg /\ device = << >>
         /\ pc = "send" => live = 1 /\ device = << >>
         /\ pc \in {"recv", "out"} => live = 1
         /\ NothingLeaks

IInv == /\ TypeOK
        /\ Owned
        /\ Receiving
        /\ pc \in {"out", "done"} /\ ret = 0 => Complete
        /\ CoalesceSafe
-----------------------------------------------------------------------------
(* One round of the loop.                                                  *)

LEMMA RoundJoins ==
    ASSUME NEW list \in Seq(Node), NEW x \in Peer,
           Len(list) > 0, list[Len(list)].key = x.key
    PROVE  LET new == CoalesceNext(list, x)
           IN  /\ new \in Seq(Node)
               /\ Len(new) = Len(list)
               /\ \A q \in 1 .. Len(list) - 1 : new[q] = list[q]
               /\ new[Len(list)] = JoinNext(list[Len(list)], x)
<1>1. Len(list) \in Nat /\ Len(list) \in 1 .. Len(list) /\ list # << >>
  OBVIOUS
<1>2. list[Len(list)] \in Node
  BY <1>1
<1>3. JoinNext(list[Len(list)], x) \in Node
  <2>1. list[Len(list)].key \in Key /\ list[Len(list)].aips \in Seq(Ip) /\ x.aips \in Seq(Ip)
    BY <1>2 DEF Node, Peer
  <2>2. list[Len(list)].aips \o x.aips \in Seq(Ip)
    BY <2>1
  <2>3. (x.aips # << >>) \in BOOLEAN
    OBVIOUS
  <2>4. QED
    BY <2>1, <2>2, <2>3, Zenon DEF JoinNext, Node
<1>4. CoalesceNext(list, x) = [list EXCEPT ![Len(list)] = JoinNext(list[Len(list)], x)]
  BY <1>1 DEF CoalesceNext
<1> DEFINE y == JoinNext(list[Len(list)], x)
<1> HIDE DEF y
<1>5. y \in Node /\ CoalesceNext(list, x) = [list EXCEPT ![Len(list)] = y]
  BY <1>3, <1>4 DEF y
<1>6. QED
  BY <1>1, <1>5 DEF y

LEMMA RoundMovesOn ==
    ASSUME NEW list \in Seq(Node), NEW x \in Peer,
           Len(list) > 0 => list[Len(list)].key # x.key
    PROVE  LET new == CoalesceNext(list, x)
           IN  /\ new \in Seq(Node)
               /\ Len(new) = Len(list) + 1
               /\ \A q \in 1 .. Len(list) : new[q] = list[q]
               /\ new[Len(list) + 1].key = x.key
               /\ new[Len(list) + 1].aips = x.aips
               /\ new[Len(list) + 1].tail = (x.aips # << >>)
<1> DEFINE y == [key |-> x.key, aips |-> x.aips, tail |-> x.aips # << >>]
<1>1. y \in Node
  <2>1. x.key \in Key /\ x.aips \in Seq(Ip)
    BY DEF Peer
  <2>2. (x.aips # << >>) \in BOOLEAN
    OBVIOUS
  <2>3. QED
    BY <2>1, <2>2, Zenon DEF Node
<1>2. list # << >> => Len(list) > 0
  OBVIOUS
<1>3. CoalesceNext(list, x) = Append(list, y)
  BY <1>2 DEF CoalesceNext
<1>4. y.key = x.key /\ y.aips = x.aips /\ y.tail = (x.aips # << >>)
  BY Zenon
<1> HIDE DEF y
<1>5. /\ Append(list, y) \in Seq(Node)
      /\ Len(Append(list, y)) = Len(list) + 1
      /\ \A q \in 1 .. Len(list) : Append(list, y)[q] = list[q]
      /\ Append(list, y)[Len(list) + 1] = y
  BY <1>1
<1>6. QED
  BY ONLY <1>3, <1>4, <1>5

-----------------------------------------------------------------------------
(* Sequences.                                                              *)

LEMMA Concat ==
    ASSUME NEW T, NEW x \in Seq(T), NEW y \in Seq(T)
    PROVE  /\ x \o y \in Seq(T)
           /\ Len(x) \in Nat /\ Len(y) \in Nat
           /\ Len(x \o y) = Len(x) + Len(y)
           /\ \A i \in 1 .. Len(x) : (x \o y)[i] = x[i]
           /\ \A i \in 1 .. Len(y) : (x \o y)[Len(x) + i] = y[i]
<1>1. /\ Len(x) \in Nat /\ Len(y) \in Nat
      /\ x \o y \in Seq(T) /\ Len(x \o y) = Len(x) + Len(y)
  OBVIOUS
<1>2. \A i \in 1 .. Len(x) : (x \o y)[i] = x[i]
  BY <1>1
<1>3. \A i \in 1 .. Len(y) : (x \o y)[Len(x) + i] = y[i]
  <2> TAKE i \in 1 .. Len(y)
  <2>1. Len(x) + i \in Len(x) + 1 .. Len(x) + Len(y) /\ (Len(x) + i) - Len(x) = i
    BY <1>1
  <2>2. QED
    BY <2>1, <1>1
<1>4. QED
  BY <1>1, <1>2, <1>3

LEMMA RangeConcat ==
    ASSUME NEW T, NEW x \in Seq(T), NEW y \in Seq(T), NEW S,
           Entries(x) \subseteq S, Entries(y) \subseteq S
    PROVE  Entries(x \o y) \subseteq S
<1>1. /\ x \o y \in Seq(T)
      /\ Len(x) \in Nat /\ Len(y) \in Nat
      /\ Len(x \o y) = Len(x) + Len(y)
      /\ \A i \in 1 .. Len(x) : (x \o y)[i] = x[i]
      /\ \A i \in 1 .. Len(y) : (x \o y)[Len(x) + i] = y[i]
  BY Concat
<1>2. \A i \in 1 .. Len(x) : x[i] \in S
  BY DEF Entries
<1>3. \A i \in 1 .. Len(y) : y[i] \in S
  BY DEF Entries
<1>4. ASSUME NEW i \in 1 .. Len(x \o y) PROVE (x \o y)[i] \in S
  <2>1. CASE i \in 1 .. Len(x)
    BY <2>1, <1>1, <1>2
  <2>2. CASE i > Len(x)
    <3>1. i - Len(x) \in 1 .. Len(y) /\ Len(x) + (i - Len(x)) = i
      BY <1>1, <2>2
    <3>2. (x \o y)[Len(x) + (i - Len(x))] = y[i - Len(x)]
      BY <1>1, <3>1
    <3>3. QED
      BY <3>1, <3>2, <1>3
  <2>3. QED
    BY <1>1, <2>1, <2>2
<1>5. DOMAIN (x \o y) = 1 .. Len(x \o y)
  BY <1>1
<1>6. QED
  BY <1>4, <1>5 DEF Entries

LEMMA Part ==
    ASSUME NEW T, NEW s \in Seq(T), NEW a \in Nat, NEW b \in Nat, a <= b, b <= Len(s)
    PROVE  /\ SubSeq(s, a + 1, b) \in Seq(T)
           /\ Len(SubSeq(s, a + 1, b)) = b - a
           /\ \A i \in 1 .. b - a : SubSeq(s, a + 1, b)[i] = s[a + i]
<1>1. SubSeq(s, a + 1, b) = [i \in 1 .. (b - a) |-> s[a + i]]
  OBVIOUS
<1>2. \A i \in 1 .. (b - a) : s[a + i] \in T
  OBVIOUS
<1>3. b - a \in Nat
  OBVIOUS
<1>4. QED
  BY <1>1, <1>2, <1>3

LEMMA EntriesPart ==
    ASSUME NEW T, NEW s \in Seq(T), NEW a \in Nat, NEW b \in Nat, a <= b, b <= Len(s)
    PROVE  Entries(SubSeq(s, a + 1, b)) \subseteq Entries(s)
<1> DEFINE t == SubSeq(s, a + 1, b)
<1>1. t \in Seq(T) /\ Len(t) = b - a /\ \A i \in 1 .. b - a : t[i] = s[a + i]
  BY Part
<1> HIDE DEF t
<1>2. DOMAIN t = 1 .. (b - a) /\ DOMAIN s = 1 .. Len(s)
  BY <1>1
<1>3. \A i \in 1 .. (b - a) : a + i \in 1 .. Len(s)
  OBVIOUS
<1>4. Entries(t) \subseteq Entries(s)
  BY <1>1, <1>2, <1>3, Zenon DEF Entries
<1>5. QED
  BY <1>4 DEF t

LEMMA TwoParts ==
    ASSUME NEW T, NEW s \in Seq(T), NEW a \in Nat, NEW b \in Nat, a <= b, b <= Len(s)
    PROVE  SubSeq(s, 1, a) \o SubSeq(s, a + 1, b) = SubSeq(s, 1, b)
<1> DEFINE x == SubSeq(s, 1, a)
           y == SubSeq(s, a + 1, b)
           z == SubSeq(s, 1, b)
<1>1. x \in Seq(T) /\ Len(x) = a /\ \A n \in 1 .. a : x[n] = s[n]
  OBVIOUS
<1>2. y \in Seq(T) /\ Len(y) = b - a /\ \A n \in 1 .. b - a : y[n] = s[a + n]
  BY Part
<1>3. z \in Seq(T) /\ Len(z) = b /\ \A n \in 1 .. b : z[n] = s[n]
  OBVIOUS
<1> HIDE DEF x, y, z
<1>4. /\ x \o y \in Seq(T)
      /\ Len(x \o y) = Len(x) + Len(y)
      /\ \A i \in 1 .. Len(x) : (x \o y)[i] = x[i]
      /\ \A i \in 1 .. Len(y) : (x \o y)[Len(x) + i] = y[i]
  <2>1. x \in Seq(T) /\ y \in Seq(T)
    BY <1>1, <1>2
  <2>2. QED
    BY ONLY <2>1, Concat
<1>5. ASSUME NEW n \in 1 .. b PROVE (x \o y)[n] = z[n]
  <2>1. CASE n <= a
    <3>1. n \in 1 .. a /\ n \in 1 .. Len(x)
      BY <2>1, <1>1
    <3>2. QED
      BY <3>1, <1>1, <1>3, <1>4
  <2>2. CASE n > a
    <3>1. n - a \in 1 .. b - a /\ a + (n - a) = n
      BY <2>2
    <3>2. (x \o y)[a + (n - a)] = y[n - a]
      BY <1>1, <1>2, <1>4, <3>1
    <3>3. QED
      BY <1>2, <1>3, <3>1, <3>2, Zenon
  <2>3. n <= a \/ n > a
    OBVIOUS
  <2>4. QED
    BY <2>1, <2>2, <2>3, Zenon
<1>6. Len(x \o y) = b
  BY <1>1, <1>2, <1>4
<1>7. x \o y = z
  BY <1>3, <1>4, <1>5, <1>6
<1>8. QED
  BY <1>7 DEF x, y, z

LEMMA OneMore ==
    ASSUME NEW T, NEW d \in Seq(T), NEW s \in Seq(T), NEW j \in Nat, j + 1 <= Len(s)
    PROVE  d \o SubSeq(s, 1, j + 1) = Append(d \o SubSeq(s, 1, j), s[j + 1])
OBVIOUS
-----------------------------------------------------------------------------
(* One piece more.                                                         *)

\* What a configuration is.
LEMMA ConfigTypes ==
    ASSUME NEW c \in Configs
    PROVE  /\ c \in Seq(Peer) /\ Len(c) \in Nat
           /\ \A p \in 1 .. Len(c) : /\ c[p] \in Peer
                                     /\ c[p].key \in Key
                                     /\ c[p].aips \in Seq(Ip)
                                     /\ Len(c[p].aips) \in Nat
           /\ \A p, q \in 1 .. Len(c) : c[p].key = c[q].key => p = q
<1>1. /\ c \in Seq(Peer)
      /\ \A p, q \in 1 .. Len(c) : c[p].key = c[q].key => p = q
  BY ConfigAssumption
<1>2. Len(c) \in Nat /\ \A p \in 1 .. Len(c) : c[p] \in Peer
  BY <1>1
<1>3. \A x \in Peer : x.key \in Key /\ x.aips \in Seq(Ip) /\ Len(x.aips) \in Nat
  BY DEF Peer
<1>4. QED
  BY <1>1, <1>2, <1>3

LEMMA JoinFields ==
    ASSUME NEW x, NEW y
    PROVE  /\ JoinNext(x, y).key = x.key
           /\ JoinNext(x, y).aips = x.aips \o y.aips
           /\ JoinNext(x, y).tail = (y.aips # << >>)
BY Zenon DEF JoinNext

\* The nest at which a message starts, and those behind it, keep the pieces
\* with their peers.
LEMMA AddNamed ==
    ASSUME NEW c \in Configs, NEW d, NEW p \in Nat, Named(d, c, p),
           NEW q \in 1 .. Len(c), q = p \/ q = p + 1,
           NEW x \in Peer, x.key = c[q].key, Entries(x.aips) \subseteq Entries(c[q].aips)
    PROVE  Named(Append(d, x), c, q)
<1> DEFINE list == coalesce_peers(d)
           new == CoalesceNext(list, x)
<1>1. /\ d \in Seq(Peer)
      /\ p = 0 => d = << >>
      /\ list \in Seq(Node)
      /\ Len(list) = p
      /\ \A r \in 1 .. p : /\ list[r].key = c[r].key
                           /\ Entries(list[r].aips) \subseteq Entries(c[r].aips)
  BY Zenon DEF Named
<1>2. coalesce_peers(Append(d, x)) = new
  BY <1>1, CoalesceAppend
<1>3. Append(d, x) \in Seq(Peer) /\ q # 0
  BY <1>1
<1>4. /\ \A r, s \in 1 .. Len(c) : c[r].key = c[s].key => r = s
      /\ Len(c) \in Nat
  BY ConfigTypes
<1> HIDE DEF list, new
<1>5. CASE q = p
  <2>1. Len(list) > 0 /\ list[Len(list)].key = x.key
    BY <1>1, <1>5
  <2>2. /\ new \in Seq(Node)
        /\ Len(new) = Len(list)
        /\ \A r \in 1 .. Len(list) - 1 : new[r] = list[r]
        /\ new[Len(list)] = JoinNext(list[Len(list)], x)
    BY <1>1, <2>1, RoundJoins, Zenon DEF new
  <2>3. ASSUME NEW r \in 1 .. q
        PROVE  new[r].key = c[r].key /\ Entries(new[r].aips) \subseteq Entries(c[r].aips)
    <3>1. CASE r \in 1 .. Len(list) - 1
      BY <3>1, <1>1, <1>5, <2>2, Zenon
    <3>2. CASE r = Len(list)
      <4>1. list[r] \in Node /\ r = q /\ r \in 1 .. p
        BY <1>1, <3>2, <1>5
      <4>2. list[r].aips \in Seq(Ip) /\ x.aips \in Seq(Ip)
        BY <4>1 DEF Node, Peer
      <4>3. new[r].key = list[r].key /\ new[r].aips = list[r].aips \o x.aips
        <5>1. new[r] = JoinNext(list[r], x)
          BY <2>2, <3>2
        <5>2. /\ JoinNext(list[r], x).key = list[r].key
              /\ JoinNext(list[r], x).aips = list[r].aips \o x.aips
          BY ONLY JoinFields, Zenon
        <5>3. QED
          BY ONLY <5>1, <5>2
      <4>4. Entries(list[r].aips) \subseteq Entries(c[r].aips) /\ list[r].key = c[r].key
        BY <1>1, <4>1, Zenon
      <4>5. Entries(x.aips) \subseteq Entries(c[r].aips)
        BY <4>1
      <4>6. Entries(list[r].aips \o x.aips) \subseteq Entries(c[r].aips)
        BY <4>2, <4>4, <4>5, RangeConcat
      <4>7. QED
        BY <4>3, <4>4, <4>6
    <3>3. r \in 1 .. Len(list) - 1 \/ r = Len(list)
      BY <1>1, <1>5
    <3>4. QED
      BY <3>1, <3>2, <3>3
  <2>4. Len(new) = q
    BY <1>1, <1>5, <2>2
  <2>5. QED
    BY <1>2, <1>3, <2>2, <2>3, <2>4, Zenon DEF Named
<1>6. CASE q = p + 1
  <2>1. Len(list) > 0 => list[Len(list)].key # x.key
    <3> SUFFICES ASSUME Len(list) > 0, list[Len(list)].key = x.key PROVE FALSE
      OBVIOUS
    <3>1. p \in 1 .. Len(c) /\ p \in 1 .. p /\ p # q
      BY <1>1, <1>4, <1>6
    <3>2. c[p].key = c[q].key
      BY <1>1, <3>1
    <3>3. QED
      BY <1>4, <3>1, <3>2
  <2>2. /\ new \in Seq(Node)
        /\ Len(new) = Len(list) + 1
        /\ \A r \in 1 .. Len(list) : new[r] = list[r]
        /\ new[Len(list) + 1].key = x.key
        /\ new[Len(list) + 1].aips = x.aips
    BY <1>1, <2>1, RoundMovesOn, Zenon DEF new
  <2>3. ASSUME NEW r \in 1 .. q
        PROVE  new[r].key = c[r].key /\ Entries(new[r].aips) \subseteq Entries(c[r].aips)
    <3>1. CASE r \in 1 .. Len(list)
      BY <3>1, <1>1, <2>2, Zenon
    <3>2. CASE r = Len(list) + 1
      BY <3>2, <1>1, <1>6, <2>2
    <3>3. r \in 1 .. Len(list) \/ r = Len(list) + 1
      BY <1>1, <1>6
    <3>4. QED
      BY <3>1, <3>2, <3>3
  <2>4. Len(new) = q
    BY <1>1, <1>6, <2>2
  <2>5. QED
    BY <1>2, <1>3, <2>2, <2>3, <2>4, Zenon DEF Named
<1>7. QED
  BY <1>5, <1>6

\* Whether coalesce_peers follows NULL, with a piece more.
LEMMA StillSafe ==
    ASSUME NEW d \in Seq(Peer), NEW x \in Peer, ~FollowsNull(d),
           LET list == coalesce_peers(d)
               last == list[Len(list)]
           IN  d # << >> /\ last.key = x.key /\ last.aips # << >> => last.tail
    PROVE  ~FollowsNull(Append(d, x))
<1> DEFINE u == Append(d, x)
           Bad(e, n) == LET list == coalesce_peers(SubSeq(e, 1, n))
                            last == list[Len(list)]
                        IN  last.key = e[n + 1].key /\ last.aips # << >> /\ ~last.tail
<1>1. /\ u \in Seq(Peer)
      /\ Len(d) \in Nat /\ Len(u) = Len(d) + 1
      /\ \A n \in 1 .. Len(d) : u[n] = d[n]
      /\ u[Len(d) + 1] = x
  OBVIOUS
<1>2. \A n \in 1 .. Len(d) : SubSeq(u, 1, n) = SubSeq(d, 1, n)
  OBVIOUS
<1>3. SubSeq(d, 1, Len(d)) = d
  OBVIOUS
<1> HIDE DEF u
<1>4. ASSUME NEW n \in 1 .. Len(d)
      PROVE  ~Bad(u, n)
  <2>1. CASE n < Len(d)
    <3>1. n \in 1 .. Len(d) - 1 /\ n + 1 \in 1 .. Len(d)
      BY <1>1, <2>1
    <3>2. ~Bad(d, n)
      BY <3>1 DEF FollowsNull
    <3>3. u[n + 1] = d[n + 1] /\ SubSeq(u, 1, n) = SubSeq(d, 1, n)
      BY <1>1, <1>2, <3>1
    <3>4. QED
      BY <3>2, <3>3, Zenon
  <2>2. CASE n = Len(d)
    <3>1. d # << >>
      BY <2>2
    <3>2. SubSeq(u, 1, n) = d /\ u[n + 1] = x
      BY <1>1, <1>2, <1>3, <2>2
    <3>3. QED
      BY <3>1, <3>2, Zenon
  <2>3. QED
    BY <1>1, <2>1, <2>2
<1>5. Len(u) - 1 = Len(d)
  BY <1>1
<1>6. ~FollowsNull(u)
  BY <1>4, <1>5 DEF FollowsNull
<1>7. QED
  BY <1>6 DEF u

\* How much of the peer q the pieces up to the place t hold.
Held(c, t, q) == IF q = t[1] THEN t[2] ELSE Len(c[q].aips)

LEMMA ExactHeld ==
    ASSUME NEW d, NEW c, NEW t
    PROVE  Exact(d, c, t) <=>
             /\ \A q \in 1 .. t[1] : coalesce_peers(d)[q].aips = SubSeq(c[q].aips, 1, Held(c, t, q))
             /\ t[2] > 0 => coalesce_peers(d)[t[1]].tail
             /\ ~FollowsNull(d)
BY DEF Exact, Held

\* A nest that continues the last peer: coalesce_peers joins it.
LEMMA ContinueExact ==
    ASSUME NEW c \in Configs, NEW d, NEW p \in 1 .. Len(c), NEW a \in Nat, NEW b \in Nat,
           Named(d, c, p), Exact(d, c, <<p, a>>), a < b, b <= Len(c[p].aips),
           NEW x \in Peer, x.key = c[p].key, x.aips = SubSeq(c[p].aips, a + 1, b)
    PROVE  Exact(Append(d, x), c, <<p, b>>)
<1> DEFINE list == coalesce_peers(d)
           new == CoalesceNext(list, x)
<1>1. /\ d \in Seq(Peer)
      /\ list \in Seq(Node)
      /\ Len(list) = p
      /\ \A r \in 1 .. p : list[r].key = c[r].key
  BY DEF Named
<1>2. coalesce_peers(Append(d, x)) = new
  BY <1>1, CoalesceAppend
<1>3. /\ <<p, a>>[1] = p /\ <<p, a>>[2] = a /\ <<p, b>>[1] = p /\ <<p, b>>[2] = b
      /\ p \in Nat /\ p >= 1 /\ p \in 1 .. p
  BY ConfigTypes
<1>4. /\ \A q \in 1 .. p : list[q].aips = SubSeq(c[q].aips, 1, Held(c, <<p, a>>, q))
      /\ a > 0 => list[p].tail
      /\ ~FollowsNull(d)
  BY <1>3, ExactHeld, Zenon
<1>5. c[p].aips \in Seq(Ip) /\ Len(c[p].aips) \in Nat
  BY ConfigTypes
<1>6. x.aips # << >>
  <2>1. Len(x.aips) = b - a
    BY <1>5, Part
  <2>2. QED
    BY <2>1
<1> HIDE DEF list, new
<1>7. /\ new \in Seq(Node)
      /\ \A r \in 1 .. p - 1 : new[r] = list[r]
      /\ new[p] = JoinNext(list[p], x)
  <2>1. Len(list) > 0 /\ list[Len(list)].key = x.key
    BY <1>1, <1>3
  <2>2. QED
    BY <1>1, <2>1, RoundJoins, Zenon DEF new
<1>8. new[p].aips = SubSeq(c[p].aips, 1, b) /\ new[p].tail
  <2>1. /\ JoinNext(list[p], x).aips = list[p].aips \o x.aips
        /\ JoinNext(list[p], x).tail = (x.aips # << >>)
    BY ONLY JoinFields, Zenon
  <2>2. list[p].aips = SubSeq(c[p].aips, 1, a)
    BY <1>3, <1>4 DEF Held
  <2>3. SubSeq(c[p].aips, 1, a) \o SubSeq(c[p].aips, a + 1, b) = SubSeq(c[p].aips, 1, b)
    BY <1>5, TwoParts
  <2>4. new[p].tail
    BY ONLY <1>6, <1>7, <2>1, Zenon
  <2>5. new[p].aips = list[p].aips \o x.aips
    BY ONLY <1>7, <2>1
  <2>6. QED
    BY <2>2, <2>3, <2>4, <2>5
<1>9. ASSUME NEW q \in 1 .. p
      PROVE  new[q].aips = SubSeq(c[q].aips, 1, Held(c, <<p, b>>, q))
  <2>1. CASE q = p
    BY <2>1, <1>3, <1>8 DEF Held
  <2>2. CASE q # p
    <3>1. q \in 1 .. p - 1
      BY <2>2, <1>3
    <3>2. new[q] = list[q] /\ Held(c, <<p, b>>, q) = Held(c, <<p, a>>, q)
      BY <3>1, <2>2, <1>3, <1>7 DEF Held
    <3>3. QED
      BY <3>2, <1>4, Zenon
  <2>3. QED
    BY <2>1, <2>2, Zenon
<1>10. ~FollowsNull(Append(d, x))
  <2>1. list[Len(list)].aips # << >> => list[Len(list)].tail
    <3>1. a = 0 => SubSeq(c[p].aips, 1, a) = << >>
      BY <1>5
    <3>2. list[p].aips = SubSeq(c[p].aips, 1, a)
      BY <1>3, <1>4 DEF Held
    <3>3. list[p].aips # << >> => a > 0
      BY <3>1, <3>2
    <3>4. QED
      BY <1>1, <1>4, <3>3
  <2>2. QED
    BY <1>1, <1>4, <2>1, StillSafe DEF list
<1>11. QED
  BY <1>2, <1>3, <1>8, <1>9, <1>10, ExactHeld, Zenon

\* A nest of the next peer: coalesce_peers moves on to it.
LEMMA NextExact ==
    ASSUME NEW c \in Configs, NEW d, NEW p \in Nat, NEW b \in Nat,
           p + 1 \in 1 .. Len(c), b <= Len(c[p + 1].aips),
           Named(d, c, p), Exact(d, c, <<p, Aips(c, p)>>),
           NEW x \in Peer, x.key = c[p + 1].key, x.aips = SubSeq(c[p + 1].aips, 1, b)
    PROVE  Exact(Append(d, x), c, <<p + 1, b>>)
<1> DEFINE list == coalesce_peers(d)
           new == CoalesceNext(list, x)
           t == <<p, Aips(c, p)>>
           u == <<p + 1, b>>
<1>1. /\ d \in Seq(Peer)
      /\ p = 0 => d = << >>
      /\ list \in Seq(Node)
      /\ Len(list) = p
      /\ \A r \in 1 .. p : list[r].key = c[r].key
  BY DEF Named
<1>2. coalesce_peers(Append(d, x)) = new
  BY <1>1, CoalesceAppend
<1>3. t[1] = p /\ t[2] = Aips(c, p) /\ u[1] = p + 1 /\ u[2] = b
  OBVIOUS
<1>4. /\ \A q \in 1 .. t[1] : list[q].aips = SubSeq(c[q].aips, 1, Held(c, t, q))
      /\ ~FollowsNull(d)
  BY ExactHeld
<1>5. /\ c[p + 1].aips \in Seq(Ip)
      /\ Len(c) \in Nat
      /\ \A r, s \in 1 .. Len(c) : c[r].key = c[s].key => r = s
  BY ConfigTypes
<1> HIDE DEF list, new, t, u
<1>6. Len(list) > 0 => list[Len(list)].key # x.key
  <2> SUFFICES ASSUME Len(list) > 0, list[Len(list)].key = x.key PROVE FALSE
    OBVIOUS
  <2>1. p \in 1 .. Len(c) /\ p \in 1 .. p /\ p # p + 1
    BY <1>1, <1>5
  <2>2. c[p].key = c[p + 1].key
    BY <1>1, <2>1
  <2>3. QED
    BY <1>5, <2>1, <2>2
<1>7. /\ \A r \in 1 .. p : new[r] = list[r]
      /\ new[p + 1].aips = x.aips
      /\ new[p + 1].tail = (x.aips # << >>)
  BY <1>1, <1>6, RoundMovesOn, Zenon DEF new
<1>8. b > 0 => new[p + 1].tail
  <2>1. Len(x.aips) = b
    BY <1>5
  <2>2. b > 0 => x.aips # << >>
    BY <2>1
  <2>3. QED
    BY ONLY <1>7, <2>2, Zenon
<1>9. ASSUME NEW q \in 1 .. p + 1
      PROVE  new[q].aips = SubSeq(c[q].aips, 1, Held(c, u, q))
  <2>1. CASE q = p + 1
    BY <2>1, <1>3, <1>7 DEF Held
  <2>2. CASE q \in 1 .. p
    <3>1. new[q] = list[q] /\ Held(c, u, q) = Held(c, t, q)
      BY <2>2, <1>3, <1>7 DEF Held, Aips
    <3>2. QED
      BY <3>1, <2>2, <1>3, <1>4
  <2>3. q = p + 1 \/ q \in 1 .. p
    OBVIOUS
  <2>4. QED
    BY <2>1, <2>2, <2>3
<1>10. ~FollowsNull(Append(d, x))
  <2>1. d # << >> => list[Len(list)].key # x.key
    BY <1>1, <1>6
  <2>2. QED
    BY <1>1, <1>4, <2>1, StillSafe DEF list
<1>11. Exact(Append(d, x), c, u)
  BY <1>2, <1>3, <1>8, <1>9, <1>10, ExactHeld
<1>12. QED
  BY <1>11 DEF u

-----------------------------------------------------------------------------
(* One message more, from the place t to the place u.                      *)

LEMMA AheadPlace ==
    ASSUME NEW c \in Configs, NEW t, NEW u \in Ahead(c, t)
    PROVE  /\ u \in Nat \X Nat
           /\ u[1] \in 1 .. Len(c)
           /\ u[2] \in 0 .. Len(c[u[1]].aips)
           /\ u[1] > t[1] \/ (u[1] = t[1] /\ u[2] > t[2])
           /\ IsPlace(c, u)
<1>1. PICK p \in 1 .. Len(c) : u \in {p} \X (0 .. Len(c[p].aips))
  BY DEF Ahead
<1>2. u[1] > t[1] \/ (u[1] = t[1] /\ u[2] > t[2])
  BY DEF Ahead
<1>3. u = <<p, u[2]>> /\ u[1] = p /\ u[2] \in 0 .. Len(c[p].aips)
  BY <1>1
<1>4. p \in Nat /\ Len(c[p].aips) \in Nat /\ p # 0 /\ p \in 0 .. Len(c)
  BY ConfigTypes
<1>5. u \in Nat \X Nat
  BY <1>3, <1>4
<1>6. QED
  BY <1>2, <1>3, <1>4, <1>5 DEF IsPlace, Aips

\* Where the dump stands after j nests.
At(c, t, u, j) ==
    IF j = 0 THEN t ELSE <<(FirstNest(c, t) + j) - 1, Held(c, u, (FirstNest(c, t) + j) - 1)>>

\* The first nest continues the peer of t or is that of the next peer; the
\* last nest is that of the peer of u.
NestsOf(c, t, u) ==
    LET f == FirstNest(c, t)
        nests == DumpMessage(c, t, u)
    IN  /\ f \in 1 .. u[1]
        /\ Len(nests) \in Nat /\ Len(nests) = (u[1] + 1) - f
        /\ nests \in Seq(Peer)
        /\ \A n \in 1 .. Len(nests) : /\ (f + n) - 1 \in f .. u[1]
                                      /\ nests[n] = Nest(c, t, u, (f + n) - 1)
        /\ \A p \in f .. u[1] : /\ Nest(c, t, u, p) \in Peer
                                /\ Nest(c, t, u, p).key = c[p].key
                                /\ Entries(Nest(c, t, u, p).aips) \subseteq Entries(c[p].aips)
        /\ \A p \in f .. u[1] : /\ p \in 1 .. Len(c)
                                /\ Held(c, u, p) \in 0 .. Len(c[p].aips)
        /\ f = t[1] => /\ t[2] < Held(c, u, f)
                       /\ Nest(c, t, u, f).aips = SubSeq(c[f].aips, t[2] + 1, Held(c, u, f))
        /\ f # t[1] => f = t[1] + 1 /\ t[2] = Aips(c, t[1])
        /\ \A p \in f .. u[1] :
              p # t[1] => Nest(c, t, u, p).aips = SubSeq(c[p].aips, 1, Held(c, u, p))

LEMMA Nests ==
    ASSUME NEW c \in Configs, NEW t, IsPlace(c, t), NEW u \in Ahead(c, t)
    PROVE  NestsOf(c, t, u)
<1> DEFINE f == FirstNest(c, t)
           nests == DumpMessage(c, t, u)
<1>1. /\ Len(c) \in Nat
      /\ \A p \in 1 .. Len(c) : /\ c[p] \in Peer
                                /\ c[p].key \in Key
                                /\ c[p].aips \in Seq(Ip)
                                /\ Len(c[p].aips) \in Nat
  BY ConfigTypes
<1>2. /\ u[1] \in 1 .. Len(c)
      /\ u[2] \in 0 .. Len(c[u[1]].aips)
      /\ u[1] > t[1] \/ (u[1] = t[1] /\ u[2] > t[2])
  BY AheadPlace
<1>3. /\ t[1] \in Nat /\ t[2] \in Nat
      /\ t[1] \in 0 .. Len(c)
      /\ t[2] \in 0 .. Aips(c, t[1])
  BY DEF IsPlace
<1>4. \/ f = t[1] /\ t[1] # 0 /\ t[2] < Len(c[t[1]].aips)
      \/ f = t[1] + 1 /\ t[2] = Aips(c, t[1])
  <2>1. Aips(c, t[1]) \in Nat
    BY <1>1, <1>3 DEF Aips
  <2>2. CASE t[2] < Aips(c, t[1])
    BY <1>3, <2>2 DEF FirstNest, Aips
  <2>3. CASE t[2] = Aips(c, t[1])
    BY <1>3, <2>1, <2>3 DEF FirstNest
  <2>4. QED
    BY <1>3, <2>1, <2>2, <2>3
<1>5. f \in 1 .. u[1]
  <2>1. CASE f = t[1] /\ t[1] # 0
    BY <2>1, <1>2, <1>3
  <2>2. CASE f = t[1] + 1 /\ t[2] = Aips(c, t[1])
    <3>1. u[1] # t[1]
      <4> SUFFICES ASSUME u[1] = t[1] PROVE FALSE
        OBVIOUS
      <4>1. u[2] <= Len(c[t[1]].aips) /\ t[2] = Len(c[t[1]].aips) /\ u[2] > t[2]
        BY <1>1, <1>2, <1>3, <2>2 DEF Aips
      <4>2. QED
        BY <4>1, <1>1, <1>2
    <3>2. QED
      BY <3>1, <2>2, <1>2, <1>3
  <2>3. QED
    BY <1>4, <2>1, <2>2
<1> HIDE DEF f
<1>6. ASSUME NEW p \in f .. u[1]
      PROVE  /\ p \in 1 .. Len(c) /\ p \in Nat
             /\ Held(c, u, p) \in 0 .. Len(c[p].aips)
             /\ Held(c, u, p) \in Nat
  <2>1. p \in 1 .. Len(c) /\ p \in Nat
    BY <1>1, <1>2, <1>5
  <2>2. QED
    BY <2>1, <1>1, <1>2 DEF Held
<1>7. \A p : /\ Nest(c, t, u, p).key = c[p].key
             /\ p = t[1] => Nest(c, t, u, p).aips = SubSeq(c[p].aips, t[2] + 1, Held(c, u, p))
             /\ p # t[1] => Nest(c, t, u, p).aips = SubSeq(c[p].aips, 1, Held(c, u, p))
             /\ Nest(c, t, u, p) = [key |-> c[p].key, aips |-> Nest(c, t, u, p).aips]
  BY Zenon DEF Nest, Held
<1>8. f = t[1] => t[2] < Held(c, u, f)
  <2> SUFFICES ASSUME f = t[1] PROVE t[2] < Held(c, u, f)
    OBVIOUS
  <2>1. t[1] # 0 /\ t[2] < Len(c[t[1]].aips)
    BY <1>3, <1>4
  <2>2. CASE u[1] = t[1]
    BY <2>2, <1>2, <1>3 DEF Held
  <2>3. CASE u[1] # t[1]
    BY <2>1, <2>3 DEF Held
  <2>4. QED
    BY <2>2, <2>3
<1>9. ASSUME NEW p \in f .. u[1]
      PROVE  /\ Nest(c, t, u, p).aips \in Seq(Ip)
             /\ Entries(Nest(c, t, u, p).aips) \subseteq Entries(c[p].aips)
  <2>1. c[p].aips \in Seq(Ip) /\ Held(c, u, p) \in Nat /\ Held(c, u, p) <= Len(c[p].aips)
    BY <1>1, <1>6
  <2>2. CASE p = t[1]
    <3>1. p = f
      BY <2>2, <1>3, <1>4, <1>5
    <3>2. t[2] <= Held(c, u, p)
      BY <3>1, <2>1, <2>2, <1>3, <1>8
    <3>3. Nest(c, t, u, p).aips = SubSeq(c[p].aips, t[2] + 1, Held(c, u, p)) /\ t[2] \in Nat
      BY <2>2, <1>3, <1>7
    <3>4. SubSeq(c[p].aips, t[2] + 1, Held(c, u, p)) \in Seq(Ip)
      BY ONLY <2>1, <3>2, <3>3, Part
    <3>5. Entries(SubSeq(c[p].aips, t[2] + 1, Held(c, u, p))) \subseteq Entries(c[p].aips)
      BY ONLY <2>1, <3>2, <3>3, EntriesPart
    <3>6. QED
      BY ONLY <3>3, <3>4, <3>5
  <2>3. CASE p # t[1]
    <3>1. Nest(c, t, u, p).aips = SubSeq(c[p].aips, 0 + 1, Held(c, u, p)) /\ 0 <= Held(c, u, p)
      BY <2>1, <2>3, <1>7
    <3>2. SubSeq(c[p].aips, 0 + 1, Held(c, u, p)) \in Seq(Ip)
      BY ONLY <2>1, <3>1, Part
    <3>3. Entries(SubSeq(c[p].aips, 0 + 1, Held(c, u, p))) \subseteq Entries(c[p].aips)
      BY ONLY <2>1, <3>1, EntriesPart, Zenon
    <3>4. QED
      BY ONLY <3>1, <3>2, <3>3
  <2>4. QED
    BY <2>2, <2>3
<1>10. \A p \in f .. u[1] : Nest(c, t, u, p) \in Peer
  BY <1>1, <1>6, <1>7, <1>9 DEF Peer
<1>11. \A n \in 1 .. (u[1] + 1) - f : (f + n) - 1 \in f .. u[1]
  BY <1>2, <1>5
<1>12. nests = [n \in 1 .. (u[1] + 1) - f |-> Nest(c, t, u, (f + n) - 1)]
  BY DEF DumpMessage, f
<1>13. (u[1] + 1) - f \in Nat
  BY <1>2, <1>5
<1>14. nests \in Seq(Peer) /\ Len(nests) = (u[1] + 1) - f
  <2>1. \A n \in 1 .. (u[1] + 1) - f : Nest(c, t, u, (f + n) - 1) \in Peer
    BY <1>10, <1>11
  <2> DEFINE N == (u[1] + 1) - f
  <2> HIDE DEF N, nests
  <2>2. N \in Nat /\ nests = [n \in 1 .. N |-> Nest(c, t, u, (f + n) - 1)]
        /\ \A n \in 1 .. N : Nest(c, t, u, (f + n) - 1) \in Peer
    BY <1>12, <1>13, <2>1 DEF N
  <2>3. QED
    BY <2>2 DEF N
<1>15. f # t[1] => f = t[1] + 1 /\ t[2] = Aips(c, t[1])
  BY <1>4
<1>16. \A n \in 1 .. Len(nests) : /\ (f + n) - 1 \in f .. u[1]
                                  /\ nests[n] = Nest(c, t, u, (f + n) - 1)
  BY <1>11, <1>12, <1>14, Zenon
<1> HIDE DEF nests
<1>17. QED
  BY <1>5, <1>6, <1>7, <1>8, <1>9, <1>10, <1>13, <1>14, <1>15, <1>16, Zenon DEF f, nests, NestsOf

LEMMA NoMore ==
    ASSUME NEW T, NEW d \in Seq(T), NEW s \in Seq(T)
    PROVE  d \o SubSeq(s, 1, 0) = d /\ SubSeq(s, 1, Len(s)) = s
OBVIOUS

\* The pieces of the first j nests, each perhaps cut short, stand with the
\* peers of c.
LEMMA MessageNamedUpto ==
    ASSUME NEW c \in Configs, NEW t, IsPlace(c, t), NEW u \in Ahead(c, t),
           NEW d, Named(d, c, t[1]),
           NEW s \in Seq(Peer), Len(s) = Len(DumpMessage(c, t, u)),
           \A n \in 1 .. Len(s) :
              /\ s[n].key = DumpMessage(c, t, u)[n].key
              /\ Entries(s[n].aips) \subseteq Entries(DumpMessage(c, t, u)[n].aips),
           NEW j \in 0 .. Len(s)
    PROVE  Named(d \o SubSeq(s, 1, j), c, At(c, t, u, j)[1])
<1> DEFINE f == FirstNest(c, t)
           nests == DumpMessage(c, t, u)
           P(i) == Named(d \o SubSeq(s, 1, i), c, At(c, t, u, i)[1])
           S == {i \in Nat : i <= Len(s) => P(i)}
<1>1. d \in Seq(Peer) /\ Len(s) \in Nat
  BY DEF Named
<1>2. /\ f \in 1 .. u[1]
      /\ \A n \in 1 .. Len(s) : /\ (f + n) - 1 \in f .. u[1]
                                /\ nests[n] = Nest(c, t, u, (f + n) - 1)
      /\ \A p \in f .. u[1] : /\ p \in 1 .. Len(c)
                              /\ Nest(c, t, u, p).key = c[p].key
                              /\ Entries(Nest(c, t, u, p).aips) \subseteq Entries(c[p].aips)
      /\ f = t[1] \/ f = t[1] + 1
  <2>1. NestsOf(c, t, u)
    BY Nests
  <2>2. QED
    BY <2>1, Zenon DEF NestsOf
<1>3. u[1] \in Nat /\ t[1] \in Nat /\ f \in Nat
  <2>1. u[1] \in 1 .. Len(c) /\ Len(c) \in Nat
    BY AheadPlace, ConfigTypes, Zenon
  <2>2. f \in 1 .. u[1]
    BY <1>2, Zenon
  <2>3. t \in Nat \X Nat
    BY DEF IsPlace
  <2>4. QED
    BY ONLY <2>1, <2>2, <2>3
<1>4. 0 \in S
  <2>1. At(c, t, u, 0) = t
    BY DEF At
  <2>2. d \o SubSeq(s, 1, 0) = d
    BY <1>1, NoMore
  <2>3. P(0)
    BY <2>1, <2>2, Zenon
  <2> HIDE DEF P
  <2>4. QED
    BY <2>3
<1> HIDE DEF f, nests
<1>5. ASSUME NEW i \in S
      PROVE  i + 1 \in S
  <2> SUFFICES ASSUME i + 1 <= Len(s) PROVE P(i + 1)
    <3> HIDE DEF P
    <3> QED OBVIOUS
  <2>1. i \in Nat /\ i + 1 \in 1 .. Len(s)
    BY <1>1
  <2>2. P(i)
    <3> HIDE DEF P
    <3> QED BY <1>1, <2>1
  <2> DEFINE p == At(c, t, u, i)[1]
             q == f + i
             e == d \o SubSeq(s, 1, i)
  <2>3. q = (f + (i + 1)) - 1 /\ q \in f .. u[1] /\ At(c, t, u, i + 1)[1] = q
    <3>1. q = (f + (i + 1)) - 1 /\ i + 1 # 0
      BY <1>3, <2>1
    <3>2. q \in f .. u[1]
      BY <1>2, <2>1, <3>1
    <3>3. At(c, t, u, i + 1)[1] = (f + (i + 1)) - 1
      BY <3>1 DEF At, f
    <3>4. QED
      BY <3>1, <3>2, <3>3
  <2>4. p \in Nat /\ (q = p \/ q = p + 1)
    <3>1. CASE i = 0
      <4>1. p = t[1] /\ q = f
        BY <3>1, <1>3 DEF At
      <4>2. QED
        BY <4>1, <1>2, <1>3
    <3>2. CASE i # 0
      <4>1. p = (f + i) - 1
        BY <3>2 DEF At, f
      <4>2. QED
        BY <4>1, <3>2, <2>1, <1>2, <1>3
    <3>3. QED
      BY <3>1, <3>2
  <2>5. /\ s[i + 1] \in Peer
        /\ s[i + 1].key = c[q].key
        /\ Entries(s[i + 1].aips) \subseteq Entries(c[q].aips)
    <3>1. nests[i + 1] = Nest(c, t, u, q)
      BY <1>2, <2>1, <2>3, Zenon
    <3>2. s[i + 1].key = nests[i + 1].key /\ Entries(s[i + 1].aips) \subseteq Entries(nests[i + 1].aips)
      BY <2>1 DEF nests
    <3>3. /\ Nest(c, t, u, q).key = c[q].key
          /\ Entries(Nest(c, t, u, q).aips) \subseteq Entries(c[q].aips)
      BY <1>2, <2>3, Zenon
    <3>4. s[i + 1] \in Peer
      BY <2>1
    <3>5. QED
      BY ONLY <3>1, <3>2, <3>3, <3>4
  <2>6. d \o SubSeq(s, 1, i + 1) = Append(e, s[i + 1])
    BY <1>1, <2>1, OneMore
  <2>7. Named(e, c, p) /\ q \in 1 .. Len(c)
    BY <1>2, <2>2, <2>3
  <2> HIDE DEF p, q, e
  <2>8. Named(Append(e, s[i + 1]), c, q)
    BY ONLY <2>4, <2>5, <2>7, c \in Configs, AddNamed, Zenon
  <2>9. QED
    BY <2>3, <2>6, <2>8, Zenon
<1>6. S \in SUBSET Nat
  OBVIOUS
<1>7. S = Nat
  <2> HIDE DEF S
  <2> QED BY <1>4, <1>5, <1>6, EveryNat, Zenon
<1>8. P(j)
  <2> HIDE DEF P
  <2> QED BY <1>1, <1>7
<1>9. QED
  BY <1>8

\* The whole message.
LEMMA MessageNamed ==
    ASSUME NEW c \in Configs, NEW t, IsPlace(c, t), NEW u \in Ahead(c, t),
           NEW d, Named(d, c, t[1]),
           NEW s \in Seq(Peer), Len(s) = Len(DumpMessage(c, t, u)),
           \A n \in 1 .. Len(s) :
              /\ s[n].key = DumpMessage(c, t, u)[n].key
              /\ Entries(s[n].aips) \subseteq Entries(DumpMessage(c, t, u)[n].aips)
    PROVE  Named(d \o s, c, u[1])
<1> DEFINE m == Len(s)
<1>1. m \in 0 .. Len(s) /\ m \in Nat
  OBVIOUS
<1>2. Named(d \o SubSeq(s, 1, m), c, At(c, t, u, m)[1])
  BY <1>1, MessageNamedUpto, Zenon
<1>3. /\ FirstNest(c, t) \in 1 .. u[1]
      /\ m = (u[1] + 1) - FirstNest(c, t)
      /\ u[1] \in Nat
  <2>1. NestsOf(c, t, u) /\ u[1] \in Nat
    BY Nests, AheadPlace
  <2>2. QED
    BY <2>1 DEF NestsOf
<1> HIDE DEF m
<1>4. At(c, t, u, m)[1] = u[1]
  <2>1. m # 0 /\ (FirstNest(c, t) + m) - 1 = u[1]
    BY <1>3
  <2>2. QED
    BY <2>1 DEF At
<1>5. SubSeq(s, 1, m) = s
  BY NoMore DEF m
<1>6. QED
  BY <1>2, <1>4, <1>5, Zenon

\* Nests that are parsed whole leave nothing out.
LEMMA MessageExact ==
    ASSUME NEW c \in Configs, NEW t, IsPlace(c, t), NEW u \in Ahead(c, t),
           NEW d, Named(d, c, t[1]), Exact(d, c, t)
    PROVE  Exact(d \o DumpMessage(c, t, u), c, u)
<1> DEFINE f == FirstNest(c, t)
           s == DumpMessage(c, t, u)
           P(i) == Exact(d \o SubSeq(s, 1, i), c, At(c, t, u, i))
           S == {i \in Nat : i <= Len(s) => P(i)}
<1>1. NestsOf(c, t, u) /\ d \in Seq(Peer)
  BY Nests DEF Named
<1>2. /\ f \in 1 .. u[1]
      /\ s \in Seq(Peer) /\ Len(s) \in Nat /\ Len(s) = (u[1] + 1) - f
      /\ \A n \in 1 .. Len(s) : /\ (f + n) - 1 \in f .. u[1]
                                /\ s[n] = Nest(c, t, u, (f + n) - 1)
      /\ \A p \in f .. u[1] : /\ Nest(c, t, u, p) \in Peer
                              /\ Nest(c, t, u, p).key = c[p].key
                              /\ p \in 1 .. Len(c)
                              /\ Held(c, u, p) \in 0 .. Len(c[p].aips)
      /\ f = t[1] => /\ t[2] < Held(c, u, f)
                     /\ Nest(c, t, u, f).aips = SubSeq(c[f].aips, t[2] + 1, Held(c, u, f))
      /\ f # t[1] => f = t[1] + 1 /\ t[2] = Aips(c, t[1])
      /\ \A p \in f .. u[1] :
            p # t[1] => Nest(c, t, u, p).aips = SubSeq(c[p].aips, 1, Held(c, u, p))
  BY <1>1, Zenon DEF NestsOf
<1>3. /\ u[1] \in Nat /\ u[2] \in Nat /\ t[1] \in Nat /\ t[2] \in Nat /\ f \in Nat
      /\ t = <<t[1], t[2]>> /\ u = <<u[1], u[2]>>
      /\ \A p \in 1 .. Len(c) : Len(c[p].aips) \in Nat
  <2>1. u \in Nat \X Nat /\ t \in Nat \X Nat
    BY AheadPlace DEF IsPlace
  <2>2. \A p \in 1 .. Len(c) : Len(c[p].aips) \in Nat
    BY ConfigTypes
  <2>3. f \in 1 .. u[1]
    BY <1>2, Zenon
  <2>4. u[1] \in Nat /\ f \in Nat
    BY ONLY <2>1, <2>3
  <2>5. t[1] \in Nat /\ t[2] \in Nat /\ u[2] \in Nat /\ t = <<t[1], t[2]>> /\ u = <<u[1], u[2]>>
    BY ONLY <2>1
  <2>6. QED
    BY ONLY <2>2, <2>4, <2>5
<1>4. /\ f \in 1 .. u[1] /\ Len(s) \in Nat /\ Len(s) = (u[1] + 1) - f
      /\ f = t[1] \/ f = t[1] + 1
  BY <1>2
<1>5. d \in Seq(Peer) /\ s \in Seq(Peer)
  BY <1>1, <1>2
<1>6. 0 \in S
  <2>1. At(c, t, u, 0) = t
    BY DEF At
  <2>2. d \o SubSeq(s, 1, 0) = d
    BY <1>1, <1>2, NoMore
  <2>3. P(0)
    BY <2>1, <2>2, Zenon
  <2> HIDE DEF P
  <2>4. QED
    BY <2>3
<1>7. \A i \in 0 .. Len(s) : Named(d \o SubSeq(s, 1, i), c, At(c, t, u, i)[1])
  <2>1. \A n \in 1 .. Len(s) : s[n].key = s[n].key /\ Entries(s[n].aips) \subseteq Entries(s[n].aips)
    OBVIOUS
  <2>2. QED
    BY <1>2, <2>1, MessageNamedUpto, Zenon
<1> HIDE DEF f, s
<1>8. ASSUME NEW i \in S
      PROVE  i + 1 \in S
  <2> SUFFICES ASSUME i + 1 <= Len(s) PROVE P(i + 1)
    <3> HIDE DEF P
    <3> QED OBVIOUS
  <2>1. i \in Nat /\ i + 1 \in 1 .. Len(s) /\ i \in 0 .. Len(s)
    BY <1>2
  <2>2. P(i)
    <3> HIDE DEF P
    <3> QED BY <1>2, <2>1
  <2> DEFINE q == f + i
             b == Held(c, u, f + i)
             e == d \o SubSeq(s, 1, i)
             x == s[i + 1]
  <2>3. q = (f + (i + 1)) - 1 /\ q \in f .. u[1] /\ At(c, t, u, i + 1) = <<q, b>>
    <3>1. q = (f + (i + 1)) - 1 /\ i + 1 # 0
      BY <1>3, <2>1
    <3>2. q \in f .. u[1]
      BY <1>2, <2>1, <3>1
    <3>3. At(c, t, u, i + 1) = <<(f + (i + 1)) - 1, Held(c, u, (f + (i + 1)) - 1)>>
      BY <3>1 DEF At, f
    <3>4. QED
      BY <3>1, <3>2, <3>3
  <2>4. /\ x = Nest(c, t, u, q)
        /\ x \in Peer /\ x.key = c[q].key
        /\ q \in 1 .. Len(c)
        /\ b \in Nat /\ b <= Len(c[q].aips)
    <3>1. x = Nest(c, t, u, q)
      BY <1>2, <2>1, <2>3
    <3>2. /\ Nest(c, t, u, q) \in Peer /\ Nest(c, t, u, q).key = c[q].key /\ q \in 1 .. Len(c)
          /\ b \in 0 .. Len(c[q].aips)
      BY <1>2, <2>3
    <3>3. b \in Nat /\ b <= Len(c[q].aips)
      BY <1>3, <3>2
    <3>4. QED
      BY ONLY <3>1, <3>2, <3>3, Zenon
  <2>5. d \o SubSeq(s, 1, i + 1) = Append(e, x)
    BY ONLY <1>5, <2>1, OneMore
  <2>6. Named(e, c, At(c, t, u, i)[1]) /\ Exact(e, c, At(c, t, u, i))
    BY <1>7, <2>1, <2>2
  <2>7. Exact(Append(e, x), c, <<q, b>>)
    <3>1. CASE i = 0 /\ f = t[1]
      <4>1. At(c, t, u, i) = <<q, t[2]>> /\ q = f /\ At(c, t, u, i)[1] = q
        BY <3>1, <1>3 DEF At
      <4>2. t[2] < b /\ x.aips = SubSeq(c[q].aips, t[2] + 1, b)
        BY <3>1, <4>1, <1>2, <2>4, Zenon
      <4>3. Named(e, c, q) /\ Exact(e, c, <<q, t[2]>>)
        BY <2>6, <4>1
      <4> HIDE DEF q, b, e, x
      <4>4. QED
        BY ONLY <1>3, <2>4, <4>2, <4>3, c \in Configs, ContinueExact, Zenon
    <3>2. CASE i # 0 \/ f # t[1]
      <4>1. PICK p \in Nat : q = p + 1 /\ At(c, t, u, i) = <<p, Aips(c, p)>> /\ At(c, t, u, i)[1] = p
        <5>1. CASE i = 0
          <6>1. At(c, t, u, i) = <<t[1], Aips(c, t[1])>> /\ q = t[1] + 1
            BY <5>1, <3>2, <1>2, <1>3 DEF At
          <6>2. QED
            BY <6>1, <1>3
        <5>2. CASE i # 0
          <6>1. /\ (f + i) - 1 \in Nat /\ q = ((f + i) - 1) + 1
                /\ (f + i) - 1 # u[1] /\ (f + i) - 1 # 0
            <7>1. i + 1 <= (u[1] + 1) - f /\ i >= 1 /\ f >= 1
              BY ONLY <5>2, <1>3, <1>4, <2>1
            <7>2. QED
              BY ONLY <7>1, <1>3, <2>1
          <6>2. At(c, t, u, i) = <<(f + i) - 1, Held(c, u, (f + i) - 1)>>
            BY <5>2 DEF At, f
          <6>3. Held(c, u, (f + i) - 1) = Aips(c, (f + i) - 1)
            BY <6>1 DEF Held, Aips
          <6>4. QED
            BY <6>1, <6>2, <6>3
        <5>3. QED
          BY <5>1, <5>2
      <4>2. x.aips = SubSeq(c[q].aips, 1, b)
        <5>1. q # t[1]
          BY ONLY <3>2, <1>3, <1>4, <2>1
        <5>2. QED
          BY <5>1, <1>2, <2>3, <2>4
      <4>3. Named(e, c, p) /\ Exact(e, c, <<p, Aips(c, p)>>)
        BY <2>6, <4>1
      <4> HIDE DEF q, b, e, x
      <4>4. /\ p + 1 \in 1 .. Len(c) /\ b <= Len(c[p + 1].aips) /\ b \in Nat
            /\ x \in Peer /\ x.key = c[p + 1].key /\ x.aips = SubSeq(c[p + 1].aips, 1, b)
        BY ONLY <2>4, <4>1, <4>2
      <4>5. Exact(Append(e, x), c, <<p + 1, b>>)
        BY ONLY <4>3, <4>4, c \in Configs, p \in Nat, NextExact
      <4>6. QED
        BY ONLY <4>1, <4>5
    <3>3. QED
      BY <3>1, <3>2
  <2> HIDE DEF q, b, e, x
  <2>8. QED
    BY <2>3, <2>5, <2>7, Zenon
<1>9. S \in SUBSET Nat
  OBVIOUS
<1>10. S = Nat
  <2> HIDE DEF S
  <2> QED BY <1>6, <1>8, <1>9, EveryNat
<1>11. P(Len(s))
  <2> HIDE DEF P
  <2> QED BY <1>2, <1>10
<1>12. At(c, t, u, Len(s)) = u
  <2>1. Len(s) # 0 /\ (f + Len(s)) - 1 = u[1]
    <3>1. u[1] \in Nat /\ f \in 1 .. u[1] /\ Len(s) = (u[1] + 1) - f
      BY ONLY <1>3, <1>4, Zenon
    <3> HIDE DEF f, s
    <3>2. QED
      BY ONLY <3>1
  <2>2. At(c, t, u, Len(s)) = <<u[1], Held(c, u, u[1])>>
    BY <2>1 DEF At, f
  <2>3. QED
    BY <1>3, <2>2 DEF Held
<1>13. SubSeq(s, 1, Len(s)) = s
  BY <1>1, <1>2, NoMore
<1>14. QED
  BY <1>11, <1>12, <1>13, Zenon DEF s

-----------------------------------------------------------------------------
(* The end of a dump.                                                      *)

LEMMA FinishedPlace ==
    ASSUME NEW c \in Configs, NEW t, IsPlace(c, t), Ahead(c, t) = {}
    PROVE  t[1] = Len(c) /\ t[2] = Aips(c, t[1])
<1>1. /\ Len(c) \in Nat
      /\ \A p \in 1 .. Len(c) : Len(c[p].aips) \in Nat
  BY ConfigTypes
<1>2. t[1] \in 0 .. Len(c) /\ t[2] \in 0 .. Aips(c, t[1]) /\ t[1] \in Nat /\ t[2] \in Nat
  BY DEF IsPlace
<1>3. \A p \in 1 .. Len(c) : \A a \in 0 .. Len(c[p].aips) : ~(p > t[1] \/ (p = t[1] /\ a > t[2]))
  <2> SUFFICES ASSUME NEW p \in 1 .. Len(c), NEW a \in 0 .. Len(c[p].aips),
                      p > t[1] \/ (p = t[1] /\ a > t[2])
               PROVE  FALSE
    OBVIOUS
  <2>1. <<p, a>> \in {p} \X (0 .. Len(c[p].aips)) /\ <<p, a>>[1] = p /\ <<p, a>>[2] = a
    OBVIOUS
  <2>2. <<p, a>> \in Ahead(c, t)
    BY <2>1 DEF Ahead
  <2>3. QED
    BY <2>2
<1>4. t[1] = Len(c)
  <2> SUFFICES ASSUME t[1] # Len(c) PROVE FALSE
    OBVIOUS
  <2>1. t[1] + 1 \in 1 .. Len(c) /\ t[1] + 1 > t[1]
    BY <1>1, <1>2
  <2>2. 0 \in 0 .. Len(c[t[1] + 1].aips)
    BY <1>1, <2>1
  <2>3. QED
    BY <1>3, <2>1, <2>2
<1>5. t[2] = Aips(c, t[1])
  <2>1. CASE t[1] = 0
    BY <2>1, <1>2 DEF Aips
  <2>2. CASE t[1] # 0
    <3>1. t[1] \in 1 .. Len(c) /\ Aips(c, t[1]) = Len(c[t[1]].aips) /\ Len(c[t[1]].aips) \in Nat
      BY <2>2, <1>1, <1>2 DEF Aips
    <3>2. t[2] < Len(c[t[1]].aips) => t[2] + 1 \in 0 .. Len(c[t[1]].aips) /\ t[2] + 1 > t[2]
      BY <1>2, <3>1
    <3>3. ~(t[2] < Len(c[t[1]].aips))
      BY <1>3, <3>1, <3>2
    <3>4. QED
      BY <1>2, <3>1, <3>3
  <2>3. QED
    BY <2>1, <2>2
<1>6. QED
  BY <1>4, <1>5

LEMMA EmptyMessage ==
    ASSUME NEW c \in Configs, NEW t, IsPlace(c, t), Ahead(c, t) = {}
    PROVE  DumpMessage(c, t, t) = << >>
<1>1. t[2] = Aips(c, t[1]) /\ t[1] \in Nat
  BY FinishedPlace DEF IsPlace
<1>2. t[2] \in Nat
  BY DEF IsPlace
<1>3. FirstNest(c, t) = t[1] + 1
  BY <1>1, <1>2 DEF FirstNest
<1>4. (t[1] + 1) - FirstNest(c, t) = 0
  BY <1>1, <1>3
<1>5. QED
  BY <1>4 DEF DumpMessage

\* What the caller reads once all pieces are joined.
LEMMA ContentsNamed ==
    ASSUME NEW c \in Configs, NEW d, Named(d, c, Len(c))
    PROVE  LET list == Contents(coalesce_peers(d))
           IN  /\ list \in Seq(Peer)
               /\ Len(list) = Len(c)
               /\ \A p \in 1 .. Len(list) : /\ list[p].key = c[p].key
                                            /\ Entries(list[p].aips) \subseteq Entries(c[p].aips)
<1> DEFINE l == coalesce_peers(d)
           r == [p \in 1 .. Len(l) |-> [key |-> l[p].key, aips |-> l[p].aips]]
<1>1. /\ l \in Seq(Node) /\ Len(l) = Len(c)
      /\ \A q \in 1 .. Len(c) : /\ l[q].key = c[q].key
                                /\ Entries(l[q].aips) \subseteq Entries(c[q].aips)
  BY DEF Named
<1>2. Contents(l) = r
  BY DEF Contents
<1> HIDE DEF l
<1>3. \A p \in 1 .. Len(l) : [key |-> l[p].key, aips |-> l[p].aips] \in Peer
  <2>1. \A p \in 1 .. Len(l) : l[p] \in Node
    BY <1>1
  <2>2. QED
    BY <2>1 DEF Node, Peer
<1>4. Len(l) \in Nat
  BY <1>1
<1>5. /\ r \in Seq(Peer) /\ Len(r) = Len(l)
      /\ \A p \in 1 .. Len(l) : r[p].key = l[p].key /\ r[p].aips = l[p].aips
  BY <1>3, <1>4
<1> HIDE DEF r
<1>6. QED
  BY <1>1, <1>2, <1>5, Zenon DEF l

LEMMA ContentsExact ==
    ASSUME NEW c \in Configs, NEW d, NEW t, t[1] = Len(c), t[2] = Aips(c, t[1]),
           Named(d, c, Len(c)), Exact(d, c, t)
    PROVE  Contents(coalesce_peers(d)) = c
<1> DEFINE l == coalesce_peers(d)
<1>1. /\ Len(l) = Len(c)
      /\ \A q \in 1 .. Len(c) : l[q].key = c[q].key
  BY DEF Named
<1>2. \A q \in 1 .. Len(c) : l[q].aips = SubSeq(c[q].aips, 1, Held(c, t, q))
  BY ExactHeld
<1>3. /\ c \in Seq(Peer) /\ Len(c) \in Nat
      /\ \A q \in 1 .. Len(c) : c[q].aips \in Seq(Ip) /\ c[q] \in Peer
  BY ConfigTypes
<1>4. \A q \in 1 .. Len(c) : Held(c, t, q) = Len(c[q].aips)
  BY <1>3 DEF Held, Aips
<1>5. \A s \in Seq(Ip) : SubSeq(s, 1, Len(s)) = s
  OBVIOUS
<1>6. \A q \in 1 .. Len(c) : l[q].aips = c[q].aips
  BY <1>2, <1>3, <1>4, <1>5, Zenon
<1>7. \A x \in Peer : x = [key |-> x.key, aips |-> x.aips]
  BY DEF Peer
<1>8. \A q \in 1 .. Len(c) : [key |-> l[q].key, aips |-> l[q].aips] = c[q]
  <2> TAKE q \in 1 .. Len(c)
  <2>1. l[q].key = c[q].key /\ l[q].aips = c[q].aips /\ c[q] \in Peer
    BY <1>1, <1>3, <1>6
  <2>2. c[q] = [key |-> c[q].key, aips |-> c[q].aips]
    BY <2>1, <1>7
  <2>3. QED
    BY ONLY <2>1, <2>2
<1>9. Contents(l) = [p \in 1 .. Len(c) |-> [key |-> l[p].key, aips |-> l[p].aips]]
  BY <1>1 DEF Contents
<1> HIDE DEF l
<1>10. [p \in 1 .. Len(c) |-> [key |-> l[p].key, aips |-> l[p].aips]] = [p \in 1 .. Len(c) |-> c[p]]
  BY <1>8
<1>11. c = [p \in 1 .. Len(c) |-> c[p]]
  BY <1>3
<1>12. QED
  BY ONLY <1>9, <1>10, <1>11 DEF l

-----------------------------------------------------------------------------
(* The invariant.                                                          *)

LEMMA NothingYet ==
    ASSUME NEW c \in Configs
    PROVE  /\ IsPlace(c, Start)
           /\ Named(<< >>, c, 0)
           /\ Exact(<< >>, c, Start)
<1>1. Start[1] = 0 /\ Start[2] = 0 /\ Start \in Nat \X Nat /\ Len(c) \in Nat
  BY ConfigTypes DEF Start
<1>2. IsPlace(c, Start)
  BY <1>1 DEF IsPlace, Aips
<1>3. << >> \in Seq(Peer) /\ << >> \in Seq(Node) /\ Len(<< >>) = 0
  OBVIOUS
<1>4. Named(<< >>, c, 0)
  <2>1. coalesce_peers(<< >>) \in Seq(Node) /\ Len(coalesce_peers(<< >>)) = 0
    BY ONLY <1>3, CoalesceNone, Zenon
  <2>2. \A q \in 1 .. 0 : FALSE
    OBVIOUS
  <2>3. QED
    BY ONLY <1>3, <2>1, <2>2 DEF Named
<1>5. ~FollowsNull(<< >>)
  BY <1>3 DEF FollowsNull
<1>6. Exact(<< >>, c, Start)
  BY <1>1, <1>5 DEF Exact
<1>7. QED
  BY <1>2, <1>4, <1>6

LEMMA IInvInit == Init => IInv
<1> SUFFICES ASSUME Init PROVE IInv
  OBVIOUS
<1>1. MaxChange \in Nat /\ MaxSignal \in Nat /\ MaxOom \in Nat
  BY BoundAssumption
<1>2. TypeOK
  <2>1. gen \in 0 .. MaxChange /\ live \in 0 .. 1 /\ seen \in -1 .. gen
    BY <1>1 DEF Init
  <2>2. signals \in 0 .. MaxSignal /\ oom \in 0 .. MaxOom
    BY <1>1 DEF Init
  <2>3. sent \in Nat \X Nat
    BY DEF Init, Start
  <2>4. nlg \in BOOLEAN /\ more \in BOOLEAN /\ conf \in Configs
    BY Zenon DEF Init
  <2>5. device \in Seq(Peer) \cup {NULL} /\ pc = "try_again" /\ ret = 0
    BY DEF Init
  <2>6. QED
    BY ONLY <2>1, <2>2, <2>3, <2>4, <2>5 DEF TypeOK
<1>3. QED
  BY <1>2 DEF Init, IInv, Owned, Receiving, NothingLeaks, CoalesceSafe

LEMMA EmptyDevice == << >> \in Seq(Peer) /\ << >> # NULL
<1>1. << >> \in Seq(Peer)
  OBVIOUS
<1>2. QED
  BY ONLY <1>1, NullAssumption, Zenon

\* The types of the variables, for the steps that keep most of them.
LEMMA Types ==
    ASSUME TypeOK
    PROVE  /\ conf \in Configs /\ gen \in 0 .. MaxChange
           /\ ret \in {0, -EINTR, -EOTHER}
           /\ device \in Seq(Peer) \cup {NULL}
           /\ nlg \in BOOLEAN /\ live \in 0 .. 1
           /\ sent \in Nat \X Nat /\ more \in BOOLEAN /\ seen \in -1 .. gen
           /\ signals \in 0 .. MaxSignal /\ oom \in 0 .. MaxOom
           /\ MaxChange \in Nat /\ MaxSignal \in Nat /\ MaxOom \in Nat
BY BoundAssumption DEF TypeOK

LEMMA StepTryAgain ==
    ASSUME IInv, TryAgain
    PROVE  IInv'
<1>1. TypeOK /\ Owned
  BY DEF IInv
<1>2. TypeOK'
  <2>1. UNCHANGED <<conf, gen, nlg, sent, more, seen, signals>> /\ live = 0
    BY <1>1 DEF TryAgain, Owned, dump
  <2>2. /\ oom' \in 0 .. MaxOom /\ live' \in 0 .. 1
        /\ ret' \in {0, -EINTR, -EOTHER}
        /\ device' \in Seq(Peer) \cup {NULL}
        /\ \/ pc' = "open" /\ device' # NULL
           \/ pc' = "done"
    <3>1. oom \in 0 .. MaxOom /\ MaxOom \in Nat /\ ret \in {0, -EINTR, -EOTHER}
      BY ONLY <1>1, Types
    <3>2. CASE UNCHANGED oom /\ device' = << >> /\ live' = live + 1 /\ Goto("open") /\ UNCHANGED ret
      BY ONLY <2>1, <3>1, <3>2, EmptyDevice DEF Goto
    <3>3. CASE oom < MaxOom /\ oom' = oom + 1 /\ device' = NULL /\ UNCHANGED live /\ Goto("done")
               /\ ret' = -EOTHER
      <4>1. oom' \in 0 .. MaxOom
        BY ONLY <3>1, <3>3
      <4>2. QED
        BY ONLY <2>1, <3>3, <4>1 DEF Goto
    <3>4. QED
      BY <3>2, <3>3 DEF TryAgain
  <2>3. QED
    BY ONLY <1>1, <2>1, <2>2, Types DEF TypeOK
<1>3. Owned' /\ Receiving' /\ CoalesceSafe'
  BY <1>1 DEF Owned, NothingLeaks, Receiving, CoalesceSafe, TryAgain, Goto, EOTHER
<1>4. ~(pc' \in {"out", "done"} /\ ret' = 0)
  BY DEF TryAgain, Goto, EOTHER
<1>5. QED
  BY <1>2, <1>3, <1>4 DEF IInv

LEMMA StepOpen ==
    ASSUME IInv, Open
    PROVE  IInv'
<1>1. TypeOK /\ Owned
  BY DEF IInv
<1>2. TypeOK'
  <2>1. UNCHANGED <<conf, gen, sent, more, seen, oom>> /\ live = 1 /\ device # NULL
    BY <1>1 DEF Open, Owned, TypeOK, dump
  <2>2. /\ live' \in 0 .. 1 /\ nlg' \in BOOLEAN
        /\ ret' \in {0, -EINTR, -EOTHER} /\ signals' \in 0 .. MaxSignal
        /\ device' \in Seq(Peer) \cup {NULL}
        /\ \/ pc' = "send" /\ device' = device
           \/ pc' = "done"
    <3>1. CASE nlg' = TRUE /\ Goto("send") /\ UNCHANGED <<ret, device, live, signals>>
      BY <1>1, <3>1, Types DEF Goto
    <3>2. CASE device' = NULL /\ wg_free_device /\ Errno /\ Goto("done") /\ UNCHANGED nlg
      BY <1>1, <2>1, <3>2, Types DEF Goto, Errno, wg_free_device
    <3>3. QED
      BY <3>1, <3>2, Zenon DEF Open
  <2>3. QED
    BY ONLY <1>1, <2>1, <2>2, Types DEF TypeOK
<1>3. Owned' /\ Receiving' /\ CoalesceSafe'
  BY <1>1 DEF Owned, NothingLeaks, Receiving, CoalesceSafe, Open, Errno, wg_free_device, Goto,
              EINTR, EOTHER
<1>4. ~(pc' \in {"out", "done"} /\ ret' = 0)
  BY DEF Open, Errno, Goto, EINTR, EOTHER
<1>5. QED
  BY <1>2, <1>3, <1>4 DEF IInv

LEMMA StepSend ==
    ASSUME IInv, Send
    PROVE  IInv'
<1>1. TypeOK /\ Owned
  BY DEF IInv
<1>2. TypeOK'
  <2>1. UNCHANGED <<conf, gen, device, nlg, live, oom>> /\ device # NULL
    BY <1>1 DEF Send, TypeOK
  <2>2. /\ sent' \in Nat \X Nat /\ more' \in BOOLEAN /\ seen' \in -1 .. gen
        /\ ret' \in {0, -EINTR, -EOTHER} /\ signals' \in 0 .. MaxSignal
        /\ pc' \in {"recv", "out"}
    <3>1. Start \in Nat \X Nat /\ -1 \in -1 .. gen
      BY <1>1, Types DEF Start
    <3>2. CASE Goto("recv") /\ sent' = Start /\ more' = TRUE /\ seen' = -1 /\ UNCHANGED <<ret, signals>>
      BY <1>1, <3>1, <3>2, Types DEF Goto
    <3>3. CASE Errno /\ Goto("out") /\ UNCHANGED <<sent, more, seen>>
      BY <1>1, <3>3, Types DEF Goto, Errno
    <3>4. QED
      BY <3>2, <3>3, Zenon DEF Send, dump
  <2>3. QED
    BY ONLY <1>1, <2>1, <2>2, Types DEF TypeOK
<1>3. Owned' /\ CoalesceSafe'
  BY <1>1 DEF Owned, NothingLeaks, CoalesceSafe, Send, Errno, Goto
<1>4. Receiving'
  BY <1>1 DEF Owned, Receiving, Send, Goto
<1>5. ~(pc' \in {"out", "done"} /\ ret' = 0)
  BY DEF Send, Errno, Goto, EINTR, EOTHER
<1>6. QED
  BY <1>2, <1>3, <1>4, <1>5 DEF IInv

LEMMA StepRecvFail ==
    ASSUME IInv, RecvFail
    PROVE  IInv'
<1>1. TypeOK /\ Owned
  BY DEF IInv
<1>2. TypeOK'
  BY <1>1, BoundAssumption DEF TypeOK, RecvFail, Goto, Errno, dump
<1>3. Owned' /\ CoalesceSafe' /\ Receiving'
  BY <1>1 DEF Owned, NothingLeaks, CoalesceSafe, Receiving, RecvFail, Errno, Goto
<1>4. ~(pc' \in {"out", "done"} /\ ret' = 0)
  BY DEF RecvFail, Errno, Goto, EINTR, EOTHER
<1>5. QED
  BY <1>2, <1>3, <1>4 DEF IInv

LEMMA StepRecvDone ==
    ASSUME IInv, RecvDone
    PROVE  IInv'
<1>1. TypeOK /\ Owned /\ pc = "recv" /\ ~more
  BY DEF IInv, RecvDone
<1>2. Dumped
  BY <1>1 DEF IInv, Receiving
<1>3. sent[1] = Len(snap) /\ sent[2] = Aips(snap, sent[1])
  <2>1. snap \in Configs /\ IsPlace(snap, sent) /\ Ahead(snap, sent) = {}
    BY <1>1, <1>2 DEF Dumped
  <2>2. QED
    BY ONLY <2>1, FinishedPlace
<1>4. snap \in Configs /\ Named(device, snap, Len(snap)) /\ (oom = 0 => Exact(device, snap, sent))
  BY <1>2, <1>3 DEF Dumped
<1>5. UNCHANGED <<conf, gen, ret, nlg, live, sent, more, seen, snap, signals, oom>>
  BY DEF RecvDone, dump
<1>6. CASE FollowsNull(device)
  <2>1. pc' = "crashed" /\ device' = device
    BY <1>6 DEF RecvDone, Goto
  <2>2. oom # 0
    BY <1>4, <1>6 DEF Exact
  <2>3. TypeOK'
    BY <1>1, <1>5, <2>1 DEF TypeOK
  <2>4. Owned' /\ Receiving' /\ CoalesceSafe'
    BY <1>5, <2>1, <2>2 DEF Owned, Receiving, NothingLeaks, CoalesceSafe
  <2>5. QED
    BY <2>1, <2>3, <2>4 DEF IInv
<1>7. CASE ~FollowsNull(device)
  <2>1. pc' = "out" /\ device' = Contents(coalesce_peers(device))
    BY <1>7 DEF RecvDone, Goto
  <2>2. /\ device' \in Seq(Peer)
        /\ Len(device') = Len(snap)
        /\ \A p \in 1 .. Len(device') : /\ device'[p].key = snap[p].key
                                        /\ Entries(device'[p].aips) \subseteq Entries(snap[p].aips)
    BY <1>4, <2>1, ContentsNamed, Zenon
  <2>3. oom = 0 => device' = snap
    BY <1>3, <1>4, <2>1, ContentsExact
  <2>4. Complete'
    BY ONLY <1>5, <2>2, <2>3 DEF Complete
  <2>5. TypeOK'
    BY <1>1, <1>5, <2>1, <2>2 DEF TypeOK
  <2>6. Owned' /\ Receiving' /\ CoalesceSafe'
    BY <1>1, <1>5, <2>1 DEF Owned, Receiving, NothingLeaks, CoalesceSafe
  <2>7. QED
    BY <2>4, <2>5, <2>6 DEF IInv
<1>8. QED
  BY <1>6, <1>7

LEMMA StepOut ==
    ASSUME IInv, Out
    PROVE  IInv'
<1>1. TypeOK /\ Owned /\ pc = "out" /\ live = 1
  BY DEF IInv, Out, Owned
<1>2. UNCHANGED <<conf, gen, ret, sent, more, seen, snap, signals, oom>> /\ nlg' = FALSE
  BY DEF Out, dump
<1>3. CASE ret = 0
  <2>1. pc' = "done" /\ UNCHANGED <<device, live>>
    BY <1>3 DEF Out, Goto
  <2>2. Complete'
    BY <1>1, <1>2, <1>3, <2>1 DEF IInv, Complete
  <2>3. TypeOK'
    BY <1>1, <1>2, <2>1, Zenon DEF TypeOK
  <2>4. Owned' /\ Receiving' /\ CoalesceSafe'
    BY <1>1, <1>2, <1>3, <2>1 DEF Owned, Receiving, NothingLeaks, CoalesceSafe
  <2>5. QED
    BY <2>2, <2>3, <2>4 DEF IInv
<1>4. CASE ret # 0
  <2>1. /\ live' = 0
        /\ \/ pc' = "try_again" /\ device' = device
           \/ pc' = "done" /\ device' = NULL
    BY <1>1, <1>4 DEF Out, Goto, wg_free_device
  <2>2. TypeOK'
    <3>1. live' \in 0 .. 1 /\ nlg' \in BOOLEAN /\ device' \in Seq(Peer) \cup {NULL}
          /\ pc' \in {"try_again", "done"}
      <4>1. device \in Seq(Peer) \cup {NULL}
        BY ONLY <1>1, Types
      <4>2. QED
        <5>1. live' \in 0 .. 1
          BY ONLY <2>1
        <5>2. nlg' \in BOOLEAN
          BY ONLY <1>2, Zenon
        <5>3. device' \in Seq(Peer) \cup {NULL}
          BY ONLY <2>1, <4>1, Zenon
        <5>4. pc' \in {"try_again", "done"}
          BY ONLY <2>1
        <5>5. QED
          BY ONLY <5>1, <5>2, <5>3, <5>4, Zenon
    <3>2. QED
      BY ONLY <1>1, <1>2, <3>1, Types DEF TypeOK
  <2>3. Owned' /\ Receiving' /\ CoalesceSafe'
    BY <1>2, <1>4, <2>1 DEF Owned, Receiving, NothingLeaks, CoalesceSafe
  <2>4. QED
    BY <1>2, <1>4, <2>2, <2>3 DEF IInv
<1>5. QED
  BY <1>3, <1>4

\* A change of the device during a dump makes seen differ from gen for good.
LEMMA StepChange ==
    ASSUME IInv, Change
    PROVE  IInv'
<1>1. /\ gen < MaxChange /\ gen' = gen + 1 /\ conf' \in Configs
      /\ UNCHANGED <<pc, ret, device, nlg, live, sent, more, seen, snap, signals, oom>>
  BY DEF Change, dump
<1>2. TypeOK /\ Owned /\ Receiving /\ CoalesceSafe
  BY DEF IInv
<1>3. gen \in 0 .. MaxChange /\ seen \in -1 .. gen /\ MaxChange \in Nat
  BY <1>2, BoundAssumption DEF TypeOK
<1>4. gen' \in 0 .. MaxChange /\ seen \in -1 .. gen' /\ seen # gen'
  BY <1>1, <1>3
<1>5. TypeOK'
  BY <1>1, <1>2, <1>4 DEF TypeOK
<1>6. Dumped => Dumped'
  BY <1>1, <1>4 DEF Dumped
<1>7. Receiving'
  BY <1>1, <1>2, <1>6 DEF Receiving
<1>8. Owned' /\ CoalesceSafe'
  BY <1>1, <1>2 DEF Owned, NothingLeaks, CoalesceSafe
<1>9. pc \in {"out", "done"} /\ ret = 0 => Complete
  BY DEF IInv
<1>10. Complete => Complete'
  BY <1>1 DEF Complete
<1>11. QED
  BY <1>1, <1>5, <1>7, <1>8, <1>9, <1>10 DEF IInv

LEMMA StepNone ==
    ASSUME IInv, UNCHANGED vars
    PROVE  IInv'
<1>1. UNCHANGED <<conf, gen, pc, ret, device, nlg, live, sent, more, seen, snap, signals, oom>>
  BY DEF vars, dump
<1>2. TypeOK' /\ Owned' /\ CoalesceSafe'
  BY <1>1 DEF IInv, TypeOK, Owned, NothingLeaks, CoalesceSafe
<1>3. Receiving /\ (pc \in {"out", "done"} /\ ret = 0 => Complete)
  BY DEF IInv
<1>4. Dumped => Dumped'
  BY <1>1 DEF Dumped
<1>5. Complete => Complete'
  BY <1>1 DEF Complete
<1>6. Receiving'
  BY <1>1, <1>3, <1>4 DEF Receiving
<1>7. QED
  BY <1>1, <1>2, <1>3, <1>5, <1>6 DEF IInv

-----------------------------------------------------------------------------
(* What read_device_cb makes of a message.                                 *)

INSTANCE FiniteSetTheorems

Pieces(nests, callocs) ==
    [n \in 1 .. Len(callocs) |->
       [key |-> nests[n].key, aips |-> SubSeq(nests[n].aips, 1, callocs[n])]]

LEMMA Parsed ==
    ASSUME NEW nests \in Seq(Peer), NEW callocs \in Callocs(nests)
    PROVE  /\ Pieces(nests, callocs) \in Seq(Peer)
           /\ Len(Pieces(nests, callocs)) = Len(callocs)
           /\ Len(callocs) \in Nat /\ Len(callocs) <= Len(nests)
           /\ \A n \in 1 .. Len(callocs) :
                 /\ Pieces(nests, callocs)[n].key = nests[n].key
                 /\ Entries(Pieces(nests, callocs)[n].aips) \subseteq Entries(nests[n].aips)
           /\ Failed(nests, callocs) \in Nat
           /\ Failed(nests, callocs) = 0 => Pieces(nests, callocs) = nests
<1> DEFINE counts == UNION {0 .. Len(nests[n].aips) : n \in 1 .. Len(nests)}
           k == Len(callocs)
           short == {n \in 1 .. k : callocs[n] < Len(nests[n].aips)}
<1>1. Len(nests) \in Nat /\ \A n \in 1 .. Len(nests) : /\ nests[n] \in Peer
                                                       /\ nests[n].key \in Key
                                                       /\ nests[n].aips \in Seq(Ip)
                                                       /\ Len(nests[n].aips) \in Nat
  <2>1. \A x \in Peer : x.key \in Key /\ x.aips \in Seq(Ip) /\ Len(x.aips) \in Nat
    BY DEF Peer
  <2>2. QED
    BY <2>1
<1>2. counts \subseteq Nat
  BY <1>1
<1>3. PICK e \in 0 .. Len(nests) : callocs \in [1 .. e -> counts]
  BY Zenon DEF Callocs
<1>4. \A n \in 1 .. k : callocs[n] <= Len(nests[n].aips)
  BY DEF Callocs
<1> HIDE DEF counts
<1>5. k = e /\ k \in Nat /\ k <= Len(nests)
  BY <1>1, <1>3
<1>6. \A n \in 1 .. k : callocs[n] \in Nat /\ n \in 1 .. Len(nests)
  <2>1. \A n \in 1 .. k : callocs[n] \in counts
    BY ONLY <1>3, <1>5
  <2>2. \A n \in 1 .. k : n \in 1 .. Len(nests)
    BY ONLY <1>1, <1>5
  <2>3. QED
    BY ONLY <1>2, <2>1, <2>2, Zenon
<1> HIDE DEF k
<1>7. ASSUME NEW n \in 1 .. k
      PROVE  /\ SubSeq(nests[n].aips, 1, callocs[n]) \in Seq(Ip)
             /\ Entries(SubSeq(nests[n].aips, 1, callocs[n])) \subseteq Entries(nests[n].aips)
             /\ callocs[n] = Len(nests[n].aips) => SubSeq(nests[n].aips, 1, callocs[n]) = nests[n].aips
  <2>1. /\ nests[n].aips \in Seq(Ip) /\ callocs[n] \in Nat /\ 0 \in Nat /\ 0 <= callocs[n]
        /\ callocs[n] <= Len(nests[n].aips)
    BY <1>1, <1>4, <1>6
  <2>2. SubSeq(nests[n].aips, 0 + 1, callocs[n]) \in Seq(Ip)
    BY ONLY <2>1, Part
  <2>3. Entries(SubSeq(nests[n].aips, 0 + 1, callocs[n])) \subseteq Entries(nests[n].aips)
    BY ONLY <2>1, EntriesPart, Zenon
  <2>4. callocs[n] = Len(nests[n].aips) => SubSeq(nests[n].aips, 1, callocs[n]) = nests[n].aips
    BY ONLY <2>1
  <2>5. QED
    BY ONLY <2>2, <2>3, <2>4
<1>8. \A n \in 1 .. k : [key |-> nests[n].key, aips |-> SubSeq(nests[n].aips, 1, callocs[n])] \in Peer
  BY <1>1, <1>6, <1>7 DEF Peer
<1>9. Pieces(nests, callocs) =
        [n \in 1 .. k |-> [key |-> nests[n].key, aips |-> SubSeq(nests[n].aips, 1, callocs[n])]]
  BY DEF Pieces, k
<1>10. /\ Pieces(nests, callocs) \in Seq(Peer)
       /\ Len(Pieces(nests, callocs)) = k
       /\ \A n \in 1 .. k : /\ Pieces(nests, callocs)[n].key = nests[n].key
                            /\ Pieces(nests, callocs)[n].aips = SubSeq(nests[n].aips, 1, callocs[n])
  BY <1>5, <1>8, <1>9
<1>11. IsFiniteSet(short) /\ Cardinality(short) \in Nat
  <2>1. IsFiniteSet(1 .. k)
    BY <1>5, FS_Interval
  <2>2. short \subseteq 1 .. k
    OBVIOUS
  <2> HIDE DEF short
  <2>3. QED
    BY <2>1, <2>2, FS_Subset, FS_CardinalityType, Zenon
<1>12. Failed(nests, callocs) = Cardinality(short) + (IF k < Len(nests) THEN 1 ELSE 0)
  BY DEF Failed, k
<1> HIDE DEF short
<1>13. Failed(nests, callocs) \in Nat
  BY <1>1, <1>5, <1>11, <1>12
<1>14. ASSUME Failed(nests, callocs) = 0
       PROVE  Pieces(nests, callocs) = nests
  <2>1. Cardinality(short) = 0 /\ k = Len(nests)
    BY <1>1, <1>5, <1>11, <1>12, <1>14
  <2>2. short = {}
    BY <1>11, <2>1, FS_EmptySet
  <2>3. \A n \in 1 .. k : callocs[n] = Len(nests[n].aips)
    BY <1>1, <1>4, <1>6, <2>2 DEF short
  <2>4. \A x \in Peer : x = [key |-> x.key, aips |-> x.aips]
    BY DEF Peer
  <2>5. \A n \in 1 .. k : [key |-> nests[n].key, aips |-> SubSeq(nests[n].aips, 1, callocs[n])] = nests[n]
    <3> TAKE n \in 1 .. k
    <3>1. SubSeq(nests[n].aips, 1, callocs[n]) = nests[n].aips /\ nests[n] \in Peer
      BY <1>1, <1>6, <1>7, <2>3
    <3>2. nests[n] = [key |-> nests[n].key, aips |-> nests[n].aips]
      BY <2>4, <3>1
    <3>3. QED
      BY ONLY <3>1, <3>2, Zenon
  <2>6. [n \in 1 .. k |-> [key |-> nests[n].key, aips |-> SubSeq(nests[n].aips, 1, callocs[n])]]
          = [n \in 1 .. k |-> nests[n]]
    BY <2>5
  <2>7. nests = [n \in 1 .. k |-> nests[n]]
    BY <2>1
  <2>8. QED
    BY ONLY <1>9, <2>6, <2>7
<1>15. QED
  BY <1>5, <1>7, <1>10, <1>13, <1>14, Zenon DEF k

\* What holds of the kernel's configuration when a message of it is parsed.
LEMMA BeforeMessage ==
    ASSUME IInv, pc = "recv", ~Interrupted
    PROVE  LET c == IF seen = -1 THEN conf ELSE snap
           IN  /\ c = conf /\ conf \in Configs
               /\ IsPlace(conf, sent)
               /\ Named(device, conf, sent[1])
               /\ oom = 0 => Exact(device, conf, sent)
<1>1. conf \in Configs
  BY DEF IInv, TypeOK
<1>2. CASE seen = -1
  <2>1. device = << >> /\ sent = Start /\ sent[1] = 0
    BY <1>2 DEF IInv, Receiving, Start
  <2>2. QED
    BY <1>1, <1>2, <2>1, NothingYet
<1>3. CASE seen # -1
  <2>1. seen = gen
    BY <1>3 DEF Interrupted, DumpIntr
  <2>2. Dumped
    BY <1>3 DEF IInv, Receiving
  <2>3. QED
    BY <1>1, <1>3, <2>1, <2>2 DEF Dumped
<1>4. QED
  BY <1>2, <1>3

LEMMA TypeMessage ==
    ASSUME IInv, pc = "recv"
    PROVE  device \in Seq(Peer)
BY DEF IInv, TypeOK

\* A message that was parsed.
LEMMA AfterMessage ==
    ASSUME IInv, pc = "recv", ~Interrupted,
           NEW to \in DumpEnds(conf, sent),
           NEW callocs \in Callocs(DumpMessage(conf, sent, to))
    PROVE  LET nests == DumpMessage(conf, sent, to)
               parsed == read_device_cb(device, nests, callocs)
           IN  /\ IsPlace(conf, to)
               /\ parsed \in Seq(Peer)
               /\ Failed(nests, callocs) \in Nat
               /\ ~PeerFails(nests, callocs) => Named(parsed, conf, to[1])
               /\ Failed(nests, callocs) = 0 /\ oom = 0 => Exact(parsed, conf, to)
<1> DEFINE nests == DumpMessage(conf, sent, to)
           pieces == Pieces(nests, callocs)
<1>1. /\ conf \in Configs
      /\ IsPlace(conf, sent)
      /\ Named(device, conf, sent[1])
      /\ oom = 0 => Exact(device, conf, sent)
  BY BeforeMessage
<1>2. read_device_cb(device, nests, callocs) = device \o pieces
  BY DEF read_device_cb, Pieces
<1>3. device \in Seq(Peer)
  BY TypeMessage
<1>4. CASE Ahead(conf, sent) = {}
  <2>1. to = sent
    BY <1>4 DEF DumpEnds
  <2>2. nests = << >>
    BY <1>1, <1>4, <2>1, EmptyMessage
  <2>3. nests \in Seq(Peer) /\ Len(nests) = 0
    BY <2>2
  <2>4. /\ pieces \in Seq(Peer)
        /\ Len(pieces) = Len(callocs)
        /\ Len(callocs) \in Nat /\ Len(callocs) <= Len(nests)
        /\ Failed(nests, callocs) \in Nat
    <3> HIDE DEF nests
    <3>1. callocs \in Callocs(nests)
      BY DEF nests
    <3>2. QED
      BY ONLY <2>3, <3>1, Parsed, Zenon DEF pieces
  <2> HIDE DEF nests, pieces
  <2>5. pieces = << >>
    BY <2>3, <2>4
  <2>6. device \o pieces = device
    BY <1>3, <2>5
  <2>7. QED
    BY <1>1, <1>2, <1>3, <2>1, <2>4, <2>6 DEF nests
<1>5. CASE Ahead(conf, sent) # {}
  <2>1. to \in Ahead(conf, sent)
    BY <1>5 DEF DumpEnds
  <2>2. IsPlace(conf, to)
    BY <1>1, <2>1, AheadPlace
  <2>3. nests \in Seq(Peer)
    <3>1. NestsOf(conf, sent, to)
      BY <1>1, <2>1, Nests
    <3>2. QED
      BY <3>1, Zenon DEF NestsOf
  <2>4. /\ pieces \in Seq(Peer)
        /\ Len(pieces) = Len(callocs)
        /\ Len(callocs) \in Nat /\ Len(callocs) <= Len(nests)
        /\ \A n \in 1 .. Len(callocs) :
              /\ pieces[n].key = nests[n].key
              /\ Entries(pieces[n].aips) \subseteq Entries(nests[n].aips)
        /\ Failed(nests, callocs) \in Nat
        /\ Failed(nests, callocs) = 0 => pieces = nests
    <3> HIDE DEF nests
    <3>1. callocs \in Callocs(nests)
      BY DEF nests
    <3>2. QED
      BY ONLY <2>3, <3>1, Parsed, Zenon DEF pieces
  <2>5. Len(nests) \in Nat
    BY <2>3
  <2> HIDE DEF pieces
  <2>6. device \o pieces \in Seq(Peer)
    BY <1>3, <2>4
  <2>7. ASSUME ~PeerFails(nests, callocs) PROVE Named(device \o pieces, conf, to[1])
    <3>1. Len(pieces) = Len(nests)
      BY <2>4, <2>5, <2>7 DEF PeerFails
    <3>2. \A n \in 1 .. Len(pieces) : /\ pieces[n].key = nests[n].key
                                      /\ Entries(pieces[n].aips) \subseteq Entries(nests[n].aips)
      BY <2>4
    <3>3. pieces \in Seq(Peer)
      BY <2>4
    <3>4. QED
      BY ONLY <1>1, <2>1, <3>1, <3>2, <3>3, MessageNamed
  <2>8. ASSUME Failed(nests, callocs) = 0, oom = 0 PROVE Exact(device \o pieces, conf, to)
    <3>1. Exact(device \o nests, conf, to)
      BY <1>1, <2>1, <2>8, MessageExact
    <3>2. QED
      BY <2>4, <2>8, <3>1
  <2>9. QED
    BY <1>2, <2>2, <2>4, <2>6, <2>7, <2>8
<1>6. QED
  BY <1>4, <1>5

LEMMA StepRecvData ==
    ASSUME IInv, RecvData
    PROVE  IInv'
<1>1. TypeOK /\ Owned /\ pc = "recv" /\ more
  BY DEF IInv, RecvData
<1>2. PICK to \in DumpEnds(conf, sent) :
        LET nests == DumpMessage(conf, sent, to)
        IN  /\ sent' = to /\ seen' = gen
            /\ more' = (Ahead(conf, to) # {})
            /\ IF Interrupted
               THEN /\ ret' = -EINTR /\ Goto("out") /\ UNCHANGED <<device, oom>>
               ELSE \E callocs \in Callocs(nests) :
                    /\ oom' = oom + Failed(nests, callocs)
                    /\ oom' <= MaxOom
                    /\ device' = read_device_cb(device, nests, callocs)
                    /\ IF PeerFails(nests, callocs)
                       THEN ret' = -EOTHER /\ Goto("out")
                       ELSE UNCHANGED ret /\ Goto("recv")
  BY DEF RecvData
<1>3. /\ UNCHANGED <<conf, gen, nlg, live, signals>>
      /\ snap' = IF seen = -1 THEN conf ELSE snap
  BY DEF RecvData
<1>4. /\ conf \in Configs /\ gen \in 0 .. MaxChange /\ nlg \in BOOLEAN /\ live \in 0 .. 1
      /\ signals \in 0 .. MaxSignal /\ oom \in 0 .. MaxOom /\ ret \in {0, -EINTR, -EOTHER}
      /\ device \in Seq(Peer) /\ live = 1 /\ sent \in Nat \X Nat
      /\ {MaxChange, MaxSignal, MaxOom} \subseteq Nat
  BY <1>1, BoundAssumption DEF TypeOK, Owned
<1>5. /\ to \in Nat \X Nat /\ gen \in -1 .. gen /\ gen # -1
      /\ (Ahead(conf, to) # {}) \in BOOLEAN
  <2>1. CASE Ahead(conf, sent) = {}
    BY <1>4, <2>1 DEF DumpEnds
  <2>2. CASE Ahead(conf, sent) # {}
    <3>1. to \in Ahead(conf, sent)
      BY <2>2 DEF DumpEnds
    <3>2. to \in Nat \X Nat
      BY <1>4, <3>1, AheadPlace
    <3>3. QED
      BY <1>4, <3>2
  <2>3. QED
    BY <2>1, <2>2
<1>6. CASE Interrupted
  <2>1. ret' = -EINTR /\ pc' = "out" /\ UNCHANGED <<device, oom>>
    BY <1>2, <1>6 DEF Goto
  <2>2. TypeOK'
    BY <1>2, <1>3, <1>4, <1>5, <2>1 DEF TypeOK
  <2>3. Owned' /\ Receiving' /\ CoalesceSafe' /\ ret' # 0
    BY <1>3, <1>4, <2>1 DEF Owned, Receiving, NothingLeaks, CoalesceSafe, EINTR
  <2>4. QED
    BY <2>2, <2>3 DEF IInv
<1>7. CASE ~Interrupted
  <2> DEFINE nests == DumpMessage(conf, sent, to)
  <2>1. PICK callocs \in Callocs(nests) :
          /\ oom' = oom + Failed(nests, callocs)
          /\ oom' <= MaxOom
          /\ device' = read_device_cb(device, nests, callocs)
          /\ IF PeerFails(nests, callocs)
             THEN ret' = -EOTHER /\ Goto("out")
             ELSE UNCHANGED ret /\ Goto("recv")
    BY <1>2, <1>7
  <2>2. /\ IsPlace(conf, to)
        /\ device' \in Seq(Peer)
        /\ Failed(nests, callocs) \in Nat
        /\ ~PeerFails(nests, callocs) => Named(device', conf, to[1])
        /\ Failed(nests, callocs) = 0 /\ oom = 0 => Exact(device', conf, to)
    BY <1>1, <1>7, <2>1, AfterMessage
  <2>3. snap' = conf
    BY <1>1, <1>3, <1>7, BeforeMessage
  <2> HIDE DEF nests
  <2>4. oom' \in 0 .. MaxOom /\ (oom' = 0 => Failed(nests, callocs) = 0 /\ oom = 0)
    BY <1>4, <2>1, <2>2
  <2>5. device' # NULL
    BY <2>2, NullAssumption
  <2>6. CASE PeerFails(nests, callocs)
    <3>1. ret' = -EOTHER /\ pc' = "out"
      BY <2>1, <2>6 DEF Goto
    <3>2. TypeOK'
      BY <1>2, <1>3, <1>4, <1>5, <2>2, <2>4, <3>1 DEF TypeOK
    <3>3. Owned' /\ Receiving' /\ CoalesceSafe' /\ ret' # 0
      BY <1>3, <1>4, <3>1 DEF Owned, Receiving, NothingLeaks, CoalesceSafe, EOTHER
    <3>4. QED
      BY <3>2, <3>3 DEF IInv
  <2>7. CASE ~PeerFails(nests, callocs)
    <3>1. ret' = ret /\ pc' = "recv"
      BY <2>1, <2>7 DEF Goto
    <3>2. TypeOK'
      BY <1>2, <1>3, <1>4, <1>5, <2>2, <2>4, <2>5, <3>1 DEF TypeOK
    <3>3. Owned' /\ CoalesceSafe'
      BY <1>3, <1>4, <3>1 DEF Owned, NothingLeaks, CoalesceSafe
    <3>4. Dumped'
      <4>1. sent' = to /\ more' = (Ahead(conf, to) # {}) /\ conf' = conf
        BY <1>2, <1>3
      <4>2. Named(device', conf, to[1]) /\ (oom' = 0 => Exact(device', conf, to))
        BY <2>2, <2>4, <2>7
      <4>3. QED
        BY ONLY <1>4, <2>2, <2>3, <4>1, <4>2, Zenon DEF Dumped
    <3>5. Receiving'
      BY <1>2, <1>5, <3>4 DEF Receiving
    <3>6. QED
      BY <3>1, <3>2, <3>3, <3>5 DEF IInv
  <2>8. QED
    BY <2>6, <2>7
<1>8. QED
  BY <1>6, <1>7

-----------------------------------------------------------------------------
\* A dump in progress stays a dump of one configuration, and the socket and
\* the device stay with the label that releases them.
THEOREM IInvInvariant == Spec => []IInv
<1>1. IInv /\ [Next]_vars => IInv'
  BY StepTryAgain, StepOpen, StepSend, StepRecvFail, StepRecvData, StepRecvDone, StepOut,
     StepChange, StepNone DEF Next, Call
<1>2. QED
  BY <1>1, IInvInit, PTL DEF Spec

-----------------------------------------------------------------------------
\* The variables of wg_get_device keep their types, and the callbacks always
\* have a device to write to.
THEOREM TypeCorrect == Spec => []TypeOK
<1>1. IInv => TypeOK
  BY DEF IInv
<1>2. QED
  BY <1>1, IInvInvariant, PTL

\* However the kernel cuts its dump and whenever the device changes, a device
\* wg_get_device returns is one the kernel held, whole.
THEOREM ReturnsSnapshotAlways == Spec => []ReturnsSnapshot
<1>1. IInv => ReturnsSnapshot
  BY DEF IInv, Complete, ReturnsSnapshot
<1>2. QED
  BY <1>1, IInvInvariant, PTL

\* Whatever allocations fail in parse_allowedips, a device wg_get_device
\* returns has all peers, and no peer has an allowed IP it does not own.
THEOREM ReturnsNoForeignIpAlways == Spec => []ReturnsNoForeignIp
<1>1. IInv => ReturnsNoForeignIp
  BY DEF IInv, Complete, ReturnsNoForeignIp
<1>2. QED
  BY <1>1, IInvInvariant, PTL

\* Every path through wg_get_device closes the socket, and frees the device
\* unless it is returned.
THEOREM NothingLeaksAlways == Spec => []NothingLeaks
<1>1. IInv => NothingLeaks
  BY DEF IInv, Owned
<1>2. QED
  BY <1>1, IInvInvariant, PTL

\* As long as no allocation failed, coalesce_peers never writes through a
\* last_allowedip that is NULL.
THEOREM CoalesceSafeAlways == Spec => []CoalesceSafe
<1>1. IInv => CoalesceSafe
  BY DEF IInv
<1>2. QED
  BY <1>1, IInvInvariant, PTL
=============================================================================
