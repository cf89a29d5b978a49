---------------------------- MODULE WgLinksProofs ----------------------------
(***************************************************************************)
(* The string list of wg_list_device_names stays inside its buffer and     *)
(* keeps its two terminators, for every number of links and every length   *)
(* of their names, and every call frees what it allocated.  The second     *)
(* half is about the walk over the result: strlen and the macro for one    *)
(* string, then a buffer of packed strings, then the dump that fills it,   *)
(* and last that the walk meets the names of one state of the kernel.      *)
(***************************************************************************)
EXTENDS WgLinks, TLAPS

\* The inductive invariant: the types, the list, and that the kernel has
\* answered when add_del_iface reads its answer.
IInv == TypeOK /\ DoubleNul /\ (pc = "answer" => answer # None)

\* string_list_add of a name that is not empty: the buffer has room for the
\* name and for both terminators, and they are written.
LEMMA AddKeepsTerminated ==
    ASSUME NEW s, Terminated(s), s.len \in Nat, s.cap \in Nat,
           NEW name \in Int, NEW len \in Nat \ {0}
    PROVE  /\ string_list_add(s, name, len).len \in Nat
           /\ string_list_add(s, name, len).cap \in Nat
           /\ Terminated(string_list_add(s, name, len))
<1>1. CASE len = 1
  BY <1>1 DEF string_list_add, Terminated
<1>2. CASE len # 1
  <2> DEFINE c == Cap(s, len)
             b == [k \in 1 .. c |-> Cell(s, name, len, k - 1)]
             l == string_list_add(s, name, len)
  <2>1. l = [buffer |-> b, len |-> s.len + len, cap |-> c]
    BY <1>2 DEF string_list_add
  <2>2. (s.cap = 0 /\ s.len = 0) \/ s.len \in 1 .. s.cap - 1
    BY DEF Terminated, NewList
  <2>3. c \in Nat /\ s.len + len + 1 <= c /\ s.cap <= c
    <3>1. CASE NoRoom(s, len)
      BY <2>2, <3>1 DEF Cap, NewCap
    <3>2. CASE ~NoRoom(s, len)
      BY <2>2, <3>2 DEF Cap, NoRoom
    <3> QED BY <3>1, <3>2
  <2>4. \A k \in 1 .. c : Cell(s, name, len, k - 1) \in Int
    <3> SUFFICES ASSUME NEW k \in 1 .. c PROVE Cell(s, name, len, k - 1) \in Int
      OBVIOUS
    <3>1. k <= s.cap => s.buffer[k] \in Int
      <4>1. CASE s = NewList
        BY <4>1, <2>3 DEF NewList
      <4>2. CASE s # NewList
        BY <4>2, <2>3 DEF Terminated
      <4> QED BY <4>1, <4>2
    <3>2. k - 1 + 1 = k
      BY <2>3
    <3>3. CASE k - 1 < s.len
      <4>1. k <= s.cap
        BY <3>3, <2>2, <2>3
      <4>2. Cell(s, name, len, k - 1) = s.buffer[k]
        BY <3>3, <3>2, <2>3 DEF Cell
      <4> QED BY <4>1, <4>2, <3>1
    <3>4. CASE k - 1 >= s.len
      BY <3>4, <3>1, <3>2, <2>3 DEF Cell, Nul, Junk
    <3> QED BY <3>3, <3>4, <2>3
  <2>5. b \in Seq(Int) /\ Len(b) = c
    BY <2>3, <2>4
  <2>6. Cell(s, name, len, s.len + len - 1) = Nul
    BY <1>2 DEF Cell
  <2>7. Cell(s, name, len, s.len + len) = Nul
    BY <1>2 DEF Cell
  <2>8. b[s.len + len] = Nul /\ b[s.len + len + 1] = Nul
    <3>1. \A j \in 1 .. c : b[j] = Cell(s, name, len, j - 1)
      OBVIOUS
    <3> HIDE DEF b, c
    <3>2. /\ s.len + len \in 1 .. c /\ s.len + len + 1 \in 1 .. c
          /\ (s.len + len + 1) - 1 = s.len + len
      BY <2>3
    <3> QED BY <2>6, <2>7, <3>1, <3>2
  <2>9. l.buffer = b /\ l.len = s.len + len /\ l.cap = c
    BY <2>1
  <2> HIDE DEF l, b, c
  <2>10. l.len \in Nat /\ l.cap \in Nat /\ l.len \in 1 .. l.cap - 1
    BY <2>3, <2>9
  <2>11. Terminated(l)
    BY <2>5, <2>8, <2>9, <2>10 DEF Terminated
  <2> QED BY <2>10, <2>11 DEF l
<1> QED BY <1>1, <1>2

LEMMA IInvInit == Init => IInv
<1> SUFFICES ASSUME Init PROVE IInv
  OBVIOUS
<1>1. list.len = 0 /\ list.cap = 0 /\ DoubleNul
  BY DEF Init, NewList, DoubleNul, Terminated
<1>2. at = 0 /\ seen = "none" /\ ret = 0 /\ oom = 0
  BY DEF Init
<1>3. /\ at \in 0 .. N /\ seen \in {"none", "same", "changed"} /\ oom \in 0 .. MaxOom
      /\ ret \in {0, -EINTR, -ERR}
  BY <1>2, LinkAssumption, BoundAssumption
<1>4. list.len \in Nat /\ list.cap \in Nat
  BY <1>1
<1>5. /\ kind \in [1 .. N -> Kinds] /\ snap \in [1 .. N -> Kinds] /\ op \in Ops
      /\ pc = "setup" /\ answer \in {0, ERR, None}
      /\ buf \in BOOLEAN /\ nl \in BOOLEAN /\ cut \in BOOLEAN
  BY DEF Init
<1> QED BY <1>1, <1>3, <1>4, <1>5 DEF IInv, TypeOK

\* Every step keeps the invariant; only read_devices_cb adds to the list.
LEMMA IInvStep == IInv /\ [Next]_vars => IInv'
<1> SUFFICES ASSUME IInv, [Next]_vars PROVE IInv'
  OBVIOUS
<1> USE LinkAssumption, BoundAssumption
<1>1. CASE Setup
  BY <1>1 DEF Setup, IInv, TypeOK, DoubleNul, dump, Goto, ERR
<1>2. CASE Send
  <2>1. UNCHANGED <<list, op, buf, nl, names, oom, cut, snap>>
    BY <1>2 DEF Send, dump
  <2>2. /\ kind' \in [1 .. N -> Kinds]
        /\ answer' \in {0, ERR, answer}
    BY <1>2 DEF Send, IInv, TypeOK, Execute, Kinds
  <2>3. at' \in {0, at} /\ seen' \in {"none", seen}
    BY <1>2 DEF Send, dump
  <2>4. pc' \in {"another", "answer", "cleanup"} /\ ret' \in {ret, -ERR}
    BY <1>2 DEF Send, Goto
  <2>5. pc' = "answer" => answer' # None
    BY <1>2 DEF Send, Goto, Execute, ERR, None
  <2>6. at' \in 0 .. N /\ seen' \in {"none", "same", "changed"}
    BY <2>2, <2>3 DEF IInv, TypeOK
  <2> QED BY <2>1, <2>2, <2>4, <2>5, <2>6 DEF IInv, TypeOK, DoubleNul
<1>3. CASE Answer
  BY <1>3 DEF Answer, IInv, TypeOK, DoubleNul, dump, Goto, ERR, EINTR, None
<1>4. CASE RecvFail
  BY <1>4 DEF RecvFail, IInv, TypeOK, DoubleNul, dump, Goto, ERR, EINTR
<1>5. CASE RecvLink
  <2>0. PICK n \in at + 1 .. N :
        /\ at' = n /\ seen' = "same"
        /\ snap' = IF seen = "none" THEN kind ELSE snap
        /\ \/ cut' = TRUE /\ ret' = 0 /\ Goto("cleanup") /\ UNCHANGED <<list, oom>>
           \/ list' = read_devices_cb(n) /\ UNCHANGED <<pc, ret, oom, cut>>
           \/ /\ oom < MaxOom /\ oom' = oom + 1 /\ ret' = -ERR /\ Goto("cleanup")
              /\ UNCHANGED <<list, cut>>
    BY <1>5 DEF RecvLink
  <2>1. UNCHANGED <<kind, op, buf, nl, names, answer>>
    BY <1>5 DEF RecvLink
  <2>2. n \in 1 .. N /\ Length[n] + 1 \in Nat \ {0}
    <3>1. at \in Nat
      BY DEF IInv, TypeOK
    <3>2. n \in 1 .. N
      BY <3>1, <2>0
    <3>3. Length[n] \in Nat
      BY <3>2
    <3> QED BY <3>2, <3>3
  <2>3. list'.len \in Nat /\ list'.cap \in Nat /\ DoubleNul'
    <3>1. CASE list' = list
      BY <3>1 DEF IInv, TypeOK, DoubleNul
    <3>2. CASE list' = string_list_add(list, n, Length[n] + 1)
      <4>1. list.len \in Nat /\ list.cap \in Nat /\ Terminated(list)
        BY DEF IInv, TypeOK, DoubleNul
      <4>2. list'.len \in Nat /\ list'.cap \in Nat /\ Terminated(list')
        BY <3>2, <4>1, <2>2, AddKeepsTerminated
      <4> QED BY <4>2 DEF DoubleNul
    <3> QED BY <2>0, <3>1, <3>2 DEF read_devices_cb
  <2>4. at' \in 0 .. N /\ seen' = "same" /\ snap' \in [1 .. N -> Kinds] /\ oom' \in 0 .. MaxOom
    <3>1. oom \in 0 .. MaxOom /\ MaxOom \in Nat
      BY <2>1 DEF IInv, TypeOK
    <3>2. snap' \in {kind, snap}
      BY <2>0
    <3>3. oom' = oom \/ (oom < MaxOom /\ oom' = oom + 1)
      BY <2>0
    <3>4. oom' \in 0 .. MaxOom
      BY <3>1, <3>3
    <3>5. at' \in 0 .. N /\ seen' = "same"
      BY <2>0, <2>2, <3>1
    <3> QED BY <3>2, <3>4, <3>5 DEF IInv, TypeOK
  <2>5. pc' \in {"another", "cleanup"} /\ ret' \in {0, -EINTR, -ERR} /\ cut' \in BOOLEAN
    BY <1>5 DEF RecvLink, Goto, IInv, TypeOK
  <2> QED BY <2>1, <2>3, <2>4, <2>5 DEF IInv, TypeOK
<1>6. CASE RecvDone
  <2>1. UNCHANGED <<kind, at, seen, op, buf, nl, list, names, answer, oom>> /\ ret' = 0 /\ pc' = "cleanup"
    BY <1>6 DEF RecvDone, Goto
  <2>2. snap' \in [1 .. N -> Kinds] /\ cut' \in BOOLEAN
    BY <1>6 DEF RecvDone, IInv, TypeOK, DumpIntr
  <2> QED BY <2>1, <2>2 DEF IInv, TypeOK, DoubleNul
<1>7. CASE Cleanup
  <2>1. /\ UNCHANGED <<kind, at, seen, snap, op, ret, answer, oom, cut>>
        /\ buf' = FALSE /\ nl' = FALSE /\ pc' = "done" /\ list' \in {NewList, list}
    BY <1>7 DEF Cleanup, dump, Goto
  <2>2. list'.len \in Nat /\ list'.cap \in Nat /\ DoubleNul'
    <3>1. CASE list' = list
      BY <3>1 DEF IInv, TypeOK, DoubleNul
    <3>2. CASE list' = NewList
      BY <3>2 DEF DoubleNul, Terminated, NewList
    <3> QED BY <3>1, <3>2, <2>1
  <2> QED BY <2>1, <2>2 DEF IInv, TypeOK
<1>8. CASE \E n \in 1 .. N : Change(n)
  BY <1>8 DEF Change, LinksChange, IInv, TypeOK, DoubleNul, Kinds
<1>9. CASE UNCHANGED vars
  BY <1>9 DEF vars, dump, IInv, TypeOK, DoubleNul
<1> QED BY <1>1, <1>2, <1>3, <1>4, <1>5, <1>6, <1>7, <1>8, <1>9 DEF Next, Call

\* wg_list_device_names, wg_add_device and wg_del_device keep their types.
THEOREM TypeCorrect == Spec => []TypeOK
  BY IInvInit, IInvStep, PTL DEF Spec, IInv

\* string_list_add writes inside the buffer and keeps both terminators.
THEOREM DoubleNulAlways == Spec => []DoubleNul
  BY IInvInit, IInvStep, PTL DEF Spec, IInv

-----------------------------------------------------------------------------
\* Only wg_list_device_names reads a dump, and only it has a list.
ListsOnly == /\ pc = "another" => op[1] = "list"
             /\ op[1] # "list" => list = NewList

\* What wg_list_device_names returns without an error is NULL only if there is
\* no list: one that holds something has a buffer of two cells at least.
LEMMA ResultIsThere ==
    ASSUME DoubleNul, TypeOK, ret = 0
    PROVE  NULL \in Result => list = NewList
<1>1. CASE list.cap = 0
  <2>1. list.len \notin 1 .. list.cap - 1
    BY <1>1
  <2> QED BY <2>1 DEF DoubleNul, Terminated
<1>2. CASE list.cap # 0
  <2>1. list # NewList
    BY <1>2 DEF NewList
  <2>2. list.cap \in Nat /\ Len(list.buffer) = list.cap
    BY <2>1 DEF DoubleNul, Terminated, TypeOK
  <2>3. list.buffer # << >>
    BY <1>2, <2>2
  <2> QED BY <1>2, <2>3 DEF Result, NULL
<1> QED BY <1>1, <1>2

LEMMA FreesStep == IInv /\ ListsOnly /\ NothingLeaks /\ [Next]_vars => (ListsOnly /\ NothingLeaks)'
<1> SUFFICES ASSUME IInv, ListsOnly, NothingLeaks, [Next]_vars PROVE (ListsOnly /\ NothingLeaks)'
  OBVIOUS
<1>1. CASE Setup \/ Answer \/ RecvFail \/ RecvDone
  BY <1>1 DEF Setup, Answer, RecvFail, RecvDone, Goto, ListsOnly, NothingLeaks
<1>2. CASE Send
  BY <1>2 DEF Send, Goto, ListsOnly, NothingLeaks
<1>3. CASE RecvLink
  <2>1. pc = "another" /\ pc' \in {"another", "cleanup"} /\ op' = op
    BY <1>3 DEF RecvLink, Goto
  <2> QED BY <2>1 DEF ListsOnly, NothingLeaks
<1>4. CASE Cleanup
  <2>1. pc' = "done" /\ op' = op /\ buf' = FALSE /\ nl' = FALSE
    BY <1>4 DEF Cleanup, Goto
  <2>2. CASE op[1] # "list"
    <3>1. list' = list
      BY <1>4, <2>2 DEF Cleanup
    <3> QED BY <2>1, <2>2, <3>1 DEF ListsOnly, NothingLeaks
  <2>3. CASE op[1] = "list"
    <3>1. names' \in Result /\ list' = IF ret # 0 THEN NewList ELSE list
      BY <1>4, <2>3 DEF Cleanup
    <3>2. names' = NULL => list' = NewList
      BY <3>1, ResultIsThere DEF IInv
    <3> QED BY <2>1, <2>3, <3>2 DEF ListsOnly, NothingLeaks
  <2> QED BY <2>2, <2>3
<1>5. CASE UNCHANGED <<op, pc, buf, nl, list, names>>
  BY <1>5 DEF ListsOnly, NothingLeaks
<1>6. (\E n \in 1 .. N : Change(n)) \/ UNCHANGED vars => UNCHANGED <<op, pc, buf, nl, list, names>>
  BY DEF Change, vars
<1> QED BY <1>1, <1>2, <1>3, <1>4, <1>5, <1>6 DEF Next, Call

\* Every call that returns has freed its buffer and closed its socket, and what
\* string_list_add built is freed or is the result, however many links there
\* are and wherever an allocation or the dump fails.
THEOREM NothingLeaksAlways == Spec => []NothingLeaks
<1>1. Init => ListsOnly /\ NothingLeaks
  BY DEF Init, ListsOnly, NothingLeaks
<1> QED BY <1>1, IInvInit, IInvStep, FreesStep, PTL DEF Spec

-----------------------------------------------------------------------------
(* The walk over the result.                                               *)
INSTANCE WellFoundedInduction

\* Induction on natural numbers, for a set.
LEMMA EveryNat ==
    ASSUME NEW S \in SUBSET Nat, 0 \in S, \A n \in S : n + 1 \in S
    PROVE  S = Nat
<1> SUFFICES ASSUME Nat \ S # {} PROVE FALSE
  BY Zenon
<1>1. PICK x \in Nat \ S : \A y \in Nat \ S : ~(<<y, x>> \in OpToRel(<, Nat))
  BY WFMin, NatLessThanWellFounded, Zenon
<1>2. x - 1 \in Nat /\ x - 1 < x /\ x - 1 + 1 = x
  OBVIOUS
<1>3. <<x - 1, x>> \in OpToRel(<, Nat)
  BY <1>2 DEF OpToRel
<1>4. QED
  BY <1>1, <1>2, <1>3, Zenon

LEMMA LeastIn ==
    ASSUME NEW S \in SUBSET Nat, S # {}
    PROVE  \E c \in S : \A d \in S : c <= d
<1>1. PICK x \in S : \A y \in S : ~(<<y, x>> \in OpToRel(<, Nat))
  BY WFMin, NatLessThanWellFounded, Zenon
<1>2. ASSUME NEW y \in S PROVE x <= y
  <2>1. x \in Nat /\ y \in Nat
    OBVIOUS
  <2>2. y < x => <<y, x>> \in OpToRel(<, Nat)
    BY <2>1 DEF OpToRel
  <2>3. ~(y < x)
    BY <1>1, <2>2, Zenon
  <2>4. QED
    BY <2>1, <2>3
<1>3. QED
  BY <1>2, Zenon

\* strlen is a number.
LEMMA StrlenType ==
    ASSUME NEW b \in Seq(Int), NEW k \in 0 .. Len(b) - 1
    PROVE  StrlenAt(b, k) \in Nat
<1> DEFINE nuls == {c \in k .. Len(b) - 1 : b[c + 1] = Nul}
<1>1. Len(b) \in Nat /\ k \in Nat /\ k < Len(b)
  OBVIOUS
<1>2. StrlenAt(b, k) = IF nuls = {} THEN Len(b) - k
                       ELSE (CHOOSE c \in nuls : \A d \in nuls : c <= d) - k
  BY DEF StrlenAt
<1>3. nuls \in SUBSET Nat /\ \A c \in nuls : c \in Nat /\ c >= k
  BY <1>1
<1> HIDE DEF nuls
<1>4. CASE nuls = {}
  BY <1>1, <1>2, <1>4
<1>5. CASE nuls # {}
  <2>1. \E c \in nuls : \A d \in nuls : c <= d
    BY <1>3, <1>5, LeastIn, Zenon
  <2> DEFINE least == CHOOSE c \in nuls : \A d \in nuls : c <= d
  <2>2. least \in nuls
    BY <2>1, Zenon
  <2>3. StrlenAt(b, k) = least - k
    BY <1>2, <1>5, Zenon
  <2> HIDE DEF least
  <2>4. QED
    BY <1>1, <1>3, <2>2, <2>3
<1>6. QED
  BY <1>4, <1>5

\* strlen of a string whose terminator is known.
LEMMA StrlenFound ==
    ASSUME NEW b \in Seq(Int), NEW k \in Nat, NEW l \in Nat,
           k + l < Len(b), b[k + l + 1] = Nul,
           \A c \in k .. k + l - 1 : b[c + 1] # Nul
    PROVE  StrlenAt(b, k) = l
<1> DEFINE nuls == {c \in k .. Len(b) - 1 : b[c + 1] = Nul}
<1>1. Len(b) \in Nat
  OBVIOUS
<1>2. k + l \in nuls
  BY <1>1
<1>3. \A d \in nuls : d \in Int /\ k + l <= d
  <2> TAKE d \in nuls
  <2>1. d \in Int /\ k <= d /\ b[d + 1] = Nul
    BY <1>1
  <2>2. ~(d <= k + l - 1)
    <3> SUFFICES ASSUME d <= k + l - 1 PROVE FALSE
      OBVIOUS
    <3>1. d \in k .. k + l - 1
      BY <2>1
    <3>2. QED
      BY <2>1, <3>1
  <2>3. QED
    BY <2>1, <2>2
<1>4. StrlenAt(b, k) = IF nuls = {} THEN Len(b) - k
                       ELSE (CHOOSE c \in nuls : \A d \in nuls : c <= d) - k
  BY DEF StrlenAt
<1> HIDE DEF nuls
<1> DEFINE least == CHOOSE c \in nuls : \A d \in nuls : c <= d
<1>5. least \in nuls /\ \A d \in nuls : least <= d
  BY <1>2, <1>3, Zenon
<1>6. StrlenAt(b, k) = least - k
  BY <1>2, <1>4, Zenon
<1> HIDE DEF least
<1>7. least = k + l
  <2>1. least \in Int /\ k + l <= least /\ least <= k + l
    BY <1>2, <1>3, <1>5
  <2>2. QED
    BY <2>1
<1>8. QED
  BY <1>6, <1>7

\* One turn of wg_for_each_device_name at cell k, and the cell it goes on to.
NextCell(b, k) == IF k + StrlenAt(b, k) + 1 > Len(b) THEN Len(b) ELSE k + StrlenAt(b, k) + 1
Turn(f, b, k) ==
    IF k >= Len(b) THEN <<[name |-> Junk, len |-> 0]>>
    ELSE IF StrlenAt(b, k) = 0 THEN << >>
    ELSE <<[name |-> b[k + 1], len |-> StrlenAt(b, k)]>> \o f[NextCell(b, k)]

IsWalk(f, b) == f = [k \in 0 .. Len(b) |-> Turn(f, b, k)]

LEMMA NextCellAhead ==
    ASSUME NEW b \in Seq(Int), NEW k \in 0 .. Len(b) - 1
    PROVE  NextCell(b, k) \in k + 1 .. Len(b)
  BY StrlenType DEF NextCell

\* The loop goes forward, so that its recursion is well founded: the turns
\* from the cell j before the end on, for every j.
LEMMA WalkExists ==
    ASSUME NEW b \in Seq(Int)
    PROVE  \E f : IsWalk(f, b)
<1> DEFINE m == Len(b)
           Good(f, j) == /\ f = [k \in 0 .. m |-> f[k]]
                         /\ \A k \in 0 .. m : k >= m - j => f[k] = Turn(f, b, k)
           S == {j \in Nat : \E f : Good(f, j)}
<1>1. m \in Nat
  OBVIOUS
<1>2. 0 \in S
  <2> DEFINE f == [k \in 0 .. m |-> <<[name |-> Junk, len |-> 0]>>]
  <2>1. f = [k \in 0 .. m |-> f[k]]
    OBVIOUS
  <2>2. ASSUME NEW k \in 0 .. m, k >= m - 0 PROVE f[k] = Turn(f, b, k)
    <3>1. k >= Len(b)
      BY <1>1, <2>2
    <3>2. f[k] = <<[name |-> Junk, len |-> 0]>>
      OBVIOUS
    <3>3. QED
      BY <3>1, <3>2 DEF Turn
  <2> HIDE DEF f
  <2>3. Good(f, 0)
    BY <2>1, <2>2, Zenon
  <2>4. QED
    BY <2>3
<1>3. ASSUME NEW j \in S PROVE j + 1 \in S
  <2>1. PICK f : Good(f, j)
    OBVIOUS
  <2> DEFINE i == m - (j + 1)
             g == [k \in 0 .. m |-> IF k = i THEN Turn(f, b, k) ELSE f[k]]
  <2>2. j \in Nat /\ i \in Int /\ i = m - (j + 1)
    BY <1>1
  <2>3. \A k \in 0 .. m : k > i => g[k] = f[k]
    BY <2>2
  <2>4. g = [k \in 0 .. m |-> g[k]]
    OBVIOUS
  <2>5. \A k \in 0 .. m : k = i => g[k] = Turn(f, b, k)
    OBVIOUS
  <2>6. \A k \in 0 .. m : k >= m - j => f[k] = Turn(f, b, k)
    BY <2>1, Zenon
  <2> HIDE DEF g, i, Good, S
  <2>7. ASSUME NEW k \in 0 .. m, k >= i PROVE Turn(g, b, k) = Turn(f, b, k)
    <3>1. CASE k >= Len(b)
      BY <3>1, Zenon DEF Turn
    <3>2. CASE ~(k >= Len(b))
      <4>1. k \in 0 .. Len(b) - 1
        BY <3>2, <1>1
      <4>2. NextCell(b, k) \in k + 1 .. Len(b)
        BY <4>1, NextCellAhead
      <4>3. NextCell(b, k) \in 0 .. m /\ NextCell(b, k) > i
        BY <1>1, <2>2, <2>7, <4>1, <4>2
      <4>4. g[NextCell(b, k)] = f[NextCell(b, k)]
        BY <2>3, <4>3
      <4>5. QED
        BY <4>4, Zenon DEF Turn
    <3>3. QED
      BY <3>1, <3>2
  <2>8. ASSUME NEW k \in 0 .. m, k >= m - (j + 1) PROVE g[k] = Turn(g, b, k)
    <3>1. CASE k = i
      BY <3>1, <2>2, <2>5, <2>7, <2>8
    <3>2. CASE k # i
      <4>1. k > i /\ k >= m - j /\ k >= i
        BY <1>1, <2>2, <2>8, <3>2
      <4>2. g[k] = f[k] /\ f[k] = Turn(f, b, k) /\ Turn(g, b, k) = Turn(f, b, k)
        BY <4>1, <2>3, <2>6, <2>7
      <4>3. QED
        BY <4>2
    <3>3. QED
      BY <3>1, <3>2
  <2>9. Good(g, j + 1)
    BY <2>4, <2>8, Zenon DEF Good
  <2>10. QED
    BY <2>2, <2>9 DEF S
<1>4. S = Nat
  <2>1. S \in SUBSET Nat
    OBVIOUS
  <2> HIDE DEF S
  <2>2. QED
    BY <1>2, <1>3, <2>1, EveryNat, Zenon
<1>5. PICK f : Good(f, m)
  BY <1>1, <1>4
<1>6. \A k \in 0 .. m : f[k] = Turn(f, b, k)
  <2> TAKE k \in 0 .. m
  <2>1. k >= m - m
    BY <1>1
  <2>2. QED
    BY <1>5, <2>1
<1>7. [k \in 0 .. m |-> f[k]] = [k \in 0 .. m |-> Turn(f, b, k)]
  BY <1>6, Zenon
<1>8. IsWalk(f, b)
  BY <1>5, <1>7, Zenon DEF IsWalk
<1>9. QED
  BY <1>8

LEMMA WalkTurns ==
    ASSUME NEW b \in Seq(Int)
    PROVE  \E f : Walk(b) = f[0] /\ \A k \in 0 .. Len(b) : f[k] = Turn(f, b, k)
<1> DEFINE f == CHOOSE f : IsWalk(f, b)
<1>1. IsWalk(f, b)
  BY WalkExists
<1>2. Walk(b) = f[0]
  BY DEF Walk, IsWalk, Turn, NextCell
<1>3. f = [k \in 0 .. Len(b) |-> Turn(f, b, k)]
  BY <1>1 DEF IsWalk
<1> HIDE DEF f
<1>4. \A k \in 0 .. Len(b) : f[k] = Turn(f, b, k)
  BY <1>3, Zenon
<1>5. QED
  BY <1>2, <1>4, Zenon

-----------------------------------------------------------------------------
(* What string_list_add has packed.                                        *)

NameSet == [name : Nat \ {0}, len : Nat \ {0}]

\* The names w lie in the buffer from cell 0 to cell end, each from off[j] on
\* and with its terminator.
Strings(b, off, w, end) ==
    /\ off \in [1 .. Len(w) + 1 -> Nat]
    /\ off[1] = 0 /\ off[Len(w) + 1] = end
    /\ \A j \in 1 .. Len(w) : /\ off[j + 1] = off[j] + w[j].len + 1
                              /\ off[j + 1] <= end
                              /\ \A c \in off[j] .. off[j] + w[j].len - 1 : b[c + 1] = w[j].name
                              /\ b[off[j + 1]] = Nul

Packed(s, w) == w \in Seq(NameSet) /\ \E off : Strings(s.buffer, off, w, s.len)

LEMMA PackedNone == Packed(NewList, << >>)
<1> DEFINE off == [j \in 1 .. 1 |-> 0]
<1>1. Strings(<< >>, off, << >>, 0)
  BY DEF Strings
<1>2. QED
  BY <1>1 DEF Packed, NewList

LEMMA Concat ==
    ASSUME NEW T, NEW x \in Seq(T), NEW y \in Seq(T)
    PROVE  /\ x \o y \in Seq(T)
           /\ Len(x \o y) = Len(x) + Len(y)
           /\ \A i \in 1 .. Len(x) : (x \o y)[i] = x[i]
           /\ \A i \in 1 .. Len(y) : (x \o y)[Len(x) + i] = y[i]
<1>1. /\ Len(x) \in Nat /\ Len(y) \in Nat
      /\ x \o y \in Seq(T) /\ Len(x \o y) = Len(x) + Len(y)
  OBVIOUS
<1>2. \A i \in 1 .. Len(x) : (x \o y)[i] = x[i]
  BY <1>1
<1>3. \A i \in 1 .. Len(y) : (x \o y)[Len(x) + i] = y[i]
  <2> TAKE i \in 1 .. Len(y)
  <2>1. Len(x) + i \in Len(x) + 1 .. Len(x) + Len(y) /\ (Len(x) + i) - Len(x) = i
    BY <1>1
  <2>2. QED
    BY <2>1, <1>1
<1>4. QED
  BY <1>1, <1>2, <1>3

LEMMA SubSeqHead ==
    ASSUME NEW S, NEW w \in Seq(S), NEW j \in 1 .. Len(w)
    PROVE  <<w[j]>> \o SubSeq(w, j + 1, Len(w)) = SubSeq(w, j, Len(w))
<1> DEFINE m == Len(w)
           t == SubSeq(w, j + 1, m)
           u == SubSeq(w, j, m)
           v == <<w[j]>> \o t
<1>1. m \in Nat /\ j \in Nat /\ 1 <= j /\ j <= m
  OBVIOUS
<1>2. t \in Seq(S) /\ Len(t) = m - j /\ \A i \in 1 .. m - j : t[i] = w[j + i]
  BY <1>1
<1>3. u \in Seq(S) /\ Len(u) = m - j + 1 /\ \A i \in 1 .. m - j + 1 : u[i] = w[j + i - 1]
  BY <1>1
<1>4. <<w[j]>> \in Seq(S) /\ Len(<<w[j]>>) = 1 /\ <<w[j]>>[1] = w[j]
  BY <1>1
<1> HIDE DEF m, t, u
<1>5. /\ v \in Seq(S) /\ Len(v) = m - j + 1
      /\ v[1] = w[j] /\ \A i \in 1 .. m - j : v[1 + i] = t[i]
  <2> DEFINE h == <<w[j]>>
  <2>1. h \in Seq(S) /\ Len(h) = 1 /\ h[1] = w[j]
    BY <1>4
  <2> HIDE DEF h
  <2>2. /\ h \o t \in Seq(S) /\ Len(h \o t) = Len(h) + Len(t)
        /\ \A i \in 1 .. Len(h) : (h \o t)[i] = h[i]
        /\ \A i \in 1 .. Len(t) : (h \o t)[Len(h) + i] = t[i]
    <3>1. h \in Seq(S) /\ t \in Seq(S)
      BY <1>2, <2>1
    <3>2. QED
      BY ONLY <3>1, Concat
  <2>3. 1 + (m - j) = m - j + 1 /\ 1 \in 1 .. 1
    BY <1>1
  <2>4. QED
    BY <1>2, <2>1, <2>2, <2>3 DEF h
<1> HIDE DEF v
<1>6. ASSUME NEW i \in 1 .. m - j + 1 PROVE v[i] = u[i]
  <2>1. CASE i = 1
    <3>1. j + 1 - 1 = j /\ 1 \in 1 .. m - j + 1
      BY <1>1
    <3>2. QED
      BY <1>3, <1>5, <2>1, <3>1, Zenon
  <2>2. CASE i # 1
    <3>1. i - 1 \in 1 .. m - j /\ j + (i - 1) = j + i - 1 /\ 1 + (i - 1) = i
      BY <1>1, <2>2
    <3>2. v[1 + (i - 1)] = t[i - 1] /\ t[i - 1] = w[j + (i - 1)] /\ u[i] = w[j + i - 1]
      BY <1>2, <1>3, <1>5, <3>1
    <3>3. QED
      BY <3>1, <3>2
  <2>3. QED
    BY <2>1, <2>2
<1>7. v = u
  BY <1>3, <1>5, <1>6
<1>8. QED
  BY <1>7 DEF v, u, t, m

\* The walk visits exactly the names.
LEMMA WalkOfStrings ==
    ASSUME NEW b \in Seq(Int), NEW w \in Seq(NameSet), NEW off, NEW end \in Nat,
           Strings(b, off, w, end), end < Len(b), b[end + 1] = Nul
    PROVE  Walk(b) = w
<1> DEFINE m == Len(w)
<1>1. m \in Nat /\ Len(b) \in Nat
  OBVIOUS
<1>2. PICK f : Walk(b) = f[0] /\ \A k \in 0 .. Len(b) : f[k] = Turn(f, b, k)
  BY WalkTurns
<1>3. \A j \in 1 .. m : /\ w[j].name \in Nat \ {0} /\ w[j].len \in Nat \ {0}
                        /\ w[j] = [name |-> w[j].name, len |-> w[j].len]
  <2> TAKE j \in 1 .. m
  <2>1. w[j] \in NameSet
    OBVIOUS
  <2>2. QED
    BY <2>1 DEF NameSet
<1>4. /\ \A j \in 1 .. m + 1 : off[j] \in Nat
      /\ off[1] = 0 /\ off[m + 1] = end
  BY Zenon DEF Strings
<1>5. \A j \in 1 .. m : /\ off[j + 1] = off[j] + w[j].len + 1
                        /\ off[j + 1] <= end
                        /\ \A c \in off[j] .. off[j] + w[j].len - 1 : b[c + 1] = w[j].name
                        /\ b[off[j + 1]] = Nul
  BY DEF Strings
<1> DEFINE S == {i \in Nat : i <= m => f[off[m + 1 - i]] = SubSeq(w, m + 1 - i, m)}
<1>6. 0 \in S
  <2>1. StrlenAt(b, end) = 0
    BY StrlenFound
  <2>2. f[end] = << >>
    <3>1. end \in 0 .. Len(b) /\ ~(end >= Len(b))
      BY <1>1
    <3>2. f[end] = Turn(f, b, end)
      BY <1>2, <3>1
    <3>3. QED
      BY <2>1, <3>1, <3>2 DEF Turn
  <2>3. SubSeq(w, m + 1, m) = << >>
    BY <1>1
  <2>4. m + 1 - 0 = m + 1
    BY <1>1
  <2>5. QED
    BY <1>4, <2>2, <2>3, <2>4, Zenon
<1>7. ASSUME NEW i \in S PROVE i + 1 \in S
  <2> SUFFICES ASSUME i + 1 <= m
               PROVE  f[off[m + 1 - (i + 1)]] = SubSeq(w, m + 1 - (i + 1), m)
    BY <1>1
  <2> DEFINE j == m - i
             k == off[j]
  <2>1. /\ i \in Nat /\ j \in 1 .. m /\ j \in 1 .. m + 1 /\ j + 1 \in 1 .. m + 1
        /\ m + 1 - (i + 1) = j /\ m + 1 - i = j + 1 /\ i <= m
    BY <1>1
  <2>2. f[off[j + 1]] = SubSeq(w, j + 1, m)
    BY <2>1
  <2> HIDE DEF j, m, S
  <2>3. /\ w[j].len \in Nat \ {0} /\ w[j].name \in Nat \ {0}
        /\ w[j] = [name |-> w[j].name, len |-> w[j].len]
    BY <1>3, <2>1
  <2>4. /\ k \in Nat /\ off[j + 1] = k + w[j].len + 1 /\ off[j + 1] <= end
        /\ \A c \in k .. k + w[j].len - 1 : b[c + 1] = w[j].name
        /\ b[off[j + 1]] = Nul
    BY <1>4, <1>5, <2>1
  <2> HIDE DEF k
  <2>5. StrlenAt(b, k) = w[j].len
    <3>1. k + w[j].len < Len(b) /\ b[k + w[j].len + 1] = Nul
      BY <1>1, <2>3, <2>4
    <3>2. \A c \in k .. k + w[j].len - 1 : b[c + 1] # Nul
      BY <2>3, <2>4, Zenon DEF Nul
    <3>3. w[j].len \in Nat
      BY <2>3
    <3>4. QED
      BY <2>4, <3>1, <3>2, <3>3, StrlenFound, Zenon
  <2>6. k \in 0 .. Len(b) /\ ~(k >= Len(b)) /\ NextCell(b, k) = off[j + 1]
    <3> DEFINE n == w[j].len
               next == off[j + 1]
    <3>1. n \in Nat /\ k \in Nat /\ next = k + n + 1 /\ next <= end /\ StrlenAt(b, k) = n
      BY <2>3, <2>4, <2>5
    <3> HIDE DEF n, next
    <3>2. k \in 0 .. Len(b) /\ ~(k >= Len(b)) /\ ~(k + n + 1 > Len(b))
      BY ONLY <1>1, <3>1, end \in Nat, end < Len(b)
    <3>3. NextCell(b, k) = next
      BY ONLY <3>1, <3>2 DEF NextCell
    <3>4. QED
      BY <3>2, <3>3 DEF next
  <2>7. b[k + 1] = w[j].name
    <3> DEFINE n == w[j].len
    <3>1. n \in Nat \ {0} /\ k \in Nat
      BY <2>3, <2>4
    <3> HIDE DEF n
    <3>2. k \in k .. k + n - 1
      BY ONLY <3>1
    <3>3. QED
      BY <2>4, <3>2, Zenon DEF n
  <2>8. f[k] = <<w[j]>> \o SubSeq(w, j + 1, m)
    <3>1. f[k] = Turn(f, b, k)
      BY <1>2, <2>6
    <3>2. Turn(f, b, k) = <<[name |-> b[k + 1], len |-> StrlenAt(b, k)]>> \o f[NextCell(b, k)]
      BY <2>3, <2>5, <2>6, Zenon DEF Turn
    <3>3. QED
      BY <2>2, <2>3, <2>5, <2>6, <2>7, <3>1, <3>2, Zenon
  <2>9. <<w[j]>> \o SubSeq(w, j + 1, m) = SubSeq(w, j, m)
    BY <2>1, SubSeqHead, Zenon DEF m
  <2>10. QED
    BY <2>1, <2>8, <2>9, Zenon DEF k
<1>8. S = Nat
  <2>1. S \in SUBSET Nat
    OBVIOUS
  <2> HIDE DEF S
  <2>2. QED
    BY <1>6, <1>7, <2>1, EveryNat, Zenon
<1>9. f[off[1]] = SubSeq(w, 1, m)
  <2>1. m + 1 - m = 1 /\ m <= m
    BY <1>1
  <2>2. f[off[m + 1 - m]] = SubSeq(w, m + 1 - m, m)
    BY <1>1, <1>8, <2>1, Zenon
  <2>3. QED
    BY <2>1, <2>2
<1>10. SubSeq(w, 1, m) = w
  OBVIOUS
<1>11. QED
  BY <1>2, <1>4, <1>9, <1>10

\* The list of a call that returned names.
LEMMA WalkOfPacked ==
    ASSUME NEW s, NEW w, Terminated(s), Packed(s, w), s.cap \in Nat, s.len \in Nat
    PROVE  Walk(IF s.cap = 0 THEN <<Nul>> ELSE s.buffer) = w
<1>1. w \in Seq(NameSet)
  BY DEF Packed
<1>2. PICK off : Strings(s.buffer, off, w, s.len)
  BY DEF Packed
<1>3. CASE s.cap = 0
  <2>1. s.len = 0 /\ s.buffer = << >>
    BY <1>3 DEF Terminated, NewList
  <2>2. Len(w) = 0
    <3> SUFFICES ASSUME Len(w) # 0 PROVE FALSE
      OBVIOUS
    <3>1. 1 \in 1 .. Len(w) /\ w[1].len \in Nat
      <4>1. 1 \in 1 .. Len(w) /\ w[1] \in NameSet
        BY <1>1
      <4>2. QED
        BY <4>1 DEF NameSet
    <3>2. off[1 + 1] = off[1] + w[1].len + 1 /\ off[1 + 1] <= s.len /\ off[1] = 0
      BY <1>2, <3>1 DEF Strings
    <3>3. QED
      BY <2>1, <3>1, <3>2
  <2>3. w = << >>
    BY <1>1, <2>2
  <2>4. <<Nul>> \in Seq(Int) /\ 0 < Len(<<Nul>>) /\ <<Nul>>[0 + 1] = Nul /\ 0 \in Nat
    BY DEF Nul
  <2>5. Strings(<<Nul>>, [j \in 1 .. 1 |-> 0], << >>, 0)
    BY DEF Strings
  <2>6. << >> \in Seq(NameSet)
    OBVIOUS
  <2>7. Walk(<<Nul>>) = << >>
    BY <2>4, <2>5, <2>6, WalkOfStrings, Zenon
  <2>8. QED
    BY <1>3, <2>3, <2>7
<1>4. CASE s.cap # 0
  <2>1. s # NewList
    BY <1>4 DEF NewList
  <2>2. s.buffer \in Seq(Int) /\ Len(s.buffer) = s.cap /\ s.len < s.cap /\ s.buffer[s.len + 1] = Nul
    BY <2>1 DEF Terminated
  <2>3. Walk(s.buffer) = w
    BY <1>1, <1>2, <2>2, WalkOfStrings
  <2>4. QED
    BY <1>4, <2>3
<1>5. QED
  BY <1>3, <1>4

\* string_list_add of a name that is not empty packs it behind the others.
LEMMA AddPacks ==
    ASSUME NEW s, NEW w, Terminated(s), Packed(s, w), s.cap \in Nat, s.len \in Nat,
           NEW name \in Nat \ {0}, NEW len \in Nat, len > 1
    PROVE  Packed(string_list_add(s, name, len), Append(w, [name |-> name, len |-> len - 1]))
<1> DEFINE c == Cap(s, len)
           b == [k \in 1 .. c |-> Cell(s, name, len, k - 1)]
           l == string_list_add(s, name, len)
           m == Len(w)
           x == [name |-> name, len |-> len - 1]
           v == Append(w, x)
<1>1. l.buffer = b /\ l.len = s.len + len
  BY DEF string_list_add
<1>2. (s.cap = 0 /\ s.len = 0) \/ s.len \in 1 .. s.cap - 1
  BY DEF Terminated, NewList
<1>3. c \in Nat /\ s.len + len + 1 <= c
  <2>1. CASE NoRoom(s, len)
    BY <1>2, <2>1 DEF Cap, NewCap
  <2>2. CASE ~NoRoom(s, len)
    BY <1>2, <2>2 DEF Cap, NoRoom
  <2>3. QED
    BY <2>1, <2>2
<1>4. w \in Seq(NameSet) /\ m \in Nat
  BY DEF Packed
<1>5. PICK off : Strings(s.buffer, off, w, s.len)
  BY DEF Packed
<1>6. \A k \in 1 .. c : b[k] = Cell(s, name, len, k - 1)
  OBVIOUS
<1>7. x \in NameSet /\ x.name = name /\ x.len = len - 1
  BY DEF NameSet
<1>8. /\ v \in Seq(NameSet) /\ Len(v) = m + 1 /\ v[m + 1] = x
      /\ \A j \in 1 .. m : v[j] = w[j]
  BY <1>4, <1>7
<1> HIDE DEF b, c, l, x, v
<1>9. \A k \in 1 .. s.len : b[k] = s.buffer[k]
  <2> TAKE k \in 1 .. s.len
  <2>1. k \in 1 .. c /\ k - 1 < s.len /\ k - 1 + 1 = k
    BY <1>3
  <2>2. QED
    BY <1>6, <2>1 DEF Cell
<1>10. \A k \in s.len .. s.len + len - 2 : b[k + 1] = name
  <2> TAKE k \in s.len .. s.len + len - 2
  <2>1. k + 1 \in 1 .. c /\ k + 1 - 1 = k /\ ~(k < s.len)
    BY <1>3
  <2>2. QED
    BY <1>6, <2>1 DEF Cell
<1>11. b[s.len + len] = Nul
  <2>1. /\ s.len + len \in 1 .. c /\ ~(s.len + len - 1 < s.len)
        /\ s.len + len - 1 \notin s.len .. s.len + len - 2
    BY <1>3
  <2>2. b[s.len + len] = Cell(s, name, len, s.len + len - 1)
    BY <1>6, <2>1
  <2>3. QED
    BY <2>1, <2>2 DEF Cell
<1> DEFINE new == [j \in 1 .. m + 2 |-> IF j = m + 2 THEN s.len + len ELSE off[j]]
<1>12. /\ off \in [1 .. m + 1 -> Nat] /\ off[1] = 0 /\ off[m + 1] = s.len
       /\ \A j \in 1 .. m + 1 : off[j] \in Nat
  BY <1>5, Zenon DEF Strings
<1>13. /\ new \in [1 .. m + 2 -> Nat] /\ new[m + 2] = s.len + len
       /\ \A j \in 1 .. m + 1 : new[j] = off[j]
  BY <1>4, <1>12
<1>14. \A j \in 1 .. m :
          /\ off[j + 1] = off[j] + w[j].len + 1 /\ off[j + 1] <= s.len
          /\ \A k \in off[j] .. off[j] + w[j].len - 1 : s.buffer[k + 1] = w[j].name
          /\ s.buffer[off[j + 1]] = Nul
  BY <1>5 DEF Strings
<1>15. \A j \in 1 .. m : w[j].len \in Nat
  <2> TAKE j \in 1 .. m
  <2>1. w[j] \in NameSet
    BY <1>4
  <2>2. QED
    BY <2>1 DEF NameSet
<1> HIDE DEF m, new
<1>16. ASSUME NEW j \in 1 .. m
       PROVE  /\ new[j + 1] = new[j] + v[j].len + 1
              /\ new[j + 1] <= s.len + len
              /\ \A k \in new[j] .. new[j] + v[j].len - 1 : b[k + 1] = v[j].name
              /\ b[new[j + 1]] = Nul
  <2>1. j \in 1 .. m + 1 /\ j + 1 \in 1 .. m + 1
    BY <1>4 DEF m
  <2>2. new[j] = off[j] /\ new[j + 1] = off[j + 1] /\ v[j] = w[j]
    BY <1>8, <1>13, <2>1
  <2>3. off[j] \in Nat /\ off[j + 1] \in Nat /\ w[j].len \in Nat
    BY <1>12, <1>15, <2>1
  <2>4. /\ off[j + 1] = off[j] + w[j].len + 1 /\ off[j + 1] <= s.len
        /\ \A k \in off[j] .. off[j] + w[j].len - 1 : s.buffer[k + 1] = w[j].name
        /\ s.buffer[off[j + 1]] = Nul
    BY <1>14
  <2>5. \A k \in off[j] .. off[j] + w[j].len - 1 : b[k + 1] = w[j].name
    <3> TAKE k \in off[j] .. off[j] + w[j].len - 1
    <3>1. k + 1 \in 1 .. s.len
      BY <2>3, <2>4
    <3>2. QED
      BY <1>9, <2>4, <3>1
  <2>6. off[j + 1] \in 1 .. s.len /\ off[j + 1] <= s.len + len
    BY <2>3, <2>4
  <2>7. b[off[j + 1]] = Nul
    BY <1>9, <2>4, <2>6
  <2>8. QED
    BY <2>2, <2>4, <2>5, <2>6, <2>7
<1>17. /\ new[m + 1 + 1] = new[m + 1] + v[m + 1].len + 1
       /\ new[m + 1 + 1] <= s.len + len
       /\ \A k \in new[m + 1] .. new[m + 1] + v[m + 1].len - 1 : b[k + 1] = v[m + 1].name
       /\ b[new[m + 1 + 1]] = Nul
  <2>1. m \in Nat /\ m + 1 \in 1 .. m + 1 /\ m + 1 + 1 = m + 2
    BY <1>4 DEF m
  <2>2. new[m + 1] = s.len /\ new[m + 2] = s.len + len
    BY <1>12, <1>13, <2>1
  <2>3. v[m + 1].len = len - 1 /\ v[m + 1].name = name
    BY <1>7, <1>8
  <2>4. s.len + (len - 1) - 1 = s.len + len - 2 /\ s.len + (len - 1) + 1 = s.len + len
    OBVIOUS
  <2>5. QED
    BY <1>10, <1>11, <2>1, <2>2, <2>3, <2>4
<1>18. Strings(b, new, v, s.len + len)
  <2>1. m \in Nat /\ m + 1 + 1 = m + 2 /\ Len(v) = m + 1
    BY <1>4, <1>8 DEF m
  <2>2. new[1] = 0
    BY <1>12, <1>13, <2>1
  <2>3. \A j \in 1 .. m + 1 :
          /\ new[j + 1] = new[j] + v[j].len + 1
          /\ new[j + 1] <= s.len + len
          /\ \A k \in new[j] .. new[j] + v[j].len - 1 : b[k + 1] = v[j].name
          /\ b[new[j + 1]] = Nul
    <3> TAKE j \in 1 .. m + 1
    <3>1. j \in 1 .. m \/ j = m + 1
      BY <2>1
    <3>2. QED
      BY <1>16, <1>17, <3>1
  <2>4. QED
    BY <1>13, <2>1, <2>2, <2>3, Zenon DEF Strings
<1>19. QED
  BY <1>1, <1>8, <1>18 DEF Packed, l, v, x

-----------------------------------------------------------------------------
(* The names of the first links.                                           *)

Named(f, k, n) == IF k[n] = "wireguard" /\ Length[n] > 0
                  THEN Append(f[n - 1], [name |-> n, len |-> Length[n]])
                  ELSE f[n - 1]
IsUpto(f, k) == f = [n \in 0 .. N |-> IF n = 0 THEN << >> ELSE Named(f, k, n)]
Upto(k) == CHOOSE f : IsUpto(f, k)

LEMMA UptoExists ==
    ASSUME NEW k
    PROVE  \E f : IsUpto(f, k)
<1> DEFINE Good(f, j) ==
             /\ f = [n \in 0 .. N |-> f[n]]
             /\ \A n \in 0 .. N : n <= j => f[n] = IF n = 0 THEN << >> ELSE Named(f, k, n)
           S == {j \in Nat : \E f : Good(f, j)}
<1>1. N \in Nat
  BY LinkAssumption
<1>2. 0 \in S
  <2> DEFINE f == [n \in 0 .. N |-> << >>]
  <2>1. f = [n \in 0 .. N |-> f[n]] /\ \A n \in 0 .. N : f[n] = << >>
    OBVIOUS
  <2> HIDE DEF f
  <2>2. \A n \in 0 .. N : n <= 0 => n = 0
    BY <1>1
  <2>3. Good(f, 0)
    BY <2>1, <2>2, Zenon
  <2>4. QED
    BY <2>3, Zenon
<1>3. ASSUME NEW j \in S PROVE j + 1 \in S
  <2>1. PICK f : Good(f, j)
    OBVIOUS
  <2> DEFINE g == [n \in 0 .. N |-> IF n = j + 1 THEN Named(f, k, n) ELSE f[n]]
  <2>2. j \in Nat
    OBVIOUS
  <2>3. /\ g = [n \in 0 .. N |-> g[n]]
        /\ \A n \in 0 .. N : n # j + 1 => g[n] = f[n]
        /\ \A n \in 0 .. N : n = j + 1 => g[n] = Named(f, k, n)
    OBVIOUS
  <2>4. \A n \in 0 .. N : n <= j => f[n] = IF n = 0 THEN << >> ELSE Named(f, k, n)
    BY <2>1, Zenon
  <2> HIDE DEF g, Good, S
  <2>5. ASSUME NEW n \in 0 .. N, n <= j + 1, n # 0 PROVE Named(g, k, n) = Named(f, k, n)
    <3>1. n - 1 \in 0 .. N /\ n - 1 # j + 1
      BY <1>1, <2>2, <2>5
    <3>2. g[n - 1] = f[n - 1]
      BY <2>3, <3>1
    <3>3. QED
      BY <3>2, Zenon DEF Named
  <2>6. ASSUME NEW n \in 0 .. N, n <= j + 1
        PROVE  g[n] = IF n = 0 THEN << >> ELSE Named(g, k, n)
    <3>1. CASE n = j + 1
      <4>1. n # 0
        BY <2>2, <3>1
      <4>2. QED
        BY <2>3, <2>5, <2>6, <3>1, <4>1
    <3>2. CASE n # j + 1
      <4>1. n <= j
        BY <1>1, <2>2, <2>6, <3>2
      <4>2. g[n] = f[n] /\ f[n] = IF n = 0 THEN << >> ELSE Named(f, k, n)
        BY <2>3, <2>4, <3>2, <4>1
      <4>3. QED
        BY <2>5, <2>6, <4>2
    <3>3. QED
      BY <3>1, <3>2
  <2>7. Good(g, j + 1)
    BY <2>3, <2>6, Zenon DEF Good
  <2>8. QED
    BY <2>2, <2>7 DEF S
<1>4. S = Nat
  <2>1. S \in SUBSET Nat
    OBVIOUS
  <2> HIDE DEF S
  <2>2. QED
    BY <1>2, <1>3, <2>1, EveryNat, Zenon
<1>5. PICK f : Good(f, N)
  BY <1>1, <1>4
<1>6. \A n \in 0 .. N : f[n] = IF n = 0 THEN << >> ELSE Named(f, k, n)
  <2> TAKE n \in 0 .. N
  <2>1. n <= N
    BY <1>1
  <2>2. QED
    BY <1>5, <2>1
<1>7. [n \in 0 .. N |-> f[n]] = [n \in 0 .. N |-> IF n = 0 THEN << >> ELSE Named(f, k, n)]
  BY <1>6, Zenon
<1>8. IsUpto(f, k)
  BY <1>5, <1>7, Zenon DEF IsUpto
<1>9. QED
  BY <1>8

LEMMA UptoFacts ==
    ASSUME NEW k
    PROVE  /\ WgNames(k) = Upto(k)[N]
           /\ Upto(k)[0] = << >>
           /\ \A n \in 1 .. N : Upto(k)[n] = Named(Upto(k), k, n)
<1> DEFINE f == Upto(k)
<1>1. IsUpto(f, k)
  BY UptoExists, Zenon DEF Upto
<1>2. WgNames(k) = f[N]
  BY DEF WgNames, Upto, IsUpto, Named
<1>3. f = [n \in 0 .. N |-> IF n = 0 THEN << >> ELSE Named(f, k, n)]
  BY <1>1, Zenon DEF IsUpto
<1> HIDE DEF f
<1>4. 0 \in 0 .. N /\ \A n \in 1 .. N : n \in 0 .. N /\ n # 0
  BY LinkAssumption
<1>5. f[0] = << >> /\ \A n \in 1 .. N : f[n] = Named(f, k, n)
  BY <1>3, <1>4, Zenon
<1>6. QED
  BY <1>2, <1>5 DEF f

LEMMA UptoType ==
    ASSUME NEW k, NEW a \in 0 .. N
    PROVE  Upto(k)[a] \in Seq(NameSet)
<1> DEFINE f == Upto(k)
           S == {n \in Nat : n <= N => f[n] \in Seq(NameSet)}
<1>1. /\ N \in Nat /\ f[0] = << >> /\ \A n \in 1 .. N : f[n] = Named(f, k, n)
  BY LinkAssumption, UptoFacts
<1> HIDE DEF f
<1>2. 0 \in S
  <2>1. f[0] \in Seq(NameSet)
    BY <1>1
  <2>2. QED
    BY <2>1
<1>3. ASSUME NEW n \in S PROVE n + 1 \in S
  <2> SUFFICES ASSUME n + 1 <= N PROVE f[n + 1] \in Seq(NameSet)
    OBVIOUS
  <2>1. n \in Nat /\ n + 1 \in 1 .. N /\ n + 1 - 1 = n /\ f[n] \in Seq(NameSet)
    BY <1>1
  <2>2. f[n + 1] = IF k[n + 1] = "wireguard" /\ Length[n + 1] > 0
                   THEN Append(f[n], [name |-> n + 1, len |-> Length[n + 1]]) ELSE f[n]
    BY <1>1, <2>1 DEF Named
  <2>3. Length[n + 1] \in Nat
    BY <2>1, LinkAssumption
  <2>4. Length[n + 1] > 0 => [name |-> n + 1, len |-> Length[n + 1]] \in NameSet
    BY <2>1, <2>3 DEF NameSet
  <2>5. QED
    BY <2>1, <2>2, <2>4
<1>4. S = Nat
  <2>1. S \in SUBSET Nat
    OBVIOUS
  <2> HIDE DEF S
  <2>2. QED
    BY <1>2, <1>3, <2>1, EveryNat, Zenon
<1>5. QED
  BY <1>1, <1>4 DEF f

\* Links of another kind, or none, have no name in the list.
LEMMA UptoSkips ==
    ASSUME NEW k, NEW a \in 0 .. N, NEW e \in a .. N,
           \A i \in a + 1 .. e : k[i] # "wireguard"
    PROVE  Upto(k)[e] = Upto(k)[a]
<1> DEFINE f == Upto(k)
           S == {j \in Nat : a + j <= e => f[a + j] = f[a]}
<1>1. /\ N \in Nat /\ a \in Nat /\ e \in Nat /\ a <= e /\ e <= N
      /\ \A n \in 1 .. N : f[n] = Named(f, k, n)
  BY LinkAssumption, UptoFacts
<1> HIDE DEF f
<1>2. 0 \in S
  BY <1>1
<1>3. ASSUME NEW j \in S PROVE j + 1 \in S
  <2> SUFFICES ASSUME a + (j + 1) <= e PROVE f[a + (j + 1)] = f[a]
    OBVIOUS
  <2> DEFINE n == a + (j + 1)
  <2>1. /\ j \in Nat /\ n \in 1 .. N /\ n \in a + 1 .. e /\ n - 1 = a + j /\ f[a + j] = f[a]
    BY <1>1
  <2> HIDE DEF n
  <2>2. f[n] = f[n - 1]
    BY <1>1, <2>1, Zenon DEF Named
  <2>3. QED
    BY <2>1, <2>2 DEF n
<1>4. S = Nat
  <2>1. S \in SUBSET Nat
    OBVIOUS
  <2> HIDE DEF S
  <2>2. QED
    BY <1>2, <1>3, <2>1, EveryNat, Zenon
<1>5. e - a \in Nat /\ a + (e - a) = e /\ e <= e
  BY <1>1
<1>6. f[a + (e - a)] = f[a]
  BY <1>4, <1>5, Zenon
<1>7. QED
  BY <1>5, <1>6 DEF f

\* The names of the first links come first.
LEMMA UptoPrefix ==
    ASSUME NEW k, NEW a \in 0 .. N
    PROVE  IsPrefix(Upto(k)[a], WgNames(k))
<1> DEFINE f == Upto(k)
           w == f[a]
           Begins(v) == /\ v \in Seq(NameSet) /\ Len(w) <= Len(v)
                        /\ \A i \in 1 .. Len(w) : v[i] = w[i]
           S == {j \in Nat : a + j <= N => Begins(f[a + j])}
<1>1. /\ N \in Nat /\ a \in Nat /\ a <= N
      /\ \A n \in 1 .. N : f[n] = Named(f, k, n)
      /\ \A n \in 0 .. N : f[n] \in Seq(NameSet)
      /\ WgNames(k) = f[N]
  BY LinkAssumption, UptoFacts, UptoType
<1>2. w \in Seq(NameSet) /\ Len(w) \in Nat
  BY <1>1
<1> HIDE DEF f, w
<1>3. 0 \in S
  <2>1. a + 0 = a
    BY <1>1
  <2>2. Begins(w)
    BY <1>2
  <2>3. QED
    BY <2>1, <2>2 DEF w
<1>4. ASSUME NEW j \in S PROVE j + 1 \in S
  <2> SUFFICES ASSUME a + (j + 1) <= N PROVE Begins(f[a + (j + 1)])
    OBVIOUS
  <2> DEFINE n == a + (j + 1)
             v == f[a + j]
             x == [name |-> n, len |-> Length[n]]
  <2>1. j \in Nat /\ n \in 1 .. N /\ n \in 0 .. N /\ n - 1 = a + j /\ Begins(v)
    BY <1>1
  <2> HIDE DEF n, v, x
  <2>2. f[n] \in Seq(NameSet) /\ (f[n] = v \/ f[n] = Append(v, x))
    BY <1>1, <2>1, Zenon DEF Named, v, x
  <2>3. CASE f[n] = v
    BY <2>1, <2>3 DEF n
  <2>4. CASE f[n] = Append(v, x)
    <3>1. /\ Len(v) \in Nat /\ Len(Append(v, x)) = Len(v) + 1
          /\ \A i \in 1 .. Len(v) : Append(v, x)[i] = v[i]
      BY <2>1
    <3>2. \A i \in 1 .. Len(w) : i \in 1 .. Len(v)
      BY <1>2, <2>1, <3>1
    <3>3. Len(w) <= Len(v) + 1
      BY <1>2, <2>1, <3>1
    <3>4. QED
      BY <2>1, <2>2, <2>4, <3>1, <3>2, <3>3 DEF n
  <2>5. QED
    BY <2>2, <2>3, <2>4
<1>5. S = Nat
  <2>1. S \in SUBSET Nat
    OBVIOUS
  <2> HIDE DEF S
  <2>2. QED
    BY <1>3, <1>4, <2>1, EveryNat, Zenon
<1> DEFINE all == f[N]
<1>6. all \in Seq(NameSet) /\ Len(w) <= Len(all) /\ \A i \in 1 .. Len(w) : all[i] = w[i]
  <2>1. N - a \in Nat /\ a + (N - a) = N /\ N <= N
    BY <1>1
  <2>2. Begins(f[a + (N - a)])
    BY <1>5, <2>1, Zenon
  <2>3. QED
    BY <2>1, <2>2
<1> HIDE DEF all
<1>7. SubSeq(w, 1, Len(w)) = SubSeq(all, 1, Len(w))
  BY <1>2, <1>6
<1>8. QED
  BY <1>1, <1>6, <1>7 DEF IsPrefix, all, w, f

-----------------------------------------------------------------------------
(* wg_list_device_names.                                                   *)

\* The list holds the names of the first links, and of all of them unless the
\* dump was interrupted.
Listed == \E a \in 0 .. N : /\ Packed(list, Upto(snap)[a])
                            /\ ~cut => Upto(snap)[a] = WgNames(snap)

\* At another:, the list has the links that the dump has passed, and while no
\* link changed the snapshot is what the kernel has.
Reading == /\ Packed(list, Upto(snap)[at])
           /\ seen = "none" => at = 0
           /\ seen = "same" => kind = snap

Listing == /\ pc \in {"setup", "send"} => list = NewList
           /\ pc = "answer" => op[1] # "list"
           /\ pc = "another" => Reading
           /\ pc = "cleanup" /\ op[1] = "list" /\ ret = 0 => Listed
           /\ ListsSnapshot

LEMMA ListingInit == Init => Listing
<1> SUFFICES ASSUME Init PROVE Listing
  OBVIOUS
<1>1. pc = "setup" /\ list = NewList
  BY DEF Init
<1>2. QED
  BY <1>1 DEF Listing, ListsSnapshot

\* The next link, or the end of the dump: no link stands between, and the
\* snapshot is the kernel's state unless the flag is set.
LEMMA NothingBetween ==
    ASSUME IInv, Reading, ~DumpIntr, NEW e \in at .. N,
           Links(kind) \cap (at + 1 .. e) = {},
           NEW s, s = IF seen = "none" THEN kind ELSE snap
    PROVE  s = kind /\ Packed(list, Upto(s)[e])
<1>1. /\ N \in Nat /\ at \in 0 .. N /\ seen \in {"none", "same", "changed"}
      /\ kind \in [1 .. N -> Kinds]
  BY LinkAssumption DEF IInv, TypeOK
<1>2. s = kind /\ Packed(list, Upto(s)[at])
  <2>1. CASE seen = "none"
    <3>1. at = 0 /\ s = kind
      BY <2>1 DEF Reading
    <3>2. Upto(s)[0] = << >> /\ Upto(snap)[0] = << >>
      BY UptoFacts
    <3>3. QED
      BY <3>1, <3>2 DEF Reading
  <2>2. CASE seen # "none"
    <3>1. seen = "same" /\ s = snap
      BY <1>1, <2>2 DEF DumpIntr
    <3>2. QED
      BY <3>1 DEF Reading
  <2>3. QED
    BY <2>1, <2>2
<1>3. \A i \in at + 1 .. e : s[i] # "wireguard"
  <2> TAKE i \in at + 1 .. e
  <2>1. i \in 1 .. N
    BY <1>1
  <2>2. i \notin Links(kind)
    OBVIOUS
  <2>3. kind[i] = "none"
    BY <2>1, <2>2 DEF Links
  <2>4. QED
    BY <1>2, <2>3
<1>4. Upto(s)[e] = Upto(s)[at]
  BY <1>1, <1>3, UptoSkips
<1>5. QED
  BY <1>2, <1>4

\* read_devices_cb adds the name of a WireGuard link.
LEMMA AddsName ==
    ASSUME IInv, NEW n \in 1 .. N, Packed(list, Upto(kind)[n - 1])
    PROVE  Packed(read_devices_cb(n), Upto(kind)[n])
<1> DEFINE f == Upto(kind)
<1>1. /\ Terminated(list) /\ list.cap \in Nat /\ list.len \in Nat
      /\ n \in Nat \ {0} /\ Length[n] \in Nat
  BY LinkAssumption DEF IInv, TypeOK, DoubleNul
<1>2. f[n] = IF kind[n] = "wireguard" /\ Length[n] > 0
             THEN Append(f[n - 1], [name |-> n, len |-> Length[n]]) ELSE f[n - 1]
  BY UptoFacts DEF Named
<1> HIDE DEF f
<1>3. CASE kind[n] = "wireguard" /\ Length[n] > 0
  <2>1. Length[n] + 1 \in Nat /\ Length[n] + 1 > 1 /\ Length[n] + 1 - 1 = Length[n]
    BY <1>1, <1>3
  <2>2. Packed(string_list_add(list, n, Length[n] + 1),
               Append(f[n - 1], [name |-> n, len |-> Length[n] + 1 - 1]))
    BY <1>1, <2>1, AddPacks DEF f
  <2>3. read_devices_cb(n) = string_list_add(list, n, Length[n] + 1)
    BY <1>3 DEF read_devices_cb, is_wireguard
  <2>4. QED
    BY <1>2, <1>3, <2>1, <2>2, <2>3 DEF f
<1>4. CASE ~(kind[n] = "wireguard" /\ Length[n] > 0)
  <2>1. f[n] = f[n - 1]
    BY <1>2, <1>4
  <2>2. kind[n] = "wireguard" => Length[n] + 1 = 1
    BY <1>1, <1>4
  <2>3. read_devices_cb(n) = list
    BY <2>2 DEF read_devices_cb, is_wireguard, string_list_add
  <2>4. QED
    BY <2>1, <2>3 DEF f
<1>5. QED
  BY <1>3, <1>4

LEMMA ListingLink == IInv /\ ListsOnly /\ Listing /\ RecvLink => Listing'
<1> SUFFICES ASSUME IInv, ListsOnly, Listing, RecvLink PROVE Listing'
  OBVIOUS
<1>1. pc = "another" /\ op[1] = "list" /\ UNCHANGED <<kind, op>> /\ Reading
  BY DEF RecvLink, ListsOnly, Listing
<1>2. PICK n \in at + 1 .. N :
       /\ Links(kind) \cap (at + 1 .. n) = {n}
       /\ at' = n /\ seen' = "same"
       /\ snap' = IF seen = "none" THEN kind ELSE snap
       /\ \/ /\ DumpIntr
             /\ cut' = TRUE /\ ret' = 0 /\ pc' = "cleanup" /\ list' = list
          \/ /\ ~DumpIntr
             /\ list' = read_devices_cb(n) /\ pc' = pc
          \/ ret' = -ERR /\ pc' = "cleanup"
  BY DEF RecvLink, Goto
<1>3. /\ N \in Nat /\ at \in 0 .. N
      /\ n \in 1 .. N /\ n - 1 \in at .. N
      /\ \A i \in at + 1 .. n - 1 : i \in at + 1 .. n /\ i # n
  <2>1. N \in Nat /\ at \in 0 .. N
    BY LinkAssumption DEF IInv, TypeOK
  <2>2. QED
    BY <2>1
<1>4. CASE DumpIntr /\ cut' = TRUE /\ pc' = "cleanup" /\ list' = list
  <2>1. snap' = snap
    BY <1>2, <1>4 DEF DumpIntr
  <2>2. Listed'
    BY <1>1, <1>3, <1>4, <2>1 DEF Listed, Reading
  <2>3. QED
    BY <1>4, <2>2 DEF Listing, ListsSnapshot
<1>5. CASE ~DumpIntr /\ list' = read_devices_cb(n) /\ pc' = pc
  <2>1. Links(kind) \cap (at + 1 .. n - 1) = {}
    BY <1>2, <1>3
  <2>2. snap' = kind /\ Packed(list, Upto(snap')[n - 1])
    BY <1>1, <1>2, <1>3, <1>5, <2>1, NothingBetween
  <2>3. Packed(list', Upto(snap')[n])
    BY <1>3, <1>5, <2>2, AddsName
  <2>4. seen' # "none"
    BY <1>2
  <2>5. Reading'
    BY <1>1, <1>2, <2>2, <2>3, <2>4 DEF Reading
  <2>6. QED
    BY <1>1, <1>5, <2>5 DEF Listing, ListsSnapshot
<1>6. CASE ret' = -ERR /\ pc' = "cleanup"
  BY <1>6 DEF Listing, ListsSnapshot, ERR
<1>7. QED
  BY <1>2, <1>4, <1>5, <1>6, Zenon

LEMMA ListingDone == IInv /\ ListsOnly /\ Listing /\ RecvDone => Listing'
<1> SUFFICES ASSUME IInv, ListsOnly, Listing, RecvDone PROVE Listing'
  OBVIOUS
<1>1. /\ pc = "another" /\ Reading
      /\ Links(kind) \cap (at + 1 .. N) = {}
      /\ snap' = IF seen = "none" THEN kind ELSE snap
      /\ cut' = DumpIntr /\ pc' = "cleanup" /\ list' = list
  BY DEF RecvDone, Goto, Listing
<1>2. N \in Nat /\ at \in 0 .. N /\ N \in at .. N /\ N \in 0 .. N
  BY LinkAssumption DEF IInv, TypeOK
<1>3. Listed'
  <2>1. CASE DumpIntr
    <3>1. snap' = snap /\ cut' = TRUE
      BY <1>1, <2>1, Zenon DEF DumpIntr
    <3>2. QED
      BY <1>1, <1>2, <3>1 DEF Listed, Reading
  <2>2. CASE ~DumpIntr
    <3>1. Packed(list, Upto(snap')[N])
      BY <1>1, <1>2, <2>2, NothingBetween
    <3>2. Upto(snap')[N] = WgNames(snap')
      BY UptoFacts
    <3>3. QED
      BY <1>1, <1>2, <3>1, <3>2 DEF Listed
  <2>3. QED
    BY <2>1, <2>2
<1>4. QED
  BY <1>1, <1>3 DEF Listing, ListsSnapshot

\* The result is the list, and what the caller reads from it is what the list
\* was built from.
LEMMA ListingCleanup == IInv /\ Listing /\ Cleanup => Listing'
<1> SUFFICES ASSUME IInv, Listing, Cleanup PROVE Listing'
  OBVIOUS
<1>1. pc = "cleanup" /\ pc' = "done" /\ UNCHANGED <<op, snap, cut>>
  BY DEF Cleanup, Goto, dump
<1>2. SUFFICES ASSUME op[1] = "list", names' # NULL
               PROVE  /\ IsPrefix(Walk(names'), WgNames(snap))
                      /\ ~cut => Walk(names') = WgNames(snap)
  BY <1>1 DEF Listing, ListsSnapshot
<1>3. names' \in Result
  BY <1>2 DEF Cleanup
<1>4. ret = 0 /\ names' = IF list.cap = 0 THEN <<Nul>> ELSE list.buffer
  BY <1>2, <1>3 DEF Result
<1>5. PICK a \in 0 .. N : /\ Packed(list, Upto(snap)[a])
                          /\ ~cut => Upto(snap)[a] = WgNames(snap)
  BY <1>1, <1>2, <1>4 DEF Listing, Listed
<1>6. Terminated(list) /\ list.cap \in Nat /\ list.len \in Nat
  BY DEF IInv, TypeOK, DoubleNul
<1>7. Walk(names') = Upto(snap)[a]
  BY <1>4, <1>5, <1>6, WalkOfPacked
<1>8. IsPrefix(Upto(snap)[a], WgNames(snap))
  BY UptoPrefix
<1>9. QED
  BY <1>5, <1>7, <1>8

LEMMA ListingSend == IInv /\ Listing /\ Send => Listing'
<1> SUFFICES ASSUME IInv, Listing, Send PROVE Listing'
  OBVIOUS
<1>1. pc = "send" /\ list = NewList /\ list' = list /\ op' = op
  BY DEF Send, Listing
<1>2. CASE ret' = -ERR /\ pc' = "cleanup"
  BY <1>2 DEF Listing, ListsSnapshot, ERR
<1>3. CASE at' = 0 /\ seen' = "none" /\ pc' = "another"
  <2>1. Packed(list', Upto(snap')[at'])
    BY <1>1, <1>3, PackedNone, UptoFacts
  <2>2. QED
    BY <1>3, <2>1 DEF Listing, ListsSnapshot, Reading
<1>4. CASE op[1] # "list" /\ pc' = "answer"
  BY <1>1, <1>4 DEF Listing, ListsSnapshot
<1>5. QED
  BY <1>2, <1>3, <1>4 DEF Send, Goto

LEMMA ListingStep == IInv /\ ListsOnly /\ Listing /\ [Next]_vars => Listing'
<1> SUFFICES ASSUME IInv, ListsOnly, Listing, [Next]_vars PROVE Listing'
  OBVIOUS
<1>1. CASE Setup
  <2>1. /\ pc = "setup" /\ list' = list /\ pc' \in {"send", "cleanup"}
        /\ pc' = "cleanup" => ret' = -ERR
    BY <1>1 DEF Setup, Goto
  <2>2. QED
    BY <2>1 DEF Listing, ListsSnapshot, ERR
<1>2. CASE Answer
  <2>1. pc = "answer" /\ op' = op /\ pc' = "cleanup"
    BY <1>2 DEF Answer, Goto
  <2>2. QED
    BY <2>1 DEF Listing, ListsSnapshot
<1>3. CASE RecvFail
  <2>1. pc' = "cleanup" /\ ret' \in {-ERR, -EINTR}
    BY <1>3 DEF RecvFail, Goto
  <2>2. QED
    BY <2>1 DEF Listing, ListsSnapshot, ERR, EINTR
<1>4. CASE \E n \in 1 .. N : Change(n)
  <2>1. UNCHANGED <<at, snap, op, pc, ret, list, names, cut>>
    BY <1>4 DEF Change
  <2>2. seen' # "same" /\ (seen' = "none" => seen = "none")
    BY <1>4 DEF Change, LinksChange
  <2>3. Listed => Listed'
    BY <2>1 DEF Listed
  <2>4. pc' = "another" => Reading'
    BY <2>1, <2>2 DEF Listing, Reading
  <2>5. ListsSnapshot'
    BY <2>1 DEF Listing, ListsSnapshot
  <2>6. QED
    BY <2>1, <2>3, <2>4, <2>5 DEF Listing
<1>5. CASE UNCHANGED vars
  <2>1. UNCHANGED <<at, seen, snap, op, pc, ret, list, names, cut, kind>>
    BY <1>5 DEF vars, dump
  <2>2. QED
    BY <2>1 DEF Listing, ListsSnapshot, Listed, Reading
<1>6. QED
  BY <1>1, <1>2, <1>3, <1>4, <1>5, ListingSend, ListingLink, ListingDone, ListingCleanup
  DEF Next, Call

\* wg_for_each_device_name over the result of wg_list_device_names visits the
\* names the kernel had when the dump began, each whole and once: all of them,
\* or the first ones if the links changed during the dump.  This holds for any
\* number of links and lengths of names, wherever the buffer was enlarged.
THEOREM ListsSnapshotAlways == Spec => []ListsSnapshot
<1>1. Init => ListsOnly /\ NothingLeaks
  BY DEF Init, ListsOnly, NothingLeaks
<1>2. QED
  BY <1>1, IInvInit, IInvStep, FreesStep, ListingInit, ListingStep, PTL DEF Spec, Listing
=============================================================================
