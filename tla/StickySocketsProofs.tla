------------------------- MODULE StickySocketsProofs -------------------------
(***************************************************************************)
(* The source of an endpoint is whole and replies leave from the address   *)
(* the other side wrote to, for every set of addresses and interfaces.     *)
(***************************************************************************)
EXTENDS StickySockets, TLAPS

\* Without a family the endpoint is as it was made.
IInv == TypeOK /\ SourceWhole /\ (addr = None => src = any6 /\ heard = None)
        /\ (heard # None => addr # None /\ Family[heard] = Family[addr])

LEMMA In6Type == /\ any6 \in [1 .. 4 -> (Local \cup If \cup {None}) \X (0 .. 4)]
                 /\ \A a \in Local : In6(a) \in [1 .. 4 -> (Local \cup If \cup {None}) \X (0 .. 4)]
  BY DEF any6, In6, Zero

LEMMA ClearedIsEmpty ==
    ASSUME TypeOK, NEW f \in {4, 6}
    PROVE  /\ Cleared(f) \in [1 .. 4 -> (Local \cup If \cup {None}) \X (0 .. 4)]
           /\ f = 4 => Cleared(f)[1] = Zero /\ Cleared(f)[2] = Zero
           /\ f = 6 => Cleared(f) = any6
  BY In6Type DEF TypeOK, Cleared, Zero

LEMMA IInvInit == Init => IInv
  BY In6Type, FamilyAssumption DEF Init, IInv, TypeOK, SourceWhole

\* What the kernel takes the source for, and when it refuses it.
LEMMA SourceIsHeard ==
    ASSUME IInv, addr # None
    PROVE  LET f == Family[addr]
           IN  /\ f \in {4, 6} /\ Source(f, src) = heard
               /\ Lost(f) <=> heard # None /\ has[heard] = None
               /\ NoDevice(f) => heard # None
<1> DEFINE f == Family[addr]
<1>1. f \in {4, 6}
  BY FamilyAssumption DEF IInv, TypeOK
<1>2. CASE heard = None
  <2>1. CASE f = 4
    BY <1>2, <2>1 DEF IInv, SourceWhole, Source, Lost, IsSet, NoDevice, Ifindex, Zero
  <2>2. CASE f = 6
    <3>1. src = any6 /\ src[1][1] = None
      BY <1>2, <2>2 DEF IInv, SourceWhole, any6, Zero
    <3> QED BY <3>1, <1>2, <2>2 DEF Source, Lost, IsSet, NoDevice, Ifindex
  <2> QED BY <1>1, <2>1, <2>2
<1>3. CASE heard # None
  <2>0. heard \in Local
    BY <1>3 DEF IInv, TypeOK
  <2>1. CASE f = 4
    <3>1. src[1] = <<heard, 0>> /\ src[1] # Zero
      BY <1>3, <2>0, <2>1 DEF IInv, SourceWhole, Word, Zero
    <3> QED BY <3>1, <1>3, <2>1 DEF Source, Lost, IsSet, NoDevice, Ifindex
  <2>2. CASE f = 6
    <3>1. src = In6(heard)
      BY <1>3, <2>2 DEF IInv, SourceWhole
    <3>2. src[1] = <<heard, 1>>
      BY <3>1 DEF In6
    <3>3. any6[1] = <<None, 0>>
      BY DEF any6, Zero
    <3>4. src # any6
      BY <3>2, <3>3
    <3> QED BY <3>1, <3>2, <3>4, <1>3, <2>0, <2>2 DEF Source, Lost, IsSet, NoDevice, Ifindex
  <2> QED BY <1>1, <2>1, <2>2
<1> QED BY <1>1, <1>2, <1>3

\* Every packet and every call leaves a whole source.
LEMMA IInvStep == IInv /\ [Next]_vars => IInv'
<1> SUFFICES ASSUME IInv, [Next]_vars PROVE IInv'
  OBVIOUS
<1> USE DEF host
<1>0. Family \in [Local \cup Remote -> {4, 6}] /\ None \notin Local \cup Remote \cup If
  BY FamilyAssumption
<1>1. CASE \E a \in Local, i \in If \cup {None} : Readdress(a, i)
  <2>1. UNCHANGED <<ifs, sock, addr, src, scope, heard, sent>> /\ has' \in [Local -> If \cup {None}]
    BY <1>1 DEF Readdress, endpoint, IInv, TypeOK
  <2> QED BY <2>1 DEF IInv, TypeOK, SourceWhole
<1>2. CASE \E f \in {4, 6} : Create(f)
  <2>1. UNCHANGED <<ifs, has, addr, src, scope, heard, sent>>
    BY <1>2 DEF Create, endpoint
  <2>2. sock' \in [{4, 6} -> BOOLEAN]
    BY <1>2 DEF Create, IInv, TypeOK
  <2> QED BY <2>1, <2>2 DEF IInv, TypeOK, SourceWhole
<1>3. ASSUME NEW r \in Remote, NEW a \in Local, Receive(r, a) PROVE IInv'
  <2>1. /\ UNCHANGED <<ifs, has, sock, sent>> /\ addr' = r /\ heard' = a /\ has[a] \in If
        /\ Family[a] = Family[r] /\ Family[r] \in {4, 6} /\ r # None /\ a # None
    BY <1>0, <1>3 DEF Receive, IInv, TypeOK
  <2>2. CASE Family[a] = 4
    <3>1. scope' = scope /\ src' = [src EXCEPT ![1] = Word(a), ![2] = Word(has[a])]
      BY <1>3, <2>2 DEF Receive, Pktinfo4
    <3>2. src'[1] = Word(a) /\ src'[2] = Word(has[a])
      BY <3>1 DEF IInv, TypeOK
    <3>3. src' \in [1 .. 4 -> (Local \cup If \cup {None}) \X (0 .. 4)]
      BY <2>1, <3>1 DEF IInv, TypeOK, Word
    <3>4. TypeOK'
      BY <2>1, <3>1, <3>3 DEF IInv, TypeOK
    <3> QED BY <2>1, <2>2, <3>2, <3>4 DEF IInv, SourceWhole
  <2>3. CASE Family[a] = 6
    <3>1. scope' = has[a] /\ src' = In6(a)
      BY <1>3, <2>3 DEF Receive
    <3>2. TypeOK'
      BY <2>1, <3>1, In6Type DEF IInv, TypeOK
    <3> QED BY <2>1, <2>3, <3>1, <3>2 DEF IInv, SourceWhole
  <2> QED BY <2>1, <2>2, <2>3
<1>4. CASE Send
  <2>1. /\ addr # None /\ UNCHANGED <<ifs, has, sock, addr, scope>>
        /\ Family[addr] \in {4, 6} /\ Source(Family[addr], src) = heard
    BY <1>4, SourceIsHeard DEF Send
  <2>2. sent' \in [n : 0 .. 1, ret : {"ok", "error", "EINVAL", "ENODEV"},
                   from : Local \cup {None}, to : Remote \cup {None}]
    BY <1>4, <2>1 DEF Send, Again, Result, Answers, AnswersAny, IInv, TypeOK
  <2>3. CASE UNCHANGED <<src, heard>>
    BY <2>1, <2>2, <2>3 DEF IInv, TypeOK, SourceWhole
  <2>4. CASE src' = Cleared(Family[addr]) /\ heard' = None
    BY <2>1, <2>2, <2>4, ClearedIsEmpty DEF IInv, TypeOK, SourceWhole
  <2> QED BY <1>4, <2>3, <2>4 DEF Send, Again
<1>5. CASE ClearSrc
  <2>1. /\ addr # None /\ UNCHANGED <<ifs, has, sock, addr, scope, sent>>
        /\ src' = Cleared(Family[addr]) /\ heard' = None /\ Family[addr] \in {4, 6}
    BY <1>0, <1>5 DEF ClearSrc, IInv, TypeOK
  <2> QED BY <2>1, ClearedIsEmpty DEF IInv, TypeOK, SourceWhole
<1>6. ASSUME NEW r \in Remote, SetEndpoint(r) PROVE IInv'
  <2>1. /\ addr' = r /\ r # None /\ UNCHANGED <<ifs, has, sock, sent>> /\ scope' \in {None, scope}
        /\ src' = Cleared(Family[r]) /\ heard' = None /\ Family[r] \in {4, 6}
    BY <1>0, <1>6 DEF SetEndpoint
  <2> QED BY <2>1, ClearedIsEmpty DEF IInv, TypeOK, SourceWhole
<1>7. CASE \E i \in If : Replug(i)
  <2>1. /\ UNCHANGED <<sock, addr, src, scope, heard, sent>> /\ ifs' \subseteq If
        /\ has' \in [Local -> If \cup {None}]
    BY <1>7 DEF Replug, endpoint, IInv, TypeOK
  <2> QED BY <2>1 DEF IInv, TypeOK, SourceWhole
<1>8. CASE UNCHANGED vars
  BY <1>8 DEF vars, endpoint, IInv, TypeOK, SourceWhole
<1> QED BY <1>1, <1>2, <1>3, <1>4, <1>5, <1>6, <1>7, <1>8 DEF Next

\* The endpoint and the history of a caller of the library keep their types.
THEOREM TypeCorrect == Spec => []TypeOK
  BY IInvInit, IInvStep, PTL DEF Spec, IInv

\* magic_receive4, magic_receive6, magic_endpoint_set and
\* magic_endpoint_clearsrc never leave words of two families in a source.
THEOREM SourceWholeAlways == Spec => []SourceWhole
  BY IInvInit, IInvStep, PTL DEF Spec, IInv

\* magic_send4 and magic_send6 reply from the address the other side wrote to,
\* or from any if the host has lost it; they return EINVAL only for a destination
\* that is refused, and ENODEV only if the interface is gone.
THEOREM RepliesFromHeardAlways == Spec => RepliesFromHeard
<1> DEFINE Fine == /\ sent'.to = addr
                   /\ sent'.ret = "ok" =>
                         sent'.from = IF heard # None /\ has[heard] # None THEN heard ELSE None
                   /\ sent'.ret = "EINVAL" => addr \in Refused
                   /\ sent'.ret = "ENODEV" => heard # None /\ NoDevice(Family[addr])
<1>1. IInv /\ [Next]_vars => [sent'.n # sent.n => Fine]_vars
  <2> SUFFICES ASSUME IInv, Next, sent'.n # sent.n PROVE Fine
    OBVIOUS
  <2>1. Send
    BY DEF Next, Readdress, Replug, Create, Receive, ClearSrc, SetEndpoint
  <2>2. addr # None
    BY <2>1 DEF Send
  <2> DEFINE f == Family[addr]
  <2>3. /\ Source(f, src) = heard
        /\ Lost(f) <=> heard # None /\ has[heard] = None
        /\ NoDevice(f) => heard # None
    BY <2>2, SourceIsHeard
  <2>4. PICK ret \in Answers(f) :
           IF ret = "EINVAL" THEN Again(f) ELSE sent' = Result(ret, Source(f, src))
    BY <2>1 DEF Send
  <2>5. CASE ret = "EINVAL"
    <3>1. addr \in Refused \/ Lost(f)
      BY <2>4, <2>5 DEF Answers
    <3>2. PICK second \in AnswersAny : sent' = Result(second, None)
      BY <2>4, <2>5 DEF Again
    <3>3. CASE addr \in Refused
      BY <3>2, <3>3 DEF AnswersAny, Result
    <3>4. CASE addr \notin Refused
      BY <2>3, <3>1, <3>2, <3>4 DEF AnswersAny, Result
    <3> QED BY <3>3, <3>4
  <2>6. CASE ret # "EINVAL"
    <3>1. sent' = Result(ret, heard)
      BY <2>3, <2>4, <2>6
    <3>2. /\ ret = "ENODEV" => NoDevice(f)
          /\ ret = "ok" => ~Lost(f)
      BY <2>4, <2>6 DEF Answers
    <3> QED BY <2>3, <2>6, <3>1, <3>2 DEF Result
  <2> QED BY <2>5, <2>6
<1> QED BY IInvInit, IInvStep, <1>1, PTL DEF Spec, RepliesFromHeard
=============================================================================
