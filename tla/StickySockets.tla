---------------------------- MODULE StickySockets ----------------------------
(***************************************************************************)
(* sticky-sockets.c: replies leave from the address a packet came to, as   *)
(* long as the host has it.  The sources of both families lie in one union *)
(* of four words: src4 and src_if4 are the first two words of src6.        *)
(***************************************************************************)
EXTENDS Integers, FiniteSets

CONSTANTS Local,     \* addresses the host may have, of both families
          If,        \* interfaces
          Remote,    \* addresses of the other side
          Family,    \* Family[a] of a local or a remote address: 4 or 6
          Refused,   \* remote addresses sendmsg answers with EINVAL: port 0
          None

ASSUME FamilyAssumption == /\ Family \in [Local \cup Remote -> {4, 6}]
                           /\ Refused \subseteq Remote
                           /\ None \notin Local \cup Remote \cup If

VARIABLES ifs,              \* the host: its interfaces
          has,              \* the host: the interface of each address, or None
          sock,             \* sock[f]: the socket of family f is open
          addr, src, scope, \* the endpoint: addr, the union, sin6_scope_id
          heard,            \* history: where the last packet came to, until the
                            \* source is cleared
          sent              \* the last call of send: a flag that changes with
                            \* every call, its result, source and destination

endpoint == <<addr, src, scope>>
host == <<ifs, has>>
vars == <<host, sock, endpoint, heard, sent>>

Zero == <<None, 0>>
Word(v) == <<v, 0>>

\* The words of an IPv6 address.
In6(a) == [k \in 1 .. 4 |-> <<a, k>>]
any6 == [k \in 1 .. 4 |-> Zero]

-----------------------------------------------------------------------------
(* The host (external).                                                    *)

\* An address appears on an interface, moves or goes away.
Readdress(a, i) == /\ i \in ifs \cup {None}
                   /\ has' = [has EXCEPT ![a] = i]
                   /\ UNCHANGED <<ifs, sock, endpoint, heard, sent>>

\* An interface appears, or goes away with its addresses.
Replug(i) == /\ \/ i \notin ifs /\ ifs' = ifs \cup {i} /\ UNCHANGED has
                \/ /\ i \in ifs /\ ifs' = ifs \ {i}
                   /\ has' = [a \in Local |-> IF has[a] = i THEN None ELSE has[a]]
             /\ UNCHANGED <<sock, endpoint, heard, sent>>

\* The address a source stands for; None if it is empty or no address.
Source(f, s) == IF f = 4 THEN s[1][1]
                ELSE IF s \in {In6(a) : a \in Local} THEN s[1][1] ELSE None
IsSet(f, s) == IF f = 4 THEN s[1] # Zero ELSE s # any6

\* The interface the control message names; IPv6 names none without a source.
Ifindex(f) == IF f = 4 THEN src[2][1] ELSE IF IsSet(6, src) THEN scope ELSE None

Lost(f) == IsSet(f, src) /\ (Source(f, src) = None \/ has[Source(f, src)] = None)
NoDevice(f) == Ifindex(f) \notin ifs \cup {None}

\* What sendmsg returns with the source of the endpoint.  The destination is
\* looked at first; IPv4 then looks at the address, IPv6 at the interface.
Answers(f) == IF \/ addr \in Refused
                 \/ Lost(f) /\ (f = 4 \/ ~NoDevice(f)) THEN {"EINVAL"}
              ELSE IF NoDevice(f) THEN {"ENODEV"} ELSE {"ok", "error"}

\* What it returns without a source.
AnswersAny == IF addr \in Refused THEN {"EINVAL"} ELSE {"ok", "error"}

-----------------------------------------------------------------------------
\* magic_create_sock4 and magic_create_sock6; a failing step closes the socket.
Create(f) == /\ ~sock[f]
             /\ sock' = [sock EXCEPT ![f] = TRUE]
             /\ UNCHANGED <<host, endpoint, heard, sent>>

\* magic_receive4: ipi_spec_dst and ipi_ifindex.
Pktinfo4(a) == [src EXCEPT ![1] = Word(a), ![2] = Word(has[a])]

\* magic_receive4 and magic_receive6 of a packet from r to a.  Create has turned
\* the option on with which every packet carries the control message that they
\* test for.
Receive(r, a) ==
    /\ sock[Family[a]] /\ has[a] # None /\ Family[a] = Family[r]
    /\ addr' = r
    /\ IF Family[a] = 4 THEN src' = Pktinfo4(a) /\ UNCHANGED scope
       ELSE src' = In6(a) /\ scope' = has[a]
    /\ heard' = a
    /\ UNCHANGED <<host, sock, sent>>

\* Mutant: half of the source is cleared in both families.
ClearTwoWords(f) == [src EXCEPT ![1] = Zero, ![2] = Zero]

\* The source as magic_endpoint_clearsrc leaves it.
Cleared(f) == IF f = 4 THEN [src EXCEPT ![1] = Zero, ![2] = Zero] ELSE any6

\* What a call of send returns, and where from a packet went.
Result(ret, from) == [n |-> 1 - sent.n, ret |-> ret, from |-> from, to |-> addr]

\* Mutant: the source is cleared for the next call only.
AgainLater(f) == src' = Cleared(f) /\ heard' = None /\ sent' = Result("EINVAL", None)

\* After EINVAL, whatever it was for: the source is cleared and the packet sent
\* again without one.  The second answer is the caller's.
Again(f) == /\ src' = Cleared(f) /\ heard' = None
            /\ \E ret \in AnswersAny : sent' = Result(ret, None)

\* magic_send4 and magic_send6.
Send == /\ addr # None /\ sock[Family[addr]]
        /\ LET f == Family[addr] IN
           \E ret \in Answers(f) :
              IF ret = "EINVAL" THEN Again(f)
              ELSE sent' = Result(ret, Source(f, src)) /\ UNCHANGED <<src, heard>>
        /\ UNCHANGED <<host, sock, addr, scope>>

\* magic_endpoint_clearsrc; an endpoint without a family is empty already.
ClearSrc == /\ addr # None
            /\ src' = Cleared(Family[addr]) /\ heard' = None
            /\ UNCHANGED <<host, sock, addr, scope, sent>>

\* magic_endpoint_set; a sockaddr_in does not reach to sin6_scope_id.
SetEndpoint(r) == /\ addr' = r
                  /\ scope' = IF Family[r] = 6 THEN None ELSE scope
                  /\ src' = Cleared(Family[r]) /\ heard' = None
                  /\ UNCHANGED <<host, sock, sent>>

-----------------------------------------------------------------------------
Init == /\ ifs = If /\ has \in [Local -> If \cup {None}]
        /\ sock = [f \in {4, 6} |-> FALSE]
        /\ addr = None /\ src = any6 /\ scope = None
        /\ heard = None /\ sent = [n |-> 0, ret |-> "ok", from |-> None, to |-> None]

Next == \/ \E a \in Local, i \in If \cup {None} : Readdress(a, i)
        \/ \E i \in If : Replug(i)
        \/ \E f \in {4, 6} : Create(f)
        \/ \E r \in Remote, a \in Local : Receive(r, a)
        \/ Send \/ ClearSrc
        \/ \E r \in Remote : SetEndpoint(r)

Spec == Init /\ [][Next]_vars

-----------------------------------------------------------------------------
\* The variables keep their types.
TypeOK == /\ ifs \subseteq If /\ has \in [Local -> If \cup {None}] /\ sock \in [{4, 6} -> BOOLEAN]
          /\ addr \in Remote \cup {None} /\ scope \in If \cup {None}
          /\ src \in [1 .. 4 -> (Local \cup If \cup {None}) \X (0 .. 4)]
          /\ heard \in Local \cup {None}
          /\ sent \in [n : 0 .. 1, ret : {"ok", "error", "EINVAL", "ENODEV"},
                      from : Local \cup {None}, to : Remote \cup {None}]

\* Whatever the order of packets and calls for both families, the source the
\* endpoint would use is the whole address the last packet came to, with an
\* interface, or empty: no words of the other family are left in it.
SourceWhole == addr # None =>
    IF Family[addr] = 4
    THEN \/ src[1] = Zero /\ src[2] = Zero /\ heard = None
         \/ heard # None /\ src[1] = Word(heard) /\ src[2] \in {Word(i) : i \in If}
    ELSE \/ src = any6 /\ heard = None
         \/ heard # None /\ src = In6(heard) /\ scope \in If

\* A packet that leaves goes to the other side, from the address it last wrote
\* to if the host still has that, else from any.  A source the host has lost
\* never keeps a packet back: the caller sees EINVAL only for a destination that
\* is refused with any source.  What does keep it back is an interface that is
\* gone: ENODEV, which is not tried again.
RepliesFromHeard == [][sent'.n # sent.n =>
    /\ sent'.to = addr
    /\ sent'.ret = "ok" =>
          sent'.from = IF heard # None /\ has[heard] # None THEN heard ELSE None
    /\ sent'.ret = "EINVAL" => addr \in Refused
    /\ sent'.ret = "ENODEV" => heard # None /\ NoDevice(Family[addr])]_vars
=============================================================================
