---------------------------- MODULE NatPunchProofs ----------------------------
(***************************************************************************)
(* The server's table holds a key once and the oldest key gives way, and   *)
(* without duplicated packets a client takes every reply for the right     *)
(* peer, for any number of clients, peers, entries, losses, restarts and   *)
(* new NAT mappings.                                                       *)
(***************************************************************************)
EXTENDS NatPunch, TLAPS

\* The bound on the NATs' mappings is shared by all clients, and a client
\* waits for the answer about a peer it has.
Bounded == /\ \A c \in Client : nat[c] <= used["rebind"]
           /\ used["rebind"] <= MaxRebind
Waits == \A c \in Client : pc[c] = "recv" => i[c] \in 1 .. Len(Peers[c])

IInv == TypeOK /\ Bounded /\ Waits

LEMMA BoundsDomain == DOMAIN Bounds = {"loss", "dup", "restart", "rebind", "fail"}
  BY DEF Bounds

LEMMA EmptyIsEntry == Empty \in Entry
  BY DEF Empty, Entry

\* Use counts one more of what, and nothing else.
LEMMA UseCounts ==
    ASSUME NEW what \in DOMAIN Bounds, used \in [DOMAIN Bounds -> Nat], Use(what)
    PROVE  /\ used' \in [DOMAIN Bounds -> Nat]
           /\ used[what] < Bounds[what] /\ used'[what] = used[what] + 1
           /\ \A x \in DOMAIN Bounds \ {what} : used'[x] = used[x]
<1>1. used' = [used EXCEPT ![what] = @ + 1] /\ used[what] < Bounds[what]
  BY DEF Use
<1> HIDE DEF Bounds
<1> QED BY <1>1

\* find_or_insert_entry names slots of the table.
LEMMA InsertInTable ==
    ASSUME TypeOK, NEW k PROVE find_or_insert_entry(k) \subseteq Slot /\ Counter(k) \in 0 .. Wrap - 1
<1>1. next_entry \in Nat /\ MaxEntries \in Nat \ {0} /\ Wrap \in Nat \ {0}
  BY EntriesAssumption DEF TypeOK
<1>2. next_entry % MaxEntries \in 0 .. MaxEntries - 1
  BY <1>1
<1>3. (next_entry + 1) % Wrap \in 0 .. Wrap - 1
  BY <1>1
<1> QED BY <1>2, <1>3 DEF find_or_insert_entry, find_entry, Counter, Slot, TypeOK

LEMMA IInvInit == Init => IInv
<1> SUFFICES ASSUME Init PROVE IInv
  OBVIOUS
<1>1. entries \in [Slot -> Entry] /\ next_entry \in 0 .. Wrap - 1 /\ order \in Seq(Client)
  BY EmptyIsEntry, EntriesAssumption DEF Init
<1>2. /\ pc \in [Client -> {"absent", "off", "ask", "recv", "done", "failed"}]
      /\ i \in [Client -> Nat \ {0}] /\ repeat \in [Client -> BOOLEAN]
      /\ nat \in [Client -> 0 .. MaxRebind]
      /\ requests \in [Packet -> Nat] /\ replies \in [Reply -> Nat]
  BY BoundAssumption DEF Init
<1>3. have_seen = [c \in Client |-> have_seen[c] \cap (1 .. Len(Peers[c]))]
  BY DEF Init
<1>4. /\ endpoint = [c \in Client |-> endpoint[c]]
      /\ \A c \in Client : endpoint[c] \in [1 .. Len(Peers[c]) -> Addr \cup {NoAddr}]
  BY DEF Init
<1>5. used \in [DOMAIN Bounds -> Nat] /\ used["rebind"] = 0
  BY BoundsDomain DEF Init
<1>6. Bounded
  BY <1>5, BoundAssumption DEF Init, Bounded
<1>7. Waits
  BY DEF Init, Waits
<1> QED BY <1>1, <1>2, <1>3, <1>4, <1>5, <1>6, <1>7 DEF IInv, TypeOK

\* The parts of TypeOK about the server, the clients and the network.
ServerType == /\ entries \in [Slot -> Entry] /\ next_entry \in 0 .. Wrap - 1
              /\ order \in Seq(Client)
ClientType == /\ pc \in [Client -> {"absent", "off", "ask", "recv", "done", "failed"}]
              /\ i \in [Client -> Nat \ {0}] /\ repeat \in [Client -> BOOLEAN]
              /\ have_seen = [c \in Client |-> have_seen[c] \cap (1 .. Len(Peers[c]))]
              /\ endpoint = [c \in Client |-> endpoint[c]]
              /\ \A c \in Client : endpoint[c] \in [1 .. Len(Peers[c]) -> Addr \cup {NoAddr}]
NetType == requests \in [Packet -> Nat] /\ replies \in [Reply -> Nat]
UsedType == nat \in [Client -> 0 .. MaxRebind] /\ used \in [DOMAIN Bounds -> Nat]

LEMMA Parts == TypeOK <=> ServerType /\ ClientType /\ NetType /\ UsedType
  BY DEF TypeOK, ServerType, ClientType, NetType, UsedType

LEMMA PartsNext == TypeOK' <=> ServerType' /\ ClientType' /\ NetType' /\ UsedType'
  BY DEF TypeOK, ServerType, ClientType, NetType, UsedType

\* The current mapping of a client is an address.
LEMMA AddrOfClient == ASSUME UsedType, NEW c \in Client PROVE addr(c) \in Addr
  BY DEF UsedType, addr, Addr

\* The server's loop: the key's entry, the counter and the reply.
LEMMA ServeKeeps ==
    ASSUME IInv, NEW m \in Packet, Serve(m) PROVE IInv'
<1> USE DEF IInv
<1>1. UNCHANGED <<client, nat, used>> /\ ClientType' /\ UsedType' /\ Bounded' /\ Waits'
  <2>1. UNCHANGED <<pc, i, repeat, have_seen, endpoint, nat, used>>
    BY DEF Serve, client
  <2> QED BY <2>1, Parts DEF client, ClientType, UsedType, Bounded, Waits
<1>2. m.my \in Client /\ m.their \in Client /\ m.addr \in Addr
  BY DEF Packet
<1>3. PICK s \in find_or_insert_entry(m.my) :
        entries' = [entries EXCEPT ![s] = [key |-> m.my, addr |-> m.addr]]
  BY DEF Serve
<1>4. s \in Slot /\ next_entry' \in 0 .. Wrap - 1
  BY InsertInTable DEF Serve
<1>5. entries' \in [Slot -> Entry]
  BY <1>2, <1>3, <1>4, Parts DEF ServerType, Entry
<1>6. order' \in Seq(Client)
  <2>1. Append(order, m.my) \in Seq(Client) /\ Append(order, m.my) # << >>
    BY <1>2, Parts DEF ServerType
  <2>2. Tail(Append(order, m.my)) \in Seq(Client)
    BY <2>1
  <2> QED BY <2>1, <2>2, Parts DEF Serve, ServerType
<1>7. requests' \in [Packet -> Nat]
  BY Parts DEF Serve, Remove, NetType
<1>8. replies' \in [Reply -> Nat]
  <2>1. PICK b \in Addr \cup {NoAddr} : replies' = Add(replies, [to |-> m.addr, body |-> b])
    BY <1>5 DEF Serve, find_entry, Entry
  <2>2. [to |-> m.addr, body |-> b] \in Reply
    BY <1>2 DEF Reply
  <2> QED BY <2>1, <2>2, Parts DEF Add, NetType
<1> QED BY <1>1, <1>4, <1>5, <1>6, <1>7, <1>8, PartsNext DEF ServerType, NetType

\* A client's request: to a peer it has, from its address.
LEMMA AskKeeps ==
    ASSUME IInv, NEW c \in Client, Ask(c) PROVE IInv'
<1> USE DEF IInv
<1>1. UNCHANGED <<have_seen, endpoint, entries, next_entry, order, nat, replies, used>>
  BY DEF Ask, server
<1>2. /\ pc' \in [Client -> {"absent", "off", "ask", "recv", "done", "failed"}]
      /\ i' \in [Client -> Nat \ {0}] /\ repeat' \in [Client -> BOOLEAN]
      /\ requests' \in [Packet -> Nat] /\ Waits'
  <2>1. CASE \E p \in Unseen(c, i[c]) :
               /\ i' = [i EXCEPT ![c] = p]
               /\ requests' = Add(requests, [my |-> c, their |-> Peers[c][p], addr |-> addr(c)])
               /\ pc' = [pc EXCEPT ![c] = "recv"]
               /\ UNCHANGED repeat
    <3> PICK p \in Unseen(c, i[c]) :
               /\ i' = [i EXCEPT ![c] = p]
               /\ requests' = Add(requests, [my |-> c, their |-> Peers[c][p], addr |-> addr(c)])
               /\ pc' = [pc EXCEPT ![c] = "recv"]
               /\ UNCHANGED repeat
      BY <2>1
    <3>1. i[c] \in Nat \ {0} /\ Peers[c] \in Seq(Client)
      BY Parts, ClientAssumption DEF ClientType
    <3>2. p \in 1 .. Len(Peers[c])
      BY <3>1 DEF Unseen
    <3>3. Peers[c][p] \in Client /\ p \in Nat \ {0}
      BY <3>1, <3>2
    <3>4. [my |-> c, their |-> Peers[c][p], addr |-> addr(c)] \in Packet
      BY <3>3, AddrOfClient, Parts DEF Packet
    <3>5. requests' \in [Packet -> Nat]
      BY <3>4, Parts DEF Add, NetType
    <3>6. Waits'
      BY <3>2, Parts DEF Waits, ClientType
    <3> QED BY <3>3, <3>5, <3>6, Parts DEF ClientType
  <2>2. CASE /\ i' = [i EXCEPT ![c] = 1]
             /\ repeat' = [repeat EXCEPT ![c] = FALSE]
             /\ pc' = [pc EXCEPT ![c] = IF repeat[c] THEN "ask" ELSE "done"]
             /\ UNCHANGED requests
    BY <2>2, Parts DEF ClientType, NetType, Waits
  <2> QED BY <2>1, <2>2 DEF Ask
<1>3. ServerType' /\ UsedType' /\ Bounded'
  BY <1>1, Parts DEF ServerType, UsedType, Bounded
<1>4. ClientType' /\ NetType'
  BY <1>1, <1>2, Parts DEF ClientType, NetType
<1> QED BY <1>2, <1>3, <1>4, PartsNext

\* The reply is taken for the peer of the request sent last.
LEMMA RecvKeeps ==
    ASSUME IInv, NEW c \in Client, NEW r \in Reply, Recv(c, r) PROVE IInv'
<1> USE DEF IInv
<1>1. UNCHANGED <<entries, next_entry, order, nat, requests>>
  BY DEF Recv, server
<1>2. i[c] \in 1 .. Len(Peers[c]) /\ r.body \in Addr \cup {NoAddr}
  BY DEF Recv, Waits, Reply
<1>3. have_seen' = [d \in Client |-> have_seen'[d] \cap (1 .. Len(Peers[d]))]
  <2>1. \A d \in Client : have_seen[d] \subseteq 1 .. Len(Peers[d])
    BY Parts DEF ClientType
  <2>2. have_seen' \in {have_seen, [have_seen EXCEPT ![c] = @ \cup {i[c]}]}
    BY DEF Recv, Learn, NotYet
  <2>3. DOMAIN have_seen = Client /\ have_seen = [d \in Client |-> have_seen[d]]
    BY Parts DEF ClientType
  <2>4. have_seen' = [d \in Client |-> have_seen'[d]]
    BY <2>2, <2>3
  <2>5. \A d \in Client : have_seen'[d] \subseteq 1 .. Len(Peers[d])
    BY <1>2, <2>1, <2>2, <2>3
  <2>6. \A d \in Client : have_seen'[d] = have_seen'[d] \cap (1 .. Len(Peers[d]))
    BY <2>5
  <2> QED BY <2>4, <2>6
<1>4. /\ endpoint' = [d \in Client |-> endpoint'[d]]
      /\ \A d \in Client : endpoint'[d] \in [1 .. Len(Peers[d]) -> Addr \cup {NoAddr}]
  <2>1. endpoint' \in {endpoint, [endpoint EXCEPT ![c][i[c]] = r.body]}
    BY DEF Recv, Learn, NotYet
  <2>2. DOMAIN endpoint = Client /\ endpoint = [d \in Client |-> endpoint[d]]
    BY Parts DEF ClientType
  <2>3. endpoint' = [d \in Client |-> endpoint'[d]]
    BY <2>1, <2>2
  <2>4. \A d \in Client : endpoint[d] \in [1 .. Len(Peers[d]) -> Addr \cup {NoAddr}]
    BY Parts DEF ClientType
  <2>5. [endpoint[c] EXCEPT ![i[c]] = r.body] \in [1 .. Len(Peers[c]) -> Addr \cup {NoAddr}]
    BY <1>2, <2>4
  <2>6. \A d \in Client : endpoint'[d] \in {endpoint[d], [endpoint[c] EXCEPT ![i[c]] = r.body]}
                          /\ (d # c => endpoint'[d] = endpoint[d])
    BY <2>1, <2>2
  <2>7. \A d \in Client : endpoint'[d] \in [1 .. Len(Peers[d]) -> Addr \cup {NoAddr}]
    <3> SUFFICES ASSUME NEW d \in Client
                 PROVE  endpoint'[d] \in [1 .. Len(Peers[d]) -> Addr \cup {NoAddr}]
      OBVIOUS
    <3>1. CASE d = c
      BY <3>1, <2>4, <2>5, <2>6
    <3>2. CASE d # c
      BY <3>2, <2>4, <2>6
    <3> QED BY <3>1, <3>2
  <2> QED BY <2>3, <2>7
<1>5. /\ pc' \in [Client -> {"absent", "off", "ask", "recv", "done", "failed"}]
      /\ i' \in [Client -> Nat \ {0}] /\ repeat' \in [Client -> BOOLEAN] /\ Waits'
  <2>1. /\ pc' = [pc EXCEPT ![c] = "ask"] /\ i' = [i EXCEPT ![c] = @ + 1]
        /\ repeat' \in {repeat, [repeat EXCEPT ![c] = TRUE]}
    BY DEF Recv, Learn, NotYet
  <2>2. /\ pc \in [Client -> {"absent", "off", "ask", "recv", "done", "failed"}]
        /\ i \in [Client -> Nat \ {0}] /\ repeat \in [Client -> BOOLEAN]
    BY Parts DEF ClientType
  <2>3. /\ pc' \in [Client -> {"absent", "off", "ask", "recv", "done", "failed"}]
        /\ i' \in [Client -> Nat \ {0}] /\ Waits'
    BY <2>1, <2>2 DEF Waits
  <2>4. repeat' \in [Client -> BOOLEAN]
    BY <2>1, <2>2
  <2> QED BY <2>3, <2>4
<1>6. replies' \in [Reply -> Nat]
  BY Parts DEF Recv, Remove, NetType
<1>7. ServerType' /\ UsedType' /\ Bounded'
  <2>1. used' = used \/ Use("fail")
    BY DEF Recv, Learn, NotYet
  <2>2. used' \in [DOMAIN Bounds -> Nat] /\ used'["rebind"] = used["rebind"]
    BY <2>1, UseCounts, BoundsDomain, Parts DEF UsedType
  <2> QED BY <1>1, <2>2, Parts DEF ServerType, UsedType, Bounded
<1>8. ClientType' /\ NetType'
  BY <1>1, <1>3, <1>4, <1>5, <1>6, Parts DEF ClientType, NetType
<1> QED BY <1>5, <1>7, <1>8, PartsNext

\* A packet is lost or duplicated.
LEMMA NetworkKeeps == ASSUME IInv, Lose \/ Duplicate PROVE IInv'
<1> USE DEF IInv
<1>1. UNCHANGED <<entries, next_entry, order, pc, i, repeat, have_seen, endpoint, nat>>
  BY DEF Lose, Duplicate, server, client
<1>2. NetType'
  BY Parts DEF Lose, Duplicate, Add, Remove, NetType
<1>3. used' \in [DOMAIN Bounds -> Nat] /\ used'["rebind"] = used["rebind"]
  BY UseCounts, BoundsDomain, Parts DEF Lose, Duplicate, UsedType
<1>4. ServerType' /\ ClientType' /\ UsedType' /\ Bounded' /\ Waits'
  BY <1>1, <1>3, Parts DEF ServerType, ClientType, UsedType, Bounded, Waits
<1> QED BY <1>2, <1>4, PartsNext

\* A NAT makes a new mapping, within the bound.
LEMMA RebindKeeps == ASSUME IInv, NEW c \in Client, Rebind(c) PROVE IInv'
<1> USE DEF IInv
<1>1. UNCHANGED <<entries, next_entry, order, pc, i, repeat, have_seen, endpoint, requests, replies>>
  BY DEF Rebind, server, client, net
<1>2. ServerType' /\ ClientType' /\ NetType' /\ Waits'
  BY <1>1, Parts DEF ServerType, ClientType, NetType, Waits
<1>3. /\ used' \in [DOMAIN Bounds -> Nat] /\ used'["rebind"] = used["rebind"] + 1
      /\ used["rebind"] \in Nat /\ used["rebind"] < MaxRebind
  BY UseCounts, BoundsDomain, Parts DEF Rebind, UsedType, Bounds
<1>4. nat \in [Client -> 0 .. MaxRebind] /\ nat' = [nat EXCEPT ![c] = @ + 1] /\ MaxRebind \in Nat
  BY Parts, BoundAssumption DEF Rebind, UsedType
<1>5. \A d \in Client : nat'[d] \in 0 .. used'["rebind"]
  BY <1>3, <1>4 DEF Bounded
<1>6. UsedType' /\ Bounded'
  BY <1>3, <1>4, <1>5 DEF UsedType, Bounded
<1> QED BY <1>2, <1>6, PartsNext

\* The server starts again, a client starts or ends.
LEMMA OthersKeep ==
    ASSUME IInv, Restart \/ \E c \in Client : Start(c) \/ Fail(c) PROVE IInv'
<1> USE DEF IInv
<1>1. UNCHANGED <<i, repeat, have_seen, endpoint, nat, requests, replies>>
  BY DEF Restart, Start, Fail, client, net
<1>2. /\ pc' \in [Client -> {"absent", "off", "ask", "recv", "done", "failed"}]
      /\ \A c \in Client : pc'[c] = "recv" => pc[c] = "recv"
  BY Parts DEF Restart, Start, Fail, client, ClientType
<1>3. ServerType'
  <2>1. CASE Restart
    BY <2>1, EmptyIsEntry, EntriesAssumption DEF Restart, ServerType
  <2>2. CASE \E c \in Client : Start(c) \/ Fail(c)
    <3>1. UNCHANGED <<entries, next_entry, order>>
      BY <2>2 DEF Start, Fail, server
    <3> QED BY <3>1, Parts DEF ServerType
  <2> QED BY <2>1, <2>2
<1>4. used' \in [DOMAIN Bounds -> Nat] /\ used'["rebind"] = used["rebind"]
  <2>1. used' = used \/ Use("restart") \/ Use("fail")
    BY DEF Restart, Start, Fail
  <2>2. used \in [DOMAIN Bounds -> Nat]
    BY Parts DEF UsedType
  <2> QED BY <2>1, <2>2, UseCounts, BoundsDomain
<1>5. ClientType' /\ NetType' /\ UsedType' /\ Bounded' /\ Waits'
  BY <1>1, <1>2, <1>4, Parts DEF ClientType, NetType, UsedType, Bounded, Waits
<1> QED BY <1>3, <1>5, PartsNext

LEMMA IInvStep == IInv /\ [Next]_vars => IInv'
<1> SUFFICES ASSUME IInv, [Next]_vars PROVE IInv'
  OBVIOUS
<1>1. CASE UNCHANGED vars
  BY <1>1 DEF vars, server, client, net, IInv, TypeOK, Bounded, Waits
<1>2. CASE Next
  BY <1>2, ServeKeeps, AskKeeps, RecvKeeps, NetworkKeeps, RebindKeeps, OthersKeep
     DEF Next, ServerStep, ClientStep
<1> QED BY <1>1, <1>2

\* The server's table and counter, the clients' progress and the network keep
\* their types.
THEOREM TypeCorrect == Spec => []TypeOK
  BY IInvInit, IInvStep, PTL DEF Spec, IInv

-----------------------------------------------------------------------------
(* The table of the server.                                                *)

\* find_or_insert_entry takes a new slot only for a key that has none.
LEMMA ServeKeepsOne ==
    ASSUME TypeOK, OneEntryPerKey, NEW m \in Packet, Serve(m) PROVE OneEntryPerKey'
<1>1. m.my \in Client /\ entries \in [Slot -> Entry]
  BY DEF Packet, TypeOK
<1>2. PICK s \in find_or_insert_entry(m.my) :
        entries' = [entries EXCEPT ![s] = [key |-> m.my, addr |-> m.addr]]
  BY DEF Serve
<1>3. s \in Slot
  BY InsertInTable
<1>4. \A t \in Slot : entries[t].key = m.my => t = s
  <2>1. CASE find_entry(m.my, entries) = {}
    BY <2>1 DEF find_entry
  <2>2. CASE find_entry(m.my, entries) # {}
    <3>1. entries[s].key = m.my
      BY <2>2 DEF find_or_insert_entry, find_entry
    <3> QED BY <3>1, <1>1, <1>3, ClientAssumption DEF OneEntryPerKey
  <2> QED BY <2>1, <2>2
<1>5. \A t \in Slot : entries'[t].key = IF t = s THEN m.my ELSE entries[t].key
  BY <1>1, <1>2, <1>3
<1> QED BY <1>4, <1>5 DEF OneEntryPerKey

\* find_or_insert_entry never puts a key into a second slot.
THEOREM OneEntryPerKeyAlways == Spec => []OneEntryPerKey
<1>1. Init => OneEntryPerKey
  BY DEF Init, OneEntryPerKey, Empty
<1>2. TypeOK /\ OneEntryPerKey /\ [Next]_vars => OneEntryPerKey'
  <2> SUFFICES ASSUME TypeOK, OneEntryPerKey, [Next]_vars PROVE OneEntryPerKey'
    OBVIOUS
  <2>1. CASE ServerStep
    BY <2>1, ServeKeepsOne DEF ServerStep
  <2>2. CASE Restart
    BY <2>2 DEF Restart, OneEntryPerKey, Empty
  <2>3. CASE entries' = entries
    BY <2>3 DEF OneEntryPerKey
  <2>4. ServerStep \/ Restart \/ entries' = entries
    BY DEF Next, vars, server, ClientStep, Start, Ask, Recv, Fail, Rebind, Lose, Duplicate
  <2> QED BY <2>1, <2>2, <2>3, <2>4
<1> QED BY <1>1, <1>2, TypeCorrect, PTL DEF Spec

-----------------------------------------------------------------------------
(* Replies and the peers they are about.                                   *)

\* An entry holds an address its client has sent from.
Owned == \A s \in Slot : entries[s].key # NoKey =>
            entries[s].addr \in Addr /\ entries[s].addr[1] = entries[s].key

\* A client with a request under way waits for its answer, and it has no other
\* packet under way.
Asked == \A m \in Packet : requests[m] > 0 =>
    /\ requests[m] = 1 /\ m.addr[1] = m.my
    /\ pc[m.my] \in {"recv", "failed"} /\ m.their = Peers[m.my][i[m.my]]
    /\ \A n \in Packet : requests[n] > 0 /\ n.my = m.my => n = m
    /\ \A r \in Reply : replies[r] > 0 => r.to[1] # m.my

\* The same for a reply, whose address is that of the peer the client asks for.
Told == \A r \in Reply : replies[r] > 0 =>
    /\ replies[r] = 1 /\ pc[r.to[1]] \in {"recv", "failed"}
    /\ r.body # NoAddr => r.body[1] = Peers[r.to[1]][i[r.to[1]]]
    /\ \A q \in Reply : replies[q] > 0 /\ q.to[1] = r.to[1] => q = r

PInv == IInv /\ Owned /\ Asked /\ Told /\ PeersAddress

LEMMA PInvInit == Init => PInv
<1> SUFFICES ASSUME Init PROVE PInv
  OBVIOUS
<1>1. Owned
  BY DEF Init, Owned, Empty
<1>2. Asked /\ Told
  BY DEF Init, Asked, Told
<1>3. PeersAddress
  BY DEF Init, PeersAddress
<1> QED BY <1>1, <1>2, <1>3, IInvInit DEF PInv

\* The server turns the one request of a client into the one reply to it.
LEMMA ServeKeepsP == ASSUME PInv, NEW m \in Packet, Serve(m)
                     PROVE  Owned' /\ Asked' /\ Told' /\ PeersAddress'
<1> USE DEF PInv
<1>1. UNCHANGED <<pc, i, endpoint>> /\ PeersAddress'
  BY DEF Serve, client, PeersAddress
<1>2. /\ m.my \in Client /\ m.their \in Client /\ m.addr \in Addr /\ m.addr[1] = m.my
      /\ requests[m] = 1 /\ requests' = Remove(requests, m)
      /\ requests \in [Packet -> Nat] /\ replies \in [Reply -> Nat]
  BY DEF Packet, Asked, Serve, IInv, TypeOK
<1>3. \A n \in Packet : requests'[n] > 0 => requests[n] = 1 /\ requests'[n] = 1 /\ n.my # m.my
  BY <1>2 DEF Remove, Asked
<1>4. Owned'
  <2>1. PICK s \in find_or_insert_entry(m.my) :
          entries' = [entries EXCEPT ![s] = [key |-> m.my, addr |-> m.addr]]
    BY DEF Serve
  <2>2. s \in Slot /\ entries \in [Slot -> Entry]
    BY InsertInTable DEF IInv, TypeOK
  <2>3. entries'[s].key = m.my /\ entries'[s].addr = m.addr
    BY <2>1, <2>2
  <2>4. \A t \in Slot : t # s => entries'[t] = entries[t]
    BY <2>1, <2>2
  <2> QED BY <1>2, <2>3, <2>4 DEF Owned
<1>5. PICK b : /\ replies' = Add(replies, [to |-> m.addr, body |-> b])
               /\ b \in Addr \cup {NoAddr} /\ (b # NoAddr => b[1] = m.their)
  <2>1. CASE replies' = Add(replies, [to |-> m.addr, body |-> NoAddr])
    BY <2>1
  <2>2. CASE \E s \in find_entry(m.their, entries') :
               replies' = Add(replies, [to |-> m.addr, body |-> entries'[s].addr])
    <3> PICK s \in find_entry(m.their, entries') :
               replies' = Add(replies, [to |-> m.addr, body |-> entries'[s].addr])
      BY <2>2
    <3>1. s \in Slot /\ entries'[s].key = m.their /\ m.their # NoKey
      BY <1>2, ClientAssumption DEF find_entry
    <3>2. entries'[s].addr \in Addr /\ entries'[s].addr[1] = m.their
      BY <3>1, <1>4 DEF Owned
    <3> QED BY <3>2
  <2> QED BY <2>1, <2>2 DEF Serve
<1> DEFINE new == [to |-> m.addr, body |-> b]
<1>6. new \in Reply /\ new.to = m.addr /\ new.body = b
  BY <1>2, <1>5 DEF Reply
<1>7. \A r \in Reply : replies[r] > 0 => r.to[1] # m.my
  BY <1>2 DEF Asked
<1>8. replies[new] = 0
  BY <1>2, <1>6, <1>7
<1>9. \A r \in Reply : replies'[r] = IF r = new THEN 1 ELSE replies[r]
  BY <1>2, <1>5, <1>6, <1>8 DEF Add
<1> HIDE DEF new
<1>10. Asked'
  <2> SUFFICES ASSUME NEW n \in Packet, requests'[n] > 0
               PROVE  /\ requests'[n] = 1 /\ n.addr[1] = n.my
                      /\ pc[n.my] \in {"recv", "failed"} /\ n.their = Peers[n.my][i[n.my]]
                      /\ \A k \in Packet : requests'[k] > 0 /\ k.my = n.my => k = n
                      /\ \A r \in Reply : replies'[r] > 0 => r.to[1] # n.my
    BY <1>1 DEF Asked
  <2>1. requests[n] = 1 /\ requests[n] > 0 /\ requests'[n] = 1 /\ n.my # m.my
    BY <1>3
  <2>2. /\ n.addr[1] = n.my /\ pc[n.my] \in {"recv", "failed"} /\ n.their = Peers[n.my][i[n.my]]
        /\ \A k \in Packet : requests[k] > 0 /\ k.my = n.my => k = n
        /\ \A r \in Reply : replies[r] > 0 => r.to[1] # n.my
    BY <2>1 DEF Asked
  <2>3. \A k \in Packet : requests'[k] > 0 => requests[k] > 0
    BY <1>3
  <2>4. \A r \in Reply : replies'[r] > 0 => r.to[1] # n.my
    BY <1>2, <1>6, <1>9, <2>1, <2>2
  <2> QED BY <2>1, <2>2, <2>3, <2>4
<1>11. Told'
  <2> SUFFICES ASSUME NEW r \in Reply, replies'[r] > 0
               PROVE  /\ replies'[r] = 1 /\ pc[r.to[1]] \in {"recv", "failed"}
                      /\ r.body # NoAddr => r.body[1] = Peers[r.to[1]][i[r.to[1]]]
                      /\ \A q \in Reply : replies'[q] > 0 /\ q.to[1] = r.to[1] => q = r
    BY <1>1 DEF Told
  <2>1. CASE r = new
    <3>1. r.to[1] = m.my /\ r.body = b
      BY <2>1, <1>2, <1>6
    <3>2. pc[m.my] \in {"recv", "failed"} /\ m.their = Peers[m.my][i[m.my]]
      BY <1>2 DEF Asked
    <3>3. \A q \in Reply : replies'[q] > 0 /\ q.to[1] = m.my => q = r
      BY <2>1, <1>7, <1>9
    <3> QED BY <2>1, <3>1, <3>2, <3>3, <1>5, <1>9
  <2>2. CASE r # new
    <3>1. replies[r] > 0 /\ replies'[r] = replies[r] /\ r.to[1] # m.my
      BY <2>2, <1>7, <1>9
    <3>2. \A q \in Reply : replies'[q] > 0 /\ q.to[1] = r.to[1] => replies[q] > 0
      BY <3>1, <1>2, <1>6, <1>9
    <3> QED BY <3>1, <3>2 DEF Told
  <2> QED BY <2>1, <2>2
<1> QED BY <1>1, <1>4, <1>10, <1>11

\* Nothing of a client is under way while it neither waits nor has failed.
LEMMA NothingUnderWay ==
    ASSUME PInv, NEW c \in Client, pc[c] \notin {"recv", "failed"}
    PROVE  /\ \A m \in Packet : requests[m] > 0 => m.my # c
           /\ \A r \in Reply : replies[r] > 0 => r.to[1] # c
  BY DEF PInv, Asked, Told

\* A client's step that keeps the packets and changes its own pc and index only
\* when nothing of it is under way.
LEMMA QuietKeepsP ==
    ASSUME PInv, NEW c \in Client,
           \A m \in Packet : requests'[m] > 0 => requests[m] > 0 /\ requests'[m] = requests[m] /\ m.my # c,
           \A r \in Reply : replies'[r] > 0 => replies[r] > 0 /\ replies'[r] = replies[r] /\ r.to[1] # c,
           \A d \in Client : d # c => pc'[d] = pc[d] /\ i'[d] = i[d]
    PROVE  Asked' /\ Told'
<1> USE DEF PInv
<1>1. \A m \in Packet : m.my \in Client
  BY DEF Packet
<1>2. \A r \in Reply : r.to[1] \in Client
  BY DEF Reply, Addr
<1>3. Asked'
  <2> SUFFICES ASSUME NEW n \in Packet, requests'[n] > 0
               PROVE  /\ requests'[n] = 1 /\ n.addr[1] = n.my
                      /\ pc'[n.my] \in {"recv", "failed"} /\ n.their = Peers[n.my][i'[n.my]]
                      /\ \A k \in Packet : requests'[k] > 0 /\ k.my = n.my => k = n
                      /\ \A r \in Reply : replies'[r] > 0 => r.to[1] # n.my
    BY DEF Asked
  <2> QED BY <1>1 DEF Asked
<1>4. Told'
  <2> SUFFICES ASSUME NEW r \in Reply, replies'[r] > 0
               PROVE  /\ replies'[r] = 1 /\ pc'[r.to[1]] \in {"recv", "failed"}
                      /\ r.body # NoAddr => r.body[1] = Peers[r.to[1]][i'[r.to[1]]]
                      /\ \A q \in Reply : replies'[q] > 0 /\ q.to[1] = r.to[1] => q = r
    BY DEF Told
  <2>1. replies[r] > 0 /\ replies'[r] = replies[r] /\ r.to[1] \in Client /\ r.to[1] # c
    BY <1>2
  <2>2. pc'[r.to[1]] = pc[r.to[1]] /\ i'[r.to[1]] = i[r.to[1]]
    BY <2>1
  <2>3. \A q \in Reply : replies'[q] > 0 /\ q.to[1] = r.to[1] => q = r
    BY <2>1 DEF Told
  <2>4. /\ replies[r] = 1 /\ pc[r.to[1]] \in {"recv", "failed"}
        /\ r.body # NoAddr => r.body[1] = Peers[r.to[1]][i[r.to[1]]]
    BY <2>1 DEF Told
  <2>5. r.body # NoAddr => r.body[1] = Peers[r.to[1]][i'[r.to[1]]]
    BY ONLY <2>2, <2>4
  <2> QED BY ONLY <2>1, <2>2, <2>3, <2>4, <2>5
<1> QED BY <1>3, <1>4

\* A client asks only when its last question is answered.
LEMMA AskKeepsP == ASSUME PInv, NEW c \in Client, Ask(c)
                   PROVE  Owned' /\ Asked' /\ Told' /\ PeersAddress'
<1> USE DEF PInv
<1>1. UNCHANGED <<entries, endpoint, replies>> /\ pc[c] = "ask"
  BY DEF Ask, server
<1>2. Owned' /\ PeersAddress'
  BY <1>1 DEF Owned, PeersAddress
<1>3. /\ \A m \in Packet : requests[m] > 0 => m.my # c
      /\ \A r \in Reply : replies[r] > 0 => r.to[1] # c
  BY <1>1, NothingUnderWay
<1>4. /\ pc \in [Client -> {"absent", "off", "ask", "recv", "done", "failed"}]
      /\ i \in [Client -> Nat \ {0}] /\ requests \in [Packet -> Nat] /\ Peers[c] \in Seq(Client)
      /\ UsedType
  BY Parts, ClientAssumption DEF IInv, ClientType, NetType
<1>5. CASE UNCHANGED requests /\ i' = [i EXCEPT ![c] = 1]
           /\ pc' = [pc EXCEPT ![c] = IF repeat[c] THEN "ask" ELSE "done"]
  <2>1. \A d \in Client : d # c => pc'[d] = pc[d] /\ i'[d] = i[d]
    BY <1>4, <1>5
  <2> QED BY <1>1, <1>2, <1>3, <1>5, <2>1, QuietKeepsP
<1>6. CASE \E p \in Unseen(c, i[c]) :
             /\ i' = [i EXCEPT ![c] = p]
             /\ requests' = Add(requests, [my |-> c, their |-> Peers[c][p], addr |-> addr(c)])
             /\ pc' = [pc EXCEPT ![c] = "recv"]
  <2>0. PICK p \in Unseen(c, i[c]) :
             /\ i' = [i EXCEPT ![c] = p]
             /\ requests' = Add(requests, [my |-> c, their |-> Peers[c][p], addr |-> addr(c)])
             /\ pc' = [pc EXCEPT ![c] = "recv"]
    BY <1>6
  <2> DEFINE new == [my |-> c, their |-> Peers[c][p], addr |-> addr(c)]
  <2>1. Peers[c][p] \in Client
    <3> HIDE DEF new
    <3>1. p \in i[c] .. Len(Peers[c]) /\ i[c] \in Nat \ {0} /\ Len(Peers[c]) \in Nat
      BY <1>4 DEF Unseen
    <3>2. p \in 1 .. Len(Peers[c])
      BY ONLY <3>1
    <3> QED BY ONLY <1>4, <3>2
  <2>2. new \in Packet /\ new.my = c /\ new.their = Peers[c][p] /\ new.addr[1] = c
    <3>1. addr(c) \in Addr /\ addr(c)[1] = c
      BY <1>4, AddrOfClient DEF addr
    <3> HIDE DEF addr
    <3> QED BY <2>1, <3>1 DEF Packet
  <2>3. requests[new] = 0
    <3> HIDE DEF new
    <3>1. \A m \in Packet : m.my = c => requests[m] = 0
      BY <1>3, <1>4
    <3> QED BY <2>2, <3>1
  <2>4. \A m \in Packet : requests'[m] = IF m = new THEN 1 ELSE requests[m]
    <3>1. requests' = [requests EXCEPT ![new] = @ + 1]
      BY <2>0 DEF Add
    <3> HIDE DEF new
    <3> QED BY <1>4, <2>2, <2>3, <3>1
  <2>5. pc'[c] = "recv" /\ i'[c] = p /\ \A d \in Client : d # c => pc'[d] = pc[d] /\ i'[d] = i[d]
    BY <1>4, <2>0
  <2> HIDE DEF new
  <2>6. Asked'
    <3> SUFFICES ASSUME NEW n \in Packet, requests'[n] > 0
                 PROVE  /\ requests'[n] = 1 /\ n.addr[1] = n.my
                        /\ pc'[n.my] \in {"recv", "failed"} /\ n.their = Peers[n.my][i'[n.my]]
                        /\ \A k \in Packet : requests'[k] > 0 /\ k.my = n.my => k = n
                        /\ \A r \in Reply : replies[r] > 0 => r.to[1] # n.my
      BY <1>1 DEF Asked
    <3>1. CASE n = new
      BY <3>1, <1>3, <2>2, <2>4, <2>5
    <3>2. CASE n # new
      <4>1. requests[n] > 0 /\ requests'[n] = requests[n] /\ n.my # c /\ n.my \in Client
        BY <3>2, <1>3, <2>4 DEF Packet
      <4>2. \A k \in Packet : requests'[k] > 0 /\ k.my = n.my => requests[k] > 0
        BY <4>1, <2>2, <2>4
      <4>3. pc'[n.my] = pc[n.my] /\ i'[n.my] = i[n.my]
        BY <4>1, <2>5
      <4> QED BY <4>1, <4>2, <4>3 DEF Asked
    <3> QED BY <3>1, <3>2
  <2>7. Told'
    <3> SUFFICES ASSUME NEW r \in Reply, replies[r] > 0
                 PROVE  /\ replies[r] = 1 /\ pc'[r.to[1]] \in {"recv", "failed"}
                        /\ r.body # NoAddr => r.body[1] = Peers[r.to[1]][i'[r.to[1]]]
                        /\ \A q \in Reply : replies[q] > 0 /\ q.to[1] = r.to[1] => q = r
      BY <1>1 DEF Told
    <3>1. r.to[1] \in Client /\ r.to[1] # c
      BY <1>3 DEF Reply, Addr
    <3>2. pc'[r.to[1]] = pc[r.to[1]] /\ i'[r.to[1]] = i[r.to[1]]
      BY <3>1, <2>5
    <3> QED BY <3>2 DEF Told
  <2> QED BY <1>2, <2>6, <2>7
<1> QED BY <1>5, <1>6 DEF Ask

\* The one reply is about the peer the client asked for last.
LEMMA RecvKeepsP == ASSUME PInv, NEW c \in Client, NEW r \in Reply, Recv(c, r)
                    PROVE  Owned' /\ Asked' /\ Told' /\ PeersAddress'
<1> USE DEF PInv
<1>1. /\ UNCHANGED <<entries, requests>> /\ replies[r] > 0 /\ replies' = Remove(replies, r)
      /\ pc' = [pc EXCEPT ![c] = "ask"] /\ i' = [i EXCEPT ![c] = @ + 1]
      /\ r.to = addr(c) /\ endpoint' \in {endpoint, [endpoint EXCEPT ![c][i[c]] = r.body]}
  BY DEF Recv, Learn, NotYet, server
<1>2. /\ pc \in [Client -> {"absent", "off", "ask", "recv", "done", "failed"}]
      /\ i \in [Client -> Nat \ {0}] /\ replies \in [Reply -> Nat]
      /\ endpoint = [d \in Client |-> endpoint[d]]
      /\ \A d \in Client : endpoint[d] \in [1 .. Len(Peers[d]) -> Addr \cup {NoAddr}]
  BY Parts DEF IInv, ClientType, NetType
<1>3. r.to[1] = c /\ replies[r] = 1 /\ (r.body # NoAddr => r.body[1] = Peers[c][i[c]])
  BY <1>1 DEF Told, addr
<1>4. \A d \in Client : d # c => pc'[d] = pc[d] /\ i'[d] = i[d]
  BY <1>1, <1>2
<1>5. \A q \in Reply : replies'[q] > 0 => replies[q] > 0 /\ replies'[q] = replies[q] /\ q.to[1] # c
  <2>1. replies' = [replies EXCEPT ![r] = replies[r] - 1]
    BY <1>1 DEF Remove
  <2>2. replies'[r] = 0 /\ \A q \in Reply : q # r => replies'[q] = replies[q]
    BY <1>2, <1>3, <2>1
  <2>3. \A q \in Reply : replies[q] > 0 /\ q.to[1] = c => q = r
    BY <1>1, <1>3 DEF Told
  <2> QED BY <2>2, <2>3
<1>6. \A m \in Packet : requests'[m] > 0 =>
        requests[m] > 0 /\ requests'[m] = requests[m] /\ m.my # c
  BY <1>1, <1>3 DEF Asked
<1>7. Asked' /\ Told'
  BY <1>4, <1>5, <1>6, QuietKeepsP
<1>8. PeersAddress'
  <2> SUFFICES ASSUME NEW d \in Client, NEW p \in DOMAIN endpoint'[d], endpoint'[d][p] # NoAddr
               PROVE  endpoint'[d][p][1] = Peers[d][p]
    BY DEF PeersAddress
  <2>1. CASE endpoint' = endpoint
    BY <2>1 DEF PeersAddress
  <2>2. CASE endpoint' = [endpoint EXCEPT ![c][i[c]] = r.body]
    <3>1. DOMAIN endpoint = Client
      BY <1>2
    <3>2. CASE d # c
      <4>1. endpoint'[d] = endpoint[d]
        BY <2>2, <3>1, <3>2
      <4> QED BY <4>1 DEF PeersAddress
    <3>3. CASE d = c
      <4>1. endpoint'[d] = [endpoint[c] EXCEPT ![i[c]] = r.body]
        BY <2>2, <3>1, <3>3
      <4>2. p \in DOMAIN endpoint[c]
        BY <4>1
      <4>3. CASE p = i[c]
        <5>1. endpoint'[d][p] = r.body
          BY <4>1, <4>2, <4>3
        <5> QED BY <5>1, <4>3, <3>3, <1>3
      <4>4. CASE p # i[c]
        <5>1. endpoint'[d][p] = endpoint[c][p]
          BY <4>1, <4>2, <4>4
        <5> QED BY <5>1, <4>2, <3>3 DEF PeersAddress
      <4> QED BY <4>3, <4>4
    <3> QED BY <3>2, <3>3
  <2> QED BY <2>1, <2>2, <1>1
<1> QED BY <1>1, <1>7, <1>8 DEF Owned

\* A lost packet, a restart of the server, a new mapping and the start or the
\* end of a client put no packet under way.
LEMMA RestKeepsP ==
    ASSUME PInv, \/ Lose \/ Restart
                 \/ \E c \in Client : Start(c) \/ Fail(c) \/ Rebind(c)
    PROVE  Owned' /\ Asked' /\ Told' /\ PeersAddress'
<1> USE DEF PInv
<1>1. UNCHANGED <<i, endpoint>>
  BY DEF Lose, Restart, Start, Fail, Rebind, client
<1>2. \A c \in Client : pc[c] \in {"recv", "failed"} => pc'[c] \in {"recv", "failed"}
  <2>1. pc \in [Client -> {"absent", "off", "ask", "recv", "done", "failed"}]
    BY DEF IInv, TypeOK
  <2> QED BY <2>1 DEF Lose, Restart, Start, Fail, Rebind, client
<1>3. /\ \A m \in Packet : requests'[m] > 0 => requests[m] > 0 /\ (requests[m] = 1 => requests'[m] = 1)
      /\ \A r \in Reply : replies'[r] > 0 => replies[r] > 0 /\ (replies[r] = 1 => replies'[r] = 1)
  <2>1. requests \in [Packet -> Nat] /\ replies \in [Reply -> Nat]
    BY DEF IInv, TypeOK
  <2>2. CASE Lose
    BY <2>1, <2>2 DEF Lose, Remove
  <2>3. CASE UNCHANGED <<requests, replies>>
    BY <2>3
  <2> QED BY <2>2, <2>3 DEF Restart, Start, Fail, Rebind, net
<1>4. Owned'
  <2>1. CASE UNCHANGED entries
    BY <2>1 DEF Owned
  <2>2. CASE Restart
    BY <2>2 DEF Restart, Owned, Empty
  <2> QED BY <2>1, <2>2 DEF Lose, Start, Fail, Rebind, server
<1>5. Asked'
  <2> SUFFICES ASSUME NEW n \in Packet, requests'[n] > 0
               PROVE  /\ requests'[n] = 1 /\ n.addr[1] = n.my
                      /\ pc'[n.my] \in {"recv", "failed"} /\ n.their = Peers[n.my][i[n.my]]
                      /\ \A k \in Packet : requests'[k] > 0 /\ k.my = n.my => k = n
                      /\ \A r \in Reply : replies'[r] > 0 => r.to[1] # n.my
    BY <1>1 DEF Asked
  <2>1. n.my \in Client
    BY DEF Packet
  <2> QED BY <1>2, <1>3, <2>1 DEF Asked
<1>6. Told'
  <2> SUFFICES ASSUME NEW r \in Reply, replies'[r] > 0
               PROVE  /\ replies'[r] = 1 /\ pc'[r.to[1]] \in {"recv", "failed"}
                      /\ r.body # NoAddr => r.body[1] = Peers[r.to[1]][i[r.to[1]]]
                      /\ \A q \in Reply : replies'[q] > 0 /\ q.to[1] = r.to[1] => q = r
    BY <1>1 DEF Told
  <2>1. r.to[1] \in Client
    BY DEF Reply, Addr
  <2> QED BY <1>2, <1>3, <2>1 DEF Told
<1> QED BY <1>1, <1>4, <1>5, <1>6 DEF PeersAddress

\* used only ever grows, and Duplicate makes it grow.
LEMMA DupGrows == ASSUME IInv, [Next]_vars, used'["dup"] = 0
                  PROVE  used["dup"] = 0 /\ ~Duplicate
<1>1. used \in [{"loss", "dup", "restart", "rebind", "fail"} -> Nat]
  BY BoundsDomain DEF IInv, TypeOK
<1>2. ASSUME NEW what \in {"loss", "dup", "restart", "rebind", "fail"}, Use(what)
      PROVE  used["dup"] = 0 /\ what # "dup"
  BY <1>1, <1>2 DEF Use
<1>3. \/ UNCHANGED used
      \/ \E what \in {"loss", "restart", "rebind", "fail"} : Use(what)
      \/ Duplicate
  BY DEF Next, ServerStep, ClientStep, vars, Serve, Restart, Start, Ask, Recv, Learn, NotYet,
         Fail, Rebind, Lose
<1>4. ~Duplicate
  BY <1>2 DEF Duplicate
<1> QED BY <1>2, <1>3, <1>4

\* What holds of the packets while none has been duplicated.
QInv == IInv /\ (used["dup"] = 0 => PInv)

LEMMA QInvStep == QInv /\ [Next]_vars => QInv'
<1> SUFFICES ASSUME QInv, [Next]_vars PROVE QInv'
  OBVIOUS
<1>1. IInv'
  BY IInvStep DEF QInv
<1>2. ASSUME used'["dup"] = 0 PROVE PInv'
  <2>1. PInv /\ ~Duplicate
    BY <1>2, DupGrows DEF QInv
  <2>2. CASE UNCHANGED vars
    BY <1>1, <2>1, <2>2 DEF vars, server, client, net, PInv, Owned, Asked, Told, PeersAddress
  <2>3. CASE Next
    BY <1>1, <2>1, <2>3, ServeKeepsP, AskKeepsP, RecvKeepsP, RestKeepsP
       DEF Next, ServerStep, ClientStep, PInv
  <2> QED BY <2>2, <2>3
<1> QED BY <1>1, <1>2 DEF QInv

\* As long as no packet is duplicated, a client points a peer only at an
\* address which that peer has sent from, although the replies name no key.
THEOREM EndpointIsPeersAlways == Spec => []EndpointIsPeers
<1>1. Init => QInv
  BY PInvInit DEF PInv, QInv
<1>2. QInv => EndpointIsPeers
  BY DEF QInv, PInv, EndpointIsPeers
<1> QED BY QInvStep, <1>1, <1>2, PTL DEF Spec

-----------------------------------------------------------------------------
(* The order in which keys give way.                                       *)

\* A remainder is the one number below the divisor that differs from the
\* dividend by a multiple.
LEMMA Remainder ==
    ASSUME NEW d \in Nat \ {0}, NEW q \in Int, NEW r \in 0 .. d - 1
    PROVE  (q * d + r) % d = r
<1> DEFINE n == q * d + r
           p == n \div d
           s == n % d
<1>1. n \in Int /\ p \in Int /\ s \in 0 .. d - 1 /\ n = p * d + s
  OBVIOUS
<1>2. (q - p) * d = s - r
  BY <1>1
<1> HIDE DEF n, p, s
<1>3. q - p \in Int /\ s - r < d /\ s - r > -d
  BY <1>1
<1>4. ASSUME q - p >= 1 PROVE FALSE
  <2>1. (q - p) * d >= d
    BY <1>3, <1>4
  <2> QED BY <2>1, <1>2, <1>3
<1>5. ASSUME q - p <= -1 PROVE FALSE
  <2>1. (q - p) * d <= -d
    BY <1>3, <1>5
  <2> QED BY <2>1, <1>2, <1>3
<1>6. q - p = 0
  BY <1>3, <1>4, <1>5
<1>7. s = r
  BY <1>1, <1>2, <1>6
<1> QED BY <1>7 DEF s, n

\* A number is its quotient and its remainder.
LEMMA Quotient ==
    ASSUME NEW d \in Nat \ {0}, NEW n \in Nat
    PROVE  /\ n \div d \in Nat /\ n % d \in 0 .. d - 1
           /\ n = (n \div d) * d + (n % d)
  OBVIOUS

\* The slot that is next, and the one d before it in the ring.
Turn == next_entry % MaxEntries
Back(x, d) == IF x - d >= 0 THEN x - d ELSE x - d + MaxEntries

\* The slots before the next one hold the keys inserted last, the latest first,
\* and those that no key has reached yet are empty.
Ring == /\ Len(order) <= MaxEntries
        /\ \A d \in 1 .. MaxEntries :
              entries[Back(Turn, d)].key = IF d <= Len(order) THEN order[Len(order) + 1 - d] ELSE NoKey

\* next_entry++ takes the next slot, also when it overflows: MAX_ENTRIES
\* divides 2^32.
LEMMA TurnAdvances ==
    ASSUME TypeOK
    PROVE  /\ Turn \in 0 .. MaxEntries - 1
           /\ ((next_entry + 1) % Wrap) % MaxEntries
                 = IF Turn + 1 = MaxEntries THEN 0 ELSE Turn + 1
<1> DEFINE M == MaxEntries
           n == next_entry
           q == n \div M
           x == n % M
           k == Wrap \div M
<1>1. M \in Nat \ {0} /\ Wrap \in Nat \ {0} /\ Wrap % M = 0 /\ n \in 0 .. Wrap - 1 /\ n \in Nat
  BY EntriesAssumption DEF TypeOK
<1>2. q \in Nat /\ x \in 0 .. M - 1 /\ n = q * M + x
  BY <1>1, Quotient
<1>3. k \in Nat /\ Wrap = k * M
  <2>1. Wrap = k * M + (Wrap % M) /\ k \in Nat
    BY <1>1, Quotient
  <2> QED BY <1>1, <2>1
<1> HIDE DEF M, n, q, x, k
<1>4. CASE n + 1 = Wrap
  <2>1. k * M = q * M + x + 1
    BY <1>2, <1>3, <1>4
  <2>2. x + 1 = M
    <3>1. CASE x + 1 < M
      <4>1. (k * M + 0) % M = 0
        BY <1>1, <1>3, Remainder
      <4>2. (q * M + (x + 1)) % M = x + 1
        BY <1>1, <1>2, <3>1, Remainder
      <4>3. k * M + 0 = q * M + (x + 1)
        BY <1>1, <1>2, <1>3, <2>1
      <4> QED BY <1>2, <4>1, <4>2, <4>3
    <3> QED BY <1>1, <1>2, <3>1
  <2>3. (n + 1) % Wrap = 0
    BY <1>1, <1>4
  <2>4. 0 % M = 0
    BY <1>1
  <2> QED BY <1>2, <2>2, <2>3, <2>4 DEF Turn, M, n, x
<1>5. CASE n + 1 # Wrap
  <2>1. (n + 1) % Wrap = n + 1
    BY <1>1, <1>5
  <2>2. CASE x + 1 = M
    <3>1. ((q + 1) * M + 0) % M = 0
      BY <1>1, <1>2, Remainder
    <3>2. (q + 1) * M + 0 = n + 1
      BY <1>1, <1>2, <2>2
    <3> QED BY <1>2, <2>1, <2>2, <3>1, <3>2 DEF Turn, M, n, x
  <2>3. CASE x + 1 # M
    <3>1. (q * M + (x + 1)) % M = x + 1
      BY <1>1, <1>2, <2>3, Remainder
    <3>2. q * M + (x + 1) = n + 1
      BY <1>1, <1>2
    <3> QED BY <1>2, <2>1, <2>3, <3>1, <3>2 DEF Turn, M, n, x
  <2> QED BY <2>2, <2>3
<1> QED BY <1>4, <1>5

\* Going back in the ring reaches every slot once.
LEMMA BackFacts ==
    ASSUME NEW x \in Slot
    PROVE  /\ \A d \in 1 .. MaxEntries : Back(x, d) \in Slot
           /\ Back(x, MaxEntries) = x
           /\ \A d \in 1 .. MaxEntries - 1 : Back(x, d) # x
           /\ \A s \in Slot : \E d \in 1 .. MaxEntries : s = Back(x, d)
<1>1. MaxEntries \in Nat \ {0}
  BY EntriesAssumption
<1>2. ASSUME NEW s \in Slot PROVE \E d \in 1 .. MaxEntries : s = Back(x, d)
  <2>1. CASE s < x
    <3>1. x - s \in 1 .. MaxEntries /\ s = Back(x, x - s)
      BY <1>1, <2>1 DEF Slot, Back
    <3> QED BY <3>1
  <2>2. CASE s >= x
    <3>1. x - s + MaxEntries \in 1 .. MaxEntries /\ s = Back(x, x - s + MaxEntries)
      BY <1>1, <2>2 DEF Slot, Back
    <3> QED BY <3>1
  <2> QED BY <1>1, <2>1, <2>2 DEF Slot
<1> QED BY <1>1, <1>2 DEF Slot, Back

\* One step on, what was d back is d + 1 back.
LEMMA BackNext ==
    ASSUME NEW x \in Slot, NEW y, y = IF x + 1 = MaxEntries THEN 0 ELSE x + 1
    PROVE  /\ y \in Slot /\ Back(y, 1) = x
           /\ \A d \in 2 .. MaxEntries : Back(y, d) = Back(x, d - 1)
  BY EntriesAssumption DEF Slot, Back

\* Append keeps what is there and puts the new element behind it.
LEMMA AppendFacts ==
    ASSUME NEW S, NEW q \in Seq(S), NEW e \in S
    PROVE  /\ Append(q, e) \in Seq(S) /\ Len(Append(q, e)) = Len(q) + 1
           /\ Append(q, e)[Len(q) + 1] = e
           /\ \A j \in 1 .. Len(q) : Append(q, e)[j] = q[j]
  OBVIOUS

\* find_or_insert_entry puts a new key over the oldest, and a key that is
\* there stays where it is.
LEMMA ServeKeepsRing ==
    ASSUME TypeOK, Ring, NEW m \in Packet, Serve(m) PROVE Ring'
<1>0. MaxEntries \in Nat \ {0} /\ Turn \in Slot
  BY EntriesAssumption, TurnAdvances DEF Slot
<1>1. m.my \in Client /\ entries \in [Slot -> Entry] /\ order \in Seq(Client)
  BY DEF Packet, TypeOK
<1>2. PICK s \in find_or_insert_entry(m.my) :
        entries' = [entries EXCEPT ![s] = [key |-> m.my, addr |-> m.addr]]
  BY DEF Serve
<1>3. s \in Slot
  BY InsertInTable
<1>4. \A t \in Slot : entries'[t].key = IF t = s THEN m.my ELSE entries[t].key
  BY <1>1, <1>2, <1>3
<1>5. CASE find_entry(m.my, entries) # {}
  <2>1. entries[s].key = m.my
    BY <1>5 DEF find_or_insert_entry, find_entry
  <2>2. \A t \in Slot : entries'[t].key = entries[t].key
    BY <1>4, <2>1
  <2>3. next_entry' = next_entry /\ order' = order
    BY <1>5 DEF Serve, Counter
  <2>4. \A d \in 1 .. MaxEntries : Back(Turn, d) \in Slot
    BY <1>0, BackFacts
  <2>5. Turn' = Turn
    BY <2>3 DEF Turn
  <2> QED BY <2>2, <2>3, <2>4, <2>5 DEF Ring, Back
<1>6. CASE find_entry(m.my, entries) = {}
  <2> DEFINE L == Len(order)
             x == Turn
             o == Append(order, m.my)
  <2>1. s = x
    BY <1>6 DEF find_or_insert_entry, Turn
  <2>2. Turn' = IF x + 1 = MaxEntries THEN 0 ELSE x + 1
    BY <1>6, TurnAdvances DEF Serve, Counter, Turn
  <2>3. /\ Turn' \in Slot /\ Back(Turn', 1) = x
        /\ \A d \in 2 .. MaxEntries : Back(Turn', d) = Back(x, d - 1)
    BY <1>0, <2>2, BackNext
  <2>4. L \in Nat /\ L <= MaxEntries
    BY <1>1 DEF Ring
  <2>5. order' = IF Len(o) > MaxEntries THEN Tail(o) ELSE o
    BY <1>6 DEF Serve
  <2>6. /\ o \in Seq(Client) /\ Len(o) = L + 1 /\ o[L + 1] = m.my
        /\ \A j \in 1 .. L : o[j] = order[j]
    <3>1. o \in Seq(Client) /\ Len(o) = L + 1 /\ o[L + 1] = m.my
      BY <1>1, AppendFacts
    <3>2. \A j \in 1 .. L : o[j] = order[j]
      BY <1>1, AppendFacts
    <3> QED BY <3>1, <3>2
  <2>7. /\ Len(order') = IF L = MaxEntries THEN MaxEntries ELSE L + 1
        /\ order'[Len(order')] = m.my
        /\ \A d \in 2 .. Len(order') : order'[Len(order') + 1 - d] = order[L + 2 - d]
    <3> HIDE DEF L, o
    <3>1. CASE L = MaxEntries
      <4> DEFINE t == Tail(o)
      <4>1. order' = t
        BY <1>0, <2>4, <2>5, <2>6, <3>1
      <4>2. Len(t) = MaxEntries /\ \A j \in 1 .. MaxEntries : t[j] = o[j + 1]
        BY <1>0, <2>6, <3>1
      <4> HIDE DEF t
      <4> QED BY <1>0, <2>6, <3>1, <4>1, <4>2
    <3>2. CASE L # MaxEntries
      <4>1. order' = o
        BY <1>0, <2>4, <2>5, <2>6, <3>2
      <4> QED BY <1>0, <2>4, <2>6, <3>2, <4>1
    <3> QED BY <3>1, <3>2
  <2> HIDE DEF L, o
  <2>8. ASSUME NEW d \in 1 .. MaxEntries
        PROVE  entries'[Back(Turn', d)].key
                 = IF d <= Len(order') THEN order'[Len(order') + 1 - d] ELSE NoKey
    <3>1. CASE d = 1
      <4>1. entries'[Back(Turn', d)].key = m.my
        BY <1>0, <1>4, <2>1, <2>3, <3>1
      <4>2. d <= Len(order') /\ Len(order') + 1 - d = Len(order')
        BY <1>0, <2>4, <2>7, <3>1
      <4> QED BY <2>7, <4>1, <4>2
    <3>2. CASE d # 1
      <4>1. d \in 2 .. MaxEntries /\ d - 1 \in 1 .. MaxEntries - 1 /\ d - 1 \in 1 .. MaxEntries
        BY <1>0, <3>2
      <4>2. Back(Turn', d) = Back(x, d - 1) /\ Back(x, d - 1) \in Slot /\ Back(x, d - 1) # s
        BY <1>0, <2>1, <2>3, <4>1, BackFacts
      <4>3. entries'[Back(Turn', d)].key = entries[Back(x, d - 1)].key
        BY <1>4, <4>2
      <4>4. entries[Back(x, d - 1)].key = IF d - 1 <= L THEN order[L + 1 - (d - 1)] ELSE NoKey
        BY <4>1 DEF Ring, L
      <4>5. /\ d - 1 <= L <=> d <= Len(order')
            /\ L + 1 - (d - 1) = L + 2 - d
        BY <1>0, <2>4, <2>7, <4>1
      <4>6. ASSUME d <= Len(order') PROVE order'[Len(order') + 1 - d] = order[L + 2 - d]
        <5>1. Len(order') \in Nat
          BY <1>0, <2>4, <2>7
        <5>2. d \in 2 .. Len(order')
          BY <4>1, <4>6, <5>1
        <5> QED BY <2>7, <5>2
      <4> QED BY <4>3, <4>4, <4>5, <4>6
    <3> QED BY <3>1, <3>2
  <2>9. Len(order') <= MaxEntries
    BY <1>0, <2>4, <2>7
  <2> QED BY <2>8, <2>9 DEF Ring, Back
<1> QED BY <1>5, <1>6

\* The table is empty at first.
LEMMA RingInit == Init => Ring
<1> SUFFICES ASSUME Init PROVE Ring
  OBVIOUS
<1>1. MaxEntries \in Nat \ {0} /\ Turn \in Slot
  BY EntriesAssumption DEF Init, Turn, Slot
<1>2. \A d \in 1 .. MaxEntries : Back(Turn, d) \in Slot
  BY <1>1, BackFacts
<1>3. Len(order) = 0 /\ \A s \in Slot : entries[s].key = NoKey
  BY DEF Init, Empty
<1> QED BY <1>1, <1>2, <1>3 DEF Ring

\* What the ring holds is what EvictsOldest says of the table.
LEMMA RingEvictsOldest == TypeOK /\ Ring => EvictsOldest
<1> SUFFICES ASSUME TypeOK, Ring PROVE EvictsOldest
  OBVIOUS
<1> DEFINE L == Len(order)
<1>1. MaxEntries \in Nat \ {0} /\ Turn \in Slot
  BY EntriesAssumption, TurnAdvances DEF Slot
<1>2. order \in Seq(Client) /\ L \in Nat /\ L <= MaxEntries /\ DOMAIN order = 1 .. L
  BY DEF TypeOK, Ring
<1>3. \A d \in 1 .. MaxEntries :
         entries[Back(Turn, d)].key = IF d <= L THEN order[L + 1 - d] ELSE NoKey
  BY DEF Ring
<1>4. \A n \in 1 .. L : order[n] \in Client /\ order[n] # NoKey
  BY <1>2, ClientAssumption
<1> HIDE DEF L
<1>5. ASSUME NEW s \in Slot, entries[s].key # NoKey
      PROVE  \E n \in 1 .. L : entries[s].key = order[n]
  <2>1. PICK d \in 1 .. MaxEntries : s = Back(Turn, d)
    BY <1>1, BackFacts
  <2>2. d <= L /\ entries[s].key = order[L + 1 - d]
    BY <1>3, <1>5, <2>1
  <2>3. L + 1 - d \in 1 .. L
    BY <1>1, <1>2, <2>2
  <2> QED BY <2>2, <2>3
<1>6. ASSUME NEW n \in 1 .. L
      PROVE  \E s \in Slot : entries[s].key = order[n]
  <2>1. L + 1 - n \in 1 .. MaxEntries /\ L + 1 - n <= L /\ L + 1 - (L + 1 - n) = n
    BY <1>1, <1>2
  <2>2. Back(Turn, L + 1 - n) \in Slot
    BY <1>1, <2>1, BackFacts
  <2>3. entries[Back(Turn, L + 1 - n)].key = order[n]
    BY <1>3, <2>1
  <2> QED BY <2>2, <2>3
<1>7. {entries[s].key : s \in Slot} \ {NoKey} = {order[n] : n \in DOMAIN order}
  BY <1>2, <1>4, <1>5, <1>6
<1>8. ASSUME L = MaxEntries PROVE entries[next_entry % MaxEntries].key = order[1]
  <2>1. MaxEntries \in 1 .. MaxEntries /\ L + 1 - MaxEntries = 1
    BY <1>1, <1>8
  <2>2. entries[Back(Turn, MaxEntries)].key = order[1]
    BY <1>1, <1>3, <1>8, <2>1
  <2> QED BY <1>1, <2>2, BackFacts DEF Turn
<1> QED BY <1>2, <1>7, <1>8 DEF EvictsOldest, L

\* The key that came first gives way, however many entries the table has and
\* however often next_entry has overflowed: the slots hold the keys inserted
\* last, and the next slot that find_or_insert_entry takes is the oldest's.
THEOREM EvictsOldestAlways == Spec => []EvictsOldest
<1>1. TypeOK /\ Ring /\ [Next]_vars => Ring'
  <2> SUFFICES ASSUME TypeOK, Ring, [Next]_vars PROVE Ring'
    OBVIOUS
  <2>1. CASE ServerStep
    BY <2>1, ServeKeepsRing DEF ServerStep
  <2>2. CASE Restart
    <3>1. MaxEntries \in Nat \ {0} /\ 0 \in Slot /\ 0 % MaxEntries = 0
      BY EntriesAssumption DEF Slot
    <3>2. \A d \in 1 .. MaxEntries : Back(0, d) \in Slot
      BY <3>1, BackFacts
    <3>3. /\ entries' = [s \in Slot |-> Empty] /\ order' = << >> /\ Turn' = 0
      BY <2>2, <3>1 DEF Restart, Turn
    <3>4. Len(order') = 0 /\ \A s \in Slot : entries'[s].key = NoKey
      BY <3>3 DEF Empty
    <3> QED BY <3>1, <3>2, <3>3, <3>4 DEF Ring, Back
  <2>3. CASE UNCHANGED <<entries, next_entry, order>>
    BY <2>3 DEF Ring, Turn, Back
  <2>4. ServerStep \/ Restart \/ UNCHANGED <<entries, next_entry, order>>
    BY DEF Next, vars, server, ClientStep, Start, Ask, Recv, Fail, Rebind, Lose, Duplicate
  <2> QED BY <2>1, <2>2, <2>3, <2>4
<1> QED BY <1>1, RingInit, RingEvictsOldest, TypeCorrect, PTL DEF Spec
=============================================================================
