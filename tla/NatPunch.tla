------------------------------- MODULE NatPunch -------------------------------
(***************************************************************************)
(* nat-punch-server.c and nat-punch-client.c: clients behind NATs tell a   *)
(* server their keys, and ask it for the addresses of their peers.  Both   *)
(* sides use UDP: packets may be lost, duplicated and overtaken.           *)
(* A client's key is the client; its address <<c, n>> is the n-th mapping  *)
(* its NAT made for it.                                                    *)
(***************************************************************************)
EXTENDS Integers, Sequences, FiniteSets

CONSTANTS Client,
          Peers,       \* Peers[c]: the peers of c's interface, a sequence
          MaxEntries,  \* MAX_ENTRIES
          Wrap,        \* where next_entry overflows (2^32)
          NoKey, NoAddr,
          MaxLoss, MaxDup, MaxRestart, MaxRebind, MaxFail,  \* bounds of each kind of
          MaxFaults                                         \* fault, and of all together

ASSUME ClientAssumption == NoKey \notin Client /\ Peers \in [Client -> Seq(Client)]
ASSUME EntriesAssumption ==
    /\ MaxEntries \in Nat \ {0} /\ Wrap \in Nat \ {0}
    /\ Wrap % MaxEntries = 0
ASSUME BoundAssumption ==
    {MaxLoss, MaxDup, MaxRestart, MaxRebind, MaxFail, MaxFaults} \subseteq Nat

Slot == 0 .. MaxEntries - 1
Addr == Client \X (0 .. MaxRebind)
Packet == [my : Client, their : Client, addr : Addr]
Reply == [to : Addr, body : Addr \cup {NoAddr}]
Entry == [key : Client \cup {NoKey}, addr : Addr \cup {NoAddr}]

VARIABLES entries, next_entry,         \* the server
          order,                       \* history: the keys inserted last
          pc, i, repeat, have_seen,    \* the clients
          endpoint,                    \* what wg set gave the interfaces
          nat,                         \* mappings the NATs made so far
          requests, replies,           \* packets under way: how many of each
          used                         \* losses, duplicates, ... so far

server == <<entries, next_entry, order>>
client == <<pc, i, repeat, have_seen, endpoint>>
net == <<requests, replies>>
vars == <<server, client, nat, net, used>>

Bounds == [loss |-> MaxLoss, dup |-> MaxDup, restart |-> MaxRestart,
           rebind |-> MaxRebind, fail |-> MaxFail]
Faults == used["loss"] + used["dup"] + used["restart"] + used["rebind"] + used["fail"]
Use(what) == /\ used[what] < Bounds[what] /\ Faults < MaxFaults
             /\ used' = [used EXCEPT ![what] = @ + 1]

addr(c) == <<c, nat[c]>>
Empty == [key |-> NoKey, addr |-> NoAddr]
Add(bag, m) == [bag EXCEPT ![m] = @ + 1]
Remove(bag, m) == [bag EXCEPT ![m] = @ - 1]

-----------------------------------------------------------------------------
(* The server.                                                             *)

find_entry(key, e) == {s \in Slot : e[s].key = key}

\* Mutant: find_or_insert_entry does not look for the key first.
InsertAlways(key) == {next_entry % MaxEntries}

\* The slot of find_or_insert_entry: the key's, or the next in turn.
find_or_insert_entry(key) ==
    IF find_entry(key, entries) # {} THEN find_entry(key, entries)
    ELSE {next_entry % MaxEntries}

\* Mutant: the counter is taken modulo MAX_ENTRIES + 1.
CounterOff(key) == IF find_entry(key, entries) # {} THEN next_entry
                   ELSE (next_entry + 1) % (MaxEntries + 1)

\* next_entry++ when the key is new.
Counter(key) == IF find_entry(key, entries) # {} THEN next_entry
                ELSE (next_entry + 1) % Wrap

\* One round of the server's loop.
Serve(m) ==
    /\ requests[m] > 0
    /\ \E s \in find_or_insert_entry(m.my) :
          entries' = [entries EXCEPT ![s] = [key |-> m.my, addr |-> m.addr]]
    /\ next_entry' = Counter(m.my)
    /\ order' = IF find_entry(m.my, entries) # {} THEN order
                ELSE LET o == Append(order, m.my)
                     IN  IF Len(o) > MaxEntries THEN Tail(o) ELSE o
    /\ requests' = Remove(requests, m)
    /\ \/ /\ find_entry(m.their, entries') = {}
          /\ replies' = Add(replies, [to |-> m.addr, body |-> NoAddr])
       \/ \E s \in find_entry(m.their, entries') :
             replies' = Add(replies, [to |-> m.addr, body |-> entries'[s].addr])
    /\ UNCHANGED <<client, nat, used>>

\* The server is started again and has an empty table.
Restart == /\ Use("restart")
           /\ entries' = [s \in Slot |-> Empty] /\ next_entry' = 0 /\ order' = << >>
           /\ UNCHANGED <<client, nat, net>>

-----------------------------------------------------------------------------
(* A client.                                                               *)

\* The first peer from n on whose address is not known, or none.
Unseen(c, n) == {p \in n .. Len(Peers[c]) :
                   p \notin have_seen[c] /\ n .. p - 1 \subseteq have_seen[c]}

\* read_peers, ip link set up and the socket.
Start(c) == /\ pc[c] = "off"
            /\ pc' = [pc EXCEPT ![c] = "ask"]
            /\ UNCHANGED <<i, repeat, have_seen, endpoint, server, nat, net, used>>

\* The loop over the peers up to the next request, or to its end: another
\* round if some peer is missing.
Ask(c) ==
    /\ pc[c] = "ask"
    /\ \/ \E p \in Unseen(c, i[c]) :
          /\ i' = [i EXCEPT ![c] = p]
          /\ requests' = Add(requests, [my |-> c, their |-> Peers[c][p], addr |-> addr(c)])
          /\ pc' = [pc EXCEPT ![c] = "recv"]
          /\ UNCHANGED repeat
       \/ /\ Unseen(c, i[c]) = {}
          /\ i' = [i EXCEPT ![c] = 1]
          /\ repeat' = [repeat EXCEPT ![c] = FALSE]
          /\ pc' = [pc EXCEPT ![c] = IF repeat[c] THEN "ask" ELSE "done"]
          /\ UNCHANGED requests
    /\ UNCHANGED <<have_seen, endpoint, server, nat, replies, used>>

\* The server does not have the peer yet.
NotYet(c) == /\ repeat' = [repeat EXCEPT ![c] = TRUE]
             /\ UNCHANGED <<have_seen, endpoint, used>>

\* Mutant: the address is given to the peer after this one.
LearnOther(c, body) ==
    IF body = NoAddr THEN NotYet(c)
    ELSE /\ have_seen' = [have_seen EXCEPT ![c] = @ \cup {i[c]}]
         /\ endpoint' = [endpoint EXCEPT ![c][(i[c] % Len(Peers[c])) + 1] = body]
         /\ UNCHANGED <<repeat, used>>

\* Mutant: a peer the server does not have yet is not asked for again.
LearnNoRepeat(c, body) ==
    IF body = NoAddr THEN UNCHANGED <<repeat, have_seen, endpoint, used>>
    ELSE /\ have_seen' = [have_seen EXCEPT ![c] = @ \cup {i[c]}]
         /\ endpoint' = [endpoint EXCEPT ![c][i[c]] = body]
         /\ UNCHANGED <<repeat, used>>

\* What a reply tells: the server does not have the peer yet, or its address,
\* which wg set gives to the interface.  Nobody looks whether wg set failed, and
\* the peer is not asked for again.
Learn(c, body) ==
    IF body = NoAddr THEN NotYet(c)
    ELSE /\ have_seen' = [have_seen EXCEPT ![c] = @ \cup {i[c]}]
         /\ \/ endpoint' = [endpoint EXCEPT ![c][i[c]] = body] /\ UNCHANGED used
            \/ Use("fail") /\ UNCHANGED endpoint
         /\ UNCHANGED repeat

\* recv returns whatever the filter lets through: a packet from the server.
\* It names no key, and is taken as the answer to the request sent last.
Recv(c, r) ==
    /\ pc[c] = "recv"
    /\ r.to = addr(c) /\ replies[r] > 0
    /\ replies' = Remove(replies, r)
    /\ Learn(c, r.body)
    /\ i' = [i EXCEPT ![c] = @ + 1]
    /\ pc' = [pc EXCEPT ![c] = "ask"]
    /\ UNCHANGED <<server, nat, requests>>

\* sendto, recv or popen fails: the client ends.
Fail(c) == /\ pc[c] \in {"ask", "recv"}
           /\ Use("fail")
           /\ pc' = [pc EXCEPT ![c] = "failed"]
           /\ UNCHANGED <<i, repeat, have_seen, endpoint, server, nat, net>>

-----------------------------------------------------------------------------
(* The network and the NATs (external).                                    *)

Lose == /\ Use("loss")
        /\ \/ \E m \in Packet : /\ requests[m] > 0
                                /\ requests' = Remove(requests, m)
                                /\ UNCHANGED replies
           \/ \E r \in Reply : /\ replies[r] > 0
                               /\ replies' = Remove(replies, r)
                               /\ UNCHANGED requests
        /\ UNCHANGED <<server, client, nat>>

Duplicate == /\ Use("dup")
             /\ \/ \E m \in Packet : /\ requests[m] > 0
                                     /\ requests' = Add(requests, m)
                                     /\ UNCHANGED replies
                \/ \E r \in Reply : /\ replies[r] > 0
                                    /\ replies' = Add(replies, r)
                                    /\ UNCHANGED requests
             /\ UNCHANGED <<server, client, nat>>

\* The NAT of c forgets its mapping and makes another.
Rebind(c) == /\ Use("rebind")
             /\ nat' = [nat EXCEPT ![c] = @ + 1]
             /\ UNCHANGED <<server, client, net>>

-----------------------------------------------------------------------------
\* Some clients are never started.
Init == /\ entries = [s \in Slot |-> Empty] /\ next_entry = 0 /\ order = << >>
        /\ pc \in [Client -> {"off", "absent"}] /\ i = [c \in Client |-> 1]
        /\ repeat = [c \in Client |-> FALSE] /\ have_seen = [c \in Client |-> {}]
        /\ endpoint = [c \in Client |-> [p \in 1 .. Len(Peers[c]) |-> NoAddr]]
        /\ nat = [c \in Client |-> 0]
        /\ requests = [m \in Packet |-> 0] /\ replies = [r \in Reply |-> 0]
        /\ used = [what \in DOMAIN Bounds |-> 0]

ClientStep(c) == Start(c) \/ Ask(c) \/ \E r \in Reply : Recv(c, r)

ServerStep == \E m \in Packet : Serve(m)

Next == \/ ServerStep \/ Restart
        \/ \E c \in Client : ClientStep(c) \/ Fail(c) \/ Rebind(c)
        \/ Lose \/ Duplicate

Spec == Init /\ [][Next]_vars

\* Every process runs, and a packet that is not lost arrives.
FairSpec == /\ Spec
            /\ \A m \in Packet : WF_vars(Serve(m))
            /\ \A c \in Client : WF_vars(ClientStep(c))
-----------------------------------------------------------------------------
\* The variables keep their types.
TypeOK == /\ entries \in [Slot -> Entry] /\ next_entry \in 0 .. Wrap - 1
          /\ order \in Seq(Client)
          /\ pc \in [Client -> {"absent", "off", "ask", "recv", "done", "failed"}]
          /\ i \in [Client -> Nat \ {0}] /\ repeat \in [Client -> BOOLEAN]
          /\ have_seen = [c \in Client |-> have_seen[c] \cap (1 .. Len(Peers[c]))]
          /\ endpoint = [c \in Client |-> endpoint[c]]
          /\ \A c \in Client : endpoint[c] \in [1 .. Len(Peers[c]) -> Addr \cup {NoAddr}]
          /\ nat \in [Client -> 0 .. MaxRebind]
          /\ requests \in [Packet -> Nat] /\ replies \in [Reply -> Nat]
          /\ used \in [DOMAIN Bounds -> Nat]

\* find_or_insert_entry never puts a key into a second slot, so that
\* find_entry cannot answer with an address that is no longer updated.
OneEntryPerKey == \A s, t \in Slot :
    entries[s].key = entries[t].key /\ entries[s].key # NoKey => s = t

\* When the table is full the key that came first gives way, also after
\* next_entry has overflowed: the table holds the keys inserted last.
EvictsOldest == /\ {entries[s].key : s \in Slot} \ {NoKey} = {order[n] : n \in DOMAIN order}
                /\ Len(order) <= MaxEntries
                /\ Len(order) = MaxEntries => entries[next_entry % MaxEntries].key = order[1]

\* A client points a peer at an address which that peer has sent from, as long
\* as no packet is duplicated.  The reply does not say whose address it is; the
\* order of the exchange does.
PeersAddress == \A c \in Client : \A p \in DOMAIN endpoint[c] :
    endpoint[c][p] # NoAddr => endpoint[c][p][1] = Peers[c][p]
EndpointIsPeers == used["dup"] = 0 => PeersAddress

\* If the table has room for all clients that are started, each of them whose
\* peers are all started too ends up with the addresses of all its peers, in
\* whatever order they start, as long as there is no fault: none is lost,
\* duplicated or fails, the server keeps its table and the NATs their mappings.
Calm == Faults = 0
Present == {c \in Client : pc[c] # "absent"}
Met(c) == pc[c] = "done" /\ \A p \in DOMAIN endpoint[c] : endpoint[c][p] # NoAddr
AllMeet == []Calm /\ Cardinality(Present) <= MaxEntries =>
    <>(\A c \in Present : (\A p \in DOMAIN Peers[c] : Peers[c][p] \in Present) => Met(c))
=============================================================================
