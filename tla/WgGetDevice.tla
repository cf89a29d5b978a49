----------------------------- MODULE WgGetDevice -----------------------------
(***************************************************************************)
(* wg_get_device (embeddable-wg-library/wireguard.c): the kernel dumps a   *)
(* device over several netlink messages, the parse_* callbacks rebuild the *)
(* list of peers, coalesce_peers joins the pieces of a peer that was cut,  *)
(* and a dump during which the device changed is started again.            *)
(*                                                                         *)
(* Of a peer only its public key and its allowed IPs are kept; the other   *)
(* attributes are copied one by one and cannot be told apart here.         *)
(***************************************************************************)
EXTENDS Integers, Sequences, FiniteSets

CONSTANTS Key, Ip,    \* public keys and allowed IPs
          Configs,    \* peer lists the kernel may hold
          MaxChange,  \* bound: changes of the device during the call
          MaxSignal,  \* bound: signals that interrupt recvmsg
          MaxOom,     \* bound: allocations that fail
          NULL        \* the null pointer

Peer == [key : Key, aips : Seq(Ip)]

ASSUME BoundAssumption == {MaxChange, MaxSignal, MaxOom} \subseteq Nat

\* The peers of a device have different keys.
ASSUME ConfigAssumption ==
    \A c \in Configs : /\ c \in Seq(Peer)
                       /\ \A p, q \in 1 .. Len(c) : c[p].key = c[q].key => p = q

ASSUME NullAssumption == NULL \notin Seq(Peer)

VARIABLES conf,       \* the kernel's peers
          gen,        \* the kernel's update counter of the device
          pc, ret,    \* wg_get_device: control and return value
          device,     \* *device: the list from first_peer on, or NULL
          nlg,        \* the netlink socket is open
          live,       \* wg_device objects allocated and not freed
          sent,       \* the kernel's dump: <<p, a>>, peer p and its first a
                      \* allowed IPs were dumped last
          more,       \* the kernel's dump: not at its end yet
          seen,       \* the update counter when the last message was dumped
          signals, oom, \* signals and failed allocations so far
          snap        \* history: the kernel's peers in the first message of the dump

dump == <<sent, more, seen, snap>>
vars == <<conf, gen, pc, ret, device, nlg, live, dump, signals, oom>>

EINTR == 4
EOTHER == 12    \* any other errno

-----------------------------------------------------------------------------
(* The kernel's side of the dump (external).                               *)

Start == <<0, 0>>

Aips(c, p) == IF p = 0 THEN 0 ELSE Len(c[p].aips)

\* The places of the dump of c that come after from.
Ahead(c, from) ==
    {to \in UNION {{p} \X (0 .. Len(c[p].aips)) : p \in 1 .. Len(c)} :
        to[1] > from[1] \/ (to[1] = from[1] /\ to[2] > from[2])}

\* A message ends at any of them; it is empty only if there is none.
DumpEnds(c, from) == IF Ahead(c, from) = {} THEN {from} ELSE Ahead(c, from)

\* A message that starts inside a peer repeats the nest of that peer first.
FirstNest(c, from) == IF from[2] < Aips(c, from[1]) THEN from[1] ELSE from[1] + 1

\* What the message says of peer p.
Nest(c, from, to, p) ==
    [key  |-> c[p].key,
     aips |-> SubSeq(c[p].aips, IF p = from[1] THEN from[2] + 1 ELSE 1,
                                IF p = to[1] THEN to[2] ELSE Len(c[p].aips))]

\* The nests of the message.
DumpMessage(c, from, to) ==
    [n \in 1 .. (to[1] + 1) - FirstNest(c, from) |-> Nest(c, from, to, (FirstNest(c, from) + n) - 1)]

\* NLM_F_DUMP_INTR: the device changed since the message before.
DumpIntr == seen # -1 /\ seen # gen

\* Another process configures the device.
Change == /\ gen < MaxChange
          /\ gen' = gen + 1
          /\ conf' \in Configs \ {conf}
          /\ UNCHANGED <<pc, ret, device, nlg, live, dump, signals, oom>>

-----------------------------------------------------------------------------
\* __mnl_cb_run ends the dump at a message that has the flag.
Interrupted == DumpIntr

\* The callbacks.  callocs[n] is how many allowed IPs of the nest n can be
\* allocated; a peer behind the last n cannot be allocated itself.
Callocs(nests) ==
    LET counts == UNION {0 .. Len(nests[n].aips) : n \in 1 .. Len(nests)}
    IN  {c \in UNION {[1 .. e -> counts] : e \in 0 .. Len(nests)} :
            \A n \in 1 .. Len(c) : c[n] <= Len(nests[n].aips)}

\* The calls of calloc that fail.
Failed(nests, callocs) ==
    Cardinality({n \in 1 .. Len(callocs) : callocs[n] < Len(nests[n].aips)})
      + (IF Len(callocs) < Len(nests) THEN 1 ELSE 0)

\* Mutant: a peer that cannot be allocated is left out with those behind it.
PeerFailsUnseen(nests, callocs) == FALSE

\* parse_peers ends the parsing with an error if its calloc fails.
PeerFails(nests, callocs) == Len(callocs) < Len(nests)

\* parse_peers appends a peer for every nest.  parse_allowedips appends to
\* that peer; when its calloc fails the rest of the nest is not parsed, but
\* parse_peers returns MNL_CB_OK all the same.
read_device_cb(peers, nests, callocs) ==
    peers \o [n \in 1 .. Len(callocs) |->
                [key |-> nests[n].key, aips |-> SubSeq(nests[n].aips, 1, callocs[n])]]

\* Mutant: first_allowedip is not set for a peer that had no allowed IP.
JoinWithoutHead(peer, next) == [key  |-> peer.key,
                                aips |-> IF peer.aips = << >> THEN << >> ELSE peer.aips \o next.aips,
                                tail |-> next.aips # << >>]

\* Mutant: last_allowedip is left as it was.
JoinKeepsTail(peer, next) == [key  |-> peer.key,
                              aips |-> peer.aips \o next.aips,
                              tail |-> peer.tail]

\* One round of coalesce_peers at its peer: next_peer has the same key.  Its
\* last_allowedip (tail) is NULL once a piece without allowed IPs was joined.
JoinNext(peer, next) == [key  |-> peer.key,
                         aips |-> peer.aips \o next.aips,
                         tail |-> next.aips # << >>]

\* A round of the loop: next is joined with the peer before it, or becomes
\* the peer the loop is at.
CoalesceNext(list, next) ==
    IF list # << >> /\ list[Len(list)].key = next.key
    THEN [list EXCEPT ![Len(list)] = JoinNext(@, next)]
    ELSE Append(list, [key |-> next.key, aips |-> next.aips, tail |-> next.aips # << >>])

\* The list after coalesce_peers; tail tells whether last_allowedip is set.
coalesce_peers(peers) ==
    LET list[n \in 0 .. Len(peers)] ==
          IF n = 0 THEN << >> ELSE CoalesceNext(list[n - 1], peers[n])
    IN  list[Len(peers)]

\* coalesce_peers follows last_allowedip of a peer that has allowed IPs.
FollowsNull(peers) ==
    \E n \in 1 .. Len(peers) - 1 :
       LET list == coalesce_peers(SubSeq(peers, 1, n))
           last == list[Len(list)]
       IN  last.key = peers[n + 1].key /\ last.aips # << >> /\ ~last.tail

\* What the caller reads from the list.
Contents(list) == [p \in 1 .. Len(list) |-> [key |-> list[p].key, aips |-> list[p].aips]]

-----------------------------------------------------------------------------
Init == /\ conf \in Configs
        /\ gen = 0
        /\ pc = "try_again" /\ ret = 0
        /\ device = NULL /\ nlg = FALSE /\ live = 0
        /\ sent = Start /\ more = TRUE /\ seen = -1 /\ snap = << >>
        /\ signals = 0 /\ oom = 0

Goto(label) == pc' = label

\* A system call fails, perhaps because a signal interrupted it.
Errno == \/ ret' = -EOTHER /\ UNCHANGED signals
         \/ signals < MaxSignal /\ signals' = signals + 1 /\ ret' = -EINTR

\* Mutant: the device is freed by its first peer's cleanup too.
FreesTwice == live' = live - 2

\* wg_free_device on a device.  It frees the peers and allowed IPs it walks
\* over as well: they have no count of their own, they are the list device.
wg_free_device == live' = live - 1

\* try_again: a fresh device.
TryAgain == /\ pc = "try_again"
            /\ \/ /\ UNCHANGED oom
                  /\ device' = << >> /\ live' = live + 1
                  /\ Goto("open")
                  /\ UNCHANGED ret
               \/ /\ oom < MaxOom /\ oom' = oom + 1
                  /\ device' = NULL /\ UNCHANGED live
                  /\ Goto("done")
                  /\ ret' = -EOTHER
            /\ UNCHANGED <<conf, gen, nlg, dump, signals>>

\* Mutant: the error path of mnlg_socket_open forgets the device.
OpenLeaks == /\ pc = "open"
             /\ \/ nlg' = TRUE /\ Goto("send") /\ UNCHANGED <<ret, device>>
                \/ device' = NULL /\ Goto("done") /\ ret' = -EOTHER /\ UNCHANGED nlg
             /\ UNCHANGED <<conf, gen, live, dump, signals, oom>>

\* mnlg_socket_open, or wg_free_device and an error.
Open == /\ pc = "open"
        /\ \/ /\ nlg' = TRUE
              /\ Goto("send")
              /\ UNCHANGED <<ret, device, live, signals>>
           \/ /\ device' = NULL /\ wg_free_device
              /\ Errno /\ Goto("done")
              /\ UNCHANGED nlg
        /\ UNCHANGED <<conf, gen, dump, oom>>

\* mnlg_socket_send: the kernel starts a dump.
Send == /\ pc = "send"
        /\ \/ /\ Goto("recv")
              /\ sent' = Start /\ more' = TRUE /\ seen' = -1
              /\ UNCHANGED <<snap, ret, signals>>
           \/ /\ Errno /\ Goto("out")
              /\ UNCHANGED dump
        /\ UNCHANGED <<conf, gen, device, nlg, live, oom>>

\* recvmsg fails, or is interrupted by a signal.
RecvFail == /\ pc = "recv"
            /\ Errno /\ Goto("out")
            /\ UNCHANGED <<conf, gen, device, nlg, live, dump, oom>>

\* __mnl_cb_run on a message of the dump: the flag is looked at before the
\* message is parsed; an error of read_device_cb ends the call.
RecvData ==
    /\ pc = "recv"
    /\ more
    /\ snap' = IF seen = -1 THEN conf ELSE snap
    /\ \E to \in DumpEnds(conf, sent) :
       LET nests == DumpMessage(conf, sent, to)
       IN  /\ sent' = to /\ seen' = gen
           /\ more' = (Ahead(conf, to) # {})
           /\ IF Interrupted
              THEN /\ ret' = -EINTR /\ Goto("out") /\ UNCHANGED <<device, oom>>
              ELSE \E callocs \in Callocs(nests) :
                   /\ oom' = oom + Failed(nests, callocs)
                   /\ oom' <= MaxOom
                   /\ device' = read_device_cb(device, nests, callocs)
                   /\ IF PeerFails(nests, callocs)
                      THEN ret' = -EOTHER /\ Goto("out")
                      ELSE UNCHANGED ret /\ Goto("recv")
    /\ UNCHANGED <<conf, gen, nlg, live, signals>>

\* NLMSG_DONE ends mnlg_socket_recv_run; coalesce_peers follows at once.
RecvDone == /\ pc = "recv"
            /\ ~more
            /\ IF FollowsNull(device)
               THEN Goto("crashed") /\ UNCHANGED device
               ELSE Goto("out") /\ device' = Contents(coalesce_peers(device))
            /\ UNCHANGED <<conf, gen, ret, nlg, live, dump, signals, oom>>

\* Mutant: every error is tried again.
RetryAlways == ret # 0

\* The condition of goto try_again.
Retry == ret = -EINTR

\* out: the socket is closed; on an error the device is freed, and an
\* interrupted dump is tried again.
Out == /\ pc = "out"
       /\ nlg' = FALSE
       /\ IF ret = 0 THEN Goto("done") /\ UNCHANGED <<device, live>>
          ELSE /\ wg_free_device
               /\ IF Retry THEN Goto("try_again") /\ UNCHANGED device
                  ELSE Goto("done") /\ device' = NULL
       /\ UNCHANGED <<conf, gen, ret, dump, signals, oom>>

Call == TryAgain \/ Open \/ Send \/ RecvFail \/ RecvData \/ RecvDone \/ Out

Next == Call \/ Change

Spec == Init /\ [][Next]_vars

\* The calling thread runs, and the kernel goes on with a dump it started.
FairSpec == Spec /\ WF_vars(Call)
-----------------------------------------------------------------------------
\* The variables keep their types, and a device is in memory wherever the
\* callbacks write to it.
TypeOK == /\ conf \in Configs /\ gen \in 0 .. MaxChange
          /\ pc \in {"try_again", "open", "send", "recv", "out", "crashed", "done"}
          /\ ret \in {0, -EINTR, -EOTHER}
          /\ pc \in {"open", "send", "recv"} => device # NULL
          /\ device \in Seq(Peer) \cup {NULL}
          /\ nlg \in BOOLEAN /\ live \in 0 .. 1
          /\ sent \in Nat \X Nat /\ more \in BOOLEAN /\ seen \in -1 .. gen
          /\ signals \in 0 .. MaxSignal /\ oom \in 0 .. MaxOom

\* A device that is returned is one the kernel held when the dump began, and
\* not a mixture of two, however the kernel cut it and whenever it changed.
ReturnsSnapshot == pc = "done" /\ ret = 0 /\ oom = 0 => device = snap

Entries(s) == {s[i] : i \in DOMAIN s}

\* Even when an allocation failed, the peers of a returned device are all the
\* kernel's, and no allowed IP stands with a peer that does not own it.
ReturnsNoForeignIp ==
    pc = "done" /\ ret = 0 =>
       /\ Len(device) = Len(snap)
       /\ \A p \in 1 .. Len(device) :
             /\ device[p].key = snap[p].key
             /\ Entries(device[p].aips) \subseteq Entries(snap[p].aips)

\* When the call has returned, the socket is closed on every path, and a
\* device is allocated exactly if the call succeeded.
NothingLeaks == pc = "done" => ~nlg /\ live = IF ret = 0 THEN 1 ELSE 0

\* coalesce_peers joins the pieces the kernel makes without following the
\* NULL last_allowedip of a piece that has no allowed IP.  It does not hold
\* after a calloc failed: a piece that lost its allowed IPs is joined, and the
\* piece after it is written through the NULL it left.
CoalesceSafe == oom = 0 => pc # "crashed"

\* wg_get_device comes to an end if its dumps are not interrupted.
ReturnsIfCalm == [](ret # -EINTR) => <>(pc \in {"done", "crashed"})

-----------------------------------------------------------------------------
\* What the callers of wg_get_device rely on.

\* wg_get_device returns once the device is left alone and no signal comes:
\* an interruption costs a retry and not the call.
Returns == <>(pc \in {"done", "crashed"})
=============================================================================
