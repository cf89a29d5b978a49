----------------------------- MODULE WgSetDevice -----------------------------
(***************************************************************************)
(* wg_set_device (embeddable-wg-library/wireguard.c).  A configuration is  *)
(* sent in as many netlink messages as it takes.  Each message is built in *)
(* a buffer of mnl_ideal_socket_buffer_size() bytes; the cursors peer and  *)
(* allowedip say where to resume, and the next message goes out when the   *)
(* kernel has acknowledged the one before.                                 *)
(*                                                                         *)
(* A nest whose attributes do not all fit is cancelled as a whole, so the  *)
(* per-attribute checks of mnl_attr_put_check amount to one check of the   *)
(* nest's total size.                                                      *)
(***************************************************************************)
EXTENDS WgKernel, FiniteSets

CONSTANTS Devices,      \* the configurations a caller may ask for
          Kernels,      \* the states the device may be in before the call
          BufSize,      \* mnl_ideal_socket_buffer_size()
          MsgSize,      \* message headers and WGDEVICE_A_IFNAME
          DevSize,      \* the other device attributes
          NestSize,     \* header of a nested attribute
          KeySize,      \* WGPEER_A_PUBLIC_KEY
          AttrSize,     \* WGPEER_A_PRESHARED_KEY, _ENDPOINT, _KEEPALIVE_INTERVAL
          FlagSize,     \* WGPEER_A_FLAGS
          IpSize        \* a function: the nest of an allowed IP, by family

ASSUME DevicesAssumption == Devices \subseteq Device
ASSUME KernelsAssumption == Kernels \subseteq KernelBefore

ASSUME SizeAssumption ==
    /\ {BufSize, MsgSize, DevSize, NestSize, KeySize, AttrSize, FlagSize} \subseteq Nat
    /\ IpSize \in [Ip -> Nat \ {0}]

\* The buffer has at least one page, which holds the device attributes and a
\* whole peer nest, and the nest that continues a peer and an allowed IP.
ASSUME PageAssumption ==
    /\ MsgSize + DevSize + 2 * NestSize + KeySize + AttrSize + FlagSize <= BufSize
    /\ \A ip \in Ip : MsgSize + 3 * NestSize + KeySize + FlagSize + IpSize[ip] <= BufSize

VARIABLES dev,        \* the caller's device
          pc,         \* where wg_set_device is
          peer,       \* cursor into the peers, 0 for NULL
          allowedip,  \* cursor into the allowed IPs of that peer, 0 for NULL
          nlh,        \* the message being built or in flight, as its tokens
          len,        \* nlh->nlmsg_len
          ret,        \* the value to return
          kernel,     \* the kernel's device
          applied     \* history: the items the kernel has taken

cursors == <<peer, allowedip>>
vars == <<dev, pc, cursors, nlh, len, ret, kernel, applied>>

-----------------------------------------------------------------------------
NPeers == Len(dev.peers)
Aips(p) == dev.peers[p].aips

\* Only the first nest of a peer carries its attributes; the one that
\* continues it carries WGPEER_A_FLAGS for REMOVE_ME alone.
PeerSize(p, full) ==
    LET flags == PeerFlags(dev.peers[p], full)
    IN  NestSize + KeySize
        + (IF PeerAttrs(dev.peers[p], full) # Unset THEN AttrSize ELSE 0)
        + (IF flags.remove \/ flags.replace THEN FlagSize ELSE 0)

\* mnl_attr_put_check and mnl_attr_nest_start_check.
FitsBeforePut(size) == len < BufSize
FitsStrictly(size) == len + size < BufSize
Fits(size) == len + size <= BufSize

Put(token, size) == /\ nlh' = Append(nlh, token)
                    /\ len' = len + size

NoPut == UNCHANGED <<nlh, len>>

Goto(label) == pc' = label

Init == /\ dev \in Devices
        /\ kernel \in Kernels
        /\ pc = "open"
        /\ peer = 0 /\ allowedip = 0
        /\ nlh = << >> /\ len = 0
        /\ ret = 0
        /\ applied = {}

\* mnlg_socket_open; on failure nothing has been sent.
Open == /\ pc = "open"
        /\ \/ Goto("again") /\ UNCHANGED ret
           \/ Goto("done") /\ ret' = -1
        /\ UNCHANGED <<dev, cursors, nlh, len, kernel, applied>>

\* again: a fresh message.  The device's own attributes are in the first one.
AgainDevice == /\ pc = "again"
               /\ nlh' = <<DeviceToken>>
               /\ len' = MsgSize + DevSize + (IF NPeers = 0 THEN 0 ELSE NestSize)
               /\ peer' = IF peer = 0 /\ NPeers > 0 THEN 1 ELSE peer
               /\ Goto(IF NPeers = 0 THEN "send" ELSE "peer")
               /\ UNCHANGED <<dev, allowedip, ret, kernel, applied>>
Again == /\ pc = "again"
         /\ nlh' = IF peer = 0 THEN <<DeviceToken>> ELSE << >>
         /\ len' = MsgSize + (IF peer = 0 THEN DevSize ELSE 0)
                           + (IF NPeers = 0 THEN 0 ELSE NestSize)
         /\ peer' = IF peer = 0 /\ NPeers > 0 THEN 1 ELSE peer
         /\ Goto(IF NPeers = 0 THEN "send" ELSE "peer")
         /\ UNCHANGED <<dev, allowedip, ret, kernel, applied>>

\* peer = peer->next_peer, and the end of the loop.
NextPeerPastEnd == peer' = peer + 1 /\ Goto(IF peer < NPeers THEN "peer" ELSE "send")
NextPeer == /\ peer' = IF peer < NPeers THEN peer + 1 ELSE 0
            /\ Goto(IF peer < NPeers THEN "peer" ELSE "send")

\* The peer nest.
PutPeer ==
    /\ pc = "peer"
    /\ LET full == allowedip = 0
       IN  /\ Fits(PeerSize(peer, full))
           /\ Put(IF full THEN PeerToken(peer) ELSE ContinueToken(peer), PeerSize(peer, full))
    /\ IF Aips(peer) = << >>
       THEN NextPeer /\ UNCHANGED allowedip
       ELSE /\ allowedip' = IF allowedip = 0 THEN 1 ELSE allowedip
            /\ Goto("nest")
            /\ UNCHANGED peer
    /\ UNCHANGED <<dev, ret, kernel, applied>>

\* toobig_peers: the peer nest is cancelled and the message sent without it.
ToobigPeers == /\ pc = "peer"
               /\ ~Fits(PeerSize(peer, allowedip = 0))
               /\ Goto("send")
               /\ NoPut
               /\ UNCHANGED <<dev, cursors, ret, kernel, applied>>

\* The nest of the allowed IPs.
NestAllowedips == /\ pc = "nest"
                  /\ Fits(NestSize)
                  /\ len' = len + NestSize
                  /\ Goto("allowedip")
                  /\ UNCHANGED <<dev, cursors, nlh, ret, kernel, applied>>

\* One allowed IP; the last one ends the nest and the peer.
PutAllowedipKeepsCursor ==
    /\ pc = "allowedip"
    /\ Fits(IpSize[Aips(peer)[allowedip]])
    /\ Put(AllowedipToken(peer, allowedip), IpSize[Aips(peer)[allowedip]])
    /\ IF allowedip < Len(Aips(peer))
       THEN allowedip' = allowedip + 1 /\ UNCHANGED <<pc, peer>>
       ELSE UNCHANGED allowedip /\ NextPeer
    /\ UNCHANGED <<dev, ret, kernel, applied>>
PutAllowedip ==
    /\ pc = "allowedip"
    /\ Fits(IpSize[Aips(peer)[allowedip]])
    /\ Put(AllowedipToken(peer, allowedip), IpSize[Aips(peer)[allowedip]])
    /\ IF allowedip < Len(Aips(peer))
       THEN allowedip' = allowedip + 1 /\ UNCHANGED <<pc, peer>>
       ELSE allowedip' = 0 /\ NextPeer
    /\ UNCHANGED <<dev, ret, kernel, applied>>

\* toobig_allowedips: the nest of the allowed IP is cancelled, the others are
\* ended, and the message is sent.
ToobigAllowedips ==
    /\ \/ pc = "nest" /\ ~Fits(NestSize)
       \/ pc = "allowedip" /\ ~Fits(IpSize[Aips(peer)[allowedip]])
    /\ Goto("send")
    /\ NoPut
    /\ UNCHANGED <<dev, cursors, ret, kernel, applied>>

\* mnlg_socket_send.
Send == /\ pc = "send"
        /\ \/ Goto("sent") /\ UNCHANGED ret
           \/ Goto("done") /\ ret' = -1
        /\ UNCHANGED <<dev, cursors, nlh, len, kernel, applied>>

\* The items of a message: what is in it besides continuations.
ItemsOf(tokens) == {tokens[i] : i \in {j \in 1 .. Len(tokens) : tokens[j][2] >= 0}}

\* The kernel handles the message under its own lock, to the end or up to the
\* token it refuses.
KernelHandle ==
    /\ pc = "sent"
    /\ \E m \in 0 .. Len(nlh) :
          /\ kernel' = SetTokens(dev, kernel, SubSeq(nlh, 1, m))
          /\ applied' = applied \cup ItemsOf(SubSeq(nlh, 1, m))
          /\ Goto(IF m = Len(nlh) THEN "acked" ELSE "refused")
    /\ UNCHANGED <<dev, cursors, nlh, len, ret>>

\* mnlg_socket_recv_run: the acknowledgement arrives and the next message is
\* built if a peer is left, or an error is reported, or receiving fails.
RecvOnce == /\ pc \in {"acked", "refused"}
            /\ Goto("done")
            /\ ret' = IF pc = "acked" THEN 0 ELSE -1
            /\ UNCHANGED <<dev, cursors, nlh, len, kernel, applied>>
Recv == /\ \/ /\ pc = "acked"
              /\ Goto(IF peer = 0 THEN "done" ELSE "again")
              /\ UNCHANGED ret
           \/ /\ pc \in {"acked", "refused"}
              /\ Goto("done")
              /\ ret' = -1
        /\ UNCHANGED <<dev, cursors, nlh, len, kernel, applied>>

Compose == Again \/ PutPeer \/ ToobigPeers \/ NestAllowedips \/ PutAllowedip \/ ToobigAllowedips

Next == Open \/ Compose \/ Send \/ KernelHandle \/ Recv

Spec == Init /\ [][Next]_vars

\* The calling thread runs on, and the kernel answers every request.
FairSpec == Spec /\ WF_vars(Next)
-----------------------------------------------------------------------------
Labels == {"open", "again", "peer", "nest", "allowedip", "send", "sent", "acked", "refused", "done"}

Tokens == Nat \X Int

\* Everything the caller asked for, and the part of it before a position.
AllItems == {DeviceToken} \cup UNION {{p} \X (0 .. Len(Aips(p))) : p \in 1 .. NPeers}
Upto(p, a) == {t \in AllItems : t[1] < p \/ (t[1] = p /\ t[2] < a)}

\* What the messages built so far should hold, given the two cursors.
Reached ==
    IF pc = "open" \/ (pc = "again" /\ peer = 0) THEN {}
    ELSE Upto(IF peer = 0 THEN NPeers + 1 ELSE peer, allowedip)

\* Every variable keeps the type its C declaration gives it, and the cursors
\* point into the caller's lists wherever wg_set_device dereferences them.
TypeOK == /\ dev \in Devices
          /\ pc \in Labels
          /\ peer \in 0 .. NPeers
          /\ pc = "open" => peer = 0
          /\ pc \in {"peer", "nest", "allowedip"} => peer # 0
          /\ allowedip \in IF peer = 0 THEN {0} ELSE 0 .. Len(Aips(peer))
          /\ pc \in {"nest", "allowedip"} => allowedip # 0
          /\ nlh \in Seq(Tokens)
          /\ len \in Nat
          /\ ret \in {0, -1}
          /\ applied \subseteq Tokens

\* No message outgrows the buffer mnlg_socket_open allocated for it, although
\* the device attributes and the nest of the peers are put unchecked.
MessageFits == len <= BufSize

\* The messages built by wg_set_device hold every item up to the cursors, no
\* item is in two messages or twice in one, whatever the points at which the
\* buffer filled up.
EachItemOnce ==
    /\ pc \in {"open", "again", "acked"} => applied = Reached
    /\ pc \in {"peer", "nest", "allowedip", "send", "sent"} =>
          /\ applied \cup ItemsOf(nlh) = Reached
          /\ applied \cap ItemsOf(nlh) = {}
          /\ \A i, j \in 1 .. Len(nlh) : nlh[i] = nlh[j] => i = j

\* wg_set_device returns 0 only when the kernel has taken the whole of the
\* caller's configuration.
SuccessIsComplete == pc = "done" /\ ret = 0 => applied = AllItems

\* A peer nest without the peer's attributes is only ever the first nest of a
\* message: "continue" never stands for a peer that was not started before.
ContinuesFirst ==
    \A i \in 1 .. Len(nlh) : nlh[i][2] = -1 => i = 1 /\ PeerToken(nlh[i][1]) \in applied

\* The inductive invariant behind these: a peer is resumed in an empty message.
ResumesAlone == pc = "peer" /\ allowedip # 0 => nlh = << >>
Cursors == TypeOK /\ MessageFits /\ EachItemOnce /\ ContinuesFirst /\ ResumesAlone

\* The items of the configuration are applied in the caller's order, however
\* they were cut into messages: wg_set_device implements WgApply.
Outcome == IF pc # "done" THEN "running" ELSE IF ret = 0 THEN "success" ELSE "error"
Apply == INSTANCE WgApply WITH n <- Cardinality(applied), outcome <- Outcome
AppliesInOrder == Apply!Spec

\* wg_set_device comes to an end: each message carries the cursors forward.
Termination == <>(pc = "done")
=============================================================================
