------------------------------ MODULE WgKernel ------------------------------
(***************************************************************************)
(* The in-kernel WireGuard device, as wireguard.c uses it.  The kernel is  *)
(* not part of the repository: what a WG_CMD_SET_DEVICE message does to a  *)
(* device is modelled from the attributes and flags wg_set_device sends    *)
(* and from the ones the parse_* callbacks expect back.                    *)
(*                                                                         *)
(* A device configuration (struct wg_device) is a record                   *)
(*   replace  WGDEVICE_REPLACE_PEERS is set                                *)
(*   peers    the list first_peer .. next_peer, as a sequence of records   *)
(*      key      public_key                                                *)
(*      remove   WGPEER_REMOVE_ME is set                                   *)
(*      replace  WGPEER_REPLACE_ALLOWEDIPS is set                          *)
(*      attrs    preshared key, endpoint and keepalive interval; Unset     *)
(*               when the peer carries none of them                        *)
(*      aips     the list first_allowedip .. next_allowedip                *)
(***************************************************************************)
EXTENDS Integers, Sequences

CONSTANTS Key,      \* public keys
          Ip,       \* allowed IPs (address and mask)
          Attr,     \* values of the optional attributes of a peer
          Unset,    \* no optional attribute is present
          Absent,   \* a key the device has no peer for
          NoPeer    \* an allowed IP that belongs to no peer

ASSUME UnsetAssumption == Unset \notin Attr
ASSUME AbsentAssumption == Absent \notin Attr \cup {Unset}
ASSUME NoPeerAssumption == NoPeer \notin Key

Peer == [key: Key, remove: BOOLEAN, replace: BOOLEAN,
         attrs: Attr \cup {Unset}, aips: Seq(Ip)]

Device == [replace: BOOLEAN, peers: Seq(Peer)]

(***************************************************************************)
(* The kernel's own state: whether the device attributes of the call have  *)
(* been set, the attributes of every peer, and the allowed-IPs table, in   *)
(* which an IP belongs to at most one peer.                                *)
(***************************************************************************)
Kernel == [dev: BOOLEAN,
           attrs: [Key -> Attr \cup {Unset, Absent}],
           owner: [Ip -> Key \cup {NoPeer}]]

\* A device before the call: an allowed IP belongs to a peer the device has.
Consistent(k) == \A ip \in Ip : k.owner[ip] # NoPeer => k.attrs[k.owner[ip]] # Absent
KernelBefore == {k \in Kernel : ~k.dev /\ Consistent(k)}

\* The allowed IPs of the peers in keys are dropped from the table.
Disown(owner, keys) == [ip \in Ip |-> IF owner[ip] \in keys THEN NoPeer ELSE owner[ip]]

(***************************************************************************)
(* What wg_set_device puts in a message, one token per nest: <<0, 0>> is   *)
(* the device's attributes, <<p, 0>> a peer nest with every attribute of   *)
(* peer p, <<p, -1>> the peer nest that continues p in a later message     *)
(* (public key and WGPEER_REMOVE_ME only), <<p, a>> the a-th allowed IP    *)
(* of p.                                                                   *)
(***************************************************************************)
DeviceToken == <<0, 0>>
PeerToken(p) == <<p, 0>>
ContinueToken(p) == <<p, -1>>
AllowedipToken(p, a) == <<p, a>>

SetDevice(dev, k) ==
    [k EXCEPT !.dev = TRUE,
              !.attrs = IF dev.replace THEN [key \in Key |-> Absent] ELSE @,
              !.owner = IF dev.replace THEN Disown(@, Key) ELSE @]

\* The flags and the attributes in a nest of a peer: WGPEER_F_REMOVE_ME is in
\* every one of them, the rest only in the first, which is full.
PeerFlagsEveryNest(peer, full) == [remove |-> peer.remove, replace |-> peer.replace]
PeerFlags(peer, full) == [remove |-> peer.remove, replace |-> full /\ peer.replace]
PeerAttrs(peer, full) == IF full THEN peer.attrs ELSE Unset

\* A peer nest: a peer the device does not have is created, unless the nest
\* asks for its removal.
SetPeer(key, flags, attrs, k) ==
    IF flags.remove
    THEN [k EXCEPT !.attrs[key] = Absent,
                   !.owner = Disown(@, {key})]
    ELSE [k EXCEPT !.attrs[key] = IF attrs # Unset THEN attrs
                                  ELSE IF @ = Absent THEN Unset ELSE @,
                   !.owner = IF flags.replace THEN Disown(@, {key}) ELSE @]

\* An allowed IP moves to the peer of the nest it stands in, from whichever
\* peer had it; the rest of the nest of a removed peer is not read.
SetAllowedip(peer, ip, k) ==
    IF peer.remove THEN k ELSE [k EXCEPT !.owner[ip] = peer.key]

SetToken(dev, k, token) ==
    LET p == token[1]
        a == token[2]
    IN  IF token = DeviceToken THEN SetDevice(dev, k)
        ELSE IF a > 0 THEN SetAllowedip(dev.peers[p], dev.peers[p].aips[a], k)
        ELSE SetPeer(dev.peers[p].key, PeerFlags(dev.peers[p], a = 0), PeerAttrs(dev.peers[p], a = 0), k)

\* The tokens of a message take effect in their order.
SetTokens(dev, k, tokens) ==
    LET after[n \in 0 .. Len(tokens)] ==
          IF n = 0 THEN k ELSE SetToken(dev, after[n - 1], tokens[n])
    IN  after[Len(tokens)]
=============================================================================
