---------------------------- MODULE MCWgSetDevice ----------------------------
(***************************************************************************)
(* wg_set_device on devices of up to two peers, and on the one with three  *)
(* allowed IPs to a peer.  The buffer is so small that a message is cut    *)
(* in the middle of a peer, between two peers, and before the nest of the  *)
(* allowed IPs.                                                            *)
(***************************************************************************)
EXTENDS WgSetDevice

CONSTANTS k1, k2, i1, i2, i3, psk

MCIpSize == [ip \in Ip |-> IF ip = i1 THEN 3 ELSE 2]

MCPeers(keys, aips) ==
    [key: keys, remove: BOOLEAN, replace: BOOLEAN, attrs: Attr \cup {Unset}, aips: aips]

MCDevices ==
    LET lists == { << >>, <<i2, i1>>, <<i1, i2, i3>>, <<i2, i3, i2, i1>> }
        firsts == {<<p>> : p \in MCPeers({k1}, lists)}
        seconds == {p \in MCPeers({k1, k2}, {<< >>, <<i2, i1>>}) : p.attrs = psk /\ (p.remove => ~p.replace)}
    IN  [replace: BOOLEAN, peers: {<< >>} \cup firsts \cup {f \o <<s>> : f \in firsts, s \in seconds}]

\* No peer; k1 with two allowed IPs; k1 without, beside k2 which has one of them.
MCKernels ==
    LET holds(attrs, owner) == [dev |-> FALSE, attrs |-> attrs, owner |-> owner]
    IN  { holds([k \in Key |-> Absent], [ip \in Ip |-> NoPeer]),
          holds([k \in Key |-> IF k = k1 THEN psk ELSE Absent],
                [ip \in Ip |-> IF ip = i3 THEN NoPeer ELSE k1]),
          holds([k \in Key |-> Unset], [ip \in Ip |-> IF ip = i1 THEN k2 ELSE NoPeer]) }
=============================================================================
