----------------------------- MODULE MCReresolve -----------------------------
(***************************************************************************)
(* Three peers, the second of which has no Endpoint (it is the one that    *)
(* calls), with the [Interface] between them.                              *)
(***************************************************************************)
EXTENDS Reresolve

CONSTANTS p1, p2, p3, n1, n2, n3

MCPeer == {p1, p2, p3}
MCName == {n1, n2, n3}
MCHome == [p \in MCPeer |-> IF p = p1 THEN n1 ELSE IF p = p2 THEN n2 ELSE n3]
MCMoves == [n \in MCName |-> IF n = n2 THEN 0 ELSE 1]
L(key, value) == [key |-> key, value |-> value]
MCConf == << L("[Peer]", Null), L("Endpoint", n1), L("PublicKey", p1),
             L("[Peer]", Null), L("PublicKey", p2), L("AllowedIPs", Null),
             L("[Interface]", Null), L("PrivateKey", Null),
             L("[Peer]", Null), L("PublicKey", p3), L("Endpoint", n3) >>
=============================================================================
