------------------------------ MODULE MCNatPunch ------------------------------
(***************************************************************************)
(* Two clients that know each other, and a third that knows both, with a   *)
(* table that has room for two.                                            *)
(***************************************************************************)
EXTENDS NatPunch

CONSTANTS c1, c2, c3

MCClient == {c1, c2, c3}
MCPeers == [c \in MCClient |-> IF c = c1 THEN <<c2>> ELSE IF c = c2 THEN <<c1>> ELSE <<c1, c2>>]
=============================================================================
