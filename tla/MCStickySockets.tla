--------------------------- MODULE MCStickySockets ---------------------------
(***************************************************************************)
(* Two addresses of each family on two interfaces, and a remote of each,    *)
(* one of them with port 0.                                                *)
(***************************************************************************)
EXTENDS StickySockets

CONSTANTS a4, b4, a6, b6, r4, r6, z6

MCLocal == {a4, b4, a6, b6}
MCRemote == {r4, r6, z6}
MCFamily == [a \in MCLocal \cup MCRemote |-> IF a \in {a4, b4, r4} THEN 4 ELSE 6]
=============================================================================
