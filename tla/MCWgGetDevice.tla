---------------------------- MODULE MCWgGetDevice ----------------------------
(***************************************************************************)
(* wg_get_device against kernel devices of up to two peers with up to      *)
(* three allowed IPs, cut into messages at every possible place.           *)
(***************************************************************************)
EXTENDS WgGetDevice

CONSTANTS k1, k2, i1, i2, i3

MCKey == {k1, k2}
MCIp == {i1, i2, i3}

MCConfigs ==
    LET peer(k, l) == [key |-> k, aips |-> l]
    IN  { << >>,
          <<peer(k1, <<i1>>), peer(k2, << >>)>>,
          <<peer(k1, <<i1, i2, i3>>)>>,
          <<peer(k1, <<i3, i1>>), peer(k2, <<i2>>)>>,
          <<peer(k2, <<i1, i2>>)>> }
=============================================================================
