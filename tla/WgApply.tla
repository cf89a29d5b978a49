------------------------------ MODULE WgApply ------------------------------
(***************************************************************************)
(* What wg_set_device promises, with no word of messages, buffers or       *)
(* cursors: the kernel takes the device's attributes, then each peer and   *)
(* its allowed IPs in the order of the caller's lists, each exactly once.  *)
(* The call may stop early with an error; it succeeds only when nothing is *)
(* left to apply.                                                          *)
(***************************************************************************)
EXTENDS WgKernel

CONSTANTS Devices,  \* the configurations a caller may ask for
          Kernels   \* the states the device may be in before the call

VARIABLES dev,      \* the caller's configuration
          kernel,   \* the kernel's device
          n,        \* how many items of the configuration it has taken
          outcome   \* "running", "success" or "error"

vars == <<dev, kernel, n, outcome>>

\* The whole configuration in one list.
PeerItems(d, p) == <<PeerToken(p)>> \o [a \in 1 .. Len(d.peers[p].aips) |-> AllowedipToken(p, a)]
Items(d) ==
    LET upto[p \in 0 .. Len(d.peers)] ==
          IF p = 0 THEN <<DeviceToken>> ELSE upto[p - 1] \o PeerItems(d, p)
    IN  upto[Len(d.peers)]

Init == /\ dev \in Devices
        /\ kernel \in Kernels
        /\ n = 0
        /\ outcome = "running"

\* The kernel takes the next few items.
Take == /\ outcome = "running"
        /\ \E m \in n + 1 .. Len(Items(dev)) :
              /\ n' = m
              /\ kernel' = SetTokens(dev, kernel, SubSeq(Items(dev), n + 1, m))
        /\ UNCHANGED <<dev, outcome>>

Succeed == /\ outcome = "running"
           /\ n = Len(Items(dev))
           /\ outcome' = "success"
           /\ UNCHANGED <<dev, kernel, n>>

Fail == /\ outcome = "running"
        /\ outcome' = "error"
        /\ UNCHANGED <<dev, kernel, n>>

Next == Take \/ Succeed \/ Fail

Spec == Init /\ [][Next]_vars
=============================================================================
