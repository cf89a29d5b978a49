------------------------- MODULE WgSetDeviceProofs -------------------------
(***************************************************************************)
(* Proofs about wg_set_device, for every device, every size of buffer and  *)
(* every size of attribute that WgSetDevice assumes.                       *)
(***************************************************************************)
EXTENDS WgSetDevice, TLAPS

-----------------------------------------------------------------------------
\* The caller's lists: their lengths are natural numbers, their entries peers.
LEMMA DeviceTypes ==
    ASSUME TypeOK
    PROVE  /\ dev.peers \in Seq(Peer)
           /\ NPeers \in Nat
           /\ \A p \in 1 .. NPeers : /\ Aips(p) \in Seq(Ip)
                                     /\ Len(Aips(p)) \in Nat
                                     /\ \A a \in 1 .. Len(Aips(p)) : Aips(p)[a] \in Ip
<1>1. dev \in Device
  BY DevicesAssumption DEF TypeOK
<1>2. dev.peers \in Seq(Peer)
  BY <1>1 DEF Device
<1>3. ASSUME NEW p \in 1 .. NPeers
      PROVE  Aips(p) \in Seq(Ip)
  <2>1. dev.peers[p] \in Peer
    BY <1>2 DEF NPeers
  <2>2. QED
    BY <2>1 DEF Peer, Aips
<1>4. QED
  BY <1>2, <1>3 DEF NPeers

\* An item of a message joins the items of the message, a continuation does not.
LEMMA ItemsOfAppend ==
    ASSUME NEW s \in Seq(Tokens), NEW t \in Tokens
    PROVE  ItemsOf(Append(s, t)) = IF t[2] >= 0 THEN ItemsOf(s) \cup {t} ELSE ItemsOf(s)
<1>1. /\ Len(Append(s, t)) = Len(s) + 1
      /\ Len(s) \in Nat
      /\ \A i \in 1 .. Len(s) : Append(s, t)[i] = s[i]
      /\ Append(s, t)[Len(s) + 1] = t
  OBVIOUS
<1>2. QED
  BY <1>1 DEF ItemsOf

\* The position after <<p, a>> covers exactly one item more.
LEMMA UptoNext ==
    ASSUME TypeOK, NEW p \in 1 .. NPeers, NEW a \in 0 .. Len(Aips(p))
    PROVE  /\ Upto(p, a + 1) = Upto(p, a) \cup {<<p, a>>}
           /\ <<p, a>> \notin Upto(p, a)
           /\ a = Len(Aips(p)) => Upto(p + 1, 0) = Upto(p, a + 1)
<1>1. NPeers \in Nat /\ \A q \in 1 .. NPeers : Len(Aips(q)) \in Nat
  BY DeviceTypes
<1>2. <<p, a>> \in AllItems
  BY DEF AllItems
<1>3. ASSUME NEW t \in AllItems
      PROVE  /\ t = <<t[1], t[2]>>
             /\ t[1] \in Nat
             /\ t[2] \in Nat
             /\ t[1] = p => t[2] <= Len(Aips(p))
  BY <1>1 DEF AllItems, DeviceToken
<1>4. Upto(p, a + 1) = Upto(p, a) \cup {<<p, a>>}
  BY <1>1, <1>2, <1>3 DEF Upto
<1>5. <<p, a>> \notin Upto(p, a)
  BY <1>1 DEF Upto
<1>6. a = Len(Aips(p)) => Upto(p + 1, 0) = Upto(p, a + 1)
  BY <1>1, <1>3 DEF Upto
<1>7. QED
  BY <1>4, <1>5, <1>6

\* Past the last peer everything is covered.
LEMMA UptoEnd ==
    ASSUME TypeOK
    PROVE  Upto(NPeers + 1, 0) = AllItems
BY DeviceTypes DEF Upto, AllItems, DeviceToken

\* Before the first peer only the device's attributes are.
LEMMA UptoStart ==
    ASSUME TypeOK
    PROVE  Upto(1, 0) = {DeviceToken}
BY DeviceTypes DEF Upto, AllItems, DeviceToken

-----------------------------------------------------------------------------
\* wg_set_device starts with nothing sent and the cursors NULL.
LEMMA CursorsInit == Init => Cursors
<1> SUFFICES ASSUME Init
             PROVE  Cursors
  OBVIOUS
<1>1. NPeers \in Nat
  BY DevicesAssumption DEF Init, Device, NPeers
<1>2. TypeOK
  BY <1>1 DEF Init, TypeOK, Labels
<1>3. MessageFits
  BY SizeAssumption DEF Init, MessageFits
<1>4. EachItemOnce /\ ContinuesFirst /\ ResumesAlone
  BY DEF Init, EachItemOnce, ContinuesFirst, ResumesAlone, Reached
<1>5. QED
  BY <1>2, <1>3, <1>4 DEF Cursors

\* Every step keeps the types and the cursors inside the lists.
LEMMA TypeStep == TypeOK /\ [Next]_vars => TypeOK'
<1> SUFFICES ASSUME TypeOK, [Next]_vars
             PROVE  TypeOK'
  OBVIOUS
<1>0. /\ NPeers \in Nat
      /\ \A p \in 1 .. NPeers : /\ Len(Aips(p)) \in Nat
                                /\ Aips(p) = << >> <=> Len(Aips(p)) = 0
                                /\ \A a \in 1 .. Len(Aips(p)) : IpSize[Aips(p)[a]] \in Nat
  BY DeviceTypes, SizeAssumption
<1> USE <1>0
<1>1. CASE Open
  BY <1>1 DEF Open, Goto, TypeOK, NPeers, Aips, cursors, Labels
<1>2. CASE Again
  <2>1. NPeers' = NPeers /\ \A p : Aips(p)' = Aips(p)
    BY <1>2 DEF Again, NPeers, Aips
  <2>2. nlh' \in Seq(Tokens)
    BY <1>2 DEF Again, Tokens, DeviceToken
  <2>3. len' \in Nat
    BY <1>2, SizeAssumption DEF Again
  <2>4. QED
    BY <1>2, <2>1, <2>2, <2>3 DEF Again, Goto, TypeOK, Labels
<1>3. CASE PutPeer
  <2>1. PeerSize(peer, allowedip = 0) \in Nat
    BY SizeAssumption DEF PeerSize
  <2>2. peer \in 1 .. NPeers
    BY <1>3 DEF PutPeer, TypeOK
  <2>3. nlh' \in Seq(Tokens) /\ len' \in Nat
    BY <1>3, <2>1, <2>2 DEF PutPeer, Put, TypeOK, Tokens, PeerToken, ContinueToken
  <2>4. NPeers' = NPeers /\ \A p : Aips(p)' = Aips(p)
    BY <1>3 DEF PutPeer, NPeers, Aips
  <2>5. CASE Aips(peer) = << >>
    BY <1>3, <2>2, <2>3, <2>4, <2>5 DEF PutPeer, NextPeer, Goto, TypeOK, Labels
  <2>6. CASE Aips(peer) # << >>
    BY <1>3, <2>2, <2>3, <2>4, <2>6 DEF PutPeer, Goto, TypeOK, Labels
  <2>7. QED
    BY <2>5, <2>6
<1>4. CASE ToobigPeers
  BY <1>4 DEF ToobigPeers, NoPut, Goto, TypeOK, NPeers, Aips, cursors, Labels
<1>5. CASE NestAllowedips
  <2>1. len' \in Nat
    BY <1>5, SizeAssumption DEF NestAllowedips, TypeOK
  <2>2. /\ NPeers' = NPeers /\ \A p : Aips(p)' = Aips(p)
        /\ UNCHANGED <<dev, peer, allowedip, nlh, ret, applied>>
        /\ pc = "nest" /\ pc' = "allowedip"
    BY <1>5 DEF NestAllowedips, Goto, NPeers, Aips, cursors
  <2>3. QED
    BY <2>1, <2>2 DEF TypeOK, Labels
<1>6. CASE PutAllowedip
  <2>1. peer \in 1 .. NPeers /\ allowedip \in 1 .. Len(Aips(peer))
    BY <1>6 DEF PutAllowedip, TypeOK
  <2>2. nlh' \in Seq(Tokens) /\ len' \in Nat
    <3>1. AllowedipToken(peer, allowedip) \in Tokens
      BY <2>1 DEF AllowedipToken, Tokens
    <3>2. IpSize[Aips(peer)[allowedip]] \in Nat
      BY <2>1
    <3>3. /\ nlh' = Append(nlh, AllowedipToken(peer, allowedip))
          /\ len' = len + IpSize[Aips(peer)[allowedip]]
      BY <1>6 DEF PutAllowedip, Put
    <3>4. nlh' \in Seq(Tokens)
      BY <3>1, <3>3 DEF TypeOK
    <3>5. QED
      BY <3>2, <3>3, <3>4 DEF TypeOK
  <2>3. NPeers' = NPeers /\ \A p : Aips(p)' = Aips(p)
    BY <1>6 DEF PutAllowedip, NPeers, Aips
  <2>4. QED
    BY <1>6, <2>1, <2>2, <2>3 DEF PutAllowedip, NextPeer, Goto, TypeOK, Labels
<1>7. CASE ToobigAllowedips
  BY <1>7 DEF ToobigAllowedips, NoPut, Goto, TypeOK, NPeers, Aips, cursors, Labels
<1>8. CASE Send
  BY <1>8 DEF Send, Goto, TypeOK, NPeers, Aips, cursors, Labels
<1>9. CASE KernelHandle
  <2>1. applied' \subseteq Tokens
    BY <1>9 DEF KernelHandle, ItemsOf, TypeOK
  <2>2. QED
    BY <1>9, <2>1 DEF KernelHandle, Goto, TypeOK, NPeers, Aips, cursors, Labels
<1>10. CASE Recv
  BY <1>10 DEF Recv, Goto, TypeOK, NPeers, Aips, cursors, Labels
<1>11. CASE UNCHANGED vars
  BY <1>11 DEF vars, cursors, TypeOK, NPeers, Aips
<1>12. QED
  BY <1>1, <1>2, <1>3, <1>4, <1>5, <1>6, <1>7, <1>8, <1>9, <1>10, <1>11 DEF Next, Compose

\* No step builds a message larger than the buffer.
LEMMA FitsStep == TypeOK /\ MessageFits /\ [Next]_vars => MessageFits'
<1> SUFFICES ASSUME TypeOK, MessageFits, [Next]_vars
             PROVE  MessageFits'
  OBVIOUS
<1>1. CASE Again
  <2>1. /\ {MsgSize, DevSize, NestSize, KeySize, AttrSize, FlagSize, BufSize} \subseteq Nat
        /\ MsgSize + DevSize + 2 * NestSize + KeySize + AttrSize + FlagSize <= BufSize
    BY SizeAssumption, PageAssumption
  <2>2. MsgSize + DevSize + NestSize <= BufSize
    BY <2>1
  <2>3. len' <= MsgSize + DevSize + NestSize
    <3>1. /\ MsgSize \in Nat /\ DevSize \in Nat /\ NestSize \in Nat
      BY <2>1
    <3>2. \E d \in {0, DevSize}, n \in {0, NestSize} : len' = MsgSize + d + n
      BY <1>1 DEF Again
    <3>3. QED
      BY <3>1, <3>2
  <2>4. QED
    BY <1>1, <2>1, <2>2, <2>3 DEF Again, MessageFits
<1>2. CASE PutPeer
  BY <1>2 DEF PutPeer, Put, Fits, MessageFits
<1>3. CASE PutAllowedip
  BY <1>3 DEF PutAllowedip, Put, Fits, MessageFits
<1>4. CASE NestAllowedips
  BY <1>4 DEF NestAllowedips, Fits, MessageFits
<1>5. CASE ~(Again \/ PutPeer \/ PutAllowedip \/ NestAllowedips)
  BY <1>5 DEF MessageFits, Next, Compose, Open, ToobigPeers, ToobigAllowedips, NoPut,
              Send, KernelHandle, Recv, vars
<1>6. QED
  BY <1>1, <1>2, <1>3, <1>4, <1>5

\* The steps that neither build a message nor hand one to the kernel.
LEMMA QuietStep ==
    ASSUME Cursors, TypeOK',
           \/ Open \/ ToobigPeers \/ NestAllowedips \/ ToobigAllowedips
           \/ Send \/ Recv \/ UNCHANGED vars
    PROVE  EachItemOnce' /\ ContinuesFirst' /\ ResumesAlone'
<1> USE DEF Cursors
<1>1. /\ dev' = dev /\ cursors' = cursors /\ nlh' = nlh /\ applied' = applied
  BY DEF Open, ToobigPeers, NestAllowedips, ToobigAllowedips, Send, Recv, NoPut, cursors, vars
<1>2. ContinuesFirst'
  BY <1>1 DEF ContinuesFirst
<1>3. /\ NPeers' = NPeers
      /\ \A p, a : Upto(p, a)' = Upto(p, a)
      /\ peer' = peer /\ allowedip' = allowedip
  BY <1>1 DEF NPeers, Aips, AllItems, Upto, cursors
<1>4. ItemsOf(nlh)' = ItemsOf(nlh)
  BY <1>1
<1>5. EachItemOnce' /\ ResumesAlone'
  <2>1. CASE Open
    BY <2>1, <1>1, <1>3, <1>4 DEF Open, Goto, EachItemOnce, ResumesAlone, Reached, TypeOK
  <2>2. CASE ToobigPeers \/ NestAllowedips \/ ToobigAllowedips \/ Send
    <3>1. /\ pc \in {"peer", "nest", "allowedip", "send"}
          /\ pc' \in {"allowedip", "send", "sent", "done"}
      BY <2>2 DEF ToobigPeers, NestAllowedips, ToobigAllowedips, Send, Goto
    <3>2. Reached' = Reached
      BY <3>1, <1>3 DEF Reached
    <3>3. QED
      BY <3>1, <3>2, <1>1, <1>4 DEF EachItemOnce, ResumesAlone
  <2>3. CASE Recv
    BY <2>3, <1>1, <1>3, <1>4 DEF Recv, Goto, EachItemOnce, ResumesAlone, Reached
  <2>4. CASE UNCHANGED vars
    BY <2>4, <1>1, <1>3, <1>4 DEF vars, EachItemOnce, ResumesAlone, Reached
  <2>5. QED
    BY <2>1, <2>2, <2>3, <2>4
<1>6. QED
  BY <1>2, <1>5

\* A fresh message: the device's attributes in the first one, nothing yet in
\* the others.
LEMMA AgainStep ==
    ASSUME Cursors, Again
    PROVE  EachItemOnce' /\ ContinuesFirst' /\ ResumesAlone'
<1> USE DEF Cursors
<1>1. /\ NPeers' = NPeers
      /\ \A p, a : Upto(p, a)' = Upto(p, a)
      /\ applied' = applied /\ allowedip' = allowedip
  BY DEF Again, NPeers, Aips, AllItems, Upto
<1>2. NPeers \in Nat
  BY DeviceTypes
<1>3. CASE peer = 0
  <2>1. nlh' = <<DeviceToken>> /\ applied = {} /\ allowedip = 0
    BY <1>3 DEF Again, EachItemOnce, Reached, TypeOK
  <2>2. ItemsOf(nlh') = {DeviceToken}
    BY <2>1 DEF ItemsOf, DeviceToken
  <2>3. Reached' = {DeviceToken}
    <3>1. CASE NPeers = 0
      BY <1>1, <1>3, <2>1, <3>1, UptoStart DEF Again, Reached, Goto
    <3>2. CASE NPeers > 0
      BY <1>1, <1>2, <1>3, <2>1, <3>2, UptoStart DEF Again, Reached, Goto
    <3>3. QED
      BY <1>2, <3>1, <3>2
  <2>4. pc' \in {"send", "peer"}
    BY DEF Again, Goto
  <2>5. QED
    BY <1>1, <2>1, <2>2, <2>3, <2>4 DEF EachItemOnce, ContinuesFirst, ResumesAlone, DeviceToken
<1>4. CASE peer # 0
  <2>1. nlh' = << >> /\ peer' = peer /\ pc' = "peer"
    BY <1>2, <1>4 DEF Again, Goto, TypeOK
  <2>2. ItemsOf(nlh') = {}
    BY <2>1 DEF ItemsOf
  <2>3. applied = Reached /\ Reached' = Reached
    BY <1>1, <1>4, <2>1 DEF Again, EachItemOnce, Reached
  <2>4. QED
    BY <1>1, <2>1, <2>2, <2>3 DEF EachItemOnce, ContinuesFirst, ResumesAlone
<1>5. QED
  BY <1>3, <1>4

\* Appending a token that the message does not hold keeps its tokens distinct.
LEMMA AppendDistinct ==
    ASSUME NEW s \in Seq(Tokens), NEW t \in Tokens,
           \A i, j \in 1 .. Len(s) : s[i] = s[j] => i = j,
           \A i \in 1 .. Len(s) : s[i] # t
    PROVE  \A i, j \in 1 .. Len(Append(s, t)) : Append(s, t)[i] = Append(s, t)[j] => i = j
OBVIOUS

\* A token among the items covered so far is followed by the next one.
LEMMA PutStep ==
    ASSUME Cursors, pc \in {"peer", "allowedip"},
           NEW t \in Tokens, t[2] >= 0, t \notin Reached,
           nlh' = Append(nlh, t), applied' = applied, Reached' = Reached \cup {t},
           pc' \in {"peer", "nest", "allowedip", "send"},
           pc' = "peer" => allowedip' = 0
    PROVE  EachItemOnce' /\ ContinuesFirst' /\ ResumesAlone'
<1> USE DEF Cursors
<1>1. nlh \in Seq(Tokens)
  BY DEF TypeOK
<1>2. /\ applied \cup ItemsOf(nlh) = Reached
      /\ applied \cap ItemsOf(nlh) = {}
      /\ \A i, j \in 1 .. Len(nlh) : nlh[i] = nlh[j] => i = j
  BY DEF EachItemOnce
<1>3. ItemsOf(nlh') = ItemsOf(nlh) \cup {t}
  BY <1>1, ItemsOfAppend
<1>4. \A i \in 1 .. Len(nlh) : nlh[i] # t
  BY <1>1, <1>2 DEF ItemsOf
<1>5. \A i, j \in 1 .. Len(nlh') : nlh'[i] = nlh'[j] => i = j
  BY <1>1, <1>2, <1>4, AppendDistinct
<1>6. EachItemOnce'
  BY <1>2, <1>3, <1>5 DEF EachItemOnce
<1>7. ContinuesFirst'
  <2>1. /\ Len(nlh') = Len(nlh) + 1 /\ Len(nlh) \in Nat
        /\ \A i \in 1 .. Len(nlh) : nlh'[i] = nlh[i]
        /\ nlh'[Len(nlh) + 1] = t
    BY <1>1
  <2>2. t[2] # -1
    BY DEF Tokens
  <2>3. QED
    BY <2>1, <2>2 DEF ContinuesFirst
<1>8. QED
  BY <1>6, <1>7 DEF ResumesAlone

\* A peer nest: all of the peer, or the continuation of one started before.
LEMMA PutPeerStep ==
    ASSUME Cursors, PutPeer
    PROVE  EachItemOnce' /\ ContinuesFirst' /\ ResumesAlone'
<1> USE DEF Cursors
<1>1. /\ NPeers' = NPeers
      /\ \A p, a : Upto(p, a)' = Upto(p, a)
      /\ applied' = applied
  BY DEF PutPeer, NPeers, Aips, AllItems, Upto
<1>2. /\ NPeers \in Nat /\ peer \in 1 .. NPeers /\ pc = "peer"
      /\ Len(Aips(peer)) \in Nat /\ (Aips(peer) = << >> <=> Len(Aips(peer)) = 0)
  BY DeviceTypes DEF PutPeer, TypeOK
<1>3. Reached = Upto(peer, allowedip)
  BY <1>2 DEF Reached
<1>4. CASE allowedip = 0
  <2>1. /\ Upto(peer, 1) = Upto(peer, 0) \cup {PeerToken(peer)}
        /\ PeerToken(peer) \notin Upto(peer, 0)
        /\ Aips(peer) = << >> => Upto(peer + 1, 0) = Upto(peer, 1)
    BY <1>2, UptoNext DEF PeerToken
  <2>2. nlh' = Append(nlh, PeerToken(peer))
    BY <1>4 DEF PutPeer, Put
  <2>3. Reached' = Reached \cup {PeerToken(peer)}
    <3>1. CASE Aips(peer) # << >>
      BY <1>1, <1>2, <1>3, <1>4, <2>1, <3>1 DEF PutPeer, Goto, Reached
    <3>2. CASE Aips(peer) = << >>
      BY <1>1, <1>2, <1>3, <1>4, <2>1, <3>2 DEF PutPeer, NextPeer, Goto, Reached
    <3>3. QED
      BY <3>1, <3>2
  <2>4. /\ pc' \in {"peer", "nest", "send"}
        /\ pc' = "peer" => allowedip' = 0
    BY <1>4 DEF PutPeer, NextPeer, Goto
  <2>5. PeerToken(peer) \in Tokens /\ PeerToken(peer)[2] >= 0
    BY <1>2 DEF PeerToken, Tokens
  <2>6. QED
    BY <1>1, <1>2, <1>3, <1>4, <2>1, <2>2, <2>3, <2>4, <2>5, PutStep
<1>5. CASE allowedip # 0
  <2>1. nlh = << >> /\ nlh' = <<ContinueToken(peer)>>
    BY <1>2, <1>5 DEF PutPeer, Put, ResumesAlone
  <2>2. Aips(peer) # << >>
    BY <1>2, <1>5 DEF TypeOK
  <2>3. pc' = "nest" /\ peer' = peer /\ allowedip' = allowedip
    BY <1>5, <2>2 DEF PutPeer, Goto
  <2>4. Reached' = Reached
    BY <1>1, <1>2, <1>3, <2>3 DEF Reached
  <2>5. ItemsOf(nlh) = {} /\ ItemsOf(nlh') = {}
    BY <2>1 DEF ItemsOf, ContinueToken
  <2>6. applied = Reached
    BY <1>2, <2>5 DEF EachItemOnce
  <2>7. EachItemOnce'
    BY <1>1, <2>1, <2>3, <2>4, <2>5, <2>6 DEF EachItemOnce
  <2>8. PeerToken(peer) \in applied
    <3>1. peer \in Nat /\ allowedip \in Nat /\ allowedip > 0
      BY <1>2, <1>5 DEF TypeOK
    <3>2. PeerToken(peer) \in AllItems
      BY <1>2 DEF PeerToken, AllItems
    <3>3. QED
      BY <1>3, <2>6, <3>1, <3>2 DEF Upto, PeerToken
  <2>9. QED
    BY <1>1, <2>1, <2>3, <2>7, <2>8 DEF ContinuesFirst, ResumesAlone, ContinueToken, PeerToken
<1>6. QED
  BY <1>4, <1>5

\* An allowed IP: the next item of the configuration.
LEMMA PutAllowedipStep ==
    ASSUME Cursors, PutAllowedip
    PROVE  EachItemOnce' /\ ContinuesFirst' /\ ResumesAlone'
<1> USE DEF Cursors
<1> DEFINE t == AllowedipToken(peer, allowedip)
<1>1. /\ NPeers' = NPeers
      /\ \A p, a : Upto(p, a)' = Upto(p, a)
      /\ applied' = applied /\ nlh' = Append(nlh, t)
  BY DEF PutAllowedip, Put, NPeers, Aips, AllItems, Upto
<1>2. /\ NPeers \in Nat /\ peer \in 1 .. NPeers /\ pc = "allowedip"
      /\ Len(Aips(peer)) \in Nat /\ allowedip \in 1 .. Len(Aips(peer))
  BY DeviceTypes DEF PutAllowedip, TypeOK
<1>3. Reached = Upto(peer, allowedip)
  BY <1>2 DEF Reached
<1>4. /\ Upto(peer, allowedip + 1) = Upto(peer, allowedip) \cup {t}
      /\ t \notin Upto(peer, allowedip)
      /\ allowedip = Len(Aips(peer)) => Upto(peer + 1, 0) = Upto(peer, allowedip + 1)
  BY <1>2, UptoNext DEF AllowedipToken
<1>5. Reached' = Reached \cup {t}
  <2>1. CASE allowedip < Len(Aips(peer))
    <3>1. pc' = "allowedip" /\ peer' = peer /\ allowedip' = allowedip + 1
      BY <1>2, <2>1 DEF PutAllowedip
    <3>2. Reached' = Upto(peer, allowedip + 1)
      BY <1>1, <1>2, <3>1 DEF Reached
    <3>3. QED
      BY <1>3, <1>4, <3>2
  <2>2. CASE allowedip = Len(Aips(peer))
    <3>1. /\ allowedip' = 0
          /\ \/ peer < NPeers /\ peer' = peer + 1 /\ pc' = "peer"
             \/ peer = NPeers /\ peer' = 0 /\ pc' = "send"
      BY <1>2, <2>2 DEF PutAllowedip, NextPeer, Goto
    <3>2. Reached' = Upto(peer + 1, 0)
      BY <1>1, <1>2, <3>1 DEF Reached
    <3>3. QED
      BY <1>3, <1>4, <2>2, <3>2
  <2>3. QED
    BY <1>2, <2>1, <2>2
<1>6. /\ pc' \in {"peer", "allowedip", "send"}
      /\ pc' = "peer" => allowedip' = 0
  BY <1>2 DEF PutAllowedip, NextPeer, Goto
<1>7. t \in Tokens /\ t[2] >= 0
  BY <1>2 DEF AllowedipToken, Tokens
<1>8. QED
  BY <1>1, <1>2, <1>3, <1>4, <1>5, <1>6, <1>7, PutStep

\* The kernel takes the message, or a part of it.
LEMMA KernelHandleStep ==
    ASSUME Cursors, KernelHandle
    PROVE  EachItemOnce' /\ ContinuesFirst' /\ ResumesAlone'
<1> USE DEF Cursors
<1>1. PICK m \in 0 .. Len(nlh) :
          /\ applied' = applied \cup ItemsOf(SubSeq(nlh, 1, m))
          /\ pc' = IF m = Len(nlh) THEN "acked" ELSE "refused"
  BY DEF KernelHandle, Goto
<1>2. /\ NPeers' = NPeers
      /\ \A p, a : Upto(p, a)' = Upto(p, a)
      /\ nlh' = nlh /\ peer' = peer /\ allowedip' = allowedip /\ pc = "sent"
  BY DEF KernelHandle, NPeers, Aips, AllItems, Upto, cursors
<1>3. Reached' = Reached
  BY <1>1, <1>2 DEF Reached
<1>4. m = Len(nlh) => applied' = Reached
  <2>1. SubSeq(nlh, 1, Len(nlh)) = nlh
    BY DEF TypeOK
  <2>2. QED
    BY <1>1, <1>2, <2>1, Zenon DEF EachItemOnce
<1>5. EachItemOnce'
  BY <1>1, <1>3, <1>4 DEF EachItemOnce
<1>6. QED
  BY <1>1, <1>2, <1>5 DEF ContinuesFirst, ResumesAlone

LEMMA CursorsStep == Cursors /\ [Next]_vars => Cursors'
<1> SUFFICES ASSUME Cursors, [Next]_vars
             PROVE  Cursors'
  OBVIOUS
<1>1. TypeOK' /\ MessageFits'
  BY TypeStep, FitsStep DEF Cursors
<1>2. EachItemOnce' /\ ContinuesFirst' /\ ResumesAlone'
  BY <1>1, QuietStep, AgainStep, PutPeerStep, PutAllowedipStep, KernelHandleStep DEF Next, Compose
<1>3. QED
  BY <1>1, <1>2 DEF Cursors

-----------------------------------------------------------------------------
\* The inductive invariant of wg_set_device: its cursors, its message and what
\* the kernel has taken agree in every reachable state.
THEOREM CursorsInvariant == Spec => []Cursors
BY CursorsInit, CursorsStep, PTL DEF Spec

\* Every variable of wg_set_device keeps its type, and no cursor is followed
\* outside the caller's lists.
THEOREM TypeCorrect == Spec => []TypeOK
BY CursorsInvariant, PTL DEF Cursors

\* No message wg_set_device builds exceeds mnl_ideal_socket_buffer_size().
THEOREM MessageFitsAlways == Spec => []MessageFits
BY CursorsInvariant, PTL DEF Cursors

\* Wherever the buffer fills up, every item goes out in exactly one message.
THEOREM EachItemOnceAlways == Spec => []EachItemOnce
BY CursorsInvariant, PTL DEF Cursors

\* A peer nest without attributes opens a message and continues a peer whose
\* attributes the kernel already has.
THEOREM ContinuesFirstAlways == Spec => []ContinuesFirst
BY CursorsInvariant, PTL DEF Cursors

\* wg_set_device returns 0 only with the whole configuration in the kernel.
THEOREM SuccessIsCompleteAlways == Spec => []SuccessIsComplete
<1>1. Init => SuccessIsComplete
  BY DEF Init, SuccessIsComplete
<1>2. Cursors /\ SuccessIsComplete /\ [Next]_vars => SuccessIsComplete'
  <2> SUFFICES ASSUME Cursors, SuccessIsComplete, [Next]_vars, pc' = "done", ret' = 0
               PROVE  applied' = AllItems'
    BY DEF SuccessIsComplete
  <2>1. CASE Recv
    <3>1. pc = "acked" /\ peer = 0 /\ applied' = applied /\ dev' = dev /\ allowedip = 0
      BY <2>1 DEF Recv, Goto, Cursors, TypeOK
    <3>2. applied = Upto(NPeers + 1, 0)
      BY <3>1 DEF Cursors, EachItemOnce, Reached
    <3>3. QED
      BY <3>1, <3>2, UptoEnd DEF Cursors, AllItems, NPeers, Aips
  <2>2. CASE UNCHANGED vars
    BY <2>2 DEF vars, SuccessIsComplete, AllItems, NPeers, Aips
  <2>3. CASE Open \/ Send
    BY <2>3 DEF Open, Send, Goto
  <2>4. CASE Compose \/ KernelHandle
    BY <2>4 DEF Compose, Again, PutPeer, ToobigPeers, NestAllowedips, PutAllowedip,
                ToobigAllowedips, NextPeer, KernelHandle, Goto
  <2>5. QED
    BY <2>1, <2>2, <2>3, <2>4 DEF Next
<1>3. QED
  BY <1>1, <1>2, CursorsInvariant, PTL DEF Spec

-----------------------------------------------------------------------------
\* A peer nest has taken effect: a peer to remove is gone, another one is there.
Standing(d, p, k) ==
    LET key == d.peers[p].key
    IN  IF d.peers[p].remove
        THEN k.attrs[key] = Absent /\ \A ip \in Ip : k.owner[ip] # key
        ELSE k.attrs[key] # Absent

LEMMA PeerTypes ==
    ASSUME NEW d \in Device, NEW p \in 1 .. Len(d.peers)
    PROVE  /\ p \in Nat
           /\ d.peers[p].key \in Key
           /\ d.peers[p].remove \in BOOLEAN
           /\ d.peers[p].replace \in BOOLEAN
           /\ d.peers[p].attrs \in Attr \cup {Unset}
           /\ d.peers[p].aips \in Seq(Ip)
<1>1. d.peers \in Seq(Peer)
  BY DEF Device
<1>2. d.peers[p] \in Peer /\ p \in Nat
  BY <1>1
<1>3. QED
  BY <1>2 DEF Peer

LEMMA DisownType ==
    ASSUME NEW owner \in [Ip -> Key \cup {NoPeer}], NEW keys \in SUBSET Key
    PROVE  /\ Disown(owner, keys) \in [Ip -> Key \cup {NoPeer}]
           /\ \A ip \in Ip : Disown(owner, keys)[ip] \notin keys
           /\ (\A ip \in Ip : owner[ip] \notin keys) => Disown(owner, keys) = owner
BY NoPeerAssumption DEF Disown

LEMMA DeviceEffect ==
    ASSUME NEW d, NEW k \in Kernel
    PROVE  SetToken(d, k, DeviceToken) \in Kernel
<1>1. SetToken(d, k, DeviceToken) = SetDevice(d, k)
  BY DEF SetToken
<1>2. Disown(k.owner, Key) \in [Ip -> Key \cup {NoPeer}]
  BY DisownType DEF Kernel
<1>3. QED
  BY <1>1, <1>2, Zenon DEF SetDevice, Kernel

\* After its nest a peer is as the nest asks for.
LEMMA PeerEffect ==
    ASSUME NEW d \in Device, NEW p \in 1 .. Len(d.peers), NEW k \in Kernel
    PROVE  /\ SetToken(d, k, PeerToken(p)) \in Kernel
           /\ Standing(d, p, SetToken(d, k, PeerToken(p)))
<1> DEFINE pr == d.peers[p]
           j == SetToken(d, k, PeerToken(p))
<1>1. j = SetPeer(pr.key, [remove |-> pr.remove, replace |-> pr.replace], pr.attrs, k)
  <2>1. p \in Nat /\ p # 0 /\ pr.replace \in BOOLEAN
    BY PeerTypes
  <2>2. j = SetPeer(pr.key, PeerFlags(pr, 0 = 0), PeerAttrs(pr, 0 = 0), k)
    BY <2>1 DEF SetToken, PeerToken, DeviceToken
  <2>3. PeerFlags(pr, 0 = 0) = [remove |-> pr.remove, replace |-> pr.replace]
    BY <2>1 DEF PeerFlags
  <2>4. PeerAttrs(pr, 0 = 0) = pr.attrs
    BY DEF PeerAttrs
  <2>5. QED
    BY <2>2, <2>3, <2>4
<1>2. Disown(k.owner, {pr.key}) \in [Ip -> Key \cup {NoPeer}]
  BY DisownType, PeerTypes DEF Kernel
<1>3. \A ip \in Ip : Disown(k.owner, {pr.key})[ip] # pr.key
  BY DisownType, PeerTypes DEF Kernel
<1>4. /\ k.attrs \in [Key -> Attr \cup {Unset, Absent}]
      /\ k.owner \in [Ip -> Key \cup {NoPeer}]
      /\ k.dev \in BOOLEAN
      /\ k = [dev |-> k.dev, attrs |-> k.attrs, owner |-> k.owner]
  BY DEF Kernel
<1>5. CASE pr.remove
  <2>1. j = [k EXCEPT !.attrs[pr.key] = Absent, !.owner = Disown(@, {pr.key})]
    BY <1>1, <1>5 DEF SetPeer
  <2>2. j.attrs = [k.attrs EXCEPT ![pr.key] = Absent] /\ j.owner = Disown(k.owner, {pr.key})
    BY <2>1, <1>4
  <2>3. j \in Kernel
    <3>1. j = [dev |-> k.dev, attrs |-> [k.attrs EXCEPT ![pr.key] = Absent],
               owner |-> Disown(k.owner, {pr.key})]
      BY <2>1, <1>4, Zenon
    <3>2. [k.attrs EXCEPT ![pr.key] = Absent] \in [Key -> Attr \cup {Unset, Absent}]
      BY <1>4, Zenon
    <3> HIDE DEF j, pr
    <3>3. QED
      BY <3>1, <3>2, <1>2, <1>4, Zenon DEF Kernel
  <2>4. QED
    BY <2>2, <2>3, <1>3, <1>4, <1>5, PeerTypes, Zenon DEF Standing
<1>6. CASE ~pr.remove
  <2> DEFINE value == IF pr.attrs # Unset THEN pr.attrs
                      ELSE IF k.attrs[pr.key] = Absent THEN Unset ELSE k.attrs[pr.key]
             owner == IF pr.replace THEN Disown(k.owner, {pr.key}) ELSE k.owner
  <2>1. j = [k EXCEPT !.attrs[pr.key] = value, !.owner = owner]
    BY <1>1, <1>4, <1>6 DEF SetPeer
  <2>2. value \in Attr \cup {Unset} /\ owner \in [Ip -> Key \cup {NoPeer}]
    BY <1>2, <1>4, PeerTypes, Zenon
  <2> HIDE DEF value, owner
  <2>3. j.attrs[pr.key] = value
    BY <2>1, <1>4, PeerTypes
  <2>4. j \in Kernel
    <3>1. j = [dev |-> k.dev, attrs |-> [k.attrs EXCEPT ![pr.key] = value], owner |-> owner]
      BY <2>1, <1>4, Zenon
    <3>2. [k.attrs EXCEPT ![pr.key] = value] \in [Key -> Attr \cup {Unset, Absent}]
      BY <2>2, <1>4, Zenon
    <3> HIDE DEF j, pr
    <3>3. QED
      BY <3>1, <3>2, <2>2, <1>4 DEF Kernel
  <2>5. QED
    BY <2>2, <2>3, <2>4, <1>6, AbsentAssumption DEF Standing
<1>7. QED
  BY <1>5, <1>6, PeerTypes

\* An allowed IP leaves the peer it stands under as it is.
LEMMA AllowedipEffect ==
    ASSUME NEW d \in Device, NEW p \in 1 .. Len(d.peers), NEW a \in 1 .. Len(d.peers[p].aips),
           NEW k \in Kernel, Standing(d, p, k)
    PROVE  /\ SetToken(d, k, AllowedipToken(p, a)) \in Kernel
           /\ Standing(d, p, SetToken(d, k, AllowedipToken(p, a)))
<1> DEFINE pr == d.peers[p]
           j == SetToken(d, k, AllowedipToken(p, a))
<1>1. j = IF pr.remove THEN k ELSE [k EXCEPT !.owner[pr.aips[a]] = pr.key]
  BY PeerTypes DEF SetToken, AllowedipToken, DeviceToken, SetAllowedip
<1>2. pr.aips[a] \in Ip
  BY PeerTypes
<1>3. CASE pr.remove
  BY <1>1, <1>3
<1>4. CASE ~pr.remove
  <2>1. j = [k EXCEPT !.owner[pr.aips[a]] = pr.key]
    BY <1>1, <1>4
  <2>2. j \in Kernel /\ j.attrs = k.attrs
    BY <2>1, <1>2, PeerTypes DEF Kernel
  <2>3. QED
    BY <2>2, <1>4 DEF Standing
<1>5. QED
  BY <1>3, <1>4, PeerTypes

\* A nest that continues a peer changes nothing.
LEMMA ContinueEffect ==
    ASSUME NEW d \in Device, NEW p \in 1 .. Len(d.peers), NEW k \in Kernel, Standing(d, p, k)
    PROVE  SetToken(d, k, ContinueToken(p)) = k
<1> DEFINE pr == d.peers[p]
           j == SetToken(d, k, ContinueToken(p))
<1>1. j = SetPeer(pr.key, [remove |-> pr.remove, replace |-> FALSE], Unset, k)
  <2>1. p \in Nat /\ p # 0
    BY PeerTypes
  <2>2. j = SetPeer(pr.key, PeerFlags(pr, -1 = 0), PeerAttrs(pr, -1 = 0), k)
    BY <2>1 DEF SetToken, ContinueToken, DeviceToken
  <2>3. PeerFlags(pr, -1 = 0) = [remove |-> pr.remove, replace |-> FALSE]
    <3>1. (-1 = 0) = FALSE
      OBVIOUS
    <3>2. QED
      BY <3>1, Zenon DEF PeerFlags
  <2>4. PeerAttrs(pr, -1 = 0) = Unset
    BY DEF PeerAttrs
  <2>5. QED
    BY <2>2, <2>3, <2>4
<1>2. /\ k.attrs \in [Key -> Attr \cup {Unset, Absent}]
      /\ k.owner \in [Ip -> Key \cup {NoPeer}]
      /\ k = [dev |-> k.dev, attrs |-> k.attrs, owner |-> k.owner]
  BY DEF Kernel
<1>3. CASE pr.remove
  <2>1. j = [k EXCEPT !.attrs[pr.key] = Absent, !.owner = Disown(@, {pr.key})]
    BY <1>1, <1>3 DEF SetPeer
  <2>2. k.attrs[pr.key] = Absent /\ \A ip \in Ip : k.owner[ip] # pr.key
    BY <1>3 DEF Standing
  <2>3. Disown(k.owner, {pr.key}) = k.owner
    BY <2>2, <1>2, DisownType, PeerTypes
  <2>4. [k.attrs EXCEPT ![pr.key] = Absent] = k.attrs
    BY <2>2, <1>2
  <2>5. QED
    BY <2>1, <2>3, <2>4, <1>2, Zenon DEF Kernel
<1>4. CASE ~pr.remove
  <2>1. k.attrs[pr.key] # Absent
    BY <1>4 DEF Standing
  <2>2. j = [k EXCEPT !.attrs[pr.key] = k.attrs[pr.key], !.owner = k.owner]
    BY <1>1, <1>2, <1>4, <2>1 DEF SetPeer
  <2>3. [k.attrs EXCEPT ![pr.key] = k.attrs[pr.key]] = k.attrs
    BY <1>2
  <2>4. QED
    BY <2>2, <2>3, <1>2, Zenon DEF Kernel
<1>5. QED
  BY <1>3, <1>4, PeerTypes

-----------------------------------------------------------------------------
\* The parts of a concatenation.
LEMMA Concat ==
    ASSUME NEW T, NEW x \in Seq(T), NEW y \in Seq(T)
    PROVE  /\ x \o y \in Seq(T)
           /\ Len(x) \in Nat /\ Len(y) \in Nat
           /\ Len(x \o y) = Len(x) + Len(y)
           /\ \A i \in 1 .. Len(x) : (x \o y)[i] = x[i]
           /\ \A i \in 1 .. Len(y) : (x \o y)[Len(x) + i] = y[i]
<1>1. /\ Len(x) \in Nat /\ Len(y) \in Nat
      /\ x \o y \in Seq(T) /\ Len(x \o y) = Len(x) + Len(y)
  OBVIOUS
<1>2. \A i \in 1 .. Len(x) : (x \o y)[i] = x[i]
  BY <1>1
<1>3. \A i \in 1 .. Len(y) : (x \o y)[Len(x) + i] = y[i]
  <2> TAKE i \in 1 .. Len(y)
  <2>1. Len(x) + i \in Len(x) + 1 .. Len(x) + Len(y) /\ (Len(x) + i) - Len(x) = i
    BY <1>1
  <2>2. QED
    BY <2>1, <1>1
<1>4. QED
  BY <1>1, <1>2, <1>3

\* A peer and its allowed IPs, in their order.
LEMMA PeerItemsLayout ==
    ASSUME NEW d \in Device, NEW p \in 1 .. Len(d.peers)
    PROVE  /\ Len(d.peers[p].aips) \in Nat
           /\ Apply!PeerItems(d, p) \in Seq(Tokens)
           /\ Len(Apply!PeerItems(d, p)) = 1 + Len(d.peers[p].aips)
           /\ \A a \in 0 .. Len(d.peers[p].aips) : Apply!PeerItems(d, p)[a + 1] = <<p, a>>
<1>1. d.peers[p].aips \in Seq(Ip) /\ Len(d.peers[p].aips) \in Nat /\ p \in Nat
  <2>1. d.peers \in Seq(Peer)
    BY DEF Device
  <2>2. d.peers[p] \in Peer /\ p \in Nat
    BY <2>1
  <2>3. QED
    BY <2>2 DEF Peer
<1> DEFINE n == Len(d.peers[p].aips)
           first == <<<<p, 0>>>>
           rest == [a \in 1 .. n |-> <<p, a>>]
<1>2. first \in Seq(Tokens) /\ Len(first) = 1 /\ first[1] = <<p, 0>>
  BY <1>1 DEF Tokens
<1>3. rest \in Seq(Tokens) /\ Len(rest) = n /\ \A a \in 1 .. n : rest[a] = <<p, a>>
  BY <1>1 DEF Tokens
<1>4. Apply!PeerItems(d, p) = first \o rest
  BY DEF Apply!PeerItems, Apply!PeerToken, Apply!AllowedipToken
<1>0. n \in Nat
  BY <1>1
<1> HIDE DEF n, first, rest
<1>5. /\ first \o rest \in Seq(Tokens)
      /\ Len(first \o rest) = 1 + n
      /\ (first \o rest)[1] = first[1]
      /\ \A a \in 1 .. n : (first \o rest)[a + 1] = rest[a]
  <2>1. /\ first \o rest \in Seq(Tokens)
        /\ Len(first \o rest) = Len(first) + Len(rest)
        /\ \A i \in 1 .. Len(first) : (first \o rest)[i] = first[i]
        /\ \A i \in 1 .. Len(rest) : (first \o rest)[Len(first) + i] = rest[i]
    <3>1. first \in Seq(Tokens) /\ rest \in Seq(Tokens)
      BY <1>2, <1>3
    <3>2. QED
      BY <3>1, Concat
  <2>2. \A i \in 1 .. n : (first \o rest)[1 + i] = rest[i] /\ 1 + i = i + 1
    BY <2>1, <1>2, <1>3, <1>0
  <2>3. QED
    BY <2>1, <2>2, <1>0, <1>2, <1>3
<1>6. \A a \in 0 .. n : (first \o rest)[a + 1] = <<p, a>>
  <2> TAKE a \in 0 .. n
  <2>1. CASE a = 0
    <3>1. (first \o rest)[1] = <<p, 0>>
      BY ONLY <1>2, <1>5, Zenon
    <3>2. a + 1 = 1
      BY ONLY <2>1
    <3>3. QED
      BY ONLY <2>1, <3>1, <3>2, Zenon
  <2>2. CASE a \in 1 .. n
    BY ONLY <2>2, <1>3, <1>5, Zenon
  <2>3. a = 0 \/ a \in 1 .. n
    BY <1>0
  <2>4. QED
    BY <2>1, <2>2, <2>3, Zenon
<1>7. QED
  BY <1>1, <1>4, <1>5, <1>6, Zenon DEF n

LEMMA Inside ==
    ASSUME NEW l \in Nat, NEW n \in Nat, NEW m \in Nat, l + 1 + n <= m, NEW a \in 0 .. n
    PROVE  l + a + 1 \in 1 .. m
OBVIOUS

-----------------------------------------------------------------------------
LEMMA SubSeqNext ==
    ASSUME NEW T, NEW s \in Seq(T), NEW n \in Nat, NEW m \in n .. Len(s) - 1
    PROVE  /\ SubSeq(s, n + 1, m) \in Seq(T)
           /\ SubSeq(s, n + 1, m + 1) = Append(SubSeq(s, n + 1, m), s[m + 1])
<1>1. Len(s) \in Nat /\ m \in Nat /\ n <= m /\ m + 1 <= Len(s)
  OBVIOUS
<1>2. SubSeq(s, n + 1, m) \in Seq(T) /\ Len(SubSeq(s, n + 1, m)) = m - n
  BY <1>1
<1>3. SubSeq(s, n + 1, m + 1) \in Seq(T) /\ Len(SubSeq(s, n + 1, m + 1)) = m + 1 - n
  BY <1>1
<1>4. s[m + 1] \in T
  BY <1>1
<1>5. QED
  BY <1>1, <1>2, <1>3, <1>4

\* A message is a list of tokens.
LEMMA MessageType ==
    ASSUME TypeOK
    PROVE  nlh \in Seq(Tokens) /\ Len(nlh) \in Nat
BY DEF TypeOK

\* A message that stands for items from n + 1 on, behind a nest that continues
\* a peer if there is one.
Tag(s) == IF s # << >> /\ s[1][2] = -1 THEN 1 ELSE 0
InLine(s, items, n) == \A i \in Tag(s) + 1 .. Len(s) : s[i][2] >= 0 /\ s[i] = items[n + i - Tag(s)]

LEMMA LinedAppend ==
    ASSUME NEW s \in Seq(Tokens), NEW t \in Tokens, t[2] >= 0, NEW items, NEW n \in Nat,
           InLine(s, items, n), t = items[n + Len(s) - Tag(s) + 1]
    PROVE  /\ Tag(Append(s, t)) = Tag(s)
           /\ Len(Append(s, t)) = Len(s) + 1
           /\ InLine(Append(s, t), items, n)
           /\ Tag(s) = 1 => Append(s, t)[1] = s[1]
<1> DEFINE c == Tag(s)
<1>0. /\ c = IF s # << >> /\ s[1][2] = -1 THEN 1 ELSE 0
      /\ \A i \in c + 1 .. Len(s) : s[i][2] >= 0 /\ s[i] = items[n + i - c]
      /\ t = items[n + Len(s) - c + 1]
  BY DEF Tag, InLine
<1> HIDE DEF c
<1> DEFINE u == Append(s, t)
<1>1. /\ Len(u) = Len(s) + 1
      /\ Len(s) \in Nat
      /\ \A i \in 1 .. Len(s) : u[i] = s[i]
      /\ u[Len(s) + 1] = t
      /\ u # << >>
  <2>1. /\ Len(u) = Len(s) + 1
        /\ Len(s) \in Nat
        /\ \A i \in 1 .. Len(s) : u[i] = s[i]
        /\ u[Len(s) + 1] = t
    OBVIOUS
  <2>2. u # << >>
    BY <2>1
  <2>3. QED
    BY <2>1, <2>2
<1>2. s # << >> <=> Len(s) >= 1
  OBVIOUS
<1> HIDE DEF u
<1>3. (IF u # << >> /\ u[1][2] = -1 THEN 1 ELSE 0) = c
  <2>1. CASE s = << >>
    <3>1. u[1] = t
      BY <1>1, <1>2, <2>1
    <3>2. t[2] # -1
      <4>1. t[2] \in Int
        BY DEF Tokens
      <4>2. QED
        BY <4>1
    <3>3. QED
      BY <1>0, <2>1, <3>1, <3>2
  <2>2. CASE s # << >>
    <3>1. u[1] = s[1]
      BY <1>1, <1>2, <2>2
    <3>2. QED
      BY <1>0, <2>2, <3>1, <1>1
  <2>3. QED
    BY <2>1, <2>2
<1>4. c \in {0, 1} /\ (c = 1 => Len(s) >= 1)
  BY <1>0, <1>2
<1>5. ASSUME NEW i \in c + 1 .. Len(u)
      PROVE  u[i][2] >= 0 /\ u[i] = items[n + i - c]
  <2>1. CASE i = Len(s) + 1
    <3>1. n + i - c = n + Len(s) - c + 1
      BY <1>1, <1>4, <2>1
    <3>2. QED
      BY <1>0, <1>1, <2>1, <3>1
  <2>2. CASE i # Len(s) + 1
    <3>1. i \in c + 1 .. Len(s) /\ i \in 1 .. Len(s)
      BY <1>1, <1>4, <2>2
    <3>2. QED
      BY <1>0, <1>1, <3>1
  <2>3. QED
    BY <2>1, <2>2
<1>6. c = 1 => u[1] = s[1]
  BY <1>1, <1>4
<1>7. Tag(u) = c
  BY <1>3 DEF Tag
<1>8. InLine(u, items, n)
  BY <1>5, <1>7 DEF InLine
<1>9. QED
  BY <1>1, <1>6, <1>7, <1>8 DEF u, c

-----------------------------------------------------------------------------
INSTANCE WellFoundedInduction

\* Induction on natural numbers, for a set.
LEMMA EveryNat ==
    ASSUME NEW S \in SUBSET Nat, 0 \in S, \A n \in S : n + 1 \in S
    PROVE  S = Nat
<1> SUFFICES ASSUME Nat \ S # {} PROVE FALSE
  BY Zenon
<1>1. PICK x \in Nat \ S : \A y \in Nat \ S : ~(<<y, x>> \in OpToRel(<, Nat))
  BY WFMin, NatLessThanWellFounded, Zenon
<1>2. x - 1 \in Nat /\ x - 1 < x /\ x - 1 + 1 = x
  OBVIOUS
<1>3. <<x - 1, x>> \in OpToRel(<, Nat)
  BY <1>2 DEF OpToRel
<1>4. QED
  BY <1>1, <1>2, <1>3, Zenon

\* SetTokens goes through the tokens one by one: the recursion is well founded.
IsRun(f, d, k, s, m) == f = [n \in 0 .. m |-> IF n = 0 THEN k ELSE SetToken(d, f[n - 1], s[n])]

LEMMA RunExists ==
    ASSUME NEW d, NEW k, NEW s, NEW m \in Nat
    PROVE  \E f : IsRun(f, d, k, s, m)
<1> DEFINE S == {j \in Nat : \E f : IsRun(f, d, k, s, j)}
<1>1. 0 \in S
  <2> DEFINE f == [n \in 0 .. 0 |-> k]
  <2>1. IsRun(f, d, k, s, 0)
    BY DEF IsRun
  <2>2. QED
    BY <2>1
<1>2. ASSUME NEW j \in S
      PROVE  j + 1 \in S
  <2>1. PICK f : IsRun(f, d, k, s, j)
    OBVIOUS
  <2> DEFINE g == [n \in 0 .. j + 1 |-> IF n = j + 1 THEN SetToken(d, f[j], s[j + 1]) ELSE f[n]]
  <2>2. IsRun(g, d, k, s, j + 1)
    <3>1. \A n \in 0 .. j : g[n] = f[n]
      OBVIOUS
    <3>2. \A n \in 0 .. j : f[n] = IF n = 0 THEN k ELSE SetToken(d, f[n - 1], s[n])
      BY <2>1 DEF IsRun
    <3>3. \A n \in 0 .. j + 1 : g[n] = IF n = 0 THEN k ELSE SetToken(d, g[n - 1], s[n])
      <4> TAKE n \in 0 .. j + 1
      <4>1. CASE n = j + 1
        BY <4>1, <3>1
      <4>2. CASE n \in 0 .. j
        BY <4>2, <3>1, <3>2
      <4>3. QED
        BY <4>1, <4>2
    <3>4. QED
      BY <3>3 DEF IsRun
  <2>3. QED
    BY <2>2
<1>3. S \in SUBSET Nat
  OBVIOUS
<1>4. S = Nat
  <2> HIDE DEF S
  <2> QED BY <1>1, <1>2, <1>3, EveryNat
<1>5. QED
  BY <1>4

LEMMA RunOfTokens ==
    ASSUME NEW d, NEW k, NEW s \in Seq(Tokens)
    PROVE  \E f : IsRun(f, d, k, s, Len(s)) /\ SetTokens(d, k, s) = f[Len(s)]
<1>1. \E f : IsRun(f, d, k, s, Len(s))
  BY RunExists
<1> DEFINE f == CHOOSE f : IsRun(f, d, k, s, Len(s))
<1>2. IsRun(f, d, k, s, Len(s))
  BY <1>1
<1>3. SetTokens(d, k, s) = f[Len(s)]
  BY DEF SetTokens, IsRun
<1>4. QED
  BY <1>2, <1>3, Zenon

LEMMA SetTokensNone ==
    ASSUME NEW d, NEW k
    PROVE  SetTokens(d, k, << >>) = k
<1>1. << >> \in Seq(Tokens) /\ Len(<< >>) = 0
  OBVIOUS
<1>2. PICK f : IsRun(f, d, k, << >>, 0) /\ SetTokens(d, k, << >>) = f[0]
  BY <1>1, RunOfTokens, Zenon
<1>3. QED
  BY <1>2 DEF IsRun

LEMMA SetTokensAppend ==
    ASSUME NEW d, NEW k, NEW s \in Seq(Tokens), NEW t \in Tokens
    PROVE  SetTokens(d, k, Append(s, t)) = SetToken(d, SetTokens(d, k, s), t)
<1> DEFINE u == Append(s, t)
<1>1. /\ u \in Seq(Tokens)
      /\ Len(u) = Len(s) + 1
      /\ Len(s) \in Nat
      /\ \A n \in 1 .. Len(s) : u[n] = s[n]
      /\ u[Len(s) + 1] = t
  OBVIOUS
<1> HIDE DEF u
<1>2. PICK f : IsRun(f, d, k, s, Len(s)) /\ SetTokens(d, k, s) = f[Len(s)]
  BY RunOfTokens
<1>3. PICK g : IsRun(g, d, k, u, Len(u)) /\ SetTokens(d, k, u) = g[Len(u)]
  BY <1>1, RunOfTokens
<1>4. f[Len(s)] = g[Len(s)]
  <2> DEFINE S == {j \in Nat : j <= Len(s) => f[j] = g[j]}
  <2>1. 0 \in S
    BY <1>1, <1>2, <1>3 DEF IsRun
  <2>2. ASSUME NEW j \in S
        PROVE  j + 1 \in S
    <3> SUFFICES ASSUME j + 1 <= Len(s) PROVE f[j + 1] = g[j + 1]
      OBVIOUS
    <3>1. f[j] = g[j] /\ s[j + 1] = u[j + 1]
      BY <1>1
    <3>2. f[j + 1] = SetToken(d, f[j], s[j + 1])
      BY <1>1, <1>2 DEF IsRun
    <3>3. g[j + 1] = SetToken(d, g[j], u[j + 1])
      BY <1>1, <1>3 DEF IsRun
    <3>4. QED
      BY <3>1, <3>2, <3>3
  <2>3. S \in SUBSET Nat
    OBVIOUS
  <2>4. S = Nat
    <3> HIDE DEF S
    <3> QED BY <2>1, <2>2, <2>3, EveryNat
  <2>5. QED
    BY <1>1, <2>4
<1>5. g[Len(u)] = SetToken(d, g[Len(s)], t)
  BY <1>1, <1>3 DEF IsRun
<1>6. QED
  BY <1>2, <1>3, <1>4, <1>5 DEF u

\* Where each peer starts in the list: off[p] items stand before peer p.
Layout(off, d) ==
    /\ off \in [1 .. Len(d.peers) + 1 -> Nat]
    /\ off[1] = 1
    /\ off[Len(d.peers) + 1] = Len(Apply!Items(d))
    /\ \A p \in 1 .. Len(d.peers) :
          /\ off[p + 1] = off[p] + 1 + Len(d.peers[p].aips)
          /\ off[p + 1] <= Len(Apply!Items(d))
          /\ \A a \in 0 .. Len(d.peers[p].aips) : Apply!Items(d)[off[p] + a + 1] = <<p, a>>
    /\ Apply!Items(d) \in Seq(Tokens)
    /\ Apply!Items(d)[1] = DeviceToken

\* The list is put together peer by peer: the recursion is well founded.
IsList(f, d, m) ==
    f = [p \in 0 .. m |-> IF p = 0 THEN <<DeviceToken>> ELSE f[p - 1] \o Apply!PeerItems(d, p)]

LEMMA ListExists ==
    ASSUME NEW d, NEW m \in Nat
    PROVE  \E f : IsList(f, d, m)
<1> DEFINE S == {j \in Nat : \E f : IsList(f, d, j)}
<1>1. 0 \in S
  <2> DEFINE f == [p \in 0 .. 0 |-> <<DeviceToken>>]
  <2>1. IsList(f, d, 0)
    BY DEF IsList
  <2>2. QED
    BY <2>1
<1>2. ASSUME NEW j \in S
      PROVE  j + 1 \in S
  <2>1. PICK f : IsList(f, d, j)
    OBVIOUS
  <2> DEFINE g == [p \in 0 .. j + 1 |-> IF p = j + 1 THEN f[j] \o Apply!PeerItems(d, j + 1) ELSE f[p]]
  <2>2. \A p \in 0 .. j : g[p] = f[p]
    OBVIOUS
  <2>3. \A p \in 0 .. j : f[p] = IF p = 0 THEN <<DeviceToken>> ELSE f[p - 1] \o Apply!PeerItems(d, p)
    BY <2>1, Zenon DEF IsList
  <2>4. \A p \in 0 .. j + 1 :
           g[p] = IF p = 0 THEN <<DeviceToken>> ELSE g[p - 1] \o Apply!PeerItems(d, p)
    <3> TAKE p \in 0 .. j + 1
    <3>1. CASE p \in 0 .. j
      BY <3>1, <2>2, <2>3
    <3>2. CASE p = j + 1
      BY <3>2, <2>2
    <3>3. QED
      BY <3>1, <3>2
  <2>5. IsList(g, d, j + 1)
    BY <2>4, Zenon DEF IsList
  <2>6. QED
    BY <2>5
<1>3. S \in SUBSET Nat
  OBVIOUS
<1>4. S = Nat
  <2> HIDE DEF S
  <2> QED BY <1>1, <1>2, <1>3, EveryNat
<1>5. QED
  BY <1>4

LEMMA LayoutExists ==
    ASSUME NEW d \in Device
    PROVE  \E off : Layout(off, d)
<1> DEFINE N == Len(d.peers)
           Aip(p) == Len(d.peers[p].aips)
           s(p) == Apply!PeerItems(d, p)
           list == CHOOSE f : IsList(f, d, N)
<1>1. N \in Nat
  BY DEF Device
<1>2. \A p \in 1 .. N : /\ Aip(p) \in Nat
                        /\ s(p) \in Seq(Tokens)
                        /\ Len(s(p)) = 1 + Aip(p)
                        /\ \A a \in 0 .. Aip(p) : s(p)[a + 1] = <<p, a>>
  BY PeerItemsLayout
<1>3. IsList(list, d, N)
  BY <1>1, ListExists, Zenon
<1>4. Apply!Items(d) = list[N]
  BY DEF Apply!Items, IsList, Apply!DeviceToken, DeviceToken
<1> HIDE DEF N, Aip, list
<1>5. \A p \in 0 .. N : list[p] = IF p = 0 THEN <<DeviceToken>> ELSE list[p - 1] \o s(p)
  BY <1>3, Zenon DEF IsList
<1> HIDE DEF s
<1> DEFINE P(j) == /\ list[j] \in Seq(Tokens)
                   /\ Len(list[j]) >= 1
                   /\ list[j][1] = DeviceToken
                   /\ \A p \in 1 .. j :
                         /\ Len(list[p - 1]) \in Nat
                         /\ Len(list[p]) = Len(list[p - 1]) + 1 + Aip(p)
                         /\ Len(list[p - 1]) + 1 + Aip(p) <= Len(list[j])
                         /\ \A a \in 0 .. Aip(p) : list[j][Len(list[p - 1]) + a + 1] = <<p, a>>
           S == {j \in Nat : j \in 0 .. N => P(j)}
<1>6. 0 \in S
  <2>1. /\ <<DeviceToken>> \in Seq(Tokens)
        /\ Len(<<DeviceToken>>) >= 1
        /\ <<DeviceToken>>[1] = DeviceToken
    BY DEF DeviceToken, Tokens
  <2>2. list[0] = <<DeviceToken>>
    BY <1>1, <1>5
  <2>3. P(0)
    BY <2>1, <2>2
  <2> HIDE DEF P
  <2>4. QED
    BY <2>3
<1>7. ASSUME NEW j \in S
      PROVE  j + 1 \in S
  <2> SUFFICES ASSUME j + 1 \in 0 .. N
               PROVE  P(j + 1)
    <3> HIDE DEF P
    <3> QED OBVIOUS
  <2>1. j \in Nat /\ j + 1 \in 1 .. N /\ j \in 0 .. N /\ j + 1 - 1 = j
    BY <1>1
  <2>2. /\ list[j] \in Seq(Tokens)
        /\ Len(list[j]) >= 1
        /\ list[j][1] = DeviceToken
        /\ \A p \in 1 .. j :
              /\ Len(list[p - 1]) \in Nat
              /\ Len(list[p]) = Len(list[p - 1]) + 1 + Aip(p)
              /\ Len(list[p - 1]) + 1 + Aip(p) <= Len(list[j])
              /\ \A a \in 0 .. Aip(p) : list[j][Len(list[p - 1]) + a + 1] = <<p, a>>
    <3>1. P(j)
      <4> HIDE DEF P
      <4> QED BY <2>1
    <3>2. QED
      BY <3>1
  <2>3. /\ Aip(j + 1) \in Nat
        /\ s(j + 1) \in Seq(Tokens)
        /\ Len(s(j + 1)) = 1 + Aip(j + 1)
        /\ \A a \in 0 .. Aip(j + 1) : s(j + 1)[a + 1] = <<j + 1, a>>
    BY <1>2, <2>1
  <2> DEFINE x == list[j]
             y == s(j + 1)
  <2>4. list[j + 1] = x \o y
    <3>1. list[j + 1] = IF j + 1 = 0 THEN <<DeviceToken>> ELSE list[j + 1 - 1] \o s(j + 1)
      BY <1>5
    <3>2. j + 1 # 0
      BY <2>1
    <3>3. QED
      BY <2>1, <3>1, <3>2, Zenon
  <2>5. x \in Seq(Tokens) /\ y \in Seq(Tokens) /\ Len(x) >= 1 /\ x[1] = DeviceToken
    BY <2>2, <2>3
  <2>6. Len(y) = 1 + Aip(j + 1) /\ \A a \in 0 .. Aip(j + 1) : y[a + 1] = <<j + 1, a>>
    BY <2>3
  <2>7. ASSUME NEW p \in 1 .. j
        PROVE  /\ Len(list[p - 1]) \in Nat
               /\ Aip(p) \in Nat
               /\ Len(list[p - 1]) + 1 + Aip(p) <= Len(x)
               /\ \A a \in 0 .. Aip(p) : x[Len(list[p - 1]) + a + 1] = <<p, a>>
    <3>1. p \in 1 .. N
      BY <1>1, <2>1
    <3>2. QED
      BY <3>1, <1>2, <2>2, Zenon
  <2> HIDE DEF x, y
  <2>8. /\ x \o y \in Seq(Tokens)
        /\ Len(x) \in Nat /\ Len(y) \in Nat
        /\ Len(x \o y) = Len(x) + Len(y)
        /\ \A i \in 1 .. Len(x) : (x \o y)[i] = x[i]
        /\ \A i \in 1 .. Len(y) : (x \o y)[Len(x) + i] = y[i]
    BY <2>5, Concat
  <2>9. ASSUME NEW p \in 1 .. j
        PROVE  /\ Len(list[p - 1]) + 1 + Aip(p) <= Len(x \o y)
               /\ \A a \in 0 .. Aip(p) : (x \o y)[Len(list[p - 1]) + a + 1] = <<p, a>>
    <3>1. \A a \in 0 .. Aip(p) : Len(list[p - 1]) + a + 1 \in 1 .. Len(x)
      BY <2>7, <2>8, Inside
    <3>2. \A a \in 0 .. Aip(p) : (x \o y)[Len(list[p - 1]) + a + 1] = <<p, a>>
      BY <2>7, <2>8, <3>1
    <3>3. Len(list[p - 1]) + 1 + Aip(p) <= Len(x \o y)
      BY <2>7, <2>8
    <3>4. QED
      BY <3>2, <3>3, Zenon
  <2>10. /\ Len(x \o y) = Len(x) + 1 + Aip(j + 1)
         /\ \A a \in 0 .. Aip(j + 1) : (x \o y)[Len(x) + a + 1] = <<j + 1, a>>
    <3>1. Aip(j + 1) \in Nat
      BY <2>3
    <3>2. \A a \in 0 .. Aip(j + 1) : a + 1 \in 1 .. Len(y) /\ Len(x) + (a + 1) = Len(x) + a + 1
      BY <2>6, <2>8, <3>1
    <3>3. \A a \in 0 .. Aip(j + 1) : (x \o y)[Len(x) + (a + 1)] = y[a + 1]
      BY <2>8, <3>2
    <3>4. QED
      BY <2>6, <2>8, <3>1, <3>2, <3>3
  <2>11. Len(x \o y) >= 1 /\ (x \o y)[1] = DeviceToken
    BY <2>5, <2>8
  <2>12. \A p \in 1 .. j + 1 : p \in 1 .. j \/ (p = j + 1 /\ p - 1 = j)
    BY <2>1
  <2>13. /\ list[j + 1] = x \o y /\ list[j] = x
         /\ \A p \in 1 .. j : Len(list[p]) = Len(list[p - 1]) + 1 + Aip(p)
    BY <2>2, <2>4 DEF x
  <2>14. ASSUME NEW p \in 1 .. j + 1
         PROVE  /\ Len(list[p - 1]) \in Nat
                /\ Len(list[p]) = Len(list[p - 1]) + 1 + Aip(p)
                /\ Len(list[p - 1]) + 1 + Aip(p) <= Len(x \o y)
                /\ \A a \in 0 .. Aip(p) : (x \o y)[Len(list[p - 1]) + a + 1] = <<p, a>>
    <3>1. CASE p \in 1 .. j
      BY <3>1, <2>7, <2>9, <2>13, Zenon
    <3>2. CASE p = j + 1 /\ p - 1 = j
      <4>1. Len(x \o y) <= Len(x \o y)
        BY <2>8
      <4>2. list[p] = x \o y /\ list[p - 1] = x
        BY <3>2, <2>13
      <4>3. QED
        BY <3>2, <4>1, <4>2, <2>8, <2>10, Zenon
    <3>3. QED
      BY <3>1, <3>2, <2>12, Zenon
  <2>15. QED
    BY <2>8, <2>11, <2>13, <2>14, Zenon
<1>8. S = Nat
  <2>1. S \in SUBSET Nat
    OBVIOUS
  <2> HIDE DEF S, P
  <2>2. QED
    BY <1>6, <1>7, <2>1, EveryNat
<1>9. /\ list[N] \in Seq(Tokens)
      /\ list[N][1] = DeviceToken
      /\ \A p \in 1 .. N :
            /\ Len(list[p - 1]) \in Nat
            /\ Len(list[p]) = Len(list[p - 1]) + 1 + Aip(p)
            /\ Len(list[p - 1]) + 1 + Aip(p) <= Len(list[N])
            /\ \A a \in 0 .. Aip(p) : list[N][Len(list[p - 1]) + a + 1] = <<p, a>>
  <2> HIDE DEF S
  <2>1. N \in S /\ N \in 0 .. N
    BY <1>1, <1>8
  <2>2. P(N)
    <3> HIDE DEF P
    <3> QED BY <2>1 DEF S
  <2>3. QED
    BY <2>2
<1> HIDE DEF S, P
<1> DEFINE off == [p \in 1 .. N + 1 |-> Len(list[p - 1])]
<1>10. off \in [1 .. N + 1 -> Nat] /\ off[1] = 1 /\ off[N + 1] = Len(list[N])
  <2>1. \A p \in 1 .. N + 1 : p \in 1 .. N \/ (p = N + 1 /\ p - 1 = N)
    BY <1>1
  <2>2. Len(list[N]) \in Nat
    BY <1>9
  <2>3. \A p \in 1 .. N + 1 : Len(list[p - 1]) \in Nat
    BY <1>9, <2>1, <2>2
  <2>4. Len(list[0]) = 1
    <3>1. list[0] = <<DeviceToken>>
      BY <1>1, <1>5
    <3>2. QED
      BY <3>1
  <2>5. 1 \in 1 .. N + 1 /\ N + 1 \in 1 .. N + 1 /\ 1 - 1 = 0 /\ N + 1 - 1 = N
    BY <1>1
  <2>6. off \in [1 .. N + 1 -> Nat]
    BY <2>3
  <2>7. off[1] = Len(list[1 - 1]) /\ off[N + 1] = Len(list[N + 1 - 1])
    BY <1>1, <2>5
  <2> HIDE DEF off
  <2>8. QED
    BY <2>4, <2>5, <2>6, <2>7
<1>11. ASSUME NEW p \in 1 .. N
       PROVE  /\ off[p + 1] = off[p] + 1 + Aip(p)
              /\ off[p + 1] <= Len(list[N])
              /\ \A a \in 0 .. Aip(p) : list[N][off[p] + a + 1] = <<p, a>>
  <2>1. p \in 1 .. N + 1 /\ p + 1 \in 1 .. N + 1 /\ p + 1 - 1 = p
    BY <1>1
  <2>2. off[p] = Len(list[p - 1]) /\ off[p + 1] = Len(list[p])
    BY <2>1
  <2> HIDE DEF off
  <2>3. QED
    BY <2>2, <1>9
<1> HIDE DEF off
<1>12. Layout(off, d)
  BY <1>4, <1>9, <1>10, <1>11, Zenon DEF Layout, N, Aip
<1>13. QED
  BY <1>12

Offsets(d) == CHOOSE off : Layout(off, d)

LEMMA OffsetsLayout ==
    ASSUME NEW d \in Device
    PROVE  Layout(Offsets(d), d)
BY LayoutExists DEF Offsets

\* Two messages have the same effect when one is the other after a nest that
\* changes nothing.
Aligned(s, u, n, c) ==
    /\ n \in Nat /\ c \in {0, 1}
    /\ n + Len(s) - c <= Len(u)
    /\ \A i \in c + 1 .. Len(s) : s[i] = u[n + i - c]

LEMMA SameEffect ==
    ASSUME NEW d, NEW k, NEW s \in Seq(Tokens), NEW u \in Seq(Tokens), NEW n, NEW c,
           Aligned(s, u, n, c),
           c = 1 => Len(s) >= 1 /\ SetToken(d, k, s[1]) = k,
           NEW m, m \in c .. Len(s)
    PROVE  SetTokens(d, k, SubSeq(s, 1, m)) = SetTokens(d, k, SubSeq(u, n + 1, n + m - c))
<1> DEFINE left(j) == SetTokens(d, k, SubSeq(s, 1, c + j))
           right(j) == SetTokens(d, k, SubSeq(u, n + 1, n + j))
           S == {j \in Nat : c + j <= Len(s) => left(j) = right(j)}
<1>0. /\ Len(s) \in Nat /\ Len(u) \in Nat /\ n \in Nat /\ c \in {0, 1} /\ c \in Nat /\ c <= Len(s)
      /\ n + Len(s) - c <= Len(u)
  BY DEF Aligned
<1>1. 0 \in S
  <2>1. SubSeq(u, n + 1, n + 0) = << >>
    BY <1>0
  <2>2. right(0) = k
    BY <2>1, SetTokensNone, Zenon
  <2>3. CASE c = 0
    <3>1. SubSeq(s, 1, c + 0) = << >>
      BY <1>0, <2>3
    <3>2. QED
      BY <2>2, <3>1, SetTokensNone, Zenon
  <2>4. CASE c = 1
    <3>1. << >> \in Seq(Tokens) /\ s[1] \in Tokens
      BY <2>4
    <3>2. SubSeq(s, 1, c + 0) = Append(<< >>, s[1])
      <4>1. 0 \in 0 .. Len(s) - 1 /\ 0 + 1 = 1 /\ c + 0 = 1
        BY <1>0, <2>4
      <4>2. SubSeq(s, 0 + 1, 0 + 1) = Append(SubSeq(s, 0 + 1, 0), s[0 + 1])
        BY <4>1, SubSeqNext
      <4>3. SubSeq(s, 1, 0) = << >>
        BY <1>0
      <4>4. QED
        BY <4>1, <4>2, <4>3, Zenon
    <3>3. left(0) = SetToken(d, SetTokens(d, k, << >>), s[1])
      <4>1. SetTokens(d, k, Append(<< >>, s[1])) = SetToken(d, SetTokens(d, k, << >>), s[1])
        BY <3>1, SetTokensAppend, Zenon
      <4>2. QED
        BY <3>2, <4>1, Zenon
    <3>4. QED
      BY <2>2, <2>4, <3>3, SetTokensNone
  <2>5. QED
    BY <2>3, <2>4, <1>0
<1>2. ASSUME NEW j \in S
      PROVE  j + 1 \in S
  <2> SUFFICES ASSUME c + (j + 1) <= Len(s) PROVE left(j + 1) = right(j + 1)
    OBVIOUS
  <2>1. left(j) = right(j) /\ j \in Nat
    BY <1>0
  <2> DEFINE a == SubSeq(s, 1, c + j)
             b == SubSeq(u, n + 1, n + j)
             t == s[c + j + 1]
  <2> HIDE DEF S
  <2>2. t = u[n + j + 1] /\ t \in Tokens /\ c + j + 1 \in 1 .. Len(s) /\ n + j + 1 \in 1 .. Len(u)
    <3>1. c + j + 1 \in c + 1 .. Len(s) /\ n + (c + j + 1) - c = n + j + 1
      BY <1>0, <2>1
    <3>2. c + j + 1 \in 1 .. Len(s) /\ n + j + 1 \in 1 .. Len(u)
      <4>1. c + j + 1 <= Len(s) /\ n + j + 1 <= n + Len(s) - c
        BY <1>0, <2>1
      <4>2. QED
        BY <1>0, <2>1, <4>1
    <3>3. QED
      BY <3>1, <3>2 DEF Aligned
  <2>3. a \in Seq(Tokens) /\ SubSeq(s, 1, c + (j + 1)) = Append(a, t)
    <3>1. c + (j + 1) = (c + j) + 1 /\ c + j \in 0 .. Len(s) - 1
      BY <1>0, <2>1
    <3>2. QED
      <4>1. /\ SubSeq(s, 0 + 1, c + j) \in Seq(Tokens)
            /\ SubSeq(s, 0 + 1, c + j + 1) = Append(SubSeq(s, 0 + 1, c + j), s[c + j + 1])
        <5>1. 0 \in Nat
          OBVIOUS
        <5>2. QED
          BY <3>1, <5>1, SubSeqNext, Zenon
      <4>2. 0 + 1 = 1
        OBVIOUS
      <4>3. QED
        BY <3>1, <4>1, <4>2
  <2>4. b \in Seq(Tokens) /\ SubSeq(u, n + 1, n + (j + 1)) = Append(b, t)
    <3>1. n + (j + 1) = (n + j) + 1 /\ n + j \in n .. Len(u) - 1
      BY <1>0, <2>1
    <3>2. QED
      <4>1. /\ b \in Seq(Tokens)
            /\ SubSeq(u, n + 1, n + j + 1) = Append(b, u[n + j + 1])
        BY <1>0, <3>1, SubSeqNext, Zenon
      <4>2. QED
        BY <2>2, <3>1, <4>1, Zenon
  <2> HIDE DEF a, b, t
  <2>5. SetTokens(d, k, Append(a, t)) = SetToken(d, SetTokens(d, k, a), t)
    BY <2>2, <2>3, SetTokensAppend
  <2>6. SetTokens(d, k, Append(b, t)) = SetToken(d, SetTokens(d, k, b), t)
    BY <2>2, <2>4, SetTokensAppend
  <2>7. SetTokens(d, k, a) = SetTokens(d, k, b)
    BY <2>1 DEF a, b
  <2>8. QED
    BY <2>3, <2>4, <2>5, <2>6, <2>7, Zenon
<1>3. S \in SUBSET Nat
  OBVIOUS
<1>4. S = Nat
  <2> HIDE DEF S
  <2> QED BY <1>1, <1>2, <1>3, EveryNat, Zenon
<1>5. SetTokens(d, k, SubSeq(s, 1, m)) = SetTokens(d, k, SubSeq(u, n + 1, n + m - c))
  <2>1. m - c \in Nat /\ c + (m - c) = m /\ n + (m - c) = n + m - c /\ m <= Len(s)
    BY <1>0
  <2>2. m - c \in S
    BY <1>4, <2>1
  <2>3. left(m - c) = right(m - c)
    BY <2>1, <2>2
  <2>4. QED
    BY <2>1, <2>3
<1>6. QED
  BY <1>5

-----------------------------------------------------------------------------
(***************************************************************************)
(* wg_set_device implements WgApply.  The invariant that carries the proof *)
(* says how far the kernel is in the caller's list of items: what it has   *)
(* taken and the message being built are the first items of that list, in  *)
(* their order, apart from a nest that continues a peer.  Such a nest does *)
(* nothing, because what the kernel will be after the message has the peer *)
(* the cursor is in the middle of.                                         *)
(***************************************************************************)
Building == {"peer", "nest", "allowedip", "send", "sent"}
Taken == Cardinality(applied)
Continues == IF nlh # << >> /\ nlh[1][2] = -1 THEN 1 ELSE 0

\* The kernel after the message, and the number of items before the cursors.
Expected == IF pc \in Building THEN SetTokens(dev, kernel, nlh) ELSE kernel
Count == IF pc = "open" \/ (pc = "again" /\ peer = 0) THEN 0
         ELSE IF peer = 0 THEN Len(Apply!Items(dev))
         ELSE Offsets(dev)[peer] + allowedip

KernelOK == pc \notin {"refused", "done"} =>
               /\ kernel \in Kernel
               /\ Expected \in Kernel
               /\ allowedip # 0 => Standing(dev, peer, Expected)

Lined == pc \in Building =>
            /\ Taken + Len(nlh) - Continues = Count
            /\ \A i \in Continues + 1 .. Len(nlh) :
                  nlh[i][2] >= 0 /\ nlh[i] = Apply!Items(dev)[Taken + i - Continues]
            /\ Continues = 1 => nlh[1][1] \in 1 .. NPeers /\ Standing(dev, nlh[1][1], kernel)
                                /\ nlh[1] = ContinueToken(nlh[1][1])

InOrder == /\ IsFiniteSet(applied) /\ Taken \in Nat
           /\ KernelOK
           /\ pc \in {"open", "again", "acked"} => Taken = Count
           /\ Lined

\* The list of items around the cursors.
LEMMA Positions ==
    ASSUME TypeOK
    PROVE  /\ dev \in Device
           /\ Apply!Items(dev) \in Seq(Tokens)
           /\ Len(Apply!Items(dev)) \in Nat
           /\ Offsets(dev)[1] = 1
           /\ Offsets(dev)[NPeers + 1] = Len(Apply!Items(dev))
           /\ Apply!Items(dev)[1] = DeviceToken
           /\ \A p \in 1 .. NPeers :
                 /\ Offsets(dev)[p] \in Nat
                 /\ Offsets(dev)[p + 1] = Offsets(dev)[p] + 1 + Len(Aips(p))
                 /\ Offsets(dev)[p + 1] <= Len(Apply!Items(dev))
                 /\ \A a \in 0 .. Len(Aips(p)) : Apply!Items(dev)[Offsets(dev)[p] + a + 1] = <<p, a>>
<1>1. dev \in Device
  BY DevicesAssumption DEF TypeOK
<1>2. Layout(Offsets(dev), dev)
  BY <1>1, OffsetsLayout
<1>3. \A p \in 1 .. NPeers : p \in 1 .. NPeers + 1
  BY DeviceTypes
<1>4. \A p \in 1 .. NPeers : Offsets(dev)[p] \in Nat
  BY <1>2, <1>3, Zenon DEF Layout, NPeers
<1>5. Apply!Items(dev) \in Seq(Tokens) /\ Len(Apply!Items(dev)) \in Nat
  BY <1>2 DEF Layout
<1>6. QED
  BY <1>1, <1>2, <1>4, <1>5 DEF Layout, NPeers, Aips

\* Steps that change neither the message nor what the kernel has.
LEMMA InOrderQuiet ==
    ASSUME TypeOK, InOrder,
           \/ Open \/ ToobigPeers \/ NestAllowedips \/ ToobigAllowedips \/ Send \/ Recv
           \/ UNCHANGED vars
    PROVE  InOrder'
<1>1. /\ UNCHANGED <<dev, peer, allowedip, nlh, kernel, applied>>
      /\ \/ pc = "open" /\ pc' = "again"
         \/ pc' = "done"
         \/ pc \in Building /\ pc' \in Building
         \/ pc = "acked" /\ pc' = "again" /\ peer # 0
         \/ pc' = pc
  BY DEF Open, ToobigPeers, NestAllowedips, ToobigAllowedips, Send, Recv, Goto, NoPut, cursors, vars,
         Building
<1>2. /\ NPeers' = NPeers /\ Taken' = Taken /\ Continues' = Continues
      /\ Apply!Items(dev)' = Apply!Items(dev)
  BY <1>1, Zenon DEF NPeers, Taken, Continues
<1>3. pc' # "done" => Expected' = Expected
  BY <1>1 DEF Expected, Building
<1>4. pc' # "done" => Count' = Count
  BY <1>1 DEF Count, TypeOK, Building
<1>5. KernelOK'
  BY <1>1, <1>3 DEF InOrder, KernelOK, Building
<1>6. Lined'
  BY <1>1, <1>2, <1>4 DEF InOrder, Lined, Building
<1>7. QED
  BY <1>1, <1>2, <1>4, <1>5, <1>6 DEF InOrder, Building

\* A fresh message opens with the device or is empty.
LEMMA InOrderAgain ==
    ASSUME TypeOK, InOrder, Again
    PROVE  InOrder'
<1>1. /\ UNCHANGED <<dev, allowedip, kernel, applied>>
      /\ pc = "again" /\ pc' \in {"peer", "send"}
      /\ NPeers' = NPeers /\ Taken' = Taken
      /\ Apply!Items(dev)' = Apply!Items(dev)
      /\ Offsets(dev)' = Offsets(dev)
  BY DEF Again, Goto, NPeers, Taken
<1>2. kernel \in Kernel /\ Taken = Count /\ IsFiniteSet(applied) /\ Taken \in Nat
  BY <1>1 DEF InOrder, KernelOK
<1>3. /\ NPeers \in Nat /\ dev \in Device
      /\ Offsets(dev)[1] = 1
      /\ Offsets(dev)[NPeers + 1] = Len(Apply!Items(dev))
      /\ Apply!Items(dev)[1] = DeviceToken
  BY Positions, DeviceTypes
<1>4. Expected' = SetTokens(dev, kernel, nlh')
  BY <1>1 DEF Expected, Building
<1>5. CASE peer = 0
  <2>1. nlh' = <<DeviceToken>> /\ allowedip = 0 /\ Taken = 0
    BY <1>1, <1>2, <1>5 DEF Again, TypeOK, Count
  <2>2. Continues' = 0 /\ Len(nlh') = 1 /\ nlh'[1] = DeviceToken
    BY <2>1 DEF Continues, DeviceToken
  <2>3. Count' = 1
    <3>1. CASE NPeers = 0
      <4>1. peer' = 0
        BY <1>5, <3>1 DEF Again
      <4>2. QED
        BY <1>1, <1>3, <3>1, <4>1 DEF Count
    <3>2. CASE NPeers > 0
      <4>1. peer' = 1
        BY <1>5, <3>2 DEF Again
      <4>2. QED
        BY <1>1, <1>3, <2>1, <4>1 DEF Count
    <3>3. QED
      BY <1>3, <3>1, <3>2
  <2>4. Expected' = SetToken(dev, kernel, DeviceToken)
    <3>1. << >> \in Seq(Tokens) /\ DeviceToken \in Tokens /\ Append(<< >>, DeviceToken) = <<DeviceToken>>
      BY DEF Tokens, DeviceToken
    <3>2. SetTokens(dev, kernel, Append(<< >>, DeviceToken))
            = SetToken(dev, SetTokens(dev, kernel, << >>), DeviceToken)
      BY <3>1, SetTokensAppend, Zenon
    <3>3. QED
      BY <1>4, <2>1, <3>1, <3>2, SetTokensNone
  <2>5. KernelOK'
    BY <1>1, <1>2, <2>1, <2>4, DeviceEffect DEF KernelOK
  <2>6. Lined'
    <3>1. \A i \in Continues' + 1 .. Len(nlh') : i = 1
      BY <2>2
    <3>2. DeviceToken[2] >= 0
      BY DEF DeviceToken
    <3>3. Apply!Items(dev)'[Taken' + 1 - Continues'] = DeviceToken
      BY <1>1, <1>3, <2>1, <2>2
    <3>4. Taken' + Len(nlh') - Continues' = Count'
      BY <1>1, <2>1, <2>2, <2>3
    <3>5. QED
      BY <2>2, <3>1, <3>2, <3>3, <3>4 DEF Lined
  <2>7. QED
    BY <1>1, <1>2, <2>5, <2>6 DEF InOrder
<1>6. CASE peer # 0
  <2>1. nlh' = << >> /\ peer' = peer /\ pc' = "peer"
    BY <1>1, <1>6 DEF Again, Goto, TypeOK
  <2>2. Continues' = 0 /\ Len(nlh') = 0
    BY <2>1 DEF Continues
  <2>3. Count' = Count /\ Count \in Nat
    <3>1. Offsets(dev)[peer] \in Nat /\ allowedip \in Nat
      BY <1>6, Positions, DeviceTypes DEF TypeOK
    <3>2. QED
      BY <1>1, <1>6, <2>1, <3>1 DEF Count
  <2>4. Expected' = kernel /\ Expected = kernel
    BY <1>1, <1>4, <2>1, SetTokensNone DEF Expected, Building
  <2>5. KernelOK'
    BY <1>1, <1>2, <2>1, <2>4 DEF InOrder, KernelOK
  <2>6. Lined'
    BY <1>1, <1>2, <2>2, <2>3 DEF Lined
  <2>7. QED
    BY <1>1, <1>2, <2>5, <2>6 DEF InOrder
<1>7. QED
  BY <1>5, <1>6

\* An item is put behind the cursors: what PutPeer and PutAllowedip share.
LEMMA InOrderPut ==
    ASSUME TypeOK, InOrder, NEW t \in Tokens, t[2] >= 0,
           pc \in {"peer", "allowedip"}, pc' \in Building,
           UNCHANGED <<dev, kernel, applied>>,
           nlh' = Append(nlh, t),
           t = Apply!Items(dev)[Count + 1],
           Count' = Count + 1,
           SetToken(dev, Expected, t) \in Kernel,
           allowedip' # 0 => Standing(dev, peer', SetToken(dev, Expected, t))
    PROVE  InOrder'
<1>1. /\ NPeers' = NPeers /\ Taken' = Taken
      /\ Apply!Items(dev)' = Apply!Items(dev)
      /\ pc \in Building
  BY DEF NPeers, Taken, Building
<1>2. /\ kernel \in Kernel /\ IsFiniteSet(applied) /\ Taken \in Nat
      /\ Taken + Len(nlh) - Continues = Count
      /\ \A i \in Continues + 1 .. Len(nlh) :
            nlh[i][2] >= 0 /\ nlh[i] = Apply!Items(dev)[Taken + i - Continues]
      /\ Continues = 1 => /\ nlh[1][1] \in 1 .. NPeers
                          /\ Standing(dev, nlh[1][1], kernel)
                          /\ nlh[1] = ContinueToken(nlh[1][1])
  BY <1>1 DEF InOrder, KernelOK, Lined, Building
<1>3. nlh \in Seq(Tokens) /\ Len(nlh) \in Nat
  BY ONLY TypeOK, MessageType
<1>4. Expected' = SetToken(dev, Expected, t)
  <2>1. Expected = SetTokens(dev, kernel, nlh) /\ Expected' = SetTokens(dev, kernel, Append(nlh, t))
    BY <1>1 DEF Expected
  <2>2. QED
    BY <1>3, <2>1, SetTokensAppend, Zenon
<1>5. /\ Continues' = Continues
      /\ Len(nlh') = Len(nlh) + 1
      /\ \A i \in Continues + 1 .. Len(nlh') :
            nlh'[i][2] >= 0 /\ nlh'[i] = Apply!Items(dev)[Taken + i - Continues]
      /\ Continues = 1 => nlh'[1] = nlh[1]
  <2> DEFINE items == Apply!Items(dev)
  <2>1. Continues = Tag(nlh) /\ Continues' = Tag(nlh')
    BY DEF Continues, Tag
  <2>2. t = items[Taken + Len(nlh) - Tag(nlh) + 1]
    BY <1>2, <2>1
  <2>3. InLine(nlh, items, Taken)
    BY <1>2, <2>1 DEF InLine
  <2>4. t \in Tokens /\ t[2] >= 0 /\ Taken \in Nat /\ nlh \in Seq(Tokens) /\ nlh' = Append(nlh, t)
    BY <1>2, <1>3
  <2> HIDE DEF items
  <2>5. /\ Tag(nlh') = Tag(nlh)
        /\ Len(nlh') = Len(nlh) + 1
        /\ InLine(nlh', items, Taken)
        /\ Tag(nlh) = 1 => nlh'[1] = nlh[1]
    BY ONLY <2>2, <2>3, <2>4, LinedAppend
  <2>6. QED
    BY ONLY <2>1, <2>5 DEF items, InLine
<1>6. KernelOK'
  BY <1>2, <1>4 DEF KernelOK
<1>7. Lined'
  <2>1. Taken' + Len(nlh') - Continues' = Count'
    <3>1. Continues \in {0, 1}
      BY DEF Continues
    <3>2. Taken + Len(nlh) - Continues = Count /\ Taken \in Nat
      BY <1>2
    <3>3. Taken' = Taken /\ Len(nlh') = Len(nlh) + 1 /\ Continues' = Continues
      BY <1>1, <1>5
    <3>4. Taken + (Len(nlh) + 1) - Continues = (Taken + Len(nlh) - Continues) + 1
      BY <1>3, <3>1, <3>2
    <3>5. QED
      BY <3>2, <3>3, <3>4
  <2>2. QED
    BY <1>1, <1>2, <1>5, <2>1, Zenon DEF Lined
<1>8. IsFiniteSet(applied)' /\ Taken' \in Nat
  BY <1>1, <1>2
<1>9. QED
  BY <1>1, <1>6, <1>7, <1>8 DEF InOrder, Building

\* The cursors move past the last item of a peer.
LEMMA CountNextPeer ==
    ASSUME TypeOK, dev' = dev, peer \in 1 .. NPeers, NextPeer, allowedip' = 0,
           Count = Offsets(dev)[peer] + Len(Aips(peer))
    PROVE  Count' = Count + 1 /\ pc' \in Building
<1>1. /\ Offsets(dev)[peer] \in Nat /\ Len(Aips(peer)) \in Nat /\ NPeers \in Nat
      /\ Offsets(dev)[peer + 1] = Offsets(dev)[peer] + 1 + Len(Aips(peer))
      /\ Offsets(dev)[NPeers + 1] = Len(Apply!Items(dev))
  BY Positions, DeviceTypes
<1>2. pc' \in {"peer", "send"}
  BY DEF NextPeer, Goto
<1>3. CASE peer < NPeers
  <2>1. peer' = peer + 1 /\ peer' # 0
    BY <1>1, <1>3 DEF NextPeer
  <2>2. Count' = Offsets(dev)[peer + 1] + 0
    BY <1>2, <2>1 DEF Count
  <2>3. QED
    BY <1>1, <1>2, <2>2 DEF Building
<1>4. CASE ~(peer < NPeers)
  <2>1. peer' = 0 /\ peer = NPeers
    BY <1>1, <1>4 DEF NextPeer
  <2>2. Count' = Len(Apply!Items(dev))
    BY <1>2, <2>1 DEF Count
  <2>3. QED
    BY <1>1, <1>2, <2>1, <2>2 DEF Building
<1>5. QED
  BY <1>3, <1>4

\* A peer is started, or continued in an empty message.
LEMMA InOrderPutPeer ==
    ASSUME TypeOK, ResumesAlone, InOrder, PutPeer
    PROVE  InOrder'
<1>1. /\ UNCHANGED <<dev, kernel, applied>>
      /\ pc = "peer" /\ pc \in Building
      /\ peer \in 1 .. NPeers
      /\ allowedip \in 0 .. Len(Aips(peer))
      /\ dev \in Device
      /\ Len(Aips(peer)) \in Nat
      /\ Aips(peer) = << >> <=> Len(Aips(peer)) = 0
  <2>1. UNCHANGED <<dev, kernel, applied>> /\ pc = "peer" /\ pc \in Building
    BY DEF PutPeer, Building
  <2>2. /\ NPeers \in Nat /\ dev \in Device
        /\ \A p \in 1 .. NPeers : Aips(p) \in Seq(Ip)
    BY ONLY TypeOK, Positions, DeviceTypes
  <2>3. peer \in 1 .. NPeers /\ allowedip \in 0 .. Len(Aips(peer))
    <3>1. peer # 0 /\ peer \in 0 .. NPeers
      BY ONLY TypeOK, <2>1 DEF TypeOK
    <3>2. peer \in 1 .. NPeers
      BY ONLY <3>1, <2>2
    <3>3. QED
      BY ONLY TypeOK, <3>1, <3>2 DEF TypeOK
  <2>4. Aips(peer) \in Seq(Ip)
    BY ONLY <2>2, <2>3
  <2>5. Len(Aips(peer)) \in Nat /\ (Aips(peer) = << >> <=> Len(Aips(peer)) = 0)
    BY ONLY <2>4
  <2>6. QED
    BY ONLY <2>1, <2>2, <2>3, <2>5
<1>2. /\ Offsets(dev)[peer] \in Nat
      /\ \A a \in 0 .. Len(Aips(peer)) : Apply!Items(dev)[Offsets(dev)[peer] + a + 1] = <<peer, a>>
  BY <1>1, Positions, Zenon
<1>3. Count = Offsets(dev)[peer] + allowedip
  BY <1>1 DEF Count
<1>4. kernel \in Kernel /\ Expected \in Kernel /\ Expected = SetTokens(dev, kernel, nlh)
      /\ (allowedip # 0 => Standing(dev, peer, Expected))
  BY <1>1 DEF InOrder, KernelOK, Expected
<1>5. peer \in Nat /\ peer \in 1 .. Len(dev.peers)
  BY <1>1 DEF NPeers
<1>6. CASE allowedip = 0
  <2> DEFINE t == PeerToken(peer)
  <2>1. nlh' = Append(nlh, t)
    BY <1>6 DEF PutPeer, Put
  <2>2. t \in Tokens /\ t[2] >= 0 /\ t = <<peer, 0>>
    BY <1>5 DEF PeerToken, Tokens
  <2>3. t = Apply!Items(dev)[Count + 1]
    <3>1. Count + 1 = Offsets(dev)[peer] + 0 + 1 /\ 0 \in 0 .. Len(Aips(peer))
      BY <1>1, <1>2, <1>3, <1>6
    <3>2. QED
      BY <1>2, <2>2, <3>1, Zenon
  <2>4. SetToken(dev, Expected, t) \in Kernel /\ Standing(dev, peer, SetToken(dev, Expected, t))
    BY <1>1, <1>4, <1>5, PeerEffect
  <2> HIDE DEF t
  <2>5. Count' = Count + 1 /\ pc' \in Building /\ (allowedip' # 0 => peer' = peer)
    <3>1. CASE Aips(peer) = << >>
      <4>1. NextPeer /\ allowedip' = 0 /\ Count = Offsets(dev)[peer] + Len(Aips(peer))
        BY <1>1, <1>3, <1>6, <3>1 DEF PutPeer
      <4>2. QED
        BY <1>1, <4>1, CountNextPeer
    <3>2. CASE Aips(peer) # << >>
      <4>1. allowedip' = 1 /\ pc' = "nest" /\ peer' = peer
        BY <1>6, <3>2 DEF PutPeer, Goto
      <4>2. Count' = Offsets(dev)[peer] + 1
        BY <1>1, <4>1 DEF Count
      <4>3. QED
        BY <1>2, <1>3, <1>6, <4>1, <4>2 DEF Building
    <3>3. QED
      BY <3>1, <3>2
  <2>6. allowedip' # 0 => Standing(dev, peer', SetToken(dev, Expected, t))
    BY <2>4, <2>5
  <2>7. QED
    BY <1>1, <2>1, <2>2, <2>3, <2>4, <2>5, <2>6, InOrderPut
<1>7. CASE allowedip # 0
  <2> DEFINE t == ContinueToken(peer)
  <2>1. nlh = << >> /\ nlh' = Append(<< >>, t) /\ nlh' = <<t>>
    BY <1>1, <1>7 DEF PutPeer, Put, ResumesAlone
  <2>2. t \in Tokens /\ t[2] = -1 /\ t = <<peer, -1>> /\ t[1] = peer /\ << >> \in Seq(Tokens)
    BY <1>5 DEF ContinueToken, Tokens
  <2>3. allowedip' = allowedip /\ peer' = peer /\ pc' = "nest"
    BY <1>1, <1>7 DEF PutPeer, Goto
  <2>4. Expected = kernel /\ Standing(dev, peer, kernel)
    BY <1>4, <1>7, <2>1, SetTokensNone
  <2>5. SetToken(dev, kernel, t) = kernel
    BY <1>1, <1>4, <1>5, <2>4, ContinueEffect
  <2>6. Expected' = kernel
    <3>1. Expected' = SetTokens(dev, kernel, Append(<< >>, t))
      BY <1>1, <2>1, <2>3 DEF Expected, Building
    <3>2. SetTokens(dev, kernel, Append(<< >>, t)) = SetToken(dev, SetTokens(dev, kernel, << >>), t)
      BY <2>2, SetTokensAppend, Zenon
    <3>3. QED
      BY <2>5, <3>1, <3>2, SetTokensNone
  <2>7. KernelOK'
    BY <1>1, <1>4, <2>3, <2>4, <2>6 DEF KernelOK
  <2>8. /\ Continues = 0 /\ Len(nlh) = 0
        /\ Continues' = 1 /\ Len(nlh') = 1 /\ nlh'[1] = t
    BY <2>1, <2>2 DEF Continues
  <2>9. Taken' = Taken /\ Taken = Count /\ Count' = Count /\ Count \in Nat
    <3>1. Taken \in Nat /\ Taken + Len(nlh) - Continues = Count
      BY <1>1 DEF InOrder, Lined
    <3>2. Taken' = Taken
      BY <1>1 DEF Taken
    <3>3. Count' = Count
      BY <1>1, <2>3 DEF Count
    <3>4. QED
      BY <2>8, <3>1, <3>2, <3>3
  <2>10. Lined'
    <3>1. Taken' + Len(nlh') - Continues' = Count'
      BY <2>8, <2>9
    <3>2. \A i \in Continues' + 1 .. Len(nlh') : FALSE
      BY <2>8
    <3>3. /\ nlh'[1][1] \in 1 .. NPeers' /\ Standing(dev', nlh'[1][1], kernel')
          /\ nlh'[1] = ContinueToken(nlh'[1][1])
      BY <1>1, <2>2, <2>4, <2>8 DEF NPeers
    <3>4. QED
      BY <3>1, <3>2, <3>3 DEF Lined
  <2>11. QED
    BY <1>1, <2>3, <2>7, <2>9, <2>10 DEF InOrder
<1>8. QED
  BY <1>6, <1>7

\* An allowed IP of the peer the cursor is in.
LEMMA InOrderPutAllowedip ==
    ASSUME TypeOK, InOrder, PutAllowedip
    PROVE  InOrder'
<1>1. /\ UNCHANGED <<dev, kernel, applied>>
      /\ pc = "allowedip" /\ pc \in Building
      /\ peer \in 1 .. NPeers
      /\ allowedip \in 1 .. Len(Aips(peer))
      /\ dev \in Device
      /\ Len(Aips(peer)) \in Nat
  <2>1. UNCHANGED <<dev, kernel, applied>> /\ pc = "allowedip" /\ pc \in Building
    BY DEF PutAllowedip, Building
  <2>2. /\ NPeers \in Nat /\ dev \in Device
        /\ \A p \in 1 .. NPeers : Aips(p) \in Seq(Ip)
    BY ONLY TypeOK, Positions, DeviceTypes
  <2>3. peer \in 1 .. NPeers /\ allowedip \in 0 .. Len(Aips(peer)) /\ allowedip # 0
    <3>1. peer # 0 /\ peer \in 0 .. NPeers /\ allowedip # 0
      BY ONLY TypeOK, <2>1 DEF TypeOK
    <3>2. peer \in 1 .. NPeers
      BY ONLY <3>1, <2>2
    <3>3. QED
      BY ONLY TypeOK, <3>1, <3>2 DEF TypeOK
  <2>4. Len(Aips(peer)) \in Nat
    <3>1. Aips(peer) \in Seq(Ip)
      BY ONLY <2>2, <2>3
    <3>2. QED
      BY ONLY <3>1
  <2>5. QED
    BY <2>1, <2>2, <2>3, <2>4
<1>2. /\ Offsets(dev)[peer] \in Nat
      /\ \A a \in 0 .. Len(Aips(peer)) : Apply!Items(dev)[Offsets(dev)[peer] + a + 1] = <<peer, a>>
  BY <1>1, Positions, Zenon
<1>3. Count = Offsets(dev)[peer] + allowedip
  BY <1>1 DEF Count
<1>4. Expected \in Kernel /\ Standing(dev, peer, Expected)
  BY <1>1 DEF InOrder, KernelOK
<1>5. peer \in Nat /\ peer \in 1 .. Len(dev.peers) /\ allowedip \in 1 .. Len(dev.peers[peer].aips)
  BY <1>1 DEF NPeers, Aips
<1> DEFINE t == AllowedipToken(peer, allowedip)
<1>6. nlh' = Append(nlh, t)
  BY DEF PutAllowedip, Put
<1>7. t \in Tokens /\ t[2] >= 0 /\ t = <<peer, allowedip>>
  BY <1>1, <1>5 DEF AllowedipToken, Tokens
<1>8. t = Apply!Items(dev)[Count + 1]
  <2>1. Count + 1 = Offsets(dev)[peer] + allowedip + 1 /\ allowedip \in 0 .. Len(Aips(peer))
    BY <1>1, <1>2, <1>3
  <2>2. QED
    BY <1>2, <1>7, <2>1, Zenon
<1>9. SetToken(dev, Expected, t) \in Kernel /\ Standing(dev, peer, SetToken(dev, Expected, t))
  BY <1>1, <1>4, <1>5, AllowedipEffect, Zenon
<1> HIDE DEF t
<1>10. Count' = Count + 1 /\ pc' \in Building /\ (allowedip' # 0 => peer' = peer)
  <2>1. CASE allowedip < Len(Aips(peer))
    <3>1. allowedip' = allowedip + 1 /\ pc' = "allowedip" /\ peer' = peer
      BY <1>1, <2>1 DEF PutAllowedip
    <3>2. Count' = Offsets(dev)[peer] + (allowedip + 1)
      BY <1>1, <3>1 DEF Count
    <3>3. Offsets(dev)[peer] + (allowedip + 1) = (Offsets(dev)[peer] + allowedip) + 1
      <4>1. Offsets(dev)[peer] \in Nat /\ allowedip \in Nat
        BY <1>1, <1>2
      <4>2. QED
        BY <4>1
    <3>4. QED
      BY <1>3, <3>1, <3>2, <3>3 DEF Building
  <2>2. CASE ~(allowedip < Len(Aips(peer)))
    <3>1. NextPeer /\ allowedip' = 0 /\ Count = Offsets(dev)[peer] + Len(Aips(peer))
      <4>1. allowedip = Len(Aips(peer))
        BY <1>1, <2>2
      <4>2. QED
        BY <1>3, <2>2, <4>1 DEF PutAllowedip
    <3>2. QED
      BY <1>1, <3>1, CountNextPeer
  <2>3. QED
    BY <2>1, <2>2
<1>11. allowedip' # 0 => Standing(dev, peer', SetToken(dev, Expected, t))
  BY <1>9, <1>10
<1>12. QED
  BY <1>1, <1>6, <1>7, <1>8, <1>9, <1>10, <1>11, InOrderPut

\* The items the kernel has when it has handled m tokens of the message.
With(m) == applied \cup ItemsOf(SubSeq(nlh, 1, m))

\* The message the kernel is about to handle, and the list it comes from.
LEMMA SentMessage ==
    ASSUME Cursors, InOrder, pc = "sent"
    PROVE  /\ nlh \in Seq(Tokens) /\ Len(nlh) \in Nat /\ Taken \in Nat
           /\ \A i \in Continues + 1 .. Len(nlh) :
                 nlh[i][2] >= 0 /\ nlh[i] = Apply!Items(dev)[Taken + i - Continues]
           /\ Continues = 1 => /\ nlh[1][1] \in 1 .. NPeers
                               /\ Standing(dev, nlh[1][1], kernel)
                               /\ nlh[1] = ContinueToken(nlh[1][1])
           /\ kernel \in Kernel /\ dev \in Device
           /\ Continues \in {0, 1} /\ (Continues = 1 => Len(nlh) >= 1 /\ nlh[1][2] = -1)
           /\ Apply!Items(dev) \in Seq(Tokens) /\ Len(Apply!Items(dev)) \in Nat
           /\ Taken + Len(nlh) - Continues <= Len(Apply!Items(dev))
<1>1. nlh \in Seq(Tokens) /\ Len(nlh) \in Nat
  BY ONLY Cursors, MessageType DEF Cursors
<1>2. pc \in Building /\ pc \notin {"refused", "done"}
  BY DEF Building
<1>3. Lined /\ KernelOK /\ Taken \in Nat
  BY ONLY InOrder DEF InOrder
<1>4. kernel \in Kernel
  BY ONLY <1>2, <1>3 DEF KernelOK
<1>5. /\ Taken + Len(nlh) - Continues = Count
      /\ \A i \in Continues + 1 .. Len(nlh) :
            nlh[i][2] >= 0 /\ nlh[i] = Apply!Items(dev)[Taken + i - Continues]
      /\ Continues = 1 => /\ nlh[1][1] \in 1 .. NPeers
                          /\ Standing(dev, nlh[1][1], kernel)
                          /\ nlh[1] = ContinueToken(nlh[1][1])
  BY ONLY <1>2, <1>3, Zenon DEF Lined
<1>6. Continues \in {0, 1} /\ (Continues = 1 => Len(nlh) >= 1 /\ nlh[1][2] = -1)
  BY <1>1 DEF Continues
<1>7. Apply!Items(dev) \in Seq(Tokens) /\ Len(Apply!Items(dev)) \in Nat /\ dev \in Device
  BY Positions DEF Cursors
<1>8. Count <= Len(Apply!Items(dev))
  <2>1. CASE peer = 0
    BY <1>7, <2>1 DEF Count
  <2>2. CASE peer # 0
    <3>1. peer \in 1 .. NPeers /\ allowedip \in 0 .. Len(Aips(peer)) /\ Len(Aips(peer)) \in Nat
      BY <2>2, DeviceTypes DEF Cursors, TypeOK
    <3> DEFINE items == Apply!Items(dev)
    <3>2. /\ Offsets(dev)[peer] \in Nat
          /\ Offsets(dev)[peer + 1] = Offsets(dev)[peer] + 1 + Len(Aips(peer))
          /\ Offsets(dev)[peer + 1] <= Len(items)
      BY <3>1, Positions DEF Cursors
    <3>3. Count = Offsets(dev)[peer] + allowedip
      BY <2>2 DEF Count
    <3>4. Len(items) \in Nat
      BY <1>7
    <3> HIDE DEF items
    <3>5. Count <= Len(items)
      BY ONLY <3>1, <3>2, <3>3, <3>4
    <3>6. QED
      BY <3>5 DEF items
  <2>3. QED
    BY <2>1, <2>2
<1>9. QED
  BY ONLY <1>1, <1>3, <1>4, <1>5, <1>6, <1>7, <1>8

\* A nest that continues a peer carries no item of its own.
LEMMA NoItems ==
    ASSUME NEW s \in Seq(Tokens), NEW c \in {0, 1}, c = 1 => Len(s) >= 1 /\ s[1][2] = -1
    PROVE  ItemsOf(SubSeq(s, 1, 0)) = {} /\ ItemsOf(SubSeq(s, 1, c)) = {}
<1>1. SubSeq(s, 1, 0) = << >> /\ Len(<< >>) = 0
  BY ONLY s \in Seq(Tokens)
<1>2. ItemsOf(SubSeq(s, 1, 0)) = {}
  BY <1>1 DEF ItemsOf
<1>3. CASE c = 0
  BY <1>2, <1>3
<1>4. CASE c = 1
  <2>1. Len(s) \in Nat /\ 0 \in 0 .. Len(s) - 1 /\ 0 + 1 = 1 /\ s[1] \in Tokens /\ ~(s[1][2] >= 0)
    BY <1>4
  <2>2. /\ SubSeq(s, 0 + 1, 0) \in Seq(Tokens)
        /\ SubSeq(s, 0 + 1, 0 + 1) = Append(SubSeq(s, 0 + 1, 0), s[0 + 1])
    BY <2>1, SubSeqNext
  <2>3. SubSeq(s, 1, 0) \in Seq(Tokens) /\ SubSeq(s, 1, 1) = Append(SubSeq(s, 1, 0), s[1])
    BY <2>1, <2>2
  <2>4. QED
    BY <1>2, <1>4, <2>1, <2>3, ItemsOfAppend, Zenon
<1>5. QED
  BY <1>2, <1>3, <1>4

\* Each token after the continuation is an item the kernel does not have yet.
LEMMA NewItem ==
    ASSUME Cursors, pc = "sent", nlh \in Seq(Tokens), NEW n \in 0 .. Len(nlh) - 1, nlh[n + 1][2] >= 0
    PROVE  /\ nlh[n + 1] \notin With(n)
           /\ With(n + 1) = With(n) \cup {nlh[n + 1]}
<1> DEFINE t == nlh[n + 1]
<1>1. n \in Nat /\ Len(nlh) \in Nat /\ n + 1 \in 1 .. Len(nlh) /\ n <= Len(nlh) /\ t \in Tokens
  OBVIOUS
<1>2. SubSeq(nlh, 1, n) \in Seq(Tokens) /\ SubSeq(nlh, 1, n + 1) = Append(SubSeq(nlh, 1, n), t)
  <2>1. /\ SubSeq(nlh, 0 + 1, n) \in Seq(Tokens)
        /\ SubSeq(nlh, 0 + 1, n + 1) = Append(SubSeq(nlh, 0 + 1, n), nlh[n + 1])
    BY SubSeqNext
  <2>2. 0 + 1 = 1
    OBVIOUS
  <2>3. QED
    BY <2>1, <2>2, Zenon
<1>3. /\ applied \cap ItemsOf(nlh) = {}
      /\ \A i, j \in 1 .. Len(nlh) : nlh[i] = nlh[j] => i = j
  BY DEF Cursors, EachItemOnce
<1>4. t \in ItemsOf(nlh)
  BY <1>1 DEF ItemsOf
<1>5. /\ Len(SubSeq(nlh, 1, n)) = n
      /\ \A i \in 1 .. n : SubSeq(nlh, 1, n)[i] = nlh[i] /\ i # n + 1 /\ i \in 1 .. Len(nlh)
  BY ONLY nlh \in Seq(Tokens), <1>1
<1>6. \A i \in 1 .. n : SubSeq(nlh, 1, n)[i] # t
  BY <1>1, <1>3, <1>5
<1>7. t \notin ItemsOf(SubSeq(nlh, 1, n))
  BY <1>5, <1>6 DEF ItemsOf
<1>8. ItemsOf(SubSeq(nlh, 1, n + 1)) = ItemsOf(SubSeq(nlh, 1, n)) \cup {t}
  <2> HIDE DEF t
  <2>1. t[2] >= 0
    BY DEF t
  <2>2. QED
    BY <1>1, <1>2, <2>1, ItemsOfAppend, Zenon
<1>9. QED
  BY <1>3, <1>4, <1>7, <1>8 DEF With

\* What a part of the message does to the kernel: what the same items of the
\* list do, and nothing when it stops before the first of them.
LEMMA TakesEffect ==
    ASSUME Cursors, InOrder, pc = "sent",
           NEW m \in 0 .. Len(nlh)
    PROVE  /\ m >= Continues =>
                 /\ Taken + m - Continues <= Len(Apply!Items(dev))
                 /\ SetTokens(dev, kernel, SubSeq(nlh, 1, m))
                      = SetTokens(dev, kernel, SubSeq(Apply!Items(dev), Taken + 1, Taken + m - Continues))
           /\ m < Continues => SetTokens(dev, kernel, SubSeq(nlh, 1, m)) = kernel
<1> DEFINE c == Continues
           items == Apply!Items(dev)
<1>1. /\ nlh \in Seq(Tokens) /\ Len(nlh) \in Nat /\ Taken \in Nat
      /\ \A i \in c + 1 .. Len(nlh) : nlh[i] = items[Taken + i - c]
      /\ c = 1 => /\ nlh[1][1] \in 1 .. NPeers
                  /\ Standing(dev, nlh[1][1], kernel)
                  /\ nlh[1] = ContinueToken(nlh[1][1])
      /\ kernel \in Kernel /\ dev \in Device
      /\ c \in {0, 1} /\ (c = 1 => Len(nlh) >= 1)
      /\ items \in Seq(Tokens) /\ Len(items) \in Nat
      /\ Taken + Len(nlh) - c <= Len(items)
  BY SentMessage
<1> HIDE DEF c, items
<1>2. c = 1 => Len(nlh) >= 1 /\ SetToken(dev, kernel, nlh[1]) = kernel
  <2> SUFFICES ASSUME c = 1 PROVE SetToken(dev, kernel, nlh[1]) = kernel
    BY <1>1
  <2>1. /\ nlh[1][1] \in 1 .. Len(dev.peers)
        /\ Standing(dev, nlh[1][1], kernel)
        /\ nlh[1] = ContinueToken(nlh[1][1])
    BY <1>1 DEF NPeers
  <2>2. SetToken(dev, kernel, ContinueToken(nlh[1][1])) = kernel
    BY <1>1, <2>1, ContinueEffect
  <2>3. QED
    BY <2>1, <2>2
<1>3. ASSUME m >= c
      PROVE  /\ Taken + m - c <= Len(items)
             /\ SetTokens(dev, kernel, SubSeq(nlh, 1, m))
                  = SetTokens(dev, kernel, SubSeq(items, Taken + 1, Taken + m - c))
  <2>1. m \in c .. Len(nlh) /\ Taken + m - c <= Len(items)
    <3>1. /\ Len(nlh) \in Nat /\ Taken \in Nat /\ c \in {0, 1} /\ Len(items) \in Nat
          /\ Taken + Len(nlh) - c <= Len(items)
      BY ONLY <1>1
    <3>2. QED
      BY ONLY <3>1, <1>3, m \in 0 .. Len(nlh)
  <2>2. Aligned(nlh, items, Taken, c)
    BY ONLY <1>1 DEF Aligned
  <2>3. nlh \in Seq(Tokens) /\ items \in Seq(Tokens)
    BY <1>1
  <2>4. QED
    BY <1>2, <2>1, <2>2, <2>3, SameEffect
<1>4. ASSUME m < c
      PROVE  SetTokens(dev, kernel, SubSeq(nlh, 1, m)) = kernel
  <2>1. m = 0
    BY ONLY <1>1, <1>4, m \in 0 .. Len(nlh)
  <2>2. nlh \in Seq(Tokens)
    BY <1>1
  <2>3. SubSeq(nlh, 1, 0) = << >>
    BY ONLY <2>2
  <2>4. QED
    BY <2>1, <2>3, SetTokensNone, Zenon
<1>5. QED
  BY <1>3, <1>4 DEF c, items

-----------------------------------------------------------------------------
INSTANCE FiniteSetTheorems

\* Nothing is taken and nothing is being built before the first message.
LEMMA InOrderInit == Init => InOrder
<1> SUFFICES ASSUME Init
             PROVE  InOrder
  OBVIOUS
<1>1. IsFiniteSet(applied) /\ Taken = 0
  BY FS_EmptySet DEF Init, Taken
<1>2. kernel \in Kernel
  BY KernelsAssumption DEF Init, KernelBefore
<1>3. QED
  BY <1>1, <1>2 DEF Init, InOrder, KernelOK, Lined, Expected, Building, Count

\* What the kernel takes of a message: as many items as it has tokens, apart
\* from the continuation.
LEMMA TakesPrefix ==
    ASSUME Cursors, InOrder, pc = "sent",
           NEW m \in 0 .. Len(nlh)
    PROVE  /\ IsFiniteSet(With(m))
           /\ m >= Continues => Cardinality(With(m)) = Taken + m - Continues
           /\ m < Continues => With(m) = applied
<1> DEFINE c == Continues
<1>1. /\ nlh \in Seq(Tokens) /\ Len(nlh) \in Nat /\ Taken \in Nat
      /\ \A i \in c + 1 .. Len(nlh) : nlh[i][2] >= 0
      /\ c \in {0, 1} /\ (c = 1 => Len(nlh) >= 1 /\ nlh[1][2] = -1)
  BY SentMessage
<1>2. IsFiniteSet(applied)
  BY DEF InOrder
<1> HIDE DEF c
<1>3. With(0) = applied /\ With(c) = applied
  BY <1>1, NoItems DEF With
<1> DEFINE S == {j \in Nat : c + j <= Len(nlh) =>
                    IsFiniteSet(With(c + j)) /\ Cardinality(With(c + j)) = Taken + j}
<1>4. 0 \in S
  <2>1. c + 0 = c /\ Taken + 0 = Taken
    BY <1>1
  <2>2. QED
    BY <1>2, <1>3, <2>1 DEF Taken
<1>5. ASSUME NEW j \in S
      PROVE  j + 1 \in S
  <2> SUFFICES ASSUME c + (j + 1) <= Len(nlh)
               PROVE  IsFiniteSet(With(c + (j + 1))) /\ Cardinality(With(c + (j + 1))) = Taken + (j + 1)
    OBVIOUS
  <2>1. /\ j \in Nat /\ c + j <= Len(nlh) /\ c + (j + 1) = (c + j) + 1 /\ c + j \in 0 .. Len(nlh) - 1
        /\ c + j + 1 \in c + 1 .. Len(nlh)
    BY ONLY <1>1, j \in S, c + (j + 1) <= Len(nlh)
  <2>2. IsFiniteSet(With(c + j)) /\ Cardinality(With(c + j)) = Taken + j
    BY <2>1
  <2> DEFINE t == nlh[c + j + 1]
  <2>3. t \notin With(c + j) /\ With(c + (j + 1)) = With(c + j) \cup {t}
    BY <1>1, <2>1, NewItem
  <2> HIDE DEF t
  <2>4. IsFiniteSet(With(c + j) \cup {t}) /\ Cardinality(With(c + j) \cup {t}) = Cardinality(With(c + j)) + 1
    BY <2>2, <2>3, FS_AddElement
  <2>5. (Taken + j) + 1 = Taken + (j + 1)
    BY <1>1, <2>1
  <2>6. QED
    BY <2>2, <2>3, <2>4, <2>5, Zenon
<1>6. S = Nat
  <2>1. S \in SUBSET Nat
    OBVIOUS
  <2> HIDE DEF S
  <2>2. QED
    BY <1>4, <1>5, <2>1, EveryNat
<1>7. ASSUME m >= c
      PROVE  IsFiniteSet(With(m)) /\ Cardinality(With(m)) = Taken + m - c
  <2>1. m - c \in Nat /\ c + (m - c) = m /\ c + (m - c) <= Len(nlh) /\ Taken + (m - c) = Taken + m - c
    BY ONLY <1>1, <1>7, m \in 0 .. Len(nlh)
  <2>2. m - c \in S
    <3> HIDE DEF S
    <3> QED BY <1>6, <2>1
  <2>3. QED
    BY <2>1, <2>2
<1>8. ASSUME m < c
      PROVE  With(m) = applied
  <2>1. m = 0
    BY ONLY <1>1, <1>8, m \in 0 .. Len(nlh)
  <2>2. QED
    BY <1>3, <2>1
<1>9. m >= c \/ m < c
  BY <1>1
<1>10. QED
  BY <1>2, <1>7, <1>8, <1>9 DEF c

\* The kernel's own step.
LEMMA InOrderKernel ==
    ASSUME Cursors, InOrder, KernelHandle
    PROVE  InOrder'
<1>1. PICK m \in 0 .. Len(nlh) :
        /\ kernel' = SetTokens(dev, kernel, SubSeq(nlh, 1, m))
        /\ applied' = With(m)
        /\ pc' = IF m = Len(nlh) THEN "acked" ELSE "refused"
  BY DEF KernelHandle, Goto, With
<1>2. pc = "sent" /\ UNCHANGED <<dev, peer, allowedip, nlh>>
  BY DEF KernelHandle, cursors
<1>3. IsFiniteSet(applied') /\ Taken' \in Nat
  BY <1>1, <1>2, TakesPrefix, FS_CardinalityType DEF Taken
<1>4. CASE m # Len(nlh)
  BY <1>1, <1>3, <1>4, Zenon DEF InOrder, KernelOK, Lined, Building
<1>5. CASE m = Len(nlh)
  <2>1. nlh \in Seq(Tokens) /\ Len(nlh) \in Nat /\ m >= Continues
    BY <1>5 DEF Cursors, TypeOK, Continues
  <2>2. SubSeq(nlh, 1, m) = nlh
    BY <1>5, <2>1
  <2>3. kernel' = Expected /\ Expected' = kernel' /\ Expected \in Kernel
    BY <1>1, <1>2, <1>5, <2>2, Zenon DEF Expected, Building, InOrder, KernelOK
  <2>4. allowedip # 0 => Standing(dev, peer, Expected)
    BY <1>2 DEF InOrder, KernelOK
  <2>5. KernelOK'
    BY <1>2, <2>3, <2>4 DEF KernelOK
  <2>6. Taken' = Taken + m - Continues
    BY <1>1, <1>2, <2>1, TakesPrefix DEF Taken
  <2>7. Count' = Count /\ Taken + Len(nlh) - Continues = Count
    BY <1>1, <1>2, <1>5, Zenon DEF Count, InOrder, Lined, Building
  <2>8. QED
    BY <1>1, <1>3, <1>5, <2>5, <2>6, <2>7, Zenon DEF InOrder, Lined, Building
<1>6. QED
  BY <1>4, <1>5

LEMMA InOrderStep == Cursors /\ InOrder /\ [Next]_vars => InOrder'
BY InOrderQuiet, InOrderAgain, InOrderPutPeer, InOrderPutAllowedip, InOrderKernel
   DEF Next, Compose, Cursors

\* How far the kernel is in the caller's list, in every state of wg_set_device.
THEOREM InOrderInvariant == Spec => [](Cursors /\ InOrder)
BY CursorsInit, CursorsStep, InOrderInit, InOrderStep, PTL DEF Spec

\* WgApply is stated over its own copy of the kernel.
LEMMA SameKernel ==
    ASSUME NEW d, NEW k, NEW s
    PROVE  Apply!SetTokens(d, k, s) = SetTokens(d, k, s)
BY DEF Apply!SetTokens, SetTokens, Apply!SetToken, SetToken, Apply!DeviceToken, DeviceToken,
       Apply!SetDevice, SetDevice, Apply!Disown, Disown, Apply!SetAllowedip, SetAllowedip,
       Apply!SetPeer, SetPeer, Apply!PeerFlags, PeerFlags, Apply!PeerAttrs, PeerAttrs

\* A message the kernel takes is a step of WgApply, unless it has no item.
LEMMA KernelTakes ==
    ASSUME Cursors, InOrder, KernelHandle
    PROVE  Apply!Take \/ UNCHANGED Apply!vars
<1>1. PICK m \in 0 .. Len(nlh) :
        /\ kernel' = SetTokens(dev, kernel, SubSeq(nlh, 1, m))
        /\ applied' = With(m)
        /\ pc' = IF m = Len(nlh) THEN "acked" ELSE "refused"
  BY DEF KernelHandle, Goto, With
<1>2. pc = "sent" /\ dev' = dev
  BY DEF KernelHandle
<1>3. Outcome = "running" /\ Outcome' = "running"
  BY <1>1, <1>2 DEF Outcome
<1>4. Taken \in Nat /\ Continues \in {0, 1} /\ m \in Nat
  BY DEF InOrder, Continues
<1>5. CASE m > Continues
  <2> DEFINE k == Taken + m - Continues
  <2>1. /\ Cardinality(applied') = k
        /\ k <= Len(Apply!Items(dev))
        /\ kernel' = SetTokens(dev, kernel, SubSeq(Apply!Items(dev), Taken + 1, k))
    BY <1>1, <1>2, <1>4, <1>5, TakesPrefix, TakesEffect
  <2>2. k \in Taken + 1 .. Len(Apply!Items(dev))
    <3>1. Len(Apply!Items(dev)) \in Nat
      BY Positions DEF Cursors
    <3>2. QED
      BY <1>4, <1>5, <2>1, <3>1
  <2> HIDE DEF k
  <2>3. Apply!Take
    BY <1>2, <1>3, <2>1, <2>2, SameKernel DEF Apply!Take, Taken
  <2>4. QED
    BY <2>3
<1>6. CASE ~(m > Continues)
  <2>1. (applied' = applied /\ kernel' = kernel) \/ m = Continues
    <3>1. m = Continues \/ m < Continues
      BY <1>4, <1>6
    <3>2. ASSUME m < Continues
          PROVE  applied' = applied /\ kernel' = kernel
      <4>1. m < Continues =>
               With(m) = applied /\ SetTokens(dev, kernel, SubSeq(nlh, 1, m)) = kernel
        BY <1>2, TakesPrefix, TakesEffect
      <4>2. QED
        BY <1>1, <3>2, <4>1
    <3>3. QED
      BY <3>1, <3>2
  <2>2. ASSUME m = Continues
        PROVE  Cardinality(applied') = Taken /\ kernel' = kernel
    <3>1. /\ Cardinality(applied') = Taken + m - Continues
          /\ kernel' = SetTokens(dev, kernel, SubSeq(Apply!Items(dev), Taken + 1, Taken + m - Continues))
      BY <1>1, <1>2, <1>4, <2>2, TakesPrefix, TakesEffect
    <3>2. Taken + m - Continues = Taken
      BY <1>4, <2>2
    <3>3. SubSeq(Apply!Items(dev), Taken + 1, Taken) = << >>
      BY <1>4, Positions DEF Cursors
    <3>4. QED
      BY <3>1, <3>2, <3>3, SetTokensNone, Zenon
  <2>3. Cardinality(applied') = Cardinality(applied) /\ kernel' = kernel
    BY <2>1, <2>2 DEF Taken
  <2>4. QED
    BY <1>2, <1>3, <2>3 DEF Apply!vars
<1>7. QED
  BY <1>5, <1>6

\* However the buffer cuts a configuration into messages, wg_set_device
\* implements WgApply: the kernel takes the caller's items in the caller's
\* order, each once, and success is reported when none is left.
THEOREM Refinement == Spec => AppliesInOrder
<1>1. Init => Apply!Init
  BY FS_EmptySet DEF Init, Apply!Init, Outcome
<1>2. Cursors /\ InOrder /\ [Next]_vars => [Apply!Next]_Apply!vars
  <2> SUFFICES ASSUME Cursors, InOrder, [Next]_vars
               PROVE  Apply!Next \/ UNCHANGED Apply!vars
    OBVIOUS
  <2>1. CASE KernelHandle
    BY <2>1, KernelTakes DEF Apply!Next
  <2>2. CASE Open \/ Send
    <3>1. UNCHANGED <<dev, kernel, applied>> /\ pc # "done" /\ (pc' = "done" => ret' = -1)
      BY <2>2 DEF Open, Send, Goto
    <3>2. QED
      BY <3>1 DEF Outcome, Apply!Next, Apply!Fail, Apply!vars
  <2>3. CASE Recv
    <3>1. UNCHANGED <<dev, kernel, applied>> /\ pc \in {"acked", "refused"}
      BY <2>3 DEF Recv
    <3>2. CASE pc' # "done"
      BY <3>1, <3>2 DEF Outcome, Apply!vars
    <3>3. CASE pc' = "done" /\ ret' # 0
      BY <3>1, <3>3 DEF Outcome, Apply!Next, Apply!Fail
    <3>4. CASE pc' = "done" /\ ret' = 0
      <4>1. pc = "acked" /\ peer = 0
        BY <2>3, <3>4 DEF Recv, Goto
      <4>2. Cardinality(applied) = Len(Apply!Items(dev))
        BY <4>1 DEF InOrder, Taken, Count
      <4>3. QED
        BY <3>1, <3>4, <4>2 DEF Outcome, Apply!Next, Apply!Succeed
    <3>5. QED
      BY <3>2, <3>3, <3>4
  <2>4. CASE Compose
    <3>1. UNCHANGED <<dev, kernel, applied>> /\ pc # "done" /\ pc' # "done"
      BY <2>4 DEF Compose, Again, PutPeer, ToobigPeers, NestAllowedips, PutAllowedip,
                  ToobigAllowedips, NextPeer, Goto
    <3>2. QED
      BY <3>1 DEF Outcome, Apply!vars
  <2>5. CASE UNCHANGED vars
    BY <2>5 DEF vars, Outcome, Apply!vars
  <2>6. QED
    BY <2>1, <2>2, <2>3, <2>4, <2>5 DEF Next
<1>3. QED
  BY <1>1, <1>2, InOrderInvariant, PTL DEF Spec, AppliesInOrder, Apply!Spec
====
