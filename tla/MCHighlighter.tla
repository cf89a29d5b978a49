---------------------------- MODULE MCHighlighter ----------------------------
(***************************************************************************)
(* The texts on which TLC runs the highlighter.                            *)
(***************************************************************************)
EXTENDS HighlightColours, SequencesExt

MCKeyBytes == 5
a == <<97>>
one == <<49>>

Line(field, value) == <<FieldWord(field), EqualsSign>> \o value
InPeer(S, field) == {<<PeerWord, Newline>> \o Line(field, w) : w \in S}
InInterface(S, field) == {<<InterfaceWord, Newline>> \o Line(field, w) : w \in S}
Repeat(c, n) == [k \in 1..n |-> c]

\* The structure of a text: every text of up to four of these characters, and
\* every list of values of up to four.
Signs == {PeerWord, FieldWord("AllowedIPs"), EqualsSign, Comma, Space, Newline, Hash, 97}
Shapes == BoundedSeq(Signs, 4)
Lists == InInterface(BoundedSeq({Comma, Space, Tab, Hash, 97}, 4), "DNS")

\* Headings, sections and the fields of one in the other.
Sections ==
  { h \o <<Newline>> \o g \o <<Newline>> \o Line(f, one) :
      h \in {<<PeerWord>>, <<Open, 97, Close>>, <<Space, InterfaceWord, Space, Hash>>},
      g \in {<<>>, <<InterfaceWord, 97>>, <<97>>, <<Hash, InterfaceWord>>},
      f \in {"ListenPort", "PersistentKeepalive"} }

\* Keys of two groups: every printable character in each place of a right one.
Key == <<65, 98, 48, Slash, 65, 66, 69, EqualsSign>>
Keys ==
  InPeer({[Key EXCEPT ![n] = c] : n \in 1..8, c \in 33..126}
           \cup {Tail(Key), Append(Key, EqualsSign)},
         "PublicKey")
  \cup InPeer({Key}, "PresharedKey")
  \cup InInterface({Key, [Key EXCEPT ![7] = 70]}, "PrivateKey")

\* IPv4 addresses and networks.
Octets == {<<>>, <<48>>, <<48, 53>>, <<50, 53, 53>>, <<50, 53, 54>>, <<49, 48, 48, 48>>}
Join(parts, c) ==
  FoldLeft(LAMBDA w, p : w \o <<c>> \o p, parts[1], Tail(parts))
Ipv4s ==
  { Join([n \in 1..m |-> IF n = x THEN o ELSE IF n = y THEN p ELSE one], Dot) :
      m \in 3..5, x \in 1..5, y \in {1, 4}, o \in Octets, p \in Octets }
Bits == { <<Slash>> \o b : b \in {<<>>, <<48>>, <<51, 50>>, <<51, 51>>, <<49, 50, 56>>,
            <<49, 50, 57>>, <<48, 48, 51, 50>>, <<97>>, <<56, Slash, 56>>} }
Nets == { w \o b : w \in {Join(Repeat(one, 4), Dot), <<Colon, Colon>>, a}, b \in Bits }

\* IPv6 addresses: up to nine groups, of which up to two are something else.
Odd == {<<>>, <<49, 98, 67, 52, 53>>, <<103>>, Join(Repeat(one, 4), Dot)}
Ipv6s ==
  { Join([n \in 1..m |-> IF n = x THEN o ELSE IF n = y THEN p ELSE one], Colon) :
      m \in 2..9, x \in 1..9, y \in {1, 2, 7, 8, 9}, o \in Odd, p \in {<<>>, <<70>>} }
  \cup {<<Colon, Colon>>, <<Colon, Colon, Colon>>, <<Colon>>}

\* Endpoints: a host, what follows it, a port.
Hosts ==
  { a, <<Dot, 97>>, <<97, Dash>>, <<97, Dot, Dot, 97>>, <<49, Dot, Dot, 49>>, <<49, Dot, 49>>, <<49, Dash, 49>>,
    Repeat(97, 63), Repeat(97, 64), Join(Repeat(one, 4), Dot), <<>>,
    <<Open, Close>>, <<Open, Colon, Colon, 49, Close>>, <<Open, Colon, Close>>,
    <<Open, Colon, Colon, Percent, 97, Close>>, <<Open, Colon, Colon, Percent, Close>>,
    <<Open, Colon, Colon, Percent, 97, Percent, 97, Close>>,
    <<Open, Percent, 97, Close>>, <<Open, Colon, Colon>>, <<Open, Colon, Colon, Close, 97>> }
Ports == {<<>>, <<48>>, <<54, 53, 53, 51, 53>>, <<54, 53, 53, 51, 54>>, <<49, 97>>}
Endpoints == { h \o <<Colon>> \o p : h \in Hosts, p \in Ports } \cup Hosts

\* Numbers at their limits, and the words.
Numbers ==
  { <<53, 55, 53>>, <<53, 55, 54>>, <<54, 53, 53, 51, 53>>, <<54, 53, 53, 51, 54>>,
    <<48, 48, 48, 48, 48, 48, 48, 53, 55, 54>>, <<48, 48, 48, 48, 48, 48, 48, 48, 53, 55, 54>>,
    <<52, 50, 57, 52, 57, 54, 55, 50, 57, 53>>, <<52, 50, 57, 52, 57, 54, 55, 50, 57, 54>>,
    Repeat(57, 10), <<48, LowerX>>, <<48, LowerX>> \o Repeat(102, 8),
    <<48, LowerX>> \o Repeat(48, 9), <<48, LowerX, 103>>, <<48, 88, 49>>,
    <<OffWord>>, <<AutoWord>>, <<TrueWord>>, <<FalseWord>> }

MCTexts ==
  Shapes \cup Lists \cup Sections \cup Keys
  \cup InInterface(Ipv4s \cup Hosts, "DNS") \cup InInterface(Nets, "Address")
  \cup InPeer(Ipv6s, "AllowedIPs") \cup InPeer(Endpoints, "Endpoint")
  \cup UNION {InInterface(Numbers, f) : f \in {"MTU", "FwMark", "Table", "SaveConfig", "ListenPort", "PreUp"}}
  \cup InPeer(Numbers, "PersistentKeepalive")
  \cup InInterface({Repeat(97, 511), Repeat(97, 512)}, "Table")
=============================================================================
