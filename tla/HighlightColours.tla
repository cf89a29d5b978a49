--------------------------- MODULE HighlightColours ---------------------------
(***************************************************************************)
(* What the spans of highlight_config are meant to be, said of the text as *)
(* a whole: which line a character stands on, which part of the line, and  *)
(* whether the part is what the format of a WireGuard configuration asks   *)
(* for.  Nothing here follows the order in which the code reads the text:  *)
(* a value is recognised by how it splits into pieces, not by a scan.      *)
(***************************************************************************)
EXTENDS Highlighter, FiniteSetsExt

Occurs(c, w) == \E k \in 1..Len(w) : w[k] = c
OnlyOf(w, Is(_)) == \A k \in 1..Len(w) : Is(w[k])

\* The pieces of w between the characters c.
Pieces(w, c) ==
  LET cuts == {k \in 1..Len(w) : w[k] = c}
      cut(n) == CHOOSE k \in cuts \cup {0, Len(w) + 1} :
                  Cardinality({x \in cuts \cup {0} : x < k}) = n
  IN [n \in 1..(Cardinality(cuts) + 1) |-> SubSeq(w, cut(n - 1) + 1, cut(n) - 1)]

\* Decimal numbers compared as numerals: by length, then digit by digit.
Plain(w) ==
  LET lead == Max({k \in 0..(Len(w) - 1) : \A n \in 1..k : w[n] = Zero})
  IN SubSeq(w, lead + 1, Len(w))
NotAbove(v, w) ==
  LET a == Plain(v)
      b == Plain(w)
      d == {k \in 1..Len(a) : a[k] # b[k]}
  IN \/ Len(a) < Len(b)
     \/ Len(a) = Len(b) /\ (d = {} \/ a[Min(d)] < b[Min(d)])
Numeral(w) == Len(w) \in 1..10 /\ OnlyOf(w, is_decimal)

IsU16(w) == Numeral(w) /\ NotAbove(w, <<54, 53, 53, 51, 53>>)
IsMtu(w) == IsU16(w) /\ NotAbove(<<53, 55, 54>>, w)
IsU32(w) ==
  \/ Numeral(w) /\ NotAbove(w, <<52, 50, 57, 52, 57, 54, 55, 50, 57, 53>>)
  \/ /\ Len(w) \in 3..10 /\ SubSeq(w, 1, 2) = <<Zero, LowerX>>
     /\ OnlyOf(SubSeq(w, 3, Len(w)), is_hexadecimal)

\* Four numbers up to 255, written without needless zeros.
IsIpv4(w) ==
  LET p == Pieces(w, Dot)
  IN Len(p) = 4 /\ \A n \in 1..4 : /\ Numeral(p[n]) /\ Plain(p[n]) = p[n]
                                   /\ NotAbove(p[n], <<50, 53, 53>>)

\* Groups of up to four hexadecimal digits; the last two of eight may be
\* written as an IPv4 address, and one "::" stands for one group or more.
IsGroup(w) == Len(w) \in 1..4 /\ OnlyOf(w, is_hexadecimal)
GroupsOf(w, ipv4) ==
  LET p == Pieces(w, Colon)
      n == Len(p)
  IN IF w = <<>> THEN 0
     ELSE IF \A k \in 1..n : IsGroup(p[k]) THEN n
     ELSE IF ipv4 /\ IsIpv4(p[n]) /\ \A k \in 1..(n - 1) : IsGroup(p[k]) THEN n + 1
     ELSE 100
IsIpv6(w) ==
  \/ GroupsOf(w, TRUE) = 8
  \/ \E k \in 1..(Len(w) - 1) :
       /\ w[k] = Colon /\ w[k + 1] = Colon
       /\ GroupsOf(SubSeq(w, 1, k - 1), FALSE)
            + GroupsOf(SubSeq(w, k + 2, Len(w)), TRUE) <= 7

TwoDots(w) == \E k \in 1..(Len(w) - 1) : w[k] = Dot /\ w[k + 1] = Dot

\* A name is not a number: some character of it is a letter or a dash; and it
\* has no two dots in a row.
IsHost(w) ==
  /\ Len(w) \in 1..63 /\ ~TwoDots(w)
  /\ OnlyOf(w, LAMBDA c : is_alphabet(c) \/ is_decimal(c) \/ c \in {Dot, Dash})
  /\ {w[1], w[Len(w)]} \cap {Dot, Dash} = {}
  /\ \E k \in 1..Len(w) : is_alphabet(w[k]) \/ w[k] = Dash

IsScope(w) ==
  Len(w) \in 1..64
  /\ OnlyOf(w, LAMBDA c : is_alphabet(c) \/ is_decimal(c)
                          \/ c \in {Underscore, EqualsSign, Plus, Dot, Dash})

\* An address of the host, a colon and a port.
IsHostOfEndpoint(h) ==
  \/ IsIpv4(h) \/ IsHost(h)
  \/ /\ Len(h) > 2 /\ h[1] = Open /\ h[Len(h)] = Close
     /\ LET p == Pieces(SubSeq(h, 2, Len(h) - 1), Percent)
        IN IsIpv6(p[1]) /\ (Len(p) = 1 \/ (Len(p) = 2 /\ IsScope(p[2])))
EndpointColons(w) ==
  {k \in 1..Len(w) : /\ w[k] = Colon
                     /\ IsHostOfEndpoint(SubSeq(w, 1, k - 1))
                     /\ IsU16(SubSeq(w, k + 1, Len(w)))}

IsNetwork(w) ==
  LET p == Pieces(w, Slash)
      Bits(max) == /\ Len(p) = 2 => /\ Numeral(p[2]) /\ Len(p[2]) <= 3
                                    /\ NotAbove(p[2], max)
                   /\ Len(p) <= 2
  IN \/ IsIpv4(p[1]) /\ Bits(<<51, 50>>)
     \/ IsIpv6(p[1]) /\ Bits(<<49, 50, 56>>)
-----------------------------------------------------------------------------
\* Positions count from 1.  The line of position p, its comment, and the part
\* of a range of positions that is left without the blanks around it.
LineStart(t, p) == Max({k \in 1..(p - 1) : t[k] = Newline} \cup {0}) + 1
LineEnd(t, p) == Min({k \in p..Len(t) : t[k] = Newline} \cup {Len(t) + 1}) - 1
CommentAt(t, p) ==
  Min({k \in LineStart(t, p)..LineEnd(t, p) : t[k] = Hash} \cup {LineEnd(t, p) + 1})
Inked(t, a, b) == {k \in a..b : ~Blank(t[k])}
Stripped(t, a, b) ==
  IF Inked(t, a, b) = {} THEN <<>>
  ELSE SubSeq(t, Min(Inked(t, a, b)), Max(Inked(t, a, b)))

IsHeading(c) == c \in {Open, InterfaceWord, PeerWord}

\* The section the line of p belongs to: the one of the last line before it
\* that has a heading, right or wrong.
SectionOf(t, p) ==
  LET firsts == {k \in 1..(LineStart(t, p) - 1) :
                   /\ IsHeading(t[k]) /\ k < CommentAt(t, k)
                   /\ Inked(t, LineStart(t, k), k - 1) = {}}
      k == Max(firsts)
      heading == Stripped(t, k, CommentAt(t, k) - 1)
  IN IF firsts = {} THEN "none"
     ELSE IF heading = <<PeerWord>> THEN "peer"
     ELSE IF heading = <<InterfaceWord>> THEN "interface" ELSE "none"

FieldOf(w) ==
  IF \E n \in DOMAIN Fields : w = <<FieldWord(Fields[n])>>
  THEN Fields[w[1] - 1000] ELSE "none"

\* The colour of a value without commas, at its k-th character.
PlainColour(field, w, k) ==
  LET Is(ok, type) == IF ok THEN type ELSE "Error"
      colons == EndpointColons(w)
  IN CASE field \in {"PrivateKey", "PublicKey", "PresharedKey"} ->
            Is(wg_key_from_base64(w).errno = "0", field)
       [] field = "ListenPort" -> Is(IsU16(w), "Port")
       [] field = "MTU" -> Is(IsMtu(w), "MTU")
       [] field = "FwMark" -> Is(w = <<OffWord>> \/ IsU32(w), "FwMark")
       [] field = "PersistentKeepalive" -> Is(w = <<OffWord>> \/ IsU16(w), "Keepalive")
       [] field = "SaveConfig" -> Is(w \in {<<TrueWord>>, <<FalseWord>>}, "SaveConfig")
       [] field = "Table" -> Is(Len(w) < 512, "Table")
       [] field \in {"PreUp", "PostUp", "PreDown", "PostDown"} -> "Cmd"
       [] field = "Endpoint" ->
            IF colons = {} THEN "Error"
            ELSE IF k < Max(colons) THEN "Host"
            ELSE IF k = Max(colons) THEN "Delimiter" ELSE "Port"
       [] field = "DNS" ->
            IF IsIpv4(w) \/ IsIpv6(w) THEN "IP" ELSE Is(IsHost(w), "Host")
       [] field \in {"Address", "AllowedIPs"} ->
            IF ~IsNetwork(w) THEN "Error"
            ELSE IF w[k] = Slash THEN "Delimiter"
            ELSE IF Occurs(Slash, SubSeq(w, 1, k)) THEN "Cidr" ELSE "IP"
       [] OTHER -> "Error"

\* The colour of position p of a value that takes positions a to b: by itself,
\* or as one of the items the commas separate; a comma nothing follows is wrong.
ValueColour(t, field, a, b, p) ==
  LET from == Max({k \in a..(p - 1) : t[k] = Comma} \cup {a - 1}) + 1
      to == Min({k \in p..b : t[k] = Comma} \cup {b + 1}) - 1
  IN IF field \notin MultiValued THEN PlainColour(field, SubSeq(t, a, b), p - a + 1)
     ELSE IF t[p] = Comma THEN (IF p = b THEN "Error" ELSE "Delimiter")
     ELSE PlainColour(field, Stripped(t, from, to), p - Min(Inked(t, from, to)) + 1)

\* The colour of position p, which is neither a blank nor a newline.
Colour(t, p) ==
  LET hash == CommentAt(t, p)
      body == Inked(t, LineStart(t, p), hash - 1)
      equals == {k \in body : t[k] = EqualsSign /\ k # Min(body)}
      eq == Min(equals)
      field == FieldOf(Stripped(t, Min(body), eq - 1))
      value == Inked(t, eq + 1, hash - 1)
      home == IF field \in PeerFields THEN "peer" ELSE "interface"
  IN IF p >= hash THEN "Comment"
     ELSE IF IsHeading(t[Min(body)])
     THEN IF Stripped(t, Min(body), hash - 1) \in {<<PeerWord>>, <<InterfaceWord>>}
          THEN "Section" ELSE "Error"
     ELSE IF equals = {} THEN "Error"
     ELSE IF p < eq
     THEN IF field # "none" /\ SectionOf(t, p) = home THEN "Field" ELSE "Error"
     ELSE IF p = eq THEN (IF value = {} THEN "Error" ELSE "Delimiter")
     ELSE ValueColour(t, field, Min(value), Max(value), p)
-----------------------------------------------------------------------------
\* A name that only its dots make wrong, and its port: is_valid_hostname has a
\* test for two dots in a row (lines 118-119), but a dot never comes to it, as
\* line 110 goes on to the next character; the name is shown as a host.
DotsOverlooked(t, p, type) ==
  /\ TwoDots(SubSeq(t, LineStart(t, p), CommentAt(t, p) - 1))
  /\ Colour(t, p) = "Error" /\ type \in {"Host", "Delimiter", "Port"}

Covers(span, p) == span.start < p /\ p <= span.start + span.len

\* If no allocation failed, every character of the text that is neither a
\* blank nor a newline lies in exactly one of the spans highlight_config
\* returns, and its type is the one the text as a whole calls for: the scan's
\* locals never carry a section, a field, a length or the place of an '=' from
\* one part over to another, and the validators accept what the format allows
\* and nothing else but names with two dots in a row (DotsOverlooked).  A key is
\* right exactly when wg_key_from_base64 takes it.
Coloured ==
  Returned /\ lost = 0 =>
    \A p \in 1..Len(text) :
      LET over == {n \in 1..Len(ret.spans) : Covers(ret.spans[n], p)}
      IN ~Blank(text[p]) /\ text[p] # Newline =>
           /\ Cardinality(over) = 1
           /\ LET type == ret.spans[Max(over)].type
              IN type = Colour(text, p) \/ DotsOverlooked(text, p, type)
=============================================================================
