--------------------------- MODULE HighlightSyntax ---------------------------
(***************************************************************************)
(* The validators of highlighter.c.  A text is a sequence of character     *)
(* codes that ends, as a C string does, in a NUL that is not part of it; a *)
(* string_span_t is [s, len], s the offset of its first character.  A word *)
(* the code only ever compares as a whole with a literal (a field's name,  *)
(* a section's heading, off, auto, true, false) is one character, of a     *)
(* code beyond those of ASCII.                                             *)
(***************************************************************************)
EXTENDS FiniteSets, WgKeys

Tab == 9
Newline == 10
Space == 32
Hash == 35
Percent == 37
Plus == 43
Comma == 44
Dash == 45
Dot == 46
Slash == 47
Zero == 48
Colon == 58
EqualsSign == 61
Open == 91
Close == 93
Underscore == 95
LowerX == 120

\* The words, and what each of them spells.
Fields == << "PrivateKey", "ListenPort", "Address", "DNS", "MTU", "FwMark",
             "Table", "PreUp", "PostUp", "PreDown", "PostDown", "SaveConfig",
             "PublicKey", "PresharedKey", "AllowedIPs", "Endpoint",
             "PersistentKeepalive" >>
FieldWord(f) == 1000 + (CHOOSE n \in DOMAIN Fields : Fields[n] = f)
InterfaceWord == 1100
PeerWord == 1101
OffWord == 1200
AutoWord == 1201
TrueWord == 1202
FalseWord == 1203

Span(s, len) == [s |-> s, len |-> len]
\* The part of a span from its offset o on.
Sub(s, o, len) == Span(s.s + o, len)

\* s.s[k]: the character at offset k of a span, 0 at the end of the text.
At(t, s, k) == IF s.s + k < Len(t) THEN t[s.s + k + 1] ELSE 0

\* c | 32 of a character.
Lower(c) == IF (c \div 32) % 2 = 0 THEN c + 32 ELSE c
is_decimal(c) == c \in 48..57
is_hexadecimal(c) == is_decimal(c) \/ Lower(c) \in 97..102
is_alphabet(c) == Lower(c) \in 97..122

is_same(t, s, word) == s.len = 1 /\ At(t, s, 0) = word

Digits == {c \in 0..127 : is_decimal(c)}
HexDigits == {c \in 0..127 : is_hexadecimal(c)}

\* The greatest and the least of a set of offsets.
Largest(S) == CHOOSE x \in S : \A y \in S : x >= y
Smallest(S) == CHOOSE x \in S : \A y \in S : x <= y

\* The number of characters among chars from pos on, max at most.
Run(t, s, pos, max, chars) ==
  Largest({j \in 0..max : /\ pos + j <= s.len
                          /\ \A k \in 0..(j - 1) : At(t, s, pos + k) \in chars})

\* 10 * val + digit, over the len characters from pos on.
Decimal(t, s, pos, len) ==
  LET val[k \in 0..len] ==
        IF k = 0 THEN 0 ELSE 10 * val[k - 1] + At(t, s, pos + k - 1) - 48
  IN val[len]
-----------------------------------------------------------------------------
\* Mutant: the last character before the '=' may be any of the alphabet.
is_valid_key_any(t, s) ==
  /\ s.len = B64Len /\ At(t, s, B64Len - 1) = EqualsSign
  /\ \A k \in 0..(B64Len - 2) :
        LET c == At(t, s, k)
        IN is_decimal(c) \/ is_alphabet(c) \/ c \in {Slash, Plus}

is_valid_key(t, s) ==
  /\ s.len = B64Len /\ At(t, s, B64Len - 1) = EqualsSign
  /\ \A k \in 0..(B64Len - 3) :
        LET c == At(t, s, k)
        IN is_decimal(c) \/ is_alphabet(c) \/ c \in {Slash, Plus}
  /\ At(t, s, B64Len - 2) \in {65, 69, 73, 77, 81, 85, 89, 99, 103, 107,
                               111, 115, 119, 52, 56, 48}

\* The test for ".." comes after the branch that takes every '.', so it never
\* runs and is no part of the result.
is_valid_hostname(t, s) ==
  /\ s.len \in 1..63
  /\ {At(t, s, 0), At(t, s, s.len - 1)} \cap {Dash, Dot} = {}
  /\ \A k \in 0..(s.len - 1) :
        LET c == At(t, s, k) IN is_decimal(c) \/ is_alphabet(c) \/ c \in {Dot, Dash}
  /\ LET num_digit == Cardinality({k \in 0..(s.len - 1) : is_decimal(At(t, s, k))})
         num_dot == Cardinality({k \in 0..(s.len - 1) : At(t, s, k) = Dot})
     IN num_digit # s.len - num_dot

\* The character after the digits is read also when they end the span.
is_valid_ipv4(t, s) ==
  LET valid[i \in 0..4, pos \in 0..(s.len + 1)] ==
        /\ i < 4 /\ pos < s.len
        /\ LET j == Run(t, s, pos, 3, Digits)
           IN /\ j # 0
              /\ ~(j > 1 /\ At(t, s, pos) = Zero)
              /\ Decimal(t, s, pos, j) <= 255
              /\ \/ pos + j = s.len /\ i = 3
                 \/ At(t, s, pos + j) = Dot /\ valid[i + 1, pos + j + 1]
  IN valid[0, 0]

is_valid_ipv6(t, s) ==
  LET Group(i, pos, seen_colon, Rest(_)) ==
        LET j == Run(t, s, pos, 4, HexDigits)
        IN /\ j # 0
           /\ \/ pos + j = s.len /\ (seen_colon \/ i = 7)
              \/ /\ i # 7
                 /\ At(t, s, pos + j) = Colon
                 /\ Rest(pos + j + 1)
              \/ /\ i # 7
                 /\ At(t, s, pos + j) = Dot
                 /\ i >= 6 \/ seen_colon
                 /\ is_valid_ipv4(t, Sub(s, pos, s.len - pos))
      valid[i \in 0..8, pos \in 0..(s.len + 1), seen_colon \in BOOLEAN] ==
        \/ pos >= s.len
        \/ /\ At(t, s, pos) = Colon /\ ~seen_colon
           /\ \/ pos + 1 = s.len
              \/ i # 7 /\ valid[i + 1, pos + 1, TRUE]
        \/ /\ pos < s.len /\ ~(At(t, s, pos) = Colon /\ ~seen_colon)
           /\ Group(i, pos, seen_colon, LAMBDA p : valid[i + 1, p, seen_colon])
  IN /\ s.len >= 2
     /\ At(t, s, 0) = Colon => At(t, s, 1) = Colon
     /\ At(t, s, s.len - 1) = Colon => At(t, s, s.len - 2) = Colon
     /\ valid[0, IF At(t, s, 0) = Colon THEN 1 ELSE 0, FALSE]

\* A uint64_t of at most ten digits, as its upper part and its lower 16 bits.
MulAdd(n, base, digit) ==
  LET low == base * n[2] + digit
  IN <<base * n[1] + (low \div 65536), low % 65536>>
AtMost(m, n) == m[1] < n[1] \/ (m[1] = n[1] /\ m[2] <= n[2])
U16Max == <<0, 65535>>
U32Max == <<65535, 65535>>

is_valid_uint(t, s, support_hex, min, max) ==
  LET hex == /\ support_hex /\ s.len > 2
             /\ At(t, s, 0) = Zero /\ At(t, s, 1) = LowerX
      first == IF hex THEN 2 ELSE 0
      Digit(c) == IF is_decimal(c) THEN c - 48 ELSE Lower(c) - 97 + 10
      val[k \in first..s.len] ==
        IF k = first THEN <<0, 0>>
        ELSE MulAdd(val[k - 1], IF hex THEN 16 ELSE 10, Digit(At(t, s, k - 1)))
  IN /\ s.len \in 1..10
     /\ \A k \in first..(s.len - 1) :
           IF hex THEN is_hexadecimal(At(t, s, k)) ELSE is_decimal(At(t, s, k))
     /\ AtMost(min, val[s.len]) /\ AtMost(val[s.len], max)

is_valid_port(t, s) == is_valid_uint(t, s, FALSE, <<0, 0>>, U16Max)
is_valid_mtu(t, s) == is_valid_uint(t, s, FALSE, <<0, 576>>, U16Max)
is_valid_persistentkeepalive(t, s) ==
  is_same(t, s, OffWord) \/ is_valid_uint(t, s, FALSE, <<0, 0>>, U16Max)
is_valid_fwmark(t, s) ==
  is_same(t, s, OffWord) \/ is_valid_uint(t, s, TRUE, <<0, 0>>, U32Max)
is_valid_table(t, s) ==
  \/ is_same(t, s, AutoWord) \/ is_same(t, s, OffWord)
  \/ s.len < 512
  \/ is_valid_uint(t, s, FALSE, <<0, 0>>, U32Max)
is_valid_saveconfig(t, s) == is_same(t, s, TrueWord) \/ is_same(t, s, FalseWord)
is_valid_prepostupdown(t, s) == s.len # 0

is_valid_scope(t, s) ==
  /\ s.len \in 1..64
  /\ \A k \in 0..(s.len - 1) :
        LET c == At(t, s, k)
        IN is_alphabet(c) \/ is_decimal(c) \/ c \in {Underscore, EqualsSign, Plus, Dot, Dash}

\* The least offset of a span at which c stands, its length when there is none.
First(t, s, c) == Smallest({k \in 0..(s.len - 1) : At(t, s, k) = c} \cup {s.len})

is_valid_endpoint(t, s) ==
  LET port(k) == is_valid_port(t, Sub(s, k, s.len - k))
      bracket[i \in 1..s.len, seen_scope \in BOOLEAN, from \in 1..s.len] ==
        LET hostspan == Sub(s, from, i - from)
            c == At(t, s, i)
        IN /\ i < s.len
           /\ \/ /\ c = Percent /\ ~seen_scope
                 /\ is_valid_ipv6(t, hostspan)
                 /\ bracket[i + 1, TRUE, i + 1]
              \/ /\ c = Close
                 /\ IF seen_scope THEN is_valid_scope(t, hostspan)
                                  ELSE is_valid_ipv6(t, hostspan)
                 /\ i # s.len - 1 /\ At(t, s, i + 1) = Colon
                 /\ port(i + 2)
              \/ c \notin {Percent, Close} /\ bracket[i + 1, seen_scope, from]
      i == First(t, s, Colon)
  IN /\ s.len # 0
     /\ IF At(t, s, 0) = Open
        THEN bracket[1, FALSE, 1]
        ELSE /\ i < s.len /\ port(i + 1)
             /\ is_valid_ipv4(t, Sub(s, 0, i)) \/ is_valid_hostname(t, Sub(s, 0, i))

is_valid_network(t, s) ==
  LET i == First(t, s, Slash)
      ip == Sub(s, 0, i)
      cidr == Sub(s, i + 1, s.len - i - 1)
      cidrval == Decimal(t, cidr, 0, cidr.len)
  IN IF i = s.len
     THEN is_valid_ipv4(t, s) \/ is_valid_ipv6(t, s)
     ELSE /\ cidr.len \in 1..3
          /\ \A k \in 0..(cidr.len - 1) : is_decimal(At(t, cidr, k))
          /\ IF is_valid_ipv4(t, ip) THEN cidrval <= 32
             ELSE is_valid_ipv6(t, ip) /\ cidrval <= 128
-----------------------------------------------------------------------------
InterfaceFields == {Fields[n] : n \in 1..12}
PeerFields == {Fields[n] : n \in 13..17}

section_for_field(f) ==
  IF f \in InterfaceFields THEN "InterfaceSection"
  ELSE IF f \in PeerFields THEN "PeerSection" ELSE "Invalid"

get_field(t, s) ==
  IF \E f \in InterfaceFields \cup PeerFields : is_same(t, s, FieldWord(f))
  THEN CHOOSE f \in InterfaceFields \cup PeerFields : is_same(t, s, FieldWord(f))
  ELSE "Invalid"

get_sectiontype(t, s) ==
  IF is_same(t, s, PeerWord) THEN "PeerSection"
  ELSE IF is_same(t, s, InterfaceWord) THEN "InterfaceSection" ELSE "Invalid"
=============================================================================
