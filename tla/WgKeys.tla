------------------------------- MODULE WgKeys -------------------------------
(***************************************************************************)
(* The text form of a key: wireguard.c's base64 functions.  A key is a     *)
(* sequence of KeyBytes bytes (32 in the code), its text a sequence of     *)
(* character codes.  KeyBytes is one group of two bytes after any number   *)
(* of groups of three, as 32 is; the text of the last group ends in '='.   *)
(***************************************************************************)
EXTENDS Integers, Sequences

CONSTANT KeyBytes

ASSUME KeyBytesAssumption == KeyBytes \in Nat /\ KeyBytes % 3 = 2

Groups == KeyBytes \div 3
\* sizeof(wg_key_b64_string) - 1: the characters of a key, without the NUL.
B64Len == 4 * (Groups + 1)

\* ((x >> 8) & n) for a small x: n when x is negative, 0 otherwise.
Select(x, n) == IF x < 0 THEN n ELSE 0

\* The four characters of three bytes.
encode_base64(src) ==
  LET input == << src[1] \div 4,
                  (src[1] * 16 + (src[2] \div 16)) % 64,
                  (src[2] * 4 + (src[3] \div 64)) % 64,
                  src[3] % 64 >>
  IN [k \in 1..4 |-> input[k] + 65 + Select(25 - input[k], 6)
                                   - Select(51 - input[k], 75)
                                   - Select(61 - input[k], 15)
                                   + Select(62 - input[k], 3)]

wg_key_to_base64(key) ==
  LET group(g) == IF g < Groups
                  THEN encode_base64(SubSeq(key, 3 * g + 1, 3 * g + 3))
                  ELSE encode_base64(<<key[3 * g + 1], key[3 * g + 2], 0>>)
  IN [k \in 1..B64Len |->
        IF k = B64Len THEN 61 ELSE group((k - 1) \div 4)[((k - 1) % 4) + 1]]

\* One character's six bits, -1 when it is none of the alphabet's.
Sextet(c) ==
  LET Within(first, last, n) ==
        IF (first - 1) - c < 0 /\ c - (last + 1) < 0 THEN n ELSE 0
  IN -1 + Within(65, 90, c - 64) + Within(97, 122, c - 70)
        + Within(48, 57, c + 5) + Within(43, 43, 63) + Within(47, 47, 64)

\* Three bytes from four characters; negative when one of them is -1, whose
\* sign bit the shifts and the disjunction keep.
decode_base64(src) ==
  IF \E k \in 1..4 : Sextet(src[k]) < 0
  THEN -1
  ELSE Sextet(src[1]) * 262144 + Sextet(src[2]) * 4096
         + Sextet(src[3]) * 64 + Sextet(src[4])

\* The return value and the bytes written: every group is decoded whatever
\* the ones before it held, and only the last line looks at what went wrong.
wg_key_from_base64(base64) ==
  IF Len(base64) # B64Len \/ base64[Len(base64)] # 61
  THEN [errno |-> "EINVAL", key |-> <<>>]
  ELSE LET src(g) == IF g < Groups THEN SubSeq(base64, 4 * g + 1, 4 * g + 4)
                     ELSE SubSeq(base64, 4 * g + 1, 4 * g + 3) \o <<65>>
           val == [g \in 0..Groups |-> decode_base64(src(g))]
           byte(g, n) == (val[g] \div <<65536, 256, 1>>[n]) % 256
           bad == \/ \E g \in 0..Groups : val[g] < 0
                  \/ val[Groups] % 256 # 0
       IN [errno |-> IF bad THEN "EINVAL" ELSE "0",
           key |-> [k \in 1..KeyBytes |-> byte((k - 1) \div 3, ((k - 1) % 3) + 1)]]
=============================================================================
