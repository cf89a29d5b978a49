------------------------------ MODULE StringList ------------------------------
(***************************************************************************)
(* struct string_list and string_list_add (wireguard.c): names packed into *)
(* one growing buffer, first\0second\0...last\0\0.  A cell of the buffer   *)
(* holds a character of a name (the name itself, a positive number), the   *)
(* terminator Nul, or Junk where nothing has been written.                 *)
(***************************************************************************)
EXTENDS Integers, Sequences

Nul == 0
Junk == -1

\* { 0 }: no buffer yet.
NewList == [buffer |-> << >>, len |-> 0, cap |-> 0]

\* Mutant: the byte for the second terminator is not asked for.
NoRoomExact(list, len) == len > list.cap - list.len

\* The name (len bytes with its terminator) and the second terminator do not
\* fit behind what is there.
NoRoom(list, len) == len >= list.cap - list.len

\* new_cap.
NewCap(list, len) == IF list.cap * 2 < list.len + len + 1
                     THEN list.len + len + 1 ELSE list.cap * 2

\* The capacity after string_list_add of a name of len bytes.
Cap(list, len) == IF NoRoom(list, len) THEN NewCap(list, len) ELSE list.cap

\* Cell c (counted from 0) of the buffer after the memcpy and the assignment
\* of the second terminator.
Cell(list, name, len, c) ==
    CASE c < list.len -> list.buffer[c + 1]
      [] c \in list.len .. list.len + len - 2 -> name
      [] c = list.len + len - 1 \/ c = list.len + len -> Nul
      [] OTHER -> IF c < list.cap THEN list.buffer[c + 1] ELSE Junk

\* string_list_add when no allocation fails; len is strlen + 1.
string_list_add(list, name, len) ==
    IF len = 1 THEN list
    ELSE [buffer |-> [c \in 1 .. Cap(list, len) |-> Cell(list, name, len, c - 1)],
          len    |-> list.len + len,
          cap    |-> Cap(list, len)]

\* The names lie inside the buffer, with both terminators behind the last one.
Terminated(list) ==
    list = NewList \/ /\ list.len \in 1 .. list.cap - 1
                      /\ list.buffer \in Seq(Int) /\ Len(list.buffer) = list.cap
                      /\ list.buffer[list.len] = Nul /\ list.buffer[list.len + 1] = Nul

-----------------------------------------------------------------------------
\* strlen of the string at cell k; cap - k if no terminator follows.
StrlenAt(b, k) == LET nuls == {c \in k .. Len(b) - 1 : b[c + 1] = Nul}
                  IN  IF nuls = {} THEN Len(b) - k
                      ELSE (CHOOSE c \in nuls : \A d \in nuls : c <= d) - k

\* The names wg_for_each_device_name visits from cell 0 on, each with the
\* length it has there; Junk if the loop leaves the buffer.
Walk(b) ==
    LET visit[k \in 0 .. Len(b)] ==
          IF k >= Len(b) THEN <<[name |-> Junk, len |-> 0]>>
          ELSE IF StrlenAt(b, k) = 0 THEN << >>
          ELSE <<[name |-> b[k + 1], len |-> StrlenAt(b, k)]>>
               \o visit[IF k + StrlenAt(b, k) + 1 > Len(b) THEN Len(b)
                        ELSE k + StrlenAt(b, k) + 1]
    IN  visit[0]
=============================================================================
