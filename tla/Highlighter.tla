---------------------------- MODULE Highlighter ----------------------------
(***************************************************************************)
(* highlight_config of highlighter.c, one character of the text at a time, *)
(* and the loop of highlight.c that prints the text with the spans it      *)
(* returns.  The spans a branch hands to append_highlight_span are put in  *)
(* todo, in order, and appended one by one before anything else happens,   *)
(* because each append may need memory and not get it: the array is then   *)
(* emptied, and no caller looks at the result.                             *)
(***************************************************************************)
EXTENDS HighlightSyntax

CONSTANTS Texts,      \* the texts that are highlighted
          FirstCap,   \* the capacity of the first allocation, 64 in the code
          MaxLost     \* bound on the allocations that fail

ASSUME HighlighterAssumption ==
  /\ \A t \in Texts : t \in Seq(Nat)
  /\ FirstCap \in Nat \ {0} /\ MaxLost \in Nat

VARIABLES
  text,               \* the text, the parameter config
  pc,                 \* "scan" in highlight_config, "multi" in
                      \* highlight_multivalue, "print" in highlight.c's main,
                      \* "printed" at its end, "crash" on a bad access
  i, current_span, state, current_section, current_field,
  len_at_last_space, equals_location,     \* highlight_config's locals
  mv,                 \* highlight_multivalue's parameters and locals
  todo,               \* the spans still to append
  ret,                \* the highlight_span_array; its len is Len(ret.spans)
  lost,               \* how many times the array was lost
  last, out           \* main's offset and what it has written

frame == <<i, current_span, state, current_section, current_field,
           len_at_last_space, equals_location>>
printing == <<last, out>>
vars == <<text, pc, frame, mv, todo, ret, lost, printing>>

Whole == Span(0, Len(text))
Char == At(text, Whole, i)
Blank(c) == c \in {Space, Tab}

\* The span that ends where the last character other than a blank stood.
Trimmed(s, len) == [s EXCEPT !.len = len]
Mark(type, s) == [type |-> type, start |-> s.s, len |-> s.len]

MultiValued == {"Address", "DNS", "AllowedIPs"}
NoArray == [spans |-> <<>>, capacity |-> 0]

Init ==
  /\ text \in Texts
  /\ pc = "scan"
  /\ i = 0
  /\ current_span = Span(0, 0)
  /\ state = "OnNone"
  /\ current_section = "Invalid" /\ current_field = "Invalid"
  /\ len_at_last_space = 0 /\ equals_location = 0
  /\ mv = [s |-> Span(0, 0), i |-> 0, current_span |-> Span(0, 0),
           len_at_last_space |-> 0, section |-> "Invalid"]
  /\ todo = <<>>
  /\ ret = NoArray
  /\ lost = 0
  /\ last = 0 /\ out = <<>>
-----------------------------------------------------------------------------
\* append_highlight_span for the first span of todo.  A span without
\* characters is not kept.  The array doubles when it is full; if that fails
\* it is freed and zeroed, capacity included.
Grows == Head(todo).len # 0 /\ Len(ret.spans) >= ret.capacity

Appended(a, m) ==
  IF m.len = 0 THEN a
  ELSE [spans |-> Append(a.spans, m),
        capacity |-> IF Len(a.spans) < a.capacity THEN a.capacity
                     ELSE IF a.capacity # 0 THEN a.capacity * 2 ELSE FirstCap]

AppendSpan ==
  /\ todo # <<>>
  /\ ret' = Appended(ret, Head(todo))
  /\ todo' = Tail(todo)
  /\ UNCHANGED <<text, pc, frame, mv, lost, printing>>

AppendFails ==
  /\ todo # <<>> /\ Grows /\ lost < MaxLost
  /\ ret' = NoArray
  /\ lost' = lost + 1
  /\ todo' = Tail(todo)
  /\ UNCHANGED <<text, pc, frame, mv, printing>>
-----------------------------------------------------------------------------
\* highlight_value, the fields with one value: valid as a whole or not.
Single(type, ok, s) == <<Mark(IF ok THEN type ELSE "Error", s)>>

\* A valid span cut in three at offset k: what precedes, the delimiter, the rest.
Cut(s, k, before, after) ==
  << Mark(before, Sub(s, 0, k)), Mark("Delimiter", Sub(s, k, 1)),
     Mark(after, Sub(s, k + 1, s.len - k - 1)) >>

LastColon(t, s) == Largest({k \in 0..(s.len - 1) : At(t, s, k) = Colon} \cup {0})

highlight_value(t, s, field) ==
  CASE field = "PrivateKey" -> Single("PrivateKey", is_valid_key(t, s), s)
    [] field = "PublicKey" -> Single("PublicKey", is_valid_key(t, s), s)
    [] field = "PresharedKey" -> Single("PresharedKey", is_valid_key(t, s), s)
    [] field = "MTU" -> Single("MTU", is_valid_mtu(t, s), s)
    [] field = "SaveConfig" -> Single("SaveConfig", is_valid_saveconfig(t, s), s)
    [] field = "FwMark" -> Single("FwMark", is_valid_fwmark(t, s), s)
    [] field = "Table" -> Single("Table", is_valid_table(t, s), s)
    [] field \in {"PreUp", "PostUp", "PreDown", "PostDown"} ->
         Single("Cmd", is_valid_prepostupdown(t, s), s)
    [] field = "ListenPort" -> Single("Port", is_valid_port(t, s), s)
    [] field = "PersistentKeepalive" ->
         Single("Keepalive", is_valid_persistentkeepalive(t, s), s)
    [] field = "Endpoint" ->
         IF is_valid_endpoint(t, s) THEN Cut(s, LastColon(t, s), "Host", "Port")
         ELSE <<Mark("Error", s)>>
    [] OTHER -> <<Mark("Error", s)>>

\* One item of a field with several values.
highlight_multivalue_value(t, s, section) ==
  IF section = "DNS"
  THEN << Mark(IF is_valid_ipv4(t, s) \/ is_valid_ipv6(t, s) THEN "IP"
               ELSE IF is_valid_hostname(t, s) THEN "Host" ELSE "Error", s) >>
  ELSE IF ~is_valid_network(t, s) THEN <<Mark("Error", s)>>
  ELSE IF First(t, s, Slash) = s.len THEN <<Mark("IP", s)>>
  ELSE Cut(s, First(t, s, Slash), "IP", "Cidr")
-----------------------------------------------------------------------------
Scanning == pc = "scan" /\ todo = <<>> /\ i <= Len(text)

\* The characters at which a part of a line ends, the end of the text included.
PartEnds == i = Len(text) \/ Char = Newline \/ (state # "OnComment" /\ Char = Hash)

\* What follows every end of a part.  Past the end of the text nothing does:
\* i moves beyond it, as after the break.
NextPart ==
  /\ i' = i + 1
  /\ IF i = Len(text)
     THEN UNCHANGED <<current_span, state, current_field, len_at_last_space>>
     ELSE /\ len_at_last_space' = 0
          /\ current_field' = "Invalid"
          /\ current_span' = IF Char = Hash THEN Span(i, 1) ELSE Span(i + 1, 0)
          /\ state' = IF Char = Hash THEN "OnComment" ELSE "OnNone"
  /\ UNCHANGED <<text, equals_location, ret, lost, printing>>

EndNone ==
  /\ Scanning /\ PartEnds /\ state = "OnNone"
  /\ NextPart
  /\ UNCHANGED <<pc, mv, todo, current_section>>

EndKey ==
  /\ Scanning /\ PartEnds /\ state = "OnKey"
  /\ todo' = <<Mark("Error", Trimmed(current_span, len_at_last_space))>>
  /\ NextPart
  /\ UNCHANGED <<pc, mv, current_section>>

\* Mutant: a heading that is none leaves the section as it was.
EndSectionKept ==
  /\ Scanning /\ PartEnds /\ state = "OnSection"
  /\ LET s == Trimmed(current_span, len_at_last_space)
         section == get_sectiontype(text, s)
     IN /\ current_section' = IF section = "Invalid" THEN current_section ELSE section
        /\ todo' = <<Mark(IF section = "Invalid" THEN "Error" ELSE "Section", s)>>
  /\ NextPart
  /\ UNCHANGED <<pc, mv>>

EndSection ==
  /\ Scanning /\ PartEnds /\ state = "OnSection"
  /\ LET s == Trimmed(current_span, len_at_last_space)
     IN /\ current_section' = get_sectiontype(text, s)
        /\ todo' = <<Mark(IF current_section' = "Invalid" THEN "Error" ELSE "Section", s)>>
  /\ NextPart
  /\ UNCHANGED <<pc, mv>>

EndComment ==
  /\ Scanning /\ PartEnds /\ state = "OnComment"
  /\ todo' = <<Mark("Comment", current_span)>>
  /\ NextPart
  /\ UNCHANGED <<pc, mv, current_section>>

\* No character after the '=': the '=' is the error.
EndNoValue ==
  /\ Scanning /\ PartEnds /\ state = "OnValue" /\ current_span.len = 0
  /\ todo' = <<Mark("Error", Span(equals_location, 1))>>
  /\ NextPart
  /\ UNCHANGED <<pc, mv, current_section>>

EndValue ==
  /\ Scanning /\ PartEnds /\ state = "OnValue" /\ current_span.len # 0
  /\ LET s == Trimmed(current_span, len_at_last_space)
         delimiter == Mark("Delimiter", Span(equals_location, 1))
     IN IF current_field \in MultiValued
        THEN /\ todo' = <<delimiter>>
             /\ pc' = "multi"
             /\ mv' = [s |-> s, i |-> 0, current_span |-> Span(s.s, 0),
                       len_at_last_space |-> 0, section |-> current_field]
        ELSE /\ todo' = <<delimiter>> \o highlight_value(text, s, current_field)
             /\ UNCHANGED <<pc, mv>>
  /\ NextPart
  /\ UNCHANGED current_section

CommentChar ==
  /\ Scanning /\ ~PartEnds /\ state = "OnComment"
  /\ current_span' = [current_span EXCEPT !.len = @ + 1]
  /\ i' = i + 1
  /\ UNCHANGED <<text, pc, state, current_section, current_field,
                 len_at_last_space, equals_location, mv, todo, ret, lost, printing>>

\* A blank before a part moves its start, one inside it may belong to it.
PastBlank(s, k) ==
  IF k = s.s /\ s.len = 0 THEN [s EXCEPT !.s = @ + 1] ELSE [s EXCEPT !.len = @ + 1]

BlankChar ==
  /\ Scanning /\ ~PartEnds /\ state # "OnComment" /\ Blank(Char)
  /\ current_span' = PastBlank(current_span, i)
  /\ i' = i + 1
  /\ UNCHANGED <<text, pc, state, current_section, current_field,
                 len_at_last_space, equals_location, mv, todo, ret, lost, printing>>

EqualsChar ==
  /\ Scanning /\ ~PartEnds /\ state = "OnKey" /\ Char = EqualsSign
  /\ LET s == Trimmed(current_span, len_at_last_space)
         section == section_for_field(get_field(text, s))
     IN /\ current_field' = get_field(text, s)
        /\ todo' = <<Mark(IF section = "Invalid" \/ section # current_section
                          THEN "Error" ELSE "Field", s)>>
  /\ equals_location' = i
  /\ current_span' = Span(i + 1, 0)
  /\ state' = "OnValue"
  /\ i' = i + 1
  /\ UNCHANGED <<text, pc, current_section, len_at_last_space, mv, ret, lost, printing>>

OtherChar ==
  /\ Scanning /\ ~PartEnds /\ state # "OnComment" /\ ~Blank(Char)
  /\ ~(state = "OnKey" /\ Char = EqualsSign)
  /\ state' = IF state # "OnNone" THEN state
              ELSE IF Char \in {Open, InterfaceWord, PeerWord} THEN "OnSection"
              ELSE "OnKey"
  /\ current_span' = [current_span EXCEPT !.len = @ + 1]
  /\ len_at_last_space' = current_span.len + 1
  /\ i' = i + 1
  /\ UNCHANGED <<text, pc, current_section, current_field, equals_location,
                 mv, todo, ret, lost, printing>>

\* Mutant: the terminator has no length and is not kept.
EndEmpty ==
  /\ pc = "scan" /\ todo = <<>> /\ i > Len(text)
  /\ todo' = <<Mark("End", Span(0, 0))>>
  /\ pc' = "print"
  /\ UNCHANGED <<text, frame, mv, ret, lost, printing>>

\* The last append of highlight_config, of a span whose len is (size_t)-1.
End ==
  /\ pc = "scan" /\ todo = <<>> /\ i > Len(text)
  /\ todo' = <<Mark("End", Span(0, -1))>>
  /\ pc' = "print"
  /\ UNCHANGED <<text, frame, mv, ret, lost, printing>>
-----------------------------------------------------------------------------
\* highlight_multivalue, one character of the value at a time.
InMulti == pc = "multi" /\ todo = <<>>
MultiChar == At(text, mv.s, mv.i)

\* Mutant: the item after a comma starts at the comma.
MultiCommaAt ==
  /\ InMulti /\ mv.i < mv.s.len /\ MultiChar = Comma
  /\ todo' = Append(highlight_multivalue_value(text,
                      Trimmed(mv.current_span, mv.len_at_last_space), mv.section),
                    Mark("Delimiter", Sub(mv.s, mv.i, 1)))
  /\ mv' = [mv EXCEPT !.i = @ + 1, !.len_at_last_space = 0,
                      !.current_span = Sub(mv.s, mv.i, 0)]
  /\ UNCHANGED <<text, pc, frame, ret, lost, printing>>

MultiComma ==
  /\ InMulti /\ mv.i < mv.s.len /\ MultiChar = Comma
  /\ todo' = Append(highlight_multivalue_value(text,
                      Trimmed(mv.current_span, mv.len_at_last_space), mv.section),
                    Mark("Delimiter", Sub(mv.s, mv.i, 1)))
  /\ mv' = [mv EXCEPT !.i = @ + 1, !.len_at_last_space = 0,
                      !.current_span = Sub(mv.s, mv.i + 1, 0)]
  /\ UNCHANGED <<text, pc, frame, ret, lost, printing>>

MultiBlank ==
  /\ InMulti /\ mv.i < mv.s.len /\ Blank(MultiChar)
  /\ mv' = [mv EXCEPT !.i = @ + 1,
                      !.current_span = PastBlank(@, mv.s.s + mv.i)]
  /\ UNCHANGED <<text, pc, frame, todo, ret, lost, printing>>

MultiOther ==
  /\ InMulti /\ mv.i < mv.s.len /\ MultiChar # Comma /\ ~Blank(MultiChar)
  /\ mv' = [mv EXCEPT !.i = @ + 1, !.current_span.len = @ + 1,
                      !.len_at_last_space = mv.current_span.len + 1]
  /\ UNCHANGED <<text, pc, frame, todo, ret, lost, printing>>

MultiEnd ==
  /\ InMulti /\ mv.i = mv.s.len /\ mv.len_at_last_space # 0
  /\ todo' = highlight_multivalue_value(text,
               Trimmed(mv.current_span, mv.len_at_last_space), mv.section)
  /\ pc' = "scan"
  /\ UNCHANGED <<text, frame, mv, ret, lost, printing>>

\* Nothing after the last comma: the span of the comma becomes the error.
\* Its index is ret->len - 1, which an array just lost does not have.
MultiEndEmpty ==
  /\ InMulti /\ mv.i = mv.s.len /\ mv.len_at_last_space = 0
  /\ LET n == Len(ret.spans)
     IN IF n = 0
        THEN pc' = "crash" /\ UNCHANGED ret
        ELSE /\ pc' = "scan"
             /\ ret' = IF ret.spans[n].type = "Delimiter"
                       THEN [ret EXCEPT !.spans[n].type = "Error"] ELSE ret
  /\ UNCHANGED <<text, frame, mv, todo, lost, printing>>
-----------------------------------------------------------------------------
\* Mutant: last is where the span starts.
PrintSpanTwice ==
  /\ pc = "print" /\ todo = <<>> /\ ret.spans # <<>>
  /\ LET span == Head(ret.spans)
     IN /\ span.type # "End"
        /\ out' = out \o SubSeq(text, last + 1, span.start)
                      \o SubSeq(text, span.start + 1, span.start + span.len)
        /\ last' = span.start
  /\ ret' = [ret EXCEPT !.spans = Tail(@)]
  /\ UNCHANGED <<text, pc, frame, mv, todo, lost>>

\* highlight.c's main.  The span it looks at is the first of ret.spans, which
\* is dropped when it was printed; spans is NULL when the last append failed.
PrintSpan ==
  /\ pc = "print" /\ todo = <<>> /\ ret.spans # <<>>
  /\ LET span == Head(ret.spans)
     IN /\ span.type # "End"
        /\ out' = out \o SubSeq(text, last + 1, span.start)
                      \o SubSeq(text, span.start + 1, span.start + span.len)
        /\ last' = span.start + span.len
  /\ ret' = [ret EXCEPT !.spans = Tail(@)]
  /\ UNCHANGED <<text, pc, frame, mv, todo, lost>>

PrintRest ==
  /\ pc = "print" /\ todo = <<>> /\ ret.spans # <<>>
  /\ Head(ret.spans).type = "End"
  /\ out' = out \o SubSeq(text, last + 1, Len(text))
  /\ pc' = "printed"
  /\ UNCHANGED <<text, frame, mv, todo, ret, lost, last>>

PrintNull ==
  /\ pc = "print" /\ todo = <<>> /\ ret.spans = <<>>
  /\ pc' = "crash"
  /\ UNCHANGED <<text, frame, mv, todo, ret, lost, printing>>

Done == pc \in {"printed", "crash"} /\ UNCHANGED vars

Next ==
  \/ AppendSpan \/ AppendFails
  \/ EndNone \/ EndKey \/ EndSection \/ EndComment \/ EndNoValue \/ EndValue
  \/ CommentChar \/ BlankChar \/ EqualsChar \/ OtherChar \/ End
  \/ MultiComma \/ MultiBlank \/ MultiOther \/ MultiEnd \/ MultiEndEmpty
  \/ PrintSpan \/ PrintRest \/ PrintNull \/ Done

Spec == Init /\ [][Next]_vars
-----------------------------------------------------------------------------
\* Whatever the text and whichever allocations fail, the spans in the array are
\* parts of the text, none of them empty, each one after the one before it and
\* apart from it: what highlight.c relies on when it subtracts the end of one
\* from the start of the next as unsigned numbers.
SpansInOrder ==
  \A n \in 1..Len(ret.spans) :
    LET span == ret.spans[n]
    IN span.type # "End" =>
         /\ span.len > 0
         /\ span.start + span.len <= Len(text)
         /\ n > 1 => ret.spans[n - 1].start + ret.spans[n - 1].len <= span.start

\* highlight.c prints every character of the text once and in its place, also
\* when spans were lost on the way.
PrintsText == pc = "printed" => out = text

\* No access outside the array and none through NULL, as long as memory lasts:
\* the span whose type highlight_multivalue changes exists, and the array that
\* highlight_config returns does.
CrashNeedsLoss == pc = "crash" => lost > 0

\* highlight_config has returned and nothing is printed yet.
Returned == pc = "print" /\ todo = <<>> /\ out = <<>>

\* What highlighter.c shows as a key is what the library writes for it: the
\* text of the span is the base64 form of the key that it is read as, so no
\* two texts shown as keys stand for one key.
KeysRoundTrip ==
  Returned =>
    \A n \in 1..Len(ret.spans) :
      LET span == ret.spans[n]
          w == SubSeq(text, span.start + 1, span.start + span.len)
      IN span.type \in {"PrivateKey", "PublicKey", "PresharedKey"} =>
           wg_key_to_base64(wg_key_from_base64(w).key) = w
=============================================================================
