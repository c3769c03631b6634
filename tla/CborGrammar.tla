---------------------------- MODULE CborGrammar ----------------------------
(***************************************************************************)
(* Reference definition of the CBOR subset of cbor_codec.rs: one data item, *)
(* without limits, frames or cursors.  Item(s, pos) is the end of the item  *)
(* that starts at pos, the events it stands for and its footprint, or       *)
(* NoItem.  Recursive, so used by model checking only.                      *)
(***************************************************************************)
EXTENDS Cbor

NoItem == [end |-> -1, events |-> <<>>, depth |-> 0, width |-> 0]

ItemOf(end, events) == [NoItem EXCEPT !.end = end, !.events = events]

Max2(a, b) == IF a > b THEN a ELSE b

(* The head at pos: major type, additional information, argument, next.     *)
(* Majors 0, 1 and 6 have no indefinite form.                               *)
HeadAt(s, pos) ==
  LET ai    == s[pos + 1] % 32
      major == s[pos + 1] \div 32
      n     == IF ai < 24 \/ ai = 31 THEN 0 ELSE 2^(ai - 24)
      arg   == IF ai < 24 THEN <<ai>> ELSE IF pos + 1 + n > Len(s) THEN <<>>
               ELSE SubSeq(s, pos + 2, pos + 1 + n)
  IN  [ok    |-> /\ ai \notin 28..30
                 /\ major \in {0, 1, 6} => ai # 31
                 /\ pos + 1 + n <= Len(s),
       major |-> major, indefinite |-> ai = 31, ai |-> ai, arg |-> arg,
       next  |-> pos + 1 + n]

RECURSIVE StringAt(_, _, _), Item(_, _), Members(_, _, _, _, _)

(* the bytes of the string of this major type at pos, as [end, data] *)
StringAt(s, pos, major) ==
  LET h == HeadAt(s, pos)
      chunks[p \in 0..Len(s)] ==
        IF p = Len(s) THEN [end |-> -1, data |-> <<>>]
        ELSE IF s[p + 1] = BREAK THEN [end |-> p + 1, data |-> <<>>]
        ELSE IF HeadAt(s, p).indefinite THEN [end |-> -1, data |-> <<>>]
        ELSE LET c == StringAt(s, p, major) IN
             IF c.end = -1 THEN c
             ELSE [end |-> chunks[c.end].end, data |-> c.data \o chunks[c.end].data]
  IN  IF pos >= Len(s) \/ ~h.ok \/ h.major # major THEN [end |-> -1, data |-> <<>>]
      ELSE IF h.indefinite THEN chunks[h.next]
      ELSE IF h.next + Count(h.arg) > Len(s) THEN [end |-> -1, data |-> <<>>]
      ELSE [end  |-> h.next + Count(h.arg),
            data |-> SubSeq(s, h.next + 1, h.next + Count(h.arg))]

StringItem(str, kind) ==
  IF str.end = -1 \/ (kind = "str" /\ ~Utf8(str.data)) THEN NoItem
  ELSE ItemOf(str.end, <<Tok(kind, str.data)>>)

SimpleItem(s, h) ==
  CASE h.ai \in {20, 21} -> ItemOf(h.next, <<Tok("bool", <<h.ai - 20>>)>>)
    [] h.ai = 22         -> ItemOf(h.next, <<Tok("null", <<>>)>>)
    [] h.ai \in 25..27   -> ItemOf(h.next, <<Float(h.arg)>>)
    [] OTHER             -> NoItem

TaggedItem(s, h) ==
  LET magnitude == StringAt(s, h.next, 2)
      negative  == Stripped(h.arg) = <<3>>
      definite  == h.next < Len(s) /\ ~HeadAt(s, h.next).indefinite
  IN  IF Stripped(h.arg) \notin {<<2>>, <<3>>} THEN Item(s, h.next)
      ELSE IF magnitude.end = -1 \/ ~definite \/ Len(magnitude.data) > 16 THEN NoItem
      ELSE ItemOf(magnitude.end, <<Num(negative, magnitude.data)>>)

(* n members to go of a container ({}: up to the break), acc so far *)
Members(s, kind, n, seen, acc) ==
  LET key   == StringAt(s, acc.end, 3)
      value == Item(s, IF kind = "object" THEN key.end ELSE acc.end)
      label == IF kind = "object" THEN <<Tok("key", key.data)>> ELSE <<>>
      more  == {k - 1 : k \in n}
  IN  IF n = {0} THEN [acc EXCEPT !.events = Append(@, Closing)]
      ELSE IF acc.end >= Len(s) THEN NoItem
      ELSE IF n = {} /\ s[acc.end + 1] = BREAK
      THEN [acc EXCEPT !.end = @ + 1, !.events = Append(@, Closing)]
      ELSE IF kind = "object" /\ (key.end = -1 \/ ~Utf8(key.data)) THEN NoItem
      ELSE IF value.end = -1 THEN NoItem
      ELSE Members(s, kind, more, seen + 1,
                   [end    |-> value.end,
                    events |-> acc.events \o label \o value.events,
                    depth  |-> Max2(acc.depth, value.depth + 1),
                    width  |-> Max2(acc.width, Max2(seen + 1, value.width))])

Item(s, pos) ==
  LET h    == HeadAt(s, pos)
      kind == IF h.major = 4 THEN "array" ELSE "object"
  IN  IF pos >= Len(s) \/ ~h.ok THEN NoItem
      ELSE CASE h.major \in {0, 1} -> ItemOf(h.next, <<Num(h.major = 1, h.arg)>>)
             [] h.major = 2 -> StringItem(StringAt(s, pos, 2), "bytes")
             [] h.major = 3 -> StringItem(StringAt(s, pos, 3), "str")
             [] h.major \in {4, 5} ->
                  Members(s, kind, IF h.indefinite THEN {} ELSE {Count(h.arg)}, 0,
                          [ItemOf(h.next, <<Opening(kind)>>) EXCEPT !.depth = 1])
             [] h.major = 6 -> TaggedItem(s, h)
             [] h.major = 7 -> SimpleItem(s, h)

(* The events of nextjson's data model: no byte strings *)
InValueModel(item) ==
  item.end # -1 /\ \A i \in 1..Len(item.events) : item.events[i].kind # "bytes"
=============================================================================
