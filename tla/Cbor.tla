-------------------------------- MODULE Cbor --------------------------------
(***************************************************************************)
(* The RFC 8949 codec of cbor_codec.rs: a streaming encoder and a streaming *)
(* decoder driven by nextjson's event contract, like the ones of ser.rs and *)
(* decoder.rs, but over a format whose containers may announce how many     *)
(* elements they hold.  A frame therefore counts down (definite) or waits   *)
(* for a break (indefinite), and reading a token, even to peek at it,       *)
(* charges the enclosing frame.                                             *)
(*                                                                         *)
(* The decoder is one record d (struct CborDecoder, its arguments included). *)
(* A method returns [d, error, val]; CborDecode drives them as a client of  *)
(* the contract would.                                                      *)
(*                                                                         *)
(* Data.  The magnitude of a number is its big-endian bytes without leading *)
(* zeros, at full width; a float keeps its bytes, whatever its width (the   *)
(* widening to f64 is exact).  UTF-8 is decided for one- and two-byte       *)
(* sequences; no input of the model holds a longer one.                     *)
(***************************************************************************)
EXTENDS Wire, SequencesExt

CONSTANT CborDepth  (* MAX_DEPTH *)

ASSUME CborDepthAssumption == CborDepth \in Nat

BREAK == 255

---------------------------------------------------------------------------
(* Numbers and text *)

Stripped(p) ==
  LET z == CHOOSE i \in 0..Len(p) :
             (\A j \in 1..i : p[j] = 0) /\ (i < Len(p) => p[i + 1] # 0)
  IN  SubSeq(p, z + 1, Len(p))

(* the length or count a head announces *)
Count(p) == UValue(Reverse(p))

Utf8(s) ==
  \A i \in 1..Len(s) :
    \/ s[i] < 128
    \/ s[i] \in 194..223 /\ i < Len(s) /\ s[i + 1] \in 128..191
    \/ s[i] \in 128..191 /\ i > 1 /\ s[i - 1] \in 194..223

(* Number(negative, p): p, or -1 - p *)
Num(negative, p) == Tok("number", <<IF negative THEN 1 ELSE 0>> \o Stripped(p))
Float(p)         == Tok("float", p)
Opening(kind)    == Tok(kind, <<>>)
Closing          == Tok("end", <<>>)

(* -1 - (p as i128): a magnitude of 2^127 and more changes sign *)
Negative128(p) ==
  IF Len(p) = 16 /\ p[1] >= 128 THEN Num(FALSE, [i \in 1..16 |-> 255 - p[i]])
  ELSE Num(TRUE, p)

---------------------------------------------------------------------------
(* The encoder: a fold over the events of a value *)

Prefixed(major, ai, p) == <<32 * major + ai>> \o p

(* Mutant: 24, the first argument that needs a byte, written inside the head *)
HeadBytes_OffByOne(major, p) ==
  CASE p = <<>> -> Prefixed(major, 0, <<>>)
    [] Len(p) = 1 /\ p[1] <= 24 -> Prefixed(major, p[1], <<>>)
    [] Len(p) = 1 -> Prefixed(major, 24, p)
    [] Len(p) = 2 -> Prefixed(major, 25, p)
    [] Len(p) \in 3..4 -> Prefixed(major, 26, [i \in 1..4 - Len(p) |-> 0] \o p)
    [] OTHER -> Prefixed(major, 27, [i \in 1..8 - Len(p) |-> 0] \o p)

(* head: the shortest form of an argument (its stripped bytes) *)
HeadBytes(major, p) ==
  CASE p = <<>> -> Prefixed(major, 0, <<>>)
    [] Len(p) = 1 /\ p[1] < 24 -> Prefixed(major, p[1], <<>>)
    [] Len(p) = 1 -> Prefixed(major, 24, p)
    [] Len(p) = 2 -> Prefixed(major, 25, p)
    [] Len(p) \in 3..4 -> Prefixed(major, 26, [i \in 1..4 - Len(p) |-> 0] \o p)
    [] OTHER -> Prefixed(major, 27, [i \in 1..8 - Len(p) |-> 0] \o p)

LengthHead(major, n) == HeadBytes(major, Stripped(Reverse(LEBytes(n, 8))))

(* unsigned, signed and bignum (whose zero magnitude cannot occur) *)
NumberBytes(t) ==
  LET p == Tail(t.val)
  IN  IF Len(p) <= 8 THEN <<HeadBytes(t.val[1], p)>>
      ELSE <<HeadBytes(6, <<2 + t.val[1]>>), LengthHead(2, Len(p)), p>>

(* the chunks emitted for an event *)
CborChunks(t) ==
  CASE t.kind = "null"   -> <<<<246>>>>
    [] t.kind = "bool"   -> <<<<244 + t.val[1]>>>>
    [] t.kind = "number" -> NumberBytes(t)
    [] t.kind = "float"  -> <<<<IF Len(t.val) = 8 THEN 251 ELSE 250>>, t.val>>
    [] t.kind = "bytes"  -> <<LengthHead(2, Len(t.val)), t.val>>
    [] t.kind \in {"str", "key"} -> <<LengthHead(3, Len(t.val)), t.val>>
    [] t.kind = "array"  -> <<<<159>>>>
    [] t.kind = "object" -> <<<<191>>>>
    [] t.kind = "end"    -> <<<<BREAK>>>>
    [] t.kind = "sep"    -> <<>>

CborEmit(cfg, acc, chunk) ==
  IF acc.error # None THEN acc
  ELSE IF Exceeds(Len(acc.output) + Len(chunk), cfg.limit)
  THEN [acc EXCEPT !.error = "SizeLimit"]
  ELSE [acc EXCEPT !.output = @ \o chunk]

(* separator and key count an element of the open container *)
CborCount(cfg, acc, t) ==
  IF t.kind \notin {"sep", "key"} THEN acc
  ELSE IF Exceeds(Last(acc.counts) + 1, cfg.collection_limit)
  THEN [acc EXCEPT !.error = "CollectionLimit"]
  ELSE [acc EXCEPT !.counts[Len(acc.counts)] = @ + 1]

(* enter_container and exit_container; the counts above depth are zero *)
CborNest(acc, t) ==
  CASE acc.error # None -> acc
    [] t.kind \in Containers /\ Len(acc.counts) >= CborDepth ->
         [acc EXCEPT !.error = "DepthLimit"]
    [] t.kind \in Containers -> [acc EXCEPT !.counts = Append(@, 0)]
    [] t.kind = "end"        -> [acc EXCEPT !.counts = Front(@)]
    [] OTHER                 -> acc

(* finish *)
CborEncode(cfg, events) ==
  LET step(acc, t) ==
        IF acc.error # None THEN acc
        ELSE FoldLeft(LAMBDA a, chunk : CborEmit(cfg, a, chunk),
                      CborNest(CborCount(cfg, acc, t), t), CborChunks(t))
  IN  FoldLeft(step, [error |-> None, output |-> <<>>, counts |-> <<>>], events)

---------------------------------------------------------------------------
(* The decoder.  A frame is [kind, definite]; definite is a set with at most *)
(* one element, the elements that remain, {} being None.                    *)

NewDecoder(cfg, bytes) ==
  [cfg |-> cfg, input |-> bytes, cursor |-> 0, depth |-> 0,
   counts |-> [i \in 1..CborDepth |-> 0], frames |-> <<>>, lookahead |-> <<>>,
   wire_error |-> None]

Ok(d, val)     == [d |-> d, error |-> None, val |-> val]
Fail(d, e)     == [d |-> [d EXCEPT !.wire_error = e], error |-> e, val |-> <<>>]
Mistyped(d)    == [d |-> d, error |-> "InvalidType", val |-> <<>>]
Then(r, F(_, _)) == IF r.error # None THEN r ELSE F(r.d, r.val)

At(d, pos) == [d EXCEPT !.cursor = pos]

(* take *)
TakeBytes(d, n) ==
  LET t == Take(d.cfg, d.input, d.cursor, n)
  IN  IF t.error # None THEN Fail(d, t.error) ELSE Ok(At(d, t.cursor), t.val)

PeekByte(d) ==
  IF d.cursor >= Len(d.input) THEN Fail(d, "UnexpectedEnd")
  ELSE IF Exceeds(d.cursor + 1, d.cfg.limit) THEN Fail(d, "SizeLimit")
  ELSE Ok(d, d.input[d.cursor + 1])

HeadArg(major, ai, arg) == [major |-> major, ai |-> ai, arg |-> arg]
Indefinite(h) == h.ai = 31

(* read_head: major type 7 has no argument *)
ReadHead(d) ==
  Then(TakeBytes(d, 1), LAMBDA d1, b :
    LET major == b[1] \div 32
        ai    == b[1] % 32
    IN  IF ai \in 28..30 THEN Fail(d1, "Reserved")
        ELSE IF major = 7 \/ ai = 31 THEN Ok(d1, HeadArg(major, ai, <<>>))
        ELSE IF ai < 24 THEN Ok(d1, HeadArg(major, ai, <<ai>>))
        ELSE Then(TakeBytes(d1, 2^(ai - 24)),
                  LAMBDA d2, p : Ok(d2, HeadArg(major, ai, p))))

(* HeadArg::value, which asserts that there is one *)
Argument(d, h) == IF Indefinite(h) THEN Fail(d, "Unreachable") ELSE Ok(d, h.arg)

---------------------------------------------------------------------------
(* Frames *)

Innermost(d) == Last(d.frames)

(* dec_remaining: a token charges the definite container it is read in *)
DecRemaining(d) ==
  IF d.frames = <<>> \/ Innermost(d).definite = {} THEN Ok(d, <<>>)
  ELSE IF Innermost(d).definite = {0} THEN Fail(d, "TooManyElements")
  ELSE Ok([d EXCEPT !.frames[Len(d.frames)].definite = {n - 1 : n \in @}], <<>>)

(* enter_container *)
EnterContainer(d, kind, definite) ==
  IF d.depth >= CborDepth THEN Fail(d, "DepthLimit")
  ELSE IF \E n \in definite : Exceeds(n, d.cfg.collection_limit)
  THEN Fail(d, "CollectionLimit")
  ELSE Ok([d EXCEPT !.depth = @ + 1,
                    !.frames = Append(@, [kind |-> kind, definite |-> definite])],
          Opening(kind))

(* pop_frame *)
PopFrame(d, kind) ==
  IF d.frames = <<>> THEN Fail(d, "NoContainer")
  ELSE IF Innermost(d).kind # kind THEN Fail(d, "MismatchedEnd")
  ELSE Ok([d EXCEPT !.frames = Front(@), !.depth = @ - 1, !.counts[d.depth] = 0],
          <<>>)

CountElement(d) ==
  IF d.depth = 0 THEN Fail(d, "NoContainer")
  ELSE IF Exceeds(d.counts[d.depth] + 1, d.cfg.collection_limit)
  THEN Fail(d, "CollectionLimit")
  ELSE Ok([d EXCEPT !.counts[d.depth] = @ + 1], <<>>)

(* has_more *)
HasMore(d) ==
  IF d.lookahead # <<>> THEN Ok(d, TRUE)
  ELSE IF d.frames = <<>> THEN Fail(d, "NoContainer")
  ELSE IF Innermost(d).definite # {} THEN Ok(d, Innermost(d).definite # {0})
  ELSE Then(PeekByte(d), LAMBDA d1, b : Ok(d1, b # BREAK))

---------------------------------------------------------------------------
(* Tokens *)

(* Mutant: strings, booleans and nulls are not counted *)
Charged_Never(d, token) == Ok(d, token)

Charged(d, token) == Then(DecRemaining(d), LAMBDA d1, x : Ok(d1, token))

RECURSIVE Chunks(_, _, _)

(* the chunks of an indefinite string of the given major type, up to the    *)
(* break; each is a definite string                                         *)
Chunks(d, major, acc) ==
  Then(PeekByte(d), LAMBDA d1, b :
    IF b = BREAK THEN Ok(At(d1, d1.cursor + 1), acc)
    ELSE Then(ReadHead(d1), LAMBDA d2, h :
           IF h.major # major THEN Fail(d2, "BadChunk")
           ELSE IF Indefinite(h) THEN Fail(d2, "BadChunkLength")
           ELSE Then(TakeBytes(d2, Count(h.arg)),
                     LAMBDA d3, p : Chunks(d3, major, acc \o p))))

(* the payload of a text or byte string whose head was read *)
Payload(d, h) ==
  IF Indefinite(h) THEN Chunks(d, h.major, <<>>) ELSE TakeBytes(d, Count(h.arg))

(* read_text *)
ReadText(d, h) ==
  Then(Payload(d, h), LAMBDA d1, p :
    IF Utf8(p) THEN Ok(d1, Tok("str", p)) ELSE Fail(d1, "InvalidUtf8"))

(* read_bignum *)
ReadBignum(d, negative) ==
  Then(ReadHead(d), LAMBDA d1, h :
    IF h.major # 2 \/ Indefinite(h) THEN Fail(d1, "BadBignum")
    ELSE Then(TakeBytes(d1, Count(h.arg)), LAMBDA d2, p :
           IF Len(p) > 16 THEN Fail(d2, "BadBignum")
           ELSE Ok(d2, IF negative THEN Negative128(p) ELSE Num(FALSE, p))))

(* major type 7; a float is charged before its bytes are read *)
ReadSimple(d, h) ==
  CASE h.ai \in {20, 21} -> Charged(d, Tok("bool", <<h.ai - 20>>))
    [] h.ai = 22 -> Charged(d, Tok("null", <<>>))
    [] h.ai \in 25..27 ->
         Then(DecRemaining(d), LAMBDA d1, x :
           Then(TakeBytes(d1, 2^(h.ai - 24)), LAMBDA d2, p : Ok(d2, Float(p))))
    [] h.ai = 24 -> Then(TakeBytes(d, 1), LAMBDA d1, p : Fail(d1, "Unsupported"))
    [] Indefinite(h) -> IF d.frames = <<>> THEN Fail(d, "BreakOutside")
                        ELSE Ok(d, Closing)
    [] OTHER -> Fail(d, "Unsupported")

RECURSIVE ReadTokenC(_)

(* read_token; a tag other than 2 and 3 is passed over *)
ReadTokenC(d) ==
  Then(ReadHead(d), LAMBDA d1, h :
    CASE h.major \in {0, 1} ->
           Then(DecRemaining(d1), LAMBDA d2, x :
             Then(Argument(d2, h), LAMBDA d3, p : Ok(d3, Num(h.major = 1, p))))
      [] h.major = 2 -> Fail(d1, "ByteString")
      [] h.major = 3 -> Then(ReadText(d1, h), Charged)
      [] h.major \in {4, 5} ->
           Then(DecRemaining(d1), LAMBDA d2, x :
             EnterContainer(d2, IF h.major = 4 THEN "array" ELSE "object",
                            IF Indefinite(h) THEN {} ELSE {Count(h.arg)}))
      [] h.major = 6 ->
           Then(Argument(d1, h), LAMBDA d2, tag :
             IF Stripped(tag) \in {<<2>>, <<3>>}
             THEN Then(ReadBignum(d2, Stripped(tag) = <<3>>), Charged)
             ELSE ReadTokenC(d2))
      [] h.major = 7 -> ReadSimple(d1, h))

(* take_token, peek_token *)
TakeTokenC(d) ==
  IF d.lookahead # <<>> THEN Ok([d EXCEPT !.lookahead = <<>>], d.lookahead[1])
  ELSE ReadTokenC(d)

PeekTokenC(d) ==
  IF d.lookahead # <<>> THEN Ok(d, d.lookahead[1])
  ELSE Then(ReadTokenC(d), LAMBDA d1, t : Ok([d1 EXCEPT !.lookahead = <<t>>], t))

(* unit, bool, number, string, next_token, begin_array, begin_object *)
Expect(d, kinds) ==
  Then(TakeTokenC(d), LAMBDA d1, t :
    IF t.kind \in kinds THEN Ok(d1, t) ELSE Mistyped(d1))

RECURSIVE SkipTo(_, _)

(* the loop of skip_value_inner: down to the depth the skip began at *)
SkipTo(d, saved) ==
  LET finished == CASE Innermost(d).definite = {0} -> Ok(d, TRUE)
                    [] Innermost(d).definite = {}  ->
                         Then(PeekByte(d), LAMBDA d1, b : Ok(d1, b = BREAK))
                    [] OTHER -> Ok(d, FALSE)
      past(d1) == IF Innermost(d1).definite = {} THEN At(d1, d1.cursor + 1) ELSE d1
  IN  IF d.depth <= saved THEN Ok(d, <<>>)
      ELSE Then(finished, LAMBDA d1, f :
             IF f THEN Then(PopFrame(past(d1), Innermost(d1).kind),
                            LAMBDA d2, x : SkipTo(d2, saved))
             ELSE Then(TakeTokenC(d1), LAMBDA d2, t : SkipTo(d2, saved)))

SkipValueC(d) ==
  Then(TakeTokenC(d), LAMBDA d1, t : SkipTo(d1, d.depth))

(* object_key: None is <<>>; a key charges nothing *)
ObjectKeyC(d) ==
  LET closes == IF Innermost(d).definite # {} THEN Ok(d, Innermost(d).definite = {0})
                ELSE Then(PeekByte(d), LAMBDA d1, b : Ok(d1, b = BREAK))
  IN  IF d.lookahead # <<>>
      THEN LET t == d.lookahead[1] IN
           CASE t.kind = "str" -> Ok([d EXCEPT !.lookahead = <<>>], <<t.val>>)
             [] t = Closing    -> Ok([d EXCEPT !.lookahead = <<>>], <<>>)
             [] OTHER          -> Mistyped([d EXCEPT !.lookahead = <<>>])
      ELSE IF d.frames = <<>> \/ Innermost(d).kind # "object"
      THEN Fail(d, "NoContainer")
      ELSE Then(closes, LAMBDA d1, none :
             IF none THEN Ok(d1, <<>>)
             ELSE Then(ReadHead(d1), LAMBDA d2, h :
                    IF h.major # 3 THEN Mistyped(d2)
                    ELSE Then(ReadText(d2, h), LAMBDA d3, t : Ok(d3, <<t.val>>))))

(* array_entry_sep, object_entry_sep *)
EntrySepC(d) == Then(CountElement(d), LAMBDA d1, x : HasMore(d1))

(* end_container: a break that was already read is pending as a lookahead *)
EndContainerC(d, kind) ==
  LET closed(d1) == IF Innermost(d1).definite \notin {{}, {0}}
                    THEN Fail(d1, "UnreadElements") ELSE PopFrame(d1, kind)
  IN  IF d.lookahead # <<>>
      THEN IF d.lookahead[1].kind \notin Containers \union {"end"}
           THEN Fail([d EXCEPT !.lookahead = <<>>], "UnreadElements")
           ELSE closed([d EXCEPT !.lookahead = <<>>])
      ELSE IF d.frames = <<>> THEN Fail(d, "NoContainer")
      ELSE IF Innermost(d).definite # {} THEN closed(d)
      ELSE Then(PeekByte(d), LAMBDA d1, b :
             IF b # BREAK THEN Fail(d1, "UnreadElements")
             ELSE closed(At(d1, d1.cursor + 1)))

(* bytes, of a native byte string or of text; of an array it reads the head  *)
(* here and its numbers through the calls for arrays                        *)
BytesC(d) ==
  Then(PeekByte(d), LAMBDA d1, b :
    CASE b \div 32 = 2 ->
           Then(ReadHead(d1), LAMBDA d2, h :
             Then(Payload(d2, h), LAMBDA d3, p : Ok(d3, Tok("bytes", p))))
      [] b \div 32 = 3 ->
           Then(Expect(d1, {"str"}), LAMBDA d2, t : Ok(d2, Tok("bytes", t.val)))
      [] b \div 32 = 4 -> Expect(d1, {"array"})
      [] OTHER -> Fail(d1, "NotBytes"))

(* option_tag: TRUE for None, which is consumed *)
OptionTag(d) ==
  IF d.lookahead = <<>>
  THEN Then(PeekByte(d), LAMBDA d1, b :
         IF b = 246 THEN Ok(At(d1, d1.cursor + 1), TRUE) ELSE Ok(d1, FALSE))
  ELSE IF d.lookahead[1].kind = "null" THEN Ok([d EXCEPT !.lookahead = <<>>], TRUE)
  ELSE Ok(d, FALSE)

(* save, restore: a mark is a cursor and a depth, nothing of the frames *)
SaveC(d) == [cursor |-> d.cursor, depth |-> d.depth]

RestoreC(d, mark) ==
  LET to == IF mark.depth < CborDepth THEN mark.depth ELSE CborDepth
  IN  [d EXCEPT !.cursor = mark.cursor, !.depth = to,
                !.frames = SubSeq(@, 1, IF to < Len(@) THEN to ELSE Len(@)),
                !.counts = [i \in 1..CborDepth |-> IF i > to THEN 0 ELSE @[i]],
                !.lookahead = <<>>, !.wire_error = None]

=============================================================================
