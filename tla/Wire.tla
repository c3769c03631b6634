------------------------------- MODULE Wire -------------------------------
(***************************************************************************)
(* The byte level of the self-describing format: tags, marker varints,     *)
(* fixed-width integers, length-prefixed strings.  The decoder             *)
(* (decoder.rs) and the encoder (ser.rs) are the clients of this module;    *)
(* the probe (probe.rs) re-implements the reading half and has its own      *)
(* module.                                                                 *)
(*                                                                         *)
(* Bytes are numbers 0..255 with the tags and markers of tags.rs.  A        *)
(* reader returns a Res record: the cursor after the read (the code leaves  *)
(* it where the failing primitive stopped), the error or None, the value.   *)
(*                                                                         *)
(* Abstractions of data.  Integers of 2^24 and more are one value,         *)
(* Saturated, but for the last 2^24 of a 64-bit word, which end at WordEnd:  *)
(* no modelled input or limit comes near them, so a comparison with a        *)
(* length or a limit has the outcome it has in the code, and a position that *)
(* such a length is added to overflows exactly if it does in the code.  The  *)
(* payload of a float is read but not kept.  UTF-8 is decided for ASCII     *)
(* bytes (valid) and 248..255 (never valid); inputs hold no other bytes.    *)
(***************************************************************************)
EXTENDS Integers, Sequences

TAG_NULL   == 0
TAG_FALSE  == 1
TAG_TRUE   == 2
TAG_U64    == 3
TAG_U128   == 4
TAG_I64    == 5
TAG_I128   == 6
TAG_F64    == 7
TAG_F32    == 8
TAG_STRING == 9
TAG_ARRAY  == 10
TAG_OBJECT == 11
TAG_END    == 255

MARKER_U16  == 251
MARKER_U32  == 252
MARKER_U64  == 253
MARKER_U128 == 254

Byte == (0..127) \union (248..255)

(***************************************************************************)
(* Config of config.rs.  An Option<u64> limit is a set with at most one     *)
(* element, {} being None.                                                 *)
(***************************************************************************)
Limit == {s \in SUBSET Nat : \A m, n \in s : m = n}

Config == [little           : BOOLEAN,
           variable         : BOOLEAN,
           rejectTrailing   : BOOLEAN,
           limit            : Limit,
           collection_limit : Limit,
           depth_limit      : Nat]

Exceeds(n, limit) == \E l \in limit : n > l

---------------------------------------------------------------------------
(* Results of a read *)

None == "none"

(* The kinds of error the decoder's fail is called with, and no error *)
ErrorOrNone ==
  {None, "SizeLimit", "UnexpectedEnd", "InvalidVarintMarker",
   "NonCanonicalVarint", "IntegerOverflow", "InvalidUtf8", "InvalidChar",
   "UnexpectedTerminator", "InvalidTag", "DepthLimit", "CollectionLimit",
   "NoContainer", "NoTerminator"}

Saturated == 16777216
WordEnd   == 3 * Saturated    (* usize::MAX + 1 *)

Res(cursor, error, val) == [cursor |-> cursor, error |-> error, val |-> val]

(* Mutant: the end of the range is not checked against the input *)
Take_ShortRead(cfg, input, cursor, n) ==
  IF cursor + n >= WordEnd THEN Res(cursor, "UnexpectedEnd", <<>>)
  ELSE IF Exceeds(cursor + n, cfg.limit) THEN Res(cursor, "SizeLimit", <<>>)
  ELSE IF cursor >= Len(input) THEN Res(cursor, "UnexpectedEnd", <<>>)
  ELSE Res(cursor + n, None,
           SubSeq(input, cursor + 1,
                  IF cursor + n < Len(input) THEN cursor + n ELSE Len(input)))

(* Decoder::take *)
Take(cfg, input, cursor, n) ==
  IF cursor + n >= WordEnd THEN Res(cursor, "UnexpectedEnd", <<>>)
  ELSE IF Exceeds(cursor + n, cfg.limit) THEN Res(cursor, "SizeLimit", <<>>)
  ELSE IF cursor + n > Len(input) THEN Res(cursor, "UnexpectedEnd", <<>>)
  ELSE Res(cursor + n, None, SubSeq(input, cursor + 1, cursor + n))

---------------------------------------------------------------------------
(* Integers.  A payload is kept in little-endian order. *)

LittleEndian(cfg, bytes) ==
  IF cfg.little THEN bytes
  ELSE [i \in 1..Len(bytes) |-> bytes[Len(bytes) + 1 - i]]

(* from_le_bytes, saturating *)
UValue(p) ==
  LET digit(i) == IF i <= Len(p) THEN p[i] ELSE 0
      low      == digit(1) + 256 * digit(2) + 65536 * digit(3)
  IN  IF \A i \in 4..Len(p) : p[i] = 0 THEN low
      ELSE IF Len(p) = 8 /\ \A i \in 4..8 : p[i] = 255 THEN 2 * Saturated + low
      ELSE Saturated

(* two's complement from_le_bytes of the sign-extended payload *)
SValue(p) ==
  IF p[Len(p)] >= 128 THEN -1 - UValue([i \in 1..Len(p) |-> 255 - p[i]])
  ELSE UValue(p)

zigzag_decode(n) == IF n % 2 = 0 THEN n \div 2 ELSE -((n + 1) \div 2)
zigzag_encode(v) == IF v >= 0 THEN 2 * v ELSE -2 * v - 1

(* The narrowest-form rule: a 16-bit payload holds at least 251, a wider    *)
(* one needs a non-zero byte in its upper half.                             *)
Canonical(p) ==
  CASE Len(p) = 1 -> TRUE
    [] Len(p) = 2 -> p[2] # 0 \/ p[1] >= 251
    [] OTHER      -> \E i \in (Len(p) \div 2 + 1)..Len(p) : p[i] # 0

PayloadLen(marker) ==
  CASE marker = MARKER_U16  -> 2
    [] marker = MARKER_U32  -> 4
    [] marker = MARKER_U64  -> 8
    [] marker = MARKER_U128 -> 16

(* the payload behind a marker *)
Narrowest(cursor, payload) ==
  IF Canonical(payload) THEN Res(cursor, None, payload)
  ELSE Res(cursor, "NonCanonicalVarint", <<>>)

Widened(cfg, p) ==
  IF p.error # None THEN p ELSE Narrowest(p.cursor, LittleEndian(cfg, p.val))

(* Decoder::varint; the value is the little-endian payload *)
Varint(cfg, input, cursor) ==
  LET m      == Take(cfg, input, cursor, 1)
      marker == m.val[1]
  IN  IF m.error # None THEN m
      ELSE IF marker <= 250 THEN m
      ELSE IF marker = 255 THEN Res(m.cursor, "InvalidVarintMarker", <<>>)
      ELSE Widened(cfg, Take(cfg, input, m.cursor, PayloadLen(marker)))

(***************************************************************************)
(* Decoder::unsigned and Decoder::signed for the two widths the codec uses, *)
(* 8 and 16 bytes.  A canonical 128-bit payload is at least 2^64: it never   *)
(* fits an 8-byte target, signed or not.                                    *)
(***************************************************************************)
OfVarint(v, width, signed) ==
  IF v.error # None THEN Res(v.cursor, v.error, 0)
  ELSE IF width = 8 /\ Len(v.val) = 16 THEN Res(v.cursor, "IntegerOverflow", 0)
  ELSE Res(v.cursor, None, IF signed THEN zigzag_decode(UValue(v.val))
                                     ELSE UValue(v.val))

OfFixed(cfg, f, signed) ==
  LET payload == LittleEndian(cfg, f.val)
  IN  IF f.error # None THEN Res(f.cursor, f.error, 0)
      ELSE Res(f.cursor, None, IF signed THEN SValue(payload) ELSE UValue(payload))

Integer(cfg, input, cursor, width, signed) ==
  IF cfg.variable THEN OfVarint(Varint(cfg, input, cursor), width, signed)
                  ELSE OfFixed(cfg, Take(cfg, input, cursor, width), signed)

ValidUtf8(bytes) == \A i \in 1..Len(bytes) : bytes[i] < 128

Text(s) == IF s.error # None \/ ValidUtf8(s.val) THEN s
           ELSE Res(s.cursor, "InvalidUtf8", <<>>)

StringOf(cfg, input, n) ==
  IF n.error # None THEN Res(n.cursor, n.error, <<>>)
  ELSE Text(Take(cfg, input, n.cursor, n.val))

(* Decoder::read_string *)
ReadString(cfg, input, cursor) ==
  StringOf(cfg, input, Integer(cfg, input, cursor, 8, FALSE))

---------------------------------------------------------------------------
(***************************************************************************)
(* Tokens: a kind and the decoded data: a bool as <<0>> or <<1>>, an        *)
(* integer as <<tag, value>>, a string as its bytes.                        *)
(***************************************************************************)
Scalars    == {"null", "bool", "number", "str"}
Containers == {"array", "object"}

Token == [kind : Scalars \union Containers, val : Seq(Int)]

Tok(kind, val) == [kind |-> kind, val |-> val]

NoToken == Tok("null", <<>>)

IntWidth(tag) == IF tag \in {TAG_U64, TAG_I64} THEN 8 ELSE 16

NumberToken(tag, n) == Res(n.cursor, n.error, Tok("number", <<tag, n.val>>))
FloatToken(f)       == Res(f.cursor, f.error, Tok("number", <<TAG_F64>>))
StringToken(s)      == Res(s.cursor, s.error, Tok("str", s.val))

(* what follows a tag, from cursor cur on *)
TokenOf(cfg, input, cur, tag) ==
  CASE tag = TAG_NULL  -> Res(cur, None, Tok("null", <<>>))
    [] tag = TAG_FALSE -> Res(cur, None, Tok("bool", <<0>>))
    [] tag = TAG_TRUE  -> Res(cur, None, Tok("bool", <<1>>))
    [] tag \in {TAG_U64, TAG_U128, TAG_I64, TAG_I128} ->
         NumberToken(tag, Integer(cfg, input, cur, IntWidth(tag),
                                  tag \in {TAG_I64, TAG_I128}))
    [] tag \in {TAG_F64, TAG_F32} ->
         FloatToken(Take(cfg, input, cur, IF tag = TAG_F64 THEN 8 ELSE 4))
    [] tag = TAG_STRING -> StringToken(ReadString(cfg, input, cur))
    [] tag = TAG_ARRAY  -> Res(cur, None, Tok("array", <<>>))
    [] tag = TAG_OBJECT -> Res(cur, None, Tok("object", <<>>))
    [] tag = TAG_END    -> Res(cur, "UnexpectedTerminator", NoToken)
    [] OTHER            -> Res(cur, "InvalidTag", NoToken)

(* Decoder::read_token *)
ReadToken(cfg, input, cursor) ==
  LET t == Take(cfg, input, cursor, 1)
  IN  IF t.error # None THEN Res(t.cursor, t.error, NoToken)
      ELSE TokenOf(cfg, input, t.cursor, t.val[1])

---------------------------------------------------------------------------
(* The writing half: what ser.rs emits for an integer or a length.  Values   *)
(* stay below Saturated.                                                    *)

(* to_le_bytes of a natural number, w bytes wide *)
LEBytes(n, w) ==
  [i \in 1..w |-> IF i <= 3 THEN (n \div 256^(i - 1)) % 256 ELSE 0]

(* to_le_bytes of an integer in two's complement *)
SBytes(v, w) ==
  IF v >= 0 THEN LEBytes(v, w)
  ELSE [i \in 1..w |-> 255 - LEBytes(-1 - v, w)[i]]

(* Mutant: the first marker value written as a length-free byte *)
VarintBytes_OffByOne(cfg, n) ==
  IF n <= 251 THEN <<n>>
  ELSE IF n <= 65535 THEN <<MARKER_U16>> \o LittleEndian(cfg, LEBytes(n, 2))
  ELSE <<MARKER_U32>> \o LittleEndian(cfg, LEBytes(n, 4))

(* Encoder::varint: the narrowest form *)
VarintBytes(cfg, n) ==
  IF n <= 250 THEN <<n>>
  ELSE IF n <= 65535 THEN <<MARKER_U16>> \o LittleEndian(cfg, LEBytes(n, 2))
  ELSE <<MARKER_U32>> \o LittleEndian(cfg, LEBytes(n, 4))

(* Encoder::unsigned and Encoder::signed *)
IntegerBytes(cfg, v, width, signed) ==
  IF cfg.variable
  THEN VarintBytes(cfg, IF signed THEN zigzag_encode(v) ELSE v)
  ELSE LittleEndian(cfg, IF signed THEN SBytes(v, width) ELSE LEBytes(v, width))

===========================================================================
