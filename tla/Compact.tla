------------------------------- MODULE Compact -------------------------------
(***************************************************************************)
(* The compact profile of compact.rs: a headerless stream in which the type  *)
(* alone says what comes next.  A type is a record [k, ...]; encoding and   *)
(* decoding are defined by recursion on it, as the trait implementations    *)
(* are, and so are the types the derive macro generates (a struct is a      *)
(* tuple, an enum an index and a tuple).                                    *)
(*                                                                         *)
(* The writer w is [cfg, out, depth, error] (BoundedWriter over a Vec), the *)
(* reader c is [cfg, input, pos, depth, base] (CompactCursor).  base is the *)
(* address of the input: three decoders look at the alignment of a payload. *)
(*                                                                         *)
(* Values: integers; bytes for floats and strings; sequences for arrays,    *)
(* tuples, options (at most one element) and maps (pairs in iteration       *)
(* order, ascending for a BTreeMap); <<index, fields>> for an enum.         *)
(***************************************************************************)
EXTENDS Wire, SequencesExt

(* payload bytes of the widest form of each varint type *)
VarintWidth == [u16 |-> 2, u32 |-> 4, u64 |-> 8, u128 |-> 16,
                i16 |-> 2, i32 |-> 4, i64 |-> 8, i128 |-> 16, char |-> 4]

Signed == {"i16", "i32", "i64", "i128"}
Varints == DOMAIN VarintWidth
FloatWidth == [f32 |-> 4, f64 |-> 8]

(* the elements encode_elements batches *)
Bulk == {"u16", "u32", "u64", "i16", "i32", "i64"}

LE == [little |-> TRUE]

---------------------------------------------------------------------------
(* Encoding *)

(* BoundedWriter::write_all *)
Write(w, bytes) ==
  IF w.error # None THEN w
  ELSE IF Exceeds(Len(w.out) + Len(bytes), w.cfg.limit)
  THEN [w EXCEPT !.error = "SizeLimit"]
  ELSE [w EXCEPT !.out = @ \o bytes]

EnterW(w) ==
  IF w.error # None THEN w
  ELSE IF w.depth >= w.cfg.depth_limit THEN [w EXCEPT !.error = "DepthLimit"]
  ELSE [w EXCEPT !.depth = @ + 1]

ExitW(w) == IF w.error # None THEN w ELSE [w EXCEPT !.depth = @ - 1]

VarintOf(k, v) == VarintBytes(LE, IF k \in Signed THEN zigzag_encode(v) ELSE v)
Length(w, n) == Write(w, VarintOf("u64", n))

BufferLen == 64

(* one round of encode_varints_bulk: flush when the next one may not fit *)
BulkStep(acc, bytes) ==
  IF Len(acc.buffer) + 17 > BufferLen
  THEN [w |-> Write(acc.w, acc.buffer), buffer |-> bytes]
  ELSE [acc EXCEPT !.buffer = @ \o bytes]

EncodeBulk(w, k, values) ==
  LET acc == FoldLeft(BulkStep, [w |-> w, buffer |-> <<>>],
                      [i \in 1..Len(values) |-> VarintOf(k, values[i])])
  IN  Write(acc.w, acc.buffer)

RECURSIVE EncodeAs(_, _, _)

EncodeEach(w, types, values) ==
  FoldLeft(LAMBDA acc, i : EncodeAs(acc, types[i], values[i]), w,
           [i \in 1..Len(values) |-> i])

Repeat(type, n) == [i \in 1..n |-> type]

(* encode_elements: bytes and floats in one piece, integers in batches *)
Elements(w, type, values) ==
  CASE type.k \in {"u8", "i8"}       -> Write(w, [i \in 1..Len(values) |-> values[i] % 256])
    [] type.k \in DOMAIN FloatWidth -> Write(w, FlattenSeq(values))
    [] type.k \in Bulk               -> EncodeBulk(w, type.k, values)
    [] OTHER -> EncodeEach(w, Repeat(type, Len(values)), values)

(* encode_compact *)
EncodeAs(w, type, v) ==
  CASE type.k = "unit" -> w
    [] type.k = "bool" -> Write(w, <<v>>)
    [] type.k \in {"u8", "i8"} -> Write(w, <<v % 256>>)
    [] type.k \in Varints -> Write(w, VarintOf(type.k, v))
    [] type.k \in DOMAIN FloatWidth -> Write(w, v)
    [] type.k = "str" -> Write(Length(w, Len(v)), v)
    [] type.k \in {"vec", "deque"} ->
         ExitW(Elements(EnterW(Length(w, Len(v))), type.of, v))
    [] type.k = "bytes" -> ExitW(Write(EnterW(Length(w, Len(v))), v))
    [] type.k = "array" -> Elements(w, type.of, v)
    [] type.k = "option" -> IF v = <<>> THEN Write(w, <<0>>)
                            ELSE EncodeAs(Write(w, <<1>>), type.of, v[1])
    [] type.k = "map" ->
         ExitW(EncodeEach(EnterW(Length(w, Len(v))),
                          Repeat([k |-> "tuple", of |-> <<type.key, type.of>>], Len(v)), v))
    [] type.k = "tuple" -> EncodeEach(w, type.of, v)
    [] type.k = "enum" -> EncodeEach(Write(w, VarintOf("u32", v[1])),
                                     type.of[v[1] + 1], v[2])

(* CompactConfig::serialize *)
CompactSerialize(cfg, type, v) ==
  EncodeAs([cfg |-> cfg, out |-> <<>>, depth |-> 0, error |-> None], type, v)

---------------------------------------------------------------------------
(* Decoding.  A reader returns [c, error, val]. *)

Got(c, val)     == [c |-> c, error |-> None, val |-> val]
Bad(c, e)       == [c |-> c, error |-> e, val |-> <<>>]
After(r, F(_, _)) == IF r.error # None THEN r ELSE F(r.c, r.val)

(* CompactCursor::new keeps the limit only if the input is longer *)
LimitEnd(c) == {l \in c.cfg.limit : Len(c.input) > l}

(* the bytes up to end: enforce_limit, then the bounds of the slice *)
Upto(c, from, end) ==
  IF Exceeds(end, LimitEnd(c)) THEN Bad(c, "SizeLimit")
  ELSE IF end > Len(c.input) THEN Bad(c, "UnexpectedEnd")
  ELSE Got([c EXCEPT !.pos = end], SubSeq(c.input, from + 1, end))

TakeC(c, n) == Upto(c, c.pos, c.pos + n)

(* byte looks at the input before the limit *)
ByteC(c) == IF c.pos >= Len(c.input) THEN Bad(c, "UnexpectedEnd")
            ELSE After(TakeC(c, 1), LAMBDA c1, b : Got(c1, b[1]))

(* read_varint, read_varint_u128: the canonical little-endian payload *)
ReadPayload(c) ==
  LET marker == c.input[c.pos + 1]
  IN  IF c.pos >= Len(c.input) THEN Bad(c, "UnexpectedEnd")
      ELSE IF marker <= 250 THEN TakeC(c, 1)
      ELSE IF marker = 255 THEN Bad(c, "InvalidVarintMarker")
      ELSE After(Upto(c, c.pos + 1, c.pos + 1 + PayloadLen(marker)), LAMBDA c1, p :
             IF Canonical(p) THEN Got(c1, p) ELSE Bad(c1, "NonCanonicalVarint"))

(* A canonical payload wider than the target is out of its range. *)
ReadInt(c, k) ==
  After(ReadPayload(c), LAMBDA c1, p :
    IF Len(p) > VarintWidth[k] THEN Bad(c1, "IntegerOverflow")
    ELSE Got(c1, IF k \in Signed THEN zigzag_decode(UValue(p)) ELSE UValue(p)))

ReadChar(c) ==
  After(ReadInt(c, "char"), LAMBDA c1, v :
    IF v > 1114111 \/ v \in 55296..57343 THEN Bad(c1, "InvalidChar") ELSE Got(c1, v))

ReadBool(c) ==
  After(ByteC(c), LAMBDA c1, b :
    IF b \in {0, 1} THEN Got(c1, b) ELSE Bad(c1, "InvalidBool"))

ReadLength(c) ==
  After(ReadInt(c, "u64"), LAMBDA c1, n :
    IF n >= Saturated THEN Bad(c1, "SizeLimit") ELSE Got(c1, n))

(* enter_container *)
EnterC(c, n) ==
  IF Exceeds(n, c.cfg.collection_limit) THEN Bad(c, "CollectionLimit")
  ELSE IF c.depth >= c.cfg.depth_limit THEN Bad(c, "DepthLimit")
  ELSE Got([c EXCEPT !.depth = @ + 1], n)

(* exit_container, after an outcome of either kind *)
ExitC(r) == [r EXCEPT !.c.depth = @ - 1]

(* The payload of a Vec<i8>, and of a Vec of floats when it is aligned, is   *)
(* copied with copy_from_slice into a vector that has capacity but no       *)
(* length: the lengths differ unless there is nothing to copy.              *)
CopyInto(c, n, val) == IF n = 0 THEN Got(c, val) ELSE Bad(c, "Panic")

Aligned(c, n, width) == (c.base + c.pos - n * width) % width = 0

Slices(p, width) == [i \in 1..(Len(p) \div width) |->
                       SubSeq(p, (i - 1) * width + 1, i * width)]

(* read_f64_vec, read_f32_vec *)
ReadFloats(c, n, width) ==
  After(TakeC(c, n * width), LAMBDA c1, p :
    IF Aligned(c1, n, width) THEN CopyInto(c1, n, Slices(p, width))
    ELSE Got(c1, Slices(p, width)))

RECURSIVE DecodeAs(_, _), DecodeEach(_, _, _), BulkVarints(_, _, _)

(* plain_varint_prefix *)
PlainPrefix(s) == CHOOSE n \in 0..Len(s) :
                    /\ \A i \in 1..n : s[i] <= 250
                    /\ n < Len(s) => s[n + 1] > 250

(* the single-byte varints at the cursor, no more than remain *)
Run(c, remaining) ==
  LET last == IF c.pos + remaining < Len(c.input) THEN c.pos + remaining ELSE Len(c.input)
  IN  PlainPrefix(SubSeq(c.input, c.pos + 1, last))

(* read_varints_bulk *)
BulkVarints(c, remaining, acc) ==
  IF remaining <= 0 THEN Got(c, acc)
  ELSE IF c.pos < Len(c.input) /\ c.input[c.pos + 1] <= 250
  THEN After(TakeC(c, Run(c, remaining)),
             LAMBDA c1, p : BulkVarints(c1, remaining - Len(p), acc \o p))
  ELSE After(ReadInt(c, "u64"),
             LAMBDA c1, v : BulkVarints(c1, remaining - 1, Append(acc, v)))

(* values of these types in turn, after those in acc *)
DecodeEach(c, types, acc) ==
  IF types = <<>> THEN Got(c, acc)
  ELSE After(DecodeAs(c, types[1]),
             LAMBDA c1, v : DecodeEach(c1, Tail(types), Append(acc, v)))

NoDuplicateKey(r) ==
  After(r, LAMBDA c, pairs :
    IF \E i, j \in 1..Len(pairs) : i < j /\ pairs[i][1] = pairs[j][1]
    THEN Bad(c, "DuplicateKey") ELSE Got(c, pairs))

(* the elements of a Vec of length n *)
DecodeVec(c, type, n) ==
  CASE type.k = "u8" -> TakeC(c, n)
    [] type.k = "i8" ->
         After(TakeC(c, n), LAMBDA c1, p :
           CopyInto(c1, n, [i \in 1..n |-> IF p[i] < 128 THEN p[i] ELSE p[i] - 256]))
    [] type.k \in DOMAIN FloatWidth -> ReadFloats(c, n, FloatWidth[type.k])
    [] type.k = "u64" -> BulkVarints(c, n, <<>>)
    [] OTHER -> DecodeEach(c, Repeat(type, n), <<>>)

(* a length-prefixed container *)
Container(c, Body(_, _)) ==
  After(ReadLength(c), LAMBDA c1, n :
    After(EnterC(c1, n), LAMBDA c2, m : ExitC(Body(c2, n))))

(* decode_compact *)
DecodeAs(c, type) ==
  CASE type.k = "unit" -> Got(c, <<>>)
    [] type.k = "bool" -> ReadBool(c)
    [] type.k = "u8"   -> ByteC(c)
    [] type.k = "i8"   -> After(ByteC(c), LAMBDA c1, b :
                            Got(c1, IF b < 128 THEN b ELSE b - 256))
    [] type.k = "char" -> ReadChar(c)
    [] type.k \in Varints \ {"char"} -> ReadInt(c, type.k)
    [] type.k \in DOMAIN FloatWidth -> TakeC(c, FloatWidth[type.k])
    [] type.k = "str" ->
         After(ReadLength(c), LAMBDA c1, n :
           After(TakeC(c1, n), LAMBDA c2, p :
             IF ValidUtf8(p) THEN Got(c2, p) ELSE Bad(c2, "InvalidUtf8")))
    [] type.k = "bytes" -> After(ReadLength(c), TakeC)
    [] type.k = "vec" -> Container(c, LAMBDA c1, n : DecodeVec(c1, type.of, n))
    [] type.k = "deque" ->
         Container(c, LAMBDA c1, n : DecodeEach(c1, Repeat(type.of, n), <<>>))
    [] type.k = "array" -> DecodeEach(c, Repeat(type.of, type.n), <<>>)
    [] type.k = "option" ->
         After(ReadBool(c), LAMBDA c1, some :
           IF some = 0 THEN Got(c1, <<>>)
           ELSE After(DecodeAs(c1, type.of), LAMBDA c2, v : Got(c2, <<v>>)))
    [] type.k = "map" ->
         Container(c, LAMBDA c1, n :
           NoDuplicateKey(DecodeEach(c1, Repeat([k |-> "tuple", of |-> <<type.key, type.of>>], n),
                                     <<>>)))
    [] type.k = "tuple" -> DecodeEach(c, type.of, <<>>)
    [] type.k = "enum" ->
         After(ReadInt(c, "u32"), LAMBDA c1, index :
           IF index >= Len(type.of) THEN Bad(c1, "InvalidVariant")
           ELSE After(DecodeEach(c1, type.of[index + 1], <<>>),
                      LAMBDA c2, fields : Got(c2, <<index, fields>>)))

(* CompactConfig::deserialize *)
CompactDeserialize(cfg, base, type, bytes) ==
  After(DecodeAs([cfg |-> cfg, input |-> bytes, pos |-> 0, depth |-> 0, base |-> base], type),
        LAMBDA c, v :
          IF cfg.rejectTrailing /\ c.pos # Len(bytes) THEN Bad(c, "TrailingBytes")
          ELSE Got(c, v))
=============================================================================
