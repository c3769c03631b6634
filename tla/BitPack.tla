------------------------------- MODULE BitPack -------------------------------
(***************************************************************************)
(* Bit packing (bitpack.rs): fields of a declared width, least significant   *)
(* bit first, with zero padding, and the code that the BitPacked derive      *)
(* generates.  A field is [k, size, width]: k is "bool", "u" or "i", size    *)
(* the bits of the integer type and width those of the field.  A type is a  *)
(* sequence of variants, a variant a sequence of fields; a struct has one   *)
(* variant.  A value is <<index, fields>>.                                  *)
(***************************************************************************)
EXTENDS Wire, SequencesExt

POk(val) == [error |-> None, val |-> val]
PErr(e)  == [error |-> e, val |-> <<>>]

SumOf(s) == FoldLeft(LAMBDA a, b : a + b, 0, s)

BitsOf(n, width) == [i \in 1..width |-> (n \div 2^(i - 1)) % 2]

ValueOfBits(bits) == SumOf([i \in 1..Len(bits) |-> bits[i] * 2^(i - 1)])

BytesForBits(n) == (n + 7) \div 8

(* the bytes of a bit string: the padding is zero *)
PackBits(bits) ==
  [i \in 1..BytesForBits(Len(bits)) |->
     ValueOfBits(SubSeq(bits, 8 * i - 7, IF 8 * i < Len(bits) THEN 8 * i ELSE Len(bits)))]

UnpackBits(bytes) == FlattenSeq([i \in 1..Len(bytes) |-> BitsOf(bytes[i], 8)])

(* the bits of the last byte that hold no value *)
PaddingIsZero(bytes, used) ==
  \A i \in used + 1..8 * BytesForBits(used) : UnpackBits(bytes)[i] = 0

Widths(fields) == SumOf([i \in 1..Len(fields) |-> fields[i].width])

(* bit_packed_enum: the width of the discriminant *)
TagBits(type) == CHOOSE n \in 0..8 : 2^n >= Len(type) /\ (n > 0 => 2^(n - 1) < Len(type))

(* MAX_BITS *)
MaxBits(type) == TagBits(type) + Max({Widths(type[i]) : i \in 1..Len(type)})

---------------------------------------------------------------------------
(* BitValue *)

(* encode_bits: the bits, or <<>> if the value does not fit *)
FieldBits(field, v) ==
  CASE field.k = "bool" -> IF field.width = 1 THEN BitsOf(v, 1) ELSE <<>>
    [] field.width \notin 1..field.size -> <<>>
    [] field.k = "u" -> IF v < 2^field.width THEN BitsOf(v, field.width) ELSE <<>>
    [] field.k = "i" -> IF v \in -2^(field.width - 1)..2^(field.width - 1) - 1
                        THEN BitsOf(v % 2^field.width, field.width) ELSE <<>>

(* decode_bits of a width that encode_bits accepts *)
FieldValue(field, bits) ==
  IF field.k = "i" /\ Last(bits) = 1 THEN ValueOfBits(bits) - 2^field.width
  ELSE ValueOfBits(bits)

(***************************************************************************)
(* BitPackedConfig::serialize: the buffer and the limit are for the worst    *)
(* case, the output is cut to the bytes written                             *)
(***************************************************************************)
PackValue(cfg, type, value) ==
  LET fields  == type[value[1] + 1]
      bits(i) == FieldBits(fields[i], value[2][i])
  IN  IF Exceeds(BytesForBits(MaxBits(type)), cfg.limit) THEN PErr("SizeLimit")
      ELSE IF \E i \in 1..Len(fields) : bits(i) = <<>> THEN PErr("BitPacking")
      ELSE POk(PackBits(BitsOf(value[1], TagBits(type))
                        \o FlattenSeq([i \in 1..Len(fields) |-> bits(i)])))

(* BitPackedConfig::deserialize *)
UnpackValue(cfg, type, input) ==
  LET all      == UnpackBits(input)
      tag      == TagBits(type)
      index    == ValueOfBits(SubSeq(all, 1, tag))
      fields   == type[index + 1]
      used     == tag + Widths(fields)
      begin(i) == tag + Widths(SubSeq(fields, 1, i - 1))
      bits(i)  == SubSeq(all, begin(i) + 1, begin(i) + fields[i].width)
  IN  IF Exceeds(Len(input), cfg.limit) THEN PErr("SizeLimit")
      ELSE IF tag > Len(all) THEN PErr("UnexpectedEnd")
      ELSE IF index >= Len(type) THEN PErr("BitPacking")
      ELSE IF used > Len(all) THEN PErr("UnexpectedEnd")
      ELSE IF ~PaddingIsZero(input, used) THEN PErr("BitPacking")
      ELSE IF cfg.rejectTrailing /\ Len(input) # BytesForBits(used) THEN PErr("TrailingBytes")
      ELSE POk(<<index, [i \in 1..Len(fields) |-> FieldValue(fields[i], bits(i))]>>)
=============================================================================
