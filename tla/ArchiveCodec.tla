---------------------------- MODULE ArchiveCodec ----------------------------
(***************************************************************************)
(* The flat layout of archive_codec.rs and the code the Archive and         *)
(* Serialize derives generate for a struct: the two-phase writer, the       *)
(* structural validator and the zero-copy accessors of the repr(C) mirror.  *)
(*                                                                         *)
(* A field type is a scalar of w bytes, "str", "vec" of a field type, or    *)
(* "struct" of a sequence of field types.  A value is, in the same order,   *)
(* the w bytes of a scalar, the bytes of a string, a sequence of elements   *)
(* or a sequence of fields.                                                 *)
(***************************************************************************)
EXTENDS Wire, SequencesExt

Scalar(w)      == [k |-> "scalar", w |-> w]
Str            == [k |-> "str"]
Vec(type)      == [k |-> "vec", of |-> type]
Struct(fields) == [k |-> "struct", of |-> fields]

RoundUp(n, align) == n + ((align - (n % align)) % align)

---------------------------------------------------------------------------
(* The mirror: align_of, size_of and the offsets of #[repr(C)].  A RelPtr   *)
(* is an i32.                                                               *)

RECURSIVE AlignOf(_), SizeOf(_)

AlignOf(type) ==
  CASE type.k = "scalar" -> type.w
    [] type.k \in {"str", "vec"} -> 4
    [] type.k = "struct" -> Max({1} \union {AlignOf(type.of[i]) : i \in 1..Len(type.of)})

(* where each field begins, and at the end where the last one stops *)
OffsetsFrom(base, fields) ==
  FoldLeft(LAMBDA acc, i : LET at == RoundUp(acc.end, AlignOf(fields[i]))
                           IN  [at |-> Append(acc.at, at), end |-> at + SizeOf(fields[i])],
           [at |-> <<>>, end |-> base], [i \in 1..Len(fields) |-> i])

SizeOf(type) ==
  CASE type.k = "scalar" -> type.w
    [] type.k \in {"str", "vec"} -> 4
    [] type.k = "struct" -> RoundUp(OffsetsFrom(0, type.of).end, AlignOf(type))

---------------------------------------------------------------------------
(* ArchiveSerializer: the payload so far and the positions of the           *)
(* placeholders that wait for their bodies                                  *)

Put(s, bytes) == [s EXCEPT !.bytes = @ \o bytes]

Zeros(n) == [i \in 1..n |-> 0]

AlignTo(s, align) == Put(s, Zeros(RoundUp(Len(s.bytes), align) - Len(s.bytes)))

ReservePtr(s) ==
  [Put(s, Zeros(4)) EXCEPT !.positions = Append(@, Len(s.bytes))]

(* the four bytes at field_pos become an i32 *)
Patched(s, field_pos, i32) ==
  [s EXCEPT !.bytes = [i \in 1..Len(@) |->
                         IF i - field_pos \in 1..4 THEN LEBytes(i32, 4)[i - field_pos]
                                                   ELSE @[i]]]

PatchPtr(s, field_pos, data_pos) == Patched(s, field_pos, data_pos - field_pos)

(* the next placeholder, taken from the front of the queue *)
PopPosition(s) == [s EXCEPT !.positions = Tail(@)]

WriteStringAt(s, field_pos, value) ==
  PatchPtr(Put(s, LEBytes(Len(value), 4) \o value), field_pos, Len(s.bytes))

RECURSIVE WriteSkeleton(_, _, _), WriteBodies(_, _, _)

EachField(F(_, _, _), s, fields, values) ==
  FoldLeft(LAMBDA acc, i : F(acc, fields[i], values[i]), s, [i \in 1..Len(fields) |-> i])

EachElement(F(_, _, _), s, type, values) ==
  FoldLeft(LAMBDA acc, v : F(acc, type, v), s, values)

(* serialize_skeleton_body, one field *)
WriteSkeleton(s, type, value) ==
  LET a == AlignTo(s, AlignOf(type))
  IN  CASE type.k = "scalar" -> Put(a, value)
        [] type.k \in {"str", "vec"} -> ReservePtr(a)
        [] type.k = "struct" -> EachField(WriteSkeleton, a, type.of, value)

(* write_skeleton of an element: its fields, with no alignment of its own *)
WriteElement(s, type, value) == EachField(WriteSkeleton, s, type.of, value)

(* write_vec_at for scalars; for structs all skeletons, then all bodies *)
WriteVecAt(s, field_pos, type, values) ==
  LET counted == AlignTo(Put(s, LEBytes(Len(values), 4)), AlignOf(type))
      written == IF type.k = "scalar" THEN Put(counted, FlattenSeq(values))
                 ELSE EachElement(WriteBodies,
                                  EachElement(WriteElement, counted, type, values),
                                  type, values)
  IN  PatchPtr(written, field_pos, Len(s.bytes))

(* serialize_bodies_body, one field *)
WriteBodies(s, type, value) ==
  CASE type.k = "scalar" -> s
    [] type.k = "str" -> WriteStringAt(PopPosition(s), Head(s.positions), value)
    [] type.k = "vec" -> WriteVecAt(PopPosition(s), Head(s.positions), type.of, value)
    [] type.k = "struct" -> EachField(WriteBodies, s, type.of, value)

(* to_archive of a struct *)
ToArchive(type, value) ==
  LET s == WriteElement([bytes |-> <<>>, positions |-> <<>>], type, value)
  IN  WriteBodies(s, type, value).bytes

---------------------------------------------------------------------------
(* CheckBytes *)

(* checked_field: where the pointer at field_pos leads, or -1 *)
CheckedField(bytes, field_pos) ==
  LET ptr    == SubSeq(bytes, field_pos + 1, field_pos + 4)
      target == field_pos + UValue(ptr)
  IN  IF field_pos + 4 > Len(bytes) \/ ptr[4] >= 128 \/ target + 4 > Len(bytes)
      THEN -1 ELSE target

U32At(bytes, pos) == UValue(SubSeq(bytes, pos + 1, pos + 4))

(* check_string_field *)
CheckString(bytes, field_pos) ==
  LET target == CheckedField(bytes, field_pos)
      end    == target + 4 + U32At(bytes, target)
  IN  /\ target # -1
      /\ end <= Len(bytes)
      /\ ValidUtf8(SubSeq(bytes, target + 5, end))

(* vec_elements_offset *)
VecElementsOffset(body_base, align) == RoundUp(body_base + 4, align)

RECURSIVE CheckAt(_, _, _)

(* check_vec_field, and check_vec_nested for structs *)
CheckVec(bytes, field_pos, type) ==
  LET target == CheckedField(bytes, field_pos)
      count  == U32At(bytes, target)
      body   == VecElementsOffset(target, AlignOf(type))
  IN  /\ target # -1
      /\ body + count * SizeOf(type) <= Len(bytes)
      /\ type.k = "struct" =>
           \A i \in 0..count - 1 : CheckAt(bytes, type, body + i * SizeOf(type))

(* check_at: scalars are passed over *)
CheckAt(bytes, type, base) ==
  LET at == OffsetsFrom(base, type.of).at
  IN  \A i \in 1..Len(type.of) :
        CASE type.of[i].k = "scalar" -> TRUE
          [] type.of[i].k = "str"    -> CheckString(bytes, at[i])
          [] type.of[i].k = "vec"    -> CheckVec(bytes, at[i], type.of[i].of)
          [] type.of[i].k = "struct" -> CheckAt(bytes, type.of[i], at[i])

---------------------------------------------------------------------------
(* Zero-copy access to a mirror at offset pos of a payload that begins at   *)
(* address addr                                                             *)

(* where the pointer of a string or a vector leads *)
Resolve(bytes, pos) == pos + U32At(bytes, pos)

(* the elements of as_slice_unchecked: it aligns the address, not the offset *)
ElementAt(bytes, addr, pos, type, i) ==
  VecElementsOffset(addr + Resolve(bytes, pos), AlignOf(type)) - addr
    + (i - 1) * SizeOf(type)

CountAt(bytes, pos) == U32At(bytes, Resolve(bytes, pos))

RECURSIVE Inside(_, _, _, _), ReadMirror(_, _, _, _)

(* everything an accessor reads lies in the payload *)
Inside(bytes, addr, type, pos) ==
  /\ pos + SizeOf(type) <= Len(bytes)
  /\ CASE type.k = "scalar" -> TRUE
       [] type.k = "str" ->
            /\ Resolve(bytes, pos) + 4 <= Len(bytes)
            /\ Resolve(bytes, pos) + 4 + CountAt(bytes, pos) <= Len(bytes)
       [] type.k = "vec" ->
            /\ Resolve(bytes, pos) + 4 <= Len(bytes)
            /\ \A i \in 1..CountAt(bytes, pos) :
                 Inside(bytes, addr, type.of, ElementAt(bytes, addr, pos, type.of, i))
       [] type.k = "struct" ->
            \A i \in 1..Len(type.of) :
              Inside(bytes, addr, type.of[i], pos + OffsetsFrom(0, type.of).at[i])

(* as_str, as_slice and the fields of the mirror *)
ReadMirror(bytes, addr, type, pos) ==
  CASE type.k = "scalar" -> SubSeq(bytes, pos + 1, pos + type.w)
    [] type.k = "str" ->
         LET data == Resolve(bytes, pos)
         IN  SubSeq(bytes, data + 5, data + 4 + CountAt(bytes, pos))
    [] type.k = "vec" ->
         [i \in 1..CountAt(bytes, pos) |->
            ReadMirror(bytes, addr, type.of, ElementAt(bytes, addr, pos, type.of, i))]
    [] type.k = "struct" ->
         [i \in 1..Len(type.of) |->
            ReadMirror(bytes, addr, type.of[i], pos + OffsetsFrom(0, type.of).at[i])]

(* access_unchecked slices the payload to the size of the root, or panics *)
RootFits(bytes, type) == SizeOf(type) <= Len(bytes)
=============================================================================
