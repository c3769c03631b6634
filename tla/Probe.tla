------------------------------- MODULE Probe -------------------------------
(***************************************************************************)
(* The structural probe of probe.rs: a walker that measures the next value  *)
(* without building it.  It re-implements the reading half of the format    *)
(* (take, varint, number, length), so it is a second definition that can    *)
(* drift from the decoder's.  The recursion of value/container is an        *)
(* explicit stack of frames, one per open container.                        *)
(***************************************************************************)
EXTENDS Wire, SequencesExt

VARIABLES
  config, input,          (* the arguments of probe                        *)
  p_cursor, p_depth, p_max_depth, p_containers, p_elements,  (* Walker      *)
  p_frames,               (* is_object and count of each open container()  *)
  p_phase,                (* "value", "entry" or "done"                    *)
  p_result                (* "ok" or the error                             *)

walker == <<p_cursor, p_depth, p_max_depth, p_containers, p_elements, p_frames>>

(* Walker::take, Walker::byte: the bytes are passed over *)
Walk(cursor, n) == Take(config, input, cursor, n)

(* Mutant: the probe does not insist on the narrowest form *)
WalkVarint_AnyWidth(cursor) ==
  LET v == Varint([config EXCEPT !.little = TRUE], input, cursor)
  IN  IF v.error = "NonCanonicalVarint" THEN Res(v.cursor, None, <<0>>) ELSE v

(* Walker::varint: always little endian *)
WalkVarint(cursor) == Varint([config EXCEPT !.little = TRUE], input, cursor)

(* Mutant: the integer encoding is ignored *)
WalkNumber_Fixed(cursor, width) == Walk(cursor, width)

(* Walker::number: the width only, the value is dropped unchecked *)
WalkNumber(cursor, width) ==
  IF config.variable THEN WalkVarint(cursor) ELSE Walk(cursor, width)

(* Walker::length: a fixed-width length is passed over and reported as 0 *)
WalkLength(cursor) ==
  LET v == WalkVarint(cursor)
      f == Walk(cursor, 8)
  IN  IF config.variable
      THEN IF v.error # None THEN Res(v.cursor, v.error, 0)
           ELSE IF Len(v.val) = 16 THEN Res(v.cursor, "IntegerOverflow", 0)
           ELSE Res(v.cursor, None, UValue(v.val))
      ELSE Res(f.cursor, f.error, 0)

(* Mutant: only the length prefix is passed over *)
WalkString_LengthOnly(cursor) == WalkLength(cursor)

WalkString(cursor) ==
  LET n == WalkLength(cursor)
  IN  IF n.error # None THEN n ELSE Walk(n.cursor, n.val)

(* The payload behind a scalar tag *)
WalkScalar(tag, cursor) ==
  CASE tag \in {TAG_NULL, TAG_FALSE, TAG_TRUE} -> Res(cursor, None, <<>>)
    [] tag \in {TAG_U64, TAG_I64}   -> WalkNumber(cursor, 8)
    [] tag \in {TAG_U128, TAG_I128} -> WalkNumber(cursor, 16)
    [] tag = TAG_F64    -> Walk(cursor, 8)
    [] tag = TAG_F32    -> Walk(cursor, 4)
    [] tag = TAG_STRING -> WalkString(cursor)
    [] tag = TAG_END    -> Res(cursor, "UnexpectedTerminator", <<>>)
    [] OTHER            -> Res(cursor, "InvalidTag", <<>>)

ProbeFails(e) ==
  /\ p_result' = e
  /\ p_phase' = "done"

(* value() returns to the loop of the enclosing container(), or to probe(), *)
(* which applies the trailing-bytes policy                                  *)
ValueReturns(cursor, frames) ==
  IF frames # <<>> THEN p_phase' = "entry" /\ UNCHANGED p_result
  ELSE /\ p_phase' = "done"
       /\ p_result' = IF config.rejectTrailing /\ cursor # Len(input)
                      THEN "TrailingBytes" ELSE "ok"

(* Walker::value on a scalar tag *)
ProbeScalar ==
  LET t == Walk(p_cursor, 1)
      r == WalkScalar(t.val[1], t.cursor)
  IN  /\ p_phase = "value"
      /\ t.error = None => t.val[1] \notin {TAG_ARRAY, TAG_OBJECT}
      /\ IF t.error # None
         THEN ProbeFails(t.error) /\ UNCHANGED p_cursor
         ELSE /\ p_cursor' = r.cursor
              /\ IF r.error # None THEN ProbeFails(r.error)
                 ELSE ValueReturns(r.cursor, p_frames)
      /\ UNCHANGED <<config, input, p_depth, p_max_depth, p_containers,
                     p_elements, p_frames>>

(* Walker::value on a container tag: container() up to its loop *)
ProbeContainer ==
  LET t == Walk(p_cursor, 1)
  IN  /\ p_phase = "value"
      /\ t.error = None
      /\ t.val[1] \in {TAG_ARRAY, TAG_OBJECT}
      /\ p_cursor' = t.cursor
      /\ p_containers' = p_containers + 1
      /\ IF p_depth >= config.depth_limit
         THEN /\ ProbeFails("DepthLimit")
              /\ UNCHANGED <<p_depth, p_max_depth, p_frames>>
         ELSE /\ p_depth' = p_depth + 1
              /\ p_max_depth' = IF p_depth + 1 > p_max_depth THEN p_depth + 1
                                ELSE p_max_depth
              /\ p_frames' = Append(p_frames, [object |-> t.val[1] = TAG_OBJECT,
                                               count  |-> 0])
              /\ p_phase' = "entry"
              /\ UNCHANGED p_result
      /\ UNCHANGED <<config, input, p_elements>>

(* an entry of the loop: count it, pass over the key, go on to value() *)
ProbeEntry ==
  LET frame == Last(p_frames)
      n     == frame.count + 1
      t     == Walk(p_cursor, 1)
      key   == WalkString(t.cursor)
  IN  /\ p_phase = "entry"
      /\ p_cursor < Len(input) => input[p_cursor + 1] # TAG_END
      /\ p_frames' = [p_frames EXCEPT ![Len(p_frames)].count = n]
      /\ IF p_cursor >= Len(input)
         THEN ProbeFails("UnexpectedEnd") /\ UNCHANGED p_cursor
         ELSE IF Exceeds(n, config.collection_limit)
         THEN ProbeFails("CollectionLimit") /\ UNCHANGED p_cursor
         ELSE IF ~frame.object
         THEN p_phase' = "value" /\ UNCHANGED <<p_cursor, p_result>>
         ELSE IF t.error # None THEN ProbeFails(t.error) /\ UNCHANGED p_cursor
         ELSE IF t.val[1] # TAG_STRING
         THEN ProbeFails("InvalidKey") /\ p_cursor' = t.cursor
         ELSE /\ p_cursor' = key.cursor
              /\ IF key.error # None THEN ProbeFails(key.error)
                 ELSE p_phase' = "value" /\ UNCHANGED p_result
      /\ UNCHANGED <<config, input, p_depth, p_max_depth, p_containers,
                     p_elements>>

(* what container() adds to the element total when it is left *)
(* Mutant: the frame's count is added to its own container only *)
Total_LastOnly(frames) == Last(frames).count

Total(frames) == p_elements + Last(frames).count

(* the terminator: take(1), leave the container *)
ProbeEnd ==
  LET t == Walk(p_cursor, 1)
  IN  /\ p_phase = "entry"
      /\ p_cursor < Len(input)
      /\ input[p_cursor + 1] = TAG_END
      /\ p_cursor' = t.cursor
      /\ IF t.error # None
         THEN ProbeFails(t.error) /\ UNCHANGED <<p_depth, p_elements, p_frames>>
         ELSE /\ p_elements' = Total(p_frames)
              /\ p_depth' = p_depth - 1
              /\ p_frames' = Front(p_frames)
              /\ ValueReturns(t.cursor, Front(p_frames))
      /\ UNCHANGED <<config, input, p_max_depth, p_containers>>

ProbeInit ==
  /\ p_cursor = 0
  /\ p_depth = 0
  /\ p_max_depth = 0
  /\ p_containers = 0
  /\ p_elements = 0
  /\ p_frames = <<>>
  /\ p_phase = "value"
  /\ p_result = None

ProbeNext == ProbeScalar \/ ProbeContainer \/ ProbeEntry \/ ProbeEnd
===========================================================================
