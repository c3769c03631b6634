------------------------------ MODULE Adaptive ------------------------------
(***************************************************************************)
(* Adaptive negotiation (adaptive.rs): a string as raw UTF-8 or as 7-bit     *)
(* ASCII, a slice of i64 as raw varints, differences or runs, whichever the *)
(* mode finds smaller.  The writer predicts the size of its frame, reserves *)
(* it and fills it; the reader accepts every strategy.                      *)
(*                                                                         *)
(* cfg is a Config without byte order: varints are little-endian here.      *)
(* IntMax stands for i64::MAX, HeuristicSample for the 64 elements that the *)
(* heuristic looks at.                                                      *)
(***************************************************************************)
EXTENDS Wire, BitPack, SequencesExt

CONSTANTS IntMax, HeuristicSample

RAW_UTF8       == 0
ASCII7         == 1
RAW_INTEGERS   == 0
DELTA_INTEGERS == 1
RLE_INTEGERS   == 2

NoLimit == [little |-> TRUE, variable |-> TRUE, limit |-> {}]

AVarint(n)     == VarintBytes(NoLimit, n)
AVarintSize(n) == IF n <= 250 THEN 1 ELSE IF n <= 65535 THEN 3 ELSE 5

AOk(val)  == [error |-> None, val |-> val]
AErr(e)   == [error |-> e, val |-> <<>>]

---------------------------------------------------------------------------
(* Strings *)

(* string_layout *)
StringLayout(mode, value) ==
  LET packed == (7 * Len(value) + 7) \div 8
      ascii  == mode # "off" /\ ValidUtf8(value) /\ packed < Len(value)
      size   == IF ascii THEN packed ELSE Len(value)
  IN  [strategy |-> IF ascii THEN ASCII7 ELSE RAW_UTF8,
       required |-> 1 + AVarintSize(Len(value)) + size]

EncodeString(cfg, mode, value) ==
  LET layout  == StringLayout(mode, value)
      payload == IF layout.strategy = RAW_UTF8 THEN value
                 ELSE PackBits(FlattenSeq([i \in 1..Len(value) |-> BitsOf(value[i], 7)]))
  IN  IF Exceeds(layout.required, cfg.limit) THEN AErr("SizeLimit")
      ELSE AOk(<<layout.strategy>> \o AVarint(Len(value)) \o payload)

(* Cursor::finish *)
FinishFrame(cfg, input, cursor, val) ==
  IF cfg.rejectTrailing /\ cursor # Len(input) THEN AErr("TrailingBytes") ELSE AOk(val)

(* The strategy and the length of a frame.  decode_string_borrowed reads the *)
(* length before it looks at the strategy.                                   *)
FrameHead(cfg, input, strategies) ==
  IF Exceeds(Len(input), cfg.limit) THEN Res(0, "SizeLimit", 0)
  ELSE IF input = <<>> THEN Res(0, "UnexpectedEnd", 0)
  ELSE IF input[1] \notin strategies THEN Res(1, "Adaptive", 0)
  ELSE Integer(NoLimit, input, 1, 8, FALSE)

(***************************************************************************)
(* decode_string, decode_string_borrowed and, with room for capacity bytes, *)
(* decode_string_into_slice                                                 *)
(***************************************************************************)
DecodeString(cfg, capacity, input) ==
  LET head   == FrameHead(cfg, input, {RAW_UTF8, ASCII7})
      length == head.val
      size   == IF input[1] = RAW_UTF8 THEN length ELSE (7 * length + 7) \div 8
      bytes  == Take(NoLimit, input, head.cursor, size)
      bits   == UnpackBits(bytes.val)
  IN  IF head.error # None THEN AErr(head.error)
      ELSE IF Exceeds(length, capacity) THEN AErr("BufferTooSmall")
      ELSE IF bytes.error # None THEN AErr(bytes.error)
      ELSE IF input[1] = RAW_UTF8
      THEN IF ValidUtf8(bytes.val) THEN FinishFrame(cfg, input, bytes.cursor, bytes.val)
                                   ELSE AErr("InvalidUtf8")
      ELSE IF ~PaddingIsZero(bytes.val, 7 * length) THEN AErr("Adaptive")
      ELSE FinishFrame(cfg, input, bytes.cursor,
                       [i \in 1..length |-> ValueOfBits(SubSeq(bits, 7 * i - 6, 7 * i))])

---------------------------------------------------------------------------
(* Slices of i64 *)

(* the runs of equal values: <<value, how many>> *)
Runs(values) ==
  FoldLeft(LAMBDA runs, v :
             IF runs # <<>> /\ Last(runs)[1] = v
             THEN [runs EXCEPT ![Len(runs)][2] = @ + 1]
             ELSE Append(runs, <<v, 1>>),
           <<>>, values)

Differences(values) ==
  [i \in 1..Len(values) |-> IF i = 1 THEN values[1] ELSE values[i] - values[i - 1]]

(* the varints of each strategy *)
RawVarints(values)   == [i \in 1..Len(values) |-> zigzag_encode(values[i])]
DeltaVarints(values) == RawVarints(Differences(values))
RunVarints(values) ==
  FlattenSeq([i \in 1..Len(Runs(values)) |->
                <<zigzag_encode(Runs(values)[i][1]), Runs(values)[i][2]>>])

(* raw_size, delta_size, rle_size *)
SizeOfVarints(varints) == SumOf([i \in 1..Len(varints) |-> AVarintSize(varints[i])])

BestStrategy(values) ==
  LET raw   == SizeOfVarints(RawVarints(values))
      delta == SizeOfVarints(DeltaVarints(values))
      rle   == SizeOfVarints(RunVarints(values))
  IN  IF delta < raw /\ delta <= rle THEN DELTA_INTEGERS
      ELSE IF rle < raw THEN RLE_INTEGERS ELSE RAW_INTEGERS

VarintsOf(strategy, values) ==
  CASE strategy = RAW_INTEGERS   -> RawVarints(values)
    [] strategy = DELTA_INTEGERS -> DeltaVarints(values)
    [] strategy = RLE_INTEGERS   -> RunVarints(values)

(* the strategy of collection_layout: a sample decides for a long slice *)
CollectionStrategy(mode, values) ==
  CASE mode = "off"   -> RAW_INTEGERS
    [] mode = "exact" -> BestStrategy(values)
    [] mode = "heuristic" ->
         BestStrategy(SubSeq(values, 1, IF Len(values) < HeuristicSample
                                        THEN Len(values) ELSE HeuristicSample))

(* Mutant: the size of the sample is taken for that of the slice *)
EncodedIntsSize_Sampled(mode, values) ==
  LET sample == SubSeq(values, 1, IF Len(values) < HeuristicSample
                                  THEN Len(values) ELSE HeuristicSample)
  IN  1 + AVarintSize(Len(values))
        + SizeOfVarints(VarintsOf(CollectionStrategy(mode, values), sample))

(* encoded_i64_slice_size, before the limits *)
EncodedIntsSize(mode, values) ==
  1 + AVarintSize(Len(values))
    + SizeOfVarints(VarintsOf(CollectionStrategy(mode, values), values))

EncodeInts(cfg, mode, values) ==
  LET strategy == CollectionStrategy(mode, values)
      varints  == VarintsOf(strategy, values)
  IN  IF Exceeds(Len(values), cfg.collection_limit) THEN AErr("CollectionLimit")
      ELSE IF Exceeds(EncodedIntsSize(mode, values), cfg.limit) THEN AErr("SizeLimit")
      ELSE AOk(<<strategy>> \o AVarint(Len(values))
                 \o FlattenSeq([i \in 1..Len(varints) |-> AVarint(varints[i])]))

InRange(v) == v \in -IntMax - 1..IntMax

(* the elements that the next varints add, or <<>> if they are refused *)
NextInts(strategy, acc, first, second, remaining) ==
  LET v    == zigzag_decode(first)
      next == Last(acc) + v
  IN  IF strategy = RLE_INTEGERS
      THEN IF InRange(v) /\ second \in 1..remaining THEN [i \in 1..second |-> v] ELSE <<>>
      ELSE IF strategy = DELTA_INTEGERS /\ acc # <<>>
      THEN IF InRange(next) THEN <<next>> ELSE <<>>
      ELSE IF InRange(v) THEN <<v>> ELSE <<>>

RECURSIVE DecodeElements(_, _, _, _, _, _)

DecodeElements(cfg, input, cursor, strategy, length, acc) ==
  LET first  == Integer(NoLimit, input, cursor, 16, FALSE)
      second == IF strategy = RLE_INTEGERS THEN Integer(NoLimit, input, first.cursor, 8, FALSE)
                ELSE Res(first.cursor, None, 1)
      next   == NextInts(strategy, acc, first.val, second.val, length - Len(acc))
  IN  IF Len(acc) >= length THEN FinishFrame(cfg, input, cursor, acc)
      ELSE IF first.error # None THEN AErr(first.error)
      ELSE IF second.error # None THEN AErr(second.error)
      ELSE IF next = <<>> THEN AErr("Adaptive")
      ELSE DecodeElements(cfg, input, second.cursor, strategy, length, acc \o next)

(***************************************************************************)
(* decode_i64_vec, which reserves the declared length before it reads an    *)
(* element, and, with room for capacity elements, decode_i64_slice_into     *)
(***************************************************************************)
DecodeInts(cfg, capacity, input) ==
  LET head == FrameHead(cfg, input, {RAW_INTEGERS, DELTA_INTEGERS, RLE_INTEGERS})
  IN  IF head.error # None THEN AErr(head.error)
      ELSE IF Exceeds(head.val, cfg.collection_limit) THEN AErr("CollectionLimit")
      ELSE IF Exceeds(head.val, capacity) THEN AErr("BufferTooSmall")
      ELSE DecodeElements(cfg, input, head.cursor, input[1], head.val, <<>>)
=============================================================================
