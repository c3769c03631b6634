------------------------------- MODULE Codecs -------------------------------
(***************************************************************************)
(* The codecs of the crate that stand beside the self-describing format, as  *)
(* one process each: a sender encodes a value, the frame may be damaged on   *)
(* its way, or bytes come from somewhere else, and a receiver with the same  *)
(* configuration decodes what arrived.                                       *)
(*                                                                         *)
(* A job is [codec, spec, value]: spec is what both sides know, the type of  *)
(* a compact or packed value, the mode of an adaptive one, the weights of    *)
(* the models of an entropy-coded one, the type and the budget of a bounded  *)
(* decode, whose frame is the extent of the value, the base of a delta.  For  *)
(* a fingerprint frame it is the type and the configuration of either side,  *)
(* which may differ, and the way the frame is read.                         *)
(***************************************************************************)
EXTENDS Compact, Adaptive, Lz, Rans, Bounded, Fingerprint, DeltaInt

CONSTANTS
  Jobs,          (* what senders encode: a sequence of [codec, spec, values] *)
  Arrivals,      (* what arrives from elsewhere: of [codec, spec, frames]   *)
  CodecConfigs,  (* the configurations both sides may have                  *)
  Damages        (* what damage writes over a cell of a frame               *)

VARIABLES
  job,           (* [codec, spec, value], the value <<>> of an arrival      *)
  ccfg,          (* the configuration                                       *)
  wire,          (* the frame: [error, val]                                 *)
  got,           (* the decoded value: [error, val]                         *)
  step           (* where the frame is                                      *)

codecVars == <<job, ccfg, wire, got, step>>

Nothing == [error |-> "nothing", val |-> <<>>]

(* the result of a compact writer or reader *)
Written(w) == [error |-> w.error, val |-> IF w.error = None THEN w.out ELSE <<>>]
Read(r)    == [error |-> r.error, val |-> IF r.error = None THEN r.val ELSE <<>>]

(* uniform over n symbols, or the weights of some *)
ModelOf(spec) == IF spec.uniform THEN FromUniform(spec.n) ELSE FromWeights(spec.weights)
Models(spec)  == [i \in DOMAIN spec |-> ModelOf(spec[i])]

EncodeJob(codec, spec, cfg, value) ==
  CASE codec = "compact" -> Written(CompactSerialize(cfg, spec, value))
    [] codec = "string"  -> EncodeString(cfg, spec, value)
    [] codec = "ints"    -> EncodeInts(cfg, spec, value)
    [] codec = "packed"  -> PackValue(cfg, spec, value)
    [] codec = "lz"      -> [error |-> None, val |-> Compress(value)]
    [] codec = "symbols" -> IF \A i \in DOMAIN spec : IsModel(ModelOf(spec[i]))
                            THEN EncodeSequence(cfg.limit, Models(spec), value)
                            ELSE RErr("Entropy")
    [] codec = "entropy" -> IF IsModel(ModelOf(spec))
                            THEN CompressBytes(cfg.limit, cfg.fallback, ModelOf(spec), value)
                            ELSE RErr("Entropy")
    [] codec = "batch"   -> SerializeBatch(cfg, value)
    [] codec = "delta"   -> EncodeDelta(spec, value)
    [] codec = "framed"  -> SerializeFramed(spec.type, spec.writer, value)
    [] codec = "bounded" -> [error |-> None, val |-> Extent(spec.type, value)]

DecodeJob(codec, spec, cfg, frame) ==
  CASE codec = "compact" -> Read(CompactDeserialize(cfg, cfg.base, spec, frame))
    [] codec = "string"  -> DecodeString(cfg, cfg.capacity, frame)
    [] codec = "ints"    -> DecodeInts(cfg, cfg.capacity, frame)
    [] codec = "packed"  -> UnpackValue(cfg, spec, frame)
    [] codec = "lz"      -> Decompress(frame, spec)
    [] codec = "symbols" -> DecodeSequence(cfg.limit, cfg.replay, Models(spec), frame)
    [] codec = "entropy" -> DecompressBytes(cfg.limit, cfg.replay, ModelOf(spec), frame)
    [] codec = "batch"   -> DeserializeBatch(cfg, frame)
    [] codec = "delta"   -> DecodeDelta(spec, frame)
    [] codec = "framed"  -> IF spec.stream
                            THEN DeserializeFramedFrom(spec.as, spec.reader, frame)
                            ELSE DeserializeFramed(spec.as, spec.reader, frame)
    [] codec = "bounded" -> DecodeBounded(spec.type, spec.budget, frame)

---------------------------------------------------------------------------

Encode ==
  /\ step = "given"
  /\ wire' = EncodeJob(job.codec, job.spec, ccfg, job.value)
  /\ step' = IF wire'.error = None THEN "sent" ELSE "refused"
  /\ UNCHANGED <<job, ccfg, got>>

(* one cell of a byte frame, or of an entropy frame, is another *)
DamageByte(i, b) ==
  /\ step = "sent" /\ job.codec \in {"compact", "string", "ints", "packed", "batch", "delta", "framed"}
  /\ i \in DOMAIN wire.val
  /\ wire' = [wire EXCEPT !.val[i] = b]
  /\ step' = "damaged"
  /\ UNCHANGED <<job, ccfg, got>>

DamageFrame(field, i, n) ==
  /\ step = "sent" /\ job.codec \in {"symbols", "entropy"} /\ ~wire.val.raw
  /\ wire' = IF field = "payload"
             THEN [wire EXCEPT !.val.payload = IF i \in DOMAIN @ THEN [@ EXCEPT ![i] = n]
                                               ELSE Append(@, n)]
             ELSE [wire EXCEPT !.val[field] = n]
  /\ step' = "damaged"
  /\ UNCHANGED <<job, ccfg, got>>

Decode ==
  /\ step \in {"sent", "damaged", "arrived"}
  /\ got' = DecodeJob(job.codec, job.spec, ccfg, wire.val)
  /\ step' = IF step = "sent" THEN "received" ELSE "examined"
  /\ UNCHANGED <<job, ccfg, wire>>

CodecInit ==
  /\ ccfg \in CodecConfigs
  /\ got = Nothing
  /\ \/ \E i \in DOMAIN Jobs :
          LET j == Jobs[i]
          IN  \E v \in j.values :
                /\ job = [codec |-> j.codec, spec |-> j.spec, value |-> v]
                /\ wire = Nothing
                /\ step = "given"
     \/ \E i \in DOMAIN Arrivals :
          LET a == Arrivals[i]
          IN  \E w \in a.frames :
                /\ job = [codec |-> a.codec, spec |-> a.spec, value |-> <<>>]
                /\ wire = [error |-> None, val |-> w]
                /\ step = "arrived"

CodecNext ==
  \/ Encode
  \/ \E i \in 1..6, b \in Damages : DamageByte(i, b)
  \/ \E field \in {"state", "count", "payload"}, i \in 1..2, n \in Damages :
       DamageFrame(field, i, n)
  \/ Decode

---------------------------------------------------------------------------
(* Properties *)

SameButDepth(x, y) == [x EXCEPT !.depth_limit = 0] = [y EXCEPT !.depth_limit = 0]

(***************************************************************************)
(* What was sent and not damaged is what is received: in every strategy,     *)
(* type, model and mode, however the frame was buffered.  Without limits a   *)
(* writer refuses only a value that its field, or a difference, cannot hold. *)
(* A receiver refuses a frame only for a limit on what it holds, which the   *)
(* writers do not look at; a compressor leaves inputs below its smallest     *)
(* match to its caller.  A fingerprint frame is read under the configuration *)
(* and as the type it was written with, and refused for its schema under     *)
(* every other; only the depth limit is not compared.                       *)
(***************************************************************************)
DecodeInvertsEncode ==
  /\ step = "refused" => \/ ccfg.limit # {} \/ job.codec = "packed"
                         \/ job.codec = "delta" /\ ~Fits(job.value - job.spec)
                         \/ job.codec = "framed" /\ job.spec.writer.limit # {}
  /\ step = "received" /\ job.codec = "framed" =>
    IF job.spec.as = job.spec.type /\ SameButDepth(job.spec.reader, job.spec.writer)
    THEN got = [error |-> None, val |-> job.value] ELSE got.error = "SchemaMismatch"
  /\ step = "received" /\ job.codec \notin {"bounded", "framed"} =>
    \/ got = [error |-> None, val |-> job.value]
    \/ got.error = "CollectionLimit" /\ ccfg.collection_limit # {}
    \/ got.error = "BufferTooSmall" /\ ccfg.capacity # {}
    \/ job.codec = "lz" /\ Len(job.value) < MIN_MATCH

(***************************************************************************)
(* A codec with one encoding per value accepts no other: what a receiver     *)
(* that rejects trailing bytes takes from anywhere encodes to the frame it   *)
(* came in, for the compact profile (maps aside, which keep no order), for   *)
(* packed fields, whose padding counts, for batches, whose length table has  *)
(* to add up, for fingerprint frames, every cell of whose header is looked   *)
(* at, and for coded entropy frames under replay verification.              *)
(***************************************************************************)
AcceptsOnlyCanonical ==
  /\ got.error = None
  /\ \/ job.codec \in {"compact", "packed", "batch"} /\ ccfg.rejectTrailing
     \/ job.codec = "framed" /\ job.spec.reader.rejectTrailing
     \/ job.codec \in {"symbols", "entropy"} /\ ~wire.val.raw /\ ccfg.replay
  =>
    EncodeJob(job.codec, job.spec,
              [ccfg EXCEPT !.limit = {}, !.fallback = FALSE], got.val) = wire

(***************************************************************************)
(* The frame of a slice fills the size that was predicted for it, the        *)
(* reservation of the writer, and the exact mode leaves no strategy that     *)
(* would have been smaller.  A caller that offers a fingerprint frame too     *)
(* little memory, not enough for a header too, learns the size that will do. *)
(***************************************************************************)
SizeIsPredicted ==
  /\ step = "sent" /\ job.codec = "framed" =>
    /\ FramedSize(job.spec.writer, job.value).val = Len(wire.val)
    /\ \A room \in 0..Len(wire.val) :
         FramedIntoSlice(job.spec.writer, job.value, room) =
           [error |-> IF room < Len(wire.val) THEN "BufferTooSmall" ELSE None,
            val |-> Len(wire.val)]
  /\ step = "sent" /\ job.codec = "ints" =>
    /\ Len(wire.val) = EncodedIntsSize(job.spec, job.value)
    /\ job.spec = "exact" =>
         \A s \in {RAW_INTEGERS, DELTA_INTEGERS, RLE_INTEGERS} :
           Len(wire.val) <= 1 + AVarintSize(Len(job.value))
                              + SizeOfVarints(VarintsOf(s, job.value))

(***************************************************************************)
(* The evidence of a bounded decode is true: the value took no more input,   *)
(* heap and nesting than it says, and it says no more than the budget        *)
(* allows.  A static type fits the budget that its own constants give.       *)
(***************************************************************************)
EvidenceIsHonest ==
  job.codec = "bounded" =>
    /\ got.error = None =>
         /\ wire.val.heap <= got.val.alloc_bound
         /\ wire.val.depth <= got.val.depth_bound
         /\ wire.val.read <= got.val.work_bound
         /\ StaticallyBounded(job.spec.type) => wire.val.read <= Cost(job.spec.type).B
         /\ ~StaticallyBounded(job.spec.type) =>
              got.val.alloc_bound <= job.spec.budget.max_input + job.spec.budget.max_alloc
    /\ job.spec.budget = FromType(job.spec.type) /\ StaticallyBounded(job.spec.type) =>
         got.error \in {"nothing", None}
=============================================================================
