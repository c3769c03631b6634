----------------------------- MODULE Evolution -----------------------------
(***************************************************************************)
(* Schema evolution frames (evolution.rs): a writer of one revision adds    *)
(* fields under stable identifiers, in the order its encode_fields likes;   *)
(* a reader of another revision asks for the fields it knows, in its own    *)
(* order, and sees the rest as unknown.  A field's payload is a value of    *)
(* the base codec: here its type and its encoded size.                      *)
(*                                                                         *)
(* SchemaEncode and SchemaDecode implementations are external: any sequence *)
(* of calls, going on after a call that failed or giving up.  What arrives  *)
(* is the writer's frame, whole, cut short or with bytes after it, or a     *)
(* frame that another program made.                                         *)
(***************************************************************************)
EXTENDS Wire, SequencesExt

CONSTANTS
  Configs,       (* base configurations                                    *)
  Ids,           (* field identifiers                                      *)
  Types,         (* the types a reader may ask for                         *)
  Values,        (* [type, size] of the values that may be written         *)
  Foreign,       (* frames of another program                              *)
  MaxCalls       (* bound: calls of encode_fields, and of decode_fields    *)

ASSUME IdsAssumption == Ids \subseteq Nat
ASSUME ValuesAssumption == Values \subseteq [type : Types, size : Nat]
ASSUME ForeignAssumption ==
  \A f \in Foreign : f.count \in Nat /\ f.fields \in Seq([id : Nat, value : [type : Types, size : Nat]])
ASSUME CallsAssumption == MaxCalls \in Nat

VARIABLES
  config,
  phase,         (* "encode", "sent", "decode" or "done"                   *)
  calls,         (* calls made by the implementation that is running       *)
  written,       (* FieldEncoder::fields, in call order                    *)
  frame, size,   (* what arrived: its content, and how many bytes of it    *)
  intact,        (* the frame is the writer's                              *)
  fields,        (* FieldDecoder::fields                                   *)
  consumed,      (* indices of the consumed ones                           *)
  reads,         (* history: the calls of the reader and their outcome     *)
  result         (* error of serialize or deserialize, or "ok"             *)

evars == <<config, phase, calls, written, frame, size, intact, fields,
           consumed, reads, result>>

HEADER_SIZE == 24
FIELD_HEADER_SIZE == 12
SCHEMA_ID == 1

FrameOf(seq) == [header |-> "RBE1", schema |-> SCHEMA_ID, count |-> Len(seq),
                 fields |-> seq]

(* the offset of the i-th field header; of the end for i = Len + 1 *)
Offset(seq, i) ==
  LET at[k \in 1..(Len(seq) + 1)] ==
        IF k = 1 THEN HEADER_SIZE
        ELSE at[k - 1] + FIELD_HEADER_SIZE + seq[k - 1].value.size
  IN  at[i]
FrameSize(seq) == Offset(seq, Len(seq) + 1)

---------------------------------------------------------------------------
(* The writer *)

Duplicate(id) == \E i \in 1..Len(written) : written[i].id = id

(* FieldEncoder::field; the base codec refuses a value over its byte limit *)
Field(id, v) ==
  /\ phase = "encode"
  /\ calls < MaxCalls
  /\ calls' = calls + 1
  /\ written' = IF Duplicate(id) \/ Exceeds(v.size, config.limit) THEN written
                ELSE Append(written, [id |-> id, value |-> v])
  /\ UNCHANGED <<config, phase, frame, size, intact, fields, consumed, reads,
                 result>>

(* Mutant: the fields are written in call order *)
Sorted_CallOrder == written

(* sort_unstable_by_key *)
Sorted ==
  CHOOSE seq \in [1..Len(written) -> ToSet(written)] :
    /\ ToSet(seq) = ToSet(written)
    /\ \A i, j \in 1..Len(written) : i < j => seq[i].id <= seq[j].id

(* FieldEncoder::finish *)
Finish ==
  /\ phase = "encode"
  /\ calls' = 0
  /\ IF Exceeds(Len(written), config.collection_limit)
     THEN phase' = "done" /\ result' = "CollectionLimit" /\ UNCHANGED <<frame, size>>
     ELSE IF Exceeds(FrameSize(Sorted), config.limit)
     THEN phase' = "done" /\ result' = "SizeLimit" /\ UNCHANGED <<frame, size>>
     ELSE /\ phase' = "sent"
          /\ frame' = FrameOf(Sorted)
          /\ size' = FrameSize(Sorted)
          /\ UNCHANGED result
  /\ UNCHANGED <<config, written, intact, fields, consumed, reads>>

---------------------------------------------------------------------------
(* The transport *)

Cut(n) ==
  /\ phase = "sent"
  /\ intact
  /\ intact' = FALSE
  /\ size' = n
  /\ UNCHANGED <<config, phase, calls, written, frame, fields, consumed, reads,
                 result>>

Replace(f) ==
  /\ phase = "sent"
  /\ intact
  /\ intact' = FALSE
  /\ frame' = f
  /\ size' = FrameSize(f.fields)
  /\ UNCHANGED <<config, phase, calls, written, fields, consumed, reads, result>>

---------------------------------------------------------------------------
(* The reader *)

(* Mutant: a payload that runs past the end is let through *)
FieldError_HeaderOnly(i) ==
  LET at == Offset(frame.fields, i)
  IN  IF i > Len(frame.fields) \/ at + FIELD_HEADER_SIZE > size THEN "UnexpectedEnd"
      ELSE IF i > 1 /\ frame.fields[i].id <= frame.fields[i - 1].id THEN "SchemaEvolution"
      ELSE None

(* The loop over the field table: the outcome of reading field i *)
FieldError(i) ==
  LET at == Offset(frame.fields, i)
  IN  IF i > Len(frame.fields) \/ at + 4 > size THEN "UnexpectedEnd"
      ELSE IF i > 1 /\ frame.fields[i].id <= frame.fields[i - 1].id THEN "SchemaEvolution"
      ELSE IF Offset(frame.fields, i + 1) > size THEN "UnexpectedEnd"
      ELSE None

TableError ==
  LET bad == {i \in 1..frame.count : FieldError(i) # None}
  IN  IF bad = {} THEN None ELSE FieldError(CHOOSE i \in bad : \A j \in bad : i <= j)

(* deserialize up to the call of decode_fields *)
FrameError ==
  IF Exceeds(size, config.limit) THEN "SizeLimit"
  ELSE IF size < 4 THEN "UnexpectedEnd"
  ELSE IF frame.header # "RBE1" THEN "InvalidFrame"
  ELSE IF size < 16 THEN "UnexpectedEnd"
  ELSE IF frame.schema # SCHEMA_ID THEN "SchemaMismatch"
  ELSE IF size < HEADER_SIZE THEN "UnexpectedEnd"
  ELSE IF Exceeds(frame.count, config.collection_limit) THEN "CollectionLimit"
  ELSE IF frame.count * FIELD_HEADER_SIZE > size - HEADER_SIZE THEN "UnexpectedEnd"
  ELSE IF TableError # None THEN TableError
  ELSE IF config.rejectTrailing /\ Offset(frame.fields, frame.count + 1) # size
  THEN "TrailingBytes" ELSE None

Deserialize ==
  /\ phase = "sent"
  /\ IF FrameError # None
     THEN phase' = "done" /\ result' = FrameError /\ UNCHANGED fields
     ELSE /\ phase' = "decode"
          /\ fields' = SubSeq(frame.fields, 1, frame.count)
          /\ UNCHANGED result
  /\ UNCHANGED <<config, calls, written, frame, size, intact, consumed, reads>>

(* binary_search_by_key: one of the matching indices *)
Matches(id) == {i \in 1..Len(fields) : fields[i].id = id}

(* Mutant: a field whose payload did not decode may be asked for again *)
Consumes_OnSuccess(i, type) == IF fields[i].value.type = type THEN {i} ELSE {}

Consumes(i, type) == {i}

(* held: what the payload that was decoded holds *)
Read(id, outcome, held) == [id |-> id, outcome |-> outcome, held |-> held]

(* optional, and required and or_default, which only rename its None *)
Optional(id, type) ==
  /\ phase = "decode"
  /\ calls < MaxCalls
  /\ calls' = calls + 1
  /\ IF Matches(id) = {}
     THEN reads' = Append(reads, Read(id, "absent", {})) /\ UNCHANGED consumed
     ELSE \E i \in Matches(id) :
            IF i \in consumed
            THEN reads' = Append(reads, Read(id, "twice", {})) /\ UNCHANGED consumed
            ELSE /\ consumed' = consumed \union Consumes(i, type)
                 /\ reads' = Append(reads, Read(id,
                      IF fields[i].value.type = type THEN "found" ELSE "invalid",
                      {fields[i].value}))
  /\ UNCHANGED <<config, phase, written, frame, size, intact, fields, result>>

(* unknown_fields *)
UnknownFields == {fields[i] : i \in (1..Len(fields)) \ consumed}

(* decode_fields returns *)
DecodeReturns ==
  /\ phase = "decode"
  /\ phase' = "done"
  /\ result' = "ok"
  /\ UNCHANGED <<config, calls, written, frame, size, intact, fields, consumed,
                 reads>>

---------------------------------------------------------------------------
Init ==
  /\ config \in Configs
  /\ phase = "encode"
  /\ calls = 0
  /\ written = <<>>
  /\ frame = FrameOf(<<>>)
  /\ size = 0
  /\ intact = TRUE
  /\ fields = <<>>
  /\ consumed = {}
  /\ reads = <<>>
  /\ result = None

Next ==
  \/ \E id \in Ids, v \in Values : Field(id, v)
  \/ Finish
  \/ \E n \in 0..(FrameSize(frame.fields) + 1) : Cut(n)
  \/ \E f \in Foreign : Replace(f)
  \/ Deserialize
  \/ \E id \in Ids, t \in Types : Optional(id, t)
  \/ DecodeReturns

Spec == Init /\ [][Next]_evars

---------------------------------------------------------------------------
(* Properties *)

(***************************************************************************)
(* Revisions agree on the writer's frame: whatever the order of the calls   *)
(* on both sides, the frame is accepted and a field that is asked for is    *)
(* found exactly if it was written, with the value it was written with.     *)
(***************************************************************************)
ReadsAreWritten ==
  intact =>
    /\ phase = "done" /\ size > 0 => result = "ok"
    /\ \A r \in ToSet(reads) :
         LET sent == {f.value : f \in {g \in ToSet(written) : g.id = r.id}}
         IN  /\ r.outcome = "absent" <=> sent = {}
             /\ r.outcome \in {"found", "invalid"} => r.held = sent

(***************************************************************************)
(* A field is handed out at most once, and is unknown until then: the first *)
(* request for a field that is present decodes it (or finds it invalid),    *)
(* every later one is refused.  Holds for frames of any origin, because     *)
(* only strictly increasing identifiers are accepted.                       *)
(***************************************************************************)
EachFieldOnce ==
  /\ \A i, j \in 1..Len(reads) :
       i < j /\ reads[i].id = reads[j].id /\ reads[i].outcome # "absent" =>
         reads[j].outcome = "twice"
  /\ \A f \in UnknownFields : \A r \in ToSet(reads) : r.id # f.id

(***************************************************************************)
(* A frame cut anywhere is never accepted, and one with bytes after it only *)
(* if the configuration allows them.                                        *)
(***************************************************************************)
CutIsRejected ==
  phase = "decode" =>
    LET full == Offset(frame.fields, frame.count + 1)
    IN  size >= full /\ (config.rejectTrailing => size = full)
===========================================================================
