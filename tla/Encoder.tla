------------------------------ MODULE Encoder ------------------------------
(***************************************************************************)
(* The streaming encoder of ser.rs and the three sinks of writer.rs.  The   *)
(* caller is NsonSerialize::nextencode for an arbitrary value: external,    *)
(* it emits one well-formed event stream, with separator before every array *)
(* element.  The value is chosen as it is written, within MaxEvents and     *)
(* MaxData.                                                                *)
(*                                                                         *)
(* Encoding never depends on the sink (none of them fails), so the model    *)
(* feeds a Vec, a SliceWriter and a CountWriter the same bytes.             *)
(***************************************************************************)
EXTENDS Wire, SequencesExt

CONSTANTS
  Configs,        (* configurations it is run with                         *)
  MaxDepth,       (* MAX_DEPTH, the size of the counts table               *)
  Values,         (* the scalars that may be written                       *)
  Keys,           (* the object keys that may be written                   *)
  Capacity,       (* length of the caller-owned slice                      *)
  MaxEvents,      (* bound: events of one value                            *)
  MaxData         (* bound: events of one value that carry data            *)

VARIABLES
  config,
  (* struct Encoder *)
  written, depth, counts, wire_error,
  (* the sinks *)
  output,          (* Vec<u8>                                             *)
  slice, required, (* SliceWriter: the bytes in place, the bytes presented *)
  counted,         (* CountWriter                                         *)
  (* the client *)
  phase,           (* which event may come next                           *)
  stack,           (* open containers                                     *)
  events,          (* the events so far: the value that is being written   *)
  result           (* what to_writer returns                              *)

encoder == <<written, depth, counts, wire_error>>
sinks   == <<output, slice, required, counted>>
encVars == <<config, written, depth, counts, wire_error, output, slice,
             required, counted, phase, stack, events, result>>

---------------------------------------------------------------------------
(* Emitting.  A method calls emit several times and stops at the first that  *)
(* fails, leaving the earlier bytes written.                                *)

(* Mutant: a chunk that does not fit whole is dropped *)
SliceWrite_AllOrNothing(s, req, bytes) ==
  IF req + Len(bytes) <= Capacity THEN s \o bytes ELSE s

(* SliceWriter::write_all copies what fits and counts everything *)
SliceWrite(s, req, bytes) ==
  LET begin    == IF req < Capacity THEN req ELSE Capacity
      writable == IF Capacity - begin < Len(bytes) THEN Capacity - begin
                                                   ELSE Len(bytes)
  IN  SubSeq(s, 1, begin) \o SubSeq(bytes, 1, writable)

(* Encoder::emit: the byte limit, then write_all of each sink *)
Emit(acc, bytes) ==
  IF ~acc.ok THEN acc
  ELSE IF Exceeds(acc.written + Len(bytes), config.limit)
  THEN [acc EXCEPT !.ok = FALSE]
  ELSE [ok       |-> TRUE,
        written  |-> acc.written + Len(bytes),
        output   |-> acc.output \o bytes,
        slice    |-> SliceWrite(acc.slice, acc.required, bytes),
        required |-> acc.required + Len(bytes),
        counted  |-> acc.counted + Len(bytes)]

Begun == [ok |-> TRUE, written |-> written, output |-> output, slice |-> slice,
          required |-> required, counted |-> counted]

(* a method that ends in emits: afterwards the client goes on at phase p *)
EmitThen(acc, p) ==
  /\ written' = acc.written
  /\ output' = acc.output
  /\ slice' = acc.slice
  /\ required' = acc.required
  /\ counted' = acc.counted
  /\ IF acc.ok THEN phase' = p /\ UNCHANGED wire_error
     ELSE phase' = "error" /\ wire_error' = "SizeLimit"

FailWith(e) ==
  /\ wire_error' = e
  /\ phase' = "error"
  /\ UNCHANGED <<written, sinks>>

(* what follows a complete value *)
AfterValue(s) == IF s = <<>> THEN "complete"
                 ELSE IF Last(s) = "array" THEN "element" ELSE "member"

---------------------------------------------------------------------------
(* Events *)

(* the events that open and close a container *)
Opening(kind) == Tok(kind, <<>>)
Closing == Tok("null", <<-1>>)

(* Scalars are not the events of containers, and the depth limit fits the   *)
(* table of counts (Config::with_depth_limit clamps it).                    *)
ASSUME EncodeAssumption ==
  /\ Configs \subseteq Config /\ Values \subseteq Token /\ Keys \subseteq Seq(Byte)
  /\ \A t \in Values : t.kind \in Scalars /\ t # Closing
  /\ MaxDepth \in Nat /\ \A cfg \in Configs : cfg.depth_limit <= MaxDepth
  /\ Capacity \in Nat /\ MaxEvents \in Nat /\ MaxData \in Nat

NonFinite == Tok("number", <<TAG_F64, 1>>)

(* write_str_value *)
EmitString(acc, bytes) ==
  Emit(Emit(Emit(acc, <<TAG_STRING>>), IntegerBytes(config, Len(bytes), 8, FALSE)), bytes)

(* write_null, write_bool, write_u64 ... write_str, write_char *)
EmitScalar(acc, t) ==
  CASE t.kind = "null" -> Emit(acc, <<TAG_NULL>>)
    [] t.kind = "bool" -> Emit(acc, <<IF t.val = <<1>> THEN TAG_TRUE ELSE TAG_FALSE>>)
    [] t.kind = "str"  -> EmitString(acc, t.val)
    [] t.kind = "number" /\ t.val[1] \in {TAG_F64, TAG_F32} ->
         Emit(Emit(acc, <<t.val[1]>>),
              [i \in 1..(IF t.val[1] = TAG_F64 THEN 8 ELSE 4) |-> 0])
    [] OTHER ->
         Emit(Emit(acc, <<t.val[1]>>),
              IntegerBytes(config, t.val[2], IntWidth(t.val[1]),
                           t.val[1] \in {TAG_I64, TAG_I128}))

(* within the bounds the client may write t next *)
MayWrite(t) ==
  LET data == {i \in 1..Len(events) : events[i].val # <<>> /\ events[i] # Closing}
  IN  /\ Len(events) < MaxEvents
      /\ t.val # <<>> => Cardinality(data) < MaxData

WriteScalar(t) ==
  /\ phase = "value"
  /\ MayWrite(t)
  /\ events' = Append(events, t)
  /\ IF t = NonFinite THEN FailWith("NonFiniteFloat")
     ELSE EmitThen(EmitScalar(Begun, t), AfterValue(stack))
  /\ UNCHANGED <<config, depth, counts, stack, result>>

---------------------------------------------------------------------------
(* Containers *)

(* enter_container *)
EnterContainer(kind) ==
  LET tag == IF kind = "array" THEN TAG_ARRAY ELSE TAG_OBJECT
  IN  /\ phase = "value"
      /\ Len(events) < MaxEvents
      /\ events' = Append(events, Opening(kind))
      /\ stack' = Append(stack, kind)
      /\ IF depth >= config.depth_limit
         THEN FailWith("DepthLimit") /\ UNCHANGED depth
         ELSE /\ EmitThen(Emit(Begun, <<tag>>), AfterValue(stack'))
              /\ depth' = IF phase' = "error" THEN depth ELSE depth + 1
      /\ UNCHANGED <<config, counts, result>>

(* Mutant: the limit is compared with the count before this element *)
CountError_OffByOne ==
  IF depth = 0 THEN "NoContainer"
  ELSE IF Exceeds(counts[depth], config.collection_limit)
  THEN "CollectionLimit" ELSE None

(* count_element: outcome for the container at the current depth *)
CountError ==
  IF depth = 0 THEN "NoContainer"
  ELSE IF Exceeds(counts[depth] + 1, config.collection_limit)
  THEN "CollectionLimit" ELSE None

(* separator *)
Separator ==
  /\ phase = "element"
  /\ Len(events) < MaxEvents
  /\ IF CountError # None
     THEN FailWith(CountError) /\ UNCHANGED counts
     ELSE /\ counts' = [counts EXCEPT ![depth] = @ + 1]
          /\ phase' = "value"
          /\ UNCHANGED <<written, sinks, wire_error>>
  /\ UNCHANGED <<config, depth, stack, events, result>>

(* key: count_element, then the key as a string *)
Key(k) ==
  /\ phase = "member"
  /\ Len(events) + 1 < MaxEvents
  /\ MayWrite(Tok("str", k))
  /\ events' = Append(events, Tok("str", k))
  /\ IF CountError # None
     THEN FailWith(CountError) /\ UNCHANGED counts
     ELSE /\ counts' = [counts EXCEPT ![depth] = @ + 1]
          /\ EmitThen(EmitString(Begun, k), "value")
  /\ UNCHANGED <<config, depth, stack, result>>

(* Mutant: a closed container leaves its count to its next sibling *)
LeaveFrame_KeepsCount == depth' = depth - 1 /\ UNCHANGED counts

LeaveFrame ==
  /\ depth' = depth - 1
  /\ counts' = [counts EXCEPT ![depth] = 0]

(* exit_container: the frame is closed before the terminator is emitted *)
ExitContainer ==
  /\ phase \in {"element", "member"}
  /\ events' = Append(events, Closing)
  /\ stack' = Front(stack)
  /\ IF depth = 0
     THEN FailWith("NoContainer") /\ UNCHANGED <<depth, counts>>
     ELSE /\ LeaveFrame
          /\ EmitThen(Emit(Begun, <<TAG_END>>), AfterValue(stack'))
  /\ UNCHANGED <<config, result>>

---------------------------------------------------------------------------
(* to_writer returns *)

ToWriterReturns ==
  /\ phase \in {"complete", "error"}
  /\ result' = IF phase = "error" THEN wire_error
               ELSE IF depth # 0 THEN "UnclosedContainer" ELSE "ok"
  /\ phase' = "done"
  /\ UNCHANGED <<config, encoder, sinks, stack, events>>

EncodeInit ==
  /\ config \in Configs
  /\ written = 0
  /\ depth = 0
  /\ counts = [i \in 1..MaxDepth |-> 0]
  /\ wire_error = None
  /\ output = <<>>
  /\ slice = <<>>
  /\ required = 0
  /\ counted = 0
  /\ phase = "value"
  /\ stack = <<>>
  /\ events = <<>>
  /\ result = None

EncodeNext ==
  \/ \E t \in Values : WriteScalar(t)
  \/ \E kind \in Containers : EnterContainer(kind)
  \/ Separator
  \/ \E k \in Keys : Key(k)
  \/ ExitContainer
  \/ ToWriterReturns

EncodeSpec == EncodeInit /\ [][EncodeNext]_encVars

---------------------------------------------------------------------------
(* Properties *)

(***************************************************************************)
(* SliceWriter agrees with the other sinks: the slice holds the longest     *)
(* prefix of the encoding that fits and required is its full length, the    *)
(* size CountWriter (serialized_size) and Encoder::written report.          *)
(***************************************************************************)
SinksAgree ==
  /\ slice = SubSeq(output, 1, IF Len(output) < Capacity THEN Len(output)
                                                         ELSE Capacity)
  /\ required = Len(output)
  /\ counted = Len(output)
  /\ written = Len(output)

(* the containers open after the events so far, with the values (and keys)   *)
(* each was given                                                           *)
Bumped(open) == IF open = <<>> THEN <<>> ELSE [open EXCEPT ![Len(open)].n = @ + 1]

OpenStep(open, e) ==
  IF e = Closing THEN Front(open)
  ELSE IF e.kind \in Containers THEN Append(Bumped(open), [kind |-> e.kind, n |-> 0])
  ELSE Bumped(open)

OpenAfter(evs) ==
  LET open[i \in 0..Len(evs)] == IF i = 0 THEN <<>> ELSE OpenStep(open[i - 1], evs[i])
  IN  open[Len(evs)]

(***************************************************************************)
(* A limit is reported only when it is needed: the container that the       *)
(* refused element or key would have gone to holds as many as the limit     *)
(* allows.  A budget spent by a closed sibling or by an enclosing container *)
(* is never charged to it.                                                  *)
(***************************************************************************)
RefusedAtTheLimit ==
  result = "CollectionLimit" =>
    LET here  == Last(OpenAfter(events))
        entry == IF here.kind = "array" THEN here.n + 1 ELSE (here.n + 1) \div 2
    IN  Exceeds(entry, config.collection_limit)
===========================================================================
