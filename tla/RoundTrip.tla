----------------------------- MODULE RoundTrip -----------------------------
(***************************************************************************)
(* Encoder and decoder composed: a value is encoded under a configuration,  *)
(* the frame (whole, or cut short in transit) is decoded under the same     *)
(* configuration by a Value client.                                         *)
(***************************************************************************)
EXTENDS Encoder

VARIABLES
  input, cursor, d_depth, d_counts, lookahead, d_wire_error, nested, d_phase,
  d_stack, attempts, elems, start, last_error, skipped, d_result,
  sent,        (* the frame has been handed to the decoder                 *)
  received     (* the events the decoding client has seen                  *)

(* a Value client does not backtrack; its input is what is sent *)
Dec == INSTANCE ValueClient WITH
  Inputs <- {<<>>}, MaxAttempts <- 0, SaveAfterPeek <- FALSE,
  depth <- d_depth, counts <- d_counts, wire_error <- d_wire_error,
  phase <- d_phase, stack <- d_stack, result <- d_result

decState == <<cursor, d_depth, d_counts, lookahead, d_wire_error, nested,
              d_phase, d_stack, attempts, elems, start, last_error, skipped,
              d_result>>

RTInit ==
  /\ EncodeInit
  /\ Dec!InitWith({config}, {<<>>})
  /\ sent = FALSE
  /\ received = <<>>

Encode ==
  /\ EncodeNext
  /\ UNCHANGED <<input, decState, sent, received>>

(* the first n bytes of the encoding reach the decoder *)
Send(n) ==
  /\ result = "ok"
  /\ ~sent
  /\ sent' = TRUE
  /\ input' = SubSeq(output, 1, n)
  /\ UNCHANGED <<encVars, decState, received>>

(* the event a step of the decoding client returns, if any *)
Observed ==
  IF d_phase = "value" /\ lookahead # <<>> /\ d_phase' # "error" THEN lookahead
  ELSE IF d_phase = "key" /\ d_phase' = "value" THEN <<Dec!TakeToken.val>>
  ELSE IF d_phase = "end" /\ d_phase' = "sep" THEN <<Closing>>
  ELSE <<>>

Decode ==
  /\ sent
  /\ Dec!ValueNext
  /\ received' = received \o Observed
  /\ UNCHANGED <<encVars, sent>>

RTNext == Encode \/ (\E n \in 0..Len(output) : Send(n)) \/ Decode

RTSpec == RTInit /\ [][RTNext]_<<encVars, input, decState, sent, received>>

(* an f32 comes back as the f64 it widens to *)
AsRead(t) == IF t.kind = "number" /\ t.val[1] = TAG_F32
             THEN Tok("number", <<TAG_F64>>) ELSE t

(***************************************************************************)
(* What serialize accepts, deserialize under the same configuration accepts *)
(* and reproduces: the limits of the two directions never disagree, and the *)
(* decoded events are the encoded ones.                                     *)
(***************************************************************************)
EncodedRoundTrips ==
  d_phase = "done" /\ input = output =>
    /\ d_result = "ok"
    /\ cursor = Len(output)
    /\ received = [i \in 1..Len(events) |-> AsRead(events[i])]

(***************************************************************************)
(* "A decoder can always tell where a value ends and whether a frame is      *)
(* whole": a truncated frame is never accepted, trailing bytes allowed or    *)
(* not, and nothing but a prefix of the value is seen before the rejection. *)
(***************************************************************************)
TruncationIsRejected ==
  d_phase = "done" /\ Len(input) < Len(output) =>
    /\ d_result = "UnexpectedEnd"
    /\ IsPrefix(received, [i \in 1..Len(events) |-> AsRead(events[i])])
===========================================================================
