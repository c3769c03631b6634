---------------------------- MODULE ProbeDecode ----------------------------
(***************************************************************************)
(* The consistency contract of probe.rs ("a byte-exact mirror of the        *)
(* decoder"): one input and configuration, decoded to the end by a Value    *)
(* client and then probed.                                                  *)
(***************************************************************************)
EXTENDS ValueClient

VARIABLES p_cursor, p_depth, p_max_depth, p_containers, p_elements, p_frames,
          p_phase, p_result

(* config and input are those of the decoder *)
P == INSTANCE Probe

walkerVars == <<p_cursor, p_depth, p_max_depth, p_containers, p_elements,
                p_frames, p_phase, p_result>>

PDInit == Init /\ P!ProbeInit

PDNext ==
  \/ phase # "done" /\ ValueNext /\ UNCHANGED walkerVars
  \/ phase = "done" /\ P!ProbeNext
     /\ UNCHANGED <<decoder, nested, phase, client, start, last_error,
                    skipped, result>>

PDSpec == PDInit /\ [][PDNext]_<<vars, walkerVars>>

BothDone == phase = "done" /\ p_phase = "done"

(***************************************************************************)
(* "A value accepted by probe decodes with the same byte count": whenever   *)
(* both accept, the probe's byte count is what the decoder consumed.        *)
(***************************************************************************)
SameByteCount ==
  BothDone /\ result = "ok" /\ p_result = "ok" => p_cursor = cursor

(***************************************************************************)
(* What the contract promises and the code does not keep everywhere: that   *)
(* both accept the same inputs ...                                          *)
(***************************************************************************)
AcceptsTheSame == BothDone => (p_result = "ok" <=> result = "ok")

(* The two names of one reason: a key that is no string *)
Reason(e) == IF e = "InvalidKey" THEN "InvalidType" ELSE e

(***************************************************************************)
(* ... and that what both refuse they refuse for the same reason.           *)
(***************************************************************************)
SameReason ==
  BothDone /\ "ok" \notin {p_result, result} => result = Reason(p_result)

(* The decoder refuses what a scalar contains, which the probe passes over *)
RefusesContent == result \in {"InvalidUtf8", "IntegerOverflow"} /\ cursor <= p_cursor

(* The probe counts an element, and looks at the tag of a key, before the   *)
(* bytes behind it are read; the decoder afterwards                         *)
RefusesEarlier ==
  /\ p_result \in {"CollectionLimit", "InvalidKey"}
  /\ result # "ok"
  /\ p_cursor <= cursor

(***************************************************************************)
(* A gateway that trusts the probe loses nothing, and knows what it lets    *)
(* through: decoder and probe give the same verdict for the same reason and *)
(* agree on the length, except that the decoder alone refuses the content   *)
(* of a scalar, and that an element too many or a key that is no string is   *)
(* refused by the decoder too, but perhaps for what it read before.         *)
(***************************************************************************)
PreflightIsSound ==
  /\ SameByteCount
  /\ BothDone => \/ result = Reason(p_result)
                 \/ RefusesContent
                 \/ RefusesEarlier

===========================================================================
