----------------------------- MODULE MCDecoder -----------------------------
(***************************************************************************)
(* The decoder on every short input: under any client of the contract, or   *)
(* under a Value client, with a probe of the same input after it.           *)
(***************************************************************************)
EXTENDS ProbeDecode, Grammar

Strings(alphabet, n) == UNION {[1..k -> alphabet] : k \in 0..n}

MCConfig(lim, coll, d, reject) ==
  [little |-> TRUE, variable |-> TRUE, rejectTrailing |-> reject,
   limit |-> lim, collection_limit |-> coll, depth_limit |-> d]

Nested == {TAG_NULL, TAG_ARRAY, TAG_END}

(* every byte string over null, array and terminator, and short ones over a *)
(* wider alphabet (1 is both `false` and the length of a one-byte string)    *)
AllInputs ==
  Strings(Nested, 8) \union
  Strings({TAG_NULL, TAG_FALSE, TAG_U64, TAG_STRING, TAG_OBJECT, TAG_END,
           MARKER_U16}, 5)

MCConfigs == {MCConfig({}, {}, 3, TRUE), MCConfig({5}, {}, 2, FALSE),
              MCConfig({}, {1}, 2, TRUE)}

MCInputs == AllInputs

(* any client has many more ways through an input *)
AnyInputs == Strings(Nested, 6) \union
             Strings({TAG_FALSE, TAG_U64, TAG_STRING, TAG_OBJECT, TAG_END}, 4)
AnyConfigs == {MCConfig({}, {1}, 2, TRUE)}

(* a configuration on which decoder and probe part *)
MCFixedConfigs == {[MCConfig({}, {}, 2, FALSE) EXCEPT !.variable = FALSE]}
MCTextInputs ==
  {<<TAG_STRING>> \o IntegerBytes([little |-> TRUE, variable |-> v], 1, 8, FALSE) \o <<b>> :
     v \in BOOLEAN, b \in {TAG_NULL, 97, 250}}

(* ... and two on which they part under variable integers: a string that is *)
(* not UTF-8, and one element too many that is cut in its middle            *)
MCOneElement == {MCConfig({}, {1}, 2, TRUE)}
MCCutInputs == {<<TAG_ARRAY, TAG_NULL, tag>> : tag \in {TAG_U64, TAG_STRING, TAG_F64}}

---------------------------------------------------------------------------

WalkerOff ==
  /\ p_cursor = 0 /\ p_depth = 0 /\ p_max_depth = 0 /\ p_containers = 0
  /\ p_elements = 0 /\ p_frames = <<>> /\ p_phase = "off" /\ p_result = None

MCInit == (InitWith(AnyConfigs, AnyInputs) /\ WalkerOff) \/ PDInit

MCNext ==
  \/ p_phase = "off" /\ Next /\ UNCHANGED walkerVars
  \/ p_phase # "off" /\ PDNext

MCSpec == MCInit /\ [][MCNext]_<<vars, walkerVars>>

---------------------------------------------------------------------------
(***************************************************************************)
(* Every successful decode consumes exactly one value of the format,        *)
(* whatever mix of typed reads, peeks, skips and abandoned attempts the     *)
(* client used; and without a skip it honours all three limits.  A skip     *)
(* checks neither nesting nor keys, so it may pass over bytes that are not  *)
(* a value, but never ends elsewhere on bytes that are one.                 *)
(***************************************************************************)
AcceptedIsOneValue ==
  result = "ok" =>
    LET v == Value(config, input)
    IN  /\ v.end # -1 => cursor = v.end
        /\ ~skipped => v.end # -1 /\ WithinLimits(config, v)

(***************************************************************************)
(* Decoding a Value succeeds exactly on the byte strings that are one value *)
(* of the format within the configured depth, width and byte limits (and    *)
(* nothing else, if trailing bytes are rejected), and consumes that value.  *)
(***************************************************************************)
AcceptsExactlyTheFormat ==
  phase = "done" /\ p_phase # "off" =>
    LET v == Value(config, input)
        admissible == /\ v.end # -1
                      /\ WithinLimits(config, v)
                      /\ config.rejectTrailing => v.end = Len(input)
    IN  /\ (result = "ok") <=> admissible
        /\ result = "ok" => cursor = v.end

(***************************************************************************)
(* Bytes, containers, elements and depth reported by an accepting probe are *)
(* those of the value (when the value is one: the probe checks neither      *)
(* UTF-8 nor the range of integers).                                        *)
(***************************************************************************)
ProbeIsExact ==
  p_result = "ok" =>
    LET v == Value(config, input)
    IN  v.end # -1 => /\ p_cursor = v.end
                      /\ p_containers = v.containers
                      /\ p_elements = v.elements
                      /\ p_max_depth = v.depth
===========================================================================
