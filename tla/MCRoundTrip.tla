---------------------------- MODULE MCRoundTrip ----------------------------
(* Every value of up to MaxEvents events, MaxData of them with data, encoded *)
(* under each configuration and decoded, whole or cut short.                 *)
EXTENDS RoundTrip, Grammar

MCConfig(l, v, reject, lim, coll, d) ==
  [little |-> l, variable |-> v, rejectTrailing |-> reject,
   limit |-> lim, collection_limit |-> coll, depth_limit |-> d]

MCConfigs == {MCConfig(TRUE, TRUE, TRUE, {6}, {}, 3),
              MCConfig(FALSE, TRUE, FALSE, {}, {1}, 2),
              MCConfig(TRUE, FALSE, FALSE, {}, {}, 1),
              MCConfig(FALSE, FALSE, TRUE, {}, {2}, 2)}

(* boundary values of every rung of the varint ladder below 2^24 *)
MCValues == {Tok("null", <<>>), Tok("bool", <<1>>), Tok("str", <<97>>),
             Tok("number", <<TAG_F32>>), Tok("number", <<TAG_F64, 1>>),
             Tok("number", <<TAG_U128, 65536>>),
             Tok("number", <<TAG_I64, -126>>)}

MCKeys == {<<>>, <<97>>}

(***************************************************************************)
(* What to_writer accepts is one value of the format, with no byte to       *)
(* spare, and inside the three limits: the element counters of sibling and  *)
(* of nested containers, the depth and the written count never drift from   *)
(* the bytes that were emitted.                                             *)
(***************************************************************************)
EncodedIsOneValue ==
  result = "ok" /\ ~sent =>
    LET v == Value(config, output)
    IN  v.end = Len(output) /\ WithinLimits(config, v)
===========================================================================
