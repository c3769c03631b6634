---------------------------- MODULE ValueClient ----------------------------
(***************************************************************************)
(* The decoder driven by the client that accepts everything the format can  *)
(* say: nextjson::Value.  It peeks at the next token and calls the reader   *)
(* of that kind.  Deterministic, so what it accepts is what the codec       *)
(* accepts.                                                                 *)
(***************************************************************************)
EXTENDS Decoder

Peeked(kind) == lookahead # <<>> /\ lookahead[1].kind = kind

Dispatch ==
  \/ Peeked("null")   /\ Unit
  \/ Peeked("bool")   /\ Bool
  \/ Peeked("number") /\ Number
  \/ Peeked("str")    /\ String
  \/ Peeked("array")  /\ BeginArray
  \/ Peeked("object") /\ BeginObject

ValueNext ==
  \/ PeekToken \/ Dispatch
  \/ ArrayHasMore \/ ObjectKey \/ EntrySep \/ EndContainer
  \/ FromSliceOk \/ FromSliceErr
===========================================================================
