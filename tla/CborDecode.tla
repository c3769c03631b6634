----------------------------- MODULE CborDecode -----------------------------
(***************************************************************************)
(* The CBOR decoder driven by a client: any user of nextjson's contract     *)
(* ("any"), or nextjson::Value, which peeks and then calls the reader of    *)
(* what it saw ("value").  The input is any byte string, or the encoding of *)
(* a value.                                                                 *)
(*                                                                         *)
(* Unguarded names the calls the client makes even where they lose its      *)
(* place in the input:                                                      *)
(*   skip     over a definite map, or over a container that was peeked at   *)
(*   option   of a None that is an element of a definite container          *)
(*   bytes    of a byte string that is an element of a definite container   *)
(*   save     before an element of a definite container, or after a peek    *)
(***************************************************************************)
EXTENDS CborGrammar

CONSTANTS
  CborAttempts,  (* bound: nested untagged enums                            *)
  Unguarded      (* subset of {"skip", "option", "bytes", "save"}           *)

VARIABLES
  d,          (* struct CborDecoder with its arguments                      *)
  source,     (* the events its input encodes, or <<>>                      *)
  user,       (* "any" or "value"                                           *)
  phase,      (* which call the contract allows next                        *)
  start,      (* where the value under way begins                           *)
  open,       (* the containers that are open: kind and first position      *)
  item,       (* first and last position of the last complete value         *)
  skipped,    (* skip_value was used                                        *)
  events,     (* what a Value client has received                           *)
  marks,      (* what the pending attempts go back to                       *)
  result

cborVars == <<d, source, user, phase, start, open, item, skipped, events,
              marks, result>>

---------------------------------------------------------------------------
(* A call returned r: the client goes on with phase p, has an error, or is   *)
(* gone because an assertion of the code failed.                            *)
Return(r, p) ==
  /\ d' = r.d
  /\ phase' = CASE r.error = None          -> p
                [] r.error = "Unreachable" -> "panic"
                [] OTHER                   -> "error"
  /\ UNCHANGED <<source, user, marks, result>>

(* a call that is not skip_value *)
Call(r, p) == Return(r, p) /\ UNCHANGED skipped

(* a Value client notes the token it was given *)
Receive(r, token) ==
  events' = IF user = "value" /\ r.error = None THEN Append(events, token) ELSE events

(* the value that began at pos is complete *)
Complete(r, pos) ==
  item' = IF r.error = None THEN <<pos, r.d.cursor>> ELSE item

InDefinite == d.frames # <<>> /\ Innermost(d).definite # {}
Peeked(kinds) == d.lookahead # <<>> /\ d.lookahead[1].kind \in kinds

(* unit, bool, number, string *)
Scalar(kinds) ==
  LET r == Expect(d, kinds)
  IN  /\ phase = "value"
      /\ user = "value" => Peeked(kinds)
      /\ Call(r, "sep")
      /\ Receive(r, r.val)
      /\ Complete(r, start)
      /\ UNCHANGED <<start, open>>

(* what follows an opening, and the container it opened *)
Inside(kind) == IF kind = "array" THEN "first" ELSE "key"
Opened(kind) == Append(open, [kind |-> kind, start |-> start])

(* next_token: any token; a client that was given an end refuses it *)
NextTokenC ==
  LET r     == Expect(d, Scalars \union {"float"} \union Containers)
      opens == r.error = None /\ r.val.kind \in Containers
  IN  /\ phase = "value"
      /\ user = "value" => Peeked({"end"})
      /\ Call(r, IF opens THEN Inside(r.val.kind) ELSE "sep")
      /\ IF opens THEN open' = Opened(r.val.kind) /\ UNCHANGED item
                  ELSE Complete(r, start) /\ UNCHANGED open
      /\ UNCHANGED <<start, events>>

Peek ==
  /\ phase = "value"
  /\ d.lookahead = <<>>
  /\ Call(PeekTokenC(d), "value")
  /\ UNCHANGED <<start, open, item, events>>

BeginContainer(kind) ==
  LET r == Expect(d, {kind})
  IN  /\ phase = "value"
      /\ user = "value" => Peeked({kind})
      /\ Call(r, Inside(kind))
      /\ Receive(r, Opening(kind))
      /\ open' = IF r.error = None THEN Opened(kind) ELSE open
      /\ UNCHANGED <<start, item>>

(* array_has_more *)
ArrayHasMoreC ==
  LET r == HasMore(d)
  IN  /\ phase = "first"
      /\ Call(r, IF r.val THEN "value" ELSE "end")
      /\ start' = r.d.cursor
      /\ UNCHANGED <<open, item, events>>

Key ==
  LET r == ObjectKeyC(d)
  IN  /\ phase = "key"
      /\ Call(r, IF r.val = <<>> THEN "end" ELSE "value")
      /\ start' = r.d.cursor
      /\ events' = IF user = "value" /\ r.error = None /\ r.val # <<>>
                   THEN Append(events, Tok("key", r.val[1])) ELSE events
      /\ UNCHANGED <<open, item>>

(* an untagged attempt is over once the value it was opened for is complete *)
AttemptComplete == marks # <<>> /\ Last(marks).open = open

EntrySeparator ==
  LET r == EntrySepC(d)
  IN  /\ phase = "sep" /\ open # <<>> /\ ~AttemptComplete
      /\ Call(r, IF ~r.val THEN "end"
                   ELSE IF Last(open).kind = "array" THEN "value" ELSE "key")
      /\ start' = r.d.cursor
      /\ UNCHANGED <<open, item, events>>

End ==
  LET r == EndContainerC(d, Last(open).kind)
  IN  /\ phase = "end"
      /\ Call(r, "sep")
      /\ Receive(r, Closing)
      /\ Complete(r, Last(open).start)
      /\ open' = IF r.error = None THEN Front(open) ELSE open
      /\ UNCHANGED start

Skip ==
  LET r == SkipValueC(d)
  IN  /\ phase = "value" /\ user = "any"
      /\ \/ "skip" \in Unguarded
         \/ /\ ~Peeked(Containers)
            /\ \A i \in 1..Len(d.input) : d.input[i] \notin 161..187
      /\ Return(r, "sep")
      /\ skipped' = TRUE
      /\ Complete(r, start)
      /\ UNCHANGED <<start, open, events>>

Bytes ==
  LET r     == BytesC(d)
      array == r.error = None /\ r.val.kind = "array"
  IN  /\ phase = "value" /\ user = "any" /\ d.lookahead = <<>>
      /\ "bytes" \in Unguarded \/ ~InDefinite
      /\ Call(r, IF array THEN "first" ELSE "sep")
      /\ IF array
         THEN open' = Opened("array") /\ UNCHANGED item
         ELSE Complete(r, start) /\ UNCHANGED open
      /\ UNCHANGED <<start, events>>

(* Some goes on with the payload *)
Option ==
  LET r == OptionTag(d)
  IN  /\ phase = "value" /\ user = "any"
      /\ r.error = None => r.val
      /\ "option" \in Unguarded \/ ~InDefinite
      /\ Call(r, "sep")
      /\ Complete(r, start)
      /\ UNCHANGED <<start, open, events>>

---------------------------------------------------------------------------
(* Backtracking *)

Save ==
  /\ phase = "value" /\ user = "any"
  /\ Len(marks) < CborAttempts
  /\ "save" \in Unguarded \/ (d.lookahead = <<>> /\ ~InDefinite)
  /\ marks' = Append(marks, [mark |-> SaveC(d), start |-> start, open |-> open])
  /\ UNCHANGED <<d, source, user, phase, start, open, item, skipped,
                 events, result>>

Commit ==
  /\ phase = "sep" /\ AttemptComplete
  /\ marks' = Front(marks)
  /\ UNCHANGED <<d, source, user, phase, start, open, item, skipped,
                 events, result>>

(* after a failed call, or because the client rejects what it read *)
Restore ==
  /\ marks # <<>>
  /\ phase \notin {"done", "panic"}
  /\ d' = RestoreC(d, Last(marks).mark)
  /\ phase' = "value"
  /\ start' = Last(marks).start
  /\ open' = Last(marks).open
  /\ item' = <<>>
  /\ marks' = Front(marks)
  /\ UNCHANGED <<source, user, skipped, events, result>>

---------------------------------------------------------------------------
(* decode returns *)
DecodeReturns ==
  /\ phase = "error" \/ (phase = "sep" /\ open = <<>> /\ marks = <<>>)
  /\ phase' = "done"
  /\ result' = CASE phase = "error" ->
                      IF d.wire_error # None THEN d.wire_error ELSE "InvalidType"
                 [] d.depth # 0 -> "UnclosedContainer"
                 [] d.cfg.rejectTrailing /\ d.cursor # Len(d.input) -> "TrailingBytes"
                 [] OTHER -> "ok"
  /\ UNCHANGED <<d, source, user, start, open, item, skipped, events, marks>>

(* CborConfig::deserialize refuses an input longer than the limit *)
CborInit(client, cfg, bytes, written) ==
  LET r == IF Exceeds(Len(bytes), cfg.limit) THEN Fail(NewDecoder(cfg, bytes), "SizeLimit")
           ELSE Ok(NewDecoder(cfg, bytes), <<>>)
  IN
  /\ d = r.d
  /\ source = written /\ user = client
  /\ phase = (IF r.error = None THEN "value" ELSE "error") /\ start = 0
  /\ open = <<>> /\ item = <<>> /\ skipped = FALSE /\ events = <<>> /\ marks = <<>>
  /\ result = None

CborNext ==
  \/ \E kind \in Scalars \union {"float"} : Scalar({kind})
  \/ NextTokenC \/ Peek
  \/ \E kind \in Containers : BeginContainer(kind)
  \/ ArrayHasMoreC \/ Key \/ EntrySeparator \/ End
  \/ Skip \/ Bytes \/ Option
  \/ Save \/ Commit \/ Restore
  \/ DecodeReturns

---------------------------------------------------------------------------
(* Properties *)

(***************************************************************************)
(* The client keeps its place.  Whatever calls, peeks, skips and abandoned  *)
(* attempts came before, a value that a call has completed spans exactly    *)
(* one data item: frames that count down and frames that wait for a break   *)
(* agree with the bytes.  A skip may pass over bytes that are no item (a     *)
(* break among the elements of a definite array), never end inside one.     *)
(***************************************************************************)
ItemIsWhole ==
  item # <<>> =>
    LET end == Item(d.input, item[1]).end
    IN  end = item[2] \/ (skipped /\ end = -1)

(***************************************************************************)
(* No input reaches the assertion of HeadArg::value that a head which needs *)
(* an argument has one: the decoder returns.                                *)
(***************************************************************************)
NeverPanics == phase # "panic"

(***************************************************************************)
(* Decoding a Value returns.  It accepts exactly the items of the value      *)
(* model, definite or not, that respect the byte limit, the collection       *)
(* limit and MAX_DEPTH, and hands out the events the item stands for.        *)
(***************************************************************************)
AcceptsTheItems ==
  /\ NeverPanics
  /\ phase = "done" /\ user = "value" =>
    LET it == Item(d.input, 0)
        admissible == /\ InValueModel(it)
                      /\ it.depth <= CborDepth
                      /\ ~Exceeds(it.width, d.cfg.collection_limit)
                      /\ ~Exceeds(Len(d.input), d.cfg.limit)
                      /\ d.cfg.rejectTrailing => it.end = Len(d.input)
    IN  /\ (result = "ok") <=> admissible
        /\ result = "ok" => events = it.events

(***************************************************************************)
(* What the encoder wrote under a configuration the decoder reads back      *)
(* under it, event for event.                                               *)
(***************************************************************************)
CborRoundTrips ==
  phase = "done" /\ source # <<>> => result = "ok" /\ events = source
=============================================================================
