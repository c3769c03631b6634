------------------------------ MODULE Decoder ------------------------------
(***************************************************************************)
(* The streaming decoder of decoder.rs: a cursor over the input, one        *)
(* optional lookahead token, a nesting depth and a per-depth table of       *)
(* element counts, driven by nextjson's event contract.                     *)
(*                                                                         *)
(* The caller is T::nextdecode for an arbitrary type T.  It is external;    *)
(* what the model assumes of it is the order of calls that the contract     *)
(* allows (client variables below): a value, then the separator of the      *)
(* enclosing container, then the next value or the end call; a peek or an   *)
(* unknown-field skip at any value; a save before a value (an untagged      *)
(* enum), followed, as long as that value is not complete, by a restore.    *)
(***************************************************************************)
EXTENDS Wire, SequencesExt

CONSTANTS
  Inputs,        (* byte strings the decoder is run on                      *)
  Configs,       (* configurations it is run with                           *)
  MaxDepth,      (* MAX_DEPTH, the size of the counts table                 *)
  MaxAttempts,   (* bound: nested untagged enums                            *)
  SaveAfterPeek  (* may the client save with a lookahead token pending?     *)

ASSUME InputsAssumption == Inputs \subseteq Seq(Byte)
ASSUME MaxDepthAssumption == MaxDepth \in Nat
(* Config::with_depth_limit clamps to MAX_DEPTH *)
ASSUME ConfigsAssumption ==
  \A cfg \in Configs : cfg \in Config /\ cfg.depth_limit <= MaxDepth
ASSUME BoundsAssumption == MaxAttempts \in Nat /\ SaveAfterPeek \in BOOLEAN

VARIABLES
  config, input,   (* arguments of from_slice, never modified              *)
  (* struct Decoder *)
  cursor, depth, counts, lookahead, wire_error,
  nested,          (* the local of skip_value_inner                        *)
  (* the client *)
  phase,           (* which call the contract allows next                  *)
  stack,           (* the containers it believes are open                  *)
  attempts,        (* pending save marks                                   *)
  (* what the client has observed *)
  elems,           (* elements received from each open container           *)
  start,           (* where the value under way begins                     *)
  last_error,      (* error of the last call that failed                   *)
  skipped,         (* skip_value was used                                  *)
  result           (* what from_slice returns                              *)

decoder == <<cursor, depth, counts, lookahead, wire_error>>
client  == <<stack, attempts, elems>>
vars    == <<config, input, cursor, depth, counts, lookahead, wire_error,
             nested, phase, stack, attempts, elems, start, last_error,
             skipped, result>>

Phases == {"value", "first", "key", "sep", "end", "skip", "error", "done"}

Attempt == [cursor : Nat, depth : Nat, stack : Seq(Containers),
            elems : Seq(Nat), start : Nat]

---------------------------------------------------------------------------
(* Helpers *)

(* take_token: the pending lookahead, or a fresh read *)
TakeToken ==
  IF lookahead # <<>> THEN Res(cursor, None, lookahead[1])
  ELSE ReadToken(config, input, cursor)

AtEnd == cursor >= Len(input)
NextIsTerminator == input[cursor + 1] = TAG_END

(* Mutant: the counters of abandoned frames survive *)
ClearFrom_KeepsCounts(d) == counts

(* exit_container and restore clear the counters from level d (0-based) up *)
ClearFrom(d) == [i \in 1..MaxDepth |-> IF i > d THEN 0 ELSE counts[i]]

(* A call returns an error made by Decoder::fail ... *)
FailWith(e) ==
  /\ wire_error' = e
  /\ last_error' = e
  /\ phase' = "error"

(* ... or one made by invalid_type, which leaves wire_error alone *)
InvalidType ==
  /\ last_error' = "InvalidType"
  /\ phase' = "error"
  /\ UNCHANGED wire_error

(* The error-free continuation of a call *)
Proceed(p) ==
  /\ phase' = p
  /\ UNCHANGED <<wire_error, last_error>>

---------------------------------------------------------------------------
(* Scalars: unit, bool, number, string, char, next_token *)

(* expected: the token kinds the call accepts *)
TakeScalar(expected) ==
  LET r == TakeToken
  IN  /\ phase = "value"
      /\ cursor' = r.cursor
      /\ lookahead' = <<>>
      /\ \/ r.error # None /\ FailWith(r.error)
         \/ r.error = None /\ r.val.kind \notin expected /\ InvalidType
         \/ r.error = None /\ r.val.kind \in expected /\ Proceed("sep")
      /\ UNCHANGED <<config, input, depth, counts, nested, client, start,
                     skipped, result>>

Unit      == TakeScalar({"null"})
Bool      == TakeScalar({"bool"})
Number    == TakeScalar({"number"})
String    == TakeScalar({"str"})

(* next_token: of a container it returns the opening without a frame, which   *)
(* leaves the client nothing to read it with; it refuses the value itself     *)
NextToken == TakeScalar(Scalars)

(* char: a string that holds exactly one character *)
Char ==
  LET r == TakeToken
  IN  /\ phase = "value"
      /\ cursor' = r.cursor
      /\ lookahead' = <<>>
      /\ \/ r.error # None /\ FailWith(r.error)
         \/ r.error = None /\ r.val.kind # "str" /\ InvalidType
         \/ r.error = None /\ r.val.kind = "str"
            /\ IF Len(r.val.val) = 1 THEN Proceed("sep") ELSE FailWith("InvalidChar")
      /\ UNCHANGED <<config, input, depth, counts, nested, client, start,
                     skipped, result>>

(* peek_token *)
PeekToken ==
  LET r == ReadToken(config, input, cursor)
  IN  /\ phase = "value"
      /\ lookahead = <<>>
      /\ cursor' = r.cursor
      /\ IF r.error # None
         THEN FailWith(r.error) /\ UNCHANGED lookahead
         ELSE Proceed("value") /\ lookahead' = <<r.val>>
      /\ UNCHANGED <<config, input, depth, counts, nested, client, start,
                     skipped, result>>

---------------------------------------------------------------------------
(* Containers *)

(* Mutant: push_frame off by one *)
Full_OffByOne == depth > config.depth_limit

(* push_frame refuses a frame at the depth limit *)
Full == depth >= config.depth_limit

(* begin_array / begin_object: take_token, then push_frame *)
Begin(kind, next) ==
  LET r == TakeToken
  IN  /\ phase = "value"
      /\ cursor' = r.cursor
      /\ lookahead' = <<>>
      /\ \/ /\ r.error # None /\ FailWith(r.error)
            /\ UNCHANGED <<depth, stack, elems>>
         \/ /\ r.error = None /\ r.val.kind # kind /\ InvalidType
            /\ UNCHANGED <<depth, stack, elems>>
         \/ /\ r.error = None /\ r.val.kind = kind /\ Full
            /\ FailWith("DepthLimit")
            /\ UNCHANGED <<depth, stack, elems>>
         \/ /\ r.error = None /\ r.val.kind = kind /\ ~Full
            /\ Proceed(next)
            /\ depth' = depth + 1
            /\ stack' = Append(stack, kind)
            /\ elems' = Append(elems, 0)
      /\ UNCHANGED <<config, input, counts, nested, attempts, start, skipped,
                     result>>

BeginArray  == Begin("array", "first")
BeginObject == Begin("object", "key")

(* array_has_more: peek_end *)
ArrayHasMore ==
  /\ phase = "first"
  /\ IF lookahead # <<>> THEN Proceed("value")
     ELSE IF AtEnd THEN FailWith("UnexpectedEnd")
     ELSE Proceed(IF NextIsTerminator THEN "end" ELSE "value")
  /\ start' = cursor
  /\ UNCHANGED <<config, input, cursor, depth, counts, lookahead, nested,
                 client, skipped, result>>

(* object_key: peek_end, then a string token *)
ObjectKey ==
  LET r == TakeToken
  IN  /\ phase = "key"
      /\ IF lookahead = <<>> /\ AtEnd
         THEN FailWith("UnexpectedEnd") /\ UNCHANGED <<cursor, lookahead, start>>
         ELSE IF lookahead = <<>> /\ NextIsTerminator
         THEN Proceed("end") /\ UNCHANGED <<cursor, lookahead, start>>
         ELSE /\ cursor' = r.cursor
              /\ lookahead' = <<>>
              /\ start' = r.cursor
              /\ \/ r.error # None /\ FailWith(r.error)
                 \/ r.error = None /\ r.val.kind # "str" /\ InvalidType
                 \/ r.error = None /\ r.val.kind = "str" /\ Proceed("value")
      /\ UNCHANGED <<config, input, depth, counts, nested, client, skipped,
                     result>>

(* An untagged attempt is over once the value it was opened for is complete *)
AttemptComplete == attempts # <<>> /\ Last(attempts).stack = stack

(* Mutant: container_sep admits one element too many *)
TooMany_OffByOne(count) == Exceeds(count - 1, config.collection_limit)

TooMany(count) == Exceeds(count, config.collection_limit)

(* array_entry_sep / object_entry_sep: container_sep counts the element     *)
(* that was just read, then looks for the terminator                        *)
EntrySep ==
  LET count == counts[depth] + 1
      more  == IF Last(stack) = "array" THEN "value" ELSE "key"
  IN  /\ phase = "sep"
      /\ stack # <<>>
      /\ ~AttemptComplete
      /\ IF depth = 0
         THEN FailWith("NoContainer") /\ UNCHANGED counts
         ELSE IF TooMany(count)
         THEN FailWith("CollectionLimit") /\ UNCHANGED counts
         ELSE /\ counts' = [counts EXCEPT ![depth] = count]
              /\ IF lookahead # <<>> THEN Proceed(more)
                 ELSE IF AtEnd THEN FailWith("UnexpectedEnd")
                 ELSE Proceed(IF NextIsTerminator THEN "end" ELSE more)
      /\ elems' = [elems EXCEPT ![Len(elems)] = @ + 1]
      /\ start' = cursor
      /\ UNCHANGED <<config, input, cursor, depth, lookahead, nested, stack,
                     attempts, skipped, result>>

(* end_array / end_object: exit_container consumes the terminator *)
EndContainer ==
  LET b == Take(config, input, cursor, 1)
  IN  /\ phase = "end"
      /\ cursor' = IF depth = 0 THEN cursor ELSE b.cursor
      /\ \/ /\ depth = 0 /\ FailWith("NoContainer")
            /\ UNCHANGED <<depth, counts, stack, elems>>
         \/ /\ depth # 0 /\ b.error # None /\ FailWith(b.error)
            /\ UNCHANGED <<depth, counts, stack, elems>>
         \/ /\ depth # 0 /\ b.error = None /\ b.val[1] # TAG_END
            /\ FailWith("NoTerminator")
            /\ UNCHANGED <<depth, counts, stack, elems>>
         \/ /\ depth # 0 /\ b.error = None /\ b.val[1] = TAG_END
            /\ Proceed("sep")
            /\ depth' = depth - 1
            /\ counts' = [counts EXCEPT ![depth] = 0]
            /\ stack' = Front(stack)
            /\ elems' = Front(elems)
      /\ UNCHANGED <<config, input, lookahead, nested, attempts, start,
                     skipped, result>>

---------------------------------------------------------------------------
(* skip_value: one token, or a balanced run of tokens read without frames *)

SkipValue ==
  LET r == TakeToken
  IN  /\ phase = "value"
      /\ cursor' = r.cursor
      /\ lookahead' = <<>>
      /\ skipped' = TRUE
      /\ \/ r.error # None /\ FailWith(r.error) /\ UNCHANGED nested
         \/ r.error = None /\ r.val.kind \in Scalars /\ Proceed("sep")
            /\ UNCHANGED nested
         \/ r.error = None /\ r.val.kind \in Containers /\ Proceed("skip")
            /\ nested' = 1
      /\ UNCHANGED <<config, input, depth, counts, client, start, result>>

(* one iteration of the loop; the terminator is stepped over without take *)
SkipStep ==
  LET r == ReadToken(config, input, cursor)
  IN  /\ phase = "skip"
      /\ \/ /\ AtEnd
            /\ FailWith("UnexpectedEnd")
            /\ UNCHANGED <<cursor, nested>>
         \/ /\ ~AtEnd /\ NextIsTerminator
            /\ cursor' = cursor + 1
            /\ nested' = nested - 1
            /\ Proceed(IF nested = 1 THEN "sep" ELSE "skip")
         \/ /\ ~AtEnd /\ ~NextIsTerminator
            /\ cursor' = r.cursor
            /\ IF r.error # None
               THEN FailWith(r.error) /\ UNCHANGED nested
               ELSE /\ Proceed("skip")
                    /\ nested' = IF r.val.kind \in Containers THEN nested + 1
                                                              ELSE nested
      /\ UNCHANGED <<config, input, depth, counts, lookahead, client, start,
                     skipped, result>>

---------------------------------------------------------------------------
(* Backtracking *)

(* save: Mark::new(cursor, depth) *)
Save ==
  /\ phase = "value"
  /\ Len(attempts) < MaxAttempts
  /\ lookahead = <<>> \/ SaveAfterPeek
  /\ attempts' = Append(attempts,
                        [cursor |-> cursor, depth |-> depth, stack |-> stack,
                         elems |-> elems, start |-> start])
  /\ UNCHANGED <<config, input, decoder, nested, phase, stack, elems, start,
                 last_error, skipped, result>>

(* the attempt produced its value: the mark is dropped *)
Commit ==
  /\ phase = "sep"
  /\ AttemptComplete
  /\ attempts' = Front(attempts)
  /\ UNCHANGED <<config, input, decoder, nested, phase, stack, elems, start,
                 last_error, skipped, result>>

RestoredDepth(mark) == IF mark.depth < MaxDepth THEN mark.depth ELSE MaxDepth

(* Mutant: restore keeps the lookahead token read by the abandoned attempt *)
RestoreDecoder_KeepsLookahead(mark) ==
  /\ cursor' = mark.cursor
  /\ depth' = RestoredDepth(mark)
  /\ counts' = ClearFrom(depth')
  /\ wire_error' = None
  /\ UNCHANGED lookahead

(* Mutant: restore keeps the error of the abandoned attempt *)
RestoreDecoder_KeepsError(mark) ==
  /\ cursor' = mark.cursor
  /\ depth' = RestoredDepth(mark)
  /\ counts' = ClearFrom(depth')
  /\ lookahead' = <<>>
  /\ UNCHANGED wire_error

RestoreDecoder(mark) ==
  /\ cursor' = mark.cursor
  /\ depth' = RestoredDepth(mark)
  /\ counts' = ClearFrom(RestoredDepth(mark))
  /\ lookahead' = <<>>
  /\ wire_error' = None

(* restore: after a failed call, or because the client rejects the value    *)
Restore ==
  LET mark == Last(attempts)
  IN  /\ attempts # <<>>
      /\ phase \notin {"skip", "done"}
      /\ RestoreDecoder(mark)
      /\ phase' = "value"
      /\ attempts' = Front(attempts)
      /\ stack' = mark.stack
      /\ elems' = mark.elems
      /\ start' = mark.start
      /\ UNCHANGED <<config, input, nested, last_error, skipped, result>>

(* the error leaves the attempt without a restore *)
Propagate ==
  /\ phase = "error"
  /\ attempts # <<>>
  /\ attempts' = Front(attempts)
  /\ UNCHANGED <<config, input, decoder, nested, phase, stack, elems, start,
                 last_error, skipped, result>>

---------------------------------------------------------------------------
(* from_slice returns *)

Returns(r) ==
  /\ result' = r
  /\ phase' = "done"
  /\ UNCHANGED <<config, input, decoder, nested, client, start, last_error,
                 skipped>>

(* Mutant: the trailing-bytes policy is not applied *)
FromSliceOk_AnyTail ==
  /\ phase = "sep"
  /\ stack = <<>>
  /\ attempts = <<>>
  /\ Returns(IF depth # 0 THEN "UnclosedContainer" ELSE "ok")

FromSliceOk ==
  /\ phase = "sep"
  /\ stack = <<>>
  /\ attempts = <<>>
  /\ Returns(IF depth # 0 THEN "UnclosedContainer"
             ELSE IF config.rejectTrailing /\ cursor # Len(input)
             THEN "TrailingBytes" ELSE "ok")

FromSliceErr ==
  /\ phase = "error"
  /\ attempts = <<>>
  /\ Returns(IF wire_error # None THEN wire_error ELSE "InvalidType")

---------------------------------------------------------------------------
InitWith(cfgs, ins) ==
  /\ config \in cfgs
  /\ input \in ins
  /\ cursor = 0
  /\ depth = 0
  /\ counts = [i \in 1..MaxDepth |-> 0]
  /\ lookahead = <<>>
  /\ wire_error = None
  /\ nested = 0
  /\ phase = "value"
  /\ stack = <<>>
  /\ attempts = <<>>
  /\ elems = <<>>
  /\ start = 0
  /\ last_error = None
  /\ skipped = FALSE
  /\ result = None

Init == InitWith(Configs, Inputs)

Next ==
  \/ Unit \/ Bool \/ Number \/ String \/ Char \/ NextToken
  \/ PeekToken
  \/ BeginArray \/ BeginObject
  \/ ArrayHasMore \/ ObjectKey \/ EntrySep \/ EndContainer
  \/ SkipValue \/ SkipStep
  \/ Save \/ Commit \/ Restore \/ Propagate
  \/ FromSliceOk \/ FromSliceErr

Spec == Init /\ [][Next]_vars

---------------------------------------------------------------------------
(* Properties *)

TypeOK ==
  /\ config \in Configs
  /\ input \in Inputs
  /\ cursor \in 0..Len(input)
  /\ depth \in 0..config.depth_limit
  /\ counts \in [1..MaxDepth -> Nat]
  /\ lookahead \in Seq(Token) /\ Len(lookahead) <= 1
  /\ wire_error \in ErrorOrNone
  /\ nested \in Nat
  /\ phase \in Phases
  /\ stack \in Seq(Containers)
  /\ elems \in Seq(Nat)
  /\ attempts \in Seq(Attempt)
  /\ start \in Nat
  /\ last_error \in ErrorOrNone \union {"InvalidType"}
  /\ skipped \in BOOLEAN
  /\ result \in ErrorOrNone \union {"InvalidType", "UnclosedContainer",
                              "TrailingBytes", "ok"}

(***************************************************************************)
(* The collection-limit accounting is exact.  Whatever mix of calls,        *)
(* failures and restores came before, the decoder is as deep as the client  *)
(* has containers open, counts[i] is the number of elements received from   *)
(* the i-th of them and every counter above is zero: exit_container and     *)
(* restore hand a sibling container a fresh budget, and backtracking does   *)
(* not charge an enclosing container for elements that were given back.     *)
(***************************************************************************)
FramesMatch ==
  phase \notin {"error", "done"} =>
    /\ depth = Len(stack)
    /\ Len(elems) = depth
    /\ \A i \in 1..MaxDepth : counts[i] = IF i <= depth THEN elems[i] ELSE 0

(***************************************************************************)
(* peek_token and restore do not consume: when the client is about to read  *)
(* a value, the token it gets is the one at that value's first byte.        *)
(***************************************************************************)
NextTokenIsNext ==
  phase = "value" =>
    IF lookahead = <<>> THEN cursor = start
    ELSE ReadToken(config, input, start) = Res(cursor, None, lookahead[1])

(***************************************************************************)
(* The error from_slice reports is the error of the call that failed last,  *)
(* not one left in wire_error by an abandoned untagged attempt.             *)
(***************************************************************************)
ErrorIsLatest ==
  phase = "done" /\ result \notin {"ok", "TrailingBytes"} => result = last_error

===========================================================================
