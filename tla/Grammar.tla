------------------------------ MODULE Grammar ------------------------------
(***************************************************************************)
(* Reference definition of the self-describing format: what one value is,   *)
(* independent of limits, cursors and frames.  Shape(cfg, input, pos) is    *)
(* the end of the value that starts at pos and its footprint, or Malformed. *)
(* Recursive, so used by model checking only.                               *)
(***************************************************************************)
EXTENDS Wire

Malformed == [end |-> -1, depth |-> 0, width |-> 0, containers |-> 0, elements |-> 0]

Leaf(end) == [Malformed EXCEPT !.end = end]

Unlimited(cfg) == [cfg EXCEPT !.limit = {}]

MaxOf(a, b) == IF a > b THEN a ELSE b

RECURSIVE Shape(_, _, _), Entries(_, _, _, _, _, _)

Shape(cfg, input, pos) ==
  LET r == ReadToken(Unlimited(cfg), input, pos)
  IN  IF r.error # None THEN Malformed
      ELSE IF r.val.kind \in Scalars THEN Leaf(r.cursor)
      ELSE Entries(cfg, input, r.cursor, r.val.kind, 0,
                   [Leaf(r.cursor) EXCEPT !.depth = 1, !.containers = 1])

(* the entries from pos on, n of them read so far with footprint acc *)
Entries(cfg, input, pos, kind, n, acc) ==
  LET key == ReadToken(Unlimited(cfg), input, pos)
      v   == Shape(cfg, input, IF kind = "object" THEN key.cursor ELSE pos)
  IN  IF pos >= Len(input) THEN Malformed
      ELSE IF input[pos + 1] = TAG_END THEN [acc EXCEPT !.end = pos + 1]
      ELSE IF kind = "object" /\ (key.error # None \/ key.val.kind # "str")
           THEN Malformed
      ELSE IF v.end = -1 THEN Malformed
      ELSE Entries(cfg, input, v.end, kind, n + 1,
                   [end        |-> v.end,
                    depth      |-> MaxOf(acc.depth, v.depth + 1),
                    width      |-> MaxOf(acc.width, MaxOf(n + 1, v.width)),
                    containers |-> acc.containers + v.containers,
                    elements   |-> acc.elements + v.elements + 1])

(* The value at the start of input, and whether a configuration admits it *)
Value(cfg, input) == Shape(cfg, input, 0)

WithinLimits(cfg, v) ==
  /\ v.depth <= cfg.depth_limit
  /\ ~Exceeds(v.width, cfg.collection_limit)
  /\ ~Exceeds(v.end, cfg.limit)
===========================================================================
