---------------------------- MODULE OrderedMap ----------------------------
(***************************************************************************)
(* What parallel_map of parallel.rs promises: the result of mapping the     *)
(* items one after the other on the calling thread.  Without a panic the    *)
(* result is fixed by the items; a panic is reported or unwinds.            *)
(***************************************************************************)
EXTENDS Naturals, Sequences

VARIABLES
  outcome,   (* what the operation does on each item: "ok", "err", "panic" *)
  result     (* none yet, or what the call returned                        *)

Pending == [kind |-> "none", item |-> 0, output |-> <<>>]
Mapped(out) == [kind |-> "ok", item |-> 0, output |-> out]
Failed(i) == [kind |-> "err", item |-> i, output |-> <<>>]
WorkerPanic == [kind |-> "ParallelWorkerPanic", item |-> 0, output |-> <<>>]
Unwind == [kind |-> "unwind", item |-> 0, output |-> <<>>]

Failures == {i \in DOMAIN outcome : outcome[i] # "ok"}

(* the results the sequential map can have: the first failure decides; the  *)
(* items after it may still be tried, and one that panics may unwind        *)
Sequential ==
  IF Failures = {} THEN {Mapped([i \in DOMAIN outcome |-> i])}
  ELSE LET first == CHOOSE i \in Failures : \A j \in Failures : i <= j
       IN  {IF outcome[first] = "err" THEN Failed(first) ELSE WorkerPanic} \union
           {Unwind : i \in {j \in Failures : j > first /\ outcome[j] = "panic"}}

Init == result = Pending

Return == /\ result = Pending
          /\ result' \in Sequential
          /\ UNCHANGED outcome

Spec == Init /\ [][Return]_<<outcome, result>>
===========================================================================
