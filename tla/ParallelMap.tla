---------------------------- MODULE ParallelMap ----------------------------
(***************************************************************************)
(* parallel_map of parallel.rs: the items are cut into chunks, one scoped   *)
(* thread maps each chunk, the caller joins the threads in chunk order and  *)
(* leaves the scope, which waits for every thread.  The operation is a pure *)
(* function of the item; what it does is chosen once, in Init.              *)
(*                                                                         *)
(* thread::scope is external.  As its documentation and implementation      *)
(* have it, leaving the scope panics when a thread that was never joined     *)
(* has panicked: the early return of the join loop drops the remaining       *)
(* handles unjoined.                                                        *)
(***************************************************************************)
EXTENDS Integers, Sequences, FiniteSets

CONSTANTS
  MaxItems,     (* bound: length of the batch                              *)
  MaxWorkers,   (* bound: configured worker ceiling                        *)
  Outcomes      (* what the operation may do on an item                    *)

ASSUME ParallelBoundsAssumption == MaxItems \in Nat /\ MaxWorkers \in Nat \ {0}
ASSUME OutcomesAssumption == Outcomes \subseteq {"ok", "err", "panic"}

VARIABLES
  outcome,      (* the items: what the operation does on each              *)
  workers,      (* the configured ceiling                                  *)
  thread,       (* per chunk: state, next item, items mapped               *)
  main,         (* where the caller is                                     *)
  handle,       (* the chunk the caller spawns or joins next               *)
  output,       (* what it has collected                                   *)
  pending,      (* the value the scope closure returned                    *)
  result        (* the value parallel_map returned                         *)

pvars == <<outcome, workers, thread, main, handle, output, pending, result>>

OM == INSTANCE OrderedMap

---------------------------------------------------------------------------
(* Chunks: items.chunks(chunk_size) *)

N == Len(outcome)
CeilDiv(a, b) == (a + b - 1) \div b
WorkerCount == IF workers < N THEN workers ELSE N
ChunkSize == CeilDiv(N, WorkerCount)
ChunkCount == CeilDiv(N, ChunkSize)
Chunks == 1..ChunkCount
FirstItem(c) == (c - 1) * ChunkSize + 1
LastItem(c) == IF c * ChunkSize < N THEN c * ChunkSize ELSE N

ThreadStates == {"unspawned", "running", "ok", "err", "panic"}

(* Mutant: a failed chunk is never ready to be joined *)
Finished_OkOnly(c) == thread[c].state = "ok"

Finished(c) == thread[c].state \in {"ok", "err", "panic"}

---------------------------------------------------------------------------
(* The caller *)

(* an empty batch spawns nothing *)
ReturnEmpty ==
  /\ main = "start"
  /\ N = 0
  /\ main' = "returned"
  /\ result' = OM!Mapped(<<>>)
  /\ UNCHANGED <<outcome, workers, thread, handle, output, pending>>

EnterScope ==
  /\ main = "start"
  /\ N # 0
  /\ main' = "spawning"
  /\ thread' = [c \in Chunks |-> [state |-> "unspawned", item |-> FirstItem(c),
                                  mapped |-> <<>>]]
  /\ handle' = 1
  /\ UNCHANGED <<outcome, workers, output, pending, result>>

Spawn ==
  /\ main = "spawning"
  /\ thread' = [thread EXCEPT ![handle].state = "running"]
  /\ IF handle < ChunkCount THEN handle' = handle + 1 /\ UNCHANGED main
     ELSE handle' = 1 /\ main' = "joining"
  /\ UNCHANGED <<outcome, workers, output, pending, result>>

(* Mutant: a chunk's items are put before those collected so far *)
Collected_Prepends(t) == t.mapped \o output

(* output.append *)
Collected(t) == output \o t.mapped

(* handle.join() in chunk order: a panic, the chunk's error, or its items *)
Join ==
  LET t == thread[handle]
  IN  /\ main = "joining"
      /\ Finished(handle)
      /\ handle' = handle + 1
      /\ IF t.state = "panic"
         THEN main' = "leaving" /\ pending' = OM!WorkerPanic /\ UNCHANGED output
         ELSE IF t.state = "err"
         THEN main' = "leaving" /\ pending' = OM!Failed(t.item) /\ UNCHANGED output
         ELSE /\ output' = Collected(t)
              /\ IF handle < ChunkCount THEN UNCHANGED <<main, pending>>
                 ELSE main' = "leaving" /\ pending' = OM!Mapped(output')
      /\ UNCHANGED <<outcome, workers, thread, result>>

(* the end of thread::scope: all threads are awaited, joined or not *)
Unjoined == {c \in Chunks : c >= handle}

(* Mutant: unjoined threads are left running *)
LeaveScope_NoWait ==
  /\ main = "leaving"
  /\ main' = "returned"
  /\ result' = IF \E c \in Unjoined : thread[c].state = "panic" THEN OM!Unwind
               ELSE pending
  /\ UNCHANGED <<outcome, workers, thread, handle, output, pending>>

LeaveScope ==
  /\ main = "leaving"
  /\ \A c \in Chunks : Finished(c)
  /\ main' = "returned"
  /\ result' = IF \E c \in Unjoined : thread[c].state = "panic" THEN OM!Unwind
               ELSE pending
  /\ UNCHANGED <<outcome, workers, thread, handle, output, pending>>

---------------------------------------------------------------------------
(* A worker: one item of chunk.iter().map(operation).collect() *)

Work(c) ==
  LET t == thread[c]
  IN  /\ t.state = "running"
      /\ thread' = [thread EXCEPT ![c] =
           IF outcome[t.item] # "ok" THEN [t EXCEPT !.state = outcome[t.item]]
           ELSE [state  |-> IF t.item = LastItem(c) THEN "ok" ELSE "running",
                 item   |-> t.item + 1,
                 mapped |-> Append(t.mapped, t.item)]]
      /\ UNCHANGED <<outcome, workers, main, handle, output, pending, result>>

---------------------------------------------------------------------------
Init ==
  /\ outcome \in UNION {[1..n -> Outcomes] : n \in 0..MaxItems}
  /\ workers \in 1..MaxWorkers
  /\ thread = <<>>
  /\ main = "start"
  /\ handle = 0
  /\ output = <<>>
  /\ pending = OM!Pending
  /\ result = OM!Pending

Caller == ReturnEmpty \/ EnterScope \/ Spawn \/ Join \/ LeaveScope

Next == Caller \/ \E c \in DOMAIN thread : Work(c)

(* Scoped threads neither block nor wait for each other: the scheduler      *)
(* eventually runs each one, and the caller.                                *)
Fairness == WF_pvars(Caller) /\ \A c \in 1..MaxItems : WF_pvars(c \in DOMAIN thread /\ Work(c))

Spec == Init /\ [][Next]_pvars
FairSpec == Spec /\ Fairness

---------------------------------------------------------------------------
(* Properties *)

(***************************************************************************)
(* Scheduling-independent result: parallel_map implements the ordered map.  *)
(* Without panics the output is the items in order, and an error is the     *)
(* error of the first failing item of the batch, although several chunks    *)
(* may fail and in any order.                                               *)
(***************************************************************************)
ImplementsOrderedMap == OM!Spec

Failures == OM!Failures

ChunkOf(i) == CeilDiv(i, ChunkSize)
FirstIn(c) == {i \in Failures : ChunkOf(i) = c /\ \A j \in Failures : ChunkOf(j) = c => i <= j}

(***************************************************************************)
(* With panics the result is still a function of the batch and the worker   *)
(* count alone: the first failure decides, unless a later chunk's first     *)
(* failure is a panic, which then unwinds out of parallel_map.              *)
(***************************************************************************)
ScheduleIndependent ==
  main = "returned" /\ Failures # {} =>
    LET first == CHOOSE i \in Failures : \A j \in Failures : i <= j
        later == \E c \in Chunks : c > ChunkOf(first) /\
                   \E i \in FirstIn(c) : outcome[i] = "panic"
    IN  result = IF later THEN OM!Unwind
                 ELSE IF outcome[first] = "panic" THEN OM!WorkerPanic
                 ELSE OM!Failed(first)

(* The call returns, whatever the workers do *)
Returns == main = "start" ~> main = "returned"
===========================================================================
