--------------------------- MODULE ProgressProofs ---------------------------
(***************************************************************************)
(* The two components that MCProgress checks together.  parallel_map for     *)
(* every length of the batch, every number of workers and every schedule of *)
(* the threads; then reconciliation for any set of pairs, number of cells   *)
(* and choice of positions that gives a key three different cells: what     *)
(* peeling takes out of a table is what the peers' sets put there.          *)
(***************************************************************************)
EXTENDS ParallelMap, Iblt, SequenceTheorems, NatProofs

(* the items a..b in order *)
Items(a, b) == [k \in 1..(b - a + 1) |-> a + k - 1]

Threads == [state : ThreadStates, item : Nat, mapped : Seq(Nat)]

(* The items before t.item are mapped; t.item failed, or is next *)
ThreadOK(c, t) ==
  /\ t \in Threads
  /\ t.mapped = Items(FirstItem(c), t.item - 1)
  /\ \A i \in FirstItem(c)..(t.item - 1) : outcome[i] = "ok"
  /\ t.state = "ok" => t.item = LastItem(c) + 1
  /\ t.state # "ok" => t.item \in FirstItem(c)..LastItem(c)
  /\ t.state \in {"err", "panic"} => outcome[t.item] = t.state

(* What the scope closure returned after it had joined chunks 1..h *)
ClosureReturned(thr, pnd, h) ==
  /\ h \in Chunks
  /\ \A c \in 1..(h - 1) : thr[c].state = "ok"
  /\ \/ /\ thr[h].state = "ok" /\ h = ChunkCount
        /\ pnd = OM!Mapped(Items(1, N))
     \/ /\ thr[h].state = "err"
        /\ pnd = OM!Failed(thr[h].item)
     \/ /\ thr[h].state = "panic"
        /\ pnd = OM!WorkerPanic

BatchOK ==
  /\ outcome \in Seq(Outcomes)
  /\ workers \in Nat \ {0}

(* The state of the threads and of the caller, in terms of the batch, which  *)
(* never changes                                                            *)
RunningIn(thr, mn, hdl, out, pnd, res) ==
  /\ thr \in [Chunks -> Threads]
  /\ \A c \in Chunks : ThreadOK(c, thr[c])
  /\ mn = "spawning" =>
       /\ hdl \in Chunks
       /\ \A c \in Chunks : c >= hdl => thr[c].state = "unspawned"
       /\ out = <<>>
  /\ mn = "joining" =>
       /\ hdl \in Chunks
       /\ \A c \in 1..(hdl - 1) : thr[c].state = "ok"
       /\ out = Items(1, FirstItem(hdl) - 1)
  /\ mn \in {"leaving", "returned"} =>
       hdl \in Nat /\ ClosureReturned(thr, pnd, hdl - 1)
  /\ mn = "returned" =>
       /\ \A c \in Chunks : thr[c].state \in {"ok", "err", "panic"}
       /\ res = IF \E c \in Chunks : c >= hdl /\ thr[c].state = "panic"
                THEN OM!Unwind ELSE pnd

Running == RunningIn(thread, main, handle, output, pending, result)

(* the inductive invariant *)
ParallelInv ==
  /\ BatchOK
  /\ main \in {"start", "spawning", "joining", "leaving", "returned"}
  /\ main # "returned" => result = OM!Pending
  /\ main = "start" => thread = <<>> /\ output = <<>>
  /\ main = "returned" /\ N = 0 => thread = <<>> /\ result = OM!Mapped(<<>>)
  /\ main \in {"spawning", "joining", "leaving"} => N # 0
  /\ main # "start" /\ N # 0 => Running

---------------------------------------------------------------------------
(* The chunks *)

LEMMA CeilDivBounds ==
  ASSUME NEW a \in Nat \ {0}, NEW b \in Nat \ {0}
  PROVE  /\ CeilDiv(a, b) \in Nat \ {0}
         /\ (CeilDiv(a, b) - 1) * b < a
         /\ a <= CeilDiv(a, b) * b
<1> DEFINE q == (a + b - 1) \div b
           r == (a + b - 1) % b
<1>1. a + b - 1 \in Nat
  OBVIOUS
<1>2. q \in Int /\ r \in 0..(b - 1) /\ a + b - 1 = b * q + r
  BY <1>1
<1> HIDE DEF q, r
<1>3. q >= 1
  <2>1. SUFFICES ASSUME q <= 0 PROVE FALSE
    BY <1>2
  <2>2. b * q <= 0
    BY <1>2, <2>1
  <2>3. QED
    BY <1>2, <2>2
<1>4. (q - 1) * b = b * q - b /\ q * b = b * q
  BY <1>2
<1>5. QED
  BY <1>2, <1>3, <1>4 DEF CeilDiv, q

(* a quotient is the only number with its bounds *)
LEMMA CeilDivUnique ==
  ASSUME NEW a \in Nat \ {0}, NEW b \in Nat \ {0}, NEW c \in Nat \ {0},
         (c - 1) * b < a, a <= c * b
  PROVE  CeilDiv(a, b) = c
<1> DEFINE q == CeilDiv(a, b)
<1>1. q \in Nat \ {0} /\ (q - 1) * b < a /\ a <= q * b
  BY CeilDivBounds
<1> HIDE DEF q
<1>2. ~(q < c)
  <2>1. SUFFICES ASSUME q <= c - 1 PROVE FALSE
    BY <1>1
  <2>2. q * b <= (c - 1) * b
    BY <1>1, <2>1
  <2>3. QED
    BY <1>1, <2>2
<1>3. ~(c < q)
  <2>1. SUFFICES ASSUME c <= q - 1 PROVE FALSE
    BY <1>1
  <2>2. c * b <= (q - 1) * b
    BY <1>1, <2>1
  <2>3. QED
    BY <1>1, <2>2
<1>4. QED
  BY <1>1, <1>2, <1>3 DEF q

(* items.chunks(chunk_size) cuts the batch into consecutive chunks: what the *)
(* other proofs use of the arithmetic                                       *)
Layout ==
  /\ ChunkCount \in Nat \ {0}
  /\ \A c \in Chunks : /\ FirstItem(c) \in Nat \ {0} /\ LastItem(c) \in Nat
                       /\ FirstItem(c) <= LastItem(c) /\ LastItem(c) <= N
  /\ FirstItem(1) = 1
  /\ LastItem(ChunkCount) = N
  /\ \A c \in Chunks : c < ChunkCount => FirstItem(c + 1) = LastItem(c) + 1
  /\ \A c, d \in Chunks : c < d => LastItem(c) < FirstItem(d)
  /\ \A i \in 1..N : ChunkOf(i) \in Chunks /\ i \in FirstItem(ChunkOf(i))..LastItem(ChunkOf(i))
  /\ \A c \in Chunks : \A i \in FirstItem(c)..LastItem(c) : ChunkOf(i) = c

LEMMA ChunkLayout ==
  ASSUME BatchOK, N # 0
  PROVE  Layout
<1>1. N \in Nat \ {0}
  BY DEF BatchOK, N
<1>2. WorkerCount \in Nat \ {0}
  BY <1>1 DEF WorkerCount, BatchOK
<1>3. ChunkSize \in Nat \ {0}
  BY <1>1, <1>2, CeilDivBounds DEF ChunkSize
<1>4. /\ ChunkCount \in Nat \ {0}
      /\ (ChunkCount - 1) * ChunkSize < N /\ N <= ChunkCount * ChunkSize
  BY <1>1, <1>3, CeilDivBounds DEF ChunkCount
<1>5. PICK n, s, m : n = N /\ s = ChunkSize /\ m = ChunkCount
  OBVIOUS
<1>6. n \in Nat \ {0} /\ s \in Nat \ {0} /\ m \in Nat \ {0}
      /\ (m - 1) * s < n /\ n <= m * s
  BY <1>1, <1>3, <1>4, <1>5
<1>7. \A c : /\ FirstItem(c) = (c - 1) * s + 1
             /\ LastItem(c) = IF c * s < n THEN c * s ELSE n
  BY <1>5 DEF FirstItem, LastItem
<1>8. ASSUME NEW c \in 1..m
      PROVE  /\ c * s \in Nat \ {0} /\ (c - 1) * s \in Nat /\ c * s = (c - 1) * s + s
             /\ (c - 1) * s < n
  <2>1. (c - 1) * s <= (m - 1) * s
    BY <1>6
  <2>2. QED
    BY <1>6, <2>1
<1>9. ASSUME NEW c \in 1..m, NEW d \in 1..m, c < d
      PROVE  c * s <= (d - 1) * s
  BY <1>6, <1>9
<1>10. ASSUME NEW c \in 1..m
       PROVE  /\ FirstItem(c) \in Nat \ {0} /\ LastItem(c) \in Nat
              /\ FirstItem(c) <= LastItem(c) /\ LastItem(c) <= n
  BY <1>6, <1>7, <1>8
<1>11. FirstItem(1) = 1 /\ LastItem(m) = n
  BY <1>6, <1>7
<1>12. ASSUME NEW c \in 1..m, c < m
       PROVE  FirstItem(c + 1) = LastItem(c) + 1
  <2>1. c + 1 \in 1..m /\ c + 1 - 1 = c
    BY <1>6, <1>12
  <2>2. c * s < n
    BY <1>8, <2>1
  <2>3. QED
    BY <1>6, <1>7, <2>1, <2>2
<1>13. ASSUME NEW c \in 1..m, NEW d \in 1..m, c < d
       PROVE  LastItem(c) < FirstItem(d)
  BY <1>6, <1>7, <1>8, <1>9, <1>13
<1>14. ASSUME NEW i \in 1..n
       PROVE  ChunkOf(i) \in 1..m /\ i \in FirstItem(ChunkOf(i))..LastItem(ChunkOf(i))
  <2>1. PICK c : c = ChunkOf(i)
    OBVIOUS
  <2>2. c \in Nat \ {0} /\ (c - 1) * s < i /\ i <= c * s
    <3>1. c = CeilDiv(i, s) /\ i \in Nat \ {0} /\ s \in Nat \ {0}
      BY <2>1, <1>5, <1>6 DEF ChunkOf
    <3>2. QED
      BY <3>1, CeilDivBounds
  <2>3. c <= m
    <3>1. SUFFICES ASSUME m <= c - 1 PROVE FALSE
      BY <1>6, <2>2
    <3>2. m * s <= (c - 1) * s
      BY <1>6, <2>2, <3>1
    <3>3. QED
      BY <1>6, <2>2, <3>2
  <2>4. c \in 1..m
    BY <2>2, <2>3, <1>6
  <2>5. i \in FirstItem(c)..LastItem(c)
    BY <1>6, <1>7, <1>8, <2>2, <2>4
  <2>6. QED
    BY <2>1, <2>4, <2>5
<1>15. ASSUME NEW c \in 1..m, NEW i \in FirstItem(c)..LastItem(c)
       PROVE  ChunkOf(i) = c
  <2>1. (c - 1) * s < i /\ i <= c * s /\ i \in Nat \ {0} /\ c \in Nat \ {0}
    BY <1>6, <1>7, <1>8, <1>10
  <2>2. QED
    BY <1>5, <1>6, <2>1, CeilDivUnique DEF ChunkOf
<1>16. Chunks = 1..m
  BY <1>5 DEF Chunks
<1>17. QED
  BY <1>5, <1>6, <1>10, <1>11, <1>12, <1>13, <1>14, <1>15, <1>16 DEF Layout

---------------------------------------------------------------------------
(* Items *)

LEMMA ItemsSeq ==
  ASSUME NEW a \in Nat \ {0}, NEW b \in Nat, a <= b + 1
  PROVE  /\ Items(a, b) \in Seq(Nat)
         /\ Len(Items(a, b)) = b - a + 1
         /\ \A k \in 1..(b - a + 1) : Items(a, b)[k] = a + k - 1
<1>1. b - a + 1 \in Nat
  OBVIOUS
<1>2. \A k \in 1..(b - a + 1) : a + k - 1 \in Nat
  OBVIOUS
<1> DEFINE n == b - a + 1
           f == [k \in 1..n |-> a + k - 1]
<1>3. f \in [1..n -> Nat]
  BY <1>2
<1>4. f \in Seq(Nat) /\ Len(f) = n
  BY <1>1, <1>3
<1>5. \A k \in 1..n : f[k] = a + k - 1
  OBVIOUS
<1>6. QED
  BY <1>4, <1>5 DEF Items

LEMMA ItemsEmpty ==
  ASSUME NEW a \in Nat \ {0}
  PROVE  Items(a, a - 1) = <<>>
<1>1. Items(a, a - 1) \in Seq(Nat) /\ Len(Items(a, a - 1)) = 0
  BY ItemsSeq
<1>2. QED
  BY <1>1, EmptySeq

LEMMA ItemsAppend ==
  ASSUME NEW a \in Nat \ {0}, NEW b \in Nat, a <= b
  PROVE  Append(Items(a, b - 1), b) = Items(a, b)
<1> DEFINE s == Items(a, b - 1)
           t == Items(a, b)
<1>1. /\ s \in Seq(Nat) /\ Len(s) = b - a
      /\ \A k \in 1..(b - a) : s[k] = a + k - 1
  <2>1. b - 1 \in Nat /\ a <= (b - 1) + 1 /\ (b - 1) - a + 1 = b - a
    OBVIOUS
  <2>2. QED
    BY <2>1, ItemsSeq
<1>2. /\ t \in Seq(Nat) /\ Len(t) = b - a + 1
      /\ \A k \in 1..(b - a + 1) : t[k] = a + k - 1
  BY ItemsSeq
<1> HIDE DEF s, t
<1>3. /\ Append(s, b) \in Seq(Nat) /\ Len(Append(s, b)) = b - a + 1
      /\ \A k \in 1..(b - a) : Append(s, b)[k] = s[k]
      /\ Append(s, b)[b - a + 1] = b
  BY <1>1, AppendProperties
<1>4. ASSUME NEW k \in 1..(b - a + 1) PROVE Append(s, b)[k] = t[k]
  <2>1. CASE k = b - a + 1
    <3>1. k \in 1..(b - a + 1) /\ a + k - 1 = b
      BY <2>1
    <3>2. t[k] = b
      BY <1>2, <3>1
    <3>3. QED
      BY <1>3, <2>1, <3>2
  <2>2. CASE k # b - a + 1
    <3>1. k \in 1..(b - a)
      BY <2>2
    <3>2. QED
      BY <1>1, <1>2, <1>3, <3>1
  <2>3. QED
    BY <2>1, <2>2
<1>5. Append(s, b) = t
  BY <1>2, <1>3, <1>4, SeqEqual
<1>6. QED
  BY <1>5 DEF s, t

LEMMA ItemsConcat ==
  ASSUME NEW a \in Nat \ {0}, NEW b \in Nat, a <= b + 1
  PROVE  Items(1, a - 1) \o Items(a, b) = Items(1, b)
<1> DEFINE s == Items(1, a - 1)
           t == Items(a, b)
           u == Items(1, b)
<1>1. /\ s \in Seq(Nat) /\ Len(s) = a - 1
      /\ \A k \in 1..(a - 1) : s[k] = k
  <2>1. a - 1 \in Nat /\ 1 <= (a - 1) + 1 /\ (a - 1) - 1 + 1 = a - 1 /\ 1 \in Nat \ {0}
    OBVIOUS
  <2>2. /\ s \in Seq(Nat) /\ Len(s) = (a - 1) - 1 + 1
        /\ \A k \in 1..((a - 1) - 1 + 1) : s[k] = 1 + k - 1
    BY <2>1, ItemsSeq
  <2> HIDE DEF s
  <2>3. QED
    BY <2>1, <2>2
<1>2. /\ t \in Seq(Nat) /\ Len(t) = b - a + 1
      /\ \A k \in 1..(b - a + 1) : t[k] = a + k - 1
  BY ItemsSeq
<1>3. u \in Seq(Nat) /\ Len(u) = b /\ \A k \in 1..b : u[k] = k
  <2>1. 1 <= b + 1 /\ b - 1 + 1 = b /\ 1 \in Nat \ {0}
    OBVIOUS
  <2>2. /\ u \in Seq(Nat) /\ Len(u) = b - 1 + 1
        /\ \A k \in 1..(b - 1 + 1) : u[k] = 1 + k - 1
    BY <2>1, ItemsSeq
  <2> HIDE DEF u
  <2>3. QED
    BY <2>1, <2>2
<1> HIDE DEF s, t, u
<1>4. /\ s \o t \in Seq(Nat) /\ Len(s \o t) = b
      /\ \A k \in 1..b : (s \o t)[k] = IF k <= a - 1 THEN s[k] ELSE t[k - (a - 1)]
  <2>1. (a - 1) + (b - a + 1) = b
    OBVIOUS
  <2>2. /\ s \o t \in Seq(Nat) /\ Len(s \o t) = Len(s) + Len(t)
        /\ \A k \in 1..(Len(s) + Len(t)) :
             (s \o t)[k] = IF k <= Len(s) THEN s[k] ELSE t[k - Len(s)]
    BY <1>1, <1>2, ConcatProperties
  <2>3. Len(s) + Len(t) = b
    BY <1>1, <1>2, <2>1
  <2>4. QED
    BY <1>1, <2>2, <2>3
<1>5. ASSUME NEW k \in 1..b PROVE (s \o t)[k] = u[k]
  <2>1. CASE k <= a - 1
    BY <1>1, <1>3, <1>4, <2>1
  <2>2. CASE ~(k <= a - 1)
    <3>1. k - (a - 1) \in 1..(b - a + 1) /\ a + (k - (a - 1)) - 1 = k
      BY <2>2
    <3>2. QED
      BY <1>2, <1>3, <1>4, <2>2, <3>1
  <2>3. QED
    BY <2>1, <2>2
<1>6. s \o t = u
  BY <1>3, <1>4, <1>5, SeqEqual
<1>7. QED
  BY <1>6 DEF s, t, u

---------------------------------------------------------------------------
(* The invariant is inductive *)

LEMMA ParallelInit == Init => ParallelInv
<1> SUFFICES ASSUME Init PROVE ParallelInv
  OBVIOUS
<1>1. PICK n \in 0..MaxItems : outcome \in [1..n -> Outcomes]
  BY DEF Init
<1>2. n \in Nat
  BY ParallelBoundsAssumption
<1>3. outcome \in Seq(Outcomes)
  BY <1>1, <1>2
<1>4. BatchOK
  BY <1>3, ParallelBoundsAssumption DEF Init, BatchOK
<1>5. QED
  BY <1>4 DEF Init, ParallelInv

LEMMA RunningNext ==
  ASSUME UNCHANGED <<outcome, workers>>
  PROVE  /\ BatchOK => BatchOK' /\ N' = N
         /\ RunningIn(thread', main', handle', output', pending', result') => Running'
BY DEF BatchOK, Running, RunningIn, ThreadOK, ClosureReturned, Chunks, ChunkCount,
       ChunkSize, WorkerCount, FirstItem, LastItem, N

(* the steps of a call on a batch that is not empty *)
LEMMA StepInv ==
  ASSUME ParallelInv, N # 0, main # "start",
         UNCHANGED <<outcome, workers>>,
         main' \in {"spawning", "joining", "leaving", "returned"},
         main' # "returned" => result' = OM!Pending,
         RunningIn(thread', main', handle', output', pending', result')
  PROVE  ParallelInv'
<1>1. BatchOK' /\ N' = N /\ Running'
  BY RunningNext DEF ParallelInv
<1>2. QED
  BY <1>1 DEF ParallelInv

LEMMA StartInv ==
  ASSUME ParallelInv, ReturnEmpty \/ EnterScope
  PROVE  ParallelInv'
<1>1. CASE ReturnEmpty
  BY <1>1 DEF ReturnEmpty, ParallelInv, BatchOK, N
<1>2. CASE EnterScope
  <2> USE <1>2 DEF EnterScope
  <2>1. BatchOK /\ N # 0 /\ output = <<>> /\ result = OM!Pending
    BY DEF ParallelInv
  <2>2. Layout
    BY <2>1, ChunkLayout
  <2>3. ASSUME NEW c \in Chunks
        PROVE  ThreadOK(c, thread'[c])
    <3>1. FirstItem(c) \in Nat \ {0} /\ FirstItem(c) <= LastItem(c) /\ LastItem(c) \in Nat
      BY <2>2 DEF Layout
    <3>2. Items(FirstItem(c), FirstItem(c) - 1) = <<>> /\ <<>> \in Seq(Nat)
      BY <3>1, ItemsEmpty, EmptySeq
    <3>3. thread'[c] = [state |-> "unspawned", item |-> FirstItem(c), mapped |-> <<>>]
      OBVIOUS
    <3>4. QED
      BY <3>1, <3>2, <3>3 DEF ThreadOK, Threads, ThreadStates
  <2>4. thread' \in [Chunks -> Threads]
    <3>1. \A c \in Chunks : thread'[c] \in Threads
      BY <2>3 DEF ThreadOK
    <3>2. QED
      BY <3>1
  <2>5. 1 \in Chunks
    BY <2>2 DEF Layout, Chunks
  <2>6. RunningIn(thread', main', handle', output', pending', result')
    <3>1. \A c \in Chunks : thread'[c].state = "unspawned"
      OBVIOUS
    <3>2. QED
      BY <2>1, <2>3, <2>4, <2>5, <3>1 DEF RunningIn
  <2>7. BatchOK' /\ N' = N /\ Running'
    BY <2>1, <2>6, RunningNext
  <2>8. QED
    BY <2>1, <2>7 DEF ParallelInv
<1>3. QED
  BY <1>1, <1>2

LEMMA SpawnInv ==
  ASSUME ParallelInv, Spawn
  PROVE  ParallelInv'
<1> USE DEF Spawn
<1>1. /\ BatchOK /\ N # 0 /\ main = "spawning" /\ result = OM!Pending
      /\ RunningIn(thread, main, handle, output, pending, result)
  BY DEF ParallelInv, Running
<1>2. Layout
  BY <1>1, ChunkLayout
<1>3. /\ handle \in Chunks /\ output = <<>> /\ ChunkCount \in Nat \ {0}
      /\ thread \in [Chunks -> Threads]
      /\ \A c \in Chunks : ThreadOK(c, thread[c])
      /\ \A c \in Chunks : c >= handle => thread[c].state = "unspawned"
  BY <1>1, <1>2 DEF RunningIn, Layout
<1>4. handle \in Nat \ {0} /\ handle <= ChunkCount
  BY <1>3 DEF Chunks
<1>5. ASSUME NEW c \in Chunks PROVE ThreadOK(c, thread'[c])
  <2>1. thread[c] \in Threads /\ ThreadOK(c, thread[c])
    BY <1>3
  <2>2. CASE c = handle
    <3>1. thread'[c] = [thread[c] EXCEPT !.state = "running"] /\ thread[c].state = "unspawned"
      BY <1>3, <1>4, <2>2
    <3>2. /\ thread'[c] \in Threads /\ thread'[c].state = "running"
          /\ thread'[c].item = thread[c].item /\ thread'[c].mapped = thread[c].mapped
      BY <2>1, <3>1 DEF Threads, ThreadStates
    <3>3. QED
      BY <2>1, <3>1, <3>2 DEF ThreadOK
  <2>3. CASE c # handle
    BY <1>3, <2>1, <2>3
  <2>4. QED
    BY <2>2, <2>3
<1>6. thread' \in [Chunks -> Threads]
  <2>1. DOMAIN thread' = Chunks
    BY <1>3
  <2>2. thread' = [c \in Chunks |-> thread'[c]]
    BY <1>3
  <2>3. \A c \in Chunks : thread'[c] \in Threads
    BY <1>5 DEF ThreadOK
  <2>4. QED
    BY <2>2, <2>3
<1>7. CASE handle < ChunkCount
  <2>1. handle' = handle + 1 /\ main' = "spawning" /\ output' = <<>> /\ result' = OM!Pending
    BY <1>1, <1>3, <1>7
  <2>2. handle + 1 \in Chunks
    BY <1>3, <1>4, <1>7 DEF Chunks
  <2>3. \A c \in Chunks : c >= handle + 1 => thread'[c].state = "unspawned"
    BY <1>3, <1>4 DEF Chunks
  <2>4. RunningIn(thread', main', handle', output', pending', result')
    BY <1>5, <1>6, <2>1, <2>2, <2>3 DEF RunningIn
  <2>5. QED
    BY <1>1, <2>1, <2>4, StepInv
<1>8. CASE ~(handle < ChunkCount)
  <2>1. handle' = 1 /\ main' = "joining" /\ output' = <<>> /\ result' = OM!Pending
    BY <1>1, <1>3, <1>8
  <2>2. 1 \in Chunks /\ FirstItem(1) = 1
    BY <1>2, <1>3 DEF Chunks, Layout
  <2>3. Items(1, FirstItem(1) - 1) = <<>>
    BY <2>2, ItemsEmpty
  <2>4. RunningIn(thread', main', handle', output', pending', result')
    BY <1>5, <1>6, <2>1, <2>2, <2>3 DEF RunningIn
  <2>5. QED
    BY <1>1, <2>1, <2>4, StepInv
<1>9. QED
  BY <1>7, <1>8

LEMMA WorkInv ==
  ASSUME ParallelInv, NEW c \in DOMAIN thread, Work(c)
  PROVE  ParallelInv'
<1> USE DEF Work
<1>1. thread # <<>> /\ main # "start"
  <2>1. thread = <<>> => DOMAIN thread = {}
    OBVIOUS
  <2>2. QED
    BY <2>1 DEF ParallelInv
<1>2. N # 0
  BY <1>1 DEF ParallelInv, Work
<1>3. /\ BatchOK /\ RunningIn(thread, main, handle, output, pending, result)
  BY <1>1, <1>2 DEF ParallelInv, Running
<1>4. Layout
  BY <1>2, <1>3, ChunkLayout
<1>5. /\ thread \in [Chunks -> Threads]
      /\ \A d \in Chunks : ThreadOK(d, thread[d])
      /\ c \in Chunks
  BY <1>3 DEF RunningIn
<1> DEFINE t == thread[c]
           s == thread'[c]
<1>6. /\ t.state = "running" /\ t \in Threads /\ ThreadOK(c, t)
      /\ \A d \in Chunks : d # c => thread'[d] = thread[d]
      /\ UNCHANGED <<outcome, workers, main, handle, output, pending, result>>
      /\ s = IF outcome[t.item] # "ok" THEN [t EXCEPT !.state = outcome[t.item]]
             ELSE [state  |-> IF t.item = LastItem(c) THEN "ok" ELSE "running",
                   item   |-> t.item + 1,
                   mapped |-> Append(t.mapped, t.item)]
      /\ thread' = [d \in Chunks |-> thread'[d]]
  BY <1>5
<1>7. /\ FirstItem(c) \in Nat \ {0} /\ LastItem(c) \in Nat
      /\ FirstItem(c) <= LastItem(c) /\ LastItem(c) <= N
  BY <1>4, <1>5 DEF Layout
<1> HIDE DEF t, s
<1>8. /\ t.item \in FirstItem(c)..LastItem(c) /\ t.mapped = Items(FirstItem(c), t.item - 1)
      /\ t.mapped \in Seq(Nat) /\ t.item \in Nat
      /\ \A i \in FirstItem(c)..(t.item - 1) : outcome[i] = "ok"
  BY <1>6 DEF ThreadOK, Threads
<1>9. ThreadOK(c, s)
  <2>1. CASE outcome[t.item] # "ok"
    <3>1. t.item \in 1..N
      BY <1>7, <1>8, <1>3 DEF BatchOK, N
    <3>2. outcome[t.item] \in {"err", "panic"}
      BY <1>3, <2>1, <3>1, OutcomesAssumption DEF BatchOK, N
    <3>3. /\ s \in Threads /\ s.state = outcome[t.item] /\ s.item = t.item
          /\ s.mapped = t.mapped
      BY <1>6, <2>1, <3>2 DEF Threads, ThreadStates
    <3>4. QED
      BY <1>8, <3>2, <3>3 DEF ThreadOK
  <2>2. CASE outcome[t.item] = "ok"
    <3>1. /\ s.state = (IF t.item = LastItem(c) THEN "ok" ELSE "running")
          /\ s.item = t.item + 1 /\ s.mapped = Append(t.mapped, t.item)
          /\ s = [state |-> s.state, item |-> s.item, mapped |-> s.mapped]
      BY <1>6, <2>2
    <3>2. s.mapped = Items(FirstItem(c), t.item)
      BY SMTT(30), <1>7, <1>8, <3>1, ItemsAppend
    <3>3. s.mapped \in Seq(Nat) /\ s.item \in Nat /\ s.item - 1 = t.item
      <4>1. t.item \in Nat /\ t.mapped \in Seq(Nat)
        BY <1>8
      <4>2. s.mapped \in Seq(Nat)
        BY <3>1, <4>1, AppendProperties
      <4>3. s.item \in Nat /\ s.item - 1 = t.item
        BY <3>1, <4>1
      <4>4. QED
        BY <4>2, <4>3
    <3>4. s \in Threads
      BY <3>1, <3>3 DEF Threads, ThreadStates
    <3>5. \A i \in FirstItem(c)..t.item : outcome[i] = "ok"
      BY <1>7, <1>8, <2>2
    <3>6. s.state # "ok" => s.item \in FirstItem(c)..LastItem(c)
      BY <1>7, <1>8, <3>1
    <3>7. s.state = "ok" => s.item = LastItem(c) + 1
      BY <1>7, <1>8, <3>1
    <3>8. s.state \notin {"err", "panic"}
      BY <3>1
    <3>9. QED
      BY <3>2, <3>3, <3>4, <3>5, <3>6, <3>7, <3>8 DEF ThreadOK
  <2>3. QED
    BY <2>1, <2>2
<1>10. \A d \in Chunks : ThreadOK(d, thread'[d]) /\ thread'[d] \in Threads
  BY <1>5, <1>6, <1>9 DEF s, ThreadOK
<1>11. thread' \in [Chunks -> Threads]
  BY <1>6, <1>10
<1>12. \A d \in Chunks : thread[d].state # "running" => thread'[d] = thread[d]
  BY <1>6 DEF t
<1>13. main = "spawning" => \A d \in Chunks : d >= handle => thread'[d].state = "unspawned"
  BY <1>3, <1>12 DEF RunningIn
<1>14. main = "joining" => \A d \in 1..(handle - 1) : thread'[d].state = "ok"
  <2>1. main = "joining" => /\ \A d \in 1..(handle - 1) : thread[d].state = "ok"
                            /\ handle \in Chunks
    BY <1>3 DEF RunningIn
  <2>2. main = "joining" => 1..(handle - 1) \subseteq Chunks
    BY <1>4, <2>1 DEF Chunks, Layout
  <2>3. QED
    BY <1>12, <2>1, <2>2
<1>15. main \in {"leaving", "returned"} =>
         handle \in Nat /\ ClosureReturned(thread', pending, handle - 1)
  <2>1. SUFFICES ASSUME main \in {"leaving", "returned"}
                 PROVE  handle \in Nat /\ ClosureReturned(thread', pending, handle - 1)
    OBVIOUS
  <2> DEFINE h == handle - 1
  <2>2. handle \in Nat /\ ClosureReturned(thread, pending, h)
    BY <1>3, <2>1 DEF RunningIn
  <2> HIDE DEF h
  <2>3. h \in Chunks /\ 1..(h - 1) \subseteq Chunks
    BY <1>4, <2>2 DEF Chunks, Layout, ClosureReturned
  <2>4. \A d \in 1..(h - 1) : thread'[d].state = "ok"
    BY <1>12, <2>2, <2>3 DEF ClosureReturned
  <2>5. thread'[h] = thread[h]
    BY <1>12, <2>2, <2>3 DEF ClosureReturned
  <2>6. ClosureReturned(thread', pending, h)
    BY <2>2, <2>4, <2>5 DEF ClosureReturned
  <2>7. QED
    BY <2>2, <2>6 DEF h
<1>16. main # "returned"
  BY <1>3, <1>5, <1>6 DEF RunningIn, t
<1>17. RunningIn(thread', main', handle', output', pending', result')
  BY ZenonT(60), <1>3, <1>6, <1>10, <1>11, <1>13, <1>14, <1>15, <1>16 DEF RunningIn
<1>18. main \in {"spawning", "joining", "leaving"} /\ result = OM!Pending
  BY <1>1, <1>16 DEF ParallelInv
<1>19. QED
  BY <1>1, <1>2, <1>6, <1>16, <1>17, <1>18, StepInv

LEMMA JoinInv ==
  ASSUME ParallelInv, Join
  PROVE  ParallelInv'
<1> DEFINE t == thread[handle]
<1>1. /\ BatchOK /\ N # 0 /\ main = "joining" /\ result = OM!Pending
      /\ RunningIn(thread, main, handle, output, pending, result)
  BY DEF Join, ParallelInv, Running
<1>2. Layout
  BY <1>1, ChunkLayout
<1>3. /\ handle \in Chunks /\ ChunkCount \in Nat \ {0}
      /\ output = Items(1, FirstItem(handle) - 1)
      /\ thread \in [Chunks -> Threads]
      /\ \A c \in Chunks : ThreadOK(c, thread[c])
      /\ \A c \in 1..(handle - 1) : thread[c].state = "ok"
  BY <1>1, <1>2 DEF RunningIn, Layout
<1>4. handle \in Nat \ {0} /\ handle <= ChunkCount /\ handle + 1 - 1 = handle
  BY <1>3 DEF Chunks
<1>5. /\ t.state \in {"ok", "err", "panic"} /\ handle' = handle + 1
      /\ UNCHANGED <<outcome, workers, thread, result>>
      /\ IF t.state = "panic"
         THEN main' = "leaving" /\ pending' = OM!WorkerPanic /\ UNCHANGED output
         ELSE IF t.state = "err"
         THEN main' = "leaving" /\ pending' = OM!Failed(t.item) /\ UNCHANGED output
         ELSE /\ output' = output \o t.mapped
              /\ IF handle < ChunkCount THEN UNCHANGED <<main, pending>>
                 ELSE main' = "leaving" /\ pending' = OM!Mapped(output')
  BY DEF Join, Finished, Collected
<1>6. /\ t \in Threads /\ ThreadOK(handle, t)
  BY <1>3
<1> HIDE DEF t
<1>7. /\ FirstItem(handle) \in Nat \ {0} /\ LastItem(handle) \in Nat
      /\ FirstItem(handle) <= LastItem(handle)
  BY <1>2, <1>3 DEF Layout
<1>8. CASE t.state = "panic" \/ t.state = "err"
  <2>1. main' = "leaving" /\ thread' = thread /\ result' = OM!Pending
    BY <1>1, <1>5, <1>8
  <2>2. ClosureReturned(thread, pending', handle)
    BY <1>3, <1>5, <1>8 DEF ClosureReturned, t
  <2>3. handle' \in Nat /\ handle' - 1 = handle
    BY <1>4, <1>5
  <2>4. RunningIn(thread', main', handle', output', pending', result')
    BY <1>3, <2>1, <2>2, <2>3 DEF RunningIn
  <2>5. QED
    BY <1>1, <1>5, <2>1, <2>4, StepInv
<1>9. CASE t.state = "ok"
  <2>1. t.mapped = Items(FirstItem(handle), LastItem(handle))
    BY <1>6, <1>7, <1>9 DEF ThreadOK
  <2>2. output' = Items(1, LastItem(handle))
    <3>1. output' = Items(1, FirstItem(handle) - 1) \o Items(FirstItem(handle), LastItem(handle))
      BY <1>3, <1>5, <1>9, <2>1
    <3>2. FirstItem(handle) <= LastItem(handle) + 1
      BY <1>7
    <3>3. Items(1, FirstItem(handle) - 1) \o Items(FirstItem(handle), LastItem(handle))
            = Items(1, LastItem(handle))
      BY <1>7, <3>2, ItemsConcat
    <3>4. QED
      BY <3>1, <3>3
  <2>3. \A c \in 1..handle : thread[c].state = "ok"
    BY <1>3, <1>4, <1>9 DEF t
  <2>4. CASE handle < ChunkCount
    <3>1. main' = "joining" /\ thread' = thread /\ result' = OM!Pending
      BY <1>1, <1>5, <1>9, <2>4
    <3>2. handle + 1 \in Chunks
      BY <1>4, <1>3, <2>4 DEF Chunks
    <3>3. FirstItem(handle + 1) - 1 = LastItem(handle)
      BY <1>2, <1>3, <1>7, <2>4 DEF Layout
    <3>4. RunningIn(thread', main', handle', output', pending', result')
      BY <1>3, <1>4, <1>5, <2>2, <2>3, <3>1, <3>2, <3>3 DEF RunningIn
    <3>5. QED
      BY <1>1, <1>5, <3>1, <3>4, StepInv
  <2>5. CASE ~(handle < ChunkCount)
    <3>1. /\ main' = "leaving" /\ thread' = thread /\ result' = OM!Pending
          /\ pending' = OM!Mapped(output')
      BY <1>1, <1>5, <1>9, <2>5
    <3>2. handle = ChunkCount /\ LastItem(handle) = N
      BY <1>2, <1>3, <1>4, <2>5 DEF Layout
    <3>3. ClosureReturned(thread, pending', handle)
      BY <1>3, <1>9, <2>2, <3>1, <3>2 DEF ClosureReturned, t
    <3>4. handle' \in Nat /\ handle' - 1 = handle
      BY <1>4, <1>5
    <3>5. RunningIn(thread', main', handle', output', pending', result')
      BY <1>3, <3>1, <3>3, <3>4 DEF RunningIn
    <3>6. QED
      BY <1>1, <1>5, <3>1, <3>5, StepInv
  <2>6. QED
    BY <2>4, <2>5
<1>10. QED
  BY <1>5, <1>8, <1>9

LEMMA LeaveInv ==
  ASSUME ParallelInv, LeaveScope
  PROVE  ParallelInv'
<1>1. /\ BatchOK /\ N # 0 /\ main = "leaving"
      /\ RunningIn(thread, main, handle, output, pending, result)
  BY DEF LeaveScope, ParallelInv, Running
<1>2. /\ main' = "returned" /\ \A c \in Chunks : thread[c].state \in {"ok", "err", "panic"}
      /\ result' = IF \E c \in Chunks : c >= handle /\ thread[c].state = "panic"
                   THEN OM!Unwind ELSE pending
      /\ UNCHANGED <<outcome, workers, thread, handle, output, pending>>
  BY DEF LeaveScope, Finished, Unjoined
<1>3. RunningIn(thread', main', handle', output', pending', result')
  BY <1>1, <1>2 DEF RunningIn
<1>4. QED
  BY <1>1, <1>2, <1>3, StepInv

LEMMA ParallelStep ==
  ASSUME ParallelInv, [Next]_pvars
  PROVE  ParallelInv'
<1>1. CASE Spawn
  BY <1>1, SpawnInv
<1>2. CASE Join
  BY <1>2, JoinInv
<1>3. CASE LeaveScope
  BY <1>3, LeaveInv
<1>4. CASE ReturnEmpty \/ EnterScope
  BY <1>4, StartInv
<1>5. ASSUME NEW c \in DOMAIN thread, Work(c) PROVE ParallelInv'
  BY <1>5, WorkInv
<1>6. CASE UNCHANGED pvars
  <2>1. UNCHANGED <<outcome, workers, thread, main, handle, output, pending, result>>
    BY <1>6 DEF pvars
  <2>2. BatchOK' /\ N' = N /\ (Running => Running')
    BY <2>1, RunningNext DEF ParallelInv, Running
  <2>3. QED
    BY <2>1, <2>2 DEF ParallelInv
<1>7. QED
  BY <1>1, <1>2, <1>3, <1>4, <1>5, <1>6 DEF Next, Caller

(* Whatever the schedule, a thread has mapped the items of its chunk up to   *)
(* the first that fails, and the caller has collected the chunks in order.   *)
THEOREM ParallelInvariant == Spec => []ParallelInv
<1>1. ParallelInv /\ [Next]_pvars => ParallelInv'
  BY ParallelStep
<1>2. QED
  BY <1>1, ParallelInit, PTL DEF Spec

---------------------------------------------------------------------------
(* The result *)

(* A chunk that has run holds a failure exactly if it did not end "ok", and  *)
(* its item is then its first one                                           *)
LEMMA ChunkFailures ==
  ASSUME BatchOK, N # 0,
         NEW c \in Chunks, NEW t, ThreadOK(c, t), t.state \in {"ok", "err", "panic"}
  PROVE  /\ t.state = "ok" => \A i \in Failures : ChunkOf(i) # c
         /\ t.state # "ok" => /\ t.item \in Failures /\ ChunkOf(t.item) = c
                              /\ outcome[t.item] = t.state
                              /\ \A i \in Failures : ChunkOf(i) = c => t.item <= i
                              /\ FirstIn(c) = {t.item}
<1>1. Layout
  BY ChunkLayout
<1>2. /\ FirstItem(c) \in Nat \ {0} /\ LastItem(c) \in Nat
      /\ FirstItem(c) <= LastItem(c) /\ LastItem(c) <= N /\ N \in Nat
      /\ \A i \in FirstItem(c)..LastItem(c) : ChunkOf(i) = c
  BY <1>1 DEF Layout, BatchOK, N
<1>3. DOMAIN outcome = 1..N
  BY DEF BatchOK, N
<1>4. ASSUME NEW i \in Failures, ChunkOf(i) = c
      PROVE  i \in FirstItem(c)..LastItem(c) /\ outcome[i] # "ok" /\ i \in Nat
  BY <1>1, <1>3, <1>4 DEF Layout, Failures, OM!Failures
<1>5. /\ t.item \in Nat /\ \A i \in FirstItem(c)..(t.item - 1) : outcome[i] = "ok"
      /\ t.state = "ok" => t.item = LastItem(c) + 1
      /\ t.state # "ok" => t.item \in FirstItem(c)..LastItem(c)
      /\ t.state \in {"err", "panic"} => outcome[t.item] = t.state
  BY DEF ThreadOK, Threads
<1>6. ASSUME t.state = "ok", NEW i \in Failures, ChunkOf(i) = c PROVE FALSE
  BY <1>2, <1>4, <1>5, <1>6
<1>7. ASSUME t.state # "ok"
      PROVE  /\ t.item \in Failures /\ ChunkOf(t.item) = c
             /\ outcome[t.item] = t.state
             /\ \A i \in Failures : ChunkOf(i) = c => t.item <= i
             /\ FirstIn(c) = {t.item}
  <2>1. outcome[t.item] = t.state /\ t.item \in FirstItem(c)..LastItem(c)
    BY <1>5, <1>7
  <2>2. ChunkOf(t.item) = c /\ t.item \in 1..N
    BY <1>2, <2>1
  <2>3. t.item \in Failures
    BY <1>3, <1>7, <2>1, <2>2 DEF Failures, OM!Failures
  <2>4. ASSUME NEW i \in Failures, ChunkOf(i) = c PROVE t.item <= i
    BY <1>2, <1>4, <1>5, <2>4
  <2>5. FirstIn(c) \subseteq {t.item}
    <3>1. SUFFICES ASSUME NEW i \in Failures, ChunkOf(i) = c, i <= t.item
                   PROVE  i = t.item
      BY <2>2, <2>3 DEF FirstIn
    <3>2. t.item <= i /\ i \in Nat
      BY <1>4, <2>4, <3>1
    <3>3. QED
      BY <1>5, <3>1, <3>2
  <2>6. t.item \in FirstIn(c)
    BY <2>2, <2>3, <2>4 DEF FirstIn
  <2>7. QED
    BY <2>1, <2>2, <2>3, <2>4, <2>5, <2>6
<1>8. QED
  BY <1>6, <1>7

(* What the call returned: the first failure of the batch decides, unless a  *)
(* later chunk panicked                                                     *)
ReturnedFor(h) ==
  LET t == thread[h]
  IN  /\ h \in Chunks
      /\ t.item \in Failures /\ \A i \in Failures : t.item <= i
      /\ ChunkOf(t.item) = h
      /\ outcome[t.item] = t.state /\ t.state \in {"err", "panic"}
      /\ result = IF \E c \in Chunks : c > h /\ \E i \in FirstIn(c) : outcome[i] = "panic"
                  THEN OM!Unwind
                  ELSE IF t.state = "panic" THEN OM!WorkerPanic ELSE OM!Failed(t.item)

LEMMA Returned ==
  ASSUME ParallelInv, main = "returned", N # 0
  PROVE  \/ Failures = {} /\ result = OM!Mapped([i \in 1..N |-> i])
         \/ \E h : ReturnedFor(h)
<1>1. /\ BatchOK /\ RunningIn(thread, main, handle, output, pending, result)
  BY DEF ParallelInv, Running
<1>2. Layout
  BY <1>1, ChunkLayout
<1> DEFINE h == handle - 1
<1>3. /\ \A c \in Chunks : ThreadOK(c, thread[c])
      /\ \A c \in Chunks : thread[c].state \in {"ok", "err", "panic"}
      /\ handle \in Nat /\ ClosureReturned(thread, pending, h)
      /\ result = IF \E c \in Chunks : c >= handle /\ thread[c].state = "panic"
                  THEN OM!Unwind ELSE pending
  BY <1>1 DEF RunningIn
<1>4. h \in Chunks /\ \A c \in Chunks : c < h => thread[c].state = "ok"
  BY <1>3 DEF ClosureReturned, Chunks
<1>5. Chunks = 1..ChunkCount /\ ChunkCount \in Nat \ {0}
  BY <1>2 DEF Layout, Chunks
<1>6. \A c \in Chunks : c >= handle <=> c > h
  BY <1>3, <1>5
<1> HIDE DEF h
<1>7. \A i \in Failures : i \in 1..N /\ ChunkOf(i) \in Chunks
                          /\ i \in FirstItem(ChunkOf(i))..LastItem(ChunkOf(i))
  BY <1>1, <1>2 DEF Failures, OM!Failures, Layout, BatchOK, N
<1>8. CASE thread[h].state = "ok"
  <2>1. h = ChunkCount /\ pending = OM!Mapped(Items(1, N))
    BY <1>3, <1>8 DEF ClosureReturned
  <2>2. \A c \in Chunks : thread[c].state = "ok" /\ ~(c > h)
    BY <1>4, <1>5, <1>8, <2>1
  <2>3. Failures = {}
    <3>1. SUFFICES ASSUME NEW i \in Failures PROVE FALSE
      OBVIOUS
    <3>2. ChunkOf(i) \in Chunks
      BY <1>7
    <3>3. QED
      BY <1>1, <1>3, <2>2, <3>2, ChunkFailures
  <2>4. result = OM!Mapped(Items(1, N))
    BY <1>3, <1>6, <2>1, <2>2
  <2>5. Items(1, N) = [i \in 1..N |-> i]
    <3>1. N \in Nat
      BY <1>1 DEF BatchOK, N
    <3>2. N - 1 + 1 = N /\ \A k \in 1..N : 1 + k - 1 = k
      BY <3>1
    <3>3. QED
      BY <3>2 DEF Items
  <2>6. QED
    BY <2>3, <2>4, <2>5
<1>9. CASE thread[h].state # "ok"
  <2> DEFINE t == thread[h]
  <2>1. t.state \in {"err", "panic"} /\ ThreadOK(h, t)
    BY <1>3, <1>4, <1>9
  <2>2. /\ t.item \in Failures /\ ChunkOf(t.item) = h /\ outcome[t.item] = t.state
        /\ \A i \in Failures : ChunkOf(i) = h => t.item <= i
    BY <1>1, <1>3, <1>4, <1>9, <2>1, ChunkFailures
  <2>3. pending = IF t.state = "panic" THEN OM!WorkerPanic ELSE OM!Failed(t.item)
    BY <1>3, <2>1 DEF ClosureReturned
  <2> HIDE DEF t
  <2>4. ASSUME NEW i \in Failures PROVE t.item <= i
    <3> DEFINE c == ChunkOf(i)
    <3>1. c \in Chunks /\ i \in FirstItem(c)..LastItem(c)
      BY <1>7
    <3>2. ~(c < h)
      BY <1>1, <1>3, <1>4, <3>1, ChunkFailures
    <3> HIDE DEF c
    <3>3. CASE c = h
      BY <2>2, <3>3 DEF c
    <3>4. CASE c > h
      <4>1. LastItem(h) < FirstItem(c)
        BY <1>2, <1>4, <3>1, <3>4 DEF Layout
      <4>2. t.item \in FirstItem(h)..LastItem(h)
        BY <1>7, <2>2
      <4>3. /\ FirstItem(h) \in Nat /\ LastItem(h) \in Nat /\ FirstItem(c) \in Nat
            /\ LastItem(c) \in Nat
        BY <1>2, <1>4, <3>1 DEF Layout
      <4>4. QED
        BY <3>1, <4>1, <4>2, <4>3
    <3>5. QED
      BY <1>4, <1>5, <3>1, <3>2, <3>3, <3>4
  <2>5. ASSUME NEW c \in Chunks
        PROVE  thread[c].state = "panic" <=> \E i \in FirstIn(c) : outcome[i] = "panic"
    <3>1. CASE thread[c].state = "ok"
      <4>1. \A i \in Failures : ChunkOf(i) # c
        BY <1>1, <1>3, <3>1, ChunkFailures
      <4>2. FirstIn(c) = {}
        BY <4>1 DEF FirstIn
      <4>3. QED
        BY <3>1, <4>2
    <3>2. CASE thread[c].state # "ok"
      <4>1. FirstIn(c) = {thread[c].item} /\ outcome[thread[c].item] = thread[c].state
        BY <1>1, <1>3, <3>2, ChunkFailures
      <4>2. QED
        BY <4>1
    <3>3. QED
      BY <3>1, <3>2
  <2>6. (\E c \in Chunks : c >= handle /\ thread[c].state = "panic")
          <=> \E c \in Chunks : c > h /\ \E i \in FirstIn(c) : outcome[i] = "panic"
    BY <1>6, <2>5
  <2>7. ReturnedFor(h)
    BY <1>3, <1>4, <2>1, <2>2, <2>3, <2>4, <2>6 DEF ReturnedFor, t
  <2>8. QED
    BY <2>7
<1>10. QED
  BY <1>8, <1>9

(* the first failure, as OrderedMap and ScheduleIndependent choose it *)
LEMMA FirstFailure ==
  ASSUME BatchOK, NEW f \in Failures, \A i \in Failures : f <= i
  PROVE  (CHOOSE i \in Failures : \A j \in Failures : i <= j) = f
<1> DEFINE c == CHOOSE i \in Failures : \A j \in Failures : i <= j
<1>1. Failures \subseteq Nat
  BY DEF BatchOK, Failures, OM!Failures
<1>2. c \in Failures /\ \A j \in Failures : c <= j
  OBVIOUS
<1> HIDE DEF c
<1>3. c = f
  BY <1>1, <1>2
<1>4. QED
  BY <1>3 DEF c

LEMMA EmptyBatch ==
  ASSUME BatchOK, N = 0
  PROVE  Failures = {} /\ [i \in DOMAIN outcome |-> i] = <<>>
<1>1. DOMAIN outcome = {}
  BY DEF BatchOK, N
<1>2. [i \in DOMAIN outcome |-> i] = <<>>
  BY <1>1
<1>3. QED
  BY <1>1, <1>2 DEF Failures, OM!Failures

LEMMA InvIndependent == ParallelInv => ScheduleIndependent
<1> DEFINE first == CHOOSE i \in Failures : \A j \in Failures : i <= j
           later == \E c \in Chunks : c > ChunkOf(first) /\
                      \E i \in FirstIn(c) : outcome[i] = "panic"
<1>1. SUFFICES ASSUME ParallelInv, main = "returned", Failures # {}
               PROVE  result = IF later THEN OM!Unwind
                               ELSE IF outcome[first] = "panic" THEN OM!WorkerPanic
                               ELSE OM!Failed(first)
  BY DEF ScheduleIndependent
<1>2. BatchOK
  BY <1>1 DEF ParallelInv
<1>3. N # 0
  BY <1>1, <1>2, EmptyBatch
<1>4. PICK h : ReturnedFor(h)
  BY <1>1, <1>3, Returned
<1>5. thread[h].item = first
  BY <1>2, <1>4, FirstFailure DEF ReturnedFor
<1>6. h = ChunkOf(first) /\ outcome[first] = thread[h].state
  BY <1>4, <1>5 DEF ReturnedFor
<1> HIDE DEF first
<1>7. QED
  BY <1>4, <1>5, <1>6 DEF ReturnedFor

(* With panics too, what parallel_map returns depends on the batch and the   *)
(* worker count, never on the schedule.                                     *)
THEOREM ParallelScheduleIndependent == Spec => []ScheduleIndependent
BY ParallelInvariant, InvIndependent, PTL

---------------------------------------------------------------------------
(* Refinement *)

ReturnsOne == main = "returned" => result \in OM!Sequential

LEMMA ReturnsSequential == ParallelInv => ReturnsOne
<1> SUFFICES ASSUME ParallelInv, main = "returned" PROVE result \in OM!Sequential
  BY DEF ReturnsOne
<1>1. BatchOK
  BY DEF ParallelInv
<1>2. CASE N = 0
  <2>1. result = OM!Mapped(<<>>)
    BY <1>2 DEF ParallelInv
  <2>2. OM!Failures = {} /\ [i \in DOMAIN outcome |-> i] = <<>>
    BY <1>1, <1>2, EmptyBatch DEF Failures
  <2>3. QED
    BY <2>1, <2>2 DEF OM!Sequential
<1>3. CASE N # 0 /\ Failures = {}
  <2>1. ~ \E h : ReturnedFor(h)
    BY <1>3 DEF ReturnedFor
  <2>2. result = OM!Mapped([i \in 1..N |-> i]) /\ DOMAIN outcome = 1..N
    BY <1>1, <1>3, <2>1, Returned DEF BatchOK, N
  <2>3. QED
    BY <1>3, <2>2 DEF OM!Sequential, Failures
<1>4. CASE N # 0 /\ Failures # {}
  <2>1. PICK h : ReturnedFor(h)
    BY <1>4, Returned
  <2> DEFINE f == thread[h].item
  <2>2. /\ f \in OM!Failures /\ h = ChunkOf(f)
        /\ (CHOOSE i \in OM!Failures : \A j \in OM!Failures : i <= j) = f
        /\ outcome[f] \in {"err", "panic"} /\ outcome[f] = thread[h].state
    BY <1>1, <2>1, FirstFailure DEF ReturnedFor, Failures
  <2> HIDE DEF f
  <2>3. OM!Sequential =
          {IF outcome[f] = "err" THEN OM!Failed(f) ELSE OM!WorkerPanic} \union
          {OM!Unwind : i \in {j \in OM!Failures : j > f /\ outcome[j] = "panic"}}
    BY <2>2 DEF OM!Sequential
  <2>4. CASE \E c \in Chunks : c > h /\ \E i \in FirstIn(c) : outcome[i] = "panic"
    <3>0. PICK c \in Chunks : c > h /\ \E i \in FirstIn(c) : outcome[i] = "panic"
      BY <2>4
    <3>1. PICK i \in FirstIn(c) : c > h /\ outcome[i] = "panic"
      BY <3>0
    <3>2. i \in OM!Failures /\ i # f /\ f <= i
      BY <2>1, <2>2, <3>1 DEF FirstIn, ReturnedFor, Failures, Chunks, f
    <3>3. i \in Nat /\ f \in Nat
      BY SMTT(30), <1>1, <2>2, <3>2 DEF OM!Failures, BatchOK
    <3>4. i \in {j \in OM!Failures : j > f /\ outcome[j] = "panic"}
      BY <3>1, <3>2, <3>3
    <3>5. result = OM!Unwind
      BY <2>1, <2>4 DEF ReturnedFor
    <3>6. QED
      BY <2>3, <3>4, <3>5
  <2>5. CASE ~ \E c \in Chunks : c > h /\ \E i \in FirstIn(c) : outcome[i] = "panic"
    <3>1. result = IF outcome[f] = "err" THEN OM!Failed(f) ELSE OM!WorkerPanic
      BY <2>1, <2>2, <2>5 DEF ReturnedFor, f
    <3>2. QED
      BY <2>3, <3>1
  <2>6. QED
    BY <2>4, <2>5
<1>5. QED
  BY <1>2, <1>3, <1>4

(* The one step that the abstract call sees is the return of parallel_map *)
LEMMA StepRefines ==
  ASSUME ParallelInv, ReturnsOne', [Next]_pvars
  PROVE  [OM!Return]_<<outcome, result>>
<1>1. UNCHANGED outcome
  BY DEF Next, Caller, ReturnEmpty, EnterScope, Spawn, Join, LeaveScope, Work, pvars
<1>2. CASE main' # "returned" \/ main = "returned"
  <2>1. UNCHANGED result
    BY <1>2 DEF Next, Caller, ReturnEmpty, EnterScope, Spawn, Join, LeaveScope, Work, pvars
  <2>2. QED
    BY <1>1, <2>1
<1>3. CASE main' = "returned" /\ main # "returned"
  <2>1. result = OM!Pending
    BY <1>3 DEF ParallelInv
  <2>2. result' \in OM!Sequential'
    BY <1>3 DEF ReturnsOne
  <2>3. OM!Sequential' = OM!Sequential
    BY <1>1 DEF OM!Sequential, OM!Failures
  <2>4. QED
    BY <1>1, <2>1, <2>2, <2>3 DEF OM!Return
<1>4. QED
  BY <1>2, <1>3

(* parallel_map implements the sequential map: the items in order, or the    *)
(* error of the first failing item, for every batch, every number of workers *)
(* and every schedule.                                                       *)
THEOREM ParallelImplements == Spec => ImplementsOrderedMap
<1>1. Init => OM!Init
  BY DEF Init, OM!Init
<1>2. ParallelInv /\ ReturnsOne' /\ [Next]_pvars => [OM!Return]_<<outcome, result>>
  BY StepRefines
<1>3. QED
  BY <1>1, <1>2, ParallelInvariant, ReturnsSequential, PTL
  DEF Spec, ImplementsOrderedMap, OM!Spec

---------------------------------------------------------------------------
(* Reconciliation *)

(***************************************************************************)
(* What the table relies on and the code does not ensure.  Positions are    *)
(* hashes reduced modulo the number of cells: two of a key's three may      *)
(* coincide, and then its XORs cancel.  A key with two values in the two    *)
(* sets cancels in the counts.                                              *)
(***************************************************************************)
DistinctPositions ==
  \A pos \in PositionMaps, k \in Keys : \A i, j \in 1..3 : pos[k][i] = pos[k][j] => i = j
OneValuePerKey == \A p, q \in Pairs : p[1] = q[1] => p = q

Odd(S) == Cardinality(S) % 2 = 1
Words  == {p[2] : p \in Pairs}

(* the XOR of the keys, and of the values, of the elements of D *)
KeyWord(D)   == {e[1] : e \in D}
ValueWord(D) == {v \in Words : Odd({e \in D : e[2] = v})}

(* the table that holds the elements of A, and counts those of B negative *)
CellOf(A, B, c) ==
  [count     |-> Cardinality(Part(A, c)) - Cardinality(Part(B, c)),
   key_sum   |-> KeyWord(Part(A \union B, c)),
   value_sum |-> ValueWord(Part(A \union B, c))]
SumOf(A, B) == [c \in 1..Cells |-> CellOf(A, B, c)]

Regular == DistinctPositions /\ OneValuePerKey /\ position \in PositionMaps
FiniteIn(S) == S \subseteq Pairs /\ IsFiniteSet(S)

---------------------------------------------------------------------------
(* The invariant *)

(* a peer's table is the sum of its set *)
TableOK(p) == \E S : S = held[p] /\ FiniteIn(S) /\ table[p] = SumOf(S, {})

(* what decode peels is the sum of what it has not recovered *)
PeelOK == \E A, B : A = Left(TRUE) /\ B = Left(FALSE) /\ difference = SumOf(A, B)

IbltInv ==
  /\ position \in PositionMaps
  /\ DOMAIN held = Peers /\ DOMAIN table = Peers
  /\ \A p \in Peers : TableOK(p)
  /\ entries \in Seq(Difference) /\ IsInjective(entries)
  /\ phase \in {"build", "peel", "done"}
  /\ phase = "build" => entries = <<>>
  /\ phase # "build" => PeelOK
  /\ reconciled = "ok" => phase = "done" /\ IsEmpty(difference)

---------------------------------------------------------------------------
(* Hits, parity and sums *)

LEMMA HitsOnce ==
  ASSUME Regular, NEW k \in Keys, NEW c
  PROVE  Hits(k, c) = IF On(k, c) THEN 1 ELSE 0
<1> DEFINE H == {i \in 1..3 : position[k][i] = c}
<1>1. Hits(k, c) = Cardinality(H)
  BY DEF Hits
<1>2. CASE On(k, c)
  <2>1. PICK i \in 1..3 : position[k][i] = c
    BY <1>2 DEF On
  <2>2. H = {i}
    BY <2>1 DEF Regular, DistinctPositions
  <2>3. QED
    BY <1>1, <1>2, <2>2, FS_Singleton
<1>3. CASE ~On(k, c)
  <2>1. H = {}
    BY <1>3 DEF On
  <2>2. QED
    BY <1>1, <1>3, <2>1, FS_EmptySet
<1>4. QED
  BY <1>2, <1>3

LEMMA Parts ==
  ASSUME NEW S, FiniteIn(S), NEW c
  PROVE  /\ Part(S, c) \subseteq S /\ IsFiniteSet(Part(S, c)) /\ Cardinality(Part(S, c)) \in Nat
         /\ \A v : IsFiniteSet({e \in Part(S, c) : e[2] = v})
<1>1. Part(S, c) \subseteq S
  BY DEF Part
<1>2. IsFiniteSet(Part(S, c))
  BY <1>1, FS_Subset DEF FiniteIn
<1>3. ASSUME NEW v PROVE IsFiniteSet({e \in Part(S, c) : e[2] = v})
  <2>1. {e \in Part(S, c) : e[2] = v} \in SUBSET Part(S, c)
    OBVIOUS
  <2>2. QED
    BY <1>2, <2>1, FS_Subset
<1>4. QED
  BY <1>1, <1>2, <1>3, FS_CardinalityType

(* the parity of a symmetric difference is that of the two cardinalities *)
LEMMA OddXor ==
  ASSUME NEW S, NEW T, IsFiniteSet(S), IsFiniteSet(T)
  PROVE  Odd(Xor(S, T)) <=> ~(Odd(S) <=> Odd(T))
<1> DEFINE s == Cardinality(S)
           t == Cardinality(T)
           b == Cardinality(S \cap T)
<1>1. s \in Nat /\ t \in Nat /\ b \in Nat
  BY FS_CardinalityType, FS_Intersection
<1>2. /\ IsFiniteSet(S \ T) /\ Cardinality(S \ T) = s - b
      /\ IsFiniteSet(T \ S) /\ Cardinality(T \ S) = t - b
  <2>1. T \cap S = S \cap T
    OBVIOUS
  <2>2. QED
    BY ZenonT(60), <2>1, FS_Difference
<1>3. Cardinality((S \ T) \cap (T \ S)) = 0
  <2>1. (S \ T) \cap (T \ S) = {}
    OBVIOUS
  <2>2. QED
    BY <2>1, FS_EmptySet
<1>4. Cardinality(Xor(S, T)) = (s - b) + (t - b) - 0
  BY <1>2, <1>3, FS_Union DEF Xor
<1> HIDE DEF s, t, b
<1>5. ((s - b) + (t - b) - 0) % 2 = (s + t) % 2
  <2>1. \A x, y \in Nat : \A z \in Nat : ((x - z) + (y - z) - 0) % 2 = (x + y) % 2
    OBVIOUS
  <2>2. QED
    BY <1>1, <2>1
<1>6. (s + t) % 2 = 1 <=> ~((s % 2 = 1) <=> (t % 2 = 1))
  BY <1>1
<1>7. QED
  BY <1>4, <1>5, <1>6 DEF Odd, s, t

(* XOR of words: an element that is in both sums cancels *)
LEMMA KeyWordXor ==
  ASSUME OneValuePerKey, NEW S \in SUBSET Pairs, NEW T \in SUBSET Pairs
  PROVE  KeyWord(Xor(S, T)) = Xor(KeyWord(S), KeyWord(T))
<1>1. \A p, q \in Pairs : p[1] = q[1] => p = q
  BY DEF OneValuePerKey
<1>2. ASSUME NEW k PROVE k \in KeyWord(Xor(S, T)) <=> k \in Xor(KeyWord(S), KeyWord(T))
  BY <1>1 DEF KeyWord, Xor
<1>3. QED
  BY <1>2

LEMMA ValueWordXor ==
  ASSUME NEW S, NEW T, IsFiniteSet(S), IsFiniteSet(T)
  PROVE  ValueWord(Xor(S, T)) = Xor(ValueWord(S), ValueWord(T))
<1> DEFINE At(U, v) == {e \in U : e[2] = v}
<1>1. ASSUME NEW v
      PROVE  Odd(At(Xor(S, T), v)) <=> ~(Odd(At(S, v)) <=> Odd(At(T, v)))
  <2>1. At(Xor(S, T), v) = Xor(At(S, v), At(T, v))
    BY DEF Xor
  <2>2. IsFiniteSet(At(S, v)) /\ IsFiniteSet(At(T, v))
    BY FS_Subset
  <2> HIDE DEF At
  <2>3. QED
    BY <2>1, <2>2, OddXor
<1>2. \A U : ValueWord(U) = {v \in Words : Odd(At(U, v))}
  BY DEF ValueWord
<1> HIDE DEF At
<1>3. ASSUME NEW v
      PROVE  v \in ValueWord(Xor(S, T)) <=> v \in Xor(ValueWord(S), ValueWord(T))
  <2>1. \A U : v \in ValueWord(U) <=> v \in Words /\ Odd(At(U, v))
    BY <1>2
  <2>2. v \in Xor(ValueWord(S), ValueWord(T)) <=>
          ~(v \in ValueWord(S) <=> v \in ValueWord(T))
    BY DEF Xor
  <2>3. QED
    BY <1>1, <2>1, <2>2
<1>4. QED
  BY <1>3

(* the words of no element, and of a single one *)
LEMMA WordsOfFew ==
  /\ KeyWord({}) = {} /\ ValueWord({}) = {}
  /\ \A e \in Pairs : KeyWord({e}) = {e[1]} /\ ValueWord({e}) = {e[2]}
<1>1. KeyWord({}) = {} /\ \A e \in Pairs : KeyWord({e}) = {e[1]}
  BY DEF KeyWord
<1>2. ~Odd({}) /\ \A x : Odd({x})
  <2>1. Cardinality({}) = 0 /\ \A x : Cardinality({x}) = 1
    BY FS_EmptySet, FS_Singleton
  <2>2. QED
    BY <2>1 DEF Odd
<1>3. ValueWord({}) = {}
  <2>1. \A v : {e \in {} : e[2] = v} = {}
    OBVIOUS
  <2>2. QED
    BY <1>2, <2>1 DEF ValueWord
<1>4. ASSUME NEW e \in Pairs PROVE ValueWord({e}) = {e[2]}
  <2>1. e[2] \in Words
    BY DEF Words
  <2>2. \A v : {x \in {e} : x[2] = v} = IF e[2] = v THEN {e} ELSE {}
    OBVIOUS
  <2>3. \A v : Odd({x \in {e} : x[2] = v}) <=> e[2] = v
    BY <1>2, <2>2
  <2>4. QED
    BY <2>1, <2>3 DEF ValueWord
<1>5. QED
  BY <1>1, <1>3, <1>4

(***************************************************************************)
(* Adding or taking out one element: the table of A and B becomes that of A2 *)
(* and B2, if these differ by e and its sign tells the way.                 *)
(***************************************************************************)
Flipped(A, B, A2, B2, e, sign) ==
  /\ FiniteIn(A) /\ FiniteIn(B) /\ FiniteIn(A2) /\ FiniteIn(B2)
  /\ e \in Pairs /\ sign \in Int
  /\ A2 \union B2 = Xor(A \union B, {e})
  /\ A2 \ {e} = A \ {e} /\ B2 \ {e} = B \ {e}
  /\ \/ e \notin A /\ e \in A2 /\ B2 = B /\ sign = 1
     \/ e \in A /\ e \notin A2 /\ B2 = B /\ sign = -1
     \/ e \in B /\ e \notin B2 /\ A2 = A /\ sign = 1

LEMMA UpdateSum ==
  ASSUME Regular, NEW A, NEW B, NEW A2, NEW B2, NEW e, NEW sign,
         Flipped(A, B, A2, B2, e, sign),
         NEW t, NEW key, NEW value, t = SumOf(A, B), key = e[1], value = {e[2]}
  PROVE  Update(t, key, value, sign) = SumOf(A2, B2)
<1> DEFINE u == Update(t, key, value, sign)
<1>1. /\ FiniteIn(A) /\ FiniteIn(B) /\ FiniteIn(A2) /\ FiniteIn(B2)
      /\ FiniteIn(A \union B) /\ e \in Pairs /\ sign \in Int /\ e[1] \in Keys
  BY FS_Union DEF Flipped, FiniteIn, Keys
<1>2. ASSUME NEW c \in 1..Cells PROVE u[c] = CellOf(A2, B2, c)
  <2> DEFINE D == Part(A \union B, c)
             D2 == Part(A2 \union B2, c)
  <2>1. t[c] = CellOf(A, B, c)
    BY DEF SumOf
  <2>2. Hits(e[1], c) = IF On(e[1], c) THEN 1 ELSE 0
    BY <1>1, HitsOnce
  <2>3. /\ IsFiniteSet(D) /\ D \subseteq Pairs
        /\ Cardinality(Part(A, c)) \in Nat /\ Cardinality(Part(B, c)) \in Nat
        /\ IsFiniteSet(Part(A, c)) /\ IsFiniteSet(Part(B, c))
    BY <1>1, Parts DEF FiniteIn
  <2>4. CASE On(e[1], c)
    <3>1. D2 = Xor(D, {e})
      BY <2>4 DEF Flipped, Part, Xor
    <3>2. KeyWord(D2) = Xor(KeyWord(D), {e[1]}) /\ ValueWord(D2) = Xor(ValueWord(D), {e[2]})
      <4>1. KeyWord({e}) = {e[1]} /\ ValueWord({e}) = {e[2]}
        BY <1>1, WordsOfFew
      <4>2. {e} \in SUBSET Pairs /\ D \in SUBSET Pairs /\ IsFiniteSet({e}) /\ OneValuePerKey
        BY <1>1, <2>3, FS_Singleton DEF Regular
      <4>3. KeyWord(Xor(D, {e})) = Xor(KeyWord(D), KeyWord({e}))
        BY <4>2, KeyWordXor
      <4>4. ValueWord(Xor(D, {e})) = Xor(ValueWord(D), ValueWord({e}))
        BY <2>3, <4>2, ValueWordXor
      <4>5. QED
        BY <3>1, <4>1, <4>3, <4>4
    <3>3. Cardinality(Part(A2, c)) - Cardinality(Part(B2, c)) =
            Cardinality(Part(A, c)) - Cardinality(Part(B, c)) + sign
      <4>1. CASE e \notin A /\ e \in A2 /\ B2 = B /\ sign = 1
        <5>1. Part(A2, c) = Part(A, c) \union {e} /\ e \notin Part(A, c)
          BY <2>4, <4>1 DEF Flipped, Part
        <5>2. Cardinality(Part(A2, c)) = Cardinality(Part(A, c)) + 1
          BY <2>3, <5>1, FS_AddElement
        <5>3. QED
          BY <2>3, <4>1, <5>2
      <4>2. CASE e \in A /\ e \notin A2 /\ B2 = B /\ sign = -1
        <5>1. Part(A2, c) = Part(A, c) \ {e} /\ e \in Part(A, c)
          BY <2>4, <4>2 DEF Flipped, Part
        <5>2. Cardinality(Part(A2, c)) = Cardinality(Part(A, c)) - 1
          BY <2>3, <5>1, FS_RemoveElement
        <5>3. QED
          BY <2>3, <4>2, <5>2
      <4>3. CASE e \in B /\ e \notin B2 /\ A2 = A /\ sign = 1
        <5>1. Part(B2, c) = Part(B, c) \ {e} /\ e \in Part(B, c)
          BY <2>4, <4>3 DEF Flipped, Part
        <5>2. Cardinality(Part(B2, c)) = Cardinality(Part(B, c)) - 1
          BY <2>3, <5>1, FS_RemoveElement
        <5>3. QED
          BY <2>3, <4>3, <5>2
      <4>4. QED
        BY <4>1, <4>2, <4>3 DEF Flipped
    <3>4. u[c] = [count     |-> Cardinality(Part(A, c)) - Cardinality(Part(B, c)) + sign * 1,
                  key_sum   |-> Xor(KeyWord(D), {e[1]}),
                  value_sum |-> Xor(ValueWord(D), {e[2]})]
      BY <2>1, <2>2, <2>4 DEF Update, CellOf
    <3>5. sign * 1 = sign
      BY <1>1
    <3>6. QED
      BY <3>2, <3>3, <3>4, <3>5 DEF CellOf
  <2>5. CASE ~On(e[1], c)
    <3>1. D2 = D /\ Part(A2, c) = Part(A, c) /\ Part(B2, c) = Part(B, c)
      BY <2>5 DEF Flipped, Part, Xor
    <3>2. u[c] = [count     |-> Cardinality(Part(A, c)) - Cardinality(Part(B, c)) + sign * 0,
                  key_sum   |-> KeyWord(D),
                  value_sum |-> ValueWord(D)]
      BY <2>1, <2>2, <2>5 DEF Update, CellOf
    <3>3. Cardinality(Part(A, c)) - Cardinality(Part(B, c)) + sign * 0 =
            Cardinality(Part(A, c)) - Cardinality(Part(B, c))
      BY <1>1, <2>3
    <3>4. QED
      BY <3>1, <3>2, <3>3 DEF CellOf
  <2>6. QED
    BY <2>4, <2>5
<1>3. u = [c \in 1..Cells |-> u[c]]
  BY DEF Update
<1>4. QED
  BY <1>2, <1>3 DEF SumOf

(* subtract leaves what is in one set only, with the sign of its side *)
LEMMA SubtractSum ==
  ASSUME Regular, NEW M, NEW T, FiniteIn(M), FiniteIn(T)
  PROVE  Subtract(SumOf(M, {}), SumOf(T, {})) = SumOf(M \ T, T \ M)
<1> DEFINE d == Subtract(SumOf(M, {}), SumOf(T, {}))
<1>1. FiniteIn({}) /\ M \union {} = M /\ T \union {} = T
  BY FS_EmptySet DEF FiniteIn
<1>2. ASSUME NEW c \in 1..Cells PROVE d[c] = CellOf(M \ T, T \ M, c)
  <2> DEFINE P == Part(M, c)
             Q == Part(T, c)
  <2>1. /\ IsFiniteSet(P) /\ P \in SUBSET Pairs /\ Cardinality(P) \in Nat
        /\ IsFiniteSet(Q) /\ Q \in SUBSET Pairs /\ Cardinality(Q) \in Nat
    BY Parts DEF FiniteIn
  <2>2. Part({}, c) = {} /\ Cardinality(Part({}, c)) = 0
    BY FS_EmptySet DEF Part
  <2>3. SumOf(M, {})[c] = [count |-> Cardinality(P) - 0, key_sum |-> KeyWord(P),
                           value_sum |-> ValueWord(P)]
    BY <1>1, <2>2 DEF SumOf, CellOf
  <2>4. SumOf(T, {})[c] = [count |-> Cardinality(Q) - 0, key_sum |-> KeyWord(Q),
                           value_sum |-> ValueWord(Q)]
    BY <1>1, <2>2 DEF SumOf, CellOf
  <2>5. d[c] = [count     |-> (Cardinality(P) - 0) - (Cardinality(Q) - 0),
                key_sum   |-> Xor(KeyWord(P), KeyWord(Q)),
                value_sum |-> Xor(ValueWord(P), ValueWord(Q))]
    BY <2>3, <2>4 DEF Subtract
  <2>6. /\ Part(M \ T, c) = P \ Q /\ Part(T \ M, c) = Q \ P
        /\ Part((M \ T) \union (T \ M), c) = Xor(P, Q)
    BY DEF Part, Xor
  <2>7. /\ KeyWord(Xor(P, Q)) = Xor(KeyWord(P), KeyWord(Q))
        /\ ValueWord(Xor(P, Q)) = Xor(ValueWord(P), ValueWord(Q))
    BY <2>1, KeyWordXor, ValueWordXor DEF Regular
  <2>8. Cardinality(P \ Q) - Cardinality(Q \ P) = (Cardinality(P) - 0) - (Cardinality(Q) - 0)
    <3>1. P \cap Q = Q \cap P /\ Cardinality(P \cap Q) \in Nat
      BY <2>1, FS_Intersection, FS_CardinalityType
    <3>2. /\ Cardinality(P \ Q) = Cardinality(P) - Cardinality(P \cap Q)
          /\ Cardinality(Q \ P) = Cardinality(Q) - Cardinality(P \cap Q)
      BY ZenonT(60), <2>1, <3>1, FS_Difference
    <3>3. QED
      BY <2>1, <3>1, <3>2
  <2>9. QED
    BY <2>5, <2>6, <2>7, <2>8 DEF CellOf
<1>3. d = [c \in 1..Cells |-> d[c]]
  BY DEF Subtract
<1>4. QED
  BY <1>2, <1>3 DEF SumOf

(***************************************************************************)
(* A cell that counts 1 or -1 and whose hash verifies holds one element: it  *)
(* is in A if the count is 1 and in B otherwise.                            *)
(***************************************************************************)
LEMMA SoleElement ==
  ASSUME Regular, NEW A, NEW B, FiniteIn(A), FiniteIn(B), A \cap B = {},
         NEW c \in 1..Cells, CellOf(A, B, c).count \in {1, -1}, Verified(CellOf(A, B, c))
  PROVE  \E e \in A \union B :
           /\ CellOf(A, B, c).key_sum = {e[1]}
           /\ CellOf(A, B, c).value_sum = {e[2]}
           /\ IF CellOf(A, B, c).count = 1 THEN e \in A ELSE e \in B
<1> DEFINE D == Part(A \union B, c)
<1>1. CellOf(A, B, c) = [count |-> Cardinality(Part(A, c)) - Cardinality(Part(B, c)),
                         key_sum |-> KeyWord(D), value_sum |-> ValueWord(D)]
  BY DEF CellOf
<1>2. /\ D \subseteq A \union B /\ D \subseteq Pairs /\ IsFiniteSet(D)
      /\ D = Part(A, c) \union Part(B, c)
  <2>1. FiniteIn(A \union B)
    BY FS_Union DEF FiniteIn
  <2>2. D \subseteq A \union B /\ IsFiniteSet(D)
    BY <2>1, Parts
  <2>3. QED
    BY <2>1, <2>2 DEF FiniteIn, Part
<1>3. PICK k : KeyWord(D) = {k}
  <2>1. IsFiniteSet(KeyWord(D))
    <3> DEFINE f == [e \in D |-> e[1]]
    <3>1. f \in Surjection(D, KeyWord(D))
      BY DEF Surjection, KeyWord
    <3>2. QED
      BY <1>2, <3>1, FS_Surjection
  <2>2. Cardinality(KeyWord(D)) = 1
    BY <1>1 DEF Verified
  <2>3. QED
    BY <2>1, <2>2, FS_Singleton
<1>4. PICK e \in D : D = {e} /\ e[1] = k
  <2>1. \A p, q \in Pairs : p[1] = q[1] => p = q
    BY DEF Regular, OneValuePerKey
  <2>2. PICK e \in D : e[1] = k
    BY <1>3 DEF KeyWord
  <2>3. \A x \in D : x[1] = k
    BY <1>3 DEF KeyWord
  <2>4. QED
    BY ZenonT(60), <1>2, <2>1, <2>2, <2>3
<1>5. KeyWord(D) = {e[1]} /\ ValueWord(D) = {e[2]}
  BY <1>2, <1>4, WordsOfFew
<1>6. /\ CellOf(A, B, c).key_sum = {e[1]} /\ CellOf(A, B, c).value_sum = {e[2]}
      /\ e \in A \union B
  <2>1. CellOf(A, B, c).key_sum = KeyWord(D) /\ CellOf(A, B, c).value_sum = ValueWord(D)
    BY <1>1
  <2>2. e \in A \union B
    BY <1>2
  <2>3. QED
    BY <1>5, <2>1, <2>2, Zenon
<1>7. CASE e \in A
  <2>1. Part(A, c) = {e} /\ Part(B, c) = {}
    BY <1>2, <1>4, <1>7 DEF Part
  <2>2. Cardinality(Part(A, c)) = 1 /\ Cardinality(Part(B, c)) = 0
    BY <2>1, FS_Singleton, FS_EmptySet
  <2>3. CellOf(A, B, c).count = 1
    BY <1>1, <2>2
  <2>4. QED
    BY <1>7, <1>6, <2>3, Zenon
<1>8. CASE e \in B
  <2>1. Part(B, c) = {e} /\ Part(A, c) = {}
    BY <1>2, <1>4, <1>8 DEF Part
  <2>2. Cardinality(Part(B, c)) = 1 /\ Cardinality(Part(A, c)) = 0
    BY <2>1, FS_Singleton, FS_EmptySet
  <2>3. CellOf(A, B, c).count # 1
    BY <1>1, <2>2
  <2>4. QED
    BY <1>8, <1>6, <2>3, Zenon
<1>9. QED
  BY <1>6, <1>7, <1>8

---------------------------------------------------------------------------
(* The steps *)

LEMMA SumStays ==
  ASSUME position' = position, NEW A, NEW B
  PROVE  SumOf(A, B)' = SumOf(A, B)
BY DEF SumOf, CellOf, Part, On

LEMMA IbltInitInv ==
  ASSUME IbltInit
  PROVE  IbltInv
<1>1. /\ position \in PositionMaps /\ held = [p \in Peers |-> {}]
      /\ table = [p \in Peers |-> EmptyTable]
      /\ entries = <<>> /\ phase = "build" /\ reconciled = "none"
  BY DEF IbltInit
<1>2. EmptyTable = SumOf({}, {})
  <2>1. \A c : Part({}, c) = {} /\ Cardinality(Part({}, c)) = 0
    BY FS_EmptySet DEF Part
  <2>2. \A c : CellOf({}, {}, c) = [count |-> 0, key_sum |-> {}, value_sum |-> {}]
    <3>1. {} \union {} = {} /\ 0 - 0 = 0
      OBVIOUS
    <3>2. QED
      BY <2>1, <3>1, WordsOfFew DEF CellOf
  <2>3. QED
    BY <2>2 DEF SumOf, EmptyTable
<1>3. ASSUME NEW p \in Peers PROVE TableOK(p)
  <2>1. FiniteIn({}) /\ held[p] = {} /\ table[p] = SumOf({}, {})
    BY <1>1, <1>2, FS_EmptySet DEF FiniteIn
  <2>2. QED
    BY <2>1, Zenon DEF TableOK
<1>4. entries \in Seq(Difference) /\ IsInjective(entries)
  BY <1>1 DEF IsInjective
<1>5. QED
  BY <1>1, <1>3, <1>4 DEF IbltInv

(* insert and delete keep the table the sum of the set *)
LEMMA BuildInv ==
  ASSUME IbltInv, DistinctPositions, OneValuePerKey,
         NEW p \in Peers, NEW e \in Pairs, Insert(p, e) \/ Delete(p, e)
  PROVE  IbltInv'
<1>1. Regular
  BY DEF Regular, IbltInv
<1>2. /\ phase = "build" /\ position' = position /\ phase' = phase /\ entries' = entries
      /\ reconciled' = reconciled /\ difference' = difference
  BY DEF Insert, Delete
<1>3. \A q \in Peers : TableOK(q)
  BY DEF IbltInv
<1>4. DOMAIN held' = Peers /\ DOMAIN table' = Peers
  BY DEF IbltInv, Insert, Delete
<1>5. PICK S : S = held[p] /\ FiniteIn(S) /\ table[p] = SumOf(S, {})
  BY <1>3 DEF TableOK
<1>6. FiniteIn({})
  BY FS_EmptySet DEF FiniteIn
<1>7. ASSUME NEW T, NEW sign, FiniteIn(T), Flipped(S, {}, T, {}, e, sign),
             held' = [held EXCEPT ![p] = T],
             table' = [table EXCEPT ![p] = Update(table[p], e[1], {e[2]}, sign)]
      PROVE  \A q \in Peers : TableOK(q)'
  <2>1. PICK t, key, value : t = table[p] /\ key = e[1] /\ value = {e[2]}
    OBVIOUS
  <2>2. Update(t, key, value, sign) = SumOf(T, {})
    BY <1>1, <1>5, <1>7, <2>1, UpdateSum
  <2>3. held'[p] = T /\ table'[p] = SumOf(T, {})
    BY <1>7, <2>1, <2>2 DEF IbltInv
  <2>4. TableOK(p)'
    <3>1. SumOf(T, {})' = SumOf(T, {})
      BY <1>2, SumStays
    <3>2. QED
      BY <1>7, <2>3, <3>1 DEF TableOK, FiniteIn
  <2>5. ASSUME NEW q \in Peers, q # p PROVE TableOK(q)'
    <3>1. held'[q] = held[q] /\ table'[q] = table[q]
      BY <1>7, <2>5 DEF IbltInv
    <3>2. PICK U : U = held[q] /\ FiniteIn(U) /\ table[q] = SumOf(U, {})
      BY <1>3 DEF TableOK
    <3>3. SumOf(U, {})' = SumOf(U, {})
      BY <1>2, SumStays
    <3>4. QED
      BY <3>1, <3>2, <3>3 DEF TableOK, FiniteIn
  <2>6. QED
    BY <2>4, <2>5
<1>8. \A q \in Peers : TableOK(q)'
  <2>1. CASE Insert(p, e)
    <3>1. /\ e \notin S /\ held' = [held EXCEPT ![p] = S \union {e}]
          /\ table' = [table EXCEPT ![p] = Update(table[p], e[1], {e[2]}, 1)]
      BY <1>5, <2>1 DEF Insert
    <3>2. FiniteIn(S \union {e})
      BY <1>5, FS_AddElement DEF FiniteIn
    <3>3. Flipped(S, {}, S \union {e}, {}, e, 1)
      BY <1>5, <1>6, <3>1, <3>2 DEF Flipped, Xor
    <3>4. QED
      BY <1>7, <3>1, <3>2, <3>3
  <2>2. CASE Delete(p, e)
    <3>1. /\ e \in S /\ held' = [held EXCEPT ![p] = S \ {e}]
          /\ table' = [table EXCEPT ![p] = Update(table[p], e[1], {e[2]}, -1)]
      BY <1>5, <2>2 DEF Delete
    <3>2. FiniteIn(S \ {e})
      BY <1>5, FS_RemoveElement DEF FiniteIn
    <3>3. Flipped(S, {}, S \ {e}, {}, e, -1)
      BY <1>5, <1>6, <3>1, <3>2 DEF Flipped, Xor
    <3>4. QED
      BY <1>7, <3>1, <3>2, <3>3
  <2>3. QED
    BY <2>1, <2>2
<1>9. entries' \in Seq(Difference') /\ IsInjective(entries')
  BY <1>2 DEF IbltInv, IsInjective
<1>10. QED
  BY <1>2, <1>4, <1>8, <1>9 DEF IbltInv

LEMMA LeftParts ==
  ASSUME IbltInv
  PROVE  /\ FiniteIn(Left(TRUE)) /\ FiniteIn(Left(FALSE))
         /\ Left(TRUE) \cap Left(FALSE) = {}
         /\ FiniteIn(held["mine"]) /\ FiniteIn(held["theirs"])
<1>1. FiniteIn(held["mine"]) /\ FiniteIn(held["theirs"])
  BY DEF IbltInv, TableOK, Peers
<1>2. Left(TRUE) \subseteq held["mine"] /\ Left(FALSE) \subseteq held["theirs"]
      /\ Left(TRUE) \cap Left(FALSE) = {}
  BY DEF Left, Diff
<1>3. QED
  BY <1>1, <1>2, FS_Subset DEF FiniteIn

(* subtract: nothing has been recovered yet *)
LEMMA ReconcileInv ==
  ASSUME IbltInv, DistinctPositions, OneValuePerKey, Reconcile
  PROVE  IbltInv'
<1>1. Regular
  BY DEF Regular, IbltInv
<1>2. /\ phase = "build" /\ phase' = "peel" /\ entries = <<>>
      /\ UNCHANGED <<position, held, table, entries, reconciled>>
      /\ difference' = Subtract(table["mine"], table["theirs"])
  BY DEF Reconcile, IbltInv
<1>3. PICK M : M = held["mine"] /\ FiniteIn(M) /\ table["mine"] = SumOf(M, {})
  BY DEF IbltInv, TableOK, Peers
<1>4. PICK T : T = held["theirs"] /\ FiniteIn(T) /\ table["theirs"] = SumOf(T, {})
  BY DEF IbltInv, TableOK, Peers
<1>5. difference' = SumOf(M \ T, T \ M)
  BY <1>1, <1>2, <1>3, <1>4, SubtractSum
<1>6. Left(TRUE)' = M \ T /\ Left(FALSE)' = T \ M
  <2>1. ToSet(entries') = {}
    BY <1>2 DEF ToSet
  <2>2. QED
    BY <1>2, <1>3, <1>4, <2>1 DEF Left, Diff
<1>7. PeelOK'
  <2>1. SumOf(M \ T, T \ M)' = SumOf(M \ T, T \ M)
    BY <1>2, SumStays
  <2>2. QED
    BY <1>5, <1>6, <2>1 DEF PeelOK
<1>8. \A p \in Peers : TableOK(p)'
  <2> SUFFICES ASSUME NEW p \in Peers PROVE TableOK(p)'
    OBVIOUS
  <2>1. PICK S : S = held[p] /\ FiniteIn(S) /\ table[p] = SumOf(S, {})
    BY DEF IbltInv, TableOK
  <2>2. SumOf(S, {})' = SumOf(S, {})
    BY <1>2, SumStays
  <2>3. QED
    BY <1>2, <2>1, <2>2 DEF TableOK, FiniteIn
<1>9. entries' \in Seq(Difference') /\ IsInjective(entries')
  BY <1>2 DEF IbltInv, IsInjective
<1>10. reconciled' # "ok"
  BY <1>2 DEF IbltInv
<1>11. QED
  BY <1>2, <1>7, <1>8, <1>9, <1>10 DEF IbltInv

(* an element is taken out of what is left and is the next entry *)
LEMMA TakesOut ==
  ASSUME IbltInv, DistinctPositions, OneValuePerKey, phase = "peel",
         NEW mine \in BOOLEAN, NEW e \in Left(mine),
         NEW A, NEW B, A = Left(TRUE), B = Left(FALSE),
         entries' = Append(entries, Entry(e, mine)),
         difference' = IF mine THEN SumOf(A \ {e}, B) ELSE SumOf(A, B \ {e}),
         UNCHANGED <<position, held, table, phase, reconciled>>
  PROVE  IbltInv'
<1> DEFINE n == Len(entries)
<1>0. PICK entry : entry = Entry(e, mine)
  OBVIOUS
<1>1. entry \in Difference /\ entry \notin ToSet(entries)
  BY <1>0 DEF Left, Diff, Difference
<1>2. /\ entries \in Seq(Difference) /\ n \in Nat /\ IsInjective(entries)
      /\ DOMAIN entries = 1..n
  BY DEF IbltInv
<1>3. Difference' = Difference
  BY DEF Difference, Entry
<1>4. /\ entries' \in Seq(Difference) /\ Len(entries') = n + 1 /\ DOMAIN entries' = 1..(n + 1)
      /\ \A i \in 1..n : entries'[i] = entries[i]
      /\ entries'[n + 1] = entry
  <2>1. entries' = Append(entries, entry)
    BY <1>0
  <2>2. QED
    BY <1>1, <1>2, <2>1, AppendProperties
<1>5. ToSet(entries') = ToSet(entries) \union {entry}
  <2>1. \A i \in 1..(n + 1) : i \in 1..n \/ i = n + 1
    BY <1>2
  <2>2. n + 1 \in 1..(n + 1) /\ \A i \in 1..n : i \in 1..(n + 1)
    BY <1>2
  <2>3. QED
    BY <1>2, <1>4, <2>1, <2>2 DEF ToSet
<1>6. IsInjective(entries')
  <2>1. \A i \in 1..(n + 1) : i \in 1..n \/ i = n + 1
    BY <1>2
  <2>2. \A i \in 1..n : entries[i] # entry
    BY <1>1, <1>2 DEF ToSet
  <2>3. \A i, j \in 1..n : entries[i] = entries[j] => i = j
    BY <1>2 DEF IsInjective
  <2>4. QED
    BY <1>4, <2>1, <2>2, <2>3 DEF IsInjective
<1>7. \A x \in Pairs : x[1] = e[1] => x = e
  BY LeftParts DEF OneValuePerKey, FiniteIn
<1>8. \A m \in BOOLEAN : Diff(m)' = Diff(m)
  BY DEF Diff
<1>9. \A m \in BOOLEAN : \A x : Entry(x, m)' = Entry(x, m)
  BY DEF Entry
<1>10. \A x \in Pairs, m \in BOOLEAN : Entry(x, m) = entry <=> x = e /\ m = mine
  BY <1>0, <1>7 DEF Entry
<1>11. \A m \in BOOLEAN : Left(m) \subseteq Pairs
  BY LeftParts DEF FiniteIn
<1>12. ASSUME NEW m \in BOOLEAN
       PROVE  Left(m)' = IF m = mine THEN Left(m) \ {e} ELSE Left(m)
  <2>1. \A x : x \in Left(m)' <=> x \in Left(m) /\ Entry(x, m) # entry
    BY <1>5, <1>8, <1>9 DEF Left
  <2>2. QED
    BY <1>10, <1>11, <2>1
<1>13. PeelOK'
  <2>1. CASE mine
    <3>1. Left(TRUE)' = A \ {e} /\ Left(FALSE)' = B
      BY <1>12, <2>1
    <3>2. SumOf(A \ {e}, B)' = difference'
      BY <2>1, SumStays
    <3>3. QED
      BY <3>1, <3>2 DEF PeelOK
  <2>2. CASE ~mine
    <3>1. Left(TRUE)' = A /\ Left(FALSE)' = B \ {e}
      BY <1>12, <2>2
    <3>2. SumOf(A, B \ {e})' = difference'
      BY <2>2, SumStays
    <3>3. QED
      BY <3>1, <3>2 DEF PeelOK
  <2>3. QED
    BY <2>1, <2>2
<1>14. \A p \in Peers : TableOK(p)'
  <2> SUFFICES ASSUME NEW p \in Peers PROVE TableOK(p)'
    OBVIOUS
  <2>1. PICK S : S = held[p] /\ FiniteIn(S) /\ table[p] = SumOf(S, {})
    BY DEF IbltInv, TableOK
  <2>2. SumOf(S, {})' = SumOf(S, {})
    BY SumStays
  <2>3. QED
    BY <2>1, <2>2 DEF TableOK, FiniteIn
<1>15. QED
  BY <1>3, <1>4, <1>6, <1>13, <1>14 DEF IbltInv

LEMMA PeelableCell ==
  ASSUME Peelable # {}
  PROVE  Min(Peelable) \in 1..Cells /\ difference[Min(Peelable)].count \in {1, -1}
<1>1. Peelable \subseteq Nat
  BY CellsAssumption DEF Peelable
<1>2. \E m \in Peelable : \A k \in Peelable : m <= k
  BY <1>1, LeastNat
<1>3. Min(Peelable) \in Peelable
  BY <1>2 DEF Min
<1>4. QED
  BY <1>3 DEF Peelable

(* what one round of decode takes out is an element of the difference *)
LEMMA PeelInv ==
  ASSUME IbltInv, DistinctPositions, OneValuePerKey, Peel, Verified(difference[Min(Peelable)])
  PROVE  IbltInv'
<1>1. Regular
  BY DEF Regular, IbltInv
<1>2. PICK m : m = Min(Peelable)
  OBVIOUS
<1>3. m \in 1..Cells /\ difference[m].count \in {1, -1} /\ phase = "peel"
  BY <1>2, PeelableCell DEF Peel
<1>4. PICK A, B : A = Left(TRUE) /\ B = Left(FALSE) /\ difference = SumOf(A, B)
  BY <1>3 DEF IbltInv, PeelOK
<1>5. FiniteIn(A) /\ FiniteIn(B) /\ A \cap B = {}
  BY <1>4, LeftParts
<1>6. PICK cell : cell = CellOf(A, B, m)
  OBVIOUS
<1>7. difference[m] = cell
  BY <1>3, <1>4, <1>6 DEF SumOf
<1>8. PICK e \in A \union B : /\ cell.key_sum = {e[1]} /\ cell.value_sum = {e[2]}
                              /\ IF cell.count = 1 THEN e \in A ELSE e \in B
  <2>1. cell.count \in {1, -1} /\ Verified(cell)
    BY <1>2, <1>3, <1>7
  <2>2. QED
    BY <1>1, <1>3, <1>5, <1>6, <2>1, SoleElement
<1>9. (CHOOSE k \in cell.key_sum : TRUE) = e[1]
  BY <1>8
<1>10. PICK key, value : key = e[1] /\ value = {e[2]}
  OBVIOUS
<1>11. /\ difference' = Update(difference, key, value, -cell.count)
       /\ entries' = Append(entries, [key |-> key, value |-> value,
                                      present_in_self |-> cell.count = 1])
       /\ UNCHANGED <<position, held, table, phase, reconciled>>
  BY <1>2, <1>7, <1>8, <1>9, <1>10 DEF Peel, Peeled
<1>12. CASE cell.count = 1
  <2>1. e \in A /\ e \notin B
    BY <1>5, <1>8, <1>12
  <2>2. PICK A2, sign : A2 = A \ {e} /\ sign = -1
    OBVIOUS
  <2>3. Flipped(A, B, A2, B, e, sign)
    <3>1. FiniteIn(A2)
      BY <1>5, <2>2, FS_RemoveElement DEF FiniteIn
    <3>2. QED
      BY <1>5, <2>1, <2>2, <3>1 DEF Flipped, Xor, FiniteIn
  <2>4. difference' = SumOf(A \ {e}, B)
    <3>1. PICK t : t = difference
      OBVIOUS
    <3>2. t = SumOf(A, B)
      BY <1>4, <3>1
    <3>3. Update(t, key, value, sign) = SumOf(A2, B)
      BY <1>1, <1>10, <2>3, <3>2, UpdateSum
    <3>4. QED
      BY <1>11, <1>12, <2>2, <3>1, <3>3
  <2>5. entries' = Append(entries, Entry(e, TRUE))
    <3>1. (cell.count = 1) = TRUE
      BY <1>12
    <3>2. QED
      BY <1>10, <1>11, <3>1 DEF Entry
  <2>6. QED
    BY <1>3, <1>4, <1>11, <2>1, <2>4, <2>5, TakesOut
<1>13. CASE cell.count # 1
  <2>1. e \in B /\ e \notin A /\ cell.count = -1
    BY <1>3, <1>5, <1>7, <1>8, <1>13
  <2>2. PICK B2, sign : B2 = B \ {e} /\ sign = 1
    OBVIOUS
  <2>3. Flipped(A, B, A, B2, e, sign)
    <3>1. FiniteIn(B2)
      BY <1>5, <2>2, FS_RemoveElement DEF FiniteIn
    <3>2. QED
      BY <1>5, <2>1, <2>2, <3>1 DEF Flipped, Xor, FiniteIn
  <2>4. difference' = SumOf(A, B \ {e})
    <3>1. PICK t : t = difference
      OBVIOUS
    <3>2. t = SumOf(A, B)
      BY <1>4, <3>1
    <3>3. Update(t, key, value, sign) = SumOf(A, B2)
      BY <1>1, <1>10, <2>3, <3>2, UpdateSum
    <3>4. -cell.count = 1
      <4>1. \A x \in Int : -x = 0 - x
        OBVIOUS
      <4>2. cell.count \in Int /\ 0 - cell.count = 1
        BY <2>1
      <4>3. QED
        BY <4>1, <4>2
    <3>5. QED
      BY <1>11, <2>2, <3>1, <3>3, <3>4
  <2>5. entries' = Append(entries, Entry(e, FALSE))
    <3>1. (cell.count = 1) = FALSE
      BY <1>13
    <3>2. QED
      BY <1>10, <1>11, <3>1 DEF Entry
  <2>6. QED
    BY <1>3, <1>4, <1>11, <2>1, <2>4, <2>5, TakesOut
<1>14. QED
  BY <1>12, <1>13

---------------------------------------------------------------------------
(* The theorems *)

LEMMA IbltStays ==
  ASSUME IbltInv, UNCHANGED <<position, held, table, difference, entries>>,
         \/ UNCHANGED <<phase, reconciled>>
         \/ phase = "peel" /\ phase' = "done" /\ (reconciled' = "ok" => IsEmpty(difference))
  PROVE  IbltInv'
<1>1. \A p \in Peers : TableOK(p)'
  <2> SUFFICES ASSUME NEW p \in Peers PROVE TableOK(p)'
    OBVIOUS
  <2>1. PICK S : S = held[p] /\ FiniteIn(S) /\ table[p] = SumOf(S, {})
    BY DEF IbltInv, TableOK
  <2>2. SumOf(S, {})' = SumOf(S, {})
    BY SumStays
  <2>3. QED
    BY <2>1, <2>2 DEF TableOK, FiniteIn
<1>2. ASSUME phase # "build" PROVE PeelOK'
  <2>1. PICK A, B : A = Left(TRUE) /\ B = Left(FALSE) /\ difference = SumOf(A, B)
    BY <1>2 DEF IbltInv, PeelOK
  <2>2. SumOf(A, B)' = SumOf(A, B)
    BY SumStays
  <2>3. Left(TRUE)' = A /\ Left(FALSE)' = B
    BY <2>1 DEF Left, Diff, Entry, ToSet
  <2>4. QED
    BY <2>1, <2>2, <2>3 DEF PeelOK
<1>3. Difference' = Difference /\ IsInjective(entries')
  BY DEF Difference, Entry, IbltInv, IsInjective
<1>4. IsEmpty(difference') <=> IsEmpty(difference)
  BY DEF IsEmpty
<1>5. QED
  BY <1>1, <1>2, <1>3, <1>4 DEF IbltInv

(***************************************************************************)
(* The inductive invariant of insert, delete, subtract and decode: every    *)
(* table is the sum of a set, and what decode still has to peel is the sum   *)
(* of the difference without the entries it has returned.                   *)
(***************************************************************************)
THEOREM IbltInvariant ==
  DistinctPositions /\ OneValuePerKey /\ IbltSpec => []IbltInv
<1> SUFFICES ASSUME DistinctPositions, OneValuePerKey PROVE IbltSpec => []IbltInv
  OBVIOUS
<1>1. IbltInit => IbltInv
  BY IbltInitInv
<1>2. IbltInv /\ [IbltNext]_ivars => IbltInv'
  <2> SUFFICES ASSUME IbltInv, [IbltNext]_ivars PROVE IbltInv'
    OBVIOUS
  <2>1. CASE \E p \in Peers, e \in Pairs : Insert(p, e) \/ Delete(p, e)
    BY <2>1, BuildInv
  <2>2. CASE Reconcile
    BY <2>2, ReconcileInv
  <2>3. CASE Peel
    <3>1. CASE Verified(difference[Min(Peelable)])
      BY <2>3, <3>1, PeelInv
    <3>2. CASE ~Verified(difference[Min(Peelable)])
      <4>1. /\ UNCHANGED <<position, held, table, difference, entries>>
            /\ phase = "peel" /\ phase' = "done" /\ reconciled' # "ok"
        BY <2>3, <3>2 DEF Peel
      <4>2. QED
        BY <4>1, IbltStays
    <3>3. QED
      BY <3>1, <3>2
  <2>4. CASE DecodeReturns
    <3>1. /\ UNCHANGED <<position, held, table, difference, entries>>
          /\ phase = "peel" /\ phase' = "done"
          /\ reconciled' = "ok" => IsEmpty(difference)
      BY <2>4 DEF DecodeReturns
    <3>2. QED
      BY <3>1, IbltStays
  <2>5. CASE UNCHANGED ivars
    BY <2>5, IbltStays DEF ivars
  <2>6. QED
    BY <2>1, <2>2, <2>3, <2>4, <2>5 DEF IbltNext
<1>3. QED
  BY <1>1, <1>2, PTL DEF IbltSpec

(***************************************************************************)
(* Nothing is made up: every entry that decode has peeled, also when it     *)
(* fails in the end, is in the difference of the sets, and is there once.   *)
(***************************************************************************)
THEOREM IbltRecovers ==
  DistinctPositions /\ OneValuePerKey /\ IbltSpec => []RecoveredAreDifferences
<1>1. IbltInv => RecoveredAreDifferences
  BY DEF IbltInv, RecoveredAreDifferences, ToSet
<1>2. QED
  BY <1>1, IbltInvariant, PTL

(***************************************************************************)
(* is_empty looks at the counts only.  A decode that succeeds has missed     *)
(* nothing but elements of the two sides that cancel on every cell, and      *)
(* nothing at all where only one peer has elements of its own.               *)
(***************************************************************************)
THEOREM IbltMissesOnlyCancelled ==
  DistinctPositions /\ OneValuePerKey /\ IbltSpec => []RecoversUnlessCancelled
<1>1. IbltInv => RecoversUnlessCancelled
  <2> SUFFICES ASSUME IbltInv, reconciled = "ok"
               PROVE  /\ \A c \in 1..Cells :
                           Cardinality(Part(Left(TRUE), c)) = Cardinality(Part(Left(FALSE), c))
                      /\ Diff(TRUE) = {} \/ Diff(FALSE) = {} => ToSet(entries) = Difference
    BY DEF RecoversUnlessCancelled
  <2>1. PICK A, B : A = Left(TRUE) /\ B = Left(FALSE) /\ difference = SumOf(A, B)
    BY DEF IbltInv, PeelOK
  <2>2. FiniteIn(A) /\ FiniteIn(B)
    BY <2>1, LeftParts
  <2>3. \A c \in 1..Cells : Cardinality(Part(A, c)) = Cardinality(Part(B, c))
    <3> SUFFICES ASSUME NEW c \in 1..Cells
                 PROVE  Cardinality(Part(A, c)) = Cardinality(Part(B, c))
      OBVIOUS
    <3>1. difference[c].count = 0
      BY DEF IbltInv, IsEmpty
    <3>2. Cardinality(Part(A, c)) - Cardinality(Part(B, c)) = 0
      BY <2>1, <3>1 DEF SumOf, CellOf
    <3>3. Cardinality(Part(A, c)) \in Nat /\ Cardinality(Part(B, c)) \in Nat
      BY <2>2, Parts
    <3>4. QED
      BY <3>2, <3>3
  <2>4. ASSUME NEW S, NEW T, FiniteIn(S), S # {}, T = {},
               \A c \in 1..Cells : Cardinality(Part(S, c)) = Cardinality(Part(T, c))
        PROVE  FALSE
    <3>1. PICK e \in S : e[1] \in Keys
      BY <2>4 DEF FiniteIn, Keys
    <3>2. position[e[1]][1] \in 1..Cells
      BY <3>1, PositionsAssumption DEF IbltInv
    <3>3. PICK c \in 1..Cells : On(e[1], c)
      BY <3>2 DEF On
    <3>4. e \in Part(S, c) /\ Part(T, c) = {}
      BY <2>4, <3>1, <3>3 DEF Part
    <3>5. IsFiniteSet(Part(S, c)) /\ Cardinality(Part(S, c)) = 0
      BY <2>4, <3>4, Parts, FS_EmptySet
    <3>6. QED
      BY <3>4, <3>5, FS_EmptySet
  <2>5. ASSUME Diff(TRUE) = {} \/ Diff(FALSE) = {}
        PROVE  ToSet(entries) = Difference
    <3>1. A = {} \/ B = {}
      BY <2>1, <2>5 DEF Left
    <3>2. A = {} /\ B = {}
      BY <2>2, <2>3, <2>4, <3>1
    <3>3. Difference \subseteq ToSet(entries)
      BY <2>1, <3>2 DEF Left, Diff, Difference
    <3>4. ToSet(entries) \subseteq Difference
      BY DEF IbltInv, ToSet
    <3>5. QED
      BY <3>3, <3>4
  <2>6. QED
    BY <2>1, <2>3, <2>5
<1>2. QED
  BY <1>1, IbltInvariant, PTL
=============================================================================
