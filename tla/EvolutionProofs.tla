-------------------------- MODULE EvolutionProofs --------------------------
(***************************************************************************)
(* Evolution for every base configuration, any number of fields in any       *)
(* order on both sides, and frames of any origin.                           *)
(***************************************************************************)
EXTENDS Evolution, SequenceTheorems, NatProofs

Value    == [type : Types, size : Nat]
FieldRec == [id : Nat, value : Value]

Distinct(seq) == \A i, j \in 1..Len(seq) : seq[i].id = seq[j].id => i = j
Increasing(seq) == \A i, j \in 1..Len(seq) : i < j => seq[i].id < seq[j].id

LEMMA FieldTypes ==
  ASSUME NEW seq \in Seq(FieldRec)
  PROVE  /\ Len(seq) \in Nat
         /\ \A k \in 1..Len(seq) : /\ seq[k] \in FieldRec /\ seq[k].id \in Nat
                                   /\ seq[k].value \in Value /\ seq[k].value.size \in Nat
<1>1. Len(seq) \in Nat /\ \A k \in 1..Len(seq) : seq[k] \in FieldRec
  OBVIOUS
<1>2. \A f \in FieldRec : f.id \in Nat /\ f.value \in Value
  BY DEF FieldRec
<1>3. \A v \in Value : v.size \in Nat
  BY DEF Value
<1>4. QED
  BY <1>1, <1>2, <1>3

---------------------------------------------------------------------------
(* The layout of a frame *)

(* at is the table of offsets of seq *)
OffsetTable(seq, at) ==
  at = [k \in 1..(Len(seq) + 1) |->
          IF k = 1 THEN HEADER_SIZE
          ELSE at[k - 1] + FIELD_HEADER_SIZE + seq[k - 1].value.size]

LEMMA OffsetTableExists ==
  ASSUME NEW seq \in Seq(FieldRec)
  PROVE  \E at : OffsetTable(seq, at)
<1> DEFINE L == Len(seq)
           Next2(f, k) == f[k - 1] + FIELD_HEADER_SIZE + seq[k - 1].value.size
           Table(f, n) == /\ f \in [1..(n + 1) -> Int]
                          /\ f[1] = HEADER_SIZE
                          /\ \A k \in 2..(n + 1) : f[k] = Next2(f, k)
           S == {n \in Nat : n <= L => \E f : Table(f, n)}
<1>1. L \in Nat /\ \A k \in 1..L : seq[k].value.size \in Nat
  BY FieldTypes
<1>2. 0 \in S
  <2> DEFINE f == [k \in 1..1 |-> HEADER_SIZE]
  <2>1. Table(f, 0)
    BY DEF HEADER_SIZE
  <2>2. QED
    BY <2>1
<1>3. ASSUME NEW n \in Nat, n \in S PROVE n + 1 \in S
  <2>1. SUFFICES ASSUME n + 1 <= L PROVE \E f : Table(f, n + 1)
    OBVIOUS
  <2>2. PICK f : Table(f, n)
    BY <1>1, <1>3, <2>1
  <2> DEFINE last == f[n + 1] + FIELD_HEADER_SIZE + seq[n + 1].value.size
             g == [k \in 1..(n + 2) |-> IF k <= n + 1 THEN f[k] ELSE last]
  <2>3. f[n + 1] \in Int /\ seq[n + 1].value.size \in Int
    BY <1>1, <2>1, <2>2
  <2>4. last \in Int
    BY <2>3 DEF FIELD_HEADER_SIZE
  <2>5. g \in [1..(n + 2) -> Int] /\ g[n + 2] = last /\ \A k \in 1..(n + 1) : g[k] = f[k]
    BY <2>2, <2>4
  <2>6. g[1] = HEADER_SIZE
    BY <2>2, <2>5
  <2> HIDE DEF g
  <2>7. ASSUME NEW k \in 2..(n + 2) PROVE g[k] = Next2(g, k)
    <3>1. CASE k = n + 2
      <4>1. k - 1 = n + 1 /\ n + 1 \in 1..(n + 1)
        BY <3>1
      <4>2. QED
        BY <2>5, <3>1, <4>1
    <3>2. CASE k # n + 2
      <4>1. k \in 2..(n + 1) /\ k \in 1..(n + 1) /\ k - 1 \in 1..(n + 1)
        BY <3>2
      <4>2. QED
        BY <2>2, <2>5, <4>1
    <3>3. QED
      BY <3>1, <3>2
  <2>8. n + 2 = (n + 1) + 1
    OBVIOUS
  <2>9. Table(g, n + 1)
    BY <2>5, <2>6, <2>7, <2>8
  <2>10. QED
    BY <2>9
<1>4. L \in S
  <2> HIDE DEF S
  <2>1. \A n \in Nat : n \in S => n + 1 \in S
    BY <1>3
  <2>2. Nat \subseteq S
    BY <1>2, <2>1, NatsIn
  <2>3. QED
    BY <1>1, <2>2
<1>5. PICK f : Table(f, L)
  BY <1>1, <1>4
<1>6. OffsetTable(seq, f)
  <2>1. \A k \in 1..(L + 1) : k = 1 \/ k \in 2..(L + 1)
    BY <1>1
  <2>2. \A k \in 1..(L + 1) :
          f[k] = IF k = 1 THEN HEADER_SIZE
                 ELSE f[k - 1] + FIELD_HEADER_SIZE + seq[k - 1].value.size
    BY <1>5, <2>1
  <2>3. f = [k \in 1..(L + 1) |-> f[k]]
    BY <1>5
  <2>4. QED
    BY <2>2, <2>3 DEF OffsetTable
<1>7. QED
  BY <1>6

(* Offsets count the header and, for each field before, its header and its   *)
(* payload                                                                  *)
LEMMA Offsets ==
  ASSUME NEW seq \in Seq(FieldRec)
  PROVE  /\ Offset(seq, 1) = HEADER_SIZE
         /\ \A k \in 1..(Len(seq) + 1) :
              Offset(seq, k) \in Nat /\ Offset(seq, k) >= 24 + 12 * (k - 1)
         /\ \A k \in 1..Len(seq) :
              Offset(seq, k + 1) = Offset(seq, k) + 12 + seq[k].value.size
         /\ \A j, k \in 1..(Len(seq) + 1) : j <= k => Offset(seq, j) <= Offset(seq, k)
<1> DEFINE at == CHOOSE f : OffsetTable(seq, f)
           L == Len(seq)
<1>1. OffsetTable(seq, at)
  BY OffsetTableExists
<1>2. \A i : Offset(seq, i) = at[i]
  BY DEF Offset, OffsetTable
<1> HIDE DEF at
<1>3. L \in Nat /\ \A k \in 1..L : seq[k].value.size \in Nat
  BY FieldTypes
<1>4. at[1] = 24
  BY <1>1, <1>3 DEF OffsetTable, HEADER_SIZE
<1>5. ASSUME NEW k \in 1..L PROVE at[k + 1] = at[k] + 12 + seq[k].value.size
  <2>1. k + 1 \in 1..(L + 1) /\ k + 1 # 1 /\ k + 1 - 1 = k
    BY <1>3
  <2>2. QED
    BY <1>1, <2>1 DEF OffsetTable, FIELD_HEADER_SIZE
<1> DEFINE S == {n \in Nat : n <= L =>
                   /\ at[n + 1] \in Nat /\ at[n + 1] >= 24 + 12 * n
                   /\ \A j \in 1..(n + 1) : at[j] \in Nat /\ at[j] <= at[n + 1]}
<1>6. 0 \in S
  <2>1. \A j \in 1..(0 + 1) : j = 1
    OBVIOUS
  <2>2. QED
    BY <1>4, <2>1
<1>7. ASSUME NEW n \in Nat, n \in S PROVE n + 1 \in S
  <2>1. SUFFICES ASSUME n + 1 <= L
                 PROVE  /\ at[n + 2] \in Nat /\ at[n + 2] >= 24 + 12 * (n + 1)
                        /\ \A j \in 1..(n + 2) : at[j] \in Nat /\ at[j] <= at[n + 2]
    OBVIOUS
  <2>2. n <= L /\ n + 1 \in 1..L /\ n + 1 + 1 = n + 2
    BY <1>3, <2>1
  <2>3. /\ at[n + 1] \in Nat /\ at[n + 1] >= 24 + 12 * n
        /\ \A j \in 1..(n + 1) : at[j] \in Nat /\ at[j] <= at[n + 1]
    BY <1>7, <2>2
  <2>4. at[n + 2] = at[n + 1] + 12 + seq[n + 1].value.size /\ seq[n + 1].value.size \in Nat
    BY <1>3, <1>5, <2>2
  <2>5. at[n + 2] \in Nat /\ at[n + 2] >= 24 + 12 * (n + 1) /\ at[n + 1] <= at[n + 2]
    <3>1. \A x, z \in Nat : x >= 24 + 12 * n =>
            x + 12 + z \in Nat /\ x + 12 + z >= 24 + 12 * (n + 1) /\ x <= x + 12 + z
      OBVIOUS
    <3>2. QED
      BY <2>3, <2>4, <3>1
  <2>6. ASSUME NEW j \in 1..(n + 2) PROVE at[j] \in Nat /\ at[j] <= at[n + 2]
    <3>1. j \in 1..(n + 1) \/ j = n + 2
      OBVIOUS
    <3>2. QED
      BY <2>3, <2>5, <3>1
  <2>7. QED
    BY <2>5, <2>6
<1>8. \A n \in Nat : n \in S
  <2> HIDE DEF S
  <2>1. \A n \in Nat : n \in S => n + 1 \in S
    BY <1>7
  <2>2. QED
    BY <1>6, <2>1, NatsIn
<1>9. ASSUME NEW k \in 1..(L + 1)
      PROVE  /\ at[k] \in Nat /\ at[k] >= 24 + 12 * (k - 1)
             /\ \A j \in 1..k : at[j] <= at[k]
  <2>1. k - 1 \in Nat /\ k - 1 <= L /\ (k - 1) + 1 = k
    BY <1>3
  <2>2. k - 1 \in S
    BY <1>8, <2>1
  <2>3. QED
    BY <2>1, <2>2
<1>10. \A j, k \in 1..(L + 1) : j <= k => at[j] <= at[k]
  BY <1>9
<1> HIDE DEF L
<1>11. QED
  BY <1>2, <1>4, <1>5, <1>9, <1>10 DEF HEADER_SIZE, L

---------------------------------------------------------------------------
(* Sorting *)

(* Neighbours in order, all in order *)
LEMMA AllIncreasing ==
  ASSUME NEW seq \in Seq(FieldRec),
         \A i \in 2..Len(seq) : seq[i - 1].id < seq[i].id
  PROVE  Increasing(seq)
<1> DEFINE L == Len(seq)
           Apart(d) == \A i, j \in 1..L : j = i + d + 1 => seq[i].id < seq[j].id
           S == {d \in Nat : Apart(d)}
<1>1. L \in Nat /\ \A i \in 1..L : seq[i].id \in Nat
  BY FieldTypes
<1>2. ASSUME NEW i \in 1..L, i + 1 <= L PROVE seq[i].id < seq[i + 1].id
  <2>1. i + 1 \in 2..L /\ i + 1 - 1 = i
    BY <1>1, <1>2
  <2>2. QED
    BY <2>1
<1>3. 0 \in S
  BY <1>1, <1>2
<1>4. ASSUME NEW d \in Nat, d \in S PROVE d + 1 \in S
  <2>1. SUFFICES ASSUME NEW i \in 1..L, NEW k \in 1..L, k = i + (d + 1) + 1
                 PROVE  seq[i].id < seq[k].id
    OBVIOUS
  <2> DEFINE j == i + d + 1
  <2>2. j \in 1..L /\ k = j + 1 /\ j + 1 <= L
    BY <1>1, <2>1
  <2>3. seq[i].id < seq[j].id
    BY <1>4, <2>2
  <2> HIDE DEF j
  <2>4. seq[j].id < seq[k].id
    BY <1>2, <2>2
  <2>5. seq[i].id \in Nat /\ seq[j].id \in Nat /\ seq[k].id \in Nat
    BY <1>1, <2>2
  <2>6. \A x, y, z \in Nat : x < y /\ y < z => x < z
    OBVIOUS
  <2>7. QED
    BY <2>3, <2>4, <2>5, <2>6
<1>5. \A d \in Nat : d \in S
  <2> HIDE DEF S
  <2>1. \A d \in Nat : d \in S => d + 1 \in S
    BY <1>4
  <2>2. QED
    BY <1>3, <2>1, NatsIn
<1>6. ASSUME NEW i \in 1..L, NEW j \in 1..L, i < j PROVE seq[i].id < seq[j].id
  <2>1. j - i - 1 \in Nat /\ i + (j - i - 1) + 1 = j
    BY <1>6
  <2>2. j - i - 1 \in S
    BY <1>5, <2>1
  <2>3. QED
    BY <2>1, <2>2
<1>7. QED
  BY <1>6 DEF Increasing

OneField(F) == \A f, g \in F : f.id = g.id => f = g

SortedTo(F, n, t) ==
  /\ t \in [1..n -> F]
  /\ \A f \in F : \E k \in 1..n : t[k] = f
  /\ \A i, j \in 1..n : i < j => t[i].id < t[j].id

(* Fields with different identifiers can be put in their order *)
LEMMA SortedExists ==
  ASSUME NEW F \in SUBSET FieldRec, IsFiniteSet(F), OneField(F)
  PROVE  \E t : SortedTo(F, Cardinality(F), t)
<1> DEFINE S == {n \in Nat : \A G \in SUBSET FieldRec :
                   IsFiniteSet(G) /\ Cardinality(G) = n /\ OneField(G) =>
                     \E t : SortedTo(G, n, t)}
<1>1. 0 \in S
  <2>1. SUFFICES ASSUME NEW G \in SUBSET FieldRec, IsFiniteSet(G), Cardinality(G) = 0
                 PROVE  \E t : SortedTo(G, 0, t)
    OBVIOUS
  <2>2. G = {}
    BY <2>1, FS_EmptySet
  <2>3. SortedTo(G, 0, [k \in 1..0 |-> {}])
    BY <2>2 DEF SortedTo
  <2>4. QED
    BY <2>3
<1>2. ASSUME NEW n \in Nat, n \in S PROVE n + 1 \in S
  <2>1. SUFFICES ASSUME NEW G \in SUBSET FieldRec, IsFiniteSet(G),
                        Cardinality(G) = n + 1, OneField(G)
                 PROVE  \E t : SortedTo(G, n + 1, t)
    OBVIOUS
  <2> DEFINE ids == {f.id : f \in G}
  <2>2. ids \in SUBSET Nat /\ ids # {}
    <3>1. G # {}
      BY <2>1, FS_EmptySet
    <3>2. \A f \in G : f.id \in Nat
      BY DEF FieldRec
    <3>3. QED
      BY <3>1, <3>2
  <2>3. PICK low \in ids : \A x \in ids : low <= x
    BY <2>2, LeastNat
  <2>4. PICK m \in G : m.id = low
    BY <2>3
  <2> DEFINE H == G \ {m}
  <2>5. IsFiniteSet(H) /\ Cardinality(H) = n /\ H \in SUBSET FieldRec /\ OneField(H)
    <3>1. IsFiniteSet(H) /\ Cardinality(H) = Cardinality(G) - 1
      BY <2>1, <2>4, FS_RemoveElement
    <3>2. Cardinality(H) = n
      BY <2>1, <3>1
    <3>3. OneField(H)
      BY <2>1 DEF OneField
    <3>4. QED
      BY <3>1, <3>2, <3>3
  <2>6. ASSUME NEW f \in H PROVE m.id < f.id
    <3>1. m.id <= f.id /\ m.id # f.id
      BY <2>1, <2>3, <2>4 DEF OneField
    <3>2. m.id \in Nat /\ f.id \in Nat
      BY <2>2
    <3>3. QED
      BY <3>1, <3>2
  <2>7. PICK t : SortedTo(H, n, t)
    BY <1>2, <2>5
  <2> DEFINE u == [k \in 1..(n + 1) |-> IF k = 1 THEN m ELSE t[k - 1]]
  <2>8. ASSUME NEW k \in 1..(n + 1), k # 1 PROVE k - 1 \in 1..n /\ u[k] = t[k - 1] /\ t[k - 1] \in H
    <3>1. k - 1 \in 1..n
      BY <2>8
    <3>2. QED
      BY <2>7, <2>8, <3>1 DEF SortedTo
  <2>9. u[1] = m
    OBVIOUS
  <2>10. u \in [1..(n + 1) -> G]
    BY <2>8
  <2> HIDE DEF u
  <2>11. ASSUME NEW f \in G PROVE \E k \in 1..(n + 1) : u[k] = f
    <3>1. CASE f = m
      BY <2>9, <3>1
    <3>2. CASE f # m
      <4>1. PICK k \in 1..n : t[k] = f
        BY <2>7, <3>2 DEF SortedTo
      <4>2. k + 1 \in 1..(n + 1) /\ k + 1 # 1 /\ k + 1 - 1 = k
        OBVIOUS
      <4>3. u[k + 1] = f
        BY <2>8, <4>1, <4>2
      <4>4. QED
        BY <4>2, <4>3
    <3>3. QED
      BY <3>1, <3>2
  <2>12. ASSUME NEW i \in 1..(n + 1), NEW j \in 1..(n + 1), i < j
         PROVE  u[i].id < u[j].id
    <3>1. j # 1
      BY <2>12
    <3>2. CASE i = 1
      BY <2>6, <2>8, <2>9, <3>1, <3>2
    <3>3. CASE i # 1
      <4>1. i - 1 < j - 1
        BY <2>12
      <4>2. QED
        BY <2>7, <2>8, <3>1, <3>3, <4>1 DEF SortedTo
    <3>4. QED
      BY <3>2, <3>3
  <2>13. SortedTo(G, n + 1, u)
    BY <2>10, <2>11, <2>12 DEF SortedTo
  <2>14. QED
    BY <2>13
<1>3. \A n \in Nat : n \in S
  <2> HIDE DEF S
  <2>1. \A n \in Nat : n \in S => n + 1 \in S
    BY <1>2
  <2>2. QED
    BY <1>1, <2>1, NatsIn
<1>4. Cardinality(F) \in Nat
  BY FS_CardinalityType
<1>5. Cardinality(F) \in S
  BY <1>3, <1>4
<1>6. QED
  BY <1>5

(* A sequence of fields with different identifiers holds as many as it is    *)
(* long                                                                     *)
LEMMA DistinctSet ==
  ASSUME NEW seq \in Seq(FieldRec), Distinct(seq)
  PROVE  /\ ToSet(seq) \in SUBSET FieldRec /\ OneField(ToSet(seq))
         /\ IsFiniteSet(ToSet(seq)) /\ Cardinality(ToSet(seq)) = Len(seq)
<1> DEFINE L == Len(seq)
           F == ToSet(seq)
<1>1. L \in Nat /\ seq \in [1..L -> FieldRec] /\ DOMAIN seq = 1..L
  BY FieldTypes
<1>2. F = {seq[k] : k \in 1..L}
  BY <1>1 DEF ToSet
<1>3. F \in SUBSET FieldRec /\ OneField(F)
  BY <1>1, <1>2 DEF OneField, Distinct
<1>4. seq \in Bijection(1..L, F)
  BY <1>1, <1>2 DEF Distinct, Bijection, Injection, Surjection, IsInjective
<1>5. IsFiniteSet(1..L) /\ Cardinality(1..L) = L
  BY <1>1, FS_Interval
<1>6. IsFiniteSet(F) /\ Cardinality(F) = L
  BY <1>4, <1>5, FS_Bijection DEF ExistsBijection
<1>7. QED
  BY <1>3, <1>6

(* sort_unstable_by_key leaves the fields, in strictly increasing order *)
LEMMA SortedFields ==
  ASSUME written \in Seq(FieldRec), Distinct(written)
  PROVE  /\ Sorted \in Seq(FieldRec) /\ Len(Sorted) = Len(written)
         /\ ToSet(Sorted) = ToSet(written)
         /\ Increasing(Sorted)
<1> DEFINE n == Len(written)
           F == ToSet(written)
           Is(seq) == /\ seq \in [1..n -> F]
                      /\ ToSet(seq) = F
                      /\ \A i, j \in 1..n : i < j => seq[i].id <= seq[j].id
<1>1. F \in SUBSET FieldRec /\ OneField(F) /\ IsFiniteSet(F) /\ Cardinality(F) = n
  BY DistinctSet
<1>2. n \in Nat
  BY FieldTypes
<1>3. PICK t : SortedTo(F, n, t)
  BY <1>1, SortedExists
<1>4. Is(t)
  <2>1. ToSet(t) = F
    BY <1>3 DEF SortedTo, ToSet
  <2>2. \A i \in 1..n : t[i].id \in Nat
    BY <1>1, <1>3 DEF SortedTo, FieldRec
  <2>3. \A i, j \in 1..n : i < j => t[i].id <= t[j].id
    BY <1>3, <2>2 DEF SortedTo
  <2>4. QED
    BY <1>3, <2>1, <2>3 DEF SortedTo
<1>5. Is(Sorted)
  <2>1. Sorted = CHOOSE seq \in [1..n -> F] :
                   /\ ToSet(seq) = F
                   /\ \A i, j \in 1..n : i < j => seq[i].id <= seq[j].id
    BY DEF Sorted
  <2>2. \E seq \in [1..n -> F] :
                   /\ ToSet(seq) = F
                   /\ \A i, j \in 1..n : i < j => seq[i].id <= seq[j].id
    BY <1>4
  <2> HIDE DEF F, n
  <2>3. QED
    BY <2>1, <2>2
<1> DEFINE s == Sorted
<1>6. s \in [1..n -> F] /\ ToSet(s) = F /\ \A i, j \in 1..n : i < j => s[i].id <= s[j].id
  BY <1>5
<1> HIDE DEF s
<1>7. s \in Seq(FieldRec) /\ Len(s) = n /\ DOMAIN s = 1..n
  BY <1>1, <1>2, <1>6
<1>8. s \in Injection(1..n, F)
  <2>1. s \in Surjection(1..n, F)
    BY <1>6, <1>7 DEF ToSet, Surjection
  <2>2. IsFiniteSet(1..n) /\ Cardinality(1..n) = n
    BY <1>2, FS_Interval
  <2>3. QED
    BY <1>1, <2>1, <2>2, FS_Surjection
<1>9. ASSUME NEW i \in 1..n, NEW j \in 1..n, i < j PROVE s[i].id < s[j].id
  <2>1. s[i] # s[j]
    BY <1>2, <1>8, <1>9 DEF Injection, IsInjective
  <2>2. s[i].id # s[j].id
    BY <1>1, <1>6, <2>1 DEF OneField
  <2>3. s[i].id \in Nat /\ s[j].id \in Nat
    BY <1>7, FieldTypes
  <2>4. QED
    BY <1>6, <1>9, <2>2, <2>3
<1>10. QED
  BY <1>6, <1>7, <1>9 DEF s, Increasing

---------------------------------------------------------------------------
(* The invariant *)

Outcome == {"absent", "found", "invalid", "twice"}
ReadRec == [id : Ids, outcome : Outcome, held : SUBSET Value]

EvolutionTypeOK ==
  /\ written \in Seq(FieldRec)
  /\ frame.count \in Nat /\ frame.fields \in Seq(FieldRec)
  /\ size \in Nat
  /\ fields \in Seq(FieldRec)
  /\ consumed \in SUBSET (1..Len(fields))
  /\ reads \in Seq(ReadRec)

(* what has arrived is what the writer made of its fields, within its limits *)
FromWriter ==
  /\ frame = FrameOf(Sorted) /\ size = FrameSize(Sorted)
  /\ ~Exceeds(Len(written), config.collection_limit)
  /\ ~Exceeds(size, config.limit)

(* a frame that was accepted is there in full, with its fields in order *)
Accepted ==
  LET full == Offset(frame.fields, frame.count + 1)
  IN  /\ size >= full /\ (config.rejectTrailing => size = full)
      /\ frame.count <= Len(frame.fields)
      /\ fields = SubSeq(frame.fields, 1, frame.count)

(* the outcome of a call tells whether the field was there; if so, it is     *)
(* consumed, and found or invalid shows its value                           *)
ReadOK(r) ==
  /\ r.outcome = "absent" <=> Matches(r.id) = {}
  /\ Matches(r.id) \subseteq consumed
  /\ r.outcome \in {"found", "invalid"} => r.held = {fields[k].value : k \in Matches(r.id)}

EvolutionInv ==
  /\ EvolutionTypeOK
  /\ Distinct(written)
  /\ Increasing(fields)
  /\ phase \in {"encode", "sent", "decode", "done"}
  /\ phase = "encode" => size = 0
  /\ phase \in {"encode", "sent"} => fields = <<>> /\ reads = <<>> /\ consumed = {}
  /\ intact /\ phase = "sent" => size > 0
  /\ intact /\ size > 0 => FromWriter
  /\ phase = "decode" => size > 0 /\ Accepted
  /\ intact /\ size > 0 /\ phase \in {"decode", "done"} => fields = Sorted
  /\ intact /\ size > 0 /\ phase = "done" => result = "ok"
  /\ reads # <<>> => size > 0 /\ phase \in {"decode", "done"}
  /\ \A i \in 1..Len(reads) : ReadOK(reads[i])
  /\ \A i, j \in 1..Len(reads) :
       i < j /\ reads[i].id = reads[j].id /\ reads[i].outcome # "absent" =>
         reads[j].outcome = "twice"

LEMMA EvolutionInit == Init => EvolutionInv
<1> SUFFICES ASSUME Init PROVE EvolutionInv
  OBVIOUS
<1> USE DEF Init
<1>1. <<>> \in Seq(FieldRec) /\ <<>> \in Seq(ReadRec) /\ Len(<<>>) = 0
  BY EmptySeq
<1>2. frame.count = 0 /\ frame.fields = <<>>
  BY <1>1 DEF FrameOf
<1>3. EvolutionTypeOK
  <2>1. written = <<>> /\ fields = <<>> /\ consumed = {} /\ reads = <<>> /\ size = 0
    OBVIOUS
  <2>2. frame.count \in Nat /\ frame.fields \in Seq(FieldRec)
    <3> HIDE DEF Init
    <3>1. QED
      BY <1>1, <1>2
  <2>3. written \in Seq(FieldRec) /\ fields \in Seq(FieldRec) /\ reads \in Seq(ReadRec)
        /\ consumed \in SUBSET (1..Len(fields)) /\ size \in Nat
    <3> HIDE DEF Init
    <3>1. QED
      BY <1>1, <2>1
  <2> HIDE DEF Init
  <2>4. QED
    BY <2>2, <2>3 DEF EvolutionTypeOK
<1>4. QED
  BY <1>1, <1>3 DEF EvolutionInv, Distinct, Increasing

(* FieldEncoder::field keeps the identifiers different *)
LEMMA FieldInv ==
  ASSUME EvolutionInv, NEW id \in Ids, NEW v \in Values, Field(id, v)
  PROVE  EvolutionInv'
<1> USE DEF Field
<1> DEFINE f == [id |-> id, value |-> v]
<1>1. f \in FieldRec /\ f.id = id
  BY IdsAssumption, ValuesAssumption DEF FieldRec, Value
<1>2. written \in Seq(FieldRec) /\ Distinct(written) /\ phase = "encode" /\ size = 0
  BY DEF EvolutionInv, EvolutionTypeOK
<1>3. UNCHANGED <<config, phase, frame, size, intact, fields, consumed, reads, result>>
  OBVIOUS
<1>4. written' = written \/ (~Duplicate(id) /\ written' = Append(written, f))
  OBVIOUS
<1> HIDE DEF f
<1>5. written' \in Seq(FieldRec) /\ Distinct(written')
  <2>1. CASE ~Duplicate(id) /\ written' = Append(written, f)
    <3> DEFINE n == Len(written)
    <3>1. /\ n \in Nat /\ Len(written') = n + 1 /\ written' \in Seq(FieldRec)
          /\ \A i \in 1..n : written'[i] = written[i]
          /\ written'[n + 1] = f
      BY <1>1, <1>2, <2>1, AppendProperties
    <3>2. \A i \in 1..n : written[i].id # id
      BY <2>1 DEF Duplicate
    <3> HIDE DEF n
    <3>3. ASSUME NEW i \in 1..(n + 1), NEW j \in 1..(n + 1), written'[i].id = written'[j].id
          PROVE  i = j
      <4>1. (i \in 1..n \/ i = n + 1) /\ (j \in 1..n \/ j = n + 1)
        BY <3>1
      <4>2. \A k, l \in 1..n : written[k].id = written[l].id => k = l
        BY <1>2 DEF Distinct, n
      <4>3. QED
        BY <1>1, <3>1, <3>2, <3>3, <4>1, <4>2
    <3>4. QED
      BY <3>1, <3>3 DEF Distinct
  <2>2. QED
    BY <1>2, <1>4, <2>1
<1>6. EvolutionTypeOK' /\ Distinct(written)'
  BY <1>3, <1>5 DEF EvolutionInv, EvolutionTypeOK, Distinct
<1>7. reads = <<>> /\ fields = <<>> /\ consumed = {} /\ Len(<<>>) = 0
  BY <1>2 DEF EvolutionInv
<1>8. QED
  BY <1>2, <1>3, <1>6, <1>7 DEF EvolutionInv, Increasing

(* FieldEncoder::finish *)
LEMMA FinishInv ==
  ASSUME EvolutionInv, Finish
  PROVE  EvolutionInv'
<1> USE DEF Finish
<1>1. /\ written \in Seq(FieldRec) /\ Distinct(written) /\ phase = "encode" /\ size = 0
      /\ reads = <<>> /\ fields = <<>> /\ consumed = {} /\ Len(<<>>) = 0
  BY DEF EvolutionInv, EvolutionTypeOK
<1>2. /\ Sorted \in Seq(FieldRec) /\ Len(Sorted) = Len(written) /\ Len(Sorted) \in Nat
  BY <1>1, SortedFields
<1>3. UNCHANGED <<config, written, intact, fields, consumed, reads>>
  OBVIOUS
<1>4. CASE phase' = "done"
  <2>1. UNCHANGED <<frame, size>>
    BY <1>4
  <2>2. EvolutionTypeOK'
    BY <1>3, <2>1 DEF EvolutionInv, EvolutionTypeOK
  <2>3. QED
    BY <1>1, <1>3, <1>4, <2>1, <2>2 DEF EvolutionInv, Increasing, Distinct
<1>5. CASE phase' # "done"
  <2>1. /\ phase' = "sent" /\ frame' = FrameOf(Sorted) /\ size' = FrameSize(Sorted)
        /\ ~Exceeds(Len(written), config.collection_limit)
        /\ ~Exceeds(FrameSize(Sorted), config.limit)
    BY <1>5
  <2>2. FrameSize(Sorted) \in Nat /\ FrameSize(Sorted) > 0
    <3>1. Len(Sorted) + 1 \in 1..(Len(Sorted) + 1) /\ Len(Sorted) + 1 - 1 = Len(Sorted)
      BY <1>2
    <3>2. /\ Offset(Sorted, Len(Sorted) + 1) \in Nat
          /\ Offset(Sorted, Len(Sorted) + 1) >= 24 + 12 * (Len(Sorted) + 1 - 1)
      BY <1>2, <3>1, Offsets
    <3>3. QED
      BY <1>2, <3>1, <3>2 DEF FrameSize
  <2>3. frame'.count = Len(Sorted) /\ frame'.fields = Sorted
    BY <2>1 DEF FrameOf
  <2>4. EvolutionTypeOK'
    BY <1>1, <1>2, <1>3, <2>1, <2>2, <2>3 DEF EvolutionInv, EvolutionTypeOK
  <2>5. Sorted' = Sorted
    BY <1>3 DEF Sorted
  <2>6. FromWriter'
    BY <1>3, <2>1, <2>5 DEF FromWriter
  <2>7. QED
    BY <1>1, <1>3, <2>1, <2>2, <2>4, <2>6 DEF EvolutionInv, Increasing, Distinct
<1>6. QED
  BY <1>4, <1>5

(* the transport *)
LEMMA TransportInv ==
  ASSUME EvolutionInv,
         \/ \E n \in 0..(FrameSize(frame.fields) + 1) : Cut(n)
         \/ \E f \in Foreign : Replace(f)
  PROVE  EvolutionInv'
<1>1. /\ phase = "sent" /\ intact' = FALSE
      /\ UNCHANGED <<config, phase, calls, written, fields, consumed, reads, result>>
  BY DEF Cut, Replace
<1>2. size' \in Nat /\ frame'.count \in Nat /\ frame'.fields \in Seq(FieldRec)
  <2>1. ASSUME NEW seq \in Seq(FieldRec) PROVE FrameSize(seq) \in Nat
    <3>1. Len(seq) + 1 \in 1..(Len(seq) + 1)
      BY FieldTypes
    <3>2. QED
      BY <3>1, Offsets DEF FrameSize
  <2>2. ASSUME NEW n \in 0..(FrameSize(frame.fields) + 1), Cut(n)
        PROVE  size' \in Nat /\ frame' = frame
    BY <2>1, <2>2 DEF Cut, EvolutionInv, EvolutionTypeOK
  <2>3. ASSUME NEW f \in Foreign, Replace(f)
        PROVE  size' \in Nat /\ frame'.count \in Nat /\ frame'.fields \in Seq(FieldRec)
    <3>1. frame' = f /\ size' = FrameSize(f.fields)
      BY <2>3 DEF Replace
    <3>2. f.count \in Nat /\ f.fields \in Seq(FieldRec)
      BY ForeignAssumption DEF FieldRec, Value
    <3>3. QED
      BY <2>1, <3>1, <3>2
  <2>4. QED
    BY <2>2, <2>3 DEF EvolutionInv, EvolutionTypeOK
<1>3. EvolutionTypeOK'
  BY <1>1, <1>2 DEF EvolutionInv, EvolutionTypeOK
<1>4. reads = <<>> /\ fields = <<>> /\ consumed = {} /\ Len(<<>>) = 0
  BY <1>1 DEF EvolutionInv
<1>5. QED
  BY <1>1, <1>3, <1>4 DEF EvolutionInv, Increasing, Distinct

(* A table without an error holds all fields of the frame in their order      *)
LEMMA TableOK ==
  ASSUME EvolutionInv, \A i \in 1..frame.count : FieldError(i) = None
  PROVE  /\ frame.count <= Len(frame.fields)
         /\ \A i, j \in 1..frame.count : i < j => frame.fields[i].id < frame.fields[j].id
         /\ frame.count > 0 => Offset(frame.fields, frame.count + 1) <= size
<1> DEFINE seq == frame.fields
           n == frame.count
<1>1. /\ seq \in Seq(FieldRec) /\ n \in Nat /\ size \in Nat /\ Len(seq) \in Nat
      /\ \A i \in 1..Len(seq) : seq[i].id \in Nat
  BY FieldTypes DEF EvolutionInv, EvolutionTypeOK
<1>2. ASSUME NEW i \in 1..n
      PROVE  /\ ~(i > Len(seq))
             /\ ~(i > 1 /\ seq[i].id <= seq[i - 1].id)
             /\ ~(Offset(seq, i + 1) > size)
  BY DEF FieldError, None
<1>3. n <= Len(seq)
  <2>1. CASE n = 0
    BY <1>1, <2>1
  <2>2. CASE n > 0
    BY <1>1, <1>2, <2>2
  <2>3. QED
    BY <1>1, <2>1, <2>2
<1> DEFINE first == SubSeq(seq, 1, n)
<1>4. first \in Seq(FieldRec) /\ Len(first) = n /\ \A i \in 1..n : first[i] = seq[i]
  <2>1. \A i \in 1..n : seq[i] \in FieldRec
    BY <1>1, <1>3
  <2>2. /\ first \in Seq(FieldRec)
        /\ Len(first) = IF 1 <= n THEN n - 1 + 1 ELSE 0
        /\ \A i \in 1..(n - 1 + 1) : first[i] = seq[1 + i - 1]
    BY <1>1, <1>3, <2>1, SubSeqProperties
  <2> HIDE DEF first
  <2>3. QED
    BY <1>1, <2>2
<1> HIDE DEF first
<1>5. Increasing(first)
  <2>1. ASSUME NEW i \in 2..n PROVE first[i - 1].id < first[i].id
    <3>1. i \in 1..n /\ i - 1 \in 1..n /\ i > 1 /\ i \in 1..Len(seq) /\ i - 1 \in 1..Len(seq)
      BY <1>1, <1>3
    <3>2. ~(seq[i].id <= seq[i - 1].id) /\ seq[i].id \in Nat /\ seq[i - 1].id \in Nat
      BY <1>1, <1>2, <3>1
    <3>3. first[i] = seq[i] /\ first[i - 1] = seq[i - 1]
      BY <1>4, <3>1
    <3>4. QED
      BY <3>2, <3>3
  <2>2. QED
    BY <1>4, <2>1, AllIncreasing
<1>6. ASSUME n > 0 PROVE Offset(seq, n + 1) <= size
  <2>1. n \in 1..n /\ n + 1 \in 1..(Len(seq) + 1)
    BY <1>1, <1>3, <1>6
  <2>2. ~(Offset(seq, n + 1) > size)
    BY <1>2, <2>1
  <2>3. Offset(seq, n + 1) \in Nat
    BY <1>1, <2>1, Offsets
  <2>4. QED
    BY <1>1, <2>2, <2>3
<1>7. \A i, j \in 1..n : i < j => seq[i].id < seq[j].id
  BY <1>4, <1>5 DEF Increasing
<1>8. QED
  BY <1>3, <1>6, <1>7

(* The writer's frame, as it was sent, is accepted                             *)
LEMMA WriterAccepted ==
  ASSUME EvolutionInv, FromWriter
  PROVE  FrameError = None
<1> DEFINE n == Len(Sorted)
<1>1. /\ Sorted \in Seq(FieldRec) /\ n = Len(written) /\ n \in Nat /\ Increasing(Sorted)
      /\ \A k \in 1..n : Sorted[k].id \in Nat
  <2>1. written \in Seq(FieldRec) /\ Distinct(written)
    BY DEF EvolutionInv, EvolutionTypeOK
  <2>2. QED
    BY <2>1, SortedFields, FieldTypes
<1>2. /\ frame.header = "RBE1" /\ frame.schema = SCHEMA_ID
      /\ frame.count = n /\ frame.fields = Sorted
      /\ size = Offset(Sorted, n + 1)
      /\ ~Exceeds(n, config.collection_limit) /\ ~Exceeds(size, config.limit)
  BY <1>1 DEF FromWriter, FrameOf, FrameSize
<1> HIDE DEF n
<1>3. /\ \A k \in 1..(n + 1) : /\ Offset(Sorted, k) \in Nat
                               /\ Offset(Sorted, k) >= 24 + 12 * (k - 1)
                               /\ Offset(Sorted, k) <= size
      /\ \A k \in 1..n : Offset(Sorted, k + 1) = Offset(Sorted, k) + 12 + Sorted[k].value.size
      /\ \A k \in 1..n : Sorted[k].value.size \in Nat
  <2>1. n + 1 \in 1..(n + 1) /\ \A k \in 1..(n + 1) : k <= n + 1
    BY <1>1
  <2>2. QED
    BY <1>1, <1>2, <2>1, Offsets, FieldTypes DEF n
<1>4. size \in Nat /\ size >= 24 + 12 * n
  <2>1. PICK m \in 1..(n + 1) : m = n + 1
    BY <1>1
  <2>2. Offset(Sorted, m) \in Nat /\ Offset(Sorted, m) >= 24 + 12 * (m - 1)
    BY <1>3
  <2>3. size = Offset(Sorted, m)
    BY <1>2, <2>1
  <2>4. m - 1 = n
    BY <1>1, <2>1
  <2>5. QED
    BY <2>2, <2>3, <2>4
<1>5. ASSUME NEW i \in 1..n PROVE FieldError(i) = None
  <2>1. /\ i \in 1..(n + 1) /\ i + 1 \in 1..(n + 1) /\ ~(i > n)
        /\ i > 1 => i - 1 \in 1..n
    BY <1>1
  <2> DEFINE here == Offset(Sorted, i)
             next == Offset(Sorted, i + 1)
             held == Sorted[i].value.size
  <2>2. here \in Nat /\ next \in Nat /\ next <= size /\ next = here + 12 + held /\ held \in Nat
    BY <1>3, <2>1
  <2> HIDE DEF held
  <2>3. ~(here + 4 > size) /\ ~(next > size)
    BY <1>4, <2>2
  <2> HIDE DEF here, next
  <2>4. ~(i > 1 /\ Sorted[i].id <= Sorted[i - 1].id)
    <3>1. CASE i > 1
      <4>1. i - 1 \in 1..n /\ i - 1 < i
        BY <2>1, <3>1
      <4>2. Sorted[i - 1].id < Sorted[i].id
        BY <1>1, <4>1 DEF Increasing, n
      <4>3. Sorted[i - 1].id \in Nat /\ Sorted[i].id \in Nat
        BY <1>1, <4>1
      <4>4. QED
        BY <4>2, <4>3
    <3>2. QED
      BY <3>1
  <2>5. QED
    BY <1>2, <2>1, <2>3, <2>4 DEF FieldError, here, next, n
<1>6. TableError = None
  BY <1>2, <1>5 DEF TableError
<1>7. /\ ~(size < 4) /\ ~(size < 16) /\ ~(size < 24)
      /\ ~(n * 12 > size - 24)
  BY <1>1, <1>4
<1>8. QED
  BY <1>2, <1>6, <1>7 DEF FrameError, HEADER_SIZE, FIELD_HEADER_SIZE

(* A table that shows no error has none at any field *)
LEMMA TableFree ==
  ASSUME TableError = None, frame.count \in Nat
  PROVE  \A i \in 1..frame.count : FieldError(i) = None
<1> DEFINE bad == {i \in 1..frame.count : FieldError(i) # None}
<1>1. SUFFICES ASSUME bad # {} PROVE FALSE
  OBVIOUS
<1>2. \E i \in bad : \A j \in bad : i <= j
  <2>1. bad \in SUBSET Nat
    OBVIOUS
  <2> HIDE DEF bad
  <2>2. QED
    BY <1>1, <2>1, LeastNat
<1> DEFINE first == CHOOSE i \in bad : \A j \in bad : i <= j
<1>3. first \in bad
  <2> HIDE DEF bad
  <2>1. QED
    BY <1>2
<1>4. TableError = FieldError(first)
  BY <1>1 DEF TableError
<1> HIDE DEF first
<1>5. QED
  BY <1>3, <1>4

(* deserialize: what is accepted is complete and in order, and the writer's    *)
(* frame is accepted                                                          *)
LEMMA DeserializeInv ==
  ASSUME EvolutionInv, Deserialize
  PROVE  EvolutionInv'
<1>1. /\ phase = "sent" /\ fields = <<>> /\ reads = <<>> /\ consumed = {} /\ Len(<<>>) = 0
      /\ UNCHANGED <<config, calls, written, frame, size, intact, consumed, reads>>
  BY DEF EvolutionInv, Deserialize
<1>2. FromWriter' = FromWriter /\ Sorted' = Sorted
  BY <1>1 DEF FromWriter, Sorted
<1>3. CASE FrameError # None
  <2>1. phase' = "done" /\ UNCHANGED fields
    BY <1>3 DEF Deserialize
  <2>2. ~ (intact /\ size > 0)
    BY <1>3, WriterAccepted DEF EvolutionInv
  <2>3. EvolutionTypeOK'
    BY <1>1, <2>1 DEF EvolutionInv, EvolutionTypeOK
  <2>4. QED
    BY <1>1, <1>2, <2>1, <2>2, <2>3 DEF EvolutionInv, Distinct, Increasing
<1>4. CASE FrameError = None
  <2> DEFINE n == frame.count
             seq == frame.fields
  <2>1. phase' = "decode" /\ fields' = SubSeq(seq, 1, n)
    BY <1>4 DEF Deserialize
  <2>2. /\ seq \in Seq(FieldRec) /\ n \in Nat /\ size \in Nat /\ Len(seq) \in Nat
        /\ \A i \in 1..Len(seq) : seq[i].id \in Nat /\ seq[i] \in FieldRec
    BY FieldTypes DEF EvolutionInv, EvolutionTypeOK
  <2>3. /\ ~(size < 24)
        /\ TableError = None
        /\ config.rejectTrailing => Offset(seq, n + 1) = size
    <3>1. /\ ~(size < HEADER_SIZE)
          /\ ~(TableError # None)
          /\ ~(config.rejectTrailing /\ Offset(seq, n + 1) # size)
      BY <1>4 DEF FrameError, None
    <3>2. QED
      BY <3>1 DEF HEADER_SIZE
  <2>4. /\ n <= Len(seq)
        /\ \A i, j \in 1..n : i < j => seq[i].id < seq[j].id
        /\ n > 0 => Offset(seq, n + 1) <= size
    BY <2>2, <2>3, TableFree, TableOK
  <2>5. size >= Offset(seq, n + 1) /\ size > 0
    <3>1. Offset(seq, 1) = 24 /\ Offset(seq, n + 1) \in Nat
      <4>1. n + 1 \in 1..(Len(seq) + 1)
        BY <2>2, <2>4
      <4>2. QED
        BY <2>2, <4>1, Offsets DEF HEADER_SIZE
    <3>2. n = 0 => n + 1 = 1
      OBVIOUS
    <3>3. QED
      BY <2>2, <2>3, <2>4, <3>1, <3>2
  <2>6. fields' \in Seq(FieldRec) /\ Len(fields') = n /\ \A i \in 1..n : fields'[i] = seq[i]
    <3>1. \A i \in 1..n : seq[i] \in FieldRec
      BY <2>2, <2>4
    <3>2. /\ SubSeq(seq, 1, n) \in Seq(FieldRec)
          /\ Len(SubSeq(seq, 1, n)) = IF 1 <= n THEN n - 1 + 1 ELSE 0
          /\ \A i \in 1..(n - 1 + 1) : SubSeq(seq, 1, n)[i] = seq[1 + i - 1]
      BY <2>2, <2>4, <3>1, SubSeqProperties
    <3>3. QED
      BY <2>1, <2>2, <3>2
  <2>7. Increasing(fields)'
    BY <2>4, <2>6 DEF Increasing
  <2>8. EvolutionTypeOK'
    BY <1>1, <2>6 DEF EvolutionInv, EvolutionTypeOK
  <2>9. Accepted'
    BY <1>1, <2>1, <2>3, <2>4, <2>5 DEF Accepted
  <2>10. ASSUME intact, size > 0 PROVE fields' = Sorted
    <3>1. seq = Sorted /\ n = Len(Sorted)
      BY <2>10 DEF EvolutionInv, FromWriter, FrameOf
    <3>2. \A i \in 1..n : fields'[i] = Sorted[i]
      BY <2>6, <3>1
    <3>3. Sorted \in Seq(FieldRec)
      BY <2>2, <3>1
    <3> HIDE DEF seq, n
    <3>4. QED
      BY <2>6, <3>1, <3>2, <3>3, SeqEqual
  <2>11. /\ Distinct(written)' /\ phase' = "decode" /\ reads' = <<>>
         /\ (intact /\ size > 0 => FromWriter)' /\ (size > 0)'
    BY <1>1, <1>2, <2>1, <2>5 DEF EvolutionInv, Distinct
  <2>12. QED
    BY <1>1, <1>2, <2>7, <2>8, <2>9, <2>10, <2>11 DEF EvolutionInv
<1>5. QED
  BY <1>3, <1>4

(* binary_search_by_key has one place to find *)
LEMMA OneMatch ==
  ASSUME EvolutionInv, NEW id, NEW i \in Matches(id)
  PROVE  Matches(id) = {i}
<1>1. fields \in Seq(FieldRec) /\ Increasing(fields)
  BY DEF EvolutionInv, EvolutionTypeOK
<1>2. /\ Len(fields) \in Nat /\ i \in 1..Len(fields) /\ fields[i].id = id
      /\ \A k \in 1..Len(fields) : fields[k].id \in Nat
  BY <1>1, FieldTypes DEF Matches
<1>3. ASSUME NEW k \in Matches(id) PROVE k = i
  <2>1. k \in 1..Len(fields) /\ fields[k].id = id
    BY DEF Matches
  <2>2. ~(k < i) /\ ~(i < k)
    BY <1>1, <1>2, <2>1 DEF Increasing
  <2>3. QED
    BY <1>2, <2>1, <2>2
<1>4. QED
  BY <1>3

(* FieldDecoder::optional *)
LEMMA OptionalInv ==
  ASSUME EvolutionInv, NEW id \in Ids, NEW type \in Types, Optional(id, type)
  PROVE  EvolutionInv'
<1> DEFINE Answers(r) ==
      /\ r.id = id
      /\ r.outcome = "absent" <=> Matches(id) = {}
      /\ r.outcome \in {"found", "invalid"} => r.held = {fields[k].value : k \in Matches(id)}
      /\ Matches(id) # {} /\ Matches(id) \subseteq consumed => r.outcome = "twice"
<1>1. /\ fields \in Seq(FieldRec) /\ consumed \in SUBSET (1..Len(fields))
      /\ reads \in Seq(ReadRec) /\ Len(reads) \in Nat
      /\ \A k \in 1..Len(fields) : fields[k].value \in Value
      /\ phase = "decode" /\ size > 0
  BY FieldTypes DEF EvolutionInv, EvolutionTypeOK, Optional
<1>2. UNCHANGED <<config, phase, written, frame, size, intact, fields, result>>
  BY DEF Optional
<1>3. \E r \in ReadRec : /\ reads' = Append(reads, r) /\ Answers(r)
                         /\ consumed \subseteq consumed' /\ Matches(id) \subseteq consumed'
                         /\ consumed' \in SUBSET (1..Len(fields))
  <2>1. CASE Matches(id) = {}
    <3> DEFINE r == Read(id, "absent", {})
    <3>1. reads' = Append(reads, r) /\ consumed' = consumed
      BY <2>1 DEF Optional
    <3>2. r \in ReadRec /\ Answers(r)
      BY <2>1 DEF Read, ReadRec, Outcome
    <3> HIDE DEF r
    <3>3. QED
      BY <1>1, <2>1, <3>1, <3>2
  <2>2. CASE Matches(id) # {}
    <3>1. PICK i \in Matches(id) :
            IF i \in consumed
            THEN reads' = Append(reads, Read(id, "twice", {})) /\ UNCHANGED consumed
            ELSE /\ consumed' = consumed \union Consumes(i, type)
                 /\ reads' = Append(reads, Read(id,
                      IF fields[i].value.type = type THEN "found" ELSE "invalid",
                      {fields[i].value}))
      BY <2>2 DEF Optional
    <3>2. Matches(id) = {i} /\ i \in 1..Len(fields)
      BY OneMatch DEF Matches
    <3>3. CASE i \in consumed
      <4> DEFINE r == Read(id, "twice", {})
      <4>1. reads' = Append(reads, r) /\ consumed' = consumed
        BY <3>1, <3>3
      <4>2. r \in ReadRec /\ Answers(r)
        BY <3>2 DEF Read, ReadRec, Outcome
      <4> HIDE DEF r
      <4>3. QED
        BY <1>1, <3>2, <3>3, <4>1, <4>2
    <3>4. CASE i \notin consumed
      <4> DEFINE o == IF fields[i].value.type = type THEN "found" ELSE "invalid"
                 r == Read(id, o, {fields[i].value})
      <4>1. reads' = Append(reads, r) /\ consumed' = consumed \union {i}
        BY <3>1, <3>4 DEF Consumes
      <4>2. o \in {"found", "invalid"}
        OBVIOUS
      <4> HIDE DEF o
      <4>3. r \in ReadRec
        BY <1>1, <3>2, <4>2 DEF Read, ReadRec, Outcome
      <4>4. Answers(r)
        BY <3>2, <3>4, <4>2 DEF Read
      <4> HIDE DEF r
      <4>5. QED
        BY <1>1, <3>2, <4>1, <4>3, <4>4
    <3>5. QED
      BY <3>3, <3>4
  <2>3. QED
    BY <2>1, <2>2
<1>4. PICK r \in ReadRec : /\ reads' = Append(reads, r) /\ Answers(r)
                           /\ consumed \subseteq consumed' /\ Matches(id) \subseteq consumed'
                           /\ consumed' \in SUBSET (1..Len(fields))
  BY <1>3
<1> DEFINE n == Len(reads)
<1>5. /\ reads' \in Seq(ReadRec) /\ Len(reads') = n + 1
      /\ \A k \in 1..n : reads'[k] = reads[k]
      /\ reads'[n + 1] = r
  BY <1>1, <1>4, AppendProperties
<1>6. \A x : Matches(x)' = Matches(x)
  BY <1>2 DEF Matches
<1>7. \A k \in 1..n : ReadOK(reads[k])
  BY DEF EvolutionInv
<1>a. n \in Nat
  BY <1>1
<1> HIDE DEF n
<1>b. /\ \A k \in 1..(n + 1) : k \in 1..n \/ k = n + 1
      /\ \A k, l \in 1..(n + 1) : k < l => k \in 1..n
  BY <1>a
<1>8. ASSUME NEW k \in 1..(n + 1) PROVE ReadOK(reads[k])'
  <2>1. k \in 1..n \/ k = n + 1
    BY <1>b
  <2>2. CASE k \in 1..n
    <3> PICK x : x = reads[k]
      OBVIOUS
    <3>1. reads'[k] = x /\ ReadOK(x)
      BY <1>5, <1>7, <2>2
    <3>2. /\ x.outcome = "absent" <=> Matches(x.id)' = {}
          /\ Matches(x.id)' \subseteq consumed'
          /\ x.outcome \in {"found", "invalid"} =>
               x.held = {fields'[m].value : m \in Matches(x.id)'}
      <4>1. Matches(x.id)' = Matches(x.id) /\ fields' = fields /\ consumed \subseteq consumed'
        BY <1>2, <1>4, <1>6
      <4>2. QED
        BY <3>1, <4>1 DEF ReadOK
    <3>3. QED
      BY <3>1, <3>2 DEF ReadOK, Matches
  <2>3. CASE k = n + 1
    BY <1>2, <1>4, <1>5, <1>6, <2>3 DEF ReadOK
  <2>4. QED
    BY <2>1, <2>2, <2>3
<1>9. ASSUME NEW k \in 1..(n + 1), NEW l \in 1..(n + 1), k < l,
             reads'[k].id = reads'[l].id, reads'[k].outcome # "absent"
      PROVE  reads'[l].outcome = "twice"
  <2>1. k \in 1..n /\ (l \in 1..n \/ l = n + 1)
    BY <1>b, <1>9
  <2>2. CASE l \in 1..n
    BY <1>5, <1>9, <2>1, <2>2 DEF EvolutionInv, n
  <2>3. CASE l = n + 1
    <3>1. reads[k].id = id /\ reads[k].outcome # "absent" /\ ReadOK(reads[k])
      BY <1>4, <1>5, <1>7, <1>9, <2>1, <2>3
    <3>2. Matches(id) # {} /\ Matches(id) \subseteq consumed
      BY <3>1 DEF ReadOK
    <3>3. QED
      BY <1>4, <1>5, <2>3, <3>2
  <2>4. QED
    BY <2>1, <2>2, <2>3
<1>10. EvolutionTypeOK'
  BY <1>2, <1>4, <1>5 DEF EvolutionInv, EvolutionTypeOK
<1>11. (Accepted' = Accepted) /\ (FromWriter' = FromWriter) /\ (Sorted' = Sorted)
  BY <1>2 DEF Accepted, FromWriter, Sorted
<1>12. (\A k \in 1..Len(reads) : ReadOK(reads[k]))'
  BY <1>5, <1>8
<1>13. (\A k, l \in 1..Len(reads) :
          k < l /\ reads[k].id = reads[l].id /\ reads[k].outcome # "absent" =>
            reads[l].outcome = "twice")'
  BY <1>5, <1>9
<1>14. QED
  BY <1>1, <1>2, <1>10, <1>11, <1>12, <1>13 DEF EvolutionInv, Distinct, Increasing

(* decode_fields returns *)
LEMMA DecodeReturnsInv ==
  ASSUME EvolutionInv, DecodeReturns
  PROVE  EvolutionInv'
<1>1. /\ phase = "decode" /\ phase' = "done" /\ result' = "ok"
      /\ UNCHANGED <<config, calls, written, frame, size, intact, fields, consumed, reads>>
  BY DEF DecodeReturns
<1>2. /\ EvolutionTypeOK' = EvolutionTypeOK /\ Sorted' = Sorted /\ FromWriter' = FromWriter
      /\ \A i \in 1..Len(reads) : ReadOK(reads[i])' = ReadOK(reads[i])
  BY <1>1 DEF EvolutionTypeOK, Sorted, FromWriter, ReadOK, Matches
<1>3. (\A i \in 1..Len(reads) : ReadOK(reads[i]))'
  BY <1>1, <1>2 DEF EvolutionInv
<1>4. QED
  BY <1>1, <1>2, <1>3 DEF EvolutionInv, Distinct, Increasing

LEMMA EvolutionStutter ==
  ASSUME EvolutionInv, UNCHANGED evars
  PROVE  EvolutionInv'
<1>1. UNCHANGED <<config, phase, calls, written, frame, size, intact, fields, consumed,
                  reads, result>>
  BY DEF evars
<1>2. /\ EvolutionTypeOK' = EvolutionTypeOK /\ Sorted' = Sorted /\ FromWriter' = FromWriter
      /\ Accepted' = Accepted
      /\ \A i \in 1..Len(reads) : ReadOK(reads[i])' = ReadOK(reads[i])
  BY <1>1 DEF EvolutionTypeOK, Sorted, FromWriter, Accepted, ReadOK, Matches
<1>3. (\A i \in 1..Len(reads) : ReadOK(reads[i]))'
  BY <1>1, <1>2 DEF EvolutionInv
<1>4. QED
  BY <1>1, <1>2, <1>3 DEF EvolutionInv, Distinct, Increasing

---------------------------------------------------------------------------
(* The theorems *)

(***************************************************************************)
(* The inductive invariant of evolution frames: the writer's fields have    *)
(* different identifiers; what arrives untouched is its frame, is accepted, *)
(* and gives the reader exactly its fields; and every call of the reader    *)
(* has told whether its field is there and has consumed it.                 *)
(***************************************************************************)
THEOREM EvolutionInvariant == Spec => []EvolutionInv
<1>1. Init => EvolutionInv
  BY EvolutionInit
<1>2. EvolutionInv /\ [Next]_evars => EvolutionInv'
  BY FieldInv, FinishInv, TransportInv, DeserializeInv, OptionalInv, DecodeReturnsInv,
     EvolutionStutter DEF Next
<1>3. QED
  BY <1>1, <1>2, PTL DEF Spec

(***************************************************************************)
(* ReadsAreWritten for every configuration, any number of fields and calls, *)
(* in any order on both sides (serialize, FieldDecoder::optional): revisions *)
(* agree on the writer's frame.                                             *)
(***************************************************************************)
THEOREM EvolutionReads == Spec => []ReadsAreWritten
<1>1. EvolutionInv => ReadsAreWritten
  <2> SUFFICES ASSUME EvolutionInv, intact PROVE ReadsAreWritten
    BY DEF ReadsAreWritten
  <2>1. phase = "done" /\ size > 0 => result = "ok"
    BY DEF EvolutionInv
  <2>2. ASSUME NEW r \in ToSet(reads)
        PROVE  LET sent == {f.value : f \in {g \in ToSet(written) : g.id = r.id}}
               IN  /\ r.outcome = "absent" <=> sent = {}
                   /\ r.outcome \in {"found", "invalid"} => r.held = sent
    <3>1. PICK k \in 1..Len(reads) : r = reads[k]
      BY DEF ToSet, EvolutionInv, EvolutionTypeOK
    <3>2. ReadOK(r)
      BY <3>1 DEF EvolutionInv
    <3>3. size > 0 /\ phase \in {"decode", "done"}
      <4>1. reads # <<>>
        BY <3>1 DEF EvolutionInv, EvolutionTypeOK
      <4>2. QED
        BY <4>1 DEF EvolutionInv
    <3>4. fields = Sorted /\ fields \in Seq(FieldRec)
      BY <3>3 DEF EvolutionInv, EvolutionTypeOK
    <3>5. ToSet(fields) = ToSet(written)
      BY <3>4, SortedFields DEF EvolutionInv, EvolutionTypeOK
    <3>6. ToSet(fields) = {fields[k2] : k2 \in 1..Len(fields)}
      BY <3>4 DEF ToSet
    <3>7. {fields[i].value : i \in Matches(r.id)}
            = {f.value : f \in {g \in ToSet(written) : g.id = r.id}}
      <4> DEFINE F == ToSet(written)
      <4>1. F = {fields[i] : i \in 1..Len(fields)}
        BY <3>5, <3>6
      <4> HIDE DEF F
      <4>2. {fields[i].value : i \in Matches(r.id)} = {f.value : f \in {g \in F : g.id = r.id}}
        BY <4>1 DEF Matches
      <4>3. QED
        BY <4>2 DEF F
    <3>8. Matches(r.id) = {} <=> {fields[i].value : i \in Matches(r.id)} = {}
      OBVIOUS
    <3>9. QED
      BY <3>2, <3>7, <3>8 DEF ReadOK
  <2>3. QED
    BY <2>1, <2>2 DEF ReadsAreWritten
<1>2. QED
  BY <1>1, EvolutionInvariant, PTL

(***************************************************************************)
(* EachFieldOnce for frames of any origin (FieldDecoder::optional and       *)
(* unknown_fields): a field is handed out at most once, and is unknown      *)
(* until then.                                                              *)
(***************************************************************************)
THEOREM EvolutionOnce == Spec => []EachFieldOnce
<1>1. EvolutionInv => EachFieldOnce
  <2> SUFFICES ASSUME EvolutionInv PROVE EachFieldOnce
    OBVIOUS
  <2>1. \A i, j \in 1..Len(reads) :
          i < j /\ reads[i].id = reads[j].id /\ reads[i].outcome # "absent" =>
            reads[j].outcome = "twice"
    BY DEF EvolutionInv
  <2>2. ASSUME NEW f \in UnknownFields, NEW r \in ToSet(reads) PROVE r.id # f.id
    <3>1. PICK k \in 1..Len(reads) : r = reads[k]
      BY DEF ToSet, EvolutionInv, EvolutionTypeOK
    <3>2. Matches(r.id) \subseteq consumed
      BY <3>1 DEF EvolutionInv, ReadOK
    <3>3. PICK i \in (1..Len(fields)) \ consumed : f = fields[i]
      BY DEF UnknownFields
    <3>4. QED
      BY <3>2, <3>3 DEF Matches
  <2>3. QED
    BY <2>1, <2>2 DEF EachFieldOnce
<1>2. QED
  BY <1>1, EvolutionInvariant, PTL

(***************************************************************************)
(* CutIsRejected for frames of any origin (deserialize): a frame that does  *)
(* not hold its whole table is never handed to decode_fields.               *)
(***************************************************************************)
THEOREM EvolutionCut == Spec => []CutIsRejected
<1>1. EvolutionInv => CutIsRejected
  BY DEF EvolutionInv, Accepted, CutIsRejected
<1>2. QED
  BY <1>1, EvolutionInvariant, PTL
============================================================================
