-------------------------- MODULE ProjectionProofs --------------------------
(***************************************************************************)
(* Projection for records of any length and payloads, any query, any limits *)
(* and any single change of the record or of the proof.                     *)
(***************************************************************************)
EXTENDS Projection, SequenceTheorems, NatProofs

Fields == Nat \X Seq(Nat)

(* A builder's own record always has room for a header and a root.  The code *)
(* checks the length of a record when a field is inserted, so one without    *)
(* fields may be longer than its limit: it is written and does not parse.    *)
RoomForHeader == \A l \in RecordLimits : l.max_record_len >= RECORD_HEADER + AUTH_LEN

BuilderOK(b) ==
  /\ b \in [schema_version : Nat, limits : RecordLimits, fields : Seq(Fields), encoded_len : Nat]
  /\ Increasing(FieldIds(b.fields))
  /\ b.encoded_len = RECORD_HEADER + AUTH_LEN + Len(FieldCells(b.fields))
  /\ Len(b.fields) <= b.limits.max_fields
  /\ \A i \in 1..Len(b.fields) : Len(b.fields[i][2]) <= b.limits.max_payload_len
  /\ b.fields # <<>> => b.encoded_len <= b.limits.max_record_len

Honest == RecordOf(builder.schema_version, builder.fields)

(* what was stored, and what it may have become *)
RecordOK ==
  /\ harm \in {"nothing", "record", "proof"}
  /\ record = <<>> => harm = "nothing" /\ witness = NoProof("not yet")
  /\ record # <<>> /\ harm # "record" => record = <<Honest>>
  /\ harm = "record" => \E r \in DamagedRecords(Honest) \ {Honest} : record = <<r>>

ProofTyped(p) ==
  /\ p.schema_version \in Nat
  /\ p.field_count \in Nat
  /\ p.leaves \in Seq([index : Nat, field : Fields])

ProofParts == {"error", "schema_version", "field_count", "leaves", "siblings", "claimed_root"}
ProofWhole(p) == DOMAIN p = ProofParts

HonestProof == ProofOf(builder.schema_version, builder.fields, asked)

WitnessOK ==
  /\ harm = "nothing" =>
       \/ witness = NoProof("not yet")
       \/ witness = HonestProof
       \/ /\ witness = NoProof("RecordLimit")
          /\ builder.limits.max_record_len < RECORD_HEADER + AUTH_LEN
  /\ harm = "proof" => /\ witness.error = "none"
                       /\ witness.claimed_root \in {Anchor, <<"damaged">>}
  /\ witness.error = "none" => ProofTyped(witness) /\ ProofWhole(witness)

(* the fields that a verifier who accepts the proof returns *)
Answered(p) == [i \in 1..Len(p.leaves) |-> p.leaves[i].field]

VerdictOK ==
  /\ verdict.status \in {"waiting", "ok", "rejected"}
  /\ verdict.status # "waiting" => witness.error = "none"
  /\ verdict.status = "ok" =>
       /\ verdict.fields = Answered(witness)
       /\ RecomputeProofRoot(witness) = <<witness.claimed_root>>
       /\ verdict.by = "anchor" => witness.claimed_root = Anchor
  /\ verdict.status = "rejected" =>
       \/ verdict.expected = builder.schema_version /\ ~VerifiedUntrusted(witness)
       \/ ~Verified(witness, Anchor, verdict.expected)

ProjectionInv == BuilderOK(builder) /\ RecordOK /\ WitnessOK /\ VerdictOK

(* the table behind Power *)
LEMMA PowerTable ==
  ASSUME NEW n \in Nat
  PROVE  \E f : f = [k \in 0..n |-> IF k = 0 THEN 1 ELSE 2 * f[k - 1]]
<1> DEFINE Next(k, last) == 2 * last
           Value(f, k) == IF k = 0 THEN 1 ELSE Next(k, f[k - 1])
           S == {m \in Nat : \E f : f = [k \in 0..m |-> Value(f, k)]}
<1>1. SUFFICES n \in S
  OBVIOUS
<1> HIDE DEF Next
<1>2. 0 \in S
  <2> DEFINE f == [k \in 0..0 |-> 1]
  <2>1. f = [k \in 0..0 |-> Value(f, k)]
    OBVIOUS
  <2>2. QED
    BY <2>1
<1>3. ASSUME NEW m \in Nat, m \in S PROVE m + 1 \in S
  <2>1. PICK f : f = [k \in 0..m |-> Value(f, k)]
    BY <1>3
  <2> DEFINE g == [k \in 0..(m + 1) |-> IF k = m + 1 THEN Next(m + 1, f[m]) ELSE f[k]]
  <2>2. ASSUME NEW k \in 0..(m + 1) PROVE g[k] = Value(g, k)
    <3>1. CASE k = m + 1
      <4>1. k # 0 /\ k - 1 = m /\ k - 1 \in 0..(m + 1) /\ k - 1 # m + 1
        BY <3>1
      <4>2. QED
        BY <3>1, <4>1
    <3>2. CASE k # m + 1
      <4>1. k \in 0..m /\ (k # 0 => k - 1 \in 0..(m + 1) /\ k - 1 # m + 1)
        BY <3>2
      <4>2. g[k] = f[k] /\ (k # 0 => g[k - 1] = f[k - 1])
        BY <3>2, <4>1
      <4>3. f[k] = Value(f, k)
        BY <2>1, <4>1
      <4>4. QED
        BY <4>2, <4>3
    <3>3. QED
      BY <3>1, <3>2
  <2> HIDE DEF g, Value
  <2>3. g = [k \in 0..(m + 1) |-> g[k]]
    BY DEF g
  <2>4. g = [k \in 0..(m + 1) |-> Value(g, k)]
    BY <2>2, <2>3
  <2>5. QED
    BY <2>4
<1>4. Nat \subseteq S
  <2> HIDE DEF S
  <2>1. QED
    BY <1>2, <1>3, NatsIn
<1>5. QED
  BY <1>4

(* The recursive functions are their steps. *)
LEMMA AscendingSteps ==
  ASSUME NEW T, NEW n \in Nat
  PROVE  \E f : /\ f[0] = <<>>
                /\ \A k \in 0..(n - 1) :
                     f[k + 1] = (IF k + 1 \in T THEN Append(f[k], k + 1) ELSE f[k])
                /\ Ascending(T, n) = f[n]
<1> DEFINE Next(k, last) == (IF k \in T THEN Append(last, k) ELSE last)
           Value(f, k) == IF k = 0 THEN <<>> ELSE Next(k, f[k - 1])
           S == {m \in Nat : \E f : f = [k \in 0..m |-> Value(f, k)]}
<1>1. n \in Nat
  OBVIOUS
<1> HIDE DEF Next
<1>2. 0 \in S
  <2> DEFINE f == [k \in 0..0 |-> <<>>]
  <2>1. f = [k \in 0..0 |-> Value(f, k)]
    OBVIOUS
  <2>2. QED
    BY <2>1
<1>3. ASSUME NEW m \in Nat, m \in S PROVE m + 1 \in S
  <2>1. PICK f : f = [k \in 0..m |-> Value(f, k)]
    BY <1>3
  <2> DEFINE g == [k \in 0..(m + 1) |-> IF k = m + 1 THEN Next(m + 1, f[m]) ELSE f[k]]
  <2>2. ASSUME NEW k \in 0..(m + 1) PROVE g[k] = Value(g, k)
    <3>1. CASE k = m + 1
      <4>1. k # 0 /\ k - 1 = m /\ k - 1 \in 0..(m + 1) /\ k - 1 # m + 1
        BY <3>1
      <4>2. QED
        BY <3>1, <4>1
    <3>2. CASE k # m + 1
      <4>1. k \in 0..m /\ (k # 0 => k - 1 \in 0..(m + 1) /\ k - 1 # m + 1)
        BY <3>2
      <4>2. g[k] = f[k] /\ (k # 0 => g[k - 1] = f[k - 1])
        BY <3>2, <4>1
      <4>3. f[k] = Value(f, k)
        BY <2>1, <4>1
      <4>4. QED
        BY <4>2, <4>3
    <3>3. QED
      BY <3>1, <3>2
  <2> HIDE DEF g, Value
  <2>3. g = [k \in 0..(m + 1) |-> g[k]]
    BY DEF g
  <2>4. g = [k \in 0..(m + 1) |-> Value(g, k)]
    BY <2>2, <2>3
  <2>5. QED
    BY <2>4
<1>4. Nat \subseteq S
  <2> HIDE DEF S
  <2>1. QED
    BY <1>2, <1>3, NatsIn
<1> DEFINE u == CHOOSE f : f = [k \in 0..n |-> Value(f, k)]
<1>5. u = [k \in 0..n |-> Value(u, k)]
  BY <1>1, <1>4
<1>6. Ascending(T, n) = u[n]
  BY DEF Ascending, Next
<1> HIDE DEF u, S
<1>7. u[0] = <<>>
  BY <1>1, <1>5
<1>8. ASSUME NEW k \in 0..(n - 1)
      PROVE  u[k + 1] = (IF k + 1 \in T THEN Append(u[k], k + 1) ELSE u[k])
  <2>1. k + 1 \in 0..n /\ k + 1 # 0 /\ k + 1 - 1 = k
    BY <1>1
  <2>2. \A j \in 0..n : u[j] = Value(u, j)
    BY <1>5
  <2>3. u[k + 1] = Value(u, k + 1)
    BY <2>1, <2>2
  <2>4. u[k + 1] = Next(k + 1, u[k])
    BY <2>1, <2>3
  <2>5. QED
    BY <2>4 DEF Next
<1>9. QED
  BY <1>6, <1>7, <1>8


(* the steps of FieldCells: one field more at a time *)
LEMMA CellsSteps ==
  ASSUME NEW fields, Len(fields) \in Nat
  PROVE  \E f : /\ f[0] = <<>>
                /\ \A k \in 0..(Len(fields) - 1) :
                     f[k + 1] = f[k] \o <<fields[k + 1][1], Len(fields[k + 1][2])>>
                                     \o fields[k + 1][2]
                /\ FieldCells(fields) = f[Len(fields)]
<1> DEFINE Next(k, last) == last \o <<fields[k][1], Len(fields[k][2])>> \o fields[k][2]
           Value(f, k) == IF k = 0 THEN <<>> ELSE Next(k, f[k - 1])
           S == {m \in Nat : \E f : f = [k \in 0..m |-> Value(f, k)]}
           n == Len(fields)
<1>1. n \in Nat
  OBVIOUS
<1> HIDE DEF Next, n
<1>2. 0 \in S
  <2> DEFINE f == [k \in 0..0 |-> <<>>]
  <2>1. f = [k \in 0..0 |-> Value(f, k)]
    OBVIOUS
  <2>2. QED
    BY <2>1
<1>3. ASSUME NEW m \in Nat, m \in S PROVE m + 1 \in S
  <2>1. PICK f : f = [k \in 0..m |-> Value(f, k)]
    BY <1>3
  <2> DEFINE g == [k \in 0..(m + 1) |-> IF k = m + 1 THEN Next(m + 1, f[m]) ELSE f[k]]
  <2>2. ASSUME NEW k \in 0..(m + 1) PROVE g[k] = Value(g, k)
    <3>1. CASE k = m + 1
      <4>1. k # 0 /\ k - 1 = m /\ k - 1 \in 0..(m + 1) /\ k - 1 # m + 1
        BY <3>1
      <4>2. QED
        BY <3>1, <4>1
    <3>2. CASE k # m + 1
      <4>1. k \in 0..m /\ (k # 0 => k - 1 \in 0..(m + 1) /\ k - 1 # m + 1)
        BY <3>2
      <4>2. g[k] = f[k] /\ (k # 0 => g[k - 1] = f[k - 1])
        BY <3>2, <4>1
      <4>3. f[k] = Value(f, k)
        BY <2>1, <4>1
      <4>4. QED
        BY <4>2, <4>3
    <3>3. QED
      BY <3>1, <3>2
  <2> HIDE DEF g, Value
  <2>3. g = [k \in 0..(m + 1) |-> g[k]]
    BY DEF g
  <2>4. g = [k \in 0..(m + 1) |-> Value(g, k)]
    BY <2>2, <2>3
  <2>5. QED
    BY <2>4
<1>4. Nat \subseteq S
  <2> HIDE DEF S
  <2>1. QED
    BY <1>2, <1>3, NatsIn
<1> DEFINE u == CHOOSE f : f = [k \in 0..n |-> Value(f, k)]
<1>5. u = [k \in 0..n |-> Value(u, k)]
  BY <1>1, <1>4
<1>6. FieldCells(fields) = u[n]
  BY DEF FieldCells, Next, n
<1> HIDE DEF u, S
<1>7. u[0] = <<>>
  BY <1>1, <1>5
<1>8. ASSUME NEW k \in 0..(n - 1)
      PROVE  u[k + 1] = u[k] \o <<fields[k + 1][1], Len(fields[k + 1][2])>> \o fields[k + 1][2]
  <2>1. k + 1 \in 0..n /\ k + 1 # 0 /\ k + 1 - 1 = k
    BY <1>1
  <2>2. \A j \in 0..n : u[j] = Value(u, j)
    BY <1>5
  <2>3. u[k + 1] = Value(u, k + 1)
    BY <2>1, <2>2
  <2>4. u[k + 1] = Next(k + 1, u[k])
    BY <2>1, <2>3
  <2>5. QED
    BY <2>4 DEF Next
<1>9. QED
  BY <1>6, <1>7, <1>8 DEF n


(* the steps of ParseFields: one field read at a time *)
LEMMA ParseSteps ==
  ASSUME NEW r, NEW limits, r.cells[2] \in Nat
  PROVE  \E f : /\ f[0] = ParseStart
                /\ \A k \in 0..(r.cells[2] - 1) : f[k + 1] = ParseField(f[k], r, limits)
                /\ ParseFields(r, limits) = f[r.cells[2]]
<1> DEFINE Next(k, last) == ParseField(last, r, limits)
           Value(f, k) == IF k = 0 THEN ParseStart ELSE Next(k, f[k - 1])
           S == {m \in Nat : \E f : f = [k \in 0..m |-> Value(f, k)]}
           n == r.cells[2]
<1>1. n \in Nat
  OBVIOUS
<1> HIDE DEF Next, n
<1>2. 0 \in S
  <2> DEFINE f == [k \in 0..0 |-> ParseStart]
  <2>1. f = [k \in 0..0 |-> Value(f, k)]
    OBVIOUS
  <2>2. QED
    BY <2>1
<1>3. ASSUME NEW m \in Nat, m \in S PROVE m + 1 \in S
  <2>1. PICK f : f = [k \in 0..m |-> Value(f, k)]
    BY <1>3
  <2> DEFINE g == [k \in 0..(m + 1) |-> IF k = m + 1 THEN Next(m + 1, f[m]) ELSE f[k]]
  <2>2. ASSUME NEW k \in 0..(m + 1) PROVE g[k] = Value(g, k)
    <3>1. CASE k = m + 1
      <4>1. k # 0 /\ k - 1 = m /\ k - 1 \in 0..(m + 1) /\ k - 1 # m + 1
        BY <3>1
      <4>2. QED
        BY <3>1, <4>1
    <3>2. CASE k # m + 1
      <4>1. k \in 0..m /\ (k # 0 => k - 1 \in 0..(m + 1) /\ k - 1 # m + 1)
        BY <3>2
      <4>2. g[k] = f[k] /\ (k # 0 => g[k - 1] = f[k - 1])
        BY <3>2, <4>1
      <4>3. f[k] = Value(f, k)
        BY <2>1, <4>1
      <4>4. QED
        BY <4>2, <4>3
    <3>3. QED
      BY <3>1, <3>2
  <2> HIDE DEF g, Value
  <2>3. g = [k \in 0..(m + 1) |-> g[k]]
    BY DEF g
  <2>4. g = [k \in 0..(m + 1) |-> Value(g, k)]
    BY <2>2, <2>3
  <2>5. QED
    BY <2>4
<1>4. Nat \subseteq S
  <2> HIDE DEF S
  <2>1. QED
    BY <1>2, <1>3, NatsIn
<1> DEFINE u == CHOOSE f : f = [k \in 0..n |-> Value(f, k)]
<1>5. u = [k \in 0..n |-> Value(u, k)]
  BY <1>1, <1>4
<1>6. ParseFields(r, limits) = u[n]
  BY DEF ParseFields, Next, n
<1> HIDE DEF u, S
<1>7. u[0] = ParseStart
  BY <1>1, <1>5
<1>8. ASSUME NEW k \in 0..(n - 1) PROVE u[k + 1] = ParseField(u[k], r, limits)
  <2>1. k + 1 \in 0..n /\ k + 1 # 0 /\ k + 1 - 1 = k
    BY <1>1
  <2>2. \A j \in 0..n : u[j] = Value(u, j)
    BY <1>5
  <2>3. u[k + 1] = Value(u, k + 1)
    BY <2>1, <2>2
  <2>4. u[k + 1] = Next(k + 1, u[k])
    BY <2>1, <2>3
  <2>5. QED
    BY <2>4 DEF Next
<1>9. QED
  BY <1>6, <1>7, <1>8 DEF n


(* the steps of AggregateSiblings: one level at a time, upwards *)
LEMMA GatherSteps ==
  ASSUME NEW nodes, NEW tree, NEW n \in Nat
  PROVE  \E f : /\ f[0] = [frontier |-> nodes, siblings |-> <<>>]
                /\ \A k \in 0..(n - 1) : f[k + 1] = Gather(f[k], tree, 2 * Power(n))
                /\ AggregateSiblings(tree, n, nodes) = f[n].siblings
<1> DEFINE Next(k, last) == Gather(last, tree, 2 * Power(n))
           Value(f, k) == IF k = 0 THEN [frontier |-> nodes, siblings |-> <<>>]
                          ELSE Next(k, f[k - 1])
           S == {m \in Nat : \E f : f = [k \in 0..m |-> Value(f, k)]}
<1>1. n \in Nat
  OBVIOUS
<1> HIDE DEF Next
<1>2. 0 \in S
  <2> DEFINE f == [k \in 0..0 |-> [frontier |-> nodes, siblings |-> <<>>]]
  <2>1. f = [k \in 0..0 |-> Value(f, k)]
    OBVIOUS
  <2>2. QED
    BY <2>1
<1>3. ASSUME NEW m \in Nat, m \in S PROVE m + 1 \in S
  <2>1. PICK f : f = [k \in 0..m |-> Value(f, k)]
    BY <1>3
  <2> DEFINE g == [k \in 0..(m + 1) |-> IF k = m + 1 THEN Next(m + 1, f[m]) ELSE f[k]]
  <2>2. ASSUME NEW k \in 0..(m + 1) PROVE g[k] = Value(g, k)
    <3>1. CASE k = m + 1
      <4>1. k # 0 /\ k - 1 = m /\ k - 1 \in 0..(m + 1) /\ k - 1 # m + 1
        BY <3>1
      <4>2. QED
        BY <3>1, <4>1
    <3>2. CASE k # m + 1
      <4>1. k \in 0..m /\ (k # 0 => k - 1 \in 0..(m + 1) /\ k - 1 # m + 1)
        BY <3>2
      <4>2. g[k] = f[k] /\ (k # 0 => g[k - 1] = f[k - 1])
        BY <3>2, <4>1
      <4>3. f[k] = Value(f, k)
        BY <2>1, <4>1
      <4>4. QED
        BY <4>2, <4>3
    <3>3. QED
      BY <3>1, <3>2
  <2> HIDE DEF g, Value
  <2>3. g = [k \in 0..(m + 1) |-> g[k]]
    BY DEF g
  <2>4. g = [k \in 0..(m + 1) |-> Value(g, k)]
    BY <2>2, <2>3
  <2>5. QED
    BY <2>4
<1>4. Nat \subseteq S
  <2> HIDE DEF S
  <2>1. QED
    BY <1>2, <1>3, NatsIn
<1> DEFINE u == CHOOSE f : f = [k \in 0..n |-> Value(f, k)]
<1>5. u = [k \in 0..n |-> Value(u, k)]
  BY <1>1, <1>4
<1>6. AggregateSiblings(tree, n, nodes) = u[n].siblings
  BY DEF AggregateSiblings, Next
<1> HIDE DEF u, S
<1>7. u[0] = [frontier |-> nodes, siblings |-> <<>>]
  BY <1>1, <1>5
<1>8. ASSUME NEW k \in 0..(n - 1) PROVE u[k + 1] = Gather(u[k], tree, 2 * Power(n))
  <2>1. k + 1 \in 0..n /\ k + 1 # 0 /\ k + 1 - 1 = k
    BY <1>1
  <2>2. \A j \in 0..n : u[j] = Value(u, j)
    BY <1>5
  <2>3. u[k + 1] = Value(u, k + 1)
    BY <2>1, <2>2
  <2>4. u[k + 1] = Next(k + 1, u[k])
    BY <2>1, <2>3
  <2>5. QED
    BY <2>4 DEF Next
<1>9. QED
  BY <1>6, <1>7, <1>8


(* the steps of CombineFrontier: one level at a time, upwards *)
LEMMA CombineSteps ==
  ASSUME NEW first, NEW siblings, NEW n \in Nat
  PROVE  \E f : /\ f[0] = first
                /\ \A k \in 0..(n - 1) : f[k + 1] = Combine(f[k], siblings)
                /\ CombineFrontier(first, siblings, n) = f[n]
<1> DEFINE Next(k, last) == Combine(last, siblings)
           Value(f, k) == IF k = 0 THEN first ELSE Next(k, f[k - 1])
           S == {m \in Nat : \E f : f = [k \in 0..m |-> Value(f, k)]}
<1>1. n \in Nat
  OBVIOUS
<1> HIDE DEF Next
<1>2. 0 \in S
  <2> DEFINE f == [k \in 0..0 |-> first]
  <2>1. f = [k \in 0..0 |-> Value(f, k)]
    OBVIOUS
  <2>2. QED
    BY <2>1
<1>3. ASSUME NEW m \in Nat, m \in S PROVE m + 1 \in S
  <2>1. PICK f : f = [k \in 0..m |-> Value(f, k)]
    BY <1>3
  <2> DEFINE g == [k \in 0..(m + 1) |-> IF k = m + 1 THEN Next(m + 1, f[m]) ELSE f[k]]
  <2>2. ASSUME NEW k \in 0..(m + 1) PROVE g[k] = Value(g, k)
    <3>1. CASE k = m + 1
      <4>1. k # 0 /\ k - 1 = m /\ k - 1 \in 0..(m + 1) /\ k - 1 # m + 1
        BY <3>1
      <4>2. QED
        BY <3>1, <4>1
    <3>2. CASE k # m + 1
      <4>1. k \in 0..m /\ (k # 0 => k - 1 \in 0..(m + 1) /\ k - 1 # m + 1)
        BY <3>2
      <4>2. g[k] = f[k] /\ (k # 0 => g[k - 1] = f[k - 1])
        BY <3>2, <4>1
      <4>3. f[k] = Value(f, k)
        BY <2>1, <4>1
      <4>4. QED
        BY <4>2, <4>3
    <3>3. QED
      BY <3>1, <3>2
  <2> HIDE DEF g, Value
  <2>3. g = [k \in 0..(m + 1) |-> g[k]]
    BY DEF g
  <2>4. g = [k \in 0..(m + 1) |-> Value(g, k)]
    BY <2>2, <2>3
  <2>5. QED
    BY <2>4
<1>4. Nat \subseteq S
  <2> HIDE DEF S
  <2>1. QED
    BY <1>2, <1>3, NatsIn
<1> DEFINE u == CHOOSE f : f = [k \in 0..n |-> Value(f, k)]
<1>5. u = [k \in 0..n |-> Value(u, k)]
  BY <1>1, <1>4
<1>6. CombineFrontier(first, siblings, n) = u[n]
  BY DEF CombineFrontier, Next
<1> HIDE DEF u, S
<1>7. u[0] = first
  BY <1>1, <1>5
<1>8. ASSUME NEW k \in 0..(n - 1) PROVE u[k + 1] = Combine(u[k], siblings)
  <2>1. k + 1 \in 0..n /\ k + 1 # 0 /\ k + 1 - 1 = k
    BY <1>1
  <2>2. \A j \in 0..n : u[j] = Value(u, j)
    BY <1>5
  <2>3. u[k + 1] = Value(u, k + 1)
    BY <2>1, <2>2
  <2>4. u[k + 1] = Next(k + 1, u[k])
    BY <2>1, <2>3
  <2>5. QED
    BY <2>4 DEF Next
<1>9. QED
  BY <1>6, <1>7, <1>8

(* Power is 1, 2, 4, ... and stays above its argument *)
LEMMA PowerFacts ==
  /\ Power(0) = 1
  /\ \A h \in Nat : /\ Power(h) \in Nat /\ Power(h) > 0 /\ Power(h) > h
                    /\ Power(h + 1) = 2 * Power(h)
<1> DEFINE Table(p, n) == p = [k \in 0..n |-> IF k = 0 THEN 1 ELSE 2 * p[k - 1]]
           Of(n) == CHOOSE p : Table(p, n)
<1>1. ASSUME NEW n \in Nat PROVE Table(Of(n), n)
  BY PowerTable
<1>2. \A n \in Nat : Power(n) = Of(n)[n]
  BY DEF Power
<1> HIDE DEF Of
<1>3. ASSUME NEW n \in Nat PROVE \A k \in 0..n : Of(n)[k] = Of(n + 1)[k]
  <2> DEFINE S == {k \in Nat : k <= n => Of(n)[k] = Of(n + 1)[k]}
  <2>1. Table(Of(n), n) /\ Table(Of(n + 1), n + 1)
    BY <1>1
  <2>2. 0 \in S
    <3>1. 0 \in 0..n /\ 0 \in 0..(n + 1)
      OBVIOUS
    <3>2. Of(n)[0] = 1 /\ Of(n + 1)[0] = 1
      BY <2>1, <3>1
    <3>3. QED
      BY <3>2
  <2>3. ASSUME NEW k \in Nat, k \in S PROVE k + 1 \in S
    <3>1. SUFFICES ASSUME k + 1 <= n PROVE Of(n)[k + 1] = Of(n + 1)[k + 1]
      OBVIOUS
    <3>2. k + 1 \in 0..n /\ k + 1 \in 0..(n + 1) /\ k + 1 # 0 /\ k + 1 - 1 = k /\ k <= n
      BY <3>1
    <3>3. Of(n)[k + 1] = 2 * Of(n)[k] /\ Of(n + 1)[k + 1] = 2 * Of(n + 1)[k]
      BY <2>1, <3>2
    <3>4. QED
      BY <2>3, <3>2, <3>3
  <2>4. Nat \subseteq S
    <3> HIDE DEF S
    <3>1. QED
      BY <2>2, <2>3, NatsIn
  <2>5. QED
    BY <2>4
<1>4. Power(0) = 1
  <2>1. Table(Of(0), 0)
    BY <1>1
  <2>2. Of(0)[0] = 1
    BY <2>1
  <2>3. QED
    BY <1>2, <2>2
<1>5. ASSUME NEW n \in Nat PROVE Power(n + 1) = 2 * Power(n)
  <2>1. Table(Of(n + 1), n + 1)
    BY <1>1
  <2>2. n + 1 \in 0..(n + 1) /\ n + 1 # 0 /\ n + 1 - 1 = n
    OBVIOUS
  <2>3. Of(n + 1)[n + 1] = 2 * Of(n + 1)[n]
    BY <2>1, <2>2
  <2>4. QED
    BY <1>2, <1>3, <2>3
<1> DEFINE S == {n \in Nat : Power(n) \in Nat /\ Power(n) > n}
<1>6. Nat \subseteq S
  <2>1. 0 \in S
    BY <1>4
  <2>2. ASSUME NEW n \in Nat, n \in S PROVE n + 1 \in S
    BY <1>5, <2>2
  <2>3. QED
    <3> HIDE DEF S
    <3>1. QED
      BY <2>1, <2>2, NatsIn
<1>7. QED
  BY <1>4, <1>5, <1>6

(* Power does not decrease *)
LEMMA PowerGrows ==
  ASSUME NEW a \in Nat, NEW b \in Nat, a <= b
  PROVE  Power(a) <= Power(b)
<1> DEFINE S == {d \in Nat : Power(a) <= Power(a + d)}
<1>1. 0 \in S
  BY PowerFacts
<1>2. ASSUME NEW d \in Nat, d \in S PROVE d + 1 \in S
  <2>1. a + (d + 1) = (a + d) + 1 /\ a + d \in Nat
    OBVIOUS
  <2>2. Power(a + (d + 1)) = 2 * Power(a + d) /\ Power(a + d) \in Nat /\ Power(a) \in Nat
    BY <2>1, PowerFacts
  <2>3. QED
    BY <1>2, <2>2
<1>3. Nat \subseteq S
  <2> HIDE DEF S
  <2>1. QED
    BY <1>1, <1>2, NatsIn
<1>4. b - a \in S /\ a + (b - a) = b
  BY <1>3
<1>5. QED
  BY <1>4

(* the leaves are as many as the fields, and more *)
LEMMA LevelsFacts ==
  ASSUME NEW n \in Nat
  PROVE  /\ Levels(n) \in Nat
         /\ LeafCount(n) = Power(Levels(n))
         /\ LeafCount(n) \in Nat \ {0}
         /\ n <= LeafCount(n)
<1> DEFINE Room == {h \in Nat : Power(h) >= n}
<1>1. n \in Room
  BY PowerFacts
<1>2. PICK h \in Room : \A k \in Room : h <= k
  <2>1. Room \in SUBSET Nat /\ Room # {}
    BY <1>1
  <2>2. QED
    BY <2>1, LeastNat
<1>3. h \in 0..n
  BY <1>1, <1>2
<1>4. \A k \in 0..(h - 1) : Power(k) < n
  <2>1. ASSUME NEW k \in 0..(h - 1) PROVE Power(k) < n
    <3>1. k \in Nat /\ k < h /\ Power(k) \in Nat
      BY <1>3, PowerFacts
    <3>2. k \notin Room
      BY <1>2, <3>1
    <3>3. QED
      BY <3>1, <3>2
  <2>2. QED
    BY <2>1
<1>5. Levels(n) \in 0..n /\ Power(Levels(n)) >= n
  BY <1>2, <1>3, <1>4 DEF Levels
<1>6. QED
  BY <1>5, PowerFacts DEF LeafCount

(* the heap positions k levels below the root *)
Row(k) == Power(k)..(2 * Power(k) - 1)

(* half of a number, and the rest *)
LEMMA Halves ==
  ASSUME NEW i \in Nat
  PROVE  /\ i \div 2 \in Nat
         /\ i % 2 \in {0, 1}
         /\ i = 2 * (i \div 2) + (i % 2)
<1>1. i % 2 \in 0..1
  OBVIOUS
<1>2. i = 2 * (i \div 2) + (i % 2)
  OBVIOUS
<1>3. i \div 2 \in Nat
  OBVIOUS
<1>4. QED
  BY <1>1, <1>2, <1>3

(* A node and its twin are the two children of the node above them. *)
LEMMA TwinFacts ==
  ASSUME NEW i \in Nat, i > 1
  PROVE  /\ i \div 2 \in Nat /\ i \div 2 > 0
         /\ \/ i = 2 * (i \div 2) /\ Twin(i) = 2 * (i \div 2) + 1
            \/ i = 2 * (i \div 2) + 1 /\ Twin(i) = 2 * (i \div 2)
<1>1. /\ i \div 2 \in Nat /\ i % 2 \in {0, 1} /\ i = 2 * (i \div 2) + (i % 2)
  BY Halves
<1> DEFINE q == i \div 2
<1> HIDE DEF q
<1>2. i \div 2 = q
  BY DEF q
<1>3. CASE i % 2 = 0
  BY <1>1, <1>2, <1>3 DEF Twin
<1>4. CASE i % 2 = 1
  BY <1>1, <1>2, <1>4 DEF Twin
<1>5. QED
  BY <1>1, <1>3, <1>4

(* The rows: the root is alone in its row; halving leads one row up. *)
LEMMA RowFacts ==
  /\ Row(0) = {1}
  /\ \A k \in Nat : Row(k) \subseteq Nat \ {0}
  /\ \A k \in Nat : \A i \in Row(k + 1) : i > 1 /\ i \div 2 \in Row(k) /\ Twin(i) \in Row(k + 1)
  /\ \A k \in Nat : \A i \in Row(k) : 2 * i \in Row(k + 1) /\ 2 * i + 1 \in Row(k + 1)
<1>1. Row(0) = {1}
  BY PowerFacts DEF Row
<1>2. ASSUME NEW k \in Nat PROVE Row(k) \subseteq Nat \ {0}
  BY PowerFacts DEF Row
<1>3. ASSUME NEW k \in Nat, NEW i \in Row(k + 1)
      PROVE  i > 1 /\ i \div 2 \in Row(k) /\ Twin(i) \in Row(k + 1)
  <2> DEFINE w == Power(k)
  <2>1. w \in Nat /\ w > 0 /\ Power(k + 1) = 2 * w
    BY PowerFacts
  <2> HIDE DEF w
  <2>2. i \in Nat /\ 2 * w <= i /\ i <= 4 * w - 1
    BY <2>1 DEF Row
  <2>3. i > 1
    BY <2>1, <2>2
  <2> DEFINE q == i \div 2
  <2>4. /\ q \in Nat
        /\ \/ i = 2 * q /\ Twin(i) = 2 * q + 1
           \/ i = 2 * q + 1 /\ Twin(i) = 2 * q
    BY <2>2, <2>3, TwinFacts
  <2> HIDE DEF q
  <2>5. q \in w..(2 * w - 1)
    BY <2>1, <2>2, <2>4
  <2>6. Twin(i) \in (2 * w)..(2 * (2 * w) - 1)
    BY <2>1, <2>2, <2>4, <2>5
  <2>7. QED
    BY <2>1, <2>3, <2>5, <2>6 DEF Row, q, w
<1>4. ASSUME NEW k \in Nat, NEW i \in Row(k)
      PROVE  2 * i \in Row(k + 1) /\ 2 * i + 1 \in Row(k + 1)
  BY PowerFacts DEF Row
<1>5. QED
  BY <1>1, <1>2, <1>3, <1>4

(* Rows do not overlap. *)
LEMMA RowsApart ==
  ASSUME NEW j \in Nat, NEW k \in Nat, NEW i, i \in Row(j), i \in Row(k)
  PROVE  j = k
<1>1. ASSUME NEW a \in Nat, NEW b \in Nat, a < b, i \in Row(a), i \in Row(b) PROVE FALSE
  <2>1. Power(a + 1) <= Power(b) /\ Power(a + 1) = 2 * Power(a)
    BY <1>1, PowerGrows, PowerFacts
  <2>2. QED
    BY <1>1, <2>1, PowerFacts DEF Row
<1>2. QED
  BY <1>1

(* the recursive function behind Tree has a value at every node *)
LEMMA TreeTable ==
  ASSUME NEW l \in Nat \ {0}, NEW leaf
  PROVE  \E t : t = [i \in 1..(2 * l - 1) |->
                       IF i < l THEN BranchHash(t[2 * i], t[2 * i + 1]) ELSE leaf[i]]
<1> DEFINE Value(t, i) == IF i < l THEN BranchHash(t[2 * i], t[2 * i + 1]) ELSE leaf[i]
           Table(t, first) == t = [i \in first..(2 * l - 1) |-> Value(t, i)]
           S == {m \in Nat : m < l => \E t : Table(t, l - m)}
<1>1. 0 \in S
  <2> DEFINE t == [i \in l..(2 * l - 1) |-> leaf[i]]
  <2>1. \A i \in l..(2 * l - 1) : t[i] = Value(t, i)
    OBVIOUS
  <2>2. Table(t, l)
    BY <2>1
  <2>3. l - 0 = l
    OBVIOUS
  <2>4. QED
    BY <2>2, <2>3
<1>2. ASSUME NEW m \in Nat, m \in S PROVE m + 1 \in S
  <2>1. SUFFICES ASSUME m + 1 < l PROVE \E t : Table(t, l - (m + 1))
    OBVIOUS
  <2>2. PICK t : Table(t, l - m)
    BY <1>2, <2>1
  <2> DEFINE first == l - (m + 1)
  <2>3. /\ first \in Nat \ {0} /\ first < l /\ first + 1 = l - m
        /\ 2 * first > first
    BY <2>1
  <2> HIDE DEF first
  <2> DEFINE g == [i \in first..(2 * l - 1) |->
                     IF i = first THEN BranchHash(t[2 * i], t[2 * i + 1]) ELSE t[i]]
  <2>4. ASSUME NEW i \in first..(2 * l - 1) PROVE g[i] = Value(g, i)
    <3>1. i < l => /\ 2 * i \in first..(2 * l - 1) /\ 2 * i # first
                   /\ 2 * i + 1 \in first..(2 * l - 1) /\ 2 * i + 1 # first
      BY <2>3
    <3>2. i < l => g[2 * i] = t[2 * i] /\ g[2 * i + 1] = t[2 * i + 1]
      BY <3>1
    <3>3. CASE i = first
      BY <2>3, <3>2, <3>3
    <3>4. CASE i # first
      <4>1. i \in (l - m)..(2 * l - 1)
        BY <2>3, <3>4
      <4>2. g[i] = t[i] /\ t[i] = Value(t, i)
        BY <2>2, <3>4, <4>1
      <4>3. QED
        BY <3>2, <4>2
    <3>5. QED
      BY <3>3, <3>4
  <2> HIDE DEF g, Value
  <2>5. g = [i \in first..(2 * l - 1) |-> g[i]]
    BY DEF g
  <2>6. g = [i \in first..(2 * l - 1) |-> Value(g, i)]
    BY <2>4, <2>5
  <2>7. QED
    BY <2>6 DEF first
<1>3. Nat \subseteq S
  <2> HIDE DEF S
  <2>1. QED
    BY <1>1, <1>2, NatsIn
<1>4. l - 1 \in S /\ l - (l - 1) = 1
  BY <1>3
<1>5. QED
  BY <1>4

(* the leaf at a heap position of the last row *)
LeafAt(fields, i) ==
  IF i - LeafCount(Len(fields)) < Len(fields)
    THEN FieldHash(fields[i - LeafCount(Len(fields)) + 1]) ELSE Padding

(* The tree, row by row: branches above the last row, fields and padding in  *)
(* it.                                                                      *)
LEMMA TreeFacts ==
  ASSUME NEW fields \in Seq(Fields)
  PROVE  LET h == Levels(Len(fields))
             t == Tree(fields)
         IN  /\ h \in Nat
             /\ DOMAIN t = 1..(2 * Power(h) - 1)
             /\ \A j \in 0..h : Row(j) \subseteq DOMAIN t
             /\ \A j \in Nat : j < h =>
                  \A i \in Row(j) : t[i] = BranchHash(t[2 * i], t[2 * i + 1])
             /\ \A i \in Row(h) : t[i] = LeafAt(fields, i)
<1> DEFINE h == Levels(Len(fields))
           l == LeafCount(Len(fields))
           t == Tree(fields)
<1>1. Len(fields) \in Nat
  OBVIOUS
<1>2. h \in Nat /\ l = Power(h) /\ l \in Nat \ {0}
  BY <1>1, LevelsFacts
<1> HIDE DEF h, l
<1> DEFINE leaf == [i \in Nat |-> LeafAt(fields, i)]
           Table(u) == u = [i \in 1..(2 * l - 1) |->
                             IF i < l THEN BranchHash(u[2 * i], u[2 * i + 1])
                             ELSE IF i - l < Len(fields) THEN FieldHash(fields[i - l + 1])
                             ELSE Padding]
<1>3. \E u : Table(u)
  <2>1. PICK u : u = [i \in 1..(2 * l - 1) |->
                       IF i < l THEN BranchHash(u[2 * i], u[2 * i + 1]) ELSE leaf[i]]
    BY <1>2, TreeTable
  <2>2. \A i \in 1..(2 * l - 1) :
          leaf[i] = IF i - l < Len(fields) THEN FieldHash(fields[i - l + 1]) ELSE Padding
    BY <1>2 DEF LeafAt, l
  <2>3. Table(u)
    BY <2>1, <2>2
  <2>4. QED
    BY <2>3
<1>4. t = CHOOSE u : Table(u)
  BY DEF Tree, l
<1>5. Table(t)
  BY <1>3, <1>4
<1> HIDE DEF t
<1>6. DOMAIN t = 1..(2 * l - 1)
  BY <1>5
<1>7. ASSUME NEW j \in Nat, j < h
      PROVE  \A i \in Row(j) : i \in 1..(l - 1)
  <2>1. Power(j + 1) = 2 * Power(j) /\ Power(j) \in Nat /\ Power(j) > 0
    BY PowerFacts
  <2>2. j + 1 \in Nat /\ j + 1 <= h
    BY <1>2, <1>7
  <2>3. Power(j + 1) <= l
    BY <1>2, <2>2, PowerGrows
  <2>4. QED
    BY <1>2, <2>1, <2>3 DEF Row
<1>8. Row(h) = l..(2 * l - 1)
  BY <1>2 DEF Row
<1>9. ASSUME NEW j \in 0..h PROVE Row(j) \subseteq 1..(2 * l - 1)
  <2>1. CASE j < h
    BY <1>2, <1>7, <2>1
  <2>2. CASE j = h
    BY <1>2, <1>8, <2>2
  <2>3. QED
    BY <1>2, <2>1, <2>2
<1>10. ASSUME NEW j \in Nat, j < h, NEW i \in Row(j)
       PROVE  t[i] = BranchHash(t[2 * i], t[2 * i + 1])
  <2>1. i \in 1..(2 * l - 1) /\ i < l
    BY <1>2, <1>7, <1>10
  <2>2. QED
    BY <1>5, <2>1
<1>11. ASSUME NEW i \in Row(h) PROVE t[i] = LeafAt(fields, i)
  <2>1. i \in 1..(2 * l - 1) /\ ~(i < l)
    BY <1>2, <1>8
  <2>2. t[i] = IF i - l < Len(fields) THEN FieldHash(fields[i - l + 1]) ELSE Padding
    BY <1>5, <2>1
  <2>3. QED
    BY <2>2 DEF LeafAt, l
<1>12. QED
  BY <1>2, <1>6, <1>9, <1>10, <1>11 DEF h, t

(* A leaf is no branch; a leaf of a field is that of no other, nor padding. *)
LEMMA HashFacts ==
  /\ \A x, y, f : BranchHash(x, y) # FieldHash(f) /\ BranchHash(x, y) # Padding
  /\ \A f : FieldHash(f) # Padding
  /\ \A f, g \in Fields : FieldHash(f) = FieldHash(g) => f = g
  /\ \A x, y, u, v : BranchHash(x, y) = BranchHash(u, v) => x = u /\ y = v
  /\ \A a, b, x, y : SchemaRoot(a, x) = SchemaRoot(b, y) => a = b /\ x = y
  /\ \A a, x : SchemaRoot(a, x) # <<"damaged">>
<1>1. \A x, y, f : BranchHash(x, y) # FieldHash(f) /\ BranchHash(x, y) # Padding
  BY DEF BranchHash, FieldHash, Padding
<1>2. \A f : FieldHash(f) # Padding
  BY DEF FieldHash, Padding
<1>3. \A f, g \in Fields : FieldHash(f) = FieldHash(g) => f = g
  BY DEF FieldHash, Fields
<1>4. \A x, y, u, v : BranchHash(x, y) = BranchHash(u, v) => x = u /\ y = v
  BY DEF BranchHash
<1>5. \A a, b, x, y : SchemaRoot(a, x) = SchemaRoot(b, y) => a = b /\ x = y
  BY DEF SchemaRoot
<1>6. \A a, x : SchemaRoot(a, x) # <<"damaged">>
  BY DEF SchemaRoot
<1>7. QED
  BY <1>1, <1>2, <1>3, <1>4, <1>5, <1>6

(* what a node of the last row is *)
LEMMA LeafFacts ==
  ASSUME NEW fields \in Seq(Fields), NEW i \in Row(Levels(Len(fields)))
  PROVE  LET k == i - LeafCount(Len(fields)) + 1
         IN  /\ k \in Nat \ {0}
             /\ k <= Len(fields) => LeafAt(fields, i) = FieldHash(fields[k])
             /\ k > Len(fields) => LeafAt(fields, i) = Padding
             /\ \A x, y : LeafAt(fields, i) # BranchHash(x, y)
<1> DEFINE l == LeafCount(Len(fields))
<1>1. Len(fields) \in Nat /\ l \in Nat \ {0} /\ l = Power(Levels(Len(fields)))
  BY LevelsFacts
<1>2. i \in Nat /\ i >= l
  BY <1>1 DEF Row
<1>3. /\ i - l + 1 \in Nat \ {0}
      /\ i - l + 1 <= Len(fields) <=> i - l < Len(fields)
      /\ i - l + 1 > Len(fields) <=> ~(i - l < Len(fields))
  BY <1>1, <1>2
<1> HIDE DEF l
<1>4. LeafAt(fields, i) = IF i - l < Len(fields) THEN FieldHash(fields[i - l + 1]) ELSE Padding
  BY DEF LeafAt, l
<1>5. \A x, y : LeafAt(fields, i) # BranchHash(x, y)
  BY <1>4, HashFacts
<1>6. QED
  BY <1>3, <1>4, <1>5 DEF l

(* the leaf of a field is in the last row *)
LEMMA LeafRow ==
  ASSUME NEW n \in Nat, NEW k \in 0..(n - 1)
  PROVE  LeafCount(n) + k \in Row(Levels(n))
<1>1. LeafCount(n) \in Nat /\ n <= LeafCount(n) /\ LeafCount(n) = Power(Levels(n))
  BY LevelsFacts
<1>2. QED
  BY <1>1 DEF Row

(* Two trees with one root are equal in every row of both. *)
LEMMA SameRootSameRows ==
  ASSUME NEW fs \in Seq(Fields), NEW gs \in Seq(Fields), Tree(fs)[1] = Tree(gs)[1]
  PROVE  \A j \in Nat : j <= Levels(Len(fs)) /\ j <= Levels(Len(gs)) =>
           \A i \in Row(j) : Tree(fs)[i] = Tree(gs)[i]
<1> DEFINE s == Tree(fs)
           t == Tree(gs)
           a == Levels(Len(fs))
           b == Levels(Len(gs))
           S == {j \in Nat : j <= a /\ j <= b => \A i \in Row(j) : s[i] = t[i]}
<1>1. /\ a \in Nat /\ b \in Nat
      /\ \A j \in Nat : j < a => \A i \in Row(j) : s[i] = BranchHash(s[2 * i], s[2 * i + 1])
      /\ \A j \in Nat : j < b => \A i \in Row(j) : t[i] = BranchHash(t[2 * i], t[2 * i + 1])
  BY TreeFacts
<1> HIDE DEF a, b
<1>2. s[1] = t[1]
  OBVIOUS
<1> HIDE DEF s, t
<1>3. 0 \in S
  BY <1>2, RowFacts
<1>4. ASSUME NEW j \in Nat, j \in S PROVE j + 1 \in S
  <2>1. SUFFICES ASSUME j + 1 <= a, j + 1 <= b, NEW i \in Row(j + 1) PROVE s[i] = t[i]
    OBVIOUS
  <2> DEFINE q == i \div 2
  <2>2. j < a /\ j < b
    BY <1>1, <2>1
  <2>3. i > 1 /\ q \in Row(j)
    BY RowFacts
  <2>4. i = 2 * q \/ i = 2 * q + 1
    <3>1. i \in Nat
      BY RowFacts
    <3>2. QED
      BY <2>3, <3>1, TwinFacts
  <2> HIDE DEF q
  <2>5. s[q] = BranchHash(s[2 * q], s[2 * q + 1]) /\ t[q] = BranchHash(t[2 * q], t[2 * q + 1])
    BY <1>1, <2>2, <2>3
  <2>6. s[q] = t[q]
    BY <1>1, <1>4, <2>2, <2>3
  <2>7. s[2 * q] = t[2 * q] /\ s[2 * q + 1] = t[2 * q + 1]
    <3>1. BranchHash(s[2 * q], s[2 * q + 1]) = BranchHash(t[2 * q], t[2 * q + 1])
      BY <2>5, <2>6
    <3>2. QED
      BY <3>1 DEF BranchHash
  <2>8. QED
    BY <2>4, <2>7
<1>5. Nat \subseteq S
  <2> HIDE DEF S
  <2>1. QED
    BY <1>3, <1>4, NatsIn
<1>6. QED
  BY <1>5 DEF s, t, a, b

(* The tree has no more levels below its root than another with that root. *)
LEMMA SameRootLevels ==
  ASSUME NEW fs \in Seq(Fields), NEW gs \in Seq(Fields), Tree(fs)[1] = Tree(gs)[1]
  PROVE  ~(Levels(Len(fs)) < Levels(Len(gs)))
<1> DEFINE a == Levels(Len(fs))
           i == Power(a)
<1>1. SUFFICES ASSUME a < Levels(Len(gs)) PROVE FALSE
  OBVIOUS
<1>2. a \in Nat /\ Levels(Len(gs)) \in Nat
  BY TreeFacts
<1>3. i \in Row(a)
  <2>1. i \in Nat /\ i > 0
    BY <1>2, PowerFacts
  <2>2. QED
    BY <2>1 DEF Row
<1> HIDE DEF i
<1>4. Tree(fs)[i] = Tree(gs)[i]
  <2>1. a <= a /\ a <= Levels(Len(gs))
    BY <1>1, <1>2
  <2>2. QED
    BY <1>2, <1>3, <2>1, SameRootSameRows
<1>5. Tree(fs)[i] = LeafAt(fs, i)
  BY <1>3, TreeFacts
<1>6. Tree(gs)[i] = BranchHash(Tree(gs)[2 * i], Tree(gs)[2 * i + 1])
  BY <1>1, <1>2, <1>3, TreeFacts
<1>7. QED
  BY ZenonT(60), <1>3, <1>4, <1>5, <1>6, LeafFacts

(* Two trees of one height and one root have the same number of leaves. *)
LEMMA SameRootLength ==
  ASSUME NEW fs \in Seq(Fields), NEW gs \in Seq(Fields), Tree(fs)[1] = Tree(gs)[1],
         Levels(Len(fs)) = Levels(Len(gs))
  PROVE  ~(Len(fs) < Len(gs))
<1> DEFINE n == Len(fs)
           i == LeafCount(Len(gs)) + n
<1>1. SUFFICES ASSUME n < Len(gs) PROVE FALSE
  OBVIOUS
<1>2. n \in Nat /\ Len(gs) \in Nat /\ n \in 0..(Len(gs) - 1)
  BY <1>1
<1>3. i \in Row(Levels(Len(gs))) /\ LeafCount(Len(fs)) = LeafCount(Len(gs))
      /\ LeafCount(Len(gs)) \in Nat
  BY <1>2, LeafRow, LevelsFacts DEF LeafCount
<1>4. i - LeafCount(Len(gs)) + 1 = n + 1 /\ i - LeafCount(Len(fs)) + 1 = n + 1
  BY <1>2, <1>3
<1> HIDE DEF i
<1>5. LeafAt(fs, i) = Padding
  <2>1. i - LeafCount(Len(fs)) + 1 > Len(fs)
    BY <1>2, <1>4
  <2>2. QED
    BY <1>3, <2>1, LeafFacts
<1>6. LeafAt(gs, i) = FieldHash(gs[n + 1])
  <2>1. i - LeafCount(Len(gs)) + 1 <= Len(gs)
    BY <1>2, <1>4
  <2>2. QED
    BY <1>3, <1>4, <2>1, LeafFacts
<1>7. Tree(fs)[i] = LeafAt(fs, i) /\ Tree(gs)[i] = LeafAt(gs, i)
  BY <1>3, TreeFacts
<1>8. Tree(fs)[i] = Tree(gs)[i]
  <2>1. Levels(Len(fs)) \in Nat /\ Levels(Len(fs)) <= Levels(Len(fs))
        /\ Levels(Len(fs)) <= Levels(Len(gs))
    BY TreeFacts
  <2>2. QED
    BY <1>3, <2>1, SameRootSameRows
<1>9. QED
  BY <1>5, <1>6, <1>7, <1>8, HashFacts

(***************************************************************************)
(* Two records with one tree root have the same fields: the number of       *)
(* leaves shows in the shape of the tree, and padding is no field.          *)
(***************************************************************************)
LEMMA TreeInjective ==
  ASSUME NEW fs \in Seq(Fields), NEW gs \in Seq(Fields), Tree(fs)[1] = Tree(gs)[1]
  PROVE  fs = gs
<1>1. Levels(Len(fs)) = Levels(Len(gs)) /\ Levels(Len(fs)) \in Nat
  <2>1. Levels(Len(fs)) \in Nat /\ Levels(Len(gs)) \in Nat
    BY TreeFacts
  <2>2. ~(Levels(Len(fs)) < Levels(Len(gs))) /\ ~(Levels(Len(gs)) < Levels(Len(fs)))
    BY SameRootLevels
  <2>3. QED
    BY <2>1, <2>2
<1>2. Len(fs) = Len(gs)
  <2>1. ~(Len(fs) < Len(gs)) /\ ~(Len(gs) < Len(fs))
    BY <1>1, SameRootLength
  <2>2. QED
    BY <2>1
<1>3. ASSUME NEW k \in 1..Len(fs) PROVE fs[k] = gs[k]
  <2> DEFINE l == LeafCount(Len(fs))
             i == l + (k - 1)
  <2>1. k - 1 \in 0..(Len(fs) - 1) /\ l \in Nat
    BY LevelsFacts
  <2>2. i \in Row(Levels(Len(fs))) /\ i - l + 1 = k
    BY <2>1, LeafRow
  <2> HIDE DEF i
  <2>3. LeafAt(fs, i) = FieldHash(fs[k]) /\ LeafAt(gs, i) = FieldHash(gs[k])
    BY <1>1, <1>2, <2>2, LeafFacts
  <2>4. Tree(fs)[i] = Tree(gs)[i]
    <3>1. Levels(Len(fs)) <= Levels(Len(fs)) /\ Levels(Len(fs)) <= Levels(Len(gs))
      BY <1>1
    <3>2. QED
      BY <1>1, <2>2, <3>1, SameRootSameRows
  <2>5. Tree(fs)[i] = LeafAt(fs, i) /\ Tree(gs)[i] = LeafAt(gs, i)
    BY <1>1, <2>2, TreeFacts
  <2>6. fs[k] \in Fields /\ gs[k] \in Fields
    BY <1>2
  <2>7. QED
    BY <2>3, <2>4, <2>5, <2>6, HashFacts
<1>4. QED
  BY <1>2, <1>3, SeqEqual

(* what Combine makes of a frontier with no twin missing, and of another *)
LEMMA CombineFacts ==
  ASSUME NEW f, NEW siblings
  PROVE  LET g       == Combine(f, siblings)
             here    == DOMAIN f
             hash(i) == IF i \in here THEN f[i] ELSE siblings[i]
             whole   == \A i \in here : Twin(i) \in here \union DOMAIN siblings
         IN  /\ whole => g = [p \in Above(here) |-> BranchHash(hash(2 * p), hash(2 * p + 1))]
             /\ ~whole => DOMAIN g = {}
<1>1. DOMAIN << >> = {}
  <2>1. << >> \in Seq({}) /\ Len(<< >>) = 0
    OBVIOUS
  <2>2. DOMAIN << >> = 1..0
    BY <2>1
  <2>3. QED
    BY <2>2
<1>2. QED
  BY <1>1 DEF Combine

(* One round, seen from a row whose round did not fail *)
LEMMA CombineRow ==
  ASSUME NEW j \in Nat, NEW f, NEW siblings, DOMAIN f \subseteq Row(j + 1)
  PROVE  LET g == Combine(f, siblings)
         IN  /\ DOMAIN g \subseteq Row(j)
             /\ \A q \in DOMAIN g : \E x, y : g[q] = BranchHash(x, y)
             /\ DOMAIN g # {} =>
                  /\ DOMAIN f # {}
                  /\ \A i \in DOMAIN f :
                       /\ i \div 2 \in DOMAIN g
                       /\ \E x, y : /\ g[i \div 2] = BranchHash(x, y)
                                    /\ i = 2 * (i \div 2) => x = f[i]
                                    /\ i = 2 * (i \div 2) + 1 => y = f[i]
<1> DEFINE g       == Combine(f, siblings)
           here    == DOMAIN f
           hash(i) == IF i \in here THEN f[i] ELSE siblings[i]
           whole   == \A i \in here : Twin(i) \in here \union DOMAIN siblings
<1>1. /\ whole => g = [p \in Above(here) |-> BranchHash(hash(2 * p), hash(2 * p + 1))]
      /\ ~whole => DOMAIN g = {}
  BY CombineFacts
<1> HIDE DEF g, hash, whole
<1>2. Above(here) \subseteq Row(j)
  BY RowFacts DEF Above
<1>3. CASE ~whole
  BY <1>1, <1>3 DEF g
<1>4. CASE whole
  <2>1. /\ DOMAIN g = Above(here)
        /\ \A q \in Above(here) : g[q] = BranchHash(hash(2 * q), hash(2 * q + 1))
    BY <1>1, <1>4
  <2>2. DOMAIN g # {} => here # {}
    BY <2>1 DEF Above
  <2>3. ASSUME NEW i \in here
        PROVE  /\ i \div 2 \in DOMAIN g
               /\ \E x, y : /\ g[i \div 2] = BranchHash(x, y)
                            /\ i = 2 * (i \div 2) => x = f[i]
                            /\ i = 2 * (i \div 2) + 1 => y = f[i]
    <3>1. i \div 2 \in Above(here)
      BY DEF Above
    <3>2. g[i \div 2] = BranchHash(hash(2 * (i \div 2)), hash(2 * (i \div 2) + 1))
      BY <2>1, <3>1
    <3>3. hash(i) = f[i]
      BY DEF hash
    <3>4. QED
      BY <2>1, <3>1, <3>2, <3>3
  <2>4. QED
    BY <1>2, <2>1, <2>2, <2>3 DEF g
<1>5. QED
  BY <1>3, <1>4

(* the rounds of combine_frontier, and the row each is in *)
RoundsOf(level, siblings, height) ==
  /\ \A k \in 0..(height - 1) : level[k + 1] = Combine(level[k], siblings)
  /\ \A k \in 0..height : DOMAIN level[k] \subseteq Row(height - k)

(* the levels that CombineFrontier passes *)
LEMMA Rounds ==
  ASSUME NEW height \in Nat, NEW first, NEW siblings, DOMAIN first \subseteq Row(height)
  PROVE  \E level :
           /\ RoundsOf(level, siblings, height)
           /\ level[0] = first
           /\ CombineFrontier(first, siblings, height) = level[height]
<1>1. PICK level :
        /\ level[0] = first
        /\ \A k \in 0..(height - 1) : level[k + 1] = Combine(level[k], siblings)
        /\ CombineFrontier(first, siblings, height) = level[height]
  BY CombineSteps
<1> DEFINE S == {k \in Nat : k <= height => DOMAIN level[k] \subseteq Row(height - k)}
<1>2. 0 \in S
  BY <1>1
<1>3. ASSUME NEW k \in Nat, k \in S PROVE k + 1 \in S
  <2>1. SUFFICES ASSUME k + 1 <= height
                 PROVE  DOMAIN level[k + 1] \subseteq Row(height - (k + 1))
    OBVIOUS
  <2>2. /\ k \in 0..(height - 1) /\ height - (k + 1) \in Nat
        /\ height - k = (height - (k + 1)) + 1
    BY <2>1
  <2>3. DOMAIN level[k] \subseteq Row((height - (k + 1)) + 1)
    BY <1>3, <2>2
  <2>4. DOMAIN Combine(level[k], siblings) \subseteq Row(height - (k + 1))
    BY <2>2, <2>3, CombineRow
  <2>5. QED
    BY <1>1, <2>2, <2>4
<1>4. Nat \subseteq S
  <2> HIDE DEF S
  <2>1. QED
    BY <1>2, <1>3, NatsIn
<1>5. RoundsOf(level, siblings, height)
  BY <1>1, <1>4 DEF RoundsOf
<1>6. QED
  BY <1>1, <1>5

(* If the rounds end in the root of a tree, every round was in the tree. *)
LEMMA RoundsInTree ==
  ASSUME NEW fields \in Seq(Fields), NEW height \in Nat, NEW level, NEW siblings,
         RoundsOf(level, siblings, height),
         1 \in DOMAIN level[height], level[height][1] = Tree(fields)[1]
  PROVE  \A j \in Nat : j <= height /\ j <= Levels(Len(fields)) =>
           /\ DOMAIN level[height - j] # {}
           /\ \A i \in DOMAIN level[height - j] : level[height - j][i] = Tree(fields)[i]
<1> DEFINE t == Tree(fields)
           h == Levels(Len(fields))
           S == {j \in Nat : j <= height /\ j <= h =>
                   /\ DOMAIN level[height - j] # {}
                   /\ \A i \in DOMAIN level[height - j] : level[height - j][i] = t[i]}
<1>1. /\ h \in Nat
      /\ \A j \in Nat : j < h => \A i \in Row(j) : t[i] = BranchHash(t[2 * i], t[2 * i + 1])
  BY TreeFacts
<1>2. level[height][1] = t[1]
  OBVIOUS
<1> HIDE DEF t, h
<1>3. 0 \in S
  <2>1. height - 0 = height /\ height - height = 0 /\ height \in 0..height
    OBVIOUS
  <2>2. DOMAIN level[height] \subseteq {1}
    BY <2>1, RowFacts DEF RoundsOf
  <2>3. QED
    BY <1>2, <2>1, <2>2
<1>4. ASSUME NEW j \in Nat, j \in S PROVE j + 1 \in S
  <2>1. SUFFICES ASSUME j + 1 <= height, j + 1 <= h
                 PROVE  /\ DOMAIN level[height - (j + 1)] # {}
                        /\ \A i \in DOMAIN level[height - (j + 1)] :
                             level[height - (j + 1)][i] = t[i]
    OBVIOUS
  <2> DEFINE k == height - (j + 1)
             f == level[k]
             g == level[k + 1]
  <2>2. /\ k \in 0..(height - 1) /\ k \in 0..height /\ k + 1 = height - j /\ height - k = j + 1
        /\ j < h /\ j <= h /\ j <= height
    BY <1>1, <2>1
  <2>3. g = Combine(f, siblings) /\ DOMAIN f \subseteq Row(j + 1)
    BY <2>2 DEF RoundsOf
  <2>4. DOMAIN g # {} /\ \A i \in DOMAIN g : g[i] = t[i]
    BY <1>4, <2>2
  <2> HIDE DEF k, f, g
  <2>5. /\ DOMAIN g \subseteq Row(j)
        /\ DOMAIN f # {}
        /\ \A i \in DOMAIN f :
             /\ i \div 2 \in DOMAIN g
             /\ \E x, y : /\ g[i \div 2] = BranchHash(x, y)
                          /\ i = 2 * (i \div 2) => x = f[i]
                          /\ i = 2 * (i \div 2) + 1 => y = f[i]
    <3> DEFINE c == Combine(f, siblings)
    <3>1. DOMAIN c # {}
      BY <2>3, <2>4
    <3>2. /\ DOMAIN c \subseteq Row(j)
          /\ DOMAIN c # {} =>
               /\ DOMAIN f # {}
               /\ \A i \in DOMAIN f :
                    /\ i \div 2 \in DOMAIN c
                    /\ \E x, y : /\ c[i \div 2] = BranchHash(x, y)
                                 /\ i = 2 * (i \div 2) => x = f[i]
                                 /\ i = 2 * (i \div 2) + 1 => y = f[i]
      BY <2>3, CombineRow
    <3> HIDE DEF c
    <3>3. c = g
      BY <2>3 DEF c
    <3>4. QED
      BY <3>1, <3>2, <3>3
  <2>6. ASSUME NEW i \in DOMAIN f PROVE f[i] = t[i]
    <3> DEFINE q == i \div 2
    <3>1. i > 1 /\ i \in Nat
      <4>1. i \in Row(j + 1) /\ j + 1 \in Nat
        BY <2>3
      <4>2. QED
        BY <4>1, RowFacts
    <3>2. i = 2 * q \/ i = 2 * q + 1
      BY <3>1, TwinFacts
    <3>3. q \in DOMAIN g /\ q \in Row(j)
      BY <2>5
    <3>4. PICK x, y : /\ g[q] = BranchHash(x, y)
                      /\ i = 2 * q => x = f[i]
                      /\ i = 2 * q + 1 => y = f[i]
      BY <2>5
    <3> HIDE DEF q
    <3>5. g[q] = t[q] /\ t[q] = BranchHash(t[2 * q], t[2 * q + 1])
      BY <1>1, <2>2, <2>4, <3>3
    <3>6. x = t[2 * q] /\ y = t[2 * q + 1]
      <4>1. BranchHash(x, y) = BranchHash(t[2 * q], t[2 * q + 1])
        BY <3>4, <3>5
      <4>2. QED
        BY <4>1 DEF BranchHash
    <3>7. QED
      BY <3>2, <3>4, <3>6
  <2>7. QED
    BY <2>5, <2>6 DEF f, k
<1>5. Nat \subseteq S
  <2> HIDE DEF S
  <2>1. QED
    BY <1>3, <1>4, NatsIn
<1>6. QED
  BY <1>5 DEF t, h

(* what Increasing says of neighbours holds of any two *)
LEMMA IncreasingOrders ==
  ASSUME NEW s \in Seq(Nat), Increasing(s)
  PROVE  \A i, j \in 1..Len(s) : i < j => s[i] < s[j]
<1>1. SUFFICES ASSUME NEW i \in 1..Len(s)
               PROVE  \A j \in 1..Len(s) : i < j => s[i] < s[j]
  OBVIOUS
<1>2. Len(s) \in Nat /\ \A k \in 1..Len(s) : s[k] \in Nat
  OBVIOUS
<1> DEFINE S == {d \in Nat : i + d + 1 <= Len(s) => s[i] < s[i + d + 1]}
<1>3. 0 \in S
  <2>1. SUFFICES ASSUME i + 0 + 1 <= Len(s) PROVE s[i] < s[i + 0 + 1]
    OBVIOUS
  <2>2. i \in 1..(Len(s) - 1) /\ i + 0 + 1 = i + 1
    BY <1>2, <2>1
  <2>3. QED
    BY <2>2 DEF Increasing
<1>4. ASSUME NEW d \in Nat, d \in S PROVE d + 1 \in S
  <2>1. SUFFICES ASSUME i + (d + 1) + 1 <= Len(s) PROVE s[i] < s[i + (d + 1) + 1]
    OBVIOUS
  <2> DEFINE m == i + d + 1
  <2>2. m \in 1..(Len(s) - 1) /\ m + 1 \in 1..Len(s) /\ m \in 1..Len(s) /\ m <= Len(s)
        /\ i + (d + 1) + 1 = m + 1
    BY <1>2, <2>1
  <2>3. s[i] < s[m]
    BY <1>4, <2>2
  <2> HIDE DEF m
  <2>4. s[m] < s[m + 1]
    BY <2>2 DEF Increasing
  <2>5. QED
    BY SMTT(30), <1>2, <2>2, <2>3, <2>4
<1>5. Nat \subseteq S
  <2> HIDE DEF S
  <2>1. QED
    BY <1>3, <1>4, NatsIn
<1>6. ASSUME NEW j \in 1..Len(s), i < j PROVE s[i] < s[j]
  <2>1. j - i - 1 \in Nat /\ i + (j - i - 1) + 1 = j /\ j <= Len(s)
    BY <1>2, <1>6
  <2>2. QED
    BY <1>5, <2>1
<1>7. QED
  BY <1>6

(* the parts of a proof by their types *)
LEMMA ProofTypes ==
  ASSUME NEW p, ProofTyped(p)
  PROVE  /\ p.field_count \in Nat /\ p.schema_version \in Nat
         /\ Len(p.leaves) \in Nat
         /\ \A i \in 1..Len(p.leaves) :
              p.leaves[i].index \in Nat /\ p.leaves[i].field \in Fields
<1> DEFINE ls == p.leaves
<1>1. ls \in Seq([index : Nat, field : Fields])
  BY DEF ProofTyped
<1> HIDE DEF ls
<1>2. Len(ls) \in Nat /\ \A i \in 1..Len(ls) : ls[i] \in [index : Nat, field : Fields]
  BY <1>1, ElementOfSeq, LenProperties
<1>3. QED
  BY <1>2 DEF ls, ProofTyped

(* the leaves of a canonical proof by position *)
LEMMA LeafHashesFacts ==
  ASSUME NEW p, ProofTyped(p),
         \A i \in 1..Len(p.leaves) : p.leaves[i].index < p.field_count,
         Increasing([i \in 1..Len(p.leaves) |-> p.leaves[i].index])
  PROVE  /\ DOMAIN LeafHashes(p) =
              {LeafCount(p.field_count) + p.leaves[i].index : i \in 1..Len(p.leaves)}
         /\ DOMAIN LeafHashes(p) \subseteq Row(Levels(p.field_count))
         /\ \A i \in 1..Len(p.leaves) :
              LeafHashes(p)[LeafCount(p.field_count) + p.leaves[i].index] =
                FieldHash(p.leaves[i].field)
<1> DEFINE first == LeafCount(p.field_count)
           ls    == 1..Len(p.leaves)
           at    == [i \in ls |-> p.leaves[i].index]
<1>1. /\ p.field_count \in Nat /\ Len(p.leaves) \in Nat
      /\ \A i \in ls : p.leaves[i].index \in Nat
  BY ProofTypes
<1>2. first \in Nat
  BY <1>1, LevelsFacts
<1>3. \A i \in ls : p.leaves[i].index \in 0..(p.field_count - 1)
  BY <1>1
<1>4. \A i, j \in ls : p.leaves[i].index = p.leaves[j].index => i = j
  <2>1. at \in Seq(Nat) /\ Len(at) = Len(p.leaves)
    <3>1. at \in [1..Len(p.leaves) -> Nat]
      BY <1>1
    <3>2. QED
      BY <1>1, <3>1
  <2>2. \A i, j \in ls : i < j => at[i] < at[j]
    BY <2>1, IncreasingOrders
  <2>3. ASSUME NEW i \in ls, NEW j \in ls, i < j PROVE p.leaves[i].index # p.leaves[j].index
    <3>1. at[i] < at[j] /\ at[i] = p.leaves[i].index /\ at[j] = p.leaves[j].index
      BY <2>2, <2>3
    <3>2. at[i] \in Nat /\ at[j] \in Nat
      BY <1>1
    <3>3. QED
      BY <3>1, <3>2
  <2>4. QED
    BY <2>3
<1>5. \A i \in ls : first + p.leaves[i].index \in Row(Levels(p.field_count))
  BY <1>1, <1>3, LeafRow
<1> HIDE DEF first
<1>6. LeafHashes(p) = [n \in {first + p.leaves[i].index : i \in ls} |->
                         FieldHash(p.leaves[CHOOSE i \in ls : first + p.leaves[i].index = n].field)]
  BY DEF LeafHashes, first
<1>7. ASSUME NEW i \in ls
      PROVE  LeafHashes(p)[first + p.leaves[i].index] = FieldHash(p.leaves[i].field)
  <2> DEFINE n == first + p.leaves[i].index
             c == CHOOSE j \in ls : first + p.leaves[j].index = n
  <2>1. c \in ls /\ first + p.leaves[c].index = n
    OBVIOUS
  <2> HIDE DEF c
  <2>2. p.leaves[c].index = p.leaves[i].index
    BY SMTT(30), <1>2, <1>1, <2>1
  <2>3. c = i
    BY <1>4, <2>1, <2>2
  <2>4. LeafHashes(p)[n] = FieldHash(p.leaves[c].field)
    BY <1>6 DEF c
  <2>5. QED
    BY <2>3, <2>4
<1>8. DOMAIN LeafHashes(p) = {first + p.leaves[i].index : i \in ls}
  BY <1>6
<1>9. QED
  BY <1>5, <1>7, <1>8 DEF first

(***************************************************************************)
(* A proof whose leaves and siblings hash to the root of a record names     *)
(* fields of that record, by their positions.                               *)
(***************************************************************************)
LEMMA RecomputeSound ==
  ASSUME NEW p, ProofTyped(p), NEW version, NEW fields \in Seq(Fields),
         RecomputeProofRoot(p) = <<RootOf(version, fields)>>
  PROVE  /\ CanonicalProof(p)
         /\ \A i \in 1..Len(p.leaves) :
              /\ p.leaves[i].index + 1 \in 1..Len(fields)
              /\ p.leaves[i].field = fields[p.leaves[i].index + 1]
<1> DEFINE height == Levels(p.field_count)
           h      == Levels(Len(fields))
           t      == Tree(fields)
           first  == LeafHashes(p)
           top    == CombineFrontier(first, SiblingHashes(p), height)
<1>1. CanonicalProof(p) /\ 1 \in DOMAIN top /\ top[1] = t[1]
  <2>1. RecomputeProofRoot(p) = IF CanonicalProof(p) /\ 1 \in DOMAIN top
                                THEN <<SchemaRoot(p.schema_version, top[1])>> ELSE <<>>
    BY DEF RecomputeProofRoot
  <2> HIDE DEF top, t
  <2>2. CanonicalProof(p) /\ 1 \in DOMAIN top
    BY <2>1
  <2>3. SchemaRoot(p.schema_version, top[1]) = SchemaRoot(version, t[1])
    BY <2>1, <2>2 DEF RootOf, t
  <2>4. QED
    BY <2>2, <2>3 DEF SchemaRoot
<1>2. /\ height \in Nat /\ h \in Nat
      /\ Len(p.leaves) \in Nat
      /\ \A i \in 1..Len(p.leaves) :
           p.leaves[i].index \in Nat /\ p.leaves[i].field \in Fields
  <2>1. /\ p.field_count \in Nat /\ Len(fields) \in Nat
        /\ Len(p.leaves) \in Nat
        /\ \A i \in 1..Len(p.leaves) :
             p.leaves[i].index \in Nat /\ p.leaves[i].field \in Fields
    BY ProofTypes
  <2>2. QED
    BY <2>1, LevelsFacts
<1>3. /\ DOMAIN first = {LeafCount(p.field_count) + p.leaves[i].index : i \in 1..Len(p.leaves)}
      /\ DOMAIN first \subseteq Row(height)
      /\ \A i \in 1..Len(p.leaves) :
           first[LeafCount(p.field_count) + p.leaves[i].index] = FieldHash(p.leaves[i].field)
  BY <1>1, LeafHashesFacts DEF CanonicalProof
<1> HIDE DEF first, height, h, t
<1>4. PICK level :
           /\ RoundsOf(level, SiblingHashes(p), height)
           /\ level[0] = first
           /\ top = level[height]
  <2>1. PICK level : /\ RoundsOf(level, SiblingHashes(p), height)
                     /\ level[0] = first
                     /\ CombineFrontier(first, SiblingHashes(p), height) = level[height]
    BY <1>2, <1>3, Rounds
  <2>2. QED
    BY <2>1
<1> HIDE DEF top
<1>5. \A j \in Nat : j <= height /\ j <= h =>
        /\ DOMAIN level[height - j] # {}
        /\ \A i \in DOMAIN level[height - j] : level[height - j][i] = t[i]
  <2>1. 1 \in DOMAIN level[height] /\ level[height][1] = Tree(fields)[1]
    BY <1>1, <1>4 DEF t
  <2>2. \A j \in Nat : j <= height /\ j <= Levels(Len(fields)) =>
          /\ DOMAIN level[height - j] # {}
          /\ \A i \in DOMAIN level[height - j] : level[height - j][i] = Tree(fields)[i]
    BY <1>2, <1>4, <2>1, RoundsInTree
  <2>3. QED
    BY <2>2 DEF t, h
<1>6. ~(height < h)
  <2>1. SUFFICES ASSUME height < h PROVE FALSE
    OBVIOUS
  <2>2. height - height = 0 /\ height <= height /\ height <= h
    BY <1>2, <2>1
  <2>3. PICK i \in DOMAIN first : first[i] = t[i]
    BY <1>2, <1>4, <1>5, <2>2
  <2>4. PICK k \in 1..Len(p.leaves) : i = LeafCount(p.field_count) + p.leaves[k].index
    BY <1>3
  <2>5. t[i] = FieldHash(p.leaves[k].field)
    BY <1>3, <2>3, <2>4
  <2>6. t[i] = BranchHash(t[2 * i], t[2 * i + 1])
    BY <1>2, <1>3, <2>1, <2>3, TreeFacts DEF t, h
  <2>7. QED
    BY <2>5, <2>6 DEF FieldHash, BranchHash
<1>7. ~(height > h)
  <2>1. SUFFICES ASSUME height > h PROVE FALSE
    OBVIOUS
  <2> DEFINE k == height - h - 1
  <2>2. /\ k \in 0..(height - 1) /\ k \in 0..height /\ k + 1 = height - h
        /\ height - k = h + 1 /\ height - (k + 1) = h /\ k + 1 \in 0..height
        /\ h <= height /\ h <= h
    BY <1>2, <2>1
  <2>3. /\ DOMAIN level[k + 1] # {}
        /\ \A i \in DOMAIN level[k + 1] : level[k + 1][i] = t[i]
    BY <1>2, <1>5, <2>2
  <2>4. DOMAIN level[k + 1] \subseteq Row(h) /\ DOMAIN level[k] \subseteq Row(h + 1)
        /\ level[k + 1] = Combine(level[k], SiblingHashes(p))
    BY <1>4, <2>2 DEF RoundsOf
  <2> HIDE DEF k
  <2>5. PICK i \in DOMAIN level[k + 1] : TRUE
    BY <2>3
  <2>6. \E x, y : level[k + 1][i] = BranchHash(x, y)
    BY <1>2, <2>4, <2>5, CombineRow
  <2>7. i \in Row(h) /\ t[i] = LeafAt(fields, i)
    BY <2>4, <2>5, TreeFacts DEF t, h
  <2>8. QED
    BY <2>3, <2>6, <2>7, LeafFacts DEF h
<1>8. height = h
  BY <1>2, <1>6, <1>7
<1>9. LeafCount(p.field_count) = LeafCount(Len(fields))
  BY <1>8 DEF LeafCount, height, h
<1>10. ASSUME NEW i \in 1..Len(p.leaves)
       PROVE  /\ p.leaves[i].index + 1 \in 1..Len(fields)
              /\ p.leaves[i].field = fields[p.leaves[i].index + 1]
  <2> DEFINE l == LeafCount(Len(fields))
             n == l + p.leaves[i].index
  <2>1. p.leaves[i].index \in Nat /\ p.leaves[i].field \in Fields /\ Len(fields) \in Nat
    BY <1>2
  <2>2. l \in Nat
    BY <2>1, LevelsFacts
  <2>3. n \in DOMAIN first /\ first[n] = FieldHash(p.leaves[i].field)
    BY <1>3, <1>9
  <2>4. n \in Row(h) /\ n - l + 1 = p.leaves[i].index + 1
    BY <1>3, <1>8, <2>2, <2>1, <2>3
  <2>5. first[n] = t[n]
    <3>1. height - height = 0 /\ height <= height /\ height <= h
      BY <1>2, <1>8
    <3>2. QED
      BY <1>2, <1>4, <1>5, <2>3, <3>1
  <2>6. t[n] = LeafAt(fields, n)
    BY <2>4, TreeFacts DEF t, h
  <2> HIDE DEF n
  <2>7. LeafAt(fields, n) = FieldHash(p.leaves[i].field)
    BY <2>3, <2>5, <2>6
  <2>8. /\ n - l + 1 <= Len(fields) => LeafAt(fields, n) = FieldHash(fields[n - l + 1])
        /\ n - l + 1 > Len(fields) => LeafAt(fields, n) = Padding
    BY <2>4, LeafFacts DEF h
  <2>9. n - l + 1 <= Len(fields)
    BY <2>1, <2>4, <2>7, <2>8, HashFacts
  <2>10. p.leaves[i].index + 1 \in 1..Len(fields)
    BY <2>1, <2>4, <2>9
  <2>11. FieldHash(p.leaves[i].field) = FieldHash(fields[p.leaves[i].index + 1])
    BY <2>4, <2>7, <2>8, <2>9
  <2>12. fields[p.leaves[i].index + 1] \in Fields
    BY <2>10
  <2>13. QED
    BY <2>1, <2>10, <2>11, <2>12, HashFacts
<1>11. QED
  BY <1>1, <1>10

(* the number of cells of a payload *)
Size(f) == Len(f[2])

(* the field f is written behind the first a of these cells *)
Placed(cells, f, a) ==
  /\ a + 2 + Size(f) <= Len(cells)
  /\ cells[a + 1] = f[1]
  /\ cells[a + 2] = Size(f)
  /\ SubSeq(cells, a + 3, a + 2 + Size(f)) = f[2]

ParseErrors == {"none", "UnexpectedEnd", "PayloadLimit", "NonCanonicalOrder"}
ParseStates == [error : ParseErrors, cursor : Nat, fields : Seq(Fields)]

(* A field that is read was placed at the cursor. *)
LEMMA FieldRead ==
  ASSUME NEW acc \in ParseStates, NEW r, r.cells \in Seq(Nat), NEW limits, acc.error = "none"
  PROVE  LET next == ParseField(acc, r, limits)
         IN  /\ next \in ParseStates
             /\ next.error = "none" =>
                  \E f \in Fields : /\ Placed(r.cells, f, acc.cursor)
                                    /\ next.fields = Append(acc.fields, f)
                                    /\ next.cursor = acc.cursor + 2 + Size(f)
<1> DEFINE c == r.cells
           a == acc.cursor
           m == c[a + 2]
           n == Len(c)
           next == ParseField(acc, r, limits)
           end == a + 2 + m
           f == <<c[a + 1], SubSeq(c, a + 3, end)>>
           refused(e) == [acc EXCEPT !.error = e]
           more == Append(acc.fields, f)
           read == [error |-> "none", cursor |-> end, fields |-> more]
<1>1. \/ next = refused("UnexpectedEnd") \/ next = refused("PayloadLimit")
      \/ next = refused("NonCanonicalOrder")
      \/ next = read /\ ~(a + 2 > n) /\ ~(end > n)
  BY DEF ParseField
<1>2. /\ a \in Nat /\ acc.fields \in Seq(Fields)
      /\ acc = [error |-> acc.error, cursor |-> acc.cursor, fields |-> acc.fields]
  BY DEF ParseStates
<1>3. n \in Nat /\ \A i \in 1..n : c[i] \in Nat
  BY ElementOfSeq, LenProperties
<1> HIDE DEF next, refused, n, a, read, c
<1>4. CASE next = read /\ ~(a + 2 > n) /\ ~(end > n)
  <2>1. a + 1 \in 1..n /\ a + 2 \in 1..n
    BY <1>2, <1>3, <1>4
  <2>2. c[a + 1] \in Nat /\ m \in Nat
    BY <1>3, <2>1
  <2> HIDE DEF m
  <2>3. end \in Nat /\ end <= n /\ end - (a + 3) + 1 = m /\ a + 3 \in Nat
        /\ (a + 3 <= end => end - (a + 3) + 1 = m) /\ (~(a + 3 <= end) => m = 0)
    BY SMTT(30), <1>2, <1>3, <1>4, <2>2
  <2>4. end = a + 2 + m
    OBVIOUS
  <2> HIDE DEF end
  <2>5. SubSeq(c, a + 3, end) \in Seq(Nat) /\ Len(SubSeq(c, a + 3, end)) = m
    <3>1. \A i \in (a + 3)..end : i \in 1..n
      BY <1>2, <1>3, <2>3
    <3>2. \A i \in (a + 3)..end : c[i] \in Nat
      BY <1>3, <3>1
    <3>3. a + 3 \in Int /\ end \in Int
      BY <2>3
    <3>4. /\ SubSeq(c, a + 3, end) \in Seq(Nat)
          /\ Len(SubSeq(c, a + 3, end)) = IF a + 3 <= end THEN end - (a + 3) + 1 ELSE 0
      BY <3>2, <3>3, SubSeqProperties
    <3>5. QED
      BY <2>3, <3>4
  <2>6. f \in Fields /\ f[1] = c[a + 1] /\ f[2] = SubSeq(c, a + 3, end)
    BY <2>2, <2>5 DEF Fields
  <2> HIDE DEF f
  <2>7. Size(f) = m
    BY <2>5, <2>6 DEF Size
  <2>8. end = a + 2 + Size(f)
    BY <2>4, <2>7
  <2>9. Placed(c, f, a)
    BY <2>3, <2>6, <2>7, <2>8 DEF Placed, m, n
  <2>10. Append(acc.fields, f) \in Seq(Fields)
    BY <1>2, <2>6, AppendProperties
  <2> HIDE DEF more
  <2>11. read \in ParseStates /\ read.fields = more /\ read.cursor = end
    BY <2>3, <2>10 DEF ParseStates, ParseErrors, read, more
  <2>12. read.fields = Append(acc.fields, f)
    BY <2>11 DEF more
  <2>13. QED
    BY <1>4, <2>6, <2>8, <2>9, <2>11, <2>12 DEF next, c, a
<1>5. CASE ~(next = read /\ ~(a + 2 > n) /\ ~(end > n))
  <2>1. next \in ParseStates /\ next.error # "none"
    <3>1. \/ next = refused("UnexpectedEnd") \/ next = refused("PayloadLimit")
          \/ next = refused("NonCanonicalOrder")
      BY <1>1, <1>5
    <3>2. CASE next = refused("UnexpectedEnd")
      BY <3>2 DEF refused, ParseStates, ParseErrors
    <3>3. CASE next = refused("PayloadLimit")
      BY <3>3 DEF refused, ParseStates, ParseErrors
    <3>4. CASE next = refused("NonCanonicalOrder")
      BY <3>4 DEF refused, ParseStates, ParseErrors
    <3>5. QED
      BY <3>1, <3>2, <3>3, <3>4
  <2>2. QED
    BY <2>1 DEF next
<1>6. QED
  BY <1>4, <1>5

(* A placed field within the limits is read. *)
LEMMA FieldIsRead ==
  ASSUME NEW acc \in ParseStates, NEW r, r.cells \in Seq(Nat), NEW limits, acc.error = "none",
         NEW f \in Fields, Placed(r.cells, f, acc.cursor),
         limits.max_payload_len \in Nat, Size(f) <= limits.max_payload_len,
         acc.fields # <<>> => Last(acc.fields)[1] < f[1],
         acc.fields # <<>> => Last(acc.fields)[1] \in Nat
  PROVE  ParseField(acc, r, limits) = [error  |-> "none",
                                       cursor |-> acc.cursor + 2 + Size(f),
                                       fields |-> Append(acc.fields, f)]
<1> DEFINE c == r.cells
           a == acc.cursor
           n == Len(c)
           m == Size(f)
           end == a + 2 + c[a + 2]
           last == Last(acc.fields)[1]
<1>1. a \in Nat /\ f[1] \in Nat /\ f[2] \in Seq(Nat) /\ f = <<f[1], f[2]>>
      /\ acc = [error |-> "none", cursor |-> acc.cursor, fields |-> acc.fields]
  BY DEF ParseStates, Fields
<1>2. n \in Nat /\ m \in Nat
  BY <1>1, LenProperties DEF Size
<1>3. /\ a + 2 + m <= n
      /\ c[a + 1] = f[1] /\ c[a + 2] = m
      /\ SubSeq(c, a + 3, a + 2 + m) = f[2]
  BY DEF Placed
<1>4. ParseField(acc, r, limits) =
        IF a + 2 > n THEN [acc EXCEPT !.error = "UnexpectedEnd"]
        ELSE IF c[a + 2] > limits.max_payload_len THEN [acc EXCEPT !.error = "PayloadLimit"]
        ELSE IF acc.fields # <<>> /\ c[a + 1] <= last
          THEN [acc EXCEPT !.error = "NonCanonicalOrder"]
        ELSE IF end > n THEN [acc EXCEPT !.error = "UnexpectedEnd"]
        ELSE [error |-> "none", cursor |-> end,
              fields |-> Append(acc.fields, <<c[a + 1], SubSeq(c, a + 3, end)>>)]
  BY DEF ParseField
<1>5. acc.fields # <<>> => last < f[1] /\ last \in Nat
  OBVIOUS
<1> HIDE DEF last, n, m, a
<1>6. ~(a + 2 > n) /\ end = a + 2 + m /\ ~(end > n)
  <2>1. a \in Nat
    BY <1>1 DEF a
  <2>2. end = a + 2 + m
    BY <1>3
  <2>3. QED
    BY <1>2, <1>3, <2>1, <2>2
<1>7. ~(c[a + 2] > limits.max_payload_len)
  BY SMTT(30), <1>2, <1>3 DEF m
<1>8. ~(acc.fields # <<>> /\ c[a + 1] <= last)
  BY <1>1, <1>3, <1>5
<1>9. <<c[a + 1], SubSeq(c, a + 3, end)>> = f
  BY <1>1, <1>3, <1>6
<1>10. QED
  BY <1>4, <1>6, <1>7, <1>8, <1>9 DEF a, m

(* the fields fill these cells behind the header, field k up to o[k] *)
Laid(cells, fields, o) ==
  /\ o[0] = RECORD_HEADER
  /\ \A k \in 1..Len(fields) : /\ Placed(cells, fields[k], o[k - 1])
                               /\ o[k] = o[k - 1] + 2 + Size(fields[k])
  /\ o[Len(fields)] = Len(cells)

(* Fields that the loop has read lie one behind the other. *)
LEMMA ParseLaid ==
  ASSUME NEW r, r.cells \in Seq(Nat), Len(r.cells) >= RECORD_HEADER, NEW limits
  PROVE  LET acc == ParseFields(r, limits)
         IN  /\ acc \in ParseStates
             /\ acc.error = "none" =>
                  /\ Len(acc.fields) = r.cells[2]
                  /\ acc.cursor = Len(r.cells) => \E o : Laid(r.cells, acc.fields, o)
<1> DEFINE n == r.cells[2]
<1>1. n \in Nat
  <2>1. 2 \in 1..Len(r.cells)
    BY LenProperties DEF RECORD_HEADER
  <2>2. QED
    BY <2>1, ElementOfSeq
<1>2. PICK after : /\ after[0] = ParseStart
                   /\ \A k \in 0..(n - 1) : after[k + 1] = ParseField(after[k], r, limits)
                   /\ ParseFields(r, limits) = after[n]
  BY <1>1, ParseSteps
<1> HIDE DEF n
<1>3. after[0] = ParseStart /\ ParseStart \in ParseStates
  <2>1. << >> \in Seq(Fields)
    BY EmptySeq
  <2>2. QED
    BY <1>2, <2>1 DEF ParseStart, ParseStates, ParseErrors, RECORD_HEADER
<1>4. ASSUME NEW i \in Nat, i < n PROVE after[i + 1] = ParseField(after[i], r, limits)
  BY <1>1, <1>2, <1>4
<1>5. ASSUME NEW i \in Nat, i < n, after[i].error # "none" PROVE after[i + 1] = after[i]
  BY <1>4, <1>5 DEF ParseField
<1> DEFINE S == {i \in Nat : i <= n => after[i] \in ParseStates}
<1>6. Nat \subseteq S
  <2>1. 0 \in S
    BY <1>3
  <2>2. ASSUME NEW i \in Nat, i \in S PROVE i + 1 \in S
    <3>1. SUFFICES ASSUME i + 1 <= n PROVE after[i + 1] \in ParseStates
      OBVIOUS
    <3>2. i < n /\ after[i] \in ParseStates
      BY <1>1, <2>2, <3>1
    <3>3. CASE after[i].error # "none"
      BY <1>5, <3>2, <3>3
    <3>4. CASE after[i].error = "none"
      BY <1>4, <3>2, <3>4, FieldRead
    <3>5. QED
      BY <3>3, <3>4
  <2>3. QED
    <3> HIDE DEF S
    <3>1. QED
      BY <2>1, <2>2, NatsIn
<1>7. \A i \in 0..n : after[i] \in ParseStates
  BY <1>1, <1>6
<1>8. ASSUME after[n].error = "none"
      PROVE  /\ Len(after[n].fields) = n
             /\ after[n].cursor = Len(r.cells) => \E o : Laid(r.cells, after[n].fields, o)
  <2> DEFINE Q == {d \in Nat : d <= n => after[n - d].error = "none"}
  <2>1. Nat \subseteq Q
    <3>1. 0 \in Q
      BY <1>1, <1>8
    <3>2. ASSUME NEW d \in Nat, d \in Q PROVE d + 1 \in Q
      <4>1. SUFFICES ASSUME d + 1 <= n PROVE after[n - (d + 1)].error = "none"
        OBVIOUS
      <4>2. n - (d + 1) \in Nat /\ n - (d + 1) < n /\ n - (d + 1) + 1 = n - d /\ d <= n
        BY <1>1, <4>1
      <4>3. after[n - d].error = "none"
        BY <3>2, <4>2
      <4>4. after[n - (d + 1)].error # "none" => after[n - d] = after[n - (d + 1)]
        BY <1>5, <4>2
      <4>5. QED
        BY <4>3, <4>4
    <3>3. QED
      <4> HIDE DEF Q
      <4>1. QED
        BY <3>1, <3>2, NatsIn
  <2>2. ASSUME NEW i \in 0..n PROVE after[i].error = "none"
    <3>1. n - i \in Nat /\ n - i <= n /\ n - (n - i) = i
      BY <1>1
    <3>2. QED
      BY <2>1, <3>1
  <2> HIDE DEF Q
  <2> DEFINE At(fs, k) == /\ Placed(r.cells, fs[k], after[k - 1].cursor)
                          /\ after[k].cursor = after[k - 1].cursor + 2 + Size(fs[k])
             R == {i \in Nat : i <= n => /\ Len(after[i].fields) = i
                                         /\ \A k \in 1..i : At(after[i].fields, k)}
  <2>3. 0 \in R
    BY <1>3 DEF ParseStart
  <2>4. ASSUME NEW i \in Nat, i \in R PROVE i + 1 \in R
    <3>1. SUFFICES ASSUME i + 1 <= n
                   PROVE  /\ Len(after[i + 1].fields) = i + 1
                          /\ \A k \in 1..(i + 1) : At(after[i + 1].fields, k)
      OBVIOUS
    <3>2. i < n /\ i <= n /\ i \in 0..n /\ i + 1 \in 0..n /\ i + 1 - 1 = i
      BY <1>1, <3>1
    <3>3. PICK f \in Fields : /\ Placed(r.cells, f, after[i].cursor)
                              /\ after[i + 1].fields = Append(after[i].fields, f)
                              /\ after[i + 1].cursor = after[i].cursor + 2 + Size(f)
      <4>1. after[i] \in ParseStates /\ after[i].error = "none"
            /\ after[i + 1].error = "none"
        BY <1>7, <2>2, <3>2
      <4>2. after[i + 1] = ParseField(after[i], r, limits)
        BY <1>4, <3>2
      <4>3. ParseField(after[i], r, limits).error = "none"
        BY <4>1, <4>2
      <4>4. \E f \in Fields : LET next == ParseField(after[i], r, limits)
                             IN  /\ Placed(r.cells, f, after[i].cursor)
                                 /\ next.fields = Append(after[i].fields, f)
                                 /\ next.cursor = after[i].cursor + 2 + Size(f)
        BY SMTT(30), <4>1, <4>3, FieldRead
      <4>5. QED
        BY <4>2, <4>4
    <3>4. after[i].fields \in Seq(Fields) /\ Len(after[i].fields) = i
      BY <1>7, <2>4, <3>2 DEF ParseStates
    <3>5. /\ Len(after[i + 1].fields) = i + 1
          /\ \A k \in 1..i : after[i + 1].fields[k] = after[i].fields[k]
          /\ after[i + 1].fields[i + 1] = f
      BY <3>3, <3>4, AppendProperties
    <3>6. ASSUME NEW k \in 1..(i + 1) PROVE At(after[i + 1].fields, k)
      <4>1. CASE k = i + 1
        BY <3>2, <3>3, <3>5, <4>1
      <4>2. CASE k # i + 1
        <5>1. k \in 1..i
          BY <4>2
        <5>2. At(after[i].fields, k)
          BY <2>4, <3>2, <5>1
        <5>3. QED
          BY <3>5, <5>1, <5>2
      <4>3. QED
        BY <4>1, <4>2
    <3>7. QED
      BY <3>5, <3>6
  <2>5. n \in R
    <3> HIDE DEF R
    <3>1. QED
      BY <1>1, <2>3, <2>4, NatsIn
  <2>6. Len(after[n].fields) = n /\ \A k \in 1..n : At(after[n].fields, k)
    BY <1>1, <2>5
  <2>7. ASSUME after[n].cursor = Len(r.cells) PROVE \E o : Laid(r.cells, after[n].fields, o)
    <3> DEFINE o == [k \in 0..n |-> after[k].cursor]
    <3>1. o[0] = RECORD_HEADER /\ o[n] = Len(r.cells)
      BY <1>1, <1>3, <2>7 DEF ParseStart
    <3>2. \A k \in 1..n : o[k] = after[k].cursor /\ o[k - 1] = after[k - 1].cursor
      BY <1>1
    <3> HIDE DEF o
    <3>3. Laid(r.cells, after[n].fields, o)
      BY <2>6, <3>1, <3>2 DEF Laid
    <3>4. QED
      BY <3>3
  <2>8. QED
    BY <2>6, <2>7
<1>9. after[n] \in ParseStates
  BY <1>1, <1>7
<1>10. QED
  BY <1>2, <1>8, <1>9 DEF n

(* a field placed at the same cell determines its cells *)
LEMMA PlacedSame ==
  ASSUME NEW c, NEW d, NEW f \in Fields, NEW a \in Nat,
         Placed(c, f, a), Placed(d, f, a), c \in Seq(Nat), d \in Seq(Nat)
  PROVE  \A x \in (a + 1)..(a + 2 + Size(f)) : c[x] = d[x]
<1> DEFINE m == Size(f)
           end == a + 2 + m
<1>1. m \in Nat
  BY LenProperties DEF Fields, Size
<1>2. /\ c[a + 1] = d[a + 1] /\ c[a + 2] = d[a + 2]
      /\ SubSeq(c, a + 3, end) = SubSeq(d, a + 3, end)
      /\ end <= Len(c) /\ end <= Len(d)
  BY DEF Placed
<1> HIDE DEF m
<1>3. ASSUME NEW x \in (a + 3)..end PROVE c[x] = d[x]
  <2>1. a + 3 \in Int /\ end \in Int /\ x - (a + 2) \in 1..(end - (a + 3) + 1)
        /\ (a + 3) + (x - (a + 2)) - 1 = x /\ Len(c) \in Nat /\ Len(d) \in Nat
    BY <1>1, LenProperties
  <2>2. /\ \A i \in (a + 3)..end : i \in 1..Len(c)
        /\ \A i \in (a + 3)..end : i \in 1..Len(d)
    <3>1. \A w \in Nat : end <= w => \A i \in (a + 3)..end : i \in 1..w
      BY <1>1
    <3>2. QED
      BY <1>2, <2>1, <3>1
  <2>3. /\ \A i \in (a + 3)..end : c[i] \in Nat
        /\ \A i \in (a + 3)..end : d[i] \in Nat
    BY <2>2, ElementOfSeq
  <2>4. SubSeq(c, a + 3, end)[x - (a + 2)] = c[x]
    BY <2>1, <2>3, SubSeqProperties
  <2>5. SubSeq(d, a + 3, end)[x - (a + 2)] = d[x]
    BY <2>1, <2>3, SubSeqProperties
  <2>6. QED
    BY <1>2, <2>4, <2>5
<1>4. ASSUME NEW x \in (a + 1)..end PROVE c[x] = d[x]
  <2>1. x = a + 1 \/ x = a + 2 \/ x \in (a + 3)..end
    BY <1>1
  <2>2. QED
    BY <1>2, <1>3, <2>1
<1>5. QED
  BY <1>4 DEF m

(* Cells laid out by the same fields behind the same header are the same. *)
LEMMA LaidUnique ==
  ASSUME NEW c \in Seq(Nat), NEW d \in Seq(Nat), NEW fields \in Seq(Fields), NEW o, NEW q,
         Laid(c, fields, o), Laid(d, fields, q), \A x \in 1..RECORD_HEADER : c[x] = d[x]
  PROVE  c = d
<1> DEFINE n == Len(fields)
           S == {k \in Nat : k <= n => /\ o[k] \in Nat /\ o[k] = q[k]
                                       /\ \A x \in 1..o[k] : c[x] = d[x]}
<1>1. n \in Nat /\ \A k \in 1..n : fields[k] \in Fields /\ Size(fields[k]) \in Nat
  BY LenProperties, ElementOfSeq DEF Fields, Size
<1>2. 0 \in S
  <2>1. o[0] = RECORD_HEADER /\ q[0] = RECORD_HEADER /\ RECORD_HEADER \in Nat
    BY DEF Laid, RECORD_HEADER
  <2>2. QED
    BY <2>1
<1>3. ASSUME NEW k \in Nat, k \in S PROVE k + 1 \in S
  <2>1. SUFFICES ASSUME k + 1 <= n
                 PROVE  /\ o[k + 1] \in Nat /\ o[k + 1] = q[k + 1]
                        /\ \A x \in 1..o[k + 1] : c[x] = d[x]
    OBVIOUS
  <2>2. k + 1 \in 1..n /\ k + 1 - 1 = k /\ k <= n
    BY <1>1, <2>1
  <2>3. /\ fields[k + 1] \in Fields /\ Size(fields[k + 1]) \in Nat /\ o[k] \in Nat /\ o[k] = q[k]
        /\ \A x \in 1..o[k] : c[x] = d[x]
    BY <1>1, <1>3, <2>2
  <2>4. PICK f, a : f = fields[k + 1] /\ a = o[k]
    OBVIOUS
  <2>5. f \in Fields /\ a \in Nat /\ Size(f) \in Nat /\ \A x \in 1..a : c[x] = d[x]
    BY <2>3, <2>4
  <2>6. /\ Placed(c, f, a) /\ o[k + 1] = a + 2 + Size(f)
        /\ Placed(d, f, a) /\ q[k + 1] = a + 2 + Size(f)
    BY SMTT(30), <2>2, <2>3, <2>4 DEF Laid
  <2> HIDE DEF S
  <2>7. PICK e \in Nat : e = Size(f)
    BY <2>5
  <2>8. ASSUME NEW x \in 1..(a + 2 + e) PROVE c[x] = d[x]
    <3>1. CASE x <= a
      <4>1. x \in 1..a
        BY <2>5, <2>7, <2>8, <3>1
      <4>2. QED
        BY <2>5, <4>1
    <3>2. CASE ~(x <= a)
      <4>1. f \in Fields /\ a \in Nat /\ Placed(c, f, a) /\ Placed(d, f, a)
        BY <2>5, <2>6
      <4>2. \A y \in (a + 1)..(a + 2 + Size(f)) : c[y] = d[y]
        BY <4>1, PlacedSame
      <4>3. x \in (a + 1)..(a + 2 + Size(f))
        BY <2>5, <2>7, <2>8, <3>2
      <4>4. QED
        BY <4>2, <4>3
    <3>3. QED
      BY <3>1, <3>2
  <2>9. o[k + 1] = a + 2 + e /\ q[k + 1] = a + 2 + e /\ a + 2 + e \in Nat
    BY <2>5, <2>6, <2>7
  <2>10. QED
    BY <2>8, <2>9
<1>4. n \in S
  <2> HIDE DEF S
  <2>1. QED
    BY <1>1, <1>2, <1>3, NatsIn
<1>5. Len(c) = Len(d) /\ \A x \in 1..Len(c) : c[x] = d[x]
  BY <1>1, <1>4 DEF Laid
<1>6. QED
  BY <1>5, SeqEqual

(* cells with one more field behind them *)
Added(c, f) == c \o <<f[1], Size(f)>> \o f[2]

(* the parts of a field by their types *)
LEMMA FieldTypes ==
  ASSUME NEW f \in Fields
  PROVE  f[1] \in Nat /\ f[2] \in Seq(Nat) /\ Size(f) \in Nat /\ Size(f) = Len(f[2])
<1>1. f[1] \in Nat /\ f[2] \in Seq(Nat)
  BY DEF Fields
<1>2. QED
  BY <1>1, LenProperties DEF Size

(* A field is placed behind the cells before it, which stay. *)
LEMMA AddedFacts ==
  ASSUME NEW c \in Seq(Nat), NEW f \in Fields
  PROVE  LET g == Added(c, f)
         IN  /\ g \in Seq(Nat)
             /\ Len(g) = Len(c) + 2 + Size(f)
             /\ \A x \in 1..Len(c) : g[x] = c[x]
             /\ Placed(g, f, Len(c))
<1> DEFINE pair == <<f[1], Size(f)>>
           p == f[2]
           m == Size(f)
           b == c \o pair
           g == b \o p
           n == Len(c)
<1>1. p \in Seq(Nat) /\ Len(p) = m /\ m \in Nat /\ pair \in Seq(Nat) /\ Len(pair) = 2 /\ n \in Nat
  BY FieldTypes, LenProperties
<1>2. pair[1] = f[1] /\ pair[2] = m
  OBVIOUS
<1> HIDE DEF pair, p, m, n
<1>3. /\ b \in Seq(Nat) /\ Len(b) = n + 2
      /\ \A i \in 1..(n + 2) : b[i] = IF i <= n THEN c[i] ELSE pair[i - n]
  <2>1. /\ b \in Seq(Nat) /\ Len(b) = Len(c) + Len(pair)
        /\ \A i \in 1..(Len(c) + Len(pair)) : b[i] = IF i <= Len(c) THEN c[i] ELSE pair[i - Len(c)]
    BY <1>1, ConcatProperties
  <2>2. QED
    BY <1>1, <2>1 DEF n
<1> HIDE DEF b
<1>4. /\ g \in Seq(Nat) /\ Len(g) = n + 2 + m
      /\ \A i \in 1..(n + 2 + m) : g[i] = IF i <= n + 2 THEN b[i] ELSE p[i - (n + 2)]
  <2>1. /\ g \in Seq(Nat) /\ Len(g) = Len(b) + Len(p)
        /\ \A i \in 1..(Len(b) + Len(p)) : g[i] = IF i <= Len(b) THEN b[i] ELSE p[i - Len(b)]
    BY <1>1, <1>3, ConcatProperties
  <2>2. QED
    BY <1>1, <1>3, <2>1
<1> HIDE DEF g
<1>5. ASSUME NEW x \in 1..n PROVE g[x] = c[x]
  <2>1. x \in 1..(n + 2) /\ x \in 1..(n + 2 + m) /\ x <= n /\ x <= n + 2
    BY <1>1
  <2>2. QED
    BY <1>3, <1>4, <2>1
<1>6. g[n + 1] = f[1] /\ g[n + 2] = m
  <2>1. /\ n + 1 \in 1..(n + 2) /\ n + 1 \in 1..(n + 2 + m) /\ ~(n + 1 <= n) /\ n + 1 <= n + 2
        /\ n + 2 \in 1..(n + 2) /\ n + 2 \in 1..(n + 2 + m) /\ ~(n + 2 <= n) /\ n + 2 <= n + 2
        /\ n + 1 - n = 1 /\ n + 2 - n = 2
    BY <1>1
  <2>2. g[n + 1] = b[n + 1] /\ g[n + 2] = b[n + 2]
    BY <1>4, <2>1
  <2>3. \A i \in 1..(n + 2) : ~(i <= n) => b[i] = pair[i - n]
    BY <1>3
  <2>4. b[n + 1] = pair[n + 1 - n]
    BY <1>1, <2>1, <2>3
  <2>5. b[n + 2] = pair[n + 2 - n]
    BY <1>1, <2>1, <2>3
  <2>6. QED
    BY <1>2, <2>1, <2>2, <2>4, <2>5
<1>7. SubSeq(g, n + 3, n + 2 + m) = p
  <2> DEFINE s == SubSeq(g, n + 3, n + 2 + m)
             e == n + 2 + m
  <2>1. n + 3 \in Int /\ e \in Int /\ e - (n + 3) + 1 = m
        /\ \A i \in (n + 3)..e : i \in 1..Len(g)
    BY <1>1, <1>4
  <2>2. \A i \in (n + 3)..e : g[i] \in Nat
    BY <1>4, <2>1, ElementOfSeq
  <2>3. /\ s \in Seq(Nat)
        /\ Len(s) = IF n + 3 <= e THEN e - (n + 3) + 1 ELSE 0
        /\ \A i \in 1..(e - (n + 3) + 1) : s[i] = g[(n + 3) + i - 1]
    BY <2>1, <2>2, SubSeqProperties
  <2> HIDE DEF s
  <2>4. Len(s) = m
    BY <1>1, <2>1, <2>3
  <2>5. ASSUME NEW i \in 1..m PROVE s[i] = p[i]
    <3>1. i \in 1..(e - (n + 3) + 1) /\ (n + 3) + i - 1 = n + 2 + i /\ n + 2 + i \in 1..(n + 2 + m)
          /\ ~(n + 2 + i <= n + 2) /\ n + 2 + i - (n + 2) = i
      BY <1>1, <2>1
    <3>2. PICK x : x = n + 2 + i
      OBVIOUS
    <3>3. (n + 3) + i - 1 = x /\ x \in 1..(n + 2 + m) /\ ~(x <= n + 2) /\ x - (n + 2) = i
      BY <1>1, <3>1, <3>2
    <3>4. PICK y : y = x - (n + 2)
      OBVIOUS
    <3>5. s[i] = g[x]
      BY <2>3, <3>1, <3>3
    <3>6. g[x] = p[y]
      BY <1>4, <3>3, <3>4
    <3>7. y = i
      BY <3>3, <3>4
    <3>8. QED
      BY <3>5, <3>6, <3>7
  <2>6. s = p
    BY <1>1, <2>3, <2>4, <2>5, SeqEqual
  <2>7. QED
    BY <2>6 DEF s
<1>8. Placed(g, f, n)
  <2>1. n + 2 + m <= Len(g)
    BY <1>1, <1>4
  <2>2. QED
    BY <1>6, <1>7, <2>1 DEF Placed, m, p
<1>9. QED
  BY <1>4, <1>5, <1>8 DEF Added, g, b, pair, p, m, n

(* A field placed in some cells is placed in any that begin with them. *)
LEMMA PlacedExtends ==
  ASSUME NEW c \in Seq(Nat), NEW g \in Seq(Nat), NEW f \in Fields, NEW a \in Nat, Placed(c, f, a),
         Len(c) <= Len(g), \A x \in 1..Len(c) : g[x] = c[x]
  PROVE  Placed(g, f, a)
<1> DEFINE m == Size(f)
           end == a + 2 + m
           w == Len(c)
           v == Len(g)
<1>1. m \in Nat /\ w \in Nat /\ v \in Nat /\ w <= v
  BY FieldTypes, LenProperties
<1>2. c[a + 1] = f[1] /\ c[a + 2] = m /\ SubSeq(c, a + 3, end) = f[2]
  BY DEF Placed
<1>3. end <= w
  BY DEF Placed
<1>4. \A x \in 1..w : g[x] = c[x]
  OBVIOUS
<1>5. \A x \in 1..w : c[x] \in Nat
  BY ElementOfSeq
<1> HIDE DEF m, w, v
<1>6. /\ a + 1 \in 1..w /\ a + 2 \in 1..w /\ end <= v
      /\ a + 3 \in Int /\ end \in Int /\ end - (a + 3) + 1 = m
      /\ (a + 3 <= end => end - (a + 3) + 1 = m) /\ (~(a + 3 <= end) => m = 0)
      /\ \A i \in (a + 3)..end : i \in 1..w
      /\ \A i \in 1..m : (a + 3) + i - 1 \in 1..w
  BY <1>1, <1>3
<1> HIDE DEF end
<1>7. \A i \in (a + 3)..end : c[i] \in Nat
  BY <1>5, <1>6
<1>8. \A i \in (a + 3)..end : g[i] \in Nat
  BY <1>4, <1>5, <1>6
<1> DEFINE s == SubSeq(c, a + 3, end)
           t == SubSeq(g, a + 3, end)
<1>9. /\ s \in Seq(Nat)
      /\ Len(s) = IF a + 3 <= end THEN end - (a + 3) + 1 ELSE 0
      /\ \A i \in 1..(end - (a + 3) + 1) : s[i] = c[(a + 3) + i - 1]
  BY <1>6, <1>7, SubSeqProperties
<1>10. /\ t \in Seq(Nat)
       /\ Len(t) = IF a + 3 <= end THEN end - (a + 3) + 1 ELSE 0
       /\ \A i \in 1..(end - (a + 3) + 1) : t[i] = g[(a + 3) + i - 1]
  BY <1>6, <1>8, SubSeqProperties
<1> HIDE DEF s, t
<1>11. s = t
  <2>1. Len(s) = m /\ Len(t) = m
    BY <1>1, <1>6, <1>9, <1>10
  <2>2. ASSUME NEW i \in 1..m PROVE s[i] = t[i]
    <3>1. s[i] = c[(a + 3) + i - 1] /\ t[i] = g[(a + 3) + i - 1]
      BY <1>6, <1>9, <1>10
    <3>2. (a + 3) + i - 1 \in 1..w
      BY <1>6
    <3>3. QED
      BY <1>4, <3>1, <3>2
  <2>3. QED
    BY <1>9, <1>10, <2>1, <2>2, SeqEqual
<1>12. SubSeq(g, a + 3, end) = f[2]
  BY <1>2, <1>11 DEF s, t
<1>13. g[a + 1] = f[1] /\ g[a + 2] = m
  BY <1>2, <1>4, <1>6
<1>14. QED
  BY <1>6, <1>12, <1>13 DEF Placed, m, end, v

(* the cells of the first k fields, for each k *)
CellsTable(u, fields) ==
  /\ u[0] = <<>>
  /\ \A k \in 1..Len(fields) : u[k] = Added(u[k - 1], fields[k])

(* the cells of every number of leading fields *)
LEMMA CellsTables ==
  ASSUME NEW fields \in Seq(Fields)
  PROVE  \E u : /\ CellsTable(u, fields)
                /\ FieldCells(fields) = u[Len(fields)]
                /\ \A k \in 0..Len(fields) : u[k] \in Seq(Nat)
<1> DEFINE n == Len(fields)
<1>1. n \in Nat
  BY LenProperties
<1>2. PICK u : /\ u[0] = <<>>
               /\ \A k \in 0..(n - 1) :
                    u[k + 1] = u[k] \o <<fields[k + 1][1], Len(fields[k + 1][2])>>
                                    \o fields[k + 1][2]
               /\ FieldCells(fields) = u[n]
  BY <1>1, CellsSteps
<1> HIDE DEF n
<1>3. ASSUME NEW k \in 1..n PROVE u[k] = Added(u[k - 1], fields[k])
  <2>1. k - 1 \in 0..(n - 1) /\ k - 1 + 1 = k
    BY <1>1
  <2>2. u[k] = u[k - 1] \o <<fields[k][1], Len(fields[k][2])>> \o fields[k][2]
    BY <1>2, <2>1
  <2>3. QED
    BY <2>2 DEF Added, Size
<1> DEFINE S == {k \in Nat : k <= n => u[k] \in Seq(Nat)}
<1>4. 0 \in S
  BY <1>2, EmptySeq
<1>5. ASSUME NEW k \in Nat, k \in S PROVE k + 1 \in S
  <2>1. SUFFICES ASSUME k + 1 <= n PROVE u[k + 1] \in Seq(Nat)
    OBVIOUS
  <2>2. k + 1 \in 1..n /\ k + 1 - 1 = k /\ k <= n
    BY <1>1, <2>1
  <2>3. u[k + 1] = Added(u[k], fields[k + 1]) /\ u[k] \in Seq(Nat)
    BY <1>3, <1>5, <2>2
  <2>4. fields[k + 1] \in Fields
    BY <2>2, ElementOfSeq DEF n
  <2>5. QED
    BY <2>3, <2>4, AddedFacts
<1>6. Nat \subseteq S
  <2> HIDE DEF S
  <2>1. QED
    BY <1>4, <1>5, NatsIn
<1>7. \A k \in 0..n : u[k] \in Seq(Nat)
  BY <1>1, <1>6
<1>8. QED
  BY <1>2, <1>3, <1>7 DEF CellsTable, n

(* One more field adds its cells at the end. *)
LEMMA CellsAppend ==
  ASSUME NEW fields \in Seq(Fields), NEW f \in Fields
  PROVE  /\ FieldCells(fields) \in Seq(Nat)
         /\ FieldCells(Append(fields, f)) = Added(FieldCells(fields), f)
<1> DEFINE more == Append(fields, f)
           n == Len(fields)
<1>1. /\ n \in Nat /\ more \in Seq(Fields) /\ Len(more) = n + 1 /\ more[n + 1] = f
      /\ \A k \in 1..n : more[k] = fields[k]
  BY LenProperties, AppendProperties
<1>2. PICK u : /\ CellsTable(u, fields)
               /\ FieldCells(fields) = u[n]
               /\ \A k \in 0..n : u[k] \in Seq(Nat)
  BY CellsTables
<1>3. PICK v : CellsTable(v, more) /\ FieldCells(more) = v[n + 1]
  BY <1>1, CellsTables
<1> HIDE DEF more, n
<1> DEFINE S == {k \in Nat : k <= n => v[k] = u[k]}
<1>4. 0 \in S
  BY <1>2, <1>3 DEF CellsTable
<1>5. ASSUME NEW k \in Nat, k \in S PROVE k + 1 \in S
  <2>1. SUFFICES ASSUME k + 1 <= n PROVE v[k + 1] = u[k + 1]
    OBVIOUS
  <2>2. k + 1 \in 1..n /\ k + 1 \in 1..(n + 1) /\ k + 1 - 1 = k /\ k <= n
    BY <1>1, <2>1
  <2>3. u[k + 1] = Added(u[k], fields[k + 1])
    BY <1>2, <2>2 DEF CellsTable, n
  <2>4. v[k + 1] = Added(v[k], more[k + 1])
    BY <1>1, <1>3, <2>2 DEF CellsTable
  <2>5. v[k] = u[k] /\ more[k + 1] = fields[k + 1]
    BY <1>1, <1>5, <2>2
  <2>6. QED
    BY <2>3, <2>4, <2>5
<1>6. v[n] = u[n]
  <2>1. Nat \subseteq S
    <3> HIDE DEF S
    <3>1. QED
      BY <1>4, <1>5, NatsIn
  <2>2. QED
    BY <1>1, <2>1
<1>7. v[n + 1] = Added(v[n], f)
  <2>1. n + 1 \in 1..Len(more) /\ n + 1 - 1 = n
    BY <1>1
  <2>2. v[n + 1] = Added(v[n + 1 - 1], more[n + 1])
    <3>1. \A k \in 1..Len(more) : v[k] = Added(v[k - 1], more[k])
      BY <1>3 DEF CellsTable
    <3>2. QED
      BY <1>1, <2>1, <3>1
  <2>3. QED
    BY <1>1, <2>1, <2>2
<1>8. n \in 0..n
  BY <1>1
<1>9. QED
  BY <1>2, <1>3, <1>6, <1>7, <1>8 DEF more

(* no fields, no cells *)
LEMMA NoCells == FieldCells(<<>>) = <<>>
<1>1. << >> \in Seq(Fields) /\ Len(<< >>) = 0
  BY EmptySeq
<1>2. PICK u : CellsTable(u, << >>) /\ FieldCells(<< >>) = u[Len(<< >>)]
  BY <1>1, CellsTables
<1>3. u[0] = << >>
  BY <1>2 DEF CellsTable
<1>4. QED
  BY <1>1, <1>2, <1>3

(* A record as it is written: its header, and its fields behind it. *)
Header(version, count) == <<RECORD_MAGIC, count, version>>

(* the three cells of a header *)
LEMMA HeaderFacts ==
  ASSUME NEW version \in Nat, NEW count \in Nat
  PROVE  LET h == Header(version, count)
         IN  h \in Seq(Nat) /\ Len(h) = 3 /\ h[1] = 1 /\ h[2] = count /\ h[3] = version
BY DEF Header, RECORD_MAGIC

(* cells joined in either order *)
LEMMA CellsAssociative ==
  \A s, t, u \in Seq(Nat) : (s \o t) \o u = s \o (t \o u)
BY SMTT(30), ConcatAssociative

(* A record is its header and its fields, one behind the other. *)
LEMMA RecordLaid ==
  ASSUME NEW version \in Nat, NEW fields \in Seq(Fields)
  PROVE  LET c == RecordOf(version, fields).cells
         IN  /\ c \in Seq(Nat)
             /\ Len(c) = RECORD_HEADER + Len(FieldCells(fields))
             /\ Len(FieldCells(fields)) \in Nat
             /\ c[1] = RECORD_MAGIC /\ c[2] = Len(fields) /\ c[3] = version
             /\ \E o : Laid(c, fields, o)
<1> DEFINE n == Len(fields)
           h == Header(version, n)
<1>1. n \in Nat /\ \A k \in 1..n : fields[k] \in Fields
  BY LenProperties, ElementOfSeq
<1>2. h \in Seq(Nat) /\ Len(h) = 3 /\ h[1] = 1 /\ h[2] = n /\ h[3] = version
  BY <1>1, HeaderFacts
<1>3. PICK u : /\ CellsTable(u, fields)
               /\ FieldCells(fields) = u[n]
               /\ \A k \in 0..n : u[k] \in Seq(Nat)
  BY CellsTables
<1>4. RecordOf(version, fields).cells = h \o FieldCells(fields)
  BY DEF RecordOf, Header
<1> HIDE DEF n, h
<1> DEFINE w(k) == h \o u[k]
           o == [k \in 0..n |-> 3 + Len(u[k])]
<1>5. ASSUME NEW k \in 0..n
      PROVE  /\ w(k) \in Seq(Nat) /\ Len(w(k)) = 3 + Len(u[k]) /\ Len(u[k]) \in Nat
             /\ \A x \in 1..3 : w(k)[x] = h[x]
             /\ o[k] = 3 + Len(u[k])
  <2>1. u[k] \in Seq(Nat) /\ Len(u[k]) \in Nat
    BY <1>3, LenProperties
  <2>2. /\ h \o u[k] \in Seq(Nat)
        /\ Len(h \o u[k]) = Len(h) + Len(u[k])
        /\ \A i \in 1..(Len(h) + Len(u[k])) :
             (h \o u[k])[i] = IF i <= Len(h) THEN h[i] ELSE u[k][i - Len(h)]
    BY <1>2, <2>1, ConcatProperties
  <2>3. \A x \in 1..3 : x \in 1..(Len(h) + Len(u[k])) /\ x <= Len(h)
    BY <1>2, <2>1
  <2>4. QED
    BY <1>2, <2>1, <2>2, <2>3
<1>6. w(0) = h
  BY <1>2, <1>3, ConcatEmptySeq DEF CellsTable
<1>7. ASSUME NEW k \in 1..n
      PROVE  /\ k - 1 \in 0..n /\ k \in 0..n
             /\ w(k) = Added(w(k - 1), fields[k])
  <2>1. k - 1 \in 0..n /\ k \in 0..n
    BY <1>1
  <2>2. u[k] = (u[k - 1] \o <<fields[k][1], Size(fields[k])>>) \o fields[k][2]
    BY <1>3 DEF CellsTable, Added, n
  <2>3. fields[k] \in Fields
    BY <1>1
  <2> DEFINE pair == <<fields[k][1], Size(fields[k])>>
  <2>4. pair \in Seq(Nat) /\ fields[k][2] \in Seq(Nat) /\ u[k - 1] \in Seq(Nat)
    BY <1>3, <2>1, <2>3, FieldTypes
  <2> HIDE DEF pair
  <2>5. u[k] = (u[k - 1] \o pair) \o fields[k][2]
    BY <2>2 DEF pair
  <2>6. u[k - 1] \o pair \in Seq(Nat)
    BY <2>4, ConcatProperties
  <2>7. h \o ((u[k - 1] \o pair) \o fields[k][2]) = (h \o (u[k - 1] \o pair)) \o fields[k][2]
    <3>1. h \in Seq(Nat)
      BY <1>2
    <3>2. fields[k][2] \in Seq(Nat)
      BY <2>4
    <3>3. QED
      BY <2>6, <3>1, <3>2, CellsAssociative, Zenon
  <2>8. h \o (u[k - 1] \o pair) = (h \o u[k - 1]) \o pair
    <3>1. h \in Seq(Nat)
      BY <1>2
    <3>2. u[k - 1] \in Seq(Nat) /\ pair \in Seq(Nat)
      BY <2>4
    <3>3. QED
      BY <3>1, <3>2, CellsAssociative, Zenon
  <2>9. w(k) = ((h \o u[k - 1]) \o pair) \o fields[k][2]
    BY <2>5, <2>7, <2>8
  <2>10. QED
    BY <2>1, <2>9 DEF Added, pair
<1> HIDE DEF w, o
<1> DEFINE At(k, j) == /\ Placed(w(k), fields[j], o[j - 1])
                       /\ o[j] = o[j - 1] + 2 + Size(fields[j])
           S == {k \in Nat : k <= n => \A j \in 1..k : At(k, j)}
<1>8. 0 \in S
  OBVIOUS
<1>9. ASSUME NEW k \in Nat, k \in S PROVE k + 1 \in S
  <2>1. SUFFICES ASSUME k + 1 <= n PROVE \A j \in 1..(k + 1) : At(k + 1, j)
    OBVIOUS
  <2>2. k + 1 \in 1..n /\ k + 1 - 1 = k /\ k <= n /\ k \in 0..n /\ k + 1 \in 0..n
    BY <1>1, <2>1
  <2> DEFINE c == w(k)
             g == w(k + 1)
             f == fields[k + 1]
  <2>3. g = Added(c, f) /\ f \in Fields
    BY <1>1, <1>7, <2>2
  <2>4. c \in Seq(Nat) /\ Len(c) = o[k]
    BY <1>5, <2>2
  <2>5. g \in Seq(Nat) /\ Len(g) = o[k + 1]
    BY <1>5, <2>2
  <2>6. Len(c) \in Nat
    BY <2>4, LenProperties
  <2> HIDE DEF c, g, f
  <2>7. /\ Len(g) = Len(c) + 2 + Size(f)
        /\ \A x \in 1..Len(c) : g[x] = c[x]
        /\ Placed(g, f, Len(c))
    BY <2>3, <2>4, AddedFacts
  <2>8. At(k + 1, k + 1)
    <3>1. Placed(g, f, o[k])
      BY <2>4, <2>7
    <3>2. o[k + 1] = o[k] + 2 + Size(f)
      BY <2>4, <2>5, <2>7
    <3>3. QED
      BY <2>2, <3>1, <3>2 DEF g, f
  <2>9. ASSUME NEW j \in 1..k PROVE At(k + 1, j)
    <3>1. Placed(c, fields[j], o[j - 1]) /\ o[j] = o[j - 1] + 2 + Size(fields[j])
      BY <1>9, <2>2 DEF c
    <3>2. fields[j] \in Fields /\ o[j - 1] \in Nat
      <4>1. j \in 1..n /\ j - 1 \in 0..n
        BY <1>1, <2>2
      <4>2. fields[j] \in Fields
        BY <1>1, <4>1
      <4>3. o[j - 1] = 3 + Len(u[j - 1]) /\ Len(u[j - 1]) \in Nat
        BY <1>5, <4>1
      <4>4. QED
        BY <4>2, <4>3
    <3>3. Len(c) <= Len(g)
      <4>1. Size(f) \in Nat
        BY <2>3, FieldTypes
      <4>2. QED
        BY <2>6, <2>7, <4>1
    <3>4. Placed(g, fields[j], o[j - 1])
      BY <2>4, <2>5, <2>7, <3>1, <3>2, <3>3, PlacedExtends
    <3>5. QED
      BY <3>1, <3>4 DEF g
  <2>10. ASSUME NEW j \in 1..(k + 1) PROVE At(k + 1, j)
    <3>1. j = k + 1 \/ j \in 1..k
      OBVIOUS
    <3>2. QED
      BY <2>8, <2>9, <3>1
  <2>11. QED
    BY <2>10
<1>10. \A j \in 1..n : At(n, j)
  <2>1. Nat \subseteq S
    <3> HIDE DEF S
    <3>1. QED
      BY <1>8, <1>9, NatsIn
  <2>2. n <= n
    BY <1>1
  <2>3. QED
    BY <1>1, <2>1, <2>2
<1>11. 0 \in 0..n /\ n \in 0..n
  BY <1>1
<1>12. o[0] = RECORD_HEADER
  <2>1. o[0] = 3 + Len(u[0]) /\ Len(u[0]) = 0
    BY <1>3, <1>5, <1>11, EmptySeq DEF CellsTable
  <2>2. QED
    BY <2>1 DEF RECORD_HEADER
<1>13. w(n) \in Seq(Nat) /\ Len(w(n)) = 3 + Len(u[n]) /\ o[n] = Len(w(n)) /\ Len(u[n]) \in Nat
       /\ \A x \in 1..3 : w(n)[x] = h[x]
  BY <1>5, <1>11
<1>14. Laid(w(n), fields, o)
  BY <1>10, <1>12, <1>13 DEF Laid, n
<1>15. w(n)[1] = 1 /\ w(n)[2] = n /\ w(n)[3] = version
  BY <1>2, <1>13
<1>16. RecordOf(version, fields).cells = w(n)
  BY <1>3, <1>4 DEF w
<1>17. QED
  BY <1>3, <1>13, <1>14, <1>15, <1>16 DEF RECORD_HEADER, RECORD_MAGIC, n

PayloadsFit(fields, limits) ==
  \A i \in 1..Len(fields) : Size(fields[i]) <= limits.max_payload_len

(* Fields within the limits that lie one behind the other are read. *)
LEMMA ParseReads ==
  ASSUME NEW r, r.cells \in Seq(Nat), NEW fields \in Seq(Fields), r.cells[2] = Len(fields),
         NEW o, Laid(r.cells, fields, o), Increasing(FieldIds(fields)),
         NEW limits, limits.max_payload_len \in Nat, PayloadsFit(fields, limits)
  PROVE  LET acc == ParseFields(r, limits)
         IN  acc \in ParseStates /\ acc.error = "none" /\ acc.cursor = Len(r.cells)
             /\ acc.fields = fields
<1> DEFINE n == Len(fields)
<1>1. n \in Nat /\ r.cells[2] = n
  BY LenProperties
<1>2. ASSUME NEW k \in 1..n
      PROVE  /\ fields[k] \in Fields /\ fields[k][1] \in Nat /\ Size(fields[k]) \in Nat
             /\ Size(fields[k]) <= limits.max_payload_len
  <2>1. fields[k] \in Fields
    BY ElementOfSeq
  <2>2. QED
    BY <2>1, FieldTypes DEF PayloadsFit
<1>3. ASSUME NEW k \in 1..n, k + 1 \in 1..n PROVE fields[k][1] < fields[k + 1][1]
  <2> DEFINE ids == FieldIds(fields)
  <2>1. Len(ids) = n /\ ids[k] = fields[k][1] /\ ids[k + 1] = fields[k + 1][1]
    <3>1. ids = [i \in 1..n |-> fields[i][1]]
      BY DEF FieldIds
    <3>2. ids \in Seq(Nat) /\ Len(ids) = n
      BY <1>1, <1>2, <3>1
    <3>3. QED
      BY <1>3, <3>1, <3>2
  <2>2. k \in 1..(Len(ids) - 1)
    BY <1>1, <1>3, <2>1
  <2>3. ids[k] < ids[k + 1]
    BY <2>2 DEF Increasing
  <2>4. QED
    BY <2>1, <2>3
<1>4. PICK after : /\ after[0] = ParseStart
                   /\ \A k \in 0..(n - 1) : after[k + 1] = ParseField(after[k], r, limits)
                   /\ ParseFields(r, limits) = after[n]
  <2>1. r.cells[2] \in Nat
    BY <1>1
  <2>2. QED
    BY <1>1, <2>1, ParseSteps
<1>5. /\ o[0] = RECORD_HEADER /\ o[n] = Len(r.cells)
      /\ \A k \in 1..n : /\ Placed(r.cells, fields[k], o[k - 1])
                         /\ o[k] = o[k - 1] + 2 + Size(fields[k])
  BY DEF Laid
<1> HIDE DEF n
<1> DEFINE Read(k) == /\ after[k] \in ParseStates
                      /\ after[k].error = "none"
                      /\ after[k].cursor = o[k]
                      /\ Len(after[k].fields) = k
                      /\ \A j \in 1..k : after[k].fields[j] = fields[j]
           S == {k \in Nat : k <= n => Read(k)}
<1>6. 0 \in S
  <2>1. << >> \in Seq(Fields) /\ Len(<< >>) = 0
    BY EmptySeq
  <2>2. ParseStart \in ParseStates
    BY <2>1 DEF ParseStart, ParseStates, ParseErrors, RECORD_HEADER
  <2>3. ParseStart.error = "none" /\ ParseStart.cursor = RECORD_HEADER /\ ParseStart.fields = << >>
    BY DEF ParseStart
  <2>4. Read(0)
    BY <1>4, <1>5, <2>1, <2>2, <2>3
  <2>5. QED
    BY <2>4
<1>7. ASSUME NEW k \in Nat, k \in S PROVE k + 1 \in S
  <2>1. SUFFICES ASSUME k + 1 <= n PROVE Read(k + 1)
    OBVIOUS
  <2>2. k + 1 \in 1..n /\ k + 1 - 1 = k /\ k <= n /\ k \in 0..(n - 1) /\ (k # 0 => k \in 1..n)
    BY <1>1, <2>1
  <2>3. Read(k)
    BY <1>7, <2>2
  <2>4. PICK acc : acc = after[k]
    OBVIOUS
  <2>5. PICK f : f = fields[k + 1]
    OBVIOUS
  <2>6. /\ acc \in ParseStates /\ acc.error = "none" /\ acc.cursor = o[k] /\ Len(acc.fields) = k
        /\ \A j \in 1..k : acc.fields[j] = fields[j]
    BY <2>3, <2>4
  <2>7. f \in Fields /\ f[1] \in Nat /\ Size(f) \in Nat /\ Size(f) <= limits.max_payload_len
    BY <1>2, <2>2, <2>5
  <2>8. Placed(r.cells, f, acc.cursor) /\ o[k + 1] = o[k] + 2 + Size(f)
    BY <1>5, <2>2, <2>5, <2>6
  <2>9. acc.fields # << >> => Last(acc.fields)[1] < f[1] /\ Last(acc.fields)[1] \in Nat
    <3>1. SUFFICES ASSUME acc.fields # << >>
                   PROVE  Last(acc.fields)[1] < f[1] /\ Last(acc.fields)[1] \in Nat
      OBVIOUS
    <3>2. acc.fields \in Seq(Fields)
      BY <2>6 DEF ParseStates
    <3>3. k # 0
      BY <2>6, <3>1, <3>2, EmptySeq
    <3>4. k \in 1..n /\ k \in 1..k
      BY <2>2, <3>3
    <3>5. Last(acc.fields) = fields[k]
      BY <2>6, <3>4 DEF Last
    <3>6. fields[k][1] < fields[k + 1][1] /\ fields[k][1] \in Nat
      BY <1>2, <1>3, <2>2, <3>4
    <3>7. QED
      BY <2>5, <3>5, <3>6
  <2>10. ParseField(acc, r, limits) = [error  |-> "none",
                                       cursor |-> acc.cursor + 2 + Size(f),
                                       fields |-> Append(acc.fields, f)]
    BY <2>6, <2>7, <2>8, <2>9, FieldIsRead
  <2>11. acc.fields \in Seq(Fields) /\ acc.cursor \in Nat
    BY <2>6 DEF ParseStates
  <2>12. PICK more : more = Append(acc.fields, f)
    OBVIOUS
  <2>13. /\ more \in Seq(Fields) /\ Len(more) = k + 1 /\ more[k + 1] = f
         /\ \A j \in 1..k : more[j] = acc.fields[j]
    <3>1. /\ Append(acc.fields, f) \in Seq(Fields)
          /\ Len(Append(acc.fields, f)) = Len(acc.fields) + 1
          /\ \A j \in 1..Len(acc.fields) : Append(acc.fields, f)[j] = acc.fields[j]
          /\ Append(acc.fields, f)[Len(acc.fields) + 1] = f
      BY <2>7, <2>11, AppendProperties
    <3>2. Len(acc.fields) = k
      BY <2>6
    <3>3. QED
      BY <2>12, <3>1, <3>2
  <2>14. PICK next : next = after[k + 1]
    OBVIOUS
  <2>15. next = ParseField(acc, r, limits)
    BY <1>4, <2>2, <2>4, <2>14
  <2>16. next = [error |-> "none", cursor |-> o[k + 1], fields |-> more]
    BY <2>6, <2>8, <2>10, <2>12, <2>15
  <2>17. o[k + 1] \in Nat
    BY <2>6, <2>7, <2>8, <2>11
  <2>18. next \in ParseStates /\ next.error = "none" /\ next.cursor = o[k + 1] /\ next.fields = more
    BY <2>13, <2>16, <2>17 DEF ParseStates, ParseErrors
  <2>19. ASSUME NEW j \in 1..(k + 1) PROVE more[j] = fields[j]
    <3>1. j = k + 1 \/ j \in 1..k
      OBVIOUS
    <3>2. QED
      BY <2>5, <2>6, <2>13, <3>1
  <2>20. QED
    BY <2>13, <2>14, <2>18, <2>19
<1>8. Read(n)
  <2>1. Nat \subseteq S
    <3> HIDE DEF S
    <3>1. QED
      BY <1>6, <1>7, NatsIn
  <2>2. n <= n
    BY <1>1
  <2>3. QED
    BY <1>1, <2>1, <2>2
<1>9. after[n].fields = fields
  <2>1. after[n].fields \in Seq(Fields)
    BY <1>8 DEF ParseStates
  <2>2. /\ Len(after[n].fields) = Len(fields)
        /\ \A j \in 1..Len(after[n].fields) : after[n].fields[j] = fields[j]
    BY <1>8 DEF n
  <2>3. QED
    BY <2>1, <2>2, SeqEqual
<1>10. QED
  BY <1>4, <1>5, <1>8, <1>9

(* A record that was written within the limits parses. *)
LEMMA HonestParses ==
  ASSUME NEW version \in Nat, NEW fields \in Seq(Fields), Increasing(FieldIds(fields)),
         NEW limits \in RecordLimits,
         Len(fields) <= limits.max_fields,
         PayloadsFit(fields, limits),
         RECORD_HEADER + AUTH_LEN + Len(FieldCells(fields)) <= limits.max_record_len
  PROVE  LET r == RecordOf(version, fields)
         IN  /\ ParseRecord(r, limits).error = "none"
             /\ ParseRecord(r, limits).fields = fields
             /\ r.cells[3] = version
<1> DEFINE r == RecordOf(version, fields)
           c == r.cells
           acc == ParseFields(r, limits)
<1>1. /\ limits.max_fields \in Nat /\ limits.max_payload_len \in Nat
      /\ limits.max_record_len \in Nat
  BY RecordLimitsAssumption
<1>2. /\ c \in Seq(Nat) /\ Len(c) = RECORD_HEADER + Len(FieldCells(fields))
      /\ Len(FieldCells(fields)) \in Nat
      /\ c[1] = RECORD_MAGIC /\ c[2] = Len(fields) /\ c[3] = version
      /\ \E o : Laid(c, fields, o)
  BY RecordLaid
<1>3. r.root = <<RootOf(version, fields)>> /\ r.extra = 0
  BY DEF RecordOf
<1> HIDE DEF r
<1>4. acc.error = "none" /\ acc.cursor = Len(c) /\ acc.fields = fields
  <2>1. PICK o : Laid(r.cells, fields, o)
    BY <1>2
  <2>2. r.cells \in Seq(Nat) /\ r.cells[2] = Len(fields)
    BY <1>2
  <2>3. limits.max_payload_len \in Nat
    BY <1>1
  <2>4. QED
    BY ZenonT(60), <2>1, <2>2, <2>3, ParseReads
<1> HIDE DEF acc, c
<1>5. Len(r.root) = 1 /\ r.root # << >>
  BY <1>3
<1>6. RecordLen(r) = Len(c) + 1 /\ Len(c) \in Nat
  BY <1>2, <1>3, <1>5, LenProperties DEF RecordLen, AUTH_LEN, c
<1>7. ~(RecordLen(r) > limits.max_record_len)
  BY <1>1, <1>2, <1>6 DEF RECORD_HEADER, AUTH_LEN
<1>8. ~(RecordLen(r) < RECORD_HEADER + AUTH_LEN \/ Len(c) < RECORD_HEADER)
  BY <1>2, <1>6 DEF RECORD_HEADER, AUTH_LEN
<1>9. ~(c[2] > limits.max_fields)
  <2>1. Len(fields) \in Nat
    BY LenProperties
  <2>2. QED
    BY <1>1, <1>2, <2>1
<1>10. ParseRecord(r, limits) = acc
  BY <1>2, <1>3, <1>4, <1>5, <1>7, <1>8, <1>9 DEF ParseRecord, acc, c
<1>11. QED
  BY <1>2, <1>4, <1>10 DEF r, c

(* what a record that parses looks like *)
LEMMA ParsedFacts ==
  ASSUME NEW r, r.cells \in Seq(Nat), NEW limits, ParseRecord(r, limits).error = "none"
  PROVE  LET p == ParseRecord(r, limits)
         IN  /\ Len(r.cells) >= RECORD_HEADER
             /\ r.cells[1] = RECORD_MAGIC
             /\ r.root # << >>
             /\ r.extra = 0
             /\ p.fields \in Seq(Fields)
             /\ Len(p.fields) = r.cells[2]
             /\ \E o : Laid(r.cells, p.fields, o)
<1> DEFINE acc == ParseFields(r, limits)
           refused(e) == [ParseStart EXCEPT !.error = e]
           p == ParseRecord(r, limits)
<1>1. /\ refused("RecordLimit").error # "none" /\ refused("UnexpectedEnd").error # "none"
      /\ refused("BadMagic").error # "none" /\ refused("FieldLimit").error # "none"
      /\ refused("TrailingBytes").error # "none"
  BY DEF ParseStart
<1> HIDE DEF refused
<1>2. p = IF RecordLen(r) > limits.max_record_len THEN refused("RecordLimit")
          ELSE IF RecordLen(r) < RECORD_HEADER + AUTH_LEN \/ Len(r.cells) < RECORD_HEADER
               THEN refused("UnexpectedEnd")
          ELSE IF r.cells[1] # RECORD_MAGIC THEN refused("BadMagic")
          ELSE IF r.cells[2] > limits.max_fields THEN refused("FieldLimit")
          ELSE IF acc.error # "none" THEN acc
          ELSE IF r.root = <<>> THEN refused("UnexpectedEnd")
          ELSE IF acc.cursor # Len(r.cells) \/ r.extra # 0 THEN refused("TrailingBytes")
          ELSE acc
  BY DEF ParseRecord, refused
<1>3. p.error = "none"
  OBVIOUS
<1> HIDE DEF p, acc
<1>4. /\ p = acc /\ ~(Len(r.cells) < RECORD_HEADER) /\ r.cells[1] = RECORD_MAGIC
      /\ acc.error = "none" /\ r.root # << >> /\ acc.cursor = Len(r.cells) /\ r.extra = 0
  BY <1>1, <1>2, <1>3
<1>5. Len(r.cells) >= RECORD_HEADER
  <2>1. Len(r.cells) \in Nat
    BY LenProperties
  <2>2. QED
    BY <1>4, <2>1 DEF RECORD_HEADER
<1>6. /\ acc \in ParseStates
      /\ Len(acc.fields) = r.cells[2]
      /\ \E o : Laid(r.cells, acc.fields, o)
  BY <1>4, <1>5, ParseLaid DEF acc
<1>7. QED
  BY <1>4, <1>5, <1>6 DEF ParseStates, p

(* the four ways a record is damaged *)
LEMMA DamagedKinds ==
  ASSUME NEW version \in Nat, NEW fields \in Seq(Fields),
         NEW r \in DamagedRecords(RecordOf(version, fields))
  PROVE  LET w == RecordOf(version, fields)
         IN  /\ r.cells \in Seq(Nat)
             /\ \/ r = [cells |-> r.cells, root |-> w.root, extra |-> w.extra]
                \/ r.root = <<<<"damaged">>>>
                \/ r.extra = 1
                \/ r.root = << >>
<1> DEFINE w == RecordOf(version, fields)
           c == w.cells
<1>1. c \in Seq(Nat)
  BY RecordLaid
<1>2. w = [cells |-> w.cells, root |-> w.root, extra |-> w.extra]
  BY DEF RecordOf
<1>3. r \in DamagedRecords(w)
  OBVIOUS
<1> HIDE DEF w
<1>4. \/ \E i \in 1..Len(c), n \in Misreads : r = [w EXCEPT !.cells[i] = n]
      \/ r = [w EXCEPT !.root = <<<<"damaged">>>>]
      \/ r = [w EXCEPT !.extra = 1]
      \/ \E n \in 0..Len(c) : r = [w EXCEPT !.cells = SubSeq(@, 1, n), !.root = <<>>]
  <2>1. \/ r \in MisreadRecords(w) \/ r \in CutRecords(w)
        \/ r = [w EXCEPT !.root = <<<<"damaged">>>>] \/ r = [w EXCEPT !.extra = 1]
    BY <1>3 DEF DamagedRecords
  <2>2. r \in MisreadRecords(w) =>
          \E i \in 1..Len(c), n \in Misreads : r = [w EXCEPT !.cells[i] = n]
    BY DEF MisreadRecords
  <2>3. r \in CutRecords(w) =>
          \E n \in 0..Len(c) : r = [w EXCEPT !.cells = SubSeq(@, 1, n), !.root = <<>>]
    BY DEF CutRecords
  <2>4. QED
    BY <2>1, <2>2, <2>3
<1>5. ASSUME NEW i \in 1..Len(c), NEW n \in Misreads, r = [w EXCEPT !.cells[i] = n]
      PROVE  r.cells \in Seq(Nat) /\ r = [cells |-> r.cells, root |-> w.root, extra |-> w.extra]
  <2>1. n \in Nat
    BY MisreadsAssumption
  <2>2. [c EXCEPT ![i] = n] \in Seq(Nat)
    BY <1>1, <2>1, ExceptSeq
  <2> DEFINE d == [c EXCEPT ![i] = n]
  <2>3. r = [cells |-> d, root |-> w.root, extra |-> w.extra]
    BY <1>2, <1>5
  <2> HIDE DEF d
  <2>4. r.cells = d
    BY <2>3
  <2>5. QED
    BY <2>2, <2>3, <2>4 DEF d
<1>6. ASSUME r = [w EXCEPT !.root = <<<<"damaged">>>>]
      PROVE  r.cells \in Seq(Nat) /\ r.root = <<<<"damaged">>>>
  BY <1>1, <1>2, <1>6
<1>7. ASSUME r = [w EXCEPT !.extra = 1] PROVE r.cells \in Seq(Nat) /\ r.extra = 1
  BY <1>1, <1>2, <1>7
<1>8. ASSUME NEW n \in 0..Len(c), r = [w EXCEPT !.cells = SubSeq(@, 1, n), !.root = <<>>]
      PROVE  r.cells \in Seq(Nat) /\ r.root = << >>
  <2> DEFINE d == SubSeq(c, 1, n)
  <2>1. d \in Seq(Nat)
    <3>1. 1 \in Int /\ n \in Int /\ \A i \in 1..n : i \in 1..Len(c)
      BY <1>1, LenProperties
    <3>2. \A i \in 1..n : c[i] \in Nat
      BY <1>1, <3>1, ElementOfSeq
    <3>3. QED
      BY <3>1, <3>2, SubSeqProperties
  <2>2. r.cells = d /\ r.root = << >>
    BY <1>2, <1>8
  <2>3. QED
    BY <2>1, <2>2
<1>9. QED
  BY <1>4, <1>5, <1>6, <1>7, <1>8 DEF w

(***************************************************************************)
(* No damage passes verify_root: a root is that of one version and one       *)
(* sequence of fields, and cells laid out by the same fields behind the same *)
(* header are the same cells.                                                *)
(***************************************************************************)
LEMMA DamageShows ==
  ASSUME NEW version \in Nat, NEW fields \in Seq(Fields),
         NEW r \in DamagedRecords(RecordOf(version, fields)), r # RecordOf(version, fields),
         NEW limits
  PROVE  ~VerifyRoot(r, limits)
<1> DEFINE w == RecordOf(version, fields)
           p == ParseRecord(r, limits)
<1>1. SUFFICES ASSUME p.error = "none", r.root = <<RootOf(r.cells[3], p.fields)>> PROVE FALSE
  BY DEF VerifyRoot
<1>2. /\ r.cells \in Seq(Nat)
      /\ \/ r = [cells |-> r.cells, root |-> w.root, extra |-> w.extra]
         \/ r.root = <<<<"damaged">>>>
         \/ r.extra = 1
         \/ r.root = << >>
  BY DamagedKinds
<1>3. /\ Len(r.cells) >= RECORD_HEADER
      /\ r.cells[1] = RECORD_MAGIC
      /\ r.root # << >>
      /\ r.extra = 0
      /\ p.fields \in Seq(Fields)
      /\ Len(p.fields) = r.cells[2]
      /\ \E o : Laid(r.cells, p.fields, o)
  BY <1>1, <1>2, ParsedFacts
<1>4. /\ w.cells \in Seq(Nat)
      /\ w.cells[1] = RECORD_MAGIC /\ w.cells[2] = Len(fields) /\ w.cells[3] = version
      /\ \E o : Laid(w.cells, fields, o)
  BY RecordLaid
<1>5. w = [cells |-> w.cells, root |-> <<RootOf(version, fields)>>, extra |-> 0]
      /\ w.root = <<RootOf(version, fields)>> /\ w.extra = 0
  BY DEF RecordOf
<1>6. r # w
  OBVIOUS
<1> HIDE DEF p, w
<1>7. r.root # <<<<"damaged">>>>
  <2>1. RootOf(r.cells[3], p.fields) # <<"damaged">>
    BY HashFacts DEF RootOf
  <2>2. QED
    BY <1>1, <2>1
<1>8. r = [cells |-> r.cells, root |-> w.root, extra |-> w.extra] /\ r.root = w.root
  BY <1>2, <1>3, <1>7
<1>9. r.cells[3] = version /\ p.fields = fields
  <2>1. RootOf(r.cells[3], p.fields) = RootOf(version, fields)
    BY <1>1, <1>5, <1>8
  <2>2. r.cells[3] = version /\ Tree(p.fields)[1] = Tree(fields)[1]
    BY <2>1, HashFacts DEF RootOf
  <2>3. QED
    BY <1>3, <2>2, TreeInjective
<1>10. r.cells = w.cells
  <2>1. PICK c : c = r.cells
    OBVIOUS
  <2>2. PICK d : d = w.cells
    OBVIOUS
  <2>3. PICK o : Laid(c, fields, o)
    BY <1>3, <1>9, <2>1
  <2>4. PICK q : Laid(d, fields, q)
    BY <1>4, <2>2
  <2>5. c \in Seq(Nat) /\ d \in Seq(Nat)
    BY <1>2, <1>4, <2>1, <2>2
  <2>6. c[1] = d[1] /\ c[2] = d[2] /\ c[3] = d[3]
    BY <1>3, <1>4, <1>9, <2>1, <2>2
  <2>7. \A x \in 1..RECORD_HEADER : c[x] = d[x]
    <3>1. \A x \in 1..RECORD_HEADER : x = 1 \/ x = 2 \/ x = 3
      BY DEF RECORD_HEADER
    <3>2. QED
      BY <2>6, <3>1
  <2>8. c = d
    BY <2>3, <2>4, <2>5, <2>7, LaidUnique
  <2>9. QED
    BY <2>1, <2>2, <2>8
<1>11. r = w
  BY <1>5, <1>8, <1>10
<1>12. QED
  BY <1>6, <1>11

(* What ascends to n holds the numbers of the set up to n, each once. *)
Ascends(s, T, n) ==
  /\ s \in Seq(Nat)
  /\ \A i \in 1..Len(s) : s[i] \in T /\ s[i] \in 1..n
  /\ \A x \in T : x \in 1..n => \E i \in 1..Len(s) : s[i] = x
  /\ \A i, j \in 1..Len(s) : i < j => s[i] < s[j]

(* one more number at the end of an ascending list *)
LEMMA AscendsMore ==
  ASSUME NEW s, NEW T, NEW n \in Nat, Ascends(s, T, n), n + 1 \in T
  PROVE  Ascends(Append(s, n + 1), T, n + 1)
<1> DEFINE t == Append(s, n + 1)
           m == Len(s)
           x == n + 1
<1>1. s \in Seq(Nat) /\ m \in Nat /\ x \in Nat
  BY LenProperties DEF Ascends
<1>2. \A i \in 1..m : s[i] \in T /\ s[i] \in 1..n
  BY DEF Ascends
<1>3. /\ t \in Seq(Nat) /\ Len(t) = m + 1 /\ t[m + 1] = x
      /\ \A i \in 1..m : t[i] = s[i]
  BY <1>1, AppendProperties
<1>4. /\ \A y \in T : y \in 1..n => \E i \in 1..m : s[i] = y
      /\ \A i, j \in 1..m : i < j => s[i] < s[j]
  BY DEF Ascends
<1> HIDE DEF t, m
<1>5. ASSUME NEW i \in 1..(m + 1) PROVE t[i] \in T /\ t[i] \in 1..x
  <2>1. i = m + 1 \/ i \in 1..m
    BY <1>1
  <2>2. QED
    BY <1>2, <1>3, <2>1
<1>6. ASSUME NEW y \in T, y \in 1..x PROVE \E i \in 1..(m + 1) : t[i] = y
  <2>1. y = x \/ y \in 1..n
    BY <1>6
  <2>2. CASE y = x
    BY <1>1, <1>3, <2>2
  <2>3. CASE y \in 1..n
    <3>1. PICK i \in 1..m : s[i] = y
      BY <1>4, <2>3
    <3>2. i \in 1..(m + 1) /\ t[i] = y
      BY <1>1, <1>3, <3>1
    <3>3. QED
      BY <3>2
  <2>4. QED
    BY <2>1, <2>2, <2>3
<1>7. ASSUME NEW i \in 1..(m + 1), NEW j \in 1..(m + 1), i < j PROVE t[i] < t[j]
  <2>1. i \in 1..m /\ (j = m + 1 \/ j \in 1..m)
    BY <1>1, <1>7
  <2>2. CASE j = m + 1
    BY <1>2, <1>3, <2>1, <2>2
  <2>3. CASE j \in 1..m
    BY <1>3, <1>4, <1>7, <2>1, <2>3
  <2>4. QED
    BY <2>1, <2>2, <2>3
<1>8. QED
  BY <1>3, <1>5, <1>6, <1>7 DEF Ascends, t

(* Ascending lists the members of a set once and in order. *)
LEMMA AscendingFacts ==
  ASSUME NEW T, NEW n \in Nat
  PROVE  Ascends(Ascending(T, n), T, n)
<1>1. PICK f : /\ f[0] = <<>>
               /\ \A k \in 0..(n - 1) :
                    f[k + 1] = (IF k + 1 \in T THEN Append(f[k], k + 1) ELSE f[k])
               /\ Ascending(T, n) = f[n]
  BY ZenonT(60), AscendingSteps
<1> DEFINE S == {k \in Nat : k <= n => Ascends(f[k], T, k)}
<1>2. 0 \in S
  <2>1. << >> \in Seq(Nat) /\ Len(<< >>) = 0
    BY EmptySeq
  <2>2. Ascends(<< >>, T, 0)
    BY <2>1 DEF Ascends
  <2>3. QED
    BY <1>1, <2>2
<1>3. ASSUME NEW k \in Nat, k \in S PROVE k + 1 \in S
  <2>1. SUFFICES ASSUME k + 1 <= n PROVE Ascends(f[k + 1], T, k + 1)
    OBVIOUS
  <2>2. k \in 0..(n - 1) /\ k <= n
    BY <2>1
  <2>3. Ascends(f[k], T, k)
    BY <1>3, <2>2
  <2>4. f[k + 1] = (IF k + 1 \in T THEN Append(f[k], k + 1) ELSE f[k])
    BY <1>1, <2>2
  <2>5. CASE k + 1 \in T
    <3>1. Ascends(Append(f[k], k + 1), T, k + 1)
      BY <2>3, <2>5, AscendsMore
    <3>2. QED
      BY <2>4, <2>5, <3>1
  <2>6. CASE k + 1 \notin T
    <3>1. PICK s : s = f[k]
      OBVIOUS
    <3>2. Ascends(s, T, k)
      BY <2>3, <3>1
    <3>3. Ascends(s, T, k + 1)
      <4>1. s \in Seq(Nat)
        BY <3>2 DEF Ascends
      <4>2. ASSUME NEW i \in 1..Len(s) PROVE s[i] \in T /\ s[i] \in 1..(k + 1)
        <5>1. s[i] \in T /\ s[i] \in 1..k
          BY <3>2 DEF Ascends
        <5>2. QED
          BY <5>1
      <4>3. ASSUME NEW x \in T, x \in 1..(k + 1) PROVE \E i \in 1..Len(s) : s[i] = x
        <5>1. x \in 1..k
          BY <2>6, <4>3
        <5>2. QED
          BY <3>2, <5>1 DEF Ascends
      <4>4. \A i, j \in 1..Len(s) : i < j => s[i] < s[j]
        BY <3>2 DEF Ascends
      <4>5. QED
        BY <4>1, <4>2, <4>3, <4>4 DEF Ascends
    <3>4. QED
      BY <2>4, <2>6, <3>1, <3>3
  <2>7. QED
    BY <2>5, <2>6
<1>4. n \in S
  <2> HIDE DEF S
  <2>1. QED
    BY <1>2, <1>3, NatsIn
<1>5. QED
  BY <1>1, <1>4

(* twins are of one pair *)
LEMMA TwinApart ==
  ASSUME NEW i \in Nat, NEW j \in Nat, i > 1, j > 1, Twin(i) = Twin(j)
  PROVE  i = j
<1> DEFINE p == i \div 2
           q == j \div 2
<1>1. /\ p \in Nat
      /\ \/ i = 2 * p /\ Twin(i) = 2 * p + 1
         \/ i = 2 * p + 1 /\ Twin(i) = 2 * p
  BY TwinFacts
<1>2. /\ q \in Nat
      /\ \/ j = 2 * q /\ Twin(j) = 2 * q + 1
         \/ j = 2 * q + 1 /\ Twin(j) = 2 * q
  BY TwinFacts
<1> HIDE DEF p, q
<1>3. QED
  BY <1>1, <1>2

(* the siblings that are collected on the way up a tree *)
Siblings(t) == {[index |-> i, hash |-> t[i]] : i \in Nat}
Indices(s)  == {s[m].index : m \in 1..Len(s)}
EachOnce(s) == \A m, n \in 1..Len(s) : s[m].index = s[n].index => m = n

(* the parts of the siblings by their types *)
LEMMA SiblingTypes ==
  ASSUME NEW t, NEW s \in Seq(Siblings(t))
  PROVE  /\ Len(s) \in Nat
         /\ \A m \in 1..Len(s) : s[m].index \in Nat /\ s[m].hash = t[s[m].index]
<1>1. \A m \in 1..Len(s) : s[m] \in Siblings(t)
  BY ElementOfSeq
<1>2. QED
  BY <1>1, LenProperties DEF Siblings

(* Two lists of siblings without a common position are one list. *)
LEMMA SiblingsJoined ==
  ASSUME NEW t, NEW s \in Seq(Siblings(t)), NEW u \in Seq(Siblings(t)),
         EachOnce(s), EachOnce(u), Indices(s) \intersect Indices(u) = {}
  PROVE  /\ s \o u \in Seq(Siblings(t))
         /\ EachOnce(s \o u)
         /\ Indices(s \o u) = Indices(s) \union Indices(u)
<1> DEFINE a == Len(s)
           b == Len(u)
           w == s \o u
<1>1. a \in Nat /\ b \in Nat
  BY LenProperties
<1>2. /\ w \in Seq(Siblings(t)) /\ Len(w) = a + b
      /\ \A i \in 1..(a + b) : w[i] = IF i <= a THEN s[i] ELSE u[i - a]
  BY ConcatProperties
<1> HIDE DEF w, a, b
<1>3. ASSUME NEW i \in 1..a PROVE i \in 1..(a + b) /\ w[i] = s[i]
  <2>1. i \in 1..(a + b) /\ i <= a
    BY <1>1
  <2>2. QED
    BY <1>2, <2>1
<1>4. ASSUME NEW i \in 1..b PROVE a + i \in 1..(a + b) /\ w[a + i] = u[i]
  <2>1. a + i \in 1..(a + b) /\ ~(a + i <= a) /\ a + i - a = i
    BY <1>1
  <2>2. \A x \in 1..(a + b) : ~(x <= a) => w[x] = u[x - a]
    BY <1>2
  <2>3. w[a + i] = u[a + i - a]
    BY <1>1, <2>1, <2>2
  <2>4. QED
    BY <2>1, <2>3
<1>5. ASSUME NEW x \in 1..(a + b) PROVE x \in 1..a \/ \E i \in 1..b : x = a + i
  <2>1. ~(x \in 1..a) => x - a \in 1..b /\ x = a + (x - a)
    BY <1>1
  <2>2. QED
    BY <2>1
<1>6. Indices(w) = Indices(s) \union Indices(u)
  <2>1. ASSUME NEW x \in 1..(a + b) PROVE w[x].index \in Indices(s) \union Indices(u)
    <3>1. CASE x \in 1..a
      BY <1>3, <3>1 DEF Indices, a
    <3>2. ASSUME NEW i \in 1..b, x = a + i PROVE w[x].index \in Indices(u)
      BY <1>4, <3>2 DEF Indices, b
    <3>3. QED
      BY <1>5, <3>1, <3>2
  <2>2. ASSUME NEW x \in 1..a PROVE s[x].index \in Indices(w)
    BY <1>2, <1>3 DEF Indices
  <2>3. ASSUME NEW x \in 1..b PROVE u[x].index \in Indices(w)
    BY <1>2, <1>4 DEF Indices
  <2>4. Indices(w) \subseteq Indices(s) \union Indices(u)
    BY <1>2, <2>1 DEF Indices
  <2>5. Indices(s) \subseteq Indices(w) /\ Indices(u) \subseteq Indices(w)
    <3>1. Indices(s) = {s[x].index : x \in 1..a} /\ Indices(u) = {u[x].index : x \in 1..b}
      BY DEF Indices, a, b
    <3>2. QED
      BY <2>2, <2>3, <3>1
  <2>6. QED
    BY <2>4, <2>5
<1>7. ASSUME NEW x \in 1..(a + b), NEW y \in 1..(a + b), w[x].index = w[y].index PROVE x = y
  <2>1. CASE x \in 1..a /\ y \in 1..a
    BY <1>3, <1>7, <2>1 DEF EachOnce, a
  <2>2. ASSUME NEW i \in 1..b, NEW j \in 1..b, x = a + i, y = a + j PROVE x = y
    <3>1. u[i].index = u[j].index
      BY <1>4, <1>7, <2>2
    <3>2. i = j
      BY <3>1 DEF EachOnce, b
    <3>3. QED
      BY <2>2, <3>2
  <2>3. ASSUME NEW i \in 1..a, NEW j \in 1..b, w[i].index = w[a + j].index PROVE FALSE
    <3>1. s[i].index \in Indices(s) /\ u[j].index \in Indices(u)
      BY DEF Indices, a, b
    <3>2. s[i].index = u[j].index
      BY <1>3, <1>4, <2>3
    <3>3. QED
      BY <3>1, <3>2
  <2>4. QED
    BY <1>5, <1>7, <2>1, <2>2, <2>3
<1>8. EachOnce(w)
  BY <1>2, <1>7 DEF EachOnce
<1>9. QED
  BY <1>2, <1>6, <1>8 DEF w

(* the heap positions below a row *)
Beneath(j) == {i \in Nat : i >= 2 * Power(j)}

(* the nodes of a level and of those below it *)
LEMMA BeneathFacts ==
  ASSUME NEW j \in Nat
  PROVE  /\ Row(j) \intersect Beneath(j) = {}
         /\ Row(j + 1) \subseteq Beneath(j)
         /\ Beneath(j + 1) \subseteq Beneath(j)
<1>1. Power(j) \in Nat /\ Power(j) > 0 /\ Power(j + 1) = 2 * Power(j)
  BY PowerFacts
<1> DEFINE w == Power(j)
<1>2. w \in Nat /\ w > 0 /\ Power(j + 1) = 2 * w
  BY <1>1
<1>3. Row(j) = w..(2 * w - 1) /\ Row(j + 1) = (2 * w)..(2 * (2 * w) - 1)
      /\ Beneath(j) = {i \in Nat : i >= 2 * w} /\ Beneath(j + 1) = {i \in Nat : i >= 2 * (2 * w)}
  BY <1>2 DEF Row, Beneath
<1> HIDE DEF w
<1>4. QED
  BY <1>2, <1>3

(* the nodes and the siblings before row j is reached *)
BeforeRow(acc, t, j, size) ==
  /\ Row(j + 1) \subseteq 1..size
  /\ acc.frontier \subseteq Row(j + 1)
  /\ acc.siblings \in Seq(Siblings(t))
  /\ EachOnce(acc.siblings)
  /\ Indices(acc.siblings) \subseteq Beneath(j + 1)

(* the round that leads to row j: no twin of its nodes is missing after it *)
AfterRow(acc, next, t, j) ==
  /\ next.frontier = Above(acc.frontier)
  /\ next.frontier \subseteq Row(j)
  /\ acc.frontier # {} => next.frontier # {}
  /\ next.siblings \in Seq(Siblings(t))
  /\ EachOnce(next.siblings)
  /\ Indices(acc.siblings) \subseteq Indices(next.siblings)
  /\ Indices(next.siblings) \subseteq Beneath(j)
  /\ \A i \in acc.frontier : Twin(i) \in acc.frontier \union Indices(next.siblings)

(* One round: the lone nodes of a row get their twins. *)
LEMMA GatherRound ==
  ASSUME NEW t, NEW j \in Nat, NEW size \in Nat, NEW acc, BeforeRow(acc, t, j, size)
  PROVE  AfterRow(acc, Gather(acc, t, size), t, j)
<1> DEFINE fr    == acc.frontier
           old   == acc.siblings
           T     == {i \in fr : Twin(i) \notin fr}
           alone == Ascending(T, size)
           m     == Len(alone)
           new   == [k \in 1..m |-> [index |-> Twin(alone[k]), hash |-> t[Twin(alone[k])]]]
           next  == Gather(acc, t, size)
<1>1. /\ fr \subseteq Row(j + 1) /\ old \in Seq(Siblings(t)) /\ EachOnce(old)
      /\ Indices(old) \subseteq Beneath(j + 1) /\ Row(j + 1) \subseteq 1..size
  BY DEF BeforeRow
<1>2. next = [frontier |-> Above(fr), siblings |-> old \o new]
  BY DEF Gather
<1>3. Ascends(alone, T, size)
  BY AscendingFacts
<1> HIDE DEF next, alone
<1>4. /\ m \in Nat
      /\ \A k \in 1..m : alone[k] \in T /\ alone[k] \in Nat
      /\ \A x \in T : x \in 1..size => \E k \in 1..m : alone[k] = x
      /\ \A k, l \in 1..m : alone[k] = alone[l] => k = l
  <2>1. alone \in Seq(Nat) /\ m \in Nat
    BY <1>3, LenProperties DEF Ascends
  <2>2. \A k \in 1..m : alone[k] \in T /\ alone[k] \in Nat
    BY <1>3, <2>1, ElementOfSeq DEF Ascends
  <2>3. \A x \in T : x \in 1..size => \E k \in 1..m : alone[k] = x
    BY <1>3 DEF Ascends
  <2>4. ASSUME NEW k \in 1..m, NEW l \in 1..m, alone[k] = alone[l] PROVE k = l
    <3>1. \A a, b \in 1..m : a < b => alone[a] < alone[b]
      BY <1>3 DEF Ascends
    <3>2. ~(k < l) /\ ~(l < k)
      BY <2>2, <2>4, <3>1
    <3>3. QED
      BY <2>1, <3>2
  <2>5. QED
    BY <2>1, <2>2, <2>3, <2>4
<1>5. ASSUME NEW i \in fr
      PROVE  i \in Nat /\ i > 1 /\ i \in 1..size /\ Twin(i) \in Row(j + 1) /\ i \div 2 \in Row(j)
  <2>1. i \in Row(j + 1) /\ j + 1 \in Nat
    BY <1>1
  <2>2. \A x \in Row(j + 1) : x > 1 /\ x \div 2 \in Row(j) /\ Twin(x) \in Row(j + 1)
    BY RowFacts
  <2>3. i \in Nat
    BY <2>1, RowFacts
  <2>4. QED
    BY <1>1, <2>1, <2>2, <2>3
<1> HIDE DEF m
<1>6. \A k \in 1..m : Twin(alone[k]) \in Row(j + 1) /\ Twin(alone[k]) \in Nat
  <2>1. Row(j + 1) \subseteq Nat
    <3>1. j + 1 \in Nat
      OBVIOUS
    <3>2. QED
      BY <3>1, RowFacts
  <2>2. QED
    BY <1>4, <1>5, <2>1
<1>7. /\ new \in Seq(Siblings(t)) /\ Len(new) = m
      /\ \A k \in 1..m : new[k].index = Twin(alone[k])
  <2>1. \A k \in 1..m : new[k] \in Siblings(t)
    BY <1>6 DEF Siblings
  <2>2. new \in [1..m -> Siblings(t)]
    BY <2>1
  <2>3. new \in Seq(Siblings(t)) /\ Len(new) = m
    BY <1>4, <2>2
  <2>4. QED
    BY <2>3
<1> HIDE DEF new
<1>8. EachOnce(new)
  <2>1. ASSUME NEW k \in 1..m, NEW l \in 1..m, new[k].index = new[l].index PROVE k = l
    <3>1. Twin(alone[k]) = Twin(alone[l])
      BY <1>7, <2>1
    <3>2. alone[k] \in Nat /\ alone[k] > 1 /\ alone[l] \in Nat /\ alone[l] > 1
      BY <1>4, <1>5
    <3>3. alone[k] = alone[l]
      BY <3>1, <3>2, TwinApart
    <3>4. QED
      BY <1>4, <3>3
  <2>2. QED
    BY <1>7, <2>1 DEF EachOnce
<1>9. Indices(new) = {Twin(alone[k]) : k \in 1..m}
  BY <1>7 DEF Indices
<1>10. Indices(new) \subseteq Row(j + 1)
  BY <1>6, <1>9
<1>11. Indices(old) \intersect Indices(new) = {}
  <2>1. Row(j + 1) \intersect Beneath(j + 1) = {}
    BY BeneathFacts
  <2>2. QED
    BY <1>1, <1>10, <2>1
<1>12. /\ old \o new \in Seq(Siblings(t))
       /\ EachOnce(old \o new)
       /\ Indices(old \o new) = Indices(old) \union Indices(new)
  BY <1>1, <1>7, <1>8, <1>11, SiblingsJoined
<1>13. Indices(old \o new) \subseteq Beneath(j)
  BY <1>1, <1>10, <1>12, BeneathFacts
<1>14. ASSUME NEW i \in fr, Twin(i) \notin fr PROVE Twin(i) \in Indices(new)
  <2>1. i \in T /\ i \in 1..size
    BY <1>5, <1>14
  <2>2. PICK k \in 1..m : alone[k] = i
    BY <1>4, <2>1
  <2>3. QED
    BY <1>9, <2>2
<1>15. Above(fr) \subseteq Row(j) /\ (fr # {} => Above(fr) # {})
  BY <1>5 DEF Above
<1>16. next.frontier = Above(fr) /\ next.siblings = old \o new
  BY <1>2
<1>17. QED
  BY <1>12, <1>13, <1>14, <1>15, <1>16 DEF next, AfterRow

(* The nodes on the way up, row by row, and that no twin is missing. *)
Climb(fr, nodes, s, height) ==
  /\ fr[0] = nodes
  /\ \A k \in 0..(height - 1) : fr[k + 1] = Above(fr[k])
  /\ \A k \in 0..height : fr[k] # {} /\ fr[k] \subseteq Row(height - k)
  /\ \A k \in 0..(height - 1) : \A i \in fr[k] : Twin(i) \in fr[k] \union Indices(s)

(* The siblings of a proof close every level between the leaves and the root. *)
LEMMA Gathered ==
  ASSUME NEW t, NEW height \in Nat, NEW nodes, nodes \subseteq Row(height), nodes # {}
  PROVE  LET s == AggregateSiblings(t, height, nodes)
         IN  /\ s \in Seq(Siblings(t))
             /\ EachOnce(s)
             /\ \E fr : Climb(fr, nodes, s, height)
<1> DEFINE size == 2 * Power(height)
<1>1. PICK g : /\ g[0] = [frontier |-> nodes, siblings |-> <<>>]
               /\ \A k \in 0..(height - 1) : g[k + 1] = Gather(g[k], t, size)
               /\ AggregateSiblings(t, height, nodes) = g[height].siblings
  BY ZenonT(60), GatherSteps
<1>2. size \in Nat /\ \A j \in 0..height : Row(j) \subseteq 1..size
  <2>1. Power(height) \in Nat
    BY PowerFacts
  <2>2. ASSUME NEW j \in 0..height PROVE Row(j) \subseteq 1..size
    <3>1. j \in Nat /\ j <= height
      OBVIOUS
    <3>2. Power(j) <= Power(height) /\ Power(j) \in Nat /\ Power(j) > 0
      BY <3>1, PowerGrows, PowerFacts
    <3>3. QED
      BY <2>1, <3>2 DEF Row, size
  <2>3. QED
    BY <2>1, <2>2
<1> HIDE DEF size
<1> DEFINE Whole(k, s) == \A l \in 0..(k - 1) : \A i \in g[l].frontier :
                            Twin(i) \in g[l].frontier \union Indices(s)
           Good(k) == /\ g[k].frontier \subseteq Row(height - k)
                      /\ g[k].frontier # {}
                      /\ g[k].siblings \in Seq(Siblings(t))
                      /\ EachOnce(g[k].siblings)
                      /\ Indices(g[k].siblings) \subseteq Beneath(height - k)
                      /\ Whole(k, g[k].siblings)
                      /\ k > 0 => g[k].frontier = Above(g[k - 1].frontier)
           S == {k \in Nat : k <= height => Good(k)}
<1>3. 0 \in S
  <2>1. << >> \in Seq(Siblings(t)) /\ Len(<< >>) = 0
    BY EmptySeq
  <2>2. g[0].frontier = nodes /\ g[0].siblings = << >> /\ height - 0 = height
    BY <1>1
  <2>3. EachOnce(<< >>) /\ Indices(<< >>) = {}
    BY <2>1 DEF EachOnce, Indices
  <2>4. Good(0)
    BY <2>1, <2>2, <2>3
  <2>5. QED
    BY <2>4
<1>4. ASSUME NEW k \in Nat, k \in S PROVE k + 1 \in S
  <2>1. SUFFICES ASSUME k + 1 <= height PROVE Good(k + 1)
    OBVIOUS
  <2>2. PICK j \in Nat : j = height - (k + 1)
    BY <2>1
  <2>3. /\ k \in 0..(height - 1) /\ k <= height /\ height - k = j + 1 /\ j + 1 \in 0..height
        /\ k + 1 - 1 = k /\ k + 1 > 0
    BY <2>1, <2>2
  <2>4. Good(k)
    BY <1>4, <2>3
  <2>5. PICK acc : acc = g[k]
    OBVIOUS
  <2>6. PICK next : next = g[k + 1]
    OBVIOUS
  <2>7. /\ acc.frontier \subseteq Row(j + 1) /\ acc.frontier # {}
        /\ acc.siblings \in Seq(Siblings(t))
        /\ EachOnce(acc.siblings)
        /\ Indices(acc.siblings) \subseteq Beneath(j + 1)
    BY <2>3, <2>4, <2>5
  <2>8. next = Gather(acc, t, size)
    BY <1>1, <2>3, <2>5, <2>6
  <2>9. Row(j + 1) \subseteq 1..size
    BY <1>2, <2>3
  <2>10. /\ next.frontier = Above(acc.frontier)
         /\ next.frontier \subseteq Row(j)
         /\ next.frontier # {}
         /\ next.siblings \in Seq(Siblings(t)) /\ EachOnce(next.siblings)
         /\ Indices(acc.siblings) \subseteq Indices(next.siblings)
         /\ Indices(next.siblings) \subseteq Beneath(j)
         /\ \A i \in acc.frontier : Twin(i) \in acc.frontier \union Indices(next.siblings)
    <3>1. BeforeRow(acc, t, j, size)
      BY <2>7, <2>9 DEF BeforeRow
    <3>2. AfterRow(acc, Gather(acc, t, size), t, j)
      BY <1>2, <3>1, GatherRound
    <3>3. AfterRow(acc, next, t, j)
      BY <2>8, <3>2
    <3>4. QED
      BY <2>7, <3>3 DEF AfterRow
  <2>11. ASSUME NEW l \in 0..(k + 1 - 1), NEW i \in g[l].frontier
         PROVE  Twin(i) \in g[l].frontier \union Indices(next.siblings)
    <3>1. l = k \/ l \in 0..(k - 1)
      BY <2>3
    <3>2. CASE l = k
      BY <2>5, <2>10, <2>11, <3>2
    <3>3. CASE l \in 0..(k - 1)
      <4>1. Twin(i) \in g[l].frontier \union Indices(acc.siblings)
        BY <2>4, <2>5, <2>11, <3>3
      <4>2. QED
        BY <2>10, <4>1
    <3>4. QED
      BY <3>1, <3>2, <3>3
  <2>12. Whole(k + 1, next.siblings)
    BY <2>11
  <2> HIDE DEF Whole
  <2>13. QED
    BY <2>2, <2>3, <2>5, <2>6, <2>10, <2>12
<1>5. ASSUME NEW k \in 0..height PROVE Good(k)
  <2>1. Nat \subseteq S
    <3> HIDE DEF S
    <3>1. QED
      BY <1>3, <1>4, NatsIn
  <2>2. k \in Nat /\ k <= height
    OBVIOUS
  <2>3. QED
    BY <2>1, <2>2
<1> DEFINE fr == [k \in 0..height |-> g[k].frontier]
           s  == g[height].siblings
<1>6. Good(height)
  BY <1>5
<1>7. Climb(fr, nodes, s, height)
  <2>1. fr[0] = nodes
    BY <1>1
  <2>2. ASSUME NEW k \in 0..(height - 1) PROVE fr[k + 1] = Above(fr[k])
    <3>1. k + 1 \in 0..height /\ k \in 0..height /\ k + 1 > 0 /\ k + 1 - 1 = k
      OBVIOUS
    <3>2. g[k + 1].frontier = Above(g[k].frontier)
      BY <1>5, <3>1
    <3>3. QED
      BY <3>1, <3>2
  <2>3. ASSUME NEW k \in 0..height PROVE fr[k] # {} /\ fr[k] \subseteq Row(height - k)
    BY <1>5
  <2>4. ASSUME NEW k \in 0..(height - 1), NEW i \in fr[k]
        PROVE  Twin(i) \in fr[k] \union Indices(s)
    <3>1. k \in 0..height /\ fr[k] = g[k].frontier
      OBVIOUS
    <3>2. QED
      BY <1>6, <2>4, <3>1
  <2>5. QED
    BY <2>1, <2>2, <2>3, <2>4 DEF Climb
<1>8. QED
  BY <1>1, <1>6, <1>7

(* hashes that are those of the tree *)
Agrees(f, t) == \A i \in DOMAIN f : f[i] = t[i]

NoneMissing(f, siblings) == \A i \in DOMAIN f : Twin(i) \in DOMAIN f \union DOMAIN siblings

(* Combining hashes of the tree gives hashes of the tree. *)
LEMMA CombineAgrees ==
  ASSUME NEW fields \in Seq(Fields), NEW j \in Nat, j < Levels(Len(fields)),
         NEW f, NEW siblings, DOMAIN f \subseteq Row(j + 1),
         Agrees(f, Tree(fields)), Agrees(siblings, Tree(fields)), NoneMissing(f, siblings)
  PROVE  /\ DOMAIN Combine(f, siblings) = Above(DOMAIN f)
         /\ Agrees(Combine(f, siblings), Tree(fields))
<1> DEFINE g       == Combine(f, siblings)
           here    == DOMAIN f
           hash(i) == IF i \in here THEN f[i] ELSE siblings[i]
           whole   == \A i \in here : Twin(i) \in here \union DOMAIN siblings
           t       == Tree(fields)
<1>1. whole => g = [p \in Above(here) |-> BranchHash(hash(2 * p), hash(2 * p + 1))]
  BY CombineFacts
<1>2. whole
  BY DEF NoneMissing
<1>3. \A i \in Row(j) : t[i] = BranchHash(t[2 * i], t[2 * i + 1])
  BY TreeFacts
<1>4. /\ \A i \in here : f[i] = t[i]
      /\ \A i \in DOMAIN siblings : siblings[i] = t[i]
  BY DEF Agrees
<1> HIDE DEF g, t, whole
<1>5. \A i \in here \union DOMAIN siblings : hash(i) = t[i]
  BY <1>4
<1> HIDE DEF hash
<1>6. /\ DOMAIN g = Above(here)
      /\ \A q \in Above(here) : g[q] = BranchHash(hash(2 * q), hash(2 * q + 1))
  BY <1>1, <1>2
<1>7. ASSUME NEW q \in Above(here) PROVE g[q] = t[q]
  <2>1. PICK i \in here : q = i \div 2
    BY DEF Above
  <2>2. i \in Row(j + 1) /\ j + 1 \in Nat
    OBVIOUS
  <2>3. \A x \in Row(j + 1) : x > 1 /\ x \div 2 \in Row(j) /\ Twin(x) \in Row(j + 1)
    BY RowFacts
  <2>4. i \in Nat /\ i > 1 /\ q \in Row(j)
    BY <2>1, <2>2, <2>3, RowFacts
  <2>5. \/ i = 2 * q /\ Twin(i) = 2 * q + 1
        \/ i = 2 * q + 1 /\ Twin(i) = 2 * q
    BY <2>1, <2>4, TwinFacts
  <2>6. i \in here \union DOMAIN siblings /\ Twin(i) \in here \union DOMAIN siblings
    BY <1>2 DEF whole
  <2>7. hash(2 * q) = t[2 * q] /\ hash(2 * q + 1) = t[2 * q + 1]
    BY <1>5, <2>5, <2>6
  <2>8. QED
    BY <1>3, <1>6, <2>4, <2>7
<1>8. QED
  BY <1>6, <1>7 DEF Agrees, g, t

(* The nodes on the way up combine to the root of the tree. *)
LEMMA ClimbCombines ==
  ASSUME NEW fields \in Seq(Fields), NEW nodes, NEW s, NEW fr,
         Climb(fr, nodes, s, Levels(Len(fields))),
         NEW first, DOMAIN first = nodes, Agrees(first, Tree(fields)),
         NEW siblings, DOMAIN siblings = Indices(s), Agrees(siblings, Tree(fields))
  PROVE  LET top == CombineFrontier(first, siblings, Levels(Len(fields)))
         IN  1 \in DOMAIN top /\ top[1] = Tree(fields)[1]
<1> DEFINE height == Levels(Len(fields))
           t == Tree(fields)
<1>1. height \in Nat
  BY TreeFacts
<1>2. PICK level : /\ level[0] = first
                   /\ \A k \in 0..(height - 1) : level[k + 1] = Combine(level[k], siblings)
                   /\ CombineFrontier(first, siblings, height) = level[height]
  BY <1>1, CombineSteps
<1>3. /\ fr[0] = nodes
      /\ \A k \in 0..(height - 1) : fr[k + 1] = Above(fr[k])
      /\ \A k \in 0..height : fr[k] # {} /\ fr[k] \subseteq Row(height - k)
      /\ \A k \in 0..(height - 1) : \A i \in fr[k] : Twin(i) \in fr[k] \union Indices(s)
  BY DEF Climb
<1> HIDE DEF height
<1> DEFINE S == {k \in Nat : k <= height => DOMAIN level[k] = fr[k] /\ Agrees(level[k], t)}
<1>4. 0 \in S
  BY <1>2, <1>3
<1>5. ASSUME NEW k \in Nat, k \in S PROVE k + 1 \in S
  <2>1. SUFFICES ASSUME k + 1 <= height
                 PROVE  DOMAIN level[k + 1] = fr[k + 1] /\ Agrees(level[k + 1], t)
    OBVIOUS
  <2>2. PICK j \in Nat : j = height - (k + 1)
    BY <1>1, <2>1
  <2>3. k \in 0..(height - 1) /\ k \in 0..height /\ k <= height /\ height - k = j + 1 /\ j < height
    BY <1>1, <2>1, <2>2
  <2>4. PICK f : f = level[k]
    OBVIOUS
  <2>5. DOMAIN f = fr[k] /\ Agrees(f, t)
    BY <1>5, <2>3, <2>4
  <2>6. DOMAIN f \subseteq Row(j + 1)
    BY <1>3, <2>3, <2>5
  <2>7. NoneMissing(f, siblings)
    BY <1>3, <2>3, <2>5 DEF NoneMissing
  <2>8. /\ DOMAIN Combine(f, siblings) = Above(DOMAIN f)
        /\ Agrees(Combine(f, siblings), Tree(fields))
    BY <2>3, <2>5, <2>6, <2>7, CombineAgrees DEF height
  <2>9. level[k + 1] = Combine(f, siblings) /\ fr[k + 1] = Above(fr[k])
    BY <1>2, <1>3, <2>3, <2>4
  <2>10. QED
    BY <2>5, <2>8, <2>9
<1>6. DOMAIN level[height] = fr[height] /\ Agrees(level[height], t)
  <2>1. Nat \subseteq S
    <3> HIDE DEF S
    <3>1. QED
      BY <1>4, <1>5, NatsIn
  <2>2. QED
    BY <1>1, <2>1
<1>7. 1 \in fr[height]
  <2>1. height \in 0..height /\ height - height = 0
    BY <1>1
  <2>2. fr[height] # {} /\ fr[height] \subseteq Row(0)
    BY <1>3, <2>1
  <2>3. QED
    BY <2>2, RowFacts
<1>8. QED
  BY <1>2, <1>6, <1>7 DEF Agrees, height

(* the siblings by position *)
LEMMA SiblingHashesFacts ==
  ASSUME NEW p, NEW t, p.siblings \in Seq(Siblings(t))
  PROVE  /\ DOMAIN SiblingHashes(p) = Indices(p.siblings)
         /\ Agrees(SiblingHashes(p), t)
<1> DEFINE s == p.siblings
           ss == 1..Len(s)
<1>1. SiblingHashes(p) = [n \in Indices(s) |-> s[CHOOSE i \in ss : s[i].index = n].hash]
  BY DEF SiblingHashes, Indices
<1>2. \A m \in ss : s[m].index \in Nat /\ s[m].hash = t[s[m].index]
  BY SiblingTypes
<1> HIDE DEF s
<1>3. ASSUME NEW n \in Indices(s) PROVE SiblingHashes(p)[n] = t[n]
  <2> DEFINE c == CHOOSE i \in ss : s[i].index = n
  <2>1. \E i \in ss : s[i].index = n
    BY DEF Indices
  <2>2. c \in ss /\ s[c].index = n
    BY <2>1
  <2>3. SiblingHashes(p)[n] = s[c].hash
    BY <1>1
  <2> HIDE DEF c
  <2>4. QED
    BY <1>2, <2>2, <2>3
<1>4. QED
  BY <1>1, <1>3 DEF Agrees, s

(* the fields of a proof, and their ids *)
LEMMA AnsweredFacts ==
  ASSUME NEW p, ProofTyped(p)
  PROVE  /\ FieldIds(Answered(p)) = [i \in 1..Len(p.leaves) |-> p.leaves[i].field[1]]
         /\ ToSet(Answered(p)) = {p.leaves[i].field : i \in 1..Len(p.leaves)}
<1> DEFINE m == Len(p.leaves)
           a == Answered(p)
<1>1. m \in Nat /\ \A i \in 1..m : p.leaves[i].field \in Fields
  BY ProofTypes
<1>2. a = [i \in 1..m |-> p.leaves[i].field]
  BY DEF Answered
<1> HIDE DEF a, m
<1>3. a \in Seq(Fields) /\ Len(a) = m /\ DOMAIN a = 1..m
  <2>1. a \in [1..m -> Fields]
    BY <1>1, <1>2 DEF m
  <2>2. QED
    BY <1>1, <2>1
<1>4. FieldIds(a) = [i \in 1..m |-> p.leaves[i].field[1]]
  BY <1>2, <1>3 DEF FieldIds
<1>5. ToSet(a) = {p.leaves[i].field : i \in 1..m}
  BY <1>2, <1>3 DEF ToSet
<1>6. QED
  BY <1>4, <1>5 DEF a, m

Found(fields, query) == {f \in ToSet(fields) : f[1] \in query}

FieldSet(fields) == {fields[i] : i \in 1..Len(fields)}

(* the set of the fields of a sequence, by position *)
LEMMA FieldSets ==
  ASSUME NEW fields \in Seq(Fields)
  PROVE  ToSet(fields) = FieldSet(fields)
<1>1. DOMAIN fields = 1..Len(fields)
  BY LenProperties
<1>2. QED
  BY <1>1 DEF ToSet, FieldSet

(* the positions of the fields that are asked for *)
Chosen(fields, query) ==
  Ascending({i \in 1..Len(fields) : fields[i][1] \in query}, Len(fields))

ChosenOK(c, fields, query) ==
  /\ Len(c) \in Nat
  /\ c # <<>> => Len(c) > 0
  /\ c = <<>> => Len(c) = 0
  /\ \A k \in 1..Len(c) : c[k] \in 1..Len(fields) /\ fields[c[k]][1] \in query
  /\ \A i \in 1..Len(fields) : fields[i][1] \in query => \E k \in 1..Len(c) : c[k] = i
  /\ \A k, l \in 1..Len(c) : k < l => c[k] < c[l]

(* the positions of the fields that were asked for *)
LEMMA ChosenFacts ==
  ASSUME NEW fields \in Seq(Fields), NEW query
  PROVE  ChosenOK(Chosen(fields, query), fields, query)
<1> DEFINE n == Len(fields)
           T == {i \in 1..n : fields[i][1] \in query}
           c == Chosen(fields, query)
<1>1. n \in Nat
  BY LenProperties
<1> HIDE DEF n
<1>2. c = Ascending(T, n)
  BY DEF Chosen, n
<1>3. Ascends(c, T, n)
  BY <1>1, <1>2, AscendingFacts
<1> HIDE DEF c
<1>4. c \in Seq(Nat)
  BY <1>3 DEF Ascends
<1>5. Len(c) \in Nat /\ (c # << >> => Len(c) > 0) /\ (c = << >> => Len(c) = 0)
  BY <1>4, EmptySeq
<1>6. \A k \in 1..Len(c) : c[k] \in 1..n /\ fields[c[k]][1] \in query
  BY <1>3 DEF Ascends
<1>7. \A i \in 1..n : fields[i][1] \in query => \E k \in 1..Len(c) : c[k] = i
  BY <1>3 DEF Ascends
<1>8. \A k, l \in 1..Len(c) : k < l => c[k] < c[l]
  BY <1>3 DEF Ascends
<1>9. QED
  BY <1>5, <1>6, <1>7, <1>8 DEF ChosenOK, c, n

(* Fields whose ids ascend are ordered by them. *)
LEMMA IdsOrdered ==
  ASSUME NEW fields \in Seq(Fields), Increasing(FieldIds(fields))
  PROVE  \A i, j \in 1..Len(fields) : i < j => fields[i][1] < fields[j][1]
<1> DEFINE n == Len(fields)
           ids == FieldIds(fields)
<1>1. n \in Nat /\ \A i \in 1..n : fields[i][1] \in Nat
  <2>1. \A i \in 1..n : fields[i] \in Fields
    BY ElementOfSeq
  <2>2. QED
    BY <2>1, LenProperties, FieldTypes
<1>2. ids = [i \in 1..n |-> fields[i][1]]
  BY DEF FieldIds
<1>3. Increasing(ids)
  OBVIOUS
<1> HIDE DEF n, ids
<1>4. ids \in Seq(Nat) /\ Len(ids) = n
  BY <1>1, <1>2
<1>5. \A i, j \in 1..Len(ids) : i < j => ids[i] < ids[j]
  BY <1>4, <1>3, IncreasingOrders
<1>6. ASSUME NEW i \in 1..n, NEW j \in 1..n, i < j PROVE fields[i][1] < fields[j][1]
  <2>1. ids[i] < ids[j]
    BY <1>4, <1>5, <1>6
  <2>2. ids[i] = fields[i][1] /\ ids[j] = fields[j][1]
    BY <1>2
  <2>3. QED
    BY <2>1, <2>2
<1>7. QED
  BY <1>6 DEF n

(* the proof p of a record for the fields at the positions c *)
ProofHas(p, version, fields, c) ==
  /\ p.error = "none" /\ p.schema_version = version /\ p.field_count = Len(fields)
  /\ p.leaves = [k \in 1..Len(c) |-> [index |-> c[k] - 1, field |-> fields[c[k]]]]
  /\ p.siblings = AggregateSiblings(Tree(fields), Levels(Len(fields)),
                     {LeafCount(Len(fields)) + c[k] - 1 : k \in 1..Len(c)})
  /\ p.claimed_root = RootOf(version, fields)

(* the parts of a proof for the chosen fields *)
LEMMA ProofPieces ==
  ASSUME NEW version, NEW fields, NEW query, Chosen(fields, query) # <<>>
  PROVE  ProofHas(ProofOf(version, fields, query), version, fields, Chosen(fields, query))
BY DEF ProofOf, Chosen, ProofHas

(* A query without a field gets no proof. *)
LEMMA NothingChosen ==
  ASSUME NEW version, NEW fields, NEW query, Chosen(fields, query) = <<>>
  PROVE  ProofOf(version, fields, query) = NoProof("InvalidQuery")
BY DEF ProofOf, Chosen

(* the leaves of the proof p are the fields at the positions c, in order *)
LeavesAre(p, fields, c) ==
  /\ ProofTyped(p)
  /\ p.leaves # <<>>
  /\ Len(p.leaves) = Len(c) /\ Len(c) \in Nat /\ Len(c) > 0
  /\ \A k \in 1..Len(c) : /\ p.leaves[k].index = c[k] - 1
                          /\ p.leaves[k].index \in 0..(Len(fields) - 1)
                          /\ p.leaves[k].field = fields[c[k]]
  /\ Increasing([i \in 1..Len(p.leaves) |-> p.leaves[i].index])
  /\ Increasing([i \in 1..Len(p.leaves) |-> p.leaves[i].field[1]])

(* The leaves of a proof are the fields that were asked for. *)
LEMMA ProofLeaves ==
  ASSUME NEW version \in Nat, NEW fields \in Seq(Fields), Increasing(FieldIds(fields)), NEW query,
         Chosen(fields, query) # <<>>
  PROVE  /\ LeavesAre(ProofOf(version, fields, query), fields, Chosen(fields, query))
         /\ ToSet(Answered(ProofOf(version, fields, query))) = Found(fields, query)
<1> DEFINE p == ProofOf(version, fields, query)
           c == Chosen(fields, query)
           n == Len(fields)
           m == Len(c)
           ls == p.leaves
<1>1. ProofHas(p, version, fields, c)
  BY ProofPieces
<1>2. ChosenOK(c, fields, query) /\ c # << >>
  BY ChosenFacts
<1> HIDE DEF p, c
<1>3. /\ p.schema_version = version /\ p.field_count = n
      /\ ls = [k \in 1..m |-> [index |-> c[k] - 1, field |-> fields[c[k]]]]
  BY <1>1 DEF ProofHas
<1>4. /\ m \in Nat /\ m > 0
      /\ \A k \in 1..m : c[k] \in 1..n /\ fields[c[k]][1] \in query
      /\ \A i \in 1..n : fields[i][1] \in query => \E k \in 1..m : c[k] = i
      /\ \A k, l \in 1..m : k < l => c[k] < c[l]
  BY <1>2 DEF ChosenOK
<1>5. n \in Nat /\ \A i \in 1..n : fields[i] \in Fields /\ fields[i][1] \in Nat
  <2>1. \A i \in 1..n : fields[i] \in Fields
    BY ElementOfSeq
  <2>2. QED
    BY <2>1, LenProperties, FieldTypes
<1>6. \A i, j \in 1..n : i < j => fields[i][1] < fields[j][1]
  BY IdsOrdered
<1> HIDE DEF n, m, ls
<1>7. /\ ls \in Seq([index : Nat, field : Fields]) /\ Len(ls) = m
      /\ \A k \in 1..m : ls[k].index = c[k] - 1 /\ ls[k].field = fields[c[k]]
  <2>1. \A k \in 1..m : c[k] - 1 \in Nat /\ fields[c[k]] \in Fields
    BY <1>4, <1>5
  <2>2. ls \in [1..m -> [index : Nat, field : Fields]]
    BY <1>3, <2>1
  <2>3. ls \in Seq([index : Nat, field : Fields]) /\ Len(ls) = m
    <3>1. PICK R : R = [index : Nat, field : Fields]
      OBVIOUS
    <3>2. ls \in [1..m -> R] /\ m \in Nat
      BY <1>4, <2>2, <3>1
    <3>3. ls \in Seq(R) /\ Len(ls) = m
      BY <3>2
    <3>4. QED
      BY <3>1, <3>3
  <2>4. ASSUME NEW k \in 1..m PROVE ls[k].index = c[k] - 1 /\ ls[k].field = fields[c[k]]
    BY <1>3
  <2>5. QED
    BY <2>3, <2>4
<1>8. ProofTyped(p)
  <2>1. p.schema_version \in Nat /\ p.field_count \in Nat
    BY <1>3, <1>5
  <2>2. QED
    BY <1>7, <2>1 DEF ProofTyped, ls
<1>9. ls # << >>
  <2>1. Len(<< >>) = 0
    BY EmptySeq
  <2>2. QED
    BY <1>4, <1>7, <2>1
<1>10. ASSUME NEW k \in 1..m PROVE ls[k].index \in 0..(n - 1)
  <2>1. c[k] \in 1..n /\ ls[k].index = c[k] - 1
    BY <1>4, <1>7
  <2>2. QED
    BY <1>5, <2>1
<1>11. Increasing([i \in 1..Len(ls) |-> ls[i].index])
  <2> DEFINE a == [i \in 1..Len(ls) |-> ls[i].index]
  <2>1. a = [i \in 1..m |-> c[i] - 1]
    BY <1>7
  <2> HIDE DEF a
  <2>2. Len(a) = m
    <3>1. a \in [1..m -> Nat]
      BY <1>4, <2>1
    <3>2. QED
      BY <1>4, <3>1
  <2>3. ASSUME NEW i \in 1..(Len(a) - 1) PROVE a[i] < a[i + 1]
    <3>1. i \in 1..m /\ i + 1 \in 1..m /\ i < i + 1
      BY <1>4, <2>2
    <3>2. c[i] < c[i + 1] /\ c[i] \in Nat /\ c[i + 1] \in Nat
      BY <1>4, <3>1
    <3>3. a[i] = c[i] - 1 /\ a[i + 1] = c[i + 1] - 1
      BY <2>1, <3>1
    <3>4. QED
      BY <3>2, <3>3
  <2>4. Increasing(a)
    BY <2>3 DEF Increasing
  <2>5. QED
    BY <2>4 DEF a
<1>12. Increasing([i \in 1..Len(ls) |-> ls[i].field[1]])
  <2> DEFINE a == [i \in 1..Len(ls) |-> ls[i].field[1]]
  <2>1. a = [i \in 1..m |-> fields[c[i]][1]]
    BY <1>7
  <2> HIDE DEF a
  <2>2. Len(a) = m
    <3>1. \A i \in 1..m : fields[c[i]][1] \in Nat
      BY <1>4, <1>5
    <3>2. a \in [1..m -> Nat]
      BY <2>1, <3>1
    <3>3. QED
      BY <1>4, <3>2
  <2>3. ASSUME NEW i \in 1..(Len(a) - 1) PROVE a[i] < a[i + 1]
    <3>1. i \in 1..m /\ i + 1 \in 1..m /\ i < i + 1
      BY <1>4, <2>2
    <3>2. c[i] < c[i + 1] /\ c[i] \in 1..n /\ c[i + 1] \in 1..n
      BY <1>4, <3>1
    <3>3. a[i] = fields[c[i]][1] /\ a[i + 1] = fields[c[i + 1]][1]
      BY <2>1, <3>1
    <3>4. QED
      BY <1>6, <3>2, <3>3
  <2>4. Increasing(a)
    BY <2>3 DEF Increasing
  <2>5. QED
    BY <2>4 DEF a
<1>13. ToSet(Answered(p)) = Found(fields, query)
  <2>1. ToSet(Answered(p)) = {ls[i].field : i \in 1..m}
    BY <1>7, <1>8, AnsweredFacts DEF ls
  <2>2. ToSet(fields) = {fields[i] : i \in 1..n}
    BY FieldSets DEF FieldSet, n
  <2>3. ASSUME NEW i \in 1..m PROVE ls[i].field \in Found(fields, query)
    <3>1. ls[i].field = fields[c[i]] /\ c[i] \in 1..n /\ fields[c[i]][1] \in query
      BY <1>4, <1>7
    <3>2. QED
      BY <2>2, <3>1 DEF Found
  <2>4. ASSUME NEW f \in Found(fields, query) PROVE \E i \in 1..m : f = ls[i].field
    <3>1. PICK i \in 1..n : f = fields[i] /\ f[1] \in query
      BY <2>2 DEF Found
    <3>2. PICK k \in 1..m : c[k] = i
      BY <1>4, <3>1
    <3>3. ls[k].field = f
      BY <1>7, <3>1, <3>2
    <3>4. QED
      BY <3>3
  <2>5. QED
    BY <2>1, <2>3, <2>4
<1>14. QED
  <2>1. LeavesAre(p, fields, c)
    BY <1>4, <1>7, <1>8, <1>9, <1>10, <1>11, <1>12 DEF LeavesAre, ls, n, m
  <2>2. QED
    BY <1>13, <2>1 DEF p, c

(* If nothing is chosen, nothing that is asked for is there. *)
LEMMA NothingFound ==
  ASSUME NEW fields \in Seq(Fields), NEW query, Chosen(fields, query) = <<>>
  PROVE  Found(fields, query) = {}
<1> DEFINE c == Chosen(fields, query)
<1>1. /\ Len(c) = 0
      /\ \A i \in 1..Len(fields) : fields[i][1] \in query => \E k \in 1..Len(c) : c[k] = i
  BY ChosenFacts DEF ChosenOK
<1> HIDE DEF c
<1>2. ToSet(fields) = {fields[i] : i \in 1..Len(fields)}
  BY FieldSets DEF FieldSet
<1>3. ASSUME NEW f \in Found(fields, query) PROVE FALSE
  <2>1. PICK i \in 1..Len(fields) : f = fields[i] /\ f[1] \in query
    BY <1>2 DEF Found
  <2>2. QED
    BY <1>1, <2>1
<1>4. QED
  BY <1>3

(***************************************************************************)
(* The proof of a record recomputes to the root of the record.              *)
(***************************************************************************)
LEMMA ProofRecomputes ==
  ASSUME NEW version \in Nat, NEW fields \in Seq(Fields), Increasing(FieldIds(fields)), NEW query,
         Chosen(fields, query) # <<>>
  PROVE  RecomputeProofRoot(ProofOf(version, fields, query)) = <<RootOf(version, fields)>>
<1> DEFINE p == ProofOf(version, fields, query)
           c == Chosen(fields, query)
           n == Len(fields)
           m == Len(c)
           t == Tree(fields)
           h == Levels(n)
           l == LeafCount(n)
           nodes == {l + c[k] - 1 : k \in 1..m}
           s == AggregateSiblings(t, h, nodes)
           first == LeafHashes(p)
<1>1. ProofHas(p, version, fields, c) /\ LeavesAre(p, fields, c) /\ ChosenOK(c, fields, query)
  BY ProofPieces, ProofLeaves, ChosenFacts
<1> HIDE DEF p, c
<1>2. /\ p.schema_version = version /\ p.field_count = n
      /\ p.siblings = s
  BY <1>1 DEF ProofHas
<1>3. /\ ProofTyped(p)
      /\ p.leaves # << >>
      /\ Len(p.leaves) = m /\ m \in Nat /\ m > 0
      /\ \A k \in 1..m : /\ p.leaves[k].index = c[k] - 1
                         /\ p.leaves[k].index \in 0..(n - 1)
                         /\ p.leaves[k].field = fields[c[k]]
      /\ Increasing([i \in 1..Len(p.leaves) |-> p.leaves[i].index])
      /\ Increasing([i \in 1..Len(p.leaves) |-> p.leaves[i].field[1]])
  BY <1>1 DEF LeavesAre
<1>4. n \in Nat /\ l \in Nat /\ h \in Nat /\ \A k \in 1..m : c[k] \in 1..n
  <2>1. n \in Nat
    BY LenProperties
  <2>2. l \in Nat /\ h \in Nat
    BY <2>1, LevelsFacts
  <2>3. QED
    BY <1>1, <2>1, <2>2 DEF ChosenOK
<1>5. nodes \subseteq Row(h) /\ nodes # {}
  <2>1. ASSUME NEW k \in 1..m PROVE l + c[k] - 1 \in Row(h)
    <3>1. c[k] - 1 \in 0..(n - 1) /\ l + (c[k] - 1) = l + c[k] - 1
      BY <1>4
    <3>2. l + (c[k] - 1) \in Row(h)
      BY <1>4, <3>1, LeafRow
    <3>3. QED
      BY <3>1, <3>2
  <2>2. 1 \in 1..m
    BY <1>3
  <2>3. QED
    BY <2>1, <2>2
<1> HIDE DEF m, s, first, n, t, h, l
<1>6. /\ s \in Seq(Siblings(t))
      /\ EachOnce(s)
      /\ \E fr : Climb(fr, nodes, s, h)
  <2>1. h \in Nat /\ nodes \subseteq Row(h) /\ nodes # {}
    BY <1>4, <1>5
  <2>2. s = AggregateSiblings(t, h, nodes)
    BY DEF s
  <2> HIDE DEF nodes
  <2>3. QED
    BY <2>1, <2>2, Gathered
<1>7. CanonicalProof(p)
  <2>1. ASSUME NEW i \in 1..Len(p.leaves) PROVE p.leaves[i].index < p.field_count
    <3>1. p.leaves[i].index \in 0..(n - 1)
      BY <1>3
    <3>2. QED
      BY <1>2, <1>4, <3>1
  <2>2. \A i, j \in 1..Len(p.siblings) : p.siblings[i].index = p.siblings[j].index => i = j
    BY <1>2, <1>6 DEF EachOnce
  <2>3. QED
    BY <1>3, <2>1, <2>2 DEF CanonicalProof
<1>8. /\ DOMAIN first = {l + p.leaves[i].index : i \in 1..Len(p.leaves)}
      /\ DOMAIN first \subseteq Row(h)
      /\ \A i \in 1..Len(p.leaves) : first[l + p.leaves[i].index] = FieldHash(p.leaves[i].field)
  <2>1. LeafCount(p.field_count) = l /\ Levels(p.field_count) = h /\ LeafHashes(p) = first
    BY <1>2 DEF l, h, first
  <2>2. /\ DOMAIN LeafHashes(p) =
              {LeafCount(p.field_count) + p.leaves[i].index : i \in 1..Len(p.leaves)}
        /\ DOMAIN LeafHashes(p) \subseteq Row(Levels(p.field_count))
        /\ \A i \in 1..Len(p.leaves) :
             LeafHashes(p)[LeafCount(p.field_count) + p.leaves[i].index] =
               FieldHash(p.leaves[i].field)
    BY <1>3, <1>7, LeafHashesFacts DEF CanonicalProof
  <2>3. QED
    BY <2>1, <2>2
<1>9. ASSUME NEW k \in 1..m PROVE l + p.leaves[k].index = l + c[k] - 1
  <2>1. p.leaves[k].index = c[k] - 1 /\ c[k] \in 1..n
    BY <1>3, <1>4
  <2>2. QED
    BY <1>4, <2>1
<1>10. DOMAIN first = nodes
  <2>1. {l + p.leaves[i].index : i \in 1..m} = {l + c[i] - 1 : i \in 1..m}
    BY <1>9
  <2>2. QED
    BY <1>3, <1>8, <2>1
<1>11. Agrees(first, t)
  <2>1. ASSUME NEW k \in 1..m PROVE first[l + c[k] - 1] = t[l + c[k] - 1]
    <3>1. PICK i : i = l + c[k] - 1
      OBVIOUS
    <3>2. first[i] = FieldHash(fields[c[k]])
      BY <1>3, <1>8, <1>9, <3>1
    <3>3. c[k] \in 1..n /\ c[k] \in Nat /\ l \in Nat
      BY <1>4
    <3>4. i \in Row(h) /\ i - l + 1 = c[k] /\ c[k] \in 1..n
      BY <1>5, <3>3, <3>1
    <3>5. t[i] = LeafAt(fields, i)
      BY <3>4, TreeFacts DEF t, h, n
    <3>6. i - LeafCount(Len(fields)) + 1 = c[k] /\ c[k] <= Len(fields)
      BY <1>4, <3>4 DEF l, n
    <3>7. LeafAt(fields, i) = FieldHash(fields[c[k]])
      BY <3>4, <3>6, LeafFacts DEF h, n
    <3>8. QED
      BY <3>1, <3>2, <3>5, <3>7
  <2>2. QED
    BY <1>10, <2>1 DEF Agrees
<1> HIDE DEF nodes
<1>12. /\ DOMAIN SiblingHashes(p) = Indices(s)
       /\ Agrees(SiblingHashes(p), t)
  BY <1>2, <1>6, SiblingHashesFacts
<1> DEFINE top == CombineFrontier(first, SiblingHashes(p), h)
<1>13. 1 \in DOMAIN top /\ top[1] = t[1]
  <2>1. PICK fr : Climb(fr, nodes, s, h)
    BY <1>6
  <2>2. PICK siblings : siblings = SiblingHashes(p)
    OBVIOUS
  <2>3. DOMAIN siblings = Indices(s) /\ Agrees(siblings, Tree(fields))
    BY <1>12, <2>2 DEF t
  <2>4. DOMAIN first = nodes /\ Agrees(first, Tree(fields))
    BY <1>10, <1>11 DEF t
  <2>5. Climb(fr, nodes, s, Levels(Len(fields)))
    BY <2>1 DEF h, n
  <2>6. LET u == CombineFrontier(first, siblings, Levels(Len(fields)))
        IN  1 \in DOMAIN u /\ u[1] = Tree(fields)[1]
    BY <2>3, <2>4, <2>5, ClimbCombines
  <2>7. QED
    BY <2>2, <2>6 DEF t, h, n
<1> HIDE DEF top
<1>14. RecomputeProofRoot(p) = IF CanonicalProof(p) /\ 1 \in DOMAIN top
                               THEN <<SchemaRoot(p.schema_version, top[1])>> ELSE <<>>
  <2>1. top = CombineFrontier(LeafHashes(p), SiblingHashes(p), Levels(p.field_count))
    BY <1>2 DEF top, first, h
  <2>2. QED
    BY <2>1 DEF RecomputeProofRoot
<1>15. RecomputeProofRoot(p) = <<SchemaRoot(version, t[1])>>
  BY <1>2, <1>7, <1>13, <1>14
<1>16. QED
  BY <1>15 DEF p, t, RootOf

(* The proof of any record has the types of a proof. *)
LEMMA ProofIsTyped ==
  ASSUME NEW version \in Nat, NEW fields \in Seq(Fields), NEW query
  PROVE  LET p == ProofOf(version, fields, query)
         IN  \/ p = NoProof("InvalidQuery")
             \/ p.error = "none" /\ ProofTyped(p) /\ ProofWhole(p)
                /\ p.claimed_root = RootOf(version, fields)
<1> DEFINE p == ProofOf(version, fields, query)
           c == Chosen(fields, query)
           ls == p.leaves
           n == Len(fields)
           m == Len(c)
<1>1. CASE c = <<>>
  BY <1>1, NothingChosen
<1>2. CASE c # <<>>
  <2>1. ProofHas(p, version, fields, c)
    BY <1>2, ProofPieces
  <2>2. ChosenOK(c, fields, query)
    BY ChosenFacts
  <2>3. ProofWhole(p)
    BY <1>2 DEF ProofOf, Chosen, ProofWhole, ProofParts
  <2> HIDE DEF p, c
  <2>4. n \in Nat /\ \A i \in 1..n : fields[i] \in Fields
    BY ElementOfSeq, LenProperties
  <2>5. m \in Nat /\ \A k \in 1..m : c[k] \in 1..n
    BY <2>2 DEF ChosenOK
  <2>6. /\ ls = [k \in 1..m |-> [index |-> c[k] - 1, field |-> fields[c[k]]]]
        /\ p.schema_version = version /\ p.field_count = n /\ p.error = "none"
        /\ p.claimed_root = RootOf(version, fields)
    BY <2>1 DEF ProofHas
  <2> HIDE DEF n, m, ls
  <2>7. \A k \in 1..m : c[k] - 1 \in Nat /\ fields[c[k]] \in Fields
    BY <2>4, <2>5
  <2>8. ls \in [1..m -> [index : Nat, field : Fields]]
    BY <2>6, <2>7
  <2>9. PICK R : R = [index : Nat, field : Fields]
    OBVIOUS
  <2>10. ls \in [1..m -> R]
    BY <2>8, <2>9
  <2>11. ls \in Seq(R)
    BY <2>5, <2>10
  <2>12. ls \in Seq([index : Nat, field : Fields])
    BY <2>9, <2>11
  <2>13. ProofTyped(p)
    BY <2>4, <2>6, <2>12 DEF ProofTyped, ls
  <2>14. QED
    BY <2>3, <2>6, <2>13 DEF p
<1>3. QED
  BY <1>1, <1>2

Leaf == [index : Nat, field : Fields]

(* a sequence that lost one element *)
LEMMA WithoutFacts ==
  ASSUME NEW S, NEW s \in Seq(S), NEW i \in 1..Len(s)
  PROVE  Without(s, i) \in Seq(S)
<1> DEFINE n == Len(s)
<1>1. n \in Nat /\ i \in Nat /\ i >= 1 /\ i <= n
  BY LenProperties
<1>2. \A j \in 1..n : s[j] \in S
  BY ElementOfSeq
<1> HIDE DEF n
<1>3. (\A j \in 1..(i - 1) : j \in 1..n) /\ (\A j \in (i + 1)..n : j \in 1..n)
  BY <1>1
<1>4. SubSeq(s, 1, i - 1) \in Seq(S)
  <2>1. \A j \in 1..(i - 1) : s[j] \in S
    BY <1>2, <1>3
  <2>2. 1 \in Int /\ i - 1 \in Int
    BY <1>1
  <2>3. QED
    BY <2>1, <2>2, SubSeqProperties
<1>5. SubSeq(s, i + 1, n) \in Seq(S)
  <2>1. \A j \in (i + 1)..n : s[j] \in S
    BY <1>2, <1>3
  <2>2. i + 1 \in Int /\ n \in Int
    BY <1>1
  <2>3. QED
    BY <2>1, <2>2, SubSeqProperties
<1>6. QED
  BY <1>4, <1>5, ConcatProperties DEF Without, n

(* a field with another id or with a longer payload *)
LEMMA FieldAltered ==
  \A f \in Fields, n \in Nat : /\ [f EXCEPT ![1] = n] \in Fields
                               /\ [f EXCEPT ![2] = Append(@, n)] \in Fields
<1>1. ASSUME NEW a \in Nat, NEW b \in Seq(Nat), NEW n \in Nat
      PROVE  /\ [<<a, b>> EXCEPT ![1] = n] \in Fields
             /\ [<<a, b>> EXCEPT ![2] = Append(@, n)] \in Fields
  <2>1. [<<a, b>> EXCEPT ![1] = n] = <<n, b>>
    OBVIOUS
  <2>2. [<<a, b>> EXCEPT ![2] = Append(@, n)] = <<a, Append(b, n)>>
    OBVIOUS
  <2>3. Append(b, n) \in Seq(Nat)
    BY AppendProperties
  <2>4. <<n, b>> \in Fields
    BY DEF Fields
  <2>5. <<a, Append(b, n)>> \in Fields
    BY <2>3 DEF Fields
  <2>6. QED
    BY <2>1, <2>2, <2>4, <2>5
<1>2. \A f \in Fields : \E a \in Nat, b \in Seq(Nat) : f = <<a, b>>
  BY DEF Fields
<1>3. QED
  BY <1>1, <1>2

(* Leaves that the transport changed are leaves. *)
LEMMA AlteredLeavesFacts ==
  ASSUME NEW ls \in Seq(Leaf), NEW ks \in AlteredLeaves(ls)
  PROVE  ks \in Seq(Leaf)
<1> DEFINE at == 1..Len(ls)
<1>1. \A i \in at : ls[i] \in Leaf
  BY ElementOfSeq
<1>2. ASSUME NEW i \in at, NEW l \in Leaf, ks = [ls EXCEPT ![i] = l] PROVE ks \in Seq(Leaf)
  BY <1>2, ExceptSeq
<1>3. ASSUME NEW i \in at
      PROVE  /\ ls[i].index \in Nat /\ ls[i].field \in Fields
             /\ ls[i] = [index |-> ls[i].index, field |-> ls[i].field]
             /\ ls[i].field[1] \in Nat /\ ls[i].field[2] \in Seq(Nat)
             /\ ls[i].field = <<ls[i].field[1], ls[i].field[2]>>
  BY SMTT(30), <1>1 DEF Leaf, Fields
<1>4. \/ \E i \in at, n \in Misreads : ks = [ls EXCEPT ![i].index = n]
      \/ \E i \in at, n \in Misreads : ks = [ls EXCEPT ![i].field[1] = n]
      \/ \E i \in at, n \in Misreads : ks = [ls EXCEPT ![i].field[2] = Append(@, n)]
      \/ \E i \in at : ks = Without(ls, i)
  BY DEF AlteredLeaves
<1>5. \A n \in Misreads : n \in Nat
  BY MisreadsAssumption
<1>6. ASSUME NEW i \in at, NEW n \in Misreads, ks = [ls EXCEPT ![i].index = n]
      PROVE  ks \in Seq(Leaf)
  <2>1. [ls[i] EXCEPT !.index = n] \in Leaf
    BY <1>1, <1>5 DEF Leaf
  <2>2. QED
    BY <1>2, <1>6, <2>1
<1>7. ASSUME NEW i \in at, NEW n \in Misreads, ks = [ls EXCEPT ![i].field[1] = n]
      PROVE  ks \in Seq(Leaf)
  <2>1. [ls[i].field EXCEPT ![1] = n] \in Fields
    BY <1>3, <1>5, FieldAltered
  <2>2. [ls[i] EXCEPT !.field[1] = n] \in Leaf
    BY <1>1, <2>1 DEF Leaf
  <2>3. QED
    BY <1>2, <1>7, <2>2
<1>8. ASSUME NEW i \in at, NEW n \in Misreads, ks = [ls EXCEPT ![i].field[2] = Append(@, n)]
      PROVE  ks \in Seq(Leaf)
  <2>1. [ls[i].field EXCEPT ![2] = Append(@, n)] \in Fields
    BY <1>3, <1>5, FieldAltered
  <2>2. [ls[i] EXCEPT !.field[2] = Append(@, n)] \in Leaf
    BY <1>1, <2>1 DEF Leaf
  <2>3. QED
    BY <1>2, <1>8, <2>2
<1>9. QED
  BY <1>4, <1>6, <1>7, <1>8, WithoutFacts

(* A proof that the transport changed has the types of a proof. *)
LEMMA AlteredFacts ==
  ASSUME NEW p, p.error = "none", ProofTyped(p), ProofWhole(p), NEW q \in AlteredProofs(p)
  PROVE  /\ q.error = "none" /\ ProofTyped(q) /\ ProofWhole(q)
         /\ q.claimed_root \in {p.claimed_root, <<"damaged">>}
<1>1. \/ \E n \in Misreads : q = [p EXCEPT !.schema_version = n]
      \/ \E n \in Misreads : q = [p EXCEPT !.field_count = n]
      \/ q = [p EXCEPT !.claimed_root = <<"damaged">>]
      \/ \E ls \in AlteredLeaves(p.leaves) : q = [p EXCEPT !.leaves = ls]
      \/ \E ss \in AlteredSiblings(p.siblings) : q = [p EXCEPT !.siblings = ss]
  BY DEF AlteredProofs
<1>2. /\ p.schema_version \in Nat /\ p.field_count \in Nat /\ p.leaves \in Seq(Leaf)
      /\ DOMAIN p = ProofParts
  BY DEF ProofTyped, ProofWhole, Leaf
<1>3. /\ \A n \in Misreads : n \in Nat
      /\ \A ls \in AlteredLeaves(p.leaves) : ls \in Seq(Leaf)
  BY <1>2, MisreadsAssumption, AlteredLeavesFacts
<1>4. /\ q.error = "none" /\ q.schema_version \in Nat /\ q.field_count \in Nat
      /\ q.leaves \in Seq(Leaf) /\ DOMAIN q = ProofParts
      /\ q.claimed_root \in {p.claimed_root, <<"damaged">>}
  BY <1>1, <1>2, <1>3 DEF ProofParts
<1>5. QED
  BY <1>4 DEF ProofTyped, ProofWhole, Leaf

(* Fields whose ids ascend, and one with a greater id. *)
LEMMA IncreasingMore ==
  ASSUME NEW s \in Seq(Fields), NEW f \in Fields, Increasing(FieldIds(s)),
         s # <<>> => f[1] > Last(s)[1]
  PROVE  Increasing(FieldIds(Append(s, f)))
<1> DEFINE n == Len(s)
           t == Append(s, f)
<1>1. n \in Nat
  BY LenProperties
<1>2. Len(t) = n + 1 /\ t[n + 1] = f /\ \A i \in 1..n : t[i] = s[i]
  BY AppendProperties
<1>3. n > 0 => f[1] > s[n][1]
  <2>1. s # <<>> <=> n > 0
    BY EmptySeq
  <2>2. Last(s) = s[n]
    BY DEF Last
  <2>3. QED
    BY <2>1, <2>2
<1> DEFINE a == FieldIds(s)
           b == FieldIds(t)
<1>4. \A i \in 1..n : a[i] = s[i][1]
  BY DEF FieldIds
<1>5. \A i \in 1..(n + 1) : b[i] = t[i][1]
  BY <1>2 DEF FieldIds
<1>6. Len(a) = n /\ Len(b) = n + 1
  <2>1. a = [i \in 1..n |-> s[i][1]]
    BY DEF FieldIds
  <2>2. b = [i \in 1..(n + 1) |-> t[i][1]]
    BY <1>2 DEF FieldIds
  <2> HIDE DEF a, b, n, t
  <2>3. n + 1 \in Nat
    BY <1>1
  <2>4. QED
    BY <1>1, <2>1, <2>2, <2>3
<1>7. \A i \in 1..(n - 1) : a[i] < a[i + 1]
  BY <1>6 DEF Increasing
<1> HIDE DEF a, b, n, t
<1>8. ASSUME NEW i \in 1..n PROVE b[i] < b[i + 1]
  <2>1. i \in 1..(n + 1) /\ i + 1 \in 1..(n + 1) /\ (i = n \/ (i \in 1..(n - 1) /\ i + 1 \in 1..n))
    BY <1>1
  <2>2. b[i] = s[i][1] /\ b[i + 1] = t[i + 1][1]
    BY <1>2, <1>5, <2>1
  <2>3. CASE i = n
    BY <1>1, <1>2, <1>3, <2>2, <2>3
  <2>4. CASE i \in 1..(n - 1) /\ i + 1 \in 1..n
    <3>1. a[i] < a[i + 1] /\ a[i] = s[i][1] /\ a[i + 1] = s[i + 1][1] /\ t[i + 1] = s[i + 1]
      BY <1>2, <1>4, <1>7, <2>4
    <3>2. QED
      BY <2>2, <3>1
  <2>5. QED
    BY <2>1, <2>3, <2>4
<1>9. Len(b) - 1 = n
  BY <1>1, <1>6
<1>10. QED
  BY <1>8, <1>9 DEF Increasing, b, t

(* a payload that fits when the ones before it do *)
LEMMA PayloadsMore ==
  ASSUME NEW s \in Seq(Fields), NEW f \in Fields, NEW m,
         \A i \in 1..Len(s) : Len(s[i][2]) <= m, Len(f[2]) <= m
  PROVE  \A i \in 1..Len(Append(s, f)) : Len(Append(s, f)[i][2]) <= m
<1> DEFINE n == Len(s)
           t == Append(s, f)
<1>1. n \in Nat
  BY LenProperties
<1>2. Len(t) = n + 1 /\ t[n + 1] = f /\ \A i \in 1..n : t[i] = s[i]
  BY AppendProperties
<1>3. \A i \in 1..n : Size(s[i]) <= m
  BY DEF Size
<1>4. Size(f) <= m
  BY DEF Size
<1> HIDE DEF n, t
<1>5. ASSUME NEW i \in 1..(n + 1) PROVE Size(t[i]) <= m
  <2>1. i = n + 1 \/ i \in 1..n
    BY <1>1
  <2>2. QED
    BY <1>2, <1>3, <1>4, <2>1
<1>6. QED
  BY <1>2, <1>5 DEF Size, t

(* RecordBuilder::insert keeps the builder's promises. *)
LEMMA InsertKeeps ==
  ASSUME NEW b, BuilderOK(b), NEW f \in Fields,
         b.fields # <<>> => f[1] > Last(b.fields)[1],
         Len(b.fields) + 1 <= b.limits.max_fields,
         Len(f[2]) <= b.limits.max_payload_len,
         b.encoded_len + Contribution(f[2]) <= b.limits.max_record_len,
         NEW g, g = [b EXCEPT !.fields = Append(@, f),
                              !.encoded_len = b.encoded_len + Contribution(f[2])]
  PROVE  BuilderOK(g)
<1> DEFINE s == b.fields
           t == Append(s, f)
           e == b.encoded_len + Contribution(f[2])
<1>1. b \in [schema_version : Nat, limits : RecordLimits, fields : Seq(Fields), encoded_len : Nat]
  BY DEF BuilderOK
<1>2. /\ b.schema_version \in Nat /\ b.limits \in RecordLimits /\ s \in Seq(Fields)
      /\ b.encoded_len \in Nat
  BY <1>1
<1>3. Size(f) \in Nat /\ e = b.encoded_len + (Size(f) + 2)
  BY FieldTypes DEF Contribution, Size
<1>4. /\ Increasing(FieldIds(s))
      /\ b.encoded_len = RECORD_HEADER + AUTH_LEN + Len(FieldCells(s))
      /\ \A i \in 1..Len(s) : Len(s[i][2]) <= b.limits.max_payload_len
  BY DEF BuilderOK
<1>5. /\ e <= b.limits.max_record_len /\ Len(f[2]) <= b.limits.max_payload_len
      /\ Len(s) + 1 <= b.limits.max_fields /\ (s # <<>> => f[1] > Last(s)[1])
  OBVIOUS
<1>6. t \in Seq(Fields) /\ Len(t) = Len(s) + 1
  BY <1>2, AppendProperties
<1>7. g = [b EXCEPT !.fields = t, !.encoded_len = e]
  OBVIOUS
<1> HIDE DEF t, e
<1>8. e \in Nat
  BY <1>2, <1>3
<1>9. g \in [schema_version : Nat, limits : RecordLimits, fields : Seq(Fields), encoded_len : Nat]
  BY <1>1, <1>6, <1>7, <1>8
<1>10. g.fields = t /\ g.encoded_len = e /\ g.limits = b.limits
  BY <1>1, <1>7
<1>11. Increasing(FieldIds(t))
  BY <1>2, <1>4, <1>5, IncreasingMore DEF t
<1>12. e = RECORD_HEADER + AUTH_LEN + Len(FieldCells(t))
  <2>1. PICK c : c = FieldCells(s)
    OBVIOUS
  <2>2. c \in Seq(Nat) /\ FieldCells(t) = Added(c, f)
    BY <1>2, <2>1, CellsAppend DEF t
  <2>3. Len(FieldCells(t)) = Len(c) + 2 + Size(f)
    BY <2>2, AddedFacts
  <2>4. Len(c) \in Nat
    BY <2>2, LenProperties
  <2>5. QED
    BY <1>3, <1>4, <2>1, <2>3, <2>4 DEF RECORD_HEADER, AUTH_LEN
<1>13. \A i \in 1..Len(t) : Len(t[i][2]) <= b.limits.max_payload_len
  BY <1>2, <1>4, <1>5, PayloadsMore DEF t
<1>14. QED
  BY <1>5, <1>6, <1>9, <1>10, <1>11, <1>12, <1>13 DEF BuilderOK, e

(* the parts of a builder by their types *)
LEMMA BuilderTypes ==
  ASSUME BuilderOK(builder)
  PROVE  /\ builder.schema_version \in Nat
         /\ builder.fields \in Seq(Fields)
         /\ builder.limits \in RecordLimits
         /\ Increasing(FieldIds(builder.fields))
BY DEF BuilderOK

(* Nobody has looked at a proof that is not there. *)
LEMMA NoProofWaits ==
  ASSUME VerdictOK, witness.error # "none"
  PROVE  verdict.status = "waiting"
BY DEF VerdictOK

(* What depends on the builder alone stays when it stays. *)
LEMMA BuilderStays ==
  ASSUME builder' = builder
  PROVE  Anchor' = Anchor /\ Honest' = Honest
BY DEF Anchor, Honest

(* A missing proof says why; a stored record is the builder's. *)
LEMMA Missing ==
  /\ NoProof("not yet").error # "none"
  /\ NoProof("RecordLimit").error # "none"
  /\ NoProof("InvalidQuery").error # "none"
BY DEF NoProof

(* An unharmed record is the builder's. *)
LEMMA StoredRecord ==
  ASSUME RecordOK, record # <<>>, harm = "nothing"
  PROVE  record[1] = Honest
<1>1. record = <<Honest>>
  BY DEF RecordOK
<1>2. PICK h : h = Honest
  OBVIOUS
<1>3. record = <<h>>
  BY <1>1, <1>2
<1>4. record[1] = h
  BY <1>3
<1>5. QED
  BY <1>2, <1>4

(* Init establishes the invariant. *)
LEMMA ProjectionStart ==
  ASSUME ProjectionInit
  PROVE  ProjectionInv
<1>1. PICK version \in SchemaVersions, limits \in RecordLimits :
        builder = [schema_version |-> version, limits |-> limits, fields |-> <<>>,
                   encoded_len |-> RECORD_HEADER + AUTH_LEN]
  BY DEF ProjectionInit
<1>2. /\ record = <<>> /\ harm = "nothing" /\ witness = NoProof("not yet")
      /\ verdict.status = "waiting"
  BY DEF ProjectionInit
<1>3. BuilderOK(builder)
  <2>1. version \in Nat /\ limits.max_fields \in Nat
    BY SchemaVersionsAssumption, RecordLimitsAssumption
  <2>2. <<>> \in Seq(Fields) /\ Len(<<>>) = 0
    BY EmptySeq
  <2>3. RECORD_HEADER + AUTH_LEN = 4
    BY DEF RECORD_HEADER, AUTH_LEN
  <2>4. builder \in [schema_version : Nat, limits : RecordLimits, fields : Seq(Fields),
                     encoded_len : Nat]
    BY <1>1, <2>1, <2>2, <2>3
  <2>5. Increasing(FieldIds(<<>>))
    <3>1. FieldIds(<<>>) = <<>>
      BY <2>2 DEF FieldIds
    <3>2. QED
      BY <2>2, <3>1 DEF Increasing
  <2>6. /\ builder.fields = <<>> /\ builder.limits = limits /\ builder.encoded_len = 4
        /\ Len(FieldCells(<<>>)) = 0
    BY <1>1, <2>2, <2>3, NoCells
  <2>7. QED
    BY <2>1, <2>2, <2>3, <2>4, <2>5, <2>6 DEF BuilderOK
<1>4. RecordOK /\ WitnessOK /\ VerdictOK
  BY <1>2 DEF RecordOK, WitnessOK, VerdictOK, NoProof
<1>5. QED
  BY <1>3, <1>4 DEF ProjectionInv

(* RecordBuilder::insert *)
LEMMA InsertStep ==
  ASSUME ProjectionInv, NEW f \in RecordFields, InsertField(f[1], f[2])
  PROVE  ProjectionInv'
<1>1. BuilderOK(builder) /\ RecordOK /\ WitnessOK /\ VerdictOK
  BY DEF ProjectionInv
<1>2. record = <<>> /\ UNCHANGED <<record, harm, asked, witness, verdict>>
  BY DEF InsertField
<1>3. harm = "nothing" /\ witness = NoProof("not yet")
  BY <1>1, <1>2 DEF RecordOK
<1>4. verdict.status = "waiting"
  BY <1>1, <1>3, NoProofWaits DEF NoProof
<1>5. BuilderOK(builder')
  <2>1. f \in Fields /\ f = <<f[1], f[2]>>
    BY RecordFieldsAssumption DEF Fields
  <2>2. /\ builder.fields # <<>> => f[1] > Last(builder.fields)[1]
        /\ Len(builder.fields) + 1 <= builder.limits.max_fields
        /\ Len(f[2]) <= builder.limits.max_payload_len
        /\ builder.encoded_len + Contribution(f[2]) <= builder.limits.max_record_len
        /\ builder' = [builder EXCEPT !.fields = Append(@, <<f[1], f[2]>>),
                                      !.encoded_len = builder.encoded_len + Contribution(f[2])]
    BY DEF InsertField
  <2>3. builder' = [builder EXCEPT !.fields = Append(@, f),
                                   !.encoded_len = builder.encoded_len + Contribution(f[2])]
    BY <2>1, <2>2
  <2>4. QED
    BY <1>1, <2>1, <2>2, <2>3, InsertKeeps
<1>6. RecordOK' /\ WitnessOK' /\ VerdictOK'
  BY <1>2, <1>3, <1>4 DEF RecordOK, WitnessOK, VerdictOK, NoProof
<1>7. QED
  BY <1>5, <1>6 DEF ProjectionInv

(* RecordBuilder::finish *)
LEMMA FinishStep ==
  ASSUME ProjectionInv, FinishRecord
  PROVE  ProjectionInv'
<1>1. BuilderOK(builder) /\ RecordOK /\ WitnessOK /\ VerdictOK
  BY DEF ProjectionInv
<1>2. record = <<>> /\ record' = <<Honest>> /\ UNCHANGED <<builder, harm, asked, witness, verdict>>
  BY DEF FinishRecord, Honest
<1>3. harm = "nothing" /\ witness = NoProof("not yet") /\ Honest' = Honest
  BY <1>1, <1>2, BuilderStays DEF RecordOK
<1>4. verdict.status = "waiting"
  BY <1>1, <1>3, NoProofWaits DEF NoProof
<1>5. RecordOK'
  BY <1>2, <1>3 DEF RecordOK
<1>6. WitnessOK' /\ VerdictOK'
  BY <1>2, <1>3, <1>4 DEF WitnessOK, VerdictOK, NoProof
<1>7. QED
  BY <1>1, <1>2, <1>5, <1>6 DEF ProjectionInv

(* damage in storage *)
LEMMA DamageStep ==
  ASSUME ProjectionInv, DamageRecord
  PROVE  ProjectionInv'
<1>1. BuilderOK(builder) /\ RecordOK /\ WitnessOK /\ VerdictOK
  BY DEF ProjectionInv
<1>2. PICK r \in DamagedRecords(record[1]) \ {record[1]} : record' = <<r>>
  BY DEF DamageRecord
<1>3. /\ record # <<>> /\ harm = "nothing" /\ witness.error = "not yet" /\ harm' = "record"
      /\ UNCHANGED <<builder, asked, witness, verdict>>
  BY DEF DamageRecord
<1>4. record[1] = Honest /\ Honest' = Honest
  BY <1>1, <1>3, BuilderStays, StoredRecord
<1>5. verdict.status = "waiting"
  BY <1>1, <1>3, NoProofWaits
<1>6. RecordOK'
  BY <1>2, <1>3, <1>4 DEF RecordOK
<1>7. WitnessOK' /\ VerdictOK'
  BY <1>3, <1>5 DEF WitnessOK, VerdictOK
<1>8. QED
  BY <1>1, <1>3, <1>6, <1>7 DEF ProjectionInv

(* A record without fields that is longer than its limit does not parse. *)
LEMMA EmptyTooLong ==
  ASSUME NEW version \in Nat, NEW limits \in RecordLimits,
         limits.max_record_len < RECORD_HEADER + AUTH_LEN
  PROVE  ParseRecord(RecordOf(version, <<>>), limits).error = "RecordLimit"
<1> DEFINE r == RecordOf(version, <<>>)
<1>1. <<>> \in Seq(Fields) /\ Len(FieldCells(<<>>)) = 0
  BY EmptySeq, NoCells
<1> HIDE DEF r
<1>2. Len(r.cells) = 3
  <2>1. Len(r.cells) = RECORD_HEADER + Len(FieldCells(<<>>))
    BY <1>1, RecordLaid DEF r
  <2>2. QED
    BY <1>1, <2>1 DEF RECORD_HEADER
<1>3. Len(r.root) = 1 /\ r.extra = 0
  BY DEF RecordOf, r
<1>4. limits.max_record_len \in Nat
  BY RecordLimitsAssumption
<1>5. RecordLen(r) > limits.max_record_len
  BY <1>2, <1>3, <1>4 DEF RecordLen, RECORD_HEADER, AUTH_LEN
<1>6. ParseRecord(r, limits) = [ParseStart EXCEPT !.error = "RecordLimit"]
  BY <1>5 DEF ParseRecord
<1>7. QED
  BY <1>6 DEF ParseStart, r

(* What a holder of the builder's record proves. *)
LEMMA HonestIsProved ==
  ASSUME BuilderOK(builder), NEW query
  PROVE  LET p == ParseRecord(Honest, builder.limits)
             l == builder.limits
         IN  \/ /\ p.error = "none" /\ p.fields = builder.fields
                /\ Honest.cells[3] = builder.schema_version
             \/ p.error = "RecordLimit" /\ l.max_record_len < RECORD_HEADER + AUTH_LEN
<1> DEFINE l == builder.limits
           s == builder.fields
           v == builder.schema_version
<1>1. v \in Nat /\ s \in Seq(Fields) /\ l \in RecordLimits /\ Increasing(FieldIds(s))
  BY BuilderTypes
<1>2. /\ RECORD_HEADER + AUTH_LEN + Len(FieldCells(s)) = builder.encoded_len
      /\ Len(s) <= l.max_fields
      /\ s # <<>> => builder.encoded_len <= l.max_record_len
  BY DEF BuilderOK
<1>3. PayloadsFit(s, l)
  BY DEF BuilderOK, PayloadsFit, Size
<1>4. Honest = RecordOf(v, s)
  BY DEF Honest
<1>5. l.max_record_len \in Nat
  BY <1>1, RecordLimitsAssumption
<1> HIDE DEF l, s, v
<1>6. CASE RECORD_HEADER + AUTH_LEN + Len(FieldCells(s)) <= l.max_record_len
  BY <1>1, <1>2, <1>3, <1>4, <1>6, HonestParses DEF l, s, v
<1>7. CASE ~(RECORD_HEADER + AUTH_LEN + Len(FieldCells(s)) <= l.max_record_len)
  <2>1. s = <<>>
    BY <1>2, <1>7
  <2>2. RECORD_HEADER + AUTH_LEN + Len(FieldCells(s)) = RECORD_HEADER + AUTH_LEN
    BY <2>1, NoCells, EmptySeq DEF RECORD_HEADER, AUTH_LEN
  <2>3. l.max_record_len < RECORD_HEADER + AUTH_LEN
    BY <1>5, <1>7, <2>2 DEF RECORD_HEADER, AUTH_LEN
  <2>4. ParseRecord(RecordOf(v, s), l).error = "RecordLimit"
    BY <1>1, <2>1, <2>3, EmptyTooLong
  <2>5. QED
    BY <1>4, <2>3, <2>4 DEF l
<1>8. QED
  BY <1>6, <1>7

(* the holder's prove *)
LEMMA ProveStep ==
  ASSUME ProjectionInv, NEW query \in Queries, Prove(query)
  PROVE  ProjectionInv'
<1> DEFINE r == record[1]
           p == ParseRecord(r, builder.limits)
<1>1. BuilderOK(builder) /\ RecordOK /\ WitnessOK /\ VerdictOK
  BY DEF ProjectionInv
<1>2. /\ record # <<>> /\ witness.error = "not yet" /\ asked' = query
      /\ witness' = IF p.error # "none" THEN NoProof(p.error)
                    ELSE ProofOf(r.cells[3], p.fields, query)
      /\ UNCHANGED <<builder, record, harm, verdict>>
  BY DEF Prove
<1>3. verdict.status = "waiting"
  BY <1>1, <1>2, NoProofWaits
<1>4. harm # "proof" /\ harm \in {"nothing", "record", "proof"}
  BY <1>1, <1>2 DEF WitnessOK, RecordOK
<1>5. Honest' = Honest
  BY <1>2, BuilderStays
<1> HIDE DEF p, r
<1>6. RecordOK'
  BY <1>1, <1>2, <1>5 DEF RecordOK
<1>7. VerdictOK'
  BY <1>2, <1>3 DEF VerdictOK
<1>8. WitnessOK'
  <2>1. CASE harm = "nothing"
    <3>1. r = Honest
      BY <1>1, <1>2, <2>1, StoredRecord DEF r
    <3>2. \/ p.error = "none" /\ p.fields = builder.fields /\ r.cells[3] = builder.schema_version
          \/ p.error = "RecordLimit" /\ builder.limits.max_record_len < RECORD_HEADER + AUTH_LEN
      BY <1>1, <3>1, HonestIsProved DEF p
    <3>3. \/ witness' = ProofOf(builder.schema_version, builder.fields, query)
          \/ /\ witness' = NoProof("RecordLimit")
             /\ builder.limits.max_record_len < RECORD_HEADER + AUTH_LEN
      BY <1>2, <3>2
    <3>4. HonestProof' = ProofOf(builder.schema_version, builder.fields, query)
      BY <1>2 DEF HonestProof
    <3>5. builder.schema_version \in Nat /\ builder.fields \in Seq(Fields)
      BY <1>1, BuilderTypes
    <3>6. witness'.error = "none" => ProofTyped(witness') /\ ProofWhole(witness')
      BY <3>3, <3>5, ProofIsTyped DEF NoProof
    <3>7. QED
      BY <1>2, <2>1, <3>3, <3>4, <3>6 DEF WitnessOK
  <2>2. CASE harm = "record"
    <3>1. PICK d \in DamagedRecords(Honest) \ {Honest} : record = <<d>>
      BY <1>1, <2>2 DEF RecordOK
    <3>2. r = d
      BY <3>1 DEF r
    <3>3. r.cells \in Seq(Nat)
      BY <1>1, <3>1, <3>2, BuilderTypes, DamagedKinds DEF Honest
    <3>4. witness'.error = "none" => ProofTyped(witness') /\ ProofWhole(witness')
      <4>1. CASE p.error # "none"
        BY <1>2, <4>1 DEF NoProof
      <4>2. CASE p.error = "none"
        <5>1. Len(r.cells) >= RECORD_HEADER /\ p.fields \in Seq(Fields)
          BY <3>3, <4>2, ParsedFacts DEF p
        <5>2. 3 \in 1..Len(r.cells)
          BY <3>3, <5>1, LenProperties DEF RECORD_HEADER
        <5>3. r.cells[3] \in Nat
          BY <3>3, <5>2, ElementOfSeq
        <5>4. witness' = ProofOf(r.cells[3], p.fields, query)
          BY <1>2, <4>2
        <5>5. QED
          BY <5>1, <5>3, <5>4, ProofIsTyped DEF NoProof
      <4>3. QED
        BY <4>1, <4>2
    <3>5. QED
      BY <1>2, <2>2, <3>4 DEF WitnessOK
  <2>3. QED
    BY <1>4, <2>1, <2>2
<1>9. QED
  BY <1>1, <1>2, <1>6, <1>7, <1>8 DEF ProjectionInv

(* a change on the way to the verifier *)
LEMMA AlterStep ==
  ASSUME ProjectionInv, AlterProof
  PROVE  ProjectionInv'
<1>1. BuilderOK(builder) /\ RecordOK /\ WitnessOK /\ VerdictOK
  BY DEF ProjectionInv
<1>2. PICK q \in AlteredProofs(witness) : witness' = q
  BY DEF AlterProof
<1>3. /\ witness.error = "none" /\ harm = "nothing" /\ verdict.status = "waiting" /\ harm' = "proof"
      /\ UNCHANGED <<builder, record, asked, verdict>>
  BY DEF AlterProof
<1>4. witness = HonestProof /\ ProofTyped(witness) /\ ProofWhole(witness)
  <2>1. witness = HonestProof
    BY <1>1, <1>3, Missing DEF WitnessOK
  <2>2. QED
    BY <1>1, <1>3, <2>1 DEF WitnessOK
<1>5. Anchor' = Anchor /\ Honest' = Honest
  BY <1>3, BuilderStays
<1>6. witness.claimed_root = Anchor
  BY <1>1, <1>3, <1>4, BuilderTypes, ProofIsTyped DEF HonestProof, Anchor, NoProof
<1>7. /\ witness'.error = "none" /\ ProofTyped(witness') /\ ProofWhole(witness')
      /\ witness'.claimed_root \in {Anchor, <<"damaged">>}
  BY <1>2, <1>3, <1>4, <1>6, AlteredFacts
<1>8. record # <<>>
  BY <1>1, <1>3, Missing DEF RecordOK
<1>9. RecordOK'
  BY <1>1, <1>3, <1>5, <1>8 DEF RecordOK
<1>10. WitnessOK'
  BY <1>3, <1>5, <1>7 DEF WitnessOK
<1>11. VerdictOK'
  BY <1>3 DEF VerdictOK
<1>12. QED
  BY <1>1, <1>3, <1>9, <1>10, <1>11 DEF ProjectionInv

(* The verifier's call leaves all but its verdict. *)
LEMMA AnswerStep ==
  ASSUME ProjectionInv, NEW by, NEW expected, NEW ok \in BOOLEAN, Answer(by, expected, ok),
         ok => /\ RecomputeProofRoot(witness) = <<witness.claimed_root>>
               /\ by = "anchor" => witness.claimed_root = Anchor,
         ~ok => \/ expected = builder.schema_version /\ ~VerifiedUntrusted(witness)
                \/ ~Verified(witness, Anchor, expected)
  PROVE  ProjectionInv'
<1>1. BuilderOK(builder) /\ RecordOK /\ WitnessOK /\ VerdictOK
  BY DEF ProjectionInv
<1>2. /\ witness.error = "none" /\ verdict.status = "waiting"
      /\ verdict' = [by |-> by, expected |-> expected,
                     status |-> IF ok THEN "ok" ELSE "rejected",
                     fields |-> IF ok THEN Answered(witness) ELSE <<>>]
      /\ UNCHANGED <<builder, record, harm, asked, witness>>
  BY DEF Answer, Answered
<1>3. Anchor' = Anchor /\ Honest' = Honest /\ HonestProof' = HonestProof
  BY <1>2, BuilderStays DEF HonestProof
<1>4. RecordOK' /\ WitnessOK'
  BY <1>1, <1>2, <1>3 DEF RecordOK, WitnessOK
<1>5. VerdictOK'
  <2>1. CASE ok
    BY <1>2, <1>3, <2>1 DEF VerdictOK
  <2>2. CASE ~ok
    BY <1>2, <1>3, <2>2 DEF VerdictOK
  <2>3. QED
    BY <2>1, <2>2
<1>6. QED
  BY <1>1, <1>2, <1>4, <1>5 DEF ProjectionInv

(* The invariant of the record, the proof and the verdict. *)
THEOREM ProjectionInvariant == ProjectionSpec => []ProjectionInv
<1>1. ASSUME ProjectionInv, [ProjectionNext]_projVars
      PROVE  ProjectionInv'
  <2>1. CASE \E f \in RecordFields : InsertField(f[1], f[2])
    BY <1>1, <2>1, InsertStep
  <2>2. CASE FinishRecord
    BY <1>1, <2>2, FinishStep
  <2>3. CASE DamageRecord
    BY <1>1, <2>3, DamageStep
  <2>4. CASE \E query \in Queries : Prove(query)
    BY <1>1, <2>4, ProveStep
  <2>5. CASE AlterProof
    BY <1>1, <2>5, AlterStep
  <2>6. ASSUME NEW expected \in SchemaVersions, VerifyProof(expected)
        PROVE  ProjectionInv'
    <3> DEFINE ok == witness.error = "none" /\ Verified(witness, Anchor, expected)
    <3>1. Answer("anchor", expected, ok)
      BY <2>6 DEF VerifyProof
    <3>2. ok \in BOOLEAN
      OBVIOUS
    <3>3. witness.error = "none"
      BY <3>1 DEF Answer
    <3>4. ok => /\ RecomputeProofRoot(witness) = <<witness.claimed_root>>
                /\ witness.claimed_root = Anchor
      BY DEF Verified
    <3>5. ~ok => ~Verified(witness, Anchor, expected)
      BY <3>3
    <3> HIDE DEF ok
    <3>6. QED
      BY <1>1, <3>1, <3>2, <3>4, <3>5, AnswerStep
  <2>7. CASE VerifyUntrusted
    <3> DEFINE ok == witness.error = "none" /\ VerifiedUntrusted(witness)
    <3>1. Answer("nobody", builder.schema_version, ok)
      BY <2>7 DEF VerifyUntrusted
    <3>2. ok \in BOOLEAN
      OBVIOUS
    <3>3. witness.error = "none"
      BY <3>1 DEF Answer
    <3>4. ok => RecomputeProofRoot(witness) = <<witness.claimed_root>>
      BY DEF VerifiedUntrusted
    <3>5. ~ok => ~VerifiedUntrusted(witness)
      BY <3>3
    <3> HIDE DEF ok
    <3>6. QED
      BY <1>1, <3>1, <3>2, <3>4, <3>5, AnswerStep
  <2>8. CASE UNCHANGED projVars
    <3>1. UNCHANGED <<builder, record, harm, asked, witness, verdict>>
      BY <2>8 DEF projVars
    <3>2. BuilderOK(builder')
      BY <1>1, <3>1 DEF ProjectionInv
    <3>3. RecordOK' /\ WitnessOK' /\ VerdictOK'
      BY <1>1, <3>1
      DEF ProjectionInv, RecordOK, WitnessOK, VerdictOK, Honest, HonestProof, Anchor
    <3>4. QED
      BY <3>2, <3>3 DEF ProjectionInv
  <2>9. QED
    BY <1>1, <2>1, <2>2, <2>3, <2>4, <2>5, <2>6, <2>7, <2>8 DEF ProjectionNext
<1>2. QED
  BY <1>1, ProjectionStart, PTL DEF ProjectionSpec

(* A root that was computed is not a damaged one. *)
LEMMA RecomputedRoot ==
  ASSUME NEW p, NEW root, RecomputeProofRoot(p) = <<root>>
  PROVE  root # <<"damaged">>
<1>1. \/ RecomputeProofRoot(p) = <<>>
      \/ \E version, hash : RecomputeProofRoot(p) = <<SchemaRoot(version, hash)>>
  BY DEF RecomputeProofRoot
<1>2. PICK version, hash : <<root>> = <<SchemaRoot(version, hash)>>
  BY <1>1
<1>3. root = SchemaRoot(version, hash)
  BY <1>2
<1>4. QED
  BY <1>3, HashFacts

(* A proof that recomputes to the root of the builder's fields carries some *)
(* of them, in their order.                                                 *)
LEMMA AcceptedFields ==
  ASSUME NEW p, ProofTyped(p), NEW version, NEW fields \in Seq(Fields),
         RecomputeProofRoot(p) = <<RootOf(version, fields)>>
  PROVE  ToSet(Answered(p)) \subseteq ToSet(fields) /\ Increasing(FieldIds(Answered(p)))
<1>1. /\ CanonicalProof(p)
      /\ \A i \in 1..Len(p.leaves) : /\ p.leaves[i].index + 1 \in 1..Len(fields)
                                     /\ p.leaves[i].field = fields[p.leaves[i].index + 1]
  BY RecomputeSound
<1>2. /\ FieldIds(Answered(p)) = [i \in 1..Len(p.leaves) |-> p.leaves[i].field[1]]
      /\ ToSet(Answered(p)) = {p.leaves[i].field : i \in 1..Len(p.leaves)}
  BY AnsweredFacts
<1>3. ToSet(fields) = {fields[i] : i \in 1..Len(fields)}
  BY FieldSets DEF FieldSet
<1>4. Increasing(FieldIds(Answered(p)))
  BY <1>1, <1>2 DEF CanonicalProof
<1>5. ToSet(Answered(p)) \subseteq ToSet(fields)
  BY <1>1, <1>2, <1>3
<1>6. QED
  BY <1>4, <1>5

(* Without the trusted root, a proof of an undamaged record. *)
LEMMA ClaimedRoot ==
  ASSUME ProjectionInv, witness.error = "none", harm # "record",
         RecomputeProofRoot(witness) = <<witness.claimed_root>>
  PROVE  witness.claimed_root = Anchor
<1>1. BuilderOK(builder) /\ RecordOK /\ WitnessOK
  BY DEF ProjectionInv
<1>2. harm \in {"nothing", "proof"}
  BY <1>1 DEF RecordOK
<1>3. CASE harm = "nothing"
  <2>1. witness = HonestProof
    BY <1>1, <1>3, Missing DEF WitnessOK
  <2>2. builder.schema_version \in Nat /\ builder.fields \in Seq(Fields)
    BY <1>1, BuilderTypes
  <2>3. QED
    BY <2>1, <2>2, ProofIsTyped, Missing DEF HonestProof, Anchor
<1>4. CASE harm = "proof"
  BY <1>1, <1>4, RecomputedRoot DEF WitnessOK
<1>5. QED
  BY <1>2, <1>3, <1>4

(* ProjectionIsSound: a verifier accepts only fields of the record that was *)
(* built, and a damaged record does not pass verify_root.                   *)
THEOREM ProjectionSound == ProjectionSpec => []ProjectionIsSound
<1>1. ASSUME ProjectionInv PROVE ProjectionIsSound
  <2>1. BuilderOK(builder) /\ RecordOK /\ WitnessOK /\ VerdictOK
    BY <1>1 DEF ProjectionInv
  <2>2. builder.schema_version \in Nat /\ builder.fields \in Seq(Fields)
    BY <2>1, BuilderTypes
  <2>3. ASSUME verdict.status = "ok", verdict.by = "anchor" \/ harm # "record"
        PROVE  /\ ToSet(verdict.fields) \subseteq ToSet(builder.fields)
               /\ Increasing(FieldIds(verdict.fields))
    <3>1. /\ witness.error = "none" /\ verdict.fields = Answered(witness)
          /\ RecomputeProofRoot(witness) = <<witness.claimed_root>>
          /\ verdict.by = "anchor" => witness.claimed_root = Anchor
      BY <2>1, <2>3 DEF VerdictOK
    <3>2. witness.claimed_root = Anchor
      BY <1>1, <2>3, <3>1, ClaimedRoot
    <3>3. RecomputeProofRoot(witness) = <<RootOf(builder.schema_version, builder.fields)>>
      BY <3>1, <3>2 DEF Anchor
    <3>4. ProofTyped(witness)
      BY <2>1, <3>1 DEF WitnessOK
    <3>5. QED
      BY <2>2, <3>1, <3>3, <3>4, AcceptedFields
  <2>4. ASSUME harm = "record" PROVE ~VerifyRoot(record[1], builder.limits)
    <3>1. PICK d \in DamagedRecords(Honest) \ {Honest} : record = <<d>>
      BY <2>1, <2>4 DEF RecordOK
    <3>2. record[1] = d
      BY <3>1
    <3>3. QED
      BY <2>2, <3>1, <3>2, DamageShows DEF Honest
  <2>5. QED
    BY <2>3, <2>4 DEF ProjectionIsSound
<1>2. QED
  BY <1>1, ProjectionInvariant, PTL

(* HonestProofVerifies: the record of a builder parses, and an unchanged    *)
(* proof of it yields what was asked for and is there, if the limits leave  *)
(* room for a record without fields.                                        *)
THEOREM ProjectionHonest ==
  ASSUME RoomForHeader
  PROVE  ProjectionSpec => []HonestProofVerifies
<1>1. ASSUME ProjectionInv PROVE HonestProofVerifies
  <2> SUFFICES ASSUME harm = "nothing"
               PROVE  LET found == Found(builder.fields, asked)
                      IN  /\ witness.error \in {"not yet", "none"} \/
                               (witness.error = "InvalidQuery" /\ found = {})
                          /\ verdict.status = "ok" =>
                               ToSet(verdict.fields) = found /\ Increasing(FieldIds(verdict.fields))
                          /\ verdict.status = "rejected" =>
                               verdict.expected # builder.schema_version
    BY DEF HonestProofVerifies, Found
  <2> DEFINE v == builder.schema_version
             s == builder.fields
             c == Chosen(s, asked)
  <2>1. BuilderOK(builder) /\ RecordOK /\ WitnessOK /\ VerdictOK
    BY <1>1 DEF ProjectionInv
  <2>2. v \in Nat /\ s \in Seq(Fields) /\ builder.limits \in RecordLimits /\ Increasing(FieldIds(s))
    BY <2>1, BuilderTypes
  <2>3. witness = NoProof("not yet") \/ witness = ProofOf(v, s, asked)
    <3>1. ~(builder.limits.max_record_len < RECORD_HEADER + AUTH_LEN)
      <4>1. builder.limits.max_record_len \in Nat
        BY <2>2, RecordLimitsAssumption
      <4>2. QED
        BY <2>2, <4>1 DEF RoomForHeader, RECORD_HEADER, AUTH_LEN
    <3>2. QED
      BY <2>1, <3>1 DEF WitnessOK, HonestProof
  <2>4. verdict.status \in {"waiting", "ok", "rejected"}
    BY <2>1 DEF VerdictOK
  <2> HIDE DEF v, s, c
  <2>5. CASE witness = NoProof("not yet")
    <3>1. witness.error = "not yet"
      BY <2>5 DEF NoProof
    <3>2. verdict.status = "waiting"
      BY <2>1, <3>1, NoProofWaits
    <3>3. QED
      BY <3>1, <3>2
  <2>6. CASE witness = ProofOf(v, s, asked) /\ c = <<>>
    <3>1. witness = NoProof("InvalidQuery")
      BY <2>6, NothingChosen DEF c
    <3>2. witness.error = "InvalidQuery"
      BY <3>1 DEF NoProof
    <3>3. verdict.status = "waiting"
      BY <2>1, <3>2, NoProofWaits
    <3>4. Found(s, asked) = {}
      BY <2>2, <2>6, NothingFound DEF c
    <3>5. QED
      BY <3>2, <3>3, <3>4 DEF s
  <2>7. CASE witness = ProofOf(v, s, asked) /\ c # <<>>
    <3>1. /\ LeavesAre(witness, s, c)
          /\ ToSet(Answered(witness)) = Found(s, asked)
      BY <2>2, <2>7, ProofLeaves DEF c
    <3>2. RecomputeProofRoot(witness) = <<RootOf(v, s)>>
      BY <2>2, <2>7, ProofRecomputes DEF c
    <3>3. /\ witness.error = "none" /\ witness.claimed_root = RootOf(v, s)
          /\ witness.schema_version = v
      <4>1. ProofHas(witness, v, s, c)
        BY <2>7, ProofPieces DEF c
      <4>2. QED
        BY <4>1 DEF ProofHas
    <3>4. ASSUME verdict.status = "ok"
          PROVE  ToSet(verdict.fields) = Found(s, asked) /\ Increasing(FieldIds(verdict.fields))
      <4>1. verdict.fields = Answered(witness)
        BY <2>1, <3>4 DEF VerdictOK
      <4>2. ProofTyped(witness)
        BY <3>1 DEF LeavesAre
      <4>3. Increasing(FieldIds(Answered(witness)))
        BY <2>2, <3>2, <4>2, AcceptedFields
      <4>4. QED
        BY <3>1, <4>1, <4>3
    <3>5. ASSUME verdict.status = "rejected", verdict.expected = v PROVE FALSE
      <4>1. \/ ~VerifiedUntrusted(witness)
            \/ ~Verified(witness, Anchor, verdict.expected)
        BY <2>1, <3>5 DEF VerdictOK
      <4>2. Anchor = RootOf(v, s)
        BY DEF Anchor, v, s
      <4>3. VerifiedUntrusted(witness) /\ Verified(witness, Anchor, verdict.expected)
        BY <3>2, <3>3, <3>5, <4>2 DEF VerifiedUntrusted, Verified
      <4>4. QED
        BY <4>1, <4>3
    <3>6. QED
      BY <3>3, <3>4, <3>5 DEF s, v
  <2>8. QED
    BY <2>3, <2>5, <2>6, <2>7
<1>2. QED
  BY <1>1, ProjectionInvariant, PTL
=============================================================================
