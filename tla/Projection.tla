----------------------------- MODULE Projection -----------------------------
(***************************************************************************)
(* Self-authenticating records (projection.rs): a builder writes fields in  *)
(* the order of their ids behind the root of a Merkle tree over them; a     *)
(* holder of the record proves some fields to a verifier that has nothing   *)
(* but the root.  Storage may damage the record, the transport the proof.   *)
(*                                                                         *)
(* A hash is the tuple of what it was computed from: no collisions.  Every  *)
(* number and every byte of a record is one cell, magic, version and flags  *)
(* together are one cell, and so is the root: lengths are counted in cells. *)
(***************************************************************************)
EXTENDS Integers, Sequences, SequencesExt, FiniteSets

CONSTANTS
  RecordFields,  (* the fields a builder may be given: <<id, payload>>      *)
  Queries,       (* the sets of ids that may be asked for                   *)
  SchemaVersions,
  RecordLimits,  (* [max_fields, max_payload_len, max_record_len]           *)
  Misreads       (* the numbers that damage leaves                          *)

ASSUME RecordFieldsAssumption   == RecordFields \subseteq Nat \X Seq(Nat)
ASSUME SchemaVersionsAssumption == SchemaVersions \subseteq Nat
ASSUME RecordLimitsAssumption   ==
  \A l \in RecordLimits : /\ l.max_fields \in Nat
                         /\ l.max_payload_len \in Nat
                         /\ l.max_record_len \in Nat
ASSUME MisreadsAssumption       == Misreads \subseteq Nat

VARIABLES
  builder,      (* struct RecordBuilder                                     *)
  record,       (* <<>> or the stored record                                *)
  harm,         (* what was changed since: "nothing", "record" or "proof"   *)
  asked,        (* the query of the proof                                   *)
  witness,      (* struct ProjectionProof, or why there is none             *)
  verdict       (* what the verifier made of it                             *)

projVars == <<builder, record, harm, asked, witness, verdict>>

RECORD_MAGIC == 1
RECORD_HEADER == 3
AUTH_LEN == 1

---------------------------------------------------------------------------
(* The tree, in heap order: the root is node 1, the leaves are the last.    *)

FieldHash(field)          == <<"field", field[1], field[2]>>
BranchHash(left, right)   == <<"branch", left, right>>
SchemaRoot(version, hash) == <<"schema", version, hash>>
Padding == <<"zero">>

(* 2^h, as a table that a proof can unfold *)
Power(h) ==
  LET p[i \in 0..h] == IF i = 0 THEN 1 ELSE 2 * p[i - 1]
  IN  p[h]

(* leaf_count and the number of levels above the leaves *)
Levels(count) ==
  CHOOSE h \in 0..count : Power(h) >= count /\ \A k \in 0..(h - 1) : Power(k) < count
LeafCount(count) == Power(Levels(count))

(* merkle_leaves and build_tree *)
Tree(fields) ==
  LET l == LeafCount(Len(fields))
      t[i \in 1..(2 * l - 1)] ==
        IF i < l THEN BranchHash(t[2 * i], t[2 * i + 1])
        ELSE IF i - l < Len(fields) THEN FieldHash(fields[i - l + 1]) ELSE Padding
  IN  t

RootOf(version, fields) == SchemaRoot(version, Tree(fields)[1])

Twin(i)  == IF i % 2 = 0 THEN i + 1 ELSE i - 1
Above(S) == {i \div 2 : i \in S}

(* the numbers of S among 1..n in ascending order *)
Ascending(S, n) ==
  LET upto[k \in 0..n] == IF k = 0 THEN <<>>
                          ELSE IF k \in S THEN Append(upto[k - 1], k) ELSE upto[k - 1]
  IN  upto[n]

(* the siblings of one level, ascending, and the frontier above it; every   *)
(* node is below size                                                       *)
Gather(acc, tree, size) ==
  LET alone == Ascending({i \in acc.frontier : Twin(i) \notin acc.frontier}, size)
  IN  [frontier |-> Above(acc.frontier),
       siblings |-> acc.siblings \o [k \in 1..Len(alone) |->
                                       [index |-> Twin(alone[k]), hash |-> tree[Twin(alone[k])]]]]

(* aggregate_siblings for the leaves at these heap positions *)
AggregateSiblings(tree, height, nodes) ==
  LET round[k \in 0..height] ==
        IF k = 0 THEN [frontier |-> nodes, siblings |-> <<>>]
        ELSE Gather(round[k - 1], tree, 2 * Power(height))
  IN  round[height].siblings

---------------------------------------------------------------------------
(* The builder *)

(* Mutant: the lengths of the id and of the length itself are forgotten *)
Contribution_PayloadOnly(payload) == Len(payload)

Contribution(payload) == Len(payload) + 2

(* RecordBuilder::insert; a refused field changes nothing *)
InsertField(id, payload) ==
  LET count   == Len(builder.fields) + 1
      encoded == builder.encoded_len + Contribution(payload)
  IN  /\ record = <<>>
      /\ builder.fields # <<>> => id > Last(builder.fields)[1]
      /\ count <= builder.limits.max_fields
      /\ Len(payload) <= builder.limits.max_payload_len
      /\ encoded <= builder.limits.max_record_len
      /\ builder' = [builder EXCEPT !.fields = Append(@, <<id, payload>>),
                                    !.encoded_len = encoded]
      /\ UNCHANGED <<record, harm, asked, witness, verdict>>

(* the cells of the fields: id, length and payload of each *)
FieldCells(fields) ==
  LET upto[n \in 0..Len(fields)] ==
        IF n = 0 THEN <<>>
        ELSE upto[n - 1] \o <<fields[n][1], Len(fields[n][2])>> \o fields[n][2]
  IN  upto[Len(fields)]

RecordOf(version, fields) ==
  [cells |-> <<RECORD_MAGIC, Len(fields), version>> \o FieldCells(fields),
   root  |-> <<RootOf(version, fields)>>,
   extra |-> 0]

(* RecordBuilder::finish *)
FinishRecord ==
  /\ record = <<>>
  /\ record' = <<RecordOf(builder.schema_version, builder.fields)>>
  /\ UNCHANGED <<builder, harm, asked, witness, verdict>>

RecordLen(r) == Len(r.cells) + Len(r.root) * AUTH_LEN + r.extra

---------------------------------------------------------------------------
(* The record in storage: a wrong number, a wrong root, a record cut short, *)
(* or one with something behind it                                          *)

MisreadRecords(r) == {[r EXCEPT !.cells[i] = n] : i \in 1..Len(r.cells), n \in Misreads}
CutRecords(r)     == {[r EXCEPT !.cells = SubSeq(@, 1, n), !.root = <<>>] : n \in 0..Len(r.cells)}

DamagedRecords(r) ==
  MisreadRecords(r) \union CutRecords(r) \union
  {[r EXCEPT !.root = <<<<"damaged">>>>], [r EXCEPT !.extra = 1]}

DamageRecord ==
  /\ record # <<>> /\ harm = "nothing" /\ witness.error = "not yet"
  /\ \E r \in DamagedRecords(record[1]) \ {record[1]} : record' = <<r>>
  /\ harm' = "record"
  /\ UNCHANGED <<builder, asked, witness, verdict>>

---------------------------------------------------------------------------
(* parse_record *)

(* one field; acc is [error, cursor, fields] *)
ParseField(acc, r, limits) ==
  LET at(k) == r.cells[acc.cursor + k]
      end   == acc.cursor + 2 + at(2)
      refused(e) == [acc EXCEPT !.error = e]
  IN  IF acc.error # "none" THEN acc
      ELSE IF acc.cursor + 2 > Len(r.cells) THEN refused("UnexpectedEnd")
      ELSE IF at(2) > limits.max_payload_len THEN refused("PayloadLimit")
      ELSE IF acc.fields # <<>> /\ at(1) <= Last(acc.fields)[1] THEN refused("NonCanonicalOrder")
      ELSE IF end > Len(r.cells) THEN refused("UnexpectedEnd")
      ELSE [error  |-> "none",
            cursor |-> end,
            fields |-> Append(acc.fields, <<at(1), SubSeq(r.cells, acc.cursor + 3, end)>>)]

ParseStart == [error |-> "none", cursor |-> RECORD_HEADER, fields |-> <<>>]

(* the loop over the number of fields that the header states *)
ParseFields(r, limits) ==
  LET after[i \in 0..r.cells[2]] ==
        IF i = 0 THEN ParseStart ELSE ParseField(after[i - 1], r, limits)
  IN  after[r.cells[2]]

(* A field that reaches into the root leaves less than a root behind it;    *)
(* one that ends before the last number leaves trailing bytes.              *)
ParseRecord(r, limits) ==
  LET acc == ParseFields(r, limits)
      refused(e) == [ParseStart EXCEPT !.error = e]
  IN  IF RecordLen(r) > limits.max_record_len THEN refused("RecordLimit")
      ELSE IF RecordLen(r) < RECORD_HEADER + AUTH_LEN \/ Len(r.cells) < RECORD_HEADER
           THEN refused("UnexpectedEnd")
      ELSE IF r.cells[1] # RECORD_MAGIC THEN refused("BadMagic")
      ELSE IF r.cells[2] > limits.max_fields THEN refused("FieldLimit")
      ELSE IF acc.error # "none" THEN acc
      ELSE IF r.root = <<>> THEN refused("UnexpectedEnd")
      ELSE IF acc.cursor # Len(r.cells) \/ r.extra # 0 THEN refused("TrailingBytes")
      ELSE acc

(* Record::verify_root of a record that parses *)
VerifyRoot(r, limits) ==
  LET p == ParseRecord(r, limits)
  IN  p.error = "none" /\ r.root = <<RootOf(r.cells[3], p.fields)>>

---------------------------------------------------------------------------
(* The holder: prove parses the record and does not look at its root.       *)

NoProof(error) == [error |-> error]

ProofOf(version, fields, query) ==
  LET chosen == Ascending({i \in 1..Len(fields) : fields[i][1] \in query}, Len(fields))
      leaves == LeafCount(Len(fields))
  IN  IF chosen = <<>> THEN NoProof("InvalidQuery")
      ELSE [error          |-> "none",
            schema_version |-> version,
            field_count    |-> Len(fields),
            leaves         |-> [k \in 1..Len(chosen) |->
                                  [index |-> chosen[k] - 1, field |-> fields[chosen[k]]]],
            siblings       |-> AggregateSiblings(Tree(fields), Levels(Len(fields)),
                                 {leaves + chosen[k] - 1 : k \in 1..Len(chosen)}),
            claimed_root   |-> RootOf(version, fields)]

Prove(query) ==
  LET p == ParseRecord(record[1], builder.limits)
  IN  /\ record # <<>> /\ witness.error = "not yet"
      /\ asked' = query
      /\ witness' = IF p.error # "none" THEN NoProof(p.error)
                    ELSE ProofOf(record[1].cells[3], p.fields, query)
      /\ UNCHANGED <<builder, record, harm, verdict>>

---------------------------------------------------------------------------
(* The transport changes one part of the proof. *)

Without(s, i) == SubSeq(s, 1, i - 1) \o SubSeq(s, i + 1, Len(s))

AlteredLeaves(ls) ==
  LET at == 1..Len(ls)
  IN  {[ls EXCEPT ![i].index = n] : i \in at, n \in Misreads} \union
      {[ls EXCEPT ![i].field[1] = n] : i \in at, n \in Misreads} \union
      {[ls EXCEPT ![i].field[2] = Append(@, n)] : i \in at, n \in Misreads} \union
      {Without(ls, i) : i \in at}

AlteredSiblings(ss) ==
  LET at == 1..Len(ss)
  IN  {[ss EXCEPT ![i].index = n] : i \in at, n \in Misreads} \union
      {[ss EXCEPT ![i].hash = ss[j].hash] : i \in at, j \in at} \union
      {[ss EXCEPT ![i].hash = <<"damaged">>] : i \in at} \union
      {Without(ss, i) : i \in at} \union
      {Append(ss, ss[i]) : i \in at}

AlteredProofs(p) ==
  {[p EXCEPT !.schema_version = n] : n \in Misreads} \union
  {[p EXCEPT !.field_count = n] : n \in Misreads} \union
  {[p EXCEPT !.claimed_root = <<"damaged">>]} \union
  {[p EXCEPT !.leaves = ls] : ls \in AlteredLeaves(p.leaves)} \union
  {[p EXCEPT !.siblings = ss] : ss \in AlteredSiblings(p.siblings)}

AlterProof ==
  /\ witness.error = "none" /\ harm = "nothing" /\ verdict.status = "waiting"
  /\ \E p \in AlteredProofs(witness) \ {witness} : witness' = p
  /\ harm' = "proof"
  /\ UNCHANGED <<builder, record, asked, verdict>>

---------------------------------------------------------------------------
(* The verifier *)

(* one round of combine_frontier; f maps nodes of a level to hashes, and is *)
(* empty once a sibling was missing                                         *)
Combine(f, siblings) ==
  LET here    == DOMAIN f
      hash(i) == IF i \in here THEN f[i] ELSE siblings[i]
  IN  IF \E i \in here : Twin(i) \notin here \union DOMAIN siblings THEN <<>>
      ELSE [p \in Above(here) |-> BranchHash(hash(2 * p), hash(2 * p + 1))]

CombineFrontier(frontier, siblings, height) ==
  LET level[k \in 0..height] == IF k = 0 THEN frontier ELSE Combine(level[k - 1], siblings)
  IN  level[height]

Increasing(s) == \A i \in 1..(Len(s) - 1) : s[i] < s[i + 1]
FieldIds(s)   == [i \in 1..Len(s) |-> s[i][1]]

(* the leaves and the siblings of a proof by heap position *)
LeafHashes(p) ==
  LET first == LeafCount(p.field_count)
      ls    == 1..Len(p.leaves)
  IN  [n \in {first + p.leaves[i].index : i \in ls} |->
         FieldHash(p.leaves[CHOOSE i \in ls : first + p.leaves[i].index = n].field)]

SiblingHashes(p) ==
  LET ss == 1..Len(p.siblings)
  IN  [n \in {p.siblings[i].index : i \in ss} |->
         p.siblings[CHOOSE i \in ss : p.siblings[i].index = n].hash]

(* positions and ids ascend, within the number of fields; no sibling twice  *)
CanonicalProof(p) ==
  /\ p.leaves # <<>>
  /\ \A i \in 1..Len(p.leaves) : p.leaves[i].index < p.field_count
  /\ Increasing([i \in 1..Len(p.leaves) |-> p.leaves[i].index])
  /\ Increasing([i \in 1..Len(p.leaves) |-> p.leaves[i].field[1]])
  /\ \A i, j \in 1..Len(p.siblings) : p.siblings[i].index = p.siblings[j].index => i = j

(* recompute_proof_root: <<>> for a malformed proof, or <<root>> *)
RecomputeProofRoot(p) ==
  LET top == CombineFrontier(LeafHashes(p), SiblingHashes(p), Levels(p.field_count))
  IN  IF CanonicalProof(p) /\ 1 \in DOMAIN top THEN <<SchemaRoot(p.schema_version, top[1])>>
      ELSE <<>>

(* Mutant: the claimed root is believed *)
Verified_ClaimedRoot(p, anchor, expected) ==
  p.schema_version = expected /\ RecomputeProofRoot(p) = <<p.claimed_root>>

(* verify *)
Verified(p, anchor, expected) ==
  /\ p.schema_version = expected
  /\ RecomputeProofRoot(p) = <<p.claimed_root>>
  /\ p.claimed_root = anchor

(* verify_untrusted *)
VerifiedUntrusted(p) == RecomputeProofRoot(p) = <<p.claimed_root>>

(* the fields a successful call returns *)
Answer(by, expected, ok) ==
  /\ witness.error = "none" /\ verdict.status = "waiting"
  /\ verdict' = [by |-> by, expected |-> expected,
                 status |-> IF ok THEN "ok" ELSE "rejected",
                 fields |-> IF ok THEN [i \in 1..Len(witness.leaves) |-> witness.leaves[i].field]
                                  ELSE <<>>]
  /\ UNCHANGED <<builder, record, harm, asked, witness>>

(* the verifier holds the root of the record that was built *)
Anchor == RootOf(builder.schema_version, builder.fields)

VerifyProof(expected) ==
  Answer("anchor", expected, witness.error = "none" /\ Verified(witness, Anchor, expected))

VerifyUntrusted ==
  Answer("nobody", builder.schema_version, witness.error = "none" /\ VerifiedUntrusted(witness))

---------------------------------------------------------------------------

ProjectionInit ==
  /\ \E version \in SchemaVersions, limits \in RecordLimits :
       builder = [schema_version |-> version, limits |-> limits, fields |-> <<>>,
                  encoded_len |-> RECORD_HEADER + AUTH_LEN]
  /\ record = <<>> /\ harm = "nothing" /\ asked = {}
  /\ witness = NoProof("not yet")
  /\ verdict = [by |-> "nobody", expected |-> 0, status |-> "waiting", fields |-> <<>>]

ProjectionNext ==
  \/ \E f \in RecordFields : InsertField(f[1], f[2])
  \/ FinishRecord
  \/ DamageRecord
  \/ \E query \in Queries : Prove(query)
  \/ AlterProof
  \/ \E expected \in SchemaVersions : VerifyProof(expected)
  \/ VerifyUntrusted

ProjectionSpec == ProjectionInit /\ [][ProjectionNext]_projVars

---------------------------------------------------------------------------
(* Properties *)

(***************************************************************************)
(* What a verifier accepts under the root it trusts are fields of the       *)
(* record that was built, in its order, whatever storage did to the record  *)
(* or the transport to the proof; without a trusted root that holds for a   *)
(* proof changed on its way, not for one made of a damaged record.  A       *)
(* damaged record that still parses does not pass verify_root.              *)
(***************************************************************************)
ProjectionIsSound ==
  /\ verdict.status = "ok" /\ (verdict.by = "anchor" \/ harm # "record") =>
       /\ ToSet(verdict.fields) \subseteq ToSet(builder.fields)
       /\ Increasing(FieldIds(verdict.fields))
  /\ harm = "record" => ~VerifyRoot(record[1], builder.limits)

(***************************************************************************)
(* A record that the builder accepted under its limits parses under them,   *)
(* its proof exists unless nothing asked for is there, and an unchanged     *)
(* proof yields all that was asked for and is there, once and in order,     *)
(* under the root and the version of the record.                            *)
(***************************************************************************)
HonestProofVerifies ==
  harm = "nothing" =>
    LET found == {f \in ToSet(builder.fields) : f[1] \in asked}
    IN  /\ witness.error \in {"not yet", "none"} \/
             (witness.error = "InvalidQuery" /\ found = {})
        /\ verdict.status = "ok" =>
             ToSet(verdict.fields) = found /\ Increasing(FieldIds(verdict.fields))
        /\ verdict.status = "rejected" =>
             verdict.expected # builder.schema_version
=============================================================================
