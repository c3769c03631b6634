------------------------------- MODULE Merkle -------------------------------
(***************************************************************************)
(* The Merkle tree over the blocks of an archive payload and the proofs of  *)
(* byte ranges (archive.rs).  A hash is the tuple of what it was computed   *)
(* from: no collisions.  A payload and a hash section are sequences.        *)
(***************************************************************************)
EXTENDS Integers, Sequences, SequencesExt, FiniteSets, FiniteSetsExt

(* The Merkle tree *)

LeafHash(index, block) == <<"leaf", index, block>>
PadHash(index)         == <<"pad", index>>
NodeHash(left, right)  == <<"node", left, right>>

(* tree_height, where it terminates *)
TreeHeight(block_count) == CHOOSE h \in 0..30 :
  2^h >= block_count /\ (h > 0 => 2^(h - 1) < block_count)

BlockCount(payload, size) == Max({1, (Len(payload) + size - 1) \div size})

Block(payload, size, index) ==
  SubSeq(payload, index * size + 1, Min({(index + 1) * size, Len(payload)}))

(* leaf_hash_for; a block that begins past the payload panics *)
LeafHashFor(payload, size, block_count, index) ==
  IF index < block_count THEN LeafHash(index, Block(payload, size, index))
                         ELSE PadHash(index)

(* merkle_levels: the leaves first, the root last *)
MerkleLevels(payload, size) ==
  LET count  == BlockCount(payload, size)
      height == TreeHeight(count)
      leaves == [i \in 1..2^height |-> LeafHashFor(payload, size, count, i - 1)]
      above(level) == [i \in 1..(Len(level) \div 2) |->
                         NodeHash(level[2 * i - 1], level[2 * i])]
  IN  FoldLeft(LAMBDA levels, l : Append(levels, above(Last(levels))),
               <<leaves>>, [l \in 1..height |-> l])

(* serialize_hash_section *)
HashSection(levels) == FlattenSeq(Tail(levels))

(* where read_section_hash looks *)
SectionPosition(height, level, index) == 2^height - 2^(height - level + 1) + index

---------------------------------------------------------------------------
(* Proofs.  compute_plan: the nodes of a level that are covered, and the    *)
(* siblings that a proof has to bring, in ascending order.                  *)

Covered(first, last, level) == (first \div 2^level)..(last \div 2^level)

Siblings(covered) ==
  {i - 1 : i \in {j \in covered : j % 2 = 1 /\ j - 1 \notin covered}} \union
  {i + 1 : i \in {j \in covered : j % 2 = 0 /\ j + 1 \notin covered}}

SiblingSeq(first, last, level) ==
  SetToSortSeq(Siblings(Covered(first, last, level)), <)

(* the siblings of all levels, the lowest first: <<level, index>> *)
Plan(first, last, height) ==
  FlattenSeq([l \in 1..height |->
                [i \in 1..Len(SiblingSeq(first, last, l - 1)) |->
                   <<l - 1, SiblingSeq(first, last, l - 1)[i]>>]])

(* Mutant: a range that ends with a block takes the next one too *)
LastBlock_Next(offset, len, size) == (offset + len) \div size

LastBlock(offset, len, size) ==
  IF len = 0 THEN offset \div size ELSE (offset + len - 1) \div size

(***************************************************************************)
(* build_proof for an envelope h, its payload and its hash section.  The    *)
(* error "Panic" is an index out of bounds: a leaf that begins past the     *)
(* payload, or a node past the section.                                     *)
(***************************************************************************)
BuildProof(h, payload, section, offset, len) ==
  LET first  == offset \div h.block_size
      last   == LastBlock(offset, len, h.block_size)
      height == TreeHeight(h.block_count)
      plan   == Plan(first, last, height)
      inBounds(n) ==
        IF n[1] = 0 THEN n[2] < h.block_count => n[2] * h.block_size <= Len(payload)
                    ELSE SectionPosition(height, n[1], n[2]) < Len(section)
      hash(n) ==
        IF n[1] = 0 THEN LeafHashFor(payload, h.block_size, h.block_count, n[2])
                    ELSE section[SectionPosition(height, n[1], n[2]) + 1]
  IN  IF offset >= h.payload_len \/ offset + len > h.payload_len
      THEN [error |-> "Merkle"]
      ELSE IF \E i \in 1..Len(plan) : ~inBounds(plan[i]) THEN [error |-> "Panic"]
      ELSE [error |-> "none", offset |-> offset, len |-> len,
            block_size |-> h.block_size, block_count |-> h.block_count,
            payload_len |-> h.payload_len,
            blocks |-> [i \in 1..(last - first + 1) |->
                          Block(payload, h.block_size, first + i - 1)],
            siblings |-> [i \in 1..Len(plan) |-> hash(plan[i])],
            root |-> h.root]

(* one level of replay_root: the hashes of the parents *)
ReplayLevel(acc, first, last, level, siblings) ==
  LET covered == Covered(first, last, level)
      brought == SiblingSeq(first, last, level)
      place(i) == CHOOSE k \in 1..Len(brought) : brought[k] = i
      hash(i) == IF i \in covered THEN acc.hashes[i] ELSE siblings[acc.cursor + place(i)]
  IN  IF acc.error # "none" \/ acc.cursor + Len(brought) > Len(siblings)
      THEN [acc EXCEPT !.error = "Merkle"]
      ELSE [error  |-> "none",
            cursor |-> acc.cursor + Len(brought),
            hashes |-> [p \in Covered(first, last, level + 1) |->
                          NodeHash(hash(2 * p), hash(2 * p + 1))]]

(* replay_root *)
ReplayRoot(blocks, first, last, height, siblings) ==
  LET start == [error |-> "none", cursor |-> 0,
                hashes |-> [i \in first..last |-> LeafHash(i, blocks[i - first + 1])]]
      acc   == FoldLeft(LAMBDA a, l : ReplayLevel(a, first, last, l - 1, siblings),
                        start, [l \in 1..height |-> l])
  IN  IF acc.error # "none" \/ acc.cursor # Len(siblings)
         \/ Cardinality(DOMAIN acc.hashes) # 1
      THEN <<>>
      ELSE <<acc.hashes[first \div 2^height]>>

(* Mutant: the range is not checked against the payload *)
Verify_AnyRange(p) ==
  LET first == p.offset \div p.block_size
      last  == LastBlock(p.offset, p.len, p.block_size)
  IN  ReplayRoot(p.blocks, first, last, TreeHeight(p.block_count), p.siblings) # <<>>

(* MerkleProof::verify *)
Verify(p) ==
  LET first == p.offset \div p.block_size
      last  == LastBlock(p.offset, p.len, p.block_size)
  IN  /\ p.offset < p.payload_len /\ p.offset + p.len <= p.payload_len
      /\ Len(p.blocks) = last - first + 1
      /\ ReplayRoot(p.blocks, first, last, TreeHeight(p.block_count), p.siblings) = <<p.root>>

(* MerkleProof::extract, once verified *)
Extract(p) ==
  LET step(acc, i) ==
        LET from == IF i = 1 THEN p.offset % p.block_size ELSE 0
            take == Min({Len(p.blocks[i]) - from, p.len - Len(acc)})
        IN  acc \o SubSeq(p.blocks[i], from + 1, from + take)
  IN  FoldLeft(step, <<>>, [i \in 1..Len(p.blocks) |-> i])
=============================================================================
