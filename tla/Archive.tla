------------------------------- MODULE Archive -------------------------------
(***************************************************************************)
(* Archives (archive.rs): a value in the flat layout of ArchiveCodec behind *)
(* an envelope that holds the root of a Merkle tree over the payload, and   *)
(* the internal nodes of the tree after it.  A writer publishes the file    *)
(* and may fail or die half way; storage may damage the file; a reader      *)
(* opens it, completely or by its envelope only, and serves proofs of       *)
(* ranges to a client that knows the root.                                  *)
(*                                                                         *)
(* The body of a file is a sequence of cells: a payload byte b is <<b>>, a  *)
(* hash takes one cell instead of 32 bytes.  The fields of the envelope     *)
(* that have one legal value (magic, version, flags, lengths, reserved      *)
(* bytes) are one field.  The contract of the mapping is kept: an open      *)
(* archive does not see later changes of its file.                          *)
(***************************************************************************)
EXTENDS ArchiveCodec, Merkle

CONSTANTS
  Roots,        (* the archives that may be built: <<type, value>>          *)
  BlockSizes,   (* the Merkle block sizes of the writers                    *)
  MinBlock,     (* the smallest block size an envelope may declare (32)     *)
  CountBits,    (* the width of the block count (64)                        *)
  Limits,       (* the max_file_size of writers and readers                 *)
  Faults,       (* what damage writes over a number of the envelope         *)
  Cuts,         (* where an interrupted write may leave the file            *)
  Offsets,      (* the ranges clients ask proofs of: where they begin       *)
  Lens,         (* and how long they are                                    *)
  Bases         (* addresses a file may be mapped at, modulo 8              *)

ASSUME MinBlockAssumption  == MinBlock \in Nat \ {0}
ASSUME CountBitsAssumption == CountBits \in 1..31
ASSUME BasesAssumption     == Bases \subseteq 0..7

HEADER_LEN == 128
ROOT_SCHEMA_ID == 7

VARIABLES
  root,         (* <<type, value>> of the archive                           *)
  built,        (* its complete file, as OwnedArchive holds it, or <<>>     *)
  file,         (* the file at the path: the first cells of built, damaged  *)
                (* perhaps, or <<>>                                         *)
  writer,       (* where write_new is                                       *)
  damaged,      (* the part of the file that storage changed                *)
  opened,       (* the reader: how it opened what, or why not               *)
  proof,        (* the proof it has built last                              *)
  answer        (* what the client has extracted from it                    *)

archiveVars == <<root, built, file, writer, damaged, opened, proof, answer>>

---------------------------------------------------------------------------
(* The envelope.  A file is [size, header, body]: size bytes are there, the *)
(* header if size reaches over it, and the cells after it.                  *)

Payload(f) == SubSeq(f.body, 1, f.header.payload_len)
Section(f) == SubSeq(f.body, f.header.payload_len + 1,
                     f.header.payload_len + f.header.hash_len)

Cells(bytes) == [i \in 1..Len(bytes) |-> <<bytes[i]>>]

(* what a cell contributes to the payload: a hash is no byte of a value *)
Bytes(cells) == [i \in 1..Len(cells) |-> IF Len(cells[i]) = 1 THEN cells[i][1] ELSE 0]

IsPowerOfTwo(n) == \E k \in 0..30 : n = 2^k

(* tree_height doubles a word until it reaches the count *)
HeightDiverges(block_count) == block_count > 2^(CountBits - 1)

(***************************************************************************)
(* parse_header: the error an envelope is refused with, or None.  "Hang"    *)
(* when tree_height does not return.                                        *)
(***************************************************************************)
ParseHeader(f, limit) ==
  LET h == f.header
      valid == /\ h.fixed
               /\ h.schema_id # 0
               /\ h.file_len = f.size
               /\ f.size >= HEADER_LEN + h.payload_len
               /\ IsPowerOfTwo(h.block_size) /\ h.block_size >= MinBlock
               /\ h.block_count # 0
               /\ h.hash_offset = HEADER_LEN + h.payload_len
               /\ h.hash_offset + h.hash_len = h.file_len
  IN  IF f.size > limit THEN "SizeLimit"
      ELSE IF f.size < HEADER_LEN \/ ~valid THEN "InvalidHeader"
      ELSE IF HeightDiverges(h.block_count) THEN "Hang"
      ELSE IF h.hash_len # 2^TreeHeight(h.block_count) - 1 THEN "InvalidHeader"
      ELSE None

(* Mutant: the payload is trusted *)
ValidateArchive_NoTree(f, type, limit, base) ==
  LET header == ParseHeader(f, limit)
  IN  IF header # None THEN header
      ELSE IF f.header.schema_id # ROOT_SCHEMA_ID THEN "SchemaMismatch"
      ELSE IF ~CheckAt(Bytes(Payload(f)), type, 0) THEN "Validation"
      ELSE None

(* validate_archive *)
ValidateArchive(f, type, limit, base) ==
  LET h       == f.header
      header  == ParseHeader(f, limit)
      levels  == MerkleLevels(Payload(f), h.block_size)
      height  == TreeHeight(h.block_count)
  IN  IF header # None THEN header
      ELSE IF h.schema_id # ROOT_SCHEMA_ID THEN "SchemaMismatch"
      ELSE IF (base + HEADER_LEN) % AlignOf(type) # 0 THEN "Validation"
      ELSE IF \/ Last(levels)[1] # h.root
              \/ BlockCount(Payload(f), h.block_size) # h.block_count
              \/ height > 0 /\ Section(f)[SectionPosition(height, height, 0) + 1] # h.root
      THEN "Merkle"
      ELSE IF ~CheckAt(Bytes(Payload(f)), type, 0) THEN "Validation"
      ELSE None

(* build, up to its own validation *)
Assemble(type, value, size) ==
  LET payload == Cells(ToArchive(type, value))
      levels  == MerkleLevels(payload, size)
      section == HashSection(levels)
      total   == HEADER_LEN + Len(payload) + Len(section)
  IN  [size   |-> total,
       header |-> [fixed |-> TRUE, schema_id |-> ROOT_SCHEMA_ID,
                   payload_len |-> Len(payload), file_len |-> total,
                   block_size |-> size, block_count |-> BlockCount(payload, size),
                   root |-> Last(levels)[1],
                   hash_offset |-> HEADER_LEN + Len(payload), hash_len |-> Len(section)],
       body   |-> payload \o section]

---------------------------------------------------------------------------
(* The writer *)

Build(size, limit) ==
  LET f == Assemble(root[1], root[2], size)
  IN  /\ writer = "start"
      /\ IsPowerOfTwo(size) /\ size >= MinBlock
      /\ IF f.size <= limit /\ ValidateArchive(f, root[1], limit, 0) = None
         THEN built' = <<f>> /\ writer' = "built"
         ELSE writer' = (IF f.size > limit THEN "too large" ELSE "invalid") /\ UNCHANGED built
      /\ UNCHANGED <<root, file, damaged, opened, proof, answer>>

(* the first n bytes of the archive *)
Prefix(n) ==
  [built[1] EXCEPT !.size = n,
                   !.body = SubSeq(@, 1, IF n > HEADER_LEN THEN n - HEADER_LEN ELSE 0)]

(* create_new fails if the path exists, then nothing is written *)
CreateNew ==
  /\ writer = "built"
  /\ IF file = <<>> THEN file' = <<Prefix(0)>> /\ writer' = "created"
                    ELSE writer' = "io error" /\ UNCHANGED file
  /\ UNCHANGED <<root, built, damaged, opened, proof, answer>>

(* write_all writes everything, or some of it and fails *)
WriteAll(n) ==
  /\ writer = "created"
  /\ n <= built[1].size
  /\ file' = <<Prefix(n)>>
  /\ writer' = IF n = built[1].size THEN "written" ELSE "failed"
  /\ UNCHANGED <<root, built, damaged, opened, proof, answer>>

SyncAll(ok) ==
  /\ writer = "written"
  /\ writer' = IF ok THEN "published" ELSE "failed"
  /\ UNCHANGED <<root, built, file, damaged, opened, proof, answer>>

(* the partial file is removed, unless that fails too *)
RemovePartial(ok) ==
  /\ writer = "failed"
  /\ file' = IF ok THEN <<>> ELSE file
  /\ writer' = "io error"
  /\ UNCHANGED <<root, built, damaged, opened, proof, answer>>

(***************************************************************************)
(* The writer dies: what it has not synced may be lost.  It is started      *)
(* again and finds the path taken.                                          *)
(***************************************************************************)
Crash(n) ==
  /\ writer \in {"created", "written", "failed"}
  /\ n <= file[1].size
  /\ file' = <<Prefix(n)>>
  /\ writer' = "built"
  /\ UNCHANGED <<root, built, damaged, opened, proof, answer>>

---------------------------------------------------------------------------
(* Storage damages one field of the envelope or one cell of a published file. *)

DamageHeader(field, n) ==
  /\ writer = "published" /\ damaged = "nothing" /\ opened.how = "closed"
  /\ file' = <<[file[1] EXCEPT !.header[field] = n]>>
  /\ damaged' = "header"
  /\ UNCHANGED <<root, built, writer, opened, proof, answer>>

DamageCell(i) ==
  /\ writer = "published" /\ damaged = "nothing" /\ opened.how = "closed"
  /\ i <= Len(file[1].body)
  /\ file' = <<[file[1] EXCEPT !.body[i] =
                  IF Len(@) = 1 THEN <<(@[1] + 1) % 128>> ELSE <<"damaged">>]>>
  /\ damaged' = IF i <= file[1].header.payload_len THEN "payload" ELSE "section"
  /\ UNCHANGED <<root, built, writer, opened, proof, answer>>

---------------------------------------------------------------------------
(* The reader *)

Shut(why) == [how |-> why, base |-> 0, archive |-> <<>>]

(* MappedArchive::open, and access of a slice at any address *)
Open(limit, base) ==
  LET e == ValidateArchive(file[1], root[1], limit, base)
  IN  /\ opened.how = "closed" /\ file # <<>>
      /\ opened' = IF e # None THEN Shut(e)
                   ELSE [how |-> "open", base |-> base, archive |-> file]
      /\ UNCHANGED <<root, built, file, writer, damaged, proof, answer>>

OpenHeaderOnly(limit) ==
  LET e == ParseHeader(file[1], limit)
  IN  /\ opened.how = "closed" /\ file # <<>>
      /\ opened' = IF e # None THEN Shut(e)
                   ELSE IF file[1].header.schema_id # ROOT_SCHEMA_ID THEN Shut("SchemaMismatch")
                   ELSE [how |-> "header only", base |-> 0, archive |-> file]
      /\ UNCHANGED <<root, built, file, writer, damaged, proof, answer>>

ProofFor(offset, len) ==
  LET a == opened.archive[1]
  IN  /\ opened.how \in {"open", "header only"} /\ proof.error = "not yet"
      /\ proof' = BuildProof(a.header, Payload(a), Section(a), offset, len)
      /\ UNCHANGED <<root, built, file, writer, damaged, opened, answer>>

(* the client verifies the proof, extracts its bytes and checks the root *)
ClientExtracts ==
  /\ proof.error = None /\ answer.status = "waiting"
  /\ answer' = IF ~Verify(proof) THEN [status |-> "rejected", bytes |-> <<>>]
               ELSE IF proof.root # built[1].header.root
                    THEN [status |-> "wrong root", bytes |-> <<>>]
               ELSE IF Len(Extract(proof)) # proof.len
                    THEN [status |-> "rejected", bytes |-> <<>>]
               ELSE [status |-> "accepted", bytes |-> Extract(proof)]
  /\ UNCHANGED <<root, built, file, writer, damaged, opened, proof>>

---------------------------------------------------------------------------

ArchiveInit ==
  /\ root \in Roots
  /\ built = <<>> /\ file = <<>>
  /\ writer = "start" /\ damaged = "nothing"
  /\ opened = Shut("closed")
  /\ proof = [error |-> "not yet"]
  /\ answer = [status |-> "waiting", bytes |-> <<>>]

FileSize == IF built = <<>> THEN 0 ELSE built[1].size

HeaderNumbers == {"schema_id", "payload_len", "file_len", "block_size",
                  "block_count", "hash_offset", "hash_len"}

ArchiveNext ==
  \/ \E size \in BlockSizes, limit \in Limits : Build(size, limit)
  \/ CreateNew
  \/ \E n \in Cuts \union {FileSize - 1, FileSize} : WriteAll(n) \/ Crash(n)
  \/ \E ok \in BOOLEAN : SyncAll(ok) \/ RemovePartial(ok)
  \/ \E field \in HeaderNumbers, n \in Faults : DamageHeader(field, n)
  \/ \E i \in 1..FileSize : DamageCell(i)
  \/ \E limit \in Limits, base \in Bases : Open(limit, base)
  \/ \E limit \in Limits : OpenHeaderOnly(limit)
  \/ \E offset \in Offsets, len \in Lens : ProofFor(offset, len)
  \/ ClientExtracts

---------------------------------------------------------------------------
(* Properties *)

(***************************************************************************)
(* The writer refuses no value that fits.  Whatever it and storage did, an  *)
(* archive that opens completely holds the payload that was built, and its  *)
(* root reads the value that was archived: root() finds the mirror whole    *)
(* and every accessor stays inside the payload.                             *)
(***************************************************************************)
OpenedReadsBack ==
  /\ writer # "invalid"
  /\ opened.how = "open" =>
    LET a     == opened.archive[1]
        bytes == Bytes(Payload(a))
    IN  /\ Payload(a) = Payload(built[1])
        /\ RootFits(bytes, root[1])
        /\ Inside(bytes, opened.base, root[1], 0)
        /\ ReadMirror(bytes, opened.base, root[1], 0) = root[2]

(***************************************************************************)
(* What a client accepts under the root it knows are the bytes of the       *)
(* original payload in the range the proof names, however the file behind   *)
(* the proof was opened and damaged.                                        *)
(***************************************************************************)
ExtractedIsOriginal ==
  answer.status = "accepted" =>
    Cells(Bytes(answer.bytes)) = SubSeq(Payload(built[1]), proof.offset + 1,
                                        proof.offset + proof.len)

(***************************************************************************)
(* A complete open leaves no proof that reads outside of the archive, and   *)
(* every range of an undamaged one has a proof that verifies; it carries no *)
(* more than the blocks of the range and two siblings a level.              *)
(***************************************************************************)
RangesAreProved ==
  /\ opened.how = "open" => proof.error # "Panic"
  /\ opened.how \in {"open", "header only"} /\ damaged = "nothing" =>
    /\ proof.error \in {"not yet", None, "Merkle"}
    /\ proof.error = None =>
         /\ answer.status \in {"waiting", "accepted"}
         /\ Len(proof.siblings) <= 2 * TreeHeight(proof.block_count)
=============================================================================
