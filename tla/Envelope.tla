------------------------------ MODULE Envelope ------------------------------
(***************************************************************************)
(* The transform chain Config -> CompressedConfig -> EncryptedConfig        *)
(* (compression.rs, encryption.rs): a value of raw encoded bytes is framed  *)
(* by the compression layer, the result by the encryption layer.  Each      *)
(* layer has a header with the length before and after its transform, and   *)
(* its own limit.                                                          *)
(*                                                                         *)
(* A frame is its lengths.  The LZ77 output is as long as the caller of     *)
(* FrameOf says (0: lz::compress gave up); the AEAD accepts what it sealed  *)
(* and nothing else.                                                       *)
(***************************************************************************)
EXTENDS Wire

CONSTANT DEFAULT_SIZE_LIMIT

ASSUME DefaultAssumption == DEFAULT_SIZE_LIMIT \in Nat

(* plaintext_limit is the override of with_plaintext_limit, {} if unused *)
Chain == [limit : Limit, rejectTrailing : BOOLEAN, compressed : BOOLEAN,
          threshold : Nat, encrypted : BOOLEAN, plaintext_limit : Limit]

COMPRESSION_HEADER_LEN == 24
ENCRYPTION_HEADER_LEN  == 48
TAG_LEN                == 16

---------------------------------------------------------------------------
(* Limits *)

(* CompressedConfig::enforce_raw_limit: bounded even with no limit *)
RawBound(ch) == IF ch.limit = {} THEN DEFAULT_SIZE_LIMIT
                ELSE CHOOSE l \in ch.limit : TRUE

(* Mutant: the compression header is not part of the plaintext *)
PlaintextLimit_RawOnly(ch) ==
  IF ch.plaintext_limit # {} THEN ch.plaintext_limit
  ELSE IF ch.compressed THEN {RawBound(ch)} ELSE ch.limit

(* EncryptedConfig::plaintext_limit *)
PlaintextLimit(ch) ==
  IF ch.plaintext_limit # {} THEN ch.plaintext_limit
  ELSE IF ch.compressed THEN {RawBound(ch) + COMPRESSION_HEADER_LEN} ELSE ch.limit

---------------------------------------------------------------------------
(* Serialize *)

(* the compressed bytes are kept only where they are worth it *)
Stored(ch, raw, packed) ==
  IF ch.compressed /\ raw >= ch.threshold /\ packed # 0 /\ packed < raw
  THEN packed ELSE raw

FrameOf(ch, raw, packed) ==
  LET stored == Stored(ch, raw, packed)
      plain  == IF ch.compressed THEN COMPRESSION_HEADER_LEN + stored ELSE raw
  IN  [raw |-> raw, stored |-> stored, plain |-> plain,
       size |-> IF ch.encrypted THEN ENCRYPTION_HEADER_LEN + plain + TAG_LEN
                ELSE plain]

(* serialize: the core encoder's limit, then the plaintext limit *)
Refused(ch, f) ==
  \/ Exceeds(f.raw, ch.limit)
  \/ ch.encrypted /\ Exceeds(f.plain, PlaintextLimit(ch))

---------------------------------------------------------------------------
(* The outermost header: the two lengths and the COMPRESSED flag *)

HeaderLen(ch) == IF ch.encrypted THEN ENCRYPTION_HEADER_LEN
                 ELSE COMPRESSION_HEADER_LEN

Header(ch, f) ==
  IF ch.encrypted
  THEN [before |-> f.plain, after |-> f.plain + TAG_LEN, packed |-> FALSE]
  ELSE [before |-> f.raw, after |-> f.stored, packed |-> f.stored < f.raw]

(* Mutant: parse_header does not relate the two lengths *)
HeaderOk_LimitOnly(ch, h) ==
  IF ch.encrypted THEN ~Exceeds(h.before, PlaintextLimit(ch))
  ELSE h.before <= RawBound(ch)

(* parse_header and the limit of the layer *)
HeaderOk(ch, h) ==
  IF ch.encrypted
  THEN h.after = h.before + TAG_LEN /\ ~Exceeds(h.before, PlaintextLimit(ch))
  ELSE /\ IF h.packed THEN h.after < h.before ELSE h.after = h.before
       /\ h.before <= RawBound(ch)

---------------------------------------------------------------------------
(* Deserialize: what may come out of a buffer of `have` bytes that starts   *)
(* with frame f.  intact: as far as they reach, the bytes are those of f.   *)

(* an intact frame that a layer turns down *)
TooLarge(ch, f) ==
  \/ ch.encrypted /\ Exceeds(f.plain, PlaintextLimit(ch))
  \/ ch.compressed /\ f.raw > RawBound(ch)
  \/ Exceeds(f.raw, ch.limit)

Deserialize(ch, f, have, intact) ==
  IF ~intact
  THEN IF ch.encrypted THEN {"error"} ELSE {"error", "garbled"}
  ELSE IF have < f.size \/ (have > f.size /\ ch.rejectTrailing) \/ TooLarge(ch, f)
  THEN {"error"}
  ELSE {"value"}

(* deserialize_from once its header has been altered on the way: the AEAD    *)
(* covers the header, the compression layer has no checksum                 *)
DeserializeAltered(ch) ==
  IF ch.encrypted THEN {"error"} ELSE {"error", "garbled", "value"}

(* bytes that do not start with a frame have no magic *)
DeserializeOther(ch) ==
  IF ch.encrypted \/ ch.compressed THEN {"error"} ELSE {"error", "garbled"}
=============================================================================
