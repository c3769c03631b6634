---------------------------- MODULE Fingerprint ----------------------------
(***************************************************************************)
(* Fingerprint frames (frame.rs, FingerprintedConfig of schema.rs): a value  *)
(* in the self-describing format behind the hash of its type and of the     *)
(* configuration it was written with.  The values are strings, of one of    *)
(* several types that are encoded alike (&str, String).                     *)
(*                                                                         *)
(* A configuration has the byte order as it was declared (endian), beside   *)
(* the one in use (little).  The hash is a number that has what was hashed  *)
(* as its digits, so that it has no collisions; it takes one cell, and so   *)
(* do the magic, the version and the flags.                                 *)
(***************************************************************************)
EXTENDS Batch

CONSTANT TypeIdentity    (* TYPE_FINGERPRINT of each type, below 32 *)

FRAME_MAGIC == 82
FRAME_VERSION == 1
FRAME_HEADER == 4

EndianDigit == [little |-> 1, big |-> 2, native |-> 3]

OptionValue(o) == IF o = {} THEN 0 ELSE 1 + CHOOSE n \in o : TRUE

HashDigits(digits) == FoldLeft(LAMBDA hash, n : 32 * hash + n, 0, digits)

(* config_fingerprint; the depth limit is not hashed *)
ConfigFingerprint(type, cfg) ==
  HashDigits(<<TypeIdentity[type], EndianDigit[cfg.endian],
               IF cfg.variable THEN 2 ELSE 1, IF cfg.rejectTrailing THEN 2 ELSE 1,
               OptionValue(cfg.limit), OptionValue(cfg.collection_limit)>>)

EncodeFrameHeader(type, cfg) ==
  <<FRAME_MAGIC, FRAME_VERSION, 0, ConfigFingerprint(type, cfg)>>

(* validate_header: the error, or None *)
ValidateHeader(type, cfg, input) ==
  CASE Len(input) < FRAME_HEADER -> "InvalidFrame"
    [] SubSeq(input, 1, 3) # <<FRAME_MAGIC, FRAME_VERSION, 0>> -> "InvalidFrame"
    [] input[4] # ConfigFingerprint(type, cfg) -> "SchemaMismatch"
    [] OTHER -> None

(* FingerprintedConfig::serialize; serialize_into writes the same bytes *)
SerializeFramed(type, cfg, value) ==
  LET payload == SerializeItem(cfg, value)
  IN  IF payload.error # None THEN payload
      ELSE BOk(EncodeFrameHeader(type, cfg) \o payload.val)

FramedSize(cfg, value) ==
  LET payload == SerializeItem(cfg, value)
  IN  IF payload.error # None THEN payload ELSE BOk(FRAME_HEADER + Len(payload.val))

(* to_slice of ser.rs: how many bytes were written, or are required *)
ItemIntoSlice(cfg, value, room) ==
  LET payload == SerializeItem(cfg, value)
  IN  CASE payload.error # None -> payload
        [] Len(payload.val) > room -> [error |-> "BufferTooSmall", val |-> Len(payload.val)]
        [] OTHER -> BOk(Len(payload.val))

(* serialize_into_slice *)
FramedIntoSlice(cfg, value, room) ==
  LET size    == FramedSize(cfg, value)
      payload == ItemIntoSlice(cfg, value, room - FRAME_HEADER)
  IN  IF room < FRAME_HEADER
      THEN IF size.error # None THEN size ELSE [size EXCEPT !.error = "BufferTooSmall"]
      ELSE IF payload.error \in {None, "BufferTooSmall"}
      THEN [payload EXCEPT !.val = FRAME_HEADER + @]
      ELSE payload

(* deserialize *)
DeserializeFramed(type, cfg, input) ==
  LET header == ValidateHeader(type, cfg, input)
  IN  IF header # None THEN BErr(header)
      ELSE DeserializeItem(cfg, SubSeq(input, FRAME_HEADER + 1, Len(input)))

(* deserialize_from: the header, and then all there is up to the limit *)
DeserializeFramedFrom(type, cfg, input) ==
  LET header == ValidateHeader(type, cfg, SubSeq(input, 1, FRAME_HEADER))
      rest   == SubSeq(input, FRAME_HEADER + 1, Len(input))
  IN  CASE Len(input) < FRAME_HEADER -> BErr("Io")
        [] header # None -> BErr(header)
        [] Exceeds(Len(rest), cfg.limit) -> BErr("SizeLimit")
        [] OTHER -> DeserializeItem(cfg, rest)
=============================================================================
