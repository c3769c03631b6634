-------------------------------- MODULE Batch --------------------------------
(***************************************************************************)
(* The parallel batch frame (parallel.rs): independent payloads behind a     *)
(* table of their lengths.  The workers are ParallelMap, which implements    *)
(* OrderedMap: the results in item order, or the first failure.  The items   *)
(* are strings in the self-describing format.                               *)
(*                                                                         *)
(* Magic, version and flags are one cell of a frame, the count and each     *)
(* length are one cell, a byte of a payload is one cell; byte limits count  *)
(* cells.                                                                   *)
(***************************************************************************)
EXTENDS Wire, SequencesExt

BATCH_MAGIC == 1
BATCH_HEADER == 2

BErr(e) == [error |-> e, val |-> <<>>]
BOk(v)  == [error |-> None, val |-> v]

(* parallel_map over results: all values, or the first error *)
Ordered(results) ==
  LET failed == {i \in 1..Len(results) : results[i].error # None}
  IN  IF failed = {} THEN BOk([i \in 1..Len(results) |-> results[i].val])
      ELSE BErr(results[CHOOSE i \in failed : \A j \in failed : i <= j].error)

(* Config::serialize of a string *)
SerializeItem(cfg, s) ==
  LET bytes == <<TAG_STRING>> \o IntegerBytes(cfg, Len(s), 8, FALSE) \o s
  IN  IF Exceeds(Len(bytes), cfg.limit) THEN BErr("SizeLimit") ELSE BOk(bytes)

(* Config::deserialize of a string *)
DeserializeItem(cfg, bytes) ==
  LET r == ReadToken(cfg, bytes, 0)
  IN  CASE r.error # None -> BErr(r.error)
        [] r.val.kind # "str" -> BErr("InvalidType")
        [] cfg.rejectTrailing /\ r.cursor # Len(bytes) -> BErr("TrailingBytes")
        [] OTHER -> BOk(r.val.val)

(* ParallelConfig::serialize_batch *)
SerializeBatch(cfg, values) ==
  LET payloads == Ordered([i \in 1..Len(values) |-> SerializeItem(cfg, values[i])])
      lengths  == [i \in 1..Len(values) |-> Len(payloads.val[i])]
      frame    == <<BATCH_MAGIC, Len(values)>> \o lengths \o FlattenSeq(payloads.val)
  IN  CASE Exceeds(Len(values), cfg.collection_limit) -> BErr("CollectionLimit")
        [] payloads.error # None -> payloads
        [] Exceeds(Len(frame), cfg.limit) -> BErr("SizeLimit")
        [] OTHER -> BOk(frame)

(* the payloads of these lengths, from the first cell behind the table on *)
Cut(cells, start, lengths) ==
  LET end[i \in 0..Len(lengths)] == IF i = 0 THEN start ELSE end[i - 1] + lengths[i]
  IN  [i \in 1..Len(lengths) |-> SubSeq(cells, end[i - 1] + 1, end[i])]

(* ParallelConfig::deserialize_batch *)
DeserializeBatch(cfg, frame) ==
  LET count   == frame[2]
      start   == BATCH_HEADER + count
      lengths == SubSeq(frame, BATCH_HEADER + 1, start)
      bytes   == FoldLeft(LAMBDA total, n : total + n, 0, lengths)
  IN  CASE Exceeds(Len(frame), cfg.limit) -> BErr("SizeLimit")
        [] frame = <<>> -> BErr("UnexpectedEnd")
        [] frame[1] # BATCH_MAGIC -> BErr("InvalidFrame")
        [] Len(frame) < BATCH_HEADER -> BErr("UnexpectedEnd")
        [] Exceeds(count, cfg.collection_limit) -> BErr("CollectionLimit")
        [] start > Len(frame) -> BErr("UnexpectedEnd")
        [] start + bytes > Len(frame) -> BErr("UnexpectedEnd")
        [] cfg.rejectTrailing /\ start + bytes # Len(frame) -> BErr("TrailingBytes")
        [] OTHER -> LET payloads == Cut(frame, start, lengths)
                    IN  Ordered([i \in 1..count |-> DeserializeItem(cfg, payloads[i])])
=============================================================================
