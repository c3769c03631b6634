----------------------------- MODULE DeltaLink -----------------------------
(***************************************************************************)
(* Differential update frames of delta.rs between two peers.  Each side     *)
(* keeps a DeltaTable, a FIFO table of byte strings, newest first; the      *)
(* sender's encode_updates writes a reference for a value in its table and  *)
(* a literal (which it inserts) otherwise, the receiver's decode_updates    *)
(* replays the frame on its own table.  No table is ever transmitted, so    *)
(* everything rests on the two tables staying equal.                        *)
(*                                                                         *)
(* The link between the peers is the application's: it delivers frames in   *)
(* order, but may lose a frame or cut one short.  A decode_updates that     *)
(* fails leaves the table as far as it got; the application goes on with     *)
(* the next frame.  A frame is a header followed by its entries; both calls *)
(* are loops over the entries, one step per entry here, and the two peers   *)
(* run concurrently.                                                        *)
(***************************************************************************)
EXTENDS Integers, Sequences, SequencesExt

CONSTANTS
  Values,       (* the byte strings that are exchanged                     *)
  Size,         (* their lengths in bytes                                  *)
  MaxEntries,   (* capacity of both tables                                 *)
  ByteLimit,    (* the byte limit of both configs: {} for none, {n}         *)
  MaxBatch,     (* bound: updates per frame                                *)
  MaxFrames     (* bound: calls of encode_updates                          *)

ASSUME SizeAssumption == Size \in [Values -> Nat]
ASSUME MaxEntriesAssumption == MaxEntries \in Nat
ASSUME DeltaLimitAssumption == ByteLimit \subseteq Nat
ASSUME DeltaBoundsAssumption == MaxBatch \in Nat /\ MaxFrames \in Nat

VARIABLES
  (* the sender *)
  senderTable,
  encoding,      (* inside encode_updates                                  *)
  payload,       (* the entries written by the call under way              *)
  batch,         (* the updates they stand for                             *)
  bytes,         (* payload.len()                                          *)
  frames,        (* calls so far                                           *)
  (* the link *)
  link,
  lost,          (* a frame was lost or cut, and no reset has come since    *)
  (* the receiver *)
  receiverTable,
  remaining,     (* entries left in the frame being decoded, or -1         *)
  updates,       (* the values decoded from it                             *)
  decodeError,   (* the last call of decode_updates failed                 *)
  (* history *)
  owed           (* updates that encode_updates accepted and decode_updates *)
                 (* has neither returned nor failed on                     *)

sender   == <<senderTable, encoding, payload, batch, bytes, frames>>
receiver == <<receiverTable, remaining, updates, decodeError>>
dvars    == <<senderTable, encoding, payload, batch, bytes, frames, link,
              lost, receiverTable, remaining, updates, decodeError, owed>>

HEADER_LEN == 16

---------------------------------------------------------------------------
(* DeltaTable *)

Holds(table, v) == \E i \in 1..Len(table) : table[i] = v

(* Mutant: the index is counted from the oldest entry *)
Lookup_FromBack(table, v) ==
  Len(table) - (CHOOSE i \in 1..Len(table) : table[i] = v)

(* lookup: the position of the newest occurrence, 0-based *)
Lookup(table, v) ==
  (CHOOSE i \in 1..Len(table) :
     table[i] = v /\ \A j \in 1..(i - 1) : table[j] # v) - 1

(* insert: push_front, then evict from the back *)
Insert(table, v) ==
  IF MaxEntries = 0 THEN table
  ELSE SubSeq(<<v>> \o table, 1,
              IF Len(table) + 1 > MaxEntries THEN MaxEntries ELSE Len(table) + 1)

---------------------------------------------------------------------------
(* Entries and their size on the wire: a tag byte, a varint (below 2^14     *)
(* here), the bytes of a literal                                            *)

Ref(index) == [tag |-> "ref", index |-> index]
Literal(v) == [tag |-> "literal", value |-> v]
FrameHeader(count, size, reset) ==
  [tag |-> "header", count |-> count, size |-> size, reset |-> reset]

VarintLen(n) == IF n < 128 THEN 1 ELSE 2

EntryFor(table, v) ==
  IF Holds(table, v) THEN Ref(Lookup(table, v)) ELSE Literal(v)

EntrySize(table, v) ==
  IF Holds(table, v) THEN 1 + VarintLen(Lookup(table, v))
  ELSE 1 + VarintLen(Size[v]) + Size[v]

TableAfter(table, v) == IF Holds(table, v) THEN table ELSE Insert(table, v)

OverLimit(n) == \E l \in ByteLimit : n > l

---------------------------------------------------------------------------
(* encode_updates *)

BeginEncode ==
  /\ ~encoding
  /\ frames < MaxFrames
  /\ encoding' = TRUE
  /\ payload' = <<>>
  /\ batch' = <<>>
  /\ bytes' = 0
  /\ frames' = frames + 1
  /\ UNCHANGED <<senderTable, link, lost, receiver, owed>>

EncodeOne(v) ==
  /\ encoding
  /\ Len(batch) < MaxBatch
  /\ payload' = Append(payload, EntryFor(senderTable, v))
  /\ bytes' = bytes + EntrySize(senderTable, v)
  /\ senderTable' = TableAfter(senderTable, v)
  /\ batch' = Append(batch, v)
  /\ UNCHANGED <<encoding, frames, link, lost, receiver, owed>>

(* the byte limit is enforced after the table has been updated *)
FinishEncode ==
  LET total == HEADER_LEN + bytes
  IN  /\ encoding
      /\ encoding' = FALSE
      /\ IF OverLimit(total) THEN UNCHANGED <<link, owed>>
         ELSE /\ link' = link \o <<FrameHeader(Len(batch), total, FALSE)>> \o payload
              /\ owed' = owed \o batch
      /\ payload' = <<>>
      /\ batch' = <<>>
      /\ bytes' = 0
      /\ UNCHANGED <<senderTable, frames, lost, receiver>>

(* DeltaTable::clear on the sending side, announced to the peer by a frame  *)
(* with FLAG_RESET_TABLE; no function of the crate writes that flag, so the *)
(* frame is the application's                                               *)
ClearBoth ==
  /\ ~encoding
  /\ frames < MaxFrames
  /\ frames' = frames + 1
  /\ senderTable' = <<>>
  /\ link' = Append(link, FrameHeader(0, HEADER_LEN, TRUE))
  /\ UNCHANGED <<encoding, payload, batch, bytes, lost, receiver, owed>>

---------------------------------------------------------------------------
(* decode_updates *)

(* Mutant: FLAG_RESET_TABLE is ignored *)
TableAtHeader_IgnoresReset(h) == receiverTable

TableAtHeader(h) == IF h.reset THEN <<>> ELSE receiverTable

Drop(s, n) == SubSeq(s, n + 1, Len(s))

(* the call fails with n entries of its frame unread *)
FailDecode(n) ==
  /\ decodeError' = TRUE
  /\ link' = Drop(link, n)
  /\ owed' = Drop(owed, Len(updates) + remaining)
  /\ remaining' = -1
  /\ updates' = <<>>
  /\ UNCHANGED receiverTable

BeginDecode ==
  LET header == Head(link)
  IN  /\ link # <<>>
      /\ remaining = -1
      /\ IF OverLimit(header.size)
         THEN /\ decodeError' = TRUE
              /\ link' = Drop(link, 1 + header.count)
              /\ owed' = Drop(owed, header.count)
              /\ UNCHANGED <<lost, receiverTable, remaining>>
         ELSE /\ decodeError' = FALSE
              /\ link' = Tail(link)
              /\ lost' = (lost /\ ~header.reset)
              /\ receiverTable' = TableAtHeader(header)
              /\ remaining' = header.count
              /\ UNCHANGED owed
      /\ UNCHANGED <<sender, updates>>

DecodeRef ==
  LET index == Head(link).index + 1
  IN  /\ remaining > 0
      /\ Head(link).tag = "ref"
      /\ IF index \in 1..Len(receiverTable)
         THEN /\ updates' = Append(updates, receiverTable[index])
              /\ link' = Tail(link)
              /\ remaining' = remaining - 1
              /\ UNCHANGED <<receiverTable, decodeError, owed>>
         ELSE FailDecode(remaining)
      /\ UNCHANGED <<sender, lost>>

DecodeLiteral ==
  LET v == Head(link).value
  IN  /\ remaining > 0
      /\ Head(link).tag = "literal"
      /\ link' = Tail(link)
      /\ receiverTable' = Insert(receiverTable, v)
      /\ updates' = Append(updates, v)
      /\ remaining' = remaining - 1
      /\ UNCHANGED <<sender, lost, decodeError, owed>>

FinishDecode ==
  /\ remaining = 0
  /\ remaining' = -1
  /\ owed' = Drop(owed, Len(updates))
  /\ updates' = <<>>
  /\ UNCHANGED <<sender, link, lost, receiverTable, decodeError>>

---------------------------------------------------------------------------
(* The link *)

LoseFrame ==
  LET count == Head(link).count
  IN  /\ link # <<>> /\ remaining = -1
      /\ link' = Drop(link, 1 + count)
      /\ owed' = Drop(owed, count)
      /\ lost' = TRUE
      /\ UNCHANGED <<sender, receiver>>

(* the frame ends here: the next read of the cursor fails *)
CutFrame ==
  /\ remaining > 0
  /\ FailDecode(remaining)
  /\ lost' = TRUE
  /\ UNCHANGED sender

---------------------------------------------------------------------------
DeltaInit ==
  /\ senderTable = <<>>
  /\ encoding = FALSE
  /\ payload = <<>>
  /\ batch = <<>>
  /\ bytes = 0
  /\ frames = 0
  /\ link = <<>>
  /\ receiverTable = <<>>
  /\ remaining = -1
  /\ updates = <<>>
  /\ decodeError = FALSE
  /\ owed = <<>>
  /\ lost = FALSE

DeltaNext ==
  \/ BeginEncode \/ (\E v \in Values : EncodeOne(v)) \/ FinishEncode
  \/ ClearBoth
  \/ BeginDecode \/ DecodeRef \/ DecodeLiteral \/ FinishDecode
  \/ LoseFrame \/ CutFrame

DeltaSpec == DeltaInit /\ [][DeltaNext]_dvars

---------------------------------------------------------------------------
(* Properties *)

(***************************************************************************)
(* What the receiver's application is handed is what the sender's passed to *)
(* encode_updates, in order: a reference always resolves, and to the value  *)
(* it was written for, although it is resolved in the receiver's table, any *)
(* number of evictions later than the sender wrote it.  A frame lost or cut *)
(* may break that, until a frame with FLAG_RESET_TABLE arrives.             *)
(***************************************************************************)
DeliversInOrder == lost \/ (~decodeError /\ IsPrefix(updates, owed))

(***************************************************************************)
(* "Both encoder and decoder maintain identical tables by processing the    *)
(* same update stream" (delta.rs): when nothing is in flight the two tables *)
(* are equal, also after a loss once the tables were reset.                 *)
(***************************************************************************)
TablesAgree ==
  ~encoding /\ link = <<>> /\ remaining <= 0 /\ ~lost => senderTable = receiverTable
===========================================================================
