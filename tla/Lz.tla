--------------------------------- MODULE Lz ---------------------------------
(***************************************************************************)
(* The LZ77 codec of lz.rs: tokens in a bit stream behind the length of the *)
(* input, found through chains of the earlier positions that have the same  *)
(* hash.                                                                    *)
(*                                                                         *)
(* The widths of the two fields of a match are constants (8 and 15 in the   *)
(* code), so are the search budget of a level and the hash; which positions  *)
(* collide is immaterial to the format.  The length takes one cell of the   *)
(* stream instead of 32 bits.                                               *)
(***************************************************************************)
EXTENDS Integers, Sequences, SequencesExt, BitPack

CONSTANTS
  LengthBits,    (* of the length field of a match                          *)
  DistanceBits,  (* of its distance field                                   *)
  LiteralBits,   (* of a literal (8)                                        *)
  WordBits,      (* of the bit buffer of the writer (64)                    *)
  MaxChain,      (* candidates visited per position                         *)
  HashBuckets    (* values of the hash                                      *)

MIN_MATCH   == 3
MAX_MATCH   == MIN_MATCH + 2^LengthBits - 1
WINDOW_SIZE == 2^DistanceBits

(* hash3 of the three symbols at pos; the mixing is abstracted *)
Hash3(input, pos) == (input[pos] + input[pos + 1] + input[pos + 2]) % HashBuckets

---------------------------------------------------------------------------
(* The bit writer: whole bytes and a word of pending bits *)

Flush(w) ==
  LET whole == 8 * (Len(w.pending) \div 8)
  IN  [bytes   |-> w.bytes \o PackBits(SubSeq(w.pending, 1, whole)),
       pending |-> SubSeq(w.pending, whole + 1, Len(w.pending))]

(* write_bits, write_bit *)
WriteBits(w, n, count) ==
  LET room == IF Len(w.pending) + count > WordBits THEN Flush(w) ELSE w
      next == [room EXCEPT !.pending = @ \o BitsOf(n, count)]
  IN  IF Len(next.pending) >= WordBits THEN Flush(next) ELSE next

(* finish *)
Finish(w) == Flush(w).bytes \o PackBits(Flush(w).pending)

---------------------------------------------------------------------------
(* compress *)

LowerOf(a, b) == IF a < b THEN a ELSE b

(* the length of the match between two positions, at most max *)
MatchLen(input, candidate, pos, max) ==
  CHOOSE n \in 0..max :
    /\ \A i \in 0..n - 1 : input[candidate + i] = input[pos + i]
    /\ n < max => input[candidate + n] # input[pos + n]

(* the chain of a position: the newest first, cut by the budget and the window *)
Chain(inserted, input, pos) ==
  LET same == Reverse(SelectSeq(inserted,
                                LAMBDA p : Hash3(input, p) = Hash3(input, pos)))
      near == SelectSeq(same, LAMBDA p : p >= pos - WINDOW_SIZE)
  IN  SubSeq(near, 1, LowerOf(MaxChain, Len(near)))

(* the first of the longest matches: [len, dist] *)
BestMatch(inserted, input, pos) ==
  LET max == LowerOf(MAX_MATCH, Len(input) - pos + 1)
      step(best, c) ==
        LET len == MatchLen(input, c, pos, max)
        IN  IF len > best.len THEN [len |-> len, dist |-> pos - c] ELSE best
  IN  IF max < MIN_MATCH THEN [len |-> 0, dist |-> 0]
      ELSE FoldLeft(step, [len |-> 0, dist |-> 0], Chain(inserted, input, pos))

(* the positions from..to that have three symbols after them *)
InsertFrom(input, from, to) ==
  LET last == LowerOf(to, Len(input) - MIN_MATCH + 1)
  IN  [i \in 1..(IF last < from THEN 0 ELSE last - from + 1) |-> from + i - 1]

(* an iteration of the loop of compress, if it has come to the position pos  *)
(* (one-based) and not passed it                                            *)
CompressAt(input, s, pos) ==
  LET best  == BestMatch(s.inserted, input, pos)
      match == WriteBits(WriteBits(WriteBits(s.w, 1, 1), best.len - MIN_MATCH, LengthBits),
                         best.dist - 1, DistanceBits)
      lit   == WriteBits(WriteBits(s.w, 0, 1), input[pos], LiteralBits)
      step  == IF best.len >= MIN_MATCH THEN best.len ELSE 1
  IN  IF pos < s.pos THEN s
      ELSE [pos |-> pos + step,
            inserted |-> s.inserted \o InsertFrom(input, pos, pos + step - 1),
            w |-> IF best.len >= MIN_MATCH THEN match ELSE lit]

Compress(input) ==
  LET start == [pos |-> 1, inserted |-> <<>>, w |-> [bytes |-> <<>>, pending |-> <<>>]]
      done  == FoldLeft(LAMBDA s, pos : CompressAt(input, s, pos), start,
                        [pos \in 1..Len(input) |-> pos])
  IN  IF Len(input) < MIN_MATCH THEN <<>>
      ELSE <<Len(input)>> \o Finish(done.w)

---------------------------------------------------------------------------
(* decompress *)

LzErr(e) == [error |-> e, val |-> <<>>]

(* the symbols a match appends, each one perhaps from the match itself *)
CopyMatch(output, distance, length) ==
  FoldLeft(LAMBDA out, i : Append(out, out[Len(out) + 1 - distance]), output,
           [i \in 1..length |-> i])

RECURSIVE DecompressFrom(_, _, _, _)

DecompressFrom(bits, pos, declared, output) ==
  LET field(at, width) == ValueOfBits(SubSeq(bits, at, at + width - 1))
      is_match == bits[pos] = 1
      next     == pos + 1 + (IF is_match THEN LengthBits + DistanceBits ELSE LiteralBits)
      length   == field(pos + 1, LengthBits) + MIN_MATCH
      distance == field(pos + 1 + LengthBits, DistanceBits) + 1
  IN  IF Len(output) = declared THEN [error |-> "none", val |-> output]
      ELSE IF Len(output) > declared THEN LzErr("LengthMismatch")
      ELSE IF pos > Len(bits) \/ next - 1 > Len(bits) THEN LzErr("UnexpectedEnd")
      ELSE IF ~is_match
      THEN DecompressFrom(bits, next, declared,
                          Append(output, field(pos + 1, LiteralBits)))
      ELSE IF distance > Len(output) THEN LzErr("InvalidDistance")
      ELSE DecompressFrom(bits, next, declared, CopyMatch(output, distance, length))

(* what follows the last token is not looked at *)
Decompress(stream, expected) ==
  IF stream = <<>> THEN LzErr("UnexpectedEnd")
  ELSE IF stream[1] > expected THEN LzErr("LengthMismatch")
  ELSE DecompressFrom(UnpackBits(Tail(stream)), 1, stream[1], <<>>)
=============================================================================
