------------------------------ MODULE DeltaInt ------------------------------
(***************************************************************************)
(* Single integers against a base that both sides hold (encode_delta and     *)
(* decode_delta of delta.rs): the difference as a zig-zag LEB128 varint.     *)
(*                                                                         *)
(* DeltaBits stands for the 128 bits of the code.  What matters is that the  *)
(* last group of seven bits has room for 128 % 7 = 2 of them.               *)
(***************************************************************************)
EXTENDS Wire, SequencesExt

CONSTANT DeltaBits

ASSUME DeltaBitsAssumption == DeltaBits \in Nat /\ DeltaBits % 7 = 2

DErr(e) == [error |-> e, val |-> 0]

(* checked_sub, checked_add *)
Fits(n) == n \in -(2^(DeltaBits - 1))..(2^(DeltaBits - 1) - 1)

Zigzag(n)   == IF n < 0 THEN -2 * n - 1 ELSE 2 * n
Unzigzag(u) == IF u % 2 = 1 THEN -((u + 1) \div 2) ELSE u \div 2

(* write_varint *)
Leb128(u) ==
  LET groups == CHOOSE k \in 1..(DeltaBits \div 7 + 1) :
                  u < 128^k /\ (k > 1 => u >= 128^(k - 1))
  IN  [i \in 1..groups |-> ((u \div 128^(i - 1)) % 128) + (IF i < groups THEN 128 ELSE 0)]

(* the bits of a group at this shift *)
GroupFits(low, shift) == shift < DeltaBits /\ low * 2^shift < 2^DeltaBits

(* DeltaCursor::varint, at the start of the input *)
ReadLeb128(input) ==
  LET low(i) == input[i] % 128
      ends   == {i \in 1..Len(input) : input[i] < 128}
      over   == {i \in 1..Len(input) : ~GroupFits(low(i), 7 * (i - 1))}
      last   == CHOOSE i \in ends : \A j \in ends : i <= j
      value  == FoldLeft(LAMBDA v, i : v + low(i) * 2^(7 * (i - 1)), 0,
                         [i \in 1..last |-> i])
  IN  CASE \E i \in over : \A j \in ends : i <= j -> Res(0, "Delta", 0)
        [] ends = {} -> Res(0, "UnexpectedEnd", 0)
        [] OTHER -> Res(last, None, value)

EncodeDelta(base, n) ==
  IF ~Fits(n - base) THEN DErr("Delta")
  ELSE [error |-> None, val |-> Leb128(Zigzag(n - base))]

DecodeDelta(base, input) ==
  LET r == ReadLeb128(input)
      n == base + Unzigzag(r.val)
  IN  CASE r.error # None -> DErr(r.error)
        [] r.cursor # Len(input) -> DErr("TrailingBytes")
        [] ~Fits(n) -> DErr("Delta")
        [] OTHER -> [error |-> None, val |-> n]
=============================================================================
