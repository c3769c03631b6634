------------------------------ MODULE Bounded ------------------------------
(***************************************************************************)
(* Resource-bounded decoding (bounded.rs): the constants that the            *)
(* DecodeBounded derive computes for a type, the limits that a budget        *)
(* enforces, and the evidence that decode_bounded returns; beside them what  *)
(* a decode of the value really takes.                                       *)
(*                                                                         *)
(* A type is [k, size, ...], size its size_of; "null" is a unit struct or a  *)
(* unit variant.  Of a value only what costs something is kept: an integer   *)
(* is the length of its varint, a char and a string their bytes, a struct   *)
(* its fields and the extents of the unknown fields that the decoder skips. *)
(* The extent of a value is [read, heap, depth, most]: input bytes, heap     *)
(* bytes, nesting, and the elements of its largest container.                *)
(***************************************************************************)
EXTENDS Wire, SequencesExt, FiniteSetsExt

Infinite  == 1000000            (* usize::MAX *)
MAX_DEPTH == 128
DEFAULT_SIZE_LIMIT == 100000    (* the default of every unbounded dimension *)

Add(a, b) == IF a + b >= Infinite THEN Infinite ELSE a + b
Mul(a, n) == IF a = Infinite /\ n > 0 THEN Infinite ELSE a * n
Total(s)  == FoldLeft(Add, 0, s)
Most(s)   == Max({0} \union {s[i] : i \in 1..Len(s)})

ScalarInput == [unit |-> 1, bool |-> 1, char |-> 13, u8 |-> 9, u32 |-> 9, u64 |-> 10,
              u128 |-> 18, f32 |-> 5, f64 |-> 9]

(* an object key, with the longest length prefix *)
KeySize(name) == 9 + name

---------------------------------------------------------------------------
(* The algebra.  [B, A, D, W, S] of a type. *)

RECURSIVE Cost(_)

(* the parts of a tuple, array or struct, a key before each field *)
Parts(parts, keys) ==
  LET c == [i \in 1..Len(parts) |-> Cost(parts[i])]
      key(i) == IF keys = <<>> THEN 0 ELSE KeySize(keys[i])
      every(f) == [i \in 1..Len(c) |-> c[i][f]]
  IN  [B |-> Add(2, Total([i \in 1..Len(c) |-> Add(c[i].B, key(i))])),
       A |-> Total(every("A")),
       D |-> 1 + Most(every("D")),
       W |-> Add(2, Total([i \in 1..Len(c) |-> Add(c[i].W, key(i))])),
       S |-> Most(every("S"))]

Cost(type) ==
  LET inner == Cost(type.of)
      collection(s) == [B |-> Infinite, A |-> Infinite, D |-> 1 + inner.D,
                        W |-> Infinite, S |-> s]
  IN  CASE type.k \in DOMAIN ScalarInput ->
             [B |-> ScalarInput[type.k], A |-> 0, D |-> 0, W |-> ScalarInput[type.k] + 1, S |-> 0]
        [] type.k = "null"   -> [B |-> 1, A |-> 0, D |-> 0, W |-> 1, S |-> 0]
        [] type.k = "option" -> [inner EXCEPT !.B = Max({1, @}), !.W = Add(1, @)]
        [] type.k = "array"  -> Parts([i \in 1..type.n |-> type.of], <<>>)
        [] type.k = "tuple"  -> Parts(type.of, <<>>)
        [] type.k = "struct" -> Parts(type.of, type.keys)
        [] type.k = "enum" ->
             LET c == [i \in 1..Len(type.of) |-> Cost(type.of[i])]
                 worst(f, key) == Most([i \in 1..Len(c) |-> Add(key * KeySize(type.keys[i]), c[i][f])])
             IN  [B |-> Add(2, worst("B", 1)), A |-> worst("A", 0), D |-> 1 + worst("D", 0),
                  W |-> Add(2, worst("W", 1)), S |-> worst("S", 0)]
        [] type.k = "string" -> [B |-> Infinite, A |-> Infinite, D |-> 1, W |-> Infinite, S |-> 0]
        [] type.k = "str"    -> [B |-> Infinite, A |-> 0, D |-> 0, W |-> Infinite, S |-> 0]
        [] type.k = "vec"    -> collection(Max({type.of.size, inner.S}))
        [] type.k = "box"    -> [inner EXCEPT !.A = Add(@, type.of.size),
                                              !.S = Max({type.of.size, @})]

StaticallyBounded(type) == Cost(type).A # Infinite

---------------------------------------------------------------------------
(* Budgets *)

Finite(n) == IF n = Infinite THEN DEFAULT_SIZE_LIMIT ELSE n

(* from_type *)
FromType(type) ==
  [max_input |-> Finite(Cost(type).B), max_alloc |-> Finite(Cost(type).A),
   max_depth |-> Cost(type).D, max_work |-> Finite(Cost(type).W)]

PerElement(type) == Cost(type).S * Max({1, Cost(type).D})

(* Mutant: the nesting of collections is not counted *)
EnforcedLimits_Flat(type, budget) ==
  LET bytes == Min({budget.max_input, budget.max_work})
  IN  [byte_limit |-> bytes,
       collection_limit |-> IF StaticallyBounded(type) \/ Cost(type).S = 0 THEN bytes
                            ELSE Min({bytes, budget.max_alloc}),
       depth_limit |-> Min({budget.max_depth, MAX_DEPTH})]

(* derive_enforced_limits *)
EnforcedLimits(type, budget) ==
  LET bytes == Min({budget.max_input, budget.max_work})
  IN  [byte_limit |-> bytes,
       collection_limit |-> IF StaticallyBounded(type) \/ PerElement(type) = 0 THEN bytes
                            ELSE Min({bytes, budget.max_alloc \div PerElement(type)}),
       depth_limit |-> Min({budget.max_depth, MAX_DEPTH})]

---------------------------------------------------------------------------
(* What the decode of a value takes *)

Leaf(read, heap) == [read |-> read, heap |-> heap, depth |-> 0, most |-> 0]

(* a container: its tag and terminator, what is before and in its elements *)
Around(parts, before) ==
  LET every(f) == [i \in 1..Len(parts) |-> parts[i][f]]
  IN  [read  |-> 2 + before + Total(every("read")), heap |-> Total(every("heap")),
       depth |-> 1 + Most(every("depth")), most |-> Max({Len(parts), Most(every("most"))})]

RECURSIVE Extent(_, _)

Extents(types, values) == [i \in 1..Len(values) |-> Extent(types[i], values[i])]

Extent(type, v) ==
  CASE type.k \in {"unit", "bool", "null"} -> Leaf(1, 0)
    [] type.k \in {"char", "str"}         -> Leaf(2 + v, 0)
    [] type.k \in {"u8", "u32", "u64", "u128"} -> Leaf(1 + v, 0)
    [] type.k \in {"f32", "f64"}          -> Leaf(1 + type.size, 0)
    [] type.k = "string"                  -> Leaf(2 + v, v)
    [] type.k = "option" -> IF v = <<>> THEN Leaf(1, 0) ELSE Extent(type.of, v[1])
    [] type.k = "array"  -> Around(Extents([i \in 1..Len(v) |-> type.of], v), 0)
    [] type.k = "tuple"  -> Around(Extents(type.of, v), 0)
    [] type.k = "struct" ->
         Around(Extents(type.of, v.fields) \o v.unknown,
                Total([i \in 1..Len(type.keys) |-> 1 + type.keys[i]]) + 2 * Len(v.unknown))
    [] type.k = "enum" ->
         Around(<<Extent(type.of[v[1]], v[2])>>, 1 + type.keys[v[1]])
    [] type.k = "vec" ->
         LET e == Around(Extents([i \in 1..Len(v) |-> type.of], v), 0)
         IN  [e EXCEPT !.heap = @ + Len(v) * type.of.size]
    [] type.k = "box" -> [Extent(type.of, v) EXCEPT !.heap = @ + type.of.size]

(***************************************************************************)
(* decode_bounded of an encoded value: an error, or the evidence.  The       *)
(* decoder enforces the limits of its Config.                                *)
(***************************************************************************)
DecodeBounded(type, budget, taken) ==
  LET limits == EnforcedLimits(type, budget)
      cost   == Cost(type)
      fail(e) == [error |-> e, val |-> <<>>]
  IN  IF taken.read > budget.max_input THEN fail("Input")
      ELSE IF cost.D > budget.max_depth THEN fail("Depth")
      ELSE IF cost.W # Infinite /\ cost.W > budget.max_work THEN fail("Work")
      ELSE IF \/ taken.read > limits.byte_limit \/ taken.most > limits.collection_limit
              \/ taken.depth > limits.depth_limit
      THEN fail("Codec")
      ELSE [error |-> None,
            val |-> [read |-> taken.read,
                     alloc_bound |-> IF StaticallyBounded(type) THEN cost.A
                                     ELSE limits.byte_limit
                                            + limits.collection_limit * PerElement(type),
                     depth_bound |-> Min({cost.D, limits.depth_limit}),
                     work_bound |-> IF StaticallyBounded(type) THEN cost.W ELSE taken.read]]
=============================================================================
