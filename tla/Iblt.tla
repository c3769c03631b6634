-------------------------------- MODULE Iblt --------------------------------
(***************************************************************************)
(* Set reconciliation with invertible Bloom lookup tables (ibl.rs).  Two    *)
(* peers keep a table each while they insert into and delete from their     *)
(* sets; then one table is subtracted from the other and the difference is  *)
(* peeled: a cell that holds one element gives it up, which may leave       *)
(* another cell with one element.                                           *)
(*                                                                         *)
(* XOR sums are symmetric differences: a 64-bit word is the set of the      *)
(* basic words it is the XOR of, so keys and values are independent under   *)
(* XOR, and a key_sum is a key exactly if it is a singleton.  The hash sum  *)
(* accumulates the hashes of the same keys, so it verifies exactly then     *)
(* (no hash collisions; splitmix64(0) is not 0).                            *)
(***************************************************************************)
EXTENDS Integers, Sequences, FiniteSets, FiniteSetsExt, SequencesExt

CONSTANTS
  Pairs,          (* the <<key, value>> pairs that may be inserted         *)
  Cells,          (* num_cells, the same in both tables                    *)
  PositionMaps,   (* the three cell positions of each key                  *)
  MaxHeld         (* bound: elements of a peer's set                       *)

Keys == {p[1] : p \in Pairs}

ASSUME CellsAssumption == Cells \in Nat \ {0}
ASSUME PositionsAssumption == PositionMaps \subseteq [Keys -> [1..3 -> 1..Cells]]
ASSUME HeldAssumption == MaxHeld \in Nat

VARIABLES
  position,       (* POSITION_SEEDS and splitmix64, reduced mod num_cells  *)
  held,           (* each peer's set                                       *)
  table,          (* each peer's Iblt                                      *)
  difference,     (* the table that decode peels                           *)
  entries,        (* what it has recovered                                 *)
  phase,          (* "build", "peel" or "done"                             *)
  reconciled          (* what reconcile returned                               *)

ivars == <<position, held, table, difference, entries, phase, reconciled>>

Peers == {"mine", "theirs"}

---------------------------------------------------------------------------
(* Cells *)

Xor(a, b) == (a \ b) \union (b \ a)

EmptyTable == [c \in 1..Cells |-> [count |-> 0, key_sum |-> {}, value_sum |-> {}]]

(* how many of the key's three positions fall on cell c *)
Hits(key, c) == Cardinality({i \in 1..3 : position[key][i] = c})

(* insert (sign 1) and delete (sign -1), one update per position *)
Update(t, key, value, sign) ==
  [c \in 1..Cells |->
     LET odd == Hits(key, c) % 2 = 1
     IN  [count     |-> t[c].count + sign * Hits(key, c),
          key_sum   |-> IF odd THEN Xor(t[c].key_sum, {key}) ELSE t[c].key_sum,
          value_sum |-> IF odd THEN Xor(t[c].value_sum, value) ELSE t[c].value_sum]]

(* Mutant: the values are not subtracted *)
Subtract_KeysOnly(l, r) ==
  [c \in 1..Cells |-> [count     |-> l[c].count - r[c].count,
                       key_sum   |-> Xor(l[c].key_sum, r[c].key_sum),
                       value_sum |-> l[c].value_sum]]

Subtract(l, r) ==
  [c \in 1..Cells |-> [count     |-> l[c].count - r[c].count,
                       key_sum   |-> Xor(l[c].key_sum, r[c].key_sum),
                       value_sum |-> Xor(l[c].value_sum, r[c].value_sum)]]

---------------------------------------------------------------------------
(* The peers build their tables *)

Insert(p, e) ==
  /\ phase = "build"
  /\ e \notin held[p]
  /\ Cardinality(held[p]) < MaxHeld
  /\ held' = [held EXCEPT ![p] = @ \union {e}]
  /\ table' = [table EXCEPT ![p] = Update(@, e[1], {e[2]}, 1)]
  /\ UNCHANGED <<position, difference, entries, phase, reconciled>>

Delete(p, e) ==
  /\ phase = "build"
  /\ e \in held[p]
  /\ held' = [held EXCEPT ![p] = @ \ {e}]
  /\ table' = [table EXCEPT ![p] = Update(@, e[1], {e[2]}, -1)]
  /\ UNCHANGED <<position, difference, entries, phase, reconciled>>

(* reconcile: clone, subtract, decode *)
Reconcile ==
  /\ phase = "build"
  /\ difference' = Subtract(table["mine"], table["theirs"])
  /\ phase' = "peel"
  /\ UNCHANGED <<position, held, table, entries, reconciled>>

---------------------------------------------------------------------------
(* decode *)

Peelable == {c \in 1..Cells : difference[c].count \in {1, -1}}

(* the cell's hash is that of its key *)
Verified(cell) == Cardinality(cell.key_sum) = 1

(* the element is taken out of all its cells, insert undoing a deletion *)
Peeled(cell, key) == Update(difference, key, cell.value_sum, -cell.count)

(* one round: the first cell with a count of 1 or -1 *)
Peel ==
  LET cell == difference[Min(Peelable)]
      key  == CHOOSE k \in cell.key_sum : TRUE
  IN  /\ phase = "peel"
      /\ Peelable # {}
      /\ IF Verified(cell)
         THEN /\ difference' = Peeled(cell, key)
              /\ entries' = Append(entries,
                   [key |-> key, value |-> cell.value_sum,
                    present_in_self |-> cell.count = 1])
              /\ UNCHANGED <<phase, reconciled>>
         ELSE /\ phase' = "done"
              /\ reconciled' = "hash does not verify"
              /\ UNCHANGED <<difference, entries>>
      /\ UNCHANGED <<position, held, table>>

(* is_empty looks at the counts only *)
IsEmpty(t) == \A c \in 1..Cells : t[c].count = 0

(* Mutant: what is left in the table is not looked at *)
DecodeReturns_Always ==
  /\ phase = "peel"
  /\ Peelable = {}
  /\ phase' = "done"
  /\ reconciled' = "ok"
  /\ UNCHANGED <<position, held, table, difference, entries>>

(* Mutant: the loop only ends on an empty table *)
DecodeReturns_WhenEmpty ==
  /\ phase = "peel"
  /\ Peelable = {}
  /\ IsEmpty(difference)
  /\ phase' = "done"
  /\ reconciled' = "ok"
  /\ UNCHANGED <<position, held, table, difference, entries>>

DecodeReturns ==
  /\ phase = "peel"
  /\ Peelable = {}
  /\ phase' = "done"
  /\ reconciled' = IF IsEmpty(difference) THEN "ok" ELSE "decode incomplete"
  /\ UNCHANGED <<position, held, table, difference, entries>>

---------------------------------------------------------------------------
IbltInit ==
  /\ position \in PositionMaps
  /\ held = [p \in Peers |-> {}]
  /\ table = [p \in Peers |-> EmptyTable]
  /\ difference = EmptyTable
  /\ entries = <<>>
  /\ phase = "build"
  /\ reconciled = "none"

IbltNext ==
  \/ \E p \in Peers, e \in Pairs : Insert(p, e) \/ Delete(p, e)
  \/ Reconcile \/ Peel \/ DecodeReturns

(* decode is a loop of the calling thread: nothing can stop it *)
IbltSpec == IbltInit /\ [][IbltNext]_ivars
IbltFairness == WF_ivars(Peel \/ DecodeReturns)

---------------------------------------------------------------------------
(* Properties *)

Entry(e, mine) == [key |-> e[1], value |-> {e[2]}, present_in_self |-> mine]

Difference == {Entry(e, TRUE) : e \in held["mine"] \ held["theirs"]} \union
              {Entry(e, FALSE) : e \in held["theirs"] \ held["mine"]}

(***************************************************************************)
(* Nothing is made up: every entry peeled so far, also when decode fails    *)
(* in the end, is an element of the difference with its value and its side, *)
(* and none is returned twice.                                              *)
(***************************************************************************)
RecoveredAreDifferences ==
  /\ ToSet(entries) \subseteq Difference
  /\ IsInjective(entries)

(* the difference on one side, what decode has not recovered of it, and      *)
(* what of a set falls on cell c                                             *)
Diff(mine) == IF mine THEN held["mine"] \ held["theirs"]
                      ELSE held["theirs"] \ held["mine"]
Left(mine) == {e \in Diff(mine) : Entry(e, mine) \notin ToSet(entries)}
On(k, c)   == \E i \in 1..3 : position[k][i] = c
Part(S, c) == {e \in S : On(e[1], c)}

(***************************************************************************)
(* "fails cleanly with Error::Iblt rather than returning wrong data", as far *)
(* as is_empty can tell: a decode that succeeds has missed nothing but       *)
(* elements of mine and of theirs that cancel, as many of the one on every   *)
(* cell as of the other.  Where only one peer has elements of its own it has *)
(* missed nothing.                                                          *)
(***************************************************************************)
RecoversUnlessCancelled ==
  reconciled = "ok" =>
    /\ \A c \in 1..Cells :
         Cardinality(Part(Left(TRUE), c)) = Cardinality(Part(Left(FALSE), c))
    /\ Diff(TRUE) = {} \/ Diff(FALSE) = {} => ToSet(entries) = Difference

(***************************************************************************)
(* "recover exactly the elements in mine \ theirs and theirs \ mine".        *)
(***************************************************************************)
RecoversExactly == reconciled = "ok" => ToSet(entries) = Difference

(* Peeling ends: it never gives an element back that it has taken out *)
DecodeEnds == phase = "peel" ~> phase = "done"
=============================================================================
