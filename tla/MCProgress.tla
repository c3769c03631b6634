----------------------------- MODULE MCProgress -----------------------------
(***************************************************************************)
(* The two calls that loop or wait until they are done: parallel_map with    *)
(* its workers, and reconcile with the peeling of a table (three elements    *)
(* in every table of five cells).  Each behaviour is of one of them; the     *)
(* other is not called.                                                     *)
(***************************************************************************)
EXTENDS ParallelMap, Iblt

CONSTANTS k1, k2, k3, v1, v2, v3

MCPairs == {<<k1, v1>>, <<k2, v2>>, <<k3, v3>>}

Triples == {f \in [1..3 -> 1..Cells] : f[1] <= f[2] /\ f[2] <= f[3]}

MapsOver(triples) == [Keys -> triples]

(* distinct positions, as the hash functions have them for most keys *)
Distinct == {f \in Triples : f[1] < f[2] /\ f[2] < f[3]}

(* k1 in the first or in the last cells decode looks at; the others anywhere, *)
(* also where k1 is                                                          *)
MCMaps == {pos \in MapsOver(Distinct) : pos[k1] \in {<<1, 2, 3>>, <<3, 4, 5>>}}

(* No way to add up keys, each counted 1, 0 or -1, leaves all cells at      *)
(* zero: the counts of a difference determine it.                           *)
Unambiguous(pos) ==
  LET hits(k, c) == Cardinality({i \in 1..3 : pos[k][i] = c})
  IN  \A coef \in [Keys -> {-1, 0, 1}] :
        (\A c \in 1..Cells :
           coef[k1] * hits(k1, c) + coef[k2] * hits(k2, c) + coef[k3] * hits(k3, c) = 0)
        => \A k \in Keys : coef[k] = 0

(* two of the three positions of k1 are the same cell *)
MCRepeatedMaps ==
  {pos \in MapsOver(Triples) :
     /\ pos[k1] = <<1, 1, 2>>
     /\ pos[k2] \in Distinct
     /\ Unambiguous(pos)}

(* a key whose value one peer has updated *)
MCUpdatedPairs == {<<k1, v1>>, <<k1, v2>>, <<k2, v3>>}
MCUpdatedMaps  == MapsOver(Distinct)

---------------------------------------------------------------------------

MapIdle ==
  /\ outcome = <<>> /\ workers = 1 /\ thread = <<>> /\ main = "idle"
  /\ handle = 0 /\ output = <<>> /\ pending = OM!Pending /\ result = OM!Pending

IbltIdle ==
  /\ position = [k \in Keys |-> <<1, 2, 3>>]
  /\ held = [p \in Peers |-> {}] /\ table = [p \in Peers |-> EmptyTable]
  /\ difference = EmptyTable /\ entries = <<>>
  /\ phase = "idle" /\ reconciled = "none"

ProgressInit == (Init /\ IbltIdle) \/ (IbltInit /\ MapIdle)

ProgressNext ==
  \/ Next /\ UNCHANGED ivars
  \/ IbltNext /\ UNCHANGED pvars

ProgressSpec == ProgressInit /\ [][ProgressNext]_<<pvars, ivars>>
FairProgressSpec == ProgressSpec /\ Fairness /\ IbltFairness
=============================================================================
