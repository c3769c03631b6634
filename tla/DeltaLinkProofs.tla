-------------------------- MODULE DeltaLinkProofs --------------------------
(***************************************************************************)
(* DeltaLink for every set of values, every capacity of the tables and any  *)
(* number and length of frames, without a byte limit (with one the sender's *)
(* table may run ahead of a frame that is then refused).                    *)
(***************************************************************************)
EXTENDS DeltaLink, SequenceTheorems, NatProofs

Tables   == Seq(Values)
Headers  == [tag : {"header"}, count : Nat, size : Nat, reset : BOOLEAN]
Refs     == [tag : {"ref"}, index : Nat]
Literals == [tag : {"literal"}, value : Values]
Entries  == Refs \union Literals
Messages == Headers \union Entries

DeltaTypeOK ==
  /\ senderTable \in Tables /\ receiverTable \in Tables
  /\ encoding \in BOOLEAN
  /\ payload \in Seq(Entries)
  /\ batch \in Seq(Values)
  /\ bytes \in Nat
  /\ link \in Seq(Messages)
  /\ lost \in BOOLEAN /\ decodeError \in BOOLEAN
  /\ remaining \in Nat \union {-1}
  /\ updates \in Seq(Values)
  /\ owed \in Seq(Values)

(***************************************************************************)
(* The inductive invariant.  Between the two tables lies what is in flight: *)
(* the frames on the link and the entries of the frame that is being        *)
(* written.  Each message leads from one table to the next, as the receiver *)
(* will see them; t[i] is the table before the i-th message.                *)
(***************************************************************************)

(* entry e, met with table before, delivers v and leaves table after *)
Replays(before, e, v, after) ==
  \/ /\ e.tag = "ref"
     /\ e.index + 1 \in 1..Len(before)
     /\ before[e.index + 1] = v
     /\ after = before
  \/ /\ e.tag = "literal"
     /\ e.value = v
     /\ after = Insert(before, v)

(* entries es deliver vs on the way through tables u *)
Leads(u, es, vs) ==
  /\ u \in [1..(Len(es) + 1) -> Tables]
  /\ Len(vs) = Len(es)
  /\ \A i \in 1..Len(es) : Replays(u[i], es[i], vs[i], u[i + 1])

(* the frame being written leads to the sender's table *)
Written(u) ==
  /\ Leads(u, payload, batch)
  /\ u[Len(payload) + 1] = senderTable

TableAfterHeader(h, table) == IF h.reset THEN <<>> ELSE table

(* a header starts a frame, or an entry continues one: left is the number   *)
(* of entries its frame still has, at the position of its update in owed    *)
Message(lnk, ow, t, left, at, i) ==
  \/ /\ lnk[i] \in Headers
     /\ left[i] = 0
     /\ left[i + 1] = lnk[i].count
     /\ at[i + 1] = at[i]
     /\ t[i + 1] = TableAfterHeader(lnk[i], t[i])
  \/ /\ lnk[i] \in Entries
     /\ left[i] > 0
     /\ at[i] + 1 \in 1..Len(ow)
     /\ Replays(t[i], lnk[i], ow[at[i] + 1], t[i + 1])

(* a frame that has begun is on the link to its end *)
Whole(n, left, at, i) ==
  \A k \in 0..left[i] :
    /\ i + k \in 1..(n + 1)
    /\ left[i + k] = left[i] - k
    /\ at[i + k] = at[i] + k

Flight(lnk, ow, t, left, at) ==
  LET n == Len(lnk)
  IN  /\ t \in [1..(n + 1) -> Tables]
      /\ left \in [1..(n + 1) -> Nat]
      /\ at \in [1..(n + 1) -> Nat]
      /\ left[n + 1] = 0
      /\ at[n + 1] = Len(ow)
      /\ \A i, j \in 1..(n + 1) : i <= j => at[i] <= at[j]
      /\ \A i \in 1..n : Message(lnk, ow, t, left, at, i)
      /\ \A i \in 1..(n + 1) : Whole(n, left, at, i)

(* the receiver stands at the beginning of the link *)
Received(t, left, at) ==
  /\ left[1] = IF remaining = -1 THEN 0 ELSE remaining
  /\ at[1] = Len(updates)
  /\ remaining = -1 => updates = <<>>
  /\ ~lost => /\ ~decodeError
              /\ t[1] = receiverTable
              /\ \A i \in 1..Len(updates) : updates[i] = owed[i]

InFlight ==
  \E t, left, at, u :
    /\ Flight(link, owed, t, left, at)
    /\ Received(t, left, at)
    /\ Written(u)
    /\ t[Len(link) + 1] = u[1]

DeltaInv ==
  /\ DeltaTypeOK
  /\ ~encoding => payload = <<>> /\ batch = <<>>
  /\ InFlight

---------------------------------------------------------------------------
(* The tables *)

(* Lookup finds a position that holds the value *)
LEMMA LookupFinds ==
  ASSUME NEW table \in Tables, NEW v \in Values, Holds(table, v)
  PROVE  /\ Lookup(table, v) \in Nat
         /\ Lookup(table, v) + 1 \in 1..Len(table)
         /\ table[Lookup(table, v) + 1] = v
<1> DEFINE At == {i \in 1..Len(table) : table[i] = v}
<1>1. Len(table) \in Nat
  BY DEF Tables
<1>2. At # {} /\ At \in SUBSET Nat
  BY <1>1 DEF Holds
<1>3. PICK i \in At : \A j \in At : i <= j
  BY <1>2, LeastNat
<1> DEFINE First(k) == table[k] = v /\ \A j \in 1..(k - 1) : table[j] # v
<1>4. i \in 1..Len(table) /\ First(i)
  BY <1>1, <1>3
<1>5. \E k \in 1..Len(table) : First(k)
  BY <1>4
<1> DEFINE c == CHOOSE k \in 1..Len(table) : First(k)
<1>6. c \in 1..Len(table) /\ First(c)
  BY <1>5
<1>7. Lookup(table, v) = c - 1
  BY DEF Lookup
<1>8. QED
  BY <1>1, <1>6, <1>7

(* Insert keeps at most MaxEntries values *)
LEMMA InsertType ==
  ASSUME NEW table \in Tables, NEW v \in Values
  PROVE  Insert(table, v) \in Tables
<1> DEFINE longer == <<v>> \o table
           keep == IF Len(table) + 1 > MaxEntries THEN MaxEntries ELSE Len(table) + 1
<1>1. longer \in Tables /\ Len(longer) = Len(table) + 1 /\ Len(table) \in Nat
  BY DEF Tables
<1>2. keep \in 0..Len(longer)
  BY <1>1, MaxEntriesAssumption
<1>3. \A i \in 1..keep : longer[i] \in Values
  BY <1>1, <1>2 DEF Tables
<1> HIDE DEF longer, keep
<1>4. SubSeq(longer, 1, keep) \in Tables
  BY <1>2, <1>1, <1>3, SubSeqProperties DEF Tables
<1>5. QED
  BY <1>4 DEF Insert, longer, keep

(* what the sender writes for a value, any table equal to its own replays *)
LEMMA EntryReplays ==
  ASSUME NEW table \in Tables, NEW v \in Values
  PROVE  /\ EntryFor(table, v) \in Entries
         /\ TableAfter(table, v) \in Tables
         /\ Replays(table, EntryFor(table, v), v, TableAfter(table, v))
<1>1. CASE Holds(table, v)
  <2>1. EntryFor(table, v) = [tag |-> "ref", index |-> Lookup(table, v)]
    BY <1>1 DEF EntryFor, Ref
  <2>2. TableAfter(table, v) = table
    BY <1>1 DEF TableAfter
  <2>3. QED
    BY <2>1, <2>2, <1>1, LookupFinds DEF Entries, Refs, Replays
<1>2. CASE ~Holds(table, v)
  <2>1. EntryFor(table, v) = [tag |-> "literal", value |-> v]
    BY <1>2 DEF EntryFor, Literal
  <2>2. TableAfter(table, v) = Insert(table, v)
    BY <1>2 DEF TableAfter
  <2>3. QED
    BY <2>1, <2>2, InsertType DEF Entries, Literals, Replays
<1>3. QED
  BY <1>1, <1>2

---------------------------------------------------------------------------
(* What is in flight *)

(* Without its first k messages a link is still a link *)
Rest(lnk, ow, t, left, at, k) ==
  /\ Drop(lnk, k) \in Seq(Messages)
  /\ Len(Drop(lnk, k)) = Len(lnk) - k
  /\ \E t2, left2, at2 :
       /\ Flight(Drop(lnk, k), ow, t2, left2, at2)
       /\ \A i \in 1..(Len(lnk) - k + 1) :
            t2[i] = t[i + k] /\ left2[i] = left[i + k] /\ at2[i] = at[i + k]

LEMMA DropMessages ==
  ASSUME NEW lnk \in Seq(Messages), NEW ow, NEW t, NEW left, NEW at,
         Flight(lnk, ow, t, left, at),
         NEW k \in 0..Len(lnk)
  PROVE  Rest(lnk, ow, t, left, at, k)
<1> DEFINE n == Len(lnk) - k
           rest == Drop(lnk, k)
           t2 == [i \in 1..(n + 1) |-> t[i + k]]
           left2 == [i \in 1..(n + 1) |-> left[i + k]]
           at2 == [i \in 1..(n + 1) |-> at[i + k]]
<1>1. Len(lnk) \in Nat /\ n \in Nat
  OBVIOUS
<1>2. /\ rest \in Seq(Messages)
      /\ Len(rest) = n
      /\ \A i \in 1..n : rest[i] = lnk[i + k]
  <2>1. \A i \in (k + 1)..Len(lnk) : lnk[i] \in Messages
    BY <1>1
  <2>2. /\ SubSeq(lnk, k + 1, Len(lnk)) \in Seq(Messages)
        /\ Len(SubSeq(lnk, k + 1, Len(lnk))) =
             IF k + 1 <= Len(lnk) THEN Len(lnk) - (k + 1) + 1 ELSE 0
        /\ \A i \in 1..(Len(lnk) - (k + 1) + 1) :
             SubSeq(lnk, k + 1, Len(lnk))[i] = lnk[k + 1 + i - 1]
    BY <1>1, <2>1, SubSeqProperties
  <2>3. QED
    BY <1>1, <2>2 DEF Drop
<1> HIDE DEF rest
<1>3. /\ t \in [1..(Len(lnk) + 1) -> Tables]
      /\ left \in [1..(Len(lnk) + 1) -> Nat]
      /\ at \in [1..(Len(lnk) + 1) -> Nat]
  BY DEF Flight
<1>4. /\ t2 \in [1..(n + 1) -> Tables]
      /\ left2 \in [1..(n + 1) -> Nat]
      /\ at2 \in [1..(n + 1) -> Nat]
  BY <1>1, <1>3
<1>5. left2[n + 1] = 0 /\ at2[n + 1] = Len(ow)
  BY <1>1 DEF Flight
<1>6. \A i, j \in 1..(n + 1) : i <= j => at2[i] <= at2[j]
  BY <1>1 DEF Flight
<1>7. ASSUME NEW i \in 1..n PROVE Message(rest, ow, t2, left2, at2, i)
  <2>1. Message(lnk, ow, t, left, at, i + k)
    BY <1>1 DEF Flight
  <2>2. /\ rest[i] = lnk[i + k]
        /\ t2[i] = t[i + k] /\ t2[i + 1] = t[i + k + 1]
        /\ left2[i] = left[i + k] /\ left2[i + 1] = left[i + k + 1]
        /\ at2[i] = at[i + k] /\ at2[i + 1] = at[i + k + 1]
    BY <1>1, <1>2
  <2> HIDE DEF t2, left2, at2
  <2>3. QED
    BY <2>1, <2>2 DEF Message
<1>8. ASSUME NEW i \in 1..(n + 1) PROVE Whole(n, left2, at2, i)
  <2>1. Whole(Len(lnk), left, at, i + k)
    BY <1>1 DEF Flight
  <2>2. left[i + k] \in Nat
    BY <1>1, <1>3
  <2>3. ASSUME NEW j \in 0..left[i + k]
        PROVE  /\ i + j \in 1..(n + 1)
               /\ left2[i + j] = left2[i] - j
               /\ at2[i + j] = at2[i] + j
    <3>1. /\ i + k + j \in 1..(Len(lnk) + 1)
          /\ left[i + k + j] = left[i + k] - j
          /\ at[i + k + j] = at[i + k] + j
      BY <2>1 DEF Whole
    <3>2. i + j \in 1..(n + 1)
      BY <3>1, <1>1, <2>2
    <3>3. i + j + k = i + k + j
      BY <1>1, <2>2
    <3>4. QED
      BY <3>1, <3>2, <3>3
  <2>4. QED
    BY <2>3 DEF Whole
<1>9. \A i \in 1..(n + 1) : t2[i] = t[i + k] /\ left2[i] = left[i + k] /\ at2[i] = at[i + k]
  OBVIOUS
<1> HIDE DEF t2, left2, at2
<1>10. Flight(rest, ow, t2, left2, at2)
  BY <1>2, <1>4, <1>5, <1>6, <1>7, <1>8 DEF Flight
<1>11. QED
  BY <1>2, <1>9, <1>10 DEF rest, Rest

(* Updates that no message on the link refers to may be forgotten *)
Forgotten(lnk, ow, t, left, at, k) ==
  /\ Drop(ow, k) \in Seq(Values)
  /\ \E at2 : /\ Flight(lnk, Drop(ow, k), t, left, at2)
              /\ at2[1] = at[1] - k

LEMMA DropUpdates ==
  ASSUME NEW lnk \in Seq(Messages), NEW ow \in Seq(Values),
         NEW t, NEW left, NEW at,
         Flight(lnk, ow, t, left, at),
         NEW k \in 0..at[1]
  PROVE  Forgotten(lnk, ow, t, left, at, k)
<1> DEFINE n == Len(lnk)
           rest == Drop(ow, k)
           at2 == [i \in 1..(n + 1) |-> at[i] - k]
<1>1. n \in Nat /\ Len(ow) \in Nat
  OBVIOUS
<1>2. /\ at \in [1..(n + 1) -> Nat]
      /\ left \in [1..(n + 1) -> Nat]
      /\ at[n + 1] = Len(ow)
      /\ \A i \in 1..(n + 1) : at[1] <= at[i] /\ at[i] <= at[n + 1]
  BY <1>1 DEF Flight
<1>3. k \in 0..Len(ow)
  BY <1>1, <1>2
<1>4. /\ rest \in Seq(Values)
      /\ Len(rest) = Len(ow) - k
      /\ \A i \in 1..(Len(ow) - k) : rest[i] = ow[i + k]
  <2>1. \A i \in (k + 1)..Len(ow) : ow[i] \in Values
    BY <1>1, <1>3
  <2>2. /\ SubSeq(ow, k + 1, Len(ow)) \in Seq(Values)
        /\ Len(SubSeq(ow, k + 1, Len(ow))) =
             IF k + 1 <= Len(ow) THEN Len(ow) - (k + 1) + 1 ELSE 0
        /\ \A i \in 1..(Len(ow) - (k + 1) + 1) :
             SubSeq(ow, k + 1, Len(ow))[i] = ow[k + 1 + i - 1]
    BY <1>1, <1>3, <2>1, SubSeqProperties
  <2>3. QED
    BY <1>1, <1>3, <2>2 DEF Drop
<1> HIDE DEF rest
<1>0. \A i \in 1..(n + 1) :
        /\ at[i] \in Nat /\ k \in 0..at[i] /\ at2[i] = at[i] - k
        /\ i <= n => i + 1 \in 1..(n + 1)
  BY <1>1, <1>2, <1>3
<1>5. /\ at2 \in [1..(n + 1) -> Nat]
      /\ at2[n + 1] = Len(rest)
      /\ \A i, j \in 1..(n + 1) : i <= j => at2[i] <= at2[j]
  <2>1. n + 1 \in 1..(n + 1)
    BY <1>1
  <2>2. \A i, j \in 1..(n + 1) : i <= j => at[i] <= at[j]
    BY DEF Flight
  <2>3. at2 \in [1..(n + 1) -> Nat]
    BY <1>0
  <2> HIDE DEF at2
  <2>4. at2[n + 1] = Len(rest)
    BY <1>0, <1>2, <1>4, <2>1
  <2>5. \A i, j \in 1..(n + 1) : i <= j => at2[i] <= at2[j]
    BY <1>0, <2>2
  <2>6. QED
    BY <2>3, <2>4, <2>5
<1>6. ASSUME NEW i \in 1..n PROVE Message(lnk, rest, t, left, at2, i)
  <2>1. Message(lnk, ow, t, left, at, i)
    BY DEF Flight
  <2>2. /\ at2[i] = at[i] - k /\ at2[i + 1] = at[i + 1] - k
        /\ at[i] \in Nat /\ at[i] >= k /\ at[i + 1] \in Nat
    <3>1. i \in 1..(n + 1) /\ i + 1 \in 1..(n + 1)
      BY <1>1
    <3> HIDE DEF at2
    <3>2. QED
      BY <1>0, <3>1
  <2>3. at[i] + 1 \in 1..Len(ow) =>
          at2[i] + 1 \in 1..Len(rest) /\ rest[at2[i] + 1] = ow[at[i] + 1]
    <3> HIDE DEF at2
    <3>1. SUFFICES ASSUME at[i] + 1 \in 1..Len(ow)
                   PROVE  at2[i] + 1 \in 1..Len(rest) /\ rest[at2[i] + 1] = ow[at[i] + 1]
      OBVIOUS
    <3>2. at2[i] + 1 \in 1..(Len(ow) - k) /\ at2[i] + 1 + k = at[i] + 1
      BY <1>1, <1>3, <2>2, <3>1
    <3>3. QED
      BY <1>4, <3>2
  <2> HIDE DEF at2
  <2>4. QED
    BY <2>1, <2>2, <2>3 DEF Message
<1>7. ASSUME NEW i \in 1..(n + 1) PROVE Whole(n, left, at2, i)
  <2>1. Whole(n, left, at, i) /\ left[i] \in Nat
    BY <1>2 DEF Flight
  <2>2. ASSUME NEW j \in 0..left[i]
        PROVE  i + j \in 1..(n + 1) /\ left[i + j] = left[i] - j /\ at2[i + j] = at2[i] + j
    <3>1. /\ i + j \in 1..(n + 1)
          /\ left[i + j] = left[i] - j
          /\ at[i + j] = at[i] + j
      BY <2>1 DEF Whole
    <3> HIDE DEF at2
    <3>2. j \in Nat
      BY <2>1
    <3>3. QED
      BY <1>0, <3>1, <3>2
  <2>3. QED
    BY <2>2 DEF Whole
<1> HIDE DEF at2
<1>8. Flight(lnk, rest, t, left, at2)
  BY <1>5, <1>6, <1>7 DEF Flight
<1>9. at2[1] = at[1] - k
  <2>1. 1 \in 1..(n + 1)
    BY <1>1
  <2>2. QED
    BY <1>0, <2>1
<1>10. QED
  BY <1>4, <1>8, <1>9 DEF rest, Forgotten

(* A frame whose entries lead on from the last table may be put on the link *)
GoesOn(lnk, ow, t, left, at, h, p, b, u, n, m) ==
  /\ lnk \in Seq(Messages) /\ ow \in Seq(Values)
  /\ n \in Nat /\ n = Len(lnk)
  /\ Flight(lnk, ow, t, left, at)
  /\ h \in Headers /\ p \in Seq(Entries) /\ b \in Seq(Values)
  /\ m \in Nat /\ m = Len(p) /\ h.count = m
  /\ Leads(u, p, b)
  /\ u[1] = TableAfterHeader(h, t[n + 1])

GoneOn(lnk, ow, t, left, at, h, p, b, u, n, m) ==
  /\ lnk \o <<h>> \o p \in Seq(Messages)
  /\ Len(lnk \o <<h>> \o p) = n + 1 + m
  /\ ow \o b \in Seq(Values)
  /\ \E t2, left2, at2 :
       /\ Flight(lnk \o <<h>> \o p, ow \o b, t2, left2, at2)
       /\ t2[1] = t[1] /\ left2[1] = left[1] /\ at2[1] = at[1]
       /\ t2[n + m + 2] = u[m + 1]

LEMMA AddFrame ==
  ASSUME NEW lnk, NEW ow, NEW t, NEW left, NEW at,
         NEW h, NEW p, NEW b, NEW u, NEW n, NEW m,
         GoesOn(lnk, ow, t, left, at, h, p, b, u, n, m)
  PROVE  GoneOn(lnk, ow, t, left, at, h, p, b, u, n, m)
<1> DEFINE all == lnk \o <<h>> \o p
           upd == ow \o b
           t2 == [i \in 1..(n + m + 2) |-> IF i <= n + 1 THEN t[i] ELSE u[i - n - 1]]
           left2 == [i \in 1..(n + m + 2) |->
                       IF i <= n + 1 THEN left[i] ELSE m - (i - n - 2)]
           at2 == [i \in 1..(n + m + 2) |->
                       IF i <= n + 1 THEN at[i] ELSE Len(ow) + (i - n - 2)]
<1>0. /\ lnk \in Seq(Messages) /\ ow \in Seq(Values)
      /\ n \in Nat /\ n = Len(lnk)
      /\ Flight(lnk, ow, t, left, at)
      /\ h \in Headers /\ p \in Seq(Entries) /\ b \in Seq(Values)
      /\ m \in Nat /\ m = Len(p) /\ h.count = m
      /\ Leads(u, p, b)
      /\ u[1] = TableAfterHeader(h, t[n + 1])
  BY DEF GoesOn
<1> USE <1>0
<1>1. Len(ow) \in Nat /\ Len(b) = m
  BY DEF Leads
<1>2. /\ all \in Seq(Messages)
      /\ Len(all) = n + 1 + m
      /\ \A i \in 1..n : all[i] = lnk[i]
      /\ all[n + 1] = h
      /\ \A i \in 1..m : all[n + 1 + i] = p[i]
  <2>1. h \in Messages /\ p \in Seq(Messages)
    BY DEF Messages
  <2>2. <<h>> \in Seq(Messages) /\ Len(<<h>>) = 1 /\ <<h>>[1] = h
    BY <2>1
  <2> DEFINE front == lnk \o <<h>>
  <2>3. /\ front \in Seq(Messages)
        /\ Len(front) = n + 1
        /\ \A i \in 1..n : front[i] = lnk[i]
        /\ front[n + 1] = h
    BY <2>2, <1>1, ConcatProperties
  <2> HIDE DEF front
  <2>4. /\ front \o p \in Seq(Messages)
        /\ Len(front \o p) = n + 1 + m
        /\ \A i \in 1..(n + 1 + m) : (front \o p)[i] =
              IF i <= n + 1 THEN front[i] ELSE p[i - (n + 1)]
    <3>1. /\ front \o p \in Seq(Messages)
          /\ Len(front \o p) = Len(front) + Len(p)
          /\ \A i \in 1..(Len(front) + Len(p)) : (front \o p)[i] =
                IF i <= Len(front) THEN front[i] ELSE p[i - Len(front)]
      BY <2>1, <2>3, ConcatProperties
    <3>2. QED
      BY <2>3, <3>1
  <2>5. \A i \in 1..m : (front \o p)[n + 1 + i] = p[i]
    <3> SUFFICES ASSUME NEW i \in 1..m PROVE (front \o p)[n + 1 + i] = p[i]
      OBVIOUS
    <3>1. n + 1 + i \in 1..(n + 1 + m) /\ ~(n + 1 + i <= n + 1)
          /\ n + 1 + i - (n + 1) = i
      BY <1>1
    <3>2. QED
      BY <3>1, <2>4
  <2>6. (\A i \in 1..n : (front \o p)[i] = lnk[i]) /\ (front \o p)[n + 1] = h
    BY <2>3, <2>4, <1>1
  <2>7. QED
    BY <2>4, <2>5, <2>6 DEF front
<1>3. /\ upd \in Seq(Values)
      /\ Len(upd) = Len(ow) + m
      /\ \A i \in 1..Len(ow) : upd[i] = ow[i]
      /\ \A i \in 1..m : upd[Len(ow) + i] = b[i]
  <2>1. /\ upd \in Seq(Values)
        /\ Len(upd) = Len(ow) + m
        /\ \A i \in 1..(Len(ow) + m) : upd[i] =
              IF i <= Len(ow) THEN ow[i] ELSE b[i - Len(ow)]
    <3>1. /\ ow \o b \in Seq(Values)
          /\ Len(ow \o b) = Len(ow) + Len(b)
          /\ \A i \in 1..(Len(ow) + Len(b)) : (ow \o b)[i] =
                IF i <= Len(ow) THEN ow[i] ELSE b[i - Len(ow)]
      BY ConcatProperties
    <3>2. QED
      BY <1>1, <3>1
  <2> HIDE DEF upd
  <2>2. ASSUME NEW i \in 1..m PROVE upd[Len(ow) + i] = b[i]
    <3>1. Len(ow) + i \in 1..(Len(ow) + m) /\ ~(Len(ow) + i <= Len(ow))
          /\ Len(ow) + i - Len(ow) = i
      BY <1>1
    <3>2. QED
      BY <3>1, <2>1
  <2>3. QED
    BY <1>1, <2>1, <2>2
<1> HIDE DEF all, upd
<1>4. /\ t \in [1..(n + 1) -> Tables]
      /\ left \in [1..(n + 1) -> Nat]
      /\ at \in [1..(n + 1) -> Nat]
      /\ left[n + 1] = 0 /\ at[n + 1] = Len(ow)
      /\ \A i, j \in 1..(n + 1) : i <= j => at[i] <= at[j]
  BY DEF Flight
<1>5. /\ \A i \in 1..(n + 1) : t2[i] = t[i] /\ left2[i] = left[i] /\ at2[i] = at[i]
      /\ \A i \in 1..(m + 1) : /\ t2[n + 1 + i] = u[i]
                               /\ left2[n + 1 + i] = m - (i - 1)
                               /\ at2[n + 1 + i] = Len(ow) + (i - 1)
  <2>1. ASSUME NEW i \in 1..(n + 1)
        PROVE  t2[i] = t[i] /\ left2[i] = left[i] /\ at2[i] = at[i]
    BY <1>1
  <2>2. ASSUME NEW i \in 1..(m + 1)
        PROVE  /\ t2[n + 1 + i] = u[i]
               /\ left2[n + 1 + i] = m - (i - 1)
               /\ at2[n + 1 + i] = Len(ow) + (i - 1)
    <3>1. /\ n + 1 + i \in 1..(n + m + 2) /\ ~(n + 1 + i <= n + 1)
          /\ n + 1 + i - n - 1 = i /\ n + 1 + i - n - 2 = i - 1
      BY <1>1
    <3>2. QED
      BY <3>1
  <2>3. QED
    BY <2>1, <2>2
<1>6. /\ t2 \in [1..(n + m + 2) -> Tables]
      /\ left2 \in [1..(n + m + 2) -> Nat]
      /\ at2 \in [1..(n + m + 2) -> Nat]
  <2>1. ASSUME NEW i \in 1..(n + m + 2), i > n + 1
        PROVE  i - n - 1 \in 1..(m + 1) /\ i - n - 2 \in 0..m
    BY <1>1, <2>1
  <2>2. u \in [1..(m + 1) -> Tables]
    BY DEF Leads
  <2>3. t2 \in [1..(n + m + 2) -> Tables]
    BY <1>4, <2>1, <2>2
  <2>4. left2 \in [1..(n + m + 2) -> Nat]
    BY <1>4, <2>1
  <2>5. at2 \in [1..(n + m + 2) -> Nat]
    BY <1>1, <1>4, <2>1
  <2>6. QED
    BY <2>3, <2>4, <2>5
<1>7. \A i \in 1..(n + m + 2) : i \in 1..(n + 1) \/ \E k \in 1..(m + 1) : i = n + 1 + k
  <2> SUFFICES ASSUME NEW i \in 1..(n + m + 2), i \notin 1..(n + 1)
               PROVE  \E k \in 1..(m + 1) : i = n + 1 + k
    OBVIOUS
  <2>1. i - n - 1 \in 1..(m + 1) /\ i = n + 1 + (i - n - 1)
    BY <1>1
  <2>2. QED
    BY <2>1
<1> HIDE DEF t2, left2, at2
<1>8. ASSUME NEW i \in 1..(n + 1 + m) PROVE Message(all, upd, t2, left2, at2, i)
  <2>1. CASE i \in 1..n
    <3>1. Message(lnk, ow, t, left, at, i)
      BY <2>1 DEF Flight
    <3>2. /\ all[i] = lnk[i]
          /\ t2[i] = t[i] /\ t2[i + 1] = t[i + 1]
          /\ left2[i] = left[i] /\ left2[i + 1] = left[i + 1]
          /\ at2[i] = at[i] /\ at2[i + 1] = at[i + 1]
      BY <1>1, <1>2, <1>5, <2>1
    <3>3. at[i] + 1 \in 1..Len(ow) =>
            at[i] + 1 \in 1..Len(upd) /\ upd[at[i] + 1] = ow[at[i] + 1]
      BY <1>1, <1>3
    <3>4. QED
      BY <3>1, <3>2, <3>3 DEF Message
  <2>2. CASE i = n + 1
    <3>1. /\ all[i] = h
          /\ left2[i] = 0 /\ at2[i] = Len(ow) /\ t2[i] = t[n + 1]
      BY <1>1, <1>2, <1>4, <1>5, <2>2
    <3>2. 1 \in 1..(m + 1) /\ i + 1 = n + 1 + 1
      BY <1>1, <2>2
    <3>3. left2[i + 1] = h.count /\ at2[i + 1] = Len(ow) /\ t2[i + 1] = u[1]
      BY <1>1, <1>5, <3>2
    <3>4. QED
      BY <3>1, <3>3 DEF Message
  <2>3. CASE i > n + 1
    <3> DEFINE k == i - n - 1
    <3>1. k \in 1..m /\ k \in 1..(m + 1) /\ k + 1 \in 1..(m + 1)
          /\ i = n + 1 + k /\ i + 1 = n + 1 + (k + 1)
      BY <1>1, <2>3
    <3> HIDE DEF k
    <3>2. /\ all[i] = p[k] /\ p[k] \in Entries
          /\ t2[i] = u[k] /\ t2[i + 1] = u[k + 1]
          /\ left2[i] = m - (k - 1)
          /\ at2[i] = Len(ow) + (k - 1)
      BY <1>2, <1>5, <3>1
    <3>3. left2[i] > 0 /\ at2[i] + 1 = Len(ow) + k /\ Len(ow) + k \in 1..Len(upd)
      BY <1>1, <1>3, <3>1, <3>2
    <3>4. Replays(u[k], p[k], upd[at2[i] + 1], u[k + 1])
      BY <1>3, <3>1, <3>3 DEF Leads
    <3>5. QED
      BY <3>2, <3>3, <3>4 DEF Message
  <2>4. QED
    BY <1>1, <2>1, <2>2, <2>3
<1>9. ASSUME NEW i \in 1..(n + m + 2) PROVE Whole(n + 1 + m, left2, at2, i)
  <2>1. CASE i \in 1..(n + 1)
    <3>1. Whole(n, left, at, i)
      BY <2>1 DEF Flight
    <3>2. ASSUME NEW k \in 0..left2[i]
          PROVE  /\ i + k \in 1..(n + 1 + m + 1)
                 /\ left2[i + k] = left2[i] - k
                 /\ at2[i + k] = at2[i] + k
      <4>1. k \in 0..left[i] /\ left2[i] = left[i] /\ at2[i] = at[i]
        BY <1>5, <2>1
      <4>2. i + k \in 1..(n + 1) /\ left[i + k] = left[i] - k /\ at[i + k] = at[i] + k
        BY <3>1, <4>1 DEF Whole
      <4>3. left2[i + k] = left[i + k] /\ at2[i + k] = at[i + k]
        BY <1>5, <4>2
      <4>4. i + k \in 1..(n + 1 + m + 1)
        BY <1>1, <4>2
      <4>5. QED
        BY <4>1, <4>2, <4>3, <4>4
    <3>3. QED
      BY <3>2 DEF Whole
  <2>2. ASSUME NEW j \in 1..(m + 1), i = n + 1 + j
        PROVE  Whole(n + 1 + m, left2, at2, i)
    <3>1. left2[i] = m - (j - 1) /\ at2[i] = Len(ow) + (j - 1)
      BY <1>5, <2>2
    <3>2. ASSUME NEW k \in 0..left2[i]
          PROVE  /\ i + k \in 1..(n + 1 + m + 1)
                 /\ left2[i + k] = left2[i] - k
                 /\ at2[i + k] = at2[i] + k
      <4> DEFINE l == j + k
      <4>1. l \in 1..(m + 1) /\ i + k = n + 1 + l /\ i + k \in 1..(n + 1 + m + 1)
        BY <1>1, <2>2, <3>1
      <4>2. left2[i + k] = m - (l - 1) /\ at2[i + k] = Len(ow) + (l - 1)
        <5> HIDE DEF l
        <5>1. QED
          BY <1>5, <4>1
      <4>3. QED
        BY <1>1, <3>1, <4>1, <4>2
    <3>3. QED
      BY <3>2 DEF Whole
  <2>3. QED
    BY <1>7, <2>1, <2>2
<1>10. \A i, j \in 1..(n + m + 2) : i <= j => at2[i] <= at2[j]
  <2> SUFFICES ASSUME NEW i \in 1..(n + m + 2), NEW j \in 1..(n + m + 2), i <= j
               PROVE  at2[i] <= at2[j]
    OBVIOUS
  <2>1. CASE i \in 1..(n + 1) /\ j \in 1..(n + 1)
    BY <2>1, <1>4, <1>5
  <2>2. ASSUME i \in 1..(n + 1), NEW k \in 1..(m + 1), j = n + 1 + k
        PROVE  at2[i] <= at2[j]
    <3>0. n + 1 \in 1..(n + 1) /\ i <= n + 1
      BY <2>2
    <3>1. at2[i] = at[i] /\ at[i] <= Len(ow) /\ at[i] \in Nat
      BY <2>2, <3>0, <1>4, <1>5
    <3>2. at2[j] = Len(ow) + (k - 1)
      BY <2>2, <1>5
    <3>3. QED
      BY <3>1, <3>2, <1>1
  <2>3. ASSUME NEW l \in 1..(m + 1), i = n + 1 + l, NEW k \in 1..(m + 1), j = n + 1 + k
        PROVE  at2[i] <= at2[j]
    BY <2>3, <1>1, <1>5
  <2>4. CASE j \in 1..(n + 1) /\ i \notin 1..(n + 1)
    BY <2>4, <1>1
  <2>5. QED
    BY <1>7, <2>1, <2>2, <2>3, <2>4
<1>11. left2[n + m + 2] = 0 /\ at2[n + m + 2] = Len(upd) /\ t2[n + m + 2] = u[m + 1]
  <2>1. m + 1 \in 1..(m + 1) /\ n + m + 2 = n + 1 + (m + 1) /\ m + 1 - 1 = m
    BY <1>1
  <2>2. QED
    BY <1>1, <1>3, <1>5, <2>1
<1>12. n + m + 2 = Len(all) + 1 /\ n + 1 + m = Len(all)
  BY <1>1, <1>2
<1>13. Flight(all, upd, t2, left2, at2)
  BY <1>6, <1>8, <1>9, <1>10, <1>11, <1>12 DEF Flight
<1>14. t2[1] = t[1] /\ left2[1] = left[1] /\ at2[1] = at[1]
  <2>1. 1 \in 1..(n + 1)
    BY <1>0
  <2>2. QED
    BY <1>5, <2>1
<1>15. t2[n + m + 2] = u[m + 1]
  BY <1>11
<1>16. \E t3, left3, at3 :
         /\ Flight(all, upd, t3, left3, at3)
         /\ t3[1] = t[1] /\ left3[1] = left[1] /\ at3[1] = at[1]
         /\ t3[n + m + 2] = u[m + 1]
  BY <1>13, <1>14, <1>15, Zenon
<1>17. all \in Seq(Messages) /\ Len(all) = n + 1 + m /\ upd \in Seq(Values)
  BY <1>2, <1>3
<1>18. QED
  BY <1>16, <1>17, Zenon DEF all, upd, GoneOn

---------------------------------------------------------------------------
(* The sender's steps *)

LEMMA InitInv == DeltaInit => DeltaInv
<1> SUFFICES ASSUME DeltaInit PROVE DeltaInv
  OBVIOUS
<1> USE DEF DeltaInit
<1>1. DeltaTypeOK
  <2>1. <<>> \in Tables /\ <<>> \in Seq(Entries) /\ <<>> \in Seq(Values) /\ <<>> \in Seq(Messages)
    BY EmptySeq DEF Tables
  <2>2. FALSE \in BOOLEAN /\ 0 \in Nat /\ -1 \in Nat \union {-1}
    OBVIOUS
  <2>3. QED
    BY <2>1, <2>2 DEF DeltaTypeOK
<1> DEFINE t == [i \in 1..1 |-> <<>>]
           zero == [i \in 1..1 |-> 0]
<1>2. t \in [1..1 -> Tables] /\ zero \in [1..1 -> Nat] /\ t[1] = <<>> /\ zero[1] = 0
  BY DEF Tables
<1> HIDE DEF t, zero
<1>3. Whole(0, zero, zero, 1)
  BY <1>2 DEF Whole
<1>4. Flight(link, owed, t, zero, zero)
  BY <1>2, <1>3 DEF Flight
<1>5. Received(t, zero, zero)
  BY <1>2 DEF Received
<1>6. Written(t)
  BY <1>2 DEF Written, Leads
<1>7. InFlight
  BY <1>2, <1>4, <1>5, <1>6 DEF InFlight
<1>8. QED
  BY <1>1, <1>7 DEF DeltaInv

LEMMA BeginEncodeInv ==
  ASSUME DeltaInv, BeginEncode
  PROVE  DeltaInv'
<1> USE DEF BeginEncode, receiver
<1>1. DeltaTypeOK'
  BY DEF DeltaInv, DeltaTypeOK
<1>2. PICK t, left, at, u : /\ Flight(link, owed, t, left, at)
                            /\ Received(t, left, at)
                            /\ Written(u)
                            /\ t[Len(link) + 1] = u[1]
  BY DEF DeltaInv, InFlight
<1>3. payload = <<>> /\ batch = <<>>
  BY DEF DeltaInv
<1>4. Flight(link, owed, t, left, at)' /\ Received(t, left, at)' /\ Written(u)'
  BY <1>2, <1>3 DEF Received, Written
<1>5. InFlight'
  BY <1>2, <1>4 DEF InFlight
<1>6. QED
  BY <1>1, <1>5 DEF DeltaInv

LEMMA EncodeOneInv ==
  ASSUME DeltaInv, NEW v \in Values, EncodeOne(v)
  PROVE  DeltaInv'
<1> USE DEF EncodeOne, receiver
<1> DEFINE e == EntryFor(senderTable, v)
           after == TableAfter(senderTable, v)
<1>1. /\ senderTable \in Tables /\ payload \in Seq(Entries) /\ batch \in Seq(Values)
      /\ bytes \in Nat
  BY DEF DeltaInv, DeltaTypeOK
<1>2. e \in Entries /\ after \in Tables /\ Replays(senderTable, e, v, after)
  BY <1>1, EntryReplays
<1>3. EntrySize(senderTable, v) \in Nat
  BY <1>1, LookupFinds, SizeAssumption DEF EntrySize, VarintLen
<1>4. DeltaTypeOK'
  BY <1>1, <1>2, <1>3 DEF DeltaInv, DeltaTypeOK
<1> HIDE DEF e, after
<1>5. PICK t, left, at, u : /\ Flight(link, owed, t, left, at)
                            /\ Received(t, left, at)
                            /\ Written(u)
                            /\ t[Len(link) + 1] = u[1]
  BY DEF DeltaInv, InFlight
<1> DEFINE n == Len(payload)
<1>6. n \in Nat
  BY <1>1
<1>7. /\ payload' = Append(payload, e) /\ batch' = Append(batch, v)
      /\ senderTable' = after
  BY DEF e, after
<1>8. /\ u \in [1..(n + 1) -> Tables] /\ Len(batch) = n /\ u[n + 1] = senderTable
      /\ \A i \in 1..n : Replays(u[i], payload[i], batch[i], u[i + 1])
  BY <1>5 DEF Written, Leads
<1>9. /\ Len(payload') = n + 1 /\ Len(batch') = n + 1
      /\ \A i \in 1..n : payload'[i] = payload[i] /\ batch'[i] = batch[i]
      /\ payload'[n + 1] = e /\ batch'[n + 1] = v
  BY <1>1, <1>2, <1>7, <1>8, AppendProperties
<1> HIDE DEF n
<1>10. PICK u2 : /\ u2 \in [1..(n + 2) -> Tables]
                 /\ \A i \in 1..(n + 1) : u2[i] = u[i]
                 /\ u2[n + 2] = after
  <2> DEFINE w == [i \in 1..(n + 2) |-> IF i <= n + 1 THEN u[i] ELSE after]
  <2>1. /\ w \in [1..(n + 2) -> Tables]
        /\ \A i \in 1..(n + 1) : w[i] = u[i]
        /\ w[n + 2] = after
    BY <1>2, <1>6, <1>8
  <2> HIDE DEF w
  <2>2. QED
    BY <2>1
<1>11. ASSUME NEW i \in 1..(n + 1)
       PROVE  Replays(u2[i], payload'[i], batch'[i], u2[i + 1])
  <2>1. CASE i = n + 1
    <3>1. n + 1 \in 1..(n + 1) /\ i + 1 = n + 2
      BY <1>6, <2>1
    <3>2. u2[i] = senderTable /\ u2[i + 1] = after /\ payload'[i] = e /\ batch'[i] = v
      BY <1>8, <1>9, <1>10, <2>1, <3>1
    <3>3. QED
      BY <1>2, <3>2
  <2>2. CASE i # n + 1
    <3>1. i \in 1..n /\ i \in 1..(n + 1) /\ i + 1 \in 1..(n + 1)
      BY <1>6, <2>2
    <3>2. QED
      BY <1>8, <1>9, <1>10, <3>1
  <2>3. QED
    BY <2>1, <2>2
<1>12. n + 1 + 1 = n + 2
  BY <1>6
<1>13. Written(u2)'
  BY <1>7, <1>9, <1>10, <1>11, <1>12 DEF Written, Leads
<1>14. Flight(link, owed, t, left, at)' /\ Received(t, left, at)'
  BY <1>5 DEF Received
<1>15. u2[1] = u[1]
  BY <1>6, <1>10
<1>16. InFlight'
  BY <1>5, <1>13, <1>14, <1>15 DEF InFlight
<1>17. QED
  BY <1>4, <1>16 DEF DeltaInv

(* a frame that the sender has finished, or a reset *)
LEMMA SendFrame ==
  ASSUME DeltaInv,
         NEW h \in Headers, NEW p \in Seq(Entries), NEW b \in Seq(Values),
         h.count = Len(p),
         NEW u, Leads(u, p, b),
         NEW t, NEW left, NEW at,
         Flight(link, owed, t, left, at),
         Received(t, left, at),
         u[1] = TableAfterHeader(h, t[Len(link) + 1]),
         link' = link \o <<h>> \o p,
         owed' = owed \o b,
         senderTable' = u[Len(p) + 1],
         senderTable' \in Tables,
         payload' = <<>>, batch' = <<>>, bytes' \in Nat,
         encoding' = FALSE,
         UNCHANGED <<lost, receiver>>
  PROVE  DeltaInv'
<1>1. link \in Seq(Messages) /\ owed \in Seq(Values) /\ updates \in Seq(Values)
  BY DEF DeltaInv, DeltaTypeOK
<1>2. Len(link) \in Nat /\ Len(p) \in Nat
  BY <1>1
<1>3. PICK t2, left2, at2 :
        /\ Flight(link', owed', t2, left2, at2)
        /\ t2[1] = t[1] /\ left2[1] = left[1] /\ at2[1] = at[1]
        /\ t2[Len(link) + Len(p) + 2] = u[Len(p) + 1]
        /\ link' \in Seq(Messages)
        /\ Len(link') = Len(link) + 1 + Len(p)
        /\ owed' \in Seq(Values)
  <2>1. /\ link \o <<h>> \o p \in Seq(Messages)
        /\ Len(link \o <<h>> \o p) = Len(link) + 1 + Len(p)
        /\ owed \o b \in Seq(Values)
        /\ \E t2, left2, at2 :
             /\ Flight(link \o <<h>> \o p, owed \o b, t2, left2, at2)
             /\ t2[1] = t[1] /\ left2[1] = left[1] /\ at2[1] = at[1]
             /\ t2[Len(link) + Len(p) + 2] = u[Len(p) + 1]
    <3>1. PICK n \in Nat, m \in Nat : n = Len(link) /\ m = Len(p)
      BY <1>2
    <3>2. GoesOn(link, owed, t, left, at, h, p, b, u, n, m)
      BY <1>1, <3>1 DEF GoesOn
    <3>3. /\ link \o <<h>> \o p \in Seq(Messages)
          /\ Len(link \o <<h>> \o p) = n + 1 + m
          /\ owed \o b \in Seq(Values)
          /\ \E t2, left2, at2 :
               /\ Flight(link \o <<h>> \o p, owed \o b, t2, left2, at2)
               /\ t2[1] = t[1] /\ left2[1] = left[1] /\ at2[1] = at[1]
               /\ t2[n + m + 2] = u[m + 1]
      <4>1. GoneOn(link, owed, t, left, at, h, p, b, u, n, m)
        BY <3>2, AddFrame, Zenon
      <4>2. QED
        BY <4>1 DEF GoneOn
    <3>4. QED
      BY <3>1, <3>3, Zenon
  <2>2. QED
    BY <2>1
<1>4. DeltaTypeOK'
  <2>1. <<>> \in Seq(Entries) /\ <<>> \in Seq(Values) /\ FALSE \in BOOLEAN
    BY EmptySeq
  <2>2. QED
    BY <1>1, <1>3, <2>1 DEF DeltaInv, DeltaTypeOK, receiver
<1>5. Len(updates) <= Len(owed) /\ Len(updates) \in Nat /\ Len(owed) \in Nat
  <2>1. 1 \in 1..(Len(link) + 1) /\ Len(link) + 1 \in 1..(Len(link) + 1)
        /\ 1 <= Len(link) + 1
    BY <1>2
  <2>2. at[1] <= at[Len(link) + 1]
    BY <2>1 DEF Flight
  <2>3. QED
    BY <1>1, <2>2 DEF Received, Flight
<1>6. \A i \in 1..Len(updates) : owed'[i] = owed[i]
  <2>1. \A i \in 1..Len(owed) : (owed \o b)[i] = owed[i]
    BY <1>1
  <2>2. QED
    BY <1>5, <2>1
<1>7. Received(t2, left2, at2)'
  BY <1>3, <1>6 DEF Received, receiver
<1>8. PICK u2 : u2 \in [1..1 -> Tables] /\ u2[1] = senderTable'
  <2>1. /\ [i \in 1..1 |-> senderTable'] \in [1..1 -> Tables]
        /\ [i \in 1..1 |-> senderTable'][1] = senderTable'
    OBVIOUS
  <2>2. QED
    BY <2>1
<1>9. Written(u2)'
  BY <1>8 DEF Written, Leads
<1>10. Len(link') + 1 = Len(link) + Len(p) + 2
  BY <1>2, <1>3
<1>11. t2[Len(link') + 1] = u2[1]
  BY <1>3, <1>8, <1>10
<1>12. InFlight'
  BY <1>3, <1>7, <1>9, <1>11 DEF InFlight
<1>13. QED
  BY <1>4, <1>12 DEF DeltaInv

LEMMA FinishEncodeInv ==
  ASSUME DeltaInv, FinishEncode, ByteLimit = {}
  PROVE  DeltaInv'
<1> DEFINE h == FrameHeader(Len(batch), HEADER_LEN + bytes, FALSE)
<1>1. /\ payload \in Seq(Entries) /\ batch \in Seq(Values) /\ bytes \in Nat
      /\ senderTable \in Tables
  BY DEF DeltaInv, DeltaTypeOK
<1>2. PICK t, left, at, u : /\ Flight(link, owed, t, left, at)
                            /\ Received(t, left, at)
                            /\ Written(u)
                            /\ t[Len(link) + 1] = u[1]
  BY DEF DeltaInv, InFlight
<1>3. ~OverLimit(HEADER_LEN + bytes)
  BY DEF OverLimit
<1>4. /\ link' = link \o <<h>> \o payload /\ owed' = owed \o batch
      /\ payload' = <<>> /\ batch' = <<>> /\ bytes' = 0 /\ encoding' = FALSE
      /\ UNCHANGED <<senderTable, lost, receiver>>
  BY <1>3 DEF FinishEncode
<1>5. h \in Headers /\ h.count = Len(batch) /\ ~h.reset
  BY <1>1 DEF FrameHeader, Headers, HEADER_LEN
<1> HIDE DEF h
<1>6. Leads(u, payload, batch) /\ Len(batch) = Len(payload) /\ u[Len(payload) + 1] = senderTable
  BY <1>2 DEF Written, Leads
<1>7. u[1] = TableAfterHeader(h, t[Len(link) + 1])
  BY <1>2, <1>5 DEF TableAfterHeader
<1>8. QED
  BY <1>1, <1>2, <1>4, <1>5, <1>6, <1>7, SendFrame

LEMMA ClearBothInv ==
  ASSUME DeltaInv, ClearBoth
  PROVE  DeltaInv'
<1> DEFINE h == FrameHeader(0, HEADER_LEN, TRUE)
           u == [i \in 1..1 |-> <<>>]
<1>1. /\ payload = <<>> /\ batch = <<>> /\ link \in Seq(Messages) /\ owed \in Seq(Values)
  BY DEF DeltaInv, DeltaTypeOK, ClearBoth
<1>2. PICK t, left, at : /\ Flight(link, owed, t, left, at)
                         /\ Received(t, left, at)
  BY DEF DeltaInv, InFlight
<1>3. h \in Headers /\ h.count = 0 /\ h.reset
  BY DEF FrameHeader, Headers, HEADER_LEN
<1>4. u \in [1..1 -> Tables] /\ u[1] = <<>>
  BY DEF Tables
<1>5. /\ link' = Append(link, h)
      /\ senderTable' = <<>> /\ UNCHANGED <<encoding, payload, batch, bytes, lost, receiver, owed>>
  BY DEF ClearBoth
<1> HIDE DEF h, u
<1>6. link' = link \o <<h>> \o <<>>
  <2>1. h \in Messages
    BY <1>3 DEF Messages
  <2>2. QED
    BY <1>1, <1>5, <2>1
<1>7. owed' = owed \o <<>>
  BY <1>1, <1>5
<1>8. Leads(u, <<>>, <<>>)
  BY <1>4 DEF Leads
<1>9. u[1] = TableAfterHeader(h, t[Len(link) + 1]) /\ senderTable' = u[Len(<<>>) + 1]
  BY <1>3, <1>4, <1>5 DEF TableAfterHeader
<1>10. bytes' = bytes
  BY <1>5
<1>11. /\ payload' = <<>> /\ batch' = <<>> /\ encoding' = FALSE /\ bytes' \in Nat
       /\ UNCHANGED <<lost, receiver>> /\ senderTable' \in Tables
       /\ <<>> \in Seq(Entries) /\ <<>> \in Seq(Values) /\ h.count = Len(<<>>)
  BY <1>1, <1>3, <1>5, EmptySeq DEF DeltaInv, DeltaTypeOK, ClearBoth, Tables
<1>12. QED
  BY <1>2, <1>3, <1>6, <1>7, <1>8, <1>9, <1>11, SendFrame

---------------------------------------------------------------------------
(* The receiver's steps and the link's *)

(* The link without k messages and the updates without the d oldest, which  *)
(* those k messages or earlier ones stood for                               *)
Skipped(lnk, ow, t, left, at, k, d) ==
  /\ Drop(lnk, k) \in Seq(Messages)
  /\ Drop(ow, d) \in Seq(Values)
  /\ \E t2, left2, at2 :
       /\ Flight(Drop(lnk, k), Drop(ow, d), t2, left2, at2)
       /\ t2[1] = t[k + 1] /\ left2[1] = left[k + 1] /\ at2[1] = at[k + 1] - d
       /\ t2[Len(Drop(lnk, k)) + 1] = t[Len(lnk) + 1]

LEMMA Skip ==
  ASSUME NEW lnk \in Seq(Messages), NEW ow \in Seq(Values),
         NEW t, NEW left, NEW at,
         Flight(lnk, ow, t, left, at),
         NEW k \in 0..Len(lnk), NEW d \in 0..at[k + 1]
  PROVE  Skipped(lnk, ow, t, left, at, k, d)
<1> DEFINE n == Len(lnk) - k
<1>0. Rest(lnk, ow, t, left, at, k)
  BY DropMessages
<1>1. PICK t2, left2, at2 :
        /\ Drop(lnk, k) \in Seq(Messages)
        /\ Len(Drop(lnk, k)) = n
        /\ Flight(Drop(lnk, k), ow, t2, left2, at2)
        /\ \A i \in 1..(n + 1) :
             t2[i] = t[i + k] /\ left2[i] = left[i + k] /\ at2[i] = at[i + k]
  BY <1>0 DEF Rest
<1>2. n \in Nat
  OBVIOUS
<1>3. /\ t2[1] = t[k + 1] /\ left2[1] = left[k + 1] /\ at2[1] = at[k + 1]
      /\ t2[n + 1] = t[Len(lnk) + 1]
  <2>1. /\ 1 \in 1..(n + 1) /\ 1 + k = k + 1
        /\ n + 1 \in 1..(n + 1) /\ n + 1 + k = Len(lnk) + 1
    BY <1>2
  <2> HIDE DEF n
  <2>2. QED
    BY <1>1, <2>1
<1>4. d \in 0..at2[1]
  BY <1>3
<1>5. Forgotten(Drop(lnk, k), ow, t2, left2, at2, d)
  BY <1>1, <1>4, DropUpdates
<1> HIDE DEF n
<1>6. QED
  BY <1>1, <1>3, <1>5 DEF Skipped, Forgotten

LEMMA DropNone ==
  ASSUME NEW S, NEW s \in Seq(S)
  PROVE  Drop(s, 0) = s
<1>1. \A i \in 1..Len(s) : s[i] \in S
  OBVIOUS
<1>2. /\ SubSeq(s, 1, Len(s)) \in Seq(S)
      /\ Len(SubSeq(s, 1, Len(s))) = Len(s)
      /\ \A i \in 1..Len(s) : SubSeq(s, 1, Len(s))[i] = s[i]
  BY SubSeqProperties
<1>3. SubSeq(s, 1, Len(s)) = s
  BY <1>2, SeqEqual
<1>4. QED
  BY <1>3 DEF Drop

(* What the receiver or the link does: k messages leave the link, d updates  *)
(* are settled, and the receiver stands where the rest of the link begins   *)
Consumes(k, d, t, left, at) ==
  /\ k \in 0..Len(link) /\ d \in 0..at[k + 1]
  /\ link' = Drop(link, k) /\ owed' = Drop(owed, d)
  /\ receiverTable' \in Tables /\ lost' \in BOOLEAN /\ decodeError' \in BOOLEAN
  /\ remaining' \in Nat \union {-1} /\ updates' \in Seq(Values)
  /\ left[k + 1] = IF remaining' = -1 THEN 0 ELSE remaining'
  /\ at[k + 1] - d = Len(updates')
  /\ remaining' = -1 => updates' = <<>>
  /\ ~lost' => /\ ~decodeError'
               /\ t[k + 1] = receiverTable'
               /\ \A i \in 1..Len(updates') : updates'[i] = owed'[i]
  /\ UNCHANGED sender

LEMMA ConsumeInv ==
  ASSUME DeltaInv,
         NEW t, NEW left, NEW at, NEW u,
         Flight(link, owed, t, left, at),
         Written(u),
         t[Len(link) + 1] = u[1],
         NEW k, NEW d,
         Consumes(k, d, t, left, at)
  PROVE  DeltaInv'
<1> USE DEF Consumes
<1>1. link \in Seq(Messages) /\ owed \in Seq(Values)
  BY DEF DeltaInv, DeltaTypeOK
<1>2. Skipped(link, owed, t, left, at, k, d)
  BY <1>1, Skip
<1>3. PICK t2, left2, at2 :
        /\ Flight(link', owed', t2, left2, at2)
        /\ t2[1] = t[k + 1] /\ left2[1] = left[k + 1] /\ at2[1] = at[k + 1] - d
        /\ t2[Len(link') + 1] = t[Len(link) + 1]
        /\ link' \in Seq(Messages) /\ owed' \in Seq(Values)
  BY <1>2 DEF Skipped
<1>4. DeltaTypeOK'
  BY <1>3 DEF DeltaInv, DeltaTypeOK, sender
<1>5. Received(t2, left2, at2)'
  BY <1>3 DEF Received
<1>6. Written(u)'
  BY DEF Written, sender
<1>7. InFlight'
  BY <1>3, <1>5, <1>6 DEF InFlight
<1>8. QED
  BY <1>4, <1>7 DEF DeltaInv, sender

(* the message the receiver meets first *)
LEMMA FirstMessage ==
  ASSUME NEW lnk \in Seq(Messages), NEW ow \in Seq(Values),
         NEW t, NEW left, NEW at,
         Flight(lnk, ow, t, left, at),
         lnk # <<>> \/ left[1] > 0
  PROVE  /\ lnk # <<>> /\ 1 \in 0..Len(lnk)
         /\ Head(lnk) = lnk[1] /\ Tail(lnk) = Drop(lnk, 1)
         /\ Message(lnk, ow, t, left, at, 1)
         /\ Whole(Len(lnk), left, at, 1) /\ Whole(Len(lnk), left, at, 2)
         /\ t[1] \in Tables /\ t[2] \in Tables
         /\ left[1] \in Nat /\ left[2] \in Nat
         /\ at[1] \in Nat /\ at[2] \in Nat
<1>1. Len(lnk) \in Nat
  OBVIOUS
<1>2. lnk # <<>>
  <2>1. left[Len(lnk) + 1] = 0
    BY DEF Flight
  <2>2. lnk = <<>> => Len(lnk) + 1 = 1
    OBVIOUS
  <2>3. QED
    BY <2>1, <2>2
<1>3. Len(lnk) # 0
  BY <1>2, EmptySeq
<1>4. 1 \in 1..Len(lnk) /\ 1 \in 1..(Len(lnk) + 1) /\ 2 \in 1..(Len(lnk) + 1)
      /\ 1 \in 0..Len(lnk)
  BY <1>1, <1>3
<1>5. Head(lnk) = lnk[1] /\ Tail(lnk) = Drop(lnk, 1)
  <2>1. Tail(lnk) = SubSeq(lnk, 2, Len(lnk))
    BY <1>2, TailIsSubSeq
  <2>2. QED
    BY <2>1, HeadTailProperties, <1>2 DEF Drop
<1>6. QED
  BY <1>2, <1>4, <1>5 DEF Flight

LEMMA BeginDecodeInv ==
  ASSUME DeltaInv, BeginDecode, ByteLimit = {}
  PROVE  DeltaInv'
<1>1. PICK t, left, at, u : /\ Flight(link, owed, t, left, at)
                            /\ Received(t, left, at)
                            /\ Written(u)
                            /\ t[Len(link) + 1] = u[1]
  BY DEF DeltaInv, InFlight
<1>2. /\ link \in Seq(Messages) /\ owed \in Seq(Values) /\ lost \in BOOLEAN
      /\ receiverTable \in Tables
  BY DEF DeltaInv, DeltaTypeOK
<1>3. link # <<>> /\ remaining = -1 /\ UNCHANGED <<sender, updates>>
  BY DEF BeginDecode
<1> DEFINE h == link[1]
<1>4. /\ 1 \in 0..Len(link) /\ Head(link) = h /\ Tail(link) = Drop(link, 1)
      /\ Message(link, owed, t, left, at, 1)
      /\ left[2] \in Nat /\ at[1] \in Nat /\ at[2] \in Nat
  BY <1>1, <1>2, <1>3, FirstMessage
<1>5. left[1] = 0 /\ at[1] = 0 /\ updates = <<>>
  BY <1>1, <1>3 DEF Received
<1>6. /\ h \in Headers /\ left[2] = h.count /\ at[2] = 0
      /\ t[2] = TableAfterHeader(h, t[1])
  BY <1>4, <1>5 DEF Message
<1>7. ~OverLimit(h.size)
  BY DEF OverLimit
<1>8. /\ decodeError' = FALSE
      /\ link' = Drop(link, 1)
      /\ lost' = (lost /\ ~h.reset)
      /\ receiverTable' = TableAfterHeader(h, receiverTable)
      /\ remaining' = h.count
      /\ owed' = owed
  BY <1>4, <1>7 DEF BeginDecode, TableAtHeader, TableAfterHeader
<1> HIDE DEF h
<1>9. h.count \in Nat /\ h.reset \in BOOLEAN
  BY <1>6 DEF Headers
<1>10. receiverTable' \in Tables
  BY <1>2, <1>8, EmptySeq DEF TableAfterHeader, Tables
<1>11. lost' \in BOOLEAN
  BY <1>8
<1>12. ~lost' => t[2] = receiverTable'
  <2>1. ~lost' => ~lost \/ h.reset
    BY <1>2, <1>8, <1>9
  <2>2. ~lost => t[1] = receiverTable
    BY <1>1 DEF Received
  <2>3. QED
    BY <2>1, <2>2, <1>6, <1>8 DEF TableAfterHeader
<1>13. owed' = Drop(owed, 0)
  BY <1>2, <1>8, DropNone
<1>14. Consumes(1, 0, t, left, at)
  <2>1. 1 \in 0..Len(link) /\ 0 \in 0..at[1 + 1]
    BY <1>4
  <2>2. updates' = <<>> /\ <<>> \in Seq(Values) /\ Len(<<>>) = 0
    BY <1>3, <1>5, EmptySeq
  <2>3. remaining' \in Nat \union {-1} /\ remaining' # -1 /\ left[1 + 1] = remaining'
    BY <1>6, <1>8, <1>9
  <2>4. at[1 + 1] - 0 = Len(updates')
    BY <1>6, <2>2
  <2>5. ~lost' => /\ ~decodeError'
                  /\ t[1 + 1] = receiverTable'
                  /\ \A i \in 1..Len(updates') : updates'[i] = owed'[i]
    BY <1>8, <1>12, <2>2
  <2>6. updates' \in Seq(Values) /\ decodeError' \in BOOLEAN /\ UNCHANGED sender
    BY <1>3, <1>8, <2>2
  <2>7. QED
    BY <1>8, <1>10, <1>11, <1>13, <2>1, <2>2, <2>3, <2>4, <2>5, <2>6 DEF Consumes
<1>15. QED
  BY <1>1, <1>14, ConsumeInv

(* What a message of a frame that is being decoded looks like to the        *)
(* receiver                                                                 *)
LEMMA FirstEntry ==
  ASSUME DeltaInv, remaining > 0,
         NEW t, NEW left, NEW at,
         Flight(link, owed, t, left, at), Received(t, left, at)
  PROVE  /\ 1 \in 0..Len(link) /\ Head(link) = link[1] /\ Tail(link) = Drop(link, 1)
         /\ remaining \in Nat /\ left[1] = remaining /\ at[1] = Len(updates)
         /\ link[1] \in Entries
         /\ Len(updates) + 1 \in 1..Len(owed)
         /\ Replays(t[1], link[1], owed[Len(updates) + 1], t[2])
         /\ left[2] = remaining - 1 /\ at[2] = Len(updates) + 1
         /\ t[2] \in Tables
         /\ remaining \in 0..Len(link)
         /\ left[remaining + 1] = 0
         /\ at[remaining + 1] = Len(updates) + remaining
<1>1. /\ link \in Seq(Messages) /\ owed \in Seq(Values)
      /\ remaining \in Nat /\ updates \in Seq(Values)
  BY DEF DeltaInv, DeltaTypeOK
<1>2. left[1] = remaining /\ at[1] = Len(updates)
  BY <1>1 DEF Received
<1>3. left[1] > 0
  BY <1>2
<1>4. /\ 1 \in 0..Len(link) /\ Head(link) = link[1] /\ Tail(link) = Drop(link, 1)
      /\ Message(link, owed, t, left, at, 1)
      /\ Whole(Len(link), left, at, 1)
      /\ t[2] \in Tables
  BY <1>1, <1>3, FirstMessage
<1>5. /\ link[1] \in Entries
      /\ Len(updates) + 1 \in 1..Len(owed)
      /\ Replays(t[1], link[1], owed[Len(updates) + 1], t[2])
  BY <1>2, <1>3, <1>4 DEF Message
<1>6. 1 \in 0..left[1] /\ remaining \in 0..left[1]
  BY <1>1, <1>2
<1>7. left[1 + 1] = left[1] - 1 /\ at[1 + 1] = at[1] + 1
  BY <1>4, <1>6 DEF Whole
<1>8. /\ 1 + remaining \in 1..(Len(link) + 1)
      /\ left[1 + remaining] = left[1] - remaining
      /\ at[1 + remaining] = at[1] + remaining
  BY <1>4, <1>6 DEF Whole
<1>9. 1 + remaining = remaining + 1 /\ Len(link) \in Nat
  BY <1>1
<1>10. QED
  BY <1>1, <1>2, <1>4, <1>5, <1>7, <1>8, <1>9

(* a call that fails gives up the rest of its frame and what it had decoded *)
LEMMA FailInv ==
  ASSUME DeltaInv, remaining > 0, FailDecode(remaining), lost' = TRUE, UNCHANGED sender
  PROVE  DeltaInv'
<1>1. PICK t, left, at, u : /\ Flight(link, owed, t, left, at)
                            /\ Received(t, left, at)
                            /\ Written(u)
                            /\ t[Len(link) + 1] = u[1]
  BY DEF DeltaInv, InFlight
<1>2. receiverTable \in Tables /\ updates \in Seq(Values) /\ remaining \in Nat
  BY DEF DeltaInv, DeltaTypeOK
<1>3. /\ remaining \in 0..Len(link)
      /\ left[remaining + 1] = 0
      /\ at[remaining + 1] = Len(updates) + remaining
  BY <1>1, FirstEntry
<1>4. /\ decodeError' = TRUE /\ link' = Drop(link, remaining)
      /\ owed' = Drop(owed, Len(updates) + remaining)
      /\ remaining' = -1 /\ updates' = <<>> /\ receiverTable' = receiverTable
  BY DEF FailDecode
<1>5. <<>> \in Seq(Values) /\ Len(<<>>) = 0
  BY EmptySeq
<1>6. /\ Len(updates) + remaining \in 0..at[remaining + 1]
      /\ at[remaining + 1] - (Len(updates) + remaining) = 0
  BY <1>2, <1>3
<1> DEFINE d == Len(updates) + remaining
<1> HIDE DEF d
<1>7. Consumes(remaining, d, t, left, at)
  BY <1>2, <1>3, <1>4, <1>5, <1>6 DEF Consumes, d
<1>8. QED
  BY <1>1, <1>7, ConsumeInv

LEMMA DecodeRefInv ==
  ASSUME DeltaInv, DecodeRef
  PROVE  DeltaInv'
<1>1. PICK t, left, at, u : /\ Flight(link, owed, t, left, at)
                            /\ Received(t, left, at)
                            /\ Written(u)
                            /\ t[Len(link) + 1] = u[1]
  BY DEF DeltaInv, InFlight
<1>2. /\ remaining > 0 /\ Head(link).tag = "ref" /\ UNCHANGED <<sender, lost>>
  BY DEF DecodeRef
<1>3. /\ receiverTable \in Tables /\ updates \in Seq(Values) /\ owed \in Seq(Values)
      /\ lost \in BOOLEAN /\ decodeError \in BOOLEAN
  BY DEF DeltaInv, DeltaTypeOK
<1> DEFINE e == link[1]
           index == e.index + 1
<1>4. /\ 1 \in 0..Len(link) /\ Head(link) = e /\ Tail(link) = Drop(link, 1)
      /\ remaining \in Nat /\ left[1] = remaining /\ at[1] = Len(updates)
      /\ Len(updates) + 1 \in 1..Len(owed)
      /\ Replays(t[1], e, owed[Len(updates) + 1], t[2])
      /\ left[2] = remaining - 1 /\ at[2] = Len(updates) + 1
  BY <1>1, <1>2, FirstEntry
<1>5. e.tag = "ref"
  BY <1>2, <1>4
<1> HIDE DEF e
<1>6. /\ index \in 1..Len(t[1]) /\ t[1][index] = owed[Len(updates) + 1]
      /\ t[2] = t[1]
  BY <1>4, <1>5 DEF Replays
<1>7. ~lost => t[1] = receiverTable /\ ~decodeError
               /\ \A i \in 1..Len(updates) : updates[i] = owed[i]
  BY <1>1 DEF Received
<1>8. CASE index \notin 1..Len(receiverTable)
  <2>1. lost
    BY <1>6, <1>7, <1>8
  <2>2. FailDecode(remaining)
    BY <1>4, <1>8 DEF DecodeRef
  <2>3. QED
    BY <1>2, <2>1, <2>2, FailInv
<1>9. CASE index \in 1..Len(receiverTable)
  <2> DEFINE v == receiverTable[index]
  <2>1. v \in Values
    BY <1>3, <1>9 DEF Tables
  <2>2. /\ updates' = Append(updates, v) /\ link' = Drop(link, 1)
        /\ remaining' = remaining - 1
        /\ UNCHANGED <<receiverTable, decodeError, owed>>
    BY <1>4, <1>9 DEF DecodeRef
  <2>3. ~lost => v = owed[Len(updates) + 1]
    BY <1>6, <1>7
  <2> HIDE DEF v, index
  <2>4. /\ updates' \in Seq(Values) /\ Len(updates') = Len(updates) + 1
        /\ updates'[Len(updates) + 1] = v
        /\ \A i \in 1..Len(updates) : updates'[i] = updates[i]
    BY <1>3, <2>1, <2>2, AppendProperties
  <2>5. ~lost => \A i \in 1..Len(updates') : updates'[i] = owed[i]
    <3>1. \A i \in 1..(Len(updates) + 1) : i \in 1..Len(updates) \/ i = Len(updates) + 1
      BY <1>3
    <3>2. QED
      BY <1>7, <2>3, <2>4, <3>1
  <2>6. owed' = Drop(owed, 0)
    BY <1>3, <2>2, DropNone
  <2>7. 0 \in 0..at[1 + 1] /\ at[1 + 1] - 0 = Len(updates')
    BY <1>3, <1>4, <2>4
  <2>8. remaining' \in Nat /\ remaining' # -1 /\ left[1 + 1] = remaining'
    BY <1>2, <1>4, <2>2
  <2>9. ~lost => t[1 + 1] = receiverTable
    BY <1>6, <1>7
  <2>10. Consumes(1, 0, t, left, at)
    BY <1>2, <1>3, <1>4, <1>7, <2>2, <2>4, <2>5, <2>6, <2>7, <2>8, <2>9 DEF Consumes
  <2>11. QED
    BY <1>1, <2>10, ConsumeInv
<1>10. QED
  BY <1>8, <1>9

LEMMA DecodeLiteralInv ==
  ASSUME DeltaInv, DecodeLiteral
  PROVE  DeltaInv'
<1>1. PICK t, left, at, u : /\ Flight(link, owed, t, left, at)
                            /\ Received(t, left, at)
                            /\ Written(u)
                            /\ t[Len(link) + 1] = u[1]
  BY DEF DeltaInv, InFlight
<1>2. /\ remaining > 0 /\ Head(link).tag = "literal"
      /\ UNCHANGED <<sender, lost, decodeError, owed>>
  BY DEF DecodeLiteral
<1>3. /\ receiverTable \in Tables /\ updates \in Seq(Values) /\ owed \in Seq(Values)
      /\ lost \in BOOLEAN /\ decodeError \in BOOLEAN
  BY DEF DeltaInv, DeltaTypeOK
<1> DEFINE e == link[1]
           v == e.value
<1>4. /\ 1 \in 0..Len(link) /\ Head(link) = e /\ Tail(link) = Drop(link, 1)
      /\ remaining \in Nat /\ left[1] = remaining /\ at[1] = Len(updates)
      /\ e \in Entries
      /\ Len(updates) + 1 \in 1..Len(owed)
      /\ Replays(t[1], e, owed[Len(updates) + 1], t[2])
      /\ left[2] = remaining - 1 /\ at[2] = Len(updates) + 1
  BY <1>1, <1>2, FirstEntry
<1>5. e.tag = "literal"
  BY <1>2, <1>4
<1>6. /\ updates' = Append(updates, v) /\ link' = Drop(link, 1)
      /\ remaining' = remaining - 1
      /\ receiverTable' = Insert(receiverTable, v)
  BY <1>4 DEF DecodeLiteral
<1> HIDE DEF e
<1>7. v \in Values /\ v = owed[Len(updates) + 1] /\ t[2] = Insert(t[1], v)
  BY <1>4, <1>5 DEF Replays, Entries, Refs, Literals
<1>8. ~lost => t[1] = receiverTable /\ ~decodeError
               /\ \A i \in 1..Len(updates) : updates[i] = owed[i]
  BY <1>1 DEF Received
<1> HIDE DEF v
<1>9. receiverTable' \in Tables
  BY <1>3, <1>6, <1>7, InsertType
<1>10. /\ updates' \in Seq(Values) /\ Len(updates') = Len(updates) + 1
       /\ updates'[Len(updates) + 1] = v
       /\ \A i \in 1..Len(updates) : updates'[i] = updates[i]
  BY <1>3, <1>6, <1>7, AppendProperties
<1>11. ~lost => \A i \in 1..Len(updates') : updates'[i] = owed[i]
  <2>1. \A i \in 1..(Len(updates) + 1) : i \in 1..Len(updates) \/ i = Len(updates) + 1
    BY <1>3
  <2>2. QED
    BY <1>7, <1>8, <1>10, <2>1
<1>12. owed' = Drop(owed, 0)
  BY <1>2, <1>3, DropNone
<1>13. 0 \in 0..at[1 + 1] /\ at[1 + 1] - 0 = Len(updates')
  BY <1>3, <1>4, <1>10
<1>14. remaining' \in Nat /\ remaining' # -1 /\ left[1 + 1] = remaining'
  BY <1>2, <1>4, <1>6
<1>15. ~lost => t[1 + 1] = receiverTable'
  BY <1>6, <1>7, <1>8
<1>16. Consumes(1, 0, t, left, at)
  BY <1>2, <1>3, <1>4, <1>6, <1>8, <1>9, <1>10, <1>11, <1>12, <1>13, <1>14, <1>15
  DEF Consumes
<1>17. QED
  BY <1>1, <1>16, ConsumeInv

LEMMA FinishDecodeInv ==
  ASSUME DeltaInv, FinishDecode
  PROVE  DeltaInv'
<1>1. PICK t, left, at, u : /\ Flight(link, owed, t, left, at)
                            /\ Received(t, left, at)
                            /\ Written(u)
                            /\ t[Len(link) + 1] = u[1]
  BY DEF DeltaInv, InFlight
<1>2. /\ receiverTable \in Tables /\ updates \in Seq(Values) /\ link \in Seq(Messages)
      /\ lost \in BOOLEAN /\ decodeError \in BOOLEAN
  BY DEF DeltaInv, DeltaTypeOK
<1>3. /\ remaining = 0 /\ remaining' = -1 /\ owed' = Drop(owed, Len(updates))
      /\ updates' = <<>> /\ UNCHANGED <<sender, link, lost, receiverTable, decodeError>>
  BY DEF FinishDecode
<1>4. left[1] = 0 /\ at[1] = Len(updates)
  BY <1>1, <1>3 DEF Received
<1>5. ~lost => ~decodeError /\ t[1] = receiverTable
  BY <1>1 DEF Received
<1>6. <<>> \in Seq(Values) /\ Len(<<>>) = 0
  BY EmptySeq
<1>7. link' = Drop(link, 0)
  BY <1>2, <1>3, DropNone
<1>8. Len(updates) \in 0..at[0 + 1] /\ at[0 + 1] - Len(updates) = 0 /\ 0 \in 0..Len(link)
  BY <1>2, <1>4
<1>9. left[0 + 1] = 0 /\ 0 + 1 = 1
  BY <1>4
<1>10. ~lost' => /\ ~decodeError' /\ t[0 + 1] = receiverTable'
                 /\ \A i \in 1..Len(updates') : updates'[i] = owed'[i]
  BY <1>3, <1>5, <1>6, <1>9
<1> DEFINE d == Len(updates)
<1> HIDE DEF d
<1>11. Consumes(0, d, t, left, at)
  BY <1>2, <1>3, <1>6, <1>7, <1>8, <1>9, <1>10 DEF Consumes, d
<1>12. QED
  BY <1>1, <1>11, ConsumeInv

LEMMA LoseFrameInv ==
  ASSUME DeltaInv, LoseFrame
  PROVE  DeltaInv'
<1>1. PICK t, left, at, u : /\ Flight(link, owed, t, left, at)
                            /\ Received(t, left, at)
                            /\ Written(u)
                            /\ t[Len(link) + 1] = u[1]
  BY DEF DeltaInv, InFlight
<1>2. /\ link \in Seq(Messages) /\ owed \in Seq(Values)
      /\ receiverTable \in Tables /\ decodeError \in BOOLEAN
  BY DEF DeltaInv, DeltaTypeOK
<1> DEFINE c == Head(link).count
<1>3. /\ link # <<>> /\ remaining = -1 /\ link' = Drop(link, 1 + c)
      /\ owed' = Drop(owed, c) /\ lost' = TRUE /\ UNCHANGED <<sender, receiver>>
  BY DEF LoseFrame
<1>4. left[1] = 0 /\ at[1] = 0 /\ updates = <<>>
  BY <1>1, <1>3, EmptySeq DEF Received
<1>5. /\ Head(link) = link[1] /\ Message(link, owed, t, left, at, 1)
      /\ Whole(Len(link), left, at, 2)
  BY <1>1, <1>2, <1>3, FirstMessage
<1>6. link[1] \in Headers /\ left[2] = c /\ at[2] = 0
  BY <1>4, <1>5 DEF Message
<1>7. c \in Nat
  BY <1>5, <1>6 DEF Headers
<1> HIDE DEF c
<1>8. c \in 0..left[2]
  BY <1>6, <1>7
<1>9. /\ 2 + c \in 1..(Len(link) + 1)
      /\ left[2 + c] = left[2] - c /\ at[2 + c] = at[2] + c
  BY <1>5, <1>8 DEF Whole
<1> DEFINE k == 1 + c
<1>10. k \in 0..Len(link) /\ k + 1 = 2 + c
  BY <1>2, <1>7, <1>9
<1>11. left[k + 1] = 0 /\ at[k + 1] = c
  BY <1>6, <1>7, <1>9, <1>10
<1>12. link' = Drop(link, k)
  BY <1>3
<1> HIDE DEF k
<1>13. c \in 0..at[k + 1] /\ at[k + 1] - c = 0
  BY <1>7, <1>11
<1>14. <<>> \in Seq(Values) /\ Len(<<>>) = 0
  BY EmptySeq
<1>15. Consumes(k, c, t, left, at)
  BY <1>2, <1>3, <1>4, <1>10, <1>11, <1>12, <1>13, <1>14 DEF Consumes, receiver
<1>16. QED
  BY <1>1, <1>15, ConsumeInv

---------------------------------------------------------------------------
(* DeltaInv is inductive: one case for each action of delta.rs and of the    *)
(* application's link                                                       *)
LEMMA DeltaStep ==
  ASSUME DeltaInv, [DeltaNext]_dvars, ByteLimit = {}
  PROVE  DeltaInv'
<1>1. CASE BeginEncode
  BY <1>1, BeginEncodeInv
<1>2. ASSUME NEW v \in Values, EncodeOne(v) PROVE DeltaInv'
  BY <1>2, EncodeOneInv
<1>3. CASE FinishEncode
  BY <1>3, FinishEncodeInv
<1>4. CASE ClearBoth
  BY <1>4, ClearBothInv
<1>5. CASE BeginDecode
  BY <1>5, BeginDecodeInv
<1>6. CASE DecodeRef
  BY <1>6, DecodeRefInv
<1>7. CASE DecodeLiteral
  BY <1>7, DecodeLiteralInv
<1>8. CASE FinishDecode
  BY <1>8, FinishDecodeInv
<1>9. CASE LoseFrame
  BY <1>9, LoseFrameInv
<1>10. CASE CutFrame
  <2>1. remaining > 0 /\ FailDecode(remaining) /\ lost' = TRUE /\ UNCHANGED sender
    BY <1>10 DEF CutFrame
  <2>2. QED
    BY <2>1, FailInv
<1>11. CASE UNCHANGED dvars
  BY <1>11 DEF dvars, DeltaInv, DeltaTypeOK, InFlight, Received, Written
<1>12. QED
  BY <1>1, <1>2, <1>3, <1>4, <1>5, <1>6, <1>7, <1>8, <1>9, <1>10, <1>11 DEF DeltaNext

(* What is in flight leads from the receiver's table to the sender's, in     *)
(* every state of any number of encode_updates and decode_updates calls.    *)
THEOREM DeltaInvariant == ByteLimit = {} /\ DeltaSpec => []DeltaInv
<1>1. DeltaInit => DeltaInv
  BY InitInv
<1>2. ByteLimit = {} /\ DeltaInv /\ [DeltaNext]_dvars => DeltaInv'
  BY DeltaStep
<1>3. CASE ByteLimit = {}
  <2>1. DeltaInv /\ [DeltaNext]_dvars => DeltaInv'
    BY <1>2, <1>3
  <2>2. QED
    BY <1>1, <2>1, PTL DEF DeltaSpec
<1>4. CASE ByteLimit # {}
  BY <1>4
<1>5. QED
  BY <1>3, <1>4

LEMMA InvDelivers == DeltaInv => DeliversInOrder
<1> SUFFICES ASSUME DeltaInv, ~lost
             PROVE  ~decodeError /\ IsPrefix(updates, owed)
  BY DEF DeliversInOrder
<1>1. PICK t, left, at : Flight(link, owed, t, left, at) /\ Received(t, left, at)
  BY DEF DeltaInv, InFlight
<1>2. updates \in Seq(Values) /\ owed \in Seq(Values) /\ link \in Seq(Messages)
  BY DEF DeltaInv, DeltaTypeOK
<1>3. Len(updates) \in Nat /\ Len(owed) \in Nat /\ Len(link) \in Nat
  BY <1>2
<1>4. ~decodeError /\ \A i \in 1..Len(updates) : updates[i] = owed[i]
  BY <1>1 DEF Received
<1>5. Len(updates) <= Len(owed)
  <2>1. 1 \in 1..(Len(link) + 1) /\ Len(link) + 1 \in 1..(Len(link) + 1)
        /\ 1 <= Len(link) + 1
    BY <1>3
  <2>2. at[1] <= at[Len(link) + 1]
    BY <1>1, <2>1 DEF Flight
  <2>3. QED
    BY <1>1, <2>2 DEF Received, Flight
<1> DEFINE first == SubSeq(owed, 1, Len(updates))
<1>6. \A i \in 1..Len(updates) : owed[i] \in Values
  BY <1>2, <1>3, <1>5
<1>7. /\ first \in Seq(Values) /\ Len(first) = Len(updates)
      /\ \A i \in 1..Len(updates) : first[i] = owed[i]
  BY <1>2, <1>3, <1>5, <1>6, SubSeqProperties
<1>8. first = updates
  BY <1>2, <1>4, <1>7, SeqEqual
<1>9. QED
  BY <1>4, <1>5, <1>8 DEF IsPrefix

(* A reference that encode_updates writes resolves in the receiver's table to *)
(* the value it was written for, and decode_updates hands out the updates in  *)
(* order, however many evictions the two tables are apart.                    *)
THEOREM DeltaDelivers == ByteLimit = {} /\ DeltaSpec => []DeliversInOrder
BY DeltaInvariant, InvDelivers, PTL

LEMMA InvAgrees == DeltaInv => TablesAgree
<1> SUFFICES ASSUME DeltaInv, ~encoding, link = <<>>, ~lost
             PROVE  senderTable = receiverTable
  BY DEF TablesAgree
<1>1. PICK t, left, at, u : /\ Received(t, left, at)
                            /\ Written(u)
                            /\ t[Len(link) + 1] = u[1]
  BY DEF DeltaInv, InFlight
<1>2. payload = <<>> /\ Len(payload) + 1 = 1 /\ Len(link) + 1 = 1
  BY DEF DeltaInv
<1>3. u[1] = senderTable
  BY <1>1, <1>2 DEF Written
<1>4. t[1] = receiverTable
  BY <1>1 DEF Received
<1>5. QED
  BY <1>1, <1>2, <1>3, <1>4

(* "Both encoder and decoder maintain identical tables": when nothing is in  *)
(* flight and nothing was lost since the last reset, they are equal.         *)
THEOREM DeltaAgrees == ByteLimit = {} /\ DeltaSpec => []TablesAgree
BY DeltaInvariant, InvAgrees, PTL
============================================================================
