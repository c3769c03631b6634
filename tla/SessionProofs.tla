--------------------------- MODULE SessionProofs ---------------------------
(***************************************************************************)
(* Session for every transform chain, both modes and verifiers, any sizes   *)
(* and limits, and any number of sends and faults.                          *)
(***************************************************************************)
EXTENDS Session, SequenceTheorems, TLAPS

FrameRec  == [raw : Nat, stored : Nat, plain : Nat, size : Nat]
HeaderRec == [before : Nat, after : Nat, packed : BOOLEAN]
PieceRec  == [at : Nat, sent : Nat, frame : FrameRec, id : Nat, damaged : BOOLEAN,
              header : HeaderRec, length : Nat]

(* a frame is laid out by the layers of the chain, which did not refuse it *)
FrameOK(f) ==
  /\ f.stored <= f.raw
  /\ ~chain.compressed => f.stored = f.raw
  /\ f.plain = (IF chain.compressed THEN COMPRESSION_HEADER_LEN + f.stored ELSE f.raw)
  /\ f.size = (IF chain.encrypted THEN ENCRYPTION_HEADER_LEN + f.plain + TAG_LEN ELSE f.plain)
  /\ ~Refused(chain, f)

(* what the writer has put on the stream: pieces one after the other, with   *)
(* increasing ids, the last of them open while its payload is to be written *)
PieceOK(p) == p.sent <= FullLen(p.frame) /\ p.id \in 1..sends /\ FrameOK(p.frame)

Chained(seq) ==
  /\ seq \in Seq(PieceRec)
  /\ \A i \in 1..Len(seq) : seq[i].sent > 0
  /\ \A i, j \in 1..Len(seq) : i < j =>
       seq[i].at + seq[i].sent <= seq[j].at /\ seq[i].id < seq[j].id
  /\ \A i \in 1..Len(seq) : seq[i].at =
       IF i = 1 THEN 0 ELSE seq[i - 1].at + seq[i - 1].sent

StreamOK ==
  /\ Chained(pieces)
  /\ sends \in Nat
  /\ \A i \in 1..Len(pieces) : PieceOK(pieces[i])
  /\ writer \in {"idle", "payload"}
  /\ writer = "payload" => framed /\ pieces # <<>> /\ pieces[Len(pieces)].sent = 8

Readers == {"handshake", "idle", "body", "eof", "closed"}

(* where the reader is: in a body it is behind the prefix of that piece *)
ReaderOK ==
  /\ setup \in Setups
  /\ pos \in Nat /\ pos <= StreamLen
  /\ reader \in Readers /\ failed \in BOOLEAN
  /\ current \in Nat /\ want \in Nat /\ allocated \in Nat /\ faults \in Nat
  /\ delivered \in Seq(Nat)
  /\ reader \in {"handshake", "idle"} => current = 0
  /\ reader = "handshake" => pos = 0 /\ delivered = <<>>
  /\ reader = "body" /\ ~framed => current # 0
  /\ reader = "body" /\ current # 0 =>
       /\ current <= Len(pieces)
       /\ pos = pieces[current].at + PrefixLen
       /\ pieces[current].sent >= PrefixLen
       /\ want = IF framed THEN pieces[current].length ELSE pieces[current].header.after

(* a delivered value is that of a piece the reader has passed *)
Passed(k) ==
  /\ pieces[k].at < pos
  /\ reader = "body" /\ current # 0 => pieces[k].at < pieces[current].at

OrderOK ==
  Authentic =>
    /\ \A d \in 1..Len(delivered) :
         \E k \in 1..Len(pieces) : pieces[k].id = delivered[d] /\ Passed(k)
    /\ \A c, d \in 1..Len(delivered) : c < d => delivered[c] < delivered[d]

(* the values of the first n pieces have been delivered; they end at base *)
Aligned(base) ==
  LET n == Len(delivered)
  IN  /\ n <= Len(pieces)
      /\ \A i \in 1..n : /\ delivered[i] = pieces[i].id
                         /\ pieces[i].sent = FullLen(pieces[i].frame)
      /\ base = IF n = 0 THEN 0 ELSE pieces[n].at + pieces[n].sent

InSync == \/ Authentic /\ LengthChecked /\ ~failed
          \/ faults = 0 /\ Admitted

StepOK ==
  InSync =>
    /\ reader \in {"handshake", "idle"} => Aligned(pos)
    /\ reader = "body" /\ current # 0 => current = Len(delivered) + 1
                                         /\ Aligned(pieces[current].at)

(* without faults pieces are as they were sent, all but an open one in full *)
Pristine(i) ==
  /\ ~pieces[i].damaged
  /\ pieces[i].header = Header(chain, pieces[i].frame)
  /\ pieces[i].length = pieces[i].frame.size
  /\ pieces[i].sent = FullLen(pieces[i].frame) \/ (i = Len(pieces) /\ writer = "payload")

FaultlessOK ==
  /\ faults = 0 => \A i \in 1..Len(pieces) : Pristine(i)
  /\ faults = 0 /\ Admitted => ~failed /\ (reader = "body" => current # 0)

SessionInv == /\ StreamOK /\ ReaderOK /\ OrderOK /\ StepOK /\ FaultlessOK
              /\ AllocationBounded

---------------------------------------------------------------------------
(* Setups, frames and headers *)

LEMMA SetupTypes ==
  ASSUME setup \in Setups
  PROVE  /\ chain.limit \in Limit /\ chain.plaintext_limit \in Limit
         /\ setup.max_frame_len \in Limit
         /\ chain.rejectTrailing \in BOOLEAN /\ chain.compressed \in BOOLEAN
         /\ chain.encrypted \in BOOLEAN /\ chain.threshold \in Nat
         /\ setup.verifier \in {"mac", "channel"}
         /\ framed \in BOOLEAN
         /\ ~framed => chain.compressed \/ chain.encrypted
<1>1. setup \in [chain : Chain, mode : {"session", "stream"},
                 verifier : {"mac", "channel"}, max_frame_len : Limit]
  BY SetupsAssumption
<1>2. setup.chain \in Chain
  BY <1>1
<1>3. setup.mode = "stream" => setup.chain.compressed \/ setup.chain.encrypted
  BY StreamsAreFramed
<1>4. QED
  BY <1>1, <1>2, <1>3 DEF chain, framed, Chain

LEMMA Bounds ==
  ASSUME setup \in Setups
  PROVE  /\ RawBound(chain) \in Nat
         /\ chain.limit # {} => RawBound(chain) \in chain.limit
         /\ \A l \in PlaintextLimit(chain) : l \in Nat
         /\ \A l \in setup.max_frame_len : l \in Nat
<1>1. /\ \A l \in chain.limit : l \in Nat
      /\ \A l \in chain.plaintext_limit : l \in Nat
      /\ \A l \in setup.max_frame_len : l \in Nat
  BY SetupTypes DEF Limit
<1>2. chain.limit # {} => RawBound(chain) \in chain.limit
  BY DEF RawBound
<1>3. RawBound(chain) \in Nat
  BY <1>1, <1>2, DefaultAssumption DEF RawBound
<1>4. QED
  BY <1>1, <1>2, <1>3 DEF PlaintextLimit, COMPRESSION_HEADER_LEN

LEMMA Frames ==
  ASSUME setup \in Setups, NEW raw \in Nat, NEW packed \in Nat,
         ~Refused(chain, FrameOf(chain, raw, packed))
  PROVE  FrameOf(chain, raw, packed) \in FrameRec /\ FrameOK(FrameOf(chain, raw, packed))
<1> DEFINE s == Stored(chain, raw, packed)
           p == IF chain.compressed THEN COMPRESSION_HEADER_LEN + s ELSE raw
           f == FrameOf(chain, raw, packed)
<1>1. s \in Nat /\ s <= raw /\ (~chain.compressed => s = raw)
  BY SetupTypes DEF Stored
<1> HIDE DEF s
<1>2. p \in Nat
  BY <1>1 DEF COMPRESSION_HEADER_LEN
<1>3. /\ f.raw = raw /\ f.stored = s /\ f.plain = p
      /\ f.size = IF chain.encrypted THEN ENCRYPTION_HEADER_LEN + p + TAG_LEN ELSE p
      /\ f = [raw |-> f.raw, stored |-> f.stored, plain |-> f.plain, size |-> f.size]
  BY DEF FrameOf, s
<1> HIDE DEF p, f
<1>4. f.size \in Nat
  BY <1>2, <1>3 DEF ENCRYPTION_HEADER_LEN, TAG_LEN
<1>5. f \in FrameRec
  BY <1>1, <1>2, <1>3, <1>4 DEF FrameRec
<1>6. ~Refused(chain, f)
  BY DEF f
<1>7. FrameOK(f)
  BY <1>1, <1>3, <1>6 DEF FrameOK, p
<1>8. QED
  BY <1>5, <1>7 DEF f

(* the header of a frame tells its length, and the layer lets it pass *)
LEMMA HeaderOfFrame ==
  ASSUME setup \in Setups, NEW f \in FrameRec, FrameOK(f)
  PROVE  /\ Header(chain, f) \in HeaderRec
         /\ ~framed => HeaderLen(chain) + Header(chain, f).after = f.size
         /\ ~framed /\ (chain.compressed => f.raw <= RawBound(chain)) =>
              HeaderOk(chain, Header(chain, f))
<1> DEFINE h == Header(chain, f)
<1>1. /\ f.raw \in Nat /\ f.stored \in Nat /\ f.plain \in Nat /\ f.size \in Nat
      /\ chain.encrypted \in BOOLEAN /\ chain.compressed \in BOOLEAN
      /\ ~framed => chain.compressed \/ chain.encrypted
  BY SetupTypes DEF FrameRec
<1>2. CASE chain.encrypted
  <2>1. h = [before |-> f.plain, after |-> f.plain + 16, packed |-> FALSE]
    BY <1>2 DEF Header, TAG_LEN
  <2>2. h \in HeaderRec
    BY <1>1, <2>1 DEF HeaderRec
  <2>3. HeaderLen(chain) + h.after = f.size
    BY <1>1, <1>2, <2>1 DEF HeaderLen, FrameOK, ENCRYPTION_HEADER_LEN, TAG_LEN
  <2>4. ~Exceeds(f.plain, PlaintextLimit(chain))
    BY <1>2 DEF FrameOK, Refused
  <2>5. HeaderOk(chain, h)
    BY <1>2, <2>1, <2>4 DEF HeaderOk, TAG_LEN
  <2>6. QED
    BY <2>2, <2>3, <2>5
<1>3. CASE ~chain.encrypted
  <2>1. h = [before |-> f.raw, after |-> f.stored, packed |-> f.stored < f.raw]
    BY <1>3 DEF Header
  <2>2. h \in HeaderRec
    <3>1. (f.stored < f.raw) \in BOOLEAN
      BY <1>1
    <3>2. QED
      BY <1>1, <2>1, <3>1 DEF HeaderRec
  <2>3. ASSUME ~framed PROVE HeaderLen(chain) + h.after = f.size
    BY <1>1, <1>3, <2>1, <2>3 DEF HeaderLen, FrameOK, COMPRESSION_HEADER_LEN
  <2>4. ASSUME ~framed, f.raw <= RawBound(chain) PROVE HeaderOk(chain, h)
    <3>1. f.stored <= f.raw
      BY DEF FrameOK
    <3>2. h.before = f.raw /\ h.after = f.stored /\ h.packed = (f.stored < f.raw)
      BY <2>1
    <3> HIDE DEF h
    <3>3. IF h.packed THEN h.after < h.before ELSE h.after = h.before
      <4>1. CASE f.stored < f.raw
        BY <3>2, <4>1
      <4>2. CASE ~(f.stored < f.raw)
        <5>1. f.stored = f.raw
          BY <1>1, <3>1, <4>2
        <5>2. ~h.packed
          BY <3>2, <4>2, Zenon
        <5>3. QED
          BY <3>2, <5>1, <5>2
      <4>3. QED
        BY <4>1, <4>2
    <3>4. QED
      BY <1>3, <2>4, <3>2, <3>3 DEF HeaderOk
  <2>5. QED
    BY <1>1, <1>3, <2>2, <2>3, <2>4
<1>4. QED
  BY <1>1, <1>2, <1>3

LEMMA PrefixBounds ==
  ASSUME setup \in Setups
  PROVE  /\ PrefixLen \in Nat /\ PrefixLen > 0
         /\ framed => PrefixLen = 8
         /\ ~framed => PrefixLen = HeaderLen(chain)
         /\ HeaderLen(chain) \in Nat
<1>1. HeaderLen(chain) \in Nat /\ HeaderLen(chain) > 0
  BY DEF HeaderLen, ENCRYPTION_HEADER_LEN, COMPRESSION_HEADER_LEN
<1>2. PrefixLen = IF framed THEN 8 ELSE HeaderLen(chain)
  BY DEF PrefixLen
<1>3. framed => PrefixLen = 8
  BY <1>2
<1>4. ~framed => PrefixLen = HeaderLen(chain)
  BY <1>2
<1>5. PrefixLen \in Nat /\ PrefixLen > 0
  BY <1>1, <1>3, <1>4
<1>6. QED
  BY <1>1, <1>3, <1>4, <1>5

LEMMA SetupStays ==
  ASSUME setup' = setup
  PROVE  /\ chain' = chain /\ framed' = framed /\ PrefixLen' = PrefixLen
         /\ \A f : FullLen(f)' = FullLen(f)
         /\ \A f : FrameOK(f)' <=> FrameOK(f)
         /\ Authentic' <=> Authentic
         /\ LengthChecked' <=> LengthChecked
<1>1. chain' = chain /\ framed' = framed
  BY DEF chain, framed
<1>2. PrefixLen' = PrefixLen
  BY <1>1 DEF PrefixLen
<1>3. \A f : FullLen(f)' = FullLen(f)
  BY <1>1 DEF FullLen
<1>4. \A f : FrameOK(f)' <=> FrameOK(f)
  BY <1>1 DEF FrameOK
<1>5. (Authentic' <=> Authentic) /\ (LengthChecked' <=> LengthChecked)
  BY <1>1 DEF Authentic, LengthChecked
<1>6. QED
  BY <1>1, <1>2, <1>3, <1>4, <1>5

---------------------------------------------------------------------------
(* Pieces *)

LEMMA PieceTypes ==
  ASSUME NEW seq \in Seq(PieceRec)
  PROVE  /\ Len(seq) \in Nat
         /\ \A k \in 1..Len(seq) :
              /\ seq[k] \in PieceRec
              /\ seq[k].at \in Nat /\ seq[k].sent \in Nat /\ seq[k].id \in Nat
              /\ seq[k].frame \in FrameRec /\ seq[k].frame.size \in Nat
              /\ seq[k].frame.raw \in Nat
              /\ seq[k].header \in HeaderRec /\ seq[k].length \in Nat
              /\ seq[k].header.before \in Nat /\ seq[k].header.after \in Nat
<1>1. Len(seq) \in Nat /\ \A k \in 1..Len(seq) : seq[k] \in PieceRec
  OBVIOUS
<1>2. \A p \in PieceRec : /\ p.at \in Nat /\ p.sent \in Nat /\ p.id \in Nat
                          /\ p.frame \in FrameRec /\ p.header \in HeaderRec /\ p.length \in Nat
  BY DEF PieceRec
<1>3. \A f \in FrameRec : f.size \in Nat /\ f.raw \in Nat
  BY DEF FrameRec
<1>4. \A h \in HeaderRec : h.before \in Nat /\ h.after \in Nat
  BY DEF HeaderRec
<1>5. QED
  BY <1>1, <1>2, <1>3, <1>4

LEMMA FullLens ==
  ASSUME NEW f \in FrameRec
  PROVE  FullLen(f) \in Nat /\ FullLen(f) >= f.size /\ f.size \in Nat
                            /\ (framed => FullLen(f) = 8 + f.size)
<1>1. f.size \in Nat
  BY DEF FrameRec
<1>2. FullLen(f) = IF framed THEN 8 + f.size ELSE f.size
  BY DEF FullLen
<1>3. CASE framed
  BY <1>1, <1>2, <1>3
<1>4. CASE ~framed
  BY <1>1, <1>2, <1>4
<1>5. QED
  BY <1>3, <1>4

EndOf(seq) == IF seq = <<>> THEN 0 ELSE Last(seq).at + Last(seq).sent

(* the stream ends where its last piece does *)
LEMMA ChainEnd ==
  ASSUME NEW seq, Chained(seq)
  PROVE  /\ EndOf(seq) \in Nat
         /\ seq # <<>> => /\ Len(seq) \in 1..Len(seq)
                          /\ EndOf(seq) = seq[Len(seq)].at + seq[Len(seq)].sent
         /\ seq = <<>> => EndOf(seq) = 0 /\ Len(seq) = 0
         /\ \A i \in 1..Len(seq) : seq[i].at + seq[i].sent <= EndOf(seq)
<1> DEFINE n == Len(seq)
<1>1. /\ seq \in Seq(PieceRec) /\ n \in Nat
      /\ \A i \in 1..n : seq[i].at \in Nat /\ seq[i].sent \in Nat /\ seq[i].sent > 0
      /\ \A i, j \in 1..n : i < j => seq[i].at + seq[i].sent <= seq[j].at
  BY PieceTypes DEF Chained
<1>2. CASE seq = <<>>
  <2>1. EndOf(seq) = 0 /\ n = 0
    BY <1>2 DEF EndOf
  <2>2. \A i \in 1..n : FALSE
    BY <2>1
  <2>3. QED
    BY <1>2, <2>1, <2>2
<1>3. CASE seq # <<>>
  <2>1. n \in 1..n
    BY <1>1, <1>3
  <2>2. EndOf(seq) = seq[n].at + seq[n].sent
    BY <1>3 DEF EndOf, Last
  <2> HIDE DEF n
  <2>3. EndOf(seq) \in Nat
    BY <1>1, <2>1, <2>2
  <2>4. ASSUME NEW i \in 1..n PROVE seq[i].at + seq[i].sent <= EndOf(seq)
    <3>1. i = n \/ i < n
      BY <1>1
    <3>2. CASE i = n
      BY <1>1, <2>1, <2>2, <3>2
    <3>3. CASE i < n
      <4>1. seq[i].at + seq[i].sent <= seq[n].at
        BY <1>1, <2>1, <3>3
      <4>2. \A x, y, z, w \in Nat : x + y <= z => x + y <= z + w
        OBVIOUS
      <4>3. QED
        BY <1>1, <2>1, <2>2, <4>1, <4>2
    <3>4. QED
      BY <3>1, <3>2, <3>3
  <2>5. QED
    BY <1>3, <2>1, <2>2, <2>3, <2>4 DEF n
<1>4. QED
  BY <1>2, <1>3

---------------------------------------------------------------------------
(* Steps of the writer and the transport *)

(* the pieces that were there stay; at most an open one grows, and only what  *)
(* the reader has not reached is damaged                                     *)
Kept(k) ==
  /\ pieces'[k].at = pieces[k].at /\ pieces'[k].id = pieces[k].id
  /\ pieces'[k].frame = pieces[k].frame
  /\ pieces'[k].sent >= pieces[k].sent
  /\ pieces[k].sent = FullLen(pieces[k].frame) => pieces'[k].sent = pieces[k].sent
  /\ pieces[k].at < pos =>
       pieces'[k].header = pieces[k].header /\ pieces'[k].length = pieces[k].length

WriterStep ==
  /\ UNCHANGED <<setup, recvVars>>
  /\ StreamOK'
  /\ Len(pieces) <= Len(pieces') /\ StreamLen <= StreamLen'
  /\ \A k \in 1..Len(pieces) : Kept(k)
  /\ faults' \in Nat /\ (faults' = 0 => faults = 0)
  /\ faults' = 0 => \A i \in 1..Len(pieces') : Pristine(i)'

LEMMA WriterKeeps ==
  ASSUME SessionInv, WriterStep
  PROVE  SessionInv'
<1> DEFINE n == Len(pieces)
<1>1. /\ setup' = setup /\ pos' = pos /\ reader' = reader /\ current' = current
      /\ want' = want /\ delivered' = delivered /\ failed' = failed /\ allocated' = allocated
  BY DEF WriterStep, recvVars
<1>2. /\ chain' = chain /\ framed' = framed /\ PrefixLen' = PrefixLen
      /\ \A f : FullLen(f)' = FullLen(f)
      /\ (Authentic' <=> Authentic) /\ (LengthChecked' <=> LengthChecked)
  BY <1>1, SetupStays
<1>3. /\ pieces \in Seq(PieceRec) /\ n \in Nat /\ Len(pieces') \in Nat /\ setup \in Setups
      /\ pieces' \in Seq(PieceRec)
      /\ \A k \in 1..n : pieces[k].at \in Nat /\ pieces[k].sent \in Nat
      /\ \A k \in 1..Len(pieces') : pieces'[k].at \in Nat /\ pieces'[k].sent \in Nat
  <2>1. pieces \in Seq(PieceRec) /\ pieces' \in Seq(PieceRec) /\ setup \in Setups
    BY DEF SessionInv, ReaderOK, StreamOK, WriterStep, Chained
  <2>2. QED
    BY <2>1, PieceTypes
<1>4. n <= Len(pieces') /\ \A k \in 1..n : k \in 1..Len(pieces') /\ Kept(k)
  <2>1. n <= Len(pieces') /\ \A k \in 1..n : Kept(k)
    BY DEF WriterStep
  <2>2. QED
    BY <1>3, <2>1
<1>5. StreamLen \in Nat /\ StreamLen' \in Nat /\ StreamLen <= StreamLen'
  <2>1. Chained(pieces) /\ Chained(pieces') /\ StreamLen <= StreamLen'
    BY DEF WriterStep, SessionInv, StreamOK
  <2>2. StreamLen = EndOf(pieces) /\ StreamLen' = EndOf(pieces')
    BY DEF StreamLen, EndOf
  <2>3. QED
    BY <2>1, <2>2, ChainEnd

<1> HIDE DEF n
<1>6. ReaderOK'
  <2>1. /\ setup' \in Setups /\ pos' \in Nat /\ reader' \in Readers /\ failed' \in BOOLEAN
        /\ current' \in Nat /\ want' \in Nat /\ allocated' \in Nat /\ faults' \in Nat
        /\ delivered' \in Seq(Nat)
        /\ reader' \in {"handshake", "idle"} => current' = 0
        /\ reader' = "handshake" => pos' = 0 /\ delivered' = <<>>
        /\ reader' = "body" /\ ~framed' => current' # 0
    BY <1>1, <1>2 DEF SessionInv, ReaderOK, WriterStep
  <2>2. pos' <= StreamLen'
    <3>1. pos \in Nat /\ pos <= StreamLen
      BY DEF SessionInv, ReaderOK
    <3>2. QED
      BY <1>1, <1>5, <3>1
  <2>3. ASSUME reader' = "body", current' # 0
        PROVE  /\ current' <= Len(pieces')
               /\ pos' = pieces'[current'].at + PrefixLen'
               /\ pieces'[current'].sent >= PrefixLen'
               /\ want' = IF framed' THEN pieces'[current'].length
                          ELSE pieces'[current'].header.after
    <3>1. PICK k : k = current
      OBVIOUS
    <3>2. /\ k \in Nat /\ k # 0 /\ k <= n /\ pos = pieces[k].at + PrefixLen
          /\ pieces[k].sent >= PrefixLen
          /\ want = IF framed THEN pieces[k].length ELSE pieces[k].header.after
      BY <1>1, <2>3, <3>1 DEF SessionInv, ReaderOK, n
    <3>3. k \in 1..n /\ k <= Len(pieces')
      BY <1>3, <1>4, <3>2
    <3>4. PrefixLen \in Nat /\ PrefixLen > 0
      BY <1>3, PrefixBounds
    <3>5. pieces[k].at < pos
      BY <1>3, <3>2, <3>3, <3>4
    <3>6. /\ pieces'[k].at = pieces[k].at /\ pieces'[k].sent >= pieces[k].sent
          /\ pieces'[k].header = pieces[k].header /\ pieces'[k].length = pieces[k].length
      BY <1>4, <3>3, <3>5 DEF Kept
    <3>7. pieces'[k].sent >= PrefixLen
      BY <1>3, <1>4, <3>2, <3>3, <3>4, <3>6
    <3>8. QED
      BY <1>1, <1>2, <3>1, <3>2, <3>3, <3>6, <3>7
  <2>4. QED
    BY <2>1, <2>2, <2>3 DEF ReaderOK
<1>7. OrderOK'
  <2> SUFFICES ASSUME Authentic
      PROVE /\ \A d \in 1..Len(delivered) :
                 \E k \in 1..Len(pieces') : pieces'[k].id = delivered[d] /\ Passed(k)'
            /\ \A c, d \in 1..Len(delivered) : c < d => delivered[c] < delivered[d]
    BY <1>1, <1>2 DEF OrderOK
  <2>1. /\ \A d \in 1..Len(delivered) :
             \E k \in 1..n : pieces[k].id = delivered[d] /\ Passed(k)
        /\ \A c, d \in 1..Len(delivered) : c < d => delivered[c] < delivered[d]
    BY DEF SessionInv, OrderOK, n
  <2>2. ASSUME NEW k \in 1..n, Passed(k)
        PROVE  k \in 1..Len(pieces') /\ pieces'[k].id = pieces[k].id /\ Passed(k)'
    <3>1. k \in 1..Len(pieces') /\ pieces'[k].id = pieces[k].id /\ pieces'[k].at = pieces[k].at
      BY <1>4 DEF Kept
    <3>2. reader = "body" /\ current # 0 => pieces'[current].at = pieces[current].at
      <4> SUFFICES ASSUME reader = "body", current # 0
                   PROVE  pieces'[current].at = pieces[current].at
        OBVIOUS
      <4>1. current \in 1..n
        BY <1>3 DEF SessionInv, ReaderOK, n
      <4>2. QED
        BY <1>4, <4>1 DEF Kept
    <3>3. QED
      BY <1>1, <2>2, <3>1, <3>2 DEF Passed
  <2>3. QED
    BY <2>1, <2>2
<1>8. InSync' => InSync
  <2>1. Admitted' => Admitted
    <3>1. DOMAIN pieces = 1..n /\ DOMAIN pieces' = 1..Len(pieces')
      BY <1>3 DEF n
    <3>2. \A k \in DOMAIN pieces : k \in DOMAIN pieces' /\ pieces'[k].frame = pieces[k].frame
      BY <1>4, <3>1 DEF Kept
    <3>3. QED
      BY <1>1, <1>2, <3>2 DEF Admitted
  <2>2. faults' = 0 => faults = 0
    BY DEF WriterStep
  <2>3. QED
    BY <1>1, <1>2, <2>1, <2>2 DEF InSync
<1>9. ASSUME NEW base, Aligned(base) PROVE Aligned(base)'
  <2> DEFINE m == Len(delivered)
  <2>1. /\ m <= n /\ m \in Nat
        /\ \A i \in 1..m : /\ delivered[i] = pieces[i].id
                           /\ pieces[i].sent = FullLen(pieces[i].frame)
        /\ base = IF m = 0 THEN 0 ELSE pieces[m].at + pieces[m].sent
    BY <1>9 DEF Aligned, n, SessionInv, ReaderOK
  <2>2. ASSUME NEW i \in 1..m
        PROVE  /\ delivered[i] = pieces'[i].id /\ pieces'[i].at = pieces[i].at
               /\ pieces'[i].sent = pieces[i].sent
               /\ pieces'[i].sent = FullLen(pieces'[i].frame)
    <3>1. i \in 1..n
      BY <1>3, <2>1
    <3>2. QED
      BY <1>4, <2>1, <3>1 DEF Kept
  <2>3. m <= Len(pieces') /\ (m # 0 => m \in 1..m)
    BY <1>3, <1>4, <2>1
  <2>4. base = IF m = 0 THEN 0 ELSE pieces'[m].at + pieces'[m].sent
    BY <2>1, <2>2, <2>3
  <2> HIDE DEF m
  <2>5. Len(delivered') = m /\ delivered' = delivered
    BY <1>1 DEF m
  <2>6. ASSUME NEW i \in 1..m
        PROVE  (delivered[i] = pieces[i].id /\ pieces[i].sent = FullLen(pieces[i].frame))'
    <3>1. PICK f : f = pieces'[i].frame
      OBVIOUS
    <3>2. FullLen(pieces[i].frame)' = FullLen(f)
      BY <1>2, <3>1 DEF FullLen
    <3>4. QED
      BY <2>2, <2>5, <3>1, <3>2
  <2>7. QED
    BY <2>3, <2>4, <2>5, <2>6 DEF Aligned

<1>10. StepOK'
  <2> SUFFICES ASSUME InSync'
      PROVE  /\ reader' \in {"handshake", "idle"} => Aligned(pos)'
             /\ reader' = "body" /\ current' # 0 =>
                  current' = Len(delivered') + 1 /\ Aligned(pieces[current].at)'
    BY DEF StepOK
  <2>1. /\ reader \in {"handshake", "idle"} => Aligned(pos)
        /\ reader = "body" /\ current # 0 => current = Len(delivered) + 1
                                             /\ Aligned(pieces[current].at)
    BY <1>8 DEF StepOK, SessionInv
  <2>2. ASSUME reader' \in {"handshake", "idle"} PROVE Aligned(pos)'
    <3>1. PICK base : base = pos
      OBVIOUS
    <3>2. Aligned(base)'
      BY <1>1, <1>9, <2>1, <2>2, <3>1
    <3>3. QED
      BY <1>1, <3>1, <3>2 DEF Aligned
  <2>3. ASSUME reader' = "body", current' # 0
        PROVE  current' = Len(delivered') + 1 /\ Aligned(pieces[current].at)'
    <3>1. current = Len(delivered) + 1 /\ Aligned(pieces[current].at)
      BY <1>1, <2>1, <2>3
    <3>2. PICK base : base = pieces[current].at
      OBVIOUS
    <3>3. Aligned(base)'
      BY <1>9, <3>1, <3>2
    <3>4. current \in 1..n
      BY <1>1, <1>3, <2>3 DEF SessionInv, ReaderOK, n
    <3>5. pieces'[current'].at = base
      BY <1>1, <1>4, <3>2, <3>4 DEF Kept
    <3>6. QED
      BY <1>1, <3>1, <3>3, <3>5 DEF Aligned
  <2>4. QED
    BY <2>2, <2>3
<1>11. FaultlessOK'
  <2>1. faults' = 0 /\ Admitted' => faults = 0 /\ Admitted
    <3>1. DOMAIN pieces = 1..n /\ DOMAIN pieces' = 1..Len(pieces')
      BY <1>3 DEF n
    <3>2. \A k \in DOMAIN pieces : k \in DOMAIN pieces' /\ pieces'[k].frame = pieces[k].frame
      BY <1>4, <3>1 DEF Kept
    <3>3. Admitted' => Admitted
      BY <1>1, <1>2, <3>2 DEF Admitted
    <3>4. QED
      BY <3>3 DEF WriterStep
  <2>2. faults' = 0 /\ Admitted' => ~failed' /\ (reader' = "body" => current' # 0)
    BY <1>1, <2>1 DEF SessionInv, FaultlessOK
  <2>3. faults' = 0 => \A i \in 1..Len(pieces') : Pristine(i)'
    BY DEF WriterStep
  <2>4. QED
    BY <2>2, <2>3 DEF FaultlessOK
<1>12. AllocationBounded'
  BY <1>1, <1>2 DEF SessionInv, AllocationBounded
<1>13. QED
  BY <1>6, <1>7, <1>10, <1>11, <1>12 DEF SessionInv, WriterStep

LEMMA CutsBelow ==
  ASSUME NEW n \in Nat, NEW k \in Cuts(n)
  PROVE  k \in Nat /\ k < n
  BY DEF Cuts

(* a piece put at the end of the stream *)
LEMMA ChainGrows ==
  ASSUME NEW seq, Chained(seq), NEW p \in PieceRec,
         p.at = EndOf(seq), p.sent > 0, \A i \in 1..Len(seq) : seq[i].id < p.id
  PROVE  /\ Chained(Append(seq, p))
         /\ EndOf(Append(seq, p)) = EndOf(seq) + p.sent
<1> DEFINE n == Len(seq)
           t == Append(seq, p)
<1>1. seq \in Seq(PieceRec) /\ n \in Nat
  BY PieceTypes DEF Chained
<1>2. /\ t \in Seq(PieceRec) /\ Len(t) = n + 1 /\ t # <<>>
      /\ \A i \in 1..n : t[i] = seq[i]
      /\ t[n + 1] = p
  BY <1>1, AppendProperties
<1> HIDE DEF t
<1>3. /\ \A i \in 1..n : seq[i].sent > 0 /\ seq[i].at + seq[i].sent <= EndOf(seq)
      /\ n = 0 => EndOf(seq) = 0
      /\ n # 0 => EndOf(seq) = seq[n].at + seq[n].sent
      /\ EndOf(seq) \in Nat
  <2>1. n = 0 <=> seq = <<>>
    BY <1>1
  <2>2. QED
    BY <2>1, ChainEnd DEF Chained
<1> HIDE DEF n
<1>4. \A i \in 1..(n + 1) : (i \in 1..n \/ i = n + 1) /\ (i # 1 => i - 1 \in 1..n)
  BY <1>1
<1>5. \A i \in 1..(n + 1) : t[i].sent > 0
  BY <1>2, <1>3, <1>4
<1>6. ASSUME NEW i \in 1..(n + 1), NEW j \in 1..(n + 1), i < j
      PROVE  t[i].at + t[i].sent <= t[j].at /\ t[i].id < t[j].id
  <2>1. i \in 1..n /\ (j \in 1..n \/ j = n + 1)
    BY <1>1, <1>6
  <2>2. CASE j \in 1..n
    BY <1>2, <1>6, <2>1, <2>2 DEF Chained, n
  <2>3. CASE j = n + 1
    BY <1>2, <1>3, <2>1, <2>3 DEF n
  <2>4. QED
    BY <2>1, <2>2, <2>3
<1>7. ASSUME NEW i \in 1..(n + 1)
      PROVE  t[i].at = IF i = 1 THEN 0 ELSE t[i - 1].at + t[i - 1].sent
  <2>1. CASE i \in 1..n
    <3>1. seq[i].at = IF i = 1 THEN 0 ELSE seq[i - 1].at + seq[i - 1].sent
      BY <2>1 DEF Chained, n
    <3>2. i # 1 => i - 1 \in 1..n
      BY <1>4
    <3>3. QED
      BY <1>2, <2>1, <3>1, <3>2
  <2>2. CASE i = n + 1
    <3>1. i = 1 <=> n = 0
      BY <1>1, <2>2
    <3>2. i - 1 = n /\ (n # 0 => n \in 1..n)
      BY <1>1, <2>2
    <3>3. QED
      BY <1>2, <1>3, <2>2, <3>1, <3>2
  <2>3. QED
    BY <1>4, <2>1, <2>2
<1>8. EndOf(t) = EndOf(seq) + p.sent
  <2>1. EndOf(t) = t[n + 1].at + t[n + 1].sent
    BY <1>2 DEF EndOf, Last
  <2>2. QED
    BY <1>2, <2>1
<1>9. Chained(t)
  BY <1>2, <1>5, <1>6, <1>7 DEF Chained
<1>10. QED
  BY <1>8, <1>9 DEF t

LEMMA PieceStays ==
  ASSUME SessionInv, setup' = setup, sends' \in Nat, sends' >= sends,
         NEW p \in PieceRec, PieceOK(p)
  PROVE  PieceOK(p)'
<1>1. 1..sends \subseteq 1..sends'
  BY DEF SessionInv, StreamOK
<1>2. FullLen(p.frame)' = FullLen(p.frame) /\ (FrameOK(p.frame)' <=> FrameOK(p.frame))
  BY SetupStays
<1>3. QED
  BY <1>1, <1>2 DEF PieceOK

(* a piece as it stands at i *)
LEMMA PieceAt ==
  ASSUME NEW i, NEW p, p = pieces'[i], PieceOK(p)'
  PROVE  PieceOK(pieces[i])'
  BY DEF PieceOK, FullLen, FrameOK

LEMMA StreamLenOf == StreamLen = EndOf(pieces) /\ StreamLen' = EndOf(pieces')
  BY DEF StreamLen, EndOf

LEMMA SendStep ==
  ASSUME SessionInv, NEW raw \in RawSizes, NEW packed \in PackedSizes, Send(raw, packed)
  PROVE  WriterStep
<1> DEFINE n == Len(pieces)
<1> PICK f : f = FrameOf(chain, raw, packed)
  OBVIOUS
<1>1. /\ StreamOK /\ Chained(pieces) /\ pieces \in Seq(PieceRec) /\ n \in Nat
      /\ setup \in Setups /\ sends \in Nat /\ faults \in Nat
      /\ \A i \in 1..n : PieceOK(pieces[i]) /\ pieces[i] \in PieceRec
      /\ StreamLen \in Nat /\ StreamLen = EndOf(pieces)
  <2>1. StreamOK /\ Chained(pieces) /\ pieces \in Seq(PieceRec) /\ setup \in Setups
        /\ sends \in Nat /\ faults \in Nat
    BY DEF SessionInv, StreamOK, Chained, ReaderOK
  <2>2. QED
    BY <2>1, PieceTypes, ChainEnd, StreamLenOf DEF StreamOK
<1>2. /\ writer = "idle" /\ sends' = sends + 1 /\ ~Refused(chain, f)
      /\ UNCHANGED <<setup, ended, recvVars>>
  BY DEF Send
<1>3. f \in FrameRec /\ FrameOK(f)
  <2>1. raw \in Nat /\ packed \in Nat
    BY SizesAssumption
  <2>2. QED
    BY <1>1, <1>2, <2>1, Frames
<1>4. FullLen(f) \in Nat /\ FullLen(f) >= f.size /\ f.size \in Nat
                         /\ (framed => FullLen(f) = 8 + f.size)
  BY <1>3, FullLens
<1>5. ~framed => FullLen(f) = f.size
  BY DEF FullLen
<1>6. \E m \in Nat :
        /\ Put(f, m) /\ m <= FullLen(f)
        /\ \/ faults' = faults /\ (framed => m = 8 /\ writer' = "payload")
              /\ (~framed => m = FullLen(f) /\ writer' = writer)
           \/ faults' = faults + 1 /\ writer' = writer
  <2> PICK k : k = IF framed THEN 8 ELSE f.size
    OBVIOUS
  <2>1. k \in Nat /\ k <= FullLen(f) /\ (framed => k = 8) /\ (~framed => k = FullLen(f))
    <3>1. CASE framed
      BY <1>4, <3>1
    <3>2. CASE ~framed
      BY <1>4, <1>5, <3>2
    <3>3. QED
      BY <3>1, <3>2
  <2>2. \/ Put(f, k) /\ writer' = (IF framed THEN "payload" ELSE "idle") /\ faults' = faults
        \/ Fault /\ (\E m \in Cuts(k) : Put(f, m)) /\ writer' = writer
    BY DEF Send
  <2>3. CASE Put(f, k) /\ writer' = (IF framed THEN "payload" ELSE "idle") /\ faults' = faults
    <3>1. (framed => writer' = "payload") /\ (~framed => writer' = writer)
      BY <1>2, <2>3
    <3>2. QED
      BY <2>1, <2>3, <3>1
  <2>4. CASE Fault /\ (\E m \in Cuts(k) : Put(f, m)) /\ writer' = writer
    <3>1. PICK m \in Cuts(k) : Put(f, m)
      BY <2>4
    <3>2. m \in Nat /\ m < k
      BY <2>1, CutsBelow
    <3>3. m <= FullLen(f)
      BY <1>4, <2>1, <3>2
    <3>4. QED
      BY <2>4, <3>1, <3>2, <3>3 DEF Fault
  <2>5. QED
    BY <2>2, <2>3, <2>4
<1>7. PICK m \in Nat :
        /\ Put(f, m) /\ m <= FullLen(f)
        /\ \/ faults' = faults /\ (framed => m = 8 /\ writer' = "payload")
              /\ (~framed => m = FullLen(f) /\ writer' = writer)
           \/ faults' = faults + 1 /\ writer' = writer
  BY <1>6
<1>8. /\ chain' = chain /\ framed' = framed
      /\ \A g : FullLen(g)' = FullLen(g)
  BY <1>2, SetupStays
<1>9. faults' \in Nat /\ (faults' = 0 => faults = 0 /\ faults' = faults)
  BY <1>1, <1>7
<1>10. ASSUME faults' = 0, NEW i \in 1..n
       PROVE  /\ ~pieces[i].damaged
              /\ pieces[i].header = Header(chain, pieces[i].frame)
              /\ pieces[i].length = pieces[i].frame.size
              /\ pieces[i].sent = FullLen(pieces[i].frame)
  BY <1>2, <1>9, <1>10 DEF SessionInv, FaultlessOK, Pristine
<1>11. CASE m = 0
  <2>1. pieces' = pieces /\ Len(pieces') = n
    BY <1>7, <1>11 DEF Put
  <2>2. writer' = writer \/ (n # 0 /\ FALSE)
    BY <1>7, <1>11
  <2>3. \A i \in 1..n : PieceOK(pieces[i])'
    <3>1. ASSUME NEW i \in 1..n PROVE PieceOK(pieces[i])'
      <4>1. PICK p : p = pieces[i]
        OBVIOUS
      <4>2. p = pieces'[i] /\ p \in PieceRec /\ PieceOK(p) /\ sends' \in Nat /\ sends' >= sends
        BY <1>1, <1>2, <2>1, <4>1
      <4>3. PieceOK(p)'
        BY <1>2, <4>2, PieceStays
      <4>4. QED
        BY <4>2, <4>3, PieceAt
    <3>2. QED
      BY <3>1
  <2>4. StreamOK'
    BY <1>1, <1>2, <2>1, <2>2, <2>3 DEF StreamOK
  <2>5. \A i \in 1..n : Kept(i)
    BY <1>1, <2>1, PieceTypes DEF Kept
  <2>6. ASSUME faults' = 0, NEW i \in 1..n PROVE Pristine(i)'
    BY <1>8, <1>10, <2>1, <2>6 DEF Pristine, FullLen
  <2>7. StreamLen <= StreamLen'
    BY <1>1, <2>1, StreamLenOf
  <2>8. QED
    BY <1>1, <1>2, <1>9, <2>1, <2>4, <2>5, <2>6, <2>7 DEF WriterStep
<1>12. CASE m # 0
  <2> PICK p : p = [at |-> StreamLen, sent |-> m, frame |-> f, id |-> sends + 1,
                    damaged |-> FALSE, header |-> Header(chain, f), length |-> f.size]
    OBVIOUS
  <2>1. pieces' = Append(pieces, p)
    BY <1>7, <1>12 DEF Put
  <2>2. /\ p.at = EndOf(pieces) /\ p.sent = m /\ p.frame = f /\ p.id = sends + 1
        /\ p.damaged = FALSE /\ p.header = Header(chain, f) /\ p.length = f.size
        /\ p.sent > 0
    BY <1>1, <1>7, <1>12
  <2>3. p \in PieceRec
    <3>1. Header(chain, f) \in HeaderRec
      BY <1>1, <1>3, HeaderOfFrame
    <3>2. QED
      BY <1>1, <1>3, <1>4, <1>7, <3>1 DEF PieceRec
  <2>4. \A i \in 1..n : pieces[i].id < p.id
    <3>1. \A i \in 1..n : pieces[i].id \in 1..sends
      BY <1>1 DEF PieceOK
    <3>2. QED
      BY <1>1, <2>2, <3>1
  <2>5. /\ Len(pieces') = n + 1 /\ pieces' # <<>>
        /\ \A i \in 1..n : pieces'[i] = pieces[i]
        /\ pieces'[n + 1] = p
    BY <1>1, <2>1, <2>3, AppendProperties
  <2>6. Chained(pieces') /\ EndOf(pieces') = EndOf(pieces) + p.sent
    BY <1>1, <2>1, <2>2, <2>3, <2>4, ChainGrows
  <2>7. ASSUME NEW i \in 1..(n + 1) PROVE PieceOK(pieces[i])'
    <3>1. PICK q : q = pieces'[i]
      OBVIOUS
    <3>2. q \in PieceRec /\ sends' \in Nat /\ sends' >= sends
      <4>1. i \in 1..n \/ i = n + 1
        BY <1>1
      <4>2. QED
        BY <1>1, <1>2, <2>3, <2>5, <3>1, <4>1
    <3>3. PieceOK(q)'
      <4>1. CASE i \in 1..n
        <5>1. PieceOK(q)
          BY <1>1, <2>5, <3>1, <4>1
        <5>2. QED
          BY <1>2, <3>2, <5>1, PieceStays
      <4>2. CASE i = n + 1
        <5>1. q = p
          BY <2>5, <3>1, <4>2
        <5>2. /\ q.sent <= FullLen(q.frame) /\ q.id \in 1..sends'
              /\ FrameOK(q.frame)
          BY <1>1, <1>2, <1>3, <1>7, <2>2, <5>1
        <5>3. FullLen(q.frame)' = FullLen(q.frame) /\ (FrameOK(q.frame)' <=> FrameOK(q.frame))
          BY <1>2, SetupStays
        <5>4. QED
          BY <5>2, <5>3 DEF PieceOK
      <4>3. QED
        BY <1>1, <4>1, <4>2
    <3>4. QED
      BY <3>1, <3>3, PieceAt
  <2>8. writer' \in {"idle", "payload"} /\ (writer' = "payload" => framed /\ p.sent = 8)
    BY <1>2, <1>7, <2>2
  <2>9. StreamOK'
    BY <1>1, <1>2, <1>8, <2>5, <2>6, <2>7, <2>8 DEF StreamOK
  <2>10. ASSUME NEW i \in 1..n PROVE Kept(i)
    <3>1. pieces'[i] = pieces[i] /\ pieces[i].sent \in Nat
      BY <1>1, <2>5, PieceTypes
    <3>2. QED
      BY <3>1 DEF Kept
  <2>11. StreamLen <= StreamLen' /\ n <= Len(pieces')
    BY <1>1, <2>2, <2>5, <2>6, StreamLenOf
  <2>12. ASSUME faults' = 0, NEW i \in 1..(n + 1) PROVE Pristine(i)'
    <3>1. CASE i \in 1..n
      <4>1. pieces'[i] = pieces[i]
        BY <2>5, <3>1
      <4>2. QED
        BY <1>8, <1>10, <2>12, <3>1, <4>1 DEF Pristine, FullLen
    <3>2. CASE i = n + 1
      <4>1. pieces'[i] = p /\ i = Len(pieces')
        BY <2>5, <3>2
      <4>2. p.sent = FullLen(p.frame) \/ writer' = "payload"
        BY <1>1, <1>7, <1>9, <2>2, <2>12
      <4>3. QED
        BY <1>8, <2>2, <4>1, <4>2 DEF Pristine, FullLen
    <3>3. QED
      BY <1>1, <3>1, <3>2
  <2>13. QED
    BY <1>1, <1>2, <1>9, <2>5, <2>9, <2>10, <2>11, <2>12 DEF WriterStep
<1>13. QED
  BY <1>11, <1>12

(* pieces that stay where they are, the last one perhaps longer *)
LEMMA ChainKept ==
  ASSUME NEW seq, Chained(seq), NEW t \in Seq(PieceRec), Len(t) = Len(seq),
         \A i \in 1..Len(seq) : /\ t[i].at = seq[i].at /\ t[i].id = seq[i].id
                                /\ i < Len(seq) => t[i].sent = seq[i].sent
                                /\ t[i].sent >= seq[i].sent
  PROVE  Chained(t) /\ EndOf(t) >= EndOf(seq)
<1> DEFINE n == Len(seq)
<1>1. /\ seq \in Seq(PieceRec) /\ n \in Nat
      /\ \A i \in 1..n : /\ seq[i].at \in Nat /\ seq[i].sent \in Nat /\ seq[i].sent > 0
                         /\ t[i].at \in Nat /\ t[i].sent \in Nat
  BY PieceTypes DEF Chained
<1>2. Len(t) = n
  OBVIOUS
<1>3. \A i \in 1..n : /\ t[i].at = seq[i].at /\ t[i].id = seq[i].id
                      /\ i < n => t[i].sent = seq[i].sent
                      /\ t[i].sent >= seq[i].sent
  OBVIOUS
<1> HIDE DEF n
<1>4. \A i \in 1..n : t[i].sent > 0
  BY <1>1, <1>3
<1>5. ASSUME NEW i \in 1..n, NEW j \in 1..n, i < j
      PROVE  t[i].at + t[i].sent <= t[j].at /\ t[i].id < t[j].id
  <2>1. i < n
    BY <1>1, <1>5
  <2>2. seq[i].at + seq[i].sent <= seq[j].at /\ seq[i].id < seq[j].id
    BY <1>5 DEF Chained, n
  <2>3. QED
    BY <1>3, <2>1, <2>2
<1>6. ASSUME NEW i \in 1..n
      PROVE  t[i].at = IF i = 1 THEN 0 ELSE t[i - 1].at + t[i - 1].sent
  <2>1. seq[i].at = IF i = 1 THEN 0 ELSE seq[i - 1].at + seq[i - 1].sent
    BY DEF Chained, n
  <2>2. i # 1 => i - 1 \in 1..n /\ i - 1 < n
    BY <1>1
  <2>3. QED
    BY <1>3, <2>1, <2>2
<1>7. Chained(t)
  BY <1>2, <1>4, <1>5, <1>6 DEF Chained
<1>8. EndOf(t) >= EndOf(seq)
  <2>1. CASE n = 0
    <3>1. seq = <<>> /\ t = <<>>
      BY <1>1, <1>2, <2>1 DEF n
    <3>2. QED
      BY <3>1 DEF EndOf
  <2>2. CASE n # 0
    <3>1. seq # <<>> /\ t # <<>> /\ n \in 1..n
      BY <1>1, <1>2, <2>2 DEF n
    <3>2. EndOf(seq) = seq[n].at + seq[n].sent /\ EndOf(t) = t[n].at + t[n].sent
      BY <1>2, <3>1 DEF EndOf, Last, n
    <3>3. QED
      BY <1>1, <1>3, <3>1, <3>2
  <2>3. QED
    BY <2>1, <2>2
<1>9. QED
  BY <1>7, <1>8

LEMMA PieceReplaced ==
  ASSUME NEW seq \in Seq(PieceRec), NEW n \in 1..Len(seq), NEW x \in PieceRec
  PROVE  LET t == [seq EXCEPT ![n] = x]
         IN  /\ t \in Seq(PieceRec) /\ Len(t) = Len(seq)
             /\ t[n] = x /\ \A i \in 1..Len(seq) : i # n => t[i] = seq[i]
<1> DEFINE t == [seq EXCEPT ![n] = x]
<1>1. t \in Seq(PieceRec) /\ Len(t) = Len(seq) /\ \A i \in 1..Len(seq) :
        t[i] = IF i = n THEN x ELSE seq[i]
  BY ExceptSeq
<1>2. QED
  BY <1>1

(* the second write_all *)
LEMMA SendPayloadStep ==
  ASSUME SessionInv, SendPayload
  PROVE  WriterStep
<1> DEFINE n == Len(pieces)
<1>1. /\ Chained(pieces) /\ pieces \in Seq(PieceRec) /\ n \in Nat
      /\ sends \in Nat /\ faults \in Nat
      /\ \A i \in 1..n : /\ PieceOK(pieces[i]) /\ pieces[i] \in PieceRec
                         /\ pieces[i].sent \in Nat /\ pieces[i].frame \in FrameRec
  <2>1. Chained(pieces) /\ pieces \in Seq(PieceRec) /\ sends \in Nat /\ faults \in Nat
    BY DEF SessionInv, StreamOK, Chained, ReaderOK
  <2>2. QED
    BY <2>1, PieceTypes DEF SessionInv, StreamOK
<1>2. /\ writer = "payload" /\ framed /\ pieces # <<>> /\ n \in 1..n /\ pieces[n].sent = 8
      /\ writer' = "idle"
      /\ setup' = setup /\ sends' = sends /\ UNCHANGED recvVars
  <2>1. writer = "payload" /\ writer' = "idle" /\ UNCHANGED <<setup, ended, recvVars, sends>>
    BY DEF SendPayload
  <2>2. framed /\ pieces # <<>> /\ pieces[n].sent = 8
    BY <2>1 DEF SessionInv, StreamOK
  <2>3. QED
    BY <1>1, <2>1, <2>2
<1> PICK f : f = pieces[n].frame
  OBVIOUS
<1>3. f \in FrameRec /\ FullLen(f) = 8 + f.size /\ f.size \in Nat
  BY <1>1, <1>2, FullLens
<1>4. \E k \in Nat : /\ pieces' = [pieces EXCEPT ![n].sent = 8 + k] /\ k <= f.size
                     /\ \/ faults' = faults /\ k = f.size
                        \/ faults' = faults + 1
  <2>1. \/ pieces' = [pieces EXCEPT ![n].sent = 8 + f.size] /\ faults' = faults
        \/ Fault /\ \E k \in Cuts(f.size) : pieces' = [pieces EXCEPT ![n].sent = 8 + k]
    BY DEF SendPayload, Last
  <2>2. \A k \in Cuts(f.size) : k \in Nat /\ k <= f.size
    BY <1>3, CutsBelow
  <2>3. QED
    BY <1>3, <2>1, <2>2 DEF Fault
<1>5. PICK k \in Nat : /\ pieces' = [pieces EXCEPT ![n].sent = 8 + k] /\ k <= f.size
                       /\ \/ faults' = faults /\ k = f.size
                          \/ faults' = faults + 1
  BY <1>4
<1>6. \A p \in PieceRec : \A m \in Nat :
        /\ [p EXCEPT !.sent = m] \in PieceRec
        /\ [p EXCEPT !.sent = m].sent = m
        /\ [p EXCEPT !.sent = m].at = p.at /\ [p EXCEPT !.sent = m].id = p.id
        /\ [p EXCEPT !.sent = m].frame = p.frame
        /\ [p EXCEPT !.sent = m].damaged = p.damaged
        /\ [p EXCEPT !.sent = m].header = p.header
        /\ [p EXCEPT !.sent = m].length = p.length
  BY DEF PieceRec
<1>8. 8 + k \in Nat /\ pieces[n] \in PieceRec
  BY <1>1, <1>2
<1> HIDE DEF n
<1>7. /\ Len(pieces') = n
      /\ pieces'[n] = [pieces[n] EXCEPT !.sent = 8 + k]
      /\ \A i \in 1..n : i # n => pieces'[i] = pieces[i]
      /\ pieces' \in Seq(PieceRec)
  <2> PICK x : x = [pieces[n] EXCEPT !.sent = 8 + k]
    OBVIOUS
  <2>1. x \in PieceRec
    BY <1>6, <1>8
  <2>2. pieces' = [pieces EXCEPT ![n] = x]
    BY <1>5
  <2>3. QED
    BY <1>1, <1>2, <2>1, <2>2, PieceReplaced DEF n
<1>9. /\ pieces'[n] \in PieceRec /\ pieces'[n].sent = 8 + k
      /\ pieces'[n].at = pieces[n].at /\ pieces'[n].id = pieces[n].id
      /\ pieces'[n].frame = f /\ pieces'[n].damaged = pieces[n].damaged
      /\ pieces'[n].header = pieces[n].header /\ pieces'[n].length = pieces[n].length
  BY <1>6, <1>7, <1>8
<1>11. ASSUME NEW i \in 1..n
       PROVE  /\ pieces'[i].at = pieces[i].at /\ pieces'[i].id = pieces[i].id
              /\ pieces'[i].frame = pieces[i].frame
              /\ pieces'[i].header = pieces[i].header /\ pieces'[i].length = pieces[i].length
              /\ pieces'[i].damaged = pieces[i].damaged
              /\ i < n => pieces'[i].sent = pieces[i].sent
              /\ pieces'[i].sent >= pieces[i].sent
  <2>1. CASE i = n
    BY <1>2, <1>9, <2>1
  <2>2. CASE i # n
    BY <1>1, <1>7, <2>2
  <2>3. QED
    BY <2>1, <2>2
<1>12. Chained(pieces') /\ StreamLen <= StreamLen'
  <2>1. Chained(pieces') /\ EndOf(pieces') >= EndOf(pieces)
    BY <1>1, <1>7, <1>11, ChainKept DEF n
  <2>2. EndOf(pieces') \in Nat /\ EndOf(pieces) \in Nat
    BY <1>1, <2>1, ChainEnd
  <2>3. QED
    BY <2>1, <2>2, StreamLenOf
<1>13. /\ chain' = chain /\ framed' = framed
       /\ \A g : FullLen(g)' = FullLen(g)
       /\ \A g : FrameOK(g)' <=> FrameOK(g)
  BY <1>2, SetupStays
<1>14. ASSUME NEW i \in 1..n PROVE PieceOK(pieces[i])'
  <2>1. PICK q : q = pieces'[i]
    OBVIOUS
  <2>2. q.frame = pieces[i].frame /\ q.id = pieces[i].id /\ PieceOK(pieces[i])
    BY <1>1, <1>11, <2>1
  <2>3. q.sent <= FullLen(q.frame)
    <3>1. CASE i = n
      BY <1>3, <1>5, <1>9, <2>1, <3>1
    <3>2. CASE i # n
      <4>1. q.sent = pieces[i].sent
        BY <1>7, <2>1, <3>2
      <4>2. QED
        BY <2>2, <4>1 DEF PieceOK
    <3>3. QED
      BY <3>1, <3>2
  <2>4. PieceOK(q)'
    BY <1>2, <1>13, <2>2, <2>3 DEF PieceOK
  <2>5. QED
    BY <2>1, <2>4, PieceAt
<1>15. StreamOK'
  BY <1>1, <1>2, <1>7, <1>12, <1>14 DEF StreamOK
<1>16. ASSUME NEW i \in 1..n PROVE Kept(i)
  <2>1. ASSUME pieces[i].sent = FullLen(pieces[i].frame)
        PROVE  pieces'[i].sent = pieces[i].sent
    <3>1. CASE i = n
      <4>1. 8 = 8 + f.size
        BY <1>2, <1>3, <2>1, <3>1
      <4>2. k = 0
        BY <1>3, <1>5, <4>1
      <4>3. QED
        BY <1>2, <1>9, <3>1, <4>2
    <3>2. CASE i # n
      BY <1>7, <3>2
    <3>3. QED
      BY <3>1, <3>2
  <2>2. QED
    BY <1>11, <2>1 DEF Kept
<1>17. ASSUME faults' = 0, NEW i \in 1..n PROVE Pristine(i)'
  <2>1. faults = 0 /\ k = f.size
    BY <1>1, <1>5, <1>17
  <2>2. Pristine(i)
    BY <2>1 DEF SessionInv, FaultlessOK, n
  <2>3. pieces'[i].sent = FullLen(pieces[i].frame)
    <3>1. CASE i = n
      BY <1>3, <1>9, <2>1, <3>1
    <3>2. CASE i # n
      BY <1>7, <2>2, <3>2 DEF Pristine, n
    <3>3. QED
      BY <3>1, <3>2
  <2>4. PICK g : g = pieces[i].frame
    OBVIOUS
  <2>5. pieces'[i].frame = g /\ pieces'[i].sent = FullLen(g)
    BY <1>11, <2>3, <2>4
  <2>6. /\ ~pieces'[i].damaged /\ pieces'[i].header = Header(chain', g)
        /\ pieces'[i].length = g.size
    BY <1>11, <1>13, <2>2, <2>4 DEF Pristine
  <2>7. QED
    BY <1>13, <2>5, <2>6 DEF Pristine, FullLen
<1>18. faults' \in Nat /\ (faults' = 0 => faults = 0)
  BY <1>1, <1>5
<1>19. QED
  BY <1>1, <1>2, <1>7, <1>12, <1>15, <1>16, <1>17, <1>18 DEF WriterStep, n

(* damage to a piece is none of its place, its length on the stream or its id,  *)
(* and to its length or header only while the reader has not reached them      *)
LEMMA DamageStep ==
  ASSUME SessionInv, NEW i \in DOMAIN pieces, Damage(i)
  PROVE  WriterStep
<1> DEFINE n == Len(pieces)
<1>1. /\ Chained(pieces) /\ pieces \in Seq(PieceRec) /\ n \in Nat /\ i \in 1..n
      /\ pos \in Nat
      /\ sends \in Nat /\ faults \in Nat
      /\ \A k \in 1..n : /\ PieceOK(pieces[k]) /\ pieces[k] \in PieceRec
                         /\ pieces[k].at \in Nat
                         /\ pieces[k].sent \in Nat /\ pieces[k].header \in HeaderRec
  <2>1. Chained(pieces) /\ pieces \in Seq(PieceRec) /\ sends \in Nat /\ faults \in Nat
        /\ pos \in Nat
    BY DEF SessionInv, StreamOK, Chained, ReaderOK
  <2>2. QED
    BY <2>1, PieceTypes DEF SessionInv, StreamOK
<1>2. /\ faults' = faults + 1 /\ UNCHANGED <<writer, sends>>
      /\ setup' = setup /\ UNCHANGED recvVars
  BY DEF Damage, Fault
<1> DEFINE Replaced(x) ==
      /\ pieces' = [pieces EXCEPT ![i] = x]
      /\ x.at = pieces[i].at /\ x.sent = pieces[i].sent /\ x.id = pieces[i].id
      /\ x.frame = pieces[i].frame
      /\ pieces[i].at < pos => x.header = pieces[i].header /\ x.length = pieces[i].length
<1>3. \E x \in PieceRec : Replaced(x)
  <2> PICK p : p = pieces[i]
    OBVIOUS
  <2>1. p \in PieceRec /\ p.header \in HeaderRec /\ p.at \in Nat
    BY <1>1
  <2>2. \/ pieces' = [pieces EXCEPT ![i].damaged = TRUE]
        \/ /\ p.at >= pos
           /\ \E m \in Misread : pieces' = [pieces EXCEPT ![i].length = m]
        \/ /\ p.at >= pos
           /\ \E m \in Misread, field \in {"before", "after"} :
                pieces' = [pieces EXCEPT ![i].header[field] = m]
    BY DEF Damage
  <2>3. CASE pieces' = [pieces EXCEPT ![i].damaged = TRUE]
    <3> PICK x : x = [p EXCEPT !.damaged = TRUE]
      OBVIOUS
    <3>1. /\ x \in PieceRec /\ x.at = p.at /\ x.sent = p.sent /\ x.id = p.id
          /\ x.frame = p.frame /\ x.header = p.header /\ x.length = p.length
      BY <2>1 DEF PieceRec
    <3>2. pieces' = [pieces EXCEPT ![i] = x]
      BY <2>3
    <3>3. QED
      BY <3>1, <3>2
  <2>4. ASSUME p.at >= pos, NEW m \in Misread, pieces' = [pieces EXCEPT ![i].length = m]
        PROVE  \E x \in PieceRec : Replaced(x)
    <3> PICK x : x = [p EXCEPT !.length = m]
      OBVIOUS
    <3>1. m \in Nat /\ ~(p.at < pos)
      BY <1>1, <2>1, <2>4, SizesAssumption
    <3>2. /\ x \in PieceRec /\ x.at = p.at /\ x.sent = p.sent /\ x.id = p.id
          /\ x.frame = p.frame
      BY <2>1, <3>1 DEF PieceRec
    <3>3. pieces' = [pieces EXCEPT ![i] = x]
      BY <2>4
    <3>4. QED
      BY <3>1, <3>2, <3>3
  <2>5. ASSUME p.at >= pos, NEW m \in Misread, NEW field \in {"before", "after"},
               pieces' = [pieces EXCEPT ![i].header[field] = m]
        PROVE  \E x \in PieceRec : Replaced(x)
    <3> PICK h : h = [p.header EXCEPT ![field] = m]
      OBVIOUS
    <3> PICK x : x = [p EXCEPT !.header = h]
      OBVIOUS
    <3>1. m \in Nat /\ ~(p.at < pos)
      BY <1>1, <2>1, <2>5, SizesAssumption
    <3>2. h \in HeaderRec
      <4>1. CASE field = "before"
        BY <2>1, <3>1, <4>1 DEF HeaderRec
      <4>2. CASE field = "after"
        BY <2>1, <3>1, <4>2 DEF HeaderRec
      <4>3. QED
        BY <4>1, <4>2
    <3>3. /\ x \in PieceRec /\ x.at = p.at /\ x.sent = p.sent /\ x.id = p.id
          /\ x.frame = p.frame
      BY <2>1, <3>2 DEF PieceRec
    <3>4. pieces' = [pieces EXCEPT ![i] = x]
      BY <2>5
    <3>5. QED
      BY <3>1, <3>3, <3>4
  <2>6. QED
    BY <2>2, <2>3, <2>4, <2>5
<1>4. PICK x \in PieceRec : Replaced(x)
  BY <1>3
<1>5. /\ pieces' \in Seq(PieceRec) /\ Len(pieces') = n
      /\ pieces'[i] = x
      /\ \A k \in 1..n : k # i => pieces'[k] = pieces[k]
  BY <1>1, <1>4, PieceReplaced
<1> HIDE DEF n
<1>6. ASSUME NEW k \in 1..n
      PROVE  /\ pieces'[k].at = pieces[k].at /\ pieces'[k].id = pieces[k].id
             /\ pieces'[k].frame = pieces[k].frame
             /\ pieces'[k].sent = pieces[k].sent /\ pieces'[k].sent >= pieces[k].sent
             /\ pieces[k].at < pos =>
                  pieces'[k].header = pieces[k].header /\ pieces'[k].length = pieces[k].length
  <2>1. CASE k = i
    BY <1>1, <1>4, <1>5, <2>1
  <2>2. CASE k # i
    <3>1. pieces'[k] = pieces[k] /\ pieces[k].sent \in Nat
      BY <1>1, <1>5, <2>2
    <3>2. QED
      BY <3>1
  <2>3. QED
    BY <2>1, <2>2
<1>7. Chained(pieces') /\ StreamLen <= StreamLen'
  <2>1. Chained(pieces') /\ EndOf(pieces') >= EndOf(pieces)
    BY <1>1, <1>5, <1>6, ChainKept DEF n
  <2>2. EndOf(pieces') \in Nat /\ EndOf(pieces) \in Nat
    BY <1>1, <2>1, ChainEnd
  <2>3. QED
    BY <2>1, <2>2, StreamLenOf
<1>8. ASSUME NEW k \in 1..n PROVE PieceOK(pieces[k])'
  <2>1. PICK q : q = pieces'[k]
    OBVIOUS
  <2>2. q.frame = pieces[k].frame /\ q.id = pieces[k].id /\ q.sent = pieces[k].sent
        /\ PieceOK(pieces[k]) /\ q \in PieceRec
    BY <1>1, <1>5, <1>6, <2>1 DEF n
  <2>3. PieceOK(q) /\ sends' \in Nat /\ sends' >= sends
    BY <1>1, <1>2, <2>2 DEF PieceOK
  <2>4. PieceOK(q)'
    BY <1>2, <2>2, <2>3, PieceStays
  <2>5. QED
    BY <2>1, <2>4, PieceAt
<1>9. StreamOK'
  <2>1. framed' = framed
    BY <1>2 DEF framed
  <2>2. pieces # <<>> => pieces' # <<>> /\ pieces'[n].sent = pieces[n].sent
    <3>1. pieces # <<>> => n \in 1..n /\ Len(pieces') # 0
      BY <1>1, <1>5 DEF n
    <3>2. QED
      BY <1>6, <3>1
  <2>3. (writer = "payload" => framed /\ pieces # <<>> /\ pieces[n].sent = 8)
        /\ writer \in {"idle", "payload"}
    BY DEF SessionInv, StreamOK, n
  <2>4. QED
    BY <1>1, <1>2, <1>5, <1>7, <1>8, <2>1, <2>2, <2>3 DEF StreamOK
<1>10. \A k \in 1..n : Kept(k)
  BY <1>6 DEF Kept
<1>11. faults' \in Nat /\ faults' # 0
  BY <1>1, <1>2
<1>12. QED
  BY <1>1, <1>2, <1>5, <1>7, <1>9, <1>10, <1>11 DEF WriterStep, n

(* what does not touch the stream leaves it as it was *)
LEMMA StreamStays ==
  ASSUME SessionInv, UNCHANGED <<setup, sendVars>>
  PROVE  /\ setup' = setup /\ pieces' = pieces /\ writer' = writer /\ sends' = sends
         /\ chain' = chain /\ framed' = framed /\ PrefixLen' = PrefixLen
         /\ \A f : FullLen(f)' = FullLen(f)
         /\ (Authentic' <=> Authentic) /\ (LengthChecked' <=> LengthChecked)
         /\ Admitted' <=> Admitted
         /\ StreamLen' = StreamLen /\ StreamLen \in Nat
         /\ StreamOK'
         /\ \A i \in 1..Len(pieces) : Pristine(i)' <=> Pristine(i)
<1>1. /\ setup' = setup /\ pieces' = pieces /\ writer' = writer /\ sends' = sends
  BY DEF sendVars
<1>2. /\ chain' = chain /\ framed' = framed /\ PrefixLen' = PrefixLen
      /\ \A f : FullLen(f)' = FullLen(f)
      /\ (Authentic' <=> Authentic) /\ (LengthChecked' <=> LengthChecked)
  BY <1>1, SetupStays
<1>3. /\ Chained(pieces) /\ pieces \in Seq(PieceRec) /\ sends \in Nat
      /\ Len(pieces) \in Nat
      /\ \A k \in 1..Len(pieces) : PieceOK(pieces[k]) /\ pieces[k] \in PieceRec
  <2>1. Chained(pieces) /\ pieces \in Seq(PieceRec) /\ sends \in Nat
    BY DEF SessionInv, StreamOK, Chained
  <2>2. QED
    BY <2>1, PieceTypes DEF SessionInv, StreamOK
<1>4. ASSUME NEW k \in 1..Len(pieces) PROVE PieceOK(pieces[k])'
  <2>1. PICK q : q = pieces[k]
    OBVIOUS
  <2>2. q = pieces'[k] /\ q \in PieceRec /\ PieceOK(q) /\ sends' \in Nat /\ sends' >= sends
    BY <1>1, <1>3, <2>1
  <2>3. PieceOK(q)'
    BY <1>1, <2>2, PieceStays
  <2>4. QED
    BY <2>2, <2>3, PieceAt
<1>5. StreamOK'
  BY <1>1, <1>2, <1>3, <1>4 DEF SessionInv, StreamOK
<1>6. \A i \in 1..Len(pieces) : Pristine(i)' <=> Pristine(i)
  BY <1>1, <1>2 DEF Pristine, FullLen
<1>7. StreamLen \in Nat /\ StreamLen' = StreamLen
  BY <1>1, <1>3, ChainEnd, StreamLenOf
<1>8. Admitted' <=> Admitted
  BY <1>1, <1>2 DEF Admitted
<1>9. QED
  BY <1>1, <1>2, <1>5, <1>6, <1>7, <1>8

(* the connection drops; or nothing happens *)
LEMMA EndStep ==
  ASSUME SessionInv, EndStream \/ UNCHANGED svars
  PROVE  WriterStep
<1>1. UNCHANGED <<setup, sendVars>> /\ faults' = faults /\ UNCHANGED recvVars
  BY DEF EndStream, svars
<1>2. /\ setup' = setup /\ pieces' = pieces /\ StreamOK' /\ StreamLen' = StreamLen
      /\ StreamLen \in Nat
      /\ \A i \in 1..Len(pieces) : Pristine(i)' <=> Pristine(i)
  BY <1>1, StreamStays
<1>3. /\ Len(pieces) \in Nat /\ faults \in Nat
      /\ \A k \in 1..Len(pieces) : pieces[k].sent \in Nat
  BY PieceTypes DEF SessionInv, StreamOK, Chained, ReaderOK
<1>4. \A k \in 1..Len(pieces) : Kept(k)
  BY <1>2, <1>3 DEF Kept
<1>5. faults' = 0 => \A k \in 1..Len(pieces') : Pristine(k)'
  BY <1>1, <1>2 DEF SessionInv, FaultlessOK
<1>6. QED
  BY <1>1, <1>2, <1>3, <1>4, <1>5 DEF WriterStep

---------------------------------------------------------------------------
(* Steps of the reader *)

(* the reader goes on without a body to read: it has failed, or it is where   *)
(* it was                                                                    *)
Goes ==
  /\ UNCHANGED <<setup, sendVars, delivered, allocated>>
  /\ pos' \in Nat /\ pos <= pos' /\ pos' <= StreamLen
  /\ reader' \in {"idle", "eof", "closed"}
  /\ failed' \in BOOLEAN /\ current' \in Nat /\ want' \in Nat
  /\ faults' \in Nat /\ (faults' = 0 => faults = 0)
  /\ reader' = "idle" => current' = 0
  /\ ~failed' => ~failed
  /\ reader' = "idle" /\ ~failed' => pos' = pos /\ reader \in {"handshake", "idle"}
  /\ faults' = 0 /\ Admitted => ~failed'

LEMMA GoesKeeps ==
  ASSUME SessionInv, Goes
  PROVE  SessionInv'
<1>1. /\ setup' = setup /\ pieces' = pieces /\ delivered' = delivered
      /\ allocated' = allocated
      /\ chain' = chain /\ framed' = framed /\ PrefixLen' = PrefixLen
      /\ \A f : FullLen(f)' = FullLen(f)
      /\ (Authentic' <=> Authentic) /\ (LengthChecked' <=> LengthChecked)
      /\ (Admitted' <=> Admitted)
      /\ StreamLen' = StreamLen /\ StreamLen \in Nat
      /\ StreamOK'
      /\ \A i \in 1..Len(pieces) : Pristine(i)' <=> Pristine(i)
  BY StreamStays DEF Goes
<1>2. ReaderOK'
  BY <1>1 DEF SessionInv, ReaderOK, Goes, Readers
<1>3. OrderOK'
  <2>1. ASSUME NEW k \in 1..Len(pieces), Passed(k) PROVE Passed(k)'
    <3>1. pieces[k].at \in Nat /\ pos \in Nat
      BY PieceTypes DEF SessionInv, StreamOK, Chained, ReaderOK
    <3>2. pieces[k].at < pos' /\ reader' # "body"
      <4>1. pos' \in Nat /\ pos <= pos' /\ reader' # "body"
        BY DEF Goes
      <4>2. pieces[k].at < pos
        BY <2>1 DEF Passed
      <4>3. QED
        BY <3>1, <4>1, <4>2
    <3>3. QED
      BY <1>1, <3>2 DEF Passed
  <2>2. OrderOK
    BY DEF SessionInv
  <2>3. QED
    BY <1>1, <2>1, <2>2 DEF OrderOK
<1>4. StepOK'
  <2> SUFFICES ASSUME InSync', reader' = "idle" PROVE Aligned(pos)'
    BY DEF StepOK, Goes
  <2>1. ~failed' /\ InSync
    BY <1>1 DEF InSync, Goes
  <2>2. pos' = pos /\ Aligned(pos)
    BY <2>1 DEF Goes, SessionInv, StepOK
  <2>3. \A i : (pieces[i].sent = FullLen(pieces[i].frame))'
               <=> pieces[i].sent = FullLen(pieces[i].frame)
    BY <1>1 DEF FullLen
  <2>4. QED
    BY <1>1, <2>2, <2>3 DEF Aligned
<1>5. FaultlessOK'
  BY <1>1 DEF SessionInv, FaultlessOK, Goes
<1>6. AllocationBounded'
  BY <1>1 DEF SessionInv, AllocationBounded
<1>7. QED
  BY <1>1, <1>2, <1>3, <1>4, <1>5, <1>6 DEF SessionInv

LEMMA NeededNat ==
  ASSUME SessionInv
  PROVE  /\ Needed \in Nat /\ PrefixLen \in Nat /\ PrefixLen > 0 /\ want \in Nat
         /\ pos \in Nat /\ StreamLen \in Nat /\ pos <= StreamLen /\ faults \in Nat
<1>1. /\ setup \in Setups /\ want \in Nat /\ pos \in Nat /\ pos <= StreamLen /\ faults \in Nat
      /\ Chained(pieces)
  BY DEF SessionInv, ReaderOK, StreamOK
<1>2. PrefixLen \in Nat /\ PrefixLen > 0 /\ StreamLen \in Nat
  BY <1>1, PrefixBounds, ChainEnd, StreamLenOf
<1>3. QED
  BY <1>1, <1>2 DEF Needed, BodyLen

(* authenticate, the end of the stream, an error of the transport, close *)
LEMMA LeavesInv ==
  ASSUME SessionInv,
         \/ Authenticate \/ ReadEnds \/ Close
         \/ \E k \in Cuts(Needed) : ReadFails(k)
  PROVE  SessionInv'
<1>1. /\ Needed \in Nat /\ pos \in Nat /\ StreamLen \in Nat /\ pos <= StreamLen
      /\ faults \in Nat
  BY NeededNat
<1>2. /\ current \in Nat /\ want \in Nat /\ failed \in BOOLEAN
      /\ reader \in {"handshake", "idle"} => current = 0
      /\ faults = 0 /\ Admitted => ~failed
  BY DEF SessionInv, ReaderOK, FaultlessOK
<1>3. CASE Authenticate \/ Close
  <2>1. /\ UNCHANGED <<setup, sendVars, pos, current, want, delivered, failed, allocated,
                       faults>>
        /\ reader \in {"handshake", "idle"} /\ reader' \in {"idle", "closed"}
    BY <1>3 DEF Authenticate, Close
  <2>2. Goes
    BY <1>1, <1>2, <2>1 DEF Goes
  <2>3. QED
    BY <2>2, GoesKeeps
<1>4. CASE ReadEnds
  <2>1. /\ UNCHANGED <<setup, sendVars, current, want, delivered, failed, allocated, faults>>
        /\ pos' = StreamLen /\ reader' = "eof"
    BY <1>4 DEF ReadEnds
  <2>2. Goes
    BY <1>1, <1>2, <2>1 DEF Goes
  <2>3. QED
    BY <2>2, GoesKeeps
<1>5. ASSUME NEW k \in Cuts(Needed), ReadFails(k) PROVE SessionInv'
  <2>1. /\ UNCHANGED <<setup, sendVars, delivered, allocated>>
        /\ k <= Available /\ pos' = pos + k /\ reader' = "idle" /\ current' = 0 /\ want' = 0
        /\ failed' = TRUE /\ faults' = faults + 1
    BY <1>5 DEF ReadFails, Fault
  <2>2. k \in Nat
    BY <1>1, CutsBelow
  <2>3. pos' \in Nat /\ pos <= pos' /\ pos' <= StreamLen
    BY <1>1, <2>1, <2>2 DEF Available
  <2>4. Goes
    BY <1>1, <2>1, <2>3 DEF Goes
  <2>5. QED
    BY <2>4, GoesKeeps
<1>6. QED
  BY <1>3, <1>4, <1>5

(* the piece behind the first m ones is the next *)
LEMMA NextPiece ==
  ASSUME NEW seq, Chained(seq), NEW m \in 0..Len(seq), NEW i \in 1..Len(seq),
         seq[i].at = IF m = 0 THEN 0 ELSE seq[m].at + seq[m].sent
  PROVE  i = m + 1
<1>1. /\ Len(seq) \in Nat
      /\ \A k \in 1..Len(seq) : seq[k].at \in Nat /\ seq[k].sent \in Nat /\ seq[k].sent > 0
      /\ \A j, k \in 1..Len(seq) : j < k => seq[j].at + seq[j].sent <= seq[k].at
  BY PieceTypes DEF Chained
<1>2. ~(i > m + 1)
  <2> SUFFICES ASSUME i > m + 1 PROVE FALSE
    OBVIOUS
  <2> PICK k : k = m + 1
    OBVIOUS
  <2>1. k \in 1..Len(seq) /\ k < i
    BY <1>1
  <2>2. seq[k].at = IF m = 0 THEN 0 ELSE seq[m].at + seq[m].sent
    <3>1. seq[k].at = IF k = 1 THEN 0 ELSE seq[k - 1].at + seq[k - 1].sent
      BY <2>1 DEF Chained
    <3>2. k - 1 = m /\ (k = 1 <=> m = 0)
      OBVIOUS
    <3>3. QED
      BY <3>1, <3>2
  <2>3. seq[k].at + seq[k].sent <= seq[i].at /\ seq[k].at = seq[i].at
    BY <1>1, <2>1, <2>2
  <2>4. QED
    BY <1>1, <2>1, <2>3
<1>3. ~(i <= m)
  <2> SUFFICES ASSUME i <= m PROVE FALSE
    OBVIOUS
  <2>1. m \in 1..Len(seq) /\ m # 0
    BY <1>1
  <2>2. seq[i].at = seq[m].at + seq[m].sent
    BY <2>1
  <2>3. i = m \/ i < m
    BY <1>1
  <2>4. CASE i = m
    BY <1>1, <2>1, <2>2, <2>4
  <2>5. CASE i < m
    <3>1. seq[i].at + seq[i].sent <= seq[m].at
      BY <1>1, <2>1, <2>5
    <3>2. \A x, y, z, w \in Nat : y > 0 /\ x + y <= z /\ x = z + w => FALSE
      OBVIOUS
    <3>3. QED
      BY <1>1, <2>1, <2>2, <3>1, <3>2
  <2>6. QED
    BY <2>3, <2>4, <2>5
<1>4. QED
  BY <1>1, <1>2, <1>3

(* where the stream goes on behind the first m pieces, there is a next one *)
LEMMA MorePieces ==
  ASSUME NEW seq, Chained(seq), NEW m \in 0..Len(seq), NEW end,
         end = IF m = 0 THEN 0 ELSE seq[m].at + seq[m].sent,
         EndOf(seq) > end
  PROVE  m + 1 \in 1..Len(seq) /\ seq[m + 1].at = end
<1>1. /\ Len(seq) \in Nat /\ seq \in Seq(PieceRec)
      /\ \A k \in 1..Len(seq) : seq[k].at \in Nat /\ seq[k].sent \in Nat
  BY PieceTypes DEF Chained
<1>2. m # Len(seq)
  <2> SUFFICES ASSUME m = Len(seq) PROVE FALSE
    OBVIOUS
  <2>1. EndOf(seq) = end
    <3>1. CASE m = 0
      <4>1. seq = <<>>
        BY <1>1, <3>1, EmptySeq
      <4>2. QED
        BY <3>1, <4>1, ChainEnd
    <3>2. CASE m # 0
      <4>1. seq # <<>>
        BY <1>1, <3>2
      <4>2. QED
        BY <3>2, <4>1, ChainEnd
    <3>3. QED
      BY <3>1, <3>2
  <2>2. EndOf(seq) \in Nat
    BY ChainEnd
  <2>3. QED
    BY <2>1, <2>2
<1>3. m + 1 \in 1..Len(seq) /\ (m + 1) - 1 = m /\ (m + 1 = 1 <=> m = 0)
  BY <1>1, <1>2
<1>4. seq[m + 1].at = IF m + 1 = 1 THEN 0 ELSE seq[(m + 1) - 1].at + seq[(m + 1) - 1].sent
  BY <1>3 DEF Chained
<1>5. QED
  BY <1>3, <1>4

(* the reader turns to a body of n bytes *)
Enters(i, n) ==
  /\ UNCHANGED <<setup, sendVars, delivered, failed, faults>>
  /\ reader = "idle"
  /\ pos' = pos + PrefixLen /\ pos' <= StreamLen
  /\ Reserve(i, n)
  /\ n \in Nat
  /\ IF framed THEN ~Exceeds(n, setup.max_frame_len)
     ELSE \E h \in HeaderRec : HeaderOk(chain, h) /\ n = h.after
  /\ i = 0 => framed /\ ~(faults = 0 /\ Admitted)
  /\ i # 0 => /\ i \in 1..Len(pieces) /\ AtPiece(i)
              /\ n = IF framed THEN pieces[i].length ELSE pieces[i].header.after

(* what is reserved for a body is within the limits *)
LEMMA ReserveBounded ==
  ASSUME SessionInv, NEW i, NEW n, Enters(i, n)
  PROVE  AllocationBounded' /\ allocated' \in Nat
<1> DEFINE buffer == IF framed THEN n ELSE HeaderLen(chain) + n
<1>1. /\ setup \in Setups /\ allocated \in Nat /\ AllocationBounded /\ n \in Nat
  BY DEF SessionInv, ReaderOK, Enters
<1>2. /\ allocated' = (IF buffer > allocated THEN buffer ELSE allocated)
      /\ setup' = setup /\ chain' = chain /\ framed' = framed
  BY SetupStays DEF Enters, Reserve
<1>3. HeaderLen(chain) \in Nat /\ RawBound(chain) \in Nat
      /\ \A l \in PlaintextLimit(chain) : l \in Nat
  BY <1>1, PrefixBounds, Bounds
<1>4. buffer \in Nat
  BY <1>1, <1>3
<1> DEFINE Fits(b) ==
      IF framed THEN ~Exceeds(b, setup.max_frame_len)
      ELSE IF ~chain.encrypted THEN b <= 24 + RawBound(chain)
      ELSE \A l \in PlaintextLimit(chain) : b <= 48 + l + 16
<1>5. Fits(buffer)
  <2>1. CASE framed
    BY <2>1 DEF Enters
  <2>2. CASE ~framed
    <3>1. PICK h \in HeaderRec : HeaderOk(chain, h) /\ n = h.after
      BY <2>2 DEF Enters
    <3>2. h.before \in Nat /\ h.after \in Nat
      BY DEF HeaderRec
    <3>3. CASE chain.encrypted
      <4>1. n = h.before + 16 /\ ~Exceeds(h.before, PlaintextLimit(chain))
        BY <3>1, <3>3 DEF HeaderOk, TAG_LEN
      <4>2. buffer = 48 + n
        BY <2>2, <3>3 DEF HeaderLen, ENCRYPTION_HEADER_LEN
      <4>3. ASSUME NEW l \in PlaintextLimit(chain) PROVE buffer <= 48 + l + 16
        <5>1. ~(h.before > l) /\ l \in Nat
          BY <1>3, <4>1 DEF Exceeds
        <5>2. QED
          BY <3>2, <4>1, <4>2, <5>1
      <4>4. QED
        BY <2>2, <3>3, <4>3
    <3>4. CASE ~chain.encrypted
      <4>1. n <= h.before /\ h.before <= RawBound(chain)
        BY <3>1, <3>2, <3>4 DEF HeaderOk
      <4>2. buffer = 24 + n
        BY <2>2, <3>4 DEF HeaderLen, COMPRESSION_HEADER_LEN
      <4>3. buffer <= 24 + RawBound(chain)
        BY <1>1, <1>3, <3>2, <4>1, <4>2
      <4>4. QED
        BY <2>2, <3>4, <4>3
    <3>5. QED
      BY <3>3, <3>4
  <2>3. QED
    BY <2>1, <2>2
<1>6. Fits(allocated)
  BY <1>1 DEF AllocationBounded, COMPRESSION_HEADER_LEN, ENCRYPTION_HEADER_LEN, TAG_LEN
<1> HIDE DEF buffer
<1>7. Fits(allocated') /\ allocated' \in Nat
  <2> HIDE DEF Fits
  <2>1. allocated' = buffer \/ allocated' = allocated
    BY <1>2
  <2>2. QED
    BY <1>1, <1>4, <1>5, <1>6, <2>1
<1>8. AllocationBounded'
  BY <1>2, <1>7 DEF AllocationBounded, COMPRESSION_HEADER_LEN, ENCRYPTION_HEADER_LEN, TAG_LEN
<1>9. QED
  BY <1>7, <1>8

LEMMA EntersKeeps ==
  ASSUME SessionInv, NEW i, NEW n, Enters(i, n)
  PROVE  SessionInv'
<1>1. /\ setup' = setup /\ pieces' = pieces /\ delivered' = delivered
      /\ failed' = failed /\ faults' = faults
      /\ chain' = chain /\ framed' = framed /\ PrefixLen' = PrefixLen
      /\ \A f : FullLen(f)' = FullLen(f)
      /\ (Authentic' <=> Authentic) /\ (LengthChecked' <=> LengthChecked)
      /\ (Admitted' <=> Admitted)
      /\ StreamLen' = StreamLen /\ StreamLen \in Nat
      /\ StreamOK'
      /\ \A k \in 1..Len(pieces) : Pristine(k)' <=> Pristine(k)
  BY StreamStays DEF Enters
<1>2. /\ reader' = "body" /\ current' = i /\ want' = n /\ n \in Nat
      /\ pos' = pos + PrefixLen /\ pos' <= StreamLen /\ reader = "idle"
      /\ i = 0 => framed /\ ~(faults = 0 /\ Admitted)
      /\ i # 0 => /\ i \in 1..Len(pieces) /\ pieces[i].at = pos
                  /\ pieces[i].sent >= PrefixLen
                  /\ n = IF framed THEN pieces[i].length ELSE pieces[i].header.after
  BY DEF Enters, Reserve, AtPiece
<1>3. PrefixLen \in Nat /\ PrefixLen > 0 /\ pos \in Nat
  BY NeededNat
<1>4. /\ Chained(pieces) /\ Len(pieces) \in Nat
      /\ \A k \in 1..Len(pieces) : pieces[k].at \in Nat
  BY PieceTypes DEF SessionInv, StreamOK, Chained
<1>5. AllocationBounded' /\ allocated' \in Nat
  BY ReserveBounded
<1>6. ReaderOK'
  <2>1. i \in Nat /\ (i # 0 => i <= Len(pieces))
    BY <1>2, <1>4
  <2>2. setup \in Setups /\ failed \in BOOLEAN /\ faults \in Nat /\ delivered \in Seq(Nat)
    BY DEF SessionInv, ReaderOK
  <2>3. pos' \in Nat
    BY <1>2, <1>3
  <2>4. i # 0 => pos' = pieces[i].at + PrefixLen
    BY <1>2
  <2>5. QED
    BY <1>1, <1>2, <1>5, <2>1, <2>2, <2>3, <2>4 DEF ReaderOK, Readers
<1>7. OrderOK'
  <2>1. ASSUME NEW k \in 1..Len(pieces), Passed(k) PROVE Passed(k)'
    <3>1. pieces[k].at < pos /\ pieces[k].at \in Nat
      BY <1>4, <2>1 DEF Passed
    <3>2. pieces[k].at < pos'
      BY <1>2, <1>3, <3>1
    <3>3. i # 0 => pieces[k].at < pieces[i].at
      BY <1>2, <3>1
    <3>4. QED
      BY <1>1, <1>2, <3>2, <3>3 DEF Passed
  <2>2. OrderOK
    BY DEF SessionInv
  <2>3. QED
    BY <1>1, <2>1, <2>2 DEF OrderOK
<1>8. StepOK'
  <2> SUFFICES ASSUME InSync', i # 0
               PROVE  i = Len(delivered) + 1 /\ Aligned(pieces[current].at)'
    BY <1>1, <1>2 DEF StepOK
  <2>1. InSync
    BY <1>1 DEF InSync
  <2>2. Aligned(pos)
    BY <1>2, <2>1 DEF SessionInv, StepOK
  <2>3. i = Len(delivered) + 1
    <3>1. Len(delivered) \in 0..Len(pieces)
      BY <1>4, <2>2 DEF Aligned, SessionInv, ReaderOK
    <3>2. pieces[i].at = IF Len(delivered) = 0 THEN 0
                         ELSE pieces[Len(delivered)].at + pieces[Len(delivered)].sent
      BY <1>2, <2>2 DEF Aligned
    <3> PICK m : m = Len(delivered)
      OBVIOUS
    <3>3. i = m + 1
      BY <1>2, <1>4, <3>1, <3>2, NextPiece
    <3>4. QED
      BY <3>3
  <2>4. \A k : (pieces[k].sent = FullLen(pieces[k].frame))'
               <=> pieces[k].sent = FullLen(pieces[k].frame)
    BY <1>1 DEF FullLen
  <2>5. pieces'[current'].at = pos
    BY <1>1, <1>2
  <2>6. QED
    BY <1>1, <2>2, <2>3, <2>4, <2>5 DEF Aligned
<1>9. FaultlessOK'
  <2>1. /\ faults = 0 => \A k \in 1..Len(pieces) : Pristine(k)
        /\ faults = 0 /\ Admitted => ~failed
    BY DEF SessionInv, FaultlessOK
  <2>2. QED
    BY <1>1, <1>2, <2>1 DEF FaultlessOK
<1>10. QED
  BY <1>1, <1>5, <1>6, <1>7, <1>8, <1>9 DEF SessionInv

(* recv reads a length, deserialize_from a header *)
LEMMA ReadPrefixInv ==
  ASSUME SessionInv, ReadPrefix
  PROVE  SessionInv'
<1>1. /\ PrefixLen \in Nat /\ PrefixLen > 0 /\ pos \in Nat /\ StreamLen \in Nat
      /\ pos <= StreamLen /\ faults \in Nat
  BY NeededNat
<1>2. /\ reader = "idle" /\ pos' = pos + PrefixLen
      /\ UNCHANGED <<setup, sendVars, delivered, faults>>
      /\ Available >= PrefixLen
  BY DEF ReadPrefix
<1>3. pos' \in Nat /\ pos <= pos' /\ pos' <= StreamLen /\ StreamLen > pos
  BY <1>1, <1>2 DEF Available
<1>4. /\ setup \in Setups /\ current = 0 /\ want \in Nat /\ failed \in BOOLEAN
      /\ Chained(pieces) /\ Len(pieces) \in Nat /\ DOMAIN pieces = 1..Len(pieces)
      /\ \A k \in 1..Len(pieces) : /\ pieces[k].length \in Nat /\ pieces[k].header \in HeaderRec
                                   /\ pieces[k].header.after \in Nat
                                   /\ pieces[k].frame \in FrameRec
                                   /\ FrameOK(pieces[k].frame)
  <2>1. setup \in Setups /\ current = 0 /\ want \in Nat /\ failed \in BOOLEAN
    BY <1>2 DEF SessionInv, ReaderOK
  <2>2. Chained(pieces) /\ pieces \in Seq(PieceRec)
    BY DEF SessionInv, StreamOK, Chained
  <2>3. \A k \in 1..Len(pieces) : FrameOK(pieces[k].frame)
    BY DEF SessionInv, StreamOK, PieceOK
  <2>4. QED
    BY <2>1, <2>2, <2>3, PieceTypes
<1>5. ASSUME Fail, ~(faults = 0 /\ Admitted) PROVE SessionInv'
  <2>1. failed' = TRUE /\ reader' = "idle" /\ UNCHANGED <<current, want, allocated>>
    BY <1>5 DEF Fail
  <2>2. Goes
    BY <1>1, <1>2, <1>3, <1>4, <1>5, <2>1 DEF Goes
  <2>3. QED
    BY <2>2, GoesKeeps
<1>6. CASE \E i \in DOMAIN pieces : AtPiece(i) /\
             IF framed THEN TakeLength(i, pieces[i].length) ELSE TakeHeader(i)
  <2>1. PICK i \in 1..Len(pieces) : AtPiece(i) /\
          IF framed THEN TakeLength(i, pieces[i].length) ELSE TakeHeader(i)
    BY <1>4, <1>6
  <2>2. CASE framed
    <3> PICK n : n = pieces[i].length
      OBVIOUS
    <3>1. CASE Exceeds(n, setup.max_frame_len)
      <4>1. Fail
        BY <2>1, <2>2, <3>1 DEF TakeLength
      <4>2. ~(faults = 0 /\ Admitted)
        <5> SUFFICES ASSUME faults = 0, Admitted PROVE FALSE
          OBVIOUS
        <5>1. n = pieces[i].frame.size
          BY DEF SessionInv, FaultlessOK, Pristine
        <5>2. QED
          BY <1>4, <2>2, <3>1, <5>1 DEF Admitted
      <4>3. QED
        BY <1>5, <4>1, <4>2
    <3>2. CASE ~Exceeds(n, setup.max_frame_len)
      <4>1. Reserve(i, n) /\ UNCHANGED failed
        BY <2>1, <2>2, <3>2 DEF TakeLength, Reserve
      <4>2. i # 0 /\ n \in Nat
        BY <1>4
      <4>3. Enters(i, n)
        BY <1>2, <1>3, <2>1, <2>2, <3>2, <4>1, <4>2 DEF Enters
      <4>4. QED
        BY <4>3, EntersKeeps
    <3>3. QED
      BY <3>1, <3>2
  <2>3. CASE ~framed
    <3> PICK h : h = pieces[i].header
      OBVIOUS
    <3>1. CASE ~HeaderOk(chain, h)
      <4>1. Fail
        BY <2>1, <2>3, <3>1 DEF TakeHeader
      <4>2. ~(faults = 0 /\ Admitted)
        <5> SUFFICES ASSUME faults = 0, Admitted PROVE FALSE
          OBVIOUS
        <5> PICK f : f = pieces[i].frame
          OBVIOUS
        <5>1. h = Header(chain, f)
          BY DEF SessionInv, FaultlessOK, Pristine
        <5>2. chain.compressed => f.raw <= RawBound(chain)
          BY <1>4 DEF Admitted
        <5>3. QED
          BY <1>4, <2>3, <3>1, <5>1, <5>2, HeaderOfFrame
      <4>3. QED
        BY <1>5, <4>1, <4>2
    <3>2. CASE HeaderOk(chain, h)
      <4>1. Reserve(i, h.after) /\ UNCHANGED failed
        BY <2>1, <2>3, <3>2 DEF TakeHeader, Reserve
      <4>2. i # 0 /\ h \in HeaderRec /\ h.after \in Nat
        BY <1>4
      <4>3. Enters(i, h.after)
        BY <1>2, <1>3, <2>1, <2>3, <3>2, <4>1, <4>2 DEF Enters
      <4>4. QED
        BY <4>3, EntersKeeps
    <3>3. QED
      BY <3>1, <3>2
  <2>4. QED
    BY <2>2, <2>3
<1>7. CASE /\ ~\E i \in DOMAIN pieces : AtPiece(i)
           /\ IF framed THEN \E n \in Misread : TakeLength(0, n) ELSE Fail
  <2>1. ~(faults = 0 /\ Admitted)
    <3> SUFFICES ASSUME faults = 0, Admitted PROVE FALSE
      OBVIOUS
    <3>1. Aligned(pos)
      BY <1>2 DEF InSync, SessionInv, StepOK
    <3> PICK m : m = Len(delivered)
      OBVIOUS
    <3>2. m \in 0..Len(pieces)
      BY <1>4, <3>1 DEF Aligned, SessionInv, ReaderOK
    <3>3. pos = IF m = 0 THEN 0 ELSE pieces[m].at + pieces[m].sent
      BY <3>1 DEF Aligned
    <3>4. EndOf(pieces) > pos
      BY <1>3, StreamLenOf
    <3>5. m + 1 \in 1..Len(pieces) /\ pieces[m + 1].at = pos
      BY <1>4, <3>2, <3>3, <3>4, MorePieces
    <3> PICK i : i = m + 1
      OBVIOUS
    <3>6. pieces[i].sent >= PrefixLen
      <4>1. /\ pieces[i].sent = FullLen(pieces[i].frame) \/ (i = Len(pieces) /\ writer = "payload")
        BY <3>5 DEF SessionInv, FaultlessOK, Pristine
      <4>2. pieces[i].frame \in FrameRec /\ FrameOK(pieces[i].frame)
        BY <1>4, <3>5
      <4>3. CASE framed
        <5>1. PrefixLen = 8
          BY <1>4, <4>3, PrefixBounds
        <5>2. CASE pieces[i].sent = FullLen(pieces[i].frame)
          <6> PICK f : f = pieces[i].frame
            OBVIOUS
          <6>1. FullLen(f) = 8 + f.size /\ f.size \in Nat
            BY <4>2, <4>3, FullLens
          <6>2. QED
            BY <5>1, <5>2, <6>1
        <5>3. CASE i = Len(pieces) /\ writer = "payload"
          BY <5>1, <5>3 DEF SessionInv, StreamOK
        <5>4. QED
          BY <4>1, <5>2, <5>3
      <4>4. CASE ~framed
        <5>1. PrefixLen = HeaderLen(chain) /\ HeaderLen(chain) \in Nat
          BY <1>4, <4>4, PrefixBounds
        <5>2. writer # "payload"
          BY <4>4 DEF SessionInv, StreamOK
        <5> PICK f : f = pieces[i].frame
          OBVIOUS
        <5>3. pieces[i].sent = f.size
          BY <4>1, <4>4, <5>2 DEF FullLen
        <5>4. HeaderLen(chain) + Header(chain, f).after = f.size
              /\ Header(chain, f) \in HeaderRec
          BY <1>4, <4>2, <4>4, HeaderOfFrame
        <5>5. Header(chain, f).after \in Nat
          BY <5>4 DEF HeaderRec
        <5>6. QED
          BY <5>1, <5>3, <5>4, <5>5
      <4>5. QED
        BY <4>3, <4>4
    <3>7. QED
      BY <1>4, <1>7, <3>5, <3>6 DEF AtPiece
  <2>2. CASE Fail
    BY <1>5, <2>1, <2>2
  <2>3. CASE ~Fail
    <3>1. framed /\ \E n \in Misread : TakeLength(0, n)
      BY <1>7, <2>3
    <3>2. PICK n \in Misread : TakeLength(0, n)
      BY <3>1
    <3>3. ~Exceeds(n, setup.max_frame_len) /\ Reserve(0, n) /\ UNCHANGED failed
      BY <2>3, <3>2 DEF TakeLength, Reserve
    <3>4. n \in Nat
      BY SizesAssumption
    <3> PICK i : i = 0
      OBVIOUS
    <3>5. Enters(i, n)
      BY <1>2, <1>3, <2>1, <3>1, <3>3, <3>4 DEF Enters
    <3>6. QED
      BY <3>5, EntersKeeps
  <2>4. QED
    BY <2>2, <2>3
<1>8. QED
  BY <1>6, <1>7 DEF ReadPrefix

(* Bodies *)

(* what the reader knows of the piece whose body it is at *)
LEMMA BodyPiece ==
  ASSUME SessionInv, reader = "body", current # 0
  PROVE  /\ setup \in Setups /\ current \in 1..Len(pieces)
         /\ pieces[current].frame \in FrameRec /\ PieceOK(pieces[current])
         /\ pieces[current].at \in Nat /\ pieces[current].sent \in Nat
         /\ pieces[current].frame.size \in Nat
         /\ pos = pieces[current].at + PrefixLen
         /\ pieces[current].sent >= PrefixLen
         /\ want = IF framed THEN pieces[current].length ELSE pieces[current].header.after
         /\ want \in Nat
<1>1. /\ setup \in Setups /\ current \in Nat /\ current # 0 /\ current <= Len(pieces)
      /\ pos = pieces[current].at + PrefixLen
      /\ pieces[current].sent >= PrefixLen
      /\ want = IF framed THEN pieces[current].length ELSE pieces[current].header.after
      /\ want \in Nat
  BY DEF SessionInv, ReaderOK
<1>2. pieces \in Seq(PieceRec) /\ Len(pieces) \in Nat
      /\ \A k \in 1..Len(pieces) : PieceOK(pieces[k])
  BY PieceTypes DEF SessionInv, StreamOK, Chained
<1>3. current \in 1..Len(pieces)
  BY <1>1, <1>2
<1>4. QED
  BY <1>1, <1>2, <1>3, PieceTypes

(* without faults, the body of the piece is there as it was sent *)
LEMMA FaultlessBody ==
  ASSUME SessionInv, reader = "body", faults = 0, Admitted, Available >= want
  PROVE  /\ current # 0 /\ ~pieces[current].damaged
         /\ pieces[current].header = Header(chain, pieces[current].frame)
         /\ pieces[current].sent = FullLen(pieces[current].frame)
         /\ framed => want = pieces[current].frame.size
         /\ ~framed => HeaderLen(chain) + want = pieces[current].frame.size
<1>1. current # 0
  BY DEF SessionInv, FaultlessOK
<1> PICK f : f = pieces[current].frame
  OBVIOUS
<1>2. /\ setup \in Setups /\ current \in 1..Len(pieces)
      /\ f \in FrameRec /\ FrameOK(f) /\ f.size \in Nat
      /\ pieces[current].at \in Nat
      /\ pos = pieces[current].at + PrefixLen
      /\ want = IF framed THEN pieces[current].length ELSE pieces[current].header.after
      /\ want \in Nat
  BY <1>1, BodyPiece DEF PieceOK
<1>3. /\ ~pieces[current].damaged /\ pieces[current].header = Header(chain, f)
      /\ pieces[current].length = f.size
      /\ pieces[current].sent = FullLen(f) \/ (current = Len(pieces) /\ writer = "payload")
  BY <1>2 DEF SessionInv, FaultlessOK, Pristine
<1>4. framed => want = f.size
  BY <1>2, <1>3
<1>5. ~framed => HeaderLen(chain) + want = f.size
  BY <1>2, <1>3, HeaderOfFrame
<1>6. pieces[current].sent = FullLen(f)
  <2> SUFFICES ASSUME current = Len(pieces), writer = "payload"
               PROVE  pieces[current].sent = FullLen(f)
    BY <1>3
  <2>1. framed /\ pieces # <<>> /\ pieces[current].sent = 8 /\ Chained(pieces)
    BY DEF SessionInv, StreamOK
  <2>2. PrefixLen = 8 /\ FullLen(f) = 8 + f.size
    BY <1>2, <2>1, PrefixBounds, FullLens
  <2>3. StreamLen = pieces[current].at + 8
    BY <2>1, ChainEnd, StreamLenOf
  <2>4. Available = 0
    BY <1>2, <2>2, <2>3 DEF Available
  <2>5. f.size = 0
    BY <1>2, <1>4, <2>1, <2>4
  <2>6. QED
    BY <2>1, <2>2, <2>5
<1>7. QED
  BY <1>1, <1>3, <1>4, <1>5, <1>6

(* so nothing but its value comes out *)
LEMMA FaultlessOutcome ==
  ASSUME SessionInv, reader = "body", faults = 0, Admitted, Available >= want
  PROVE  Outcomes = {"value"}
<1> PICK p : p = pieces[current]
  OBVIOUS
<1> PICK f : f = p.frame
  OBVIOUS
<1>1. /\ current # 0 /\ ~p.damaged /\ p.header = Header(chain, f) /\ p.sent = FullLen(f)
      /\ framed => want = f.size
  BY FaultlessBody
<1>2. /\ setup \in Setups /\ current \in 1..Len(pieces) /\ f.size \in Nat /\ f \in FrameRec
      /\ FrameOK(f)
  BY <1>1, BodyPiece DEF PieceOK
<1>3. ~TooLarge(chain, f)
  <2>1. ~Refused(chain, f)
    BY <1>2 DEF FrameOK
  <2>2. chain.compressed => f.raw <= RawBound(chain)
    <3>1. DOMAIN pieces = 1..Len(pieces)
      BY DEF SessionInv, StreamOK, Chained
    <3>2. QED
      BY <1>2, <3>1 DEF Admitted
  <2>3. chain.compressed => ~(f.raw > RawBound(chain))
    <3>1. f.raw \in Nat /\ RawBound(chain) \in Nat
      BY <1>2, Bounds DEF FrameRec
    <3>2. QED
      BY <2>2, <3>1
  <2>4. QED
    BY <2>1, <2>3 DEF TooLarge, Refused
<1>4. Intact(p, f.size)
  <2>1. CASE framed
    <3>1. p.sent = 8 + f.size
      BY <1>1, <1>2, <2>1, FullLens
    <3>2. p.sent - 8 >= f.size
      BY <1>2, <3>1
    <3>3. QED
      BY <1>1, <1>2, <2>1, <3>2 DEF Intact
  <2>2. CASE ~framed
    <3>1. p.sent = f.size
      BY <1>1, <2>2 DEF FullLen
    <3>2. QED
      BY <1>1, <1>2, <2>2, <3>1 DEF Intact
  <2>3. QED
    BY <2>1, <2>2
<1>5. Deserialize(chain, f, f.size, TRUE) = {"value"}
  BY <1>2, <1>3 DEF Deserialize
<1>6. CASE framed
  <2>1. want = f.size
    BY <1>1, <1>6
  <2>2. Verified(p) /\ Intact(p, want)
    BY <1>4, <2>1 DEF Verified
  <2>3. Outcomes = Deserialize(chain, p.frame, want, Intact(p, want))
    BY <1>1, <1>6, <2>2 DEF Outcomes
  <2>4. Deserialize(chain, f, want, Intact(p, want)) = {"value"}
    BY <1>2, <1>3, <2>1, <2>2 DEF Deserialize
  <2>5. QED
    BY <2>3, <2>4
<1>7. CASE ~framed
  <2>1. Outcomes = Deserialize(chain, f, f.size, Intact(p, f.size))
    BY <1>1, <1>7 DEF Outcomes
  <2>2. Deserialize(chain, f, f.size, Intact(p, f.size)) = {"value"}
    BY <1>2, <1>3, <1>4 DEF Deserialize
  <2>3. QED
    BY <2>1, <2>2
<1>8. QED
  BY <1>6, <1>7

LEMMA OutcomeKinds ==
  ASSUME SessionInv, NEW o \in Outcomes
  PROVE  /\ o \in {"error", "garbled", "value"}
         /\ o = "value" => current # 0
         /\ Authentic => o # "garbled"
<1>1. \A f, have, intact :
        /\ Deserialize(chain, f, have, intact) \subseteq {"error", "garbled", "value"}
        /\ intact \/ chain.encrypted => "garbled" \notin Deserialize(chain, f, have, intact)
  BY DEF Deserialize
<1>2. /\ DeserializeAltered(chain) \subseteq {"error", "garbled", "value"}
      /\ chain.encrypted => "garbled" \notin DeserializeAltered(chain)
      /\ DeserializeOther(chain) \subseteq {"error", "garbled"}
      /\ chain.encrypted => "garbled" \notin DeserializeOther(chain)
  BY DEF DeserializeAltered, DeserializeOther
<1> PICK p : p = pieces[current]
  OBVIOUS
<1>3. CASE current = 0
  <2>1. o \in IF setup.verifier = "mac" THEN {"error"} ELSE DeserializeOther(chain)
    BY <1>3 DEF Outcomes
  <2>2. Authentic => chain.encrypted \/ setup.verifier = "mac"
    BY DEF Authentic
  <2>3. QED
    BY <1>2, <1>3, <2>1, <2>2
<1>4. CASE current # 0 /\ framed
  <2>1. o \in IF Verified(p) THEN Deserialize(chain, p.frame, want, Intact(p, want))
              ELSE {"error"}
    BY <1>4 DEF Outcomes
  <2>2. Authentic /\ Verified(p) => chain.encrypted \/ Intact(p, want)
    BY DEF Authentic, Verified
  <2>3. QED
    BY <1>1, <1>4, <2>1, <2>2
<1>5. CASE current # 0 /\ ~framed
  <2>1. \/ o \in DeserializeAltered(chain)
        \/ o \in Deserialize(chain, p.frame, p.frame.size, Intact(p, p.frame.size))
    BY <1>5 DEF Outcomes
  <2>2. Authentic => chain.encrypted
    BY <1>5 DEF Authentic
  <2>3. QED
    BY <1>1, <1>2, <1>5, <2>1, <2>2
<1>6. QED
  BY <1>3, <1>4, <1>5

(* a receiver that checks frames and their lengths takes the body it expects *)
LEMMA BodyExact ==
  ASSUME SessionInv, reader = "body", InSync, "value" \in Outcomes, Available >= want
  PROVE  /\ PrefixLen + want = FullLen(pieces[current].frame)
         /\ pieces[current].sent = FullLen(pieces[current].frame)
<1>1. current # 0
  BY OutcomeKinds
<1> PICK p : p = pieces[current]
  OBVIOUS
<1> PICK f : f = p.frame
  OBVIOUS
<1>2. /\ setup \in Setups /\ f \in FrameRec /\ f.size \in Nat /\ FrameOK(f)
      /\ p.sent \in Nat /\ p.sent <= FullLen(f)
      /\ want \in Nat
      /\ want = IF framed THEN p.length ELSE p.header.after
  BY <1>1, BodyPiece DEF PieceOK
<1>3. /\ FullLen(f) \in Nat
      /\ framed => FullLen(f) = 8 + f.size /\ PrefixLen = 8
      /\ ~framed => FullLen(f) = f.size /\ PrefixLen = HeaderLen(chain)
  BY <1>2, FullLens, PrefixBounds DEF FullLen
<1>4. CASE faults = 0 /\ Admitted
  <2>1. /\ p.sent = FullLen(f)
        /\ framed => want = f.size
        /\ ~framed => HeaderLen(chain) + want = f.size
    BY <1>4, FaultlessBody
  <2>2. PrefixLen + want = FullLen(f)
    <3>1. CASE framed
      BY <1>2, <1>3, <2>1, <3>1
    <3>2. CASE ~framed
      BY <1>3, <2>1, <3>2
    <3>3. QED
      BY <3>1, <3>2
  <2>3. QED
    BY <2>1, <2>2
<1>5. CASE Authentic /\ LengthChecked
  <2>1. CASE framed
    <3>1. Verified(p) /\ "value" \in Deserialize(chain, f, want, Intact(p, want))
      BY <1>1, <2>1 DEF Outcomes
    <3>2. Intact(p, want) /\ ~(want < f.size) /\ ~(want > f.size /\ chain.rejectTrailing)
      BY <3>1 DEF Deserialize
    <3>3. want = f.size
      <4>1. CASE setup.verifier = "mac"
        BY <3>1, <4>1 DEF Verified
      <4>2. CASE setup.verifier # "mac"
        <5>1. chain.rejectTrailing
          BY <1>5, <2>1, <4>2 DEF LengthChecked
        <5>2. QED
          BY <1>2, <3>2, <5>1
      <4>3. QED
        BY <4>1, <4>2
    <3>4. p.sent - 8 >= f.size
      <4>1. (IF want < p.frame.size THEN want ELSE p.frame.size) = f.size
        BY <1>2, <3>3
      <4>2. QED
        BY <2>1, <3>2, <4>1 DEF Intact
    <3>5. p.sent = FullLen(f)
      BY <1>2, <1>3, <2>1, <3>4
    <3>6. QED
      BY <1>3, <2>1, <3>3, <3>5
  <2>2. CASE ~framed
    <3>1. chain.encrypted
      BY <1>5, <2>2 DEF Authentic
    <3>2. p.header = Header(chain, f) /\ "value" \in Deserialize(chain, f, f.size, Intact(p, f.size))
      BY <1>1, <2>2, <3>1 DEF Outcomes, DeserializeAltered
    <3>3. Intact(p, f.size)
      BY <3>2 DEF Deserialize
    <3>4. p.sent >= f.size
      <4>1. (IF f.size < p.frame.size THEN f.size ELSE p.frame.size) = f.size
        BY <1>2
      <4>2. QED
        BY <2>2, <3>3, <4>1 DEF Intact
    <3>5. p.sent = FullLen(f)
      BY <1>2, <1>3, <2>2, <3>4
    <3>6. HeaderLen(chain) + want = f.size
      BY <1>2, <2>2, <3>2, HeaderOfFrame
    <3>7. QED
      BY <1>3, <2>2, <3>5, <3>6
  <2>3. QED
    BY <2>1, <2>2
<1>6. QED
  BY <1>4, <1>5 DEF InSync

(* the body is read, verified and decoded *)
LEMMA ReadBodyInv ==
  ASSUME SessionInv, ReadBody
  PROVE  SessionInv'
<1>1. /\ PrefixLen \in Nat /\ want \in Nat /\ pos \in Nat /\ StreamLen \in Nat
      /\ pos <= StreamLen /\ faults \in Nat
  BY NeededNat
<1>2. /\ reader = "body" /\ reader' = "idle" /\ pos' = pos + want /\ current' = 0 /\ want' = 0
      /\ Available >= want /\ UNCHANGED <<setup, sendVars, allocated, faults>>
  BY DEF ReadBody, BodyLen
<1>3. pos' \in Nat /\ pos <= pos' /\ pos' <= StreamLen
  BY <1>1, <1>2 DEF Available
<1>4. PICK o \in Outcomes :
        /\ failed' = (failed \/ o = "error")
        /\ delivered' = CASE o = "error"   -> delivered
                          [] o = "garbled" -> Append(delivered, 0)
                          [] o = "value"   -> Append(delivered, pieces[current].id)
  BY DEF ReadBody
<1>5. /\ o \in {"error", "garbled", "value"}
      /\ o = "value" => current # 0
      /\ Authentic => o # "garbled"
      /\ faults = 0 /\ Admitted => o = "value"
  <2>1. faults = 0 /\ Admitted => Outcomes = {"value"}
    BY <1>2, FaultlessOutcome
  <2>2. QED
    BY <1>4, <2>1, OutcomeKinds
<1>6. failed \in BOOLEAN /\ setup \in Setups /\ allocated \in Nat /\ delivered \in Seq(Nat)
      /\ Len(delivered) \in Nat
  BY DEF SessionInv, ReaderOK
<1>7. CASE o = "error"
  <2>1. delivered' = delivered /\ failed' = TRUE
    BY <1>4, <1>7
  <2>2. Goes
    BY <1>1, <1>2, <1>3, <1>5, <1>7, <2>1 DEF Goes
  <2>3. QED
    BY <2>2, GoesKeeps
<1>8. CASE o # "error"
  <2> DEFINE n == Len(delivered)
  <2>1. failed' = failed
    BY <1>4, <1>6, <1>8
  <2>2. PICK d \in Nat : /\ delivered' = Append(delivered, d)
                         /\ o = "value" => d = pieces[current].id
    <3>1. CASE o = "garbled"
      BY <1>4, <3>1
    <3>2. CASE o = "value"
      <4>1. pieces[current].id \in Nat
        BY <1>2, <1>5, <3>2, BodyPiece DEF PieceOK
      <4>2. QED
        BY <1>4, <3>2, <4>1
    <3>3. QED
      BY <1>5, <1>8, <3>1, <3>2
  <2>3. /\ delivered' \in Seq(Nat) /\ Len(delivered') = n + 1
        /\ \A i \in 1..n : delivered'[i] = delivered[i]
        /\ delivered'[n + 1] = d
    BY <1>6, <2>2, AppendProperties
  <2>4. /\ setup' = setup /\ pieces' = pieces /\ writer' = writer
        /\ chain' = chain /\ framed' = framed /\ PrefixLen' = PrefixLen
        /\ \A f : FullLen(f)' = FullLen(f)
        /\ (Authentic' <=> Authentic) /\ (LengthChecked' <=> LengthChecked)
        /\ (Admitted' <=> Admitted)
        /\ StreamLen' = StreamLen
        /\ StreamOK'
        /\ \A k \in 1..Len(pieces) : Pristine(k)' <=> Pristine(k)
    BY <1>2, StreamStays
  <2>5. /\ Chained(pieces) /\ Len(pieces) \in Nat
        /\ \A k \in 1..Len(pieces) : pieces[k].at \in Nat /\ pieces[k].sent \in Nat
                                     /\ pieces[k].id \in Nat /\ pieces[k].sent > 0
    BY PieceTypes DEF SessionInv, StreamOK, Chained
  <2> HIDE DEF n
  <2>6. n \in Nat /\ \A i \in 1..(n + 1) : i \in 1..n \/ i = n + 1
    BY <1>6 DEF n
  <2>7. ReaderOK'
    BY <1>1, <1>2, <1>3, <1>6, <2>1, <2>3, <2>4 DEF ReaderOK, Readers
  <2>8. o = "value" => /\ current \in 1..Len(pieces) /\ d = pieces[current].id
                       /\ pos = pieces[current].at + PrefixLen
    BY <1>2, <1>5, <2>2, BodyPiece
  <2>9. OrderOK'
    <3> SUFFICES ASSUME Authentic
                 PROVE  /\ \A c \in 1..(n + 1) : \E k \in 1..Len(pieces) :
                             pieces[k].id = delivered'[c] /\ Passed(k)'
                        /\ \A b, c \in 1..(n + 1) : b < c => delivered'[b] < delivered'[c]
      BY <2>3, <2>4 DEF OrderOK
    <3>1. /\ o = "value" /\ current \in 1..Len(pieces) /\ d = pieces[current].id
          /\ pos = pieces[current].at + PrefixLen /\ current # 0
          /\ PrefixLen > 0
      BY <1>5, <1>8, <2>8, NeededNat
    <3> PICK j \in 1..Len(pieces) : j = current
      BY <3>1
    <3>j. /\ d = pieces[j].id /\ pos = pieces[j].at + PrefixLen
          /\ pieces[j].at \in Nat /\ pieces[j].sent \in Nat /\ pieces[j].sent > 0
      BY <2>5, <3>1
    <3>2. /\ \A c \in 1..n : \E k \in 1..Len(pieces) :
               pieces[k].id = delivered[c] /\ Passed(k)
          /\ \A b, c \in 1..n : b < c => delivered[b] < delivered[c]
      BY DEF SessionInv, OrderOK, n
    <3>3. ASSUME NEW k \in 1..Len(pieces), Passed(k)
          PROVE  Passed(k)' /\ pieces[k].at < pieces[current].at
      <4>1. pieces[k].at < pos /\ pieces[k].at < pieces[current].at
        BY <1>2, <3>1, <3>3 DEF Passed
      <4>2. pieces[k].at < pos'
        BY <1>1, <1>3, <2>5, <4>1
      <4>3. QED
        BY <1>2, <2>4, <4>1, <4>2 DEF Passed
    <3>5. ASSUME NEW c \in 1..n PROVE delivered[c] < d
      <4>1. PICK k \in 1..Len(pieces) : pieces[k].id = delivered[c] /\ Passed(k)
        BY <3>2
      <4>2. pieces[k].at < pieces[j].at
        BY <3>3, <4>1
      <4>3. k < j
        <5>1. ~(j < k)
          <6> SUFFICES ASSUME j < k PROVE FALSE
            OBVIOUS
          <6>1. pieces[j].at + pieces[j].sent <= pieces[k].at
            BY <2>5 DEF Chained
          <6>2. pieces[k].at \in Nat
            BY <2>5
          <6>3. \A x, y, z \in Nat : y > 0 /\ x + y <= z => ~(z < x)
            OBVIOUS
          <6>4. QED
            BY <3>j, <4>2, <6>1, <6>2, <6>3
        <5>2. k # j
          <6>1. pieces[k].at \in Nat
            BY <2>5
          <6>2. QED
            BY <4>2, <6>1
        <5>3. QED
          BY <2>5, <5>1, <5>2
      <4>4. pieces[k].id < pieces[j].id
        BY <2>5, <4>3 DEF Chained
      <4>5. QED
        BY <3>j, <4>1, <4>4
    <3>6. ASSUME NEW c \in 1..(n + 1)
          PROVE  \E k \in 1..Len(pieces) : pieces[k].id = delivered'[c] /\ Passed(k)'
      <4>1. CASE c \in 1..n
        BY <2>3, <3>2, <3>3, <4>1
      <4>2. CASE c = n + 1
        <5>1. pieces[j].at < pos'
          <6>1. \A x, y, z \in Nat : y > 0 /\ x + y <= z => x < z
            OBVIOUS
          <6>2. QED
            BY <1>1, <1>3, <3>1, <3>j, <6>1
        <5>2. Passed(j)'
          BY <1>2, <2>4, <5>1 DEF Passed
        <5>3. QED
          BY <2>3, <3>j, <4>2, <5>2
      <4>3. QED
        BY <2>6, <4>1, <4>2
    <3>7. ASSUME NEW b \in 1..(n + 1), NEW c \in 1..(n + 1), b < c
          PROVE  delivered'[b] < delivered'[c]
      <4>1. b \in 1..n /\ (c \in 1..n \/ c = n + 1)
        BY <2>6, <3>7
      <4>2. QED
        BY <2>3, <3>2, <3>5, <3>7, <4>1
    <3>8. QED
      BY <3>6, <3>7
  <2>10. StepOK'
    <3> SUFFICES ASSUME InSync' PROVE Aligned(pos)'
      BY <1>2 DEF StepOK
    <3>1. InSync /\ o = "value"
      BY <1>2, <1>5, <1>8, <2>1, <2>4 DEF InSync
    <3>2. /\ current # 0 /\ current \in 1..Len(pieces) /\ d = pieces[current].id
          /\ pos = pieces[current].at + PrefixLen
      BY <1>5, <2>8, <3>1
    <3>3. current = n + 1 /\ Aligned(pieces[current].at)
      BY <1>2, <3>1, <3>2 DEF SessionInv, StepOK, n
    <3>4. /\ PrefixLen + want = FullLen(pieces[current].frame)
          /\ pieces[current].sent = FullLen(pieces[current].frame)
      BY <1>2, <1>4, <3>1, BodyExact
    <3>5. pos' = pieces[n + 1].at + pieces[n + 1].sent
      <4> PICK j \in 1..Len(pieces) : j = current
        BY <3>2
      <4>1. pieces[j].at \in Nat /\ pieces[j].sent \in Nat
        BY <2>5
      <4>2. pos' = (pieces[j].at + PrefixLen) + want /\ PrefixLen + want = pieces[j].sent
        BY <1>2, <3>2, <3>4
      <4>3. \A x, y, z, w \in Nat : y + z = w => (x + y) + z = x + w
        OBVIOUS
      <4>4. pos' = pieces[j].at + pieces[j].sent
        BY <1>1, <4>1, <4>2, <4>3
      <4>5. QED
        BY <3>3, <4>4
    <3>6. ASSUME NEW i \in 1..(n + 1)
          PROVE  /\ delivered'[i] = pieces[i].id
                 /\ (pieces[i].sent = FullLen(pieces[i].frame))'
      <4>1. pieces[i].sent = FullLen(pieces[i].frame) /\ delivered'[i] = pieces[i].id
        <5>1. CASE i \in 1..n
          BY <2>3, <3>3, <5>1 DEF Aligned, n
        <5>2. CASE i = n + 1
          BY <2>3, <3>2, <3>3, <3>4, <5>2
        <5>3. QED
          BY <2>6, <5>1, <5>2
      <4>2. QED
        BY <2>4, <4>1 DEF FullLen
    <3>7. n + 1 <= Len(pieces) /\ n + 1 # 0
      BY <2>5, <2>6, <3>2, <3>3
    <3>8. QED
      BY <2>3, <2>4, <3>5, <3>6, <3>7 DEF Aligned
  <2>11. FaultlessOK'
    <3>1. /\ faults = 0 => \A k \in 1..Len(pieces) : Pristine(k)
          /\ faults = 0 /\ Admitted => ~failed
      BY DEF SessionInv, FaultlessOK
    <3>2. QED
      BY <1>2, <2>1, <2>4, <3>1 DEF FaultlessOK
  <2>12. AllocationBounded'
    BY <1>2, <2>4 DEF SessionInv, AllocationBounded
  <2>13. QED
    BY <2>4, <2>7, <2>9, <2>10, <2>11, <2>12 DEF SessionInv
<1>9. QED
  BY <1>7, <1>8

---------------------------------------------------------------------------
(* The specification *)

LEMMA SessionInit ==
  ASSUME Init
  PROVE  SessionInv
<1>1. /\ setup \in Setups /\ pieces = <<>> /\ writer = "idle" /\ sends = 0 /\ pos = 0
      /\ reader = (IF framed THEN "handshake" ELSE "idle")
      /\ current = 0 /\ want = 0 /\ delivered = <<>> /\ failed = FALSE
      /\ allocated = 0 /\ faults = 0
  BY DEF Init
<1>2. /\ Len(pieces) = 0 /\ Len(delivered) = 0 /\ StreamLen = 0
      /\ pieces \in Seq(PieceRec) /\ delivered \in Seq(Nat)
      /\ reader # "body"
  BY <1>1, EmptySeq DEF StreamLen
<1>3. StreamOK
  BY <1>1, <1>2 DEF StreamOK, Chained
<1>4. ReaderOK
  <2>1. failed \in BOOLEAN
    BY <1>1
  <2>2. reader \in Readers
    BY <1>1 DEF Readers
  <2>3. /\ pos \in Nat /\ pos <= StreamLen
        /\ current \in Nat /\ want \in Nat /\ allocated \in Nat /\ faults \in Nat
    BY <1>1, <1>2
  <2>4. QED
    BY <1>1, <1>2, <2>1, <2>2, <2>3 DEF ReaderOK
<1>5. OrderOK
  BY <1>2 DEF OrderOK
<1>6. Aligned(pos) /\ StepOK
  BY <1>1, <1>2 DEF StepOK, Aligned
<1>7. FaultlessOK
  BY <1>1, <1>2 DEF FaultlessOK
<1>8. AllocationBounded
  <2>1. \A l \in setup.max_frame_len : l \in Nat
    BY <1>1, Bounds
  <2>2. ~Exceeds(allocated, setup.max_frame_len)
    BY <1>1, <2>1 DEF Exceeds
  <2>3. allocated <= COMPRESSION_HEADER_LEN + RawBound(chain)
    BY <1>1, Bounds DEF COMPRESSION_HEADER_LEN
  <2>4. \A l \in PlaintextLimit(chain) : allocated <= ENCRYPTION_HEADER_LEN + l + TAG_LEN
    BY <1>1, Bounds DEF ENCRYPTION_HEADER_LEN, TAG_LEN
  <2>5. QED
    BY <2>2, <2>3, <2>4 DEF AllocationBounded
<1>9. QED
  BY <1>3, <1>4, <1>5, <1>6, <1>7, <1>8 DEF SessionInv

(* The inductive invariant: what is on the stream, where the reader is in   *)
(* it, and what it has delivered of it, after any sends, receives, faults   *)
(* and damage.                                                             *)
THEOREM SessionInvariant == Spec => []SessionInv
<1>1. Init => SessionInv
  BY SessionInit
<1>2. SessionInv /\ [Next]_svars => SessionInv'
  <2> SUFFICES ASSUME SessionInv, [Next]_svars PROVE SessionInv'
    OBVIOUS
  <2>1. CASE \E raw \in RawSizes, packed \in PackedSizes : Send(raw, packed)
    BY <2>1, SendStep, WriterKeeps
  <2>2. CASE SendPayload
    BY <2>2, SendPayloadStep, WriterKeeps
  <2>3. CASE EndStream \/ UNCHANGED svars
    BY <2>3, EndStep, WriterKeeps
  <2>4. CASE \E i \in DOMAIN pieces : Damage(i)
    BY <2>4, DamageStep, WriterKeeps
  <2>5. CASE Authenticate \/ ReadEnds \/ Close \/ \E k \in Cuts(Needed) : ReadFails(k)
    BY <2>5, LeavesInv
  <2>6. CASE ReadPrefix
    BY <2>6, ReadPrefixInv
  <2>7. CASE ReadBody
    BY <2>7, ReadBodyInv
  <2>8. QED
    BY <2>1, <2>2, <2>3, <2>4, <2>5, <2>6, <2>7 DEF Next
<1>3. QED
  BY <1>1, <1>2, PTL DEF Spec

(* No read reserves more than the limits of the receiver allow, whatever    *)
(* lengths it finds on the stream and wherever it stands in it: the checks  *)
(* in front of the allocation in recv_verified and deserialize_from.        *)
THEOREM SessionAllocation == Spec => []AllocationBounded
<1>1. SessionInv => AllocationBounded
  BY DEF SessionInv
<1>2. QED
  BY <1>1, SessionInvariant, PTL

(* A receiver that authenticates frames gets values that were sent, each at *)
(* most once and in order, however the stream was damaged, cut or misread.  *)
THEOREM SessionDelivers == Spec => []DeliveredInOrder
<1>1. SessionInv => DeliveredInOrder
  <2> SUFFICES ASSUME SessionInv, Authentic
               PROVE  /\ \A i \in DOMAIN delivered : delivered[i] \in 1..sends
                      /\ \A i, j \in DOMAIN delivered : i < j => delivered[i] < delivered[j]
    BY DEF DeliveredInOrder
  <2>1. DOMAIN delivered = 1..Len(delivered)
    BY DEF SessionInv, ReaderOK
  <2>2. /\ \A d \in 1..Len(delivered) :
             \E k \in 1..Len(pieces) : pieces[k].id = delivered[d] /\ Passed(k)
        /\ \A c, d \in 1..Len(delivered) : c < d => delivered[c] < delivered[d]
    BY DEF SessionInv, OrderOK
  <2>3. \A k \in 1..Len(pieces) : pieces[k].id \in 1..sends
    BY DEF SessionInv, StreamOK, PieceOK
  <2>4. ASSUME NEW i \in 1..Len(delivered) PROVE delivered[i] \in 1..sends
    <3>1. PICK k \in 1..Len(pieces) : pieces[k].id = delivered[i]
      BY <2>2
    <3>2. QED
      BY <2>3, <3>1
  <2>5. QED
    BY <2>1, <2>2, <2>4
<1>2. QED
  BY <1>1, SessionInvariant, PTL

(* A receiver that authenticates frames and lengths and has seen no error   *)
(* stands at a frame boundary and has the value of every frame before it:   *)
(* recv and deserialize_from consume one frame each and leave the next.     *)
THEOREM SessionInStep == Spec => []InStep
<1>1. SessionInv => InStep
  <2> DEFINE n == Len(delivered)
  <2> SUFFICES ASSUME SessionInv, Authentic, LengthChecked, ~failed, reader = "idle"
               PROVE  /\ delivered = [i \in 1..n |-> pieces[i].id]
                      /\ pos = IF n = 0 THEN 0 ELSE pieces[n].at + FullLen(pieces[n].frame)
    BY DEF InStep
  <2>1. Aligned(pos)
    BY DEF SessionInv, StepOK, InSync
  <2>2. delivered \in Seq(Nat) /\ n \in Nat
    BY DEF SessionInv, ReaderOK
  <2>3. delivered = [i \in 1..n |-> delivered[i]]
    BY <2>2
  <2>4. delivered = [i \in 1..n |-> pieces[i].id]
    BY <2>1, <2>3 DEF Aligned
  <2>5. n # 0 => n \in 1..n
    BY <2>2
  <2>6. QED
    BY <2>1, <2>4, <2>5 DEF Aligned
<1>2. QED
  BY <1>1, SessionInvariant, PTL

(* A chain whose plaintext limit is derived refuses nothing that its core   *)
(* configuration accepts, but for a value beyond the default raw limit.     *)
LEMMA ChainRefuses ==
  ASSUME setup \in Setups, NEW raw \in Nat, NEW packed \in Nat,
         Refused(chain, FrameOf(chain, raw, packed))
  PROVE  Exceeds(raw, chain.limit) \/ chain.plaintext_limit # {} \/ raw > RawBound(chain)
<1> DEFINE s == Stored(chain, raw, packed)
           p == IF chain.compressed THEN COMPRESSION_HEADER_LEN + s ELSE raw
<1>1. s \in Nat /\ s <= raw
  BY SetupTypes DEF Stored
<1> HIDE DEF s
<1>2. /\ FrameOf(chain, raw, packed).raw = raw
      /\ FrameOf(chain, raw, packed).plain = p
  BY DEF FrameOf, s
<1> SUFFICES ASSUME chain.encrypted, Exceeds(p, PlaintextLimit(chain)),
                    chain.plaintext_limit = {}
             PROVE  Exceeds(raw, chain.limit) \/ raw > RawBound(chain)
  BY <1>2 DEF Refused
<1>3. CASE chain.compressed
  <2>1. p = 24 + s /\ PlaintextLimit(chain) = {RawBound(chain) + 24}
    BY <1>3 DEF PlaintextLimit, COMPRESSION_HEADER_LEN
  <2>2. 24 + s > RawBound(chain) + 24
    BY <2>1 DEF Exceeds
  <2>3. QED
    BY <1>1, <2>2, Bounds
<1>4. CASE ~chain.compressed
  BY <1>4 DEF PlaintextLimit
<1>5. QED
  BY <1>3, <1>4

(* The limits of the layers fit together: the chain refuses nothing its     *)
(* core configuration accepts unless told to, and without faults nothing    *)
(* that was sent, and is within the limits of the receiver, is refused.     *)
THEOREM SessionLimits == Spec => []LimitsCompose
<1>1. SessionInv => LimitsCompose
  <2> SUFFICES ASSUME SessionInv PROVE LimitsCompose
    OBVIOUS
  <2>1. setup \in Setups
    BY DEF SessionInv, ReaderOK
  <2>2. faults = 0 /\ Admitted => ~failed
    BY DEF SessionInv, FaultlessOK
  <2>3. ASSUME NEW raw \in RawSizes, NEW packed \in PackedSizes,
               Refused(chain, FrameOf(chain, raw, packed))
        PROVE  Exceeds(raw, chain.limit) \/ chain.plaintext_limit # {}
               \/ raw > RawBound(chain)
    <3>1. raw \in Nat /\ packed \in Nat
      BY SizesAssumption
    <3>2. QED
      BY <2>1, <2>3, <3>1, ChainRefuses
  <2>4. QED
    BY <2>2, <2>3 DEF LimitsCompose
<1>2. QED
  BY <1>1, SessionInvariant, PTL
============================================================================
