------------------------------ MODULE Session ------------------------------
(***************************************************************************)
(* Frames on a byte stream.  In mode "session" the two ends are             *)
(* Session::send and Session::recv of trust.rs: an eight-byte length, then  *)
(* a frame of the codec, verified before it is decoded.  In mode "stream"   *)
(* frames of a transform chain follow each other and are read with          *)
(* deserialize_from(&mut reader).                                          *)
(* The sender's session is past its own handshake.                          *)
(*                                                                         *)
(* Writer, reader and transport interleave.  A write or a read may fail     *)
(* after some of its bytes and be called again, the connection may drop,    *)
(* and a frame may be damaged on the way.  The reader is synchronised by    *)
(* nothing but its position, so the model tracks which bytes it is at.      *)
(***************************************************************************)
EXTENDS Envelope, FiniteSets, SequencesExt

CONSTANTS
  Setups,      (* [chain, mode, verifier, max_frame_len]: how both ends are set up *)
  RawSizes,    (* encoded lengths of the values that may be sent            *)
  PackedSizes, (* what lz::compress may make of one                         *)
  Misread,     (* lengths that bytes which are no length may spell          *)
  MaxSends,    (* bound: calls of send                                      *)
  MaxFaults    (* bound: failed reads and writes, damages                   *)

ASSUME SetupsAssumption ==
  Setups \subseteq [chain : Chain, mode : {"session", "stream"},
                    verifier : {"mac", "channel"}, max_frame_len : Limit]
ASSUME StreamsAreFramed ==
  \A s \in Setups : s.mode = "stream" => s.chain.compressed \/ s.chain.encrypted
ASSUME SizesAssumption ==
  RawSizes \subseteq Nat /\ PackedSizes \subseteq Nat /\ Misread \subseteq Nat
ASSUME SessionBoundsAssumption == MaxSends \in Nat /\ MaxFaults \in Nat

VARIABLES
  setup,
  pieces,      (* what each send put on the stream, perhaps cut off         *)
  writer,      (* "idle", or "payload": the length is written               *)
  ended,       (* no more bytes will come                                   *)
  sends,       (* calls of send so far                                      *)
  pos,         (* how far the reader has read                               *)
  reader,      (* "handshake", "idle", "body", "eof" or "closed"            *)
  current,     (* in the body: index of the piece whose header it read, or 0 *)
  want,        (* in the body: the bytes still to read                      *)
  delivered,   (* ids of the values received, 0 for a value nobody sent     *)
  failed,      (* a recv has failed                                         *)
  allocated,   (* the largest buffer a read has reserved                    *)
  faults

sendVars == <<pieces, writer, sends>>
recvVars == <<pos, reader, current, want, delivered, failed, allocated>>
svars    == <<setup, sendVars, ended, recvVars, faults>>

chain   == setup.chain
framed  == setup.mode = "session"

(* the bytes that are read first: the length, or the outermost header *)
PrefixLen == IF framed THEN 8 ELSE HeaderLen(chain)
FullLen(f) == IF framed THEN 8 + f.size ELSE f.size

StreamLen == IF pieces = <<>> THEN 0 ELSE Last(pieces).at + Last(pieces).sent
Available == StreamLen - pos

(* bound: where a failing read or write of n bytes stops *)
Cuts(n) == {0, n \div 2, n - 1} \intersect 0..(n - 1)

Fault == faults < MaxFaults /\ faults' = faults + 1

---------------------------------------------------------------------------
(* Sending *)

Put(f, sent) ==
  pieces' = IF sent = 0 THEN pieces
            ELSE Append(pieces, [at |-> StreamLen, sent |-> sent, frame |-> f,
                                 id |-> sends + 1, damaged |-> FALSE,
                                 header |-> Header(chain, f), length |-> f.size])

(* A value that encodes to raw bytes, which LZ77 makes packed.  Of a value  *)
(* that serialize refuses nothing is written; otherwise the first write_all *)
(* has the length, or in a stream the whole frame.                          *)
Send(raw, packed) ==
  LET f == FrameOf(chain, raw, packed)
      n == IF framed THEN 8 ELSE f.size
  IN  /\ writer = "idle" /\ ~ended
      /\ sends < MaxSends
      /\ ~Refused(chain, f)
      /\ sends' = sends + 1
      /\ \/ Put(f, n) /\ writer' = (IF framed THEN "payload" ELSE "idle")
            /\ UNCHANGED faults
         \/ Fault /\ (\E k \in Cuts(n) : Put(f, k)) /\ UNCHANGED writer
      /\ UNCHANGED <<setup, ended, recvVars>>

(* the second write_all *)
SendPayload ==
  LET f == Last(pieces).frame
      grow(n) == pieces' = [pieces EXCEPT ![Len(pieces)].sent = 8 + n]
  IN  /\ writer = "payload" /\ ~ended
      /\ \/ grow(f.size) /\ UNCHANGED faults
         \/ Fault /\ \E k \in Cuts(f.size) : grow(k)
      /\ writer' = "idle"
      /\ UNCHANGED <<setup, ended, recvVars, sends>>

---------------------------------------------------------------------------
(* The transport *)

EndStream ==
  /\ ~ended
  /\ ended' = TRUE
  /\ UNCHANGED <<setup, sendVars, recvVars, faults>>

(* a piece that has not been read is damaged: its body, its outermost       *)
(* header or its length                                                     *)
Damage(i) ==
  /\ Fault
  /\ \/ pieces[i].at + PrefixLen >= pos
        /\ pieces' = [pieces EXCEPT ![i].damaged = TRUE]
     \/ framed /\ pieces[i].at >= pos
        /\ \E n \in Misread : pieces' = [pieces EXCEPT ![i].length = n]
     \/ ~framed /\ pieces[i].at >= pos
        /\ \E n \in Misread, field \in {"before", "after"} :
             pieces' = [pieces EXCEPT ![i].header[field] = n]
  /\ UNCHANGED <<setup, ended, writer, sends, recvVars>>

---------------------------------------------------------------------------
(* Receiving *)

(* Session::authenticate: before it there is no recv *)
Authenticate ==
  /\ reader = "handshake"
  /\ reader' = "idle"
  /\ UNCHANGED <<setup, sendVars, ended, pos, current, want, delivered, failed,
                 allocated, faults>>

Fail == failed' = TRUE /\ reader' = "idle" /\ UNCHANGED <<current, want, allocated>>

(* the checks that precede the allocation of a body of n bytes passed *)
Reserve(i, n) ==
  LET buffer == IF framed THEN n ELSE HeaderLen(chain) + n
  IN  /\ reader' = "body"
      /\ current' = i
      /\ want' = n
      /\ allocated' = IF buffer > allocated THEN buffer ELSE allocated
      /\ UNCHANGED failed

(* recv_verified against max_frame_len *)
TakeLength(i, n) == IF Exceeds(n, setup.max_frame_len) THEN Fail ELSE Reserve(i, n)

TakeHeader(i) ==
  LET h == pieces[i].header
  IN  IF HeaderOk(chain, h) THEN Reserve(i, h.after) ELSE Fail

AtPiece(i) == pieces[i].at = pos /\ pieces[i].sent >= PrefixLen

ReadPrefix ==
  /\ reader = "idle"
  /\ Available >= PrefixLen
  /\ pos' = pos + PrefixLen
  /\ \/ \E i \in DOMAIN pieces : AtPiece(i) /\
          IF framed THEN TakeLength(i, pieces[i].length) ELSE TakeHeader(i)
     \/ /\ ~\E i \in DOMAIN pieces : AtPiece(i)
        /\ IF framed THEN \E n \in Misread : TakeLength(0, n) ELSE Fail
  /\ UNCHANGED <<setup, sendVars, ended, delivered, faults>>

(* the first `have` bytes of the piece's frame arrived as they were sent *)
Intact(p, have) ==
  LET reach == IF have < p.frame.size THEN have ELSE p.frame.size
  IN  ~p.damaged /\ (IF framed THEN p.sent - 8 ELSE p.sent) >= reach

(* Mutant: the verifier is only asked whether the length is right *)
Verified_LengthOnly(p) == setup.verifier = "channel" \/ want = p.frame.size

(* Verifier::check: a channel verifier trusts the transport, a MAC knows the frame *)
Verified(p) ==
  setup.verifier = "channel" \/ (want = p.frame.size /\ Intact(p, want))

Outcomes ==
  LET p == pieces[current]
  IN  IF current = 0
      THEN IF setup.verifier = "mac" THEN {"error"} ELSE DeserializeOther(chain)
      ELSE IF framed
      THEN IF Verified(p) THEN Deserialize(chain, p.frame, want, Intact(p, want))
                          ELSE {"error"}
      ELSE IF p.header # Header(chain, p.frame) THEN DeserializeAltered(chain)
      ELSE Deserialize(chain, p.frame, p.frame.size, Intact(p, p.frame.size))

(* Mutant: the stream reader counts the header twice *)
BodyLen_WithHeader == IF framed THEN want ELSE HeaderLen(chain) + want

(* bytes taken from the reader for the body *)
BodyLen == want

ReadBody ==
  /\ reader = "body"
  /\ Available >= BodyLen
  /\ pos' = pos + BodyLen
  /\ reader' = "idle"
  /\ \E o \in Outcomes :
       /\ failed' = (failed \/ o = "error")
       /\ delivered' = CASE o = "error"   -> delivered
                         [] o = "garbled" -> Append(delivered, 0)
                         [] o = "value"   -> Append(delivered, pieces[current].id)
  /\ current' = 0
  /\ want' = 0
  /\ UNCHANGED <<setup, sendVars, ended, allocated, faults>>

Needed == IF reader = "idle" THEN PrefixLen ELSE BodyLen

(* the stream ends in front of, or within, what is to be read *)
ReadEnds ==
  /\ reader \in {"idle", "body"}
  /\ ended
  /\ Available < Needed
  /\ pos' = StreamLen
  /\ reader' = "eof"
  /\ UNCHANGED <<setup, sendVars, ended, current, want, delivered, failed,
                 allocated, faults>>

(* the read reports an error after k bytes, which are lost *)
ReadFails(k) ==
  /\ reader \in {"idle", "body"}
  /\ k \in Cuts(Needed) /\ k <= Available
  /\ Fault
  /\ pos' = pos + k
  /\ failed' = TRUE
  /\ reader' = "idle"
  /\ current' = 0
  /\ want' = 0
  /\ UNCHANGED <<setup, sendVars, ended, delivered, allocated>>

Close ==
  /\ framed
  /\ reader = "idle"
  /\ reader' = "closed"
  /\ UNCHANGED <<setup, sendVars, ended, pos, current, want, delivered, failed,
                 allocated, faults>>

---------------------------------------------------------------------------
Init ==
  /\ setup \in Setups
  /\ pieces = <<>>
  /\ writer = "idle"
  /\ ended = FALSE
  /\ sends = 0
  /\ pos = 0
  /\ reader = IF framed THEN "handshake" ELSE "idle"
  /\ current = 0
  /\ want = 0
  /\ delivered = <<>>
  /\ failed = FALSE
  /\ allocated = 0
  /\ faults = 0

Next ==
  \/ \E raw \in RawSizes, packed \in PackedSizes : Send(raw, packed)
  \/ SendPayload
  \/ EndStream
  \/ \E i \in DOMAIN pieces : Damage(i)
  \/ Authenticate \/ ReadPrefix \/ ReadBody \/ ReadEnds \/ Close
  \/ \E k \in Cuts(Needed) : ReadFails(k)

Spec == Init /\ [][Next]_svars

---------------------------------------------------------------------------
(* Properties *)

(* every frame is authenticated, by the verifier or by the codec *)
Authentic == chain.encrypted \/ (framed /\ setup.verifier = "mac")

(***************************************************************************)
(* Whatever happens to the stream, a receiver that authenticates frames     *)
(* gets values that were sent, each at most once and in order, also after   *)
(* it has lost its place and reads lengths in the middle of a frame.        *)
(***************************************************************************)
DeliveredInOrder ==
  Authentic =>
    /\ \A i \in DOMAIN delivered : delivered[i] \in 1..sends
    /\ \A i, j \in DOMAIN delivered : i < j => delivered[i] < delivered[j]

(* The length in front of a session frame is authenticated by a MAC         *)
(* verifier only.  With a channel verifier and trailing bytes allowed, an   *)
(* encrypted frame is accepted together with bytes of the next one.         *)
LengthChecked == framed => setup.verifier = "mac" \/ chain.rejectTrailing

(***************************************************************************)
(* Nothing is lost silently: a receiver that authenticates frames and their *)
(* lengths and has seen no error stands at a frame boundary and has every   *)
(* frame before it.  For a stream: deserialize_from consumes one frame and  *)
(* leaves the next.                                                         *)
(***************************************************************************)
InStep ==
  Authentic /\ LengthChecked /\ ~failed /\ reader = "idle" =>
    LET n == Len(delivered)
    IN  /\ delivered = [i \in 1..n |-> pieces[i].id]
        /\ pos = IF n = 0 THEN 0 ELSE pieces[n].at + FullLen(pieces[n].frame)

(* max_frame_len and DEFAULT_SIZE_LIMIT admit what was sent *)
Admitted ==
  \A i \in DOMAIN pieces :
    /\ framed => ~Exceeds(pieces[i].frame.size, setup.max_frame_len)
    /\ chain.compressed => pieces[i].frame.raw <= RawBound(chain)

(***************************************************************************)
(* The limits of the layers fit together: a chain refuses no value that its *)
(* core configuration accepts (unless told to by with_plaintext_limit), and *)
(* without faults every frame that was sent is received.                    *)
(***************************************************************************)
LimitsCompose ==
  /\ \A raw \in RawSizes, packed \in PackedSizes :
       Refused(chain, FrameOf(chain, raw, packed)) =>
         \/ Exceeds(raw, chain.limit)
         \/ chain.plaintext_limit # {}
         \/ raw > RawBound(chain)
  /\ faults = 0 /\ Admitted => ~failed

(***************************************************************************)
(* "validate header length relationships and configured limits before       *)
(* allocating the body": whatever the header says, and wherever the reader  *)
(* stands, no read reserves more than the limits of the receiver allow.     *)
(***************************************************************************)
AllocationBounded ==
  IF framed THEN ~Exceeds(allocated, setup.max_frame_len)
  ELSE IF ~chain.encrypted
  THEN allocated <= COMPRESSION_HEADER_LEN + RawBound(chain)
  ELSE \A l \in PlaintextLimit(chain) :
         allocated <= ENCRYPTION_HEADER_LEN + l + TAG_LEN
============================================================================
