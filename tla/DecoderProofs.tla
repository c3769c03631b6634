--------------------------- MODULE DecoderProofs ---------------------------
(***************************************************************************)
(* Invariance proofs for module Decoder: for every set of inputs and        *)
(* configurations, every MAX_DEPTH and any number of nested untagged        *)
(* attempts.                                                               *)
(***************************************************************************)
EXTENDS Decoder, SequenceTheorems, TLAPS

---------------------------------------------------------------------------
(***************************************************************************)
(* The readers of module Wire, for every configuration and every input: a   *)
(* read never moves the cursor back nor past the input, and what it returns *)
(* has the type its callers rely on.                                        *)
(***************************************************************************)

(* Bytes are numbers.                                                       *)
LEMMA ByteType ==
  ASSUME NEW b \in Byte
  PROVE  b \in 0..255 /\ b \in Int
BY DEF Byte

LEMMA Complement ==
  ASSUME NEW b \in 0..255
  PROVE  b \in Nat /\ 255 - b \in 0..255
OBVIOUS

LEMMA BytesAreNumbers ==
  ASSUME NEW p \in Seq(Byte)
  PROVE  Len(p) \in Nat /\ \A i \in 1..Len(p) : p[i] \in Byte /\ p[i] \in 0..255
<1>1. ASSUME NEW i \in 1..Len(p)
      PROVE  p[i] \in Byte /\ p[i] \in 0..255
  <2>1. p[i] \in Byte
    BY ElementOfSeq
  <2> QED BY <2>1, ByteType
<1>2. Len(p) \in Nat
  OBVIOUS
<1> QED BY <1>1, <1>2

(* Decoder::take returns n bytes and advances by n, or fails in place.      *)
LEMMA TakeType ==
  ASSUME NEW cfg, NEW inp \in Seq(Byte), NEW cur \in 0..Len(inp),
         NEW n \in Nat
  PROVE  LET r == Take(cfg, inp, cur, n)
         IN  /\ r.cursor \in cur..Len(inp)
             /\ r.error \in ErrorOrNone
             /\ r.val \in Seq(Byte)
             /\ r.error = None => Len(r.val) = n /\ r.cursor = cur + n
<1> DEFINE r == Take(cfg, inp, cur, n)
           read == SubSeq(inp, cur + 1, cur + n)
<1>1. \/ r = Res(cur, "SizeLimit", <<>>)
      \/ r = Res(cur, "UnexpectedEnd", <<>>)
      \/ cur + n <= Len(inp) /\ r = Res(cur + n, None, read)
  <2> HIDE DEF read
  <2> QED BY DEF Take, read
<1>2. cur + n <= Len(inp) => read \in Seq(Byte) /\ Len(read) = n
  OBVIOUS
<1> HIDE DEF r, read
<1>3. CASE r.error # None
  <2>1. r = Res(cur, "SizeLimit", <<>>) \/ r = Res(cur, "UnexpectedEnd", <<>>)
    BY <1>1, <1>3 DEF Res
  <2>2. r.cursor = cur /\ r.error \in ErrorOrNone /\ r.val = <<>>
    BY <2>1 DEF Res, ErrorOrNone
  <2>3. cur \in cur..Len(inp) /\ <<>> \in Seq(Byte)
    OBVIOUS
  <2> QED BY <1>3, <2>2, <2>3 DEF r
<1>4. CASE r.error = None
  <2>1. cur + n <= Len(inp) /\ r = Res(cur + n, None, read)
    BY <1>1, <1>4 DEF Res, None
  <2>2. r.cursor = cur + n /\ r.val = read /\ cur + n \in cur..Len(inp)
    BY <2>1 DEF Res
  <2> QED BY <1>2, <1>4, <2>1, <2>2 DEF ErrorOrNone, r
<1> QED BY <1>3, <1>4

(* Reversing a big-endian payload keeps its length and its bytes.           *)
LEMMA LittleEndianType ==
  ASSUME NEW cfg, NEW p \in Seq(Byte)
  PROVE  /\ LittleEndian(cfg, p) \in Seq(Byte)
         /\ Len(LittleEndian(cfg, p)) = Len(p)
<1> DEFINE q == [i \in 1..Len(p) |-> p[Len(p) + 1 - i]]
<1>1. \A i \in 1..Len(p) : p[Len(p) + 1 - i] \in Byte
  OBVIOUS
<1>2. q \in Seq(Byte) /\ Len(q) = Len(p)
  BY <1>1
<1> QED BY <1>2 DEF LittleEndian

(* The value of a payload is a natural number ...                           *)
LEMMA UValueType ==
  ASSUME NEW p, Len(p) \in Nat, \A i \in 1..Len(p) : p[i] \in 0..255
  PROVE  UValue(p) \in Nat
<1> DEFINE digit(i) == IF i <= Len(p) THEN p[i] ELSE 0
<1>1. ASSUME NEW i \in 1..3
      PROVE  digit(i) \in Nat
  <2>1. CASE i <= Len(p)
    <3>1. i \in 1..Len(p)
      BY <2>1
    <3>2. p[i] \in 0..255
      BY <3>1
    <3>3. p[i] \in Nat
      BY <3>2, Complement
    <3> QED BY <2>1, <3>3
  <2>2. CASE ~(i <= Len(p))
    BY <2>2
  <2> QED BY <2>1, <2>2
<1>2. digit(1) \in Nat /\ digit(2) \in Nat /\ digit(3) \in Nat
  <2> HIDE DEF digit
  <2> QED BY <1>1
<1>3. digit(1) + 256 * digit(2) + 65536 * digit(3) \in Nat
  <2> HIDE DEF digit
  <2> QED BY <1>2
<1> QED BY <1>3 DEF UValue, Saturated

(* ... and of a two's-complement payload an integer.                        *)
LEMMA SValueType ==
  ASSUME NEW p \in Seq(Byte)
  PROVE  SValue(p) \in Int
<1> DEFINE c == [i \in 1..Len(p) |-> 255 - p[i]]
<1>1. Len(p) \in Nat /\ \A i \in 1..Len(p) : p[i] \in 0..255
  BY BytesAreNumbers
<1>2. Len(c) \in Nat /\ \A i \in 1..Len(c) : c[i] \in 0..255
  <2>1. Len(c) = Len(p)
    BY <1>1
  <2>2. ASSUME NEW i \in 1..Len(p)
        PROVE  c[i] \in 0..255
    <3>1. p[i] \in 0..255
      BY <1>1
    <3>2. 255 - p[i] \in 0..255
      BY <3>1, Complement
    <3> QED BY <3>2
  <2> HIDE DEF c
  <2> QED BY <1>1, <2>1, <2>2
<1>3. UValue(c) \in Nat /\ UValue(p) \in Nat
  <2> HIDE DEF c
  <2> QED BY <1>1, <1>2, UValueType
<1>4. SValue(p) = -1 - UValue(c) \/ SValue(p) = UValue(p)
  BY DEF SValue
<1> HIDE DEF c
<1> QED BY <1>3, <1>4

(* zigzag decoding stays in the integers.                                   *)
LEMMA ZigzagType ==
  ASSUME NEW n \in Nat
  PROVE  zigzag_decode(n) \in Int
BY DEF zigzag_decode
(* A later position in the input is a position in the input.                *)
LEMMA Positions ==
  ASSUME NEW n \in Nat, NEW cur \in 0..n, NEW mid \in cur..n, NEW end \in mid..n
  PROVE  mid \in 0..n /\ end \in cur..n
OBVIOUS

(* Decoder::varint: a payload of 1, 2, 4, 8 or 16 bytes.                    *)
LEMMA VarintType ==
  ASSUME NEW cfg, NEW inp \in Seq(Byte), NEW cur \in 0..Len(inp)
  PROVE  LET r == Varint(cfg, inp, cur)
         IN  /\ r.cursor \in cur..Len(inp)
             /\ r.error \in ErrorOrNone
             /\ r.val \in Seq(Byte)
<1> DEFINE m == Take(cfg, inp, cur, 1)
           marker == m.val[1]
           p == Take(cfg, inp, m.cursor, PayloadLen(marker))
           payload == LittleEndian(cfg, p.val)
           r == Varint(cfg, inp, cur)
<1>1. /\ m.cursor \in cur..Len(inp) /\ m.error \in ErrorOrNone /\ m.val \in Seq(Byte)
      /\ m.error = None => Len(m.val) = 1
  BY TakeType
<1>2. Len(inp) \in Nat /\ cur \in cur..Len(inp)
  OBVIOUS
<1>3. CASE m.error # None \/ marker <= 250
  <2>1. r = m
    BY <1>3 DEF Varint
  <2> QED BY <1>1, <2>1
<1>4. CASE m.error = None /\ ~(marker <= 250) /\ marker = 255
  <2>1. r = Res(m.cursor, "InvalidVarintMarker", <<>>)
    BY <1>4 DEF Varint
  <2> HIDE DEF m, r
  <2>2. r.cursor = m.cursor /\ r.error \in ErrorOrNone /\ r.val = <<>>
    BY <2>1 DEF Res, ErrorOrNone
  <2> QED BY <1>1, <2>2 DEF r
<1>5. CASE m.error = None /\ ~(marker <= 250) /\ marker # 255
  <2>1. marker \in {251, 252, 253, 254}
    <3>1. marker \in Byte
      BY <1>1, <1>5, BytesAreNumbers
    <3> HIDE DEF m, marker
    <3> QED BY <1>5, <3>1 DEF Byte
  <2>2. PayloadLen(marker) \in Nat
    <3> HIDE DEF m, marker
    <3> QED BY <2>1 DEF PayloadLen, MARKER_U16, MARKER_U32, MARKER_U64, MARKER_U128
  <2>3. m.cursor \in 0..Len(inp)
    BY <1>1
  <2>4. p.cursor \in m.cursor..Len(inp) /\ p.error \in ErrorOrNone /\ p.val \in Seq(Byte)
    <3> HIDE DEF m, marker
    <3> QED BY <2>2, <2>3, TakeType
  <2>5. p.cursor \in cur..Len(inp)
    <3> HIDE DEF m, marker, p
    <3> QED BY <1>1, <1>2, <2>4, Positions
  <2>6. payload \in Seq(Byte)
    <3> HIDE DEF p
    <3> QED BY <2>4, LittleEndianType
  <2>7. \/ r = p
        \/ r = Res(p.cursor, None, payload)
        \/ r = Res(p.cursor, "NonCanonicalVarint", <<>>)
    BY <1>5 DEF Varint, Widened, Narrowest
  <2> HIDE DEF m, marker, p, payload, r
  <2>8. r.cursor = p.cursor
    BY <2>7 DEF Res
  <2>9. r.error \in ErrorOrNone
    BY <2>4, <2>7 DEF Res, ErrorOrNone
  <2>10. r.val \in Seq(Byte)
    <3>1. r.val = p.val \/ r.val = payload \/ r.val = <<>>
      BY <2>7 DEF Res
    <3>2. <<>> \in Seq(Byte)
      OBVIOUS
    <3> QED BY <2>4, <2>6, <3>1, <3>2
  <2> QED BY <2>5, <2>8, <2>9, <2>10 DEF r
<1> QED BY <1>3, <1>4, <1>5

(* Decoder::unsigned and Decoder::signed.                                   *)
LEMMA IntegerType ==
  ASSUME NEW cfg, NEW inp \in Seq(Byte), NEW cur \in 0..Len(inp),
         NEW width \in Nat, NEW signed \in BOOLEAN
  PROVE  LET r == Integer(cfg, inp, cur, width, signed)
         IN  /\ r.cursor \in cur..Len(inp)
             /\ r.error \in ErrorOrNone
             /\ r.val \in Int
             /\ ~signed => r.val \in Nat
<1> DEFINE v == Varint(cfg, inp, cur)
           f == Take(cfg, inp, cur, width)
           fixed == LittleEndian(cfg, f.val)
           r == Integer(cfg, inp, cur, width, signed)
<1>1. v.cursor \in cur..Len(inp) /\ v.error \in ErrorOrNone /\ v.val \in Seq(Byte)
  BY VarintType
<1>2. f.cursor \in cur..Len(inp) /\ f.error \in ErrorOrNone /\ f.val \in Seq(Byte)
  BY TakeType
<1>3. fixed \in Seq(Byte)
  <2> HIDE DEF f
  <2> QED BY <1>2, LittleEndianType
<1> HIDE DEF v, f, fixed
<1>4. UValue(v.val) \in Nat /\ UValue(fixed) \in Nat
  <2>1. /\ Len(v.val) \in Nat /\ \A i \in 1..Len(v.val) : v.val[i] \in 0..255
        /\ Len(fixed) \in Nat /\ \A i \in 1..Len(fixed) : fixed[i] \in 0..255
    BY <1>1, <1>3, BytesAreNumbers
  <2> QED BY <2>1, UValueType
<1>5. SValue(fixed) \in Int /\ zigzag_decode(UValue(v.val)) \in Int
  BY <1>3, <1>4, SValueType, ZigzagType
<1>6. \/ r = Res(v.cursor, v.error, 0)
      \/ r = Res(v.cursor, "IntegerOverflow", 0)
      \/ signed /\ r = Res(v.cursor, None, zigzag_decode(UValue(v.val)))
      \/ ~signed /\ r = Res(v.cursor, None, UValue(v.val))
      \/ r = Res(f.cursor, f.error, 0)
      \/ signed /\ r = Res(f.cursor, None, SValue(fixed))
      \/ ~signed /\ r = Res(f.cursor, None, UValue(fixed))
  BY DEF Integer, OfVarint, OfFixed, v, f, fixed
<1> HIDE DEF r
<1>7. r.cursor = v.cursor \/ r.cursor = f.cursor
  BY <1>6 DEF Res
<1>8. r.error \in ErrorOrNone
  BY <1>1, <1>2, <1>6 DEF Res, ErrorOrNone
<1>9. r.val \in Int /\ (~signed => r.val \in Nat)
  BY <1>4, <1>5, <1>6 DEF Res
<1> QED BY <1>1, <1>2, <1>7, <1>8, <1>9 DEF r

(* Decoder::read_string.                                                    *)
LEMMA ReadStringType ==
  ASSUME NEW cfg, NEW inp \in Seq(Byte), NEW cur \in 0..Len(inp)
  PROVE  LET r == ReadString(cfg, inp, cur)
         IN  /\ r.cursor \in cur..Len(inp)
             /\ r.error \in ErrorOrNone
             /\ r.val \in Seq(Byte)
<1> DEFINE n == Integer(cfg, inp, cur, 8, FALSE)
           s == Take(cfg, inp, n.cursor, n.val)
           r == ReadString(cfg, inp, cur)
<1>1. n.cursor \in cur..Len(inp) /\ n.error \in ErrorOrNone /\ n.val \in Nat
  BY IntegerType
<1>2. Len(inp) \in Nat /\ n.cursor \in 0..Len(inp)
  <2>1. Len(inp) \in Nat /\ cur \in cur..Len(inp)
    OBVIOUS
  <2> HIDE DEF n
  <2> QED BY <1>1, <2>1, Positions
<1>3. s.cursor \in n.cursor..Len(inp) /\ s.error \in ErrorOrNone /\ s.val \in Seq(Byte)
  <2> HIDE DEF n
  <2> QED BY <1>1, <1>2, TakeType
<1>4. \/ r = Res(n.cursor, n.error, <<>>)
      \/ r = s
      \/ r = Res(s.cursor, "InvalidUtf8", <<>>)
  BY DEF ReadString, StringOf, Text
<1> HIDE DEF n, s, r
<1>5. s.cursor \in cur..Len(inp)
  BY <1>1, <1>2, <1>3, Positions
<1>6. r.cursor = n.cursor \/ r.cursor = s.cursor
  BY <1>4 DEF Res
<1>7. r.error \in ErrorOrNone
  BY <1>1, <1>3, <1>4 DEF Res, ErrorOrNone
<1>8. r.val = <<>> \/ r.val = s.val
  BY <1>4 DEF Res
<1>9. <<>> \in Seq(Byte)
  OBVIOUS
<1> QED BY <1>1, <1>3, <1>5, <1>6, <1>7, <1>8, <1>9 DEF r
(* Decoder::read_token: whatever the bytes, the cursor stays inside the     *)
(* input and never moves back, and the token is well formed.                *)
THEOREM ReadTokenType ==
  ASSUME NEW cfg, NEW inp \in Seq(Byte), NEW cur \in 0..Len(inp)
  PROVE  LET r == ReadToken(cfg, inp, cur)
         IN  /\ r.cursor \in cur..Len(inp)
             /\ r.error \in ErrorOrNone
             /\ r.val \in Token
<1> DEFINE t == Take(cfg, inp, cur, 1)
           tag == t.val[1]
           n == Integer(cfg, inp, t.cursor, IntWidth(tag), tag \in {TAG_I64, TAG_I128})
           f == Take(cfg, inp, t.cursor, IF tag = TAG_F64 THEN 8 ELSE 4)
           s == ReadString(cfg, inp, t.cursor)
           r == ReadToken(cfg, inp, cur)
           fixed == {Tok("null", <<>>), Tok("bool", <<0>>), Tok("bool", <<1>>),
                     Tok("array", <<>>), Tok("object", <<>>)}
<1>1. /\ t.cursor \in cur..Len(inp) /\ t.error \in ErrorOrNone /\ t.val \in Seq(Byte)
      /\ t.error = None => Len(t.val) = 1
  BY TakeType
<1>2. Len(inp) \in Nat /\ t.cursor \in 0..Len(inp)
  <2>1. Len(inp) \in Nat /\ cur \in cur..Len(inp)
    OBVIOUS
  <2> HIDE DEF t
  <2> QED BY <1>1, <2>1, Positions
<1>3. n.cursor \in t.cursor..Len(inp) /\ n.error \in ErrorOrNone /\ n.val \in Int
  <2>1. IntWidth(tag) \in Nat /\ (tag \in {TAG_I64, TAG_I128}) \in BOOLEAN
    BY DEF IntWidth
  <2> HIDE DEF t, tag
  <2> QED BY <1>2, <2>1, IntegerType
<1>4. f.cursor \in t.cursor..Len(inp) /\ f.error \in ErrorOrNone
  <2>1. (IF tag = TAG_F64 THEN 8 ELSE 4) \in Nat
    OBVIOUS
  <2> HIDE DEF t, tag
  <2> QED BY <1>2, <2>1, TakeType
<1>5. s.cursor \in t.cursor..Len(inp) /\ s.error \in ErrorOrNone /\ s.val \in Seq(Byte)
  <2> HIDE DEF t
  <2> QED BY <1>2, ReadStringType
<1>6. \/ r = Res(t.cursor, t.error, NoToken)
      \/ \E tok \in fixed : r = Res(t.cursor, None, tok)
      \/ t.error = None /\ r = Res(n.cursor, n.error, Tok("number", <<tag, n.val>>))
      \/ r = Res(f.cursor, f.error, Tok("number", <<TAG_F64>>))
      \/ r = Res(s.cursor, s.error, Tok("str", s.val))
      \/ r = Res(t.cursor, "UnexpectedTerminator", NoToken)
      \/ r = Res(t.cursor, "InvalidTag", NoToken)
  <2> HIDE DEF n, f, s
  <2> QED BY SMTT(60) DEF ReadToken, TokenOf, NumberToken, FloatToken, StringToken, n, f, s
<1>7. /\ t.error = None => Tok("number", <<tag, n.val>>) \in Token
      /\ Tok("number", <<TAG_F64>>) \in Token
      /\ Tok("str", s.val) \in Token
      /\ NoToken \in Token
      /\ \A tok \in fixed : tok \in Token
  <2>1. ASSUME NEW kind \in Scalars \union Containers, NEW val \in Seq(Int)
        PROVE  Tok(kind, val) \in Token
    BY DEF Tok, Token
  <2>2. t.error = None => <<tag, n.val>> \in Seq(Int)
    <3>1. t.error = None => tag \in Int
      <4> HIDE DEF t
      <4> QED BY <1>1, BytesAreNumbers, ByteType
    <3> HIDE DEF t, tag, n
    <3> QED BY <1>3, <3>1
  <2>3. s.val \in Seq(Int)
    <3>1. Byte \subseteq Int
      BY DEF Byte
    <3> HIDE DEF s
    <3> QED BY <1>5, <3>1, SeqMonotonic
  <2>4. <<TAG_F64>> \in Seq(Int) /\ <<>> \in Seq(Int) /\ <<0>> \in Seq(Int) /\ <<1>> \in Seq(Int)
    BY DEF TAG_F64
  <2>5. {"null", "bool", "number", "str", "array", "object"} = Scalars \union Containers
    BY DEF Scalars, Containers
  <2> HIDE DEF t, tag, n, s
  <2> QED BY <2>1, <2>2, <2>3, <2>4, <2>5 DEF NoToken
<1> HIDE DEF t, tag, n, f, s, r, fixed
<1>8. r.cursor = t.cursor \/ r.cursor = n.cursor \/ r.cursor = f.cursor \/ r.cursor = s.cursor
  BY <1>6 DEF Res
<1>9. r.error \in ErrorOrNone
  BY <1>1, <1>3, <1>4, <1>5, <1>6 DEF Res, ErrorOrNone
<1>10. r.val \in Token
  BY <1>6, <1>7 DEF Res
<1>11. /\ n.cursor \in cur..Len(inp) /\ f.cursor \in cur..Len(inp)
       /\ s.cursor \in cur..Len(inp)
  BY <1>1, <1>2, <1>3, <1>4, <1>5, Positions
<1> QED BY <1>1, <1>8, <1>9, <1>10, <1>11 DEF r

(* What a read returns is a result record.                                  *)
LEMMA ReadTokenShape ==
  ASSUME NEW cfg, NEW inp, NEW cur
  PROVE  LET r == ReadToken(cfg, inp, cur)
         IN  r = Res(r.cursor, r.error, r.val)
<1> DEFINE r == ReadToken(cfg, inp, cur)
<1>1. \E c, e, v : r = Res(c, e, v)
  <2>1. ASSUME NEW at, NEW tag
        PROVE  \E c, e, v : TokenOf(cfg, inp, at, tag) = Res(c, e, v)
    BY DEF TokenOf, NumberToken, FloatToken, StringToken
  <2> QED BY <2>1 DEF ReadToken
<1>2. \A c, e, v : Res(c, e, v) = Res(Res(c, e, v).cursor, Res(c, e, v).error, Res(c, e, v).val)
  BY DEF Res
<1> HIDE DEF r
<1> QED BY <1>1, <1>2 DEF r

---------------------------------------------------------------------------
(***************************************************************************)
(* The inductive invariant.  FramesMatch alone is not inductive: a restore  *)
(* overwrites depth, stack and elems with what a mark holds, so the marks   *)
(* must agree with the frames that are open now (MarkMatches) and with each *)
(* other (MarksNested), and no frame a mark relies on may be closed or      *)
(* counted while the attempt is under way (MarksBelow).                     *)
(***************************************************************************)
Frames ==
  /\ Len(stack) = depth
  /\ Len(elems) = depth
  /\ \A i \in 1..MaxDepth : i > depth => counts[i] = 0
  /\ phase \notin {"error", "done"} => \A i \in 1..depth : counts[i] = elems[i]

MarkMatches ==
  \A a \in 1..Len(attempts) :
    /\ attempts[a].cursor <= Len(input)
    /\ Len(attempts[a].stack) = attempts[a].depth
    /\ Len(attempts[a].elems) = attempts[a].depth
    /\ attempts[a].depth <= depth
    /\ \A k \in 1..attempts[a].depth : /\ attempts[a].stack[k] = stack[k]
                                       /\ attempts[a].elems[k] = counts[k]

MarksNested ==
  \A a, b \in 1..Len(attempts) : a <= b =>
    /\ attempts[a].depth <= attempts[b].depth
    /\ \A k \in 1..attempts[a].depth : attempts[a].stack[k] = attempts[b].stack[k]

MarksBelow ==
  phase \in {"first", "key", "end"} =>
    \A a \in 1..Len(attempts) : attempts[a].depth < depth

Errors ==
  /\ phase \notin {"error", "done"} => wire_error = None
  /\ phase = "error" => \/ wire_error # None /\ wire_error = last_error
                        \/ wire_error = None /\ last_error = "InvalidType"

SkipOpen == phase = "skip" => nested > 0

LookaheadPending == lookahead # <<>> => phase = "value"

MarksAtStart == \A a \in 1..Len(attempts) : attempts[a].cursor = attempts[a].start

IInv == /\ TypeOK /\ Frames /\ MarkMatches /\ MarksNested /\ MarksBelow
        /\ Errors /\ SkipOpen /\ LookaheadPending /\ ErrorIsLatest

---------------------------------------------------------------------------
(* What the calls of a step return.                                         *)

LEMMA InputType == TypeOK => input \in Seq(Byte) /\ cursor \in 0..Len(input) /\ Len(input) \in Nat
BY InputsAssumption DEF TypeOK

LEMMA ReadTokenHere ==
  ASSUME TypeOK
  PROVE  LET r == ReadToken(config, input, cursor)
         IN  /\ r.cursor \in 0..Len(input)
             /\ r.error \in ErrorOrNone
             /\ r.val \in Token
<1> DEFINE r == ReadToken(config, input, cursor)
<1>1. input \in Seq(Byte) /\ cursor \in 0..Len(input) /\ Len(input) \in Nat
  BY InputType
<1>2. r.cursor \in cursor..Len(input) /\ r.error \in ErrorOrNone /\ r.val \in Token
  BY <1>1, ReadTokenType
<1> HIDE DEF r
<1>3. r.cursor \in 0..Len(input)
  BY <1>1, <1>2, Positions
<1> QED BY <1>2, <1>3 DEF r

LEMMA TakeTokenType ==
  ASSUME TypeOK
  PROVE  /\ TakeToken.cursor \in 0..Len(input)
         /\ TakeToken.error \in ErrorOrNone
         /\ TakeToken.val \in Token
<1>1. CASE lookahead # <<>>
  <2>1. lookahead[1] \in Token
    BY <1>1 DEF TypeOK
  <2>2. TakeToken = Res(cursor, None, lookahead[1])
    BY <1>1 DEF TakeToken
  <2>3. /\ TakeToken.cursor = cursor /\ TakeToken.val = lookahead[1]
        /\ TakeToken.error \in ErrorOrNone
    BY <2>2 DEF Res, ErrorOrNone
  <2> QED BY <2>1, <2>3, InputType
<1>2. CASE lookahead = <<>>
  BY <1>2, ReadTokenHere DEF TakeToken
<1> QED BY <1>1, <1>2

LEMMA TakeHere ==
  ASSUME TypeOK
  PROVE  LET b == Take(config, input, cursor, 1)
         IN  b.cursor \in 0..Len(input) /\ b.error \in ErrorOrNone
<1> DEFINE b == Take(config, input, cursor, 1)
<1>1. input \in Seq(Byte) /\ cursor \in 0..Len(input) /\ Len(input) \in Nat
  BY InputType
<1>2. b.cursor \in cursor..Len(input) /\ b.error \in ErrorOrNone
  BY <1>1, TakeType
<1> HIDE DEF b
<1> QED BY <1>1, <1>2, Positions DEF b

---------------------------------------------------------------------------
(* Type correctness is preserved by every step.                             *)

(* phase, wire_error and last_error of a call that returns *)
LEMMA ReturnType ==
  ASSUME TypeOK, NEW e \in ErrorOrNone, NEW p \in Phases,
         FailWith(e) \/ InvalidType \/ Proceed(p)
  PROVE  /\ phase' \in Phases
         /\ wire_error' \in ErrorOrNone
         /\ last_error' \in ErrorOrNone \union {"InvalidType"}
BY DEF TypeOK, FailWith, InvalidType, Proceed, Phases

Frame == <<config, input, depth, counts, stack, elems, attempts, result>>

(* the calls that read without opening or closing a container *)
LEMMA TypeRead ==
  ASSUME TypeOK, UNCHANGED Frame,
         cursor' \in 0..Len(input),
         lookahead' \in {<<>>, lookahead} \/ (\E t \in Token : lookahead' = <<t>>),
         NEW e \in ErrorOrNone, NEW p \in Phases,
         FailWith(e) \/ InvalidType \/ Proceed(p),
         nested' \in Nat, start' \in Nat, skipped' \in BOOLEAN
  PROVE  TypeOK'
<1>1. /\ phase' \in Phases
      /\ wire_error' \in ErrorOrNone
      /\ last_error' \in ErrorOrNone \union {"InvalidType"}
  BY ReturnType
<1>2. lookahead' \in Seq(Token) /\ Len(lookahead') <= 1
  <2>1. CASE lookahead' = <<>>
    BY <2>1
  <2>2. CASE lookahead' = lookahead
    BY <2>2 DEF TypeOK
  <2>3. CASE \E t \in Token : lookahead' = <<t>>
    BY <2>3
  <2> QED BY <2>1, <2>2, <2>3
<1> QED BY <1>1, <1>2 DEF TypeOK, Frame

LEMMA TypeScalar ==
  ASSUME IInv, NEW expected, TakeScalar(expected)
  PROVE  TypeOK'
<1>1. TypeOK
  BY DEF IInv
<1>2. /\ TakeToken.cursor \in 0..Len(input) /\ TakeToken.error \in ErrorOrNone
  BY <1>1, TakeTokenType
<1>3. "sep" \in Phases /\ UNCHANGED Frame /\ cursor' \in 0..Len(input) /\ lookahead' = <<>>
  BY <1>2 DEF TakeScalar, Phases, Frame, client
<1>4. FailWith(TakeToken.error) \/ InvalidType \/ Proceed("sep")
  BY DEF TakeScalar
<1>5. nested' \in Nat /\ start' \in Nat /\ skipped' \in BOOLEAN
  BY <1>1 DEF TakeScalar, TypeOK
<1> QED BY <1>1, <1>2, <1>3, <1>4, <1>5, TypeRead

LEMMA TypeOther ==
  ASSUME IInv, Char \/ PeekToken \/ ArrayHasMore \/ ObjectKey \/ SkipValue \/ SkipStep
  PROVE  TypeOK'
<1>1. TypeOK
  BY DEF IInv
<1>2. TakeToken.cursor \in 0..Len(input) /\ TakeToken.error \in ErrorOrNone
  BY <1>1, TakeTokenType
<1> DEFINE r == ReadToken(config, input, cursor)
<1>3. r.cursor \in 0..Len(input) /\ r.error \in ErrorOrNone /\ r.val \in Token
  BY <1>1, ReadTokenHere
<1>4. /\ Phases = {"value", "first", "key", "sep", "end", "skip", "error", "done"}
      /\ {"InvalidChar", "UnexpectedEnd"} \subseteq ErrorOrNone
      /\ None \in ErrorOrNone
  BY DEF Phases, ErrorOrNone
<1>5. cursor \in 0..Len(input) /\ nested \in Nat /\ start \in Nat /\ skipped \in BOOLEAN /\ Len(input) \in Nat
  BY <1>1, InputType DEF TypeOK
<1>6. CASE Char
  <2>1. UNCHANGED Frame /\ cursor' \in 0..Len(input) /\ lookahead' = <<>>
    BY <1>2, <1>6 DEF Char, Frame, client
  <2>2. FailWith(TakeToken.error) \/ FailWith("InvalidChar") \/ InvalidType \/ Proceed("sep")
    BY <1>6 DEF Char
  <2>3. nested' \in Nat /\ start' \in Nat /\ skipped' \in BOOLEAN
    BY <1>5, <1>6 DEF Char
  <2> QED BY <1>1, <1>2, <1>4, <2>1, <2>2, <2>3, TypeRead
<1>7. CASE PeekToken
  <2>1. UNCHANGED Frame /\ cursor' = r.cursor
    BY <1>7 DEF PeekToken, Frame, client
  <2>2. lookahead' = lookahead \/ lookahead' = <<r.val>>
    BY <1>7 DEF PeekToken
  <2>3. FailWith(r.error) \/ Proceed("value")
    BY <1>7 DEF PeekToken
  <2>4. nested' \in Nat /\ start' \in Nat /\ skipped' \in BOOLEAN
    BY <1>5, <1>7 DEF PeekToken
  <2> HIDE DEF r
  <2> QED BY <1>1, <1>3, <1>4, <2>1, <2>2, <2>3, <2>4, TypeRead
<1>8. CASE ArrayHasMore
  <2>1. UNCHANGED Frame /\ cursor' = cursor /\ lookahead' = lookahead
    BY <1>8 DEF ArrayHasMore, Frame, client
  <2>2. FailWith("UnexpectedEnd") \/ Proceed("value") \/ Proceed("end")
    BY <1>8 DEF ArrayHasMore
  <2>3. start' = cursor /\ nested' \in Nat /\ skipped' \in BOOLEAN
    BY <1>5, <1>8 DEF ArrayHasMore
  <2> QED BY <1>1, <1>4, <1>5, <2>1, <2>2, <2>3, TypeRead
<1>9. CASE ObjectKey
  <2>1. UNCHANGED Frame /\ cursor' \in {cursor, TakeToken.cursor} /\ lookahead' \in {<<>>, lookahead}
    BY <1>9 DEF ObjectKey, Frame, client
  <2>2. \/ FailWith("UnexpectedEnd") \/ FailWith(TakeToken.error) \/ InvalidType
        \/ Proceed("end") \/ Proceed("value")
    BY <1>9 DEF ObjectKey
  <2>3. start' \in {start, TakeToken.cursor} /\ nested' \in Nat /\ skipped' \in BOOLEAN
    BY <1>5, <1>9 DEF ObjectKey
  <2>4. start' \in Nat /\ cursor' \in 0..Len(input)
    BY <1>2, <1>5, <2>1, <2>3
  <2> QED BY <1>1, <1>2, <1>4, <2>1, <2>2, <2>3, <2>4, TypeRead
<1>10. CASE SkipValue
  <2>1. UNCHANGED Frame /\ cursor' \in 0..Len(input) /\ lookahead' = <<>>
    BY <1>2, <1>10 DEF SkipValue, Frame, client
  <2>2. FailWith(TakeToken.error) \/ Proceed("sep") \/ Proceed("skip")
    BY <1>10 DEF SkipValue
  <2>3. nested' \in Nat /\ start' \in Nat /\ skipped' \in BOOLEAN
    BY <1>5, <1>10 DEF SkipValue
  <2> QED BY <1>1, <1>2, <1>4, <2>1, <2>2, <2>3, TypeRead
<1>11. CASE SkipStep
  <2>1. UNCHANGED Frame /\ lookahead' = lookahead
    BY <1>11 DEF SkipStep, Frame, client
  <2>2. FailWith("UnexpectedEnd") \/ FailWith(r.error) \/ Proceed("sep") \/ Proceed("skip")
    BY <1>11 DEF SkipStep
  <2>3. \/ cursor' = cursor
        \/ ~AtEnd /\ cursor' = cursor + 1
        \/ cursor' = r.cursor
    BY <1>11 DEF SkipStep
  <2>4. nested > 0
    BY <1>11 DEF SkipStep, IInv, SkipOpen
  <2>5. nested' \in {nested - 1, nested, nested + 1} /\ start' = start /\ skipped' = skipped
    BY <1>11 DEF SkipStep
  <2> HIDE DEF r
  <2>6. cursor' \in 0..Len(input)
    BY <1>3, <1>5, <2>3 DEF AtEnd
  <2>7. nested' \in Nat /\ start' \in Nat /\ skipped' \in BOOLEAN
    BY <1>5, <2>4, <2>5
  <2> QED BY <1>1, <1>3, <1>4, <2>1, <2>2, <2>6, <2>7, TypeRead
<1> QED BY <1>6, <1>7, <1>8, <1>9, <1>10, <1>11

(* Front of a non-empty sequence *)
LEMMA FrontType ==
  ASSUME NEW S, NEW q \in Seq(S), Len(q) > 0
  PROVE  /\ Front(q) \in Seq(S)
         /\ Len(Front(q)) = Len(q) - 1
         /\ \A k \in 1..(Len(q) - 1) : Front(q)[k] = q[k]
         /\ Last(q) = q[Len(q)] /\ Last(q) \in S
<1> DEFINE n == Len(q) - 1
<1>1. n \in Nat /\ \A k \in 1..n : q[k] \in S
  OBVIOUS
<1> HIDE DEF n
<1>2. n \in Int /\ 1 \in Int
  BY <1>1
<1>3. /\ SubSeq(q, 1, n) \in Seq(S)
      /\ Len(SubSeq(q, 1, n)) = IF 1 <= n THEN n - 1 + 1 ELSE 0
      /\ \A k \in 1..(n - 1 + 1) : SubSeq(q, 1, n)[k] = q[1 + k - 1]
  BY <1>1, <1>2, SubSeqProperties
<1>4. Len(SubSeq(q, 1, n)) = n
  BY <1>1, <1>3
<1>5. ASSUME NEW k \in 1..n
      PROVE  SubSeq(q, 1, n)[k] = q[k]
  <2>1. k \in 1..(n - 1 + 1) /\ 1 + k - 1 = k
    BY <1>1
  <2> QED BY <1>3, <2>1
<1>6. q[Len(q)] \in S
  OBVIOUS
<1> QED BY <1>3, <1>4, <1>5, <1>6 DEF Front, Last, n

(* the limit on the depth *)
LEMMA DepthType ==
  ASSUME TypeOK
  PROVE  /\ config.depth_limit \in Nat /\ MaxDepth \in Nat
         /\ depth \in Nat /\ depth <= config.depth_limit /\ config.depth_limit <= MaxDepth
BY ConfigsAssumption, MaxDepthAssumption DEF TypeOK, Config

LEMMA TypeBegin ==
  ASSUME IInv, NEW kind \in Containers, NEW next \in Phases, Begin(kind, next)
  PROVE  TypeOK'
<1>1. TypeOK
  BY DEF IInv
<1>2. TakeToken.cursor \in 0..Len(input) /\ TakeToken.error \in ErrorOrNone
  BY <1>1, TakeTokenType
<1>3. FailWith(TakeToken.error) \/ FailWith("DepthLimit") \/ InvalidType \/ Proceed(next)
  BY DEF Begin, Full
<1>4. /\ phase' \in Phases
      /\ wire_error' \in ErrorOrNone
      /\ last_error' \in ErrorOrNone \union {"InvalidType"}
  <2>1. "DepthLimit" \in ErrorOrNone
    BY DEF ErrorOrNone
  <2> QED BY <1>1, <1>2, <1>3, <2>1, ReturnType
<1>5. \/ UNCHANGED <<depth, stack, elems>>
      \/ /\ depth < config.depth_limit
         /\ depth' = depth + 1
         /\ stack' = Append(stack, kind)
         /\ elems' = Append(elems, 0)
  BY <1>1, DepthType DEF Begin, Full
<1>6. depth' \in 0..config.depth_limit /\ stack' \in Seq(Containers) /\ elems' \in Seq(Nat)
  <2>1. depth \in Nat /\ config.depth_limit \in Nat /\ depth <= config.depth_limit
    BY <1>1, DepthType
  <2>2. stack \in Seq(Containers) /\ elems \in Seq(Nat)
    BY <1>1 DEF TypeOK
  <2>3. depth' \in 0..config.depth_limit
    BY <1>5, <2>1
  <2>4. Append(stack, kind) \in Seq(Containers) /\ Append(elems, 0) \in Seq(Nat)
    BY <2>2
  <2> QED BY <1>5, <2>2, <2>3, <2>4
<1>7. /\ cursor' = TakeToken.cursor /\ lookahead' = <<>>
      /\ UNCHANGED <<config, input, counts, nested, attempts, start, skipped, result>>
  BY DEF Begin, Full
<1>8. lookahead' \in Seq(Token) /\ Len(lookahead') <= 1
  BY <1>7
<1> QED BY <1>1, <1>2, <1>4, <1>6, <1>7, <1>8 DEF TypeOK

LEMMA TypeEntrySep ==
  ASSUME IInv, EntrySep
  PROVE  TypeOK'
<1>1. TypeOK /\ Len(elems) = depth /\ Len(stack) = depth
  BY DEF IInv, Frames
<1>2. depth \in Nat /\ config.depth_limit \in Nat /\ MaxDepth \in Nat /\ depth <= MaxDepth
  BY <1>1, DepthType
<1>3. depth # 0
  BY <1>1 DEF EntrySep, TooMany, TypeOK
<1>4. depth \in 1..MaxDepth /\ depth \in 1..Len(elems)
  BY <1>1, <1>2, <1>3
<1>5. counts[depth] \in Nat /\ elems[depth] \in Nat
  BY <1>1, <1>4 DEF TypeOK
<1>6. counts' \in [1..MaxDepth -> Nat]
  <2>1. counts' = counts \/ counts' = [counts EXCEPT ![depth] = counts[depth] + 1]
    BY DEF EntrySep, TooMany
  <2> QED BY <1>1, <1>4, <1>5, <2>1 DEF TypeOK
<1>7. elems' \in Seq(Nat)
  <2>1. elems' = [elems EXCEPT ![depth] = elems[depth] + 1]
    BY <1>1 DEF EntrySep, TooMany
  <2>2. elems[depth] + 1 \in Nat
    BY <1>5
  <2> QED BY <1>1, <1>4, <2>1, <2>2, ExceptSeq DEF TypeOK
<1>8. /\ phase' \in Phases
      /\ wire_error' \in ErrorOrNone
      /\ last_error' \in ErrorOrNone \union {"InvalidType"}
  <2>1. {"NoContainer", "CollectionLimit", "UnexpectedEnd"} \subseteq ErrorOrNone
    BY DEF ErrorOrNone
  <2>2. {"value", "key", "end"} \subseteq Phases /\ None \in ErrorOrNone
    BY DEF Phases, ErrorOrNone
  <2>3. \/ FailWith("NoContainer") \/ FailWith("CollectionLimit") \/ FailWith("UnexpectedEnd")
        \/ Proceed("value") \/ Proceed("key") \/ Proceed("end")
    BY DEF EntrySep, TooMany
  <2> QED BY <1>1, <2>1, <2>2, <2>3, ReturnType
<1>9. /\ start' = cursor
      /\ UNCHANGED <<config, input, cursor, depth, lookahead, nested, stack,
                     attempts, skipped, result>>
  BY DEF EntrySep, TooMany
<1>10. start' \in Nat
  BY <1>1, <1>9, InputType
<1> QED BY <1>1, <1>6, <1>7, <1>8, <1>9, <1>10 DEF TypeOK

LEMMA TypeEndContainer ==
  ASSUME IInv, EndContainer
  PROVE  TypeOK'
<1> DEFINE b == Take(config, input, cursor, 1)
<1>1. TypeOK /\ Len(elems) = depth /\ Len(stack) = depth
  BY DEF IInv, Frames
<1>2. depth \in Nat /\ config.depth_limit \in Nat /\ MaxDepth \in Nat
      /\ depth <= config.depth_limit /\ depth <= MaxDepth
  BY <1>1, DepthType
<1>3. b.cursor \in 0..Len(input) /\ b.error \in ErrorOrNone
  BY <1>1, TakeHere
<1>4. cursor' \in {cursor, b.cursor}
  BY DEF EndContainer
<1>5. \/ UNCHANGED <<depth, counts, stack, elems>>
      \/ /\ depth # 0 /\ depth' = depth - 1
         /\ counts' = [counts EXCEPT ![depth] = 0]
         /\ stack' = Front(stack) /\ elems' = Front(elems)
  BY DEF EndContainer
<1>6. FailWith("NoContainer") \/ FailWith(b.error) \/ FailWith("NoTerminator") \/ Proceed("sep")
  BY DEF EndContainer
<1>7. UNCHANGED <<config, input, lookahead, nested, attempts, start, skipped, result>>
  BY DEF EndContainer
<1> HIDE DEF b
<1>8. /\ phase' \in Phases
      /\ wire_error' \in ErrorOrNone
      /\ last_error' \in ErrorOrNone \union {"InvalidType"}
  <2>1. {"NoContainer", "NoTerminator"} \subseteq ErrorOrNone /\ "sep" \in Phases /\ None \in ErrorOrNone
    BY DEF ErrorOrNone, Phases
  <2> QED BY <1>1, <1>3, <1>6, <2>1, ReturnType
<1>9. counts' \in [1..MaxDepth -> Nat] /\ depth' \in 0..config.depth_limit
  <2>1. counts \in [1..MaxDepth -> Nat]
    BY <1>1 DEF TypeOK
  <2>2. [counts EXCEPT ![depth] = 0] \in [1..MaxDepth -> Nat]
    BY <2>1
  <2>3. depth' \in 0..config.depth_limit
    BY <1>2, <1>5
  <2> QED BY <1>5, <2>1, <2>2, <2>3
<1>10. stack' \in Seq(Containers) /\ elems' \in Seq(Nat)
  <2>1. CASE UNCHANGED <<depth, counts, stack, elems>>
    BY <1>1, <2>1 DEF TypeOK
  <2>2. CASE depth # 0 /\ stack' = Front(stack) /\ elems' = Front(elems)
    <3>1. Len(stack) > 0 /\ Len(elems) > 0 /\ stack \in Seq(Containers) /\ elems \in Seq(Nat)
      BY <1>1, <1>2, <2>2 DEF TypeOK
    <3> QED BY <2>2, <3>1, FrontType
  <2> QED BY <1>5, <2>1, <2>2
<1>11. cursor' \in 0..Len(input)
  BY <1>1, <1>3, <1>4 DEF TypeOK
<1> QED BY <1>1, <1>7, <1>8, <1>9, <1>10, <1>11 DEF TypeOK

(* the mark of the innermost attempt *)
LEMMA MarkType ==
  ASSUME IInv, attempts # <<>>
  PROVE  LET mark == Last(attempts)
         IN  /\ mark = attempts[Len(attempts)] /\ Len(attempts) \in 1..Len(attempts)
             /\ mark.cursor \in 0..Len(input) /\ mark.start \in Nat
             /\ mark.depth \in Nat /\ mark.depth <= depth
             /\ (IF mark.depth < MaxDepth THEN mark.depth ELSE MaxDepth) = mark.depth
             /\ mark.stack \in Seq(Containers) /\ mark.elems \in Seq(Nat)
             /\ Front(attempts) \in Seq(Attempt)
             /\ Len(Front(attempts)) = Len(attempts) - 1
             /\ \A k \in 1..Len(Front(attempts)) : /\ Front(attempts)[k] = attempts[k]
                                                  /\ k \in 1..Len(attempts)
                                                  /\ k <= Len(attempts)
<1> DEFINE mark == Last(attempts)
<1>1. TypeOK /\ MarkMatches
  BY DEF IInv
<1>2. attempts \in Seq(Attempt) /\ Len(attempts) > 0 /\ Len(attempts) \in Nat
  BY <1>1 DEF TypeOK
<1>3. /\ Front(attempts) \in Seq(Attempt)
      /\ Len(Front(attempts)) = Len(attempts) - 1
      /\ \A k \in 1..(Len(attempts) - 1) : Front(attempts)[k] = attempts[k]
      /\ mark = attempts[Len(attempts)] /\ mark \in Attempt
  BY <1>2, FrontType
<1>4. Len(attempts) \in 1..Len(attempts)
  BY <1>2
<1>5. \A k \in 1..Len(Front(attempts)) : k \in 1..(Len(attempts) - 1) /\ k \in 1..Len(attempts) /\ k <= Len(attempts)
  BY <1>2, <1>3
<1> HIDE DEF mark
<1>6. /\ mark.cursor \in Nat /\ mark.start \in Nat /\ mark.depth \in Nat
      /\ mark.stack \in Seq(Containers) /\ mark.elems \in Seq(Nat)
  BY <1>3 DEF Attempt
<1>7. mark.cursor <= Len(input) /\ mark.depth <= depth
  BY <1>1, <1>3, <1>4 DEF MarkMatches
<1>8. mark.cursor \in 0..Len(input)
  BY <1>1, <1>6, <1>7, InputType
<1>9. (IF mark.depth < MaxDepth THEN mark.depth ELSE MaxDepth) = mark.depth
  BY <1>1, <1>6, <1>7, DepthType
<1> QED BY <1>3, <1>4, <1>5, <1>6, <1>7, <1>8, <1>9 DEF mark

LEMMA TypeSave ==
  ASSUME IInv, Save
  PROVE  TypeOK'
<1>1. TypeOK
  BY DEF IInv
<1> DEFINE m == [cursor |-> cursor, depth |-> depth, stack |-> stack,
                 elems |-> elems, start |-> start]
<1>2. m \in Attempt
  <2>1. cursor \in Nat /\ depth \in Nat
    BY <1>1, InputType, DepthType
  <2> QED BY <1>1, <2>1 DEF TypeOK, Attempt
<1>3. attempts' = Append(attempts, m)
  BY DEF Save
<1> HIDE DEF m
<1>4. attempts' \in Seq(Attempt)
  BY <1>1, <1>2, <1>3 DEF TypeOK
<1> QED BY <1>1, <1>4 DEF TypeOK, Save, decoder

LEMMA TypeDrop ==
  ASSUME IInv, Commit \/ Propagate
  PROVE  TypeOK'
<1>1. TypeOK
  BY DEF IInv
<1>2. attempts # <<>> /\ attempts' = Front(attempts)
  BY DEF Commit, Propagate, AttemptComplete
<1>3. attempts' \in Seq(Attempt)
  BY <1>2, MarkType
<1> QED BY <1>1, <1>3 DEF TypeOK, Commit, Propagate, decoder

LEMMA TypeRestore ==
  ASSUME IInv, Restore
  PROVE  TypeOK'
<1> DEFINE mark == Last(attempts)
<1>1. TypeOK
  BY DEF IInv
<1>2. /\ mark.cursor \in 0..Len(input) /\ mark.start \in Nat
      /\ mark.depth \in Nat /\ mark.depth <= depth
      /\ (IF mark.depth < MaxDepth THEN mark.depth ELSE MaxDepth) = mark.depth
      /\ mark.stack \in Seq(Containers) /\ mark.elems \in Seq(Nat)
      /\ Front(attempts) \in Seq(Attempt)
  BY MarkType DEF Restore, RestoreDecoder, RestoredDepth
<1>3. /\ cursor' = mark.cursor /\ depth' = mark.depth /\ counts' = ClearFrom(mark.depth)
      /\ lookahead' = <<>> /\ wire_error' = None /\ phase' = "value"
      /\ attempts' = Front(attempts) /\ stack' = mark.stack /\ elems' = mark.elems
      /\ start' = mark.start
      /\ UNCHANGED <<config, input, nested, last_error, skipped, result>>
  BY <1>2 DEF Restore, RestoreDecoder, RestoredDepth
<1> HIDE DEF mark
<1>4. ClearFrom(mark.depth) \in [1..MaxDepth -> Nat]
  BY <1>1 DEF ClearFrom, TypeOK
<1>5. mark.depth \in 0..config.depth_limit
  BY <1>1, <1>2, DepthType
<1>6. lookahead' \in Seq(Token) /\ Len(lookahead') <= 1 /\ None \in ErrorOrNone /\ "value" \in Phases
  BY <1>3 DEF ErrorOrNone, Phases
<1> QED BY <1>1, <1>2, <1>3, <1>4, <1>5, <1>6 DEF TypeOK

LEMMA TypeReturns ==
  ASSUME IInv, FromSliceOk \/ FromSliceErr
  PROVE  TypeOK'
<1>1. TypeOK
  BY DEF IInv
<1>2. "done" \in Phases
  BY DEF Phases
<1>3. result' \in ErrorOrNone \union {"InvalidType", "UnclosedContainer", "TrailingBytes", "ok"}
  BY <1>1 DEF FromSliceOk, FromSliceErr, Returns, TypeOK
<1> QED BY <1>1, <1>2, <1>3 DEF TypeOK, FromSliceOk, FromSliceErr, Returns, decoder, client

LEMMA TypeStep ==
  ASSUME IInv, [Next]_vars
  PROVE  TypeOK'
<1>1. CASE UNCHANGED vars
  BY <1>1 DEF IInv, TypeOK, vars
<1>2. CASE \E expected \in {{"null"}, {"bool"}, {"number"}, {"str"}, Scalars} : TakeScalar(expected)
  BY <1>2, TypeScalar
<1>3. CASE BeginArray \/ BeginObject
  <2>1. {"array", "object"} = Containers /\ {"first", "key"} \subseteq Phases
    BY DEF Containers, Phases
  <2> QED BY <1>3, <2>1, TypeBegin DEF BeginArray, BeginObject
<1> QED BY <1>1, <1>2, <1>3, TypeOther, TypeEntrySep, TypeEndContainer, TypeSave,
           TypeDrop, TypeRestore, TypeReturns
        DEF Next, Unit, Bool, Number, String, NextToken

---------------------------------------------------------------------------
(***************************************************************************)
(* What a step does to the frames and the marks.  Most calls leave them     *)
(* alone; the others open a frame, count an element, close a frame, or push *)
(* or pop a mark.                                                          *)
(***************************************************************************)
Running == phase \notin {"error", "done"}
Inside  == phase \in {"first", "key", "end"}

KeepsFrames ==
  /\ UNCHANGED <<input, depth, counts, stack, elems, attempts>>
  /\ Running' => Running
  /\ Inside' => Inside

OpensFrame(kind) ==
  /\ phase = "value"
  /\ kind \in Containers
  /\ depth < MaxDepth
  /\ depth' = depth + 1
  /\ stack' = Append(stack, kind)
  /\ elems' = Append(elems, 0)
  /\ UNCHANGED <<input, counts, attempts>>

CountsElement ==
  /\ phase = "sep"
  /\ depth \in 1..MaxDepth
  /\ ~AttemptComplete
  /\ elems' = [elems EXCEPT ![depth] = elems[depth] + 1]
  /\ \/ counts' = counts /\ phase' = "error"
     \/ counts' = [counts EXCEPT ![depth] = counts[depth] + 1]
  /\ UNCHANGED <<input, depth, stack, attempts>>

ClosesFrame ==
  /\ phase = "end"
  /\ depth \in 1..MaxDepth
  /\ phase' = "sep"
  /\ depth' = depth - 1
  /\ counts' = [counts EXCEPT ![depth] = 0]
  /\ stack' = Front(stack)
  /\ elems' = Front(elems)
  /\ UNCHANGED <<input, attempts>>

LEMMA OpenStep ==
  ASSUME IInv, NEW kind \in Containers, NEW next, Begin(kind, next)
  PROVE  KeepsFrames \/ OpensFrame(kind)
<1>1. TypeOK
  BY DEF IInv
<1>2. CASE UNCHANGED <<depth, stack, elems>>
  BY <1>2 DEF Begin, Full, KeepsFrames, Running, Inside, FailWith, InvalidType
<1>3. CASE ~(depth >= config.depth_limit) /\ depth' = depth + 1
           /\ stack' = Append(stack, kind) /\ elems' = Append(elems, 0)
  <2>1. depth < MaxDepth
    BY <1>1, <1>3, DepthType
  <2> QED BY <1>3, <2>1 DEF Begin, Full, OpensFrame
<1> QED BY <1>2, <1>3 DEF Begin, Full

LEMMA CountStep ==
  ASSUME IInv, EntrySep
  PROVE  CountsElement
<1>1. TypeOK /\ Len(elems) = depth /\ Len(stack) = depth
  BY DEF IInv, Frames
<1>2. depth \in Nat /\ depth <= MaxDepth /\ MaxDepth \in Nat
  BY <1>1, DepthType
<1>3. depth # 0
  BY <1>1 DEF EntrySep, TooMany, TypeOK
<1>4. depth \in 1..MaxDepth
  BY <1>2, <1>3
<1> QED BY <1>1, <1>3, <1>4 DEF EntrySep, TooMany, CountsElement, FailWith

LEMMA CloseStep ==
  ASSUME IInv, EndContainer
  PROVE  KeepsFrames \/ ClosesFrame
<1>1. TypeOK
  BY DEF IInv
<1>2. depth \in Nat /\ depth <= MaxDepth /\ MaxDepth \in Nat
  BY <1>1, DepthType
<1>3. CASE UNCHANGED <<depth, counts, stack, elems>>
  BY <1>3 DEF EndContainer, KeepsFrames, Running, Inside, FailWith, Proceed
<1>4. CASE depth # 0 /\ depth' = depth - 1 /\ counts' = [counts EXCEPT ![depth] = 0]
           /\ stack' = Front(stack) /\ elems' = Front(elems) /\ Proceed("sep")
  <2>1. depth \in 1..MaxDepth
    BY <1>2, <1>4
  <2> QED BY <1>4, <2>1 DEF EndContainer, ClosesFrame, Proceed
<1> QED BY <1>3, <1>4 DEF EndContainer

LEMMA KeepStep ==
  ASSUME \/ UNCHANGED vars
         \/ \E expected : TakeScalar(expected)
         \/ Char \/ PeekToken \/ ArrayHasMore \/ ObjectKey \/ SkipValue \/ SkipStep
         \/ FromSliceOk \/ FromSliceErr
  PROVE  KeepsFrames
<1> USE DEF KeepsFrames, Running, Inside, client
<1>1. CASE UNCHANGED vars
  BY <1>1 DEF vars
<1>2. ASSUME NEW expected, TakeScalar(expected)
      PROVE  KeepsFrames
  BY <1>2 DEF TakeScalar, FailWith, InvalidType, Proceed
<1>3. CASE Char \/ PeekToken
  BY <1>3 DEF Char, PeekToken, FailWith, InvalidType, Proceed
<1>4. CASE ArrayHasMore \/ ObjectKey
  BY <1>4 DEF ArrayHasMore, ObjectKey, FailWith, InvalidType, Proceed
<1>5. CASE SkipValue \/ SkipStep
  BY <1>5 DEF SkipValue, SkipStep, FailWith, Proceed
<1>6. CASE FromSliceOk \/ FromSliceErr
  BY <1>6 DEF FromSliceOk, FromSliceErr, Returns, decoder
<1> QED BY <1>1, <1>2, <1>3, <1>4, <1>5, <1>6

LEMMA StepKinds ==
  ASSUME IInv, [Next]_vars
  PROVE  \/ KeepsFrames \/ (\E kind \in Containers : OpensFrame(kind))
         \/ CountsElement \/ ClosesFrame
         \/ Save \/ Commit \/ Propagate \/ Restore
<1>1. CASE BeginArray \/ BeginObject
  <2>1. {"array", "object"} = Containers
    BY DEF Containers
  <2> QED BY <1>1, <2>1, OpenStep DEF BeginArray, BeginObject
<1>2. CASE Unit \/ Bool \/ Number \/ String \/ NextToken
  BY <1>2, KeepStep DEF Unit, Bool, Number, String, NextToken
<1> QED BY <1>1, <1>2, KeepStep, CountStep, CloseStep DEF Next

(* The counters agree with the elements received, after every step.         *)
LEMMA FramesStep ==
  ASSUME IInv, [Next]_vars
  PROVE  Frames'
<1>1. /\ stack \in Seq(Containers) /\ elems \in Seq(Nat) /\ Len(stack) = depth /\ Len(elems) = depth
      /\ counts \in [1..MaxDepth -> Nat]
      /\ \A i \in 1..MaxDepth : i > depth => counts[i] = 0
      /\ Running => \A i \in 1..depth : counts[i] = elems[i]
  BY DEF IInv, TypeOK, Frames, Running
<1>2. depth \in Nat /\ MaxDepth \in Nat /\ depth <= MaxDepth
  BY DepthType DEF IInv
<1>3. CASE KeepsFrames
  BY <1>3 DEF KeepsFrames, IInv, Frames, Running
<1>4. ASSUME NEW kind \in Containers, OpensFrame(kind)
      PROVE  Frames'
  <2>1. /\ depth' = depth + 1 /\ stack' = Append(stack, kind) /\ elems' = Append(elems, 0)
        /\ counts' = counts /\ depth < MaxDepth /\ Running
    BY <1>4 DEF OpensFrame, Running
  <2>2. Len(stack') = depth' /\ Len(elems') = depth'
    BY <1>1, <2>1
  <2>3. \A i \in 1..MaxDepth : i > depth' => counts'[i] = 0
    BY <1>1, <1>2, <2>1
  <2>4. ASSUME NEW i \in 1..depth'
        PROVE  counts'[i] = elems'[i]
    <3>1. CASE i = depth + 1
      <4>1. elems'[i] = 0
        BY <1>1, <2>1, <3>1
      <4>2. i \in 1..MaxDepth /\ i > depth
        BY <1>2, <2>1, <3>1
      <4> QED BY <1>1, <2>1, <4>1, <4>2
    <3>2. CASE i # depth + 1
      <4>1. i \in 1..depth
        BY <1>2, <2>1, <3>2
      <4>2. elems'[i] = elems[i]
        BY <1>1, <2>1, <4>1
      <4> QED BY <1>1, <2>1, <4>1, <4>2
    <3> QED BY <3>1, <3>2
  <2> QED BY <2>2, <2>3, <2>4 DEF Frames
<1>5. CASE CountsElement
  <2>1. /\ depth \in 1..MaxDepth /\ Running /\ depth' = depth /\ stack' = stack
        /\ elems' = [elems EXCEPT ![depth] = elems[depth] + 1]
        /\ \/ counts' = counts /\ phase' = "error"
           \/ counts' = [counts EXCEPT ![depth] = counts[depth] + 1]
    BY <1>5 DEF CountsElement, Running
  <2>2. Len(elems') = depth'
    BY <1>1, <2>1
  <2>3. \A i \in 1..MaxDepth : i > depth' => counts'[i] = 0
    BY <1>1, <1>2, <2>1
  <2>4. ASSUME Running', NEW i \in 1..depth'
        PROVE  counts'[i] = elems'[i]
    <3>1. counts' = [counts EXCEPT ![depth] = counts[depth] + 1]
      BY <2>1, <2>4 DEF Running
    <3>2. i \in 1..MaxDepth /\ i \in 1..depth /\ i \in 1..Len(elems)
      BY <1>1, <1>2, <2>1
    <3>3. counts[i] = elems[i] /\ counts[depth] = elems[depth]
      BY <1>1, <1>2, <2>1, <3>2
    <3> QED BY <1>1, <2>1, <3>1, <3>2, <3>3
  <2> QED BY <1>1, <2>1, <2>2, <2>3, <2>4 DEF Frames, Running
<1>6. CASE ClosesFrame
  <2>1. /\ depth \in 1..MaxDepth /\ Running /\ depth' = depth - 1
        /\ counts' = [counts EXCEPT ![depth] = 0]
        /\ stack' = Front(stack) /\ elems' = Front(elems)
    BY <1>6 DEF ClosesFrame, Running
  <2>2. /\ Len(stack') = depth' /\ Len(elems') = depth'
        /\ \A k \in 1..(depth - 1) : elems'[k] = elems[k]
    <3>1. Len(stack) > 0 /\ Len(elems) > 0
      BY <1>1, <2>1
    <3> QED BY <1>1, <2>1, <3>1, FrontType
  <2>3. \A i \in 1..MaxDepth : i > depth' => counts'[i] = 0
    BY <1>1, <1>2, <2>1
  <2>4. ASSUME NEW i \in 1..depth'
        PROVE  counts'[i] = elems'[i]
    <3>1. i \in 1..(depth - 1) /\ i \in 1..depth /\ i # depth /\ i \in 1..MaxDepth
      BY <1>2, <2>1
    <3> QED BY <1>1, <2>1, <2>2, <3>1
  <2> QED BY <2>2, <2>3, <2>4 DEF Frames
<1>7. CASE Save \/ Commit \/ Propagate
  BY <1>7 DEF Save, Commit, Propagate, decoder, IInv, Frames
<1>8. CASE Restore
  <2> DEFINE mark == Last(attempts)
  <2>1. /\ attempts # <<>> /\ mark = attempts[Len(attempts)] /\ Len(attempts) \in 1..Len(attempts)
        /\ mark.depth \in Nat /\ mark.depth <= depth
        /\ (IF mark.depth < MaxDepth THEN mark.depth ELSE MaxDepth) = mark.depth
    BY <1>8, MarkType DEF Restore, RestoreDecoder, RestoredDepth
  <2>2. /\ depth' = mark.depth /\ counts' = ClearFrom(mark.depth)
        /\ stack' = mark.stack /\ elems' = mark.elems
    BY <1>8, <2>1 DEF Restore, RestoreDecoder, RestoredDepth
  <2>3. /\ Len(mark.stack) = mark.depth /\ Len(mark.elems) = mark.depth
        /\ \A k \in 1..mark.depth : mark.elems[k] = counts[k]
    BY <2>1 DEF IInv, MarkMatches
  <2> HIDE DEF mark
  <2>4. \A i \in 1..MaxDepth : counts'[i] = IF i > mark.depth THEN 0 ELSE counts[i]
    BY <2>2 DEF ClearFrom
  <2>5. ASSUME NEW i \in 1..mark.depth
        PROVE  counts'[i] = mark.elems[i]
    <3>1. i \in 1..MaxDepth /\ ~(i > mark.depth)
      BY <1>2, <2>1
    <3> QED BY <2>3, <2>4, <3>1
  <2> QED BY <2>2, <2>3, <2>4, <2>5 DEF Frames
<1> QED BY <1>3, <1>4, <1>5, <1>6, <1>7, <1>8, StepKinds

Marks == MarkMatches /\ MarksNested /\ MarksBelow

LEMMA AttemptType ==
  ASSUME NEW m \in Attempt
  PROVE  /\ m.cursor \in Nat /\ m.depth \in Nat /\ m.start \in Nat
         /\ m.stack \in Seq(Containers) /\ m.elems \in Seq(Nat)
BY DEF Attempt

(* a frame that is counted or closed is deeper than every pending mark *)
LEMMA DeeperThanMarks ==
  ASSUME IInv, Inside \/ (phase = "sep" /\ ~AttemptComplete),
         NEW a \in 1..Len(attempts)
  PROVE  attempts[a].depth < depth
<1>1. /\ attempts \in Seq(Attempt) /\ stack \in Seq(Containers) /\ Len(stack) = depth
      /\ MarkMatches /\ MarksNested /\ MarksBelow
  BY DEF IInv, TypeOK, Frames
<1>2. CASE Inside
  BY <1>1, <1>2 DEF MarksBelow, Inside
<1>3. CASE phase = "sep" /\ ~AttemptComplete
  <2> DEFINE last == attempts[Len(attempts)]
  <2>1. /\ attempts # <<>> /\ Len(attempts) \in 1..Len(attempts) /\ a <= Len(attempts)
        /\ Last(attempts) = last
    BY <1>1 DEF Last
  <2>2. attempts[a] \in Attempt /\ last \in Attempt
    BY <1>1, <2>1
  <2>3. last.stack # stack
    BY <1>3, <2>1 DEF AttemptComplete
  <2>4. attempts[a].depth <= last.depth
    BY <1>1, <2>1 DEF MarksNested
  <2>5. /\ Len(last.stack) = last.depth /\ last.depth <= depth
        /\ \A k \in 1..last.depth : last.stack[k] = stack[k]
    BY <1>1, <2>1 DEF MarkMatches
  <2>6. last.depth \in Nat /\ attempts[a].depth \in Nat /\ last.stack \in Seq(Containers) /\ depth \in Nat
    <3>1. depth \in Nat
      BY <1>1
    <3> HIDE DEF last
    <3> QED BY <2>2, <3>1, AttemptType
  <2> HIDE DEF last
  <2>7. last.depth # depth
    <3>1. SUFFICES ASSUME last.depth = depth
                   PROVE  FALSE
      OBVIOUS
    <3>2. last.stack = stack
      BY <1>1, <2>5, <2>6, <3>1, SeqEqual
    <3> QED BY <2>3, <3>2
  <2>8. ASSUME NEW d \in Nat, NEW e \in Nat, NEW f \in Nat, d <= e, e <= f, e # f
        PROVE  d < f
    BY <2>8
  <2> QED BY <2>4, <2>5, <2>6, <2>7, <2>8
<1> QED BY <1>2, <1>3

LEMMA MarksStep ==
  ASSUME IInv, [Next]_vars
  PROVE  Marks'
<1>1. /\ attempts \in Seq(Attempt) /\ stack \in Seq(Containers) /\ elems \in Seq(Nat)
      /\ Len(stack) = depth /\ Len(elems) = depth /\ counts \in [1..MaxDepth -> Nat]
      /\ MarkMatches /\ MarksNested /\ MarksBelow
  BY DEF IInv, TypeOK, Frames
<1>2. depth \in Nat /\ MaxDepth \in Nat /\ depth <= MaxDepth
  BY DepthType DEF IInv
<1>3. ASSUME NEW a \in 1..Len(attempts)
      PROVE  attempts[a].depth \in Nat
  <2>1. attempts[a] \in Attempt
    BY <1>1
  <2> QED BY <2>1, AttemptType
<1>4. CASE KeepsFrames
  BY <1>1, <1>4 DEF KeepsFrames, Inside, Marks, MarkMatches, MarksNested, MarksBelow
<1>5. ASSUME NEW kind \in Containers, OpensFrame(kind)
      PROVE  Marks'
  <2>1. /\ depth' = depth + 1 /\ stack' = Append(stack, kind) /\ counts' = counts
        /\ attempts' = attempts /\ input' = input
    BY <1>5 DEF OpensFrame
  <2>2. \A k \in 1..depth : stack'[k] = stack[k]
    BY <1>1, <2>1
  <2>3. ASSUME NEW a \in 1..Len(attempts)
        PROVE  /\ attempts[a].depth <= depth' /\ attempts[a].depth < depth'
               /\ \A k \in 1..attempts[a].depth : attempts[a].stack[k] = stack'[k]
    <3> DEFINE d == attempts[a].depth
    <3>1. d \in Nat /\ d <= depth /\ \A k \in 1..d : attempts[a].stack[k] = stack[k]
      BY <1>1, <1>3 DEF MarkMatches
    <3> HIDE DEF d
    <3>2. \A k \in 1..d : k \in 1..depth
      BY <1>2, <3>1
    <3>3. d <= depth' /\ d < depth'
      BY <1>2, <2>1, <3>1
    <3> QED BY <2>2, <3>1, <3>2, <3>3 DEF d
  <2> QED BY <1>1, <2>1, <2>3 DEF Marks, MarkMatches, MarksNested, MarksBelow
<1>6. CASE CountsElement
  <2>1. /\ depth' = depth /\ stack' = stack /\ attempts' = attempts /\ input' = input
        /\ depth \in 1..MaxDepth /\ phase = "sep" /\ ~AttemptComplete
        /\ counts' = counts \/ counts' = [counts EXCEPT ![depth] = counts[depth] + 1]
    BY <1>6 DEF CountsElement
  <2>2. ASSUME NEW a \in 1..Len(attempts)
        PROVE  /\ attempts[a].depth < depth
               /\ \A k \in 1..attempts[a].depth : attempts[a].elems[k] = counts'[k]
    <3> DEFINE d == attempts[a].depth
    <3>1. d < depth
      BY <2>1, DeeperThanMarks
    <3>2. d \in Nat /\ \A k \in 1..d : attempts[a].elems[k] = counts[k]
      BY <1>1, <1>3 DEF MarkMatches
    <3> HIDE DEF d
    <3>3. \A k \in 1..d : k \in 1..MaxDepth /\ k # depth
      BY <1>2, <3>1, <3>2
    <3>4. \A k \in 1..d : counts'[k] = counts[k]
      BY <1>1, <2>1, <3>3
    <3> QED BY <3>1, <3>2, <3>4 DEF d
  <2> QED BY <1>1, <2>1, <2>2 DEF Marks, MarkMatches, MarksNested, MarksBelow
<1>7. CASE ClosesFrame
  <2>1. /\ depth' = depth - 1 /\ stack' = Front(stack) /\ attempts' = attempts /\ input' = input
        /\ depth \in 1..MaxDepth /\ Inside /\ counts' = [counts EXCEPT ![depth] = 0]
        /\ phase' = "sep"
    BY <1>7 DEF ClosesFrame, Inside
  <2>2. \A k \in 1..(depth - 1) : stack'[k] = stack[k]
    <3>1. Len(stack) > 0
      BY <1>1, <2>1
    <3> QED BY <1>1, <2>1, <3>1, FrontType
  <2>3. ASSUME NEW a \in 1..Len(attempts)
        PROVE  /\ attempts[a].depth <= depth'
               /\ \A k \in 1..attempts[a].depth : /\ attempts[a].stack[k] = stack'[k]
                                                /\ attempts[a].elems[k] = counts'[k]
    <3> DEFINE d == attempts[a].depth
    <3>1. d < depth
      BY <2>1, DeeperThanMarks
    <3>2. d \in Nat /\ \A k \in 1..d : /\ attempts[a].elems[k] = counts[k]
                                     /\ attempts[a].stack[k] = stack[k]
      BY <1>1, <1>3 DEF MarkMatches
    <3> HIDE DEF d
    <3>3. \A k \in 1..d : k \in 1..MaxDepth /\ k # depth /\ k \in 1..(depth - 1)
      BY <1>2, <3>1, <3>2
    <3>4. \A k \in 1..d : counts'[k] = counts[k]
      BY <1>1, <2>1, <3>3
    <3>5. d <= depth'
      BY <1>2, <2>1, <3>1, <3>2
    <3> QED BY <2>2, <3>2, <3>3, <3>4, <3>5 DEF d
  <2> QED BY <1>1, <2>1, <2>3 DEF Marks, MarkMatches, MarksNested, MarksBelow
<1>8. CASE Save
  <2> DEFINE n == Len(attempts)
             m == [cursor |-> cursor, depth |-> depth, stack |-> stack,
                   elems |-> elems, start |-> start]
  <2>1. /\ attempts' = Append(attempts, m) /\ phase' = "value" /\ phase = "value"
        /\ UNCHANGED <<input, depth, counts, stack, elems>>
    BY <1>8 DEF Save, decoder
  <2>2. /\ m.cursor <= Len(input) /\ m.depth = depth /\ m.stack = stack /\ m.elems = elems
    BY InputType DEF IInv
  <2>3. \A k \in 1..depth : elems[k] = counts[k]
    BY <2>1 DEF IInv, Frames
  <2> HIDE DEF m
  <2>4. /\ n \in Nat /\ Len(attempts') = n + 1 /\ attempts'[n + 1] = m
        /\ \A a \in 1..n : attempts'[a] = attempts[a]
    BY <1>1, <2>1
  <2>5. \A a \in 1..Len(attempts') : a \in 1..n \/ a = n + 1
    BY <2>4
  <2>6. MarkMatches'
    <3>1. ASSUME NEW a \in 1..n
          PROVE  /\ attempts'[a].cursor <= Len(input')
                 /\ Len(attempts'[a].stack) = attempts'[a].depth
                 /\ Len(attempts'[a].elems) = attempts'[a].depth
                 /\ attempts'[a].depth <= depth'
                 /\ \A k \in 1..attempts'[a].depth : /\ attempts'[a].stack[k] = stack'[k]
                                                   /\ attempts'[a].elems[k] = counts'[k]
      BY <1>1, <2>1, <2>4 DEF MarkMatches
    <3>2. /\ m.cursor <= Len(input')
          /\ Len(m.stack) = m.depth /\ Len(m.elems) = m.depth /\ m.depth <= depth'
          /\ \A k \in 1..m.depth : m.stack[k] = stack'[k] /\ m.elems[k] = counts'[k]
      BY <1>1, <1>2, <2>1, <2>2, <2>3
    <3> HIDE DEF n
    <3> QED BY <2>4, <2>5, <3>1, <3>2 DEF MarkMatches
  <2>7. MarksNested'
    <3>1. ASSUME NEW a \in 1..n, NEW b \in 1..n, a <= b
          PROVE  /\ attempts'[a].depth <= attempts'[b].depth
                 /\ \A k \in 1..attempts'[a].depth : attempts'[a].stack[k] = attempts'[b].stack[k]
      BY <1>1, <2>4, <3>1 DEF MarksNested
    <3>2. ASSUME NEW a \in 1..n
          PROVE  /\ attempts'[a].depth <= m.depth
                 /\ \A k \in 1..attempts'[a].depth : attempts'[a].stack[k] = m.stack[k]
      BY <1>1, <2>2, <2>4 DEF MarkMatches
    <3>3. m.depth <= m.depth
      BY <1>2, <2>2
    <3>4. \A a \in 1..n : ~(n + 1 <= a)
      BY <2>4
    <3> HIDE DEF n
    <3> QED BY <2>4, <2>5, <3>1, <3>2, <3>3, <3>4 DEF MarksNested
  <2>8. MarksBelow'
    BY <2>1 DEF MarksBelow
  <2> QED BY <2>6, <2>7, <2>8 DEF Marks
<1>9. CASE Commit \/ Propagate \/ Restore
  <2>1. /\ attempts # <<>> /\ attempts' = Front(attempts) /\ input' = input
    BY <1>9 DEF Commit, Propagate, Restore, RestoreDecoder, RestoredDepth, AttemptComplete
  <2>2. \A a \in 1..Len(attempts') : /\ attempts'[a] = attempts[a]
                                     /\ a \in 1..Len(attempts) /\ a <= Len(attempts)
    BY <2>1, MarkType
  <2>3. MarksNested'
    BY <1>1, <2>2 DEF MarksNested
  <2>4. MarksBelow'
    BY <1>9 DEF Commit, Propagate, Restore, RestoreDecoder, RestoredDepth, MarksBelow
  <2>5. CASE Commit \/ Propagate
    <3>1. UNCHANGED <<depth, counts, stack>>
      BY <2>5 DEF Commit, Propagate, decoder
    <3>2. MarkMatches'
      BY <1>1, <2>1, <2>2, <3>1 DEF MarkMatches
    <3> QED BY <2>3, <2>4, <3>2 DEF Marks
  <2>6. CASE Restore
    <3> DEFINE mark == attempts[Len(attempts)]
    <3>1. /\ Last(attempts) = mark /\ Len(attempts) \in 1..Len(attempts)
          /\ (IF mark.depth < MaxDepth THEN mark.depth ELSE MaxDepth) = mark.depth
      BY <2>1, MarkType
    <3>2. /\ depth' = mark.depth /\ counts' = ClearFrom(mark.depth) /\ stack' = mark.stack
      BY <2>6, <3>1 DEF Restore, RestoreDecoder, RestoredDepth
    <3>3. mark.depth \in Nat /\ mark.depth <= depth
      BY <1>1, <1>3, <3>1 DEF MarkMatches
    <3>4. ASSUME NEW a \in 1..Len(attempts'), NEW k \in 1..attempts[a].depth
          PROVE  attempts[a].elems[k] = counts'[k] /\ attempts[a].stack[k] = stack'[k]
      <4>1. a \in 1..Len(attempts) /\ a <= Len(attempts)
        BY <2>2
      <4>2. /\ attempts[a].depth \in Nat /\ attempts[a].depth <= mark.depth
            /\ attempts[a].stack[k] = mark.stack[k] /\ attempts[a].elems[k] = counts[k]
        BY <1>1, <1>3, <3>1, <4>1 DEF MarksNested, MarkMatches
      <4> HIDE DEF mark
      <4>3. k \in 1..MaxDepth /\ ~(k > mark.depth)
        <5> DEFINE d == attempts[a].depth
        <5>1. d \in Nat /\ d <= mark.depth /\ k \in 1..d
          BY <4>2
        <5> HIDE DEF d
        <5> QED BY <1>2, <3>3, <5>1
      <4>4. counts'[k] = counts[k]
        BY <3>2, <4>3 DEF ClearFrom
      <4> QED BY <3>2, <4>2, <4>4
    <3>5. ASSUME NEW a \in 1..Len(attempts')
          PROVE  /\ attempts[a].cursor <= Len(input)
                 /\ Len(attempts[a].stack) = attempts[a].depth
                 /\ Len(attempts[a].elems) = attempts[a].depth
                 /\ attempts[a].depth <= depth'
      BY <1>1, <2>2, <3>1, <3>2 DEF MarksNested, MarkMatches
    <3> HIDE DEF mark
    <3>6. MarkMatches'
      BY <2>1, <2>2, <3>4, <3>5 DEF MarkMatches
    <3> QED BY <2>3, <2>4, <3>6 DEF Marks
  <2> QED BY <1>9, <2>5, <2>6
<1> QED BY <1>4, <1>5, <1>6, <1>7, <1>8, <1>9, StepKinds

---------------------------------------------------------------------------
(* Errors, skips and the lookahead.                                         *)

LEMMA ErrorsStep ==
  ASSUME IInv, [Next]_vars
  PROVE  Errors' /\ ErrorIsLatest'
<1>1. /\ Errors /\ ErrorIsLatest /\ TypeOK /\ Len(stack) = depth
  BY DEF IInv, Frames
<1>2. /\ TakeToken.error \in ErrorOrNone /\ ReadToken(config, input, cursor).error \in ErrorOrNone
  BY <1>1, TakeTokenType, ReadTokenHere
<1> USE DEF Errors, ErrorIsLatest, None
<1>3. ASSUME NEW e, e # None, FailWith(e), result' = result
      PROVE  Errors' /\ ErrorIsLatest'
  BY <1>3 DEF FailWith
<1>4. ASSUME InvalidType, Running, result' = result
      PROVE  Errors' /\ ErrorIsLatest'
  BY <1>1, <1>4 DEF InvalidType, Running
<1>5. ASSUME NEW p, Proceed(p), p \notin {"error", "done"}, Running, result' = result
      PROVE  Errors' /\ ErrorIsLatest'
  BY <1>1, <1>5 DEF Proceed, Running
<1>6. CASE UNCHANGED vars
  BY <1>1, <1>6 DEF vars
<1>7. ASSUME NEW expected, TakeScalar(expected)
      PROVE  Errors' /\ ErrorIsLatest'
  BY <1>3, <1>4, <1>5, <1>7 DEF TakeScalar, Running
<1>8. CASE Char
  BY <1>3, <1>4, <1>5, <1>8 DEF Char, Running
<1>9. CASE PeekToken
  BY <1>3, <1>5, <1>9 DEF PeekToken, Running
<1>10. ASSUME NEW kind, NEW next \in {"first", "key"}, Begin(kind, next)
       PROVE  Errors' /\ ErrorIsLatest'
  BY <1>3, <1>4, <1>5, <1>10 DEF Begin, Full, Running
<1>11. CASE ArrayHasMore
  BY <1>3, <1>5, <1>11 DEF ArrayHasMore, Running
<1>12. CASE ObjectKey
  BY <1>3, <1>4, <1>5, <1>12 DEF ObjectKey, Running
<1>13. CASE EntrySep
  BY <1>3, <1>5, <1>13 DEF EntrySep, TooMany, Running
<1>14. CASE EndContainer
  BY <1>3, <1>5, <1>14 DEF EndContainer, Running
<1>15. CASE SkipValue \/ SkipStep
  BY <1>3, <1>5, <1>15 DEF SkipValue, SkipStep, Running
<1>16. CASE Save \/ Commit \/ Propagate
  BY <1>1, <1>16 DEF Save, Commit, Propagate, decoder
<1>17. CASE Restore
  BY <1>1, <1>17 DEF Restore, RestoreDecoder, RestoredDepth
<1>18. CASE FromSliceOk
  <2>1. depth = 0
    BY <1>1, <1>18 DEF FromSliceOk, TypeOK
  <2>2. result' \in {"TrailingBytes", "ok"} /\ phase' = "done"
    BY <1>18, <2>1 DEF FromSliceOk, Returns
  <2> QED BY <2>2
<1>19. CASE FromSliceErr
  BY <1>1, <1>19 DEF FromSliceErr, Returns, decoder
<1> QED BY <1>6, <1>7, <1>8, <1>9, <1>10, <1>11, <1>12, <1>13, <1>14, <1>15, <1>16,
           <1>17, <1>18, <1>19
        DEF Next, Unit, Bool, Number, String, NextToken, BeginArray, BeginObject

LEMMA PendingStep ==
  ASSUME IInv, [Next]_vars
  PROVE  SkipOpen' /\ LookaheadPending'
<1>1. SkipOpen /\ LookaheadPending /\ nested \in Nat
  BY DEF IInv, TypeOK
<1> USE DEF SkipOpen, LookaheadPending, FailWith, InvalidType, Proceed
<1>2. CASE UNCHANGED vars
  BY <1>1, <1>2 DEF vars
<1>3. ASSUME NEW expected, TakeScalar(expected)
      PROVE  SkipOpen' /\ LookaheadPending'
  BY <1>3 DEF TakeScalar
<1>4. CASE Char \/ PeekToken
  BY <1>4 DEF Char, PeekToken
<1>5. ASSUME NEW kind, NEW next \in {"first", "key"}, Begin(kind, next)
      PROVE  SkipOpen' /\ LookaheadPending'
  BY <1>5 DEF Begin, Full
<1>6. CASE ArrayHasMore \/ ObjectKey
  BY <1>1, <1>6 DEF ArrayHasMore, ObjectKey
<1>7. CASE EntrySep
  BY <1>1, <1>7 DEF EntrySep, TooMany
<1>8. CASE EndContainer
  BY <1>1, <1>8 DEF EndContainer
<1>9. CASE SkipValue
  BY <1>9 DEF SkipValue
<1>10. CASE SkipStep
  BY <1>1, <1>10 DEF SkipStep
<1>11. CASE Save \/ Commit \/ Propagate
  BY <1>1, <1>11 DEF Save, Commit, Propagate, decoder
<1>12. CASE Restore
  BY <1>12 DEF Restore, RestoreDecoder, RestoredDepth
<1>13. CASE FromSliceOk \/ FromSliceErr
  BY <1>1, <1>13 DEF FromSliceOk, FromSliceErr, Returns, decoder
<1> QED BY <1>2, <1>3, <1>4, <1>5, <1>6, <1>7, <1>8, <1>9, <1>10, <1>11, <1>12, <1>13
        DEF Next, Unit, Bool, Number, String, NextToken, BeginArray, BeginObject

---------------------------------------------------------------------------
(* The inductive invariant holds initially and is preserved.                *)

LEMMA IInvInit ==
  ASSUME Init
  PROVE  IInv
<1> USE DEF Init, InitWith
<1>1. TypeOK
  <2>1. config \in Config /\ input \in Seq(Byte)
    BY ConfigsAssumption, InputsAssumption
  <2>2. Len(input) \in Nat /\ config.depth_limit \in Nat
    BY <2>1 DEF Config
  <2>3. cursor \in 0..Len(input) /\ depth \in 0..config.depth_limit
    BY <2>2
  <2>4. counts \in [1..MaxDepth -> Nat] /\ attempts \in Seq(Attempt)
    OBVIOUS
  <2>5. lookahead \in Seq(Token) /\ Len(lookahead) <= 1 /\ stack \in Seq(Containers) /\ elems \in Seq(Nat)
    OBVIOUS
  <2> QED BY <2>3, <2>4, <2>5 DEF TypeOK, ErrorOrNone, Phases
<1>2. Frames
  BY DEF Frames
<1>3. MarkMatches /\ MarksNested /\ MarksBelow
  BY DEF MarkMatches, MarksNested, MarksBelow
<1>4. Errors /\ SkipOpen /\ LookaheadPending /\ ErrorIsLatest
  BY DEF Errors, SkipOpen, LookaheadPending, ErrorIsLatest, None
<1> QED BY <1>1, <1>2, <1>3, <1>4 DEF IInv

LEMMA IInvStep ==
  ASSUME IInv, [Next]_vars
  PROVE  IInv'
BY TypeStep, FramesStep, MarksStep, ErrorsStep, PendingStep DEF IInv, Marks

THEOREM Inductive == Spec => []IInv
BY IInvInit, IInvStep, PTL DEF Spec

(* Every value of the state is of its type: in particular the cursor never  *)
(* leaves the input and depth never exceeds the configured limit, however   *)
(* the client mixes reads, skips, saves and restores.                       *)
THEOREM TypeCorrect == Spec => []TypeOK
<1>1. IInv => TypeOK
  BY DEF IInv
<1> QED BY <1>1, Inductive, PTL

(* counts[i] is exactly the number of elements received from the i-th open  *)
(* container (container_sep, exit_container, restore of decoder.rs).        *)
THEOREM FramesCorrect == Spec => []FramesMatch
<1>1. ASSUME IInv PROVE FramesMatch
  <2>1. /\ depth \in Nat /\ MaxDepth \in Nat /\ depth <= MaxDepth
    BY <1>1, DepthType DEF IInv
  <2>2. CASE phase \in {"error", "done"}
    BY <2>2 DEF FramesMatch
  <2>3. CASE phase \notin {"error", "done"}
    <3>1. ASSUME NEW i \in 1..MaxDepth
          PROVE  counts[i] = IF i <= depth THEN elems[i] ELSE 0
      <4>1. i <= depth => i \in 1..depth
        BY <2>1
      <4>2. ~(i <= depth) => i > depth
        BY <2>1
      <4> QED BY <1>1, <2>3, <4>1, <4>2 DEF IInv, Frames
    <3> QED BY <1>1, <3>1 DEF FramesMatch, IInv, Frames
  <2> QED BY <2>2, <2>3
<1> QED BY <1>1, Inductive, PTL

(* from_slice reports the error of the call that failed last, never one     *)
(* left behind by an attempt that was restored (wire_error of decoder.rs).  *)
THEOREM ErrorsCorrect == Spec => []ErrorIsLatest
<1>1. IInv => ErrorIsLatest
  BY DEF IInv
<1> QED BY <1>1, Inductive, PTL

---------------------------------------------------------------------------
(***************************************************************************)
(* peek_token and restore do not consume, provided no mark is taken while a *)
(* lookahead token is pending: then a mark's cursor is where the value it   *)
(* was taken at begins.                                                    *)
(***************************************************************************)
Positioned == NextTokenIsNext /\ MarksAtStart

LEMMA PositionedStep ==
  ASSUME SaveAfterPeek = FALSE, IInv, Positioned, [Next]_vars
  PROVE  Positioned'
<1>1. TypeOK /\ LookaheadPending /\ MarksAtStart /\ NextTokenIsNext
  BY DEF IInv, Positioned
<1> USE DEF Positioned, NextTokenIsNext, MarksAtStart, LookaheadPending, FailWith, InvalidType, Proceed
<1>2. CASE UNCHANGED vars
  BY <1>1, <1>2 DEF vars
<1>3. ASSUME NEW expected, TakeScalar(expected)
      PROVE  Positioned'
  BY <1>1, <1>3 DEF TakeScalar, client
<1>4. CASE Char
  BY <1>1, <1>4 DEF Char, client
<1>5. CASE PeekToken
  <2> DEFINE r == ReadToken(config, input, cursor)
  <2>1. /\ cursor = start /\ UNCHANGED <<config, input, attempts, start>> /\ cursor' = r.cursor
    BY <1>1, <1>5 DEF PeekToken, client
  <2>2. phase' = "value" => r.error = None /\ lookahead' = <<r.val>>
    BY <1>5 DEF PeekToken
  <2>3. r.error = None => r = Res(r.cursor, None, r.val)
    <3>1. r = Res(r.cursor, r.error, r.val)
      BY ReadTokenShape
    <3> QED BY <3>1
  <2>4. \A t : <<t>> # <<>> /\ <<t>>[1] = t
    OBVIOUS
  <2> HIDE DEF r
  <2>5. phase' = "value" => ReadToken(config', input', start') = Res(cursor', None, lookahead'[1])
    BY <2>1, <2>2, <2>3, <2>4 DEF r
  <2>6. phase' = "value" => lookahead' # <<>>
    BY <2>2, <2>4
  <2> QED BY <1>1, <2>1, <2>5, <2>6
<1>6. ASSUME NEW kind, NEW next \in {"first", "key"}, Begin(kind, next)
      PROVE  Positioned'
  BY <1>1, <1>6 DEF Begin, Full
<1>7. CASE ArrayHasMore
  BY <1>1, <1>7 DEF ArrayHasMore, client
<1>8. CASE ObjectKey
  BY <1>1, <1>8 DEF ObjectKey, client
<1>9. CASE EntrySep
  BY <1>1, <1>9 DEF EntrySep, TooMany
<1>10. CASE EndContainer
  BY <1>1, <1>10 DEF EndContainer
<1>11. CASE SkipValue \/ SkipStep
  BY <1>1, <1>11 DEF SkipValue, SkipStep, client
<1>12. CASE Save
  <2> DEFINE m == [cursor |-> cursor, depth |-> depth, stack |-> stack,
                   elems |-> elems, start |-> start]
  <2>1. m.cursor = m.start
    BY <1>1, <1>12 DEF Save
  <2>2. attempts' = Append(attempts, m) /\ attempts \in Seq(Attempt)
    BY <1>1, <1>12 DEF Save, TypeOK
  <2> HIDE DEF m
  <2>3. \A a \in 1..Len(attempts') : attempts'[a] = m \/ (a \in 1..Len(attempts) /\ attempts'[a] = attempts[a])
    BY <2>2
  <2>4. UNCHANGED <<config, input, cursor, lookahead, phase, start>>
    BY <1>12 DEF Save, decoder
  <2> QED BY <1>1, <2>1, <2>3, <2>4
<1>13. CASE Commit \/ Propagate
  <2>1. /\ attempts # <<>> /\ attempts' = Front(attempts)
        /\ UNCHANGED <<config, input, cursor, lookahead, phase, start>>
    BY <1>13 DEF Commit, Propagate, AttemptComplete, decoder
  <2>2. \A a \in 1..Len(attempts') : attempts'[a] = attempts[a] /\ a \in 1..Len(attempts)
    BY <2>1, MarkType
  <2> QED BY <1>1, <2>1, <2>2
<1>14. CASE Restore
  <2>1. /\ attempts # <<>> /\ attempts' = Front(attempts) /\ lookahead' = <<>>
        /\ cursor' = Last(attempts).cursor /\ start' = Last(attempts).start
    BY <1>14 DEF Restore, RestoreDecoder, RestoredDepth
  <2>2. /\ \A a \in 1..Len(attempts') : attempts'[a] = attempts[a] /\ a \in 1..Len(attempts)
        /\ Last(attempts) = attempts[Len(attempts)] /\ Len(attempts) \in 1..Len(attempts)
    BY <2>1, MarkType
  <2> QED BY <1>1, <2>1, <2>2
<1>15. CASE FromSliceOk \/ FromSliceErr
  BY <1>1, <1>15 DEF FromSliceOk, FromSliceErr, Returns, client
<1> QED BY <1>2, <1>3, <1>4, <1>5, <1>6, <1>7, <1>8, <1>9, <1>10, <1>11, <1>12, <1>13,
           <1>14, <1>15
        DEF Next, Unit, Bool, Number, String, NextToken, BeginArray, BeginObject

(* The next value a client reads is the one it has not consumed yet: what   *)
(* it peeked at, or what an abandoned attempt gave back (peek_token, save   *)
(* and restore of decoder.rs).                                              *)
THEOREM NothingConsumed ==
  ASSUME SaveAfterPeek = FALSE
  PROVE  Spec => []NextTokenIsNext
<1>1. Init => Positioned
  BY DEF Init, InitWith, Positioned, NextTokenIsNext, MarksAtStart
<1>2. IInv /\ Positioned /\ [Next]_vars => Positioned'
  BY PositionedStep
<1>3. Positioned => NextTokenIsNext
  BY DEF Positioned
<1> QED BY <1>1, <1>2, <1>3, Inductive, PTL DEF Spec
===========================================================================
