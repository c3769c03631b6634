--------------------------- MODULE EncoderProofs ---------------------------
(***************************************************************************)
(* Encoder for every set of configurations, scalars and keys, every         *)
(* MAX_DEPTH and every slice: what the three sinks hold, and when an        *)
(* element is refused.                                                     *)
(***************************************************************************)
EXTENDS Encoder, SequenceTheorems, NatProofs

(* what is emitted is a sequence; of what does not matter here *)
IsSeq(s) == \E S : s \in Seq(S)

(* the function that OpenAfter reads its result from *)
OpenTrace(open, evs) ==
  open = [i \in 0..Len(evs) |-> IF i = 0 THEN <<>> ELSE OpenStep(open[i - 1], evs[i])]

---------------------------------------------------------------------------
(* The invariant *)

Frame == [kind : Containers, n : Nat]

(* how many values, and keys, a container at depth i was given: the one that *)
(* the next value goes to has counted it already                            *)
Counted(i) == IF stack[i] = "array" THEN counts[i] ELSE 2 * counts[i]
Given(i)   == Counted(i) - (IF i = depth /\ phase = "value" THEN 1 ELSE 0)

(* the counts of the encoder are those of the open containers *)
CountsMatch(open) ==
  /\ open \in Seq(Frame) /\ Len(open) = depth /\ Len(stack) = depth
  /\ \A i \in 1..depth : open[i].kind = stack[i] /\ open[i].n = Given(i)

(* where separators, keys and ends may come *)
PhaseMatches ==
  /\ phase = "element" => depth > 0 /\ stack[depth] = "array"
  /\ phase = "member" => depth > 0 /\ stack[depth] = "object"

Refused ==
  LET here  == Last(OpenAfter(events))
      entry == IF here.kind = "array" THEN here.n + 1 ELSE (here.n + 1) \div 2
  IN  Exceeds(entry, config.collection_limit)

EncTypes ==
  /\ config \in Configs
  /\ depth \in 0..MaxDepth /\ counts \in [1..MaxDepth -> Nat]
  /\ stack \in Seq(Containers) /\ events \in Seq(Token)
  /\ phase \in {"value", "element", "member", "complete", "error", "done"}
  /\ \A i \in 1..MaxDepth : i > depth => counts[i] = 0

EncInv ==
  /\ EncTypes
  /\ IsSeq(output) /\ SinksAgree
  /\ \E open : OpenTrace(open, events)
  /\ phase \notin {"error", "done"} =>
       CountsMatch(OpenAfter(events)) /\ PhaseMatches /\ wire_error = None
  /\ wire_error = "CollectionLimit" => Refused
  /\ result = "CollectionLimit" => wire_error = "CollectionLimit"

---------------------------------------------------------------------------
(* The open containers after one more event *)

LEMMA OpenNone == OpenTrace([i \in 0..0 |-> <<>>], <<>>) /\ OpenAfter(<<>>) = <<>>
<1>1. OpenTrace([i \in 0..0 |-> <<>>], <<>>)
  BY DEF OpenTrace
<1> DEFINE f == CHOOSE open : OpenTrace(open, <<>>)
<1>2. OpenTrace(f, <<>>)
  BY <1>1, Zenon
<1>3. OpenAfter(<<>>) = f[0]
  BY DEF OpenAfter, OpenTrace
<1> HIDE DEF f
<1>4. f[0] = <<>>
  BY <1>2 DEF OpenTrace
<1>5. QED
  BY <1>1, <1>3, <1>4

LEMMA OpenNext ==
  ASSUME NEW evs \in Seq(Token), NEW e \in Token, \E open : OpenTrace(open, evs)
  PROVE  /\ \E open : OpenTrace(open, Append(evs, e))
         /\ OpenAfter(Append(evs, e)) = OpenStep(OpenAfter(evs), e)
<1> DEFINE f == CHOOSE open : OpenTrace(open, evs)
           more == Append(evs, e)
           h == CHOOSE open : OpenTrace(open, more)
<1>1. OpenTrace(f, evs) /\ OpenAfter(evs) = f[Len(evs)]
  BY DEF OpenAfter, OpenTrace
<1>2. OpenAfter(more) = h[Len(more)]
  BY DEF OpenAfter, OpenTrace
<1> HIDE DEF f
<1>3. PICK n : n = Len(evs) /\ n \in Nat
  OBVIOUS
<1>4. Len(more) = n + 1 /\ more[n + 1] = e /\ \A i \in 1..n : more[i] = evs[i]
  BY <1>3
<1>5. PICK top : top = OpenStep(OpenAfter(evs), e)
  OBVIOUS
<1> DEFINE g == [i \in 0..(n + 1) |-> IF i <= n THEN f[i] ELSE top]
<1>6. g[0] = <<>>
  BY <1>1, <1>3 DEF OpenTrace
<1>7. ASSUME NEW i \in 1..(n + 1) PROVE g[i] = OpenStep(g[i - 1], more[i])
  <2>1. g[i - 1] = f[i - 1]
    BY <1>3
  <2>2. CASE i = n + 1
    <3>1. g[i] = top /\ f[i - 1] = OpenAfter(evs) /\ more[i] = e
      BY <1>1, <1>3, <1>4, <2>2
    <3>2. QED
      BY <1>5, <2>1, <3>1
  <2>3. CASE i # n + 1
    <3>1. i \in 1..n /\ i \in 0..n /\ i # 0 /\ g[i] = f[i] /\ more[i] = evs[i]
      BY <1>3, <1>4, <2>3
    <3>2. f[i] = OpenStep(f[i - 1], evs[i])
      BY <1>1, <1>3, <3>1 DEF OpenTrace
    <3>3. QED
      BY <2>1, <3>1, <3>2
  <2>4. QED
    BY <2>2, <2>3
<1>8. DOMAIN g = 0..(n + 1)
  OBVIOUS
<1>9. OpenTrace(g, more)
  <2>1. g = [i \in 0..(n + 1) |-> g[i]]
    OBVIOUS
  <2> HIDE DEF g, more
  <2>2. \A i \in 0..(n + 1) :
          g[i] = IF i = 0 THEN <<>> ELSE OpenStep(g[i - 1], more[i])
    <3>1. \A i \in 0..(n + 1) : i = 0 \/ i \in 1..(n + 1)
      BY <1>3
    <3>2. \A i \in 1..(n + 1) : i # 0
      OBVIOUS
    <3>3. QED
      BY <1>6, <1>7, <3>1, <3>2
  <2>3. QED
    BY <1>4, <2>1, <2>2 DEF OpenTrace
<1>10. OpenTrace(h, more)
  BY <1>9, Zenon
<1> HIDE DEF g, h, more
<1> DEFINE S == {i \in Nat : i <= n + 1 => h[i] = g[i]}
<1>11. 0 \in S
  <2>1. h[0] = <<>>
    BY <1>3, <1>4, <1>10 DEF OpenTrace
  <2>2. QED
    BY <1>6, <2>1
<1>12. ASSUME NEW i \in Nat, i \in S PROVE i + 1 \in S
  <2>1. SUFFICES ASSUME i + 1 <= n + 1 PROVE h[i + 1] = g[i + 1]
    OBVIOUS
  <2>2. i + 1 \in 1..(n + 1) /\ i + 1 \in 0..(n + 1) /\ i + 1 # 0 /\ i + 1 - 1 = i
    BY <1>3, <2>1
  <2>3. h[i] = g[i]
    BY <1>3, <1>12, <2>1
  <2>4. h[i + 1] = OpenStep(h[i], more[i + 1])
    BY <1>4, <1>10, <2>2 DEF OpenTrace
  <2>5. g[i + 1] = OpenStep(g[i], more[i + 1])
    BY <1>7, <2>2
  <2>6. QED
    BY <2>3, <2>4, <2>5
<1>13. n + 1 \in S
  <2> HIDE DEF S
  <2>1. \A i \in Nat : i \in S => i + 1 \in S
    BY <1>12
  <2>2. Nat \subseteq S
    BY <1>11, <2>1, NatsIn
  <2>3. QED
    BY <1>3, <2>2
<1>14. h[n + 1] = g[n + 1]
  BY <1>3, <1>13
<1>15. g[n + 1] = top
  BY <1>3 DEF g
<1>16. QED
  BY <1>2, <1>4, <1>5, <1>9, <1>14, <1>15 DEF more

---------------------------------------------------------------------------
(* The sinks *)

Least(a, b) == IF a < b THEN a ELSE b

(* what a slice of Capacity bytes has of an output *)
Fitting(s) == SubSeq(s, 1, Least(Len(s), Capacity))

LEMMA Rooms ==
  ASSUME NEW n \in Nat, NEW m \in Nat, NEW c \in Nat
  PROVE  /\ Least(n, c) \in 0..n /\ Least(c - Least(n, c), m) \in 0..m
         /\ Least(n, c) + Least(c - Least(n, c), m) = Least(n + m, c)
         /\ Least(c - Least(n, c), m) > 0 => Least(n, c) = n
BY DEF Least

LEMMA PrefixOf ==
  ASSUME NEW S, NEW s \in Seq(S), NEW n \in 0..Len(s)
  PROVE  /\ SubSeq(s, 1, n) \in Seq(S) /\ Len(SubSeq(s, 1, n)) = n
         /\ \A i \in 1..n : SubSeq(s, 1, n)[i] = s[i]
<1>1. n \in Int /\ \A i \in 1..n : s[i] \in S
  BY ElementOfSeq
<1>2. QED
  BY <1>1, SubSeqProperties

(* SliceWriter::write_all goes on where it stopped *)
LEMMA SliceGrows ==
  ASSUME Capacity \in Nat, NEW S, NEW s \in Seq(S), NEW bytes \in Seq(S)
  PROVE  SliceWrite(Fitting(s), Len(s), bytes) = Fitting(s \o bytes)
<1> DEFINE n == Len(s)
           m == Len(bytes)
           begin == Least(n, Capacity)
           room == Least(Capacity - begin, m)
           whole == s \o bytes
           end == Least(n + m, Capacity)
           put == SubSeq(bytes, 1, room)
<1>1. /\ n \in Nat /\ m \in Nat /\ begin \in 0..n /\ room \in 0..m /\ begin + room = end
      /\ room > 0 => begin = n
  <2>1. n \in Nat /\ m \in Nat
    OBVIOUS
  <2> HIDE DEF n, m
  <2>2. QED
    BY <2>1, Rooms
<1>2. /\ Fitting(s) \in Seq(S) /\ Len(Fitting(s)) = begin
      /\ \A i \in 1..begin : Fitting(s)[i] = s[i]
  BY <1>1, PrefixOf DEF Fitting
<1>3. put \in Seq(S) /\ Len(put) = room /\ \A i \in 1..room : put[i] = bytes[i]
  BY <1>1, PrefixOf
<1>4. /\ whole \in Seq(S) /\ Len(whole) = n + m
      /\ \A i \in 1..(n + m) : whole[i] = IF i <= n THEN s[i] ELSE bytes[i - n]
  BY ConcatProperties
<1>5. end \in 0..(n + m)
  BY <1>1 DEF Least
<1>6. /\ Fitting(whole) \in Seq(S) /\ Len(Fitting(whole)) = end
      /\ \A i \in 1..end : Fitting(whole)[i] = whole[i]
  BY <1>4, <1>5, PrefixOf DEF Fitting
<1>7. SliceWrite(Fitting(s), n, bytes) = Fitting(s) \o put
  <2>1. SubSeq(Fitting(s), 1, begin) = Fitting(s)
    BY <1>2, SubSeqFull
  <2>2. SliceWrite(Fitting(s), n, bytes) = SubSeq(Fitting(s), 1, begin) \o put
    BY DEF SliceWrite, Least
  <2>3. QED
    BY <2>1, <2>2
<1> DEFINE written1 == Fitting(s) \o put
<1>8. /\ written1 \in Seq(S) /\ Len(written1) = end
      /\ \A i \in 1..end : written1[i] = IF i <= begin THEN Fitting(s)[i] ELSE put[i - begin]
  <2> HIDE DEF n, m, begin, room, whole, end, put
  <2>1. PICK front : front = Fitting(s)
    OBVIOUS
  <2>2. front \in Seq(S) /\ Len(front) = begin
    BY <1>2, <2>1
  <2>3. /\ front \o put \in Seq(S) /\ Len(front \o put) = begin + room
        /\ \A i \in 1..(begin + room) :
             (front \o put)[i] = IF i <= begin THEN front[i] ELSE put[i - begin]
    BY <1>3, <2>2, ConcatProperties
  <2>4. QED
    BY <1>1, <2>1, <2>3
<1>9. ASSUME NEW i \in 1..end PROVE written1[i] = Fitting(whole)[i]
  <2> HIDE DEF n, m, begin, room, whole, end, put, written1
  <2>1. i \in 1..(n + m) /\ Fitting(whole)[i] = whole[i]
    BY <1>1, <1>5, <1>6
  <2>2. CASE i <= begin
    <3>1. i \in 1..begin /\ i <= n
      BY <1>1, <2>2
    <3>2. QED
      BY <1>2, <1>4, <1>8, <2>1, <2>2, <3>1
  <2>3. CASE i > begin
    <3>1. room > 0 /\ begin = n
      BY <1>1, <1>5, <2>3
    <3>2. i - begin \in 1..room /\ ~(i <= begin) /\ ~(i <= n)
      BY <1>1, <2>3, <3>1
    <3>3. written1[i] = bytes[i - begin]
      BY <1>3, <1>8, <3>2
    <3>4. whole[i] = bytes[i - n]
      BY <1>4, <2>1, <3>2
    <3>5. QED
      BY <2>1, <3>1, <3>3, <3>4
  <2>4. QED
    BY <1>1, <2>2, <2>3
<1> HIDE DEF whole, end, written1, put
<1>10. written1 = Fitting(whole)
  BY <1>6, <1>8, <1>9, SeqEqual
<1>11. QED
  BY <1>7, <1>10 DEF whole, written1, put

(* what holds after each emit of a method *)
EmitsAgree(acc) ==
  /\ \E S, T : acc \in [ok : BOOLEAN, written : Nat, output : S, slice : T,
                        required : Nat, counted : Nat]
  /\ IsSeq(acc.output)
  /\ acc.slice = Fitting(acc.output) /\ acc.required = Len(acc.output)
  /\ acc.counted = Len(acc.output) /\ acc.written = Len(acc.output)

LEMMA EmitKeeps ==
  ASSUME Capacity \in Nat, NEW acc, EmitsAgree(acc), NEW bytes, IsSeq(bytes)
  PROVE  EmitsAgree(Emit(acc, bytes))
<1>1. PICK S : acc.output \in Seq(S) /\ bytes \in Seq(S)
  <2>1. PICK A : acc.output \in Seq(A)
    BY DEF EmitsAgree, IsSeq
  <2>2. PICK B : bytes \in Seq(B)
    BY DEF IsSeq
  <2>3. acc.output \in Seq(A \union B) /\ bytes \in Seq(A \union B)
    BY <2>1, <2>2
  <2>4. QED
    BY <2>3
<1>2. CASE ~acc.ok \/ Exceeds(acc.written + Len(bytes), config.limit)
  <2>1. Emit(acc, bytes) = acc \/ Emit(acc, bytes) = [acc EXCEPT !.ok = FALSE]
    BY <1>2 DEF Emit
  <2>2. EmitsAgree([acc EXCEPT !.ok = FALSE])
    <3>1. PICK S1, T1 : acc \in [ok : BOOLEAN, written : Nat, output : S1, slice : T1,
                                 required : Nat, counted : Nat]
      BY DEF EmitsAgree
    <3>2. PICK next : next = [acc EXCEPT !.ok = FALSE]
      OBVIOUS
    <3>3. /\ next \in [ok : BOOLEAN, written : Nat, output : S1, slice : T1,
                       required : Nat, counted : Nat]
          /\ next.written = acc.written /\ next.output = acc.output
          /\ next.slice = acc.slice /\ next.required = acc.required
          /\ next.counted = acc.counted
      BY <3>1, <3>2
    <3>4. QED
      BY <3>2, <3>3 DEF EmitsAgree
  <2>3. QED
    BY <2>1, <2>2
<1>3. CASE acc.ok /\ ~Exceeds(acc.written + Len(bytes), config.limit)
  <2>1. PICK s, n, more : /\ s = acc.output /\ n = acc.written + Len(bytes)
                          /\ more = acc.output \o bytes
    OBVIOUS
  <2>2. more \in Seq(S) /\ Len(more) = n
    BY <1>1, <2>1, ConcatProperties DEF EmitsAgree
  <2>3. SliceWrite(acc.slice, acc.required, bytes) = Fitting(more)
    <3>1. SliceWrite(Fitting(s), Len(s), bytes) = Fitting(s \o bytes)
      BY <1>1, <2>1, SliceGrows
    <3>2. acc.slice = Fitting(s) /\ acc.required = Len(s) /\ more = s \o bytes
      BY <2>1 DEF EmitsAgree
    <3>3. QED
      BY <3>1, <3>2
  <2>4. Emit(acc, bytes) = [ok |-> TRUE, written |-> n, output |-> more,
                            slice |-> Fitting(more), required |-> n, counted |-> n]
    BY <1>3, <2>1, <2>3 DEF Emit, EmitsAgree
  <2>5. PICK next, slice1 : next = Emit(acc, bytes) /\ slice1 = Fitting(more)
    OBVIOUS
  <2>6. next \in [ok : BOOLEAN, written : Nat, output : {more}, slice : {slice1},
                  required : Nat, counted : Nat]
    BY <2>2, <2>4, <2>5
  <2>7. /\ next.written = n /\ next.output = more /\ next.slice = slice1
        /\ next.required = n /\ next.counted = n
    BY <2>4, <2>5
  <2>8. IsSeq(next.output)
    BY <2>2, <2>7 DEF IsSeq
  <2>9. EmitsAgree(next)
    BY <2>2, <2>5, <2>6, <2>7, <2>8 DEF EmitsAgree
  <2>10. QED
    BY <2>5, <2>9
<1>4. QED
  BY <1>2, <1>3 DEF EmitsAgree

LEMMA IntegerIsSeq ==
  ASSUME NEW n, NEW width \in {8, 16}, NEW signed \in BOOLEAN
  PROVE  IsSeq(IntegerBytes(config, n, width, signed))
<1>1. ASSUME NEW f, NEW w \in Nat, f = [i \in 1..w |-> f[i]] PROVE IsSeq(f) /\ Len(f) = w
  <2>1. f \in [1..w -> {f[i] : i \in 1..w}]
    BY <1>1
  <2>2. f \in Seq({f[i] : i \in 1..w}) /\ Len(f) = w
    BY <2>1
  <2>3. QED
    BY <2>2 DEF IsSeq
<1>2. ASSUME NEW v, NEW w \in Nat
      PROVE  /\ IsSeq(LEBytes(v, w)) /\ IsSeq(SBytes(v, w))
             /\ IsSeq(LittleEndian(config, LEBytes(v, w)))
             /\ IsSeq(LittleEndian(config, SBytes(v, w)))
  <2>1. IsSeq(LEBytes(v, w)) /\ Len(LEBytes(v, w)) = w
    BY <1>1 DEF LEBytes
  <2>2. IsSeq(SBytes(v, w)) /\ Len(SBytes(v, w)) = w
    <3>1. CASE v >= 0
      BY <2>1, <3>1 DEF SBytes
    <3>2. CASE ~(v >= 0)
      BY <1>1, <3>2 DEF SBytes
    <3>3. QED
      BY <3>1, <3>2
  <2>3. ASSUME NEW p, IsSeq(p), Len(p) = w PROVE IsSeq(LittleEndian(config, p))
    BY <1>1, <2>3 DEF LittleEndian
  <2>4. QED
    BY <2>1, <2>2, <2>3
<1>3. ASSUME NEW v PROVE IsSeq(VarintBytes(config, v))
  <2>1. ASSUME NEW b PROVE IsSeq(<<b>>)
    <3>1. <<b>> \in Seq({b})
      OBVIOUS
    <3>2. QED
      BY <3>1 DEF IsSeq
  <2>2. ASSUME NEW s, NEW t, IsSeq(s), IsSeq(t) PROVE IsSeq(s \o t)
    <3>1. PICK A, B : s \in Seq(A) /\ t \in Seq(B)
      BY <2>2 DEF IsSeq
    <3>2. s \o t \in Seq(A \union B)
      BY <3>1
    <3>3. QED
      BY <3>2 DEF IsSeq
  <2>3. QED
    BY <1>2, <2>1, <2>2 DEF VarintBytes
<1>4. QED
  BY <1>2, <1>3 DEF IntegerBytes

LEMMA FewAreSeq == ASSUME NEW b PROVE IsSeq(<<b>>)
<1>1. <<b>> \in Seq({b})
  OBVIOUS
<1>2. QED
  BY <1>1 DEF IsSeq

LEMMA StringKeeps ==
  ASSUME Capacity \in Nat, NEW acc, EmitsAgree(acc), NEW bytes, IsSeq(bytes)
  PROVE  EmitsAgree(EmitString(acc, bytes))
<1>1. PICK tag, len : /\ tag = <<TAG_STRING>>
                      /\ len = IntegerBytes(config, Len(bytes), 8, FALSE)
  OBVIOUS
<1>2. IsSeq(tag) /\ IsSeq(len)
  BY <1>1, FewAreSeq, IntegerIsSeq
<1>3. PICK one : one = Emit(acc, tag)
  OBVIOUS
<1>4. PICK two : two = Emit(one, len)
  OBVIOUS
<1>5. EmitsAgree(one)
  BY <1>2, <1>3, EmitKeeps
<1>6. EmitsAgree(two)
  BY <1>2, <1>4, <1>5, EmitKeeps
<1>7. EmitsAgree(Emit(two, bytes))
  BY <1>6, EmitKeeps
<1>8. QED
  BY <1>1, <1>3, <1>4, <1>7 DEF EmitString

LEMMA ScalarKeeps ==
  ASSUME Capacity \in Nat, NEW acc, EmitsAgree(acc), NEW t \in Token, t.kind \in Scalars
  PROVE  EmitsAgree(EmitScalar(acc, t))
<1>1. ASSUME NEW b PROVE EmitsAgree(Emit(acc, <<b>>))
  BY FewAreSeq, EmitKeeps
<1>2. ASSUME NEW b, NEW bytes, IsSeq(bytes) PROVE EmitsAgree(Emit(Emit(acc, <<b>>), bytes))
  <2>1. PICK one : one = Emit(acc, <<b>>)
    OBVIOUS
  <2>2. EmitsAgree(one)
    BY <1>1, <2>1
  <2>3. EmitsAgree(Emit(one, bytes))
    BY <1>2, <2>2, EmitKeeps
  <2>4. QED
    BY <2>1, <2>3
<1>3. CASE t.kind = "null"
  BY <1>1, <1>3 DEF EmitScalar
<1>4. CASE t.kind = "bool"
  BY <1>1, <1>4 DEF EmitScalar
<1>5. CASE t.kind = "str"
  <2>1. IsSeq(t.val)
    BY DEF Token, IsSeq
  <2>2. EmitsAgree(EmitString(acc, t.val))
    BY <2>1, StringKeeps
  <2>3. QED
    BY <1>5, <2>2 DEF EmitScalar
<1>6. CASE t.kind = "number"
  <2>1. CASE t.val[1] \in {TAG_F64, TAG_F32}
    <3>1. PICK zeros : zeros = [i \in 1..(IF t.val[1] = TAG_F64 THEN 8 ELSE 4) |-> 0]
      OBVIOUS
    <3>2. zeros \in Seq({0})
      BY <3>1
    <3>3. EmitsAgree(Emit(Emit(acc, <<t.val[1]>>), zeros))
      BY <1>2, <3>2 DEF IsSeq
    <3>4. QED
      BY <1>6, <2>1, <3>1, <3>3 DEF EmitScalar
  <2>2. CASE t.val[1] \notin {TAG_F64, TAG_F32}
    <3>1. PICK bytes : bytes = IntegerBytes(config, t.val[2], IntWidth(t.val[1]),
                                            t.val[1] \in {TAG_I64, TAG_I128})
      OBVIOUS
    <3>2. IsSeq(bytes)
      <4>1. PICK n, width, signed :
              /\ n = t.val[2] /\ width = IntWidth(t.val[1])
              /\ signed = (t.val[1] \in {TAG_I64, TAG_I128})
        OBVIOUS
      <4>2. width \in {8, 16} /\ signed \in BOOLEAN
        BY <4>1 DEF IntWidth
      <4>3. IsSeq(IntegerBytes(config, n, width, signed))
        BY <4>2, IntegerIsSeq
      <4>4. QED
        BY <3>1, <4>1, <4>3
    <3>3. EmitsAgree(Emit(Emit(acc, <<t.val[1]>>), bytes))
      BY <1>2, <3>2
    <3>4. QED
      BY <1>6, <2>2, <3>1, <3>3 DEF EmitScalar
  <2>3. QED
    BY <2>1, <2>2
<1>7. QED
  BY <1>3, <1>4, <1>5, <1>6 DEF Scalars

LEMMA BegunAgrees ==
  ASSUME Capacity \in Nat, IsSeq(output), SinksAgree
  PROVE  EmitsAgree(Begun)
<1>1. Len(output) \in Nat
  BY DEF IsSeq
<1>2. slice = Fitting(output)
  BY DEF SinksAgree, Fitting, Least
<1>3. Begun \in [ok : BOOLEAN, written : Nat, output : {output}, slice : {slice},
                 required : Nat, counted : Nat]
  BY <1>1 DEF Begun, SinksAgree
<1>4. /\ Begun.output = output /\ Begun.slice = slice /\ Begun.required = required
      /\ Begun.counted = counted /\ Begun.written = written
  BY DEF Begun
<1>5. QED
  BY <1>2, <1>3, <1>4 DEF EmitsAgree, SinksAgree

LEMMA EmitThenAgrees ==
  ASSUME NEW acc, EmitsAgree(acc), NEW p, EmitThen(acc, p)
  PROVE  /\ IsSeq(output)' /\ SinksAgree'
         /\ \/ phase' = p /\ wire_error' = wire_error
            \/ phase' = "error" /\ wire_error' = "SizeLimit"
<1>1. /\ written' = acc.written /\ output' = acc.output /\ slice' = acc.slice
      /\ required' = acc.required /\ counted' = acc.counted
  BY DEF EmitThen
<1>2. SinksAgree'
  BY <1>1 DEF EmitsAgree, SinksAgree, Fitting, Least
<1>3. IsSeq(output)'
  BY <1>1 DEF EmitsAgree, IsSeq
<1>4. QED
  BY <1>2, <1>3 DEF EmitThen

---------------------------------------------------------------------------
(* The steps *)

(* a value or a key is one more in the innermost container *)
LEMMA BumpedCounts ==
  ASSUME NEW open \in Seq(Frame)
  PROVE  /\ Bumped(open) \in Seq(Frame) /\ Len(Bumped(open)) = Len(open)
         /\ \A i \in 1..Len(open) :
              /\ Bumped(open)[i].kind = open[i].kind
              /\ Bumped(open)[i].n = open[i].n + (IF i = Len(open) THEN 1 ELSE 0)
<1>1. CASE open = <<>>
  BY <1>1 DEF Bumped
<1>2. CASE open # <<>>
  <2>1. PICK last : last = Len(open)
    OBVIOUS
  <2>2. last \in Nat /\ last > 0 /\ \A i \in 1..last : open[i] \in Frame
    BY <1>2, <2>1, ElementOfSeq
  <2>3. PICK top : top = [open[last] EXCEPT !.n = @ + 1]
    OBVIOUS
  <2>4. top \in Frame /\ top.kind = open[last].kind /\ top.n = open[last].n + 1
    BY <2>2, <2>3 DEF Frame
  <2>5. PICK next : next = [open EXCEPT ![last] = top]
    OBVIOUS
  <2>6. Bumped(open) = next
    BY <1>2, <2>1, <2>3, <2>5 DEF Bumped
  <2>7. /\ next \in Seq(Frame) /\ Len(next) = last
        /\ \A i \in 1..last : next[i] = IF i = last THEN top ELSE open[i]
    BY <2>1, <2>2, <2>4, <2>5
  <2>8. ASSUME NEW i \in 1..last
        PROVE  /\ next[i].kind = open[i].kind
               /\ next[i].n = open[i].n + (IF i = last THEN 1 ELSE 0)
    <3>1. open[i].n \in Nat
      BY <2>2 DEF Frame
    <3>2. QED
      BY <2>4, <2>7, <3>1
  <2>9. QED
    BY <2>1, <2>6, <2>7, <2>8
<1>3. QED
  BY <1>1, <1>2

(* the type of the sequence of events and of its open containers *)
LEMMA EventAppended ==
  ASSUME EncInv, NEW e \in Token, events' = Append(events, e)
  PROVE  /\ events' \in Seq(Token) /\ (\E open : OpenTrace(open, events))'
         /\ OpenAfter(events') = OpenStep(OpenAfter(events), e)
<1>1. events \in Seq(Token) /\ \E open : OpenTrace(open, events)
  BY DEF EncInv, EncTypes
<1>2. PICK evs : evs = events
  OBVIOUS
<1>3. /\ \E open : OpenTrace(open, Append(evs, e))
      /\ OpenAfter(Append(evs, e)) = OpenStep(OpenAfter(evs), e)
  BY <1>1, <1>2, OpenNext
<1>4. QED
  BY <1>1, <1>2, <1>3

(* a step that fails, or returns, only has to leave the types alone *)
LEMMA FailedInv ==
  ASSUME EncTypes', (\E open : OpenTrace(open, events))', IsSeq(output)', SinksAgree',
         phase' = "error", wire_error' # "CollectionLimit", result' # "CollectionLimit"
  PROVE  EncInv'
BY DEF EncInv

LEMMA GoesOnInv ==
  ASSUME EncTypes', (\E open : OpenTrace(open, events))', IsSeq(output)', SinksAgree',
         CountsMatch(OpenAfter(events))', PhaseMatches', wire_error' = None,
         result' # "CollectionLimit"
  PROVE  EncInv'
BY DEF EncInv, None

LEMMA AfterValueMatches ==
  ASSUME NEW s \in Seq(Containers)
  PROVE  /\ AfterValue(s) \in {"complete", "element", "member"}
         /\ AfterValue(s) = "element" => Len(s) > 0 /\ s[Len(s)] = "array"
         /\ AfterValue(s) = "member" => Len(s) > 0 /\ s[Len(s)] = "object"
<1>1. CASE s = <<>>
  BY <1>1 DEF AfterValue
<1>2. CASE s # <<>>
  <2>1. Len(s) \in Nat /\ Len(s) > 0 /\ s[Len(s)] \in Containers
    BY <1>2, ElementOfSeq
  <2>2. QED
    BY <1>2, <2>1 DEF AfterValue, Last, Containers
<1>3. QED
  BY <1>1, <1>2

LEMMA EncInitInv ==
  ASSUME EncodeInit
  PROVE  EncInv
<1>1. EncTypes
  BY EncodeAssumption DEF EncodeInit, EncTypes
<1>2. events = <<>> /\ OpenAfter(events) = <<>> /\ \E open : OpenTrace(open, events)
  BY OpenNone DEF EncodeInit
<1>3. IsSeq(output) /\ SinksAgree
  <2>1. output = <<>> /\ <<>> \in Seq({})
    BY DEF EncodeInit
  <2>2. SubSeq(<<>>, 1, IF 0 < Capacity THEN 0 ELSE Capacity) = <<>>
    BY SubSeqEmpty, EncodeAssumption
  <2>3. QED
    BY <2>1, <2>2 DEF IsSeq, SinksAgree, EncodeInit
<1>4. CountsMatch(OpenAfter(events)) /\ PhaseMatches /\ wire_error = None /\ result = None
  <2>1. PICK open : open = OpenAfter(events)
    OBVIOUS
  <2>2. open = <<>> /\ open \in Seq(Frame) /\ Len(open) = 0
    BY <1>2, <2>1
  <2>3. CountsMatch(open)
    BY <2>2 DEF CountsMatch, EncodeInit
  <2>4. PhaseMatches /\ wire_error = None /\ result = None
    BY DEF PhaseMatches, EncodeInit
  <2>5. QED
    BY <2>1, <2>3, <2>4
<1>5. QED
  BY <1>1, <1>2, <1>3, <1>4 DEF EncInv, None

LEMMA CountedType ==
  ASSUME EncTypes, NEW i \in 1..depth
  PROVE  Counted(i) \in Nat
<1>1. MaxDepth \in Nat /\ depth \in 0..MaxDepth
  BY EncodeAssumption DEF EncTypes
<1>2. i \in 1..MaxDepth
  BY <1>1
<1>3. counts[i] \in Nat
  BY <1>2 DEF EncTypes
<1>4. QED
  BY <1>3 DEF Counted

LEMMA ScalarInv ==
  ASSUME EncInv, NEW t \in Values, WriteScalar(t)
  PROVE  EncInv'
<1>1. /\ phase = "value" /\ events' = Append(events, t)
      /\ config' = config /\ depth' = depth /\ counts' = counts /\ stack' = stack
      /\ result' = result
  BY DEF WriteScalar
<1>2. t \in Token /\ t.kind \in Scalars /\ t # Closing /\ Capacity \in Nat
  BY EncodeAssumption
<1>3. /\ events' \in Seq(Token) /\ (\E open : OpenTrace(open, events))'
      /\ OpenAfter(events') = OpenStep(OpenAfter(events), t)
  BY <1>1, <1>2, EventAppended
<1>4. PICK open : open = OpenAfter(events)
  OBVIOUS
<1>5. /\ CountsMatch(open) /\ PhaseMatches /\ wire_error = None /\ result # "CollectionLimit"
      /\ EncTypes /\ IsSeq(output) /\ SinksAgree
  BY <1>1, <1>4 DEF EncInv, None
<1>6. OpenAfter(events') = Bumped(open)
  BY <1>2, <1>3, <1>4 DEF OpenStep, Scalars, Containers
<1>7. CASE t = NonFinite
  <2>1. phase' = "error" /\ wire_error' = "NonFiniteFloat" /\ UNCHANGED <<written, sinks>>
    BY <1>7 DEF WriteScalar, FailWith
  <2>2. EncTypes'
    BY <1>1, <1>3, <1>5, <2>1 DEF EncTypes
  <2>3. IsSeq(output)' /\ SinksAgree'
    BY <1>5, <2>1 DEF sinks, SinksAgree, IsSeq
  <2>4. QED
    BY <1>1, <1>3, <1>5, <2>1, <2>2, <2>3, FailedInv
<1>8. CASE t # NonFinite
  <2>1. PICK acc, p : /\ acc = EmitScalar(Begun, t) /\ p = AfterValue(stack)
                      /\ EmitThen(acc, p)
    BY <1>8 DEF WriteScalar
  <2>2. EmitsAgree(acc)
    <3>1. PICK begun : begun = Begun
      OBVIOUS
    <3>2. EmitsAgree(begun)
      BY <1>2, <1>5, <3>1, BegunAgrees
    <3>3. EmitsAgree(EmitScalar(begun, t))
      BY <1>2, <3>2, ScalarKeeps
    <3>4. QED
      BY <2>1, <3>1, <3>3
  <2>3. /\ IsSeq(output)' /\ SinksAgree'
        /\ \/ phase' = p /\ wire_error' = wire_error
           \/ phase' = "error" /\ wire_error' = "SizeLimit"
    BY <2>1, <2>2, EmitThenAgrees
  <2>4. stack \in Seq(Containers)
    BY <1>5 DEF EncTypes
  <2>5. /\ p \in {"complete", "element", "member"}
        /\ p = "element" => Len(stack) > 0 /\ stack[Len(stack)] = "array"
        /\ p = "member" => Len(stack) > 0 /\ stack[Len(stack)] = "object"
    BY <2>1, <2>4, AfterValueMatches
  <2>6. EncTypes'
    BY <1>1, <1>3, <1>5, <2>3, <2>5 DEF EncTypes
  <2>7. CASE phase' = p /\ wire_error' = wire_error
    <3>1. /\ Bumped(open) \in Seq(Frame) /\ Len(Bumped(open)) = depth
          /\ \A i \in 1..depth :
               /\ Bumped(open)[i].kind = open[i].kind
               /\ Bumped(open)[i].n = open[i].n + (IF i = depth THEN 1 ELSE 0)
      BY <1>5, BumpedCounts DEF CountsMatch
    <3>2. ASSUME NEW i \in 1..depth
          PROVE  Bumped(open)[i].kind = stack[i] /\ Bumped(open)[i].n = Counted(i)
      <4>1. open[i].kind = stack[i] /\ open[i].n = Counted(i) - (IF i = depth THEN 1 ELSE 0)
        BY <1>1, <1>5 DEF CountsMatch, Given
      <4>2. Counted(i) \in Int
        BY <1>5, CountedType
      <4>3. QED
        BY <3>1, <4>1, <4>2
    <3>3. PICK next : next = Bumped(open)
      OBVIOUS
    <3>4. ASSUME NEW i \in 1..depth PROVE Given(i)' = Counted(i)
      <4>1. Counted(i)' = Counted(i) /\ Counted(i) \in Nat
        BY <1>1, <1>5, CountedType DEF Counted
      <4>2. phase' # "value"
        BY <2>5, <2>7
      <4>3. Given(i)' = Counted(i)' - 0
        BY <4>2 DEF Given
      <4>4. QED
        BY <4>1, <4>3
    <3>5. CountsMatch(next)'
      BY <1>1, <1>5, <3>1, <3>2, <3>3, <3>4 DEF CountsMatch
    <3>6. CountsMatch(OpenAfter(events))'
      BY <1>6, <3>3, <3>5
    <3>7. PhaseMatches'
      BY <1>1, <1>5, <2>5, <2>7 DEF PhaseMatches, CountsMatch
    <3>8. QED
      BY <1>1, <1>3, <1>5, <2>3, <2>6, <2>7, <3>6, <3>7, GoesOnInv
  <2>8. CASE phase' = "error" /\ wire_error' = "SizeLimit"
    BY <1>1, <1>3, <1>5, <2>3, <2>6, <2>8, FailedInv
  <2>9. QED
    BY <2>3, <2>7, <2>8
<1>9. QED
  BY <1>7, <1>8

LEMMA EmitThenBegun ==
  ASSUME EncInv, NEW b, NEW p, EmitThen(Emit(Begun, <<b>>), p)
  PROVE  /\ IsSeq(output)' /\ SinksAgree'
         /\ \/ phase' = p /\ wire_error' = wire_error
            \/ phase' = "error" /\ wire_error' = "SizeLimit"
<1>1. Capacity \in Nat /\ IsSeq(output) /\ SinksAgree
  BY EncodeAssumption DEF EncInv
<1>2. PICK begun, bytes, acc : begun = Begun /\ bytes = <<b>> /\ acc = Emit(begun, bytes)
  OBVIOUS
<1>3. EmitsAgree(begun) /\ IsSeq(bytes)
  BY <1>1, <1>2, BegunAgrees, FewAreSeq
<1>4. EmitsAgree(acc)
  BY <1>1, <1>2, <1>3, EmitKeeps
<1>5. EmitThen(acc, p)
  BY <1>2
<1>6. QED
  BY <1>4, <1>5, EmitThenAgrees

LEMMA EnterInv ==
  ASSUME EncInv, NEW kind \in Containers, EnterContainer(kind)
  PROVE  EncInv'
<1>1. /\ phase = "value" /\ events' = Append(events, Opening(kind))
      /\ stack' = Append(stack, kind)
      /\ config' = config /\ counts' = counts /\ result' = result
  BY DEF EnterContainer
<1>2. Opening(kind) \in Token /\ Opening(kind).kind = kind /\ Opening(kind) # Closing
  BY DEF Opening, Closing, Tok, Token, Containers
<1>3. /\ events' \in Seq(Token) /\ (\E open : OpenTrace(open, events))'
      /\ OpenAfter(events') = OpenStep(OpenAfter(events), Opening(kind))
  BY <1>1, <1>2, EventAppended
<1>4. PICK open : open = OpenAfter(events)
  OBVIOUS
<1>5. /\ CountsMatch(open) /\ PhaseMatches /\ wire_error = None /\ result # "CollectionLimit"
      /\ EncTypes /\ IsSeq(output) /\ SinksAgree
  BY <1>1, <1>4 DEF EncInv, None
<1>6. OpenAfter(events') = Append(Bumped(open), [kind |-> kind, n |-> 0])
  BY <1>2, <1>3, <1>4 DEF OpenStep
<1>7. /\ stack \in Seq(Containers) /\ Len(stack) = depth /\ depth \in Nat
      /\ stack' \in Seq(Containers) /\ Len(stack') = depth + 1 /\ stack'[depth + 1] = kind
      /\ \A i \in 1..depth : stack'[i] = stack[i]
  BY <1>1, <1>5 DEF EncTypes, CountsMatch
<1>8. CASE depth >= config.depth_limit
  <2>1. /\ phase' = "error" /\ wire_error' = "DepthLimit" /\ UNCHANGED <<written, sinks>>
        /\ depth' = depth
    BY <1>8 DEF EnterContainer, FailWith
  <2>2. EncTypes'
    BY <1>1, <1>3, <1>5, <1>7, <2>1 DEF EncTypes
  <2>3. IsSeq(output)' /\ SinksAgree'
    BY <1>5, <2>1 DEF sinks, SinksAgree, IsSeq
  <2>4. QED
    BY <1>1, <1>3, <1>5, <2>1, <2>2, <2>3, FailedInv
<1>9. CASE ~(depth >= config.depth_limit)
  <2>1. PICK b, p : /\ p = AfterValue(stack') /\ EmitThen(Emit(Begun, <<b>>), p)
                    /\ depth' = IF phase' = "error" THEN depth ELSE depth + 1
    BY <1>9 DEF EnterContainer
  <2>2. /\ IsSeq(output)' /\ SinksAgree'
        /\ \/ phase' = p /\ wire_error' = wire_error
           \/ phase' = "error" /\ wire_error' = "SizeLimit"
    BY <2>1, EmitThenBegun
  <2>3. p \in {"element", "member"} /\ (p = "element" => kind = "array")
        /\ (p = "member" => kind = "object")
    BY <1>7, <2>1 DEF AfterValue, Last, Containers
  <2>4. depth + 1 \in 0..MaxDepth /\ MaxDepth \in Nat
    <3>1. config.depth_limit \in Nat /\ config.depth_limit <= MaxDepth
      BY <1>5, EncodeAssumption DEF EncTypes, Config
    <3>2. QED
      BY <1>7, <1>9, <3>1, EncodeAssumption
  <2>5. CASE phase' = p /\ wire_error' = wire_error
    <3>1. depth' = depth + 1
      BY <2>1, <2>3, <2>5
    <3>2. EncTypes'
      BY <1>1, <1>3, <1>5, <1>7, <2>3, <2>4, <2>5, <3>1 DEF EncTypes
    <3>3. PICK new, b1, next : /\ new = [kind |-> kind, n |-> 0] /\ b1 = Bumped(open)
                               /\ next = Append(b1, new)
      OBVIOUS
    <3>4. /\ b1 \in Seq(Frame) /\ Len(b1) = depth
          /\ \A i \in 1..depth :
               /\ b1[i].kind = open[i].kind
               /\ b1[i].n = open[i].n + (IF i = depth THEN 1 ELSE 0)
      BY <1>5, <3>3, BumpedCounts DEF CountsMatch
    <3>5. new \in Frame /\ new.kind = kind /\ new.n = 0
      BY <3>3 DEF Frame
    <3>6. /\ next \in Seq(Frame) /\ Len(next) = depth + 1 /\ next[depth + 1] = new
          /\ \A i \in 1..depth : next[i] = b1[i]
      BY <3>3, <3>4, <3>5
    <3>7. ASSUME NEW i \in 1..(depth + 1)
          PROVE  next[i].kind = stack'[i] /\ next[i].n = Given(i)'
      <4>1. Given(i)' = Counted(i)' - 0
        BY <2>3, <2>5 DEF Given
      <4>2. CASE i \in 1..depth
        <5>1. open[i].kind = stack[i] /\ open[i].n = Counted(i) - (IF i = depth THEN 1 ELSE 0)
          BY <1>1, <1>5, <4>2 DEF CountsMatch, Given
        <5>2. Counted(i) \in Nat /\ Counted(i)' = Counted(i)
          BY <1>1, <1>5, <1>7, <4>2, CountedType DEF Counted
        <5>3. QED
          BY <1>7, <3>4, <3>6, <4>1, <4>2, <5>1, <5>2
      <4>3. CASE i = depth + 1
        <5>1. counts[depth + 1] = 0
          BY <1>5, <1>7, <2>4 DEF EncTypes
        <5>2. Counted(i)' = 0
          BY <1>1, <4>3, <5>1 DEF Counted
        <5>3. QED
          BY <1>7, <3>5, <3>6, <4>1, <4>3, <5>2
      <4>4. QED
        BY <1>7, <4>2, <4>3
    <3>8. CountsMatch(next)'
      BY <1>7, <3>1, <3>6, <3>7 DEF CountsMatch
    <3>9. CountsMatch(OpenAfter(events))'
      BY <1>6, <3>3, <3>8
    <3>10. PhaseMatches'
      BY <1>7, <2>3, <2>5, <3>1 DEF PhaseMatches
    <3>11. QED
      BY <1>1, <1>3, <1>5, <2>2, <2>5, <3>2, <3>9, <3>10, GoesOnInv
  <2>6. CASE phase' = "error" /\ wire_error' = "SizeLimit"
    <3>1. EncTypes'
      BY <1>1, <1>3, <1>5, <1>7, <2>1, <2>6 DEF EncTypes
    <3>2. QED
      BY <1>1, <1>3, <1>5, <2>2, <2>6, <3>1, FailedInv
  <2>7. QED
    BY <2>2, <2>5, <2>6
<1>10. QED
  BY <1>8, <1>9

(* the innermost container, when it is refused one more *)
LEMMA RefusedHere ==
  ASSUME EncTypes, depth > 0, CountError = "CollectionLimit",
         NEW open \in Seq(Frame), Len(open) = depth, NEW more \in {0, 1},
         open[depth].kind = stack[depth],
         open[depth].n = Counted(depth) + more, more = IF stack[depth] = "array" THEN 0 ELSE 1
  PROVE  LET here  == Last(open)
             entry == IF here.kind = "array" THEN here.n + 1 ELSE (here.n + 1) \div 2
         IN  Exceeds(entry, config.collection_limit)
<1>1. depth \in 1..depth /\ depth \in 1..MaxDepth
  BY EncodeAssumption DEF EncTypes
<1>2. counts[depth] \in Nat
  BY <1>1 DEF EncTypes
<1>3. Last(open) = open[depth]
  BY DEF Last
<1>4. Exceeds(counts[depth] + 1, config.collection_limit)
  BY DEF CountError, None
<1>5. CASE stack[depth] = "array"
  BY <1>2, <1>3, <1>4, <1>5 DEF Counted
<1>6. CASE stack[depth] # "array"
  <2>1. (2 * counts[depth] + 1 + 1) \div 2 = counts[depth] + 1
    BY <1>2
  <2>2. QED
    BY <1>2, <1>3, <1>4, <1>6, <2>1 DEF Counted
<1>7. QED
  BY <1>5, <1>6

LEMMA SeparatorInv ==
  ASSUME EncInv, Separator
  PROVE  EncInv'
<1>1. /\ phase = "element" /\ events' = events /\ stack' = stack /\ depth' = depth
      /\ config' = config /\ result' = result /\ UNCHANGED <<written, sinks>>
  BY DEF Separator, FailWith
<1>2. PICK open : open = OpenAfter(events)
  OBVIOUS
<1>3. /\ CountsMatch(open) /\ PhaseMatches /\ wire_error = None /\ result # "CollectionLimit"
      /\ EncTypes /\ IsSeq(output) /\ SinksAgree
  BY <1>1, <1>2 DEF EncInv, None
<1>4. (\E f : OpenTrace(f, events))' /\ IsSeq(output)' /\ SinksAgree'
  BY <1>1, <1>3 DEF EncInv, sinks, SinksAgree, IsSeq
<1>5. depth > 0 /\ stack[depth] = "array" /\ depth \in Nat /\ MaxDepth \in Nat
  BY <1>1, <1>3, EncodeAssumption DEF PhaseMatches, EncTypes
<1>6. \A i \in 1..depth : open[i].kind = stack[i] /\ open[i].n = Counted(i) /\ Counted(i) \in Nat
  <2> SUFFICES ASSUME NEW i \in 1..depth
               PROVE  open[i].kind = stack[i] /\ open[i].n = Counted(i) /\ Counted(i) \in Nat
    OBVIOUS
  <2>1. Counted(i) \in Nat
    BY <1>3, CountedType
  <2>2. open[i].kind = stack[i] /\ open[i].n = Counted(i) - 0
    BY <1>1, <1>3 DEF CountsMatch, Given
  <2>3. QED
    BY <2>1, <2>2
<1>7. CASE CountError # None
  <2>1. phase' = "error" /\ wire_error' = CountError /\ counts' = counts
    BY <1>7 DEF Separator, FailWith
  <2>2. EncTypes'
    BY <1>1, <1>3, <2>1 DEF EncTypes
  <2>3. CASE CountError = "CollectionLimit"
    <3>1. PICK more : more = 0
      OBVIOUS
    <3>2. /\ open \in Seq(Frame) /\ Len(open) = depth /\ more \in {0, 1}
          /\ open[depth].kind = stack[depth] /\ open[depth].n = Counted(depth) + more
          /\ more = IF stack[depth] = "array" THEN 0 ELSE 1
      BY <1>3, <1>5, <1>6, <3>1 DEF CountsMatch
    <3>3. LET here  == Last(open)
              entry == IF here.kind = "array" THEN here.n + 1 ELSE (here.n + 1) \div 2
          IN  Exceeds(entry, config.collection_limit)
      BY <1>3, <1>5, <2>3, <3>2, RefusedHere
    <3>4. OpenAfter(events') = open /\ config' = config
      BY <1>1, <1>2
    <3>5. Refused'
      BY <3>3, <3>4 DEF Refused
    <3>6. QED
      BY <1>1, <1>3, <1>4, <2>1, <2>2, <3>5 DEF EncInv
  <2>4. CASE CountError # "CollectionLimit"
    BY <1>1, <1>3, <1>4, <2>1, <2>2, <2>4, FailedInv
  <2>5. QED
    BY <2>3, <2>4
<1>8. CASE CountError = None
  <2>1. /\ counts' = [counts EXCEPT ![depth] = @ + 1] /\ phase' = "value"
        /\ wire_error' = wire_error
    BY <1>8 DEF Separator
  <2>2. depth \in 1..MaxDepth /\ counts[depth] \in Nat
    BY <1>3, <1>5 DEF EncTypes
  <2>3. counts' \in [1..MaxDepth -> Nat] /\ \A i \in 1..MaxDepth : i # depth => counts'[i] = counts[i]
    BY <1>3, <2>1, <2>2 DEF EncTypes
  <2>4. EncTypes'
    BY <1>1, <1>3, <1>5, <2>1, <2>3 DEF EncTypes
  <2>5. ASSUME NEW i \in 1..depth PROVE Given(i)' = Counted(i)
    <3>1. i \in 1..MaxDepth
      BY <1>5, <2>2
    <3>2. CASE i = depth
      <4>1. counts'[i] = counts[i] + 1 /\ stack[i] = "array"
        BY <1>3, <1>5, <2>1, <2>2, <3>2 DEF EncTypes
      <4>2. Given(i)' = counts[i]
        <5>1. Counted(i)' = counts[i] + 1
          BY <1>1, <4>1 DEF Counted
        <5>2. Given(i)' = Counted(i)' - 1
          BY <1>1, <2>1, <3>2 DEF Given
        <5>3. counts[i] \in Nat
          BY <2>2, <3>2
        <5>4. QED
          BY <5>1, <5>2, <5>3
      <4>3. QED
        BY <2>2, <3>2, <4>1, <4>2 DEF Counted
    <3>3. CASE i # depth
      <4>1. Counted(i)' = Counted(i)
        BY <1>1, <2>3, <3>1, <3>3 DEF Counted
      <4>2. Given(i)' = Counted(i) - 0
        BY <1>1, <3>3, <4>1 DEF Given
      <4>3. QED
        BY <1>6, <4>2
    <3>4. QED
      BY <3>2, <3>3
  <2>6. CountsMatch(open)'
    BY <1>1, <1>3, <1>6, <2>5 DEF CountsMatch
  <2>7. CountsMatch(OpenAfter(events))'
    BY <1>1, <1>2, <2>6
  <2>8. PhaseMatches'
    BY <2>1 DEF PhaseMatches
  <2>9. QED
    BY <1>1, <1>3, <1>4, <2>1, <2>4, <2>7, <2>8, GoesOnInv
<1>9. QED
  BY <1>7, <1>8

LEMMA KeyInv ==
  ASSUME EncInv, NEW k \in Keys, Key(k)
  PROVE  EncInv'
<1>1. /\ phase = "member" /\ events' = Append(events, Tok("str", k)) /\ stack' = stack
      /\ depth' = depth /\ config' = config /\ result' = result
  BY DEF Key
<1>2. /\ k \in Seq(Byte) /\ Tok("str", k) \in Token /\ Tok("str", k) # Closing
      /\ Tok("str", k).kind = "str" /\ Capacity \in Nat
  <2>1. k \in Seq(Byte) /\ Byte \subseteq Int
    BY EncodeAssumption DEF Byte
  <2>2. k \in Seq(Int)
    <3>1. \A i \in 1..Len(k) : k[i] \in Int
      BY <2>1, ElementOfSeq
    <3>2. Len(k) \in Nat /\ k = [i \in 1..Len(k) |-> k[i]]
      BY <2>1
    <3>3. QED
      BY <3>1, <3>2
  <2>3. QED
    BY <2>1, <2>2, EncodeAssumption DEF Tok, Token, Closing, Scalars
<1>3. /\ events' \in Seq(Token) /\ (\E open : OpenTrace(open, events))'
      /\ OpenAfter(events') = OpenStep(OpenAfter(events), Tok("str", k))
  BY <1>1, <1>2, EventAppended
<1>4. PICK open, next : open = OpenAfter(events) /\ next = Bumped(open)
  OBVIOUS
<1>5. /\ CountsMatch(open) /\ PhaseMatches /\ wire_error = None /\ result # "CollectionLimit"
      /\ EncTypes /\ IsSeq(output) /\ SinksAgree
  BY <1>1, <1>4 DEF EncInv, None
<1>6. OpenAfter(events') = next
  BY <1>2, <1>3, <1>4 DEF OpenStep, Containers
<1>7. depth > 0 /\ stack[depth] = "object" /\ depth \in Nat /\ MaxDepth \in Nat
  BY <1>1, <1>5, EncodeAssumption DEF PhaseMatches, EncTypes
<1>8. /\ next \in Seq(Frame) /\ Len(next) = depth
      /\ \A i \in 1..depth :
           /\ next[i].kind = open[i].kind
           /\ next[i].n = open[i].n + (IF i = depth THEN 1 ELSE 0)
  BY <1>4, <1>5, BumpedCounts DEF CountsMatch
<1>9. ASSUME NEW i \in 1..depth
      PROVE  /\ next[i].kind = stack[i] /\ Counted(i) \in Nat
             /\ next[i].n = Counted(i) + (IF i = depth THEN 1 ELSE 0)
  <2>1. Counted(i) \in Nat
    BY <1>5, CountedType
  <2>2. open[i].kind = stack[i] /\ open[i].n = Counted(i) - 0
    BY <1>1, <1>5 DEF CountsMatch, Given
  <2>3. QED
    BY <1>8, <2>1, <2>2
<1>10. CASE CountError # None
  <2>1. /\ phase' = "error" /\ wire_error' = CountError /\ counts' = counts
        /\ UNCHANGED <<written, sinks>>
    BY <1>10 DEF Key, FailWith
  <2>2. EncTypes'
    BY <1>1, <1>3, <1>5, <2>1 DEF EncTypes
  <2>3. IsSeq(output)' /\ SinksAgree'
    BY <1>5, <2>1 DEF sinks, SinksAgree, IsSeq
  <2>4. CASE CountError = "CollectionLimit"
    <3>1. PICK more : more = 1
      OBVIOUS
    <3>2. /\ more \in {0, 1} /\ next[depth].kind = stack[depth]
          /\ next[depth].n = Counted(depth) + more
          /\ more = IF stack[depth] = "array" THEN 0 ELSE 1
      BY <1>7, <1>9, <3>1
    <3>3. LET here  == Last(next)
              entry == IF here.kind = "array" THEN here.n + 1 ELSE (here.n + 1) \div 2
          IN  Exceeds(entry, config.collection_limit)
      BY <1>5, <1>7, <1>8, <2>4, <3>2, RefusedHere
    <3>4. Refused'
      BY <1>1, <1>6, <3>3 DEF Refused
    <3>5. QED
      BY <1>1, <1>3, <1>5, <2>1, <2>2, <2>3, <3>4 DEF EncInv
  <2>5. CASE CountError # "CollectionLimit"
    BY <1>1, <1>3, <1>5, <2>1, <2>2, <2>3, <2>5, FailedInv
  <2>6. QED
    BY <2>4, <2>5
<1>11. CASE CountError = None
  <2>1. PICK acc, p : /\ acc = EmitString(Begun, k) /\ p = "value" /\ EmitThen(acc, p)
                      /\ counts' = [counts EXCEPT ![depth] = @ + 1]
    BY <1>11 DEF Key
  <2>2. EmitsAgree(acc)
    <3>1. PICK begun : begun = Begun
      OBVIOUS
    <3>2. EmitsAgree(begun) /\ IsSeq(k)
      BY <1>2, <1>5, <3>1, BegunAgrees DEF IsSeq
    <3>3. EmitsAgree(EmitString(begun, k))
      BY <1>2, <3>2, StringKeeps
    <3>4. QED
      BY <2>1, <3>1, <3>3
  <2>3. /\ IsSeq(output)' /\ SinksAgree'
        /\ \/ phase' = p /\ wire_error' = wire_error
           \/ phase' = "error" /\ wire_error' = "SizeLimit"
    BY <2>1, <2>2, EmitThenAgrees
  <2>4. depth \in 1..MaxDepth /\ counts[depth] \in Nat
    BY <1>5, <1>7 DEF EncTypes
  <2>5. counts' \in [1..MaxDepth -> Nat] /\ \A i \in 1..MaxDepth : i # depth => counts'[i] = counts[i]
    BY <1>5, <2>1, <2>4 DEF EncTypes
  <2>6. EncTypes'
    BY <1>1, <1>3, <1>5, <1>7, <2>1, <2>3, <2>5 DEF EncTypes
  <2>7. CASE phase' = p /\ wire_error' = wire_error
    <3>1. ASSUME NEW i \in 1..depth PROVE Given(i)' = next[i].n
      <4>1. i \in 1..MaxDepth
        BY <1>7, <2>4
      <4>2. CASE i = depth
        <5>1. counts'[i] = counts[i] + 1 /\ stack[i] = "object" /\ counts[i] \in Nat
          BY <1>5, <1>7, <2>1, <2>4, <4>2 DEF EncTypes
        <5>2. Given(i)' = 2 * (counts[i] + 1) - 1
          BY <1>1, <2>1, <2>7, <4>2, <5>1 DEF Given, Counted
        <5>3. next[i].n = 2 * counts[i] + 1
          BY <1>9, <4>2, <5>1 DEF Counted
        <5>4. QED
          BY <5>1, <5>2, <5>3
      <4>3. CASE i # depth
        <5>1. Counted(i)' = Counted(i)
          BY <1>1, <2>5, <4>1, <4>3 DEF Counted
        <5>2. Given(i)' = Counted(i) - 0
          BY <1>1, <4>3, <5>1 DEF Given
        <5>3. next[i].n = Counted(i) + 0 /\ Counted(i) \in Nat
          BY <1>9, <4>3
        <5>4. QED
          BY <5>2, <5>3
      <4>4. QED
        BY <4>2, <4>3
    <3>2. CountsMatch(next)'
      BY <1>1, <1>5, <1>8, <1>9, <3>1 DEF CountsMatch
    <3>3. CountsMatch(OpenAfter(events))'
      BY <1>6, <3>2
    <3>4. PhaseMatches'
      BY <2>1, <2>7 DEF PhaseMatches
    <3>5. QED
      BY <1>1, <1>3, <1>5, <2>3, <2>6, <2>7, <3>3, <3>4, GoesOnInv
  <2>8. CASE phase' = "error" /\ wire_error' = "SizeLimit"
    BY <1>1, <1>3, <1>5, <2>3, <2>6, <2>8, FailedInv
  <2>9. QED
    BY <2>3, <2>7, <2>8
<1>12. QED
  BY <1>10, <1>11

LEMMA ExitInv ==
  ASSUME EncInv, ExitContainer
  PROVE  EncInv'
<1>1. /\ phase \in {"element", "member"} /\ events' = Append(events, Closing)
      /\ stack' = Front(stack) /\ config' = config /\ result' = result
  BY DEF ExitContainer
<1>2. Closing \in Token
  BY DEF Closing, Tok, Token, Scalars
<1>3. /\ events' \in Seq(Token) /\ (\E open : OpenTrace(open, events))'
      /\ OpenAfter(events') = OpenStep(OpenAfter(events), Closing)
  BY <1>1, <1>2, EventAppended
<1>4. PICK open, next : open = OpenAfter(events) /\ next = Front(open)
  OBVIOUS
<1>5. /\ CountsMatch(open) /\ PhaseMatches /\ wire_error = None /\ result # "CollectionLimit"
      /\ EncTypes /\ IsSeq(output) /\ SinksAgree
  BY <1>1, <1>4 DEF EncInv, None
<1>6. OpenAfter(events') = next
  BY <1>3, <1>4 DEF OpenStep
<1>7. /\ depth \in Nat /\ depth > 0 /\ MaxDepth \in Nat /\ depth - 1 \in Nat
      /\ depth - 1 < depth /\ depth <= MaxDepth
  BY <1>1, <1>5, EncodeAssumption DEF PhaseMatches, EncTypes
<1>8. PICK p : p = AfterValue(stack') /\ LeaveFrame /\ EmitThen(Emit(Begun, <<TAG_END>>), p)
  BY <1>7 DEF ExitContainer
<1>9. /\ IsSeq(output)' /\ SinksAgree'
      /\ \/ phase' = p /\ wire_error' = wire_error
         \/ phase' = "error" /\ wire_error' = "SizeLimit"
  BY <1>8, EmitThenBegun
<1>10. /\ stack' \in Seq(Containers) /\ Len(stack') = depth - 1
       /\ \A i \in 1..(depth - 1) : stack'[i] = stack[i]
  <2>1. stack \in Seq(Containers) /\ Len(stack) = depth
    BY <1>5 DEF EncTypes, CountsMatch
  <2>2. PICK n : n = depth - 1
    OBVIOUS
  <2>3. n \in 0..Len(stack)
    BY <1>7, <2>1, <2>2
  <2>4. stack' = SubSeq(stack, 1, n)
    BY <1>1, <2>1, <2>2 DEF Front
  <2>5. QED
    BY <2>1, <2>2, <2>3, <2>4, PrefixOf
<1>11. /\ next \in Seq(Frame) /\ Len(next) = depth - 1
       /\ \A i \in 1..(depth - 1) : next[i] = open[i]
  <2>1. open \in Seq(Frame) /\ Len(open) = depth
    BY <1>5 DEF CountsMatch
  <2>2. PICK n : n = depth - 1
    OBVIOUS
  <2>3. n \in 0..Len(open)
    BY <1>7, <2>1, <2>2
  <2>4. next = SubSeq(open, 1, n)
    BY <1>4, <2>1, <2>2 DEF Front
  <2>5. QED
    BY <2>1, <2>2, <2>3, <2>4, PrefixOf
<1>12. /\ p \in {"complete", "element", "member"}
       /\ p = "element" => depth - 1 > 0 /\ stack'[depth - 1] = "array"
       /\ p = "member" => depth - 1 > 0 /\ stack'[depth - 1] = "object"
  BY <1>8, <1>10, AfterValueMatches
<1>13. /\ depth' = depth - 1 /\ counts' \in [1..MaxDepth -> Nat] /\ counts'[depth] = 0
       /\ \A i \in 1..MaxDepth : i # depth => counts'[i] = counts[i]
  <2>1. depth' = depth - 1 /\ counts' = [counts EXCEPT ![depth] = 0]
    BY <1>8 DEF LeaveFrame
  <2>2. depth \in 1..MaxDepth
    BY <1>7
  <2>3. QED
    BY <1>5, <2>1, <2>2 DEF EncTypes
<1>14. EncTypes'
  <2>1. depth' \in 0..MaxDepth
    BY <1>7, <1>13
  <2>2. ASSUME NEW i \in 1..MaxDepth, i > depth - 1 PROVE counts'[i] = 0
    <3>1. i = depth \/ i > depth
      BY <1>7, <2>2
    <3>2. QED
      BY <1>5, <1>13, <3>1 DEF EncTypes
  <2>3. QED
    BY <1>1, <1>3, <1>5, <1>9, <1>10, <1>12, <1>13, <2>1, <2>2 DEF EncTypes
<1>15. CASE phase' = p /\ wire_error' = wire_error
  <2>1. ASSUME NEW i \in 1..(depth - 1)
        PROVE  next[i].kind = stack'[i] /\ next[i].n = Given(i)'
    <3>1. i \in 1..depth /\ i \in 1..MaxDepth /\ i # depth
      BY <1>7
    <3>2. open[i].kind = stack[i] /\ open[i].n = Counted(i) - 0
      BY <1>5, <3>1 DEF CountsMatch, Given
    <3>3. Counted(i)' = Counted(i)
      BY <1>10, <1>13, <3>1 DEF Counted
    <3>4. Given(i)' = Counted(i)' - 0
      BY <1>12, <1>15 DEF Given
    <3>5. QED
      BY <1>10, <1>11, <3>2, <3>3, <3>4
  <2>2. CountsMatch(next)'
    BY <1>10, <1>11, <1>13, <2>1 DEF CountsMatch
  <2>3. CountsMatch(OpenAfter(events))'
    BY <1>6, <2>2
  <2>4. PhaseMatches'
    BY <1>12, <1>13, <1>15 DEF PhaseMatches
  <2>5. QED
    BY <1>1, <1>3, <1>5, <1>9, <1>14, <1>15, <2>3, <2>4, GoesOnInv
<1>16. CASE phase' = "error" /\ wire_error' = "SizeLimit"
  BY <1>1, <1>3, <1>5, <1>9, <1>14, <1>16, FailedInv
<1>17. QED
  BY <1>9, <1>15, <1>16

LEMMA ReturnsInv ==
  ASSUME EncInv, ToWriterReturns
  PROVE  EncInv'
<1>1. /\ phase' = "done" /\ UNCHANGED <<config, encoder, sinks, stack, events>>
      /\ result' = "CollectionLimit" => wire_error = "CollectionLimit"
  BY DEF ToWriterReturns
<1>2. EncTypes'
  BY <1>1 DEF EncInv, EncTypes, encoder
<1>3. IsSeq(output)' /\ SinksAgree' /\ (\E open : OpenTrace(open, events))'
  BY <1>1 DEF EncInv, SinksAgree, IsSeq, encoder, sinks
<1>4. wire_error' = "CollectionLimit" => Refused'
  BY <1>1 DEF EncInv, Refused, encoder
<1>5. QED
  BY <1>1, <1>2, <1>3, <1>4 DEF EncInv, encoder

LEMMA EncStays ==
  ASSUME EncInv, UNCHANGED encVars
  PROVE  EncInv'
<1>1. EncTypes'
  BY DEF EncInv, EncTypes, encVars
<1>2. IsSeq(output)' /\ SinksAgree' /\ (\E open : OpenTrace(open, events))'
  BY DEF EncInv, SinksAgree, IsSeq, encVars
<1>3. wire_error' = "CollectionLimit" => Refused'
  BY DEF EncInv, Refused, encVars
<1>4. phase' \notin {"error", "done"} =>
        CountsMatch(OpenAfter(events))' /\ PhaseMatches' /\ wire_error' = None
  BY DEF EncInv, CountsMatch, Given, Counted, PhaseMatches, encVars
<1>5. QED
  BY <1>1, <1>2, <1>3, <1>4 DEF EncInv, encVars

---------------------------------------------------------------------------
(* The theorems *)

(***************************************************************************)
(* The inductive invariant of the encoder: until it fails, the counts of    *)
(* the open containers are those that the events so far give them, and none *)
(* is left of a closed one; the sinks agree; a refused element would have   *)
(* gone to a container that is full.                                        *)
(***************************************************************************)
THEOREM EncoderInvariant == EncodeSpec => []EncInv
<1>1. EncodeInit => EncInv
  BY EncInitInv
<1>2. EncInv /\ [EncodeNext]_encVars => EncInv'
  BY ScalarInv, EnterInv, SeparatorInv, KeyInv, ExitInv, ReturnsInv, EncStays DEF EncodeNext
<1>3. QED
  BY <1>1, <1>2, PTL DEF EncodeSpec

(***************************************************************************)
(* After every call, of any value and also after an error, the slice has    *)
(* the longest prefix of the encoding that fits, and SliceWriter,           *)
(* CountWriter and Encoder::written agree on its length.                    *)
(***************************************************************************)
THEOREM EncoderSinks == EncodeSpec => []SinksAgree
<1>1. EncInv => SinksAgree
  BY DEF EncInv
<1>2. QED
  BY <1>1, EncoderInvariant, PTL

(***************************************************************************)
(* count_element refuses an element or a key only of a container that holds *)
(* as many as the limit allows, at any depth and after any siblings.        *)
(***************************************************************************)
THEOREM EncoderRefuses == EncodeSpec => []RefusedAtTheLimit
<1>1. EncInv => RefusedAtTheLimit
  BY DEF EncInv, Refused, RefusedAtTheLimit
<1>2. QED
  BY <1>1, EncoderInvariant, PTL
============================================================================
