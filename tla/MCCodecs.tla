------------------------------ MODULE MCCodecs ------------------------------
(***************************************************************************)
(* The codecs of Codecs and the CBOR profile of CborDecode: an instance is   *)
(* one job, one arrival, or one CBOR decode; the other part is idle.         *)
(***************************************************************************)
EXTENDS Codecs, CborDecode

CONSTANT CborBytes  (* the byte strings each user of the decoder is given    *)

Strings(alphabet, n) == UNION {[1..k -> alphabet] : k \in 0..n}
Headed(heads, alphabet, n) == {<<h>> \o w : h \in heads, w \in Strings(alphabet, n)}

---------------------------------------------------------------------------
(* Types, configurations, jobs *)

T(k)          == [k |-> k]
Of(k, t)      == [k |-> k, of |-> t]
Array(n, t)   == [k |-> "array", n |-> n, of |-> t]
Table(t, u)   == [k |-> "map", key |-> t, of |-> u]

MCConfig(reject, lim, coll, depth, cap) ==
  [little |-> TRUE, variable |-> TRUE,
   rejectTrailing |-> reject, limit |-> lim, collection_limit |-> coll,
   depth_limit |-> depth, base |-> 1, capacity |-> cap,
   replay |-> reject, fallback |-> reject]

MCConfigs == {MCConfig(TRUE, {}, {}, 3, {}), MCConfig(FALSE, {5}, {3}, 1, {3})}

(* the same values under every spec of a sequence *)
Send(c, specs, values) ==
  [i \in DOMAIN specs |-> [codec |-> c, spec |-> specs[i], values |-> values]]
Arrive(c, specs, frames) ==
  [i \in DOMAIN specs |-> [codec |-> c, spec |-> specs[i], frames |-> frames]]

Bit(k, s, w) == [k |-> k, size |-> s, width |-> w]
Packed1 == <<<<Bit("bool", 1, 1), Bit("i", 8, 3), Bit("u", 8, 7)>>>>
Packed2 == <<<<>>, <<Bit("u", 8, 5)>>, <<Bit("i", 16, 9), Bit("bool", 1, 1)>>>>

(* A skewed model, one with a symbol of weight zero, a uniform one, one symbol *)
Weighted(w) == [uniform |-> FALSE, n |-> Len(w), weights |-> w]
Uniform(n)  == [uniform |-> TRUE, n |-> n, weights |-> <<>>]
Skewed  == Weighted(<<9, 2, 1>>)
Alphabets == <<Skewed, Weighted(<<2, 0, 2>>), Uniform(3), Uniform(1)>>
MCModels(n) == [i \in 1..n |-> IF i % 2 = 1 THEN Skewed ELSE Uniform(2)]

EntropyFrames == [raw : {FALSE}, count : 0..2, state : 0..80, payload : Strings(0..3, 2)]

---------------------------------------------------------------------------
(* Compact values of every shape *)

CompactJobs ==
  Send("compact", <<Of("vec", T("u64"))>>,
       Strings({0, 250, 251, 700}, 3) \union {[i \in 1..13 |-> 30000 * i]}) \o
  Send("compact", <<Of("vec", T("i16"))>>, Strings({-126, 125, 126, 300}, 2)) \o
  Send("compact", <<Of("vec", T("u8"))>>, Strings({0, 255}, 4)) \o
  Send("compact", <<Of("vec", Of("vec", T("u64")))>>, Strings(Strings({1, 251}, 2), 2)) \o
  Send("compact", <<Of("option", Of("option", T("bool")))>>, {<<>>, <<<<>>>>, <<<<1>>>>}) \o
  Send("compact", <<Of("tuple", <<T("u64"), Of("vec", T("u16")), T("str")>>)>>,
       {<<n, v, s>> : n \in {3, 255}, v \in Strings({0, 251}, 2), s \in Strings({65}, 3)}) \o
  Send("compact", <<Of("enum", <<<<>>, <<T("u8")>>, <<T("bool"), T("i64")>>>>)>>,
       {<<0, <<>>>>, <<1, <<255>>>>, <<2, <<1, -64>>>>}) \o
  Send("compact", <<Array(2, T("u16"))>>, [1..2 -> {0, 251, 300}]) \o
  Send("compact", <<Of("deque", T("f32"))>>, Strings({<<0, 0, 128, 63>>}, 2))

CompactTypes ==
  <<Of("vec", T("u64")), Of("vec", T("u8")), Of("vec", T("i16")),
    Of("vec", Of("option", T("bool"))), Of("deque", T("u16")), T("char"), T("i64"),
    Of("tuple", <<T("u64"), Of("vec", T("u64")), T("bool")>>),
    Of("enum", <<<<>>, <<T("u8")>>, <<T("bool"), T("i16")>>>>)>>

(* vectors of signed bytes, which the bulk path writes and reads *)
MCBulkJobs == Send("compact", <<Of("vec", T("i8"))>>, Strings({0, 5}, 2))
MCNoFrames == <<>>

---------------------------------------------------------------------------
(* Bounded decodes *)

S(k, size)       == [k |-> k, size |-> size]
Inner(k, size, t) == [k |-> k, size |-> size, of |-> t]
Record(size, keys, types) == [k |-> "struct", size |-> size, keys |-> keys, of |-> types]

U32 == S("u32", 4)
Str == S("string", 24)
VecOf(t) == Inner("vec", 24, t)
Point == Record(16, <<1, 1>>, <<U32, S("f64", 8)>>)
Choice == [k |-> "enum", size |-> 8, keys |-> <<4, 4>>, of |-> <<S("null", 0), U32>>]
Boxed == Record(16, <<4, 3>>, <<Inner("option", 8, Inner("box", 8, Point)), Choice>>)

NoUnknown(vs) == [fields |-> vs, unknown |-> <<>>]
PointValues == {NoUnknown(<<n, 0>>) : n \in {1, 5}}
ChoiceValues == {<<1, <<>>>>, <<2, 3>>}
BoxedValues == {NoUnknown(<<o, c>>) : o \in {<<>>} \union {<<p>> : p \in PointValues},
                                      c \in ChoiceValues}

(* a budget of each kind: roomy, and tight in every dimension *)
Budget(i, a, dep, w) == [max_input |-> i, max_alloc |-> a, max_depth |-> dep, max_work |-> w]
MCBudgets ==
  <<Budget(200, 400, 4, 400), Budget(200, 60, 4, 400), Budget(40, 400, 4, 400),
    Budget(200, 400, 1, 400), Budget(200, 400, 4, 40)>>

(* the budget that its own constants give a type, and the others *)
SpecsOf(t) == <<[type |-> t, budget |-> FromType(t)]>>
                \o [i \in DOMAIN MCBudgets |-> [type |-> t, budget |-> MCBudgets[i]]]

BoundedJobs ==
  Send("bounded", SpecsOf(Point), PointValues) \o
  Send("bounded", SpecsOf(Boxed), BoxedValues) \o
  Send("bounded", SpecsOf([k |-> "array", size |-> 8, of |-> U32, n |-> 2]), [1..2 -> {1, 5}]) \o
  Send("bounded", SpecsOf(Str), {0, 9, 50, 190}) \o
  Send("bounded", SpecsOf(VecOf(U32)),
       {[i \in 1..n |-> 1] : n \in {0, 3, 20, 30}} \union {[i \in 1..34 |-> 5]}) \o
  Send("bounded", SpecsOf(VecOf(Point)), Strings(PointValues, 3))

(* vectors of vectors of vectors of bytes, all of one length at each level *)
MCNestedJobs ==
  Send("bounded", SpecsOf(VecOf(VecOf(VecOf(S("u8", 1))))),
       {[i \in 1..n |-> [j \in 1..n |-> [l \in 1..m |-> 1]]] : n \in 0..5, m \in 0..2})

---------------------------------------------------------------------------
(* the ends of the range, of its halves and of one, two and three groups *)
DeltaEdges == <<-32768, -32767, -16384, -8193, -8192, -65, -64, -1, 0, 1, 63, 64,
                8191, 8192, 16384, 32766, 32767>>

---------------------------------------------------------------------------
(* Fingerprint frames: one configuration, and readers that differ in one field *)

FramedConfig(e, v, reject, lim, coll, depth) ==
  [endian |-> e, little |-> e # "big", variable |-> v, rejectTrailing |-> reject,
   limit |-> lim, collection_limit |-> coll, depth_limit |-> depth]
FramedWriters == <<FramedConfig("little", TRUE, TRUE, {}, {}, 3),
                   FramedConfig("little", TRUE, TRUE, {3}, {}, 3),
                   FramedConfig("big", FALSE, TRUE, {10}, {}, 3)>>
Readers(w) == <<w, [w EXCEPT !.endian = "native", !.little = TRUE],
                [w EXCEPT !.endian = IF w.little THEN "big" ELSE "little", !.little = ~@],
                [w EXCEPT !.variable = ~@], [w EXCEPT !.rejectTrailing = FALSE],
                [w EXCEPT !.limit = {4}], [w EXCEPT !.collection_limit = {4}],
                [w EXCEPT !.depth_limit = 1]>>
MCTypeIdentity == [str |-> 1, String |-> 2]
FramedSpec(w, reader, as, stream) ==
  [type |-> "String", as |-> as, writer |-> w, reader |-> reader, stream |-> stream]
FramedSpecs ==
  FlattenSeq([i \in DOMAIN FramedWriters |->
    LET w == FramedWriters[i]
    IN  [k \in DOMAIN Readers(w) |-> FramedSpec(w, Readers(w)[k], "String", k % 2 = 0)]
          \o <<FramedSpec(w, w, "String", TRUE), FramedSpec(w, w, "str", FALSE)>>])

---------------------------------------------------------------------------
(* All jobs, and the frames that come from elsewhere *)

AllJobs == CompactJobs \o BoundedJobs \o
  Send("string", <<"off", "exact">>, Strings({0, 65, 127}, 3) \union Strings({65, 66}, 9)) \o
  Send("ints", <<"off", "exact", "heuristic">>,
       Strings({-70000, -1, 0, 125, 126, 70000}, 3) \union Strings({7, 300}, 6) \union
       {[i \in 1..6 |-> 1000 + i], [i \in 1..6 |-> 5]}) \o
  Send("packed", <<Packed1>>, {<<0, <<b, i, u>>>> : b \in 0..1, i \in -5..4, u \in {0, 127, 128}}) \o
  Send("packed", <<Packed2>>, {<<0, <<>>>>, <<1, <<31>>>>, <<1, <<32>>>>, <<2, <<-256, 1>>>>, <<2, <<255, 0>>>>}) \o
  Send("batch", <<"str">>, Strings(Strings({97}, 2), 3)) \o
  Send("delta", DeltaEdges, ToSet(DeltaEdges)) \o
  Send("framed", FramedSpecs, Strings({65}, 2)) \o
  Send("lz", <<20>>, Strings({1, 2}, 9) \union Strings({0, 1, 2}, 5)) \o
  FlattenSeq([n \in 1..5 |-> Send("symbols", <<MCModels(n - 1)>>, [1..(n - 1) -> 1..2])]) \o
  Send("entropy", SubSeq(Alphabets, 1, 3), Strings(1..3, 4)) \o
  Send("entropy", <<Uniform(1)>>, Strings({1}, 4))

IntFrames    == Headed(0..3, {0, 1, 2, 3, 251}, 4)
StringFrames == Headed(0..2, {0, 1, 2, 65, 128, 251}, 3)
LzFrames     == Headed({0, 3, 8, 9}, {0, 1, 17, 129, 255}, 3)

AllArrivals ==
  Arrive("compact", CompactTypes, Strings({0, 1, 2, 97, 251, 255}, 4)) \o
  Arrive("packed", <<Packed1, Packed2>>, Strings({0, 1, 2, 7, 64, 255}, 3)) \o
  Arrive("batch", <<"str">>, Headed({1, 2}, {0, 1, 2, 9, 97}, 5)) \o
  Arrive("ints", <<"off">>, IntFrames) \o
  Arrive("string", <<"off">>, StringFrames) \o
  FlattenSeq([i \in 1..2 |-> Arrive("framed",
    [k \in 1..2 |-> FramedSpec(FramedWriters[i], FramedWriters[i], "String", k = 1)],
    {EncodeFrameHeader("String", FramedWriters[i]) \o w :
       w \in Strings({TAG_STRING, 0, 1, 2, 65}, 4)})]) \o
  Arrive("lz", <<8>>, LzFrames) \o
  Arrive("entropy", Alphabets, EntropyFrames) \o
  Arrive("symbols", <<MCModels(2)>>, EntropyFrames)

MCJobs     == AllJobs
MCArrivals == AllArrivals

---------------------------------------------------------------------------
(* CBOR: byte strings of containers, of text and numbers, and encoded values *)

Cfg(reject, lim, coll) == [rejectTrailing |-> reject, limit |-> lim, collection_limit |-> coll]
Open  == Cfg(TRUE, {}, {})
Tight == Cfg(FALSE, {3}, {1})

(* arrays, maps and numbers; and the two inputs on which Unguarded =        *)
(* {"option"} and {"bytes"} lose their place                                *)
Soup(n) == {<<130, 246, 1, 0>>, <<130, 64, 0, 0>>} \union
           Strings({0, 128, 129, 130, 159, 255}, n) \union
           Strings({96, 160, 161, 191, 255, 246}, n) \union
           Strings({24, 97, 127, 255, 65, 95, 194, 193, 245, 249, 27, 28, 247}, 3)

(* majors 0, 1 and 6 with the indefinite argument *)
NoArgument == {31, 63, 223}

(* every other first byte *)
AllHeads == Headed((0..255) \ NoArgument, {0, 24, 255}, 2)

(* a number of n bytes under tag 2 or 3, alone and in an array *)
Bignum(tag, n, top) == <<192 + tag, 64 + n, top>> \o [i \in 1..n-1 |-> 0]
Bignums ==
  LET numbers == {Bignum(2, n, top) : n \in {1, 9, 16, 17}, top \in {0, 1, 127, 128, 255}}
                   \union {Bignum(3, n, top) : n \in {1, 9, 16, 17}, top \in {0, 1, 127}}
  IN  numbers \union {<<129>> \o b : b \in numbers}

MCBytes == [any |-> Soup(4), value |-> Soup(5) \union AllHeads \union Bignums]

(* heads without the argument they need, and a negative number below -2^127 *)
MCPanicBytes  == [any |-> {}, value |-> Headed(NoArgument, {0, 255}, 2)]
MCBignumBytes == [any |-> {}, value |-> {Bignum(3, 16, top) : top \in {127, 128, 255}}]

Unsigned(p) == Num(FALSE, p)
Leaves ==
  {Tok("null", <<>>), Tok("bool", <<1>>), Tok("str", <<>>), Tok("str", <<97>>), Tok("str", <<195, 169>>),
   Unsigned(<<>>), Unsigned(<<23>>), Unsigned(<<24>>), Unsigned(<<1, 0>>), Unsigned(<<1, 0, 0>>),
   Unsigned(<<1, 0, 0, 0, 0>>), Unsigned(<<1, 0, 0, 0, 0, 0, 0, 0, 0>>),
   Num(TRUE, <<>>), Num(TRUE, <<255>>), Num(TRUE, <<1, 0, 0, 0, 0, 0, 0, 0, 0>>),
   Float(<<1, 2, 3, 4>>), Float(<<1, 2, 3, 4, 5, 6, 7, 8>>)}

Arr(vs) == <<Opening("array")>>
             \o FlattenSeq([i \in 1..Len(vs) |-> <<Tok("sep", <<>>)>> \o vs[i]]) \o <<Closing>>
Obj(vs) == <<Opening("object")>>
             \o FlattenSeq([i \in 1..Len(vs) |-> <<Tok("key", <<96 + i>>)>> \o vs[i]]) \o <<Closing>>

Pairs2  == Strings({<<Tok("null", <<>>)>>, <<Unsigned(<<24>>)>>}, 2)
OneDeep == {<<l>> : l \in Leaves} \union {Arr(v) : v \in Pairs2} \union {Obj(v) : v \in Pairs2}
MCValues == OneDeep \union {Arr(<<v>>) : v \in OneDeep} \union {Obj(<<v>>) : v \in OneDeep}
              \union {Arr(<<Arr(<<Arr(<<>>)>>)>>)}

(* what a Value client receives of it: no separators *)
Events(v) == SelectSeq(v, LAMBDA t : t.kind # "sep")

MCCborInit ==
  \/ \E s \in CborBytes.any : CborInit("any", Open, s, <<>>)
  \/ \E s \in CborBytes.value, c \in {Open, Tight} : CborInit("value", c, s, <<>>)
  \/ \E v \in MCValues, c \in {Open, Cfg(TRUE, {9}, {1})} :
       LET e == CborEncode(c, v)
       IN  e.error = None /\ CborInit("value", c, e.output, Events(v))

---------------------------------------------------------------------------

CborIdle ==
  /\ d = <<>> /\ source = <<>> /\ user = "nobody" /\ phase = "idle" /\ start = 0
  /\ open = <<>> /\ item = <<>> /\ skipped = FALSE /\ events = <<>> /\ marks = <<>>
  /\ result = None

CodecIdle ==
  /\ job = [codec |-> "none"] /\ ccfg = [limit |-> {}]
  /\ wire = Nothing /\ got = Nothing /\ step = "idle"

Init == (CodecInit /\ CborIdle) \/ (MCCborInit /\ CodecIdle)

Next == \/ CodecNext /\ UNCHANGED cborVars
        \/ phase # "idle" /\ CborNext /\ UNCHANGED codecVars

Spec == Init /\ [][Next]_<<codecVars, cborVars>>
===========================================================================
