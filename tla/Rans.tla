-------------------------------- MODULE Rans --------------------------------
(***************************************************************************)
(* Entropy coding (rans.rs): a number, the state, absorbs one symbol after   *)
(* the other; words leave it when it grows and come back, in reverse, when   *)
(* it is read.  A model gives every symbol a share of the mass M.            *)
(*                                                                         *)
(* The constants of the code are M = 2^15, L = 2^31 and a base of 2^16; were *)
(* the base M, the first symbol could emit a word and finish would refuse it. *)
(* A frame is [raw, count, state, payload] behind a magic and a version that *)
(* have one legal value; the payload is a sequence of words, or of symbols   *)
(* if the frame is raw.  A word takes WordBytes bytes, the header HeaderLen. *)
(***************************************************************************)
EXTENDS Integers, Sequences, SequencesExt, FiniteSetsExt, BitPack

CONSTANTS M, L, BASE, WordBytes, HeaderLen

ASSUME MassAssumption == /\ M \in Nat \ {0} /\ L \in Nat \ {0} /\ BASE \in Nat
                         /\ L % M = 0 /\ BASE > M

---------------------------------------------------------------------------
(* Models: the frequencies of the symbols 1..n, which stand for 0..n - 1 *)

(* from_uniform *)
FromUniform(n) ==
  [i \in 1..n |-> (M \div n) + (IF i - 1 < M % n THEN 1 ELSE 0)]

(* symbols by descending key, the lower index first *)
ByDescending(key) ==
  SortSeq([i \in 1..Len(key) |-> i],
          LAMBDA a, b : key[a] > key[b] \/ (key[a] = key[b] /\ a < b))

(* what is above M is taken from the largest quotas, which keep one *)
Reduced(quota) ==
  LET step(acc, i) ==
        LET cut == Min({acc.freq[i] - 1, acc.excess})
        IN  [freq |-> [acc.freq EXCEPT ![i] = @ - cut], excess |-> acc.excess - cut]
  IN  FoldLeft(step, [freq |-> quota, excess |-> Max({0, SumOf(quota) - M})],
               ByDescending(quota)).freq

(* from_weights: largest remainders, with a floor of one *)
FromWeights(weights) ==
  LET total == SumOf(weights)
      quota == [i \in 1..Len(weights) |-> Max({1, (weights[i] * M) \div total})]
      freq  == Reduced(quota)
      order == ByDescending([i \in 1..Len(weights) |-> (weights[i] * M) % total])
      lucky == {order[k] : k \in 1..(M - SumOf(freq))}
  IN  [i \in 1..Len(weights) |-> freq[i] + (IF i \in lucky THEN 1 ELSE 0)]

(* from_freqs accepts it *)
IsModel(freq) ==
  /\ freq # <<>> /\ SumOf(freq) = M
  /\ \A i \in 1..Len(freq) : freq[i] > 0

Cum(freq, symbol) == SumOf(SubSeq(freq, 1, symbol - 1))

SymbolForSlot(freq, slot) ==
  CHOOSE s \in 1..Len(freq) : slot \in Cum(freq, s)..Cum(freq, s) + freq[s] - 1

---------------------------------------------------------------------------
(* The coder: [state, words], the last word emitted last *)

(* Mutant: a word leaves one step too late *)
Emit_Late(e, freq) ==
  IF e.state > freq * (L \div M) * BASE
  THEN [state |-> e.state \div BASE, words |-> Append(e.words, e.state % BASE)]
  ELSE e

(* the flush loop of put_symbol, which runs at most once as BASE > M *)
Emit(e, freq) ==
  IF e.state >= freq * (L \div M) * BASE
  THEN [state |-> e.state \div BASE, words |-> Append(e.words, e.state % BASE)]
  ELSE e

(* put_symbol of a symbol of the model *)
PutSymbol(e, model, symbol) ==
  LET freq == model[symbol]
      f    == Emit(e, freq)
  IN  [f EXCEPT !.state = (f.state \div freq) * M + Cum(model, symbol) + (f.state % freq)]

(* renorm: too small still when the payload is used up *)
Renorm(d) ==
  FoldLeft(LAMBDA acc, i : IF acc.state >= L THEN acc
                           ELSE [state |-> acc.state * BASE + Last(acc.words),
                                 words |-> Front(acc.words)],
           d, d.words)

(* get_symbol: [error, state, words, symbol] *)
GetSymbol(d, model) ==
  LET r      == Renorm(d)
      slot   == r.state % M
      symbol == SymbolForSlot(model, slot)
  IN  IF r.state < L THEN [error |-> "Entropy", state |-> 0, words |-> <<>>, symbol |-> 0]
      ELSE [error |-> "none", words |-> r.words, symbol |-> symbol,
            state |-> (r.state \div M) * model[symbol] + slot - Cum(model, symbol)]

Encoded(models, symbols) ==
  FoldLeft(LAMBDA e, i : PutSymbol(e, models[i], symbols[i]),
           [state |-> L, words |-> <<>>], [i \in 1..Len(symbols) |-> i])

(* the symbols, read from the last to the first, and what is left *)
Decoded(models, state, words) ==
  FoldLeft(LAMBDA acc, model :
             LET g == GetSymbol([state |-> acc.state, words |-> acc.words], model)
             IN  IF acc.error # "none" THEN acc
                 ELSE [error |-> g.error, state |-> g.state, words |-> g.words,
                       symbols |-> <<g.symbol>> \o acc.symbols],
           [error |-> "none", state |-> state, words |-> words, symbols |-> <<>>],
           Reverse(models))

---------------------------------------------------------------------------
(* Frames *)

Frame(raw, count, state, payload) ==
  [raw |-> raw, count |-> count, state |-> IF raw THEN 0 ELSE state, payload |-> payload]

FrameBytes(f) == HeaderLen + (IF f.raw THEN 1 ELSE WordBytes) * Len(f.payload)

ROk(val) == [error |-> "none", val |-> val]
RErr(e)  == [error |-> e, val |-> <<>>]

Repeated(model, n) == [i \in 1..n |-> model]

(* encode_sequence *)
EncodeSequence(limit, models, symbols) ==
  LET e == Encoded(models, symbols)
      f == Frame(FALSE, Len(symbols), e.state, e.words)
  IN  IF Len(models) # Len(symbols) THEN RErr("Entropy")
      ELSE IF \E i \in 1..Len(symbols) : symbols[i] \notin DOMAIN models[i] THEN RErr("Entropy")
      ELSE IF Exceeds(FrameBytes(f), limit) THEN RErr("SizeLimit")
      ELSE ROk(f)

(* compress: the input itself where coding does not gain *)
CompressBytes(limit, fallback, model, input) ==
  LET e   == Encoded(Repeated(model, Len(input)), input)
      raw == fallback /\ WordBytes * Len(e.words) >= Len(input)
      f   == Frame(raw, Len(input), e.state, IF raw THEN input ELSE e.words)
  IN  IF \E i \in 1..Len(input) : input[i] \notin DOMAIN model THEN RErr("Entropy")
      ELSE IF Exceeds(FrameBytes(f), limit) THEN RErr("SizeLimit")
      ELSE ROk(f)

(* unwrap *)
Unwrapped(limit, f) ==
  IF Exceeds(FrameBytes(f), limit) THEN "SizeLimit"
  ELSE IF f.raw /\ f.state # 0 THEN "InvalidFrame"
  ELSE "none"

(* Mutant: the frame is not replayed *)
DecodeCoded_NoReplay(replay, models, f) ==
  LET d == Decoded(models, f.state, f.payload)
  IN  IF d.error # "none" THEN RErr(d.error)
      ELSE IF d.state # L \/ d.words # <<>> THEN RErr("Entropy")
      ELSE ROk(d.symbols)

(* the coded half of decode_sequence and of decompress, with finish and replay *)
DecodeCoded(replay, models, f) ==
  LET d == Decoded(models, f.state, f.payload)
      e == Encoded(models, d.symbols)
  IN  IF d.error # "none" THEN RErr(d.error)
      ELSE IF d.state # L \/ d.words # <<>> THEN RErr("Entropy")
      ELSE IF replay /\ (e.state # f.state \/ e.words # f.payload) THEN RErr("Entropy")
      ELSE ROk(d.symbols)

(* decode_sequence; the symbols of a raw frame are not compared with the models *)
DecodeSequence(limit, replay, models, f) ==
  IF Unwrapped(limit, f) # "none" THEN RErr(Unwrapped(limit, f))
  ELSE IF f.count # Len(models) THEN RErr("Entropy")
  ELSE IF f.raw THEN IF Len(f.payload) = f.count THEN ROk(f.payload) ELSE RErr("Entropy")
  ELSE DecodeCoded(replay, models, f)

(* decompress *)
DecompressBytes(limit, replay, model, f) ==
  IF Unwrapped(limit, f) # "none" THEN RErr(Unwrapped(limit, f))
  ELSE IF f.raw THEN IF Len(f.payload) = f.count THEN ROk(f.payload) ELSE RErr("Entropy")
  ELSE DecodeCoded(replay, Repeated(model, f.count), f)
=============================================================================
