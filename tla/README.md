# RustBinary in TLA+

A verification development of [RustBinary](../src/README.md), a bounded,
self-describing binary codec for the nextjson data model with a family of
profiles and frame formats built on top.  Paths below are relative to the
repository (`src/decoder.rs` is the file of the crate).

Contents: 1 inventory, 2 modules, 3 runs and bounds, 4 fairness, 5 proofs,
6 divergences, 7 what is only model-checked and what is not modelled, 8 plan.

## 1. Inventory

The crate is a library.  It has no daemon and, outside `parallel.rs`, no threads;
what is hard is not concurrency but *protocol*: a value is encoded and decoded by
a conversation between generated code (the client) and the codec, in which calls
may fail, be abandoned and be replayed, while three budgets (bytes, elements,
depth) are kept.  Around it are pairs of machines that must stay in step: encoder
and decoder, probe and decoder, the two tables of a delta stream, the two sets of
a reconciliation, two revisions of a schema, a writer and a verifier.

| component | state it keeps | operations | talks to | correct when |
|---|---|---|---|---|
| wire format (`tags`, `canonical`, `config`) | none; the configuration | varint ladder, zig-zag, integer encodings | all codecs | encoding is canonical and inverse to decoding |
| encoder (`ser`) | depth, element counts, bytes written, wire error | every `FormatEncoder` call | client above, writer below | what it emits is one value within the limits |
| writers (`writer`) | position, required size | `write_all`, finish | encoder | all sinks see the same bytes; a slice that is too small reports the size needed |
| decoder (`decoder`) | cursor, depth, counts, one lookahead token, wire error | every `FormatDecoder` call, `save`, `restore`, `skip_value`, `from_slice` | client above | what is accepted is one value; peeking and backtracking consume nothing; limits and errors are those of the path really taken |
| probe (`probe`) | cursor, depth, totals | `probe` | same bytes as the decoder | accepts and measures what the decoder does |
| CBOR profile (`cbor_codec`, `cbor`) | cursor, depth, counts, a frame per container, a lookahead token | encoder and decoder of the same contract | client above | what a call completes is one data item; what is accepted is what RFC 8949 says |
| compact profile (`compact`) | writer and cursor, depth | encode and decode by type | derived code | round trip, one encoding per value, no panic |
| bounded decoding (`bounded`) | none (constant algebra) | `decode_bounded` | decoder | the evidence covers what the decode really used |
| parallel batches (`parallel`) | scoped threads, chunks, result vector | `parallel_map`, batch frame | base codec | the answer does not depend on the schedule |
| delta frames (`delta`) | a FIFO table per side | `encode_updates`, `decode_updates`, `clear`, single deltas | a peer, in order | tables stay equal, references resolve |
| set reconciliation (`ibl`) | cells of count and sums | `insert`, `delete`, `subtract`, `decode` | a peer | a success is the exact difference |
| schema evolution (`evolution`) | field table, consumed flags | `field`, `finish`, `required`/`optional`/`or_default`, `unknown_fields` | revisions of a schema | a field read is the field written, once |
| archives (`archive_codec`, `archive`, `mmap`, derived code) | writer and position queue; a file; a mapping | build, write, open, prove, extract | a file system, a client with a root | what opens is what was built; a proof proves its range |
| projectable records (`projection`) | fields of a builder; a record; a proof | `insert`, `finish`, `parse`, `prove`, `verify` | storage, a verifier with a root | what verifies are fields of the record |
| trust calculus (`trust`) | type state, verifier, frame limit | `recv`, `send`, `authenticate`, `close` | a byte stream | nothing unverified is decoded; the stream stays in step |
| transform chain (`compression`, `encryption`) | none; thresholds and limits | `serialize`, `deserialize`, `deserialize_from` | core codec below, sessions or streams above | the limits of the layers fit; they apply before memory is reserved; a stream is read frame by frame |
| adaptive negotiation (`adaptive`) | none | strings and integer slices | - | every strategy reads back; the predicted size is the written one |
| entropy coding (`rans`, `entropy`) | the coder's number | models, symbol streams, byte frames | - | the decoder retraces the encoder |
| bit packing (`bitpack`) | a bit cursor | pack, unpack | derived code | round trip, zero padding |
| compression (`lz`) | hash chains, a bit buffer | `compress`, `decompress` | transform chain | round trip; bad streams are refused |
| fingerprint frames (`frame`, `schema`) | none | prepend, validate | schema hash | a frame of another type or configuration is refused |
| kernels (`aead`, `hash`, `simd`) | numeric | seal, hash | - | test vectors |
| `rustbinary-derive` | none | generates the clients and the layouts | - | the generated code meets the contracts above |

What is hard, and drives the properties (the full list, line by line, is under
`hazards` in `PROJECT.json`):

- **stale state after backtracking**: lookahead, counts, frames and the pending
  wire error must all belong to the path that was kept (`decoder.rs:571-584`,
  `cbor_codec.rs:1112`);
- **limits at their boundary**, checked in different places by different
  machines (`ser.rs:249`, `decoder.rs:391`, `probe.rs:277`, `decoder.rs:419`);
- **drift between mirrored machines**: probe and decoder, three sinks, two
  tables, a predicted size and a written frame, an entropy coder and its inverse;
- **partial failure**: a batch item that fails or panics while others run, a
  frame that is refused or lost after a table was changed, a file that was half
  written, an input cut at any byte;
- **order**: of workers, of field calls, of cells in a peeling round, of the
  placeholders a two-phase writer has still to fill;
- **numbers at their edge**: the last group of a varint, the last block of a
  payload, the last word of an entropy stream, the padding of the last byte.

## 2. Modules

| module | models | extends / instantiates |
|---|---|---|
| `Wire` | bytes, varints, tokens, and the reading and writing of one token | |
| `Decoder` | `decoder.rs` under an arbitrary client | `Wire` |
| `ValueClient` | the client that decodes a dynamic `Value` | `Decoder` |
| `Grammar` | reference: what one value of the format is, as a recursive parse | `Wire` |
| `Probe` | `probe.rs` | `Wire` |
| `ProbeDecode` | both on one input | `ValueClient`, instance of `Probe` |
| `Encoder` | `ser.rs`, `writer.rs` | `Wire` |
| `RoundTrip` | encoder, transport that may truncate, decoder | `Encoder`, instance of `ValueClient` |
| `OrderedMap` | abstract specification of `parallel_map` | |
| `ParallelMap` | its threads; refines `OrderedMap` | instance of `OrderedMap` |
| `Iblt` | two peers reconciling sets (`ibl.rs`) | |
| `DeltaLink` | two peers and a link that loses frames (`delta.rs`) | |
| `Envelope` | the transform chain: limits, headers, what a layer accepts | `Wire` |
| `Session` | sender, byte stream and receiver (`trust.rs`, `deserialize_from`) | `Envelope` |
| `Evolution` | writer, transport and reader of a frame (`evolution.rs`) | `Wire` |
| `ArchiveCodec` | the flat layout and the derived code (`archive_codec.rs`, derive) | `Wire` |
| `Merkle` | block tree and range proofs (`archive.rs`) | |
| `Archive` | writer, storage, reader and client (`archive.rs`) | `ArchiveCodec`, `Merkle` |
| `Projection` | builder, storage, prover, transport and verifier (`projection.rs`) | |
| `Compact` | the compact profile (`compact.rs`) | `Wire` |
| `BitPack` | bit fields (`bitpack.rs`, derive) | `Wire` |
| `Adaptive` | strings and integer slices (`adaptive.rs`) | `Wire`, `BitPack` |
| `Lz` | the LZ77 codec (`lz.rs`) | `BitPack` |
| `Rans` | entropy coding (`rans.rs`) | `BitPack` |
| `Bounded` | the cost algebra and the evidence (`bounded.rs`, derive) | `Wire` |
| `Batch` | the batch frame (`parallel.rs`) | `Wire` |
| `Fingerprint` | fingerprint frames (`frame.rs`, `schema.rs`) | `Batch` |
| `DeltaInt` | single deltas (`delta.rs`) | `Wire` |
| `Codecs` | each of those as sender, damage and receiver | the codec modules above |
| `Cbor` | CBOR encoder and decoder (`cbor_codec.rs`) | `Wire` |
| `CborGrammar` | reference: one data item, as a recursive parse | `Cbor` |
| `CborDecode` | the CBOR decoder under a client | `CborGrammar` |
| `DecoderProofs`, `EncoderProofs`, `DeltaLinkProofs`, `SessionProofs`, `EvolutionProofs`, `ProjectionProofs` | theorems, section 5 | the module they are named after |
| `ProgressProofs` | theorems, section 5 | `ParallelMap`, `Iblt` |
| `NatProofs` | lemmas on numbers that those cite | |
| `MCDecoder`, `MCRoundTrip`, `MCProgress`, `MCLinks`, `MCLayouts`, `MCCodecs` | instances for TLC | see section 3 |

An `MC` module puts machines that answer the same question side by side: each
behaviour is of one of them, the others are idle.

### Wire

Bytes are `0..255`, an input is a sequence of them.  `Take` is `Decoder::take`:
the checked end, the byte limit, `UnexpectedEnd`, in the order of the code.
`Varint` and `VarintBytes` are the marker ladder (one byte below 251, then u16,
u32, u64, u128) with the canonicality check; `ReadToken` is `read_token`.
A result is `Res(cursor, error, value)`, with the cursor where the code leaves
it, on errors too.  Integers wider than TLC's 32 bits are represented by the
marker they need and saturate; no run contains one that is accepted.  Floating
point payloads are carried as bytes (the decoder does not look at them).

### Decoder

`cursor, depth, counts, lookahead, wire_error` are the fields of the struct;
`nested` is the local of `skip_value_inner`; `phase, stack, attempts` are the
client: what it will call next, the containers it is in and the marks it holds.
`elems, start, last_error, skipped` are history.  Each `FormatDecoder` method is
one action, with its error paths as disjuncts.  `skip_value` is a loop and is one
action per iteration.  The client is arbitrary within the protocol: at a value
it may ask for any type, peek, skip, or save a mark; in a container it asks for
separators and ends; after a failure it propagates the error or restores a mark
and tries something else.  The bound on marks is `MaxAttempts`, on nesting
`MaxDepth` (the length of `counts`; 128 in the code).  `SaveAfterPeek` says
whether clients may save while a token is pending.

`ValueClient` is the client of `nextjson::Value`: peek, then the call the token
calls for.

### Encoder, RoundTrip

The encoder's client emits any sequence of events that the data model allows,
up to `MaxEvents`.  The three sinks are driven side by side; `SliceWrite` keeps
the prefix that fits and counts on, as `write_all` of `SliceWriter` does.  An
encoder method is a composition of `Emit`, one for each of its `write_all` calls,
up to the first that fails.  `OpenAfter`, used by the properties only, is the
containers that a sequence of events leaves open and the elements in each.
`RoundTrip` hands the output, or any proper prefix of it, to the decoder and
compares what the `Value` client saw with the events.

### OrderedMap, ParallelMap

The abstract specification returns what a sequential map would, or unwinds
with a panic.  The detailed one has the chunking arithmetic of the code, one
thread per chunk stepping through its items (each of which may succeed, fail or
panic), joins in spawn order, and the end of the scope, which waits for every
thread.  The refinement mapping is the identity on what the caller sees.  `Batch`
is the frame around it: a table of lengths, then the payloads.

### DeltaLink, DeltaInt

`encode_updates` and `decode_updates` are loops; each entry is a step, so both
peers are in the middle of their calls at the same time.  `Insert` is
`DeltaTable::insert` with its eviction and front insertion.  The link is the
application's: it keeps frames in order but may lose one (`LoseFrame`) or cut one
(`CutFrame`).  A call that fails leaves the receiver's table as far as it got and
the receiver goes on with the next frame (`FailDecode`), as the code does.  What
the code offers against the loss is `FLAG_RESET_TABLE`: `ClearBoth` clears the
sender's table and announces it, and the header that carries the flag brings the
two sides back into step.  `lost` says that this has not happened yet, and `owed`
is what the receiver has still to deliver.

`DeltaInt` is `encode_delta` and `decode_delta`, the difference of two integers
as a zig-zag LEB128 varint.  `DeltaBits` stands for 128; what matters is that the
last group of seven bits has room for two, which 16 bits share with 128.

### Iblt

The XOR of a set of keys is modelled by the set (symmetric difference), that is,
distinct sets of keys are taken to have distinct XORs, and the cell hash
verifies exactly for one key.  Which three cells a key hits is chosen in the
initial state from a constant set of position maps.  `decode` is a loop, one
round per step.

### Evolution

A payload is its type and size.  The reader's frame is the writer's, whole, cut
or extended, or one of another program with any count and identifiers.  Offsets
are exact, so that every truncation point is a state.

### ArchiveCodec, Merkle, Archive

`ArchiveCodec` is byte-exact: the `repr(C)` mirror (alignment, offsets, padding),
the skeleton that reserves a relative pointer for each string and vector, the
queue of their positions, the bodies that pop the queue and patch the pointers,
the structural validator, and the accessors, which read the mirror at an address.
The skeletons and bodies are the code the `Archive` and `Serialize` derives
generate.  In `Merkle` a hash is the tuple of what it was computed from.

`Archive` is the life of a file: `Build` (serializer, tree, envelope), `CreateNew`,
`WriteAll` (which may stop anywhere), `SyncAll`, `RemovePartial` after a failure,
`Crash` at any of these points, `DamageHeader` and `DamageCell` by the storage,
`Open` and `OpenHeaderOnly`, `ProofFor` a range and `ClientExtracts` under the
root the client knows.  `ParseHeader` is the whole of the header checks, and says
"Hang" where `tree_height` does not return.

### Projection

A record is built by `InsertField` and `FinishRecord` under limits, damaged by the
storage (`DamageRecord`: any number, the root, the length), parsed and proved
(`Prove` with any query), the proof altered on its way (`AlterProof`: fields,
siblings, counts, the claimed root), and verified against a root the verifier
trusts (`VerifyProof`) or against the one the proof claims (`VerifyUntrusted`).

### Envelope, Session

A frame is its lengths (raw, stored, plaintext, total); `Envelope` says when
`serialize` refuses, what the outermost header contains, whether it is accepted
and what may come out of a buffer that begins with a frame.  The AEAD accepts
what it sealed and nothing else; the compression layer has no checksum, so that
damaged content may decode to something (`"garbled"`).

`Session` composes it with a byte stream.  `pieces` are the frames on the stream
as the sender left them: a write may fail after some of its bytes, between the
length and the payload too.  A piece may be damaged in its body, its header or
its length, and the stream may end.  The receiver is its position: `ReadPrefix`
reads the length (`recv_verified`) or the header (`deserialize_from`), finds the
header of a piece or meaningless bytes there, and applies the limits;
`ReadBody` takes the body, asks the verifier and decodes.  A read that fails
loses what it read, and the next call starts in the middle of a frame.  In mode
`"session"` frames have the length of `Session` in front; in mode `"stream"`
they follow each other bare.

### Codecs and the eleven codecs in it

A job is encoded, its frame perhaps damaged in one cell, and decoded; or a frame
comes from elsewhere.  The codecs are pure operators of their own modules:

- `Compact`: encoding and decoding by recursion on the type, as the trait
  implementations are.  The bulk paths (batched varints, aligned floats, runs of
  one-byte varints) are modelled as paths of their own, since that is where they
  could differ from the element-wise ones.
- `Adaptive`: a string raw or in seven bits, integers raw, as differences or as
  runs; `EncodedIntsSize` is the prediction that reserves the output.
- `BitPack`: a bit string per value, with the derived code for structs and enums.
- `Lz`: the hash chains with budget and window, the bit buffer with its flushes,
  the decompressor with its checks.  Field widths are constants.
- `Rans`: models from weights, the coder with its renormalisation, the decoder, the
  replay check and the raw fallback, with M = 4, L = 16, BASE = 8 in place of 2^15,
  2^31, 2^16.  `L` is a multiple of `M` and `BASE` exceeds `M`, as in the code.
- `Bounded`: `Cost` is the algebra the derive emits; `Extent` is what a decode of a
  value really takes, computed independently of it from the value.
- `Batch`, `DeltaInt`: see above.
- `Fingerprint`: the hash of a type and a configuration is a number with one digit
  for each field that is hashed; writer and reader may be configured differently.

### Cbor, CborGrammar, CborDecode

The decoder is a record with the fields of `CborDecoder`; each method is an
operator that returns the record after the call, an error and a value.
`CborDecode` drives them, one call per step, as an arbitrary user of the contract
(`user = "any"`) or as `Value` (`"value"`).  `item` is the span of the value that a
call has just completed.  `Unguarded` names calls that make the code lose its
place in a definite container; section 6 has them.  `CborBytes` is what each user is
given beside the encodings of values.

## 3. Runs and bounds

| run | states | checks | bounds and why they suffice |
|---|---|---|---|
| `decoder` | 688 thousand | `TypeOK`, `FramesMatch`, `NextTokenIsNext`, `ErrorIsLatest`, `AcceptedIsOneValue`, `PreflightIsSound`, `AcceptsExactlyTheFormat`, `ProbeIsExact` | an arbitrary client on every input of up to six bytes over {null, array, end} and four over a wider alphabet (depth 2, one mark, collection limit 1); a `Value` client followed by a probe on up to eight and five bytes, under three profiles (no limits, byte limit, collection limit), and on strings that are not UTF-8.  Limits, sibling containers, an abandoned container and a skip over one all occur |
| `round_trip` | 957 thousand | `EncodedRoundTrips`, `TruncationIsRejected`, `SinksAgree`, `EncodedIsOneValue`, `RefusedAtTheLimit` | seven events, two of them keys or numbers (the second of two sibling containers is refused), slice of three bytes; four profiles with both byte orders, both integer encodings and each limit; a value on each side of the ladder's first rungs |
| `progress` | 70 thousand | `ScheduleIndependent`, `ImplementsOrderedMap`, `Returns`, `RecoveredAreDifferences`, `RecoversUnlessCancelled`, `DecodeEnds` | up to five items, three workers: chunks of unequal size, more workers than items, several failures at once; three elements in five cells, all position maps with three cells per key, also those where keys share all of them or cancel in other ways |
| `links` | 3.3 million | `DeliversInOrder`, `TablesAgree`, `DeliveredInOrder`, `InStep`, `LimitsCompose`, `AllocationBounded` | three delta frames of three updates over three values and a table of two: every eviction pattern, with the receiver lagging, a loss in any place and a reset before, in and after it; two session frames, two faults, ten combinations of chain, framing, verifier and limits, sizes at the limits and above, failures after none, half and all but one of the bytes |
| `layouts` | 527 thousand | `ReadsAreWritten`, `EachFieldOnce`, `CutIsRejected`, `OpenedReadsBack`, `ExtractedIsOriginal`, `RangesAreProved`, `ProjectionIsSound`, `HonestProofVerifies` | three identifiers, two types, three calls a side, every cut, frames with repeated or unordered identifiers and wrong counts; six archives of scalars, strings, vectors and structs, one with a body in its trailing padding, opened at addresses 0 and 4 modulo 8, in blocks of 8, 16 and of an illegal 12 bytes, every number of the header damaged to five values, a file cut in three places, ranges at and across block boundaries; records of up to five fields, so trees of up to eight leaves, every query, one change to record or proof |
| `codecs` | 872 thousand | `DecodeInvertsEncode`, `AcceptsOnlyCanonical`, `SizeIsPredicted`, `EvidenceIsHonest`, `ItemIsWhole`, `AcceptsTheItems`, `CborRoundTrips` | for each codec the values on either side of its thresholds, damage to one of the first cells, and every foreign frame of three or four cells over an alphabet that has its markers; CBOR inputs of four (any client) and five bytes (`Value`) over containers, every first byte but three with up to two bytes behind it, and bignums of 1, 9, 16 and 17 bytes; values nested one beyond the depth limit |
| `probe_contents` | - | violates `AcceptsTheSame` | section 6 |
| `iblt_repeated` | - | violates `RecoversExactly` | section 6 |
| `bounded_alloc` | - | violates `EvidenceIsHonest` | section 6 |
| `cbor_definite` | - | violates `ItemIsWhole` | section 6 |
| `archive_queue`, `archive_padding` | - | violate `OpenedReadsBack` | section 6 |

What the properties say:

- `FramesMatch`: after any mix of calls, failures and restores, each element
  count is the number of elements received from that container; a closed or
  abandoned container leaves nothing behind.
- `NextTokenIsNext`: the token a client will get is the one at the byte where
  its value starts: neither a peek nor an abandoned attempt has consumed it.
- `ErrorIsLatest`: the error that the entry point reports is that of the call
  that failed last, not one left over from an abandoned attempt.
- `AcceptedIsOneValue`, `AcceptsExactlyTheFormat`, `EncodedIsOneValue`: against
  `Grammar`, which knows nothing of cursors and counters; `ItemIsWhole` and
  `AcceptsTheItems` are the same against `CborGrammar`; the latter includes
  `NeverPanics`: the decode of a `Value` returns.
- `PreflightIsSound`: probe and decoder agree on acceptance, on the byte count and on
  the reason of a refusal, up to two exceptions that the property spells out and
  that break the contract of the probe (section 6): `RefusesContent`, the decoder
  alone refuses what a scalar contains, and `RefusesEarlier`, an element too many or
  a key that is no string is refused by the decoder for something it met before.
  Without the exceptions it is `SameByteCount`, `AcceptsTheSame` and `SameReason`.
- `RefusedAtTheLimit`: the encoder reports a collection limit only for a
  container that is really full.
- `TruncationIsRejected`: no proper prefix of an encoding decodes.
- `ScheduleIndependent`: the result is a function of the batch and the worker
  count alone: the first failure in item order decides, unless the first failure
  of a later chunk is a panic, which then unwinds out of the call.
- `DeliversInOrder`: what the receiver is handed is what the sender passed in, in
  order, however many evictions lie between; after a loss, again from a reset on.
- `TablesAgree`: with nothing in flight and no loss outstanding the tables are equal.
- `RecoversUnlessCancelled`: a successful reconciliation has missed only elements of
  the two sides that cancel on every cell, and is the exact difference where one
  side has no elements of its own.  `RecoversExactly`, which is documented, is more.
- `DeliveredInOrder`: where frames are authenticated, by a MAC verifier or by the
  codec, the values received are values that were sent, each once and in order,
  also after the receiver has lost its place.
- `InStep`: a receiver that has seen no error stands at a frame boundary and has
  every frame before it.  A session whose verifier only trusts the channel and
  whose codec allows trailing bytes is excluded: the length in front of a frame
  is then covered by nothing, and an encrypted frame whose length was enlarged is
  accepted together with the beginning of the next.
- `LimitsCompose`: encryption around compression leaves room for the inner
  header: a chain refuses nothing that its core configuration admits, and what
  it admits is received.  (With no limit at all the compression layer still
  refuses on receipt what exceeds `DEFAULT_SIZE_LIMIT`.)
- `AllocationBounded`: whatever a header says, and wherever in the stream the
  receiver stands, no buffer exceeds its limits.
- `EachFieldOnce`: a field is handed out at most once and is unknown until then.
- `OpenedReadsBack`: an archive that opens, after any crash and any damage, is the
  one that was built, and its accessors stay inside and read the original value.
- `ExtractedIsOriginal`, `RangesAreProved`: what a client accepts under its root are
  the bytes of the original, even if the file was opened by its header only; every
  range of an undamaged archive has a proof that verifies, of bounded size.
- `ProjectionIsSound`, `HonestProofVerifies`: what a verifier accepts under its root
  are fields of the record that was built; an untouched proof yields exactly what
  was asked for and is there.
- `DecodeInvertsEncode`, `AcceptsOnlyCanonical`: round trip, and one encoding per
  value where the format claims it; a fingerprint frame is read under the type and
  configuration it was written with, and refused for its schema under any other.
- `SizeIsPredicted`: the negotiated size is the size written, and the exact mode
  picks the smallest; a slice that is too small for a fingerprint frame reports a
  size that will do, also if it cannot hold the header.
- `EvidenceIsHonest`: the bounds a bounded decode returns cover what it used.

`CHECK_DEADLOCK FALSE` is set in every run: each models calls that return, and
after the last one nothing is left to do.  In `progress` the liveness properties
take the place of the deadlock check.

The mutants (definitions with a suffix such as `_OffByOne`, next to the
definition they vary) are plausible slips of the code; each property is refuted
by one of them.

## 4. Fairness

One run states fairness, of two machines.  `ParallelMap` has weak fairness of the
caller and of each worker: scoped threads are operating-system threads that
neither block nor wait for each other, and the closure that is mapped is assumed
to end.  `Iblt` has weak fairness of the peeling loop, a loop of the calling
thread.  `MCProgress` conjoins the two.  All other properties are safety
properties and need none.

## 5. Proofs

The theorems are checked by the TLA+ proof system for all values of the constants:
every set of configurations and inputs, every depth, capacity, limit and number of
items, frames or faults.  They use the named assumptions on the constants, which
TLC evaluates on the instances of section 3, and the hypotheses in the last column.

| module | theorem | states | if |
|---|---|---|---|
| `DecoderProofs` | `ReadTokenType` | reading a token from any input yields a typed result and a cursor within the input | |
| | `Inductive` | `[]IInv` | |
| | `TypeCorrect` | `[]TypeOK` | |
| | `FramesCorrect` | `[]FramesMatch` | |
| | `ErrorsCorrect` | `[]ErrorIsLatest` | |
| | `NothingConsumed` | `[]NextTokenIsNext` | `SaveAfterPeek = FALSE` |
| `EncoderProofs` | `EncoderInvariant` | `[]EncInv` | |
| | `EncoderSinks` | `[]SinksAgree` | |
| | `EncoderRefuses` | `[]RefusedAtTheLimit` | |
| `ProgressProofs` | `ParallelInvariant` | `[]ParallelInv` | |
| | `ParallelScheduleIndependent` | `[]ScheduleIndependent` | |
| | `ParallelImplements` | `ImplementsOrderedMap` | |
| | `IbltInvariant` | `[]IbltInv` | `DistinctPositions`, `OneValuePerKey` |
| | `IbltRecovers` | `[]RecoveredAreDifferences` | the same |
| | `IbltMissesOnlyCancelled` | `[]RecoversUnlessCancelled` | the same |
| `DeltaLinkProofs` | `DeltaInvariant` | `[]DeltaInv` | `ByteLimit = {}` |
| | `DeltaDelivers` | `[]DeliversInOrder` | `ByteLimit = {}` |
| | `DeltaAgrees` | `[]TablesAgree` | `ByteLimit = {}` |
| `SessionProofs` | `SessionInvariant` | `[]SessionInv` | |
| | `SessionAllocation` | `[]AllocationBounded` | |
| | `SessionDelivers` | `[]DeliveredInOrder` | |
| | `SessionInStep` | `[]InStep` | |
| | `SessionLimits` | `[]LimitsCompose` | |
| `EvolutionProofs` | `EvolutionInvariant` | `[]EvolutionInv` | |
| | `EvolutionReads` | `[]ReadsAreWritten` | |
| | `EvolutionOnce` | `[]EachFieldOnce` | |
| | `EvolutionCut` | `[]CutIsRejected` | |
| `ProjectionProofs` | `ProjectionInvariant` | `[]ProjectionInv` | |
| | `ProjectionSound` | `[]ProjectionIsSound` | |
| | `ProjectionHonest` | `[]HonestProofVerifies` | `RoomForHeader` |

Each inductive invariant was first checked by TLC as an invariant of the run that
has the component.

**The hypotheses** are about what the code does not enforce (section 6).
`SaveAfterPeek = FALSE` is a client that saves no mark while a token is pending.
`ByteLimit = {}` is a delta sender without a byte limit: with one,
`encode_updates` has changed its table before it refuses the frame.
`DistinctPositions` says that the three cells of a key differ, which the hash
makes likely and nothing makes certain; `OneValuePerKey` that the peers store one
value under a key.  The instance of `progress` satisfies these two.  `RoomForHeader` says that a record may be as
long as a header and a root, which is the length of one without fields; the
instance of `layouts` satisfies it.

**Decoder.**  `FramesMatch` is not inductive: `restore` brings back the stack of a
mark but only clears the counts above its depth, so it is correct only if the
counts below have not changed since the mark was taken.  The invariant therefore
says (`MarkMatches`) that every mark agrees with the live stack and counts up to
its own depth, (`MarksNested`) that outer marks are prefixes of inner ones, and
(`MarksBelow`) that a container is left only by code that was entered after every
mark, which is what keeps the first true when a container is closed.  `Errors`
ties the wire error to the phase: it is set only while a failure propagates.
`SkipOpen` keeps the skip counter positive, `LookaheadPending` says that a token is
pending only before a value.  For `NextTokenIsNext` the strengthening is
`MarksAtStart`: a mark's cursor is where its value starts; it is the conjunct that
`SaveAfterPeek` would break.  The readers of `Wire` come first, with lemmas that
bound what they return, so that the proofs about the decoder do not open them.

**Encoder.**  A refusal at the limit is about the events of the past, so the
invariant relates the counts to them: the counts of the open levels are those that
`OpenAfter` computes from the events (`CountsMatch`), the levels above are zero, and
`PhaseMatches` says what the innermost container still needs.  Without the zeros a
container could inherit the count of a closed sibling.  That the sinks agree is
preserved by one `Emit` and so by any composition of them; an event that fails half
way keeps the bytes it has emitted.

**Parallel map.**  A worker's results are the map of a prefix of its chunk, and the
caller's output that of the chunks of the handles it has joined, none of which
failed.  From this the result is computed from the batch and the worker count
alone, by the least failing chunk and the least failing item.  For the refinement,
returning maps to the one step of `OrderedMap` and every other step to a stutter;
`ReturnsOne` says that what is returned is an outcome the sequential map allows.

**Delta link.**  Equal tables at rest say nothing of the tables while frames are in
flight.  `InFlight` says that there is a sequence of tables parallel to the link,
which begins with the receiver's (unless a loss is outstanding) and ends with the
sender's or, while a frame is being written, with the one it started from; each
frame resolves in its table and leads to the next, and a reset frame starts again
from the empty one.  `Written` says the same of the frame being written, entry by
entry.  A lost frame breaks the sequence, until a reset.

**Session.**  `DeliveredInOrder` and `InStep` say what the receiver has, not where it
stands, and a receiver that has failed stands anywhere.  `StreamOK` describes the
pieces on the stream (contiguous, in order of sending), `ReaderOK` where the reader
is within them and what it has read of a piece, `OrderOK` that what it has
delivered lies behind it, `StepOK` that a reader without an error is at the
piece after the last delivered one, `FaultlessOK` that without faults every piece
is whole.  The proof showed that a failed read of an empty body moved the position
of the model back by one byte; `Cuts` is now within the body.

**Evolution.**  `FromWriter` says that the frame consists of the writer's fields in
order of their identifiers, `Accepted` that a reader that is past the header has a
whole frame with increasing identifiers, `ReadOK` what one call of `field` returned
and consumed.  A cut is rejected since the sizes of the fields add up to the size
of the frame, and a prefix is strictly shorter.

**Set reconciliation.**  The invariant is the meaning of a table: `TableOK`, each
cell of a peer is the sum over its set of the elements that hit the cell, and
`PeelOK`, what `decode` has left is the sum of the difference without what it has
returned.  A pure cell then names an element of that rest: with three distinct cells
for a key its sums cannot come from several, since the cell hash verifies one key
only.  The counts are cardinalities, so adding and removing an element is by the
theorems on finite sets.  When `is_empty` holds, the rest of mine and the rest of
theirs have equally many elements on every cell (`IbltMissesOnlyCancelled`), and if
the one is empty so is the other, since an element falls on some cell.

**Projectable records.**  `ProjectionInv` says what the record, the proof and the
verdict are made of.  `BuilderOK`: the ids ascend, the payloads fit, and
`encoded_len` is the length that `finish` will write, so that what was accepted
parses.  `RecordOK`: the stored record is the builder's or one change away from it.
`WitnessOK`: without harm the proof is that of the builder's fields; a changed one
claims the trusted root or a wrong one.  `VerdictOK`: what an accepted proof says
recomputes to the root it claims.  The two theorems follow from three facts about
the operators, proved for every number of fields:

- A tree has one meaning (`TreeInjective`, `RecomputeSound`).  By induction on the
  levels from the root down, two trees with one root agree at every node of a level
  both have; neither can have more levels, since a leaf is no branch, nor more
  fields, since padding is no field.  A proof that recomputes to the root of a tree
  therefore agrees with it at every node on the way up, and a leaf of the proof is
  the field of the record at its position, whatever the count of fields, the
  siblings and the positions in the proof say.
- A record has one reading (`ParsedFacts`, `LaidUnique`, `HonestParses`).  What
  parses lies in the cells one field behind the other; records that parse to the
  same fields under one header have the same cells.  A damaged record that parses
  has other fields or another root, and `verify_root` refuses it (`DamageShows`).
- The siblings are enough (`Gathered`, `ClimbCombines`, `ProofRecomputes`).  At each
  level the frontier of the prover is the domain of the verifier's, and the twin of
  each of its nodes is in the frontier or among the siblings.  No position is sent
  twice: the siblings of a level are nodes of that level, and two nodes have two
  twins.

**What the lemmas rest on.**  A model that computes along a sequence (`Offset`,
`OpenAfter`, a sum) does it with a recursive function, and `NatProofs` has what its
properties need: the least element of a set of numbers, and induction over a set of
numbers.  To use the latter one writes the set of those that have the property; the
library's schemes, which take the property itself, cannot be used.

## 6. Divergences found

Six runs show the code doing other than its documentation says; `findings` in
`PROJECT.json` quotes the lines.

| run | what it shows |
|---|---|
| `probe_contents` | the probe does not look at what a scalar contains: a string that is not UTF-8, or a 128-bit payload under a 64-bit tag, passes the probe and is refused by the decoder (`probe.rs:229-258`, `decoder.rs:156-159`, 305) |
| `iblt_repeated` | nothing makes the three cells of a key differ (`ibl.rs:99-109`); with a key that hits one cell twice, `decode` can succeed and attribute a key to the wrong side |
| `bounded_alloc` | the allocation bound adds the levels of nested collections where their elements multiply (`bounded.rs:497-511`) |
| `cbor_definite` | skipping a definite map takes half of its items (`cbor_codec.rs:876-890`), and what follows is read from inside it |
| `archive_padding` | the writer pads nothing behind the last field (derive, `lib.rs:508-537`): a root of a `u64` and a `u8` is 9 bytes, validates, and panics when it is taken as 16 (`archive.rs:188`) |
| `archive_queue` | in an archived struct with a vector of structs that own strings, followed by another string, the strings are exchanged (derive, `lib.rs:575-596`) |

Others were met on the way and have no run.  Each of the following is shown by a
constant of an instance: with the definition named here in its place in the `.cfg`,
TLC finds the property violated.

| module | constant | violates | what the code does |
|---|---|---|---|
| `MCDecoder` | `Configs <- MCFixedConfigs`, `Inputs <- MCTextInputs` | `SameByteCount` | under fixed integers the probe steps over the eight bytes of a length and takes the string for empty (`probe.rs:229-236`), so its byte count is not the decoder's |
| `MCDecoder` | `Configs <- MCOneElement`, `Inputs <- MCCutInputs` | `SameReason` | the probe counts an element before it reads it (`probe.rs:279`), the decoder afterwards: an element too many that is also cut or malformed is refused for different reasons, where `probe.rs:27-28` promises the same one |
| `MCProgress` | `Pairs <- MCUpdatedPairs`, `PositionMaps <- MCUpdatedMaps` | `RecoversExactly` | `is_empty` looks at the counts only (`ibl.rs:94-96`): a key that the peers hold under two values is removed from its cells as often as it is added, and the difference is lost without an error, as it is for keys of the two sides that share their cells.  The two values stay in `value_sum`, where another key on these cells may be returned with them in its value |
| `MCCodecs` | `Jobs <- MCBulkJobs` | `DecodeInvertsEncode` | the decoder of `Vec<i8>` copies into a vector that is only reserved and panics unless it is empty (`compact.rs:1246-1249`); the aligned branches for floats (894-945) have the same form |
| `MCCodecs` | `CborBytes <- MCPanicBytes` | `NeverPanics`, so `AcceptsTheItems` | `1f`, `3f` or `df` where a value is read has no argument, which `read_token` takes (`cbor_codec.rs:626`, 630, 672): it panics on `unreachable!` (366), where every other malformed head gets an error |
| `MCCodecs` | `CborBytes <- MCBignumBytes` | `AcceptsTheItems` | a negative bignum of 2^127 or more is cast before it is negated (`cbor_codec.rs:844-846`) and comes out as a number that is not negative |
| `MCLayouts` | `Roots <- MCStridedRoots` | `OpenedReadsBack` | the writer pads nothing behind the last field of an element either (`lib.rs:586-590`): with a `u8`, a `u32` and a `u8` the second is 9 bytes behind the first and is read 12 behind it.  A struct that ends inside its alignment in the middle of another shifts the fields behind it in the same way |
| `MCLayouts` | `Roots <- MCMisalignedRoots` | `OpenedReadsBack` | elements are aligned by offset when they are written and validated (`archive_codec.rs:447-453`) and by address when they are read (146), and `access` demands only the alignment of the root (`archive.rs:1217-1222`): a `Vec<u64>` under a root that needs 4 is misread at an address that is 4 modulo 8 |
| `MCDecoder` | `SaveAfterPeek = TRUE` | `NextTokenIsNext` | `save` while a token is pending stores the cursor behind it and `restore` drops it (`decoder.rs:571-584`) |
| `MCLinks` | a value in `ByteLimit` | `TablesAgree` | `encode_updates` changes the table before the byte limit refuses the frame (`delta.rs:152-171`) |
| `MCCodecs` | `"option"`, `"bytes"` or `"save"` in `Unguarded` | `ItemIsWhole` | in a definite CBOR container `option` (`cbor_codec.rs:1086`), `bytes` (1019) and `save` (1112) lose their place as `skip` does |

And some are outside the models, or a matter of reading:

- `skip_value_inner` steps over a terminator without the check of the byte limit
  that every other byte passes (`decoder.rs:419`).
- `verify` of a projection takes no query (`projection.rs:655-660` and the formula of
  14-20): a proof shows that fields are in the record, not that all fields asked
  for were returned.  `ProjectionIsSound` states the former.
- A builder compares lengths with its limit when a field is inserted
  (`projection.rs:472-481`) and not for the header and the root it starts with
  (421-428): with a `max_record_len` below these, `finish` writes a record without
  fields that `parse` refuses under the same limits (994-999).  `ProjectionHonest`
  assumes `RoomForHeader`.
- A fingerprint is said to combine "every active codec configuration field"
  (`schema.rs:49`), but `depth_limit` is not hashed (55-82), and a limit of 2^63
  hashes as no limit (84-89).
- `lz::compress` is said to return an empty vector where the packed stream is not
  smaller (`lz.rs:80-84`); it never compares the two, its caller does.
- The varints of delta frames are commented as canonical marker varints
  (`delta.rs:238`); they are LEB128, and overlong ones are accepted.

The passing runs claim what the code does promise, which excludes some
configurations on purpose: the probe is compared under little endian and variable
integers; the decoder's byte limit is claimed only for decodes without a skip; the
delta link has no byte limit; the position maps of `Iblt` give each key three
different cells, and a key has one value; vectors of `i8` are empty; bounded vectors
are nested at most two deep; archived structs have no owning field behind a vector
of owning structs, archived roots end on their alignment or have a body behind them,
elements and inner structs end on their alignment, and roots with elements of
alignment 8 need that alignment themselves; CBOR inputs of a `Value` have none of
the heads `1f`, `3f` and `df` and no magnitude of 2^127 or more under tag 3; CBOR
clients do not skip maps, ask for bytes or options, or save inside a definite
container.  `PreflightIsSound` and `RecoversUnlessCancelled` run on the inputs that
break the contract and say how far it is kept.

## 7. Limits of the models

**Only model-checked**, and why:

- The liveness properties `Returns` and `DecodeEnds`: the prover has no rule for
  fairness.
- `AcceptedIsOneValue`, `AcceptsExactlyTheFormat`, `PreflightIsSound`, `ProbeIsExact`,
  `EncodedRoundTrips`, `TruncationIsRejected`, `EncodedIsOneValue` compare with the
  parse of `Grammar` or run two machines over the same bytes; the parse is a
  recursive operator, and the argument an induction over the input.  `ItemIsWhole`,
  `AcceptsTheItems` and `CborRoundTrips` are the same with `CborGrammar`.
- What `Codecs` checks (`DecodeInvertsEncode`, `AcceptsOnlyCanonical`, `SizeIsPredicted`,
  `EvidenceIsHonest`): most of its codecs are recursive over the type or the value.
- `OpenedReadsBack` and the range properties of `Archive`: layouts are recursive over
  the type, trees over their levels.

**Abstractions** worth knowing:

- Payloads of u64 and wider are present as markers; no accepted value needs them.
- A string is valid UTF-8 if it is ASCII (`Wire`) or has sequences of one and two
  bytes (`Cbor`).  Non-finite floats are refused by the encoder's interface (as
  the `README.md` says) and float payloads are opaque to the decoders.
- Hashes are collision-free: tuples in `Merkle` and `Projection`, digits in
  `Fingerprint`, sets in `Iblt`.  In `Batch`, `Fingerprint` and the containers of
  `Archive` and `Projection` a sequence has cells, one for each number or payload,
  where the code has bytes; damage is to a cell.
- Small constants stand for large ones: `DeltaBits`, `IntMax`, `HeuristicSample`, the
  field widths and `WordBits` of `Lz`, `M`, `L` and `BASE` of `Rans`, `CountBits` and
  `MinBlock` of archives.  Each keeps the relations the code relies on.
- Allocation failure is left out.

**Not modelled**, with the reason per component in `PROJECT.json`: the numeric
kernels (AEAD, hash, SIMD, OS entropy), which test vectors serve better; the
mapping itself (`mmap.rs`), one system call; compile-time metadata (`reflection`,
`static_size`) and the derivation of a `SchemaModel`; attribute parsing and the
token streams of the derive (the code it generates is modelled); the facade and
adapters, which forward; `IoWriter`, a `Write` of the standard library; the
time-budgeted and observed variants of bounded decoding; `canonicalize` and
fingerprinted frames of CBOR; the typed accessors of a projected payload;
benchmarks, fuzz targets and examples.

## 8. Plan

Done: the core codec (decoder, encoder, probe, their agreement) with the proofs of
the decoder's invariants; the stateful pairs (parallel map, delta stream with
losses, reconciliation, evolution, sessions over the transform chain); the layouts
(archives with crashes, damage and proofs; projections); the codecs (compact, CBOR,
adaptive, bit packing, LZ, entropy coding, bounded decoding, batch and fingerprint
frames, single deltas).

The core codec, the stateful pairs and the projectable records are proved as well,
as far as section 7 allows.

Left, in this order:

1. `RangesAreProved` and `ExtractedIsOriginal`, by the argument of `ProjectionProofs`
   over the levels of `Merkle`, once its trees are recursive functions.
2. The rest of CBOR (`canonicalize`, fingerprinted frames) and the typed accessors
   of a projected payload.
