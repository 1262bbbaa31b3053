# vibejson in TLA+

This directory holds a TLA+ model of parts of vibejson, the TLC runs that check
it on small instances and TLAPS proofs of the properties that matter most.
`PROJECT.json` lists every run, the source lines each definition models, the
hazards of the code and the theorems.

## The system

vibejson is a Go JSON library. A codec is compiled once per type into an
immutable plan that any number of goroutines then use; validation, streaming,
indexing and raw-text navigation work on bytes. `docs/architecture.md` states
four invariants: all scanners agree on what one strict JSON value is; every
result owns its storage or documents what it borrows; every accelerated path has
a portable one; retained scratch is cleared and bounded.

| component | state | operations | what is hard |
|---|---|---|---|
| scalar validator (`validate.go`) | offset | parseValue, parseString, ... | exact offsets and messages; nesting limit; surrogate pairs |
| fast validator (`valid_fast.go`) | offset | validFast, validRootValueFast | word-at-a-time strings; has to accept exactly the same texts |
| framing (`ValueFrame`, `skipValidValue`) | mode, depth, escape flag, bytes framed | Init, Scan | suspended and resumed at any byte |
| Reader (`stream_reader.go`) | rolling buffer, offsets, consumed count, sticky error | Next, DecodeNext, Bytes, InputOffset, Close, fill | chunking, compaction, growth, limits, source errors, touching numbers |
| Writer (`stream_writer.go`) | buffer, container stack, sticky error | token methods, EncodeTo, Newline, Flush, Close | separators, flush boundaries, short writes, misuse |
| decoder operation state (`decoder_scratch.go`, `decoder_receiver.go`) | lock-free cache of four states; boxes, seen sets, receiver arenas, Replace records in each | take, release, takeMapScratch, takeWideSeen, batches | concurrent calls, recursive types, errors and panics |
| Marshal cache (`encoder.go`, `marshal_hint.go`) | map from type to encoder; size hint in one word | Marshal | concurrent first use; compare-and-swap loop |
| type compiler (`typed_compile.go`, `typed_reset.go`, `typed_encode_plan.go`) | node table, journal of created nodes, scratch slots | compile, rollback, finalize; reset programs, field matching, fused literals | recursion, failure in the middle, several types of one plan that share scratch |
| compiled decoding (`decoder_cursor.go`, `typed_compiled_*.go`, `decoder_replace*.go`) | destination, alias records of a Replace decode | one routine per kind | merge and Replace semantics, destinations that share storage, pointer cycles, errors that leave half the work |
| structural decoding (`decoder_structural.go`) | packed positions, pool | build, match, fall back | stale positions, divergence from the scalar cursor |
| encoder (`encoder_execute*.go`, `encoder_scratch.go`) | output, depth and pointer budget, pooled scratch | one routine per kind | separators between fused and omitted fields, addressability of methods, hooks that re-enter, retained references |
| index builders (`index.go`, `x/document/tape`) | tape of entries in caller-sized storage; open containers | BuildIndex: fast walk, fallback, diagnostic parser, enrichment | scopes linked through the entries themselves; storage, depth and width limits; retry over a used tape |
| index readers (`node.go`, `index_iter.go`, `index_tapescan.go`, `pointer.go`, `index_probe.go`) | entry number; probe table in reused storage | Get, Index, iterators, Pointer, RequiredIndexEntries, Probe | unchecked skips; escaped names, repeated names and colliding hashes |
| position engines (`valid_positions.go`, `valid_bitmap.go`, `index_positions.go`, `index_bitmap.go`, `x/kernels`) | stage 1 carries, registers of the grammar machine, open scopes | sample, chunk, batch, tail, finish | everything that crosses a block of 64 bytes: strings, escapes, surrogate pairs, runes, scalars |
| cursors and hooks (`stream_cursor.go`, `field_cursor.go`, `typed_hook*.go`) | offset, depth, state of the innermost container | Object, Array, NextField, NextElement, scalars, Skip, Finish | user code stops anywhere, reads twice or not at all |
| text operations (`raw.go`, `raw_trusted.go`, `range.go`, `pointer.go`, `compact.go`, `indent.go`, `contains.go`, `number_equal.go`) | none | lookups and loops over raw text; pure functions | skipping without a tape, repeated and escaped names, errors in front of or behind the value found |
| kernels and conversion (`x/scanner`, `simd`, `x/floatconv`, `number_*.go`) | none | pure functions | carries, rounding |

How they interact. Reader calls `fill` (the only call that leaves the program),
tries `validRootValueFast` on the buffered window, frames with `ValueFrame` when
that fails, and runs `Validate` for the error to report. `DecodeNext` calls
`DecodePrefix` on the framed extent. `Decode` and `DecodePrefix` take an operation state
from the plan's cache and give it back in a deferred call, so also after a panic
in a user's method. `EncodeTo` runs a compiled encoder into the Writer's buffer.
`Marshal` looks its encoder up in a `sync.Map`. An index is built by one call
and never changes afterwards; a Node is a pointer to one of its entries, and
every lookup moves that pointer by the skip counts on the tape without checks.

## Modules

`A <- B` reads "A extends or instantiates B".

    JsonText                 bytes, spans, reference grammar
    Validator   <- JsonText      Validate
    ValidFast   <- Validator                    TextProofs <- ValidFast
                             validFast, validRootValueFast
    ValueFrame  <- ValidFast                    FrameProofs <- ValueFrame, TextProofs
                             ValueFrame, skipValidValue, incomplete* helpers
    ScannerAgreement <- ValueFrame              AgreementProofs <- ScannerAgreement, FrameProofs
                             texts that grow piece by piece
    ValueStream <- ValueFrame    abstract: what a Reader promises
    Reader      <- ValueFrame, ValueStream      ReaderProofs <- Reader, FrameProofs
    Writer      <- JsonText                     WriterProofs <- Writer, TextProofs
    Stage1      <- ValidFast     blocks, carries, positions, checks per block
    ValidPositions <- Stage1     the validator of large documents
    IndexPositions <- Stage1     the index builder of large documents
    DecoderScratch                              ScratchProofs <- DecoderScratch, EncoderScratch
    EncoderScratch
    SizeHint                 abstract: an atomic register
    MarshalCache <- SizeHint                    CodecProofs <- MarshalCache, TypeCompiler
    TypeCompiler             plans of recursive types, journal, rollback
    TypedPlan                what a plan holds, derived from the type
    ReplaceTracker           aliases and scopes of a Replace decode
    TypedDecode <- TypedPlan, ReplaceTracker    decoding into memory
    TypedValue  <- TypedDecode   values as trees, one call of a Decoder
    DecodeReuse <- TypedValue    a program that decodes over and over
    EncodePlan  <- TypedPlan     field programs of the encoder
    EncoderExecute <- EncodePlan, TypedValue    AppendJSON
    RoundTrip   <- EncoderExecute    decode, encode, decode again
    TokenText                token documents, reference tape
    TapeBuilder <- TokenText                    IndexProofs <- TapeBuilder, ObjectProbe
    TapeLookup  <- TapeBuilder   Node, iterators, pointers, storage size
    RawLookup   <- TapeLookup    lookups and loops over raw text
    ObjectProbe              the probe table of one object
    Cursor      <- TokenText     ValueCursor and DecodeCursor

An MC module defines the constants of one run. Where a run is about several
machines, its MC module holds them side by side: they share no state, `subject`
says which one a behaviour is about, and the others rest in one of their initial
states. Nothing is checked of such a pair that would not be checked of each alone. It extends the components
and its .cfg gives their constants; what the proofs assume of the constants of EncoderScratch, TypeCompiler and
ObjectProbe is an operator of the component, which the MC module states again as an ASSUME, so that each run evaluates it.

### Text and streams

**JsonText.** A text is a sequence of bytes, a byte a one-character string;
"ctl", "C2" and "80" stand for a control byte, the lead of a two-byte rune and a
continuation byte, the classes that the scanners tell apart. Offsets are zero based as in Go. `JsonValue` defines
the grammar over spans as RFC 8259 writes it; it is compared with the code and
models none of it.

**Validator, ValidFast.** One operator per function. The mutual recursion is a
recursive function that the operators take as a parameter, so no RECURSIVE
operator occurs. A verdict of Validate has an offset and a message; a verdict of the fast
scanner has an end or `NoValue`. The eight-byte words of the fast
string loop have `WordBytes` bytes.

**ValueFrame.** A frame is a record (mode, depth, pending escape, bytes
left of a literal, bytes framed). `Scan` takes and returns it, which makes suspension explicit.

**ScannerAgreement.** The state is a text; a step appends a piece. Invariants
compare the scanners on it, and the action property compares a text with its
extension, which is what a stream does to a Reader.

**Reader.** Variables are the fields of the struct (`buf` is `r.buf[:r.end]`, `cap`
its length), the source, and the locals of the call in progress. One step is one turn
of a loop of Next or DecodeNext up to and including its Read; Read returns any
number of bytes that fits, may carry the final error with the last bytes, or
break its contract. `validLen` and `decodedN`, which a loop keeps for a value
still waiting for the byte behind it, have no variable: a number's frame is
complete only when that byte is there, so a loop that computed one returns in
the same turn. The model has the loop's condition as a guard and the deadlock check would find
a state in which it fails. `DecodePrefix` accepts a valid value or
rejects it (wrong type).

**ValueStream.** The values of the whole input, in order, and which errors may
end the walk. It has no buffer, no frame and no read. A limit error is allowed
on a malformed value when more than the limit remains: Next finds the syntax error first, DecodeNext the limit.

**Writer.** Fields of the struct plus the sink and, as a ghost, every byte the
methods produced. Every scalar method is `Value`; a sink may take any part of a Write.

**Cursor.** A document is a sequence of tokens, white space among them, because the
fast paths look at the byte the cursor is on. A step is one call of a program that may
do what it likes: enter a container, read a scalar as the wrong type, skip, skip again, ask for the next
member without having read the last, or stop. Both users of
decoderCursor are there: ValueCursor over text the Reader validated, and DecodeCursor inside a hook over
text nobody has looked at. A hook is assumed to consume
one value, as its contract says.

### Large documents

**Stage1.** A mask is a set of lanes of a block; a block has `BlockBytes` lanes where
the code has 64. The carries (odd run of backslashes, inside a string,
scalar before, quote before) are computed with the same additions and shifts on the word the
set stands for. The portable kernel is modelled; the vector kernels compute
the same masks. The coarse mask of non-ASCII blocks is narrowed by `sparseNonASCIIMask`
to the exact one before it is used, so that there is one mask here.

**ValidPositions.** A step is one chunk, one batch of positions, the tail or the
verdict. The label of stage 2's machine says which tokens skip the pair table; a label does not survive
a batch, and in the model it does not either.
What the density sample decides (use the engine or not, which shortcut numbers get) is a choice.

**IndexPositions.** The same chunks drive the index machine, which writes tape entries and
closes scopes through them; then one pass marks the strings with escapes,
matching escape positions to entries in order. Declining is an outcome,
not an error: the builders of TapeBuilder take over.

### Codecs

**TypeCompiler.** The calls of compileAt are a stack of frames. A node enters the table before its
parts, so a recursive type meets its own unfinished node. A part that has no JSON form fails the attempt of
each type around it, up to one whose methods can stand in; what the attempt created
is taken back from the journal, whose first entries are inline and the rest
overflow. Finalization and the scratch slots of maps are part of it. "decode", "replace", "encode" and "dynamic" are the four ways
a type is compiled.

**TypedPlan, EncodePlan.** What a finished plan says, as functions of the type:
flattened fields and the embedded pointers before them, reset programs,
presence sets narrow and wide, field matching with folding, which plans track aliases; fused
field names, literals and the loss of an address. `Layout` is what a type is once names are
resolved: a type declared from another keeps its parts and loses its methods.

**TypedDecode, ReplaceTracker.** The destination and all it reaches are words of one memory,
so that two pointers to one object, overlapping slices and a pointer into the
destination itself are ordinary states. There is one operator per kind of node; each returns the memory it
leaves, also when it fails. A document is a tree, and a cut-off or malformed
part of it is a leaf that fails where the cursor would.

**TypedValue, DecodeReuse.** One call of a Decoder is a step, as it is in the code for the
caller. Between calls the program shares parts of the value. `Standard` says what the value should read as, on
trees: a decode into the zero value under Replace, encoding/json's merge otherwise.

**EncoderExecute, RoundTrip.** AppendJSON's output is a sequence of tokens; literals of the
plan are spliced as the code does, separators included. The reference is
`Document`: the JSON value encoding/json makes of a Go value, with no plan, fusion or budget.

**DecoderScratch.** Each atomic operation on the cache is a step. Inside an
operation the document is the stack of constructs that hold scratch: maps,
inline catch-alls, wide records, sequences of receivers. A document may nest
them in any way, fail anywhere or panic. An error that
leaves a record with an open catch-all does not release the catch-all's scratch; only the
reset in `release` does, and the model has it so. States without an owner
may be allocated again, as memory is. The Decoder is compiled with Replace.

**EncoderScratch.** A slice is its length and the number of leading slots that are not zero.
Borrowing moves it, so a map inside a map finds the slot empty, exactly as in the code, and so
does a hook that calls AppendJSON again on the same plan. Errors and panics may come at any
point. `sync.Pool` is external.

**MarshalCache.** Load, LoadOrStore, the load of the hint, the encoding, the
load before the update and each compare-and-swap are separate steps.

### Index

**TokenText.** For the index a document is a sequence of tokens and offsets count
tokens; bytes inside a token are the business of the scanners above. `RefTape`
says from nesting levels and neighbouring tokens what the tape of a well-formed document is.

**TapeBuilder.** Variables are the builder's fields and the locals of WalkFast. A
step is one pass through a label of the fast walk or one turn of a loop of the
diagnostic parser. The fast walk has a stack of fixed size; the diagnostic parser
keeps the number of an entry's parent in that entry's `next` until the entry
closes, and the model has the same dual use. `FallBack` discards the tape and
starts the second builder in the same storage, and `Finish` also writes the hashes of
the names into their `next` words and the flag into the objects. Widths are constants:
`MaxOffset` for 32-bit offsets, `MaxCount` for the count field, past which a
document is refused.

**TapeLookup.** Extends TapeBuilder, so that every lookup reads a tape that
the modelled code built. Lookups do not change state; they are operators named after the methods, evaluated
on the finished tape. An entry number outside the tape would be an
evaluation error, so that the runs also show that no skip leaves it.
`RequiredIndexEntries` is the counting pass.

**RawLookup.** The lookups that need no tape, on the same documents: rawSeeker validates what
it passes, trustedSeeker skips containers a block at a time by counting brackets. Errors of
the pointer come before errors of the text, as in the code; a block has `Block` tokens.

**ObjectProbe.** One step is one member. A member carries the offset `at` of its name on the tape, and
slots and the escaped list hold offsets, as in the code. The storage that the caller passes in is
reused, so a build starts over what the previous one left; the escaped list may
outgrow the storage and move.

## Runs

| run | instance | checks |
|---|---|---|
| text | 8 families of texts of up to 22 bytes, nesting limit 9, which one family starts below; some 300 token documents, damaged and spaced in every place, for the cursor, depth 3; all Writer call sequences of up to 9 bytes, flush at 3 | ScannersAgree, CutOffIsCurable, RejectionStands; WalkExact, WalkVerdict; OutputCompletes, SinkAtBoundary, BufferSound |
| reader_safety | all texts over 5 number bytes up to length 4 and over 6 structure bytes up to 3, 35 longer ones; buffers of 1 and 2 bytes; limit none or 3; EOF or error | WindowSound, FramesWhole, NoNeedlessRead, ImplementsValueStream |
| reader_liveness | 7 texts that reach each kind of return | CallsReturn |
| positions | families of texts of up to some 25 bytes in blocks of 4 bytes (validator), 2 and 8 bytes (index) | PositionsExact, EngineExact, TapeExact |
| scratch | 3 goroutines, 2 slots, 3 states; one goroutine nesting 3 deep; an encoder with 2 scratch objects, 1 box, maps of up to 2 entries, 4 kinds of map plan | Exclusive, ScratchApart, CachedClean; PooledClean, ResetCovers |
| codecs | 2 goroutines, sizes on both sides of each threshold; all graphs of four types with a channel among them, in four modes | BudgetEarned, ImplementsSizeHint; PlanSound, VerdictRight |
| typed | 35 destinations, with Replace or without, with 2 to 5 documents each, 3 decodes and 2 sharing steps; 16 types taken through a round trip | DecodesAsStandard, ResultUnshared, StorageReused, CyclesRefused; EncodesAsStandard, RoundTrips |
| index | all token sequences up to length 4 over 7 tokens, longer documents with each token dropped or replaced, objects of many members; four capacities; with and without hashes; pointers of up to 2 tokens; probes over 4 names, two builds in one storage | WalkSound, BuildExact, BuildReturns, NavigationExact, StorageExact, RawExact, LoopsExact, ProbeSound |
| replace_nested | a struct with a hidden field inside another, with Replace | DecodesAsStandard fails |
| empty_structs | structs all of whose fields are empty structs | EncodesAsStandard fails |
| reencode | a type with two pointers per level | Reencodable fails |
| scratch_retention | the encoder with a smaller budget for maps | RetentionBounded fails |

What the passing runs show:

- *ScannersAgree* (VerdictsAgree, ExtentsAgree, FramesCoverValues, FrameResumable): the first invariant of
  `docs/architecture.md` for the scanners of the stream path; framing does not depend on where refills fall.
- *CutOffIsCurable, RejectionStands*: the Reader's choice between "the source failed" and "the text is
  wrong" is right in both directions. RejectionStands
  identifies "missing" and "invalid low surrogate" (`SameError`): which of the two
  Validate reports depends on how many bytes follow the first escape, at the same offset.
- *PositionsExact, EngineExact, TapeExact*: the same invariant for the engines of large documents.
  A block boundary inside any token shows neither in the positions, nor in the verdict, nor on the tape.
- *WalkExact, WalkVerdict*: a cursor hands out each member and element once and in order
  whatever the program does with it, and only one whole valid value ends in a Finish without error.
- *ImplementsValueStream*: results, order, end and errors depend only on the
  input, as `stream_fuzz_test.go` tests for random chunkings; here every
  chunking of each text.
- *NoNeedlessRead*: a buffered container, string or literal is delivered without
  another Read.
- *WindowSound* (WindowFaithful, BytesFaithful, MemoryBounded): the
  rolling buffer never shows and never grows past twice the limit.
- *FramesWhole*: while Next waits for the rest of a value, the frame it carries through refills, moves and
  growth of the buffer is the one a single scan of the input would have found.
- *OutputCompletes, SinkAtBoundary, BufferSound* (NothingLost, BufferBounded):
  the Writer emits well-formed streams, cuts them only between values, and loses nothing to a short Write.
- *Exclusive, CachedClean, ScratchApart* (ScratchUnshared, SeenSetOwn, BatchBalanced), *PooledClean, ResetCovers*: the
  fourth invariant of `docs/architecture.md` for decoder and encoder scratch.
- *BudgetEarned, ImplementsSizeHint*: concurrent Marshal calls
  share one hint, no update is lost, one large output does not inflate later ones.
- *PlanSound* (PlanWhole, SlotsOwned), *VerdictRight*: no published plan reaches a node of an abandoned attempt or a half-built one; two maps that can
  be open at once never share a slot; a type is refused exactly when it has no JSON form.
- *DecodesAsStandard, ResultUnshared, StorageReused, CyclesRefused*: the promises of Replace hold for destinations that share
  storage in every way two steps can make, after calls that failed half way, and without Replace the merge is that of encoding/json.
- *EncodesAsStandard, RoundTrips*: fusion, omission, sorting and the limits never show in the output.
- *WalkSound* (TypeOK, MemorySafe, ScopesAreOpen, SubtreesNest): the builders index their stacks and
  the tape without checks; these are the facts that make it safe, in every state.
- *BuildExact* (TapeFaithful, VerdictExact): a finished tape is the reference tape whichever
  builder wrote it, and the document is refused exactly when it is malformed,
  too deep, too wide or too large for the storage. *BuildReturns*: a build returns; giving up the fast walk happens once.
- *NavigationExact* (LookupExact, IterationExact, PointersAgree), *StorageExact*: plain and hashed
  lookups agree with the reference, compiled and parsed pointers agree with each
  other, and the counting pass asks for exactly the entries a build needs.
- *RawExact, LoopsExact*: the lookups and loops over text find the same values, and report an error
  exactly when the pointer or the text they passed has one.
- *ProbeSound* (ProbeExact, HalfEmpty, RequiredIsEnough): a probe always meets an empty
  slot, ignores what an earlier build left, and fits the storage it asked for.

What the violated runs show; `PROJECT.json` quotes the lines that disagree:

- *replace_nested*: `appendTypedReset` clears, below the root, only what JSON sees of a struct. A null for a
  nested struct keeps its excluded fields, where the README promises a fresh value. `typed` therefore has
  no type with hidden fields in a struct that is nested by value.
- *empty_structs*: a struct whose fields are all empty structs encodes with a comma behind its brace. `typed` has
  empty structs only beside other fields.
- *reencode*: the budget for pointers counts the whole path, so a document the decoder accepts may be refused
  when encoded. `EncodesAsStandard` states the budget as the code has it.
- *scratch_retention*: the entries of an oversized map stay in the pooled scratch when the map is nested in
  another that has borrowed it.

Two branches turned out never to be taken: the loops' wait for a confirming byte, described
above, and `stored == next` in `updateMarshalSizeHint`.

### Bounds

*text.* The family Deep opens eight containers, so the nesting limit of 9 lies inside its texts, one below and one above.
Words of 2 bytes make strings cross words and end inside one. The cursor's documents nest to its limit of 3 and beyond. `FlushAt = 3` and `MaxBytes = 9` let
three flushes happen, at, below and above the threshold; `MaxBytes` bounds output in the guards of the
methods, `Refused` and `Flush` remain possible, and `MaxDepth = 9` is that same bound:
the Writer itself has no nesting limit. The deadlock check is off because a text at its length
bound has no successor.

*reader.* Buffers of 1 and 2
bytes compact and double within every text of three bytes; limit 3 lies
below, at and above the lengths that occur.

*positions.* Blocks of four bytes, chunks of one block and batches of two chunks make every token of more than one byte
cross a block, and Unicode escapes and surrogate pairs longer than one. With two bytes every piece crosses one;
with eight, blocks hold several escaped strings to mark. `CoalesceBlocks = 1` lets runs of non-ASCII blocks be joined and split.

*scratch.* In "pool" operations have no contents, because what an
operation does to the state it holds is local to its process; with two slots and three processes, states
are taken, returned, refused and dropped in every order. In "nest" one process has the contents,
with one node of each kind so that recursion meets its own scratch, and a second
operation meets the reset state. In "encode" limits of 1 and 2 and maps of up to two entries give maps
below, at and above the limit; calls and the maps inside them nest two deep.

*codecs.* Sizes {1, 3, 6, 7} with
HintMin 2, HintMax 4 and growth 2 give a size below the minimum, an ordinary one
and two different large ones. Four types are the fewest with a recursive pair, a type that fails and one between them;
two inline journal entries let the journal overflow.

*typed.* Three decodes are one to fill the destination, one that may fail half way and one that has to cope; two sharing steps
make two places share, or one storage reach three places. `SeenBits = 3` splits the presence sets into narrow and wide at
four fields, `MaxDepth = 4` lies within the recursive documents, and `MinSliceCap = 2` is the first growth of a slice.
Nothing follows the last step, so the deadlock check is off.

*index.* `FastDepth = 2` below `MaxDepth = 3`, so that documents
exist that fit the fast walk, that only the diagnostic parser accepts, and that nobody does.
`MaxCount = 5` makes a sixth element overflow the count field while
five members are one group of four of the hashed search and a remainder.
`MaxOffset = 23` is one below the length of the longest document, and capacities 1, 4,
23 and 24 are too small, exact for some documents, at and past that width.
Names include an escaped spelling of another name, and two pairs of
different names with the same hash. Raw lookups skip blocks of four tokens. The probe has names whose home slots collide
and are adjacent, and storage that is smaller than some tables and larger than others. The deadlock check is off because a build that has returned has
no next step.

### Fairness

`reader_liveness` uses weak fairness of `Turn`: a goroutine inside Next keeps
running, and a Read eventually returns bytes or the final error. The code
cannot guarantee the second; io.Reader's contract does. A contract-breaking
Read is never needed for progress, so it has no fairness. `index`
uses weak fairness of the builder's `Next`: BuildIndex is one goroutine that runs until it
returns and waits for nothing. All other runs are
safety only.

## Proofs

All constants are arbitrary; the assumptions are the ASSUMEs of the modules, and where a module is run beside another, an
operator that its theorems name as hypothesis and the run's module assumes.
Each proof has an inductive invariant with one step per action.

- **TextProofs.** The reference grammar and the two validators, for every text. The grammar is a recursive function:
  a recursion whose right side reads lower ranks only is met by some function (RecursionIsMet, by the least
  rank no function reaches), so JsonValue satisfies its rules (GrammarIs). ValidatorDecides: Validate accepts
  exactly the documents. A string is a scan that stops at special bytes (Scans), a number is the longest
  of its parts. The descent asks the parser only at places of lower rank, where the rank falls with the offset (ParseAlike), so a
  parser exists and satisfies its equations (ParserIs). Its ends are those of a recogniser (Recognises); whatever
  satisfies these equations ends a value only where the grammar does (RecognisedSound) and ends every
  value of the grammar (RecognisedComplete), both by induction from the end of the text (PlaceInduction).
  Valid's scanner is the same kind of recogniser with other scans: a string whose clean run is tested word by word,
  an integer, a fraction and an exponent that take the longest run of digits. Hence ValidatorsAgree: both
  entry points accept the same texts, exactly the documents. RootValueExact says the same
  of one value inside a text, which is what the Reader asks when the rest is not there yet:
  the value ends where the grammar says, and a number that a further byte continues is not cut short.
  Last come functions that only look at quotes, escapes and brackets: whatever satisfies the equations Skims passes the inside of a
  string (SkimsString), and whatever satisfies Walks passes a value without looking at what it is, and gets out of a container
  at its bracket (WalksAll, by induction on the length of the span; WalksContainer).
- **FrameProofs.** FramesResume: a scan of a text that was cut anywhere, resumed on the longer
  text from the frame it left, ends as a scan of the longer text does. A string, a number and a container each scan by a recursive
  function that goes on turn by turn, so the two scans agree from the cut on, by induction from the cut downwards. A frame counts
  from the start of its value, and what it finds depends only on the bytes from there on (FrameMoves), so that moving the bytes in the buffer
  changes nothing. FramesCover and DocumentSkipped compare with the grammar: the container loop of the frame, which carries
  its depth and whether it is in a string, and that of the cursor's skipper, which jumps over strings, both satisfy Walks, so
  they end a container where the grammar does. A number's frame reads any run of bytes that numbers consist of, and so
  reaches at least its end; on a document white space or the end follows, and the skipper stops exactly there.
- **AgreementProofs.** ScannersAgree, under AgreementAssumption: the texts are sequences of bytes. A behaviour
  never holds anything else (IsText), and of every text the theorems above say the four parts: VerdictsAgree
  is ValidatorsAgree, ExtentsAgree is RootValueExact, FramesCoverValues joins FramesCover and DocumentSkipped,
  FrameResumable is FramesResume at the frame of a new value.
- **ReaderProofs.** The invariant joins TypeOK, WindowFaithful, OffsetsOrdered, BytesFaithful and
  MemoryBounded: WindowFaithful needs the kept offset inside the buffer, which is
  OffsetsOrdered, and BytesFaithful follows from WindowFaithful when a value is delivered. Of
  what the scanners compute these need only the ranges, so they hold
  for whatever the scanners accept. MemoryBounded holds because the buffer doubles only
  when it is full of a value within the limit. Together they are WindowSound, as the run checks it;
  OffsetAdvances, that no step moves the offset back, follows.
  FramesWhole needs the frame itself, of which FrameProofs says that it resumes and moves:
  the invariant FrameInv says of each phase which scan of the input the frame stands for.
- **WriterProofs.** NothingLost and BufferBounded, together BufferSound, with the type invariant;
  ErrorSticks from the guards of all methods. OutputCompletes and SinkAtBoundary speak of the grammar and use
  that it satisfies its rules (GrammarIs). `Reads(rule, u, d)` says that the grammar reads the text u wherever it
  stands; it composes: a container of what it reads is read. The invariant OutputNested cuts the output at the brackets of the open
  containers. Before the outermost bracket there are complete lines, between two brackets a run of items that waits
  for a value, and after the innermost what its frame says (items, or a name that waits). Every method
  keeps that, and Closers completes it from the inside outwards. OutputCompletes alone is not inductive, since it does not say where the
  next comma goes. The sink moves only when it takes the whole output between two values. Both hold while the nesting stays within
  MaxDepth, since the Writer itself has no limit; WriterStaysFollowed says that the hypothesis holds whenever
  MaxBytes is at most MaxDepth, as in the `text` run.
- **ScratchProofs.** Of the decoder's cache: Exclusive with TypeOK and ReleasedClean: a state is
  clean between reset and publication while its process still owns it, so no
  other process can soil it. ScratchApart, for documents of any nesting, needs what the constructs of an
  operation say of its state (StacksAgree): the scratch of each is in use, its seen set says what the construct has marked, no two
  share one, and the count of batches is the number of constructs that are batched. A slot that is free is
  therefore nobody's. A panic or an error that skips a release breaks none of it, because the stack is
  emptied in the same step, and a state starts an operation clean by CachedClean.
  Of the encoder's pools: PooledClean and ResetCovers, under EncoderAssumption. A scratch is pooled or belongs to one call (Apart).
  Between borrowings its entry slice covers the remembered prefix and is dirty only inside it (ScratchesOk), and
  an open map will clear what is dirty in its backing (CallsOk). ResetCovers is not inductive
  alone: while a map has borrowed the entry slice the scratch has none, and it is Gives, that some open map puts back a slice
  long enough for the prefix, that carries the fact past the maps inside. An oversized catch-all hides the scratch, once in a call at most.
- **CodecProofs.** Of the compiler: PlanSound and VerdictRight under CompilerAssumption (only a struct has several parts, or an inline map): for any type graph, any
  interleaving of recursion and failure, and any length of the inline journal. A level is the first c types of the journal
  and the scratch reserved when there were c. It is whole (each record refers to nodes of the level, and
  is settled unless its type is in the making), reached (each node but the first is a part of an earlier one), and its scratch is owned (each slot
  and backing by one node). The invariant says this of the present level and of the one each call in progress found when it began.
  The earlier ones are what an invariant about the present alone would miss: a failed attempt returns to one of them,
  and it is intact because a call writes only to nodes behind its level. The failure verdict holds since the innermost
  failing call has a part outside Compilable or is a channel (Hopeless), and Compilable is the greatest set of its kind; success because
  the types of a finished table are such a set.
  Of Marshal's cache: EntryShared, HasOutput, HintEarned and BudgetEarned;
  the refinement maps the hint of the cached entry to the register and a process
  in the update loop to a pending report. A failed swap is a stutter, a successful one the abstract
  update because the estimate has not changed since it was read.
- **IndexProofs.** Of the builders: the invariant joins TypeOK, MemorySafe, ScopesAreOpen,
  SubtreesNest and Limits; the first four are WalkSound. SubtreesNest is not inductive alone: closing a container
  gives it the rest of the tape, which nests only if it is the innermost open one,
  and that is what ScopesAreOpen says of the stack and of the list through `next`.
  Limits carries the size tests of buildIndexOptions into the loops, where the offsets
  and counts rely on them, and the fact that a name is a string.
  CompleteEntriesFinal (only starting over and enrichment touch a complete entry)
  follows action by action.
  Of the probe: ProbeSound under ProbeAssumption: offsets rise, and hashes are numbers. TableOk says
  of the table after n members that an occupied slot holds the latest member of its name where a probe for the name
  arrives, with every slot on the way taken by another name, and that each name is there. An insertion fills the end of
  one path and shortens none. At most n slots are taken, and capacity is at least 2n, so that
  a path ends. The doubling loop of `RequiredProbeSlots` is a recursive function;
  its powers of two are reached through finite approximations.

The type invariants of Reader, Writer, DecoderScratch, EncoderScratch, MarshalCache, TypeCompiler and ObjectProbe, OffsetsOrdered, OffsetAdvances, ErrorSticks, EntryShared and
CompleteEntriesFinal are proved for every instance, so that no run repeats them.

Only model-checked: liveness; BuildExact and the lookup properties, which compare with a reference defined by
counting over the document; of what the recursive scanners compute, CutOffIsCurable (which
speaks of one family's completions), RejectionStands, NoNeedlessRead, ImplementsValueStream, WalkExact, WalkVerdict and the
position engines, since each recursion needs its own induction by a least counterexample;
the typed modules, which recurse over values with RECURSIVE operators.

## Plan

1. Theorems: an entry that is complete describes the tokens it spans, and a build is refused for depth, width or size only past
   that limit (the parts of BuildExact that need no grammar).
2. **StructuralDecode**: positions against the scalar cursor, with fallback, over the decoder of TypedDecode.
3. **Compact, Indent, Contains, NumberEqual** and the parser of ordered values, as scanners over JsonText.
4. Contents of receiver arenas, and the owned text block of a Decoder.

## Not modelled

- Bytes of formatted scalars, HTML escaping, error wording other than the validator's messages,
  float and integer conversion (128-bit arithmetic and tables), byte views, benchmarks.
- Go's memory model below atomic operations, `sync.Map` and `sync.Pool`; architecture-specific kernels.
- Encoding: `IsZero` methods, methods found on a nil pointer inside an interface, and the output of a
  MarshalerSimd hook, which the code trusts. `e.nonAddr` is never true in the executor and has no counterpart.
- Decoding: text and JSON unmarshalers beyond their scratch. In a hook, `NumberText` consumes a string that is
  no number before it fails (`decoder_cursor_scalar.go:178`); the model does the same and takes a hook that goes on
  after such a failure to have broken its contract to consume one value.
- Compiling: limits on the number of fields, and the errors about several inline fields and about
  embedded pointers that cannot be set.
- The components that `PROJECT.json` marks `not_modelled` and the plan names.
