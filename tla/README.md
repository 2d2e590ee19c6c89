# vgi-fixedformat: a TLA+ verification project

`vgi-fixedformat` reads and writes fixed-width, mainframe-style record files
from DuckDB: a pure core (`crates/fixedformat-core`: layouts, field codecs,
record framing, decompression) and a worker (`crates/fixedformat-worker`) that
offers them as table functions, buffering functions, COPY handlers and scalar
functions over local files and cloud objects. This directory holds TLA+ models
of it, their TLC configurations and TLAPS proofs. Definitions are translated
from the source; `PROJECT.json` names the lines behind each one.

Paths below are relative to `crates/fixedformat-worker/src` (worker) and
`crates/fixedformat-core/src` (core).

## 1. The system

### Components

| Component | Source | State | Operations | Talks to |
|---|---|---|---|---|
| Streaming scan | worker `reader.rs`, `table/read_fixed.rs`, `table/read_multi.rs`, `table/mod.rs` | sources, `idx`, `seen`, the open stream; the client's continuation token | resolve the listing, open a source and skip, take and decode a record, emit a batch, resume | record stream, codec, the paged transport |
| Range reader | worker `cloud.rs` | position, known size, one chunk of bytes | `read`, ranged GET, HEAD after a refused first range | object store; feeds the record stream |
| Streaming framer | core `stream.rs` | a buffered reader, the line or record under construction, the count of decompressed bytes | `next`, `read_until_capped`, `read_full`, `LimitReader::read` | any reader; feeds the scan |
| Slice framers | core `framing.rs`; the inverse in worker `record_writer.rs` | none | cut a byte string into records, assemble records | streaming framer, scalar functions, writers |
| Writers | worker `buffering/write_fixed.rs`, `buffering/write_multi.rs`, `copy_to.rs`, `record_writer.rs`, `cloud.rs` | a log of batches per statement, the scan position in it, the destination | process, combine, finalize or close, write locally or put | engine threads, storage of the log, file system, object store |
| Numerals | core `packed.rs`, `zoned.rs`, parts of `encode.rs`, `decode.rs` | none | display, binary, packed and zoned numbers to bytes and back | codec |
| Conversions | core `edited.rs`, `datetime.rs`, `ebcdic.rs`, `value.rs`, parts of `encode.rs`, `decode.rs` | none | code page 037, hexadecimal, floats, print images, dates and times, and a value of one kind in a field of another | codec |
| Record codec | core `encode.rs`, `decode.rs`, `layout.rs` | none (a cursor, a shift and a scope in the recursion) | a row to a record and back by a layout | all readers and writers |
| Record types, row functions | core `multirecord.rs`, worker `scalar/pack.rs`, `unpack.rs`, `unpack_multi.rs` | none | choose a layout by the discriminator, stamp it | codec |
| Arrow mapping | worker `arrow_map.rs`, `value_in.rs`, part of `table/read_multi.rs` | none | column types, arrays of rows, the union of record types, and values read back | all readers and writers, DuckDB |
| Introspection | core `describe.rs`, worker `table/describe_fixed.rs`, `describe_multi.rs` | none | list a layout's fields with place and type | parsers, DuckDB |
| Options, secrets, stores | worker `options.rs`, `cloud.rs`, `table/mod.rs` | none | words to options, paths to files and objects, secrets and overrides to a store, globs | all readers and writers, object stores, DuckDB's secrets |
| COPY FROM | worker `copy_from.rs`, `reader.rs` | rows read so far, batches made so far | resolve, read all, match by position, cast | options, framer, codec, Arrow mapping, DuckDB |
| Compression | core `compression.rs`, `zstd_codec.rs`, `stream.rs` | the count of decompressed bytes | detect or take the codec asked for, decompress behind a limit | framer, writers |
| Template parser | core `template.rs` | offset, byte order, names given out | tokens to fields | codec (produces layouts) |
| JSON parser | core `jsonspec.rs`, `multirecord.rs` | offset, names given out | objects to fields, several record types | codec |
| Copybook parser | core `copybook.rs`, `layout.rs` | tree of levels, a cursor per list of siblings | statements to items, items to fields, folding of REDEFINES | codec |
| Not modelled | see section 7 | | | |

A scan is: a listing of sources -> for each, bytes (a local file or the range
reader), possibly decompressed behind a limit -> records (streaming framer) ->
rows (codec by a layout that one of the three parsers made) -> batches ->
pages. Writing runs the other way: batches are appended to a log by the
engine's threads; one finalizer reads it page by page, encodes every row,
frames the records and replaces the destination.

### What is hard

Neither crate starts threads of its own; what makes it hard is where steps of
others fall in between.

- **Paging.** Over HTTP a producer lives for one page. The next one is built
  from `(idx, seen)` alone: it resolves the listing anew, opens source `idx`
  and skips `seen` records. A page may be lost, a worker may die, the listing
  and the objects may change in between.
- **Pieces.** Bytes arrive in pieces of any size, over chunks, ranges and
  decoders; records, lines, CR and LF lie across them.
- **Replaced objects and failed requests** in the middle of a ranged read.
- **Threads, pages, crashes and failed writes** between the log and the file.
- **Shifts.** A table that depends on a field moves everything after it, in
  groups that themselves repeat; encoder and decoder must agree, and so must
  the parser that reserved the places.
- **Columns of lists.** Rows become arrays with offsets and validity that all
  rows of a batch share, and one child for each record type of a union.
- **Names of objects.** A key goes through a URL, a listing whose names are
  decoded once more and a pattern whose wildcards are delimiters of URLs; settings come from a call
  and from the secret of each bucket.
- **Files that change** between the listing of all paths and the opening of
  the last one.
- **Trees from numbers.** Level numbers, OCCURS, SYNC and REDEFINES determine
  offsets; folding must neither lose nor move an item.

### What correctness means

| Component | Promise |
|---|---|
| Scan | rows in order of position and record, at a position none twice and none skipped; the token counts exactly what was delivered; success means everything was delivered; failure has a cause; every scan ends |
| Range reader | bytes at successive offsets; an unchanging object is read whole; a read that ends well is never cut; failure has a cause; reading ends |
| Framer | pieces do not matter; memory and decompressed size are bounded; refusal has a cause |
| Writers | every row once and in its thread's order, or the destination is what it was; a bad row writes nothing; the answer is true; what a framing can hold reads back |
| Codec | a row its layout can hold comes back; records have no gaps; tables are as long as their controllers say |
| Template, JSON | the layout packs the codes in their order; a declared number of digits can be held |
| Describe | what is listed of a field is where and as what it is read |
| COPY FROM, options | the sources are those the paths stand for, with the settings asked for; the rows loaded are those of the files, no other and in order; failure has a cause |
| Copybook | the tree follows the levels, every item is where the tree of levels puts it, errors have causes |

`PROJECT.json` lists the hazards behind these, each at its line.

## 2. Modules

| Module | What it is |
|---|---|
| `ScanSpec` | abstract: a client receives a fixed sequence of rows bit by bit, and may be told "done" only at its end |
| `StreamingScan` | the producer and the paged transport; `StreamingScanProofs`, `MCStreamingScan` |
| `RangeReader` | the ranged reader over a store that fails and replaces; `RangeReaderProofs`, `MCRangeReader` |
| `Framing` | the four slice framers, and their inverses, over bytes of a small base; `FramingProofs` |
| `RecordStream` | the streaming framer over pieces; EXTENDS `Framing`; `RecordStreamProofs`, `MCRecordStream` |
| `SinkSpec` | abstract: a destination replaced as a whole |
| `WriteFile` | threads, log, finalizer and destinations; EXTENDS `Framing`; `WriteFileProofs`, `MCWriteFile` |
| `Numerals` | conversions of numbers; `NumeralProofs` |
| `Conversions` | everything else a field can hold; EXTENDS `Numerals` |
| `Codec` | encoder and decoder over layouts; EXTENDS `Conversions` |
| `Arrow` | rows to columns and back; EXTENDS `Codec` |
| `Describe` | the listing of a layout; EXTENDS `Arrow` |
| `MultiRecord` | rows to records, to columns, to rows, by record type; EXTENDS `Describe` |
| `Template` | templates to layouts; EXTENDS `Codec` |
| `JsonSpec` | JSON and multi-record specifications to layouts; EXTENDS `Template` |
| `MCMultiRecord` | instances: EXTENDS `MultiRecord`, `JsonSpec` |
| `Copybook` | copybooks to layouts, as a state machine; `CopybookProofs`, `MCCopybook` |
| `Options` | arguments, settings, decompression; EXTENDS `Numerals` |
| `Locations` | paths to files, objects and stores; EXTENDS `Options` |
| `CopyFrom` | COPY FROM and the bind of a scan, over files that change; EXTENDS `Arrow`, `Locations`, uses `Framing`; `MCCopyFrom` |
| `Induction` | lemmas of induction, recursion and sequences that the proofs share |

Some definitions have a sibling before them called a *slip*: the same
operation with a plausible mistake. Nothing uses the slips; replacing a
definition by its slip must make TLC find a violation, and `PROJECT.json`
says which.

### StreamingScan

`sources`, `idx`, `seen`, `open` and `at` are the fields of
`StreamingProducer`; `rows` is the local batch of `next_batch`, `page` the
batches of the response under construction, `token` and `delivered` what the
client holds. `next_batch` is a loop, so its iterations are actions:
`OpenSource` (with the skip), `OpenFails`, `TakeRecord`, `TakeFails`,
`Drained`, and `EmitBatch` or `EndOfScan` at its exit. `SendPage`, `LosePage`
and `Resume` are the transport; `Relist` and `Overwrite` change the world
between requests, `IoFault` fails a read. An object is a number of records, of
which some do not decode (`Undecodable`), whose end may be ragged (`Ragged`),
or which cannot be opened (`Unreadable`). `seen` moves before the record is
decoded, as in the code.

`read_fixed` and `read_multi` have the same loop; the model stands for both.

### RangeReader

`size`, `pos`, `buf` and `off` are the reader's fields. `Consume` is `read`
on a chunk that has bytes left, `AtEnd` its early return; `Fetch`, `FetchEmpty`
and `FetchFails` are its request for the next one; a first range that fails is followed by a HEAD (`ProbeEmpty`,
`ProbeFails`). An empty body ends the stream at any position, also when what
was read already is cut by it (`FetchEmpty`). A byte is its offset and the version of the object it comes
from. `Replace` is the store. A response may be shorter than asked for.

### Framing, RecordStream

Bytes are numbers below `Base`; CR, LF and 0 are three of them, and the
descriptor word counts in that base, so that it overflows at `Base^2` as the
real one does at 65536. `RecordStream` hands the stream out in pieces of any
size up to the buffer (`Feed`, which is also where a decoder's output is
counted); `LineEnd`, `LinePart` and `LastLine` are `read_until_capped` and its
caller, `FixedPart` and `FixedEnd` are `read_full`, `Slurp` and `SlurpEnd` the
two descriptor framings, which read everything and use the slice framer.

### WriteFile

`Process` appends a batch for a thread, `Combine` ends the input, `ScanPage`
reads `PageSize` batches after `afterId` and encodes them, `AssembleBody`
frames, then either `Put` (an object store), `RefuseWeb` (an http or
https URL, which is read-only) or `Truncate`, `WriteSome` and `WriteDone` (`fs::write`), then
`Reply`. `PutFails` may have replaced the object or not; `LocalFails` and
`Crash` may come at every step. The three statements (`write_fixed`,
`write_multi`, COPY TO) differ in how they see the end of the log and in what
they answer: `LastPage` and the constant `Calls` keep that apart.

### Numerals, Conversions, Codec, Arrow, Describe, MultiRecord

Pure operators, recursive where the code is, over layouts that are sequences of
field records. A value is a record with a tag for its kind (`Value`), bytes are
numbers up to 255. `Conversions` holds both tables of code page 037 in full,
floats as sign, exponent and significand, pictures as sequences of symbols, and
of chrono's formats the parts for year, month, day, hour, minute and second.

`MultiRecord` is a small state machine around them: a row is packed, the record
unpacked, the rows laid out as columns (`AsColumns`) and read back from them,
and so on for `MaxRecs` records, or a record is unpacked first. `Held` says,
without the encoder, which rows a layout can hold: the digits, signs, floats,
pictures, moments and tags it has places for.

### Options, Locations, CopyFrom

Words of options are strings, whose case is settled already; a key is a
sequence of characters over a small alphabet that has every delimiter, wildcard
and escape. `BuildStore` yields the settings a store ends up with. What
libraries do - parsing of URLs, globbing, listing, choosing a secret by its
scope, casting, decompressing - is modelled from how the code uses them.

`CopyFrom` has an action for each step between which a file may change: `Bind`
(secrets and, for a scan, the early look at local files), `Plan` (options and
the sources of all paths), `ReadSource` for each source, `Match`, `Chunk` for
each batch, and `Return`. `Change` replaces, adds or removes a file.

### Template, JsonSpec

`ParseTokens` is `parse_tokens`, with the byte order, offset and counter of
names in its state; `Coded` is `parse_body`. `LayoutFields` is
`layout_fields`, `FieldKind` is `field_kind`, `ParseMulti` is
`MultiLayout::parse`. Tokens and JSON objects are records, split already.

### Copybook

`AddItem` and `SkipCondition` read statements into a tree (`build_tree`);
`PlaceItem`, `EnterGroup` and `LeaveGroup` are the recursion of
`layout_nodes`, with a stack of frames; `Folded` is `fold_redefines`. `Refuse`
collects the error exits. A picture is its sequence of symbols.

## 3. Runs

Twelve runs, each a question. Every action fires in some passing run.

| Run | Question | Bounds | Answer |
|---|---|---|---|
| `scan_static` | Does the paged, resumable producer do what a client expects of one scan? | all listings of up to 3 of 6 objects (3, 1 and 0 good records, a bad record, a ragged end, one that does not open), batches of 2, 2 lost pages, 1 fault | `ImplementsScan`, `CompleteWhenDone`, `TokenCovers`, `FailsForCause`, `Terminates` hold |
| `scan_changing` | What survives when listing and objects change between pages? | 8 listings of one bucket, 1 change of the listing, 1 overwritten object, 1 lost page, 1 fault | `InOrder`, `NoGap` hold |
| `scan_shifted` | Is an object delivered once although the listing changes? | the same without overwriting | **violated**, finding 1 |
| `range` | Are the bytes right for every length, replacement and failure? | chunk 2, lengths 0 to 5, caller buffers 1 and 3, replaced twice, 1 failed request | all hold |
| `stream_pieces` | Does the way a stream is cut into pieces matter, and is a stream of blocks read just when it is one? | all texts of up to 5 bytes, up to 3 descriptor pieces, blocks of up to two records and what runs over their end, in base 4, buffer 3, record limit 3, decompressed limit 4, record lengths 0, 2, 3, 4 | all hold |
| `write_rows` | Is every row written once, or the destination kept? | 2 threads, up to 3 batches, one batch a page, rows that do not encode, records of any shape, 3 destinations, 4 framings, 1 crash or failure | all hold |
| `write_blocks` | Is writing the inverse of reading? | up to 3 records of 2 or 3 bytes, descriptor words to 15 | **violated**, finding 2 |
| `record` | Do encoder, decoder, parsers, columns and listing agree? | numbers around the limits of one to three bytes or digits in every kind; floats at the ends of their range, and numbers between two floats; 16 pictures; texts short, exact and long in both encodings; dates around the ends of months and years; tables of 0 to 3 elements, nested tables, two record types, templates, JSON; all records of up to 2 of 13 bytes and up to 4 of 8 | all hold |
| `record_inverse` | Does packing an unpacked record give it back? | two-byte signed display numbers | **violated**, finding 3 |
| `copybook` | Is every item where the text puts it? | all texts of up to 3 statements over levels 5, 10, 15 and ten kinds of clause, chosen ones of 4, some with a name that occurs twice, 126 pictures, nesting limit 1 | all hold |
| `copybook_sync` | Does a synchronized item stand on a boundary of the record? | the same texts | **violated**, finding 4 |
| `load` | Does a statement read what its paths stand for, and load what it reads? | 18 patterns over files and directories (with and without a part that may not be read), 13 over a bucket with keys of `?` and `#`; 3 sets of settings with every set of 3 secrets; hosts of 122 addresses by name and of 91 by number; files plain, compressed, damaged, in disguise, of 0 to 3 rows; batches of 2; tables of 4 types; 1 change | all hold |

### Why the bounds are enough

- *Scan.* The interesting places are the ends: of a batch, of a source, of
  the listing. With batches of 2 and sources of 3, 1 and 0 records each end
  falls on, before and after each other; two crashes in succession resume a
  resumed scan. Three sources put a defect first, last and in between.
- *Range.* With a chunk of 2 the lengths 0 to 5 are nothing, less than one
  chunk, one chunk, one more, two chunks, and one more than that; buffers of 1
  and 3 are smaller and larger than a chunk.
- *Stream.* The buffer (3), the record limit (3) and the longest texts (5, or
  20 with descriptor words) lie close together, so every limit is met exactly,
  missed by one and exceeded, and a delimiter falls on both sides of a
  piece's end. In base 4 there is a byte that is neither CR nor LF, and a
  descriptor word can count a block of two records.
- *Write.* Pages of one batch put every page boundary on the end of the log
  once; in base 4 three records overflow a descriptor word.
- *Record.* Each width is tried with the last number it holds, the next one,
  and their negatives. Nesting stops at two levels because shift and scope are
  handed from one level to the next in the same way.
- *Load.* Batches of 2 with 0 to 6 rows end on, before and after the last row;
  the addresses lie on both sides of every boundary of the internal networks;
  limits are the plain size, one less, and more. One change suffices, because a
  statement opens each source once.
- *Copybook.* Three levels allow a child, a sibling, an uncle and a level
  between two others; four statements allow a redefinition of a redefiner and
  a redefinition inside a redefined group, and a name borne by two siblings or
  by a group and its member.

Bounds named in the modules (`MaxRelists`, `MaxOverwrites`, `MaxFaults`,
`MaxCrashes`, `MaxReplaced`, `MaxRecs`, `MaxChanges`) restrict the environment or the length
of a behaviour only, never what the code does. `BatchRows`, `Chunk`,
`BufSize`, `MaxRecord`, `MaxPlain`, `PageSize` and `MaxDepth` are the code's
own constants or options, made small.

### Deadlock

The state machines of the scan, the reader, the stream and the writers have an
explicit final step (a stutter once they are over), and deadlock is checked.
`record*` stop after two records, `copybook` at the end of
the text, `load` when a statement is over: there the check is off.

## 4. Fairness

| Module | Fairness | Why |
|---|---|---|
| `StreamingScan` | WF of the steps of `next_batch` and its page (`Scan`), WF of `Resume` | `next_batch` is a loop without waits; a client that wants its rows asks for the next page |
| `RangeReader` | WF of `Read` | the framer calls `read` until it returns zero or an error |
| `RecordStream` | WF of `Run` | the caller asks for records until there is none |
| `WriteFile` | WF of `Run` | the engine runs its threads to the end and calls the finalizer, which does not wait |

Nothing is assumed of the environment: faults, crashes, replacements and
changed listings need never happen, and end because they are bounded.
`MultiRecord`, `Copybook` and `CopyFrom` need no fairness; no liveness is claimed.

## 5. Proofs

All for any values of the constants that satisfy the named assumptions, which
say that sets and functions have their types, that sizes are positive, and of
copybooks that their statements and clauses are finite sequences.

**Induction** holds what the others share. The provers cannot instantiate an
induction theorem whose parameter is a predicate, so `SetInduction` and `UpTo`
speak of a set of numbers that holds 0 and the successors of its members, and
a proof puts its predicate into such a set. A recursive function is a CHOOSE
to the provers: `Recursion` and `RecursionUnique` say that the equation of one
that descends has a solution and only one. From these follow what
`FlattenSeq` of the community modules returns (`FlattenAppend`, `FlattenCons`,
`FlattenConcat`), the members of `Max` and `Min`, and what stands in the middle
of a concatenation. `Cat` is concatenation under a name the provers do not look
into: a proof regroups long concatenations with `CatAssociative`.

**StreamingScanProofs** proves `TypeCorrect`, `RowsInOrder`, `RowsWithoutGap`,
`TokenIsExact`, `ScanIsComplete` and `FailureHasCause`. That rows are in order
is not inductive: the next row must be the right one as well. So the invariant
says where the producer stands (`PositionInv`: the last row and the position
agree; `StreamInv`: the open stream is at `seen`), what the token says about
the rows the client holds (`TokenInv`), that nothing is on its way when no
producer is alive (`EmptyInv`), and that every record before the position, and
before the token, is among the rows (`CoverInv`). `ScanIsComplete` reads
completeness off `CoverInv` when the position is the end of an unchanged
listing. `FailureHasCause` needs `CauseInv`: while nothing disturbs the sources,
a position that was reached is still there when a scan resumes at it.

Its second part proves `ScanImplements`: while nothing disturbs the
sources, every step of the paged producer is a step of `ScanSpec` or a
stutter. `GoalInv` says which rows were taken to get to a position, those of
the sources before it and the first ones of its own, so the rows delivered are
always a beginning of the goal, the concatenation of what each source has
before its first defect. The hypothesis `[]Undisturbed` says that no object is
replaced and no listing changes, as in the run `scan_static`: a listing that
changes has no one goal. Lost pages, crashes and faults are not excluded.

**RangeReaderProofs** proves `TypeCorrect`, `BytesInOrder`, `NeverCut`,
`ObjectIsWhole` and `NoSpuriousFailure`. The invariant ties the end of the
buffer to the position (`BufInv`), the known size to the version that
reported it (`SizeInv`, `LastInv`) and each phase to its reason (`ProbeInv`,
`EndInv`, `CauseInv`). `NeverCut` says that a read that ends well has no fewer
bytes than some version that was there since the last byte was served
(`ObjectIsWhole`: all of them if there was only one). It needs that the size the reader
compares with is the size of the version that served the last byte, which is
why the code sets it anew with every response. It does not say that the bytes
are of one version, nor that an object which became shorter is noticed: an
empty body is an end at any position.

**FramingProofs** has no state: it shows that the recursive functions of the
slice framers have the solutions they look like (`NewlineSolves`, `RdwSolves`,
`BlockedSolves`, `LinesSolve`), and that what `Assemble` makes of records the
framing can hold is split into these records again (`AssembleReads`), for any
base of the bytes. The block's descriptor must hold its length, which is what
`Fits` asks and what the run `write_blocks` shows the code not to check.

**RecordStreamProofs** proves `TypeCorrect`, `DecompressionIsLimited`,
`LinesAreBounded`, `YieldsTheRecords` and `RefusedWithCause`. No accepted stream
was longer than the limit, whatever the pieces (`FedInv`, `LimitInv`, `EndInv`),
and a line under construction grows beyond its limit by one buffer at most
(`LineInv`). That the pieces make no difference rests on `YieldInv`: of a text,
the records yielded and the lines from the present one on are the lines of the
stream (`LineYield`); of a fixed stream, they and the part of the present one
are what was consumed (`FixedYield`); the two descriptor framings yield nothing
before all is read (`WholeYield`). `LinesOf` of the slice framer is a function of
the position, so each line feed moves the invariant on by one line.

**WriteFileProofs** proves `TypeCorrect`, `BadRowWritesNothing`,
`RowsWrittenOnce`, `WrittenReadsBack` and `SinkImplemented`.
What the threads have sent and what they still hold is the relation (`Kept`);
the records encoded so far are those of the batches scanned so far, all of
which encode (`ScanInv`), in their order and none twice wherever the pages end
(`RecInv`); so a body exists only if every row of the relation encodes, and is
theirs. A local file is at every moment the old content or a beginning of the
body (`FileInv`), by which `SinkImplemented` follows step by step, and
`AssembleReads` gives `WrittenReadsBack`.

**CopybookProofs** proves `TreeFollowsLevels`, `TypeCorrect`, `NoneOverlaps`,
`RefusedWithCause` and `PlacesAreRight`.
The path from a root to the last item does not hold every item that may become
a parent, so `NearestParent` needs `Covered`: an item that is not on the path
is hidden by one on it that was read no earlier and stands no lower. Then the
last item on the path of a smaller level is the nearest one in the text
(`AboveIsNearest`). For the layout each list of siblings has its own invariant
(`FrameOK`): the cursor is behind every field that has a place of its own and
the end behind every field (`Behind`); one more sibling keeps it (`PlacedOK`)
because an alignment only moves the cursor on (`AlignedOn`) and the width of a
binary item is never zero (`WidthType`), and leaving a group places it in the
list outside as any other item. That a copybook is refused for a cause of an
item, and only then, is a statement about the whole tree, and the stack holds
but one path of it. So `WorkInv` says of each list how far it is (`Partway`):
the siblings placed come before those left, their names are those of the
fields, and none of them gives a cause, nor does anything below them. The list
at place k of the stack belongs to a group of depth k - 1 (`Nested`), which
makes the limit on the stack one on the depth of items; `Depth` is a recursive
function along the parents, and `DepthsExist` solves it.

`PlacesAreRight` compares the layout with what the tree alone says: `Starts` and
`Sizes` are recursive functions over the items, which `StartsAre` and `SizesAre`
solve although a size needs the starts of the members and a start the sizes of
the siblings; `PlacesIn` collects the places in a group, `Levels` those of a
layout, one depth of nesting after the other. The argument has three parts.
Folding: a list and the folded list have the same places, but for the marks of
the groups that are made, which hold no byte (`UnionParts`, `FoldedPlaces`), the
folded one is nested at most two deeper (`FoldedEnds`), and it ends where the
list does if every field that redefines stands where its base does
(`FoldedLength`). Lists: the fields of a list correspond in order to the items
that are gone through, each with the name, start, size and places of its item,
and the cursor is the end of those with a place of their own (`Filled`); one more
item keeps this, because the offset the code looks up is the start the
tree gives (`StartInPlace`, `StartRedefined`), and a group whose list is done
fits its place in the list outside (`GroupFits`). The stack: `PlaceInv` says
that the k-th list is so filled with fields nested at most
`2 * (MaxDepth + 1 - k)` deep, which `ListsInv` keeps from going below zero.

**NumeralProofs** proves that numbers come back from the bytes they are packed
into: `BinaryReturns` for both byte orders and signs, `BytesReturn` the other way
round, `PackedReturns` and `ZonedReturns` for decimals of any number of digits,
and `DisplayReturns` for those of any width whose number an `i64` holds. All rest on two facts about positional
numbers: what `Shifted` takes apart `Horner` puts together (`DigitsReturn`), and
the other way round for digits below the base (`DigitsOfHorner`). Over these,
packed numbers need that two nibbles are one byte, zoned ones that no two
digits share a punch (`OnePunch`), display ones that a sign is a symbol no digit
is. A field without a sign, or one in which the sign would be a punch that
`display` does not write, gives back the magnitude, and the theorems say so. Where the
code has the limits of an `i64` so do they: `BinaryReturns` takes of an unsigned
field of eight bytes only numbers below 2^63 (above, the code reads a number
below zero), and `DisplayReturns` no number that `parse::<i64>` refuses
(`ParseI64` in the model, with `WithinLimit` for the numbers it takes). The
accumulators of packed and zoned numbers have no bound in the model.

**Only model-checked:**

- liveness, in all modules: it needs fairness and ENABLED;
- everything about `Codec`, `Arrow`, `Describe`, `MultiRecord`, `Template`,
  `JsonSpec`, `Locations` and `CopyFrom`: a layout is a tree of any depth, and the
  operators that go through it are RECURSIVE, as is the matching of a pattern.

## 6. Findings

1. `scan_shifted` - An object that appears before the current one between two
   pages shifts the index in the token, and rows are delivered twice (or
   skipped, when one disappears), whereas `test/sql/http_continuation.test:2`
   promises no gaps or duplicates.
2. `write_blocks` - `len as u16` in `record_writer.rs:77` wraps without an
   error, and `rdw_blocked` puts everything into one block: more than 65535
   bytes cannot be read back.
3. `record_inverse` - a signed display integer from a JSON specification loses
   its minus when packed, and `README.md:95` calls packing the exact inverse.
4. `copybook_sync` - a synchronized binary item is aligned from the first byte
   of its group (`copybook.rs:332`) and so, in a group at an odd byte, not in
   the record, from whose start `copybook.rs:324` measures.

Met while modelling, modelled as the code has it, and without a run of their
own:

- Every group of a template starts big-endian again (`template.rs:130`), and
  `README.md:320` lets an order hold for everything after it. In the run
  `record` a little-endian group says so itself.
- The names that a listing returns are decoded once more (`cloud.rs:668`) and the
  directory to list is escaped (`cloud.rs:652`), so `a/%3F` is taken for `a/?` and
  nothing is found below `#/`; `cloud.rs:644` calls the matching exact.
  `PlacesFound` asks for the objects of a pattern only where no name in the
  bucket reads as an escaped one.
- Of `url_style` only `path` is passed on (`options.rs:188`): a call with `vhost`
  does not override its secret, as `options.rs:222` says it does. So `use_ssl =>
  true` sets nothing of its own (`options.rs:193`). `PlacesFound` is about region,
  key and endpoint.
- A record that contains its delimiter is framed without an error
  (`record_writer.rs:47`); `ReadsBack` asks only for records the framing can
  hold.
- A line may become one buffer longer than `max_record_bytes` when its
  delimiter arrives in the next buffer (`stream.rs:122`); `BoundedLine` claims
  no more.
- An object that is replaced in the middle of a read by one that is no longer
  than what was read, from a store that answers a range beyond the end with an
  empty body, looks complete (`cloud.rs:581`).
- An unsigned binary field of eight bytes from 2^63 on is read as a number below
  zero (`decode.rs:298`), and a display integer too wide for an `i64` is an error
  to read (`decode.rs:228`) that was none to write.
- A local pattern finds directories, too (`table/mod.rs:29`), which cannot be
  read; what the pattern could not look into is left out.
- `host_str` has an IPv6 address in brackets, which does not parse as an
  address (`cloud.rs:275`); it is looked up as a name. `PlacesFound` speaks of
  names and IPv4 addresses.
- The codec is looked for in what the first read brings (`stream.rs:148`); the
  model has all of the first bytes at once.
- Clauses after VALUE are not looked at; a `P` in a picture takes a place in
  the width (`copybook.rs:648`).
- A table that depends on a field and is redefined reserves its maximum in the
  union and nothing before the next sibling. COBOL forbids it; `PlacesRight`
  leaves the record length of such texts out.
- A group with a member of its own name is taken for one made by folding
  (`copybook.rs:425`), so its width and OCCURS are lost when it is redefined; of two
  siblings of a name `layout_nodes` means the last and `fold_redefines` the last
  that redefines nothing. The record may then be shorter than its items need.
  `PlacesRight` asks for the length only where what is redefined can be told
  (`RedefinesOne`), and for the places everywhere.
- Where these two differ, `rebase` (`copybook.rs:430`) may subtract a place from
  a smaller one: a debug build panics, a release build wraps, and so does the
  sum that undoes it in `decode.rs:47`. The model has the negative number.
- A list shorter or longer than its controller says is packed as it is
  (`encode.rs:92`, said at `encode.rs:83`).
- A binary field keeps the low bytes of a number of any size
  (`encode.rs:393`), although `README.md:537` promises an error.
- An inserted `0` of a picture is read back as a digit; `Held` leaves such
  pictures out. A NULL date is written blank and is an error to read. A date or
  a list given to a text field is written blank.
- Rescaling and the conversion to halves cut where they do not fit, though
  `encode.rs` speaks of rounding for the latter; subnormal halves become zero
  and not-a-number infinity.
- Under EBCDIC a boolean byte and the bytes of packed, binary and float fields
  are left as they are.
- A record of the default variant loses the discriminator it had.
- `describe_*` lists a precision above 38 as 38, where reading is an error.
- COPY FROM makes NULL of a value that the table's type does not have, and
  notices a type that cannot be cast to only if there are rows.
- A plain file that begins with the magic bytes of gzip is an error unless
  `compression => 'none'` is given.
- A wildcard in an HTTP URL stands for itself; one in a local path is a
  pattern, even where a file has that very name, and a pattern without a match
  is an empty table.
- A negative `record_length` becomes a huge one, which the framer refuses.

## 7. Not modelled

- **Accumulators of 128 bits** of packed and zoned numbers, and the step from
  text to a number of 128 bits when a value is given as text. Numbers in the
  instances are those TLC has; so are doubles, of which those that a single
  holds, and a number that none holds goes to the nearest one.
- **Other parts of chrono's formats** than the date and the time of day.
- **Splitting of texts** (templates, JSON, copybook statements): layout of
  text. The models start from tokens, objects and statements.
- **Compression libraries**: a compressed file has its plain bytes beside it.
- **Arrow's integer widths and text encodings** when values are read in
  (`value_in.rs`): one type of integer, one of text.
- **Registration and metadata** (`lib.rs`, `meta.rs`, `main.rs`): names and
  descriptions of functions, without behaviour.
- **WebAssembly glue** (`wasm/`, the `fixedformat-wasm` crate): bindings to the
  host's HTTP client and random numbers, the mount of the browser's file system,
  self-tests and benchmarks. The worker's own code, modelled here, runs above it.

## 8. Plan

Done, in this order: scan, range reader, framers, writers, codec with record
types, copybook, templates and JSON, conversions, Arrow and introspection,
options, locations and COPY FROM.

To extend the model:

1. One composition of `RangeReader` and `RecordStream`: a replaced object under
   a framer, for what `EndsWithAVersion` means to records.
2. Copybooks as parts of multi-record specifications; layouts from `Copybook`
   fed to `Codec`.
3. Instances with numbers at the limits of 64 and 128 bits.

To prove more: the type invariant and the phases of `CopyFrom`, with the steps
cut away from the values they carry, so that no recursive operator is reached.
