# A TLA+ model of c0-go

`c0-go` reads and writes C0DATA, a data format whose structure is carried by
the sixteen assigned control bytes: files (FS), groups (GS), records (RS),
units (US), keyed units and header rows (SOH), text (STX ... ETX), nested
levels (DLE ... CAN), references (ENQ), comments (BEL), documents (SYN, EOT),
a raw tail (EM), commits of an append-only log (ETB).  The package is a
library of pure functions over byte slices, with one part that changes the
world: `FileLog`, a log file that survives crashes.

What is hard about it is not concurrency inside the package (there is none,
no goroutine and no lock) but

- that the same bytes are read by seven separate scanners (validator, body
  index, record accessors, stream scan, backward scan, tokenizer, formatter),
  each a hand-written descent of its own, that have to agree;
- that a pretty form for people has to go back to the same bytes, also after
  its columns were aligned line by line;
- that the builder keeps counters which decide where separators go, across
  nested levels;
- that a log can end anywhere: a write is cut short, a call fails, a process
  or the machine dies, and the next process repairs what it finds.

The modules below model these parts, byte for byte where the bytes are the
question, and TLC and TLAPS check them.

## Inventory

| Part | Source | State it keeps | Operations |
|---|---|---|---|
| Codes, scanning, values | `c0.go` | none | `scanLayout` ... `scanKeyedUnitEnd`, `Trim`, `DecodeValue`, `DecodeText`, `IsPlain`, `AppendValue` |
| Stream reader | `stream.go` 11-256 | blocks, damaged blocks, end of the committed region, torn flag | `NewStreamReader` (`scan`, `commit`, `payloadEnd`, `tornTail`), `Document`, `LastCommitEnd` |
| Repair, FileLog | `stream.go` 258-276, 319-381 | an open file, the sync flag | `RepairStream`, `OpenLog`, `Batch`, `Close` (`Start`, `Record`, `Header`, `Group` are `Batch` of a fixed function) |
| StreamWriter | `stream.go` 278-317 | a writer | the same over an `io.Writer` |
| Validator | `validator.go` | diff flag, canonical verdict, warnings | `Run` and its rules, `Validate`, `IsCanonical` |
| Body index | `body.go` | files, groups, header rows, records | `ParseBody`, `index`, accessors, `ParseReference` |
| Documents | `document.go` | heading, body, offsets, tail | `ParseDocument`, `ParseContainer`, heading accessors, `Blob`, `BlobBytes` |
| Builder | `builder.go` | bytes, first error, open record, unit count, a stack of both | one primitive per code, composed methods |
| Tokenizer | `tokenizer.go` | position, where the tail starts | `Next`, `Tokenize` |
| Pretty printer | `pretty.go` | while it runs: position, text, depth of levels and groups, a stack of the latter | `FormatWith`, `Parse`, `Align` |

How they interact: the scanners of `c0.go` panic on malformed bytes and what
parses, decodes, tokenizes or formats turns the panic into an error; the
accessors of a record (`Value`, `Values`, `Get`) rely on there being none.  `ParseBody`, `ParseDocument` and
`ParseContainer` validate first and then index with the same scanners, so
their errors should be the validator's.  `StreamReader.Document` cuts the
commit markers out and calls `ParseDocument`.  `FileLog.Batch` calls a
`Builder`, appends ETB and writes; `OpenLog` calls `RepairStream`, which is a
`StreamReader` and a truncation; a `StreamWriter` writes the same batches and
repairs nothing.  `FormatWith` reads bytes with the scanners of `c0.go`, on its
own descent and without validating; `Align` reads nothing but the lines of its
text.

What makes each part correct: the scanners find the ends of constructs and
values decode to what was encoded; the stream reader misses no commit and
calls exactly the cut blocks damaged; the log keeps what it acknowledged;
the validator accepts only what the readers can read, and returns; the index
leaves nothing out; a builder's output is canonical, reads back as what was
meant, and lookups find what was meant; tokens tile the buffer; `Parse` undoes
`Format` and `Align`.

## Modules

A position is Go's, from 0; `At(buf, p)` is `buf[p]`, `Slice(buf, i, j)` is
`buf[i:j]`.  A panic is the position `Malformed`, or the empty set where the
operator returns the set of its results.  Loops that run to the end of a run
are stated by where they stop; loops that depend on the way are recursive
functions.

| Module | Models | Correspondence |
|---|---|---|
| `C0Codes` | codes, `scanLayout`, `scanPlain`, `scanText`, a note | one operator per scanner |
| `C0Scan` | the other scanners and values | `scanUnit`, `scanRecordEnd`, `scanKeyedUnitEnd`, `scanComment` call each other: one function `Ends`, a case each |
| `StreamScan` | the stream scan, `tornTail`, `LastCommitEnd`, `RepairStream` | the locals of `scan` are a record, one byte one step (`TextStep`, `OutsideStep`) |
| `StreamReader` | the scan as a state machine | `ReadInText`, `ReadOutside`, `Finish` are the two halves of the loop and its end |
| `FileLog` | `OpenLogSync`, `NewStreamWriter`, `Start` ... `Batch`, `Close` over a file | an action per system call, per return, and per thing that can fail between |
| `AtomicLog` | what a log promises, abstractly | `FileLog` implements it, with the data of undamaged blocks as entries |
| `Validator` | `validator.go` | the parser's state is a record that rules take forward; `v.diff` is part of it |
| `BodyIndex` | `body.go` | the index as values instead of slices; `Fields` is `eachUnit`, `Pairs` is `eachKeyed` |
| `Document` | `parseHeading`, `findBodyEnd`, `newDocument` | one operator each |
| `Container` | `ParseContainer` | `Check`, then one action per turn of the loop and per way out |
| `Accessors` | lookups of `body.go` and `document.go`, `BlobBytes` | one operator per method; ints have the width of `MaxInt` |
| `Builder` | `builder.go` | one operator per method, on a record with the fields of the struct |
| `Outline` | what a caller of the builder means | files of groups of records of units, with what each method adds to them |
| `Readings` | what a reader gets | an outline of the index through the accessors; `Written` is its one spelling |
| `RoundTrip` | a caller of the builder | an action per method; `meant` is the outline it means, `past` the documents before, `DoRead` is `ParseContainer` |
| `Tokenizer` | `tokenizer.go` | an action per way `Next` answers |
| `PrettyForm` | `Parse`, `Align` | text is a sequence of runes; `Parse` is a step per rune, `Align` a function of lines |
| `Formatter` | `FormatWith` | an action per case of the loop's switch, on the fields of the struct; the functions it calls return a piece of text and where reading goes on |
| `MC...` | instances for TLC | constants, and properties that compare parts |
| `C0ScanProofs` | lemmas on the scanners, on sequences and on recursion | see Proofs |
| `StreamScanProofs`, `StreamReaderProofs` | theorems on the stream scan and the repair | see Proofs |
| `FileLogProofs` | theorems on the log and its contract | see Proofs |
| `RoundTripProofs` | theorems on the builder | see Proofs |
| `TokenizerProofs`, `ContainerProofs`, `FormatterProofs` | theorems on these loops | see Proofs |

Operators named for a slip (`CommitBlock_KeepDepth`, `Return_BeforeSync`)
stand before the definition they could be mistaken for.  Nothing uses them;
exchanged for it they break the property that is there to notice, which shows
that the property looks at the code.

`FileLog` takes a file for its bytes.  `file` is what a read returns, `disk`
what is durable, and a machine crash leaves the durable bytes or the file up
to any point behind what they share: appended bytes reach the disk in order,
as a journalling file system writes them.  `entries` and `stable` repeat what
a reader of `file` and of `disk` gets, so that they are computed once per
write.  A process that
dies gives its handle up.  A file that does not exist is the empty file: for
it neither `RepairStream` nor its absence does anything.  A `StreamWriter` over
the file is opened behind a commit only, which its documentation leaves to the
caller ("for files, prefer OpenLog").

A word the code compares with (`shape`, `diff`, `blob`, the columns of a blob
table) is one letter in the models, as no property looks into it.  The
`TypeOK` of `Container`, `RoundTrip`, `Tokenizer` and `Formatter` is listed in
no run; `RoundTrip`'s and `Tokenizer`'s are proved, and what the proofs about
`Container` and `Formatter` need of theirs is in the inductive invariants.

## Runs

Every state machine stops when its input is read or its bound is reached, so
deadlock is not checked, but for the tokenizer, whose end can be asked again,
and the formatter: there a deadlock would be a code no case of the switch is
for, and `Returned` stands for its end.

| Run | Instance | Shows |
|---|---|---|
| `StreamReader` | every log of at most 5 of eleven bytes: STX ETX DLE CAN ETB SYN BEL EOT EM, space, letter | types, `BlocksInOrder`, `NoCommitMissed`, `DamagedIffOpen` (against a declarative reading of a block), `PrefixStable`, `RepairKeepsCommits`, `AppendAfterRepair`, `ScanReturns` |
| `FileLog` | one process, handles with and without sync, StreamWriters, batches as the writers' methods build them (start, group, escaped text, note and level, nothing), 3 calls, 1 crash, any number of failing calls and reopenings | `FileLog` implements `AtomicLog`; `AckedKept`, `BackwardScanAgrees`, `BatchReturns` |
| `Container` | every buffer of at most 5 pieces of one vocabulary: framing; bodies; text and levels; commits, layout and references; diffs; layout and notes | `DocumentsTile`, `DocumentsCompose`, `NothingDropped`, `RecordsReadable`, `FailsOnlyOnComment`, `AcceptedIsUndamaged`, `CommitsAreTransparent`, `CanonicalIsOneSpelling`, `LoopAdvances` |
| `RoundTrip` | at most 3 calls beside the first SYN and closing CANs, in three vocabularies: an empty value and one full of codes; an empty name; blob tables of two rows or with turned columns, over tails of none and two bytes, in ints of 4 bits | `OutputIsWellFormed`, `OutputIsCanonical`, `ReadsBack`, `LookupsAgree`, `BlobsReadBack`, `CountersAgree` |
| `Tokenizer` | at most 4 of eleven bytes and the beginning of a comment in a heading | `TokensTile`, `RunsAreWhole`, `AcceptedHasTokens`, `AnswerIsFinal`, `TokenizeReturns` |
| `Formatter` | every buffer of at most 4 pieces of one vocabulary: rows of tables; levels in groups and files; texts of several lines and with escapes; two-byte runes, a glyph, lone bytes; documents; diffs; comments in a heading | `ParseUndoesFormat`, `AlignKeepsBytes`, `FailsOnlyOnGlyph`, `NestingIsKept`, `ColumnsLineUp`, `AlignSettles`, `TurnsAdvance` |

**Bounds.**  The scanners keep no more than a flag, a depth and two
positions; five bytes hold an opener, an escape, a closer, a commit and what
follows, in every order, which is as much as any of their conditions looks
at.  Letters other than those of the headings are all alike, so one stands for
all.  A vocabulary holds the codes that one group of rules looks at, so that
five pieces are enough to nest, close and go on.  Three batches give a stable
one, an acknowledged one that is not stable, and one torn between or behind
them; errors and reopenings are not bounded, so a log is repaired as often as
it tears.  Three calls of the builder open a level, write in it and write
behind it, or end one document, begin another and write in it.  An int of 4
bits is the smallest in which an offset and a length in range add up to none.
Pieces of the formatter are whole rows where a table is the question, so four
of them are two tables or one of rows with different columns.

**Fairness.**  The scan, and Tokenize's loop, are one thread's loops that
nothing suspends: weak fairness of their step.  In `FileLog` a system call
that began ends (Go's `Write` repeats short writes until all is written or a
call fails, fsync returns, an open returns), so these have weak fairness each;
nothing makes a process open a log or call `Batch`.  Their enabling conditions
are written out in `Fairness`, which is the same as `WF_vars` and much faster
to evaluate.  `Container` assumes
none: that its loop ends is `LoopAdvances`, a property of each step, because
the buffer is finite.  `Formatter` assumes none either: `TurnsAdvance` says
that each turn reads on, and the absence of deadlock that there always is one.

### What disagrees

Each of these runs ends in a counterexample to one sentence of the sources.

| Run | Sentence | What the code does |
|---|---|---|
| `StreamCutText` | stream.go:141 "the block is torn/damaged at the next commit" | a text cut by EOT, EM or SYN is in an undamaged block |
| `FileLogAfterError` | stream.go:365 "an atomic batch" | after a failed write the next batch commits the half one |
| `FileLogTwoOpeners` | stream.go:326 "truncating to the last commit ... each commit is fsync'd" | a second opener truncates batches acknowledged since it read |
| `ContainerHang` | validator.go:24 "reports the first structural error, or nil" | a bare BEL in a diff body: no return |
| `ContainerDeadRecord` | document.go:265 "reads every document in it" | dead record, then header row: accepted, not read |
| `ContainerLayoutNote` | body.go:423 "the plain value with its layout trimmed", c0.go:362 "Panics on malformed input" | layout other than spaces between a plain value and a note is accepted; `Value` panics on it |

The passing runs state around these what does hold.
`FailsOnlyOnComment` says that nothing but those two keeps an accepted
container from being indexed, `RecordsReadable` that nothing but the second, and
an empty reference, stops an accessor; `DamagedIffOpen` leaves cut blocks out; `FileLog` has one writer,
which gives up a handle whose call failed (`StopAfterError`).

Also met while modelling, and in no run.  Where a passing property has an
exception for one of them, it is named.

- stream.go:226 says that the raw region is not log data, but `scan` goes on
  behind EM, and an ETB byte there is a commit (`AppendAfterRepair` leaves the
  raw region out).
- `BlobBytes` adds offset and length as ints: two large ones wrap, the row
  passes for one in the tail and slicing panics, where document.go:306 says it
  reports false (`BlobsReadBack` leaves sums out that are no int).  It panics
  too where a cell of the table is a level or a reference.
- The validator takes a heading for a diff's by the raw value of `shape`: with
  a note behind it, or spelled as a text, the document is validated as data,
  and `Shape` says "diff".
- `Align` takes a line that a text goes on in, and that begins with a code,
  for an element's: the layout behind the code is lost from the text
  (`AlignKeepsBytes` leaves such texts out).  It also trims white space that is
  not layout, as U+00A0, from a value's ends.  Bytes that are no UTF-8 become
  U+FFFD in the pretty form (pretty.go:9 says inverses "on well-formed input").
- A group line in a level is indented like the record around the level.
- A level that has nothing but a header row is an empty list.
- A heading's diff flag is never taken back, so a data document behind a diff
  is validated as a diff (`DocumentsCompose` leaves diffs in front out).
- Blocks are joined without a separator: a committed GS without a name and
  the next block's GS are one group of depth 2, and a note behind a commit is
  one of the record before it once the markers are cut out
  (`CommitsAreTransparent` leaves both out).
- On an accepted log `LastCommitEnd` and the scan differ by layout around a
  payload (`BackwardScanAgrees` is about the logs the writers leave).
- `ParseBody` of a buffer with framing codes reads the part before the first.
- A reference with an empty text is accepted, and called canonical, but not
  read (`RecordsReadable` and `CanonicalIsOneSpelling` leave it out); `Ref("")`
  writes a bare ENQ without an error, where builder.go:172 says that segments
  are non-empty names; a note behind a plain reference becomes part of its
  name; a record whose first unit is a dead key is keyed and has one field.
- The comments of a heading are skipped (validator.go:119): a code without a
  meaning, or an ETX, in a level behind one is accepted.  The tokenizer answers
  with an error there and the formatter fails (`AcceptedHasTokens` and
  `FailsOnlyOnGlyph` leave the place out).
- In spaced mode `Align` writes a space behind the mark of a keyed record, and
  then no longer takes it for keyed: aligning again can change it
  (`AlignSettles` leaves keyed records out in that mode).
- Composed methods in an order the grammar has no place for (`Key` behind
  `Ref`, a commit in a level) write ill-formed output without an error, where
  builder.go:21 says they cannot.  `RoundTrip`'s caller writes what the grammar
  has a place for (the rules are in its header).
- Two groups with empty names written one behind the other are one group line
  of depth 2, so `RoundTrip` names its groups; `StreamReader.Records` has the
  records of the first document only; the header row of a dead group replaces
  the header of the group before it; layout at the end of a reference or a key
  does not cost the canonical verdict, where validator.go:28 says "no layout"
  (`CanonicalIsOneSpelling` leaves layout before a code out).

## Proofs

Checked by TLAPS, for every value of the constants: any alphabet or vocabulary
of bytes, any length, any number of calls.  Where a theorem assumes more than
the constants' `ASSUME`s, it is said here.

**Recursive functions.**  A scanner whose end depends on the way is a recursive
function, which TLA+ defines as the choice of a function that solves an
equation.  `Fixpoint` (`C0ScanProofs`) shows that there is a solution: where
the body looks at the function only at arguments of smaller measure, and the
measure is bounded, the body applied often enough is a fixpoint.  (`Solution`
has its hypotheses under one name.)  `MeasureInduct` then shows of every
argument what holds of it when it holds of those of smaller measure.  Both take
sets instead of operators, and rest on the well-foundedness of the library.
For each function there is a "turn" lemma, about one evaluation of the body,
and one that unfolds the function.  A function of two arguments is written
over pairs, and the first arm of a `CASE` that recurs is written first: tlapm
reads neither `f[a, b]` nor a recursion that is in middle arms only.

`C0ScanProofs` is the library: where `ScanLayout`, `ScanPlain`, `ScanText`,
`ScanNote`, `ScanLevel` and the ends of units, keyed units and records leave
off, and what they pass over; slices and flattened sequences.

**The stream reader** (`StreamReaderProofs`, over `StreamScanProofs`).

- `TypeCorrect`: the depth never falls below zero.
- `BlocksLieInOrder`: the slices `Block`, `Committed` and `Tail` take are in
  bounds, in order and disjoint.
- `UnescapedETBCommits`: every ETB behind an even run of DLEs is a commit.
- `CommitsStay`: every prefix of a log is scanned to the first blocks of the
  log, and the same of them are damaged.
- `DamageIsOpenEnd`: of the blocks that no framing code cuts exactly those are
  damaged that end inside a text or a level.
- `RepairLosesNothing`: a repair keeps the blocks, the damaged ones and the
  committed end, leaves no torn tail, and has nothing to do the second time.
- `AppendsReadBack`: a closed batch behind a repaired log is one more undamaged
  block.  Lemmas of their own: `BatchAppends` (of any closed batch behind any
  log whose scan is at rest), `ScanExtends`, `TornShifts` (whether a tail is
  torn is decided by the tail).

`BlocksInOrder` is not inductive by itself, for the next block's place depends
on where the payload ends: `PayloadEnd` is bounded by lemmas on the scanners.
`NoCommitMissed` needs more: inside text a DLE moves the scanner by two bytes,
so an ETB may be passed unseen.  The invariant `IInv` adds `InTextEven`: in a
text the scanner stands behind an even run of DLEs.  Then the byte that an
escape skips is behind an odd run, and no commit mark.  For `DamagedIffOpen`
the scanner's flag and depth are compared with the declarative reading of the
block (`EndsOpen`), at every byte the block could end at (`InBlock`,
`Follows`, `Judged`): the two agree until a framing code, behind which the
property says nothing.

**The log** (`FileLogProofs`).

- `Refines`: `FileLog` implements `AtomicLog`, initial state and every step.
- `AckedSafe`: a batch for which `Batch` returned nil stays in its place.
- `CrashSafe`: no step, a crash of the process or of the machine among them,
  changes a stable entry, and none takes back the acknowledgement of a synced
  batch.  These are `AtomicLog`'s promises, of the entries and acknowledgements
  that `FileLog` maps to (`Promise!StableStays`, `Promise!AckedForever`).
- `Atomic`: no reader gets part of a batch, or parts of two, as an entry.
- `ScansMeet`: `LastCommitEnd`, the backward scan, finds the committed end of
  the forward scan, on every log that the writers leave.
- `TypeCorrect`.

They assume `OneWriter`: there is one process, which gives up a handle whose
call failed.  Neither half can be spared: `FileLogTwoOpeners` is the
counterexample to the first and `FileLogAfterError` to the second.  They assume
of the batches (`BatchesAssumption`) what a builder's are: alone in a log each
is one undamaged block up to its last byte, begins with a code, and cut
anywhere is torn or nothing but notes.  The last leaves out a batch that begins
with an EM region, which cut short is not torn.  The first part, one undamaged
block to the last byte, is proved of what a builder writes (`BuiltCommits`,
below); the others are checked by TLC, for the batches of the run.

The argument: a log is `Good` if at each of its prefixes what is committed is
`Clean` (the scan is at rest, nothing damaged, at most notes behind the last
commit), its entries are whole batches, the rest is torn or clean, and
committed ends and entries only grow from prefix to prefix.  A good log
stays good when a clean one is extended byte by byte by a batch, when it is
repaired, and when it is cut anywhere, which is all that writes, failures and
crashes do.  `IInv` says that file and disk are good, that what is committed on
the disk is in the file, and of each handle what its next call relies on: that
it writes behind a clean log, that what is behind that log is what it wrote of
its batch.  TLC checked `IInv` on one process, two batches and one crash
(17410 states) before it was proved.  For `ScansMeet`, `Coded` is added: behind
a commit mark there is a code or the end, so that both scans stop there; on
a log without damage the commit marks are the ETBs that end blocks.
`AckedSafe` needs more than itself: what a crash leaves of the entries is
decided by `stable`, what it leaves of the acknowledgements by their places, so
that a synced acknowledgement lies among the stable entries is part of the
invariant.

**The builder** (`RoundTripProofs`).

- `CountersRight`: the stack is as deep as levels are open in the bytes that
  were written, and the innermost counters say of the record being written
  whether it is open and how many units it has.  So no method writes a US too
  many or too few, behind a level that had records of its own as elsewhere.
- `BuiltCommits`: what was written outside of levels, followed by an ETB, is
  one more undamaged block that ends there.
- `TypeCorrect`.

They hold for values of any bytes, names that `IsName` takes, any tables and
tails (`VocabulariesAssumption`), and any number of calls.

The argument has two halves.  Of the bytes: `Reaches` says where a stream scan
of some bytes stands, whatever follows them, `AtRest` that it stands outside of
text at a depth.  Each method of `Builder` appends pieces that take a scan from
rest to rest (`Stands`, and `Waits` for a method that may have failed), also
where the value is full of codes, because an escaped text is passed whole.  Of
the outline: `Fits` says of a body that it is made of the words at hand,
`Meaning` how many units the record being written has in it; each operator of
`Outline` is shown to keep the one and to change the other as its method changes
the counters.  Headers, rows and lists are folds, so that what holds of one
step is carried over a sequence once, by a lemma about `FoldLeft`.
`CountersAgree` speaks of the innermost counters only and is not inductive:
`CAN` puts those around the level back.  The invariant `Inv` has for every
level of the stack that its counters are those of the outline that waits there
(`CountsMeant`, `LevelMeant`).  TLC checked `Inv` on the `RoundTrip` run's
states before it was proved.

**The tokenizer** (`TokenizerProofs`): `TypeCorrect`; `NoByteLost`, the tokens
tile what was read; `RunsAreMaximal`; `FinalAnswer`, an end or an error is the
answer from then on.  The invariant is their conjunction with the reason of
the last answer (`AnswerHasReason`): after an error what stands at the
position still is one, and after an end scanning is complete.  Without it the
next answer could be another.

**The container** (`ContainerProofs`): `TilesAlways`, the documents lie in a
row, with layout between them, and with tail and layout are all of the
buffer; `EveryTurnAdvances`, each turn of the loop leaves less to read.  Both
hold of every buffer and take nothing from the validator that `ParseContainer`
runs first.  They rest on where a heading, a body and a document end (`EndsStop`,
`ScanLevelStops`): never before they began, always inside the buffer, a document
behind its SYN.  The invariant has the reading position behind the last document
and its layout, and the end at the end of the buffer or at an EM.

**The formatter** (`FormatterProofs`): `LoopReturns`, each turn of
`FormatWith`'s loop reads on, panics or is the last; `IndentsRight`, the depth,
the depth of groups and the stack are those of the levels and groups open where
it reads.  Both are about every buffer, well-formed or not.  `NestingIsKept`
compares the loop's fields with a function of its own over the buffer
(`Nesting`) that knows texts, levels and the codes of groups, files and
documents only.  It is not inductive:
that function reads up to a position, and a turn moves the position by
a whole heading or record.  So the invariant says what the part read does to
the levels wherever the reading ends behind it (`Passes`), which composes, and
each function of a turn (`PlainPiece`, `TextPiece`, `InlineLevel`, `Heading`,
`Units`, `Element`) is shown to leave the levels it passes as they were, but for
the one it opens (`PiecesFrom`).  A level inside a heading is skipped as a whole:
`LevelInside` shows that `ScanLevel` stops behind the CAN that closes it, so
that whatever groups it held are gone.

**Only model-checked:**

- Liveness (`ScanReturns`, `BatchReturns`, `TokenizeReturns`), which needs
  ENABLED.  Of the loops of container and formatter the step property is proved,
  of which their end is a consequence.
- `AcceptedHasTokens`; the properties of `Container` that compare it with the
  validator, the index or another document (`NothingDropped`,
  `DocumentsCompose`, `RecordsReadable`, `FailsOnlyOnComment`,
  `AcceptedIsUndamaged`, `CommitsAreTransparent`, `CanonicalIsOneSpelling`);
  of `Formatter` those of `Parse` and `Align` (`ParseUndoesFormat`,
  `AlignKeepsBytes`, `FailsOnlyOnGlyph`, `ColumnsLineUp`, `AlignSettles`).
  Most need an induction over two descents at once, of which the validator's
  is a dozen rules that call each other; `Parse` and `Align` would need one over
  lines and columns besides.  Beyond the bounds of the runs these were tried on
  random accepted buffers of up to 13 pieces of all vocabularies together, which
  is how most of the exceptions they state were found.
- Of `RoundTrip`: `OutputIsWellFormed`, `OutputIsCanonical`, `ReadsBack`,
  `LookupsAgree` and `BlobsReadBack`, which compare what was written with what
  the validator's and the index's descents make of it.
- Two writers, and callers that go on after an error: what is lost then is in
  the runs that end in a counterexample.

## Not modelled

- `Heading.Version` and `Warnings`: nothing else reads them.
- A `StreamWriter` over a writer that is no file: what is in it cannot be read
  again.
- `ReadStream`, `Raw` and the methods that return a field.
- UTF-8 of three and four bytes, but for the Control Pictures.
- Messages, the kind of an error and its offset; an optional argument of the
  builder given twice, which panics by contract.
- What a scan should make of a raw region.

## Plan

1. Done: codes, scanners, stream reader, log and its contract; validator,
   index, documents, containers; builder and round trip; tokenizer; first
   theorems.
2. Done: the pretty printer; the blob table with ints of fixed width; lookups
   against the outline that was meant; canonical spelling; `StreamWriter`,
   batches from the builder, several documents and diffs in one builder.
3. Done: the stream reader's and the log's invariants, with one writer the
   refinement of the abstract log, the loops of tokenizer, container and
   formatter, each for every buffer; the builder's counters, and that what it
   writes can be committed whole.
4. Left to prove: `AcceptedHasTokens` and `AcceptedIsUndamaged`, by a relation
   between the positions the validator's rules take and the steps of tokenizer
   and scan; `ParseUndoesFormat`, by what `Parse` makes of each piece of the
   formatter; `ColumnsLineUp` for a block of rows.  What says of the validator
   and the index that they read the same thing stays with TLC.
