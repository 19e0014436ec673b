# A TLA+ model of pg_filedump

pg_filedump reads the data files of a stopped PostgreSQL server and prints what
is in them: heap and index blocks, control file, relation maps, and, with the
`-F` and `-V` commands of this repository, free space maps and visibility maps.
It can decode tuples into COPY lines (`-D`) and follow TOAST pointers into
other files (`-t`). It is one sequential process that only reads its inputs, so
nothing here is about threads or crashes. What is hard about it is of three
other kinds:

* **re-entrance**: decoding one column of one tuple may dump a whole other file
  through the same functions and the same global variables;
* **reading what nobody vouches for**: files are cut short, have holes, bad
  pages, chunks in any order or missing; loops must end, and what is reported
  must be what the file holds;
* **arithmetic over layouts**: page numbering of a tree stored in a file, bits
  across bytes and pages, run-length compression, totals computed over runs.

## 1. The system

| component | source | state | operations | interacts with |
|---|---|---|---|---|
| command line and dispatch | `pg_filedump.c` `main`, `ConsumeOptions`, `GetOptionValue`; `fsm_main`, `vm_main` and the flag parsers of `pg_fsm.c` and `pg_vm.c` | option globals, `exitCode` | parse flags, choose a mode, exit | calls everything below |
| block loop | `pg_filedump.c` `DumpFileContents`, `FormatBlock`, `FormatItemBlock` | file position, `currentBlock`, globals `bytesToFormat`, `specialType`, `exitCode` | read a block, check its header, walk its items | calls tuple decoding; called again, nested, by TOAST restore |
| item, special section and control file printing | `pg_filedump.c` `GetSpecialSectionType`, `FormatHeader`, `FormatItem`, `FormatSpecial`, `FormatBinary`, `FormatControl` | `specialType`, the page | tell the type of a page, print its parts, note errors | called by the block loop |
| GIN pages | `pg_filedump.c` `FormatGinBlock`, `decode_varbyte`, `ginPostingListDecodeAllSegmentsItems`, `ginReadTupleItems` | position in the segments, last item | list entries and posting lists | called by the block loop |
| tuple decoding | `decode.c` `FormatDecode`, `extract_data` | offset in the tuple, COPY line | one callback for each column | calls scalar decoders, COPY line, TOAST restore |
| scalar decoders | `decode.c` `decode_*`, `CopyAppendNumeric` | none | bytes to text | append to the COPY line |
| COPY line | `decode.c` `CopyAppend`, `CopyAppendEncode`, `CopyClear`, `CopyFlush` | `copyString` | clear, append, flush | kept in a string buffer |
| string buffer | `stringinfo.c` | `len`, `maxlen` | reset, append, enlarge | `malloc`, `realloc` |
| TOAST restore | `decode.c` `ReadStringFromToast`, `ToastChunkDecode` | `want_chunk_id`, `toastDataRead`, `loops` | scan the TOAST relation until all chunks are there | calls the block loop over another file |
| free space map dump | `pg_fsm.c` `do_fsm_dump` | loaded pages, children index, `DumpStats` | load, index, recurse, look up | run-length loop |
| free space map diff | `pg_fsm.c` `do_fsm_diff` | two sets of pages, `DiffStats`, `LeafDeltaVec` | load both, recurse, compare | run-length loop |
| visibility map | `pg_vm.c` `do_vm_dump`, `do_vm_diff` | loaded pages, runs | load, compress, list, total, look up | run-length loop |
| relation map | `pg_filedump.c` `PrintRelMappings` | `exitCode` | print | |

What makes each correct:

* *command line*: exactly the lines the usage text allows are accepted, what
  was accepted is carried out, what was refused is reported;
* *block loop*: the blocks of the range come once each, in order, under their
  own numbers; an error that is found reaches the exit code;
* *page printing*: a page is taken for what it is, a sound page raises no error,
  a damaged one does, and no byte is shown that was not read;
* *GIN pages*: entries and posting lists are listed as they were written;
* *tuple decoding*: every tuple gives one line that COPY reads back as its
  columns, or one error, whatever happened to the tuples before it, and nothing
  a nested dump does shows in the outer one;
* *scalar decoders*: dates, times and numbers are the ones stored;
* *TOAST restore*: chunks are put together in order whatever order they have on
  disk, a value that is there is found, the search ends when it is not;
* *string buffer*: room for the terminating zero, no overflow, an end;
* *maps*: each page and each slot is visited once; listings, look-ups, filters,
  summaries and differences are about the same file and agree with it.

`PROJECT.json` lists the hazards behind these, each at its line.

## 2. Modules

| module | models | built on |
|---|---|---|
| `Options` | the option loop of `ConsumeOptions`, one step an argument or a letter | |
| `CommandLine` | `main`: map tools or dump, the flag parsers of the map tools, the choice of a job | `Options` |
| `ToastRead` | the restart loop of `ReadStringFromToast`, the block loop and the item loop nested in it, `ToastChunkDecode` | |
| `ToastValue` | what restoring a value promises (abstract) | implemented by `ToastRead` |
| `FileDump` | one run over a heap file or relation map: block loop, item loop, tuple decoding, with `ToastRead` nested | extends `ToastRead`, over shared globals |
| `PageDump` | one page of any access method, from its header to its special section; control files | `GinBlock` |
| `GinBlock` | a GIN page, entry by entry, and compressed posting lists | |
| `TupleDecode` | a tuple's bytes and a list of types, one column a step | `CopyLine`, `Scalars` |
| `Scalars` | what the decoders make of dates, times, timestamps and numerics | |
| `CopyLine` | the encoding of a COPY line and how COPY reads it | |
| `StringInfo` | the growing buffer | |
| `FsmTree` | page numbering of a free space map | |
| `RunLength` | the run-length loop of both map tools | |
| `FsmFile` | loading, children index and slot totals of a free space map | `FsmTree`, `RunLength` |
| `FsmDump`, `FsmDiff` | the two commands of `pg_fsm.c` | `FsmFile` |
| `VmMap` | the two commands of `pg_vm.c` | `RunLength` |
| `FileDumpProofs` | proofs about `ToastRead`, on its own and nested in `FileDump`, and about `FileDump` | `FileDump`, `TLAPS` |
| `PageDumpProofs` | proofs about `PageDump` and `GinBlock` | `PageDump`, `DataFacts` |
| `FsmFileProofs` | proofs about `FsmTree` and `FsmFile`: numbering, order, slots | `FsmFile`, `DataFacts` |
| `FsmDumpProofs`, `FsmDiffProofs` | proofs about the two commands | the command's module, `FsmFileProofs` |
| `CommandProofs` | proofs about `CommandLine` with `Options`, and about `VmMap`, one of the tools behind it | these, `DataFacts` |
| `CopyProofs` | proofs about `TupleDecode`, `CopyLine` and `StringInfo` | these, `DataFacts` |
| `DataFacts` | lemmas about data: division, induction over numbers and finite sets, sums, run-length covers, sequences | `RunLength`, `TLAPS` |
| `MC*` | small instances of these for TLC | |

### How state and actions correspond to the code

**`Options`, `CommandLine`.** An argument is a group of switches, a long flag,
a number, a range, or a word (the characters of a file name, or the names of a
list of types). `x` and `y` are the loop counters of `ConsumeOptions`: the
argument and the letter of a group. `rc` is its return code and is overwritten
as in the code, `optionBits` the bits of the four option words, `given` the values
that came with them. `RunModule` is `main`'s search for `-F` and `-V`; behind it
one action is one argument of `parse_fsm_flags` or `parse_vm_flags`. `pos` is
their array of what is no flag, with room for `PosMax` of them (8 in the code);
nothing counts the places, so `PastPositions`, the write behind the last one,
ends the run with the job `undefined`.

**`ToastRead`.** `pc` says which loop is at work: `while` is the head of the
restart loop, `fread` the head of the block loop, `items` the item loop,
`scanned` the return of `DumpFileContents`. `want`, `toastRead` and `loops` are
the C variables; `value` is what has been copied to `toast_data`, by chunk
number, in the order of the copies. A block is what the loops can tell of it:
bytes read, header usable or not, kind of special section, line pointers. A
line pointer is where it ends, whether it is used, has a deleter, and what
`ToastChunkDecode` gets out of the tuple, damaged forms included (the
module's header lists them: the tuple may end within or behind either of the
columns that name the chunk, which leaves its number 0, the one stored, or one
of a tuple read before). `DecodeItem` is one call of `ToastChunkDecode`
with what follows it up to the `break`. A varlena that cannot be copied leaves
`processed_size` at the four bytes of the column before; `Counted` keeps that
(form `stub`).

**`FileDump`.** `main` is where the outer dump is. `CallToast` suspends the
decoding of a column and lets `ToastRead`'s `Step` run to its end on the
variables `rel`, `pc`, ... of the nested call, and on `bytesToFormat`,
`specialType` and `exitCode`, which both levels share, as the C globals do.
`ToastReturns` resumes with the value restored, or gives the tuple up: when the
value is not there, or when its bytes are none of the column's type (`stored`
is then `odd`; a damaged numeric). A tuple is the list of what its column decoders will
find. `pos` is the file position in blocks; `Start` computes it modulo
`WrapBlocks`, which stands for 2^32 / block size. `rows`, `dumped`, `beyond`
and `noted` record what was put out and do not influence a step.

**`PageDump`, `GinBlock`.** A page is the numbers of its header, the first word
and the last two bytes of its special section, its flags, and its line pointers
with what lies behind each. `pc` is the part being printed; one action is one
call (`FormatHeader`, `FormatSpecial`) or one turn of a loop (a line pointer, a
segment, a posting, an item). A block is given with as many line pointers as
its header tells of, if those were read. `errors` collects the messages that set
`exitCode`, `shown` the byte ranges that `FormatBinary` prints, `formatted` the
items and what they were formatted as, `listed` the items of a GIN page.
`page.gin.lists` and the `items` of an index tuple are what the server wrote the
segments from; only properties read them. The continuation bit of a varbyte's
byte (`Continues`), the numbers of offsets (`Offsets`) and of blocks (`Blocks`)
are constants with the relation the code relies on: seven bytes hold an item.

**`TupleDecode`, `Scalars`, `CopyLine`.** A tuple is its bytes; `columns` says
what it was laid out from and is read by properties only. One action is one
column: alignment by `Padding`, the form of a varlena by its first byte, the
length checks in the code's order. Reading behind the tuple is an outcome of its
own (`outside`), so that a property can exclude it. What pglz and lz4 make of a
payload is a constant, `Decompress`. A printed date or number is
a record of its fields, a text a sequence of characters.

**`FsmTree`, `FsmFile`, `FsmDump`, `FsmDiff`.** A page is its kind (zero, short
read, wrong page size, bad header, fine), its header as two values (structural
fields with `fp_next_slot`; LSN with checksum) and its two node arrays.
The recursion of `dump_node` and `diff_node` is the stack of pages still to be
visited; one action is one call. `listing` is the list of heap page ranges
printed, `stats` the struct of totals, `deltas` the `LeafDeltaVec`.

**`VmMap`.** A page is its kind and the statuses of the heap pages it covers;
`Bitmap` packs them into bytes as PostgreSQL does and `BitsAt` gets them out as
the code does. One action is one turn of the loop of `compute_compressed` or
`compute_diff_compressed`, which differ in the value compared: a status, or a
pair. Building `DumpSummary` and printing are one action each.

**`StringInfo`.** One action is one turn of the doubling loop.

Operators named `X_Something` next to an operator `X` are deliberate errors:
each is what `X` would be with a plausible mistake, and shows that a property
tells it from the code (`mutants` in `PROJECT.json`).

## 3. What TLC checks

| run | question | states | bounds and why they suffice |
|---|---|---|---|
| `ToastAny.cfg` | is a value put together in order, however its chunks lie, and does reading end? | 64 000 | three chunks, the last one short, over two blocks of up to three and two items: reversed order needs all three scans, and a chunk doubled within and across blocks occurs; old, foreign, unused, oversized and damaged tuples (each damaged form, with and without a sound copy of the chunk), cut and bad headers, a partial block, an empty and a missing file |
| `ToastRefines.cfg` | does that implement `ToastValue`? | 31 000 | the relations without damaged chunks |
| `StringInfo.cfg` | does the buffer grow within its limits? | 4 000 | start 3, limit 37, which no doubling of 3 hits, `IntMax` as small as the source's assumption allows; every request from -1 to beyond the limit at every length |
| `CommandLine.cfg` | are the right lines accepted, carried out and reported? | 440 000 | every two groups of one or two letters and a file; every three arguments of those that take or are values, with a file, a missing file or a switch behind; file names with and without a segment number; every three arguments of a map tool, and up to ten of which seven to ten take a place in `pos`, which has 8 as in the code. An empty argument is among them all. `IntMax` is 7 and the header has room for five letters, so that numbers wrap and the header is filled |
| `TupleDecode.cfg` | is the line COPY reads the tuple that was stored? | 43 000 | up to three columns of every width, alignment and varlena form; tuples cut at every byte, types that are not those of the columns, too few, too many and `~`; all texts of up to two special characters; days around every kind of century, 4713 BC and 5874, all of the year 2000; times before and behind 2000; numerics around powers of 10 000. `Decompress` gives a payload twice. A second has two microseconds, because TLC's integers have 32 bits |
| `PageDump.cfg` | is a page taken for what it is, and its damage seen? | 197 000 | all arrangements of up to three line pointers on heap pages and two on index pages; meta, bitmap and deleted pages; every header field moved over its borders, blocks cut at 12 places; GIN pages of every kind with posting lists whose differences need one to seven bytes, in one or two segments. Groups of two bits, offsets of three and blocks of ten reach the seventh byte with numbers TLC can hold |
| `FsmDump.cfg` | do walk, totals, listing and look-up agree with the file? | 80 000 | two slots a page, so seven pages are the root and two whole groups, and the eighth starts a third; all files of up to four pages over a good, full, bad and zero page, and longer ones with special pages at group borders; filters, `--range`, `--extra`, look-ups of ten heap pages |
| `FsmDiff.cfg` | does the diff name and count what differs? | 97 000 | all pairs of files of up to two pages over six contents; pairs of four and seven pages that differ within, at the border of, or beyond a group |
| `VmMap.cfg` | are listing, totals and look-up those of the file? | 112 000 | four heap pages a map page, up to three map pages; bits that differ within a byte, a zero page, neighbouring bad pages; ranges that cross borders, go beyond the file, or are empty |
| `FileDump.cfg` | does a dump with nested dumps give the blocks and lines asked for? | 59 000 | up to three blocks, two tuples a block, two columns, relations in order, backward, lacking a chunk, cut short, damaged or missing; values compressed, or not of their column's type |

The properties of each run are named in `PROJECT.json`; their comments say what
they mean. A module's `TypeOK` is the first conjunct of one of them
(`AcceptsExactly`, `StaysInside`, `InsideRead`, `WalkIsFileOrder`,
`NamesEveryDifference`, `SummaryMatchesFile`, `RowsMatchFile`, `IInv`), so that
no check is spent on types alone.

These are the small scopes in which each loop takes no, one and several turns,
each border (page, group, byte, file) is crossed, and each error path is met
before, between and after what is fine. Deadlock is checked in all runs: a run
of the program that has ended stutters by an action of its own (`Ended`,
`Done`).

**Fairness.** The program is one sequential process that no one waits for: as
long as it has a next step it takes it. `WF_vars(Step)` says that and no more;
`Step` leaves out the stuttering of an ended run. The liveness properties are
that the program ends: the restart loop over any TOAST relation
(`ToastAny`), the whole dump with such reads inside (`FileDump`), the doubling
loop (`StringInfo`, where only an append that was started is fair: nobody has
to call it).

### Where the code does not do what it says

These runs are expected to end in a violation; each quotes a comment (see
`findings`).

| run | what TLC shows |
|---|---|
| `CopyTabs.cfg` | a tab is written `\r` and read back as a carriage return |
| `FileExit.cfg` | errors are reported and the exit code is 0: `main` overwrites it; with `-m` the exit code is inverted |

Other differences met while modelling. The modules do what the code does, and
the properties name the case as an exception where they meet it; none of these
has a run of its own.

Command line (`Options`, `CommandLine`):

* `fsm_main` and `vm_main` keep the arguments that are no flags in an array of
  eight and do not count them: a ninth is written behind it (`pg_fsm.c:1937`,
  `pg_vm.c:1031`). `FlagsObeyed` is about lines with up to eight;
* an empty argument passes for the number 0 (`pg_filedump.c:678`), so that
  `-R "" file` dumps block 0;
* `atoi` drops the high bits of a number; `-h` behind a mistake ends with exit
  code 0, and so does a line that lacks the value of `-S`;
* a flag of a map tool that wants a value swallows the next argument, whatever
  it is; a flag that lacks one is opened as a file.

TOAST and block loop (`ToastRead`, `FileDump`):

* giving up on a value takes two more scans than the message counts
  (`decode.c:1433`);
* `-v` says "Read TOAST chunk" of a second copy of a chunk that was passed over
  (`pg_filedump.c:1595`);
* behind a TOASTed column an item that fits may be refused, because a nested
  read that ran to the end of its file leaves `bytesToFormat` at 0
  (`pg_filedump.c:1553`); `BeyondIsTrue` excepts these items, and
  `RowsMatchFile` is stated for relations whose blocks can be read whole;
* the special section of a block that holds a TOASTed column is treated by the
  type of a block of the TOAST relation, because both levels share
  `specialType` (`pg_filedump.c:2197`);
* the offset of the start block is computed in 32 bits (`pg_filedump.c:2456`):
  with 8 kB blocks, `-R 524288` dumps block 0 and calls it 524288.

Pages (`PageDump`, `GinBlock`):

* a GIN page whose right neighbour is block 5911 is taken for a sequence, and an
  inner entry page that is being split for an unknown page;
* of a pending list page only as many entries are listed as `maxoff`, which
  counts heap rows;
* the data of hash meta and bitmap pages and of deleted B-tree pages is read as
  line pointers; dead tuples on an inner SP-GiST page are reported with `-i` as
  of a false size; a page of zeros, as the server adds them to a file, is
  reported as an error;
* of a block that was cut the special section is shown to the end of the block,
  beyond what was read;
* with 4-byte alignment a block that was cut, and whose special section has the
  size of a GIN page's, is not noticed to be cut: only a section of the least
  size is compared with the bytes read (`pg_filedump.c:783`). `DamageSeen`
  excepts it. The proof of `DamageSeen` for both alignments brought this to
  light; the run has 8-byte alignment, where the two sizes are the same.

Tuples (`TupleDecode`): a first column that is an empty text puts no column
break on the line; `~` prints the rest of a tuple as a NULL too few when the
first ignored column is NULL; lz4 data that comes out short costs its column but
not its line (`decode.c:1330`).

Maps (`FsmDump`, `FsmDiff`, `VmMap`):

* `report_changed_page` records the slots of root and internal pages as heap
  pages (`pg_fsm.c:1540`); `-i`, "dump only" (`pg_fsm.c:4`), changes the totals
  of a diff (`pg_fsm.c:1535`); a header that changed is counted only on a page
  whose nodes changed too (`pg_fsm.c:1531`);
* gains and losses are told apart by bytes, not by categories, and the bytes of
  the highest category are the size of the largest tuple: with blocks of 4096
  bytes or less category 255 is no more than 254, and a slot that rises from
  254 to 255 is counted as lost (`NodesCounted` has the condition, `BytesRise`);
* "error page(s)" of a visibility map counts runs, so two neighbouring bad map
  pages are one (`pg_vm.c:671`); `--extra` suppresses the summary that `-q` asks
  for (`pg_vm.c:699`).

## 4. What TLAPS proves

For every value of the constants, under the assumptions named in the modules,
which TLC evaluates in the runs:

| assumption | says | because |
|---|---|---|
| `SizeAssumption`, `RelationAssumption` (`ToastRead`) | sizes are positive; a relation is a list of blocks, and no relation is none | types |
| `OptionsAssumption`, `HeapsAssumption`, `WrapAssumption` (`FileDump`) | a range is as `ConsumeOptions` lets through; a file is a list of blocks whose tuples have at most `Columns` columns to decode, each of a known kind | `-R` is checked; `FormatDecode` stops behind the last callback |
| `AlignAssumption`, `PagesAssumption`, `GinAssumption` (`PageDump`) | `MAXALIGN` is 4 or 8; the numbers of a header are not negative, no more than a block is read, the line pointers are as many as the header says; what is on a GIN page are lists | `uint16` and `unsigned int` |
| `BitsAssumption` (`GinBlock`) | seven groups hold an item | 43 bits in groups of 7 |
| `TreeAssumption`, `SizeAssumption`, `NonLeafAssumption` (`FsmTree`, `FsmFile`) | a page has at least one slot | types |
| `FilesAssumption`, `PairsAssumption`, `OptionsAssumption` (`FsmDump`, `FsmDiff`) | files are lists of pages with a category a slot; ranges are sets of page numbers | `uint8` slots, the flag parser |
| `MapSizeAssumption`, `InputsAssumption`, `OptionsAssumption` (`VmMap`) | the same of visibility maps; ranges and heap pages asked for are not negative | the parser accepts negative ones: see section 5 |
| `UsecAssumption` (`Scalars`) | a second has at least one unit of time | `decode.c` has 1000000; the runs take 2, for TLC's integers |
| `NameAssumption`, `TuplesAssumption` (`TupleDecode`) | a name has a byte; a tuple is any bytes, with types from the table of callbacks, and what it may have been laid out from are columns a server stores: a value of its type's size, or one whose length fits the header of its form; a time of day is within a day, and no day is before the first Julian one, from which `j2date` counts | `-D` is checked against the table; `heap_fill_tuple` |
| `LimitsAssumption` (`Options`), `LinesAssumption` (`CommandLine`) | the largest `int` and the header's size are numbers; a command line is a list of arguments: a group of switches, a long flag, a number, a range or a word, of any length and in any order | every argument is one of these: what begins with `-` is a group or a long flag, so no number is negative |
| `PosAssumption` (`CommandLine`) | the places of `pos` are a number of arguments | an array's size; the runs have the code's 8 |
| `LimitAssumption` (`StringInfo`) | the allocation limit is at most half of `INT_MAX` | a comment of `stringinfo.c` |

Nothing else is assumed of the pages and files: they may be damaged in every way
the modules know.

### Data

The prover cannot apply an induction theorem to a predicate, but it can apply
one to a set: `NatInduct` and `SetInduction` of `DataFacts` say that a set which
has the base and is closed under the step has everything. The set of the
numbers, or finite sets, for which a claim holds is then a local definition of
the proof. What recursive functions and folds compute follows this way: sums
over sets (`SumFunctionOnSet`: added to element by element, split, bounded), the
number of elements, what run-length compression makes of an array
(`Cover(listing, f, S)`: the runs list the members of `S` once, in order, each
with its value under `f`), and lists joined piece by piece (`Joined` in
`PageDumpProofs`). The loops of the program are the steps of these inductions:
each invariant below says of a loop what it has computed so far.

### Detoasting (`FileDumpProofs`)

`RestoredInOrder` and `EveryScanAdvances` are not inductive. `IInv` adds to the
types

* `InBlock`: in the item loop, `bytesToFormat` is that of the current block;
* `StopReason`: a scan that is over stopped for its size or at end of file;
* `ResultInLoop`: an error result leaves the restart loop;
* `Advancing`: while the relation has every chunk, either this scan has already
  moved `want` past the number of scans completed, or the chunk of that number
  is not among the items the scan has passed;
* `TornIsLast`, the conjunct about damaged relations: a torn chunk is copied, by
  every scan again, and moves `toastDataRead`, but it is never counted, so
  nothing is put behind the copies of it and the value is not delivered. It is
  stated for relations that hold no chunk twice (with a sound copy of the torn
  one the code goes on, at a wrong offset) and no `stub`, and proved by
  `DecodeKeepsTorn`.

`Advancing` is the heart of it. When a scan starts, `loops <= want`. If
`want = loops`, the chunk numbered `loops` is somewhere in the file; a pass
over it either takes it, which moves `want` on, or finds `want` already moved.
At end of file everything has been passed, so `want > loops`, and the next scan
starts with `loops <= want` again. Hence at most as many scans as chunks, and
never the wrong "giving up". For `RestoredInOrder` the offset lemma
`OffsetsBounded` relates `toastDataRead >= toast_ext_size` to the last chunk,
which is why leaving a scan early loses nothing.
`ImplementsToastValue` then maps every step to a step of `ToastValue` or to a
stutter: `DecodeItem` to `Take` or a stutter, `Deliver` to `Deliver`, `EndScan`
and `OpenFails` to `GiveUp` or a stutter.

### The blocks of a dump (`FileDumpProofs`)

`BlocksDumped`: for every file, range and outcome of the nested dumps, the
blocks dumped are those asked for, once, in order, under their own numbers. Its
hypothesis `StartsBelowWrap` is that no start block lies behind 2^32 bytes;
without it the property is false. `BlockInv` ties three counters together by
where the loop is: between blocks the position is the block's number and one
block a number has been dumped (`Between`), within a block the position is one
ahead (`Within`), and behind the loop either the range or the file is at its
end (`Behind`). That a nested dump leaves all of them alone is part of the
proof: every action of `ToastRead` is a step of `FileDump` in between.

### Detoasting within a dump (`FileDumpProofs`)

The results about `ToastRead` are about a read started on its own; within a
dump the same loops start with the globals `bytesToFormat`, `specialType` and
`exitCode` as the outer dump left them, and leave them changed. `DumpInv` says
that the globals keep their types on both sides of a call (`Globals`), that the
outer loops stay within the file (`Places`) and the lines within the columns
(`Lines`), and that during a call `IInv` holds and the relation is that of the
column the decoder is at (`InToast`). `IInv` claims nothing of the globals
before the first block is read, which is why any call starts within it
(`CalledIInv`), and `NextIInv` carries it on. So every call answers rightly
(`AnswerWithinDump`), and a value that is whole is put on the line in full
(`ColumnsRestored`).

`RowsAreFile` goes on from there: every tuple to be decoded gives its line,
once, in order, with what its columns make. It and `BeyondIsSaidRightly` rest on
`BlockInv`, and so on `StartsBelowWrap`. Its invariant `RowsInv` has three parts. `LineSoFar`: the line in the making is that of the columns passed.
`RowsDone`: each tuple passed that is to be decoded has its line, each line is
right, and they are in order. `InSize`: the block's size is back in
`bytesToFormat` when the outer loop goes on, without which an item that fits
would be refused. The last is the one that joins both levels. It holds where the
relation can be read whole, since a read that has found its last chunk leaves
the block it is in at once, with `bytesToFormat` at the size of a block
(`Filled`, kept by every step of the nested loops, `NextFilled`). Without whole
relations `BeyondIsSaidRightly` is what is left: an item that is refused as
beyond its block is, or a column before it in the same block was restored
(`CountKept`).

### Pages (`PageDumpProofs`), for both alignments

*What a page is taken for.* `PageIsTold`: the sizes of the special sections and
the marks in them do not overlap in the order in which `GetSpecialSectionType`
tries them. It needs that the first word of an SP-GiST section, flags of four
bits, is not the magic number of a sequence; with 4-byte alignment no GIN page
is misread either.

*No false error.* `NoErrorInvented`, by `Unalarmed`: of a page the server wrote
no error has been noted so far, items are walked only where there are no meta
data in their place, and the GIN loop only on a GIN page; then every item fits,
is formatted as what it is (`ItemIsSound`), and every GIN page has a loop of its
own (`GinPageIsKnown`). What it leaves out is what `Unblemished` names: the
pages the code does not know of.

*No error missed.* `DamageIsSeen` is about every page, damaged or not, by
`Inspected`: as long as there is no error, the items formatted are the used ones
among those walked, and the header was read. At the end the special section has
been judged, and a section is found right only on a whole block
(`CutIsNoticed`), with the exception named in section 3.

*What is shown.* `NothingElseShown`: no byte is shown that was not read, with the
exceptions `InsideRead` names. `WithinRead` says so of each range shown so far;
`Walked` supplies where each part is reached from and how far the loops have
counted, and the inner tuples of SP-GiST, whose nodes tell their own lengths,
need a lemma (`InnerWithin`). `ShownOnceOnly`: of a sound page each byte is
shown once and the lengths add up. `Once` has the ranges shown at each point;
that they are apart and what they sum to is an induction over the items
(`PlainlyApart`, `PlainlySized`).

*GIN pages.* `GinPageIsListed`: what is listed is what was written, for any
number and length of lists. The encoding of a number in groups is read back
(`Groups`, `WrittenVarbyte`, `VarbyteReadBack`), an item pointer packed in a
number comes out again (`PointerReadBack`), and the decoder's position always is
behind a whole number of differences, with the value of the item it has come to
(`Position`, `NextPosition`). `ListedSoFar` says of each of the five loops what
it has listed: the segments passed, joined, and a part of the one it is in. TLC
checked it as an invariant of the run before it was proved.

### Free space map (`FsmFileProofs`, `FsmDumpProofs`, `FsmDiffProofs`)

*Numbering.* For every number of slots a page the look-up of `--heap-page` is the
inverse of the numbering that the listing uses (`LookupIsInverse`,
`ListedSlotIsFound`), and parents have smaller numbers than their children
(`ParentsComeFirst`), so the recursion ends.

*Order.* `PagesInFileOrder`: when `v` pages have been visited, they are pages 0 to
`v - 1`, and the stack is, in ascending order, the set `Waiting(v, total)` of
the later pages whose parent was visited. Its least is `v` itself, because `v`'s
parent is smaller, and to visit it is to put its children in front, all of them
smaller than anything that waits (`TreeOrder`, `ChildrenInOrder`, `WalkGoesOn`).
When nothing waits all pages have been visited (`WalkEnds`). `Shape`, the
invariant of `FsmDump` and of `FsmDiff`, has this and the loaded pages.

*Dump.* `Listed`: the listing covers the slots of the pages visited that the
filters let through, which for whole files is `ListingIsFile`; `LookupIsListing`
joins it to the look-up. `Summary`: of the pages visited, the counts are by kind
(`Counted`), slots and space those of the good leaf pages (`Summed`), and the
maximum is the first slot that has it (`Highest`); at the end `SummaryIsFile`.

*Diff.* `Balanced`: pages added, removed and changed so far are those among the
ones visited, from which `CountsBalance`. `Named`: the lines printed are those of
the pages visited that differ, in order (`ReportIsTrue`). `Counted`: the totals
added up run by run are sums over the nodes (`NodesCounted`). Its hypothesis
`BytesRise` is `0 < FSM_CAT_STEP` and `254 * FSM_CAT_STEP < MaxHeapTupleSize`:
true for blocks of 8192 bytes and more, where the largest tuple is 32 bytes
short of a block, and not for smaller ones, as section 3 says. `Spaced` and
`Totalled`: the deltas recorded so far sum to the difference in space of the
leaf pages compared, so with the pages added and removed they make up the
difference of the two totals (`SpaceIsConserved`); no hypothesis is needed.

### Command line (`CommandProofs`)

For every set of command lines. `Shape`, with `TypeOK`, says where the loop
stands: at an argument, or at a letter of a group, and that what has not been
come by is as `main` left it.

*Accepted or refused.* The return code is one variable that every argument
writes, so `RefusesTheRest` needs to know what a code that is still `valid`
promises. `Accepting` says it: each argument passed is a switch, a value or a
range's end in its place, with a good value (`ArgumentsRead`, `Past`), and the
letters come by are those whose bits are set, none of them twice, and not `-x`
with `-y` (`SwitchesRead`, `Seen`); once the loop has ended, `rc` is `valid` if
and only if the line is well formed (`Judged`). A code that is not `valid` ends
the loop at once or is kept until its end: `ValueRefusedRightly`,
`LetterRefusedRightly` and `RestRefusedRightly` show of each refusal that the
line has the mistake, `ValueKeepsReading`, `LetterKeepsReading` and the lemmas
beside them that what is taken keeps the promise.

*Told.* `RefusalsTold`, by `CodeTold`: the exit code that goes with each return
code, the two exceptions of `RefusalsReported` included.

*Carried out.* `LineCarriedOut`, by `Carried`: as long as the line is good, each
value holds what is behind its switch if the switch has been passed, and its
default otherwise (`HoldsTo`, `EndsTo`); at the end `Finished` has the switches
as well. It goes through only together with `Accepting`, because what a second
`-R` would do is for that to exclude. The segment number is read from the right
by the code and described by the last dot in the property; `SegmentRead` joins
the two. The width of the header is a recursive function, bounded by induction
(`HeaderShown`).

*Flags of the map tools.* `FlagsAreObeyed`, by `MapRead`: up to the argument the
tool is at, the files are the arguments that are neither flags nor values, in
order (`PosTo`), each kind of value is the last one given (`LastTo`), and the
flags on are those given in any spelling, with what `-a` of the free space map
stands for (`FlagsTo`); and no step begins at a value (`IsValue`), without which
this would not be inductive. It is about lines with at most `PosMax` file
names, whatever that number is: `FilesKept` and `Overfull` show that those are
the lines that never reach `PastPositions`.

### Visibility map (`CommandProofs`)

`BitsReadBack` says that the two bits of each heap page of a byte are read as
they were written, `StatusTrue` lifts it across bytes and map pages to
`HeapPageStatus`, and with it every turn of the run-length loop keeps the
tiling (`RangeIsTiled`): the runs closed and the open one cover the heap pages
looked at without gap or overlap, each with its status in the file, neighbours
differing. `AnswerIsTrue` is the same of `--heap-page`. A tiling is a cover
(`TileCovers`), and to filter it, or to list the pages one by one, leaves a
cover of what the filters let through: `ListingIsFile`. `SummaryIsFile` adds the
runs up: with `ListInv` the summary is what `DumpSummary` or `DiffSummary` makes
of the whole range, and lengths added over runs are heap pages counted
(`RunsCounted`, `DumpTotals`, `DiffTotals`).

### Tuples and COPY lines (`CopyProofs`)

For every tuple and list of types, every length of a name and every
decompressor. Three layers of lemmas lead to the invariant.

*The line.* `Split`, `Unescape`, `Unsigned` and `Layout` are recursive functions;
`StepsAppend` and `SeqInduction` say what one more character does to such a
function, and `SplitColumn` (a tab and a text without one add a column),
`EncodedRead` (an encoded character is read as itself, but for a tab) and
`TextEncoded` follow. `ColumnText` puts them together: what is printed for a
column holds no tab, line break or zero, is empty only for an empty value, and
is read as the value, a NULL included, which no text can look like: a backslash
of a text is doubled.

*The layout.* `StoredGrows`: every column but a NULL adds a byte, behind all in
front of it. `LeadingWithin`: the first k columns' bytes are a prefix of the
tuple.

*The decoders.* `ReadColumn`: at the end of the first k columns, the callback of
the next column's type uses exactly its bytes, padding included, and appends its
text; one lemma for each form (`ReadFixed`, `ReadShort`, `ReadPlain`,
`ReadPacked`, `ReadToasted`), with the words of a header read as they were
written. `CallbackBounded`, of any bytes at all: a callback that returns has used
no more than is left.

The invariant `TupleInv` then says of the loop of `FormatDecode`: as long as the
types agree with the columns, the position is the end of the columns read
(`Stands`) and the line holds their texts, from the first that is not empty
(`Holds`: `CopyAppend` puts no tab on an empty line), and nothing has failed
(`Follows`); behind the last column there are no bytes, and only a NULL lets the
loop go on there (`NoneBehind`); a `~` has taken what was left (`Ignored`); a row
accounts for every byte (`Outcomes`). `NextTupleInv` shows that every step keeps
it; without `NoneBehind` it would not be inductive, for a list that is too long.
`TupleReadsBack`, `TupleLosesNoColumn` and `TupleStaysInside` follow.

*Dates and times.* `CalendarIsTrue`, for every day and every count of
microseconds a server stores. With the invariant, the line of a row of one value
is the text of that value and the tuple is its bytes (`SoleText`, `SoleIsRead`);
the rest is arithmetic. `j2date` is cut at the points where its remainders are
small: the days since a 1st of March of a year divisible by 400 into century,
year and day (`CycleSplit`, `CenturyIs`: where a 29th of February is missing, the
century is counted from the day behind it), the day of the year into month and
day, for which the code has one multiplication and a case for each month shows
that it rounds as it should (`MonthSplit`, `FromJanuary`). `DayOfCycle` counts the
leap years of the years before (`YearsRepeat`) and gets the number of days
stored (`CalendarDay`). `DayAndTimeTrue` is the division of a negative timestamp,
`ClockTrue` and `ZoneTrue` the time of day and the zone.

### String buffer (`CopyProofs`)

Room for the terminator, no overflow, geometric growth, from an invariant
relating `needed`, `newlen` and the limit during growth.

### Only model-checked

Liveness, and with it the liveness part of the refinement: the prover does not do
fairness. Of `ScalarsTrue` the part `NumbersTrue`, that the digits of a numeric
are printed truly: those are powers of ten up to the number's length, and what a
number is stored as (`NumericBytes`) is given for four digits to the base 10000
only, so that a proof would say no more than the run. `ErrorsReachExit` and
`TabsReadBack` are false of the code (section 3).

## 5. What is not modelled

* The text that is printed, where no property is about it: the layout of
  `FormatBinary`, the names of flags, the addresses of `-a`, the digits that
  `printf` makes of floats, uuids and MAC addresses.
* Checksums and CRCs: whether one is right is a bit of a page.
* Decompression (pglz, lz4): external; its outcomes are a choice (`ToastRead`) or
  a function of the payload (`TupleDecode`).
* Failure of `malloc` within a nested dump. (In the outer one it is
  `StartFails`; in the map tools part of `LoadFails` and `OutFails`.)
* BRIN pages, which the code does not tell from GIN pages.
* A GIN page whose `maxoff` is 65535, the largest value of the loop counter's
  type: the loop over its items has no end then. The pages of the runs end.
* A chunk longer than what is left of `toast_data`, which has `va_rawsize` bytes
  (`decode.c:1410`): the model counts the bytes copied, and a damaged relation
  may have it count more than the value has, but what the copy overwrites
  behind the buffer is not followed.
* A range of `--range` whose end lies before its start: the filter then lets
  nothing through; the ranges of the runs go forward.
* What the item loop reads of the tuple header of an item without bytes (a
  redirected or dead line pointer): it is the page's own header, and which of
  the tuple's fields it makes up is one of the items of the runs (`Pruned`), not
  worked out from the page.
* Undefined behaviour is kept where a property can see it: the uninitialized
  `read_toast_oid` is a choice in `Reports`, reading behind a tuple is the
  outcome `outside`, a ninth file name of a map tool the job `undefined`. Heap page numbers below 0, which the parser of the
  visibility map accepts, are not followed into the memory before the pages.
* Build rules, tests and their expected output, and the objects and pages kept
  in `fsm_vm_parser`: no behaviour of their own.

## 6. Plan

Done, the most important behaviour first: `ToastRead`, `ToastValue`;
`StringInfo`; `FsmTree`, `FsmDump` and `FsmDiff`; `VmMap`; `FileDump`;
`CopyLine`, `Scalars` and `TupleDecode`; `GinBlock` and `PageDump`; `Options`
and `CommandLine`; and every invariant the runs check, as a theorem, but for
the numbers of `ScalarsTrue`. Open:

1. *Prove more.* That numbers are printed truly, for numbers of any length.
2. *Model more.* The category conversion of the free space map for block sizes
   of 4096 bytes and less; the addresses of `-a` across a nested dump.
