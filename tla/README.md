# A TLA+ verification project for nplayer

nplayer converts Databento DBN archives (`.dbn.zst`) to Parquet and plays Arrow
IPC streams back from a TCP connection. This directory holds TLA+ models of its
moving parts, TLC configurations that check them on small instances, and TLAPS
proofs of all their safety properties for instances of every size.

Contents: [inventory](#inventory) · [modules and the code](#modules-and-the-code)
· [runs](#runs) · [bounds](#bounds) · [fairness](#fairness) ·
[proofs](#proofs) · [findings](#findings) · [not modelled](#not-modelled) ·
[plan](#plan) · [running](#running)

## Inventory

| Part | State it keeps | Operations | Interacts with |
|---|---|---|---|
| `ParquetWriter` | builder, bounded queue, writer thread, `thread_status_`, `failed_`, `closed_`, `written_`, `skipped_` | constructor, `append`, `flush`, `enqueue`, `close`, destructor, `writer_loop` | called by `convert_file`; hands batches to its own thread |
| batch builders | columns (values, validity bitmap, null count, character offsets), `rows_`, `capacity_` | `reserve`, `append`, `finish` | owned by the producer side of `ParquetWriter` |
| `DbnParser` | file, zstd stream, `in_buf_`, `in_frame_`, `buf_`, `pos_` | `fill`, `read_metadata`, `for_each_record` | gives each record to `ParquetWriter::append` |
| `convert_file`, `convert_tree` | `next`, `failed`, the output tree, open descriptors | walk, start of the pool, worker loop, temporary file, rename, report | one parser and one writer per file, several files at once |
| `auto_jobs`, `available_memory` | none | computes the number of workers | uses `ParquetWriter::peak_memory` |
| `Backplayer` | listening socket, connection, decoder, counters, bounded queue, player thread | constructor, `run`, `decode`, `read_fully`, `OnSchemaDecoded`, `OnRecordBatchDecoded`, `OnEOS`, `player_loop`, destructor | a remote sender; its own thread |
| `nlib::single_queue` | a bounded FIFO | `try_push`, `try_pop` | both pipelines |
| `main` | none | two subcommands, exit code | `convert_tree`, `Backplayer` |
| `common.h` | none | DBN structs, sentinels, options | everything |
| `ZMQServer` | none | none (an empty class) | nothing |

What is hard about it:

- **Two threads and a pill.** Both pipelines join a producer to a consumer by a
  bounded queue and stop the consumer with a null pointer. `close()`/`run()` and
  the destructor can each push it; only `joinable()` decides who does.
- **A failure that has to travel backwards.** The writer thread stores a plain
  `Status` and then sets an atomic flag. The producer reads them in the other
  order, and once more after `join()`.
- **Nothing lines up.** A read, a zstd frame, an output chunk and a record end
  anywhere within each other; so do a `read()` on a socket, a part of an IPC
  message and the sender's close.
- **Buffers that are used again.** Validity bitmaps and character offsets survive
  from batch to batch.
- **Numbers taken on trust.** Counts and widths come from the file, the batch
  size from the command line, memory limits from files that may not be there.
- **Failure and death at any step**, with temporary files left behind, and some
  steps outside any handler.

What would make each part correct:

- writer: rows reach the file once and in order; a finished file has all of
  them; a failure is never swallowed and never blocks the producer; memory
  stays within what the pool was sized for;
- builders: each cell means what the record said, whatever the batch before held;
- parser: the framing never slips; truncation is reported exactly when there is
  one; memory does not grow with the file; decoding ends;
- metadata: no read passes the declared bytes; work is bounded by them;
- pool size: at least one worker, no more than files, cores and memory allow,
  and no fewer;
- conversion: an output that exists is complete; each file is accounted for
  once; an exit code of zero means that all of them were converted;
- backplayer: batches are played once and in order, all of them by the time
  `run()` returns, and all but one lost to a failed print when it throws; the
  stream ends only at its end; nothing leaks or hangs.

`PROJECT.json` lists each of these places under `hazards`, with the line where
it bites and the properties aimed at it.

## Modules and the code

```
RowBatches ── SingleQueue ─┬─ ParquetWriter ── MCParquetWriter
     │                     │        └ refines RowSink
     │                     └─ Backplayer ── MCBackplayer
     │                              └ refines Playback
     ├─ DbnParser ── MCDbnParser
     │        └ refines RecordSource
     └─ ConvertFile = ParquetWriter + RecordSource
              └ refines the conversion steps of ConvertTree
BatchBuilder ── MCBatchBuilder          ConvertTree ── MCConvertTree
DbnMetadata ── MCDbnMetadata            AutoJobs ── MCAutoJobs

ParquetWriterProofs ── ConvertFileProofs     BackplayerProofs   DbnParserProofs
ConvertTreeProofs   BatchBuilderProofs   DbnMetadataProofs   AutoJobsProofs
```

A module `XProofs` extends `X` and holds the theorems about it;
`ConvertFileProofs` takes the facts about the writer from `ParquetWriterProofs`
by `INSTANCE`.

**RowBatches, SingleQueue.** A batch is a run of row numbers `[lo, hi)`;
`Linked` says that a sequence of batches covers a range end to end. Who loses,
repeats or reorders a row breaks `Linked`. `nlib` is a submodule that is not
part of the repository's files, so the queue is modelled from its uses: a push
that fails leaves its argument with the caller, who sleeps and tries again. Such
a loop is one action that waits for its condition.

**ParquetWriter.** `pc` is where the producer thread is and `wpc` where the
writer thread is. `append()` is three actions, one per outcome (a row, a record
of another schema, an exception). A `flush()` is split only where another thread
can be seen: at the push. `close()` is split at the push of the batch, the push
of the pill, the join, and what follows it. `WriteFails` and `Publish` are the
two stores of a failure, kept apart because the producer may run between them.
Whether a flush belongs to `append()` or to `close()` is read off `closed_`, as
in the code. The caller is `convert_file`: whatever throws goes to the
destructor. `Reclose` is the call that `if (closed_) return written_` provides
for; the constant `AllowReclose` turns it on, and is off in `ConvertFile`, whose
caller calls `close()` once.

**RowSink** is what the writer promises without threads, batches and queue:
rows are taken, stored in order later, and the file is complete with all of them
or not at all. `ImplementsRowSink` maps `accepted` to the rows taken, `written`
to the rows stored; the sink breaks when `failed_` is set, not when the write
fails, because until then the producer cannot know and keeps being served.

**BatchBuilder.** One record per column `[vals, valid, nulls, offsets]`. `Reserve`
takes a new buffer and sets the bitmap to ones, `SetRow` is `set()` with the
conversions of `set_ts`, `set_price` and `set_size`, `ArrayOf` is `finish()`,
which leaves the bitmap out when there was no null. The schema and `ts_out` are
chosen in `Init`: the header of the input picks one of the two builders by them. A
finished batch is kept with the number of its first row, for `RowsFaithful` to
say which record each of its rows is. A `char_column` builds its
offsets once, as 32-bit integers, and `CharAt` reads a character through them.
`Fields` (the schema) and `Arrays` (what `finish()` returns) are two lists, as
they are in the code. Integers wrap modulo `Mod64` and `Mod32`.

**DbnParser.** Bytes are numbered, not stored: `buf_` is `[base, base + size)` of
the decompressed stream. `FileRead` is `fread`, `Decompress` one call of
`ZSTD_decompressStream`, whose contract is the external `decompressStream(a, o)`:
it stops for want of input or of room or at the end of a frame, and does not
consume the last byte of a frame before the frame's content is out. Both loops
of `read_metadata()` and the loop of `for_each_record()` are their iterations.
A file is given by the ends of its zstd frames, in bytes of the file (`c`) and of
the content (`d`), by how many of its bytes are there (`len`, inside the last
frame or at its end), and by the lengths the content declares. `recs` are the
ends of the content's records, as a decoder that had all of it in memory would
frame them. `WellPacked` and `WellFramed` say no more than that: each file and
each content has exactly one such description.

**RecordSource** is what `for_each_record()` promises without file, decompressor
and buffer: the records of the content in order, up to the limit or the last one,
and a normal end only there. `ImplementsRecordSource` maps it to `DbnParser`: the
records of a content are `recs`, so the chunked decoder is compared with a
one-piece one.

**DbnMetadata.** What `read_metadata()` does behind the prelude. The cursor is
its position; `need` is the comparison of the code, with its wrapping addition.
The fixed part is the list of its field sizes (`FixedFields`), one per version
layout; the three symbol lists and the mappings are read entry by entry, with
counts and width chosen freely, as the file may. `Reserves` is `vector::reserve`,
which throws something else than the cursor does.

**AutoJobs.** `available_memory`, `peak_memory` and `auto_jobs` are operators
over a machine's readings, each of which may be `Unknown`; arithmetic wraps at
`Word`. `PickJobs` is the choice in `convert_tree`, `DivideByZero` the trap when
the wrapped peak is zero. The properties compare with the exact, unwrapped
numbers (`ExactPeak`) and with every limit that is known (`KnownLimits`).

**ConvertTree.** The output directory maps names to inodes, and a worker's open
writer holds an inode, so that opening, truncating, renaming and removing do what
they do on a POSIX file system. The walk finds up to `N` files; threads start one
by one and are at work while the next one starts; the caller's thread is worker
`Main`. The number of workers is any that `JobsInRange` of `AutoJobs` allows.
`Kill` ends the process anywhere and `Restart` starts it over what is left.
Every step of `convert_file` has a version that throws, and goes where the
code's handlers send it. What no handler encloses (`fs::relative`,
DbnParser.cpp:330; starting a thread, 350; the print inside the handler, 341)
ends the process: by `std::terminate` on a thread of the pool or past joinable
threads, by way of `main()` otherwise (`Uncaught`). Descriptors are counted:
a conversion holds its input and its output, and a parser whose constructor
throws after `fopen` leaves one open for good (`leaked`).

**ConvertFile** is `convert_file` put together from its parts. It declares the
variables of `ParquetWriter` and of `RecordSource`, instantiates both, and takes
their steps in the order of the code: each record given is one appended, `close()`
is called when the source is done, the destructor when anything has thrown, then
the rename or the removal. `ImplementsConvertTree` maps it to `ConvertTree` with
one worker and one file: what there is a single step `Write` is here thousands of
interleaved steps of two threads.

**Backplayer.** The sender sends byte by byte and may close after any of them.
The decoder asks for one part (token, length, metadata, body) at a time. `Read`
takes any number of the bytes that are there. `Steps` is what the calling thread
does, `Play` what the player thread does. Whether it connects or listens is
chosen in `Init`. Descriptors are the set `fds`; `connect_socket()` opens one for
each address (`OpenSocket`, `SocketFails`) and keeps or closes it
(`ConnectAddress`, `AddressRefuses`). A call that throws before the message at
hand is decoded is `DecodeThrows`. `OnRecordBatchDecoded` counts a batch, prints
its progress line if it passes a mark, and only then enqueues it: `ConsumeBatch`
is the print that succeeds or is not due, `PrintThrows` the one that throws, which
leaves the batch counted and in nobody's hands (`dropped`).

**Playback** is the backplayer without connection, decoder and queue: batches
come in, each is played in its turn, and the player stops only when all of them
have been. When the stream breaks off, the batch just decoded may be lost with it
(`Lose`), and no other; when it ends, none is.

Definitions introduced as a *faulty variant* stand before the definition they
vary. They are in no specification; put in its place, each breaks a property,
which shows that the property can tell the code from that mistake.

## Runs

| Run | Instance | Shows |
|---|---|---|
| `writer` | depth 2, batches of 2, 11 records, `close()` called again | `ReservationHolds`, `RowsInOrder`, `CompleteFileHasAllRows`, `NothingBehindPill`, `MemoryWithinPeak`, `FullRowGroups`, `FailureSurfaces`; that the writer implements `RowSink`; `ProducerReleased`: neither a full queue nor `join()` holds the producer for good |
| `builder` | both schemas, with and without `ts_out`, batches of 2, 5 records, 6-bit and 4-bit integers | `RowsFaithful` |
| `parser` | 327 files with and without a limit, reads of 2, chunks of 2 | `RecordsFramed`, `NoFalseTruncation`, `BufferBounded`, `Terminates`, and that the parser implements `RecordSource` |
| `metadata` | all versions, lengths 100 to 150, widths 0, 1, 3 and 22, counts to 1000 | `ParsedExactly`, `WorkBounded`, and (in `TypeOK`) that no read is out of bounds |
| `jobs` | 4320 machines, 6 batch sizes, 4 values of `--jobs`, 4 file counts | `JobsInRange`, `JobsFitMemory`, `BuffersFit` |
| `convert_tree` | up to 2 files, 2 workers, 4 descriptors, 3 runs | `EveryFileAccounted`, `OutNeverPartial`, `ExitZeroMeansConverted`, `OutputsSurvive`, `RunEnds` |
| `convert_symlinks` | 2 files with one output name | **violated**: `OutNeverPartial` |
| `convert_abort` | 2 files, 2 workers | **violated**: `FailuresSkipped` |
| `convert_leak` | 3 files, 1 worker, 2 descriptors | **violated**: `FailuresIsolated` |
| `convert_file` | depth 1, batches of 2, up to 8 records, limit 0 or 3 | `OutputFaithful`, `ConversionEnds`, and that the composition implements `ConvertTree` |
| `backplay` | connecting and listening, 4 streams, depth 2, 2 addresses | `BatchesInOrder`, `EndsOnlyAtEnd`, `DescriptorsReleased`, `LinePerMark`, `Released`, and that the backplayer implements `Playback` |
| `backplay_close_inside` | the same, connecting | **violated**: `CloseInsideMessageIsError` |

Each property carries a comment in its module that says it in words. Some that
a reader might read past:

- `RowsInOrder` keeps its first half after a failure: the row groups already in
  the file are still the first rows without a gap, because the thread that
  failed drops batches and never writes again.
- `MemoryWithinPeak` counts the batches alive in the builder, in the hand of a
  blocked `enqueue()`, in the queue and in the encoder, against the
  `queue_depth + 2` of `peak_memory()`. The bound is tight: while a push waits,
  the builder has given its buffers away and has not reserved new ones.
- `ImplementsRecordSource` and `NoFalseTruncation` are two sides of `in_frame_`. The
  first would fail if truncation were missed, the second if a complete file were
  refused.
- `ImplementsPlayback` also covers a `run()` that throws: the destructor pushes
  the pill behind the batches, so they are played before it returns. What it
  cannot play is the batch whose progress line failed, which never reached the
  queue; `BatchesInOrder` adds that `run()` does not return after that, so no
  caller sees counts that the player did not reach.
- `LinePerMark` and the first half of `Released` leave out that batch and its
  line, and nothing else.
- `RunEnds` counts a process that was terminated as ended: it is about workers
  that would go on for ever, not about those that take the run down with them
  (`FailuresSkipped`).
- `JobsFitMemory` and `BuffersFit` speak of batch sizes whose peak fits
  the word (`Automatic`); `JobsInRange` holds for those that wrap as well, unless
  they wrap to zero, where the division traps.
- `BuffersFit` is about the constant 80 of `row_bytes`, which leaves out `ts_out`,
  validity bits and offsets. 60% of the memory is margin enough for them.
- `OutputFaithful` spans both threads and the parser: the file that gets the
  final name has the rows of exactly the records up to the limit or the end, and
  the numbers printed are theirs.
- `ExitZeroMeansConverted` is what a script that calls `nplayer convert` relies
  on, over whatever earlier runs left behind.

## Bounds

- *Writer*: `BatchRows * (Depth + 3) + 1` records fill the builder, a blocked
  push, the queue and the encoder at once, with one batch more and a partial one
  at the end. Records of other schemas count against the same bound.
- *Builder*: batches of 2 and 5 records give three batches, so that a batch with
  nulls is followed by one without and one with; a null in the first or second
  row, and none. The integers are so small that every sentinel, its neighbour
  and the sign boundary are among the values; every other column has a value of
  its own.
- *Parser*: two lists of records (one with a corrupt length), their content cut
  off at every byte, packed into one frame of 2 or 3 bytes, into one with an
  empty frame behind it, or into two frames of 2 in every way; the file cut off at
  every byte, and the empty file. Reads and chunks are shorter than a record, so
  that one record spans several of each.
- *Metadata*: `fixed_len` is the real 100, so that the two layouts are compared
  as they are; the lists get up to 46 bytes, so that a header can end inside any
  list, between two, and behind the last. The count 1000 stands for one there is
  no memory for.
- *Pool size*: 16 bits for 64, 64 bytes for 64 MiB. The batch sizes are small
  ones, the largest whose peak does not wrap, one that wraps to a small peak and
  one that wraps to zero; readings are zero, below one peak, some peaks, the
  largest, and unknown; a cgroup may be over its limit.
- *Conversion*: two files, which two workers share or one worker takes in turn
  while the other is still starting; three starts, so that a second crash meets
  the temporary files of the first. Four descriptors are what two workers need
  when nothing leaks. A third file adds no new kind of contention and takes the
  run past a few minutes; `convert_leak` has three.
- *Composition*: eight records and batches of 2 over a queue of 1 fill builder,
  hand, queue and encoder and leave a partial batch; the limit of 3 falls inside
  a batch.
- *Backplayer*: an empty stream, one with an empty batch and a batch that passes
  two marks, one without an end marker, one with bytes behind it; more batches
  than queue and player hold. Reads of every length. Marks come every two rows, so
  that the print of the first batch of a stream, and of a later one with others
  still queued, can throw. The second address is tried after the first refused.

## Fairness

Fairness is stated only for what the operating system guarantees: a thread that
can take a step is scheduled.

- *Writer*: weak fairness of each thread. Either may fail or succeed at each
  call; neither outcome is assumed.
- *Parser*: weak fairness of its one thread. Errors of the file and of zstd
  are not assumed to happen.
- *Conversion*: weak fairness of the walk, of each worker, which succeeds or
  throws, and of the return. A kill is never assumed.
- *Composition*: weak fairness of the caller and of the writer thread.
- *Backplayer*: weak fairness of the calling thread and of the player, and of
  the exception after the last address. The sender is not assumed to do
  anything, which is why one half of `Released` is about a sender that has closed: as long
  as it stays connected and silent, `run()` waits, in the code as in the model.
  Its other half needs no such condition: what was enqueued is played.

`CHECK_DEADLOCK` is left on everywhere. A finished system stutters by an action
of its own (`Gone`, `Finished`, `Done`, `Over`, `Picked`), so that a deadlock before
that would be reported.

## Proofs

Eight modules of theorems are checked by TLAPS. They hold for every value of the
constants: every number of files, workers, records and descriptors, every size
of batch, queue, buffer and chunk, every file, stream, machine and header.

Every safety property that a passing run checks is a theorem; so is each of the
four refinements. Each proof is one of an inductive invariant, which TLC had
checked on the component's run first.

Of the liveness properties, what can be said without fairness is proved as well:
that whoever waits, waits for somebody who can go on (`DeadlockFree`,
`PlayerDeadlockFree`, `FileDeadlockFree`, `PoolNeverStuck`, `FillProgresses`), and
that every step meanwhile reduces a number that cannot fall for ever (`WaitsEnd`,
`PlayerWaitsEnd`, `RunShortens`, `WorkEnds`). What is left to TLC is the step from
these and fairness to `~>`. The invariants and action properties they state are
not in any run's configuration; TLC found them to hold on the instances of the
runs before they were proved.

### Assumptions

They are named, stand in the module that declares the constants, and are
evaluated by TLC in the runs.

| Assumption | Says |
|---|---|
| `WriterAssumption`, `DepthAssumption`, `NullAssumption`, `FileAssumption`, `BackplayerAssumption`, `TreeAssumption`, `MetadataAssumption` | sizes and depths are positive, numbers natural, and the null pointer is not a batch |
| `JobsAssumption` | the same, and that a reading which is not there is not a number |
| `CursorAssumption` | no addition of the metadata cursor wraps: the file declares its length in 32 bits and the width in 16, the sum is made in 64 |
| `ParserAssumption` | the sizes are positive, and the inputs are files: their frames adjoin and only the last may be cut off (`WellPacked`), and `recs` are the records of their content (`WellFramed`). Truncated, corrupt and empty files are all among them |
| `BuilderAssumption`, `RecordsAssumption` | a batch has rows, the integer ranges are even numbers of values, and timestamps and order ids are unsigned 64-bit integers |
| `OffsetsFit` | a batch has fewer than 2^31 rows. A hypothesis of `RowsCorrect`, as the code does not see to it either |
| `OwnNames` | no two inputs have the same output name. The code does not see to it, so it is no assumption of the model but a hypothesis of the theorems that need it; `convert_symlinks` shows what happens without it |

### The writer

None of its properties is inductive. `CompleteFileHasAllRows`, for instance,
needs to know that the queue is empty after `join()`, hence that nothing is
behind the pill, hence that nobody pushed after it, hence which thread may be
where when the pill is queued; and that the status read after `join()` is the one
the thread stored. `Inv` of `ParquetWriterProofs` has a conjunct for each:

| Conjunct | Says |
|---|---|
| `TypeOK` | types, and the bound of the queue |
| `Hands` | a batch is in a thread's hand exactly at the steps that hold one |
| `Failure` | the flag follows the status; a thread that writes has not failed |
| `Pill` | the pill is last; once it is sent the producer joins or has joined, and when it joins it has been sent; after the join the queue is empty |
| `Builder` | what is reserved and filled at each point of the producer |
| `Sizes` | each batch is full, or is the one `close()` flushed and ends with the last row |
| `RowsInOrder` | the batches in the file, in hand, queued and pending are linked |
| `Completion` | what is known once the footer is written |

`InitInv`, and one lemma per group of conjuncts with one step per action, give
`InvHolds`. From it follow `TypeCorrect`, `ReservationCorrect`, `OrderCorrect`,
`CompleteCorrect`, `PillCorrect`, `MemoryCorrect`, `RowGroupsCorrect`,
`FailureCorrect` (an action property) and `Refinement` (`RowSink`). How a push and
a pop act on a queue of adjoining batches is a section of lemmas, here and in
`BackplayerProofs`.

`DeadlockFree` says that whenever the producer waits (for room, or for the end of
the thread) and what it waits for is not there, the thread has a batch in hand or
something to pop. It rests on `Pill`: the thread leaves only with the pill, which
is last, and a join is only reached with the pill sent. `WaitsEnd` adds that as
long as the producer waits every step reduces `Backlog`, three for each entry of
the queue and up to two for the batch in hand, whether the thread writes, fails
or drops, and that room once there stays. A thread that stopped draining after a
failure would break the first, one that put a batch back the second.

### The backplayer

The same two threads and pill, and a decoder in front of them:

| Conjunct | Says |
|---|---|
| `Hands`, `Pill` | as for the writer; the thread is joinable from its start in `run()` to the join |
| `Dropped` | once a batch was dropped, `run()` has thrown and only the destructor is left |
| `Expected` | the part being read is one of the current message's |
| `Spans` | batches run forwards and lie within the rows decoded |
| `Mark` | `next_log` is the first multiple of `log_every_rows` past the rows, as long as no batch was dropped |
| `Descriptors` | a socket or connection is open only inside `run()`; before and after there is nothing open |
| `BatchesInOrder`, `EndsOnlyAtEnd` | the properties themselves |

`PlaybackRefined` rests on `Drained`: with nothing pending and nothing queued,
as after a join, all that was decoded has been played but for what was dropped;
by `Dropped` that is nothing when it is `run()` that joins. `PlayerMarks` is an
action property, from the lemma `MarkPassed` about the division in the code. `PlayerDescriptors` is the
weaker half of `Descriptors`. `PlayerDeadlockFree` and `PlayerWaitsEnd` are as for
the writer; the steps of the sender, which may go on while the calling thread
waits, touch neither thread.

### The parser

`Inv` of `DbnParserProofs` ties four positions together that move at their own
pace.

| Conjunct | Says |
|---|---|
| `Stream` | what was read and not consumed is in the input buffer; what was delivered was dropped from `buf_` or is in it; zstd is inside the frame it thinks it is in, and between two frames exactly at the end of one; with `in_frame_` set there is input left, or a byte of the frame was taken |
| `Waiting` | which loop called `fill()`, and that it had less than it needed |
| `Prefix` | what `fn` was given are the first records of the content |
| `RecordsFramed`, `BufferBounded`, `NoFalseTruncation` | the properties themselves |

The clause of `Stream` about `in_frame_` is the heart of `NoFalseTruncation`: at
the end of the file nothing is left in the input buffer, so `in_frame_` means
that a byte of an unfinished frame was taken, and a file that ends between two
frames has none (`AtEndOfFile`). It rests on the contract that zstd keeps the
last byte of a frame until the content is out. `SourceRefined` uses the other
direction: without `in_frame_` all frames are over, so that with an empty `buf_`
all records were given (`AllGiven`).

`FillProgresses` is about the inner loop of `fill()`, which would spin if zstd
could neither consume nor produce: input that is left lies before the end of the
last frame (`WellPacked`), so there is a current frame, and it has bytes to take or
content to deliver. `WorkEnds` gives the measure for the whole decoder:

    2 (content not delivered) + (content not framed) + (bytes not consumed)
      + (bytes not read) + 2 (loops not finished) + (1 outside of fill())

Each step reduces it, and it is never negative. The two subtle cases are a call
of zstd that only consumes (the header of a frame, or a frame without content),
after which `fill()` goes round again, and the call of `fill()` itself, which moves
no position and is paid for by the content that the return before it delivered.

`Inv` of `DbnMetadataProofs` gives the position as a function of what was read:
in the fixed part the offset of the field (`Fixed`, with both layouts in
`Layout`), in the lists 104 bytes and what the counts, symbols and dates take
(`Parsed`). `MetadataTypes` says that no read is out of bounds, `MetadataExact`
that nothing is skipped, and `MetadataWork` bounds the symbols.

### The conversion

`Inv` of `ConvertTreeProofs` needs nothing about names:

| Conjunct | Says |
|---|---|
| `Pool` | where workers can be in each phase of the process |
| `Taken` | each file below `next` is with exactly one worker, converted or failed |
| `Counted` | `failed` is the number of files that failed |

With `OwnNames`, `Disk` is inductive as well:

| Conjunct | Says |
|---|---|
| `Owned` | what the temporary file of a worker is at each step, and that its handle is that file |
| `Apart` | a temporary file has one name and is no output |
| `InPlace` | a converted file has its output and no temporary file |
| `OutNeverPartial` | the property itself |

Kills leave temporary files of any content behind, so nothing is said about
those that no worker owns. `TreeTypes` includes that a new inode can always be
found, which is a cardinality argument (`InodeLeft`): each name holds at most two
and each worker one. `OutputsComplete`, `FilesAccounted` and `ExitZeroTrusted`
need `OwnNames`; `OutputsKept` does not. `FilesReported` is the part of
`EveryFileAccounted` that holds where names are shared: each file is reported
once, and the count returned is that of the failed ones.

`RunShortens` says that each step of a run either takes a file that nobody took
before or lowers the rank of one worker's place (`Rank`) and leaves the others
where they are, so that no failure makes a worker try again. `PoolNeverStuck`
says that some worker has a call to make, or is the next one to be started, until
all have left: of the threads not started the first may always be, and the
caller's when there is none.

`ConvertFileProofs` shows that each step of `convert_file()` is a step of the
writer or leaves it alone (`WriterMoves`), takes over the writer's invariant, and
adds `Fed` (each record given is a row or was skipped), `Limited` (when the
source ends), `Closing` (a file is completed only after the source is done),
`Renamed` and `Opened`. `OutputCorrect` follows, and `ConversionRefined` maps each
step to one of `ConvertTree` with one worker and one file. `ThreadEnded` says that
the temporary file is renamed or removed only when the thread that wrote it has
ended, and `FileDeadlockFree` carries `DeadlockFree` over to the composition.

### The builders

`Inv` of `BatchBuilderProofs` says what the buffers hold between two calls:

| Conjunct | Says |
|---|---|
| `Types` | the types of columns, arrays and batches |
| `Between` | after `finish()` there are no rows |
| `Filled` | of each column: the rows appended hold the stored value and the validity of their records, the bits of the other rows are set, and with a null count of zero no row is null |
| `OffsetsBuilt` | the offsets of a `char_column` are not built yet, or 0, 1, 2, ... as 32-bit integers; they are built when a batch is filled |
| `Behind` | finished batches lie before the rows in the builder |

The bits of the rows to come are what `reserve()` has to set anew: `set()` only
clears a bit, so a bit left from an earlier batch would make a value null. The
null count matters because `finish()` leaves out the bitmap when it is zero.
`ArrayMeans` turns `Filled` into the meaning of each cell of a finished column:
`ToSignedIs` and `Congruent` show that the cast gives the one signed integer
congruent to the unsigned one, and `OffsetsFit` that a character's offset is its row.
`SameOrder` compares the two column lists. `BuilderInv`, `BuilderTypes` and
`RowsCorrect` follow.

### The pool size

`Inv` of `AutoJobsProofs` only says that the pool is what was computed from
inputs that do not change. The work is in the arithmetic: `Tightest` (what
`available_memory` returns is the least of the known limits), `CoresBound`,
`MemoryBound` and `PoolFits`. `RangeCorrect` holds for peaks that wrap as well.

### Only model-checked

- Liveness (`ProducerReleased`, `Terminates`, `RunEnds`, `ConversionEnds`,
  `Released`): the prover handles neither fairness nor `ENABLED`. Their safety
  halves are proved, as said above; for `ConversionEnds` only that nobody is stuck.
- That `recs` exists for each content, and what `StreamSize` computes: these are
  inductions over data. TLC evaluates `WellFramed` on every file of the run; no proof uses
  the value of `StreamSize`.
- The four disagreements with the documentation, which are counterexamples.

## Findings

Runs that expect a violation, each of a sentence of the documentation:

1. `decode()` takes the end of the connection between two parts of one message
   for its end between two messages: the message is dropped and `run()` returns
   normally (`backplay_close_inside`, Backplayer.cpp:222). The header and the
   README say that a close inside a message is an error.
2. Two inputs whose resolved directories and names agree (a symbolic link to a
   file of the same name in the same tree) share one temporary file. With more
   than one worker a partial file can get the final name (`convert_symlinks`,
   DbnParser.cpp:330). The documentation says that it never does.
3. An exception of `fs::relative` ends the whole process, since no handler
   encloses it; so does one of the print inside the handler (`convert_abort`,
   DbnParser.cpp:330 and 341). The documentation says that files that fail are
   reported and skipped. Finished outputs stay complete; what is lost is the rest
   of the run.
4. An input whose metadata is bad leaves its `FILE*` and zstd stream behind,
   because the exception leaves the constructor of `DbnParser` (`convert_leak`,
   DbnParser.cpp:136). In a tree with many such files, good ones fail for want
   of descriptors.

Observations made while modelling, which the models show but no run of its own
records:

- `close()` marks the writer closed before it does anything, so a `close()`
  after one that threw returns `written_` although the file has no footer
  (`Reclose`, ParquetWriter.cpp:587). `convert_file` calls it once.
- `reserve()` takes the declared count before any bounds check, so a malformed
  header can end in `std::bad_alloc` where the header file promises
  `std::runtime_error` (`Reserves` in `DbnMetadata`, DbnParser.cpp:215).
- `peak_memory()` wraps for batch sizes the command line accepts, and
  `auto_jobs` then picks too many workers or divides by zero (`DivideByZero` in
  `AutoJobs`, ParquetWriter.cpp:504). Without its condition on the batch size
  `JobsFitMemory` fails.
- A batch passes a mark and `fmt::print` throws: `OnRecordBatchDecoded` has
  counted the batch and has not enqueued it, so it is the one decoded batch that
  is never played (`PrintThrows`, Backplayer.cpp:128). `run()` throws, so its
  counts reach nobody. A progress line that cannot be printed thus ends the
  playback. No sentence of the documentation speaks of it.
- Character offsets are 32-bit: a batch of 2^31 rows or more has negative ones
  (`Offsets` in `BatchBuilder`, ParquetWriter.cpp:128). `RowsFaithful` fails for
  `BatchRows` at half the range of an offset, and is proved for all below it.

The wrapping peak and the offsets need batch sizes far above the default of 2^20.

## Not modelled

- The layout of DBN structs (checked by `static_assert`s), the name tables of
  `common.h`, `file_metadata` and `writer_properties`: formatting and library
  settings without control.
- Arrow, Parquet, zstd, the socket layer and `nlib` beyond what the code relies
  on: calls that succeed or fail, the contract of `ZSTD_decompressStream`, the
  parts of an IPC message. Delta dictionaries and other IPC messages are outside
  what the code handles.
- The text of the metadata (dataset, symbols, dates) and of `/proc/meminfo`: only
  sizes, counts and readings matter to the control.
- `peer_name` and the text of the other log lines; a print is a step that may
  throw, where it stands in the code.
- A second call of `run()`, which the thread contract excludes.
- Memory ordering below the level of single variables. `failed_` is an atomic
  with sequentially consistent operations and the queue synchronises its ends;
  under that the order of the two stores of a failure is what matters, and it is
  modelled.
- The order and recursion of the directory walk (it finds some number of files or
  throws), `ZMQServer` (empty) and the parsing of options.

## Plan

Done: every component that has state is modelled: the writer, the builders, the
parser and its metadata, the pool size, the conversion of a tree and of a file,
and the backplayer. Four abstract specifications (`RowSink`, `RecordSource`,
`Playback`, and `ConvertTree` for `ConvertFile`) are refined. All safety
properties and all refinements are proved, and the safety halves of the liveness
properties.

Left, should the tools allow it: the liveness properties themselves, from the
theorems that are there, and a measure for the whole of `convert_file()`, to which
`WorkEnds` and `WaitsEnd` contribute. When the code changes, the models to revisit
are the ones `PROJECT.json` maps to the lines concerned.

## Running

```
tlc -workers 2 -config ParquetWriter.cfg MCParquetWriter
tlapm ParquetWriterProofs.tla
```

`PROJECT.json` pairs each configuration with its module, says what is expected
of it, and maps each definition to the lines it models.
