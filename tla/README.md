# A TLA+ verification of tzip

`tzip` walks directories, reads, compresses and optionally encrypts every file
with a pipeline of threads, and writes one ZIP archive. This directory models
the parts of it in which an error would cost a user an entry, an archive or an
afternoon: the pipeline and its shutdown, the bulk readers that take files in
the order of the disk, the io_uring batch reader, the caches and windows of the raw
APFS reader, the walkers, how a file becomes an entry, the layout of the archive, and
how a run decides who walks and who reads.
TLC checks every module on small instances; TLAPS proves the central results for
any number of files, threads, channel slots and any sizes.

Paths below are relative to the repository's root (`src/` here is the crate's
`src/`). `PROJECT.json` maps each definition to the lines it translates.

## 1. The system

### Components, their state, operations and correctness

| Component (source) | State it keeps | Operations | What makes it correct |
|---|---|---|---|
| **Pipeline** `src/pipeline.rs` `run` | five bounded channels, thread handles, the writer's `pending` map and `next_idx` | walk or replay, bridge, read, encode, write, join | every file is written once; `Ok` means all of them; under `--sort` in name order; every run returns |
| **Bulk reader path** `src/pipeline.rs` 530-580, `read_bulk` of the sources | the drained feed, the chunk channel, per-reader chunk and window | drain, cut in `ceil(total / readers)` chunks, read a chunk | chunks cover the feed once; a file that cannot be found costs one entry |
| **Raw APFS source** `src/raw_apfs.rs` | pool of volumes, block cache, oid, inode and extent caches | `open_impl`, `resolve_oid`, `read`, `bulk_read_all`, `bulk_read_window`, `walk` | every byte comes from the right place on the device; a volume always comes back |
| **Linux extent order** `src/linux_raw.rs`, `src/fiemap.rs` | windows sorted by first physical block | probe, sort, read by io_uring or plainly | every file of a window goes out, those with no known layout too |
| **io_uring reader** `src/io_uring_src.rs` | submission and completion queue, `states`, `in_flight`, `done` | top up, submit and wait, reap, continue short reads, emit | emits every file complete and once, and ends; the kernel's buffers outlive its writes |
| **ZIP writer** `src/zipwriter.rs` | `pos`, list of central entries, the output | `write_entry`, `finish` | a reader finds every entry from the end and from the front |
| **Compression** `src/compress.rs` | a scratch buffer and compressor per worker | store, deflate, block-parallel deflate, LZMA and the others | a buffer's length stays within its capacity; the blocks of the parallel form are one DEFLATE stream |
| **Encryption** `src/crypto.rs` | salt and keys per entry | derive, encrypt, authenticate | salt, verifier, data and MAC lie where a reader expects them, and the MAC is of the data |
| **Walkers** `src/walker.rs`, `src/bulk_walker.rs`, `walk_dir` of `src/raw_apfs.rs` | directories still to list, the walk channel | roots, names, `glob_match`, DOS dates, `--sort` | every file asked for is listed once, under a name of its own, with its time |
| **Start of a run** `src/cli.rs`, `src/main.rs`, `auto_tune` and the head of `run` in `src/pipeline.rs` | the options, the raw source, the chosen walker and source | parse, refuse, tune, open, choose | what the user set stays as set; every path is looked for where the user means it; walker and reader fit |
| **TUI, progress** `src/tui.rs`, `src/progress.rs` | counters, a cancel flag, the terminal's mode | start, count, cancel, finish | the terminal is given back; cancel cancels |
| **Platform, dispatch_io** `src/platform.rs`, `src/dispatch_io.rs`, `src/dispatch_shim.c` | a buffer, an offset and a semaphore per read | `read_from_file`, mapping, `dispatch_io_read` in pieces | a read is the file or an error |
| **7z writer, diagnostics** `src/sevenz.rs`, `src/usb_info.rs`, `src/contention.rs` | none to speak of | a sequential loop; parsing the output of system tools | output only |
| **Vendored** `vendor/apfs`, `vendor/cmpfs` | B-tree readers | parse | external to these models |

### How they interact

```
 walker --walk channel--> bridge --feed--> readers --raw--> CPU workers --encoded--> writer (main thread)
 or: collect, sort ------> batch feeder --feed--^                                    --sort: pending map
 bulk source:  feed --> splitter --chunks--> chunk readers --raw--^
                                             volume pool, windows, extent runs / io_uring batches
```

All sharing between stages is by `crossbeam_channel`: a receive fails when the
channel is empty and its last sender is gone, a send fails when its last receiver
is. Shutdown is nothing but the order in which ends are dropped. The main thread
runs the writer loop, then joins feeder, readers and CPU workers in that order and
takes the first error as the result.

### What is hard

* **Shutdown after an error.** A thread that returns an error only drops its
  channel ends. Every other thread must come to an end from that alone, and the
  error must survive until the joins (`pipeline.rs` 399, 586, 700).
* **Order.** Workers finish in any order, bulk readers *read* in any order, and
  `--sort` promises one order and, with it, that no index is missing
  (`pipeline.rs` 559, 666; `raw_apfs.rs` 988).
* **A resource that is not given back.** The volume pool's own sender keeps it open
  (`raw_apfs.rs` 920).
* **Pieces.** A file's bytes arrive as extents in disk order, shared by clones,
  in runs coalesced over gaps, and the file must go out with its last piece
  (`raw_apfs.rs` 1205-1260).
* **Completions** in any order, short, empty, failed, while the batch is still
  being submitted (`io_uring_src.rs` 125-166).
* **Who reads what.** Platform, features, flags and probes decide in several places which
  walker lists and which source reads (`pipeline.rs` 135-518, 751-917).
* **Three numberings.** A window's files in walk order, in disk order, and as the jobs of an io_uring
  batch (`linux_raw.rs` 145-196).
* **Caches shared by walks and readers.** The oid cache is looked at under a lock and filled under
  another (`raw_apfs.rs` 600), inodes and extents come from a scan, a batch or a lookup, and the block
  cache below them evicts while others read (`raw_apfs.rs` 120).
* **Files that change.** A file is listed, read, hashed and packed at four different times
  (`pipeline.rs` 929), mapped or in pieces.
* **Names.** Three walkers name files each in its own way (`walker.rs` 164).
* **Sentinels.** A 32-bit field of all ones means "look in the ZIP64 record"; sizes,
  offsets and counts decide this separately in four places (`zipwriter.rs` 81, 175,
  224, 259).

The full list, at its lines, is `hazards` in `PROJECT.json`, with the property that
would catch each going wrong or the reason there is none yet.

## 2. Modules

| Module | Role |
|---|---|
| `ArchiveJob` | abstract: what a run promises, whatever threads carry it out |
| `Pipeline` | the per-file pipeline of `run`; implements `ArchiveJob` |
| `PipelineInvariant` | the inductive invariant `IInv`, in named parts |
| `PipelineProofs` | ten theorems about `Pipeline` |
| `BulkPipeline` | splitter, chunks, volume pool, windows, what reaches the writer |
| `BulkProofs` | its invariant and four theorems |
| `RawWindow` | one window of the raw reader: extents, runs, copies, sends |
| `RawCatalog` | what comes before it: the walks of the catalog, `resolve_oid`, the caches, phase 1 of a window; extends `RawWindow` and goes on with it |
| `RawCatalogProofs` | the caches, the answers about the catalog, the walks' account, and the window they lead to; extends `DataLemmas` |
| `IoUring` | `read_batch` and the kernel's half of the ring |
| `LinuxWindow` | one window of the Linux reader: probe, disk order, blocking or `IoUring`'s batch |
| `LinuxWindowProofs` | the batch by itself, the batch within a window, and what is sent under which index |
| `Startup` | from the command line to the reader threads |
| `Walk` | the three walkers, under what `Startup` has chosen; extends it |
| `WalkProofs` | the invariants of `Startup` and of `Walk`, and six properties of theirs; extends `DataLemmas` |
| `ZipWriter` | records of the archive and a reader of the format |
| `ZipWriterProofs` | its invariant and three theorems |
| `Encode` | from the file on disk to the entry: reading, CRC, packing, sealing; extends `ZipWriter` and calls it |
| `EncodeProofs` | its invariants, that it implements `ZipWriter`, and that contents come back; extends `ZipWriterProofs` and `DataLemmas` |
| `Ordered` | a set as the sequence that an order puts it in, for the sorts of the code |
| `DataLemmas` | lemmas the proofs share: least elements, sums over finite sets, sorted sequences, prefixes and pieces of a sequence, how often a sequence has something |
| `MC*` | extend the above for TLC; values are in the `.cfg` files |

### Correspondence with the code

**Pipeline.** One action per thing a thread can do between two blocking points.
`walker`, `feeder`, `reader[r]`, `cpu[c]` and `main` are program counters, named for
the call the thread is at (`"recv"`, `"send"`, `"join"`) or how its closure ended
(`"done"`, `"failed"`, `"panicked"`). `wchan`, `feed`, `raw`, `enc` are the channels;
who still holds an end follows from the program counters (`FeedClosed`,
`ReadersGone`, `WorkersGone`), as it does in the code, where ends are dropped
when closures return. A message is the walk index of its file; `found` says which
file that is. An item stays with its thread (`feedItem`, `readItem`, `cpuItem`) until
it is handed on, also when the send fails, so nothing disappears from the model
unless the code drops it, and a property can say who dropped it. `Faults` is the set of
things that may go wrong in a run: walk, read, encode and write errors, and panics
in a build that unwinds (release builds abort, `Cargo.toml`).

**BulkPipeline.** The path taken when a source that reorders is active (`use_bulk`). The
splitter drains the feed and cuts it, a chunk reader takes a chunk and a volume,
opens windows, and sends a window's files in any order. The CPU pool and the writer
loop, which this path leaves as they are, are one consumer. `opened` is the number of
volumes `open_impl` could open. Options and failures that last a run are chosen in
`Init`. The window's inside is `RawWindow`.

**RawWindow.** `bulk_read_window` for one window: `Prepare` is phases 1 and the sort,
`StartRun`, `ExtendTouching`, `ExtendOverGap` are the inner loop that builds a run,
`ReadRun` the aligned read of a run, here straight from the device (`AlignedRawReader` and its block
cache are in `RawCatalog`, which the reads of the catalog go through there), `CopyTask` one turn of the copying loop with the
send it may end in, and `Rest...` phase 3. The content of a place on the device is its
address, so a byte that comes from anywhere else shows.

**RawCatalog.** Three threads: a walk for each of two roots (`walk_root`, `walk_dir`), and then the
reader of a window (phase 1 of `bulk_read_window`). Each keeps the place in its function (`pc`, and
`ret` for a call of the parser), so that between two lock acquisitions anybody may run.
`DirectHit`, `ParentHit`, `ParentOpened`, `ParentListed` and `LookedUp` are the five times
`resolve_oid` takes the lock of the oid cache. A call of the parser reads one block through
`AlignedRawReader` (`CacheGet`, `DeviceRead`, and `CachePut` for each block read ahead). The parser is external: block *o* answers
what is asked about oid *o* or about the data stream *o*. An inode names its stream by `private_id`, a number of its own: streams and oids are numbered
apart in the instance, and clones have one stream together. A slot is stamped with the inode's time; the stamp of `item.size`, which
nothing reads any more at that point, is left out. Batches succeed or are skipped (`batched`), and an inode or extent list
comes from whichever of scan, batch and lookup the code prefers. A found window is `RawWindow`'s `entry`.
The run also starts from any window at all (`AnyWindow`), so `RawWindow` is checked on layouts that no catalog of the instance has.

**Walk.** Goes on from a `Startup` state at `"running"`. A name is a sequence of bytes, a path one of names;
trees have files, directories, links and others (`IsTree`: a link is what it leads to in the end). `StartWalk` puts the run onto a tree, `Enter...` takes the next
root, `List...` lists one directory as `walk_stream`, `walk_recursive` or `walk_dir` does, `EndWalk` is the
sort and the refusal of an empty list. A directory that cannot be read ends the bulk and the raw walk with an error (`ListFails`). In the "vfs" walk it comes
from jwalk as an entry like any other, with the error in its `read_children_error`, at which `walk_stream` does not look: the walk goes on without what is below
(`VfsUnread`). The raw walker takes a root that does not open for a file, or passes over it (`EnterRawUnread`). What was passed over is kept in `unread`, a variable of the
model, and `MaxUnread` bounds how many there are. `PlainRun` is a bound too: runs that differ only in what the walk does
not see are walked once (no `--jobs`, the default number of readers and of buffers, a build without io_uring, archive and roots on the host's own medium).

**Encode.** One worker's files from first to last: `ReadMapped`, or `ReadSome` and `ReadsEof`
(`read_to_end`), or `GcdCalls` (the handler of `dispatch_io_read`); `TakeCrc`; `Pack...`, `MakeRoom`, or
`StartParts`, `PartRound` and `ConcatParts` (`compress_parallel_deflate`); then `Frame` and
`WriteEntry` of `ZipWriter`. Between any two, `FileChanges` lets another program write to a file. A byte of content is the
version of the file it was read from, so bytes of two versions do not pass for one another, and what a mapping
shows is what the file has at that moment. What one read returns and what a codec makes of its
input are sets the configuration gives (`ReadLens`, `DeflateLens`, `OtherLens`, `PartLens`); the theorems are for any such sets, of which the actions take what the
interface allows.

**IoUring.** The loop of `read_batch` with its counters and the two directions of
the ring; kernel actions continue after the function has returned.

**LinuxWindow.** Extends `IoUring` and calls it (`StartBatch` is its `Call`, `BatchStep` a step of
its loop with `emit`, `BatchReturns` its return); `order` is the sorted `entries`, `jobs` the pair
of `jobs` and `job_to_entry`. Which files open, where FIEMAP says they are, and how long they have
become are choices of `Probe` and `WindowInit`. What is sent is recorded as the index it goes
out under, the file its bytes are of, and how many they are.

**Startup.** `cmd` is what clap accepts on a `build`, `opts` is `Options`, and the stages are
`into_options`, `auto_tune`, the opening of the raw source, the choice of the walker and of the
reader. A path is modelled by the medium the host finds it on.

**ZipWriter.** Each record with its fields at the width they are written with
and the number of bytes it takes. Properties read the archive as a ZIP reader does, from the
fields alone. It is run through `Encode`. A write error ends the run (`WriteFails` of `Pipeline`), so only
finished archives are read.

Each module with defects (a section of its own, or a definition marked as such) has
them only for the pairs in `PROJECT.json`: replacing a definition by its defect
must make the paired property fail. No specification uses them.

## 3. What the runs check

| Run | Instance | Shows |
|---|---|---|
| `pipeline_sort` | `--sort`, 4 files, 2 readers, 2 workers, all errors | ends; an error becomes the exit status (`FailureIsReported`); the archive is always a prefix of the sorted list; no index is lost or repeated; implements `ArchiveJob` |
| `pipeline_faults` | streaming, 4 files, 1 reader, 2 workers, all errors and unwinding panics | `Ok` without a panic is never returned over an incomplete archive; `Ok` over a panic loses no more than the panicking threads had in hand, as long as a reader and a worker survive (`OkLosesOnlyDropped`); **a run that does not end is in the end stuck in the bridge's join** (`HangsOnlyInBridgeJoin`); `IInv` |
| `pipeline_hang` | streaming, reads may fail | *violation* of `Terminates` (finding 1) |
| `bulk` | up to 5 files, 2 readers, 1 or 2 volumes, windows of 2, with and without `--sort`, lookups, reads and encoders may fail | nothing is lost or repeated by chunks and windows; volumes are accounted for; what `Ok` means; a run with a volume per reader ends, with the reader's error; **every hang is a wait for a lost volume** |
| `bulk_gap` | the same, lookups may fail | *violation* of `GapCostsOneEntry` (finding 3) |
| `bulk_hang` | the same, reads may fail | *violation* of `Terminates` (finding 4) |
| `raw_catalog` | catalogs of two directories and two files (with each other's numbers for their streams, or clones) or two links to one, 2 walks, 1 reader, 2 shards of one block, reads of 2 blocks, one failed read; and any window of 2 files of at most 2 blocks of 2 cells on a device of 5 blocks, runs of 3 blocks, gaps of 1 | map and queue of every shard agree; a cached oid is its path's; the walks list every file once for each root; the window has each file as the catalog does, its time included, whichever cache it came from; what is sent is the file, once, when its last extent is copied; the counter never wraps |
| `linux_window` | a window of 3 files of 0 or 3 blocks, reads of at most 2, ring of 2, blocking and io_uring; files gone, shrunk, refused by open; reads, enters and emits that fail | the counters end the batch exactly when everything was emitted; the queue never overflows (`CountersAgree`); reads stay in their buffers; every file goes out once, under its own index, with its own bytes; it returns |
| `io_uring_drop` | 2 files, one read fails | *violation* of `BufferLivesUntilCompletion` (finding 5) |
| `encode` | up to 2 files of 0, 5 or 36 bytes, mapped from 6, in chunks of 12 from 36; all methods, password, dispatch_io, `--sort`; one write by others to each; sentinels 36 and 2 | a reader of the format finds every entry from both ends and accepts it, whatever was written to the file meanwhile, but for mapped files (`ChangedWhileMapped`) and chunks without room (`OutOfRoom`); a file nobody wrote to comes out byte for byte, but for the latter; `set_len` stays within the capacity |
| `walk` | all builds, flags, up to 2 paths on 3 media, all outcomes of probes; then trees with links, special files, backslashes and bytes that are not UTF-8, 8 ways to give a root, two globs, `--basename-only`, 225 times, and up to two directories or roots that cannot be read | user flags win; walker and reader fit; paths are looked for where they are meant, but in two cases; every file asked for is listed once, but for what is below something the walk could not read, and nothing else; names are distinct, with five exceptions the property names; times survive to two seconds |
| `startup_roots` | all builds, flags, paths, probes | *violation* of `RootsWalkedWhereMeant` (finding 2) |

`CHECK_DEADLOCK FALSE` is set only in runs in which the system does stop: the hangs
are stated as properties (`HangsOnlyInBridgeJoin`, `HangsOnlyForVolumes`) that say
what a stopped run looks like.

### Bounds, and why they are enough

* Channels have capacity 1 in the runs, the source at least 2 (and 64 for the walk).
  Less room gives more blocking, so every wait occurs with few files: three
  to five are more than the pipeline can hold, which is what makes the walker block.
  The proofs are for all capacities.
* Two readers and two workers give every kind of overtaking that `--sort` repairs. Under all faults at once, panics included, `pipeline_faults` has one reader and two
  workers: one of the workers can panic while the other survives, which is what `OkLosesOnlyDropped` is about, and four files still are more than the pipeline can hold
  when the reader ends. A second reader would add nothing a second worker does not show, as the two pools have one shape; the proofs are for any number of both. `MaxFiles = 5` with two
  readers gives the feed chunks of 3 and 2, and chunks longer than a window.
* Three files in `linux_window`'s window are every case of jobs overtaking each other, of a job number
  that is not the entry number, and of a sort that changes the order; a file of three blocks needs a
  continuation however the kernel answers, and the ring is smaller than the window.
* `walk` and `startup_roots` take `--jobs` 9, `--read-jobs` 0 (refused), 5, absent or `auto`. The trees have a file beside a
  directory of its name, and a directory inside itself by name, which is where prefixes get lost; a link to a directory whose name on the volume is a directory of its own; the times are the ends of the
  format to the second, 29 February 2100 and its neighbours, and one day in 217, which meets every month.
* `raw_catalog` enumerates *every* set of extents two files can have on the device
  that do not cover one part of a file twice: shared, nested and touching extents,
  gaps of one block and more, holes and extents past the end. Five blocks are one more
  than a run with its gap can hold. Shards of one block make every second put an eviction. Two links and two clones take one list of extents twice.
* `encode`'s sentinels are small so that sizes, the offset of a header, the start and the
  length of the directory and the number of entries fall below, at and above them.
  The field widths follow the sentinels (`U32(x) = x % (Max32 + 1)`). A sentinel of 36 is less than one directory record,
  so here the size of the directory always asks for the ZIP64 end record when the number of entries or the offset does: that each of these triggers it alone is not shown by the run, but by
  `ArchiveReadsBack`, for any sentinels. A file of 36 is three chunks; a chunk may need a second
  round; two files one after another are what a scratch buffer can get wrong.
* Everything else is finite by construction. The named bounds for TLC are `MaxFiles`,
  `MaxEntries`, `MaxChanges`, `MaxBlocks`, `DiskBlocks`, `MaxFaults`, `MaxUnread`, `MaxJobs`, `MaxRoots` and
  `PlainRun`; none stands for a limit of the code.

### Fairness

Weak fairness of each thread (`WalkerStep`, `FeederStep`, each `ReaderStep(r)` and
`CpuStep(c)`, `MainStep`; in the other modules likewise): the operating system
runs what can run, and a blocked send or receive is disabled, not starved.
Nothing is assumed of *who* gets an item when several readers wait, and failures are
never fair: they may happen, and need not. The kernel's fairness in `LinuxWindow` is that an accepted read
completes some time. Reads always return some time; a disk that never answers is not modelled.

## 4. What is proved

`PipelineProofs` (assumption: only `PipelineAssumption`, the types of the constants, and
what a theorem states itself):

| Theorem | Says |
|---|---|
| `TypeCorrect` | types of the variables and capacities of the channels |
| `InductiveInvariant` | `Spec => []IInv` |
| `IndicesInOnePlace` | every index is in exactly one thread, channel, map or archive slot |
| `CompleteWhenOk` | with a CPU worker, `Ok` without a panic means a complete archive, each file once |
| `NoFailureWhenOk` | `Ok` is never returned over a thread that returned an error |
| `ArchiveIsSortedPrefix` | `--sort`: the archive is always a prefix of the sorted list |
| `SurvivorsFinish` | if a reader and a worker lived to see their channels closed, `Ok` leaves out exactly what the panicking threads had in hand, and under `--sort` what comes after it |
| `ReceiverOutlivesWalker` | the bridge is gone only after the walker |
| `WaitsOnlyInBridgeJoin` | where no thread has a step left, `run` streams, a thread failed, and the bridge joins a walker that waits for room |
| `Refinement` | with a worker and no unwinding, `Pipeline` implements `ArchiveJob` |

The argument. That an `Ok` archive is complete is not inductive: it depends on *why*
each thread ended. `IInv` records that. `EachIndexInOnePlace` partitions the indices
given out over the eight places that can hold one, and every step moves an index
from one place to the next. `FeederHands`, `ReaderHands` and `CpuHands` say which
thread states go with an item in hand, and that a thread which ended *without* one saw
its input channel closed and empty, while one that ended *with* one had its send refused,
which takes a later thread that ended early (`Trouble`: a reader or worker failed or panicked,
or there is no worker at all). `WalkAccount` says that what was walked was indexed or
waits in the walk channel. `JoinedWell` carries the outcome through the joins: a
joined thread ended without an error. Put together: at `"ok"` every thread has ended, none
failed and none panicked, so nobody has an item in hand, every channel is
empty, and the partition leaves the archive as the only place for an index.

`CpuJobs # 0` is needed: without it (`-j 0`, which `cli.rs` 245 accepts) the theorem is
false: every reader's send fails, and the run reports success over an empty archive. The refinement needs that no panic unwinds for the same reason: the joins
pass over a panic (`pipeline.rs` 700), so the abstract `Succeed` would not be allowed.

`SurvivorsFinish` is about the same accounts where a panic is passed over. A survivor ended because its channel was closed and empty, and with one in each pool nobody's send was refused: every
file was given an index, and an index that is not archived is in the hands of a thread that panicked, or behind such a gap in the writer's map. Without a survivor, or without a worker at all, it says
nothing: a refused send may have dropped any number.

`WaitsOnlyInBridgeJoin` is the safety half of `HangsOnlyInBridgeJoin`. `StandsStill` writes out the guards of every thread's steps, those of `Fault`
left out, because `ENABLED` is not for the prover: on the instances of `pipeline_faults` and `pipeline_sort` each is what `ENABLED` says of the thread's step. The proof goes from the
writer to the walker: a thread that cannot go on waits for one before it, whose channel is empty, up to the feeder. The feeder
has room then, so it can only be at the join; it got there with its item in hand, after every reader had gone (`DropsWhenGone`, which
`IInv` does not have and the proof adds).

`ZipWriterProofs` (assumption: `ZipAssumption`; sentinels, lengths and sizes are arbitrary):

| Theorem | Says |
|---|---|
| `ZipInvariant` | local headers, then directory, then end records, each where the one before ends |
| `ArchiveReadsBack` | from the end of a finished archive a reader finds every entry and its header |
| `ArchiveStreamsBack` | from the front it goes from header to header to the directory |

The argument: `pos` is what has been written; record *k* starts where record *k-1* ends; and
a field read back is the value written, because a value that does not fit its
field is always replaced by the sentinel and put into the ZIP64 record at the place where
the reader, counting sentinels, looks. `ZipAssumption` has names of at
most 65535 bytes: the writer does not check that (see the hazards).

`EncodeProofs` (assumptions: `EncodeAssumption` and `ZipAssumption`; any lengths of files, reads and packed data, thresholds, slacks and number of changes):

| Theorem | Says |
|---|---|
| `EncodeInvariant` | what is read, packed, allocated and written fits together at every step |
| `SetLenIsCovered` | `compress` never sets its buffer's length beyond its capacity |
| `EncodeWritesArchives` | `Encode` implements `ZipWriter`, if that takes bodies and sizes of any length |
| `EncodedReadsBack`, `EncodedStreamsBack` | and so what it writes is found from both ends |
| `ContentInvariant` | `Spec => []ContentIInv`: what read, CRC and pack hold of the file at every step |
| `EncodedIsAccepted` | a reader accepts every entry: its CRC is of the bytes that were packed, unless the file was mapped and written to, or a chunk had no room |
| `UnchangedComesBack` | a file nobody wrote to comes out byte for byte, whatever the method and however many rounds it took, unless a chunk had no room |

The argument: every length a codec, a cipher or a read adds is a natural number, so what `WriteEncoded` hands over is
an `Entry`, and every other step leaves the archive's variables alone. `SetLenIsCovered` rests on `scratch = 0`: `mem::take`
leaves an empty vector, and nothing is ever put back, so `reserve(bound - capacity)` reserves the whole
bound. With a capacity left over it would not: `reserve` counts from the length, not from the capacity (the defect `ScratchKept`
shows it).

For the contents, `Input` is what the buffer or the mapping has now, and the step from `read` to the entry is settled when that can no longer change: the
bytes are in a buffer of the worker's, or mapped from a file nobody has written to. What is read of an untouched file is exact (`ReadIsExact`);
each chunk is packed whole in the first round that has room for it (`PartsAreExact`); the chunks cut the file (`Cuts` of `DataLemmas`), so the
concatenation of the parts is the file again (`PackIsExact`). CRC and packed bytes both equal `Input`, each at its own time, and `Settled` says
that `Input` was the same at both. `EncodeAssumption` has `MmapThreshold <= ParallelFrom` (1 MiB, `platform.rs` 117; 8 MiB, `compress.rs` 104), which the
proof needs: a file that is packed in parts is mapped, so it has the length by which it was cut. Were it read in pieces, a file emptied after the
walk would give no chunk.

`WalkProofs` (assumptions: `StartupAssumption`, `WalkAssumption`; any number of paths, any trees, links, names, globs and times):

| Theorem | Says |
|---|---|
| `StartupInvariant` | `Spec => []IInv` |
| `FlagsAreNotOverridden` | `auto_tune` changes no option the user gave |
| `RootsAreWalkedThere` | each path is looked for in the file system it names, but for the cases of finding 2 |
| `RawReadsRaw` | the raw walker runs if and only if the raw source reads |
| `WalkInvariant` | `WalkSpec => [](IInv /\ WInv)` |
| `ListedIsAsked` | a walk that succeeds has listed every file asked for once, but for those below a directory ("vfs") or root (raw) that it could not read, and nothing else but such a raw root |
| `NamesTellFilesApart` | two entries share a name only for a reason that `NamesAreDistinct` gives |
| `TimesAreTheFiles` | from 1980 to 2107, date and time of an item are its file's, to two seconds |

The argument for `Startup`: `opts.user` is what was given (`FlagsKept`), and walker and reader, which two steps choose, follow from a
source opened in a third that nothing changes in between (`SourceFits`, `Chosen`).

For `Walk`, `WInv` says where every file asked for is *during* a walk, which the properties, stated at its end, do not. For a root that is entered it is in the
list once, or below exactly one directory that waits, or below one that was passed over unread (`Kept`; no waiting directory is below another), and a waiting directory has
the prefix that its path gives it. To list a directory moves its files to the list and its directories among those
that wait; what is below it is below one of these, or is one of these files. To pass over one takes what is below it out of what is
still to be sent, and nothing else: `Fits` has the two together make up what was asked for, and `Excused` says which walker may pass over what. At the end nothing waits. The invariant was checked by TLC on the
`walk` instance before it was proved.

That names tell files apart is about how they are put together. A name is the root as typed, without the slashes around it, then the names below the root, with slashes between. `Spelled` takes
such a text apart again (`SpelledJoined`, `SpelledItem`), so under one root equal names are equal paths below it, unless a name lost something on the way (`Lossy`, backslashes). Under two absolute roots the
typed text leads to the root's path, so equal names are equal paths again; it does not for a relative root, nor for a link given to the raw walker.

The times are arithmetic on one day: `YearOfEra` finds the year whose days contain it (`YearIs`, for the two eras that 1970 to 2107 touch), the month
follows from the day of the year, and `DaysOf` takes the three fields back to the day.

`WalkAssumption` says what a file system and a command line can hold: names have bytes but no slash, everything but the root is in a directory, a link does not lead
to a link, an absolute path is spelled by its text. `PlainRun` is part of `StartWalk`, so the three theorems about walks are of plain runs: one medium,
and no option that the walkers do not read.

`BulkProofs` (assumption: `BulkAssumption`; any number of files, readers and volumes, windows of any size):

| Theorem | Says |
|---|---|
| `BulkInvariant` | `Spec => []BulkIInv` |
| `BulkOnlyOnce` | no index is in two places, or twice in one |
| `VolumesAreAccounted` | a volume is in the pool, with a reader, or went with a failed read |
| `OkShipsAllFound` | `Ok` means every file found, and under `--sort` exactly those before the first lost one |
| `WaitsOnlyForVolumes` | where no thread has a step left, every volume went with a failed read and a reader waits for one |

The argument: the chunks cut so far are `1..Cut` (`Cut = min(cuts * Per, total)`), each new one goes on where the last
ended, and a step moves an index between a reader, the chunks, the dropped ones, the raw channel, the held back entries and the archive; none
goes missing until the consumer has failed (`Inside`, `Covered`), and in that case the run's result is an error. `Flow` says what a thread's state
goes with: a reader that is done saw an empty channel behind a splitter that was done, so at `"ok"` the
readers hold nothing and everything was cut. That everything was cut is `PerIsEnough`: `n * ceil(t / n) >= t`. Under `--sort` the archive is
`1..n`, index *n+1* is neither held back nor archived, so it was dropped or does not exist.

`WaitsOnlyForVolumes` has the conclusion of `HangsOnlyForVolumes` (`VolumesAreGone`) and, as in `PipelineProofs`, the guards of the steps for `~ENABLED Step`. The consumer rests only
when the raw channel is empty, the readers then rest only at the pool, and `VolumesAccounted` says where the volumes are that are not in it.

`LinuxWindowProofs` (assumptions: those of the two modules; any number and lengths of jobs, any ring, any split of the kernel's answers,
and in a window any disk order, files missing, changed or unopened):

| Theorem | Says |
|---|---|
| `BatchInvariant`, `WindowInvariant` | the two invariants below |
| `CountersAreExact`, `WindowCountersAreExact` | the loop's counters end it when everything was emitted, and the queue has room |
| `ReadsAreInside`, `WindowReadsAreInside` | no read reaches past its buffer |
| `OkIsComplete`, `WindowOkIsComplete` | a batch that ended well has emitted every job, whole and once |
| `IndexKeepsItsBytes` | what is sent under an index are the bytes of that index's file |
| `WindowIsSentWhole` | a window that ended well has sent every file of its that opened, those with no known layout too |

The argument: a job is in one place at most (`OnceEach`, `Apart`: submission queue, kernel, completion queue), `in_flight` is the
cardinality of what is out and `next` that of what was ever submitted (`Counted`); what is asked and what is answered fits what
the buffer has left (`Fits`), and a job is emitted if and only if it is marked done (`Handed`). A window adds that a
job keeps its entry, its file and the length it was listed with, from the sorted order to the callback (`JobsSound`, `SentSound`). That
nothing is left out rests on `order` having every entry once, which is what a sorted order of a finite set does (`InOrderHasAll` of `DataLemmas`).

`RawCatalogProofs` (assumptions: `CatalogAssumption`, `WindowAssumption`; any catalog that is a volume in order, any number and size of shards, read-ahead, any
device, windows of any number of files with any extents):

| Theorem | Says |
|---|---|
| `CacheInvariant` | `RawSpec => []ShardsSound` |
| `ShardsAlwaysAgree` | map and queue of each shard hold the same blocks, within the capacity |
| `OidsAlwaysAnswer` | a cached oid is its path's |
| `WindowIsTheCatalogs` | the window has each file as the catalog does (kind, size, time, extents), whichever of scan, batch, lookup and cache it came from |
| `RawIsInvariant` | `RawSpec => []RawInvariant`: threads, caches and window together |
| `WalksAreCounted` | `RawSpec => []WalkInvariant`: what each walk has sent, and what it has still before it |
| `RootsAreListedOnce` | without a failed read the walks have sent each file once per root above it, and nothing else |
| `RemainingIsExact` | a slot's `remaining` is what of its file is not yet copied, so it never wraps |
| `FilesAreSentWhole` | what is sent is the file, as its extents have it |
| `FilesAreSentOnce` | no file is sent twice, and at the end every file of the window was sent |

The arguments. The queue of a shard has every offset once. So an evicted one leaves no second entry behind, which would later evict
a block the map has again; and the capacity counts what the map has.

For the catalog, a call of the parser reads one block and answers what that block says, so a thread that waits for an answer waits for a value that the catalog
already fixes (`AnswerFits`); what it may put into a cache is that value or nothing. Paths, inodes and extents in the caches then equal the catalog's whoever put
them there, and no order of the threads matters. That a path has one oid is `OidOfChild`: the descent of a path is the descent of its parent and one
step more.

For the walks, a path is still to come (`ToCome`) for a walk that looks for its root, or that has a directory on its stack that is the path or above it; no
directory on a stack is below another (`StackFits`). `Passes` is 1 for a path under the root that is not still to come and 0 for any other, and each file
has been sent as often as the two walks have passed it (`FilesCounted`). To list a directory takes it off the stack, sends its files and puts its
directories on: of all the paths below it exactly those files are passed, because only directories have anything below them (`DirsAreAbove`). This is counted while no read has
failed, as a failed read ends a walk and with it the run; `ReaderRests` says that the reader's thread works while the phase is still `"catalog"`, so at its start the account of the walks
holds.

For the window, the tasks are the extents of the found files in the order of the disk, each once; a run spans the tasks in it, also over gaps
and inside a longer extent; a cell of a slot has its place's content if and only if its task was copied; `remaining` is the sum of the lengths not yet copied, and a
slot is sent exactly when that sum has become 0, or in phase 3. `remaining` can therefore not pass 0 while a task is left, and no two ways lead to a send.

`DataLemmas` (no assumption) is what those proofs share. Induction over data is out of reach (the library's theorems take an operator as a parameter), but a least
counterexample is not: a nonempty set of numbers has a least element, and a nonempty family of subsets of a finite set a minimal one. From these two follow that a sum over a
finite set loses an element's weight when it loses the element, that a finite set has a sorted order, that `SetToSeq` has every element once, and that
the pieces of a cut put together are what was cut. How often a sequence has an element (`Times`) adds up over concatenation. A set
of sequences that has the empty one, and with each all that are longer by one, has all (`SeqInduct`): induction, with a set in the place of the property.

**Only model-checked.** Liveness (`Terminates`, `FailureIsReported`, `HangsOnlyInBridgeJoin`,
`TerminatesWithEnoughVolumes`, `ReadErrorIsReported`, `WindowEnds`) and `HangsOnlyForVolumes`,
which uses `ENABLED`, are outside what the prover handles. Of the two statements about hangs the safety half is proved, with guards in the place of `ENABLED`
(`WaitsOnlyInBridgeJoin`, `WaitsOnlyForVolumes`); that the guards are those of the actions is for the reader, and for TLC, to compare. Every other property that a passing run checks is also a theorem.

## 5. Findings

1. **A failed read can hang a streaming run** (`pipeline.rs` 399). The bridge joins
   the walker while it still owns the receiver the walker waits on.
2. **`--apfs-device` with a `.7z` archive reads the host** (`pipeline.rs` 135): the solid branch
   comes before the device and takes its in-volume paths for host paths.
   `RootsWalkedWhereMeantBut` names a second case: a raw mount beside a path on another mount, which
   the raw walker passes over without an error (`raw_apfs.rs` 720).
3. **One lost file under `--sort` with a raw source discards every later entry**
   and reports success (`raw_apfs.rs` 988, `pipeline.rs` 666).
4. **A failed device read can hang the bulk readers** if there are fewer volumes than
   readers (`raw_apfs.rs` 928).
5. **`read_batch` frees buffers the kernel may still write to** when it returns early
   (`io_uring_src.rs` 140), against its own safety comment.

Each is a run in which TLC shows the behaviour; `PROJECT.json` quotes the line it contradicts.

What the models also show, without a run that fails:

* `--exclude` is "matched against the archive path" (`README.md` 169); the bulk and the raw walker also hold it against
  the bare name (`bulk_walker.rs` 208, `raw_apfs.rs` 828). `ListsWhatWasAsked` states both.
* The raw walker lists links and special files (`raw_apfs.rs` 778), the other two pass over them (`walker.rs` 131 by `is_file`, `bulk_walker.rs` 228 "symlinks: skip"). `README.md` 686-692 says that a symbolic link "is archived as a *regular
  file whose contents are the link target path*": that holds of the raw walker only. `ListsWhatWasAsked` takes no side: it asks for files, and allows links and special files.
* A directory that the "vfs" walker cannot read is left out with all below it, and the run reports success (`walker.rs` 129); the bulk and the raw walker end with an error.
* The raw walker goes on with `Ok` over a
  root it does not find (720), a root it cannot find on the host is looked for from the volume's top (690), and it takes a directory it cannot open for a file, which then is archived without bytes (699, 715).
* The paths of `--apfs-device` are canonicalized on the *host* before they are looked for on the device (`raw_apfs.rs` 690): a link
  on the host of that name leads elsewhere.
* Two files get one archive name under `--basename-only`, when a relative and an absolute root meet, when the raw walker is given a link as a root and the link itself
  lies under another (it archives the link as well), when names differ
  only in bytes that are not UTF-8, and, in the "vfs" walker alone, when one has a backslash where the other has a slash (`walker.rs` 165).
* Directory items of the bulk walker carry the DOS epoch (`bulk_walker.rs` 190); dates after 2107 wrap around (`walker.rs` 230).
* A mapped file that changes between CRC and packing makes an entry a reader rejects (`pipeline.rs` 929), and one cut short kills the run.
* Parallel DEFLATE never runs in streaming mode: the totals it asks for are 0 then (`pipeline.rs` 282, 610).

## 6. Not modelled, and why

* The codecs, PBKDF2, AES and HMAC, the APFS and cmpfs parsers: third-party, and functions
  of their input.
* The `getattrlistbulk` and `FIEMAP` buffers, `usb_info`, `contention` and most of `platform`: system
  calls and their decoding. What they answer is a choice where a model depends on it (`FirstOffset`
  of `LinuxWindow`, the probes of `Startup`).
* The 7z writer: one loop over one library. The TUI and progress: drawing and counters; `q` sets a flag nothing
  reads, and what an error return leaves of the terminal is the terminal's state.
* `Source::read` of the raw source, which nothing in the pipeline calls while it has `read_bulk`; statistics.
* A disk that never answers, a volume that changes while it is read raw (so `OidsAnswerTheirPaths` is about keys and answers, not about age), and running out of memory.
* A chunk of parallel DEFLATE whose output exceeds its first room: its loop may then drop output (`compress.rs` 141), and only a
  model of zlib could say that this does not happen. `OutOfRoom` leaves such entries out of the properties, so they say nothing of this hazard.
* What a reader is promised of a mapped file that changes: the model has both outcomes (an entry with the CRC of other bytes, a run killed), `ChangedWhileMapped` leaves them out of the
  properties, and they are listed above.
* The block cache under the reads of a window's runs: `ReadRun` has the device answer. (`RawCatalog` has the cache, for the reads of the catalog.)
* The stamp of `item.size` of a raw item (`raw_apfs.rs` 1106, "accurate progress + preallocation"): no reader, worker or writer looks at it afterwards.
* A panic that unwinds where a whole pool is lost to it: `OkMeansComplete` is of runs without a panic, `OkLosesOnlyDropped` of those with survivors.
* In the raw window: what an extent with physical block 0 means (it is read as it stands), and files with a size and no extents,
  which are sent empty (`raw_apfs.rs` 1288); `ShippedIsComplete` says nothing of them.
* An archive that lies under one of its roots (`pipeline.rs` 299).

## 7. Plan

1. `Pipeline`, `PipelineInvariant`, `ArchiveJob`: runs, invariant, refinement, proofs. *Done.*
2. `BulkPipeline`: the bulk path. *Done, with proofs.*
3. `IoUring`, `LinuxWindow`. *Done, with proofs.*
4. `ZipWriter`, and `Encode` composed with it. *Done, with proofs.*
5. `Startup`, and `Walk` composed with it. *Done, with proofs.*
6. `RawWindow`, and `RawCatalog` composed with it. *Done, with proofs.*
7. Still worth having: a model of the parsing of the `getattrlistbulk` buffer.
