# Micius storage engine: a TLA+ model

Micius is a time-series storage engine: a gRPC server that logs points in a
sharded write-ahead log, collects them in memtables, flushes these to columnar
chunk files, keeps an index of the chunks in memory, saves that index from time
to time, merges chunks, and recovers from a crash. This directory models its
durability pipeline, its WAL, its chunk store, the saving of its index and the
way from a series key to the cells of a chunk file and back. TLC checks small
instances; TLAPS proves the main safety results for every instance.

## The system

```
 Append ──► WAL task of shard i ──► memtable i ──► sweep: chunk file ──► ChunkIndex ──► .tmp ──► snapshot file
            (segment files)                          │                      ▲   │
                 ▲                                   └─ watermark, WAL GC    │   └─ Query (memtable, index, files)
                 └── open(): snapshot + replay                       Compaction
```

| part | source (`src/storage-engine/src/`) | module | status |
|---|---|---|---|
| Append handler | `server/mod.rs` | StorageServer | modelled |
| WAL group commit | `wal/group_commit.rs` | GroupCommit, StorageServer (coarser) | modelled |
| WAL writer | `wal/writer.rs` | GroupCommit, StorageServer | all but the bytes of a frame |
| recovery, `open` | `wal/recovery.rs`, `server/mod.rs` | StorageServer, GroupCommit | modelled |
| memtable | `memtable/mod.rs` | SeriesStore, ChunkStore, StorageServer | modelled |
| sweep, WAL GC | `server/mod.rs` | StorageServer, ChunkStore, IndexSnapshot | modelled |
| index snapshot | `index/persistence.rs`, `server/mod.rs` | IndexSnapshot, StorageServer, SeriesStore | modelled |
| chunk index | `index/chunk_index.rs` | ChunkStore, SeriesStore | modelled |
| compaction | `compaction/mod.rs` | ChunkStore, SeriesStore | modelled |
| query | `server/mod.rs` | ChunkStore, SeriesStore | all but the client's side |
| chunk files | `chunk/*.rs` | ChunkFile, ChunkStore | modelled |
| types, series keys | `types.rs` | SeriesKeys, SeriesStore | modelled |
| config, metrics, wire types, load generator | | | not modelled |

What the parts share, and where they can hurt each other, is listed as hazards
in `PROJECT.json`, each with the line where it bites.

## Modules

**StorageServer** is the core. A request is one Append RPC; the group of points
it sends to a shard is represented by the request itself wherever the points are:
in a WAL frame, in a memtable, in a registered chunk. Its tasks are the Append
handlers (`Append`, `AppendLogged`, `AppendFail`, `AppendInsert`, `AppendReply`),
one WAL task per shard (`WalWrite`, `WalSync`, `WalFail`, `WalRotate`), the sweep
(`Sweep...`, one action per await point: drain, write, register, watermark, load
of the GC bound, drain of segments, deletions), the snapshots (`Snap...`; the
ticker and the RPC run the same steps, concurrently), `Crash`, and
`StorageServer::open` (`Open...`, one step per shard and per deleted file, so
that it may crash half way). Variables have the names of the fields they stand
for. `segments` and `frames` are the WAL files on disk, `snap_watermarks` and
`snap_indexed` the snapshot file; they survive a crash, all else is lost.
Four variables only observe: `open_watermark`, and the sets `overtaken`,
`reused` and `dropped` of requests that left the protection of the WAL in one
of the three ways described below.

**GroupCommit** is one WAL shard in detail: the bounded channel, the batch,
numbering, one write and one fsync, publication of `last_seq`, replies, rotation
by size, drains, the explicit Rotate, the error arm; segment files as sequences
of frames with a synced prefix; a loss of power that keeps any prefix of what was
not synced, perhaps with a fragment behind it; and the reopening of the shard. A drain
comes with a new snapshot, whose watermark is any number published so far, or asks again
for the watermark that is there already, which is 0 before the first snapshot. The model keeps the highest watermark
there was; after a restart that resumes at 0 the code may save a lower one.
**DurableLog** is what a shard promises: an acknowledged entry is durable until it
is released, because a snapshot covers it or because recovery has given it back.

**IndexSnapshot** refines the one step that a save is in StorageServer into the
file operations of `save_index`: the `.tmp` file is opened and truncated, written,
and renamed, by the ticker and by RPC handlers at the same time, under a read lock
that they share. Names, files and descriptors are kept apart (`tmp`, `main`,
`content`, `fd`), so that a save may write into a file that another has renamed
meanwhile. Writes and renames may fail. `Cut` drops the handler of a client that
is gone: its lock is released, but the file operation handed to a blocking thread
goes on. The sweep is there with its four steps (register, watermark, bound,
deletion of WAL). `overlapped` only observes: two saves had the `.tmp` file in use at
once. **AtomicSnapshot** is what the callers rely on: the file is replaced in one step,
by a newer snapshot, before its watermark counts as persisted.

**ChunkStore** is the chunk index and the files behind it: a flush of one shard, compaction
(plan, merge, commit, deletion of the old files one by one, errors), queries (the memtable of
one shard after the other, each under its own lock, then the index, then one file after the
other) and the saved index. A point is a series, a timestamp and the number of the write;
`ShardOf` maps a series to its shard as `shard_index` does. A file's size is an arbitrary choice from
`Sizes`, which makes every grouping into size tiers possible.

**SeriesStore** is the data path without interleavings: a flush, a merge and a query
are one step each, and what is modelled is the data. It has the memtable with its
sorted columns and its size estimate, the five maps of ChunkIndex, `resolve_series`
by metric and tags in memtable and index, `prune_chunks` with value predicates,
the merge of chunk files, and the index as `rebuild_index` restores it. It rests on
two modules of pure operators. **ChunkFile** is the file format, one cell per field
and per byte of a key or a column: both passes of the writer (columns, then offsets),
header, directory, columns, bloom filter, footer and checksum, and the reader with
its cursor arithmetic and error paths; timestamps have `Bits` bits and wrap around.
**SeriesKeys** is the byte form of a series key and its decoding. lz4 is represented
by a run-length code (reversible, with a length that depends on the data), the
bloom filter by a five-bit hash, CRC32 and xxh64 by injective functions.

`MC*` modules and `.cfg` files give the instances. The proofs are in modules of their
own, each extending the one before. StorageServer: **StorageServerInvariant** (type
correctness, the inductive invariant, what each task leaves alone, the conjuncts about
handlers and the log), **StorageServerProofs** (segments, `open`, what watermarks
cover, and the theorems). GroupCommit: **GroupCommitSteps** (what holds whatever fails,
the callers and the steps of the task), **GroupCommitInvariant** (loss of power and
recovery; then what holds without torn frames, up to the write), **GroupCommitProofs**
(the rest of it, and the refinement). ChunkStore: **ChunkStoreInvariant** (what holds
whatever is rewritten, and where the flushed points are), **ChunkStoreProofs** (the
commit of a merge, types, queries). IndexSnapshot: **IndexSnapshotProofs**.

## What TLC checks

| run | shows |
|---|---|
| `server_safety` | two requests, one shard, two snapshots at once, one crash, one failing I/O: `SnapshotCoversWatermark`, `AckedRecoverableUnlessExposed`, `AckedStaysInEngine` |
| `server_liveness` | one request over two shards, one snapshotter, one failing I/O, fair: `TypeOK`, `WalBeforeMemtable`, `AppendsAnswered`, `DueMemtableIsIndexed` |
| `wal` | two appends, a drain, two Rotates, channel and batch of two, one error of any kind, one loss of power, fair: `TypeOK`, `PublishedIsDurable`, `ReplyIsPublished`, `LogIsOrdered`, `FirstRunNotOvertaken`, the refinement `ImplementsCleanLog`, and `EveryMessageIsAnswered` |
| `chunks` | a query over two shards among flushes, rewrites, compactions and saves of the index: `TypeOK`, `FlushedStaysReachable`, `IndexedFilesExist`, `QueryMissesNothingSettled` |
| `snapshot` | the ticker and an RPC save at once, fail, are dropped: `TypeOK`, `DeletedIsSavedUnlessOverlapped`, and the refinement `AtomicUntilOverlap` |
| `series` | three keys, timestamps at both ends of the range and zero: `MemtableAccounts`, `FilesReadBack`, `QueryIsExact`, `QueryInventsNothing`, `PruneKeepsMatches`, `RebuiltIndexIsSame` |
| `server_race`, `wal_torn`, `wal_restart`, `chunks_samestart`, `chunks_snapshot`, `snapshot_overlap` | statements of comments, tests and README that the code does not meet (below) |

*Bounds.* Two requests are enough for one to be logged while the other is
flushed; a segment of one frame and a flush threshold of one request make
every rotation, flush and deletion happen. `Recoverable` says what `open` would
give back if the process crashed in this state, so every reachable state is
checked against a crash, and one real crash is there for what a restart changes
(numbering, watermarks, deleted segments). The theorems below remove all these
bounds. In GroupCommit two appends, a drain and two Rotates against a batch of two fill
several batches and segments; callers of one kind are interchangeable, so TLC looks at one
order of their first calls (`InTurn`); and one loss of power lets the shard go on with what a recovery
has left; that a recovery meets what the one before it has left is covered by the
theorems, which remove these bounds too. In IndexSnapshot two flushes let WAL be deleted on one
snapshot while the next is saved; three files are as many as two descriptors and
two names can hold apart. In ChunkStore two series in two
shards let a flush fall between the two scans of a query, and four files allow two flushed chunks, a merged
one, and a flush on top. TLC takes states for one (`Essential`) that differ only in the saved
index, or in what a query holds beyond what decides its verdict: no other action reads
either. Two groups in one cycle, which need more files, are covered by the theorems. In SeriesStore three writes give two flushes and a merge, and a
memtable beside them; the threshold of 40 bytes is met by the first point of a
key, so any insert may be followed by a flush; the keys share a metric, share a tag, and one
has a `=` in a tag's value; three-bit timestamps overflow as 64-bit ones do. Deadlock is checked
for StorageServer and IndexSnapshot; in the others the callers run out of work,
and stopping is normal.

*Fairness.* StorageServer: weak fairness of the handlers' and tasks' own steps:
tokio polls every runnable task, timers fire, I/O returns. Strong fairness of
`SweepRegister` (tokio's RwLock queues a waiting writer before later readers) and
of `SweepGcDrain` (the channel is first in, first out). No fairness of requests,
snapshots' start, faults or crashes. GroupCommit: weak fairness of the task and
of the restart. The other modules state safety only.

*Refinement.* `ImplementsCleanLog` says that a WAL shard takes only steps of DurableLog,
through clean errors (nothing or whole frames written, fsync failed), losses of power
and recoveries, on two conditions. No write is cut inside a frame and no rotation fails
(`CleanFaults`; without it, `wal_torn`). And no acknowledged entry that nobody released is
at or below the watermark (`Overtaken`): recovery would skip it. `FirstRunNotOvertaken` says
that the second condition holds until a recovery; after one that replayed nothing it need
not (`wal_restart`). `AtomicUntilOverlap` says that `save_index` with all its file operations
takes only steps of AtomicSnapshot until two saves overlap.

## Where the code disagrees with its comments and tests

Six runs end in a counterexample.

- `server_race`: the flush stores the WAL position as the watermark *after* it has
  drained and registered (`server/mod.rs:695`). A request logged in between is
  covered by the watermark and is in no chunk; after a snapshot and a crash it
  is gone, though acknowledged.
- `wal_torn`: after a write that fails inside a frame, later acknowledged frames
  lie behind the fragment, where `recover` stops reading.
- `wal_restart`: after a restart that replays nothing, sequence numbers resume at 0,
  below the watermark (`server/mod.rs:120`); the next recovery skips what was
  acknowledged since and deletes its segment. In StorageServer this is `reused`.
- `chunks_samestart`: `time_index` has one slot per series and start time; a chunk
  that starts where another starts hides it.
- `chunks_snapshot`: a compaction deletes files that the saved index still names.
- `snapshot_overlap`: the ticker and the Snapshot RPC write one `.tmp` file
  (`index/persistence.rs:61`); a rename may install a file that the other save has
  truncated, when WAL covered by the snapshot it replaces is already deleted.

More were met while modelling, and are not kept as runs. WAL and server: a failing
rotation leaves the writer on a segment already listed for deletion
(`wal/writer.rs:120`); `open` deletes replayed segments before a snapshot names the recovery chunk (`server/mod.rs:136`;
this is `dropped`); recovery may replay an entry the snapshot's index already holds
(`README.md` of the repository: "no double-counting"); an Append over several
shards is not atomic in the WAL (`storage.proto`: "atomically"); the token of an
Append restarts at 1 with the process (`server/mod.rs:49`: "deduplication key"); an
empty Append returns the next token, not 0 (`storage.proto:35`); covered segments
stay until the next flush of their shard.

Chunks and index: a compaction that races with a flush at the same start time leaves
the record of a deleted file in `chunk_files`; a query that meets a deleted file
closes normally (`storage.proto`: "a status error"); `save_index` never calls fsync
(`README.md:206` of the repository: "after `save_index()` fsync succeeds"); a merge
keeps, of two values of one timestamp, that of the larger file and not the one
written last (`compaction/mod.rs:60`); a comma in a metric or tag makes the byte form
of a key ambiguous, so that two series share one id (`types.rs:17-19`: "entirely
independent series"), and a merge may find a key it cannot decode or decodes to
another; `read_series` returns an empty list for a series without points in the range
(`chunk/reader.rs:64-65`: `Ok(None)`); a query does not call `check_bloom`
(`chunk/reader.rs:67`: "The query path calls `check_bloom` first").

## What TLAPS proves

**StorageServer**, for every finite set of requests, every number of shards and
snapshots, every segment size, flush threshold, number of crashes and faults:

- `TypeCorrect`: `Spec => []TypeOK`.
- `SnapshotConsistent`: `Spec => []SnapshotCoversWatermark`. Whatever the watermark in
  the snapshot file makes recovery skip is in the index of that file, or exposed.
- `AckedSafe`: `Spec => []AckedRecoverableUnlessExposed`. An acknowledged request
  is given back after a crash at any moment, or it is exposed: a flush moved the watermark over it
  (`overtaken`), it was logged under a number that an earlier run had already put
  below the watermark (`reused`), or `open` deleted its segment before a
  snapshot (`dropped`). Within the abstraction of StorageServer these three are the only
  ways. What lies below it is not covered: in this module a save is one step, a frame is whole or not there, a
  rotation succeeds and a chunk named by the snapshot is readable, and the findings above
  show what happens when one of these does not hold.
- `LoggedBeforeInserted`: `Spec => []WalBeforeMemtable`, with `MemInv`: a request in a
  memtable is past its start, so that its route is settled, and logged throughout.
- `NothingFallsBetween`: `Spec => []AckedStaysInEngine`, with `EngineInv`: already
  while a handler inserts, what it has inserted is in a memtable, in the drained
  points or in the index, and the sweep holds drained points only between drain and
  registration.

The first three are not inductive. The inductive invariant, `IInv` (theorem
`Inductive`), is `TypeOK` and six parts:

- `HandlerInv`: a request that is inserted or acknowledged was logged by every
  shard it touches;
- `LoggedInv`: a logged request has a frame on disk, or the snapshot holds it, or
  it is exposed. This is the heart, and what a segment deletion could break;
- `SegmentInv`: frames lie in existing segments, the current segment is never
  completed or doomed, and the bound recorded for a completed segment is at or above
  the frames it holds, so that deleting by bound deletes only frames below it;
- `RestInv`: nothing but `open` is at work while the process is down or opening;
- `BelowInv`: every watermark in use (live, persisted, loaded by a snapshot, on
  disk, used by GC) is at most `current_seq`, or at most the watermark `open` found:
  a new frame is above all of them, or its number is reused;
- `CoverInv`: what each watermark covers. Each frame at or below the live watermark or
  one a snapshot has loaded is in the index (or exposed); each frame at or below the
  watermark on disk, the persisted one or GC's is in the snapshot file (or exposed).
  A snapshot turns the first kind into the second: it loads the watermarks before
  it reads the index, which can only have grown in between.

**IndexSnapshot**, for every set of RPC handlers, files and number of flushes:
`SnapshotTypeCorrect`, `DeletedSafe` (`Spec => []DeletedIsSavedUnlessOverlapped`) and
`SnapshotAtomic` (`Spec => AtomicUntilOverlap`, the step simulation of AtomicSnapshot). The
inductive invariant has `LockInv`, which holds even when saves overlap: a serialized index is
not newer than the live one, as new while its save holds the lock, and covers the
watermarks loaded before it. Until an overlap there are also `FileInv` (one save at most has the
`.tmp` file, which is the one it wrote, and a rename does not bring back an older index)
and `SavedInv` (every position from which WAL may be deleted is in the snapshot file).

**ChunkStore**, for every set of series, timestamps and sizes, every size ratio and
threshold, and every number of shards, writes, files and queries:

- `EntriesHaveFiles`: `Spec => []IndexedFilesExist`. The invariant `UInv` (theorem
  `StoreInvariant`) says that an entry has statistics, which keep its file's record
  (`EntryInv`); that a file written and not yet registered is known to its writer alone
  (`WriterInv`); and that a group knows every entry of its files, though flushes
  may have taken some over since the plan, and none is left once it is
  committed, so that its files may go (`GroupInv`).
- `CompactionLosesNothing`: `Spec => []FlushedStaysReachable`. `KInv` adds that a point is
  in one place (`PlaceInv`), that no file is in two groups (`ApartInv`), and, while no timestamp is
  flushed twice: the registered files have all their entries, share no point and hold the
  flushed points (`CoverInv`), a planned group will deregister exactly the
  entries of its files (`PlanInv`), and the merged file holds their points
  (`MergeInv`). The commit is the step that needs all of them: the merged entry takes the
  slot of the oldest one, which `deregister` then passes over because of its guard.
  That a non-empty set of timestamps has a minimum is proved by well-founded induction.
- `StoreTypeCorrect`: `Spec => []TypeOK`. The part that is not a matter of types is that
  two entries of a series never share a start time, and that an entry's range is
  made of timestamps, for which the merged statistics need a first and a last one
  (`TimesAssumption`: timestamps are i64).
- `QueriesMissNothing`: `Spec => []QueryMissesNothingSettled`, from `KInv` and `QueryInv` (theorem
  `QueryInvariant`): a point that the memtable of its shard or the index held when the query scanned that
  shard is in its answer; or the index scan is still to come and the point is flushed, for what
  the scan did not find in the memtable was in the index; or it is in a file the query has
  yet to read or failed to read. The index scan is the step that needs `CoverInv`: the entry
  that reaches the point overlaps the query's range. The promise begins with the scan of a
  shard, not with the query: a shard that is drained while the query is still at an earlier
  one, and registered after the index scan, is missed whole, also points acknowledged long before. The comment at
  `server/mod.rs:656-660` accepts this. Files a query could not read are exempt: the code
  logs the error and goes on.

**GroupCommit**, for all sets of callers, every capacity, batch and segment size, and every
number of I/O errors and losses of power. The argument has three layers.

- `BInv` (theorem `ShardInvariant`) holds whatever fails. A caller has at most one message,
  in the channel or in the batch, and who is in the frames being written waits
  (`CallInv`); those frames carry the last numbers given out, above every number published
  (`NumberInv`); new numbers are above all those on disk, and the open file is the newest
  (`OrderInv`). Hence `ShardTypeCorrect` (`TypeOK`), `RepliesPublished` (`ReplyIsPublished`) and
  `LogOrdered` (`LogIsOrdered`, up to the first loss of power: after it the numbers may begin again).
- `CInv` (theorem `CleanInvariant`) holds until a frame is torn or a rotation fails. A frame on disk
  is durable, or its append failed or was cut off, or it is being written (`FrameInv`); the
  open file has its name, holds whole frames and is in nobody's list for deletion
  (`FileInv`); once synced, the frames of the batch are durable (`OutInv`); whatever a
  drain asks for or a drainer may remove is at or below the watermark (`DrainInv`); and
  until a recovery whatever the watermark covers is settled: released, or
  not acknowledged and never to be (`WatermarkInv`). The last point is what
  interleaving could break: a drain sent while a batch is being written waits in the
  channel, but a new watermark is at most `last_seq`, and the frames of the batch are above it.
  Hence `PublishedDurable` (`PublishedIsDurable`: of the batch in progress, `current_sequence()`
  covers only durable frames) and `NotOvertaken` (`FirstRunNotOvertaken`).
- `ShardImplementsLog`: `Spec => ImplementsCleanLog`. An answer is an `Ack` of DurableLog; every other
  step is a `Change`, which may lose only released or unacknowledged entries. Removing a
  file and recovery both lose only frames at or below the watermark (the former by
  `DrainInv`), and of those only the entries in `Overtaken` matter to anybody.

The proofs use the assumptions that the modules state on their constants and nothing
else. TLC also finds the inductive invariants to hold on small instances: `IInv` of
StorageServer on that of `server_safety`, `KInv` on one with two series and two size tiers and on one with rewrites,
`KInv`, `TypeInv` and `QueryInv` on that of `chunks` without the save and without a view, `BInv` (but for its bound,
which is some natural number) and `CInv` on that of `wal` with two losses of power.

Only model-checked: the liveness properties `AppendsAnswered`, `DueMemtableIsIndexed` and
`EveryMessageIsAnswered` (fairness and ENABLED are outside the prover); all of ChunkFile,
SeriesKeys and SeriesStore, whose operators fold over sequences and would need induction
over data, which is outside the prover too.

## Not modelled

Bytes below the level of a field: little-endian numbers, the CRC frames of the WAL,
bincode and protobuf. The inside of lz4, the bloom filter's hash, CRC32 and xxh64, and
their collisions. Values that are not ordinary numbers (NaN in statistics and
predicates). Corrupt chunk files: the reader's checks are there, but files are those
the writer made. Collisions of chunk ids, which are clock readings. Loss of power
for the snapshot file and chunk files: a save without fsync can lose a whole snapshot,
as said above. Loss of a directory entry. The client's side of a query stream. An Append whose
handler is dropped before its answer: it is logged or not, and never acknowledged. A
compaction RPC whose handler is dropped between the write of the merged file and
the commit leaves a file that nothing names; in the model that is a failing
`CompactMerge` up to the orphaned file. Metrics, configuration, start-up, the load
generator.

## Plan

1. Restart of ChunkStore: load the saved index and replay, composed with the
   watermarks of StorageServer, so that `chunks_snapshot` and `dropped` meet.
2. A loss of power for IndexSnapshot and for chunk files, once `save_index` syncs.
3. Frame scanning in `recover` as an operator against a reference definition.
