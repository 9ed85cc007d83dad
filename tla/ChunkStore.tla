----------------------------- MODULE ChunkStore -----------------------------
(***************************************************************************)
(* Chunk files and the ChunkIndex over them: the flush that writes and     *)
(* registers a chunk, size-tiered compaction that merges chunks and        *)
(* deletes the old files, the Query task that reads memtable, index and    *)
(* files one after the other, and the index snapshot.                      *)
(*                                                                         *)
(* memtable holds the points of every shard; a shard's part of it are the  *)
(* points of the series that live there.  The sweep drains, and a query    *)
(* scans, one shard at a time, each under that shard's lock alone.  A      *)
(* point is a timestamp of a series and the version of the value written   *)
(* there; a file's size is chosen when it is written.                      *)
(***************************************************************************)
EXTENDS Sequences, FiniteSetsExt

CONSTANTS Series,
          NumShards,
          ShardOf,       \* the shard, in 1 .. NumShards, each series lives in
          Times,         \* timestamps, numbers
          Sizes,         \* file sizes, numbers
          MinThreshold,  \* compaction_min_threshold
          SizeRatio,     \* compaction_size_ratio
          Queries,       \* Query RPCs
          MaxVersions,   \* bound: writes to one timestamp of a series
          MaxWrites,     \* bound: writes in all
          MaxChunks      \* bound: chunk files ever written

ASSUME ShardAssumption ==
  NumShards \in Nat \ {0} /\ ShardOf \in [Series -> 1 .. NumShards]

ASSUME StoreAssumption ==
  /\ Times \subseteq Nat /\ Sizes \subseteq Nat \ {0} /\ SizeRatio \in Nat \ {0}
  /\ MinThreshold \in Nat /\ MaxVersions \in Nat /\ MaxChunks \in Nat
  /\ MaxWrites \in Nat

\* Timestamps are i64: there is a last one.
ASSUME TimesAssumption == \E last \in Times : \A t \in Times : t <= last

VARIABLES
  version,       \* how often each timestamp of each series was written
  memtable,      \* points
  draining,      \* points a flush took and has not registered
  flush_pc, flush_chunk,
  chunks,        \* points and size of each file written; a file's place is its id
  on_disk,       \* ids of the files that exist
  index,         \* the ChunkIndex
  snapshot,      \* the index in the snapshot file
  compact_pc, groups, merged,
  query,         \* each Query task
  \* observation only
  flushed        \* points of registered flushes

fileVars == <<chunks, on_disk>>
flushVars == <<draining, flush_pc, flush_chunk>>
compactVars == <<compact_pc, groups, merged>>
vars == <<version, memtable, flushVars, fileVars, index, snapshot, compactVars, query, flushed>>

Point == [series : Series, time : Times, version : 1 .. MaxVersions]
Coord(p) == <<p.series, p.time>>
Coords(P) == {Coord(p) : p \in P}

\* The points of P that belong to shard i
InShard(P, i) == {p \in P : ShardOf[p.series] = i}

NoChunk == 0
EmptyIndex == [time_index |-> {}, chunk_stats |-> {}, chunk_files |-> {}]

-----------------------------------------------------------------------------
(* ChunkIndex *)

\* The entries of a chunk: one per series, with its first and last timestamp.
Entries(id, points) ==
  {[series |-> s, chunk |-> id,
    start |-> Min({p.time : p \in {q \in points : q.series = s}}),
    end |-> Max({p.time : p \in {q \in points : q.series = s}})]
     : s \in {p.series : p \in points}}

SameSlot(d, e) == d.series = e.series /\ d.start = e.start

\* Mutant: an entry with the same start time stays.
Register_KeepsOld(idx, new) ==
  [time_index |-> idx.time_index \cup new,
   chunk_stats |-> idx.chunk_stats \cup {<<e.chunk, e.series>> : e \in new},
   chunk_files |-> idx.chunk_files \cup {e.chunk : e \in new}]

\* register, for all series of a chunk.  time_index is keyed by the start time
\* of an entry: a new entry takes the place of one with the same start.
Register(idx, new) ==
  [time_index |-> {d \in idx.time_index : ~\E e \in new : SameSlot(d, e)} \cup new,
   chunk_stats |-> idx.chunk_stats \cup {<<e.chunk, e.series>> : e \in new},
   chunk_files |-> idx.chunk_files \cup {e.chunk : e \in new}]

\* Mutant: deregister removes whatever has the start time.
Deregister_NoGuard(idx, old) ==
  LET stats == idx.chunk_stats \ {<<e.chunk, e.series>> : e \in old} IN
  [time_index |-> {d \in idx.time_index : ~\E e \in old : SameSlot(d, e)},
   chunk_stats |-> stats,
   chunk_files |-> idx.chunk_files \ {e.chunk : e \in {f \in old : \A s \in Series : <<f.chunk, s>> \notin stats}}]

\* deregister, for all entries of a merge group: an entry goes only if it still
\* belongs to that chunk, and the chunk's file record with its last statistics.
Deregister(idx, old) ==
  LET stats == idx.chunk_stats \ {<<e.chunk, e.series>> : e \in old} IN
  [time_index |-> {d \in idx.time_index : ~\E e \in old : SameSlot(d, e) /\ d.chunk = e.chunk},
   chunk_stats |-> stats,
   chunk_files |-> idx.chunk_files \ {e.chunk : e \in {f \in old : \A s \in Series : <<f.chunk, s>> \notin stats}}]

\* Mutant: an entry that ends where the range begins is pruned.
Prune_Exclusive(idx, lo, hi) == {e \in idx.time_index : e.start <= hi /\ lo < e.end}

\* prune_chunks, for every series
Prune(idx, lo, hi) == {e \in idx.time_index : e.start <= hi /\ lo <= e.end}

\* ChunkReader::read_series on the file of an entry
ReadSeries(e, lo, hi) ==
  {p \in chunks[e.chunk].points : p.series = e.series /\ p.time \in lo .. hi}

\* What a query over all time would find in chunks through index idx.
Reachable(idx) ==
  UNION {{p \in chunks[e.chunk].points : p.series = e.series}
           : e \in {d \in idx.time_index : d.chunk \in on_disk \cap idx.chunk_files}}

-----------------------------------------------------------------------------
(* Writes and the flush *)

Insert(P, p) == {q \in P : Coord(q) # Coord(p)} \cup {p}

Ingest(s, t) ==
  /\ version[<<s, t>>] < MaxVersions /\ SumFunction(version) < MaxWrites
  /\ version' = [version EXCEPT ![<<s, t>>] = @ + 1]
  /\ memtable' = Insert(memtable, [series |-> s, time |-> t, version |-> version[<<s, t>>] + 1])
  /\ UNCHANGED <<flushVars, fileVars, index, snapshot, compactVars, query, flushed>>

\* The sweep comes to shard i, which has to be flushed.
FlushDrain(i) ==
  /\ flush_pc = "idle" /\ InShard(memtable, i) # {}
  /\ draining' = InShard(memtable, i) /\ memtable' = memtable \ draining' /\ flush_pc' = "write"
  /\ UNCHANGED <<version, flush_chunk, fileVars, index, snapshot, compactVars, query, flushed>>

\* ChunkWriter::write: a new file under a new id, synced.
WriteFile(points, size) ==
  /\ Len(chunks) < MaxChunks
  /\ chunks' = Append(chunks, [points |-> points, size |-> size])
  /\ on_disk' = on_disk \cup {Len(chunks')}

FlushWrite(size) ==
  /\ flush_pc = "write" /\ WriteFile(draining, size)
  /\ flush_chunk' = Len(chunks') /\ flush_pc' = "register"
  /\ UNCHANGED <<version, memtable, draining, index, snapshot, compactVars, query, flushed>>

\* The sweep's error arm: the drained points are dropped.
FlushFail ==
  /\ flush_pc = "write"
  /\ draining' = {} /\ flush_pc' = "idle"
  /\ UNCHANGED <<version, memtable, flush_chunk, fileVars, index, snapshot, compactVars, query, flushed>>

FlushRegister ==
  /\ flush_pc = "register"
  /\ index' = Register(index, Entries(flush_chunk, draining))
  /\ flushed' = flushed \cup draining
  /\ draining' = {} /\ flush_chunk' = NoChunk /\ flush_pc' = "idle"
  /\ UNCHANGED <<version, memtable, fileVars, snapshot, compactVars, query>>

SaveSnapshot ==
  /\ snapshot' = index
  /\ UNCHANGED <<version, memtable, flushVars, fileVars, index, compactVars, query, flushed>>

-----------------------------------------------------------------------------
(* Compaction: one cycle at a time, under the worker's mutex *)

\* An order of the registered files as sort_by_key may leave it.
SortedBySize(order) ==
  \A i, j \in DOMAIN order : i < j => chunks[order[i]].size <= chunks[order[j]].size

\* The places where a group begins: at a file larger than SizeRatio times the first
\* file of each group before it.
Begins(order, starts) ==
  \A i \in DOMAIN order :
    i \in starts <=> \A j \in starts : j < i => chunks[order[i]].size > SizeRatio * chunks[order[j]].size

\* The group that begins at s: its files, in their places in the order, and the
\* entries that name them.
MergeGroup(order, starts, s) ==
  LET places == {i \in DOMAIN order : s <= i /\ ~\E t \in starts : s < t /\ t <= i}
      files == Restrict(order, places) IN
  [chunks |-> files, deregister |-> {e \in index.time_index : e.chunk \in Range(files)}]

\* compact_once up to the release of the read lock, with find_candidates
CompactPlan ==
  /\ compact_pc = "idle"
  /\ \E order \in Bijection(1 .. Cardinality(index.chunk_files), index.chunk_files) :
     \E starts \in SUBSET DOMAIN order :
       LET large == {s \in starts : Cardinality(DOMAIN MergeGroup(order, starts, s).chunks) >= MinThreshold} IN
       /\ SortedBySize(order) /\ Begins(order, starts)
       /\ large # {}
       /\ groups' = [s \in large |-> MergeGroup(order, starts, s)]
  /\ compact_pc' = "merge"
  /\ UNCHANGED <<version, memtable, flushVars, fileVars, index, snapshot, merged, query, flushed>>

\* Groups, and the files of a group, are taken in order.
First(f) == {i \in DOMAIN f : \A j \in DOMAIN f : i <= j}
NoGroups == [i \in {} |-> 0]

\* The points of the group's files, a later file overwriting an earlier one.
MergedPoints(files) ==
  UNION {{p \in chunks[files[i]].points :
            \A j \in DOMAIN files : j > i => Coord(p) \notin Coords(chunks[files[j]].points)}
           : i \in DOMAIN files}

\* merge_group: read the old files and write the new one.
CompactMerge(size) ==
  /\ compact_pc = "merge"
  /\ \E i \in First(groups) :
       /\ Range(groups[i].chunks) \subseteq on_disk
       /\ WriteFile(MergedPoints(groups[i].chunks), size)
  /\ merged' = Len(chunks') /\ compact_pc' = "commit"
  /\ UNCHANGED <<version, memtable, flushVars, index, snapshot, groups, query, flushed>>

\* A read or the write fails: the error ends the cycle.  A file that does not
\* exist fails every time.
CompactFail ==
  /\ compact_pc = "merge"
  /\ groups' = NoGroups /\ compact_pc' = "idle"
  /\ UNCHANGED <<version, memtable, flushVars, fileVars, index, snapshot, merged, query, flushed>>

\* Mutant: the old files go before the index names the merged one.
CompactCommit_Late ==
  /\ compact_pc = "commit"
  /\ \E i \in First(groups) :
       LET old == Range(groups[i].chunks) IN
       \/ /\ old \cap on_disk # {}
          /\ on_disk' = on_disk \ old
          /\ UNCHANGED <<index, compact_pc>>
       \/ /\ old \cap on_disk = {}
          /\ index' = Deregister(Register(index, Entries(merged, chunks[merged].points)),
                                 groups[i].deregister)
          /\ compact_pc' = "delete"
          /\ UNCHANGED on_disk
  /\ UNCHANGED <<version, memtable, flushVars, chunks, snapshot, groups, merged, query, flushed>>

\* Register the merged chunk and deregister the old ones under the write lock.
CompactCommit ==
  /\ compact_pc = "commit"
  /\ \E i \in First(groups) :
       index' = Deregister(Register(index, Entries(merged, chunks[merged].points)),
                           groups[i].deregister)
  /\ compact_pc' = "delete"
  /\ UNCHANGED <<version, memtable, flushVars, fileVars, snapshot, groups, merged, query, flushed>>

\* Remove the old files one by one; a failure is logged and the file stays.
CompactDelete ==
  /\ compact_pc = "delete"
  /\ \E i \in First(groups) : \E k \in First(groups[i].chunks) :
       /\ on_disk' \in {on_disk, on_disk \ {groups[i].chunks[k]}}
       /\ groups' = [groups EXCEPT ![i] =
                       [chunks |-> Restrict(@.chunks, DOMAIN @.chunks \ {k}), deregister |-> @.deregister]]
  /\ UNCHANGED <<version, memtable, flushVars, chunks, index, snapshot, compact_pc, merged, query, flushed>>

\* On to the next group, or the end of the cycle
CompactNext ==
  /\ compact_pc = "delete"
  /\ \E i \in First(groups) :
       /\ DOMAIN groups[i].chunks = {}
       /\ groups' = Restrict(groups, DOMAIN groups \ {i})
       /\ compact_pc' = IF DOMAIN groups = {i} THEN "idle" ELSE "merge"
  /\ merged' = NoChunk
  /\ UNCHANGED <<version, memtable, flushVars, fileVars, index, snapshot, query, flushed>>

-----------------------------------------------------------------------------
(* Query *)

Idle == [pc |-> "idle", shard |-> 1, lo |-> 0, hi |-> 0, todo |-> {}, answer |-> {},
         skipped |-> {}, expect |-> {}]

QueryStart(q, lo, hi) ==
  /\ query[q].pc = "idle"
  /\ query' = [query EXCEPT ![q] = [Idle EXCEPT !.pc = "scan", !.lo = lo, !.hi = hi]]
  /\ UNCHANGED <<version, memtable, flushVars, fileVars, index, snapshot, compactVars, flushed>>

\* Stage 1: the memtable of one shard, under its lock, which is released before
\* the next shard's is taken.  Observed: the points of that shard in range that
\* its memtable and the index hold at this moment.
QueryScan(q) ==
  /\ query[q].pc = "scan"
  /\ LET Matching(P) == {p \in InShard(P, query[q].shard) : p.time \in query[q].lo .. query[q].hi} IN
       query' = [query EXCEPT ![q].answer = @ \cup Matching(memtable),
                              ![q].expect = @ \cup Matching(memtable \cup Reachable(index)),
                              ![q].pc = IF query[q].shard = NumShards THEN "index" ELSE "scan",
                              ![q].shard = IF @ = NumShards THEN @ ELSE @ + 1]
  /\ UNCHANGED <<version, memtable, flushVars, fileVars, index, snapshot, compactVars, flushed>>

\* Stage 2: entries and paths, under the index's read lock.  An entry without
\* a file record is passed over.
QueryIndex(q) ==
  /\ query[q].pc = "index"
  /\ LET found == Prune(index, query[q].lo, query[q].hi)
         pathless == {e \in found : e.chunk \notin index.chunk_files} IN
       query' = [query EXCEPT ![q].pc = "read", ![q].todo = found \ pathless,
                              ![q].skipped = pathless]
  /\ UNCHANGED <<version, memtable, flushVars, fileVars, index, snapshot, compactVars, flushed>>

\* Stage 3: read one file.  An error is logged and the query goes on.
QueryRead(q) ==
  /\ query[q].pc = "read"
  /\ \E e \in query[q].todo :
       query' = [query EXCEPT ![q].todo = @ \ {e},
                   ![q].answer = IF e.chunk \in on_disk
                                   THEN @ \cup ReadSeries(e, query[q].lo, query[q].hi) ELSE @,
                   ![q].skipped = IF e.chunk \in on_disk THEN @ ELSE @ \cup {e}]
  /\ UNCHANGED <<version, memtable, flushVars, fileVars, index, snapshot, compactVars, flushed>>

\* The stream closes normally.
QueryDone(q) ==
  /\ query[q].pc = "read" /\ query[q].todo = {}
  /\ query' = [query EXCEPT ![q].pc = "done"]
  /\ UNCHANGED <<version, memtable, flushVars, fileVars, index, snapshot, compactVars, flushed>>

-----------------------------------------------------------------------------
Init ==
  /\ version = [c \in Series \X Times |-> 0]
  /\ memtable = {} /\ draining = {} /\ flush_pc = "idle" /\ flush_chunk = NoChunk
  /\ chunks = <<>> /\ on_disk = {} /\ index = EmptyIndex /\ snapshot = EmptyIndex
  /\ compact_pc = "idle" /\ groups = NoGroups /\ merged = NoChunk
  /\ query = [q \in Queries |-> Idle]
  /\ flushed = {}

Flush == (\E i \in 1 .. NumShards : FlushDrain(i)) \/ (\E n \in Sizes : FlushWrite(n)) \/ FlushFail \/ FlushRegister

Compact ==
  \/ CompactPlan \/ (\E n \in Sizes : CompactMerge(n)) \/ CompactFail
  \/ CompactCommit \/ CompactDelete \/ CompactNext

Query(q) ==
  \/ \E lo, hi \in Times : lo <= hi /\ QueryStart(q, lo, hi)
  \/ QueryScan(q) \/ QueryIndex(q) \/ QueryRead(q) \/ QueryDone(q)

Next ==
  \/ \E s \in Series, t \in Times : Ingest(s, t)
  \/ Flush \/ Compact \/ SaveSnapshot
  \/ \E q \in Queries : Query(q)

Spec == Init /\ [][Next]_vars

-----------------------------------------------------------------------------
(* Properties *)

Entry == [series : Series, chunk : 1 .. MaxChunks, start : Times, end : Times]
IsIndex(idx) ==
  /\ idx.time_index \subseteq Entry
  /\ \A d, e \in idx.time_index : SameSlot(d, e) => d = e
  /\ idx.chunk_stats \subseteq (1 .. MaxChunks) \X Series
  /\ idx.chunk_files \subseteq 1 .. MaxChunks

\* Types of the state; both indexes are maps, with one entry per series and
\* start time.
TypeOK ==
  /\ version \in [Series \X Times -> 0 .. MaxVersions]
  /\ memtable \subseteq Point /\ draining \subseteq Point /\ flushed \subseteq Point
  /\ \A c \in DOMAIN chunks : chunks[c].points \subseteq Point /\ chunks[c].size \in Sizes
  /\ on_disk \subseteq DOMAIN chunks
  /\ IsIndex(index) /\ IsIndex(snapshot)
  /\ flush_pc \in {"idle", "write", "register"} /\ flush_chunk \in 0 .. MaxChunks
  /\ compact_pc \in {"idle", "merge", "commit", "delete"} /\ merged \in 0 .. MaxChunks
  /\ \A i \in DOMAIN groups : groups[i].deregister \subseteq Entry
  /\ \A q \in Queries :
       /\ query[q].pc \in {"idle", "scan", "index", "read", "done"} /\ query[q].shard \in 1 .. NumShards
       /\ query[q].todo \cup query[q].skipped \subseteq Entry
       /\ query[q].answer \cup query[q].expect \subseteq Point

\* An entry of the index always names a file that exists and has a record in
\* chunk_files: a flush registers after writing (ChunkWriter::write, then
\* register), a compaction deletes after deregistering (merge_group), whatever
\* flushes register while it merges.
IndexedFilesExist == \A e \in index.time_index : e.chunk \in on_disk \cap index.chunk_files

\* No timestamp of a series has been flushed twice.
NotRewritten == \A p, q \in flushed : Coord(p) = Coord(q) => p = q

\* While no timestamp of a series has been flushed twice, a query over all time
\* finds in the chunks exactly the points of the registered flushes, at every
\* moment of a compaction.  In particular deregister must not remove the merged
\* entry, which starts where the oldest merged entry started.
FlushedStaysReachable ==
  NotRewritten => Reachable(index) = flushed

\* While no timestamp of a series has been flushed twice, a query that closes has
\* answered every point in its range that the memtable of the point's shard or the
\* index held when the query scanned that shard, unless it met a file it could not
\* read: neither a flush between that scan and the index scan nor the prune of
\* prune_chunks loses a point.  Nothing is promised of what was held when the query
\* began: a shard that the sweep drains while the query is still at an earlier
\* shard can be missed whole.
QueryMissesNothingSettled ==
  NotRewritten =>
    \A q \in Queries : query[q].pc = "done" /\ query[q].skipped = {} =>
      Coords(query[q].expect) \subseteq Coords(query[q].answer)

\* tests/server.rs: "never fewer -- data must not be lost".  Violated: a chunk
\* whose first timestamp of a series is that of an earlier chunk takes its entry
\* in time_index, and with it every other point of that chunk.
FlushedTimestampsStayReachable == Coords(flushed) \subseteq Coords(Reachable(index))

\* tests/server.rs: "data remains fully queryable after a subsequent restart"
\* once a snapshot covers it.  A restart loads the snapshot file.  Violated: a
\* compaction deletes files the snapshot names before a later snapshot names
\* the merged file.
SnapshotFilesExist == \A e \in snapshot.time_index : e.chunk \in on_disk

=============================================================================
