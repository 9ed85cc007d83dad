--------------------------- MODULE StorageServer ---------------------------
(***************************************************************************)
(* The durability pipeline of StorageServer: the Append handler, one       *)
(* group-commit WAL per shard, the memtables, the sweep task (flush,       *)
(* watermark, WAL garbage collection), the index snapshots, a crash of the *)
(* process, and StorageServer::open, which recovers from it.               *)
(*                                                                         *)
(* Data is abstracted to the identity of the request that wrote it: the    *)
(* group of points request r sends to shard s is `r in shard s', wherever  *)
(* it is (a WAL frame, a memtable, a chunk).  Chunk files and the index    *)
(* entries pointing at them are one thing here, the set of requests whose  *)
(* points a registered chunk holds; module ChunkStore takes them apart.    *)
(* The WAL task commits at the granularity of one frame written and one    *)
(* fsync per batch; module GroupCommit models its channel and its segment  *)
(* files in detail, with torn frames and failing rotations.                *)
(***************************************************************************)
EXTENDS Integers, FiniteSets

CONSTANTS Reqs,          \* Append requests, each sent at most once
          NumShards,     \* config.num_shards
          Snapshotters,  \* the snapshot ticker and concurrent Snapshot RPCs
          SegmentCap,    \* wal_max_segment_bytes, in frames
          FlushAt,       \* the shard flush threshold, in requests
          MaxCrashes,    \* bound: crashes of the process
          MaxFaults      \* bound: failing I/O operations

ASSUME ReqsAssumption == IsFiniteSet(Reqs)
ASSUME NumShardsAssumption == NumShards \in Nat \ {0}
ASSUME BoundsAssumption == /\ SegmentCap \in Nat \ {0} /\ FlushAt \in Nat \ {0}
                           /\ MaxCrashes \in Nat /\ MaxFaults \in Nat

Shards == 0 .. NumShards - 1
NoShards == [s \in Shards |-> {}]
ZeroSeqs == [s \in Shards |-> 0]

\* u64::MAX as the recorded maximum of a segment: above every sequence number.
U64MAX == -1

VARIABLES
  mode,            \* "down", "shard" and "delete" (inside open), "up"
  open_shard,      \* the shard open() is working on
  \* Append handlers
  phase,           \* of each request: its place in the handler
  route,           \* shards its points hash to
  to_insert,       \* shards whose memtable insert is still to come
  append_seq, token,   \* the ack counter, and the token each ack returned
  \* per-shard WAL task, and the segment files on disk
  pending,         \* appends sent and not yet received by the task
  batch,           \* frames written and not yet fsynced
  wal_ok, wal_err, \* appends the task has answered with Ok, with Err
  current_seq, last_seq, current_segment, current_size, completed_segments,
  segments, frames,
  \* memtables, index, watermarks
  memtables, indexed, shard_watermarks, persisted_watermarks,
  \* sweep task
  sweep_pc, sweep_shard, drained, gc_seq, doomed,
  \* snapshots: the tasks, and the file at snapshot_path
  snap_pc, snap_loaded, snap_watermarks, snap_indexed,
  \* environment bounds
  crashes, faults,
  \* observation only: how a logged request may leave the protected set
  open_watermark, overtaken, reused, dropped

handlerVars == <<phase, route, to_insert, append_seq, token>>
walVars == <<pending, batch, wal_ok, wal_err, current_seq, last_seq,
             current_segment, current_size, completed_segments>>
walDisk == <<segments, frames>>
memVars == <<memtables, indexed, shard_watermarks, persisted_watermarks>>
sweepVars == <<sweep_pc, sweep_shard, drained, gc_seq, doomed>>
snapTasks == <<snap_pc, snap_loaded>>
snapDisk == <<snap_watermarks, snap_indexed>>
bounds == <<crashes, faults>>
ghosts == <<open_watermark, overtaken, reused, dropped>>
vars == <<mode, open_shard, handlerVars, walVars, walDisk, memVars, sweepVars,
          snapTasks, snapDisk, bounds, ghosts>>

Frame == [seg : Nat, seq : Nat, req : Reqs]
Segment == [seg : Nat, max_seq : Nat \cup {U64MAX}]

Fault == faults < MaxFaults /\ faults' = faults + 1

Init ==
  /\ mode = "down" /\ open_shard = 0
  /\ phase = [r \in Reqs |-> "idle"]
  /\ route = [r \in Reqs |-> {}] /\ to_insert = [r \in Reqs |-> {}]
  /\ append_seq = 0 /\ token = [r \in Reqs |-> 0]
  /\ pending = NoShards /\ batch = NoShards
  /\ wal_ok = NoShards /\ wal_err = NoShards
  /\ current_seq = ZeroSeqs /\ last_seq = ZeroSeqs
  /\ current_segment = ZeroSeqs /\ current_size = ZeroSeqs
  /\ completed_segments = NoShards
  /\ segments = NoShards /\ frames = NoShards
  /\ memtables = NoShards /\ indexed = NoShards
  /\ shard_watermarks = ZeroSeqs /\ persisted_watermarks = ZeroSeqs
  /\ sweep_pc = "visit" /\ sweep_shard = 0 /\ drained = {}
  /\ gc_seq = 0 /\ doomed = {}
  /\ snap_pc = [k \in Snapshotters |-> "idle"]
  /\ snap_loaded = [k \in Snapshotters |-> ZeroSeqs]
  /\ snap_watermarks = ZeroSeqs /\ snap_indexed = NoShards
  /\ crashes = 0 /\ faults = 0
  /\ open_watermark = ZeroSeqs
  /\ overtaken = NoShards /\ reused = NoShards /\ dropped = NoShards

-----------------------------------------------------------------------------
(* The Append handler *)

\* Decode, route to shards, and spawn one WAL append per shard.  An empty
\* request has no shard.
Append(r, S) ==
  /\ mode = "up" /\ phase[r] = "idle"
  /\ phase' = [phase EXCEPT ![r] = "wal"]
  /\ route' = [route EXCEPT ![r] = S]
  /\ to_insert' = [to_insert EXCEPT ![r] = S]
  /\ pending' = [s \in Shards |-> IF s \in S THEN pending[s] \cup {r} ELSE pending[s]]
  /\ UNCHANGED <<mode, open_shard, append_seq, token, batch, wal_ok, wal_err,
                 current_seq, last_seq, current_segment, current_size,
                 completed_segments, walDisk, memVars, sweepVars, snapTasks,
                 snapDisk, bounds, ghosts>>

\* Mutant: the handler goes on as soon as one shard has logged the request.
AllLogged_AnyShard(r) == route[r] = {} \/ \E s \in route[r] : r \in wal_ok[s]

AllLogged(r) == \A s \in route[r] : r \in wal_ok[s]

\* The `?' on the awaited handles, taken in shard order.
FirstError(r) == \E s \in route[r] : /\ r \in wal_err[s]
                                     /\ \A t \in route[r] : t < s => r \in wal_ok[t]

AppendLogged(r) ==
  /\ mode = "up" /\ phase[r] = "wal" /\ AllLogged(r)
  /\ phase' = [phase EXCEPT ![r] = "insert"]
  /\ UNCHANGED <<mode, open_shard, route, to_insert, append_seq, token, walVars,
                 walDisk, memVars, sweepVars, snapTasks, snapDisk, bounds, ghosts>>

AppendFail(r) ==
  /\ mode = "up" /\ phase[r] = "wal" /\ FirstError(r)
  /\ phase' = [phase EXCEPT ![r] = "failed"]
  /\ UNCHANGED <<mode, open_shard, route, to_insert, append_seq, token, walVars,
                 walDisk, memVars, sweepVars, snapTasks, snapDisk, bounds, ghosts>>

\* One shard's group, inserted under that shard's memtable lock.
AppendInsert(r, s) ==
  /\ mode = "up" /\ phase[r] = "insert"
  /\ s \in to_insert[r] /\ \A t \in to_insert[r] : s <= t
  /\ memtables' = [memtables EXCEPT ![s] = @ \cup {r}]
  /\ to_insert' = [to_insert EXCEPT ![r] = @ \ {s}]
  /\ UNCHANGED <<mode, open_shard, phase, route, append_seq, token, walVars,
                 walDisk, indexed, shard_watermarks, persisted_watermarks,
                 sweepVars, snapTasks, snapDisk, bounds, ghosts>>

AppendReply(r) ==
  /\ mode = "up" /\ phase[r] = "insert" /\ to_insert[r] = {}
  /\ phase' = [phase EXCEPT ![r] = "acked"]
  /\ append_seq' = append_seq + 1
  /\ token' = [token EXCEPT ![r] = append_seq + 1]
  /\ UNCHANGED <<mode, open_shard, route, to_insert, walVars, walDisk, memVars,
                 sweepVars, snapTasks, snapDisk, bounds, ghosts>>

-----------------------------------------------------------------------------
\* Mutant: the shard loop does not stop at the last shard.
NextShard_NoWrap(s) == s + 1

\* Mutant: every visit leaves the loop.
NextShard_Leaves(s) == 0

\* The sweep goes on to the next shard of its loop; after the last one, the next tick's first.
NextShard(s) == IF s = NumShards - 1 THEN 0 ELSE s + 1

SweepAdvance == /\ sweep_pc' = "visit" /\ sweep_shard' = NextShard(sweep_shard)

(* The WAL task of shard s and its WalWriter *)

\* The task takes an append off its channel, numbers it and writes its frame.
\* It has first finished the previous batch, its size rotation included.
WalWrite(s, r) ==
  LET seq == current_seq[s] + 1 IN
  /\ mode = "up" /\ r \in pending[s] /\ current_size[s] < SegmentCap
  /\ pending' = [pending EXCEPT ![s] = @ \ {r}]
  /\ batch' = [batch EXCEPT ![s] = @ \cup {r}]
  /\ current_seq' = [current_seq EXCEPT ![s] = seq]
  /\ frames' = [frames EXCEPT ![s] =
                  @ \cup {[seg |-> current_segment[s], seq |-> seq, req |-> r]}]
  /\ reused' = [reused EXCEPT ![s] = IF seq <= open_watermark[s] THEN @ \cup {r} ELSE @]
  /\ UNCHANGED <<mode, open_shard, handlerVars, wal_ok, wal_err, last_seq,
                 current_segment, current_size, completed_segments, segments,
                 memVars, sweepVars, snapTasks, snapDisk, bounds,
                 open_watermark, overtaken, dropped>>

\* fsync succeeded: publish last_seq, then answer every append of the batch.
WalSync(s) ==
  /\ mode = "up" /\ batch[s] # {}
  /\ last_seq' = [last_seq EXCEPT ![s] = current_seq[s]]
  /\ wal_ok' = [wal_ok EXCEPT ![s] = @ \cup batch[s]]
  /\ current_size' = [current_size EXCEPT ![s] = @ + Cardinality(batch[s])]
  /\ batch' = [batch EXCEPT ![s] = {}]
  /\ UNCHANGED <<mode, open_shard, handlerVars, pending, wal_err, current_seq,
                 current_segment, completed_segments, walDisk, memVars,
                 sweepVars, snapTasks, snapDisk, bounds, ghosts>>

\* Mutant: the error arm forgets the appends of the batch.
WalFail_NoReply(s) ==
  /\ mode = "up" /\ batch[s] # {} /\ Fault
  /\ batch' = [batch EXCEPT ![s] = {}]
  /\ UNCHANGED <<mode, open_shard, handlerVars, pending, wal_ok, wal_err,
                 current_seq, last_seq, current_segment, current_size,
                 completed_segments, walDisk, memVars, sweepVars, snapTasks,
                 snapDisk, crashes, ghosts>>

\* The write failed before its first byte, or the fsync after the last one.
\* current_seq keeps the numbers of the failed batch, and a DrainBefore that
\* was received with the batch fails with it.
WalFail(s) ==
  /\ mode = "up" /\ batch[s] # {} /\ Fault
  /\ wal_err' = [wal_err EXCEPT ![s] = @ \cup batch[s]]
  /\ batch' = [batch EXCEPT ![s] = {}]
  /\ \E lost \in {{}, batch[s]} :
       frames' = [frames EXCEPT ![s] = {f \in @ : f.req \notin lost}]
  /\ \/ UNCHANGED <<sweep_pc, sweep_shard, gc_seq>>
     \/ sweep_pc = "drain" /\ sweep_shard = s /\ SweepAdvance /\ gc_seq' = 0
  /\ UNCHANGED <<mode, open_shard, handlerVars, pending, wal_ok, current_seq,
                 last_seq, current_segment, current_size, completed_segments,
                 segments, memVars, drained, doomed, snapTasks, snapDisk,
                 crashes, ghosts>>

\* WalWriter::rotate, once a committed batch has filled the segment.
WalRotate(s) ==
  /\ mode = "up" /\ batch[s] = {} /\ current_size[s] >= SegmentCap
  /\ completed_segments' = [completed_segments EXCEPT ![s] =
       @ \cup {[seg |-> current_segment[s], max_seq |-> current_seq[s]]}]
  /\ current_segment' = [current_segment EXCEPT ![s] = @ + 1]
  /\ segments' = [segments EXCEPT ![s] = @ \cup {current_segment[s] + 1}]
  /\ current_size' = [current_size EXCEPT ![s] = 0]
  /\ UNCHANGED <<mode, open_shard, handlerVars, pending, batch, wal_ok, wal_err,
                 current_seq, last_seq, frames, memVars, sweepVars, snapTasks,
                 snapDisk, bounds, ghosts>>

\* WalWriter::drain_completed_before: which completed segments go.
Drainable(completed, flushed_seq) ==
  {c \in completed : c.max_seq # U64MAX /\ c.max_seq <= flushed_seq}

\* Removing a segment file removes its frames.
RemoveSegment(s, n) ==
  /\ segments' = [segments EXCEPT ![s] = @ \ {n}]
  /\ frames' = [frames EXCEPT ![s] = {f \in @ : f.seg # n}]

-----------------------------------------------------------------------------
(* The sweep task: for each shard flush, watermark, WAL GC *)

\* Memtable::should_flush
ShouldFlush(s) == Cardinality(memtables[s]) >= FlushAt

SweepSkip ==
  /\ mode = "up" /\ sweep_pc = "visit" /\ ~ShouldFlush(sweep_shard)
  /\ SweepAdvance
  /\ UNCHANGED <<mode, open_shard, handlerVars, walVars, walDisk, memVars,
                 drained, gc_seq, doomed, snapTasks, snapDisk, bounds, ghosts>>

\* Memtable::drain, under the shard's lock.
SweepDrain ==
  /\ mode = "up" /\ sweep_pc = "visit" /\ ShouldFlush(sweep_shard)
  /\ drained' = memtables[sweep_shard]
  /\ memtables' = [memtables EXCEPT ![sweep_shard] = {}]
  /\ sweep_pc' = "write"
  /\ UNCHANGED <<mode, open_shard, handlerVars, walVars, walDisk, indexed,
                 shard_watermarks, persisted_watermarks, sweep_shard, gc_seq,
                 doomed, snapTasks, snapDisk, bounds, ghosts>>

SweepWrite ==
  /\ mode = "up" /\ sweep_pc = "write"
  /\ sweep_pc' = "register"
  /\ UNCHANGED <<mode, open_shard, handlerVars, walVars, walDisk, memVars,
                 sweep_shard, drained, gc_seq, doomed, snapTasks, snapDisk,
                 bounds, ghosts>>

\* The Err arm: the error is logged, and the drained points are gone.
SweepWriteFail ==
  /\ mode = "up" /\ sweep_pc = "write" /\ Fault
  /\ drained' = {}
  /\ SweepAdvance
  /\ UNCHANGED <<mode, open_shard, handlerVars, walVars, walDisk, memVars,
                 gc_seq, doomed, snapTasks, snapDisk, crashes, ghosts>>

\* A snapshot holds the index read lock from before its save to after its
\* publication of the persisted watermarks.
IndexReadLocked == \E k \in Snapshotters : snap_pc[k] \in {"save", "publish"}

\* Mutant: the memtable is emptied once its chunk is registered.
SweepRegister_ClearsLate ==
  /\ mode = "up" /\ sweep_pc = "register" /\ ~IndexReadLocked
  /\ indexed' = [indexed EXCEPT ![sweep_shard] = @ \cup drained]
  /\ memtables' = [memtables EXCEPT ![sweep_shard] = {}]
  /\ drained' = {}
  /\ sweep_pc' = "watermark"
  /\ UNCHANGED <<mode, open_shard, handlerVars, walVars, walDisk,
                 shard_watermarks, persisted_watermarks, sweep_shard, gc_seq,
                 doomed, snapTasks, snapDisk, bounds, ghosts>>

SweepRegister ==
  /\ mode = "up" /\ sweep_pc = "register" /\ ~IndexReadLocked
  /\ indexed' = [indexed EXCEPT ![sweep_shard] = @ \cup drained]
  /\ drained' = {}
  /\ sweep_pc' = "watermark"
  /\ UNCHANGED <<mode, open_shard, handlerVars, walVars, walDisk, memtables,
                 shard_watermarks, persisted_watermarks, sweep_shard, gc_seq,
                 doomed, snapTasks, snapDisk, bounds, ghosts>>

\* The live watermark becomes the WAL's last fsynced sequence number.  The
\* logged requests it now covers without a chunk holding them are `overtaken'.
SweepWatermark ==
  LET s == sweep_shard IN
  /\ mode = "up" /\ sweep_pc = "watermark"
  /\ shard_watermarks' = [shard_watermarks EXCEPT ![s] = last_seq[s]]
  /\ overtaken' = [overtaken EXCEPT ![s] =
       @ \cup ({f.req : f \in {g \in frames[s] : g.seq <= last_seq[s]}} \ indexed[s])]
  /\ sweep_pc' = "gc"
  /\ UNCHANGED <<mode, open_shard, handlerVars, walVars, walDisk, memtables,
                 indexed, persisted_watermarks, sweep_shard, drained, gc_seq,
                 doomed, snapTasks, snapDisk, bounds, open_watermark, reused,
                 dropped>>

\* Mutant: WAL GC follows the live watermark.
GcBound_Live(s) == shard_watermarks[s]

\* WAL GC is gated on the watermark of the last published snapshot.
GcBound(s) == persisted_watermarks[s]

SweepGcLoad ==
  /\ mode = "up" /\ sweep_pc = "gc"
  /\ gc_seq' = GcBound(sweep_shard)
  /\ sweep_pc' = "drain"
  /\ UNCHANGED <<mode, open_shard, handlerVars, walVars, walDisk, memVars,
                 sweep_shard, drained, doomed, snapTasks, snapDisk, bounds, ghosts>>

\* The WAL task answers DrainBefore between two batches.
SweepGcDrain ==
  LET s == sweep_shard
      gone == Drainable(completed_segments[s], gc_seq) IN
  /\ mode = "up" /\ sweep_pc = "drain" /\ batch[s] = {} /\ current_size[s] < SegmentCap
  /\ completed_segments' = [completed_segments EXCEPT ![s] = @ \ gone]
  /\ doomed' = {c.seg : c \in gone}
  /\ gc_seq' = 0
  /\ sweep_pc' = "delete"
  /\ UNCHANGED <<mode, open_shard, handlerVars, pending, batch, wal_ok, wal_err,
                 current_seq, last_seq, current_segment, current_size, walDisk,
                 memVars, sweep_shard, drained, snapTasks, snapDisk, bounds, ghosts>>

SweepGcDelete(n) ==
  /\ mode = "up" /\ sweep_pc = "delete" /\ n \in doomed
  /\ doomed' = doomed \ {n}
  /\ RemoveSegment(sweep_shard, n)
  /\ UNCHANGED <<mode, open_shard, handlerVars, walVars, memVars, sweep_pc,
                 sweep_shard, drained, gc_seq, snapTasks, snapDisk, bounds, ghosts>>

\* A segment whose removal fails stays on disk, and is no longer tracked.
SweepGcDeleteFail(n) ==
  /\ mode = "up" /\ sweep_pc = "delete" /\ n \in doomed /\ Fault
  /\ doomed' = doomed \ {n}
  /\ UNCHANGED <<mode, open_shard, handlerVars, walVars, walDisk, memVars,
                 sweep_pc, sweep_shard, drained, gc_seq, snapTasks, snapDisk,
                 crashes, ghosts>>

SweepGcDone ==
  /\ mode = "up" /\ sweep_pc = "delete" /\ doomed = {}
  /\ SweepAdvance
  /\ UNCHANGED <<mode, open_shard, handlerVars, walVars, walDisk, memVars,
                 drained, gc_seq, doomed, snapTasks, snapDisk, bounds, ghosts>>

-----------------------------------------------------------------------------
(* Index snapshots: the snapshot ticker and the Snapshot RPC are the same code *)

\* Mutant: the snapshot records the WAL's own position.
SnapLoad_WalPosition(k) ==
  /\ mode = "up" /\ snap_pc[k] = "idle"
  /\ snap_loaded' = [snap_loaded EXCEPT ![k] = last_seq]
  /\ snap_pc' = [snap_pc EXCEPT ![k] = "lock"]
  /\ UNCHANGED <<mode, open_shard, handlerVars, walVars, walDisk, memVars,
                 sweepVars, snapDisk, bounds, ghosts>>

\* The live watermarks are read first.  (One action: a shard's value is only
\* ever used with that shard's state, so skew between the loads is invisible.)
SnapLoad(k) ==
  /\ mode = "up" /\ snap_pc[k] = "idle"
  /\ snap_loaded' = [snap_loaded EXCEPT ![k] = shard_watermarks]
  /\ snap_pc' = [snap_pc EXCEPT ![k] = "lock"]
  /\ UNCHANGED <<mode, open_shard, handlerVars, walVars, walDisk, memVars,
                 sweepVars, snapDisk, bounds, ghosts>>

SnapLock(k) ==
  /\ mode = "up" /\ snap_pc[k] = "lock"
  /\ snap_pc' = [snap_pc EXCEPT ![k] = "save"]
  /\ UNCHANGED <<mode, open_shard, handlerVars, walVars, walDisk, memVars,
                 sweepVars, snap_loaded, snapDisk, bounds, ghosts>>

\* save_index: the rename puts the index and the loaded watermarks on disk.
SnapSave(k) ==
  /\ mode = "up" /\ snap_pc[k] = "save"
  /\ snap_watermarks' = snap_loaded[k]
  /\ snap_indexed' = indexed
  /\ snap_pc' = [snap_pc EXCEPT ![k] = "publish"]
  /\ UNCHANGED <<mode, open_shard, handlerVars, walVars, walDisk, memVars,
                 sweepVars, snap_loaded, bounds, ghosts>>

SnapFail(k) ==
  /\ mode = "up" /\ snap_pc[k] = "save" /\ Fault
  /\ snap_pc' = [snap_pc EXCEPT ![k] = "idle"]
  /\ snap_loaded' = [snap_loaded EXCEPT ![k] = ZeroSeqs]
  /\ UNCHANGED <<mode, open_shard, handlerVars, walVars, walDisk, memVars,
                 sweepVars, snapDisk, crashes, ghosts>>

SnapPublish(k) ==
  /\ mode = "up" /\ snap_pc[k] = "publish"
  /\ persisted_watermarks' = snap_loaded[k]
  /\ snap_pc' = [snap_pc EXCEPT ![k] = "idle"]
  /\ snap_loaded' = [snap_loaded EXCEPT ![k] = ZeroSeqs]
  /\ UNCHANGED <<mode, open_shard, handlerVars, walVars, walDisk, memtables,
                 indexed, shard_watermarks, sweepVars, snapDisk, bounds, ghosts>>

-----------------------------------------------------------------------------
(* Crash of the process, and StorageServer::open *)

InFlight == {"wal", "insert"}

\* Memory is lost; the segment files and the snapshot file stay.
Crash ==
  /\ mode # "down" /\ crashes < MaxCrashes
  /\ crashes' = crashes + 1
  /\ mode' = "down" /\ open_shard' = 0
  /\ phase' = [r \in Reqs |-> IF phase[r] \in InFlight THEN "cut" ELSE phase[r]]
  /\ to_insert' = [r \in Reqs |-> {}] /\ append_seq' = 0
  /\ pending' = NoShards /\ batch' = NoShards
  /\ current_seq' = ZeroSeqs /\ last_seq' = ZeroSeqs
  /\ current_segment' = ZeroSeqs /\ current_size' = ZeroSeqs
  /\ completed_segments' = NoShards
  /\ memtables' = NoShards /\ indexed' = NoShards
  /\ shard_watermarks' = ZeroSeqs /\ persisted_watermarks' = ZeroSeqs
  /\ sweep_pc' = "visit" /\ sweep_shard' = 0 /\ drained' = {}
  /\ gc_seq' = 0 /\ doomed' = {}
  /\ snap_pc' = [k \in Snapshotters |-> "idle"]
  /\ snap_loaded' = [k \in Snapshotters |-> ZeroSeqs]
  /\ UNCHANGED <<route, token, wal_ok, wal_err, walDisk, snapDisk, faults, ghosts>>

\* load_index; a missing snapshot is an empty index with watermarks 0.
OpenLoad ==
  /\ mode = "down"
  /\ mode' = "shard" /\ open_shard' = 0
  /\ indexed' = snap_indexed
  /\ open_watermark' = snap_watermarks
  /\ UNCHANGED <<handlerVars, walVars, walDisk, memtables, shard_watermarks,
                 persisted_watermarks, sweepVars, snapTasks, snapDisk, bounds,
                 overtaken, reused, dropped>>

\* recover: the entries above the snapshot's watermark are replayed.
Replayed(s) == {f \in frames[s] : f.seq > snap_watermarks[s]}

\* RecoveryResult.last_sequence
IsLastSequence(s, n) == /\ n \in {f.seq : f \in Replayed(s)} \cup {0}
                        /\ \A f \in Replayed(s) : f.seq <= n

\* highest_segment_number(..).unwrap_or(1)
IsHighestSegment(s, n) == /\ n \in segments[s] \cup {1}
                          /\ \A m \in segments[s] : m <= n

\* Everything replayed is in the recovery chunk now, or nothing was replayed.
DrainThreshold(s, last) == IF Replayed(s) # {} THEN last ELSE snap_watermarks[s]

\* What WalWriter::open and the rotation after it record as completed: the
\* segments below the highest, and the highest itself if the shard had one.
CompletedAtOpen(s, last, high) ==
  {[seg |-> n, max_seq |-> U64MAX] : n \in 1 .. high - 1} \cup
  (IF segments[s] # {} THEN {[seg |-> high, max_seq |-> last]} ELSE {})

\* One shard: replay into a registered recovery chunk, open the WAL writer at
\* the highest segment, rotate it if there was a segment, drain.
RecoverShard(s, last, high) ==
  LET completed == CompletedAtOpen(s, last, high)
      gone == Drainable(completed, DrainThreshold(s, last))
      active == IF segments[s] # {} THEN high + 1 ELSE high IN
  /\ mode = "shard" /\ IsLastSequence(s, last) /\ IsHighestSegment(s, high)
  /\ indexed' = [indexed EXCEPT ![s] = @ \cup {f.req : f \in Replayed(s)}]
  /\ current_seq' = [current_seq EXCEPT ![s] = last]
  /\ last_seq' = [last_seq EXCEPT ![s] = last]
  /\ current_segment' = [current_segment EXCEPT ![s] = active]
  /\ segments' = [segments EXCEPT ![s] = @ \cup {active}]
  /\ completed_segments' = [completed_segments EXCEPT ![s] = completed \ gone]
  /\ doomed' = {c.seg : c \in gone}
  /\ mode' = "delete"
  /\ UNCHANGED <<open_shard, handlerVars, pending, batch, wal_ok, wal_err,
                 current_size, frames, memtables, shard_watermarks,
                 persisted_watermarks, sweep_pc, sweep_shard, drained, gc_seq,
                 snapTasks, snapDisk, bounds, ghosts>>

OpenShard ==
  \E last \in {f.seq : f \in frames[open_shard]} \cup {0},
     high \in segments[open_shard] \cup {1} : RecoverShard(open_shard, last, high)

\* The entries of a segment removed here that the snapshot on disk does not
\* hold are `dropped': only the memory of this process knows their chunk.
OpenDelete(n) ==
  LET s == open_shard IN
  /\ mode = "delete" /\ n \in doomed
  /\ doomed' = doomed \ {n}
  /\ RemoveSegment(s, n)
  /\ dropped' = [dropped EXCEPT ![s] =
       @ \cup ({f.req : f \in {g \in frames[s] : g.seg = n}} \ snap_indexed[s])]
  /\ UNCHANGED <<mode, open_shard, handlerVars, walVars, memVars, sweep_pc,
                 sweep_shard, drained, gc_seq, snapTasks, snapDisk, bounds,
                 open_watermark, overtaken, reused>>

OpenDeleteFail(n) ==
  /\ mode = "delete" /\ n \in doomed /\ Fault
  /\ doomed' = doomed \ {n}
  /\ UNCHANGED <<mode, open_shard, handlerVars, walVars, walDisk, memVars,
                 sweep_pc, sweep_shard, drained, gc_seq, snapTasks, snapDisk,
                 crashes, ghosts>>

OpenNext ==
  /\ mode = "delete" /\ doomed = {} /\ open_shard < NumShards - 1
  /\ mode' = "shard" /\ open_shard' = open_shard + 1
  /\ UNCHANGED <<handlerVars, walVars, walDisk, memVars, sweepVars, snapTasks,
                 snapDisk, bounds, ghosts>>

\* Live watermarks start at 0, the persisted ones at the snapshot's.
OpenDone ==
  /\ mode = "delete" /\ doomed = {} /\ open_shard = NumShards - 1
  /\ mode' = "up" /\ open_shard' = 0
  /\ persisted_watermarks' = snap_watermarks
  /\ UNCHANGED <<handlerVars, walVars, walDisk, memtables, indexed,
                 shard_watermarks, sweepVars, snapTasks, snapDisk, bounds, ghosts>>

-----------------------------------------------------------------------------
Handler(r) == \/ \E S \in SUBSET Shards : Append(r, S)
              \/ AppendLogged(r) \/ AppendFail(r) \/ AppendReply(r)
              \/ \E s \in Shards : AppendInsert(r, s)
WalTask(s) == \/ \E r \in Reqs : WalWrite(s, r)
              \/ WalSync(s) \/ WalFail(s) \/ WalRotate(s)
Sweep == \/ SweepSkip \/ SweepDrain \/ SweepWrite \/ SweepWriteFail
         \/ SweepRegister \/ SweepWatermark \/ SweepGcLoad \/ SweepGcDrain
         \/ \E n \in doomed : SweepGcDelete(n) \/ SweepGcDeleteFail(n)
         \/ SweepGcDone
Snapshot(k) == SnapLoad(k) \/ SnapLock(k) \/ SnapSave(k) \/ SnapFail(k) \/ SnapPublish(k)
Open == \/ OpenLoad \/ OpenShard \/ OpenNext \/ OpenDone
        \/ \E n \in doomed : OpenDelete(n) \/ OpenDeleteFail(n)

Next == \/ \E r \in Reqs : Handler(r)
        \/ \E s \in Shards : WalTask(s)
        \/ Sweep
        \/ \E k \in Snapshotters : Snapshot(k)
        \/ Crash \/ Open

Spec == Init /\ [][Next]_vars

-----------------------------------------------------------------------------
(* Fairness: tokio polls every runnable task, every timer fires, and a       *)
(* started I/O operation returns.  Its RwLock queues a waiting writer ahead   *)
(* of later readers, so the flush is not starved by a stream of snapshots.    *)
(* Nobody has to send a request, and nothing has to fail or crash.            *)

FairSpec ==
  /\ Spec
  /\ \A r \in Reqs : /\ WF_vars(AppendLogged(r)) /\ WF_vars(AppendFail(r))
                     /\ WF_vars(\E s \in Shards : AppendInsert(r, s))
                     /\ WF_vars(AppendReply(r))
  /\ \A s \in Shards : /\ WF_vars(\E r \in Reqs : WalWrite(s, r))
                       /\ WF_vars(WalSync(s)) /\ WF_vars(WalRotate(s))
  /\ WF_vars(Sweep) /\ SF_vars(SweepRegister) /\ SF_vars(SweepGcDrain)
  /\ \A k \in Snapshotters : WF_vars(SnapSave(k)) /\ WF_vars(SnapPublish(k))
  /\ WF_vars(Open)

-----------------------------------------------------------------------------
(* Properties *)

Phases == {"idle", "wal", "insert", "acked", "failed", "cut"}
SweepPcs == {"visit", "write", "register", "watermark", "gc", "drain", "delete"}
SnapPcs == {"idle", "lock", "save", "publish"}

\* Every variable keeps its type; in particular the loops of the sweep and of
\* open() stay within the shards, and only the shard's own segments are tracked.
TypeOK ==
  /\ mode \in {"down", "shard", "delete", "up"} /\ open_shard \in Shards
  /\ phase \in [Reqs -> Phases] /\ route \in [Reqs -> SUBSET Shards]
  /\ to_insert \in [Reqs -> SUBSET Shards]
  /\ append_seq \in Nat /\ token \in [Reqs -> Nat]
  /\ pending \in [Shards -> SUBSET Reqs] /\ batch \in [Shards -> SUBSET Reqs]
  /\ wal_ok \in [Shards -> SUBSET Reqs] /\ wal_err \in [Shards -> SUBSET Reqs]
  /\ current_seq \in [Shards -> Nat] /\ last_seq \in [Shards -> Nat]
  /\ current_segment \in [Shards -> Nat] /\ current_size \in [Shards -> Nat]
  /\ completed_segments \in [Shards -> SUBSET Segment]
  /\ segments \in [Shards -> SUBSET Nat] /\ frames \in [Shards -> SUBSET Frame]
  /\ memtables \in [Shards -> SUBSET Reqs] /\ indexed \in [Shards -> SUBSET Reqs]
  /\ shard_watermarks \in [Shards -> Nat] /\ persisted_watermarks \in [Shards -> Nat]
  /\ sweep_pc \in SweepPcs /\ sweep_shard \in Shards /\ drained \in SUBSET Reqs
  /\ gc_seq \in Nat /\ doomed \in SUBSET Nat
  /\ snap_pc \in [Snapshotters -> SnapPcs]
  /\ snap_loaded \in [Snapshotters -> [Shards -> Nat]]
  /\ snap_watermarks \in [Shards -> Nat] /\ snap_indexed \in [Shards -> SUBSET Reqs]
  /\ crashes \in Nat /\ faults \in Nat
  /\ open_watermark \in [Shards -> Nat]
  /\ overtaken \in [Shards -> SUBSET Reqs] /\ reused \in [Shards -> SUBSET Reqs]
  /\ dropped \in [Shards -> SUBSET Reqs]

\* What open() would make queryable again if the process crashed now.
Recoverable(s) == snap_indexed[s] \cup {f.req : f \in Replayed(s)}

\* A request may become unrecoverable in three ways only: a flush moved the
\* live watermark over it before it reached a chunk, it was logged under a
\* sequence number that an earlier incarnation had already put below the
\* snapshot's watermark, or open() removed its segment before a snapshot.
Exposed(s) == overtaken[s] \cup reused[s] \cup dropped[s]

\* Every acknowledged request survives a crash at any moment, in every shard,
\* unless it is exposed in one of those three ways: the flush, snapshot and
\* WAL GC protocol (register, then watermark; load watermarks, then index;
\* GC on persisted watermarks only) opens no fourth way to lose it.
AckedRecoverableUnlessExposed ==
  \A r \in Reqs, s \in Shards :
    phase[r] = "acked" /\ s \in route[r] => r \in Recoverable(s) \cup Exposed(s)

\* The snapshot file is consistent: whatever its watermark tells recovery to
\* skip is in the index it holds (or was exposed).  This is why the watermarks
\* are loaded before the index lock and stored after the flush registers.
SnapshotCoversWatermark ==
  \A s \in Shards : \A f \in frames[s] :
    f.seq <= snap_watermarks[s] => f.req \in snap_indexed[s] \cup Exposed(s)

\* Points of a request in a memtable were fsynced by every shard the request
\* touches, though shards log in parallel and one of them may fail ("WAL fsync is
\* complete for all shards before any insert happens").
WalBeforeMemtable ==
  \A s \in Shards : \A r \in memtables[s] : \A t \in route[r] : r \in wal_ok[t]

\* Nothing acknowledged falls between memtable, flush and index while the
\* process runs, however appends interleave with the drain of the sweep; only
\* a failed chunk write (a fault) may drop it.
AckedStaysInEngine ==
  faults = 0 /\ crashes = 0 =>
    \A r \in Reqs, s \in Shards :
      phase[r] = "acked" /\ s \in route[r] =>
        \/ r \in memtables[s] \cup indexed[s]
        \/ r \in drained /\ sweep_shard = s

\* Every Append is answered: with Ok, with an error, or by the crash that cuts
\* its connection.  No order of batches, errors and rotations leaves the
\* handler waiting on a WAL reply that never comes.
AppendsAnswered ==
  \A r \in Reqs : phase[r] \in InFlight ~> phase[r] \in {"acked", "failed", "cut"}

\* A request in a memtable that is due for a flush reaches the chunk index (no
\* fault): the sweep visits every shard again and again, and neither snapshots
\* holding the index lock nor the WAL task stop it for good.
DueMemtableIsIndexed ==
  \A r \in Reqs, s \in Shards :
    (r \in memtables[s] /\ ShouldFlush(s)) ~> (r \in indexed[s] \/ mode # "up" \/ faults > 0)

-----------------------------------------------------------------------------
(* What a comment says, and the code does not do *)

\* Every acknowledged request survives a crash: "WAL durability guarantees no
\* data loss on crash" (the sweep).  Violated: the flush reads the WAL position
\* after it has drained and registered, not before, and so moves the watermark
\* over requests that are logged and not yet in a chunk.
AckedRecoverable ==
  \A r \in Reqs, s \in Shards :
    phase[r] = "acked" /\ s \in route[r] => r \in Recoverable(s)

=============================================================================
