----------------------- MODULE StorageServerInvariant -----------------------
(***************************************************************************)
(* The inductive invariant behind the two durability theorems.             *)
(*                                                                         *)
(* A frame may leave the WAL, or be skipped by recovery, only if its       *)
(* request is kept by the snapshot file or exposed.  Whatever number the   *)
(* code compares a frame's sequence number with, from the live watermark   *)
(* to the segments about to be deleted, must therefore cover only frames   *)
(* whose requests are in the index (numbers not yet saved) or in the       *)
(* snapshot (numbers that are); and because numbering restarts, a new      *)
(* frame must lie above all of them unless it reuses a number.             *)
(***************************************************************************)
EXTENDS StorageServer, FiniteSetTheorems, TLAPS

(* Type correctness, for every set of requests and snapshotters, every number of *)
(* shards and every bound. *)

\* A shard's batch is finite, so committing it keeps current_size a number.
LEMMA BatchCardinality ==
  ASSUME NEW B \in SUBSET Reqs
  PROVE  Cardinality(B) \in Nat
BY ReqsAssumption, FS_Subset, FS_CardinalityType, Zenon

\* The sweep's shard loop stays within the shards.
LEMMA NextShardType ==
  ASSUME NEW s \in Shards
  PROVE  NextShard(s) \in Shards
BY NumShardsAssumption DEF NextShard, Shards

\* Before the first open() every variable has its type.
LEMMA InitType == Init => TypeOK
BY NumShardsAssumption
   DEF Init, TypeOK, NoShards, ZeroSeqs, Shards, Phases, SweepPcs, SnapPcs

\* Every step keeps the type invariant, one step of the proof per action.
LEMMA NextType == TypeOK /\ [Next]_vars => TypeOK'
<1> SUFFICES ASSUME TypeOK, [Next]_vars PROVE TypeOK'
  BY Zenon
<1> USE DEF TypeOK, handlerVars, walVars, walDisk, memVars, sweepVars,
            snapTasks, snapDisk, bounds, ghosts
<1>1. ASSUME NEW r \in Reqs, Handler(r) PROVE TypeOK'
  <2>1. ASSUME NEW S \in SUBSET Shards, Append(r, S) PROVE TypeOK'
    BY <2>1, Zenon DEF Append, Phases
  <2>2. CASE AppendLogged(r)
    BY <2>2, Zenon DEF AppendLogged, Phases
  <2>3. CASE AppendFail(r)
    BY <2>3, Zenon DEF AppendFail, Phases
  <2>4. CASE AppendReply(r)
    BY <2>4 DEF AppendReply, Phases
  <2>5. ASSUME NEW s \in Shards, AppendInsert(r, s) PROVE TypeOK'
    BY <2>5, Zenon DEF AppendInsert
  <2> QED
    BY Zenon, <1>1, <2>1, <2>2, <2>3, <2>4, <2>5 DEF Handler
<1>2. ASSUME NEW s \in Shards, WalTask(s) PROVE TypeOK'
  <2>1. ASSUME NEW r \in Reqs, WalWrite(s, r) PROVE TypeOK'
    BY <2>1 DEF WalWrite, Frame
  <2>2. CASE WalSync(s)
    <3>1. Cardinality(batch[s]) \in Nat
      BY BatchCardinality, Zenon
    <3> QED
      BY <2>2, <3>1 DEF WalSync
  <2>3. CASE WalFail(s)
    <3>1. NextShard(sweep_shard) \in Shards
      BY NextShardType, Zenon
    <3> QED
      BY <2>3, <3>1 DEF WalFail, SweepAdvance, Fault, SweepPcs
  <2>4. CASE WalRotate(s)
    BY <2>4 DEF WalRotate, Segment
  <2> QED
    BY Zenon, <1>2, <2>1, <2>2, <2>3, <2>4 DEF WalTask
<1>3. CASE Sweep
  <2>0. NextShard(sweep_shard) \in Shards
    BY NextShardType, Zenon
  <2>1. CASE SweepSkip \/ SweepDrain \/ SweepWrite
    BY Zenon, <2>0, <2>1 DEF SweepSkip, SweepDrain, SweepWrite, SweepAdvance, SweepPcs
  <2>2. CASE SweepWriteFail
    BY <2>0, <2>2 DEF SweepWriteFail, SweepAdvance, Fault, SweepPcs
  <2>7. CASE SweepRegister
    BY <2>7, Zenon DEF SweepRegister, SweepPcs
  <2>3. CASE SweepWatermark
    BY <2>3 DEF SweepWatermark, SweepPcs, Frame
  <2>4. CASE SweepGcLoad \/ SweepGcDone
    BY Zenon, <2>0, <2>4 DEF SweepGcLoad, GcBound, SweepGcDone, SweepAdvance, SweepPcs
  <2>5. CASE SweepGcDrain
    BY <2>5 DEF SweepGcDrain, Drainable, SweepPcs, Segment
  <2>6. ASSUME NEW n \in doomed, SweepGcDelete(n) PROVE TypeOK'
    BY <2>6, Zenon DEF SweepGcDelete, RemoveSegment
  <2>8. ASSUME NEW n \in doomed, SweepGcDeleteFail(n) PROVE TypeOK'
    BY <2>8 DEF SweepGcDeleteFail, Fault
  <2> QED
    BY Zenon, <1>3, <2>1, <2>2, <2>3, <2>4, <2>5, <2>6, <2>7, <2>8 DEF Sweep
<1>4. ASSUME NEW k \in Snapshotters, Snapshot(k) PROVE TypeOK'
  <2>0. ZeroSeqs \in [Shards -> Nat]
    BY Zenon DEF ZeroSeqs
  <2>1. CASE SnapLoad(k)
    BY <2>1, Zenon DEF SnapLoad, SnapPcs
  <2>2. CASE SnapLock(k)
    BY <2>2, Zenon DEF SnapLock, SnapPcs
  <2>3. CASE SnapSave(k)
    BY <2>3, Zenon DEF SnapSave, SnapPcs
  <2>4. CASE SnapFail(k)
    BY <2>0, <2>4 DEF SnapFail, Fault, SnapPcs
  <2>5. CASE SnapPublish(k)
    BY <2>0, <2>5, Zenon DEF SnapPublish, SnapPcs
  <2> QED
    BY Zenon, <1>4, <2>1, <2>2, <2>3, <2>4, <2>5 DEF Snapshot
<1>5. CASE Crash
  <2>1. ZeroSeqs \in [Shards -> Nat] /\ 0 \in Shards
    BY NumShardsAssumption DEF ZeroSeqs, Shards
  <2>2. NoShards \in [Shards -> SUBSET Reqs] /\ NoShards \in [Shards -> SUBSET Segment]
    BY Zenon DEF NoShards
  <2> QED
    BY <1>5, <2>1, <2>2 DEF Crash, Phases, SweepPcs, SnapPcs
<1>6. CASE Open
  <2>0. 0 \in Shards
    BY NumShardsAssumption DEF Shards
  <2>1. CASE OpenLoad
    BY <2>0, <2>1, Zenon DEF OpenLoad
  <2>4. CASE OpenNext
    <3>1. open_shard' \in Shards
      BY <2>4, NumShardsAssumption DEF OpenNext, Shards
    <3> QED
      BY <2>4, <3>1, Zenon DEF OpenNext
  <2>5. CASE OpenDone
    BY <2>0, <2>5, Zenon DEF OpenDone
  <2>2. CASE OpenShard
    <3>1. PICK last \in {f.seq : f \in frames[open_shard]} \cup {0},
               high \in segments[open_shard] \cup {1} :
                 RecoverShard(open_shard, last, high)
      BY <2>2, Zenon DEF OpenShard
    <3>2. last \in Nat /\ high \in Nat
      BY DEF Frame
    <3>a. /\ indexed' = [indexed EXCEPT ![open_shard] = @ \cup {f.req : f \in Replayed(open_shard)}]
          /\ current_seq' = [current_seq EXCEPT ![open_shard] = last]
          /\ last_seq' = [last_seq EXCEPT ![open_shard] = last]
          /\ \E n \in {high, high + 1} :
               /\ current_segment' = [current_segment EXCEPT ![open_shard] = n]
               /\ segments' = [segments EXCEPT ![open_shard] = @ \cup {n}]
          /\ \E q : completed_segments' = [completed_segments EXCEPT ![open_shard] =
                CompletedAtOpen(open_shard, last, high) \ q]
      BY Zenon, <3>1 DEF RecoverShard
    <3>3. CompletedAtOpen(open_shard, last, high) \in SUBSET Segment
      BY <3>2 DEF CompletedAtOpen, Segment, U64MAX
    <3>4. \A q : Drainable(CompletedAtOpen(open_shard, last, high), q) \in SUBSET Segment
      BY <3>3, Zenon DEF Drainable
    <3>5. doomed' \in SUBSET Nat
      BY <3>1, <3>4 DEF RecoverShard, Segment
    <3>6. indexed' \in [Shards -> SUBSET Reqs]
      BY <3>a DEF Replayed, Frame
    <3>7. completed_segments' \in [Shards -> SUBSET Segment]
      BY <3>a, <3>3
    <3>8. /\ current_seq' \in [Shards -> Nat] /\ last_seq' \in [Shards -> Nat]
          /\ current_segment' \in [Shards -> Nat] /\ segments' \in [Shards -> SUBSET Nat]
      BY <3>a, <3>2
    <3> QED
      BY Zenon, <3>1, <3>5, <3>6, <3>7, <3>8 DEF RecoverShard
  <2>3. ASSUME NEW n \in doomed, OpenDelete(n) PROVE TypeOK'
    BY <2>3 DEF OpenDelete, RemoveSegment, Frame
  <2>6. ASSUME NEW n \in doomed, OpenDeleteFail(n) PROVE TypeOK'
    BY <2>6 DEF OpenDeleteFail, Fault
  <2> QED
    BY Zenon, <1>6, <2>1, <2>2, <2>3, <2>4, <2>5, <2>6 DEF Open
<1>7. CASE UNCHANGED vars
  BY <1>7, Zenon DEF vars
<1> QED
  BY Zenon, <1>1, <1>2, <1>3, <1>4, <1>5, <1>6, <1>7 DEF Next

\* Every variable keeps its type, whatever the number of requests, shards and
\* concurrent snapshots, through every fault, crash and recovery.
THEOREM TypeCorrect == Spec => []TypeOK
BY InitType, NextType, PTL DEF Spec

-----------------------------------------------------------------------------
(* The inductive invariant, and the conjuncts about handlers and the log *)

\* open() has set up the WAL writer of shard s.
Opened(s) == \/ mode = "up"
             \/ mode = "shard" /\ s < open_shard
             \/ mode = "delete" /\ s <= open_shard

Kept(s) == snap_indexed[s] \cup Exposed(s)
Held(s) == indexed[s] \cup Exposed(s)

\* A request reaches the memtables only after its WAL replies, and a shard sees
\* it once: sent, then in the batch, then answered.
HandlerInv ==
  /\ \A r \in Reqs :
       /\ phase[r] \in {"insert", "acked"} => \A s \in route[r] : r \in wal_ok[s]
       /\ phase[r] = "idle" =>
            \A s \in Shards : r \notin pending[s] /\ r \notin batch[s] /\ r \notin wal_ok[s]
  /\ \A s \in Shards, r \in Reqs :
       /\ r \in pending[s] => r \notin batch[s] /\ r \notin wal_ok[s]
       /\ r \in batch[s] => r \notin wal_ok[s]

\* A request that the WAL wrote has a frame until it is kept.
LoggedInv ==
  \A s \in Shards, r \in Reqs :
    r \in batch[s] \/ r \in wal_ok[s] => r \in Kept(s) \/ \E f \in frames[s] : f.req = r

\* Frames lie in existing segments, the current one is the highest and is never
\* completed or doomed, and a completed one records a bound of its frames.
SegmentInv ==
  /\ \A s \in Shards :
       /\ \A f \in frames[s] : f.seg \in segments[s] /\ f.seq >= 1
       /\ Opened(s) =>
            /\ current_segment[s] \in segments[s]
            /\ last_seq[s] <= current_seq[s]
            /\ \A f \in frames[s] : /\ f.seg <= current_segment[s]
                                    /\ f.seg = current_segment[s] => f.seq <= current_seq[s]
            /\ \A c \in completed_segments[s] :
                 /\ c.seg < current_segment[s]
                 /\ c.max_seq # U64MAX =>
                      \A f \in frames[s] : f.seg = c.seg => f.seq <= c.max_seq
  /\ mode = "delete" => \A n \in doomed : n < current_segment[open_shard]
  /\ mode = "up" /\ sweep_pc = "delete" => \A n \in doomed : n < current_segment[sweep_shard]

\* Until open() is done nothing else runs, and the snapshot file is the one it loaded.
RestInv ==
  /\ mode # "up" =>
       /\ sweep_pc = "visit"
       /\ \A s \in Shards : shard_watermarks[s] = 0
       /\ \A k \in Snapshotters : snap_pc[k] = "idle" /\ \A s \in Shards : snap_loaded[k][s] = 0
  /\ mode \in {"shard", "delete"} => open_watermark = snap_watermarks

\* The next frame lies above w, or reuses a number.
Below(s, w) == w <= open_watermark[s] \/ w <= current_seq[s]

BelowInv ==
  mode = "up" =>
    /\ \A s \in Shards :
         /\ Below(s, shard_watermarks[s])
         /\ Below(s, persisted_watermarks[s])
         /\ Below(s, snap_watermarks[s])
         /\ \A k \in Snapshotters : Below(s, snap_loaded[k][s])
    /\ sweep_pc = "drain" => Below(sweep_shard, gc_seq)

\* What each number covers.
CoverInv ==
  /\ SnapshotCoversWatermark
  /\ mode # "down" => \A s \in Shards : snap_indexed[s] \subseteq indexed[s]
  /\ mode = "up" =>
       \A s \in Shards : \A f \in frames[s] :
         /\ f.seq <= shard_watermarks[s] => f.req \in Held(s)
         /\ f.seq <= persisted_watermarks[s] => f.req \in Kept(s)
         /\ \A k \in Snapshotters : f.seq <= snap_loaded[k][s] =>
              f.req \in Held(s) /\ (snap_pc[k] = "publish" => f.req \in Kept(s))
         /\ s = sweep_shard /\ sweep_pc = "drain" /\ f.seq <= gc_seq => f.req \in Kept(s)
         /\ s = sweep_shard /\ sweep_pc = "delete" /\ f.seg \in doomed => f.req \in Kept(s)

IInv == TypeOK /\ HandlerInv /\ LoggedInv /\ SegmentInv /\ RestInv /\ BelowInv /\ CoverInv

-----------------------------------------------------------------------------
(* What each process leaves alone *)

\* An Append handler only sends to the WAL and inserts into memtables.
LEMMA HandlerLeaves ==
  ASSUME NEW r \in Reqs, Handler(r)
  PROVE  /\ mode = "up"
         /\ UNCHANGED <<mode, open_shard, batch, wal_ok, wal_err, current_seq, last_seq,
                        current_segment, current_size, completed_segments, segments,
                        frames, indexed, shard_watermarks, persisted_watermarks,
                        sweepVars, snapTasks, snapDisk, ghosts>>
BY Zenon DEF Handler, Append, AppendLogged, AppendFail, AppendReply, AppendInsert,
       walVars, walDisk, memVars

\* A WAL task touches its own files and replies, and the sweep only by an error
\* to its DrainBefore.
LEMMA WalTaskLeaves ==
  ASSUME NEW s \in Shards, WalTask(s)
  PROVE  /\ mode = "up"
         /\ UNCHANGED <<mode, open_shard, handlerVars, memVars, drained, doomed,
                        snapTasks, snapDisk, open_watermark, overtaken, dropped>>
BY Zenon DEF WalTask, WalWrite, WalSync, WalFail, WalRotate, ghosts, sweepVars

\* The sweep leaves the handlers, the snapshots and the snapshot file alone.
LEMMA SweepLeaves ==
  ASSUME Sweep
  PROVE  /\ mode = "up"
         /\ UNCHANGED <<mode, open_shard, handlerVars, pending, batch, wal_ok, wal_err,
                        current_seq, last_seq, current_segment, current_size,
                        persisted_watermarks, snapTasks, snapDisk, open_watermark,
                        reused, dropped>>
<1>1. CASE SweepSkip \/ SweepDrain \/ SweepWrite \/ SweepWriteFail \/ SweepRegister
  BY <1>1, Zenon DEF SweepSkip, SweepDrain, SweepWrite, SweepWriteFail, SweepRegister,
              walVars, memVars, ghosts
<1>2. CASE SweepWatermark \/ SweepGcLoad \/ SweepGcDrain \/ SweepGcDone
  BY <1>2, Zenon DEF SweepWatermark, SweepGcLoad, SweepGcDrain, SweepGcDone, walVars, memVars, ghosts
<1>3. ASSUME NEW n \in doomed, SweepGcDelete(n) \/ SweepGcDeleteFail(n)
      PROVE  /\ mode = "up"
             /\ UNCHANGED <<mode, open_shard, handlerVars, walVars, memVars, snapTasks,
                            snapDisk, ghosts>>
  BY <1>3, Zenon DEF SweepGcDelete, SweepGcDeleteFail
<1> QED
  BY <1>1, <1>2, <1>3, Zenon DEF Sweep, walVars, memVars, ghosts

\* A snapshot writes the snapshot file and the persisted watermarks, no more.
LEMMA SnapshotLeaves ==
  ASSUME NEW k \in Snapshotters, Snapshot(k)
  PROVE  /\ mode = "up"
         /\ UNCHANGED <<mode, open_shard, handlerVars, walVars, walDisk, memtables,
                        indexed, shard_watermarks, sweepVars, ghosts>>
BY Zenon DEF Snapshot, SnapLoad, SnapLock, SnapSave, SnapFail, SnapPublish, memVars

\* open() leaves the snapshot file as it found it, and starts no other task.
LEMMA OpenLeaves ==
  ASSUME Open
  PROVE  /\ mode # "up"
         /\ UNCHANGED <<handlerVars, pending, batch, wal_ok, wal_err, current_size,
                        memtables, shard_watermarks, sweep_pc, sweep_shard, drained,
                        gc_seq, snapTasks, snapDisk, overtaken, reused>>
<1>1. CASE OpenLoad \/ OpenNext \/ OpenDone
  BY <1>1, Zenon DEF OpenLoad, OpenNext, OpenDone, walVars, memVars, sweepVars, ghosts
<1>2. CASE OpenShard
  BY <1>2, Zenon DEF OpenShard, RecoverShard, ghosts
<1>3. ASSUME NEW n \in doomed, OpenDelete(n) \/ OpenDeleteFail(n)
      PROVE  /\ mode # "up"
             /\ UNCHANGED <<handlerVars, walVars, memVars, sweep_pc, sweep_shard, drained,
                            gc_seq, snapTasks, snapDisk, overtaken, reused>>
  BY <1>3, Zenon DEF OpenDelete, OpenDeleteFail, ghosts
<1> QED
  BY <1>1, <1>2, <1>3, Zenon DEF Open, walVars, memVars

-----------------------------------------------------------------------------
(* Each conjunct is kept by every step *)

\* The inductive invariant holds before the first open().
LEMMA InitIInv == Init => IInv
<1> SUFFICES ASSUME Init PROVE IInv
  BY Zenon
<1>1. TypeOK
  BY InitType, Zenon
<1>2. HandlerInv /\ LoggedInv /\ BelowInv
  BY Zenon DEF Init, HandlerInv, LoggedInv, BelowInv, NoShards
<1>3. SegmentInv /\ CoverInv
  BY Zenon DEF Init, SegmentInv, CoverInv, SnapshotCoversWatermark, Opened, NoShards
<1>4. RestInv
  BY Zenon DEF Init, RestInv, ZeroSeqs
<1> QED
  BY <1>1, <1>2, <1>3, <1>4, Zenon DEF IInv

\* A handler inserts and acknowledges only what every shard has logged.
LEMMA HandlerStep == IInv /\ [Next]_vars => HandlerInv'
<1> SUFFICES ASSUME TypeOK, HandlerInv, [Next]_vars PROVE HandlerInv'
  BY Zenon DEF IInv
<1> USE DEF TypeOK
<1>0. ASSUME UNCHANGED <<phase, route, pending, batch, wal_ok>> PROVE HandlerInv'
  BY <1>0, Zenon DEF HandlerInv
<1>1. ASSUME NEW r \in Reqs, Handler(r) PROVE HandlerInv'
  <2>0. UNCHANGED <<batch, wal_ok>>
    BY <1>1, HandlerLeaves, Zenon
  <2>1. ASSUME NEW S \in SUBSET Shards, Append(r, S) PROVE HandlerInv'
    BY <2>0, <2>1 DEF HandlerInv, Append
  <2>2. CASE AppendLogged(r)
    BY <2>0, <2>2 DEF HandlerInv, AppendLogged, AllLogged, walVars
  <2>3. CASE AppendFail(r)
    BY <2>0, <2>3 DEF HandlerInv, AppendFail, walVars
  <2>4. CASE AppendReply(r)
    BY <2>0, <2>4 DEF HandlerInv, AppendReply, walVars
  <2>5. ASSUME NEW s \in Shards, AppendInsert(r, s) PROVE HandlerInv'
    BY <1>0, <2>5, Zenon DEF AppendInsert, walVars
  <2> QED
    BY <1>1, <2>1, <2>2, <2>3, <2>4, <2>5, Zenon DEF Handler
<1>2. ASSUME NEW s \in Shards, WalTask(s) PROVE HandlerInv'
  <2>0. UNCHANGED <<phase, route>>
    BY <1>2, WalTaskLeaves, Zenon DEF handlerVars
  <2>1. ASSUME NEW r \in Reqs, WalWrite(s, r) PROVE HandlerInv'
    BY <2>0, <2>1 DEF HandlerInv, WalWrite
  <2>2. CASE WalSync(s)
    BY <2>0, <2>2 DEF HandlerInv, WalSync
  <2>3. CASE WalFail(s)
    BY <2>0, <2>3 DEF HandlerInv, WalFail
  <2>4. CASE WalRotate(s)
    BY <1>0, <2>0, <2>4, Zenon DEF WalRotate
  <2> QED
    BY <1>2, <2>1, <2>2, <2>3, <2>4, Zenon DEF WalTask
<1>3. CASE Sweep
  BY <1>0, <1>3, SweepLeaves, Zenon DEF handlerVars
<1>4. ASSUME NEW k \in Snapshotters, Snapshot(k) PROVE HandlerInv'
  BY <1>0, <1>4, SnapshotLeaves, Zenon DEF handlerVars, walVars
<1>5. CASE Crash
  BY <1>5, Zenon DEF Crash, HandlerInv, NoShards, InFlight
<1>6. CASE Open
  BY <1>0, <1>6, OpenLeaves, Zenon DEF handlerVars
<1>7. CASE UNCHANGED vars
  BY <1>0, <1>7, Zenon DEF vars, handlerVars, walVars
<1> QED
  BY <1>1, <1>2, <1>3, <1>4, <1>5, <1>6, <1>7, Zenon DEF Next

\* What the snapshot keeps, or is exposed, stays so.
LEMMA KeptGrows ==
  IInv /\ [Next]_vars =>
    \A s \in Shards : Kept(s) \subseteq Kept(s)' /\ Exposed(s) \subseteq Exposed(s)'
<1> DEFINE Goal == \A s \in Shards : Kept(s) \subseteq Kept(s)' /\ Exposed(s) \subseteq Exposed(s)'
<1> SUFFICES ASSUME IInv, [Next]_vars PROVE Goal
  BY Zenon
<1> USE DEF IInv, TypeOK, Kept, Exposed, ghosts
<1>0. ASSUME UNCHANGED <<snap_indexed, overtaken, reused, dropped>> PROVE Goal
  BY <1>0, Zenon
<1>1. ASSUME NEW r \in Reqs, Handler(r) PROVE Goal
  BY <1>0, <1>1, HandlerLeaves, Zenon DEF snapDisk
<1>2. ASSUME NEW s \in Shards, WalTask(s) PROVE Goal
  <2>0. UNCHANGED <<snap_indexed, overtaken, dropped>>
    BY <1>2, WalTaskLeaves, Zenon DEF snapDisk
  <2>1. ASSUME NEW r \in Reqs, WalWrite(s, r) PROVE Goal
    BY <2>0, <2>1, Zenon DEF WalWrite
  <2>2. CASE WalSync(s) \/ WalFail(s) \/ WalRotate(s)
    BY Zenon, <1>0, <2>0, <2>2 DEF WalSync, WalFail, WalRotate
  <2> QED
    BY Zenon, <1>2, <2>1, <2>2 DEF WalTask
<1>3. CASE Sweep
  <2>0. UNCHANGED <<snap_indexed, reused, dropped>>
    BY <1>3, SweepLeaves, Zenon DEF snapDisk
  <2>1. overtaken' = overtaken \/ SweepWatermark
    BY Zenon, <1>3 DEF Sweep, SweepSkip, SweepDrain, SweepWrite, SweepWriteFail, SweepRegister,
                SweepGcLoad, SweepGcDrain, SweepGcDelete, SweepGcDeleteFail, SweepGcDone
  <2>2. CASE SweepWatermark
    BY <2>0, <2>2, Zenon DEF SweepWatermark
  <2> QED
    BY <1>0, <2>0, <2>1, <2>2, Zenon
<1>4. ASSUME NEW k \in Snapshotters, Snapshot(k) PROVE Goal
  <2>1. mode = "up" /\ UNCHANGED <<overtaken, reused, dropped>>
    BY <1>4, SnapshotLeaves, Zenon
  <2>2. UNCHANGED snap_indexed \/ snap_indexed' = indexed
    BY <1>4, Zenon DEF Snapshot, SnapLoad, SnapLock, SnapSave, SnapFail, SnapPublish, snapDisk
  <2> QED
    BY <1>0, <2>1, <2>2, Zenon DEF CoverInv
<1>5. CASE Crash
  BY <1>0, <1>5, Zenon DEF Crash, snapDisk
<1>6. CASE Open
  <2>0. UNCHANGED <<snap_indexed, overtaken, reused>>
    BY <1>6, OpenLeaves, Zenon DEF snapDisk
  <2>1. ASSUME NEW n \in doomed, OpenDelete(n) PROVE Goal
    BY Zenon, <2>0, <2>1 DEF OpenDelete
  <2>2. UNCHANGED dropped \/ \E n \in doomed : OpenDelete(n)
    BY Zenon, <1>6 DEF Open, OpenLoad, OpenShard, RecoverShard, OpenNext, OpenDone, OpenDeleteFail
  <2> QED
    BY <1>0, <2>0, <2>1, <2>2, Zenon
<1>7. CASE UNCHANGED vars
  BY <1>0, <1>7, Zenon DEF vars, snapDisk
<1> QED
  BY Zenon, <1>1, <1>2, <1>3, <1>4, <1>5, <1>6, <1>7 DEF Next

\* A logged request loses its frame only when it is kept: by a failed batch before
\* it is answered, by WAL GC below the persisted watermark, by open().
LEMMA LoggedStep == IInv /\ [Next]_vars => LoggedInv'
<1> SUFFICES ASSUME IInv, [Next]_vars PROVE LoggedInv'
  BY Zenon
<1>a. LoggedInv
  BY Zenon DEF IInv
<1>e. /\ frames \in [Shards -> SUBSET Frame] /\ batch \in [Shards -> SUBSET Reqs]
      /\ wal_ok \in [Shards -> SUBSET Reqs] /\ open_shard \in Shards /\ sweep_shard \in Shards
  BY Zenon DEF IInv, TypeOK
<1>b. \A s \in Shards : Kept(s) \subseteq Kept(s)'
  BY KeptGrows, Zenon
<1>0. ASSUME UNCHANGED <<batch, wal_ok, frames>> PROVE LoggedInv'
  BY <1>0, <1>a, <1>b, Zenon DEF LoggedInv
<1>c. ASSUME \A s \in Shards, q \in Reqs :
               q \in batch'[s] \/ q \in wal_ok'[s] =>
                 q \in Kept(s)' \/ \E f \in frames'[s] : f.req = q
      PROVE  LoggedInv'
  BY <1>c, Zenon DEF LoggedInv
\* Removing a segment whose requests are kept removes no frame that matters.
<1>d. ASSUME NEW t \in Shards, NEW n, RemoveSegment(t, n), UNCHANGED <<batch, wal_ok>>,
             \A f \in frames[t] : f.seg = n => f.req \in Kept(t)'
      PROVE  LoggedInv'
  <2>1. \A s \in Shards : frames'[s] = {f \in frames[s] : s = t => f.seg # n}
    BY <1>e, <1>d, Zenon DEF RemoveSegment
  <2>2. ASSUME NEW s \in Shards, NEW q \in Reqs, q \in batch[s] \/ q \in wal_ok[s]
        PROVE  q \in Kept(s)' \/ \E f \in frames'[s] : f.req = q
    <3>1. CASE q \in Kept(s)
      BY <1>b, <3>1, Zenon
    <3>2. ASSUME NEW f \in frames[s], f.req = q
          PROVE  q \in Kept(s)' \/ \E g \in frames'[s] : g.req = q
      BY <1>d, <2>1, <3>2, Zenon
    <3> QED
      BY <1>a, <2>2, <3>1, <3>2, Zenon DEF LoggedInv
  <2> QED
    BY <1>c, <1>d, <2>2, Zenon
<1>1. ASSUME NEW r \in Reqs, Handler(r) PROVE LoggedInv'
  BY <1>0, <1>1, HandlerLeaves, Zenon
<1>2. ASSUME NEW s \in Shards, WalTask(s) PROVE LoggedInv'
  <2>1. ASSUME NEW r \in Reqs, WalWrite(s, r) PROVE LoggedInv'
    <3>1. PICK g : /\ g.req = r
                   /\ frames' = [frames EXCEPT ![s] = @ \cup {g}]
      BY Zenon, <2>1 DEF WalWrite
    <3>2. \A t \in Shards : frames[t] \subseteq frames'[t]
      BY <1>e, <3>1, Zenon
    <3>3. g \in frames'[s]
      BY <1>e, <3>1, Zenon
    <3>4. wal_ok' = wal_ok /\ \A t \in Shards : \A q \in batch'[t] : q \in batch[t] \/ (t = s /\ q = r)
      BY <1>e, <2>1, Zenon DEF WalWrite
    <3>5. ASSUME NEW t \in Shards, NEW q \in Reqs, q \in batch'[t] \/ q \in wal_ok'[t]
          PROVE  q \in Kept(t)' \/ \E f \in frames'[t] : f.req = q
      <4>1. CASE t = s /\ q = r
        BY <3>1, <3>3, <4>1, Zenon
      <4>2. CASE q \in batch[t] \/ q \in wal_ok[t]
        BY <1>a, <1>b, <3>2, <4>2, Zenon DEF LoggedInv
      <4> QED
        BY <3>4, <3>5, <4>1, <4>2, Zenon
    <3> QED
      BY <1>c, <3>5, Zenon
  <2>2. CASE WalSync(s)
    <3>1. frames' = frames
      BY <2>2, Zenon DEF WalSync, walDisk
    <3>2. \A t \in Shards : batch'[t] \cup wal_ok'[t] = batch[t] \cup wal_ok[t]
      BY <1>e, <2>2, Zenon DEF WalSync
    <3> QED
      BY <1>a, <1>b, <1>c, <3>1, <3>2 DEF LoggedInv
  <2>3. CASE WalFail(s)
    <3>1. wal_ok' = wal_ok /\ batch' = [batch EXCEPT ![s] = {}]
      BY <2>3, Zenon DEF WalFail
    <3>2. \A t \in Shards : \A f \in frames[t] : f \notin frames'[t] => t = s /\ f.req \in batch[s]
      BY <1>e, <2>3, Zenon DEF WalFail
    <3>3. \A q \in Reqs : q \in batch[s] => q \notin wal_ok[s]
      BY Zenon DEF IInv, HandlerInv
    <3> QED
      <4>1. ASSUME NEW t \in Shards, NEW q \in Reqs, q \in batch'[t] \/ q \in wal_ok'[t]
            PROVE  q \in Kept(t)' \/ \E f \in frames'[t] : f.req = q
        <5>1. /\ q \in batch[t] \/ q \in wal_ok[t]
              /\ t = s => q \notin batch[s]
          BY <1>e, <3>1, <3>3, <4>1, Zenon
        <5> QED
          BY <1>a, <1>b, <3>2, <5>1 DEF LoggedInv
      <4> QED
        BY <1>c, <4>1, Zenon
  <2>4. CASE WalRotate(s)
    BY <1>0, <2>4, Zenon DEF WalRotate
  <2> QED
    BY <1>2, <2>1, <2>2, <2>3, <2>4, Zenon DEF WalTask
<1>3. CASE Sweep
  <2>0. mode = "up" /\ UNCHANGED <<batch, wal_ok>>
    BY <1>3, SweepLeaves, Zenon
  <2>1. ASSUME NEW n \in doomed, SweepGcDelete(n) PROVE LoggedInv'
    <3>1. sweep_pc = "delete" /\ RemoveSegment(sweep_shard, n)
      BY <2>1, Zenon DEF SweepGcDelete
    <3>2. \A f \in frames[sweep_shard] : f.seg = n => f.req \in Kept(sweep_shard)
      BY <1>e, <2>0, <3>1, Zenon DEF IInv, CoverInv
    <3> QED
      BY <1>b, <1>d, <1>e, <2>0, <3>1, <3>2, Zenon
  <2>2. UNCHANGED frames \/ \E n \in doomed : SweepGcDelete(n)
    BY Zenon, <1>3 DEF Sweep, SweepSkip, SweepDrain, SweepWrite, SweepWriteFail, SweepRegister,
                SweepWatermark, SweepGcLoad, SweepGcDrain, SweepGcDeleteFail, SweepGcDone, walDisk
  <2> QED
    BY <1>0, <2>0, <2>1, <2>2, Zenon
<1>4. ASSUME NEW k \in Snapshotters, Snapshot(k) PROVE LoggedInv'
  BY <1>0, <1>4, SnapshotLeaves, Zenon DEF walVars, walDisk
<1>5. CASE Crash
  <2>1. frames' = frames /\ wal_ok' = wal_ok /\ \A t \in Shards : batch'[t] = {}
    BY <1>5, Zenon DEF Crash, NoShards, walDisk
  <2> QED
    BY <1>a, <1>b, <2>1, Zenon DEF LoggedInv
<1>6. CASE Open
  <2>0. UNCHANGED <<batch, wal_ok>>
    BY <1>6, OpenLeaves, Zenon
  <2>1. ASSUME NEW n \in doomed, OpenDelete(n) PROVE LoggedInv'
    <3>1. \A f \in frames[open_shard] : f.seg = n => f.req \in Kept(open_shard)'
      BY Zenon, <1>e, <2>1 DEF OpenDelete, Kept, Exposed, snapDisk, IInv, TypeOK
    <3> QED
      BY <1>d, <1>e, <2>0, <2>1, <3>1, Zenon DEF OpenDelete
  <2>2. UNCHANGED frames \/ \E n \in doomed : OpenDelete(n)
    BY Zenon, <1>6 DEF Open, OpenLoad, OpenShard, RecoverShard, OpenNext, OpenDone, OpenDeleteFail, walDisk
  <2> QED
    BY <1>0, <2>0, <2>1, <2>2, Zenon
<1>7. CASE UNCHANGED vars
  BY <1>0, <1>7, Zenon DEF vars, walVars, walDisk
<1> QED
  BY <1>1, <1>2, <1>3, <1>4, <1>5, <1>6, <1>7, Zenon DEF Next

=============================================================================
