------------------------ MODULE StorageServerProofs -------------------------
(***************************************************************************)
(* Segments, the order of open() and what watermarks cover are kept by     *)
(* every step; the durability theorems.                                    *)
(***************************************************************************)
EXTENDS StorageServerInvariant

\* Nothing but open() runs while the process is down or opening.
LEMMA RestStep == IInv /\ [Next]_vars => RestInv'
<1> SUFFICES ASSUME IInv, [Next]_vars PROVE RestInv'
  BY Zenon
<1>a. TypeOK /\ RestInv
  BY Zenon DEF IInv
<1>1. ASSUME mode = "up", mode' = mode PROVE RestInv'
  BY <1>1, Zenon DEF RestInv
<1>2. ASSUME NEW r \in Reqs, Handler(r) PROVE RestInv'
  BY <1>1, <1>2, HandlerLeaves, Zenon
<1>3. ASSUME NEW s \in Shards, WalTask(s) PROVE RestInv'
  BY <1>1, <1>3, WalTaskLeaves, Zenon
<1>4. CASE Sweep
  BY <1>1, <1>4, SweepLeaves, Zenon
<1>5. ASSUME NEW k \in Snapshotters, Snapshot(k) PROVE RestInv'
  BY <1>1, <1>5, SnapshotLeaves, Zenon
<1>6. CASE Crash
  BY <1>6, Zenon DEF Crash, RestInv, ZeroSeqs
<1>7. CASE Open
  <2>1. mode # "up" /\ UNCHANGED <<sweep_pc, shard_watermarks, snap_pc, snap_loaded, snap_watermarks>>
    BY <1>7, OpenLeaves, Zenon DEF snapTasks, snapDisk
  <2>2. mode' \in {"shard", "delete"} => open_watermark' = snap_watermarks
    <3>1. CASE OpenLoad \/ OpenDone
      BY <3>1, Zenon DEF OpenLoad, OpenDone
    <3>2. CASE OpenShard \/ OpenNext
      BY <1>a, <3>2, Zenon DEF OpenShard, RecoverShard, OpenNext, RestInv, ghosts
    <3>3. ASSUME NEW n \in doomed, OpenDelete(n) \/ OpenDeleteFail(n)
          PROVE  open_watermark' = snap_watermarks
      BY <1>a, <3>3, Zenon DEF OpenDelete, OpenDeleteFail, RestInv, ghosts
    <3> QED
      BY <1>7, <3>1, <3>2, <3>3, Zenon DEF Open
  <2> QED
    BY <1>a, <2>1, <2>2, Zenon DEF RestInv
<1>8. CASE UNCHANGED vars
  BY <1>a, <1>8, Zenon DEF vars, RestInv, memVars, sweepVars, snapTasks, snapDisk, ghosts
<1> QED
  BY <1>2, <1>3, <1>4, <1>5, <1>6, <1>7, <1>8, Zenon DEF Next

\* Opening a shard records no segment with a bound that its frames exceed: the
\* one segment it gives a bound is drained at once.
LEMMA RecoverDrains ==
  ASSUME NEW s \in Shards, NEW last \in Nat, NEW high \in Nat,
         frames \in [Shards -> SUBSET Frame], snap_watermarks \in [Shards -> Nat],
         IsLastSequence(s, last),
         NEW c \in CompletedAtOpen(s, last, high),
         c \notin Drainable(CompletedAtOpen(s, last, high), DrainThreshold(s, last))
  PROVE  c.max_seq = U64MAX
<1>1. last <= DrainThreshold(s, last)
  BY DEF IsLastSequence, DrainThreshold
<1>2. c.max_seq = U64MAX \/ c.max_seq = last
  BY DEF CompletedAtOpen
<1> QED
  BY <1>1, <1>2, Zenon DEF Drainable

\* Rotation, drains and recovery record bounds that hold for the frames.
LEMMA SegmentStep == IInv /\ [Next]_vars => SegmentInv'
<1> SUFFICES ASSUME IInv, [Next]_vars PROVE SegmentInv'
  BY Zenon
<1>a. SegmentInv
  BY Zenon DEF IInv
<1>e. /\ frames \in [Shards -> SUBSET Frame] /\ segments \in [Shards -> SUBSET Nat]
      /\ current_segment \in [Shards -> Nat] /\ current_seq \in [Shards -> Nat]
      /\ last_seq \in [Shards -> Nat] /\ completed_segments \in [Shards -> SUBSET Segment]
      /\ doomed \in SUBSET Nat /\ open_shard \in Shards /\ sweep_shard \in Shards
      /\ snap_watermarks \in [Shards -> Nat] /\ Shards \subseteq Nat
  BY DEF IInv, TypeOK, Shards
\* No step on a running engine that leaves the WAL alone matters, as long as it
\* dooms no segment.
<1>0. ASSUME UNCHANGED <<mode, open_shard, segments, frames, current_segment, current_seq,
                         last_seq, completed_segments>>,
             mode = "up",
             sweep_pc' = "delete" => sweep_pc = "delete" /\ sweep_shard' = sweep_shard
                                     /\ doomed' \subseteq doomed
      PROVE  SegmentInv'
  BY <1>0, <1>a, Zenon DEF SegmentInv, Opened
<1>1. ASSUME NEW r \in Reqs, Handler(r) PROVE SegmentInv'
  BY <1>0, <1>1, HandlerLeaves, Zenon DEF sweepVars
<1>2. ASSUME NEW s \in Shards, WalTask(s) PROVE SegmentInv'
  <2>0. mode = "up" /\ UNCHANGED <<mode, open_shard, doomed>>
    BY <1>2, WalTaskLeaves, Zenon
  <2>1. ASSUME NEW r \in Reqs, WalWrite(s, r) PROVE SegmentInv'
    <3>1. /\ UNCHANGED <<segments, current_segment, last_seq, completed_segments, sweep_pc, sweep_shard>>
          /\ current_seq' = [current_seq EXCEPT ![s] = @ + 1]
          /\ \A t \in Shards : \A f \in frames'[t] :
               f \in frames[t] \/ (t = s /\ f.seg = current_segment[s] /\ f.seq = current_seq[s] + 1)
      BY <1>e, <2>1 DEF WalWrite, sweepVars
    <3> QED
      BY <1>a, <1>e, <2>0, <3>1 DEF SegmentInv, Opened, Frame, Segment
  <2>2. CASE WalSync(s)
    <3>1. /\ UNCHANGED <<segments, frames, current_segment, current_seq, completed_segments,
                         sweep_pc, sweep_shard>>
          /\ last_seq' = [last_seq EXCEPT ![s] = current_seq[s]]
      BY Zenon, <2>2 DEF WalSync, walDisk, sweepVars
    <3> QED
      BY <1>a, <1>e, <2>0, <3>1 DEF SegmentInv, Opened
  <2>3. CASE WalFail(s)
    <3>1. /\ UNCHANGED <<segments, current_segment, current_seq, last_seq, completed_segments>>
          /\ sweep_pc' = "delete" => UNCHANGED <<sweep_pc, sweep_shard>>
          /\ \A t \in Shards : frames'[t] \subseteq frames[t]
      BY <1>e, <2>3, Zenon DEF WalFail, SweepAdvance
    <3> QED
      BY <1>a, <1>e, <2>0, <3>1, Zenon DEF SegmentInv, Opened
  <2>4. CASE WalRotate(s)
    <3>1. /\ UNCHANGED <<frames, current_seq, last_seq, sweep_pc, sweep_shard>>
          /\ current_segment' = [current_segment EXCEPT ![s] = @ + 1]
          /\ segments' = [segments EXCEPT ![s] = @ \cup {current_segment[s] + 1}]
          /\ \A t \in Shards : \A c \in completed_segments'[t] :
               c \in completed_segments[t] \/
               (t = s /\ c.seg = current_segment[s] /\ c.max_seq = current_seq[s])
      BY <1>e, <2>4 DEF WalRotate, sweepVars
    <3>2. ASSUME NEW t \in Shards
          PROVE  /\ current_segment'[t] \in segments'[t]
                 /\ \A f \in frames[t] : /\ f.seg \in segments'[t]
                                         /\ f.seg <= current_segment'[t]
                                         /\ f.seg = current_segment'[t] => f.seq <= current_seq[t]
                 /\ current_segment[t] <= current_segment'[t]
      BY <1>a, <1>e, <2>0, <3>1 DEF SegmentInv, Opened, Frame
    <3>3. ASSUME NEW t \in Shards, NEW c \in completed_segments'[t]
          PROVE  /\ c.seg < current_segment'[t]
                 /\ c.max_seq # U64MAX => \A f \in frames[t] : f.seg = c.seg => f.seq <= c.max_seq
      BY <1>a, <1>e, <2>0, <3>1 DEF SegmentInv, Opened, Frame, Segment
    <3>4. current_segment' \in [Shards -> Nat]
      BY <1>e, <3>1
    <3> QED
      BY <1>a, <1>e, <2>0, <3>1, <3>2, <3>3, <3>4 DEF SegmentInv, Opened
  <2> QED
    BY <1>2, <2>1, <2>2, <2>3, <2>4, Zenon DEF WalTask
<1>3. CASE Sweep
  <2>0. /\ mode = "up"
        /\ UNCHANGED <<mode, open_shard, current_seq, last_seq, current_segment>>
    BY <1>3, SweepLeaves, Zenon
  <2>1. CASE SweepGcDrain
    <3>1. /\ UNCHANGED <<frames, segments, sweep_shard>>
          /\ \A t \in Shards : completed_segments'[t] \subseteq completed_segments[t]
          /\ \A n \in doomed' : \E c \in completed_segments[sweep_shard] : n = c.seg
      BY <1>e, <2>1, Zenon DEF SweepGcDrain, Drainable, walDisk
    <3> QED
      BY <1>a, <1>e, <2>0, <3>1, Zenon DEF SegmentInv, Opened
  <2>2. ASSUME NEW n \in doomed, SweepGcDelete(n) PROVE SegmentInv'
    <3>1. /\ sweep_pc = "delete"
          /\ UNCHANGED <<completed_segments, sweep_shard, sweep_pc>>
          /\ doomed' = doomed \ {n}
          /\ segments' = [segments EXCEPT ![sweep_shard] = @ \ {n}]
          /\ \A t \in Shards : \A f \in frames'[t] :
               f \in frames[t] /\ (t = sweep_shard => f.seg # n)
      BY <1>e, <2>2, Zenon DEF SweepGcDelete, RemoveSegment, walVars
    <3>2. n < current_segment[sweep_shard]
      BY <1>a, <2>0, <3>1, Zenon DEF SegmentInv
    <3>3. ASSUME NEW t \in Shards
          PROVE  /\ current_segment[t] \in segments[t] => current_segment[t] \in segments'[t]
                 /\ \A f \in frames'[t] : f.seg \in segments[t] => f.seg \in segments'[t]
      <4>1. current_segment[sweep_shard] # n
        BY <1>e, <3>2
      <4>2. segments'[t] = IF t = sweep_shard THEN segments[t] \ {n} ELSE segments[t]
        BY <1>e, <3>1, Zenon
      <4>3. CASE t = sweep_shard
        <5>1. segments'[t] = segments[t] \ {n} /\ current_segment[t] # n
          BY <4>1, <4>2, <4>3, Zenon
        <5>2. \A f \in frames'[t] : f.seg # n
          BY <3>1, <4>3, Zenon
        <5> QED
          BY <5>1, <5>2, Zenon
      <4> QED
        BY <4>2, <4>3, Zenon
    <3> QED
      BY <1>a, <2>0, <3>1, <3>3, Zenon DEF SegmentInv, Opened
  <2>3. CASE SweepSkip \/ SweepDrain \/ SweepWrite \/ SweepWriteFail \/ SweepRegister
    BY <1>0, <2>0, <2>3, Zenon DEF SweepSkip, SweepDrain, SweepWrite, SweepWriteFail, SweepRegister,
                            SweepAdvance, walVars, walDisk
  <2>4. CASE SweepWatermark \/ SweepGcLoad \/ SweepGcDone
    BY Zenon, <1>0, <2>0, <2>4 DEF SweepWatermark, SweepGcLoad, SweepGcDone, SweepAdvance, walVars, walDisk
  <2>5. ASSUME NEW n \in doomed, SweepGcDeleteFail(n) PROVE SegmentInv'
    BY <1>0, <2>0, <2>5, Zenon DEF SweepGcDeleteFail, walVars, walDisk
  <2> QED
    BY <1>3, <2>1, <2>2, <2>3, <2>4, <2>5, Zenon DEF Sweep
<1>4. ASSUME NEW k \in Snapshotters, Snapshot(k) PROVE SegmentInv'
  BY <1>0, <1>4, SnapshotLeaves, Zenon DEF walVars, walDisk, sweepVars
<1>5. CASE Crash
  <2>1. mode' = "down" /\ UNCHANGED <<frames, segments>>
    BY <1>5, Zenon DEF Crash, walDisk
  <2> QED
    BY Zenon, <1>a, <2>1 DEF SegmentInv, Opened
<1>6. CASE Open
  <2>0. mode # "up" /\ UNCHANGED <<sweep_pc, sweep_shard>> /\ sweep_pc = "visit"
    BY <1>6, OpenLeaves, Zenon DEF IInv, RestInv
  <2>1. CASE OpenLoad
    <3>1. mode' = "shard" /\ open_shard' = 0 /\ UNCHANGED <<frames, segments>>
      BY <2>1, Zenon DEF OpenLoad, walDisk
    <3>2. \A t \in Shards : ~Opened(t)'
      BY <1>e, <3>1 DEF Opened
    <3> QED
      BY Zenon, <1>a, <3>1, <3>2 DEF SegmentInv
  <2>2. CASE OpenShard
    <3>1. PICK last \in {f.seq : f \in frames[open_shard]} \cup {0},
               high \in segments[open_shard] \cup {1} :
                 RecoverShard(open_shard, last, high)
      BY <2>2, Zenon DEF OpenShard
    <3> DEFINE u == open_shard
               completed == CompletedAtOpen(u, last, high)
    <3>2. last \in Nat /\ high \in Nat
      BY <1>e DEF Frame
    <3>3. /\ mode = "shard" /\ mode' = "delete" /\ UNCHANGED <<open_shard, frames>>
          /\ IsLastSequence(u, last) /\ \A m \in segments[u] : m <= high
          /\ current_seq' = [current_seq EXCEPT ![u] = last]
          /\ last_seq' = [last_seq EXCEPT ![u] = last]
          /\ current_segment' = [current_segment EXCEPT ![u] = IF segments[u] # {} THEN high + 1 ELSE high]
          /\ segments' = [segments EXCEPT ![u] = @ \cup {IF segments[u] # {} THEN high + 1 ELSE high}]
      BY Zenon, <3>1 DEF RecoverShard, IsHighestSegment
    <3>4. /\ completed_segments' = [completed_segments EXCEPT ![u] =
                completed \ Drainable(completed, DrainThreshold(u, last))]
          /\ \A n \in doomed' : \E c \in completed : n = c.seg
      BY Zenon, <3>1 DEF RecoverShard, Drainable
    <3>5. \A c \in completed : c.seg < current_segment'[u]
      BY <1>e, <3>2, <3>3 DEF CompletedAtOpen
    <3>6. \A c \in completed_segments'[u] : c \in completed /\ c.max_seq = U64MAX
      BY <1>e, <3>2, <3>3, <3>4, RecoverDrains
    <3>7. /\ current_segment'[u] \in segments'[u] /\ last_seq'[u] <= current_seq'[u]
          /\ \A f \in frames[u] : f.seg \in segments'[u] /\ f.seg < current_segment'[u]
      BY <1>a, <1>e, <3>2, <3>3 DEF SegmentInv, Frame
    <3>8. \A t \in Shards : t # u =>
            /\ segments'[t] = segments[t] /\ current_segment'[t] = current_segment[t]
            /\ current_seq'[t] = current_seq[t] /\ last_seq'[t] = last_seq[t]
            /\ completed_segments'[t] = completed_segments[t]
            /\ (t <= u => t < u)
      BY <1>e, <3>3, <3>4
    <3>9. \A n \in doomed' : n < current_segment'[u]
      BY <3>4, <3>5, Zenon
    <3>10. current_segment' \in [Shards -> Nat]
      BY <1>e, <3>2, <3>3
    <3> QED
      BY <1>a, <1>e, <3>3, <3>5, <3>6, <3>7, <3>8, <3>9, <3>10 DEF SegmentInv, Opened, Frame
  <2>3. ASSUME NEW n \in doomed, OpenDelete(n) PROVE SegmentInv'
    <3>1. /\ mode = "delete"
          /\ UNCHANGED <<mode, open_shard, completed_segments, current_segment, current_seq, last_seq>>
          /\ doomed' = doomed \ {n}
          /\ segments' = [segments EXCEPT ![open_shard] = @ \ {n}]
          /\ \A t \in Shards : \A f \in frames'[t] :
               f \in frames[t] /\ (t = open_shard => f.seg # n)
      BY <1>e, <2>3, Zenon DEF OpenDelete, RemoveSegment, walVars
    <3> QED
      BY <1>a, <1>e, <3>1 DEF SegmentInv, Opened
  <2>4. ASSUME NEW n \in doomed, OpenDeleteFail(n) PROVE SegmentInv'
    <3>1. /\ UNCHANGED <<mode, open_shard, completed_segments, current_segment, current_seq,
                         last_seq, segments, frames>>
          /\ doomed' = doomed \ {n}
      BY <2>4, Zenon DEF OpenDeleteFail, walVars, walDisk
    <3> QED
      BY Zenon, <1>a, <2>0, <3>1 DEF SegmentInv, Opened
  <2>5. CASE OpenNext \/ OpenDone
    <3>1. /\ UNCHANGED <<completed_segments, current_segment, current_seq, last_seq, segments, frames>>
          /\ \A s \in Shards : Opened(s)' => Opened(s)
      BY SMTT(30), <1>e, <2>5, NumShardsAssumption
         DEF OpenNext, OpenDone, walVars, walDisk, Opened, Shards
    <3>2. mode' # "delete"
      BY <2>5, Zenon DEF OpenNext, OpenDone
    <3> QED
      BY <1>a, <2>0, <3>1, <3>2, Zenon DEF SegmentInv
  <2> QED
    BY <1>6, <2>1, <2>2, <2>3, <2>4, <2>5, Zenon DEF Open
<1>7. CASE UNCHANGED vars
  BY Zenon, <1>a, <1>7 DEF SegmentInv, Opened, vars, walVars, walDisk, sweepVars
<1> QED
  BY <1>1, <1>2, <1>3, <1>4, <1>5, <1>6, <1>7, Zenon DEF Next

\* Every watermark comes from last_seq or from the snapshot open() found.
LEMMA BelowStep == IInv /\ [Next]_vars => BelowInv'
<1> SUFFICES ASSUME IInv, [Next]_vars, mode' = "up" PROVE BelowInv'
  BY Zenon DEF BelowInv
<1>a. BelowInv /\ SegmentInv /\ RestInv
  BY Zenon DEF IInv
<1>e. /\ current_seq \in [Shards -> Nat] /\ last_seq \in [Shards -> Nat]
      /\ shard_watermarks \in [Shards -> Nat] /\ persisted_watermarks \in [Shards -> Nat]
      /\ snap_watermarks \in [Shards -> Nat] /\ open_watermark \in [Shards -> Nat]
      /\ snap_loaded \in [Snapshotters -> [Shards -> Nat]]
      /\ gc_seq \in Nat /\ sweep_shard \in Shards
  BY Zenon DEF IInv, TypeOK
<1>0. ASSUME mode = "up",
             UNCHANGED <<shard_watermarks, persisted_watermarks, snap_watermarks, snap_loaded,
                         open_watermark>>,
             current_seq' \in [Shards -> Nat],
             \A s \in Shards : current_seq[s] <= current_seq'[s],
             sweep_pc' = "drain" => UNCHANGED <<sweep_pc, sweep_shard, gc_seq>>
      PROVE  BelowInv'
  BY <1>0, <1>a, <1>e DEF BelowInv, Below
<1>1. ASSUME NEW r \in Reqs, Handler(r) PROVE BelowInv'
  BY <1>0, <1>1, <1>e, HandlerLeaves DEF sweepVars, snapTasks, snapDisk, ghosts
<1>2. ASSUME NEW s \in Shards, WalTask(s) PROVE BelowInv'
  <2>0. /\ mode = "up"
        /\ UNCHANGED <<shard_watermarks, persisted_watermarks, snap_watermarks, snap_loaded,
                       open_watermark>>
    BY <1>2, WalTaskLeaves, Zenon DEF memVars, snapTasks, snapDisk
  <2>1. current_seq' \in [Shards -> Nat] /\ \A t \in Shards : current_seq[t] <= current_seq'[t]
    <3>1. UNCHANGED current_seq \/ current_seq' = [current_seq EXCEPT ![s] = current_seq[s] + 1]
      BY Zenon, <1>2 DEF WalTask, WalWrite, WalSync, WalFail, WalRotate
    <3> QED
      BY <1>e, <3>1
  <2>2. sweep_pc' = "drain" => UNCHANGED <<sweep_pc, sweep_shard, gc_seq>>
    BY Zenon, <1>2 DEF WalTask, WalWrite, WalSync, WalFail, WalRotate, SweepAdvance, sweepVars
  <2> QED
    BY <1>0, <2>0, <2>1, <2>2, Zenon
<1>3. CASE Sweep
  <2>0. /\ mode = "up"
        /\ UNCHANGED <<current_seq, persisted_watermarks, snap_watermarks, snap_loaded,
                       open_watermark>>
    BY <1>3, SweepLeaves, Zenon DEF snapTasks, snapDisk
  <2>1. CASE SweepWatermark
    <3>1. /\ sweep_pc' = "gc"
          /\ shard_watermarks' = [shard_watermarks EXCEPT ![sweep_shard] = last_seq[sweep_shard]]
      BY Zenon, <2>1 DEF SweepWatermark
    <3>2. last_seq[sweep_shard] <= current_seq[sweep_shard]
      BY <1>a, <1>e, <2>0, Zenon DEF SegmentInv, Opened
    <3> QED
      BY <1>a, <1>e, <2>0, <3>1, <3>2, Zenon DEF BelowInv, Below
  <2>2. CASE SweepGcLoad
    <3>1. /\ UNCHANGED <<shard_watermarks, sweep_shard>>
          /\ gc_seq' = persisted_watermarks[sweep_shard]
      BY <2>2, Zenon DEF SweepGcLoad, GcBound, memVars
    <3> QED
      BY <1>a, <1>e, <2>0, <3>1, Zenon DEF BelowInv, Below
  <2>3. CASE SweepSkip \/ SweepDrain \/ SweepWrite \/ SweepWriteFail \/ SweepRegister
    BY <1>0, <1>e, <2>0, <2>3 DEF SweepSkip, SweepDrain, SweepWrite, SweepWriteFail,
                                  SweepRegister, SweepAdvance, memVars
  <2>4. CASE SweepGcDrain \/ SweepGcDone
    <3>1. sweep_pc' # "drain" /\ UNCHANGED shard_watermarks
      BY <2>4, Zenon DEF SweepGcDrain, SweepGcDone, SweepAdvance, memVars
    <3> QED
      BY <1>0, <1>e, <2>0, <3>1
  <2>5. ASSUME NEW n \in doomed, SweepGcDelete(n) \/ SweepGcDeleteFail(n) PROVE BelowInv'
    BY <1>0, <1>e, <2>0, <2>5 DEF SweepGcDelete, SweepGcDeleteFail, memVars
  <2> QED
    BY <1>3, <2>1, <2>2, <2>3, <2>4, <2>5, Zenon DEF Sweep
<1>4. ASSUME NEW k \in Snapshotters, Snapshot(k) PROVE BelowInv'
  <2>0. /\ mode = "up"
        /\ UNCHANGED <<current_seq, shard_watermarks, open_watermark, sweep_pc, sweep_shard, gc_seq>>
    BY <1>4, SnapshotLeaves, Zenon DEF walVars, sweepVars, ghosts
  <2>1. /\ snap_watermarks' \in {snap_watermarks, snap_loaded[k]}
        /\ persisted_watermarks' \in {persisted_watermarks, snap_loaded[k]}
        /\ \/ UNCHANGED snap_loaded
           \/ snap_loaded' = [snap_loaded EXCEPT ![k] = shard_watermarks]
           \/ snap_loaded' = [snap_loaded EXCEPT ![k] = ZeroSeqs]
    BY <1>4, Zenon DEF Snapshot, SnapLoad, SnapLock, SnapSave, SnapFail, SnapPublish, memVars, snapDisk
  <2>2. \A j \in Snapshotters, s \in Shards :
          snap_loaded'[j][s] \in {snap_loaded[j][s], shard_watermarks[s], 0}
    BY <1>e, <2>1, Zenon DEF ZeroSeqs
  <2>3. \A s \in Shards : /\ Below(s, 0) /\ Below(s, shard_watermarks[s])
                          /\ Below(s, persisted_watermarks[s]) /\ Below(s, snap_watermarks[s])
                          /\ \A j \in Snapshotters : Below(s, snap_loaded[j][s])
    BY <1>a, <1>e, <2>0 DEF BelowInv, Below
  <2>4. \A s \in Shards : /\ Below(s, persisted_watermarks'[s]) /\ Below(s, snap_watermarks'[s])
                          /\ \A j \in Snapshotters : Below(s, snap_loaded'[j][s])
    BY <2>1, <2>2, <2>3, Zenon
  <2>5. sweep_pc = "drain" => Below(sweep_shard, gc_seq)
    BY <1>a, <2>0, Zenon DEF BelowInv
  <2> QED
    BY <2>0, <2>3, <2>4, <2>5, Zenon DEF BelowInv, Below
<1>5. CASE Crash
  BY <1>5, Zenon DEF Crash
<1>6. CASE Open
  <2>1. /\ persisted_watermarks' = snap_watermarks
        /\ mode = "delete" /\ UNCHANGED <<current_seq, open_watermark>>
    BY Zenon, <1>6 DEF Open, OpenLoad, OpenShard, RecoverShard, OpenNext, OpenDone, OpenDelete,
                OpenDeleteFail, walVars, ghosts
  <2>2. UNCHANGED <<shard_watermarks, snap_loaded, snap_watermarks, sweep_pc>>
    BY <1>6, OpenLeaves, Zenon DEF snapTasks, snapDisk
  <2> QED
    BY <1>a, <1>e, <2>1, <2>2 DEF RestInv, BelowInv, Below
<1>7. CASE UNCHANGED vars
  BY Zenon, <1>a, <1>7 DEF BelowInv, Below, vars, memVars, walVars, sweepVars, snapTasks, snapDisk, ghosts
<1> QED
  BY <1>1, <1>2, <1>3, <1>4, <1>5, <1>6, <1>7, Zenon DEF Next

-----------------------------------------------------------------------------
(* What watermarks cover *)

\* Flush, snapshot and GC keep what each watermark covers.
LEMMA CoverStep == IInv /\ [Next]_vars => CoverInv'
<1> SUFFICES ASSUME IInv, [Next]_vars PROVE CoverInv'
  BY Zenon
<1>a. CoverInv /\ BelowInv /\ SegmentInv /\ RestInv
  BY Zenon DEF IInv
<1>b. \A s \in Shards : Kept(s) \subseteq Kept(s)' /\ Exposed(s) \subseteq Exposed(s)'
  BY KeptGrows, Zenon
<1>e. /\ frames \in [Shards -> SUBSET Frame] /\ indexed \in [Shards -> SUBSET Reqs]
      /\ current_seq \in [Shards -> Nat] /\ last_seq \in [Shards -> Nat]
      /\ shard_watermarks \in [Shards -> Nat] /\ persisted_watermarks \in [Shards -> Nat]
      /\ snap_watermarks \in [Shards -> Nat] /\ open_watermark \in [Shards -> Nat]
      /\ snap_loaded \in [Snapshotters -> [Shards -> Nat]] /\ snap_pc \in [Snapshotters -> SnapPcs]
      /\ completed_segments \in [Shards -> SUBSET Segment]
      /\ gc_seq \in Nat /\ sweep_shard \in Shards /\ open_shard \in Shards
  BY Zenon DEF IInv, TypeOK
\* Fewer frames and more indexed requests do no harm.
<1>0. ASSUME mode = "up", mode' = "up",
             UNCHANGED <<shard_watermarks, persisted_watermarks, snapTasks, snapDisk>>,
             \A s \in Shards : frames'[s] \subseteq frames[s] /\ indexed[s] \subseteq indexed'[s],
             sweep_pc' = "drain" => UNCHANGED <<sweep_pc, sweep_shard, gc_seq>>,
             sweep_pc' = "delete" => UNCHANGED <<sweep_pc, sweep_shard>> /\ doomed' \subseteq doomed
      PROVE  CoverInv'
  <2>1. \A s \in Shards : Held(s) \subseteq Held(s)'
    BY <1>0, <1>b, Zenon DEF Held
  <2>2. SnapshotCoversWatermark'
    BY <1>0, <1>a, <1>b, Zenon DEF CoverInv, SnapshotCoversWatermark, Kept, snapDisk
  <2> QED
    BY <1>0, <1>a, <1>b, <2>1, <2>2 DEF CoverInv, snapTasks, snapDisk
<1>1. ASSUME NEW r \in Reqs, Handler(r) PROVE CoverInv'
  BY <1>0, <1>1, HandlerLeaves, Zenon DEF sweepVars
<1>2. ASSUME NEW s \in Shards, WalTask(s) PROVE CoverInv'
  <2>0. /\ mode = "up"
        /\ UNCHANGED <<mode, indexed, shard_watermarks, persisted_watermarks, snapTasks, snapDisk,
                       doomed, open_watermark, overtaken, dropped>>
    BY <1>2, WalTaskLeaves, Zenon DEF memVars
  <2>1. ASSUME NEW r \in Reqs, WalWrite(s, r) PROVE CoverInv'
    <3>1. UNCHANGED <<sweep_pc, sweep_shard, gc_seq>>
      BY <2>1, Zenon DEF WalWrite, sweepVars
    <3>2. ASSUME NEW t \in Shards, NEW f \in frames'[t], f \notin frames[t]
          PROVE  /\ t = s /\ f.req = r
                 /\ f.seg = current_segment[s] /\ f.seq = current_seq[s] + 1
                 /\ f.seq <= open_watermark[s] => r \in Exposed(s)'
      <4>1. /\ t = s /\ f.req = r
            /\ f.seg = current_segment[s] /\ f.seq = current_seq[s] + 1
        BY <1>e, <2>1, <3>2 DEF WalWrite
      <4>2. current_seq[s] + 1 <= open_watermark[s] => r \in reused'[s]
        BY <2>1, Zenon DEF WalWrite, IInv, TypeOK
      <4> QED
        BY <4>1, <4>2, Zenon DEF Exposed
    \* The new frame lies above every number in use, or reuses one.
    <3>3. ASSUME NEW t \in Shards, NEW f \in frames'[t], f \notin frames[t],
                 NEW w \in Nat, Below(t, w), f.seq <= w
          PROVE  f.req \in Exposed(t)'
      <4>1. t = s /\ f.req = r /\ f.seq = current_seq[s] + 1
        BY <3>2, <3>3, Zenon
      <4>2. f.seq <= open_watermark[s]
        BY <1>e, <3>3, <4>1 DEF Below
      <4> QED
        BY <3>2, <3>3, <4>1, <4>2, Zenon
    <3>4. \A t \in Shards : Held(t) \subseteq Held(t)' /\ Exposed(t)' \subseteq Held(t)'
                            /\ Exposed(t)' \subseteq Kept(t)'
      BY <1>b, <2>0, Zenon DEF Held, Kept
    <3>5. SnapshotCoversWatermark'
      <4> SUFFICES ASSUME NEW t \in Shards, NEW f \in frames'[t], f.seq <= snap_watermarks[t]
                   PROVE  f.req \in Kept(t)'
        BY <2>0, Zenon DEF SnapshotCoversWatermark, Kept, snapDisk
      <4>1. CASE f \in frames[t]
        BY <1>a, <1>b, <4>1, Zenon DEF CoverInv, SnapshotCoversWatermark, Kept
      <4>2. CASE f \notin frames[t]
        BY <1>a, <1>e, <2>0, <3>3, <3>4, <4>2, Zenon DEF BelowInv
      <4> QED
        BY <4>1, <4>2, Zenon
    <3>6. ASSUME NEW t \in Shards, NEW f \in frames'[t]
          PROVE  /\ f.seq <= shard_watermarks[t] => f.req \in Held(t)'
                 /\ f.seq <= persisted_watermarks[t] => f.req \in Kept(t)'
                 /\ \A k \in Snapshotters : f.seq <= snap_loaded[k][t] =>
                      f.req \in Held(t)' /\ (snap_pc[k] = "publish" => f.req \in Kept(t)')
                 /\ t = sweep_shard /\ sweep_pc = "drain" /\ f.seq <= gc_seq => f.req \in Kept(t)'
                 /\ t = sweep_shard /\ sweep_pc = "delete" /\ f.seg \in doomed => f.req \in Kept(t)'
      <4>1. CASE f \in frames[t]
        BY <1>a, <1>b, <2>0, <3>4, <4>1, Zenon DEF CoverInv
      <4>2. CASE f \notin frames[t]
        <5>1. /\ f.seq <= shard_watermarks[t] => f.req \in Exposed(t)'
              /\ f.seq <= persisted_watermarks[t] => f.req \in Exposed(t)'
          BY <1>a, <1>e, <2>0, <3>3, <4>2, Zenon DEF BelowInv
        <5>2. \A k \in Snapshotters : f.seq <= snap_loaded[k][t] => f.req \in Exposed(t)'
          BY <1>a, <1>e, <2>0, <3>3, <4>2, Zenon DEF BelowInv
        <5>3. t = sweep_shard /\ sweep_pc = "drain" /\ f.seq <= gc_seq => f.req \in Exposed(t)'
          BY <1>a, <1>e, <2>0, <3>3, <4>2, Zenon DEF BelowInv
        <5>4. ~(t = sweep_shard /\ sweep_pc = "delete" /\ f.seg \in doomed)
          <6>1. f.seg = current_segment[t] /\ current_segment[t] \in Nat
            BY <3>2, <4>2, Zenon DEF IInv, TypeOK
          <6>2. t = sweep_shard /\ sweep_pc = "delete" => \A n \in doomed : n < current_segment[t]
            BY <1>a, <2>0, Zenon DEF SegmentInv
          <6> QED
            BY <6>1, <6>2
        <5> QED
          BY <3>4, <5>1, <5>2, <5>3, <5>4, Zenon
      <4> QED
        BY <4>1, <4>2, Zenon
    <3> QED
      BY <1>a, <2>0, <3>1, <3>5, <3>6, Zenon DEF CoverInv, snapTasks, snapDisk
  <2>2. CASE WalSync(s) \/ WalRotate(s)
    BY <1>0, <2>0, <2>2, Zenon DEF WalSync, WalRotate, walDisk, sweepVars
  <2>3. CASE WalFail(s)
    <3>1. \A t \in Shards : frames'[t] \subseteq frames[t]
      BY <1>e, <2>3, Zenon DEF WalFail
    <3>2. /\ sweep_pc' = "drain" => UNCHANGED <<sweep_pc, sweep_shard, gc_seq>>
          /\ sweep_pc' = "delete" => UNCHANGED <<sweep_pc, sweep_shard>>
      BY <2>3, Zenon DEF WalFail, SweepAdvance
    <3> QED
      BY <1>0, <2>0, <3>1, <3>2, Zenon
  <2> QED
    BY <1>2, <2>1, <2>2, <2>3, Zenon DEF WalTask
<1>3. CASE Sweep
  <2>0. mode = "up" /\ UNCHANGED <<mode, persisted_watermarks, snapTasks, snapDisk>>
    BY <1>3, SweepLeaves, Zenon
  <2>1. CASE SweepWatermark
    \* The requests the new watermark covers are indexed or overtaken.
    <3>1. /\ UNCHANGED <<frames, indexed>> /\ sweep_pc' = "gc"
          /\ shard_watermarks' = [shard_watermarks EXCEPT ![sweep_shard] = last_seq[sweep_shard]]
          /\ \A f \in frames[sweep_shard] : f.seq <= last_seq[sweep_shard] =>
               f.req \in indexed[sweep_shard] \/ f.req \in overtaken'[sweep_shard]
      BY <1>e, <2>1, Zenon DEF SweepWatermark, walDisk, IInv, TypeOK
    <3>2. \A t \in Shards : Held(t) \subseteq Held(t)'
      BY <1>b, <3>1, Zenon DEF Held
    <3>3. \A t \in Shards : \A f \in frames[t] : f.seq <= shard_watermarks'[t] => f.req \in Held(t)'
      BY <1>a, <1>e, <2>0, <3>1, <3>2, Zenon DEF CoverInv, Held, Exposed
    <3>4. SnapshotCoversWatermark'
      BY <1>a, <1>b, <2>0, <3>1, Zenon DEF CoverInv, SnapshotCoversWatermark, Kept, snapDisk
    <3> QED
      BY <1>a, <1>b, <2>0, <3>1, <3>2, <3>3, <3>4, Zenon DEF CoverInv, snapTasks, snapDisk
  <2>2. CASE SweepGcLoad
    <3>1. /\ UNCHANGED <<frames, indexed, shard_watermarks, sweep_shard>>
          /\ gc_seq' = persisted_watermarks[sweep_shard] /\ sweep_pc' = "drain"
      BY <2>2, Zenon DEF SweepGcLoad, GcBound, memVars, walDisk
    <3>2. \A t \in Shards : Held(t) \subseteq Held(t)'
      BY <1>b, <3>1, Zenon DEF Held
    <3>4. SnapshotCoversWatermark'
      BY <1>a, <1>b, <2>0, <3>1, Zenon DEF CoverInv, SnapshotCoversWatermark, Kept, snapDisk
    <3> QED
      BY <1>a, <1>b, <2>0, <3>1, <3>2, <3>4, Zenon DEF CoverInv, snapTasks, snapDisk
  <2>3. CASE SweepGcDrain
    <3>1. /\ UNCHANGED <<frames, indexed, shard_watermarks, sweep_shard>>
          /\ sweep_pc = "drain" /\ sweep_pc' = "delete"
          /\ \A n \in doomed' : \E c \in completed_segments[sweep_shard] :
               n = c.seg /\ c.max_seq # U64MAX /\ c.max_seq <= gc_seq
      BY Zenon, <2>3 DEF SweepGcDrain, Drainable, memVars, walDisk
    \* A drained segment's frames lie below its bound, hence below gc_seq.
    <3>3. \A f \in frames[sweep_shard] : f.seg \in doomed' => f.req \in Kept(sweep_shard)
      <4> SUFFICES ASSUME NEW f \in frames[sweep_shard], f.seg \in doomed'
                   PROVE  f.req \in Kept(sweep_shard)
        BY Zenon
      <4>1. PICK c \in completed_segments[sweep_shard] :
              f.seg = c.seg /\ c.max_seq # U64MAX /\ c.max_seq <= gc_seq
        BY <3>1, Zenon
      <4>2. f.seq <= c.max_seq
        BY <1>a, <1>e, <2>0, <4>1, Zenon DEF SegmentInv, Opened
      <4>3. f.seq \in Nat /\ c.max_seq \in Int
        BY <1>e DEF Frame, Segment, U64MAX
      <4>4. f.seq <= gc_seq
        BY <1>e, <4>1, <4>2, <4>3
      <4> QED
        BY <1>a, <1>e, <2>0, <3>1, <4>4, Zenon DEF CoverInv
    <3>2. \A t \in Shards : Held(t) \subseteq Held(t)'
      BY <1>b, <3>1, Zenon DEF Held
    <3>4. SnapshotCoversWatermark'
      BY <1>a, <1>b, <2>0, <3>1, Zenon DEF CoverInv, SnapshotCoversWatermark, Kept, snapDisk
    <3> QED
      BY <1>a, <1>b, <1>e, <2>0, <3>1, <3>2, <3>3, <3>4, Zenon DEF CoverInv, snapTasks, snapDisk
  <2>4. CASE SweepSkip \/ SweepDrain \/ SweepWrite \/ SweepWriteFail \/ SweepGcDone
    BY <1>0, <2>0, <2>4, Zenon DEF SweepSkip, SweepDrain, SweepWrite, SweepWriteFail, SweepGcDone,
                            SweepAdvance, walDisk, memVars
  <2>5. CASE SweepRegister
    <3>1. /\ UNCHANGED <<frames, shard_watermarks>> /\ sweep_pc' = "watermark"
          /\ \A t \in Shards : indexed[t] \subseteq indexed'[t]
      BY <1>e, <2>5, Zenon DEF SweepRegister, walDisk
    <3> QED
      BY <1>0, <2>0, <3>1, Zenon
  <2>6. ASSUME NEW n \in doomed, SweepGcDelete(n) PROVE CoverInv'
    <3>1. /\ UNCHANGED <<indexed, shard_watermarks, sweep_pc, sweep_shard, gc_seq>>
          /\ doomed' = doomed \ {n}
          /\ \A t \in Shards : frames'[t] \subseteq frames[t]
      BY <1>e, <2>6, Zenon DEF SweepGcDelete, RemoveSegment, memVars
    <3> QED
      BY Zenon, <1>0, <2>0, <3>1
  <2>7. ASSUME NEW n \in doomed, SweepGcDeleteFail(n) PROVE CoverInv'
    BY <1>0, <2>0, <2>7, Zenon DEF SweepGcDeleteFail, walDisk, memVars
  <2> QED
    BY <1>3, <2>1, <2>2, <2>3, <2>4, <2>5, <2>6, <2>7, Zenon DEF Sweep
<1>4. ASSUME NEW k \in Snapshotters, Snapshot(k) PROVE CoverInv'
  <2>0. mode = "up" /\ UNCHANGED <<mode, frames, indexed, shard_watermarks, sweepVars>>
    BY <1>4, SnapshotLeaves, Zenon DEF walDisk
  <2>1. \A t \in Shards : Held(t) \subseteq Held(t)'
    BY <1>b, <2>0, Zenon DEF Held
  <2>2. \A t \in Shards : \A f \in frames[t] : f.seq >= 1
    BY <1>a, Zenon DEF SegmentInv
  <2>3. \A t \in Shards : \A f \in frames[t] : f.seq \in Nat
    BY <1>e DEF Frame
  <2>4. CASE SnapLoad(k)
    <3>1. /\ UNCHANGED <<persisted_watermarks, snap_watermarks, snap_indexed>>
          /\ snap_loaded' = [snap_loaded EXCEPT ![k] = shard_watermarks]
          /\ snap_pc' = [snap_pc EXCEPT ![k] = "lock"]
      BY <2>4, Zenon DEF SnapLoad, memVars, snapDisk
    <3>2. SnapshotCoversWatermark'
      BY <1>a, <1>b, <2>0, <3>1, Zenon DEF CoverInv, SnapshotCoversWatermark, Kept
    <3> QED
      BY Zenon, <1>a, <1>b, <1>e, <2>0, <2>1, <3>1, <3>2 DEF CoverInv, sweepVars
  <2>5. CASE SnapLock(k)
    <3>1. /\ UNCHANGED <<persisted_watermarks, snap_watermarks, snap_indexed, snap_loaded>>
          /\ snap_pc' = [snap_pc EXCEPT ![k] = "save"]
      BY <2>5, Zenon DEF SnapLock, memVars, snapDisk
    <3>2. SnapshotCoversWatermark'
      BY Zenon, <1>a, <1>b, <2>0, <3>1 DEF CoverInv, SnapshotCoversWatermark, Kept
    <3> QED
      BY Zenon, <1>a, <1>b, <1>e, <2>0, <2>1, <3>1, <3>2 DEF CoverInv, sweepVars
  <2>6. CASE SnapSave(k)
    <3>1. /\ UNCHANGED <<persisted_watermarks, snap_loaded>>
          /\ snap_watermarks' = snap_loaded[k] /\ snap_indexed' = indexed
          /\ snap_pc' = [snap_pc EXCEPT ![k] = "publish"]
      BY Zenon, <2>6 DEF SnapSave, memVars
    \* What was in the index is in the file now.
    <3>2. \A t \in Shards : Held(t) \subseteq Kept(t)'
      BY <1>b, <3>1, Zenon DEF Held, Kept
    <3>3. SnapshotCoversWatermark'
      BY Zenon, <1>a, <2>0, <3>1, <3>2 DEF CoverInv, SnapshotCoversWatermark, Kept
    <3> QED
      BY Zenon, <1>a, <1>b, <1>e, <2>0, <2>1, <3>1, <3>2, <3>3 DEF CoverInv, sweepVars
  <2>7. CASE SnapFail(k)
    <3>1. /\ UNCHANGED <<persisted_watermarks, snap_watermarks, snap_indexed>>
          /\ snap_loaded' = [snap_loaded EXCEPT ![k] = ZeroSeqs]
          /\ snap_pc' = [snap_pc EXCEPT ![k] = "idle"]
      BY <2>7, Zenon DEF SnapFail, memVars, snapDisk
    <3>2. SnapshotCoversWatermark'
      BY <1>a, <1>b, <2>0, <3>1, Zenon DEF CoverInv, SnapshotCoversWatermark, Kept
    <3>3. ASSUME NEW t \in Shards, NEW f \in frames[t], NEW j \in Snapshotters,
                 f.seq <= snap_loaded'[j][t]
          PROVE  f.req \in Held(t) /\ (snap_pc'[j] = "publish" => f.req \in Kept(t))
      <4>1. j # k
        BY <1>e, <2>2, <2>3, <3>1, <3>3 DEF ZeroSeqs
      <4> QED
        BY <1>a, <1>e, <2>0, <3>1, <3>3, <4>1, Zenon DEF CoverInv
    <3> QED
      BY Zenon, <1>a, <1>b, <2>0, <2>1, <3>1, <3>2, <3>3 DEF CoverInv, sweepVars
  <2>8. CASE SnapPublish(k)
    <3>1. /\ UNCHANGED <<snap_watermarks, snap_indexed>> /\ snap_pc[k] = "publish"
          /\ persisted_watermarks' = snap_loaded[k]
          /\ snap_loaded' = [snap_loaded EXCEPT ![k] = ZeroSeqs]
          /\ snap_pc' = [snap_pc EXCEPT ![k] = "idle"]
      BY <2>8, Zenon DEF SnapPublish, snapDisk
    <3>2. SnapshotCoversWatermark'
      BY <1>a, <1>b, <2>0, <3>1, Zenon DEF CoverInv, SnapshotCoversWatermark, Kept
    <3>3. ASSUME NEW t \in Shards, NEW f \in frames[t], NEW j \in Snapshotters,
                 f.seq <= snap_loaded'[j][t]
          PROVE  f.req \in Held(t) /\ (snap_pc'[j] = "publish" => f.req \in Kept(t))
      <4>1. j # k
        BY <1>e, <2>2, <2>3, <3>1, <3>3 DEF ZeroSeqs
      <4> QED
        BY <1>a, <1>e, <2>0, <3>1, <3>3, <4>1, Zenon DEF CoverInv
    <3>4. \A t \in Shards : \A f \in frames[t] : f.seq <= snap_loaded[k][t] => f.req \in Kept(t)
      BY <1>a, <2>0, <3>1, Zenon DEF CoverInv
    <3> QED
      BY <1>a, <1>b, <2>0, <2>1, <3>1, <3>2, <3>3, <3>4, Zenon DEF CoverInv, sweepVars
  <2> QED
    BY <1>4, <2>4, <2>5, <2>6, <2>7, <2>8, Zenon DEF Snapshot
<1>5. CASE Crash
  <2>1. mode' = "down" /\ UNCHANGED <<frames, snap_watermarks, snap_indexed>>
    BY <1>5, Zenon DEF Crash, walDisk, snapDisk
  <2> QED
    BY <1>a, <1>b, <2>1, Zenon DEF CoverInv, SnapshotCoversWatermark, Kept
<1>6. CASE Open
  <2>0. /\ mode # "up"
        /\ UNCHANGED <<shard_watermarks, sweep_pc, snap_pc, snap_loaded, snap_watermarks, snap_indexed>>
    BY <1>6, OpenLeaves, Zenon DEF snapTasks, snapDisk
  <2>1. \A t \in Shards : frames'[t] \subseteq frames[t]
    <3>1. UNCHANGED frames \/ \E n \in doomed : OpenDelete(n)
      BY Zenon, <1>6 DEF Open, OpenLoad, OpenShard, RecoverShard, OpenNext, OpenDone, OpenDeleteFail, walDisk
    <3>2. ASSUME NEW n \in doomed, OpenDelete(n) PROVE \A t \in Shards : frames'[t] \subseteq frames[t]
      BY Zenon, <1>e, <3>2 DEF OpenDelete, RemoveSegment
    <3> QED
      BY <3>1, <3>2, Zenon
  <2>2. SnapshotCoversWatermark'
    BY <1>a, <1>b, <2>0, <2>1, Zenon DEF CoverInv, SnapshotCoversWatermark, Kept
  <2>3. mode' # "down" => \A s \in Shards : snap_indexed'[s] \subseteq indexed'[s]
    <3>1. CASE OpenLoad
      BY Zenon, <2>0, <3>1 DEF OpenLoad
    <3>2. CASE OpenShard
      <4>1. mode # "down" /\ \A s \in Shards : indexed[s] \subseteq indexed'[s]
        <5>1. mode = "shard" /\ \E X : indexed' = [indexed EXCEPT ![open_shard] = indexed[open_shard] \cup X]
          BY Zenon, <3>2 DEF OpenShard, RecoverShard
        <5> QED
          BY <1>e, <5>1, Zenon
      <4> QED
        BY <1>a, <2>0, <4>1, Zenon DEF CoverInv
    <3>3. CASE OpenNext \/ OpenDone
      BY Zenon, <1>a, <2>0, <3>3 DEF CoverInv, OpenNext, OpenDone, memVars
    <3>4. ASSUME NEW n \in doomed, OpenDelete(n) \/ OpenDeleteFail(n)
          PROVE  mode # "down" /\ UNCHANGED <<mode, indexed>>
      BY <3>4, Zenon DEF OpenDelete, OpenDeleteFail, memVars
    <3>5. CASE mode # "down" /\ UNCHANGED <<mode, indexed>>
      BY <1>a, <2>0, <3>5, Zenon DEF CoverInv
    <3> QED
      BY Zenon, <1>6, <3>1, <3>2, <3>3, <3>4, <3>5 DEF Open
  <2>4. mode' = "up" => persisted_watermarks' = snap_watermarks
    BY Zenon, <1>6, <2>0 DEF Open, OpenLoad, OpenShard, RecoverShard, OpenNext, OpenDone, OpenDelete,
                OpenDeleteFail
  <2>5. \A t \in Shards : \A f \in frames'[t] : ~(f.seq <= 0)
    <3>1. \A t \in Shards : \A f \in frames[t] : f.seq \in Nat
      BY <1>e DEF Frame
    <3>2. \A t \in Shards : \A f \in frames[t] : f.seq >= 1
      BY Zenon, <1>a DEF SegmentInv
    <3> QED
      BY <2>1, <3>1, <3>2
  <2>6. \A t \in Shards : \A f \in frames'[t] : f.seq <= snap_watermarks[t] => f.req \in Kept(t)'
    BY Zenon, <2>0, <2>2 DEF SnapshotCoversWatermark, Kept
  <2> QED
    BY <1>a, <2>0, <2>2, <2>3, <2>4, <2>5, <2>6, Zenon DEF CoverInv, RestInv
<1>7. CASE UNCHANGED vars
  <2>1. UNCHANGED <<mode, frames, indexed, shard_watermarks, persisted_watermarks, sweepVars,
                    snap_pc, snap_loaded, snap_watermarks, snap_indexed>>
    BY <1>7, Zenon DEF vars, walDisk, memVars, snapTasks, snapDisk
  <2>2. \A t \in Shards : Held(t) \subseteq Held(t)'
    BY <1>b, <2>1, Zenon DEF Held
  <2>3. SnapshotCoversWatermark'
    BY Zenon, <1>a, <1>b, <2>1 DEF CoverInv, SnapshotCoversWatermark, Kept
  <2> QED
    BY Zenon, <1>a, <1>b, <2>1, <2>2, <2>3 DEF CoverInv, sweepVars
<1> QED
  BY <1>1, <1>2, <1>3, <1>4, <1>5, <1>6, <1>7, Zenon DEF Next

-----------------------------------------------------------------------------
\* Every step of every task, crash and recovery keeps the inductive invariant.
THEOREM Inductive == Spec => []IInv
<1>1. IInv /\ [Next]_vars => IInv'
  BY NextType, HandlerStep, LoggedStep, SegmentStep, RestStep, BelowStep, CoverStep, Zenon DEF IInv
<1> QED
  BY InitIInv, <1>1, PTL DEF Spec

\* The snapshot file on disk is consistent at every moment: recovery skips, for
\* its watermark, only entries whose requests its index holds, or exposed ones.
THEOREM SnapshotConsistent == Spec => []SnapshotCoversWatermark
<1>1. IInv => SnapshotCoversWatermark
  BY Zenon DEF IInv, CoverInv
<1> QED
  BY Inductive, <1>1, PTL

\* An acknowledged request survives a crash at any moment unless the watermark
\* overtook it, its sequence number was reused, or open() dropped its segment.
THEOREM AckedSafe == Spec => []AckedRecoverableUnlessExposed
<1>1. IInv => AckedRecoverableUnlessExposed
  <2> SUFFICES ASSUME IInv, NEW r \in Reqs, NEW s \in Shards,
                      phase[r] = "acked", s \in route[r]
               PROVE  r \in Recoverable(s) \cup Exposed(s)
    BY Zenon DEF AckedRecoverableUnlessExposed
  <2>1. r \in wal_ok[s]
    BY Zenon DEF IInv, HandlerInv
  <2>2. CASE r \in Kept(s)
    BY <2>2, Zenon DEF Kept, Recoverable
  <2>3. ASSUME NEW f \in frames[s], f.req = r PROVE r \in Recoverable(s) \cup Exposed(s)
    <3>1. f.seq \in Nat /\ snap_watermarks[s] \in Nat
      BY DEF IInv, TypeOK, Frame
    <3>2. CASE f.seq <= snap_watermarks[s]
      BY Zenon, <2>3, <3>2 DEF IInv, CoverInv, SnapshotCoversWatermark, Recoverable
    <3>3. CASE f.seq > snap_watermarks[s]
      BY Zenon, <2>3, <3>3 DEF Recoverable, Replayed
    <3> QED
      BY <3>1, <3>2, <3>3
  <2> QED
    BY <2>1, <2>2, <2>3, Zenon DEF IInv, LoggedInv
<1> QED
  BY Inductive, <1>1, PTL

-----------------------------------------------------------------------------
(* Memtables and flushes while the process runs *)

\* A request in a memtable was logged by every shard it touches.
MemInv ==
  \A s \in Shards : \A r \in memtables[s] : phase[r] # "idle" /\ \A t \in route[r] : r \in wal_ok[t]

\* Every step keeps what a memtable holds logged.
LEMMA MemStep == IInv /\ MemInv /\ [Next]_vars => MemInv'
<1> SUFFICES ASSUME TypeOK, HandlerInv, MemInv, [Next]_vars PROVE MemInv'
  BY Zenon DEF IInv
<1>t. /\ phase \in [Reqs -> Phases] /\ route \in [Reqs -> SUBSET Shards]
      /\ wal_ok \in [Shards -> SUBSET Reqs] /\ memtables \in [Shards -> SUBSET Reqs]
      /\ sweep_shard \in Shards
  BY Zenon DEF TypeOK
<1>0. ASSUME UNCHANGED <<phase, route, wal_ok>>,
             \A s \in Shards : memtables'[s] \subseteq memtables[s] PROVE MemInv'
  BY <1>0, Zenon DEF MemInv
<1>1. ASSUME NEW r \in Reqs, Handler(r) PROVE MemInv'
  <2>0. UNCHANGED wal_ok
    BY <1>1, HandlerLeaves, Zenon
  <2>1. ASSUME NEW S \in SUBSET Shards, Append(r, S) PROVE MemInv'
    BY <1>t, <2>0, <2>1, Zenon DEF MemInv, Append, memVars
  <2>2. CASE AppendLogged(r) \/ AppendFail(r) \/ AppendReply(r)
    BY <1>t, <2>0, <2>2 DEF MemInv, AppendLogged, AppendFail, AppendReply, memVars
  <2>3. ASSUME NEW s \in Shards, AppendInsert(r, s) PROVE MemInv'
    <3>1. UNCHANGED <<phase, route>> /\ \A x \in Shards, q \in Reqs : q \in memtables'[x] => q \in memtables[x] \/ q = r
      BY <1>t, <2>3, Zenon DEF AppendInsert
    <3>2. phase[r] # "idle" /\ \A t \in route[r] : r \in wal_ok[t]
      BY Zenon, <2>3 DEF AppendInsert, HandlerInv
    <3>3. \A x \in Shards : memtables'[x] \subseteq Reqs
      BY <1>t, <2>3, Zenon DEF AppendInsert
    <3> QED
      BY <2>0, <3>1, <3>2, <3>3, Zenon DEF MemInv
  <2> QED
    BY <1>1, <2>1, <2>2, <2>3, Zenon DEF Handler
<1>2. ASSUME NEW s \in Shards, WalTask(s) PROVE MemInv'
  <2>0. UNCHANGED <<phase, route, memtables>>
    BY <1>2, WalTaskLeaves, Zenon DEF handlerVars, memVars
  <2>1. \A t \in Shards : wal_ok[t] \subseteq wal_ok'[t]
    BY Zenon, <1>t, <1>2 DEF WalTask, WalWrite, WalSync, WalFail, WalRotate
  <2> QED
    BY <1>t, <2>0, <2>1, Zenon DEF MemInv
<1>3. CASE Sweep
  <2>1. UNCHANGED <<phase, route, wal_ok>>
    BY <1>3, SweepLeaves, Zenon DEF handlerVars
  <2>2. \A s \in Shards : memtables'[s] \subseteq memtables[s]
    BY Zenon, <1>t, <1>3 DEF Sweep, SweepSkip, SweepDrain, SweepWrite, SweepWriteFail, SweepRegister,
       SweepWatermark, SweepGcLoad, SweepGcDrain, SweepGcDone, SweepGcDelete, SweepGcDeleteFail, memVars
  <2> QED
    BY <1>0, <2>1, <2>2, Zenon
<1>4. ASSUME NEW k \in Snapshotters, Snapshot(k) PROVE MemInv'
  BY <1>0, <1>4, SnapshotLeaves, Zenon DEF handlerVars, walVars
<1>5. CASE Crash
  BY Zenon, <1>5 DEF Crash, MemInv, NoShards
<1>6. CASE Open
  BY <1>0, <1>6, OpenLeaves, Zenon DEF handlerVars
<1>7. CASE UNCHANGED vars
  BY <1>0, <1>7, Zenon DEF vars, handlerVars, walVars, memVars
<1> QED
  BY <1>1, <1>2, <1>3, <1>4, <1>5, <1>6, <1>7, Zenon DEF Next

\* WAL fsync is complete in all shards before any insert: what a memtable holds was
\* logged by every shard its request touches.
THEOREM LoggedBeforeInserted == Spec => []WalBeforeMemtable
<1>1. Init => MemInv
  BY Zenon DEF Init, MemInv, NoShards
<1>2. MemInv => WalBeforeMemtable
  BY Zenon DEF MemInv, WalBeforeMemtable
<1> QED
  BY Inductive, MemStep, <1>1, <1>2, PTL DEF Spec

\* Without faults and crashes what a handler has inserted is in the memtable, in the
\* hands of the flush of that shard, or in the index.
InEngine(r, s) == r \in memtables[s] \cup indexed[s] \/ (r \in drained /\ sweep_shard = s)
EngineInv ==
  faults = 0 /\ crashes = 0 =>
    /\ mode # "up" => \A r \in Reqs : phase[r] = "idle"
    /\ drained # {} => sweep_pc \in {"write", "register"}
    /\ \A r \in Reqs : /\ phase[r] = "wal" => to_insert[r] = route[r]
                       /\ phase[r] = "acked" => to_insert[r] = {}
    /\ \A r \in Reqs, s \in Shards :
         phase[r] \in {"insert", "acked"} /\ s \in route[r] /\ s \notin to_insert[r] => InEngine(r, s)

\* Every step keeps it, or is a fault or a crash.
LEMMA EngineStep == IInv /\ EngineInv /\ [Next]_vars => EngineInv'
<1> SUFFICES ASSUME TypeOK, EngineInv, [Next]_vars, faults' = 0, crashes' = 0 PROVE EngineInv'
  BY Zenon DEF IInv, EngineInv
<1>t. /\ phase \in [Reqs -> Phases] /\ route \in [Reqs -> SUBSET Shards]
      /\ to_insert \in [Reqs -> SUBSET Shards] /\ indexed \in [Shards -> SUBSET Reqs]
      /\ memtables \in [Shards -> SUBSET Reqs] /\ sweep_shard \in Shards /\ faults \in Nat /\ crashes \in Nat
  BY Zenon DEF TypeOK
<1>n. ~Fault
  BY <1>t DEF Fault
<1>0. ASSUME UNCHANGED <<phase, route, to_insert, memtables, drained, sweep_pc, sweep_shard, bounds>>,
             mode' # "up" => mode # "up",
             \A s \in Shards : indexed[s] \subseteq indexed'[s] PROVE EngineInv'
  BY <1>t, <1>0, Zenon DEF EngineInv, InEngine, bounds
<1>1. ASSUME NEW r \in Reqs, Handler(r) PROVE EngineInv'
  <2>0. mode = "up" /\ UNCHANGED <<mode, indexed, drained, sweep_pc, sweep_shard>>
    BY <1>1, HandlerLeaves, Zenon DEF sweepVars
  <2>1. ASSUME NEW S \in SUBSET Shards, Append(r, S) PROVE EngineInv'
    BY Zenon, <1>t, <2>0, <2>1 DEF EngineInv, InEngine, Append, memVars, bounds
  <2>2. CASE AppendLogged(r)
    BY <1>t, <2>0, <2>2, Zenon DEF EngineInv, InEngine, AppendLogged, memVars, bounds
  <2>3. CASE AppendFail(r)
    BY <1>t, <2>0, <2>3, Zenon DEF EngineInv, InEngine, AppendFail, memVars, bounds
  <2>4. CASE AppendReply(r)
    BY <1>t, <2>0, <2>4, Zenon DEF EngineInv, InEngine, AppendReply, memVars, bounds
  <2>5. ASSUME NEW s \in Shards, AppendInsert(r, s) PROVE EngineInv'
    BY <1>t, <2>0, <2>5, Zenon DEF EngineInv, InEngine, AppendInsert, bounds
  <2> QED
    BY <1>1, <2>1, <2>2, <2>3, <2>4, <2>5, Zenon DEF Handler
<1>2. ASSUME NEW s \in Shards, WalTask(s) PROVE EngineInv'
  <2>0. UNCHANGED <<mode, phase, route, to_insert, memtables, indexed, drained>>
    BY <1>2, WalTaskLeaves, Zenon DEF handlerVars, memVars
  <2>1. UNCHANGED <<sweep_pc, sweep_shard, bounds>>
    BY Zenon, <1>n, <1>2 DEF WalTask, WalWrite, WalSync, WalFail, WalRotate, sweepVars
  <2> QED
    BY Zenon, <1>0, <2>0, <2>1
<1>3. CASE Sweep
  <2>0. mode = "up" /\ UNCHANGED <<mode, phase, route, to_insert>>
    BY <1>3, SweepLeaves, Zenon DEF handlerVars
  <2>1. CASE SweepSkip
    BY <1>t, <2>0, <2>1, Zenon DEF EngineInv, InEngine, SweepSkip, SweepAdvance, memVars, bounds
  <2>2. CASE SweepDrain
    BY <1>t, <2>0, <2>2, Zenon DEF EngineInv, InEngine, SweepDrain, bounds
  <2>3. CASE SweepWrite
    BY <1>t, <2>0, <2>3, Zenon DEF EngineInv, InEngine, SweepWrite, memVars, bounds
  <2>4. CASE SweepRegister
    BY <1>t, <2>0, <2>4, Zenon DEF EngineInv, InEngine, SweepRegister, bounds
  <2>5. CASE SweepWatermark \/ SweepGcLoad \/ SweepGcDrain
    BY Zenon, <1>t, <2>0, <2>5 DEF EngineInv, InEngine, SweepWatermark, SweepGcLoad, SweepGcDrain, memVars, bounds
  <2>6. ASSUME NEW n \in doomed, SweepGcDelete(n) PROVE EngineInv'
    BY Zenon, <1>0, <2>0, <2>6 DEF SweepGcDelete, memVars
  <2>7. CASE SweepGcDone
    BY <1>t, <2>0, <2>7, Zenon DEF EngineInv, InEngine, SweepGcDone, SweepAdvance, memVars, bounds
  <2> QED
    BY <1>n, <1>3, <2>1, <2>2, <2>3, <2>4, <2>5, <2>6, <2>7, Zenon DEF Sweep, SweepWriteFail, SweepGcDeleteFail
<1>4. ASSUME NEW k \in Snapshotters, Snapshot(k) PROVE EngineInv'
  <2>1. UNCHANGED bounds
    BY <1>n, <1>4, Zenon DEF Snapshot, SnapLoad, SnapLock, SnapSave, SnapFail, SnapPublish
  <2> QED
    BY Zenon, <1>0, <1>4, <2>1, SnapshotLeaves DEF handlerVars, sweepVars
<1>5. CASE Crash
  BY <1>t, <1>5 DEF Crash
<1>6. CASE Open
  <2>1. mode # "up" /\ UNCHANGED <<phase, route, to_insert, memtables, drained, sweep_pc, sweep_shard>>
    BY <1>6, OpenLeaves, Zenon DEF handlerVars
  <2>2. UNCHANGED bounds
    BY Zenon, <1>n, <1>6 DEF Open, OpenLoad, OpenShard, RecoverShard, OpenNext, OpenDone, OpenDelete, OpenDeleteFail
  <2> QED
    BY Zenon, <2>1, <2>2 DEF EngineInv, bounds
<1>7. CASE UNCHANGED vars
  BY Zenon, <1>0, <1>7 DEF vars, handlerVars, memVars, sweepVars
<1> QED
  BY <1>1, <1>2, <1>3, <1>4, <1>5, <1>6, <1>7, Zenon DEF Next

\* However appends interleave with a flush, nothing acknowledged falls between
\* memtable, flush and index.
THEOREM NothingFallsBetween == Spec => []AckedStaysInEngine
<1>1. Init => EngineInv
  BY DEF Init, EngineInv, NoShards
<1>2. EngineInv => AckedStaysInEngine
  BY Zenon DEF EngineInv, InEngine, AckedStaysInEngine
<1> QED
  BY Inductive, EngineStep, <1>1, <1>2, PTL DEF Spec

=============================================================================
