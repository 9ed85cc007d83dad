---------------------------- MODULE GroupCommit ----------------------------
(***************************************************************************)
(* One WAL shard: the bounded channel of WalSender, the wal_task loop that *)
(* commits one batch with one fsync, the WalWriter with its segment files, *)
(* a loss of power, and the recovery that reopens the shard.               *)
(*                                                                         *)
(* An append is the entry of one client.  A frame is its entry with its    *)
(* sequence number; `ok' is FALSE for the fragment a cut write leaves.     *)
(***************************************************************************)
EXTENDS Sequences, FiniteSetsExt

CONSTANTS Clients,     \* callers of WalSender::append, one entry each
          Drainers,    \* callers of drain_completed_before (the sweep)
          Rotators,    \* callers of rotate_and_drain
          Capacity,    \* wal_channel_capacity
          MaxBatch,    \* wal_max_batch
          SegmentCap,  \* wal_max_segment_bytes, in frames
          FaultKinds,  \* the I/O errors that may happen
          MaxFaults,   \* bound: failing I/O operations
          MaxCrashes   \* bound: losses of power

ASSUME BoundsAssumption ==
  /\ Capacity \in Nat \ {0} /\ MaxBatch \in Nat \ {0} /\ SegmentCap \in Nat \ {0}
  /\ MaxFaults \in Nat /\ MaxCrashes \in Nat
  /\ FaultKinds \subseteq {"write", "torn", "sync", "rotate"}

\* A caller makes one kind of call.
ASSUME CallersAssumption ==
  /\ Clients \cap Drainers = {} /\ Clients \cap Rotators = {} /\ Drainers \cap Rotators = {}

Callers == Clients \cup Drainers \cup Rotators
U64MAX == -1   \* above every sequence number

VARIABLES
  \* callers
  status,      \* "idle", "sent", "ok", "err" or "cut"
  got,         \* sequence number an append returned
  paths,       \* segments a drain returned, to be removed
  \* the channel and wal_task
  queue, pc, batch, out, last_seq,
  \* WalWriter
  current_seq, current_size, current_segment, file, completed_segments,
  \* disk: the frames of each segment file, and how many of them are synced
  disk, synced,
  \* observation only
  released,    \* entries a snapshot covers, or recovery has given back
  watermark,   \* the highest watermark of a snapshot
  faults,      \* the I/O errors met so far
  crashes

callerVars == <<status, got, paths>>
taskVars == <<queue, pc, batch, out, last_seq>>
writerVars == <<current_seq, current_size, current_segment, file, completed_segments>>
diskVars == <<disk, synced>>
vars == <<callerVars, taskVars, writerVars, diskVars, released, watermark, faults, crashes>>

Init ==
  /\ status = [c \in Callers |-> "idle"]
  /\ got = [c \in Clients |-> 0] /\ paths = [d \in Drainers |-> {}]
  /\ queue = <<>> /\ pc = "recv" /\ batch = <<>> /\ out = <<>> /\ last_seq = 0
  /\ current_seq = 0 /\ current_size = 0 /\ current_segment = 1 /\ file = 1
  /\ completed_segments = {}
  /\ disk = [n \in {1} |-> <<>>] /\ synced = [n \in {1} |-> 0]
  /\ released = {} /\ watermark = 0
  /\ faults = <<>> /\ crashes = 0

Fault(kind) == kind \in FaultKinds /\ Len(faults) < MaxFaults /\ faults' = Append(faults, kind)

\* recover: the frames of a file up to the first torn or corrupt one.
Readable(fs) == {fs[i] : i \in {j \in 1 .. Len(fs) : \A k \in 1 .. j : fs[k].ok}}

\* The frames of segment n that no loss of power can take away.
Durable(n) == Readable(SubSeq(disk[n], 1, synced[n]))

\* ... and the entries a recovery is sure to find, whatever the power loss.
DurableEntries == {f.from : f \in UNION {Durable(n) : n \in DOMAIN disk}}

-----------------------------------------------------------------------------
(* Callers *)

\* send().await on the bounded channel
Send(c, msg) ==
  /\ pc # "down" /\ status[c] = "idle" /\ Len(queue) < Capacity
  /\ queue' = Append(queue, msg)
  /\ status' = [status EXCEPT ![c] = "sent"]
  /\ UNCHANGED <<got, paths, pc, batch, out, last_seq, writerVars, diskVars, faults, crashes>>

SendAppend(c) ==
  /\ Send(c, [type |-> "append", from |-> c, seq |-> 0])
  /\ UNCHANGED <<released, watermark>>

\* A drain asks for the watermark of a snapshot: the one it asked for before (0
\* when there is none, and perhaps above last_seq after a restart), or that of a
\* new snapshot.  Every entry the new one covers is released, and will not be asked
\* of recovery again.
SendDrain(d, q) ==
  /\ Send(d, [type |-> "drain", from |-> d, seq |-> q])
  /\ \/ q = watermark /\ UNCHANGED <<released, watermark>>
     \/ /\ q \in 1 .. last_seq
        /\ watermark' = IF q > watermark THEN q ELSE watermark
        /\ released' = released \cup
             {f.from : f \in {g \in UNION {Durable(n) : n \in DOMAIN disk} : g.seq <= q}}

SendRotate(c) ==
  /\ Send(c, [type |-> "rotate", from |-> c, seq |-> 0])
  /\ UNCHANGED <<released, watermark>>

\* The drainer removes a file it was given; NotFound is benign.
RemoveFile(d, n) ==
  /\ n \in paths[d]
  /\ paths' = [paths EXCEPT ![d] = @ \ {n}]
  /\ disk' = [m \in DOMAIN disk \ {n} |-> disk[m]]
  /\ synced' = [m \in DOMAIN synced \ {n} |-> synced[m]]
  /\ UNCHANGED <<status, got, taskVars, writerVars, released, watermark, faults, crashes>>

-----------------------------------------------------------------------------
(* wal_task: receive, collect, number, write, sync, answer *)

TaskRecv ==
  /\ pc = "recv" /\ queue # <<>>
  /\ batch' = <<Head(queue)>> /\ queue' = Tail(queue)
  /\ pc' = "collect"
  /\ UNCHANGED <<callerVars, out, last_seq, writerVars, diskVars, released, watermark, faults, crashes>>

\* Mutant: the batch takes all there is.
TaskCollect_NoLimit ==
  /\ pc = "collect" /\ queue # <<>>
  /\ batch' = Append(batch, Head(queue)) /\ queue' = Tail(queue)
  /\ UNCHANGED <<callerVars, pc, out, last_seq, writerVars, diskVars, released, watermark, faults, crashes>>

TaskCollect ==
  /\ pc = "collect" /\ Len(batch) < MaxBatch /\ queue # <<>>
  /\ batch' = Append(batch, Head(queue)) /\ queue' = Tail(queue)
  /\ UNCHANGED <<callerVars, pc, out, last_seq, writerVars, diskVars, released, watermark, faults, crashes>>

\* The k-th smallest element of a set of positions.
Nth(at, k) == CHOOSE i \in at : Cardinality({j \in at : j <= i}) = k

\* The messages of one type, in the order received.
OfType(msgs, type) ==
  LET at == {i \in DOMAIN msgs : msgs[i].type = type} IN
  [k \in 1 .. Cardinality(at) |-> msgs[Nth(at, k)]]
From(msgs) == {m.from : m \in Range(msgs)}
Answer(callers, result) ==
  status' = [c \in Callers |-> IF c \in callers THEN result ELSE status[c]]

\* The frames of a batch: its appends, numbered in the order received.
Frames(msgs, base) ==
  LET appends == OfType(msgs, "append") IN
  [i \in DOMAIN appends |-> [seq |-> base + i, from |-> appends[i].from, ok |-> TRUE]]

\* Mutant: the numbers are published when they are given out.
TaskGather_Publishes ==
  LET frames == Frames(batch, current_seq)
      rotates == OfType(batch, "rotate") IN
  /\ pc = "collect" /\ (Len(batch) = MaxBatch \/ queue = <<>>)
  /\ out' = frames /\ current_seq' = current_seq + Len(frames)
  /\ last_seq' = current_seq'
  /\ Answer(IF rotates = <<>> THEN {} ELSE From(Tail(rotates)), "err")
  /\ pc' = IF frames = <<>> THEN "rotate" ELSE "write"
  /\ UNCHANGED <<got, paths, queue, batch, current_size, current_segment, file,
                 completed_segments, diskVars, released, watermark, faults, crashes>>

\* Number the appends; only the first Rotate of a batch is kept.
TaskGather ==
  LET frames == Frames(batch, current_seq)
      rotates == OfType(batch, "rotate") IN
  /\ pc = "collect" /\ (Len(batch) = MaxBatch \/ queue = <<>>)
  /\ out' = frames /\ current_seq' = current_seq + Len(frames)
  /\ Answer(IF rotates = <<>> THEN {} ELSE From(Tail(rotates)), "err")
  /\ pc' = IF frames = <<>> THEN "rotate" ELSE "write"
  /\ UNCHANGED <<got, paths, queue, batch, last_seq, current_size, current_segment, file,
                 completed_segments, diskVars, released, watermark, faults, crashes>>

\* What the open file holds after frames fs were written to it; the frames of
\* a file whose name is gone go nowhere.
WriteTo(fs) == disk' = [n \in DOMAIN disk |-> IF n = file THEN disk[n] \o fs ELSE disk[n]]

\* Mutant: the batch is answered without an fsync.
TaskWrite_NoSync ==
  /\ pc = "write"
  /\ WriteTo(out) /\ pc' = "publish"
  /\ UNCHANGED <<callerVars, queue, batch, out, last_seq, writerVars, synced,
                 released, watermark, faults, crashes>>

TaskWrite ==
  /\ pc = "write"
  /\ WriteTo(out) /\ pc' = "sync"
  /\ UNCHANGED <<callerVars, queue, batch, out, last_seq, writerVars, synced,
                 released, watermark, faults, crashes>>

\* write_all fails part way: at a frame boundary, or inside a frame.
TaskWriteFail ==
  /\ pc = "write"
  /\ \E k \in 0 .. Len(out) - 1 :
       \/ Fault("write") /\ WriteTo(SubSeq(out, 1, k))
       \/ Fault("torn") /\ WriteTo(Append(SubSeq(out, 1, k), [out[k + 1] EXCEPT !.ok = FALSE]))
  /\ pc' = "fail"
  /\ UNCHANGED <<callerVars, queue, batch, out, last_seq, writerVars, synced,
                 released, watermark, crashes>>

TaskSync ==
  /\ pc = "sync"
  /\ synced' = [n \in DOMAIN synced |-> IF n = file THEN Len(disk[n]) ELSE synced[n]]
  /\ current_size' = current_size + Len(out)
  /\ pc' = "publish"
  /\ UNCHANGED <<callerVars, queue, batch, out, last_seq, current_seq, current_segment,
                 file, completed_segments, disk, released, watermark, faults, crashes>>

TaskSyncFail ==
  /\ pc = "sync" /\ Fault("sync")
  /\ pc' = "fail"
  /\ UNCHANGED <<callerVars, queue, batch, out, last_seq, writerVars, diskVars,
                 released, watermark, crashes>>

\* Mutant: the numbers of a failed batch are given out again.
TaskFail_RollsBack ==
  /\ pc = "fail"
  /\ Answer({c \in From(batch) : status[c] = "sent"}, "err")
  /\ batch' = <<>> /\ out' = <<>> /\ pc' = "recv"
  /\ current_seq' = last_seq
  /\ UNCHANGED <<got, paths, queue, last_seq, current_size, current_segment, file,
                 completed_segments, diskVars, released, watermark, faults, crashes>>

\* Mutant: only the appends of a failed batch are told.
TaskFail_AppendsOnly ==
  /\ pc = "fail"
  /\ Answer(From(out), "err")
  /\ batch' = <<>> /\ out' = <<>> /\ pc' = "recv"
  /\ UNCHANGED <<got, paths, queue, last_seq, writerVars, diskVars, released,
                 watermark, faults, crashes>>

\* The error arm: every append, every drain and the kept Rotate get the error.
TaskFail ==
  /\ pc = "fail"
  /\ Answer({c \in From(batch) : status[c] = "sent"}, "err")
  /\ batch' = <<>> /\ out' = <<>> /\ pc' = "recv"
  /\ UNCHANGED <<got, paths, queue, last_seq, writerVars, diskVars, released,
                 watermark, faults, crashes>>

\* Mutant: the first number of the batch is published.
TaskPublish_First ==
  /\ pc = "publish"
  /\ last_seq' = Head(out).seq
  /\ pc' = "reply"
  /\ UNCHANGED <<callerVars, queue, batch, out, writerVars, diskVars, released,
                 watermark, faults, crashes>>

TaskPublish ==
  /\ pc = "publish"
  /\ last_seq' = out[Len(out)].seq
  /\ pc' = "reply"
  /\ UNCHANGED <<callerVars, queue, batch, out, writerVars, diskVars, released,
                 watermark, faults, crashes>>

TaskReply ==
  /\ pc = "reply"
  /\ Answer(From(out), "ok")
  /\ got' = [c \in Clients |-> IF \E f \in Range(out) : f.from = c
                               THEN (CHOOSE f \in Range(out) : f.from = c).seq ELSE got[c]]
  /\ pc' = "rotate"
  /\ UNCHANGED <<paths, queue, batch, out, last_seq, writerVars, diskVars,
                 released, watermark, faults, crashes>>

\* WalWriter::rotate.  The old segment is recorded before the new file is open,
\* and `completed' is what stays recorded in the end.
Rotated == completed_segments \cup {[seg |-> current_segment, max_seq |-> current_seq]}

Rotate(completed) ==
  /\ completed_segments' = completed
  /\ current_segment' = current_segment + 1
  /\ file' = current_segment + 1 /\ current_size' = 0
  /\ disk' = [n \in DOMAIN disk \cup {file'} |-> IF n \in DOMAIN disk THEN disk[n] ELSE <<>>]
  /\ synced' = [n \in DOMAIN disk' |-> IF n \in DOMAIN disk THEN synced[n] ELSE 0]
  /\ UNCHANGED <<current_seq, faults>>

RotateFail ==
  /\ Fault("rotate")
  /\ completed_segments' = Rotated
  /\ current_segment' = current_segment + 1
  /\ UNCHANGED <<current_seq, current_size, file, diskVars>>

\* A full segment is rotated after the replies; a failure is only logged.
TaskSizeRotate ==
  /\ pc = "rotate"
  /\ \/ current_size < SegmentCap /\ UNCHANGED <<writerVars, diskVars, faults>>
     \/ current_size >= SegmentCap /\ (Rotate(Rotated) \/ RotateFail)
  /\ out' = <<>> /\ pc' = "drain"
  /\ UNCHANGED <<callerVars, queue, batch, last_seq, released, watermark, crashes>>

\* WalWriter::drain_completed_before
Drainable(completed, q) ==
  {c \in completed : q = U64MAX \/ (c.max_seq # U64MAX /\ c.max_seq <= q)}

\* All DrainBefore requests of the batch are answered with the segments below
\* the highest sequence number among them.
TaskDrain ==
  LET drains == Range(OfType(batch, "drain"))
      gone == IF drains = {} THEN {}
              ELSE Drainable(completed_segments, Max({m.seq : m \in drains})) IN
  /\ pc = "drain"
  /\ completed_segments' = completed_segments \ gone
  /\ paths' = [d \in Drainers |-> IF \E m \in drains : m.from = d
                                  THEN paths[d] \cup {c.seg : c \in gone} ELSE paths[d]]
  /\ Answer({m.from : m \in drains}, "ok")
  /\ pc' = "explicit"
  /\ UNCHANGED <<got, queue, batch, out, last_seq, current_seq, current_size,
                 current_segment, file, diskVars, released, watermark, faults, crashes>>

\* The kept Rotate of the batch drains every completed segment.
TaskExplicit ==
  LET rotates == OfType(batch, "rotate") IN
  /\ pc = "explicit"
  /\ \/ rotates = <<>> /\ UNCHANGED <<status, writerVars, diskVars, faults>>
     \/ /\ rotates # <<>> /\ Rotate(Rotated \ Drainable(Rotated, U64MAX))
        /\ Answer({Head(rotates).from}, "ok")
     \/ rotates # <<>> /\ RotateFail /\ Answer({Head(rotates).from}, "err")
  /\ batch' = <<>> /\ pc' = "recv"
  /\ UNCHANGED <<got, paths, queue, out, last_seq, released, watermark, crashes>>

-----------------------------------------------------------------------------
(* Loss of power, and the reopening of the shard by StorageServer::open *)

\* Of what was not synced a prefix survives, perhaps with a fragment after it.
Survives(n, fs) ==
  \E k \in synced[n] .. Len(disk[n]) :
    \/ fs = SubSeq(disk[n], 1, k)
    \/ k < Len(disk[n]) /\ fs = Append(SubSeq(disk[n], 1, k), [disk[n][k + 1] EXCEPT !.ok = FALSE])

PowerLoss ==
  /\ pc # "down" /\ crashes < MaxCrashes /\ crashes' = crashes + 1
  /\ \E after \in [DOMAIN disk -> UNION {{SubSeq(disk[n], 1, k) : k \in 0 .. Len(disk[n])} \cup
         {Append(SubSeq(disk[n], 1, k - 1), [disk[n][k] EXCEPT !.ok = FALSE]) : k \in DOMAIN disk[n]}
           : n \in DOMAIN disk}] :
       /\ \A n \in DOMAIN disk : Survives(n, after[n])
       /\ disk' = after /\ synced' = [n \in DOMAIN disk |-> Len(after[n])]
  /\ status' = [c \in Callers |-> IF status[c] = "sent" THEN "cut" ELSE status[c]]
  /\ paths' = [d \in Drainers |-> {}]
  /\ queue' = <<>> /\ batch' = <<>> /\ out' = <<>> /\ pc' = "down" /\ last_seq' = 0
  /\ current_seq' = 0 /\ current_size' = 0 /\ current_segment' = 0 /\ file' = 0
  /\ completed_segments' = {}
  /\ UNCHANGED <<got, released, watermark, faults>>

\* recover: every readable frame above the watermark, of every segment.
Replayed == {f \in UNION {Readable(disk[n]) : n \in DOMAIN disk} : f.seq > watermark}

\* recover, WalWriter::open at the highest segment, a rotation if there was a
\* segment, drain and remove.  What was replayed is in a chunk from here on.
Reopen ==
  LET last == Max({f.seq : f \in Replayed} \cup {0})
      high == Max(DOMAIN disk \cup {1})
      prior == {[seg |-> n, max_seq |-> U64MAX] : n \in 1 .. high - 1}
      rotated == IF DOMAIN disk # {} THEN {[seg |-> high, max_seq |-> last]} ELSE {}
      gone == Drainable(prior \cup rotated, IF Replayed # {} THEN last ELSE watermark)
      active == high + Cardinality(rotated)
      kept == (DOMAIN disk \cup {active}) \ {c.seg : c \in gone} IN
  /\ pc = "down"
  /\ released' = released \cup {f.from : f \in Replayed}
  /\ current_seq' = last /\ last_seq' = last /\ current_size' = 0
  /\ current_segment' = active /\ file' = active
  /\ completed_segments' = (prior \cup rotated) \ gone
  /\ disk' = [n \in kept |-> IF n \in DOMAIN disk THEN disk[n] ELSE <<>>]
  /\ synced' = [n \in kept |-> IF n \in DOMAIN disk THEN Len(disk[n]) ELSE 0]
  /\ pc' = "recv"
  /\ UNCHANGED <<callerVars, queue, batch, out, watermark, faults, crashes>>

-----------------------------------------------------------------------------
Caller == \/ \E c \in Clients : SendAppend(c)
          \/ \E d \in Drainers : \/ \E q \in {watermark} \cup 1 .. last_seq : SendDrain(d, q)
                                 \/ \E n \in paths[d] : RemoveFile(d, n)
          \/ \E c \in Rotators : SendRotate(c)
Task == \/ TaskRecv \/ TaskCollect \/ TaskGather \/ TaskWrite \/ TaskWriteFail
        \/ TaskSync \/ TaskSyncFail \/ TaskFail \/ TaskPublish \/ TaskReply
        \/ TaskSizeRotate \/ TaskDrain \/ TaskExplicit

Next == Caller \/ Task \/ PowerLoss \/ Reopen

Spec == Init /\ [][Next]_vars

\* tokio polls the task, and the I/O it awaits returns; the process is restarted.
FairSpec == Spec /\ WF_vars(Task) /\ WF_vars(Reopen)

-----------------------------------------------------------------------------
(* Properties *)

FrameType == [seq : Nat, from : Clients, ok : BOOLEAN]
Message == [type : {"append", "drain", "rotate"}, from : Callers, seq : Nat]

\* Every variable keeps its type, the queue and the batch their bounds.
TypeOK ==
  /\ status \in [Callers -> {"idle", "sent", "ok", "err", "cut"}]
  /\ got \in [Clients -> Nat] /\ paths \in [Drainers -> SUBSET Nat]
  /\ queue \in Seq(Message) /\ Len(queue) <= Capacity
  /\ batch \in Seq(Message) /\ Len(batch) <= MaxBatch
  /\ out \in Seq(FrameType)
  /\ pc \in {"recv", "collect", "write", "sync", "fail", "publish", "reply",
             "rotate", "drain", "explicit", "down"}
  /\ {last_seq, current_seq, current_size, current_segment, file, watermark} \subseteq Nat
  /\ completed_segments \subseteq [seg : Nat, max_seq : Nat \cup {U64MAX}]
  /\ DOMAIN disk \subseteq Nat /\ DOMAIN synced = DOMAIN disk
  /\ \A n \in DOMAIN disk : disk[n] \in Seq(FrameType) /\ synced[n] \in 0 .. Len(disk[n])
  /\ released \subseteq Clients
  /\ faults \in Seq(FaultKinds) /\ Len(faults) <= MaxFaults /\ crashes \in 0 .. MaxCrashes

Log == INSTANCE DurableLog WITH log <- DurableEntries,
                                acked <- {c \in Clients : status[c] = "ok"}

\* No write was cut inside a frame, and no rotation failed.
CleanFaults == Range(faults) \subseteq {"write", "sync"}

\* Acknowledged entries nobody has released, at or below the snapshot's watermark:
\* recovery would skip them.
Overtaken ==
  {c \in Clients \ released : status[c] = "ok" /\
     \E f \in UNION {Durable(n) : n \in DOMAIN disk} : f.from = c /\ f.seq <= watermark}

\* The shard implements the log its callers rely on: whatever is batched,
\* rotated, drained, failed at a frame boundary or cut off by a loss of power, an
\* acknowledged entry is durable until it is released, as long as the numbering
\* has not fallen behind the watermark.
ImplementsCleanLog ==
  Log!Init /\ [][CleanFaults' /\ Overtaken = {} => Log!Next]_(Log!vars)

\* Up to and including the first recovery the numbering never falls behind: a
\* drain up to a number covers every acknowledged entry up to that number, also
\* the ones acknowledged while it waits in the channel.
FirstRunNotOvertaken ==
  CleanFaults /\ (crashes = 0 \/ (crashes = 1 /\ pc = "down")) => Overtaken = {}

\* The same whatever the I/O errors and restarts: "once append() returns Ok, the
\* data survives a process crash" (WalWriter).  Violated by a write cut inside a
\* frame, and by a restart that resumes the numbering below the watermark.
ImplementsDurableLog == Log!Spec

\* current_sequence() does not run ahead of the disk: until a write is cut inside a
\* frame or a rotation fails, every entry of the batch in progress that is numbered
\* up to last_seq, and whose batch did not fail, is durable or released before it is
\* answered ("snapshot() always sees a seq that is already on disk").
PublishedIsDurable ==
  CleanFaults => \A f \in Range(out) : f.seq <= last_seq /\ pc # "fail" =>
    f.from \in DurableEntries \cup released

\* An append that has returned is visible in current_sequence(): the sequence
\* is published before the reply (in the incarnation that returned it).
ReplyIsPublished ==
  crashes = 0 => \A c \in Clients : status[c] = "ok" => got[c] <= last_seq

\* Up to the first loss of power the files hold the entries in the order they were
\* numbered, down every segment file and from one segment to the next, failed batches
\* included.  Recovery replays them in that order, so the last write to a timestamp
\* wins again.  (After a restart the numbers may begin at 1 again.)
LogIsOrdered ==
  crashes = 0 =>
    \A m, n \in DOMAIN disk : \A i \in DOMAIN disk[m], j \in DOMAIN disk[n] :
      (m < n \/ (m = n /\ i < j)) => disk[m][i].seq < disk[n][j].seq

\* No message is left without an answer, through failed batches, rotations in
\* the same batch and a full channel; a loss of power cuts the caller off too.
\* (A caller sends once, so all are answered when none waits.)
EveryMessageIsAnswered == []<>(\A c \in Callers : status[c] # "sent")

=============================================================================
