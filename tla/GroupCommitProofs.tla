------------------------- MODULE GroupCommitProofs --------------------------
(***************************************************************************)
(* One WAL shard implements the durable log.                               *)
(***************************************************************************)
EXTENDS GroupCommitInvariant

\* fsync makes every frame of the open file durable.
LEMMA SyncC ==
  ASSUME BInv, BInv', CleanInv, TaskSync
  PROVE  CleanInv'
<1> USE DEF TaskSync, callerVars
<1>1. /\ pc = "sync" /\ pc' = "publish" /\ file \in DOMAIN disk /\ file \in Nat
      /\ \A i \in DOMAIN disk[file] : disk[file][i].ok
      /\ \A n \in DOMAIN disk : synced'[n] = IF n = file THEN Len(disk[n]) ELSE synced[n]
      /\ \A n \in DOMAIN disk : Len(disk[n]) \in Nat /\ DOMAIN disk[n] = 1 .. Len(disk[n])
                                /\ synced[n] <= Len(disk[n]) /\ synced[n] \in Nat
  BY Typed, Zenon DEF CleanInv, FileInv, BInv, TypeOK
<1>2. \A i \in DOMAIN disk[file] : disk[file][i] \in Durable(file)'
  <2>1. Durable(file)' = {disk'[file][i] : i \in {j \in 1 .. synced'[file] : \A k \in 1 .. j : disk'[file][k].ok}}
    BY <1>1, DurableNext, Zenon DEF BInv
  <2>2. \A i \in DOMAIN disk[file] : i \in 1 .. synced'[file] /\ \A k \in 1 .. i : disk[file][k].ok
    BY <1>1
  <2> QED BY <2>1, <2>2, Zenon
<1>3. \A n \in DOMAIN disk : Durable(n) \subseteq Durable(n)'
  <2> SUFFICES ASSUME NEW n \in DOMAIN disk PROVE Durable(n) \subseteq Durable(n)'
    BY Zenon
  <2>1. synced[n] <= synced'[n] /\ n \in DOMAIN disk' /\ \A i \in 1 .. synced[n] : disk'[n][i] = disk[n][i]
    BY <1>1
  <2> QED BY <2>1, DurableKept, Zenon
<1>4. FrameInv'
  <2> SUFFICES ASSUME NEW n \in DOMAIN disk, NEW i \in DOMAIN disk[n]
               PROVE  \/ i <= synced'[n] /\ disk[n][i] \in Durable(n)'
                      \/ status[disk[n][i].from] \in {"err", "cut"}
    BY Zenon DEF FrameInv
  <2>1. CASE n = file
    BY <1>1, <1>2, <2>1
  <2>2. CASE n # file
    BY <1>1, <1>3, <2>2, Zenon DEF CleanInv, FrameInv
  <2> QED BY <2>1, <2>2, Zenon
<1>5. OutInv'
  BY <1>1, <1>2, Zenon DEF CleanInv, OutInv
<1>6. current_seq <= current_seq' /\ last_seq <= last_seq'
  BY DEF BInv, TypeOK
<1>7. \A i \in DOMAIN batch : \E j \in DOMAIN batch : batch[i] = batch[j]
  BY Zenon
<1> QED BY <1>1, <1>4, <1>5, <1>6, <1>7, QuietC, Zenon

\* A failed fsync leaves the frames for the failure path.
LEMMA SyncFailC ==
  ASSUME BInv, BInv', CleanInv, TaskSyncFail
  PROVE  CleanInv'
<1> USE DEF TaskSyncFail, callerVars, writerVars, diskVars
<1>1. FrameInv'
  BY DurableSame DEF CleanInv, FrameInv
<1>2. OutInv'
  BY Zenon DEF OutInv
<1>3. current_seq <= current_seq' /\ last_seq <= last_seq'
  BY DEF BInv, TypeOK
<1>4. /\ \A i \in DOMAIN queue : \E j \in DOMAIN queue : queue[i] = queue[j]
      /\ \A i \in DOMAIN batch : \E j \in DOMAIN batch : batch[i] = batch[j]
  BY Zenon
<1> QED BY <1>1, <1>2, <1>3, <1>4, QuietC, Zenon

\* The error arm tells every caller whose frames may be on disk.
LEMMA FailC ==
  ASSUME BInv, BInv', CleanInv, TaskFail
  PROVE  CleanInv'
<1> DEFINE S == {c \in From(batch) : status[c] = "sent"}
<1>1. /\ pc = "fail" /\ batch' = <<>> /\ out' = <<>> /\ pc' = "recv"
      /\ status' = [c \in Callers |-> IF c \in S THEN "err" ELSE status[c]]
      /\ UNCHANGED <<got, paths, queue, last_seq, writerVars, diskVars, released,
                     watermark, faults, crashes>>
  BY Zenon DEF TaskFail, Answer
<1>2. \A x \in Callers : (status[x] = "sent" /\ \E j \in DOMAIN batch : batch[j].from = x) => x \in S
  BY Zenon DEF From, Range
<1> HIDE DEF S
<1> USE DEF writerVars, diskVars
<1>3. \A x \in Callers : status[x] \in {"err", "cut"} => status'[x] \in {"err", "cut"}
  BY <1>1, Zenon
<1>4. FrameInv'
  BY <1>1, <1>2, <1>3, DurableSame, Typed DEF CleanInv, FrameInv, BInv
<1>5. OutInv'
  BY <1>1, Zenon DEF OutInv
<1>6. current_seq <= current_seq' /\ last_seq <= last_seq' /\ Clients \subseteq Callers
  BY <1>1 DEF BInv, TypeOK, Callers
<1>7. /\ \A i \in DOMAIN queue : \E j \in DOMAIN queue : queue[i] = queue[j]
      /\ DOMAIN batch' = {}
  BY <1>1
<1> QED BY <1>1, <1>3, <1>4, <1>5, <1>6, <1>7, QuietC, Zenon

\* A batch is published once its frames are durable.
LEMMA PublishC ==
  ASSUME BInv, BInv', CleanInv, TaskPublish
  PROVE  CleanInv'
<1> USE DEF TaskPublish, callerVars, writerVars, diskVars
<1>1. FrameInv'
  BY DurableSame, Zenon DEF CleanInv, FrameInv
<1>2. OutInv'
  BY DurableSame, Zenon DEF CleanInv, OutInv, FileInv
<1>3. current_seq <= current_seq' /\ last_seq <= last_seq'
  <2>1. /\ last_seq \in Nat /\ current_seq \in Nat /\ last_seq <= current_seq /\ pc' = "reply"
        /\ last_seq' = current_seq'
    BY Zenon DEF BInv, TypeOK, NumberInv
  <2> QED BY <2>1
<1>4. /\ \A i \in DOMAIN queue : \E j \in DOMAIN queue : queue[i] = queue[j]
      /\ \A i \in DOMAIN batch : \E j \in DOMAIN batch : batch[i] = batch[j]
  BY Zenon
<1> QED BY <1>1, <1>2, <1>3, <1>4, QuietC, Zenon

\* The answers acknowledge durable frames only.
LEMMA ReplyC ==
  ASSUME BInv, BInv', CleanInv, TaskReply
  PROVE  CleanInv'
<1> DEFINE S == From(out)
<1>1. /\ pc = "reply" /\ pc' = "rotate"
      /\ status' = [c \in Callers |-> IF c \in S THEN "ok" ELSE status[c]]
      /\ UNCHANGED <<paths, queue, batch, out, last_seq, writerVars, diskVars,
                     released, watermark, faults, crashes>>
  BY Zenon DEF TaskReply, Answer
<1>2. \A c \in S : status[c] = "sent"
  BY <1>1 DEF From, Range, BInv, CallInv, Writing
<1> HIDE DEF S
<1> USE DEF writerVars, diskVars
<1>3. \A x \in Callers : status[x] \in {"err", "cut"} => status'[x] \in {"err", "cut"}
  BY <1>1, <1>2, Zenon
<1>4. FrameInv'
  BY <1>1, <1>3, DurableSame, Typed DEF CleanInv, FrameInv, BInv
<1>5. OutInv'
  BY <1>1, DurableSame, Zenon DEF CleanInv, OutInv, FileInv
<1>6. current_seq <= current_seq' /\ last_seq <= last_seq' /\ Clients \subseteq Callers
  <2>1. current_seq \in Nat /\ last_seq \in Nat
    BY Zenon DEF BInv, TypeOK
  <2> QED BY <1>1, <2>1 DEF Callers
<1>7. /\ \A i \in DOMAIN queue : \E j \in DOMAIN queue : queue[i] = queue[j]
      /\ \A i \in DOMAIN batch : \E j \in DOMAIN batch : batch[i] = batch[j]
  BY Zenon
<1> QED BY <1>1, <1>3, <1>4, <1>5, <1>6, <1>7, QuietC, Zenon

\* A rotation records the open file with the last number in it, and opens a
\* file that no one knows.
LEMMA RotateC ==
  ASSUME BInv, BInv', CleanInv, CleanFaults', pc \in {"rotate", "explicit"},
         pc' \in {"drain", "recv"}, WriterStep, \A x \in Clients : status'[x] = status[x],
         out' = <<>>, batch' = <<>> \/ batch' = batch,
         UNCHANGED <<paths, queue, last_seq, released, watermark, crashes>>
  PROVE  CleanInv'
<1>0. pc # "down" /\ pc' # "down"
  BY Zenon
<1>1. /\ current_seq' = current_seq /\ DOMAIN disk \subseteq DOMAIN disk'
      /\ \A n \in DOMAIN disk : disk'[n] = disk[n] /\ synced'[n] = synced[n]
      /\ \A n \in DOMAIN disk' \ DOMAIN disk : disk'[n] = <<>> /\ n = current_segment + 1
      /\ \A n \in DOMAIN disk' : n <= file'
  BY <1>0, WriterStepFacts, Zenon
<1>2. /\ file \in Nat /\ current_segment \in Nat /\ file = current_segment /\ file \in DOMAIN disk
      /\ \A n \in DOMAIN disk : n \in Nat /\ n <= file
      /\ \A i \in DOMAIN disk[file] : disk[file][i].ok /\ disk[file][i].seq <= current_seq
  BY <1>0, Zenon DEF BInv, TypeOK, OrderInv, CleanInv, FileInv
<1>3. \/ UNCHANGED <<file, current_segment, completed_segments, disk>>
      \/ /\ file' = current_segment + 1 /\ current_segment' = current_segment + 1 /\ file' \in DOMAIN disk'
         /\ \A c \in completed_segments' :
              c \in completed_segments \/ c = [seg |-> current_segment, max_seq |-> current_seq]
  <2>1. ~RotateFail
    <3>1. ~Fault("rotate")
      BY FaultClean DEF BInv
    <3> QED BY <3>1, Zenon DEF RotateFail
  <2>2. CASE UNCHANGED <<writerVars, diskVars, faults>>
    BY <2>2, Zenon DEF writerVars, diskVars
  <2>3. ASSUME NEW completed \in SUBSET Rotated, Rotate(completed)
        PROVE  /\ file' = current_segment + 1 /\ current_segment' = current_segment + 1
               /\ file' \in DOMAIN disk'
               /\ \A c \in completed_segments' :
                    c \in completed_segments \/ c = [seg |-> current_segment, max_seq |-> current_seq]
    BY <2>3, Zenon DEF Rotate, Rotated
  <2> QED BY <2>1, <2>2, <2>3, Zenon DEF WriterStep
<1>4. \A n \in DOMAIN disk : Durable(n)' = Durable(n)
  BY <1>1, DurableEqual, Zenon
<1>5. FrameInv'
  BY <1>0, <1>1, <1>4, Typed DEF CleanInv, FrameInv, BInv
<1>6. file <= file' /\ \A n \in DOMAIN disk' : n < file' => n \in DOMAIN disk /\ n \in Nat
  <2>1. CASE UNCHANGED <<file, current_segment, completed_segments, disk>>
    BY <1>2, <2>1, Zenon
  <2>2. CASE file' = current_segment + 1
    <3>1. file <= file' /\ ~(file' < file')
      BY <1>2, <2>2
    <3> QED BY <1>1, <1>2, <2>2, <3>1, Zenon
  <2> QED BY <1>3, <2>1, <2>2, Zenon
<1>7. FileInv'
  <2>1. file' = current_segment' /\ file' \in DOMAIN disk'
    BY <1>2, <1>3, Zenon
  <2>2. \A i \in DOMAIN disk'[file'] : disk'[file'][i].ok /\ disk'[file'][i].seq <= current_seq'
    BY <1>1, <1>2, <1>3, <2>1
  <2>3. \A c \in completed_segments' :
          /\ c.seg < file'
          /\ c.max_seq # U64MAX /\ c.seg \in DOMAIN disk' =>
               \A i \in DOMAIN disk'[c.seg] : disk'[c.seg][i].seq <= c.max_seq
    <3> SUFFICES ASSUME NEW c \in completed_segments'
                 PROVE  /\ c.seg < file'
                        /\ c.max_seq # U64MAX /\ c.seg \in DOMAIN disk' =>
                             \A i \in DOMAIN disk'[c.seg] : disk'[c.seg][i].seq <= c.max_seq
      BY Zenon
    <3>1. CASE c \in completed_segments
      <4>1. /\ c.seg < file /\ c.seg \in Nat /\ file' \in Nat
            /\ c.max_seq # U64MAX /\ c.seg \in DOMAIN disk =>
                 \A i \in DOMAIN disk[c.seg] : disk[c.seg][i].seq <= c.max_seq
        BY <3>1, Zenon DEF CleanInv, FileInv, BInv, TypeOK
      <4>2. c.seg < file'
        BY <1>2, <1>6, <4>1
      <4> QED BY <1>1, <1>6, <4>1, <4>2, Zenon
    <3>2. CASE c = [seg |-> current_segment, max_seq |-> current_seq] /\ file' = current_segment + 1
      <4>1. c.seg = file /\ c.max_seq = current_seq /\ c.seg < file'
        BY <1>2, <3>2
      <4> QED BY <1>1, <1>2, <4>1
    <3> QED BY <1>3, <3>1, <3>2, Zenon
  <2>4. \A d \in Drainers : \A n \in paths'[d] : n < file' /\ pc' # "down"
    <3>1. \A d \in Drainers : \A n \in paths[d] : n < file /\ n \in Nat /\ file' \in Nat
      BY Zenon DEF CleanInv, FileInv, BInv, TypeOK
    <3> QED BY <1>0, <1>2, <1>6, <3>1
  <2> QED BY <2>1, <2>2, <2>3, <2>4, Zenon DEF FileInv
<1>8. OutInv'
  BY <1>0, Zenon DEF OutInv
<1>9. DrainInv' /\ WatermarkInv'
  <2>1. \A x \in Clients : Settled(x) => SettledNext(x)
    BY Zenon DEF Settled, SettledNext
  <2>2. \A q : SettledUpTo(q) => SettledUpToNext(q)
    BY <1>1, <2>1, Typed DEF SettledUpTo, SettledUpToNext, BInv
  <2>3. \A i \in DOMAIN batch' : batch'[i].type = "drain" => batch'[i].seq <= watermark
    BY DEF CleanInv, DrainInv
  <2>4. \A d \in Drainers : \A n \in paths[d] : n \in DOMAIN disk' =>
          \A i \in DOMAIN disk'[n] : disk'[n][i].seq <= watermark
    BY <1>1 DEF CleanInv, DrainInv
  <2>5. DrainInv'
    BY <2>3, <2>4, Zenon DEF CleanInv, DrainInv
  <2>6. FirstRun' => SettledUpToNext(watermark') /\ (pc' # "down" => watermark' <= last_seq')
    BY <1>0, <2>2, Zenon DEF CleanInv, WatermarkInv, FirstRun
  <2> QED BY <2>5, <2>6, WatermarkPrimed, Zenon
<1> QED BY <1>5, <1>7, <1>8, <1>9, Zenon DEF CleanInv

\* Rotation keeps it from every step that rotates.
LEMMA RotatesC ==
  ASSUME BInv, BInv', CleanInv, CleanFaults', TaskSizeRotate \/ TaskExplicit
  PROVE  CleanInv'
<1>1. CASE TaskSizeRotate
  <2>1. WriterStep
    BY <1>1, Zenon DEF TaskSizeRotate, WriterStep
  <2>2. /\ pc = "rotate" /\ pc' = "drain" /\ out' = <<>> /\ batch' = batch /\ status' = status
        /\ UNCHANGED <<paths, queue, last_seq, released, watermark, crashes>>
    BY <1>1, Zenon DEF TaskSizeRotate, callerVars
  <2> QED BY <2>1, <2>2, RotateC, Zenon
<1>2. CASE TaskExplicit
  <2>2. /\ pc = "explicit" /\ pc' = "recv" /\ batch' = <<>>
        /\ UNCHANGED <<got, paths, queue, out, last_seq, released, watermark, crashes>>
    BY <1>2, Zenon DEF TaskExplicit
  <2>3. WriterStep
    BY <1>2, Zenon DEF TaskExplicit, WriterStep
  <2>4. \A x \in Clients : status'[x] = status[x]
    BY <1>2, ClientsWait, Zenon
  <2>5. out' = <<>>
    BY <2>2, Zenon DEF BInv, CallInv, Writing
  <2> QED BY <2>2, <2>3, <2>4, <2>5, RotateC, Zenon
<1> QED BY <1>1, <1>2, Zenon

\* The segments a drain hands out hold nothing above the watermark.
LEMMA DrainC ==
  ASSUME BInv, BInv', CleanInv, TaskDrain
  PROVE  CleanInv'
<1> DEFINE drains == Range(OfType(batch, "drain"))
           gone == IF drains = {} THEN {}
                   ELSE Drainable(completed_segments, Max({m.seq : m \in drains}))
<1>1. /\ pc = "drain" /\ pc' = "explicit" /\ completed_segments' = completed_segments \ gone
      /\ paths' = [d \in Drainers |-> IF \E m \in drains : m.from = d
                                      THEN paths[d] \cup {c.seg : c \in gone} ELSE paths[d]]
      /\ UNCHANGED <<got, queue, batch, out, last_seq, current_seq, current_size,
                     current_segment, file, diskVars, released, watermark, faults, crashes>>
  BY Zenon DEF TaskDrain
<1>2. \A m \in drains : \E i \in DOMAIN batch : m = batch[i] /\ batch[i].type = "drain"
  <2>1. batch \in Seq(Message)
    BY Zenon DEF BInv, TypeOK
  <2>2. \A k \in DOMAIN OfType(batch, "drain") : \E i \in DOMAIN batch :
          OfType(batch, "drain")[k] = batch[i] /\ batch[i].type = "drain"
    BY <2>1, OfTypeFacts, Zenon
  <2> QED BY <2>2, Zenon DEF Range
<1>3. \A x \in Clients : status'[x] = status[x]
  BY ClientsWait, Zenon
<1>4. \A c \in gone : c \in completed_segments /\ \E i \in DOMAIN batch :
        /\ batch[i].type = "drain" /\ batch[i].seq \in Nat
        /\ c.max_seq # U64MAX /\ c.max_seq <= batch[i].seq
  <2> SUFFICES ASSUME NEW c \in gone
               PROVE  c \in completed_segments /\ \E i \in DOMAIN batch :
                        /\ batch[i].type = "drain" /\ batch[i].seq \in Nat
                        /\ c.max_seq # U64MAX /\ c.max_seq <= batch[i].seq
    BY Zenon
  <2> DEFINE Q == {m.seq : m \in drains}
  <2>1. drains # {} /\ c \in Drainable(completed_segments, Max(Q))
    BY Zenon
  <2>2. \A q \in Q : \E i \in DOMAIN batch : q = batch[i].seq /\ batch[i].type = "drain"
    BY <1>2
  <2>3. Q # {}
    BY <2>1, Zenon
  <2> HIDE DEF Q, drains, gone
  <2>4. \A q \in Q : q \in Nat /\ q <= watermark
    BY <2>2, Typed, Zenon DEF BInv, CleanInv, DrainInv
  <2>5. watermark \in Nat
    BY Zenon DEF BInv, TypeOK
  <2>6. Max(Q) \in Q
    BY <2>3, <2>4, <2>5, MaxExists, Zenon
  <2>7. Max(Q) # U64MAX
    BY <2>4, <2>6 DEF U64MAX
  <2> QED BY <2>1, <2>2, <2>4, <2>6, <2>7, Zenon DEF Drainable
<1> HIDE DEF drains, gone
<1> USE DEF diskVars
<1>5. FrameInv'
  <2>1. \A n \in DOMAIN disk : Durable(n)' = Durable(n)
    BY <1>1, DurableSame, Zenon
  <2>2. \A n \in DOMAIN disk : \A i \in DOMAIN disk[n] :
          status'[disk[n][i].from] = status[disk[n][i].from]
    BY <1>3, Typed, Zenon DEF BInv
  <2> QED BY <1>1, <2>1, <2>2 DEF CleanInv, FrameInv
<1>6. \A d \in Drainers : \A n \in paths'[d] : n \in paths[d] \/ \E c \in gone : n = c.seg
  BY <1>1, Zenon
<1>7. FileInv'
  <2>1. \A d \in Drainers : \A n \in paths'[d] : n < file
    BY <1>4, <1>6 DEF CleanInv, FileInv
  <2> QED BY <1>1, <2>1, Zenon DEF CleanInv, FileInv
<1>8. OutInv'
  BY <1>1, Zenon DEF OutInv
<1>9. DrainInv' /\ WatermarkInv'
  <2>1. \A x \in Clients : Settled(x) => SettledNext(x)
    BY <1>1, <1>3, Zenon DEF Settled, SettledNext
  <2>2. \A q : SettledUpTo(q) => SettledUpToNext(q)
    BY <1>1, <2>1, Typed, Zenon DEF SettledUpTo, SettledUpToNext, BInv
  <2>4. \A c \in gone : c.seg \in DOMAIN disk => \A i \in DOMAIN disk[c.seg] : disk[c.seg][i].seq <= watermark
    <3> SUFFICES ASSUME NEW c \in gone, c.seg \in DOMAIN disk, NEW i \in DOMAIN disk[c.seg]
                 PROVE  disk[c.seg][i].seq <= watermark
      BY Zenon
    <3>1. PICK j \in DOMAIN batch : /\ batch[j].type = "drain" /\ batch[j].seq \in Nat
                                    /\ c.max_seq # U64MAX /\ c.max_seq <= batch[j].seq
      BY <1>4, Zenon
    <3>2. disk[c.seg][i].seq <= c.max_seq /\ disk[c.seg][i].seq \in Nat /\ c.max_seq \in Nat
      BY <1>4, <3>1, Typed, Zenon DEF CleanInv, FileInv, BInv, TypeOK
    <3>3. batch[j].seq <= watermark /\ watermark \in Nat
      BY <3>1, Zenon DEF CleanInv, DrainInv, BInv, TypeOK
    <3> QED BY <3>1, <3>2, <3>3
  <2>5. DrainInv'
    <3>1. \A d \in Drainers : \A n \in paths'[d] : n \in DOMAIN disk =>
            \A i \in DOMAIN disk[n] : disk[n][i].seq <= watermark
      BY <1>6, <2>4 DEF CleanInv, DrainInv
    <3> QED BY <1>1, <3>1, Zenon DEF CleanInv, DrainInv
  <2>6. FirstRun' => SettledUpToNext(watermark') /\ (pc' # "down" => watermark' <= last_seq')
    BY <1>1, <2>2, Zenon DEF CleanInv, WatermarkInv, FirstRun
  <2> QED BY <2>5, <2>6, WatermarkPrimed, Zenon
<1> QED BY <1>5, <1>7, <1>8, <1>9, Zenon DEF CleanInv

\* A loss of power keeps what is synced, and cuts off the callers of the rest.
LEMMA PowerLossC ==
  ASSUME BInv, BInv', CleanInv, PowerLoss
  PROVE  CleanInv'
<1>1. /\ DOMAIN disk' = DOMAIN disk
      /\ \A n \in DOMAIN disk : Survives(n, disk'[n]) /\ synced'[n] = Len(disk'[n])
  BY Zenon DEF PowerLoss
<1>2. /\ crashes' = crashes + 1 /\ pc # "down"
      /\ status' = [c \in Callers |-> IF status[c] = "sent" THEN "cut" ELSE status[c]]
      /\ paths' = [d \in Drainers |-> {}]
      /\ queue' = <<>> /\ batch' = <<>> /\ out' = <<>> /\ pc' = "down"
      /\ completed_segments' = {} /\ released' = released /\ watermark' = watermark
  BY Zenon DEF PowerLoss
<1>3. \A n \in DOMAIN disk : /\ synced[n] <= Len(disk'[n])
        /\ \A i \in DOMAIN disk'[n] : /\ i \in DOMAIN disk[n]
                                      /\ disk'[n][i].seq = disk[n][i].seq
                                      /\ disk'[n][i].from = disk[n][i].from
                                      /\ disk'[n][i] = disk[n][i] \/ i > synced[n]
  BY <1>1, SurvivesFacts DEF BInv
<1>4. \A n \in DOMAIN disk : DOMAIN disk'[n] = 1 .. Len(disk'[n]) /\ Len(disk'[n]) \in Nat
                             /\ synced[n] \in Nat
  <2>1. \A n \in DOMAIN disk : disk'[n] \in Seq(FrameType)
    BY <1>1, Zenon DEF BInv, TypeOK
  <2>2. \A n \in DOMAIN disk : synced[n] \in Nat
    BY Typed, Zenon DEF BInv
  <2> QED BY <2>1, <2>2
<1>5. \A n \in DOMAIN disk : Durable(n) \subseteq Durable(n)'
  <2> SUFFICES ASSUME NEW n \in DOMAIN disk PROVE Durable(n) \subseteq Durable(n)'
    BY Zenon
  <2>1. \A i \in 1 .. synced[n] : i \in DOMAIN disk'[n] /\ ~(i > synced[n])
    BY <1>3, <1>4
  <2>2. \A i \in 1 .. synced[n] : disk'[n][i] = disk[n][i]
    BY <1>3, <2>1, Zenon
  <2>3. synced[n] <= synced'[n] /\ n \in DOMAIN disk'
    BY <1>1, <1>3, Zenon
  <2> QED BY <2>2, <2>3, DurableKept, Zenon
<1>6. FrameInv'
  <2> SUFFICES ASSUME NEW n \in DOMAIN disk, NEW i \in DOMAIN disk'[n]
               PROVE  \/ i <= synced'[n] /\ disk'[n][i] \in Durable(n)'
                      \/ status'[disk'[n][i].from] \in {"err", "cut"}
    BY <1>1, Zenon DEF FrameInv
  <2>1. /\ i \in DOMAIN disk[n] /\ disk'[n][i].from = disk[n][i].from /\ disk[n][i].from \in Callers
        /\ disk'[n][i] = disk[n][i] \/ ~(i <= synced[n])
    BY <1>3, <1>4, Typed DEF BInv
  <2>2. CASE i <= synced[n] /\ disk[n][i] \in Durable(n)
    BY <1>1, <1>4, <1>5, <2>1, <2>2
  <2>3. CASE status[disk[n][i].from] \in {"err", "cut", "sent"}
    BY <1>2, <2>1, <2>3, Zenon
  <2> QED BY <2>1, <2>2, <2>3, Zenon DEF CleanInv, FrameInv
<1>7. FileInv' /\ OutInv'
  BY <1>1, <1>2, Zenon DEF FileInv, OutInv
<1>8. DrainInv' /\ WatermarkInv'
  <2>1. \A x \in Callers : Settled(x) => SettledNext(x)
    BY <1>2, Zenon DEF Settled, SettledNext
  <2>2. \A q : SettledUpTo(q) => SettledUpToNext(q)
    BY <1>1, <1>3, <2>1, Typed, Zenon DEF SettledUpTo, SettledUpToNext, BInv
  <2>3. FirstRun' => FirstRun
    <3>1. crashes \in Nat
      <4>1. crashes \in 0 .. MaxCrashes
        BY Zenon DEF BInv, TypeOK
      <4> QED BY <4>1, BoundsAssumption
    <3> QED BY <1>2, <3>1 DEF FirstRun
  <2>4. FirstRun' => SettledUpToNext(watermark')
    BY <1>2, <2>2, <2>3, Zenon DEF CleanInv, WatermarkInv
  <2>5. DrainInv'
    BY <1>2 DEF DrainInv
  <2> QED BY <1>2, <2>4, <2>5, WatermarkPrimed, Zenon
<1> QED BY <1>6, <1>7, <1>8, Zenon DEF CleanInv

\* Recovery opens a file that did not exist, and keeps the others as they are.
LEMMA ReopenC ==
  ASSUME BInv, BInv', CleanInv, Reopen
  PROVE  CleanInv'
<1>1. PICK high \in Nat, active \in Nat :
        /\ pc = "down" /\ pc' = "recv"
        /\ current_segment' = active /\ file' = active
        /\ \A n \in DOMAIN disk : n <= high /\ n < active
        /\ completed_segments' = {[seg |-> n, max_seq |-> U64MAX] : n \in 1 .. high - 1}
        /\ high <= active /\ active \in DOMAIN disk'
        /\ DOMAIN disk' = (DOMAIN disk \ {high}) \cup {active}
        /\ \A n \in DOMAIN disk' : /\ disk'[n] = IF n \in DOMAIN disk THEN disk[n] ELSE <<>>
                                   /\ synced'[n] = IF n \in DOMAIN disk THEN Len(disk[n]) ELSE 0
        /\ released' = released \cup {f.from : f \in Replayed}
        /\ UNCHANGED <<callerVars, queue, batch, out, watermark, faults, crashes>>
  BY ReopenState, Zenon
<1> USE DEF callerVars
<1>2. queue' = <<>> /\ batch' = <<>> /\ crashes > 0 /\ crashes \in Nat
  <2>1. queue' = <<>> /\ batch' = <<>> /\ crashes > 0 /\ crashes \in 0 .. MaxCrashes
    BY <1>1, Zenon DEF BInv, CallInv, OrderInv, TypeOK
  <2> QED BY <2>1, BoundsAssumption
<1>3. \A n \in DOMAIN disk' :
        /\ n \in DOMAIN disk => disk'[n] = disk[n] /\ synced'[n] = synced[n]
        /\ n \notin DOMAIN disk => disk'[n] = <<>>
  BY <1>1, Zenon DEF CleanInv, OutInv
<1>4. \A n \in DOMAIN disk' : n \in DOMAIN disk => Durable(n)' = Durable(n)
  BY <1>3, DurableEqual, Zenon
<1>5. FrameInv'
  <2> SUFFICES ASSUME NEW n \in DOMAIN disk', NEW i \in DOMAIN disk'[n]
               PROVE  \/ i <= synced'[n] /\ disk'[n][i] \in Durable(n)'
                      \/ status'[disk'[n][i].from] \in {"err", "cut"}
    BY Zenon DEF FrameInv
  <2>1. n \in DOMAIN disk
    BY <1>3
  <2> QED BY <1>1, <1>3, <1>4, <2>1, Zenon DEF CleanInv, FrameInv
<1>6. FileInv'
  <2>1. ~(active \in DOMAIN disk)
    <3>1. ~(active < active)
      OBVIOUS
    <3> QED BY <1>1, <3>1, Zenon
  <2>2. disk'[active] = <<>>
    BY <1>1, <1>3, <2>1, Zenon
  <2>3. \A c \in completed_segments' : c.seg < active /\ c.max_seq = U64MAX
    <3>1. \A k \in 1 .. high - 1 : high <= active => k < active
      OBVIOUS
    <3> QED BY <1>1, <3>1
  <2>4. \A d \in Drainers : paths'[d] = {}
    BY <1>1, Zenon DEF CleanInv, FileInv
  <2>5. DOMAIN disk'[active] = {}
    BY <2>2
  <2>6. \A d \in Drainers : \A n \in paths'[d] : FALSE
    BY <2>4, Zenon
  <2>7. file' = current_segment' /\ file' = active /\ active \in DOMAIN disk'
    BY <1>1, Zenon
  <2> QED BY <2>3, <2>5, <2>6, <2>7, Zenon DEF FileInv
<1>7. OutInv'
  BY <1>1, Zenon DEF OutInv, CleanInv, BInv, CallInv, Writing
<1>8. ~FirstRun'
  BY <1>1, <1>2 DEF FirstRun
<1>9. \A d \in Drainers : paths'[d] = {}
  BY <1>1, Zenon DEF CleanInv, FileInv
<1>10. DrainInv' /\ WatermarkInv'
  <2>1. DrainInv'
    BY <1>2, <1>9 DEF DrainInv
  <2> QED BY <1>8, <2>1, WatermarkPrimed, Zenon
<1> QED BY <1>5, <1>6, <1>7, <1>10, Zenon DEF CleanInv

\* The errors met so far were harmless if those met after the step are.
LEMMA CleanBefore ==
  ASSUME TypeOK, [Next]_vars, CleanFaults'
  PROVE  CleanFaults
<1>1. CASE faults' = faults
  BY <1>1, Zenon DEF CleanFaults, Range
<1>2. CASE \E kind \in {"write", "torn", "sync", "rotate"} : Fault(kind)
  BY <1>2, FaultClean, Zenon
<1>3. faults' = faults \/ \E kind \in {"write", "torn", "sync", "rotate"} : Fault(kind)
  <2>1. CASE UNCHANGED vars
    BY <2>1, Zenon DEF vars
  <2>2. CASE Caller
    BY <2>2, Zenon DEF Caller, SendAppend, SendDrain, SendRotate, Send, RemoveFile
  <2>3. CASE PowerLoss \/ Reopen
    BY <2>3, Zenon DEF PowerLoss, Reopen
  <2>4. CASE TaskRecv \/ TaskCollect \/ TaskGather \/ TaskWrite \/ TaskSync \/ TaskFail
             \/ TaskPublish \/ TaskReply \/ TaskDrain
    BY <2>4, Zenon DEF TaskRecv, TaskCollect, TaskGather, TaskWrite, TaskSync, TaskFail, TaskPublish,
                TaskReply, TaskDrain
  <2>5. CASE TaskWriteFail \/ TaskSyncFail
    BY <2>5, Zenon DEF TaskWriteFail, TaskSyncFail
  <2>6. CASE TaskSizeRotate \/ TaskExplicit
    BY <2>6, Zenon DEF TaskSizeRotate, TaskExplicit, Rotate, RotateFail
  <2> QED BY <2>1, <2>2, <2>3, <2>4, <2>5, <2>6, Zenon DEF Next, Task
<1> QED BY <1>1, <1>2, <1>3, Zenon

\* Every step preserves the invariant.
LEMMA NextC ==
  ASSUME BInv, BInv', CInv, [Next]_vars
  PROVE  CInv'
<1> SUFFICES ASSUME CleanFaults' PROVE CleanInv'
  BY Zenon DEF CInv
<1>0. CleanInv
  BY CleanBefore, Zenon DEF CInv, BInv
<1>1. CASE UNCHANGED vars
  <2> USE <1>1 DEF vars, callerVars, taskVars, writerVars, diskVars
  <2>1. FrameInv' /\ OutInv'
    BY <1>0, DurableSame DEF CleanInv, FrameInv, OutInv, FileInv
  <2>2. FileInv'
    BY <1>0, Zenon DEF CleanInv, FileInv
  <2>3. DrainInv' /\ WatermarkInv'
    BY <1>0 DEF CleanInv, DrainInv, WatermarkInv, SettledUpTo, Settled, FirstRun
  <2> QED BY <2>1, <2>2, <2>3, Zenon DEF CleanInv
<1>2. CASE Caller
  BY <1>0, <1>2, CallerC, Zenon
<1>3. CASE Task
  BY <1>0, <1>3, TakeC, GatherC, WritesC, SyncC, SyncFailC, FailC, PublishC, ReplyC, RotatesC, DrainC, Zenon
     DEF Task
<1> QED BY <1>0, <1>1, <1>2, <1>3, PowerLossC, ReopenC, Zenon DEF Next

\* The invariant holds in every reachable state.
THEOREM CleanInvariant == Spec => [](BInv /\ CInv)
<1>1. Init => BInv /\ CInv
  BY InitB, InitC, Zenon
<1>2. BInv /\ CInv /\ [Next]_vars => BInv' /\ CInv'
  BY NextB, NextC, Zenon
<1> QED BY <1>1, <1>2, PTL DEF Spec

\* current_sequence() covers no frame of the batch in progress that is not durable,
\* whatever is batched, is rotated, or is cut off and recovered, as long as the
\* only errors are a write that fails at a frame boundary and a sync that fails.
THEOREM PublishedDurable == Spec => []PublishedIsDurable
<1>1. BInv /\ CInv => PublishedIsDurable
  <2> SUFFICES ASSUME BInv, CleanInv, NEW i \in DOMAIN out, out[i].seq <= last_seq, pc # "fail"
               PROVE  out[i].from \in DurableEntries
    BY Zenon DEF CInv, PublishedIsDurable, Range
  <2>1. /\ last_seq \in Nat /\ current_seq \in Nat /\ Len(out) \in Nat /\ DOMAIN out = 1 .. Len(out)
        /\ out[i].seq = current_seq - Len(out) + i
    BY DEF BInv, TypeOK, NumberInv
  <2>2. ~(last_seq <= current_seq - Len(out))
    BY <2>1
  <2>3. pc \in {"reply", "rotate"}
    BY <2>2 DEF BInv, NumberInv, CallInv, Writing
  <2>4. out[i] \in Durable(file) /\ file \in DOMAIN disk
    BY <2>3, Zenon DEF CleanInv, OutInv, FileInv
  <2> QED BY <2>4, Zenon DEF DurableEntries
<1> QED BY <1>1, CleanInvariant, PTL

\* Until the shard has recovered once, a drain covers every acknowledged entry
\* up to its number, also those acknowledged while it waits in the channel.
THEOREM NotOvertaken == Spec => []FirstRunNotOvertaken
<1>1. BInv /\ CInv => FirstRunNotOvertaken
  <2> SUFFICES ASSUME BInv, CleanInv, FirstRun, NEW c \in Overtaken PROVE FALSE
    BY Zenon DEF CInv, FirstRunNotOvertaken, FirstRun
  <2>0. PICK n \in DOMAIN disk : \E f \in Durable(n) : f.from = c /\ f.seq <= watermark
    BY Zenon DEF Overtaken
  <2>1. PICK f \in Durable(n) : f.from = c /\ f.seq <= watermark
    BY <2>0, Zenon
  <2>2. PICK i \in DOMAIN disk[n] : f = disk[n][i]
    BY <2>1, DurableIs, Typed DEF BInv
  <2>3. Settled(c)
    BY <2>1, <2>2, Zenon DEF CleanInv, WatermarkInv, SettledUpTo
  <2> QED BY <2>3, Zenon DEF Settled, Overtaken
<1> QED BY <1>1, CleanInvariant, PTL

-----------------------------------------------------------------------------
(* The shard implements the durable log *)

\* A step that acknowledges nobody, takes back no release, and loses only entries
\* nobody relies on is a Change of the log.
LEMMA ChangeStep ==
  ASSUME BInv, BInv', \A x \in Clients : status'[x] = "ok" <=> status[x] = "ok",
         released \subseteq released',
         \A c \in DurableEntries : c \in DurableEntries' \/ c \in released' \/ status[c] # "ok"
  PROVE  Log!Next
<1>1. DurableEntries' \in SUBSET Clients /\ released' \in SUBSET Clients
  <2>1. \A n \in DOMAIN disk' : \A f \in Durable(n)' : f.from \in Clients
    <3> SUFFICES ASSUME NEW n \in DOMAIN disk', NEW f \in Durable(n)' PROVE f.from \in Clients
      BY Zenon
    <3>1. PICK i \in 1 .. synced'[n] : f = disk'[n][i]
      BY DurableNext DEF BInv
    <3>2. disk'[n] \in Seq(FrameType) /\ synced'[n] \in 0 .. Len(disk'[n])
      BY Zenon DEF BInv, TypeOK
    <3>3. disk'[n][i] \in FrameType
      BY <3>2
    <3> QED BY <3>1, <3>3, Zenon DEF FrameType
  <2>2. DurableEntries' \in SUBSET Clients
    BY <2>1, Zenon DEF DurableEntries
  <2> QED BY <2>2, Zenon DEF BInv, TypeOK
<1>2. {c \in Clients : status'[c] = "ok"} = {c \in Clients : status[c] = "ok"}
  BY Zenon
<1>3. Log!Change(DurableEntries', released')
  BY <1>2, Zenon DEF Log!Change
<1> QED BY <1>1, <1>3, Zenon DEF Log!Next

\* Acknowledging durable entries is an Ack of the log.
LEMMA AckStep ==
  ASSUME NEW A \in SUBSET Clients, A \subseteq DurableEntries, UNCHANGED <<DurableEntries, released>>,
         {c \in Clients : status'[c] = "ok"} = {c \in Clients : status[c] = "ok"} \cup A
  PROVE  Log!Next
<1>1. Log!Ack(A)
  BY Zenon DEF Log!Ack
<1> QED BY <1>1, Zenon DEF Log!Next

\* The entries stay durable when no file loses a durable frame.
LEMMA EntriesKept ==
  ASSUME \A n \in DOMAIN disk : n \in DOMAIN disk' /\ Durable(n) \subseteq Durable(n)'
  PROVE  DurableEntries \subseteq DurableEntries'
BY Zenon DEF DurableEntries

\* Writing, syncing, rotating and a loss of power keep every durable frame.
LEMMA FramesKept ==
  ASSUME BInv, BInv', CleanFaults',
         TaskWrite \/ TaskWriteFail \/ TaskSync \/ TaskSizeRotate \/ TaskExplicit \/ PowerLoss
  PROVE  \A n \in DOMAIN disk : n \in DOMAIN disk' /\ Durable(n) \subseteq Durable(n)'
<1> SUFFICES ASSUME NEW n \in DOMAIN disk
             PROVE  n \in DOMAIN disk' /\ Durable(n) \subseteq Durable(n)'
  BY Zenon
<1>0. /\ disk[n] \in Seq(FrameType) /\ Len(disk[n]) \in Nat /\ synced[n] \in Nat
      /\ synced[n] <= Len(disk[n]) /\ DOMAIN synced = DOMAIN disk
      /\ out \in Seq(FrameType) /\ Len(out) \in Nat
  BY Typed, Zenon DEF BInv, TypeOK
<1>1. CASE TaskWrite \/ TaskWriteFail
  <2>1. ~Fault("torn")
    BY FaultClean DEF BInv
  <2>2. (\E k \in 0 .. Len(out) - 1 : WriteTo(SubSeq(out, 1, k))) \/ WriteTo(out)
    BY <1>0, <1>1, <2>1, Zenon DEF TaskWrite, TaskWriteFail
  <2>3. PICK fs \in Seq(FrameType) : WriteTo(fs)
    <3>1. \A k \in 0 .. Len(out) - 1 : SubSeq(out, 1, k) \in Seq(FrameType)
      BY <1>0
    <3> QED BY <1>0, <2>2, <3>1, Zenon
  <2>4. n \in DOMAIN disk' /\ (disk'[n] = disk[n] \/ disk'[n] = disk[n] \o fs) /\ synced' = synced
    BY <1>1, <2>3, Zenon DEF WriteTo, TaskWrite, TaskWriteFail
  <2>5. \A i \in 1 .. synced[n] : disk'[n][i] = disk[n][i]
    <3>1. \A i \in 1 .. synced[n] : (disk[n] \o fs)[i] = disk[n][i]
      BY <1>0
    <3> QED BY <2>4, <3>1, Zenon
  <2>6. synced[n] <= synced'[n]
    BY <1>0, <2>4
  <2> QED BY <2>4, <2>5, <2>6, DurableKept, Zenon
<1>2. CASE TaskSync
  <2>1. disk' = disk /\ synced[n] <= synced'[n]
    BY <1>0, <1>2 DEF TaskSync
  <2> QED BY <2>1, DurableKept, Zenon
<1>3. CASE TaskSizeRotate \/ TaskExplicit
  <2>1. pc # "down" /\ WriterStep
    BY <1>3, Zenon DEF TaskSizeRotate, TaskExplicit, WriterStep
  <2>2. n \in DOMAIN disk' /\ disk'[n] = disk[n] /\ synced'[n] = synced[n]
    BY <2>1, WriterStepFacts, Zenon
  <2> QED BY <2>2, DurableEqual, Zenon
<1>4. CASE PowerLoss
  <2>1. n \in DOMAIN disk' /\ Survives(n, disk'[n]) /\ synced'[n] = Len(disk'[n])
    BY <1>4, Zenon DEF PowerLoss
  <2>2. /\ disk'[n] \in Seq(FrameType) /\ synced[n] <= Len(disk'[n])
        /\ \A i \in DOMAIN disk'[n] : disk'[n][i] = disk[n][i] \/ i > synced[n]
    BY <2>1, SurvivesFacts, Zenon DEF BInv
  <2>3. \A i \in 1 .. synced[n] : i \in DOMAIN disk'[n] /\ ~(i > synced[n])
    BY <1>0, <2>2
  <2> QED BY <2>1, <2>2, <2>3, DurableKept, Zenon
<1> QED BY <1>1, <1>2, <1>3, <1>4, Zenon

\* A file a drainer removes holds nothing above the watermark, so no entry that
\* anybody relies on.
LEMMA RemoveImplements ==
  ASSUME BInv, BInv', CleanInv, Overtaken = {}, NEW d \in Drainers, NEW n \in paths[d], RemoveFile(d, n)
  PROVE  Log!Next
<1>1. /\ DOMAIN disk' = DOMAIN disk \ {n}
      /\ \A m \in DOMAIN disk' : disk'[m] = disk[m] /\ synced'[m] = synced[m]
      /\ status' = status /\ released' = released
  BY Zenon DEF RemoveFile, BInv, TypeOK
<1>2. \A m \in DOMAIN disk' : Durable(m)' = Durable(m)
  BY <1>1, DurableEqual, Zenon
<1>3. \A c \in DurableEntries : c \in DurableEntries' \/ c \in released' \/ status[c] # "ok"
  <2> SUFFICES ASSUME NEW m \in DOMAIN disk, NEW f \in Durable(m), f.from \notin DurableEntries'
               PROVE  f.from \in released \/ status[f.from] # "ok"
    BY <1>1 DEF DurableEntries
  <2>1. m = n
    BY <1>1, <1>2, Zenon DEF DurableEntries
  <2>2. PICK i \in DOMAIN disk[m] : f = disk[m][i]
    BY DurableIs, Typed DEF BInv
  <2>3. f.seq <= watermark /\ f.from \in Clients
    BY <2>1, <2>2, Typed, Zenon DEF CleanInv, DrainInv, BInv
  <2> QED BY <2>3, Zenon DEF Overtaken
<1> QED BY <1>1, <1>3, ChangeStep, Zenon

\* Recovery removes the segment it has replayed: what it did not give back was
\* released or never acknowledged.
LEMMA ReopenImplements ==
  ASSUME BInv, BInv', CleanInv, Overtaken = {}, Reopen
  PROVE  Log!Next
<1>1. PICK high \in Nat, active \in Nat :
        /\ pc = "down"
        /\ DOMAIN disk' = (DOMAIN disk \ {high}) \cup {active}
        /\ \A n \in DOMAIN disk' : /\ disk'[n] = IF n \in DOMAIN disk THEN disk[n] ELSE <<>>
                                   /\ synced'[n] = IF n \in DOMAIN disk THEN Len(disk[n]) ELSE 0
        /\ released' = released \cup {f.from : f \in Replayed}
        /\ status' = status
  BY ReopenState, Zenon DEF callerVars
<1>2. \A n \in DOMAIN disk : synced[n] = Len(disk[n])
  BY <1>1, Zenon DEF CleanInv, OutInv
<1>3. \A n \in DOMAIN disk' : n \in DOMAIN disk => Durable(n)' = Durable(n)
  BY <1>1, <1>2, DurableEqual, Zenon
<1>4. \A c \in DurableEntries : c \in DurableEntries' \/ c \in released' \/ status[c] # "ok"
  <2> SUFFICES ASSUME NEW m \in DOMAIN disk, NEW f \in Durable(m), status[f.from] = "ok",
                      f.from \notin released'
               PROVE  f.from \in DurableEntries'
    BY DEF DurableEntries
  <2>1. PICK i \in DOMAIN disk[m] : f = disk[m][i]
    BY DurableIs, Typed DEF BInv
  <2>2. f.from \in Clients /\ f.seq \in Nat /\ watermark \in Nat
    BY <2>1, Typed, Zenon DEF BInv, TypeOK
  <2>3. f \in Readable(disk[m])
    <3>1. Durable(m) = {disk[m][j] : j \in {k \in 1 .. synced[m] : \A l \in 1 .. k : disk[m][l].ok}}
      BY DurableIs, Zenon DEF BInv
    <3> QED BY <1>2, <3>1, Zenon DEF Readable
  <2>4. f.seq > watermark
    BY <1>1, <2>2 DEF Overtaken
  <2>5. f \in Replayed
    BY <2>3, <2>4, Zenon DEF Replayed
  <2> QED BY <1>1, <2>5, Zenon
<1> QED BY <1>1, <1>4, ChangeStep, Zenon

\* Every step of the shard is a step of the durable log.
LEMMA StepImplements ==
  ASSUME BInv, BInv', CInv, [Next]_vars, CleanFaults', Overtaken = {}
  PROVE  Log!Next \/ UNCHANGED Log!vars
<1>0. CleanInv
  BY CleanBefore, Zenon DEF CInv, BInv
<1>1. ASSUME \A n \in DOMAIN disk : n \in DOMAIN disk' /\ Durable(n) \subseteq Durable(n)',
             \A x \in Clients : status'[x] = "ok" <=> status[x] = "ok",
             released \subseteq released'
      PROVE  Log!Next
  BY <1>1, EntriesKept, ChangeStep, Zenon
<1>2. ASSUME UNCHANGED <<disk, synced>>
      PROVE  \A n \in DOMAIN disk : n \in DOMAIN disk' /\ Durable(n) \subseteq Durable(n)'
  BY <1>2, DurableSame, Zenon
<1>3. status \in [Callers -> {"idle", "sent", "ok", "err", "cut"}] /\ Clients \subseteq Callers
  BY Zenon DEF BInv, TypeOK, Callers
<1>4. CASE UNCHANGED vars
  BY <1>4, DurableSame, Zenon DEF vars, callerVars, diskVars, Log!vars
<1>5. CASE Caller
  <2>1. ASSUME NEW c \in Callers, NEW msg, Send(c, msg), released \subseteq released' PROVE Log!Next
    BY <1>1, <1>2, <1>3, <2>1, Zenon DEF Send, diskVars
  <2>2. CASE \E c \in Clients : SendAppend(c)
    BY <2>1, <2>2, Zenon DEF SendAppend, Callers
  <2>3. CASE \E c \in Rotators : SendRotate(c)
    BY <2>1, <2>3, Zenon DEF SendRotate, Callers
  <2>4. CASE \E d \in Drainers : \E q \in {watermark} \cup 1 .. last_seq : SendDrain(d, q)
    BY <2>1, <2>4, Zenon DEF SendDrain, Callers
  <2>5. CASE \E d \in Drainers : \E n \in paths[d] : RemoveFile(d, n)
    BY <1>0, <2>5, RemoveImplements, Zenon
  <2> QED BY <1>5, <2>2, <2>3, <2>4, <2>5, Zenon DEF Caller
<1>6. CASE TaskRecv \/ TaskCollect \/ TaskSyncFail \/ TaskPublish
  <2>1. UNCHANGED <<disk, synced, status, released>>
    BY <1>6, Zenon DEF TaskRecv, TaskCollect, TaskSyncFail, TaskPublish, callerVars, diskVars
  <2> QED BY <1>1, <1>2, <2>1, Zenon
<1>7. CASE TaskGather \/ TaskDrain
  <2>1. UNCHANGED <<disk, synced, released>>
    BY <1>7, Zenon DEF TaskGather, TaskDrain, diskVars
  <2> QED BY <1>1, <1>2, <1>7, <2>1, ClientsWait, Zenon
<1>8. CASE TaskWrite \/ TaskWriteFail \/ TaskSync \/ TaskSizeRotate
  <2>1. UNCHANGED <<status, released>>
    BY <1>8, Zenon DEF TaskWrite, TaskWriteFail, TaskSync, TaskSizeRotate, callerVars
  <2> QED BY <1>1, <1>8, <2>1, FramesKept, Zenon
<1>9. CASE TaskExplicit
  <2>1. released' = released
    BY <1>9, Zenon DEF TaskExplicit
  <2> QED BY <1>1, <1>9, <2>1, FramesKept, ClientsWait, Zenon
<1>10. CASE TaskFail
  <2>1. /\ UNCHANGED <<disk, synced, released>>
        /\ \A x \in Callers : status'[x] = status[x] \/ (status[x] = "sent" /\ status'[x] = "err")
    BY <1>10, Zenon DEF TaskFail, Answer, diskVars
  <2> QED BY <1>1, <1>2, <1>3, <2>1, Zenon
<1>11. CASE PowerLoss
  <2>1. /\ released' = released
        /\ \A x \in Callers : status'[x] = IF status[x] = "sent" THEN "cut" ELSE status[x]
    BY <1>11, Zenon DEF PowerLoss
  <2> QED BY <1>1, <1>3, <1>11, <2>1, FramesKept, Zenon
<1>12. CASE Reopen
  BY <1>0, <1>12, ReopenImplements, Zenon
<1>13. CASE TaskReply
  <2> DEFINE A == From(out)
  <2>1. /\ pc = "reply" /\ UNCHANGED <<disk, synced, released>>
        /\ status' = [c \in Callers |-> IF c \in A THEN "ok" ELSE status[c]]
    BY <1>13, Zenon DEF TaskReply, Answer, diskVars
  <2>2. A \subseteq DurableEntries /\ A \in SUBSET Clients
    <3> SUFFICES ASSUME NEW i \in DOMAIN out
                 PROVE  out[i].from \in DurableEntries /\ out[i].from \in Clients
      BY Zenon DEF From, Range
    <3>1. out[i] \in Durable(file) /\ file \in DOMAIN disk
      BY <1>0, <2>1, Zenon DEF CleanInv, OutInv, FileInv
    <3> QED BY <3>1, Typed, Zenon DEF DurableEntries, BInv
  <2>3. DurableEntries' = DurableEntries
    BY <2>1, DurableSame, Zenon
  <2> HIDE DEF A
  <2>4. {c \in Clients : status'[c] = "ok"} = {c \in Clients : status[c] = "ok"} \cup A
    BY <1>3, <2>1, <2>2, Zenon
  <2> QED BY <2>1, <2>2, <2>3, <2>4, AckStep, Zenon
<1> QED BY <1>4, <1>5, <1>6, <1>7, <1>8, <1>9, <1>10, <1>11, <1>12, <1>13, Zenon DEF Next, Task

\* The shard implements the durable log its callers rely on: through batches,
\* failed writes and syncs, rotations, drains, losses of power and recoveries, an
\* entry is acknowledged only when it is durable, and stays durable until it is
\* released, as long as no frame is torn, no rotation fails and the numbering has
\* not fallen behind the watermark.
THEOREM ShardImplementsLog == Spec => ImplementsCleanLog
<1>1. Init => Log!Init
  <2> SUFFICES ASSUME Init PROVE Log!Init
    BY Zenon
  <2>1. Durable(1) = {}
    <3>1. BInv /\ 1 \in DOMAIN disk /\ synced[1] = 0
      BY InitB, Zenon DEF Init
    <3>2. Durable(1) = {disk[1][i] : i \in {j \in 1 .. synced[1] : \A k \in 1 .. j : disk[1][k].ok}}
      BY <3>1, DurableIs, Zenon DEF BInv
    <3> QED BY <3>1, <3>2
  <2>2. DurableEntries = {}
    BY <2>1, Zenon DEF DurableEntries, Init
  <2> QED BY <2>2, Zenon DEF Log!Init, Init, Callers
<1>2. BInv /\ BInv' /\ CInv /\ [Next]_vars => [CleanFaults' /\ Overtaken = {} => Log!Next]_(Log!vars)
  BY StepImplements, Zenon
<1>3. Spec => []BInv /\ []CInv
  BY CleanInvariant, PTL
<1> QED BY <1>1, <1>2, <1>3, PTL DEF Spec, ImplementsCleanLog

=============================================================================
