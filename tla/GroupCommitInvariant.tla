------------------------ MODULE GroupCommitInvariant ------------------------
(***************************************************************************)
(* The invariant of one WAL shard is inductive, for every number of callers, *)
(* every capacity and every sequence of faults, crashes and recoveries; and *)
(* what a shard without torn frames guarantees, through its append path.   *)
(***************************************************************************)
EXTENDS GroupCommitSteps

\* The frames of a batch that is being written carry numbers that are given out and
\* not yet published.
LEMMA OutFacts ==
  ASSUME BInv, pc \in Writing \ {"reply"}
  PROVE  \A k \in DOMAIN out : /\ out[k].seq > last_seq /\ out[k].seq <= current_seq
                               /\ out[k].ok /\ out[k].seq \in Nat
<1>1. /\ last_seq \in Nat /\ current_seq \in Nat /\ Len(out) \in Nat /\ DOMAIN out = 1 .. Len(out)
      /\ last_seq <= current_seq - Len(out)
      /\ \A k \in DOMAIN out : out[k].seq = current_seq - Len(out) + k /\ out[k].ok
  BY DEF BInv, TypeOK, NumberInv
<1> QED BY <1>1

\* What a file holds after frames fs were written behind what it held.
LEMMA WrittenFile ==
  ASSUME NEW old \in Seq(FrameType), NEW fs \in Seq(FrameType), NEW new, new = old \o fs
  PROVE  /\ Len(old) \in Nat /\ Len(fs) \in Nat
         /\ DOMAIN fs = 1 .. Len(fs) /\ DOMAIN old = 1 .. Len(old)
         /\ DOMAIN new = 1 .. Len(old) + Len(fs)
         /\ \A i \in 1 .. Len(old) + Len(fs) :
              new[i] = IF i <= Len(old) THEN old[i] ELSE fs[i - Len(old)]
<1>1. /\ old \o fs \in Seq(FrameType) /\ Len(old \o fs) = Len(old) + Len(fs)
      /\ \A i \in 1 .. Len(old) + Len(fs) :
           (old \o fs)[i] = IF i <= Len(old) THEN old[i] ELSE fs[i - Len(old)]
  OBVIOUS
<1> QED BY <1>1

\* A file that held old holds new, frames fs of batch o behind it: each frame was there
\* or is of the batch, none moved, and each one of fs is there.
Written(old, new, fs, o) ==
  /\ \A i \in DOMAIN new : \/ i \in DOMAIN old /\ new[i] = old[i]
                          \/ \E k \in DOMAIN o : new[i] = o[k]
  /\ \A m \in Nat : m <= Len(old) => \A i \in 1 .. m : new[i] = old[i]
  /\ \A i \in DOMAIN fs : \E k \in DOMAIN new : new[k] = fs[i]

\* A write of the first frames of a batch leaves such a file.
LEMMA WrittenFrames ==
  ASSUME NEW old \in Seq(FrameType), NEW fs \in Seq(FrameType), NEW new, new = old \o fs,
         NEW o \in Seq(FrameType), Len(fs) <= Len(o), \A i \in DOMAIN fs : fs[i] = o[i]
  PROVE  Written(old, new, fs, o)
<1>1. /\ Len(old) \in Nat /\ Len(fs) \in Nat /\ Len(o) \in Nat /\ DOMAIN o = 1 .. Len(o)
      /\ DOMAIN fs = 1 .. Len(fs) /\ DOMAIN old = 1 .. Len(old)
      /\ DOMAIN new = 1 .. Len(old) + Len(fs)
      /\ \A i \in 1 .. Len(old) + Len(fs) :
           new[i] = IF i <= Len(old) THEN old[i] ELSE fs[i - Len(old)]
  BY WrittenFile
<1>2. ASSUME NEW i \in DOMAIN new, ~(i <= Len(old))
      PROVE  \E k \in DOMAIN o : new[i] = o[k]
  <2>1. i - Len(old) \in DOMAIN fs /\ i - Len(old) \in DOMAIN o /\ new[i] = fs[i - Len(old)]
    BY <1>1, <1>2
  <2> QED BY <2>1, Zenon
<1>3. \A i \in DOMAIN new : i <= Len(old) => i \in DOMAIN old /\ new[i] = old[i]
  BY <1>1
<1>4. \A m \in Nat : m <= Len(old) => \A i \in 1 .. m : new[i] = old[i]
  BY <1>1
<1>5. ASSUME NEW i \in DOMAIN fs PROVE \E k \in DOMAIN new : new[k] = fs[i]
  <2>1. Len(old) + i \in DOMAIN new /\ new[Len(old) + i] = fs[i]
    BY <1>1
  <2> QED BY <2>1, Zenon
<1> QED BY <1>2, <1>3, <1>4, <1>5, Zenon DEF Written

\* What a loss of power leaves of a file: its synced frames, some of the others,
\* and perhaps a fragment, which is not whole.
LEMMA SurvivesFacts ==
  ASSUME TypeOK, NEW n \in DOMAIN disk, NEW fs, Survives(n, fs)
  PROVE  /\ fs \in Seq(FrameType) /\ synced[n] <= Len(fs) /\ Len(fs) <= Len(disk[n])
         /\ \A i \in DOMAIN fs : /\ i \in DOMAIN disk[n]
                                 /\ fs[i].seq = disk[n][i].seq /\ fs[i].from = disk[n][i].from
                                 /\ fs[i] = disk[n][i] \/ i > synced[n]
<1>1. /\ disk[n] \in Seq(FrameType) /\ synced[n] \in Nat /\ synced[n] <= Len(disk[n])
      /\ Len(disk[n]) \in Nat /\ DOMAIN disk[n] = 1 .. Len(disk[n])
  BY DEF TypeOK
<1>2. PICK k \in synced[n] .. Len(disk[n]) :
        \/ fs = SubSeq(disk[n], 1, k)
        \/ k < Len(disk[n]) /\ fs = Append(SubSeq(disk[n], 1, k), [disk[n][k + 1] EXCEPT !.ok = FALSE])
  BY Zenon DEF Survives
<1> DEFINE s == SubSeq(disk[n], 1, k)
<1>3. k \in Nat /\ synced[n] <= k /\ k <= Len(disk[n])
  BY <1>1
<1>4. s \in Seq(FrameType) /\ Len(s) = k /\ \A i \in 1 .. k : s[i] = disk[n][i]
  BY <1>1, <1>3
<1>5. CASE fs = SubSeq(disk[n], 1, k)
  BY <1>1, <1>3, <1>4, <1>5
<1>6. CASE k < Len(disk[n]) /\ fs = Append(SubSeq(disk[n], 1, k), [disk[n][k + 1] EXCEPT !.ok = FALSE])
  <2> DEFINE f == [disk[n][k + 1] EXCEPT !.ok = FALSE]
  <2>1. f \in FrameType /\ f.seq = disk[n][k + 1].seq /\ f.from = disk[n][k + 1].from
    <3>1. disk[n][k + 1] \in FrameType
      BY <1>1, <1>3, <1>6
    <3> QED BY <3>1, Zenon DEF FrameType
  <2> HIDE DEF s, f
  <2>2. /\ Append(s, f) \in Seq(FrameType) /\ Len(Append(s, f)) = k + 1
        /\ \A i \in 1 .. k + 1 : Append(s, f)[i] = IF i = k + 1 THEN f ELSE s[i]
    BY <1>3, <1>4, <2>1
  <2>3. fs = Append(s, f) /\ k + 1 <= Len(disk[n])
    BY <1>1, <1>3, <1>6 DEF s, f
  <2> QED BY <1>1, <1>3, <1>4, <2>1, <2>2, <2>3
<1> QED BY <1>2, <1>5, <1>6, Zenon

\* A loss of power.
LEMMA PowerLossB ==
  ASSUME BInv, PowerLoss
  PROVE  BInv'
<1> USE DEF BInv
<1>1. /\ DOMAIN disk' = DOMAIN disk /\ DOMAIN synced' = DOMAIN disk
      /\ \A n \in DOMAIN disk : Survives(n, disk'[n]) /\ synced'[n] = Len(disk'[n])
  BY Zenon DEF PowerLoss
<1>2. /\ crashes < MaxCrashes /\ crashes' = crashes + 1
      /\ status' = [c \in Callers |-> IF status[c] = "sent" THEN "cut" ELSE status[c]]
      /\ paths' = [d \in Drainers |-> {}]
      /\ queue' = <<>> /\ batch' = <<>> /\ out' = <<>> /\ pc' = "down" /\ last_seq' = 0
      /\ current_seq' = 0 /\ current_size' = 0 /\ current_segment' = 0 /\ file' = 0
      /\ completed_segments' = {}
      /\ UNCHANGED <<got, released, watermark, faults>>
  BY Zenon DEF PowerLoss
<1>3. crashes' \in 0 .. MaxCrashes /\ crashes' > 0
  BY <1>2, BoundsAssumption DEF TypeOK
<1>4. \A n \in DOMAIN disk : /\ disk'[n] \in Seq(FrameType) /\ Len(disk'[n]) \in Nat
                             /\ \A i \in DOMAIN disk'[n] : i \in DOMAIN disk[n] /\ disk'[n][i].seq = disk[n][i].seq
  BY <1>1, SurvivesFacts
<1>5. TypeOK'
  <2>1. status' \in [Callers -> {"idle", "sent", "ok", "err", "cut"}]
    BY <1>2, Zenon DEF TypeOK
  <2>2. paths' \in [Drainers -> SUBSET Nat]
    BY <1>2, Zenon
  <2>3. /\ DOMAIN disk' \subseteq Nat /\ DOMAIN synced' = DOMAIN disk'
        /\ \A n \in DOMAIN disk' : disk'[n] \in Seq(FrameType) /\ synced'[n] \in 0 .. Len(disk'[n])
    <3>1. \A n \in DOMAIN disk : Len(disk'[n]) \in 0 .. Len(disk'[n])
      BY <1>4
    <3> QED BY <1>1, <1>4, <3>1, Zenon DEF TypeOK
  <2> QED BY <1>2, <1>3, <2>1, <2>2, <2>3, BoundsAssumption DEF TypeOK
<1>6. CallInv' /\ NumberInv'
  BY <1>2 DEF CallInv, NumberInv, Writing
<1>7. BoundInv'
  BY <1>1, <1>4, Zenon DEF BoundInv
<1>8. OrderInv' /\ LogIsOrdered' /\ ReplyIsPublished'
  BY <1>2, <1>3 DEF OrderInv, LogIsOrdered, ReplyIsPublished
<1> QED BY <1>5, <1>6, <1>7, <1>8, Zenon

\* What recovery computes: the last number replayed and the highest segment.
LEMMA ReopenFacts ==
  ASSUME BInv
  PROVE  LET last == Max({f.seq : f \in Replayed} \cup {0})
             high == Max(DOMAIN disk \cup {1})
         IN  /\ last \in Nat /\ \A f \in Replayed : f.seq <= last
             /\ high \in Nat /\ high >= 1 /\ \A n \in DOMAIN disk : n <= high
             /\ DOMAIN disk # {} => high \in DOMAIN disk \/ high = 1
<1> DEFINE L == {f.seq : f \in Replayed} \cup {0}
           H == DOMAIN disk \cup {1}
<1>1. PICK b \in Nat : \A n \in DOMAIN disk : n <= b /\ \A i \in DOMAIN disk[n] : disk[n][i].seq <= b
  BY Zenon DEF BInv, BoundInv
<1>2. \A f \in Replayed : f.seq \in Nat /\ f.seq <= b
  <2>1. \A f \in Replayed : \E n \in DOMAIN disk : \E i \in 1 .. Len(disk[n]) : f = disk[n][i]
    BY Zenon DEF Replayed, Readable
  <2> QED BY <1>1, <2>1, Typed DEF BInv
<1>3. Max(L) \in L /\ \A y \in L : y <= Max(L)
  <2>1. L \in SUBSET Nat /\ L # {} /\ \A x \in L : x <= b
    BY <1>1, <1>2
  <2> HIDE DEF L
  <2> QED BY <1>1, <2>1, MaxExists, Zenon
<1>4. Max(H) \in H /\ \A y \in H : y <= Max(H)
  <2>1. H \in SUBSET Nat /\ H # {} /\ b + 1 \in Nat /\ \A x \in H : x <= b + 1
    BY <1>1, Typed DEF BInv
  <2> HIDE DEF H
  <2> QED BY <2>1, MaxExists, Zenon
<1>5. L \subseteq Nat /\ H \subseteq Nat
  BY <1>2, Typed DEF BInv
<1> QED BY <1>3, <1>4, <1>5, Zenon

\* The state recovery leaves: numbering resumes at the last number replayed, in a
\* file newer than all others; the highest segment there was is gone.
LEMMA ReopenState ==
  ASSUME BInv, Reopen
  PROVE  \E last \in Nat, high \in Nat, active \in Nat :
           /\ pc = "down" /\ pc' = "recv" /\ last_seq' = last /\ current_seq' = last
           /\ \A f \in Replayed : f.seq <= last
           /\ current_size' = 0 /\ current_segment' = active /\ file' = active
           /\ \A n \in DOMAIN disk : n <= high /\ n < active
           /\ completed_segments' = {[seg |-> n, max_seq |-> U64MAX] : n \in 1 .. high - 1}
           /\ high <= active /\ active \in DOMAIN disk'
           /\ DOMAIN disk' = (DOMAIN disk \ {high}) \cup {active}
           /\ DOMAIN synced' = DOMAIN disk'
           /\ \A n \in DOMAIN disk' : /\ disk'[n] = IF n \in DOMAIN disk THEN disk[n] ELSE <<>>
                                      /\ synced'[n] = IF n \in DOMAIN disk THEN Len(disk[n]) ELSE 0
           /\ released' = released \cup {f.from : f \in Replayed}
           /\ UNCHANGED <<callerVars, queue, batch, out, watermark, faults, crashes>>
<1> DEFINE last == Max({f.seq : f \in Replayed} \cup {0})
           high == Max(DOMAIN disk \cup {1})
           prior == {[seg |-> n, max_seq |-> U64MAX] : n \in 1 .. high - 1}
           rotated == IF DOMAIN disk # {} THEN {[seg |-> high, max_seq |-> last]} ELSE {}
           bound == IF Replayed # {} THEN last ELSE watermark
           gone == Drainable(prior \cup rotated, bound)
           active == high + Cardinality(rotated)
           kept == (DOMAIN disk \cup {active}) \ {c.seg : c \in gone}
<1>1. /\ pc = "down"
      /\ released' = released \cup {f.from : f \in Replayed}
      /\ current_seq' = last /\ last_seq' = last /\ current_size' = 0
      /\ current_segment' = active /\ file' = active
      /\ completed_segments' = (prior \cup rotated) \ gone
      /\ disk' = [n \in kept |-> IF n \in DOMAIN disk THEN disk[n] ELSE <<>>]
      /\ synced' = [n \in kept |-> IF n \in DOMAIN disk THEN Len(disk[n]) ELSE 0]
      /\ pc' = "recv"
      /\ UNCHANGED <<callerVars, queue, batch, out, watermark, faults, crashes>>
  BY Zenon DEF Reopen
<1>2. /\ last \in Nat /\ \A f \in Replayed : f.seq <= last
      /\ high \in Nat /\ high >= 1 /\ \A n \in DOMAIN disk : n <= high
  BY ReopenFacts, Zenon
<1>3. last <= bound /\ bound \in Nat
  <2>1. CASE Replayed = {}
    <3>1. {f.seq : f \in Replayed} \cup {0} = {0}
      BY <2>1, Zenon
    <3>2. last = 0
      BY <3>1 DEF Max
    <3> QED BY <2>1, <3>2 DEF BInv, TypeOK
  <2>2. CASE Replayed # {}
    BY <1>2, <2>2
  <2> QED BY <2>1, <2>2, Zenon
<1> HIDE DEF last, high, bound
<1>4. gone = rotated
  <2>1. \A c \in prior : c.max_seq = U64MAX
    OBVIOUS
  <2>2. \A c \in rotated : c.max_seq = last
    OBVIOUS
  <2>3. last # U64MAX /\ bound # U64MAX
    BY <1>2, <1>3 DEF U64MAX
  <2> HIDE DEF prior, rotated
  <2> QED BY <1>3, <2>1, <2>2, <2>3, Zenon DEF Drainable
<1>5. \A c \in prior : c.seg < high /\ c.seg \in Nat
  BY <1>2
<1>6. CASE DOMAIN disk = {}
  <2>1. rotated = {} /\ active = high /\ high = 1
    <3>1. DOMAIN disk \cup {1} = {1} /\ rotated = {}
      BY <1>6, Zenon
    <3>2. high = 1
      BY <3>1 DEF high, Max
    <3>3. Cardinality(rotated) = 0
      BY <3>1, FS_EmptySet, Zenon
    <3> QED BY <3>1, <3>2, <3>3
  <2>2. kept = (DOMAIN disk \ {high}) \cup {active}
    BY <1>4, <1>6, <2>1, Zenon
  <2>3. completed_segments' = prior
    BY <1>1, <1>4, <2>1, Zenon
  <2> HIDE DEF kept, active, gone, rotated
  <2> QED BY <1>1, <1>2, <1>6, <2>1, <2>2, <2>3, Zenon
<1>7. CASE DOMAIN disk # {}
  <2>1. rotated = {[seg |-> high, max_seq |-> last]} /\ active = high + 1
    <3>1. rotated = {[seg |-> high, max_seq |-> last]}
      BY <1>7, Zenon
    <3>2. Cardinality(rotated) = 1
      BY <3>1, FS_Singleton, Zenon
    <3> QED BY <3>1, <3>2, Zenon
  <2>2. {c.seg : c \in gone} = {high}
    <3> DEFINE r == [seg |-> high, max_seq |-> last]
    <3>1. gone = {r} /\ r.seg = high
      BY <1>4, <2>1, Zenon
    <3> HIDE DEF gone, r
    <3> QED BY <3>1, Zenon
  <2>3. kept = (DOMAIN disk \ {high}) \cup {active}
    BY <1>2, <2>1, <2>2
  <2>4. completed_segments' = prior
    <3>1. \A c \in prior : c \notin rotated
      BY <1>2, <1>5, <2>1
    <3> HIDE DEF prior, rotated
    <3> QED BY <1>1, <1>4, <3>1, Zenon
  <2>5. \A n \in DOMAIN disk : n <= high /\ n < active
    BY <1>2, <2>1, Typed DEF BInv
  <2>6. active \in Nat /\ high <= active
    BY <1>2, <2>1
  <2> HIDE DEF kept, active, gone, rotated
  <2> QED BY <1>1, <1>2, <2>3, <2>4, <2>5, <2>6, Zenon
<1> QED BY <1>6, <1>7, Zenon

\* Recovery reopens the shard.
LEMMA ReopenB ==
  ASSUME BInv, Reopen
  PROVE  BInv'
<1>1. PICK last \in Nat, high \in Nat, active \in Nat :
        /\ pc = "down" /\ pc' = "recv" /\ last_seq' = last /\ current_seq' = last
        /\ \A f \in Replayed : f.seq <= last
        /\ current_size' = 0 /\ current_segment' = active /\ file' = active
        /\ \A n \in DOMAIN disk : n <= high /\ n < active
        /\ completed_segments' = {[seg |-> n, max_seq |-> U64MAX] : n \in 1 .. high - 1}
        /\ high <= active /\ active \in DOMAIN disk'
        /\ DOMAIN disk' = (DOMAIN disk \ {high}) \cup {active}
        /\ DOMAIN synced' = DOMAIN disk'
        /\ \A n \in DOMAIN disk' : /\ disk'[n] = IF n \in DOMAIN disk THEN disk[n] ELSE <<>>
                                   /\ synced'[n] = IF n \in DOMAIN disk THEN Len(disk[n]) ELSE 0
        /\ released' = released \cup {f.from : f \in Replayed}
        /\ UNCHANGED <<callerVars, queue, batch, out, watermark, faults, crashes>>
  BY ReopenState, Zenon
<1> USE DEF BInv, callerVars
<1>2. crashes > 0
  BY <1>1, Zenon DEF OrderInv
<1>3. \A n \in DOMAIN disk' : disk'[n] \in Seq(FrameType) /\ synced'[n] \in 0 .. Len(disk'[n])
  <2> SUFFICES ASSUME NEW n \in DOMAIN disk'
               PROVE  disk'[n] \in Seq(FrameType) /\ synced'[n] \in 0 .. Len(disk'[n])
    BY Zenon
  <2>1. CASE n \in DOMAIN disk
    <3>1. disk[n] \in Seq(FrameType) /\ Len(disk[n]) \in Nat /\ disk'[n] = disk[n] /\ synced'[n] = Len(disk[n])
      BY <1>1, <2>1 DEF TypeOK
    <3> QED BY <3>1
  <2>2. CASE n \notin DOMAIN disk
    <3>1. disk'[n] = <<>> /\ synced'[n] = 0
      BY <1>1, <2>2, Zenon
    <3>2. <<>> \in Seq(FrameType) /\ Len(<<>>) = 0
      OBVIOUS
    <3> QED BY <3>1, <3>2
  <2> QED BY <2>1, <2>2, Zenon
<1>4. \A n \in DOMAIN disk' : \A i \in DOMAIN disk'[n] :
        n \in DOMAIN disk /\ i \in DOMAIN disk[n] /\ disk'[n] = disk[n]
  BY <1>1
<1>5. TypeOK'
  <2>1. \A f \in Replayed : f.from \in Clients
    <3>1. \A f \in Replayed : \E n \in DOMAIN disk : \E i \in 1 .. Len(disk[n]) : f = disk[n][i]
      BY Zenon DEF Replayed, Readable
    <3> QED BY <3>1, Typed
  <2>2. released' \subseteq Clients
    BY <1>1, <2>1 DEF TypeOK
  <2>3. DOMAIN disk' \subseteq Nat
    BY <1>1, Typed, Zenon
  <2>4. completed_segments' \subseteq [seg : Nat, max_seq : Nat \cup {U64MAX}]
    BY <1>1
  <2> QED BY <1>1, <1>3, <2>2, <2>3, <2>4, SMTT(30) DEF TypeOK
<1>6. CallInv'
  BY <1>1 DEF CallInv, Sender, Writing
<1>7. NumberInv'
  BY <1>1 DEF NumberInv, CallInv, Writing
<1>8. BoundInv'
  <2>1. PICK b \in Nat : \A n \in DOMAIN disk : n <= b /\ \A i \in DOMAIN disk[n] : disk[n][i].seq <= b
    BY Zenon DEF BoundInv
  <2>2. \A n \in DOMAIN disk' : n <= b + active
    BY <1>1, <2>1, Typed
  <2>3. \A n \in DOMAIN disk' : \A i \in DOMAIN disk'[n] : disk'[n][i].seq <= b /\ disk'[n][i].seq \in Nat
    BY <1>4, <2>1, Typed, Zenon
  <2>4. \A n \in DOMAIN disk' : \A i \in DOMAIN disk'[n] : disk'[n][i].seq <= b + active
    BY <2>1, <2>3
  <2>5. b + active \in Nat
    BY <2>1
  <2> QED BY <2>2, <2>4, <2>5, Zenon DEF BoundInv
<1>9. OrderInv'
  <2>1. \A n \in DOMAIN disk : n \in Nat /\ n < active
    BY <1>1, Typed, Zenon
  <2>2. \A n \in DOMAIN disk' : n \in DOMAIN disk \/ n = active
    BY <1>1, Zenon
  <2>3. \A n \in DOMAIN disk' : n <= active
    BY <2>1, <2>2
  <2> QED BY <1>1, <1>2, <2>3 DEF OrderInv
<1>10. LogIsOrdered' /\ ReplyIsPublished'
  BY <1>1, <1>2 DEF LogIsOrdered, ReplyIsPublished
<1> QED BY <1>5, <1>6, <1>7, <1>8, <1>9, <1>10, Zenon

\* Every step keeps the invariant.
LEMMA NextB ==
  ASSUME BInv, [Next]_vars
  PROVE  BInv'
<1>1. CASE UNCHANGED vars
  <2> USE <1>1 DEF vars, callerVars, taskVars, writerVars, diskVars, BInv
  <2>1. TypeOK'
    BY Zenon DEF TypeOK
  <2>2. CallInv' /\ NumberInv'
    BY DEF CallInv, NumberInv, Sender
  <2>3. BoundInv' /\ OrderInv' /\ LogIsOrdered' /\ ReplyIsPublished'
    BY DEF BoundInv, OrderInv, LogIsOrdered, ReplyIsPublished
  <2> QED BY <2>1, <2>2, <2>3, Zenon
<1>2. CASE Caller
  BY <1>2, CallerB, Zenon
<1>3. CASE Task
  BY <1>3, TakeB, GatherB, WritesB, SyncB, SyncFailB, FailB, PublishB, ReplyB, RotatesB, DrainB, Zenon
     DEF Task
<1> QED BY <1>1, <1>2, <1>3, PowerLossB, ReopenB, Zenon DEF Next

\* The invariant holds in every reachable state.
THEOREM ShardInvariant == Spec => []BInv
<1>1. Init => BInv
  BY InitB, Zenon
<1>2. BInv /\ [Next]_vars => BInv'
  BY NextB, Zenon
<1> QED BY <1>1, <1>2, PTL DEF Spec

\* The shard keeps its types, and the channel and the batch their bounds,
\* through every fault, crash and recovery.
THEOREM ShardTypeCorrect == Spec => []TypeOK
<1>1. BInv => TypeOK
  BY Zenon DEF BInv
<1> QED BY <1>1, ShardInvariant, PTL

\* An append that has returned is visible in current_sequence().
THEOREM RepliesPublished == Spec => []ReplyIsPublished
<1>1. BInv => ReplyIsPublished
  BY Zenon DEF BInv
<1> QED BY <1>1, ShardInvariant, PTL

\* Until the first loss of power the numbers on disk grow along every file and
\* from one file to the next, failed batches and failed rotations included.
THEOREM LogOrdered == Spec => []LogIsOrdered
<1>1. BInv => LogIsOrdered
  BY Zenon DEF BInv
<1> QED BY <1>1, ShardInvariant, PTL

-----------------------------------------------------------------------------
(* A shard without torn frames *)

\* An entry the log need not keep: released, or never acknowledged.
Settled(c) == c \in released \/ status[c] \in {"err", "cut"}

\* A frame on disk is durable, or its append failed or was cut off, or it is
\* among the frames being written.
FrameInv ==
  \A n \in DOMAIN disk : \A i \in DOMAIN disk[n] :
    \/ i <= synced[n] /\ disk[n][i] \in Durable(n)
    \/ status[disk[n][i].from] \in {"err", "cut"}
    \/ /\ status[disk[n][i].from] = "sent" /\ disk[n][i].seq > last_seq
       /\ n = file /\ pc \in {"sync", "fail"}
       /\ \E j \in DOMAIN batch : batch[j].from = disk[n][i].from

\* The open file has its name, holds whole frames, and is in nobody's list.
FileInv ==
  /\ pc # "down" =>
       /\ file = current_segment /\ file \in DOMAIN disk
       /\ \A i \in DOMAIN disk[file] : disk[file][i].ok /\ disk[file][i].seq <= current_seq
  /\ \A c \in completed_segments :
       /\ c.seg < file
       /\ c.max_seq # U64MAX /\ c.seg \in DOMAIN disk =>
            \A i \in DOMAIN disk[c.seg] : disk[c.seg][i].seq <= c.max_seq
  /\ \A d \in Drainers : \A n \in paths[d] : n < file /\ pc # "down"

\* The frames being written are in the open file, and durable once synced.
OutInv ==
  /\ pc = "sync" => \A i \in DOMAIN out : \E k \in DOMAIN disk[file] : disk[file][k] = out[i]
  /\ pc \in {"publish", "reply", "rotate"} => \A i \in DOMAIN out : out[i] \in Durable(file)
  /\ pc = "down" => \A n \in DOMAIN disk : synced[n] = Len(disk[n])

\* Everything numbered up to q is settled.
SettledUpTo(q) ==
  \A n \in DOMAIN disk : \A i \in DOMAIN disk[n] :
    disk[n][i].seq <= q => Settled(disk[n][i].from)

\* What a drain asks for and what a drainer may remove is at or below the
\* watermark.
DrainInv ==
  /\ \A i \in DOMAIN queue : queue[i].type = "drain" => queue[i].seq <= watermark
  /\ \A i \in DOMAIN batch : batch[i].type = "drain" => batch[i].seq <= watermark
  /\ \A d \in Drainers : \A n \in paths[d] : n \in DOMAIN disk =>
       \A i \in DOMAIN disk[n] : disk[n][i].seq <= watermark

\* Until the shard has recovered once, what the watermark covers is settled.
FirstRun == crashes = 0 \/ (crashes = 1 /\ pc = "down")
WatermarkInv == FirstRun => SettledUpTo(watermark) /\ (pc # "down" => watermark <= last_seq)

\* What holds until a frame is torn or a rotation fails.
CleanInv == FrameInv /\ FileInv /\ OutInv /\ DrainInv /\ WatermarkInv
CInv == CleanFaults => CleanInv

-----------------------------------------------------------------------------
(* Lemmas *)

\* Only harmless errors have happened when the state after an error is clean.
LEMMA FaultClean ==
  ASSUME TypeOK, NEW kind, Fault(kind), CleanFaults'
  PROVE  CleanFaults /\ kind \in {"write", "sync"}
<1>1. faults \in Seq(FaultKinds) /\ faults' = Append(faults, kind) /\ kind \in FaultKinds
  BY Zenon DEF TypeOK, Fault
<1>2. /\ DOMAIN faults = 1 .. Len(faults) /\ Len(faults) \in Nat
      /\ DOMAIN faults' = 1 .. Len(faults) + 1 /\ faults'[Len(faults) + 1] = kind
      /\ \A i \in DOMAIN faults : faults'[i] = faults[i]
  BY <1>1
<1>3. \A i \in DOMAIN faults' : faults'[i] \in {"write", "sync"}
  BY Zenon DEF CleanFaults, Range
<1>4. kind \in {"write", "sync"} /\ \A i \in DOMAIN faults : faults[i] \in {"write", "sync"}
  BY <1>2, <1>3
<1> QED BY <1>4, Zenon DEF CleanFaults, Range

\* The durable frames after a step, by their place in the file.
LEMMA DurableNext ==
  ASSUME TypeOK', NEW n \in DOMAIN disk'
  PROVE  Durable(n)' = {disk'[n][i] : i \in {j \in 1 .. synced'[n] : \A k \in 1 .. j : disk'[n][k].ok}}
<1>1. disk'[n] \in Seq(FrameType) /\ synced'[n] \in 0 .. Len(disk'[n])
  BY Zenon DEF TypeOK
<1>2. Durable(n)' = Readable(SubSeq(disk'[n], 1, synced'[n]))
  BY Zenon DEF Durable, Readable
<1> QED BY <1>1, <1>2, ReadablePrefix, Zenon

\* A file that keeps its synced frames keeps its durable ones.
LEMMA DurableKept ==
  ASSUME BInv, BInv', NEW n \in DOMAIN disk, n \in DOMAIN disk', synced[n] <= synced'[n],
         \A i \in 1 .. synced[n] : disk'[n][i] = disk[n][i]
  PROVE  Durable(n) \subseteq Durable(n)'
<1>1. synced[n] \in Nat /\ synced'[n] \in Nat
  <2>1. /\ synced[n] \in 0 .. Len(disk[n]) /\ disk[n] \in Seq(FrameType)
        /\ synced'[n] \in 0 .. Len(disk'[n]) /\ disk'[n] \in Seq(FrameType)
    BY Zenon DEF BInv, TypeOK
  <2> QED BY <2>1
<1>2. Durable(n) = {disk[n][i] : i \in {j \in 1 .. synced[n] : \A k \in 1 .. j : disk[n][k].ok}}
  BY DurableIs, Zenon DEF BInv
<1>3. Durable(n)' = {disk'[n][i] : i \in {j \in 1 .. synced'[n] : \A k \in 1 .. j : disk'[n][k].ok}}
  BY DurableNext, Zenon DEF BInv
<1> SUFFICES ASSUME NEW i \in 1 .. synced[n], \A k \in 1 .. i : disk[n][k].ok
             PROVE  disk[n][i] \in Durable(n)'
  BY <1>2, Zenon
<1>4. i \in 1 .. synced'[n] /\ \A k \in 1 .. i : disk'[n][k].ok
  BY <1>1
<1> QED BY <1>3, <1>4, Zenon

\* A file that stays as it is keeps its durable frames.
LEMMA DurableEqual ==
  ASSUME NEW n, disk'[n] = disk[n], synced'[n] = synced[n]
  PROVE  Durable(n)' = Durable(n)
<1>1. Durable(n) = Readable(SubSeq(disk[n], 1, synced[n]))
  BY Zenon DEF Durable
<1>2. Durable(n)' = Readable(SubSeq(disk'[n], 1, synced'[n]))
  BY Zenon DEF Durable, Readable
<1> QED BY <1>1, <1>2, Zenon

\* A step that leaves the files alone leaves the durable frames alone.
LEMMA DurableSame ==
  ASSUME UNCHANGED <<disk, synced>>
  PROVE  /\ \A n \in DOMAIN disk : Durable(n)' = Durable(n)
         /\ DurableEntries' = DurableEntries
<1>1. \A n \in DOMAIN disk : Durable(n)' = Durable(n)
  BY Zenon DEF Durable, Readable
<1> QED BY <1>1, Zenon DEF DurableEntries

\* The same of the state after a step.
SettledNext(c) == c \in released' \/ status'[c] \in {"err", "cut"}
SettledUpToNext(q) ==
  \A n \in DOMAIN disk' : \A i \in DOMAIN disk'[n] :
    disk'[n][i].seq <= q => SettledNext(disk'[n][i].from)

\* WatermarkInv after a step, written out.
LEMMA WatermarkPrimed ==
  ASSUME FirstRun' => SettledUpToNext(watermark') /\ (pc' # "down" => watermark' <= last_seq')
  PROVE  WatermarkInv'
BY Zenon DEF WatermarkInv, SettledUpTo, Settled, SettledUpToNext, SettledNext

\* The initial state satisfies the invariant.
LEMMA InitC == Init => CInv
<1> SUFFICES ASSUME Init PROVE CleanInv
  BY Zenon DEF CInv
<1> USE DEF Init
<1>1. FrameInv /\ OutInv
  BY DEF FrameInv, OutInv
<1>2. FileInv
  BY DEF FileInv
<1>3. DrainInv /\ WatermarkInv
  BY DEF DrainInv, WatermarkInv, SettledUpTo
<1> QED BY <1>1, <1>2, <1>3, Zenon DEF CleanInv

\* A caller puts its message into the channel.  A drain for a new snapshot settles
\* what the snapshot covers; another one asks for what an earlier one covered.
LEMMA SendC ==
  ASSUME BInv, CleanInv, NEW c \in Callers, NEW msg \in Message, msg.from = c, Send(c, msg),
         msg.type = "drain" => msg.seq <= watermark',
         \/ UNCHANGED <<released, watermark>>
         \/ /\ msg.seq <= last_seq
            /\ watermark' = IF msg.seq > watermark THEN msg.seq ELSE watermark
            /\ released' = released \cup
                 {f.from : f \in {g \in UNION {Durable(n) : n \in DOMAIN disk} : g.seq <= msg.seq}}
  PROVE  CleanInv'
<1> USE DEF Send, writerVars, diskVars
<1> DEFINE fresh == /\ msg.seq <= last_seq
                    /\ released' = released \cup
                         {f.from : f \in {g \in UNION {Durable(n) : n \in DOMAIN disk} : g.seq <= msg.seq}}
<1>0. /\ \A x \in Callers : status'[x] = IF x = c THEN "sent" ELSE status[x]
      /\ status[c] = "idle" /\ pc # "down" /\ released \subseteq released'
      /\ watermark' = watermark \/ (watermark' = msg.seq /\ fresh)
  BY Zenon DEF BInv, TypeOK
<1>1. \A x \in Callers : Settled(x) => SettledNext(x)
  BY <1>0, Zenon DEF Settled, SettledNext
<1>2. \A n \in DOMAIN disk : Durable(n)' = Durable(n)
  BY DurableSame, Zenon
<1>3. FrameInv'
  <2> SUFFICES ASSUME NEW n \in DOMAIN disk, NEW i \in DOMAIN disk[n]
               PROVE  \/ i <= synced[n] /\ disk[n][i] \in Durable(n)
                      \/ status'[disk[n][i].from] \in {"err", "cut"}
                      \/ /\ status'[disk[n][i].from] = "sent" /\ disk[n][i].seq > last_seq
                         /\ n = file /\ pc \in {"sync", "fail"}
                         /\ \E j \in DOMAIN batch : batch[j].from = disk[n][i].from
    BY <1>2 DEF FrameInv
  <2>1. disk[n][i].from \in Callers
    BY Typed, Zenon DEF BInv
  <2> QED BY <1>0, <2>1, Zenon DEF CleanInv, FrameInv
<1>4. FileInv'
  BY Zenon DEF CleanInv, FileInv
<1>5. OutInv'
  BY <1>0, <1>2 DEF CleanInv, OutInv, FileInv
<1>6. \A q : SettledUpTo(q) => SettledUpToNext(q)
  BY <1>1, Typed, Zenon DEF SettledUpTo, SettledUpToNext, BInv
<1>7. fresh => SettledUpToNext(msg.seq)
  <2> SUFFICES ASSUME fresh, NEW n \in DOMAIN disk, NEW i \in DOMAIN disk[n],
                      disk[n][i].seq <= msg.seq
               PROVE  SettledNext(disk[n][i].from)
    BY Zenon DEF SettledUpToNext
  <2>1. disk[n][i].from \in Callers /\ disk[n][i].seq \in Nat
    BY Typed, Zenon DEF BInv
  <2>2. msg.seq <= last_seq /\ msg.seq \in Nat /\ last_seq \in Nat
    BY Zenon DEF Message, BInv, TypeOK
  <2>3. CASE disk[n][i] \in Durable(n)
    <3>1. disk[n][i] \in {g \in UNION {Durable(m) : m \in DOMAIN disk} : g.seq <= msg.seq}
      BY <2>3, Zenon
    <3> QED BY <3>1, Zenon DEF SettledNext
  <2>4. CASE status[disk[n][i].from] \in {"err", "cut"}
    BY <1>1, <2>1, <2>4, Zenon DEF Settled
  <2>5. CASE disk[n][i].seq > last_seq
    BY <2>1, <2>2, <2>5
  <2> QED BY <2>3, <2>4, <2>5, Zenon DEF CleanInv, FrameInv
<1>8. DrainInv'
  <2>0. watermark \in Nat /\ watermark' \in Nat /\ watermark <= watermark'
    <3>1. watermark \in Nat /\ msg.seq \in Nat
      BY Zenon DEF BInv, TypeOK, Message
    <3> QED BY <3>1
  <2>1. /\ DOMAIN queue' = 1 .. Len(queue) + 1 /\ DOMAIN queue = 1 .. Len(queue) /\ Len(queue) \in Nat
        /\ \A i \in DOMAIN queue' : queue'[i] = IF i = Len(queue) + 1 THEN msg ELSE queue[i]
    BY DEF BInv, TypeOK
  <2>2. \A i \in DOMAIN queue : queue[i].type = "drain" => queue[i].seq <= watermark'
    BY <2>0, Typed DEF CleanInv, DrainInv, BInv
  <2>3. \A i \in DOMAIN batch : batch[i].type = "drain" => batch[i].seq <= watermark'
    BY <2>0, Typed DEF CleanInv, DrainInv, BInv
  <2>4. \A d \in Drainers : \A n \in paths[d] : n \in DOMAIN disk =>
          \A i \in DOMAIN disk[n] : disk[n][i].seq <= watermark'
    BY <2>0, Typed DEF CleanInv, DrainInv, BInv
  <2>5. \A i \in DOMAIN queue' : queue'[i].type = "drain" => queue'[i].seq <= watermark'
    BY <2>1, <2>2
  <2> QED BY <2>3, <2>4, <2>5, Zenon DEF DrainInv
<1>9. WatermarkInv'
  <2>5. FirstRun => SettledUpTo(watermark) /\ watermark <= last_seq
    BY <1>0, Zenon DEF CleanInv, WatermarkInv
  <2>6. FirstRun => SettledUpToNext(watermark') /\ watermark' <= last_seq
    <3>1. CASE watermark' = watermark
      BY <1>6, <2>5, <3>1, Zenon
    <3>2. CASE watermark' = msg.seq /\ fresh
      BY <1>7, <3>2, Zenon
    <3> QED BY <1>0, <3>1, <3>2, Zenon
  <2>7. FirstRun' <=> FirstRun
    BY Zenon DEF FirstRun
  <2> QED BY <2>6, <2>7, WatermarkPrimed, Zenon
<1> QED BY <1>3, <1>4, <1>5, <1>8, <1>9, Zenon DEF CleanInv

\* What is settled stays settled in a step that writes no frame, rotates nothing
\* and sends nothing.
LEMMA QuietC ==
  ASSUME BInv, BInv', CleanInv, FrameInv', OutInv', pc # "down", pc' # "down",
         UNCHANGED <<disk, file, current_segment, completed_segments, released, watermark,
                     crashes, paths>>,
         current_seq <= current_seq', last_seq <= last_seq',
         \A x \in Clients : status[x] \in {"err", "cut"} => status'[x] \in {"err", "cut"},
         \A i \in DOMAIN queue' : (\E j \in DOMAIN queue : queue'[i] = queue[j]),
         \A i \in DOMAIN batch' :
           \/ \E j \in DOMAIN queue : batch'[i] = queue[j]
           \/ \E j \in DOMAIN batch : batch'[i] = batch[j]
  PROVE  CleanInv'
<1>0. /\ current_seq \in Nat /\ current_seq' \in Nat /\ last_seq \in Nat /\ last_seq' \in Nat
      /\ watermark \in Nat
  BY Zenon DEF BInv, TypeOK
<1>1. \A x \in Clients : Settled(x) => SettledNext(x)
  BY Zenon DEF Settled, SettledNext
<1>2. \A q : SettledUpTo(q) => SettledUpToNext(q)
  BY <1>1, Typed, Zenon DEF SettledUpTo, SettledUpToNext, BInv
<1>3. FileInv'
  <2>1. \A i \in DOMAIN disk[file] : file \in DOMAIN disk =>
          disk[file][i].ok /\ disk[file][i].seq <= current_seq'
    BY <1>0, Typed DEF CleanInv, FileInv, BInv
  <2> QED BY <2>1, Zenon DEF CleanInv, FileInv
<1>4. DrainInv' /\ WatermarkInv'
  <2>1. \A i \in DOMAIN queue' : queue'[i].type = "drain" => queue'[i].seq <= watermark
    BY DEF CleanInv, DrainInv
  <2>2. \A i \in DOMAIN batch' : batch'[i].type = "drain" => batch'[i].seq <= watermark
    BY DEF CleanInv, DrainInv
  <2>3. DrainInv'
    BY <2>1, <2>2, Zenon DEF CleanInv, DrainInv
  <2>4. FirstRun' => SettledUpToNext(watermark) /\ watermark <= last_seq'
    <3> SUFFICES ASSUME crashes = 0 PROVE SettledUpToNext(watermark) /\ watermark <= last_seq'
      BY Zenon DEF FirstRun
    <3>1. SettledUpTo(watermark) /\ watermark <= last_seq
      BY Zenon DEF CleanInv, WatermarkInv, FirstRun
    <3> QED BY <1>0, <1>2, <3>1
  <2> QED BY <2>3, <2>4, WatermarkPrimed, Zenon
<1> QED BY <1>3, <1>4, Zenon DEF CleanInv

\* A drainer removes a file it was given.
LEMMA RemoveC ==
  ASSUME BInv, BInv', CleanInv, NEW d \in Drainers, NEW n \in paths[d], RemoveFile(d, n)
  PROVE  CleanInv'
<1> USE DEF RemoveFile, taskVars, writerVars
<1>0. /\ DOMAIN disk' = DOMAIN disk \ {n} /\ DOMAIN synced' = DOMAIN disk \ {n}
      /\ \A m \in DOMAIN disk' : disk'[m] = disk[m] /\ synced'[m] = synced[m]
  BY Zenon DEF BInv, TypeOK
<1>1. n # file /\ n < file /\ pc # "down"
  <2>1. n \in Nat /\ file \in Nat /\ n < file /\ pc # "down"
    BY Zenon DEF CleanInv, FileInv, BInv, TypeOK
  <2> QED BY <2>1
<1>2. \A m \in DOMAIN disk' : Durable(m)' = Durable(m)
  BY <1>0, DurableEqual, Zenon
<1>3. FrameInv'
  BY <1>0, <1>2 DEF CleanInv, FrameInv
<1>4. \A e \in Drainers : paths'[e] \subseteq paths[e]
  BY Zenon DEF BInv, TypeOK
<1>5. FileInv'
  BY <1>0, <1>1, <1>4, Zenon DEF CleanInv, FileInv
<1>6. OutInv'
  <2>1. file \in DOMAIN disk /\ file \in DOMAIN disk'
    BY <1>0, <1>1, Zenon DEF CleanInv, FileInv
  <2> QED BY <1>0, <1>1, <1>2, <2>1, Zenon DEF CleanInv, OutInv
<1>7. DrainInv' /\ WatermarkInv'
  <2>1. \A q : SettledUpTo(q) => SettledUpToNext(q)
    BY <1>0, Zenon DEF SettledUpTo, SettledUpToNext, Settled, SettledNext
  <2>2. DrainInv'
    BY <1>0, <1>4, Zenon DEF CleanInv, DrainInv
  <2>3. FirstRun' => SettledUpToNext(watermark) /\ watermark <= last_seq
    BY <1>1, <2>1, Zenon DEF CleanInv, WatermarkInv, FirstRun
  <2> QED BY <2>2, <2>3, WatermarkPrimed, Zenon
<1> QED BY <1>3, <1>5, <1>6, <1>7, Zenon DEF CleanInv

\* The callers' steps.
LEMMA CallerC ==
  ASSUME BInv, BInv', CleanInv, Caller
  PROVE  CleanInv'
<1>1. ASSUME NEW c \in Clients, SendAppend(c) PROVE CleanInv'
  <2> DEFINE msg == [type |-> "append", from |-> c, seq |-> 0]
  <2>1. c \in Callers /\ msg \in Message /\ msg.from = c /\ msg.type # "drain"
    BY Zenon DEF Message, Callers
  <2>2. Send(c, msg) /\ UNCHANGED <<released, watermark>>
    BY <1>1, Zenon DEF SendAppend
  <2> HIDE DEF msg
  <2> QED BY <2>1, <2>2, SendC, Zenon
<1>2. ASSUME NEW c \in Rotators, SendRotate(c) PROVE CleanInv'
  <2> DEFINE msg == [type |-> "rotate", from |-> c, seq |-> 0]
  <2>1. c \in Callers /\ msg \in Message /\ msg.from = c /\ msg.type # "drain"
    BY Zenon DEF Message, Callers
  <2>2. Send(c, msg) /\ UNCHANGED <<released, watermark>>
    BY <1>2, Zenon DEF SendRotate
  <2> HIDE DEF msg
  <2> QED BY <2>1, <2>2, SendC, Zenon
<1>3. ASSUME NEW d \in Drainers, NEW q \in {watermark} \cup 1 .. last_seq, SendDrain(d, q)
      PROVE  CleanInv'
  <2> DEFINE msg == [type |-> "drain", from |-> d, seq |-> q]
             snapshot == /\ q <= last_seq
                         /\ watermark' = IF q > watermark THEN q ELSE watermark
                         /\ released' = released \cup
                              {f.from : f \in {g \in UNION {Durable(n) : n \in DOMAIN disk} : g.seq <= q}}
  <2>0. q \in Nat /\ watermark \in Nat /\ (q \in 1 .. last_seq => q <= last_seq)
    <3>1. watermark \in Nat /\ last_seq \in Nat
      BY Zenon DEF BInv, TypeOK
    <3> QED BY <3>1
  <2>1. d \in Callers /\ msg \in Message /\ msg.from = d /\ msg.type = "drain" /\ msg.seq = q
    BY <2>0, Zenon DEF Message, Callers
  <2>2. Send(d, msg) /\ ((q = watermark /\ UNCHANGED <<released, watermark>>) \/ snapshot)
    BY <1>3, <2>0, Zenon DEF SendDrain
  <2> HIDE DEF msg
  <2>3. q <= watermark'
    BY <2>0, <2>2
  <2> QED BY <2>1, <2>2, <2>3, SendC, Zenon
<1> QED BY <1>1, <1>2, <1>3, RemoveC, Zenon DEF Caller

\* The steps of the task that write nothing.
LEMMA TakeC ==
  ASSUME BInv, BInv', CleanInv, TaskRecv \/ TaskCollect
  PROVE  CleanInv'
<1> USE DEF callerVars, writerVars, diskVars
<1>1. /\ queue # <<>> /\ queue' = Tail(queue) /\ pc \in {"recv", "collect"} /\ pc' = "collect"
      /\ batch' = <<Head(queue)>> \/ batch' = Append(batch, Head(queue))
      /\ UNCHANGED <<callerVars, out, last_seq, writerVars, diskVars, released, watermark,
                     faults, crashes>>
  BY Zenon DEF TaskRecv, TaskCollect
<1>2. /\ \A i \in DOMAIN queue' : \E j \in DOMAIN queue : queue'[i] = queue[j]
      /\ Head(queue) = queue[1] /\ 1 \in DOMAIN queue
  <2>1. queue \in Seq(Message)
    BY Zenon DEF BInv, TypeOK
  <2>2. \A i \in DOMAIN Tail(queue) : i + 1 \in DOMAIN queue /\ Tail(queue)[i] = queue[i + 1]
    BY <1>1, <2>1
  <2> QED BY <1>1, <2>1, <2>2
<1>3. \A i \in DOMAIN batch' : \/ \E j \in DOMAIN queue : batch'[i] = queue[j]
                               \/ \E j \in DOMAIN batch : batch'[i] = batch[j]
  <2>1. batch \in Seq(Message) /\ Head(queue) \in Message
    BY <1>1 DEF BInv, TypeOK
  <2>2. CASE batch' = <<Head(queue)>>
    BY <1>2, <2>1, <2>2
  <2>3. CASE batch' = Append(batch, Head(queue))
    <3>1. \A i \in DOMAIN batch' : batch'[i] = Head(queue) \/ (i \in DOMAIN batch /\ batch'[i] = batch[i])
      BY <2>1, <2>3
    <3> QED BY <1>2, <3>1, Zenon
  <2> QED BY <1>1, <2>2, <2>3, Zenon
<1>4. FrameInv'
  BY <1>1, DurableSame, Zenon DEF CleanInv, FrameInv
<1>5. OutInv'
  BY <1>1, Zenon DEF OutInv
<1>6. current_seq <= current_seq' /\ last_seq <= last_seq'
  BY <1>1 DEF BInv, TypeOK
<1> QED BY <1>1, <1>2, <1>3, <1>4, <1>5, <1>6, QuietC, Zenon

\* Numbering a batch, answering its drains and rotating answer no append.
LEMMA ClientsWait ==
  ASSUME BInv, TaskGather \/ TaskDrain \/ TaskExplicit
  PROVE  \A x \in Clients : status'[x] = status[x]
<1>1. \A t \in {"rotate", "drain"} :
        /\ OfType(batch, t) \in Seq(Message)
        /\ \A k \in DOMAIN OfType(batch, t) :
             OfType(batch, t)[k].from \in IF t = "drain" THEN Drainers ELSE Rotators
  <2>1. batch \in Seq(Message)
    BY Zenon DEF BInv, TypeOK
  <2>2. \A t \in {"rotate", "drain"} : \A k \in DOMAIN OfType(batch, t) : \E i \in DOMAIN batch :
          OfType(batch, t)[k] = batch[i] /\ batch[i].type = t
    BY <2>1, OfTypeFacts, Zenon
  <2>3. \A i \in DOMAIN batch : Sender(batch[i])
    BY Zenon DEF BInv, CallInv
  <2> QED BY <2>1, <2>2, <2>3, OfTypeFacts DEF Sender
<1> DEFINE rotates == OfType(batch, "rotate")
           drains == OfType(batch, "drain")
<1>2. /\ rotates \in Seq(Message) /\ \A k \in DOMAIN rotates : rotates[k].from \in Rotators
      /\ \A m \in Range(drains) : m.from \in Drainers
  BY <1>1, Zenon DEF Range
<1>3. \E S \in SUBSET (Rotators \cup Drainers), result \in {"ok", "err"} : Answer(S, result) \/ status' = status
  <2>1. CASE TaskGather
    <3>1. From(Tail(rotates)) \subseteq Rotators \/ rotates = <<>>
      <4> SUFFICES ASSUME rotates # <<>>, NEW k \in DOMAIN Tail(rotates)
                   PROVE  Tail(rotates)[k].from \in Rotators
        BY Zenon DEF From, Range
      <4> HIDE DEF rotates
      <4>1. k + 1 \in DOMAIN rotates /\ Tail(rotates)[k] = rotates[k + 1]
        BY <1>2
      <4> QED BY <1>2, <4>1, Zenon
    <3>2. Answer(IF rotates = <<>> THEN {} ELSE From(Tail(rotates)), "err")
      BY <2>1, Zenon DEF TaskGather
    <3> HIDE DEF rotates
    <3> QED BY <3>1, <3>2, Zenon
  <2>2. CASE TaskDrain
    <3>1. Answer({m.from : m \in Range(drains)}, "ok")
      BY <2>2, Zenon DEF TaskDrain
    <3> HIDE DEF drains
    <3>2. {m.from : m \in Range(drains)} \in SUBSET (Rotators \cup Drainers)
      BY <1>2, Zenon
    <3> QED BY <3>1, <3>2, Zenon
  <2>3. CASE TaskExplicit
    <3>1. \/ status' = status
          \/ rotates # <<>> /\ \E result \in {"ok", "err"} : Answer({Head(rotates).from}, result)
      BY <2>3, Zenon DEF TaskExplicit
    <3> HIDE DEF rotates
    <3>2. rotates # <<>> => Head(rotates) = rotates[1] /\ 1 \in DOMAIN rotates
      BY <1>2
    <3>3. rotates # <<>> => {Head(rotates).from} \in SUBSET (Rotators \cup Drainers)
      BY <1>2, <3>2, Zenon
    <3> QED BY <3>1, <3>3, Zenon
  <2> QED BY <2>1, <2>2, <2>3, Zenon
<1> HIDE DEF rotates, drains
<1> QED BY <1>3, CallersAssumption, Zenon DEF Answer, Callers

\* Numbering a batch settles nothing and writes nothing.
LEMMA GatherC ==
  ASSUME BInv, BInv', CleanInv, TaskGather
  PROVE  CleanInv'
<1>1. /\ pc = "collect" /\ pc' \in {"rotate", "write"} /\ (pc' = "rotate" => out' = <<>>)
      /\ UNCHANGED <<got, paths, queue, batch, last_seq, current_size, current_segment, file,
                     completed_segments, disk, synced, released, watermark, faults, crashes>>
  BY Zenon DEF TaskGather, diskVars
<1>2. current_seq <= current_seq'
  <2>1. current_seq' = current_seq + Len(out')
    BY Zenon DEF TaskGather
  <2>2. Len(out') \in Nat /\ current_seq \in Nat
    <3>1. out' \in Seq(FrameType) /\ current_seq \in Nat
      BY Zenon DEF BInv, TypeOK
    <3> QED BY <3>1
  <2> QED BY <2>1, <2>2
<1>3. \A x \in Clients : status'[x] = status[x]
  BY ClientsWait, Zenon
<1>4. FrameInv'
  <2>1. \A n \in DOMAIN disk : \A i \in DOMAIN disk[n] :
          status'[disk[n][i].from] = status[disk[n][i].from]
    BY <1>3, Typed, Zenon DEF BInv
  <2>2. \A n \in DOMAIN disk : Durable(n)' = Durable(n)
    BY <1>1, DurableSame, Zenon
  <2>3. \A n \in DOMAIN disk : \A i \in DOMAIN disk[n] :
          \/ i <= synced[n] /\ disk[n][i] \in Durable(n)
          \/ status[disk[n][i].from] \in {"err", "cut"}
    BY <1>1, Zenon DEF CleanInv, FrameInv
  <2>4. \A n \in DOMAIN disk : \A i \in DOMAIN disk[n] :
          \/ i <= synced[n] /\ disk[n][i] \in Durable(n)'
          \/ status'[disk[n][i].from] \in {"err", "cut"}
    BY <2>1, <2>2, <2>3, Zenon
  <2>5. UNCHANGED <<disk, synced>>
    BY <1>1, Zenon
  <2> QED BY <2>4, <2>5 DEF FrameInv
<1>5. OutInv'
  BY <1>1 DEF OutInv
<1>6. last_seq <= last_seq'
  <2>1. last_seq \in Nat /\ last_seq' = last_seq
    BY <1>1, Zenon DEF BInv, TypeOK
  <2> QED BY <2>1
<1> QED BY <1>1, <1>2, <1>3, <1>4, <1>5, <1>6, QuietC, Zenon

\* Whole frames of the batch are written behind what the open file holds.
LEMMA WriteC ==
  ASSUME BInv, BInv', CleanInv, pc = "write", pc' \in {"sync", "fail"},
         NEW fs \in Seq(FrameType), Len(fs) <= Len(out), \A i \in DOMAIN fs : fs[i] = out[i],
         pc' = "sync" => fs = out, WriteTo(fs),
         UNCHANGED <<callerVars, queue, batch, out, last_seq, writerVars, synced,
                     released, watermark, crashes>>
  PROVE  CleanInv'
<1> USE DEF callerVars, writerVars
<1>1. /\ file \in DOMAIN disk /\ DOMAIN disk' = DOMAIN disk /\ disk'[file] = disk[file] \o fs
      /\ \A n \in DOMAIN disk : n # file => disk'[n] = disk[n]
  BY Zenon DEF WriteTo, CleanInv, FileInv
<1>2. Written(disk[file], disk'[file], fs, out)
  <2>1. disk[file] \in Seq(FrameType) /\ out \in Seq(FrameType)
    BY <1>1, Zenon DEF BInv, TypeOK
  <2> QED BY <1>1, <2>1, WrittenFrames, Zenon
<1>3. \A k \in DOMAIN out :
        /\ out[k].seq > last_seq /\ out[k].seq <= current_seq /\ out[k].ok
        /\ status[out[k].from] = "sent" /\ \E j \in DOMAIN batch : batch[j].from = out[k].from
        /\ out[k].seq \in Nat
  <2>1. pc \in Writing /\ pc \in Writing \ {"reply"}
    BY DEF Writing
  <2> QED BY <2>1, OutFacts, Zenon DEF BInv, CallInv
<1>4. \A i \in DOMAIN disk'[file] : \/ i \in DOMAIN disk[file] /\ disk'[file][i] = disk[file][i]
                                    \/ \E k \in DOMAIN out : disk'[file][i] = out[k]
  BY <1>2, Zenon DEF Written
<1>5. \A n \in DOMAIN disk : \A i \in DOMAIN disk'[n] :
        \/ i \in DOMAIN disk[n] /\ disk'[n][i] = disk[n][i]
        \/ n = file /\ \E k \in DOMAIN out : disk'[n][i] = out[k]
  <2> SUFFICES ASSUME NEW n \in DOMAIN disk, NEW i \in DOMAIN disk'[n]
               PROVE  \/ i \in DOMAIN disk[n] /\ disk'[n][i] = disk[n][i]
                      \/ n = file /\ \E k \in DOMAIN out : disk'[n][i] = out[k]
    BY Zenon
  <2>1. CASE n = file
    BY <1>4, <2>1, Zenon
  <2> QED BY <1>1, <2>1, Zenon
<1>6. \A n \in DOMAIN disk : Durable(n) \subseteq Durable(n)'
  <2> SUFFICES ASSUME NEW n \in DOMAIN disk PROVE Durable(n) \subseteq Durable(n)'
    BY Zenon
  <2>1. synced[n] \in Nat /\ synced[n] <= Len(disk[n]) /\ Len(disk[n]) \in Nat
    BY Typed, Zenon DEF BInv
  <2>2. \A i \in 1 .. synced[n] : disk'[n][i] = disk[n][i]
    <3>1. CASE n = file
      BY <1>2, <2>1, <3>1, Zenon DEF Written
    <3> QED BY <1>1, <3>1, Zenon
  <2>3. synced[n] <= synced'[n]
    BY <2>1
  <2> QED BY <1>1, <2>2, <2>3, DurableKept, Zenon
<1>7. FrameInv'
  <2> SUFFICES ASSUME NEW n \in DOMAIN disk, NEW i \in DOMAIN disk'[n]
               PROVE  \/ i <= synced[n] /\ disk'[n][i] \in Durable(n)'
                      \/ status[disk'[n][i].from] \in {"err", "cut"}
                      \/ /\ status[disk'[n][i].from] = "sent" /\ disk'[n][i].seq > last_seq
                         /\ n = file /\ pc' \in {"sync", "fail"}
                         /\ \E j \in DOMAIN batch : batch[j].from = disk'[n][i].from
    <3>1. DOMAIN disk' = DOMAIN disk /\ UNCHANGED <<synced, status, last_seq, file, batch>>
      BY <1>1, Zenon
    <3> QED BY <3>1 DEF FrameInv
  <2>1. CASE i \in DOMAIN disk[n] /\ disk'[n][i] = disk[n][i]
    <3>1. \/ i <= synced[n] /\ disk[n][i] \in Durable(n)
          \/ status[disk[n][i].from] \in {"err", "cut"}
      BY <2>1, Zenon DEF CleanInv, FrameInv
    <3> QED BY <1>6, <2>1, <3>1, Zenon
  <2>2. CASE n = file /\ \E k \in DOMAIN out : disk'[n][i] = out[k]
    <3>1. PICK k \in DOMAIN out : disk'[n][i] = out[k]
      BY <2>2, Zenon
    <3>2. /\ out[k].seq > last_seq /\ status[out[k].from] = "sent"
          /\ \E j \in DOMAIN batch : batch[j].from = out[k].from
      BY <1>3, Zenon
    <3> QED BY <2>2, <3>1, <3>2
  <2> QED BY <1>5, <2>1, <2>2, Zenon
<1>8. FileInv'
  <2>1. \A i \in DOMAIN disk'[file] : disk'[file][i].ok /\ disk'[file][i].seq <= current_seq
    BY <1>3, <1>4, Zenon DEF CleanInv, FileInv
  <2>2. \A c \in completed_segments : c.seg < file /\ c.seg # file
    <3>1. /\ file \in Nat /\ completed_segments \subseteq [seg : Nat, max_seq : Nat \cup {U64MAX}]
          /\ \A c \in completed_segments : c.seg < file
      BY Zenon DEF CleanInv, FileInv, BInv, TypeOK
    <3> QED BY <3>1
  <2> QED BY <1>1, <2>1, <2>2, Zenon DEF CleanInv, FileInv
<1>9. OutInv'
  <2>1. pc' = "sync" => \A i \in DOMAIN out : \E k \in DOMAIN disk'[file] : disk'[file][k] = out[i]
    BY <1>2, Zenon DEF Written
  <2> QED BY <2>1, Zenon DEF OutInv
<1>10. DrainInv' /\ WatermarkInv'
  <2>1. \A q \in Nat : SettledUpTo(q) /\ q <= last_seq => SettledUpToNext(q)
    <3> SUFFICES ASSUME NEW q \in Nat, SettledUpTo(q), q <= last_seq, NEW n \in DOMAIN disk,
                        NEW i \in DOMAIN disk'[n], disk'[n][i].seq <= q
                 PROVE  SettledNext(disk'[n][i].from)
      BY <1>1, Zenon DEF SettledUpToNext
    <3>1. CASE i \in DOMAIN disk[n] /\ disk'[n][i] = disk[n][i]
      BY <3>1, Zenon DEF SettledUpTo, Settled, SettledNext
    <3>2. ASSUME NEW k \in DOMAIN out, disk'[n][i] = out[k] PROVE FALSE
      <4>1. last_seq \in Nat
        BY Zenon DEF BInv, TypeOK
      <4> QED BY <1>3, <3>2, <4>1
    <3> QED BY <1>5, <3>1, <3>2, Zenon
  <2>2. DrainInv'
    <3>1. \A d \in Drainers : \A n \in paths[d] : n # file
      <4>1. /\ file \in Nat /\ paths \in [Drainers -> SUBSET Nat]
            /\ \A d \in Drainers : \A n \in paths[d] : n < file
        BY Zenon DEF CleanInv, FileInv, BInv, TypeOK
      <4> QED BY <4>1
    <3> QED BY <1>1, <3>1, Zenon DEF CleanInv, DrainInv
  <2>5. FirstRun' => SettledUpToNext(watermark) /\ watermark <= last_seq
    <3>1. FirstRun' => FirstRun /\ watermark \in Nat
      BY Zenon DEF FirstRun, BInv, TypeOK
    <3> QED BY <2>1, <3>1, Zenon DEF CleanInv, WatermarkInv
  <2> QED BY <2>2, <2>5, WatermarkPrimed, Zenon
<1> QED BY <1>7, <1>8, <1>9, <1>10, Zenon DEF CleanInv

\* write_all, whole or cut at a frame boundary.
LEMMA WritesC ==
  ASSUME BInv, BInv', CleanInv, CleanFaults', TaskWrite \/ TaskWriteFail
  PROVE  CleanInv'
<1>1. out \in Seq(FrameType) /\ Len(out) \in Nat /\ DOMAIN out = 1 .. Len(out) /\ Len(out) <= Len(out)
  BY DEF BInv, TypeOK
<1>2. CASE TaskWrite
  <2>1. /\ pc = "write" /\ pc' = "sync" /\ WriteTo(out)
        /\ UNCHANGED <<callerVars, queue, batch, out, last_seq, writerVars, synced,
                       released, watermark, crashes>>
    BY <1>2, Zenon DEF TaskWrite
  <2> QED BY <1>1, <2>1, WriteC, Zenon
<1>3. CASE TaskWriteFail
  <2>1. ~Fault("torn")
    BY FaultClean DEF BInv
  <2>2. PICK k \in 0 .. Len(out) - 1 : WriteTo(SubSeq(out, 1, k))
    BY <1>3, <2>1, Zenon DEF TaskWriteFail
  <2> DEFINE s == SubSeq(out, 1, k)
  <2>3. s \in Seq(FrameType) /\ Len(s) <= Len(out) /\ \A i \in DOMAIN s : s[i] = out[i]
    BY <1>1
  <2>4. /\ pc = "write" /\ pc' = "fail" /\ WriteTo(s)
        /\ UNCHANGED <<callerVars, queue, batch, out, last_seq, writerVars, synced,
                       released, watermark, crashes>>
    BY <1>3, <2>2, Zenon DEF TaskWriteFail
  <2> HIDE DEF s
  <2> QED BY <2>3, <2>4, WriteC, Zenon
<1> QED BY <1>2, <1>3, Zenon

=============================================================================
