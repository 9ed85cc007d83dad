---------------------------- MODULE IndexSnapshot ----------------------------
(***************************************************************************)
(* save_index and its callers: the snapshot ticker and the Snapshot RPC,   *)
(* which share one `.tmp' name, the sweep that registers flushes and lets  *)
(* the WAL delete what a snapshot covers, and RPC handlers that are        *)
(* dropped while tokio's blocking threads go on with the file operation.   *)
(*                                                                         *)
(* One shard.  Flush number n makes the points of WAL position n part of   *)
(* the index, so an index is the number of its last flush.  The properties *)
(* say what load_index would find if the process stopped at this moment.   *)
(***************************************************************************)
EXTENDS Naturals

CONSTANTS Ticker,     \* the snapshot task
          Rpcs,       \* Snapshot RPC handlers
          Inodes,     \* files the directory may hold
          Absent,     \* no file under a name
          MaxFlushes  \* bound: flushes

Savers == {Ticker} \cup Rpcs

ASSUME SnapshotAssumption == Absent \notin Inodes /\ Ticker \notin Rpcs /\ MaxFlushes \in Nat

VARIABLES
  \* the sweep
  index, watermark, sweep_pc, gc_bound,
  persisted,   \* persisted_watermarks
  gc,          \* the WAL is deleted up to this position
  \* each save
  pc, watermarks, snap, fd,
  cut,         \* handlers that were dropped while a blocking thread works for them
  \* the directory
  tmp, main, content,
  overlapped   \* observation only: two saves had the .tmp file in use at once

sweepVars == <<index, watermark, sweep_pc, gc_bound, gc>>
fileVars == <<tmp, main, content>>
saveVars == <<pc, watermarks, snap, fd, cut>>
vars == <<sweepVars, persisted, saveVars, fileVars, overlapped>>

Torn == [whole |-> FALSE, index |-> 0, watermark |-> 0]
Whole(i, w) == [whole |-> TRUE, index |-> i, watermark |-> w]

\* load_index: an absent or undecodable file is an empty index.
load_index == IF main = Absent THEN Torn ELSE content[main]

Init ==
  /\ index = 0 /\ watermark = 0 /\ sweep_pc = "flush" /\ gc_bound = 0
  /\ persisted = 0 /\ gc = 0
  /\ pc = [s \in Savers |-> "idle"] /\ watermarks = [s \in Savers |-> 0]
  /\ snap = [s \in Savers |-> Torn] /\ fd = [s \in Savers |-> Absent] /\ cut = {}
  /\ tmp = Absent /\ main = Absent /\ content = [i \in Inodes |-> Torn]
  /\ overlapped = FALSE

-----------------------------------------------------------------------------
(* The sweep *)

\* Saves that hold the index's read lock: a dropped handler has lost its guard.
Readers == {s \in Savers \ cut : pc[s] \in {"create", "write", "rename", "publish"}}

\* Mutant: a flush registers without the write lock.
Register_NoLock ==
  /\ sweep_pc = "flush" /\ index < MaxFlushes
  /\ index' = index + 1 /\ sweep_pc' = "store"
  /\ UNCHANGED <<watermark, gc_bound, gc, persisted, saveVars, fileVars, overlapped>>

Register ==
  /\ sweep_pc = "flush" /\ index < MaxFlushes /\ Readers = {}
  /\ index' = index + 1 /\ sweep_pc' = "store"
  /\ UNCHANGED <<watermark, gc_bound, gc, persisted, saveVars, fileVars, overlapped>>

StoreWatermark ==
  /\ sweep_pc = "store"
  /\ watermark' = index /\ sweep_pc' = "load"
  /\ UNCHANGED <<index, gc_bound, gc, persisted, saveVars, fileVars, overlapped>>

LoadPersisted ==
  /\ sweep_pc = "load"
  /\ gc_bound' = persisted /\ sweep_pc' = "gc"
  /\ UNCHANGED <<index, watermark, gc, persisted, saveVars, fileVars, overlapped>>

\* drain_completed_before, and the deletion of what it returns
CollectWal ==
  /\ sweep_pc = "gc"
  /\ gc' = IF gc_bound > gc THEN gc_bound ELSE gc
  /\ sweep_pc' = "flush"
  /\ UNCHANGED <<index, watermark, gc_bound, persisted, saveVars, fileVars, overlapped>>

-----------------------------------------------------------------------------
(* A save, by the ticker or an RPC *)

LoadWatermarks(s) ==
  /\ pc[s] = "idle"
  /\ watermarks' = [watermarks EXCEPT ![s] = watermark]
  /\ pc' = [pc EXCEPT ![s] = "lock"]
  /\ UNCHANGED <<sweepVars, persisted, snap, fd, cut, fileVars, overlapped>>

\* The read lock, and the serialization of the index
Serialize(s) ==
  /\ pc[s] = "lock"
  /\ snap' = [snap EXCEPT ![s] = Whole(index, watermarks[s])]
  /\ pc' = [pc EXCEPT ![s] = "create"]
  /\ UNCHANGED <<sweepVars, persisted, watermarks, fd, cut, fileVars, overlapped>>

\* Mutant: the snapshot file itself is truncated and written.
CreateTmp_InPlace(s) ==
  /\ pc[s] = "create"
  /\ \E i \in Inodes :
       /\ i = main \/ (main = Absent /\ tmp # i /\ \A o \in Savers : fd[o] # i)
       /\ main' = i /\ content' = [content EXCEPT ![i] = Torn]
       /\ fd' = [fd EXCEPT ![s] = i]
  /\ overlapped' = (overlapped \/ \E o \in Savers \ {s} : pc[o] \in {"write", "rename"})
  /\ pc' = [pc EXCEPT ![s] = "write"]
  /\ UNCHANGED <<sweepVars, persisted, watermarks, snap, cut, tmp>>

\* fs::write: open the .tmp file, new or truncated, ...
CreateTmp(s) ==
  /\ pc[s] = "create"
  /\ \E i \in Inodes :
       /\ i = tmp \/ (tmp = Absent /\ main # i /\ \A o \in Savers : fd[o] # i)
       /\ tmp' = i /\ content' = [content EXCEPT ![i] = Torn]
       /\ fd' = [fd EXCEPT ![s] = i]
  /\ overlapped' = (overlapped \/ \E o \in Savers \ {s} : pc[o] \in {"write", "rename"})
  /\ pc' = [pc EXCEPT ![s] = "write"]
  /\ UNCHANGED <<sweepVars, persisted, watermarks, snap, cut, main>>

\* The end of a save: its guard, its descriptor and its locals go.
Finish(s) ==
  /\ pc' = [pc EXCEPT ![s] = "idle"]
  /\ watermarks' = [watermarks EXCEPT ![s] = 0] /\ snap' = [snap EXCEPT ![s] = Torn]
  /\ fd' = [fd EXCEPT ![s] = Absent] /\ cut' = cut \ {s}

\* ... and write it.  Bytes of an earlier, longer write behind these are not
\* read by load_index; those of a file that has lost its name are read by nobody.
\* Nobody awaits the write of a dropped handler.
WriteTmp(s) ==
  /\ pc[s] = "write"
  /\ content' = IF fd[s] \in {tmp, main} THEN [content EXCEPT ![fd[s]] = snap[s]] ELSE content
  /\ IF s \in cut THEN Finish(s)
     ELSE /\ pc' = [pc EXCEPT ![s] = "rename"]
          /\ fd' = [fd EXCEPT ![s] = Absent] /\ UNCHANGED <<watermarks, snap, cut>>
  /\ UNCHANGED <<sweepVars, persisted, tmp, main, overlapped>>

\* A write that fails leaves the .tmp file undecodable.
WriteFail(s) ==
  /\ pc[s] = "write" /\ Finish(s)
  /\ UNCHANGED <<sweepVars, persisted, fileVars, overlapped>>

\* Mutant: the snapshot is linked under its name, and .tmp stays.
RenameTmp_Links(s) ==
  /\ pc[s] = "rename" /\ tmp # Absent
  /\ main' = tmp
  /\ content' = [i \in Inodes |-> IF i = main THEN Torn ELSE content[i]]
  /\ IF s \in cut THEN Finish(s)
     ELSE pc' = [pc EXCEPT ![s] = "publish"] /\ UNCHANGED <<watermarks, snap, fd, cut>>
  /\ UNCHANGED <<sweepVars, persisted, tmp, overlapped>>

\* rename replaces the snapshot file by whatever .tmp names now; the old file goes.
RenameTmp(s) ==
  /\ pc[s] = "rename" /\ tmp # Absent
  /\ main' = tmp /\ tmp' = Absent
  /\ content' = [i \in Inodes |-> IF i = main THEN Torn ELSE content[i]]
  /\ IF s \in cut THEN Finish(s)
     ELSE pc' = [pc EXCEPT ![s] = "publish"] /\ UNCHANGED <<watermarks, snap, fd, cut>>
  /\ UNCHANGED <<sweepVars, persisted, overlapped>>

\* Another save has renamed the file away, or rename fails otherwise.
RenameFail(s) ==
  /\ pc[s] = "rename" /\ Finish(s)
  /\ UNCHANGED <<sweepVars, persisted, fileVars, overlapped>>

Publish(s) ==
  /\ pc[s] = "publish"
  /\ persisted' = watermarks[s]
  /\ Finish(s)
  /\ UNCHANGED <<sweepVars, fileVars, overlapped>>

\* tonic drops the handler of a client that is gone.  A file operation handed to
\* a blocking thread is carried out all the same; what follows it is not.
Cut(s) ==
  /\ s \in Rpcs \ cut
  /\ \/ pc[s] \in {"lock", "rename", "publish"} /\ Finish(s)
     \/ /\ pc[s] \in {"create", "write", "rename"} /\ cut' = cut \cup {s}
        /\ UNCHANGED <<pc, watermarks, snap, fd>>
  /\ UNCHANGED <<sweepVars, persisted, fileVars, overlapped>>

-----------------------------------------------------------------------------
Sweep == Register \/ StoreWatermark \/ LoadPersisted \/ CollectWal

Saver(s) ==
  \/ LoadWatermarks(s) \/ Serialize(s) \/ CreateTmp(s) \/ WriteTmp(s) \/ WriteFail(s)
  \/ RenameTmp(s) \/ RenameFail(s) \/ Publish(s) \/ Cut(s)

Next == Sweep \/ \E s \in Savers : Saver(s)

Spec == Init /\ [][Next]_vars

-----------------------------------------------------------------------------
(* Properties *)

Snapshot == [whole : BOOLEAN, index : Nat, watermark : Nat]

\* Types; the names .tmp and the snapshot file never mean the same file.
TypeOK ==
  /\ index \in Nat /\ watermark \in Nat /\ gc_bound \in Nat /\ gc \in Nat /\ persisted \in Nat
  /\ sweep_pc \in {"flush", "store", "load", "gc"}
  /\ pc \in [Savers -> {"idle", "lock", "create", "write", "rename", "publish"}]
  /\ watermarks \in [Savers -> Nat] /\ snap \in [Savers -> Snapshot]
  /\ fd \in [Savers -> Inodes \cup {Absent}] /\ cut \subseteq Rpcs
  /\ \A s \in Savers : pc[s] = "write" => fd[s] \in Inodes
  /\ tmp \in Inodes \cup {Absent} /\ main \in Inodes \cup {Absent}
  /\ content \in [Inodes -> Snapshot]
  /\ tmp = main => tmp = Absent
  /\ overlapped \in BOOLEAN

\* Whatever WAL the sweep has deleted is in the index that load_index would
\* return now, in the middle of any save, after failed saves and with dropped
\* handlers still writing, unless two saves have used the .tmp file at once.
DeletedIsSavedUnlessOverlapped == overlapped \/ gc <= load_index.index

\* Until then save_index is atomic: the file goes from one whole snapshot to a
\* newer whole one, and persisted_watermarks stay within it.
Atomic == INSTANCE AtomicSnapshot WITH saved <- load_index.index
AtomicUntilOverlap == Atomic!Init /\ [][overlapped' \/ Atomic!Next]_(Atomic!vars)

\* README.md: "segments are never deleted before the index snapshot that covers
\* them is durable on disk", and persistence.rs: "atomically".  Violated: the
\* ticker and an RPC truncate and rename the same .tmp file.
DeletedIsSaved == gc <= load_index.index

=============================================================================
