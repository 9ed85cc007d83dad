------------------------- MODULE IndexSnapshotProofs -------------------------
(***************************************************************************)
(* save_index is atomic and nothing is deleted before it is saved, for any *)
(* number of RPCs, flushes and dropped handlers, until two saves use the   *)
(* .tmp file at once.                                                      *)
(***************************************************************************)
EXTENDS IndexSnapshot, TLAPS

Saved == load_index.index
Busy(s) == pc[s] \in {"write", "rename"}

\* What holds whether or not saves overlap: an index that was serialized is not
\* newer than the live one, and as new while its save holds the read lock.
LockInv ==
  /\ watermark <= index
  /\ \A i \in Inodes : content[i].index <= index
  /\ \A s \in Savers :
       /\ watermarks[s] <= watermark
       /\ snap[s].index <= index
       /\ pc[s] \in {"create", "write", "rename"} => watermarks[s] <= snap[s].index
       /\ s \notin cut /\ pc[s] \in {"create", "write", "rename"} => snap[s].index = index

\* While they do not: one save at most has the .tmp file, it is the one it wrote,
\* and renaming it does not bring back an older index.
FileInv ==
  /\ \A s, o \in Savers : Busy(s) /\ Busy(o) => s = o
  /\ \A s \in Savers :
       /\ pc[s] = "write" => fd[s] = tmp
       /\ pc[s] = "rename" => tmp # Absent /\ content[tmp] = snap[s] /\ Saved <= snap[s].index

\* ... and every position from which the WAL may be deleted is saved.
SavedInv ==
  /\ gc <= Saved /\ gc_bound <= Saved /\ persisted <= Saved
  /\ \A s \in Savers : pc[s] = "publish" => watermarks[s] <= Saved

IInv == TypeOK /\ LockInv /\ (overlapped \/ (FileInv /\ SavedInv))

-----------------------------------------------------------------------------
\* The initial state satisfies the invariant.
LEMMA InitIInv == Init => IInv
<1> SUFFICES ASSUME Init PROVE IInv  OBVIOUS
<1>1. TypeOK  BY SnapshotAssumption, Zenon DEF Init, TypeOK, Snapshot, Torn
<1>2. LockInv  BY DEF Init, LockInv, Torn
<1>3. FileInv  BY DEF Init, FileInv, Busy
<1>4. SavedInv  BY DEF Init, SavedInv, Saved, load_index, Torn
<1> QED  BY <1>1, <1>2, <1>3, <1>4 DEF IInv

\* Finish keeps the types of what it resets.
LEMMA FinishType ==
  ASSUME NEW s \in Savers, TypeOK, Finish(s)
  PROVE  /\ pc' \in [Savers -> {"idle", "lock", "create", "write", "rename", "publish"}]
         /\ watermarks' \in [Savers -> Nat] /\ snap' \in [Savers -> Snapshot]
         /\ fd' \in [Savers -> Inodes \cup {Absent}] /\ cut' \subseteq Rpcs
         /\ \A o \in Savers : pc'[o] = "write" => fd'[o] \in Inodes
BY DEF TypeOK, Finish, Snapshot, Torn

\* Every step keeps the types, and the two names apart.
LEMMA TypeStep == TypeOK /\ [Next]_vars => TypeOK'
<1> SUFFICES ASSUME TypeOK, [Next]_vars PROVE TypeOK'  OBVIOUS
<1> USE SnapshotAssumption
<1>1. CASE UNCHANGED vars
  BY <1>1 DEF TypeOK, vars, sweepVars, saveVars, fileVars
<1>2. CASE Sweep
  BY <1>2 DEF TypeOK, Sweep, Register, StoreWatermark, LoadPersisted, CollectWal, saveVars, fileVars
<1>3. ASSUME NEW s \in Savers, Saver(s) PROVE TypeOK'
  <2>1. CASE LoadWatermarks(s)
    BY <2>1 DEF TypeOK, LoadWatermarks, sweepVars, fileVars
  <2>2. CASE Serialize(s)
    BY <2>2 DEF TypeOK, Serialize, Snapshot, Whole, sweepVars, fileVars
  <2>3. CASE CreateTmp(s)
    BY <2>3 DEF TypeOK, CreateTmp, Snapshot, Torn, sweepVars
  <2>4. CASE WriteTmp(s)
    <3>1. content' \in [Inodes -> Snapshot]  BY <2>4 DEF TypeOK, WriteTmp
    <3>2. CASE s \in cut
      BY <2>4, <3>1, <3>2, FinishType DEF TypeOK, WriteTmp, sweepVars
    <3>3. CASE s \notin cut
      BY <2>4, <3>1, <3>3 DEF TypeOK, WriteTmp, sweepVars
    <3> QED  BY <3>2, <3>3
  <2>5. CASE WriteFail(s)
    BY <2>5, FinishType DEF TypeOK, WriteFail, sweepVars, fileVars
  <2>6. CASE RenameTmp(s)
    <3>1. content' \in [Inodes -> Snapshot]  BY <2>6 DEF TypeOK, RenameTmp, Snapshot, Torn
    <3>2. CASE s \in cut
      BY <2>6, <3>1, <3>2, FinishType DEF TypeOK, RenameTmp, sweepVars
    <3>3. CASE s \notin cut
      BY <2>6, <3>1, <3>3 DEF TypeOK, RenameTmp, sweepVars
    <3> QED  BY <3>2, <3>3
  <2>7. CASE RenameFail(s)
    BY <2>7, FinishType DEF TypeOK, RenameFail, sweepVars, fileVars
  <2>8. CASE Publish(s)
    BY <2>8, FinishType DEF TypeOK, Publish, sweepVars, fileVars
  <2>9. CASE Cut(s)
    BY <2>9, FinishType DEF TypeOK, Cut, sweepVars, fileVars
  <2> QED  BY <1>3, <2>1, <2>2, <2>3, <2>4, <2>5, <2>6, <2>7, <2>8, <2>9 DEF Saver
<1> QED  BY <1>1, <1>2, <1>3 DEF Next

\* Every step keeps LockInv: the sweep waits for the read locks.
LEMMA LockStep == TypeOK /\ LockInv /\ [Next]_vars => LockInv'
<1> SUFFICES ASSUME TypeOK, LockInv, [Next]_vars PROVE LockInv'  OBVIOUS
<1> USE SnapshotAssumption
<1>1. CASE UNCHANGED vars
  BY <1>1 DEF LockInv, vars, sweepVars, saveVars, fileVars
<1>2. CASE Register
  <2>1. \A s \in Savers : s \notin cut => pc[s] \notin {"create", "write", "rename"}
    BY <1>2 DEF Register, Readers
  <2> QED  BY <1>2, <2>1 DEF TypeOK, LockInv, Register, Snapshot, saveVars, fileVars
<1>3. CASE StoreWatermark \/ LoadPersisted \/ CollectWal
  BY <1>3 DEF TypeOK, LockInv, StoreWatermark, LoadPersisted, CollectWal, saveVars, fileVars
<1>4. ASSUME NEW s \in Savers, Saver(s) PROVE LockInv'
  <2>1. CASE LoadWatermarks(s)
    BY <2>1 DEF TypeOK, LockInv, LoadWatermarks, sweepVars, fileVars
  <2>2. CASE Serialize(s)
    BY <2>2 DEF TypeOK, LockInv, Serialize, Whole, sweepVars, fileVars
  <2>3. CASE CreateTmp(s)
    BY <2>3 DEF TypeOK, LockInv, CreateTmp, Torn, sweepVars
  <2>4. CASE WriteTmp(s)
    <3>1. \A i \in Inodes : content'[i].index <= index  BY <2>4 DEF TypeOK, LockInv, WriteTmp
    <3> QED  BY <2>4, <3>1 DEF TypeOK, LockInv, WriteTmp, Finish, Torn, sweepVars
  <2>5. CASE WriteFail(s) \/ RenameFail(s) \/ Publish(s) \/ Cut(s)
    BY <2>5 DEF TypeOK, LockInv, WriteFail, RenameFail, Publish, Cut, Finish, Torn, sweepVars, fileVars
  <2>6. CASE RenameTmp(s)
    <3>1. \A i \in Inodes : content'[i].index <= index  BY <2>6 DEF TypeOK, LockInv, RenameTmp, Torn
    <3> QED  BY <2>6, <3>1 DEF TypeOK, LockInv, RenameTmp, Finish, Torn, sweepVars
  <2> QED  BY <1>4, <2>1, <2>2, <2>3, <2>4, <2>5, <2>6 DEF Saver
<1> QED  BY <1>1, <1>2, <1>3, <1>4 DEF Next, Sweep

\* Only a rename changes what load_index returns, and it never goes back.
LEMMA SavedStep ==
  ASSUME TypeOK, LockInv, FileInv, [Next]_vars, ~overlapped'
  PROVE  /\ Saved' \in Nat /\ Saved' >= Saved
         /\ Saved' = Saved \/ \E s \in Savers : RenameTmp(s)
<1> USE SnapshotAssumption
<1>0. Saved \in Nat  BY DEF TypeOK, Saved, load_index, Snapshot, Torn
<1>1. CASE UNCHANGED fileVars
  BY <1>0, <1>1 DEF Saved, load_index, fileVars
<1>2. ASSUME NEW s \in Savers, CreateTmp(s) PROVE Saved' = Saved
  BY <1>2 DEF CreateTmp, TypeOK, Saved, load_index
<1>3. ASSUME NEW s \in Savers, WriteTmp(s) PROVE Saved' = Saved
  <2>1. fd[s] = tmp /\ fd[s] # main  BY <1>3 DEF WriteTmp, TypeOK, FileInv
  <2> QED  BY <1>3, <2>1 DEF WriteTmp, TypeOK, Saved, load_index
<1>4. ASSUME NEW s \in Savers, RenameTmp(s) PROVE Saved' \in Nat /\ Saved' >= Saved
  <2>1. content[tmp] = snap[s] /\ Saved <= snap[s].index  BY <1>4 DEF RenameTmp, FileInv
  <2>2. Saved' = snap[s].index  BY <1>4, <2>1 DEF RenameTmp, TypeOK, Saved, load_index
  <2> QED  BY <1>0, <2>1, <2>2 DEF TypeOK, Snapshot
<1>5. CASE Sweep
  BY <1>5, <1>1 DEF Sweep, Register, StoreWatermark, LoadPersisted, CollectWal
<1>6. ASSUME NEW s \in Savers, Saver(s)
      PROVE UNCHANGED fileVars \/ CreateTmp(s) \/ WriteTmp(s) \/ RenameTmp(s)
  BY <1>6, Zenon DEF Saver, LoadWatermarks, Serialize, WriteFail, RenameFail, Publish, Cut
<1>7. CASE UNCHANGED vars
  BY <1>1, <1>7 DEF vars
<1>8. ASSUME NEW s \in Savers, Saver(s)
      PROVE /\ Saved' \in Nat /\ Saved' >= Saved
            /\ Saved' = Saved \/ \E o \in Savers : RenameTmp(o)
  <2>1. CASE UNCHANGED fileVars  BY <1>1, <2>1
  <2>2. CASE CreateTmp(s) \/ WriteTmp(s)
    <3>1. Saved' = Saved  BY <1>2, <1>3, <2>2
    <3> QED  BY <1>0, <3>1
  <2>3. CASE RenameTmp(s)  BY <1>4, <2>3
  <2> QED  BY <1>6, <1>8, <2>1, <2>2, <2>3
<1> QED  BY <1>5, <1>7, <1>8 DEF Next

\* Every step keeps FileInv, or two saves overlap.
LEMMA FileStep ==
  ASSUME TypeOK, LockInv, FileInv, [Next]_vars, ~overlapped'
  PROVE  FileInv'
<1> USE SnapshotAssumption
<1>0. Saved \in Nat /\ Saved <= index  BY DEF TypeOK, LockInv, Saved, load_index, Snapshot, Torn
<1>1. CASE UNCHANGED <<saveVars, fileVars>>
  BY <1>1 DEF FileInv, Busy, Saved, load_index, saveVars, fileVars
<1>2. CASE Sweep
  BY <1>1, <1>2 DEF Sweep, Register, StoreWatermark, LoadPersisted, CollectWal
<1>3. ASSUME NEW s \in Savers, Saver(s) PROVE FileInv'
  <2>1. CASE UNCHANGED fileVars /\ (LoadWatermarks(s) \/ Serialize(s) \/ Cut(s)
                                    \/ WriteFail(s) \/ RenameFail(s) \/ Publish(s))
    <3>1. /\ UNCHANGED Saved
          /\ \A o \in Savers \ {s} : pc'[o] = pc[o] /\ fd'[o] = fd[o] /\ snap'[o] = snap[o]
      BY <2>1 DEF LoadWatermarks, Serialize, Cut, WriteFail, RenameFail, Publish, Finish, TypeOK,
                  Saved, load_index, fileVars
    <3>2. \/ pc'[s] \notin {"write", "rename"}
          \/ UNCHANGED <<pc, fd, snap>>
      BY <2>1 DEF LoadWatermarks, Serialize, Cut, WriteFail, RenameFail, Publish, Finish, TypeOK
    <3> QED  BY <2>1, <3>1, <3>2 DEF FileInv, Busy, fileVars
  <2>2. CASE CreateTmp(s)
    <3>1. \A o \in Savers \ {s} : ~Busy(o) /\ pc'[o] = pc[o]
      BY <2>2, Zenon DEF CreateTmp, Busy, TypeOK
    <3>2. pc'[s] = "write" /\ fd'[s] = tmp'
      BY <2>2 DEF CreateTmp, TypeOK
    <3> QED  BY <3>1, <3>2 DEF FileInv, Busy
  <2>3. CASE WriteTmp(s)
    <3>1. \A o \in Savers \ {s} : ~Busy(o) /\ pc'[o] = pc[o]
      BY <2>3 DEF WriteTmp, Finish, FileInv, Busy, TypeOK
    <3>2. Saved' = Saved
      BY <2>3, SavedStep, Zenon DEF WriteTmp, RenameTmp
    <3>3. CASE s \in cut
      BY <2>3, <3>1, <3>3 DEF WriteTmp, Finish, FileInv, Busy, TypeOK
    <3>4. CASE s \notin cut
      <4>1. fd[s] = tmp /\ fd[s] \in Inodes  BY <2>3 DEF WriteTmp, FileInv, TypeOK
      <4>2. /\ pc'[s] = "rename" /\ snap'[s] = snap[s] /\ tmp' = tmp /\ tmp # Absent
            /\ content'[tmp] = snap[s]
        BY <2>3, <3>4, <4>1 DEF WriteTmp, TypeOK
      <4>3. Saved <= snap[s].index
        BY <1>0, <2>3, <3>4 DEF WriteTmp, LockInv, TypeOK
      <4> QED  BY <3>1, <3>2, <4>2, <4>3 DEF FileInv, Busy
    <3> QED  BY <3>3, <3>4
  <2>4. CASE RenameTmp(s)
    <3>1. \A o \in Savers \ {s} : ~Busy(o) /\ pc'[o] = pc[o]
      BY <2>4 DEF RenameTmp, Finish, FileInv, Busy, TypeOK
    <3>2. pc'[s] \notin {"write", "rename"}
      BY <2>4 DEF RenameTmp, Finish, TypeOK
    <3> QED  BY <3>1, <3>2 DEF FileInv, Busy
  <2> QED
    BY <1>3, <2>1, <2>2, <2>3, <2>4, Zenon
    DEF Saver, LoadWatermarks, Serialize, Cut, WriteFail, RenameFail, Publish
<1>4. CASE UNCHANGED vars
  BY <1>1, <1>4 DEF vars
<1> QED  BY <1>2, <1>3, <1>4 DEF Next

\* Every step keeps SavedInv, or two saves overlap.
LEMMA SavedInvStep ==
  ASSUME TypeOK, LockInv, FileInv, SavedInv, [Next]_vars, ~overlapped'
  PROVE  SavedInv'
<1> USE SnapshotAssumption
<1>0. Saved \in Nat /\ Saved' \in Nat /\ Saved' >= Saved
  BY SavedStep DEF TypeOK, Saved, load_index, Snapshot, Torn
<1>1. CASE Sweep
  <2>1. UNCHANGED <<pc, watermarks, persisted>> /\ gc' <= Saved /\ gc_bound' <= Saved
    BY <1>1 DEF Sweep, Register, StoreWatermark, LoadPersisted, CollectWal, SavedInv, TypeOK, saveVars
  <2>2. gc' \in Nat /\ gc_bound' \in Nat  BY TypeStep DEF TypeOK
  <2> QED  BY <1>0, <2>1, <2>2 DEF SavedInv, TypeOK
<1>2. ASSUME NEW s \in Savers, Saver(s) PROVE SavedInv'
  <2>1. UNCHANGED <<gc, gc_bound>>
    BY <1>2, Zenon
    DEF Saver, LoadWatermarks, Serialize, CreateTmp, WriteTmp, WriteFail, RenameTmp, RenameFail,
        Publish, Cut, sweepVars
  <2>2. persisted' <= Saved /\ persisted' \in Nat
    <3>1. CASE Publish(s)  BY <3>1 DEF Publish, SavedInv, TypeOK
    <3>2. CASE UNCHANGED persisted  BY <3>2 DEF SavedInv, TypeOK
    <3> QED
      BY <1>2, <3>1, <3>2, Zenon
      DEF Saver, LoadWatermarks, Serialize, CreateTmp, WriteTmp, WriteFail, RenameTmp, RenameFail, Cut
  <2>3. ASSUME NEW o \in Savers, pc'[o] = "publish" PROVE watermarks'[o] <= Saved'
    <3>1. CASE RenameTmp(s) /\ o = s
      <4>1. /\ content[tmp] = snap[s] /\ watermarks[s] <= snap[s].index
        BY <3>1 DEF RenameTmp, FileInv, LockInv
      <4>2. Saved' = content[tmp].index
        BY <3>1 DEF RenameTmp, TypeOK, Saved, load_index
      <4>3. watermarks'[s] = watermarks[s]
        BY <2>3, <3>1 DEF RenameTmp, Finish, TypeOK
      <4> QED  BY <3>1, <4>1, <4>2, <4>3
    <3>2. CASE ~(RenameTmp(s) /\ o = s)
      <4>1. pc[o] = "publish" /\ watermarks'[o] = watermarks[o]
        BY <1>2, <2>3, <3>2
        DEF Saver, LoadWatermarks, Serialize, CreateTmp, WriteTmp, WriteFail, RenameTmp, RenameFail,
            Publish, Cut, Finish, TypeOK
      <4>2. watermarks[o] \in Nat  BY DEF TypeOK
      <4> QED  BY <1>0, <4>1, <4>2 DEF SavedInv
    <3> QED  BY <3>1, <3>2
  <2> QED  BY <1>0, <2>1, <2>2, <2>3 DEF SavedInv, TypeOK
<1>3. CASE UNCHANGED vars
  BY <1>3, Zenon DEF SavedInv, Saved, load_index, vars, sweepVars, saveVars, fileVars
<1> QED  BY <1>1, <1>2, <1>3 DEF Next

-----------------------------------------------------------------------------
\* The invariant is inductive.
THEOREM Inductive == Spec => []IInv
<1>1. IInv /\ [Next]_vars => IInv'
  <2> SUFFICES ASSUME IInv, [Next]_vars PROVE IInv'  OBVIOUS
  <2>1. TypeOK' /\ LockInv'  BY TypeStep, LockStep DEF IInv
  <2>2. overlapped => overlapped'
    BY Zenon
    DEF Next, vars, Sweep, Saver, Register, StoreWatermark, LoadPersisted, CollectWal,
        LoadWatermarks, Serialize, CreateTmp, WriteTmp, WriteFail, RenameTmp, RenameFail, Publish, Cut
  <2>3. ASSUME ~overlapped' PROVE FileInv' /\ SavedInv'
    BY <2>2, <2>3, FileStep, SavedInvStep DEF IInv
  <2> QED  BY <2>1, <2>3 DEF IInv
<1> QED  BY InitIInv, <1>1, PTL DEF Spec

\* The names .tmp and the snapshot file are kept apart, and every variable has
\* its type (save_index and its callers).
THEOREM SnapshotTypeCorrect == Spec => []TypeOK
<1>1. IInv => TypeOK  BY DEF IInv
<1> QED  BY Inductive, <1>1, PTL

\* WAL that the sweep has deleted is in the index load_index would return,
\* unless two saves have used the .tmp file at once.
THEOREM DeletedSafe == Spec => []DeletedIsSavedUnlessOverlapped
<1>1. IInv => DeletedIsSavedUnlessOverlapped
  BY DEF IInv, SavedInv, Saved, DeletedIsSavedUnlessOverlapped
<1> QED  BY Inductive, <1>1, PTL

\* Until two saves overlap, save_index and its callers implement AtomicSnapshot.
THEOREM SnapshotAtomic == Spec => AtomicUntilOverlap
<1>1. Init => Atomic!Init
  BY DEF Init, Atomic!Init, load_index, Torn
<1>2. IInv /\ IInv' /\ [Next]_vars => [overlapped' \/ Atomic!Next]_(Atomic!vars)
  <2> SUFFICES ASSUME IInv, IInv', [Next]_vars, ~overlapped'
               PROVE  Atomic!Next \/ UNCHANGED Atomic!vars
    OBVIOUS
  <2>0. ~overlapped
    BY Zenon
    DEF Next, vars, Sweep, Saver, Register, StoreWatermark, LoadPersisted, CollectWal,
        LoadWatermarks, Serialize, CreateTmp, WriteTmp, WriteFail, RenameTmp, RenameFail, Publish, Cut
  <2>1. TypeOK /\ LockInv /\ FileInv /\ SavedInv /\ SavedInv'
    BY <2>0 DEF IInv
  <2>2. /\ Saved' \in Nat /\ Saved' >= Saved
        /\ Saved' = Saved \/ \E s \in Savers : RenameTmp(s)
    BY <2>1, SavedStep
  <2>3. CASE \E s \in Savers : RenameTmp(s)
    BY <2>2, <2>3 DEF RenameTmp, Saved, Atomic!Next, Atomic!Save
  <2>4. CASE Saved' = Saved
    <3>1. persisted' \in Nat /\ Saved \in Nat /\ persisted' <= Saved'
      BY <2>1, <2>2, <2>4, TypeStep DEF TypeOK, SavedInv
    <3> QED  BY <2>4, <3>1 DEF Saved, Atomic!Next, Atomic!Persist
  <2> QED  BY <2>2, <2>3, <2>4
<1> QED  BY Inductive, <1>1, <1>2, PTL DEF Spec, AtomicUntilOverlap

=============================================================================
