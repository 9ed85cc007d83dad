------------------------- MODULE ChunkStoreInvariant -------------------------
(***************************************************************************)
(* Every entry of the index names a file that exists, for any number of    *)
(* series, files, queries and merge groups, and whatever is rewritten.     *)
(***************************************************************************)
EXTENDS ChunkStore, WellFoundedInduction, TLAPS

File == [points : SUBSET Point, size : Sizes]
Ids == 1 .. Len(chunks)
Files(i) == Range(groups[i].chunks)

\* An entry is the one its file was registered with.
EntryOf(e) == e.chunk \in Ids /\ e \in Entries(e.chunk, chunks[e.chunk].points)

StoreInv ==
  /\ chunks \in Seq(File) /\ memtable \subseteq Point /\ draining \subseteq Point
  /\ version \in [Series \X Times -> 0 .. MaxVersions]
  /\ index.chunk_files \subseteq Ids

\* An entry has a file, and statistics, which keep the file's record.
EntryInv ==
  /\ \A e \in index.time_index :
       EntryOf(e) /\ e.chunk \in on_disk /\ <<e.chunk, e.series>> \in index.chunk_stats
  /\ index.chunk_stats \subseteq index.chunk_files \X Series

\* A file that is written and not yet registered belongs to its writer alone.
Private(c) ==
  /\ c \in Ids /\ c \in on_disk /\ c \notin index.chunk_files
  /\ \A i \in DOMAIN groups : c \notin Files(i) /\ \A e \in groups[i].deregister : e.chunk # c

WriterInv ==
  /\ flush_pc = "register" => Private(flush_chunk) /\ chunks[flush_chunk].points = draining
  /\ compact_pc = "commit" => Private(merged)
  /\ flush_pc = "register" /\ compact_pc = "commit" => flush_chunk # merged

\* A group knows the entries of its files, and once it is committed the index has
\* none of them.
GroupInv ==
  /\ DOMAIN groups \subseteq Nat
  /\ \A i \in DOMAIN groups :
       /\ Files(i) \subseteq Ids
       /\ \A e \in groups[i].deregister : EntryOf(e)
       /\ \A e \in index.time_index : e.chunk \in Files(i) => e \in groups[i].deregister
  /\ compact_pc = "delete" =>
       \A i \in First(groups) : \A e \in index.time_index : e.chunk \notin Files(i)

UInv == StoreInv /\ EntryInv /\ WriterInv /\ GroupInv

-----------------------------------------------------------------------------
\* The entries of a chunk: one for each of its series.
LEMMA EntriesOfChunk ==
  ASSUME NEW c, NEW P
  PROVE  /\ \A e \in Entries(c, P) : e.chunk = c /\ \E p \in P : p.series = e.series
         /\ \A d, e \in Entries(c, P) : d.series = e.series => d = e
         /\ \A p \in P : \E e \in Entries(c, P) : e.series = p.series
<1> DEFINE Lo(s) == Min({p.time : p \in {q \in P : q.series = s}})
           Hi(s) == Max({p.time : p \in {q \in P : q.series = s}})
<1>1. Entries(c, P) = {[series |-> s, chunk |-> c, start |-> Lo(s), end |-> Hi(s)]
                         : s \in {p.series : p \in P}}
  BY Zenon DEF Entries
<1> HIDE DEF Lo, Hi
<1>2. \A e \in Entries(c, P) :
        \E p \in P : e = [series |-> p.series, chunk |-> c, start |-> Lo(p.series), end |-> Hi(p.series)]
  BY <1>1, Zenon
<1>3. \A p \in P :
        [series |-> p.series, chunk |-> c, start |-> Lo(p.series), end |-> Hi(p.series)] \in Entries(c, P)
  BY <1>1, Zenon
<1>4. \A p \in P : \E e \in Entries(c, P) : e.series = p.series
  BY <1>3, Zenon
<1>5. \A e \in Entries(c, P) : e.chunk = c /\ \E p \in P : p.series = e.series
  BY <1>2
<1>6. \A d, e \in Entries(c, P) : d.series = e.series => d = e
  BY <1>2
<1> QED BY <1>4, <1>5, <1>6, Zenon

\* A new file has a new id and changes no other file.
LEMMA NewFile ==
  ASSUME chunks \in Seq(File), NEW P \in SUBSET Point, NEW n \in Sizes, WriteFile(P, n)
  PROVE  /\ Len(chunks) \in Nat /\ Len(chunks') = Len(chunks) + 1
         /\ chunks' \in Seq(File)
         /\ \A c \in Ids : chunks'[c] = chunks[c]
         /\ chunks'[Len(chunks')].points = P
         /\ on_disk' = on_disk \cup {Len(chunks')}
<1> DEFINE f == [points |-> P, size |-> n]
<1>1. f \in File /\ f.points = P
  BY Zenon DEF File
<1>2. chunks' = Append(chunks, f) /\ on_disk' = on_disk \cup {Len(chunks')}
  BY Zenon DEF WriteFile
<1> HIDE DEF f
<1> QED BY <1>1, <1>2 DEF Ids

\* What a merge writes are points.
LEMMA MergedArePoints ==
  ASSUME chunks \in Seq(File), NEW files, Range(files) \subseteq Ids
  PROVE  MergedPoints(files) \subseteq Point
<1> SUFFICES ASSUME NEW p \in MergedPoints(files) PROVE p \in Point
  BY Zenon
<1>1. PICK i \in DOMAIN files : p \in chunks[files[i]].points
  BY Zenon DEF MergedPoints
<1>2. files[i] \in Ids
  BY Zenon DEF Range
<1>3. chunks[files[i]] \in File
  BY <1>2 DEF Ids
<1> QED BY <1>1, <1>3, Zenon DEF File

\* The initial state satisfies the invariant.
LEMMA InitUInv == Init => UInv
<1> SUFFICES ASSUME Init PROVE UInv
  BY Zenon
<1>1. StoreInv
  BY StoreAssumption DEF Init, StoreInv, EmptyIndex, File, Ids
<1>2. EntryInv
  BY Zenon DEF Init, EntryInv, EmptyIndex
<1>3. WriterInv
  BY Zenon DEF Init, WriterInv
<1>4. GroupInv
  BY Zenon DEF Init, GroupInv, NoGroups, First
<1> QED BY <1>1, <1>2, <1>3, <1>4, Zenon DEF UInv

\* Steps that leave files, index and groups alone.
LEMMA FrameUInv ==
  ASSUME UInv, StoreInv',
         UNCHANGED <<draining, flush_pc, flush_chunk, fileVars, index, compactVars>>
  PROVE  UInv'
<1> USE DEF fileVars, compactVars
<1>1. EntryInv'
  BY Zenon DEF UInv, EntryInv, EntryOf, Ids
<1>2. WriterInv'
  BY Zenon DEF UInv, WriterInv, Private, Ids, Files
<1>3. GroupInv'
  BY Zenon DEF UInv, GroupInv, EntryOf, Ids, Files
<1> QED BY <1>1, <1>2, <1>3, Zenon DEF UInv

\* Inserting a point keeps the memtable a set of points.
LEMMA IngestUInv ==
  ASSUME UInv, NEW s \in Series, NEW t \in Times, Ingest(s, t)
  PROVE  UInv'
<1>1. version[<<s, t>>] \in 0 .. MaxVersions /\ version[<<s, t>>] + 1 \in 1 .. MaxVersions
  BY StoreAssumption DEF UInv, StoreInv, Ingest
<1>2. version' \in [Series \X Times -> 0 .. MaxVersions]
  BY <1>1, StoreAssumption DEF UInv, StoreInv, Ingest
<1>3. memtable' \subseteq Point
  BY <1>1 DEF UInv, StoreInv, Ingest, Insert, Point
<1>4. StoreInv'
  BY <1>2, <1>3, Zenon DEF UInv, StoreInv, Ingest, flushVars, fileVars, Ids
<1> QED BY <1>4, FrameUInv, Zenon DEF Ingest, flushVars

\* A drain leaves files, index and groups alone.
LEMMA FlushDrainUInv == ASSUME UInv, NEW i \in 1 .. NumShards, FlushDrain(i) PROVE UInv'
<1> USE DEF FlushDrain, InShard, fileVars, compactVars
<1>1. StoreInv'
  BY Zenon DEF UInv, StoreInv, Ids
<1>2. EntryInv'
  BY Zenon DEF UInv, EntryInv, EntryOf, Ids
<1>3. WriterInv'
  BY Zenon DEF UInv, WriterInv, Private, Ids, Files
<1>4. GroupInv'
  BY Zenon DEF UInv, GroupInv, EntryOf, Ids, Files
<1> QED BY <1>1, <1>2, <1>3, <1>4, Zenon DEF UInv

\* A failed flush writes no file.
LEMMA FlushFailUInv == ASSUME UInv, FlushFail PROVE UInv'
<1> USE DEF FlushFail, fileVars, compactVars
<1>1. StoreInv'
  BY Zenon DEF UInv, StoreInv, Ids
<1>2. EntryInv'
  BY Zenon DEF UInv, EntryInv, EntryOf, Ids
<1>3. WriterInv'
  BY Zenon DEF UInv, WriterInv, Private, Ids, Files
<1>4. GroupInv'
  BY Zenon DEF UInv, GroupInv, EntryOf, Ids, Files
<1> QED BY <1>1, <1>2, <1>3, <1>4, Zenon DEF UInv

\* A new file disturbs neither the entries, nor the groups, nor the file another
\* writer has written, and belongs to its own writer alone.
LEMMA WriteKeeps ==
  ASSUME UInv, NEW P \in SUBSET Point, NEW n \in Sizes, WriteFile(P, n),
         UNCHANGED <<index, groups>>
  PROVE  /\ chunks' \in Seq(File) /\ Ids \subseteq Ids'
         /\ \A e : EntryOf(e) => EntryOf(e)'
         /\ EntryInv'
         /\ \A i \in DOMAIN groups : Files(i) \subseteq Ids' /\ \A e \in groups[i].deregister : EntryOf(e)'
         /\ \A c : Private(c) => Private(c)' /\ c # Len(chunks') /\ chunks'[c] = chunks[c]
         /\ (\A c : c = Len(chunks') => Private(c)') /\ chunks'[Len(chunks')].points = P
<1>1. /\ Len(chunks) \in Nat /\ Len(chunks') = Len(chunks) + 1
      /\ chunks' \in Seq(File)
      /\ \A c \in Ids : chunks'[c] = chunks[c]
      /\ chunks'[Len(chunks')].points = P
      /\ on_disk' = on_disk \cup {Len(chunks')}
  BY NewFile, Zenon DEF UInv, StoreInv
<1>2. Ids \subseteq Ids' /\ Len(chunks') \in Ids' /\ Len(chunks') \notin Ids
  BY <1>1 DEF Ids
<1>3. \A e : EntryOf(e) => EntryOf(e)'
  BY <1>1, <1>2, Zenon DEF EntryOf
<1>4. EntryInv'
  BY <1>1, <1>3, Zenon DEF UInv, EntryInv
<1>5. \A i \in DOMAIN groups : Files(i) \subseteq Ids' /\ \A e \in groups[i].deregister : EntryOf(e)'
  BY <1>2, <1>3, Zenon DEF UInv, GroupInv
<1>6. \A c : Private(c) => Private(c)' /\ c # Len(chunks') /\ chunks'[c] = chunks[c]
  BY <1>1, <1>2, Zenon DEF Private, Files
<1>7. ASSUME NEW c, c = Len(chunks') PROVE Private(c)'
  <2>1. c \in Ids' /\ c \in on_disk' /\ c \notin index.chunk_files
    BY <1>1, <1>2, <1>7, Zenon DEF UInv, StoreInv
  <2>2. \A i \in DOMAIN groups : c \notin Files(i) /\ \A e \in groups[i].deregister : e.chunk # c
    BY <1>2, <1>7, Zenon DEF UInv, GroupInv, EntryOf
  <2> QED BY <2>1, <2>2, Zenon DEF Private, Files
<1> QED BY <1>1, <1>2, <1>3, <1>4, <1>5, <1>6, <1>7, Zenon

\* The file of a flush is the flush's alone until it is registered.
LEMMA FlushWriteUInv == ASSUME UInv, NEW n \in Sizes, FlushWrite(n) PROVE UInv'
<1>1. WriteFile(draining, n) /\ draining \in SUBSET Point /\ UNCHANGED <<index, groups, merged, compact_pc>>
  BY Zenon DEF UInv, StoreInv, FlushWrite, compactVars
<1>2. /\ chunks' \in Seq(File) /\ Ids \subseteq Ids'
      /\ \A e : EntryOf(e) => EntryOf(e)'
      /\ EntryInv'
      /\ \A i \in DOMAIN groups : Files(i) \subseteq Ids' /\ \A e \in groups[i].deregister : EntryOf(e)'
      /\ \A c : Private(c) => Private(c)' /\ c # Len(chunks') /\ chunks'[c] = chunks[c]
      /\ (\A c : c = Len(chunks') => Private(c)') /\ chunks'[Len(chunks')].points = draining
  BY <1>1, WriteKeeps, Zenon
<1>3. StoreInv'
  BY <1>2, Zenon DEF UInv, StoreInv, FlushWrite
<1>4. WriterInv'
  BY <1>1, <1>2, Zenon DEF UInv, WriterInv, FlushWrite
<1>5. GroupInv'
  <2>1. UNCHANGED <<index, groups, compact_pc>> /\ \A i \in DOMAIN groups : Files(i)' = Files(i)
    BY <1>1, Zenon DEF Files
  <2> QED BY <1>2, <2>1, Zenon DEF UInv, GroupInv, First
<1> QED BY <1>2, <1>3, <1>4, <1>5, Zenon DEF UInv

\* The merged file is the merge's alone until it is committed.
LEMMA CompactMergeUInv == ASSUME UInv, NEW n \in Sizes, CompactMerge(n) PROVE UInv'
<1>1. PICK i \in First(groups) : WriteFile(MergedPoints(groups[i].chunks), n)
  BY Zenon DEF CompactMerge
<1> DEFINE P == MergedPoints(groups[i].chunks)
<1>2. P \in SUBSET Point
  BY MergedArePoints, Zenon DEF UInv, StoreInv, GroupInv, Files, First
<1> HIDE DEF P
<1>3. WriteFile(P, n) /\ UNCHANGED <<index, groups, draining, flush_pc, flush_chunk, memtable, version>>
  BY <1>1, Zenon DEF P, CompactMerge, flushVars
<1>4. /\ chunks' \in Seq(File) /\ Ids \subseteq Ids'
      /\ \A e : EntryOf(e) => EntryOf(e)'
      /\ EntryInv'
      /\ \A j \in DOMAIN groups : Files(j) \subseteq Ids' /\ \A e \in groups[j].deregister : EntryOf(e)'
      /\ \A c : Private(c) => Private(c)' /\ c # Len(chunks') /\ chunks'[c] = chunks[c]
      /\ \A c : c = Len(chunks') => Private(c)'
  BY <1>2, <1>3, WriteKeeps, Zenon
<1>5. StoreInv'
  BY <1>3, <1>4, Zenon DEF UInv, StoreInv
<1>6. WriterInv'
  BY <1>3, <1>4, Zenon DEF UInv, WriterInv, CompactMerge
<1>7. GroupInv'
  <2>1. UNCHANGED <<index, groups>> /\ compact_pc' = "commit" /\ \A j \in DOMAIN groups : Files(j)' = Files(j)
    BY <1>3, Zenon DEF Files, CompactMerge
  <2> QED BY <1>4, <2>1, Zenon DEF UInv, GroupInv
<1> QED BY <1>4, <1>5, <1>6, <1>7, Zenon DEF UInv

\* Registering the entries of a new chunk keeps each entry with its file.
LEMMA RegisterKeeps ==
  ASSUME UInv, NEW c \in Ids, c \in on_disk, NEW new, new = Entries(c, chunks[c].points),
         NEW idx, idx = Register(index, new)
  PROVE  /\ \A e \in idx.time_index :
              EntryOf(e) /\ e.chunk \in on_disk /\ <<e.chunk, e.series>> \in idx.chunk_stats
         /\ \A e \in idx.time_index : e \in index.time_index \/ e.chunk = c
         /\ idx.chunk_stats \subseteq idx.chunk_files \X Series
         /\ idx.chunk_files \subseteq index.chunk_files \cup {c}
<1>1. \A e \in new : e.chunk = c /\ e.series \in Series /\ EntryOf(e)
  <2>1. chunks[c].points \subseteq Point
    <3>1. chunks[c] \in File
      BY DEF UInv, StoreInv, Ids
    <3> QED BY <3>1, Zenon DEF File
  <2>2. \A e \in new : e.chunk = c /\ \E p \in chunks[c].points : p.series = e.series
    BY EntriesOfChunk, Zenon
  <2> QED BY <2>1, <2>2, Zenon DEF Point, EntryOf
<1>2. /\ idx.time_index = {d \in index.time_index : ~\E e \in new : SameSlot(d, e)} \cup new
      /\ idx.chunk_stats = index.chunk_stats \cup {<<e.chunk, e.series>> : e \in new}
      /\ idx.chunk_files = index.chunk_files \cup {e.chunk : e \in new}
  BY Zenon DEF Register
<1>3. \A e \in idx.time_index : e \in index.time_index \/ e \in new
  BY <1>2, Zenon
<1>4. \A e \in idx.time_index :
        EntryOf(e) /\ e.chunk \in on_disk /\ <<e.chunk, e.series>> \in idx.chunk_stats
  BY <1>1, <1>2, <1>3, Zenon DEF UInv, EntryInv
<1>5. idx.chunk_stats \subseteq idx.chunk_files \X Series
  BY <1>1, <1>2 DEF UInv, EntryInv
<1> QED BY <1>1, <1>2, <1>3, <1>4, <1>5, Zenon

\* A registered flush may take the slot of an older entry, and brings its own file.
LEMMA FlushRegisterUInv == ASSUME UInv, FlushRegister PROVE UInv'
<1> DEFINE new == Entries(flush_chunk, draining)
<1>1. Private(flush_chunk) /\ chunks[flush_chunk].points = draining
  BY Zenon DEF UInv, WriterInv, FlushRegister
<1>2. index' = Register(index, new) /\ UNCHANGED <<chunks, on_disk, groups, merged, compact_pc, memtable, version>>
  BY Zenon DEF FlushRegister, fileVars, compactVars
<1>3. draining' = {} /\ flush_pc' = "idle"
  BY Zenon DEF FlushRegister
<1>4. flush_chunk \in Ids /\ flush_chunk \in on_disk /\ new = Entries(flush_chunk, chunks[flush_chunk].points)
  BY <1>1, Zenon DEF Private
<1> HIDE DEF new
<1>5. /\ \A e \in index'.time_index :
           EntryOf(e) /\ e.chunk \in on_disk /\ <<e.chunk, e.series>> \in index'.chunk_stats
      /\ \A e \in index'.time_index : e \in index.time_index \/ e.chunk = flush_chunk
      /\ index'.chunk_stats \subseteq index'.chunk_files \X Series
      /\ index'.chunk_files \subseteq index.chunk_files \cup {flush_chunk}
  BY <1>2, <1>4, RegisterKeeps
<1>6. Ids' = Ids /\ (\A e : EntryOf(e)' <=> EntryOf(e)) /\ \A i \in DOMAIN groups : Files(i)' = Files(i)
  BY <1>2, Zenon DEF Ids, EntryOf, Files
<1>7. StoreInv'
  BY <1>2, <1>3, <1>4, <1>5, <1>6, Zenon DEF UInv, StoreInv
<1>8. EntryInv'
  BY <1>2, <1>5, <1>6, Zenon DEF EntryInv
<1>9. WriterInv'
  <2>1. ASSUME compact_pc = "commit" PROVE Private(merged)'
    <3>1. Private(merged) /\ merged # flush_chunk
      BY <2>1, Zenon DEF UInv, WriterInv, FlushRegister
    <3> QED BY <1>2, <1>5, <1>6, <3>1, Zenon DEF Private
  <2> QED BY <1>2, <1>3, <2>1, Zenon DEF WriterInv
<1>10. GroupInv'
  <2>1. \A i \in DOMAIN groups : flush_chunk \notin Files(i)
    BY <1>1, Zenon DEF Private
  <2>2. First(groups') = First(groups) /\ First(groups) \subseteq DOMAIN groups
    BY <1>2, Zenon DEF First
  <2> QED BY <1>2, <1>5, <1>6, <2>1, <2>2, Zenon DEF UInv, GroupInv
<1> QED BY <1>7, <1>8, <1>9, <1>10, Zenon DEF UInv

\* A plan's groups are made of registered files and know all their entries.
LEMMA CompactPlanUInv == ASSUME UInv, CompactPlan PROVE UInv'
<1>1. UNCHANGED <<version, memtable, draining, flush_pc, flush_chunk, chunks, on_disk, index>>
  BY Zenon DEF CompactPlan, flushVars, fileVars
<1>2. compact_pc' = "merge"
  BY Zenon DEF CompactPlan
<1>3. PICK order \in Bijection(1 .. Cardinality(index.chunk_files), index.chunk_files) :
        \E starts \in SUBSET DOMAIN order :
        groups' = [s \in {t \in starts : Cardinality(DOMAIN MergeGroup(order, starts, t).chunks) >= MinThreshold}
                     |-> MergeGroup(order, starts, s)]
  BY Zenon DEF CompactPlan
<1>3a. PICK starts \in SUBSET DOMAIN order :
        groups' = [s \in {t \in starts : Cardinality(DOMAIN MergeGroup(order, starts, t).chunks) >= MinThreshold}
                     |-> MergeGroup(order, starts, s)]
  BY <1>3, Zenon
<1>4. DOMAIN order \subseteq Nat /\ \A k \in DOMAIN order : order[k] \in index.chunk_files
  BY DEF Bijection, Injection, IsInjective
<1>5. DOMAIN groups' \subseteq starts /\ \A i \in DOMAIN groups' : groups'[i] = MergeGroup(order, starts, i)
  BY <1>3a, Zenon
<1>6. ASSUME NEW i \in DOMAIN groups'
      PROVE  /\ Range(groups'[i].chunks) \subseteq index.chunk_files
             /\ groups'[i].deregister = {e \in index.time_index : e.chunk \in Range(groups'[i].chunks)}
  <2> DEFINE places == {k \in DOMAIN order : i <= k /\ ~\E t \in starts : i < t /\ t <= k}
             files == Restrict(order, places)
  <2>1. groups'[i] = [chunks |-> files, deregister |-> {e \in index.time_index : e.chunk \in Range(files)}]
    BY <1>5, Zenon DEF MergeGroup
  <2>2. Range(files) \subseteq index.chunk_files
    BY <1>4, Zenon DEF Range, Restrict
  <2> HIDE DEF files
  <2> QED BY <2>1, <2>2
<1>7. StoreInv'
  BY <1>1, Zenon DEF UInv, StoreInv, Ids
<1>8. EntryInv'
  BY <1>1, Zenon DEF UInv, EntryInv, EntryOf, Ids
<1>9. WriterInv'
  <2>1. ASSUME flush_pc = "register" PROVE Private(flush_chunk)'
    <3>1. Private(flush_chunk)
      BY <2>1, Zenon DEF UInv, WriterInv
    <3>2. \A i \in DOMAIN groups' : /\ flush_chunk \notin Range(groups'[i].chunks)
                                    /\ \A e \in groups'[i].deregister : e.chunk # flush_chunk
      BY <1>6, <3>1, Zenon DEF Private
    <3> QED BY <1>1, <3>1, <3>2, Zenon DEF Private, Files, Ids
  <2> QED BY <1>1, <1>2, <2>1, Zenon DEF UInv, WriterInv
<1>10. GroupInv'
  <2>1. DOMAIN groups' \subseteq Nat
    BY <1>4, <1>5, Zenon
  <2>2. ASSUME NEW i \in DOMAIN groups'
        PROVE  /\ Files(i)' \subseteq Ids'
               /\ \A e \in groups'[i].deregister : EntryOf(e)'
               /\ \A e \in index'.time_index : e.chunk \in Files(i)' => e \in groups'[i].deregister
    BY <1>1, <1>6, Zenon DEF UInv, StoreInv, EntryInv, EntryOf, Files, Ids
  <2> QED BY <1>2, <2>1, <2>2, Zenon DEF GroupInv
<1> QED BY <1>7, <1>8, <1>9, <1>10, Zenon DEF UInv

\* A cycle that ends early leaves every file and entry as it is.
LEMMA CompactFailUInv == ASSUME UInv, CompactFail PROVE UInv'
<1>1. UNCHANGED <<version, memtable, draining, flush_pc, flush_chunk, chunks, on_disk, index>>
  BY Zenon DEF CompactFail, flushVars, fileVars
<1>2. compact_pc' = "idle" /\ DOMAIN groups' = {}
  BY Zenon DEF CompactFail, NoGroups
<1>3. StoreInv'
  BY <1>1, Zenon DEF UInv, StoreInv, Ids
<1>4. EntryInv'
  BY <1>1, Zenon DEF UInv, EntryInv, EntryOf, Ids
<1>5. WriterInv'
  BY <1>1, <1>2, Zenon DEF UInv, WriterInv, Private, Ids
<1>6. GroupInv'
  BY <1>2, Zenon DEF GroupInv
<1> QED BY <1>3, <1>4, <1>5, <1>6, Zenon DEF UInv

\* Two groups cannot both be first.
LEMMA FirstIsOne ==
  ASSUME NEW f, DOMAIN f \subseteq Nat, NEW i \in First(f), NEW j \in First(f)
  PROVE  i = j /\ i \in DOMAIN f
BY DEF First

\* A commit takes every entry of the group's files out of the index: an entry that
\* belongs to a merged file is the one the group planned to remove, and no other entry
\* loses its statistics or its file record.
LEMMA CompactCommitUInv == ASSUME UInv, CompactCommit PROVE UInv'
<1> DEFINE new == Entries(merged, chunks[merged].points)
           reg == Register(index, new)
<1>1. PICK i \in First(groups) : index' = Deregister(reg, groups[i].deregister)
  BY Zenon DEF CompactCommit
<1>2. /\ UNCHANGED <<version, memtable, draining, flush_pc, flush_chunk, chunks, on_disk, groups, merged>>
      /\ compact_pc' = "delete"
  BY Zenon DEF CompactCommit, flushVars, fileVars
<1>3. Private(merged) /\ merged \in Ids /\ merged \in on_disk
  BY Zenon DEF UInv, WriterInv, CompactCommit, Private
<1>4. i \in DOMAIN groups /\ \A j \in First(groups) : j = i
  BY FirstIsOne, Zenon DEF UInv, GroupInv
<1>4a. new = Entries(merged, chunks[merged].points) /\ reg = Register(index, new)
  BY Zenon
<1> HIDE DEF new, reg
<1>5. /\ \A e \in reg.time_index :
           EntryOf(e) /\ e.chunk \in on_disk /\ <<e.chunk, e.series>> \in reg.chunk_stats
      /\ \A e \in reg.time_index : e \in index.time_index \/ e.chunk = merged
      /\ reg.chunk_stats \subseteq reg.chunk_files \X Series
      /\ reg.chunk_files \subseteq index.chunk_files \cup {merged}
  BY <1>3, <1>4a, RegisterKeeps
<1> DEFINE old == groups[i].deregister
           stats == reg.chunk_stats \ {<<e.chunk, e.series>> : e \in old}
<1>6. /\ index'.time_index = {d \in reg.time_index : ~\E e \in old : SameSlot(d, e) /\ d.chunk = e.chunk}
      /\ index'.chunk_stats = stats
      /\ index'.chunk_files = reg.chunk_files \ {e.chunk : e \in {f \in old : \A s \in Series : <<f.chunk, s>> \notin stats}}
  BY <1>1, Zenon DEF Deregister
<1>7. \A e \in old : EntryOf(e) /\ e.chunk # merged
  BY <1>3, <1>4, Zenon DEF UInv, GroupInv, Private
<1> HIDE DEF old, stats
<1>8. ASSUME NEW d \in index'.time_index
      PROVE  d \in reg.time_index /\ d \notin old /\ <<d.chunk, d.series>> \in stats
  <2>1. d \in reg.time_index /\ ~\E e \in old : SameSlot(d, e) /\ d.chunk = e.chunk
    BY <1>6, Zenon
  <2>2. ASSUME NEW e \in old, e.chunk = d.chunk, e.series = d.series PROVE FALSE
    <3>1. d \in Entries(d.chunk, chunks[d.chunk].points) /\ e \in Entries(d.chunk, chunks[d.chunk].points)
      BY <1>5, <1>7, <2>1, <2>2, Zenon DEF EntryOf
    <3>2. \A x, y \in Entries(d.chunk, chunks[d.chunk].points) : x.series = y.series => x = y
      BY EntriesOfChunk
    <3>3. d = e
      BY <2>2, <3>1, <3>2, Zenon
    <3> QED BY <2>1, <3>3, Zenon DEF SameSlot
  <2>3. d \notin old
    BY <2>2, Zenon
  <2>4. <<d.chunk, d.series>> \in reg.chunk_stats
    BY <1>5, <2>1, Zenon
  <2>5. <<d.chunk, d.series>> \notin {<<e.chunk, e.series>> : e \in old}
    BY <2>2, Zenon
  <2> QED BY <2>1, <2>3, <2>4, <2>5, Zenon DEF stats
<1>9. stats \subseteq index'.chunk_files \X Series
  <2> SUFFICES ASSUME NEW x \in stats PROVE x \in index'.chunk_files \X Series
    BY Zenon
  <2>1. PICK c \in reg.chunk_files, s \in Series : x = <<c, s>>
    BY <1>5 DEF stats
  <2>2. c \in index'.chunk_files
    BY <1>6, <2>1, Zenon
  <2> QED BY <2>1, <2>2, Zenon
<1>10. Ids' = Ids /\ (\A e : EntryOf(e)' <=> EntryOf(e)) /\ \A j \in DOMAIN groups : Files(j)' = Files(j)
  BY <1>2, Zenon DEF Ids, EntryOf, Files
<1>11. index'.chunk_files \subseteq index.chunk_files \cup {merged}
  BY <1>5, <1>6, Zenon
<1>12. StoreInv'
  BY <1>2, <1>3, <1>10, <1>11, Zenon DEF UInv, StoreInv
<1>13. EntryInv'
  BY <1>2, <1>5, <1>6, <1>8, <1>9, <1>10, Zenon DEF EntryInv
<1>14. WriterInv'
  <2>1. ASSUME flush_pc = "register" PROVE Private(flush_chunk)'
    <3>1. Private(flush_chunk) /\ merged # flush_chunk
      BY <2>1, Zenon DEF UInv, WriterInv, CompactCommit
    <3> QED BY <1>2, <1>10, <1>11, <3>1, Zenon DEF Private
  <2> QED BY <1>2, <2>1, Zenon DEF UInv, WriterInv
<1>15. GroupInv'
  <2>1. \A e \in index'.time_index : (e \in index.time_index \/ e.chunk = merged) /\ e \notin old
    <3>1. \A e \in index'.time_index : e \in reg.time_index /\ e \notin old
      BY <1>8, Zenon
    <3> QED BY <1>5, <3>1, Zenon
  <2>2. \A j \in DOMAIN groups : merged \notin Files(j)
    BY <1>3, Zenon DEF Private
  <2>3. \A j \in DOMAIN groups' :
          /\ Files(j)' \subseteq Ids'
          /\ \A e \in groups'[j].deregister : EntryOf(e)'
          /\ \A e \in index'.time_index : e.chunk \in Files(j)' => e \in groups'[j].deregister
    BY <1>2, <1>10, <2>1, <2>2, Zenon DEF UInv, GroupInv
  <2>4. \A e \in index'.time_index : e.chunk \notin Files(i)
    BY <1>4, <2>1, <2>2, Zenon DEF UInv, GroupInv, old
  <2>5. First(groups') = First(groups) /\ DOMAIN groups' \subseteq Nat
    BY <1>2, Zenon DEF First, UInv, GroupInv
  <2> QED BY <1>4, <1>10, <2>3, <2>4, <2>5, Zenon DEF GroupInv
<1> QED BY <1>12, <1>13, <1>14, <1>15, Zenon DEF UInv

\* Deleting a file leaves the entries their files: the index has no entry of a
\* file of a committed group, and nobody else holds one.
LEMMA CompactDeleteUInv == ASSUME UInv, CompactDelete PROVE UInv'
<1>1. PICK i \in First(groups) : \E k \in First(groups[i].chunks) :
        /\ on_disk' \in {on_disk, on_disk \ {groups[i].chunks[k]}}
        /\ groups' = [groups EXCEPT ![i] =
             [chunks |-> Restrict(@.chunks, DOMAIN @.chunks \ {k}), deregister |-> @.deregister]]
  BY Zenon DEF CompactDelete
<1>2. PICK k \in First(groups[i].chunks) :
        /\ on_disk' \in {on_disk, on_disk \ {groups[i].chunks[k]}}
        /\ groups' = [groups EXCEPT ![i] =
             [chunks |-> Restrict(@.chunks, DOMAIN @.chunks \ {k}), deregister |-> @.deregister]]
  BY <1>1, Zenon
<1>3. /\ UNCHANGED <<version, memtable, draining, flush_pc, flush_chunk, chunks, index>>
      /\ compact_pc = "delete" /\ compact_pc' = "delete"
  BY Zenon DEF CompactDelete, flushVars
<1>4. i \in DOMAIN groups /\ k \in DOMAIN groups[i].chunks /\ groups[i].chunks[k] \in Files(i)
  BY Zenon DEF First, Files, Range
<1> DEFINE x == groups[i].chunks[k]
<1>5. /\ DOMAIN groups' = DOMAIN groups
      /\ \A j \in DOMAIN groups : groups'[j].deregister = groups[j].deregister
      /\ \A j \in DOMAIN groups : Range(groups'[j].chunks) \subseteq Range(groups[j].chunks)
  <2>1. DOMAIN groups' = DOMAIN groups /\ \A j \in DOMAIN groups : j # i => groups'[j] = groups[j]
    BY <1>2, Zenon
  <2>2. groups'[i] = [chunks |-> Restrict(groups[i].chunks, DOMAIN groups[i].chunks \ {k}),
                      deregister |-> groups[i].deregister]
    BY <1>2, <1>4, Zenon
  <2>3. Range(Restrict(groups[i].chunks, DOMAIN groups[i].chunks \ {k})) \subseteq Range(groups[i].chunks)
    BY Zenon DEF Range, Restrict
  <2> QED BY <2>1, <2>2, <2>3
<1>6. Ids' = Ids /\ (\A e : EntryOf(e)' <=> EntryOf(e)) /\ \A j \in DOMAIN groups : Files(j)' \subseteq Files(j)
  BY <1>3, <1>5, Zenon DEF Ids, EntryOf, Files
<1>7. on_disk' = on_disk \/ on_disk' = on_disk \ {x}
  BY <1>2, Zenon
<1> HIDE DEF x
<1>8. x \in Files(i)
  BY <1>4, Zenon DEF x
<1>9. StoreInv'
  BY <1>3, <1>6, Zenon DEF UInv, StoreInv
<1>10. EntryInv'
  <2>1. \A e \in index.time_index : e.chunk # x
    BY <1>3, <1>8, Zenon DEF UInv, GroupInv
  <2> QED BY <1>3, <1>6, <1>7, <2>1, Zenon DEF UInv, EntryInv
<1>11. WriterInv'
  <2>1. ASSUME flush_pc = "register" PROVE Private(flush_chunk)'
    <3>1. Private(flush_chunk)
      BY <2>1, Zenon DEF UInv, WriterInv
    <3>2. flush_chunk # x
      BY <1>4, <1>8, <3>1, Zenon DEF Private
    <3> QED BY <1>3, <1>5, <1>6, <1>7, <3>1, <3>2, Zenon DEF Private
  <2> QED BY <1>3, <2>1, Zenon DEF UInv, WriterInv
<1>12. GroupInv'
  <2>1. First(groups') = First(groups) /\ First(groups) \subseteq DOMAIN groups
    BY <1>5, Zenon DEF First
  <2> QED BY <1>3, <1>5, <1>6, <2>1, Zenon DEF UInv, GroupInv
<1> QED BY <1>9, <1>10, <1>11, <1>12, Zenon DEF UInv

\* The end of a group leaves the other groups as they are.
LEMMA CompactNextUInv == ASSUME UInv, CompactNext PROVE UInv'
<1>1. PICK i \in First(groups) : groups' = Restrict(groups, DOMAIN groups \ {i})
  BY Zenon DEF CompactNext
<1>2. /\ UNCHANGED <<version, memtable, draining, flush_pc, flush_chunk, chunks, on_disk, index>>
      /\ compact_pc' \in {"idle", "merge"}
  BY Zenon DEF CompactNext, flushVars, fileVars
<1>3. DOMAIN groups' \subseteq DOMAIN groups /\ \A j \in DOMAIN groups' : groups'[j] = groups[j]
  BY <1>1, Zenon DEF Restrict
<1>4. Ids' = Ids /\ (\A e : EntryOf(e)' <=> EntryOf(e)) /\ \A j \in DOMAIN groups' : Files(j)' = Files(j)
  BY <1>2, <1>3, Zenon DEF Ids, EntryOf, Files
<1>5. StoreInv'
  BY <1>2, <1>4, Zenon DEF UInv, StoreInv
<1>6. EntryInv'
  BY <1>2, <1>4, Zenon DEF UInv, EntryInv
<1>7. WriterInv'
  BY <1>2, <1>3, <1>4, Zenon DEF UInv, WriterInv, Private
<1>8. GroupInv'
  BY <1>2, <1>3, <1>4, Zenon DEF UInv, GroupInv
<1> QED BY <1>5, <1>6, <1>7, <1>8, Zenon DEF UInv

\* Every step of Next keeps the invariant.
LEMMA NextUInv == UInv /\ [Next]_vars => UInv'
<1> SUFFICES ASSUME UInv, [Next]_vars PROVE UInv'
  BY Zenon
<1>1. ASSUME UNCHANGED <<version, memtable, flushVars, fileVars, index, compactVars>> PROVE UInv'
  <2>1. UNCHANGED <<draining, flush_pc, flush_chunk, fileVars, index, compactVars>>
    BY <1>1, Zenon DEF flushVars
  <2>2. StoreInv'
    BY <1>1, <2>1, Zenon DEF UInv, StoreInv, fileVars, Ids
  <2> QED BY <2>1, <2>2, FrameUInv, Zenon
<1>2. CASE \E s \in Series, t \in Times : Ingest(s, t)
  BY <1>2, IngestUInv, Zenon
<1>3. CASE Flush
  BY <1>3, FlushDrainUInv, FlushWriteUInv, FlushFailUInv, FlushRegisterUInv, Zenon DEF Flush
<1>4. CASE Compact
  BY <1>4, CompactPlanUInv, CompactMergeUInv, CompactFailUInv, CompactCommitUInv, CompactDeleteUInv,
     CompactNextUInv, Zenon DEF Compact
<1>5. CASE SaveSnapshot
  BY <1>1, <1>5, Zenon DEF SaveSnapshot
<1>6. CASE \E q \in Queries : Query(q)
  BY <1>1, <1>6, Zenon DEF Query, QueryStart, QueryScan, QueryIndex, QueryRead, QueryDone
<1>7. CASE UNCHANGED vars
  BY <1>1, <1>7, Zenon DEF vars
<1> QED BY <1>2, <1>3, <1>4, <1>5, <1>6, <1>7, Zenon DEF Next

\* The invariant holds in every reachable state, whatever is rewritten.
THEOREM StoreInvariant == Spec => []UInv
<1> QED BY InitUInv, NextUInv, PTL DEF Spec

\* Every entry of the index names a file that exists and has a record.
THEOREM EntriesHaveFiles == Spec => []IndexedFilesExist
<1>1. UInv => IndexedFilesExist
  BY Zenon DEF UInv, EntryInv, IndexedFilesExist
<1> QED BY <1>1, StoreInvariant, PTL

-----------------------------------------------------------------------------
(***************************************************************************)
(* The invariant behind FlushedStaysReachable: while no timestamp of a     *)
(* series is flushed twice, the registered files hold the flushed points,  *)
(* each point once, and the index has every entry of them.  Every step but *)
(* the commit of a merge keeps it; the commit is in ChunkStoreProofs.      *)
(***************************************************************************)

\* A point is in one place: written, being flushed, or flushed.
PlaceInv ==
  /\ flushed \subseteq Point
  /\ \A p \in memtable \cup draining \cup flushed : p.version <= version[Coord(p)]
  /\ memtable \cap draining = {} /\ memtable \cap flushed = {} /\ draining \cap flushed = {}
  /\ flush_pc \in {"idle", "write", "register"} /\ (flush_pc = "idle" => draining = {})

\* A chunk has statistics for series of its points only.
StatsInv ==
  \A x \in index.chunk_stats : \E p \in chunks[x[1]].points : p.series = x[2]

\* No file is in two places of the groups.
ApartInv ==
  /\ \A i \in DOMAIN groups :
       /\ DOMAIN groups[i].chunks \subseteq Nat
       /\ \A k, l \in DOMAIN groups[i].chunks : groups[i].chunks[k] = groups[i].chunks[l] => k = l
  /\ \A i, j \in DOMAIN groups : i # j => Files(i) \cap Files(j) = {}

\* The registered files share no point, have all their entries in the index, and
\* hold the flushed points.
CoverInv ==
  /\ \A c \in index.chunk_files : Entries(c, chunks[c].points) \subseteq index.time_index
  /\ flushed = UNION {chunks[c].points : c \in index.chunk_files}
  /\ \A c, d \in index.chunk_files : c # d => chunks[c].points \cap chunks[d].points = {}

\* The files of a group that is not committed are registered, and the group removes
\* their entries and no other.
Pending(i) == i \in DOMAIN groups /\ ~(compact_pc = "delete" /\ i \in First(groups))
PlanInv ==
  \A i \in DOMAIN groups : Pending(i) =>
    /\ Files(i) \subseteq index.chunk_files
    /\ \A c \in Files(i) : Entries(c, chunks[c].points) \subseteq groups[i].deregister
    /\ \A e \in groups[i].deregister : e.chunk \in Files(i)

\* The merged file holds the points of the group's files.
MergeInv ==
  compact_pc = "commit" =>
    \A i \in First(groups) : chunks[merged].points = UNION {chunks[c].points : c \in Files(i)}

KInv ==
  /\ UInv /\ PlaceInv /\ StatsInv /\ ApartInv
  /\ NotRewritten => CoverInv /\ PlanInv /\ MergeInv

-----------------------------------------------------------------------------
\* A non-empty set of numbers has its minimum among its members.
LEMMA MinExists ==
  ASSUME NEW T \in SUBSET Nat, T # {}
  PROVE  Min(T) \in T /\ \A y \in T : Min(T) <= y
<1> DEFINE R == {ss \in Nat \X Nat : ss[1] < ss[2]}
<1>1. IsWellFoundedOn(R, Nat)
  BY NatLessThanWellFounded, Zenon DEF OpToRel
<1>2. PICK x \in T : \A y \in T : <<y, x>> \notin R
  <2> HIDE DEF R
  <2> QED BY <1>1, WFMin, Zenon
<1>3. \A y \in T : x <= y
  <2> SUFFICES ASSUME NEW y \in T, ~(x <= y) PROVE FALSE
    BY Zenon
  <2>1. x \in Nat /\ y \in Nat /\ y < x
    OBVIOUS
  <2>2. <<y, x>> \in R
    BY <2>1, Zenon
  <2> QED BY <1>2, <2>2, Zenon
<1> HIDE DEF R
<1> QED BY <1>3, Zenon DEF Min

\* An entry starts at a point of its chunk and series.
LEMMA EntryStart ==
  ASSUME NEW c, NEW P \in SUBSET Point, NEW e \in Entries(c, P)
  PROVE  \E p \in P : p.series = e.series /\ p.time = e.start
<1> DEFINE T(s) == {p.time : p \in {q \in P : q.series = s}}
<1>1. PICK s \in {p.series : p \in P} :
        e = [series |-> s, chunk |-> c, start |-> Min(T(s)), end |-> Max(T(s))]
  BY Zenon DEF Entries
<1>2. T(s) \in SUBSET Nat /\ T(s) # {}
  BY StoreAssumption, Zenon DEF Point
<1>3. Min(T(s)) \in T(s)
  BY <1>2, MinExists, Zenon
<1>4. PICK p \in P : p.series = s /\ p.time = Min(T(s))
  BY <1>3, Zenon
<1> HIDE DEF T
<1> QED BY <1>1, <1>4, Zenon

\* The points of a file are points.
LEMMA FilePoints ==
  ASSUME UInv, NEW c \in Ids
  PROVE  chunks[c].points \subseteq Point
<1>1. chunks[c] \in File
  BY DEF UInv, StoreInv, Ids
<1> QED BY <1>1, Zenon DEF File

\* The initial state satisfies the invariant.
LEMMA InitKInv == Init => KInv
<1> SUFFICES ASSUME Init PROVE KInv
  BY Zenon
<1>1. UInv
  BY InitUInv, Zenon
<1>2. PlaceInv
  BY Zenon DEF Init, PlaceInv
<1>3. StatsInv
  BY Zenon DEF Init, StatsInv, EmptyIndex
<1>4. ApartInv /\ PlanInv
  BY Zenon DEF Init, ApartInv, PlanInv, NoGroups
<1>5. CoverInv
  BY Zenon DEF Init, CoverInv, EmptyIndex
<1>6. MergeInv
  BY Zenon DEF Init, MergeInv
<1> QED BY <1>1, <1>2, <1>3, <1>4, <1>5, <1>6, Zenon DEF KInv

\* Steps that leave the index, the groups and every file as they are.
LEMMA ChunksKept ==
  ASSUME KInv, \A c \in Ids : chunks'[c] = chunks[c],
         UNCHANGED <<index, groups, flushed>>, \A i : Pending(i)' => Pending(i)
  PROVE  StatsInv' /\ ApartInv' /\ (NotRewritten' => NotRewritten /\ CoverInv' /\ PlanInv')
<1>1. index.chunk_files \subseteq Ids /\ \A x \in index.chunk_stats : x[1] \in Ids
  BY Zenon DEF KInv, UInv, StoreInv, EntryInv
<1>2. StatsInv'
  BY <1>1, Zenon DEF KInv, StatsInv
<1>3. ApartInv'
  BY DEF KInv, ApartInv, Files
<1>4. ASSUME NotRewritten' PROVE NotRewritten /\ CoverInv' /\ PlanInv'
  <2>1. NotRewritten /\ CoverInv /\ PlanInv
    BY <1>4, Zenon DEF KInv, NotRewritten
  <2>2. \A c \in index.chunk_files : chunks'[c] = chunks[c]
    BY <1>1, Zenon
  <2>3. CoverInv'
    <3>1. \A c \in index'.chunk_files : Entries(c, chunks'[c].points) \subseteq index'.time_index
      BY <2>1, <2>2, Zenon DEF CoverInv
    <3>2. flushed' = UNION {chunks'[c].points : c \in index'.chunk_files}
      BY <2>1, <2>2 DEF CoverInv
    <3>3. \A c, d \in index'.chunk_files : c # d => chunks'[c].points \cap chunks'[d].points = {}
      BY <2>1, <2>2, Zenon DEF CoverInv
    <3> QED BY <3>1, <3>2, <3>3, Zenon DEF CoverInv
  <2>4. PlanInv'
    <3> SUFFICES ASSUME NEW i \in DOMAIN groups, Pending(i)
                 PROVE  /\ Files(i)' \subseteq index'.chunk_files
                        /\ \A c \in Files(i)' : Entries(c, chunks'[c].points) \subseteq groups'[i].deregister
                        /\ \A e \in groups'[i].deregister : e.chunk \in Files(i)'
      BY Zenon DEF PlanInv
    <3>1. Files(i)' = Files(i) /\ Files(i) \subseteq index.chunk_files
      BY <2>1, Zenon DEF PlanInv, Files
    <3> QED BY <2>1, <2>2, <3>1, Zenon DEF PlanInv
  <2> QED BY <2>1, <2>3, <2>4, Zenon
<1> QED BY <1>2, <1>3, <1>4, Zenon

\* Such a step also keeps a file that is being committed.
LEMMA MergeKept ==
  ASSUME KInv, \A c \in Ids : chunks'[c] = chunks[c],
         UNCHANGED <<groups, compact_pc, merged>>, NotRewritten
  PROVE  MergeInv'
<1> SUFFICES ASSUME compact_pc = "commit", NEW i \in First(groups)
             PROVE  chunks'[merged].points = UNION {chunks'[c].points : c \in Files(i)'}
  BY Zenon DEF MergeInv, First
<1>1. merged \in Ids /\ i \in DOMAIN groups /\ Files(i) \subseteq Ids /\ Files(i)' = Files(i)
  BY Zenon DEF KInv, UInv, WriterInv, GroupInv, Private, First, Files
<1>2. chunks[merged].points = UNION {chunks[c].points : c \in Files(i)}
  BY Zenon DEF KInv, MergeInv
<1> QED BY <1>1, <1>2

\* Steps that change neither files, index, groups nor the flushed points.
LEMMA FrameKInv ==
  ASSUME KInv, UInv', PlaceInv', UNCHANGED <<chunks, index, groups, flushed, compact_pc, merged>>
  PROVE  KInv'
<1>1. \A c \in Ids : chunks'[c] = chunks[c]
  BY Zenon
<1>2. \A i : Pending(i)' => Pending(i)
  BY Zenon DEF Pending, First
<1>3. StatsInv' /\ ApartInv' /\ (NotRewritten' => NotRewritten /\ CoverInv' /\ PlanInv')
  BY <1>1, <1>2, ChunksKept, Zenon
<1>4. NotRewritten => MergeInv'
  BY <1>1, MergeKept, Zenon
<1> QED BY <1>3, <1>4, Zenon DEF KInv

\* A written point is newer than every point of its timestamp.
LEMMA IngestKInv ==
  ASSUME KInv, NEW s \in Series, NEW t \in Times, Ingest(s, t)
  PROVE  KInv'
<1> DEFINE new == [series |-> s, time |-> t, version |-> version[<<s, t>>] + 1]
<1>1. UInv /\ UInv'
  BY IngestUInv, Zenon DEF KInv
<1>2. /\ version' = [version EXCEPT ![<<s, t>>] = @ + 1]
      /\ memtable' = {q \in memtable : Coord(q) # Coord(new)} \cup {new}
      /\ UNCHANGED <<draining, flush_pc, flush_chunk, chunks, on_disk, index, groups, flushed, compact_pc, merged>>
  BY Zenon DEF Ingest, Insert, flushVars, fileVars, compactVars
<1>3. version \in [Series \X Times -> Nat]
  BY <1>1, StoreAssumption DEF UInv, StoreInv
<1>4. new.series = s /\ new.time = t /\ new.version = version[<<s, t>>] + 1 /\ Coord(new) = <<s, t>>
  BY Zenon DEF Coord
<1> HIDE DEF new
<1>5. \A p \in Point : p.version \in Nat /\ Coord(p) \in Series \X Times
  BY DEF Point, Coord
<1>6. \A c \in Series \X Times : version[c] <= version'[c] /\ version[c] \in Nat /\ version'[c] \in Nat
  BY <1>2, <1>3
<1>7. memtable \subseteq Point /\ draining \subseteq Point /\ flushed \subseteq Point
  BY <1>1, Zenon DEF KInv, UInv, StoreInv, PlaceInv
<1>8. new.version = version'[Coord(new)]
  BY <1>2, <1>3, <1>4, Zenon
<1>9. \A p \in memtable \cup draining \cup flushed : p.version <= version'[Coord(p)]
  BY <1>5, <1>6, <1>7 DEF KInv, PlaceInv
<1>10. new \notin draining \cup flushed
  BY <1>3, <1>4 DEF KInv, PlaceInv
<1>11. PlaceInv'
  <2>1. \A p \in memtable' \cup draining' \cup flushed' : p = new \/ p \in memtable \cup draining \cup flushed
    BY <1>2, Zenon
  <2>2. \A p \in memtable' \cup draining' \cup flushed' : p.version <= version'[Coord(p)]
    <3>1. new.version <= version'[Coord(new)]
      BY <1>4, <1>6, <1>8
    <3> QED BY <1>9, <2>1, <3>1, Zenon
  <2> QED BY <1>2, <1>10, <2>2, Zenon DEF KInv, PlaceInv
<1> QED BY <1>1, <1>2, <1>11, FrameKInv, Zenon

\* A drain moves points of the memtable.
LEMMA FlushDrainKInv == ASSUME KInv, NEW i \in 1 .. NumShards, FlushDrain(i) PROVE KInv'
<1>1. UInv'
  BY FlushDrainUInv, Zenon DEF KInv
<1>2. PlaceInv'
  BY Zenon DEF KInv, PlaceInv, FlushDrain, InShard
<1>3. UNCHANGED <<chunks, index, groups, flushed, compact_pc, merged>>
  BY Zenon DEF FlushDrain, fileVars, compactVars
<1> QED BY <1>1, <1>2, <1>3, FrameKInv, Zenon

\* A failed flush drops its points.
LEMMA FlushFailKInv == ASSUME KInv, FlushFail PROVE KInv'
<1>1. UInv'
  BY FlushFailUInv, Zenon DEF KInv
<1>2. PlaceInv'
  BY Zenon DEF KInv, PlaceInv, FlushFail
<1>3. UNCHANGED <<chunks, index, groups, flushed, compact_pc, merged>>
  BY Zenon DEF FlushFail, fileVars, compactVars
<1> QED BY <1>1, <1>2, <1>3, FrameKInv, Zenon

\* A new file changes no registered file.
LEMMA FlushWriteKInv == ASSUME KInv, NEW n \in Sizes, FlushWrite(n) PROVE KInv'
<1>1. UInv'
  BY FlushWriteUInv, Zenon DEF KInv
<1>2. UNCHANGED <<index, groups, flushed, compact_pc, merged, version, memtable, draining>>
  BY Zenon DEF FlushWrite, compactVars
<1>3. \A c \in Ids : chunks'[c] = chunks[c]
  <2>1. chunks \in Seq(File) /\ draining \in SUBSET Point /\ WriteFile(draining, n)
    BY Zenon DEF KInv, UInv, StoreInv, FlushWrite
  <2> QED BY <2>1, NewFile, Zenon
<1>4. PlaceInv'
  BY <1>2, Zenon DEF KInv, PlaceInv, FlushWrite
<1>5. \A i : Pending(i)' => Pending(i)
  BY <1>2, Zenon DEF Pending, First
<1>6. StatsInv' /\ ApartInv' /\ (NotRewritten' => NotRewritten /\ CoverInv' /\ PlanInv')
  BY <1>2, <1>3, <1>5, ChunksKept, Zenon
<1>7. NotRewritten => MergeInv'
  BY <1>2, <1>3, MergeKept, Zenon
<1> QED BY <1>1, <1>4, <1>6, <1>7, Zenon DEF KInv

\* A flush adds its file: under NotRewritten its points are new, so it takes no slot of
\* another file.
LEMMA FlushRegisterKInv == ASSUME KInv, FlushRegister PROVE KInv'
<1> DEFINE f == flush_chunk
           new == Entries(f, draining)
<1>1. UInv /\ UInv'
  BY FlushRegisterUInv, Zenon DEF KInv
<1>2. /\ index'.time_index = {d \in index.time_index : ~\E e \in new : SameSlot(d, e)} \cup new
      /\ index'.chunk_stats = index.chunk_stats \cup {<<e.chunk, e.series>> : e \in new}
      /\ index'.chunk_files = index.chunk_files \cup {e.chunk : e \in new}
  BY Zenon DEF FlushRegister, Register
<1>3. /\ UNCHANGED <<version, memtable, chunks, groups, compact_pc, merged>>
      /\ flushed' = flushed \cup draining /\ draining' = {} /\ flush_pc' = "idle"
  BY Zenon DEF FlushRegister, fileVars, compactVars
<1>4. chunks[f].points = draining /\ f \in Ids /\ f \notin index.chunk_files
  BY <1>1, Zenon DEF UInv, WriterInv, FlushRegister, Private
<1>5. /\ \A e \in new : e.chunk = f /\ \E p \in draining : p.series = e.series
      /\ \A p \in draining : \E e \in new : e.series = p.series
  BY EntriesOfChunk, Zenon
<1>6. draining \in SUBSET Point /\ \A e \in new : \E p \in draining : p.series = e.series /\ p.time = e.start
  <2>1. draining \in SUBSET Point
    BY <1>1, Zenon DEF UInv, StoreInv
  <2> QED BY <2>1, EntryStart, Zenon
<1>7. new = Entries(f, chunks[f].points)
  BY <1>4, Zenon
<1> HIDE DEF new, f
<1>8. PlaceInv'
  BY <1>3, <1>6, Zenon DEF KInv, PlaceInv
<1>9. StatsInv'
  BY <1>2, <1>3, <1>4, <1>5 DEF KInv, StatsInv
<1>10. ApartInv'
  BY <1>3 DEF KInv, ApartInv, Files
<1>11. ASSUME NotRewritten' PROVE CoverInv' /\ PlanInv' /\ MergeInv'
  <2>1. NotRewritten /\ CoverInv /\ PlanInv /\ MergeInv
    BY <1>3, <1>11, Zenon DEF KInv, NotRewritten
  <2>2. \A p \in draining, q \in flushed : Coord(p) # Coord(q)
    BY <1>3, <1>11, Zenon DEF NotRewritten, KInv, PlaceInv
  <2>3. \A c \in index'.chunk_files : c \in index.chunk_files \/ c = f
    BY <1>2, <1>5, Zenon
  <2>4. \A c \in index.chunk_files : chunks[c].points \subseteq flushed
    BY <2>1, Zenon DEF CoverInv
  <2>5. ASSUME NEW c \in index.chunk_files, NEW d \in Entries(c, chunks[c].points)
        PROVE  d \in index'.time_index
    <3>1. c \in Ids
      BY <1>1, Zenon DEF UInv, StoreInv
    <3>2. chunks[c].points \in SUBSET Point
      BY <1>1, <3>1, FilePoints, Zenon
    <3>3. PICK q \in chunks[c].points : q.series = d.series /\ q.time = d.start
      BY <3>2, EntryStart, Zenon
    <3>4. d \in index.time_index
      BY <2>1, Zenon DEF CoverInv
    <3>5. ASSUME NEW e \in new, SameSlot(d, e) PROVE FALSE
      <4>1. PICK p \in draining : p.series = e.series /\ p.time = e.start
        BY <1>6, Zenon
      <4>2. Coord(p) = Coord(q)
        BY <3>3, <3>5, <4>1, Zenon DEF SameSlot, Coord
      <4> QED BY <2>2, <2>4, <4>2, Zenon
    <3> QED BY <1>2, <3>4, <3>5, Zenon
  <2>6. \A c \in index'.chunk_files : Entries(c, chunks[c].points) \subseteq index'.time_index
    <3>1. Entries(f, chunks[f].points) \subseteq index'.time_index
      BY <1>2, <1>7, Zenon
    <3> QED BY <2>3, <2>5, <3>1, Zenon
  <2>7. flushed' = UNION {chunks[c].points : c \in index'.chunk_files}
    <3>1. ASSUME NEW x \in flushed' PROVE \E c \in index'.chunk_files : x \in chunks[c].points
      <4>1. CASE x \in flushed
        BY <1>2, <2>1, <4>1, Zenon DEF CoverInv
      <4>2. CASE x \in draining
        BY <1>2, <1>4, <1>5, <4>2
      <4> QED BY <1>3, <4>1, <4>2, Zenon
    <3>2. \A c \in index'.chunk_files : chunks[c].points \subseteq flushed'
      BY <1>3, <1>4, <2>3, <2>4, Zenon
    <3> QED BY <3>1, <3>2, Zenon
  <2>8. \A c, d \in index'.chunk_files : c # d => chunks[c].points \cap chunks[d].points = {}
    <3>1. \A c \in index.chunk_files : chunks[c].points \cap draining = {}
      BY <2>4, Zenon DEF KInv, PlaceInv
    <3> QED BY <1>4, <2>1, <2>3, <3>1, Zenon DEF CoverInv
  <2>9. CoverInv'
    BY <1>3, <2>6, <2>7, <2>8, Zenon DEF CoverInv
  <2>10. PlanInv'
    BY <1>2, <1>3, <2>1, Zenon DEF PlanInv, Files, Pending
  <2>11. MergeInv'
    BY <1>3, <2>1 DEF MergeInv, Files
  <2> QED BY <2>9, <2>10, <2>11, Zenon
<1> QED BY <1>1, <1>8, <1>9, <1>10, <1>11, Zenon DEF KInv

\* The groups of a plan share no file and know every entry of their files.
LEMMA CompactPlanKInv == ASSUME KInv, CompactPlan PROVE KInv'
<1>1. UInv /\ UInv'
  BY CompactPlanUInv, Zenon DEF KInv
<1>2. /\ UNCHANGED <<version, memtable, draining, flush_pc, flush_chunk, chunks, on_disk, index, merged, flushed>>
      /\ compact_pc' = "merge"
  BY Zenon DEF CompactPlan, flushVars, fileVars
<1>3. PICK order \in Bijection(1 .. Cardinality(index.chunk_files), index.chunk_files) :
        \E starts \in SUBSET DOMAIN order :
        groups' = [s \in {t \in starts : Cardinality(DOMAIN MergeGroup(order, starts, t).chunks) >= MinThreshold}
                     |-> MergeGroup(order, starts, s)]
  BY Zenon DEF CompactPlan
<1>4. PICK starts \in SUBSET DOMAIN order :
        groups' = [s \in {t \in starts : Cardinality(DOMAIN MergeGroup(order, starts, t).chunks) >= MinThreshold}
                     |-> MergeGroup(order, starts, s)]
  BY <1>3, Zenon
<1>5. /\ DOMAIN order \subseteq Nat
      /\ \A k \in DOMAIN order : order[k] \in index.chunk_files
      /\ \A k, l \in DOMAIN order : order[k] = order[l] => k = l
  BY DEF Bijection, Injection, IsInjective
<1>6. DOMAIN groups' \subseteq starts /\ \A i \in DOMAIN groups' : groups'[i] = MergeGroup(order, starts, i)
  BY <1>4, Zenon
<1> DEFINE places(i) == {k \in DOMAIN order : i <= k /\ ~\E t \in starts : i < t /\ t <= k}
<1>7. ASSUME NEW i \in DOMAIN groups'
      PROVE  /\ DOMAIN groups'[i].chunks = places(i)
             /\ \A k \in places(i) : groups'[i].chunks[k] = order[k]
             /\ groups'[i].deregister = {e \in index.time_index : e.chunk \in Range(groups'[i].chunks)}
  <2> DEFINE files == Restrict(order, places(i))
  <2>1. groups'[i] = [chunks |-> files, deregister |-> {e \in index.time_index : e.chunk \in Range(files)}]
    BY <1>6, Zenon DEF MergeGroup
  <2>2. DOMAIN files = places(i) /\ \A k \in places(i) : files[k] = order[k]
    BY Zenon DEF Restrict
  <2> HIDE DEF files, places
  <2> QED BY <2>1, <2>2
<1>8. \A i, j \in DOMAIN groups' : i # j => places(i) \cap places(j) = {}
  BY <1>5, <1>6
<1>9. \A i \in DOMAIN groups' : places(i) \subseteq DOMAIN order
  BY Zenon
<1> HIDE DEF places
<1>10. \A i \in DOMAIN groups' : \A c \in Files(i)' : \E k \in places(i) : c = order[k]
  BY <1>7, Zenon DEF Files, Range
<1>11. PlaceInv'
  BY <1>2, Zenon DEF KInv, PlaceInv
<1>12. StatsInv'
  BY <1>2, Zenon DEF KInv, StatsInv
<1>13. ApartInv'
  <2>1. ASSUME NEW i \in DOMAIN groups'
        PROVE  /\ DOMAIN groups'[i].chunks \subseteq Nat
               /\ \A k, l \in DOMAIN groups'[i].chunks : groups'[i].chunks[k] = groups'[i].chunks[l] => k = l
    BY <1>5, <1>7, <1>9
  <2>2. ASSUME NEW i \in DOMAIN groups', NEW j \in DOMAIN groups', i # j
        PROVE  Files(i)' \cap Files(j)' = {}
    <3> SUFFICES ASSUME NEW c \in Files(i)', c \in Files(j)' PROVE FALSE
      BY Zenon
    <3>1. PICK k \in places(i) : c = order[k]
      BY <1>10, Zenon
    <3>2. PICK l \in places(j) : c = order[l]
      BY <1>10, Zenon
    <3>3. k = l
      BY <1>5, <1>9, <3>1, <3>2, Zenon
    <3> QED BY <1>8, <2>2, <3>3, Zenon
  <2> QED BY <2>1, <2>2, Zenon DEF ApartInv
<1>14. ASSUME NotRewritten' PROVE CoverInv' /\ PlanInv' /\ MergeInv'
  <2>1. CoverInv
    BY <1>2, <1>14, Zenon DEF KInv, NotRewritten
  <2>2. CoverInv'
    BY <1>2, <2>1, Zenon DEF CoverInv
  <2>3. MergeInv'
    BY <1>2, Zenon DEF MergeInv
  <2>4. ASSUME NEW i \in DOMAIN groups'
        PROVE  /\ Files(i)' \subseteq index'.chunk_files
               /\ \A c \in Files(i)' : Entries(c, chunks'[c].points) \subseteq groups'[i].deregister
               /\ \A e \in groups'[i].deregister : e.chunk \in Files(i)'
    <3>1. Files(i)' \subseteq index.chunk_files
      BY <1>5, <1>9, <1>10
    <3>2. groups'[i].deregister = {e \in index.time_index : e.chunk \in Files(i)'}
      BY <1>7, Zenon DEF Files
    <3>3. ASSUME NEW c \in Files(i)', NEW e \in Entries(c, chunks[c].points)
          PROVE  e \in groups'[i].deregister
      <4>1. e \in index.time_index
        BY <2>1, <3>1, Zenon DEF CoverInv
      <4>2. e.chunk = c
        BY EntriesOfChunk, Zenon
      <4> QED BY <3>2, <4>1, <4>2, Zenon
    <3> QED BY <1>2, <3>1, <3>2, <3>3, Zenon
  <2>5. PlanInv'
    BY <2>4, Zenon DEF PlanInv
  <2> QED BY <2>2, <2>3, <2>5, Zenon
<1> QED BY <1>1, <1>11, <1>12, <1>13, <1>14, Zenon DEF KInv

\* A cycle that ends early leaves files and index as they are.
LEMMA CompactFailKInv == ASSUME KInv, CompactFail PROVE KInv'
<1>1. UInv'
  BY CompactFailUInv, Zenon DEF KInv
<1>2. /\ UNCHANGED <<version, memtable, draining, flush_pc, chunks, index, flushed>>
      /\ compact_pc' = "idle" /\ DOMAIN groups' = {}
  BY Zenon DEF CompactFail, flushVars, fileVars, NoGroups
<1>3. PlaceInv'
  BY <1>2, Zenon DEF KInv, PlaceInv
<1>4. StatsInv'
  BY <1>2, Zenon DEF KInv, StatsInv
<1>5. ApartInv' /\ PlanInv'
  BY <1>2, Zenon DEF ApartInv, PlanInv
<1>6. MergeInv'
  BY <1>2, Zenon DEF MergeInv
<1>7. NotRewritten' => CoverInv'
  BY <1>2 DEF KInv, NotRewritten, CoverInv
<1> QED BY <1>1, <1>3, <1>4, <1>5, <1>6, <1>7, Zenon DEF KInv

\* Under NotRewritten no file of a group overwrites a point of another: the merged file
\* holds the points of all of them.
LEMMA MergedIsUnion ==
  ASSUME KInv, NotRewritten, NEW i \in DOMAIN groups, Pending(i)
  PROVE  MergedPoints(groups[i].chunks) = UNION {chunks[c].points : c \in Files(i)}
<1> DEFINE g == groups[i].chunks
<1>1. CoverInv /\ Files(i) \subseteq index.chunk_files
  BY Zenon DEF KInv, PlanInv
<1>2. \A k \in DOMAIN g : g[k] \in Files(i)
  BY Zenon DEF Files, Range
<1>3. \A c \in Files(i) : \E k \in DOMAIN g : c = g[k]
  BY Zenon DEF Files, Range
<1>4. \A k, l \in DOMAIN g : g[k] = g[l] => k = l
  BY Zenon DEF KInv, ApartInv
<1>5. DOMAIN g \subseteq Nat
  BY Zenon DEF KInv, ApartInv
<1> HIDE DEF g
<1>6. ASSUME NEW k \in DOMAIN g, NEW p \in chunks[g[k]].points, NEW l \in DOMAIN g,
             Coord(p) \in Coords(chunks[g[l]].points)
      PROVE  l = k
  <2>1. PICK q \in chunks[g[l]].points : Coord(p) = Coord(q)
    BY <1>6, Zenon DEF Coords
  <2>2. p \in flushed /\ q \in flushed
    BY <1>1, <1>2, Zenon DEF CoverInv
  <2>3. p = q
    BY <2>1, <2>2, Zenon DEF NotRewritten
  <2> QED BY <1>1, <1>2, <1>4, <2>3, Zenon DEF CoverInv
<1>7. ASSUME NEW p, NEW c \in Files(i), p \in chunks[c].points PROVE p \in MergedPoints(g)
  <2>1. PICK k \in DOMAIN g : c = g[k]
    BY <1>3, Zenon
  <2>2. \A l \in DOMAIN g : l > k => Coord(p) \notin Coords(chunks[g[l]].points)
    BY <1>5, <1>6, <1>7, <2>1
  <2> QED BY <1>7, <2>1, <2>2 DEF MergedPoints
<1>8. \A p \in MergedPoints(g) : \E c \in Files(i) : p \in chunks[c].points
  BY <1>2, Zenon DEF MergedPoints
<1>9. MergedPoints(g) = UNION {chunks[c].points : c \in Files(i)}
  BY <1>7, <1>8, Zenon
<1> QED BY <1>9, Zenon DEF g

\* The merged file holds what the group's files hold, and no registered file changes.
LEMMA CompactMergeKInv == ASSUME KInv, NEW n \in Sizes, CompactMerge(n) PROVE KInv'
<1>1. PICK i \in First(groups) : WriteFile(MergedPoints(groups[i].chunks), n)
  BY Zenon DEF CompactMerge
<1> DEFINE P == MergedPoints(groups[i].chunks)
<1>2. UInv /\ UInv'
  BY CompactMergeUInv, Zenon DEF KInv
<1>3. i \in DOMAIN groups /\ \A j \in First(groups) : j = i
  BY <1>2, FirstIsOne, Zenon DEF UInv, GroupInv
<1>4. chunks \in Seq(File) /\ P \in SUBSET Point
  BY <1>2, <1>3, MergedArePoints, Zenon DEF UInv, StoreInv, GroupInv, Files
<1>5. WriteFile(P, n)
  BY <1>1, Zenon
<1>6. Pending(i) /\ NotRewritten => P = UNION {chunks[c].points : c \in Files(i)}
  BY <1>3, MergedIsUnion, Zenon
<1> HIDE DEF P
<1>7. (\A c \in Ids : chunks'[c] = chunks[c]) /\ chunks'[Len(chunks')].points = P
  BY <1>4, <1>5, NewFile, Zenon
<1>8. /\ UNCHANGED <<version, memtable, draining, flush_pc, flush_chunk, index, groups, flushed>>
      /\ merged' = Len(chunks') /\ compact_pc = "merge" /\ compact_pc' = "commit"
  BY Zenon DEF CompactMerge, flushVars
<1>9. \A j : Pending(j)' => Pending(j)
  BY <1>8, Zenon DEF Pending, First
<1>10. StatsInv' /\ ApartInv' /\ (NotRewritten' => NotRewritten /\ CoverInv' /\ PlanInv')
  BY <1>7, <1>8, <1>9, ChunksKept, Zenon
<1>11. PlaceInv'
  BY <1>8, Zenon DEF KInv, PlaceInv
<1>12. ASSUME NotRewritten PROVE MergeInv'
  <2>1. Files(i) \subseteq Ids /\ Files(i)' = Files(i) /\ First(groups') = First(groups)
    BY <1>2, <1>3, <1>8, Zenon DEF UInv, GroupInv, Files, First
  <2>2. chunks'[merged'].points = UNION {chunks[c].points : c \in Files(i)}
    BY <1>3, <1>6, <1>7, <1>8, <1>12, Zenon DEF Pending
  <2>3. chunks'[merged'].points = UNION {chunks'[c].points : c \in Files(i)}
    BY <1>7, <2>1, <2>2, Zenon
  <2> QED BY <1>3, <2>1, <2>3, Zenon DEF MergeInv
<1> QED BY <1>2, <1>10, <1>11, <1>12, Zenon DEF KInv

\* Deleting the files of a committed group touches no pending group.
LEMMA CompactDeleteKInv == ASSUME KInv, CompactDelete PROVE KInv'
<1>1. UInv /\ UInv'
  BY CompactDeleteUInv, Zenon DEF KInv
<1>2. PICK i \in First(groups) : \E k \in First(groups[i].chunks) :
        groups' = [groups EXCEPT ![i] =
             [chunks |-> Restrict(@.chunks, DOMAIN @.chunks \ {k}), deregister |-> @.deregister]]
  BY Zenon DEF CompactDelete
<1>3. PICK k \in First(groups[i].chunks) :
        groups' = [groups EXCEPT ![i] =
             [chunks |-> Restrict(@.chunks, DOMAIN @.chunks \ {k}), deregister |-> @.deregister]]
  BY <1>2, Zenon
<1>4. /\ UNCHANGED <<version, memtable, draining, flush_pc, flush_chunk, chunks, index, merged, flushed>>
      /\ compact_pc = "delete" /\ compact_pc' = "delete"
  BY Zenon DEF CompactDelete, flushVars
<1>5. i \in DOMAIN groups
  BY Zenon DEF First
<1> DEFINE rest == Restrict(groups[i].chunks, DOMAIN groups[i].chunks \ {k})
<1>6. /\ DOMAIN groups' = DOMAIN groups
      /\ \A j \in DOMAIN groups : j # i => groups'[j] = groups[j]
      /\ groups'[i].chunks = rest
  BY <1>3, <1>5, Zenon
<1>7. /\ DOMAIN rest \subseteq DOMAIN groups[i].chunks
      /\ \A l \in DOMAIN rest : rest[l] = groups[i].chunks[l]
  BY Zenon DEF Restrict
<1> HIDE DEF rest
<1>8. Files(i)' \subseteq Files(i) /\ \A j \in DOMAIN groups : j # i => Files(j)' = Files(j)
  BY <1>6, <1>7, Zenon DEF Files, Range
<1>9. First(groups') = First(groups)
  BY <1>6, Zenon DEF First
<1>10. PlaceInv'
  BY <1>4, Zenon DEF KInv, PlaceInv
<1>11. StatsInv'
  BY <1>4, Zenon DEF KInv, StatsInv
<1>12. ApartInv'
  <2>1. ASSUME NEW j \in DOMAIN groups
        PROVE  /\ DOMAIN groups'[j].chunks \subseteq Nat
               /\ \A x, y \in DOMAIN groups'[j].chunks : groups'[j].chunks[x] = groups'[j].chunks[y] => x = y
    <3>1. CASE j = i
      BY <1>6, <1>7, <3>1 DEF KInv, ApartInv
    <3>2. CASE j # i
      BY <1>6, <3>2, Zenon DEF KInv, ApartInv
    <3> QED BY <3>1, <3>2, Zenon
  <2>2. \A j, l \in DOMAIN groups : j # l => Files(j)' \cap Files(l)' = {}
    <3>1. \A j \in DOMAIN groups : Files(j)' \subseteq Files(j)
      BY <1>8, Zenon
    <3> QED BY <3>1, Zenon DEF KInv, ApartInv
  <2> QED BY <1>6, <2>1, <2>2, Zenon DEF ApartInv
<1>13. ASSUME NotRewritten' PROVE CoverInv' /\ PlanInv' /\ MergeInv'
  <2>1. CoverInv /\ PlanInv
    BY <1>4, <1>13, Zenon DEF KInv, NotRewritten
  <2>2. CoverInv'
    BY <1>4, <2>1, Zenon DEF CoverInv
  <2>3. \A j : Pending(j)' => Pending(j) /\ j # i
    BY <1>4, <1>6, <1>9, Zenon DEF Pending
  <2>4. PlanInv'
    BY <1>4, <1>6, <1>8, <2>1, <2>3, Zenon DEF PlanInv
  <2>5. MergeInv'
    BY <1>4, Zenon DEF MergeInv
  <2> QED BY <2>2, <2>4, <2>5, Zenon
<1> QED BY <1>1, <1>10, <1>11, <1>12, <1>13, Zenon DEF KInv

\* The end of a group leaves the pending groups.
LEMMA CompactNextKInv == ASSUME KInv, CompactNext PROVE KInv'
<1>1. UInv /\ UInv'
  BY CompactNextUInv, Zenon DEF KInv
<1>2. PICK i \in First(groups) : groups' = Restrict(groups, DOMAIN groups \ {i})
  BY Zenon DEF CompactNext
<1>3. /\ UNCHANGED <<version, memtable, draining, flush_pc, flush_chunk, chunks, index, flushed>>
      /\ compact_pc' \in {"idle", "merge"}
  BY Zenon DEF CompactNext, flushVars, fileVars
<1>4. i \in DOMAIN groups /\ \A j \in First(groups) : j = i
  BY <1>1, FirstIsOne, Zenon DEF UInv, GroupInv
<1>5. DOMAIN groups' = DOMAIN groups \ {i} /\ \A j \in DOMAIN groups' : groups'[j] = groups[j]
  BY <1>2, Zenon DEF Restrict
<1>6. \A j \in DOMAIN groups' : j \in DOMAIN groups /\ Files(j)' = Files(j) /\ Pending(j)
  BY <1>4, <1>5, Zenon DEF Files, Pending
<1>7. PlaceInv'
  BY <1>3, Zenon DEF KInv, PlaceInv
<1>8. StatsInv'
  BY <1>3, Zenon DEF KInv, StatsInv
<1>9. ApartInv'
  BY <1>5, <1>6, Zenon DEF KInv, ApartInv
<1>10. ASSUME NotRewritten' PROVE CoverInv' /\ PlanInv' /\ MergeInv'
  <2>1. CoverInv /\ PlanInv
    BY <1>3, <1>10, Zenon DEF KInv, NotRewritten
  <2>2. CoverInv'
    BY <1>3, <2>1, Zenon DEF CoverInv
  <2>3. PlanInv'
    BY <1>3, <1>5, <1>6, <2>1, Zenon DEF PlanInv
  <2>4. MergeInv'
    BY <1>3, Zenon DEF MergeInv
  <2> QED BY <2>2, <2>3, <2>4, Zenon
<1> QED BY <1>1, <1>7, <1>8, <1>9, <1>10, Zenon DEF KInv

=============================================================================
