--------------------------- MODULE ChunkStoreProofs ---------------------------
(***************************************************************************)
(* While no timestamp of a series is flushed twice, the chunks hold        *)
(* exactly the flushed points at every moment of a compaction, for any     *)
(* number of series, files, merge groups and concurrent flushes.           *)
(***************************************************************************)
EXTENDS ChunkStoreInvariant

\* The commit of a merge exchanges the group's files for the merged one.  The merged
\* file's entries take slots of the group's files only; deregister then takes every
\* entry, every statistic and the file record of each of those files.
LEMMA CompactCommitKInv == ASSUME KInv, CompactCommit PROVE KInv'
<1> DEFINE m == merged
           new == Entries(m, chunks[m].points)
           reg == Register(index, new)
<1>1. UInv /\ UInv'
  BY CompactCommitUInv, Zenon DEF KInv
<1>2. PICK i \in First(groups) : index' = Deregister(reg, groups[i].deregister)
  BY Zenon DEF CompactCommit
<1>3. /\ UNCHANGED <<version, memtable, draining, flush_pc, flush_chunk, chunks, groups, merged, flushed>>
      /\ compact_pc = "commit" /\ compact_pc' = "delete"
  BY Zenon DEF CompactCommit, flushVars, fileVars
<1>4. i \in DOMAIN groups /\ (\A j \in First(groups) : j = i) /\ Pending(i)
  BY <1>1, <1>3, FirstIsOne, Zenon DEF UInv, GroupInv, Pending
<1>5. m \in Ids /\ m \notin index.chunk_files /\ m \notin Files(i)
  BY <1>1, <1>3, <1>4, Zenon DEF UInv, WriterInv, Private
<1> DEFINE old == groups[i].deregister
           stats == reg.chunk_stats \ {<<e.chunk, e.series>> : e \in old}
<1>6. /\ reg.time_index = {d \in index.time_index : ~\E e \in new : SameSlot(d, e)} \cup new
      /\ reg.chunk_stats = index.chunk_stats \cup {<<e.chunk, e.series>> : e \in new}
      /\ reg.chunk_files = index.chunk_files \cup {e.chunk : e \in new}
  BY Zenon DEF Register
<1>7. new = Entries(m, chunks[m].points)
  BY Zenon
<1> HIDE DEF m, new, reg
<1>8. /\ index'.time_index = {d \in reg.time_index : ~\E e \in old : SameSlot(d, e) /\ d.chunk = e.chunk}
      /\ index'.chunk_stats = stats
      /\ index'.chunk_files = reg.chunk_files \ {e.chunk : e \in {f \in old : \A s \in Series : <<f.chunk, s>> \notin stats}}
  BY <1>2, Zenon DEF Deregister
<1>9. /\ \A e \in new : e.chunk = m /\ \E p \in chunks[m].points : p.series = e.series
      /\ \A p \in chunks[m].points : \E e \in new : e.series = p.series
  BY <1>7, EntriesOfChunk
<1>10. \A x \in reg.chunk_stats : \E p \in chunks[x[1]].points : p.series = x[2]
  BY <1>6, <1>9 DEF KInv, StatsInv
<1>11. stats \subseteq reg.chunk_stats
  BY Zenon DEF stats
<1>12. \A e \in old : <<e.chunk, e.series>> \notin stats
  BY Zenon DEF stats
<1> HIDE DEF old, stats
<1>13. StatsInv'
  BY <1>3, <1>8, <1>10, <1>11, Zenon DEF StatsInv
<1>14. PlaceInv'
  BY <1>3, Zenon DEF KInv, PlaceInv
<1>15. ApartInv'
  BY <1>3 DEF KInv, ApartInv, Files
<1>16. ASSUME NotRewritten' PROVE CoverInv' /\ PlanInv' /\ MergeInv'
  <2>1. NotRewritten /\ CoverInv /\ PlanInv
    BY <1>3, <1>16, Zenon DEF KInv, NotRewritten
  <2>2. /\ Files(i) \subseteq index.chunk_files
        /\ \A c \in Files(i) : Entries(c, chunks[c].points) \subseteq old
        /\ \A e \in old : e.chunk \in Files(i)
    BY <1>4, <2>1, Zenon DEF PlanInv, old
  <2>3. chunks[m].points = UNION {chunks[c].points : c \in Files(i)}
    BY <1>3, <1>16, Zenon DEF KInv, MergeInv, NotRewritten, m
  <2>4. \A c \in index.chunk_files : chunks[c].points \subseteq flushed
    BY <2>1, Zenon DEF CoverInv
  <2>5. chunks[m].points \subseteq flushed
    BY <2>2, <2>3, <2>4
  \* A file of the group that has points loses its record., Zenon
  <2>6. ASSUME NEW c \in Files(i), NEW p \in chunks[c].points PROVE c \notin index'.chunk_files
    <3>1. /\ \A q \in chunks[c].points : \E e \in Entries(c, chunks[c].points) : e.series = q.series
          /\ \A e \in Entries(c, chunks[c].points) : e.chunk = c
      BY EntriesOfChunk, Zenon
    <3>2. \A q \in chunks[c].points : <<c, q.series>> \notin stats
      BY <1>12, <2>2, <3>1, Zenon
    <3>3. \A s : <<c, s>> \notin stats
      <4> SUFFICES ASSUME NEW s, <<c, s>> \in stats PROVE FALSE
        BY Zenon
      <4>1. PICK q \in chunks[c].points : q.series = s
        BY <1>10, <1>11, Zenon
      <4> QED BY <3>2, <4>1, Zenon
    <3>4. PICK e \in old : e.chunk = c
      BY <2>2, <3>1, Zenon
    <3> QED BY <1>8, <3>3, <3>4, Zenon
  <2>7. \A c \in index.chunk_files : c \notin Files(i) => c \in index'.chunk_files
    BY <1>6, <1>8, <2>2
  <2>8. \A p \in chunks[m].points : m \in index'.chunk_files
    BY <1>5, <1>6, <1>8, <1>9, <2>2
  <2>9. \A c \in index'.chunk_files : c \in index.chunk_files \/ c = m
    BY <1>6, <1>8, <1>9, Zenon
  <2>10. ASSUME NEW c \in index.chunk_files, c \notin Files(i), NEW d \in Entries(c, chunks[c].points)
         PROVE  d \in index'.time_index
    <3>1. c \in Ids
      BY <1>1, Zenon DEF UInv, StoreInv
    <3>2. chunks[c].points \in SUBSET Point /\ chunks[m].points \in SUBSET Point
      BY <1>1, <1>5, <3>1, FilePoints, Zenon
    <3>3. PICK q \in chunks[c].points : q.series = d.series /\ q.time = d.start
      BY <3>2, EntryStart, Zenon
    <3>4. d \in index.time_index /\ d.chunk = c
      <4>1. d.chunk = c
        BY EntriesOfChunk, Zenon
      <4> QED BY <2>1, <4>1, Zenon DEF CoverInv
    <3>5. ASSUME NEW e \in new, SameSlot(d, e) PROVE FALSE
      <4>1. PICK p \in chunks[m].points : p.series = e.series /\ p.time = e.start
        BY <1>7, <3>2, EntryStart, Zenon
      <4>2. PICK b \in Files(i) : p \in chunks[b].points
        BY <2>3, Zenon
      <4>3. Coord(p) = Coord(q)
        BY <3>3, <3>5, <4>1, Zenon DEF SameSlot, Coord
      <4>4. p = q
        BY <2>1, <2>4, <2>5, <4>3, Zenon DEF NotRewritten
      <4> QED BY <2>1, <2>2, <2>10, <4>2, <4>4, Zenon DEF CoverInv
    <3>6. d \in reg.time_index
      BY <1>6, <3>4, <3>5, Zenon
    <3> QED BY <1>8, <2>2, <2>10, <3>4, <3>6, Zenon
  <2>11. ASSUME NEW c \in index'.chunk_files PROVE Entries(c, chunks[c].points) \subseteq index'.time_index
    <3>1. CASE c = m
      BY <1>5, <1>6, <1>7, <1>8, <1>9, <2>2, <3>1
    <3>2. CASE c \in Files(i)
      <4>1. \A e \in Entries(c, chunks[c].points) : \E p \in chunks[c].points : p.series = e.series
        BY EntriesOfChunk
      <4> QED BY <2>6, <3>2, <4>1, Zenon
    <3>3. CASE c \in index.chunk_files /\ c \notin Files(i)
      BY <2>10, <3>3, Zenon
    <3> QED BY <2>9, <3>1, <3>2, <3>3, Zenon
  <2>12. flushed = UNION {chunks[c].points : c \in index'.chunk_files}
    <3>1. ASSUME NEW x \in flushed PROVE \E c \in index'.chunk_files : x \in chunks[c].points
      <4>1. PICK c \in index.chunk_files : x \in chunks[c].points
        BY <2>1, Zenon DEF CoverInv
      <4>2. CASE c \in Files(i)
        <5>1. x \in chunks[m].points
          BY <2>3, <4>1, <4>2, Zenon
        <5> QED BY <2>8, <5>1, Zenon
      <4> QED BY <2>7, <4>1, <4>2, Zenon
    <3>2. \A c \in index'.chunk_files : chunks[c].points \subseteq flushed
      BY <2>4, <2>5, <2>9, Zenon
    <3> QED BY <3>1, <3>2, Zenon
  <2>13. ASSUME NEW c \in index'.chunk_files, NEW d \in index'.chunk_files, c # d,
                NEW x \in chunks[c].points, x \in chunks[d].points
         PROVE  FALSE
    <3>1. ASSUME NEW b \in index'.chunk_files, b # m, x \in chunks[b].points, x \in chunks[m].points
          PROVE  FALSE
      <4>1. b \in index.chunk_files /\ b \notin Files(i)
        BY <2>6, <2>9, <3>1, Zenon
      <4>2. PICK a \in Files(i) : x \in chunks[a].points
        BY <2>3, <3>1, Zenon
      <4> QED BY <2>1, <2>2, <3>1, <4>1, <4>2, Zenon DEF CoverInv
    <3>2. CASE c = m
      BY <2>13, <3>1, <3>2, Zenon
    <3>3. CASE d = m
      BY <2>13, <3>1, <3>3, Zenon
    <3>4. CASE c # m /\ d # m
      BY <2>1, <2>9, <2>13, <3>4, Zenon DEF CoverInv
    <3> QED BY <3>2, <3>3, <3>4, Zenon
  <2>14. CoverInv'
    BY <1>3, <2>11, <2>12, <2>13, Zenon DEF CoverInv
  <2>15. ASSUME NEW j \in DOMAIN groups, Pending(j)'
         PROVE  /\ Files(j)' \subseteq index'.chunk_files
                /\ \A c \in Files(j)' : Entries(c, chunks'[c].points) \subseteq groups'[j].deregister
                /\ \A e \in groups'[j].deregister : e.chunk \in Files(j)'
    <3>1. j # i /\ Pending(j) /\ Files(j)' = Files(j)
      BY <1>3, <2>15, Zenon DEF Pending, Files, First
    <3>2. Files(j) \cap Files(i) = {}
      BY <1>4, <3>1, Zenon DEF KInv, ApartInv
    <3>3. Files(j) \subseteq index'.chunk_files
      BY <2>1, <2>7, <3>1, <3>2, Zenon DEF PlanInv
    <3> QED BY <1>3, <2>1, <3>1, <3>3, Zenon DEF PlanInv
  <2>16. PlanInv'
    BY <1>3, <2>15, Zenon DEF PlanInv
  <2>17. MergeInv'
    BY <1>3, Zenon DEF MergeInv
  <2> QED BY <2>14, <2>16, <2>17, Zenon
<1> QED BY <1>1, <1>13, <1>14, <1>15, <1>16, Zenon DEF KInv

\* Every step of Next keeps the invariant.
LEMMA NextKInv == KInv /\ [Next]_vars => KInv'
<1> SUFFICES ASSUME KInv, [Next]_vars PROVE KInv'
  BY Zenon
<1>1. ASSUME UNCHANGED <<version, memtable, flushVars, fileVars, index, compactVars, flushed>> PROVE KInv'
  <2>1. UInv'
    BY NextUInv, Zenon DEF KInv
  <2>2. PlaceInv'
    BY <1>1, Zenon DEF KInv, PlaceInv, flushVars
  <2>3. UNCHANGED <<chunks, index, groups, flushed, compact_pc, merged>>
    BY <1>1, Zenon DEF fileVars, compactVars
  <2> QED BY <2>1, <2>2, <2>3, FrameKInv, Zenon
<1>2. CASE \E s \in Series, t \in Times : Ingest(s, t)
  BY <1>2, IngestKInv, Zenon
<1>3. CASE Flush
  BY <1>3, FlushDrainKInv, FlushWriteKInv, FlushFailKInv, FlushRegisterKInv, Zenon DEF Flush
<1>4. CASE Compact
  BY <1>4, CompactPlanKInv, CompactMergeKInv, CompactFailKInv, CompactCommitKInv, CompactDeleteKInv,
     CompactNextKInv, Zenon DEF Compact
<1>5. CASE SaveSnapshot
  BY <1>1, <1>5, Zenon DEF SaveSnapshot
<1>6. CASE \E q \in Queries : Query(q)
  BY <1>1, <1>6, Zenon DEF Query, QueryStart, QueryScan, QueryIndex, QueryRead, QueryDone
<1>7. CASE UNCHANGED vars
  BY <1>1, <1>7, Zenon DEF vars
<1> QED BY <1>2, <1>3, <1>4, <1>5, <1>6, <1>7, Zenon DEF Next

\* The invariant makes the flushed points exactly what the index reaches.
LEMMA CoverIsReach == ASSUME KInv, NotRewritten PROVE Reachable(index) = flushed
<1>1. UInv /\ CoverInv
  BY Zenon DEF KInv
<1>2. \A e \in index.time_index : e.chunk \in on_disk \cap index.chunk_files
  BY <1>1, Zenon DEF UInv, EntryInv
<1>3. ASSUME NEW x \in Reachable(index) PROVE x \in flushed
  <2>1. PICK e \in index.time_index : x \in chunks[e.chunk].points
    BY Zenon DEF Reachable
  <2> QED BY <1>1, <1>2, <2>1, Zenon DEF CoverInv
<1>4. ASSUME NEW x \in flushed PROVE x \in Reachable(index)
  <2>1. PICK c \in index.chunk_files : x \in chunks[c].points
    BY <1>1, Zenon DEF CoverInv
  <2>2. PICK e \in Entries(c, chunks[c].points) : e.series = x.series /\ e.chunk = c
    BY <2>1, EntriesOfChunk
  <2>3. e \in index.time_index
    BY <1>1, Zenon DEF CoverInv
  <2> QED BY <1>2, <2>1, <2>2, <2>3 DEF Reachable
<1> QED BY <1>3, <1>4, Zenon

\* While no timestamp is flushed twice, a query over all time finds in the chunks
\* exactly the points of the registered flushes, whatever flushes and compactions do
\* at the same time.
THEOREM CompactionLosesNothing == Spec => []FlushedStaysReachable
<1>1. KInv => FlushedStaysReachable
  BY CoverIsReach, Zenon DEF FlushedStaysReachable
<1> QED BY <1>1, InitKInv, NextKInv, PTL DEF Spec

-----------------------------------------------------------------------------
(* Types, and what a query still finds *)

QueryState ==
  [pc : {"idle", "scan", "index", "read", "done"}, shard : 1 .. NumShards, lo : Nat, hi : Nat, todo : SUBSET Entry,
   answer : SUBSET Point, skipped : SUBSET Entry, expect : SUBSET Point]

\* What TypeOK says beyond KInv.
TypeInv ==
  /\ Len(chunks) <= MaxChunks /\ on_disk \subseteq Ids
  /\ \A d, e \in index.time_index : SameSlot(d, e) => d = e
  /\ IsIndex(snapshot)
  /\ flush_chunk \in 0 .. MaxChunks /\ merged \in 0 .. MaxChunks
  /\ compact_pc \in {"idle", "merge", "commit", "delete"}
  /\ query \in [Queries -> QueryState]

Scanning(Q) == Q.pc \in {"scan", "index"}

\* A point that query task Q has found, or still will: before the index scan because
\* it is flushed, after it because Q has yet to read a file that holds it, or has
\* failed to.
Finds(Q, p) ==
  \/ Coord(p) \in Coords(Q.answer)
  \/ Scanning(Q) /\ p \in flushed
  \/ ~Scanning(Q) /\ \E e \in Q.todo \cup Q.skipped :
       e.chunk \in Ids /\ e.series = p.series /\ p \in chunks[e.chunk].points

QueryInv ==
  NotRewritten =>
    \A q \in Queries :
      /\ query[q].pc = "done" => query[q].todo = {}
      /\ \A p \in query[q].expect : p.time \in query[q].lo .. query[q].hi /\ Finds(query[q], p)

\* A non-empty set of timestamps has its minimum and its maximum among its members.
LEMMA TimesBounds ==
  ASSUME NEW T \in SUBSET Times, T # {}
  PROVE  /\ Min(T) \in T /\ \A t \in T : Min(T) <= t
         /\ Max(T) \in T /\ \A t \in T : t <= Max(T)
<1>1. T \in SUBSET Nat /\ Times \in SUBSET Nat
  BY StoreAssumption, Zenon
<1>2. PICK last \in Nat : \A t \in T : t <= last
  BY <1>1, TimesAssumption, Zenon
<1> DEFINE U == {u \in Nat : \A t \in T : t <= u}
<1>3. U \in SUBSET Nat /\ U # {}
  BY <1>2, Zenon
<1>4. PICK u \in U : \A v \in U : u <= v
  <2> HIDE DEF U
  <2> QED BY <1>3, MinExists, Zenon
<1>5. u \in T
  <2> SUFFICES ASSUME u \notin T PROVE FALSE
    BY Zenon
  <2>1. \A t \in T : t \in Nat /\ t < u
    BY <1>1
  <2>2. u \in Nat /\ u # 0
    <3>1. PICK t \in T : TRUE
      BY Zenon
    <3> QED BY <2>1, <3>1
  <2>3. u - 1 \in U
    BY <2>1, <2>2
  <2> QED BY <1>4, <2>2, <2>3
<1>6. \E x \in T : \A y \in T : x >= y
  BY <1>1, <1>5, Zenon
<1>7. Max(T) \in T /\ \A y \in T : Max(T) >= y
  <2> HIDE DEF U
  <2> QED BY <1>6, Zenon DEF Max
<1>8. Min(T) \in T /\ \A y \in T : Min(T) <= y
  BY <1>1, MinExists, Zenon
<1> HIDE DEF U
<1> QED BY <1>1, <1>7, <1>8, Zenon

\* An entry spans the timestamps of its series in its chunk.
LEMMA EntryTimes ==
  ASSUME NEW c, NEW P \in SUBSET Point, NEW e \in Entries(c, P)
  PROVE  /\ e = [series |-> e.series, chunk |-> c, start |-> e.start, end |-> e.end]
         /\ e.series \in Series /\ e.start \in Times /\ e.end \in Times
         /\ \A p \in P : p.series = e.series => e.start <= p.time /\ p.time <= e.end
<1> DEFINE T(s) == {p.time : p \in {q \in P : q.series = s}}
<1>1. PICK s \in {p.series : p \in P} :
        e = [series |-> s, chunk |-> c, start |-> Min(T(s)), end |-> Max(T(s))]
  BY Zenon DEF Entries
<1>2. T(s) \in SUBSET Times /\ T(s) # {} /\ s \in Series
  BY Zenon DEF Point
<1>3. /\ Min(T(s)) \in T(s) /\ \A t \in T(s) : Min(T(s)) <= t
      /\ Max(T(s)) \in T(s) /\ \A t \in T(s) : t <= Max(T(s))
  BY <1>2, TimesBounds, Zenon
<1>4. \A p \in P : p.series = s => p.time \in T(s)
  BY Zenon
<1> HIDE DEF T
<1> QED BY <1>1, <1>2, <1>3, <1>4, Zenon

\* The entry of a written file is an entry of time_index's type.
LEMMA EntryTyped ==
  ASSUME UInv, Len(chunks) <= MaxChunks, NEW e, EntryOf(e)
  PROVE  e \in Entry
<1>1. e.chunk \in Ids /\ Len(chunks) \in Nat /\ e.chunk \in 1 .. MaxChunks
  BY StoreAssumption DEF EntryOf, Ids, UInv, StoreInv
<1>2. e \in Entries(e.chunk, chunks[e.chunk].points) /\ chunks[e.chunk].points \in SUBSET Point
  BY <1>1, FilePoints, Zenon DEF EntryOf
<1> DEFINE c == e.chunk
<1>3. c \in 1 .. MaxChunks
  BY <1>1, Zenon
<1> HIDE DEF c
<1>4. /\ e = [series |-> e.series, chunk |-> c, start |-> e.start, end |-> e.end]
      /\ e.series \in Series /\ e.start \in Times /\ e.end \in Times
  BY <1>2, EntryTimes, Zenon DEF c
<1> QED BY <1>3, <1>4 DEF Entry

\* The live index has its type.
LEMMA IndexTyped ==
  ASSUME UInv, Len(chunks) <= MaxChunks, \A d, e \in index.time_index : SameSlot(d, e) => d = e
  PROVE  IsIndex(index)
<1>1. Len(chunks) \in Nat /\ Ids \subseteq 1 .. MaxChunks
  BY StoreAssumption DEF Ids, UInv, StoreInv
<1>2. index.time_index \subseteq Entry
  BY EntryTyped, Zenon DEF UInv, EntryInv
<1>3. index.chunk_files \subseteq 1 .. MaxChunks
  BY <1>1, Zenon DEF UInv, StoreInv
<1>4. index.chunk_stats \subseteq (1 .. MaxChunks) \X Series
  BY <1>3, Zenon DEF UInv, EntryInv
<1> QED BY <1>2, <1>3, <1>4, Zenon DEF IsIndex

\* The invariant gives every variable its type.
LEMMA TypesHold == KInv /\ TypeInv => TypeOK
<1> SUFFICES ASSUME KInv, TypeInv PROVE TypeOK
  BY Zenon
<1>1. UInv /\ PlaceInv
  BY Zenon DEF KInv
<1>2. /\ version \in [Series \X Times -> 0 .. MaxVersions]
      /\ memtable \subseteq Point /\ draining \subseteq Point /\ flushed \subseteq Point
      /\ flush_pc \in {"idle", "write", "register"}
  BY <1>1, Zenon DEF UInv, StoreInv, PlaceInv
<1>3. chunks \in Seq(File) /\ DOMAIN chunks = Ids
  BY <1>1 DEF UInv, StoreInv, Ids
<1>4. \A c \in DOMAIN chunks : chunks[c].points \subseteq Point /\ chunks[c].size \in Sizes
  <2>1. \A c \in DOMAIN chunks : chunks[c] \in File
    BY <1>3
  <2> QED BY <2>1, Zenon DEF File
<1>5. IsIndex(index)
  BY <1>1, IndexTyped, Zenon DEF TypeInv
<1>6. \A i \in DOMAIN groups : groups[i].deregister \subseteq Entry
  BY <1>1, EntryTyped, Zenon DEF TypeInv, UInv, GroupInv
<1>7. \A q \in Queries :
       /\ query[q].pc \in {"idle", "scan", "index", "read", "done"} /\ query[q].shard \in 1 .. NumShards
       /\ query[q].todo \cup query[q].skipped \subseteq Entry
       /\ query[q].answer \cup query[q].expect \subseteq Point
  BY Zenon DEF TypeInv, QueryState
<1>8. /\ on_disk \subseteq DOMAIN chunks /\ IsIndex(snapshot)
      /\ flush_chunk \in 0 .. MaxChunks /\ merged \in 0 .. MaxChunks
      /\ compact_pc \in {"idle", "merge", "commit", "delete"}
  BY <1>3, Zenon DEF TypeInv
<1> QED BY <1>2, <1>4, <1>5, <1>6, <1>7, <1>8, Zenon DEF TypeOK

\* A written file keeps its id and its points, and flushed points stay flushed.
LEMMA FilesStay ==
  ASSUME KInv, [Next]_vars
  PROVE  /\ flushed \subseteq flushed' /\ \A c \in Ids : c \in Ids' /\ chunks'[c] = chunks[c]
         /\ Len(chunks) <= MaxChunks => Len(chunks') <= MaxChunks
         /\ on_disk \subseteq Ids => on_disk' \subseteq Ids'
<1>1. ASSUME UNCHANGED chunks, flushed \subseteq flushed', on_disk' \subseteq on_disk
      PROVE  /\ flushed \subseteq flushed' /\ \A c \in Ids : c \in Ids' /\ chunks'[c] = chunks[c]
             /\ Len(chunks) <= MaxChunks => Len(chunks') <= MaxChunks
             /\ on_disk \subseteq Ids => on_disk' \subseteq Ids'
  BY <1>1, Zenon DEF Ids
<1>2. ASSUME NEW P \in SUBSET Point, NEW n \in Sizes, WriteFile(P, n), UNCHANGED flushed
      PROVE  /\ flushed \subseteq flushed' /\ \A c \in Ids : c \in Ids' /\ chunks'[c] = chunks[c]
             /\ Len(chunks) <= MaxChunks => Len(chunks') <= MaxChunks
             /\ on_disk \subseteq Ids => on_disk' \subseteq Ids'
  <2>1. chunks \in Seq(File) /\ Len(chunks) < MaxChunks
    BY <1>2, Zenon DEF KInv, UInv, StoreInv, WriteFile
  <2>2. /\ Len(chunks) \in Nat /\ Len(chunks') = Len(chunks) + 1
        /\ \A c \in Ids : chunks'[c] = chunks[c]
        /\ on_disk' = on_disk \cup {Len(chunks')}
    BY <1>2, <2>1, NewFile, Zenon
  <2> QED BY <1>2, <2>1, <2>2, StoreAssumption DEF Ids
<1>3. CASE \E s \in Series, t \in Times : Ingest(s, t)
  BY <1>1, <1>3, Zenon DEF Ingest, fileVars
<1>4. CASE Flush
  <2>1. CASE \E n \in Sizes : FlushWrite(n)
    <3>1. draining \in SUBSET Point
      BY Zenon DEF KInv, UInv, StoreInv
    <3> QED BY <1>2, <2>1, <3>1, Zenon DEF FlushWrite
  <2>2. CASE (\E i \in 1 .. NumShards : FlushDrain(i)) \/ FlushFail \/ FlushRegister
    BY <1>1, <2>2, Zenon DEF FlushDrain, FlushFail, FlushRegister, fileVars
  <2> QED BY <1>4, <2>1, <2>2, Zenon DEF Flush
<1>5. CASE Compact
  <2>1. ASSUME NEW n \in Sizes, CompactMerge(n)
        PROVE  /\ flushed \subseteq flushed' /\ \A c \in Ids : c \in Ids' /\ chunks'[c] = chunks[c]
               /\ Len(chunks) <= MaxChunks => Len(chunks') <= MaxChunks
               /\ on_disk \subseteq Ids => on_disk' \subseteq Ids'
    <3>1. PICK i \in First(groups) : WriteFile(MergedPoints(groups[i].chunks), n)
      BY <2>1, Zenon DEF CompactMerge
    <3>2. MergedPoints(groups[i].chunks) \in SUBSET Point
      BY MergedArePoints, Zenon DEF KInv, UInv, StoreInv, GroupInv, Files, First
    <3> QED BY <1>2, <2>1, <3>1, <3>2, Zenon DEF CompactMerge
  <2>2. CASE CompactPlan \/ CompactFail \/ CompactCommit \/ CompactNext
    BY <1>1, <2>2, Zenon DEF CompactPlan, CompactFail, CompactCommit, CompactNext, fileVars
  <2>3. CASE CompactDelete
    <3>1. on_disk' \subseteq on_disk /\ UNCHANGED <<chunks, flushed>>
      BY <2>3, Zenon DEF CompactDelete
    <3> QED BY <1>1, <3>1, Zenon
  <2> QED BY <1>5, <2>1, <2>2, <2>3, Zenon DEF Compact
<1>6. CASE SaveSnapshot
  BY <1>1, <1>6, Zenon DEF SaveSnapshot, fileVars
<1>7. CASE \E q \in Queries : Query(q)
  BY <1>1, <1>7, Zenon DEF Query, QueryStart, QueryScan, QueryIndex, QueryRead, QueryDone, fileVars
<1>8. CASE UNCHANGED vars
  BY <1>1, <1>8, Zenon DEF vars, fileVars
<1> QED BY <1>3, <1>4, <1>5, <1>6, <1>7, <1>8, Zenon DEF Next

\* register and deregister leave one entry per series and start time: register is
\* given one entry for each series of a chunk.
LEMMA SlotsUnique ==
  ASSUME NEW idx, \A d, e \in idx.time_index : SameSlot(d, e) => d = e,
         NEW c, NEW P, NEW old
  PROVE  LET reg == Register(idx, Entries(c, P)) IN
         /\ \A d, e \in reg.time_index : SameSlot(d, e) => d = e
         /\ \A d, e \in Deregister(reg, old).time_index : SameSlot(d, e) => d = e
<1> DEFINE new == Entries(c, P)
           reg == Register(idx, new)
<1>1. \A d, e \in new : d.series = e.series => d = e
  BY EntriesOfChunk, Zenon
<1> HIDE DEF new
<1>2. reg.time_index = {d \in idx.time_index : ~\E e \in new : SameSlot(d, e)} \cup new
  BY Zenon DEF Register
<1>3. Deregister(reg, old).time_index \subseteq reg.time_index
  BY Zenon DEF Deregister
<1> HIDE DEF reg
<1>4. \A d, e \in reg.time_index : SameSlot(d, e) => d = e
  BY <1>1, <1>2, Zenon DEF SameSlot
<1> QED BY <1>3, <1>4, Zenon DEF reg, new

\* An idle task has its type, and expects nothing.
LEMMA IdleTyped == Idle \in QueryState /\ Idle.expect = {} /\ Idle.pc = "idle"
<1>1. 1 \in 1 .. NumShards
  BY ShardAssumption
<1> QED BY <1>1, Zenon DEF Idle, QueryState

\* The steps of a query, by what they do to its task; the other tasks stay.
LEMMA QuerySteps ==
  ASSUME KInv, TypeInv, NEW q \in Queries, Query(q)
  PROVE  /\ query' \in [Queries -> QueryState]
         /\ \A r \in Queries : r # q => query'[r] = query[r]
         /\ \/ query'[q].pc = "scan" /\ query'[q].expect = {}
            \/ /\ Scanning(query[q]) /\ Scanning(query'[q])
               /\ query'[q].lo = query[q].lo /\ query'[q].hi = query[q].hi
               /\ query[q].answer \subseteq query'[q].answer
               /\ \A p \in query'[q].expect :
                    \/ p \in query[q].expect
                    \/ p.time \in query[q].lo .. query[q].hi /\ (p \in query'[q].answer \/ p \in Reachable(index))
            \/ /\ query[q].pc = "index" /\ query'[q].pc = "read"
               /\ query'[q].todo \cup query'[q].skipped = Prune(index, query[q].lo, query[q].hi)
               /\ query'[q].answer = query[q].answer
               /\ query'[q].expect = query[q].expect
               /\ query'[q].lo = query[q].lo /\ query'[q].hi = query[q].hi
            \/ /\ query[q].pc = "read" /\ query'[q].pc = "read"
               /\ query[q].answer \subseteq query'[q].answer
               /\ \A e \in query[q].todo \cup query[q].skipped :
                    \/ e \in query'[q].todo \cup query'[q].skipped
                    \/ ReadSeries(e, query[q].lo, query[q].hi) \subseteq query'[q].answer
               /\ query'[q].expect = query[q].expect
               /\ query'[q].lo = query[q].lo /\ query'[q].hi = query[q].hi
            \/ /\ query[q].pc = "read" /\ query[q].todo = {} /\ query'[q].pc = "done"
               /\ query'[q].todo = {} /\ query'[q].skipped = query[q].skipped
               /\ query'[q].answer = query[q].answer
               /\ query'[q].expect = query[q].expect
               /\ query'[q].lo = query[q].lo /\ query'[q].hi = query[q].hi
<1>1. query \in [Queries -> QueryState] /\ query[q] \in QueryState /\ UInv
  BY Zenon DEF TypeInv, KInv
<1>2. \A c \in Ids : chunks[c].points \subseteq Point
  BY <1>1, FilePoints, Zenon
<1>3. index.time_index \subseteq Entry /\ \A e \in index.time_index : e.chunk \in Ids
  BY <1>1, EntryTyped, Zenon DEF TypeInv, UInv, EntryInv, EntryOf
<1>4. ASSUME NEW lo \in Times, NEW hi \in Times, QueryStart(q, lo, hi)
      PROVE  /\ query' \in [Queries -> QueryState]
             /\ \A r \in Queries : r # q => query'[r] = query[r]
             /\ query'[q].pc = "scan" /\ query'[q].expect = {}
  <2> DEFINE Q == [Idle EXCEPT !.pc = "scan", !.lo = lo, !.hi = hi]
  <2>1. query' = [query EXCEPT ![q] = Q]
    BY <1>4, Zenon DEF QueryStart
  <2>2. lo \in Nat /\ hi \in Nat
    BY StoreAssumption, Zenon
  <2>3. Idle \in QueryState /\ Idle.expect = {}
    BY IdleTyped, Zenon
  <2>4. Q \in QueryState /\ Q.pc = "scan" /\ Q.expect = Idle.expect
    BY <2>2, <2>3, Zenon DEF QueryState
  <2> HIDE DEF Q
  <2>5. query' \in [Queries -> QueryState] /\ \A r \in Queries : query'[r] = IF r = q THEN Q ELSE query[r]
    BY <1>1, <2>1, <2>4, Zenon
  <2> QED BY <2>3, <2>4, <2>5, Zenon
<1>5. ASSUME QueryScan(q)
      PROVE  /\ query' \in [Queries -> QueryState]
             /\ \A r \in Queries : r # q => query'[r] = query[r]
             /\ Scanning(query[q]) /\ Scanning(query'[q])
             /\ query'[q].lo = query[q].lo /\ query'[q].hi = query[q].hi
             /\ query[q].answer \subseteq query'[q].answer
             /\ \A p \in query'[q].expect :
                  \/ p \in query[q].expect
                  \/ p.time \in query[q].lo .. query[q].hi /\ (p \in query'[q].answer \/ p \in Reachable(index))
  <2> DEFINE Matching(P) == {p \in InShard(P, query[q].shard) : p.time \in query[q].lo .. query[q].hi}
             A == query[q].answer \cup Matching(memtable)
             X == query[q].expect \cup Matching(memtable \cup Reachable(index))
             c == IF query[q].shard = NumShards THEN "index" ELSE "scan"
             i == IF query[q].shard = NumShards THEN query[q].shard ELSE query[q].shard + 1
             Q == [query[q] EXCEPT !.answer = A, !.expect = X, !.pc = c, !.shard = i]
  <2>1. query[q].pc = "scan" /\ query' = [query EXCEPT ![q] = Q]
    BY <1>1, <1>5, Zenon DEF QueryScan
  <2>2. Reachable(index) \subseteq Point
    BY <1>2, <1>3, Zenon DEF Reachable
  <2>3. A \in SUBSET Point /\ X \in SUBSET Point
    BY <1>1, <2>2, Zenon DEF UInv, StoreInv, QueryState, InShard
  <2>4. query[q].answer \subseteq A
    BY Zenon
  <2>5. \A p \in X : \/ p \in query[q].expect
                     \/ p.time \in query[q].lo .. query[q].hi /\ (p \in A \/ p \in Reachable(index))
    BY Zenon DEF InShard
  <2>6. i \in 1 .. NumShards
    <3>1. query[q].shard \in 1 .. NumShards
      BY <1>1, Zenon DEF QueryState
    <3> QED BY <3>1, ShardAssumption
  <2>7. c \in {"scan", "index"}
    BY Zenon
  <2> HIDE DEF A, X, c, i
  <2>8. /\ Q \in QueryState /\ Q.pc = c /\ Q.answer = A /\ Q.expect = X
        /\ Q.lo = query[q].lo /\ Q.hi = query[q].hi
    BY <1>1, <2>3, <2>6, <2>7, Zenon DEF QueryState
  <2> HIDE DEF Q
  <2>9. query' \in [Queries -> QueryState] /\ \A r \in Queries : query'[r] = IF r = q THEN Q ELSE query[r]
    BY <1>1, <2>1, <2>8, Zenon
  <2>10. query'[q] = Q
    BY <2>9, Zenon
  <2> QED BY <2>1, <2>4, <2>5, <2>7, <2>8, <2>9, <2>10, Zenon DEF Scanning
<1>6. ASSUME QueryIndex(q)
      PROVE  /\ query' \in [Queries -> QueryState]
             /\ \A r \in Queries : r # q => query'[r] = query[r]
             /\ query[q].pc = "index" /\ query'[q].pc = "read"
             /\ query'[q].todo \cup query'[q].skipped = Prune(index, query[q].lo, query[q].hi)
             /\ query'[q].answer = query[q].answer
             /\ query'[q].expect = query[q].expect
             /\ query'[q].lo = query[q].lo /\ query'[q].hi = query[q].hi
  <2> DEFINE found == Prune(index, query[q].lo, query[q].hi)
             pathless == {e \in found : e.chunk \notin index.chunk_files}
             Q == [query[q] EXCEPT !.pc = "read", !.todo = found \ pathless, !.skipped = pathless]
  <2>1. query[q].pc = "index" /\ query' = [query EXCEPT ![q] = Q]
    BY <1>1, <1>6, Zenon DEF QueryIndex
  <2>2. found \in SUBSET Entry /\ pathless \in SUBSET found
    BY <1>3, Zenon DEF Prune
  <2>3. found \ pathless \in SUBSET Entry /\ pathless \in SUBSET Entry
    BY <2>2, Zenon
  <2>4. (found \ pathless) \cup pathless = found
    BY <2>2, Zenon
  <2> HIDE DEF pathless
  <2>5. found = Prune(index, query[q].lo, query[q].hi)
    BY Zenon
  <2> HIDE DEF found
  <2>6. Q \in QueryState /\ Q.pc = "read" /\ Q.todo = found \ pathless /\ Q.skipped = pathless
    BY <1>1, <2>3, Zenon DEF QueryState
  <2>7. /\ Q.answer = query[q].answer /\ Q.expect = query[q].expect
        /\ Q.lo = query[q].lo /\ Q.hi = query[q].hi
    BY <1>1, Zenon DEF QueryState
  <2> HIDE DEF Q
  <2>8. query' \in [Queries -> QueryState] /\ \A r \in Queries : query'[r] = IF r = q THEN Q ELSE query[r]
    BY <1>1, <2>1, <2>6, Zenon
  <2>9. query'[q] = Q
    BY <2>8, Zenon
  <2> QED BY <2>1, <2>4, <2>5, <2>6, <2>7, <2>8, <2>9, Zenon
<1>7. ASSUME QueryRead(q)
      PROVE  /\ query' \in [Queries -> QueryState]
             /\ \A r \in Queries : r # q => query'[r] = query[r]
             /\ query[q].pc = "read" /\ query'[q].pc = "read"
             /\ query[q].answer \subseteq query'[q].answer
             /\ \A e \in query[q].todo \cup query[q].skipped :
                  \/ e \in query'[q].todo \cup query'[q].skipped
                  \/ ReadSeries(e, query[q].lo, query[q].hi) \subseteq query'[q].answer
             /\ query'[q].expect = query[q].expect
             /\ query'[q].lo = query[q].lo /\ query'[q].hi = query[q].hi
  <2>1. PICK e \in query[q].todo :
          query' = [query EXCEPT ![q].todo = @ \ {e},
                   ![q].answer = IF e.chunk \in on_disk
                                   THEN @ \cup ReadSeries(e, query[q].lo, query[q].hi) ELSE @,
                   ![q].skipped = IF e.chunk \in on_disk THEN @ ELSE @ \cup {e}]
    BY <1>7, Zenon DEF QueryRead
  <2> DEFINE A == IF e.chunk \in on_disk
                    THEN query[q].answer \cup ReadSeries(e, query[q].lo, query[q].hi) ELSE query[q].answer
             K == IF e.chunk \in on_disk THEN query[q].skipped ELSE query[q].skipped \cup {e}
             Q == [query[q] EXCEPT !.todo = @ \ {e}, !.answer = A, !.skipped = K]
  <2>2. query[q].pc = "read" /\ query' = [query EXCEPT ![q] = Q]
    BY <1>1, <1>7, <2>1, Zenon DEF QueryRead
  <2>3. e \in Entry /\ K \in SUBSET Entry
    BY <1>1, Zenon DEF QueryState
  <2>4. A \in SUBSET Point
    <3>1. e.chunk \in on_disk => ReadSeries(e, query[q].lo, query[q].hi) \subseteq Point
      BY <1>2, Zenon DEF ReadSeries, TypeInv
    <3>2. query[q].answer \subseteq Point
      BY <1>1, Zenon DEF QueryState
    <3> QED BY <3>1, <3>2, Zenon
  <2>5. /\ query[q].answer \subseteq A /\ query[q].skipped \subseteq K
        /\ e \in K \/ ReadSeries(e, query[q].lo, query[q].hi) \subseteq A
    BY Zenon
  <2> HIDE DEF A, K
  <2>6. /\ Q \in QueryState /\ Q.pc = "read" /\ Q.todo = query[q].todo \ {e}
        /\ Q.skipped = K /\ Q.answer = A
    BY <1>1, <2>2, <2>3, <2>4, Zenon DEF QueryState
  <2>7. Q.expect = query[q].expect /\ Q.lo = query[q].lo /\ Q.hi = query[q].hi
    BY <1>1, Zenon DEF QueryState
  <2> HIDE DEF Q
  <2>8. query' \in [Queries -> QueryState] /\ \A r \in Queries : query'[r] = IF r = q THEN Q ELSE query[r]
    BY <1>1, <2>2, <2>6, Zenon
  <2>9. query'[q] = Q
    BY <2>8, Zenon
  <2> QED BY <2>2, <2>5, <2>6, <2>7, <2>8, <2>9, Zenon
<1>8. ASSUME QueryDone(q)
      PROVE  /\ query' \in [Queries -> QueryState]
             /\ \A r \in Queries : r # q => query'[r] = query[r]
             /\ query[q].pc = "read" /\ query[q].todo = {} /\ query'[q].pc = "done"
             /\ query'[q].todo = {} /\ query'[q].skipped = query[q].skipped
             /\ query'[q].answer = query[q].answer
             /\ query'[q].expect = query[q].expect
             /\ query'[q].lo = query[q].lo /\ query'[q].hi = query[q].hi
  BY <1>1, <1>8, Zenon DEF QueryDone, QueryState
<1> QED BY <1>4, <1>5, <1>6, <1>7, <1>8, Zenon DEF Query

\* Initially no file is written and no query runs.
LEMMA InitTypeInv == Init => TypeInv /\ QueryInv
<1> SUFFICES ASSUME Init PROVE TypeInv /\ QueryInv
  BY Zenon
<1>1. chunks = <<>> /\ Len(chunks) = 0 /\ on_disk = {} /\ index.time_index = {}
  BY Zenon DEF Init, EmptyIndex
<1>2. Idle \in QueryState /\ query = [q \in Queries |-> Idle]
  BY IdleTyped, Zenon DEF Init
<1>3. query \in [Queries -> QueryState]
  BY <1>2, Zenon
<1>4. IsIndex(snapshot)
  BY Zenon DEF Init, IsIndex, EmptyIndex
<1>5. flush_chunk \in 0 .. MaxChunks /\ merged \in 0 .. MaxChunks
  BY StoreAssumption DEF Init, NoChunk
<1>6. TypeInv
  BY <1>1, <1>3, <1>4, <1>5, StoreAssumption DEF TypeInv, Init
<1>7. QueryInv
  BY <1>2, IdleTyped, Zenon DEF QueryInv
<1> QED BY <1>6, <1>7, Zenon

\* Every step keeps the types.
LEMMA NextTypeInv == ASSUME KInv, TypeInv, [Next]_vars PROVE TypeInv'
<1>1. UInv /\ UInv' /\ Len(chunks) \in Nat /\ Len(chunks') \in Nat
  <2>1. UInv /\ UInv'
    BY NextUInv, Zenon DEF KInv
  <2> QED BY <2>1 DEF UInv, StoreInv
<1>2. Len(chunks') <= MaxChunks /\ on_disk' \subseteq Ids'
  BY FilesStay, Zenon DEF TypeInv
<1>3. ASSUME \A d, e \in index'.time_index : SameSlot(d, e) => d = e,
             IsIndex(snapshot'),
             flush_chunk' \in 0 .. MaxChunks, merged' \in 0 .. MaxChunks,
             compact_pc' \in {"idle", "merge", "commit", "delete"},
             query' \in [Queries -> QueryState]
      PROVE  TypeInv'
  <2>1. IsIndex(snapshot)'
    BY <1>3, Zenon DEF IsIndex
  <2>2. \A d, e \in index'.time_index : SameSlot(d, e)' => d = e
    BY <1>3, Zenon DEF SameSlot
  <2>3. QueryState' = QueryState
    BY Zenon DEF QueryState, Entry, Point
  <2> QED BY <1>2, <1>3, <2>1, <2>2, <2>3, Zenon DEF TypeInv, IsIndex, SameSlot
<1>4. /\ \A d, e \in index.time_index : SameSlot(d, e) => d = e
      /\ IsIndex(snapshot)
      /\ flush_chunk \in 0 .. MaxChunks /\ merged \in 0 .. MaxChunks
      /\ compact_pc \in {"idle", "merge", "commit", "delete"}
      /\ query \in [Queries -> QueryState]
  BY Zenon DEF TypeInv
<1>5. 0 \in 0 .. MaxChunks /\ Len(chunks') \in 0 .. MaxChunks
  BY <1>1, <1>2, StoreAssumption
<1>6. CASE \E s \in Series, t \in Times : Ingest(s, t)
  BY <1>3, <1>4, <1>6, Zenon DEF Ingest, flushVars, compactVars
<1>7. CASE Flush
  <2>1. CASE \E n \in Sizes : FlushWrite(n)
    BY <1>3, <1>4, <1>5, <2>1, Zenon DEF FlushWrite, compactVars
  <2>2. CASE (\E i \in 1 .. NumShards : FlushDrain(i)) \/ FlushFail
    BY <1>3, <1>4, <2>2, Zenon DEF FlushDrain, FlushFail, compactVars
  <2>3. CASE FlushRegister
    <3>1. \A d, e \in index'.time_index : SameSlot(d, e) => d = e
      BY <1>4, <2>3, SlotsUnique, Zenon DEF FlushRegister
    <3>2. flush_chunk' = 0 /\ UNCHANGED <<snapshot, merged, compact_pc, query>>
      BY <2>3, Zenon DEF FlushRegister, NoChunk, compactVars
    <3> QED BY <1>3, <1>4, <1>5, <3>1, <3>2, Zenon
  <2> QED BY <1>7, <2>1, <2>2, <2>3, Zenon DEF Flush
<1>8. CASE Compact
  <2>1. CASE CompactPlan
    BY <1>3, <1>4, <2>1, Zenon DEF CompactPlan, flushVars
  <2>2. CASE \E n \in Sizes : CompactMerge(n)
    <3>1. /\ merged' = Len(chunks') /\ compact_pc' = "commit"
          /\ UNCHANGED <<flush_chunk, index, snapshot, query>>
      BY <2>2, Zenon DEF CompactMerge, flushVars
    <3> QED BY <1>3, <1>4, <1>5, <3>1, Zenon
  <2>3. CASE CompactFail
    BY <1>3, <1>4, <2>3, Zenon DEF CompactFail, flushVars
  <2>4. CASE CompactCommit
    <3>1. \A d, e \in index'.time_index : SameSlot(d, e) => d = e
      BY <1>4, <2>4, SlotsUnique, Zenon DEF CompactCommit
    <3>2. compact_pc' = "delete" /\ UNCHANGED <<snapshot, merged, flush_chunk, query>>
      BY <2>4, Zenon DEF CompactCommit, flushVars
    <3> QED BY <1>3, <1>4, <3>1, <3>2, Zenon
  <2>5. CASE CompactDelete
    <3>1. UNCHANGED <<index, snapshot, merged, flush_chunk, query, compact_pc>>
      BY <2>5, Zenon DEF CompactDelete, flushVars
    <3> QED BY <1>3, <1>4, <3>1, Zenon
  <2>6. CASE CompactNext
    <3>1. /\ compact_pc' \in {"idle", "merge"} /\ merged' = 0
          /\ UNCHANGED <<index, snapshot, flush_chunk, query>>
      BY <2>6, Zenon DEF CompactNext, flushVars, NoChunk
    <3> QED BY <1>3, <1>4, <1>5, <3>1, Zenon
  <2> QED BY <1>8, <2>1, <2>2, <2>3, <2>4, <2>5, <2>6, Zenon DEF Compact
<1>9. CASE SaveSnapshot
  <2>1. IsIndex(index)
    BY <1>1, IndexTyped, Zenon DEF TypeInv
  <2>2. snapshot' = index /\ UNCHANGED <<index, flush_chunk, merged, compact_pc, query>>
    BY <1>9, Zenon DEF SaveSnapshot, flushVars, compactVars
  <2> QED BY <1>3, <1>4, <2>1, <2>2, Zenon
<1>10. CASE \E q \in Queries : Query(q)
  <2>1. query' \in [Queries -> QueryState]
    BY <1>10, QuerySteps, Zenon
  <2>2. UNCHANGED <<index, snapshot, flush_chunk, merged, compact_pc>>
    BY <1>10, Zenon DEF Query, QueryStart, QueryScan, QueryIndex, QueryRead, QueryDone, flushVars, compactVars
  <2> QED BY <1>3, <1>4, <2>1, <2>2, Zenon
<1>11. CASE UNCHANGED vars
  BY <1>3, <1>4, <1>11, Zenon DEF vars, flushVars, compactVars
<1> QED BY <1>6, <1>7, <1>8, <1>9, <1>10, <1>11, Zenon DEF Next

\* A point of a registered file is in the range of an entry that prune_chunks returns
\* for every range that has the point's timestamp.
LEMMA PruneFinds ==
  ASSUME KInv, CoverInv, NEW p \in flushed, NEW lo \in Nat, NEW hi \in Nat, p.time \in lo .. hi
  PROVE  \E e \in Prune(index, lo, hi) :
           e.chunk \in Ids /\ e.series = p.series /\ p \in chunks[e.chunk].points
<1>1. UInv /\ p \in Point
  BY Zenon DEF KInv, PlaceInv
<1>2. PICK c \in index.chunk_files : p \in chunks[c].points
  BY Zenon DEF CoverInv
<1>3. c \in Ids /\ chunks[c].points \in SUBSET Point
  BY <1>1, FilePoints, Zenon DEF UInv, StoreInv
<1>4. PICK e \in Entries(c, chunks[c].points) : e.series = p.series /\ e.chunk = c
  BY <1>2, EntriesOfChunk
<1>5. e.start \in Times /\ e.end \in Times /\ e.start <= p.time /\ p.time <= e.end
  BY <1>2, <1>3, <1>4, EntryTimes, Zenon
<1>6. e.start <= hi /\ lo <= e.end
  <2>1. p.time \in Nat /\ e.start \in Nat /\ e.end \in Nat
    BY <1>1, <1>5, StoreAssumption, Zenon DEF Point
  <2>2. lo <= p.time /\ p.time <= hi
    BY <2>1
  <2> QED BY <1>5, <2>1, <2>2
<1>7. e \in index.time_index
  BY Zenon DEF CoverInv
<1> QED BY <1>2, <1>3, <1>4, <1>6, <1>7, Zenon DEF Prune

\* Finds in the next state, for a task of this or of the next state.
FindsNext(Q, p) ==
  \/ Coord(p) \in Coords(Q.answer)
  \/ Scanning(Q) /\ p \in flushed'
  \/ ~Scanning(Q) /\ \E e \in Q.todo \cup Q.skipped :
       e.chunk \in Ids' /\ e.series = p.series /\ p \in chunks'[e.chunk].points

\* Every step keeps what the queries still find.
LEMMA NextQueryInv == ASSUME KInv, TypeInv, QueryInv, [Next]_vars PROVE QueryInv'
<1>1. /\ flushed \subseteq flushed'
      /\ \A c \in Ids : c \in Ids' /\ chunks'[c] = chunks[c]
  BY FilesStay, Zenon
<1> SUFFICES ASSUME NotRewritten', NEW q \in Queries
             PROVE  /\ query'[q].pc = "done" => query'[q].todo = {}
                    /\ \A p \in query'[q].expect :
                         p.time \in query'[q].lo .. query'[q].hi /\ FindsNext(query'[q], p)
  BY Zenon DEF QueryInv, Finds, FindsNext
<1>2. NotRewritten /\ CoverInv
  BY <1>1, Zenon DEF NotRewritten, KInv
<1>3. /\ query[q].pc = "done" => query[q].todo = {}
      /\ \A p \in query[q].expect : p.time \in query[q].lo .. query[q].hi /\ Finds(query[q], p)
  BY <1>2, Zenon DEF QueryInv
<1>4. \A p \in query[q].expect : FindsNext(query[q], p)
  BY <1>1, <1>3, Zenon DEF Finds, FindsNext
<1>5. CASE query'[q] = query[q]
  BY <1>3, <1>4, <1>5, Zenon
<1>6. CASE \E r \in Queries : Query(r)
  <2>1. PICK r \in Queries : Query(r)
    BY <1>6, Zenon
  <2>2. CASE r # q
    BY <1>5, <2>1, <2>2, QuerySteps, Zenon
  <2>3. CASE r = q
    <3>1. UNCHANGED <<chunks, flushed>> /\ Ids' = Ids
      BY <2>1, Zenon DEF Query, QueryStart, QueryScan, QueryIndex, QueryRead, QueryDone, fileVars, Ids
    <3>2. CASE query'[q].pc = "scan" /\ query'[q].expect = {}
      BY <3>2, Zenon
    <3>3. CASE /\ Scanning(query[q]) /\ Scanning(query'[q])
               /\ query'[q].lo = query[q].lo /\ query'[q].hi = query[q].hi
               /\ query[q].answer \subseteq query'[q].answer
               /\ \A p \in query'[q].expect :
                    \/ p \in query[q].expect
                    \/ p.time \in query[q].lo .. query[q].hi /\ (p \in query'[q].answer \/ p \in Reachable(index))
      <4> SUFFICES ASSUME NEW p \in query'[q].expect
                   PROVE  p.time \in query'[q].lo .. query'[q].hi /\ FindsNext(query'[q], p)
        BY <3>3, Zenon DEF Scanning
      <4>1. Reachable(index) = flushed
        BY <1>2, CoverIsReach, Zenon
      <4>2. CASE p \in query[q].expect
        <5>1. p.time \in query[q].lo .. query[q].hi /\ FindsNext(query[q], p)
          BY <1>3, <1>4, <4>2, Zenon
        <5>2. Coord(p) \in Coords(query[q].answer) \/ p \in flushed'
          BY <3>3, <5>1, Zenon DEF FindsNext
        <5>3. Coords(query[q].answer) \subseteq Coords(query'[q].answer)
          BY <3>3, Zenon DEF Coords
        <5> QED BY <3>3, <5>1, <5>2, <5>3, Zenon DEF FindsNext
      <4>3. CASE p.time \in query[q].lo .. query[q].hi /\ (p \in query'[q].answer \/ p \in flushed)
        BY <1>1, <3>3, <4>3, Zenon DEF FindsNext, Coords
      <4> QED BY <3>3, <4>1, <4>2, <4>3, Zenon
    <3>4. CASE /\ query[q].pc = "index" /\ query'[q].pc = "read"
               /\ query'[q].todo \cup query'[q].skipped = Prune(index, query[q].lo, query[q].hi)
               /\ query'[q].answer = query[q].answer
               /\ query'[q].expect = query[q].expect
               /\ query'[q].lo = query[q].lo /\ query'[q].hi = query[q].hi
      <4> SUFFICES ASSUME NEW p \in query[q].expect
                   PROVE  p.time \in query'[q].lo .. query'[q].hi /\ FindsNext(query'[q], p)
        BY <3>4, Zenon
      <4>1. query[q].lo \in Nat /\ query[q].hi \in Nat
        BY Zenon DEF TypeInv, QueryState
      <4>2. p.time \in query[q].lo .. query[q].hi /\ (Coord(p) \in Coords(query[q].answer) \/ p \in flushed)
        BY <1>3, <3>4, Zenon DEF Finds, Scanning
      <4>3. CASE Coord(p) \in Coords(query[q].answer)
        BY <3>4, <4>2, <4>3, Zenon DEF FindsNext
      <4>4. CASE p \in flushed
        <5>1. PICK e \in query'[q].todo \cup query'[q].skipped :
                e.chunk \in Ids /\ e.series = p.series /\ p \in chunks[e.chunk].points
          BY <1>2, <3>4, <4>1, <4>2, <4>4, PruneFinds, Zenon
        <5> QED BY <3>1, <3>4, <4>2, <5>1, Zenon DEF FindsNext
      <4> QED BY <4>2, <4>3, <4>4, Zenon
    <3>5. CASE /\ query[q].pc = "read" /\ query'[q].pc = "read"
               /\ query[q].answer \subseteq query'[q].answer
               /\ \A e \in query[q].todo \cup query[q].skipped :
                    \/ e \in query'[q].todo \cup query'[q].skipped
                    \/ ReadSeries(e, query[q].lo, query[q].hi) \subseteq query'[q].answer
               /\ query'[q].expect = query[q].expect
               /\ query'[q].lo = query[q].lo /\ query'[q].hi = query[q].hi
      <4> SUFFICES ASSUME NEW p \in query[q].expect
                   PROVE  p.time \in query'[q].lo .. query'[q].hi /\ FindsNext(query'[q], p)
        BY <3>5, Zenon
      <4>1. p.time \in query[q].lo .. query[q].hi
        BY <1>3, Zenon
      <4>2. CASE Coord(p) \in Coords(query[q].answer)
        BY <3>5, <4>1, <4>2, Zenon DEF FindsNext, Coords
      <4>3. CASE Coord(p) \notin Coords(query[q].answer)
        <5>1. PICK e \in query[q].todo \cup query[q].skipped :
                e.chunk \in Ids /\ e.series = p.series /\ p \in chunks[e.chunk].points
          BY <1>3, <3>5, <4>3, Zenon DEF Finds, Scanning
        <5>2. p \in ReadSeries(e, query[q].lo, query[q].hi)
          BY <4>1, <5>1, Zenon DEF ReadSeries
        <5>3. CASE e \in query'[q].todo \cup query'[q].skipped
          BY <3>1, <3>5, <4>1, <5>1, <5>3, Zenon DEF FindsNext, Scanning
        <5>4. CASE ReadSeries(e, query[q].lo, query[q].hi) \subseteq query'[q].answer
          BY <3>5, <4>1, <5>2, <5>4, Zenon DEF FindsNext, Coords
        <5> QED BY <3>5, <5>3, <5>4, Zenon
      <4> QED BY <4>2, <4>3, Zenon
    <3>6. CASE /\ query[q].pc = "read" /\ query[q].todo = {} /\ query'[q].pc = "done"
               /\ query'[q].todo = {} /\ query'[q].skipped = query[q].skipped
               /\ query'[q].answer = query[q].answer
               /\ query'[q].expect = query[q].expect
               /\ query'[q].lo = query[q].lo /\ query'[q].hi = query[q].hi
      BY <1>3, <1>4, <3>6, Zenon DEF FindsNext, Scanning
    <3> QED BY <2>1, <2>3, <3>2, <3>3, <3>4, <3>5, <3>6, QuerySteps, Zenon
  <2> QED BY <2>2, <2>3, Zenon
<1>7. CASE UNCHANGED query
  BY <1>5, <1>7, Zenon
<1>8. UNCHANGED query \/ \E r \in Queries : Query(r)
  BY Zenon DEF Next, vars, Ingest, Flush, FlushDrain, FlushWrite, FlushFail, FlushRegister, SaveSnapshot,
     Compact, CompactPlan, CompactMerge, CompactFail, CompactCommit, CompactDelete, CompactNext
<1> QED BY <1>6, <1>7, <1>8, Zenon

\* The store's invariant with the types and the queries.
THEOREM QueryInvariant == Spec => [](KInv /\ TypeInv /\ QueryInv)
<1>1. Init => KInv /\ TypeInv /\ QueryInv
  BY InitKInv, InitTypeInv, Zenon
<1>2. KInv /\ TypeInv /\ QueryInv /\ [Next]_vars => (KInv /\ TypeInv /\ QueryInv)'
  BY NextKInv, NextTypeInv, NextQueryInv, Zenon
<1> QED BY <1>1, <1>2, PTL DEF Spec

\* Files, index, snapshot, compaction groups and query tasks always have their types;
\* both indexes have one entry per series and start time.
THEOREM StoreTypeCorrect == Spec => []TypeOK
BY QueryInvariant, TypesHold, PTL

\* While no timestamp is flushed twice, a query that closes without an unreadable
\* file answers every point in its range that the memtable of the point's shard or
\* the index held when the query scanned that shard, whatever flushes and compactions
\* do between its scans.
THEOREM QueriesMissNothing == Spec => []QueryMissesNothingSettled
<1>1. KInv /\ TypeInv /\ QueryInv => QueryMissesNothingSettled
  <2> SUFFICES ASSUME QueryInv, NotRewritten, NEW q \in Queries,
                      query[q].pc = "done", query[q].skipped = {}
               PROVE  Coords(query[q].expect) \subseteq Coords(query[q].answer)
    BY Zenon DEF QueryMissesNothingSettled
  <2>1. query[q].todo = {} /\ \A p \in query[q].expect : Finds(query[q], p)
    BY Zenon DEF QueryInv
  <2>2. \A p \in query[q].expect : Coord(p) \in Coords(query[q].answer)
    BY <2>1, Zenon DEF Finds, Scanning
  <2> QED BY <2>2, Zenon DEF Coords
<1> QED BY <1>1, QueryInvariant, PTL

=============================================================================
