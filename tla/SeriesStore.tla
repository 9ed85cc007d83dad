----------------------------- MODULE SeriesStore -----------------------------
(***************************************************************************)
(* What is stored under a series key and how it is found again: the        *)
(* memtable with its size accounting, chunk files cell by cell, the        *)
(* ChunkIndex with its registry, tag index and statistics, the merge of    *)
(* chunk files, and the lookup of a query by metric, tags, time and value. *)
(*                                                                         *)
(* One task: a flush, a merge and a query are one step each.  Their        *)
(* interleavings are those of ChunkStore.                                  *)
(***************************************************************************)
EXTENDS ChunkFile, TLC

CONSTANTS Keys,            \* series keys
          Times,           \* timestamps
          FlushThreshold,  \* memtable_flush_threshold, in bytes
          MinThreshold,    \* compaction_min_threshold
          MaxWrites        \* bound: points inserted

ASSUME KeysAssumption ==
  /\ Times \subseteq I64MIN .. I64MAX
  /\ FlushThreshold \in Nat /\ MinThreshold \in Nat \ {0} /\ MaxWrites \in Nat

VARIABLES
  entries, size_bytes, entry_count,   \* the Memtable
  files,       \* the cells of each chunk file
  last_chunk,
  index,       \* the ChunkIndex
  \* observation only
  written,     \* every point inserted, in order; its value is its place
  contents,    \* the points each chunk file was written from
  again        \* a timestamp was written again after it had been flushed

memtableVars == <<entries, size_bytes, entry_count>>
vars == <<memtableVars, files, last_chunk, index, written, contents, again>>

Get(map, x, default) == IF x \in DOMAIN map THEN map[x] ELSE default

-----------------------------------------------------------------------------
(* Memtable *)

PointBytes == 32   \* twice the size of (i64, f64)
U64_SIZE == 8
StringBytes(key) ==
  Len(key.metric_name) + FoldSet(LAMBDA kv, n : n + Len(kv[1]) + Len(kv[2]), 0, Pairs(key.tags))

\* binary_search_by_key, then overwrite or insert in order
InsertSorted(vec, t, v) ==
  SelectSeq(vec, LAMBDA p : p[1] < t) \o << <<t, v>> >> \o SelectSeq(vec, LAMBDA p : p[1] > t)

\* Mutant: an overwritten point is counted again.
MemtableInsert_Counts(key, t, v) ==
  LET vec == Get(entries, key, <<>>) IN
  /\ entries' = (key :> InsertSorted(vec, t, v)) @@ entries
  /\ size_bytes' = size_bytes + PointBytes
       + (IF key \in DOMAIN entries THEN 0 ELSE StringBytes(key) + U64_SIZE)
  /\ entry_count' = entry_count + 1

MemtableInsert(key, t, v) ==
  LET vec == Get(entries, key, <<>>)
      found == \E i \in DOMAIN vec : vec[i][1] = t IN
  /\ entries' = (key :> InsertSorted(vec, t, v)) @@ entries
  /\ size_bytes' = IF found THEN size_bytes ELSE size_bytes + PointBytes
       + (IF key \in DOMAIN entries THEN 0 ELSE StringBytes(key) + U64_SIZE)
  /\ entry_count' = IF found THEN entry_count ELSE entry_count + 1

Insert(key, t) ==
  /\ Len(written) < MaxWrites
  /\ written' = Append(written, [key |-> key, time |-> t])
  /\ MemtableInsert(key, t, Len(written'))
  /\ again' = (again \/ \E c \in DOMAIN contents :
                          \E p \in contents[c] : p.key = key /\ p.time = t)
  /\ UNCHANGED <<files, last_chunk, index, contents>>

should_flush == size_bytes >= FlushThreshold

-----------------------------------------------------------------------------
(* ChunkIndex *)

EmptyIndex == [series_registry |-> EmptyMap, time_index |-> EmptyMap, tag_index |-> EmptyMap,
               chunk_stats |-> EmptyMap, chunk_files |-> EmptyMap]

\* The tag index with the tags of one more series
AddTags(tag_index, key, id) ==
  [kv \in DOMAIN tag_index \cup Pairs(key.tags) |->
     Get(tag_index, kv, {}) \cup (IF kv \in Pairs(key.tags) THEN {id} ELSE {})]

register(idx, chunk, size, r) ==
  LET id == SeriesId(r.key)
      entry == [chunk |-> chunk, series |-> id, start |-> r.time_start, end |-> r.time_end] IN
  [series_registry |-> (id :> r.key) @@ idx.series_registry,
   tag_index |-> IF id \in DOMAIN idx.series_registry THEN idx.tag_index
                 ELSE AddTags(idx.tag_index, r.key, id),
   time_index |-> (id :> ((r.time_start :> entry) @@ Get(idx.time_index, id, EmptyMap))) @@ idx.time_index,
   chunk_stats |-> (<<chunk, id>> :> r.stats) @@ idx.chunk_stats,
   chunk_files |-> (chunk :> size) @@ idx.chunk_files]

\* Mutant: whatever has the time is removed, the entry of the merged chunk too.
deregister_Unguarded(idx, e) ==
  LET stats == Restrict(idx.chunk_stats, DOMAIN idx.chunk_stats \ {<<e.chunk, e.series>>}) IN
  [idx EXCEPT
     !.time_index[e.series] = Restrict(@, DOMAIN @ \ {e.start}),
     !.chunk_stats = stats,
     !.chunk_files = Restrict(@, {c \in DOMAIN @ : c # e.chunk \/ \E x \in DOMAIN stats : x[1] = c})]

deregister(idx, e) ==
  LET stats == Restrict(idx.chunk_stats, DOMAIN idx.chunk_stats \ {<<e.chunk, e.series>>}) IN
  [idx EXCEPT
     !.time_index[e.series] = Restrict(@, {t \in DOMAIN @ : ~(t = e.start /\ @[t].chunk = e.chunk)}),
     !.chunk_stats = stats,
     !.chunk_files = Restrict(@, {c \in DOMAIN @ : c # e.chunk \/ \E x \in DOMAIN stats : x[1] = c})]

IndexEntries(idx) ==
  UNION {{idx.time_index[id][t] : t \in DOMAIN idx.time_index[id]} : id \in DOMAIN idx.time_index}

\* ChunkIndex::resolve_series: a scan without filters, else the intersection of
\* the sets of the tag index
IndexResolve(idx, metric, filters) ==
  {id \in DOMAIN idx.series_registry :
     /\ idx.series_registry[id].metric_name = metric
     /\ \A kv \in filters : id \in Get(idx.tag_index, kv, {})}

\* ValuePredicate
Predicates == {[type |-> type, lo |-> lo, hi |-> hi] :
                 type \in {"GreaterThan", "LessThan", "Between"},
                 lo \in 0 .. MaxWrites + 1, hi \in 0 .. MaxWrites + 1}

\* Mutant: the range is open at both ends.
matches_Open(p, min_val, max_val) ==
  \/ p.type = "GreaterThan" /\ max_val > p.lo
  \/ p.type = "LessThan" /\ min_val < p.lo
  \/ p.type = "Between" /\ min_val < p.hi /\ max_val > p.lo

matches(p, min_val, max_val) ==
  \/ p.type = "GreaterThan" /\ max_val > p.lo
  \/ p.type = "LessThan" /\ min_val < p.lo
  \/ p.type = "Between" /\ min_val <= p.hi /\ max_val >= p.lo

satisfies(p, value) ==
  \/ p.type = "GreaterThan" /\ value > p.lo
  \/ p.type = "LessThan" /\ value < p.lo
  \/ p.type = "Between" /\ value >= p.lo /\ value <= p.hi

\* prune_chunks; P is a set of at most one predicate
prune_chunks(idx, id, lo, hi, P) ==
  {e \in Range(Get(idx.time_index, id, EmptyMap)) :
     /\ e.start <= hi /\ lo <= e.end
     /\ \A p \in P : <<e.chunk, e.series>> \in DOMAIN idx.chunk_stats =>
          LET s == idx.chunk_stats[e.chunk, e.series] IN matches(p, s.min_value, s.max_value)}

\* save_index, then load_index with rebuild_index: all but tag_index is saved.
rebuild_index(idx) ==
  [idx EXCEPT !.tag_index = FoldSet(LAMBDA id, tags : AddTags(tags, idx.series_registry[id], id),
                                    EmptyMap, DOMAIN idx.series_registry)]

-----------------------------------------------------------------------------
(* Flush and merge *)

\* ChunkWriter::write and the registration of its results under the write lock
WriteChunk(idx, series_data) ==
  LET encoded == Encoded(series_data)
      chunk == last_chunk + 1
      bytes == ChunkBytes(chunk, encoded) IN
  [bytes |-> bytes,
   index |-> FoldLeft(LAMBDA acc, r : register(acc, chunk, Len(bytes), r), idx, encoded),
   points |-> UNION {{[key |-> k, time |-> p[1], value |-> p[2]] : p \in ToSet(series_data[k])}
                       : k \in DOMAIN series_data}]

Flush ==
  LET result == WriteChunk(index, entries) IN
  /\ should_flush /\ entries # EmptyMap
  /\ entries' = EmptyMap /\ size_bytes' = 0 /\ entry_count' = 0
  /\ last_chunk' = last_chunk + 1
  /\ files' = (last_chunk' :> result.bytes) @@ files
  /\ index' = result.index
  /\ contents' = (last_chunk' :> result.points) @@ contents
  /\ UNCHANGED <<written, again>>

\* The points of a file go into the map of merge_group, over those of earlier files.
MergeInto(map, points) ==
  FoldSet(LAMBDA p, acc : (p.key :> InsertSorted(Get(acc, p.key, <<>>), p.time, p.value)) @@ acc,
          map, points)

\* compact_once where all files are of one size tier: merge_group reads them in
\* order of size, and ends with the error if one cannot be read.
Compact ==
  LET ids == DOMAIN index.chunk_files IN
  /\ Cardinality(ids) >= MinThreshold
  /\ \A c \in ids : c \in DOMAIN files /\ read_chunk(files[c]).ok
  /\ \E order \in SetToSeqs(ids) :
       LET merged == FoldLeft(LAMBDA acc, c : MergeInto(acc, read_chunk(files[c]).points), EmptyMap, order)
           result == WriteChunk(index, merged) IN
       /\ \A i, j \in DOMAIN order : i < j => index.chunk_files[order[i]] <= index.chunk_files[order[j]]
       /\ last_chunk' = last_chunk + 1
       /\ index' = FoldSet(LAMBDA e, acc : deregister(acc, e), result.index,
                           {e \in IndexEntries(index) : e.chunk \in ids})
       /\ files' = (last_chunk' :> result.bytes) @@ Restrict(files, DOMAIN files \ ids)
       /\ contents' = (last_chunk' :> result.points) @@ Restrict(contents, DOMAIN contents \ ids)
  /\ UNCHANGED <<memtableVars, written, again>>

-----------------------------------------------------------------------------
(* Query *)

\* Memtable::resolve_series
MemtableResolve(metric, filters) ==
  {k \in DOMAIN entries : k.metric_name = metric /\ filters \subseteq Pairs(k.tags)}

\* Memtable::read_series
MemtableRead(key, lo, hi, P) ==
  {p \in ToSet(entries[key]) : p[1] \in lo .. hi /\ \A q \in P : satisfies(q, p[2])}

\* The responses of a query, with where each comes from (0 is the memtable).
\* Entries without a path or a key are passed over, errors are logged.
Query(metric, filters, lo, hi) ==
  UNION {{<<0, SeriesId(k), p[1], p[2]>> : p \in MemtableRead(k, lo, hi, {})}
           : k \in MemtableResolve(metric, filters)} \cup
  UNION {{<<e.chunk, e.series, p[1], p[2]>>
            : p \in read_series(files[e.chunk], index.series_registry[e.series], lo, hi).points}
           : e \in {d \in UNION {prune_chunks(index, id, lo, hi, {})
                                   : id \in IndexResolve(index, metric, filters)}
                      : d.chunk \in DOMAIN index.chunk_files \cap DOMAIN files}}

-----------------------------------------------------------------------------
Init ==
  /\ entries = EmptyMap /\ size_bytes = 0 /\ entry_count = 0
  /\ files = EmptyMap /\ last_chunk = 0 /\ index = EmptyIndex
  /\ written = <<>> /\ contents = EmptyMap /\ again = FALSE

Next == (\E k \in Keys, t \in Times : Insert(k, t)) \/ Flush \/ Compact

Spec == Init /\ [][Next]_vars

-----------------------------------------------------------------------------
(* Properties, for keys that are Plain *)

Metrics == {k.metric_name : k \in Keys}
Filters == SUBSET UNION {Pairs(k.tags) : k \in Keys}

\* The last value written to each timestamp of each series
Latest ==
  {[key |-> written[i].key, time |-> written[i].time, value |-> i]
     : i \in {n \in DOMAIN written : \A m \in DOMAIN written : m > n => written[m] # written[n]}}

\* The memtable's estimate never drifts from what it holds, over any run of
\* inserts, overwrites and drains: should_flush is decided on it.
MemtableAccounts ==
  /\ entry_count = FoldSet(LAMBDA k, n : n + Len(entries[k]), 0, DOMAIN entries)
  /\ size_bytes = FoldSet(LAMBDA k, n : n + PointBytes * Len(entries[k]) + StringBytes(k) + U64_SIZE,
                          0, DOMAIN entries)
  /\ \A k \in DOMAIN entries : \A i, j \in DOMAIN entries[k] :
       i < j => entries[k][i][1] < entries[k][j][1]

\* Every file gives back what was written to it: each series through the offsets
\* of its directory entry, over every time range, though deltas wrap around; the
\* bloom filter rejects none of its series; and read_chunk, from which a merge
\* rewrites the store, decodes every key again.
FilesReadBack ==
  \A c \in DOMAIN files :
    /\ \A k \in {p.key : p \in contents[c]} :
         /\ check_bloom(files[c], k)
         /\ \A lo, hi \in Times :
              read_series(files[c], k, lo, hi) =
                [ok |-> TRUE, points |-> {<<p.time, p.value>> : p \in
                   {q \in contents[c] : q.key = k /\ q.time \in lo .. hi}}]
    /\ read_chunk(files[c]) = [ok |-> TRUE, points |-> contents[c]]

\* While no flushed timestamp is written again, a query by metric and tags returns
\* the last value of every matching timestamp in its range, each once, from the
\* memtable or from one chunk.
QueryIsExact ==
  ~again =>
    \A m \in Metrics, F \in Filters, lo, hi \in Times :
      LET result == Query(m, F, lo, hi)
          expect == {<<SeriesId(p.key), p.time, p.value>> : p \in
                       {q \in Latest : /\ q.key.metric_name = m /\ F \subseteq Pairs(q.key.tags)
                                       /\ q.time \in lo .. hi}} IN
      /\ {<<r[2], r[3], r[4]>> : r \in result} = expect
      /\ Cardinality(result) = Cardinality(expect)

\* Whatever is written again, a query never returns a value that was not written
\* to that series and timestamp.
QueryInventsNothing ==
  \A m \in Metrics : \A r \in Query(m, {}, I64MIN, I64MAX) :
    written[r[4]].time = r[3] /\ SeriesId(written[r[4]].key) = r[2]

\* Pruning by statistics is safe: an entry that prune_chunks leaves out for a
\* predicate has no point in its file that satisfies it.
PruneKeepsMatches ==
  \A e \in IndexEntries(index), q \in Predicates :
    (\E p \in contents[e.chunk] : SeriesId(p.key) = e.series /\ satisfies(q, p.value)) =>
      e \in prune_chunks(index, e.series, I64MIN, I64MAX, {q})

\* The index that load_index builds from a snapshot, its tag index from the
\* registry, is the index that was saved.
RebuiltIndexIsSame == rebuild_index(index) = index

=============================================================================
