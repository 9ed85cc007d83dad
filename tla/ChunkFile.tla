------------------------------ MODULE ChunkFile ------------------------------
(***************************************************************************)
(* The layout of a chunk file: what ChunkWriter::write puts where, and how *)
(* ChunkReader finds it again.  A file is a sequence of cells, one for     *)
(* each field and each byte of a key or a column, addressed from zero as   *)
(* in the code.  Timestamps are integers of Bits bits that wrap around, as *)
(* i64 does in a release build.                                            *)
(***************************************************************************)
EXTENDS Integers, FiniteSets, SeriesKeys

CONSTANT Bits   \* width of a timestamp

ASSUME BitsAssumption == Bits \in Nat \ {0}

I64MIN == -(2 ^ (Bits - 1))
I64MAX == 2 ^ (Bits - 1) - 1
Wrap(n) == ((n - I64MIN) % 2 ^ Bits) + I64MIN

-----------------------------------------------------------------------------
(* format.rs *)

MAGIC == 77
VERSION == 1
HEADER_SIZE == 8
DIR_ENTRY_FIXED_SIZE == 6
FOOTER_TAIL_SIZE == 2
CHECKSUM_SIZE == 1
BLOOM_HEADER_SIZE == 1

delta_encode(ts) == [i \in DOMAIN ts |-> IF i = 1 THEN ts[1] ELSE Wrap(ts[i] - ts[i - 1])]

\* Mutant: the sum saturates instead of wrapping around.
delta_decode_Saturates(deltas) ==
  FoldLeft(LAMBDA out, d : Append(out, IF out = <<>> THEN d ELSE
             IF Last(out) + d > I64MAX THEN I64MAX ELSE
             IF Last(out) + d < I64MIN THEN I64MIN ELSE Last(out) + d), <<>>, deltas)

delta_decode(deltas) ==
  FoldLeft(LAMBDA out, d : Append(out, IF out = <<>> THEN d ELSE Wrap(Last(out) + d)),
           <<>>, deltas)

\* lz4 (external): a reversible code whose length depends on the data.
compress(s) ==
  FoldLeft(LAMBDA out, v : IF out # <<>> /\ out[Len(out) - 1] = v
                             THEN [out EXCEPT ![Len(out)] = @ + 1] ELSE out \o <<v, 1>>,
           <<>>, s)
decompress(s) ==
  FlattenSeq([i \in 1 .. Len(s) \div 2 |-> [n \in 1 .. s[2 * i] |-> s[2 * i - 1]]])

\* bloomfilter (external): the bits of a key; a few bits, so that keys share them.
BloomBits == 5
BloomHash(bytes) == {(FoldLeft(+, 0, bytes) % BloomBits) + 1, (Len(bytes) % BloomBits) + 1}

\* crc32fast (external): no two contents are taken to have one checksum.
Crc(bytes) == <<bytes>>

-----------------------------------------------------------------------------
(* writer.rs *)

SeriesChunkStats(values) == [min_value |-> Min(ToSet(values)), max_value |-> Max(ToSet(values))]

\* Pass 1: the columns of each series that has points.
Encoded(series_data) ==
  LET keys == SetToSortSeq({k \in DOMAIN series_data : series_data[k] # <<>>}, KeyBefore) IN
  [i \in DOMAIN keys |->
     LET points == series_data[keys[i]]
         ts == [n \in DOMAIN points |-> points[n][1]]
         val == [n \in DOMAIN points |-> points[n][2]] IN
     [key |-> keys[i], key_bytes |-> to_bytes(keys[i]), entry_count |-> Len(points),
      time_start |-> ts[1], time_end |-> Last(ts), ts |-> compress(delta_encode(ts)),
      val |-> compress(val), stats |-> SeriesChunkStats(val)]]

SumOver(Op(_), seq) == FoldLeft(LAMBDA acc, e : acc + Op(e), 0, seq)
Columns(e) == <<Len(e.ts)>> \o e.ts \o <<Len(e.val)>> \o e.val

\* Mutant: the offsets leave out the length fields of the columns.
Offsets_NoLengths(encoded, first) ==
  [i \in DOMAIN encoded |->
     LET ts == first + SumOver(LAMBDA e : Len(e.ts) + Len(e.val), SubSeq(encoded, 1, i - 1)) IN
     [ts |-> ts, val |-> ts + Len(encoded[i].ts)]]

\* Pass 2: where the columns of each series will lie.
Offsets(encoded, first) ==
  [i \in DOMAIN encoded |->
     LET ts == first + SumOver(LAMBDA e : Len(Columns(e)), SubSeq(encoded, 1, i - 1)) IN
     [ts |-> ts, val |-> ts + 1 + Len(encoded[i].ts)]]

build_directory_entry(e, off) ==
  <<Len(e.key_bytes)>> \o e.key_bytes
    \o <<e.entry_count, off.ts, off.val, e.stats.min_value, e.stats.max_value>>

\* The file of a chunk: header, directory, columns, bloom filter, its offset and
\* the checksum of all that.
ChunkBytes(chunk_id, encoded) ==
  LET dir_size == SumOver(LAMBDA e : DIR_ENTRY_FIXED_SIZE + Len(e.key_bytes), encoded)
      offsets == Offsets(encoded, HEADER_SIZE + dir_size)
      header == <<MAGIC, VERSION, chunk_id, Min({e.time_start : e \in ToSet(encoded)}),
                  Max({e.time_end : e \in ToSet(encoded)}), Len(encoded),
                  SumOver(LAMBDA e : e.entry_count, encoded), HEADER_SIZE + dir_size>>
      directory == [i \in DOMAIN encoded |-> build_directory_entry(encoded[i], offsets[i])]
      body == header \o FlattenSeq(directory) \o FlattenSeq([i \in DOMAIN encoded |-> Columns(encoded[i])])
      bloom == UNION {BloomHash(e.key_bytes) : e \in ToSet(encoded)}
      buf == body \o <<BloomBits>> \o [b \in 1 .. BloomBits |-> IF b \in bloom THEN 1 ELSE 0]
               \o <<Len(body)>> IN
  Append(buf, Crc(buf))

-----------------------------------------------------------------------------
(* reader.rs *)

InFile(bytes, offset, len) == offset + len <= Len(bytes)
slice(bytes, offset, len) == SubSeq(bytes, offset + 1, offset + len)
At(bytes, offset) == IF offset + 1 \in DOMAIN bytes THEN bytes[offset + 1] ELSE 0

is_magic_valid(bytes) == At(bytes, 0) = MAGIC
is_checksum_valid(bytes) == Len(bytes) >= CHECKSUM_SIZE /\ Last(bytes) = Crc(Front(bytes))
parse_header(bytes) ==
  [time_start_ns |-> At(bytes, 3), time_end_ns |-> At(bytes, 4), series_count |-> At(bytes, 5)]

is_within_global_range(lo, hi, header) == ~(lo > header.time_end_ns \/ hi < header.time_start_ns)

\* The directory, entry after entry, as find_series and read_chunk step over it.
Directory(bytes) ==
  FoldLeft(LAMBDA dir, i :
             LET cursor == IF dir = <<>> THEN HEADER_SIZE ELSE Last(dir).next
                 key_len == At(bytes, cursor) IN
             Append(dir, [key_bytes |-> slice(bytes, cursor + 1, key_len),
                          ts |-> At(bytes, cursor + key_len + 2),
                          val |-> At(bytes, cursor + key_len + 3),
                          next |-> cursor + key_len + DIR_ENTRY_FIXED_SIZE]),
           <<>>, [i \in 1 .. parse_header(bytes).series_count |-> i])

\* retrieve_data; an error where the columns leave the file or differ in length
retrieve_data(bytes, entry, lo, hi) ==
  LET ts_len == At(bytes, entry.ts)
      val_len == At(bytes, entry.val)
      ts == delta_decode(decompress(slice(bytes, entry.ts + 1, ts_len)))
      val == decompress(slice(bytes, entry.val + 1, val_len))
      ok == /\ ts_len > 0 /\ InFile(bytes, entry.ts + 1, ts_len)
            /\ val_len > 0 /\ InFile(bytes, entry.val + 1, val_len) /\ Len(ts) = Len(val) IN
  [ok |-> ok,
   points |-> IF ok THEN {<<ts[i], val[i]>> : i \in {n \in DOMAIN ts : ts[n] \in lo .. hi}} ELSE {}]

\* ChunkReader::read_series: no points where the series is absent or the file is
\* outside the range
read_series(bytes, key, lo, hi) ==
  LET found == SelectSeq(Directory(bytes), LAMBDA e : e.key_bytes = to_bytes(key)) IN
  IF ~is_magic_valid(bytes) \/ ~is_checksum_valid(bytes) THEN [ok |-> FALSE, points |-> {}]
  ELSE IF ~is_within_global_range(lo, hi, parse_header(bytes)) \/ found = <<>>
    THEN [ok |-> TRUE, points |-> {}]
  ELSE retrieve_data(bytes, Head(found), lo, hi)

\* ChunkReader::read_chunk: the points of all series, with their keys decoded
read_chunk(bytes) ==
  LET dir == Directory(bytes)
      Key(i) == from_bytes(dir[i].key_bytes)
      Data(i) == retrieve_data(bytes, dir[i], I64MIN, I64MAX)
      ok == /\ is_magic_valid(bytes) /\ is_checksum_valid(bytes)
            /\ \A i \in DOMAIN dir : Key(i).ok /\ Data(i).ok IN
  [ok |-> ok,
   points |-> IF ok THEN UNION {{[key |-> Key(i).key, time |-> p[1], value |-> p[2]]
                                   : p \in Data(i).points} : i \in DOMAIN dir} ELSE {}]

\* ChunkReader::check_bloom, with parse_bloom_from_buf
check_bloom(bytes, key) ==
  LET footer == At(bytes, Len(bytes) - FOOTER_TAIL_SIZE)
      bitmap == slice(bytes, footer + BLOOM_HEADER_SIZE, At(bytes, footer)) IN
  \A b \in BloomHash(to_bytes(key)) : b \in DOMAIN bitmap /\ bitmap[b] = 1

=============================================================================
