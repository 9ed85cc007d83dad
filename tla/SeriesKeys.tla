----------------------------- MODULE SeriesKeys -----------------------------
(***************************************************************************)
(* A series key, a metric name and a map of tags, and its byte form, which *)
(* names the series in chunk files and, hashed, in the index.  A string is *)
(* the sequence of its bytes; the 64-bit hash is taken to be injective.    *)
(***************************************************************************)
EXTENDS Integers, SequencesExt

Comma == 44
Equals == 61

EmptyMap == [x \in {} |-> 0]
Pairs(tags) == {<<k, tags[k]>> : k \in DOMAIN tags}

\* The derived order of String and SeriesKey, by which a BTreeMap is sorted
Lexicographic(a, b, Less(_, _)) ==
  \/ IsStrictPrefix(a, b)
  \/ \E i \in DOMAIN a \cap DOMAIN b : Less(a[i], b[i]) /\ SubSeq(a, 1, i - 1) = SubSeq(b, 1, i - 1)
Before(a, b) == Lexicographic(a, b, <)
KeyBefore(a, b) ==
  LET Strings(key) == FoldLeft(LAMBDA s, k : s \o <<k, key.tags[k]>>,
                               <<key.metric_name>>, SetToSortSeq(DOMAIN key.tags, Before)) IN
  Lexicographic(Strings(a), Strings(b), Before)

\* SeriesKey::to_bytes, metric,k1=v1,k2=v2
to_bytes(key) ==
  FoldLeft(LAMBDA buf, k : buf \o <<Comma>> \o k \o <<Equals>> \o key.tags[k],
           key.metric_name, SetToSortSeq(DOMAIN key.tags, Before))

\* str::split
Split(s, sep) ==
  FoldLeft(LAMBDA parts, b : IF b = sep THEN Append(parts, <<>>)
                             ELSE Append(Front(parts), Append(Last(parts), b)),
           << <<>> >>, s)

\* Mutant: the value starts after the last sign, as rsplit_once has it.
from_bytes_Last(bytes) ==
  LET parts == Split(bytes, Comma)
      Sign(kv) == SelectLastInSeq(kv, LAMBDA b : b = Equals) IN
  [ok |-> \A i \in 2 .. Len(parts) : Sign(parts[i]) > 0,
   key |-> [metric_name |-> Head(parts),
            tags |-> [k \in {SubSeq(kv, 1, Sign(kv) - 1) : kv \in ToSet(Tail(parts))} |->
              LET kv == Last(SelectSeq(Tail(parts), LAMBDA p : SubSeq(p, 1, Sign(p) - 1) = k)) IN
                SubSeq(kv, Sign(kv) + 1, Len(kv))]]]

\* SeriesKey::from_bytes: split at commas, each tag at its first `=' sign; the
\* last of several tags with one name stays.
from_bytes(bytes) ==
  LET parts == Split(bytes, Comma)
      Sign(kv) == SelectInSeq(kv, LAMBDA b : b = Equals) IN
  [ok |-> \A i \in 2 .. Len(parts) : Sign(parts[i]) > 0,
   key |-> [metric_name |-> Head(parts),
            tags |-> [k \in {SubSeq(kv, 1, Sign(kv) - 1) : kv \in ToSet(Tail(parts))} |->
              LET kv == Last(SelectSeq(Tail(parts), LAMBDA p : SubSeq(p, 1, Sign(p) - 1) = k)) IN
                SubSeq(kv, Sign(kv) + 1, Len(kv))]]]

\* SeriesId::from and series_id_from_parts, up to the hash
SeriesId(key) == to_bytes(key)

\* Keys that the byte form keeps apart: no comma anywhere, no `=' in a tag's name.
Plain(key) ==
  /\ \A b \in ToSet(key.metric_name) : b # Comma
  /\ \A kv \in Pairs(key.tags) :
       \A b \in ToSet(kv[1]) \cup ToSet(kv[2]) : b # Comma /\ (b = Equals => b \notin ToSet(kv[1]))

=============================================================================
