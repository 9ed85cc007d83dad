---------------------------- MODULE MCChunkStore ----------------------------
(* Small instances of ChunkStore for TLC. *)
EXTENDS ChunkStore

\* The series are numbers, dealt out to the shards in turn.
DealtOut == [s \in Series |-> 1 + (s % NumShards)]

-----------------------------------------------------------------------------
(* The view of the run with a query.  No action of another task reads what a *)
(* query holds, so a query is kept only as far as its verdict is open.       *)

Missing(Q) == Coords(Q.expect) \ Coords(Q.answer)

\* QueryMissesNothingSettled holds of the query for good: from the index scan on
\* nothing is expected any more, and what is answered, skipped or flushed stays so.
Settled(Q) ==
  \/ ~NotRewritten
  \/ Q.pc \in {"read", "done"} /\ (Q.skipped # {} \/ Missing(Q) = {})

\* The part of a query its verdict depends on.  A scan adds points of a shard of
\* which nothing was answered before: what was answered need not be kept.
Outlook(Q) ==
  IF Settled(Q) THEN "settled" ELSE <<Missing(Q), Q.pc, Q.shard, Q.lo, Q.hi, Q.todo>>

\* The snapshot is left out too: no action reads it, and it was the index of an
\* earlier state.
Essential ==
  <<version, memtable, flushVars, fileVars, index, compactVars, flushed,
    [q \in Queries |-> Outlook(query[q])]>>

=============================================================================
