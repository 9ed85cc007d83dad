--------------------------- MODULE AtomicSnapshot ---------------------------
(***************************************************************************)
(* What save_index promises its callers: the snapshot file is replaced in  *)
(* one step by a whole snapshot that is at least as new, and a watermark   *)
(* is persisted only once the file covers it.                              *)
(***************************************************************************)
EXTENDS Naturals

VARIABLES saved,     \* the flushes in the index that load_index would return
          persisted  \* the watermark up to which the WAL may be deleted

vars == <<saved, persisted>>

Init == saved = 0 /\ persisted = 0

Save == saved' >= saved /\ UNCHANGED persisted

Persist == persisted' \in 0 .. saved /\ UNCHANGED saved

Next == Save \/ Persist

Spec == Init /\ [][Next]_vars

=============================================================================
