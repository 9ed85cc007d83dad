-------------------------- MODULE MCStorageServer --------------------------
(* Small instances of StorageServer for TLC. *)
EXTENDS StorageServer, TLC

\* Requests are interchangeable, and so are the snapshot tasks.
Symmetry == Permutations(Reqs) \cup Permutations(Snapshotters)

=============================================================================
