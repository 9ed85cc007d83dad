-------------------------- MODULE MCIndexSnapshot --------------------------
(* Small instances of IndexSnapshot for TLC. *)
EXTENDS IndexSnapshot, TLC

Symmetry == Permutations(Inodes) \cup Permutations(Rpcs)

=============================================================================
