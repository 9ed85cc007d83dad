--------------------------- MODULE MCGroupCommit ---------------------------
(* Small instances of GroupCommit for TLC. *)
EXTENDS GroupCommit

\* Callers are numbers.  Callers of one kind are interchangeable: of all the orders
\* in which they first call, one is enough.
InTurn ==
  \A kind \in {Clients, Drainers, Rotators} : \A a, b \in kind :
    a < b /\ status'[b] # "idle" => status'[a] # "idle"

=============================================================================
