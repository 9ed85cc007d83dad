----------------------------- MODULE DurableLog -----------------------------
(***************************************************************************)
(* What a WAL shard promises its callers, whatever the batches, segments   *)
(* and rotations behind it: an entry is acknowledged only when it is       *)
(* durable, and stays durable until the callers release it, because a      *)
(* snapshot covers it or because recovery has given it back.               *)
(***************************************************************************)
CONSTANT Clients   \* the appends, each of one entry

VARIABLES log,      \* entries a crash cannot take away
          acked,    \* entries whose append returned Ok
          released  \* entries the callers no longer need in the log

vars == <<log, acked, released>>

Init == log = {} /\ acked = {} /\ released = {}

\* Unacknowledged entries come and go; released ones may go, at once with
\* their release when recovery gives them back.
Change(L, R) == /\ released' = released \cup R
                /\ \A c \in log \ L : c \in released' \/ c \notin acked
                /\ log' = L
                /\ UNCHANGED acked

Ack(A) == /\ A \subseteq log \cup released
          /\ acked' = acked \cup A
          /\ UNCHANGED <<log, released>>

Next == \E S \in SUBSET Clients : Ack(S) \/ \E R \in SUBSET Clients : Change(S, R)

Spec == Init /\ [][Next]_vars

=============================================================================
