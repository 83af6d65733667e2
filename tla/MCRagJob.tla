------------------------------ MODULE MCRagJob ------------------------------
(* Worker processes are interchangeable. *)
EXTENDS RagJob, FiniteSets, TLC

CONSTANTS p1, p2

MCProcs == {p1, p2}
Symmetry == Permutations(MCProcs)

\* Bound of the run with two processes: other jobs leave a flush room for every new row.
RoomForAll ==
    \A t \in Threads : th[t].pc \in {"read", "idle"} /\ th'[t].pc = "send" =>
        \A e \in News : outbox[e] = "pending" => e \in th'[t].todo

\* Another: two flushes at a time.
TwoFlushes == Cardinality({t \in Threads : th[t].pc \in {"send", "mark"}}) <= 2
=============================================================================
