---------------------------- MODULE MCAgentTask ----------------------------
(* Small instances of AgentTask.  A process has one thread and stands for    *)
(* both, but in the last instance, where two threads of one process have its *)
(* lease owner: POST /tasks/{id}/run is served from a thread pool.  The cfgs *)
(* take the others; what changes with the last is told in the README, 3.     *)
EXTENDS AgentTask, TLC

CONSTANTS p1, p2, r1, r2

\* Two processes, and two concurrent requests of the owner.
MCProcesses == {p1, p2}
MCOwner == [p \in MCProcesses |-> p]
MCRequests == {r1, r2}
MCSymmetry == Permutations(MCProcesses) \cup Permutations(MCRequests)

\* One process, one request.
MCProcess == {p1}
MCProcessOwner == [p \in MCProcess |-> p]
MCRequest == {r1}

\* Two threads of the process p1.
MCThreads == MCProcesses
MCThreadOwner == [t \in MCThreads |-> p1]
=============================================================================
