----------------------------- MODULE DesktopTask -----------------------------
(****************************************************************************)
(* The queue by which the agent uses the browser of its owner's computer.     *)
(* DesktopFormBrowserClient._execute inserts a row and polls it until it is   *)
(* final or the deadline passes; the desktop application claims a row with a  *)
(* long poll, has the sidecar execute it and reports. Nothing but the row     *)
(* connects the two: the claim, the answer of the sidecar and the report can  *)
(* each be lost, the desktop and the agent can stop at any point.             *)
(*                                                                            *)
(* The lease a claim writes is read by nobody and is not modelled, nor is the *)
(* heartbeat that prolongs it, which the desktop application never sends.     *)
(****************************************************************************)
EXTENDS Integers

CONSTANTS
    N,          \* how many operations are asked for
    Writes,     \* those that change the document (side_effect=True)
    MaxFaults   \* how many calls are lost and how many processes stop

VARIABLES
    row,        \* the status of the row of each operation
    effect,     \* its side_effect_state
    aged,       \* the operations whose expires_at has passed
    agent,      \* what the agent's call has come to
    runner,     \* the desktop application: where it is, and with which operation
    done,       \* how many times the sidecar has executed the operation
    lost,       \* the operations about which a message or a process was lost
    faults

vars == <<row, effect, aged, agent, runner, done, lost, faults>>

Ops == 1..N
Opens == Ops \ Writes
Waiting == {"pending", "delivered", "waiting_login"}
Settled == {"completed", "failed", "expired"}    \* complete_task changes these no more
Final == Settled \cup {"needs_review"}
Idle == [at |-> "idle", op |-> 0]

Init ==
    /\ row = [o \in Ops |-> "absent"]
    /\ effect = [o \in Ops |-> "none"]
    /\ aged = {}
    /\ agent = [o \in Ops |-> "unasked"]
    /\ runner = Idle
    /\ done = [o \in Ops |-> 0]
    /\ lost = {}
    /\ faults = 0

\* A message about operation o is lost, or the process that holds it stops.
Lose(o) ==
    /\ faults < MaxFaults
    /\ faults' = faults + 1
    /\ lost' = lost \cup {o}
Reliably == UNCHANGED <<lost, faults>>

------------------------------------------------------------------------------
\* The agent.

\* create_task: rows are claimed in the order in which they are inserted.
Create(o) ==
    /\ row[o] = "absent"
    /\ \A p \in 1..(o - 1) : row[p] # "absent"
    /\ row' = [row EXCEPT ![o] = "pending"]
    /\ effect' = [effect EXCEPT ![o] = IF o \in Writes THEN "pending" ELSE "none"]
    /\ agent' = [agent EXCEPT ![o] = "polling"]
    /\ UNCHANGED <<aged, runner, done, lost, faults>>

\* What a look at the row tells the call: nothing yet while a row waits.
Answer(o) ==
    CASE row[o] = "completed"     -> "done"
      [] row[o] = "waiting_login" -> "login"
      [] row[o] \in {"failed", "expired", "needs_review"} -> "error"
      [] OTHER -> "polling"

Poll(o) ==
    /\ agent[o] = "polling"
    /\ Answer(o) # "polling"
    /\ agent' = [agent EXCEPT ![o] = Answer(o)]
    /\ UNCHANGED <<row, effect, aged, runner, done, lost, faults>>

\* complete_task, for the agent and for the desktop: whether it updates the row.
CompleteTask(o, status, sideEffect) ==
    IF row[o] \in Settled
    THEN UNCHANGED <<row, effect>>
    ELSE /\ row' = [row EXCEPT ![o] = status]
         /\ effect' = [effect EXCEPT ![o] = sideEffect]

\* The deadline passes. The desktop may have reported after the last look at the row;
\* the call does not ask whether complete_task has changed it.
Deadline(o) ==
    /\ agent[o] = "polling"
    /\ IF o \in Writes
       THEN CompleteTask(o, "needs_review", "unknown") /\ agent' = [agent EXCEPT ![o] = "error"]
       ELSE CompleteTask(o, "failed", "none") /\ agent' = [agent EXCEPT ![o] = "unavailable"]
    /\ UNCHANGED <<aged, runner, done, lost, faults>>

AgentStops(o) ==
    /\ agent[o] = "polling"
    /\ agent' = [agent EXCEPT ![o] = "gone"]
    /\ Lose(o)
    /\ UNCHANGED <<row, effect, aged, runner, done>>

\* expires_at lies two minutes behind the deadline of the call.
Age(o) ==
    /\ row[o] # "absent" /\ agent[o] # "polling"
    /\ o \notin aged
    /\ aged' = aged \cup {o}
    /\ UNCHANGED <<row, effect, agent, runner, done, lost, faults>>

------------------------------------------------------------------------------
\* The desktop application: tick, runOne, report.

\* A claim expires first, whoever asks, every row that waits for too long.
Expired_Pending(o) == o \in aged /\ row[o] = "pending"     \* mutant
Expired(o) == o \in aged /\ row[o] \in Waiting
Claimable_Delivered(o) == o \notin aged /\ row[o] \in {"pending", "delivered"}     \* mutant
Claimable(o) == o \notin aged /\ row[o] = "pending"
Claimed(o) == Claimable(o) /\ \A p \in 1..(o - 1) : ~Claimable(p)

Expire == [o \in Ops |-> IF Expired(o) THEN "expired" ELSE row[o]]

\* The row is delivered even if nobody is there any more to take the answer.
Claim(o) ==
    /\ runner = Idle
    /\ Claimed(o)
    /\ row' = [Expire EXCEPT ![o] = "delivered"]
    /\ \/ runner' = [at |-> "claimed", op |-> o] /\ Reliably
       \/ runner' = Idle /\ Lose(o)
    /\ UNCHANGED <<effect, aged, agent, done>>

ClaimNothing ==
    /\ runner = Idle
    /\ \A o \in Ops : ~Claimable(o)
    /\ \E o \in Ops : Expired(o)
    /\ row' = Expire
    /\ UNCHANGED <<effect, aged, agent, runner, done, lost, faults>>

\* LocalFormBrowserClient.execute: the sidecar does it, refuses it, or shows a login
\* (which only the answer to "open" says), or does it and its answer is lost.
Execute ==
    /\ runner.at = "claimed"
    /\ LET o == runner.op IN
       \/ /\ done' = [done EXCEPT ![o] = @ + 1]
          /\ \/ runner' = [at |-> "completed", op |-> o] /\ Reliably
             \/ runner' = [at |-> "failed", op |-> o] /\ Lose(o)
       \/ /\ runner' = [at |-> "failed", op |-> o]
          /\ UNCHANGED <<done, lost, faults>>
       \/ /\ o \in Opens
          /\ runner' = [at |-> "waiting_login", op |-> o]
          /\ UNCHANGED <<done, lost, faults>>
    /\ UNCHANGED <<row, effect, aged, agent>>

\* The side_effect_state of a report: the one the row had when it was claimed.
Reported(o) ==
    IF o \notin Writes THEN "none"
    ELSE IF runner.at = "completed" THEN "committed" ELSE "pending"

\* A report that throws, because the row is settled or because it or its answer is
\* lost, falls into the catch of runOne, which reports a failure instead.
Report ==
    /\ runner.at \in {"completed", "waiting_login"}
    /\ LET o == runner.op IN
       \/ /\ CompleteTask(o, runner.at, Reported(o))
          /\ \/ /\ runner' = IF row[o] \in Settled THEN [at |-> "failed", op |-> o] ELSE Idle
                /\ Reliably
             \/ runner' = [runner EXCEPT !.at = "failed"] /\ Lose(o)
       \/ /\ runner' = [runner EXCEPT !.at = "failed"]
          /\ Lose(o)
          /\ UNCHANGED <<row, effect>>
    /\ UNCHANGED <<aged, agent, done>>

\* The failure is reported once; whatever comes of it, the runner polls again.
ReportFailure ==
    /\ runner.at = "failed"
    /\ LET o == runner.op IN
       \/ CompleteTask(o, "failed", Reported(o)) /\ Reliably
       \/ Lose(o) /\ UNCHANGED <<row, effect>>
    /\ runner' = Idle
    /\ UNCHANGED <<aged, agent, done>>

DesktopStops ==
    /\ runner # Idle
    /\ Lose(runner.op)
    /\ runner' = Idle
    /\ UNCHANGED <<row, effect, aged, agent, done>>

------------------------------------------------------------------------------
AgentStep == \E o \in Ops : Poll(o) \/ Deadline(o)
Time == \E o \in Ops : Age(o)
Polling == ClaimNothing \/ \E o \in Ops : Claim(o)
Running == Execute \/ Report \/ ReportFailure

Next ==
    \/ AgentStep \/ Time \/ Polling \/ Running
    \/ \E o \in Ops : Create(o) \/ AgentStops(o)
    \/ DesktopStops

TypeOK ==
    /\ row \in [Ops -> Waiting \cup Final \cup {"absent"}]
    /\ effect \in [Ops -> {"none", "pending", "committed", "unknown"}]
    /\ aged \subseteq Ops
    /\ agent \in [Ops -> {"unasked", "polling", "done", "login", "error", "unavailable",
                          "gone"}]
    /\ runner.at \in {"idle", "claimed", "completed", "failed", "waiting_login"}
    /\ runner.op \in 0..N
    /\ done \in [Ops -> 0..N]
    /\ lost \subseteq Ops
    /\ faults \in 0..MaxFaults

\* The computer of the owner performs an operation at most once, whatever is lost, and
\* the agent says it is done only if it is (claim_task, complete_task, runOne).
Once(o) == done[o] <= 1 /\ (agent[o] = "done" => done[o] = 1)

\* A write that was performed is not filed as one that was not: its row is completed or
\* asks for a review, unless a message about it or a process was lost. And no row
\* expires under a call that still waits for it (_execute, complete_task, claim_task).
Open(o) ==
    /\ o \in Writes /\ done[o] > 0 /\ row[o] \in {"failed", "expired"} => o \in lost
    /\ row[o] = "expired" => agent[o] # "polling"
    /\ effect[o] = "committed" => row[o] = "completed" /\ done[o] = 1

OnceAndInTheOpen == \A o \in Ops : Once(o) /\ Open(o)

\* Inductive: where the desktop is with an operation, what its row can be by then, and
\* about which rows a message must have been lost.
Held ==
    /\ runner \in [at : {"idle", "claimed", "completed", "failed", "waiting_login"}, op : 0..N]
    /\ IF runner.at = "idle" THEN runner = Idle ELSE runner.op \in Ops
Untouched(o) ==
    row[o] \in {"absent", "pending"} => done[o] = 0 /\ runner.op # o
Executing(o) ==
    runner.op = o =>
        /\ runner.at = "claimed" => done[o] = 0
        /\ runner.at = "completed" => done[o] = 1
        /\ runner.at = "waiting_login" => o \in Opens
        /\ runner.at = "failed" /\ done[o] = 1 /\ row[o] \notin Settled => o \in lost
        /\ o \in Writes => row[o] # "failed"
Outlived(o) ==
    /\ o \in aged => agent[o] \notin {"unasked", "polling"}
    /\ o \in Writes /\ row[o] \in Waiting /\ agent[o] # "polling" => o \in lost
    /\ o \in Writes /\ row[o] = "expired" => o \in lost
    /\ o \in Writes => row[o] # "waiting_login"
    /\ row[o] = "absent" <=> agent[o] = "unasked"
    /\ row[o] = "completed" => done[o] = 1
    /\ done[o] \in {0, 1}
DesktopInv ==
    /\ TypeOK /\ OnceAndInTheOpen /\ Held
    /\ \A o \in Ops : Untouched(o) /\ Executing(o) /\ Outlived(o)

\* What it has come to: no row waits any more (claim_task, complete_task).
Ended == \A o \in Ops : row[o] \notin Waiting
==============================================================================
