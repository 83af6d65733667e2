----------------------------- MODULE TaskWakeup -----------------------------
(****************************************************************************)
(* How a runnable Task finds a worker: the commit that makes it runnable    *)
(* inserts an outbox row, a worker publishes the row to a Redis stream, a   *)
(* worker of the consumer group reads the message, drives the Task under    *)
(* its lease and acknowledges the message.                                  *)
(*                                                                          *)
(* One Task; what a drive does to it is AgentTask's subject, here it ends   *)
(* with the Task waiting or done, or with an exception.  Time appears as    *)
(* the lapse of three clocks: the claim of an outbox row (60 s), the        *)
(* min-idle time of a delivered message (60 s) and the lease of a dead      *)
(* process (120 s).  A worker that drives for long lets its own message go  *)
(* idle, so a message may be in two inboxes.                                *)
(****************************************************************************)
EXTENDS Naturals, FiniteSets

CONSTANTS
    Workers,        \* worker processes of the pool
    MaxEvents,      \* bound: outbox rows ever inserted for the task
    MaxMessages,    \* bound: messages ever added to the stream
    MaxFaults       \* bound: crashes, failed publications, exceptions, slow dispatchers

ASSUME BoundsAssumption ==
    /\ MaxEvents \in Nat \ {0}
    /\ MaxMessages \in Nat \ {0}
    /\ MaxFaults \in Nat

Free == "free"      \* lease_owner IS NULL, or the lease has expired
Gone == "gone"      \* the lease of a process that died, until it expires
ASSUME LeaseMarks == Free \notin Workers /\ Gone \notin Workers

Events == 1..MaxEvents
Messages == 1..MaxMessages

VARIABLES
    task,       \* runnable, waiting (for its owner) or done
    lease,      \* agent_tasks.lease_owner
    events,     \* agent_outbox_events.status; overdue: publishing, available_at passed
    stream,     \* messages: new, delivered (pending), pending for min_idle_time, acked
    wk,         \* the workers
    published,  \* history: events that reached the stream
    turnedAway, \* history: whether the lease ever turned a worker away
    faults

vars == <<task, lease, events, stream, wk, published, turnedAway, faults>>

TaskStates == {"runnable", "waiting", "done"}
EventStates == {"none", "pending", "publishing", "overdue", "sent"}
MessageStates == {"none", "new", "pending", "idle", "acked"}

\* claimed: the rows dispatch_once still has to publish; at: the one at hand and
\* what publish() returned; inbox: messages read and not yet handled; msg: the one
\* being handled.
Worker == [pc : {"dispatch", "publish", "mark", "poll", "handle", "drive", "release", "ack"},
           claimed : SUBSET Events, at : 0..MaxEvents, ok : BOOLEAN,
           inbox : SUBSET Messages, msg : 0..MaxMessages]
Fresh == [pc |-> "dispatch", claimed |-> {}, at |-> 0, ok |-> TRUE, inbox |-> {}, msg |-> 0]

\* create_task commits the task row and its first wake-up together.
Init ==
    /\ task = "runnable"
    /\ lease = Free
    /\ events = [e \in Events |-> IF e = 1 THEN "pending" ELSE "none"]
    /\ stream = [m \in Messages |-> "none"]
    /\ wk = [w \in Workers |-> Fresh]
    /\ published = {}
    /\ turnedAway = FALSE
    /\ faults = 0

Fault == faults < MaxFaults /\ faults' = faults + 1

\* The next row of a table is the first unused one.
IsFresh(table, i, unused) == table[i] = unused /\ \A j \in 1..(i - 1) : table[j] # unused

-----------------------------------------------------------------------------
(* The outbox. *)

\* claim_outbox: status IN ('pending', 'publishing') AND available_at <= NOW().
Claimable_PendingOnly(e) == events[e] = "pending"       \* mutant
Claimable(e) == events[e] \in {"pending", "overdue"}

\* dispatch_once: claim every deliverable row in one statement.
Dispatch(w) ==
    /\ wk[w].pc = "dispatch"
    /\ LET mine == {e \in Events : Claimable(e)} IN
       /\ events' = [e \in Events |-> IF e \in mine THEN "publishing" ELSE events[e]]
       /\ wk' = [wk EXCEPT ![w].claimed = mine, ![w].pc = "publish"]
    /\ UNCHANGED <<task, lease, stream, published, turnedAway, faults>>

\* publish(): XADD, which may fail before or after Redis has taken the message.
Publish(w) ==
    /\ wk[w].pc = "publish"
    /\ \E e \in wk[w].claimed, ok, added \in BOOLEAN :
          /\ ok => added
          /\ IF ok THEN UNCHANGED faults ELSE Fault
          /\ IF added
             THEN /\ \E m \in Messages :
                        /\ IsFresh(stream, m, "none")
                        /\ stream' = [stream EXCEPT ![m] = "new"]
                  /\ published' = published \cup {e}
             ELSE UNCHANGED <<stream, published>>
          /\ wk' = [wk EXCEPT ![w].claimed = @ \ {e}, ![w].at = e, ![w].ok = ok, ![w].pc = "mark"]
    /\ UNCHANGED <<task, lease, events, turnedAway>>

\* mark_outbox_sent or mark_outbox_failed; the row may have been claimed again.
StatusAfter_AlwaysSent(ok) == "sent"                            \* mutant
StatusAfter_Dropped(ok) == IF ok THEN "sent" ELSE "failed"      \* mutant
StatusAfter(ok) == IF ok THEN "sent" ELSE "pending"
Mark(w) ==
    /\ wk[w].pc = "mark"
    /\ events' = [events EXCEPT ![wk[w].at] = StatusAfter(wk[w].ok)]
    /\ wk' = [wk EXCEPT ![w].at = 0, ![w].ok = TRUE, ![w].pc = "publish"]
    /\ UNCHANGED <<task, lease, stream, published, turnedAway, faults>>

DispatchDone(w) ==
    /\ wk[w].pc = "publish"
    /\ wk[w].claimed = {}
    /\ wk' = [wk EXCEPT ![w].pc = "poll"]
    /\ UNCHANGED <<task, lease, events, stream, published, turnedAway, faults>>

\* available_at passes before the row is marked: its dispatcher died, or is slow.
InHand(e) == \E w \in Workers : e \in wk[w].claimed \/ wk[w].at = e
ClaimLapses(e) ==
    /\ events[e] = "publishing"
    /\ IF InHand(e) THEN Fault ELSE UNCHANGED faults
    /\ events' = [events EXCEPT ![e] = "overdue"]
    /\ UNCHANGED <<task, lease, stream, wk, published, turnedAway>>

-----------------------------------------------------------------------------
(* The stream and its consumer group. *)

\* run_once: XAUTOCLAIM what has been idle too long, XREADGROUP what is new.
Delivered_NewOnly(m) == stream[m] = "new"       \* mutant: nothing is reclaimed
Delivered(m) == stream[m] \in {"new", "idle"}
Poll(w) ==
    /\ wk[w].pc = "poll"
    /\ LET batch == {m \in Messages : Delivered(m)} IN
       /\ stream' = [m \in Messages |-> IF m \in batch THEN "pending" ELSE stream[m]]
       /\ wk' = [wk EXCEPT ![w].inbox = batch, ![w].pc = "handle"]
    /\ UNCHANGED <<task, lease, events, published, turnedAway, faults>>

BatchDone(w) ==
    /\ wk[w].pc = "handle"
    /\ wk[w].inbox = {}
    /\ wk' = [wk EXCEPT ![w].pc = "dispatch"]
    /\ UNCHANGED <<task, lease, events, stream, published, turnedAway, faults>>

\* handle_wakeup -> run_task.  Nothing to do, or the lease refused: run_task returns
\* a result all the same, and the message is acknowledged.
Handle(w) ==
    /\ wk[w].pc = "handle"
    /\ \E m \in wk[w].inbox :
          IF task = "runnable" /\ lease \in {Free, w}
          THEN /\ lease' = w
               /\ wk' = [wk EXCEPT ![w].inbox = @ \ {m}, ![w].msg = m, ![w].pc = "drive"]
               /\ UNCHANGED turnedAway
          ELSE /\ turnedAway' = (turnedAway \/ task = "runnable")
               /\ wk' = [wk EXCEPT ![w].inbox = @ \ {m}, ![w].msg = m, ![w].pc = "ack"]
               /\ UNCHANGED lease
    /\ UNCHANGED <<task, events, stream, published, faults>>

\* _drive: the task ends up waiting or finished, whoever changed it, unless an
\* exception leaves run_task, or what ExecutionService does after it (message_sync).
Drive(w) ==
    /\ wk[w].pc = "drive"
    /\ \/ /\ task = "runnable"
          /\ task' \in {"waiting", "done"}
          /\ wk' = [wk EXCEPT ![w].pc = "release"]
          /\ UNCHANGED faults
       \/ /\ task # "runnable"
          /\ wk' = [wk EXCEPT ![w].pc = "release"]
          /\ UNCHANGED <<task, faults>>
       \/ /\ Fault
          /\ task' \in IF task = "runnable" THEN TaskStates ELSE {task}
          /\ wk' = [wk EXCEPT ![w].ok = FALSE, ![w].pc = "release"]
    /\ UNCHANGED <<lease, events, stream, published, turnedAway>>

\* release_lease, in `finally'.  After an exception the message is left pending.
Acknowledges_Always(ok) == TRUE     \* mutant
Acknowledges(ok) == ok
Release(w) ==
    /\ wk[w].pc = "release"
    /\ lease' = IF lease = w THEN Free ELSE lease
    /\ wk' = IF Acknowledges(wk[w].ok) THEN [wk EXCEPT ![w].pc = "ack"]
             ELSE [wk EXCEPT ![w].ok = TRUE, ![w].msg = 0, ![w].pc = "handle"]
    /\ UNCHANGED <<task, events, stream, published, turnedAway, faults>>

\* XACK removes the entry whichever consumer holds it by now.
Ack(w) ==
    /\ wk[w].pc = "ack"
    /\ stream' = [stream EXCEPT ![wk[w].msg] = "acked"]
    /\ wk' = [wk EXCEPT ![w].msg = 0, ![w].ok = TRUE, ![w].pc = "handle"]
    /\ UNCHANGED <<task, lease, events, published, turnedAway, faults>>

GoesIdle(m) ==
    /\ stream[m] = "pending"
    /\ stream' = [stream EXCEPT ![m] = "idle"]
    /\ UNCHANGED <<task, lease, events, wk, published, turnedAway, faults>>

-----------------------------------------------------------------------------
(* The owner and the supervisor. *)

\* The status and the wake-up are committed together.
Runnable(e) ==
    /\ IsFresh(events, e, "none")
    /\ events' = [events EXCEPT ![e] = "pending"]

\* approve, submit_input.
OwnerResumes ==
    /\ task = "waiting"
    /\ task' = "runnable"
    /\ \E e \in Events : Runnable(e)
    /\ UNCHANGED <<lease, stream, wk, published, turnedAway, faults>>

\* cancel, reject: no wake-up is needed.
OwnerCancels ==
    /\ task # "done"
    /\ task' = "done"
    /\ UNCHANGED <<lease, events, stream, wk, published, turnedAway, faults>>

LeaseAfterDeath(dead) == IF lease \in dead THEN Gone ELSE lease

\* The supervisor restarts a dead child with --skip-recovery.
Crash(w) ==
    /\ Fault
    /\ wk' = [wk EXCEPT ![w] = Fresh]
    /\ lease' = LeaseAfterDeath({w})
    /\ UNCHANGED <<task, events, stream, published, turnedAway>>

\* The whole pool is restarted: resume_unfinished_tasks inserts a wake-up first, if
\* the task is unfinished and the database can be reached by then.
Restart ==
    /\ Fault
    /\ wk' = [w \in Workers |-> Fresh]
    /\ lease' = LeaseAfterDeath(Workers)
    /\ \/ task # "done" /\ \E e \in Events : Runnable(e)
       \/ UNCHANGED events
    /\ UNCHANGED <<task, stream, published, turnedAway>>

LeaseExpires ==
    /\ lease = Gone
    /\ lease' = Free
    /\ UNCHANGED <<task, events, stream, wk, published, turnedAway, faults>>

-----------------------------------------------------------------------------
WorkerStep(w) ==
    \/ Dispatch(w) \/ Publish(w) \/ Mark(w) \/ DispatchDone(w) \/ Poll(w) \/ BatchDone(w)
    \/ Handle(w) \/ Drive(w) \/ Release(w) \/ Ack(w)

Next ==
    \/ \E w \in Workers : WorkerStep(w) \/ Crash(w)
    \/ \E e \in Events : ClaimLapses(e)
    \/ \E m \in Messages : GoesIdle(m)
    \/ OwnerResumes \/ OwnerCancels \/ Restart \/ LeaseExpires

Spec == Init /\ [][Next]_vars

\* The loop of worker.py never ends, and the three clocks run.
FairSpec ==
    /\ Spec
    /\ \A w \in Workers : WF_vars(WorkerStep(w))
    /\ \A e \in Events : WF_vars(ClaimLapses(e))
    /\ \A m \in Messages : WF_vars(GoesIdle(m))
    /\ WF_vars(LeaseExpires)

-----------------------------------------------------------------------------
(* Properties. *)

\* The rows stay in the domains of their columns; no row takes a status that
\* claim_outbox and XAUTOCLAIM do not know.
TypeOK ==
    /\ task \in TaskStates
    /\ lease \in Workers \cup {Free, Gone}
    /\ events \in [Events -> EventStates]
    /\ stream \in [Messages -> MessageStates]
    /\ wk \in [Workers -> Worker]
    /\ published \subseteq Events
    /\ turnedAway \in BOOLEAN
    /\ faults \in 0..MaxFaults

\* However dispatchers crash, fail and overtake each other, a row is only marked
\* sent after its message reached the stream.
SentWasPublished == \A e \in Events : events[e] = "sent" => e \in published

\* Something will still lead a worker to the task: an undelivered outbox row, an
\* unacknowledged message, or a worker that is driving it.
Carrier ==
    \/ \E e \in Events : events[e] \in {"pending", "publishing", "overdue"}
    \/ \E m \in Messages : stream[m] \in {"new", "pending", "idle"}
    \/ \E w \in Workers : wk[w].pc = "drive"
Carried == task = "runnable" => Carrier

\* The only way a wake-up is lost: a message was acknowledged by a worker that the
\* lease turned away.  Crashes, failed publications and exceptions lose none.
CarriedUnlessTurnedAway == ~ turnedAway => Carried

\* A runnable Task is eventually driven to where it waits or is done, unless a
\* wake-up was turned away.
Woken == task = "runnable" ~> (task # "runnable" \/ turnedAway)

=============================================================================
