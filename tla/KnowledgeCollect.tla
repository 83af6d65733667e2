-------------------------- MODULE KnowledgeCollect --------------------------
(****************************************************************************)
(* The knowledge service collects one Feishu conversation of one connector  *)
(* account: workers poll it under a key-value lock whose time runs out, the *)
(* owner meanwhile pauses, removes, adds and restarts the collection.       *)
(*                                                                          *)
(* A message is its place in the conversation; a cursor is the place up to  *)
(* which it vouches, 0 for NULL.  Each poll re-reads Overlap places below   *)
(* its cursor.  A worker records a failure and its back-off; here the next  *)
(* poll comes at any later time.  The receipt that AdvanceCursor asks for   *)
(* is written by the worker one statement earlier and the two are one step. *)
(* The cached answer of an ingest may be gone at any time.                  *)
(****************************************************************************)
EXTENDS Integers, FiniteSets

CONSTANTS
    Workers,        \* worker processes of the knowledge service
    Collectors,     \* successive rows of conversation_collectors for the account
    N,              \* bound: messages of the conversation
    Attached,       \* the messages that carry an attachment
    Overlap,        \* feishuCursorOverlap
    MaxOps,         \* bound: requests of the owner, edits in the platform, messages
                    \* that grow old
    MaxFaults       \* bound: failed calls, dead workers, locks that run out

VARIABLES
    newest,     \* external: the last message the platform has
    old,        \* the last message that is more than seven days old
    edited,     \* external: messages changed in the platform after they were stored
    conv,       \* the row of conversation_ingestions
    coll,       \* the rows of conversation_collectors
    msgs,       \* the stored messages
    att,        \* attachments.content_status
    object,     \* the attachments the object store holds
    cache,      \* the dedupe cache: what the ingest of a message returned
    lock,       \* knowledge:worker:connector:<account>
    poll,       \* the workers
    spoilt,     \* history: attachments failed or deleted behind a completed upload
    straddled,  \* history: a cursor was committed for the history that was asked before
    dropped,    \* history: messages a poll passed over because they were too old
    unwoken,    \* history: a row was inserted into a conversation paused for want of one
    ops, faults

vars == <<newest, old, edited, conv, coll, msgs, att, object, cache, lock, poll,
          spoilt, straddled, dropped, unwoken, ops, faults>>
rows == <<msgs, att, object, cache>>
history == <<spoilt, straddled, dropped, unwoken>>

Messages == 1..N
None == "none"

First == CHOOSE c \in Collectors : TRUE

\* moved: history, the start was moved since this poll began.
Poll == [pc : {"idle", "listed", "ingest", "attach", "complete", "advance"},
         c : Collectors \cup {None}, cursor : 0..N, upto : 0..N, todo : SUBSET Messages,
         m : 0..N, moved : BOOLEAN]
Rest == [pc |-> "idle", c |-> None, cursor |-> 0, upto |-> 0, todo |-> {}, m |-> 0,
         moved |-> FALSE]

Init ==
    /\ newest = 0 /\ old = 0 /\ edited = {}
    /\ \E type \in {"private", "group"}, start \in Messages :
          conv = [type |-> type, status |-> "active", reason |-> None, start |-> start]
    /\ coll = [c \in Collectors |->
                 [status |-> IF c = First THEN "active" ELSE "absent", cursor |-> 0]]
    /\ msgs = {} /\ object = {} /\ cache = {}
    /\ att = [m \in Attached |-> None]
    /\ lock = None
    /\ poll = [p \in Workers |-> Rest]
    /\ spoilt = {} /\ straddled = FALSE /\ dropped = {} /\ unwoken = FALSE
    /\ ops = 0 /\ faults = 0

Fault == faults < MaxFaults /\ faults' = faults + 1
Ask == ops < MaxOps /\ ops' = ops + 1
Active(c) == coll[c].status = "active"

-----------------------------------------------------------------------------
(* The platform. *)

Arrive ==
    /\ newest < N
    /\ newest' = newest + 1
    /\ UNCHANGED <<old, edited, conv, coll, rows, lock, poll, history, ops, faults>>

\* Seven days pass over a message: the workers are down, or the conversation paused.
GrowOld ==
    /\ Ask
    /\ old < newest
    /\ old' = old + 1
    /\ UNCHANGED <<newest, edited, conv, coll, rows, lock, poll, history, faults>>

\* The sender edits a message, which changes the hash of its content.
Edit(m) ==
    /\ Ask
    /\ m \in msgs
    /\ edited' = edited \cup {m}
    /\ UNCHANGED <<newest, old, conv, coll, rows, lock, poll, history, faults>>

-----------------------------------------------------------------------------
(* One poll of a worker: Worker.Tick and pollAccount. *)

\* The lock, then ListCollectorsByConnector.
Tick(p) ==
    /\ poll[p].pc = "idle"
    /\ lock = None
    /\ \E c \in Collectors :
          /\ Active(c)
          /\ lock' = p
          /\ poll' = [poll EXCEPT ![p] = [Rest EXCEPT !.pc = "listed", !.c = c,
                                                      !.cursor = coll[c].cursor]]
    /\ UNCHANGED <<newest, old, edited, conv, coll, rows, history, ops, faults>>

\* Release deletes the lock only while it still holds the owner's token.
Leave(p) ==
    /\ poll' = [poll EXCEPT ![p] = Rest]
    /\ lock' = IF lock = p THEN None ELSE lock

\* The window reaches back to the asked start and to the cursor less the overlap, and
\* never further than seven days.  What lies behind the cursor and is older is left out,
\* and the cursor moves past it.
Window(start, cursor) == {m \in 1..newest : m >= start /\ m > cursor - Overlap /\ m > old}
TooOld(start, cursor) == {m \in 1..old : m >= start /\ m > cursor}

Next1(todo) == IF todo = {} THEN "advance" ELSE "ingest"

\* GetConversation, then PollMessages with the cursor read before.
PollMessages(p) ==
    /\ poll[p].pc = "listed"
    /\ IF conv.status = "active"
       THEN LET todo == Window(conv.start, poll[p].cursor)
            IN  /\ poll' = [poll EXCEPT ![p].pc = Next1(todo), ![p].upto = newest,
                                        ![p].todo = todo]
                /\ dropped' = dropped \cup TooOld(conv.start, poll[p].cursor)
                /\ UNCHANGED lock
       ELSE Leave(p) /\ UNCHANGED dropped
    /\ UNCHANGED <<newest, old, edited, conv, coll, rows, spoilt, straddled, unwoken, ops, faults>>

\* After one message: its attachment, or the next message, or the cursor.
After(p, m) ==
    LET rest == poll[p].todo \ {m}
    IN  poll' = [poll EXCEPT ![p].pc = Next1(rest), ![p].todo = rest, ![p].m = 0]

Stored(p, m) ==
    IF m \in Attached
    THEN poll' = [poll EXCEPT ![p].pc = "attach", ![p].m = m]
    ELSE After(p, m)

\* Service.IngestMessage: the cache answers with the attachment as it was when the
\* message was first stored, pending, so it is downloaded again.
IngestCached(p) ==
    /\ poll[p].pc = "ingest"
    /\ LET m == CHOOSE x \in poll[p].todo : \A y \in poll[p].todo : x <= y
       IN  m \in cache /\ m \notin edited /\ Stored(p, m)
    /\ UNCHANGED <<newest, old, edited, conv, coll, rows, lock, history, ops, faults>>

\* PostgresStore.IngestMessage: collector and conversation are active, the payload is
\* the one stored before.
IngestRefused(p, m) ==
    \/ ~Active(poll[p].c) \/ conv.status # "active"
    \/ m \in msgs /\ m \in edited

IngestMessage(p) ==
    /\ poll[p].pc = "ingest"
    /\ LET m == CHOOSE x \in poll[p].todo : \A y \in poll[p].todo : x <= y
       IN  IF IngestRefused(p, m)
           THEN Leave(p) /\ UNCHANGED rows
           ELSE /\ msgs' = msgs \cup {m}
                /\ cache' = cache \cup {m}
                /\ att' = [a \in Attached |->
                             IF a = m /\ att[a] = None THEN "pending" ELSE att[a]]
                /\ IF m \in Attached /\ att[m] = "ready"
                   THEN After(p, m)
                   ELSE Stored(p, m)
                /\ UNCHANGED <<object, lock>>
    /\ UNCHANGED <<newest, old, edited, conv, coll, history, ops, faults>>

\* downloadAttachments and UploadAttachment up to Objects.Put.
Download(p) ==
    /\ poll[p].pc = "attach"
    /\ object' = object \cup {poll[p].m}
    /\ poll' = [poll EXCEPT ![p].pc = "complete"]
    /\ UNCHANGED <<newest, old, edited, conv, coll, msgs, att, cache, lock, history, ops, faults>>

\* The download or the store fails: FailAttachment, whatever the status has become.
DownloadFails(p) ==
    /\ poll[p].pc = "attach"
    /\ Fault
    /\ att' = [att EXCEPT ![poll[p].m] = "failed"]
    /\ spoilt' = spoilt \cup {a \in {poll[p].m} : att[a] = "ready"}
    /\ Leave(p)
    /\ UNCHANGED <<newest, old, edited, conv, coll, msgs, object, cache, straddled, dropped, unwoken, ops>>

CompleteAttachment(p) ==
    /\ poll[p].pc = "complete"
    /\ att' = [att EXCEPT ![poll[p].m] = "ready"]
    /\ After(p, poll[p].m)
    /\ UNCHANGED <<newest, old, edited, conv, coll, msgs, object, cache, lock, history, ops, faults>>

\* An error of CompleteAttachment deletes the object, though the row may be ready, by a
\* commit whose answer was lost, or another worker may be about to make it so.
CompleteFails(p) ==
    /\ poll[p].pc = "complete"
    /\ Fault
    /\ \E committed \in BOOLEAN :
          att' = IF committed THEN [att EXCEPT ![poll[p].m] = "ready"] ELSE att
    /\ object' = object \ {poll[p].m}
    /\ spoilt' = spoilt \cup {a \in {poll[p].m} :
                            att'[a] = "ready" \/ \E q \in Workers \ {p} :
                                                   poll[q].pc = "complete" /\ poll[q].m = a}
    /\ Leave(p)
    /\ UNCHANGED <<newest, old, edited, conv, coll, msgs, cache, straddled, dropped, unwoken, ops>>

AdvanceCursor_Early(p) ==       \* mutant: the cursor moves with the first message left
    /\ poll[p].pc \in {"advance", "attach"}
    /\ coll' = [coll EXCEPT ![poll[p].c].cursor = poll[p].upto]
    /\ straddled' = (straddled \/ poll[p].moved)
    /\ Leave(p)
    /\ UNCHANGED <<newest, old, edited, conv, rows, spoilt, dropped, unwoken, ops, faults>>
\* RecordCursorReceipt and AdvanceCursor; a watermark is no number, so any is taken.
AdvanceCursor(p) ==
    /\ poll[p].pc = "advance"
    /\ IF Active(poll[p].c)
       THEN /\ coll' = [coll EXCEPT ![poll[p].c].cursor = poll[p].upto]
            /\ straddled' = (straddled \/ poll[p].moved)
       ELSE UNCHANGED <<coll, straddled>>
    /\ Leave(p)
    /\ UNCHANGED <<newest, old, edited, conv, rows, spoilt, dropped, unwoken, ops, faults>>

\* The process dies and leaves the lock behind.
Crash(p) ==
    /\ poll[p].pc # "idle"
    /\ Fault
    /\ poll' = [poll EXCEPT ![p] = Rest]
    /\ UNCHANGED <<newest, old, edited, conv, coll, rows, lock, history, ops>>

LockExpires_OfTheLiving ==      \* mutant: the lock of a dead worker has no time to live
    /\ lock # None /\ poll[lock].pc # "idle"
    /\ Fault
    /\ lock' = None
    /\ UNCHANGED <<newest, old, edited, conv, coll, rows, poll, history, ops>>
\* The lock of a dead worker runs out; that of a slow one is a fault.
LockExpires ==
    /\ lock # None
    /\ IF poll[lock].pc = "idle" THEN UNCHANGED faults ELSE Fault
    /\ lock' = None
    /\ UNCHANGED <<newest, old, edited, conv, coll, rows, poll, history, ops>>

-----------------------------------------------------------------------------
(* The owner. *)

Wake(cv) == [cv EXCEPT !.status = "active", !.reason = None]
Waiting(cv) == cv.status = "paused" /\ cv.reason = "no_available_collector"
\* Both statements of RemoveCollector and of SetCollectorStatus(paused).
Stop(c, status) ==
    /\ coll' = [coll EXCEPT ![c].status = status]
    /\ conv' = IF \E d \in Collectors \ {c} : Active(d) THEN conv
               ELSE [conv EXCEPT !.status = "paused", !.reason = "no_available_collector"]

RemoveCollector(c) ==
    /\ Ask
    /\ coll[c].status \in {"active", "paused"}
    /\ Stop(c, "removed")
    /\ UNCHANGED <<newest, old, edited, rows, lock, poll, history, faults>>

SetCollectorPaused_NoWake(c, paused) ==     \* mutant: resuming wakes the collector only
    /\ Ask
    /\ coll[c].status \in {"active", "paused"}
    /\ IF paused
       THEN Stop(c, "paused")
       ELSE coll' = [coll EXCEPT ![c].status = "active"] /\ UNCHANGED conv
    /\ UNCHANGED <<newest, old, edited, rows, lock, poll, history, faults>>
SetCollectorPaused(c, paused) ==
    /\ Ask
    /\ coll[c].status \in {"active", "paused"}
    /\ IF paused
       THEN Stop(c, "paused")
       ELSE /\ coll' = [coll EXCEPT ![c].status = "active"]
            /\ conv' = IF Waiting(conv) THEN Wake(conv) ELSE conv
    /\ UNCHANGED <<newest, old, edited, rows, lock, poll, history, faults>>

\* The row that is not removed is activated, else one is inserted, and the
\* conversation is woken in the first case only.
AddCollector(c) ==
    /\ Ask
    /\ conv.type = "group"
    /\ \/ /\ coll[c].status \in {"active", "paused"}
          /\ coll' = [coll EXCEPT ![c].status = "active"]
          /\ conv' = IF coll[c].status = "paused" /\ Waiting(conv) THEN Wake(conv) ELSE conv
          /\ UNCHANGED unwoken
       \/ /\ coll[c].status = "absent"
          /\ \A d \in Collectors : coll[d].status \in {"absent", "removed"}
          /\ coll' = [coll EXCEPT ![c].status = "active"]
          /\ unwoken' = (unwoken \/ Waiting(conv))
          /\ UNCHANGED conv
    /\ UNCHANGED <<newest, old, edited, rows, lock, poll, spoilt, straddled, dropped, faults>>

PauseResume(resume) ==
    /\ Ask
    /\ conv' = [conv EXCEPT !.status = IF resume THEN "active" ELSE "paused", !.reason = None]
    /\ UNCHANGED <<newest, old, edited, coll, rows, lock, poll, history, faults>>

Moved == [p \in Workers |-> [poll[p] EXCEPT !.moved = poll[p].pc # "idle"]]

UpdateConversationStart_KeepCursor(start) ==   \* mutant: the cursors survive the new start
    /\ Ask
    /\ conv.type = "private"
    /\ start > old
    /\ conv' = [Wake(conv) EXCEPT !.start = start]
    /\ poll' = Moved
    /\ UNCHANGED <<newest, old, edited, coll, rows, lock, history, faults>>
UpdateConversationStart(start) ==
    /\ Ask
    /\ conv.type = "private"
    /\ start > old
    /\ conv' = [Wake(conv) EXCEPT !.start = start]
    /\ coll' = [c \in Collectors |-> [coll[c] EXCEPT !.cursor = 0]]
    /\ poll' = Moved
    /\ UNCHANGED <<newest, old, edited, rows, lock, history, faults>>

-----------------------------------------------------------------------------
Step(p) ==
    \/ Tick(p) \/ PollMessages(p) \/ IngestCached(p) \/ IngestMessage(p)
    \/ Download(p) \/ CompleteAttachment(p) \/ AdvanceCursor(p)

Next ==
    \/ Arrive \/ GrowOld \/ LockExpires
    \/ \E m \in Messages : Edit(m)
    \/ \E p \in Workers : Step(p) \/ DownloadFails(p) \/ CompleteFails(p) \/ Crash(p)
    \/ \E c \in Collectors :
          RemoveCollector(c) \/ AddCollector(c) \/ \E b \in BOOLEAN : SetCollectorPaused(c, b)
    \/ \E b \in BOOLEAN : PauseResume(b)
    \/ \E start \in Messages : UpdateConversationStart(start)

\* The worker loop runs on, and a key with a time to live goes when it is over.
Fairness ==
    /\ \A p \in Workers : WF_vars(Step(p))
    /\ WF_vars(LockExpires /\ UNCHANGED faults)

Spec == Init /\ [][Next]_vars /\ Fairness

-----------------------------------------------------------------------------
TypeOK ==
    /\ newest \in 0..N /\ old \in 0..newest
    /\ edited \subseteq msgs
    /\ conv \in [type : {"private", "group"}, status : {"active", "paused"},
                 reason : {None, "no_available_collector"}, start : Messages]
    /\ coll \in [Collectors -> [status : {"absent", "active", "paused", "removed"}, cursor : 0..N]]
    /\ msgs \subseteq Messages /\ cache \subseteq msgs /\ object \subseteq Attached
    /\ att \in [Attached -> {None, "pending", "ready", "failed"}]
    /\ lock \in Workers \cup {None}
    /\ poll \in [Workers -> Poll]
    /\ spoilt \subseteq Attached
    /\ straddled \in BOOLEAN /\ dropped \subseteq Messages /\ unwoken \in BOOLEAN

Kept(m) ==
    /\ m \in msgs
    /\ m \in Attached => (att[m] = "ready" /\ m \in object) \/ m \in spoilt

\* Whatever a cursor vouches for since the asked start is stored with its attachment,
\* through retries, dead workers, lapsed locks and re-added collectors.  Two ways lead
\* round it: a message that was more than seven days old before a poll reached it is
\* passed over in silence, and a poll that began before the start was moved may commit
\* after.
CursorCovers ==
    straddled \/ \A c \in Collectors, m \in Messages \ dropped :
                    conv.start <= m /\ m <= coll[c].cursor => Kept(m)

\* A conversation that waits for a collector has none that is active, so nobody waits
\* for a collector that is there; AddCollector breaks it when it inserts a row.
WaitsForNobody ==
    Waiting(conv) => unwoken \/ \A c \in Collectors : ~Active(c)

\* Why it holds: what a poll has passed, or read of its cursor when it began, is kept
\* unless the start was moved meanwhile; and what is ready stays in the object store but
\* for a failure behind a completed upload.
InHand(p) ==
    /\ poll[p].pc \in {"attach", "complete"} => poll[p].m \in Attached \cap msgs
    /\ poll[p].pc = "complete" => poll[p].m \in object \cup spoilt
    /\ poll[p].pc = "ingest" => poll[p].todo # {}
    /\ poll[p].pc = "advance" => poll[p].todo = {}
    /\ poll[p].pc # "idle" => poll[p].c \in Collectors
    /\ poll[p].pc = "idle" => ~poll[p].moved
Passed(p) ==
    ~poll[p].moved /\ ~straddled =>
       /\ poll[p].pc = "listed" =>
             \A m \in Messages \ dropped : conv.start <= m /\ m <= poll[p].cursor => Kept(m)
       /\ poll[p].pc \notin {"idle", "listed"} =>
             \A m \in Messages \ dropped : conv.start <= m /\ m <= poll[p].upto =>
                                    m \in poll[p].todo \/ Kept(m)
CollectInv ==
    /\ TypeOK /\ CursorCovers /\ WaitsForNobody
    /\ \A a \in Attached : att[a] = "ready" => a \in object \cup spoilt
    /\ \A p \in Workers : InHand(p) /\ Passed(p)

\* A collector that stays active on an active conversation catches up with the
\* platform, unless a message it must re-read was edited after it was stored.
CaughtUp ==
    \A c \in Collectors :
        Active(c) /\ conv.status = "active" /\ edited = {} => coll[c].cursor = newest
CatchesUp == <>[]CaughtUp
=============================================================================
