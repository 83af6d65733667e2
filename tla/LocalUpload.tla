----------------------------- MODULE LocalUpload -----------------------------
(****************************************************************************)
(* Files that users upload themselves: a task per request id, PUT calls     *)
(* that bring its content, the object store and the synchronisation of      *)
(* permissions, which together make an item ready for the RAG service.      *)
(*                                                                          *)
(* All tasks here name one file of one content: the key of the object is    *)
(* made of destination, hash and file name, so owners share it.  The        *)
(* key-value cache of duplicates is left out: GetAttachment of the store    *)
(* reads no upload_status, so what the cache finds is never used.           *)
(****************************************************************************)
EXTENDS Integers

CONSTANTS
    Owners,     \* users, or organisations, that own a library
    N,          \* bound: upload tasks, numbered as they are created
    Calls,      \* bound: PUT calls with a content
    MaxFaults   \* bound: refused stores, lost answers, dead calls

VARIABLES
    row,        \* attachments: [owner, upload, ready]; ready: it names the object
    item,       \* its knowledge item: [saved, permission, ready]
    event,      \* knowledge.ready of the item is in the outbox
    object,     \* the object store has the content
    call,       \* the PUT calls: [pc, task, found]
    undone,     \* history: a failed call has deleted an object that a row names, or
                \* that another call was about to name
    faults

vars == <<row, item, event, object, call, undone, faults>>

Tasks == 1..N
None == "none"
Statuses == {"pending", "uploaded", "failed", "duplicate"}
Row == [owner : Owners \cup {None}, upload : Statuses, ready : BOOLEAN]
Item == [saved : BOOLEAN, permission : {"pending", "synced", "failed"}, ready : BOOLEAN]
Call == [pc : {"new", "body", "find", "mark", "put", "finalize", "undo", "done"},
         task : {0} \cup Tasks]

Init ==
    /\ row = [t \in Tasks |-> [owner |-> None, upload |-> "pending", ready |-> FALSE]]
    /\ item = [t \in Tasks |-> [saved |-> FALSE, permission |-> "pending", ready |-> FALSE]]
    /\ event = [t \in Tasks |-> FALSE]
    /\ object = FALSE
    /\ call = [c \in Calls |-> [pc |-> "new", task |-> 0]]
    /\ undone = FALSE
    /\ faults = 0

Fault == faults < MaxFaults /\ faults' = faults + 1
Created(t) == row[t].owner # None
Goto(c, pc) == call' = [call EXCEPT ![c].pc = pc]

-----------------------------------------------------------------------------
\* A request id that is used again finds its task.
CreateLocalUploadTask(t) ==
    /\ ~Created(t) /\ \A s \in 1..(t - 1) : Created(s)
    /\ \E o \in Owners : row' = [row EXCEPT ![t].owner = o]
    /\ UNCHANGED <<item, event, object, call, undone, faults>>

\* UploadLocalContent: what is uploaded already is answered at once.
GetLocalUploadTask(c, t) ==
    /\ call[c].pc = "new" /\ Created(t)
    /\ call' = [call EXCEPT ![c] =
          [pc |-> IF row[t].upload \in {"uploaded", "duplicate"} THEN "done" ELSE "body",
           task |-> t]]
    /\ UNCHANGED <<row, item, event, object, undone, faults>>

\* The content is what the task announced.
ReadBody(c) ==
    /\ call[c].pc = "body"
    /\ Goto(c, "find")
    /\ UNCHANGED <<row, item, event, object, undone, faults>>

\* FailLocalUpload asks nothing of the row.
FailLocalUpload(t) == row' = [row EXCEPT ![t].upload = "failed"]

\* The size or the hash differs, or the store takes no object.
Refuse(c) ==
    /\ \/ call[c].pc = "body" /\ UNCHANGED faults
       \/ call[c].pc = "put" /\ Fault
    /\ FailLocalUpload(call[c].task)
    /\ Goto(c, "done")
    /\ UNCHANGED <<item, event, object, undone>>

Uploaded_OrPending(o) == {t \in Tasks : row[t].owner = o /\ row[t].upload # "failed"}  \* mutant
Uploaded(o) == {t \in Tasks : row[t].owner = o /\ row[t].upload \in {"uploaded", "duplicate"}}

\* The oldest upload of this content by this owner, unless it is this task; a failed
\* query finds none.
FindLocalDuplicate(c) ==
    LET t == call[c].task
        of == Uploaded(row[t].owner)
        first == CHOOSE s \in of : \A u \in of : s <= u
    IN  /\ call[c].pc = "find"
        /\ \/ Goto(c, IF of # {} /\ first # t THEN "mark" ELSE "put") /\ UNCHANGED faults
           \/ Fault /\ Goto(c, "put")
        /\ UNCHANGED <<row, item, event, object, undone>>

\* The item of a duplicate is left to the synchronisation of permissions.
MarkLocalDuplicate(c) ==
    /\ call[c].pc = "mark"
    /\ row' = [row EXCEPT ![call[c].task].upload = "duplicate", ![call[c].task].ready = TRUE]
    /\ Goto(c, "done")
    /\ UNCHANGED <<item, event, object, undone, faults>>

Put(c) ==
    /\ call[c].pc = "put"
    /\ object' = TRUE /\ undone' = FALSE
    /\ Goto(c, "finalize")
    /\ UNCHANGED <<row, item, event, faults>>

\* One transaction.  The item is ready if its permissions were synchronised before.
Finalized(t) ==
    LET ready == item[t].ready \/ item[t].permission = "synced"
    IN  /\ row' = [row EXCEPT ![t].upload = "uploaded", ![t].ready = TRUE]
        /\ item' = [item EXCEPT ![t].saved = TRUE, ![t].ready = ready]
        /\ event' = [event EXCEPT ![t] = @ \/ ready]

FinalizeLocalUpload(c) ==
    /\ call[c].pc = "finalize"
    /\ Finalized(call[c].task)
    /\ Goto(c, "done")
    /\ UNCHANGED <<object, undone, faults>>

\* The transaction fails, or its commit is not confirmed.
FinalizeFails(c) ==
    /\ call[c].pc = "finalize"
    /\ Fault
    /\ Finalized(call[c].task) \/ UNCHANGED <<row, item, event>>
    /\ Goto(c, "undo")
    /\ UNCHANGED <<object, undone>>

\* The call takes its object back, whoever else names it.
DeleteObject(c) ==
    /\ call[c].pc = "undo"
    /\ object' = FALSE
    /\ undone' = \/ \E t \in Tasks : row[t].ready
                 \/ \E d \in Calls : call[d].pc = "finalize"
    /\ Goto(c, "done")
    /\ UNCHANGED <<row, item, event, faults>>

\* The call dies, or a store refuses what changes nothing.
Crash(c) ==
    /\ call[c].pc \notin {"new", "done"}
    /\ Fault
    /\ Goto(c, "done")
    /\ UNCHANGED <<row, item, event, object, undone>>

-----------------------------------------------------------------------------
(* ProcessPermissions, of the worker and of every call that ends well. *)

Sync(t) ==
    /\ Created(t) /\ item[t].permission # "synced"
    /\ item' = [item EXCEPT ![t].permission = "synced"]
    /\ UNCHANGED <<row, event, object, call, undone, faults>>

\* Core refuses, perhaps from a list that another run has meanwhile worked off.
SyncFails(t) ==
    /\ Created(t)
    /\ Fault
    /\ item' = [item EXCEPT ![t].permission = "failed"]
    /\ UNCHANGED <<row, event, object, call, undone>>

\* An item whose upload came to no more than a row is healed from it.
SavedBytes_ItemOnly(t) == item[t].saved     \* mutant: it is not
SavedBytes(t) == item[t].saved \/ row[t].ready

TryMarkKnowledgeReady(t) ==
    /\ ~item[t].ready /\ item[t].permission = "synced" /\ SavedBytes(t)
    /\ item' = [item EXCEPT ![t].saved = TRUE, ![t].ready = TRUE]
    /\ event' = [event EXCEPT ![t] = TRUE]
    /\ UNCHANGED <<row, object, call, undone, faults>>

-----------------------------------------------------------------------------
Serve(c) ==
    \/ \E t \in Tasks : GetLocalUploadTask(c, t)
    \/ ReadBody(c) \/ Refuse(c) \/ FindLocalDuplicate(c) \/ MarkLocalDuplicate(c)
    \/ Put(c) \/ FinalizeLocalUpload(c) \/ FinalizeFails(c) \/ DeleteObject(c) \/ Crash(c)

Permit(t) == Sync(t) \/ TryMarkKnowledgeReady(t)

Next ==
    \/ \E c \in Calls : Serve(c)
    \/ \E t \in Tasks : CreateLocalUploadTask(t) \/ Permit(t) \/ SyncFails(t)

\* The worker ticks; nobody has to upload.
Fairness == \A t \in Tasks : WF_vars(Permit(t))

Spec == Init /\ [][Next]_vars /\ Fairness

-----------------------------------------------------------------------------
TypeOK ==
    /\ row \in [Tasks -> Row] /\ item \in [Tasks -> Item] /\ event \in [Tasks -> BOOLEAN]
    /\ call \in [Calls -> Call] /\ {object, undone} \subseteq BOOLEAN

CallsFor(t) == {c \in Calls : call[c].task = t}

\* What a row says is so: a file that reads as stored is in the object store, as long
\* as no failed call has taken the shared object back; a duplicate has an original of
\* the same owner; a file is announced when it is stored; and a stored file reads as
\* failed only where two calls worked on one task.
RowsTellTheTruth ==
    \A t \in Tasks :
        /\ row[t].ready => object \/ undone
        /\ row[t].upload = "duplicate" =>
              \E s \in Tasks \ {t} : row[s].owner = row[t].owner /\ row[s].ready
        /\ event[t] => row[t].ready /\ item[t].saved
        /\ row[t].upload = "failed" /\ row[t].ready =>
              \E c, d \in CallsFor(t) : c # d

\* Why it holds: a call that is about to write a row has put the object or has found an
\* original, and a row that names the object was written by a call that does not fail it
\* any more.
Backed(c) ==
    /\ IF call[c].pc = "new" THEN call[c].task = 0
                             ELSE call[c].task \in Tasks /\ Created(call[c].task)
    /\ call[c].pc = "finalize" => object \/ undone
    /\ call[c].pc = "mark" =>
          \E s \in Tasks \ {call[c].task} :
             row[s].owner = row[call[c].task].owner /\ row[s].ready
UploadInv ==
    /\ TypeOK /\ RowsTellTheTruth
    /\ \A c \in Calls : Backed(c)
    /\ \A t \in Tasks :
          /\ row[t].upload \in {"uploaded", "duplicate"} => row[t].ready
          /\ row[t].ready => Created(t) /\ \E c \in CallsFor(t) : call[c].pc \in {"undo", "done"}
          /\ item[t].saved => row[t].ready
          /\ item[t].ready => item[t].saved

\* Whichever comes first, the content or the permissions, a stored file is announced.
Announced == \A t \in Tasks : row[t].ready => event[t]
=============================================================================
