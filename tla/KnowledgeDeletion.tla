-------------------------- MODULE KnowledgeDeletion --------------------------
(****************************************************************************)
(* The deletion of one message and its knowledge item: the request and its  *)
(* target in the knowledge service, the relations in OpenFGA, the object,   *)
(* the search index of the RAG service and its callback.  The API call does *)
(* one thing after the other and may die between any two of them; the       *)
(* worker repeats what it finds undone.                                     *)
(*                                                                          *)
(* The store writes every request as 'executing', so review and repair of   *)
(* pending requests find none and are left out.  A text is due at once, a   *)
(* file after seven days, that is, at any time.                             *)
(****************************************************************************)
EXTENDS Integers

CONSTANTS
    Requests,   \* deletion requests for the message, one after the other
    MaxFaults   \* bound: failed calls, dead processes, retries that meet a lane at work

VARIABLES
    kind,       \* [text, private] of the message
    item,       \* lifecycle_status of the item, and whether its content was purged
    request,    \* the rows of deletion_requests with their target
    call,       \* the API call of each request
    relations,  \* external: OpenFGA has relations on the item
    object,     \* the object store has the content
    event,      \* knowledge.deletion.requested: one per item and content version
    docs,       \* RAG: the search index has the item's chunks
    chunks,     \* RAG: the chunk rows
    lane,       \* RAG: what the item's job is at
    callback,   \* RAG: the callback 'deleted'
    sync,       \* a worker has listed the item for permission synchronisation
    revived,    \* history: written again behind the deletion
    faults

vars == <<kind, item, request, call, relations, object, event, docs, chunks, lane, callback,
          sync, revived, faults>>
rag == <<docs, chunks, lane, callback>>

None == "none"
Request == [status : {None, "executing", "completed"}, vector : {"pending", "deleted"},
            object : {"pending", "failed", "deleted", "not_required"},
            auth : {"pending", "revoked"}, announced : BOOLEAN]
Calls == {"new", "create", "revoke", "mark", "hide", "purge", "done"}
\* No job yet (knowledge.ready is not published), one that waits for the parse lane or has
\* its content loaded, one that waits for the index lane or has its chunks loaded, a job
\* that is over.
Lanes == {"none", "parse", "parsed", "index", "indexing", "idle"}
Absent == [status |-> None, vector |-> "pending", object |-> "pending", auth |-> "pending",
           announced |-> FALSE]

Init ==
    /\ kind \in [text : BOOLEAN, private : BOOLEAN]
    /\ item = [status |-> "active", purged |-> FALSE]
    /\ request = [r \in Requests |-> Absent]
    /\ call = [r \in Requests |-> "new"]
    /\ relations = TRUE /\ object = ~kind.text
    /\ event = None
    /\ docs \in BOOLEAN /\ chunks \in BOOLEAN /\ lane \in Lanes /\ callback = None
    /\ docs => chunks
    /\ lane = "none" => ~chunks
    /\ lane = "indexing" => chunks
    /\ sync = FALSE
    /\ revived = {}
    /\ faults = 0

Fault == faults < MaxFaults /\ faults' = faults + 1
Executing(r) == request[r].status = "executing"

Done_NoVectors(q, purged) ==      \* mutant: it does not wait for the RAG service
    q.object \in {"deleted", "not_required"} /\ q.auth = "revoked" /\ purged
\* reconcileDeletionCompletion: a statement of its own after each stage.
Done(q, purged) ==
    /\ q.vector = "deleted" /\ q.object \in {"deleted", "not_required"}
    /\ q.auth = "revoked" /\ purged
Reconciled(q, purged) ==
    IF q.status = "executing" /\ Done(q, purged) THEN [q EXCEPT !.status = "completed"] ELSE q

-----------------------------------------------------------------------------
(* The API call: CreateDeletionRequest of the service. *)

\* canDeleteKnowledge: the owner of private content; the administrator as long as the
\* item has the relations that make him one.
MayDelete == kind.private \/ relations

\* An active request is found again; else a row, whatever canDeleteKnowledge has said.
CreateDeletionRequest(r) ==
    /\ call[r] = "new"
    /\ \A q \in Requests : q # r => ~Executing(q) /\ call[q] \in {"new", "done"}
    /\ request[r].status \in {None, "executing"}
    /\ request' = IF Executing(r) THEN request
                  ELSE [request EXCEPT ![r] =
                          [Absent EXCEPT !.status = "executing",
                                         !.object = IF kind.text THEN "not_required"
                                                    ELSE "pending"]]
    /\ \E allowed \in {a \in BOOLEAN : a => MayDelete} :
          call' = [call EXCEPT ![r] = IF allowed THEN "revoke" ELSE "purge"]
    /\ UNCHANGED <<kind, item, relations, object, event, rag, sync, revived, faults>>

\* RevokeKnowledgeRelations, a call to core.
RevokeRelations(r) ==
    /\ call[r] = "revoke"
    /\ relations' = FALSE
    /\ call' = [call EXCEPT ![r] = "mark"]
    /\ UNCHANGED <<kind, item, request, object, event, rag, sync, revived, faults>>

MarkedRevoked(q) == Reconciled([q EXCEPT !.auth = "revoked"], item.purged)

MarkRevoked(r) ==
    /\ call[r] = "mark"
    /\ request' = [request EXCEPT ![r] = MarkedRevoked(@)]
    /\ call' = [call EXCEPT ![r] = "hide"]
    /\ UNCHANGED <<kind, item, relations, object, event, rag, sync, revived, faults>>

\* One transaction; the event of an earlier request for this version is the only one.
HideDeletionTargets(r) ==
    /\ call[r] = "hide"
    /\ item' = IF item.status = "active" THEN [item EXCEPT !.status = "deleting"] ELSE item
    /\ event' = IF event = None THEN "pending" ELSE event
    /\ request' = [request EXCEPT ![r].announced = event = None]
    /\ call' = [call EXCEPT ![r] = IF kind.text THEN "purge" ELSE "done"]
    /\ UNCHANGED <<kind, relations, object, rag, sync, revived, faults>>

\* The call dies, or core or the database refuses it; the user may call again.
CallFails(r) ==
    /\ call[r] \in {"revoke", "mark", "hide"}
    /\ Fault
    /\ call' = [call EXCEPT ![r] = "new"]
    /\ UNCHANGED <<kind, item, request, relations, object, event, rag, sync, revived>>

\* A text is purged by the same call, also that of somebody who may not delete.
CallPurges(r) ==
    /\ call[r] = "purge"
    /\ call' = [call EXCEPT ![r] = "done"]
    /\ UNCHANGED <<kind, item, request, relations, object, event, rag, sync, revived, faults>>

-----------------------------------------------------------------------------
(* The worker. *)

Purged(r) ==
    [q \in Requests |->
       IF q = r THEN Reconciled([request[q] EXCEPT !.object =
                                   IF @ = "not_required" THEN @ ELSE "deleted"], TRUE)
       ELSE request[q]]

\* PurgeDeletionRequests, of the worker and of the call: it repeats until the request is
\* completed.  An object that cannot be deleted keeps its target from being purged.
PurgeDeletionRequest(r) ==
    /\ Executing(r)
    /\ \/ /\ object' = FALSE
          /\ item' = [status |-> "purged", purged |-> TRUE]
          /\ request' = Purged(r)
          /\ UNCHANGED faults
       \/ /\ Fault
          /\ request[r].object \notin {"not_required", "deleted"}
          /\ request' = [request EXCEPT ![r].object = "failed"]
          /\ object' \in {FALSE, object}
          /\ UNCHANGED item
    /\ UNCHANGED <<kind, call, relations, event, rag, sync, revived>>

\* ProcessDeletionAuthorizationRevocations.
RevokePending(r) ==
    /\ Executing(r)
    /\ request[r].auth # "revoked"
    /\ relations' = FALSE
    /\ request' = [request EXCEPT ![r] = MarkedRevoked(@)]
    /\ UNCHANGED <<kind, item, call, object, event, rag, sync, revived, faults>>

\* RetryDeletionRequest: only what failed is offered to the worker again.
RetryDeletionRequest(r) ==
    /\ Executing(r)
    /\ request[r].object = "failed"
    /\ request' = [request EXCEPT ![r].object = "pending"]
    /\ UNCHANGED <<kind, item, call, relations, object, event, rag, sync, revived, faults>>

\* ProcessPermissions lists active items and synchronizes what it listed; that may make
\* the item ready (TryMarkKnowledgeReady), whatever has become of it, and a job is due.
ListForSync ==
    /\ ~sync /\ item.status = "active"
    /\ Fault
    /\ sync' = TRUE
    /\ UNCHANGED <<kind, item, request, call, relations, object, event, rag, revived>>

Sync ==
    /\ sync
    /\ sync' = FALSE
    /\ relations' = TRUE
    /\ lane' = IF lane = "none" THEN "parse" ELSE lane
    /\ revived' = IF relations THEN revived ELSE revived \cup {"relations"}
    /\ UNCHANGED <<kind, item, request, call, object, event, docs, chunks, callback, faults>>

PublishOutbox ==
    /\ event = "pending"
    /\ event' = "published"
    /\ UNCHANGED <<kind, item, request, call, relations, object, rag, sync, revived, faults>>

-----------------------------------------------------------------------------
(* The RAG service. *)

\* The parse lane loads the content, which the knowledge service hands out until it is
\* purged; without it the job goes on with the chunks there are, or fails for good.
HasContent == ~item.purged /\ (kind.text \/ object)
LoadContent ==
    /\ lane = "parse"
    /\ lane' \in {"idle", IF HasContent THEN "parsed" ELSE "index"}
    /\ UNCHANGED <<kind, item, request, call, relations, object, event, docs, chunks, callback,
                   sync, revived, faults>>

\* The rows are written whether or not a deletion has taken them meanwhile: it leaves no
\* tombstone, and nothing tells a job to stop.
UpsertChunks ==
    /\ lane = "parsed"
    /\ lane' = "index"
    /\ chunks' = TRUE
    /\ revived' = IF event = "handled" THEN revived \cup {"chunks"} ELSE revived
    /\ UNCHANGED <<kind, item, request, call, relations, object, event, docs, callback, sync, faults>>

LoadChunks ==
    /\ lane = "index"
    /\ lane' = IF chunks THEN "indexing" ELSE "idle"
    /\ UNCHANGED <<kind, item, request, call, relations, object, event, docs, chunks, callback,
                   sync, revived, faults>>

IndexChunks ==
    /\ lane = "indexing"
    /\ lane' = "idle"
    /\ docs' = TRUE
    /\ revived' = IF event \in {"deleting", "handled"} THEN revived \cup {"docs"} ELSE revived
    /\ UNCHANGED <<kind, item, request, call, relations, object, event, chunks, callback, sync, faults>>

\* The lane fails or dies, and the job is claimed anew.
JobRetried ==
    /\ lane \in {"parsed", "indexing"}
    /\ lane' = IF lane = "parsed" THEN "parse" ELSE "index"
    /\ UNCHANGED <<kind, item, request, call, relations, object, event, docs, chunks, callback,
                   sync, revived, faults>>

\* DeletionService.handle: the index, then the rows and the callback; what fails in
\* between is delivered again.
DeleteVectors ==
    /\ event = "published"
    /\ docs' = FALSE
    /\ event' = "deleting"
    /\ UNCHANGED <<kind, item, request, call, relations, object, chunks, lane, callback, sync, revived, faults>>

DeleteChunks ==
    /\ event = "deleting"
    /\ \/ chunks' = FALSE /\ callback' = "deleted" /\ event' = "handled" /\ UNCHANGED faults
       \/ Fault /\ event' = "published" /\ UNCHANGED <<chunks, callback>>
    /\ UNCHANGED <<kind, item, request, call, relations, object, docs, lane, sync, revived>>

ApplyDeleted_RequestOnly(q) == q   \* mutant: the target keeps its vector state
\* The target, and after the commit its request.
ApplyDeleted(q) ==
    IF q.status = None THEN q ELSE Reconciled([q EXCEPT !.vector = "deleted"], item.purged)

\* ApplyRAGResult; the service may die before the last statement.
ApplyRAGResult ==
    /\ callback = "deleted"
    /\ callback' = "applied"
    /\ item' = [item EXCEPT !.status = "deleted"]
    /\ \/ request' = [r \in Requests |-> ApplyDeleted(request[r])] /\ UNCHANGED faults
       \/ Fault /\ request' = [r \in Requests |-> IF request[r].status = None THEN request[r]
                                        ELSE [request[r] EXCEPT !.vector = "deleted"]]
    /\ UNCHANGED <<kind, call, relations, object, event, docs, chunks, lane, sync, revived>>

-----------------------------------------------------------------------------
Work(r) == PurgeDeletionRequest(r) \/ RevokePending(r)
Rag == DeleteVectors \/ DeleteChunks \/ ApplyRAGResult
Job == LoadContent \/ UpsertChunks \/ LoadChunks \/ IndexChunks \/ JobRetried

Next ==
    \/ \E r \in Requests :
          \/ CreateDeletionRequest(r) \/ RevokeRelations(r) \/ MarkRevoked(r)
          \/ HideDeletionTargets(r) \/ CallFails(r) \/ CallPurges(r)
          \/ Work(r) \/ RetryDeletionRequest(r)
    \/ ListForSync \/ Sync \/ PublishOutbox \/ Job \/ Rag

\* The worker ticks, the outbox is published, the stream and the callback are redelivered.
Fairness ==
    /\ \A r \in Requests : WF_vars(PurgeDeletionRequest(r) /\ UNCHANGED faults)
                           /\ WF_vars(RevokePending(r))
    /\ WF_vars(PublishOutbox) /\ WF_vars(Rag /\ UNCHANGED faults)

Spec == Init /\ [][Next]_vars /\ Fairness

-----------------------------------------------------------------------------
TypeOK ==
    /\ kind \in [text : BOOLEAN, private : BOOLEAN]
    /\ item \in [status : {"active", "deleting", "deleted", "purged"}, purged : BOOLEAN]
    /\ request \in [Requests -> Request] /\ call \in [Requests -> Calls]
    /\ event \in {None, "pending", "published", "deleting", "handled"}
    /\ callback \in {None, "deleted", "applied"} /\ lane \in Lanes
    /\ {relations, object, docs, chunks, sync} \subseteq BOOLEAN
    /\ revived \subseteq {"docs", "chunks", "relations"}

\* A completed deletion is complete everywhere, in whatever order its stages ended, but
\* for what was written again behind it: chunk rows and search documents by a job of the
\* RAG service that was not over, relations by a permission synchronisation.
CompletedIsGone ==
    (\E r \in Requests : request[r].status = "completed") =>
       /\ item.purged /\ ~object
       /\ chunks => "chunks" \in revived
       /\ docs => "docs" \in revived
       /\ relations => "relations" \in revived

\* Why it holds, for each stage: what a request says of a stage is so, and what is gone
\* comes back only by what was under way.
Unrelated == relations => "relations" \in revived
Sound(r) ==
    /\ request[r].status = "completed" =>
          request[r].vector = "deleted" /\ request[r].auth = "revoked" /\ item.purged
    /\ request[r].vector = "deleted" => callback = "applied"
    /\ request[r].auth = "revoked" \/ call[r] = "mark" => Unrelated
Handled ==
    /\ callback # None <=> event = "handled"
    /\ event = "handled" => (chunks => "chunks" \in revived)
    /\ event \in {"deleting", "handled"} => (docs => "docs" \in revived)
    /\ item.purged => ~object
DeletionInv == TypeOK /\ (\A r \in Requests : Sound(r)) /\ Handled

\* A deletion that was announced to the RAG service is completed, through failed calls
\* and dead processes; one that was not announced has nobody who would delete its
\* vectors.
Answered == \A r \in Requests : request[r].announced => request[r].status = "completed"
Completes == <>[]Answered
=============================================================================
