---------------------------- MODULE AccessRequest ----------------------------
(****************************************************************************)
(* The requests to see an original or an attachment, which the core service *)
(* keeps in PostgreSQL and turns into OpenFGA tuples.  A reviewer's request *)
(* reads the row, marks it, writes the tuple and marks the row again; other *)
(* reviewers, the lists that cancel what is permitted already, and the      *)
(* synchronization of the resource's permissions run in between.            *)
(****************************************************************************)
EXTENDS Integers, FiniteSets

CONSTANTS
    Reviewers,  \* owners, information admins and collectors of the conversation
    MaxRows,    \* bound: requests of one member
    MaxFaults   \* bound: failed writes and dead requests

VARIABLES
    row,        \* iam.access_requests of one member, in the order of their creation
    grants,     \* OpenFGA: what the member may see by a request, as viewer or downloader
    allowed,    \* rows that a list has found permitted and is about to cancel
    review,     \* of each reviewer: how far his decision has come
    sweep,      \* a synchronization of the resource, and the grants it will delete
    deleted,    \* history: the relations of the item were revoked
    faults

vars == <<row, grants, allowed, review, sweep, deleted, faults>>

Kinds == {"original", "attachment"}
Rows == 1..MaxRows
None == [kind |-> "original", status |-> "none", late |-> FALSE, sync |-> "not_started"]
Idle == [at |-> "idle", row |-> 0]

Init ==
    /\ row = [i \in Rows |-> None]
    /\ grants = {} /\ allowed = {}
    /\ review = [r \in Reviewers |-> Idle]
    /\ sweep = [busy |-> FALSE, deletes |-> {}]
    /\ deleted = FALSE
    /\ faults = 0

Fault == faults < MaxFaults /\ faults' = faults + 1
Done(r) == review' = [review EXCEPT ![r] = Idle]
Mark(i, status, sync) == row' = [row EXCEPT ![i].status = status, ![i].sync = sync]

\* A request for what is pending changes the reason of the pending row and no more: one
\* whose time has passed stays pending and stays late.
CreateAccessRequest(k) ==
    /\ \A i \in Rows : row[i].status = "pending" => row[i].kind # k
    /\ \E i \in Rows :
          /\ row[i] = None /\ \A j \in 1..(i - 1) : row[j] # None
          /\ row' = [row EXCEPT ![i].kind = k, ![i].status = "pending"]
    /\ UNCHANGED <<grants, allowed, review, sweep, deleted, faults>>

\* request_expires_at.
Late(i) ==
    /\ row[i].status = "pending" /\ ~row[i].late
    /\ row' = [row EXCEPT ![i].late = TRUE]
    /\ UNCHANGED <<grants, allowed, review, sweep, deleted, faults>>

\* reconcileCurrentPermissions: the lists ask OpenFGA and then cancel.  Any row may be
\* permitted, by a grant or because the member has joined the conversation.
Check(i) ==
    /\ row[i].status = "pending" /\ i \notin allowed
    /\ allowed' = allowed \cup {i}
    /\ UNCHANGED <<row, grants, review, sweep, deleted, faults>>

MarkAccessRequestCancelled(i) ==
    /\ i \in allowed
    /\ allowed' = allowed \ {i}
    /\ IF row[i].status = "pending" THEN Mark(i, "cancelled", "not_started") ELSE UNCHANGED row
    /\ UNCHANGED <<grants, review, sweep, deleted, faults>>

-----------------------------------------------------------------------------
(* AccessRequestService.Review. *)

GetAccessRequest(r, i) ==
    /\ review[r] = Idle
    /\ row[i].status = "pending" /\ ~row[i].late
    /\ review' = [review EXCEPT ![r] = [at |-> "read", row |-> i]]
    /\ UNCHANGED <<row, grants, allowed, sweep, deleted, faults>>

StillPending_Read(i) == TRUE        \* mutant: what was read is taken for true
\* WHERE status='pending', in both updates.
StillPending(i) == row[i].status = "pending"

MarkAccessRequestRejected(r) ==
    LET i == review[r].row IN
    /\ review[r].at = "read"
    /\ IF StillPending(i) THEN Mark(i, "rejected", "not_started") ELSE UNCHANGED row
    /\ Done(r)
    /\ UNCHANGED <<grants, allowed, sweep, deleted, faults>>

MarkAccessRequestApproved(r) ==
    LET i == review[r].row IN
    /\ review[r].at = "read"
    /\ IF StillPending(i)
       THEN Mark(i, "approved", "pending") /\ review' = [review EXCEPT ![r].at = "approved"]
       ELSE UNCHANGED row /\ Done(r)
    /\ UNCHANGED <<grants, allowed, sweep, deleted, faults>>

WriteRelations(r) ==
    LET k == row[review[r].row].kind IN
    /\ review[r].at = "approved"
    /\ grants' = grants \cup {k}
    /\ review' = [review EXCEPT ![r].at = "written"]
    /\ UNCHANGED <<row, allowed, sweep, deleted, faults>>

\* The write fails, or its answer is lost; nobody tries it again.
MarkAccessRequestFGAFailed(r) ==
    LET i == review[r].row IN
    /\ review[r].at \in {"approved", "written"}
    /\ Fault
    /\ Mark(i, row[i].status, IF row[i].status = "approved" THEN "failed" ELSE row[i].sync)
    /\ Done(r)
    /\ UNCHANGED <<grants, allowed, sweep, deleted>>

MarkAccessRequestFGASynced(r) ==
    LET i == review[r].row IN
    /\ review[r].at = "written"
    /\ Mark(i, row[i].status, IF row[i].status = "approved" THEN "synced" ELSE row[i].sync)
    /\ Done(r)
    /\ UNCHANGED <<grants, allowed, sweep, deleted, faults>>

\* The process dies: an approved row stays as it is, with or without its tuple.
Crash ==
    /\ Fault
    /\ review' = [r \in Reviewers |-> Idle]
    /\ allowed' = {}
    /\ sweep' = [busy |-> FALSE, deletes |-> {}]
    /\ UNCHANGED <<row, grants, deleted>>

-----------------------------------------------------------------------------
(* What else writes the tuples of the resource. *)

Preserved_Nothing == {}             \* mutant: a synchronization knows no grants by request
\* The relations that Sync leaves alone: the viewer of the original, and not the viewer or
\* the downloader of an attachment.
Preserved == {"original"}

\* PermissionSyncService.Sync, and RevokeResourceRelations when the item is deleted: the
\* relations of the managed objects are read, and what is not wanted is deleted.
ReadRelations(revoke) ==
    /\ ~sweep.busy
    /\ sweep' = [busy |-> TRUE, deletes |-> IF revoke THEN grants ELSE grants \ Preserved]
    /\ deleted' = (deleted \/ revoke)
    /\ UNCHANGED <<row, grants, allowed, review, faults>>

WriteChanges ==
    /\ sweep.busy
    /\ grants' = grants \ sweep.deletes
    /\ sweep' = [busy |-> FALSE, deletes |-> {}]
    /\ UNCHANGED <<row, allowed, review, deleted, faults>>

Next ==
    \/ \E k \in Kinds : CreateAccessRequest(k)
    \/ \E i \in Rows : Late(i) \/ Check(i) \/ MarkAccessRequestCancelled(i)
    \/ \E r \in Reviewers :
          \/ \E i \in Rows : GetAccessRequest(r, i)
          \/ MarkAccessRequestRejected(r) \/ MarkAccessRequestApproved(r) \/ WriteRelations(r)
          \/ MarkAccessRequestFGAFailed(r) \/ MarkAccessRequestFGASynced(r)
    \/ Crash \/ WriteChanges
    \/ \E revoke \in BOOLEAN : ReadRelations(revoke)

Spec == Init /\ [][Next]_vars

-----------------------------------------------------------------------------
TypeOK ==
    /\ row \in [Rows -> [kind : Kinds, late : BOOLEAN,
                         status : {"none", "pending", "approved", "rejected", "cancelled"},
                         sync : {"not_started", "pending", "synced", "failed"}]]
    /\ grants \subseteq Kinds /\ deleted \in BOOLEAN
    /\ allowed \subseteq Rows
    /\ review \in [Reviewers -> [at : {"idle", "read", "approved", "written"}, row : 0..MaxRows]]
    /\ sweep \in [busy : BOOLEAN, deletes : SUBSET Kinds]

\* Nobody sees by a request what no request of his was approved for, whichever reviewers
\* decided at once.
GrantIsApproved ==
    \A k \in grants : \E i \in Rows : row[i].kind = k /\ row[i].status = "approved"

\* An original that a request was granted stays open to the member through every later
\* synchronization, until the item is deleted.
GrantStays ==
    \A i \in Rows : row[i].kind = "original" /\ row[i].sync = "synced" =>
        deleted \/ "original" \in grants

Requested == GrantIsApproved /\ GrantStays

-----------------------------------------------------------------------------
(* Why it holds: a reviewer writes only for a row that he has approved, and *)
(* approved rows stay approved; what a synchronization is about to delete   *)
(* was read before the tuple was written, and has no original in it unless  *)
(* the item is gone.                                                        *)

Approves(r) ==
    /\ review[r].at # "idle" => review[r].row \in Rows
    /\ review[r].at \in {"approved", "written"} => row[review[r].row].status = "approved"
    /\ review[r].at = "written" /\ row[review[r].row].kind = "original" =>
          deleted \/ "original" \in grants

AccessInv ==
    /\ TypeOK
    /\ GrantIsApproved
    /\ GrantStays
    /\ "original" \in sweep.deletes => deleted
    /\ \A r \in Reviewers : Approves(r)
=============================================================================
