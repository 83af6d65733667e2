---------------------------- MODULE KnowledgeShare ----------------------------
(****************************************************************************)
(* The private messages that members share with their organization, and the *)
(* requests of others to see the originals.  Two people have collected the  *)
(* same private chat, each as a conversation of his own.  A shared item is  *)
(* a copy in the knowledge base of the chat, which is found by the mapped   *)
(* participants, else by what the platform calls the chat.                  *)
(*                                                                          *)
(* Every request is one transaction; the worker that synchronizes the       *)
(* permissions of a copy reads its subjects first and marks it last.        *)
(****************************************************************************)
EXTENDS Integers, FiniteSets

CONSTANTS
    Owners,     \* the two sides of the chat
    Messages,   \* the messages of the chat
    Requests,   \* request_ids of share requests
    Others,     \* members who ask for access
    MaxFaults   \* bound: lost answers, deletions, reclassifications

VARIABLES
    sameChat,   \* external: the platform has one name for the chat, not one per side
    mapped,     \* the sides whose peer is mapped to a user
    source,     \* the private items: content version, whether ready, whether deleted
    asked,      \* the request_ids in private_share_requests
    refs,       \* private_share_references
    shared,     \* the shared items
    access,     \* private_access_requests, the last of each member
    subjects,   \* OpenFGA: who is a participant, by copy
    sync,       \* the copy a worker synchronizes, with the subjects it read
    remapped,   \* history: a side was mapped after something was shared
    late,       \* history: a request was approved behind a worker's reading, or the item
                \* of an approved one was shared again in another knowledge base
    faults

vars == <<sameChat, mapped, source, asked, refs, shared, access, subjects, sync,
          remapped, late, faults>>

None == "none"
Versions == 1..2
Reference == [owner : Owners, msg : Messages, version : Versions]
Item == [ref : Reference, base : {"participants"} \cup {"external"} \cup Owners, acl : {"pending", "synced"},
         active : BOOLEAN]
Blank == CHOOSE x \in Reference : TRUE
Idle == [busy |-> FALSE, ref |-> Blank, users |-> {}]
Selection == SUBSET Messages \ {{}}

Init ==
    /\ sameChat \in BOOLEAN
    /\ mapped = {}
    /\ source = [o \in Owners |-> [m \in Messages |-> [version |-> 1, ready |-> TRUE]]]
    /\ asked = {}
    /\ refs = {} /\ shared = {}
    /\ access = [u \in Others |-> [status |-> None, ref |-> Blank]]
    /\ subjects = [x \in Reference |-> {}]
    /\ sync = Idle
    /\ remapped = FALSE /\ late = FALSE
    /\ faults = 0

Fault == faults < MaxFaults /\ faults' = faults + 1

\* The peer accepts the mapping, in the memberships of one side.
Map(o) ==
    /\ o \notin mapped
    /\ mapped' = mapped \cup {o}
    /\ remapped' = (remapped \/ shared # {})
    /\ UNCHANGED <<sameChat, source, asked, refs, shared, access, subjects, sync, late, faults>>

\* ReprocessMessageClassification; the item becomes ready again by KnowledgeItem's way.
Reclassify(o, m) ==
    /\ source[o][m].version = 1
    /\ Fault
    /\ source' = [source EXCEPT ![o][m] = [version |-> 2, ready |-> FALSE]]
    /\ UNCHANGED <<sameChat, mapped, asked, refs, shared, access, subjects, sync, remapped, late>>

Ready(o, m) ==
    /\ ~source[o][m].ready
    /\ source' = [source EXCEPT ![o][m].ready = TRUE]
    /\ UNCHANGED <<sameChat, mapped, asked, refs, shared, access, subjects, sync, remapped, late, faults>>

-----------------------------------------------------------------------------
(* Sharing. *)

\* shareSourceKey: a mapped peer and the owner make two participants.
ShareSourceKey(o) ==
    IF o \in mapped THEN "participants" ELSE IF sameChat THEN "external" ELSE o

ReferenceOf(o, m) == [owner |-> o, msg |-> m, version |-> source[o][m].version]

SharedByAnother_Never(o) == FALSE   \* mutant: nobody looks who has shared the chat
\* existingSharer, under the lock of the knowledge base.
SharedByAnother(o) ==
    \E x \in shared : x.active /\ x.base = ShareSourceKey(o) /\ x.ref.owner # o

\* The copies of one private item, of whatever version, and their knowledge bases.
CopiesOf(ref) == {x \in shared : x.ref.owner = ref.owner /\ x.ref.msg = ref.msg}
BasesOf(ref) == {x.base : x \in CopiesOf(ref)}

\* An item that somebody was let into comes to a knowledge base where others of its
\* copies, with their permissions, may already be.
Spreads(o, selection) ==
    \E u \in Others :
        /\ access[u].status = "approved" /\ access[u].ref.owner = o /\ access[u].ref.msg \in selection
        /\ ShareSourceKey(o) \notin BasesOf(access[u].ref)

\* SharePrivateResources: all of the selection or nothing.  It asks for the source's
\* processing, never for its lifecycle: a deleted message can still be shared.  A request
\* that was completed answers again, or conflicts when the selection is another.
SharePrivateResources(o, r, selection) ==
    /\ r \notin asked
    /\ ~SharedByAnother(o)
    /\ \A m \in selection : source[o][m].ready /\ ReferenceOf(o, m) \notin refs
    /\ asked' = asked \cup {r}
    /\ refs' = refs \cup {ReferenceOf(o, m) : m \in selection}
    /\ shared' = shared \cup {[ref |-> ReferenceOf(o, m), base |-> ShareSourceKey(o),
                               acl |-> "pending", active |-> TRUE] : m \in selection}
    /\ late' = (late \/ Spreads(o, selection))
    /\ UNCHANGED <<sameChat, mapped, source, access, subjects, sync, remapped, faults>>

\* HideDeletionTargets of the copy: the reference stays.
DeleteShared(x) ==
    /\ x.active
    /\ Fault
    /\ shared' = (shared \ {x}) \cup {[x EXCEPT !.active = FALSE]}
    /\ UNCHANGED <<sameChat, mapped, source, asked, refs, access, subjects, sync, remapped, late>>

-----------------------------------------------------------------------------
(* Access to what was shared. *)

\* A second request for the same resource keeps the pending row.
CreatePrivateAccessRequest(u, ref) ==
    /\ access[u].status \in {None, "rejected"}
    /\ access' = [access EXCEPT ![u] = [status |-> "pending", ref |-> ref]]
    /\ UNCHANGED <<sameChat, mapped, source, asked, refs, shared, subjects, sync, remapped, late, faults>>

Reviewed_OneItem(ref, base) ==      \* mutant: only the copy asked for is synchronized again
    {IF x.active /\ x.ref = ref THEN [x EXCEPT !.acl = "pending"] ELSE x : x \in shared}
\* Every active copy of one knowledge base waits for permissions again.
Reviewed(ref, base) ==
    {IF x.active /\ x.base = base THEN [x EXCEPT !.acl = "pending"] ELSE x : x \in shared}

\* ReviewPrivateAccessRequest of the owner of the source; without an active copy the
\* approval is undone.  LIMIT 1 takes one knowledge base when there are two.
ReviewPrivateAccessRequest(u, approve) ==
    LET ref == access[u].ref
        active == {x \in CopiesOf(ref) : x.active}
    IN  /\ access[u].status = "pending"
        /\ access' = [access EXCEPT ![u].status = IF approve THEN "approved" ELSE "rejected"]
        /\ IF approve
           THEN /\ \E x \in active : shared' = Reviewed(ref, x.base)
                /\ late' = (late \/ sync.busy \/ Cardinality(BasesOf(ref)) > 1)
           ELSE UNCHANGED <<shared, late>>
        /\ UNCHANGED <<sameChat, mapped, source, asked, refs, subjects, sync, remapped, faults>>

-----------------------------------------------------------------------------
(* ProcessPermissions of one worker. *)

Approved(base) ==
    {u \in Others : access[u].status = "approved" /\ base \in BasesOf(access[u].ref)}

\* ListPendingKnowledgePermissions and ListKnowledgePermissionSubjects.
ListKnowledgePermissionSubjects(x) ==
    /\ sync = Idle
    /\ x.active /\ x.acl = "pending"
    /\ sync' = [busy |-> TRUE, ref |-> x.ref, users |-> {x.ref.owner} \cup Approved(x.base)]
    /\ UNCHANGED <<sameChat, mapped, source, asked, refs, shared, access, subjects, remapped, late, faults>>

\* SyncKnowledgePermissions adds participants and takes none away, and
\* MarkKnowledgePermissionSynced marks the copy whatever has become of it.
MarkKnowledgePermissionSynced ==
    /\ sync.busy
    /\ subjects' = [subjects EXCEPT ![sync.ref] = @ \cup sync.users]
    /\ shared' = {IF x.ref = sync.ref THEN [x EXCEPT !.acl = "synced"] ELSE x : x \in shared}
    /\ sync' = Idle
    /\ UNCHANGED <<sameChat, mapped, source, asked, refs, access, remapped, late, faults>>

SyncFails ==
    /\ sync.busy
    /\ Fault
    /\ sync' = Idle
    /\ UNCHANGED <<sameChat, mapped, source, asked, refs, shared, access, subjects, remapped, late>>

-----------------------------------------------------------------------------
Next ==
    \/ \E o \in Owners :
          \/ Map(o)
          \/ \E m \in Messages : Reclassify(o, m) \/ Ready(o, m)
          \/ \E r \in Requests, s \in Selection : SharePrivateResources(o, r, s)
    \/ \E x \in shared : DeleteShared(x) \/ ListKnowledgePermissionSubjects(x)
    \/ \E u \in Others :
          \/ \E ref \in refs : CreatePrivateAccessRequest(u, ref)
          \/ \E approve \in BOOLEAN : ReviewPrivateAccessRequest(u, approve)
    \/ MarkKnowledgePermissionSynced \/ SyncFails

Spec == Init /\ [][Next]_vars

-----------------------------------------------------------------------------
TypeOK ==
    /\ sameChat \in BOOLEAN /\ mapped \subseteq Owners
    /\ source \in [Owners -> [Messages -> [version : Versions, ready : BOOLEAN]]]
    /\ asked \subseteq Requests /\ refs \subseteq Reference /\ shared \subseteq Item
    /\ access \in [Others -> [status : {None, "pending", "approved", "rejected"},
                              ref : refs \cup {Blank}]]
    /\ subjects \in [Reference -> SUBSET (Owners \cup Others)]
    /\ sync \in [busy : BOOLEAN, ref : Reference, users : SUBSET (Owners \cup Others)]
    /\ remapped \in BOOLEAN /\ late \in BOOLEAN

\* Of one chat one side shares, whatever was shared and deleted before; two sides share
\* it only if their keys differ, or a mapping has changed a key since.
OneSharer ==
    \A x, y \in shared : x.active /\ y.active /\ x.ref.owner # y.ref.owner =>
        remapped \/ ShareSourceKey(x.ref.owner) # ShareSourceKey(y.ref.owner)

\* A copy whose permissions are synchronized is open to everyone whose request for its
\* knowledge base was approved, unless a worker had read its subjects before, or the item
\* that was asked for was shared in that knowledge base afterwards.
ApprovedIsGranted ==
    \A x \in shared : x.active /\ x.acl = "synced" =>
        late \/ Approved(x.base) \subseteq subjects[x.ref]

Sharing == OneSharer /\ ApprovedIsGranted

-----------------------------------------------------------------------------
(* Why it holds: one copy exists of a reference, in the knowledge base that *)
(* its owner's key names until a mapping changes the key; and what a worker *)
(* has read of a copy's subjects is all of them when it marks the copy.     *)

Copies ==
    /\ \A x \in shared : x.ref \in refs /\ (remapped \/ x.base = ShareSourceKey(x.ref.owner))
    /\ \A x, y \in shared : x.ref = y.ref => x = y
    /\ \A u \in Others : access[u].status = "approved" => CopiesOf(access[u].ref) # {}

ReadsThemAll ==
    sync.busy => /\ sync.ref \in refs
                 /\ late \/ \A x \in shared : x.ref = sync.ref => Approved(x.base) \subseteq sync.users

ShareInv ==
    /\ TypeOK
    /\ OneSharer
    /\ ApprovedIsGranted
    /\ Copies
    /\ ReadsThemAll
=============================================================================
