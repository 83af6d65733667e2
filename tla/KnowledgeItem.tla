---------------------------- MODULE KnowledgeItem ----------------------------
(****************************************************************************)
(* The way of one message of an organization from its row to the search     *)
(* index: privacy classification, permission synchronisation with core and  *)
(* OpenFGA, the ready gate, the outbox, the RAG job and its callback.       *)
(* Workers repeat ProcessPermissions side by side and nothing claims a row; *)
(* members come and go, and the privacy policy is raised meanwhile.         *)
(*                                                                          *)
(* A text is plain or masked.  Content and access list have a version each; *)
(* an event and the job it starts carry both.  The RAG job is reduced to    *)
(* what it reads and reports (RagJob has its lanes).                        *)
(****************************************************************************)
EXTENDS Integers

CONSTANTS
    Workers,    \* workers of the knowledge service
    Members,    \* people who may be members of the organization
    MaxChanges, \* bound: joins and departures
    MaxFaults   \* bound: failed calls and dead workers

Versions == 1..2    \* the policy is raised once, so the text changes at most once
AclVersions == 0..(MaxChanges + 1)

VARIABLES
    policy,     \* privacy.PolicyVersion of the running service
    item,       \* the row of knowledge_items with its message's classification
    member,     \* core: the active memberships
    told,       \* membership events the knowledge service has applied
    core,       \* core: the fingerprint of the relations, and authorization_resource_versions
    work,       \* the workers in ProcessPermissions
    ready,      \* knowledge.ready in the outbox, by content version
    stream,     \* the versions the Redis stream announces
    job,        \* RAG: the job of each version
    outrun,     \* history: the access list changed behind a published event
    changes, faults

vars == <<policy, item, member, told, core, work, ready, stream, job, outrun, changes, faults>>
rag == <<stream, job>>

None == "none"
Item == [class : {"pending", "succeeded"}, policy : 0..2, display : {"plain", "masked"},
         version : Versions, perm : BOOLEAN, acl : {"pending", "synced", "failed"},
         aclv : AclVersions, proc : {"pending", "ready"},
         rag : {"pending", "processing", "ready", "failed"}, ragv : 0..2, ragacl : AclVersions]
Work == [pc : {"idle", "sync", "mark", "gate"}, aclv : AclVersions]
Rest == [pc |-> "idle", aclv |-> 0]

Init ==
    /\ policy = 1
    /\ item = [class |-> "pending", policy |-> 0, display |-> "plain", version |-> 1,
               perm |-> FALSE, acl |-> "pending", aclv |-> 0, proc |-> "pending",
               rag |-> "pending", ragv |-> 0, ragacl |-> 0]
    /\ member = {}
    /\ told = TRUE
    /\ core = [relations |-> {}, aclv |-> 0]
    /\ work = [w \in Workers |-> Rest]
    /\ ready = [v \in Versions |-> [status |-> None, aclv |-> 0]]
    /\ stream = {}
    /\ job = [v \in Versions |-> [status |-> None, text |-> None]]
    /\ outrun = FALSE
    /\ changes = 0 /\ faults = 0

Fault == faults < MaxFaults /\ faults' = faults + 1

-----------------------------------------------------------------------------
(* Privacy. *)

\* privacy.Analyze: what each policy makes of this text.
Analyze(p) == IF p = 1 THEN "plain" ELSE "masked"

Gate(row) == row.proc # "ready" /\ row.class = "succeeded" /\ row.perm /\ row.acl = "synced"

\* TryMarkKnowledgeReady, in one transaction: the event keeps its first payload.
TryMarkKnowledgeReady(row) ==
    IF Gate(row)
    THEN /\ item' = [row EXCEPT !.proc = "ready"]
         /\ ready' = [ready EXCEPT ![row.version] =
                        IF @.status = None THEN [status |-> "pending", aclv |-> row.aclv] ELSE @]
    ELSE item' = row /\ UNCHANGED ready

\* CompleteMessageClassification, then the gate; dying between the two is left to
\* ProcessPermissions, which tries the gate again.
ProcessPrivacy ==
    /\ item.class = "pending"
    /\ LET row == [item EXCEPT !.class = "succeeded", !.display = Analyze(policy),
                               !.policy = policy]
       IN  \/ TryMarkKnowledgeReady(row) /\ UNCHANGED faults
           \/ Fault /\ item' = row /\ UNCHANGED ready
    /\ UNCHANGED <<policy, member, told, core, work, rag, outrun, changes>>

NewPolicy ==
    /\ policy = 1
    /\ policy' = 2
    /\ UNCHANGED <<item, member, told, core, work, ready, rag, outrun, changes, faults>>

Reclassified_SameVersion(row, text) ==  \* mutant: the new text keeps the old version
    [row EXCEPT !.display = text, !.policy = policy, !.class = "succeeded"]
\* ReprocessMessageClassification: another text is another version, from the start.
Reclassified(row, text) ==
    LET new == [row EXCEPT !.display = text, !.policy = policy, !.class = "succeeded"]
    IN  IF text = row.display THEN new
        ELSE [new EXCEPT !.version = @ + 1, !.perm = FALSE, !.acl = "pending",
                         !.proc = "pending", !.rag = "pending"]

ReprocessPrivacy ==
    /\ item.class = "succeeded"
    /\ item.policy < policy
    /\ item' = Reclassified(item, Analyze(policy))
    /\ UNCHANGED <<policy, member, told, core, work, ready, rag, outrun, changes, faults>>

-----------------------------------------------------------------------------
(* Memberships. *)

Join(u) ==
    /\ changes < MaxChanges /\ changes' = changes + 1
    /\ told                       \* one event at a time
    /\ member' = IF u \in member THEN member \ {u} ELSE member \cup {u}
    /\ told' = FALSE
    /\ UNCHANGED <<policy, item, core, work, ready, rag, outrun, faults>>

\* ApplyOrganizationMembershipEvent: every active item must be synchronized again.
ApplyOrganizationMembershipEvent ==
    /\ ~told
    /\ told' = TRUE
    /\ item' = [item EXCEPT !.perm = FALSE, !.acl = "pending"]
    /\ UNCHANGED <<policy, member, core, work, ready, rag, outrun, changes, faults>>

-----------------------------------------------------------------------------
(* ProcessPermissions of one worker. *)

Listed_UnsyncedOnly == ~item.perm /\ item.acl \in {"pending", "failed"}   \* mutant
Listed ==
    \/ ~item.perm /\ item.acl \in {"pending", "failed"}
    \/ item.perm /\ item.acl = "synced" /\ item.proc = "pending"

ListPending(w) ==
    /\ work[w].pc = "idle"
    /\ Listed
    /\ work' = [work EXCEPT ![w].pc = IF item.perm THEN "gate" ELSE "sync"]
    /\ UNCHANGED <<policy, item, member, told, core, ready, rag, outrun, changes, faults>>

ResolveACLVersion_Always == core.aclv + 1       \* mutant: each synchronization is a version
\* Another set of relations is another version of the access list.
ResolveACLVersion ==
    IF core.aclv = 0 \/ core.relations # member THEN core.aclv + 1 ELSE core.aclv

\* PermissionSyncService.Sync.
SyncKnowledgePermissions(w) ==
    /\ work[w].pc = "sync"
    /\ LET aclv == ResolveACLVersion
       IN  /\ core' = [relations |-> member, aclv |-> aclv]
           /\ work' = [work EXCEPT ![w] = [pc |-> "mark", aclv |-> aclv]]
    /\ UNCHANGED <<policy, item, member, told, ready, rag, outrun, changes, faults>>

SyncFails(w) ==
    /\ work[w].pc = "sync"
    /\ Fault
    /\ item' = [item EXCEPT !.perm = FALSE, !.acl = "failed"]
    /\ work' = [work EXCEPT ![w] = Rest]
    /\ UNCHANGED <<policy, member, told, core, ready, rag, outrun, changes>>

\* MarkKnowledgePermissionSynced writes whatever has happened since the list was read.
MarkSynced(w) ==
    /\ work[w].pc = "mark"
    /\ item' = [item EXCEPT !.perm = TRUE, !.acl = "synced", !.aclv = work[w].aclv]
    /\ outrun' = \/ outrun
                 \/ item.proc = "ready" /\ work[w].aclv # ready[item.version].aclv
    /\ work' = [work EXCEPT ![w] = [Rest EXCEPT !.pc = "gate"]]
    /\ UNCHANGED <<policy, member, told, core, ready, rag, changes, faults>>

TryReady(w) ==
    /\ work[w].pc = "gate"
    /\ TryMarkKnowledgeReady(item)
    /\ work' = [work EXCEPT ![w] = Rest]
    /\ UNCHANGED <<policy, member, told, core, rag, outrun, changes, faults>>

Crash(w) ==
    /\ work[w].pc # "idle"
    /\ Fault
    /\ work' = [work EXCEPT ![w] = Rest]
    /\ UNCHANGED <<policy, item, member, told, core, ready, rag, outrun, changes>>

-----------------------------------------------------------------------------
(* The outbox and the RAG service. *)

\* PublishOutbox: the publication, and the mark unless the worker dies or Redis fails.
PublishOutbox(v) ==
    /\ ready[v].status = "pending"
    /\ \/ stream' = stream \cup {v} /\ ready' = [ready EXCEPT ![v].status = "published"]
          /\ UNCHANGED faults
       \/ Fault /\ stream' \in {stream, stream \cup {v}} /\ UNCHANGED ready
    /\ UNCHANGED <<policy, item, member, told, core, work, job, outrun, changes>>

\* The job the event creates, once: GetKnowledgeForRAG answers only for the versions
\* the event named, which no later attempt finds again.
Fetch(v) ==
    /\ v \in stream
    /\ job[v].status = None
    /\ job' = [job EXCEPT ![v] =
                 IF item.proc = "ready" /\ item.version = v /\ item.aclv = ready[v].aclv
                 THEN [status |-> "indexed", text |-> item.display]
                 ELSE [status |-> "failed", text |-> None]]
    /\ UNCHANGED <<policy, item, member, told, core, work, ready, stream, outrun, changes, faults>>

\* Its processing callback, and ApplyRAGResult for any of its callbacks.
Applied(v, status) ==
    IF v < item.version \/ ready[v].aclv < item.aclv THEN item
    ELSE IF item.rag = "ready" /\ item.ragv = v /\ item.ragacl = ready[v].aclv THEN item
    ELSE IF item.rag = "failed" /\ status = "processing" THEN item
    ELSE [item EXCEPT !.rag = status, !.ragv = v, !.ragacl = ready[v].aclv]

ReportProcessing(v) ==
    /\ v \in stream
    /\ job[v].status \in {None, "indexed"}
    /\ item' = Applied(v, "processing")
    /\ UNCHANGED <<policy, member, told, core, work, ready, rag, outrun, changes, faults>>

Report(v) ==
    /\ job[v].status \in {"indexed", "failed"}
    /\ item' = Applied(v, IF job[v].status = "indexed" THEN "ready" ELSE "failed")
    /\ job' = [job EXCEPT ![v].status = "reported"]
    /\ UNCHANGED <<policy, member, told, core, work, ready, stream, outrun, changes, faults>>

-----------------------------------------------------------------------------
Step(w) ==
    ListPending(w) \/ SyncKnowledgePermissions(w) \/ MarkSynced(w) \/ TryReady(w)
Deliver(v) == PublishOutbox(v) \/ Fetch(v) \/ Report(v)
Serve == ProcessPrivacy \/ ReprocessPrivacy \/ ApplyOrganizationMembershipEvent

Next ==
    \/ Serve \/ NewPolicy
    \/ \E u \in Members : Join(u)
    \/ \E w \in Workers : Step(w) \/ SyncFails(w) \/ Crash(w)
    \/ \E v \in Versions : Deliver(v) \/ ReportProcessing(v)

\* Every part runs in a loop of its own and is tried again after a failure.
Fairness ==
    /\ WF_vars(Serve)
    /\ \A w \in Workers : WF_vars(Step(w))
    /\ \A v \in Versions : WF_vars(Deliver(v) /\ UNCHANGED faults)

Spec == Init /\ [][Next]_vars /\ Fairness

-----------------------------------------------------------------------------
TypeOK ==
    /\ policy \in 1..2 /\ item \in Item
    /\ member \subseteq Members /\ told \in BOOLEAN
    /\ core \in [relations : SUBSET Members, aclv : AclVersions]
    /\ work \in [Workers -> Work]
    /\ ready \in [Versions -> [status : {None, "pending", "published"}, aclv : AclVersions]]
    /\ stream \subseteq Versions
    /\ job \in [Versions -> [status : {None, "indexed", "failed", "reported"},
                             text : {None, "plain", "masked"}]]
    /\ outrun \in BOOLEAN

\* An item that is shown as searchable was indexed with the text the present
\* classification shows, however late a job of the text before reports.
SearchShowsTheMask ==
    item.rag = "ready" => job[item.ragv].text = item.display

\* Why it holds: versions and masks go together, an event is of a version the item has
\* had and was ready in, and a job that found the item has the text of its version.
\* The version of the access list follows the memberships, so it is bounded by them.
Shows(v) == v = item.version => job[v].text = item.display
ItemInv ==
    /\ TypeOK /\ changes \in 0..MaxChanges
    /\ core.aclv <= IF core.aclv = 0 \/ core.relations = member THEN changes + 1 ELSE changes
    /\ item.class = "pending" => item.version = 1 /\ item.proc = "pending" /\ item.policy = 0
    /\ item.policy <= policy
    /\ item.class = "succeeded" => item.policy >= 1 /\ item.display = Analyze(item.policy)
    /\ item.version = 2 => item.policy = 2
    /\ \A v \in Versions :
          /\ v \in stream => ready[v].status # None
          /\ ready[v].status # None => v <= item.version /\ item.class = "succeeded"
          /\ job[v].status # None => v \in stream
          /\ job[v].status = "indexed" => Shows(v)
    /\ item.rag = "ready" =>
          item.ragv = item.version /\ job[item.ragv].status # None /\ Shows(item.ragv)

\* A message becomes searchable in its last version, through failed calls and dead
\* workers, unless the access list got another version after its event was written:
\* nothing announces the item again then, and RAG's fetch and callback are refused.
Searchable == outrun \/ (item.rag = "ready" /\ item.ragv = item.version)
Indexed == <>[]Searchable
=============================================================================
