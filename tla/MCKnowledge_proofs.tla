-------------------------- MODULE MCKnowledge_proofs -------------------------
(* Theorems about the knowledge service: the safety properties of MCKnowledge *)
(* for any workers, collectors, messages, requests and owners and any number  *)
(* of faults.  Each component has an inductive invariant of its own, named in *)
(* its module (CollectInv, ItemInv, DeletionInv, UploadInv, ProfileInv).      *)
EXTENDS MCKnowledge, TLAPS, FiniteSetTheorems, WellFoundedInduction

-----------------------------------------------------------------------------
\* A set of natural numbers that is not empty has a least element: below it there are
\* fewer than below any other.
LEMMA Least ==
    ASSUME NEW S \in SUBSET Nat, S # {}
    PROVE  (CHOOSE s \in S : \A u \in S : s <= u) \in S
<1> DEFINE Below(x) == {y \in S : y < x}
           F == {Below(x) : x \in S}
<1>1. ASSUME NEW x \in S PROVE Below(x) \in FiniteSubsetsOf(Nat)
  <2>1. Below(x) \in SUBSET Nat /\ x \in Nat
    OBVIOUS
  <2>a. ASSUME NEW y \in Below(x) PROVE y <= x
    <3>1. y \in Nat /\ y < x
      OBVIOUS
    <3> HIDE DEF Below
    <3> QED BY <3>1, <2>1
  <2>2. IsFiniteSet(Below(x))
    BY <2>1, <2>a, FS_BoundedSetOfNaturals
  <2> QED BY <2>1, <2>2 DEF FiniteSubsetsOf
<1>2. F \subseteq FiniteSubsetsOf(Nat) /\ F # {}
  BY <1>1
<1>3. PICK m \in F : \A y \in F : ~ (<<y, m>> \in StrictSubsetOrdering(Nat))
  <2> HIDE DEF F
  <2> QED BY <1>2, FS_StrictSubsetOrderingWellFounded, WFMin
<1>4. PICK x \in S : m = Below(x)
  BY <1>3
<1>5. ASSUME NEW y \in S PROVE x <= y
  <2>1. SUFFICES ASSUME y < x PROVE FALSE
    OBVIOUS
  <2>a. x \in Nat /\ y \in Nat
    OBVIOUS
  <2>b. ASSUME NEW z \in Below(y) PROVE z \in m
    <3>1. z \in S /\ z \in Nat /\ z < y
      OBVIOUS
    <3>2. z < x
      BY <3>1, <2>1, <2>a
    <3> QED BY <3>1, <3>2, <1>4
  <2>2. Below(y) \subseteq m /\ y \in m /\ y \notin Below(y) /\ m \subseteq Nat
    <3>1. Below(y) \subseteq m
      BY <2>b
    <3>2. y \in m
      BY <1>4, <2>1
    <3>3. y \notin Below(y)
      BY <2>a
    <3>4. m \subseteq Nat
      BY <1>4
    <3> QED BY <3>1, <3>2, <3>3, <3>4
  <2>3. <<Below(y), m>> \in StrictSubsetOrdering(Nat)
    BY <2>2 DEF StrictSubsetOrdering
  <2> QED BY <1>3, <2>3
<1> QED BY <1>5
-----------------------------------------------------------------------------
(* Deletion.  Every stage writes its own field of a request and then asks     *)
(* whether the request is complete, so what a stage's field says must stay    *)
(* true whatever the other stages, the RAG service and the permissions do.    *)

\* Reconciling a request touches its status only, and completes it only when every
\* stage has ended.
LEMMA Reconciling ==
    ASSUME NEW q \in Deletion!Request, NEW purged \in BOOLEAN
    PROVE  /\ Deletion!Reconciled(q, purged) \in Deletion!Request
           /\ Deletion!Reconciled(q, purged).vector = q.vector
           /\ Deletion!Reconciled(q, purged).auth = q.auth
           /\ Deletion!Reconciled(q, purged).status # q.status =>
                 q.vector = "deleted" /\ q.auth = "revoked" /\ purged
BY DEF Deletion!Reconciled, Deletion!Done, Deletion!Request

LEMMA DeletionTypes ==
    ASSUME Deletion!TypeOK, Deletion!Next
    PROVE  Deletion!TypeOK'
<1> USE DEF Deletion!TypeOK, Deletion!None, Deletion!rag
<1>r. Deletion!Absent \in Deletion!Request
  BY DEF Deletion!Absent, Deletion!Request
<1>1. ASSUME NEW r \in Requests, Deletion!CreateDeletionRequest(r) PROVE Deletion!TypeOK'
  <2>1. [Deletion!Absent EXCEPT !.status = "executing",
            !.object = IF d_kind.text THEN "not_required" ELSE "pending"] \in Deletion!Request
    BY DEF Deletion!Absent, Deletion!Request
  <2> QED BY <1>1, <2>1 DEF Deletion!CreateDeletionRequest, Deletion!Calls
<1>2. ASSUME NEW r \in Requests, Deletion!MarkRevoked(r) \/ Deletion!RevokePending(r)
      PROVE  Deletion!TypeOK'
  <2>1. Deletion!MarkedRevoked(d_request[r]) \in Deletion!Request
    <3>1. [d_request[r] EXCEPT !.auth = "revoked"] \in Deletion!Request
      BY DEF Deletion!Request
    <3> QED BY <3>1, Reconciling DEF Deletion!MarkedRevoked
  <2>2. d_request' \in [Requests -> Deletion!Request]
    BY <1>2, <2>1 DEF Deletion!MarkRevoked, Deletion!RevokePending
  <2>3. CASE Deletion!MarkRevoked(r)
    BY <2>2, <2>3 DEF Deletion!MarkRevoked, Deletion!Calls
  <2>4. CASE Deletion!RevokePending(r)
    BY <2>2, <2>4 DEF Deletion!RevokePending
  <2> QED BY <1>2, <2>3, <2>4
<1>3. ASSUME NEW r \in Requests, Deletion!PurgeDeletionRequest(r) PROVE Deletion!TypeOK'
  <2>1. Deletion!Purged(r) \in [Requests -> Deletion!Request]
    <3>1. [d_request[r] EXCEPT !.object = IF @ = "not_required" THEN @ ELSE "deleted"]
             \in Deletion!Request
      BY DEF Deletion!Request
    <3> QED BY <3>1, Reconciling DEF Deletion!Purged
  <2>2. [d_request[r] EXCEPT !.object = "failed"] \in Deletion!Request
    BY DEF Deletion!Request
  <2>3. [d_request EXCEPT ![r].object = "failed"] \in [Requests -> Deletion!Request]
    BY <2>2
  <2>4. d_request' \in [Requests -> Deletion!Request]
    BY <1>3, <2>1, <2>3 DEF Deletion!PurgeDeletionRequest
  <2>5. d_item' \in [status : {"active", "deleting", "deleted", "purged"}, purged : BOOLEAN]
    <3>1. d_item' = [status |-> "purged", purged |-> TRUE] \/ d_item' = d_item
      BY <1>3 DEF Deletion!PurgeDeletionRequest
    <3>2. [status |-> "purged", purged |-> TRUE]
             \in [status : {"active", "deleting", "deleted", "purged"}, purged : BOOLEAN]
      OBVIOUS
    <3> QED BY <3>1, <3>2
  <2>6. d_object' \in BOOLEAN
    BY <1>3 DEF Deletion!PurgeDeletionRequest
  <2> QED BY <1>3, <2>4, <2>5, <2>6 DEF Deletion!PurgeDeletionRequest
<1>4. ASSUME NEW r \in Requests, Deletion!RetryDeletionRequest(r) PROVE Deletion!TypeOK'
  <2>1. [d_request[r] EXCEPT !.object = "pending"] \in Deletion!Request
    BY DEF Deletion!Request
  <2> QED BY <1>4, <2>1 DEF Deletion!RetryDeletionRequest
<1>5. ASSUME NEW r \in Requests, Deletion!HideDeletionTargets(r) PROVE Deletion!TypeOK'
  <2>1. ASSUME NEW b \in BOOLEAN PROVE [d_request[r] EXCEPT !.announced = b] \in Deletion!Request
    BY DEF Deletion!Request
  <2>2. (d_event = "none") \in BOOLEAN
    OBVIOUS
  <2>3. d_request' \in [Requests -> Deletion!Request]
    BY <1>5, <2>1, <2>2 DEF Deletion!HideDeletionTargets
  <2> QED BY <1>5, <2>3 DEF Deletion!HideDeletionTargets, Deletion!Calls
<1>6. ASSUME NEW r \in Requests,
             Deletion!RevokeRelations(r) \/ Deletion!CallFails(r) \/ Deletion!CallPurges(r)
      PROVE  Deletion!TypeOK'
  BY <1>6 DEF Deletion!RevokeRelations, Deletion!CallFails, Deletion!CallPurges, Deletion!Calls
<1>7. ASSUME Deletion!ApplyRAGResult PROVE Deletion!TypeOK'
  <2>1. ASSUME NEW r \in Requests
        PROVE  /\ [d_request[r] EXCEPT !.vector = "deleted"] \in Deletion!Request
               /\ Deletion!ApplyDeleted(d_request[r]) \in Deletion!Request
    <3>1. [d_request[r] EXCEPT !.vector = "deleted"] \in Deletion!Request
      BY DEF Deletion!Request
    <3> QED BY <3>1, Reconciling DEF Deletion!ApplyDeleted
  <2>2. d_request' \in [Requests -> Deletion!Request]
    <3>1. \/ d_request' = [r \in Requests |-> Deletion!ApplyDeleted(d_request[r])]
          \/ d_request' = [r \in Requests |->
                             IF d_request[r].status = "none" THEN d_request[r]
                             ELSE [d_request[r] EXCEPT !.vector = "deleted"]]
      BY <1>7 DEF Deletion!ApplyRAGResult
    <3>2. d_request \in [Requests -> Deletion!Request]
      OBVIOUS
    <3>3. ASSUME NEW r \in Requests
          PROVE  (IF d_request[r].status = "none" THEN d_request[r]
                  ELSE [d_request[r] EXCEPT !.vector = "deleted"]) \in Deletion!Request
      BY <2>1, <3>2
    <3> HIDE DEF Deletion!TypeOK
    <3> QED BY <2>1, <3>1, <3>3
  <2>3. d_item' \in [status : {"active", "deleting", "deleted", "purged"}, purged : BOOLEAN]
    BY <1>7 DEF Deletion!ApplyRAGResult
  <2> QED BY <1>7, <2>2, <2>3 DEF Deletion!ApplyRAGResult
<1>8. ASSUME \/ Deletion!ListForSync \/ Deletion!Sync \/ Deletion!PublishOutbox
             \/ Deletion!DeleteVectors \/ Deletion!DeleteChunks
      PROVE  Deletion!TypeOK'
  BY <1>8 DEF Deletion!ListForSync, Deletion!Sync, Deletion!PublishOutbox,
              Deletion!DeleteVectors, Deletion!DeleteChunks, Deletion!Lanes
<1>9. ASSUME Deletion!Job PROVE Deletion!TypeOK'
  BY <1>9 DEF Deletion!Job, Deletion!LoadContent, Deletion!UpsertChunks, Deletion!LoadChunks,
              Deletion!IndexChunks, Deletion!JobRetried, Deletion!Lanes
<1> QED
  BY <1>1, <1>2, <1>3, <1>4, <1>5, <1>6, <1>7, <1>8, <1>9
  DEF Deletion!Next, Deletion!Work, Deletion!Rag

\* The API call and the worker: what a field of a request says of its stage is so.
LEMMA RequestSound ==
    ASSUME Deletion!DeletionInv, NEW r \in Requests, Deletion!TypeOK',
           \/ Deletion!CreateDeletionRequest(r) \/ Deletion!RevokeRelations(r)
           \/ Deletion!MarkRevoked(r) \/ Deletion!HideDeletionTargets(r)
           \/ Deletion!CallFails(r) \/ Deletion!CallPurges(r)
           \/ Deletion!PurgeDeletionRequest(r) \/ Deletion!RevokePending(r)
           \/ Deletion!RetryDeletionRequest(r),
           NEW q \in Requests
    PROVE  Deletion!Sound(q)'
<1> USE DEF Deletion!DeletionInv, Deletion!Sound, Deletion!Unrelated, Deletion!None, Deletion!rag
<1>t. /\ d_request[r] \in Deletion!Request /\ d_request[q] \in Deletion!Request
      /\ d_item.purged \in BOOLEAN /\ d_request \in [Requests -> Deletion!Request]
      /\ d_call \in [Requests -> Deletion!Calls]
  BY DEF Deletion!TypeOK
<1>1. CASE Deletion!CreateDeletionRequest(r)
  BY <1>1, <1>t DEF Deletion!CreateDeletionRequest, Deletion!Absent, Deletion!Request
<1>2. CASE Deletion!RevokeRelations(r)
  BY <1>2, <1>t DEF Deletion!RevokeRelations
<1>3. CASE Deletion!MarkRevoked(r)
  BY <1>3, <1>t DEF Deletion!MarkRevoked, Deletion!MarkedRevoked, Deletion!Reconciled,
                    Deletion!Done, Deletion!Request
<1>4. CASE Deletion!HideDeletionTargets(r)
  BY <1>4, <1>t DEF Deletion!HideDeletionTargets, Deletion!TypeOK, Deletion!Request
<1>5. CASE Deletion!CallFails(r) \/ Deletion!CallPurges(r)
  BY <1>5, <1>t DEF Deletion!CallFails, Deletion!CallPurges
<1>6. CASE Deletion!PurgeDeletionRequest(r)
  <2> DEFINE was == [d_request[r] EXCEPT !.object = IF @ = "not_required" THEN @ ELSE "deleted"]
  <2>1. was \in Deletion!Request /\ was.vector = d_request[r].vector
        /\ was.auth = d_request[r].auth /\ was.status = d_request[r].status
    BY <1>t DEF Deletion!Request
  <2>2. CASE d_item' = [status |-> "purged", purged |-> TRUE] /\ d_request' = Deletion!Purged(r)
    <3>1. q # r => d_request'[q] = d_request[q]
      BY <2>2 DEF Deletion!Purged
    <3>2. q = r => d_request'[q] = Deletion!Reconciled(was, TRUE)
      BY <2>2 DEF Deletion!Purged
    <3> HIDE DEF was
    <3>3. q = r => /\ d_request'[q].vector = d_request[q].vector
                   /\ d_request'[q].auth = d_request[q].auth
                   /\ d_request'[q].status # d_request[q].status =>
                         d_request[q].vector = "deleted" /\ d_request[q].auth = "revoked"
      <4>1. TRUE \in BOOLEAN
        OBVIOUS
      <4> QED BY ZenonT(40), <2>1, <3>2, <4>1, Reconciling
    <3> QED BY <1>6, <2>2, <3>1, <3>3 DEF Deletion!PurgeDeletionRequest
  <2>3. CASE d_request' = [d_request EXCEPT ![r].object = "failed"] /\ UNCHANGED d_item
    BY <1>6, <2>3, <1>t DEF Deletion!PurgeDeletionRequest, Deletion!Request
  <2> QED BY <1>6, <2>2, <2>3 DEF Deletion!PurgeDeletionRequest
<1>7. CASE Deletion!RevokePending(r)
  BY <1>7, <1>t DEF Deletion!RevokePending, Deletion!MarkedRevoked, Deletion!Reconciled,
                    Deletion!Done, Deletion!Request
<1>8. CASE Deletion!RetryDeletionRequest(r)
  BY <1>8, <1>t DEF Deletion!RetryDeletionRequest, Deletion!Request
<1> QED BY <1>1, <1>2, <1>3, <1>4, <1>5, <1>6, <1>7, <1>8

\* The permissions, the outbox and the RAG service.
LEMMA ServicesSound ==
    ASSUME Deletion!DeletionInv, Deletion!TypeOK', NEW q \in Requests,
           \/ Deletion!ListForSync \/ Deletion!Sync \/ Deletion!PublishOutbox
           \/ Deletion!Job \/ Deletion!Rag
    PROVE  Deletion!Sound(q)'
<1> USE DEF Deletion!DeletionInv, Deletion!Sound, Deletion!Unrelated, Deletion!None, Deletion!rag
<1>t. /\ d_request[q] \in Deletion!Request
      /\ d_item.purged \in BOOLEAN /\ d_request \in [Requests -> Deletion!Request]
      /\ d_item \in [status : {"active", "deleting", "deleted", "purged"}, purged : BOOLEAN]
  BY DEF Deletion!TypeOK
<1>1. CASE \/ Deletion!ListForSync \/ Deletion!Sync \/ Deletion!PublishOutbox
           \/ Deletion!Job
  BY <1>1 DEF Deletion!ListForSync, Deletion!Sync, Deletion!PublishOutbox, Deletion!Job,
              Deletion!LoadContent, Deletion!UpsertChunks, Deletion!LoadChunks,
              Deletion!IndexChunks, Deletion!JobRetried
<1>2. CASE Deletion!DeleteVectors \/ Deletion!DeleteChunks
  BY <1>2, <1>t DEF Deletion!DeleteVectors, Deletion!DeleteChunks, Deletion!Handled
<1>3. CASE Deletion!ApplyRAGResult
  <2> DEFINE was == [d_request[q] EXCEPT !.vector = "deleted"]
  <2>1. was \in Deletion!Request /\ was.vector = "deleted"
        /\ was.auth = d_request[q].auth /\ was.status = d_request[q].status
    BY <1>t DEF Deletion!Request
  <2>2. d_request'[q] \in {d_request[q], was, Deletion!Reconciled(was, d_item.purged)}
    BY <1>3, <1>t DEF Deletion!ApplyRAGResult, Deletion!ApplyDeleted
  <2>3. d_item'.purged = d_item.purged /\ d_callback' = "applied"
    BY <1>3, <1>t DEF Deletion!ApplyRAGResult
  <2> HIDE DEF was
  <2>4. /\ d_request'[q].auth = d_request[q].auth
        /\ d_request'[q].status # d_request[q].status =>
              d_request'[q].vector = "deleted" /\ d_request[q].auth = "revoked" /\ d_item.purged
        /\ d_request'[q].vector \in {d_request[q].vector, "deleted"}
    BY <2>1, <2>2, <1>t, Reconciling
  <2> QED BY <1>3, <2>3, <2>4 DEF Deletion!ApplyRAGResult
<1> QED BY <1>1, <1>2, <1>3 DEF Deletion!Rag

\* The callback, the rows and the index of the RAG service go together.
LEMMA HandledKept ==
    ASSUME Deletion!DeletionInv, Deletion!Next, Deletion!TypeOK'
    PROVE  Deletion!Handled'
<1> USE DEF Deletion!DeletionInv, Deletion!Handled, Deletion!None, Deletion!rag, Deletion!TypeOK
<1>1. ASSUME NEW r \in Requests, Deletion!Work(r) PROVE Deletion!Handled'
  <2>1. CASE Deletion!PurgeDeletionRequest(r)
    <3>1. UNCHANGED <<d_callback, d_event, d_chunks, d_docs, d_revived>>
      BY <2>1 DEF Deletion!PurgeDeletionRequest
    <3>2. d_item'.purged => ~d_object'
      BY <2>1 DEF Deletion!PurgeDeletionRequest
    <3> QED BY <3>1, <3>2
  <2>2. CASE Deletion!RevokePending(r)
    BY <2>2 DEF Deletion!RevokePending
  <2> QED BY <1>1, <2>1, <2>2 DEF Deletion!Work
<1>2. ASSUME NEW r \in Requests, Deletion!HideDeletionTargets(r) PROVE Deletion!Handled'
  BY <1>2 DEF Deletion!HideDeletionTargets
<1>3. ASSUME NEW r \in Requests,
             \/ Deletion!CreateDeletionRequest(r) \/ Deletion!RevokeRelations(r)
             \/ Deletion!MarkRevoked(r) \/ Deletion!CallFails(r) \/ Deletion!CallPurges(r)
             \/ Deletion!RetryDeletionRequest(r)
      PROVE  Deletion!Handled'
  BY <1>3 DEF Deletion!CreateDeletionRequest, Deletion!RevokeRelations, Deletion!MarkRevoked,
              Deletion!CallFails, Deletion!CallPurges, Deletion!RetryDeletionRequest
<1>4. ASSUME Deletion!ListForSync \/ Deletion!Sync \/ Deletion!PublishOutbox
      PROVE  Deletion!Handled'
  BY <1>4 DEF Deletion!ListForSync, Deletion!Sync, Deletion!PublishOutbox
<1>5. ASSUME Deletion!Job PROVE Deletion!Handled'
  BY <1>5 DEF Deletion!Job, Deletion!LoadContent, Deletion!UpsertChunks, Deletion!LoadChunks,
              Deletion!IndexChunks, Deletion!JobRetried
<1>6. ASSUME Deletion!Rag PROVE Deletion!Handled'
  BY <1>6 DEF Deletion!Rag, Deletion!DeleteVectors, Deletion!DeleteChunks, Deletion!ApplyRAGResult
<1> QED BY <1>1, <1>2, <1>3, <1>4, <1>5, <1>6 DEF Deletion!Next

LEMMA DeletionStep ==
    ASSUME Deletion!DeletionInv, Deletion!Next
    PROVE  Deletion!DeletionInv'
<1>1. Deletion!TypeOK'
  BY DeletionTypes DEF Deletion!DeletionInv
<1>2. ASSUME NEW q \in Requests PROVE Deletion!Sound(q)'
  BY <1>1, RequestSound, ServicesSound DEF Deletion!Next, Deletion!Work
<1> QED BY <1>1, <1>2, HandledKept DEF Deletion!DeletionInv

LEMMA DeletionStart == Deletion!Init => Deletion!DeletionInv
<1> SUFFICES ASSUME Deletion!Init PROVE Deletion!DeletionInv
  OBVIOUS
<1>1. Deletion!Absent \in Deletion!Request
  BY DEF Deletion!Absent, Deletion!Request, Deletion!None
<1>2. d_kind.text \in BOOLEAN
  BY DEF Deletion!Init
<1>3. d_request \in [Requests -> Deletion!Request]
  BY <1>1 DEF Deletion!Init
<1>4. d_item \in [status : {"active", "deleting", "deleted", "purged"}, purged : BOOLEAN]
  BY DEF Deletion!Init
<1>5. Deletion!TypeOK
  BY <1>2, <1>3, <1>4 DEF Deletion!Init, Deletion!TypeOK, Deletion!None, Deletion!Calls,
                          Deletion!Lanes
<1>6. ASSUME NEW r \in Requests PROVE Deletion!Sound(r)
  BY DEF Deletion!Init, Deletion!Sound, Deletion!Absent, Deletion!None
<1>7. Deletion!Handled
  BY DEF Deletion!Init, Deletion!Handled, Deletion!None
<1> QED BY <1>5, <1>6, <1>7 DEF Deletion!DeletionInv

LEMMA DeletionEnds == Deletion!DeletionInv => Deletion!CompletedIsGone
BY DEF Deletion!DeletionInv, Deletion!CompletedIsGone, Deletion!Sound, Deletion!Handled,
       Deletion!Unrelated, Deletion!None, Deletion!TypeOK

-----------------------------------------------------------------------------
(* Items.  An event names a version the row has had, and the callback of a    *)
(* job counts only for a version that is not behind the row: so what makes an *)
(* item searchable is the job of its present version, and that job read the   *)
(* text of its version.                                                       *)

\* The named parts of ItemInv.
RowFits ==
    /\ i_item.class = "pending" =>
          i_item.version = 1 /\ i_item.proc = "pending" /\ i_item.policy = 0
    /\ i_item.policy <= i_policy
    /\ i_item.class = "succeeded" =>
          i_item.policy >= 1 /\ i_item.display = Item!Analyze(i_item.policy)
    /\ i_item.version = 2 => i_item.policy = 2
ListFits ==
    i_core.aclv <= IF i_core.aclv = 0 \/ i_core.relations = i_member
                   THEN i_changes + 1 ELSE i_changes
EventFits(v) ==
    /\ v \in i_stream => i_ready[v].status # "none"
    /\ i_ready[v].status # "none" => v <= i_item.version /\ i_item.class = "succeeded"
    /\ i_job[v].status # "none" => v \in i_stream
    /\ i_job[v].status = "indexed" => Item!Shows(v)
FoundFits ==
    i_item.rag = "ready" => /\ i_item.ragv = i_item.version
                            /\ i_job[i_item.ragv].status # "none"
                            /\ Item!Shows(i_item.ragv)

LEMMA ItemParts ==
    Item!ItemInv <=> /\ Item!TypeOK /\ i_changes \in 0..MaxChanges
                     /\ ListFits /\ RowFits /\ FoundFits /\ \A v \in 1..2 : EventFits(v)
BY DEF Item!ItemInv, RowFits, ListFits, EventFits, FoundFits, Item!Versions, Item!None

Events == [status : {"none", "pending", "published"}, aclv : 0..(MaxChanges + 1)]
Jobs == [status : {"none", "indexed", "failed", "reported"}, text : {"none", "plain", "masked"}]

LEMMA ItemTypeParts ==
    Item!TypeOK <=> /\ i_policy \in 1..2 /\ i_item \in Item!Item
                    /\ i_member \subseteq Members /\ i_told \in BOOLEAN
                    /\ i_core \in [relations : SUBSET Members, aclv : 0..(MaxChanges + 1)]
                    /\ i_work \in [Workers -> Item!Work] /\ i_ready \in [1..2 -> Events]
                    /\ i_stream \subseteq 1..2 /\ i_job \in [1..2 -> Jobs] /\ i_outrun \in BOOLEAN
BY DEF Item!TypeOK, Item!Versions, Item!AclVersions, Item!None, Events, Jobs

\* Every version of the list is one of those the bound on the changes leaves.
LEMMA Resolved ==
    ASSUME Item!ItemInv
    PROVE  /\ Item!ResolveACLVersion \in 0..(MaxChanges + 1)
           /\ Item!ResolveACLVersion <= i_changes + 1
<1>1. /\ ListFits /\ i_changes \in 0..MaxChanges /\ i_core.aclv \in 0..(MaxChanges + 1)
      /\ MaxChanges \in Nat
  BY ItemParts, ItemTypeParts, KnowledgeAssumption
<1> QED BY <1>1 DEF ListFits, Item!ResolveACLVersion

\* TryMarkKnowledgeReady changes no text and announces the version of the row only.
LEMMA Marked ==
    ASSUME NEW row \in Item!Item, Item!TryMarkKnowledgeReady(row), i_ready \in [1..2 -> Events]
    PROVE  /\ i_item' \in Item!Item /\ i_ready' \in [1..2 -> Events]
           /\ i_item'.class = row.class /\ i_item'.policy = row.policy
           /\ i_item'.display = row.display /\ i_item'.version = row.version
           /\ i_item'.rag = row.rag /\ i_item'.ragv = row.ragv
           /\ i_item'.proc # row.proc => row.class = "succeeded"
           /\ \A v \in 1..2 : i_ready'[v].status # "none" =>
                 i_ready[v].status # "none" \/ (v = row.version /\ row.class = "succeeded")
           /\ \A v \in 1..2 : i_ready[v].status # "none" => i_ready'[v] = i_ready[v]
<1>t. row.version \in 1..2 /\ row.aclv \in 0..(MaxChanges + 1)
  BY DEF Item!Item, Item!Versions, Item!AclVersions
<1>1. CASE Item!Gate(row)
  <2>1. i_item' = [row EXCEPT !.proc = "ready"] /\ row.class = "succeeded"
    BY <1>1 DEF Item!TryMarkKnowledgeReady, Item!Gate
  <2>2. i_ready' = [i_ready EXCEPT ![row.version] =
                      IF @.status = "none" THEN [status |-> "pending", aclv |-> row.aclv] ELSE @]
    BY <1>1 DEF Item!TryMarkKnowledgeReady, Item!None
  <2>3. [status |-> "pending", aclv |-> row.aclv] \in Events
    BY <1>t DEF Events
  <2>4. i_ready' \in [1..2 -> Events]
    BY <1>t, <2>2, <2>3
  <2>5. i_item' \in Item!Item
    BY <2>1 DEF Item!Item
  <2>6. /\ i_item'.class = row.class /\ i_item'.policy = row.policy
        /\ i_item'.display = row.display /\ i_item'.version = row.version
        /\ i_item'.rag = row.rag /\ i_item'.ragv = row.ragv
    BY <2>1 DEF Item!Item
  <2>7. \A v \in 1..2 : v # row.version => i_ready'[v] = i_ready[v]
    BY <1>t, <2>2
  <2>8. i_ready[row.version].status # "none" => i_ready'[row.version] = i_ready[row.version]
    BY <1>t, <2>2
  <2> QED BY <2>1, <2>4, <2>5, <2>6, <2>7, <2>8
<1>2. CASE ~Item!Gate(row)
  BY <1>2 DEF Item!TryMarkKnowledgeReady
<1> QED BY <1>1, <1>2

\* The first classification, and the row a second one makes.
LEMMA Classified ==
    ASSUME Item!ItemInv
    PROVE  [i_item EXCEPT !.class = "succeeded", !.display = Item!Analyze(i_policy),
                          !.policy = i_policy] \in Item!Item
<1>1. i_item \in Item!Item /\ i_policy \in 0..2 /\ Item!Analyze(i_policy) \in {"plain", "masked"}
  BY ItemParts, ItemTypeParts DEF Item!Analyze
<1> QED BY <1>1 DEF Item!Item

LEMMA Recounted ==
    ASSUME Item!ItemInv, Item!ReprocessPrivacy
    PROVE  /\ i_item' \in Item!Item /\ i_item'.class = "succeeded" /\ i_item'.policy = 2
           /\ i_item'.display = Item!Analyze(2) /\ i_item'.version = 2
           /\ i_item'.rag = "pending" /\ i_item.version = 1 /\ i_policy = 2
<1>1. /\ i_item \in Item!Item /\ i_policy \in 1..2 /\ RowFits
      /\ i_item.class = "succeeded" /\ i_item.policy < i_policy
      /\ i_item' = Item!Reclassified(i_item, Item!Analyze(i_policy))
  BY ItemParts, ItemTypeParts DEF Item!ReprocessPrivacy
<1>2. i_item.policy = 1 /\ i_policy = 2 /\ i_item.version = 1 /\ i_item.display = "plain"
  BY <1>1 DEF RowFits, Item!Item, Item!Versions, Item!Analyze
<1>3. i_item' = [i_item EXCEPT !.display = "masked", !.policy = 2, !.class = "succeeded",
                               !.version = 2, !.perm = FALSE, !.acl = "pending",
                               !.proc = "pending", !.rag = "pending"]
  <2>1. Item!Analyze(i_policy) = "masked" /\ i_item.display # "masked"
    BY <1>2 DEF Item!Analyze
  <2>2. i_item.version + 1 = 2
    BY <1>2
  <2>3. i_item.version \in 1..2
    BY <1>2
  <2> QED BY <1>1, <1>2, <2>1, <2>2 DEF Item!Reclassified, Item!Item
<1>4. Item!Analyze(2) = "masked" /\ 2 \in 0..2 /\ 2 \in 1..2 /\ 0 \in 0..2
  BY DEF Item!Analyze
<1>5. i_item' \in Item!Item
  BY <1>1, <1>3, <1>4 DEF Item!Item, Item!Versions
<1> QED BY <1>1, <1>2, <1>3, <1>4, <1>5 DEF Item!Item

\* The other actions leave the classification of the row.
SameText ==
    /\ i_item'.class = i_item.class /\ i_item'.policy = i_item.policy
    /\ i_item'.display = i_item.display /\ i_item'.version = i_item.version
SameAnswer == i_item'.rag = i_item.rag /\ i_item'.ragv = i_item.ragv

LEMMA Reported ==
    ASSUME i_item \in Item!Item, i_ready \in [1..2 -> Events], NEW v \in 1..2,
           NEW s \in {"processing", "ready", "failed"}, i_item' = Item!Applied(v, s)
    PROVE  /\ i_item' \in Item!Item /\ SameText /\ i_item'.proc = i_item.proc
           /\ \/ SameAnswer
              \/ i_item'.rag = s /\ i_item'.ragv = v /\ v >= i_item.version
<1>t. i_ready[v].aclv \in 0..(MaxChanges + 1) /\ i_item.version \in 1..2
  BY DEF Events, Item!Item, Item!Versions
<1>1. CASE i_item' = i_item
  BY <1>1 DEF SameText, SameAnswer
<1>2. CASE i_item' # i_item
  <2>1. /\ i_item' = [i_item EXCEPT !.rag = s, !.ragv = v, !.ragacl = i_ready[v].aclv]
        /\ ~(v < i_item.version)
    BY <1>2 DEF Item!Applied
  <2>2. v \in 0..2 /\ v >= i_item.version
    BY <1>t, <2>1
  <2>3. i_item' \in Item!Item
    BY <1>t, <2>1, <2>2 DEF Item!Item, Item!AclVersions
  <2> QED BY <2>1, <2>2, <2>3 DEF Item!Item, SameText
<1> QED BY <1>1, <1>2

LEMMA RowMoves ==
    ASSUME i_item \in Item!Item, i_work \in [Workers -> Item!Work],
           i_ready \in [1..2 -> Events], Item!Next,
           ~Item!ProcessPrivacy, ~Item!ReprocessPrivacy
    PROVE  /\ i_item' \in Item!Item /\ SameText
           /\ i_item'.proc # i_item.proc => i_item.class = "succeeded"
           /\ (\A v \in 1..2 : ~Item!ReportProcessing(v) /\ ~Item!Report(v)) => SameAnswer
<1>1. CASE Item!ApplyOrganizationMembershipEvent
  BY <1>1 DEF Item!ApplyOrganizationMembershipEvent, Item!Item, SameText, SameAnswer
<1>2. ASSUME NEW w \in Workers, Item!SyncFails(w)
      PROVE  i_item' \in Item!Item /\ SameText /\ SameAnswer /\ i_item'.proc = i_item.proc
  BY <1>2 DEF Item!SyncFails, Item!Item, SameText, SameAnswer
<1>3. ASSUME NEW w \in Workers, Item!MarkSynced(w)
      PROVE  i_item' \in Item!Item /\ SameText /\ SameAnswer /\ i_item'.proc = i_item.proc
  BY <1>3 DEF Item!MarkSynced, Item!Item, Item!Work, SameText, SameAnswer
<1>4. ASSUME NEW w \in Workers, Item!TryReady(w)
      PROVE  /\ i_item' \in Item!Item /\ SameText /\ SameAnswer
             /\ i_item'.proc # i_item.proc => i_item.class = "succeeded"
  BY <1>4, Marked DEF Item!TryReady, SameText, SameAnswer
<1>5. ASSUME NEW v \in 1..2, Item!ReportProcessing(v) \/ Item!Report(v)
      PROVE  i_item' \in Item!Item /\ SameText /\ i_item'.proc = i_item.proc
  <2>1. PICK s \in {"processing", "ready", "failed"} : i_item' = Item!Applied(v, s)
    BY <1>5 DEF Item!ReportProcessing, Item!Report
  <2> QED BY <2>1, Reported
<1>6. ASSUME \/ Item!NewPolicy \/ \E u \in Members : Item!Join(u)
             \/ \E w \in Workers : Item!ListPending(w) \/ Item!SyncKnowledgePermissions(w)
                                   \/ Item!Crash(w)
             \/ \E v \in 1..2 : Item!PublishOutbox(v) \/ Item!Fetch(v)
      PROVE  i_item' = i_item
  BY <1>6 DEF Item!NewPolicy, Item!Join, Item!ListPending, Item!SyncKnowledgePermissions,
     Item!Crash, Item!PublishOutbox, Item!Fetch
<1> QED
  BY <1>1, <1>2, <1>3, <1>4, <1>5, <1>6
  DEF Item!Next, Item!Serve, Item!Step, Item!Deliver, Item!Versions, SameText, SameAnswer

LEMMA ItemTypes ==
    ASSUME Item!ItemInv, Item!Next
    PROVE  Item!TypeOK' /\ i_changes' \in 0..MaxChanges /\ ListFits'
<1>0. Item!TypeOK /\ i_changes \in 0..MaxChanges /\ ListFits /\ MaxChanges \in Nat
  BY ItemParts, KnowledgeAssumption
<1>t. /\ i_policy \in 1..2 /\ i_item \in Item!Item
      /\ i_member \subseteq Members /\ i_told \in BOOLEAN
      /\ i_core \in [relations : SUBSET Members, aclv : 0..(MaxChanges + 1)]
      /\ i_work \in [Workers -> Item!Work] /\ i_ready \in [1..2 -> Events]
      /\ i_stream \subseteq 1..2 /\ i_job \in [1..2 -> Jobs] /\ i_outrun \in BOOLEAN
  BY <1>0, ItemTypeParts
<1>r. Item!Rest \in Item!Work /\ Item!Work = [pc : {"idle", "sync", "mark", "gate"},
                                              aclv : 0..(MaxChanges + 1)]
  BY <1>0 DEF Item!Rest, Item!Work, Item!AclVersions
<1>c. i_core.relations \subseteq Members /\ i_core.aclv \in 0..(MaxChanges + 1)
  BY <1>t
<1>i. i_item' \in Item!Item
  <2>1. CASE Item!ProcessPrivacy
    <3>1. PICK row \in Item!Item : Item!TryMarkKnowledgeReady(row) \/ i_item' = row
      BY <2>1, Classified DEF Item!ProcessPrivacy
    <3> QED BY <3>1, <1>t, Marked
  <2>2. CASE Item!ReprocessPrivacy
    BY <2>2, Recounted
  <2> QED BY <2>1, <2>2, <1>t, RowMoves
<1>y. i_ready' \in [1..2 -> Events]
  <2>1. CASE Item!ProcessPrivacy
    <3>1. PICK row \in Item!Item : Item!TryMarkKnowledgeReady(row) \/ UNCHANGED i_ready
      BY <2>1, Classified DEF Item!ProcessPrivacy
    <3> QED BY <3>1, <1>t, Marked
  <2>2. ASSUME NEW w \in Workers, Item!TryReady(w) PROVE i_ready' \in [1..2 -> Events]
    BY <2>2, <1>t, Marked DEF Item!TryReady
  <2>3. ASSUME NEW v \in 1..2, Item!PublishOutbox(v) PROVE i_ready' \in [1..2 -> Events]
    BY <2>3, <1>t DEF Item!PublishOutbox, Events
  <2>4. \/ UNCHANGED i_ready \/ Item!ProcessPrivacy \/ \E w \in Workers : Item!TryReady(w)
        \/ \E v \in 1..2 : Item!PublishOutbox(v)
    BY DEF Item!Next, Item!Serve, Item!Step, Item!Deliver, Item!Versions, Item!rag,
       Item!NewPolicy, Item!Join, Item!ListPending, Item!SyncKnowledgePermissions,
       Item!Crash, Item!Fetch, Item!SyncFails, Item!MarkSynced, Item!ReprocessPrivacy,
       Item!ApplyOrganizationMembershipEvent, Item!ReportProcessing, Item!Report
  <2> QED BY <2>1, <2>2, <2>3, <2>4, <1>t
<1>w. i_work' \in [Workers -> Item!Work]
  <2>1. ASSUME NEW w \in Workers, Item!ListPending(w) PROVE i_work' \in [Workers -> Item!Work]
    BY <2>1, <1>t, <1>r DEF Item!ListPending
  <2>2. ASSUME NEW w \in Workers, Item!SyncKnowledgePermissions(w)
        PROVE  i_work' \in [Workers -> Item!Work]
    <3>1. [pc |-> "mark", aclv |-> Item!ResolveACLVersion] \in Item!Work
      BY <1>r, Resolved
    <3>2. i_work' = [i_work EXCEPT ![w] = [pc |-> "mark", aclv |-> Item!ResolveACLVersion]]
      BY <2>2 DEF Item!SyncKnowledgePermissions
    <3> QED BY <3>1, <3>2, <1>t
  <2>3. ASSUME NEW w \in Workers, Item!MarkSynced(w) PROVE i_work' \in [Workers -> Item!Work]
    <3>1. [Item!Rest EXCEPT !.pc = "gate"] \in Item!Work
      BY <1>r
    <3> QED BY <2>3, <3>1, <1>t DEF Item!MarkSynced
  <2>4. ASSUME NEW w \in Workers, Item!SyncFails(w) \/ Item!TryReady(w) \/ Item!Crash(w)
        PROVE  i_work' \in [Workers -> Item!Work]
    BY <2>4, <1>t, <1>r DEF Item!SyncFails, Item!TryReady, Item!Crash
  <2>5. \/ UNCHANGED i_work
        \/ \E w \in Workers : Item!Step(w) \/ Item!SyncFails(w) \/ Item!Crash(w)
    BY DEF Item!Next, Item!Serve, Item!Deliver, Item!NewPolicy, Item!Join, Item!Fetch,
       Item!PublishOutbox, Item!ReprocessPrivacy, Item!ProcessPrivacy,
       Item!ApplyOrganizationMembershipEvent, Item!ReportProcessing, Item!Report
  <2> QED BY <2>1, <2>2, <2>3, <2>4, <2>5, <1>t DEF Item!Step
<1>j. i_job' \in [1..2 -> Jobs] /\ i_stream' \subseteq 1..2
  <2>1. ASSUME NEW v \in 1..2, Item!Fetch(v) PROVE i_job' \in [1..2 -> Jobs]
    <3>1. /\ [status |-> "indexed", text |-> i_item.display] \in Jobs
          /\ [status |-> "failed", text |-> Item!None] \in Jobs
      BY <1>t DEF Jobs, Item!Item, Item!None
    <3> QED BY <2>1, <3>1, <1>t DEF Item!Fetch
  <2>2. ASSUME NEW v \in 1..2, Item!Report(v) PROVE i_job' \in [1..2 -> Jobs]
    BY <2>2, <1>t DEF Item!Report, Jobs
  <2>3. ASSUME NEW v \in 1..2, Item!PublishOutbox(v) PROVE i_stream' \subseteq 1..2
    BY <2>3, <1>t DEF Item!PublishOutbox
  <2>4. /\ UNCHANGED i_job \/ \E v \in 1..2 : Item!Fetch(v) \/ Item!Report(v)
        /\ UNCHANGED i_stream \/ \E v \in 1..2 : Item!PublishOutbox(v)
    BY DEF Item!Next, Item!Serve, Item!Step, Item!Deliver, Item!Versions, Item!rag,
       Item!NewPolicy, Item!Join, Item!ListPending, Item!SyncKnowledgePermissions,
       Item!Crash, Item!SyncFails, Item!MarkSynced, Item!ReprocessPrivacy, Item!TryReady,
       Item!ProcessPrivacy, Item!PublishOutbox, Item!Fetch,
       Item!ApplyOrganizationMembershipEvent, Item!ReportProcessing, Item!Report
  <2> QED BY <2>1, <2>2, <2>3, <2>4, <1>t
<1>p. i_policy' \in 1..2 /\ i_told' \in BOOLEAN /\ i_outrun' \in BOOLEAN
  <2>1. /\ UNCHANGED i_policy \/ i_policy' = 2
        /\ UNCHANGED i_told \/ i_told' = TRUE \/ i_told' = FALSE
        /\ \/ UNCHANGED i_outrun
           \/ \E w \in Workers : i_outrun' = (i_outrun \/ (i_item.proc = "ready"
                                    /\ i_work[w].aclv # i_ready[i_item.version].aclv))
    BY DEF Item!Next, Item!Serve, Item!Step, Item!Deliver,
       Item!NewPolicy, Item!Join, Item!ListPending, Item!SyncKnowledgePermissions,
       Item!Crash, Item!SyncFails, Item!MarkSynced, Item!ReprocessPrivacy, Item!TryReady,
       Item!ProcessPrivacy, Item!PublishOutbox, Item!Fetch,
       Item!ApplyOrganizationMembershipEvent, Item!ReportProcessing, Item!Report
  <2>2. i_policy' \in 1..2
    BY <2>1, <1>t
  <2>3. i_told' \in BOOLEAN
    BY <2>1, <1>t
  <2>4. i_outrun' \in BOOLEAN
    BY <2>1, <1>t
  <2> QED BY <2>2, <2>3, <2>4
<1>m. /\ i_member' \subseteq Members /\ i_changes' \in 0..MaxChanges /\ ListFits'
      /\ i_core' \in [relations : SUBSET Members, aclv : 0..(MaxChanges + 1)]
  <2>1. ASSUME NEW u \in Members, Item!Join(u)
        PROVE  /\ i_member' \subseteq Members /\ i_changes' \in 0..MaxChanges
               /\ ListFits' /\ i_core' = i_core
    <3>1. i_core' = i_core /\ i_changes' = i_changes + 1 /\ i_changes < MaxChanges
      BY <2>1 DEF Item!Join
    <3>2. i_changes' \in 0..MaxChanges
      BY <1>0, <3>1
    <3>3. i_core.aclv <= i_changes + 1
      BY <1>0, <1>c DEF ListFits
    <3> QED BY <2>1, <1>t, <1>c, <3>1, <3>2, <3>3 DEF Item!Join, ListFits
  <2>2. ASSUME NEW w \in Workers, Item!SyncKnowledgePermissions(w)
        PROVE  /\ i_member' = i_member /\ i_changes' = i_changes /\ ListFits'
               /\ i_core' \in [relations : SUBSET Members, aclv : 0..(MaxChanges + 1)]
    <3>1. /\ i_member' = i_member /\ i_changes' = i_changes
          /\ i_core' = [relations |-> i_member, aclv |-> Item!ResolveACLVersion]
      BY <2>2 DEF Item!SyncKnowledgePermissions
    <3> QED BY <1>t, <3>1, Resolved DEF ListFits
  <2>3. \/ UNCHANGED <<i_member, i_core, i_changes>> \/ \E u \in Members : Item!Join(u)
        \/ \E w \in Workers : Item!SyncKnowledgePermissions(w)
    BY DEF Item!Next, Item!Serve, Item!Step, Item!Deliver, Item!NewPolicy, Item!ListPending,
       Item!Crash, Item!SyncFails, Item!MarkSynced, Item!ReprocessPrivacy, Item!TryReady,
       Item!ProcessPrivacy, Item!PublishOutbox, Item!Fetch,
       Item!ApplyOrganizationMembershipEvent, Item!ReportProcessing, Item!Report
  <2>4. CASE UNCHANGED <<i_member, i_core, i_changes>>
    BY <1>0, <1>t, <2>4 DEF ListFits
  <2> QED BY <1>0, <1>t, <2>1, <2>2, <2>3, <2>4
<1> QED
  BY <1>i, <1>y, <1>w, <1>j, <1>p, <1>m
  DEF Item!TypeOK, Item!Versions, Item!AclVersions, Item!None, Events, Jobs

\* Only what makes an event, carries it or answers it touches events and jobs.
Quiet == UNCHANGED <<i_ready, i_stream, i_job>>
LEMMA QuietSteps ==
    ASSUME Item!Next
    PROVE  \/ Quiet \/ Item!ProcessPrivacy \/ \E w \in Workers : Item!TryReady(w)
           \/ \E v \in 1..2 : Item!PublishOutbox(v) \/ Item!Fetch(v) \/ Item!Report(v)
BY DEF Quiet, Item!Next, Item!Serve, Item!Step, Item!Deliver, Item!Versions, Item!rag,
   Item!NewPolicy, Item!Join, Item!ListPending, Item!SyncKnowledgePermissions,
   Item!Crash, Item!SyncFails, Item!MarkSynced, Item!ReprocessPrivacy,
   Item!ApplyOrganizationMembershipEvent, Item!ReportProcessing

LEMMA RowFitsKept == ASSUME Item!ItemInv, Item!Next PROVE RowFits'
<1>0. /\ RowFits /\ i_item \in Item!Item /\ i_ready \in [1..2 -> Events]
      /\ i_work \in [Workers -> Item!Work] /\ i_policy \in 1..2
  BY ItemParts, ItemTypeParts
<1>p. /\ i_policy' >= i_policy /\ i_policy' \in 1..2
      /\ (Item!ProcessPrivacy \/ Item!ReprocessPrivacy => i_policy' = i_policy)
  <2>1. UNCHANGED i_policy \/ Item!NewPolicy
    BY DEF Item!Next, Item!Serve, Item!Step, Item!Deliver,
       Item!Join, Item!ListPending, Item!SyncKnowledgePermissions,
       Item!Crash, Item!SyncFails, Item!MarkSynced, Item!ReprocessPrivacy, Item!TryReady,
       Item!ProcessPrivacy, Item!PublishOutbox, Item!Fetch,
       Item!ApplyOrganizationMembershipEvent, Item!ReportProcessing, Item!Report
  <2>2. Item!NewPolicy => i_policy' >= i_policy /\ i_policy' \in 1..2
    BY <1>0 DEF Item!NewPolicy
  <2>3. Item!ProcessPrivacy \/ Item!ReprocessPrivacy => i_policy' = i_policy
    BY DEF Item!ProcessPrivacy, Item!ReprocessPrivacy
  <2> QED BY <1>0, <2>1, <2>2, <2>3
<1>1. CASE Item!ProcessPrivacy
  <2>1. PICK row \in Item!Item :
           /\ row = [i_item EXCEPT !.class = "succeeded", !.display = Item!Analyze(i_policy),
                                   !.policy = i_policy]
           /\ Item!TryMarkKnowledgeReady(row) \/ i_item' = row
    BY <1>1, Classified DEF Item!ProcessPrivacy
  <2>2. /\ row.class = "succeeded" /\ row.display = Item!Analyze(i_policy)
        /\ row.policy = i_policy /\ row.version = i_item.version
    BY <1>0, <2>1 DEF Item!Item
  <2>3. i_item.version = 1
    BY <1>0, <1>1 DEF RowFits, Item!ProcessPrivacy
  <2>4. /\ i_item'.class = row.class /\ i_item'.policy = row.policy
        /\ i_item'.display = row.display /\ i_item'.version = row.version
    BY <1>0, <2>1, Marked
  <2> QED BY <1>0, <1>1, <1>p, <2>2, <2>3, <2>4 DEF RowFits
<1>2. CASE Item!ReprocessPrivacy
  BY <1>0, <1>2, <1>p, Recounted DEF RowFits
<1>3. CASE ~Item!ProcessPrivacy /\ ~Item!ReprocessPrivacy
  <2>1. SameText /\ (i_item'.proc # i_item.proc => i_item.class = "succeeded")
    BY <1>0, <1>3, RowMoves
  <2>2. i_item.policy \in 0..2
    BY <1>0 DEF Item!Item
  <2> QED BY <1>0, <1>p, <2>1, <2>2 DEF RowFits, SameText
<1> QED BY <1>1, <1>2, <1>3

\* An event is of a version the row has had; a job that found the row has its text.
LEMMA EventFitsKept ==
    ASSUME Item!ItemInv, Item!Next, NEW v \in 1..2 PROVE EventFits(v)'
<1>0. /\ RowFits /\ EventFits(v) /\ i_item \in Item!Item /\ i_ready \in [1..2 -> Events]
      /\ i_work \in [Workers -> Item!Work] /\ i_policy \in 1..2 /\ i_job \in [1..2 -> Jobs]
      /\ i_item.version \in 1..2
  BY ItemParts, ItemTypeParts DEF Item!Item, Item!Versions
<1> USE DEF EventFits, Item!Shows
<1>1. CASE Item!ProcessPrivacy
  <2>1. PICK row \in Item!Item :
           /\ row = [i_item EXCEPT !.class = "succeeded", !.display = Item!Analyze(i_policy),
                                   !.policy = i_policy]
           /\ Item!TryMarkKnowledgeReady(row) \/ (i_item' = row /\ UNCHANGED i_ready)
    BY <1>1, Classified DEF Item!ProcessPrivacy
  <2>2. row.class = "succeeded" /\ row.version = i_item.version
    BY <1>0, <2>1 DEF Item!Item
  <2>3. i_item.class = "pending" /\ i_stream' = i_stream /\ i_job' = i_job
    BY <1>1 DEF Item!ProcessPrivacy, Item!rag
  <2>4. i_job[v].status = "none" /\ v \notin i_stream
    BY <1>0, <2>3
  <2>5. /\ i_item'.class = "succeeded" /\ i_item'.version = i_item.version
        /\ i_ready'[v].status # "none" => i_ready[v].status # "none" \/ v = i_item.version
    BY <1>0, <2>1, <2>2, Marked
  <2> QED BY <1>0, <2>3, <2>4, <2>5
<1>2. CASE Item!ReprocessPrivacy
  <2>1. /\ UNCHANGED <<i_ready, i_stream, i_job>> /\ i_item.class = "succeeded"
        /\ i_item'.class = "succeeded" /\ i_item'.version = 2 /\ i_item.version = 1
    BY <1>2, Recounted DEF Item!ReprocessPrivacy, Item!rag
  <2> QED BY <1>0, <2>1
<1>3. CASE ~Item!ProcessPrivacy /\ ~Item!ReprocessPrivacy
  <2>t. SameText
    BY <1>0, <1>3, RowMoves
  <2>1. CASE Quiet
    BY <1>0, <2>t, <2>1 DEF SameText, Quiet
  <2>2. ASSUME NEW w \in Workers, Item!TryReady(w) PROVE EventFits(v)'
    <3>1. UNCHANGED <<i_stream, i_job>> /\ Item!TryMarkKnowledgeReady(i_item)
      BY <2>2 DEF Item!TryReady, Item!rag
    <3>2. /\ i_ready'[v].status # "none" =>
                i_ready[v].status # "none" \/ (v = i_item.version /\ i_item.class = "succeeded")
          /\ i_ready[v].status # "none" => i_ready'[v].status # "none"
      BY <1>0, <3>1, Marked
    <3> QED BY <1>0, <2>t, <3>1, <3>2 DEF SameText
  <2>3. ASSUME NEW k \in 1..2, Item!PublishOutbox(k) PROVE EventFits(v)'
    <3>1. /\ i_ready[k].status = "pending" /\ UNCHANGED i_job
          /\ i_stream \subseteq i_stream' /\ i_stream' \subseteq i_stream \cup {k}
          /\ i_ready' = i_ready \/ i_ready' = [i_ready EXCEPT ![k].status = "published"]
      BY <2>3 DEF Item!PublishOutbox
    <3>2. /\ i_ready'[v].status # "none" <=> i_ready[v].status # "none"
          /\ v \in i_stream' => v \in i_stream \/ i_ready[v].status # "none"
      BY <1>0, <3>1 DEF Events
    <3> QED BY <1>0, <2>t, <3>1, <3>2 DEF SameText
  <2>4. ASSUME NEW k \in 1..2, Item!Fetch(k) PROVE EventFits(v)'
    <3>1. k \in i_stream /\ UNCHANGED <<i_ready, i_stream>>
      BY <2>4 DEF Item!Fetch
    <3>2. v # k => i_job'[v] = i_job[v]
      BY <1>0, <2>4 DEF Item!Fetch
    <3>3. v = k /\ i_job'[v].status = "indexed" => i_job'[v].text = i_item.display
      BY <1>0, <2>4 DEF Item!Fetch
    <3> QED BY <1>0, <2>t, <3>1, <3>2, <3>3 DEF SameText
  <2>5. ASSUME NEW k \in 1..2, Item!Report(k) PROVE EventFits(v)'
    <3>1. /\ UNCHANGED <<i_ready, i_stream>> /\ i_job[k].status # "none"
          /\ i_job' = [i_job EXCEPT ![k].status = "reported"]
      BY <2>5 DEF Item!Report
    <3>2. /\ v # k => i_job'[v] = i_job[v]
          /\ v = k => i_job'[v].status = "reported"
      BY <1>0, <3>1 DEF Jobs
    <3> QED BY <1>0, <2>t, <3>1, <3>2 DEF SameText
  <2> QED BY <1>3, <2>1, <2>2, <2>3, <2>4, <2>5, QuietSteps
<1> QED BY <1>1, <1>2, <1>3

\* What is searchable was reported by the job of the present version.
LEMMA FoundFitsKept == ASSUME Item!ItemInv, Item!Next PROVE FoundFits'
<1>0. /\ RowFits /\ FoundFits /\ i_item \in Item!Item /\ i_ready \in [1..2 -> Events]
      /\ i_work \in [Workers -> Item!Work] /\ i_policy \in 1..2 /\ i_job \in [1..2 -> Jobs]
      /\ i_item.version \in 1..2 /\ \A v \in 1..2 : EventFits(v)
  BY ItemParts, ItemTypeParts DEF Item!Item, Item!Versions
<1> USE DEF FoundFits, Item!Shows
<1>1. CASE Item!ProcessPrivacy
  <2>1. PICK row \in Item!Item :
           /\ row = [i_item EXCEPT !.class = "succeeded", !.display = Item!Analyze(i_policy),
                                   !.policy = i_policy]
           /\ Item!TryMarkKnowledgeReady(row) \/ i_item' = row
    BY <1>1, Classified DEF Item!ProcessPrivacy
  <2>2. row.rag = i_item.rag
    BY <1>0, <2>1 DEF Item!Item
  <2>3. i_item'.rag = i_item.rag
    BY <1>0, <2>1, <2>2, Marked
  <2>4. i_item.class = "pending"
    BY <1>1 DEF Item!ProcessPrivacy
  <2> QED BY <1>0, <2>3, <2>4 DEF EventFits
<1>2. CASE Item!ReprocessPrivacy
  BY <1>2, Recounted
<1>3. CASE ~Item!ProcessPrivacy /\ ~Item!ReprocessPrivacy
  <2>t. SameText
    BY <1>0, <1>3, RowMoves
  <2>1. ASSUME NEW k \in 1..2, Item!ReportProcessing(k) PROVE FoundFits'
    <3>1. i_item' = Item!Applied(k, "processing") /\ UNCHANGED i_job
      BY <2>1 DEF Item!ReportProcessing, Item!rag
    <3>2. SameAnswer \/ i_item'.rag = "processing"
      BY <1>0, <3>1, Reported
    <3> QED BY <1>0, <2>t, <3>1, <3>2 DEF SameText, SameAnswer
  <2>2. ASSUME NEW k \in 1..2, Item!Report(k) PROVE FoundFits'
    <3>1. PICK s \in {"ready", "failed"} :
             /\ i_item' = Item!Applied(k, s) /\ (s = "ready" <=> i_job[k].status = "indexed")
             /\ i_job[k].status # "none" /\ i_job' = [i_job EXCEPT ![k].status = "reported"]
      BY <2>2 DEF Item!Report
    <3>2. \/ SameAnswer
          \/ i_item'.rag = s /\ i_item'.ragv = k /\ k >= i_item.version
      BY <1>0, <3>1, Reported
    <3>3. \A j \in 1..2 : /\ i_job'[j].text = i_job[j].text
                          /\ i_job[j].status # "none" => i_job'[j].status # "none"
      BY <1>0, <3>1 DEF Jobs
    <3>4. CASE SameAnswer
      BY <1>0, <2>t, <3>3, <3>4 DEF SameText, SameAnswer
    <3>5. CASE i_item'.rag = "ready" /\ s = "ready" /\ i_item'.ragv = k /\ k >= i_item.version
      <4>1. k = i_item.version /\ i_job[k].text = i_item.display
        BY <1>0, <3>1, <3>5 DEF EventFits
      <4> QED BY <1>0, <2>t, <3>1, <3>3, <3>5, <4>1 DEF SameText
    <3> QED BY <3>2, <3>4, <3>5
  <2>3. CASE \A k \in 1..2 : ~Item!ReportProcessing(k) /\ ~Item!Report(k)
    <3>1. SameAnswer
      BY <1>0, <1>3, <2>3, RowMoves
    <3>2. i_item.rag = "ready" => i_job'[i_item.ragv] = i_job[i_item.ragv]
      <4>1. UNCHANGED i_job \/ \E k \in 1..2 : Item!Fetch(k)
        BY <1>3, <2>3, QuietSteps DEF Quiet, Item!TryReady, Item!rag, Item!PublishOutbox
      <4>2. ASSUME NEW k \in 1..2, Item!Fetch(k), i_item.rag = "ready"
            PROVE  i_job'[i_item.ragv] = i_job[i_item.ragv]
        <5>1. i_item.ragv \in 1..2 /\ i_job[i_item.ragv].status # "none"
          BY <1>0, <4>2
        <5>2. i_job[k].status = "none"
          BY <4>2 DEF Item!Fetch, Item!None
        <5> QED BY <1>0, <4>2, <5>1, <5>2 DEF Item!Fetch
      <4> QED BY <4>1, <4>2
    <3> QED BY <1>0, <2>t, <3>1, <3>2 DEF SameText, SameAnswer
  <2> QED BY <2>1, <2>2, <2>3
<1> QED BY <1>1, <1>2, <1>3

LEMMA ItemStep == ASSUME Item!ItemInv, Item!Next PROVE Item!ItemInv'
BY ItemTypes, RowFitsKept, EventFitsKept, FoundFitsKept
DEF Item!ItemInv, RowFits, ListFits, EventFits, FoundFits, Item!Versions, Item!None

LEMMA ItemStart == ASSUME Item!Init PROVE Item!ItemInv
<1>1. MaxChanges \in Nat
  BY KnowledgeAssumption
<1>2. /\ i_item \in Item!Item /\ i_ready \in [1..2 -> Events] /\ i_job \in [1..2 -> Jobs]
      /\ i_core \in [relations : SUBSET Members, aclv : 0..(MaxChanges + 1)]
      /\ i_work \in [Workers -> Item!Work]
  BY <1>1 DEF Item!Init, Item!Item, Item!Versions, Item!AclVersions, Events, Jobs, Item!None,
              Item!Rest, Item!Work
<1>3. Item!TypeOK
  <2>1. i_policy \in 1..2 /\ i_member \subseteq Members /\ i_stream \subseteq 1..2
    BY DEF Item!Init
  <2>2. i_told \in BOOLEAN /\ i_outrun \in BOOLEAN
    BY DEF Item!Init
  <2> QED BY <1>2, <2>1, <2>2, ItemTypeParts
<1> QED
  BY <1>1, <1>3, ItemParts
  DEF Item!Init, RowFits, ListFits, EventFits, FoundFits, Item!Versions, Item!None, Item!Shows

LEMMA ItemEnds == ASSUME Item!ItemInv PROVE Item!TypeOK /\ Item!SearchShowsTheMask
BY DEF Item!ItemInv, Item!SearchShowsTheMask, Item!Shows

-----------------------------------------------------------------------------
(* Collecting.  What a poll has passed is kept unless the start is moved      *)
(* meanwhile, and what is stored stays but for what is noted as spoilt, so a  *)
(* cursor may be set to the end of the poll whoever else has moved it.        *)

Polls == [pc : {"idle", "listed", "ingest", "attach", "complete", "advance"},
          c : Collectors \cup {"none"}, cursor : 0..N, upto : 0..N, todo : SUBSET (1..N),
          m : 0..N, moved : BOOLEAN]
Conversations == [type : {"private", "group"}, status : {"active", "paused"},
                  reason : {"none", "no_available_collector"}, start : 1..N]
CollectorRows == [status : {"absent", "active", "paused", "removed"}, cursor : 0..N]
Contents == {"none", "pending", "ready", "failed"}

LEMMA CollectTypeParts ==
    Collect!TypeOK <=>
       /\ c_newest \in 0..N /\ c_old \in 0..c_newest /\ c_edited \subseteq c_msgs
       /\ c_conv \in Conversations /\ c_coll \in [Collectors -> CollectorRows]
       /\ c_msgs \subseteq 1..N /\ c_cache \subseteq c_msgs /\ c_object \subseteq Attached
       /\ c_att \in [Attached -> Contents] /\ c_lock \in Workers \cup {"none"}
       /\ c_poll \in [Workers -> Polls] /\ c_spoilt \subseteq Attached
       /\ c_straddled \in BOOLEAN /\ c_dropped \subseteq 1..N /\ c_unwoken \in BOOLEAN
BY DEF Collect!TypeOK, Collect!Poll, Collect!Messages, Collect!None, Polls, Conversations,
   CollectorRows, Contents

Held == \A a \in Attached : c_att[a] = "ready" => a \in c_object \cup c_spoilt

LEMMA CollectParts ==
    Collect!CollectInv <=> /\ Collect!TypeOK /\ Collect!CursorCovers /\ Collect!WaitsForNobody
                           /\ Held
                           /\ \A p \in Workers : Collect!InHand(p) /\ Collect!Passed(p)
BY DEF Collect!CollectInv, Held

LEMMA PollOf ==
    ASSUME Collect!CollectInv, NEW p \in Workers
    PROVE  /\ c_poll[p] \in Polls /\ c_poll \in [Workers -> Polls] /\ Collect!Rest \in Polls
           /\ c_poll[p].todo \subseteq 1..N /\ c_poll[p].upto \in 0..N
           /\ c_poll[p].cursor \in 0..N /\ c_poll[p].m \in 0..N /\ c_poll[p].moved \in BOOLEAN
<1>1. c_poll \in [Workers -> Polls] /\ N \in Nat
  BY CollectParts, CollectTypeParts, KnowledgeAssumption
<1>2. Collect!Rest \in Polls
  BY <1>1 DEF Collect!Rest, Collect!None, Polls
<1> QED BY <1>1, <1>2 DEF Polls

\* The message an ingest takes is one that is still to do.
LEMMA FirstToDo ==
    ASSUME Collect!CollectInv, NEW p \in Workers, c_poll[p].pc = "ingest"
    PROVE  (CHOOSE x \in c_poll[p].todo : \A y \in c_poll[p].todo : x <= y) \in c_poll[p].todo
<1>1. c_poll[p].todo # {} /\ c_poll[p].todo \in SUBSET Nat
  BY CollectParts, PollOf DEF Collect!InHand
<1> HIDE DEF Collect!CollectInv
<1> QED BY <1>1, Least

LEMMA HeldNow ==
    ASSUME Collect!CollectInv, NEW p \in Workers
    PROVE  /\ c_poll[p].pc \in {"attach", "complete"} => c_poll[p].m \in Attached \cap c_msgs
           /\ c_poll[p].pc = "complete" => c_poll[p].m \in c_object \cup c_spoilt
           /\ c_poll[p].pc = "ingest" => c_poll[p].todo # {}
           /\ c_poll[p].pc = "advance" => c_poll[p].todo = {}
           /\ c_poll[p].pc # "idle" => c_poll[p].c \in Collectors
           /\ c_poll[p].pc = "idle" => ~c_poll[p].moved
BY CollectParts DEF Collect!InHand

-----------------------------------------------------------------------------
\* What is stored stays, but for what is noted as spoilt.
RowTypes ==
    /\ c_msgs \subseteq 1..N /\ c_cache \subseteq c_msgs /\ c_object \subseteq Attached
    /\ c_att \in [Attached -> Contents] /\ c_spoilt \subseteq Attached

IngestRows(m) ==
    /\ c_msgs' = c_msgs \cup {m} /\ c_cache' = c_cache \cup {m}
    /\ c_att' = [a \in Attached |-> IF a = m /\ c_att[a] = "none" THEN "pending" ELSE c_att[a]]
    /\ c_object' = c_object /\ c_spoilt' = c_spoilt

LEMMA IngestMakes ==
    ASSUME Collect!CollectInv, NEW p \in Workers, Collect!IngestMessage(p)
    PROVE  \/ UNCHANGED <<c_msgs, c_att, c_object, c_cache, c_spoilt>>
           \/ \E m \in c_poll[p].todo : IngestRows(m)
<1> DEFINE m == CHOOSE x \in c_poll[p].todo : \A y \in c_poll[p].todo : x <= y
<1>1. m \in c_poll[p].todo
  BY FirstToDo DEF Collect!IngestMessage
<1>2. UNCHANGED <<c_msgs, c_att, c_object, c_cache, c_spoilt>> \/ IngestRows(m)
  BY DEF Collect!IngestMessage, IngestRows, Collect!rows, Collect!history, Collect!None
<1> HIDE DEF m
<1> QED BY <1>1, <1>2

StillThere == /\ c_msgs \subseteq c_msgs' /\ \A m \in 1..N : Collect!Kept(m) => Collect!Kept(m)'

LEMMA RowSteps ==
    ASSUME Collect!Next
    PROVE  \/ UNCHANGED <<c_msgs, c_att, c_object, c_cache, c_spoilt>>
           \/ \E p \in Workers : \/ Collect!IngestMessage(p) \/ Collect!Download(p)
                                 \/ Collect!DownloadFails(p) \/ Collect!CompleteAttachment(p)
                                 \/ Collect!CompleteFails(p)
BY DEF Collect!Next, Collect!Step, Collect!rows, Collect!history, Collect!Arrive, Collect!GrowOld,
   Collect!LockExpires, Collect!Edit, Collect!Crash, Collect!RemoveCollector,
   Collect!AddCollector, Collect!SetCollectorPaused, Collect!PauseResume,
   Collect!UpdateConversationStart, Collect!Tick, Collect!PollMessages, Collect!IngestCached,
   Collect!AdvanceCursor

LEMMA RowsKept ==
    ASSUME Collect!CollectInv, Collect!Next
    PROVE  /\ RowTypes' /\ Held' /\ StillThere
           /\ \A q \in Workers : c_poll'[q] = c_poll[q] /\ c_poll[q].pc = "complete" =>
                                    c_poll[q].m \in (c_object \cup c_spoilt)'
<1> DEFINE Others == \A q \in Workers : c_poll'[q] = c_poll[q] /\ c_poll[q].pc = "complete" =>
                                           c_poll[q].m \in (c_object \cup c_spoilt)'
<1>0. RowTypes /\ Held /\ c_poll \in [Workers -> Polls]
  BY CollectParts, CollectTypeParts DEF RowTypes
<1>1. CASE UNCHANGED <<c_msgs, c_att, c_object, c_cache, c_spoilt>>
  BY <1>0, <1>1, HeldNow DEF RowTypes, Held, StillThere, Collect!Kept
<1>2. ASSUME NEW p \in Workers, NEW m \in c_poll[p].todo, IngestRows(m)
      PROVE  RowTypes' /\ Held' /\ StillThere /\ Others
  <2>1. m \in 1..N
    BY PollOf
  <2>2. c_att' \in [Attached -> Contents]
    BY <1>0, <1>2 DEF RowTypes, IngestRows, Contents
  <2>3. \A a \in Attached : c_att'[a] = "ready" <=> c_att[a] = "ready"
    BY <1>0, <1>2 DEF RowTypes, IngestRows
  <2>4. RowTypes'
    BY <1>0, <1>2, <2>1, <2>2 DEF RowTypes, IngestRows
  <2>5. Held' /\ StillThere
    BY <1>0, <1>2, <2>3 DEF Held, StillThere, IngestRows, Collect!Kept
  <2> QED BY <1>2, <2>4, <2>5, HeldNow DEF IngestRows
<1>3. ASSUME NEW p \in Workers, Collect!Download(p)
      PROVE  RowTypes' /\ Held' /\ StillThere /\ Others
  <2>1. /\ c_poll[p].m \in Attached /\ c_object' = c_object \cup {c_poll[p].m}
        /\ UNCHANGED <<c_msgs, c_att, c_cache, c_spoilt>>
    BY <1>3, HeldNow DEF Collect!Download, Collect!history
  <2> QED BY <1>0, <2>1, HeldNow DEF RowTypes, Held, StillThere, Collect!Kept
<1>4. ASSUME NEW p \in Workers, Collect!DownloadFails(p)
      PROVE  RowTypes' /\ Held' /\ StillThere /\ Others
  <2> DEFINE m == c_poll[p].m
  <2>1. /\ m \in Attached /\ c_att' = [c_att EXCEPT ![m] = "failed"]
        /\ c_spoilt' = c_spoilt \cup {a \in {m} : c_att[a] = "ready"}
        /\ UNCHANGED <<c_msgs, c_object, c_cache>>
    BY <1>4, HeldNow DEF Collect!DownloadFails
  <2> HIDE DEF m
  <2>2. /\ c_att'[m] = "failed" /\ \A a \in Attached \ {m} : c_att'[a] = c_att[a]
        /\ c_att' \in [Attached -> Contents]
    BY <1>0, <2>1 DEF RowTypes, Contents
  <2>3. c_spoilt \subseteq c_spoilt' /\ (c_att[m] = "ready" => m \in c_spoilt')
        /\ c_spoilt' \subseteq Attached
    BY <1>0, <2>1 DEF RowTypes
  <2> QED BY <1>0, <2>1, <2>2, <2>3, HeldNow DEF RowTypes, Held, StillThere, Collect!Kept
<1>5. ASSUME NEW p \in Workers, Collect!CompleteAttachment(p)
      PROVE  RowTypes' /\ Held' /\ StillThere /\ Others
  <2> DEFINE m == c_poll[p].m
  <2>1. /\ m \in Attached /\ m \in c_object \cup c_spoilt
        /\ c_att' = [c_att EXCEPT ![m] = "ready"]
        /\ UNCHANGED <<c_msgs, c_object, c_cache, c_spoilt>>
    BY <1>5, HeldNow DEF Collect!CompleteAttachment, Collect!history
  <2> HIDE DEF m
  <2>2. /\ c_att'[m] = "ready" /\ \A a \in Attached \ {m} : c_att'[a] = c_att[a]
        /\ c_att' \in [Attached -> Contents]
    BY <1>0, <2>1 DEF RowTypes, Contents
  <2> QED BY <1>0, <2>1, <2>2, HeldNow DEF RowTypes, Held, StillThere, Collect!Kept
<1>6. ASSUME NEW p \in Workers, Collect!CompleteFails(p)
      PROVE  RowTypes' /\ Held' /\ StillThere /\ Others
  <2> DEFINE m == c_poll[p].m
             Taken(a) == \/ c_att'[a] = "ready"
                         \/ \E q \in Workers \ {p} : c_poll[q].pc = "complete" /\ c_poll[q].m = a
             T == {a \in {m} : Taken(a)}
  <2>1. /\ m \in Attached
        /\ c_att' = c_att \/ c_att' = [c_att EXCEPT ![m] = "ready"]
        /\ c_object' = c_object \ {m} /\ UNCHANGED <<c_msgs, c_cache>>
        /\ c_spoilt' = c_spoilt \cup T
        /\ c_poll[p].pc = "complete" /\ c_poll' = [c_poll EXCEPT ![p] = Collect!Rest]
    BY <1>6, HeldNow DEF Collect!CompleteFails, Collect!Leave
  <2>2. c_poll'[p].pc # "complete"
    BY <1>0, <2>1 DEF Collect!Rest
  <2>3. ASSUME NEW q \in Workers, c_poll'[q] = c_poll[q], c_poll[q].pc = "complete",
               c_poll[q].m = m
        PROVE  Taken(m)
    BY <2>1, <2>2, <2>3
  <2>4. c_att'[m] = "ready" => Taken(m)
    OBVIOUS
  <2>t. T \subseteq {m} /\ (Taken(m) => m \in T)
    OBVIOUS
  <2> HIDE DEF Taken, T
  <2>5. /\ c_spoilt \subseteq c_spoilt' /\ c_spoilt' \subseteq Attached
        /\ Taken(m) => m \in c_spoilt'
    BY <1>0, <2>1, <2>t DEF RowTypes
  <2>6. Others
    BY <2>1, <2>3, <2>5, HeldNow
  <2> HIDE DEF m, Others
  <2>7. /\ \A a \in Attached \ {m} : c_att'[a] = c_att[a]
        /\ c_att[m] = "ready" => c_att'[m] = "ready"
        /\ c_att' \in [Attached -> Contents]
    BY <1>0, <2>1 DEF RowTypes, Contents
  <2> QED
    BY <1>0, <2>1, <2>4, <2>5, <2>6, <2>7 DEF RowTypes, Held, StillThere, Collect!Kept
<1>7. ASSUME NEW p \in Workers, Collect!IngestMessage(p)
      PROVE  RowTypes' /\ Held' /\ StillThere /\ Others
  BY <1>1, <1>2, <1>7, IngestMakes
<1> QED BY <1>1, <1>3, <1>4, <1>5, <1>6, <1>7, RowSteps

-----------------------------------------------------------------------------
\* The polls.
Fine(p) == Collect!InHand(p) /\ Collect!Passed(p)
OnlyOf(p) ==
    c_poll' \in [Workers -> Polls] /\ \A q \in Workers \ {p} : c_poll'[q] = c_poll[q]
Same ==
    /\ c_conv'.start = c_conv.start /\ (c_straddled => c_straddled')
    /\ c_dropped \subseteq c_dropped'

\* What a poll has passed over stays noted.
LEMMA DropsGrow ==
    ASSUME Collect!Next
    PROVE  \/ c_dropped' = c_dropped
           \/ \E p \in Workers :
                 c_dropped' = c_dropped \cup Collect!TooOld(c_conv.start, c_poll[p].cursor)
BY DEF Collect!Next, Collect!Step, Collect!Arrive, Collect!GrowOld, Collect!history,
   Collect!LockExpires, Collect!Edit, Collect!Crash, Collect!RemoveCollector,
   Collect!AddCollector, Collect!SetCollectorPaused, Collect!PauseResume,
   Collect!UpdateConversationStart, Collect!Tick, Collect!PollMessages, Collect!IngestCached,
   Collect!AdvanceCursor, Collect!IngestMessage, Collect!Download, Collect!DownloadFails,
   Collect!CompleteAttachment, Collect!CompleteFails

LEMMA Becomes ==
    ASSUME Collect!CollectInv, NEW p \in Workers, NEW r \in Polls,
           c_poll' = [c_poll EXCEPT ![p] = r]
    PROVE  c_poll'[p] = r /\ OnlyOf(p)
BY PollOf DEF OnlyOf

LEMMA Leaves ==
    ASSUME Collect!CollectInv, NEW p \in Workers, c_poll' = [c_poll EXCEPT ![p] = Collect!Rest]
    PROVE  OnlyOf(p) /\ Fine(p)'
<1>1. c_poll'[p] = Collect!Rest /\ OnlyOf(p)
  BY Becomes, PollOf
<1>2. Collect!Rest.pc = "idle" /\ Collect!Rest.moved = FALSE
  BY DEF Collect!Rest
<1> QED BY <1>1, <1>2 DEF Fine, Collect!InHand, Collect!Passed

\* A poll that gets on with its work and keeps what it owes.
GetsOn(p) ==
    /\ c_poll[p].pc \notin {"idle", "listed"} /\ c_poll'[p].pc \notin {"idle", "listed"}
    /\ c_poll'[p].upto = c_poll[p].upto /\ c_poll'[p].moved = c_poll[p].moved
    /\ \A k \in c_poll[p].todo : k \in c_poll'[p].todo \/ Collect!Kept(k)'
LEMMA PassedOn ==
    ASSUME Collect!CollectInv, NEW p \in Workers, StillThere, Same, GetsOn(p)
    PROVE  Collect!Passed(p)'
<1>1. Collect!Passed(p) /\ c_poll[p].todo \subseteq 1..N
  BY CollectParts, PollOf
<1> QED BY <1>1 DEF StillThere, Same, GetsOn, Collect!Passed, Collect!Messages

LEMMA NextMessage ==
    ASSUME Collect!CollectInv, NEW p \in Workers, NEW m \in 1..N, Collect!After(p, m),
           c_poll[p].pc \notin {"idle", "listed"}, StillThere, Same, Collect!Kept(m)'
    PROVE  OnlyOf(p) /\ Fine(p)'
<1> DEFINE rest == c_poll[p].todo \ {m}
           r == [c_poll[p] EXCEPT !.pc = Collect!Next1(rest), !.todo = rest, !.m = 0]
<1>0. c_poll[p] \in Polls /\ rest \in SUBSET (1..N) /\ 0 \in 0..N /\ c_poll \in [Workers -> Polls]
  BY PollOf, KnowledgeAssumption
<1>1. Collect!Next1(rest) \in {"ingest", "advance"} /\ (Collect!Next1(rest) = "advance" <=> rest = {})
  BY DEF Collect!Next1
<1>2. c_poll' = [c_poll EXCEPT ![p] = r]
  BY <1>0 DEF Collect!After
<1> HIDE DEF rest
<1>3. r \in Polls
  BY <1>0, <1>1 DEF Polls
<1>4. /\ r.pc = Collect!Next1(rest) /\ r.todo = rest /\ r.upto = c_poll[p].upto
      /\ r.c = c_poll[p].c /\ r.moved = c_poll[p].moved
  BY <1>0 DEF Polls
<1> HIDE DEF r
<1>5. c_poll'[p] = r /\ OnlyOf(p)
  BY <1>2, <1>3, Becomes
<1>6. GetsOn(p)
  BY <1>1, <1>4, <1>5 DEF GetsOn, rest
<1>7. c_poll[p].c \in Collectors
  BY HeldNow
<1> QED BY <1>1, <1>4, <1>5, <1>6, <1>7, PassedOn DEF Fine, Collect!InHand

LEMMA TickFine ==
    ASSUME Collect!CollectInv, NEW p \in Workers, Collect!Tick(p), StillThere
    PROVE  OnlyOf(p) /\ Fine(p)'
<1>1. PICK c \in Collectors :
         c_poll' = [c_poll EXCEPT ![p] = [Collect!Rest EXCEPT !.pc = "listed", !.c = c,
                                                              !.cursor = c_coll[c].cursor]]
  BY DEF Collect!Tick
<1> DEFINE r == [Collect!Rest EXCEPT !.pc = "listed", !.c = c, !.cursor = c_coll[c].cursor]
<1>2. c_coll[c].cursor \in 0..N /\ Collect!CursorCovers /\ c_straddled \in BOOLEAN
  BY CollectParts, CollectTypeParts DEF CollectorRows
<1>3. r \in Polls
  BY <1>2, PollOf DEF Polls
<1>4. r.pc = "listed" /\ r.c = c /\ r.cursor = c_coll[c].cursor
  BY DEF Collect!Rest
<1> HIDE DEF r
<1>5. c_poll'[p] = r /\ OnlyOf(p)
  BY <1>1, <1>3, Becomes DEF r
<1>6. c_straddled' = c_straddled /\ c_conv' = c_conv /\ c_dropped' = c_dropped
  BY DEF Collect!Tick, Collect!history
<1>7. Collect!Passed(p)'
  BY <1>2, <1>4, <1>5, <1>6 DEF StillThere, Collect!Passed, Collect!CursorCovers, Collect!Messages
<1> QED BY <1>4, <1>5, <1>7 DEF Fine, Collect!InHand

LEMMA PollFine ==
    ASSUME Collect!CollectInv, NEW p \in Workers, Collect!PollMessages(p), StillThere
    PROVE  OnlyOf(p) /\ Fine(p)'
<1>0. /\ c_poll[p] \in Polls /\ c_poll \in [Workers -> Polls] /\ c_newest \in 0..N
      /\ c_conv.start \in 1..N /\ Overlap \in Nat /\ N \in Nat /\ Collect!Passed(p)
      /\ c_poll[p].cursor \in 0..N /\ c_poll[p].c \in Collectors /\ c_poll[p].pc = "listed"
      /\ c_old \in 0..c_newest
  BY PollOf, HeldNow, CollectParts, CollectTypeParts, KnowledgeAssumption
  DEF Conversations, Collect!PollMessages
<1>s. c_straddled' = c_straddled /\ c_conv' = c_conv
  BY DEF Collect!PollMessages, Collect!history
<1>1. CASE c_conv.status # "active"
  BY <1>1, Leaves DEF Collect!PollMessages, Collect!Leave
<1>2. CASE c_conv.status = "active"
  <2> DEFINE todo == Collect!Window(c_conv.start, c_poll[p].cursor)
             r == [c_poll[p] EXCEPT !.pc = Collect!Next1(todo), !.upto = c_newest, !.todo = todo]
  <2>1. c_poll' = [c_poll EXCEPT ![p] = r]
    BY <1>0, <1>2 DEF Collect!PollMessages
  <2>2. /\ todo \in SUBSET (1..N)
        /\ \A k \in 1..N : c_conv.start <= k /\ k <= c_newest =>
              k \in todo \/ k <= c_poll[p].cursor \/ k \in c_dropped'
    <3>1. c_dropped' = c_dropped \cup Collect!TooOld(c_conv.start, c_poll[p].cursor)
      BY <1>0, <1>2 DEF Collect!PollMessages
    <3> QED BY <1>0, <3>1 DEF Collect!Window, Collect!TooOld
  <2>d. c_dropped \subseteq c_dropped'
    BY <1>0, <1>2 DEF Collect!PollMessages
  <2> HIDE DEF todo
  <2>3. Collect!Next1(todo) \in {"ingest", "advance"} /\ (Collect!Next1(todo) = "advance" <=> todo = {})
    BY DEF Collect!Next1
  <2>4. r \in Polls
    BY <1>0, <2>2, <2>3 DEF Polls
  <2>5. /\ r.pc = Collect!Next1(todo) /\ r.todo = todo /\ r.upto = c_newest
        /\ r.c = c_poll[p].c /\ r.moved = c_poll[p].moved
    BY <1>0 DEF Polls
  <2> HIDE DEF r
  <2>6. c_poll'[p] = r /\ OnlyOf(p)
    BY <2>1, <2>4, Becomes
  <2>7. Collect!Passed(p)'
    BY <1>0, <1>s, <2>2, <2>3, <2>5, <2>6, <2>d DEF StillThere, Collect!Passed, Collect!Messages
  <2> QED BY <1>0, <2>3, <2>5, <2>6, <2>7 DEF Fine, Collect!InHand
<1> QED BY <1>1, <1>2

\* One field of a poll changes.
LEMMA AttachFine ==
    ASSUME Collect!CollectInv, NEW p \in Workers, NEW m \in Attached, m \in c_msgs',
           c_poll[p].pc = "ingest", StillThere, Same,
           c_poll' = [c_poll EXCEPT ![p].pc = "attach", ![p].m = m]
    PROVE  OnlyOf(p) /\ Fine(p)'
<1> DEFINE r == [c_poll[p] EXCEPT !.pc = "attach", !.m = m]
<1>0. c_poll[p] \in Polls /\ c_poll \in [Workers -> Polls] /\ m \in 0..N /\ c_poll[p].c \in Collectors
  BY PollOf, HeldNow, KnowledgeAssumption
<1>1. c_poll' = [c_poll EXCEPT ![p] = r] /\ r \in Polls
  BY <1>0 DEF Polls
<1>2. /\ r.pc = "attach" /\ r.m = m /\ r.todo = c_poll[p].todo /\ r.upto = c_poll[p].upto
      /\ r.c = c_poll[p].c /\ r.moved = c_poll[p].moved
  BY <1>0 DEF Polls
<1> HIDE DEF r
<1>3. c_poll'[p] = r /\ OnlyOf(p)
  BY <1>1, Becomes
<1>4. GetsOn(p)
  BY <1>2, <1>3 DEF GetsOn
<1> QED BY <1>0, <1>2, <1>3, <1>4, PassedOn DEF Fine, Collect!InHand

LEMMA DownloadFine ==
    ASSUME Collect!CollectInv, NEW p \in Workers, Collect!Download(p), StillThere
    PROVE  OnlyOf(p) /\ Fine(p)'
<1> DEFINE r == [c_poll[p] EXCEPT !.pc = "complete"]
<1>0. /\ c_poll[p] \in Polls /\ c_poll \in [Workers -> Polls] /\ c_poll[p].c \in Collectors
      /\ c_poll[p].pc = "attach" /\ c_poll[p].m \in Attached \cap c_msgs
  BY PollOf, HeldNow DEF Collect!Download
<1>1. c_poll' = [c_poll EXCEPT ![p] = r] /\ r \in Polls
  BY <1>0 DEF Polls, Collect!Download
<1>2. /\ r.pc = "complete" /\ r.m = c_poll[p].m /\ r.todo = c_poll[p].todo
      /\ r.upto = c_poll[p].upto /\ r.c = c_poll[p].c /\ r.moved = c_poll[p].moved
  BY <1>0 DEF Polls
<1> HIDE DEF r
<1>3. c_poll'[p] = r /\ OnlyOf(p)
  BY <1>1, Becomes
<1>4. GetsOn(p)
  BY <1>0, <1>2, <1>3 DEF GetsOn
<1>5. Same /\ c_msgs' = c_msgs /\ c_object' = c_object \cup {c_poll[p].m}
  BY DEF Same, Collect!Download, Collect!history
<1> QED BY <1>0, <1>2, <1>3, <1>4, <1>5, PassedOn DEF Fine, Collect!InHand

LEMMA IngestFine ==
    ASSUME Collect!CollectInv, NEW p \in Workers, Collect!IngestCached(p) \/ Collect!IngestMessage(p),
           StillThere
    PROVE  OnlyOf(p) /\ Fine(p)'
<1>m. PICK m \in c_poll[p].todo :
             m = CHOOSE x \in c_poll[p].todo : \A y \in c_poll[p].todo : x <= y
  BY FirstToDo DEF Collect!IngestCached, Collect!IngestMessage
<1>0. /\ m \in c_poll[p].todo /\ c_poll[p].todo \subseteq 1..N /\ c_poll[p].pc = "ingest"
      /\ c_cache \subseteq c_msgs /\ Held /\ c_poll \in [Workers -> Polls]
      /\ c_att \in [Attached -> Contents]
  BY PollOf, CollectParts, CollectTypeParts DEF Collect!IngestCached, Collect!IngestMessage
<1>s. Same
  BY DEF Same, Collect!IngestCached, Collect!IngestMessage, Collect!history
<1>1. CASE Collect!IngestCached(p)
  <2>1. m \in c_msgs /\ c_msgs' = c_msgs /\ Collect!Stored(p, m)
    BY <1>m, <1>0, <1>1 DEF Collect!IngestCached, Collect!rows
  <2>2. CASE m \in Attached
    BY <1>0, <1>s, <2>1, <2>2, AttachFine DEF Collect!Stored
  <2>3. CASE m \notin Attached
    <3>1. Collect!Kept(m)' /\ Collect!After(p, m)
      BY <2>1, <2>3 DEF Collect!Kept, Collect!Stored
    <3> QED BY <1>0, <1>s, <3>1, NextMessage
  <2> QED BY <2>2, <2>3
<1>2. CASE Collect!IngestMessage(p)
  <2>1. \/ Collect!Leave(p)
        \/ /\ IngestRows(m)
           /\ IF m \in Attached /\ c_att[m] = "ready" THEN Collect!After(p, m)
                                                      ELSE Collect!Stored(p, m)
    BY <1>m, <1>2 DEF Collect!IngestMessage, IngestRows, Collect!history, Collect!None
  <2>2. CASE Collect!Leave(p)
    BY <2>2, Leaves DEF Collect!Leave
  <2>3. ASSUME IngestRows(m), Collect!After(p, m), m \notin Attached \/ c_att[m] = "ready"
        PROVE  OnlyOf(p) /\ Fine(p)'
    <3>1. m \in Attached => c_att'[m] = "ready" /\ m \in c_object' \cup c_spoilt'
      BY <1>0, <2>3 DEF IngestRows, Held
    <3>2. Collect!Kept(m)'
      BY <2>3, <3>1 DEF IngestRows, Collect!Kept
    <3> QED BY <1>0, <1>s, <2>3, <3>2, NextMessage
  <2>4. ASSUME IngestRows(m), m \in Attached, Collect!Stored(p, m) PROVE OnlyOf(p) /\ Fine(p)'
    BY <1>0, <1>s, <2>4, AttachFine DEF Collect!Stored, IngestRows
  <2>5. CASE IngestRows(m) /\ IF m \in Attached /\ c_att[m] = "ready"
                              THEN Collect!After(p, m) ELSE Collect!Stored(p, m)
    BY <2>3, <2>4, <2>5 DEF Collect!Stored
  <2> QED BY <2>1, <2>2, <2>5
<1> QED BY <1>1, <1>2

LEMMA CompleteFine ==
    ASSUME Collect!CollectInv, NEW p \in Workers, Collect!CompleteAttachment(p), StillThere
    PROVE  OnlyOf(p) /\ Fine(p)'
<1>m. PICK m \in Attached : m = c_poll[p].m
  BY HeldNow DEF Collect!CompleteAttachment
<1>1. /\ m \in Attached \cap c_msgs /\ m \in c_object \cup c_spoilt /\ c_poll[p].pc = "complete"
      /\ c_att \in [Attached -> Contents] /\ m \in 1..N
  BY <1>m, HeldNow, CollectParts, CollectTypeParts, KnowledgeAssumption DEF Collect!CompleteAttachment
<1>2. /\ c_att' = [c_att EXCEPT ![m] = "ready"] /\ Collect!After(p, m) /\ Same
      /\ UNCHANGED <<c_msgs, c_object, c_spoilt>>
  BY <1>m DEF Collect!CompleteAttachment, Same, Collect!history
<1>3. Collect!Kept(m)'
  BY <1>1, <1>2 DEF Collect!Kept
<1> QED BY <1>1, <1>2, <1>3, NextMessage

LEMMA WorkerFine ==
    ASSUME Collect!CollectInv, StillThere, NEW p \in Workers,
           \/ Collect!Step(p) \/ Collect!DownloadFails(p) \/ Collect!CompleteFails(p)
           \/ Collect!Crash(p)
    PROVE  OnlyOf(p) /\ Fine(p)' /\ Same
<1>1. Same
  <2>1. CASE Collect!AdvanceCursor(p)
    <3>1. /\ c_conv' = c_conv /\ c_dropped' = c_dropped
          /\ c_straddled' = c_straddled \/ c_straddled' = (c_straddled \/ c_poll[p].moved)
      BY <2>1 DEF Collect!AdvanceCursor
    <3>2. ASSUME c_straddled PROVE c_straddled'
      BY <3>1, <3>2, Zenon
    <3> QED BY <3>1, <3>2 DEF Same
  <2>2. CASE ~Collect!AdvanceCursor(p)
    <3>1. UNCHANGED <<c_conv, c_straddled>>
      BY <2>2 DEF Collect!Step, Collect!Tick, Collect!PollMessages, Collect!IngestCached,
         Collect!IngestMessage, Collect!Download, Collect!DownloadFails,
         Collect!CompleteAttachment, Collect!CompleteFails, Collect!Crash, Collect!history
    <3>2. Collect!Next
      BY DEF Collect!Next
    <3> QED BY <3>1, <3>2, DropsGrow DEF Same
  <2> QED BY <2>1, <2>2
<1>2. CASE Collect!AdvanceCursor(p) \/ Collect!DownloadFails(p) \/ Collect!CompleteFails(p)
           \/ Collect!Crash(p)
  <2>1. c_poll' = [c_poll EXCEPT ![p] = Collect!Rest]
    <3>1. Collect!AdvanceCursor(p) => c_poll' = [c_poll EXCEPT ![p] = Collect!Rest]
      BY DEF Collect!AdvanceCursor, Collect!Leave
    <3>2. Collect!DownloadFails(p) => c_poll' = [c_poll EXCEPT ![p] = Collect!Rest]
      BY DEF Collect!DownloadFails, Collect!Leave
    <3>3. Collect!CompleteFails(p) => c_poll' = [c_poll EXCEPT ![p] = Collect!Rest]
      BY DEF Collect!CompleteFails, Collect!Leave
    <3>4. Collect!Crash(p) => c_poll' = [c_poll EXCEPT ![p] = Collect!Rest]
      BY DEF Collect!Crash
    <3> QED BY <1>2, <3>1, <3>2, <3>3, <3>4
  <2> QED BY <1>1, <2>1, Leaves
<1> QED
  BY <1>1, <1>2, TickFine, PollFine, IngestFine, DownloadFine, CompleteFine DEF Collect!Step

LEMMA OtherFine ==
    ASSUME Collect!CollectInv, NEW q \in Workers, c_poll'[q] = c_poll[q], StillThere, Same,
           c_poll[q].pc = "complete" => c_poll[q].m \in (c_object \cup c_spoilt)'
    PROVE  Fine(q)'
<1>1. Collect!Passed(q) /\ c_poll[q].todo \subseteq 1..N
  BY CollectParts, PollOf
<1>2. Collect!InHand(q)'
  BY HeldNow DEF StillThere, Collect!InHand
<1>3. Collect!Passed(q)'
  BY <1>1 DEF StillThere, Same, Collect!Passed, Collect!Messages
<1> QED BY <1>2, <1>3 DEF Fine

\* The owner moves the start, and every poll under way learns it.
LEMMA MovedFine ==
    ASSUME Collect!CollectInv, NEW start \in 1..N, Collect!UpdateConversationStart(start)
    PROVE  c_poll' \in [Workers -> Polls] /\ \A q \in Workers : Fine(q)'
<1>1. /\ c_poll' = [p \in Workers |-> [c_poll[p] EXCEPT !.moved = c_poll[p].pc # "idle"]]
      /\ UNCHANGED <<c_msgs, c_object, c_spoilt>>
  BY DEF Collect!UpdateConversationStart, Collect!Moved, Collect!rows, Collect!history
<1>2. ASSUME NEW q \in Workers
      PROVE  /\ [c_poll[q] EXCEPT !.moved = c_poll[q].pc # "idle"] \in Polls /\ Fine(q)'
  <2>0. c_poll[q] \in Polls
    BY PollOf
  <2>1. PICK b \in BOOLEAN : b = (c_poll[q].pc # "idle")
    OBVIOUS
  <2>2. [c_poll[q] EXCEPT !.moved = b] \in Polls
    BY <2>0 DEF Polls
  <2>3. c_poll'[q] = [c_poll[q] EXCEPT !.moved = b]
    BY <1>1, <2>1
  <2>4. /\ c_poll'[q].pc = c_poll[q].pc /\ c_poll'[q].m = c_poll[q].m
        /\ c_poll'[q].todo = c_poll[q].todo /\ c_poll'[q].c = c_poll[q].c
        /\ c_poll'[q].moved = b
    BY <2>0, <2>3 DEF Polls
  <2>5. Collect!InHand(q)' /\ Collect!Passed(q)'
    BY <1>1, <2>1, <2>4, HeldNow DEF Collect!InHand, Collect!Passed
  <2> QED BY <2>1, <2>2, <2>5 DEF Fine
<1> QED BY <1>1, <1>2

LEMMA PollsKept ==
    ASSUME Collect!CollectInv, Collect!Next
    PROVE  c_poll' \in [Workers -> Polls] /\ \A q \in Workers : Fine(q)'
<1>0. /\ StillThere /\ c_poll \in [Workers -> Polls]
      /\ \A q \in Workers : c_poll'[q] = c_poll[q] /\ c_poll[q].pc = "complete" =>
                               c_poll[q].m \in (c_object \cup c_spoilt)'
  BY RowsKept, CollectParts, CollectTypeParts
<1>1. ASSUME NEW p \in Workers,
             \/ Collect!Step(p) \/ Collect!DownloadFails(p) \/ Collect!CompleteFails(p)
             \/ Collect!Crash(p)
      PROVE  c_poll' \in [Workers -> Polls] /\ \A q \in Workers : Fine(q)'
  <2>1. OnlyOf(p) /\ Fine(p)' /\ Same
    BY <1>0, <1>1, WorkerFine
  <2>2. ASSUME NEW q \in Workers \ {p} PROVE Fine(q)'
    BY <1>0, <2>1, OtherFine DEF OnlyOf
  <2> QED BY <2>1, <2>2 DEF OnlyOf
<1>2. ASSUME NEW start \in 1..N, Collect!UpdateConversationStart(start)
      PROVE  c_poll' \in [Workers -> Polls] /\ \A q \in Workers : Fine(q)'
  BY <1>2, MovedFine
<1>3. CASE \/ Collect!Arrive \/ Collect!GrowOld \/ Collect!LockExpires \/ \E m \in 1..N : Collect!Edit(m)
           \/ \E c \in Collectors : \/ Collect!RemoveCollector(c) \/ Collect!AddCollector(c)
                                    \/ \E b \in BOOLEAN : Collect!SetCollectorPaused(c, b)
           \/ \E b \in BOOLEAN : Collect!PauseResume(b)
  <2>1. c_poll' = c_poll /\ UNCHANGED <<c_straddled, c_dropped>>
    BY <1>3 DEF Collect!Arrive, Collect!GrowOld, Collect!LockExpires, Collect!Edit, Collect!RemoveCollector,
       Collect!AddCollector, Collect!SetCollectorPaused, Collect!PauseResume, Collect!history
  <2>2. c_conv'.start = c_conv.start
    <3>1. c_conv \in Conversations
      BY CollectParts, CollectTypeParts
    <3>2. \/ c_conv' = c_conv \/ c_conv' = Collect!Wake(c_conv)
          \/ c_conv' = [c_conv EXCEPT !.status = "paused", !.reason = "no_available_collector"]
          \/ \E b \in BOOLEAN : c_conv' = [c_conv EXCEPT
                !.status = IF b THEN "active" ELSE "paused", !.reason = Collect!None]
      BY <1>3 DEF Collect!Arrive, Collect!GrowOld, Collect!LockExpires, Collect!Edit, Collect!RemoveCollector,
         Collect!AddCollector, Collect!SetCollectorPaused, Collect!PauseResume, Collect!Stop
    <3> QED BY <3>1, <3>2 DEF Conversations, Collect!Wake
  <2>3. Same
    BY <2>1, <2>2 DEF Same
  <2> QED BY <1>0, <2>1, <2>3, OtherFine
<1> QED BY <1>1, <1>2, <1>3 DEF Collect!Next, Collect!Messages

-----------------------------------------------------------------------------
\* Cursors and the status of the conversation.
LEMMA CollectTypes ==
    ASSUME Collect!CollectInv, Collect!Next PROVE Collect!TypeOK'
<1>0. /\ c_newest \in 0..N /\ c_edited \subseteq c_msgs /\ c_lock \in Workers \cup {"none"}
      /\ c_conv \in Conversations /\ c_coll \in [Collectors -> CollectorRows]
      /\ c_straddled \in BOOLEAN /\ c_unwoken \in BOOLEAN /\ N \in Nat
      /\ c_old \in 0..c_newest /\ c_dropped \subseteq 1..N
      /\ \A p \in Workers : c_poll[p].upto \in 0..N /\ c_poll[p].moved \in BOOLEAN
  BY CollectParts, CollectTypeParts, KnowledgeAssumption, PollOf
<1>1. c_newest' \in 0..N
  <2>1. c_newest' = c_newest \/ (c_newest < N /\ c_newest' = c_newest + 1)
    BY DEF Collect!Next, Collect!Step, Collect!Arrive, Collect!GrowOld,
       Collect!LockExpires, Collect!Edit, Collect!Crash, Collect!RemoveCollector,
       Collect!AddCollector, Collect!SetCollectorPaused, Collect!PauseResume,
       Collect!UpdateConversationStart, Collect!Tick, Collect!PollMessages, Collect!IngestCached,
       Collect!AdvanceCursor, Collect!IngestMessage, Collect!Download, Collect!DownloadFails,
       Collect!CompleteAttachment, Collect!CompleteFails
  <2> QED BY <1>0, <2>1
<1>2. c_edited' \subseteq c_msgs'
  <2>1. c_edited' = c_edited \/ \E m \in c_msgs : c_edited' = c_edited \cup {m}
    BY DEF Collect!Next, Collect!Step, Collect!Arrive, Collect!GrowOld,
       Collect!LockExpires, Collect!Edit, Collect!Crash, Collect!RemoveCollector,
       Collect!AddCollector, Collect!SetCollectorPaused, Collect!PauseResume,
       Collect!UpdateConversationStart, Collect!Tick, Collect!PollMessages, Collect!IngestCached,
       Collect!AdvanceCursor, Collect!IngestMessage, Collect!Download, Collect!DownloadFails,
       Collect!CompleteAttachment, Collect!CompleteFails
  <2> QED BY <1>0, <2>1, RowsKept DEF StillThere
<1>3. c_lock' \in Workers \cup {"none"}
  <2>1. c_lock' = c_lock \/ c_lock' = "none" \/ \E p \in Workers : c_lock' = p
    BY DEF Collect!Next, Collect!Step, Collect!Arrive, Collect!GrowOld, Collect!Leave, Collect!None,
       Collect!LockExpires, Collect!Edit, Collect!Crash, Collect!RemoveCollector,
       Collect!AddCollector, Collect!SetCollectorPaused, Collect!PauseResume,
       Collect!UpdateConversationStart, Collect!Tick, Collect!PollMessages, Collect!IngestCached,
       Collect!AdvanceCursor, Collect!IngestMessage, Collect!Download, Collect!DownloadFails,
       Collect!CompleteAttachment, Collect!CompleteFails
  <2> QED BY <1>0, <2>1
<1>4. c_conv' \in Conversations
  <2>1. \/ c_conv' = c_conv \/ c_conv' = Collect!Wake(c_conv)
        \/ c_conv' = [c_conv EXCEPT !.status = "paused", !.reason = "no_available_collector"]
        \/ c_conv' = [c_conv EXCEPT !.status = "active", !.reason = "none"]
        \/ c_conv' = [c_conv EXCEPT !.status = "paused", !.reason = "none"]
        \/ \E start \in 1..N : c_conv' = [Collect!Wake(c_conv) EXCEPT !.start = start]
    BY DEF Collect!Next, Collect!Step, Collect!Arrive, Collect!GrowOld, Collect!Messages, Collect!Stop,
       Collect!LockExpires, Collect!Edit, Collect!Crash, Collect!RemoveCollector, Collect!None,
       Collect!AddCollector, Collect!SetCollectorPaused, Collect!PauseResume,
       Collect!UpdateConversationStart, Collect!Tick, Collect!PollMessages, Collect!IngestCached,
       Collect!AdvanceCursor, Collect!IngestMessage, Collect!Download, Collect!DownloadFails,
       Collect!CompleteAttachment, Collect!CompleteFails
  <2> QED BY <1>0, <2>1 DEF Conversations, Collect!Wake, Collect!None
<1>5. c_coll' \in [Collectors -> CollectorRows]
  <2>1. \/ c_coll' = c_coll
        \/ \E p \in Workers : c_coll' = [c_coll EXCEPT ![c_poll[p].c].cursor = c_poll[p].upto]
        \/ \E c \in Collectors, s \in {"active", "paused", "removed"} :
              c_coll' = [c_coll EXCEPT ![c].status = s]
        \/ c_coll' = [c \in Collectors |-> [c_coll[c] EXCEPT !.cursor = 0]]
    BY DEF Collect!Next, Collect!Step, Collect!Arrive, Collect!GrowOld, Collect!Messages, Collect!Stop,
       Collect!LockExpires, Collect!Edit, Collect!Crash, Collect!RemoveCollector,
       Collect!AddCollector, Collect!SetCollectorPaused, Collect!PauseResume,
       Collect!UpdateConversationStart, Collect!Tick, Collect!PollMessages, Collect!IngestCached,
       Collect!AdvanceCursor, Collect!IngestMessage, Collect!Download, Collect!DownloadFails,
       Collect!CompleteAttachment, Collect!CompleteFails
  <2>2. ASSUME NEW p \in Workers, c_coll' = [c_coll EXCEPT ![c_poll[p].c].cursor = c_poll[p].upto]
        PROVE  c_coll' \in [Collectors -> CollectorRows]
    BY <1>0, <2>2 DEF CollectorRows
  <2>3. ASSUME NEW c \in Collectors, NEW s \in {"active", "paused", "removed"},
               c_coll' = [c_coll EXCEPT ![c].status = s]
        PROVE  c_coll' \in [Collectors -> CollectorRows]
    BY <1>0, <2>3 DEF CollectorRows
  <2>4. ASSUME c_coll' = [c \in Collectors |-> [c_coll[c] EXCEPT !.cursor = 0]]
        PROVE  c_coll' \in [Collectors -> CollectorRows]
    BY <1>0, <2>4 DEF CollectorRows
  <2> QED BY <1>0, <2>1, <2>2, <2>3, <2>4
<1>6. c_straddled' \in BOOLEAN /\ c_unwoken' \in BOOLEAN
  <2>1. \/ c_straddled' = c_straddled
        \/ \E p \in Workers : c_straddled' = (c_straddled \/ c_poll[p].moved)
    BY DEF Collect!Next, Collect!Step, Collect!Arrive, Collect!GrowOld, Collect!history,
       Collect!LockExpires, Collect!Edit, Collect!Crash, Collect!RemoveCollector,
       Collect!AddCollector, Collect!SetCollectorPaused, Collect!PauseResume,
       Collect!UpdateConversationStart, Collect!Tick, Collect!PollMessages, Collect!IngestCached,
       Collect!AdvanceCursor, Collect!IngestMessage, Collect!Download, Collect!DownloadFails,
       Collect!CompleteAttachment, Collect!CompleteFails
  <2>2. c_unwoken' = c_unwoken \/ c_unwoken' = (c_unwoken \/ Collect!Waiting(c_conv))
    BY DEF Collect!Next, Collect!Step, Collect!Arrive, Collect!GrowOld, Collect!history,
       Collect!LockExpires, Collect!Edit, Collect!Crash, Collect!RemoveCollector,
       Collect!AddCollector, Collect!SetCollectorPaused, Collect!PauseResume,
       Collect!UpdateConversationStart, Collect!Tick, Collect!PollMessages, Collect!IngestCached,
       Collect!AdvanceCursor, Collect!IngestMessage, Collect!Download, Collect!DownloadFails,
       Collect!CompleteAttachment, Collect!CompleteFails
  <2>3. c_straddled' \in BOOLEAN
    BY <1>0, <2>1
  <2>4. c_unwoken' \in BOOLEAN
    BY <1>0, <2>2 DEF Collect!Waiting
  <2> QED BY <2>3, <2>4
<1>7. c_old' \in 0..c_newest'
  <2>1. \/ UNCHANGED <<c_old, c_newest>>
        \/ c_old' = c_old /\ c_newest' = c_newest + 1
        \/ c_old' = c_old + 1 /\ c_old < c_newest /\ c_newest' = c_newest
    BY DEF Collect!Next, Collect!Step, Collect!Arrive, Collect!GrowOld,
       Collect!LockExpires, Collect!Edit, Collect!Crash, Collect!RemoveCollector,
       Collect!AddCollector, Collect!SetCollectorPaused, Collect!PauseResume,
       Collect!UpdateConversationStart, Collect!Tick, Collect!PollMessages, Collect!IngestCached,
       Collect!AdvanceCursor, Collect!IngestMessage, Collect!Download, Collect!DownloadFails,
       Collect!CompleteAttachment, Collect!CompleteFails
  <2> QED BY <1>0, <2>1
<1>8. c_dropped' \subseteq 1..N
  <2>1. 1..c_old \subseteq 1..N
    BY <1>0
  <2>2. \A start, cursor : Collect!TooOld(start, cursor) \subseteq 1..c_old
    BY DEF Collect!TooOld
  <2> QED BY <1>0, <2>1, <2>2, DropsGrow
<1> QED
  BY <1>1, <1>2, <1>3, <1>4, <1>5, <1>6, <1>7, <1>8, RowsKept, PollsKept
  DEF Collect!TypeOK, Collect!Poll, Collect!Messages, Collect!None, Polls, Conversations,
      CollectorRows, Contents, RowTypes

\* Nothing but an advance and a moved start changes what a cursor vouches for.
LEMMA CursorsKept ==
    ASSUME Collect!CollectInv, Collect!Next PROVE Collect!CursorCovers'
<1>0. /\ StillThere /\ Collect!CursorCovers /\ c_straddled \in BOOLEAN
      /\ c_coll \in [Collectors -> CollectorRows] /\ c_conv \in Conversations
      /\ c_dropped \subseteq c_dropped'
  BY RowsKept, CollectParts, CollectTypeParts, DropsGrow
<1>1. ASSUME NEW p \in Workers, Collect!AdvanceCursor(p) PROVE Collect!CursorCovers'
  <2>1. /\ c_poll[p].pc = "advance" /\ c_poll[p].c \in Collectors /\ c_poll[p].todo = {}
        /\ Collect!Passed(p) /\ c_conv' = c_conv
    BY <1>1, HeldNow, CollectParts DEF Collect!AdvanceCursor
  <2>2. CASE Collect!Active(c_poll[p].c)
    <3>1. /\ c_coll' = [c_coll EXCEPT ![c_poll[p].c].cursor = c_poll[p].upto]
          /\ c_straddled' = (c_straddled \/ c_poll[p].moved)
      BY <1>1, <2>2 DEF Collect!AdvanceCursor
    <3>2. \A c \in Collectors :
             c_coll'[c].cursor = IF c = c_poll[p].c THEN c_poll[p].upto ELSE c_coll[c].cursor
      BY <1>0, <3>1 DEF CollectorRows
    <3>3. SUFFICES ASSUME ~c_straddled', NEW c \in Collectors, NEW m \in (1..N) \ c_dropped',
                          c_conv.start <= m, m <= c_coll'[c].cursor
                   PROVE  Collect!Kept(m)'
      BY <2>1 DEF Collect!CursorCovers, Collect!Messages
    <3>4. ~c_straddled /\ ~c_poll[p].moved
      BY <3>1, <3>3
    <3>5. CASE c = c_poll[p].c
      <4>1. Collect!Kept(m)
        BY <1>0, <2>1, <3>2, <3>3, <3>4, <3>5 DEF Collect!Passed, Collect!Messages
      <4> QED BY <1>0, <4>1 DEF StillThere
    <3>6. CASE c # c_poll[p].c
      BY <1>0, <3>2, <3>3, <3>4, <3>6 DEF Collect!CursorCovers, Collect!Messages, StillThere
    <3> QED BY <3>5, <3>6
  <2>3. CASE ~Collect!Active(c_poll[p].c)
    <3>1. UNCHANGED <<c_coll, c_straddled>>
      BY <1>1, <2>3 DEF Collect!AdvanceCursor
    <3> QED BY <1>0, <2>1, <3>1 DEF Collect!CursorCovers, Collect!Messages, StillThere
  <2> QED BY <2>2, <2>3
<1>2. ASSUME NEW start \in 1..N, Collect!UpdateConversationStart(start)
      PROVE  Collect!CursorCovers'
  <2>1. c_coll' = [c \in Collectors |-> [c_coll[c] EXCEPT !.cursor = 0]]
    BY <1>2 DEF Collect!UpdateConversationStart
  <2>2. \A c \in Collectors : c_coll'[c].cursor = 0
    BY <1>0, <2>1 DEF CollectorRows
  <2> QED BY <2>2 DEF Collect!CursorCovers, Collect!Messages
<1>3. ASSUME \A p \in Workers : ~Collect!AdvanceCursor(p),
             \A start \in 1..N : ~Collect!UpdateConversationStart(start)
      PROVE  Collect!CursorCovers'
  <2>1. /\ c_straddled' = c_straddled
        /\ \/ c_coll' = c_coll
           \/ \E c \in Collectors, s \in {"active", "paused", "removed"} :
                 c_coll' = [c_coll EXCEPT ![c].status = s]
        /\ \/ c_conv' = c_conv \/ c_conv' = Collect!Wake(c_conv)
           \/ c_conv' = [c_conv EXCEPT !.status = "paused", !.reason = "no_available_collector"]
           \/ c_conv' = [c_conv EXCEPT !.status = "active", !.reason = "none"]
           \/ c_conv' = [c_conv EXCEPT !.status = "paused", !.reason = "none"]
    BY <1>3 DEF Collect!Next, Collect!Step, Collect!Arrive, Collect!GrowOld, Collect!Messages, Collect!Stop,
       Collect!LockExpires, Collect!Edit, Collect!Crash, Collect!RemoveCollector, Collect!None,
       Collect!AddCollector, Collect!SetCollectorPaused, Collect!PauseResume, Collect!history,
       Collect!Tick, Collect!PollMessages, Collect!IngestCached,
       Collect!IngestMessage, Collect!Download, Collect!DownloadFails,
       Collect!CompleteAttachment, Collect!CompleteFails
  <2>2. \A c \in Collectors : c_coll'[c].cursor = c_coll[c].cursor
    BY <1>0, <2>1 DEF CollectorRows
  <2>3. c_conv'.start = c_conv.start
    BY <1>0, <2>1 DEF Conversations, Collect!Wake
  <2> QED BY <1>0, <2>1, <2>2, <2>3 DEF Collect!CursorCovers, Collect!Messages, StillThere
<1> QED BY <1>1, <1>2, <1>3

\* Who stops the last collector pauses the conversation; who wakes one, wakes it.
LEMMA StopWaits ==
    ASSUME Collect!CollectInv, NEW c \in Collectors, NEW s \in {"paused", "removed"},
           Collect!Stop(c, s), c_unwoken' = c_unwoken
    PROVE  Collect!WaitsForNobody'
<1>0. Collect!WaitsForNobody /\ c_coll \in [Collectors -> CollectorRows]
  BY CollectParts, CollectTypeParts
<1>1. /\ \A d \in Collectors \ {c} : c_coll'[d] = c_coll[d]
      /\ c_coll'[c].status = s
  BY <1>0 DEF Collect!Stop, CollectorRows
<1>2. CASE \E d \in Collectors \ {c} : Collect!Active(d)
  BY <1>0, <1>2 DEF Collect!Stop, Collect!WaitsForNobody
<1>3. CASE \A d \in Collectors \ {c} : ~Collect!Active(d)
  BY <1>1, <1>3 DEF Collect!WaitsForNobody, Collect!Active
<1> QED BY <1>2, <1>3

LEMMA WaitsKept ==
    ASSUME Collect!CollectInv, Collect!Next PROVE Collect!WaitsForNobody'
<1>0. /\ Collect!WaitsForNobody /\ c_unwoken \in BOOLEAN /\ c_conv \in Conversations
      /\ c_coll \in [Collectors -> CollectorRows]
  BY CollectParts, CollectTypeParts
<1>w. ~Collect!Waiting(Collect!Wake(c_conv))
  BY <1>0 DEF Collect!Waiting, Collect!Wake, Conversations
<1>1. ASSUME NEW p \in Workers, Collect!AdvanceCursor(p) PROVE Collect!WaitsForNobody'
  <2>1. c_conv' = c_conv /\ c_unwoken' = c_unwoken
    BY <1>1 DEF Collect!AdvanceCursor
  <2>2. \A c \in Collectors : c_coll'[c].status = c_coll[c].status
    BY <1>0, <1>1 DEF Collect!AdvanceCursor, CollectorRows
  <2> QED BY <1>0, <2>1, <2>2 DEF Collect!WaitsForNobody, Collect!Active
<1>2. ASSUME NEW start \in 1..N, Collect!UpdateConversationStart(start)
      PROVE  Collect!WaitsForNobody'
  <2>1. c_conv' = [Collect!Wake(c_conv) EXCEPT !.start = start]
    BY <1>2 DEF Collect!UpdateConversationStart
  <2>2. c_conv'.status = "active"
    BY <1>0, <2>1 DEF Conversations, Collect!Wake
  <2> QED BY <2>2 DEF Collect!WaitsForNobody, Collect!Waiting
<1>3. ASSUME NEW b \in BOOLEAN, Collect!PauseResume(b) PROVE Collect!WaitsForNobody'
  <2>1. c_conv'.reason = "none"
    BY <1>0, <1>3 DEF Collect!PauseResume, Conversations, Collect!None
  <2> QED BY <2>1 DEF Collect!WaitsForNobody, Collect!Waiting
<1>4. ASSUME NEW c \in Collectors, Collect!RemoveCollector(c) PROVE Collect!WaitsForNobody'
  BY <1>4, StopWaits DEF Collect!RemoveCollector, Collect!history
<1>5. ASSUME NEW c \in Collectors, NEW b \in BOOLEAN, Collect!SetCollectorPaused(c, b)
      PROVE  Collect!WaitsForNobody'
  <2>1. CASE b
    BY <1>5, <2>1, StopWaits DEF Collect!SetCollectorPaused, Collect!history
  <2>2. CASE ~b
    <3>1. c_conv' = IF Collect!Waiting(c_conv) THEN Collect!Wake(c_conv) ELSE c_conv
      BY <1>5, <2>2 DEF Collect!SetCollectorPaused
    <3> QED BY <1>w, <3>1 DEF Collect!WaitsForNobody, Collect!Waiting
  <2> QED BY <2>1, <2>2
<1>6. ASSUME NEW c \in Collectors, Collect!AddCollector(c) PROVE Collect!WaitsForNobody'
  <2>1. CASE c_coll[c].status \in {"active", "paused"}
    <3>1. /\ c_coll' = [c_coll EXCEPT ![c].status = "active"] /\ c_unwoken' = c_unwoken
          /\ c_conv' = IF c_coll[c].status = "paused" /\ Collect!Waiting(c_conv)
                       THEN Collect!Wake(c_conv) ELSE c_conv
      BY <1>6, <2>1 DEF Collect!AddCollector
    <3>2. CASE c_coll[c].status = "paused"
      BY <1>w, <3>1, <3>2 DEF Collect!WaitsForNobody, Collect!Waiting
    <3>3. CASE c_coll[c].status = "active"
      BY <1>0, <3>1, <3>3 DEF Collect!WaitsForNobody, Collect!Waiting, Collect!Active
    <3> QED BY <2>1, <3>2, <3>3
  <2>2. CASE c_coll[c].status = "absent"
    <3>1. c_conv' = c_conv /\ c_unwoken' = (c_unwoken \/ Collect!Waiting(c_conv))
      BY <1>6, <2>2 DEF Collect!AddCollector
    <3> QED BY <3>1 DEF Collect!WaitsForNobody, Collect!Waiting
  <2> QED BY <1>6, <2>1, <2>2 DEF Collect!AddCollector
<1>7. CASE UNCHANGED <<c_conv, c_coll, c_unwoken>>
  BY <1>0, <1>7 DEF Collect!WaitsForNobody, Collect!Waiting, Collect!Active
<1>8. CASE \/ Collect!Arrive \/ Collect!GrowOld \/ Collect!LockExpires \/ \E m \in 1..N : Collect!Edit(m)
           \/ \E p \in Workers : (Collect!Step(p) /\ ~Collect!AdvanceCursor(p))
                  \/ Collect!DownloadFails(p) \/ Collect!CompleteFails(p) \/ Collect!Crash(p)
  BY ZenonT(40), <1>7, <1>8 DEF Collect!Step, Collect!Arrive, Collect!GrowOld, Collect!LockExpires, Collect!Edit,
     Collect!Crash, Collect!Tick, Collect!PollMessages, Collect!IngestCached, Collect!history,
     Collect!IngestMessage, Collect!Download, Collect!DownloadFails,
     Collect!CompleteAttachment, Collect!CompleteFails
<1> QED
  BY <1>1, <1>2, <1>3, <1>4, <1>5, <1>6, <1>8 DEF Collect!Next, Collect!Messages

LEMMA CollectStep == ASSUME Collect!CollectInv, Collect!Next PROVE Collect!CollectInv'
BY CollectTypes, CursorsKept, WaitsKept, RowsKept, PollsKept DEF Collect!CollectInv, Held, Fine

LEMMA CollectStart == ASSUME Collect!Init PROVE Collect!CollectInv
<1>1. N \in Nat \ {0}
  BY KnowledgeAssumption
<1>2. PICK type \in {"private", "group"}, start \in 1..N :
         c_conv = [type |-> type, status |-> "active", reason |-> "none", start |-> start]
  BY DEF Collect!Init, Collect!Messages, Collect!None
<1>3. /\ c_conv \in Conversations /\ c_conv.status = "active"
  BY <1>2 DEF Conversations
<1>4. c_coll \in [Collectors -> CollectorRows] /\ \A c \in Collectors : c_coll[c].cursor = 0
  BY <1>1 DEF Collect!Init, CollectorRows
<1>5. Collect!Rest \in Polls /\ c_poll = [p \in Workers |-> Collect!Rest]
  BY <1>1 DEF Collect!Init, Collect!Rest, Collect!None, Polls
<1>6. /\ c_newest = 0 /\ c_old = 0 /\ c_dropped = {} /\ c_edited = {} /\ c_msgs = {} /\ c_object = {} /\ c_cache = {}
      /\ c_att = [m \in Attached |-> "none"] /\ c_lock = "none" /\ c_spoilt = {}
      /\ c_straddled = FALSE /\ c_unwoken = FALSE
  BY DEF Collect!Init, Collect!None
<1>7. /\ c_straddled \in BOOLEAN /\ c_unwoken \in BOOLEAN /\ c_newest \in 0..N
      /\ c_old \in 0..c_newest
  <2>1. c_newest \in 0..N /\ c_old \in 0..c_newest
    BY <1>1, <1>6
  <2>2. c_straddled \in BOOLEAN /\ c_unwoken \in BOOLEAN
    BY <1>6
  <2> QED BY <2>1, <2>2
<1>8. Collect!TypeOK
  BY <1>3, <1>4, <1>5, <1>6, <1>7, CollectTypeParts DEF Contents
<1>9. Collect!CursorCovers /\ Collect!WaitsForNobody /\ Held
  BY <1>3, <1>4, <1>6 DEF Collect!CursorCovers, Collect!WaitsForNobody, Collect!Waiting,
     Collect!Messages, Held
<1>10. ASSUME NEW p \in Workers PROVE Collect!InHand(p) /\ Collect!Passed(p)
  <2>1. c_poll[p].pc = "idle" /\ c_poll[p].moved = FALSE
    BY <1>5 DEF Collect!Rest
  <2> QED BY <2>1 DEF Collect!InHand, Collect!Passed
<1> QED BY <1>8, <1>9, <1>10, CollectParts
-----------------------------------------------------------------------------
(* Uploads.  A row is written by a call that has put the object or has found  *)
(* an original, so what a call is about to write must be backed already.      *)

LEMMA UploadTypes ==
    ASSUME Upload!UploadInv, Upload!Next
    PROVE  Upload!TypeOK'
<1>0. Upload!TypeOK /\ \A c \in Requests : Upload!Backed(c)
  BY DEF Upload!UploadInv
<1> USE <1>0 DEF Upload!TypeOK, Upload!None
<1>a. ASSUME NEW c \in Requests, NEW pc \in {"new", "body", "find", "mark", "put", "finalize",
                                             "undo", "done"},
             Upload!Goto(c, pc)
      PROVE  l_call' \in [Requests -> Upload!Call]
  <2>1. [l_call[c] EXCEPT !.pc = pc] \in Upload!Call
    BY DEF Upload!Call
  <2> QED BY <1>a, <2>1 DEF Upload!Goto
<1>b. ASSUME NEW t \in Upload!Tasks, Upload!Finalized(t)
      PROVE  l_row' \in [Upload!Tasks -> Upload!Row] /\ l_item' \in [Upload!Tasks -> Upload!Item]
             /\ l_event' \in [Upload!Tasks -> BOOLEAN]
  <2> DEFINE ready == l_item[t].ready \/ l_item[t].permission = "synced"
  <2>1. ready \in BOOLEAN
    BY DEF Upload!Item
  <2> HIDE DEF ready
  <2>2. [l_row[t] EXCEPT !.upload = "uploaded", !.ready = TRUE] \in Upload!Row
    BY DEF Upload!Row, Upload!Statuses
  <2>3. [l_item[t] EXCEPT !.saved = TRUE, !.ready = ready] \in Upload!Item
    BY <2>1 DEF Upload!Item
  <2>4. /\ l_row' = [l_row EXCEPT ![t].upload = "uploaded", ![t].ready = TRUE]
        /\ l_item' = [l_item EXCEPT ![t].saved = TRUE, ![t].ready = ready]
        /\ l_event' = [l_event EXCEPT ![t] = @ \/ ready]
    BY <1>b DEF Upload!Finalized, ready
  <2> QED BY <2>1, <2>2, <2>3, <2>4
<1>1. ASSUME NEW c \in Requests, NEW t \in Upload!Tasks, Upload!GetLocalUploadTask(c, t)
      PROVE  Upload!TypeOK'
  BY <1>1 DEF Upload!GetLocalUploadTask, Upload!Call
<1>2. ASSUME NEW c \in Requests, Upload!ReadBody(c) \/ Upload!FindLocalDuplicate(c) \/ Upload!Put(c)
                                 \/ Upload!DeleteObject(c) \/ Upload!Crash(c)
      PROVE  Upload!TypeOK'
  <2>1. l_call' \in [Requests -> Upload!Call]
    BY <1>2, <1>a DEF Upload!ReadBody, Upload!FindLocalDuplicate, Upload!Put, Upload!DeleteObject,
                      Upload!Crash
  <2>2. l_object' \in BOOLEAN /\ l_undone' \in BOOLEAN
    BY <1>2 DEF Upload!ReadBody, Upload!FindLocalDuplicate, Upload!Put, Upload!DeleteObject,
                Upload!Crash
  <2> QED
    BY <1>2, <2>1, <2>2 DEF Upload!ReadBody, Upload!FindLocalDuplicate, Upload!Put,
                            Upload!DeleteObject, Upload!Crash
<1>t. ASSUME NEW c \in Requests, l_call[c].pc # "new" PROVE l_call[c].task \in Upload!Tasks
  BY <1>t DEF Upload!Backed
<1>3. ASSUME NEW c \in Requests, Upload!Refuse(c) \/ Upload!MarkLocalDuplicate(c)
      PROVE  Upload!TypeOK'
  <2>1. l_call' \in [Requests -> Upload!Call]
    BY <1>3, <1>a DEF Upload!Refuse, Upload!MarkLocalDuplicate
  <2>2. ASSUME NEW t \in Upload!Tasks
        PROVE  /\ [l_row[t] EXCEPT !.upload = "failed"] \in Upload!Row
               /\ [l_row[t] EXCEPT !.upload = "duplicate", !.ready = TRUE] \in Upload!Row
    BY DEF Upload!Row, Upload!Statuses
  <2>3. l_row' \in [Upload!Tasks -> Upload!Row]
    <3>1. l_call[c].task \in Upload!Tasks
      BY <1>3, <1>t DEF Upload!Refuse, Upload!MarkLocalDuplicate
    <3> QED
      BY <1>3, <2>2, <3>1 DEF Upload!Refuse, Upload!MarkLocalDuplicate, Upload!FailLocalUpload
  <2> QED BY <1>3, <2>1, <2>3 DEF Upload!Refuse, Upload!MarkLocalDuplicate
<1>4. ASSUME NEW c \in Requests, Upload!FinalizeLocalUpload(c) \/ Upload!FinalizeFails(c)
      PROVE  Upload!TypeOK'
  <2>1. l_call' \in [Requests -> Upload!Call]
    BY <1>4, <1>a DEF Upload!FinalizeLocalUpload, Upload!FinalizeFails
  <2>2. Upload!Finalized(l_call[c].task) \/ UNCHANGED <<l_row, l_item, l_event>>
    BY <1>4 DEF Upload!FinalizeLocalUpload, Upload!FinalizeFails
  <2>3. l_call[c].task \in Upload!Tasks
    BY <1>4, <1>t DEF Upload!FinalizeLocalUpload, Upload!FinalizeFails
  <2>4. l_row' \in [Upload!Tasks -> Upload!Row] /\ l_item' \in [Upload!Tasks -> Upload!Item]
        /\ l_event' \in [Upload!Tasks -> BOOLEAN]
    BY <2>2, <1>b, <2>3
  <2> QED BY <1>4, <2>1, <2>4 DEF Upload!FinalizeLocalUpload, Upload!FinalizeFails
<1>5. ASSUME NEW t \in Upload!Tasks, Upload!CreateLocalUploadTask(t)
      PROVE  Upload!TypeOK'
  <2>1. ASSUME NEW o \in Owners PROVE [l_row[t] EXCEPT !.owner = o] \in Upload!Row
    BY DEF Upload!Row
  <2> QED BY <1>5, <2>1 DEF Upload!CreateLocalUploadTask
<1>6. ASSUME NEW t \in Upload!Tasks,
             Upload!Sync(t) \/ Upload!SyncFails(t) \/ Upload!TryMarkKnowledgeReady(t)
      PROVE  Upload!TypeOK'
  <2>1. /\ [l_item[t] EXCEPT !.permission = "synced"] \in Upload!Item
        /\ [l_item[t] EXCEPT !.permission = "failed"] \in Upload!Item
        /\ [l_item[t] EXCEPT !.saved = TRUE, !.ready = TRUE] \in Upload!Item
    BY DEF Upload!Item
  <2>2. l_item' \in [Upload!Tasks -> Upload!Item]
    BY <1>6, <2>1 DEF Upload!Sync, Upload!SyncFails, Upload!TryMarkKnowledgeReady
  <2> QED BY <1>6, <2>2 DEF Upload!Sync, Upload!SyncFails, Upload!TryMarkKnowledgeReady
<1> QED
  BY <1>1, <1>2, <1>3, <1>4, <1>5, <1>6 DEF Upload!Next, Upload!Serve, Upload!Permit

\* Rows and calls only get further: an owner stays, a row that names the object goes on
\* naming it, a call keeps its task and does not start again.
LEMMA UploadKeeps ==
    ASSUME Upload!UploadInv, Upload!Next, Upload!TypeOK'
    PROVE  /\ \A t \in Upload!Tasks :
                 /\ Upload!Created(t) => l_row'[t].owner = l_row[t].owner
                 /\ l_row[t].ready => l_row'[t].ready
                 /\ l_item[t].saved => l_item'[t].saved
           /\ \A c \in Requests :
                 /\ l_call[c].pc # "new" => l_call'[c].task = l_call[c].task /\ l_call'[c].pc # "new"
                 /\ l_call[c].pc \in {"undo", "done"} => l_call'[c].pc \in {"undo", "done"}
<1>0. Upload!TypeOK /\ \A c \in Requests : Upload!Backed(c)
  BY DEF Upload!UploadInv
<1>t. /\ \A t \in Upload!Tasks : l_row[t] \in Upload!Row /\ l_item[t] \in Upload!Item
      /\ \A c \in Requests : l_call[c] \in Upload!Call
      /\ l_row \in [Upload!Tasks -> Upload!Row] /\ l_item \in [Upload!Tasks -> Upload!Item]
      /\ l_call \in [Requests -> Upload!Call]
  BY <1>0 DEF Upload!TypeOK
<1> DEFINE Rows == \A t \in Upload!Tasks :
                     /\ Upload!Created(t) => l_row'[t].owner = l_row[t].owner
                     /\ l_row[t].ready => l_row'[t].ready
                     /\ l_item[t].saved => l_item'[t].saved
           Steps == \A c \in Requests :
                     /\ l_call[c].pc # "new" => l_call'[c].task = l_call[c].task /\ l_call'[c].pc # "new"
                     /\ l_call[c].pc \in {"undo", "done"} => l_call'[c].pc \in {"undo", "done"}
<1>a. ASSUME NEW t \in Upload!Tasks, Upload!Finalized(t) PROVE Rows
  BY <1>a, <1>t DEF Upload!Finalized, Upload!Row, Upload!Item
<1>g. ASSUME NEW c \in Requests, NEW pc \in {"find", "mark", "put", "finalize", "undo", "done"},
             Upload!Goto(c, pc), l_call[c].pc \in {"undo", "done"} => pc \in {"undo", "done"}
      PROVE  Steps
  BY <1>g, <1>t DEF Upload!Goto, Upload!Call
<1>1. ASSUME NEW c \in Requests, Upload!Serve(c) PROVE Rows /\ Steps
  <2>1. ASSUME NEW t \in Upload!Tasks, Upload!GetLocalUploadTask(c, t) PROVE Rows /\ Steps
    BY <2>1, <1>t DEF Upload!GetLocalUploadTask, Upload!Call
  <2>2. CASE Upload!ReadBody(c) \/ Upload!FindLocalDuplicate(c) \/ Upload!Put(c)
             \/ Upload!DeleteObject(c) \/ Upload!Crash(c)
    <3>1. Rows
      BY <2>2 DEF Upload!ReadBody, Upload!FindLocalDuplicate, Upload!Put, Upload!DeleteObject,
                  Upload!Crash
    <3>2. Steps
      <4> HIDE DEF Steps
      <4> QED
        BY <2>2, <1>g DEF Upload!ReadBody, Upload!FindLocalDuplicate, Upload!Put,
                          Upload!DeleteObject, Upload!Crash
    <3> QED BY <3>1, <3>2
  <2>3. CASE Upload!Refuse(c) \/ Upload!MarkLocalDuplicate(c)
    <3>1. Rows
      BY <2>3, <1>t DEF Upload!Refuse, Upload!MarkLocalDuplicate, Upload!FailLocalUpload,
                        Upload!Row, Upload!Created
    <3>2. Steps
      <4> HIDE DEF Steps
      <4> QED BY <2>3, <1>g DEF Upload!Refuse, Upload!MarkLocalDuplicate
    <3> QED BY <3>1, <3>2
  <2>4. CASE Upload!FinalizeLocalUpload(c) \/ Upload!FinalizeFails(c)
    <3>1. Upload!Finalized(l_call[c].task) \/ UNCHANGED <<l_row, l_item, l_event>>
      BY <2>4 DEF Upload!FinalizeLocalUpload, Upload!FinalizeFails
    <3>2. l_call[c].task \in Upload!Tasks
      BY <2>4, <1>0 DEF Upload!FinalizeLocalUpload, Upload!FinalizeFails, Upload!Backed
    <3>3. Rows
      BY <3>1, <3>2, <1>a
    <3>4. Steps
      <4> HIDE DEF Steps
      <4> QED BY <2>4, <1>g DEF Upload!FinalizeLocalUpload, Upload!FinalizeFails
    <3> QED BY <3>3, <3>4
  <2> QED BY <1>1, <2>1, <2>2, <2>3, <2>4 DEF Upload!Serve
<1>2. ASSUME NEW t \in Upload!Tasks, Upload!CreateLocalUploadTask(t) PROVE Rows /\ Steps
  BY <1>2, <1>t DEF Upload!CreateLocalUploadTask, Upload!Row, Upload!Created
<1>3. ASSUME NEW t \in Upload!Tasks, Upload!Permit(t) \/ Upload!SyncFails(t) PROVE Rows /\ Steps
  BY <1>3, <1>t DEF Upload!Permit, Upload!Sync, Upload!SyncFails, Upload!TryMarkKnowledgeReady,
                    Upload!Item
<1> QED BY <1>1, <1>2, <1>3 DEF Upload!Next

\* What a row, an item and an event say of one task, in one formula.
RowSound(t) ==
    /\ l_row[t].upload \in {"uploaded", "duplicate"} => l_row[t].ready
    /\ l_row[t].ready => Upload!Created(t)
    /\ l_row[t].ready => \E c \in Upload!CallsFor(t) : l_call[c].pc \in {"undo", "done"}
    /\ l_item[t].saved => l_row[t].ready
    /\ l_item[t].ready => l_item[t].saved
    /\ l_event[t] => l_row[t].ready /\ l_item[t].saved
Original(t) ==
    l_row[t].upload = "duplicate" =>
       \E s \in Upload!Tasks \ {t} : l_row[s].owner = l_row[t].owner /\ l_row[s].ready
FailedTwice(t) ==
    l_row[t].upload = "failed" /\ l_row[t].ready =>
       \E c, d \in Upload!CallsFor(t) : c # d

LEMMA UploadParts ==
    Upload!UploadInv <=>
       /\ Upload!TypeOK /\ \A c \in Requests : Upload!Backed(c)
       /\ \A t \in Upload!Tasks : RowSound(t) /\ Original(t) /\ FailedTwice(t)
                                  /\ (l_row[t].ready => l_object \/ l_undone)
BY DEF Upload!UploadInv, Upload!RowsTellTheTruth, RowSound, Original, FailedTwice

\* The calls of a task stay its calls.
LEMMA CallsStay ==
    ASSUME Upload!UploadInv, Upload!Next, Upload!TypeOK', NEW t \in Upload!Tasks
    PROVE  Upload!CallsFor(t) \subseteq Upload!CallsFor(t)'
<1> SUFFICES ASSUME NEW c \in Upload!CallsFor(t) PROVE c \in Upload!CallsFor(t)'
  OBVIOUS
<1>1. c \in Requests /\ l_call[c].task = t /\ t # 0
  BY KnowledgeAssumption DEF Upload!CallsFor, Upload!Tasks
<1>2. l_call[c].pc # "new"
  BY <1>1 DEF Upload!UploadInv, Upload!Backed
<1> QED BY <1>1, <1>2, UploadKeeps DEF Upload!CallsFor

\* The step of one call on the row of its task: which rows it may change, and how.
LEMMA RowChanges ==
    ASSUME Upload!UploadInv, Upload!Next, Upload!TypeOK', NEW t \in Upload!Tasks,
           l_row'[t] # l_row[t] \/ l_item'[t] # l_item[t] \/ l_event'[t] # l_event[t]
    PROVE  \/ Upload!CreateLocalUploadTask(t) \/ Upload!Permit(t) \/ Upload!SyncFails(t)
           \/ \E c \in Requests :
                 /\ l_call[c].task = t
                 /\ \/ Upload!Refuse(c) \/ Upload!MarkLocalDuplicate(c)
                    \/ Upload!FinalizeLocalUpload(c) \/ Upload!FinalizeFails(c)
<1>0. Upload!TypeOK /\ \A c \in Requests : Upload!Backed(c)
  BY DEF Upload!UploadInv
<1>t. /\ l_row \in [Upload!Tasks -> Upload!Row] /\ l_item \in [Upload!Tasks -> Upload!Item]
      /\ l_event \in [Upload!Tasks -> BOOLEAN]
  BY <1>0 DEF Upload!TypeOK
<1>1. ASSUME NEW s \in Upload!Tasks,
             Upload!CreateLocalUploadTask(s) \/ Upload!Permit(s) \/ Upload!SyncFails(s)
      PROVE  s = t
  BY <1>1, <1>t DEF Upload!CreateLocalUploadTask, Upload!Permit, Upload!Sync, Upload!SyncFails,
                    Upload!TryMarkKnowledgeReady
<1>2. ASSUME NEW c \in Requests, Upload!Serve(c)
      PROVE  /\ l_call[c].task = t
             /\ \/ Upload!Refuse(c) \/ Upload!MarkLocalDuplicate(c)
                \/ Upload!FinalizeLocalUpload(c) \/ Upload!FinalizeFails(c)
  <2>1. ASSUME NEW s \in Upload!Tasks, Upload!GetLocalUploadTask(c, s) PROVE FALSE
    BY <2>1 DEF Upload!GetLocalUploadTask
  <2>2. ASSUME Upload!ReadBody(c) \/ Upload!FindLocalDuplicate(c) \/ Upload!Put(c)
               \/ Upload!DeleteObject(c) \/ Upload!Crash(c)
        PROVE  FALSE
    BY <2>2 DEF Upload!ReadBody, Upload!FindLocalDuplicate, Upload!Put, Upload!DeleteObject,
                Upload!Crash
  <2>3. ASSUME Upload!Refuse(c) \/ Upload!MarkLocalDuplicate(c) PROVE l_call[c].task = t
    BY <2>3, <1>t DEF Upload!Refuse, Upload!MarkLocalDuplicate, Upload!FailLocalUpload
  <2>4. ASSUME NEW s \in Upload!Tasks, Upload!Finalized(s) PROVE s = t
    BY <2>4, <1>t DEF Upload!Finalized
  <2>5. ASSUME Upload!FinalizeLocalUpload(c) \/ Upload!FinalizeFails(c) PROVE l_call[c].task = t
    <3>1. Upload!Finalized(l_call[c].task)
      BY <2>5 DEF Upload!FinalizeLocalUpload, Upload!FinalizeFails
    <3>2. l_call[c].task \in Upload!Tasks
      BY <2>5, <1>0 DEF Upload!FinalizeLocalUpload, Upload!FinalizeFails, Upload!Backed
    <3> QED BY <3>1, <3>2, <2>4
  <2> QED BY <1>2, <2>1, <2>2, <2>3, <2>5 DEF Upload!Serve
<1> QED BY <1>1, <1>2 DEF Upload!Next

\* What the two ways to finish a call do to its row, and that the call is over then.
LEMMA RowWritten ==
    ASSUME Upload!UploadInv, NEW t \in Upload!Tasks, NEW c \in Requests, l_call[c].task = t
    PROVE  /\ Upload!Refuse(c) =>
                /\ l_row'[t].upload = "failed" /\ l_row'[t].ready = l_row[t].ready
                /\ l_row'[t].owner = l_row[t].owner
                /\ UNCHANGED <<l_item, l_event>> /\ l_call[c].pc \in {"body", "put"}
           /\ Upload!MarkLocalDuplicate(c) =>
                /\ l_row'[t].upload = "duplicate" /\ l_row'[t].ready
                /\ l_row'[t].owner = l_row[t].owner
                /\ UNCHANGED <<l_item, l_event, l_object, l_undone>>
                /\ l_call'[c].pc = "done" /\ l_call'[c].task = t /\ l_call[c].pc = "mark"
           /\ Upload!FinalizeLocalUpload(c) \/ Upload!FinalizeFails(c) =>
                /\ \/ /\ l_row'[t].upload = "uploaded" /\ l_row'[t].ready
                      /\ l_row'[t].owner = l_row[t].owner /\ l_item'[t].saved
                   \/ UNCHANGED <<l_row, l_item, l_event>>
                /\ UNCHANGED <<l_object, l_undone>>
                /\ l_call'[c].pc \in {"undo", "done"} /\ l_call'[c].task = t
                /\ l_call[c].pc = "finalize"
<1>t. /\ l_row \in [Upload!Tasks -> Upload!Row] /\ l_item \in [Upload!Tasks -> Upload!Item]
      /\ l_call \in [Requests -> Upload!Call] /\ l_row[t] \in Upload!Row
      /\ l_item[t] \in Upload!Item /\ l_call[c] \in Upload!Call
  BY DEF Upload!UploadInv, Upload!TypeOK
<1>g. ASSUME NEW pc, Upload!Goto(c, pc) PROVE l_call'[c].pc = pc /\ l_call'[c].task = t
  BY <1>g, <1>t DEF Upload!Goto, Upload!Call
<1>1. ASSUME Upload!Refuse(c)
      PROVE  /\ l_row'[t].upload = "failed" /\ l_row'[t].ready = l_row[t].ready
             /\ l_row'[t].owner = l_row[t].owner
             /\ UNCHANGED <<l_item, l_event>> /\ l_call[c].pc \in {"body", "put"}
  BY <1>1, <1>t DEF Upload!Refuse, Upload!FailLocalUpload, Upload!Row
<1>2. ASSUME Upload!MarkLocalDuplicate(c)
      PROVE  /\ l_row'[t].upload = "duplicate" /\ l_row'[t].ready
             /\ l_row'[t].owner = l_row[t].owner
             /\ UNCHANGED <<l_item, l_event, l_object, l_undone>>
             /\ l_call'[c].pc = "done" /\ l_call'[c].task = t /\ l_call[c].pc = "mark"
  BY <1>2, <1>t, <1>g DEF Upload!MarkLocalDuplicate, Upload!Row
<1>3. ASSUME Upload!FinalizeLocalUpload(c) \/ Upload!FinalizeFails(c)
      PROVE  /\ \/ /\ l_row'[t].upload = "uploaded" /\ l_row'[t].ready
                   /\ l_row'[t].owner = l_row[t].owner /\ l_item'[t].saved
                \/ UNCHANGED <<l_row, l_item, l_event>>
             /\ UNCHANGED <<l_object, l_undone>>
             /\ l_call'[c].pc \in {"undo", "done"} /\ l_call'[c].task = t
             /\ l_call[c].pc = "finalize"
  <2>1. ASSUME Upload!Finalized(t)
        PROVE  /\ l_row'[t].upload = "uploaded" /\ l_row'[t].ready
               /\ l_row'[t].owner = l_row[t].owner /\ l_item'[t].saved
    BY <2>1, <1>t DEF Upload!Finalized, Upload!Row, Upload!Item
  <2>2. Upload!Finalized(t) \/ UNCHANGED <<l_row, l_item, l_event>>
    BY <1>3 DEF Upload!FinalizeLocalUpload, Upload!FinalizeFails
  <2>3. UNCHANGED <<l_object, l_undone>> /\ l_call[c].pc = "finalize"
    BY <1>3 DEF Upload!FinalizeLocalUpload, Upload!FinalizeFails
  <2>4. l_call'[c].pc \in {"undo", "done"} /\ l_call'[c].task = t
    BY <1>3, <1>g DEF Upload!FinalizeLocalUpload, Upload!FinalizeFails
  <2> QED BY <2>1, <2>2, <2>3, <2>4
<1> QED BY <1>1, <1>2, <1>3

LEMMA RowSoundKept ==
    ASSUME Upload!UploadInv, Upload!Next, Upload!TypeOK', NEW t \in Upload!Tasks
    PROVE  RowSound(t)'
<1>0. RowSound(t) /\ \A c \in Requests : Upload!Backed(c)
  BY UploadParts
<1>t. /\ l_row \in [Upload!Tasks -> Upload!Row] /\ l_item \in [Upload!Tasks -> Upload!Item]
      /\ l_row[t] \in Upload!Row /\ l_item[t] \in Upload!Item /\ l_event[t] \in BOOLEAN
      /\ l_row'[t] \in Upload!Row /\ l_item'[t] \in Upload!Item
      /\ l_event \in [Upload!Tasks -> BOOLEAN]
  BY DEF Upload!UploadInv, Upload!TypeOK
<1>1. ASSUME l_row[t].ready
      PROVE  \E c \in Upload!CallsFor(t)' : l_call'[c].pc \in {"undo", "done"}
  <2>1. PICK c \in Upload!CallsFor(t) : l_call[c].pc \in {"undo", "done"}
    BY <1>0, <1>1 DEF RowSound
  <2> QED BY <2>1, CallsStay, UploadKeeps DEF Upload!CallsFor
<1>2. ASSUME NEW c \in Requests, l_call'[c].pc \in {"undo", "done"}, l_call'[c].task = t
      PROVE  \E d \in Upload!CallsFor(t)' : l_call'[d].pc \in {"undo", "done"}
  BY <1>2 DEF Upload!CallsFor
<1>3. CASE l_row'[t] = l_row[t] /\ l_item'[t] = l_item[t] /\ l_event'[t] = l_event[t]
  BY <1>0, <1>1, <1>3 DEF RowSound, Upload!Created
<1>4. CASE Upload!CreateLocalUploadTask(t)
  BY <1>0, <1>1, <1>4, <1>t DEF Upload!CreateLocalUploadTask, RowSound, Upload!Created, Upload!Row
<1>5. CASE Upload!Permit(t) \/ Upload!SyncFails(t)
  <2>1. l_row' = l_row
    BY <1>5 DEF Upload!Permit, Upload!Sync, Upload!TryMarkKnowledgeReady, Upload!SyncFails
  <2>2. CASE Upload!Sync(t) \/ Upload!SyncFails(t)
    <3>1. l_item'[t].saved = l_item[t].saved /\ l_item'[t].ready = l_item[t].ready
          /\ l_event' = l_event
      BY <2>2, <1>t DEF Upload!Sync, Upload!SyncFails, Upload!Item
    <3> QED BY <1>0, <1>1, <2>1, <3>1 DEF RowSound, Upload!Created
  <2>3. CASE Upload!TryMarkKnowledgeReady(t)
    <3>1. l_item'[t].saved /\ l_row[t].ready
      BY <2>3, <1>0, <1>t DEF Upload!TryMarkKnowledgeReady, Upload!SavedBytes, RowSound, Upload!Item
    <3> QED BY <1>0, <1>1, <2>1, <3>1 DEF RowSound, Upload!Created
  <2> QED BY <1>5, <2>2, <2>3 DEF Upload!Permit
<1>6. ASSUME NEW c \in Requests, l_call[c].task = t,
             \/ Upload!Refuse(c) \/ Upload!MarkLocalDuplicate(c)
             \/ Upload!FinalizeLocalUpload(c) \/ Upload!FinalizeFails(c)
      PROVE  RowSound(t)'
  <2>1. Upload!Created(t)
    BY <1>6, <1>0 DEF Upload!Backed, Upload!Refuse, Upload!MarkLocalDuplicate,
                      Upload!FinalizeLocalUpload, Upload!FinalizeFails
  <2>2. CASE Upload!Refuse(c)
    BY <1>0, <1>1, <1>6, <2>1, <2>2, RowWritten DEF RowSound, Upload!Created
  <2>3. CASE Upload!MarkLocalDuplicate(c)
    BY <1>0, <1>2, <1>6, <2>1, <2>3, RowWritten DEF RowSound, Upload!Created
  <2>4. CASE Upload!FinalizeLocalUpload(c) \/ Upload!FinalizeFails(c)
    <3>1. CASE UNCHANGED <<l_row, l_item, l_event>>
      BY <1>0, <1>1, <3>1 DEF RowSound, Upload!Created
    <3>2. CASE /\ l_row'[t].upload = "uploaded" /\ l_row'[t].ready
               /\ l_row'[t].owner = l_row[t].owner /\ l_item'[t].saved
      BY <1>2, <1>6, <2>1, <2>4, <3>2, RowWritten DEF RowSound, Upload!Created
    <3> QED BY <1>6, <2>4, <3>1, <3>2, RowWritten
  <2> QED BY <1>6, <2>2, <2>3, <2>4
<1> QED BY <1>3, <1>4, <1>5, <1>6, RowChanges

\* A duplicate keeps an original: owners and ready rows stay.
LEMMA OriginalKept ==
    ASSUME Upload!UploadInv, Upload!Next, Upload!TypeOK', NEW t \in Upload!Tasks
    PROVE  Original(t)'
<1>0. Original(t) /\ RowSound(t) /\ \A c \in Requests : Upload!Backed(c)
  BY UploadParts
<1>t. /\ l_row[t] \in Upload!Row /\ l_row \in [Upload!Tasks -> Upload!Row]
      /\ \A s \in Upload!Tasks : RowSound(s)
  BY UploadParts DEF Upload!TypeOK
<1>1. ASSUME NEW s \in Upload!Tasks \ {t}, l_row[s].owner = l_row[t].owner, l_row[s].ready,
             l_row'[t].owner = l_row[t].owner
      PROVE  l_row'[s].owner = l_row'[t].owner /\ l_row'[s].ready
  <2>1. Upload!Created(s)
    BY <1>1, <1>t DEF RowSound
  <2> QED BY <1>1, <2>1, UploadKeeps
<1>2. CASE l_row'[t].upload = l_row[t].upload /\ l_row'[t].owner = l_row[t].owner
  BY <1>0, <1>1, <1>2 DEF Original
<1>3. CASE Upload!CreateLocalUploadTask(t)
  <2>1. l_row'[t].upload = l_row[t].upload /\ ~Upload!Created(t)
    BY <1>3, <1>t DEF Upload!CreateLocalUploadTask, Upload!Row
  <2>2. l_row[t].upload # "duplicate"
    BY <1>0, <2>1 DEF RowSound
  <2> QED BY <2>1, <2>2 DEF Original
<1>4. CASE Upload!Permit(t) \/ Upload!SyncFails(t)
  <2>1. l_row' = l_row
    BY <1>4 DEF Upload!Permit, Upload!Sync, Upload!TryMarkKnowledgeReady, Upload!SyncFails
  <2> QED BY <1>2, <2>1
<1>5. ASSUME NEW c \in Requests, l_call[c].task = t,
             \/ Upload!Refuse(c) \/ Upload!MarkLocalDuplicate(c)
             \/ Upload!FinalizeLocalUpload(c) \/ Upload!FinalizeFails(c)
      PROVE  Original(t)'
  <2>1. CASE Upload!MarkLocalDuplicate(c)
    <3>1. l_row'[t].owner = l_row[t].owner /\ l_call[c].pc = "mark"
      BY <1>5, <2>1, RowWritten
    <3>2. PICK s \in Upload!Tasks \ {t} : l_row[s].owner = l_row[t].owner /\ l_row[s].ready
      BY <1>0, <1>5, <3>1 DEF Upload!Backed
    <3> QED BY <1>1, <3>1, <3>2 DEF Original
  <2>2. CASE Upload!Refuse(c)
    BY <1>5, <2>2, RowWritten DEF Original
  <2>3. CASE Upload!FinalizeLocalUpload(c) \/ Upload!FinalizeFails(c)
    <3>1. l_row'[t].upload = "uploaded" \/ l_row' = l_row
      BY <1>5, <2>3, RowWritten
    <3>2. CASE l_row'[t].upload = "uploaded"
      BY <3>2 DEF Original
    <3> QED BY <1>2, <3>1, <3>2
  <2> QED BY <1>5, <2>1, <2>2, <2>3
<1> QED BY <1>2, <1>3, <1>4, <1>5, RowChanges

\* A call that fails a row that names the object is not the call that wrote it.
LEMMA FailedTwiceKept ==
    ASSUME Upload!UploadInv, Upload!Next, Upload!TypeOK', NEW t \in Upload!Tasks
    PROVE  FailedTwice(t)'
<1>0. FailedTwice(t) /\ RowSound(t) /\ \A c \in Requests : Upload!Backed(c)
  BY UploadParts
<1>1. ASSUME NEW c \in Upload!CallsFor(t), NEW d \in Upload!CallsFor(t), c # d
      PROVE  FailedTwice(t)'
  BY <1>1, CallsStay DEF FailedTwice
<1>2. CASE l_row'[t].upload = l_row[t].upload /\ l_row'[t].ready = l_row[t].ready
  BY <1>0, <1>1, <1>2 DEF FailedTwice
<1>3. CASE Upload!CreateLocalUploadTask(t)
  BY <1>2, <1>3 DEF Upload!CreateLocalUploadTask, Upload!UploadInv, Upload!TypeOK, Upload!Row
<1>4. CASE Upload!Permit(t) \/ Upload!SyncFails(t)
  <2>1. l_row' = l_row
    BY <1>4 DEF Upload!Permit, Upload!Sync, Upload!TryMarkKnowledgeReady, Upload!SyncFails
  <2> QED BY <1>2, <2>1
<1>5. ASSUME NEW c \in Requests, l_call[c].task = t,
             \/ Upload!Refuse(c) \/ Upload!MarkLocalDuplicate(c)
             \/ Upload!FinalizeLocalUpload(c) \/ Upload!FinalizeFails(c)
      PROVE  FailedTwice(t)'
  <2>1. CASE Upload!Refuse(c)
    <3>1. l_row'[t].ready = l_row[t].ready /\ l_call[c].pc \in {"body", "put"}
      BY <1>5, <2>1, RowWritten
    <3>2. CASE l_row[t].ready
      <4>1. PICK d \in Upload!CallsFor(t) : l_call[d].pc \in {"undo", "done"}
        BY <1>0, <3>2 DEF RowSound
      <4>2. c # d /\ c \in Upload!CallsFor(t)
        BY <1>5, <3>1, <4>1 DEF Upload!CallsFor
      <4> QED BY <1>1, <4>1, <4>2
    <3>3. CASE ~ l_row[t].ready
      BY <3>1, <3>3 DEF FailedTwice
    <3> QED BY <3>2, <3>3
  <2>2. CASE Upload!MarkLocalDuplicate(c)
    BY <1>5, <2>2, RowWritten DEF FailedTwice
  <2>3. CASE Upload!FinalizeLocalUpload(c) \/ Upload!FinalizeFails(c)
    <3>1. l_row'[t].upload = "uploaded" \/ l_row' = l_row
      BY <1>5, <2>3, RowWritten
    <3>2. CASE l_row'[t].upload = "uploaded"
      BY <3>2 DEF FailedTwice
    <3> QED BY <1>2, <3>1, <3>2
  <2> QED BY <1>5, <2>1, <2>2, <2>3
<1> QED BY <1>2, <1>3, <1>4, <1>5, RowChanges

\* The object goes only when a call takes it back, and then undone says whether a row
\* or a call that will write one has lost it.
LEMMA StoredKept ==
    ASSUME Upload!UploadInv, Upload!Next, Upload!TypeOK', NEW t \in Upload!Tasks, l_row'[t].ready
    PROVE  l_object' \/ l_undone'
<1>0. /\ l_row[t].ready => l_object \/ l_undone
      /\ \A c \in Requests : Upload!Backed(c)
      /\ \A s \in Upload!Tasks : l_row[s].ready => l_object \/ l_undone
  BY UploadParts
<1>t. /\ l_row[t] \in Upload!Row /\ l_row \in [Upload!Tasks -> Upload!Row]
      /\ l_object \in BOOLEAN /\ l_undone \in BOOLEAN
  BY DEF Upload!UploadInv, Upload!TypeOK
<1>1. CASE l_row[t].ready
  <2>1. ASSUME NEW c \in Requests, Upload!Serve(c) PROVE l_object' \/ l_undone'
    <3>1. CASE Upload!Put(c) \/ Upload!DeleteObject(c)
      BY <1>1, <3>1 DEF Upload!Put, Upload!DeleteObject
    <3>2. CASE ~ (Upload!Put(c) \/ Upload!DeleteObject(c))
      <4>1. UNCHANGED <<l_object, l_undone>>
        BY <2>1, <3>2 DEF Upload!Serve, Upload!GetLocalUploadTask, Upload!ReadBody, Upload!Refuse,
             Upload!FindLocalDuplicate, Upload!MarkLocalDuplicate, Upload!FinalizeLocalUpload,
             Upload!FinalizeFails, Upload!Crash
      <4> QED BY <1>0, <1>1, <4>1
    <3> QED BY <3>1, <3>2
  <2>2. ASSUME NEW s \in Upload!Tasks,
               Upload!CreateLocalUploadTask(s) \/ Upload!Permit(s) \/ Upload!SyncFails(s)
        PROVE  l_object' \/ l_undone'
    BY <1>0, <1>1, <2>2 DEF Upload!CreateLocalUploadTask, Upload!Permit, Upload!Sync,
                            Upload!TryMarkKnowledgeReady, Upload!SyncFails
  <2> QED BY <2>1, <2>2 DEF Upload!Next
<1>2. CASE ~ l_row[t].ready
  <2>1. l_row'[t] # l_row[t]
    BY <1>2
  <2>2. ~ (Upload!CreateLocalUploadTask(t) \/ Upload!Permit(t) \/ Upload!SyncFails(t))
    BY <1>2, <1>t DEF Upload!CreateLocalUploadTask, Upload!Permit, Upload!Sync,
                      Upload!TryMarkKnowledgeReady, Upload!SyncFails, Upload!Row
  <2>3. PICK c \in Requests : /\ l_call[c].task = t
                              /\ \/ Upload!Refuse(c) \/ Upload!MarkLocalDuplicate(c)
                                 \/ Upload!FinalizeLocalUpload(c) \/ Upload!FinalizeFails(c)
    BY <2>1, <2>2, RowChanges
  <2>4. ~ Upload!Refuse(c)
    BY <1>2, <2>3, RowWritten
  <2>5. UNCHANGED <<l_object, l_undone>> /\ l_call[c].pc \in {"mark", "finalize"}
    BY <2>3, <2>4, RowWritten
  <2> QED BY <1>0, <2>5 DEF Upload!Backed
<1> QED BY <1>1, <1>2

\* A call that has put the object has it, until another takes it back, and one that
\* has found an original keeps it.
LEMMA BackedKept ==
    ASSUME Upload!UploadInv, Upload!Next, Upload!TypeOK', NEW c \in Requests
    PROVE  Upload!Backed(c)'
<1>0. /\ \A d \in Requests : Upload!Backed(d)
      /\ \A t \in Upload!Tasks : RowSound(t)
  BY UploadParts
<1>t. /\ l_row \in [Upload!Tasks -> Upload!Row] /\ l_call \in [Requests -> Upload!Call]
      /\ l_call[c] \in Upload!Call /\ l_call'[c] \in Upload!Call
      /\ l_object \in BOOLEAN /\ l_undone \in BOOLEAN
  BY DEF Upload!UploadInv, Upload!TypeOK
\* The task of a call that has begun is a created one, and stays.
<1>1. ASSUME l_call[c].pc # "new"
      PROVE  /\ l_call'[c].task = l_call[c].task /\ l_call'[c].pc # "new"
             /\ l_call[c].task \in Upload!Tasks
             /\ l_row'[l_call[c].task].owner = l_row[l_call[c].task].owner
             /\ l_row[l_call[c].task].owner # "none"
  BY <1>0, <1>1, UploadKeeps DEF Upload!Backed, Upload!Created, Upload!None
\* What an original is stays one.
<1>2. ASSUME l_call[c].pc # "new", NEW s \in Upload!Tasks \ {l_call[c].task},
             l_row[s].owner = l_row[l_call[c].task].owner, l_row[s].ready
      PROVE  l_row'[s].owner = l_row'[l_call'[c].task].owner /\ l_row'[s].ready
             /\ s # l_call'[c].task
  BY <1>1, <1>2, UploadKeeps DEF Upload!Created, Upload!None
<1>3. ASSUME NEW t \in Upload!Tasks, Upload!GetLocalUploadTask(c, t) PROVE Upload!Backed(c)'
  BY <1>3, <1>t DEF Upload!GetLocalUploadTask, Upload!Backed, Upload!Created
<1>4. CASE l_call'[c] = l_call[c]
  <2>1. CASE l_call[c].pc = "new"
    BY <1>0, <1>4, <2>1 DEF Upload!Backed
  <2>2. CASE l_call[c].pc # "new"
    <3>1. l_call'[c].pc = "mark" =>
             \E s \in Upload!Tasks \ {l_call'[c].task} :
                l_row'[s].owner = l_row'[l_call'[c].task].owner /\ l_row'[s].ready
      BY <1>0, <1>2, <1>4, <2>2 DEF Upload!Backed
    <3>2. ASSUME l_call[c].pc = "finalize" PROVE l_object' \/ l_undone'
      <4>1. l_object \/ l_undone
        BY <1>0, <3>2 DEF Upload!Backed
      <4>2. ASSUME NEW d \in Requests, Upload!DeleteObject(d) PROVE l_undone'
        BY <3>2, <4>2 DEF Upload!DeleteObject
      <4>3. ASSUME NEW d \in Requests, Upload!Put(d) PROVE l_object'
        BY <4>3 DEF Upload!Put
      <4>4. ASSUME ~ \E d \in Requests : Upload!DeleteObject(d) \/ Upload!Put(d)
            PROVE  UNCHANGED <<l_object, l_undone>>
        BY <4>4 DEF Upload!Next, Upload!Serve, Upload!GetLocalUploadTask, Upload!ReadBody,
             Upload!Refuse, Upload!FindLocalDuplicate, Upload!MarkLocalDuplicate,
             Upload!FinalizeLocalUpload, Upload!FinalizeFails, Upload!Crash,
             Upload!CreateLocalUploadTask, Upload!Permit, Upload!Sync,
             Upload!TryMarkKnowledgeReady, Upload!SyncFails
      <4> QED BY <4>1, <4>2, <4>3, <4>4
    <3> QED BY <1>1, <1>4, <2>2, <3>1, <3>2 DEF Upload!Backed, Upload!Created, Upload!None
  <2> QED BY <2>1, <2>2
<1>5. CASE Upload!Put(c)
  <2>1. l_call'[c].pc = "finalize" /\ l_object'
    BY <1>5, <1>t DEF Upload!Put, Upload!Goto, Upload!Call
  <2>2. l_call[c].pc # "new"
    BY <1>5 DEF Upload!Put
  <2> QED BY <1>1, <2>1, <2>2 DEF Upload!Backed, Upload!Created, Upload!None
<1>6. CASE Upload!FindLocalDuplicate(c)
  <2> DEFINE t == l_call[c].task
             of == Upload!Uploaded(l_row[t].owner)
             first == CHOOSE s \in of : \A u \in of : s <= u
  <2>1. l_call[c].pc = "find" /\ l_row' = l_row
    BY <1>6 DEF Upload!FindLocalDuplicate
  <2>2. ASSUME of # {} PROVE first \in of
    <3>1. of \in SUBSET Nat
      BY KnowledgeAssumption DEF Upload!Uploaded, Upload!Tasks
    <3> HIDE DEF of
    <3> QED BY <2>2, <3>1, Least
  <2>3. \/ Upload!Goto(c, "mark") /\ of # {} /\ first # t
        \/ Upload!Goto(c, "put")
    BY <1>6 DEF Upload!FindLocalDuplicate
  <2>4. CASE Upload!Goto(c, "put")
    <3>1. l_call'[c].pc = "put"
      BY <2>4, <1>t DEF Upload!Goto, Upload!Call
    <3> QED BY <1>1, <2>1, <3>1 DEF Upload!Backed, Upload!Created, Upload!None
  <2>5. CASE Upload!Goto(c, "mark") /\ of # {} /\ first # t
    <3>1. l_call'[c].pc = "mark"
      BY <2>5, <1>t DEF Upload!Goto, Upload!Call
    <3>2. first \in Upload!Tasks \ {t} /\ l_row[first].owner = l_row[t].owner
          /\ l_row[first].upload \in {"uploaded", "duplicate"}
      BY <2>2, <2>5 DEF Upload!Uploaded
    <3> HIDE DEF first
    <3>3. l_row[first].ready
      BY <1>0, <3>2 DEF RowSound
    <3>4. \E s \in Upload!Tasks \ {l_call'[c].task} :
             l_row'[s].owner = l_row'[l_call'[c].task].owner /\ l_row'[s].ready
      BY <1>1, <2>1, <3>2, <3>3
    <3> QED BY <1>1, <2>1, <3>1, <3>4 DEF Upload!Backed, Upload!Created, Upload!None
  <2> QED BY <2>3, <2>4, <2>5
<1>7. CASE \/ Upload!ReadBody(c) \/ Upload!Refuse(c) \/ Upload!MarkLocalDuplicate(c)
           \/ Upload!FinalizeLocalUpload(c) \/ Upload!FinalizeFails(c) \/ Upload!DeleteObject(c)
           \/ Upload!Crash(c)
  <2>1. l_call[c].pc # "new"
    BY <1>7 DEF Upload!ReadBody, Upload!Refuse, Upload!MarkLocalDuplicate,
         Upload!FinalizeLocalUpload, Upload!FinalizeFails, Upload!DeleteObject, Upload!Crash
  <2>2. \E pc \in {"find", "done", "undo"} : Upload!Goto(c, pc)
    BY <1>7 DEF Upload!ReadBody, Upload!Refuse, Upload!MarkLocalDuplicate,
         Upload!FinalizeLocalUpload, Upload!FinalizeFails, Upload!DeleteObject, Upload!Crash
  <2>3. l_call'[c].pc \in {"find", "done", "undo"}
    BY <2>2, <1>t DEF Upload!Goto, Upload!Call
  <2> QED BY <1>1, <2>1, <2>3 DEF Upload!Backed, Upload!Created, Upload!None
<1>8. ASSUME NEW d \in Requests \ {c}, Upload!Serve(d) PROVE l_call'[c] = l_call[c]
  BY <1>8, <1>t DEF Upload!Serve, Upload!GetLocalUploadTask, Upload!ReadBody, Upload!Refuse,
       Upload!FindLocalDuplicate, Upload!MarkLocalDuplicate, Upload!FinalizeLocalUpload,
       Upload!FinalizeFails, Upload!Crash, Upload!Put, Upload!DeleteObject, Upload!Goto
<1>9. ASSUME NEW t \in Upload!Tasks,
             Upload!CreateLocalUploadTask(t) \/ Upload!Permit(t) \/ Upload!SyncFails(t)
      PROVE  l_call' = l_call
  BY <1>9 DEF Upload!CreateLocalUploadTask, Upload!Permit, Upload!Sync,
              Upload!TryMarkKnowledgeReady, Upload!SyncFails
<1> QED BY <1>3, <1>4, <1>5, <1>6, <1>7, <1>8, <1>9 DEF Upload!Next, Upload!Serve

LEMMA UploadStep ==
    ASSUME Upload!UploadInv, Upload!Next
    PROVE  Upload!UploadInv'
<1>1. Upload!TypeOK'
  BY UploadTypes
<1>2. /\ \A c \in Requests : Upload!Backed(c)'
      /\ \A t \in Upload!Tasks : RowSound(t)' /\ Original(t)' /\ FailedTwice(t)'
                                 /\ (l_row'[t].ready => l_object' \/ l_undone')
  BY <1>1, BackedKept, RowSoundKept, OriginalKept, FailedTwiceKept, StoredKept
<1> QED
  BY <1>1, <1>2 DEF Upload!UploadInv, Upload!RowsTellTheTruth, RowSound, Original, FailedTwice

LEMMA UploadStart == Upload!Init => Upload!UploadInv
<1> SUFFICES ASSUME Upload!Init PROVE Upload!UploadInv
  OBVIOUS
<1>1. /\ [owner |-> "none", upload |-> "pending", ready |-> FALSE] \in Upload!Row
      /\ [saved |-> FALSE, permission |-> "pending", ready |-> FALSE] \in Upload!Item
      /\ [pc |-> "new", task |-> 0] \in Upload!Call
  BY DEF Upload!Row, Upload!Item, Upload!Call, Upload!Statuses, Upload!None
<1>2. Upload!TypeOK
  BY <1>1 DEF Upload!Init, Upload!TypeOK, Upload!None
<1>3. \A c \in Requests : Upload!Backed(c)
  BY DEF Upload!Init, Upload!Backed
<1>4. \A t \in Upload!Tasks : RowSound(t) /\ Original(t) /\ FailedTwice(t)
                              /\ (l_row[t].ready => l_object \/ l_undone)
  BY DEF Upload!Init, RowSound, Original, FailedTwice
<1> QED BY <1>2, <1>3, <1>4, UploadParts
-----------------------------------------------------------------------------
(* Profiles.  A fact is stored for the sender its row then has, and every     *)
(* correction of a sender whose facts were stored is remembered in moved: so  *)
(* a refresh that has listed a message finds its fact in the next query.      *)

LEMMA ProfileTypes ==
    ASSUME Profile!TypeOK, Profile!Next
    PROVE  Profile!TypeOK'
<1> USE DEF Profile!TypeOK, Profile!None
<1>m. ASSUME NEW m \in 1..N
      PROVE  /\ [f_msg[m] EXCEPT !.facts = "pending"] \in Profile!Message
             /\ [f_msg[m] EXCEPT !.facts = "succeeded"] \in Profile!Message
             /\ [f_msg[m] EXCEPT !.active = FALSE] \in Profile!Message
             /\ \A s \in Profile!Senders : [f_msg[m] EXCEPT !.sender = s] \in Profile!Message
             /\ f_msg[m].sender \in Profile!Senders
  BY DEF Profile!Message
<1>r. ASSUME NEW p \in Workers
      PROVE  /\ f_run[p].material \in SUBSET (1..N) /\ f_run[p].old \in SUBSET (1..N)
             /\ \A S \in SUBSET (1..N) :
                  /\ [f_run[p] EXCEPT !.pc = "facts", !.material = S] \in Profile!Run
                  /\ [f_run[p] EXCEPT !.pc = "save", !.material = S] \in Profile!Run
                  /\ [pc |-> "list", old |-> S, material |-> {}] \in Profile!Run
             /\ Profile!Idle \in Profile!Run
             /\ f_profile.summary \in SUBSET (1..N)
  BY DEF Profile!Run, Profile!Idle, Profile!Profile
<1>1. ASSUME NEW m \in 1..N,
             \/ Profile!CompleteMessageClassification(m) \/ Profile!Reclassify(m)
             \/ Profile!Delete(m) \/ Profile!CorrectSender(m)
      PROVE  Profile!TypeOK'
  <2>1. f_msg' \in [1..N -> Profile!Message]
    BY ZenonT(40), <1>1, <1>m DEF Profile!CompleteMessageClassification, Profile!Reclassify, Profile!Delete,
                      Profile!CorrectSender
  <2> QED
    BY <1>1, <2>1 DEF Profile!CompleteMessageClassification, Profile!Reclassify, Profile!Delete,
                      Profile!CorrectSender
<1>2. ASSUME NEW m \in 1..N, Profile!ProcessContactFacts(m) PROVE Profile!TypeOK'
  <2>1. f_msg' \in [1..N -> Profile!Message]
    BY <1>2, <1>m DEF Profile!ProcessContactFacts, Profile!CompleteContactFactExtraction
  <2>2. f_fact' \in [1..N -> Profile!Senders \cup {"none"}]
    BY <1>2, <1>m DEF Profile!ProcessContactFacts, Profile!CompleteContactFactExtraction
  <2> QED BY <1>2, <2>1, <2>2 DEF Profile!ProcessContactFacts
<1>3. ASSUME Profile!Grant PROVE Profile!TypeOK'
  BY <1>3 DEF Profile!Grant
<1>4. ASSUME Profile!IntervalEnds PROVE Profile!TypeOK'
  <2>1. [f_profile EXCEPT !.aged = TRUE] \in Profile!Profile
    BY DEF Profile!Profile
  <2> QED BY <1>4, <2>1 DEF Profile!IntervalEnds
<1>5. ASSUME NEW p \in Workers,
             \/ Profile!ProcessContactProfiles(p) \/ Profile!RefreshContactProfile(p)
             \/ Profile!VisibleMessages(p) \/ Profile!ExcludeFacts(p) \/ Profile!Abandon(p)
      PROVE  Profile!TypeOK'
  <2>1. ASSUME Profile!Begin(p) PROVE f_run' \in [Workers -> Profile!Run]
    BY <2>1, <1>r DEF Profile!Begin
  <2>2. ASSUME Profile!VisibleMessages(p) PROVE f_run' \in [Workers -> Profile!Run]
    <3>1. Profile!Listed \in SUBSET (1..N) /\ (Profile!Listed \ Shared) \in SUBSET (1..N)
      BY DEF Profile!Listed
    <3>2. PICK S \in SUBSET (1..N) :
             f_run' = [f_run EXCEPT ![p].pc = "facts", ![p].material = S]
      BY <2>2, <3>1 DEF Profile!VisibleMessages
    <3> QED BY <3>2, <1>r
  <2>3. ASSUME Profile!ExcludeFacts(p) PROVE f_run' \in [Workers -> Profile!Run]
    <3>1. (f_run[p].material \ Profile!WithFacts) \in SUBSET (1..N)
      BY <1>r
    <3>2. f_run' = [f_run EXCEPT ![p].pc = "save",
                                 ![p].material = f_run[p].material \ Profile!WithFacts]
      BY <2>3 DEF Profile!ExcludeFacts
    <3> QED BY <3>1, <3>2, <1>r
  <2>4. ASSUME Profile!Abandon(p) PROVE f_run' \in [Workers -> Profile!Run]
    BY <2>4, <1>r DEF Profile!Abandon
  <2> QED
    BY <1>5, <2>1, <2>2, <2>3, <2>4
    DEF Profile!ProcessContactProfiles, Profile!RefreshContactProfile, Profile!Begin,
        Profile!VisibleMessages, Profile!ExcludeFacts, Profile!Abandon
<1>6. ASSUME NEW p \in Workers, Profile!Summarize(p) \/ Profile!SummarizeFails(p)
      PROVE  Profile!TypeOK'
  <2>1. /\ [summary |-> f_run[p].material, status |-> "ready", aged |-> FALSE] \in Profile!Profile
        /\ [summary |-> f_run[p].old, status |-> "failed", aged |-> f_profile.aged]
              \in Profile!Profile
    BY <1>r DEF Profile!Profile
  <2>2. f_profile' \in Profile!Profile /\ f_run' \in [Workers -> Profile!Run]
    BY <1>6, <2>1, <1>r DEF Profile!Summarize, Profile!SummarizeFails, Profile!Upsert
  <2> QED BY <1>6, <2>2 DEF Profile!Summarize, Profile!SummarizeFails, Profile!Upsert
<1> QED
  BY <1>1, <1>2, <1>3, <1>4, <1>5, <1>6
  DEF Profile!Next, Profile!Prepare, Profile!Work, Profile!Refresh

\* moved only grows.
LEMMA MovedStays == ASSUME Profile!Next PROVE f_moved \subseteq f_moved'
BY DEF Profile!Next, Profile!Prepare, Profile!Work, Profile!Refresh, Profile!Grant,
   Profile!IntervalEnds, Profile!CompleteMessageClassification, Profile!ProcessContactFacts,
   Profile!Reclassify, Profile!CorrectSender, Profile!Delete, Profile!ProcessContactProfiles,
   Profile!RefreshContactProfile, Profile!Begin, Profile!VisibleMessages, Profile!ExcludeFacts,
   Profile!Summarize, Profile!SummarizeFails, Profile!Upsert, Profile!Abandon

\* The steps of messages: facts go with the sender unless the message has moved.
LEMMA ExtractionKept ==
    ASSUME Profile!ProfileInv, Profile!Next, NEW m \in 1..N
    PROVE  Profile!Extraction(m)' /\ (f_fact[m] = "contact" /\ m \in HasFacts /\ m \notin f_moved'
                                         => f_fact'[m] = "contact")
<1>0. Profile!Extraction(m) /\ Profile!TypeOK
  BY DEF Profile!ProfileInv
<1>t. /\ f_msg \in [1..N -> Profile!Message] /\ f_msg[m] \in Profile!Message
      /\ f_fact \in [1..N -> {"contact", "other", "none"}]
  BY <1>0 DEF Profile!TypeOK, Profile!Senders, Profile!None
<1> USE DEF Profile!Extraction, Profile!None
<1>1. ASSUME NEW k \in 1..N, Profile!CompleteMessageClassification(k) \/ Profile!Reclassify(k)
                             \/ Profile!Delete(k)
      PROVE  Profile!Extraction(m)' /\ f_fact' = f_fact
  <2>1. f_fact' = f_fact /\ f_moved' = f_moved
    BY <1>1 DEF Profile!CompleteMessageClassification, Profile!Reclassify, Profile!Delete
  <2>2. m # k => f_msg'[m] = f_msg[m]
    BY <1>1, <1>t DEF Profile!CompleteMessageClassification, Profile!Reclassify, Profile!Delete
  <2>3. CASE Profile!CompleteMessageClassification(k) \/ Profile!Reclassify(k)
    <3>1. f_msg' = [f_msg EXCEPT ![k].facts = "pending"]
      BY <2>3 DEF Profile!CompleteMessageClassification, Profile!Reclassify
    <3>2. m = k => f_msg'[m].sender = f_msg[m].sender /\ f_msg'[m].facts = "pending"
      BY <3>1, <1>t DEF Profile!Message
    <3> QED BY <1>0, <2>1, <2>2, <3>2
  <2>4. CASE Profile!Delete(k)
    <3>1. f_msg' = [f_msg EXCEPT ![k].active = FALSE]
      BY <2>4 DEF Profile!Delete
    <3>2. m = k => f_msg'[m].sender = f_msg[m].sender /\ f_msg'[m].facts = f_msg[m].facts
      BY <3>1, <1>t DEF Profile!Message
    <3> QED BY <1>0, <2>1, <2>2, <3>2
  <2> QED BY <1>1, <2>3, <2>4
<1>2. ASSUME NEW k \in 1..N, Profile!CorrectSender(k)
      PROVE  Profile!Extraction(m)' /\ f_fact' = f_fact
  <2>1. f_fact' = f_fact /\ f_moved' = IF f_fact[k] = "none" THEN f_moved ELSE f_moved \cup {k}
    BY <1>2 DEF Profile!CorrectSender
  <2>2. f_msg'[m].facts = f_msg[m].facts /\ (m # k => f_msg'[m] = f_msg[m])
    BY <1>2, <1>t DEF Profile!CorrectSender, Profile!Message
  <2> QED BY <1>0, <2>1, <2>2
<1>3. ASSUME NEW k \in 1..N, Profile!ProcessContactFacts(k)
      PROVE  Profile!Extraction(m)' /\ (f_fact[m] = "contact" /\ m \in HasFacts /\ m \notin f_moved'
                                          => f_fact'[m] = "contact")
  <2>1. f_moved' = f_moved
    BY <1>3 DEF Profile!ProcessContactFacts
  <2>2. m # k => f_msg'[m] = f_msg[m] /\ f_fact'[m] = f_fact[m]
    BY <1>3, <1>t DEF Profile!ProcessContactFacts, Profile!CompleteContactFactExtraction
  <2>3. m = k => /\ f_msg'[m].sender = f_msg[m].sender
                 /\ f_fact'[m] = IF m \in HasFacts THEN f_msg[m].sender ELSE "none"
    BY <1>3, <1>t DEF Profile!ProcessContactFacts, Profile!CompleteContactFactExtraction,
                      Profile!Message
  <2>4. f_msg[m].sender \in {"contact", "other"}
    BY <1>t DEF Profile!Message, Profile!Senders
  <2> QED BY <1>0, <2>1, <2>2, <2>3, <2>4
<1>4. ASSUME UNCHANGED <<f_msg, f_fact, f_moved>> PROVE Profile!Extraction(m)' /\ f_fact' = f_fact
  BY <1>0, <1>4
<1>5. ASSUME \/ Profile!Grant \/ Profile!IntervalEnds
             \/ \E p \in Workers : Profile!Work(p) \/ Profile!RefreshContactProfile(p)
                                   \/ Profile!Abandon(p)
      PROVE  UNCHANGED <<f_msg, f_fact, f_moved>>
  BY <1>5 DEF Profile!Work, Profile!Refresh, Profile!Grant, Profile!IntervalEnds,
     Profile!ProcessContactProfiles, Profile!RefreshContactProfile, Profile!Begin,
     Profile!VisibleMessages, Profile!ExcludeFacts, Profile!Summarize, Profile!SummarizeFails,
     Profile!Upsert, Profile!Abandon
<1> QED BY <1>1, <1>2, <1>3, <1>4, <1>5 DEF Profile!Next, Profile!Prepare

\* The steps of a refresh: what it lists has its facts stored, what it sums up has none.
CleanRun(p, m) ==
    /\ m \notin f_run[p].old
    /\ f_run[p].pc = "facts" /\ m \in f_run[p].material => f_fact[m] = "contact"
    /\ f_run[p].pc = "save" => m \notin f_run[p].material

LEMMA ProfileParts ==
    Profile!ProfileInv <=>
       /\ Profile!TypeOK /\ \A m \in 1..N : Profile!Extraction(m)
       /\ \A m \in HasFacts \ f_moved :
             m \notin f_profile.summary /\ \A p \in Workers : CleanRun(p, m)
BY DEF Profile!ProfileInv, Profile!FactsStayOut, Profile!Clean, CleanRun

LEMMA CleanKept ==
    ASSUME Profile!ProfileInv, Profile!Next, NEW m \in HasFacts \ f_moved'
    PROVE  m \notin f_profile'.summary /\ \A p \in Workers : CleanRun(p, m)'
<1>0. /\ Profile!TypeOK /\ Profile!Extraction(m) /\ m \in 1..N /\ m \notin f_moved
      /\ m \notin f_profile.summary /\ \A p \in Workers : CleanRun(p, m)
      /\ f_run \in [Workers -> Profile!Run] /\ \A p \in Workers : f_run[p] \in Profile!Run
  BY ProfileParts, MovedStays, KnowledgeAssumption DEF Profile!TypeOK
<1>1. f_fact[m] = "contact" => f_fact'[m] = "contact"
  BY <1>0, ExtractionKept
<1>2. ASSUME UNCHANGED <<f_profile, f_run>>
      PROVE  m \notin f_profile'.summary /\ \A p \in Workers : CleanRun(p, m)'
  BY <1>0, <1>1, <1>2 DEF CleanRun
<1>3. ASSUME Profile!IntervalEnds
      PROVE  m \notin f_profile'.summary /\ \A p \in Workers : CleanRun(p, m)'
  BY <1>0, <1>1, <1>3 DEF CleanRun, Profile!IntervalEnds, Profile!TypeOK, Profile!Profile
<1>4. ASSUME NEW q \in Workers, Profile!Work(q) \/ Profile!RefreshContactProfile(q)
                                \/ Profile!Abandon(q)
      PROVE  m \notin f_profile'.summary /\ \A p \in Workers : CleanRun(p, m)'
  <2>o. ASSUME NEW p \in Workers \ {q}, f_run'[p] = f_run[p] PROVE CleanRun(p, m)'
    BY <1>0, <1>1, <2>o DEF CleanRun
  <2>1. CASE Profile!Begin(q)
    <3>1. f_profile' = f_profile
      BY <2>1 DEF Profile!Begin
    <3>2. CleanRun(q, m)'
      BY <1>0, <2>1 DEF Profile!Begin, CleanRun
    <3> QED BY <1>0, <2>o, <2>1, <3>1, <3>2 DEF Profile!Begin
  <2>2. CASE Profile!VisibleMessages(q)
    <3>1. PICK S : /\ S \subseteq Profile!Listed
                   /\ f_run' = [f_run EXCEPT ![q].pc = "facts", ![q].material = S]
      BY <2>2 DEF Profile!VisibleMessages
    <3>2. m \in S => f_fact[m] = "contact"
      BY <1>0, <3>1 DEF Profile!Listed, Profile!Extracted, Profile!Extraction
    <3>3. f_profile' = f_profile /\ f_fact' = f_fact
      BY <2>2 DEF Profile!VisibleMessages
    <3>4. f_run'[q].pc = "facts" /\ f_run'[q].material = S /\ f_run'[q].old = f_run[q].old
      BY <3>1, <1>0 DEF Profile!Run
    <3>5. CleanRun(q, m)'
      BY <1>0, <3>2, <3>3, <3>4 DEF CleanRun
    <3> QED BY <1>0, <2>o, <3>1, <3>3, <3>5
  <2>3. CASE Profile!ExcludeFacts(q)
    <3>1. /\ f_run' = [f_run EXCEPT ![q].pc = "save",
                                    ![q].material = f_run[q].material \ Profile!WithFacts]
          /\ f_profile' = f_profile /\ f_run[q].pc = "facts"
      BY <2>3 DEF Profile!ExcludeFacts
    <3>2. m \notin f_run[q].material \ Profile!WithFacts
      BY <1>0, <3>1 DEF CleanRun, Profile!WithFacts
    <3>3. /\ f_run'[q].pc = "save" /\ f_run'[q].old = f_run[q].old
          /\ f_run'[q].material = f_run[q].material \ Profile!WithFacts
      BY <3>1, <1>0 DEF Profile!Run
    <3>4. CleanRun(q, m)'
      BY <1>0, <3>2, <3>3 DEF CleanRun
    <3> QED BY <1>0, <2>o, <3>1, <3>4
  <2>4. CASE Profile!Summarize(q) \/ Profile!SummarizeFails(q)
    <3>1. f_profile'.summary \in {f_run[q].material, f_run[q].old} /\ f_run[q].pc = "save"
          /\ f_run' = [f_run EXCEPT ![q] = Profile!Idle]
      BY <2>4 DEF Profile!Summarize, Profile!SummarizeFails, Profile!Upsert
    <3>2. m \notin f_profile'.summary
      BY <1>0, <3>1 DEF CleanRun
    <3>3. CleanRun(q, m)'
      BY <1>0, <3>1 DEF CleanRun, Profile!Idle
    <3> QED BY <1>0, <2>o, <3>1, <3>2, <3>3
  <2>5. CASE Profile!Abandon(q)
    <3>1. f_run' = [f_run EXCEPT ![q] = Profile!Idle] /\ f_profile' = f_profile
      BY <2>5 DEF Profile!Abandon
    <3>2. CleanRun(q, m)'
      BY <1>0, <3>1 DEF CleanRun, Profile!Idle
    <3> QED BY <1>0, <2>o, <3>1, <3>2
  <2> QED
    BY <1>4, <2>1, <2>2, <2>3, <2>4, <2>5
    DEF Profile!Work, Profile!Refresh, Profile!ProcessContactProfiles,
        Profile!RefreshContactProfile
<1>5. ASSUME \/ Profile!Grant
             \/ \E k \in 1..N : Profile!Prepare(k) \/ Profile!Reclassify(k)
                                \/ Profile!CorrectSender(k) \/ Profile!Delete(k)
      PROVE  UNCHANGED <<f_profile, f_run>>
  BY <1>5 DEF Profile!Grant, Profile!Prepare, Profile!Reclassify, Profile!CorrectSender,
     Profile!Delete, Profile!CompleteMessageClassification, Profile!ProcessContactFacts
<1> QED BY <1>2, <1>3, <1>4, <1>5 DEF Profile!Next

LEMMA ProfileStep ==
    ASSUME Profile!ProfileInv, Profile!Next
    PROVE  Profile!ProfileInv'
<1>1. Profile!TypeOK'
  BY ProfileTypes DEF Profile!ProfileInv
<1>2. \A m \in 1..N : Profile!Extraction(m)'
  BY ExtractionKept
<1>3. \A m \in HasFacts \ f_moved' :
         m \notin f_profile'.summary /\ \A p \in Workers : CleanRun(p, m)'
  BY CleanKept
<1> QED
  BY <1>1, <1>2, <1>3 DEF Profile!ProfileInv, Profile!FactsStayOut, Profile!Clean, CleanRun

LEMMA ProfileStart == Profile!Init => Profile!ProfileInv
<1> SUFFICES ASSUME Profile!Init PROVE Profile!ProfileInv
  OBVIOUS
<1> USE DEF Profile!Init, Profile!None
<1>1. PICK s \in [1..N -> Profile!Senders] :
         f_msg = [m \in 1..N |-> [sender |-> s[m], facts |-> "new", active |-> TRUE]]
  OBVIOUS
<1>2. f_msg \in [1..N -> Profile!Message] /\ \A m \in 1..N : f_msg[m].facts = "new"
  BY <1>1 DEF Profile!Message
<1>3. f_profile \in Profile!Profile
  BY DEF Profile!Profile
<1>4. Profile!Idle \in Profile!Run
  BY DEF Profile!Idle, Profile!Run
<1>5. Profile!TypeOK
  BY <1>2, <1>3, <1>4 DEF Profile!TypeOK
<1>6. \A m \in 1..N : Profile!Extraction(m)
  BY <1>2 DEF Profile!Extraction
<1>7. \A m \in HasFacts : m \notin f_profile.summary /\ \A p \in Workers : CleanRun(p, m)
  BY DEF CleanRun, Profile!Idle
<1> QED BY <1>5, <1>6, <1>7, ProfileParts

-----------------------------------------------------------------------------
(* The services side by side.  One moves and the others' variables stand      *)
(* still, so the five invariants are one inductive invariant.                 *)

KnowledgeInv ==
    /\ Collect!CollectInv /\ Item!ItemInv /\ Deletion!DeletionInv
    /\ Upload!UploadInv /\ Profile!ProfileInv

LEMMA KnowledgeStart == Init => KnowledgeInv
<1> SUFFICES ASSUME Init PROVE KnowledgeInv
  OBVIOUS
<1>1. Collect!Init /\ Item!Init /\ Deletion!Init /\ Upload!Init /\ Profile!Init
  BY DEF Init
<1> QED
  BY <1>1, CollectStart, ItemStart, DeletionStart, UploadStart, ProfileStart DEF KnowledgeInv

\* Each invariant is a formula of its own component's variables.
LEMMA CollectStill == Collect!CollectInv /\ UNCHANGED collectVars => Collect!CollectInv'
BY DEF collectVars, Collect!CollectInv, Collect!TypeOK, Collect!CursorCovers, Collect!Kept,
   Collect!WaitsForNobody, Collect!Waiting, Collect!Active, Collect!InHand, Collect!Passed

LEMMA ItemStill == Item!ItemInv /\ UNCHANGED itemVars => Item!ItemInv'
BY DEF itemVars, Item!ItemInv, Item!TypeOK, Item!Shows

LEMMA DeletionStill == Deletion!DeletionInv /\ UNCHANGED deletionVars => Deletion!DeletionInv'
BY DEF deletionVars, Deletion!DeletionInv, Deletion!TypeOK, Deletion!Unrelated,
   Deletion!Sound, Deletion!Handled

LEMMA UploadStill == Upload!UploadInv /\ UNCHANGED uploadVars => Upload!UploadInv'
BY DEF uploadVars, Upload!UploadInv, Upload!TypeOK, Upload!RowsTellTheTruth, Upload!Backed,
   Upload!CallsFor, Upload!Created

LEMMA ProfileStill == Profile!ProfileInv /\ UNCHANGED profileVars => Profile!ProfileInv'
BY DEF profileVars, Profile!ProfileInv, Profile!TypeOK, Profile!FactsStayOut,
   Profile!Extraction, Profile!Clean

LEMMA KnowledgeStep == KnowledgeInv /\ [Next]_vars => KnowledgeInv'
<1> SUFFICES ASSUME KnowledgeInv, [Next]_vars PROVE KnowledgeInv'
  OBVIOUS
<1> USE DEF KnowledgeInv
<1>1. CASE CollectOnly(Collect!Next)
  BY <1>1, CollectStep, ItemStill, DeletionStill, UploadStill, ProfileStill DEF CollectOnly
<1>2. CASE ItemOnly(Item!Next)
  BY <1>2, ItemStep, CollectStill, DeletionStill, UploadStill, ProfileStill DEF ItemOnly
<1>3. CASE DeletionOnly(Deletion!Next)
  BY <1>3, DeletionStep, CollectStill, ItemStill, UploadStill, ProfileStill DEF DeletionOnly
<1>4. CASE UploadOnly(Upload!Next)
  BY <1>4, UploadStep, CollectStill, ItemStill, DeletionStill, ProfileStill DEF UploadOnly
<1>5. CASE ProfileOnly(Profile!Next)
  BY <1>5, ProfileStep, CollectStill, ItemStill, DeletionStill, UploadStill DEF ProfileOnly
<1>6. CASE UNCHANGED vars
  BY <1>6, CollectStill, ItemStill, DeletionStill, UploadStill, ProfileStill DEF vars
<1> QED BY <1>1, <1>2, <1>3, <1>4, <1>5, <1>6 DEF Next

LEMMA KnowledgeSafety == Spec => []KnowledgeInv
BY KnowledgeStart, KnowledgeStep, PTL DEF Spec

\* Whatever polls, jobs, deletions, uploads and refreshes run at once, every variable
\* holds what its table, key or process can hold; versions of an access list in
\* particular do not run away (ResolveACLVersion).
THEOREM KnowledgeTypes == Spec => []TypeOK
<1>1. KnowledgeInv => TypeOK
  BY DEF KnowledgeInv, TypeOK, Collect!CollectInv, Item!ItemInv, Deletion!DeletionInv,
         Upload!UploadInv, Profile!ProfileInv
<1> QED BY <1>1, KnowledgeSafety, PTL

\* What is claimed to be stored is stored, for any number of workers, collectors,
\* messages and re-read places: what a Feishu cursor vouches for (AdvanceCursor), but for
\* messages that were more than seven days old before a poll reached them (PollMessages)
\* and for a start that was moved under a poll; what a row says of its file and its
\* original (FinalizeLocalUpload, MarkLocalDuplicate); and no conversation waits for a
\* collector that is there (SetCollectorStatus).
THEOREM WhatIsClaimedIsStored == Spec => []Stored
<1>1. KnowledgeInv => Stored
  BY DEF KnowledgeInv, Stored, Collect!CollectInv, Upload!UploadInv
<1> QED BY <1>1, KnowledgeSafety, PTL

\* Search shows the text of the present classification however late a job of the text
\* before reports (ApplyRAGResult), and no message with a contact fact gets into a
\* profile (refreshContactProfile), for any number of workers and messages.
THEOREM WhatIsSensitiveIsWithheld == Spec => []Withheld
<1>1. KnowledgeInv => Withheld
  BY ItemEnds DEF KnowledgeInv, Withheld, Profile!ProfileInv
<1> QED BY <1>1, KnowledgeSafety, PTL

\* A deletion that is reported complete left nothing to find, but for what a job of the
\* RAG service or a permission synchronisation that was under way has written again
\* behind it, however many requests for the resource are purged at once and whatever
\* fails (reconcileDeletionCompletion, delete_resource_data, upsert_chunks).
THEOREM CompletedLeavesNothing == Spec => []CompletedIsGone
<1>1. KnowledgeInv => CompletedIsGone
  BY DeletionEnds DEF KnowledgeInv, CompletedIsGone
<1> QED BY <1>1, KnowledgeSafety, PTL
=============================================================================
