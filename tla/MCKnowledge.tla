----------------------------- MODULE MCKnowledge -----------------------------
(****************************************************************************)
(* The parts of the knowledge service that must eventually get somewhere,     *)
(* side by side: collecting a Feishu conversation, publishing an item,        *)
(* deleting one, uploading files, and the profile of a contact. They meet in  *)
(* tables that each of them abstracts for itself, so one of them moves in a   *)
(* behaviour and the rest stand still.                                        *)
(****************************************************************************)
EXTENDS Integers, FiniteSets

CONSTANTS
    Workers, Collectors, Attached, Members, Requests, Owners, HasFacts, Shared,
    N, Overlap, MaxOps, MaxChanges, MaxFaults

ASSUME KnowledgeAssumption ==
    /\ N \in Nat \ {0} /\ Overlap \in Nat /\ MaxChanges \in Nat
    /\ Attached \subseteq 1..N /\ HasFacts \subseteq 1..N
    /\ "none" \notin Owners

VARIABLES
    focus,      \* the component that moves in this behaviour
    c_newest, c_old, c_edited, c_conv, c_coll, c_msgs, c_att, c_object, c_cache, c_lock,
    c_poll, c_spoilt, c_straddled, c_dropped, c_unwoken, c_ops, c_faults,
    i_policy, i_item, i_member, i_told, i_core, i_work, i_ready, i_stream, i_job,
    i_outrun, i_changes, i_faults,
    d_kind, d_item, d_request, d_call, d_relations, d_object, d_event, d_docs, d_chunks,
    d_lane, d_callback, d_sync, d_revived, d_faults,
    l_row, l_item, l_event, l_object, l_call, l_undone, l_faults,
    f_msg, f_fact, f_granted, f_profile, f_run, f_moved, f_changes, f_faults

collectVars ==
    <<c_newest, c_old, c_edited, c_conv, c_coll, c_msgs, c_att, c_object, c_cache, c_lock,
      c_poll, c_spoilt, c_straddled, c_dropped, c_unwoken, c_ops, c_faults>>
itemVars ==
    <<i_policy, i_item, i_member, i_told, i_core, i_work, i_ready, i_stream, i_job,
      i_outrun, i_changes, i_faults>>
deletionVars ==
    <<d_kind, d_item, d_request, d_call, d_relations, d_object, d_event, d_docs,
      d_chunks, d_lane, d_callback, d_sync, d_revived, d_faults>>
uploadVars == <<l_row, l_item, l_event, l_object, l_call, l_undone, l_faults>>
profileVars ==
    <<f_msg, f_fact, f_granted, f_profile, f_run, f_moved, f_changes, f_faults>>
vars == <<focus, collectVars, itemVars, deletionVars, uploadVars, profileVars>>

Collect == INSTANCE KnowledgeCollect WITH
    newest <- c_newest, old <- c_old, edited <- c_edited, conv <- c_conv, coll <- c_coll,
    msgs <- c_msgs, att <- c_att, object <- c_object, cache <- c_cache, lock <- c_lock,
    poll <- c_poll, spoilt <- c_spoilt, straddled <- c_straddled, dropped <- c_dropped,
    unwoken <- c_unwoken, ops <- c_ops, faults <- c_faults, MaxFaults <- MaxFaults

Item == INSTANCE KnowledgeItem WITH
    policy <- i_policy, item <- i_item, member <- i_member, told <- i_told, core <-
    i_core, work <- i_work, ready <- i_ready, stream <- i_stream, job <- i_job, outrun
    <- i_outrun, changes <- i_changes, faults <- i_faults, MaxFaults <- MaxFaults

Deletion == INSTANCE KnowledgeDeletion WITH
    kind <- d_kind, item <- d_item, request <- d_request, call <- d_call, relations <-
    d_relations, object <- d_object, event <- d_event, docs <- d_docs, chunks <-
    d_chunks, lane <- d_lane, callback <- d_callback, sync <- d_sync, revived <-
    d_revived, faults <- d_faults, MaxFaults <- MaxFaults + 1

Upload == INSTANCE LocalUpload WITH
    row <- l_row, item <- l_item, event <- l_event, object <- l_object, call <- l_call,
    undone <- l_undone, faults <- l_faults, Calls <- Requests, MaxFaults <- MaxFaults

Profile == INSTANCE ContactProfile WITH
    msg <- f_msg, fact <- f_fact, granted <- f_granted, profile <- f_profile, run <-
    f_run, moved <- f_moved, changes <- f_changes, faults <- f_faults, Processes <-
    Workers, M <- 1..N, MaxFaults <- MaxFaults

Init ==
    /\ focus \in {"collect", "item", "deletion", "upload", "profile"}
    /\ Collect!Init
    /\ Item!Init
    /\ Deletion!Init
    /\ Upload!Init
    /\ Profile!Init
    /\ focus # "collect" => c_conv = [type |-> "private", status |-> "active", reason |-> "none", start |-> 1]
    /\ focus # "deletion" => d_kind = [text |-> TRUE, private |-> TRUE] /\ d_docs /\ d_lane = "idle"
    /\ focus # "profile" => \A m \in 1..N : f_msg[m].sender = "contact"

\* Only the component in focus moves, so the instance has the sum of their states.
CollectOnly(A) ==
    focus = "collect" /\ A /\ UNCHANGED <<focus, itemVars, deletionVars, uploadVars, profileVars>>
ItemOnly(A) ==
    focus = "item" /\ A /\ UNCHANGED <<focus, collectVars, deletionVars, uploadVars, profileVars>>
DeletionOnly(A) ==
    focus = "deletion" /\ A /\ UNCHANGED <<focus, collectVars, itemVars, uploadVars, profileVars>>
UploadOnly(A) ==
    focus = "upload" /\ A /\ UNCHANGED <<focus, collectVars, itemVars, deletionVars, profileVars>>
ProfileOnly(A) ==
    focus = "profile" /\ A /\ UNCHANGED <<focus, collectVars, itemVars, deletionVars, uploadVars>>

Next ==
    \/ CollectOnly(Collect!Next)
    \/ ItemOnly(Item!Next)
    \/ DeletionOnly(Deletion!Next)
    \/ UploadOnly(Upload!Next)
    \/ ProfileOnly(Profile!Next)

Fairness ==
    /\ \A p \in Workers : WF_vars(CollectOnly(Collect!Step(p)))
    /\ WF_vars(CollectOnly(Collect!LockExpires /\ UNCHANGED c_faults))
    /\ WF_vars(ItemOnly(Item!Serve))
    /\ \A w \in Workers : WF_vars(ItemOnly(Item!Step(w)))
    /\ \A v \in 1..2 : WF_vars(ItemOnly(Item!Deliver(v) /\ UNCHANGED i_faults))
    /\ \A r \in Requests : WF_vars(DeletionOnly(Deletion!PurgeDeletionRequest(r) /\ UNCHANGED d_faults))
    /\ \A r \in Requests : WF_vars(DeletionOnly(Deletion!RevokePending(r)))
    /\ WF_vars(DeletionOnly(Deletion!PublishOutbox))
    /\ WF_vars(DeletionOnly(Deletion!Rag /\ UNCHANGED d_faults))
    /\ \A t \in 1..N : WF_vars(UploadOnly(Upload!Permit(t)))
    /\ \A m \in 1..N : WF_vars(ProfileOnly(Profile!Prepare(m)))
    /\ \A p \in Workers : WF_vars(ProfileOnly(Profile!Work(p)))
    /\ WF_vars(ProfileOnly(Profile!IntervalEnds))

Spec == Init /\ [][Next]_vars /\ Fairness

-----------------------------------------------------------------------------
\* Every variable of the components holds what its table, key or process can
\* hold.
TypeOK ==
    /\ Collect!TypeOK /\ Item!TypeOK /\ Deletion!TypeOK
    /\ Upload!TypeOK /\ Profile!TypeOK

\* What is claimed to be stored is stored. Whatever a Feishu cursor vouches for since
\* the asked start is there with its attachment (AdvanceCursor behind IngestMessage and
\* CompleteAttachment), but for what was more than seven days old before a poll reached
\* it (PollMessages) and for a poll that straddles a new start; a conversation that waits
\* for a collector has none that is active (SetCollectorStatus, RemoveCollector,
\* AddCollector). A file whose row reads as uploaded is in the object store unless a failed
\* call has taken the shared object back, a duplicate has an original of its owner, and
\* what is announced is stored (UploadLocalContent, FinalizeLocalUpload, FailLocalUpload).
Stored == Collect!CursorCovers /\ Collect!WaitsForNobody /\ Upload!RowsTellTheTruth

\* What is sensitive stays where it belongs. What search finds of a sensitive item is the
\* masked text (CompleteMessageClassification, TryMarkKnowledgeReady, the index of the
\* RAG service). No message with a contact fact gets into a contact's profile, unless its
\* sender was corrected after the extraction (refreshContactProfile, ProcessContactFacts).
Withheld == Item!SearchShowsTheMask /\ Profile!FactsStayOut

\* A deletion that is reported complete left nothing to find, but for what a job of the
\* RAG service or a permission synchronisation has written again behind it
\* (reconcileDeletionCompletion, delete_resource_data, upsert_chunks).
CompletedIsGone == Deletion!CompletedIsGone

\* Through failed calls and dead workers, a Feishu collector that stays active catches
\* up with its conversation (Worker.Tick), an item is indexed in its last version
\* (TryMarkKnowledgeReady, PublishOutbox, ApplyRAGResult), a deletion that was
\* announced completes (PurgeDeletionRequests and the callback of the RAG service), a
\* stored file is announced whichever of content and permissions came first
\* (FinalizeLocalUpload, ProcessPermissions), and a contact's profile sums up the
\* messages of the day (ProcessContactProfiles).
GetsThere ==
    <>[](CASE focus = "collect" -> Collect!CaughtUp
           [] focus = "item" -> Item!Searchable
           [] focus = "deletion" -> Deletion!Answered
           [] focus = "upload" -> Upload!Announced
           [] OTHER -> Profile!UpToDate)
=============================================================================
