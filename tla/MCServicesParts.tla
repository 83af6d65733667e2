--------------------------- MODULE MCServicesParts ---------------------------
(****************************************************************************)
(* Parts of MCServices: the state and the instances of connector tokens,    *)
(* private shares, the WeChat collector, refresh sessions, organizations,   *)
(* access requests, the filling of forms and the memory of a conversation,  *)
(* for their lemmas as much as for the composition.                         *)
(****************************************************************************)
EXTENDS Integers, FiniteSets

CONSTANTS
    Workers, Grants, Users, Collecting, ChatTexts, RequestIds, MaxGen, N, Attached, PageSize,
    MaxOps, Creator, Askers, MaxCalls, MaxTokens, MaxRows, MaxEvents, MaxFaults

\* The founder is one of the people, the collectors are, there are messages to share, and
\* nothing is called "none".
ASSUME ServicesAssumption ==
    /\ MaxGen \in Nat \ {0} /\ MaxCalls \in Nat /\ MaxTokens \in Nat \ {0}
    /\ MaxRows \in Nat /\ MaxEvents \in Nat /\ PageSize \in Nat
    /\ N \in Nat /\ N >= 2 /\ Attached \subseteq 1..N
    /\ IsFiniteSet(Users) /\ Creator \in Users /\ Collecting \subseteq Users
    /\ ChatTexts # {}
    /\ "none" \notin Users /\ "none" \notin Workers /\ "none" \notin Grants

VARIABLES
    t_row, t_collector, t_vault, t_newest, t_state, t_result, t_refreshing,
    t_completing, t_call, t_overtaken, t_torn, t_begun, t_faults,
    h_sameChat, h_mapped, h_source, h_asked, h_refs, h_shared, h_access, h_subjects,
    h_sync, h_remapped, h_late, h_faults,
    w_scope, w_start, w_newest, w_local, w_rewritten, w_stored, w_ready, w_published,
    w_receipts, w_cursor, w_replayed, w_run, w_missing, w_passed, w_straddled, w_ops,
    w_faults,
    s_session, s_grace, s_state, s_enabled, s_cookie, s_request, s_loggedOut, s_lost,
    s_slow, s_faults,
    g_member, g_managers, g_owner, g_admin, g_invited, g_tuple, g_stale, g_op,
    g_outbox, g_collector, g_adding, g_slipped, g_faults,
    a_row, a_grants, a_allowed, a_review, a_sweep, a_deleted, a_faults,
    f_sheet, f_layout, f_task, f_draft, f_previous, f_live, f_wall, f_cookies, f_saved,
    f_signedIn, f_edits, f_moved, f_touched, f_blind, f_shown, f_crossed, f_faults,
    m_conv, m_msg, m_task, m_job, m_sum, m_memory, m_made, m_owner, m_says, m_summing,
    m_runs, m_faults, m_late, m_missed, m_reverted, m_told, m_spilled

tokenVars ==
    <<t_row, t_collector, t_vault, t_newest, t_state, t_result, t_refreshing,
      t_completing, t_call, t_overtaken, t_torn, t_begun, t_faults>>
shareVars ==
    <<h_sameChat, h_mapped, h_source, h_asked, h_refs, h_shared, h_access,
      h_subjects, h_sync, h_remapped, h_late, h_faults>>
wechatVars ==
    <<w_scope, w_start, w_newest, w_local, w_rewritten, w_stored, w_ready,
      w_published, w_receipts, w_cursor, w_replayed, w_run, w_missing, w_passed,
      w_straddled, w_ops, w_faults>>
sessionVars ==
    <<s_session, s_grace, s_state, s_enabled, s_cookie, s_request, s_loggedOut,
      s_lost, s_slow, s_faults>>
orgVars ==
    <<g_member, g_managers, g_owner, g_admin, g_invited, g_tuple, g_stale, g_op,
      g_outbox, g_collector, g_adding, g_slipped, g_faults>>
accessVars ==
    <<a_row, a_grants, a_allowed, a_review, a_sweep, a_deleted, a_faults>>
fillVars ==
    <<f_sheet, f_layout, f_task, f_draft, f_previous, f_live, f_wall, f_cookies,
      f_saved, f_signedIn, f_edits, f_moved, f_touched, f_blind, f_shown, f_crossed,
      f_faults>>
memoryVars ==
    <<m_conv, m_msg, m_task, m_job, m_sum, m_memory, m_made, m_owner, m_says, m_summing,
      m_runs, m_faults, m_late, m_missed, m_reverted, m_told, m_spilled>>

Token == INSTANCE ConnectorToken WITH
    row <- t_row, collector <- t_collector, vault <- t_vault, newest <- t_newest, state
    <- t_state, result <- t_result, refreshing <- t_refreshing, completing <-
    t_completing, call <- t_call, overtaken <- t_overtaken, torn <- t_torn, begun <-
    t_begun, faults <- t_faults, Calls <- Workers, MaxCalls <- MaxCalls,
    MaxFaults <- MaxFaults

Share == INSTANCE KnowledgeShare WITH
    sameChat <- h_sameChat, mapped <- h_mapped, source <- h_source, asked <- h_asked,
    refs <- h_refs, shared <- h_shared, access <- h_access, subjects <- h_subjects, sync
    <- h_sync, remapped <- h_remapped, late <- h_late, faults <- h_faults, Owners <-
    Users, Others <- Askers, Messages <- ChatTexts, Requests <- RequestIds, MaxFaults <-
    MaxFaults

Wechat == INSTANCE WechatCollect WITH
    scope <- w_scope, start <- w_start, newest <- w_newest, local <- w_local, rewritten
    <- w_rewritten, stored <- w_stored, ready <- w_ready, published <- w_published,
    receipts <- w_receipts, cursor <- w_cursor, replayed <- w_replayed, run <- w_run,
    missing <- w_missing, passed <- w_passed, straddled <- w_straddled, ops <- w_ops,
    faults <- w_faults, Page <- PageSize, MaxFaults <- MaxFaults

Session == INSTANCE RefreshSession WITH
    session <- s_session, grace <- s_grace, state <- s_state, enabled <- s_enabled,
    cookie <- s_cookie, request <- s_request, loggedOut <- s_loggedOut, lost <- s_lost,
    slow <- s_slow, faults <- s_faults, Tabs <- Workers, MaxTokens <- MaxTokens,
    MaxFaults <- MaxFaults

Org == INSTANCE Organization WITH
    member <- g_member, managers <- g_managers, owner <- g_owner, admin <- g_admin,
    invited <- g_invited, tuple <- g_tuple, stale <- g_stale, op <- g_op, outbox <-
    g_outbox, collector <- g_collector, adding <- g_adding, slipped <- g_slipped, faults
    <- g_faults, Slots <- Workers, MaxEvents <- MaxEvents, MaxFaults <-
    MaxFaults

Access == INSTANCE AccessRequest WITH
    row <- a_row, grants <- a_grants, allowed <- a_allowed, review <- a_review, sweep <-
    a_sweep, deleted <- a_deleted, faults <- a_faults, Reviewers <- Workers, MaxRows <-
    MaxRows, MaxFaults <- MaxFaults

Fill == INSTANCE FormFill WITH
    sheet <- f_sheet, layout <- f_layout, task <- f_task, draft <- f_draft, previous <-
    f_previous, live <- f_live, wall <- f_wall, cookies <- f_cookies, saved <- f_saved,
    signedIn <- f_signedIn, edits <- f_edits, moved <- f_moved, touched <- f_touched,
    blind <- f_blind, shown <- f_shown, crossed <- f_crossed, faults <- f_faults, Tasks
    <- Workers, MaxRows <- 3, Scan <- 2, MaxLive <- 1, MaxSessions <- 2, MaxEdits <- 1, MaxFaults
    <- MaxFaults

Talk(there, come, good, says, summing, title, run, fault) ==
    [there |-> there, come |-> come, good |-> good, says |-> says, summing |-> summing,
     title |-> title, runs |-> 1 - run, faults |-> MaxFaults - fault]
Silence == [t \in 1..N |-> "none"]
Requests == {[Silence EXCEPT ![1] = x, ![2] = y] : x \in Grants, y \in Grants \cup {"none"}}
\* Two tasks behind a third, one before it that is slow and one behind it, two of an unnamed
\* conversation, two of which one runs again or meets a fault, and two that ask for something
\* to be remembered.
MemoryTalks ==
    {Talk(1, 2..N, 2..N, Silence, TRUE, "renamed", 0, 0),
     Talk(2, {1, 3}, {1, 3}, Silence, TRUE, "renamed", 0, 0),
     Talk(0, 1..2, 1..2, Silence, TRUE, "first", 0, 0)}
    \cup {Talk(0, 1..2, g, Silence, TRUE, "renamed", 1, 0) : g \in SUBSET (1..2)}
    \cup {Talk(0, 1..2, g, Silence, TRUE, "renamed", 0, 1) : g \in SUBSET (1..2)}
    \cup {Talk(0, 1..2, 1..2, q, FALSE, "renamed", 0, MaxFaults) : q \in Requests}

Memory == INSTANCE ConversationMemory WITH
    conv <- m_conv, msg <- m_msg, task <- m_task, job <- m_job, sum <- m_sum, memory <-
    m_memory, made <- m_made, owner <- m_owner, says <- m_says, summing <- m_summing,
    runs <- m_runs, faults <- m_faults, late <- m_late, missed <- m_missed, reverted <-
    m_reverted, told <- m_told, spilled <- m_spilled, Summarizers <- Workers, Names <-
    Grants, None <- "none", MinMessages <- 2, MaxAttempts <- 2, MaxRuns <- 1, MaxFaults <-
    MaxFaults, Conversations <- MemoryTalks
=============================================================================
