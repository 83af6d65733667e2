----------------------------- MODULE MCServices ------------------------------
(****************************************************************************)
(* The parts of the services whose requests may never disagree, side by     *)
(* side: of the core and knowledge services connector tokens, private       *)
(* shares, the WeChat collector, refresh sessions, organizations and access *)
(* requests; of the agent and the RAG service forms, plans, understanding,  *)
(* retrieval, people, the entity tree, previews and the memory of a         *)
(* conversation.  They meet in tables that each of them abstracts for       *)
(* itself, so one of them moves in a behaviour and the rest stand still.    *)
(****************************************************************************)
EXTENDS MCServicesParts, SequencesExt

VARIABLES
    focus,      \* the component that moves in this behaviour
    p_turn, p_setup, p_pc, p_task, p_plan, p_draft, p_obs,
    u_setup, u_pc, u_attempt, u_held, u_stored, u_charged, u_last, u_asked, u_mixed,
    u_verdict, u_faults,
    r_rights, r_ever, r_always, r_request, r_pc, r_located, r_found, r_hits, r_near,
    r_shown, r_message, r_changes, r_faults,
    o_archive, o_snapshots, o_question, o_pc, o_export, o_facts, o_answer, o_spent,
    e_status, e_mounts, e_indexed, e_index, e_scan, e_watermark, e_jobs, e_refresh,
    e_scanned, e_behind, e_implied, e_stale, e_unseen, e_swallowed, e_faults,
    v_setup, v_pc, v_asked, v_plan, v_todo, v_got, v_hits, v_reports, v_faults,
    c_task, c_log, c_redis, c_worker, c_conn, c_page, c_lost

planVars ==
    <<p_turn, p_setup, p_pc, p_task, p_plan, p_draft, p_obs>>
intentVars ==
    <<u_setup, u_pc, u_attempt, u_held, u_stored, u_charged, u_last, u_asked,
      u_mixed, u_verdict, u_faults>>
findVars ==
    <<r_rights, r_ever, r_always, r_request, r_pc, r_located, r_found, r_hits,
      r_near, r_shown, r_message, r_changes, r_faults>>
personVars ==
    <<o_archive, o_snapshots, o_question, o_pc, o_export, o_facts, o_answer, o_spent>>
treeVars ==
    <<e_status, e_mounts, e_indexed, e_index, e_scan, e_watermark, e_jobs,
      e_refresh, e_scanned, e_behind, e_implied, e_stale, e_unseen, e_swallowed,
      e_faults>>
evidenceVars ==
    <<v_setup, v_pc, v_asked, v_plan, v_todo, v_got, v_hits, v_reports, v_faults>>
streamVars ==
    <<c_task, c_log, c_redis, c_worker, c_conn, c_page, c_lost>>
vars == <<focus, tokenVars, shareVars, wechatVars, sessionVars, orgVars, accessVars, fillVars, planVars, intentVars, findVars, personVars, treeVars, evidenceVars, streamVars, memoryVars>>

AllTools == {"sources", "search", "tree", "web", "answer", "compose", "person", "report", "reply",
             "preview", "apply", "todo"}
FewTools == {"sources", "web", "compose", "reply", "person", "preview", "apply"}
Turn(source, intent, cue, link, wants, file, judged) ==
    [source |-> source, intent |-> intent, cue |-> cue, url |-> link, personal |-> link,
     wants |-> wants, file |-> file, judged |-> judged]
PlanTurns ==
    {Turn("chat", i, "none", l, w, f[1], f[2]) :
        i \in {"web", "compliance", "knowledge", "form"}, l \in BOOLEAN, w \in {"nothing", "compare"},
        f \in {<<"none", {}>>, <<"cited", {}>>, <<"cited", {"knowledge"}>>, <<"unread", {}>>}}
    \cup {Turn(s, i, "action", FALSE, "nothing", "none", {}) :
        s \in {"chat", "event"}, i \in {"none", "person", "report", "todo", "chitchat"}}
    \cup {Turn(s, "none", c, FALSE, "nothing", "none", {}) :
        s \in {"chat", "event"},
        c \in {"none", "memory", "weekly", "person", "organization", "find", "ask", "ask within"}}
Planner(provider, tools, parallel, treeFirst) ==
    [provider |-> provider, tools |-> tools, parallel |-> parallel, treeFirst |-> treeFirst]
PlanSetups == {Planner("routing", AllTools, FALSE, FALSE), Planner("routing", AllTools, TRUE, TRUE),
               Planner("llm", AllTools, TRUE, TRUE), Planner("routing", FewTools, TRUE, FALSE)}
Slot(slot, k, bound) == [slot |-> slot, step |-> k, bound |-> bound]
DraftStep(cap, query, refs, after) ==
    [cap |-> cap, query |-> query, refs |-> refs, after |-> after, file |-> FALSE,
     status |-> "pending", attempts |-> 0]
PlanDrafts ==
    {<<DraftStep("web", 1, {}, {0}), DraftStep("compose", 1, {Slot("evidence", 1, FALSE)}, {0})>>,
     <<DraftStep("web", 2, {}, {0})>>,
     <<DraftStep("search", 1, {}, {0}), DraftStep("search", 2, {}, {}),
       DraftStep("compose", 1, {Slot("knowledge", 1, FALSE), Slot("knowledge", 2, FALSE)}, {0})>>,
     <<DraftStep("todo", 1, {}, {0}), DraftStep("search", 0, {}, {0})>>,
     <<DraftStep("todo", 1, {}, {0}), DraftStep("compose", 1, {Slot("evidence", 2, FALSE)}, {0})>>,
     <<DraftStep("sources", 1, {}, {0}), DraftStep("search", 1, {Slot("resources", 2, TRUE)}, {0})>>}

Plan == INSTANCE PlanLoop WITH
    turn <- p_turn, setup <- p_setup, pc <- p_pc, task <- p_task, plan <- p_plan, draft
    <- p_draft, obs <- p_obs, Turns <- PlanTurns, Setups <- PlanSetups, Drafts <-
    PlanDrafts, MaxAttempts <- 2, MaxReplans <- 1, MaxModelCalls <- 5, MaxSame <- 2,
    Concurrency <- 2, MaxTurnsOfLoop <- 3

Received(from, empty, attached, points) ==
    [from |-> from, empty |-> empty, attached |-> attached, points |-> points]
TwoKinds == [t1 |-> Received("chat", FALSE, FALSE, FALSE), t2 |-> Received("collected", FALSE, TRUE, TRUE)]
NoText == [t1 |-> Received("chat", TRUE, FALSE, FALSE), t2 |-> Received("chat", TRUE, FALSE, FALSE)]
Modes(m, p, r) == [mode |-> m, primary |-> p, message |-> r]
IntentSetups == {Modes(m, p, TwoKinds) : m \in {"shadow", "enforce"}, p \in {"laya", "jev"}}
                \cup {Modes("enforce", "laya", NoText), Modes("off", "laya", TwoKinds)}
Focus(kind, kc, about, ac) == [kind |-> kind, kc |-> kc, about |-> about, ac |-> ac]
Reply(l, n, k, m, f, sources, sure) ==
    [label |-> l, probs |-> [x \in {l, k} |-> IF x = l THEN n ELSE m], conf |-> n,
     focus |-> f, sources |-> sources, sure |-> sure]
IntentReplies ==
    {Reply("non_task", 4, "other_task", 0, Focus("unasked", 0, "other", 0), {}, 0),
     Reply("non_task", 3, "todo.create", 3, Focus("person", 3, "other", 1), {"knowledge"}, 3),
     Reply("person.query", 2, "knowledge.answer", 1, Focus("person", 3, "other", 0),
           {"attachment", "knowledge"}, 4),
     Reply("knowledge.answer", 4, "todo.create", 3, Focus("none", 2, "work_object", 1),
           {"attachment"}, 2)}
IntentDrafts ==
    {[task |-> TRUE, intents |-> <<[name |-> "todo.create", conf |-> 3],
                                   [name |-> "person.query", conf |-> 4]>>],
     [task |-> FALSE, intents |-> <<>>],
     [task |-> FALSE, intents |-> <<[name |-> "todo.create", conf |-> 4]>>]}

Intent == INSTANCE Understanding WITH
    setup <- u_setup, pc <- u_pc, attempt <- u_attempt, held <- u_held, stored <-
    u_stored, charged <- u_charged, last <- u_last, asked <- u_asked, mixed <- u_mixed,
    verdict <- u_verdict, faults <- u_faults, Task <- {"t1", "t2"}, Setups <-
    IntentSetups, Replies <- IntentReplies, Drafts <- IntentDrafts, Available <-
    {"todo.create"}, MinConfidence <- 3, RuntimeMin <- [chat |-> 2, collected |-> 4],
    MinMargin <- 1, FocusMin <- 2, EvidenceMin <- 2, Sure <- 4, MaxModelCalls <- 4,
    Before <- 2, Attempts <- 2, MaxFaults <- MaxFaults

Searched == {"m", "mp", "a1", "a2"}
Placed == [c \in Searched |-> CASE c \in {"m", "mp"} -> "m" [] OTHER -> c]
Mounts == [c \in Searched |-> CASE c \in {"m", "mp"} -> {"e"} [] c = "a2" -> {"f"} [] OTHER -> {}]

Find == INSTANCE Retrieval WITH
    rights <- r_rights, ever <- r_ever, always <- r_always, request <- r_request, pc <-
    r_pc, located <- r_located, found <- r_found, hits <- r_hits, near <- r_near, shown
    <- r_shown, message <- r_message, changes <- r_changes, faults <- r_faults, Chunks
    <- Searched, Item <- [c \in Searched |-> "i"], Resource <- [c \in Searched |-> IF c
    \in {"m", "mp"} THEN "m" ELSE "a"], Attachments <- {"a"}, Protected <- {"mp"}, Place
    <- Placed, Index <- [c \in Searched |-> IF c = "a2" THEN 1 ELSE 0], Entities <-
    {"e", "f"}, Mounted <- Mounts, Related <- [es \in SUBSET {"e", "f"} |-> IF "e" \in
    es THEN {"f"} ELSE {}], AnchorsPerItem <- 1, ChunksPerItem <- 2, MaxChanges <- 1,
    MaxFaults <- MaxFaults

Sent(by, private, names, old, twin, open, scope, says) ==
    [by |-> by, private |-> private, names |-> names, old |-> old, twin |-> twin, open |-> open,
     scope |-> scope, says |-> says]
Archive == <<Sent("other", TRUE, FALSE, FALSE, FALSE, TRUE, "user", {"phone"}),
             Sent("subject", TRUE, FALSE, FALSE, FALSE, TRUE, "user", {"phone"}),
             Sent("other", FALSE, TRUE, TRUE, TRUE, TRUE, "org", {"project"}),
             Sent("subject", TRUE, FALSE, TRUE, FALSE, FALSE, "user", {}),
             Sent("subject", FALSE, FALSE, TRUE, FALSE, TRUE, "user", {})>>
Asked == [facet : {"overview", "project"}, self : BOOLEAN, sources : {{}}, extract : {TRUE}]
         \cup [facet : {"overview"}, self : {FALSE}, sources : {{"sent", "private"}}, extract : BOOLEAN]

Person == INSTANCE PersonScope WITH
    archive <- o_archive, snapshots <- o_snapshots, question <- o_question, pc <- o_pc,
    export <- o_export, facts <- o_facts, answer <- o_answer, spent <- o_spent, Chunk <-
    Archive, Questions <- Asked, Category <- [v \in {"phone", "project"} |-> IF v =
    "phone" THEN "contact" ELSE "project"], Scopes <- <<"org", "user">>, PageSize <- 2,
    MaxChunks <- 5, BatchItems <- 2, MaxChanges <- 1, MaxFaults <- 2, MaxQuestions <- 2

Tree == INSTANCE EntityTree WITH
    status <- e_status, mounts <- e_mounts, indexed <- e_indexed, index <- e_index, scan
    <- e_scan, watermark <- e_watermark, jobs <- e_jobs, refresh <- e_refresh, scanned
    <- e_scanned, behind <- e_behind, implied <- e_implied, stale <- e_stale, unseen <-
    e_unseen, swallowed <- e_swallowed, faults <- e_faults, Candidates <- {"x"}, SentAt
    <- <<1, 2>>, Text <- <<{"x"}, {}>>, Size <- 2, Step <- 2, Batch <- 1, MaxFaults <- MaxFaults

Says(p, q) == [phone |-> p, parent |-> q]
Heard(by, private, names, carrier, company, says, tells) ==
    [by |-> by, private |-> private, names |-> names, carrier |-> carrier,
     company |-> company, says |-> says, tells |-> tells]
Silent == Says("none", "none")
FormMessages ==
    <<Heard("subject", TRUE, FALSE, TRUE, FALSE, Says("1", "none"), Says("none", "2")),
      Heard("other", TRUE, TRUE, FALSE, TRUE, Says("3", "2"), Silent),
      Heard("subject", FALSE, TRUE, FALSE, FALSE, Says("2", "none"), Says("2", "2")),
      Heard("other", FALSE, TRUE, FALSE, TRUE, Says("1", "1"), Says("1", "1"))>>
FormColumns == <<[name |-> "phone", kind |-> "personal"], [name |-> "parent", kind |-> "company"]>>
FormSetups ==
    [written : {"self", "person", "organization", "unspecified"}, given : {{}, {"phone"}},
     resolver : BOOLEAN, known : BOOLEAN, named : BOOLEAN, reader : BOOLEAN]

Evidence == INSTANCE FormEvidence WITH
    setup <- v_setup, pc <- v_pc, asked <- v_asked, plan <- v_plan, todo <- v_todo, got
    <- v_got, hits <- v_hits, reports <- v_reports, faults <- v_faults, Message <-
    FormMessages, Column <- FormColumns, Setups <- FormSetups, MaxFields <- 2, MaxFaults
    <- MaxFaults

Answers == INSTANCE AnswerStream WITH
    task <- c_task, log <- c_log, redis <- c_redis, worker <- c_worker, conn <- c_conn,
    page <- c_page, lost <- c_lost, MaxPieces <- 2, MaxAnswers <- 1, SnapshotEvery <- 2,
    MaxFaults <- MaxFaults

\* A component that is not in focus has no state.
TokenAway ==
    /\ t_row = 0 /\ t_collector = 0 /\ t_vault = 0 /\ t_newest = 0 /\ t_state = 0
    /\ t_result = 0 /\ t_refreshing = 0 /\ t_completing = 0 /\ t_call = 0 /\ t_overtaken = 0
    /\ t_torn = 0 /\ t_begun = 0 /\ t_faults = 0
ShareAway ==
    /\ h_sameChat = 0 /\ h_mapped = 0 /\ h_source = 0 /\ h_asked = 0 /\ h_refs = 0
    /\ h_shared = 0 /\ h_access = 0 /\ h_subjects = 0 /\ h_sync = 0 /\ h_remapped = 0
    /\ h_late = 0 /\ h_faults = 0
WechatAway ==
    /\ w_scope = 0 /\ w_start = 0 /\ w_newest = 0 /\ w_local = 0 /\ w_rewritten = 0
    /\ w_stored = 0 /\ w_ready = 0 /\ w_published = 0 /\ w_receipts = 0 /\ w_cursor = 0
    /\ w_replayed = 0 /\ w_run = 0 /\ w_missing = 0 /\ w_passed = 0 /\ w_straddled = 0
    /\ w_ops = 0 /\ w_faults = 0
SessionAway ==
    /\ s_session = 0 /\ s_grace = 0 /\ s_state = 0 /\ s_enabled = 0 /\ s_cookie = 0
    /\ s_request = 0 /\ s_loggedOut = 0 /\ s_lost = 0 /\ s_slow = 0 /\ s_faults = 0
OrgAway ==
    /\ g_member = 0 /\ g_managers = 0 /\ g_owner = 0 /\ g_admin = 0 /\ g_invited = 0
    /\ g_tuple = 0 /\ g_stale = 0 /\ g_op = 0 /\ g_outbox = 0 /\ g_collector = 0
    /\ g_adding = 0 /\ g_slipped = 0 /\ g_faults = 0
AccessAway ==
    /\ a_row = 0 /\ a_grants = 0 /\ a_allowed = 0 /\ a_review = 0 /\ a_sweep = 0
    /\ a_deleted = 0 /\ a_faults = 0
FillAway ==
    /\ f_sheet = 0 /\ f_layout = 0 /\ f_task = 0 /\ f_draft = 0 /\ f_previous = 0 /\ f_live = 0
    /\ f_wall = 0 /\ f_cookies = 0 /\ f_saved = 0 /\ f_signedIn = 0 /\ f_edits = 0
    /\ f_moved = 0 /\ f_touched = 0 /\ f_blind = 0 /\ f_shown = 0 /\ f_crossed = 0
    /\ f_faults = 0
PlanAway ==
    /\ p_turn = 0 /\ p_setup = 0 /\ p_pc = 0 /\ p_task = 0 /\ p_plan = 0 /\ p_draft = 0
    /\ p_obs = 0
IntentAway ==
    /\ u_setup = 0 /\ u_pc = 0 /\ u_attempt = 0 /\ u_held = 0 /\ u_stored = 0 /\ u_charged = 0
    /\ u_last = 0 /\ u_asked = 0 /\ u_mixed = 0 /\ u_verdict = 0 /\ u_faults = 0
FindAway ==
    /\ r_rights = 0 /\ r_ever = 0 /\ r_always = 0 /\ r_request = 0 /\ r_pc = 0 /\ r_located = 0
    /\ r_found = 0 /\ r_hits = 0 /\ r_near = 0 /\ r_shown = 0 /\ r_message = 0 /\ r_changes = 0
    /\ r_faults = 0
PersonAway ==
    /\ o_archive = 0 /\ o_snapshots = 0 /\ o_question = 0 /\ o_pc = 0 /\ o_export = 0
    /\ o_facts = 0 /\ o_answer = 0 /\ o_spent = 0
TreeAway ==
    /\ e_status = 0 /\ e_mounts = 0 /\ e_indexed = 0 /\ e_index = 0 /\ e_scan = 0
    /\ e_watermark = 0 /\ e_jobs = 0 /\ e_refresh = 0 /\ e_scanned = 0 /\ e_behind = 0
    /\ e_implied = 0 /\ e_stale = 0 /\ e_unseen = 0 /\ e_swallowed = 0 /\ e_faults = 0
EvidenceAway ==
    /\ v_setup = 0 /\ v_pc = 0 /\ v_asked = 0 /\ v_plan = 0 /\ v_todo = 0 /\ v_got = 0
    /\ v_hits = 0 /\ v_reports = 0 /\ v_faults = 0
AnswersAway ==
    /\ c_task = 0 /\ c_log = 0 /\ c_redis = 0 /\ c_worker = 0 /\ c_conn = 0 /\ c_page = 0
    /\ c_lost = 0
MemoryAway ==
    /\ m_conv = 0 /\ m_msg = 0 /\ m_task = 0 /\ m_job = 0 /\ m_sum = 0 /\ m_memory = 0
    /\ m_made = 0 /\ m_owner = 0 /\ m_says = 0 /\ m_summing = 0 /\ m_runs = 0 /\ m_faults = 0
    /\ m_late = 0 /\ m_missed = 0 /\ m_reverted = 0 /\ m_told = 0 /\ m_spilled = 0

Init ==
    /\ focus \in {"token", "share", "wechat", "session", "org", "access", "fill", "plan", "intent",
                  "find", "person", "tree", "evidence", "stream", "memory"}
    /\ IF focus = "token" THEN Token!Init ELSE TokenAway
    /\ IF focus = "share" THEN Share!Init ELSE ShareAway
    /\ IF focus = "wechat" THEN Wechat!Init ELSE WechatAway
    /\ IF focus = "session" THEN Session!Init ELSE SessionAway
    /\ IF focus = "org" THEN Org!Init ELSE OrgAway
    /\ IF focus = "access" THEN Access!Init ELSE AccessAway
    /\ IF focus = "fill" THEN Fill!Init ELSE FillAway
    /\ IF focus = "plan" THEN Plan!Init ELSE PlanAway
    /\ IF focus = "intent" THEN Intent!Init ELSE IntentAway
    /\ IF focus = "find" THEN Find!Init ELSE FindAway
    /\ IF focus = "person" THEN Person!Init ELSE PersonAway
    /\ IF focus = "tree" THEN Tree!Init ELSE TreeAway
    /\ IF focus = "evidence" THEN Evidence!Init ELSE EvidenceAway
    /\ IF focus = "stream" THEN Answers!Init ELSE AnswersAway
    /\ IF focus = "memory" THEN Memory!Init ELSE MemoryAway

\* Only the component in focus moves, so the instance has the sum of their states.
TokenOnly(A) == focus = "token" /\ A /\ UNCHANGED <<focus, shareVars, wechatVars, sessionVars, orgVars, accessVars, fillVars, planVars, intentVars, findVars, personVars, treeVars, evidenceVars, streamVars, memoryVars>>
ShareOnly(A) == focus = "share" /\ A /\ UNCHANGED <<focus, tokenVars, wechatVars, sessionVars, orgVars, accessVars, fillVars, planVars, intentVars, findVars, personVars, treeVars, evidenceVars, streamVars, memoryVars>>
WechatOnly(A) == focus = "wechat" /\ A /\ UNCHANGED <<focus, tokenVars, shareVars, sessionVars, orgVars, accessVars, fillVars, planVars, intentVars, findVars, personVars, treeVars, evidenceVars, streamVars, memoryVars>>
SessionOnly(A) == focus = "session" /\ A /\ UNCHANGED <<focus, tokenVars, shareVars, wechatVars, orgVars, accessVars, fillVars, planVars, intentVars, findVars, personVars, treeVars, evidenceVars, streamVars, memoryVars>>
OrgOnly(A) == focus = "org" /\ A /\ UNCHANGED <<focus, tokenVars, shareVars, wechatVars, sessionVars, accessVars, fillVars, planVars, intentVars, findVars, personVars, treeVars, evidenceVars, streamVars, memoryVars>>
AccessOnly(A) == focus = "access" /\ A /\ UNCHANGED <<focus, tokenVars, shareVars, wechatVars, sessionVars, orgVars, fillVars, planVars, intentVars, findVars, personVars, treeVars, evidenceVars, streamVars, memoryVars>>
FillOnly(A) == focus = "fill" /\ A /\ UNCHANGED <<focus, tokenVars, shareVars, wechatVars, sessionVars, orgVars, accessVars, planVars, intentVars, findVars, personVars, treeVars, evidenceVars, streamVars, memoryVars>>
PlanOnly(A) == focus = "plan" /\ A /\ UNCHANGED <<focus, tokenVars, shareVars, wechatVars, sessionVars, orgVars, accessVars, fillVars, intentVars, findVars, personVars, treeVars, evidenceVars, streamVars, memoryVars>>
IntentOnly(A) == focus = "intent" /\ A /\ UNCHANGED <<focus, tokenVars, shareVars, wechatVars, sessionVars, orgVars, accessVars, fillVars, planVars, findVars, personVars, treeVars, evidenceVars, streamVars, memoryVars>>
FindOnly(A) == focus = "find" /\ A /\ UNCHANGED <<focus, tokenVars, shareVars, wechatVars, sessionVars, orgVars, accessVars, fillVars, planVars, intentVars, personVars, treeVars, evidenceVars, streamVars, memoryVars>>
PersonOnly(A) == focus = "person" /\ A /\ UNCHANGED <<focus, tokenVars, shareVars, wechatVars, sessionVars, orgVars, accessVars, fillVars, planVars, intentVars, findVars, treeVars, evidenceVars, streamVars, memoryVars>>
TreeOnly(A) == focus = "tree" /\ A /\ UNCHANGED <<focus, tokenVars, shareVars, wechatVars, sessionVars, orgVars, accessVars, fillVars, planVars, intentVars, findVars, personVars, evidenceVars, streamVars, memoryVars>>
EvidenceOnly(A) == focus = "evidence" /\ A /\ UNCHANGED <<focus, tokenVars, shareVars, wechatVars, sessionVars, orgVars, accessVars, fillVars, planVars, intentVars, findVars, personVars, treeVars, streamVars, memoryVars>>
AnswersOnly(A) == focus = "stream" /\ A /\ UNCHANGED <<focus, tokenVars, shareVars, wechatVars, sessionVars, orgVars, accessVars, fillVars, planVars, intentVars, findVars, personVars, treeVars, evidenceVars, memoryVars>>
MemoryOnly(A) == focus = "memory" /\ A /\ UNCHANGED <<focus, tokenVars, shareVars, wechatVars, sessionVars, orgVars, accessVars, fillVars, planVars, intentVars, findVars, personVars, treeVars, evidenceVars, streamVars>>

Next ==
    \/ TokenOnly(Token!Next)
    \/ ShareOnly(Share!Next)
    \/ WechatOnly(Wechat!Next)
    \/ SessionOnly(Session!Next)
    \/ OrgOnly(Org!Next)
    \/ AccessOnly(Access!Next)
    \/ FillOnly(Fill!Next)
    \/ PlanOnly(Plan!Next)
    \/ IntentOnly(Intent!Next)
    \/ FindOnly(Find!Next)
    \/ PersonOnly(Person!Next)
    \/ TreeOnly(Tree!Next)
    \/ EvidenceOnly(Evidence!Next)
    \/ AnswersOnly(Answers!Next)
    \/ MemoryOnly(Memory!Next)

Spec == Init /\ [][Next]_vars

-----------------------------------------------------------------------------
\* What the component that moves keeps is of the kind its tables, keys and processes
\* hold.
TypeOK ==
    CASE focus = "token" -> Token!TypeOK
      [] focus = "share" -> Share!TypeOK
      [] focus = "wechat" -> Wechat!TypeOK
      [] focus = "session" -> Session!TypeOK
      [] focus = "org" -> Org!TypeOK
      [] focus = "access" -> Access!TypeOK
      [] focus = "fill" -> Fill!TypeOK
      [] focus = "plan" -> Plan!TypeOK
      [] focus = "intent" -> Intent!TypeOK
      [] focus = "find" -> Find!TypeOK
      [] focus = "person" -> Person!TypeOK
      [] focus = "tree" -> Tree!TypeOK
      [] focus = "evidence" -> Evidence!TypeOK
      [] focus = "stream" -> Answers!TypeOK
      [] focus = "memory" -> Memory!TypeOK
      [] OTHER -> TRUE

\* The row of a connector that binds a credential finds it in the vault, unless a commit's
\* answer was lost; a row that is expired binds a refresh token the platform takes no more,
\* and one that binds none was never bound or is revoked, unless a call that had the
\* credential before, or had lost its lock, has written its verdict over it since the row
\* was bound (token, UpdateConnectorStatus, RevokeConnector, BindConnector).
RowFitsVault == focus = "token" => Token!RowFitsVault

\* A failure that is cached for an authorization is never of the one the row binds, unless
\* its lock ran out, its commit's answer was lost or its account had lost its status; and a
\* call that is told to have the row's credential authorized again was refused a refresh
\* token which the platform takes no more, unless it was overtaken (CompleteFeishuOAuth,
\* recoverOAuthCompletion, token).
AnswersFitRow == focus = "token" => Token!AnswersFitRow

\* Of one private chat one side shares, and an approved request opens the copies of its
\* knowledge base (SharePrivateResources, ReviewPrivateAccessRequest,
\* ProcessPermissions).
Sharing == focus = "share" => Share!Sharing

\* Every message between the start and a WeChat cursor is stored, with its file if WeChat had
\* it, or conflicted with what is stored, or lay before the newest messages that a first page
\* or the fallback of a failed read takes: those are passed over and nobody is told
\* (messages_after, collect_once, commit_cursor, AdvanceCursor).
Vouched == focus = "wechat" => Wechat!Vouched

\* An active login has exactly one good refresh token, one that is over has none, and
\* tabs that refresh at once do not end it (findSessionLua, rotateSessionLua,
\* revokeSessionLua).
Sessions == focus = "session" => Session!Sessions

\* An organization keeps an active owner, OpenFGA knows who is privileged, and people
\* who are gone stop collecting (ChangeMembershipStatus, RevokeRole,
\* syncCurrentPrivilegedRole, OrganizationEventRelay).
Organized == focus = "org" => Org!Organized

\* Nobody sees by a request what none was approved for, and a granted original stays
\* open until the item is deleted (Review, reconcileCurrentPermissions,
\* PermissionSyncService).
Requested == focus = "access" => Access!Requested

\* What lies behind the boundary of a conversation summary went into it, a task sees the
\* conversation before it whole, and what was remembered stays unless the owner deletes it
\* (compare_and_set_conversation_summary, ConversationContextService.load,
\* upsert_conversation_memory).
Remembered == focus = "memory" => Memory!Remembered

\* A form is filled with the words of the person it is about, into a row that was empty
\* unless the sheet is longer than what is read of it or the owner moved the row; it is
\* undone to what was there, and no browser session or login is lost on the way
\* (FormPreviewCapability, FormApplyCapability, form_undo, SessionManager).
Filled ==
    /\ focus = "fill" => Fill!Filled
    /\ focus = "evidence" => Evidence!Evidenced

\* A plan of rules can be run and repeats nothing, what the owner asked for is neither
\* dropped nor guessed, and what a model was asked is charged (DeterministicPlanner,
\* KnowledgeRoutingPlanner, AgentRuntime, HybridUnderstandingProvider).
Planned ==
    /\ focus = "plan" => Plan!Planned
    /\ focus = "intent" => Intent!UnderstoodOK

\* A reader is shown nothing that was never granted, loses nothing that always was, is
\* told when pages about a person fail, though not when the authorization shortens them,
\* finds chunks where their text puts them, and sees an answer without holes
\* (RAGRetrievalService, PersonQueryCapability, the entity tree, RedisAnswerStream).
Shown ==
    /\ focus = "find" => Find!Retrieved
    /\ focus = "person" => Person!AboutPerson
    /\ focus = "tree" => Tree!Mounted
    /\ focus = "stream" => Answers!Streamed
=============================================================================
