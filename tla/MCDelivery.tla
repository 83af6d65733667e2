----------------------------- MODULE MCDelivery ------------------------------
(****************************************************************************)
(* The parts of the agent, the RAG service and the desktop application that   *)
(* have to deliver something, side by side: the configuration of a WeChat     *)
(* collector, operations on the computer of the owner, an answer on its way   *)
(* to the page, the events of the RAG service, and the contents they carry:   *)
(* parsed documents, answers, pages, previews and the report of a week. One   *)
(* of them moves in a behaviour and the rest stand still.                     *)
(****************************************************************************)
EXTENDS Integers, FiniteSets, SequencesExt

CONSTANTS
    Workers,
    Operations, WriteOperations,              \* of the desktop
    Events, BatchSize, MaxRounds, MaxRetries, \* of the event stream of the RAG service
    Documents, ChunkLimit, Overlap, MaxAttempts, MaxChanges,   \* of the parse lane
    MaxFaults

\* There is an operation, a limit and an attempt, and a document has what the lane asks of it.
ASSUME DeliveryAssumption ==
    /\ Operations \in Nat \ {0} /\ WriteOperations \subseteq 1..Operations
    /\ Events \in Seq({"ready", "delete", "wrong", "bad"})
    /\ BatchSize \in Nat \ {0} /\ MaxRounds \in Nat \ {0} /\ MaxRetries \in Nat \ {0}
    /\ Documents \subseteq
         [kind : {"message", "attachment"}, access : BOOLEAN, ref : BOOLEAN,
          check : {"ok", "huge", "meta", "hash"}, ext : {"local", "pdf", "docx"},
          display : Nat, original : Nat, native : Nat, cloud : Nat]
    /\ ChunkLimit \in Nat \ {0} /\ Overlap \in Nat /\ MaxAttempts \in Nat \ {0}
    /\ MaxChanges \in Nat /\ MaxFaults \in Nat

VARIABLES
    focus,      \* the component that moves in this behaviour
    w_cfg, w_command, w_runtime, w_active, w_request, w_found, w_identity, w_binding,
    w_disk, w_config, w_open, w_beat, w_faults,
    d_row, d_effect, d_aged, d_agent, d_runner, d_done, d_lost, d_faults,
    s_task, s_log, s_redis, s_worker, s_conn, s_page, s_lost,
    g_sent, g_last, g_pel, g_done, g_w, g_dlq, g_acked, g_faults,
    p_doc, p_version, p_pc, p_attempt, p_display, p_original, p_parsed, p_made,
    p_outcome, p_faults,
    a_req, a_pc, a_only, a_seen, a_results, a_evidence, a_calls, a_answer, a_faults,
    r_req, r_pc, r_attempt, r_todo, r_hits, r_down, r_targets, r_got, r_evidence,
    r_warned, r_asked, r_faults,
    j_text, j_fed, j_reader, j_finished,
    k_req, k_turn, k_pick, k_pc, k_today, k_window, k_found, k_used, k_evidence, k_shown,
    k_files, k_outcome, k_attempt, k_faults

deviceVars ==
    <<w_cfg, w_command, w_runtime, w_active, w_request, w_found, w_identity,
      w_binding, w_disk, w_config, w_open, w_beat, w_faults>>
desktopVars ==
    <<d_row, d_effect, d_aged, d_agent, d_runner, d_done, d_lost, d_faults>>
streamVars ==
    <<s_task, s_log, s_redis, s_worker, s_conn, s_page, s_lost>>
groupVars ==
    <<g_sent, g_last, g_pel, g_done, g_w, g_dlq, g_acked, g_faults>>
parseVars ==
    <<p_doc, p_version, p_pc, p_attempt, p_display, p_original, p_parsed, p_made,
      p_outcome, p_faults>>
answerVars ==
    <<a_req, a_pc, a_only, a_seen, a_results, a_evidence, a_calls, a_answer,
      a_faults>>
webVars ==
    <<r_req, r_pc, r_attempt, r_todo, r_hits, r_down, r_targets, r_got, r_evidence,
      r_warned, r_asked, r_faults>>
jsonVars ==
    <<j_text, j_fed, j_reader, j_finished>>
reportVars ==
    <<k_req, k_turn, k_pick, k_pc, k_today, k_window, k_found, k_used, k_evidence, k_shown,
      k_files, k_outcome, k_attempt, k_faults>>
vars == <<focus, deviceVars, desktopVars, streamVars, groupVars, parseVars, answerVars, webVars, jsonVars, reportVars>>

Device == INSTANCE WechatDevice WITH
    cfg <- w_cfg, command <- w_command, runtime <- w_runtime, active <- w_active,
    request <- w_request, found <- w_found, identity <- w_identity, binding <-
    w_binding, disk <- w_disk, config <- w_config, open <- w_open, beat <- w_beat,
    faults <- w_faults, MaxVersion <- 3, MaxDevices <- 2, MaxFaults <- MaxFaults

Desktop == INSTANCE DesktopTask WITH
    row <- d_row, effect <- d_effect, aged <- d_aged, agent <- d_agent, runner <-
    d_runner, done <- d_done, lost <- d_lost, faults <- d_faults, N <- Operations,
    Writes <- WriteOperations, MaxFaults <- MaxFaults + 1

Answers == INSTANCE AnswerStream WITH
    task <- s_task, log <- s_log, redis <- s_redis, worker <- s_worker, conn <- s_conn,
    page <- s_page, lost <- s_lost, MaxPieces <- 1, MaxAnswers <- 2, SnapshotEvery <- 2,
    MaxFaults <- MaxFaults

Group == INSTANCE RagStream WITH
    sent <- g_sent, last <- g_last, pel <- g_pel, done <- g_done, w <- g_w, dlq <-
    g_dlq, acked <- g_acked, faults <- g_faults, Stream <- Events,
    BatchSize <- BatchSize, ClaimMaxRounds <- MaxRounds, RedisMaxRetries <- MaxRetries,
    MaxFaults <- MaxFaults

\* What the run gives to the event stream and to the parse lane.
WrongThenDelete == <<"wrong", "delete">>
Unreadable == 99      \* a text that no parser can read, as in RagParse
Document(kind, access, ref, check, ext, display, original, native, cloud) ==
    [kind |-> kind, access |-> access, ref |-> ref, check |-> check, ext |-> ext,
     display |-> display, original |-> original, native |-> native, cloud |-> cloud]
ParsedDocuments ==
    {Document("message", a, FALSE, "ok", "local", d, o, 0, 0) :
        a \in BOOLEAN, d \in {0, 2, 5}, o \in {0, 4}}
    \cup {Document("attachment", a, r, c, e, 2, 0, n, 6) :
        a \in BOOLEAN, r \in BOOLEAN, c \in {"ok", "huge", "meta", "hash"},
        e \in {"local", "pdf", "docx"}, n \in {Unreadable, 7}}
    \cup {Document("attachment", TRUE, r, "ok", e, 0, 0, n, k) :
        r \in BOOLEAN, e \in {"pdf", "docx"}, n \in {Unreadable, 0}, k \in {Unreadable, 0, 6}}

Parse == INSTANCE RagParse WITH
    doc <- p_doc, version <- p_version, pc <- p_pc, attempt <- p_attempt, display <-
    p_display, original <- p_original, parsed <- p_parsed, made <- p_made, outcome <-
    p_outcome, faults <- p_faults, Documents <- Documents, Limit <- ChunkLimit,
    Overlap <- Overlap, Attempts <- MaxAttempts, MaxChanges <- MaxChanges, MaxFaults <- MaxFaults

Passages == [p1 |-> [of |-> "r1", blank |-> FALSE], p2 |-> [of |-> "r1", blank |-> FALSE],
             p3 |-> [of |-> "r2", blank |-> FALSE], p4 |-> [of |-> "r2", blank |-> TRUE]]
Scores == [organization |-> [p1 |-> 2, p2 |-> 4, p3 |-> 3, p4 |-> 1],
           user |-> [p1 |-> 3, p2 |-> 0, p3 |-> 0, p4 |-> 5]]
AnswerRequests ==
    [personal : BOOLEAN, org : BOOLEAN, narrowed : BOOLEAN, path : {"content", "tree"},
     fallback : {TRUE}, by : {"knowledge.answer", "answer.compose"}]

Answer == INSTANCE KnowledgeAnswer WITH
    req <- a_req, pc <- a_pc, only <- a_only, seen <- a_seen, results <- a_results,
    evidence <- a_evidence, calls <- a_calls, answer <- a_answer, faults <- a_faults,
    Passage <- Passages, Score <- Scores, Uploads <- <<"u1">>, Web <- <<"w1">>, Requests
    <- AnswerRequests, TopK <- 2, PerResource <- 1, MaxEvidence <- 2, MinScore <- 2,
    MaxFaults <- MaxFaults

Site(f, c, r, w) == [fetch |-> f, chars |-> c, rendered |-> r, raw |-> w]
Pages ==
    [a |-> Site("page", 3, 3, FALSE), b |-> Site("page", 1, 0, FALSE), c |-> Site("document", 0, 2, TRUE),
     d |-> Site("gone", 0, 3, FALSE), e |-> Site("broken", 0, 0, FALSE), f |-> Site("refused", 0, 3, FALSE),
     g |-> Site("page", 2, 3, TRUE), h |-> Site("page", 3, 0, FALSE)]
Hit(p, r) == [page |-> p, relevant |-> r]
Hits == [q |-> <<Hit("b", TRUE), Hit("e", FALSE), Hit("d", TRUE), Hit("g", TRUE)>>,
         r |-> <<Hit("g", TRUE), Hit("a", TRUE), Hit("c", TRUE)>>,
         w |-> <<Hit("a", FALSE)>>]
WebRequests ==
    [written : {<<>>, <<"a">>, <<"c", "b">>, <<"d", "a">>, <<"e">>, <<"g", "f">>},
     proposed : {<<>>, <<"h">>, <<"a", "g">>}, queries : {<<>>, <<"q">>, <<"q", "r">>, <<"w">>}]

Research == INSTANCE WebResearch WITH
    req <- r_req, pc <- r_pc, attempt <- r_attempt, todo <- r_todo, hits <- r_hits, down
    <- r_down, targets <- r_targets, got <- r_got, evidence <- r_evidence, warned <-
    r_warned, asked <- r_asked, faults <- r_faults, Web <- Pages, Found <- Hits,
    Requests <- WebRequests, Whole <- "r", Searches <- TRUE, Renders <- TRUE, MinText <-
    2, MaxResults <- 3, MaxPages <- 3, MaxQueries <- 2, Budget <- 5, Attempts <- 2,
    MaxFaults <- MaxFaults

Name == <<"q", "k", "q">>
Units == {<<"x">>, <<"b", "q">>, <<"b", "u", "x">>, <<"b", "u", "h", "b", "u", "l">>,
          <<"b", "u", "l">>, <<"b", "u", "k">>}
Means(u) ==
    CASE u = <<"x">> -> <<"x">> [] u = <<"b", "q">> -> <<"q">> [] u = <<"b", "u", "x">> -> <<"x">>
      [] u = <<"b", "u", "k">> -> <<"b", "u", "k">> [] u = <<"b", "u", "l">> -> <<"l">>
      [] OTHER -> <<"pair">>
Upto(S, n) == UNION {[1..k -> S] : k \in 0..n}
Heads == {<<"{">>, <<"{", "q", "x", "q", ":", "{">> \o Name \o <<":", "q", "x", "q", "}">>,
          <<"{", "q", "x", "q", ":">> \o Name}
Damaged == {<<":">>, <<"q">>, <<"{">>, Name, <<"b">>, <<"b", "u", "h">>}
JsonTexts ==
    {[symbols |-> h \o Name \o <<":", "q">> \o FlattenSeq(us) \o <<"q", "}">>,
      value |-> FlattenSeq([i \in DOMAIN us |-> Means(us[i])]), known |-> TRUE] :
        h \in Heads, us \in Upto(Units, 2)}
    \cup {[symbols |-> <<"{">> \o Name \o FlattenSeq(us), value |-> <<>>, known |-> FALSE] :
        us \in Upto(Damaged, 3)}

Json == INSTANCE JsonPreview WITH
    text <- j_text, fed <- j_fed, reader <- j_reader, finished <- j_finished, Texts <-
    JsonTexts

Par(kind, name) == [kind |-> kind, name |-> name]
Table(n) == [i \in 1..n + 2 |-> Par("row", "")]
Forms ==
    [A |-> <<Par("field", "period"), Par("heading", "s")>> \o Table(2) \o <<Par("heading", "u"), Par("bullet", "")>>,
     B |-> <<Par("field", "person"), Par("heading", "s")>> \o Table(1) \o <<Par("text", "")>> \o Table(1)
             \o <<Par("field", "x")>>]
Collected(n, s, h, o, t) == [name |-> n, size |-> s, hash |-> h, of |-> o, terms |-> t]
Archive ==
    <<Collected("x", 1, "h", "A", {"report template", "report", "template"}),
      Collected("x1", 1, "h", "A", {"report template", "report", "template"}),
      Collected("q", 1, "h", "A", {"quoted", "report"}), Collected("q", 2, "", "B", {"quoted", "report"})>>
Said(day, who, via, kind, res, conv, title) ==
    [day |-> day, who |-> who, via |-> via, kind |-> kind, res |-> res, conv |-> conv, title |-> title]
Week ==
    <<Said(6, "him", "sent", "message", "m1", "c1", ""), Said(6, "him", "sent", "attachment", "d1", "c1", "d"),
      Said(6, "him", "private", "attachment", "d2", "c1", "d"), Said(7, "him", "mention", "message", "m2", "c2", ""),
      Said(7, "me", "sent", "message", "m3", "c2", "")>>
Attached(n, s, o, x) == [name |-> n, size |-> s, hash |-> "", of |-> o, docx |-> x]
Ask(who, named, week, uploaded, quoted, files) ==
    [who |-> who, named |-> named, week |-> week, uploaded |-> uploaded, quoted |-> quoted, files |-> files]
Weeks == {[kind |-> "none"], [kind |-> "ago", n |-> 0], [kind |-> "ago", n |-> 2],
          [kind |-> "range", from |-> 5, to |-> 8], [kind |-> "range", from |-> 8, to |-> 5]}
Attachments ==
    {<<>>, <<Attached("t", 1, "A", TRUE)>>, <<Attached("p", 1, "A", FALSE)>>,
     <<Attached("t", 1, "A", TRUE), Attached("t", 1, "B", TRUE)>>,
     <<Attached("t", 1, "A", TRUE), Attached("u", 1, "B", TRUE)>>}
ReportRequests ==
    {Ask(who, named, week, FALSE, FALSE, <<>>) : who \in {"me", "him"}, named \in BOOLEAN, week \in Weeks}
    \cup {Ask("him", TRUE, [kind |-> "none"], uploaded, quoted, files) :
             uploaded \in BOOLEAN, quoted \in BOOLEAN, files \in Attachments}

Report == INSTANCE WeeklyReport WITH
    req <- k_req, turn <- k_turn, pick <- k_pick, pc <- k_pc, today <- k_today, window <-
    k_window, found <- k_found, used <- k_used, evidence <- k_evidence, shown <- k_shown,
    files <- k_files, outcome <- k_outcome, attempt <- k_attempt, faults <- k_faults,
    Form <- Forms, Documents <- Archive, Chunks <- Week, Requests <- ReportRequests,
    FirstDay <- 13, LastDay <- 14, Attempts <- 2, MaxFaults <- MaxFaults

Init ==
    /\ focus \in {"device", "desktop", "stream", "group", "parse", "answer", "web", "json", "report"}
    /\ Device!Init
    /\ focus # "device" => w_found
    /\ Desktop!Init
    /\ Answers!Init
    /\ Group!Init
    /\ Parse!Init
    /\ focus # "parse" => p_doc = CHOOSE d \in Documents : TRUE
    /\ Answer!Init
    /\ focus # "answer" => a_req = CHOOSE q \in AnswerRequests : TRUE
    /\ Research!Init
    /\ focus # "web" => r_req = CHOOSE q \in WebRequests : TRUE
    /\ Json!Init
    /\ focus # "json" => j_text = CHOOSE t \in JsonTexts : TRUE
    /\ Report!Init
    /\ focus # "report" => k_req = CHOOSE q \in ReportRequests : TRUE

\* Only the component in focus moves, so the instance has the sum of their states.
DeviceOnly(A) == focus = "device" /\ A /\ UNCHANGED <<focus, desktopVars, streamVars, groupVars, parseVars, answerVars, webVars, jsonVars, reportVars>>
DesktopOnly(A) == focus = "desktop" /\ A /\ UNCHANGED <<focus, deviceVars, streamVars, groupVars, parseVars, answerVars, webVars, jsonVars, reportVars>>
AnswersOnly(A) == focus = "stream" /\ A /\ UNCHANGED <<focus, deviceVars, desktopVars, groupVars, parseVars, answerVars, webVars, jsonVars, reportVars>>
GroupOnly(A) == focus = "group" /\ A /\ UNCHANGED <<focus, deviceVars, desktopVars, streamVars, parseVars, answerVars, webVars, jsonVars, reportVars>>
ParseOnly(A) == focus = "parse" /\ A /\ UNCHANGED <<focus, deviceVars, desktopVars, streamVars, groupVars, answerVars, webVars, jsonVars, reportVars>>
AnswerOnly(A) == focus = "answer" /\ A /\ UNCHANGED <<focus, deviceVars, desktopVars, streamVars, groupVars, parseVars, webVars, jsonVars, reportVars>>
ResearchOnly(A) == focus = "web" /\ A /\ UNCHANGED <<focus, deviceVars, desktopVars, streamVars, groupVars, parseVars, answerVars, jsonVars, reportVars>>
JsonOnly(A) == focus = "json" /\ A /\ UNCHANGED <<focus, deviceVars, desktopVars, streamVars, groupVars, parseVars, answerVars, webVars, reportVars>>
ReportOnly(A) == focus = "report" /\ A /\ UNCHANGED <<focus, deviceVars, desktopVars, streamVars, groupVars, parseVars, answerVars, webVars, jsonVars>>

Next ==
    \/ DeviceOnly(Device!Next)
    \/ DesktopOnly(Desktop!Next)
    \/ AnswersOnly(Answers!Next)
    \/ GroupOnly(Group!Next)
    \/ ParseOnly(Parse!Next)
    \/ AnswerOnly(Answer!Next)
    \/ ResearchOnly(Research!Next)
    \/ JsonOnly(Json!Next)
    \/ ReportOnly(Report!Next)

Fairness ==
    /\ WF_vars(DeviceOnly(Device!Step))
    /\ WF_vars(DesktopOnly(Desktop!AgentStep))
    /\ WF_vars(DesktopOnly(Desktop!Time))
    /\ WF_vars(DesktopOnly(Desktop!Polling))
    /\ WF_vars(DesktopOnly(Desktop!Running))
    /\ WF_vars(AnswersOnly(Answers!Work))
    /\ WF_vars(AnswersOnly(Answers!Serve))
    /\ WF_vars(AnswersOnly(Answers!Read))
    /\ \A i \in Workers : WF_vars(GroupOnly(Group!Run(i)))
    /\ \A e \in DOMAIN Events : WF_vars(GroupOnly(Group!Ages(e)))

Spec == Init /\ [][Next]_vars /\ Fairness

-----------------------------------------------------------------------------
\* What the component that moves keeps is of the kind its tables, keys and processes
\* hold.
TypeOK ==
    CASE focus = "device" -> Device!TypeOK
      [] focus = "desktop" -> Desktop!TypeOK
      [] focus = "stream" -> Answers!TypeOK
      [] focus = "group" -> Group!TypeOK
      [] focus = "parse" -> Parse!TypeOK
      [] focus = "answer" -> Answer!TypeOK
      [] focus = "web" -> Research!TypeOK
      [] focus = "report" -> Report!TypeOK
      [] OTHER -> TRUE

\* The computer of the owner performs what the agent asks at most once, and nothing it
\* wrote is filed as not written (claim_task, complete_task, runOne).
OnDesktop == focus = "desktop" => Desktop!OnceAndInTheOpen

\* Of an event stream of the RAG service nothing is lost and only what no handler
\* accepts is given up, and what is indexed of a parsed document is the text the reader
\* may see, without a gap (redis_streams.py, MVPIndexService, ParserRouter, build_variant_chunks).
Ingested ==
    /\ focus = "group" => Group!Consumed
    /\ focus = "parse" => Parse!ParsedRight

\* An answer cites what it was given and is drawn from where the question allows, its
\* pages are the owner's or were found, and what the owner watches of it is one text
\* which the result does not overtake; the report of a week follows the template that was
\* picked and covers the week that was named (KnowledgeAnswerCapability,
\* WebResearchCapability, RedisAnswerStream, stream_task_events, WeeklyReportCapability).
Presented ==
    /\ focus = "answer" => Answer!Answered
    /\ focus = "web" => Research!Researched
    /\ focus = "stream" => Answers!Streamed
    /\ focus = "json" => Json!CutsDoNotShow
    /\ focus = "report" => Report!Reported

\* Through lost calls, dead processes and broken connections: a row of a desktop task
\* ends, an answer that succeeded reaches its page, an event is done with, and a paired
\* WeChat collector comes back to the last configuration (claim_task, stream_task_events, the
\* consumer group, Heartbeat).
Lively ==
    /\ <>[](CASE focus = "desktop" -> Desktop!Ended
                [] focus = "stream" -> Answers!Delivered
                [] focus = "group" -> Group!Drained
                [] OTHER -> TRUE)
    /\ focus = "device" => Device!Obeys
=============================================================================
