---------------------------- MODULE WechatCollect ----------------------------
(****************************************************************************)
(* The WeChat collector reads one conversation out of the local database    *)
(* and stores it in the knowledge service, message by message, committing   *)
(* the cursor behind each.  One thread collects; the owner may move the     *)
(* start of a private conversation meanwhile, and any request may fail.     *)
(*                                                                          *)
(* A message is its sort_seq; nothing is known of two with the same.        *)
(****************************************************************************)
EXTENDS Integers, FiniteSets

CONSTANTS
    N,              \* bound: messages of the conversation
    Attached,       \* the messages that carry a file
    Page,           \* the newest messages a first page reads, 1000 in the code
    MaxOps,         \* bound: moves of the start, messages that WeChat rewrites
    MaxFaults       \* bound: requests that fail, collectors that die

VARIABLES
    scope,      \* conversation_ingestions.ingestion_scope
    start,      \* effective_start_at
    newest,     \* external: the last message of the WeChat database
    local,      \* external: the files WeChat still has on the disk
    rewritten,  \* external: messages WeChat changed after they were stored
    stored,     \* messages and message_sources
    ready,      \* attachments.content_status is ready
    published,  \* messages whose items' knowledge.ready is published
    receipts,   \* collector_cursor_receipts
    cursor,     \* conversation_collectors.last_cursor
    replayed,   \* collector: replayed_media, which is in its file
    run,        \* collector: collect_once
    missing,    \* history: files that were not on the disk when they were wanted
    passed,     \* history: messages older than the page that was read, or that conflicted
    straddled,  \* history: a cursor was committed for the history that was asked before
    ops, faults

vars == <<scope, start, newest, local, rewritten, stored, ready, published, receipts,
          cursor, replayed, run, missing, passed, straddled, ops, faults>>
wechat == <<newest, local, rewritten>>
rows == <<stored, ready, published>>
history == <<missing, passed, straddled>>

Messages == 1..N
Idle == [pc |-> "idle", todo |-> {}, again |-> {}, moved |-> FALSE]

Init ==
    /\ scope \in {"private", "organization"}
    /\ start \in {1, 2}
    /\ newest = 1
    /\ local = Attached /\ rewritten = {}
    /\ stored = {} /\ ready = {} /\ published = {} /\ receipts = {}
    /\ cursor = 0 /\ replayed = {}
    /\ run = Idle
    /\ missing = {} /\ passed = {} /\ straddled = FALSE
    /\ ops = 0 /\ faults = 0

Fault == faults < MaxFaults /\ faults' = faults + 1
Ask == ops < MaxOps /\ ops' = ops + 1

-----------------------------------------------------------------------------
(* WeChat, and the workers of the knowledge service. *)

Arrive ==
    /\ newest < N
    /\ newest' = newest + 1
    /\ UNCHANGED <<scope, start, local, rewritten, rows, receipts, cursor, replayed, run,
                   history, ops, faults>>

\* WeChat cleans a file up, or the owner opens it and it is there.
LocalFile(m) ==
    /\ Ask
    /\ local' = IF m \in local THEN local \ {m} ELSE local \cup {m}
    /\ UNCHANGED <<scope, start, newest, rewritten, rows, receipts, cursor, replayed, run,
                   history, faults>>

\* A message is recalled: the same server id has another content.
Rewrite(m) ==
    /\ Ask
    /\ m \in stored
    /\ rewritten' = rewritten \cup {m}
    /\ UNCHANGED <<scope, start, newest, local, rows, receipts, cursor, replayed, run,
                   history, faults>>

Publish(m) ==
    /\ m \in stored \ published
    /\ m \in Attached => m \in ready
    /\ published' = published \cup {m}
    /\ UNCHANGED <<scope, start, wechat, stored, ready, receipts, cursor, replayed, run,
                   history, ops, faults>>

\* The new start empties the cursor.
UpdateConversationStart(s) ==
    /\ Ask
    /\ scope = "private"
    /\ start' = s
    /\ cursor' = 0
    /\ run' = [run EXCEPT !.moved = run.pc # "idle"]
    /\ UNCHANGED <<scope, wechat, rows, receipts, replayed, history, faults>>

-----------------------------------------------------------------------------
(* collect_once. *)

\* messages_after: the first page, or what is newer than the cursor.
FirstPage == {m \in 1..newest : m > newest - Page}
Rows(from) == IF from = 0 THEN {m \in FirstPage : m >= start} ELSE (from + 1)..newest
\* The read of what is newer fails, on a shard WeChat rewrites, and a first page is searched
\* for it instead.
Fallback(from) == {m \in FirstPage : m > from}

ReplayCandidates_Anything(from, page) ==    \* mutant: messages without a file, too
    IF from = 0 THEN {}
    ELSE {m \in FirstPage \ (page \cup replayed) : m >= start}
\* media_replay_candidates, from the newest page and never before the start.
ReplayCandidates(from, page) ==
    IF from = 0 THEN {}
    ELSE {m \in (FirstPage \cap Attached) \ (page \cup replayed) : m >= start}

\* The messages between the cursor and the first page are nowhere, when it is read.
Collect(page) ==
    LET again == ReplayCandidates(cursor, page)
    IN  /\ page \cup again # {}
        /\ run' = [pc |-> "ingest", todo |-> page, again |-> again, moved |-> FALSE]
        /\ passed' = passed \cup (((cursor + 1)..newest) \ (page \cup FirstPage))

CollectOnce ==
    /\ run.pc = "idle"
    /\ \/ Collect(Rows(cursor)) /\ UNCHANGED faults
       \/ cursor > 0 /\ Fault /\ Collect(Fallback(cursor))
    /\ UNCHANGED <<scope, start, wechat, rows, receipts, cursor, replayed, missing, straddled,
                   ops>>

Lowest(S) == CHOOSE m \in S : \A n \in S : m <= n
\* The page in its order, then the messages that are replayed for their files.
Current == IF run.todo # {} THEN Lowest(run.todo) ELSE Lowest(run.again)

\* IngestMessage, and the file when it is not there yet: a missing file does not hold the
\* cursor back, and neither does a message that conflicts with what is stored.
IngestMessage ==
    /\ run.pc = "ingest"
    /\ LET m == Current
       IN  IF m \in rewritten
           THEN passed' = passed \cup {m} /\ UNCHANGED <<stored, ready, missing>>
           ELSE /\ stored' = stored \cup {m}
                /\ IF m \in Attached \ ready /\ m \notin local
                   THEN missing' = missing \cup {m} /\ UNCHANGED ready
                   ELSE ready' = ready \cup ({m} \cap Attached) /\ UNCHANGED missing
                /\ UNCHANGED passed
    /\ run' = [run EXCEPT !.pc = "commit"]
    /\ UNCHANGED <<scope, start, wechat, published, receipts, cursor, replayed, straddled,
                   ops, faults>>

\* A request is refused or its answer is lost, or the collector dies.
Lost ==
    /\ run.pc # "idle"
    /\ Fault
    /\ \E done \in BOOLEAN :
          stored' = IF run.pc = "ingest" /\ Current \notin rewritten /\ done
                    THEN stored \cup {Current} ELSE stored
    /\ UNCHANGED <<scope, start, wechat, ready, published, receipts, cursor, replayed,
                   history, ops>>

RequestFails_Skips ==       \* mutant: any refusal is passed over like a conflict
    Lost /\ run' = [run EXCEPT !.pc = "commit"]
\* That is the end of the poll; the next one begins at the cursor.
RequestFails == Lost /\ run' = Idle

Rest == IF run.todo # {} THEN [run EXCEPT !.todo = @ \ {Current}]
        ELSE [run EXCEPT !.again = @ \ {Current}]
Continue ==
    run' = IF Rest.todo \cup Rest.again = {} THEN Idle ELSE [Rest EXCEPT !.pc = "ingest"]

\* AdvanceCursor: a message of a private conversation counts when its items are published
\* and its file is ready; any other, when the collector has written its receipt.
Verified(m, receipted) ==
    IF scope = "private" /\ m \in stored
    THEN m \in published /\ (m \in Attached => m \in ready)
    ELSE m \in receipted

\* The receipt, then commit_cursor, whose refusal is not looked at; a cursor is a number
\* and never moves back.  A message that was replayed is not replayed again, whether its
\* file was there or not.
CommitCursor ==
    /\ run.pc = "commit"
    /\ LET m == Current
       IN  IF run.todo # {}
           THEN /\ receipts' = receipts \cup {m}
                /\ IF Verified(m, receipts') /\ m >= cursor
                   THEN /\ cursor' = m
                        /\ straddled' = (straddled \/ run.moved)
                   ELSE UNCHANGED <<cursor, straddled>>
                /\ UNCHANGED replayed
           ELSE /\ replayed' = replayed \cup {m}
                /\ UNCHANGED <<receipts, cursor, straddled>>
    /\ Continue
    /\ UNCHANGED <<scope, start, wechat, rows, missing, passed, ops, faults>>

-----------------------------------------------------------------------------
Next ==
    \/ CollectOnce \/ IngestMessage \/ CommitCursor \/ RequestFails
    \/ Arrive
    \/ \E m \in Attached : LocalFile(m)
    \/ \E m \in Messages : Rewrite(m) \/ Publish(m)
    \/ \E s \in Messages : UpdateConversationStart(s)

Spec == Init /\ [][Next]_vars

-----------------------------------------------------------------------------
TypeOK ==
    /\ start \in Messages /\ newest \in Messages /\ cursor \in 0..newest
    /\ local \subseteq Attached /\ rewritten \subseteq stored /\ missing \subseteq Attached
    /\ stored \subseteq 1..newest /\ published \subseteq stored /\ receipts \subseteq 1..newest
    /\ ready \subseteq stored \cap Attached /\ replayed \subseteq Attached
    /\ passed \subseteq Messages
    /\ run \in [pc : {"idle", "ingest", "commit"}, todo : SUBSET Messages,
                again : SUBSET Messages, moved : BOOLEAN]

\* A cursor vouches for every message since the asked start: it is stored, with the file
\* it carries if WeChat still had it, or it conflicted with what was stored, or it was
\* older than the newest messages a collection reads, when it begins and whenever the read
\* of what is newer than the cursor fails; other requests that fail in between and refused
\* commits take nothing away.
Vouched ==
    straddled \/ \A m \in Messages :
        start <= m /\ m <= cursor =>
            \/ m \in stored /\ (m \in Attached => m \in ready \cup missing)
            \/ m \in passed

-----------------------------------------------------------------------------
(* Why it holds: a collection works its page off in order, so whatever lies *)
(* between the start and a message that is still to do was done, unless the *)
(* start was moved under it.                                                *)

Kept(m) == (m \in stored /\ (m \in Attached => m \in ready \cup missing)) \/ m \in passed

InOrder ==
    straddled \/ run.moved \/ \A n, m \in Messages :
        m \in run.todo /\ start <= n /\ n < m /\ n \notin run.todo => Kept(n)

CollectsInv ==
    /\ TypeOK
    /\ Vouched
    /\ run.todo \cup run.again \subseteq 1..newest /\ run.again \subseteq Attached
    /\ run.pc = "idle" <=> run.todo \cup run.again = {}
    /\ run.pc = "commit" /\ run.todo # {} => Kept(Lowest(run.todo))
    /\ InOrder
=============================================================================
