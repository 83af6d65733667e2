------------------------------ MODULE EntityTree ------------------------------
(****************************************************************************)
(* How messages get onto the entity tree of one scope. Three writers share    *)
(* the mounts of a chunk (chunk_branches) and their copy in the search index: *)
(*   index    MVPIndexService.process replaces them by what the text names,   *)
(*   scan     EntityWindowScanWorker adds what a window of the conversation   *)
(*            is about, and moves a watermark,                                *)
(*   refresh  BranchRefreshService replaces them all, after a review has      *)
(*            given the scope a new name.                                     *)
(* Each reads the registry first and writes later.                            *)
(*                                                                            *)
(* A name is a candidate until a review promotes it to an entity of its own   *)
(* or merges it into the entity "old", which the scope has from the start.    *)
(****************************************************************************)
EXTENDS Integers, FiniteSets, SequencesExt

CONSTANTS
    Candidates,   \* the names that are not in the registry yet
    SentAt,       \* when each message was sent: messages are numbered from 1
    Text,         \* the names in each message
    Size, Step,   \* extract_window_size, extract_window_step
    Batch,        \* max_chunks_per_conversation
    MaxFaults

VARIABLES
    status,       \* the candidates' status, which is also what the registry holds
    mounts,       \* the entities each chunk is mounted on
    indexed,      \* the entities the search index has for each chunk
    index,        \* the index job of each chunk, and what its matcher found
    scan,         \* the sweep over the conversation
    watermark,
    jobs,         \* the branch_refresh_job of each entity that has not succeeded
    refresh,      \* the refresh that runs
    scanned,      \* the chunks that were in a window of a finished sweep
    behind,       \* the chunks that came, or were cut off, behind the watermark
    implied,      \* what windows have mounted, and no replacement has removed since
    stale,        \* per chunk: the index job that wrote it knew an older registry
    unseen,       \* per chunk: the index lacks what the database has
    swallowed,    \* a review got no refresh because one was still running
    faults

vars == <<status, mounts, indexed, index, scan, watermark, jobs, refresh, scanned, behind,
          implied, stale, unseen, swallowed, faults>>

Chunks == DOMAIN SentAt
Entities == Candidates \cup {"old"}
Nothing == [c \in Chunks |-> {}]
NoScan == [pc |-> "idle", known |-> <<>>, batch |-> <<>>, windows |-> {}, left |-> {}]
NoRefresh == [pc |-> "idle", entity |-> "old", known |-> <<>>]

Init ==
    /\ status = [x \in Candidates |-> "absent"]
    /\ mounts = Nothing /\ indexed = Nothing
    /\ index = [c \in Chunks |-> [pc |-> "absent", found |-> {}]]
    /\ scan = NoScan
    /\ watermark = 0
    /\ jobs = [e \in Entities |-> "none"]
    /\ refresh = NoRefresh
    /\ scanned = {} /\ behind = {}
    /\ implied = Nothing
    /\ stale = {} /\ unseen = {}
    /\ swallowed = FALSE
    /\ faults = 0

------------------------------------------------------------------------------
\* The registry: load_entity_registry, find_entities_by_normalized, EntityMatcher.
EntityOf(known, name) ==
    CASE name = "old" -> {"old"}
      [] known[name] = "promoted" -> {name}
      [] known[name] = "merged" -> {"old"}
      [] OTHER -> {}

EntitiesOf(known, names) == UNION {EntityOf(known, n) : n \in names}
MatchChunkMounts(known, c) == EntitiesOf(known, Text[c])

\* review_candidate: the registry, the candidate and the refresh job in one
\* transaction; a job of the same entity and version that has not ended absorbs it.
Review(x, action) ==
    LET e == IF action = "promoted" THEN x ELSE "old" IN
    /\ status[x] \in {"new", "deferred"}
    /\ action # status[x]
    /\ status' = [status EXCEPT ![x] = action]
    /\ IF action \in {"promoted", "merged"}
       THEN /\ jobs' = [jobs EXCEPT ![e] = "pending"]
            /\ swallowed' = (swallowed \/ (refresh.pc # "idle" /\ refresh.entity = e))
       ELSE UNCHANGED <<jobs, swallowed>>
    /\ UNCHANGED <<mounts, indexed, index, scan, watermark, refresh, scanned, behind, implied,
                   stale, unseen, faults>>

------------------------------------------------------------------------------
\* The index path.

\* upsert_chunks: the parse stage stores the chunk, long before it is indexed.
Store(c) ==
    /\ index[c].pc = "absent"
    /\ index' = [index EXCEPT ![c].pc = "stored"]
    /\ behind' = IF \/ SentAt[c] <= watermark
                    \/ scan.pc = "windows" /\ SentAt[c] <= SentAt[Last(scan.batch)]
                 THEN behind \cup {c} ELSE behind
    /\ UNCHANGED <<status, mounts, indexed, scan, watermark, jobs, refresh, scanned, implied,
                   stale, unseen, swallowed, faults>>

IndexLoad(c) ==
    /\ index[c].pc = "stored"
    /\ index' = [index EXCEPT ![c] = [pc |-> "loaded", found |-> MatchChunkMounts(status, c)]]
    /\ UNCHANGED <<status, mounts, indexed, scan, watermark, jobs, refresh, scanned, behind,
                   implied, stale, unseen, swallowed, faults>>

\* replace_chunk_mounts, for the text of a chunk; merge_chunk_mounts, for a window.
ReplaceMounts(of) == mounts' = of /\ implied' = [c \in Chunks |-> implied[c] \cap of[c]]
MergeMounts(w, of, about) ==
    /\ mounts' = [c \in Chunks |-> IF c \in w THEN mounts[c] \cup of[c] \cup about ELSE mounts[c]]
    /\ implied' = [c \in Chunks |-> IF c \in w THEN implied[c] \cup about ELSE implied[c]]

\* process: mounts that the text gives replace the others, if it gives any; the
\* document has those and no others.
IndexWrite(c) ==
    LET found == index[c].found IN
    /\ index[c].pc = "loaded"
    /\ index' = [index EXCEPT ![c] = [pc |-> "ready", found |-> {}]]
    /\ indexed' = [indexed EXCEPT ![c] = found]
    /\ IF found = {}
       THEN /\ unseen' = IF mounts[c] = {} THEN unseen ELSE unseen \cup {c}
            /\ UNCHANGED <<mounts, implied>>
       ELSE ReplaceMounts([mounts EXCEPT ![c] = found]) /\ UNCHANGED unseen
    /\ stale' = IF found = MatchChunkMounts(status, c) THEN stale ELSE stale \cup {c}
    /\ UNCHANGED <<status, scan, watermark, jobs, refresh, scanned, behind, swallowed, faults>>

Stored == {c \in Chunks : index[c].pc # "absent"}
Documents == {c \in Chunks : index[c].pc = "ready"}

------------------------------------------------------------------------------
\* The window scan.
BySentAt(cs) ==
    SetToSortSeq(cs, LAMBDA c, d : SentAt[c] < SentAt[d] \/ (SentAt[c] = SentAt[d] /\ c < d))

\* list_conversation_chunks and list_conversation_context.
NewChunks == BySentAt({c \in Stored : SentAt[c] > watermark})
ScanBatch == SubSeq(NewChunks, 1, IF Len(NewChunks) < Batch THEN Len(NewChunks) ELSE Batch)
Context ==
    LET before == BySentAt({c \in Stored : SentAt[c] <= watermark})
        first == Len(before) - Size + 2 IN
    IF watermark = 0 THEN <<>> ELSE SubSeq(before, IF first < 1 THEN 1 ELSE first, Len(before))

\* build_windows: windows start every Step chunks, until one reaches the end.
BuildWindows(chunks) ==
    LET n == Len(chunks)
        starts == {s \in 1..n : (s - 1) % Step = 0 /\ (s = 1 \/ s - Step + Size - 1 < n)} IN
    {ToSet(SubSeq(chunks, s, IF s + Size - 1 < n THEN s + Size - 1 ELSE n)) : s \in starts}

\* _scan_conversation: only windows with a new chunk are applied.
ScanStart ==
    /\ scan.pc = "idle" /\ NewChunks # <<>>
    /\ LET windows == {w \in BuildWindows(Context \o ScanBatch) : w \cap ToSet(ScanBatch) # {}} IN
       scan' = [pc |-> "windows", known |-> status, batch |-> ScanBatch, windows |-> windows,
                left |-> windows]
    /\ behind' = behind \cup {c \in ToSet(NewChunks) \ ToSet(ScanBatch) :
                                  SentAt[c] <= SentAt[Last(ScanBatch)]}
    /\ UNCHANGED <<status, mounts, indexed, index, watermark, jobs, refresh, scanned, implied,
                   stale, unseen, swallowed, faults>>

\* _apply_window, in any order. The model names what the window is about; what the
\* registry knows by now is mounted on every chunk, what it does not becomes a candidate.
ApplyWindow(w, topics) ==
    LET about == EntitiesOf(status, topics) IN
    /\ w \in scan.left
    /\ scan' = [scan EXCEPT !.left = @ \ {w}]
    /\ MergeMounts(w, [c \in Chunks |-> MatchChunkMounts(scan.known, c)], about)
    /\ status' = [x \in Candidates |->
                    IF x \in topics /\ status[x] = "absent" THEN "new" ELSE status[x]]
    /\ UNCHANGED <<indexed, index, watermark, jobs, refresh, scanned, behind, stale, unseen,
                   swallowed, faults>>

\* update_chunk_mounts writes what the database holds to the documents that exist.
WriteIndex(cs, of) ==
    indexed' = [c \in Chunks |-> IF c \in cs \cap Documents THEN of[c] ELSE indexed[c]]

ScanFinish ==
    LET touched == UNION scan.windows IN
    /\ scan.pc = "windows" /\ scan.left = {}
    /\ WriteIndex(touched, mounts)
    /\ unseen' = unseen \ touched
    /\ scanned' = scanned \cup touched
    /\ watermark' = IF SentAt[Last(scan.batch)] > watermark
                    THEN SentAt[Last(scan.batch)] ELSE watermark
    /\ scan' = NoScan
    /\ UNCHANGED <<status, mounts, index, jobs, refresh, behind, implied, stale, swallowed,
                   faults>>

\* A window or the index update fails: the watermark stays where it is.
ScanFails ==
    /\ scan.pc = "windows"
    /\ faults < MaxFaults /\ faults' = faults + 1
    /\ scan' = NoScan
    /\ unseen' = unseen \cup {c \in Documents : mounts[c] # indexed[c]}
    /\ UNCHANGED <<status, mounts, indexed, index, watermark, jobs, refresh, scanned, behind,
                   implied, stale, swallowed>>

------------------------------------------------------------------------------
\* The refresh: run_pending, one job at a time; the job stays pending while it runs.
RefreshLoad(e) ==
    /\ refresh.pc = "idle" /\ jobs[e] \in {"pending", "failed"}
    /\ refresh' = [pc |-> "loaded", entity |-> e, known |-> status]
    /\ swallowed' = FALSE
    /\ UNCHANGED <<status, mounts, indexed, index, scan, watermark, jobs, scanned, behind,
                   implied, stale, unseen, faults>>

\* _refresh: the chunks whose mounts are not what their text gives are rewritten, in the
\* database at once and in the index at the end, which ends the job as well.
Rewritten == {c \in Stored : mounts[c] # MatchChunkMounts(refresh.known, c)}

RefreshWrite ==
    LET found == [c \in Chunks |-> IF c \in Rewritten THEN MatchChunkMounts(refresh.known, c)
                                   ELSE mounts[c]] IN
    /\ refresh.pc = "loaded"
    /\ ReplaceMounts(found)
    /\ stale' = stale \ Stored
    /\ \/ /\ WriteIndex(Rewritten, found)
          /\ unseen' = unseen \ Rewritten
          /\ jobs' = [jobs EXCEPT ![refresh.entity] = "none"]
          /\ UNCHANGED faults
       \/ /\ faults < MaxFaults /\ faults' = faults + 1
          /\ unseen' = unseen \cup Rewritten
          /\ jobs' = [jobs EXCEPT ![refresh.entity] = "failed"]
          /\ UNCHANGED indexed
    /\ refresh' = NoRefresh
    /\ UNCHANGED <<status, index, scan, watermark, scanned, behind, swallowed>>

------------------------------------------------------------------------------
Actions == {"promoted", "merged", "ignored", "deferred"}
Topics == {{}} \cup {{n} : n \in Candidates \cup {"old"}}    \* one topic per window

Next ==
    \/ \E x \in Candidates : \E action \in Actions : Review(x, action)
    \/ \E c \in Chunks : Store(c) \/ IndexLoad(c) \/ IndexWrite(c)
    \/ ScanStart \/ ScanFinish \/ ScanFails
    \/ \E w \in scan.left : \E topics \in Topics : ApplyWindow(w, topics)
    \/ \E e \in Entities : RefreshLoad(e)
    \/ RefreshWrite

TypeOK ==
    /\ status \in [Candidates -> Actions \cup {"absent", "new"}]
    /\ {mounts, indexed, implied} \subseteq [Chunks -> SUBSET Entities]
    /\ \A c \in Chunks : /\ index[c].pc \in {"absent", "stored", "loaded", "ready"}
                         /\ index[c].found \subseteq Entities
    /\ scan.pc \in {"idle", "windows"} /\ scan.left \subseteq scan.windows
    /\ scan.windows \subseteq SUBSET Chunks
    /\ watermark \in {0} \cup {SentAt[c] : c \in Chunks}
    /\ jobs \in [Entities -> {"none", "pending", "failed"}]
    /\ refresh.pc \in {"idle", "loaded"} /\ refresh.entity \in Entities
    /\ scanned \cup behind \cup stale \cup unseen \subseteq Chunks
    /\ swallowed \in BOOLEAN
    /\ faults \in 0..MaxFaults

Quiet ==
    /\ refresh.pc = "idle" /\ scan.pc = "idle"
    /\ \A e \in Entities : jobs[e] = "none"
    /\ Documents = Stored

\* The watermark never passes a message that no window has had, unless the message was
\* stored behind it or a full batch cut it off from one sent at the same time
\* (build_windows, _run_windows, set_scan_watermark).
NothingSkipped ==
    \A c \in Stored : SentAt[c] <= watermark => c \in scanned \cup behind

\* What the windows have added is there until a replacement removes it: neither a later
\* window nor a failed sweep takes anything away (merge_chunk_mounts).
WindowsOnlyAdd ==
    \A c \in Chunks : implied[c] \subseteq mounts[c]

\* When all is quiet every chunk is mounted on what its text names, by the registry as it
\* is now: a review reaches the chunks there were, unless it came while a refresh of the
\* same entity ran, or an index job that had read the older registry wrote last.
ReviewReachesAll ==
    Quiet /\ ~swallowed =>
        \A c \in Stored \ stale : MatchChunkMounts(status, c) \subseteq mounts[c]

\* Then the search index agrees with the database too, except on the chunks which a scan
\* mounted before they were indexed, or whose index update failed half way.
IndexAgrees ==
    Quiet => \A c \in Documents \ unseen : indexed[c] = mounts[c]

Mounted == NothingSkipped /\ WindowsOnlyAdd /\ ReviewReachesAll /\ IndexAgrees
==============================================================================
