------------------------------- MODULE RagJob -------------------------------
(****************************************************************************)
(* One processing job of the RAG service: the parse, index and memory lanes *)
(* of several worker processes over one row of processing_jobs, the rows    *)
(* they write without holding its lease (chunks, projection, search index), *)
(* and the callbacks by which the knowledge service learns the outcome.     *)
(*                                                                          *)
(* A lane claims the row under a new lease epoch and writes it only while   *)
(* owner and epoch are still its own.  A heartbeat thread renews the lease; *)
(* an exception ends that thread silently and its lane works on.            *)
(*                                                                          *)
(* The job exists in Init: create_or_get_job is one INSERT, unique by the   *)
(* event.  The in-process queues only say which row to claim next, and the  *)
(* lanes poll when they are empty.  The chunks of a version move together   *)
(* and appear as one.  The time of a retry is any later time.               *)
(****************************************************************************)
EXTENDS Naturals

CONSTANTS
    Procs,              \* worker processes
    TaskMaxRetries,     \* settings.task_max_retries
    IndexMaxRetries,    \* settings.index_max_retries
    MaxFaults           \* bound: exceptions, dead processes and heartbeats, lost calls

ASSUME RetriesAssumption == TaskMaxRetries \in Nat \ {0} /\ IndexMaxRetries \in Nat \ {0}
ASSUME FaultsAssumption == MaxFaults \in Nat

Lanes == {"parse", "index", "memory"}
Threads == Procs \X (Lanes \cup {"callback"})
Lane(t) == t[2]

Verdicts == {"ready", "metadata_only", "failed"}
News == Verdicts \cup {"processing"}

VARIABLES
    job,        \* the row of processing_jobs; leased: lease_until lies in the future
    chunks,     \* rag_mvp.chunks of the version: none, or their embedding_status
    proj,       \* their projection_records
    es,         \* whether the search index has them
    outbox,     \* rag_mvp.outbox_events: the status of the row of each event type
    item,       \* knowledge.knowledge_items.rag_status
    th,         \* the threads
    errors,     \* history: whether a service or the database ever failed a lane
    cut,        \* history: whether a lane ended between a verdict and its outbox row
    faults

rows == <<job, chunks, proj, es>>
vars == <<job, chunks, proj, es, outbox, item, th, errors, cut, faults>>

\* owner: the epoch of the claim that made up the owner's name, 0 for NULL.
Job == [status : Verdicts \cup {"pending", "processing", "retry_wait"},
        stage : {"null", "fetch", "index", "memory", "callback"},
        parse : {"pending", "parsed", "metadata_only", "failed"},
        owner : Nat, epoch : Nat, leased : BOOLEAN, retry : Nat]
Proj == [status : {"none", "pending", "indexing", "ready", "retry_wait", "failed"}, retry : Nat]

\* epoch, retry and parse are the claimed copy of the row; beat: its heartbeat thread
\* lives; news: the callback at hand; result and again: how the lane's work ended;
\* todo, at and ok: the rows a flush has read, the one it sends, what send() returned.
Thread == [pc : {"idle", "add", "read", "send", "mark", "begin", "call", "embed", "indexing",
                 "bulk", "indexed", "verify", "settle", "fail"},
           epoch : Nat, retry : Nat, parse : {"pending", "parsed", "metadata_only", "failed"},
           beat : BOOLEAN, news : News, result : {"parsed", "metadata_only", "ready"},
           again : BOOLEAN, todo : SUBSET News, at : News, ok : BOOLEAN]
Rest == [pc |-> "idle", epoch |-> 0, retry |-> 0, parse |-> "pending", beat |-> FALSE,
         news |-> "processing", result |-> "parsed", again |-> TRUE, todo |-> {},
         at |-> "processing", ok |-> TRUE]

Init ==
    /\ job = [status |-> "pending", stage |-> "null", parse |-> "pending",
              owner |-> 0, epoch |-> 0, leased |-> FALSE, retry |-> 0]
    /\ chunks = "none"
    /\ proj = [status |-> "none", retry |-> 0]
    /\ es = FALSE
    /\ outbox = [e \in News |-> "none"]
    /\ item = "pending"
    /\ th = [t \in Threads |-> Rest]
    /\ errors = FALSE
    /\ cut = FALSE
    /\ faults = 0

Fault == faults < MaxFaults /\ faults' = faults + 1

Leave(t) == th' = [th EXCEPT ![t] = Rest]
Goto(t, pc) == th' = [th EXCEPT ![t].pc = pc]
\* An exception of the lane's work, and whether _retry_or_fail may try again.
Raise(t, again) == th' = [th EXCEPT ![t].pc = "fail", ![t].again = again]

-----------------------------------------------------------------------------
(* The job row. *)

\* _lane_stage_clause.
Matches(lane) ==
    \/ /\ lane = "parse"
       /\ job.status \in {"pending", "retry_wait", "processing"}
       /\ job.stage \in {"null", "fetch"}
    \/ /\ lane = "index"
       /\ job.status \in {"processing", "retry_wait"}
       /\ job.stage = "index"
    \/ /\ lane = "memory"
       /\ job.status = "ready"
       /\ job.stage = "memory"

\* claim_jobs, then the heartbeat thread of _process_claimed.
Claim(t) ==
    /\ th[t].pc = "idle"
    /\ Lane(t) \in Lanes
    /\ Matches(Lane(t))
    /\ ~job.leased
    /\ job' = [job EXCEPT !.status = "processing",
                          !.stage = IF @ = "null" THEN "fetch" ELSE @,
                          !.owner = job.epoch + 1, !.epoch = job.epoch + 1, !.leased = TRUE]
    /\ th' = [th EXCEPT ![t] = [Rest EXCEPT !.pc = "add", !.epoch = job.epoch + 1,
                                            !.retry = job.retry, !.parse = job.parse, !.beat = TRUE]]
    /\ UNCHANGED <<chunks, proj, es, outbox, item, errors, cut, faults>>

\* The WHERE clause of _update_job_if_owned and of add_attempt.
Owns_Anyone(t) == TRUE          \* mutant: the fence is dropped
Owns(t) == job.owner = th[t].epoch /\ job.epoch = th[t].epoch

\* _run_parse and _run_index start by confirming the lease.
Begin(t) ==
    /\ th[t].pc = "begin"
    /\ IF Owns(t)
       THEN /\ job' = [job EXCEPT !.status = "processing",
                                  !.stage = IF Lane(t) = "parse" THEN "fetch" ELSE "index"]
            /\ Goto(t, "call")
       ELSE Leave(t) /\ UNCHANGED job
    /\ UNCHANGED <<chunks, proj, es, outbox, item, errors, cut, faults>>

Released(status, stage) ==
    [job EXCEPT !.status = status, !.stage = stage, !.owner = 0, !.leased = FALSE]

\* add_attempt and the closing _owned_update of a lane, both under the fence; the index
\* lane goes on to the callback, the others are done.
Settled_ParseToo(t) ==          \* mutant: the index lane's result lands in parse_status
    CASE Lane(t) = "index" -> [Released("ready", "memory") EXCEPT !.parse = th[t].result]
      [] OTHER -> Released("processing", "index")
Settled(t) ==
    CASE Lane(t) = "parse" -> [Released("processing", "index") EXCEPT !.parse = th[t].result]
      [] Lane(t) = "index" -> IF th[t].result = "ready" THEN Released("ready", "memory")
                                                        ELSE Released("metadata_only", "callback")
      [] OTHER -> Released("ready", "callback")
Reports_Nothing(t) == FALSE     \* mutant: the callback after the update is forgotten
Reports(t) == Lane(t) = "index"
Settle(t) ==
    /\ th[t].pc = "settle"
    /\ IF Owns(t)
       THEN /\ job' = Settled(t)
            /\ IF Reports(t)
               THEN th' = [th EXCEPT ![t].pc = "add", ![t].news = th[t].result]
               ELSE Leave(t)
       ELSE Leave(t) /\ UNCHANGED job
    /\ UNCHANGED <<chunks, proj, es, outbox, item, errors, cut, faults>>

\* _retry_or_fail: the count is that of the claimed copy.
Terminal(t) == ~th[t].again \/ th[t].retry + 1 >= TaskMaxRetries
RetryOrFail(t) ==
    /\ th[t].pc = "fail"
    /\ IF Owns(t)
       THEN /\ job' = [(IF Terminal(t) THEN Released("failed", "callback")
                        ELSE Released("retry_wait", IF Lane(t) = "parse" THEN "fetch" ELSE "index"))
                       EXCEPT !.retry = th[t].retry + 1,
                              !.parse = IF Lane(t) = "parse" THEN "failed" ELSE @]
            /\ IF Terminal(t)
               THEN th' = [th EXCEPT ![t].pc = "add", ![t].news = "failed"]
               ELSE Leave(t)
       ELSE Leave(t) /\ UNCHANGED job
    /\ UNCHANGED <<chunks, proj, es, outbox, item, errors, cut, faults>>

-----------------------------------------------------------------------------
(* The parse lane: nothing it writes before its update is fenced. *)

\* MVPParseService.run, then upsert_snapshot and upsert_chunks; without text there are
\* no chunks, and what an earlier parse left stays.
Parse(t) ==
    /\ th[t].pc = "call"
    /\ Lane(t) = "parse"
    /\ \/ /\ chunks' = "pending"
          /\ th' = [th EXCEPT ![t].result = "parsed", ![t].pc = "settle"]
          /\ UNCHANGED errors
       \/ /\ th' = [th EXCEPT ![t].result = "metadata_only", ![t].pc = "settle"]
          /\ UNCHANGED <<chunks, errors>>
       \/ /\ \E again \in BOOLEAN : Raise(t, again)
          /\ errors' = TRUE
          /\ UNCHANGED chunks
    /\ UNCHANGED <<job, proj, es, outbox, item, cut, faults>>

-----------------------------------------------------------------------------
(* The index lane: MVPIndexService.process, without the fence. *)

\* PROJECTION_TRANSITIONS; no projection is deleted here.
ProjectionTransitions_Lax == [s \in {"none", "pending", "indexing", "ready", "retry_wait", "failed"} |->
    {"indexing", "ready", "retry_wait", "failed"}]      \* mutant
ProjectionTransitions ==
    [none |-> {}, pending |-> {"indexing", "retry_wait", "failed"},
     indexing |-> {"ready", "retry_wait", "failed"},
     retry_wait |-> {"retry_wait", "indexing", "failed"},
     ready |-> {"ready"}, failed |-> {"failed"}]
CanProject(status) == status \in ProjectionTransitions[proj.status]

\* update_projection_status: a refused transition is an exception that may be retried.
Project(t, status, pc) ==
    IF CanProject(status)
    THEN proj' = [proj EXCEPT !.status = status] /\ Goto(t, pc)
    ELSE UNCHANGED proj /\ Raise(t, TRUE)

\* _mark_retryable_failure, then the IndexStageError of its caller.  Its two queries, the
\* count and the update, are one step here.
MarkFailure(t) ==
    LET again == proj.retry + 1 < IndexMaxRetries
        status == IF again THEN "retry_wait" ELSE "failed"
    IN  IF CanProject(status)
        THEN proj' = [status |-> status, retry |-> proj.retry + 1] /\ Raise(t, again)
        ELSE UNCHANGED proj /\ Raise(t, TRUE)

\* list_chunks, ensure_projection_records, _retryable_chunks.  A projection that waits
\* for its retry is passed over; the lane goes on to the check of all projections.
ListChunks(t) ==
    /\ th[t].pc = "call"
    /\ Lane(t) = "index"
    /\ IF chunks = "none"
       THEN /\ IF th[t].parse = "metadata_only"
               THEN th' = [th EXCEPT ![t].result = "metadata_only", ![t].pc = "settle"]
               ELSE Raise(t, FALSE)
            /\ UNCHANGED proj
       ELSE /\ proj' = IF proj.status = "none" THEN [proj EXCEPT !.status = "pending"] ELSE proj
            /\ \/ proj.status \notin {"ready", "failed"} /\ Goto(t, "embed")
               \/ proj.status \in {"ready", "retry_wait"} /\ Goto(t, "verify")
               \/ proj.status = "failed" /\ Raise(t, FALSE)
    /\ UNCHANGED <<job, chunks, es, outbox, item, errors, cut, faults>>

\* The embedding provider, then update_embedding_status.
Embed(t) ==
    /\ th[t].pc = "embed"
    /\ \/ chunks' = "ready" /\ Goto(t, "indexing") /\ UNCHANGED <<proj, errors>>
       \/ MarkFailure(t) /\ errors' = TRUE /\ UNCHANGED chunks
    /\ UNCHANGED <<job, es, outbox, item, cut, faults>>

MarkIndexing(t) ==
    /\ th[t].pc = "indexing"
    /\ Project(t, "indexing", "bulk")
    /\ UNCHANGED <<job, chunks, es, outbox, item, errors, cut, faults>>

\* index_chunks: a bulk request that fails may have been carried out in part.
IndexChunks(t) ==
    /\ th[t].pc = "bulk"
    /\ \/ es' = TRUE /\ Goto(t, "indexed") /\ UNCHANGED <<proj, errors>>
       \/ MarkFailure(t) /\ errors' = TRUE /\ es' \in {es, TRUE}
    /\ UNCHANGED <<job, chunks, outbox, item, cut, faults>>

MarkReady(t) ==
    /\ th[t].pc = "indexed"
    /\ Project(t, "ready", "verify")
    /\ UNCHANGED <<job, chunks, es, outbox, item, errors, cut, faults>>

\* All projections of the version must be ready.
Verified_NotFailed(status) == status # "failed"     \* mutant
Verified(status) == status = "ready"
Verify(t) ==
    /\ th[t].pc = "verify"
    /\ IF Verified(proj.status)
       THEN th' = [th EXCEPT ![t].result = "ready", ![t].pc = "settle"]
       ELSE Raise(t, proj.status # "failed")
    /\ UNCHANGED <<job, chunks, proj, es, outbox, item, errors, cut, faults>>

-----------------------------------------------------------------------------
(* Callbacks: _callback adds a row and flushes, the callback thread flushes. *)

\* add_outbox_event: ON CONFLICT DO NOTHING over (item, event type, version).
AddOutboxEvent(t) ==
    /\ th[t].pc = "add"
    /\ outbox' = [outbox EXCEPT ![th[t].news] = IF @ = "none" THEN "pending" ELSE @]
    /\ Goto(t, "read")
    /\ UNCHANGED <<rows, item, errors, cut, faults>>

\* pending_outbox: available_at of a failed row may not have passed, and the rows of other
\* jobs may use up the limit, the oldest rows first: "processing" before a verdict.  No
\* claim: several flushes may hold the same row.
Deliverable_PendingOnly(e) == outbox[e] = "pending"     \* mutant: nothing is resent
Deliverable(e) == outbox[e] \in {"pending", "failed"}
Flush(t) ==
    /\ \/ th[t].pc = "read"
       \/ th[t].pc = "idle" /\ Lane(t) = "callback" /\ \E e \in News : Deliverable(e)
    /\ \E due \in SUBSET {e \in News : Deliverable(e)} :
          /\ outbox["processing"] = "pending" /\ due # {} => "processing" \in due
          /\ Lane(t) = "callback" => due # {}
          /\ th' = [th EXCEPT ![t].todo = due, ![t].pc = "send"]
    /\ UNCHANGED <<rows, outbox, item, errors, cut, faults>>

\* ApplyRAGResult, for the version the item has: what it shows next.
Settles_Nothing(status, news) == FALSE      \* mutant: a late callback is not refused
Settles(status, news) ==
    \/ status = "ready"
    \/ status = "metadata_only" /\ news # "ready"
    \/ status = "failed" /\ news = "processing"
ApplyRAGResult(news) == IF Settles(item, news) THEN item ELSE news

\* send(): the request may be lost, and so may the answer.
Send(t) ==
    /\ th[t].pc = "send"
    /\ \E e \in th[t].todo, applied, ok \in BOOLEAN :
          /\ "processing" \in th[t].todo => e = "processing"
          /\ ok => applied
          /\ IF ok THEN UNCHANGED faults ELSE Fault
          /\ item' = IF applied THEN ApplyRAGResult(e) ELSE item
          /\ th' = [th EXCEPT ![t].todo = @ \ {e}, ![t].at = e, ![t].ok = ok, ![t].pc = "mark"]
    /\ UNCHANGED <<rows, outbox, errors, cut>>

\* mark_outbox_published or mark_outbox_failed, whatever another flush has marked.
Mark(t) ==
    /\ th[t].pc = "mark"
    /\ outbox' = [outbox EXCEPT ![th[t].at] = IF th[t].ok THEN "published" ELSE "failed"]
    /\ Goto(t, "send")
    /\ UNCHANGED <<rows, item, errors, cut, faults>>

\* The flush is over: the lane goes on to its work, or it has reported it.
FlushDone(t) ==
    /\ th[t].pc = "send"
    /\ th[t].todo = {}
    /\ IF Lane(t) = "callback" \/ th[t].news # "processing"
       THEN Leave(t)
       ELSE th' = [th EXCEPT ![t].pc = IF Lane(t) = "memory" THEN "settle" ELSE "begin",
                             ![t].at = "processing", ![t].ok = TRUE]
    /\ UNCHANGED <<rows, outbox, item, errors, cut, faults>>

-----------------------------------------------------------------------------
(* Faults. *)

Unreported(t) == th[t].pc = "add" /\ th[t].news \in Verdicts

\* The database fails a lane inside the try block of its work.
Trip(t) ==
    /\ Fault
    /\ Lane(t) \in {"parse", "index"}
    /\ th[t].pc \in {"call", "embed", "indexing", "bulk", "indexed", "verify", "settle"}
    /\ Raise(t, TRUE)
    /\ errors' = TRUE
    /\ UNCHANGED <<rows, outbox, item, cut>>

\* It fails one outside: _process_claimed or _callback_loop logs the exception, the
\* lease stays behind.
Abort(t) ==
    /\ Fault
    /\ th[t].pc # "idle"
    /\ Leave(t)
    /\ errors' = TRUE
    /\ cut' = (cut \/ Unreported(t))
    /\ UNCHANGED <<rows, outbox, item>>

\* A worker process dies and is started again.
Crash(p) ==
    /\ Fault
    /\ \E t \in Threads : t[1] = p /\ th[t].pc # "idle"
    /\ th' = [t \in Threads |-> IF t[1] = p THEN Rest ELSE th[t]]
    /\ cut' = (cut \/ \E t \in Threads : t[1] = p /\ Unreported(t))
    /\ UNCHANGED <<rows, outbox, item, errors>>

\* repository.heartbeat raises: the thread ends, the lane is not told.
HeartbeatDies(t) ==
    /\ Fault
    /\ th[t].beat
    /\ th' = [th EXCEPT ![t].beat = FALSE]
    /\ UNCHANGED <<rows, outbox, item, errors, cut>>

\* lease_until passes without a heartbeat.
LeaseLapses ==
    /\ job.leased
    /\ \A t \in Threads : ~(th[t].beat /\ Owns(t))
    /\ job' = [job EXCEPT !.leased = FALSE]
    /\ UNCHANGED <<chunks, proj, es, outbox, item, th, errors, cut, faults>>

-----------------------------------------------------------------------------
Work(t) ==
    \/ Claim(t) \/ Begin(t) \/ Settle(t) \/ RetryOrFail(t)
    \/ Parse(t)
    \/ ListChunks(t) \/ Embed(t) \/ MarkIndexing(t) \/ IndexChunks(t) \/ MarkReady(t) \/ Verify(t)
    \/ AddOutboxEvent(t) \/ Flush(t) \/ Send(t) \/ Mark(t) \/ FlushDone(t)

Next ==
    \/ \E t \in Threads : Work(t) \/ Trip(t) \/ Abort(t) \/ HeartbeatDies(t)
    \/ \E p \in Procs : Crash(p)
    \/ LeaseLapses

Spec == Init /\ [][Next]_vars

\* The threads of a live process run on, and time passes.
FairSpec == Spec /\ WF_vars(LeaseLapses) /\ \A t \in Threads : WF_vars(Work(t))

-----------------------------------------------------------------------------
(* Properties. *)

TypeOK ==
    /\ job \in Job
    /\ chunks \in {"none", "pending", "ready"}
    /\ proj \in Proj
    /\ es \in BOOLEAN
    /\ outbox \in [News -> {"none", "pending", "published", "failed"}]
    /\ item \in News \cup {"pending"}
    /\ th \in [Threads -> Thread]
    /\ errors \in BOOLEAN
    /\ cut \in BOOLEAN
    /\ faults \in 0..MaxFaults

\* What became of the version.  A ready job is "processing" again while the memory lane
\* has it.
Verdict ==
    IF job.status \in {"failed", "metadata_only"} THEN job.status
    ELSE IF job.stage \in {"memory", "callback"} THEN "ready"
    ELSE "open"

\* A job is not ready before the search index has the chunks and the projection says so,
\* and it stays so: a lane whose lease is long gone can neither undo the projection nor
\* declare an unfinished one ready.
ReadyIsIndexed == Verdict = "ready" => es /\ proj.status = "ready"

\* Only the verdict is ever put into the outbox: two lanes that worked on one job, one of
\* them without its lease, do not both report.
OnlyTheVerdict == \A e \in Verdicts : outbox[e] # "none" => Verdict = e

\* A verdict has a row in the outbox, or a lane is about to add it; the exception is a
\* lane that ended between its update and that insert.
AnnouncedUnlessCut ==
    Verdict # "open" =>
        \/ outbox[Verdict] # "none"
        \/ \E t \in Threads : Unreported(t)
        \/ cut

\* The job and the knowledge service's view of it follow RagVerdict: one verdict, shown
\* after it was reached, never taken back, whatever the order in which concurrent flushes
\* deliver and repeat the callbacks.
V == INSTANCE RagVerdict WITH verdict <- Verdict, shown <- item
KeepsPromise == V!Spec

\* The knowledge service learns a verdict, whatever dies or is lost on the way, unless a
\* lane ended between its update and the callback.
Told == <>(item \in Verdicts \/ cut)

\* An unfinished job that nobody holds can be claimed: rows and leases are "the
\* authoritative recovery source when a process or queue is lost".
Recoverable ==
    job.status \in {"pending", "retry_wait", "processing"} /\ ~job.leased =>
        \E lane \in Lanes : Matches(lane)

\* For the same reason a job does not fail when processes died but nothing else did.
FailsForAReason == job.status = "failed" => errors
=============================================================================
