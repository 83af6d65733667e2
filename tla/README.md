# Info-agent: specifications, model checking and proofs

This directory holds TLA+ specifications of the Info-agent services, the TLC
configurations that check them on small instances, and TLAPS proofs of the
theorems that hold for every value of the constants. `PROJECT.json` maps every
definition to the lines it models; paths below are relative to the repository.

## 1. The system

Users read and search what their collectors brought in (Feishu, WeChat, files)
and give tasks to an agent that may write to the outside (forms, calendars,
documents) after they approved it.

| Part | Keeps | Does | Talks to |
| --- | --- | --- | --- |
| **Agent** `services/agent` (Python) | PostgreSQL rows: task, plan, steps, capability calls, approvals, observations, inputs, outbox, desktop tasks; a Redis stream | plans a task with a language model, executes its steps, waits for approval or input, recovers after crashes | RAG and knowledge over HTTP, form-browser, search, language model |
| **RAG** `services/rag` (Python) | parse/index/memory jobs with a lease epoch, chunks, vectors, callback outbox | indexes knowledge items, answers questions, deletes | knowledge (events, callbacks), Elasticsearch |
| **Knowledge** `services/knowledge` (Go) | items, connectors, cursors, deletion requests, contacts, outbox | polls Feishu, ingests, masks sensitive data, applies RAG results | RAG, core, WeChat collector |
| **Core** `services/core` (Go) | users, organisations, access requests; refresh sessions in Redis; OpenFGA tuples | authentication, authorisation | all services |
| **Form browser** `services/form-browser` (Python) | browser sessions with a limit and a time to live | fills web forms and grids | agent, desktop |
| **WeChat collector** `services/collectors/wechat` (Python) | cursor, device state | polls a local archive, executes device commands | knowledge |
| **Desktop** `apps/desktop` (Electron) | sidecar processes | runs desktop tasks on the user's machine | agent |
| **Intent** `services/intent`, **web** `apps/web`, **gateway**, **db** | none of their own | inference, user interface, routing, schema | |

### The Agent, in more detail

* **Kernel** (`app/kernel/runtime.py`, `executor.py`, `checkpoint.py`, `states.py`).
  `run_task` takes a lease on the task row and `_drive` loops: read the task, plan
  it if it has no plan, pick the first unfinished step, recover it if a dead worker
  left it running, check policy and approval, execute, decide what follows.
  *Correct when* one driver works at a time, an external write leaves only as
  approved and under one request id, an answered call is not repeated, attempts are
  bounded, and "succeeded" does not hide a dropped write.
* **Approvals and input** (`kernel/approval.py`, `application/task_service.py`).
  HTTP requests that read and write the same rows, without a lock or a version.
  *Correct when* what the owner decided is what happens.
* **Wake-ups** (`infrastructure/redis/streams.py`, `infrastructure/postgres/store.py`,
  `worker.py`, `worker_supervisor.py`). A commit that makes a task runnable inserts
  an outbox row; a worker publishes it; a worker of the consumer group handles the
  message. *Correct when* a runnable task always has something that leads a worker
  to it.

### RAG indexing

A `knowledge.ready` event becomes a row of `processing_jobs`; a parse, an index and a memory
lane of every worker process claim it in turn under a lease with an epoch
(`app/application/runtime.py`). The row is written only by the holder of the lease, the
chunks, projections and search index by whoever works (`index_service.py`). Callbacks go
through an outbox that all lanes and a callback thread flush without claiming rows, and
the knowledge service applies them in whatever order they come (`ApplyRAGResult`).
*Correct when* a version gets one verdict, "ready" means indexed, and the knowledge
service shows that verdict in the end and nothing else after it.

* **Desktop tasks** (`infrastructure/postgres/desktop_tasks.py`, the runner of
  `apps/desktop`). The agent queues an operation on a browser of its owner's computer
  as a row and polls it; the desktop application claims the row and reports. *Correct
  when* an operation happens at most once and none that happened is filed as undone.
* **Planning** (`planning/`, `kernel/runtime.py`). Rules, a router and a model write
  plans whose steps refer to each other; the loop shows the planner each observation,
  continues, re-plans or stops, under a budget. *Correct when* references name what they
  were meant to, nothing settled is issued again and rules write runnable plans.
* **Understanding** (`understanding/`). A classifier and a model decide what a message
  asks for. *Correct when* no task is dropped on a guess, nobody's verdict is thrown
  away and each task pays for its own calls.
* **Capabilities** (`capabilities/`, `providers/`). Knowledge and web research, a
  person's messages and facts, forms. *Correct when* what is quoted was found where the
  question allows, an export says what it lacks, and a form holds the person's own words.
* **Weekly report** (`capabilities/report.py`, `application/report/`). A template is attached, found
  or picked on the page in a second turn, and filled with what was said in a week. *Correct
  when* the report has the layout its owner chose and covers the week he named, and an empty
  section says so once.
* **Answer stream** (`routers/tasks.py`, `infrastructure/redis/answer_stream.py`).
  Pieces in Redis and events in PostgreSQL meet on one connection. *Correct when* the
  page shows one text without holes and the result comes behind it.

### RAG, other parts

* **Inbound stream and deletion** (`infrastructure/events/redis_streams.py`,
  `deletion_service.py`): a consumer group with sweeps and dead letters. *Correct when*
  nothing is acknowledged that was not handled and only the hopeless is given up.
* **Parsing** (`parse_service.py`, `processing/`): *correct when* the masked text is
  never made from the original, and an outage does not make a document empty.
* **Retrieval** (`rag_service.py`, `entity_locator.py`, `rag_authorization.py`): candidates
  from an index that knows no rights, checked one by one. *Correct when* nothing unchecked
  is shown and nothing readable is lost on the way.
* **Entity tree** (`index_service.py`, `window_scan_service.py`,
  `branch_refresh_service.py`): three writers of the mounts of one chunk. *Correct when* a
  review reaches every chunk and the watermark skips none.

### Knowledge, core and the collector

* **Feishu collection** (`worker.go`): a poll under a key-value lock that runs out, with
  a cursor per conversation. *Correct when* what the cursor passed is stored.
* **Connector tokens** (`service.go`): OAuth answers and refreshes that rotate one token.
  *Correct when* the owner is asked to authorize again only if he has to.
* **Publication** (`postgres.go`): classification, permissions and the ready gate, by
  workers that claim nothing. *Correct when* search shows the masked text and every item
  is indexed in the end.
* **Local uploads** and **contact profiles** (`service.go`): calls that share one object; summaries made
  from readings that age. *Correct when* a stored file is there and gets announced, and a profile has
  no contact facts and becomes current.
* **Deletion** and **private shares**: requests of several statements, repeated by a worker.
  *Correct when* complete means gone, and one side of a chat shares.
* **WeChat devices and collection** (`collectors/wechat`): pairing, heartbeats, commands,
  pages of a local archive. *Correct when* a device comes back to what its owner asked
  for and the cursor vouches for what was stored.
* **Sessions** (`refresh_store.go`): rotation of a refresh token with a grace period.
  *Correct when* a session has one good token and tabs do not log their user out.
* **Organisations and access requests** (`organization_repository.go`,
  `access_request.go`, `authorization.go`): rows in PostgreSQL mirrored as tuples in
  OpenFGA. *Correct when* there is an owner, and a tuple is what was decided.

### What is hard

Every database access is its own transaction and none compares a version, so what
was read is stale when it is written back; workers crash between any two accesses;
messages are delivered more than once and leases, claims and idle times lapse
independently; an external call may have had its effect although it timed out.
`PROJECT.json` lists the hazards, each at its line, with the properties aimed at
it or the reason why none is yet.

## 2. Modules

| Module | Contents |
| --- | --- |
| `AgentTask` | one task: the drivers, the owner's requests, the rows they share |
| `MCAgentTask` | instances for TLC (four configurations) |
| `AgentTask_proofs` | types; the lease, the approvals, the call rows, the attempt counter, what a reported success accounts for |
| `TaskWakeup` | outbox, stream, consumer group, lease, worker pool (two configurations) |
| `TaskWakeup_proofs` | type correctness, publication, no lost wake-up |
| `RagVerdict` | abstract: one version of an item, its verdict and what is shown |
| `RagJob` | one job: lanes, lease, projections, search index, callbacks; implements `RagVerdict` |
| `MCRagJob` | instance for TLC (four configurations) |
| `RagJob_proofs` | types; leases, the verdict, its delivery, the index, the refinement |
| `DesktopTask` | the queue of operations on the owner's computer |
| `PlanLoop` | from a message to a plan, and the loop over its observations |
| `Understanding` | classifier and model, the threads that share one provider |
| `KnowledgeAnswer`, `WebResearch` | search, evidence and citation; pages that are fetched and rendered |
| `PersonScope` | export of a person's messages, facts and their snapshots |
| `FormFill`, `FormEvidence` | sessions, draft, write and undo; where the values of a draft come from |
| `WeeklyReport` | the report of a week: its template, its evidence, the document |
| `AnswerStream`, `JsonPreview` | the way of a streamed answer; the reader of incomplete JSON |
| `RagStream`, `RagParse` | the consumer group; one job of the parse lane |
| `Retrieval`, `EntityTree` | one search while rights change; the mounts of chunks |
| `KnowledgeCollect`, `ConnectorToken` | the poll of a Feishu conversation; its account's credential |
| `KnowledgeItem`, `KnowledgeDeletion`, `KnowledgeShare` | publication, deletion, private shares |
| `LocalUpload`, `ContactProfile` | files that users upload; facts and profile of a contact |
| `WechatDevice`, `WechatCollect` | the collector's configuration; its collection |
| `RefreshSession`, `Organization`, `AccessRequest` | the core service |
| `ConversationMemory` | messages, summary, title and memory of one conversation |
| `MCKnowledge`, `MCServices`, `MCDelivery` | compositions and instances for TLC |
| `MCServicesParts` | the half of `MCServices` whose proofs need no sequences: a module of its own, since a prover reads all that is in reach |
| `MCKnowledge_proofs` | types, collection, publication, deletion, uploads, profiles |
| `MCServices_proofs` | the theorems about `MCServices`, from the lemmas of the next two |
| `MCServicesCore_proofs` | sessions, access requests, organisations, conversations |
| `MCServicesKnowledge_proofs` | connector tokens, private shares, the WeChat collection |
| `MCDelivery_proofs` | desktop operations, the event stream, the parse lane |

### AgentTask

A driver thread is a program counter (`drv[d].pc`) with the copies its Python locals
hold: `mine` is the `PlanStep` object, `seen` the `TaskRecord` it read last, `snap`
the `Plan` with its steps as loaded (which `save_plan` writes back), `goal` the status
it is about to commit. One action is one transaction, or one call of an external
system; consecutive reads of rows that others do not change are merged.

| Action | Code |
| --- | --- |
| `RunTask`, `LoopRead`, `OutOfTime`, `Release` | `run_task`, head of `_drive`, `finally` |
| `BeginPlanning`, `Planner`, then `GetTask`/`Commit` | `_begin_planning`, `_prepare_understanding`, `_plan` |
| `Pick`, `Recover` | `resume_step`, `_recover_running_step` |
| `PreflightBlocks`, `StepRefused`, `Check` | reference resolution, `_preflight`, `validate_step`, policy |
| `RequestApproval`, `StepWaits` | `_wait_for_approval`: the row, the step, (the task) |
| `StartStep`, `CallRead`, `CallSave`, `Invoke`, `CallFinish`, `Settle` | `_execute_step` and `CapabilityExecutor.execute` |
| `Decide`, `Apply`, `Finish`, `SavePlan` | `_decide_and_apply`, `_complete`, `save_plan` |
| `GetTask`, `Commit` | the `get_task` ... `commit` pair that ends `_fail`, `_complete`, `_pause_for_input`, ... |
| `ClickApprove`, `ClickReject`, `SupersedeApproval`, `DecideStep`, `DecideSave` | `ApprovalGateway.decide` |
| `ClickCancel`, `ClickResume`, `RequestCommit` | `TaskService.cancel`, `submit_input` |
| `Crash`, `RequestDies`, `LeaseExpires` | a process dies; its lease lapses |

`Commit` writes the whole row that `GetTask` read, which is what `_upsert_task` does:
a change made in between is lost. `Written` leaves the attempt count alone, as
`update_step` does unless it is given one. An exception (a refused transition, a
violated UNIQUE constraint) leaves through `finally` (`Leave`).

Arguments are one of two values: as planned, or as edited by the owner. A request id
is a number; 0 is "no row". The history variables `granted`, `refused`, `sent`,
`invoked` and `settled` record what the owner decided and what left the service.

Left out: a second plan version (re-planning, the answer that invalidates a plan),
parallel batches (`task_parallel_enabled` is off by default), a planner that is not a
model, the budget of the understanding provider, the window of an approval (an expired
one may still be decided), `requires_user_confirmation`, attachments, partial answers
of a cancelled stream. Live leases do not lapse: the heartbeat renews every third of
the lease. What happens to a driver that is cut off longer is listed as a hazard.

### TaskWakeup

One task and its wake-ups. A row of the outbox is pending, publishing (claimed),
overdue (claimed, and `available_at` has passed) or sent; a message is new, pending
(delivered), idle (pending for `min_idle_time`) or acknowledged. A worker's loop is
`Dispatch`, `Publish`/`Mark` for each row, `Poll`, then `Handle`, `Drive`, `Release`
and `Ack` for each message, as in `worker.py`. `Drive` stands for all of AgentTask:
the task ends up waiting or done, or an exception leaves the message pending.
`Crash` is a child that the supervisor restarts with `--skip-recovery`, `Restart`
the whole pool, whose recovery queue inserts a wake-up (or fails to). Batch limits
are left out: the model's batches hold everything that is due.

### RagJob and RagVerdict

`RagVerdict` is what the knowledge service may rely on: a version is open until one
verdict (ready, metadata_only, failed) is reached, and what is shown goes from pending
over processing to that verdict. `RagJob` is the code: one row of `processing_jobs`, the
rows of the version's chunks and projections (which move together and appear as one), the
search index, the callback outbox and `knowledge_items.rag_status`. A thread of each lane
and a callback thread run in each worker process; a thread's record holds its claimed copy
of the row (`epoch`, `retry`, `parse`), whether its heartbeat lives and what its flush has
read. The refinement maps `verdict` to the job row and `shown` to `rag_status`.

| Action | Code |
| --- | --- |
| `Claim` | `claim_jobs`, `_process_claimed` up to the first callback |
| `Begin`, `Settle`, `RetryOrFail` | the fenced `_owned_update`s (with `_add_attempt`) of `_run_parse`, `_run_index`, `_run_memory`, `_retry_or_fail` |
| `Parse` | `MVPParseService.run`, `upsert_snapshot`, `upsert_chunks`, not fenced |
| `ListChunks`, `Embed`, `MarkIndexing`, `IndexChunks`, `MarkReady`, `Verify` | `MVPIndexService.process`, not fenced |
| `AddOutboxEvent`, `Flush`, `Send`, `Mark`, `FlushDone` | `_callback`, `CallbackLane.flush`, `_callback_loop`; `Send` includes `ApplyRAGResult` |
| `Trip` | the database fails inside the `try` of a lane: `_retry_or_fail` |
| `Abort` | it fails outside: the exception is logged and the lease stays behind |
| `Crash` | a worker process dies and is started again |
| `HeartbeatDies`, `LeaseLapses` | an exception ends `_heartbeat_loop`; `lease_until` passes |

`add_attempt` refuses a lane without lease with a RuntimeError, whose handler fails the same
way, so that a lane that lost its lease only leaves. Memory work has no effect on the rows
of the model. Left out: a second version of the item, the deletion path, job creation, the
dispatcher's queues (they only say which row to claim next, and lanes poll), the two queries
of `_mark_retryable_failure` (one step here).

### Conventions of the other modules

Each of the following modules is one component with its own tables. An action is one
transaction, one script of Redis or one call of another service; what a request, a worker
or a loop has read is in its own record until the action that writes. Comments of the
variables name the column or field. `faults` counts what the environment does: an answer
lost, a call refused, a process that dies. `history` variables record that a known window
was hit (a lock ran out, a start was moved behind a poll); properties name these windows
one by one, so that everything else they forbid is forbidden. Where a module holds a
definition marked `mutant` that no run uses, it is a second plausible bug kept beside the
code's form.

**KnowledgeCollect** (`worker.go`, `service.go`, `postgres.go`). `Step(p)` is the program of a
worker: take the lock, list the messages behind the cursor less the overlap, ingest each,
download and complete its attachment, advance the cursor. `GrowOld` is time: a poll leaves out what is older
than seven days and moves the cursor past it. The owner pauses, removes, adds
and moves the start (`UpdateConversationStart`) meanwhile. Left out: the back-off's length,
`Discover`.

**ConnectorToken** (`service.go`). Calls of `token` (`GetToken`, `Acquire`, `Refresh`, `PutToken`,
`MarkActive`, ...), of the OAuth callback (`Callback` ... `BindConnector`, `Record`), and of
`RevokeConnector`; `TickMarks` is the worker's verdict on the account it listed, `PollFails` a poll that the
platform refuses. Status writes name the account only, so that they land on whatever the row binds by then.
A token is its generation; the provider takes the newest only.

**KnowledgeItem** (`postgres.go`, `authorization.go`). `Step(w)` is one of the repeated passes of
`ProcessPermissions`; `Serve` the outbox; `Deliver` and `ReportProcessing` the RAG job and its
callbacks, `Join` and `NewPolicy` what moves meanwhile. RAG's lanes are in `RagJob`.

**KnowledgeDeletion** (`service.go`, `deletion_service.py`). `RevokeRelations`, `MarkRevoked`,
`HideDeletionTargets`, `CallPurges` are the stages of the API call; `Work` what the worker
repeats; `LoadContent`, `UpsertChunks`, `LoadChunks`, `IndexChunks` the lanes of a RAG job that the deletion
does not stop, `ListForSync`/`Sync` a late permission synchronisation. `DeleteChunks` leaves no tombstone.

**KnowledgeShare** (`postgres.go`). Share, delete, request and review, each one transaction, and
the worker that reads the subjects of a copy and marks it last.

**LocalUpload** (`service.go`, `postgres.go`). `Serve(c)` is one PUT call: read the task and the
body, look for a duplicate, put the object, finalize or take the object back. `Permit(t)` is the
worker's share, `ProcessPermissions`. All tasks name one content, so that they meet in one key.

**ContactProfile** (`service.go`, `contact_access.go`). `Prepare(m)` classifies a message and extracts
its facts, `Refresh(p)` is `refreshContactProfile` of a process, which reads messages, rights and facts one
after the other. Left out: equal texts, the limit of 80 messages, greetings.

**WechatDevice** (`collectors/wechat/service.py`, `postgres.go`). `Step` is the collector: beat, apply
desired state and commands, bootstrap; the owner saves configurations, stops the runtime
and pairs anew. **WechatCollect** is `collect_once`, message by message; `Fallback` is the
first page that is read when the read of what is newer than the cursor fails.

**RefreshSession** (`refresh_store.go` and its Lua scripts): `FindByTokenHash`, `CheckUser`,
`Rotate` are the three steps of a refresh of one tab. **Organization** (`organization_repository.go`
and its service): `Commit` is the transaction, `ReadRole` and `SyncOrganizationRole` what follows
it outside; `PublishOrganizationEvent` the relay. **AccessRequest** (`access_request.go`,
`authorization.go`): `GetAccessRequest`, `MarkAccessRequestApproved`, `WriteRelations`,
`MarkAccessRequestFGASynced` are a review; `ReadRelations`, `WriteChanges` a synchronisation.

**DesktopTask** (`desktop_tasks.py`, `desktop_form_browser_client.py`, `desktop-task-runner.js`).
`Create`, `Poll`, `Deadline` are the agent; `Claim`, `Execute`, `Report`, `ReportFailure` the
desktop. The lease and the heartbeat columns are read by nobody and left out.

**PlanLoop** (`planning/`, `kernel/bindings.py`, `graph.py`, `references.py`, `validator.py`,
`runtime.py`). `Routed` is the chain of planners in the order of its tests; `Draft`, `RepairPlan`,
`RepairUnresolvedReferences`, `Activate` the model's plan; `Refused`, `Execute`, `Batch` one turn of the
loop; `Decide`, `Verdict`, `Replan` what follows an observation. AgentTask has the crashes and
rows of a step; PlanLoop the plan and its versions. Words are fields of a turn; prompts and
text are left out.

**Understanding** (`understanding/`). One provider object, several threads. A confidence is a small number;
the order of `Classify`, `Model`, `Charge`, `Store` is that of `_prepare_understanding`.

**KnowledgeAnswer**, **WebResearch**, **PersonScope** (`capabilities/`). One call of a capability each,
with its pages, scopes and retries. What a model writes is arbitrary within its schema,
a search returns any part of what matches. A page of PersonScope is `Found` by the index and then
`Authorized`, and what is left of it decides on the next one (`Received`).

**FormFill** (`capabilities/form.py`, `form-browser/app/sessions.py`, `grid.py`). A row is one value.
`Check`/`Insert` are the two halves of `SessionManager.create`; `Preview`, `Reread`, `Write`, `Undo` the
agent; `Other` the other users of the sheet. `Read` names the first `Scan` rows below the header, and the
new row is the one behind the last of these that is used. HTML forms are left out. **FormEvidence** has the columns
instead: subject, scopes, who says what, one column after the other. Its `setup.reader` models the
model reader as the code intends it, beside the code as it is (see "What was found").

**AnswerStream** (`answer_stream.py`, `routers/tasks.py`, the page). `Work` is the worker, `Serve` the loop of
the connection, `Read` the page. **JsonPreview** is `FirstStringFieldExtractor`, fed in any cut.

**WeeklyReport** (`capabilities/report.py`, `application/report/`, `agent_attachments.py`). One call of
`execute`, cut where it calls out: `ResolvePerson`, `ResolveTemplate`, `ReadTemplate`, `Evidence`,
`Draft`, `Save`; `Materialize` and `ChooseReportTemplate` are the question which template is meant and the
turn that answers it; `Expire` is the store. A template is the sequence of the kinds of its paragraphs, a
day is a number. Left out: the words a search matches, the columns of a row, titles and file names, and
the cut of a list of sources at 30.

**RagStream** (`redis_streams.py`): `Run(i)` is a worker's sweep, read, handling and acknowledgement.
**RagParse** (`parse_service.py`, `processing/`): the steps of one parse job, with the two texts of a message, the
checks of an attachment, the parsers and their fallbacks.

**Retrieval** (`rag_service.py`, `entity_locator.py`, `qa_service.py`). One request, stage by stage; rights
change between any two. Scores are a choice of what a channel returns. **EntityTree**
(`index_service.py`, `window_scan_service.py`, `branch_refresh_service.py`, `mvp.py`): three writers that read the
registry first and write the mounts later, and the index beside the database.

**ConversationMemory** (`task_service.py`, `execution_service.py`, `conversation/`, `memory/`, `store.py`).
A task of one conversation is `ReadConversation`, `CreateTask`, `LoadRow`, `ListRecent` (its context), `Finish`
(all of AgentTask), and behind it `SyncMessage`, `Touch`/`SaveTouched`, `GenerateTitle` ... `SaveTitle`,
`ListMemories`/`DeleteMemory`/`CreateMemory`, `Enqueue`/`CreateJob`. A worker is `Claim`, `ReadBase`,
`ListWindow`, `SetSummary`, `CompleteJob`; the owner renames, forgets and deletes. A summary is the set
of messages it was written from. Left out: the text, the limit of messages in a context, pinned
memories, the expiry of a memory, the compression of a long summary.

### The compositions

`MCKnowledge`, `MCServices` and `MCDelivery` put components side by side: each is an
INSTANCE over its own variables, `focus` says which of them moves in a behaviour, and the
others have no state (`MCServices`: every variable 0) or stand in one initial state. The components of one composition meet in tables that
each of them abstracts for itself (a message's row is one thing to collection and another
to deletion), so their product would interleave steps that do not touch; the sum of their
states is what the code's concurrency is about, and it keeps a run within minutes. A property of
a composition is the conjunction of the named parts of its components.

## 3. What the runs check

| Run | Instance | Properties |
| --- | --- | --- |
| `agent_task` | 2 processes, 2 concurrent requests, a plan of one write, 2 attempts, 2 model calls, 2 approvals, 2 clicks, 1 crash; 3.2 million states | `TypeOK`, `OneDriver`, `OneRequestId`, `ExecutedAsApproved`, `AttemptsBounded`, `SuccessAccountsForWrites`, `NoRepeatAfterAnswer` |
| `agent_task_settles` | 2 processes, 1 request, a read then a write, 1 attempt, 3 model calls, 1 crash; 408 thousand states | `Settles` |
| `agent_task_cancel` (violation) | 1 process, 1 request, a plan of one read | `TerminalIsFinal` |
| `task_wakeup` | 2 workers, 2 wake-ups, 4 messages, 1 fault; 332 thousand states | `TypeOK`, `SentWasPublished`, `CarriedUnlessTurnedAway`, `Woken` |
| `task_wakeup_lost` (violation) | the same | `Carried` |
| `rag_job` | 2 processes, 2 tries of the job, 2 of a projection, 1 fault, and room for every new row in a flush (`RoomForAll`), at most two flushes at a time (`TwoFlushes`); 329 thousand states | `TypeOK`, `ReadyIsIndexed`, `OnlyTheVerdict`, `AnnouncedUnlessCut`, `KeepsPromise` |
| `rag_job_told` | 1 process, 2 tries, 2 faults; 531 thousand states | `Told` |
| `rag_job_stranded` (violation) | 1 process, 1 fault | `Recoverable` |
| `rag_job_crash` (violation) | 1 process, 1 fault | `FailsForAReason` |
| `knowledge` | 2 workers, 2 collectors, 2 messages, one of them with a file, 2 deletion requests, 2 upload tasks with 2 calls, 2 owners, 1 fault (deletion: 2); 472 thousand states | `TypeOK`, `Stored`, `Withheld`, `CompletedIsGone`, `GetsThere` |
| `services` | 2 calls, tabs, slots, reviewers or form tasks at a time; small sets of turns, drafts, replies, chunks and messages; 3 tasks of a conversation, 2 summary workers; 1 fault (person: 2); 1.5 million states | `TypeOK`, `RowFitsVault`, `AnswersFitRow`, `Sharing`, `Vouched`, `Sessions`, `Organized`, `Requested`, `Filled`, `Planned`, `Shown`, `Remembered` |
| `delivery` | 2 devices, 2 desktop operations (one a write), 2 answers, 2 stream entries and 2 workers, 39 requests for a report, 1 fault (desktop: 2); 291 thousand states | `TypeOK`, `OnDesktop`, `Ingested`, `Presented`, `Lively` |

What the properties of the compositions say, by component:

| Property | Components and what they promise |
| --- | --- |
| `Stored` | KnowledgeCollect: what a cursor vouches for is stored with its file, unless it was too old when a poll came; nobody waits for a collector that is there. LocalUpload: stored is there, a duplicate has an original, announced is stored |
| `Withheld`, `CompletedIsGone` | KnowledgeItem: what is searchable was indexed with the present text. ContactProfile: no message with facts is summed up. KnowledgeDeletion: complete means complete everywhere, but for what a job under way writes again |
| `GetsThere` | an active collector catches up, an item is indexed in its last version, an announced deletion completes, a stored file is announced, a profile becomes current |
| `RowFitsVault`, `AnswersFitRow` | ConnectorToken: what a row binds is in the vault, an expired row binds a spent token, an unbound one is revoked; a repeated callback is not answered with a failure, and nobody is sent to authorize a good token; both but for calls that a binding, a revocation or another holder of the lock has overtaken |
| `Sharing`, `Vouched` | KnowledgeShare: one sharer, approved is granted. WechatCollect: the cursor vouches for what was stored, but for rows older than the page that was read |
| `Sessions`, `Organized`, `Requested` | RefreshSession: one good token, tabs do not log out. Organization: an owner, the tuple is the role, who is gone stops collecting. AccessRequest: granted is approved, granted stays |
| `Filled` | FormFill: a fresh row on a sheet that a read covers, undone is restored, no session or login is lost. FormEvidence: own words, the newest counts, once each, nothing lost |
| `Planned` | PlanLoop: sources feed the answer, calls are fed by results, nothing is reissued, unknown is final, rules write runnable plans. Understanding: not dropped, sources kept, no weak guess, charged as asked |
| `Shown` | Retrieval: nothing unchecked, nothing lost, filed. PersonScope: complete or reported where the authorization took nothing from a page, facts of what is visible. EntityTree: nothing skipped, a review reaches all. AnswerStream: one text |
| `Remembered` | ConversationMemory: what lies behind the boundary of a summary went into it, a context lacks no message, what was remembered under a key stays |
| `OnDesktop`, `Ingested` | DesktopTask: at most once, nothing hidden. RagStream: nothing lost, only the hopeless given up. RagParse: masked, both variants, covered |
| `Presented` | KnowledgeAnswer: cited, narrowed, charged. WebResearch: own pages, only found. AnswerStream: tail first, one text. JsonPreview: cuts do not show. WeeklyReport: the template that was picked, the week that was named, an empty section says so once, each source once |
| `Lively` | desktop rows end, an answer reaches its page, every stream entry is done with, a paired device obeys |

Why the bounds suffice. Two processes are enough for one to be taken over by another,
two attempts for a retry after a crash to meet the limit, two approvals for a second
card after a crash or a refusal, two clicks for an approval to race a cancellation or
another approval. One write is enough for the call and approval protocol, since the
rows of different steps do not interact, and `SuccessIsAccounted` is a theorem for every plan; the second
run has a read and a write, so that a task settles behind a step that is not its last. In TaskWakeup one fault is one
crash, failed publication, exception, slow dispatcher or restart; two wake-ups of one
task give two messages and up to two duplicates. In RagJob one fault is
enough to leave a lane working without its lease beside its successor (its heartbeat dies
or its process pauses), and failures of services cost no fault; two tries are a retry and
a last one. With one process the flushes of its four threads already interleave, and that
run leaves out `RoomForAll` and `TwoFlushes`, which keep the run with two processes short:
there two flushes, of one process or of both, are enough to publish a row twice or to mark
it in either order. The other bounds are constants, and the theorems hold for all their
values and without these two.

In the compositions two workers, tabs or reviewers are what a stale read, a lock or a lease
needs; a third adds no new kind of conflict, since each pair of steps already meets. The
data is a handful of members chosen per distinction the code makes: the turns of PlanLoop have
each intent and cue that routes differently, its drafts each way a plan can be wrong; the
documents of RagParse each outcome of check, parser and cloud; the pages of WebResearch each
result of a fetch; the symbols of JsonPreview each class of character, cut at every place; the two templates of
WeeklyReport have the kinds of paragraphs and, one of them, two tables in one section; its days are a Sunday and the
Monday after it. One
fault is one crash or one lost or refused call at any point; two where a retry follows a retry
(deletion, person, desktop). The conversations are scenarios (`MemoryTalks`): three tasks of which two, one or
none ended before, so that a job waits while another is made; what they ask to remember; a title the
owner gave; and how much of the bounds is used up. Histories are bounded by `MaxOps`, `MaxChanges`, `MaxEdits`,
`MaxTurnsOfLoop` and the like, each named at its module's CONSTANTS. The theorems about `MCKnowledge` and `MCServices` hold for all of
them: sets and bounds are constants of these modules too, and the numbers above are in the cfg files.

Deadlock is not checked in AgentTask, where a finished task stops the system and the
bounds on clicks and crashes end its history. A finished
job stops RagJob the same way. In TaskWakeup it is checked: the workers' loop never ends.

Fairness. `FairSpec` of AgentTask assumes that a driver whose next step is enabled takes
it: a live thread runs on, and a runnable task is driven again, which is TaskWakeup's
subject: `Woken` shows it unless the lease turned a worker away. Leases expire because
time passes. Nothing is assumed of the owner, who may never answer, and nothing of
crashes. OutOfTime, `PreflightBlocks` and `StepRefused` happen or do not. In TaskWakeup the
loop of `worker.py` and the three clocks run; faults and owners owe nothing. In RagJob
every thread of a live process runs on, since the lanes poll forever, and leases lapse
because time passes; faults are bounded and owe nothing, and a service that fails is a
choice of the lane's step, bounded by the two retry limits.

In `knowledge` the workers' loops run, the outbox and the stream deliver, and locks and the
interval of a profile run out because time passes; nobody has to upload. In `delivery` it is the programs that loop: the collector (`Step`), the agent's
poll, the desktop's long poll and its runner, the worker of an answer, the loop of the connection and
the page, and each worker of the group; time passes for rows and pending entries. Faults,
owners, platforms and reviewers owe nothing in either. `services` has safety only and states no fairness.
Deadlock is not checked in the compositions: their components come to rest when their work is
done and the bounds are used up.


### What was found

* **A cancellation can be lost** (`agent_task_cancel`). `states.py` gives terminal statuses no
  successor, and a comment in `_execute_step` relies on it, but the check is made on a
  copy: a cancel that commits between a driver's `get_task` and `commit` is
  overwritten by `executing` or `ready`, and the task runs on.
* **Two threads of one process drive one task** (`MCAgentTask.cfg` under `FairSpec` with
  `Drivers <- MCThreads`, `Owners <- MCProcess`, `Owner <- MCThreadOwner` and one request ends in a violation of
  `NoRepeatAfterAnswer` as soon as its `~ shared` is taken out; the second call carries the id of the first, `OneRequestId`). The comment above the lease
  owner wants it to identify the driver, but host name and process id identify the process:
  two `POST /tasks/{id}/run` are two threads of it, `acquire_lease` admits both, and the
  second issues a call again that the first has finished, which `executor.py` says never
  happens. `acquire_lease` records it in the history variable `shared`, and `OneDriver`, `AttemptsBounded` and
  `NoRepeatAfterAnswer` end there; the others do not.
* **A wake-up can be lost** (`task_wakeup_lost`). A message of a dead worker is reclaimed after
  60 s, its lease stands for 120 s; the new worker gets `waiting_for="lease"`, treats it
  as handled and acknowledges. The task stays runnable with nothing to wake it until
  the pool is restarted.
* **A memory lane that dies strands its job** (`rag_job_stranded`). `claim_jobs` sets the status to
  processing, and a row in stage memory is claimed only while its status is ready: after
  the lease lapses nobody may claim it. The item is already shown as ready; its memory work
  is lost and the row stays unfinished for good.
* **A process that dies while it indexes fails the job** (`rag_job_crash`). The projection stays
  `indexing`, from which `indexing` is refused: every retry raises until the tries are used
  up, and the knowledge service is told "failed" although nothing else went wrong.

Disagreements between code and documents or comments met while modelling; the model has what
the code does, and `PROJECT.json` quotes both sides:

* the reader of form values by a model is passed as an object that cannot be called; the
  error is swallowed (`container.py:520`);
* a question about metadata is planned with a reference that nothing binds, so that its step is
  refused (`planning/knowledge.py:677`; `PlanLoop` mode "sources");
* an export of messages is called complete "unless `truncated` is set" (`person_scope.py:317`), though its offset
  counts other rows than it returns and a page of which the authorization has taken a chunk is the last
  (`routers/api.py:506-510`); and a snapshot of facts is saved although batches failed
  (`person.py:307`);
* the result of a task is held back while Redis lacks the last pieces (`routers/tasks.py:485`);
* a refresh of an entity replaces what windows have added (`branch_refresh_service.py:62`), and
  a review during a refresh gets none of its own (`mvp.py:2358`);
* a failed finalize deletes an object that other uploads share (`service.go:2984`), and a message whose
  sender is corrected leaves its contact facts with the former one (`postgres.go:1880`);
* `grant_expires_at` is read by nothing (`access_request.go:143`), and a granted attachment is
  closed by the next synchronisation (`authorization.go:130`);
* a summary job whose worker died stays `running` and is claimed by nobody, its lease lapsed or not; a request
  that writes a conversation it has read takes a newer summary back (`reverted`); a response that
  completes behind a boundary that has passed it is in no summary and in no context (`late`);
  a memory is replaced by two transactions, and a driver that dies between them loses it;
* a template that was found and whose copy failed or ran out cannot be picked: the page names an
  id the agent's store does not know, and the turn ends in "no template", although a comment says that it stays
  selectable (`capabilities/report.py:497`); the message that picks a template names no week, so that the report
  covers the last one; attached templates of one name and size count as one, having no hash
  (`template_source.py:78`); two tables in one section share their keys (`template.py:101`);
* "reauthorization_required" is reserved for a confirmed rejection (`service.go:866`), though a verdict on the former
  credential is written over an account that was bound again meanwhile (`worker.go:110`), and `token` then asks
  for an authorization that is there (`service.go:853`);
* a Feishu poll never reaches back more than seven days but returns its own end as the cursor
  (`platform.go:538-563`, `631`): after a longer pause messages are neither stored nor reported;
* the fallback of a failed WeChat read "preserves the cursor contract" and leaves the rest to the next poll
  (`collectors/wechat/service.py:928-932`), but it reads the newest 1000 messages only, and the cursor passes
  the ones before them;
* the deletion of a resource is a DELETE without a tombstone (`mvp.py:1494`): a parse lane that has its content stores
  the chunks behind it (`runtime.py:220`) although the request is completed;
* a read of the whole sheet names 200 rows and calls nothing truncated (`grid.py:165`, `main.py:195`), so that a draft for a longer
  sheet names a used row (`form.py:1514`);
* undo of an empty row reports what it did not verify (`form-browser/app/main.py:251`), and a
  write prefers the session of the draft to a fresh one (`form.py:1683`).

Windows that properties name as exceptions, each a behaviour of the code: a poll that began
before its start was moved; a key-value lock that runs out under a slow poll or refresh; an
access list that changes behind a published event; a lane or a synchronisation under way
when a deletion begins; a message that grew older than seven days before a poll, or that lay before the page
a failed read falls back to; a row that was bound or revoked under a call with the credential before; a page that
the authorization has shortened; a sheet longer than a read; a mapping that changes the key of a chat; a tuple whose
synchronisation failed or was overtaken; a session whose rotated token was lost on its way; an
upload whose object a failed call took back; a message whose sender was corrected.

## 4. What is proved

Checked by `tlapm` for all values of the constants that satisfy the named assumptions:
positive plan length and attempts, natural bounds, `Free` and `Gone` are not owners; in
`KnowledgeAssumption` and `ServicesAssumption` that bounds are natural, the founder of an organisation is a
user, messages exist, an attachment belongs to a message, and nobody is called "none"; in
`DeliveryAssumption` that limits, tries and batches are at least one, events are of the four kinds the
handler tells apart, and a document has the fields that the parse lane asks for. TLC evaluates them in
the runs.

### Tasks, wake-ups and jobs

* `TypeCorrect`: `Spec => []TypeOK` for AgentTask. The invariant adds to `TypeOK` what
  the program counter fixes: a thread that works on a step has one (`cur` is not 0), a
  request that decides an approval has one.
* `SingleDriver`: `Spec => []OneDriver`, for any assignment of owners to threads. The inductive
  invariant `LeaseHeld` says that while no thread has got the lease beside another of its process
  (`~ shared`, which stays false once it is, `SharingStays`), a thread past `acquire_lease` holds it; it is
  needed because `OneDriver` alone does not say why a second acquisition fails.
* `OnlyApprovedWrites`: `Spec => []ExecutedAsApproved`, without any assumption on leases. The
  invariant follows the arguments: approved rows are granted pairs, and a driver
  between the check and the call holds a copy whose arguments were granted.
* `OneIdPerStep` and `NoCallAfterAnswer`: `Spec => []OneRequestId` and `Spec => NoRepeatAfterAnswer`,
  the first for threads under one owner too. The invariant `CallInv` says that a call row has an id exactly when it
  exists, that what was sent carries the id of its row, and that a thread between writing the row
  and writing its outcome holds that id; a second thread that found no row runs into its UNIQUE key. `AnswerInv` adds
  that such a thread stands over a row without an answer, which is stable only because
  nobody else drives meanwhile (`LeaseHeld`): the row is read and written in two steps.
* `CallsBounded`: `Spec => []AttemptsBounded`. The step row counts every call, but
  a thread holds two copies of it that it writes back: the step it executes and the plan it
  saves. `AttemptInv` says which of them may be written at which label, and that such a
  copy counts every call made so far; a thread between `StartStep` and the call has one
  attempt in hand. Without it, `save_plan` could write an older counter back.
* `SuccessIsAccounted`: `Spec => []SuccessAccountsForWrites`, without any assumption on leases.
  `OutcomeInv` follows the statuses through the rows, the plan copies that `save_plan`
  writes back, the task rows threads have read and the status they are about to commit; since
  nothing recorded is forgotten, a stale copy is still true.
* `WakeupTypes`, `NothingSentUnpublished`, `WakeupsCarried` for TaskWakeup. `Carried` speaks of a row or
  message that exists, which is too weak to survive a step: a sent row's message may be
  about to be acknowledged. The invariant has four parts: types (`TypeInv`); a row marked
  sent, or about to be, was published, and no unused row was (`OutboxInv`); what a worker has in
  its hands was in the stream (`StreamInv`); and while no worker was turned away, a
  runnable task has a row whose message has not reached the stream or a message that no
  worker is about to acknowledge (`CarrierInv`).
* `RagTypes`, `OneVerdictReported`, `VerdictAnnounced`, `ReadyMeansIndexed` and `ImplementsVerdict` for RagJob, from
  natural bounds alone. The invariant has four parts. `TypeInv` adds to `TypeOK` which lane
  may be at which step. `LeaseInv`: no two threads hold one epoch, and a thread that still
  owns the row finds it processing in the stage of its lane; hence a lane that passes the
  fence of a closing update finds the verdict open, and the verdict is decided once.
  `DeliveryInv`: what threads are about to insert, the outbox, what flushes hold and what the
  knowledge service shows is the verdict or "processing"; `OnlyTheVerdict` alone says nothing
  of the rows a slow flush still holds. `IndexInv`: a ready projection, and a lane
  that says "ready", stand over an index that has the chunks; this follows from the
  transitions of the projection, since the lanes hold no lease there.

With these, every safety property of the runs `agent_task`, `task_wakeup` and `rag_job` is also a theorem.

### The knowledge service

The theorems are about the specification of `MCKnowledge`: what moves is one component, so the
conjunction `KnowledgeInv` of the five invariants is inductive. Each of them stands in the
component's module under "why it holds".

* `KnowledgeTypes`: `Spec => []TypeOK`.
* `WhatIsClaimedIsStored`: `Spec => []Stored`. `CollectInv` speaks of every poll under way: what it
  had read of its cursor, or has passed on its page, is kept, unless the start was moved meanwhile
  (`Passed`), and what it is about to mark ready is in the store (`InHand`). `CursorCovers` alone
  does not say why the next advance is justified. What a poll passes over because it is older than seven days is
  recorded at the poll (`dropped`), not at the advance. `UploadInv` speaks of the calls: one that is about to write a
  row has put the object or has found an original, and a row that names the object was
  written by a call that does not fail it any more.
* `WhatIsSensitiveIsWithheld`: `Spec => []Withheld`. `ItemInv` ties versions to masks: an event is of a version
  that the item has had, and a job of the present version has the present text.
  `ProfileInv` follows the facts: they are stored for the sender of the row, and what a refresh has listed has
  its facts stored.
* `CompletedLeavesNothing`: `Spec => []CompletedIsGone`. `DeletionInv` says, stage by stage, that what a request
  claims is so, and that what is gone comes back only by what was under way (`Handled`): a RAG job that has
  its content or its chunks in hand, a synchronisation that has listed the item.

### The other services

In the same way each theorem about `MCServices` needs its own component's invariant, and that no
other component moves it.

* `RowsFitTheVault`, `AnswersFitTheRow`: `RowFitsVault` and `AnswersFitRow`. `TokenInv` says that a grant
  is bound once and by one call (`BoundOnce`), that what is deleted is not what the row names
  (`HasCredential`), that while no lock ran out and no call has worked past a binding or a revocation one call
  rotates the token it has read, all calls at work have the credential of the row, and a token that was refused
  stays refused (`RotatesAlone`, `Spent`), and that one completes an authorization (`CompletesAlone`).
* `TabsRefreshAtOnce`: `Sessions`. `InTouch`: while nothing was lost or slow, each tab and the cookie have the
  current token or the one before it in its grace, and as long as the cookie has the older one a tab is
  bringing the current one. That a session is not revoked says nothing of the next refresh; this does.
* `OneSideSharesWhatIsOpened`: `Sharing`. One copy exists of a reference, in the knowledge base its owner's
  key names; what a worker has read of its subjects is all of them when it marks the copy.
* `RequestsOpenWhatIsApproved`: `Requested`. A reviewer writes only for a row that he has approved; what a
  synchronisation is about to delete was read before and has no original in it.
* `OrganizationsStayOwned`: `Organized`. What a request has read of its target is true until it writes the tuple,
  or a later change has left its mark.
* `CursorsVouchForMessages`: `Vouched`. A collection works its page off in order, so what lies between the start and
  a message still to do was done (`InOrder`), or was no part of the page that was read (`passed`). That a set of numbers has a least element (`Least`) is proved
  by well-founded induction.
* `ConversationsAreRemembered`: `Remembered`. Within one life of a conversation a version has one boundary and
  one summary, so that a copy of the row, a job or a worker that names the present version knows both;
  after a deletion nothing refers to a message of the life before (`NotYet`), because a task inserts
  its messages once, and a boundary that is gone is refused (`Refers`).

### What has to arrive

The theorems about `MCDelivery` hold for any operations, writes, workers, events and documents.

* `DesktopOnceAndInTheOpen`: `OnDesktop`. That an operation ran once says nothing of the next claim: the agent,
  the row and the desktop each hold their own view of it. `DesktopInv` says what each view
  allows: what nobody asked for or nobody claimed has no effect (`Untouched`), what the runner holds was claimed and not
  ended by it (`Held`, `Executing`), and a row that ended while the runner was at it is known to be
  ambiguous (`Outlived`).
* `NothingLostOrShown`: `Ingested`, in two halves. `GroupInv` is about the entries of the stream: a worker
  that is about to acknowledge an entry has seen it handled or given up, even though another may by then have
  claimed, handled and acknowledged the same entry, and what it has handled so far of an entry is done
  (`Knows`). The choice of the oldest entries is stated by rank instead of by a loop over a sorted
  sequence. `ParseInv` says at each step of the lane what was read of the document and of which variant
  (`Stands`, `HasRead`), and that what was made is what was read (`Makes`). That the windows of a text lie in
  it and cover it (`build_variant_chunks`) is proved by the greatest place from which they would not:
  the next window begins behind it, and no later than behind its end.

What failed attempts have shown. The first form of two models could not be proved, and TLC then found
the counterexample with one message, request or task more than the run had. In `KnowledgeShare` a copy
that is shared after a request was approved is not open to the requester until the permissions are
synchronised again: `ApprovedIsGranted` has the exception `late` for it. In `ConversationMemory` a row written back
after its conversation was deleted and created anew named a boundary that no longer existed; in the
database the foreign key of `summary_until_message_id` refuses that row, and the model now does (`Refers`).
`DesktopInv` was not inductive until it said that an operation nobody asked for is held by nobody, and
`ParseInv` not until it said that the original of a message is unread before its display text was checked.

### Only model-checked

All liveness (`Settles`, `Woken`, `Told`, `GetsThere`, `Lively`): properties under fairness need
ENABLED, which the prover does not handle. Of `MCServices` the type invariant of all its components together and
`Filled`, `Planned` and `Shown`, of `MCDelivery` the type invariant and `Presented`: their components are mostly chains of
functions over small data rather than protocols, and what they compute is covered by TLC's enumeration.
`JsonPreview` among them is out of the prover's reach: that cuts do not show is an induction over the text.

## 5. Not modelled

* **Agent knowledge ingress**: the delivery of `TaskWakeup` once more, de-duplicated by a key. Of the
  conversations the prompts, the compression of a summary, pinned and expiring memories.
* **To-dos, the preprocessing of attachments**, the download of a report, the wording of prompts and the
  rewriting of queries; an approval's window; the answer that invalidates a plan while
  drivers run (PlanLoop has plan versions, AgentTask the drivers, and they are not composed).
* **HTML forms** and the automation of pages; merged header layouts.
* **Two versions of one RAG item** beside each other, job creation; the merge of two formal
  entities and the quality reports; layout blocks inside a page; the embedding of text.
* **Contact lists and views, person resolution, `Discover`** of the knowledge service;
  the decryption of WeChat databases and the address book.
* **Intent classifier** (stateless inference), **web application, gateway, migrations, scripts**
  (user interface, routing and schema), windows and updates of the desktop application.
* Hazards that no property covers carry the reason in `PROJECT.json`: two threads of one process under one
  lease owner (`shared`), a step that waits while its task does not, the version of an input, and an
  index lane of an old version that resumes late.

## 6. Plan

1. `RagVersions`: two versions of one item (`delete_older_versions`, late lanes of the old one), the
   creation of jobs and its partial unique index.
2. `AgentTask` with lapsing live leases (`renew_lease` that returns False is ignored); the approval that is
   saved while its task is not; its composition with PlanLoop's plan versions and inputs.
3. Knowledge ingress as an instance of the scheme of `TaskWakeup`; contact views and person resolution.
4. Abstract specifications: an at-most-one-holder lease that AgentTask and RagJob implement; a
   cursor that vouches, for KnowledgeCollect and WechatCollect; a single-use token, for
   ConnectorToken and RefreshSession.

5. Theorems: the types of the components of `MCServices` and `MCDelivery` whose safety is only model-checked;
   `Understanding` ("each task pays for its own calls") and `EntityTree` ("the watermark skips none").
