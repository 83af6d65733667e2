------------------------- MODULE ConversationMemory -------------------------
(****************************************************************************)
(* What the agent keeps of one conversation: its messages, a rolling summary *)
(* of those behind a boundary, a title, and what the owner asked it to       *)
(* remember.  Each task of the conversation has a request and a response;    *)
(* when it ends, its driver writes the answer into the message, may give the *)
(* conversation a title, extracts a memory and enqueues a job, and whichever *)
(* worker claims the job rewrites the summary if nobody did so meanwhile.    *)
(*                                                                          *)
(* The messages are numbered in the order of (created_at, message_id): task  *)
(* t has the request 2t - 1 and the response 2t.  A summary is the set of     *)
(* messages it was written from.                                             *)
(****************************************************************************)
EXTENDS Naturals, FiniteSets

CONSTANTS
    N,              \* tasks of the conversation
    Summarizers,    \* workers that run summary jobs
    Names,          \* what an owner may ask to be remembered under one memory_key
    None,           \* nothing of the kind
    MinMessages,    \* settings.conversation_summary_min_messages
    MaxAttempts,    \* settings.conversation_summary_max_attempts
    MaxRuns,        \* bound: further runs of tasks that have ended
    MaxFaults,      \* bound: failing calls, dead processes
    Conversations   \* how it is used: which tasks come, what they say, where the bounds start

Tasks == 1..N
Request(t) == 2 * t - 1
Response(t) == 2 * t
Messages == 1..(2 * N)

VARIABLES
    conv,       \* the row of agent.conversations
    msg,        \* message -> its status, "none" before it is inserted
    task,       \* task -> where its request or driver is, and the copies it holds
    job,        \* agent.conversation_summary_jobs by (expected_summary_version, boundary_to)
    sum,        \* worker -> the job it runs and what it has read for it
    memory,     \* the active row of agent.memory_records under the key
    made,       \* memory rows so far
    owner,      \* the request of the owner to rename the conversation
    says,       \* task -> what its request asks to remember
    summing,    \* settings.conversation_summary_enabled
    runs, faults,
    late,       \* history: messages completed behind a boundary that had passed them
    missed,     \* history: messages that the context of a task had neither way
    reverted,   \* history: a whole row was written back over a newer summary
    told,       \* history: tasks whose memory was written
    spilled     \* history: a memory was deleted for good

rows == <<conv, msg, job, memory, made>>
history == <<late, missed, reverted, told, spilled>>
bounds == <<runs, faults>>
config == <<says, summing>>
vars == <<rows, task, sum, owner, config, bounds, history>>

\* until = 0 is summary_until_message_id NULL.  good: whether the run of a task will end with an
\* answer, which is the matter of AgentTask.
Fresh == [there |-> TRUE, until |-> 0, version |-> 0, covers |-> {}, title |-> "first"]
Idle == [pc |-> "new", row |-> Fresh, owed |-> {}, found |-> 0, good |-> FALSE]
Resting == [pc |-> "idle", key |-> <<0, 0>>, base |-> {}, got |-> {}]
Nothing == [id |-> 0, name |-> None]

\* c: how the conversation is used.  The first tasks are there, past and with a job that waits, or
\* at work; then the tasks that come, those whose run ends with an answer, what they say, the
\* title the owner gave it, and what is used up of the bounds.
Enqueued(from) == [status |-> "pending", from |-> from, attempts |-> 0]
Started(c) == [m \in Messages |->
                  IF \E t \in 1..c.there : m = Request(t) \/ (m = Response(t) /\ t \notin c.come) THEN "completed"
                  ELSE IF \E t \in 1..c.there : m = Response(t) THEN "pending" ELSE "none"]
Waiting(c) == {t \in (1..c.there) \ c.come : c.summing /\ t + Cardinality((1..t) \ c.come) >= MinMessages}
Begun(t, c) == IF t \notin c.come THEN "done" ELSE IF t <= c.there THEN "work" ELSE "new"

Init ==
    \E c \in Conversations :
        /\ conv = [Fresh EXCEPT !.title = c.title] /\ msg = Started(c)
        /\ job = [k \in {<<0, Response(t)>> : t \in Waiting(c)} |-> Enqueued(0)]
        /\ memory = Nothing /\ made = 0
        /\ task = [t \in Tasks |-> [Idle EXCEPT !.pc = Begun(t, c), !.good = t \in c.good \/ t \notin c.come]]
        /\ sum = [s \in Summarizers |-> Resting]
        /\ owner = [pc |-> "idle", row |-> Fresh]
        /\ says = c.says /\ summing = c.summing
        /\ runs = c.runs /\ faults = c.faults
        /\ late = {} /\ missed = {} /\ reverted = FALSE /\ told = {} /\ spilled = FALSE

Fault == faults < MaxFaults /\ faults' = faults + 1 /\ UNCHANGED runs
At(t, pc) == task[t].pc = pc
To(t, pc) == task' = [task EXCEPT ![t] = [Idle EXCEPT !.pc = pc, !.good = task[t].good]]
Holding(t, pc, row) == task' = [task EXCEPT ![t].pc = pc, ![t].row = row]

\* list_completed_messages_after_boundary: nothing behind a boundary that is gone; to may be 0.
Gone(m) == m # 0 /\ msg[m] = "none"
Completed == {m \in Messages : msg[m] = "completed"}
Listed_Bounded(from, to) ==                  \* mutant: no end is an end
    IF Gone(from) \/ Gone(to) THEN {} ELSE {m \in Completed : from < m /\ m <= to}
Listed(from, to) ==
    IF Gone(from) \/ Gone(to) THEN {} ELSE {m \in Completed : from < m /\ (to # 0 => m <= to)}

\* The messages whose turn is over: a summary has, or a worker has listed, what comes later.
PassedOver == {m \in Messages : \/ m <= conv.until
                                \/ \E s \in Summarizers : sum[s].pc = "save" /\ m <= sum[s].key[2]}

\* summary_until_message_id is a foreign key: a row whose boundary is gone is refused.
Refers(row) == ~ Gone(row.until)

\* save_conversation: the whole row, as it was read.
Save(row) ==
    /\ conv' = IF conv.there /\ Refers(row) THEN row ELSE conv
    /\ reverted' = (reverted \/ (conv.there /\ Refers(row) /\ row.version # conv.version))

-----------------------------------------------------------------------------
(* A task: TaskService.create_task, then the context of its run.             *)

ReadConversation(t) ==
    /\ At(t, "new") /\ conv.there
    /\ Holding(t, "insert", conv)
    /\ UNCHANGED <<rows, sum, owner, config, bounds, history>>

\* One transaction: _insert_conversation writes the whole row too, and inserts anew a
\* conversation that was deleted meanwhile.
CreateTask(t) ==
    /\ At(t, "insert")
    /\ IF ~ Refers(task[t].row)
       THEN To(t, "done") /\ UNCHANGED <<conv, msg, late, reverted>>
       ELSE /\ conv' = task[t].row
            /\ reverted' = (reverted \/ (conv.there /\ task[t].row.version # conv.version))
            /\ msg' = [msg EXCEPT ![Request(t)] = "completed", ![Response(t)] = "pending"]
            /\ late' = late \cup ({Request(t)} \cap PassedOver)
            /\ To(t, "load")
    /\ UNCHANGED <<job, memory, made, sum, owner, config, bounds, missed, told, spilled>>

\* ConversationContextService.load: the row, then the messages behind its boundary.
LoadRow(t) ==
    /\ At(t, "load")
    /\ IF conv.there
       THEN task' = [task EXCEPT ![t].pc = "list", ![t].row = conv,
                                 ![t].owed = Completed \ {Request(t), Response(t)}]
       ELSE To(t, "work")
    /\ UNCHANGED <<rows, sum, owner, config, bounds, history>>

InContext(row) == row.covers \cup Listed(row.until, 0)
ListRecent(t) ==
    /\ At(t, "list")
    /\ missed' = IF conv.there THEN missed \cup ((task[t].owed \cap Completed) \ InContext(task[t].row)) ELSE missed
    /\ To(t, "work")
    /\ UNCHANGED <<rows, sum, owner, config, bounds, late, reverted, told, spilled>>

-----------------------------------------------------------------------------
(* ExecutionService.run_task behind the run: message, title, memory, job.    *)

Finish(t) ==
    /\ At(t, "work")
    /\ To(t, "sync")
    /\ UNCHANGED <<rows, sum, owner, config, bounds, history>>

\* sync_task_messages: a message that says so already, or that is gone, is left alone.
SyncMessage(t) ==
    LET status == IF task[t].good THEN "completed" ELSE "failed" IN
    /\ At(t, "sync")
    /\ IF msg[Response(t)] \in {"none", status}
       THEN To(t, "title") /\ UNCHANGED <<msg, late>>
       ELSE /\ msg' = [msg EXCEPT ![Response(t)] = status]
            /\ late' = IF task[t].good THEN late \cup ({Response(t)} \cap PassedOver) ELSE late
            /\ To(t, "touch")
    /\ UNCHANGED <<conv, job, memory, made, sum, owner, config, bounds, missed, reverted, told, spilled>>

\* last_message_at: read the conversation, write it back.  When that is refused, the wake-up is
\* delivered again.
Touch(t) ==
    /\ At(t, "touch")
    /\ IF conv.there THEN Holding(t, "save", conv) ELSE To(t, "title")
    /\ UNCHANGED <<rows, sum, owner, config, bounds, history>>

SaveTouched(t) ==
    /\ At(t, "save")
    /\ Save(task[t].row)
    /\ To(t, IF conv.there /\ ~ Refers(task[t].row) THEN "sync" ELSE "title")
    /\ UNCHANGED <<msg, job, memory, made, sum, owner, config, bounds, late, missed, told, spilled>>

\* maybe_generate_after_task.  The model may fail, which is logged and no more.
TitleIsDefault(row) == row.there /\ row.title = "first"
GenerateTitle(t) ==
    /\ At(t, "title")
    /\ \/ TitleIsDefault(conv) /\ To(t, "reread")
       \/ To(t, "memory")
    /\ UNCHANGED <<rows, sum, owner, config, bounds, history>>

RereadTitle(t) ==
    /\ At(t, "reread")
    /\ IF TitleIsDefault(conv) THEN Holding(t, "retitle", conv) ELSE To(t, "memory")
    /\ UNCHANGED <<rows, sum, owner, config, bounds, history>>

SaveTitle(t) ==
    /\ At(t, "retitle")
    /\ Save([task[t].row EXCEPT !.title = "made"]) /\ To(t, "memory")
    /\ UNCHANGED <<msg, job, memory, made, sum, owner, config, bounds, late, missed, told, spilled>>

\* extract_after_task and upsert_conversation_memory: list, delete what is there, create.
ListMemories(t) ==
    /\ At(t, "memory")
    /\ IF says[t] = None \/ msg[Request(t)] = "none" THEN To(t, "enqueue") /\ UNCHANGED told
       ELSE IF memory.name = says[t] THEN To(t, "enqueue") /\ told' = told \cup {t}
       ELSE /\ task' = [task EXCEPT ![t].pc = IF memory.id = 0 THEN "remember" ELSE "forget",
                                    ![t].found = memory.id]
            /\ UNCHANGED told
    /\ UNCHANGED <<rows, sum, owner, config, bounds, late, missed, reverted, spilled>>

DeleteMemory(t) ==
    /\ At(t, "forget")
    /\ memory' = IF memory.id = task[t].found THEN Nothing ELSE memory
    /\ To(t, "remember")
    /\ UNCHANGED <<conv, msg, job, made, sum, owner, config, bounds, history>>

\* create and create_memory: ON CONFLICT DO NOTHING, whoever was first stays.
Stored(t) == IF memory.id # 0 THEN memory ELSE [id |-> made + 1, name |-> says[t]]
CreateMemory(t) ==
    /\ At(t, "remember")
    /\ IF conv.there
       THEN memory' = Stored(t) /\ made' = made + 1 /\ told' = told \cup {t}
       ELSE UNCHANGED <<memory, made, told>>
    /\ To(t, "enqueue")
    /\ UNCHANGED <<conv, msg, job, sum, owner, config, bounds, late, missed, reverted, spilled>>

\* enqueue_after_task: the row, then the messages up to the response and the job.
Enqueue(t) ==
    /\ At(t, "enqueue")
    /\ IF summing /\ conv.there THEN Holding(t, "queue", conv) ELSE To(t, "done")
    /\ UNCHANGED <<rows, sum, owner, config, bounds, history>>

Worthwhile(row, to) == Cardinality(Listed(row.until, to)) >= MinMessages
CreateJob(t) ==
    LET row == task[t].row
        key == <<row.version, Response(t)>> IN
    /\ At(t, "queue")
    /\ IF conv.there /\ Worthwhile(row, Response(t)) /\ key \notin DOMAIN job
       THEN job' = [k \in DOMAIN job \cup {key} |->
                       IF k = key THEN Enqueued(row.until) ELSE job[k]]
       ELSE UNCHANGED job
    /\ To(t, "done")
    /\ UNCHANGED <<conv, msg, memory, made, sum, owner, config, bounds, history>>

\* A wake-up is delivered again, or the owner runs the task anew: the driver finds it ended
\* and goes through what follows once more.
RunAgain(t) ==
    /\ At(t, "done") /\ msg[Response(t)] # "none" /\ runs < MaxRuns
    /\ runs' = runs + 1
    /\ To(t, "sync")
    /\ UNCHANGED <<rows, sum, owner, config, faults, history>>

\* The driver dies behind the end of the run; its wake-up is still there (TaskWakeup).
DriverDies(t) ==
    /\ task[t].pc \in {"sync", "touch", "save", "title", "reread", "retitle", "memory", "forget", "remember", "enqueue", "queue"}
    /\ Fault
    /\ To(t, "sync")
    /\ spilled' = (spilled \/ At(t, "remember"))
    /\ UNCHANGED <<rows, sum, owner, config, late, missed, reverted, told>>

-----------------------------------------------------------------------------
(* ConversationSummaryService.run_once                                       *)

\* A running job is not offered again, its lease lapsed or not.
Claimable(j) == j.status \in {"pending", "failed"} /\ j.attempts < MaxAttempts
Claim(s) ==
    /\ sum[s].pc = "idle"
    /\ \E k \in DOMAIN job :
        /\ Claimable(job[k])
        /\ job' = [job EXCEPT ![k].status = "running"]
        /\ sum' = [sum EXCEPT ![s] = [Resting EXCEPT !.pc = "base", !.key = k]]
    /\ UNCHANGED <<conv, msg, memory, made, task, owner, config, bounds, history>>

\* The row as it is now, whichever version the job was made for.
ReadBase(s) ==
    /\ sum[s].pc = "base"
    /\ sum' = [sum EXCEPT ![s].pc = IF conv.there THEN "list" ELSE "close", ![s].base = conv.covers]
    /\ UNCHANGED <<rows, task, owner, config, bounds, history>>

\* The messages between the two boundaries of the job; a job that is gone has none.
ListWindow(s) ==
    LET k == sum[s].key
        got == IF k \in DOMAIN job THEN Listed(job[k].from, k[2]) ELSE {} IN
    /\ sum[s].pc = "list"
    /\ sum' = [sum EXCEPT ![s].pc = IF got = {} THEN "close" ELSE "save", ![s].got = got]
    /\ UNCHANGED <<rows, task, owner, config, bounds, history>>

\* compare_and_set_conversation_summary.  A boundary that is gone is refused, and took its job
\* with it.
SameVersion(s) == conv.there /\ conv.version = sum[s].key[1]
SetSummary(s) ==
    /\ sum[s].pc = "save"
    /\ conv' = IF SameVersion(s) /\ ~ Gone(sum[s].key[2])
               THEN [conv EXCEPT !.covers = sum[s].base \cup sum[s].got, !.until = sum[s].key[2],
                                 !.version = @ + 1]
               ELSE conv
    /\ sum' = [sum EXCEPT ![s] = [Resting EXCEPT !.pc = "close", !.key = sum[s].key]]
    /\ UNCHANGED <<msg, job, memory, made, task, owner, config, bounds, history>>

CompleteJob(s) ==
    LET k == sum[s].key IN
    /\ sum[s].pc = "close"
    /\ job' = IF k \in DOMAIN job THEN [job EXCEPT ![k].status = "succeeded"] ELSE job
    /\ sum' = [sum EXCEPT ![s] = Resting]
    /\ UNCHANGED <<conv, msg, memory, made, task, owner, config, bounds, history>>

\* The database or the model fails: fail_conversation_summary_job.
FailJob(s) ==
    LET k == sum[s].key IN
    /\ sum[s].pc \in {"base", "list", "save", "close"} /\ Fault
    /\ job' = IF k \in DOMAIN job THEN [job EXCEPT ![k].status = "failed", ![k].attempts = @ + 1] ELSE job
    /\ sum' = [sum EXCEPT ![s] = Resting]
    /\ UNCHANGED <<conv, msg, memory, made, task, owner, config, history>>

\* Its job stays running, and nobody claims such a row.
SummarizerDies(s) ==
    /\ sum[s].pc # "idle" /\ Fault
    /\ sum' = [sum EXCEPT ![s] = Resting]
    /\ UNCHANGED <<rows, task, owner, config, history>>

-----------------------------------------------------------------------------
(* The owner: update_conversation, delete_conversation, MemoryService.delete *)

BeginRename ==
    /\ owner.pc = "idle" /\ conv.there /\ conv.title # "renamed"
    /\ owner' = [pc |-> "rename", row |-> conv]
    /\ UNCHANGED <<rows, task, sum, config, bounds, history>>

SaveRename ==
    /\ owner.pc = "rename"
    /\ Save([owner.row EXCEPT !.title = "renamed"])
    /\ owner' = [pc |-> "idle", row |-> Fresh]
    /\ UNCHANGED <<msg, job, memory, made, task, sum, config, bounds, late, missed, told, spilled>>

OwnerForgets ==
    /\ memory.id # 0 /\ ~ spilled
    /\ memory' = Nothing /\ spilled' = TRUE
    /\ UNCHANGED <<conv, msg, job, made, task, sum, owner, config, bounds, late, missed, reverted, told>>

\* Messages, jobs and memories go with it (ON DELETE CASCADE).
DeleteConversation ==
    /\ conv.there /\ Fault
    /\ conv' = [Fresh EXCEPT !.there = FALSE]
    /\ msg' = [m \in Messages |-> "none"] /\ job' = <<>> /\ memory' = Nothing
    /\ spilled' = TRUE
    /\ UNCHANGED <<made, task, sum, owner, config, late, missed, reverted, told>>

TaskStep(t) ==
    \/ ReadConversation(t) \/ CreateTask(t) \/ LoadRow(t) \/ ListRecent(t) \/ Finish(t)
    \/ SyncMessage(t) \/ Touch(t) \/ SaveTouched(t)
    \/ GenerateTitle(t) \/ RereadTitle(t) \/ SaveTitle(t)
    \/ ListMemories(t) \/ DeleteMemory(t) \/ CreateMemory(t)
    \/ Enqueue(t) \/ CreateJob(t) \/ RunAgain(t) \/ DriverDies(t)
SummaryStep(s) ==
    \/ Claim(s) \/ ReadBase(s) \/ ListWindow(s) \/ SetSummary(s) \/ CompleteJob(s)
    \/ FailJob(s) \/ SummarizerDies(s)
OwnerStep == BeginRename \/ SaveRename \/ OwnerForgets \/ DeleteConversation

Next ==
    \/ \E t \in Tasks : TaskStep(t)
    \/ \E s \in Summarizers : SummaryStep(s)
    \/ OwnerStep

-----------------------------------------------------------------------------
Rows == [there : BOOLEAN, until : 0..(2 * N), version : Nat, covers : SUBSET Messages,
         title : {"first", "made", "renamed"}]
Jobs == [status : {"pending", "running", "succeeded", "failed"}, from : 0..(2 * N), attempts : Nat]
Stages == {"new", "insert", "load", "list", "work", "sync", "touch", "save", "title", "reread", "retitle",
           "memory", "forget", "remember", "enqueue", "queue", "done"}
Drivers == [pc : Stages, row : Rows, owed : SUBSET Messages, found : Nat, good : BOOLEAN]
Runs == [pc : {"idle", "base", "list", "save", "close"}, key : Nat \X (0..(2 * N)),
         base : SUBSET Messages, got : SUBSET Messages]
TypeOK ==
    /\ conv \in Rows
    /\ msg \in [Messages -> {"none", "pending", "completed", "failed"}]
    /\ task \in [Tasks -> Drivers]
    /\ DOMAIN job \subseteq Nat \X Messages /\ job \in [DOMAIN job -> Jobs]
    /\ sum \in [Summarizers -> Runs]
    /\ memory \in [id : Nat, name : Names \cup {None}] /\ (memory.id = 0 <=> memory.name = None)
    /\ made \in Nat
    /\ owner \in [pc : {"idle", "rename"}, row : Rows]
    /\ says \in [Tasks -> Names \cup {None}] /\ summing \in BOOLEAN
    /\ late \subseteq Messages /\ missed \subseteq Messages /\ told \subseteq Tasks
    /\ reverted \in BOOLEAN /\ spilled \in BOOLEAN

\* Whatever lies behind the boundary of a summary went into it: a message is neither skipped
\* when two workers summarise at once or a job is tried again, nor dropped with an older
\* summary.  It may be if it was completed after the boundary had passed it, or if a
\* request wrote an older row back (compare_and_set_conversation_summary, _run_job).
SummaryAccounts ==
    conv.there /\ ~ reverted =>
        \A m \in Completed : m <= conv.until => m \in conv.covers \cup late

\* The context of a task has every message that was completed before it was loaded, in the
\* summary or behind the boundary, with the same exceptions (ConversationContextService.load).
ContextWhole == reverted \/ missed \subseteq late

\* What was once remembered under a key is remembered, or is being replaced, unless the owner
\* deleted it or the replacing driver died: of two that replace it at once one stays
\* (upsert_conversation_memory, memory_active_dedup_idx).
StaysRemembered ==
    told # {} /\ ~ spilled => memory.id # 0 \/ \E t \in Tasks : At(t, "remember")

Remembered == SummaryAccounts /\ ContextWhole /\ StaysRemembered

-----------------------------------------------------------------------------
(* Why it holds.  Within one life of the conversation its version only       *)
(* grows, and a version has one boundary and one summary: a copy of the row,  *)
(* a job or a worker that names the present version knows both.  After a      *)
(* deletion nothing refers to a message of the life before, because a task    *)
(* inserts its messages once.                                                 *)

Copies == {task[t].row : t \in Tasks} \cup {owner.row}
Shape(row) == row.version = 0 <=> row.until = 0
EmptyAtFirst(row) == row.until = 0 => row.covers = {}

\* Nothing refers to the messages of a task that has yet to insert them.
Uncome(t) == At(t, "new") \/ At(t, "insert")
NotYet ==
    \A t \in Tasks : Uncome(t) =>
        \A m \in {Request(t), Response(t)} :
            /\ msg[m] = "none" /\ conv.until # m /\ \A row \in Copies : row.until # m
            /\ \A s \in Summarizers : sum[s].key[2] # m
            /\ \A u \in Tasks : m \notin task[u].owed

\* A driver replaces a memory on request only.
Asked == \A t \in Tasks : task[t].pc \in {"forget", "remember"} => says[t] # None

\* What a deletion leaves: nothing.
DeletedIsEmpty ==
    ~ conv.there => conv.until = 0 /\ (\A m \in Messages : msg[m] = "none") /\ DOMAIN job = {} /\ spilled

TrueCopy(row) ==
    /\ row.there /\ Shape(row) /\ EmptyAtFirst(row)
    /\ Refers(row) /\ conv.there /\ ~ reverted =>
          /\ row.version <= conv.version
          /\ row.version = conv.version => row.until = conv.until /\ row.covers = conv.covers
RowsAreTrue ==
    /\ Refers(conv) /\ Shape(conv) /\ EmptyAtFirst(conv)
    /\ \A row \in Copies : TrueCopy(row)

JobsAreTrue ==
    \A k \in DOMAIN job :
        /\ msg[k[2]] # "none"
        /\ ~ reverted =>
              k[1] <= conv.version /\ (k[1] = conv.version => job[k].from = conv.until)

Accounts(s) == \A m \in Completed : m <= sum[s].key[2] => m \in sum[s].base \cup sum[s].got \cup late
WorkersAreTrue ==
    \A s \in Summarizers :
        /\ sum[s].pc # "idle" => sum[s].key[2] # 0
        /\ sum[s].pc # "idle" /\ ~ Gone(sum[s].key[2]) /\ ~ reverted =>
              /\ sum[s].key[1] <= conv.version
              /\ sum[s].pc = "list" /\ sum[s].key[1] = conv.version => sum[s].base = conv.covers
              /\ sum[s].pc = "save" /\ sum[s].key[1] = conv.version => Accounts(s)

ContextsAreTrue ==
    \A t \in Tasks : At(t, "list") =>
        /\ Gone(task[t].row.until) => \A m \in task[t].owed : msg[m] = "none"
        /\ ~ reverted =>
              \A m \in task[t].owed : m <= task[t].row.until => m \in task[t].row.covers \cup late

MemoryInv ==
    /\ TypeOK
    /\ Asked
    /\ NotYet
    /\ DeletedIsEmpty
    /\ RowsAreTrue
    /\ JobsAreTrue
    /\ WorkersAreTrue
    /\ ContextsAreTrue
    /\ SummaryAccounts
    /\ ContextWhole
    /\ StaysRemembered
=============================================================================
