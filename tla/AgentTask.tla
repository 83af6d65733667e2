----------------------------- MODULE AgentTask -----------------------------
(****************************************************************************)
(* One Task of the Agent service, driven under a lease by the processes     *)
(* that call AgentRuntime.run_task, while its owner approves, rejects,      *)
(* cancels and resumes it through the API.                                  *)
(*                                                                          *)
(* Every access to PostgreSQL is a step of its own, because none of them    *)
(* is guarded by a version: `commit' upserts the whole task row that an     *)
(* earlier get_task returned, and `update_step' writes the status and the   *)
(* arguments its caller still holds.  A driver and an API request are       *)
(* therefore small programs over the shared rows, with a program counter    *)
(* and the copies they read.                                                *)
(*                                                                          *)
(* Scope: one Plan version, without the decision to re-plan; sequential     *)
(* execution (task_parallel_enabled is off by default); a planner that is a *)
(* model, so that each of its decisions spends budget.  Consecutive reads   *)
(* of unrelated rows are one step; pending and ready differ for no reader   *)
(* of a step row, so the write pending -> ready that precedes "running" is  *)
(* part of StartStep.  Time appears only as the expiry of a dead process's  *)
(* lease: the heartbeat keeps the lease of a live one.                      *)
(****************************************************************************)
EXTENDS Naturals, FiniteSets

CONSTANTS
    Drivers,        \* threads that call run_task: workers, POST /tasks/{id}/run
    Owners,         \* lease owners: hostname-pid of the process
    Owner,          \* [Drivers -> Owners]
    Requests,       \* concurrent API requests of the task's owner
    N,              \* steps of the plan, executed in the order 1..N
    Writes,         \* the steps whose capability has a side effect
    MaxAttempts,    \* ExecutionLimits.max_step_attempts
    MaxModelCalls,  \* ExecutionLimits.max_model_calls
    MaxApprovals,   \* bound: approval rows ever created
    MaxClicks,      \* bound: API requests ever made
    MaxCrashes      \* bound: process crashes

Steps == 1..N
Args == {"asked", "edited"}     \* the planned arguments, and the owner's edit of them

ASSUME NAssumption == N \in Nat \ {0}
ASSUME WritesAssumption == Writes \subseteq Steps
ASSUME OwnerAssumption == Owner \in [Drivers -> Owners]
ASSUME LimitsAssumption ==
    /\ MaxAttempts \in Nat \ {0}
    /\ MaxModelCalls \in Nat
    /\ MaxApprovals \in Nat
    /\ MaxClicks \in Nat
    /\ MaxCrashes \in Nat

Free == "free"      \* lease_owner IS NULL, or the lease has expired
Gone == "gone"      \* the lease of a process that died, until it expires
ASSUME LeaseMarks == Free \notin Owners /\ Gone \notin Owners

VARIABLES
    \* rows of the Agent's PostgreSQL schema
    task,       \* agent_tasks: status and model_call_count
    lease,      \* agent_tasks.lease_owner / lease_expires_at (not part of the upsert)
    plan,       \* the current plan: none (no current_plan_id), open, completed, failed
    step,       \* agent_plan_steps
    call,       \* agent_capability_calls, one row per step
    approvals,  \* agent_approvals
    lastObs,    \* status of the latest row of agent_observations
    \* volatile state
    drv,        \* the driver threads
    api,        \* the API requests
    \* history and bounds
    settled,    \* steps whose final outcome was ever recorded
    granted,    \* <<step, arguments>> pairs the owner has approved
    refused,    \* steps the owner has rejected
    sent,       \* the external requests issued: [step, req, args]
    invoked,    \* how often the capability of each step was invoked
    shared,     \* whether two threads of one process ever drove the task at once
    clicks,
    crashes

rows == <<task, lease, plan, step, call, approvals, lastObs, settled>>
vars == <<task, lease, plan, step, call, approvals, lastObs, settled, drv, api,
          granted, refused, sent, invoked, shared, clicks, crashes>>

-----------------------------------------------------------------------------
(* Status machines (kernel/states.py).  received and planning are the        *)
(* statuses before a plan exists.                                            *)

TaskStatuses == {"received", "planning", "ready", "executing", "waiting_input",
                 "waiting_approval", "succeeded", "failed", "cancelled", "unknown"}
Terminal == {"succeeded", "failed", "cancelled", "unknown"}
Waiting == {"waiting_input", "waiting_approval"}

TaskTransitions == [
    received |-> {"planning", "ready", "executing", "waiting_input", "cancelled", "failed"},
    planning |-> {"ready", "waiting_input", "failed", "cancelled"},
    ready |-> {"planning", "executing", "waiting_approval", "waiting_input",
               "succeeded", "failed", "cancelled", "unknown"},
    executing |-> {"ready", "waiting_approval", "waiting_input",
                   "succeeded", "failed", "cancelled", "unknown"},
    waiting_input |-> {"planning", "ready", "executing", "cancelled", "failed"},
    waiting_approval |-> {"ready", "executing", "cancelled", "failed"},
    succeeded |-> {}, failed |-> {}, cancelled |-> {}, unknown |-> {}]

StepTransitions == [
    pending |-> {"ready", "skipped", "failed", "waiting_approval"},
    ready |-> {"running", "waiting_approval", "skipped", "failed"},
    running |-> {"succeeded", "failed", "unknown", "ready", "waiting_approval"},
    waiting_approval |-> {"ready", "failed", "skipped"},
    succeeded |-> {}, failed |-> {"ready"}, unknown |-> {}, skipped |-> {}]

TaskMay(from, to) == from = to \/ to \in TaskTransitions[from]
StepMay(from, to) == from = to \/ to \in StepTransitions[from]

StepStatuses == {"pending", "ready", "running", "waiting_approval",
                 "succeeded", "failed", "unknown", "skipped"}
Unfinished == {"pending", "ready", "running", "waiting_approval"}

StepRow == [status : StepStatuses, args : Args, attempts : 0..MaxAttempts]
TaskRow == [status : TaskStatuses, modelCalls : 0..MaxModelCalls]
CallStatuses == {"none", "running", "succeeded", "paused", "failed", "unknown"}
ApprovalStatuses == {"none", "pending", "approved", "rejected", "superseded"}
ApprovalRow == [step : Steps, args : Args, status : ApprovalStatuses]

NewStep == [status |-> "pending", args |-> "asked", attempts |-> 0]

-----------------------------------------------------------------------------
(* Drivers.  drv[d] holds the program counter of the thread and the copies   *)
(* it works on: mine is its PlanStep object, seen the TaskRecord it last     *)
(* read, snap the Plan object (with its steps) that save_plan writes back,   *)
(* goal the status it is about to commit, out the outcome of its capability  *)
(* call and then the planner's decision.                                     *)

Labels == {"idle", "loop", "begin_planning", "planner", "pick", "recover", "check",
           "request", "start", "call_read", "call_save", "invoke", "call_finish", "settle",
           "get_task", "save_plan", "commit", "decide", "apply", "finish", "release"}
Goals == {"none", "planned", "executing", "ready", "event", "waiting_approval",
          "waiting_input", "succeeded", "failed", "unknown", "timed_out"}
Outcomes == {"none", "succeeded", "paused", "retryable", "failed", "unknown", "cancelled"}
Decisions == {"continue", "complete", "fail", "request_input"}

Driver == [pc : Labels, cur : 0..N, mine : StepRow, seen : TaskRow, req : Nat,
           snap : [Steps -> StepRow], goal : Goals, out : Outcomes \cup Decisions]

NewTask == [status |-> "received", modelCalls |-> 0]
IdleDriver == [pc |-> "idle", cur |-> 0, mine |-> NewStep, seen |-> NewTask, req |-> 0,
               snap |-> [s \in Steps |-> NewStep], goal |-> "none", out |-> "none"]

At(d, l) == drv[d].pc = l
Driving(d) == drv[d].pc # "idle"
Goto(d, l) == drv' = [drv EXCEPT ![d].pc = l]
\* Back to the head of the loop, where every local is read afresh.
Again(d) == drv' = [drv EXCEPT ![d] = [IdleDriver EXCEPT !.pc = "loop"]]
\* The thread leaves with an exception or a result: `finally' releases the lease.
Leave(d) == drv' = [drv EXCEPT ![d] = [IdleDriver EXCEPT !.pc = "release"]]
\* get_task follows, then a commit of the status g.
Aim(d, g) == drv' = [drv EXCEPT ![d].pc = "get_task", ![d].goal = g]

\* update_step: status and arguments are written, attempt_count is not (COALESCE).
Written(s, row) == [step EXCEPT ![s].status = row.status, ![s].args = row.args]

Init ==
    /\ task = NewTask
    /\ lease = Free
    /\ plan = "none"
    /\ step = [s \in Steps |-> NewStep]
    /\ call = [s \in Steps |-> [status |-> "none", req |-> 0]]
    /\ approvals = [a \in 1..MaxApprovals |-> [step |-> 1, args |-> "asked", status |-> "none"]]
    /\ lastObs = "none"
    /\ settled = {}
    /\ drv = [d \in Drivers |-> IdleDriver]
    /\ api = [r \in Requests |-> [pc |-> "idle", kind |-> "none", ap |-> 0,
                                  seen |-> NewTask, args |-> "asked"]]
    /\ granted = {}
    /\ refused = {}
    /\ sent = {}
    /\ invoked = [s \in Steps |-> 0]
    /\ shared = FALSE
    /\ clicks = 0
    /\ crashes = 0

\* acquire_lease, one conditional UPDATE: nobody else holds an unexpired lease.
MayAcquire_Always(o) == TRUE            \* mutant
MayAcquire(o) == lease \in {Free, o}

\* run_task: a finished or waiting task is left alone, and so is one whose lease
\* another process holds (the result is waiting_for="lease").  _drive reads the task
\* again.
RunTask(d) ==
    /\ At(d, "idle")
    /\ task.status \notin Terminal \cup Waiting
    /\ MayAcquire(Owner[d])
    /\ lease' = Owner[d]
    /\ Goto(d, "loop")
    /\ shared' = (shared \/ \E e \in Drivers \ {d} : Owner[e] = Owner[d] /\ Driving(e))
    /\ UNCHANGED <<task, plan, step, call, approvals, lastObs, settled, api,
                   granted, refused, sent, invoked, clicks, crashes>>

\* The head of _drive's loop: get_task, the early return, and the plan lookup.
LoopRead(d) ==
    /\ At(d, "loop")
    /\ IF task.status \in Terminal \cup Waiting THEN Leave(d)
       ELSE IF plan = "none"
       THEN drv' = [drv EXCEPT ![d].seen = task, ![d].pc = "begin_planning"]
       ELSE Goto(d, "pick")
    /\ UNCHANGED <<rows, api, granted, refused, sent, invoked, shared, clicks, crashes>>

\* max_execution_seconds or the loop guard is exceeded.
OutOfTime(d) ==
    /\ At(d, "loop")
    /\ task.status \notin Terminal \cup Waiting
    /\ Aim(d, "timed_out")
    /\ UNCHANGED <<rows, api, granted, refused, sent, invoked, shared, clicks, crashes>>

\* _begin_planning commits the row read at the head of the loop.
BeginPlanning(d) ==
    /\ At(d, "begin_planning")
    /\ IF TaskMay(drv[d].seen.status, "planning")
       THEN /\ task' = [drv[d].seen EXCEPT !.status = "planning"]
            /\ drv' = [drv EXCEPT ![d].seen = NewTask, ![d].pc = "planner"]
       ELSE UNCHANGED task /\ Leave(d)
    /\ UNCHANGED <<lease, plan, step, call, approvals, lastObs, settled, api,
                   granted, refused, sent, invoked, shared, clicks, crashes>>

\* _prepare_understanding may ask the owner what was meant; _plan checks the budget
\* and takes the planner's answer, a valid plan or a failure.
Planner(d) ==
    /\ At(d, "planner")
    /\ \/ task.modelCalls < MaxModelCalls /\ Aim(d, "planned")
       \/ Aim(d, "waiting_input")
       \/ Aim(d, "failed")
    /\ UNCHANGED <<rows, api, granted, refused, sent, invoked, shared, clicks, crashes>>

\* list_steps and resume_step: the first step that is pending, ready or running.
Resumable(s) == step[s].status \in {"pending", "ready", "running"}
IsNext(s) == Resumable(s) /\ \A t \in 1..(s - 1) : ~ Resumable(t)
Pick(d) ==
    /\ At(d, "pick")
    /\ \/ /\ \A s \in Steps : ~ Resumable(s)
          /\ drv' = [drv EXCEPT ![d].snap = step, ![d].pc = "decide"]
       \/ \E s \in Steps :
             /\ IsNext(s)
             /\ drv' = [drv EXCEPT ![d].snap = step, ![d].cur = s, ![d].mine = step[s],
                          ![d].pc = IF step[s].status = "running" THEN "recover" ELSE "check"]
    /\ UNCHANGED <<rows, api, granted, refused, sent, invoked, shared, clicks, crashes>>

Answers == {"succeeded", "failed", "unknown"}
RecoveredStatus_Kept(found) == IF found \in Answers THEN found ELSE "running"   \* mutant
RecoveredStatus(found) == IF found \in Answers THEN found ELSE "ready"

\* _recover_running_step: the call row, not memory, says what became of the step.
\* A finished call settles the step; no row, an unfinished row or a call that
\* paused for input makes the step ready again.
Recover(d) ==
    /\ At(d, "recover")
    /\ LET s == drv[d].cur
           found == call[s].status
           answered == found \in Answers
           row == [drv[d].mine EXCEPT !.status = RecoveredStatus(found)]
       IN /\ step' = Written(s, row)
          /\ lastObs' = IF answered THEN found ELSE lastObs
          /\ settled' = IF answered THEN settled \cup {s} ELSE settled
          /\ IF answered
             THEN Aim(d, "ready")
             ELSE Again(d)
    /\ UNCHANGED <<task, lease, plan, call, approvals, api,
                   granted, refused, sent, invoked, shared, clicks, crashes>>

\* _preflight (or an unresolved reference) asks the owner for something: an
\* observation is saved and the planner decides; nothing was executed.
PreflightBlocks(d) ==
    /\ At(d, "check")
    /\ lastObs' = "asks"
    /\ Goto(d, "decide")
    /\ UNCHANGED <<task, lease, plan, step, call, approvals, settled, api,
                   granted, refused, sent, invoked, shared, clicks, crashes>>

\* validate_step refuses the arguments, and the planner (holding the plan as it was
\* loaded) may repair them; or the policy denies the capability.
StepRefused(d) ==
    /\ At(d, "check")
    /\ step' = Written(drv[d].cur, [drv[d].mine EXCEPT !.status = "failed"])
    /\ settled' = settled \cup {drv[d].cur}
    /\ \/ lastObs' = "failed" /\ drv' = [drv EXCEPT ![d].pc = "decide", ![d].cur = 0]
       \/ UNCHANGED lastObs /\ Aim(d, "failed")
    /\ UNCHANGED <<task, lease, plan, call, approvals, api,
                   granted, refused, sent, invoked, shared, clicks, crashes>>

\* Mutant: an approval of other arguments counts.
Approved_AnyArguments(s, args) ==
    \E a \in 1..MaxApprovals : approvals[a].step = s /\ approvals[a].status = "approved"

\* _approved_approval: an approved row for this step and exactly these arguments.
Approved(s, args) ==
    \E a \in 1..MaxApprovals : approvals[a] = [step |-> s, args |-> args, status |-> "approved"]

\* The policy: a write needs an approval, a read does not.
Check(d) ==
    /\ At(d, "check")
    /\ Goto(d, IF drv[d].cur \in Writes /\ ~ Approved(drv[d].cur, drv[d].mine.args)
               THEN "request" ELSE "start")
    /\ UNCHANGED <<rows, api, granted, refused, sent, invoked, shared, clicks, crashes>>

\* _wait_for_approval, first write: ApprovalGateway.request inserts the row.
RequestApproval(d) ==
    /\ At(d, "request")
    /\ drv[d].goal # "waiting_approval"
    /\ \E a \in 1..MaxApprovals :
          /\ approvals[a].status = "none"
          /\ \A b \in 1..(a - 1) : approvals[b].status # "none"
          /\ approvals' = [approvals EXCEPT ![a] =
                [step |-> drv[d].cur, args |-> drv[d].mine.args, status |-> "pending"]]
    /\ drv' = [drv EXCEPT ![d].goal = "waiting_approval"]
    /\ UNCHANGED <<task, lease, plan, step, call, lastObs, settled, api,
                   granted, refused, sent, invoked, shared, clicks, crashes>>

\* _wait_for_approval, second write: the step waits.  The task row follows.
StepWaits(d) ==
    /\ At(d, "request")
    /\ drv[d].goal = "waiting_approval"
    /\ step' = Written(drv[d].cur, [drv[d].mine EXCEPT !.status = "waiting_approval"])
    /\ Aim(d, "waiting_approval")
    /\ UNCHANGED <<task, lease, plan, call, approvals, lastObs, settled, api,
                   granted, refused, sent, invoked, shared, clicks, crashes>>

AttemptAllowed_OneMore(attempt) == attempt <= MaxAttempts + 1       \* mutant
AttemptAllowed(attempt) == attempt <= MaxAttempts
Started_Uncounted(row) == [row EXCEPT !.status = "running"]         \* mutant
Started(row) == [row EXCEPT !.status = "running", !.attempts = @ + 1]

\* _execute_step: the attempt is counted in the row before anything is called.
StartStep(d) ==
    /\ At(d, "start")
    /\ LET row == Started(drv[d].mine) IN
       IF AttemptAllowed(drv[d].mine.attempts + 1)
       THEN /\ step' = [step EXCEPT ![drv[d].cur] = row]
            /\ drv' = [drv EXCEPT ![d].mine = row, ![d].pc = "get_task", ![d].goal = "executing"]
       ELSE Aim(d, "failed") /\ UNCHANGED step
    /\ UNCHANGED <<task, lease, plan, call, approvals, lastObs, settled, api,
                   granted, refused, sent, invoked, shared, clicks, crashes>>

Reused_SucceededOnly(found) == found = "succeeded"       \* mutant
Reused(found) == found \in {"succeeded", "unknown"}

\* CapabilityExecutor.execute, get_capability_call: a finished call is returned
\* as it is; anything else is (re-)issued.
CallRead(d) ==
    /\ At(d, "call_read")
    /\ LET found == call[drv[d].cur].status IN
       IF Reused(found)
       THEN drv' = [drv EXCEPT ![d].out = found, ![d].pc = "settle"]
       ELSE drv' = [drv EXCEPT ![d].req = call[drv[d].cur].req, ![d].pc = "call_save"]
    /\ UNCHANGED <<rows, api, granted, refused, sent, invoked, shared, clicks, crashes>>

\* The external system deduplicates on the request id: the one of the row that
\* was read, or a new uuid.
NewRequestId(s) == invoked[s] + 1
RequestId_AlwaysNew(d) == NewRequestId(drv[d].cur)    \* mutant: the row's id is not reused
RequestId(d) == IF drv[d].req = 0 THEN NewRequestId(drv[d].cur) ELSE drv[d].req

\* save_capability_call(status = running).  A second row for the same idempotency
\* key violates its UNIQUE constraint.
CallSave(d) ==
    /\ At(d, "call_save")
    /\ LET s == drv[d].cur IN
       IF drv[d].req = 0 /\ call[s].status # "none"
       THEN Leave(d) /\ UNCHANGED call
       ELSE /\ call' = [call EXCEPT ![s] = [status |-> "running", req |-> RequestId(d)]]
            /\ drv' = [drv EXCEPT ![d].req = RequestId(d), ![d].pc = "invoke"]
    /\ UNCHANGED <<task, lease, plan, step, approvals, lastObs, settled, api,
                   granted, refused, sent, invoked, shared, clicks, crashes>>

\* capability.execute: the request leaves the process, and comes back with one of
\* the outcomes the executor classifies.  A timeout is retryable although the
\* effect happened; the cancellation probe answers only once the row says so.
Invoke(d) ==
    /\ At(d, "invoke")
    /\ LET s == drv[d].cur IN
       /\ sent' = sent \cup {[step |-> s, req |-> drv[d].req, args |-> drv[d].mine.args]}
       /\ invoked' = [invoked EXCEPT ![s] = @ + 1]
    /\ \E o \in Outcomes \ {"none"} :
          /\ o = "cancelled" => task.status = "cancelled"
          /\ drv' = [drv EXCEPT ![d].out = o, ![d].pc = "call_finish"]
    /\ UNCHANGED <<rows, api, granted, refused, shared, clicks, crashes>>

\* save_capability_call with the outcome.
CallFinish(d) ==
    /\ At(d, "call_finish")
    /\ call' = [call EXCEPT ![drv[d].cur] =
          [status |-> IF drv[d].out \in {"succeeded", "paused", "unknown"} THEN drv[d].out
                      ELSE "failed",
           req |-> drv[d].req]]
    /\ Goto(d, "settle")
    /\ UNCHANGED <<task, lease, plan, step, approvals, lastObs, settled, api,
                   granted, refused, sent, invoked, shared, clicks, crashes>>

\* _execute_step after the call: the observation and the step's new status.  A
\* retryable failure with attempts left walks the same step again.
Settle(d) ==
    /\ At(d, "settle")
    /\ LET s == drv[d].cur
           out == drv[d].out
           retry == out = "retryable" /\ drv[d].mine.attempts < MaxAttempts
           status == CASE out \in {"succeeded", "unknown"} -> out
                       [] out \in {"paused", "cancelled"} \/ retry -> "ready"
                       [] OTHER -> "failed"
       IN /\ step' = Written(s, [drv[d].mine EXCEPT !.status = status])
          /\ lastObs' = CASE out = "cancelled" -> lastObs
                          [] out = "paused" -> "asks"
                          [] out \in {"succeeded", "unknown"} -> out
                          [] OTHER -> "failed"
          /\ settled' = IF status \in Answers THEN settled \cup {s} ELSE settled
          /\ IF out = "cancelled" THEN Leave(d)
             ELSE IF retry THEN Again(d)
             ELSE Aim(d, "ready")
    /\ UNCHANGED <<task, lease, plan, call, approvals, api,
                   granted, refused, sent, invoked, shared, clicks, crashes>>

Finished == \A s \in Steps : step[s].status \in {"succeeded", "skipped"}

\* What follows the observation is decided by a shortcut for well-known pairs of
\* capabilities, or by the planner (a model), whose budget is in the task row.  A
\* planner that fails once every step has succeeded does not spoil the result.
Decide(d) ==
    /\ At(d, "decide")
    /\ LET plans == IF drv[d].cur = 0 THEN drv[d].snap ELSE step
           todo(steps) == {s \in Steps : steps[s].status \in {"pending", "ready"}}
           Then(l, g, o) == drv' = [drv EXCEPT ![d] = [IdleDriver EXCEPT
                                    !.pc = l, !.goal = g, !.out = o, !.snap = plans]]
       IN \/ lastObs = "succeeded" /\ todo(plans) # {} /\ Again(d)
          \/ lastObs = "succeeded" /\ todo(plans) = {} /\ Then("finish", "none", "none")
          \/ /\ task.modelCalls < MaxModelCalls
             /\ \/ \E decision \in Decisions : Then("get_task", "event", decision)
                \/ Finished /\ Then("finish", "none", "none")
          \/ ~ Finished /\ Then("get_task", "failed", "none")
          \/ task.modelCalls = MaxModelCalls /\ Then("get_task", "failed", "none")
    /\ UNCHANGED <<rows, api, granted, refused, sent, invoked, shared, clicks, crashes>>

\* _decide_and_apply, once the decision is recorded.
Apply(d) ==
    /\ At(d, "apply")
    /\ CASE drv[d].out = "continue" ->
              IF \E s \in Steps : step[s].status \in {"pending", "ready"} THEN Again(d)
              ELSE IF Finished THEN Goto(d, "finish") ELSE Aim(d, "failed")
         [] drv[d].out = "complete" -> Goto(d, "finish")
         [] drv[d].out = "request_input" -> Aim(d, "waiting_input")
         [] OTHER -> Aim(d, IF lastObs = "unknown" THEN "unknown" ELSE "failed")
    /\ UNCHANGED <<rows, api, granted, refused, sent, invoked, shared, clicks, crashes>>

\* _complete: unfinished writes, and steps in flight, block it; unfinished reads
\* are closed out as skipped.  A web answer without cited evidence fails the task.
Blocks_InFlightOnly(s) ==      \* mutant: a pending write does not block
    step[s].status \in {"running", "waiting_approval"}
Blocks(s) == step[s].status \in {"running", "waiting_approval"} \/ s \in Writes
Finish(d) ==
    /\ At(d, "finish")
    /\ LET open == {s \in Steps : step[s].status \in Unfinished} IN
       IF \E s \in open : Blocks(s)
       THEN Aim(d, "failed") /\ UNCHANGED step
       ELSE /\ step' = [s \in Steps |-> IF s \in open THEN [step[s] EXCEPT !.status = "skipped"]
                                        ELSE step[s]]
            /\ \/ drv' = [drv EXCEPT ![d].pc = "save_plan", ![d].goal = "succeeded"]
               \/ Aim(d, "failed")
    /\ UNCHANGED <<task, lease, plan, call, approvals, lastObs, settled, api,
                   granted, refused, sent, invoked, shared, clicks, crashes>>

\* save_plan: the plan's status, and an upsert of every step it was loaded with.
SavePlan(d) ==
    /\ At(d, "save_plan")
    /\ IF plan = "open"
       THEN /\ plan' = IF drv[d].goal = "succeeded" THEN "completed" ELSE "failed"
            /\ step' = drv[d].snap
       ELSE UNCHANGED <<plan, step>>
    /\ Goto(d, IF drv[d].goal = "succeeded" THEN "get_task" ELSE "commit")
    /\ UNCHANGED <<task, lease, call, approvals, lastObs, settled, api,
                   granted, refused, sent, invoked, shared, clicks, crashes>>

\* get_task before a commit.  _fail saves the plan in between.
GetTask(d) ==
    /\ At(d, "get_task")
    /\ drv' = [drv EXCEPT ![d].seen = task,
                          ![d].pc = IF drv[d].goal \in {"failed", "unknown"} /\ plan # "none"
                                    THEN "save_plan" ELSE "commit"]
    /\ UNCHANGED <<rows, api, granted, refused, sent, invoked, shared, clicks, crashes>>

GoalStatus(d) == CASE drv[d].goal = "planned" -> "ready"
                   [] drv[d].goal = "event" -> drv[d].seen.status
                   [] drv[d].goal = "timed_out" -> "failed"
                   [] OTHER -> drv[d].goal
\* The row that is upserted: the one that was read, with the new status.
CommittedRow(d) ==
    [status |-> GoalStatus(d),
     modelCalls |-> IF drv[d].goal \in {"planned", "event"} /\ drv[d].seen.modelCalls < MaxModelCalls
                    THEN drv[d].seen.modelCalls + 1 ELSE drv[d].seen.modelCalls]
NextLabel(goal) == CASE goal = "planned" -> "loop"
                     [] goal = "executing" -> "call_read"
                     [] goal = "ready" -> "decide"
                     [] goal = "event" -> "apply"
                     [] OTHER -> "release"

\* ensure_task_transition against the row that was read, then commit; a refused
\* transition is an exception that leaves run_task.
Commit(d) ==
    /\ At(d, "commit")
    /\ IF TaskMay(drv[d].seen.status, GoalStatus(d))
       THEN /\ task' = CommittedRow(d)
            /\ plan' = IF drv[d].goal = "planned" THEN "open" ELSE plan
            /\ IF NextLabel(drv[d].goal) \in {"loop", "release"}
               THEN drv' = [drv EXCEPT ![d] = [IdleDriver EXCEPT !.pc = NextLabel(drv[d].goal)]]
               ELSE drv' = [drv EXCEPT ![d].pc = NextLabel(drv[d].goal),
                                       ![d].seen = NewTask, ![d].goal = "none"]
       ELSE Leave(d) /\ UNCHANGED <<task, plan>>
    /\ UNCHANGED <<lease, step, call, approvals, lastObs, settled, api,
                   granted, refused, sent, invoked, shared, clicks, crashes>>

\* release_lease, in `finally': only the owner's lease is cleared.
Release(d) ==
    /\ At(d, "release")
    /\ lease' = IF lease = Owner[d] THEN Free ELSE lease
    /\ drv' = [drv EXCEPT ![d] = IdleDriver]
    /\ UNCHANGED <<task, plan, step, call, approvals, lastObs, settled, api,
                   granted, refused, sent, invoked, shared, clicks, crashes>>

\* A process dies with all its threads.  Its successor has another pid, so the
\* lease it held stays until it expires.
Crash(o) ==
    /\ crashes < MaxCrashes
    /\ \E d \in Drivers : Owner[d] = o /\ ~ At(d, "idle")
    /\ drv' = [d \in Drivers |-> IF Owner[d] = o THEN IdleDriver ELSE drv[d]]
    /\ lease' = IF lease = o THEN Gone ELSE lease
    /\ crashes' = crashes + 1
    /\ UNCHANGED <<task, plan, step, call, approvals, lastObs, settled, api,
                   granted, refused, sent, invoked, shared, clicks>>

LeaseExpires ==
    /\ lease = Gone
    /\ lease' = Free
    /\ UNCHANGED <<task, plan, step, call, approvals, lastObs, settled, drv, api,
                   granted, refused, sent, invoked, shared, clicks, crashes>>

-----------------------------------------------------------------------------
(* API requests of the owner.  api[r] holds the rows the request has read.   *)
(* A request that is refused, or dies, leaves what it has written so far.    *)

Kinds == {"none", "approve", "reject", "cancel", "resume", "answer"}
Request == [pc : {"idle", "step", "save", "commit"}, kind : Kinds,
            ap : 0..MaxApprovals, seen : TaskRow, args : Args]
IdleRequest == [pc |-> "idle", kind |-> "none", ap |-> 0, seen |-> NewTask, args |-> "asked"]

Answering(r, l) == api[r].pc = l
Click(r, request) ==
    /\ Answering(r, "idle")
    /\ clicks < MaxClicks
    /\ clicks' = clicks + 1
    /\ api' = [api EXCEPT ![r] = request]
Proceed(r, l) == api' = [api EXCEPT ![r].pc = l]
EndRequest(r) == api' = [api EXCEPT ![r] = IdleRequest]

\* ApprovalGateway.decide, the checks.  An approval of other arguments than the
\* step now carries is refused (SupersedeApproval).
Decidable(a) == approvals[a].status = "pending" /\ task.status \notin Terminal
StepOf(a) == approvals[a].step
ClickApprove(r, a, edit) ==
    /\ Decidable(a)
    /\ approvals[a].args = step[StepOf(a)].args
    /\ StepMay(step[StepOf(a)].status, "ready")
    /\ Click(r, [pc |-> "step", kind |-> "approve", ap |-> a, seen |-> task,
                 args |-> IF edit THEN "edited" ELSE step[StepOf(a)].args])
    /\ UNCHANGED <<rows, drv, granted, refused, sent, invoked, shared, crashes>>

ClickReject(r, a) ==
    /\ Decidable(a)
    /\ StepMay(step[StepOf(a)].status, "skipped")
    /\ Click(r, [pc |-> "step", kind |-> "reject", ap |-> a, seen |-> task,
                 args |-> step[StepOf(a)].args])
    /\ UNCHANGED <<rows, drv, granted, refused, sent, invoked, shared, crashes>>

SupersedeApproval(a) ==
    /\ clicks < MaxClicks
    /\ Decidable(a)
    /\ approvals[a].args # step[StepOf(a)].args
    /\ approvals' = [approvals EXCEPT ![a].status = "superseded"]
    /\ clicks' = clicks + 1
    /\ UNCHANGED <<task, lease, plan, step, call, lastObs, settled, drv, api,
                   granted, refused, sent, invoked, shared, crashes>>

\* What a kind of request makes of the step and of the task.
StepTarget(kind) == IF kind = "approve" THEN "ready" ELSE "skipped"
TaskTarget(kind) == CASE kind \in {"approve", "resume"} -> "ready"
                      [] kind = "reject" -> "failed"
                      [] kind = "answer" -> "planning"
                      [] OTHER -> "cancelled"

\* decide: update_step, and only then ensure_task_transition.
DecideStep(r) ==
    /\ Answering(r, "step")
    /\ step' = Written(StepOf(api[r].ap), [status |-> StepTarget(api[r].kind), args |-> api[r].args])
    /\ IF TaskMay(api[r].seen.status, TaskTarget(api[r].kind))
       THEN Proceed(r, "save") ELSE EndRequest(r)
    /\ refused' = IF api[r].kind = "reject" THEN refused \cup {StepOf(api[r].ap)} ELSE refused
    /\ UNCHANGED <<task, lease, plan, call, approvals, lastObs, settled, drv,
                   granted, sent, invoked, shared, clicks, crashes>>

\* decide: save_approval.
DecideSave(r) ==
    /\ Answering(r, "save")
    /\ LET a == api[r].ap IN
       IF api[r].kind = "approve"
       THEN /\ approvals' = [approvals EXCEPT ![a].status = "approved", ![a].args = api[r].args]
            /\ granted' = granted \cup {<<StepOf(a), api[r].args>>}
       ELSE /\ approvals' = [approvals EXCEPT ![a].status = "rejected"]
            /\ UNCHANGED granted
    /\ Proceed(r, "commit")
    /\ UNCHANGED <<task, lease, plan, step, call, lastObs, settled, drv, refused, sent,
                   invoked, shared, clicks, crashes>>

\* TaskService.cancel and submit_input: read and check.  Input resumes a plan, or is
\* planned from when there is none yet.
ClickCancel(r) ==
    /\ task.status \notin Terminal
    /\ Click(r, [IdleRequest EXCEPT !.pc = "commit", !.kind = "cancel", !.seen = task])
    /\ UNCHANGED <<rows, drv, granted, refused, sent, invoked, shared, crashes>>

ClickResume(r) ==
    /\ task.status = "waiting_input"
    /\ Click(r, [IdleRequest EXCEPT !.pc = "commit", !.seen = task,
                                    !.kind = IF plan = "none" THEN "answer" ELSE "resume"])
    /\ UNCHANGED <<rows, drv, granted, refused, sent, invoked, shared, crashes>>

\* The commit that ends a request: the row it read, with the new status.
RequestCommit(r) ==
    /\ Answering(r, "commit")
    /\ task' = [api[r].seen EXCEPT !.status = TaskTarget(api[r].kind)]
    /\ EndRequest(r)
    /\ UNCHANGED <<lease, plan, step, call, approvals, lastObs, settled, drv,
                   granted, refused, sent, invoked, shared, clicks, crashes>>

\* The API process dies in the middle of a request.
RequestDies(r) ==
    /\ ~ Answering(r, "idle")
    /\ crashes < MaxCrashes
    /\ crashes' = crashes + 1
    /\ EndRequest(r)
    /\ UNCHANGED <<rows, drv, granted, refused, sent, invoked, shared, clicks>>

-----------------------------------------------------------------------------
DriverStep(d) ==
    \/ RunTask(d) \/ LoopRead(d) \/ BeginPlanning(d) \/ Planner(d)
    \/ Pick(d) \/ Recover(d) \/ Check(d) \/ RequestApproval(d) \/ StepWaits(d)
    \/ StartStep(d) \/ CallRead(d) \/ CallSave(d) \/ Invoke(d) \/ CallFinish(d)
    \/ Settle(d) \/ Decide(d) \/ Apply(d) \/ Finish(d) \/ SavePlan(d)
    \/ GetTask(d) \/ Commit(d) \/ Release(d)

RequestStep(r) ==
    \/ \E a \in 1..MaxApprovals, edit \in BOOLEAN : ClickApprove(r, a, edit)
    \/ \E a \in 1..MaxApprovals : ClickReject(r, a)
    \/ DecideStep(r) \/ DecideSave(r) \/ ClickCancel(r) \/ ClickResume(r)
    \/ RequestCommit(r) \/ RequestDies(r)

Next ==
    \/ \E d \in Drivers : DriverStep(d) \/ PreflightBlocks(d) \/ StepRefused(d) \/ OutOfTime(d)
    \/ \E o \in Owners : Crash(o)
    \/ LeaseExpires
    \/ \E r \in Requests : RequestStep(r)
    \/ \E a \in 1..MaxApprovals : SupersedeApproval(a)

Spec == Init /\ [][Next]_vars

\* A live process keeps running its program and is woken again as long as the
\* task is runnable (TaskWakeup examines that); leases expire.  Owners owe nothing.
FairSpec ==
    /\ Spec
    /\ \A d \in Drivers : WF_vars(DriverStep(d))
    /\ WF_vars(LeaseExpires)

-----------------------------------------------------------------------------
(* Properties.                                                               *)

\* The rows and the volatile copies stay in their domains; in particular no
\* step row ever counts more than max_step_attempts attempts.
TypeOK ==
    /\ task \in TaskRow
    /\ lease \in Owners \cup {Free, Gone}
    /\ plan \in {"none", "open", "completed", "failed"}
    /\ step \in [Steps -> StepRow]
    /\ call \in [Steps -> [status : CallStatuses, req : Nat]]
    /\ approvals \in [1..MaxApprovals -> ApprovalRow]
    /\ lastObs \in {"none", "succeeded", "asks", "failed", "unknown"}
    /\ settled \subseteq Steps
    /\ drv \in [Drivers -> Driver]
    /\ api \in [Requests -> Request]
    /\ granted \subseteq Steps \X Args
    /\ refused \subseteq Steps
    /\ sent \subseteq [step : Steps, req : Nat, args : Args]
    /\ invoked \in [Steps -> Nat]
    /\ shared \in BOOLEAN
    /\ clicks \in 0..MaxClicks
    /\ crashes \in 0..MaxCrashes

\* The lease is the guard against two drivers of one Task, across crashes, expiry and
\* takeover.  Its owner is a process, so it cannot tell two threads of one from each
\* other: POST /tasks/{id}/run twice is the one way past it, here and wherever `shared'
\* is named below.
OneDriver == ~ shared => \A d, e \in Drivers : Driving(d) /\ Driving(e) => d = e

\* However often a step is retried, recovered after a crash, taken over by another
\* process or driven by two threads at once, every request that leaves for its external
\* system carries one request id, so that the system can recognise the repetition.
OneRequestId == \A x, y \in sent : x.step = y.step => x.req = y.req

\* No write leaves the service unless the owner approved that step with
\* exactly the arguments that are sent.
ExecutedAsApproved == \A x \in sent : x.step \in Writes => <<x.step, x.args>> \in granted

\* Retries, crashes and recoveries together never invoke a step's capability
\* more often than max_step_attempts, until two threads of one process drive the Task.
AttemptsBounded == ~ shared => \A s \in Steps : invoked[s] <= MaxAttempts

\* Once a call row says succeeded or unknown, it is never reopened and the capability
\* is not invoked again for that step, even if a late click makes the step ready; only a
\* second thread of the process that drives the Task has still to issue what it has read.
NoRepeatAfterAnswer ==
    [][\A s \in Steps : ~ shared /\ call[s].status \in {"succeeded", "unknown"} =>
           call'[s] = call[s] /\ invoked'[s] = invoked[s]]_vars

\* A Task is only reported succeeded when the outcome of each of its writes was
\* recorded or the owner rejected it: none was silently dropped, neither by the
\* planner's closing word nor by a crash.
SuccessAccountsForWrites ==
    task.status = "succeeded" => Writes \subseteq refused \cup settled

\* A runnable Task is eventually finished or waits for its owner.
Settles == (task.status \notin Terminal \cup Waiting) ~> (task.status \in Terminal \cup Waiting)

\* Claimed by TASK_TRANSITIONS, where a terminal status has no successor.
TerminalIsFinal == [][task.status \in Terminal => task'.status = task.status]_vars

=============================================================================
