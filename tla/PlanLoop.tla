------------------------------ MODULE PlanLoop ------------------------------
(****************************************************************************)
(* How the Agent decides what to do: the chain of planners that turns one   *)
(* message into a plan (KnowledgeRoutingPlanner over RoutingPlanner over    *)
(* the deterministic planner or the model), the binding and repair of the   *)
(* references between its steps, and the loop that runs a step, shows its   *)
(* observation to the planner and continues, re-plans or stops.             *)
(*                                                                          *)
(* A plan is a short sequence of steps over named capabilities.  What its   *)
(* arguments say is a number (0 for arguments its schema refuses); the      *)
(* references to earlier outputs are kept, because a conversion happens to  *)
(* them: the planners write them as a position in the plan, and the binder  *)
(* turns them into the id of a step.  The wording that the classifiers      *)
(* recognise is a field of the turn.  What the model answers is arbitrary:  *)
(* any of Drafts, any action, or nothing usable.                            *)
(*                                                                          *)
(* Scope: one driver, which does not crash; writes are approved.  Leases,   *)
(* crashes and approvals are AgentTask's.  Retries in place are one step    *)
(* per attempt; preflight questions are AgentTask's.                        *)
(****************************************************************************)
EXTENDS Naturals, Sequences, FiniteSets, SequencesExt

CONSTANTS
    Turns,          \* messages: [source, intent, cue, url, personal, wants, file, judged]
    Setups,         \* deployments: [provider, tools, parallel, treeFirst]
    Drafts,         \* plans the model may write, sequences of steps
    MaxAttempts,    \* ExecutionLimits.max_step_attempts
    MaxReplans,     \* ExecutionLimits.max_replans
    MaxModelCalls,  \* ExecutionLimits.max_model_calls
    MaxSame,        \* ExecutionLimits.max_same_capability_calls
    Concurrency,    \* task_step_concurrency
    MaxTurnsOfLoop  \* bound: observations of a task (the guard of _drive)

Writes == {"apply", "todo"}
Sources == {"sources", "search", "tree", "web"}
Composers == {"answer", "compose"}

VARIABLES
    turn,   \* the task's input and its understanding
    setup,  \* how the service is configured
    pc,     \* where run_task stands
    task,   \* agent_tasks: status, model_call_count, replan_count, plan version
    plan,   \* the current plan: who wrote it and its steps
    draft,  \* the steps the model has written and the planner is checking
    obs     \* agent_observations, oldest first

vars == <<turn, setup, pc, task, plan, draft, obs>>

Terminal == {"succeeded", "failed", "unknown"}
Outcomes == {"succeeded", "asks", "failed", "retryable", "unreadable", "refused", "unknown"}

-----------------------------------------------------------------------------
(* Steps and references.                                                     *)

Chain == {0}    \* depends_on is None: after the step before
Ref(slot, k) == [slot |-> slot, step |-> k, bound |-> FALSE]
Bound(slot, k) == [slot |-> slot, step |-> k, bound |-> TRUE]
Step(cap, refs) == [cap |-> cap, query |-> 1, refs |-> refs, after |-> Chain,
                    file |-> FALSE, status |-> "pending", attempts |-> 0]
\* answer.compose given the parsed attachment as evidence.
WithFile(step, given) == [step EXCEPT !.file = given]

\* CapabilityInputBinding: the capabilities a reference argument accepts.  The
\* sources_ref of knowledge.answer has none.
Binding(cap) == CASE cap \in {"search", "tree"} -> [resources |-> {"sources"}]
                  [] cap = "answer" -> [results |-> {"search", "tree"}]
                  [] cap = "compose" -> [evidence |-> {"web"}, knowledge |-> {"search"}]
                  [] cap = "apply" -> [draft |-> {"preview"}]
                  [] OTHER -> <<>>

\* bind_plan_references: a reference must name an earlier step of the right kind.
Binds(steps, k, r) ==
    \/ r.bound \/ r.slot \notin DOMAIN Binding(steps[k].cap)
    \/ /\ r.step \in 1..(k - 1)
       /\ steps[r.step].cap \in Binding(steps[k].cap)[r.slot]
Bindable(steps, tools) == \A k \in DOMAIN steps :
    steps[k].cap \in tools /\ \A r \in steps[k].refs : Binds(steps, k, r)
BoundSteps(steps) == [k \in DOMAIN steps |-> [steps[k] EXCEPT !.refs =
    {IF r.slot \in DOMAIN Binding(steps[k].cap) THEN [r EXCEPT !.bound = TRUE] ELSE r :
     r \in steps[k].refs}]]

\* unresolved_references: a "$steps" reference to anything but an earlier step.
Unresolved(steps) == \E k \in DOMAIN steps : \E r \in steps[k].refs :
    r.bound /\ r.step \notin 1..(k - 1)

\* has_references sees the strings that start with "$", so a reference that nothing
\* binds is an ordinary argument, and not one the schema of any capability knows.
HasReferences(step) == \E r \in step.refs : r.bound
Usable(step) == step.query # 0 /\ \A r \in step.refs : r.bound
\* _unusable_steps, PlanValidator: steps with references are not validated yet.
Unusable(steps) == \E k \in DOMAIN steps : ~ HasReferences(steps[k]) /\ ~ Usable(steps[k])

\* normalize_plan_dependencies.
DependsOn(steps, k) ==
    ((IF steps[k].after = Chain THEN {k - 1} \ {0} ELSE steps[k].after)
       \cup {r.step : r \in {q \in steps[k].refs : q.bound}}) \ {k}
Normalized(steps) == [k \in DOMAIN steps |-> [steps[k] EXCEPT !.after = DependsOn(steps, k)]]
Ordered(steps) == \A k \in DOMAIN steps : DependsOn(steps, k) \subseteq 1..(k - 1)

\* What _plan and _activate_replan demand of a plan, and the plan they store.
Acceptable(steps, tools) ==
    /\ Bindable(steps, tools)
    /\ Ordered(BoundSteps(steps))
    /\ ~ Unusable(BoundSteps(steps))
Stored(steps) == Normalized(BoundSteps(steps))

-----------------------------------------------------------------------------
(* The planners that follow rules.  Each answers with a plan or passes.      *)

Pass == [by |-> "nobody", steps |-> <<>>, mends |-> FALSE]
Rules(steps) == [by |-> "rules", steps |-> steps, mends |-> FALSE]
When(condition, made) == IF condition THEN made ELSE Pass
\* The first planner of the list that does not pass.
FirstOf(made) == made[CHOOSE i \in DOMAIN made :
    made[i].by # "nobody" /\ \A j \in 1..(i - 1) : made[j].by = "nobody"]

IsTask(t) == t.intent # "chitchat"
HasUpload(t) == t.file # "none"
Parsed(t) == t.file \in {"read", "cited"}       \* _attachment_excerpt
Cited(t) == t.file = "cited"                    \* and _attachment_referenced

\* resolve_evidence_sources
EvidenceSources(t) ==
    CASE t.judged # {} /\ ("attachment" \in t.judged \/ ~ Cited(t)) -> t.judged
      [] t.judged # {} -> {"attachment"}
      [] HasUpload(t) -> {"attachment", "knowledge"}
      [] OTHER -> {}

MemoryPlan(t, tools) == When(t.source = "chat" /\ t.cue = "memory" /\ "reply" \in tools,
                             Rules(<<Step("reply", {})>>))
WeeklyPlan(t, tools) == When(t.cue = "weekly" /\ "report" \in tools, Rules(<<Step("report", {})>>))
PersonPlan(tools) == When("person" \in tools, Rules(<<Step("person", {})>>))
OrganizationPlan(tools) ==
    When({"sources", "search", "answer"} \subseteq tools,
         Rules(<<Step("sources", {}), Step("search", {Ref("resources", 1)}),
                 Step("answer", {Ref("results", 2), Bound("coverage", 2)})>>))

\* build_knowledge_plan, for the three modes of classify_knowledge_question.
AnswerFrom(slot, k, tools) ==
    IF "answer" \in tools THEN <<Step("answer", {Ref(slot, k), Bound("coverage", k)})>> ELSE <<>>
KnowledgePlan(mode, s) ==
    LET content == IF s.treeFirst /\ "tree" \in s.tools THEN "tree" ELSE "search" IN
    CASE mode = "find" -> When("sources" \in s.tools,
              Rules(<<Step("sources", {})>> \o AnswerFrom("sources", 1, s.tools)))
      [] mode = "ask" -> When(content \in s.tools,
              Rules(<<Step(content, {})>> \o AnswerFrom("results", 1, s.tools)))
      [] mode = "ask within" -> When({"sources", "search"} \subseteq s.tools,
              Rules(<<Step("sources", {}), Step("search", {Ref("resources", 1)})>>
                    \o AnswerFrom("results", 2, s.tools)))
      [] OTHER -> Pass

Given(condition, step) == IF condition THEN <<step>> ELSE <<>>

\* build_compliance_plan: our own material, the outside text, and the comparison.
CompliancePlan(t, tools) ==
    LET judged == EvidenceSources(t)
        file == Parsed(t) /\ (judged = {} \/ "attachment" \in judged)
        ours == "search" \in tools /\ IF judged = {} THEN ~ file ELSE "knowledge" \in judged
        theirs == "web" \in tools /\ (t.url \/ t.wants = "compare")
        read == Given(ours, Step("search", {})) \o Given(theirs, Step("web", {}))
        refs == {Ref(IF read[k].cap = "web" THEN "evidence" ELSE "knowledge", k) :
                 k \in DOMAIN read}
    IN When("compose" \in tools /\ (ours \/ theirs),
            Rules(Append(read, WithFile(Step("compose", refs), file))))

AttachmentPlan(t, tools) ==
    LET ours == "knowledge" \in EvidenceSources(t) /\ "search" \in tools IN
    When("compose" \in tools /\ Parsed(t),
         Rules(Given(ours, Step("search", {}))
               \o <<WithFile(Step("compose", IF ours THEN {Ref("knowledge", 1)} ELSE {}), TRUE)>>))

FormPlan(t, tools) == When({"preview", "apply"} \subseteq tools /\ t.url,
    Rules(<<Step("preview", {}), Step("apply", {Ref("draft", 1)})>>))

\* _build_web_research_plan
WebPlan(t, tools) ==
    When(t.source = "chat" /\ t.intent = "web" /\ "web" \in tools /\ (t.url \/ t.wants # "nothing"),
         Rules(<<Step("web", {})>>
               \o Given("compose" \in tools /\ t.wants # "nothing",
                        Step("compose", {Ref("evidence", 1)}))))

\* DeterministicPlanner.create_plan: an answer from the attachment, at most one
\* to-do, a reply to small talk, or nothing to do.
DeterministicPlan(t, tools) ==
    LET document == IsTask(t) /\ t.intent \in {"knowledge", "compliance"} /\ Parsed(t) /\ "compose" \in tools
        todo == (t.intent = "todo" \/ (t.intent = "none" /\ t.cue = "action")) /\ "todo" \in tools
    IN Rules(CASE document -> <<WithFile(Step("compose", {}), TRUE)>>
               [] ~ document /\ todo -> <<Step("todo", {})>>
               [] ~ IsTask(t) /\ t.source = "chat" /\ "reply" \in tools -> <<Step("reply", {})>>
               [] OTHER -> <<>>)

ModelIntents == {"web", "knowledge", "person", "report", "form"}
Model == [by |-> "model", steps |-> <<>>, mends |-> FALSE]

\* RoutingPlanner.route: collected messages and attachments never reach the model.
AsksModel_AnySource(t) ==      \* mutant: the source of the message is not looked at
    "attachment" \notin EvidenceSources(t) /\ t.intent \in ModelIntents
AsksModel(t) == t.source # "event" /\ "attachment" \notin EvidenceSources(t) /\ t.intent \in ModelIntents

\* The planner under KnowledgeRoutingPlanner: RoutingPlanner, or the model.
Base(t, s) ==
    IF s.provider = "llm" THEN Model
    ELSE FirstOf(<<MemoryPlan(t, s.tools), WebPlan(t, s.tools),
                   IF AsksModel(t) THEN Model ELSE DeterministicPlan(t, s.tools)>>)

\* augment_personal_knowledge_sources: a question about the user's own affairs that
\* also reads the web gets a retrieval step in front, and the steps move up by one.
\* References by position move along; a reference that was already bound does not.
Moved_NotAtAll(refs) == refs      \* mutant
Moved(refs) == {IF r.bound THEN r ELSE [r EXCEPT !.step = @ + 1] : r \in refs}
MovedAfter(after) == after        \* depends_on is not rewritten
Augmented(steps, t, tools) ==
    LET caps == {steps[k].cap : k \in DOMAIN steps}
        first(cap, all) == CHOOSE k \in DOMAIN all :
            all[k].cap = cap /\ \A j \in 1..(k - 1) : all[j].cap # cap
        added == "search" \notin caps
        all == IF added
               THEN <<Step("search", {})>> \o [k \in DOMAIN steps |->
                        [steps[k] EXCEPT !.refs = Moved(@), !.after = MovedAfter(@)]]
               ELSE [steps EXCEPT ![first("search", steps)].query = 1]
    IN IF ~ (t.personal /\ t.url /\ "search" \in tools /\ {"web", "compose"} \subseteq caps)
       THEN steps
       ELSE [all EXCEPT ![first("compose", all)].refs =
               {r \in @ : r.slot # "knowledge"} \cup {Ref("knowledge", first("search", all))}]

\* The delegated plan is augmented, at once or when the model has answered.
Mended(made, t, tools) ==
    IF made.by = "model" THEN [made EXCEPT !.mends = TRUE]
    ELSE [made EXCEPT !.steps = Augmented(@, t, tools)]

ComparesDocuments(t) == HasUpload(t) /\ t.url /\ t.wants = "compare"
ActionTask(t) == t.intent = "none" /\ t.cue = "action"

\* KnowledgeRoutingPlanner.create_plan, in the order of its tests.
Routed(t, s) ==
    LET base == Base(t, s)
        mended == Mended(base, t, s.tools)
    IN FirstOf(<<
        MemoryPlan(t, s.tools),
        WeeklyPlan(t, s.tools),
        When(t.intent = "report" /\ "report" \in s.tools, base),
        When(t.intent = "web", mended),
        When(t.intent = "compliance" \/ ComparesDocuments(t), CompliancePlan(t, s.tools)),
        When("attachment" \in EvidenceSources(t), AttachmentPlan(t, s.tools)),
        When(ActionTask(t), mended),
        When(t.intent = "form", FormPlan(t, s.tools)),
        When(t.cue = "organization", OrganizationPlan(s.tools)),
        When(t.cue = "person", PersonPlan(s.tools)),
        When(t.intent = "person" /\ "person" \in s.tools, mended),
        KnowledgePlan(t.cue, s),
        mended>>)

-----------------------------------------------------------------------------
(* The loop.                                                                 *)

IsModel == setup.provider = "llm"       \* the planner's name decides what is charged
MaySpend == ~ IsModel \/ task.calls + 2 <= MaxModelCalls
\* _reserve_model_calls: last_call_count is that of the last call, one or two.
Charged(row) == IF IsModel THEN {[row EXCEPT !.calls = @ + n] : n \in 1..2} ELSE {row}

Init ==
    /\ turn \in Turns
    /\ setup \in Setups
    /\ pc = "plan"
    /\ task = [status |-> "planning", calls |-> 0, replans |-> 0, version |-> 0]
    /\ plan = Pass
    /\ draft = <<>>
    /\ obs = <<>>

Latest == IF obs = <<>> THEN [cap |-> "none", outcome |-> "none"] ELSE Last(obs)
Pending == {k \in DOMAIN plan.steps : plan.steps[k].status \in {"pending", "ready"}}
Finished == \A k \in DOMAIN plan.steps : plan.steps[k].status \in {"succeeded", "skipped"}
Goto(l) == pc' = l
End(status) == pc' = "end" /\ task' = [task EXCEPT !.status = status]
Fail == End(IF Latest.outcome = "unknown" THEN "unknown" ELSE "failed")

\* _plan: a plan by rules is bound, checked and stored; a failure ends the task.
Plan ==
    /\ pc = "plan"
    /\ LET made == Routed(turn, setup) IN
       IF ~ MaySpend THEN End("failed") /\ UNCHANGED <<plan, draft>>
       ELSE IF made.by = "model" THEN plan' = made /\ Goto("draft") /\ UNCHANGED <<task, draft>>
       ELSE IF ~ Acceptable(made.steps, setup.tools) THEN End("failed") /\ UNCHANGED <<plan, draft>>
       ELSE /\ plan' = [made EXCEPT !.steps = Stored(@)]
            /\ task' \in Charged([task EXCEPT !.status = "ready", !.version = 1])
            /\ Goto("drive") /\ UNCHANGED draft
    /\ UNCHANGED <<turn, setup, obs>>

\* _call: no answer, or two answers outside the schema.
NoDraft ==
    /\ pc \in {"draft", "repair", "reask"}
    /\ End("failed")
    /\ UNCHANGED <<turn, setup, plan, draft, obs>>

\* A draft cannot be bound, has arguments no capability takes, or refers to something
\* that will never be there.
Broken(d) == ~ Bindable(d, setup.tools)
Invalid(d) == Broken(d) \/ Unusable(BoundSteps(d))
Dangling(d) == ~ Broken(d) /\ Unresolved(BoundSteps(d))
Handed(d) == draft' = BoundSteps(d) /\ UNCHANGED <<turn, setup, plan, obs>>
Repaired(d) == Goto(IF Dangling(d) THEN "reask" ELSE "activate") /\ UNCHANGED task

\* OpenAICompatiblePlanner.create_plan.
Draft(d) ==
    /\ pc = "draft"
    /\ IF Invalid(d) THEN Goto("repair") /\ UNCHANGED task ELSE Repaired(d)
    /\ Handed(d)

\* _repair_plan: one more answer for steps that cannot be bound or validated.
RepairPlan(d) ==
    /\ pc = "repair"
    /\ IF Invalid(d) THEN End("failed") ELSE Repaired(d)
    /\ Handed(d)

\* _repair_unresolved_references: one more for references that lead nowhere; the answer
\* is bound, but its arguments are not validated again.
RepairUnresolvedReferences(d) ==
    /\ pc = "reask"
    /\ IF Broken(d) \/ Dangling(d) THEN End("failed") ELSE Goto("activate") /\ UNCHANGED task
    /\ Handed(d)

\* The model's plan comes back to _plan through KnowledgeRoutingPlanner.
Activate ==
    /\ pc = "activate"
    /\ LET steps == IF plan.mends THEN Augmented(draft, turn, setup.tools) ELSE draft IN
       IF Acceptable(steps, setup.tools)
       THEN /\ plan' = [plan EXCEPT !.steps = Stored(steps)]
            /\ task' \in Charged([task EXCEPT !.status = "ready", !.version = 1])
            /\ Goto("drive")
       ELSE End("failed") /\ UNCHANGED plan
    /\ draft' = <<>>
    /\ UNCHANGED <<turn, setup, obs>>

-----------------------------------------------------------------------------
(* Running a step.                                                           *)

\* resume_step, or the first of ready_steps when steps may run in parallel.
IsReady(k) == k \in Pending /\ \A d \in plan.steps[k].after : plan.steps[d].status = "succeeded"
Ready == {k \in Pending : IsReady(k)}
Candidates == IF setup.parallel THEN Ready ELSE Pending
Least(ks) == CHOOSE k \in ks : \A j \in ks : k <= j

\* resolve_arguments reads the succeeded observation of the step that is named.
Answers(k) == {i \in DOMAIN obs : obs[i].version = task.version /\ obs[i].step = k
                                  /\ obs[i].outcome \in {"succeeded", "asks"}}
Resolvable_Any(step) == TRUE      \* mutant: an output that is missing is left out
Resolvable(step) == \A r \in step.refs : r.bound =>
    Answers(r.step) # {} /\ \A i \in Answers(r.step) :
        (\A j \in Answers(r.step) : j <= i) => obs[i].outcome = "succeeded"

\* An observation: which call, whether its arguments were concrete, what it was fed.
Seen(k, outcome) ==
    LET step == plan.steps[k] IN
    [version |-> task.version, step |-> k, cap |-> step.cap, query |-> step.query,
     concrete |-> step.refs = {}, fed |-> {r.step : r \in {q \in step.refs : q.bound}},
     file |-> step.file, outcome |-> outcome]

\* _repeated_capability_run
Run(cap) == Cardinality({i \in DOMAIN obs : \A j \in i..Len(obs) : obs[j].cap = cap})

Driving == pc = "drive" /\ Len(obs) < MaxTurnsOfLoop
Marked(k, status) == plan' = [plan EXCEPT !.steps[k].status = status]

\* The time limit or the loop guard.
OutOfTime ==
    /\ pc = "drive"
    /\ End("failed")
    /\ UNCHANGED <<turn, setup, plan, draft, obs>>

\* A reference with no output to read, or arguments the schema refuses: the planner
\* gets to see an observation.
Refused ==
    /\ Driving
    /\ Candidates # {}
    /\ LET k == Least(Candidates) IN
       \/ /\ ~ Resolvable(plan.steps[k])
          /\ obs' = Append(obs, Seen(k, "asks"))
          /\ UNCHANGED plan
       \/ /\ Resolvable(plan.steps[k]) /\ ~ Usable(plan.steps[k])
          /\ obs' = Append(obs, Seen(k, "refused"))
          /\ Marked(k, "failed")
    /\ Goto("decide")
    /\ UNCHANGED <<turn, setup, task, draft>>

\* What calling the capability may come to.
Results(cap) == {"succeeded", "failed", "retryable"}
    \cup (IF cap \in Writes THEN {"unknown"} ELSE {})
    \cup (IF cap \in {"preview", "apply"} THEN {"asks"} ELSE {})
    \cup (IF cap = "web" /\ turn.url THEN {"unreadable"} ELSE {})
StatusAfter(outcome) == CASE outcome \in {"succeeded", "unknown"} -> outcome
                          [] outcome = "asks" -> "ready"
                          [] OTHER -> "failed"

\* _execute_step.  A transient failure walks the same step again while attempts last.
Execute ==
    /\ Driving
    /\ Candidates # {}
    /\ LET k == Least(Candidates)
           step == plan.steps[k]
           attempt == step.attempts + 1
       IN /\ Resolvable(step) /\ Usable(step)
          /\ IF attempt > MaxAttempts \/ (task.replans > 0 /\ Run(step.cap) >= MaxSame)
             THEN Fail /\ UNCHANGED <<plan, obs>>
             ELSE \E outcome \in Results(step.cap) :
                     LET again == outcome = "retryable" /\ attempt < MaxAttempts IN
                     /\ plan' = [plan EXCEPT !.steps[k].attempts = attempt, !.steps[k].status =
                                    IF again THEN "ready" ELSE StatusAfter(outcome)]
                     /\ obs' = IF again THEN Append(obs, Seen(k, "retryable"))
                               ELSE Append(obs, Seen(k, outcome))
                     /\ Goto(IF again THEN "drive" ELSE "decide")
                     /\ UNCHANGED task
    /\ UNCHANGED <<turn, setup, draft>>

\* _run_parallel_batch: several ready reads at once, each with its arguments as they
\* are written in the plan.  Their observations are saved in the order of the plan.
Batch ==
    /\ Driving /\ setup.parallel
    /\ \A k \in Ready : plan.steps[k].cap \notin Writes
    /\ LET chosen == {k \in Ready : Cardinality({j \in Ready : j < k}) < Concurrency}
           order == SetToSortSeq(chosen, LAMBDA a, b : a < b)
       IN /\ Cardinality(chosen) > 1
          /\ \A k \in chosen : plan.steps[k].attempts < MaxAttempts /\ Run(plan.steps[k].cap) < MaxSame
          /\ \E outcome \in [chosen -> {"succeeded", "failed"}] :
                /\ \A k \in chosen : plan.steps[k].refs # {} \/ ~ Usable(plan.steps[k])
                                     => outcome[k] = "failed"
                /\ plan' = [plan EXCEPT !.steps = [k \in DOMAIN plan.steps |->
                      IF k \in chosen THEN [plan.steps[k] EXCEPT !.attempts = @ + 1,
                                               !.status = StatusAfter(outcome[k])]
                      ELSE plan.steps[k]]]
                /\ obs' = obs \o [i \in DOMAIN order |-> Seen(order[i], outcome[order[i]])]
    /\ Goto("decide")
    /\ UNCHANGED <<turn, setup, task, draft>>

-----------------------------------------------------------------------------
(* Deciding what an observation means.                                       *)

\* _web_answer_quality_error: what the web was searched for may come out uncited.
Ran(cap) == \E k \in DOMAIN plan.steps : plan.steps[k].cap = cap /\ plan.steps[k].status = "succeeded"
MayBeUncited == Ran("web") /\ Ran("compose")

\* _complete: an unfinished write blocks; unfinished reads are closed out.
Complete ==
    LET open == Pending
    IN IF \E k \in open : plan.steps[k].cap \in Writes THEN End("failed") /\ UNCHANGED plan
       ELSE /\ plan' = [plan EXCEPT !.steps = [k \in DOMAIN plan.steps |->
                  IF k \in open THEN [plan.steps[k] EXCEPT !.status = "skipped"] ELSE plan.steps[k]]]
            /\ \/ End("succeeded")
               \/ MayBeUncited /\ End("failed")

Continue == IF Pending # {} THEN Goto("drive") /\ UNCHANGED <<plan, task>>
            ELSE IF Finished THEN Complete ELSE Fail /\ UNCHANGED plan
\* _pause_for_input
AskOwner == End("waiting") /\ UNCHANGED plan

\* _fast_planner_shortcut
FastPairs == {<<"web", "compose">>, <<"sources", "search">>, <<"search", "answer">>,
              <<"sources", "answer">>, <<"preview", "apply">>}
ShortcutDone == Latest.outcome = "succeeded" /\ Pending = {} /\ Latest.cap \in {"compose", "answer", "reply"}
ShortcutNext == Latest.outcome = "succeeded" /\ Pending # {}
                /\ <<Latest.cap, plan.steps[Least(Pending)].cap>> \in FastPairs

Caps == {plan.steps[k].cap : k \in DOMAIN plan.steps}
\* _is_knowledge_plan, _is_composite_source_plan, is_conversation_memory_plan
IsKnowledgePlan == plan.steps # <<>>
    /\ Caps \subseteq {"sources", "search", "answer", "person", "report", "compose"}
IsComposite == {"search", "web", "compose"} \subseteq Caps
IsMemoryPlan == turn.cue = "memory" /\ Caps = {"reply"}

\* A page that the owner named cannot be read: nothing else answers the question.
ExplicitUrlFailure == Latest.outcome = "unreadable"
\* decide_conversation_memory_plan
DecideMemory == IF Latest.outcome = "succeeded" THEN Complete ELSE Fail /\ UNCHANGED plan

\* DeterministicPlanner.decide_after_observation
DecideByRules ==
    CASE Latest.outcome \notin {"succeeded", "asks", "none"} -> Fail /\ UNCHANGED plan
      [] Latest.outcome = "asks" -> AskOwner
      [] Pending # {} /\ Latest.outcome # "asks" -> Continue
      [] OTHER -> Complete

\* _form_flow_decision: after a draft the write, after the write nothing.
FormNext == Latest = [Latest EXCEPT !.cap = "preview", !.outcome = "succeeded"]
            /\ \E k \in Pending : plan.steps[k].cap = "apply"
FormDone == Latest = [Latest EXCEPT !.cap = "apply", !.outcome = "succeeded"] /\ Pending = {}

\* _decide_and_apply up to the planner's answer.
Decide ==
    /\ pc = "decide"
    /\ CASE ShortcutNext -> Goto("drive") /\ UNCHANGED <<plan, task>>
         [] ExplicitUrlFailure -> End("failed") /\ UNCHANGED plan
         [] ShortcutDone -> Complete
         [] OTHER ->
              IF ~ MaySpend THEN End("failed") /\ UNCHANGED plan
              ELSE IF IsMemoryPlan THEN DecideMemory
              ELSE IF IsKnowledgePlan
              THEN IF Latest.outcome \notin {"succeeded", "asks"} THEN Fail /\ UNCHANGED plan
                   ELSE IF Pending # {} THEN Continue ELSE Complete
              ELSE IF Latest.outcome \in {"succeeded", "asks"} /\ IsComposite /\ Pending # {}
              THEN Continue
              ELSE IF ~ IsModel /\ ~ AsksModel(turn) THEN DecideByRules
              ELSE IF FormNext THEN Continue
              ELSE IF FormDone THEN Complete
              ELSE Goto("decision") /\ UNCHANGED <<plan, task>>
    /\ UNCHANGED <<turn, setup, draft, obs>>

\* No step is left, or none is ready: a planner that is not a model is not asked.
NoStepLeft ==
    /\ Driving
    /\ Candidates = {}
    /\ IF plan.steps # <<>> /\ ~ IsModel THEN Complete ELSE Goto("decide") /\ UNCHANGED <<plan, task>>
    /\ UNCHANGED <<turn, setup, draft, obs>>

\* The planner could not be reached: finished work is kept.
NoDecision ==
    /\ pc \in {"decision", "redecide"}
    /\ IF Finished /\ plan.steps # <<>> THEN Complete ELSE End("failed") /\ UNCHANGED plan
    /\ UNCHANGED <<turn, setup, draft, obs>>

\* A decision without a new plan.
Verdict ==
    /\ pc \in {"decision", "redecide"}
    /\ task.status = "ready"
    /\ \/ Continue
       \/ AskOwner
       \/ Complete
       \/ Fail /\ UNCHANGED plan
    /\ UNCHANGED <<turn, setup, draft, obs>>

\* _repeated_call: the calls of the replaced plan that a new one may not issue again.
\* A transient failure, and one of validation, may be tried again.
Settled(i) == obs[i].outcome \in {"succeeded", "failed", "unknown", "unreadable"}
Repeats_Successes(steps) ==     \* mutant: only a call that succeeded counts
    \E i \in DOMAIN obs : \E k \in DOMAIN steps :
        obs[i].version = task.version /\ obs[i].concrete /\ obs[i].outcome = "succeeded"
        /\ steps[k].refs = {} /\ steps[k].cap = obs[i].cap /\ steps[k].query = obs[i].query
Repeats(steps) ==
    \E i \in DOMAIN obs : \E k \in DOMAIN steps :
        obs[i].version = task.version /\ obs[i].concrete /\ Settled(i)
        /\ steps[k].refs = {} /\ steps[k].cap = obs[i].cap /\ steps[k].query = obs[i].query

\* Attempts move to the step at the same place of the new plan.
Inherited(steps) == [k \in DOMAIN steps |->
    IF k \in DOMAIN plan.steps /\ plan.steps[k].status # "succeeded" /\ plan.steps[k].attempts > 0
    THEN [steps[k] EXCEPT !.attempts = plan.steps[k].attempts, !.status = "ready"]
    ELSE steps[k]]

\* decide_after_observation with steps, and _activate_replan: a plan that cannot be
\* run is asked for again once, and then ignored if the current plan can go on.
Replan ==
    /\ pc \in {"decision", "redecide"}
    /\ \E d \in Drafts :
          IF Acceptable(d, setup.tools) /\ ~ Unresolved(BoundSteps(d))
          THEN IF \/ Latest.outcome = "unknown"
                  \/ task.replans >= MaxReplans
                  \/ Repeats(d)
               THEN Fail /\ UNCHANGED plan
               ELSE /\ plan' = [by |-> "model", steps |-> Inherited(Stored(d)), mends |-> FALSE]
                    /\ task' \in Charged([task EXCEPT !.replans = @ + 1, !.version = @ + 1])
                    /\ Goto("drive")
          ELSE IF pc = "decision" THEN Goto("redecide") /\ UNCHANGED <<plan, task>>
          ELSE IF Pending # {} THEN Goto("drive") /\ UNCHANGED <<plan, task>>
          ELSE End("failed") /\ UNCHANGED plan
    /\ UNCHANGED <<turn, setup, draft, obs>>

\* submit_input: the owner answers, and the task is driven again.
OwnerAnswers ==
    /\ pc = "end" /\ task.status = "waiting"
    /\ Goto("drive")
    /\ task' = [task EXCEPT !.status = "ready"]
    /\ UNCHANGED <<turn, setup, plan, draft, obs>>

Next == \/ Plan \/ NoDraft \/ Activate
        \/ \E d \in Drafts : Draft(d) \/ RepairPlan(d) \/ RepairUnresolvedReferences(d)
        \/ OutOfTime \/ Refused \/ Execute \/ Batch \/ NoStepLeft
        \/ Decide \/ NoDecision \/ Verdict \/ Replan \/ OwnerAnswers

Done == pc = "end" /\ task.status \in Terminal

-----------------------------------------------------------------------------
(* Properties.                                                               *)

\* One task with its plan and its observations.
TypeOK ==
    /\ turn \in Turns /\ setup \in Setups
    /\ pc \in {"plan", "draft", "repair", "reask", "activate", "drive", "decide",
               "decision", "redecide", "end"}
    /\ task.status \in {"planning", "ready", "waiting"} \cup Terminal
    /\ task.replans \in 0..MaxReplans /\ task.calls \in 0..(MaxModelCalls + 2)
    /\ \A i \in DOMAIN obs : obs[i].outcome \in Outcomes /\ obs[i].fed \subseteq 1..(obs[i].step - 1)
    /\ \A k \in DOMAIN plan.steps : plan.steps[k].attempts \in 0..MaxAttempts

\* An answer that follows the rules is composed from everything its plan collected:
\* each source step of the plan, also the one that augmentation put in front, is among
\* the steps the answer was fed, directly or through the search it narrowed.
EverySourceCounts ==
    \A i \in DOMAIN obs :
        plan.by = "rules" /\ obs[i].version = task.version /\ obs[i].cap = "compose"
        /\ obs[i].outcome = "succeeded"
        => \A k \in 1..(obs[i].step - 1) : plan.steps[k].cap \in Sources =>
              k \in obs[i].fed
\* No call is fed by anything but a step of its plan that has succeeded before.
FedByResults ==
    \A i \in DOMAIN obs : obs[i].outcome = "succeeded" =>
        \A k \in obs[i].fed : \E j \in 1..(i - 1) :
            obs[j].version = obs[i].version /\ obs[j].step = k /\ obs[j].outcome = "succeeded"
\* A new plan does not issue again what the plan before it has settled: what succeeded,
\* failed for good, or may have happened.
NothingReissued ==
    \A i, j \in DOMAIN obs :
        i < j /\ obs[j].version = obs[i].version + 1 /\ obs[i].concrete /\ obs[j].concrete
        /\ Settled(i) => <<obs[i].cap, obs[i].query>> # <<obs[j].cap, obs[j].query>>
\* An external result that is unknown ends re-planning.
UnknownIsFinal == \A i \in DOMAIN obs : obs[i].outcome = "unknown" => obs[i].version = task.version
\* What was collected, and not typed by the user, is never planned by the model.
CollectedByRules ==
    turn.source = "event" /\ setup.provider = "routing" => plan.by # "model" /\ draft = <<>>
\* A plan that rules wrote is one the loop accepts, whatever tools are installed and
\* whatever augmentation did to it: no message fails before its first step.
RulesAreRunnable == ~ (pc = "end" /\ setup.provider = "routing" /\ plan.by = "nobody")

Planned == RulesAreRunnable /\ EverySourceCounts /\ FedByResults /\ NothingReissued /\ UnknownIsFinal /\ CollectedByRules
=============================================================================
