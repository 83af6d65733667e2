--------------------------- MODULE Understanding ---------------------------
(****************************************************************************)
(* What a message is about: a classifier (Laya beside the agent or Jev in   *)
(* the cloud) decides what it is sure of and a language model the rest,     *)
(* before the task is planned.  One provider object serves every thread of  *)
(* the process, and what it says of its last call is read from it later.    *)
(*                                                                          *)
(* Confidences are 0..Sure.  A reply is a record [label, conf, probs,       *)
(* focus, sources, sure]: the label that was chosen, the confidence of the  *)
(* answer, the distribution (label -> probability), the two questions about *)
(* the subject ([kind, kc, about, ac], or NoFocus) and the question about   *)
(* the sources of evidence, with its confidence.                            *)
(****************************************************************************)
EXTENDS Naturals, Sequences, FiniteSets, SequencesExt, FiniteSetsExt

CONSTANTS
    Task,           \* tasks, each driven by a thread of its own
    Setups,         \* [mode, primary, message]: message is a function of the task
    Replies,        \* what the classifier may answer
    Drafts,         \* what the model may answer: [task, intents]; intents is a sequence of [name, conf]
    Available,      \* the intents that some registered capability can execute
    MinConfidence, RuntimeMin,   \* of the classifier; and by the kind of message: "chat", "collected"
    MinMargin, FocusMin, EvidenceMin, Sure,
    MaxModelCalls,
    Before,         \* calls that a task is charged for already
    Attempts,       \* attempts of the provider (2)
    MaxFaults

Business == {"todo.create", "person.query", "knowledge.answer"}
Boundary == {"other_task", "non_task"}

VARIABLES
    setup,
    pc,         \* task -> "idle", "primary", "model", "repair", "charge", "store", "planned", "failed"
    attempt,    \* task -> the attempt of the provider that runs
    held,       \* task -> what its thread holds: the verdict of the classifier, or the result
    stored,     \* task -> the understanding in its row, or Nothing
    charged,    \* task -> model_call_count
    last,       \* the provider object: last_call_count of "hybrid", "primary", "llm"
    asked,      \* task -> calls made for it by the attempt that counts (history)
    mixed,      \* tasks that another one called the provider in between (history)
    verdict,    \* task -> the last verdict of the classifier (history)
    faults

vars == <<setup, pc, attempt, held, stored, charged, last, asked, mixed, verdict, faults>>

Nothing == [is |-> "nothing"]
NoFocus == [kind |-> "unasked", kc |-> 0, about |-> "other", ac |-> 0]
Understood(task, intents, conf, sources, by) ==
    [is |-> "understanding", task |-> task, intents |-> intents, conf |-> conf, sources |-> sources, by |-> by]

Init ==
    /\ setup \in Setups
    /\ pc = [t \in Task |-> "idle"] /\ attempt = [t \in Task |-> 0]
    /\ held = [t \in Task |-> Nothing] /\ stored = [t \in Task |-> Nothing]
    /\ charged = [t \in Task |-> Before] /\ last = [p \in {"hybrid", "primary", "llm"} |-> 0]
    /\ asked = [t \in Task |-> 0] /\ mixed = {}
    /\ verdict = [t \in Task |-> Nothing] /\ faults = 0

-----------------------------------------------------------------------------
(* The classifier.                                                           *)

Msg(t) == setup.message[t]
Jev == setup.primary = "jev"
MinOf(t) == RuntimeMin[Msg(t).from]
Threshold(t) == Max({MinConfidence, MinOf(t)})

\* The second largest probability, whichever label has it.
Second(probs) ==
    LET ls == SetToSortSeq(DOMAIN probs, LAMBDA a, b : probs[a] > probs[b])
    IN IF Len(ls) > 1 THEN probs[ls[2]] ELSE 0
Margin(r) == IF r.conf > Second(r.probs) THEN r.conf - Second(r.probs) ELSE 0

\* parse_subject_focus: only Jev is asked, and what it does not answer is not judged.
Focus(r) == IF Jev THEN r.focus ELSE NoFocus

\* combine_intent: the shape of the subject decides between a person and the knowledge base.
Decided(intent, conf) == [intent |-> intent, conf |-> conf]
Combined(r) ==
    LET f == Focus(r)
        With(label, c) == IF r.label = label THEN Max({c, r.conf}) ELSE c
        person == f.kind = "person" /\ f.kc >= FocusMin
    IN CASE f.kind = "organization" /\ f.kc >= FocusMin -> {Decided("knowledge.answer", With("knowledge.answer", f.kc))}
         [] person /\ f.ac >= FocusMin /\ f.about = "person_self" -> {Decided("person.query", With("person.query", Max({f.kc, f.ac})))}
         [] person /\ f.ac >= FocusMin /\ f.about = "work_object" -> {Decided("knowledge.answer", With("knowledge.answer", Max({f.kc, f.ac})))}
         [] f.kind = "none" /\ f.about = "general_knowledge" /\ f.ac >= FocusMin -> {Decided("knowledge.answer", f.ac)}
         [] person /\ r.label = "person.query" -> {Decided("person.query", Max({r.conf, f.kc}))}
         [] OTHER -> {}

\* _resolve_evidence_plan: the sources that were judged, with more than half a mind.
Sources(r) == IF Jev /\ r.sure >= EvidenceMin THEN r.sources ELSE {}

\* A label outside the boundary stands if it passes both gates.
Gated_Low(t, r) == r.conf >= MinConfidence                \* mutant
Gated(t, r) == r.conf >= Threshold(t) /\ Margin(r) >= MinMargin
Competing(t, r) == Cardinality({l \in Business \cap DOMAIN r.probs : r.probs[l] >= Threshold(t)}) > 1

\* evaluate: what it makes of a reply, and whether that is accepted.
Evaluated(t, r) ==
    LET combined == Combined(r)
        One(i, c) == <<[name |-> i, conf |-> c]>>
    IN IF combined # {} /\ ~ (r.label \notin {"person.query", "knowledge.answer"} /\ Gated(t, r))
       THEN LET c == CHOOSE d \in combined : TRUE
            IN [ok |-> TRUE, u |-> Understood(TRUE, One(c.intent, c.conf), c.conf, Sources(r), "focus")]
       ELSE IF ~ Gated(t, r) \/ (r.label \in Business /\ Competing(t, r))
       THEN [ok |-> FALSE, u |-> Understood(TRUE, <<>>, r.conf, Sources(r), "uncertain")]
       ELSE [ok |-> TRUE, u |-> Understood(r.label # "non_task", IF r.label \in Business THEN One(r.label, r.conf) ELSE <<>>,
                                            r.conf, Sources(r), "label")]
Empty == [ok |-> TRUE, u |-> Understood(FALSE, <<>>, Sure, {}, "empty")]

-----------------------------------------------------------------------------
(* The thread of a task.                                                     *)

\* Whoever calls the provider while another is between its calls and its count.
Others(t) == {u \in Task \ {t} : pc[u] \in {"primary", "model", "repair", "charge"}}
Mixes(t) == mixed' = mixed \cup Others(t) \cup (IF Others(t) = {} THEN {} ELSE {t})
Calls(t) == asked' = [asked EXCEPT ![t] = @ + 1]
CanSpend(t, n) == charged[t] + n <= MaxModelCalls
To(t, where) == pc' = [pc EXCEPT ![t] = where]
Fault == faults < MaxFaults /\ faults' = faults + 1
NoFault == UNCHANGED faults

\* An attachment that the message points at goes to the model, unless the classifier judges sources.
Shortcut(t) == ~ Jev /\ Msg(t).attached /\ Msg(t).points

Ask(t, n) ==
    /\ attempt' = [attempt EXCEPT ![t] = n]
    /\ last' = [last EXCEPT !.hybrid = 0, !.primary = IF Shortcut(t) THEN @ ELSE 0]
    /\ held' = [held EXCEPT ![t] = Nothing]
    /\ asked' = [asked EXCEPT ![t] = 0]
    /\ verdict' = [verdict EXCEPT ![t] = Nothing]
    /\ Mixes(t)
    /\ To(t, IF Shortcut(t) THEN "model" ELSE "primary")

\* _prepare_understanding: nothing is asked in mode "off", nor again where the row has an
\* answer; without the budget for one call the task fails, or goes on in shadow mode.
Prepare(t) ==
    /\ pc[t] = "idle"
    /\ \/ /\ setup.mode = "off" \/ (setup.mode = "enforce" /\ stored[t] # Nothing) \/ (setup.mode = "shadow" /\ ~ CanSpend(t, 1))
          /\ To(t, "planned") /\ UNCHANGED <<attempt, last, held, asked, mixed, verdict>>
       \/ /\ setup.mode = "enforce" /\ stored[t] = Nothing /\ ~ CanSpend(t, 1)
          /\ To(t, "failed") /\ UNCHANGED <<attempt, last, held, asked, mixed, verdict>>
       \/ /\ setup.mode # "off" /\ stored[t] = Nothing /\ CanSpend(t, 1)
          /\ Ask(t, 1)
    /\ UNCHANGED <<setup, stored, charged>> /\ NoFault

\* The classifier is asked, unless there is no text; what it cannot decide and what it
\* cannot answer is for the model.
Classify(t) ==
    /\ pc[t] = "primary"
    /\ IF Msg(t).empty
       THEN /\ held' = [held EXCEPT ![t] = Empty.u] /\ To(t, "charge")
            /\ last' = [last EXCEPT !.hybrid = 0] /\ UNCHANGED <<asked, verdict>> /\ NoFault
       ELSE /\ Calls(t)
            /\ last' = [last EXCEPT !.primary = 1, !.hybrid = 1]
            /\ \/ \E r \in Replies : LET e == Evaluated(t, r) IN
                    /\ held' = [held EXCEPT ![t] = e.u] /\ verdict' = [verdict EXCEPT ![t] = r]
                    /\ To(t, IF e.ok THEN "charge" ELSE "model")
                    /\ NoFault
               \/ Fault /\ To(t, "model") /\ UNCHANGED <<held, verdict>>
    /\ Mixes(t)
    /\ UNCHANGED <<setup, attempt, stored, charged>>

\* _call_understanding_provider_with_retry: once more, after a failure of the transport.
Raise(t, retryable) ==
    IF retryable /\ attempt[t] < Attempts
    THEN Ask(t, attempt[t] + 1)
    ELSE /\ To(t, IF setup.mode = "shadow" THEN "planned" ELSE "failed")
         /\ UNCHANGED <<attempt, last, held, asked, mixed, verdict>>

\* A draft that parses loses the candidates that are too weak or cannot be executed.
Parsed(t, d) == SelectSeq(d.intents, LAMBDA i : i.conf >= MinOf(t) /\ i.name \in Available)
Valid(d) == (~ d.task => d.intents = <<>>) /\ \A i \in DOMAIN d.intents : d.intents[i].name \in Business

\* The model has no question about sources: those that the classifier judged stay.
Merged_Dropped(t, d) == Understood(d.task, Parsed(t, d), Sure, {}, "model")          \* mutant
Merged(t, d) == Understood(d.task, Parsed(t, d), Sure, IF held[t] = Nothing THEN {} ELSE held[t].sources, "model")

\* One call of the model, and a second to repair a draft that is not valid.
Answer(t, count) ==
    /\ last' = [last EXCEPT !.llm = count, !.hybrid = (IF Shortcut(t) THEN 0 ELSE @) + count]
    /\ To(t, "charge")
    /\ \E d \in {x \in Drafts : Valid(x)} : held' = [held EXCEPT ![t] = Merged(t, d)]
    /\ Calls(t) /\ Mixes(t)
    /\ UNCHANGED <<attempt, verdict>>
Model(t) ==
    /\ pc[t] \in {"model", "repair"}
    /\ LET first == pc[t] = "model" IN
       \/ Answer(t, IF first THEN 1 ELSE last.llm + 1) /\ NoFault
       \/ /\ first /\ \E d \in Drafts : ~ Valid(d)
          /\ last' = [last EXCEPT !.llm = 1]
          /\ To(t, "repair") /\ Calls(t) /\ Mixes(t)
          /\ UNCHANGED <<attempt, held, verdict>> /\ NoFault
       \/ ~ first /\ (\E d \in Drafts : ~ Valid(d)) /\ Raise(t, FALSE) /\ NoFault
       \/ Fault /\ \E retryable \in BOOLEAN : Raise(t, retryable)
    /\ UNCHANGED <<setup, stored, charged>>

\* What the provider says it spent is read from it now, by whoever asked last.
Spent_Estimate(t) == 1                                   \* mutant
Spent(t) == last.hybrid
Charge(t) ==
    /\ pc[t] = "charge"
    /\ IF CanSpend(t, Spent(t))
       THEN /\ charged' = [charged EXCEPT ![t] = @ + Spent(t)]
            /\ To(t, IF setup.mode = "shadow" THEN "planned" ELSE "store")
       ELSE /\ To(t, "failed") /\ UNCHANGED charged
    /\ held' = [held EXCEPT ![t] = IF pc'[t] = "store" THEN @ ELSE Nothing]
    /\ UNCHANGED <<setup, attempt, stored, last, asked, mixed, verdict>> /\ NoFault

Store(t) ==
    /\ pc[t] = "store"
    /\ stored' = [stored EXCEPT ![t] = held[t]]
    /\ held' = [held EXCEPT ![t] = Nothing]
    /\ To(t, "planned")
    /\ UNCHANGED <<setup, attempt, charged, last, asked, mixed, verdict>> /\ NoFault

\* The worker dies; the task is taken over and prepared again, as it is before a plan is stored.
Crash(t) ==
    /\ pc[t] \notin {"idle", "failed"}
    /\ Fault
    /\ To(t, "idle")
    /\ held' = [held EXCEPT ![t] = Nothing]
    /\ UNCHANGED <<setup, attempt, stored, charged, last, asked, mixed, verdict>>

Next == \E t \in Task : Prepare(t) \/ Classify(t) \/ Model(t) \/ Charge(t) \/ Store(t) \/ Crash(t)

-----------------------------------------------------------------------------
\* Every variable holds what the threads, the provider and the rows can hold.
TypeOK ==
    /\ setup \in Setups
    /\ pc \in [Task -> {"idle", "primary", "model", "repair", "charge", "store", "planned", "failed"}]
    /\ attempt \in [Task -> 0..Attempts]
    /\ charged \in [Task -> 0..MaxModelCalls]
    /\ \A p \in DOMAIN last : last[p] \in 0..(MaxModelCalls + 3)
    /\ mixed \subseteq Task /\ faults \in 0..MaxFaults

\* A message is put away as no task only if it is empty, if the model says so, or if the
\* classifier is sure by both of its gates: "an uncertain non_task must not silently drop
\* a possible task" (laya.py, _uncertain).
NotDropped == \A t \in Task :
    stored[t] # Nothing /\ ~ stored[t].task =>
        \/ Msg(t).empty \/ stored[t].by = "model"
        \/ verdict[t] # Nothing /\ verdict[t].label = "non_task"
             /\ verdict[t].conf >= Threshold(t) /\ Margin(verdict[t]) >= MinMargin

\* "An intent fallback must not throw that verdict away" (hybrid.py): the sources that the
\* classifier judged reach the planner, whoever decided the intent.
SourcesKept == \A t \in Task :
    pc[t] \in {"charge", "store"} /\ verdict[t] # Nothing => held[t].sources = Sources(verdict[t])

\* The planner sees no intent below the threshold of the kind of message, and none from the
\* model that nothing can execute; what the shape of the subject decided has a bar of its own.
NoWeakGuess == \A t \in Task : stored[t] # Nothing => \A i \in DOMAIN stored[t].intents :
    LET c == stored[t].intents[i] IN
    /\ c.conf >= IF stored[t].by = "focus" THEN FocusMin ELSE MinOf(t)
    /\ stored[t].by = "model" => c.name \in Available

\* The task is charged exactly the calls of the attempt that counts, the fallback and the
\* repair included, if no other thread called the provider meanwhile; and no task is charged
\* beyond its budget.
ChargedAsAsked == \A t \in Task :
    /\ charged[t] <= MaxModelCalls
    /\ pc[t] = "charge" /\ t \notin mixed => Spent(t) = asked[t]

UnderstoodOK == NotDropped /\ SourcesKept /\ NoWeakGuess /\ ChargedAsAsked
=============================================================================
