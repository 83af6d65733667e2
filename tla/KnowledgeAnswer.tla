-------------------------- MODULE KnowledgeAnswer --------------------------
(****************************************************************************)
(* From a question to an answer that quotes: the sources that match, the    *)
(* passages in them, asked of RAG in the scope of the organisation and in   *)
(* the owner's own at the same time; the merge of the two; the evidence     *)
(* that a model is given; what it may cite; and how a call of a model ends. *)
(*                                                                          *)
(* A passage is a record [of, blank]: the resource it is from, and whether  *)
(* there is text in it.  Score[s][p] is its score in scope s, 0 if it is    *)
(* not in that scope; a search returns any part of what is there.           *)
(****************************************************************************)
EXTENDS Naturals, Sequences, FiniteSets, SequencesExt, FiniteSetsExt

CONSTANTS
    Passage,      \* passage -> [of, blank]
    Score,        \* scope -> (passage -> score)
    Uploads, Web, \* the evidence of attachments and of pages, which other steps supply
    Requests,     \* [personal, org, narrowed, path, fallback, by]
    TopK,         \* top_k
    PerResource,  \* passages kept of one resource
    MaxEvidence,  \* MAX_ANSWER_CHUNKS, MAX_EVIDENCE_ITEMS
    MinScore,     \* min_answer_score
    MaxFaults

Passages == DOMAIN Passage
Resources == {Passage[p].of : p \in Passages}

VARIABLES
    req,        \* what is asked for
    pc,         \* "sources", "search", "fallback", "evidence", "model", "answered", "failed"
    only,       \* the resources the passages may be from: {} where they may be from any
    seen,       \* what every scope returned: scope -> set of passages
    results,    \* the resources in order: [of, best, passages]
    evidence,   \* the passages a model is given, in order
    calls,      \* calls of a model that were made
    answer,     \* [cited, charged]
    faults

vars == <<req, pc, only, seen, results, evidence, calls, answer, faults>>

NoAnswer == [cited |-> {}, charged |-> 0]

Init ==
    /\ req \in Requests
    /\ pc = IF req.narrowed THEN "sources" ELSE "search"
    /\ only = {} /\ seen = <<>> /\ results = <<>> /\ evidence = <<>>
    /\ calls = 0 /\ answer = NoAnswer /\ faults = 0

Fault == faults < MaxFaults /\ faults' = faults + 1
Fails == pc' = "failed" /\ UNCHANGED <<only, seen, results, evidence, calls, answer>>

-----------------------------------------------------------------------------
(* RAG.                                                                      *)

\* _scope_requests: the organisation, and the owner's own if he asks for it.
Scopes(r) == (IF r.org THEN {"organization"} ELSE {}) \cup (IF r.personal THEN {"user"} ELSE {})

\* _parallel_scope_calls: one that fails fails the step.
Answers(within) ==
    {f \in [Scopes(req) -> SUBSET Passages] :
        \A s \in Scopes(req) : \A p \in f[s] : Score[s][p] > 0 /\ (within # {} => Passage[p].of \in within)}

\* RAG groups what it finds by resource and cuts it: at most TopK of them.
Cut(f) == \A s \in DOMAIN f : Cardinality({Passage[p].of : p \in f[s]}) <= TopK

In(f, p) == {s \in DOMAIN f : p \in f[s]}
ByScore(S, Of(_)) == SetToSortSeq(S, LAMBDA x, y : Of(x) > Of(y))
Top(s, n) == SubSeq(s, 1, IF Len(s) < n THEN Len(s) ELSE n)

-----------------------------------------------------------------------------
(* The sources.                                                              *)

\* _merge_sources keeps the best record of a resource, and the best resources.
MergeSources(f) ==
    LET best == [r \in {Passage[p].of : p \in UNION {f[s] : s \in DOMAIN f}} |->
                   Max({Score[s][p] : s \in DOMAIN f, p \in {q \in Passages : Passage[q].of = r /\ In(f, q) # {}}})]
    IN ToSet(Top(ByScore(DOMAIN best, LAMBDA r : best[r]), TopK))

SearchSources ==
    /\ pc = "sources"
    /\ \/ Scopes(req) = {} /\ Fails /\ UNCHANGED faults
       \/ Scopes(req) # {} /\ Fault /\ Fails
       \/ /\ Scopes(req) # {}
          /\ \E f \in Answers({}) : Cut(f) /\ only' = MergeSources(f)
          /\ pc' = "search"
          /\ UNCHANGED <<seen, results, evidence, calls, answer, faults>>
    /\ UNCHANGED req

-----------------------------------------------------------------------------
(* The passages.                                                             *)

\* The score a passage is kept with: of the scope that came last, or, from the tree, first.
\* What is below the floor is dropped before.
Above(f, p) == {s \in In(f, p) : Score[s][p] >= MinScore}
Kept(f, p, path) ==
    LET ss == Above(f, p)
        first == IF "organization" \in ss THEN "organization" ELSE "user"
        last == IF "user" \in ss THEN "user" ELSE "organization"
    IN Score[IF path = "tree" THEN first ELSE last][p]

\* _merge_content and _merge_tree_content: the best passages of every resource, and the
\* resources by the best score they were returned with in any scope.
Merge(f, path) ==
    LET ps == {p \in Passages : Above(f, p) # {}}
        Of(r) == {p \in ps : Passage[p].of = r}
        best == [r \in {Passage[p].of : p \in ps} |-> Max({Score[s][p] : s \in DOMAIN f, p \in Of(r)})]
        row(r) == [of |-> r, best |-> best[r],
                   passages |-> Top(ByScore(Of(r), LAMBDA p : Kept(f, p, path)), PerResource)]
    IN [i \in 1..(IF Cardinality(DOMAIN best) < TopK THEN Cardinality(DOMAIN best) ELSE TopK) |->
          row(ByScore(DOMAIN best, LAMBDA r : best[r])[i])]

\* A search of the content that is restricted to no source finds nothing, without a call.
Restricted_Open(r, path) == FALSE                          \* mutant
Restricted(r, path) == r.narrowed /\ path = "content"

Searched(path, onEmpty) ==
    \/ /\ Restricted(req, path) /\ only = {}
       /\ results' = <<>> /\ pc' = onEmpty
       /\ UNCHANGED <<seen, faults>>
    \/ /\ ~ (Restricted(req, path) /\ only = {}) /\ Scopes(req) # {}
       /\ \E f \in Answers(only) :
            /\ Cut(f)
            /\ seen' = f
            /\ results' = Merge(f, path)
            /\ pc' = IF Merge(f, path) = <<>> THEN onEmpty ELSE "evidence"
       /\ UNCHANGED faults
SearchFails ==
    /\ pc \in {"search", "fallback"}
    /\ \/ Scopes(req) = {} /\ UNCHANGED faults
       \/ Fault
    /\ Fails
    /\ UNCHANGED req

SearchContent ==
    /\ pc = "search" /\ req.path = "content"
    /\ Searched("content", "evidence")
    /\ UNCHANGED <<req, only, evidence, calls, answer>>

\* The tree first, and the content if the tree has nothing and the caller allows it.
SearchTree ==
    /\ pc = "search" /\ req.path = "tree"
    /\ Searched("tree", IF req.fallback THEN "fallback" ELSE "evidence")
    /\ UNCHANGED <<req, only, evidence, calls, answer>>

SearchFallback ==
    /\ pc = "fallback"
    /\ Searched("content", "evidence")
    /\ UNCHANGED <<req, only, evidence, calls, answer>>

-----------------------------------------------------------------------------
(* The evidence.                                                             *)

\* _answer_evidence: the passages in the order of the results, blank ones left out.
AnswerEvidence(rs) ==
    Top(SelectSeq(FlattenSeq([i \in DOMAIN rs |-> rs[i].passages]), LAMBDA p : ~ Passage[p].blank), MaxEvidence)

\* _merge_evidence: the uploads, what the knowledge base gave, and the pages, each once.
Once(s) == FoldLeft(LAMBDA kept, e : IF e \in ToSet(kept) THEN kept ELSE Append(kept, e), <<>>, s)
MergeEvidence_All(groups) == Once(FlattenSeq(groups))      \* mutant
MergeEvidence(groups) == Top(Once(FlattenSeq(groups)), MaxEvidence)

Evidence ==
    /\ pc = "evidence"
    /\ evidence' = IF req.by = "knowledge.answer" THEN AnswerEvidence(results)
                   ELSE MergeEvidence(<<Uploads, AnswerEvidence(results), Web>>)
    \* Without evidence no model is asked.
    /\ pc' = IF evidence' = <<>> THEN "answered" ELSE "model"
    /\ UNCHANGED <<req, only, seen, results, calls, answer, faults>>

-----------------------------------------------------------------------------
(* The model.                                                                *)

\* _known_knowledge_citations and keep_known_citations: what was not given is not cited.
KnownCitations_Any(cited, given) == cited            \* mutant
KnownCitations(cited, given) == cited \cap ToSet(given)

\* What the client counts for a call, _parse puts into the draft.
Counted(n) == IF n > 1 THEN n ELSE 1

\* One call, and one more to repair what is no valid JSON; the second is the last.
Reply(n) ==
    /\ calls' = n
    /\ \/ \E cited \in SUBSET (ToSet(evidence) \cup {"invented"}) :
            /\ Cardinality(cited) <= 2
            /\ answer' = [cited |-> KnownCitations(cited, evidence), charged |-> Counted(n)]
            /\ pc' = "answered"
       \/ n = 1 /\ pc' = "repair" /\ UNCHANGED answer
       \/ n = 2 /\ pc' = "failed" /\ UNCHANGED answer

Compose == pc = "model" /\ Reply(1) /\ UNCHANGED <<req, only, seen, results, evidence, faults>>
Repair == pc = "repair" /\ Reply(2) /\ UNCHANGED <<req, only, seen, results, evidence, faults>>

\* The provider cannot be reached, or answers with an error.
ModelFails ==
    /\ pc \in {"model", "repair"}
    /\ Fault
    /\ pc' = "failed"
    /\ UNCHANGED <<req, only, seen, results, evidence, calls, answer>>

Next == \/ SearchSources \/ SearchContent \/ SearchTree \/ SearchFallback \/ SearchFails
        \/ Evidence \/ Compose \/ Repair \/ ModelFails

-----------------------------------------------------------------------------
\* Every variable holds what the capabilities can compute.
TypeOK ==
    /\ req \in Requests
    /\ pc \in {"sources", "search", "fallback", "evidence", "model", "repair", "answered", "failed"}
    /\ only \subseteq Resources
    /\ DOMAIN seen \subseteq {"organization", "user"}
    /\ Len(results) <= TopK /\ Len(evidence) <= MaxEvidence
    /\ calls \in 0..2 /\ faults \in 0..MaxFaults

\* Every citation is an upload, a page, or a passage that some scope which the request
\* names returned: nothing is cited that nobody gave the model, and nothing of the owner's
\* own unless he asked for it.
Cited == \A p \in answer.cited \ (ToSet(Uploads) \cup ToSet(Web)) :
    p \in Passages /\ \E s \in Scopes(req) : Score[s][p] >= MinScore

\* A search that was narrowed to the sources of the step before quotes no other one; the
\* tree with no source is searched as a whole.
OnlyNarrowed == req.narrowed /\ (only # {} \/ req.path = "content") =>
    \A i \in DOMAIN evidence : evidence[i] \in Passages => Passage[evidence[i]].of \in only

\* What the task is charged for an answer is what its model was asked.
Charged == pc = "answered" => answer.charged = calls

\* The passage with the best score of all that were returned is in the evidence, whatever
\* the limits cut off, and the scope it was found in; unless both scopes returned it, with
\* two scores, for then the later one counts.
BestIsThere ==
    pc = "model" /\ req.by = "knowledge.answer" =>
        \A s \in DOMAIN seen : \A p \in seen[s] :
            /\ ~ Passage[p].blank /\ Score[s][p] >= MinScore
            /\ \A t \in DOMAIN seen : \A q \in seen[t] :
                 q # p => Score[t][q] < Score[s][p] /\ (t # s => q \notin seen[s])
            /\ \A t \in DOMAIN seen : t # s => p \notin seen[t]
            => p \in ToSet(evidence)

\* What the owner attached himself is never pushed out by what was searched.
UploadsStay == pc = "model" /\ req.by = "answer.compose" =>
    \A i \in DOMAIN Uploads : i <= MaxEvidence => Uploads[i] \in ToSet(evidence)

Answered == Cited /\ OnlyNarrowed /\ Charged /\ BestIsThere /\ UploadsStay
=============================================================================
