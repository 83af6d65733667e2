---------------------------- MODULE PersonScope ----------------------------
(****************************************************************************)
(* What the Agent knows about one person: person.query resolves a name,     *)
(* exports the person's messages page by page (what he sent, the private    *)
(* chats with him, what mentions him), has a model extract facts from them, *)
(* keeps the facts under the fingerprint of the messages, and answers.      *)
(*                                                                          *)
(* A message is one chunk; chunk 1 is the newest.  What it says is a set of *)
(* values.  What the models answer is arbitrary: any fact about any value,  *)
(* said to come from any message, and any part of the facts in the prose.   *)
(* The resource types are one more loop around the export of the same kind  *)
(* as the scopes, and are left out.  While a question runs, messages come,  *)
(* are deleted and calls fail.                                              *)
(****************************************************************************)
EXTENDS Naturals, Sequences, FiniteSets, SequencesExt

CONSTANTS
    Chunk,       \* the messages, newest first: [by, private, names, old, twin, open, scope, says];
                 \* open: the caller is allowed to see it, or its original if there is one (twin)
    Questions,   \* [facet, self, sources, extract]; extract: a fact extractor is configured
    Category,    \* the category of a value
    Scopes,      \* the scopes of the caller, in order
    PageSize, MaxChunks, BatchItems,
    MaxChanges, MaxFaults, MaxQuestions    \* bounds

Chunks == DOMAIN Chunk
Values == DOMAIN Category
Sources == <<"sent", "private", "mention">>

VARIABLES
    archive,    \* the messages that RAG holds
    snapshots,  \* agent_person_fact_snapshots: [of, facts], of the messages it was made from
    question,   \* the question that is answered
    pc,         \* where person.query stands
    export,     \* the export so far
    facts,      \* the facts selected for the answer
    answer,     \* what was answered
    spent       \* changes, faults and questions so far

vars == <<archive, snapshots, question, pc, export, facts, answer, spent>>

NoAnswer == [kind |-> "none", facts |-> {}, values |-> {}, warned |-> FALSE]
\* thinned: history, the requests that lost messages of a page to the authorization.
NoExport == [chunks |-> {}, thinned |-> {}, at |-> 1, offset |-> 0, more |-> FALSE, attempt |-> 0,
             truncated |-> FALSE]

-----------------------------------------------------------------------------
(* The three sources, and one page of RAG.                                   *)

\* _source_body_entries: the requests of the export, one per source and scope.
Wanted(q) == SelectSeq(Sources, LAMBDA s : q.sources = {} \/ s \in q.sources)
Requests(q) == FlattenSeq([i \in DOMAIN Wanted(q) |->
                  [j \in DOMAIN Scopes |-> [source |-> Wanted(q)[i], scope |-> Scopes[j]]]])

Matches(c, source) ==
    CASE source = "sent" -> Chunk[c].by = "subject"
      [] source = "private" -> Chunk[c].private
      [] OTHER -> Chunk[c].names
\* The private chats of the owner himself are read for the last days only.
InWindow(c, q, source) == source = "private" /\ q.self => ~ Chunk[c].old
Belongs(c, q, r) == Chunk[c].scope = r.scope /\ Matches(c, r.source) /\ InWindow(c, q, r.source)

\* search_bm25 reads one page of the display index and one of the protected index,
\* both from the same offset; of two variants of a message the original stays.
Slice(cs, offset) == {c \in cs : Cardinality({d \in cs : d < c}) \in offset..(offset + PageSize - 1)}
Found(q, r, offset) ==
    LET belong == {c \in archive : Belongs(c, q, r)}
    IN Slice({c \in belong : Chunk[c].twin}, offset) \cup Slice(belong, offset)
\* _authorize_results: what is not allowed is left out of the page.
Authorized(found) == {c \in found : Chunk[c].open}

-----------------------------------------------------------------------------
(* Extraction.                                                               *)

\* _batches: the messages in order of time, cut into batches.
BatchOf(cs, c) == Cardinality({d \in cs : d > c}) \div BatchItems
Batch(cs, c) == {d \in cs : BatchOf(cs, d) = BatchOf(cs, c)}

\* What a model proposes for a value: the message it names, and who it says has spoken.
Proposals(cs) == [named : cs, role : {"subject", "other"}]

\* _ground_fact: the value occurs in the batch; the message is the one that is named;
\* and what somebody else says counts only if the message names the subject.
Occurs(v, p, cs) == \E c \in Batch(cs, p.named) : v \in Chunk[c].says
Grounded_AnyRole(v, p, cs) == Occurs(v, p, cs)     \* mutant
Grounded(v, p, cs) == Occurs(v, p, cs) /\ (Chunk[p.named].by = "subject" \/ Chunk[p.named].names)
Role_OfModel(p) == p.role       \* mutant
Role(p) == Chunk[p.named].by
Fact(v, p) == [value |-> v, role |-> Role(p), from |-> p.named]

Facet(q, v) == q.facet = "overview" \/ Category[v] = q.facet
Selected(q, fs) == {f \in fs : Facet(q, f.value)}

-----------------------------------------------------------------------------
Goto(l) == pc' = l
Reply(a) == answer' = a /\ Goto("answered")
Fault == spent.faults < MaxFaults /\ spent' = [spent EXCEPT !.faults = @ + 1]

Init ==
    /\ archive \in {Chunks, {c \in Chunks : ~ Chunk[c].twin},
                    {c \in Chunks : ~ Chunk[c].twin /\ Chunk[c].open}}
    /\ snapshots = {}
    /\ question \in Questions
    /\ pc = "resolve"
    /\ export = NoExport
    /\ facts = {}
    /\ answer = NoAnswer
    /\ spent = [changes |-> 0, faults |-> 0, questions |-> 1]

\* resolve_person.  Without an extractor the cached profile may answer.  Several people
\* of the name are put to the user; when nobody or Knowledge is there, generic
\* retrieval answers.
Resolve ==
    /\ pc = "resolve"
    /\ \/ Goto(IF question.extract THEN "export" ELSE "collect") /\ UNCHANGED <<answer, spent>>
       \/ ~ question.extract /\ Reply([NoAnswer EXCEPT !.kind = "profile"]) /\ UNCHANGED spent
       \/ Reply([NoAnswer EXCEPT !.kind = "ask"]) /\ UNCHANGED spent
       \/ Goto("fallback") /\ UNCHANGED <<answer, spent>>
       \/ Goto("fallback") /\ Fault /\ UNCHANGED answer
    /\ export' = NoExport /\ facts' = {}
    /\ UNCHANGED <<archive, snapshots, question>>

Request == Requests(question)[export.at]
Exported(e) == e.truncated \/ e.at > Len(Requests(question))
\* The next request, from its first page.
NextRequest(e) == [e EXCEPT !.at = @ + 1, !.offset = 0, !.more = FALSE, !.attempt = 0]

\* One page arrives: new chunks are added until the cap; the next page begins after
\* as many chunks as this one returned, if it was full, and the authorization counts here:
\* a page it has thinned is the last.
Received(e, page) ==
    LET new == page \ e.chunks
        room == MaxChunks - Cardinality(e.chunks)
        kept == {c \in new : Cardinality({d \in new : d < c}) < room}
        taken == [e EXCEPT !.chunks = @ \cup kept, !.attempt = 0, !.offset = @ + Cardinality(page),
                           !.more = Cardinality(page) >= PageSize]
    IN CASE page = {} /\ e.more /\ e.attempt = 0 -> [e EXCEPT !.attempt = 1]
         [] page = {} /\ e.more /\ e.attempt = 1 -> [e EXCEPT !.truncated = TRUE]
         [] kept # {} /\ Cardinality(e.chunks \cup kept) >= MaxChunks -> [taken EXCEPT !.truncated = TRUE]
         [] OTHER -> IF taken.more THEN taken
                     ELSE NextRequest(taken)
\* What the search has found and what of it was allowed.
Answered(e, found, page) ==
    Received(IF page = found THEN e ELSE [e EXCEPT !.thinned = @ \cup {e.at}], page)
\* A page that failed twice.
Failed_Silently(e) == IF e.attempt = 0 THEN [e EXCEPT !.attempt = 1] ELSE NextRequest(e)   \* mutant
Failed(e) == IF e.attempt = 0 THEN [e EXCEPT !.attempt = 1] ELSE [e EXCEPT !.truncated = TRUE]

Matching == Found(question, Request, export.offset)

\* A check of the authorization that fails denies the whole page.
ExportPage ==
    /\ pc = "export"
    /\ ~ Exported(export)
    /\ \/ export' = Answered(export, Matching, Authorized(Matching)) /\ UNCHANGED spent
       \/ export' = Answered(export, Matching, {}) /\ Fault
       \/ export' = Failed(export) /\ Fault
    /\ UNCHANGED <<archive, snapshots, question, pc, facts, answer>>

\* collect_resource_ids: pages without a retry that hides a gap; a second failure ends
\* the query with an error.
CollectPage ==
    /\ pc = "collect"
    /\ ~ Exported(export)
    /\ LET e == [export EXCEPT !.attempt = 0, !.more = FALSE]
       IN  \/ /\ export' = Answered(e, Matching, Authorized(Matching))
              /\ UNCHANGED <<pc, answer, spent>>
           \/ /\ export' = Answered(e, Matching, {})
              /\ Fault /\ UNCHANGED <<pc, answer>>
           \/ /\ export.attempt = 0 /\ export' = [export EXCEPT !.attempt = 1]
              /\ Fault /\ UNCHANGED <<pc, answer>>
           \/ /\ export.attempt = 1 /\ Reply([NoAnswer EXCEPT !.kind = "error"])
              /\ Fault /\ UNCHANGED export
    /\ UNCHANGED <<archive, snapshots, question, facts>>

\* search_content ranks within the messages that are given, in every scope; one scope
\* that fails fails the query.
Quotes(given) ==
    \/ /\ \E found \in SUBSET given :
             Reply([NoAnswer EXCEPT !.kind = IF found = {} THEN "nothing" ELSE "quotes"])
       /\ UNCHANGED spent
    \/ Reply([NoAnswer EXCEPT !.kind = "error"]) /\ Fault

\* _legacy_path: without an extractor, quotes from the collected messages.
Search ==
    /\ pc = "collect" /\ Exported(export)
    /\ Quotes(export.chunks \cap archive)
    /\ UNCHANGED <<archive, snapshots, question, export, facts>>

\* _fallback: nobody of that name, or no Knowledge: quotes from everything.
Fallback ==
    /\ pc = "fallback"
    /\ Quotes(Authorized(archive))
    /\ UNCHANGED <<archive, snapshots, question, export, facts>>

\* snapshot_fingerprint is over the chunks of the export.
LoadSnapshot_OfPerson == snapshots       \* mutant: the fingerprint is not compared
LoadSnapshot == {s \in snapshots : s.of = export.chunks}

UseSnapshot ==
    /\ pc = "export" /\ Exported(export) /\ export.chunks # {}
    /\ \E s \in LoadSnapshot : facts' = Selected(question, s.facts)
    /\ Goto("compose")
    /\ UNCHANGED <<archive, snapshots, question, export, answer, spent>>

\* _extract_facts and _save_fact_snapshot: batches run side by side, one that fails is
\* dropped, and the facts of the others are saved as the facts of all the chunks.  One fact per
\* value is kept.
Extract ==
    /\ pc = "export" /\ Exported(export) /\ export.chunks # {}
    /\ LoadSnapshot = {}
    /\ \E silent \in SUBSET Values : \E proposed \in [Values \ silent -> Proposals(export.chunks)] :
          LET found == {Fact(v, proposed[v]) : v \in
                          {u \in DOMAIN proposed : Grounded(u, proposed[u], export.chunks)}}
          IN /\ facts' = Selected(question, found)
             /\ snapshots' = snapshots \cup {[of |-> export.chunks, facts |-> found]}
    /\ Goto("compose")
    /\ UNCHANGED <<archive, question, export, answer, spent>>

\* Nothing visible: the cached profile, which Knowledge keeps, or nothing.
NoMessages ==
    /\ pc = "export" /\ Exported(export) /\ export.chunks = {}
    /\ \E kind \in {"nothing", "profile"} : Reply([NoAnswer EXCEPT !.kind = kind])
    /\ UNCHANGED <<archive, snapshots, question, export, facts, spent>>

\* missing_fact_values and render_person_sections: what the prose leaves out is listed.
Listed_None(said) == {}     \* mutant
Listed(said) == {f.value : f \in facts} \ said

\* _answer: the model writes about any part of the facts; a question about one facet
\* without facts has no answer; without any facts excerpts are quoted.
Compose ==
    /\ pc = "compose"
    /\ IF facts = {}
       THEN Reply([NoAnswer EXCEPT !.kind = IF question.facet = "overview" THEN "quotes" ELSE "nothing",
                                   !.warned = export.truncated])
       ELSE \E said \in SUBSET {f.value : f \in facts} :
               Reply([kind |-> "facts", facts |-> facts, values |-> said \cup Listed(said),
                      warned |-> export.truncated])
    /\ UNCHANGED <<archive, snapshots, question, export, facts, spent>>

\* The user asks again.
Ask ==
    /\ pc = "answered"
    /\ spent.questions < MaxQuestions
    /\ spent' = [spent EXCEPT !.questions = @ + 1]
    /\ question' \in Questions
    /\ Goto("resolve")
    /\ export' = NoExport /\ facts' = {} /\ answer' = NoAnswer
    /\ UNCHANGED <<archive, snapshots>>

\* A message is collected, or deleted.
Change ==
    /\ spent.changes < MaxChanges
    /\ spent' = [spent EXCEPT !.changes = @ + 1]
    /\ \E c \in Chunks : archive' = IF c \in archive THEN archive \ {c} ELSE archive \cup {c}
    /\ UNCHANGED <<snapshots, question, pc, export, facts, answer>>

Next == Resolve \/ ExportPage \/ CollectPage \/ Search \/ Fallback \/ UseSnapshot \/ Extract \/ NoMessages
        \/ Compose \/ Ask \/ Change

-----------------------------------------------------------------------------
(* Properties.                                                               *)

\* One query, its export and its answer.
TypeOK ==
    /\ archive \subseteq Chunks /\ question \in Questions
    /\ pc \in {"resolve", "export", "collect", "fallback", "compose", "answered"}
    /\ export.chunks \subseteq Chunks /\ Cardinality(export.chunks) <= MaxChunks
    /\ export.at \in 1..(Len(Requests(question)) + 1) /\ export.attempt \in 0..1
    /\ \A s \in snapshots : s.of \subseteq Chunks

\* An export without a warning is complete for each request of it whose pages came through
\* the authorization whole, however many pages failed and were tried again.  Nothing is
\* reported when the authorization has kept a message back, or its check has failed:
\* has_more and next_offset count what is left of a page.  Nor is anything when originals
\* lie beside their display variants or the archive changed meanwhile: then pages are not
\* aligned with the offset.
CompleteOrReported ==
    Exported(export) /\ ~ export.truncated /\ spent.changes = 0
    /\ (\A c \in archive : ~ Chunk[c].twin)
    => \A i \in DOMAIN Requests(question) \ export.thinned :
          {c \in archive : Belongs(c, question, Requests(question)[i])} \subseteq export.chunks
\* An answer uses facts of the messages that its own export has seen, so that what was
\* deleted before does not come back from a snapshot.
FactsOfVisible == \A f \in answer.facts : f.from \in export.chunks
\* A fact stands as the subject's own words only under a message he sent, and as
\* somebody else's only under one that names him.
SaidByHim == \A f \in answer.facts :
    IF f.role = "subject" THEN Chunk[f.from].by = "subject"
    ELSE Chunk[f.from].by # "subject" /\ Chunk[f.from].names
\* Whatever the model writes, every selected fact is in the answer.
NothingLeftOut == answer.kind = "facts" => {f.value : f \in facts} \subseteq answer.values

AboutPerson == CompleteOrReported /\ FactsOfVisible /\ SaidByHim /\ NothingLeftOut
=============================================================================
