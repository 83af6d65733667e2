---------------------------- MODULE WebResearch ----------------------------
(****************************************************************************)
(* web.research: the pages that a request names and the ones a search finds *)
(* are read at the same time, each with a plain fetch first and a renderer  *)
(* where that is worth it, and become the evidence of an answer.            *)
(*                                                                          *)
(* Web[p] is what a page is: [fetch, chars, rendered, raw]: what a plain    *)
(* GET gets ("page", "document" for a file, "gone" for 404 and 410,         *)
(* "refused" for another error that stays, "broken" for what the fetcher    *)
(* does not handle), the characters of its text, what a renderer makes of   *)
(* it (0 for nothing), and whether a search engine brings its text along.   *)
(****************************************************************************)
EXTENDS Naturals, Sequences, FiniteSets, SequencesExt, FiniteSetsExt

CONSTANTS
    Web,            \* page -> [fetch, chars, rendered, raw]
    Found,          \* query -> the pages it finds, by rank: [page, relevant]
    Requests,       \* [written, proposed, queries]: pages and queries, in order
    Whole,          \* the request itself, as a query
    Searches, Renders,   \* is there a search provider, a renderer?
    MinText,        \* min_text_chars
    MaxResults, MaxPages, MaxQueries, Budget,
    Attempts,       \* attempts of the step
    MaxFaults

Pages == DOMAIN Web
Top(s, n) == SubSeq(s, 1, IF Len(s) < n THEN Len(s) ELSE n)

VARIABLES
    req,        \* what is asked for
    pc,         \* "start", "search", "read", "done", "failed"
    attempt,
    todo,       \* the queries that are left
    hits,       \* what the searches found: page -> its best rank
    down,       \* did a search fail for now; was one made
    targets,    \* the pages to read, in order
    got,        \* page -> [chars, by] once it was read: by "raw", "static", "render", "none"
    evidence, warned,
    asked,      \* pages the renderer was asked for (history)
    faults

vars == <<req, pc, attempt, todo, hits, down, targets, got, evidence, warned, asked, faults>>

Init ==
    /\ req \in Requests
    /\ pc = "start" /\ attempt = 1
    /\ todo = <<>> /\ hits = <<>> /\ down = [unavailable |-> FALSE, made |-> FALSE]
    /\ targets = <<>> /\ got = <<>> /\ evidence = <<>> /\ warned = {} /\ asked = {} /\ faults = 0

Fault == faults < MaxFaults /\ faults' = faults + 1

\* trusted_urls: the pages of the request, and of those that the model proposes the same ones.
Trusted_Proposed(r) == r.written \o SelectSeq(r.proposed, LAMBDA p : p \notin ToSet(r.written))    \* mutant
Trusted(r) == r.written

\* Without a page and a query the owner's own words are the query.
Start ==
    /\ pc = "start"
    /\ todo' = IF req.queries = <<>> /\ Trusted(req) = <<>> THEN <<Whole>> ELSE Top(req.queries, MaxQueries)
    /\ pc' = "search"
    /\ hits' = <<>> /\ down' = [unavailable |-> FALSE, made |-> FALSE]
    /\ targets' = <<>> /\ got' = <<>> /\ evidence' = <<>> /\ warned' = {}
    /\ UNCHANGED <<req, attempt, asked, faults>>

-----------------------------------------------------------------------------
(* The search.                                                               *)

\* What has nothing of the query in its title or snippet is dropped; of a page that two
\* queries find the better rank counts (merge_results).
Better(old, new) == IF new < old THEN new ELSE old
Merged(h, q) ==
    LET rel == {i \in DOMAIN Found[q] : Found[q][i].relevant}
        ps == {Found[q][i].page : i \in rel}
        rank(p) == Min({i \in rel : Found[q][i].page = p})
    IN [p \in DOMAIN h \cup ps |->
          IF p \notin ps THEN h[p] ELSE IF p \notin DOMAIN h THEN rank(p) ELSE Better(h[p], rank(p))]

Search ==
    /\ pc = "search" /\ todo # <<>> /\ Searches
    /\ todo' = Tail(todo)
    /\ \/ hits' = Merged(hits, Head(todo)) /\ down' = [down EXCEPT !.made = TRUE] /\ UNCHANGED <<warned, faults>>
       \/ /\ Fault /\ UNCHANGED hits /\ warned' = warned \cup {Head(todo)}
          /\ \E later \in BOOLEAN : down' = [unavailable |-> down.unavailable \/ later, made |-> TRUE]
    /\ UNCHANGED <<req, pc, attempt, targets, got, evidence, asked>>

\* The candidates by rank, and the pages to read: the owner's first.
Candidates == Top(SetToSortSeq(DOMAIN hits, LAMBDA a, b : hits[a] < hits[b]), MaxResults)
Targets(own, found) == Top(own \o SelectSeq(found, LAMBDA p : p \notin ToSet(own)), MaxPages)

\* With nothing to read the step fails: to be tried again, if a search was made.
Again(retryable) ==
    IF retryable /\ attempt < Attempts
    THEN pc' = "start" /\ attempt' = attempt + 1
    ELSE pc' = "failed" /\ UNCHANGED attempt

Choose ==
    /\ pc = "search" /\ (todo = <<>> \/ ~ Searches)
    /\ IF Trusted(req) = <<>> /\ Candidates = <<>>
       THEN Again(down.unavailable \/ down.made) /\ UNCHANGED targets
       ELSE /\ targets' = Targets(Trusted(req), Candidates)
            /\ pc' = "read" /\ UNCHANGED attempt
    /\ UNCHANGED <<req, todo, hits, down, got, evidence, warned, asked, faults>>

-----------------------------------------------------------------------------
(* One page: ContentReader.read.                                             *)

Nothing == [chars |-> 0, by |-> "none"]
Static(p) == [chars |-> Web[p].chars, by |-> "static"]
Rendered(p) == [chars |-> Web[p].rendered, by |-> "render"]
Reads(p, r, note) ==
    /\ got' = (p :> r) @@ got
    /\ warned' = IF r.chars = 0 \/ note THEN warned \cup {p} ELSE warned
    /\ UNCHANGED <<pc, attempt>>

\* The renderer's answer, or what is left without it.
Render(p, otherwise) ==
    /\ asked' = asked \cup {p}
    /\ \/ Reads(p, Rendered(p), FALSE) /\ UNCHANGED faults
       \/ Fault /\ Reads(p, otherwise, TRUE)

\* Not a page that is gone or that may not be opened at all.
Worth_Any(p) == TRUE                                       \* mutant
Worth(p) == Web[p].fetch \notin {"gone", "refused"}

Fetch(p) ==
    CASE Web[p].fetch = "broken" ->
           \* An encoding that nobody knows: the error is none the reader expects, and ends the step.
           Again(FALSE) /\ UNCHANGED <<got, warned, asked, faults>>
      [] Web[p].fetch = "page" ->
           \/ /\ Web[p].chars >= MinText \/ ~ Renders
              /\ Reads(p, Static(p), FALSE) /\ UNCHANGED <<asked, faults>>
           \/ Web[p].chars < MinText /\ Renders /\ Render(p, Static(p))
           \* The fetch fails for now: the renderer may do better.
           \/ Fault /\ (IF Renders THEN Reads(p, Rendered(p), FALSE) /\ asked' = asked \cup {p}
                        ELSE Reads(p, Nothing, TRUE) /\ UNCHANGED asked)
      [] Web[p].fetch = "document" /\ Renders -> Render(p, Nothing)
      [] OTHER ->
           IF Worth(p) /\ Renders THEN Render(p, Nothing)
           ELSE Reads(p, Nothing, TRUE) /\ UNCHANGED <<asked, faults>>

\* The pages are read in any order, at most MaxPages at once.
Read(p) ==
    /\ pc = "read" /\ p \in ToSet(targets) \ DOMAIN got
    /\ IF p \in ToSet(Candidates) /\ Web[p].raw
       THEN Reads(p, [chars |-> Web[p].chars, by |-> "raw"], FALSE) /\ UNCHANGED <<asked, faults>>
       ELSE Fetch(p)
    /\ UNCHANGED <<req, todo, hits, down, targets, evidence>>

-----------------------------------------------------------------------------
(* The evidence.                                                             *)

\* _apply_budget: what does not fit is left out and told; the first piece always fits.
Fits(acc, p) ==
    IF acc.used + got[p].chars > Budget /\ acc.kept # <<>> THEN [acc EXCEPT !.cut = @ \cup {p}]
    ELSE [acc EXCEPT !.kept = Append(@, p), !.used = @ + got[p].chars]
Budgeted(ps) == FoldLeft(Fits, [kept |-> <<>>, used |-> 0, cut |-> {}], ps)

\* A page that the owner named and nobody could read ends the step, whatever else was read.
Unreadable == {p \in ToSet(Trusted(req)) : p \in DOMAIN got /\ got[p].chars = 0}
Collect ==
    /\ pc = "read" /\ ToSet(targets) \subseteq DOMAIN got
    /\ LET b == Budgeted(SelectSeq(targets, LAMBDA p : got[p].chars > 0)) IN
       IF Unreadable # {} \/ b.kept = <<>>
       THEN Again(FALSE) /\ UNCHANGED <<evidence, warned>>
       ELSE /\ evidence' = b.kept /\ warned' = warned \cup b.cut
            /\ pc' = "done" /\ UNCHANGED attempt
    /\ UNCHANGED <<req, todo, hits, down, targets, got, asked, faults>>

Next == Start \/ Search \/ Choose \/ (\E p \in Pages : Read(p)) \/ Collect

-----------------------------------------------------------------------------
\* Every variable holds what one run of the capability can compute.
TypeOK ==
    /\ req \in Requests
    /\ pc \in {"start", "search", "read", "done", "failed"} /\ attempt \in 1..Attempts
    /\ DOMAIN hits \subseteq Pages /\ DOMAIN got \subseteq ToSet(targets)
    /\ Len(targets) <= MaxPages /\ asked \subseteq Pages /\ faults \in 0..MaxFaults

\* A page that the owner named is quoted, or the answer says that it was too much, or there
\* is no answer: "a keyword-search fallback may find related material, but it cannot satisfy
\* a request whose subject is the exact page the user supplied" (runtime.py).  The pages
\* beyond the limit are not covered by that.
OwnPages == pc = "done" => \A i \in DOMAIN req.written :
    i <= MaxPages => req.written[i] \in ToSet(evidence) \cup warned

\* What is quoted was named by the owner or found by a query it is about, and its text was
\* read in this attempt; a model that proposes a page gets it quoted by neither.
OnlyFound == \A i \in DOMAIN evidence :
    /\ \/ evidence[i] \in ToSet(req.written)
       \/ \E q \in DOMAIN Found : \E j \in DOMAIN Found[q] : Found[q][j] = [page |-> evidence[i], relevant |-> TRUE]
    /\ got[evidence[i]].by # "none"

\* Nothing that was to be read is missing without a word.
NothingSilent == pc = "done" => ToSet(targets) \subseteq ToSet(evidence) \cup warned

\* A page that is gone or refused is never given to the renderer.
NoWaste == \A p \in asked : Web[p].fetch \notin {"gone", "refused"}

Researched == OwnPages /\ OnlyFound /\ NothingSilent /\ NoWaste
=============================================================================
