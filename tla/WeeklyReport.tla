---------------------------- MODULE WeeklyReport ----------------------------
(****************************************************************************)
(* The weekly report of a person: the week it covers, the template the      *)
(* owner attached, or the one found among the collected documents, the      *)
(* choice he makes where several are found, what was said in that week, and *)
(* the document that is filled and kept for a day.                          *)
(*                                                                          *)
(* A template is the sequence of its paragraphs, [kind, name].  A day is a  *)
(* number, and 0 is a Monday.                                               *)
(****************************************************************************)
EXTENDS Integers, Sequences, FiniteSets, SequencesExt

CONSTANTS
    Form,       \* template -> its paragraphs: a heading or field of a name, a bullet, a row, or text
    Documents,  \* the collected .docx: sequence of [name, size, hash, of, terms]
    Chunks,     \* the passages of RAG: sequence of [day, who, via, kind, res, conv, title]
    Requests,   \* [who, named, week, uploaded, quoted, files]: files [name, size, hash, of, docx]
    FirstDay, LastDay, Attempts, MaxFaults

VARIABLES
    req,        \* what the owner asks for
    turn,       \* 1: the question, 2: the template he picked
    pick,       \* of turn 2: [id, of], the file the page names, and the template he looked at
    pc,         \* "person", "template", "copy", "read", "evidence", "draft", "save", "told", "failed"
    today,      \* the day on which the report was last begun
    window,     \* [from, to]: its first day and the day after its last
    found,      \* the candidates: sequence of [id, name, size, hash, of]
    used,       \* the candidate whose bytes were read
    evidence,   \* the chunks a model is given, in order
    shown,      \* what every slot of the document says
    files,      \* the store of the agent: id -> template, where the record did not expire
    outcome,    \* [status, of, artifact, cited]
    attempt, faults

vars == <<req, turn, pick, pc, today, window, found, used, evidence, shown, files,
          outcome, attempt, faults>>

None == [id |-> <<>>, name |-> "", size |-> 0, hash |-> "", of |-> "none"]
NoWindow == [from |-> 0, to |-> 0]
Untold == [status |-> "none", of |-> "none", artifact |-> <<>>, cited |-> <<>>]

Init ==
    /\ req \in Requests /\ turn = 1 /\ pick = None /\ pc = "person" /\ today = FirstDay
    /\ window = NoWindow /\ found = <<>> /\ used = None /\ evidence = <<>> /\ shown = <<>>
    /\ files = [id \in {<<"upload", i>> : i \in DOMAIN req.files} |-> req.files[id[2]].of]
    /\ outcome = Untold /\ attempt = 1 /\ faults = 0

Fault == faults < MaxFaults /\ faults' = faults + 1
\* A call that fails is made again by the runtime, from the start, or ends the step.
Again ==
    /\ Fault
    /\ \/ attempt < Attempts /\ attempt' = attempt + 1 /\ pc' = "person"
       \/ pc' = "failed" /\ UNCHANGED attempt
    /\ UNCHANGED <<req, turn, pick, today, window, found, used, evidence, shown, files, outcome>>
Says(status) ==
    /\ pc' = "told" /\ outcome' = [Untold EXCEPT !.status = status]

-----------------------------------------------------------------------------
(* The week and the person.                                                  *)

\* _report_time_phrase: the message that names a template names no week.
Phrase == IF turn = 1 THEN req.week ELSE [kind |-> "none"]

\* week_of, weeks_ago_window: the week n weeks before the one of the day.
WeeksAgo(day, n) ==
    LET monday == day - (day % 7) IN [from |-> monday - 7 * n, to |-> monday - 7 * n + 7]
ResolveWeek(w, day) ==
    CASE w.kind = "range" /\ w.to >= w.from -> [from |-> w.from, to |-> w.to + 1]
      [] w.kind = "ago" -> WeeksAgo(day, w.n)
      [] OTHER -> WeeksAgo(day, 1)

\* No match and several end the turn with a question.
ResolvePerson ==
    /\ pc = "person"
    /\ \/ Again
       \/ /\ \E day \in today..LastDay : today' = day /\ window' = ResolveWeek(Phrase, day)
          /\ \/ Says("no_person") \/ Says("needs_person_choice")
             \/ pc' = "template" /\ UNCHANGED outcome
          /\ UNCHANGED <<req, turn, pick, found, used, evidence, shown, files, attempt, faults>>

-----------------------------------------------------------------------------
(* The template.                                                             *)

\* dedupe_key: the bytes, or the name where the store has no hash.
DedupeKey(c) == IF c.hash # "" THEN <<"", c.hash, c.size>> ELSE <<c.name, "", c.size>>
Dedupe(s) ==
    FoldLeft(LAMBDA out, c : IF \E k \in DOMAIN out : DedupeKey(out[k]) = DedupeKey(c) THEN out ELSE Append(out, c),
             <<>>, s)
Candidate(id, c) == [id |-> id, name |-> c.name, size |-> c.size, hash |-> c.hash, of |-> c.of]

\* upload_candidates: the files of this turn whose record still stands.  An upload has no hash.
Uploaded ==
    LET is == IF turn = 1 THEN [i \in DOMAIN req.files |-> i] ELSE <<>>
        live == SelectSeq(is, LAMBDA i : <<"upload", i>> \in DOMAIN files /\ req.files[i].docx)
    IN Dedupe([k \in DOMAIN live |-> Candidate(<<"upload", live[k]>>, req.files[live[k]])])

\* search_terms: what is quoted first.
SearchTerms == (IF req.quoted THEN <<"quoted">> ELSE <<>>) \o <<"report template", "report", "template">>
Named(term) ==
    LET ks == SelectSeq([k \in DOMAIN Documents |-> k], LAMBDA k : term \in Documents[k].terms)
    IN [i \in DOMAIN ks |-> Candidate(<<"document", ks[i]>>, Documents[ks[i]])]
\* _collected_candidates: the first term that finds a file.
Collected ==
    LET terms == SelectSeq(SearchTerms, LAMBDA t : Named(t) # <<>>)
    IN IF terms = <<>> THEN <<>> ELSE Dedupe(Named(terms[1]))
\* UPLOADED_MARKERS: the message of the page that names a template holds one.
WantsUploaded == turn = 2 \/ req.uploaded

Take(cs) ==
    /\ found' = cs
    /\ \/ cs = <<>> /\ Says("no_template")
       \/ Len(cs) = 1 /\ pc' = "read" /\ UNCHANGED outcome
       \/ Len(cs) > 1 /\ pc' = "copy" /\ UNCHANGED outcome

\* _resolve_template and resolve_template.  A search that fails is one that found nothing.
ResolveTemplate ==
    /\ pc = "template"
    /\ IF turn = 2 /\ pick.id \in DOMAIN files
       THEN Take(<<[None EXCEPT !.id = pick.id, !.of = files[pick.id]]>>) /\ UNCHANGED faults
       ELSE IF WantsUploaded THEN Take(Uploaded) /\ UNCHANGED faults
       ELSE \/ Take(IF Collected # <<>> THEN Collected ELSE Uploaded) /\ UNCHANGED faults
            \/ Fault /\ Take(Uploaded)
    /\ UNCHANGED <<req, turn, pick, today, window, used, evidence, shown, files, attempt>>

\* _materialize_candidate: a collected template is copied, so that it can be looked at.
\* Knowledge does not know an upload, and a copy that fails leaves the id as it is.
Materialize ==
    /\ pc = "copy"
    /\ \E ok \in SUBSET {i \in DOMAIN found : found[i].id[1] = "document"} :
         LET failed == Cardinality({i \in DOMAIN found : found[i].id[1] = "document"} \ ok)
             copies == {<<"copy", found[i].id[2]>> : i \in ok}
         IN /\ faults + failed <= MaxFaults /\ faults' = faults + failed
            /\ files' = [id \in copies \cup DOMAIN files |->
                           IF id \in copies THEN Documents[id[2]].of ELSE files[id]]
            /\ found' = [i \in DOMAIN found |->
                           IF i \in ok THEN [found[i] EXCEPT !.id = <<"copy", @[2]>>] ELSE found[i]]
    /\ Says("needs_selection")
    /\ UNCHANGED <<req, turn, pick, today, window, used, evidence, shown, attempt>>

\* chooseReportTemplate: the page sends a message that names the copy.
ChooseReportTemplate(i) ==
    /\ pc = "told" /\ outcome.status = "needs_selection"
    /\ turn' = 2 /\ pick' = found[i] /\ pc' = "person" /\ outcome' = Untold /\ attempt' = 1
    /\ window' = NoWindow /\ found' = <<>>
    /\ UNCHANGED <<req, today, used, evidence, shown, files, faults>>

\* _read_template: what cannot be read ends the turn, no other layout takes its place.
ReadTemplate ==
    /\ pc = "read"
    /\ \/ /\ found[1].id[1] # "document" => found[1].id \in DOMAIN files
          /\ used' = found[1] /\ pc' = "evidence" /\ UNCHANGED <<outcome, faults>>
       \/ /\ found[1].id[1] # "document" /\ found[1].id \notin DOMAIN files
          /\ Says("no_template") /\ UNCHANGED <<used, faults>>
       \/ Fault /\ Says("no_template") /\ UNCHANGED used
    /\ UNCHANGED <<req, turn, pick, today, window, found, evidence, shown, files, attempt>>

-----------------------------------------------------------------------------
(* What is said.                                                             *)

\* collect_resource_ids: of the week, what the person wrote, the chats with him, and what
\* names him, where he has a name that can be searched for.
InScope(c) ==
    /\ c.day >= window.from /\ c.day < window.to
    /\ c.who = req.who
    /\ c.via = "mention" => req.named
\* search_content returns any part of it, in an order of its own.
Evidence ==
    /\ pc = "evidence"
    /\ \/ Again
       \/ /\ \E s \in SUBSET {k \in DOMAIN Chunks : InScope(Chunks[k])} : evidence' = SetToSortSeq(s, <)
          /\ pc' = "draft"
          /\ UNCHANGED <<req, turn, pick, today, window, found, used, shown, files, outcome, attempt, faults>>

\* _citations: a file once for every conversation it is in, a message once.
Source(c) == IF c.kind = "attachment" THEN <<"document", c.conv, c.title>> ELSE <<"message", c.res, "">>
Citations(s) ==
    FoldLeft(LAMBDA out, k : IF \E i \in DOMAIN out : Source(Chunks[out[i]]) = Source(Chunks[k]) THEN out ELSE Append(out, k),
             <<>>, s)

\* parse_template: the rows of a table after its header and its rule, and what holds a
\* placeholder.  The number of a row begins anew with every table.
Section(ps, i) ==
    LET hs == {h \in 1..i : ps[h].kind = "heading"}
    IN IF hs = {} THEN "" ELSE ps[CHOOSE h \in hs : \A k \in hs : k <= h].name
TableStart(ps, i) == CHOOSE h \in 1..i : (h = 1 \/ ps[h - 1].kind # "row") /\ \A k \in h..i : ps[k].kind = "row"
IsSlot(ps, i) ==
    \/ ps[i].kind \in {"field", "bullet"}
    \/ ps[i].kind = "row" /\ i >= TableStart(ps, i) + 2
SlotKey(ps, i) ==
    CASE ps[i].kind = "row" -> <<"row", Section(ps, i), i - TableStart(ps, i) - 2>>
      [] ps[i].kind = "bullet" ->
           <<"bullet", Section(ps, i),
             Cardinality({k \in 1..i - 1 : ps[k].kind = "bullet" /\ Section(ps, k) = Section(ps, i)})>>
      [] OTHER -> <<"field", ps[i].name, 0>>
Slots(ps) ==
    [i \in {k \in DOMAIN ps : IsSlot(ps, k)} |->
       [kind |-> ps[i].kind, key |-> SlotKey(ps, i), section |-> Section(ps, i), label |-> ps[i].name]]

\* What a model gives for a slot: work, what is private, or that there is nothing.
Drafts == {"work", "private", "nothing"}
\* clean_text, normalize_empty_text, is_empty_value.
Clean(raw) == IF raw \in {"private", "nothing"} THEN "" ELSE raw

Rows(slots, section) == {i \in DOMAIN slots : slots[i].kind = "row" /\ slots[i].section = section}
Full(slots, d, i) == Clean(d[slots[i].key]) # ""
\* An empty row says so if it is the first of a section that has no other.
Announces(slots, d, i) ==
    \A j \in Rows(slots, slots[i].section) : ~ Full(slots, d, j) /\ j >= i
SlotValue(slots, d, i) ==
    CASE slots[i].label = "person" -> "name"
      [] slots[i].label = "period" -> "week"
      [] OTHER ->
           LET text == Clean(d[slots[i].key])
           IN CASE text # "" -> text
                [] text = "" /\ slots[i].kind = "row" -> IF Announces(slots, d, i) THEN "none" ELSE ""
                [] text = "" /\ slots[i].kind = "field" -> "not inferred"
                [] OTHER -> "none"
\* build_slot_values and render_report: a value is kept under the key of its slot, so the
\* last slot of a key is written to all.
Rendered(slots, d) ==
    [i \in DOMAIN slots |->
       LET last == CHOOSE j \in DOMAIN slots : slots[j].key = slots[i].key
                     /\ \A k \in DOMAIN slots : slots[k].key = slots[i].key => k <= j
       IN SlotValue(slots, d, last)]

Asked(slots) == {slots[i].key : i \in {j \in DOMAIN slots : slots[j].label \notin {"person", "period"}}}
\* generate: an output that cannot be read is repaired once, and ends the step after that.
Draft ==
    /\ pc = "draft"
    /\ \/ Again
       \/ LET slots == Slots(Form[used.of])
          IN \E d \in [Asked(slots) -> Drafts] : shown' = Rendered(slots, d)
          /\ pc' = "save"
          /\ UNCHANGED <<req, turn, pick, today, window, found, used, evidence, files, outcome, attempt, faults>>

\* AgentAttachmentStore.save: the object, then the record that makes it one.
Save ==
    /\ pc = "save"
    /\ \/ Again
       \/ /\ files' = [id \in DOMAIN files \cup {<<"report", turn>>} |->
                          IF id = <<"report", turn>> THEN used.of ELSE files[id]]
          /\ outcome' = [status |-> "ready", of |-> used.of, artifact |-> <<"report", turn>>,
                         cited |-> Citations(evidence)]
          /\ pc' = "told"
          /\ UNCHANGED <<req, turn, pick, today, window, found, used, evidence, shown, attempt, faults>>

-----------------------------------------------------------------------------
(* The store of the agent.                                                   *)

\* A record lasts 24 hours.  It is bounded with the faults, and past the end nothing reads it.
Expire(id) ==
    /\ Fault /\ pc # "failed" /\ outcome.status \in {"none", "needs_selection"}
    /\ files' = [i \in DOMAIN files \ {id} |-> files[i]]
    /\ UNCHANGED <<req, turn, pick, pc, today, window, found, used, evidence, shown, outcome, attempt>>

Next ==
    \/ ResolvePerson \/ ResolveTemplate \/ Materialize \/ ReadTemplate
    \/ \E i \in DOMAIN found : ChooseReportTemplate(i)
    \/ Evidence \/ Draft \/ Save
    \/ \E id \in DOMAIN files : Expire(id)

-----------------------------------------------------------------------------
TypeOK ==
    /\ req \in Requests /\ turn \in 1..2 /\ today \in FirstDay..LastDay
    /\ pc \in {"person", "template", "copy", "read", "evidence", "draft", "save", "told", "failed"}
    /\ \A i \in DOMAIN found : found[i].of \in DOMAIN Form /\ found[i].id[1] \in {"upload", "document", "copy"}
    /\ \A id \in DOMAIN files : files[id] \in DOMAIN Form
    /\ \A i \in DOMAIN evidence : evidence[i] \in DOMAIN Chunks
    /\ used = None \/ used.of \in DOMAIN Form
    /\ outcome.status \in {"none", "no_person", "needs_person_choice", "no_template", "needs_selection", "ready"}
    /\ pc = "told" <=> outcome.status # "none"
    /\ attempt \in 1..Attempts /\ faults \in 0..MaxFaults

IsReady == outcome.status = "ready"
OfOneKind(c, d) == c.hash = "" /\ c.name = d.name /\ c.size = d.size

\* A report follows the template its owner picked; where he was not asked, no other that
\* he attached, or that has the same words in its name, can be told from it by a name, a
\* size or a hash; and one he says he attached is not looked for among the collected
\* (resolve_template, dedupe_key, chooseReportTemplate).
FollowsTheChoice ==
    IsReady =>
        /\ turn = 2 => outcome.of = pick.of
        /\ turn = 1 /\ req.uploaded => used.id[1] = "upload"
        /\ turn = 1 /\ used.id[1] = "upload" =>
             \A i \in DOMAIN req.files :
                 req.files[i].docx /\ <<"upload", i>> \in DOMAIN files
                    => req.files[i].of = outcome.of \/ OfOneKind(req.files[i], used)
        /\ turn = 1 /\ used.id[1] = "document" =>
             \A k \in DOMAIN Documents :
                 Documents[k].terms = Documents[used.id[2]].terms
                    => Documents[k].of = outcome.of \/ OfOneKind(Documents[k], used)

\* Who attached a template is told that there is none only if the one that was chosen
\* cannot be read (resolve_template, _read_template).
NeverToldNone ==
    outcome.status = "no_template" /\ turn = 1 =>
        \/ found # <<>>
        \/ \A i \in DOMAIN req.files : req.files[i].docx => <<"upload", i>> \notin DOMAIN files

\* A report covers the week its message names, a whole one from a Monday, or else the
\* last that is complete, and cites nothing of another (resolve_week, collect_resource_ids).
CoversTheWeek ==
    IsReady =>
        /\ \A i \in DOMAIN outcome.cited : Chunks[outcome.cited[i]].day \in window.from..window.to - 1
        /\ IF Phrase.kind = "range" /\ Phrase.from <= Phrase.to
           THEN window.from = Phrase.from /\ window.to - 1 = Phrase.to
           ELSE /\ window.from % 7 = 0 /\ window.to = window.from + 7
                /\ today - 7 * (IF Phrase.kind = "ago" THEN Phrase.n ELSE 1) \in window.from..window.to - 1

\* A section of rows that has nothing to say says so once, one that has does not, and no
\* slot says what is private; but two tables in one section share their keys
\* (build_slot_values, parse_template).
SaysNoneOnce ==
    IsReady =>
        LET slots == Slots(Form[outcome.of]) IN
        \A i \in DOMAIN slots :
            /\ shown[i] # "private"
            /\ LET rows == Rows(slots, slots[i].section)
               IN rows # {} /\ (\A j, k \in rows : slots[j].key = slots[k].key => j = k) =>
                    Cardinality({j \in rows : shown[j] = "none"})
                      = IF \E j \in rows : shown[j] = "work" THEN 0 ELSE 1

\* Every source of what the model read is listed, and once (_citations).
CitesOnce ==
    IsReady =>
        /\ \A i, j \in DOMAIN outcome.cited :
              Source(Chunks[outcome.cited[i]]) = Source(Chunks[outcome.cited[j]]) => i = j
        /\ {Source(Chunks[k]) : k \in ToSet(evidence)} = {Source(Chunks[k]) : k \in ToSet(outcome.cited)}

Reported == FollowsTheChoice /\ NeverToldNone /\ CoversTheWeek /\ SaysNoneOnce /\ CitesOnce
=============================================================================
