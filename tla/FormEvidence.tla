---------------------------- MODULE FormEvidence ----------------------------
(****************************************************************************)
(* Where form.preview takes the values of a draft from: it reads whose form *)
(* it is out of the request, resolves that subject to the messages which    *)
(* may speak for it, and reads one column after the other out of them.      *)
(*                                                                          *)
(* A message is a record; message 1 is the oldest.  says[c] is what the     *)
(* label grammar reads for column c and the type check lets through, and    *)
(* tells[c] what only a model reader finds.  Every call of RAG may fail and *)
(* a ranked search may return any part of what matches.                     *)
(****************************************************************************)
EXTENDS Naturals, Sequences, FiniteSets, SequencesExt

CONSTANTS
    Message,     \* [by, private, names, carrier, company, says, tells]
    Column,      \* the columns in order: [name, kind], kind "personal" or "company"
    Setups,      \* [written, given, resolver, known, named, reader]
    MaxFields,   \* MAX_RETRIEVAL_FIELDS
    MaxFaults    \* bound on the calls that fail

Messages == DOMAIN Message
Names == {Column[i].name : i \in DOMAIN Column}
Nobody == "nobody"

VARIABLES
    setup,    \* the request and the deployment
    pc,       \* where the preview stands
    asked,    \* the scopes still to be read, the first in front
    plan,     \* how the scope in hand is read
    todo,     \* the columns still to be read in it
    got,      \* the values taken from it
    hits,     \* the values found: column -> [value, scope, tier, from, read]
    reports,  \* [unresolved, truncated, strict]: what the owner is told of
    faults

vars == <<setup, pc, asked, plan, todo, got, hits, reports, faults>>

NoPlan == [kind |-> "none", scope |-> Nobody, chunks |-> {}, parts |-> {}, strict |-> FALSE]

-----------------------------------------------------------------------------
(* Whose form is it?                                                         *)

\* What the frames of the rules find in the request, and _is_invalid_candidate lets pass.
Written == setup.written

\* validate_subject_mention: a model may name anybody, but a name that the request does
\* not hold is no answer, and the marker in the name decides what kind of name it is.
Validated(m) == IF m \in {"self", "unspecified"} \/ m = Written THEN m ELSE "invalid"

\* extract_subject_mention: an answer with little confidence, an invalid one and none at
\* all leave it to the frames of the rules, which find what is written.
Mention(m, sure) == IF sure /\ Validated(m) # "invalid" THEN Validated(m) ELSE Written

\* infer_scopes: without a subject the columns say whose data they ask for.
Kinds == {Column[i].kind : i \in DOMAIN Column}
InferScopes ==
    (IF "personal" \in Kinds \/ "company" \notin Kinds THEN <<"self">> ELSE <<>>)
      \o (IF "company" \in Kinds THEN <<"company">> ELSE <<>>)
ResolveScopes(m) == IF m = "unspecified" THEN InferScopes ELSE <<m>>

IsOrganization(scope) == scope \in {"company", "organization"}

-----------------------------------------------------------------------------
(* The messages of a scope.                                                  *)

Chunk(m, g, r) == [m |-> m, group |-> g, role |-> r]
Who(m) == IF Message[m].by = "subject" THEN "subject" ELSE "other"

\* PersonResourceScope.resolve: what he sent, the private chats with him, and for every
\* name of his what mentions it.
Export(known) ==
    IF ~ known THEN {}
    ELSE {Chunk(m, "sent", "subject") : m \in {n \in Messages : Who(n) = "subject"}}
         \cup {Chunk(m, "private", "other") : m \in {n \in Messages : Message[n].private /\ Who(n) = "other"}}
         \cup {Chunk(m, "mention", Who(m)) : m \in {n \in Messages : Message[n].names}}

\* _resolve_by_name: what holds the word, or is filed under it.
OfName(scope) == IF ~ IsOrganization(scope) THEN {m \in Messages : Message[m].names \/ Message[m].carrier}
                 ELSE {m \in Messages : Message[m].company}
Signed(m) == setup.named /\ Who(m) = "subject"

\* The part of a scope that one search covers.  The filters of the sources "sent" and
\* "private" carry ids of resources where RAG compares ids of senders and of chats.
Covers(part, scope) ==
    CASE part = "sent" -> {}
      [] part = "private" -> {}
      [] part = "mention" -> {m \in Messages : Message[m].names}
      [] part = "name" -> OfName(scope)
      [] OTHER -> Messages

\* _tag: what a search of the source "sent" returns counts as his own.
Tagged(m, part) == Chunk(m, part, IF part = "sent" THEN "subject" ELSE "none")

\* _is_subject_authored
Authored_NoMention(c) == c.group # "mention"     \* mutant
Authored(c) ==
    /\ c.group # "mention"
    /\ IF c.role # "none" THEN c.role = "subject" ELSE Signed(c.m)

\* attribution_tier
Tier(c, scope) ==
    CASE c.group = "sent" -> IF c.role = "subject" \/ ~ setup.named \/ Signed(c.m) THEN "a" ELSE "b"
      [] c.group = "review" -> "b"
      [] c.group = "private" -> IF c.role = "subject" \/ Signed(c.m) THEN "a" ELSE "b"
      [] c.group = "mention" -> IF Message[c.m].names THEN "a" ELSE "b"
      [] OTHER -> IF Message[c.m].carrier THEN "a" ELSE IF c.m \in OfName(scope) THEN "b" ELSE "c"

\* _context: the messages around, which count as sent, by whom they say.
Around(ms) == {n \in Messages : \E m \in ms : n + 1 = m \/ m + 1 = n}
WithContext(cs) ==
    LET ms == {c.m : c \in cs} IN cs \cup {Chunk(n, "sent", "none") : n \in Around(ms) \ ms}

-----------------------------------------------------------------------------
(* One value.                                                                *)

Says(m, name) == Message[m].says[name]        \* extract_values
Tells(m, name) == Message[m].tells[name]      \* LlmFormValueExtractor.extract
Value(c, name, reader) == IF reader = "grammar" THEN Says(c.m, name) ELSE Tells(c.m, name)
Rank(g) == CASE g = "sent" -> 3 [] g = "private" -> 2 [] OTHER -> 1

\* consider: of what may speak, the newest wins.
May(cs, name, reader, p) ==
    {c \in cs : /\ Value(c, name, reader) # "none"
                /\ p.strict => Authored(c)
                /\ Tier(c, p.scope) # "c"}
Newest(cs) == CHOOSE c \in cs : \A d \in cs : c.m > d.m \/ (c.m = d.m /\ Rank(c.group) >= Rank(d.group))

\* _hit_for_field: the grammar first, and a model only where the grammar reads nothing.
Hits(cs, name, p) ==
    LET readers == {r \in {"grammar", "model"} : May(cs, name, r, p) # {} /\ (r = "model" => setup.reader)}
        reader == IF "grammar" \in readers THEN "grammar" ELSE "model"
        best == Newest(May(cs, name, reader, p))
    IN {[value |-> Value(best, name, reader), scope |-> p.scope, tier |-> Tier(best, p.scope),
         from |-> best, read |-> reader] : r \in IF readers = {} THEN {} ELSE {reader}}

Used == {hits[n].value : n \in DOMAIN hits}
Put(name, hit) == [n \in DOMAIN hits \cup {name} |-> IF n = name THEN hit ELSE hits[n]]

-----------------------------------------------------------------------------
Init ==
    /\ setup \in Setups
    /\ pc = "subject"
    /\ asked = <<>> /\ plan = NoPlan /\ todo = <<>> /\ got = 0
    /\ hits = <<>>
    /\ reports = [unresolved |-> {}, truncated |-> {}, strict |-> {}]
    /\ faults = 0

Fault == faults < MaxFaults /\ faults' = faults + 1
Pending == SelectSeq([i \in DOMAIN Column |-> Column[i].name],
                     LAMBDA n : n \notin setup.given /\ n \notin DOMAIN hits)

\* extract_subject: the model answers, surely or not, or fails; then the rules read.
ReadSubject ==
    /\ pc = "subject"
    /\ \/ \E m \in {"self", "person", "organization", "unspecified"}, sure \in BOOLEAN :
             asked' = ResolveScopes(Mention(m, sure)) /\ UNCHANGED faults
       \/ asked' = ResolveScopes(Written) /\ Fault
    /\ pc' = "scope"
    /\ UNCHANGED <<setup, plan, todo, got, hits, reports>>

Person(scope) == setup.resolver /\ ~ IsOrganization(scope)
Begin(p, fs, scope) ==
    /\ plan' = p
    /\ todo' = SubSeq(Pending, 1, IF Len(Pending) < MaxFields THEN Len(Pending) ELSE MaxFields)
    /\ got' = 0
    /\ reports' = [reports EXCEPT !.strict = IF p.strict THEN @ \cup {scope} ELSE @,
                                  !.truncated = IF fs THEN @ \cup {scope} ELSE @]
    /\ pc' = "column"
    /\ UNCHANGED asked

\* Nobody is known under that name, or the call failed: the next scope is read.
Unknown(scope) ==
    /\ reports' = [reports EXCEPT !.unresolved = @ \cup {scope}]
    /\ asked' = Tail(asked)
    /\ UNCHANGED <<pc, plan, todo, got>>

\* _scope_plan: the whole window if it could be exported, otherwise searches in its parts;
\* where a person is known by name, only in what he sent.
PersonPlan(cs, cut, scope) ==
    IF cs = {} THEN Unknown(scope)
    ELSE IF ~ cut THEN Begin([kind |-> "exported", scope |-> scope, chunks |-> cs, parts |-> {}, strict |-> setup.named], FALSE, scope)
    ELSE LET groups == {c.group : c \in cs}
         IN Begin([kind |-> "retrieval", scope |-> scope, chunks |-> {},
                   parts |-> IF setup.named THEN groups \cap {"sent"} ELSE groups,
                   strict |-> setup.named], TRUE, scope)
Search(part, scope) ==
    Begin([kind |-> "retrieval", scope |-> scope, chunks |-> {}, parts |-> {part}, strict |-> FALSE], FALSE, scope)

PlanScope ==
    /\ pc = "scope" /\ asked # <<>> /\ Pending # <<>>
    /\ LET scope == Head(asked) IN
         \/ scope = "self" /\ ~ setup.resolver /\ Search("review", scope) /\ UNCHANGED faults
         \/ Person(scope) /\ PersonPlan(Export(setup.known), FALSE, scope) /\ UNCHANGED faults
         \* a page failed twice, or the window is too wide
         \/ Person(scope) /\ Fault /\ \E cs \in SUBSET Export(setup.known) : PersonPlan(cs, TRUE, scope)
         \* the name could not be resolved
         \/ Person(scope) /\ Fault /\ Unknown(scope)
         \/ /\ ~ Person(scope) /\ scope # "self"
            /\ \/ /\ IF OfName(scope) = {} THEN Unknown(scope) ELSE Search("name", scope)
                  /\ UNCHANGED faults
               \/ Fault /\ Unknown(scope)
    /\ UNCHANGED <<setup, hits>>

\* The candidates of one column: the window itself, or what the ranked search, the newest
\* of the scope and the search for the word of the column bring, and the messages around.
CandidatesForColumn(pool, context) ==
    LET own == {c \in pool : plan.strict => Authored(c)}
    IN IF plan.kind = "exported" THEN own ELSE IF context THEN WithContext(own) ELSE own
Pools ==
    IF plan.kind = "exported" THEN {plan.chunks}
    ELSE SUBSET UNION {{Tagged(m, part) : m \in Covers(part, plan.scope)} : part \in plan.parts}

ReadColumn ==
    /\ pc = "column" /\ todo # <<>>
    /\ LET name == Head(todo)
           Take(pool, context) ==
               LET found == Hits(CandidatesForColumn(pool, context), name, plan)
                   new == {h \in found : h.value \notin Used}
               IN IF new = {} THEN UNCHANGED <<hits, got>>
                  ELSE hits' = Put(name, CHOOSE h \in new : TRUE) /\ got' = got + 1
       IN \/ \E pool \in Pools : Take(pool, TRUE) /\ UNCHANGED faults
          \/ plan.kind = "retrieval" /\ Fault /\ (Take({}, FALSE) \/ \E pool \in Pools : Take(pool, FALSE))
    /\ todo' = Tail(todo)
    /\ UNCHANGED <<setup, pc, asked, plan, reports>>

\* A subject that gave nothing is reported, but for the owner whom nobody could name.
EndScope ==
    /\ pc = "column" /\ todo = <<>>
    /\ reports' = [reports EXCEPT !.unresolved =
                     IF got = 0 /\ (plan.scope # "self" \/ plan.strict) THEN @ \cup {plan.scope} ELSE @]
    /\ asked' = Tail(asked) /\ plan' = NoPlan /\ pc' = "scope"
    /\ UNCHANGED <<setup, todo, got, hits, faults>>

Draft ==
    /\ pc = "scope" /\ (asked = <<>> \/ Pending = <<>>)
    /\ pc' = "draft"
    /\ UNCHANGED <<setup, asked, plan, todo, got, hits, reports, faults>>

Next == ReadSubject \/ PlanScope \/ ReadColumn \/ EndScope \/ Draft

-----------------------------------------------------------------------------
\* Every variable holds what the preview can hold.
TypeOK ==
    /\ setup \in Setups
    /\ pc \in {"subject", "scope", "column", "draft"}
    /\ DOMAIN hits \subseteq Names \ setup.given
    /\ \A n \in DOMAIN hits : hits[n].tier \in {"a", "b"} /\ hits[n].from.m \in Messages
    /\ UNION {reports.unresolved, reports.truncated, reports.strict}
         \subseteq {"self", "company", "person", "organization"}
    /\ got \in 0..Len(Column) /\ faults \in 0..MaxFaults

Drafted == pc = "draft"

\* Of a person who is known by name every value is from a message that he wrote himself,
\* and counts as confirmed, whoever else wrote about him (_is_subject_authored).
OwnWords == \A n \in DOMAIN hits : hits[n].scope \in reports.strict =>
    Message[hits[n].from.m].by = "subject" /\ hits[n].tier = "a"

\* An old statement of his never outranks a newer one that the grammar can read
\* (_hit_for_field), unless his messages could not all be read.
NewestCounts == \A n \in DOMAIN hits :
    hits[n].scope \in reports.strict \ reports.truncated =>
        \A m \in Messages : Message[m].by = "subject" /\ Message[m].says[n] # "none" =>
            m <= hits[n].from.m /\ hits[n].read = "grammar"

\* No value stands in two columns (_collect_from_knowledge).
OnceEach == \A a, b \in DOMAIN hits : a # b => hits[a].value # hits[b].value

\* A column of a known person is left empty only if he never stated its value, or what he
\* stated last already stands in another column; calls that fail and columns beyond the
\* limit aside.
NothingLost ==
    Drafted /\ faults = 0 /\ Len(Column) <= MaxFields /\ reports.strict # {} =>
        \A n \in Names \ (setup.given \cup DOMAIN hits) :
            \A m \in Messages : Message[m].by = "subject" /\ Message[m].says[n] # "none" =>
                \E k \in Messages : k >= m /\ Message[k].by = "subject" /\ Message[k].says[n] \in Used

\* The draft speaks for its subject.
Evidenced == OwnWords /\ NewestCounts /\ OnceEach /\ NothingLost
=============================================================================
