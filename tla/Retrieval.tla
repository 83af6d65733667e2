------------------------------ MODULE Retrieval ------------------------------
(****************************************************************************)
(* One request to the search service, from the entry point to what the reader *)
(* sees, while Core grants and revokes what the reader may read.              *)
(*                                                                            *)
(* The service takes candidates from an index it cannot filter by permission  *)
(* and checks each one by itself: once for the anchors, once for the originals*)
(* that replace masked text, once for the neighbours. A chunk is masked       *)
(* ("display") or an original ("protected"); two chunks with the same place   *)
(* are the two forms of one text.                                             *)
(****************************************************************************)
EXTENDS Integers, FiniteSets, FiniteSetsExt

CONSTANTS
    Chunks,
    Item, Resource,       \* the knowledge item, and the message or attachment, of a chunk
    Attachments,          \* the resources that are attachments
    Protected,            \* the chunks with the original text
    Place, Index,         \* logical_position_key and chunk_index
    Entities, Mounted,    \* the entities, and those a chunk is mounted on
    Related,              \* find_related_entities, one hop
    AnchorsPerItem, ChunksPerItem,
    MaxChanges, MaxFaults

VARIABLES
    rights,               \* the keys Core grants the reader now
    ever, always,         \* those it granted at some time, and all the time, since the start
    request,              \* the entry, the mode of the tree, and include_protected
    pc,
    located,              \* the entities the query was resolved to
    found,                \* the candidates of the channels that count
    hits,                 \* the anchors, then what replaced them
    near,                 \* the neighbours
    shown,                \* what the reader gets
    message,              \* the assistant message of a question, as stored
    changes, faults

vars == <<rights, ever, always, request, pc, located, found, hits, near, shown, message,
          changes, faults>>

Entries == {"keyword", "global", "knowledge", "sources", "content", "ai", "tree", "context",
            "export"}
Modes == {"off", "shadow", "skipped", "tree"}

\* _access_check: what must be granted for a chunk to be shown.
Key(c) == CASE Resource[c] \in Attachments -> <<"content", Resource[c]>>
            [] c \in Protected -> <<"original", Item[c]>>
            [] OTHER -> <<"display", Item[c]>>
Original(c) == <<"original", Item[c]>>
Keys == {Key(c) : c \in Chunks} \cup {Original(c) : c \in Chunks}

Init ==
    /\ rights \in SUBSET Keys
    /\ ever = rights /\ always = rights
    /\ request \in [entry : Entries, mode : Modes, include : BOOLEAN]
    /\ (request.entry # "tree" => request.mode = "off")
    /\ pc = "begin"
    /\ located = {} /\ found = {} /\ hits = {} /\ near = {} /\ shown = {}
    /\ message = "none"
    /\ changes = 0 /\ faults = 0

Fault == faults < MaxFaults /\ faults' = faults + 1

\* Core: a grant or a revocation.
Change(k) ==
    /\ pc \notin {"done", "denied", "unavailable", "left"}
    /\ changes < MaxChanges /\ changes' = changes + 1
    /\ IF k \in rights
       THEN rights' = rights \ {k} /\ always' = always \ {k} /\ UNCHANGED ever
       ELSE rights' = rights \cup {k} /\ ever' = ever \cup {k} /\ UNCHANGED always
    /\ UNCHANGED <<request, pc, located, found, hits, near, shown, message, faults>>

------------------------------------------------------------------------------
\* A question is filed, with its answer to come, before the search starts.
Asked == IF request.entry = "ai" THEN "streaming" ELSE "none"
Refused == IF request.entry = "ai" THEN "failed" ELSE "none"

StartQuestion ==
    /\ pc = "begin" /\ message # Asked
    /\ message' = Asked
    /\ UNCHANGED <<rights, ever, always, request, pc, located, found, hits, near, shown, changes,
                   faults>>

Plain == request.entry \in {"context", "export"}

\* search_scope: without a complete answer from Core there is no search; a scope that
\* is not available leaves only masked text.
Scope ==
    /\ pc = "begin" /\ message = Asked
    /\ \/ /\ pc' = IF request.entry = "tree" /\ request.mode \in {"shadow", "tree"}
                   THEN "locate" ELSE "search"
          /\ request' \in {request, [request EXCEPT !.include = FALSE]}
          /\ UNCHANGED <<message, faults>>
       \/ pc' \in {"denied", "unavailable"} /\ Fault /\ message' = Refused /\ UNCHANGED request
    /\ UNCHANGED <<rights, ever, always, located, found, hits, near, shown, changes>>

------------------------------------------------------------------------------
\* EntityLocator: how a mention matches each entity, from the best to none at all.
Levels == <<"exact", "sure", "weak", "substring", "poor", "none">>
Matches == [Entities -> {Levels[i] : i \in DOMAIN Levels}]
Rank(level) == CHOOSE i \in DOMAIN Levels : Levels[i] = level

\* _resolve_mention: an exact match hides all others.
Exact(match) == {e \in Entities : match[e] = "exact"}
Offered(match) ==
    IF Exact(match) # {} THEN Exact(match) ELSE {e \in Entities : match[e] # "none"}
Best(match) ==
    {e \in Offered(match) : \A d \in Offered(match) : Rank(match[e]) <= Rank(match[d])}

\* _needs_verification: a weak best match, or two that cannot be told apart.
NeedsVerification(match) ==
    \/ \E e \in Best(match) : match[e] \in {"weak", "substring", "poor"}
    \/ Cardinality(Best(match)) > 1

\* _verify: the model names one of the candidates, or its answer does not count.
Verified(match) ==
    {{e} : e \in Offered(match)}
        \cup (IF \A e \in Best(match) : match[e] \in {"exact", "sure"}
              THEN {{e} : e \in Best(match)} ELSE {{}})

\* Without the model a match by containment is dropped, and with it a poor one as well.
Unverified(match) ==
    IF Exact(match) # {} THEN {Offered(match)}
    ELSE {{e} \ {d \in Entities : match[d] = "substring"} : e \in Best(match)}

Located(match, llm) ==
    {es \ {e \in Entities : match[e] = "poor"} :
        es \in CASE Offered(match) = {} -> {{}}
                 [] llm /\ NeedsVerification(match) -> Verified(match)
                 [] OTHER -> Unverified(match)}

Locate ==
    /\ pc = "locate"
    /\ \E match \in Matches, llm \in BOOLEAN : located' \in Located(match, llm)
    /\ pc' = "search"
    /\ UNCHANGED <<rights, ever, always, request, found, hits, near, shown, message, changes,
                   faults>>

------------------------------------------------------------------------------
\* The index knows the scope and the mounts, not the reader's rights.
Readable == IF request.include THEN Chunks ELSE Chunks \ Protected
On(es) == {c \in Readable : Mounted[c] \cap es # {}}
Relatives(es) == Related[es]

\* A channel returns any of them, what the score gate drops left out.
Channel(cs) == SUBSET cs

\* search_message_context: masked messages only.
Context == {c \in Chunks \ Protected : Resource[c] \notin Attachments}

\* The channels that run for the entry; the tree never uses the unscoped ones, except in
\* the shadow phase, where they are all that counts.
Unscoped == request.entry # "tree" \/ request.mode = "shadow"

SearchUnscoped ==
    /\ pc = "search" /\ Unscoped
    /\ \/ /\ found' \in Channel(IF request.entry = "context" THEN Context ELSE Readable)
          /\ pc' = IF Plain THEN "plain" ELSE "fuse"
          /\ UNCHANGED <<message, faults>>
       \/ Fault /\ pc' = "unavailable" /\ message' = Refused /\ UNCHANGED found
    /\ UNCHANGED <<rights, ever, always, request, located, hits, near, shown, changes>>

\* The tree: what is mounted on the entities, and when that is little also what is
\* mounted on their relatives (_expand_relations). Nothing stands in for a failure.
SearchTree ==
    /\ pc = "search" /\ ~Unscoped
    /\ \/ /\ request.mode = "tree"
          /\ \E own \in Channel(On(located)) :
                \/ found' = own
                \/ /\ Cardinality(own) <= 1
                   /\ \E also \in Channel(On(Relatives(located))) : found' = own \cup also
          /\ UNCHANGED faults
       \/ request.mode # "tree" /\ found' = {} /\ UNCHANGED faults
       \/ Fault /\ found' = {}
    /\ pc' = "fuse"
    /\ UNCHANGED <<rights, ever, always, request, located, hits, near, shown, message, changes>>

------------------------------------------------------------------------------
ByResource == request.entry \in {"keyword", "global"}
Slot(c) == IF ByResource THEN Resource[c] ELSE Place[c]

\* rrf_fuse: one chunk for each slot, and it is an original if there is one.
Fused ==
    {f \in SUBSET found :
        \A s \in {Slot(c) : c \in found} :
            LET there == {c \in found : Slot(c) = s}
                originals == there \cap Protected IN
            \E c \in (IF originals # {} THEN originals ELSE there) : f \cap there = {c}}

AnchorLimit == CASE request.entry \in {"sources", "keyword", "global"} -> 1
                 [] request.entry = "content" -> 3
                 [] OTHER -> AnchorsPerItem
ChunkLimit == IF request.entry \in {"sources", "keyword", "global", "content"} THEN AnchorLimit
              ELSE ChunksPerItem

OfResource(cs, r) == {c \in cs : Resource[c] = r}
Resources(cs) == {Resource[c] : c \in cs}

\* select_anchors: the best of each resource.
Anchors(f) ==
    {a \in SUBSET f : \A r \in Resources(f) :
        Cardinality(OfResource(a, r)) =
            (IF Cardinality(OfResource(f, r)) < AnchorLimit
             THEN Cardinality(OfResource(f, r)) ELSE AnchorLimit)}

\* _authorize_results, by check_batch: an answer for every chunk, or nothing.
Granted(cs) == {c \in cs : Key(c) \in rights}

Fuse ==
    /\ pc = "fuse"
    /\ \E f \in Fused : hits' \in Anchors(f)
    /\ pc' = "authorize"
    /\ UNCHANGED <<rights, ever, always, request, located, found, near, shown, message, changes,
                   faults>>

Authorize ==
    /\ pc = "authorize"
    /\ \/ hits' = Granted(hits) /\ UNCHANGED faults
       \/ Fault /\ hits' = {}
    /\ pc' = "upgrade"
    /\ UNCHANGED <<rights, ever, always, request, located, found, near, shown, message, changes>>

\* _upgrade_protected_variants: the originals of the items the reader may read in full,
\* as many as the page holds, take the places of the masked ones.
Upgradable_Unchecked == {Item[c] : c \in hits \ Protected}
Upgradable == {Item[c] : c \in {d \in hits \ Protected : Original(d) \in rights}}
Originals(items) == SUBSET {p \in Protected : Item[p] \in items}

Upgrade ==
    /\ pc = "upgrade"
    /\ \/ /\ request.include
          /\ \E originals \in Originals(Upgradable) :
                hits' = originals \cup {c \in hits : \A p \in originals : Place[p] # Place[c]}
          /\ UNCHANGED faults
       \/ ~request.include /\ UNCHANGED <<hits, faults>>
       \/ Fault /\ UNCHANGED hits
    /\ pc' = "neighbours"
    /\ UNCHANGED <<rights, ever, always, request, located, found, near, shown, message, changes>>

\* search_neighbors: next to an attachment's chunk, in the same form.
Beside ==
    IF ByResource THEN {}
    ELSE {c \in Chunks : \E h \in hits :
            /\ Resource[h] \in Attachments /\ Item[h] = Item[c]
            /\ h \in Protected <=> c \in Protected
            /\ h \in Protected => request.include
            /\ Index[c] - Index[h] \in {1, -1}}

Neighbours ==
    /\ pc = "neighbours"
    /\ \/ near' = Granted(Beside) /\ UNCHANGED faults
       \/ Fault /\ near' = {}
    /\ pc' = "finalize"
    /\ UNCHANGED <<rights, ever, always, request, located, found, hits, shown, message, changes>>

\* finalize_resource_chunks: neighbours fill up a resource, the first chunks of it remain.
First(cs) ==
    {c \in cs : Cardinality({d \in cs : Index[d] < Index[c]}) < ChunkLimit}

Finalize ==
    /\ pc = "finalize"
    /\ \E extra \in SUBSET {c \in near \ hits : Resource[c] \in Resources(hits)} :
          /\ \A r \in Resources(hits) :
                LET free == ChunkLimit - Cardinality(OfResource(hits, r))
                    offered == Cardinality(OfResource(near \ hits, r)) IN
                Cardinality(OfResource(extra, r)) =
                    (IF free < 0 THEN 0 ELSE IF offered < free THEN offered ELSE free)
          /\ shown' = UNION {First(OfResource(hits \cup extra, r)) : r \in Resources(hits)}
    /\ pc' = IF request.entry = "ai" THEN "answer" ELSE "done"
    /\ UNCHANGED <<rights, ever, always, request, located, found, hits, near, message, changes,
                   faults>>

\* context_scope and export_scope: one check, and what passes is shown.
CheckPlain ==
    /\ pc = "plain"
    /\ \/ shown' = Granted(found) /\ UNCHANGED faults
       \/ Fault /\ shown' = {}
    /\ pc' = "done"
    /\ UNCHANGED <<rights, ever, always, request, located, found, hits, near, message, changes>>

\* The answer is stored with the citations it was made from, or as a failure.
Answer ==
    /\ pc = "answer"
    /\ \/ message' = "completed" /\ UNCHANGED faults
       \/ message' = "failed" /\ Fault
    /\ pc' = "done"
    /\ UNCHANGED <<rights, ever, always, request, located, found, hits, near, shown, changes>>

\* A reader of the stream goes away: the generator is closed where it stands.
Leave ==
    /\ request.entry = "ai" /\ message = "streaming"
    /\ Fault /\ pc' = "left"
    /\ UNCHANGED <<rights, ever, always, request, located, found, hits, near, shown, message,
                   changes>>

------------------------------------------------------------------------------
Next ==
    \/ \E k \in Keys : Change(k)
    \/ StartQuestion \/ Scope \/ Locate \/ SearchUnscoped \/ SearchTree \/ Fuse
    \/ Authorize \/ Upgrade \/ Neighbours \/ Finalize \/ CheckPlain \/ Answer \/ Leave

Over == {"done", "denied", "unavailable", "left"}

TypeOK ==
    /\ always \subseteq rights /\ rights \subseteq ever /\ ever \subseteq Keys
    /\ request \in [entry : Entries, mode : Modes, include : BOOLEAN]
    /\ pc \in Over \cup {"begin", "locate", "search", "fuse", "plain", "authorize", "upgrade",
                         "neighbours", "finalize", "answer"}
    /\ located \subseteq Entities
    /\ found \cup hits \cup near \cup shown \subseteq Chunks
    /\ message \in {"none", "streaming", "completed", "failed"}
    /\ changes \in 0..MaxChanges /\ faults \in 0..MaxFaults

\* A reader sees a chunk only if its key, or for an original the right to the item's
\* original, was granted at some time during the request, and no original without
\* include_protected (_authorize_results, _upgrade_protected_variants, search_neighbors).
NothingUnchecked ==
    \A c \in shown :
        /\ Key(c) \in ever \/ (c \in Protected /\ Original(c) \in ever)
        /\ c \in Protected => request.include

\* What was found, and what the reader could read all the time, is not lost: its resource
\* is shown, unless a call failed or an original of the resource took its place.
NotLost ==
    pc \in {"done", "answer"} /\ faults = 0 =>
        \A c \in found :
            Key(c) \in always =>
                \/ Resource[c] \in Resources(shown)
                \/ OfResource(found, Resource[c]) \cap Protected # {}

\* The tree shows an item only for a chunk on the entities or their relatives, and
\* nothing at all when it is off or the query names no entity (select_retrieval_channels).
StaysOnTree ==
    request.entry = "tree" /\ request.mode # "shadow" =>
        \A c \in shown :
            /\ request.mode = "tree" /\ located # {}
            /\ \E d \in Chunks : /\ Item[d] = Item[c]
                                 /\ Mounted[d] \cap (located \cup Relatives(located)) # {}

\* When a request is over its answer is stored as completed or failed, unless the reader
\* of the stream went away.
AnswerFiled ==
    pc \in Over => (message = "streaming" <=> pc = "left")

Retrieved == NothingUnchecked /\ NotLost /\ StaysOnTree /\ AnswerFiled
==============================================================================
