--------------------------- MODULE ContactProfile ---------------------------
(****************************************************************************)
(* The profile of one contact in the knowledge service: workers extract     *)
(* contact facts (numbers, addresses) from his messages, and the model of   *)
(* the RAG service sums up the messages without any.  Several processes     *)
(* refresh the profile; its mutex is one of a process.                      *)
(*                                                                          *)
(* Messages differ in their text and are few: that equal texts count once   *)
(* and that the last ones win is left out, and so is what a text must have  *)
(* to be worth a summary.  A legacy file that turns into a text is, too.    *)
(****************************************************************************)
EXTENDS Integers

CONSTANTS
    Processes,  \* processes of the service, each with a worker and the API
    M,          \* the messages
    HasFacts,   \* those of M whose text holds a contact fact
    Shared,     \* those of M the owner did not collect: he sees them if the core grants it
    MaxChanges, \* bound: corrections, deletions, reclassifications, grants, requests
    MaxFaults   \* bound: failed calls, dead processes

VARIABLES
    msg,        \* messages: [sender, facts, active]
    fact,       \* contact_facts: the sender a message's facts are stored for
    granted,    \* the core lets the owner see the shared messages
    profile,    \* the row of contact_profiles: [summary, status, aged]
    run,        \* refreshContactProfile: [pc, old, material]
    moved,      \* history: messages whose sender was corrected behind the extraction
    changes, faults

vars == <<msg, fact, granted, profile, run, moved, changes, faults>>

Senders == {"contact", "other"}
None == "none"
\* facts: contact_facts_status; a message that waits for its classification is "new".
Message == [sender : Senders, facts : {"new", "pending", "succeeded"}, active : BOOLEAN]
\* aged: the refresh interval is over since generated_at.
Profile == [summary : SUBSET M, status : {None, "ready", "failed"}, aged : BOOLEAN]
Run == [pc : {"idle", "list", "facts", "save"}, old : SUBSET M, material : SUBSET M]
Idle == [pc |-> "idle", old |-> {}, material |-> {}]

Init ==
    /\ \E s \in [M -> Senders] : msg = [m \in M |-> [sender |-> s[m], facts |-> "new", active |-> TRUE]]
    /\ fact = [m \in M |-> None]
    /\ granted = TRUE
    /\ profile = [summary |-> {}, status |-> None, aged |-> FALSE]
    /\ run = [p \in Processes |-> Idle]
    /\ moved = {}
    /\ changes = 0 /\ faults = 0

Fault == faults < MaxFaults /\ faults' = faults + 1
Change == changes < MaxChanges /\ changes' = changes + 1

-----------------------------------------------------------------------------
(* Messages. *)

CompleteMessageClassification(m) ==
    /\ msg[m].facts = "new"
    /\ msg' = [msg EXCEPT ![m].facts = "pending"]
    /\ UNCHANGED <<fact, granted, profile, run, moved, changes, faults>>

Reclassify(m) ==
    /\ msg[m].facts = "succeeded"
    /\ Change
    /\ msg' = [msg EXCEPT ![m].facts = "pending"]
    /\ UNCHANGED <<fact, granted, profile, run, moved, faults>>

\* IngestMessage of a message that is known: the sender of the replay is the right one.
CorrectSender(m) ==
    /\ Change
    /\ \E s \in Senders \ {msg[m].sender} : msg' = [msg EXCEPT ![m].sender = s]
    /\ moved' = IF fact[m] = None THEN moved ELSE moved \cup {m}
    /\ UNCHANGED <<fact, granted, profile, run, faults>>

Delete(m) ==
    /\ msg[m].active
    /\ Change
    /\ msg' = [msg EXCEPT ![m].active = FALSE]
    /\ UNCHANGED <<fact, granted, profile, run, moved, faults>>

Grant ==
    /\ Change
    /\ granted' = ~granted
    /\ UNCHANGED <<msg, fact, profile, run, moved, faults>>

PendingContactFacts == {m \in M : msg[m].facts = "pending" /\ msg[m].active}

\* The facts of the original text, for the sender the row then has.
CompleteContactFactExtraction(m) ==
    /\ fact' = [fact EXCEPT ![m] = IF m \in HasFacts THEN msg[m].sender ELSE None]
    /\ msg' = [msg EXCEPT ![m].facts = "succeeded"]

ProcessContactFacts(m) ==
    /\ m \in PendingContactFacts
    /\ CompleteContactFactExtraction(m)
    /\ UNCHANGED <<granted, profile, run, moved, changes, faults>>

-----------------------------------------------------------------------------
(* The profile. *)

Due_UntilReady == profile.status # "ready"     \* mutant: a profile is made once
Due == profile.status # "ready" \/ profile.aged

IntervalEnds ==
    /\ profile.status = "ready" /\ ~profile.aged
    /\ profile' = [profile EXCEPT !.aged = TRUE]
    /\ UNCHANGED <<msg, fact, granted, run, moved, changes, faults>>

\* Under the mutex of its process.
Begin(p) ==
    /\ run[p].pc = "idle"
    /\ run' = [run EXCEPT ![p] = [pc |-> "list", old |-> profile.summary, material |-> {}]]
    /\ UNCHANGED <<msg, fact, granted, profile, moved, faults>>

ProcessContactProfiles(p) == Due /\ Begin(p) /\ UNCHANGED changes
RefreshContactProfile(p) == Change /\ Begin(p)

Extracted_Any(m) == msg[m].facts # "new"    \* mutant: classified is enough
Extracted(m) == msg[m].facts = "succeeded"

\* ListContactMessages, without those whose facts are not extracted.
Listed == {m \in M : msg[m].active /\ msg[m].sender = "contact" /\ Extracted(m)}

\* Without an answer of the core the direct ones remain.
VisibleMessages(p) ==
    /\ run[p].pc = "list"
    /\ \E answered \in BOOLEAN :
          /\ run' = [run EXCEPT ![p].pc = "facts",
                                ![p].material = IF answered /\ granted THEN Listed ELSE Listed \ Shared]
          /\ IF answered THEN UNCHANGED faults ELSE Fault
    /\ UNCHANGED <<msg, fact, granted, profile, moved, changes>>

\* ListContactFacts finds those that are stored for the contact.
WithFacts == {m \in M : fact[m] = "contact"}

ExcludeFacts(p) ==
    /\ run[p].pc = "facts"
    /\ run' = [run EXCEPT ![p].pc = "save", ![p].material = @ \ WithFacts]
    /\ UNCHANGED <<msg, fact, granted, profile, moved, changes, faults>>

Upsert(p, new) ==
    /\ run[p].pc = "save"
    /\ profile' = new
    /\ run' = [run EXCEPT ![p] = Idle]
    /\ UNCHANGED <<msg, fact, granted, moved, changes>>

\* Nothing to sum up is an empty profile that is ready.
Summarize(p) ==
    /\ Upsert(p, [summary |-> run[p].material, status |-> "ready", aged |-> FALSE])
    /\ UNCHANGED faults

\* The row keeps the summary that was there when the refresh began.
SummarizeFails(p) ==
    /\ run[p].material # {}
    /\ Upsert(p, [summary |-> run[p].old, status |-> "failed", aged |-> profile.aged])
    /\ Fault

\* A query fails or the process dies; the mutex goes with it.
Abandon(p) ==
    /\ run[p].pc # "idle"
    /\ Fault
    /\ run' = [run EXCEPT ![p] = Idle]
    /\ UNCHANGED <<msg, fact, granted, profile, moved, changes>>

Refresh(p) == VisibleMessages(p) \/ ExcludeFacts(p) \/ Summarize(p) \/ SummarizeFails(p)
Work(p) == ProcessContactProfiles(p) \/ Refresh(p)
Prepare(m) == CompleteMessageClassification(m) \/ ProcessContactFacts(m)

Next ==
    \/ \E m \in M : Prepare(m) \/ Reclassify(m) \/ CorrectSender(m) \/ Delete(m)
    \/ Grant \/ IntervalEnds
    \/ \E p \in Processes : Work(p) \/ RefreshContactProfile(p) \/ Abandon(p)

\* The workers tick and time passes.
Fairness ==
    /\ \A m \in M : WF_vars(Prepare(m))
    /\ \A p \in Processes : WF_vars(Work(p))
    /\ WF_vars(IntervalEnds)

Spec == Init /\ [][Next]_vars /\ Fairness

-----------------------------------------------------------------------------
TypeOK ==
    /\ msg \in [M -> Message] /\ fact \in [M -> Senders \cup {None}]
    /\ granted \in BOOLEAN /\ profile \in Profile /\ run \in [Processes -> Run]
    /\ moved \subseteq M

\* No message with a contact fact is in a summary, nor on its way to the model, unless
\* its sender was corrected after its facts were stored for the former one
\* (refreshContactProfile against ProcessContactFacts and IngestMessage).
FactsStayOut ==
    \A m \in HasFacts \ moved :
        /\ m \notin profile.summary
        /\ \A p \in Processes : run[p].pc = "save" => m \notin run[p].material

\* Why it holds: facts are stored for the sender of the row until he is corrected, and
\* what a refresh has listed has its facts stored.
Extraction(m) ==
    m \notin moved =>
       /\ fact[m] # None => fact[m] = msg[m].sender
       /\ m \in HasFacts /\ msg[m].facts = "succeeded" => fact[m] # None
Clean(p) ==
    \A m \in HasFacts \ moved :
       /\ m \notin run[p].old
       /\ run[p].pc = "facts" /\ m \in run[p].material => fact[m] = "contact"
ProfileInv ==
    /\ TypeOK /\ FactsStayOut
    /\ \A m \in M : Extraction(m)
    /\ \A p \in Processes : Clean(p)

\* The messages that belong into the profile as things are.
Material == (IF granted THEN Listed ELSE Listed \ Shared) \ WithFacts

\* Every process may have written an older reading: the next interval puts it right.
UpToDate == profile.status = "ready" /\ profile.summary = Material
=============================================================================
