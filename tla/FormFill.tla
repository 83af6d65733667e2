------------------------------- MODULE FormFill -------------------------------
(****************************************************************************)
(* Filling a shared spreadsheet. FormPreviewCapability reads the sheet in a   *)
(* browser session of the form-browser sidecar and drafts a new row; after    *)
(* the owner has approved the draft FormApplyCapability pastes it, perhaps    *)
(* much later, into a sheet on which others work too; form_undo puts back     *)
(* what the paste replaced. A session whose page asks for a login is handed   *)
(* to the owner (takeover) and used again when the task resumes.              *)
(*                                                                            *)
(* A row is one value. What the columns hold is the subject of FormEvidence.  *)
(****************************************************************************)
EXTENDS Integers, FiniteSets

CONSTANTS
    Tasks,        \* the tasks that fill the sheet
    MaxRows,      \* bound: the rows below the header
    Scan,         \* the rows below the header that a read of the whole sheet names,
                  \* 199 in the code
    MaxLive,      \* max_sessions
    MaxSessions,  \* how many sessions a behaviour opens
    MaxEdits,     \* how often somebody else edits the sheet
    MaxFaults     \* how many calls of the sidecar fail

VARIABLES
    sheet,        \* what each row holds
    layout,       \* the header row
    task,         \* stage, phase, session, whether it is a reused one, resume_session_id
    draft,        \* the row, header and session of the draft under review
    previous,     \* what the paste of a task replaced
    live,         \* _sessions
    wall,         \* the sessions with login_required
    cookies,      \* the sessions whose browser context is signed in
    saved,        \* the storage state has a login
    signedIn,     \* a login has once been stored
    edits,
    moved,        \* the tasks since whose draft the sheet has changed
    touched,      \* the tasks since whose paste its row has changed
    blind,        \* the tasks that were undone without a login
    shown,        \* the sessions that were handed to the owner
    crossed,      \* two sessions were created at once
    faults

vars == <<sheet, layout, task, draft, previous, live, wall, cookies, saved, signedIn, edits,
          moved, touched, blind, shown, crossed, faults>>

sheetVars == <<sheet, layout, edits, moved, touched>>
browserVars == <<live, wall, cookies, saved, signedIn, shown, crossed>>
Rows == 1..MaxRows
Empty == "empty"
NoDraft == [row |-> 0, layout |-> 0, session |-> 0]

Init ==
    /\ sheet = [r \in Rows |-> IF r = 1 THEN "other" ELSE Empty]
    /\ layout = 1
    /\ task = [t \in Tasks |-> [stage |-> "preview", phase |-> "idle", session |-> 0,
                                reused |-> FALSE, resume |-> 0]]
    /\ draft = [t \in Tasks |-> NoDraft]
    /\ previous = [t \in Tasks |-> Empty]
    /\ live = {} /\ wall = {} /\ cookies = {}
    /\ saved \in BOOLEAN
    /\ signedIn = saved
    /\ edits = 0
    /\ moved = {} /\ touched = {} /\ blind = {} /\ shown = {}
    /\ crossed = FALSE
    /\ faults = 0

Fault == faults < MaxFaults /\ faults' = faults + 1
Used == {r \in Rows : sheet[r] # Empty}
Last(rows) == CHOOSE r \in rows \cup {0} : \A q \in rows : q <= r

------------------------------------------------------------------------------
\* The sidecar's sessions: SessionManager.

\* close: a session that is not at a login wall leaves its cookies behind.
Closing(s) ==
    /\ live' = live \ {s}
    /\ saved' = IF s \in live /\ s \notin wall THEN s \in cookies ELSE saved
    /\ UNCHANGED <<wall, cookies, signedIn, shown, crossed>>

\* create, first half: the limit, read under the lock.
Check(t) ==
    /\ task[t].phase = "idle" /\ ~task[t].reused
    /\ Cardinality(live) < MaxLive
    /\ task' = [task EXCEPT ![t].phase = "creating"]
    /\ crossed' = (crossed \/ \E u \in Tasks : task[u].phase = "creating")
    /\ UNCHANGED <<sheetVars, draft, previous, live, wall, cookies, saved, signedIn, blind,
                   shown, faults>>

\* create, second half: a new context with the stored login.
Insert(t) ==
    /\ task[t].phase = "creating"
    /\ \E s \in 1..MaxSessions :
        /\ s \notin live \cup cookies \cup wall
        /\ \A u \in Tasks : s # task[u].session
        /\ live' = live \cup {s}
        /\ cookies' = IF saved THEN cookies \cup {s} ELSE cookies
        /\ task' = [task EXCEPT ![t].phase = "open", ![t].session = s]
    /\ UNCHANGED <<sheetVars, draft, previous, wall, saved, signedIn, blind, shown, crossed,
                   faults>>

\* reap: a session that no request uses is closed after the TTL.
InUse(s) == \E t \in Tasks : task[t].session = s /\ task[t].phase \in {"open", "read", "write"}
Reap(s) ==
    /\ s \in live /\ ~InUse(s)
    /\ Closing(s)
    /\ UNCHANGED <<sheetVars, task, draft, previous, blind, faults>>

\* send_input: the owner signs in, in the session the task has handed over.
SignIn(t) ==
    /\ task[t].phase = "login" /\ task[t].session \in live \ cookies
    /\ cookies' = cookies \cup {task[t].session}
    /\ UNCHANGED <<sheetVars, task, draft, previous, live, wall, saved, signedIn, blind, shown,
                   crossed, faults>>

------------------------------------------------------------------------------
\* What the two capabilities share: a reused session that cannot open the page is
\* given up for a new one, and left as it is; a new one is closed, and the step fails.
OpenFails(t) ==
    LET s == task[t].session IN
    /\ task[t].phase = "open"
    /\ IF s \in live THEN Fault ELSE UNCHANGED faults
    /\ IF task[t].reused
       THEN /\ task' = [task EXCEPT ![t].phase = "idle", ![t].session = 0, ![t].reused = FALSE]
            /\ UNCHANGED browserVars
       ELSE /\ task' = [task EXCEPT ![t].phase = "failed", ![t].session = 0]
            /\ Closing(s)
    /\ UNCHANGED <<sheetVars, draft, previous, blind>>

\* open: the page shows a login wall or is ready, and then the login is stored.
Open(t) ==
    LET s == task[t].session IN
    /\ task[t].phase = "open" /\ s \in live
    /\ IF s \in cookies
       THEN /\ task' = [task EXCEPT ![t].phase = "read"]
            /\ wall' = wall \ {s}
            /\ saved' = TRUE /\ signedIn' = TRUE
            /\ UNCHANGED shown
       ELSE /\ task' = [task EXCEPT ![t].phase = "login"]
            /\ wall' = wall \cup {s}
            /\ shown' = shown \cup {s}
            /\ UNCHANGED <<saved, signedIn>>
    /\ UNCHANGED <<sheetVars, draft, previous, live, cookies, blind, crossed, faults>>

\* The session a step starts with: that of the draft, before that of the last takeover.
Given(t, resume) == IF draft[t].session # 0 THEN draft[t].session ELSE resume
Start(t, stage, resume) ==
    LET s == Given(t, resume) IN
    [stage |-> stage, phase |-> IF s = 0 THEN "idle" ELSE "open", session |-> s,
     reused |-> s # 0, resume |-> resume]

\* submit_input: the takeover session becomes the resume_session_id of the task.
Resume(t) ==
    /\ task[t].phase = "login"
    /\ task' = [task EXCEPT ![t] = Start(t, @.stage, @.session)]
    /\ UNCHANGED <<sheetVars, draft, previous, browserVars, blind, faults>>

\* read_grid reads the first Scan rows, whatever comes below.
Read == Used \cap 1..Scan
\* FormPreviewCapability: new data goes on the first row after those that were read.
TargetRow_LastUsed == Last(Read)     \* mutant
TargetRow == Last(Read) + 1

Preview(t) ==
    LET s == task[t].session
        kept == IF task[t].reused THEN s ELSE 0 IN
    /\ task[t].stage = "preview" /\ task[t].phase = "read"
    /\ TargetRow \in Rows
    /\ draft' = [draft EXCEPT ![t] = [row |-> TargetRow, layout |-> layout, session |-> kept]]
    /\ moved' = moved \ {t}
    /\ task' = [task EXCEPT ![t].phase = "review", ![t].session = kept]
    /\ IF task[t].reused THEN UNCHANGED browserVars ELSE Closing(s)
    /\ UNCHANGED <<sheet, layout, edits, touched, previous, blind, faults>>

\* The owner's answer to the approval request.
Approve(t) ==
    /\ task[t].phase = "review"
    /\ task' = [task EXCEPT ![t] = Start(t, "apply", @.resume)]
    /\ UNCHANGED <<sheetVars, draft, previous, browserVars, blind, faults>>

Reject(t) ==
    /\ task[t].phase = "review"
    /\ task' = [task EXCEPT ![t].phase = "failed", ![t].session = 0]
    /\ UNCHANGED <<sheetVars, draft, previous, browserVars, blind, faults>>

\* Every error but a failed open ends the step; only a new session is closed.
Fail(t) ==
    /\ task' = [task EXCEPT ![t].phase = "failed", ![t].session = 0]
    /\ IF task[t].reused THEN UNCHANGED browserVars ELSE Closing(task[t].session)

\* _apply_cells: the header is read again and compared with that of the draft.
Reread(t) ==
    /\ task[t].stage = "apply" /\ task[t].phase = "read"
    /\ IF layout = draft[t].layout
       THEN task' = [task EXCEPT ![t].phase = "write"] /\ UNCHANGED browserVars
       ELSE Fail(t)
    /\ UNCHANGED <<sheetVars, draft, previous, blind, faults>>

ReadFails(t) ==
    /\ task[t].phase = "read"
    /\ Fault
    /\ Fail(t)
    /\ UNCHANGED <<sheetVars, draft, previous, blind>>

\* A row changes: for the drafts it was not there when they were read, and whoever has
\* pasted into it will find something else.
Change(r, value, by) ==
    /\ sheet' = [sheet EXCEPT ![r] = value]
    /\ moved' = moved \cup (Tasks \ by)
    /\ touched' = touched \cup {t \in Tasks \ by : draft[t].row = r}

\* write_grid: the row is read, pasted over and read again; the session is closed. If the
\* answer is lost the row is written all the same.
Write(t) ==
    LET r == draft[t].row IN
    /\ task[t].stage = "apply" /\ task[t].phase = "write"
    /\ Change(r, t, {t})
    /\ previous' = [previous EXCEPT ![t] = sheet[r]]
    /\ \/ /\ task' = [task EXCEPT ![t].phase = "done", ![t].session = 0]
          /\ Closing(task[t].session)
          /\ UNCHANGED faults
       \/ Fault /\ Fail(t)
    /\ UNCHANGED <<layout, edits, draft, blind>>

\* form_undo: a session of its own, opened and closed within the request. A row that was
\* empty is cleared, which needs no login and looks at nothing; others are pasted back,
\* which the sidecar refuses at a login wall.
Undo(t) ==
    LET r == draft[t].row IN
    /\ task[t].phase = "done"
    /\ Cardinality(live) < MaxLive
    /\ saved \/ previous[t] = Empty
    /\ IF saved
       THEN /\ Change(r, previous[t], {t})
            /\ UNCHANGED blind
       ELSE /\ blind' = blind \cup {t}
            /\ UNCHANGED <<sheet, moved, touched>>
    /\ task' = [task EXCEPT ![t].phase = "undone"]
    /\ UNCHANGED <<layout, edits, draft, previous, browserVars, faults>>

\* Somebody else fills a row or changes the header.
Other(r) ==
    /\ edits < MaxEdits /\ edits' = edits + 1
    /\ \/ /\ r <= Last(Used) + 1 /\ sheet[r] # "other"
          /\ Change(r, "other", {})
          /\ UNCHANGED layout
       \/ /\ r = 1
          /\ layout' = layout + 1
          /\ UNCHANGED <<sheet, moved, touched>>
    /\ UNCHANGED <<task, draft, previous, browserVars, blind, faults>>

Next ==
    \/ \E t \in Tasks :
        \/ Check(t) \/ Insert(t) \/ SignIn(t) \/ OpenFails(t) \/ Open(t) \/ Resume(t)
        \/ Preview(t) \/ Approve(t) \/ Reject(t) \/ Reread(t) \/ ReadFails(t) \/ Write(t)
        \/ Undo(t)
    \/ \E s \in 1..MaxSessions : Reap(s)
    \/ \E r \in Rows : Other(r)

------------------------------------------------------------------------------
TypeOK ==
    /\ sheet \in [Rows -> Tasks \cup {Empty, "other"}]
    /\ layout \in 1..(MaxEdits + 1)
    /\ \A t \in Tasks :
        /\ task[t].stage \in {"preview", "apply"}
        /\ task[t].phase \in {"idle", "creating", "open", "login", "read", "review", "write",
                              "done", "failed", "undone"}
        /\ {task[t].session, task[t].resume} \subseteq 0..MaxSessions
        /\ task[t].reused \in BOOLEAN
        /\ draft[t].row \in 0..MaxRows /\ draft[t].layout \in 0..(MaxEdits + 1)
        /\ draft[t].session \in 0..MaxSessions
        /\ previous[t] \in Tasks \cup {Empty, "other"}
    /\ live \cup wall \cup cookies \cup shown \subseteq 1..MaxSessions
    /\ {saved, signedIn, crossed} \subseteq BOOLEAN
    /\ moved \cup touched \cup blind \subseteq Tasks
    /\ edits \in 0..MaxEdits /\ faults \in 0..MaxFaults

\* A paste replaces what somebody else has written only if the sheet has changed since
\* the owner reviewed the draft, or the sheet is longer than what read_grid reads of it:
\* then the row after the last one that was read is taken for a free one
\* (FormPreviewCapability.execute, GridDriver.read, _apply_cells).
FreshRow ==
    \A t \in Tasks : previous[t] # Empty => t \in moved \/ draft[t].row = Scan + 1

\* Undo puts back exactly what was there, unless the row has changed since or the
\* sidecar had no login any more (form_undo, GridDriver.write).
UndoneIsRestored ==
    \A t \in Tasks :
        task[t].phase = "undone" /\ t \notin touched \cup blind =>
            sheet[draft[t].row] = previous[t]

\* A session that nobody holds, and that waits for its TTL, is one the owner was shown,
\* and unless two were created at once there are never more than the limit
\* (FormPreviewCapability.execute, FormApplyCapability.execute, SessionManager.create).
NoLeftovers ==
    /\ \A s \in live : s \in shown \/ \E t \in Tasks : task[t].session = s
    /\ Cardinality(live) <= MaxLive \/ crossed

\* A login that was stored stays stored as long as the sidecar does not fail: no session
\* that is closed or opened writes older cookies over it (close, open_url).
LoginKept ==
    signedIn /\ faults = 0 => saved

Filled == FreshRow /\ UndoneIsRestored /\ NoLeftovers /\ LoginKept
==============================================================================
