--------------------------- MODULE ConnectorToken ---------------------------
(****************************************************************************)
(* One Feishu account of one owner: the row of connector_accounts, its      *)
(* credential in the vault, the authorizations that bind it and the         *)
(* refreshes that rotate it.  Requests and the worker overlap; each has a   *)
(* copy of the row it read.                                                 *)
(*                                                                          *)
(* An authorization (an OAuth state with its OperationID) is one grant; the *)
(* vault keeps it under a key of its own.  A token is the generation of its *)
(* grant: the provider accepts only the newest refresh token.  The owner    *)
(* authorizes the same external account each time, so BindConnector has no  *)
(* previous row.  The conversation's collector is one row.                  *)
(****************************************************************************)
EXTENDS Integers

CONSTANTS
    Calls,      \* requests and workers that run at the same time
    Grants,     \* OAuth states the owner may start
    MaxGen,     \* bound: refreshes of one grant
    MaxCalls,   \* bound: calls begun
    MaxFaults   \* bound: failed writes, dead processes, locks that run out

VARIABLES
    row,        \* knowledge.connector_accounts
    collector,  \* the status of the conversation's collector
    vault,      \* the credentials in the key-value store, by grant
    newest,     \* external: the generation the provider accepts, 0 before the code is exchanged,
                \* Withdrawn when it accepts none any more
    state,      \* the OAuth states that can still be completed
    result,     \* the cached completion of an OAuth state
    refreshing, \* knowledge:connector-refresh:<account>
    completing, \* the completion lock of each OAuth state
    call,       \* the calls in progress
    overtaken,  \* history: since the row was bound a refresh lock ran out; or when it was
                \* bound or revoked, a call was at work with the credential it had before
    torn,       \* history: grants whose completion lost its lock, its commit's answer or its account
    begun, faults

vars == <<row, collector, vault, newest, state, result, refreshing, completing, call,
          overtaken, torn, begun, faults>>
oauth == <<state, result, completing, torn>>

None == "none"
Gone == [gen |-> 0, fresh |-> FALSE]
Withdrawn == MaxGen + 1
Token == [gen : 0..MaxGen, fresh : BOOLEAN]
Row == [status : {None, "active", "expired", "error", "revoked"}, ref : Grants \cup {None}]
Pc == {"idle", "get", "lock", "reread", "refresh", "refused", "put", "mark", "told",
       "revoke", "delete", "complete", "exchange", "prepare", "bind", "clean", "record"}

\* at: the row as it was read; first: the token seen before the lock.
Call == [pc : Pc, worker : BOOLEAN, force : BOOLEAN, grant : Grants \cup {None},
         at : Row, first : 0..MaxGen, gen : 0..MaxGen, outcome : {None, "ok", "auth", "fail"}]
Unbound == [status |-> None, ref |-> None]
Rest == [pc |-> "idle", worker |-> FALSE, force |-> FALSE, grant |-> None, at |-> Unbound,
         first |-> 0, gen |-> 0, outcome |-> None]

Init ==
    /\ row = Unbound /\ collector = "active"
    /\ vault = [g \in Grants |-> Gone] /\ newest = [g \in Grants |-> 0]
    /\ state = Grants /\ result = [g \in Grants |-> None]
    /\ refreshing = None /\ completing = [g \in Grants |-> None]
    /\ call = [c \in Calls |-> Rest]
    /\ overtaken = FALSE /\ torn = {}
    /\ begun = 0 /\ faults = 0

Fault == faults < MaxFaults /\ faults' = faults + 1
Goto(c, pc) == call' = [call EXCEPT ![c].pc = pc]
Freed(c) == IF refreshing = c THEN None ELSE refreshing
End(c, outcome) ==
    call' = IF call[c].worker \/ outcome = "ok"
            THEN [call EXCEPT ![c].pc = "told", ![c].outcome = outcome]
            ELSE [call EXCEPT ![c] = Rest]

\* The collectors UpdateConnectorStatus parks, and those the Restore statements wake.
Park == collector' = IF collector = "active" THEN "unavailable" ELSE collector
Restore == collector' = IF collector = "unavailable" THEN "active" ELSE collector

\* UpdateConnectorStatus: whatever the row has become.
UpdateStatus(status) ==
    /\ row' = [row EXCEPT !.status = status]
    /\ IF status = "expired" THEN Park ELSE UNCHANGED collector
\* markConnectorError looks at the copy.
MarkError(c) ==
    IF call[c].at.status = "expired" THEN UNCHANGED <<row, collector>>
    ELSE UpdateStatus("error")

-----------------------------------------------------------------------------
(* token(): GetToken of the worker and of requests, RefreshToken. *)

\* GetConnector and ListConnectorAccounts leave revoked rows out.
Begin(c, worker, force) ==
    /\ call[c].pc = "idle" /\ begun < MaxCalls /\ begun' = begun + 1
    /\ row.status \notin {None, "revoked"}
    /\ LET start == [Rest EXCEPT !.worker = worker, !.force = force, !.at = row]
       IN  call' = [call EXCEPT ![c] =
             IF row.ref # None /\ row.status # "expired" THEN [start EXCEPT !.pc = "get"]
             ELSE IF ~worker THEN Rest
             ELSE [start EXCEPT !.pc = "told",
                                !.outcome = IF row.ref = None THEN "fail" ELSE "auth"]]
    /\ UNCHANGED <<row, collector, vault, newest, refreshing, overtaken, oauth, faults>>

Held(c) == vault[call[c].at.ref]

GetToken(c) ==
    /\ call[c].pc = "get"
    /\ IF Held(c) = Gone
       THEN MarkError(c) /\ End(c, "fail")
       ELSE /\ UNCHANGED <<row, collector>>
            /\ IF Held(c).fresh /\ ~call[c].force
               THEN End(c, "ok")
               ELSE call' = [call EXCEPT ![c].pc = "lock", ![c].first = Held(c).gen]
    /\ UNCHANGED <<vault, newest, refreshing, overtaken, oauth, begun, faults>>

Acquire(c) ==
    /\ call[c].pc = "lock"
    /\ refreshing = None
    /\ refreshing' = c
    /\ Goto(c, "reread")
    /\ UNCHANGED <<row, collector, vault, newest, overtaken, oauth, begun, faults>>

Replaced(c) == Held(c).fresh /\ (Held(c).gen # call[c].first \/ ~call[c].force)

\* Another call holds the lock: its token, or after two seconds an error.
WaitForToken(c) ==
    /\ call[c].pc = "lock"
    /\ refreshing \notin {None, c}
    /\ End(c, IF Replaced(c) THEN "ok" ELSE "fail")
    /\ UNCHANGED <<row, collector, vault, newest, refreshing, overtaken, oauth, begun, faults>>

Reread_Not(c) ==                \* mutant: the token read before the lock is refreshed
    /\ call[c].pc = "reread"
    /\ call' = [call EXCEPT ![c].pc = "refresh", ![c].gen = call[c].first]
    /\ UNCHANGED <<row, collector, vault, newest, refreshing, overtaken, oauth, begun, faults>>
Reread(c) ==
    /\ call[c].pc = "reread"
    /\ IF Replaced(c)
       THEN End(c, "ok") /\ refreshing' = Freed(c)
       ELSE /\ call' = [call EXCEPT ![c].pc = "refresh",
                                    ![c].gen = IF Held(c) = Gone THEN call[c].first
                                               ELSE Held(c).gen]
            /\ UNCHANGED refreshing
    /\ UNCHANGED <<row, collector, vault, newest, overtaken, oauth, begun, faults>>

\* The provider rotates the refresh token it was given, if that is the newest.
Refresh(c) ==
    /\ call[c].pc = "refresh"
    /\ LET g == call[c].at.ref
       IN  IF call[c].gen = newest[g]
           THEN /\ newest[g] < MaxGen
                /\ newest' = [newest EXCEPT ![g] = @ + 1]
                /\ call' = [call EXCEPT ![c].pc = "put", ![c].gen = @ + 1]
           ELSE Goto(c, "refused") /\ UNCHANGED newest
    /\ UNCHANGED <<row, collector, vault, refreshing, overtaken, oauth, begun, faults>>

\* ErrAuthorizationExpired.
MarkExpired(c) ==
    /\ call[c].pc = "refused"
    /\ UpdateStatus("expired")
    /\ End(c, "auth")
    /\ refreshing' = Freed(c)
    /\ UNCHANGED <<vault, newest, overtaken, oauth, begun, faults>>

\* The refresh, or the Put of what it returned, fails; the token may be consumed.
RefreshFails(c) ==
    /\ call[c].pc \in {"refresh", "put"}
    /\ Fault
    /\ MarkError(c)
    /\ End(c, "fail")
    /\ refreshing' = Freed(c)
    /\ UNCHANGED <<vault, newest, overtaken, oauth, begun>>

PutToken(c) ==
    /\ call[c].pc = "put"
    /\ vault' = [vault EXCEPT ![call[c].at.ref] = [gen |-> call[c].gen, fresh |-> TRUE]]
    /\ Goto(c, "mark")
    /\ UNCHANGED <<row, collector, newest, refreshing, overtaken, oauth, begun, faults>>

\* UpdateConnectorStatus(active) and RestoreAuthorizationCollectors.
MarkActive(c) ==
    /\ call[c].pc = "mark"
    /\ row' = [row EXCEPT !.status = "active"]
    /\ Restore
    /\ End(c, "ok")
    /\ refreshing' = Freed(c)
    /\ UNCHANGED <<vault, newest, overtaken, oauth, begun, faults>>

\* Worker.Tick writes what became of the account it listed; a request has its answer.
TickMarks(c) ==
    /\ call[c].pc = "told"
    /\ CASE call[c].worker /\ call[c].outcome = "auth" -> UpdateStatus("expired")
         [] call[c].worker /\ call[c].outcome = "fail" -> UpdateStatus("error")
         [] call[c].worker /\ call[c].outcome = "ok" /\ call[c].at.status = "error" ->
               UpdateStatus("active")
         [] OTHER -> UNCHANGED <<row, collector>>
    /\ call' = [call EXCEPT ![c] = Rest]
    /\ UNCHANGED <<vault, newest, refreshing, overtaken, oauth, begun, faults>>

\* The poll or the discovery that follows fails; the platform may refuse the token and
\* the one that replaces it, since the authorization was withdrawn.
PollFails(c) ==
    /\ call[c].pc = "told" /\ call[c].outcome = "ok"
    /\ Fault
    /\ \/ /\ IF call[c].worker THEN UpdateStatus("error") ELSE MarkError(c)
          /\ UNCHANGED newest
       \/ /\ UpdateStatus("expired")
          /\ newest' = [newest EXCEPT ![call[c].at.ref] = Withdrawn]
    /\ call' = [call EXCEPT ![c] = Rest]
    /\ UNCHANGED <<vault, refreshing, overtaken, oauth, begun>>

-----------------------------------------------------------------------------
(* RevokeConnector. *)

\* The calls that have a copy of the row and may still write its status.
Rotating == {"get", "lock", "reread", "refresh", "refused", "put", "mark"}
AtWork == {c \in Calls : call[c].pc \in Rotating \cup {"told"}}

BeginRevoke(c) ==
    /\ call[c].pc = "idle" /\ begun < MaxCalls /\ begun' = begun + 1
    /\ row.status \notin {None, "revoked"}
    /\ call' = [call EXCEPT ![c] = [Rest EXCEPT !.pc = "revoke", !.at = row]]
    /\ UNCHANGED <<row, collector, vault, newest, refreshing, overtaken, oauth, faults>>

RevokeConnector_KeepsRef(c) ==      \* mutant: the revoked row keeps its credential_ref
    /\ call[c].pc = "revoke"
    /\ row' = [row EXCEPT !.status = "revoked"]
    /\ Park
    /\ overtaken' = (overtaken \/ AtWork # {})
    /\ Goto(c, "delete")
    /\ UNCHANGED <<vault, newest, refreshing, oauth, begun, faults>>
RevokeConnector(c) ==
    /\ call[c].pc = "revoke"
    /\ IF row.status = "revoked"
       THEN call' = [call EXCEPT ![c] = Rest] /\ UNCHANGED <<row, collector, overtaken>>
       ELSE /\ row' = [row EXCEPT !.status = "revoked", !.ref = None]
            /\ Park
            /\ overtaken' = (overtaken \/ AtWork # {})
            /\ Goto(c, "delete")
    /\ UNCHANGED <<vault, newest, refreshing, oauth, begun, faults>>

\* The credential of the copy, if it had one.
DeleteCredential(c) ==
    /\ call[c].pc = "delete"
    /\ vault' = [g \in Grants |-> IF g = call[c].at.ref THEN Gone ELSE vault[g]]
    /\ call' = [call EXCEPT ![c] = Rest]
    /\ UNCHANGED <<row, collector, newest, refreshing, overtaken, oauth, begun, faults>>

-----------------------------------------------------------------------------
(* CompleteFeishuOAuth: one delivery of the provider's callback. *)

LeaveOAuth(c, g) ==
    /\ call' = [call EXCEPT ![c] = Rest]
    /\ completing' = [completing EXCEPT ![g] = IF @ = c THEN None ELSE @]

\* No cached answer; the lock, or after two seconds a 409.
Callback(c, g) ==
    /\ call[c].pc = "idle" /\ begun < MaxCalls /\ begun' = begun + 1
    /\ result[g] = None
    /\ completing[g] = None
    /\ completing' = [completing EXCEPT ![g] = c]
    /\ call' = [call EXCEPT ![c] = [Rest EXCEPT !.pc = "complete", !.grant = g]]
    /\ UNCHANGED <<row, collector, vault, newest, state, result, refreshing, overtaken, torn, faults>>

Recovers_Never(g) == FALSE      \* mutant: every callback exchanges its code
\* recoverOAuthCompletion finds the account this state has bound.
Recovers(g) == row.status = "active" /\ row.ref = g

\* The cached answer again, the state, then the recovery.
ReadState(c) ==
    /\ call[c].pc = "complete"
    /\ LET g == call[c].grant
       IN  IF result[g] # None \/ g \notin state
           THEN LeaveOAuth(c, g) /\ UNCHANGED <<state, result, torn>>
           ELSE IF Recovers(g)
           THEN /\ result' = [result EXCEPT ![g] = "bound"]
                /\ state' = state \ {g}
                /\ LeaveOAuth(c, g)
                /\ UNCHANGED torn
           ELSE /\ torn' = torn \cup {h \in {g} : row.ref = h /\ row.status # "active"}
                /\ Goto(c, "exchange")
                /\ UNCHANGED <<state, result, completing>>
    /\ UNCHANGED <<row, collector, vault, newest, refreshing, overtaken, begun, faults>>

\* fail(): the error is the answer of this state from now on.
Fails(c, g) ==
    /\ result' = [result EXCEPT ![g] = "failed"]
    /\ state' = state \ {g}
    /\ LeaveOAuth(c, g)

\* A code can be exchanged once.
ExchangeCode(c) ==
    /\ call[c].pc = "exchange"
    /\ LET g == call[c].grant
       IN  IF newest[g] = 0
           THEN /\ newest' = [newest EXCEPT ![g] = 1]
                /\ Goto(c, "prepare")
                /\ UNCHANGED <<state, result, completing>>
           ELSE Fails(c, g) /\ UNCHANGED newest
    /\ UNCHANGED <<row, collector, vault, refreshing, overtaken, torn, begun, faults>>

\* The owner, the provider or the profile says no; or the account is someone else's.
Denied(c) ==
    /\ call[c].pc \in {"exchange", "prepare"}
    /\ Fault
    /\ Fails(c, call[c].grant)
    /\ UNCHANGED <<row, collector, vault, newest, refreshing, overtaken, torn, begun>>

\* GetConnectorForOAuth, and the token under a key of this operation.
Prepare(c) ==
    /\ call[c].pc = "prepare"
    /\ vault' = [vault EXCEPT ![call[c].grant] = [gen |-> 1, fresh |-> TRUE]]
    /\ call' = [call EXCEPT ![c].pc = "bind", ![c].at = row]
    /\ UNCHANGED <<row, collector, newest, refreshing, overtaken, oauth, begun, faults>>

Bound(g) ==
    /\ row' = [status |-> "active", ref |-> g]
    /\ Restore
    /\ overtaken' = (AtWork # {})

BindConnector(c) ==
    /\ call[c].pc = "bind"
    /\ Bound(call[c].grant)
    /\ Goto(c, "clean")
    /\ UNCHANGED <<vault, newest, refreshing, oauth, begun, faults>>

\* BindConnector returns an error, and the commit may have happened.
BindFails(c) ==
    /\ call[c].pc = "bind"
    /\ Fault
    /\ LET g == call[c].grant
       IN  /\ \/ UNCHANGED <<row, collector, overtaken, torn>>
              \/ Bound(g) /\ torn' = torn \cup {g}
           /\ vault' = [vault EXCEPT ![g] = Gone]
           /\ Fails(c, g)
    /\ UNCHANGED <<newest, refreshing, begun>>

DeleteOld(c) ==
    /\ call[c].pc = "clean"
    /\ vault' = [g \in Grants |-> IF g = call[c].at.ref /\ g # call[c].grant THEN Gone
                                  ELSE vault[g]]
    /\ Goto(c, "record")
    /\ UNCHANGED <<row, collector, newest, refreshing, overtaken, oauth, begun, faults>>

\* The answer is cached and the state deleted; or neither, for a later callback.
Record(c) ==
    /\ call[c].pc = "record"
    /\ LET g == call[c].grant
       IN  /\ LeaveOAuth(c, g)
           /\ \/ /\ result' = [result EXCEPT ![g] = "bound"]
                 /\ state' = state \ {g}
                 /\ UNCHANGED faults
              \/ Fault /\ UNCHANGED <<state, result>>
    /\ UNCHANGED <<row, collector, vault, newest, refreshing, overtaken, torn, begun>>

-----------------------------------------------------------------------------
(* Time and death. *)

Expires(g) ==
    /\ vault[g].fresh
    /\ vault' = [vault EXCEPT ![g].fresh = FALSE]
    /\ UNCHANGED <<row, collector, newest, refreshing, overtaken, oauth, call, begun, faults>>

\* The 30 s of a lock, renewed by nobody, run out on a holder that still works.
LockLapses ==
    /\ Fault
    /\ \/ /\ refreshing # None
          /\ refreshing' = None
          /\ overtaken' = TRUE
          /\ UNCHANGED <<completing, torn>>
       \/ \E g \in Grants :
             /\ completing[g] # None
             /\ completing' = [completing EXCEPT ![g] = None]
             /\ torn' = torn \cup {g}
             /\ UNCHANGED <<refreshing, overtaken>>
    /\ UNCHANGED <<row, collector, vault, newest, state, result, call, begun>>

\* The process dies; the locks go 30 s later, before anybody has given up on them.
Crash(c) ==
    /\ call[c].pc # "idle"
    /\ Fault
    /\ call' = [call EXCEPT ![c] = Rest]
    /\ refreshing' = Freed(c)
    /\ completing' = [g \in Grants |-> IF completing[g] = c THEN None ELSE completing[g]]
    /\ UNCHANGED <<row, collector, vault, newest, state, result, overtaken, torn, begun>>

Next ==
    \/ LockLapses
    \/ \E g \in Grants : Expires(g)
    \/ \E c \in Calls :
          \/ \E worker, force \in BOOLEAN : Begin(c, worker, force)
          \/ GetToken(c) \/ Acquire(c) \/ WaitForToken(c) \/ Reread(c) \/ Refresh(c)
          \/ MarkExpired(c) \/ RefreshFails(c) \/ PutToken(c) \/ MarkActive(c) \/ TickMarks(c)
          \/ PollFails(c)
          \/ BeginRevoke(c) \/ RevokeConnector(c) \/ DeleteCredential(c)
          \/ \E g \in Grants : Callback(c, g)
          \/ ReadState(c) \/ ExchangeCode(c) \/ Denied(c) \/ Prepare(c) \/ BindConnector(c)
          \/ BindFails(c) \/ DeleteOld(c) \/ Record(c) \/ Crash(c)

Spec == Init /\ [][Next]_vars

-----------------------------------------------------------------------------
TypeOK ==
    /\ row \in Row
    /\ collector \in {"active", "unavailable"}
    /\ vault \in [Grants -> Token] /\ newest \in [Grants -> 0..Withdrawn]
    /\ state \subseteq Grants /\ result \in [Grants -> {None, "bound", "failed"}]
    /\ refreshing \in Calls \cup {None} /\ completing \in [Grants -> Calls \cup {None}]
    /\ call \in [Calls -> Call]
    /\ overtaken \in BOOLEAN /\ torn \subseteq Grants

\* A row that binds a credential has it in the vault; one that is expired, so that token()
\* demands a new authorization, binds a refresh token the provider takes no more; one that
\* binds none was never bound or is revoked.  So two refreshes never rotate one token, and
\* neither a revocation nor a second authorization takes away what the row points to.  What
\* gets round it: a commit whose answer was lost takes the credential away; a call that had
\* the credential before the row was bound or revoked writes its verdict on that one to the
\* row, until the row is bound again; and so does the loser of a lock that ran out.
Stored == row.ref # None => vault[row.ref] # Gone \/ row.ref \in torn
RowFitsVault ==
    /\ Stored
    /\ row.ref # None /\ row.status = "expired" =>
          overtaken \/ vault[row.ref].gen # newest[row.ref]
    /\ row.ref = None => overtaken \/ row.status \in {None, "revoked"}

\* A callback that is delivered again, after a crash too, is never answered with a
\* failure for the authorization that is bound; recoverOAuthCompletion misses an account
\* that is no longer active, and then it is.  And a worker is told that the account must
\* be authorized again only if the refresh token it binds is spent, but for the calls
\* that were overtaken.
NeverRefused == \A g \in Grants : result[g] = "failed" => row.ref # g \/ g \in torn
AnswersFitRow ==
    /\ NeverRefused
    /\ \A c \in Calls :
          call[c].pc = "told" /\ call[c].outcome = "auth" /\ call[c].at.ref = row.ref =>
             overtaken \/ vault[row.ref].gen # newest[row.ref]

-----------------------------------------------------------------------------
(* Why it holds: a code is exchanged once, so a grant is bound once and by  *)
(* one call, before anybody has read it in the row; what is deleted is what *)
(* the row has left; and the lock lets one call at a time rotate the token  *)
(* it has read.                                                             *)

Locked == {"reread", "refresh", "refused", "put", "mark"}
Authorizing == {"complete", "exchange", "prepare", "bind", "clean", "record"}
Binding(c, g) == call[c].pc \in {"prepare", "bind"} /\ call[c].grant = g

\* The exchange of a grant's code comes before everything that knows the grant.
BoundOnce ==
    \A g \in Grants :
        /\ row.ref = g \/ (\E c \in Calls : call[c].at.ref = g \/ Binding(c, g)) => newest[g] > 0
        /\ \A c \in Calls : Binding(c, g) =>
              /\ row.ref # g
              /\ \A d \in Calls : call[d].at.ref # g /\ (Binding(d, g) => d = c)

\* The calls that need a credential have one, and what is deleted is not the row's.
HasCredential ==
    /\ \A g \in Grants : vault[g] # Gone => vault[g].gen > 0
    /\ \A c \in Calls :
          /\ call[c].pc \in Rotating => call[c].at.ref \in Grants
          /\ call[c].pc \in Rotating \ {"get"} /\ row.ref = call[c].at.ref =>
                vault[call[c].at.ref] # Gone
          /\ call[c].pc = "put" => call[c].gen > 0
          /\ call[c].pc = "bind" => vault[call[c].grant] # Gone
          /\ call[c].pc \in {"delete", "clean"} /\ call[c].at.ref # None =>
                row.ref # call[c].at.ref

\* One call rotates at a time, and it rotates what the vault holds.  A spent token stays
\* spent: nobody has a newer one to put.  RowFitsVault and AnswersFitRow follow.
Putting(g) == {c \in Calls : call[c].pc = "put" /\ call[c].at.ref = g}
Spent(g) ==
    vault[g].gen # newest[g] /\ \A c \in Putting(g) : call[c].gen # newest[g]
RotatesAlone ==
    overtaken \/
       /\ row.ref = None => row.status \in {None, "revoked"}
       /\ row.ref # None /\ row.status = "expired" => Spent(row.ref)
       /\ \A c \in Calls :
             LET ref == call[c].at.ref
             IN  /\ call[c].pc \in Locked => refreshing = c
                 /\ call[c].pc \in Rotating \cup {"told"} => row.ref = ref /\ ref # None
                 /\ call[c].pc = "refresh" => vault[ref].gen = call[c].gen
                 /\ call[c].pc = "refused" => Spent(ref)
                 /\ call[c].pc = "told" /\ call[c].outcome = "auth" => Spent(ref)

\* One call completes an authorization at a time, and has not answered it yet.
CompletesAlone ==
    \A c \in Calls : call[c].pc \in Authorizing =>
        LET g == call[c].grant
        IN  /\ g \in Grants
            /\ g \notin torn =>
                  /\ completing[g] = c
                  /\ call[c].pc # "complete" => result[g] = None
                  /\ call[c].pc \in {"exchange", "prepare", "bind"} => row.ref # g

TokenInv ==
    /\ TypeOK
    /\ Stored /\ NeverRefused
    /\ BoundOnce
    /\ HasCredential
    /\ RotatesAlone
    /\ CompletesAlone
=============================================================================
