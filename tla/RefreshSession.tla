---------------------------- MODULE RefreshSession ----------------------------
(****************************************************************************)
(* One login of the core service: the refresh session in Redis, the cookie  *)
(* that the tabs of a browser share, and the requests they have under way.  *)
(* Each of the four scripts runs as one step in Redis; a refresh finds its  *)
(* session, looks at the user and rotates the token, in three steps.  The   *)
(* token that was rotated last is still good for a short grace.             *)
(****************************************************************************)
EXTENDS Integers

CONSTANTS
    Tabs,       \* the tabs of the browser
    MaxTokens,  \* bound: how many tokens a session gets
    MaxFaults   \* bound: lost answers and failed calls

VARIABLES
    session,    \* the session's hash in Redis: status, current_hash, previous_hash
    grace,      \* previous_until is still ahead
    state,      \* the state of every token
    enabled,    \* the user can authenticate
    cookie,     \* the refresh cookie; 0 without one
    request,    \* of each tab: where its refresh is, with which token, what it brings back
    loggedOut,  \* history: Logout was asked for, or the user was disabled
    lost,       \* history: a rotation whose token never reached the browser
    slow,       \* history: a request was under way while its token ceased to be good
    faults

vars == <<session, grace, state, enabled, cookie, request, loggedOut, lost, slow, faults>>

Tokens == 1..MaxTokens
Idle == [at |-> "idle", token |-> 0, set |-> 0]

\* Login has stored the session and set the cookie (createSessionLua).
Init ==
    /\ session = [status |-> "active", current |-> 1, previous |-> 0]
    /\ grace = FALSE
    /\ state = [k \in Tokens |-> IF k = 1 THEN "active" ELSE "none"]
    /\ enabled = TRUE
    /\ cookie = 1
    /\ request = [t \in Tabs |-> Idle]
    /\ loggedOut = FALSE /\ lost = FALSE /\ slow = FALSE
    /\ faults = 0

Fault == faults < MaxFaults /\ faults' = faults + 1

\* An answer that sets no cookie, one that clears it, one that brings a token.
Keep == -1
Clear == 0
Answered(t, set) == request' = [request EXCEPT ![t].at = "answered", ![t].set = set]

-----------------------------------------------------------------------------
(* The scripts of refresh_store.go. *)

InGrace_Never(k) == FALSE           \* mutant: the last token is no better than an older one
InGrace(k) ==
    /\ state[k] = "used" /\ session.status = "active"
    /\ session.previous = k /\ grace

Reused(k) ==
    \/ state[k] = "used"
    \/ session.status = "active" /\ session.current # k

Verdict(k) ==
    IF session.status = "expired" THEN "not_found"
    ELSE IF InGrace(k) THEN "grace"
    ELSE IF Reused(k) THEN "reused"
    ELSE IF state[k] = "active" /\ session.status = "active" THEN "ok" ELSE "inactive"

Revoked_KeepsToken(k, as) == [state EXCEPT ![k] = as]   \* mutant: the current token stays
\* The current token is revoked with the session; the one presented keeps a mark.
Revoked(k, as) == [state EXCEPT ![session.current] = "revoked", ![k] = as]

\* What findSessionLua and rotateSessionLua do to a token that comes back too late.
Replayed(k) ==
    /\ session' = [session EXCEPT !.status = "revoked"]
    /\ state' = Revoked(k, "replayed")

Rotated_StaysActive(k) ==           \* mutant: the old token is not marked used
    /\ session' = [session EXCEPT !.previous = k, !.current = @ + 1]
    /\ state' = [state EXCEPT ![session.current + 1] = "active"]
Rotated(k) ==
    /\ session' = [session EXCEPT !.previous = k, !.current = @ + 1]
    /\ state' = [state EXCEPT ![k] = "used", ![session.current + 1] = "active"]

\* revokeSessionLua.
RevokeByTokenHash(k) ==
    IF session.status = "expired" THEN UNCHANGED <<session, state>>
    ELSE /\ session' = [session EXCEPT !.status = "revoked"]
         /\ state' = Revoked(k, "revoked")

-----------------------------------------------------------------------------
(* AuthService.Refresh, for a tab. *)

Send(t) ==
    /\ request[t].at = "idle" /\ cookie # 0
    /\ request' = [request EXCEPT ![t] = [at |-> "sent", token |-> cookie, set |-> Clear]]
    /\ UNCHANGED <<session, grace, state, enabled, cookie, loggedOut, lost, slow, faults>>

FindByTokenHash(t) ==
    LET k == request[t].token
        v == Verdict(k)
    IN  /\ request[t].at = "sent"
        /\ IF v = "reused" THEN Replayed(k) ELSE UNCHANGED <<session, state>>
        /\ IF v \in {"ok", "grace"} THEN request' = [request EXCEPT ![t].at = "found"]
                                    ELSE Answered(t, Clear)
        /\ UNCHANGED <<grace, enabled, cookie, loggedOut, lost, slow, faults>>

\* A user who may not authenticate any more loses the session.
CheckUser(t) ==
    /\ request[t].at = "found"
    /\ IF enabled
       THEN request' = [request EXCEPT ![t].at = "checked"] /\ UNCHANGED <<session, state>>
       ELSE RevokeByTokenHash(request[t].token) /\ Answered(t, Clear)
    /\ UNCHANGED <<grace, enabled, cookie, loggedOut, lost, slow, faults>>

\* In the grace the answer has an access token and leaves the cookie alone.
Rotate(t) ==
    LET k == request[t].token
        v == Verdict(k)
    IN  /\ request[t].at = "checked"
        /\ v = "ok" => session.current < MaxTokens
        /\ IF v = "ok" THEN Rotated(k) ELSE IF v = "reused" THEN Replayed(k)
           ELSE UNCHANGED <<session, state>>
        /\ grace' = (grace \/ v = "ok")
        /\ slow' = (slow \/ (v = "ok" /\ \E u \in Tabs \ {t} :
                                request[u].at # "idle" /\ request[u].token < k))
        /\ Answered(t, IF v = "ok" THEN session.current + 1 ELSE IF v = "grace" THEN Keep ELSE Clear)
        /\ UNCHANGED <<enabled, cookie, loggedOut, lost, faults>>

\* Redis or PostgreSQL does not answer: the handler clears the cookie as for a 401.
RefreshFails(t) ==
    /\ request[t].at \in {"sent", "found", "checked"}
    /\ Fault
    /\ Answered(t, Clear)
    /\ UNCHANGED <<session, grace, state, enabled, cookie, loggedOut, lost, slow>>

Receive(t) ==
    /\ request[t].at = "answered"
    /\ cookie' = IF request[t].set = Keep THEN cookie ELSE request[t].set
    /\ request' = [request EXCEPT ![t] = Idle]
    /\ UNCHANGED <<session, grace, state, enabled, loggedOut, lost, slow, faults>>

\* The answer is lost, or Redis rotated and its answer was.
AnswerIsLost(t) ==
    /\ request[t].at = "answered"
    /\ Fault
    /\ request' = [request EXCEPT ![t] = Idle]
    /\ lost' = (lost \/ request[t].set > 0)
    /\ UNCHANGED <<session, grace, state, enabled, cookie, loggedOut, slow>>

-----------------------------------------------------------------------------
Logout ==
    /\ cookie # 0
    /\ RevokeByTokenHash(cookie)
    /\ cookie' = 0
    /\ loggedOut' = TRUE
    /\ UNCHANGED <<grace, enabled, request, lost, slow, faults>>

Disable ==
    /\ enabled
    /\ enabled' = FALSE
    /\ loggedOut' = TRUE
    /\ UNCHANGED <<session, grace, state, cookie, request, lost, slow, faults>>

GraceEnds ==
    /\ grace
    /\ grace' = FALSE
    /\ slow' = (slow \/ \E t \in Tabs : request[t].at # "idle" /\ request[t].token < session.current)
    /\ UNCHANGED <<session, state, enabled, cookie, request, loggedOut, lost, faults>>

\* PEXPIRE: a session and its tokens go together.
Expire ==
    /\ session.status # "expired"
    /\ session' = [session EXCEPT !.status = "expired"]
    /\ state' = [k \in Tokens |-> "none"]
    /\ UNCHANGED <<grace, enabled, cookie, request, loggedOut, lost, slow, faults>>

Next ==
    \/ \E t \in Tabs : Send(t) \/ FindByTokenHash(t) \/ CheckUser(t) \/ Rotate(t)
                       \/ RefreshFails(t) \/ Receive(t) \/ AnswerIsLost(t)
    \/ Logout \/ Disable \/ GraceEnds \/ Expire

Spec == Init /\ [][Next]_vars

-----------------------------------------------------------------------------
TypeOK ==
    /\ session \in [status : {"active", "revoked", "expired"}, current : Tokens, previous : 0..MaxTokens]
    /\ grace \in BOOLEAN /\ enabled \in BOOLEAN
    /\ state \in [Tokens -> {"none", "active", "used", "revoked", "replayed"}]
    /\ cookie \in 0..MaxTokens
    /\ request \in [Tabs -> [at : {"idle", "sent", "found", "checked", "answered"},
                             token : 0..MaxTokens, set : -1..MaxTokens]]
    /\ loggedOut \in BOOLEAN /\ lost \in BOOLEAN /\ slow \in BOOLEAN

\* An active session has one good token, the current one, and any other has none.
OneLiveToken ==
    {k \in Tokens : state[k] = "active"} =
        IF session.status = "active" THEN {session.current} ELSE {}

\* Tabs that refresh at once do not throw their user out: a session is revoked only for
\* someone who logged out or was disabled, after a token was lost on its way to the
\* browser, or under a request that took longer than the grace or another rotation.
StaysLoggedIn == session.status = "revoked" => loggedOut \/ lost \/ slow

Sessions == OneLiveToken /\ StaysLoggedIn

-----------------------------------------------------------------------------
(* Why it holds: while nothing was lost and nothing was slow, every tab and *)
(* the cookie have the current token or the one before it in its grace, and *)
(* as long as it is the one before it, one tab is bringing the current one. *)

Old(k) == k > 0 /\ k = session.previous /\ grace /\ state[k] = "used"
Bringing(t) == request[t].at = "answered" /\ request[t].set > 0

InTouch ==
    /\ cookie \in {0, session.current} \/ (Old(cookie) /\ \E t \in Tabs : Bringing(t))
    /\ \A t \in Tabs :
          request[t].at # "idle" => request[t].token = session.current \/ Old(request[t].token)
    /\ \A t \in Tabs : Bringing(t) =>
          /\ request[t].set = session.current /\ cookie # session.current
          /\ \A u \in Tabs : /\ request[u].at # "idle" => request[u].token # session.current
                             /\ Bringing(u) => u = t

SessionInv ==
    /\ TypeOK
    /\ OneLiveToken
    /\ StaysLoggedIn
    /\ session.previous < session.current
    /\ ~enabled => loggedOut
    /\ \A t \in Tabs : request[t].at # "idle" => request[t].token # 0
    /\ session.status = "active" => loggedOut \/ lost \/ slow \/ InTouch
=============================================================================
