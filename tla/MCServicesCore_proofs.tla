------------------------ MODULE MCServicesCore_proofs ------------------------
(* Lemmas about what the core service and the agent keep: refresh sessions,   *)
(* access requests and organizations, whose rows are mirrored in OpenFGA, and *)
(* conversations, for any people, tabs, reviewers, rows and tasks and any     *)
(* number of faults.  Each component has an inductive invariant of its own,   *)
(* named in its module (SessionInv, AccessInv, OrgInv, MemoryInv).            *)
EXTENDS MCServicesParts, TLAPS, FiniteSetTheorems

-----------------------------------------------------------------------------
(* Refresh sessions. *)

\* What the states of the tokens say of the session, token by token.
LEMMA SessionLive ==
    ASSUME Session!TypeOK, Session!OneLiveToken, NEW k \in Session!Tokens
    PROVE  s_state[k] = "active" <=> s_session.status = "active" /\ k = s_session.current
BY DEF Session!TypeOK, Session!OneLiveToken

\* As long as all is in touch, no token that a tab comes with counts as used again.
LEMMA SessionGood ==
    ASSUME Session!SessionInv, NEW t \in Workers, s_request[t].at # "idle",
           s_session.status = "active", ~s_loggedOut, ~s_lost, ~s_slow
    PROVE  LET k == s_request[t].token
           IN  /\ k \in Session!Tokens
               /\ k = s_session.current => Session!Verdict(k) = "ok"
               /\ k # s_session.current => Session!Old(k) /\ Session!Verdict(k) = "grace"
<1> DEFINE k == s_request[t].token
<1>0. Session!TypeOK /\ Session!OneLiveToken /\ Session!InTouch /\ s_session.previous < s_session.current
  BY DEF Session!SessionInv
<1>1. /\ s_session.current \in 1..MaxTokens /\ s_session.previous \in 0..MaxTokens
      /\ s_session.current \in Session!Tokens
  BY <1>0 DEF Session!TypeOK, Session!Tokens
<1>2. k = s_session.current \/ Session!Old(k)
  BY <1>0 DEF Session!InTouch
<1>3. k \in Session!Tokens
  BY <1>1, <1>2, ServicesAssumption DEF Session!Tokens, Session!Old
<1>4. s_state[k] = "active" <=> k = s_session.current
  BY <1>0, <1>3, SessionLive
<1>5. CASE k = s_session.current
  <2>1. ~Session!InGrace(k) /\ ~Session!Reused(k)
    BY <1>4, <1>5 DEF Session!InGrace, Session!Reused
  <2> QED BY <2>1, <1>3, <1>4, <1>5 DEF Session!Verdict
<1>6. CASE k # s_session.current
  <2>1. Session!Old(k)
    BY <1>2, <1>6
  <2>2. Session!InGrace(k)
    BY <2>1 DEF Session!InGrace, Session!Old
  <2> QED BY <2>1, <2>2, <1>3, <1>6 DEF Session!Verdict
<1> QED BY <1>5, <1>6

LEMMA SessionTypes ==
    ASSUME Session!TypeOK, Session!Next PROVE Session!TypeOK'
<1> DEFINE Record == [at : {"idle", "sent", "found", "checked", "answered"},
                      token : 0..MaxTokens, set : -1..MaxTokens]
           States == {"none", "active", "used", "revoked", "replayed"}
           Row == [status : {"active", "revoked", "expired"}, current : 1..MaxTokens,
                   previous : 0..MaxTokens]
<1>0. /\ s_session \in Row /\ s_state \in [1..MaxTokens -> States]
      /\ s_grace \in BOOLEAN /\ s_enabled \in BOOLEAN /\ s_cookie \in 0..MaxTokens
      /\ s_request \in [Workers -> Record]
      /\ s_loggedOut \in BOOLEAN /\ s_lost \in BOOLEAN /\ s_slow \in BOOLEAN
  BY DEF Session!TypeOK, Session!Tokens
<1>00. MaxTokens \in Nat /\ 0 \in 0..MaxTokens /\ -1 \in -1..MaxTokens /\ 0 \in -1..MaxTokens
  BY ServicesAssumption
<1> SUFFICES /\ s_session' \in Row /\ s_state' \in [1..MaxTokens -> States]
             /\ s_grace' \in BOOLEAN /\ s_enabled' \in BOOLEAN /\ s_cookie' \in 0..MaxTokens
             /\ s_request' \in [Workers -> Record]
             /\ s_loggedOut' \in BOOLEAN /\ s_lost' \in BOOLEAN /\ s_slow' \in BOOLEAN
  BY DEF Session!TypeOK, Session!Tokens
<1>k. ASSUME NEW k, NEW m \in States
      PROVE  [s_state EXCEPT ![s_session.current] = "revoked", ![k] = m] \in [1..MaxTokens -> States]
  BY <1>0
<1>r. ASSUME NEW t \in Workers, NEW a \in {"idle", "sent", "found", "checked", "answered"}
      PROVE  [s_request EXCEPT ![t].at = a] \in [Workers -> Record]
  BY <1>0
<1>s. ASSUME NEW t \in Workers, NEW a \in {"idle", "sent", "found", "checked", "answered"},
             NEW n \in -1..MaxTokens
      PROVE  [s_request EXCEPT ![t].at = a, ![t].set = n] \in [Workers -> Record]
  BY <1>0
<1>i. ASSUME NEW t \in Workers PROVE [s_request EXCEPT ![t] = Session!Idle] \in [Workers -> Record]
  <2>1. Session!Idle \in Record
    BY <1>00 DEF Session!Idle
  <2> HIDE DEF Record
  <2> QED BY <1>0, <2>1
<1>p. ASSUME NEW k, Session!Replayed(k) \/ Session!RevokeByTokenHash(k)
      PROVE  s_session' \in Row /\ s_state' \in [1..MaxTokens -> States]
  <2>1. [s_session EXCEPT !.status = "revoked"] \in Row
    BY <1>0
  <2>2. CASE Session!Replayed(k)
    BY <2>2, <2>1, <1>k DEF Session!Replayed, Session!Revoked
  <2>3. CASE Session!RevokeByTokenHash(k)
    <3>1. CASE s_session.status = "expired"
      <4> HIDE DEF Row, States
      <4> QED BY <3>1, <2>3, <1>0 DEF Session!RevokeByTokenHash
    <3>2. CASE s_session.status # "expired"
      BY <3>2, <2>3, <2>1, <1>k DEF Session!RevokeByTokenHash, Session!Revoked
    <3> QED BY <3>1, <3>2
  <2> QED BY <1>p, <2>2, <2>3
<1>a. ASSUME NEW t \in Workers, NEW n \in -1..MaxTokens, Session!Answered(t, n)
      PROVE  s_request' \in [Workers -> Record]
  BY <1>a, <1>s DEF Session!Answered
<1>1. ASSUME NEW t \in Workers, Session!Send(t)
      PROVE  /\ s_session' = s_session /\ s_state' = s_state /\ s_grace' = s_grace
             /\ s_enabled' = s_enabled /\ s_cookie' = s_cookie /\ s_request' \in [Workers -> Record]
             /\ s_loggedOut' = s_loggedOut /\ s_lost' = s_lost /\ s_slow' = s_slow
  <2>1. [at |-> "sent", token |-> s_cookie, set |-> 0] \in Record
    BY <1>0, <1>00
  <2> HIDE DEF Record
  <2> QED BY <1>1, <1>0, <2>1 DEF Session!Send, Session!Clear
<1>2. ASSUME NEW t \in Workers, Session!FindByTokenHash(t)
      PROVE  /\ s_session' \in Row /\ s_state' \in [1..MaxTokens -> States] /\ s_grace' = s_grace
             /\ s_enabled' = s_enabled /\ s_cookie' = s_cookie /\ s_request' \in [Workers -> Record]
             /\ s_loggedOut' = s_loggedOut /\ s_lost' = s_lost /\ s_slow' = s_slow
  <2> HIDE DEF Row, States, Record
  <2> DEFINE k == s_request[t].token
             v == Session!Verdict(k)
  <2>1. s_session' \in Row /\ s_state' \in [1..MaxTokens -> States]
    <3>1. Session!Replayed(k) \/ UNCHANGED <<s_session, s_state>>
      BY <1>2 DEF Session!FindByTokenHash
    <3> QED BY <3>1, <1>p, <1>0
  <2>2. s_request' \in [Workers -> Record]
    <3>1. s_request' = [s_request EXCEPT ![t].at = "found"] \/ Session!Answered(t, 0)
      BY <1>2 DEF Session!FindByTokenHash, Session!Clear
    <3> QED BY <3>1, <1>r, <1>a, <1>00
  <2> QED BY <2>1, <2>2, <1>2 DEF Session!FindByTokenHash
<1>3. ASSUME NEW t \in Workers, Session!CheckUser(t)
      PROVE  /\ s_session' \in Row /\ s_state' \in [1..MaxTokens -> States] /\ s_grace' = s_grace
             /\ s_enabled' = s_enabled /\ s_cookie' = s_cookie /\ s_request' \in [Workers -> Record]
             /\ s_loggedOut' = s_loggedOut /\ s_lost' = s_lost /\ s_slow' = s_slow
  <2> HIDE DEF Row, States, Record
  <2>1. s_session' \in Row /\ s_state' \in [1..MaxTokens -> States]
    <3>1. Session!RevokeByTokenHash(s_request[t].token) \/ UNCHANGED <<s_session, s_state>>
      BY <1>3 DEF Session!CheckUser
    <3> QED BY <3>1, <1>p, <1>0
  <2>2. s_request' \in [Workers -> Record]
    <3>1. s_request' = [s_request EXCEPT ![t].at = "checked"] \/ Session!Answered(t, 0)
      BY <1>3 DEF Session!CheckUser, Session!Clear
    <3> QED BY <3>1, <1>r, <1>a, <1>00
  <2> QED BY <2>1, <2>2, <1>3 DEF Session!CheckUser
<1>4. ASSUME NEW t \in Workers, Session!Rotate(t)
      PROVE  /\ s_session' \in Row /\ s_state' \in [1..MaxTokens -> States] /\ s_grace' \in BOOLEAN
             /\ s_enabled' = s_enabled /\ s_cookie' = s_cookie /\ s_request' \in [Workers -> Record]
             /\ s_loggedOut' = s_loggedOut /\ s_lost' = s_lost /\ s_slow' \in BOOLEAN
  <2> DEFINE k == s_request[t].token
             v == Session!Verdict(k)
  <2>0. s_session.current \in 1..MaxTokens /\ k \in 0..MaxTokens
    BY <1>0
  <2>1. CASE v = "ok"
    <3>1. s_session.current < MaxTokens
      BY <1>4, <2>1 DEF Session!Rotate
    <3>2. s_session.current + 1 \in 1..MaxTokens /\ s_session.current + 1 \in -1..MaxTokens
      BY <3>1, <2>0, <1>00
    <3>3. s_session' = [s_session EXCEPT !.previous = k, !.current = @ + 1]
      BY <1>4, <2>1 DEF Session!Rotate, Session!Rotated
    <3>4. s_state' = [s_state EXCEPT ![k] = "used", ![s_session.current + 1] = "active"]
      BY <1>4, <2>1 DEF Session!Rotate, Session!Rotated
    <3>5. s_request' = [s_request EXCEPT ![t].at = "answered", ![t].set = s_session.current + 1]
      BY <1>4, <2>1 DEF Session!Rotate, Session!Answered
    <3>6. s_session' \in Row
      BY <3>3, <3>2, <2>0, <1>0
    <3>7. s_state' \in [1..MaxTokens -> States]
      BY <3>4, <1>0
    <3>8. s_request' \in [Workers -> Record]
      BY <3>5, <3>2, <1>s
    <3> HIDE DEF Record, Row, States
    <3> QED BY <3>6, <3>7, <3>8, <1>4 DEF Session!Rotate
  <2>2. CASE v # "ok"
    <3>1. s_session' \in Row /\ s_state' \in [1..MaxTokens -> States]
      <4> HIDE DEF Row, States, Record
      <4>1. Session!Replayed(k) \/ UNCHANGED <<s_session, s_state>>
        BY <1>4, <2>2 DEF Session!Rotate
      <4> QED BY <4>1, <1>p, <1>0
    <3>2. s_request' \in [Workers -> Record]
      BY <1>s, <1>00, <1>4, <2>2 DEF Session!Rotate, Session!Answered, Session!Clear, Session!Keep
    <3> HIDE DEF Record, Row, States
    <3> QED BY <3>1, <3>2, <1>4 DEF Session!Rotate
  <2> QED BY <2>1, <2>2
<1>5. ASSUME NEW t \in Workers,
             Session!RefreshFails(t) \/ Session!Receive(t) \/ Session!AnswerIsLost(t)
      PROVE  /\ s_session' = s_session /\ s_state' = s_state /\ s_grace' = s_grace
             /\ s_enabled' = s_enabled /\ s_cookie' \in 0..MaxTokens
             /\ s_request' \in [Workers -> Record]
             /\ s_loggedOut' = s_loggedOut /\ s_lost' \in BOOLEAN /\ s_slow' = s_slow
  <2>1. CASE Session!RefreshFails(t)
    BY <2>1, <1>0, <1>s, <1>00 DEF Session!RefreshFails, Session!Answered, Session!Clear
  <2>2. CASE Session!Receive(t)
    <3>1. s_request[t].set \in -1..MaxTokens
      BY <1>0
    <3>2. s_cookie' \in 0..MaxTokens
      BY <3>1, <2>2, <1>0, <1>00 DEF Session!Receive, Session!Keep
    <3> HIDE DEF Record
    <3> QED BY <2>2, <1>0, <1>i, <3>2 DEF Session!Receive
  <2>3. CASE Session!AnswerIsLost(t)
    BY <2>3, <1>0, <1>i DEF Session!AnswerIsLost
  <2> QED BY <1>5, <2>1, <2>2, <2>3
<1>6. ASSUME Session!Logout \/ Session!Disable \/ Session!GraceEnds \/ Session!Expire
      PROVE  /\ s_session' \in Row /\ s_state' \in [1..MaxTokens -> States] /\ s_grace' \in BOOLEAN
             /\ s_enabled' \in BOOLEAN /\ s_cookie' \in 0..MaxTokens
             /\ s_request' = s_request
             /\ s_loggedOut' \in BOOLEAN /\ s_lost' = s_lost /\ s_slow' \in BOOLEAN
  <2>1. CASE Session!Logout
    BY <2>1, <1>0, <1>k, <1>00 DEF Session!Logout, Session!RevokeByTokenHash, Session!Revoked
  <2>2. CASE Session!Disable
    BY <2>2, <1>0 DEF Session!Disable
  <2>3. CASE Session!GraceEnds
    BY <2>3, <1>0 DEF Session!GraceEnds
  <2>4. CASE Session!Expire
    BY <2>4, <1>0 DEF Session!Expire, Session!Tokens
  <2> QED BY <1>6, <2>1, <2>2, <2>3, <2>4
<1> HIDE DEF Record, Row, States
<1> QED
  BY <1>0, <1>1, <1>2, <1>3, <1>4, <1>5, <1>6 DEF Session!Next

\* A session that a script revokes has no token that is good any more.
LEMMA SessionRevoked ==
    ASSUME Session!SessionInv, NEW k \in 0..MaxTokens,
           Session!Replayed(k) \/ (Session!RevokeByTokenHash(k) /\ s_session.status # "expired")
    PROVE  /\ s_session'.status = "revoked" /\ s_session'.current = s_session.current
           /\ s_session'.previous = s_session.previous
           /\ Session!OneLiveToken'
<1>0. Session!TypeOK /\ Session!OneLiveToken
  BY DEF Session!SessionInv
<1>1. PICK m \in {"revoked", "replayed"} :
          /\ s_session' = [s_session EXCEPT !.status = "revoked"]
          /\ s_state' = [s_state EXCEPT ![s_session.current] = "revoked", ![k] = m]
  BY DEF Session!Replayed, Session!RevokeByTokenHash, Session!Revoked
<1>2. /\ s_session'.status = "revoked" /\ s_session'.current = s_session.current
      /\ s_session'.previous = s_session.previous
  BY <1>0, <1>1 DEF Session!TypeOK
<1>3. ASSUME NEW j \in Session!Tokens PROVE s_state'[j] # "active"
  <2>1. s_state[j] = "active" => j = s_session.current
    BY <1>0, SessionLive
  <2>2. s_state \in [Session!Tokens -> {"none", "active", "used", "revoked", "replayed"}]
    BY <1>0 DEF Session!TypeOK
  <2>3. CASE j = k
    BY <2>2, <2>3, <1>1
  <2>4. CASE j # k /\ j = s_session.current
    BY <2>2, <2>4, <1>1
  <2>5. CASE j # k /\ j # s_session.current
    BY <2>2, <2>1, <2>5, <1>1
  <2> QED BY <2>3, <2>4, <2>5
<1> QED BY <1>2, <1>3 DEF Session!OneLiveToken

\* One good token in an active session, and the older one before it.
LEMMA SessionOneLive ==
    ASSUME Session!SessionInv, Session!Next
    PROVE  Session!OneLiveToken' /\ s_session'.previous < s_session'.current
<1>0. /\ Session!TypeOK /\ Session!OneLiveToken /\ s_session.previous < s_session.current
      /\ \A t \in Workers : s_request[t].token \in 0..MaxTokens
      /\ s_cookie \in 0..MaxTokens
  BY DEF Session!SessionInv, Session!TypeOK
<1>u. ASSUME UNCHANGED <<s_session, s_state>>
      PROVE  Session!OneLiveToken' /\ s_session'.previous < s_session'.current
  BY <1>u, <1>0 DEF Session!OneLiveToken, Session!Tokens
<1>r. ASSUME NEW k \in 0..MaxTokens, Session!Replayed(k) \/ Session!RevokeByTokenHash(k)
      PROVE  Session!OneLiveToken' /\ s_session'.previous < s_session'.current
  <2>1. CASE Session!Replayed(k) \/ (Session!RevokeByTokenHash(k) /\ s_session.status # "expired")
    BY <2>1, <1>0, SessionRevoked
  <2>2. CASE Session!RevokeByTokenHash(k) /\ s_session.status = "expired"
    BY <2>2, <1>u DEF Session!RevokeByTokenHash
  <2> QED BY <1>r, <2>1, <2>2
<1>1. ASSUME NEW t \in Workers, Session!FindByTokenHash(t) \/ Session!CheckUser(t)
      PROVE  Session!OneLiveToken' /\ s_session'.previous < s_session'.current
  <2>1. \/ UNCHANGED <<s_session, s_state>> \/ Session!Replayed(s_request[t].token)
        \/ Session!RevokeByTokenHash(s_request[t].token)
    BY <1>1 DEF Session!FindByTokenHash, Session!CheckUser
  <2> QED BY <2>1, <1>u, <1>r, <1>0
<1>2. ASSUME NEW t \in Workers, Session!Rotate(t)
      PROVE  Session!OneLiveToken' /\ s_session'.previous < s_session'.current
  <2> DEFINE k == s_request[t].token
             v == Session!Verdict(k)
             c == s_session.current
  <2>1. CASE v = "ok"
    <3>1. s_state[k] = "active" /\ s_session.status = "active" /\ c < MaxTokens
      BY <1>2, <2>1 DEF Session!Rotate, Session!Verdict
    <3>2. /\ s_session' = [s_session EXCEPT !.previous = k, !.current = @ + 1]
          /\ s_state' = [s_state EXCEPT ![k] = "used", ![c + 1] = "active"]
      BY <1>2, <2>1 DEF Session!Rotate, Session!Rotated
    <3>3. /\ s_state \in [Session!Tokens -> {"none", "active", "used", "revoked", "replayed"}]
          /\ c \in Session!Tokens /\ c \in Nat
          /\ s_session \in [status : {"active", "revoked", "expired"}, current : Session!Tokens,
                            previous : 0..MaxTokens]
      BY <1>0, ServicesAssumption DEF Session!TypeOK, Session!Tokens
    <3>4. k = c
      <4>1. k # 0
        BY <1>2 DEF Session!Rotate, Session!SessionInv
      <4>2. k \in Session!Tokens
        BY <4>1, <1>0, ServicesAssumption DEF Session!Tokens
      <4> QED BY <4>2, <3>1, <1>0, SessionLive
    <3>5. s_session'.current = c + 1 /\ s_session'.previous = c /\ s_session'.status = "active"
      BY <3>1, <3>2, <3>3, <3>4
    <3>6. ASSUME NEW j \in Session!Tokens PROVE s_state'[j] = "active" <=> j = c + 1
      <4>1. s_state[j] = "active" <=> j = c
        BY <1>0, <3>1, SessionLive
      <4>2. c + 1 \in Session!Tokens /\ c + 1 # c
        BY <3>1, <3>3, ServicesAssumption DEF Session!Tokens
      <4>3. CASE j = c + 1
        BY <4>3, <3>2, <3>3, <4>2
      <4>4. CASE j # c + 1 /\ j = c
        BY <4>4, <3>2, <3>3, <3>4
      <4>5. CASE j # c + 1 /\ j # c
        BY <4>5, <4>1, <3>2, <3>3, <3>4
      <4> QED BY <4>3, <4>4, <4>5
    <3>7. c + 1 \in Session!Tokens
      BY <3>1, <3>3, ServicesAssumption DEF Session!Tokens
    <3>8. {j \in Session!Tokens : s_state'[j] = "active"} = {c + 1}
      BY <3>6, <3>7
    <3>9. Session!OneLiveToken'
      BY <3>8, <3>5 DEF Session!OneLiveToken, Session!Tokens
    <3> QED BY <3>9, <3>5, <3>3
  <2>2. CASE v # "ok"
    <3>1. UNCHANGED <<s_session, s_state>> \/ Session!Replayed(k)
      BY <1>2, <2>2 DEF Session!Rotate
    <3> QED BY <3>1, <1>u, <1>r, <1>0
  <2> QED BY <2>1, <2>2
<1>3. ASSUME Session!Logout
      PROVE  Session!OneLiveToken' /\ s_session'.previous < s_session'.current
  BY <1>3, <1>r, <1>0 DEF Session!Logout
<1>4. ASSUME Session!Expire
      PROVE  Session!OneLiveToken' /\ s_session'.previous < s_session'.current
  <2>1. /\ s_session'.status = "expired" /\ s_session'.current = s_session.current
        /\ s_session'.previous = s_session.previous
    BY <1>4, <1>0 DEF Session!Expire, Session!TypeOK
  <2>2. \A j \in Session!Tokens : s_state'[j] # "active"
    BY <1>4 DEF Session!Expire
  <2> QED BY <2>1, <2>2, <1>0 DEF Session!OneLiveToken
<1>5. CASE \E t \in Workers : Session!Send(t) \/ Session!RefreshFails(t) \/ Session!Receive(t)
                              \/ Session!AnswerIsLost(t)
  BY <1>5, <1>u DEF Session!Send, Session!RefreshFails, Session!Receive, Session!AnswerIsLost
<1>6. CASE Session!Disable \/ Session!GraceEnds
  BY <1>6, <1>u DEF Session!Disable, Session!GraceEnds
<1> QED BY <1>1, <1>2, <1>3, <1>4, <1>5, <1>6 DEF Session!Next

\* Who is thrown out has logged out, was disabled, lost a token or was slow.
LEMMA SessionStays ==
    ASSUME Session!SessionInv, Session!Next
    PROVE  /\ Session!StaysLoggedIn' /\ (~s_enabled' => s_loggedOut')
           /\ \A t \in Workers : s_request'[t].at # "idle" => s_request'[t].token # 0
<1>0. /\ Session!TypeOK /\ Session!StaysLoggedIn /\ (~s_enabled => s_loggedOut)
      /\ \A t \in Workers : s_request[t].at # "idle" => s_request[t].token # 0
      /\ s_session.status \in {"active", "revoked", "expired"}
      /\ \A t \in Workers : s_request[t].token \in 0..MaxTokens
  BY DEF Session!SessionInv, Session!TypeOK
<1>1. Session!StaysLoggedIn'
  <2>0. SUFFICES ASSUME s_session'.status = "revoked", s_session.status # "revoked"
                 PROVE  s_loggedOut' \/ s_lost' \/ s_slow'
    <3>1. s_loggedOut => s_loggedOut'
      BY DEF Session!Next, Session!Send, Session!FindByTokenHash, Session!CheckUser,
         Session!Rotate, Session!RefreshFails, Session!Receive, Session!AnswerIsLost,
         Session!Logout, Session!Disable, Session!GraceEnds, Session!Expire
    <3>2. s_lost => s_lost'
      BY DEF Session!Next, Session!Send, Session!FindByTokenHash, Session!CheckUser,
         Session!Rotate, Session!RefreshFails, Session!Receive, Session!AnswerIsLost,
         Session!Logout, Session!Disable, Session!GraceEnds, Session!Expire
    <3>3. s_slow => s_slow'
      <4>1. ASSUME NEW t \in Workers, Session!Rotate(t) PROVE s_slow => s_slow'
        BY <4>1 DEF Session!Rotate
      <4>2. ASSUME NEW t \in Workers, ~Session!Rotate(t),
                   \/ Session!Send(t) \/ Session!FindByTokenHash(t) \/ Session!CheckUser(t)
                   \/ Session!RefreshFails(t) \/ Session!Receive(t) \/ Session!AnswerIsLost(t)
            PROVE  s_slow => s_slow'
        BY <4>2 DEF Session!Send, Session!FindByTokenHash, Session!CheckUser,
           Session!RefreshFails, Session!Receive, Session!AnswerIsLost
      <4>3. CASE Session!Logout \/ Session!Disable \/ Session!GraceEnds \/ Session!Expire
        BY <4>3 DEF Session!Logout, Session!Disable, Session!GraceEnds, Session!Expire
      <4> QED BY <4>1, <4>2, <4>3 DEF Session!Next
    <3> QED BY <3>1, <3>2, <3>3, <1>0 DEF Session!StaysLoggedIn
  <2>1. ASSUME NEW t \in Workers, s_request[t].at # "idle",
               Session!Verdict(s_request[t].token) = "reused"
        PROVE  s_loggedOut \/ s_lost \/ s_slow
    <3>1. s_session.status # "expired"
      BY <2>1 DEF Session!Verdict
    <3>2. s_session.status = "active"
      BY <3>1, <2>0, <1>0
    <3> QED BY <3>2, <2>1, SessionGood
  <2>2. ASSUME NEW t \in Workers, Session!FindByTokenHash(t)
        PROVE  s_loggedOut' \/ s_lost' \/ s_slow'
    <3>1. CASE Session!Verdict(s_request[t].token) = "reused"
      BY <2>1, <2>2, <3>1 DEF Session!FindByTokenHash
    <3>2. CASE Session!Verdict(s_request[t].token) # "reused"
      BY <2>0, <2>2, <3>2 DEF Session!FindByTokenHash
    <3> QED BY <3>1, <3>2
  <2>3. ASSUME NEW t \in Workers, Session!CheckUser(t)
        PROVE  s_loggedOut' \/ s_lost' \/ s_slow'
    BY <2>0, <2>3, <1>0 DEF Session!CheckUser
  <2>4. ASSUME NEW t \in Workers, Session!Rotate(t)
        PROVE  s_loggedOut' \/ s_lost' \/ s_slow'
    <3> DEFINE v == Session!Verdict(s_request[t].token)
    <3>1. CASE v = "reused"
      BY <2>1, <2>4, <3>1 DEF Session!Rotate
    <3>2. CASE v = "ok"
      <4>1. s_session' = [s_session EXCEPT !.previous = s_request[t].token, !.current = @ + 1]
        BY <2>4, <3>2 DEF Session!Rotate, Session!Rotated
      <4>2. s_session'.status = s_session.status
        BY <4>1, <1>0 DEF Session!TypeOK
      <4> QED BY <4>2, <2>0
    <3>3. CASE v \notin {"ok", "reused"}
      BY <2>0, <2>4, <3>3 DEF Session!Rotate
    <3> QED BY <3>1, <3>2, <3>3
  <2>5. ASSUME NEW t \in Workers, Session!Send(t) \/ Session!RefreshFails(t) \/ Session!Receive(t)
                                  \/ Session!AnswerIsLost(t)
        PROVE  s_loggedOut' \/ s_lost' \/ s_slow'
    BY <2>0, <2>5 DEF Session!Send, Session!RefreshFails, Session!Receive, Session!AnswerIsLost
  <2>6. ASSUME Session!Logout \/ Session!Disable \/ Session!GraceEnds
        PROVE  s_loggedOut' \/ s_lost' \/ s_slow'
    BY <2>0, <2>6 DEF Session!Logout, Session!Disable, Session!GraceEnds
  <2>7. ASSUME Session!Expire
        PROVE  s_loggedOut' \/ s_lost' \/ s_slow'
    <3>1. s_session'.status = "expired"
      BY <2>7, <1>0 DEF Session!Expire, Session!TypeOK
    <3> QED BY <3>1, <2>0
  <2> QED BY <2>2, <2>3, <2>4, <2>5, <2>6, <2>7 DEF Session!Next
<1>2. ~s_enabled' => s_loggedOut'
  BY <1>0 DEF Session!Next, Session!Send, Session!FindByTokenHash, Session!CheckUser,
     Session!Rotate, Session!RefreshFails, Session!Receive, Session!AnswerIsLost,
     Session!Logout, Session!Disable, Session!GraceEnds, Session!Expire
<1>3. ASSUME NEW u \in Workers, s_request'[u].at # "idle" PROVE s_request'[u].token # 0
  <2>0. s_request \in [Workers -> [at : {"idle", "sent", "found", "checked", "answered"},
                                   token : 0..MaxTokens, set : -1..MaxTokens]]
    BY <1>0 DEF Session!TypeOK
  <2>1. CASE s_request'[u] = s_request[u]
    BY <2>1, <1>3, <1>0
  <2>2. ASSUME NEW t \in Workers, NEW a, NEW n, s_request[t].at # "idle",
               \/ s_request' = [s_request EXCEPT ![t].at = a]
               \/ s_request' = [s_request EXCEPT ![t].at = a, ![t].set = n]
        PROVE  s_request'[u].token # 0
    <3>1. s_request'[t].token = s_request[t].token
      BY <2>2, <2>0
    <3>2. u # t => s_request'[u] = s_request[u]
      BY <2>2, <2>0
    <3> QED BY <3>1, <3>2, <2>1, <2>2, <1>0
  <2>3. ASSUME NEW t \in Workers, Session!Send(t) PROVE s_request'[u].token # 0
    <3>1. CASE u = t
      BY <3>1, <2>3, <2>0 DEF Session!Send
    <3>2. CASE u # t
      BY <3>2, <2>3, <2>0, <2>1 DEF Session!Send
    <3> QED BY <3>1, <3>2
  <2>4. ASSUME NEW t \in Workers, Session!FindByTokenHash(t) PROVE s_request'[u].token # 0
    <3>1. \/ s_request' = [s_request EXCEPT ![t].at = "found"]
          \/ s_request' = [s_request EXCEPT ![t].at = "answered", ![t].set = 0]
      BY <2>4 DEF Session!FindByTokenHash, Session!Answered, Session!Clear
    <3> QED BY <3>1, <2>2, <2>4 DEF Session!FindByTokenHash
  <2>5. ASSUME NEW t \in Workers, Session!CheckUser(t) PROVE s_request'[u].token # 0
    <3>1. \/ s_request' = [s_request EXCEPT ![t].at = "checked"]
          \/ s_request' = [s_request EXCEPT ![t].at = "answered", ![t].set = 0]
      BY <2>5 DEF Session!CheckUser, Session!Answered, Session!Clear
    <3> QED BY <3>1, <2>2, <2>5 DEF Session!CheckUser
  <2>6. ASSUME NEW t \in Workers, Session!Rotate(t) PROVE s_request'[u].token # 0
    <3>1. PICK n : s_request' = [s_request EXCEPT ![t].at = "answered", ![t].set = n]
      BY <2>6 DEF Session!Rotate, Session!Answered
    <3> QED BY <3>1, <2>2, <2>6 DEF Session!Rotate
  <2>7. ASSUME NEW t \in Workers, Session!RefreshFails(t) PROVE s_request'[u].token # 0
    <3>1. s_request' = [s_request EXCEPT ![t].at = "answered", ![t].set = 0]
      BY <2>7 DEF Session!RefreshFails, Session!Answered, Session!Clear
    <3>2. s_request[t].at # "idle"
      BY <2>7 DEF Session!RefreshFails
    <3> QED BY <3>1, <3>2, <2>2
  <2>8. ASSUME NEW t \in Workers, Session!Receive(t) \/ Session!AnswerIsLost(t)
        PROVE  s_request'[u].token # 0
    <3>1. s_request' = [s_request EXCEPT ![t] = Session!Idle]
      BY <2>8 DEF Session!Receive, Session!AnswerIsLost
    <3>2. u # t
      BY <3>1, <1>3, <2>0 DEF Session!Idle
    <3> QED BY <3>1, <3>2, <2>0, <2>1
  <2>9. CASE Session!Logout \/ Session!Disable \/ Session!GraceEnds \/ Session!Expire
    BY <2>9, <2>1 DEF Session!Logout, Session!Disable, Session!GraceEnds, Session!Expire
  <2> QED BY <2>3, <2>4, <2>5, <2>6, <2>7, <2>8, <2>9 DEF Session!Next
<1> QED BY <1>1, <1>2, <1>3

\* While nothing was lost or slow, the tabs, the cookie and the session stay in touch.
LEMMA SessionInTouch ==
    ASSUME Session!SessionInv, Session!Next,
           s_session'.status = "active", ~s_loggedOut', ~s_lost', ~s_slow'
    PROVE  Session!InTouch'
<1> DEFINE Record == [at : {"idle", "sent", "found", "checked", "answered"},
                      token : 0..MaxTokens, set : -1..MaxTokens]
<1>0. /\ Session!TypeOK /\ s_session.previous < s_session.current
      /\ s_session.current \in 1..MaxTokens /\ s_session.previous \in 0..MaxTokens
      /\ s_session.status \in {"active", "revoked", "expired"}
      /\ s_request \in [Workers -> Record] /\ s_cookie \in 0..MaxTokens
      /\ (~s_enabled => s_loggedOut)
      /\ \A t \in Workers : s_request[t].at # "idle" => s_request[t].token # 0
  BY DEF Session!SessionInv, Session!TypeOK, Session!Tokens
<1>s. /\ s_session \in [status : {"active", "revoked", "expired"}, current : 1..MaxTokens,
                        previous : 0..MaxTokens]
      /\ s_state \in [1..MaxTokens -> {"none", "active", "used", "revoked", "replayed"}]
  BY DEF Session!SessionInv, Session!TypeOK, Session!Tokens
<1>m. ASSUME MaxTokens \notin Nat PROVE FALSE
  BY <1>m, ServicesAssumption
<1>1. s_session.status = "active" => Session!InTouch \/ s_loggedOut \/ s_lost \/ s_slow
  BY DEF Session!SessionInv
<1>n. 0 \in 0..MaxTokens /\ -1 \in -1..MaxTokens /\ 0 \in -1..MaxTokens
  BY ServicesAssumption
\* A tab asks, goes on, or is done, and brings no token.
<1>q. ASSUME NEW t \in Workers, NEW rec \in Record, Session!InTouch,
             UNCHANGED <<s_session, s_grace, s_state>>,
             s_request' = [s_request EXCEPT ![t] = rec], s_cookie' \in {s_cookie, 0},
             ~Session!Bringing(t), ~(rec.at = "answered" /\ rec.set > 0),
             rec.at # "idle" => \/ s_request[t].at # "idle" /\ rec.token = s_request[t].token
                                \/ rec.token = s_cookie /\ s_cookie # 0
      PROVE  Session!InTouch'
  <2>1. /\ s_request'[t] = rec
        /\ \A u \in Workers \ {t} : s_request'[u] = s_request[u]
    BY <1>q, <1>0
  <2>2. \A k : Session!Old(k)' <=> Session!Old(k)
    BY <1>q DEF Session!Old
  <2>3. \A u \in Workers : Session!Bringing(u)' <=> Session!Bringing(u)
    BY <2>1, <1>q DEF Session!Bringing
  <2>4. s_session.current # 0 /\ s_session' = s_session
    BY <1>0, <1>q, ServicesAssumption
  <2>5. s_cookie' \in {0, s_session.current} \/ (Session!Old(s_cookie') /\ \E u \in Workers : Session!Bringing(u))
    BY <1>q DEF Session!InTouch
  <2>6. ASSUME NEW u \in Workers, s_request'[u].at # "idle"
        PROVE  s_request'[u].token = s_session.current \/ Session!Old(s_request'[u].token)
    <3>1. CASE u # t
      BY <3>1, <2>6, <2>1, <1>q DEF Session!InTouch
    <3>2. CASE u = t
      BY <3>2, <2>6, <2>1, <1>q DEF Session!InTouch
    <3> QED BY <3>1, <3>2
  <2>7. ASSUME NEW u \in Workers, Session!Bringing(u)
        PROVE  /\ s_request'[u].set = s_session.current /\ s_cookie' # s_session.current
               /\ \A w \in Workers :
                    /\ s_request'[w].at # "idle" => s_request'[w].token # s_session.current
                    /\ Session!Bringing(w) => w = u
    <3>1. u # t /\ s_request'[u] = s_request[u]
      BY <2>7, <1>q, <2>1
    <3>2. /\ s_request[u].set = s_session.current /\ s_cookie # s_session.current
          /\ \A w \in Workers :
                /\ s_request[w].at # "idle" => s_request[w].token # s_session.current
                /\ Session!Bringing(w) => w = u
      BY <2>7, <1>q DEF Session!InTouch
    <3>3. ASSUME NEW w \in Workers, s_request'[w].at # "idle"
          PROVE  s_request'[w].token # s_session.current
      <4>1. CASE w # t
        BY <4>1, <3>2, <3>3, <2>1
      <4>2. CASE w = t
        BY <4>2, <3>2, <3>3, <2>1, <1>q
      <4> QED BY <4>1, <4>2
    <3> QED BY <3>1, <3>2, <3>3, <2>4, <1>q
  <2>8. Session!Old(s_cookie)' <=> (s_cookie' > 0 /\ s_cookie' = s_session.previous /\ s_grace /\ s_state[s_cookie'] = "used")
    BY <1>q DEF Session!Old
  <2>9. /\ s_cookie' \in {0, s_session'.current}
           \/ (Session!Old(s_cookie)' /\ \E u \in Workers : Session!Bringing(u)')
    BY <2>5, <2>3, <2>4, <2>8 DEF Session!Old
  <2>10. \A u \in Workers : s_request'[u].at # "idle" =>
            s_request'[u].token = s_session'.current \/ Session!Old(s_request[u].token)'
    <3>1. \A u \in Workers : Session!Old(s_request[u].token)' <=> Session!Old(s_request'[u].token)
      BY <1>q DEF Session!Old
    <3> QED BY <3>1, <2>6, <2>4
  <2>11. \A u \in Workers : Session!Bringing(u)' =>
          /\ s_request'[u].set = s_session'.current /\ s_cookie' # s_session'.current
          /\ \A w \in Workers : /\ s_request'[w].at # "idle" => s_request'[w].token # s_session'.current
                                /\ Session!Bringing(w)' => w = u
    BY <2>7, <2>3, <2>4
  <2> QED BY <2>9, <2>10, <2>11 DEF Session!InTouch
<1>2. ASSUME NEW t \in Workers, Session!Send(t) PROVE Session!InTouch'
  <2> DEFINE rec == [at |-> "sent", token |-> s_cookie, set |-> 0]
  <2>1. rec \in Record
    BY <1>0, <1>n
  <2>2. /\ UNCHANGED <<s_session, s_grace, s_state, s_cookie, s_loggedOut, s_lost, s_slow>>
        /\ s_request' = [s_request EXCEPT ![t] = rec]
        /\ s_cookie # 0 /\ s_request[t].at = "idle"
    BY <1>2 DEF Session!Send, Session!Clear
  <2>3. Session!InTouch
    BY <2>2, <1>1
  <2>4. /\ ~Session!Bringing(t) /\ ~(rec.at = "answered" /\ rec.set > 0)
        /\ rec.token = s_cookie
    BY <2>2 DEF Session!Bringing
  <2> HIDE DEF rec, Record
  <2> QED BY <1>q, <2>1, <2>2, <2>3, <2>4
\* The tab goes on with its token, or gets an answer without a new one.
<1>g. ASSUME NEW t \in Workers, NEW a \in {"found", "checked", "answered"}, NEW n \in {0, -1},
             s_request[t].at \in {"sent", "found", "checked"},
             UNCHANGED <<s_session, s_grace, s_state, s_cookie, s_loggedOut, s_lost>>, ~s_slow,
             \/ a # "answered" /\ s_request' = [s_request EXCEPT ![t].at = a]
             \/ s_request' = [s_request EXCEPT ![t].at = a, ![t].set = n]
      PROVE  Session!InTouch'
  <2>1. PICK rec \in Record : /\ s_request' = [s_request EXCEPT ![t] = rec]
                              /\ rec.token = s_request[t].token
                              /\ ~(rec.at = "answered" /\ rec.set > 0)
    <3>1. CASE a # "answered" /\ s_request' = [s_request EXCEPT ![t].at = a]
      <4>1. [s_request[t] EXCEPT !.at = a] \in Record
        BY <1>0
      <4>2. s_request' = [s_request EXCEPT ![t] = [s_request[t] EXCEPT !.at = a]]
        BY <3>1, <1>0
      <4>3. /\ [s_request[t] EXCEPT !.at = a].token = s_request[t].token
            /\ [s_request[t] EXCEPT !.at = a].at = a
        BY <1>0
      <4> QED BY <4>1, <4>2, <4>3, <3>1
    <3>2. CASE s_request' = [s_request EXCEPT ![t].at = a, ![t].set = n]
      <4> DEFINE r == [s_request[t] EXCEPT !.at = a, !.set = n]
      <4>1. r \in Record /\ r.token = s_request[t].token /\ r.set = n
        BY <1>0, <1>n
      <4>2. s_request' = [s_request EXCEPT ![t] = r]
        BY <3>2, <1>0
      <4>3. ~(r.set > 0)
        BY <4>1
      <4> QED BY <4>1, <4>2, <4>3
    <3> QED BY <3>1, <3>2, <1>g
  <2>2. Session!InTouch /\ ~Session!Bringing(t)
    BY <1>g, <1>1 DEF Session!Bringing
  <2> HIDE DEF Record
  <2> QED BY <1>q, <2>1, <2>2, <1>g
<1>3. ASSUME NEW t \in Workers, Session!FindByTokenHash(t) PROVE Session!InTouch'
  <2>1. /\ UNCHANGED <<s_grace, s_cookie, s_loggedOut, s_lost, s_slow>>
        /\ s_request[t].at = "sent"
    BY <1>3 DEF Session!FindByTokenHash
  <2>2. CASE Session!Verdict(s_request[t].token) = "reused"
    <3>1. Session!Replayed(s_request[t].token)
      BY <1>3, <2>2 DEF Session!FindByTokenHash
    <3>2. s_session'.status = "revoked"
      BY <3>1, <1>0 DEF Session!Replayed, Session!TypeOK
    <3> QED BY <3>2
  <2>3. CASE Session!Verdict(s_request[t].token) # "reused"
    <3>1. /\ UNCHANGED <<s_session, s_state>>
          /\ \/ s_request' = [s_request EXCEPT ![t].at = "found"]
             \/ s_request' = [s_request EXCEPT ![t].at = "answered", ![t].set = 0]
      BY <1>3, <2>3 DEF Session!FindByTokenHash, Session!Answered, Session!Clear
    <3> QED BY <3>1, <2>1, <1>g
  <2> QED BY <2>2, <2>3
<1>4. ASSUME NEW t \in Workers, Session!CheckUser(t) PROVE Session!InTouch'
  <2>1. /\ UNCHANGED <<s_grace, s_cookie, s_loggedOut, s_lost, s_slow>>
        /\ s_request[t].at = "found"
    BY <1>4 DEF Session!CheckUser
  <2>2. s_enabled
    BY <2>1, <1>0
  <2>3. UNCHANGED <<s_session, s_state>> /\ s_request' = [s_request EXCEPT ![t].at = "checked"]
    BY <1>4, <2>2 DEF Session!CheckUser
  <2> QED BY <2>3, <2>1, <1>g
<1>5. ASSUME NEW t \in Workers, Session!RefreshFails(t) PROVE Session!InTouch'
  <2>1. /\ UNCHANGED <<s_session, s_state, s_grace, s_cookie, s_loggedOut, s_lost, s_slow>>
        /\ s_request[t].at \in {"sent", "found", "checked"}
        /\ s_request' = [s_request EXCEPT ![t].at = "answered", ![t].set = 0]
    BY <1>5 DEF Session!RefreshFails, Session!Answered, Session!Clear
  <2> QED BY <2>1, <1>g
\* A tab that is done, and whose answer brought nothing.
<1>6. ASSUME NEW t \in Workers, Session!AnswerIsLost(t) PROVE Session!InTouch'
  <2>1. /\ UNCHANGED <<s_session, s_state, s_grace, s_cookie, s_loggedOut, s_slow>>
        /\ s_request' = [s_request EXCEPT ![t] = Session!Idle]
        /\ ~s_lost /\ ~(s_request[t].set > 0)
    BY <1>6 DEF Session!AnswerIsLost
  <2>2. Session!Idle \in Record /\ Session!Idle.at = "idle" /\ Session!InTouch /\ ~Session!Bringing(t)
    BY <2>1, <1>1, <1>n DEF Session!Idle, Session!Bringing
  <2> HIDE DEF Record
  <2> QED BY <1>q, <2>1, <2>2
<1>7. ASSUME NEW t \in Workers, Session!Receive(t) PROVE Session!InTouch'
  <2>0. /\ UNCHANGED <<s_session, s_state, s_grace, s_loggedOut, s_lost, s_slow>>
        /\ s_request' = [s_request EXCEPT ![t] = Session!Idle]
        /\ s_request[t].at = "answered"
        /\ s_cookie' = IF s_request[t].set = -1 THEN s_cookie ELSE s_request[t].set
    BY <1>7 DEF Session!Receive, Session!Keep
  <2>1. Session!InTouch
    BY <2>0, <1>1
  <2>i. Session!Idle \in Record /\ Session!Idle.at = "idle"
    BY <1>n DEF Session!Idle
  <2>n. s_request[t].set \in -1..MaxTokens /\ MaxTokens \in Nat
    BY <1>0, ServicesAssumption
  <2>2. CASE ~(s_request[t].set > 0)
    <3>1. s_request[t].set = -1 \/ s_request[t].set = 0
      BY <2>2, <2>n
    <3>2. s_cookie' \in {s_cookie, 0} /\ ~Session!Bringing(t)
      BY <3>1, <2>0 DEF Session!Bringing
    <3> HIDE DEF Record
    <3> QED BY <1>q, <2>0, <2>1, <2>i, <3>2
  <2>3. CASE s_request[t].set > 0
    <3>1. Session!Bringing(t) /\ s_request[t].set # -1
      BY <2>0, <2>3 DEF Session!Bringing
    <3>2. s_cookie' = s_session.current
      BY <3>1, <2>0, <2>1 DEF Session!InTouch
    <3>3. /\ s_request'[t].at = "idle"
          /\ \A u \in Workers \ {t} : s_request'[u] = s_request[u]
      BY <2>0, <2>i, <1>0
    <3>4. \A u \in Workers : ~Session!Bringing(u)'
      <4>1. \A u \in Workers : Session!Bringing(u) => u = t
        BY <3>1, <2>1 DEF Session!InTouch
      <4> QED BY <4>1, <3>3 DEF Session!Bringing
    <3>5. ASSUME NEW u \in Workers, s_request'[u].at # "idle"
          PROVE  s_request'[u].token = s_session'.current \/ Session!Old(s_request[u].token)'
      <4>1. u # t /\ s_request'[u] = s_request[u]
        BY <3>3, <3>5
      <4>2. s_request[u].token = s_session.current \/ Session!Old(s_request[u].token)
        BY <4>1, <3>5, <2>1 DEF Session!InTouch
      <4> QED BY <4>1, <4>2, <2>0 DEF Session!Old
    <3> QED BY <3>2, <3>4, <3>5, <2>0 DEF Session!InTouch
  <2> QED BY <2>2, <2>3
<1>8. ASSUME NEW t \in Workers, Session!Rotate(t) PROVE Session!InTouch'
  <2> DEFINE k == s_request[t].token
             v == Session!Verdict(k)
             c == s_session.current
  <2>0. /\ UNCHANGED <<s_cookie, s_loggedOut, s_lost>>
        /\ s_request[t].at = "checked"
        /\ s_grace' = (s_grace \/ v = "ok") /\ ~s_slow
    BY <1>8 DEF Session!Rotate
  <2>1. CASE v = "ok"
    <3>1. /\ s_session' = [s_session EXCEPT !.previous = k, !.current = @ + 1]
          /\ s_state' = [s_state EXCEPT ![k] = "used", ![c + 1] = "active"]
          /\ s_request' = [s_request EXCEPT ![t].at = "answered", ![t].set = c + 1]
          /\ ~ \E u \in Workers \ {t} : s_request[u].at # "idle" /\ s_request[u].token < k
          /\ s_session.status = "active" /\ c < MaxTokens
      BY <1>8, <2>1 DEF Session!Rotate, Session!Rotated, Session!Answered, Session!Verdict
    <3>2. Session!InTouch
      BY <3>1, <2>0, <1>1
    <3>3. k = c
      <4>1. k # c => v = "grace"
        BY SessionGood, <3>1, <2>0
      <4> QED BY <4>1, <2>1
    <3>4. c \in 1..MaxTokens /\ c \in Nat /\ c > 0 /\ c + 1 # c /\ MaxTokens \in Nat
      BY <1>0, ServicesAssumption
    <3>5. s_session'.current = c + 1 /\ s_session'.previous = c
      BY <3>1, <3>3, <1>0, <3>4 DEF Session!TypeOK
    <3>6. s_state'[c] = "used"
      BY <3>1, <3>3, <3>4, <1>s
    <3>7. s_grace' = TRUE
      BY <2>0, <2>1
    <3>8. Session!Old(s_session.previous)' /\ s_session'.previous = c
      BY <3>4, <3>5, <3>6, <3>7 DEF Session!Old
    <3>9. /\ s_request'[t].at = "answered" /\ s_request'[t].set = c + 1
          /\ s_request'[t].token = c
          /\ \A u \in Workers \ {t} : s_request'[u] = s_request[u]
      BY <3>1, <3>3, <1>0
    <3>10. ASSUME NEW u \in Workers \ {t}, s_request[u].at # "idle" PROVE s_request[u].token = c
      <4>1. s_request[u].token = c \/ Session!Old(s_request[u].token)
        BY <3>2, <3>10 DEF Session!InTouch
      <4>2. ~(s_request[u].token < c)
        BY <3>1, <3>3, <3>10
      <4> QED BY <4>1, <4>2, <1>0 DEF Session!Old
    <3>11. \A u \in Workers : ~Session!Bringing(u)
      <4>1. ASSUME NEW u \in Workers, Session!Bringing(u) PROVE FALSE
        BY <4>1, <3>2, <3>3, <2>0 DEF Session!InTouch
      <4> QED BY <4>1
    <3>12. s_cookie \in {0, c}
      BY <3>2, <3>11 DEF Session!InTouch
    <3>13. \A u \in Workers : Session!Bringing(u)' <=> u = t
      <4>1. Session!Bringing(t)'
        BY <3>9, <3>4 DEF Session!Bringing
      <4>2. \A u \in Workers \ {t} : ~Session!Bringing(u)'
        BY <3>9, <3>11 DEF Session!Bringing
      <4> QED BY <4>1, <4>2
    <3>14. \A u \in Workers : s_request'[u].at # "idle" => s_request'[u].token = c
      BY <3>9, <3>10
    <3>15. s_cookie' \in {0, c} /\ s_cookie' # c + 1
      BY <3>12, <3>4, <2>0
    <3>a. /\ s_cookie' \in {0, s_session'.current}
             \/ (Session!Old(s_cookie)' /\ \E u \in Workers : Session!Bringing(u)')
      BY <3>15, <3>13, <3>8 DEF Session!Old
    <3>b. \A u \in Workers : s_request'[u].at # "idle" =>
            s_request'[u].token = s_session'.current \/ Session!Old(s_request[u].token)'
      BY <3>14, <3>8 DEF Session!Old
    <3>c. \A u \in Workers : Session!Bringing(u)' =>
            /\ s_request'[u].set = s_session'.current /\ s_cookie' # s_session'.current
            /\ \A w \in Workers :
                  /\ s_request'[w].at # "idle" => s_request'[w].token # s_session'.current
                  /\ Session!Bringing(w)' => w = u
      BY <3>13, <3>9, <3>5, <3>15, <3>14, <3>4
    <3> QED BY <3>a, <3>b, <3>c DEF Session!InTouch
  <2>2. CASE v = "reused"
    <3>1. Session!Replayed(k)
      BY <1>8, <2>2 DEF Session!Rotate
    <3>2. s_session'.status = "revoked"
      BY <3>1, <1>0 DEF Session!Replayed, Session!TypeOK
    <3> QED BY <3>2
  <2>3. CASE v \notin {"ok", "reused"}
    <3>1. /\ UNCHANGED <<s_session, s_state>>
          /\ \/ s_request' = [s_request EXCEPT ![t].at = "answered", ![t].set = 0]
             \/ s_request' = [s_request EXCEPT ![t].at = "answered", ![t].set = -1]
      BY <1>8, <2>3 DEF Session!Rotate, Session!Answered, Session!Clear, Session!Keep
    <3>2. ~s_slow
      BY <2>0
    <3>3. s_grace' = s_grace
      BY <2>0, <2>3, <1>0 DEF Session!TypeOK
    <3> QED BY <3>1, <3>2, <3>3, <2>0, <1>g
  <2> QED BY <2>1, <2>2, <2>3
<1>9. ASSUME Session!GraceEnds PROVE Session!InTouch'
  <2>0. /\ UNCHANGED <<s_session, s_state, s_cookie, s_request, s_loggedOut, s_lost>> /\ ~s_slow
        /\ ~ \E t \in Workers : s_request[t].at # "idle" /\ s_request[t].token < s_session.current
    BY <1>9 DEF Session!GraceEnds
  <2>1. Session!InTouch
    BY <2>0, <1>1
  <2>2. \A t \in Workers : s_request[t].at # "idle" => s_request[t].token = s_session.current
    <3>1. ASSUME NEW t \in Workers, s_request[t].at # "idle", Session!Old(s_request[t].token) PROVE FALSE
      BY <3>1, <2>0, <1>0 DEF Session!Old
    <3> QED BY <3>1, <2>1 DEF Session!InTouch
  <2>3. \A t \in Workers : ~Session!Bringing(t)
    <3>1. ASSUME NEW t \in Workers, Session!Bringing(t) PROVE FALSE
      <4>1. s_request[t].at # "idle"
        BY <3>1 DEF Session!Bringing
      <4> QED BY <4>1, <3>1, <2>1, <2>2 DEF Session!InTouch
    <3> QED BY <3>1
  <2>4. \A t \in Workers : ~Session!Bringing(t)'
    BY <2>3, <2>0 DEF Session!Bringing
  <2>5. s_cookie' \in {0, s_session'.current}
    BY <2>0, <2>1, <2>3 DEF Session!InTouch
  <2> QED BY <2>0, <2>2, <2>4, <2>5 DEF Session!InTouch
<1>10. ~Session!Logout /\ ~Session!Disable
  BY DEF Session!Logout, Session!Disable
<1>11. ~Session!Expire
  <2>1. ASSUME Session!Expire PROVE s_session'.status = "expired"
    BY <2>1, <1>0 DEF Session!Expire, Session!TypeOK
  <2> QED BY <2>1
<1> QED
  BY <1>2, <1>3, <1>4, <1>5, <1>6, <1>7, <1>8, <1>9, <1>10, <1>11 DEF Session!Next

LEMMA SessionStep ==
    ASSUME Session!SessionInv, Session!Next PROVE Session!SessionInv'
<1>1. Session!TypeOK'
  BY SessionTypes DEF Session!SessionInv
<1> QED
  BY <1>1, SessionOneLive, SessionStays, SessionInTouch DEF Session!SessionInv

LEMMA SessionStart ==
    ASSUME Session!Init PROVE Session!SessionInv
<1> USE ServicesAssumption
<1>1. 1 \in 1..MaxTokens /\ 0 \in 0..MaxTokens /\ 1 \in 0..MaxTokens /\ 0 \in -1..MaxTokens
  OBVIOUS
<1>2. Session!TypeOK
  BY <1>1 DEF Session!Init, Session!TypeOK, Session!Tokens, Session!Idle
<1>3. Session!OneLiveToken
  BY <1>1 DEF Session!Init, Session!OneLiveToken, Session!Tokens
<1>4. Session!StaysLoggedIn /\ s_session.previous < s_session.current
  BY DEF Session!Init, Session!StaysLoggedIn
<1>5. /\ ~s_enabled => s_loggedOut
      /\ \A t \in Workers : s_request[t].at # "idle" => s_request[t].token # 0
  BY DEF Session!Init, Session!Idle
<1>6. Session!InTouch
  BY DEF Session!Init, Session!InTouch, Session!Idle, Session!Bringing
<1> QED BY <1>2, <1>3, <1>4, <1>5, <1>6 DEF Session!SessionInv

LEMMA SessionStill ==
    ASSUME Session!SessionInv, UNCHANGED sessionVars PROVE Session!SessionInv'
<1> USE DEF sessionVars
<1>1. Session!TypeOK' /\ Session!OneLiveToken' /\ Session!StaysLoggedIn'
  BY DEF Session!SessionInv, Session!TypeOK, Session!OneLiveToken, Session!StaysLoggedIn, Session!Tokens
<1>2. Session!InTouch => Session!InTouch'
  BY DEF Session!InTouch, Session!Old, Session!Bringing
<1> QED BY <1>1, <1>2 DEF Session!SessionInv

-----------------------------------------------------------------------------
(* Access requests. *)

LEMMA AccessTypes ==
    ASSUME Access!AccessInv, Access!Next PROVE Access!TypeOK'
<1> DEFINE Status == {"none", "pending", "approved", "rejected", "cancelled"}
           Syncs == {"not_started", "pending", "synced", "failed"}
           Request == [kind : Access!Kinds, late : BOOLEAN, status : Status, sync : Syncs]
           Review == [at : {"idle", "read", "approved", "written"}, row : 0..MaxRows]
           Sweep == [busy : BOOLEAN, deletes : SUBSET Access!Kinds]
<1>0. /\ a_row \in [1..MaxRows -> Request] /\ a_grants \subseteq Access!Kinds
      /\ a_deleted \in BOOLEAN /\ a_allowed \subseteq 1..MaxRows
      /\ a_review \in [Workers -> Review] /\ a_sweep \in Sweep
      /\ \A r \in Workers : a_review[r].at # "idle" => a_review[r].row \in 1..MaxRows
  BY DEF Access!AccessInv, Access!TypeOK, Access!Approves, Access!Rows
<1> SUFFICES /\ a_row' \in [1..MaxRows -> Request] /\ a_grants' \subseteq Access!Kinds
             /\ a_deleted' \in BOOLEAN /\ a_allowed' \subseteq 1..MaxRows
             /\ a_review' \in [Workers -> Review] /\ a_sweep' \in Sweep
  BY DEF Access!TypeOK, Access!Rows
<1>n. MaxRows \in Nat /\ 0 \in 0..MaxRows /\ 1..MaxRows \subseteq 0..MaxRows
  BY ServicesAssumption
<1>m. ASSUME NEW i \in 1..MaxRows, NEW s \in Status, NEW y \in Syncs, Access!Mark(i, s, y)
      PROVE  a_row' \in [1..MaxRows -> Request]
  <2> DEFINE q == [a_row[i] EXCEPT !.status = s, !.sync = y]
  <2>1. q \in Request
    <3> HIDE DEF Status, Syncs
    <3>1. a_row[i] \in Request
      BY <1>0
    <3> QED BY <3>1
  <2>2. a_row' = [a_row EXCEPT ![i] = q]
    BY <1>m, <1>0 DEF Access!Mark
  <2> HIDE DEF q, Request
  <2> QED BY <2>1, <2>2, <1>0
<1>d. ASSUME NEW r \in Workers, Access!Done(r) PROVE a_review' \in [Workers -> Review]
  <2>1. Access!Idle \in Review
    BY <1>n DEF Access!Idle
  <2> HIDE DEF Review
  <2> QED BY <1>d, <1>0, <2>1 DEF Access!Done
<1>a. ASSUME NEW r \in Workers, NEW a \in {"approved", "written"},
             a_review' = [a_review EXCEPT ![r].at = a]
      PROVE  a_review' \in [Workers -> Review]
  BY <1>a, <1>0
<1>1. ASSUME NEW k \in Access!Kinds, Access!CreateAccessRequest(k)
      PROVE  /\ a_row' \in [1..MaxRows -> Request]
             /\ UNCHANGED <<a_grants, a_allowed, a_review, a_sweep, a_deleted>>
  <2>1. PICK i \in 1..MaxRows : a_row' = [a_row EXCEPT ![i].kind = k, ![i].status = "pending"]
    BY <1>1 DEF Access!CreateAccessRequest, Access!Rows
  <2>2. a_row' \in [1..MaxRows -> Request]
    <3> DEFINE q == [a_row[i] EXCEPT !.kind = k, !.status = "pending"]
    <3>1. q \in Request
      <4>1. "pending" \in Status /\ a_row[i] \in Request
        BY <1>0
      <4> HIDE DEF Status, Syncs
      <4> QED BY <4>1
    <3>2. a_row' = [a_row EXCEPT ![i] = q]
      BY <2>1, <1>0
    <3> HIDE DEF q, Request
    <3> QED BY <3>1, <3>2, <1>0
  <2> QED BY <2>2, <1>1 DEF Access!CreateAccessRequest
<1>2. ASSUME NEW i \in 1..MaxRows,
             Access!Late(i) \/ Access!Check(i) \/ Access!MarkAccessRequestCancelled(i)
      PROVE  /\ a_row' \in [1..MaxRows -> Request] /\ a_allowed' \subseteq 1..MaxRows
             /\ UNCHANGED <<a_grants, a_review, a_sweep, a_deleted>>
  <2>1. CASE Access!Late(i)
    BY ZenonT(40), <2>1, <1>0 DEF Access!Late
  <2>2. CASE Access!Check(i)
    BY <2>2, <1>0 DEF Access!Check
  <2>3. CASE Access!MarkAccessRequestCancelled(i)
    <3>1. Access!Mark(i, "cancelled", "not_started") \/ UNCHANGED a_row
      BY <2>3 DEF Access!MarkAccessRequestCancelled
    <3>2. a_row' \in [1..MaxRows -> Request]
      BY <3>1, <1>m, <1>0
    <3> QED BY <3>2, <2>3, <1>0 DEF Access!MarkAccessRequestCancelled
  <2> QED BY <1>2, <2>1, <2>2, <2>3
<1>3. ASSUME NEW r \in Workers, NEW i \in 1..MaxRows, Access!GetAccessRequest(r, i)
      PROVE  /\ a_review' \in [Workers -> Review]
             /\ UNCHANGED <<a_row, a_grants, a_allowed, a_sweep, a_deleted>>
  <2>1. [at |-> "read", row |-> i] \in Review
    BY <1>n
  <2> HIDE DEF Review
  <2> QED BY <1>3, <1>0, <2>1 DEF Access!GetAccessRequest
<1>4. ASSUME NEW r \in Workers,
             Access!MarkAccessRequestRejected(r) \/ Access!MarkAccessRequestApproved(r)
      PROVE  /\ a_row' \in [1..MaxRows -> Request] /\ a_review' \in [Workers -> Review]
             /\ UNCHANGED <<a_grants, a_allowed, a_sweep, a_deleted>>
  <2>1. a_review[r].row \in 1..MaxRows
    BY <1>4, <1>0 DEF Access!MarkAccessRequestRejected, Access!MarkAccessRequestApproved
  <2>2. \/ Access!Mark(a_review[r].row, "rejected", "not_started")
        \/ Access!Mark(a_review[r].row, "approved", "pending") \/ UNCHANGED a_row
    BY <1>4 DEF Access!MarkAccessRequestRejected, Access!MarkAccessRequestApproved
  <2>3. Access!Done(r) \/ a_review' = [a_review EXCEPT ![r].at = "approved"]
    BY <1>4 DEF Access!MarkAccessRequestRejected, Access!MarkAccessRequestApproved
  <2>4. a_row' \in [1..MaxRows -> Request]
    BY <2>1, <2>2, <1>m, <1>0
  <2>5. a_review' \in [Workers -> Review]
    BY <2>3, <1>d, <1>a
  <2> QED
    BY <2>4, <2>5, <1>4 DEF Access!MarkAccessRequestRejected, Access!MarkAccessRequestApproved
<1>5. ASSUME NEW r \in Workers, Access!WriteRelations(r)
      PROVE  /\ a_review' \in [Workers -> Review] /\ a_grants' \subseteq Access!Kinds
             /\ UNCHANGED <<a_row, a_allowed, a_sweep, a_deleted>>
  <2>1. a_row[a_review[r].row].kind \in Access!Kinds
    BY <1>5, <1>0 DEF Access!WriteRelations
  <2>2. a_review' \in [Workers -> Review]
    BY <1>5, <1>a DEF Access!WriteRelations
  <2> QED BY <2>1, <2>2, <1>5, <1>0 DEF Access!WriteRelations
<1>6. ASSUME NEW r \in Workers,
             Access!MarkAccessRequestFGAFailed(r) \/ Access!MarkAccessRequestFGASynced(r)
      PROVE  /\ a_row' \in [1..MaxRows -> Request] /\ a_review' \in [Workers -> Review]
             /\ UNCHANGED <<a_grants, a_allowed, a_sweep, a_deleted>>
  <2> DEFINE i == a_review[r].row
  <2>1. i \in 1..MaxRows /\ Access!Done(r)
    BY <1>6, <1>0 DEF Access!MarkAccessRequestFGAFailed, Access!MarkAccessRequestFGASynced
  <2>2. PICK y \in Syncs : Access!Mark(i, a_row[i].status, y)
    <3>1. a_row[i].sync \in Syncs
      BY <2>1, <1>0
    <3> QED
      BY <1>6, <3>1 DEF Access!MarkAccessRequestFGAFailed, Access!MarkAccessRequestFGASynced
  <2>3. a_row[i].status \in Status
    BY <2>1, <1>0
  <2>4. a_row' \in [1..MaxRows -> Request]
    BY <2>1, <2>2, <2>3, <1>m
  <2>5. a_review' \in [Workers -> Review]
    BY <2>1, <1>d
  <2> QED
    BY <2>4, <2>5, <1>6 DEF Access!MarkAccessRequestFGAFailed, Access!MarkAccessRequestFGASynced
<1>s. [busy |-> FALSE, deletes |-> {}] \in Sweep
  OBVIOUS
<1>7. ASSUME Access!Crash
      PROVE  /\ a_review' \in [Workers -> Review] /\ a_allowed' \subseteq 1..MaxRows
             /\ a_sweep' \in Sweep /\ UNCHANGED <<a_row, a_grants, a_deleted>>
  <2>1. Access!Idle \in Review
    BY <1>n DEF Access!Idle
  <2> HIDE DEF Review, Sweep
  <2> QED BY <1>7, <1>s, <2>1 DEF Access!Crash
<1>8. ASSUME Access!WriteChanges
      PROVE  /\ a_grants' \subseteq Access!Kinds /\ a_sweep' \in Sweep
             /\ UNCHANGED <<a_row, a_allowed, a_review, a_deleted>>
  <2> HIDE DEF Sweep
  <2> QED BY <1>8, <1>s, <1>0 DEF Access!WriteChanges
<1>9. ASSUME NEW revoke \in BOOLEAN, Access!ReadRelations(revoke)
      PROVE  /\ a_sweep' \in Sweep /\ a_deleted' \in BOOLEAN
             /\ UNCHANGED <<a_row, a_grants, a_allowed, a_review>>
  <2>1. ASSUME NEW D \in SUBSET Access!Kinds PROVE [busy |-> TRUE, deletes |-> D] \in Sweep
    OBVIOUS
  <2>2. PICK D \in SUBSET Access!Kinds : a_sweep' = [busy |-> TRUE, deletes |-> D]
    BY <1>9, <1>0 DEF Access!ReadRelations
  <2>3. a_sweep' \in Sweep
    BY <2>1, <2>2
  <2> HIDE DEF Sweep
  <2> QED BY <2>3, <1>9, <1>0 DEF Access!ReadRelations
<1> HIDE DEF Request, Review, Sweep, Status, Syncs
<1> QED
  BY <1>0, <1>1, <1>2, <1>3, <1>4, <1>5, <1>6, <1>7, <1>8, <1>9 DEF Access!Next, Access!Rows

\* A row that is approved stays approved, and one is marked synced by whoever wrote for it.
LEMMA AccessRows ==
    ASSUME Access!AccessInv, Access!Next, NEW i \in 1..MaxRows
    PROVE  /\ a_row[i].status = "approved" =>
                a_row'[i].status = "approved" /\ a_row'[i].kind = a_row[i].kind
           /\ a_row'[i].sync = "synced" =>
                /\ a_row'[i].kind = a_row[i].kind
                /\ \/ a_row[i].sync = "synced"
                   \/ \E r \in Workers : a_review[r].at = "written" /\ a_review[r].row = i
<1> DEFINE Status == {"none", "pending", "approved", "rejected", "cancelled"}
           Syncs == {"not_started", "pending", "synced", "failed"}
           Request == [kind : Access!Kinds, late : BOOLEAN, status : Status, sync : Syncs]
           Goal == /\ a_row[i].status = "approved" =>
                        a_row'[i].status = "approved" /\ a_row'[i].kind = a_row[i].kind
                   /\ a_row'[i].sync = "synced" =>
                        /\ a_row'[i].kind = a_row[i].kind
                        /\ \/ a_row[i].sync = "synced"
                           \/ \E r \in Workers : a_review[r].at = "written" /\ a_review[r].row = i
<1>0. /\ a_row \in [1..MaxRows -> Request]
      /\ \A r \in Workers : a_review[r].at # "idle" => a_review[r].row \in 1..MaxRows
      /\ \A r \in Workers : a_review[r].at \in {"approved", "written"} =>
            a_row[a_review[r].row].status = "approved"
  BY DEF Access!AccessInv, Access!TypeOK, Access!Approves, Access!Rows
<1> HIDE DEF Status, Syncs
<1>u. ASSUME a_row'[i] = a_row[i] PROVE Goal
  BY <1>u
<1>m. ASSUME NEW j \in 1..MaxRows, NEW s, NEW y, Access!Mark(j, s, y)
      PROVE  /\ j # i => a_row'[i] = a_row[i]
             /\ j = i => a_row'[i].kind = a_row[i].kind /\ a_row'[i].status = s /\ a_row'[i].sync = y
  BY <1>m, <1>0 DEF Access!Mark
<1>1. ASSUME NEW k \in Access!Kinds, Access!CreateAccessRequest(k) PROVE Goal
  <2>1. PICK j \in 1..MaxRows : /\ a_row[j] = Access!None
                                /\ a_row' = [a_row EXCEPT ![j].kind = k, ![j].status = "pending"]
    BY <1>1 DEF Access!CreateAccessRequest, Access!Rows
  <2>2. CASE j = i
    <3>1. a_row'[i].sync = a_row[i].sync
      BY <2>1, <2>2, <1>0
    <3>2. a_row[i].status = "none" /\ a_row[i].sync = "not_started"
      BY <2>1, <2>2 DEF Access!None
    <3> QED BY <3>1, <3>2
  <2>3. CASE j # i
    BY <2>1, <2>3, <1>0, <1>u
  <2> QED BY <2>2, <2>3
<1>2. ASSUME NEW j \in 1..MaxRows, Access!Late(j) PROVE Goal
  <2>1. a_row' = [a_row EXCEPT ![j].late = TRUE]
    BY <1>2 DEF Access!Late
  <2>2. /\ a_row'[i].status = a_row[i].status /\ a_row'[i].kind = a_row[i].kind
        /\ a_row'[i].sync = a_row[i].sync
    BY <2>1, <1>0
  <2> QED BY <2>2
<1>3. ASSUME NEW j \in 1..MaxRows, Access!MarkAccessRequestCancelled(j) PROVE Goal
  <2>1. CASE a_row[j].status = "pending"
    BY <2>1, <1>3, <1>m, <1>u DEF Access!MarkAccessRequestCancelled
  <2>2. CASE a_row[j].status # "pending"
    BY <2>2, <1>3, <1>u DEF Access!MarkAccessRequestCancelled
  <2> QED BY <2>1, <2>2
<1>4. ASSUME NEW r \in Workers,
             Access!MarkAccessRequestRejected(r) \/ Access!MarkAccessRequestApproved(r)
      PROVE  Goal
  <2> DEFINE j == a_review[r].row
  <2>0. j \in 1..MaxRows
    BY <1>4, <1>0 DEF Access!MarkAccessRequestRejected, Access!MarkAccessRequestApproved
  <2>1. CASE a_row[j].status = "pending"
    <3>1. Access!Mark(j, "rejected", "not_started") \/ Access!Mark(j, "approved", "pending")
      BY <2>1, <1>4 DEF Access!MarkAccessRequestRejected, Access!MarkAccessRequestApproved,
         Access!StillPending
    <3>2. \/ j # i /\ a_row'[i] = a_row[i]
          \/ /\ j = i /\ a_row'[i].kind = a_row[i].kind /\ a_row'[i].sync # "synced"
      BY <3>1, <2>0, <1>m
    <3> QED BY <3>2, <2>1, <1>u
  <2>2. CASE a_row[j].status # "pending"
    <3>1. UNCHANGED a_row
      BY <2>2, <1>4 DEF Access!MarkAccessRequestRejected, Access!MarkAccessRequestApproved,
         Access!StillPending
    <3> QED BY <3>1, <1>u
  <2> QED BY <2>1, <2>2
<1>5. ASSUME NEW r \in Workers,
             Access!MarkAccessRequestFGAFailed(r) \/ Access!MarkAccessRequestFGASynced(r)
      PROVE  Goal
  <2> DEFINE j == a_review[r].row
  <2>0. /\ j \in 1..MaxRows /\ a_review[r].at \in {"approved", "written"}
        /\ a_row[j].status = "approved"
    BY <1>5, <1>0 DEF Access!MarkAccessRequestFGAFailed, Access!MarkAccessRequestFGASynced
  <2>1. \/ Access!Mark(j, a_row[j].status, "failed")
        \/ Access!Mark(j, a_row[j].status, "synced") /\ a_review[r].at = "written"
    BY <1>5, <2>0 DEF Access!MarkAccessRequestFGAFailed, Access!MarkAccessRequestFGASynced
  <2>2. CASE j # i
    BY <2>2, <2>0, <2>1, <1>m, <1>u
  <2>3. CASE j = i
    <3>1. /\ a_row'[i].kind = a_row[i].kind /\ a_row'[i].status = "approved"
          /\ a_row'[i].sync = "synced" => a_review[r].at = "written" /\ a_review[r].row = i
      BY <2>3, <2>0, <2>1, <1>m
    <3> QED BY <3>1
  <2> QED BY <2>2, <2>3
<1>6. ASSUME UNCHANGED a_row PROVE Goal
  BY <1>6, <1>u
<1>7. \/ UNCHANGED a_row
      \/ \E k \in Access!Kinds : Access!CreateAccessRequest(k)
      \/ \E j \in 1..MaxRows : Access!Late(j) \/ Access!MarkAccessRequestCancelled(j)
      \/ \E r \in Workers : \/ Access!MarkAccessRequestRejected(r) \/ Access!MarkAccessRequestApproved(r)
                            \/ Access!MarkAccessRequestFGAFailed(r) \/ Access!MarkAccessRequestFGASynced(r)
  BY DEF Access!Next, Access!Rows, Access!Check, Access!GetAccessRequest, Access!WriteRelations,
     Access!Crash, Access!WriteChanges, Access!ReadRelations
<1> HIDE DEF Goal
<1>8. Goal
  BY <1>1, <1>2, <1>3, <1>4, <1>5, <1>6, <1>7
<1> QED BY <1>8 DEF Goal

\* What a step does to the tuples: one is written for an approved row, and an original
\* is deleted with its item.
LEMMA AccessGrants ==
    ASSUME Access!AccessInv, Access!Next
    PROVE  /\ \A k \in a_grants' \ a_grants : \E r \in Workers :
                 a_review[r].at = "approved" /\ a_row[a_review[r].row].kind = k
           /\ "original" \in a_grants => a_deleted' \/ "original" \in a_grants'
           /\ a_deleted => a_deleted'
           /\ "original" \in a_sweep'.deletes => a_deleted'
<1>0. /\ "original" \in a_sweep.deletes => a_deleted
      /\ a_deleted \in BOOLEAN /\ a_grants \subseteq Access!Kinds
  BY DEF Access!AccessInv, Access!TypeOK
<1>1. ASSUME NEW r \in Workers, Access!WriteRelations(r)
      PROVE  /\ a_grants' = a_grants \cup {a_row[a_review[r].row].kind}
             /\ a_review[r].at = "approved" /\ UNCHANGED <<a_sweep, a_deleted>>
  BY <1>1 DEF Access!WriteRelations
<1>2. ASSUME Access!WriteChanges
      PROVE  /\ a_grants' = a_grants \ a_sweep.deletes /\ a_deleted' = a_deleted
             /\ a_sweep'.deletes = {}
  BY <1>2 DEF Access!WriteChanges
<1>3. ASSUME NEW revoke \in BOOLEAN, Access!ReadRelations(revoke)
      PROVE  /\ a_grants' = a_grants /\ (a_deleted => a_deleted')
             /\ "original" \in a_sweep'.deletes => a_deleted'
  <2>1. CASE revoke
    BY <2>1, <1>3 DEF Access!ReadRelations
  <2>2. CASE ~revoke
    BY <2>2, <1>3 DEF Access!ReadRelations, Access!Preserved
  <2> QED BY <2>1, <2>2
<1>4. ASSUME Access!Crash PROVE UNCHANGED <<a_grants, a_deleted>> /\ a_sweep'.deletes = {}
  BY <1>4 DEF Access!Crash
<1>5. \/ UNCHANGED <<a_grants, a_deleted, a_sweep>> \/ Access!Crash \/ Access!WriteChanges
      \/ \E r \in Workers : Access!WriteRelations(r)
      \/ \E revoke \in BOOLEAN : Access!ReadRelations(revoke)
  BY DEF Access!Next, Access!CreateAccessRequest, Access!Late, Access!Check,
     Access!MarkAccessRequestCancelled, Access!GetAccessRequest, Access!MarkAccessRequestRejected,
     Access!MarkAccessRequestApproved, Access!MarkAccessRequestFGAFailed,
     Access!MarkAccessRequestFGASynced
<1>6. CASE UNCHANGED <<a_grants, a_deleted, a_sweep>>
  BY <1>6, <1>0
<1>7. CASE Access!Crash
  BY <1>7, <1>4, <1>0
<1>8. CASE Access!WriteChanges
  BY <1>8, <1>2, <1>0
<1>9. CASE \E r \in Workers : Access!WriteRelations(r)
  BY <1>9, <1>1, <1>0
<1>10. CASE \E revoke \in BOOLEAN : Access!ReadRelations(revoke)
  BY <1>10, <1>3, <1>0
<1> QED BY <1>5, <1>6, <1>7, <1>8, <1>9, <1>10

LEMMA AccessStep ==
    ASSUME Access!AccessInv, Access!Next PROVE Access!AccessInv'
<1> DEFINE Review == [at : {"idle", "read", "approved", "written"}, row : 0..MaxRows]
<1>0. /\ Access!TypeOK /\ Access!GrantIsApproved /\ Access!GrantStays
      /\ \A r \in Workers : Access!Approves(r)
      /\ a_review \in [Workers -> Review]
  BY DEF Access!AccessInv, Access!TypeOK
<1>1. Access!TypeOK'
  BY AccessTypes
<1>2. Access!GrantIsApproved'
  <2>1. SUFFICES ASSUME NEW k \in a_grants'
                 PROVE  \E i \in 1..MaxRows : a_row'[i].kind = k /\ a_row'[i].status = "approved"
    BY DEF Access!GrantIsApproved, Access!Rows
  <2>2. PICK i \in 1..MaxRows : a_row[i].kind = k /\ a_row[i].status = "approved"
    <3>1. CASE k \in a_grants
      BY <3>1, <1>0 DEF Access!GrantIsApproved, Access!Rows
    <3>2. CASE k \notin a_grants
      <4>1. PICK r \in Workers : a_review[r].at = "approved" /\ a_row[a_review[r].row].kind = k
        BY <3>2, <2>1, AccessGrants
      <4> QED BY <4>1, <1>0 DEF Access!Approves, Access!Rows
    <3> QED BY <3>1, <3>2
  <2> QED BY <2>2, AccessRows
<1>3. Access!GrantStays'
  <2>1. SUFFICES ASSUME NEW i \in 1..MaxRows, a_row'[i].kind = "original", a_row'[i].sync = "synced"
                 PROVE  a_deleted' \/ "original" \in a_grants'
    BY DEF Access!GrantStays, Access!Rows
  <2>2. a_deleted \/ "original" \in a_grants
    <3>1. /\ a_row[i].kind = "original"
          /\ \/ a_row[i].sync = "synced"
             \/ \E r \in Workers : a_review[r].at = "written" /\ a_review[r].row = i
      BY <2>1, AccessRows
    <3> QED BY <3>1, <1>0 DEF Access!GrantStays, Access!Approves, Access!Rows
  <2> QED BY <2>2, AccessGrants
<1>4. "original" \in a_sweep'.deletes => a_deleted'
  BY AccessGrants
<1>5. ASSUME NEW r \in Workers PROVE Access!Approves(r)'
  <2>1. ASSUME a_review'[r] = a_review[r] PROVE Access!Approves(r)'
    <3>1. CASE a_review[r].at = "idle"
      BY <3>1, <2>1 DEF Access!Approves
    <3>2. CASE a_review[r].at # "idle"
      <4>1. a_review[r].row \in 1..MaxRows
        BY <3>2, <1>0 DEF Access!Approves, Access!Rows
      <4>2. a_review[r].at \in {"approved", "written"} =>
               /\ a_row'[a_review[r].row].status = "approved"
               /\ a_row'[a_review[r].row].kind = a_row[a_review[r].row].kind
        BY <4>1, <1>0, AccessRows DEF Access!Approves
      <4>3. a_review[r].at = "written" /\ a_row[a_review[r].row].kind = "original" =>
               a_deleted' \/ "original" \in a_grants'
        BY <1>0, AccessGrants DEF Access!Approves
      <4> QED BY <2>1, <4>1, <4>2, <4>3 DEF Access!Approves, Access!Rows
    <3> QED BY <3>1, <3>2
  <2>2. ASSUME a_review'[r].at = "idle" PROVE Access!Approves(r)'
    BY <2>2 DEF Access!Approves
  <2>3. ASSUME NEW s \in Workers, NEW i \in 1..MaxRows, Access!GetAccessRequest(s, i)
        PROVE  Access!Approves(r)'
    <3>1. CASE s = r
      <4>1. a_review'[r] = [at |-> "read", row |-> i]
        BY <2>3, <3>1, <1>0 DEF Access!GetAccessRequest
      <4> QED BY <4>1 DEF Access!Approves, Access!Rows
    <3>2. CASE s # r
      BY <3>2, <2>1, <2>3, <1>0 DEF Access!GetAccessRequest
    <3> QED BY <3>1, <3>2
  <2>4. ASSUME NEW s \in Workers, Access!Done(s) PROVE Access!Approves(r)'
    <3>1. CASE s = r
      <4>1. a_review'[r] = Access!Idle
        BY <2>4, <3>1, <1>0 DEF Access!Done
      <4> QED BY <4>1, <2>2 DEF Access!Idle
    <3>2. CASE s # r
      BY <3>2, <2>1, <2>4, <1>0 DEF Access!Done
    <3> QED BY <3>1, <3>2
  <2>5. ASSUME NEW s \in Workers, Access!MarkAccessRequestApproved(s) PROVE Access!Approves(r)'
    <3> DEFINE i == a_review[s].row
    <3>0. i \in 1..MaxRows
      BY <2>5, <1>0 DEF Access!MarkAccessRequestApproved, Access!Approves, Access!Rows
    <3>1. CASE a_row[i].status = "pending"
      <4>1. Access!Mark(i, "approved", "pending") /\ a_review' = [a_review EXCEPT ![s].at = "approved"]
        BY <2>5, <3>1 DEF Access!MarkAccessRequestApproved, Access!StillPending
      <4>2. CASE s = r
        <5>1. a_review'[r].at = "approved" /\ a_review'[r].row = i
          BY <4>1, <4>2, <1>0
        <5>2. a_row'[i].status = "approved"
          BY <4>1, <3>0, <1>0 DEF Access!Mark, Access!TypeOK, Access!Rows
        <5> QED BY <5>1, <5>2, <3>0 DEF Access!Approves, Access!Rows
      <4>3. CASE s # r
        BY <4>3, <4>1, <2>1, <1>0
      <4> QED BY <4>2, <4>3
    <3>2. CASE a_row[i].status # "pending"
      BY <3>2, <2>5, <2>4 DEF Access!MarkAccessRequestApproved, Access!StillPending
    <3> QED BY <3>1, <3>2
  <2>6. ASSUME NEW s \in Workers, Access!WriteRelations(s) PROVE Access!Approves(r)'
    <3> DEFINE i == a_review[s].row
    <3>1. /\ a_review[s].at = "approved" /\ a_grants' = a_grants \cup {a_row[i].kind}
          /\ a_row' = a_row /\ a_review' = [a_review EXCEPT ![s].at = "written"]
      BY <2>6 DEF Access!WriteRelations
    <3>2. i \in 1..MaxRows /\ a_row[i].status = "approved"
      BY <3>1, <1>0 DEF Access!Approves, Access!Rows
    <3>3. CASE s = r
      <4>1. a_review'[r].at = "written" /\ a_review'[r].row = i
        BY <3>1, <3>3, <1>0
      <4> QED BY <4>1, <3>1, <3>2 DEF Access!Approves, Access!Rows
    <3>4. CASE s # r
      BY <3>4, <3>1, <2>1, <1>0
    <3> QED BY <3>3, <3>4
  <2>7. ASSUME Access!Crash PROVE Access!Approves(r)'
    BY <2>7, <2>2 DEF Access!Crash, Access!Idle
  <2>8. CASE UNCHANGED a_review
    BY <2>8, <2>1
  <2>9. \/ UNCHANGED a_review \/ Access!Crash
        \/ \E s \in Workers : \/ \E i \in 1..MaxRows : Access!GetAccessRequest(s, i)
                              \/ Access!Done(s) \/ Access!MarkAccessRequestApproved(s)
                              \/ Access!WriteRelations(s)
    BY DEF Access!Next, Access!Rows, Access!CreateAccessRequest, Access!Late, Access!Check,
       Access!MarkAccessRequestCancelled, Access!MarkAccessRequestRejected,
       Access!MarkAccessRequestFGAFailed, Access!MarkAccessRequestFGASynced,
       Access!WriteChanges, Access!ReadRelations
  <2> QED BY <2>3, <2>4, <2>5, <2>6, <2>7, <2>8, <2>9
<1> QED BY <1>1, <1>2, <1>3, <1>4, <1>5 DEF Access!AccessInv

LEMMA AccessStart ==
    ASSUME Access!Init PROVE Access!AccessInv
<1> USE ServicesAssumption
<1>1. Access!TypeOK
  <2>1. 0 \in 0..MaxRows
    OBVIOUS
  <2> QED
    BY <2>1 DEF Access!Init, Access!TypeOK, Access!Rows, Access!None, Access!Idle, Access!Kinds
<1>2. Access!GrantIsApproved
  BY DEF Access!Init, Access!GrantIsApproved
<1>3. Access!GrantStays
  BY DEF Access!Init, Access!GrantStays, Access!None
<1>4. "original" \in a_sweep.deletes => a_deleted
  BY DEF Access!Init
<1>5. \A r \in Workers : Access!Approves(r)
  BY DEF Access!Init, Access!Approves, Access!Idle
<1> QED BY <1>1, <1>2, <1>3, <1>4, <1>5 DEF Access!AccessInv

LEMMA AccessStill ==
    ASSUME Access!AccessInv, UNCHANGED accessVars PROVE Access!AccessInv'
BY DEF Access!AccessInv, accessVars, Access!TypeOK, Access!GrantIsApproved, Access!GrantStays,
   Access!Approves, Access!Rows, Access!Kinds

-----------------------------------------------------------------------------
(* Organizations. *)

\* Who holds the tuple's request is a user, and a free slot is nobody's.
LEMMA OrgOps ==
    ASSUME Org!TypeOK, NEW s \in Workers
    PROVE  /\ \/ g_op[s] = Org!Free
              \/ /\ g_op[s].user \in Users /\ g_op[s].at \in {"committed", "read"}
                 /\ g_op[s].granted \in BOOLEAN
           /\ g_op[s].user \in Users => g_op[s] # Org!Free
<1>1. g_op[s] \in [at : {"committed", "read"}, user : Users, granted : BOOLEAN] \cup {Org!Free}
  BY DEF Org!TypeOK
<1>2. CASE g_op[s] \in [at : {"committed", "read"}, user : Users, granted : BOOLEAN]
  <2>1. g_op[s].at \in {"committed", "read"} /\ g_op[s].user \in Users
    BY <1>2
  <2>2. g_op[s].granted \in BOOLEAN
    BY <1>2
  <2>3. g_op[s] # Org!Free
    BY <2>1 DEF Org!Free
  <2> QED BY <2>1, <2>2, <2>3
<1>3. CASE g_op[s] = Org!Free
  <2>1. g_op[s].user = "none"
    BY <1>3 DEF Org!Free
  <2> QED BY <2>1, <1>3, ServicesAssumption
<1> QED BY <1>1, <1>2, <1>3

LEMMA OrgCardinality == ASSUME NEW S PROVE Org!Cardinality(S) = Cardinality(S)
BY DEF Org!Cardinality, Cardinality

\* An owner who goes is not the last active one.
LEMMA OrgSpares ==
    ASSUME Org!TypeOK, NEW u \in Users, Org!SparesOwner(u), Org!HasOwner
    PROVE  Org!Owners \ {u} # {}
<1>1. Org!Owners \subseteq g_owner /\ Org!Owners # {}
  BY DEF Org!Owners, Org!HasOwner
<1>2. CASE u \notin g_owner
  BY <1>1, <1>2
<1>3. CASE u \in g_owner
  <2>1. Cardinality(Org!Owners) > 1
    BY <1>3, OrgCardinality DEF Org!SparesOwner
  <2>2. ASSUME Org!Owners \subseteq {u} PROVE FALSE
    <3>1. Org!Owners = {u}
      BY <2>2, <1>1
    <3>2. Cardinality({u}) = 1
      BY FS_Singleton
    <3> QED BY <3>1, <3>2, <2>1
  <2> QED BY <2>2
<1> QED BY <1>2, <1>3

\* What a change does to the members: someone active stays an owner, and only the roles
\* and the status of its target change.
LEMMA OrgChange ==
    ASSUME Org!TypeOK, Org!HasOwner, NEW kind, NEW u \in Users, Org!Change(kind, u)
    PROVE  /\ g_member' \in [Users -> {"none", "active", "suspended", "left"}]
           /\ g_owner' \subseteq Users /\ g_admin' \subseteq Users
           /\ \A v \in Users \ {u} :
                 /\ g_member'[v] = g_member[v]
                 /\ v \in g_owner' <=> v \in g_owner
                 /\ v \in g_admin' <=> v \in g_admin
           /\ Org!HasOwner'
           /\ kind \in {"grant_owner", "grant_admin"} => Org!Privileged(u)'
           /\ \/ UNCHANGED <<g_outbox>> /\ (g_member'[u] = g_member[u] \/ g_member'[u] = "active")
              \/ Org!Enqueue(u)
<1> DEFINE Goal == /\ g_member' \in [Users -> {"none", "active", "suspended", "left"}]
                   /\ g_owner' \subseteq Users /\ g_admin' \subseteq Users
                   /\ \A v \in Users \ {u} :
                         /\ g_member'[v] = g_member[v]
                         /\ v \in g_owner' <=> v \in g_owner
                         /\ v \in g_admin' <=> v \in g_admin
                   /\ Org!HasOwner'
                   /\ kind \in {"grant_owner", "grant_admin"} => Org!Privileged(u)'
                   /\ \/ UNCHANGED <<g_outbox>> /\ (g_member'[u] = g_member[u] \/ g_member'[u] = "active")
                      \/ Org!Enqueue(u)
<1>0. /\ g_member \in [Users -> {"none", "active", "suspended", "left"}]
      /\ g_owner \subseteq Users /\ g_admin \subseteq Users
      /\ \E v \in g_owner : g_member[v] = "active"
  BY DEF Org!TypeOK, Org!HasOwner, Org!Owners, Org!Active
<1>1. CASE kind = "grant_owner" /\ Org!GrantRole(u, "owner")
  BY <1>1, <1>0 DEF Org!GrantRole, Org!HasOwner, Org!Owners, Org!Active, Org!Privileged
<1>2. CASE kind = "grant_admin" /\ Org!GrantRole(u, "admin")
  BY <1>2, <1>0 DEF Org!GrantRole, Org!HasOwner, Org!Owners, Org!Active, Org!Privileged
<1>3. CASE kind = "revoke_owner" /\ Org!RevokeRole(u, "owner")
  <2>1. /\ Org!SparesOwner(u) /\ g_owner' = g_owner \ {u} /\ g_admin' = g_admin
        /\ UNCHANGED <<g_member, g_outbox>>
    BY <1>3 DEF Org!RevokeRole
  <2>2. PICK v \in Org!Owners : v # u
    BY <2>1, OrgSpares
  <2>3. Org!HasOwner'
    BY <2>1, <2>2 DEF Org!HasOwner, Org!Owners, Org!Active
  <2> QED BY <2>1, <2>3, <1>0, <1>3
<1>4. CASE kind = "revoke_admin" /\ Org!RevokeRole(u, "admin")
  BY <1>4, <1>0 DEF Org!RevokeRole, Org!HasOwner, Org!Owners, Org!Active
<1>5. CASE kind = "transfer" /\ Org!TransferOwner(u)
  BY <1>5, <1>0 DEF Org!TransferOwner, Org!HasOwner, Org!Owners, Org!Active
<1>6. ASSUME kind \in {"suspend", "remove", "leave"}, NEW st \in {"suspended", "left"},
             Org!ChangeMembershipStatus(u, st)
      PROVE  Goal
  <2>1. /\ Org!SparesOwner(u) /\ g_member' = [g_member EXCEPT ![u] = st] /\ Org!Enqueue(u)
        /\ \/ g_owner' = g_owner \ {u} /\ g_admin' = g_admin \ {u}
           \/ UNCHANGED <<g_owner, g_admin>>
    BY <1>6 DEF Org!ChangeMembershipStatus
  <2>2. PICK v \in Org!Owners : v # u
    BY <2>1, OrgSpares
  <2>3. Org!HasOwner'
    BY <2>1, <2>2, <1>0 DEF Org!HasOwner, Org!Owners, Org!Active
  <2> QED BY <2>1, <2>3, <1>0, <1>6
<1>7. CASE kind = "reactivate" /\ Org!ChangeMembershipStatus(u, "active")
  BY <1>7, <1>0 DEF Org!ChangeMembershipStatus, Org!HasOwner, Org!Owners, Org!Active
<1> HIDE DEF Goal
<1>8. Goal
  BY <1>6, <1>1, <1>2, <1>3, <1>4, <1>5, <1>7 DEF Org!Change, Goal
<1> QED BY <1>8 DEF Goal

LEMMA OrgTypes ==
    ASSUME Org!TypeOK, Org!HasOwner, Org!Next PROVE Org!TypeOK'
<1> DEFINE Ops == [at : {"committed", "read"}, user : Users, granted : BOOLEAN] \cup {Org!Free}
           Statuses == {"none", "active", "suspended", "left"}
           Rest == /\ g_outbox' \in [Collecting -> 0..MaxEvents]
                   /\ g_collector' \in [Collecting -> BOOLEAN] /\ g_adding' \subseteq Collecting
                   /\ g_slipped' \subseteq Collecting
           Goal == /\ g_member' \in [Users -> Statuses] /\ g_owner' \subseteq Users
                   /\ g_admin' \subseteq Users /\ g_invited' \in BOOLEAN
                   /\ g_tuple' \in [Users -> BOOLEAN] /\ g_stale' \in [Users -> BOOLEAN]
                   /\ g_op' \in [Workers -> Ops] /\ g_managers' \subseteq Users /\ Rest
<1>0. /\ g_member \in [Users -> Statuses] /\ g_owner \subseteq Users /\ g_admin \subseteq Users
      /\ g_invited \in BOOLEAN /\ g_tuple \in [Users -> BOOLEAN] /\ g_stale \in [Users -> BOOLEAN]
      /\ g_op \in [Workers -> Ops] /\ g_managers \subseteq Users
      /\ g_outbox \in [Collecting -> 0..MaxEvents]
      /\ g_collector \in [Collecting -> BOOLEAN] /\ g_adding \subseteq Collecting
      /\ g_slipped \subseteq Collecting
  BY DEF Org!TypeOK
<1>n. MaxEvents \in Nat /\ Collecting \subseteq Users
  BY ServicesAssumption
<1> SUFFICES Goal
  BY DEF Org!TypeOK
<1>u. /\ UNCHANGED g_member => g_member' \in [Users -> Statuses]
      /\ UNCHANGED <<g_owner, g_admin>> => g_owner' \subseteq Users /\ g_admin' \subseteq Users
      /\ UNCHANGED g_managers => g_managers' \subseteq Users
      /\ UNCHANGED <<g_outbox, g_collector, g_adding, g_slipped>> => Rest
  BY <1>0
<1>v. /\ UNCHANGED g_tuple => g_tuple' \in [Users -> BOOLEAN]
      /\ UNCHANGED g_stale => g_stale' \in [Users -> BOOLEAN]
      /\ UNCHANGED g_invited => g_invited' \in BOOLEAN
  BY <1>0
<1>w. UNCHANGED g_op => g_op' \in [Workers -> Ops]
  BY <1>0
<1>s. ASSUME NEW u \in Users, NEW b \in BOOLEAN, g_stale' = [g_stale EXCEPT ![u] = b]
      PROVE  g_stale' \in [Users -> BOOLEAN]
  BY <1>s, <1>0
<1>o. ASSUME NEW s \in Workers, NEW o \in Ops, g_op' = [g_op EXCEPT ![s] = o]
      PROVE  g_op' \in [Workers -> Ops]
  <2> HIDE DEF Ops
  <2> QED BY <1>o, <1>0
<1>f. Org!Free \in Ops
  OBVIOUS
<1>1. ASSUME Org!CreateInvitation \/ Org!RevokeInvitation PROVE Goal
  <2>1. g_invited' \in BOOLEAN
    BY <1>1 DEF Org!CreateInvitation, Org!RevokeInvitation
  <2> HIDE DEF Ops, Statuses, Rest
  <2> QED
    BY <1>1, <2>1, <1>u, <1>v, <1>w DEF Org!CreateInvitation, Org!RevokeInvitation, Org!knowledge
<1>2. ASSUME NEW u \in Users, Org!AcceptInvitation(u) PROVE Goal
  <2>1. g_invited' \in BOOLEAN /\ g_member' \in [Users -> Statuses]
    BY <1>2, <1>0 DEF Org!AcceptInvitation
  <2>2. g_owner' \subseteq Users /\ g_admin' \subseteq Users
    BY <1>2, <1>0 DEF Org!AcceptInvitation
  <2>3. PICK b \in BOOLEAN : g_stale' = [g_stale EXCEPT ![u] = b]
    <3>1. (g_stale[u] \/ \E s \in Workers : g_op[s].user = u /\ g_op[s].at = "read") \in BOOLEAN
      OBVIOUS
    <3> QED BY <3>1, <1>2 DEF Org!AcceptInvitation
  <2>4. g_stale' \in [Users -> BOOLEAN]
    BY <2>3, <1>s
  <2> HIDE DEF Ops, Statuses, Rest
  <2> QED BY <1>2, <2>1, <2>2, <2>4, <1>u, <1>v, <1>w DEF Org!AcceptInvitation, Org!knowledge
<1>3. ASSUME NEW s \in Workers, NEW kind \in Org!Kinds, NEW u \in Users, Org!Commit(s, kind, u) PROVE Goal
  <2>1. Org!Change(kind, u)
    BY <1>3 DEF Org!Commit
  <2>2. /\ g_member' \in [Users -> Statuses] /\ g_owner' \subseteq Users /\ g_admin' \subseteq Users
    BY <2>1, <1>0, OrgChange
  <2>3. g_managers' \subseteq Users
    BY <1>3, <2>2, <1>0 DEF Org!Commit
  <2>4. g_op' \in [Workers -> Ops]
    <3>1. [at |-> "committed", user |-> u, granted |-> kind \in {"grant_owner", "grant_admin"}] \in Ops
      <4>1. (kind \in {"grant_owner", "grant_admin"}) \in BOOLEAN
        OBVIOUS
      <4>2. ASSUME NEW b \in BOOLEAN PROVE [at |-> "committed", user |-> u, granted |-> b] \in Ops
        OBVIOUS
      <4> HIDE DEF Ops
      <4> QED BY <4>1, <4>2
    <3> QED BY <3>1, <1>o, <1>3 DEF Org!Commit
  <2>5. PICK b \in BOOLEAN : g_stale' = [g_stale EXCEPT ![u] = b]
    <3>1. (g_stale[u] \/ \E z \in Workers : g_op[z].user = u /\ g_op[z].at = "read") \in BOOLEAN
      OBVIOUS
    <3> QED BY <3>1, <1>3 DEF Org!Commit
  <2>6. g_stale' \in [Users -> BOOLEAN]
    BY <2>5, <1>s
  <2>7. g_outbox' \in [Collecting -> 0..MaxEvents]
    <3>1. CASE UNCHANGED g_outbox
      BY <3>1, <1>0
    <3>2. CASE Org!Enqueue(u) /\ u \in Collecting
      <4>1. g_outbox[u] \in 0..MaxEvents /\ g_outbox[u] < MaxEvents
        BY <3>2, <1>0 DEF Org!Enqueue
      <4>2. g_outbox[u] + 1 \in 0..MaxEvents
        BY <4>1, <1>n
      <4> QED BY <3>2, <4>2, <1>0 DEF Org!Enqueue
    <3>3. CASE Org!Enqueue(u) /\ u \notin Collecting
      BY <3>3, <1>0 DEF Org!Enqueue
    <3> QED BY <3>1, <3>2, <3>3, <2>1, OrgChange
  <2>8. Rest
    BY <1>3, <2>7, <1>0 DEF Org!Commit, Org!knowledge
  <2> HIDE DEF Ops, Statuses, Rest
  <2> QED BY <1>3, <2>2, <2>3, <2>4, <2>6, <2>8, <1>v DEF Org!Commit
<1>4. ASSUME NEW s \in Workers, Org!ReadRole(s) PROVE Goal
  <2> DEFINE u == g_op[s].user
  <2>1. g_op[s] \in [at : {"committed", "read"}, user : Users, granted : BOOLEAN] /\ u \in Users
    BY <1>4, <1>0 DEF Org!ReadRole, Org!Free
  <2>2. PICK b \in BOOLEAN : g_op' = [g_op EXCEPT ![s].at = "read", ![s].granted = b]
    <3>1. (g_op[s].granted \/ Org!GrantedNow(u)) \in BOOLEAN
      OBVIOUS
    <3> QED BY <3>1, <1>4 DEF Org!ReadRole
  <2>3. g_op' \in [Workers -> Ops]
    <3> DEFINE o == [g_op[s] EXCEPT !.at = "read", !.granted = b]
    <3>1. o \in [at : {"committed", "read"}, user : Users, granted : BOOLEAN]
      BY <2>1
    <3>2. g_op' = [g_op EXCEPT ![s] = o]
      BY <2>2, <1>0
    <3>3. o \in Ops
      BY <3>1
    <3> HIDE DEF o, Ops
    <3> QED BY <3>2, <3>3, <1>o
  <2>4. PICK c \in BOOLEAN : g_stale' = [g_stale EXCEPT ![u] = c]
    <3>1. (g_stale[u] \/ (g_op[s].granted /\ ~Org!Privileged(u))) \in BOOLEAN
      OBVIOUS
    <3> QED BY <3>1, <1>4 DEF Org!ReadRole
  <2>5. g_stale' \in [Users -> BOOLEAN]
    BY <2>4, <2>1, <1>s
  <2> HIDE DEF Ops, Statuses, Rest
  <2> QED BY <1>4, <2>3, <2>5, <1>u, <1>v DEF Org!ReadRole, Org!knowledge
<1>5. ASSUME NEW s \in Workers, Org!SyncOrganizationRole(s) PROVE Goal
  <2>1. g_op[s] \in [at : {"committed", "read"}, user : Users, granted : BOOLEAN]
    BY <1>5, <1>0 DEF Org!SyncOrganizationRole, Org!Free
  <2>2. g_tuple' \in [Users -> BOOLEAN]
    BY <2>1, <1>5, <1>0 DEF Org!SyncOrganizationRole
  <2>3. g_op' \in [Workers -> Ops]
    BY <1>5, <1>f, <1>o DEF Org!SyncOrganizationRole
  <2> HIDE DEF Ops, Statuses, Rest
  <2> QED BY <1>5, <2>2, <2>3, <1>u, <1>v DEF Org!SyncOrganizationRole, Org!knowledge
<1>6. ASSUME NEW s \in Workers, Org!SyncFails(s) PROVE Goal
  <2>1. g_op[s].user \in Users
    BY <1>6, <1>0 DEF Org!SyncFails, Org!Free
  <2>2. g_stale' \in [Users -> BOOLEAN]
    BY <1>6, <2>1, <1>s DEF Org!SyncFails
  <2>3. g_op' \in [Workers -> Ops]
    BY <1>6, <1>f, <1>o DEF Org!SyncFails
  <2> HIDE DEF Ops, Statuses, Rest
  <2> QED BY <1>6, <2>2, <2>3, <1>u, <1>v DEF Org!SyncFails, Org!knowledge
<1>7. ASSUME Org!Restart PROVE Goal
  <2>1. g_op' \in [Workers -> Ops]
    <3> HIDE DEF Ops
    <3> QED BY <1>7, <1>f DEF Org!Restart
  <2>2. g_tuple' \in [Users -> BOOLEAN]
    <3>1. \A u \in Users : (IF Org!Active(u) THEN Org!Privileged(u) ELSE g_tuple[u]) \in BOOLEAN
      BY <1>0 DEF Org!Privileged
    <3> QED BY <3>1, <1>7 DEF Org!Restart
  <2>3. g_stale' \in [Users -> BOOLEAN]
    <3>1. \A u \in Users : (~Org!Active(u) /\ (g_stale[u] \/ \E s \in Workers : g_op[s].user = u)) \in BOOLEAN
      OBVIOUS
    <3> QED BY <3>1, <1>7 DEF Org!Restart
  <2> HIDE DEF Ops, Statuses, Rest
  <2> QED BY <1>7, <2>1, <2>2, <2>3, <1>u, <1>v DEF Org!Restart, Org!knowledge
<1>8. ASSUME NEW u \in Collecting, Org!PublishOrganizationEvent(u) PROVE Goal
  <2>1. g_collector' \in [Collecting -> BOOLEAN]
    <3>1. PICK b \in BOOLEAN : g_collector' = [g_collector EXCEPT ![u] = b]
      BY <1>8 DEF Org!PublishOrganizationEvent, Org!Heard
    <3> QED BY <3>1, <1>0
  <2>2. g_slipped' \subseteq Collecting
    BY <1>8, <1>0 DEF Org!PublishOrganizationEvent
  <2>3. g_outbox' \in [Collecting -> 0..MaxEvents]
    <3>1. g_outbox[u] - 1 \in 0..MaxEvents
      <4>1. g_outbox[u] \in 0..MaxEvents /\ g_outbox[u] > 0
        BY <1>8, <1>0 DEF Org!PublishOrganizationEvent
      <4> QED BY <4>1, <1>n
    <3> QED BY <3>1, <1>8, <1>0 DEF Org!PublishOrganizationEvent
  <2>4. Rest
    BY <1>8, <2>1, <2>2, <2>3, <1>0 DEF Org!PublishOrganizationEvent
  <2> HIDE DEF Ops, Statuses, Rest
  <2> QED BY <1>8, <2>4, <1>u, <1>v, <1>w DEF Org!PublishOrganizationEvent
<1>9. ASSUME NEW u \in Collecting, Org!CheckCollector(u) \/ Org!AddCollector(u) PROVE Goal
  <2>1. g_collector' \in [Collecting -> BOOLEAN]
    BY <1>9, <1>0 DEF Org!CheckCollector, Org!AddCollector
  <2>2. g_adding' \subseteq Collecting /\ g_slipped' \subseteq Collecting
    BY <1>9, <1>0 DEF Org!CheckCollector, Org!AddCollector
  <2>3. Rest
    BY <1>9, <2>1, <2>2, <1>0 DEF Org!CheckCollector, Org!AddCollector
  <2> HIDE DEF Ops, Statuses, Rest
  <2> QED BY <1>9, <2>3, <1>u, <1>v, <1>w DEF Org!CheckCollector, Org!AddCollector
<1> HIDE DEF Goal
<1> QED
  BY <1>1, <1>2, <1>3, <1>4, <1>5, <1>6, <1>7, <1>8, <1>9 DEF Org!Next

\* Whatever owners do to each other at once.
LEMMA OrgHasOwner ==
    ASSUME Org!TypeOK, Org!HasOwner, Org!Next PROVE Org!HasOwner'
<1>1. ASSUME NEW s \in Workers, NEW kind \in Org!Kinds, NEW u \in Users, Org!Commit(s, kind, u)
      PROVE  Org!HasOwner'
  BY <1>1, OrgChange DEF Org!Commit
<1>2. ASSUME NEW u \in Users, Org!AcceptInvitation(u) PROVE Org!HasOwner'
  <2>1. PICK v \in g_owner : g_member[v] = "active"
    BY DEF Org!HasOwner, Org!Owners, Org!Active
  <2>2. v # u
    BY <2>1, <1>2 DEF Org!AcceptInvitation
  <2>3. v \in g_owner' /\ g_member'[v] = "active"
    BY <2>1, <2>2, <1>2 DEF Org!AcceptInvitation, Org!TypeOK
  <2> QED BY <2>3 DEF Org!HasOwner, Org!Owners, Org!Active
<1>3. \/ UNCHANGED <<g_member, g_owner>>
      \/ \E u \in Users : Org!AcceptInvitation(u)
      \/ \E s \in Workers, kind \in Org!Kinds, u \in Users : Org!Commit(s, kind, u)
  BY DEF Org!Next, Org!CreateInvitation, Org!RevokeInvitation, Org!Restart, Org!ReadRole,
     Org!SyncOrganizationRole, Org!SyncFails, Org!PublishOrganizationEvent, Org!CheckCollector,
     Org!AddCollector
<1>4. CASE UNCHANGED <<g_member, g_owner>>
  BY <1>4 DEF Org!HasOwner, Org!Owners, Org!Active
<1> QED BY <1>1, <1>2, <1>3, <1>4

\* A step that changes a user's role or status has his request under way, or takes away
\* roles that he did not hold.
LEMMA OrgRoles ==
    ASSUME Org!TypeOK, Org!HasOwner, Org!Next, NEW u \in Users
    PROVE  \/ Org!Privileged(u)' <=> Org!Privileged(u)
           \/ \E s \in Workers, kind \in Org!Kinds : Org!Commit(s, kind, u)
           \/ Org!AcceptInvitation(u) /\ ~Org!Privileged(u)' /\ ~Org!Privileged(u)
<1>0. /\ g_member \in [Users -> {"none", "active", "suspended", "left"}]
      /\ g_owner \subseteq Users /\ g_admin \subseteq Users
  BY DEF Org!TypeOK
<1>1. ASSUME NEW s \in Workers, NEW kind \in Org!Kinds, NEW v \in Users \ {u}, Org!Commit(s, kind, v)
      PROVE  Org!Privileged(u)' <=> Org!Privileged(u)
  <2>1. /\ g_member'[u] = g_member[u] /\ (u \in g_owner' <=> u \in g_owner)
        /\ (u \in g_admin' <=> u \in g_admin)
    BY <1>1, OrgChange DEF Org!Commit
  <2> QED BY <2>1 DEF Org!Privileged, Org!Active
<1>2. ASSUME NEW v \in Users \ {u}, Org!AcceptInvitation(v)
      PROVE  Org!Privileged(u)' <=> Org!Privileged(u)
  <2>1. /\ g_member'[u] = g_member[u] /\ (u \in g_owner' <=> u \in g_owner)
        /\ (u \in g_admin' <=> u \in g_admin)
    BY <1>2, <1>0 DEF Org!AcceptInvitation
  <2> QED BY <2>1 DEF Org!Privileged, Org!Active
<1>3. ASSUME Org!AcceptInvitation(u)
      PROVE  ~Org!Privileged(u)' /\ ~Org!Privileged(u)
  BY <1>3 DEF Org!AcceptInvitation, Org!Privileged, Org!Active
<1>4. \/ UNCHANGED <<g_member, g_owner, g_admin>>
      \/ \E v \in Users : Org!AcceptInvitation(v)
      \/ \E s \in Workers, kind \in Org!Kinds, v \in Users : Org!Commit(s, kind, v)
  BY DEF Org!Next, Org!CreateInvitation, Org!RevokeInvitation, Org!Restart, Org!ReadRole,
     Org!SyncOrganizationRole, Org!SyncFails, Org!PublishOrganizationEvent, Org!CheckCollector,
     Org!AddCollector
<1>5. CASE UNCHANGED <<g_member, g_owner, g_admin>>
  BY <1>5 DEF Org!Privileged, Org!Active
<1>6. CASE \E v \in Users : Org!AcceptInvitation(v)
  BY <1>6, <1>2, <1>3
<1>7. CASE \E s \in Workers, kind \in Org!Kinds, v \in Users : Org!Commit(s, kind, v)
  BY <1>7, <1>1
<1> QED BY <1>4, <1>5, <1>6, <1>7

\* What a step does to a slot: it is taken for a committed change, goes on, or is free.
LEMMA OrgSlots ==
    ASSUME Org!TypeOK, Org!Next, NEW s \in Workers
    PROVE  \/ g_op'[s] = g_op[s]
           \/ g_op'[s].user = "none" /\ g_op'[s].at = "free"
           \/ Org!ReadRole(s)
           \/ \E kind \in Org!Kinds, u \in Users :
                 Org!Commit(s, kind, u) /\ g_op'[s].user = u /\ g_op'[s].at = "committed"
<1> DEFINE Goal == \/ g_op'[s] = g_op[s]
                   \/ g_op'[s].user = "none" /\ g_op'[s].at = "free"
                   \/ Org!ReadRole(s)
                   \/ \E kind \in Org!Kinds, u \in Users :
                         Org!Commit(s, kind, u) /\ g_op'[s].user = u /\ g_op'[s].at = "committed"
<1>0. DOMAIN g_op = Workers /\ g_op = [z \in Workers |-> g_op[z]]
  BY DEF Org!TypeOK
<1>1. ASSUME NEW z \in Workers, NEW kind \in Org!Kinds, NEW u \in Users, Org!Commit(z, kind, u) PROVE Goal
  <2>1. g_op' = [g_op EXCEPT ![z] = [at |-> "committed", user |-> u,
                                     granted |-> kind \in {"grant_owner", "grant_admin"}]]
    BY <1>1 DEF Org!Commit
  <2>2. CASE z = s
    <3>1. g_op'[s].user = u /\ g_op'[s].at = "committed"
      BY <2>1, <2>2, <1>0
    <3> QED BY <3>1, <2>2, <1>1
  <2>3. CASE z # s
    BY <2>1, <2>3, <1>0
  <2> QED BY <2>2, <2>3
<1>2. ASSUME NEW z \in Workers, Org!ReadRole(z) PROVE Goal
  <2>1. CASE z = s
    BY <2>1, <1>2
  <2>2. CASE z # s
    BY <2>2, <1>2, <1>0 DEF Org!ReadRole
  <2> QED BY <2>1, <2>2
<1>3. ASSUME NEW z \in Workers, Org!SyncOrganizationRole(z) \/ Org!SyncFails(z) PROVE Goal
  <2>1. g_op' = [g_op EXCEPT ![z] = Org!Free]
    BY <1>3 DEF Org!SyncOrganizationRole, Org!SyncFails
  <2> QED BY <2>1, <1>0 DEF Org!Free
<1>4. ASSUME Org!Restart PROVE Goal
  BY <1>4 DEF Org!Restart, Org!Free
<1>5. ASSUME UNCHANGED g_op PROVE Goal
  BY <1>5
<1>6. \/ UNCHANGED g_op \/ Org!Restart
      \/ \E z \in Workers : \/ \E kind \in Org!Kinds, u \in Users : Org!Commit(z, kind, u)
                            \/ Org!ReadRole(z) \/ Org!SyncOrganizationRole(z) \/ Org!SyncFails(z)
  BY DEF Org!Next, Org!CreateInvitation, Org!RevokeInvitation, Org!AcceptInvitation,
     Org!PublishOrganizationEvent, Org!CheckCollector, Org!AddCollector
<1> HIDE DEF Goal
<1>7. Goal
  BY <1>1, <1>2, <1>3, <1>4, <1>5, <1>6
<1> QED BY <1>7 DEF Goal

\* What a step does to the mark of a user and to his tuple.
LEMMA OrgMarks ==
    ASSUME Org!TypeOK, Org!Next, NEW u \in Users
    PROVE  /\ g_stale[u] => g_stale'[u] \/ Org!Restart
           /\ g_tuple'[u] = g_tuple[u] \/ Org!Restart
              \/ \E s \in Workers : Org!SyncOrganizationRole(s) /\ g_op[s].user = u
<1>0. g_stale \in [Users -> BOOLEAN] /\ g_tuple \in [Users -> BOOLEAN]
  BY DEF Org!TypeOK
<1>1. g_stale[u] => g_stale'[u] \/ Org!Restart
  <2>1. ASSUME NEW v, NEW b, g_stale[u], g_stale' = [g_stale EXCEPT ![v] = g_stale[v] \/ b]
        PROVE  g_stale'[u]
    BY <2>1, <1>0
  <2>2. \/ UNCHANGED g_stale \/ Org!Restart
        \/ \E v \in Users : Org!AcceptInvitation(v)
        \/ \E s \in Workers : \/ \E kind \in Org!Kinds, v \in Users : Org!Commit(s, kind, v)
                              \/ Org!ReadRole(s) \/ Org!SyncFails(s)
    BY DEF Org!Next, Org!CreateInvitation, Org!RevokeInvitation, Org!SyncOrganizationRole,
       Org!PublishOrganizationEvent, Org!CheckCollector, Org!AddCollector
  <2>3. ASSUME NEW v \in Users, Org!AcceptInvitation(v), g_stale[u] PROVE g_stale'[u]
    BY <2>3, <2>1 DEF Org!AcceptInvitation
  <2>4. ASSUME NEW s \in Workers, NEW kind, NEW v \in Users, Org!Commit(s, kind, v), g_stale[u]
        PROVE  g_stale'[u]
    BY <2>4, <2>1 DEF Org!Commit
  <2>5. ASSUME NEW s \in Workers, Org!ReadRole(s), g_stale[u] PROVE g_stale'[u]
    BY <2>5, <2>1 DEF Org!ReadRole
  <2>6. ASSUME NEW s \in Workers, Org!SyncFails(s), g_stale[u] PROVE g_stale'[u]
    BY <2>6, <1>0 DEF Org!SyncFails
  <2> QED BY <2>2, <2>3, <2>4, <2>5, <2>6
<1>2. g_tuple'[u] = g_tuple[u] \/ Org!Restart
      \/ \E s \in Workers : Org!SyncOrganizationRole(s) /\ g_op[s].user = u
  <2>1. ASSUME NEW s \in Workers, Org!SyncOrganizationRole(s), g_op[s].user # u
        PROVE  g_tuple'[u] = g_tuple[u]
    BY <2>1, <1>0 DEF Org!SyncOrganizationRole
  <2>2. \/ UNCHANGED g_tuple \/ Org!Restart \/ \E s \in Workers : Org!SyncOrganizationRole(s)
    BY DEF Org!Next, Org!CreateInvitation, Org!RevokeInvitation, Org!AcceptInvitation,
       Org!Commit, Org!ReadRole, Org!SyncFails,
       Org!PublishOrganizationEvent, Org!CheckCollector, Org!AddCollector
  <2> QED BY <2>1, <2>2
<1> QED BY <1>1, <1>2

\* OpenFGA and what is read for it.
LEMMA OrgTuples ==
    ASSUME Org!OrgInv, Org!Next PROVE Org!TupleIsRole' /\ Org!ReadIsTrue'
<1>0. /\ Org!TypeOK /\ Org!HasOwner /\ Org!TupleIsRole /\ Org!ReadIsTrue
      /\ g_stale \in [Users -> BOOLEAN] /\ g_tuple \in [Users -> BOOLEAN]
  BY DEF Org!OrgInv, Org!TypeOK
<1>b. \A u \in Users : /\ Org!Privileged(u) \in BOOLEAN /\ Org!Privileged(u)' \in BOOLEAN
                       /\ g_tuple[u] \in BOOLEAN /\ g_tuple'[u] \in BOOLEAN
  <2>1. g_tuple' \in [Users -> BOOLEAN]
    BY <1>0, OrgTypes DEF Org!TypeOK
  <2> QED BY <2>1, <1>0 DEF Org!Privileged
\* A change, and someone who comes back, mark those whose target is read already.
<1>m. ASSUME NEW u \in Users, NEW s \in Workers, g_op[s].user = u, g_op[s].at = "read",
             Org!AcceptInvitation(u) \/ \E z \in Workers, kind \in Org!Kinds : Org!Commit(z, kind, u)
      PROVE  g_stale'[u]
  <2>1. g_stale' = [g_stale EXCEPT ![u] = @ \/ \E z \in Workers : g_op[z].user = u /\ g_op[z].at = "read"]
    BY <1>m DEF Org!AcceptInvitation, Org!Commit
  <2> QED BY <2>1, <1>m, <1>0
<1>1. ASSUME NEW u \in Users
      PROVE  g_stale'[u] \/ (\E s \in Workers : g_op'[s].user = u) \/ (g_tuple'[u] <=> Org!Privileged(u)')
  <2>0. SUFFICES ASSUME ~g_stale'[u], \A s \in Workers : g_op'[s].user # u
                 PROVE  (g_tuple'[u] <=> Org!Privileged(u)')
    OBVIOUS
  <2>1. CASE Org!Restart
    <3>1. /\ Org!Active(u) => g_tuple'[u] = Org!Privileged(u)
          /\ ~Org!Active(u) => g_tuple'[u] = g_tuple[u]
      BY <2>1 DEF Org!Restart
    <3>2. Org!Privileged(u)' <=> Org!Privileged(u)
      BY <2>1 DEF Org!Restart, Org!Privileged, Org!Active
    <3>3. CASE Org!Active(u)
      BY <3>1, <3>2, <3>3
    <3>4. CASE ~Org!Active(u)
      <4>1. g_stale'[u] <=> (~Org!Active(u) /\ (g_stale[u] \/ \E s \in Workers : g_op[s].user = u))
        BY <2>1 DEF Org!Restart
      <4>2. ~g_stale[u] /\ \A s \in Workers : g_op[s].user # u
        BY <4>1, <3>4, <2>0
      <4>3. g_tuple[u] <=> Org!Privileged(u)
        BY <4>2, <1>0 DEF Org!TupleIsRole
      <4> QED BY <4>3, <3>1, <3>2, <3>4
    <3> QED BY <3>3, <3>4
  <2>2. CASE ~Org!Restart
    <3>1. ~g_stale[u]
      BY <2>0, <2>2, <1>0, OrgMarks
    <3>2. ASSUME NEW s \in Workers, Org!SyncOrganizationRole(s), g_op[s].user = u
          PROVE  (g_tuple'[u] <=> Org!Privileged(u)')
      <4>1. g_op[s].at = "read" /\ g_tuple' = [g_tuple EXCEPT ![u] = g_op[s].granted]
            /\ UNCHANGED <<g_member, g_owner, g_admin>>
        BY <3>2 DEF Org!SyncOrganizationRole
      <4>2. g_op[s].granted <=> Org!Privileged(u)
        BY <4>1, <3>1, <3>2, <1>0 DEF Org!ReadIsTrue
      <4>3. g_tuple'[u] <=> g_op[s].granted
        BY <4>1, <1>0
      <4>4. Org!Privileged(u)' <=> Org!Privileged(u)
        BY <4>1 DEF Org!Privileged, Org!Active
      <4> QED BY <4>2, <4>3, <4>4
    <3>3. ASSUME g_tuple'[u] = g_tuple[u], \A s \in Workers : ~(Org!SyncOrganizationRole(s) /\ g_op[s].user = u)
          PROVE  (g_tuple'[u] <=> Org!Privileged(u)')
      <4>1. ASSUME NEW s \in Workers PROVE g_op[s].user # u
        <5>0. SUFFICES ASSUME g_op[s].user = u PROVE FALSE
          OBVIOUS
        <5>1. \/ Org!ReadRole(s) \/ (g_op'[s].user = "none" /\ g_op'[s].at = "free")
              \/ \E kind \in Org!Kinds, v \in Users :
                    Org!Commit(s, kind, v) /\ g_op'[s].user = v /\ g_op'[s].at = "committed"
          BY <5>0, <2>0, <1>0, OrgSlots
        <5>2. ~Org!ReadRole(s)
          <6>1. ASSUME Org!ReadRole(s) PROVE g_op'[s].user = u
            BY <6>1, <5>0, <1>0 DEF Org!ReadRole, Org!TypeOK
          <6> QED BY <6>1, <2>0
        <5>3. g_op[s] # Org!Free
          BY <5>0, <1>0, OrgOps
        <5>4. ASSUME NEW kind, NEW v PROVE ~Org!Commit(s, kind, v)
          BY <5>3 DEF Org!Commit
        <5>5. g_op'[s].user = "none"
          BY <5>1, <5>2, <5>4
        <5>6. ~Org!SyncFails(s)
          <6>1. ASSUME Org!SyncFails(s) PROVE g_stale'[u]
            BY <6>1, <5>0, <1>0 DEF Org!SyncFails
          <6> QED BY <6>1, <2>0
        <5>7. g_op'[s] = g_op[s]
          <6>0. DOMAIN g_op = Workers /\ g_op = [z \in Workers |-> g_op[z]]
            BY <1>0 DEF Org!TypeOK
          <6>1. ASSUME NEW z \in Workers, Org!SyncOrganizationRole(z) \/ Org!SyncFails(z)
                PROVE  g_op'[s] = g_op[s]
            <7>1. z # s
              BY <6>1, <5>0, <5>6, <3>3
            <7> QED BY <6>1, <7>1, <6>0 DEF Org!SyncOrganizationRole, Org!SyncFails
          <6>2. ASSUME NEW z \in Workers, NEW kind, NEW v, Org!Commit(z, kind, v)
                PROVE  g_op'[s] = g_op[s]
            <7>1. z # s
              BY <6>2, <5>4
            <7> QED BY <6>2, <7>1, <6>0 DEF Org!Commit
          <6>3. ASSUME NEW z \in Workers, Org!ReadRole(z) PROVE g_op'[s] = g_op[s]
            <7>1. z # s
              BY <6>3, <5>2
            <7> QED BY <6>3, <7>1, <6>0 DEF Org!ReadRole
          <6>4. \/ UNCHANGED g_op
                \/ \E z \in Workers : \/ \E kind \in Org!Kinds, v \in Users : Org!Commit(z, kind, v)
                      \/ Org!ReadRole(z) \/ Org!SyncOrganizationRole(z) \/ Org!SyncFails(z)
            BY <2>2 DEF Org!Next, Org!CreateInvitation, Org!RevokeInvitation, Org!AcceptInvitation,
               Org!PublishOrganizationEvent, Org!CheckCollector, Org!AddCollector
          <6> QED BY <6>1, <6>2, <6>3, <6>4
        <5> QED BY <5>7, <5>0, <2>0
      <4>2. g_tuple[u] <=> Org!Privileged(u)
        BY <4>1, <3>1, <1>0 DEF Org!TupleIsRole
      <4>3. ~ \E s \in Workers, kind \in Org!Kinds : Org!Commit(s, kind, u)
        <5>1. ASSUME NEW s \in Workers, NEW kind \in Org!Kinds, Org!Commit(s, kind, u) PROVE FALSE
          <6>1. g_op'[s].user = u
            BY <5>1, <1>0 DEF Org!Commit, Org!TypeOK
          <6> QED BY <6>1, <2>0
        <5> QED BY <5>1
      <4>4. Org!Privileged(u)' <=> Org!Privileged(u)
        BY <4>3, <1>0, OrgRoles
      <4> QED BY <4>2, <4>4, <3>3
    <3> QED BY <3>2, <3>3, <2>2, <1>0, OrgMarks
  <2> QED BY <2>1, <2>2
<1>2. ASSUME NEW s \in Workers, g_op'[s].at = "read"
      PROVE  g_stale'[g_op'[s].user] \/ (g_op'[s].granted <=> Org!Privileged(g_op[s].user)')
  <2>1. CASE Org!ReadRole(s)
    <3> DEFINE u == g_op[s].user
    <3>1. /\ g_op[s].at = "committed"
          /\ g_op' = [g_op EXCEPT ![s].at = "read", ![s].granted = @ \/ Org!GrantedNow(u)]
          /\ g_stale' = [g_stale EXCEPT ![u] = @ \/ (g_op[s].granted /\ ~Org!Privileged(u))]
          /\ UNCHANGED <<g_member, g_owner, g_admin>>
      BY <2>1 DEF Org!ReadRole
    <3>2. u \in Users /\ g_op[s].granted \in BOOLEAN
      BY <3>1, <1>0, OrgOps DEF Org!Free
    <3>3. g_op'[s].user = u /\ (g_op'[s].granted <=> (g_op[s].granted \/ Org!Privileged(u)))
      <4>1. g_op'[s].user = u /\ g_op'[s].granted = (g_op[s].granted \/ Org!GrantedNow(u))
        BY <3>1, <1>0 DEF Org!TypeOK
      <4>2. Org!GrantedNow(u) <=> Org!Privileged(u)
        BY DEF Org!GrantedNow
      <4>3. g_op'[s].granted <=> (g_op[s].granted \/ Org!GrantedNow(u))
        BY <4>1
      <4> QED BY <4>1, <4>2, <4>3
    <3>4. Org!Privileged(u) <=> Org!Privileged(g_op[s].user)'
      BY <3>1, <3>3 DEF Org!Privileged, Org!Active
    <3>5. g_stale'[u] <=> (g_stale[u] \/ (g_op[s].granted /\ ~Org!Privileged(u)))
      BY <3>1, <3>2, <1>0
    <3> QED BY <3>2, <3>3, <3>4, <3>5
  <2>2. CASE ~Org!ReadRole(s)
    <3> DEFINE u == g_op[s].user
    <3>1. g_op'[s] = g_op[s]
      BY <2>2, <1>2, <1>0, OrgSlots
    <3>2. g_op[s].at = "read" /\ u \in Users
      BY <3>1, <1>2, <1>0, OrgOps DEF Org!Free
    <3>3. ~Org!Restart
      <4>1. ASSUME Org!Restart PROVE g_op'[s].at = "free"
        BY <4>1 DEF Org!Restart, Org!Free
      <4> QED BY <4>1, <1>2
    <3>4. CASE g_stale[u]
      BY <3>1, <3>2, <3>3, <3>4, <1>0, OrgMarks
    <3>5. CASE ~g_stale[u]
      <4>1. g_op[s].granted <=> Org!Privileged(u)
        BY <3>2, <3>5, <1>0 DEF Org!ReadIsTrue
      <4>2. CASE Org!AcceptInvitation(u) \/ \E z \in Workers, kind \in Org!Kinds : Org!Commit(z, kind, u)
        <5>1. g_stale'[u]
          BY <4>2, <3>2, <1>m
        <5> QED BY <5>1, <3>1
      <4>3. CASE ~(Org!AcceptInvitation(u) \/ \E z \in Workers, kind \in Org!Kinds : Org!Commit(z, kind, u))
        <5>1. PICK v \in Users : v = u
          BY <3>2
        <5>2. Org!Privileged(v)' <=> Org!Privileged(v)
          BY <4>3, <5>1, <1>0, OrgRoles
        <5>3. Org!Privileged(g_op[s].user)' <=> Org!Privileged(v)'
          BY <3>1, <5>1 DEF Org!Privileged, Org!Active
        <5> QED BY <5>1, <5>2, <5>3, <4>1, <3>1
      <4> QED BY <4>2, <4>3
    <3> QED BY <3>4, <3>5
  <2> QED BY <2>1, <2>2
<1>3. Org!TupleIsRole'
  BY <1>1, <1>b DEF Org!TupleIsRole
<1>4. Org!ReadIsTrue'
  <2>1. ASSUME NEW s \in Workers, g_op'[s].at = "read"
        PROVE  g_op'[s].user \in Users /\ g_op'[s].granted \in BOOLEAN
    <3>1. g_op'[s] \in [at : {"committed", "read"}, user : Users, granted : BOOLEAN] \cup {Org!Free}
      BY <1>0, OrgTypes DEF Org!TypeOK
    <3>2. g_op'[s] # Org!Free
      BY <2>1 DEF Org!Free
    <3>3. g_op'[s] \in [at : {"committed", "read"}, user : Users, granted : BOOLEAN]
      BY <3>1, <3>2
    <3> QED BY <3>3
  <2>2. ASSUME NEW s \in Workers, g_op'[s].at = "read", ~g_stale'[g_op'[s].user]
        PROVE  g_op'[s].granted = Org!Privileged(g_op[s].user)'
    <3>1. g_op'[s].granted <=> Org!Privileged(g_op[s].user)'
      BY <2>2, <1>2
    <3>2. Org!Privileged(g_op[s].user)' \in BOOLEAN
      BY DEF Org!Privileged
    <3> QED BY <3>1, <3>2, <2>1, <2>2
  <2> QED BY <2>2 DEF Org!ReadIsTrue
<1> QED BY <1>3, <1>4

\* Who is gone, and his collectors.
LEMMA OrgGone ==
    ASSUME Org!OrgInv, Org!Next PROVE Org!GoneStopsCollecting'
<1>0. /\ Org!TypeOK /\ Org!HasOwner /\ Org!GoneStopsCollecting
      /\ g_outbox \in [Collecting -> 0..MaxEvents] /\ Collecting \subseteq Users /\ MaxEvents \in Nat
      /\ g_collector \in [Collecting -> BOOLEAN]
      /\ g_member \in [Users -> {"none", "active", "suspended", "left"}]
  BY ServicesAssumption DEF Org!OrgInv, Org!TypeOK
<1>1. SUFFICES ASSUME NEW u \in Collecting, g_collector'[u], g_member'[u] # "active"
               PROVE  u \in g_slipped' \/ g_outbox'[u] > 0
  BY DEF Org!GoneStopsCollecting, Org!Active
<1>2. ASSUME UNCHANGED <<g_collector, g_slipped, g_outbox>>, g_member[u] # "active"
      PROVE  u \in g_slipped' \/ g_outbox'[u] > 0
  BY <1>1, <1>2, <1>0 DEF Org!GoneStopsCollecting, Org!Active
<1>3. ASSUME NEW s \in Workers, NEW kind \in Org!Kinds, NEW v \in Users, Org!Commit(s, kind, v)
      PROVE  u \in g_slipped' \/ g_outbox'[u] > 0
  <2>1. Org!Change(kind, v) /\ UNCHANGED <<g_collector, g_slipped>>
    BY <1>3 DEF Org!Commit, Org!knowledge
  <2>2. CASE v = u
    <3>1. CASE UNCHANGED g_outbox
      <4>1. g_member'[u] = g_member[u] \/ g_member'[u] = "active" \/ Org!Enqueue(u)
        BY <2>1, <2>2, <1>0, OrgChange
      <4>2. CASE Org!Enqueue(u)
        BY <4>2, <1>0 DEF Org!Enqueue
      <4>3. CASE g_member'[u] = g_member[u]
        BY <4>3, <3>1, <2>1, <1>1, <1>2
      <4> QED BY <4>1, <4>2, <4>3, <1>1
    <3>2. CASE Org!Enqueue(u)
      BY <3>2, <1>0 DEF Org!Enqueue
    <3> QED BY <3>1, <3>2, <2>1, <2>2, <1>0, OrgChange
  <2>3. CASE v # u
    <3>1. g_member'[u] = g_member[u] /\ g_outbox'[u] = g_outbox[u]
      <4>1. g_member'[u] = g_member[u]
        BY <2>1, <2>3, <1>0, OrgChange
      <4>2. UNCHANGED g_outbox \/ Org!Enqueue(v)
        BY <2>1, <1>0, OrgChange
      <4> QED BY <4>1, <4>2, <2>3, <1>0 DEF Org!Enqueue
    <3> QED BY <3>1, <2>1, <1>0, <1>1 DEF Org!GoneStopsCollecting, Org!Active
  <2> QED BY <2>2, <2>3
<1>4. ASSUME NEW v \in Users, Org!AcceptInvitation(v)
      PROVE  u \in g_slipped' \/ g_outbox'[u] > 0
  <2>1. g_member[u] # "active" /\ UNCHANGED <<g_collector, g_slipped, g_outbox>>
    BY <1>4, <1>1, <1>0 DEF Org!AcceptInvitation, Org!knowledge
  <2> QED BY <2>1, <1>2
<1>5. ASSUME NEW v \in Collecting, Org!PublishOrganizationEvent(v)
      PROVE  u \in g_slipped' \/ g_outbox'[u] > 0
  <2>1. /\ g_collector' = [g_collector EXCEPT ![v] = FALSE] /\ g_slipped' = g_slipped \ {v}
        /\ g_member' = g_member
        /\ g_outbox' = [g_outbox EXCEPT ![v] = @ - 1] \/ UNCHANGED g_outbox
    BY <1>5 DEF Org!PublishOrganizationEvent, Org!Heard
  <2>2. v # u
    BY <2>1, <1>1, <1>0
  <2>3. g_collector[u] /\ g_outbox'[u] = g_outbox[u]
    BY <2>1, <2>2, <1>1, <1>0
  <2> QED BY <2>1, <2>2, <2>3, <1>0, <1>1 DEF Org!GoneStopsCollecting, Org!Active
<1>6. ASSUME NEW v \in Collecting, Org!AddCollector(v)
      PROVE  u \in g_slipped' \/ g_outbox'[u] > 0
  <2>1. /\ g_collector' = [g_collector EXCEPT ![v] = TRUE]
        /\ g_slipped' = IF g_member[v] = "active" THEN g_slipped ELSE g_slipped \cup {v}
        /\ UNCHANGED <<g_member, g_outbox>>
    BY <1>6 DEF Org!AddCollector, Org!Active
  <2>2. CASE v = u
    BY <2>1, <2>2, <1>1
  <2>3. CASE v # u
    <3>1. g_collector[u]
      BY <2>1, <2>3, <1>1, <1>0
    <3> QED BY <2>1, <3>1, <1>0, <1>1 DEF Org!GoneStopsCollecting, Org!Active
  <2> QED BY <2>2, <2>3
<1>7. CASE UNCHANGED <<g_collector, g_slipped, g_outbox, g_member>>
  BY <1>7, <1>1, <1>2
<1>8. \/ UNCHANGED <<g_collector, g_slipped, g_outbox, g_member>>
      \/ \E v \in Users : Org!AcceptInvitation(v)
      \/ \E v \in Collecting : Org!PublishOrganizationEvent(v) \/ Org!AddCollector(v)
      \/ \E s \in Workers, kind \in Org!Kinds, v \in Users : Org!Commit(s, kind, v)
  BY DEF Org!Next, Org!CreateInvitation, Org!RevokeInvitation, Org!Restart, Org!ReadRole,
     Org!SyncOrganizationRole, Org!SyncFails, Org!CheckCollector, Org!knowledge
<1> QED BY <1>3, <1>4, <1>5, <1>6, <1>7, <1>8

LEMMA OrgStep ==
    ASSUME Org!OrgInv, Org!Next PROVE Org!OrgInv'
BY OrgTypes, OrgHasOwner, OrgTuples, OrgGone DEF Org!OrgInv

LEMMA OrgStart ==
    ASSUME Org!Init PROVE Org!OrgInv
<1> USE ServicesAssumption
<1>1. Org!TypeOK
  <2>1. \A u \in Users : (u = Creator) \in BOOLEAN
    OBVIOUS
  <2>2. g_tuple \in [Users -> BOOLEAN]
    BY <2>1 DEF Org!Init
  <2>3. g_outbox \in [Collecting -> 0..MaxEvents]
    BY DEF Org!Init
  <2> QED BY <2>2, <2>3 DEF Org!Init, Org!TypeOK
<1>2. Org!HasOwner
  BY DEF Org!Init, Org!HasOwner, Org!Owners, Org!Active
<1>3. Org!TupleIsRole
  <2>1. ASSUME NEW u \in Users PROVE g_tuple[u] = Org!Privileged(u)
    <3>1. g_tuple[u] = (u = Creator)
      BY DEF Org!Init
    <3>3. Org!Privileged(u) \in BOOLEAN
      BY DEF Org!Privileged
    <3>2. Org!Privileged(u) <=> u = Creator
      BY DEF Org!Init, Org!Privileged, Org!Active
    <3> QED BY <3>1, <3>2, <3>3
  <2> QED BY <2>1 DEF Org!TupleIsRole
<1>4. Org!GoneStopsCollecting
  BY DEF Org!Init, Org!GoneStopsCollecting
<1>5. Org!ReadIsTrue
  BY DEF Org!Init, Org!ReadIsTrue, Org!Free
<1> QED BY <1>1, <1>2, <1>3, <1>4, <1>5 DEF Org!OrgInv

LEMMA OrgStill ==
    ASSUME Org!OrgInv, UNCHANGED orgVars PROVE Org!OrgInv'
<1> USE DEF orgVars
<1>1. Org!TypeOK' /\ Org!HasOwner'
  BY DEF Org!OrgInv, Org!TypeOK, Org!HasOwner, Org!Owners, Org!Active
<1>2. Org!TupleIsRole' /\ Org!ReadIsTrue'
  BY DEF Org!OrgInv, Org!TupleIsRole, Org!ReadIsTrue, Org!Privileged, Org!Active
<1>3. Org!GoneStopsCollecting'
  BY DEF Org!OrgInv, Org!GoneStopsCollecting, Org!Active
<1> QED BY <1>1, <1>2, <1>3 DEF Org!OrgInv

-----------------------------------------------------------------------------
(* Conversations. *)

LEMMA MemoryNames ==
    /\ \A t \in Memory!Tasks :
        /\ Memory!Request(t) \in Memory!Messages /\ Memory!Response(t) \in Memory!Messages
        /\ Memory!Request(t) # Memory!Response(t)
        /\ \A u \in Memory!Tasks : u # t =>
            /\ Memory!Request(t) # Memory!Request(u) /\ Memory!Request(t) # Memory!Response(u)
            /\ Memory!Response(t) # Memory!Response(u)
    /\ Memory!Messages \subseteq Nat \ {0} /\ Memory!Messages \subseteq 0..(2 * N)
BY ServicesAssumption DEF Memory!Tasks, Memory!Messages, Memory!Request, Memory!Response

LEMMA MemoryFresh ==
    ASSUME Memory!TypeOK, Memory!RowsAreTrue
    PROVE  Memory!Fresh \in Memory!Rows /\ Memory!TrueCopy(Memory!Fresh)
<1>1. Memory!Fresh \in Memory!Rows
  BY ServicesAssumption DEF Memory!Fresh, Memory!Rows, Memory!Messages
<1>2. m_conv.version \in Nat
  BY DEF Memory!TypeOK, Memory!Rows
<1> QED BY <1>1, <1>2 DEF Memory!RowsAreTrue, Memory!TrueCopy, Memory!Shape, Memory!EmptyAtFirst,
             Memory!Refers, Memory!Gone, Memory!Fresh

LEMMA MemoryRow ==
    ASSUME Memory!TypeOK, Memory!RowsAreTrue, m_conv.there
    PROVE  Memory!TrueCopy(m_conv)
<1>1. m_conv.version \in Nat
  BY DEF Memory!TypeOK, Memory!Rows
<1> QED BY <1>1 DEF Memory!RowsAreTrue, Memory!TrueCopy

\* The rows that a request or a driver holds are rows.
LEMMA MemoryCopies ==
    ASSUME Memory!TypeOK
    PROVE  Memory!Copies \subseteq Memory!Rows
BY DEF Memory!TypeOK, Memory!Copies, Memory!Drivers

LEMMA MemoryHeld ==
    ASSUME NEW t \in Memory!Tasks, NEW x, m_task' = [m_task EXCEPT ![t] = x], m_owner' = m_owner,
           Memory!TypeOK, NEW row \in Memory!Copies'
    PROVE  row \in Memory!Copies \/ row = x.row
BY DEF Memory!TypeOK, Memory!Copies, Memory!Drivers

LEMMA MemoryTo ==
    ASSUME Memory!TypeOK, NEW t \in Memory!Tasks, NEW pc \in Memory!Stages, Memory!To(t, pc)
    PROVE  \E x \in Memory!Drivers :
              /\ m_task' = [m_task EXCEPT ![t] = x]
              /\ x.pc = pc /\ x.row = Memory!Fresh /\ x.owed = {}
<1> DEFINE g == m_task[t].good
           x == [Memory!Idle EXCEPT !.pc = pc, !.good = g]
<1>1. Memory!Fresh \in Memory!Rows
  BY ServicesAssumption DEF Memory!Fresh, Memory!Rows, Memory!Messages
<1>2. g \in BOOLEAN
  BY DEF Memory!TypeOK, Memory!Drivers
<1>3. Memory!Idle \in Memory!Drivers /\ Memory!Idle.row = Memory!Fresh /\ Memory!Idle.owed = {}
  BY <1>1 DEF Memory!Idle, Memory!Drivers, Memory!Stages
<1>4. m_task' = [m_task EXCEPT ![t] = x]
  BY DEF Memory!To
<1> HIDE DEF g
<1>5. x \in Memory!Drivers /\ x.pc = pc /\ x.row = Memory!Fresh /\ x.owed = {}
  BY <1>2, <1>3 DEF Memory!Drivers
<1> HIDE DEF x
<1> QED BY <1>4, <1>5

LEMMA MemoryHolding ==
    ASSUME Memory!TypeOK, NEW t \in Memory!Tasks, NEW pc \in Memory!Stages, NEW row \in Memory!Rows,
           Memory!Holding(t, pc, row)
    PROVE  \E x \in Memory!Drivers :
              /\ m_task' = [m_task EXCEPT ![t] = x]
              /\ x.pc = pc /\ x.row = row /\ x.owed = m_task[t].owed
<1> DEFINE x == [m_task[t] EXCEPT !.pc = pc, !.row = row]
<1>1. m_task[t] \in Memory!Drivers /\ m_task \in [Memory!Tasks -> Memory!Drivers]
  BY DEF Memory!TypeOK
<1>2. x \in Memory!Drivers /\ x.pc = pc /\ x.row = row /\ x.owed = m_task[t].owed
  BY <1>1 DEF Memory!Drivers
<1>3. m_task' = [m_task EXCEPT ![t] = x]
  BY <1>1 DEF Memory!Holding
<1> HIDE DEF x
<1> QED BY <1>2, <1>3

\* What a step of a task does to its driver.
LEMMA MemoryDrives ==
    ASSUME Memory!TypeOK, NEW t \in Memory!Tasks, Memory!TaskStep(t)
    PROVE  \E x \in Memory!Drivers :
              /\ m_task' = [m_task EXCEPT ![t] = x]
              /\ x.row = Memory!Fresh \/ x.row = m_task[t].row \/ (m_conv.there /\ m_conv' = m_conv /\ x.row = m_conv)
              /\ x.pc \in {"new", "insert"} => Memory!Uncome(t)
              /\ x.owed \subseteq m_task[t].owed \cup Memory!Completed
              /\ x.pc = "list" => /\ m_conv.there /\ x.row = m_conv
                                  /\ x.owed \subseteq Memory!Completed
                                  /\ UNCHANGED <<m_conv, m_msg, m_late, m_reverted>>
<1> DEFINE Quiet == Memory!Stages \ {"new", "insert", "list"}
<1>0. /\ {"load", "work", "sync", "touch", "save", "title", "reread", "retitle"} \subseteq Quiet
      /\ {"memory", "forget", "remember", "enqueue", "queue", "done"} \subseteq Quiet
  BY DEF Memory!Stages
<1>1. m_conv \in Memory!Rows /\ {"insert", "list"} \subseteq Memory!Stages
  BY DEF Memory!TypeOK, Memory!Stages
<1>a. \A pc \in Quiet : pc \in Memory!Stages /\ pc \notin {"new", "insert", "list"}
  OBVIOUS
<1> HIDE DEF Quiet
<1>2. CASE \E pc \in Quiet : Memory!To(t, pc)
  BY <1>2, <1>a, MemoryTo
<1>3. CASE \E pc \in Quiet : m_conv.there /\ m_conv' = m_conv /\ Memory!Holding(t, pc, m_conv)
  BY <1>1, <1>3, <1>a, MemoryHolding
<1>4. CASE Memory!ReadConversation(t)
  <2>1. m_conv.there /\ m_conv' = m_conv /\ Memory!Holding(t, "insert", m_conv) /\ Memory!Uncome(t)
    BY <1>4 DEF Memory!ReadConversation, Memory!rows, Memory!Uncome
  <2> QED BY <1>1, <2>1, MemoryHolding
<1>5. CASE Memory!LoadRow(t) /\ m_conv.there
  <2> DEFINE Owed == Memory!Completed \ {Memory!Request(t), Memory!Response(t)}
             x == [m_task[t] EXCEPT !.pc = "list", !.row = m_conv, !.owed = Owed]
  <2>1. m_task[t] \in Memory!Drivers /\ m_task \in [Memory!Tasks -> Memory!Drivers]
    BY DEF Memory!TypeOK
  <2>2. Owed \subseteq Memory!Completed /\ Owed \in SUBSET Memory!Messages
    BY DEF Memory!Completed
  <2>3. m_task' = [m_task EXCEPT ![t] = [m_task[t] EXCEPT !.pc = "list", !.row = m_conv, !.owed = Owed]]
        /\ UNCHANGED <<m_conv, m_msg, m_late, m_reverted>>
    BY <1>5, <2>1 DEF Memory!LoadRow, Memory!rows, Memory!history
  <2> HIDE DEF Owed
  <2>4. x \in Memory!Drivers /\ x.pc = "list" /\ x.row = m_conv /\ x.owed = Owed
    BY <1>1, <2>1, <2>2 DEF Memory!Drivers
  <2>5. m_task' = [m_task EXCEPT ![t] = x]
    BY <2>3
  <2> HIDE DEF x
  <2> QED BY <1>5, <2>2, <2>3, <2>4, <2>5
<1>6. CASE Memory!ListMemories(t)
  <2>1. CASE \E pc \in Quiet : Memory!To(t, pc)
    BY <1>2, <2>1
  <2>2. CASE m_task' = [m_task EXCEPT ![t].pc = IF m_memory.id = 0 THEN "remember" ELSE "forget",
                                      ![t].found = m_memory.id]
    <3> DEFINE pc == IF m_memory.id = 0 THEN "remember" ELSE "forget"
               x == [m_task[t] EXCEPT !.pc = pc, !.found = m_memory.id]
    <3>1. m_task[t] \in Memory!Drivers /\ m_task \in [Memory!Tasks -> Memory!Drivers] /\ m_memory.id \in Nat
      BY DEF Memory!TypeOK
    <3>2. pc \in Quiet
      BY <1>0
    <3>3. m_task' = [m_task EXCEPT ![t] = [m_task[t] EXCEPT !.pc = pc, !.found = m_memory.id]]
      BY <2>2, <3>1
    <3> HIDE DEF pc
    <3>4. x \in Memory!Drivers /\ x.pc = pc /\ x.row = m_task[t].row /\ x.owed = m_task[t].owed
      BY <1>a, <3>1, <3>2 DEF Memory!Drivers
    <3>5. m_task' = [m_task EXCEPT ![t] = x]
      BY <3>3
    <3> HIDE DEF x
    <3> QED BY <1>a, <3>2, <3>4, <3>5
  <2> QED BY <1>0, <1>6, <2>1, <2>2 DEF Memory!ListMemories
<1>7. CASE \/ Memory!CreateTask(t) \/ (Memory!LoadRow(t) /\ ~ m_conv.there) \/ Memory!ListRecent(t) \/ Memory!Finish(t)
           \/ Memory!SyncMessage(t) \/ Memory!GenerateTitle(t) \/ Memory!SaveTitle(t)
  <2>1. \/ Memory!To(t, "load") \/ Memory!To(t, "done") \/ Memory!To(t, "work") \/ Memory!To(t, "sync")
        \/ Memory!To(t, "title") \/ Memory!To(t, "touch") \/ Memory!To(t, "reread") \/ Memory!To(t, "memory")
    BY <1>7 DEF Memory!CreateTask, Memory!LoadRow, Memory!ListRecent, Memory!Finish, Memory!SyncMessage,
       Memory!GenerateTitle, Memory!SaveTitle
  <2> QED BY <1>0, <1>2, <2>1
<1>8. CASE \/ Memory!SaveTouched(t) \/ Memory!DeleteMemory(t) \/ Memory!CreateMemory(t) \/ Memory!CreateJob(t)
           \/ Memory!RunAgain(t) \/ Memory!DriverDies(t)
  <2>1. \/ Memory!To(t, IF m_conv.there /\ ~ Memory!Refers(m_task[t].row) THEN "sync" ELSE "title")
        \/ Memory!To(t, "remember") \/ Memory!To(t, "enqueue") \/ Memory!To(t, "done") \/ Memory!To(t, "sync")
    BY <1>8 DEF Memory!SaveTouched, Memory!DeleteMemory, Memory!CreateMemory, Memory!CreateJob,
       Memory!RunAgain, Memory!DriverDies
  <2>2. \/ Memory!To(t, "title") \/ Memory!To(t, "sync")
        \/ Memory!To(t, "remember") \/ Memory!To(t, "enqueue") \/ Memory!To(t, "done")
    BY <2>1
  <2> QED BY <1>0, <1>2, <2>2
<1>9. CASE Memory!Touch(t) \/ Memory!RereadTitle(t) \/ Memory!Enqueue(t)
  <2>1. m_conv' = m_conv
    BY <1>9 DEF Memory!Touch, Memory!RereadTitle, Memory!Enqueue, Memory!rows
  <2>2. \/ Memory!To(t, "title") \/ Memory!To(t, "memory") \/ Memory!To(t, "done")
        \/ m_conv.there /\ \/ Memory!Holding(t, "save", m_conv) \/ Memory!Holding(t, "retitle", m_conv)
                           \/ Memory!Holding(t, "queue", m_conv)
    BY <1>9 DEF Memory!Touch, Memory!RereadTitle, Memory!Enqueue, Memory!TitleIsDefault
  <2> QED BY <1>0, <1>2, <1>3, <2>1, <2>2
<1> QED BY <1>4, <1>5, <1>6, <1>7, <1>8, <1>9 DEF Memory!TaskStep

LEMMA MemoryTaskTypes ==
    ASSUME Memory!TypeOK, Memory!Asked, NEW t \in Memory!Tasks, Memory!TaskStep(t) PROVE Memory!TypeOK'
<1> DEFINE Statuses == {"none", "pending", "completed", "failed"}
           Kept == [id : Nat, name : Grants \cup {"none"}]
<1>0. /\ m_conv \in Memory!Rows /\ m_msg \in [Memory!Messages -> Statuses]
      /\ m_task \in [Memory!Tasks -> Memory!Drivers] /\ m_task[t].row \in Memory!Rows
      /\ DOMAIN m_job \subseteq Nat \X Memory!Messages /\ m_job \in [DOMAIN m_job -> Memory!Jobs]
      /\ m_memory \in Kept /\ (m_memory.id = 0 <=> m_memory.name = "none") /\ m_made \in Nat
      /\ m_says \in [Memory!Tasks -> Grants \cup {"none"}] /\ m_says[t] \in Grants \cup {"none"}
      /\ m_late \subseteq Memory!Messages /\ m_missed \subseteq Memory!Messages
      /\ m_told \subseteq Memory!Tasks /\ m_reverted \in BOOLEAN /\ m_spilled \in BOOLEAN
  BY DEF Memory!TypeOK, Memory!Drivers
<1>1. m_task' \in [Memory!Tasks -> Memory!Drivers]
  <2>1. PICK x \in Memory!Drivers : m_task' = [m_task EXCEPT ![t] = x]
    BY MemoryDrives
  <2> QED BY <2>1, <1>0
<1>2. m_sum' = m_sum /\ m_owner' = m_owner /\ m_says' = m_says /\ m_summing' = m_summing
  BY DEF Memory!TaskStep, Memory!config, Memory!ReadConversation, Memory!CreateTask, Memory!LoadRow, Memory!ListRecent, Memory!Finish,
     Memory!SyncMessage, Memory!Touch, Memory!SaveTouched, Memory!GenerateTitle, Memory!RereadTitle,
     Memory!SaveTitle, Memory!ListMemories, Memory!DeleteMemory, Memory!CreateMemory, Memory!Enqueue,
     Memory!CreateJob, Memory!RunAgain, Memory!DriverDies, Memory!vars
<1>3. /\ Memory!Request(t) \in Memory!Messages /\ Memory!Response(t) \in Memory!Messages
  BY MemoryNames
<1>4. \A row : row \in Memory!Rows => [row EXCEPT !.title = "made"] \in Memory!Rows
  BY DEF Memory!Rows
<1>5. m_conv' \in Memory!Rows /\ m_reverted' \in BOOLEAN
  <2>1. CASE Memory!CreateTask(t)
    BY <1>0, <2>1 DEF Memory!CreateTask
  <2>2. CASE Memory!SaveTouched(t)
    BY <1>0, <2>2 DEF Memory!SaveTouched, Memory!Save
  <2>3. CASE Memory!SaveTitle(t)
    BY <1>0, <1>4, <2>3 DEF Memory!SaveTitle, Memory!Save
  <2>4. CASE m_conv' = m_conv /\ m_reverted' = m_reverted
    BY <1>0, <2>4
  <2> QED
    BY <2>1, <2>2, <2>3, <2>4 DEF Memory!TaskStep, Memory!rows, Memory!history, Memory!ReadConversation, Memory!LoadRow, Memory!ListRecent, Memory!Finish,
     Memory!SyncMessage, Memory!Touch, Memory!GenerateTitle, Memory!RereadTitle,
     Memory!ListMemories, Memory!DeleteMemory, Memory!CreateMemory, Memory!Enqueue,
     Memory!CreateJob, Memory!RunAgain, Memory!DriverDies
<1>6. m_msg' \in [Memory!Messages -> Statuses] /\ m_late' \subseteq Memory!Messages
  <2>1. CASE Memory!CreateTask(t)
    BY <1>0, <1>3, <2>1 DEF Memory!CreateTask
  <2>2. CASE Memory!SyncMessage(t)
    BY <1>0, <1>3, <2>2 DEF Memory!SyncMessage
  <2>3. CASE m_msg' = m_msg /\ m_late' = m_late
    BY <1>0, <2>3
  <2> QED
    BY <2>1, <2>2, <2>3 DEF Memory!TaskStep, Memory!rows, Memory!history, Memory!ReadConversation, Memory!LoadRow, Memory!ListRecent, Memory!Finish,
     Memory!Touch, Memory!SaveTouched, Memory!SaveTitle, Memory!GenerateTitle, Memory!RereadTitle,
     Memory!ListMemories, Memory!DeleteMemory, Memory!CreateMemory, Memory!Enqueue,
     Memory!CreateJob, Memory!RunAgain, Memory!DriverDies
<1>7. /\ DOMAIN m_job' \subseteq Nat \X Memory!Messages /\ m_job' \in [DOMAIN m_job' -> Memory!Jobs]
  <2>1. CASE Memory!CreateJob(t)
    <3> DEFINE key == <<m_task[t].row.version, Memory!Response(t)>>
    <3>1. CASE m_job' = m_job
      BY <1>0, <3>1
    <3>2. CASE m_job' = [k \in DOMAIN m_job \cup {key} |->
                            IF k = key THEN Memory!Enqueued(m_task[t].row.until) ELSE m_job[k]]
      <4>1. key \in Nat \X Memory!Messages /\ m_task[t].row.until \in 0..(2 * N)
        BY <1>0, <1>3 DEF Memory!Rows
      <4>2. Memory!Enqueued(m_task[t].row.until) \in Memory!Jobs
        BY <4>1 DEF Memory!Enqueued, Memory!Jobs
      <4> HIDE DEF key
      <4> QED BY <1>0, <3>2, <4>1, <4>2
    <3> QED BY <2>1, <3>1, <3>2 DEF Memory!CreateJob
  <2>2. CASE m_job' = m_job
    BY <1>0, <2>2
  <2> QED
    BY <2>1, <2>2 DEF Memory!TaskStep, Memory!rows, Memory!ReadConversation, Memory!CreateTask, Memory!LoadRow, Memory!ListRecent, Memory!Finish,
     Memory!SyncMessage, Memory!Touch, Memory!SaveTouched, Memory!SaveTitle, Memory!GenerateTitle, Memory!RereadTitle,
     Memory!ListMemories, Memory!DeleteMemory, Memory!CreateMemory, Memory!Enqueue,
     Memory!RunAgain, Memory!DriverDies
<1>8. m_memory' \in Kept /\ (m_memory'.id = 0 <=> m_memory'.name = "none") /\ m_made' \in Nat
      /\ m_told' \subseteq Memory!Tasks
  <2>1. CASE Memory!DeleteMemory(t)
    BY <1>0, <2>1 DEF Memory!DeleteMemory, Memory!Nothing, Memory!history
  <2>2. CASE Memory!CreateMemory(t)
    <3>1. CASE m_conv.there /\ m_memory.id = 0
      <4>1. m_says[t] # "none"
        BY <2>2 DEF Memory!CreateMemory, Memory!Asked, Memory!At
      <4> QED BY <1>0, <2>2, <3>1, <4>1 DEF Memory!CreateMemory, Memory!Stored
    <3>2. CASE ~ (m_conv.there /\ m_memory.id = 0)
      BY <1>0, <2>2, <3>2 DEF Memory!CreateMemory, Memory!Stored
    <3> QED BY <3>1, <3>2
  <2>3. CASE m_memory' = m_memory /\ m_made' = m_made /\ m_told' \subseteq Memory!Tasks
    BY <1>0, <2>3
  <2> QED
    BY <1>0, <2>1, <2>2, <2>3 DEF Memory!TaskStep, Memory!rows, Memory!history, Memory!ReadConversation, Memory!CreateTask, Memory!LoadRow, Memory!ListRecent, Memory!Finish,
     Memory!SyncMessage, Memory!Touch, Memory!SaveTouched, Memory!SaveTitle, Memory!GenerateTitle, Memory!RereadTitle,
     Memory!ListMemories, Memory!Enqueue, Memory!CreateJob, Memory!RunAgain, Memory!DriverDies
<1>9. m_missed' \subseteq Memory!Messages
  <2>1. CASE Memory!ListRecent(t)
    <3>1. m_task[t].owed \subseteq Memory!Messages
      BY <1>0 DEF Memory!Drivers
    <3> QED BY <1>0, <2>1, <3>1 DEF Memory!ListRecent
  <2>2. CASE m_missed' = m_missed
    BY <1>0, <2>2
  <2> QED
    BY <2>1, <2>2 DEF Memory!TaskStep, Memory!history, Memory!ReadConversation, Memory!CreateTask, Memory!LoadRow, Memory!Finish,
     Memory!SyncMessage, Memory!Touch, Memory!SaveTouched, Memory!SaveTitle, Memory!GenerateTitle, Memory!RereadTitle,
     Memory!ListMemories, Memory!DeleteMemory, Memory!CreateMemory, Memory!Enqueue, Memory!CreateJob, Memory!RunAgain, Memory!DriverDies
<1>10. m_spilled' \in BOOLEAN
  BY <1>0 DEF Memory!TaskStep, Memory!history, Memory!ReadConversation, Memory!CreateTask, Memory!LoadRow, Memory!ListRecent, Memory!Finish,
     Memory!SyncMessage, Memory!Touch, Memory!SaveTouched, Memory!GenerateTitle, Memory!RereadTitle,
     Memory!SaveTitle, Memory!ListMemories, Memory!DeleteMemory, Memory!CreateMemory, Memory!Enqueue,
     Memory!CreateJob, Memory!RunAgain, Memory!DriverDies
<1> QED BY <1>1, <1>2, <1>5, <1>6, <1>7, <1>8, <1>9, <1>10 DEF Memory!TypeOK

LEMMA MemoryAsks ==
    ASSUME Memory!TypeOK, Memory!Asked, NEW t \in Memory!Tasks, Memory!TaskStep(t) PROVE Memory!Asked'
<1>1. m_says' = m_says
  BY DEF Memory!TaskStep, Memory!config, Memory!ReadConversation, Memory!CreateTask, Memory!LoadRow, Memory!ListRecent, Memory!Finish,
     Memory!SyncMessage, Memory!Touch, Memory!SaveTouched, Memory!GenerateTitle, Memory!RereadTitle,
     Memory!SaveTitle, Memory!ListMemories, Memory!DeleteMemory, Memory!CreateMemory, Memory!Enqueue,
     Memory!CreateJob, Memory!RunAgain, Memory!DriverDies, Memory!vars
<1>2. PICK x \in Memory!Drivers : m_task' = [m_task EXCEPT ![t] = x]
  BY MemoryDrives
<1>3. m_task \in [Memory!Tasks -> Memory!Drivers]
  BY DEF Memory!TypeOK
<1>4. x = m_task'[t]
  BY <1>2, <1>3
<1>5. \A pc \in Memory!Stages : Memory!To(t, pc) => x.pc = pc
  <2>1. SUFFICES ASSUME NEW pc \in Memory!Stages, Memory!To(t, pc) PROVE m_task'[t].pc = pc
    BY <1>4
  <2>2. PICK y \in Memory!Drivers : m_task' = [m_task EXCEPT ![t] = y] /\ y.pc = pc
    BY <2>1, MemoryTo
  <2> QED BY <1>3, <2>2
<1>6. \A pc \in Memory!Stages, row \in Memory!Rows : Memory!Holding(t, pc, row) => x.pc = pc
  <2>1. SUFFICES ASSUME NEW pc \in Memory!Stages, NEW row \in Memory!Rows, Memory!Holding(t, pc, row) PROVE m_task'[t].pc = pc
    BY <1>4
  <2>2. PICK y \in Memory!Drivers : m_task' = [m_task EXCEPT ![t] = y] /\ y.pc = pc
    BY <2>1, MemoryHolding
  <2> QED BY <1>3, <2>2
<1>7. m_conv \in Memory!Rows
  BY DEF Memory!TypeOK
<1>0. {"load", "work", "sync", "touch", "save", "title", "reread", "retitle", "insert", "memory", "enqueue", "queue", "done"}
      \subseteq Memory!Stages
  BY DEF Memory!Stages
<1>8. x.pc \in {"forget", "remember"} => Memory!ListMemories(t) \/ Memory!DeleteMemory(t)
  <2>1. CASE Memory!ReadConversation(t) \/ Memory!Touch(t) \/ Memory!RereadTitle(t) \/ Memory!Enqueue(t)
    BY <1>0, <1>5, <1>6, <1>7, <2>1 DEF Memory!ReadConversation, Memory!Touch, Memory!RereadTitle, Memory!Enqueue
  <2>2. CASE Memory!LoadRow(t)
    <3>1. CASE m_conv.there
      BY <1>3, <1>4, <2>2, <3>1 DEF Memory!LoadRow, Memory!Drivers
    <3>2. CASE ~ m_conv.there
      BY <1>0, <1>5, <2>2, <3>2 DEF Memory!LoadRow
    <3> QED BY <3>1, <3>2
  <2>3. CASE \/ Memory!CreateTask(t) \/ Memory!ListRecent(t) \/ Memory!Finish(t)
           \/ Memory!SyncMessage(t) \/ Memory!GenerateTitle(t) \/ Memory!SaveTitle(t)
    BY <1>0, <1>5, <2>3 DEF Memory!CreateTask, Memory!ListRecent, Memory!Finish, Memory!SyncMessage,
       Memory!GenerateTitle, Memory!SaveTitle
  <2>4. CASE \/ Memory!SaveTouched(t) \/ Memory!CreateMemory(t) \/ Memory!CreateJob(t)
             \/ Memory!RunAgain(t) \/ Memory!DriverDies(t)
    <3>1. Memory!To(t, "title") \/ Memory!To(t, "enqueue") \/ Memory!To(t, "done") \/ Memory!To(t, "sync")
      BY <2>4 DEF Memory!SaveTouched, Memory!CreateMemory, Memory!CreateJob, Memory!RunAgain, Memory!DriverDies
    <3> QED BY <1>0, <1>5, <3>1
  <2> QED BY <2>1, <2>2, <2>3, <2>4 DEF Memory!TaskStep
<1>9. x.pc \in {"forget", "remember"} => m_says[t] # "none"
  <2>1. CASE Memory!DeleteMemory(t)
    BY <2>1 DEF Memory!DeleteMemory, Memory!Asked, Memory!At
  <2>2. CASE Memory!ListMemories(t)
    BY <1>0, <1>5, <2>2 DEF Memory!ListMemories
  <2> QED BY <1>8, <2>1, <2>2
<1>10. ASSUME NEW u \in Memory!Tasks, m_task'[u].pc \in {"forget", "remember"} PROVE m_says'[u] # "none"
  <2>1. CASE u = t
    BY <1>1, <1>4, <1>9, <1>10, <2>1
  <2>2. CASE u # t
    BY <1>1, <1>2, <1>3, <1>10, <2>2 DEF Memory!Asked
  <2> QED BY <2>1, <2>2
<1> QED BY <1>10 DEF Memory!Asked

\* What is true of the rows, the workers and the contexts stays true of a step that neither
\* deletes the conversation nor gives it a summary.
LEMMA MemorySteady ==
    ASSUME Memory!MemoryInv, Memory!TypeOK',
           NEW t \in Memory!Tasks, NEW x \in Memory!Drivers,
           m_task' = [m_task EXCEPT ![t] = x] \/ m_task' = m_task,
           x.pc \in {"new", "insert"} => Memory!Uncome(t),
           x.owed \subseteq m_task[t].owed \cup Memory!Completed,
           x.pc = "list" => /\ m_conv.there /\ x.row = m_conv
                            /\ x.owed \subseteq Memory!Completed
                            /\ UNCHANGED <<m_conv, m_msg, m_late, m_reverted>>,
           \A row \in Memory!Copies' : row \in Memory!Copies \/ row = Memory!Fresh
                                       \/ (m_conv.there /\ m_conv' = m_conv /\ row = m_conv),
           ~ m_conv.there => m_conv' = m_conv, m_conv'.there = m_conv.there,
           Memory!Refers(m_conv)', Memory!Shape(m_conv'), Memory!EmptyAtFirst(m_conv'),
           m_conv'.until = m_conv.until \/ \E row \in Memory!Copies : m_conv'.until = row.until,
           ~ m_reverted' => /\ ~ m_reverted /\ m_conv'.version = m_conv.version
                            /\ m_conv'.until = m_conv.until /\ m_conv'.covers = m_conv.covers,
           \A m \in Memory!Messages : m_msg'[m] = "none" <=> m_msg[m] = "none",
           \A m \in Memory!Completed' : m \in Memory!Completed \/ (m \in Memory!PassedOver => m \in m_late'),
           m_late \subseteq m_late', m_sum' = m_sum
    PROVE  Memory!NotYet' /\ Memory!RowsAreTrue' /\ Memory!WorkersAreTrue' /\ Memory!ContextsAreTrue'
           /\ Memory!SummaryAccounts'
<1>0. /\ Memory!TypeOK /\ Memory!NotYet /\ Memory!RowsAreTrue /\ Memory!WorkersAreTrue
      /\ Memory!ContextsAreTrue /\ Memory!SummaryAccounts /\ Memory!DeletedIsEmpty
  BY DEF Memory!MemoryInv
<1>1. /\ m_task \in [Memory!Tasks -> Memory!Drivers]
      /\ m_conv \in Memory!Rows /\ m_conv' \in Memory!Rows
      /\ m_conv.until \in 0..(2 * N) /\ m_conv'.until \in 0..(2 * N)
  BY <1>0 DEF Memory!TypeOK, Memory!Rows
<1>2. \A u \in Memory!Tasks : m_task'[u] = m_task[u] \/ (u = t /\ m_task'[u] = x)
  BY <1>1
<1>3. \A m \in 0..(2 * N) : Memory!Gone(m)' <=> Memory!Gone(m)
  BY ServicesAssumption DEF Memory!Gone, Memory!Messages
<1>4. Memory!Copies \subseteq Memory!Rows /\ Memory!Fresh \in Memory!Rows
  BY <1>0, MemoryCopies, MemoryFresh
<1>5. \A row \in Memory!Copies' : Memory!TrueCopy(row)
  BY <1>0, MemoryFresh, MemoryRow DEF Memory!RowsAreTrue
<1>6. \A row \in Memory!Copies' : row \in Memory!Rows /\ row.until \in 0..(2 * N)
  BY <1>1, <1>4 DEF Memory!Rows
<1>7. Memory!RowsAreTrue'
  <2>1. ASSUME NEW row \in Memory!Copies' PROVE Memory!TrueCopy(row)'
    <3>1. Memory!Refers(row)' => Memory!Refers(row)
      BY <1>3, <1>6 DEF Memory!Refers
    <3>2. Memory!TrueCopy(row)
      BY <1>5
    <3> QED BY <3>1, <3>2 DEF Memory!TrueCopy, Memory!Shape, Memory!EmptyAtFirst
  <2>2. Memory!Shape(m_conv)' /\ Memory!EmptyAtFirst(m_conv)'
    BY DEF Memory!Shape, Memory!EmptyAtFirst
  <2> QED BY <2>1, <2>2 DEF Memory!RowsAreTrue
<1>8. Memory!NotYet'
  <2>1. SUFFICES ASSUME NEW u \in Memory!Tasks, Memory!Uncome(u)',
                        NEW m \in {Memory!Request(u), Memory!Response(u)}
                 PROVE  /\ m_msg'[m] = "none" /\ m_conv'.until # m
                        /\ \A row \in Memory!Copies' : row.until # m
                        /\ \A s \in Workers : m_sum'[s].key[2] # m
                        /\ \A z \in Memory!Tasks : m \notin m_task'[z].owed
    BY DEF Memory!NotYet, Memory!Request, Memory!Response
  <2>2. Memory!Uncome(u)
    BY <1>2, <2>1 DEF Memory!Uncome, Memory!At
  <2>3. m \in Memory!Messages /\ m # 0
    BY <2>1, MemoryNames
  <2>4. /\ m_msg[m] = "none" /\ m_conv.until # m
        /\ \A row \in Memory!Copies : row.until # m
        /\ \A s \in Workers : m_sum[s].key[2] # m
        /\ \A z \in Memory!Tasks : m \notin m_task[z].owed
    BY <1>0, <2>1, <2>2 DEF Memory!NotYet
  <2>5. m \notin Memory!Completed
    BY <2>4 DEF Memory!Completed
  <2>6. \A z \in Memory!Tasks : m \notin m_task'[z].owed
    BY <1>2, <2>4, <2>5
  <2>7. \A row \in Memory!Copies' : row.until # m
    BY <2>3, <2>4 DEF Memory!Fresh
  <2> QED BY <2>3, <2>4, <2>6, <2>7
<1>9. Memory!SummaryAccounts'
  <2>1. SUFFICES ASSUME m_conv'.there, ~ m_reverted', NEW m \in Memory!Completed', m <= m_conv'.until
                 PROVE  m \in m_conv'.covers \cup m_late'
    BY DEF Memory!SummaryAccounts
  <2>2. m_conv'.until = m_conv.until /\ m_conv'.covers = m_conv.covers /\ ~ m_reverted /\ m_conv.there
    BY <2>1
  <2>3. CASE m \in Memory!Completed
    BY <1>0, <2>1, <2>2, <2>3 DEF Memory!SummaryAccounts
  <2>4. CASE m \notin Memory!Completed
    <3>1. m \in Memory!Messages
      BY <2>1 DEF Memory!Completed
    <3>2. m \in Memory!PassedOver
      BY <2>1, <2>2, <3>1 DEF Memory!PassedOver
    <3> QED BY <2>1, <2>4, <3>2
  <2> QED BY <2>3, <2>4
<1>10. Memory!WorkersAreTrue'
  <2>1. SUFFICES ASSUME NEW s \in Workers
                 PROVE  /\ m_sum'[s].pc # "idle" => m_sum'[s].key[2] # 0
                        /\ m_sum'[s].pc # "idle" /\ ~ Memory!Gone(m_sum[s].key[2])' /\ ~ m_reverted' =>
                            /\ m_sum'[s].key[1] <= m_conv'.version
                            /\ m_sum'[s].pc = "list" /\ m_sum'[s].key[1] = m_conv'.version => m_sum'[s].base = m_conv'.covers
                            /\ m_sum'[s].pc = "save" /\ m_sum'[s].key[1] = m_conv'.version => Memory!Accounts(s)'
    BY DEF Memory!WorkersAreTrue
  <2>2. m_sum[s].key[2] \in 0..(2 * N)
    BY <1>0 DEF Memory!TypeOK, Memory!Runs
  <2>3. Memory!Gone(m_sum[s].key[2])' <=> Memory!Gone(m_sum[s].key[2])
    BY <2>2, ServicesAssumption DEF Memory!Gone, Memory!Messages
  <2>4. ASSUME m_sum[s].pc = "save", Memory!Accounts(s) PROVE Memory!Accounts(s)'
    <3>1. SUFFICES ASSUME NEW m \in Memory!Completed', m <= m_sum[s].key[2]
                   PROVE  m \in m_sum[s].base \cup m_sum[s].got \cup m_late'
      BY DEF Memory!Accounts
    <3>2. CASE m \in Memory!Completed
      BY <2>4, <3>1, <3>2 DEF Memory!Accounts
    <3>3. CASE m \notin Memory!Completed
      <4>1. m \in Memory!Messages
        BY <3>1 DEF Memory!Completed
      <4>2. m \in Memory!PassedOver
        BY <2>4, <3>1, <4>1 DEF Memory!PassedOver
      <4> QED BY <3>1, <3>3, <4>2
    <3> QED BY <3>2, <3>3
  <2> QED BY <1>0, <2>3, <2>4 DEF Memory!WorkersAreTrue
<1>11. Memory!ContextsAreTrue'
  <2>1. SUFFICES ASSUME NEW u \in Memory!Tasks, m_task'[u].pc = "list"
                 PROVE  /\ Memory!Gone(m_task[u].row.until)' => \A m \in m_task'[u].owed : m_msg'[m] = "none"
                        /\ ~ m_reverted' =>
                             \A m \in m_task'[u].owed : m <= m_task'[u].row.until => m \in m_task'[u].row.covers \cup m_late'
    BY DEF Memory!ContextsAreTrue, Memory!At
  <2>2. CASE m_task'[u] = m_task[u]
    <3>1. m_task[u].row.until \in 0..(2 * N) /\ m_task[u].owed \subseteq Memory!Messages
      BY <1>1 DEF Memory!Drivers, Memory!Rows
    <3>2. Memory!Gone(m_task[u].row.until)' <=> Memory!Gone(m_task[u].row.until)
      BY <2>2, <3>1, ServicesAssumption DEF Memory!Gone, Memory!Messages
    <3> QED BY <1>0, <2>1, <2>2, <3>1, <3>2 DEF Memory!ContextsAreTrue, Memory!At
  <2>3. CASE u = t /\ m_task'[u] = x
    <3>1. /\ m_conv.there /\ x.row = m_conv /\ x.owed \subseteq Memory!Completed
          /\ UNCHANGED <<m_conv, m_msg, m_late, m_reverted>>
      BY <2>1, <2>3
    <3>2. ~ Memory!Gone(m_task[u].row.until)'
      BY <2>3, <3>1 DEF Memory!Refers, Memory!Gone
    <3>3. ASSUME ~ m_reverted', NEW m \in x.owed, m <= m_conv.until PROVE m \in m_conv.covers \cup m_late
      BY <1>0, <3>1, <3>3 DEF Memory!SummaryAccounts
    <3> QED BY <2>3, <3>1, <3>2, <3>3
  <2> QED BY <1>2, <2>2, <2>3
<1> QED BY <1>7, <1>8, <1>9, <1>10, <1>11

\* Writing a row back either leaves the boundary and the summary, or is told apart.
LEMMA MemorySaves ==
    ASSUME Memory!MemoryInv, NEW c \in Memory!Copies, NEW row \in Memory!Rows, Memory!Save(row),
           row.there = c.there, row.until = c.until, row.version = c.version, row.covers = c.covers,
           m_msg' = m_msg
    PROVE  /\ ~ m_conv.there => m_conv' = m_conv
           /\ m_conv'.there = m_conv.there
           /\ Memory!Refers(m_conv)' /\ Memory!Shape(m_conv') /\ Memory!EmptyAtFirst(m_conv')
           /\ m_conv'.until = m_conv.until \/ \E r \in Memory!Copies : m_conv'.until = r.until
           /\ ~ m_reverted' => /\ ~ m_reverted /\ m_conv'.version = m_conv.version
                               /\ m_conv'.until = m_conv.until /\ m_conv'.covers = m_conv.covers
<1>0. /\ Memory!TrueCopy(c) /\ Memory!Refers(m_conv) /\ Memory!Shape(m_conv) /\ Memory!EmptyAtFirst(m_conv)
  BY DEF Memory!MemoryInv, Memory!RowsAreTrue
<1>1. CASE m_conv.there /\ Memory!Refers(row)
  <2>1. m_conv' = row /\ m_reverted' = (m_reverted \/ row.version # m_conv.version)
    BY <1>1 DEF Memory!Save
  <2>2. Memory!Refers(c)
    BY <1>1 DEF Memory!Refers
  <2>3. Memory!Refers(m_conv)'
    BY <1>1, <2>1 DEF Memory!Refers, Memory!Gone
  <2>4. Memory!Shape(m_conv') /\ Memory!EmptyAtFirst(m_conv') /\ m_conv'.there = m_conv.there
    BY <1>0, <1>1, <2>1 DEF Memory!TrueCopy, Memory!Shape, Memory!EmptyAtFirst
  <2> QED BY <1>0, <1>1, <2>1, <2>2, <2>3, <2>4 DEF Memory!TrueCopy
<1>2. CASE ~ (m_conv.there /\ Memory!Refers(row))
  <2>1. m_conv' = m_conv /\ (m_reverted' <=> m_reverted)
    BY <1>2 DEF Memory!Save
  <2>2. Memory!Refers(m_conv)'
    BY <1>0, <2>1 DEF Memory!Refers, Memory!Gone
  <2>3. Memory!Shape(m_conv') /\ Memory!EmptyAtFirst(m_conv')
    BY <1>0, <2>1
  <2> QED BY <2>1, <2>2, <2>3
<1> QED BY <1>1, <1>2

LEMMA MemoryTaskSteady ==
    ASSUME Memory!MemoryInv, NEW t \in Memory!Tasks, Memory!TaskStep(t), ~ Memory!CreateTask(t)
    PROVE  Memory!NotYet' /\ Memory!RowsAreTrue' /\ Memory!WorkersAreTrue' /\ Memory!ContextsAreTrue'
           /\ Memory!SummaryAccounts'
<1>0. /\ Memory!TypeOK /\ Memory!Asked /\ Memory!RowsAreTrue /\ Memory!TypeOK'
  BY MemoryTaskTypes DEF Memory!MemoryInv
<1>1. PICK x \in Memory!Drivers :
              /\ m_task' = [m_task EXCEPT ![t] = x]
              /\ x.row = Memory!Fresh \/ x.row = m_task[t].row \/ (m_conv.there /\ m_conv' = m_conv /\ x.row = m_conv)
              /\ x.pc \in {"new", "insert"} => Memory!Uncome(t)
              /\ x.owed \subseteq m_task[t].owed \cup Memory!Completed
              /\ x.pc = "list" => /\ m_conv.there /\ x.row = m_conv
                                  /\ x.owed \subseteq Memory!Completed
                                  /\ UNCHANGED <<m_conv, m_msg, m_late, m_reverted>>
  BY <1>0, MemoryDrives
<1>2. m_sum' = m_sum /\ m_owner' = m_owner
  BY DEF Memory!TaskStep, Memory!ReadConversation, Memory!CreateTask, Memory!LoadRow, Memory!ListRecent, Memory!Finish,
     Memory!SyncMessage, Memory!Touch, Memory!SaveTouched, Memory!GenerateTitle, Memory!RereadTitle,
     Memory!SaveTitle, Memory!ListMemories, Memory!DeleteMemory, Memory!CreateMemory, Memory!Enqueue,
     Memory!CreateJob, Memory!RunAgain, Memory!DriverDies, Memory!vars
<1>3. m_task[t].row \in Memory!Copies /\ m_task[t].row \in Memory!Rows
  BY <1>0 DEF Memory!Copies, Memory!TypeOK, Memory!Drivers
<1>4. \A row \in Memory!Copies' : row \in Memory!Copies \/ row = Memory!Fresh
                                       \/ (m_conv.there /\ m_conv' = m_conv /\ row = m_conv)
  BY <1>0, <1>1, <1>2, <1>3, MemoryHeld
<1>5. Memory!Refers(m_conv) /\ Memory!Shape(m_conv) /\ Memory!EmptyAtFirst(m_conv)
  BY <1>0 DEF Memory!RowsAreTrue
<1> DEFINE Kept ==
        /\ ~ m_conv.there => m_conv' = m_conv
        /\ m_conv'.there = m_conv.there
        /\ Memory!Refers(m_conv)' /\ Memory!Shape(m_conv') /\ Memory!EmptyAtFirst(m_conv')
        /\ m_conv'.until = m_conv.until \/ \E r \in Memory!Copies : m_conv'.until = r.until
        /\ ~ m_reverted' => /\ ~ m_reverted /\ m_conv'.version = m_conv.version
                            /\ m_conv'.until = m_conv.until /\ m_conv'.covers = m_conv.covers
        /\ \A m \in Memory!Messages : m_msg'[m] = "none" <=> m_msg[m] = "none"
        /\ \A m \in Memory!Completed' : m \in Memory!Completed \/ (m \in Memory!PassedOver => m \in m_late')
        /\ m_late \subseteq m_late'
<1>6. ASSUME UNCHANGED <<m_conv, m_msg, m_late, m_reverted>> PROVE Kept
  <2>1. Memory!Refers(m_conv)'
    BY <1>5, <1>6 DEF Memory!Refers, Memory!Gone
  <2>2. Memory!Completed' = Memory!Completed
    BY <1>6 DEF Memory!Completed
  <2> QED BY <1>5, <1>6, <2>1, <2>2
<1>7. ASSUME Memory!SyncMessage(t) PROVE Kept
  <2>1. CASE UNCHANGED <<m_conv, m_msg, m_late, m_reverted>>
    BY <1>6, <2>1
  <2>2. CASE ~ UNCHANGED <<m_conv, m_msg, m_late, m_reverted>>
    <3> DEFINE status == IF m_task[t].good THEN "completed" ELSE "failed"
    <3>1. m_conv' = m_conv /\ m_reverted' = m_reverted
      BY <1>7 DEF Memory!SyncMessage
    <3>2. /\ m_msg[Memory!Response(t)] # "none"
          /\ m_msg' = [m_msg EXCEPT ![Memory!Response(t)] = status]
          /\ m_late' = IF m_task[t].good THEN m_late \cup ({Memory!Response(t)} \cap Memory!PassedOver) ELSE m_late
      BY <1>7, <2>2 DEF Memory!SyncMessage
    <3>3. m_msg \in [Memory!Messages -> {"none", "pending", "completed", "failed"}]
      BY <1>0 DEF Memory!TypeOK
    <3>4. \A m \in Memory!Messages : m_msg'[m] = "none" <=> m_msg[m] = "none"
      BY <3>2, <3>3
    <3>5. \A m \in Memory!Completed' : m \in Memory!Completed \/ (m = Memory!Response(t) /\ m_task[t].good)
      BY <3>2, <3>3 DEF Memory!Completed
    <3>6. Memory!Refers(m_conv)'
      <4>1. m_conv.until \in 0..(2 * N)
        BY <1>0 DEF Memory!TypeOK, Memory!Rows
      <4> QED BY <1>5, <3>1, <3>4, <4>1, ServicesAssumption DEF Memory!Refers, Memory!Gone, Memory!Messages
    <3> HIDE DEF status
    <3> QED BY <1>5, <3>1, <3>2, <3>4, <3>5, <3>6
  <2> QED BY <2>1, <2>2
<1>8. ASSUME Memory!SaveTouched(t) \/ Memory!SaveTitle(t) PROVE Kept
  <2>1. m_msg' = m_msg /\ m_late' = m_late
    BY <1>8 DEF Memory!SaveTouched, Memory!SaveTitle
  <2>2. Memory!Completed' = Memory!Completed
    BY <2>1 DEF Memory!Completed
  <2>3. PICK row \in Memory!Rows : /\ Memory!Save(row)
                                   /\ row.there = m_task[t].row.there /\ row.until = m_task[t].row.until
                                   /\ row.version = m_task[t].row.version /\ row.covers = m_task[t].row.covers
    <3>1. CASE Memory!SaveTouched(t)
      BY <1>3, <3>1 DEF Memory!SaveTouched
    <3>2. CASE Memory!SaveTitle(t)
      <4> DEFINE r == m_task[t].row
      <4>1. r \in Memory!Rows
        BY <1>3
      <4>2. Memory!Save([r EXCEPT !.title = "made"])
        BY <3>2 DEF Memory!SaveTitle
      <4> HIDE DEF r
      <4>3. /\ [r EXCEPT !.title = "made"] \in Memory!Rows
            /\ [r EXCEPT !.title = "made"].there = r.there /\ [r EXCEPT !.title = "made"].until = r.until
            /\ [r EXCEPT !.title = "made"].version = r.version /\ [r EXCEPT !.title = "made"].covers = r.covers
        BY <4>1 DEF Memory!Rows
      <4>4. \E row \in Memory!Rows : /\ Memory!Save(row) /\ row.there = r.there /\ row.until = r.until
                                     /\ row.version = r.version /\ row.covers = r.covers
        BY <4>2, <4>3
      <4> QED BY <4>4 DEF r
    <3> QED BY <1>8, <3>1, <3>2
  <2> QED BY <1>3, <2>1, <2>2, <2>3, MemorySaves
<1>9. Kept
  <2>1. \/ Memory!SyncMessage(t) \/ Memory!SaveTouched(t) \/ Memory!SaveTitle(t)
        \/ UNCHANGED <<m_conv, m_msg, m_late, m_reverted>>
    BY DEF Memory!TaskStep, Memory!rows, Memory!history, Memory!ReadConversation, Memory!LoadRow, Memory!ListRecent, Memory!Finish,
     Memory!Touch, Memory!GenerateTitle, Memory!RereadTitle,
     Memory!ListMemories, Memory!DeleteMemory, Memory!CreateMemory, Memory!Enqueue,
     Memory!CreateJob, Memory!RunAgain, Memory!DriverDies
  <2> QED BY <1>6, <1>7, <1>8, <2>1
<1> QED BY <1>0, <1>1, <1>2, <1>4, <1>9, MemorySteady

LEMMA MemoryTaskRest ==
    ASSUME Memory!MemoryInv, NEW t \in Memory!Tasks, Memory!TaskStep(t), ~ Memory!CreateTask(t)
    PROVE  Memory!JobsAreTrue' /\ Memory!DeletedIsEmpty' /\ Memory!ContextWhole'
<1>0. /\ Memory!TypeOK /\ Memory!RowsAreTrue /\ Memory!JobsAreTrue /\ Memory!DeletedIsEmpty
      /\ Memory!ContextWhole /\ Memory!ContextsAreTrue
  BY DEF Memory!MemoryInv
<1>1. m_task[t].row \in Memory!Copies /\ m_task[t].row \in Memory!Rows /\ m_conv \in Memory!Rows
      /\ m_task[t].owed \subseteq Memory!Messages
  BY <1>0 DEF Memory!Copies, Memory!TypeOK, Memory!Drivers
<1>2. /\ ~ m_conv.there => m_conv' = m_conv
      /\ m_conv'.there = m_conv.there
      /\ ~ m_reverted' => /\ ~ m_reverted /\ m_conv'.version = m_conv.version
                          /\ m_conv'.until = m_conv.until
  <2>1. CASE Memory!SaveTouched(t)
    <3>1. Memory!Save(m_task[t].row)
      BY <2>1 DEF Memory!SaveTouched
    <3>2. Memory!TrueCopy(m_task[t].row)
      BY <1>0, <1>1 DEF Memory!RowsAreTrue
    <3> QED BY <3>1, <3>2 DEF Memory!Save, Memory!TrueCopy
  <2>2. CASE Memory!SaveTitle(t)
    <3> DEFINE r == m_task[t].row
               w == [r EXCEPT !.title = "made"]
    <3>1. Memory!Save(w)
      BY <2>2 DEF Memory!SaveTitle
    <3>2. Memory!TrueCopy(r) /\ r \in Memory!Rows
      BY <1>0, <1>1 DEF Memory!RowsAreTrue
    <3> HIDE DEF r
    <3>3. w.there = r.there /\ w.until = r.until /\ w.version = r.version
      BY <3>2 DEF Memory!Rows
    <3> HIDE DEF w
    <3> QED BY <3>1, <3>2, <3>3 DEF Memory!Save, Memory!TrueCopy, Memory!Refers
  <2>3. CASE m_conv' = m_conv /\ m_reverted' = m_reverted
    BY <2>3
  <2> QED BY <2>1, <2>2, <2>3 DEF Memory!TaskStep, Memory!rows, Memory!history, Memory!ReadConversation, Memory!LoadRow, Memory!ListRecent, Memory!Finish,
     Memory!SyncMessage, Memory!Touch, Memory!GenerateTitle, Memory!RereadTitle,
     Memory!ListMemories, Memory!DeleteMemory, Memory!CreateMemory, Memory!Enqueue,
     Memory!CreateJob, Memory!RunAgain, Memory!DriverDies
<1>3. /\ m_msg' \in [Memory!Messages -> {"none", "pending", "completed", "failed"}]
      /\ \A m \in Memory!Messages : m_msg'[m] = "none" <=> m_msg[m] = "none"
  <2>1. m_msg \in [Memory!Messages -> {"none", "pending", "completed", "failed"}]
    BY <1>0 DEF Memory!TypeOK
  <2>2. CASE Memory!SyncMessage(t)
    <3>1. CASE m_msg' = m_msg
      BY <2>1, <3>1
    <3>2. CASE m_msg' # m_msg
      BY <2>1, <2>2, <3>2 DEF Memory!SyncMessage
    <3> QED BY <3>1, <3>2
  <2>3. CASE m_msg' = m_msg
    BY <2>1, <2>3
  <2> QED BY <2>2, <2>3 DEF Memory!TaskStep, Memory!rows, Memory!ReadConversation, Memory!LoadRow, Memory!ListRecent, Memory!Finish,
     Memory!Touch, Memory!SaveTouched, Memory!SaveTitle, Memory!GenerateTitle, Memory!RereadTitle,
     Memory!ListMemories, Memory!DeleteMemory, Memory!CreateMemory, Memory!Enqueue,
     Memory!CreateJob, Memory!RunAgain, Memory!DriverDies
<1>4. DOMAIN m_job \subseteq Nat \X Memory!Messages
  BY <1>0 DEF Memory!TypeOK
<1>5. Memory!JobsAreTrue'
  <2>1. ASSUME NEW k \in DOMAIN m_job, k \in DOMAIN m_job', m_job'[k] = m_job[k]
        PROVE  /\ m_msg'[k[2]] # "none"
               /\ ~ m_reverted' => k[1] <= m_conv'.version /\ (k[1] = m_conv'.version => m_job'[k].from = m_conv'.until)
    <3>1. k[2] \in Memory!Messages
      BY <1>4
    <3> QED BY <1>0, <1>2, <1>3, <2>1, <3>1 DEF Memory!JobsAreTrue
  <2>2. CASE m_job' = m_job
    BY <2>1, <2>2 DEF Memory!JobsAreTrue
  <2>3. CASE Memory!CreateJob(t) /\ m_job' # m_job
    <3> DEFINE r == m_task[t].row
               key == <<r.version, Memory!Response(t)>>
    <3>1. /\ m_conv.there /\ Memory!Worthwhile(r, Memory!Response(t)) /\ key \notin DOMAIN m_job
          /\ m_job' = [k \in DOMAIN m_job \cup {key} |->
                          IF k = key THEN Memory!Enqueued(r.until) ELSE m_job[k]]
          /\ UNCHANGED <<m_conv, m_msg, m_reverted>>
      BY <2>3 DEF Memory!CreateJob, Memory!history
    <3>2. Memory!Listed(r.until, Memory!Response(t)) # {}
      <4>1. Memory!Cardinality({}) = 0
        BY FS_EmptySet DEF Memory!Cardinality, Cardinality
      <4> QED BY <3>1, <4>1 DEF Memory!Worthwhile
    <3>3. ~ Memory!Gone(r.until) /\ ~ Memory!Gone(Memory!Response(t))
      BY <3>2 DEF Memory!Listed
    <3>4. m_msg[Memory!Response(t)] # "none"
      BY <3>3, MemoryNames DEF Memory!Gone
    <3>5. ~ m_reverted => r.version <= m_conv.version /\ (r.version = m_conv.version => r.until = m_conv.until)
      BY <1>0, <1>1, <3>1, <3>3 DEF Memory!RowsAreTrue, Memory!TrueCopy, Memory!Refers
    <3>6. m_job'[key].from = r.until /\ key[1] = r.version /\ key[2] = Memory!Response(t)
      BY <3>1 DEF Memory!Enqueued
    <3>7. \A k \in DOMAIN m_job' : k = key \/ (k \in DOMAIN m_job /\ m_job'[k] = m_job[k])
      BY <3>1
    <3>8. /\ m_msg'[key[2]] # "none"
          /\ ~ m_reverted' => key[1] <= m_conv'.version /\ (key[1] = m_conv'.version => m_job'[key].from = m_conv'.until)
      BY <3>1, <3>4, <3>5, <3>6
    <3> HIDE DEF key, r
    <3> QED BY <2>1, <3>7, <3>8 DEF Memory!JobsAreTrue
  <2> QED BY <2>2, <2>3 DEF Memory!TaskStep, Memory!rows, Memory!ReadConversation, Memory!LoadRow, Memory!ListRecent, Memory!Finish,
     Memory!SyncMessage, Memory!Touch, Memory!SaveTouched, Memory!SaveTitle, Memory!GenerateTitle, Memory!RereadTitle,
     Memory!ListMemories, Memory!DeleteMemory, Memory!CreateMemory, Memory!Enqueue,
     Memory!RunAgain, Memory!DriverDies
<1>6. Memory!DeletedIsEmpty'
  <2>1. m_spilled => m_spilled'
    BY DEF Memory!TaskStep, Memory!history, Memory!ReadConversation, Memory!LoadRow, Memory!ListRecent, Memory!Finish,
     Memory!SyncMessage, Memory!Touch, Memory!SaveTouched, Memory!SaveTitle, Memory!GenerateTitle, Memory!RereadTitle,
     Memory!ListMemories, Memory!DeleteMemory, Memory!CreateMemory, Memory!Enqueue, Memory!CreateJob,
     Memory!RunAgain, Memory!DriverDies
  <2>2. ~ m_conv.there => m_job' = m_job
    BY DEF Memory!TaskStep, Memory!rows, Memory!ReadConversation, Memory!LoadRow, Memory!ListRecent, Memory!Finish,
     Memory!SyncMessage, Memory!Touch, Memory!SaveTouched, Memory!SaveTitle, Memory!GenerateTitle, Memory!RereadTitle,
     Memory!ListMemories, Memory!DeleteMemory, Memory!CreateMemory, Memory!Enqueue, Memory!CreateJob,
     Memory!RunAgain, Memory!DriverDies
  <2> QED BY <1>0, <1>2, <1>3, <2>1, <2>2 DEF Memory!DeletedIsEmpty
<1>7. Memory!ContextWhole'
  <2>1. m_late \subseteq m_late' /\ (m_reverted => m_reverted')
    <3>1. CASE Memory!SyncMessage(t)
      <4>1. m_late \subseteq m_late'
        BY <3>1 DEF Memory!SyncMessage
      <4>2. m_reverted' = m_reverted
        BY <3>1 DEF Memory!SyncMessage
      <4> QED BY <4>1, <4>2
    <3>2. CASE Memory!SaveTouched(t)
      <4>1. m_late' = m_late /\ Memory!Save(m_task[t].row)
        BY <3>2 DEF Memory!SaveTouched
      <4> QED BY <4>1 DEF Memory!Save
    <3>3. CASE Memory!SaveTitle(t)
      <4>1. m_late' = m_late /\ Memory!Save([m_task[t].row EXCEPT !.title = "made"])
        BY <3>3 DEF Memory!SaveTitle
      <4> QED BY <4>1 DEF Memory!Save
    <3>4. CASE m_late' = m_late /\ m_reverted' = m_reverted
      BY <3>4
    <3> QED BY <3>1, <3>2, <3>3, <3>4 DEF Memory!TaskStep, Memory!history, Memory!ReadConversation, Memory!LoadRow, Memory!ListRecent, Memory!Finish,
     Memory!Touch, Memory!GenerateTitle, Memory!RereadTitle,
     Memory!ListMemories, Memory!DeleteMemory, Memory!CreateMemory, Memory!Enqueue, Memory!CreateJob,
     Memory!RunAgain, Memory!DriverDies
  <2>2. CASE Memory!ListRecent(t) /\ m_conv.there /\ ~ m_reverted
    <3> DEFINE r == m_task[t].row
    <3>1. /\ m_task[t].pc = "list" /\ m_late' = m_late /\ m_reverted' = m_reverted
          /\ m_missed' = m_missed \cup ((m_task[t].owed \cap Memory!Completed) \ Memory!InContext(r))
      BY <2>2 DEF Memory!ListRecent, Memory!At
    <3>2. /\ Memory!Gone(r.until) => \A m \in m_task[t].owed : m_msg[m] = "none"
          /\ \A m \in m_task[t].owed : m <= r.until => m \in r.covers \cup m_late
      BY <1>0, <2>2, <3>1 DEF Memory!ContextsAreTrue, Memory!At
    <3>3. ASSUME NEW m \in m_task[t].owed \cap Memory!Completed, m \notin Memory!InContext(r) PROVE m \in m_late
      <4>1. ~ Memory!Gone(r.until) /\ ~ Memory!Gone(0)
        BY <3>2, <3>3 DEF Memory!Completed, Memory!Gone
      <4>2. m \notin r.covers /\ m \notin {z \in Memory!Completed : r.until < z}
        BY <3>3, <4>1 DEF Memory!InContext, Memory!Listed
      <4>3. m \in Nat /\ r.until \in Nat
        <5>1. m \in Memory!Messages
          BY <3>3 DEF Memory!Completed
        <5>2. r.until \in 0..(2 * N)
          BY <1>1 DEF Memory!Rows
        <5> QED BY <5>1, <5>2, MemoryNames, ServicesAssumption
      <4>4. m <= r.until
        BY <3>3, <4>2, <4>3
      <4> QED BY <3>2, <3>3, <4>2, <4>4
    <3>4. m_missed \subseteq m_late
      BY <1>0, <2>2 DEF Memory!ContextWhole
    <3> QED BY <3>1, <3>3, <3>4 DEF Memory!ContextWhole
  <2>3. CASE m_reverted \/ m_missed' = m_missed
    BY <1>0, <2>1, <2>3 DEF Memory!ContextWhole
  <2> QED BY <2>2, <2>3 DEF Memory!TaskStep, Memory!history, Memory!ReadConversation, Memory!LoadRow, Memory!ListRecent, Memory!Finish,
     Memory!SyncMessage, Memory!Touch, Memory!SaveTouched, Memory!SaveTitle, Memory!GenerateTitle, Memory!RereadTitle,
     Memory!ListMemories, Memory!DeleteMemory, Memory!CreateMemory, Memory!Enqueue, Memory!CreateJob,
     Memory!RunAgain, Memory!DriverDies
<1> QED BY <1>5, <1>6, <1>7

\* A step of a task leaves what was remembered, or is about to replace it.
LEMMA MemoryTaskKeeps ==
    ASSUME Memory!MemoryInv, NEW t \in Memory!Tasks, Memory!TaskStep(t) PROVE Memory!StaysRemembered'
<1>0. /\ Memory!TypeOK /\ Memory!Asked /\ Memory!DeletedIsEmpty /\ Memory!StaysRemembered
      /\ m_task \in [Memory!Tasks -> Memory!Drivers]
      /\ (m_memory.id = 0 <=> m_memory.name = "none") /\ m_made \in Nat
  BY DEF Memory!MemoryInv, Memory!TypeOK
<1>1. PICK x \in Memory!Drivers : m_task' = [m_task EXCEPT ![t] = x]
  BY <1>0, MemoryDrives
<1>2. \A u \in Memory!Tasks : u # t => m_task'[u] = m_task[u]
  BY <1>0, <1>1
<1>3. CASE Memory!ListMemories(t)
  <2>1. m_memory' = m_memory /\ m_spilled' = m_spilled /\ m_task[t].pc = "memory"
    BY <1>3 DEF Memory!ListMemories, Memory!rows, Memory!At
  <2>2. CASE m_told' = m_told
    <3> SUFFICES ASSUME NEW u \in Memory!Tasks, m_task[u].pc = "remember" PROVE m_task'[u].pc = "remember"
      BY <1>0, <2>1, <2>2 DEF Memory!StaysRemembered, Memory!At
    <3> QED BY <1>2, <2>1
  <2>3. CASE m_told' # m_told
    <3>1. m_says[t] # "none" /\ m_memory.name = m_says[t]
      BY <1>3, <2>3 DEF Memory!ListMemories
    <3> QED BY <1>0, <2>1, <3>1 DEF Memory!StaysRemembered
  <2> QED BY <2>2, <2>3
<1>4. CASE Memory!DeleteMemory(t)
  <2>1. PICK y \in Memory!Drivers : m_task' = [m_task EXCEPT ![t] = y] /\ y.pc = "remember"
    BY <1>0, <1>4, MemoryTo DEF Memory!DeleteMemory, Memory!Stages
  <2>2. m_task'[t].pc = "remember"
    BY <1>0, <2>1
  <2> QED BY <2>2 DEF Memory!StaysRemembered, Memory!At
<1>5. CASE Memory!CreateMemory(t)
  <2>1. CASE m_conv.there
    <3>1. m_memory' = Memory!Stored(t)
      BY <1>5, <2>1 DEF Memory!CreateMemory
    <3>2. m_memory'.id # 0
      BY <1>0, <3>1 DEF Memory!Stored
    <3> QED BY <3>2 DEF Memory!StaysRemembered
  <2>2. CASE ~ m_conv.there
    <3>1. m_spilled' = m_spilled /\ m_spilled
      BY <1>0, <1>5, <2>2 DEF Memory!CreateMemory, Memory!DeletedIsEmpty
    <3> QED BY <3>1 DEF Memory!StaysRemembered
  <2> QED BY <2>1, <2>2
<1>6. CASE Memory!DriverDies(t)
  <2>1. m_memory' = m_memory /\ m_told' = m_told /\ m_spilled' = (m_spilled \/ m_task[t].pc = "remember")
    BY <1>6 DEF Memory!DriverDies, Memory!rows, Memory!At
  <2>2. CASE m_task[t].pc = "remember"
    BY <2>1, <2>2 DEF Memory!StaysRemembered
  <2>3. CASE m_task[t].pc # "remember"
    <3> SUFFICES ASSUME NEW u \in Memory!Tasks, m_task[u].pc = "remember" PROVE m_task'[u].pc = "remember"
      BY <1>0, <2>1, <2>3 DEF Memory!StaysRemembered, Memory!At
    <3> QED BY <1>2, <2>3
  <2> QED BY <2>2, <2>3
<1>7. CASE m_memory' = m_memory /\ m_told' = m_told /\ m_spilled' = m_spilled /\ m_task[t].pc # "remember"
  <2> SUFFICES ASSUME NEW u \in Memory!Tasks, m_task[u].pc = "remember" PROVE m_task'[u].pc = "remember"
    BY <1>0, <1>7 DEF Memory!StaysRemembered, Memory!At
  <2> QED BY <1>2, <1>7
<1> QED BY <1>3, <1>4, <1>5, <1>6, <1>7 DEF Memory!TaskStep, Memory!rows, Memory!history, Memory!At, Memory!ReadConversation,
     Memory!CreateTask, Memory!LoadRow, Memory!ListRecent, Memory!Finish,
     Memory!SyncMessage, Memory!Touch, Memory!SaveTouched, Memory!SaveTitle, Memory!GenerateTitle, Memory!RereadTitle,
     Memory!Enqueue, Memory!CreateJob, Memory!RunAgain

\* A request that comes: refused when the boundary it read is gone, it else writes its row and
\* its two messages, to which nothing refers.
LEMMA MemoryCreates ==
    ASSUME Memory!MemoryInv, NEW t \in Memory!Tasks, Memory!CreateTask(t)
    PROVE  /\ Memory!NotYet' /\ Memory!RowsAreTrue' /\ Memory!WorkersAreTrue' /\ Memory!ContextsAreTrue'
           /\ Memory!SummaryAccounts' /\ Memory!JobsAreTrue' /\ Memory!DeletedIsEmpty' /\ Memory!ContextWhole'
<1>0. /\ Memory!TypeOK /\ Memory!NotYet /\ Memory!RowsAreTrue /\ Memory!WorkersAreTrue
      /\ Memory!ContextsAreTrue /\ Memory!SummaryAccounts /\ Memory!DeletedIsEmpty /\ Memory!JobsAreTrue
      /\ Memory!ContextWhole /\ Memory!Asked
  BY DEF Memory!MemoryInv
<1>T. Memory!TypeOK'
  BY <1>0, MemoryTaskTypes DEF Memory!TaskStep
<1> DEFINE r == m_task[t].row
<1>1. /\ m_task \in [Memory!Tasks -> Memory!Drivers] /\ m_msg \in [Memory!Messages -> {"none", "pending", "completed", "failed"}]
      /\ r \in Memory!Rows /\ r \in Memory!Copies /\ Memory!TrueCopy(r)
      /\ r.until \in 0..(2 * N) /\ r.version \in Nat /\ m_conv.version \in Nat
      /\ DOMAIN m_job \subseteq Nat \X Memory!Messages /\ Memory!Uncome(t)
  BY <1>0 DEF Memory!TypeOK, Memory!Drivers, Memory!Rows, Memory!Copies, Memory!RowsAreTrue, Memory!CreateTask, Memory!Uncome
<1>2. /\ m_job' = m_job /\ m_sum' = m_sum /\ m_owner' = m_owner /\ m_missed' = m_missed /\ m_spilled' = m_spilled
  BY DEF Memory!CreateTask
<1>3. CASE ~ Memory!Refers(r)
  <2>1. PICK x \in Memory!Drivers : m_task' = [m_task EXCEPT ![t] = x] /\ x.pc = "done" /\ x.row = Memory!Fresh /\ x.owed = {}
    BY <1>0, <1>3, MemoryTo DEF Memory!CreateTask, Memory!Stages
  <2>2. UNCHANGED <<m_conv, m_msg, m_late, m_reverted>>
    BY <1>3 DEF Memory!CreateTask
  <2>3. \A row \in Memory!Copies' : row \in Memory!Copies \/ row = Memory!Fresh
    BY <1>0, <1>2, <2>1, MemoryHeld
  <2>4. Memory!Refers(m_conv)' /\ Memory!Shape(m_conv') /\ Memory!EmptyAtFirst(m_conv')
    BY <1>0, <2>2 DEF Memory!RowsAreTrue, Memory!Refers, Memory!Gone
  <2>5. Memory!Completed' = Memory!Completed
    BY <2>2 DEF Memory!Completed
  <2>6. Memory!NotYet' /\ Memory!RowsAreTrue' /\ Memory!WorkersAreTrue' /\ Memory!ContextsAreTrue' /\ Memory!SummaryAccounts'
    BY <1>T, <1>2, <2>1, <2>2, <2>3, <2>4, <2>5, MemorySteady
  <2>7. Memory!JobsAreTrue' /\ Memory!DeletedIsEmpty' /\ Memory!ContextWhole'
    BY <1>0, <1>2, <2>2 DEF Memory!JobsAreTrue, Memory!DeletedIsEmpty, Memory!ContextWhole
  <2> QED BY <2>6, <2>7
<1>4. CASE Memory!Refers(r)
  <2> DEFINE New == {Memory!Request(t), Memory!Response(t)}
  <2>1. PICK x \in Memory!Drivers : m_task' = [m_task EXCEPT ![t] = x] /\ x.pc = "load" /\ x.row = Memory!Fresh /\ x.owed = {}
    BY <1>0, <1>4, MemoryTo DEF Memory!CreateTask, Memory!Stages
  <2>2. /\ m_conv' = r
        /\ m_reverted' = (m_reverted \/ (m_conv.there /\ r.version # m_conv.version))
        /\ m_msg' = [m_msg EXCEPT ![Memory!Request(t)] = "completed", ![Memory!Response(t)] = "pending"]
        /\ m_late' = m_late \cup ({Memory!Request(t)} \cap Memory!PassedOver)
    BY <1>4 DEF Memory!CreateTask
  <2>3. \A row \in Memory!Copies' : row \in Memory!Copies \/ row = Memory!Fresh
    BY <1>0, <1>2, <2>1, MemoryHeld
  <2>4. /\ New \subseteq Memory!Messages /\ 0 \notin New
        /\ \A m \in New : /\ m_msg[m] = "none" /\ m_conv.until # m /\ \A row \in Memory!Copies : row.until # m
                          /\ \A s \in Workers : m_sum[s].key[2] # m
                          /\ \A u \in Memory!Tasks : m \notin m_task[u].owed
    BY <1>0, <1>1, MemoryNames DEF Memory!NotYet
  <2>5. /\ \A m \in Memory!Messages \ New : m_msg'[m] = m_msg[m]
        /\ m_msg'[Memory!Request(t)] = "completed" /\ m_msg'[Memory!Response(t)] = "pending"
    BY <1>1, <2>2, MemoryNames
  <2>6. \A u \in Memory!Tasks : u # t => m_task'[u] = m_task[u] /\ Memory!Request(u) \notin New /\ Memory!Response(u) \notin New
    BY <1>1, <2>1, MemoryNames
  <2>7. m_task'[t] = x
    BY <1>1, <2>1
  <2>8. \A m \in (0..(2 * N)) \ New : Memory!Gone(m)' <=> Memory!Gone(m)
    BY <2>5, ServicesAssumption DEF Memory!Gone, Memory!Messages
  <2>9. \A m \in Memory!Completed' : m \in Memory!Messages
            /\ (m \in Memory!Completed \/ (m = Memory!Request(t) /\ (m \in Memory!PassedOver => m \in m_late')))
    BY <2>2, <2>5 DEF Memory!Completed
  <2>10. ~ m_reverted' => ~ m_reverted /\ (m_conv.there => /\ r.version = m_conv.version /\ r.until = m_conv.until
                                                         /\ r.covers = m_conv.covers)
    BY <1>1, <1>4, <2>2 DEF Memory!TrueCopy
  <2>11. ~ m_conv.there => r.until = 0 /\ \A m \in Memory!Messages : m_msg[m] = "none"
    <3> SUFFICES ASSUME ~ m_conv.there PROVE r.until = 0 /\ \A m \in Memory!Messages : m_msg[m] = "none"
      OBVIOUS
    <3>1. \A m \in Memory!Messages : m_msg[m] = "none"
      BY <1>0 DEF Memory!DeletedIsEmpty
    <3> QED BY <1>1, <1>4, <3>1, ServicesAssumption DEF Memory!Refers, Memory!Gone, Memory!Messages
  <2>12. m_late \subseteq m_late'
    BY <2>2
  <2>13. \A row \in Memory!Copies' : row.until \in 0..(2 * N) /\ row.until \notin New /\ Memory!TrueCopy(row)
    <3>1. Memory!Fresh.until = 0 /\ 0 \in 0..(2 * N)
      BY ServicesAssumption DEF Memory!Fresh
    <3>2. Memory!Copies \subseteq Memory!Rows
      BY <1>0, MemoryCopies
    <3>3. \A row \in Memory!Copies : row.until \in 0..(2 * N) /\ Memory!TrueCopy(row)
      BY <1>0, <3>2 DEF Memory!Rows, Memory!RowsAreTrue
    <3>4. Memory!TrueCopy(Memory!Fresh)
      BY <1>0, MemoryFresh
    <3> QED BY <2>3, <2>4, <3>1, <3>3, <3>4
  <2>14. r.until \notin New
    BY <1>1, <2>4
  <2> HIDE DEF New, r
  <2>15. Memory!RowsAreTrue'
    <3>1. ASSUME NEW row \in Memory!Copies' PROVE Memory!TrueCopy(row)'
      <4>1. Memory!Refers(row)' => Memory!Refers(row)
        BY <2>8, <2>13 DEF Memory!Refers
      <4>2. Memory!TrueCopy(row)
        BY <2>13
      <4>3. CASE m_conv.there
        BY <2>2, <2>10, <4>1, <4>2, <4>3 DEF Memory!TrueCopy, Memory!Shape, Memory!EmptyAtFirst
      <4>4. CASE ~ m_conv.there
        <5>1. Memory!Refers(row) => row.until = 0
          BY <2>11, <2>13, <4>4, ServicesAssumption DEF Memory!Refers, Memory!Gone, Memory!Messages
        <5>2. r.until = 0 /\ r.version = 0 /\ r.covers = {}
          BY <1>1, <2>11, <4>4 DEF Memory!TrueCopy, Memory!Shape, Memory!EmptyAtFirst
        <5>3. Memory!Refers(row) => row.until = 0 /\ row.version = 0 /\ row.covers = {}
          BY <4>2, <5>1 DEF Memory!TrueCopy, Memory!Shape, Memory!EmptyAtFirst
        <5> QED BY <2>2, <4>1, <4>2, <5>2, <5>3 DEF Memory!TrueCopy, Memory!Shape, Memory!EmptyAtFirst
      <4> QED BY <4>3, <4>4
    <3>2. Memory!Refers(m_conv)'
      BY <1>1, <1>4, <2>2, <2>8, <2>14 DEF Memory!Refers
    <3>3. Memory!Shape(m_conv)' /\ Memory!EmptyAtFirst(m_conv)'
      BY <1>1, <2>2 DEF Memory!TrueCopy, Memory!Shape, Memory!EmptyAtFirst
    <3> QED BY <3>1, <3>2, <3>3 DEF Memory!RowsAreTrue
  <2>16. Memory!NotYet'
    <3>1. SUFFICES ASSUME NEW u \in Memory!Tasks, Memory!Uncome(u)',
                          NEW m \in {Memory!Request(u), Memory!Response(u)}
                   PROVE  /\ m_msg'[m] = "none" /\ m_conv'.until # m
                          /\ \A row \in Memory!Copies' : row.until # m
                          /\ \A s \in Workers : m_sum'[s].key[2] # m
                          /\ \A z \in Memory!Tasks : m \notin m_task'[z].owed
      BY DEF Memory!NotYet, Memory!Request, Memory!Response
    <3>2. u # t
      BY <2>1, <2>7, <3>1 DEF Memory!Uncome, Memory!At
    <3>3. Memory!Uncome(u)
      BY <2>6, <3>1, <3>2 DEF Memory!Uncome, Memory!At
    <3>4. m \in Memory!Messages /\ m # 0 /\ m \notin New
      BY <2>6, <3>1, <3>2, MemoryNames
    <3>5. /\ m_msg[m] = "none" /\ \A row \in Memory!Copies : row.until # m
          /\ \A s \in Workers : m_sum[s].key[2] # m
          /\ \A z \in Memory!Tasks : m \notin m_task[z].owed
      BY <1>0, <3>1, <3>3 DEF Memory!NotYet
    <3>6. \A row \in Memory!Copies' : row.until # m
      BY <2>3, <3>4, <3>5 DEF Memory!Fresh
    <3>7. \A z \in Memory!Tasks : m \notin m_task'[z].owed
      BY <2>1, <2>6, <2>7, <3>5
    <3> QED BY <1>1, <1>2, <2>2, <2>5, <3>4, <3>5, <3>6, <3>7
  <2>17. Memory!SummaryAccounts'
    <3>1. SUFFICES ASSUME ~ m_reverted', NEW m \in Memory!Completed', m <= m_conv'.until
                   PROVE  m \in m_conv'.covers \cup m_late'
      BY DEF Memory!SummaryAccounts
    <3>2. m \in Memory!Messages /\ m \in Nat \ {0}
      BY <2>9, MemoryNames
    <3>3. m_conv.there /\ m_conv'.until = m_conv.until /\ m_conv'.covers = m_conv.covers /\ ~ m_reverted
      BY <2>2, <2>10, <2>11, <3>1, <3>2
    <3>4. CASE m \in Memory!Completed
      BY <1>0, <2>12, <3>1, <3>3, <3>4 DEF Memory!SummaryAccounts
    <3>5. CASE m \notin Memory!Completed
      <4>1. m \in Memory!PassedOver
        BY <3>1, <3>2, <3>3 DEF Memory!PassedOver
      <4> QED BY <2>9, <3>5, <4>1
    <3> QED BY <3>4, <3>5
  <2>18. Memory!WorkersAreTrue'
    <3>1. SUFFICES ASSUME NEW s \in Workers
                 PROVE  /\ m_sum'[s].pc # "idle" => m_sum'[s].key[2] # 0
                        /\ m_sum'[s].pc # "idle" /\ ~ Memory!Gone(m_sum[s].key[2])' /\ ~ m_reverted' =>
                            /\ m_sum'[s].key[1] <= m_conv'.version
                            /\ m_sum'[s].pc = "list" /\ m_sum'[s].key[1] = m_conv'.version => m_sum'[s].base = m_conv'.covers
                            /\ m_sum'[s].pc = "save" /\ m_sum'[s].key[1] = m_conv'.version => Memory!Accounts(s)'
      BY <1>2 DEF Memory!WorkersAreTrue
    <3>2. m_sum[s].key[2] \in 0..(2 * N) /\ m_sum[s].key[2] \notin New
      BY <1>0, <2>4 DEF Memory!TypeOK, Memory!Runs
    <3>3. Memory!Gone(m_sum[s].key[2])' <=> Memory!Gone(m_sum[s].key[2])
      BY <1>2, <2>8, <3>2 DEF Memory!Gone
    <3>4. m_sum[s].pc # "idle" => m_sum[s].key[2] # 0
      BY <1>0 DEF Memory!WorkersAreTrue
    <3>5. CASE ~ m_conv.there
      <4>1. m_sum[s].pc # "idle" => Memory!Gone(m_sum[s].key[2])
        BY <2>11, <3>2, <3>4, <3>5, ServicesAssumption DEF Memory!Gone, Memory!Messages
      <4> QED BY <1>2, <3>3, <3>4, <4>1
    <3>6. CASE m_conv.there
      <4>1. ASSUME m_sum[s].pc = "save", Memory!Accounts(s) PROVE Memory!Accounts(s)'
        <5>1. SUFFICES ASSUME NEW m \in Memory!Completed', m <= m_sum[s].key[2]
                       PROVE  m \in m_sum[s].base \cup m_sum[s].got \cup m_late'
          BY <1>2 DEF Memory!Accounts
        <5>2. CASE m \in Memory!Completed
          BY <2>12, <4>1, <5>1, <5>2 DEF Memory!Accounts
        <5>3. CASE m \notin Memory!Completed
          <6>1. m \in Memory!PassedOver
            BY <2>9, <4>1, <5>1 DEF Memory!PassedOver
          <6> QED BY <2>9, <5>3, <6>1
        <5> QED BY <5>2, <5>3
      <4>2. ~ m_reverted' => ~ m_reverted /\ m_conv'.version = m_conv.version /\ m_conv'.covers = m_conv.covers
        BY <2>2, <2>10, <3>6
      <4>3. m_sum[s].pc # "idle" /\ ~ Memory!Gone(m_sum[s].key[2]) /\ ~ m_reverted =>
              /\ m_sum[s].key[1] <= m_conv.version
              /\ m_sum[s].pc = "list" /\ m_sum[s].key[1] = m_conv.version => m_sum[s].base = m_conv.covers
              /\ m_sum[s].pc = "save" /\ m_sum[s].key[1] = m_conv.version => Memory!Accounts(s)
        BY <1>0 DEF Memory!WorkersAreTrue
      <4> QED BY <1>2, <3>3, <3>4, <4>1, <4>2, <4>3
    <3> QED BY <3>5, <3>6
  <2>19. Memory!ContextsAreTrue'
    <3>1. SUFFICES ASSUME NEW u \in Memory!Tasks, m_task'[u].pc = "list"
                   PROVE  /\ Memory!Gone(m_task[u].row.until)' => \A m \in m_task'[u].owed : m_msg'[m] = "none"
                          /\ ~ m_reverted' =>
                               \A m \in m_task'[u].owed : m <= m_task'[u].row.until => m \in m_task'[u].row.covers \cup m_late'
      BY DEF Memory!ContextsAreTrue, Memory!At
    <3>2. u # t /\ m_task'[u] = m_task[u]
      BY <2>1, <2>6, <2>7, <3>1
    <3>3. m_task[u].row \in Memory!Copies' /\ m_task[u].owed \subseteq Memory!Messages
      BY <1>1, <3>2 DEF Memory!Copies, Memory!Drivers
    <3>4. Memory!Gone(m_task[u].row.until)' <=> Memory!Gone(m_task[u].row.until)
      BY <2>8, <2>13, <3>2, <3>3
    <3>5. \A m \in m_task[u].owed : m_msg'[m] = m_msg[m]
      BY <2>4, <2>5, <3>3
    <3> QED BY <1>0, <2>10, <2>12, <3>1, <3>2, <3>4, <3>5 DEF Memory!ContextsAreTrue, Memory!At
  <2>20. Memory!JobsAreTrue'
    <3>1. SUFFICES ASSUME NEW k \in DOMAIN m_job
                   PROVE  /\ m_msg'[k[2]] # "none"
                          /\ ~ m_reverted' => k[1] <= m_conv'.version /\ (k[1] = m_conv'.version => m_job[k].from = m_conv'.until)
      BY <1>2 DEF Memory!JobsAreTrue
    <3>2. m_conv.there /\ m_msg[k[2]] # "none" /\ k[2] \in Memory!Messages
      BY <1>0, <1>1 DEF Memory!JobsAreTrue, Memory!DeletedIsEmpty
    <3>3. m_msg'[k[2]] # "none"
      BY <2>4, <2>5, <3>2
    <3> QED BY <1>0, <2>2, <2>10, <3>2, <3>3 DEF Memory!JobsAreTrue
  <2>21. Memory!DeletedIsEmpty'
    BY <1>1, <2>2 DEF Memory!DeletedIsEmpty, Memory!TrueCopy
  <2>22. Memory!ContextWhole'
    BY <1>0, <1>2, <2>10, <2>12 DEF Memory!ContextWhole
  <2> QED BY <2>15, <2>16, <2>17, <2>18, <2>19, <2>20, <2>21, <2>22
<1> QED BY <1>3, <1>4

\* What a worker does to its run.
LEMMA MemoryWorks ==
    ASSUME Memory!TypeOK, NEW s \in Workers, Memory!SummaryStep(s)
    PROVE  \E y \in Memory!Runs :
              /\ m_sum' = [m_sum EXCEPT ![s] = y]
              /\ \/ Memory!Claim(s) /\ y.pc = "base" /\ y.key \in DOMAIN m_job
                 \/ Memory!ReadBase(s) /\ y.key = m_sum[s].key /\ y.base = m_conv.covers
                    /\ m_sum[s].pc = "base" /\ y.pc = (IF m_conv.there THEN "list" ELSE "close")
                 \/ Memory!ListWindow(s) /\ y.key = m_sum[s].key /\ y.base = m_sum[s].base
                    /\ m_sum[s].pc = "list" /\ y.pc = (IF y.got = {} THEN "close" ELSE "save")
                    /\ y.got = IF y.key \in DOMAIN m_job THEN Memory!Listed(m_job[y.key].from, y.key[2]) ELSE {}
                 \/ Memory!SetSummary(s) /\ m_sum[s].pc = "save" /\ y.key = m_sum[s].key /\ y.pc = "close"
                 \/ (Memory!CompleteJob(s) \/ Memory!FailJob(s) \/ Memory!SummarizerDies(s)) /\ y = Memory!Resting
<1>1. /\ m_sum \in [Workers -> Memory!Runs] /\ m_sum[s] \in Memory!Runs
      /\ m_conv.covers \in SUBSET Memory!Messages /\ DOMAIN m_job \subseteq Nat \X Memory!Messages
  BY DEF Memory!TypeOK, Memory!Rows
<1>2. Memory!Resting \in Memory!Runs /\ Memory!Resting.key = <<0, 0>>
  BY ServicesAssumption DEF Memory!Resting, Memory!Runs
<1>3. CASE Memory!Claim(s)
  <2>1. PICK k \in DOMAIN m_job : m_sum' = [m_sum EXCEPT ![s] = [Memory!Resting EXCEPT !.pc = "base", !.key = k]]
    BY <1>3 DEF Memory!Claim
  <2> DEFINE y == [Memory!Resting EXCEPT !.pc = "base", !.key = k]
  <2>2. k \in Nat \X (0..(2 * N))
    BY <1>1, MemoryNames
  <2>3. m_sum' = [m_sum EXCEPT ![s] = y]
    BY <2>1
  <2>4. y \in Memory!Runs /\ y.pc = "base" /\ y.key = k
    BY <1>2, <2>2 DEF Memory!Runs
  <2> HIDE DEF y
  <2> QED BY <1>3, <2>3, <2>4
<1>4. CASE Memory!ReadBase(s)
  <2> DEFINE pc == IF m_conv.there THEN "list" ELSE "close"
             y == [m_sum[s] EXCEPT !.pc = pc, !.base = m_conv.covers]
  <2>1. m_sum' = [m_sum EXCEPT ![s] = y] /\ m_sum[s].pc = "base"
    BY <1>1, <1>4 DEF Memory!ReadBase
  <2>2. pc \in {"list", "close"} /\ pc = (IF m_conv.there THEN "list" ELSE "close")
    OBVIOUS
  <2> HIDE DEF pc
  <2>3. y \in Memory!Runs /\ y.pc = pc /\ y.key = m_sum[s].key /\ y.base = m_conv.covers
    BY <1>1, <2>2 DEF Memory!Runs
  <2> HIDE DEF y
  <2> QED BY <1>4, <2>1, <2>2, <2>3
<1>5. CASE Memory!ListWindow(s)
  <2> DEFINE k == m_sum[s].key
             got == IF k \in DOMAIN m_job THEN Memory!Listed(m_job[k].from, k[2]) ELSE {}
             pc == IF got = {} THEN "close" ELSE "save"
             y == [m_sum[s] EXCEPT !.pc = pc, !.got = got]
  <2>1. m_sum' = [m_sum EXCEPT ![s] = y] /\ m_sum[s].pc = "list"
    BY <1>1, <1>5 DEF Memory!ListWindow
  <2>2. /\ got \in SUBSET Memory!Messages /\ pc \in {"close", "save"}
        /\ got = IF k \in DOMAIN m_job THEN Memory!Listed(m_job[k].from, k[2]) ELSE {}
        /\ pc = (IF got = {} THEN "close" ELSE "save")
    BY DEF Memory!Listed, Memory!Completed
  <2> HIDE DEF pc, got
  <2>3. y \in Memory!Runs /\ y.pc = pc /\ y.key = m_sum[s].key /\ y.base = m_sum[s].base /\ y.got = got
    BY <1>1, <2>2 DEF Memory!Runs
  <2> HIDE DEF y
  <2> QED BY <1>5, <2>1, <2>2, <2>3 DEF k
<1>6. CASE Memory!SetSummary(s)
  <2> DEFINE k == m_sum[s].key
             y == [Memory!Resting EXCEPT !.pc = "close", !.key = k]
  <2>1. m_sum' = [m_sum EXCEPT ![s] = y] /\ m_sum[s].pc = "save"
    BY <1>6 DEF Memory!SetSummary
  <2>2. k \in Nat \X (0..(2 * N)) /\ k = m_sum[s].key
    BY <1>1 DEF Memory!Runs
  <2> HIDE DEF k
  <2>3. y \in Memory!Runs /\ y.pc = "close" /\ y.key = k
    BY <1>2, <2>2 DEF Memory!Runs
  <2> HIDE DEF y
  <2> QED BY <1>6, <2>1, <2>2, <2>3
<1>7. CASE Memory!CompleteJob(s) \/ Memory!FailJob(s) \/ Memory!SummarizerDies(s)
  <2>1. m_sum' = [m_sum EXCEPT ![s] = Memory!Resting]
    BY <1>7 DEF Memory!CompleteJob, Memory!FailJob, Memory!SummarizerDies
  <2> QED BY <1>2, <1>7, <2>1
<1> QED BY <1>3, <1>4, <1>5, <1>6, <1>7 DEF Memory!SummaryStep

\* A step of a worker leaves what concerns the tasks; the jobs stay, with the boundary each starts
\* from; and the conversation changes with a summary that is written only.
LEMMA MemoryWorkRest ==
    ASSUME Memory!TypeOK, NEW s \in Workers, Memory!SummaryStep(s)
    PROVE  /\ UNCHANGED <<m_msg, m_task, m_memory, m_made, m_owner, m_says, m_summing, m_late, m_missed, m_reverted, m_told, m_spilled>>
           /\ m_job' \in [DOMAIN m_job -> Memory!Jobs] /\ DOMAIN m_job' = DOMAIN m_job
           /\ \A k \in DOMAIN m_job : m_job'[k].from = m_job[k].from
           /\ ~ Memory!SetSummary(s) => m_conv' = m_conv
           /\ Memory!SetSummary(s) => m_job' = m_job
<1>1. m_job \in [DOMAIN m_job -> Memory!Jobs]
  BY DEF Memory!TypeOK
<1>2. /\ UNCHANGED <<m_msg, m_task, m_memory, m_made, m_owner, m_says, m_summing, m_late, m_missed, m_reverted, m_told, m_spilled>>
      /\ (~ Memory!SetSummary(s) => m_conv' = m_conv)
  BY DEF Memory!SummaryStep, Memory!Claim, Memory!ReadBase, Memory!ListWindow, Memory!SetSummary, Memory!CompleteJob,
     Memory!FailJob, Memory!SummarizerDies, Memory!rows, Memory!config, Memory!history
<1>3. \/ m_job' = m_job
      \/ \E k \in DOMAIN m_job, st \in {"running", "succeeded"} : m_job' = [m_job EXCEPT ![k].status = st]
      \/ \E k \in DOMAIN m_job : m_job' = [m_job EXCEPT ![k].status = "failed", ![k].attempts = @ + 1]
  BY DEF Memory!SummaryStep, Memory!Claim, Memory!ReadBase, Memory!ListWindow, Memory!SetSummary, Memory!CompleteJob,
     Memory!FailJob, Memory!SummarizerDies, Memory!rows
<1>4. m_job' \in [DOMAIN m_job -> Memory!Jobs] /\ \A k \in DOMAIN m_job : m_job'[k].from = m_job[k].from
  <2>1. ASSUME NEW k \in DOMAIN m_job, NEW st \in {"running", "succeeded"}, m_job' = [m_job EXCEPT ![k].status = st]
        PROVE  m_job' \in [DOMAIN m_job -> Memory!Jobs] /\ \A i \in DOMAIN m_job : m_job'[i].from = m_job[i].from
    <3> DEFINE j == [m_job[k] EXCEPT !.status = st]
    <3>1. j \in Memory!Jobs /\ j.from = m_job[k].from
      BY <1>1 DEF Memory!Jobs
    <3>2. m_job' = [m_job EXCEPT ![k] = j]
      BY <1>1, <2>1
    <3> HIDE DEF j
    <3> QED BY <1>1, <3>1, <3>2
  <2>2. ASSUME NEW k \in DOMAIN m_job, m_job' = [m_job EXCEPT ![k].status = "failed", ![k].attempts = @ + 1]
        PROVE  m_job' \in [DOMAIN m_job -> Memory!Jobs] /\ \A i \in DOMAIN m_job : m_job'[i].from = m_job[i].from
    <3> DEFINE a == m_job[k].attempts + 1
               j == [m_job[k] EXCEPT !.status = "failed", !.attempts = a]
    <3>1. a \in Nat
      BY <1>1 DEF Memory!Jobs
    <3>2. m_job' = [m_job EXCEPT ![k] = j]
      BY <1>1, <2>2
    <3> HIDE DEF a
    <3>3. j \in Memory!Jobs /\ j.from = m_job[k].from
      BY <1>1, <3>1 DEF Memory!Jobs
    <3> HIDE DEF j
    <3> QED BY <1>1, <3>2, <3>3
  <2> QED BY <1>1, <1>3, <2>1, <2>2
<1>5. Memory!SetSummary(s) => m_job' = m_job
  BY DEF Memory!SetSummary
<1> QED BY <1>2, <1>4, <1>5

\* The summary of a worker that names the present version accounts for what it passes.
LEMMA MemorySets ==
    ASSUME Memory!MemoryInv, NEW s \in Workers, Memory!SetSummary(s)
    PROVE  \/ m_conv' = m_conv
           \/ /\ m_conv' \in Memory!Rows /\ m_conv.there /\ m_conv'.there
              /\ m_conv'.until = m_sum[s].key[2] /\ m_conv'.version = m_conv.version + 1
              /\ m_conv'.until # 0 /\ ~ Memory!Gone(m_sum[s].key[2]) /\ m_conv.version = m_sum[s].key[1]
              /\ ~ m_reverted => \A m \in Memory!Completed : m <= m_conv'.until => m \in m_conv'.covers \cup m_late
<1>0. /\ Memory!TypeOK /\ Memory!WorkersAreTrue /\ m_sum[s].pc = "save"
      /\ m_sum[s] \in Memory!Runs /\ m_conv \in Memory!Rows
  BY DEF Memory!MemoryInv, Memory!SetSummary, Memory!TypeOK
<1>1. CASE Memory!SameVersion(s) /\ ~ Memory!Gone(m_sum[s].key[2])
  <2> DEFINE C == m_sum[s].base \cup m_sum[s].got
             b == m_sum[s].key[2]
             n == m_conv.version + 1
             w == [m_conv EXCEPT !.covers = C, !.until = b, !.version = n]
  <2>1. C \in SUBSET Memory!Messages /\ b \in 0..(2 * N) /\ b # 0
    BY <1>0 DEF Memory!Runs, Memory!WorkersAreTrue
  <2>2. m_conv' = w
    <3>1. m_conv' = [m_conv EXCEPT !.covers = C, !.until = b, !.version = @ + 1]
      BY <1>1 DEF Memory!SetSummary
    <3> QED BY <1>0, <3>1 DEF Memory!Rows
  <2>3. m_conv.there /\ m_conv.version = m_sum[s].key[1]
    BY <1>1 DEF Memory!SameVersion
  <2>4. ~ m_reverted => \A m \in Memory!Completed : m <= b => m \in C \cup m_late
    BY <1>0, <1>1, <2>3 DEF Memory!WorkersAreTrue, Memory!Accounts
  <2>5. b = m_sum[s].key[2]
    OBVIOUS
  <2>7. n \in Nat /\ n = m_conv.version + 1
    BY <1>0 DEF Memory!Rows
  <2> HIDE DEF C, b, n
  <2>6. w \in Memory!Rows /\ w.there = m_conv.there /\ w.until = b /\ w.version = n /\ w.covers = C
    BY <1>0, <2>1, <2>7 DEF Memory!Rows
  <2> HIDE DEF w
  <2> QED BY <1>1, <2>7, <2>1, <2>2, <2>3, <2>4, <2>5, <2>6
<1>2. CASE ~ (Memory!SameVersion(s) /\ ~ Memory!Gone(m_sum[s].key[2]))
  BY <1>2 DEF Memory!SetSummary
<1> QED BY <1>1, <1>2

LEMMA MemorySummaries ==
    ASSUME Memory!MemoryInv, NEW s \in Workers, Memory!SummaryStep(s) PROVE Memory!MemoryInv'
<1>0. /\ Memory!TypeOK /\ Memory!NotYet /\ Memory!RowsAreTrue /\ Memory!WorkersAreTrue
      /\ Memory!ContextsAreTrue /\ Memory!SummaryAccounts /\ Memory!DeletedIsEmpty /\ Memory!JobsAreTrue
      /\ Memory!ContextWhole /\ Memory!Asked /\ Memory!StaysRemembered
  BY DEF Memory!MemoryInv
<1>1. PICK y \in Memory!Runs :
              /\ m_sum' = [m_sum EXCEPT ![s] = y]
              /\ \/ Memory!Claim(s) /\ y.pc = "base" /\ y.key \in DOMAIN m_job
                 \/ Memory!ReadBase(s) /\ y.key = m_sum[s].key /\ y.base = m_conv.covers
                    /\ m_sum[s].pc = "base" /\ y.pc = (IF m_conv.there THEN "list" ELSE "close")
                 \/ Memory!ListWindow(s) /\ y.key = m_sum[s].key /\ y.base = m_sum[s].base
                    /\ m_sum[s].pc = "list" /\ y.pc = (IF y.got = {} THEN "close" ELSE "save")
                    /\ y.got = IF y.key \in DOMAIN m_job THEN Memory!Listed(m_job[y.key].from, y.key[2]) ELSE {}
                 \/ Memory!SetSummary(s) /\ m_sum[s].pc = "save" /\ y.key = m_sum[s].key /\ y.pc = "close"
                 \/ (Memory!CompleteJob(s) \/ Memory!FailJob(s) \/ Memory!SummarizerDies(s)) /\ y = Memory!Resting
  BY <1>0, MemoryWorks
<1>2. /\ UNCHANGED <<m_msg, m_task, m_memory, m_made, m_owner, m_says, m_summing, m_late, m_missed, m_reverted, m_told, m_spilled>>
      /\ m_job' \in [DOMAIN m_job -> Memory!Jobs] /\ DOMAIN m_job' = DOMAIN m_job
      /\ \A k \in DOMAIN m_job : m_job'[k].from = m_job[k].from
      /\ ~ Memory!SetSummary(s) => m_conv' = m_conv
  BY <1>0, MemoryWorkRest
<1>3. /\ m_sum \in [Workers -> Memory!Runs] /\ m_conv \in Memory!Rows /\ DOMAIN m_job \subseteq Nat \X Memory!Messages
      /\ m_conv.version \in Nat /\ m_conv.until \in 0..(2 * N)
  BY <1>0 DEF Memory!TypeOK, Memory!Rows
<1>4. \A w \in Workers : m_sum'[w] = m_sum[w] \/ (w = s /\ m_sum'[w] = y)
  BY <1>1, <1>3
<1> DEFINE Written ==
              /\ m_conv' \in Memory!Rows /\ m_conv.there /\ m_conv'.there /\ Memory!SetSummary(s)
              /\ m_conv'.until = m_sum[s].key[2] /\ m_conv'.version = m_conv.version + 1
              /\ m_conv'.until # 0 /\ ~ Memory!Gone(m_sum[s].key[2]) /\ m_conv.version = m_sum[s].key[1]
              /\ ~ m_reverted => \A m \in Memory!Completed : m <= m_conv'.until => m \in m_conv'.covers \cup m_late
<1>5. m_conv' = m_conv \/ Written
  BY <1>2, MemorySets
<1>6. Memory!Copies' = Memory!Copies /\ Memory!Completed' = Memory!Completed
  BY <1>2 DEF Memory!Copies, Memory!Completed
<1>7. y.key = m_sum[s].key \/ y.key = <<0, 0>> \/ y.key \in DOMAIN m_job
  BY <1>1 DEF Memory!Resting
<1> HIDE DEF Written
<1>8. Memory!TypeOK'
  <2>1. m_conv' \in Memory!Rows
    BY <1>3, <1>5 DEF Written
  <2>2. m_sum' \in [Workers -> Memory!Runs]
    BY <1>1, <1>3
  <2> QED BY <1>0, <1>2, <2>1, <2>2 DEF Memory!TypeOK
<1>9. Memory!Asked' /\ Memory!ContextWhole' /\ Memory!StaysRemembered' /\ Memory!ContextsAreTrue'
  BY <1>0, <1>2 DEF Memory!Asked, Memory!ContextWhole, Memory!StaysRemembered, Memory!ContextsAreTrue, Memory!At, Memory!Gone
<1>10. Memory!DeletedIsEmpty'
  BY <1>0, <1>2, <1>5 DEF Written, Memory!DeletedIsEmpty
<1>11. Memory!NotYet'
  <2>1. SUFFICES ASSUME NEW u \in Memory!Tasks, Memory!Uncome(u), NEW m \in {Memory!Request(u), Memory!Response(u)}
                 PROVE  m_conv'.until # m /\ \A w \in Workers : m_sum'[w].key[2] # m
    BY <1>0, <1>2, <1>6 DEF Memory!NotYet, Memory!Uncome, Memory!At, Memory!Request, Memory!Response
  <2>2. m \in Memory!Messages /\ m # 0
    BY MemoryNames
  <2>3. m_msg[m] = "none" /\ m_conv.until # m /\ \A w \in Workers : m_sum[w].key[2] # m
    BY <1>0, <2>1 DEF Memory!NotYet
  <2>4. y.key[2] # m
    BY <1>0, <1>7, <2>2, <2>3 DEF Memory!JobsAreTrue
  <2> QED BY <1>4, <1>5, <2>3, <2>4 DEF Written
<1>12. Memory!RowsAreTrue'
  <2>1. CASE m_conv' = m_conv
    BY <1>0, <1>2, <1>6, <2>1 DEF Memory!RowsAreTrue, Memory!TrueCopy, Memory!Refers, Memory!Gone, Memory!Shape, Memory!EmptyAtFirst
  <2>2. CASE Written
    <3>1. Memory!Refers(m_conv)' /\ Memory!Shape(m_conv)' /\ Memory!EmptyAtFirst(m_conv)'
      BY <1>2, <1>3, <2>2 DEF Written, Memory!Refers, Memory!Gone, Memory!Shape, Memory!EmptyAtFirst
    <3>2. ASSUME NEW row \in Memory!Copies PROVE Memory!TrueCopy(row)'
      <4>1. Memory!TrueCopy(row) /\ row.version \in Nat
        BY <1>0, MemoryCopies DEF Memory!RowsAreTrue, Memory!Rows
      <4>2. Memory!Refers(row)' <=> Memory!Refers(row)
        BY <1>2 DEF Memory!Refers, Memory!Gone
      <4> QED BY <1>2, <1>3, <2>2, <4>1, <4>2 DEF Written, Memory!TrueCopy, Memory!Shape, Memory!EmptyAtFirst
    <3> QED BY <1>6, <3>1, <3>2 DEF Memory!RowsAreTrue
  <2> QED BY <1>5, <2>1, <2>2
<1>13. Memory!JobsAreTrue'
  <2>1. SUFFICES ASSUME NEW k \in DOMAIN m_job
                 PROVE  /\ m_msg[k[2]] # "none"
                        /\ ~ m_reverted => k[1] <= m_conv'.version /\ (k[1] = m_conv'.version => m_job[k].from = m_conv'.until)
    BY <1>2 DEF Memory!JobsAreTrue
  <2>2. k[1] \in Nat
    BY <1>3
  <2> QED BY <1>0, <1>3, <1>5, <2>1, <2>2 DEF Written, Memory!JobsAreTrue
<1>14. Memory!SummaryAccounts'
  BY <1>0, <1>2, <1>5, <1>6 DEF Written, Memory!SummaryAccounts
<1>15. Memory!WorkersAreTrue'
  <2>1. SUFFICES ASSUME NEW w \in Workers
                 PROVE  /\ m_sum'[w].pc # "idle" => m_sum'[w].key[2] # 0
                        /\ m_sum'[w].pc # "idle" /\ ~ Memory!Gone(m_sum[w].key[2])' /\ ~ m_reverted' =>
                            /\ m_sum'[w].key[1] <= m_conv'.version
                            /\ m_sum'[w].pc = "list" /\ m_sum'[w].key[1] = m_conv'.version => m_sum'[w].base = m_conv'.covers
                            /\ m_sum'[w].pc = "save" /\ m_sum'[w].key[1] = m_conv'.version => Memory!Accounts(w)'
    BY DEF Memory!WorkersAreTrue
  <2>2. m_sum[w].pc # "idle" => m_sum[w].key[2] # 0
    BY <1>0 DEF Memory!WorkersAreTrue
  <2>3. m_sum[w].pc # "idle" /\ ~ Memory!Gone(m_sum[w].key[2]) /\ ~ m_reverted =>
              /\ m_sum[w].key[1] <= m_conv.version
              /\ m_sum[w].pc = "list" /\ m_sum[w].key[1] = m_conv.version => m_sum[w].base = m_conv.covers
              /\ m_sum[w].pc = "save" /\ m_sum[w].key[1] = m_conv.version => Memory!Accounts(w)
    BY <1>0 DEF Memory!WorkersAreTrue
  <2>4. m_sum[w].key[1] \in Nat /\ m_sum[w].key[2] \in 0..(2 * N)
    BY <1>3 DEF Memory!Runs
  <2>5. CASE m_sum'[w] = m_sum[w]
    <3>1. Memory!Accounts(w)' <=> Memory!Accounts(w)
      BY <1>2, <1>6, <2>5 DEF Memory!Accounts
    <3>2. Memory!Gone(m_sum[w].key[2])' <=> Memory!Gone(m_sum[w].key[2])
      BY <1>2, <2>5 DEF Memory!Gone
    <3>3. CASE m_conv' = m_conv
      BY <1>2, <2>2, <2>3, <2>5, <3>1, <3>2, <3>3
    <3>4. CASE Written
      <4>1. m_conv'.version = m_conv.version + 1
        BY <3>4 DEF Written
      <4> QED BY <1>2, <1>3, <2>2, <2>3, <2>4, <2>5, <3>2, <4>1
    <3> QED BY <1>5, <3>3, <3>4
  <2>6. CASE w = s /\ m_sum'[s] = y
    <3>1. Memory!Gone(m_sum[s].key[2])' <=> Memory!Gone(y.key[2])
      BY <1>2, <2>6 DEF Memory!Gone
    <3>2. CASE Memory!Claim(s) /\ y.pc = "base" /\ y.key \in DOMAIN m_job
      <4>1. m_conv' = m_conv
        BY <3>2 DEF Memory!Claim
      <4>2. y.key[2] # 0 /\ (~ m_reverted => y.key[1] <= m_conv.version)
        BY <1>0, <1>3, <3>2, MemoryNames DEF Memory!JobsAreTrue
      <4> QED BY <1>2, <2>6, <3>2, <4>1, <4>2
    <3>3. CASE /\ Memory!ReadBase(s) /\ y.key = m_sum[s].key /\ y.base = m_conv.covers
               /\ m_sum[s].pc = "base" /\ y.pc = (IF m_conv.there THEN "list" ELSE "close")
      <4>1. m_conv' = m_conv
        BY <3>3 DEF Memory!ReadBase, Memory!rows
      <4> QED BY <1>2, <2>2, <2>3, <2>6, <3>1, <3>3, <4>1
    <3>4. CASE /\ Memory!ListWindow(s) /\ y.key = m_sum[s].key /\ y.base = m_sum[s].base
               /\ m_sum[s].pc = "list" /\ y.pc = (IF y.got = {} THEN "close" ELSE "save")
               /\ y.got = IF y.key \in DOMAIN m_job THEN Memory!Listed(m_job[y.key].from, y.key[2]) ELSE {}
      <4>1. m_conv' = m_conv
        BY <3>4 DEF Memory!ListWindow, Memory!rows
      <4>2. ASSUME y.got # {}, y.key[1] = m_conv.version, ~ m_reverted, ~ Memory!Gone(y.key[2]) PROVE Memory!Accounts(s)'
        <5> DEFINE k == y.key
        <5>1. k \in DOMAIN m_job /\ y.got = Memory!Listed(m_job[k].from, k[2]) /\ k[2] # 0
          BY <2>2, <2>6, <3>4, <4>2
        <5>2. m_conv.there /\ m_job[k].from = m_conv.until
          BY <1>0, <4>2, <5>1 DEF Memory!JobsAreTrue, Memory!DeletedIsEmpty
        <5>3. y.got = {m \in Memory!Completed : m_conv.until < m /\ (k[2] # 0 => m <= k[2])}
          BY <4>2, <5>1, <5>2 DEF Memory!Listed
        <5>4. y.base = m_conv.covers
          BY <2>3, <2>6, <3>4, <4>2
        <5>5. SUFFICES ASSUME NEW m \in Memory!Completed, m <= k[2] PROVE m \in y.base \cup y.got \cup m_late
          BY <1>2, <1>6, <2>6 DEF Memory!Accounts
        <5>6. m \in Nat
          BY MemoryNames DEF Memory!Completed
        <5>7. CASE m <= m_conv.until
          BY <1>0, <4>2, <5>2, <5>4, <5>7 DEF Memory!SummaryAccounts
        <5>8. CASE m_conv.until < m
          BY <5>3, <5>5, <5>8
        <5>9. m_conv.until \in Nat
          BY <1>3, ServicesAssumption
        <5> QED BY <5>6, <5>7, <5>8, <5>9
      <4> QED BY <1>2, <2>2, <2>3, <2>6, <3>1, <3>4, <4>1, <4>2
    <3>5. CASE Memory!SetSummary(s) /\ m_sum[s].pc = "save" /\ y.key = m_sum[s].key /\ y.pc = "close"
      <4>1. m_conv'.version = m_conv.version \/ m_conv'.version = m_conv.version + 1
        BY <1>5 DEF Written
      <4> QED BY <1>2, <1>3, <2>2, <2>3, <2>4, <2>6, <3>1, <3>5, <4>1
    <3>6. CASE y = Memory!Resting
      BY <2>6, <3>6 DEF Memory!Resting
    <3> QED BY <1>1, <3>2, <3>3, <3>4, <3>5, <3>6
  <2> QED BY <1>4, <2>5, <2>6
<1> QED BY <1>8, <1>9, <1>10, <1>11, <1>12, <1>13, <1>14, <1>15 DEF Memory!MemoryInv

\* The steps of the owner.
LEMMA MemoryRenames ==
    ASSUME Memory!MemoryInv, Memory!BeginRename \/ Memory!SaveRename PROVE Memory!MemoryInv'
<1>0. /\ Memory!TypeOK /\ Memory!NotYet /\ Memory!RowsAreTrue /\ Memory!WorkersAreTrue
      /\ Memory!ContextsAreTrue /\ Memory!SummaryAccounts /\ Memory!DeletedIsEmpty /\ Memory!JobsAreTrue
      /\ Memory!ContextWhole /\ Memory!Asked /\ Memory!StaysRemembered
  BY DEF Memory!MemoryInv
<1>1. /\ UNCHANGED <<m_msg, m_task, m_job, m_sum, m_memory, m_made, m_says, m_summing, m_late, m_missed, m_told, m_spilled>>
  BY DEF Memory!BeginRename, Memory!SaveRename, Memory!rows, Memory!config, Memory!history
<1>2. /\ m_conv \in Memory!Rows /\ m_owner \in [pc : {"idle", "rename"}, row : Memory!Rows]
      /\ m_owner.row \in Memory!Rows /\ m_owner.row \in Memory!Copies
      /\ m_reverted \in BOOLEAN /\ 1 \in Memory!Tasks
  BY <1>0, ServicesAssumption DEF Memory!TypeOK, Memory!Copies, Memory!Tasks
<1>3. Memory!Refers(m_conv) /\ Memory!Shape(m_conv) /\ Memory!EmptyAtFirst(m_conv)
  BY <1>0 DEF Memory!RowsAreTrue
<1>4. Memory!Fresh \in Memory!Rows
  BY <1>0, MemoryFresh
<1> DEFINE Kept ==
        /\ ~ m_conv.there => m_conv' = m_conv
        /\ m_conv'.there = m_conv.there
        /\ Memory!Refers(m_conv)' /\ Memory!Shape(m_conv') /\ Memory!EmptyAtFirst(m_conv')
        /\ m_conv'.until = m_conv.until \/ \E r \in Memory!Copies : m_conv'.until = r.until
        /\ ~ m_reverted' => /\ ~ m_reverted /\ m_conv'.version = m_conv.version
                            /\ m_conv'.until = m_conv.until /\ m_conv'.covers = m_conv.covers
        /\ m_conv' \in Memory!Rows /\ m_reverted' \in BOOLEAN
        /\ m_owner' \in [pc : {"idle", "rename"}, row : Memory!Rows]
        /\ m_owner'.row = Memory!Fresh \/ (m_conv.there /\ m_conv' = m_conv /\ m_owner'.row = m_conv)
<1>5. ASSUME Memory!BeginRename PROVE Kept
  <2>1. m_conv' = m_conv /\ m_reverted' = m_reverted /\ m_conv.there /\ m_owner' = [pc |-> "rename", row |-> m_conv]
    BY <1>5 DEF Memory!BeginRename, Memory!rows, Memory!history
  <2>2. Memory!Refers(m_conv)'
    BY <1>1, <1>3, <2>1 DEF Memory!Refers, Memory!Gone
  <2> QED BY <1>2, <1>3, <2>1, <2>2
<1>6. ASSUME Memory!SaveRename PROVE Kept
  <2> DEFINE r == m_owner.row
             w == [r EXCEPT !.title = "renamed"]
  <2>1. Memory!Save(w) /\ m_owner' = [pc |-> "idle", row |-> Memory!Fresh] /\ r \in Memory!Rows /\ r \in Memory!Copies
    BY <1>2, <1>6 DEF Memory!SaveRename
  <2> HIDE DEF r
  <2>2. w \in Memory!Rows /\ w.there = r.there /\ w.until = r.until /\ w.version = r.version /\ w.covers = r.covers
    BY <2>1 DEF Memory!Rows
  <2> HIDE DEF w
  <2>3. /\ ~ m_conv.there => m_conv' = m_conv
        /\ m_conv'.there = m_conv.there
        /\ Memory!Refers(m_conv)' /\ Memory!Shape(m_conv') /\ Memory!EmptyAtFirst(m_conv')
        /\ m_conv'.until = m_conv.until \/ \E c \in Memory!Copies : m_conv'.until = c.until
        /\ ~ m_reverted' => /\ ~ m_reverted /\ m_conv'.version = m_conv.version
                            /\ m_conv'.until = m_conv.until /\ m_conv'.covers = m_conv.covers
    BY <1>1, <2>1, <2>2, MemorySaves
  <2>4. m_conv' \in Memory!Rows /\ m_reverted' \in BOOLEAN
    BY <1>2, <2>1, <2>2 DEF Memory!Save
  <2>5. m_owner' \in [pc : {"idle", "rename"}, row : Memory!Rows] /\ m_owner'.row = Memory!Fresh
    BY <1>4, <2>1
  <2> QED BY <2>3, <2>4, <2>5
<1>7. Kept
  BY <1>5, <1>6
<1> HIDE DEF Kept
<1>8. Memory!TypeOK'
  BY <1>0, <1>1, <1>7 DEF Kept, Memory!TypeOK
<1>9. \A row \in Memory!Copies' : row \in Memory!Copies \/ row = Memory!Fresh
                                       \/ (m_conv.there /\ m_conv' = m_conv /\ row = m_conv)
  BY <1>1, <1>7 DEF Kept, Memory!Copies
<1>10. \E x \in Memory!Drivers : x.pc = "done" /\ x.owed = {}
  <2>1. Memory!Idle \in Memory!Drivers /\ Memory!Idle.owed = {}
    BY <1>4 DEF Memory!Idle, Memory!Drivers, Memory!Stages
  <2> DEFINE x == [Memory!Idle EXCEPT !.pc = "done"]
  <2>2. x \in Memory!Drivers /\ x.pc = "done" /\ x.owed = {}
    BY <2>1 DEF Memory!Drivers, Memory!Stages
  <2> HIDE DEF x
  <2> QED BY <2>2
<1>11. Memory!Completed' = Memory!Completed
  BY <1>1 DEF Memory!Completed
<1>12. Memory!NotYet' /\ Memory!RowsAreTrue' /\ Memory!WorkersAreTrue' /\ Memory!ContextsAreTrue' /\ Memory!SummaryAccounts'
  <2>1. PICK x \in Memory!Drivers : x.pc = "done" /\ x.owed = {}
    BY <1>10
  <2> QED BY <1>1, <1>2, <1>7, <1>8, <1>9, <1>11, <2>1, MemorySteady DEF Kept
<1>13. Memory!Asked' /\ Memory!StaysRemembered' /\ Memory!ContextWhole'
  BY <1>0, <1>1, <1>7 DEF Kept, Memory!Asked, Memory!StaysRemembered, Memory!ContextWhole, Memory!At
<1>14. Memory!JobsAreTrue' /\ Memory!DeletedIsEmpty'
  BY <1>0, <1>1, <1>7 DEF Kept, Memory!JobsAreTrue, Memory!DeletedIsEmpty
<1> QED BY <1>8, <1>12, <1>13, <1>14 DEF Memory!MemoryInv

LEMMA MemoryDeletes ==
    ASSUME Memory!MemoryInv, Memory!DeleteConversation PROVE Memory!MemoryInv'
<1>0. /\ Memory!TypeOK /\ Memory!NotYet /\ Memory!RowsAreTrue /\ Memory!WorkersAreTrue
      /\ Memory!ContextsAreTrue /\ Memory!Asked /\ Memory!ContextWhole
  BY DEF Memory!MemoryInv
<1>1. /\ UNCHANGED <<m_made, m_task, m_sum, m_owner, m_says, m_summing, m_late, m_missed, m_reverted, m_told>>
      /\ m_msg' = [m \in Memory!Messages |-> "none"] /\ m_job' = <<>> /\ m_memory' = Memory!Nothing /\ m_spilled' = TRUE
  BY DEF Memory!DeleteConversation, Memory!config
<1>2. m_conv' = [Memory!Fresh EXCEPT !.there = FALSE] /\ Memory!Fresh \in Memory!Rows
  BY <1>0, MemoryFresh DEF Memory!DeleteConversation
<1>3. m_conv' \in Memory!Rows /\ ~ m_conv'.there /\ m_conv'.until = 0 /\ m_conv'.version = 0 /\ m_conv'.covers = {}
  <2>1. Memory!Fresh.until = 0 /\ Memory!Fresh.version = 0 /\ Memory!Fresh.covers = {}
    BY DEF Memory!Fresh
  <2> QED BY <1>2, <2>1 DEF Memory!Rows
<1>4. DOMAIN m_job' = {}
  BY <1>1
<1>5. Memory!TypeOK'
  <2>1. m_msg' \in [Memory!Messages -> {"none", "pending", "completed", "failed"}]
    BY <1>1
  <2>2. m_memory' \in [id : Nat, name : Grants \cup {"none"}] /\ (m_memory'.id = 0 <=> m_memory'.name = "none")
    BY <1>1 DEF Memory!Nothing
  <2>3. DOMAIN m_job' \subseteq Nat \X Memory!Messages /\ m_job' \in [DOMAIN m_job' -> Memory!Jobs]
    <3>1. m_job' = [k \in {} |-> k]
      BY <1>1
    <3> QED BY <1>4, <3>1
  <2> QED BY <1>0, <1>1, <1>3, <2>1, <2>2, <2>3 DEF Memory!TypeOK
<1>6. Memory!Copies' = Memory!Copies /\ Memory!Completed' = {}
  BY <1>1 DEF Memory!Copies, Memory!Completed
<1>7. Memory!Asked' /\ Memory!ContextWhole' /\ Memory!StaysRemembered'
  BY <1>0, <1>1 DEF Memory!Asked, Memory!ContextWhole, Memory!StaysRemembered
<1>8. Memory!NotYet'
  <2>1. SUFFICES ASSUME NEW u \in Memory!Tasks, Memory!Uncome(u), NEW m \in {Memory!Request(u), Memory!Response(u)}
                 PROVE  m_msg'[m] = "none" /\ m_conv'.until # m
    BY <1>0, <1>1, <1>6 DEF Memory!NotYet, Memory!Uncome, Memory!At, Memory!Request, Memory!Response
  <2> QED BY <1>1, <1>3, <2>1, MemoryNames
<1>9. Memory!DeletedIsEmpty' /\ Memory!JobsAreTrue'
  BY <1>1, <1>3, <1>4 DEF Memory!DeletedIsEmpty, Memory!JobsAreTrue
<1>10. Memory!RowsAreTrue' /\ Memory!SummaryAccounts'
  <2>1. Memory!Refers(m_conv)' /\ Memory!Shape(m_conv)' /\ Memory!EmptyAtFirst(m_conv)'
    BY <1>3 DEF Memory!Refers, Memory!Gone, Memory!Shape, Memory!EmptyAtFirst
  <2>2. ASSUME NEW row \in Memory!Copies PROVE Memory!TrueCopy(row)'
    BY <1>0, <1>3 DEF Memory!RowsAreTrue, Memory!TrueCopy, Memory!Shape, Memory!EmptyAtFirst
  <2>3. Memory!SummaryAccounts'
    BY <1>3 DEF Memory!SummaryAccounts
  <2> QED BY <1>6, <2>1, <2>2, <2>3 DEF Memory!RowsAreTrue
<1>11. Memory!WorkersAreTrue'
  <2>1. SUFFICES ASSUME NEW s \in Workers, m_sum[s].pc # "idle"
                 PROVE  m_sum[s].key[2] # 0 /\ Memory!Gone(m_sum[s].key[2])'
    BY <1>1 DEF Memory!WorkersAreTrue
  <2>2. m_sum[s].key[2] # 0 /\ m_sum[s].key[2] \in 0..(2 * N)
    BY <1>0, <2>1 DEF Memory!WorkersAreTrue, Memory!TypeOK, Memory!Runs
  <2>3. m_sum[s].key[2] \in Memory!Messages
    BY <2>2, ServicesAssumption DEF Memory!Messages
  <2> QED BY <1>1, <2>2, <2>3 DEF Memory!Gone
<1>12. Memory!ContextsAreTrue'
  <2>1. \A u \in Memory!Tasks : m_task[u].owed \subseteq Memory!Messages
    BY <1>0 DEF Memory!TypeOK, Memory!Drivers
  <2> QED BY <1>0, <1>1, <2>1 DEF Memory!ContextsAreTrue, Memory!At
<1> QED BY <1>5, <1>7, <1>8, <1>9, <1>10, <1>11, <1>12 DEF Memory!MemoryInv

LEMMA MemoryForgets ==
    ASSUME Memory!MemoryInv, Memory!OwnerForgets PROVE Memory!MemoryInv'
<1>1. /\ UNCHANGED <<m_conv, m_msg, m_job, m_made, m_task, m_sum, m_owner, m_says, m_summing, m_late, m_missed, m_reverted, m_told>>
      /\ m_memory' = Memory!Nothing /\ m_spilled' = TRUE
  BY DEF Memory!OwnerForgets, Memory!config
<1>2. m_memory' \in [id : Nat, name : Grants \cup {"none"}] /\ (m_memory'.id = 0 <=> m_memory'.name = "none")
  BY <1>1 DEF Memory!Nothing
<1>3. Memory!TypeOK'
  BY <1>1, <1>2 DEF Memory!MemoryInv, Memory!TypeOK
<1>4. Memory!Copies' = Memory!Copies /\ Memory!Completed' = Memory!Completed
  BY <1>1 DEF Memory!Copies, Memory!Completed
<1>5. Memory!Asked' /\ Memory!NotYet'
  BY <1>1, <1>4 DEF Memory!MemoryInv, Memory!Asked, Memory!NotYet, Memory!Uncome, Memory!At, Memory!Request, Memory!Response
<1>6. Memory!DeletedIsEmpty' /\ Memory!JobsAreTrue' /\ Memory!StaysRemembered' /\ Memory!ContextWhole'
  BY <1>1 DEF Memory!MemoryInv, Memory!DeletedIsEmpty, Memory!JobsAreTrue, Memory!StaysRemembered, Memory!ContextWhole
<1>7. Memory!RowsAreTrue'
  BY <1>1, <1>4 DEF Memory!MemoryInv, Memory!RowsAreTrue, Memory!TrueCopy, Memory!Refers, Memory!Gone, Memory!Shape, Memory!EmptyAtFirst
<1>8. Memory!WorkersAreTrue' /\ Memory!ContextsAreTrue' /\ Memory!SummaryAccounts'
  BY <1>1, <1>4 DEF Memory!MemoryInv, Memory!WorkersAreTrue, Memory!ContextsAreTrue, Memory!SummaryAccounts,
     Memory!Accounts, Memory!Gone, Memory!At
<1> QED BY <1>3, <1>5, <1>6, <1>7, <1>8 DEF Memory!MemoryInv

LEMMA MemoryStep ==
    ASSUME Memory!MemoryInv, Memory!Next PROVE Memory!MemoryInv'
<1>0. Memory!TypeOK /\ Memory!Asked
  BY DEF Memory!MemoryInv
<1>1. ASSUME NEW t \in Memory!Tasks, Memory!TaskStep(t) PROVE Memory!MemoryInv'
  <2>1. Memory!TypeOK' /\ Memory!Asked' /\ Memory!StaysRemembered'
    BY <1>0, <1>1, MemoryTaskTypes, MemoryAsks, MemoryTaskKeeps
  <2>2. CASE Memory!CreateTask(t)
    BY <2>1, <2>2, MemoryCreates DEF Memory!MemoryInv
  <2>3. CASE ~ Memory!CreateTask(t)
    BY <1>1, <2>1, <2>3, MemoryTaskSteady, MemoryTaskRest DEF Memory!MemoryInv
  <2> QED BY <2>2, <2>3
<1>2. ASSUME NEW s \in Workers, Memory!SummaryStep(s) PROVE Memory!MemoryInv'
  BY <1>2, MemorySummaries
<1>3. CASE Memory!OwnerStep
  BY <1>3, MemoryRenames, MemoryDeletes, MemoryForgets DEF Memory!OwnerStep
<1> QED BY <1>1, <1>2, <1>3 DEF Memory!Next

LEMMA MemoryStill ==
    ASSUME Memory!MemoryInv, UNCHANGED memoryVars PROVE Memory!MemoryInv'
<1>1. UNCHANGED <<m_conv, m_msg, m_job, m_memory, m_made, m_task, m_sum, m_owner, m_says, m_summing, m_late, m_missed,
                  m_reverted, m_told, m_spilled>>
  BY DEF memoryVars
<1>3. Memory!TypeOK'
  BY <1>1 DEF Memory!MemoryInv, Memory!TypeOK
<1>4. Memory!Copies' = Memory!Copies /\ Memory!Completed' = Memory!Completed
  BY <1>1 DEF Memory!Copies, Memory!Completed
<1>5. Memory!Asked' /\ Memory!NotYet'
  BY <1>1, <1>4 DEF Memory!MemoryInv, Memory!Asked, Memory!NotYet, Memory!Uncome, Memory!At, Memory!Request, Memory!Response
<1>6. Memory!DeletedIsEmpty' /\ Memory!JobsAreTrue' /\ Memory!StaysRemembered' /\ Memory!ContextWhole'
  BY <1>1 DEF Memory!MemoryInv, Memory!DeletedIsEmpty, Memory!JobsAreTrue, Memory!StaysRemembered, Memory!ContextWhole, Memory!At
<1>7. Memory!RowsAreTrue'
  BY <1>1, <1>4 DEF Memory!MemoryInv, Memory!RowsAreTrue, Memory!TrueCopy, Memory!Refers, Memory!Gone, Memory!Shape, Memory!EmptyAtFirst
<1>8. Memory!WorkersAreTrue' /\ Memory!ContextsAreTrue' /\ Memory!SummaryAccounts'
  BY <1>1, <1>4 DEF Memory!MemoryInv, Memory!WorkersAreTrue, Memory!ContextsAreTrue, Memory!SummaryAccounts,
     Memory!Accounts, Memory!Gone, Memory!At
<1> QED BY <1>3, <1>5, <1>6, <1>7, <1>8 DEF Memory!MemoryInv

\* The conversations it begins with are of the kind the module speaks of.
LEMMA MemoryTalk ==
    ASSUME NEW c \in MemoryTalks
    PROVE  /\ c.there \in 0..N /\ c.summing \in BOOLEAN /\ c.title \in {"first", "made", "renamed"}
           /\ c.says \in [Memory!Tasks -> Grants \cup {"none"}]
<1>1. Silence \in [1..N -> Grants \cup {"none"}]
  BY DEF Silence
<1>2. Requests \subseteq [1..N -> Grants \cup {"none"}]
  <2>1. ASSUME NEW q \in Requests PROVE q \in [1..N -> Grants \cup {"none"}]
    <3>1. PICK x \in Grants, y \in Grants \cup {"none"} : q = [Silence EXCEPT ![1] = x, ![2] = y]
      BY <2>1 DEF Requests
    <3> QED BY <1>1, <3>1
  <2> QED BY <2>1
<1>3. 0 \in 0..N /\ 1 \in 0..N /\ 2 \in 0..N
  BY ServicesAssumption
<1>4. \A there, come, good, says, summing, title, run, fault :
         LET k == Talk(there, come, good, says, summing, title, run, fault)
         IN  k.there = there /\ k.says = says /\ k.summing = summing /\ k.title = title
  BY DEF Talk
<1>5. \E there \in {0, 1, 2}, says \in {Silence} \cup Requests, summing \in BOOLEAN, title \in {"first", "renamed"} :
         \E come, good, run, fault : c = Talk(there, come, good, says, summing, title, run, fault)
  <2>1. \/ c = Talk(1, 2..N, 2..N, Silence, TRUE, "renamed", 0, 0)
        \/ c = Talk(2, {1, 3}, {1, 3}, Silence, TRUE, "renamed", 0, 0)
        \/ c = Talk(0, 1..2, 1..2, Silence, TRUE, "first", 0, 0)
        \/ \E g \in SUBSET (1..2) : c = Talk(0, 1..2, g, Silence, TRUE, "renamed", 1, 0)
        \/ \E g \in SUBSET (1..2) : c = Talk(0, 1..2, g, Silence, TRUE, "renamed", 0, 1)
        \/ \E q \in Requests : c = Talk(0, 1..2, 1..2, q, FALSE, "renamed", 0, MaxFaults)
    BY DEF MemoryTalks
  <2> QED BY Zenon, <2>1
<1>6. PICK there \in {0, 1, 2}, says \in {Silence} \cup Requests, summing \in BOOLEAN, title \in {"first", "renamed"} :
         \E come, good, run, fault : c = Talk(there, come, good, says, summing, title, run, fault)
  BY <1>5
<1>7. c.there = there /\ c.says = says /\ c.summing = summing /\ c.title = title
  BY <1>4, <1>6
<1> QED BY <1>1, <1>2, <1>3, <1>7 DEF Memory!Tasks

LEMMA MemoryStart ==
    ASSUME Memory!Init PROVE Memory!MemoryInv
<1>1. PICK c \in MemoryTalks :
        /\ m_conv = [Memory!Fresh EXCEPT !.title = c.title] /\ m_msg = Memory!Started(c)
        /\ m_job = [k \in {<<0, Memory!Response(t)>> : t \in Memory!Waiting(c)} |-> Memory!Enqueued(0)]
        /\ m_task = [t \in Memory!Tasks |-> [Memory!Idle EXCEPT !.pc = Memory!Begun(t, c), !.good = t \in c.good \/ t \notin c.come]]
        /\ m_says = c.says /\ m_summing = c.summing
  BY DEF Memory!Init
<1>2. /\ m_memory = Memory!Nothing /\ m_made = 0
      /\ m_sum = [s \in Workers |-> Memory!Resting]
      /\ m_owner = [pc |-> "idle", row |-> Memory!Fresh]
      /\ m_late = {} /\ m_missed = {} /\ m_reverted = FALSE /\ m_told = {} /\ m_spilled = FALSE
  BY DEF Memory!Init
<1>3. /\ c.there \in 0..N /\ c.summing \in BOOLEAN /\ c.title \in {"first", "made", "renamed"}
      /\ c.says \in [Memory!Tasks -> Grants \cup {"none"}]
  BY MemoryTalk
<1>4. Memory!Fresh \in Memory!Rows /\ Memory!Fresh.there /\ Memory!Fresh.until = 0 /\ Memory!Fresh.version = 0 /\ Memory!Fresh.covers = {}
  BY ServicesAssumption DEF Memory!Fresh, Memory!Rows, Memory!Messages
<1>5. m_conv \in Memory!Rows /\ m_conv.there /\ m_conv.until = 0 /\ m_conv.version = 0 /\ m_conv.covers = {}
  BY <1>1, <1>3, <1>4 DEF Memory!Rows
<1>6. ASSUME NEW t \in Memory!Tasks
      PROVE  /\ m_task[t] \in Memory!Drivers /\ m_task[t].row = Memory!Fresh /\ m_task[t].owed = {}
             /\ m_task[t].pc = Memory!Begun(t, c)
  <2> DEFINE g == t \in c.good \/ t \notin c.come
             pc == Memory!Begun(t, c)
             x == [Memory!Idle EXCEPT !.pc = pc, !.good = g]
  <2>1. g \in BOOLEAN /\ pc \in Memory!Stages
    BY DEF Memory!Begun, Memory!Stages
  <2>2. Memory!Idle \in Memory!Drivers /\ Memory!Idle.row = Memory!Fresh /\ Memory!Idle.owed = {}
    BY <1>4 DEF Memory!Idle, Memory!Drivers, Memory!Stages
  <2>3. m_task[t] = x
    BY <1>1
  <2> HIDE DEF g
  <2>4. pc = Memory!Begun(t, c)
    OBVIOUS
  <2> HIDE DEF pc
  <2>5. x \in Memory!Drivers /\ x.row = Memory!Fresh /\ x.owed = {} /\ x.pc = pc
    BY <2>1, <2>2 DEF Memory!Drivers
  <2> HIDE DEF x
  <2> QED BY <2>3, <2>4, <2>5
<1>7. m_task \in [Memory!Tasks -> Memory!Drivers]
  BY <1>1, <1>6
<1>8. m_msg \in [Memory!Messages -> {"none", "pending", "completed", "failed"}]
  BY <1>1 DEF Memory!Started
<1>9. /\ DOMAIN m_job = {<<0, Memory!Response(t)>> : t \in Memory!Waiting(c)}
      /\ \A k \in DOMAIN m_job : m_job[k] = Memory!Enqueued(0)
      /\ m_job = [k \in DOMAIN m_job |-> Memory!Enqueued(0)]
  BY <1>1
<1>10. \A t \in Memory!Waiting(c) : t \in Memory!Tasks /\ t \in 1..c.there /\ t \notin c.come
  BY <1>3, ServicesAssumption DEF Memory!Waiting, Memory!Tasks
<1>11. DOMAIN m_job \subseteq Nat \X Memory!Messages /\ m_job \in [DOMAIN m_job -> Memory!Jobs]
  <2>1. Memory!Enqueued(0) \in Memory!Jobs
    BY ServicesAssumption DEF Memory!Enqueued, Memory!Jobs
  <2>2. DOMAIN m_job \subseteq Nat \X Memory!Messages
    BY <1>9, <1>10, MemoryNames
  <2> QED BY <1>9, <2>1, <2>2
<1>12. Memory!Resting \in Memory!Runs /\ Memory!Resting.pc = "idle" /\ Memory!Resting.key = <<0, 0>>
  BY ServicesAssumption DEF Memory!Resting, Memory!Runs
<1>13. Memory!TypeOK
  <2>1. m_sum \in [Workers -> Memory!Runs]
    BY <1>2, <1>12
  <2>2. m_owner \in [pc : {"idle", "rename"}, row : Memory!Rows]
    BY <1>2, <1>4
  <2>3. m_memory \in [id : Nat, name : Grants \cup {"none"}] /\ (m_memory.id = 0 <=> m_memory.name = "none")
    BY <1>2 DEF Memory!Nothing
  <2> QED BY <1>1, <1>2, <1>3, <1>5, <1>7, <1>8, <1>11, <2>1, <2>2, <2>3 DEF Memory!TypeOK
<1>14. \A row \in Memory!Copies : row = Memory!Fresh
  BY <1>2, <1>6 DEF Memory!Copies
<1>15. Memory!Asked /\ Memory!ContextsAreTrue
  <2>1. \A t \in Memory!Tasks : m_task[t].pc \in {"new", "work", "done"}
    BY <1>6 DEF Memory!Begun
  <2> QED BY <2>1 DEF Memory!Asked, Memory!ContextsAreTrue, Memory!At
<1>16. Memory!NotYet
  <2>1. SUFFICES ASSUME NEW t \in Memory!Tasks, Memory!Uncome(t), NEW m \in {Memory!Request(t), Memory!Response(t)}
                 PROVE  /\ m_msg[m] = "none" /\ m_conv.until # m /\ \A row \in Memory!Copies : row.until # m
                        /\ \A s \in Workers : m_sum[s].key[2] # m
                        /\ \A u \in Memory!Tasks : m \notin m_task[u].owed
    BY DEF Memory!NotYet, Memory!Request, Memory!Response
  <2>2. m \in Memory!Messages /\ m # 0
    BY MemoryNames
  <2>3. t \in c.come /\ ~ (t <= c.there)
    BY <1>6, <2>1 DEF Memory!Begun, Memory!Uncome, Memory!At
  <2>4. \A u \in 1..c.there : u \in Memory!Tasks /\ u # t
    BY <1>3, <2>3, ServicesAssumption DEF Memory!Tasks
  <2>5. \A u \in 1..c.there : m # Memory!Request(u) /\ m # Memory!Response(u)
    BY <2>1, <2>4, MemoryNames
  <2>6. m_msg[m] = "none"
    BY <1>1, <2>2, <2>5 DEF Memory!Started
  <2> QED BY <1>2, <1>4, <1>5, <1>6, <1>12, <1>14, <2>2, <2>6
<1>17. Memory!DeletedIsEmpty
  BY <1>5 DEF Memory!DeletedIsEmpty
<1>18. Memory!RowsAreTrue
  BY <1>4, <1>5, <1>14 DEF Memory!RowsAreTrue, Memory!TrueCopy, Memory!Refers, Memory!Gone, Memory!Shape, Memory!EmptyAtFirst
<1>19. Memory!JobsAreTrue
  <2>1. SUFFICES ASSUME NEW t \in Memory!Waiting(c) PROVE m_msg[Memory!Response(t)] # "none"
    BY <1>5, <1>9 DEF Memory!JobsAreTrue, Memory!Enqueued
  <2>2. Memory!Response(t) \in Memory!Messages
    BY <1>10, MemoryNames
  <2> QED BY <1>1, <1>10, <2>2 DEF Memory!Started
<1>20. Memory!WorkersAreTrue
  BY <1>2, <1>12 DEF Memory!WorkersAreTrue
<1>21. Memory!SummaryAccounts /\ Memory!ContextWhole /\ Memory!StaysRemembered
  <2>1. \A m \in Memory!Completed : ~ (m <= 0)
    BY MemoryNames DEF Memory!Completed
  <2> QED BY <1>2, <1>5, <2>1 DEF Memory!SummaryAccounts, Memory!ContextWhole, Memory!StaysRemembered
<1> QED BY <1>13, <1>15, <1>16, <1>17, <1>18, <1>19, <1>20, <1>21 DEF Memory!MemoryInv
=============================================================================
