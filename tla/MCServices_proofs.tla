--------------------------- MODULE MCServices_proofs ---------------------------
(* Theorems about the services: the safety properties of MCServices, for any  *)
(* values of its constants, from the lemmas about its parts.                  *)
EXTENDS MCServices, MCServicesCore_proofs, MCServicesKnowledge_proofs

\* The row of a connector that binds a credential finds it in the vault, unless a commit's
\* answer was lost; a row that is expired binds a refresh token the platform takes no more,
\* and one that binds none was never bound or is revoked, unless a call that had the
\* credential before, or had lost its lock, has written its verdict over it since the row
\* was bound (token, UpdateConnectorStatus, RevokeConnector, BindConnector).
THEOREM RowsFitTheVault == Spec => []RowFitsVault
<1>1. Init => (focus = "token" => Token!TokenInv)
  BY TokenStart DEF Init
<1>2. (focus = "token" => Token!TokenInv) /\ [Next]_vars => (focus = "token" => Token!TokenInv)'
  <2>1. SUFFICES ASSUME focus = "token" => Token!TokenInv, [Next]_vars, focus' = "token"
                 PROVE  Token!TokenInv'
    OBVIOUS
  <2>2. \/ focus = "token" /\ Token!Next
        \/ focus' = focus /\ UNCHANGED tokenVars
    BY <2>1 DEF Next, vars, TokenOnly, ShareOnly, WechatOnly, SessionOnly, OrgOnly, AccessOnly,
       FillOnly, PlanOnly, IntentOnly, FindOnly, PersonOnly, TreeOnly, EvidenceOnly, AnswersOnly, MemoryOnly
  <2> QED BY <2>1, <2>2, TokenStep, TokenStill
<1>3. (focus = "token" => Token!TokenInv) => RowFitsVault
  BY TokenFits DEF RowFitsVault
<1> QED BY <1>1, <1>2, <1>3, PTL DEF Spec

\* A failure that is cached for an authorization is never of the one the row binds, unless
\* its lock ran out, its commit's answer was lost or its account had lost its status; and a
\* call that is told to have the row's credential authorized again was refused a refresh
\* token which the platform takes no more, unless it was overtaken (CompleteFeishuOAuth,
\* recoverOAuthCompletion, token).
THEOREM AnswersFitTheRow == Spec => []AnswersFitRow
<1>1. Init => (focus = "token" => Token!TokenInv)
  BY TokenStart DEF Init
<1>2. (focus = "token" => Token!TokenInv) /\ [Next]_vars => (focus = "token" => Token!TokenInv)'
  <2>1. SUFFICES ASSUME focus = "token" => Token!TokenInv, [Next]_vars, focus' = "token"
                 PROVE  Token!TokenInv'
    OBVIOUS
  <2>2. \/ focus = "token" /\ Token!Next
        \/ focus' = focus /\ UNCHANGED tokenVars
    BY <2>1 DEF Next, vars, TokenOnly, ShareOnly, WechatOnly, SessionOnly, OrgOnly, AccessOnly,
       FillOnly, PlanOnly, IntentOnly, FindOnly, PersonOnly, TreeOnly, EvidenceOnly, AnswersOnly, MemoryOnly
  <2> QED BY <2>1, <2>2, TokenStep, TokenStill
<1>3. (focus = "token" => Token!TokenInv) => AnswersFitRow
  BY TokenFits DEF AnswersFitRow
<1> QED BY <1>1, <1>2, <1>3, PTL DEF Spec

\* Of one private chat one side shares, and an approved request opens the copies of its
\* knowledge base (SharePrivateResources, ReviewPrivateAccessRequest,
\* ProcessPermissions).
THEOREM OneSideSharesWhatIsOpened == Spec => []Sharing
<1>1. Init => (focus = "share" => Share!ShareInv)
  BY ShareStart DEF Init
<1>2. (focus = "share" => Share!ShareInv) /\ [Next]_vars => (focus = "share" => Share!ShareInv)'
  <2>1. SUFFICES ASSUME focus = "share" => Share!ShareInv, [Next]_vars, focus' = "share"
                 PROVE  Share!ShareInv'
    OBVIOUS
  <2>2. \/ focus = "share" /\ Share!Next
        \/ focus' = focus /\ UNCHANGED shareVars
    BY <2>1 DEF Next, vars, TokenOnly, ShareOnly, WechatOnly, SessionOnly, OrgOnly, AccessOnly,
       FillOnly, PlanOnly, IntentOnly, FindOnly, PersonOnly, TreeOnly, EvidenceOnly, AnswersOnly, MemoryOnly
  <2> QED BY <2>1, <2>2, ShareStep, ShareStill
<1>3. (focus = "share" => Share!ShareInv) => Sharing
  BY DEF Sharing, Share!Sharing, Share!ShareInv
<1> QED BY <1>1, <1>2, <1>3, PTL DEF Spec

\* Every message between the start and a WeChat cursor is stored, with its file if WeChat had
\* it, or conflicted with what is stored, or lay before the newest messages that a first page
\* or the fallback of a failed read takes: those are passed over and nobody is told
\* (messages_after, collect_once, commit_cursor, AdvanceCursor).
THEOREM CursorsVouchForMessages == Spec => []Vouched
<1>1. Init => (focus = "wechat" => Wechat!CollectsInv)
  BY WechatStart DEF Init
<1>2. (focus = "wechat" => Wechat!CollectsInv) /\ [Next]_vars => (focus = "wechat" => Wechat!CollectsInv)'
  <2>1. SUFFICES ASSUME focus = "wechat" => Wechat!CollectsInv, [Next]_vars, focus' = "wechat"
                 PROVE  Wechat!CollectsInv'
    OBVIOUS
  <2>2. \/ focus = "wechat" /\ Wechat!Next
        \/ focus' = focus /\ UNCHANGED wechatVars
    BY <2>1 DEF Next, vars, TokenOnly, ShareOnly, WechatOnly, SessionOnly, OrgOnly, AccessOnly,
       FillOnly, PlanOnly, IntentOnly, FindOnly, PersonOnly, TreeOnly, EvidenceOnly, AnswersOnly, MemoryOnly
  <2> QED BY <2>1, <2>2, WechatStep, WechatStill
<1>3. (focus = "wechat" => Wechat!CollectsInv) => Vouched
  BY DEF Vouched, Wechat!Vouched, Wechat!CollectsInv
<1> QED BY <1>1, <1>2, <1>3, PTL DEF Spec

\* An active login has exactly one good refresh token, one that is over has none, and
\* tabs that refresh at once do not end it (findSessionLua, rotateSessionLua,
\* revokeSessionLua).
THEOREM TabsRefreshAtOnce == Spec => []Sessions
<1>1. Init => (focus = "session" => Session!SessionInv)
  BY SessionStart DEF Init
<1>2. (focus = "session" => Session!SessionInv) /\ [Next]_vars => (focus = "session" => Session!SessionInv)'
  <2>1. SUFFICES ASSUME focus = "session" => Session!SessionInv, [Next]_vars, focus' = "session"
                 PROVE  Session!SessionInv'
    OBVIOUS
  <2>2. \/ focus = "session" /\ Session!Next
        \/ focus' = focus /\ UNCHANGED sessionVars
    BY <2>1 DEF Next, vars, TokenOnly, ShareOnly, WechatOnly, SessionOnly, OrgOnly, AccessOnly,
       FillOnly, PlanOnly, IntentOnly, FindOnly, PersonOnly, TreeOnly, EvidenceOnly, AnswersOnly, MemoryOnly
  <2> QED BY <2>1, <2>2, SessionStep, SessionStill
<1>3. (focus = "session" => Session!SessionInv) => Sessions
  BY DEF Sessions, Session!Sessions, Session!SessionInv
<1> QED BY <1>1, <1>2, <1>3, PTL DEF Spec

\* An organization keeps an active owner, OpenFGA knows who is privileged, and people
\* who are gone stop collecting (ChangeMembershipStatus, RevokeRole,
\* syncCurrentPrivilegedRole, OrganizationEventRelay).
THEOREM OrganizationsStayOwned == Spec => []Organized
<1>1. Init => (focus = "org" => Org!OrgInv)
  BY OrgStart DEF Init
<1>2. (focus = "org" => Org!OrgInv) /\ [Next]_vars => (focus = "org" => Org!OrgInv)'
  <2>1. SUFFICES ASSUME focus = "org" => Org!OrgInv, [Next]_vars, focus' = "org"
                 PROVE  Org!OrgInv'
    OBVIOUS
  <2>2. \/ focus = "org" /\ Org!Next
        \/ focus' = focus /\ UNCHANGED orgVars
    BY <2>1 DEF Next, vars, TokenOnly, ShareOnly, WechatOnly, SessionOnly, OrgOnly, AccessOnly,
       FillOnly, PlanOnly, IntentOnly, FindOnly, PersonOnly, TreeOnly, EvidenceOnly, AnswersOnly, MemoryOnly
  <2> QED BY <2>1, <2>2, OrgStep, OrgStill
<1>3. (focus = "org" => Org!OrgInv) => Organized
  BY DEF Organized, Org!Organized, Org!OrgInv
<1> QED BY <1>1, <1>2, <1>3, PTL DEF Spec

\* Nobody sees by a request what none was approved for, and a granted original stays
\* open until the item is deleted (Review, reconcileCurrentPermissions,
\* PermissionSyncService).
THEOREM RequestsOpenWhatIsApproved == Spec => []Requested
<1>1. Init => (focus = "access" => Access!AccessInv)
  BY AccessStart DEF Init
<1>2. (focus = "access" => Access!AccessInv) /\ [Next]_vars => (focus = "access" => Access!AccessInv)'
  <2>1. SUFFICES ASSUME focus = "access" => Access!AccessInv, [Next]_vars, focus' = "access"
                 PROVE  Access!AccessInv'
    OBVIOUS
  <2>2. \/ focus = "access" /\ Access!Next
        \/ focus' = focus /\ UNCHANGED accessVars
    BY <2>1 DEF Next, vars, TokenOnly, ShareOnly, WechatOnly, SessionOnly, OrgOnly, AccessOnly,
       FillOnly, PlanOnly, IntentOnly, FindOnly, PersonOnly, TreeOnly, EvidenceOnly, AnswersOnly, MemoryOnly
  <2> QED BY <2>1, <2>2, AccessStep, AccessStill
<1>3. (focus = "access" => Access!AccessInv) => Requested
  BY DEF Requested, Access!Requested, Access!AccessInv
<1> QED BY <1>1, <1>2, <1>3, PTL DEF Spec

\* A summary accounts for every message that it passes, the context of a task has every message in
\* the summary or behind it, and what was remembered stays, with the exceptions that Remembered
\* names (compare_and_set_conversation_summary, ConversationContextService.load,
\* upsert_conversation_memory).
THEOREM ConversationsAreRemembered == Spec => []Remembered
<1>1. Init => (focus = "memory" => Memory!MemoryInv)
  BY MemoryStart DEF Init
<1>2. (focus = "memory" => Memory!MemoryInv) /\ [Next]_vars => (focus = "memory" => Memory!MemoryInv)'
  <2>1. SUFFICES ASSUME focus = "memory" => Memory!MemoryInv, [Next]_vars, focus' = "memory"
                 PROVE  Memory!MemoryInv'
    OBVIOUS
  <2>2. \/ focus = "memory" /\ Memory!Next
        \/ focus' = focus /\ UNCHANGED memoryVars
    BY <2>1 DEF Next, vars, TokenOnly, ShareOnly, WechatOnly, SessionOnly, OrgOnly, AccessOnly,
       FillOnly, PlanOnly, IntentOnly, FindOnly, PersonOnly, TreeOnly, EvidenceOnly, AnswersOnly, MemoryOnly
  <2> QED BY <2>1, <2>2, MemoryStep, MemoryStill
<1>3. (focus = "memory" => Memory!MemoryInv) => Remembered
  BY DEF Remembered, Memory!Remembered, Memory!MemoryInv
<1> QED BY <1>1, <1>2, <1>3, PTL DEF Spec
=============================================================================
