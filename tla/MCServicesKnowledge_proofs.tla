--------------------- MODULE MCServicesKnowledge_proofs ---------------------
(* Lemmas about what the knowledge service collects and shares: connector     *)
(* tokens, private shares and the WeChat collector, whose cursor vouches for  *)
(* messages, for any workers, grants, calls, people and messages and any      *)
(* number of faults.  Each component has an inductive invariant of its own,   *)
(* named in its module (TokenInv, ShareInv, CollectsInv).                     *)
EXTENDS MCServicesParts, TLAPS, FiniteSetTheorems, WellFoundedInduction

-----------------------------------------------------------------------------
(* Connector tokens. *)

LEMMA TokenFields ==
    ASSUME Token!TypeOK, NEW c \in Workers
    PROVE  /\ t_call[c] \in Token!Call /\ t_call[c].pc \in Token!Pc
           /\ t_call[c].grant \in Grants \cup {"none"}
           /\ t_call[c].at \in Token!Row /\ t_call[c].at.ref \in Grants \cup {"none"}
           /\ t_call[c].first \in 0..MaxGen /\ t_call[c].gen \in 0..MaxGen
           /\ t_row \in Token!Row /\ t_row.ref \in Grants \cup {"none"}
BY DEF Token!TypeOK, Token!Call, Token!Row, Token!None

LEMMA TokenVault ==
    ASSUME Token!TypeOK, NEW g \in Grants
    PROVE  /\ t_vault[g] \in Token!Token /\ t_vault[g].gen \in 0..MaxGen /\ t_vault[g].fresh \in BOOLEAN
           /\ t_newest[g] \in 0..Token!Withdrawn /\ MaxGen \in Nat /\ Token!Gone \in Token!Token
           /\ Token!Gone.gen = 0 /\ Token!Withdrawn = MaxGen + 1
BY ServicesAssumption DEF Token!TypeOK, Token!Token, Token!Gone, Token!Withdrawn

LEMMA TokenNobody == Token!Rest \in Token!Call /\ Token!Rest.pc = "idle" /\ Token!Rest.at.ref = "none"
                     /\ Token!Unbound \in Token!Row /\ Token!Rest.at = Token!Unbound
<1>1. Token!Unbound \in Token!Row /\ Token!Unbound.ref = "none"
  BY DEF Token!Unbound, Token!Row, Token!None
<1>2. 0 \in 0..MaxGen
  BY ServicesAssumption
<1> QED BY <1>1, <1>2 DEF Token!Rest, Token!Call, Token!Pc, Token!None

\* A call that takes another value leaves the other calls alone.
LEMMA TokenBecomes ==
    ASSUME Token!TypeOK, NEW c \in Workers, NEW r \in Token!Call, t_call' = [t_call EXCEPT ![c] = r]
    PROVE  /\ t_call' \in [Workers -> Token!Call] /\ t_call'[c] = r
           /\ \A d \in Workers \ {c} : t_call'[d] = t_call[d]
BY DEF Token!TypeOK

\* A call that goes on to its next statement.
LEMMA TokenGoto ==
    ASSUME Token!TypeOK, NEW c \in Workers, NEW pc \in Token!Pc, Token!Goto(c, pc)
    PROVE  /\ t_call' \in [Workers -> Token!Call]
           /\ \A d \in Workers \ {c} : t_call'[d] = t_call[d]
           /\ t_call'[c].pc = pc /\ t_call'[c].at = t_call[c].at
           /\ t_call'[c].grant = t_call[c].grant /\ t_call'[c].gen = t_call[c].gen
<1> DEFINE r == [t_call[c] EXCEPT !.pc = pc]
<1>1. t_call' = [t_call EXCEPT ![c] = r]
  BY DEF Token!Goto
<1>2. r \in Token!Call
  BY TokenFields DEF Token!Call
<1>3. r.pc = pc /\ r.at = t_call[c].at /\ r.grant = t_call[c].grant /\ r.gen = t_call[c].gen
  BY TokenFields DEF Token!Call
<1> HIDE DEF r
<1> QED BY <1>1, <1>2, <1>3, TokenBecomes

\* A call that answers: what it says is still to be written down, or used.
LEMMA TokenEnd ==
    ASSUME Token!TypeOK, NEW c \in Workers, NEW outcome \in {"none", "ok", "auth", "fail"},
           Token!End(c, outcome)
    PROVE  /\ t_call' \in [Workers -> Token!Call]
           /\ \A d \in Workers \ {c} : t_call'[d] = t_call[d]
           /\ t_call'[c].pc \in {"idle", "told"} /\ t_call'[c].at.ref \in {t_call[c].at.ref, "none"}
           /\ t_call'[c].pc = "told" =>
                 t_call'[c].at.ref = t_call[c].at.ref /\ t_call'[c].outcome = outcome
<1> DEFINE r == [t_call[c] EXCEPT !.pc = "told", !.outcome = outcome]
<1>1. CASE ~(t_call[c].worker \/ outcome = "ok")
  <2>1. t_call' = [t_call EXCEPT ![c] = Token!Rest]
    BY <1>1 DEF Token!End
  <2> QED BY <2>1, TokenNobody, TokenBecomes
<1>2. CASE t_call[c].worker \/ outcome = "ok"
  <2>1. t_call' = [t_call EXCEPT ![c] = r]
    BY <1>2 DEF Token!End
  <2>2. r \in Token!Call
    BY TokenFields DEF Token!Call, Token!Pc, Token!None
  <2>3. r.pc = "told" /\ r.at = t_call[c].at /\ r.outcome = outcome
    BY TokenFields DEF Token!Call
  <2> HIDE DEF r
  <2> QED BY <2>1, <2>2, <2>3, TokenBecomes
<1> QED BY <1>1, <1>2

LEMMA TokenRests ==
    ASSUME Token!TypeOK, NEW c \in Workers, t_call' = [t_call EXCEPT ![c] = Token!Rest]
    PROVE  /\ t_call' \in [Workers -> Token!Call]
           /\ \A d \in Workers \ {c} : t_call'[d] = t_call[d]
           /\ t_call'[c].pc = "idle" /\ t_call'[c].at.ref = "none"
BY TokenNobody, TokenBecomes

\* What a status written later leaves of the row.
LEMMA TokenStatus ==
    ASSUME Token!TypeOK, NEW status \in {"none", "active", "expired", "error", "revoked"},
           t_row' = [t_row EXCEPT !.status = status]
    PROVE  t_row' \in Token!Row /\ t_row'.ref = t_row.ref /\ t_row'.status = status
BY DEF Token!TypeOK, Token!Row, Token!None

LEMMA TokenMarks ==
    ASSUME Token!TypeOK, NEW c \in Workers, Token!MarkError(c)
    PROVE  /\ t_row' \in Token!Row /\ t_row'.ref = t_row.ref
           /\ t_collector' \in {"active", "unavailable"}
           /\ t_row'.status \in {t_row.status, "error"}
<1>1. CASE UNCHANGED <<t_row, t_collector>>
  BY <1>1 DEF Token!TypeOK
<1>2. CASE Token!UpdateStatus("error")
  <2>1. t_row' = [t_row EXCEPT !.status = "error"] /\ t_collector' = t_collector
    BY <1>2 DEF Token!UpdateStatus
  <2>2. t_row' \in Token!Row /\ t_row'.ref = t_row.ref /\ t_row'.status = "error"
    BY <2>1, TokenStatus
  <2> QED BY <2>1, <2>2 DEF Token!TypeOK
<1> QED BY <1>1, <1>2 DEF Token!MarkError

\* A step of a refresh or of a revocation knows no grant that has not been exchanged, and
\* leaves the authorizations alone.
LEMMA TokenAside ==
    ASSUME Token!TokenInv, NEW c \in Workers,
           \A d \in Workers \ {c} : t_call'[d] = t_call[d],
           t_call'[c].pc \notin Token!Authorizing,
           t_call'[c].at.ref \in {t_call[c].at.ref, t_row.ref, "none"},
           t_row'.ref \in {t_row.ref, "none"},
           \A g \in Grants : t_newest'[g] \in Nat /\ t_newest'[g] >= t_newest[g],
           UNCHANGED <<t_state, t_result, t_completing, t_torn>>
    PROVE  Token!NeverRefused' /\ Token!BoundOnce' /\ Token!CompletesAlone'
<1>0. Token!TypeOK /\ Token!NeverRefused /\ Token!BoundOnce /\ Token!CompletesAlone /\ "none" \notin Grants
  BY ServicesAssumption DEF Token!TokenInv
<1>1. Token!NeverRefused'
  BY <1>0 DEF Token!NeverRefused
<1>2. Token!BoundOnce'
  <2>1. \A d \in Workers, g \in Grants : Token!Binding(d, g)' => Token!Binding(d, g)
    BY DEF Token!Binding, Token!Authorizing
  <2>2. \A d \in Workers, g \in Grants :
           t_call'[d].at.ref = g => t_call[d].at.ref = g \/ t_row.ref = g
    BY <1>0
  <2>3. ASSUME NEW g \in Grants PROVE t_newest[g] \in Nat
    BY <1>0, TokenVault
  <2>4. ASSUME NEW g \in Grants,
               t_row'.ref = g \/ \E d \in Workers : t_call'[d].at.ref = g \/ Token!Binding(d, g)'
        PROVE  t_newest'[g] > 0
    <3>1. t_newest[g] > 0
      BY <2>1, <2>2, <2>4, <1>0 DEF Token!BoundOnce
    <3> QED BY <3>1, <2>3
  <2>5. ASSUME NEW g \in Grants, NEW d \in Workers, Token!Binding(d, g)'
        PROVE  /\ t_row'.ref # g
               /\ \A z \in Workers : t_call'[z].at.ref # g /\ (Token!Binding(z, g)' => z = d)
    BY <2>1, <2>2, <2>5, <1>0 DEF Token!BoundOnce
  <2> QED BY <2>4, <2>5 DEF Token!BoundOnce
<1>3. Token!CompletesAlone'
  <2>1. ASSUME NEW d \in Workers, t_call'[d].pc \in Token!Authorizing
        PROVE  t_call'[d] = t_call[d]
    BY <2>1
  <2>2. ASSUME NEW d \in Workers, t_call'[d].pc \in Token!Authorizing
        PROVE  LET g == t_call'[d].grant
               IN  /\ g \in Grants
                   /\ g \notin t_torn' =>
                         /\ t_completing'[g] = d
                         /\ t_call'[d].pc # "complete" => t_result'[g] = "none"
                         /\ t_call'[d].pc \in {"exchange", "prepare", "bind"} => t_row'.ref # g
    BY <2>1, <2>2, <1>0 DEF Token!CompletesAlone, Token!None
  <2> QED BY <2>2 DEF Token!CompletesAlone, Token!None, Token!Authorizing
<1> QED BY <1>1, <1>2, <1>3

\* What a step may write of the row that stays bound, and what it may tell.
TokenNoted ==
    \/ t_overtaken \/ t_row'.status = t_row.status
    \/ /\ t_row.ref \in Grants
       /\ t_row'.status = "expired" =>
             Token!Spent(t_row.ref) \/ t_newest'[t_row.ref] = Token!Withdrawn
TokenTold(c) ==
    \/ t_overtaken \/ t_call'[c].pc # "told"
    \/ /\ t_row.ref \in Grants /\ t_call'[c].at.ref = t_row.ref
       /\ t_call'[c].outcome = "auth" => Token!Spent(t_row.ref)

\* A step of one call that leaves the row's credential as it is, and its generation too.
LEMMA TokenAlone ==
    ASSUME Token!TokenInv, NEW c \in Workers,
           t_call' \in [Workers -> Token!Call],
           \A d \in Workers \ {c} : t_call'[d] = t_call[d],
           t_row'.ref = t_row.ref, t_overtaken' = t_overtaken, TokenNoted,
           t_row.ref \in Grants => /\ t_vault'[t_row.ref].gen = t_vault[t_row.ref].gen
                                   /\ t_newest'[t_row.ref] \in {t_newest[t_row.ref], Token!Withdrawn},
           \A d \in Workers \ {c} : t_refreshing = d => t_refreshing' = d,
           t_call'[c].pc # "put", TokenTold(c),
           t_overtaken \/
              /\ t_call'[c].pc \in Token!Locked => t_refreshing' = c
              /\ t_call'[c].pc \in Token!Rotating => t_row.ref \in Grants /\ t_call'[c].at.ref = t_row.ref
              /\ t_call'[c].pc = "refresh" => t_vault[t_row.ref].gen = t_call'[c].gen
              /\ t_call'[c].pc = "refused" => Token!Spent(t_row.ref)
    PROVE  Token!RotatesAlone'
<1>0. Token!TypeOK /\ Token!RotatesAlone /\ "none" \notin Grants
  BY ServicesAssumption DEF Token!TokenInv
<1> DEFINE ref == t_row.ref
           StillSpent == /\ t_vault'[ref].gen # t_newest'[ref]
                         /\ \A d \in Workers : t_call'[d].pc = "put" /\ t_call'[d].at.ref = ref =>
                               t_call'[d].gen # t_newest'[ref]
<1>1. SUFFICES ASSUME ~t_overtaken PROVE Token!RotatesAlone'
  BY DEF Token!RotatesAlone
<1>2. ASSUME ref \in Grants, Token!Spent(ref) \/ t_newest'[ref] = Token!Withdrawn PROVE StillSpent
  <2>1. CASE t_newest'[ref] = Token!Withdrawn
    <3>1. t_vault[ref].gen \in 0..MaxGen /\ Token!Withdrawn = MaxGen + 1 /\ MaxGen \in Nat
      BY <1>0, <1>2, TokenVault
    <3>2. \A d \in Workers : t_call'[d].gen \in 0..MaxGen
      BY DEF Token!Call
    <3> QED BY <3>1, <3>2, <2>1, <1>2
  <2>2. CASE Token!Spent(ref) /\ t_newest'[ref] = t_newest[ref]
    <3>1. /\ t_vault[ref].gen # t_newest[ref]
          /\ \A d \in Workers : t_call[d].pc = "put" /\ t_call[d].at.ref = ref => t_call[d].gen # t_newest[ref]
      BY <2>2 DEF Token!Spent, Token!Putting
    <3> QED BY <3>1, <2>2, <1>2
  <2> QED BY <2>1, <2>2, <1>2
<1>3. ASSUME t_row'.status = "expired", ref # "none" PROVE StillSpent
  <2>1. ref \in Grants
    BY <1>0, <1>3 DEF Token!TypeOK, Token!Row, Token!None
  <2>2. t_row'.status = t_row.status => Token!Spent(ref)
    BY <1>0, <1>1, <1>3 DEF Token!RotatesAlone, Token!None
  <2> HIDE DEF StillSpent, ref
  <2> QED BY <2>1, <2>2, <1>1, <1>2, <1>3 DEF TokenNoted, ref
<1>4. ref = "none" => t_row'.status \in {"none", "revoked"}
  BY <1>0, <1>1 DEF TokenNoted, Token!RotatesAlone, Token!None
<1>5. ASSUME NEW d \in Workers
      PROVE  /\ t_call'[d].pc \in Token!Locked => t_refreshing' = d
             /\ t_call'[d].pc \in Token!Rotating \cup {"told"} => ref = t_call'[d].at.ref /\ t_call'[d].at.ref # "none"
             /\ t_call'[d].pc = "refresh" => t_vault'[t_call'[d].at.ref].gen = t_call'[d].gen
             /\ t_call'[d].pc = "refused" \/ (t_call'[d].pc = "told" /\ t_call'[d].outcome = "auth") =>
                   StillSpent
  <2>1. CASE d = c
    <3>1. t_call'[c].pc = "refresh" => t_row.ref \in Grants /\ t_call'[c].at.ref = t_row.ref
      BY <1>1 DEF Token!Rotating
    <3>2. t_call'[c].pc = "refused" => t_row.ref \in Grants /\ Token!Spent(t_row.ref)
      BY <1>1 DEF Token!Rotating
    <3> HIDE DEF StillSpent
    <3> QED BY <3>1, <3>2, <2>1, <1>0, <1>1, <1>2 DEF TokenTold
  <2>2. CASE d # c
    <3>1. /\ t_call'[d] = t_call[d]
          /\ t_call[d].pc \in Token!Locked => t_refreshing = d
          /\ t_call[d].pc \in Token!Rotating \cup {"told"} => ref = t_call[d].at.ref /\ ref # "none"
          /\ t_call[d].pc = "refresh" => t_vault[t_call[d].at.ref].gen = t_call[d].gen
          /\ t_call[d].pc = "refused" \/ (t_call[d].pc = "told" /\ t_call[d].outcome = "auth") =>
                Token!Spent(t_call[d].at.ref)
      BY <2>2, <1>0, <1>1 DEF Token!RotatesAlone, Token!None
    <3>2. t_call[d].pc \in Token!Rotating \cup {"told"} => ref \in Grants
      BY <3>1, <1>0 DEF Token!TypeOK, Token!Row, Token!None
    <3>3. t_call[d].pc \in {"refresh", "refused", "told"} => t_call[d].pc \in Token!Rotating \cup {"told"}
      BY DEF Token!Rotating
    <3> HIDE DEF StillSpent
    <3> QED BY <3>1, <3>2, <3>3, <2>2, <1>2
  <2> QED BY <2>1, <2>2
<1>6. ASSUME NEW d \in Workers
      PROVE  /\ t_call'[d].pc = "refused" => Token!Spent(t_call[d].at.ref)'
             /\ t_call'[d].pc = "told" /\ t_call'[d].outcome = "auth" => Token!Spent(t_call[d].at.ref)'
  <2>1. t_call'[d].pc \in {"refused", "told"} => t_call'[d].at.ref = ref
    BY <1>5 DEF Token!Rotating
  <2> QED BY <2>1, <1>5 DEF Token!Spent, Token!Putting
<1>7. t_row'.ref # "none" /\ t_row'.status = "expired" => Token!Spent(t_row.ref)'
  BY <1>3 DEF Token!Spent, Token!Putting
<1> HIDE DEF StillSpent
<1> QED BY <1>4, <1>5, <1>6, <1>7 DEF Token!RotatesAlone, Token!None

\* A call that ends leaves the row's grant and the vault.
LEMMA TokenLeaves ==
    ASSUME Token!TokenInv, NEW c \in Workers,
           t_call' \in [Workers -> Token!Call],
           \A d \in Workers \ {c} : t_call'[d] = t_call[d],
           t_call'[c].pc \notin Token!Rotating \cup {"bind", "delete", "clean"},
           t_row'.ref = t_row.ref, TokenNoted, TokenTold(c),
           \A g \in Grants : t_newest'[g] \in {t_newest[g], Token!Withdrawn},
           UNCHANGED <<t_vault, t_overtaken>>, t_torn \subseteq t_torn',
           t_refreshing' \in {t_refreshing, Token!Freed(c)}
    PROVE  Token!Stored' /\ Token!HasCredential' /\ Token!RotatesAlone'
<1>0. Token!TypeOK /\ Token!Stored /\ Token!HasCredential
  BY DEF Token!TokenInv
<1>1. Token!Stored'
  BY <1>0 DEF Token!Stored, Token!None, Token!Gone
<1>2. Token!HasCredential'
  <2>1. ASSUME NEW d \in Workers \ {c}
        PROVE  /\ t_call'[d].pc \in Token!Rotating => t_call'[d].at.ref \in Grants
               /\ t_call'[d].pc \in Token!Rotating \ {"get"} /\ t_row'.ref = t_call'[d].at.ref =>
                     t_vault'[t_call'[d].at.ref] # Token!Gone
               /\ t_call'[d].pc = "put" => t_call'[d].gen > 0
               /\ t_call'[d].pc = "bind" => t_vault'[t_call'[d].grant] # Token!Gone
               /\ t_call'[d].pc \in {"delete", "clean"} /\ t_call'[d].at.ref # "none" =>
                     t_row'.ref # t_call'[d].at.ref
    BY <1>0 DEF Token!HasCredential, Token!None
  <2>2. t_call'[c].pc \notin {"put", "bind", "delete", "clean"}
    BY DEF Token!Rotating
  <2> QED BY <2>1, <2>2, <1>0 DEF Token!HasCredential, Token!Rotating, Token!None, Token!Gone
<1>3. Token!RotatesAlone'
  <2>1. t_call'[c].pc \notin Token!Locked /\ t_call'[c].pc \notin {"put", "refresh", "refused"}
    BY DEF Token!Rotating, Token!Locked
  <2>2. \A d \in Workers \ {c} : t_refreshing = d => t_refreshing' = d
    BY DEF Token!Freed
  <2> QED BY <2>1, <2>2, TokenAlone
<1> QED BY <1>1, <1>2, <1>3

\* So a step that ends a refresh keeps the invariant.
LEMMA TokenAnswers ==
    ASSUME Token!TokenInv, NEW c \in Workers,
           t_call' \in [Workers -> Token!Call],
           \A d \in Workers \ {c} : t_call'[d] = t_call[d],
           t_call'[c].pc \in {"idle", "told"},
           t_call'[c].at.ref \in {t_call[c].at.ref, t_row.ref, "none"},
           t_row' \in Token!Row, t_row'.ref = t_row.ref, TokenNoted, TokenTold(c),
           t_collector' \in {"active", "unavailable"},
           t_newest' \in [Grants -> 0..Token!Withdrawn],
           \A g \in Grants : t_newest'[g] \in {t_newest[g], Token!Withdrawn},
           UNCHANGED <<t_vault, t_overtaken, t_state, t_result, t_completing, t_torn>>,
           t_refreshing' \in {t_refreshing, Token!Freed(c)}
    PROVE  Token!TokenInv'
<1>0. Token!TypeOK
  BY DEF Token!TokenInv
<1>1. t_call'[c].pc \notin Token!Rotating \cup {"bind", "delete", "clean"} /\ t_call'[c].pc \notin Token!Authorizing
  BY DEF Token!Rotating, Token!Authorizing
<1>2. \A g \in Grants : t_newest'[g] \in Nat /\ t_newest'[g] >= t_newest[g]
  <2>1. ASSUME NEW g \in Grants PROVE t_newest[g] \in 0..Token!Withdrawn /\ Token!Withdrawn \in Nat
    BY <1>0, TokenVault
  <2> QED BY <2>1
<1>3. Token!Stored' /\ Token!HasCredential' /\ Token!RotatesAlone'
  BY <1>1, TokenLeaves
<1>4. Token!NeverRefused' /\ Token!BoundOnce' /\ Token!CompletesAlone'
  BY <1>1, <1>2, TokenAside
<1>5. t_refreshing' \in Workers \cup {"none"}
  BY <1>0 DEF Token!Freed, Token!TypeOK, Token!None
<1>6. Token!TypeOK'
  BY <1>0, <1>5 DEF Token!TypeOK, Token!None
<1> QED BY <1>3, <1>4, <1>6 DEF Token!TokenInv

LEMMA TokenBegins ==
    ASSUME Token!TokenInv, NEW c \in Workers, NEW worker \in BOOLEAN, NEW force \in BOOLEAN,
           Token!Begin(c, worker, force)
    PROVE  Token!TokenInv'
<1> DEFINE start == [Token!Rest EXCEPT !.worker = worker, !.force = force, !.at = t_row]
           going == [start EXCEPT !.pc = "get"]
           told(o) == [start EXCEPT !.pc = "told", !.outcome = o]
<1>0. Token!TypeOK /\ t_row \in Token!Row /\ t_row.ref \in Grants \cup {"none"}
  BY TokenFields DEF Token!TokenInv
<1>1. UNCHANGED <<t_row, t_collector, t_vault, t_newest, t_refreshing, t_overtaken,
                  t_state, t_result, t_completing, t_torn>>
  BY DEF Token!Begin, Token!oauth
<1>2. /\ t_row.status \notin {"none", "revoked"}
      /\ \/ t_call' = [t_call EXCEPT ![c] = going] /\ t_row.ref # "none"
         \/ t_call' = [t_call EXCEPT ![c] = Token!Rest]
         \/ t_call' = [t_call EXCEPT ![c] = told("fail")] /\ t_row.ref = "none"
         \/ /\ t_call' = [t_call EXCEPT ![c] = told("auth")]
            /\ t_row.ref # "none" /\ t_row.status = "expired"
  BY DEF Token!Begin, Token!None
<1>3. start \in Token!Call /\ start.at = t_row
  BY <1>0, TokenNobody DEF Token!Call
<1>4. /\ going \in Token!Call /\ going.pc = "get" /\ going.at = t_row
      /\ \A o \in {"fail", "auth"} : /\ told(o) \in Token!Call /\ told(o).pc = "told"
                                    /\ told(o).at = t_row /\ told(o).outcome = o
  <2> HIDE DEF start
  <2> QED BY <1>3 DEF Token!Call, Token!Pc, Token!None
<1> HIDE DEF going, told, start
<1>5. CASE \/ t_call' = [t_call EXCEPT ![c] = Token!Rest]
           \/ t_call' = [t_call EXCEPT ![c] = told("fail")] /\ t_row.ref = "none"
           \/ t_call' = [t_call EXCEPT ![c] = told("auth")] /\ t_row.ref # "none" /\ t_row.status = "expired"
  <2>1. PICK r \in Token!Call :
           /\ t_call' = [t_call EXCEPT ![c] = r] /\ r.pc \in {"idle", "told"}
           /\ r.at.ref \in {t_row.ref, "none"}
           /\ r.pc = "told" =>
                 /\ r.at.ref = t_row.ref
                 /\ t_row.ref = "none" \/ (t_row.ref # "none" /\ t_row.status = "expired")
    BY <1>5, <1>4, TokenNobody
  <2>2. /\ t_call' \in [Workers -> Token!Call] /\ t_call'[c] = r
        /\ \A d \in Workers \ {c} : t_call'[d] = t_call[d]
    BY <2>1, <1>0, TokenBecomes
  <2>3. t_collector' \in {"active", "unavailable"} /\ t_newest' \in [Grants -> 0..Token!Withdrawn]
    BY <1>0, <1>1 DEF Token!TypeOK
  <2>4. TokenNoted
    BY <1>1 DEF TokenNoted
\* The worker is told of a row that is expired, and this one is spent.
  <2>5. TokenTold(c)
    <3>1. t_overtaken \/ (t_row.ref = "none" => t_row.status \in {"none", "revoked"})
      BY DEF Token!TokenInv, Token!RotatesAlone, Token!None
    <3>2. t_overtaken \/ (t_row.ref # "none" /\ t_row.status = "expired" => Token!Spent(t_row.ref))
      BY DEF Token!TokenInv, Token!RotatesAlone, Token!None
    <3> QED BY <3>1, <3>2, <2>1, <2>2, <1>0, <1>2 DEF TokenTold
  <2> QED BY <2>1, <2>2, <2>3, <2>4, <2>5, <1>0, <1>1, TokenAnswers
<1>6. CASE t_call' = [t_call EXCEPT ![c] = going] /\ t_row.ref # "none"
  <2>1. /\ t_call' \in [Workers -> Token!Call] /\ t_call'[c] = going
        /\ \A d \in Workers \ {c} : t_call'[d] = t_call[d]
    BY <1>6, <1>4, <1>0, TokenBecomes
  <2>2. /\ t_call'[c].pc = "get" /\ t_call'[c].at.ref = t_row.ref /\ t_row.ref \in Grants
    BY <2>1, <1>4, <1>6, <1>0
  <2>3. Token!NeverRefused' /\ Token!BoundOnce' /\ Token!CompletesAlone'
    <3>1. \A g \in Grants : t_newest'[g] \in Nat /\ t_newest'[g] >= t_newest[g]
      BY <1>0, <1>1, TokenVault
    <3>2. t_call'[c].pc \notin Token!Authorizing
      BY <2>2 DEF Token!Authorizing
    <3> QED BY <3>1, <3>2, <2>1, <2>2, <1>1, TokenAside
  <2>4. Token!Stored'
    BY <1>1 DEF Token!TokenInv, Token!Stored, Token!Gone
  <2>5. Token!HasCredential'
    <3>1. \A d \in Workers \ {c} : t_call'[d] = t_call[d]
      BY <2>1
    <3>2. t_call'[c].pc = "get" /\ t_call'[c].at.ref \in Grants
      BY <2>2
    <3> QED BY <3>1, <3>2, <1>1 DEF Token!TokenInv, Token!HasCredential, Token!Gone, Token!Rotating, Token!None
  <2>6. Token!RotatesAlone'
    <3>1. TokenNoted /\ TokenTold(c)
      BY <2>2, <1>1 DEF TokenNoted, TokenTold
    <3>2. t_call'[c].pc \notin Token!Locked /\ t_call'[c].pc \notin {"put", "refresh", "refused"}
      BY <2>2 DEF Token!Locked
    <3> QED BY <3>1, <3>2, <2>1, <2>2, <1>1, TokenAlone
  <2>7. Token!TypeOK'
    BY <2>1, <1>0, <1>1 DEF Token!TypeOK
  <2> QED BY <2>3, <2>4, <2>5, <2>6, <2>7 DEF Token!TokenInv
<1> QED BY <1>2, <1>5, <1>6

\* The steps that end a refresh, the worker's note of what became of it, and the use of
\* the token.
LEMMA TokenEnds ==
    ASSUME Token!TokenInv, NEW c \in Workers,
           \/ Token!GetToken(c) /\ (Token!Held(c) = Token!Gone \/ Token!End(c, "ok"))
           \/ Token!WaitForToken(c)
           \/ Token!Reread(c) /\ Token!Replaced(c)
           \/ Token!MarkExpired(c) \/ Token!RefreshFails(c) \/ Token!MarkActive(c) \/ Token!TickMarks(c)
           \/ Token!PollFails(c)
    PROVE  Token!TokenInv'
<1>0. Token!TypeOK /\ Token!RotatesAlone /\ "none" \notin Grants
  BY ServicesAssumption DEF Token!TokenInv
<1> DEFINE Ended == /\ t_call' \in [Workers -> Token!Call]
                    /\ \A d \in Workers \ {c} : t_call'[d] = t_call[d]
                    /\ t_call'[c].pc \in {"idle", "told"}
                    /\ t_call'[c].at.ref \in {t_call[c].at.ref, "none"}
                    /\ TokenTold(c)
           Noted == /\ t_row' \in Token!Row /\ t_row'.ref = t_row.ref /\ TokenNoted
                    /\ t_collector' \in {"active", "unavailable"}
           Same == /\ UNCHANGED <<t_vault, t_overtaken, t_state, t_result, t_completing, t_torn>>
                   /\ t_refreshing' \in {t_refreshing, Token!Freed(c)}
           Rated == /\ t_newest' \in [Grants -> 0..Token!Withdrawn]
                    /\ \A g \in Grants : t_newest'[g] \in {t_newest[g], Token!Withdrawn}
\* The call has the credential of the row.
<1>k. t_overtaken \/ (t_row.ref \in Grants /\ t_call[c].at.ref = t_row.ref)
  <2>1. t_call[c].pc \in Token!Rotating \cup {"told"}
    BY DEF Token!GetToken, Token!WaitForToken, Token!Reread, Token!MarkExpired, Token!RefreshFails,
           Token!MarkActive, Token!TickMarks, Token!PollFails, Token!Rotating
  <2> QED BY <2>1, <1>0 DEF Token!RotatesAlone, Token!TypeOK, Token!Row, Token!None
<1>a. ASSUME NEW o \in {"none", "ok", "auth", "fail"}, Token!End(c, o),
             o = "auth" => t_overtaken \/ Token!Spent(t_row.ref)
      PROVE  Ended
  <2>1. /\ t_call' \in [Workers -> Token!Call]
        /\ \A d \in Workers \ {c} : t_call'[d] = t_call[d]
        /\ t_call'[c].pc \in {"idle", "told"} /\ t_call'[c].at.ref \in {t_call[c].at.ref, "none"}
        /\ t_call'[c].pc = "told" => t_call'[c].at.ref = t_call[c].at.ref /\ t_call'[c].outcome = o
    BY <1>a, <1>0, TokenEnd
  <2>2. TokenTold(c)
    BY <2>1, <1>a, <1>k DEF TokenTold
  <2> QED BY <2>1, <2>2
<1>b. ASSUME UNCHANGED <<t_row, t_collector>> PROVE Noted
  BY <1>b, <1>0 DEF Token!TypeOK, TokenNoted
<1>c. ASSUME NEW status \in {"none", "active", "expired", "error", "revoked"},
             Token!UpdateStatus(status),
             status = "expired" =>
                t_overtaken \/ Token!Spent(t_row.ref) \/ t_newest'[t_row.ref] = Token!Withdrawn
      PROVE  Noted
  <2>1. t_row' = [t_row EXCEPT !.status = status]
    BY <1>c DEF Token!UpdateStatus
  <2>2. t_row' \in Token!Row /\ t_row'.ref = t_row.ref /\ t_row'.status = status
    BY <2>1, <1>0, TokenStatus
  <2>3. t_collector' \in {"active", "unavailable"}
    BY <1>c, <1>0 DEF Token!UpdateStatus, Token!Park, Token!TypeOK
  <2>4. TokenNoted
    BY <2>2, <1>c, <1>k DEF TokenNoted
  <2> QED BY <2>2, <2>3, <2>4
<1>d. ASSUME Token!MarkError(c) PROVE Noted
  <2>1. /\ t_row' \in Token!Row /\ t_row'.ref = t_row.ref
        /\ t_collector' \in {"active", "unavailable"}
        /\ t_row'.status \in {t_row.status, "error"}
    BY <1>d, <1>0, TokenMarks
  <2> QED BY <2>1, <1>k DEF TokenNoted
<1>e. ASSUME t_call' = [t_call EXCEPT ![c] = Token!Rest] PROVE Ended
  BY <1>e, <1>0, TokenRests DEF TokenTold
<1>n. ASSUME UNCHANGED t_newest PROVE Rated
  BY <1>n, <1>0 DEF Token!TypeOK
<1>f. ASSUME Ended, Noted, Same, Rated PROVE Token!TokenInv'
  BY <1>f, TokenAnswers
\* What a refusal says of the row.
<1>s. t_call[c].pc = "refused" \/ (t_call[c].pc = "told" /\ t_call[c].outcome = "auth") =>
         t_overtaken \/ Token!Spent(t_row.ref)
  BY <1>0, <1>k DEF Token!RotatesAlone
<1> HIDE DEF Ended, Noted, Rated
<1>1. CASE Token!GetToken(c) /\ (Token!Held(c) = Token!Gone \/ Token!End(c, "ok"))
  <2>1. Same /\ Rated
    BY <1>1, <1>n DEF Token!GetToken, Token!oauth
  <2>2. CASE Token!Held(c) = Token!Gone
    <3>1. Token!MarkError(c) /\ Token!End(c, "fail")
      BY <1>1, <2>2 DEF Token!GetToken
    <3> QED BY <3>1, <2>1, <1>a, <1>d, <1>f
  <2>3. CASE Token!Held(c) # Token!Gone /\ Token!End(c, "ok")
    <3>1. UNCHANGED <<t_row, t_collector>>
      BY <1>1, <2>3 DEF Token!GetToken
    <3> QED BY <3>1, <2>1, <2>3, <1>a, <1>b, <1>f
  <2> QED BY <1>1, <2>2, <2>3
<1>2. CASE Token!WaitForToken(c)
  <2>1. Same /\ Rated /\ UNCHANGED <<t_row, t_collector>>
    BY <1>2, <1>n DEF Token!WaitForToken, Token!oauth
  <2>2. Token!End(c, "ok") \/ Token!End(c, "fail")
    BY <1>2 DEF Token!WaitForToken
  <2> QED BY <2>1, <2>2, <1>a, <1>b, <1>f
<1>3. CASE Token!Reread(c) /\ Token!Replaced(c)
  <2>1. Same /\ Rated /\ UNCHANGED <<t_row, t_collector>> /\ Token!End(c, "ok")
    BY <1>3, <1>n DEF Token!Reread, Token!oauth
  <2> QED BY <2>1, <1>a, <1>b, <1>f
<1>4. CASE Token!MarkExpired(c)
  <2>1. /\ Same /\ Rated /\ Token!End(c, "auth") /\ t_call[c].pc = "refused"
        /\ Token!UpdateStatus("expired")
    BY <1>4, <1>n DEF Token!MarkExpired, Token!oauth
  <2> QED BY <2>1, <1>a, <1>c, <1>f, <1>s
<1>5. CASE Token!RefreshFails(c)
  <2>1. Same /\ Rated /\ Token!End(c, "fail") /\ Token!MarkError(c)
    BY <1>5, <1>n DEF Token!RefreshFails, Token!oauth
  <2> QED BY <2>1, <1>a, <1>d, <1>f
<1>6. CASE Token!MarkActive(c)
  <2>1. /\ Same /\ Rated /\ Token!End(c, "ok") /\ Token!Restore
        /\ t_row' = [t_row EXCEPT !.status = "active"]
    BY <1>6, <1>n DEF Token!MarkActive, Token!oauth
  <2>2. t_row' \in Token!Row /\ t_row'.ref = t_row.ref /\ t_row'.status = "active"
    BY <2>1, <1>0, TokenStatus
  <2>3. t_collector' \in {"active", "unavailable"}
    BY <2>1, <1>0 DEF Token!Restore, Token!TypeOK
  <2>4. Noted
    BY <2>2, <2>3, <1>k DEF Noted, TokenNoted
  <2> QED BY <2>1, <2>4, <1>a, <1>f
<1>7. CASE Token!TickMarks(c)
  <2>1. Same /\ Rated /\ t_call' = [t_call EXCEPT ![c] = Token!Rest] /\ t_call[c].pc = "told"
    BY <1>7, <1>n DEF Token!TickMarks, Token!oauth
  <2>2. \/ Token!UpdateStatus("expired") /\ t_call[c].outcome = "auth"
        \/ Token!UpdateStatus("error")
        \/ Token!UpdateStatus("active")
        \/ UNCHANGED <<t_row, t_collector>>
    BY <1>7 DEF Token!TickMarks, Token!None
  <2>3. Noted
    BY <2>1, <2>2, <1>b, <1>c, <1>s
  <2> QED BY <2>1, <2>3, <1>e, <1>f
<1>8. CASE Token!PollFails(c)
  <2>1. /\ Same /\ t_call' = [t_call EXCEPT ![c] = Token!Rest]
        /\ \/ UNCHANGED t_newest /\ (Token!UpdateStatus("error") \/ Token!MarkError(c))
           \/ /\ t_newest' = [t_newest EXCEPT ![t_call[c].at.ref] = Token!Withdrawn]
              /\ Token!UpdateStatus("expired")
    BY <1>8 DEF Token!PollFails, Token!oauth
  <2>2. CASE UNCHANGED t_newest /\ (Token!UpdateStatus("error") \/ Token!MarkError(c))
    <3>1. Noted
      BY <2>2, <1>c, <1>d
    <3> QED BY <3>1, <2>1, <2>2, <1>e, <1>f, <1>n
  <2>3. CASE /\ t_newest' = [t_newest EXCEPT ![t_call[c].at.ref] = Token!Withdrawn]
             /\ Token!UpdateStatus("expired")
    <3>1. Token!Withdrawn \in 0..Token!Withdrawn
      BY ServicesAssumption DEF Token!Withdrawn
    <3>2. t_newest \in [Grants -> 0..Token!Withdrawn]
      BY <1>0 DEF Token!TypeOK
    <3>3. Rated
      BY <3>1, <3>2, <2>3 DEF Rated
    <3>4. t_overtaken \/ t_newest'[t_row.ref] = Token!Withdrawn
      BY <3>2, <2>3, <1>k
    <3>5. Noted
      BY <3>4, <2>3, <1>c
    <3> QED BY <3>3, <3>5, <2>1, <1>e, <1>f
  <2> QED BY <2>1, <2>2, <2>3
<1> QED BY <1>1, <1>2, <1>3, <1>4, <1>5, <1>6, <1>7, <1>8

\* Up to the refresh: the row and the vault stay as they are.
LEMMA TokenApproaches ==
    ASSUME Token!TokenInv, NEW c \in Workers,
           \/ Token!GetToken(c) /\ Token!Held(c) # Token!Gone /\ ~Token!End(c, "ok")
           \/ Token!Acquire(c)
           \/ Token!Reread(c) /\ ~Token!Replaced(c)
           \/ Token!Refresh(c) /\ t_call[c].gen # t_newest[t_call[c].at.ref]
           \/ Token!BeginRevoke(c)
    PROVE  Token!TokenInv'
<1> DEFINE ref == t_call[c].at.ref
           Alone == \/ t_overtaken
                    \/ t_row.ref \in Grants /\ ref = t_row.ref
<1>0. /\ Token!TypeOK /\ Token!Stored /\ Token!HasCredential /\ Token!RotatesAlone /\ Token!BoundOnce
      /\ "none" \notin Workers /\ "none" \notin Grants
  BY ServicesAssumption DEF Token!TokenInv
<1>1. UNCHANGED <<t_row, t_collector, t_vault, t_newest, t_overtaken,
                  t_state, t_result, t_completing, t_torn>>
  BY DEF Token!GetToken, Token!Acquire, Token!Reread, Token!Refresh, Token!BeginRevoke, Token!oauth
<1>a. TokenNoted
  BY <1>1 DEF TokenNoted
\* A call that has the credential of the row, but for those that were overtaken.
<1>k. ASSUME t_call[c].pc \in {"get", "lock", "reread", "refresh"} PROVE Alone
  <2>1. t_call[c].pc \in Token!Rotating
    BY <1>k DEF Token!Rotating
  <2> QED BY <2>1, <1>0 DEF Token!RotatesAlone, Token!TypeOK, Token!Row, Token!None
<1> HIDE DEF Alone
\* What each of them makes of the call.
<1>2. CASE Token!GetToken(c) /\ Token!Held(c) # Token!Gone /\ ~Token!End(c, "ok")
  <2> DEFINE r == [t_call[c] EXCEPT !.pc = "lock", !.first = t_vault[ref].gen]
  <2>1. /\ t_call[c].pc = "get" /\ t_vault[ref] # Token!Gone /\ t_refreshing' = t_refreshing
        /\ t_call' = [t_call EXCEPT ![c] = r]
    BY <1>2 DEF Token!GetToken, Token!Held
  <2>2. ref \in Grants
    BY <2>1, <1>0 DEF Token!HasCredential, Token!Rotating
  <2>3. r \in Token!Call /\ r.pc = "lock" /\ r.at = t_call[c].at /\ r.grant = t_call[c].grant
    BY <2>2, <1>0, TokenFields, TokenVault DEF Token!Call, Token!Pc
  <2> HIDE DEF r
  <2>4. /\ t_call' \in [Workers -> Token!Call] /\ t_call'[c] = r
        /\ \A d \in Workers \ {c} : t_call'[d] = t_call[d]
    BY <2>1, <2>3, <1>0, TokenBecomes
  <2>5. t_call'[c].pc = "lock" /\ t_call'[c].at.ref = ref
    BY <2>3, <2>4
  <2>6. Token!NeverRefused' /\ Token!BoundOnce' /\ Token!CompletesAlone'
    <3>1. \A g \in Grants : t_newest'[g] \in Nat /\ t_newest'[g] >= t_newest[g]
      BY <1>0, <1>1, TokenVault
    <3>2. t_call'[c].pc \notin Token!Authorizing
      BY <2>5 DEF Token!Authorizing
    <3> QED BY <3>1, <3>2, <2>4, <2>5, <1>1, TokenAside
  <2>7. Token!HasCredential'
    BY <2>1, <2>2, <2>4, <2>5, <1>1, <1>0 DEF Token!HasCredential, Token!Gone, Token!Rotating, Token!None
  <2>8. Token!RotatesAlone'
    <3>1. t_call'[c].pc \notin Token!Locked /\ TokenTold(c) /\ Alone
      BY <2>1, <2>5, <1>k DEF Token!Locked, TokenTold
    <3> QED BY <3>1, <2>1, <2>4, <2>5, <1>1, <1>a, TokenAlone DEF Alone
  <2>9. Token!TypeOK'
    BY <2>1, <2>4, <1>0, <1>1 DEF Token!TypeOK
  <2>10. Token!Stored'
    BY <1>0, <1>1 DEF Token!Stored, Token!Gone, Token!None
  <2> QED BY <2>6, <2>7, <2>8, <2>9, <2>10 DEF Token!TokenInv
<1>3. CASE Token!Acquire(c)
  <2>1. t_call[c].pc = "lock" /\ t_refreshing = "none" /\ t_refreshing' = c /\ Token!Goto(c, "reread")
    BY <1>3 DEF Token!Acquire, Token!None
  <2>2. ref \in Grants
    BY <2>1, <1>0 DEF Token!HasCredential, Token!Rotating
  <2>3. "reread" \in Token!Pc
    BY DEF Token!Pc
  <2>4. /\ t_call' \in [Workers -> Token!Call] /\ t_call'[c].pc = "reread" /\ t_call'[c].at.ref = ref
        /\ \A d \in Workers \ {c} : t_call'[d] = t_call[d]
    BY <2>1, <2>3, <1>0, TokenGoto
  <2>6. Token!NeverRefused' /\ Token!BoundOnce' /\ Token!CompletesAlone'
    <3>1. \A g \in Grants : t_newest'[g] \in Nat /\ t_newest'[g] >= t_newest[g]
      BY <1>0, <1>1, TokenVault
    <3>2. t_call'[c].pc \notin Token!Authorizing
      BY <2>4 DEF Token!Authorizing
    <3> QED BY <3>1, <3>2, <2>4, <1>1, TokenAside
  <2>7. Token!HasCredential'
    BY <2>1, <2>2, <2>4, <1>1, <1>0 DEF Token!HasCredential, Token!Gone, Token!Rotating, Token!None
  <2>8. Token!RotatesAlone'
    <3>1. TokenTold(c) /\ Alone
      BY <2>1, <2>4, <1>k DEF TokenTold
    <3> QED BY <3>1, <2>1, <2>4, <1>0, <1>1, <1>a, TokenAlone DEF Alone
  <2>9. Token!TypeOK'
    BY <2>1, <2>4, <1>0, <1>1 DEF Token!TypeOK
  <2>10. Token!Stored'
    BY <1>0, <1>1 DEF Token!Stored, Token!Gone, Token!None
  <2> QED BY <2>6, <2>7, <2>8, <2>9, <2>10 DEF Token!TokenInv
<1>4. CASE Token!Reread(c) /\ ~Token!Replaced(c)
  <2> DEFINE k == IF t_vault[ref] = Token!Gone THEN t_call[c].first ELSE t_vault[ref].gen
             r == [t_call[c] EXCEPT !.pc = "refresh", !.gen = k]
  <2>1. /\ t_call[c].pc = "reread" /\ t_refreshing' = t_refreshing
        /\ t_call' = [t_call EXCEPT ![c] = r]
    BY <1>4 DEF Token!Reread, Token!Held
  <2>2. ref \in Grants
    BY <2>1, <1>0 DEF Token!HasCredential, Token!Rotating
  <2>3. k \in 0..MaxGen
    BY <2>2, <1>0, TokenFields, TokenVault
  <2> HIDE DEF k
  <2>31. r \in Token!Call /\ r.pc = "refresh" /\ r.at = t_call[c].at /\ r.gen = k
    BY <2>3, <1>0, TokenFields DEF Token!Call, Token!Pc
  <2> HIDE DEF r
  <2>4. /\ t_call' \in [Workers -> Token!Call] /\ t_call'[c] = r
        /\ \A d \in Workers \ {c} : t_call'[d] = t_call[d]
    BY <2>1, <2>31, <1>0, TokenBecomes
  <2>5. t_call'[c].pc = "refresh" /\ t_call'[c].at.ref = ref
    BY <2>31, <2>4
  <2>6. Token!NeverRefused' /\ Token!BoundOnce' /\ Token!CompletesAlone'
    <3>1. \A g \in Grants : t_newest'[g] \in Nat /\ t_newest'[g] >= t_newest[g]
      BY <1>0, <1>1, TokenVault
    <3>2. t_call'[c].pc \notin Token!Authorizing
      BY <2>5 DEF Token!Authorizing
    <3> QED BY <3>1, <3>2, <2>4, <2>5, <1>1, TokenAside
  <2>7. Token!HasCredential'
    BY <2>1, <2>2, <2>4, <2>5, <1>1, <1>0 DEF Token!HasCredential, Token!Gone, Token!Rotating, Token!None
  <2>8. Token!RotatesAlone'
    <3>1. TokenTold(c) /\ Alone
      BY <2>1, <2>5, <1>k DEF TokenTold
    <3>2. t_overtaken \/ (t_refreshing' = c /\ t_vault[t_row.ref].gen = t_call'[c].gen)
      <4>1. t_overtaken \/ t_refreshing = c
        BY <2>1, <1>0 DEF Token!RotatesAlone, Token!Locked
      <4>2. t_overtaken \/ t_vault[ref] # Token!Gone
        BY <3>1, <2>1, <1>0 DEF Token!HasCredential, Token!Rotating, Alone
      <4>3. t_overtaken \/ t_vault[ref].gen = k
        BY <4>2 DEF k
      <4> QED BY <4>1, <4>3, <3>1, <2>1, <2>31, <2>4 DEF Alone
    <3> QED BY <3>1, <3>2, <2>1, <2>4, <2>5, <1>1, <1>a, TokenAlone DEF Alone
  <2>9. Token!TypeOK'
    BY <2>1, <2>4, <1>0, <1>1 DEF Token!TypeOK
  <2>10. Token!Stored'
    BY <1>0, <1>1 DEF Token!Stored, Token!Gone, Token!None
  <2> QED BY <2>6, <2>7, <2>8, <2>9, <2>10 DEF Token!TokenInv
<1>5. CASE Token!Refresh(c) /\ t_call[c].gen # t_newest[ref]
  <2>1. t_call[c].pc = "refresh" /\ Token!Goto(c, "refused") /\ t_refreshing' = t_refreshing
    BY <1>5 DEF Token!Refresh
  <2>2. ref \in Grants
    BY <2>1, <1>0 DEF Token!HasCredential, Token!Rotating
  <2>3. "refused" \in Token!Pc
    BY DEF Token!Pc
  <2>4. /\ t_call' \in [Workers -> Token!Call] /\ t_call'[c].pc = "refused" /\ t_call'[c].at.ref = ref
        /\ \A d \in Workers \ {c} : t_call'[d] = t_call[d]
    BY <2>1, <2>3, <1>0, TokenGoto
  <2>6. Token!NeverRefused' /\ Token!BoundOnce' /\ Token!CompletesAlone'
    <3>1. \A g \in Grants : t_newest'[g] \in Nat /\ t_newest'[g] >= t_newest[g]
      BY <1>0, <1>1, TokenVault
    <3>2. t_call'[c].pc \notin Token!Authorizing
      BY <2>4 DEF Token!Authorizing
    <3> QED BY <3>1, <3>2, <2>4, <1>1, TokenAside
  <2>7. Token!HasCredential'
    BY <2>1, <2>2, <2>4, <1>1, <1>0 DEF Token!HasCredential, Token!Gone, Token!Rotating, Token!None
  <2>8. Token!RotatesAlone'
    <3>1. TokenTold(c) /\ Alone
      BY <2>1, <2>4, <1>k DEF TokenTold
    <3>2. t_overtaken \/ (t_refreshing' = c /\ Token!Spent(t_row.ref))
      <4>1. SUFFICES ASSUME ~t_overtaken PROVE t_refreshing' = c /\ Token!Spent(ref)
        BY <3>1 DEF Alone
      <4>2. t_refreshing = c /\ \A d \in Workers \ {c} : t_call[d].pc # "put"
        BY <4>1, <2>1, <1>0 DEF Token!RotatesAlone, Token!Locked
      <4>3. t_vault[ref].gen = t_call[c].gen
        BY <4>1, <2>1, <1>0 DEF Token!RotatesAlone
      <4> QED BY <4>2, <4>3, <2>1, <1>5 DEF Token!Spent, Token!Putting
    <3> QED BY <3>1, <3>2, <2>1, <2>4, <1>1, <1>a, TokenAlone DEF Alone
  <2>9. Token!TypeOK'
    BY <2>1, <2>4, <1>0, <1>1 DEF Token!TypeOK
  <2>10. Token!Stored'
    BY <1>0, <1>1 DEF Token!Stored, Token!Gone, Token!None
  <2> QED BY <2>6, <2>7, <2>8, <2>9, <2>10 DEF Token!TokenInv
<1>6. CASE Token!BeginRevoke(c)
  <2> DEFINE r == [Token!Rest EXCEPT !.pc = "revoke", !.at = t_row]
  <2>1. t_call' = [t_call EXCEPT ![c] = r] /\ t_refreshing' = t_refreshing
    BY <1>6 DEF Token!BeginRevoke
  <2>2. r \in Token!Call /\ r.pc = "revoke" /\ r.at = t_row
    BY TokenNobody, TokenFields, <1>0 DEF Token!Call, Token!Pc
  <2> HIDE DEF r
  <2>4. /\ t_call' \in [Workers -> Token!Call] /\ t_call'[c] = r
        /\ \A d \in Workers \ {c} : t_call'[d] = t_call[d]
    BY <2>1, <2>2, <1>0, TokenBecomes
  <2>5. t_call'[c].pc = "revoke" /\ t_call'[c].at.ref = t_row.ref
    BY <2>2, <2>4
  <2>6. Token!NeverRefused' /\ Token!BoundOnce' /\ Token!CompletesAlone'
    <3>1. \A g \in Grants : t_newest'[g] \in Nat /\ t_newest'[g] >= t_newest[g]
      BY <1>0, <1>1, TokenVault
    <3>2. t_call'[c].pc \notin Token!Authorizing
      BY <2>5 DEF Token!Authorizing
    <3> QED BY <3>1, <3>2, <2>4, <2>5, <1>1, TokenAside
  <2>7. Token!Stored' /\ Token!HasCredential' /\ Token!RotatesAlone'
    <3>1. t_call'[c].pc \notin Token!Rotating \cup {"bind", "delete", "clean"}
      BY <2>5 DEF Token!Rotating
    <3>2. TokenTold(c)
      BY <2>5 DEF TokenTold
    <3> QED BY <3>1, <3>2, <2>1, <2>4, <1>1, <1>a, TokenLeaves
  <2>9. Token!TypeOK'
    BY <2>1, <2>4, <1>0, <1>1 DEF Token!TypeOK
  <2> QED BY <2>6, <2>7, <2>9 DEF Token!TokenInv
<1> QED BY <1>2, <1>3, <1>4, <1>5, <1>6

\* The provider takes the token and hands out the next one.
LEMMA TokenRotates ==
    ASSUME Token!TokenInv, NEW c \in Workers,
           Token!Refresh(c), t_call[c].gen = t_newest[t_call[c].at.ref]
    PROVE  Token!TokenInv'
<1> DEFINE ref == t_call[c].at.ref
           r == [t_call[c] EXCEPT !.pc = "put", !.gen = @ + 1]
<1>0. /\ Token!TypeOK /\ Token!Stored /\ Token!HasCredential /\ Token!RotatesAlone /\ Token!BoundOnce
      /\ "none" \notin Workers /\ "none" \notin Grants
  BY ServicesAssumption DEF Token!TokenInv
<1>1. /\ t_call[c].pc = "refresh" /\ t_newest[ref] < MaxGen
      /\ t_newest' = [t_newest EXCEPT ![ref] = @ + 1]
      /\ t_call' = [t_call EXCEPT ![c] = r]
      /\ UNCHANGED <<t_row, t_collector, t_vault, t_refreshing, t_overtaken,
                     t_state, t_result, t_completing, t_torn>>
  BY DEF Token!Refresh, Token!oauth
<1>2. ref \in Grants
  BY <1>1, <1>0 DEF Token!HasCredential, Token!Rotating
<1>3. t_newest[ref] \in Nat /\ t_newest[ref] > 0 /\ MaxGen \in Nat /\ Token!Withdrawn = MaxGen + 1
  BY <1>2, <1>0, TokenVault DEF Token!BoundOnce
<1>4. r \in Token!Call /\ r.pc = "put" /\ r.at = t_call[c].at /\ r.gen = t_newest[ref] + 1
  <2>1. t_call[c].gen + 1 \in 0..MaxGen
    BY <1>1, <1>3
  <2> QED BY <2>1, <1>0, TokenFields DEF Token!Call, Token!Pc
<1> HIDE DEF r
<1>5. /\ t_call' \in [Workers -> Token!Call] /\ t_call'[c] = r
      /\ \A d \in Workers \ {c} : t_call'[d] = t_call[d]
  BY <1>1, <1>4, <1>0, TokenBecomes
<1>6. t_call'[c].pc = "put" /\ t_call'[c].at.ref = ref /\ t_call'[c].gen > 0
  BY <1>3, <1>4, <1>5
<1>7. /\ t_newest' \in [Grants -> 0..Token!Withdrawn] /\ t_newest'[ref] = t_newest[ref] + 1
      /\ \A g \in Grants \ {ref} : t_newest'[g] = t_newest[g]
  <2>1. t_newest[ref] + 1 \in 0..Token!Withdrawn
    BY <1>1, <1>3
  <2> QED BY <2>1, <1>1, <1>2, <1>0 DEF Token!TypeOK
<1>8. Token!NeverRefused' /\ Token!BoundOnce' /\ Token!CompletesAlone'
  <2>1. \A g \in Grants : t_newest'[g] \in Nat /\ t_newest'[g] >= t_newest[g]
    <3>1. ASSUME NEW g \in Grants PROVE t_newest[g] \in Nat
      BY <1>0, TokenVault
    <3> QED BY <3>1, <1>2, <1>7
  <2>2. t_call'[c].pc \notin Token!Authorizing
    BY <1>6 DEF Token!Authorizing
  <2> QED BY <2>1, <2>2, <1>5, <1>6, <1>1, TokenAside
\* The token was the one in the vault, so nobody had been told that it is spent.
<1>9. t_overtaken \/ (t_row.ref = ref /\ ~Token!Spent(ref))
  <2>1. t_overtaken \/ t_row.ref = ref
    BY <1>1, <1>0 DEF Token!RotatesAlone, Token!Rotating
  <2>2. t_overtaken \/ t_vault[ref].gen = t_newest[ref]
    BY <1>1, <1>0 DEF Token!RotatesAlone
  <2> QED BY <2>1, <2>2 DEF Token!Spent
<1>10. Token!Stored'
  BY <1>0, <1>1 DEF Token!Stored, Token!None, Token!Gone
<1>11. Token!HasCredential'
  BY <1>1, <1>2, <1>5, <1>6, <1>0 DEF Token!HasCredential, Token!Gone, Token!Rotating, Token!None
<1>12. Token!RotatesAlone'
  <2>0. SUFFICES ASSUME ~t_overtaken PROVE Token!RotatesAlone'
    BY <1>1 DEF Token!RotatesAlone
  <2>1. t_refreshing = c
    BY <2>0, <1>1, <1>0 DEF Token!RotatesAlone, Token!Locked
  <2>2. \A d \in Workers \ {c} : t_call[d].pc \notin Token!Locked
    BY <2>0, <2>1, <1>0 DEF Token!RotatesAlone
  <2>3. t_row.ref = ref /\ t_row.status # "expired"
    BY <2>0, <1>2, <1>9, <1>0 DEF Token!RotatesAlone, Token!None
  <2>4. ASSUME NEW d \in Workers \ {c}
        PROVE  /\ t_call'[d].pc \notin Token!Locked
               /\ t_call'[d].pc \in Token!Rotating \cup {"told"} => t_call'[d].at.ref = ref
               /\ ~(t_call'[d].pc = "told" /\ t_call'[d].outcome = "auth")
    BY <2>0, <2>2, <2>3, <1>5, <1>9, <1>0 DEF Token!RotatesAlone
  <2>5. \A d \in Workers \ {c} : t_call'[d].pc \notin {"refresh", "refused"}
    BY <2>4 DEF Token!Locked
  <2> QED BY <2>1, <2>3, <2>4, <2>5, <1>1, <1>2, <1>6, <1>0
          DEF Token!RotatesAlone, Token!Rotating, Token!None
<1>13. Token!TypeOK'
  BY <1>1, <1>5, <1>7, <1>0 DEF Token!TypeOK
<1> QED BY <1>8, <1>10, <1>11, <1>12, <1>13 DEF Token!TokenInv

\* The new token is stored under the grant it belongs to.
LEMMA TokenPuts ==
    ASSUME Token!TokenInv, NEW c \in Workers, Token!PutToken(c) PROVE Token!TokenInv'
<1> DEFINE ref == t_call[c].at.ref
           kept == [gen |-> t_call[c].gen, fresh |-> TRUE]
<1>0. /\ Token!TypeOK /\ Token!Stored /\ Token!HasCredential /\ Token!RotatesAlone
      /\ "none" \notin Workers /\ "none" \notin Grants
  BY ServicesAssumption DEF Token!TokenInv
<1>1. /\ t_call[c].pc = "put" /\ t_vault' = [t_vault EXCEPT ![ref] = kept]
      /\ Token!Goto(c, "mark")
      /\ UNCHANGED <<t_row, t_collector, t_newest, t_refreshing, t_overtaken,
                     t_state, t_result, t_completing, t_torn>>
  BY DEF Token!PutToken, Token!oauth
<1>2. ref \in Grants /\ t_call[c].gen > 0
  BY <1>1, <1>0 DEF Token!HasCredential, Token!Rotating
<1>3. kept \in Token!Token /\ kept # Token!Gone /\ kept.gen > 0
  <2>1. kept.gen > 0 /\ Token!Gone.gen = 0
    BY <1>2 DEF Token!Gone
  <2> QED BY <2>1, <1>0, TokenFields DEF Token!Token
<1> HIDE DEF kept
<1>4. /\ t_vault' \in [Grants -> Token!Token] /\ t_vault'[ref] = kept
      /\ \A g \in Grants \ {ref} : t_vault'[g] = t_vault[g]
  BY <1>1, <1>2, <1>3, <1>0 DEF Token!TypeOK
<1>5. /\ t_call' \in [Workers -> Token!Call] /\ t_call'[c].pc = "mark" /\ t_call'[c].at.ref = ref
      /\ \A d \in Workers \ {c} : t_call'[d] = t_call[d]
  BY <1>1, <1>0, TokenGoto DEF Token!Pc
<1>6. Token!NeverRefused' /\ Token!BoundOnce' /\ Token!CompletesAlone'
  <2>1. \A g \in Grants : t_newest'[g] \in Nat /\ t_newest'[g] >= t_newest[g]
    BY <1>0, <1>1, TokenVault
  <2>2. t_call'[c].pc \notin Token!Authorizing
    BY <1>5 DEF Token!Authorizing
  <2> QED BY <2>1, <2>2, <1>5, <1>1, TokenAside
<1>7. Token!Stored'
  <2>1. t_row.ref \in Grants \cup {"none"}
    BY <1>0, TokenFields
  <2> QED BY <2>1, <1>0, <1>1, <1>3, <1>4 DEF Token!Stored, Token!None, Token!Gone
<1>8. Token!HasCredential'
  <2>1. \A g \in Grants : /\ t_vault[g] # Token!Gone => t_vault'[g] # Token!Gone
                          /\ t_vault'[g] # Token!Gone => t_vault'[g].gen > 0
    BY <1>3, <1>4, <1>0 DEF Token!HasCredential
  <2>2. ASSUME NEW d \in Workers \ {c}
        PROVE  /\ t_call'[d].pc \in Token!Rotating => t_call'[d].at.ref \in Grants
               /\ t_call'[d].pc \in Token!Rotating \ {"get"} /\ t_row'.ref = t_call'[d].at.ref =>
                     t_vault'[t_call'[d].at.ref] # Token!Gone
               /\ t_call'[d].pc = "put" => t_call'[d].gen > 0
               /\ t_call'[d].pc \in {"delete", "clean"} /\ t_call'[d].at.ref # "none" =>
                     t_row'.ref # t_call'[d].at.ref
    BY <2>1, <1>1, <1>5, <1>0 DEF Token!HasCredential, Token!None
  <2>3. ASSUME NEW d \in Workers \ {c}, t_call'[d].pc = "bind"
        PROVE  t_vault'[t_call'[d].grant] # Token!Gone
    <3>1. t_call[d].grant \in Grants
      BY <2>3, <1>5 DEF Token!TokenInv, Token!CompletesAlone, Token!Authorizing
    <3> QED BY <3>1, <2>1, <2>3, <1>5, <1>0 DEF Token!HasCredential
  <2> QED BY <2>1, <2>2, <2>3, <1>1, <1>2, <1>3, <1>4, <1>5
          DEF Token!HasCredential, Token!Gone, Token!None
<1>9. Token!RotatesAlone'
  <2>0. SUFFICES ASSUME ~t_overtaken PROVE Token!RotatesAlone'
    BY <1>1 DEF Token!RotatesAlone
  <2>1. t_refreshing = c
    BY <2>0, <1>1, <1>0 DEF Token!RotatesAlone, Token!Locked
  <2>2. \A d \in Workers \ {c} : t_call'[d].pc \notin Token!Locked
    BY <2>0, <2>1, <1>5, <1>0 DEF Token!RotatesAlone
  <2>3. t_row.ref = ref
    BY <2>0, <1>1, <1>0 DEF Token!RotatesAlone, Token!Rotating
\* The token is not the provider's newest either.
  <2>4. ASSUME Token!Spent(ref) PROVE Token!Spent(ref)'
    <3>1. t_call[c].gen # t_newest[ref]
      BY <2>4, <1>1 DEF Token!Spent, Token!Putting
    <3>2. \A d \in Workers : t_call'[d].pc # "put"
      BY <2>2, <1>5 DEF Token!Locked
    <3>3. t_vault'[ref].gen = t_call[c].gen
      BY <1>4 DEF kept
    <3>4. t_call'[c].at.ref = ref
      BY <1>5
    <3> QED BY <3>1, <3>2, <3>3, <3>4, <1>1 DEF Token!Spent, Token!Putting
  <2>5. \A d \in Workers \ {c} : t_call'[d].pc \notin {"refresh", "refused"}
    BY <2>2 DEF Token!Locked
  <2>6. ref = t_call'[c].at.ref /\ ref = t_row'.ref
    BY <2>3, <1>1, <1>5
  <2>7. ASSUME NEW d \in Workers \ {c}
        PROVE  /\ t_call'[d].pc \in Token!Rotating \cup {"told"} => t_call'[d].at.ref = ref
               /\ t_call'[d].pc = "told" /\ t_call'[d].outcome = "auth" => Token!Spent(ref)
    BY <2>0, <2>3, <1>5, <1>0 DEF Token!RotatesAlone
  <2>8. t_row'.status = "expired" => Token!Spent(ref)
    BY <2>0, <2>3, <1>1, <1>2, <1>0 DEF Token!RotatesAlone, Token!None
  <2> QED BY <2>1, <2>2, <2>4, <2>5, <2>6, <2>7, <2>8, <1>1, <1>2, <1>5, <1>0
          DEF Token!RotatesAlone, Token!Rotating, Token!None
<1>10. Token!TypeOK'
  BY <1>1, <1>4, <1>5, <1>0 DEF Token!TypeOK
<1> QED BY <1>6, <1>7, <1>8, <1>9, <1>10 DEF Token!TokenInv

\* A credential goes that the row does not point to, from under a call that may still
\* use its copy.
LEMMA TokenForgets ==
    ASSUME Token!TokenInv, NEW h, t_row.ref # h \/ h = "none",
           \A d \in Workers : t_call'[d].pc = "bind" => t_call'[d].grant # h,
           \A g \in Grants : t_vault'[g] = IF g = h THEN Token!Gone ELSE t_vault[g],
           NEW c \in Workers, t_call' \in [Workers -> Token!Call],
           t_call'[c].pc \notin Token!Rotating \cup {"told", "bind", "delete", "clean"},
           \A d \in Workers \ {c} : t_call'[d] = t_call[d],
           UNCHANGED <<t_row, t_newest, t_refreshing, t_overtaken, t_torn>>
    PROVE  Token!Stored' /\ Token!HasCredential' /\ Token!RotatesAlone'
<1>0. /\ Token!TypeOK /\ Token!Stored /\ Token!HasCredential /\ Token!RotatesAlone /\ Token!BoundOnce
      /\ "none" \notin Workers /\ "none" \notin Grants
  BY ServicesAssumption DEF Token!TokenInv
<1>1. t_row.ref # "none" => t_row.ref \in Grants /\ t_vault'[t_row.ref] = t_vault[t_row.ref]
  BY <1>0, TokenFields
<1>2. Token!Gone.gen = 0
  BY DEF Token!Gone
<1>3. Token!Stored'
  BY <1>0, <1>1 DEF Token!Stored, Token!None, Token!Gone
<1>4. Token!HasCredential'
  <2>1. \A g \in Grants : t_vault'[g] # Token!Gone => t_vault'[g].gen > 0
    BY <1>0 DEF Token!HasCredential
  <2>2. ASSUME NEW d \in Workers \ {c}
        PROVE  /\ t_call'[d].pc \in Token!Rotating => t_call'[d].at.ref \in Grants
               /\ t_call'[d].pc \in Token!Rotating \ {"get"} /\ t_row'.ref = t_call'[d].at.ref =>
                     t_vault'[t_call'[d].at.ref] # Token!Gone
               /\ t_call'[d].pc = "put" => t_call'[d].gen > 0
               /\ t_call'[d].pc \in {"delete", "clean"} /\ t_call'[d].at.ref # "none" =>
                     t_row'.ref # t_call'[d].at.ref
    <3>1. /\ t_call[d].pc \in Token!Rotating => t_call[d].at.ref \in Grants
          /\ t_call[d].pc \in Token!Rotating \ {"get"} /\ t_row.ref = t_call[d].at.ref =>
                t_vault[t_call[d].at.ref] # Token!Gone
          /\ t_call[d].pc = "put" => t_call[d].gen > 0
          /\ t_call[d].pc \in {"delete", "clean"} /\ t_call[d].at.ref # "none" =>
                t_row.ref # t_call[d].at.ref
      BY <1>0 DEF Token!HasCredential, Token!None
    <3> QED BY <3>1, <1>1, <1>0
  <2>3. ASSUME NEW d \in Workers \ {c}, t_call'[d].pc = "bind"
        PROVE  t_vault'[t_call'[d].grant] # Token!Gone
    <3>1. t_call[d].grant \in Grants
      BY <2>3 DEF Token!TokenInv, Token!CompletesAlone, Token!Authorizing
    <3> QED BY <3>1, <2>3, <1>0 DEF Token!HasCredential
  <2>4. t_call'[c].pc \notin {"put", "bind", "delete", "clean"}
    BY DEF Token!Rotating
  <2> QED BY <2>1, <2>2, <2>3, <2>4 DEF Token!HasCredential, Token!Gone, Token!None
<1>5. Token!RotatesAlone'
  <2>1. t_call'[c].pc \notin Token!Locked /\ t_call'[c].pc \notin {"put", "refresh", "refused"}
    BY DEF Token!Rotating, Token!Locked
  <2>2. TokenNoted /\ TokenTold(c)
    BY DEF TokenNoted, TokenTold
  <2>3. t_row.ref \in Grants => t_vault'[t_row.ref] = t_vault[t_row.ref]
    BY <1>0, <1>1
  <2>4. t_call'[c].pc \notin Token!Rotating
    OBVIOUS
  <2> QED BY <2>1, <2>2, <2>3, <2>4, TokenAlone
<1> QED BY <1>3, <1>4, <1>5

LEMMA TokenRevokes ==
    ASSUME Token!TokenInv, NEW c \in Workers, Token!RevokeConnector(c) \/ Token!DeleteCredential(c)
    PROVE  Token!TokenInv'
<1>0. /\ Token!TypeOK /\ Token!Stored /\ Token!HasCredential /\ Token!RotatesAlone /\ Token!BoundOnce
      /\ Token!CompletesAlone /\ "none" \notin Workers /\ "none" \notin Grants
  BY ServicesAssumption DEF Token!TokenInv
<1>1. CASE Token!RevokeConnector(c) /\ t_row.status = "revoked"
  <2>1. /\ t_call' = [t_call EXCEPT ![c] = Token!Rest]
        /\ UNCHANGED <<t_row, t_collector, t_vault, t_newest, t_refreshing, t_overtaken,
                       t_state, t_result, t_completing, t_torn>>
    BY <1>1 DEF Token!RevokeConnector, Token!oauth
  <2>2. /\ t_call' \in [Workers -> Token!Call]
        /\ \A d \in Workers \ {c} : t_call'[d] = t_call[d]
        /\ t_call'[c].pc = "idle" /\ t_call'[c].at.ref = "none"
    BY <2>1, <1>0, TokenRests
  <2>3. /\ t_row' \in Token!Row /\ t_collector' \in {"active", "unavailable"}
        /\ t_newest' \in [Grants -> 0..Token!Withdrawn]
    BY <2>1, <1>0 DEF Token!TypeOK
  <2>4. TokenNoted /\ TokenTold(c)
    BY <2>1, <2>2 DEF TokenNoted, TokenTold
  <2> QED BY <2>1, <2>2, <2>3, <2>4, TokenAnswers
<1>2. CASE Token!RevokeConnector(c) /\ t_row.status # "revoked"
  <2>1. /\ t_row' = [t_row EXCEPT !.status = "revoked", !.ref = "none"]
        /\ Token!Park /\ Token!Goto(c, "delete") /\ t_call[c].pc = "revoke"
        /\ t_overtaken' = (t_overtaken \/ Token!AtWork # {})
        /\ UNCHANGED <<t_vault, t_newest, t_refreshing, t_state, t_result, t_completing, t_torn>>
    BY <1>2 DEF Token!RevokeConnector, Token!oauth, Token!None
  <2>2. t_row' \in Token!Row /\ t_row'.ref = "none" /\ t_row'.status = "revoked"
    BY <2>1, <1>0 DEF Token!TypeOK, Token!Row, Token!None
  <2>3. t_collector' \in {"active", "unavailable"}
    BY <2>1, <1>0 DEF Token!Park, Token!TypeOK
  <2>4. /\ t_call' \in [Workers -> Token!Call] /\ t_call'[c].pc = "delete"
        /\ t_call'[c].at = t_call[c].at /\ \A d \in Workers \ {c} : t_call'[d] = t_call[d]
    BY <2>1, <1>0, TokenGoto DEF Token!Pc
  <2>5. Token!NeverRefused' /\ Token!BoundOnce' /\ Token!CompletesAlone'
    <3>1. \A g \in Grants : t_newest'[g] \in Nat /\ t_newest'[g] >= t_newest[g]
      BY <2>1, <1>0, TokenVault
    <3>2. t_call'[c].pc \notin Token!Authorizing
      BY <2>4 DEF Token!Authorizing
    <3> QED BY <3>1, <3>2, <2>1, <2>2, <2>4, TokenAside
  <2>6. Token!Stored'
    BY <2>2 DEF Token!Stored, Token!None
  <2>7. Token!HasCredential'
    BY <2>1, <2>2, <2>4, <1>0 DEF Token!HasCredential, Token!Gone, Token!Rotating, Token!None
  <2>8. Token!RotatesAlone'
    <3>1. SUFFICES ASSUME ~t_overtaken' PROVE Token!RotatesAlone'
      BY DEF Token!RotatesAlone
    <3>2. \A d \in Workers : t_call[d].pc \notin Token!Rotating \cup {"told"}
      BY <3>1, <2>1 DEF Token!AtWork
    <3>3. \A d \in Workers : t_call'[d].pc \notin Token!Rotating \cup {"told"}
      BY <3>2, <2>4 DEF Token!Rotating
    <3> QED BY <3>3, <2>2 DEF Token!RotatesAlone, Token!Rotating, Token!Locked, Token!None
  <2>9. Token!TypeOK'
    <3>1. t_overtaken' \in BOOLEAN
      BY <2>1
    <3> QED BY <3>1, <2>1, <2>2, <2>3, <2>4, <1>0 DEF Token!TypeOK
  <2> QED BY <2>5, <2>6, <2>7, <2>8, <2>9 DEF Token!TokenInv
<1>3. CASE Token!DeleteCredential(c)
  <2> DEFINE h == t_call[c].at.ref
  <2>1. /\ t_call[c].pc = "delete"
        /\ t_vault' = [g \in Grants |-> IF g = h THEN Token!Gone ELSE t_vault[g]]
        /\ t_call' = [t_call EXCEPT ![c] = Token!Rest]
        /\ UNCHANGED <<t_row, t_collector, t_newest, t_refreshing, t_overtaken,
                       t_state, t_result, t_completing, t_torn>>
    BY <1>3 DEF Token!DeleteCredential, Token!oauth
  <2>2. /\ t_call' \in [Workers -> Token!Call]
        /\ \A d \in Workers \ {c} : t_call'[d] = t_call[d]
        /\ t_call'[c].pc = "idle" /\ t_call'[c].at.ref = "none"
    BY <2>1, <1>0, TokenRests
  <2>3. t_row.ref # h \/ h = "none"
    BY <2>1, <1>0 DEF Token!HasCredential, Token!None
  <2>4. ASSUME NEW d \in Workers, t_call[d].pc = "bind" PROVE t_call[d].grant # h
    <3>1. t_call[d].grant \in Grants /\ Token!Binding(d, t_call[d].grant)
      BY <2>4, <1>0 DEF Token!CompletesAlone, Token!Authorizing, Token!Binding
    <3> QED BY <3>1, <1>0 DEF Token!BoundOnce
  <2>9. ASSUME NEW d \in Workers, t_call'[d].pc = "bind" PROVE t_call'[d].grant # h
    BY <2>2, <2>4, <2>9
  <2>5. \A g \in Grants : t_vault'[g] = IF g = h THEN Token!Gone ELSE t_vault[g]
    BY <2>1
  <2>6. Token!Stored' /\ Token!HasCredential' /\ Token!RotatesAlone'
    <3>1. t_call'[c].pc \notin Token!Rotating \cup {"told", "bind", "delete", "clean"}
      BY <2>2 DEF Token!Rotating
    <3> QED BY <3>1, <2>1, <2>2, <2>3, <2>5, <2>9, TokenForgets
  <2>7. Token!NeverRefused' /\ Token!BoundOnce' /\ Token!CompletesAlone'
    <3>1. \A g \in Grants : t_newest'[g] \in Nat /\ t_newest'[g] >= t_newest[g]
      BY <2>1, <1>0, TokenVault
    <3>2. t_call'[c].pc \notin Token!Authorizing
      BY <2>2 DEF Token!Authorizing
    <3> QED BY <3>1, <3>2, <2>1, <2>2, TokenAside
  <2>8. Token!TypeOK'
    <3>1. t_vault' \in [Grants -> Token!Token]
      BY <2>1, <1>0, TokenVault
    <3> QED BY <3>1, <2>1, <2>2, <1>0 DEF Token!TypeOK
  <2> QED BY <2>6, <2>7, <2>8 DEF Token!TokenInv
<1> QED BY <1>1, <1>2, <1>3

LEMMA TokenExpires ==
    ASSUME Token!TokenInv, NEW g \in Grants, Token!Expires(g) PROVE Token!TokenInv'
<1>0. /\ Token!TypeOK /\ Token!Stored /\ Token!HasCredential /\ Token!RotatesAlone
      /\ "none" \notin Grants
  BY ServicesAssumption DEF Token!TokenInv
<1>1. /\ t_vault[g].fresh /\ t_vault' = [t_vault EXCEPT ![g].fresh = FALSE]
      /\ UNCHANGED <<t_row, t_collector, t_newest, t_refreshing, t_overtaken, t_call,
                     t_state, t_result, t_completing, t_torn>>
  BY DEF Token!Expires, Token!oauth
<1> DEFINE r == [t_vault[g] EXCEPT !.fresh = FALSE]
<1>2. r \in Token!Token /\ r.gen = t_vault[g].gen
  BY <1>0, TokenVault DEF Token!Token
<1>3. t_vault' = [t_vault EXCEPT ![g] = r]
  BY <1>1
<1> HIDE DEF r
<1>4. /\ t_vault' \in [Grants -> Token!Token]
      /\ \A h \in Grants : t_vault'[h].gen = t_vault[h].gen
      /\ \A h \in Grants \ {g} : t_vault'[h] = t_vault[h]
  BY <1>2, <1>3, <1>0 DEF Token!TypeOK
<1>5. t_vault[g].gen > 0 /\ t_vault'[g].gen > 0
  <2>1. Token!Gone.fresh = FALSE
    BY DEF Token!Gone
  <2>2. t_vault[g] # Token!Gone
    BY <2>1, <1>1
  <2> QED BY <2>2, <1>4, <1>0 DEF Token!HasCredential
<1>6. \A h \in Grants : t_vault[h] # Token!Gone <=> t_vault'[h] # Token!Gone
  <2>1. Token!Gone.gen = 0
    BY DEF Token!Gone
  <2> QED BY <2>1, <1>4, <1>5
<1>7. t_row.ref \in Grants \cup {"none"}
  BY <1>0 DEF Token!TypeOK, Token!Row, Token!None
<1>8. Token!Stored'
  BY <1>1, <1>4, <1>6, <1>7, <1>0 DEF Token!Stored, Token!None, Token!Gone
<1>9. Token!HasCredential'
  <2>1. \A h \in Grants : t_vault'[h] # Token!Gone => t_vault'[h].gen > 0
    BY <1>4, <1>6, <1>0 DEF Token!HasCredential
  <2>2. ASSUME NEW c \in Workers, t_call[c].pc = "bind" PROVE t_vault'[t_call[c].grant] # Token!Gone
    <3>1. t_call[c].grant \in Grants
      BY <2>2 DEF Token!TokenInv, Token!CompletesAlone, Token!Authorizing
    <3> QED BY <3>1, <2>2, <1>6, <1>0 DEF Token!HasCredential
  <2> QED BY <2>1, <2>2, <1>1, <1>6, <1>0 DEF Token!HasCredential, Token!Gone, Token!None
<1>10. Token!RotatesAlone'
  <2>1. SUFFICES ASSUME ~t_overtaken PROVE Token!RotatesAlone'
    BY <1>1 DEF Token!RotatesAlone
  <2>2. \A c \in Workers : t_call[c].pc \in {"refresh", "refused", "told"} => t_call[c].at.ref \in Grants
    BY <2>1, <1>7, <1>0 DEF Token!RotatesAlone, Token!Rotating, Token!None
  <2>3. \A h \in Grants : Token!Spent(h) => Token!Spent(h)'
    BY <1>1, <1>4 DEF Token!Spent, Token!Putting
  <2> QED BY <2>1, <2>2, <2>3, <1>1, <1>4, <1>7, <1>0 DEF Token!RotatesAlone, Token!Rotating, Token!None
<1>11. Token!TypeOK' /\ Token!NeverRefused' /\ Token!BoundOnce' /\ Token!CompletesAlone'
  BY <1>1, <1>4 DEF Token!TokenInv, Token!TypeOK, Token!NeverRefused, Token!BoundOnce, Token!Binding,
     Token!CompletesAlone
<1> QED BY <1>8, <1>9, <1>10, <1>11 DEF Token!TokenInv

\* Nothing that the refreshes depend on changes.
LEMMA TokenRotatesOn ==
    ASSUME Token!RotatesAlone,
           UNCHANGED <<t_row, t_vault, t_newest, t_refreshing, t_overtaken, t_call>>
    PROVE  Token!RotatesAlone'
<1>1. SUFFICES ASSUME ~t_overtaken PROVE Token!RotatesAlone'
  BY DEF Token!RotatesAlone
<1>2. t_row.ref # "none" /\ t_row.status = "expired" => Token!Spent(t_row.ref)'
  <2>1. t_row.ref # "none" /\ t_row.status = "expired" => Token!Spent(t_row.ref)
    BY <1>1 DEF Token!RotatesAlone, Token!None
  <2> QED BY <2>1 DEF Token!Spent, Token!Putting
<1>3. ASSUME NEW c \in Workers
      PROVE  t_call[c].pc = "refused" \/ (t_call[c].pc = "told" /\ t_call[c].outcome = "auth") =>
                Token!Spent(t_call[c].at.ref)'
  <2>1. t_call[c].pc = "refused" \/ (t_call[c].pc = "told" /\ t_call[c].outcome = "auth") =>
           Token!Spent(t_call[c].at.ref)
    BY <1>1 DEF Token!RotatesAlone
  <2> QED BY <2>1 DEF Token!Spent, Token!Putting
<1> QED BY <1>1, <1>2, <1>3 DEF Token!RotatesAlone, Token!None

LEMMA TokenLapses ==
    ASSUME Token!TokenInv, Token!LockLapses PROVE Token!TokenInv'
<1>0. /\ Token!TypeOK /\ Token!Stored /\ Token!HasCredential /\ Token!RotatesAlone
      /\ Token!NeverRefused /\ Token!BoundOnce /\ Token!CompletesAlone
  BY DEF Token!TokenInv
<1>1. /\ UNCHANGED <<t_row, t_collector, t_vault, t_newest, t_state, t_result, t_call>>
      /\ \/ /\ t_refreshing' = "none" /\ t_overtaken' = TRUE
            /\ UNCHANGED <<t_completing, t_torn>>
         \/ \E g \in Grants : /\ t_completing' = [t_completing EXCEPT ![g] = "none"]
                              /\ t_torn' = t_torn \cup {g}
                              /\ UNCHANGED <<t_refreshing, t_overtaken>>
  BY DEF Token!LockLapses, Token!None
<1>2. CASE t_refreshing' = "none" /\ t_overtaken' = TRUE /\ UNCHANGED <<t_completing, t_torn>>
  <2>1. Token!RotatesAlone'
    BY <1>2 DEF Token!RotatesAlone
  <2>2. Token!TypeOK'
    BY <1>1, <1>2, <1>0 DEF Token!TypeOK, Token!None
  <2>3. Token!Stored' /\ Token!NeverRefused' /\ Token!BoundOnce' /\ Token!HasCredential' /\ Token!CompletesAlone'
    BY <1>1, <1>2, <1>0 DEF Token!Stored, Token!NeverRefused, Token!BoundOnce, Token!Binding,
       Token!HasCredential, Token!CompletesAlone
  <2> QED BY <2>1, <2>2, <2>3 DEF Token!TokenInv
<1>3. ASSUME NEW g \in Grants, t_completing' = [t_completing EXCEPT ![g] = "none"],
             t_torn' = t_torn \cup {g}, UNCHANGED <<t_refreshing, t_overtaken>>
      PROVE  Token!TokenInv'
  <2>1. Token!CompletesAlone'
    BY <1>1, <1>3, <1>0 DEF Token!CompletesAlone, Token!TypeOK
  <2>2. Token!TypeOK'
    BY <1>1, <1>3, <1>0 DEF Token!TypeOK, Token!None
  <2>3. Token!Stored' /\ Token!NeverRefused'
    BY <1>1, <1>3, <1>0 DEF Token!Stored, Token!NeverRefused
  <2>5. Token!RotatesAlone'
    BY <1>1, <1>3, <1>0, TokenRotatesOn
  <2>6. Token!BoundOnce'
    BY <1>1, <1>0 DEF Token!BoundOnce, Token!Binding
  <2>4. Token!HasCredential'
    BY <1>1, <1>0 DEF Token!HasCredential
  <2> QED BY <2>1, <2>2, <2>3, <2>4, <2>5, <2>6 DEF Token!TokenInv
<1> QED BY <1>1, <1>2, <1>3

\* A callback that answers, or dies, frees the lock that it has.
LEMMA TokenLeavesOAuth ==
    ASSUME Token!TokenInv, NEW c \in Workers,
           \A d \in Workers \ {c} : t_call'[d] = t_call[d],
           t_call'[c].pc = "idle", t_call'[c].at.ref = "none",
           t_row'.ref = t_row.ref, UNCHANGED t_newest, t_torn \subseteq t_torn',
           \A h \in Grants :
              /\ t_completing'[h] = t_completing[h] \/ t_completing[h] = c
              /\ t_result'[h] = t_result[h] \/ h \in t_torn \/ t_completing[h] = c
              /\ t_result'[h] = "failed" => t_result[h] = "failed" \/ t_row.ref # h \/ h \in t_torn
    PROVE  Token!NeverRefused' /\ Token!BoundOnce' /\ Token!CompletesAlone'
<1>0. Token!NeverRefused /\ Token!BoundOnce /\ Token!CompletesAlone /\ "none" \notin Grants
  BY ServicesAssumption DEF Token!TokenInv
<1>1. Token!NeverRefused'
  BY <1>0 DEF Token!NeverRefused
<1>2. Token!BoundOnce'
  BY <1>0 DEF Token!BoundOnce, Token!Binding
<1>3. Token!CompletesAlone'
  <2>1. ASSUME NEW d \in Workers \ {c}, t_call'[d].pc \in Token!Authorizing
        PROVE  LET g == t_call'[d].grant
               IN  /\ g \in Grants
                   /\ g \notin t_torn' =>
                         /\ t_completing'[g] = d
                         /\ t_call'[d].pc # "complete" => t_result'[g] = "none"
                         /\ t_call'[d].pc \in {"exchange", "prepare", "bind"} => t_row'.ref # g
    BY <2>1, <1>0 DEF Token!CompletesAlone, Token!None
  <2>2. t_call'[c].pc \notin Token!Authorizing
    BY DEF Token!Authorizing
  <2> QED BY <2>1, <2>2 DEF Token!CompletesAlone, Token!None
<1> QED BY <1>1, <1>2, <1>3

\* The steps that end a callback, and the death of any call.
LEMMA TokenQuits ==
    ASSUME Token!TokenInv, NEW c \in Workers,
           \/ Token!ReadState(c) /\ ~Token!Goto(c, "exchange")
           \/ Token!ExchangeCode(c) /\ t_newest[t_call[c].grant] # 0
           \/ Token!Denied(c) \/ Token!Record(c) \/ Token!Crash(c)
    PROVE  Token!TokenInv'
<1> DEFINE g == t_call[c].grant
           Freed(h) == t_completing' = [t_completing EXCEPT ![h] = IF @ = c THEN "none" ELSE @]
           Same == UNCHANGED <<t_row, t_collector, t_vault, t_newest, t_overtaken, t_torn>>
           Gone == t_call' = [t_call EXCEPT ![c] = Token!Rest]
<1>0. /\ Token!TypeOK /\ Token!CompletesAlone /\ "none" \notin Workers /\ "none" \notin Grants
      /\ t_completing \in [Grants -> Workers \cup {"none"}]
      /\ t_result \in [Grants -> {"none", "bound", "failed"}] /\ t_state \subseteq Grants
  BY ServicesAssumption DEF Token!TokenInv, Token!TypeOK, Token!None
\* A call that goes, with its lock and its answer.
<1>f. ASSUME Gone, Same, t_refreshing' \in {t_refreshing, Token!Freed(c)},
             t_state' \subseteq Grants, t_result' \in [Grants -> {"none", "bound", "failed"}],
             t_completing' \in [Grants -> Workers \cup {"none"}],
             \A h \in Grants :
                /\ t_completing'[h] = t_completing[h] \/ t_completing[h] = c
                /\ t_result'[h] = t_result[h] \/ h \in t_torn \/ t_completing[h] = c
                /\ t_result'[h] = "failed" => t_result[h] = "failed" \/ t_row.ref # h \/ h \in t_torn
      PROVE  Token!TokenInv'
  <2>1. /\ t_call' \in [Workers -> Token!Call]
        /\ \A d \in Workers \ {c} : t_call'[d] = t_call[d]
        /\ t_call'[c].pc = "idle" /\ t_call'[c].at.ref = "none"
    BY <1>f, <1>0, TokenRests
  <2>2. Token!Stored' /\ Token!HasCredential' /\ Token!RotatesAlone'
    <3>1. t_call'[c].pc \notin Token!Rotating \cup {"bind", "delete", "clean"}
      BY <2>1 DEF Token!Rotating
    <3>2. TokenNoted /\ TokenTold(c)
      BY <2>1, <1>f DEF TokenNoted, TokenTold
    <3> QED BY <3>1, <3>2, <2>1, <1>f, TokenLeaves
  <2>3. Token!NeverRefused' /\ Token!BoundOnce' /\ Token!CompletesAlone'
    BY <2>1, <1>f, TokenLeavesOAuth
  <2>4. t_refreshing' \in Workers \cup {"none"}
    BY <1>f, <1>0 DEF Token!Freed, Token!TypeOK, Token!None
  <2>5. Token!TypeOK'
    BY <2>1, <2>4, <1>f, <1>0 DEF Token!TypeOK, Token!None
  <2> QED BY <2>2, <2>3, <2>5 DEF Token!TokenInv
<1>h. ASSUME NEW h \in Grants, Freed(h)
      PROVE  /\ t_completing' \in [Grants -> Workers \cup {"none"}]
             /\ \A z \in Grants : t_completing'[z] = t_completing[z] \/ t_completing[z] = c
  BY <1>h, <1>0
<1>g. ASSUME t_call[c].pc \in Token!Authorizing
      PROVE  g \in Grants /\ (g \in t_torn \/ t_completing[g] = c)
  BY <1>g, <1>0 DEF Token!CompletesAlone
<1>a. ASSUME NEW answer \in {"bound", "failed"}, t_result' = [t_result EXCEPT ![g] = answer],
             t_state' = t_state \ {g}, Freed(g), Gone, Same, t_refreshing' = t_refreshing,
             t_call[c].pc \in Token!Authorizing,
             answer = "bound" \/ t_call[c].pc \in {"exchange", "prepare"}
      PROVE  Token!TokenInv'
  <2>1. t_result' \in [Grants -> {"none", "bound", "failed"}] /\ t_state' \subseteq Grants
    BY <1>a, <1>0
  <2>2. ASSUME NEW h \in Grants
        PROVE  /\ t_result'[h] = t_result[h] \/ h \in t_torn \/ t_completing[h] = c
               /\ t_result'[h] = "failed" => t_result[h] = "failed" \/ t_row.ref # h \/ h \in t_torn
    <3>1. CASE h # g
      BY <3>1, <1>a, <1>0
    <3>2. CASE h = g
      BY <3>2, <1>a, <1>g, <1>0 DEF Token!CompletesAlone
    <3> QED BY <3>1, <3>2
  <2> HIDE DEF Freed, Gone, Same, g
  <2> QED BY <2>1, <2>2, <1>a, <1>f, <1>g, <1>h DEF g
<1>1. CASE Token!ReadState(c) /\ ~Token!Goto(c, "exchange")
  <2>1. /\ t_call[c].pc = "complete" /\ Gone /\ Freed(g) /\ Same /\ t_refreshing' = t_refreshing
        /\ \/ UNCHANGED <<t_state, t_result>>
           \/ t_result' = [t_result EXCEPT ![g] = "bound"] /\ t_state' = t_state \ {g}
    BY <1>1 DEF Token!ReadState, Token!LeaveOAuth, Token!None
  <2>2. t_call[c].pc \in Token!Authorizing
    BY <2>1 DEF Token!Authorizing
  <2> HIDE DEF Freed, Gone, Same, g
  <2>3. CASE UNCHANGED <<t_state, t_result>>
    BY <2>1, <2>2, <2>3, <1>0, <1>f, <1>g, <1>h
  <2>4. CASE t_result' = [t_result EXCEPT ![g] = "bound"] /\ t_state' = t_state \ {g}
    BY <2>1, <2>2, <2>4, <1>a
  <2> QED BY <2>1, <2>3, <2>4
<1>2. CASE (Token!ExchangeCode(c) /\ t_newest[g] # 0) \/ Token!Denied(c)
  <2>1. /\ t_call[c].pc \in {"exchange", "prepare"} /\ Gone /\ Freed(g) /\ Same
        /\ t_refreshing' = t_refreshing
        /\ t_result' = [t_result EXCEPT ![g] = "failed"] /\ t_state' = t_state \ {g}
    <3>1. CASE Token!ExchangeCode(c) /\ t_newest[g] # 0
      BY <3>1 DEF Token!ExchangeCode, Token!Fails, Token!LeaveOAuth, Token!None
    <3>2. CASE Token!Denied(c)
      BY <3>2 DEF Token!Denied, Token!Fails, Token!LeaveOAuth, Token!None
    <3> QED BY <3>1, <3>2, <1>2
  <2>2. t_call[c].pc \in Token!Authorizing
    BY <2>1 DEF Token!Authorizing
  <2> HIDE DEF Freed, Gone, Same, g
  <2> QED BY <2>1, <2>2, <1>a
<1>3. CASE Token!Record(c)
  <2>1. /\ t_call[c].pc = "record" /\ Gone /\ Freed(g) /\ Same /\ t_refreshing' = t_refreshing
        /\ \/ UNCHANGED <<t_state, t_result>>
           \/ t_result' = [t_result EXCEPT ![g] = "bound"] /\ t_state' = t_state \ {g}
    BY <1>3 DEF Token!Record, Token!LeaveOAuth, Token!None
  <2>2. t_call[c].pc \in Token!Authorizing
    BY <2>1 DEF Token!Authorizing
  <2> HIDE DEF Freed, Gone, Same, g
  <2>3. CASE UNCHANGED <<t_state, t_result>>
    BY <2>1, <2>2, <2>3, <1>0, <1>f, <1>g, <1>h
  <2>4. CASE t_result' = [t_result EXCEPT ![g] = "bound"] /\ t_state' = t_state \ {g}
    BY <2>1, <2>2, <2>4, <1>a
  <2> QED BY <2>1, <2>3, <2>4
<1>4. CASE Token!Crash(c)
  <2>1. /\ Gone /\ Same /\ t_refreshing' = Token!Freed(c) /\ UNCHANGED <<t_state, t_result>>
        /\ t_completing' = [h \in Grants |-> IF t_completing[h] = c THEN "none" ELSE t_completing[h]]
    BY <1>4 DEF Token!Crash, Token!None
  <2>2. /\ t_completing' \in [Grants -> Workers \cup {"none"}]
        /\ \A z \in Grants : t_completing'[z] = t_completing[z] \/ t_completing[z] = c
    BY <2>1, <1>0
  <2> HIDE DEF Gone, Same
  <2> QED BY <2>1, <2>2, <1>0, <1>f
<1> QED BY <1>1, <1>2, <1>3, <1>4

\* A callback takes the lock of its state, and goes on to the exchange.
LEMMA TokenCallsBack ==
    ASSUME Token!TokenInv, NEW c \in Workers,
           (\E g \in Grants : Token!Callback(c, g)) \/ (Token!ReadState(c) /\ Token!Goto(c, "exchange"))
    PROVE  Token!TokenInv'
<1>0. /\ Token!TypeOK /\ Token!NeverRefused /\ Token!BoundOnce /\ Token!CompletesAlone
      /\ "none" \notin Workers /\ "none" \notin Grants
  BY ServicesAssumption DEF Token!TokenInv
<1>1. ASSUME NEW g \in Grants, Token!Callback(c, g) PROVE Token!TokenInv'
  <2> DEFINE r == [Token!Rest EXCEPT !.pc = "complete", !.grant = g]
  <2>1. /\ t_result[g] = "none" /\ t_completing[g] = "none"
        /\ t_completing' = [t_completing EXCEPT ![g] = c]
        /\ t_call' = [t_call EXCEPT ![c] = r]
        /\ UNCHANGED <<t_row, t_collector, t_vault, t_newest, t_state, t_result, t_refreshing,
                       t_overtaken, t_torn>>
    BY <1>1 DEF Token!Callback, Token!None
  <2>2. r \in Token!Call /\ r.pc = "complete" /\ r.grant = g /\ r.at.ref = "none"
    BY TokenNobody DEF Token!Call, Token!Pc
  <2> HIDE DEF r
  <2>3. /\ t_call' \in [Workers -> Token!Call] /\ t_call'[c] = r
        /\ \A d \in Workers \ {c} : t_call'[d] = t_call[d]
    BY <2>1, <2>2, <1>0, TokenBecomes
  <2>4. t_call'[c].pc = "complete" /\ t_call'[c].grant = g /\ t_call'[c].at.ref = "none"
    BY <2>2, <2>3
  <2>5. /\ t_completing' \in [Grants -> Workers \cup {"none"}] /\ t_completing'[g] = c
        /\ \A h \in Grants \ {g} : t_completing'[h] = t_completing[h]
    BY <2>1, <1>0 DEF Token!TypeOK, Token!None
  <2>6. Token!Stored' /\ Token!HasCredential' /\ Token!RotatesAlone'
    <3>1. t_call'[c].pc \notin Token!Rotating \cup {"bind", "delete", "clean"}
      BY <2>4 DEF Token!Rotating
    <3>2. TokenNoted /\ TokenTold(c)
      BY <2>1, <2>4 DEF TokenNoted, TokenTold
    <3> QED BY <3>1, <3>2, <2>1, <2>3, TokenLeaves
  <2>7. Token!NeverRefused'
    BY <2>1, <1>0 DEF Token!NeverRefused
  <2>8. Token!BoundOnce'
    BY <2>1, <2>3, <2>4, <1>0 DEF Token!BoundOnce, Token!Binding
  <2>9. Token!CompletesAlone'
    BY <2>1, <2>3, <2>4, <2>5, <1>0 DEF Token!CompletesAlone, Token!None
  <2>10. Token!TypeOK'
    BY <2>1, <2>3, <2>5, <1>0 DEF Token!TypeOK, Token!None
  <2> QED BY <2>6, <2>7, <2>8, <2>9, <2>10 DEF Token!TokenInv
<1>2. CASE Token!ReadState(c) /\ Token!Goto(c, "exchange")
  <2> DEFINE g == t_call[c].grant
  <2>1. t_call[c].pc = "complete"
    BY <1>2 DEF Token!ReadState
  <2>2. g \in Grants /\ (g \in t_torn \/ t_completing[g] = c)
    BY <2>1, <1>0 DEF Token!CompletesAlone, Token!Authorizing
  <2>3. /\ t_call' \in [Workers -> Token!Call] /\ t_call'[c].pc = "exchange"
        /\ t_call'[c].at = t_call[c].at /\ t_call'[c].grant = g
        /\ \A d \in Workers \ {c} : t_call'[d] = t_call[d]
    BY <1>2, <1>0, TokenGoto DEF Token!Pc
  <2>4. ~Token!LeaveOAuth(c, g)
    <3>1. ASSUME Token!LeaveOAuth(c, g) PROVE FALSE
      <4>1. t_call'[c].pc = "idle"
        BY <3>1, <1>0, TokenRests DEF Token!LeaveOAuth
      <4> QED BY <4>1, <2>3
    <3> QED BY <3>1
  <2>5. /\ t_result[g] = "none" /\ ~Token!Recovers(g)
        /\ t_torn' = t_torn \cup {h \in {g} : t_row.ref = h /\ t_row.status # "active"}
        /\ UNCHANGED <<t_row, t_collector, t_vault, t_newest, t_state, t_result, t_completing,
                       t_refreshing, t_overtaken>>
    BY <1>2, <2>4 DEF Token!ReadState, Token!None
  <2>6. g \in t_torn' \/ t_row.ref # g
    BY <2>5 DEF Token!Recovers
  <2>7. Token!Stored' /\ Token!HasCredential' /\ Token!RotatesAlone'
    <3>1. t_call'[c].pc \notin Token!Rotating \cup {"bind", "delete", "clean"}
      BY <2>3 DEF Token!Rotating
    <3>2. TokenNoted /\ TokenTold(c)
      BY <2>3, <2>5 DEF TokenNoted, TokenTold
    <3> QED BY <3>1, <3>2, <2>3, <2>5, TokenLeaves
  <2>8. Token!NeverRefused'
    BY <2>5, <1>0 DEF Token!NeverRefused
  <2>9. Token!BoundOnce'
    BY <2>3, <2>5, <1>0 DEF Token!BoundOnce, Token!Binding
  <2>10. Token!CompletesAlone'
    BY <2>2, <2>3, <2>5, <2>6, <1>0 DEF Token!CompletesAlone, Token!None
  <2>11. Token!TypeOK'
    BY <2>2, <2>3, <2>5, <1>0 DEF Token!TypeOK
  <2> QED BY <2>7, <2>8, <2>9, <2>10, <2>11 DEF Token!TokenInv
<1> QED BY <1>1, <1>2

\* The one exchange of a code, before which nothing knows its grant.
LEMMA TokenExchanges ==
    ASSUME Token!TokenInv, NEW c \in Workers,
           Token!ExchangeCode(c), t_newest[t_call[c].grant] = 0
    PROVE  Token!TokenInv'
<1> DEFINE g == t_call[c].grant
<1>0. /\ Token!TypeOK /\ Token!Stored /\ Token!NeverRefused /\ Token!BoundOnce
      /\ Token!HasCredential /\ Token!RotatesAlone /\ Token!CompletesAlone
      /\ "none" \notin Workers /\ "none" \notin Grants
  BY ServicesAssumption DEF Token!TokenInv
<1>1. /\ t_call[c].pc = "exchange" /\ t_newest' = [t_newest EXCEPT ![g] = 1]
      /\ Token!Goto(c, "prepare")
      /\ UNCHANGED <<t_row, t_collector, t_vault, t_state, t_result, t_completing, t_refreshing,
                     t_overtaken, t_torn>>
  BY DEF Token!ExchangeCode
<1>2. g \in Grants
  BY <1>1, <1>0 DEF Token!CompletesAlone, Token!Authorizing
<1>3. /\ t_call' \in [Workers -> Token!Call] /\ t_call'[c].pc = "prepare"
      /\ t_call'[c].at = t_call[c].at /\ t_call'[c].grant = g
      /\ \A d \in Workers \ {c} : t_call'[d] = t_call[d]
  BY <1>1, <1>0, TokenGoto DEF Token!Pc
<1>4. /\ t_newest' \in [Grants -> 0..Token!Withdrawn] /\ t_newest'[g] = 1
      /\ \A h \in Grants \ {g} : t_newest'[h] = t_newest[h]
  <2>1. 1 \in 0..Token!Withdrawn
    BY ServicesAssumption DEF Token!Withdrawn
  <2> QED BY <2>1, <1>1, <1>2, <1>0 DEF Token!TypeOK
<1>5. t_row.ref # g /\ \A d \in Workers : t_call[d].at.ref # g /\ ~Token!Binding(d, g)
  BY <1>2, <1>0 DEF Token!BoundOnce
<1>6. Token!Stored'
  <2>1. t_row.ref \in Grants \cup {"none"}
    BY <1>0, TokenFields
  <2> QED BY <2>1, <1>1, <1>4, <1>5, <1>0 DEF Token!Stored, Token!None, Token!Gone
<1>7. Token!NeverRefused'
  BY <1>1, <1>0 DEF Token!NeverRefused
<1>8. Token!BoundOnce'
  <2>1. ASSUME NEW h \in Grants \ {g}
        PROVE  /\ t_row'.ref = h \/ (\E d \in Workers : t_call'[d].at.ref = h \/ Token!Binding(d, h)') => t_newest'[h] > 0
               /\ \A d \in Workers : Token!Binding(d, h)' =>
                     /\ t_row'.ref # h
                     /\ \A z \in Workers : t_call'[z].at.ref # h /\ (Token!Binding(z, h)' => z = d)
    BY <1>1, <1>3, <1>4, <1>0 DEF Token!BoundOnce, Token!Binding
  <2>2. ASSUME NEW h \in Grants, h = g
        PROVE  /\ t_newest'[h] > 0 /\ t_row'.ref # h
               /\ \A d \in Workers : t_call'[d].at.ref # h /\ (Token!Binding(d, h)' => d = c)
    BY <2>2, <1>1, <1>3, <1>4, <1>5 DEF Token!Binding
  <2> HIDE DEF g
  <2> QED BY <2>1, <2>2 DEF Token!BoundOnce
<1>9. Token!HasCredential'
  BY <1>1, <1>3, <1>0 DEF Token!HasCredential, Token!Gone, Token!Rotating, Token!None
<1>10. Token!RotatesAlone'
  <2>1. TokenNoted /\ TokenTold(c)
    BY <1>1, <1>3 DEF TokenNoted, TokenTold
  <2>2. t_call'[c].pc \notin Token!Locked \cup Token!Rotating /\ t_call'[c].pc \notin {"put", "refresh", "refused"}
    BY <1>3 DEF Token!Rotating, Token!Locked
  <2>3. t_row.ref \in Grants => t_newest'[t_row.ref] = t_newest[t_row.ref]
    BY <1>4, <1>5
  <2> HIDE DEF g
  <2> QED BY <2>1, <2>2, <2>3, <1>1, <1>3, TokenAlone
<1>11. Token!CompletesAlone'
  BY <1>1, <1>3, <1>5, <1>0 DEF Token!CompletesAlone, Token!Authorizing, Token!None
<1>12. Token!TypeOK'
  BY <1>1, <1>3, <1>4, <1>0 DEF Token!TypeOK
<1> QED BY <1>6, <1>7, <1>8, <1>9, <1>10, <1>11, <1>12 DEF Token!TokenInv

\* The token of the new grant, which no refresh has seen.
LEMMA TokenPrepares ==
    ASSUME Token!TokenInv, NEW c \in Workers, Token!Prepare(c) PROVE Token!TokenInv'
<1> DEFINE g == t_call[c].grant
           kept == [gen |-> 1, fresh |-> TRUE]
           r == [t_call[c] EXCEPT !.pc = "bind", !.at = t_row]
<1>0. /\ Token!TypeOK /\ Token!Stored /\ Token!NeverRefused /\ Token!BoundOnce
      /\ Token!HasCredential /\ Token!RotatesAlone /\ Token!CompletesAlone
      /\ "none" \notin Workers /\ "none" \notin Grants
  BY ServicesAssumption DEF Token!TokenInv
<1>1. /\ t_call[c].pc = "prepare" /\ t_vault' = [t_vault EXCEPT ![g] = kept]
      /\ t_call' = [t_call EXCEPT ![c] = r]
      /\ UNCHANGED <<t_row, t_collector, t_newest, t_state, t_result, t_completing, t_refreshing,
                     t_overtaken, t_torn>>
  BY DEF Token!Prepare, Token!oauth
<1>2. g \in Grants /\ Token!Binding(c, g)
  BY <1>1, <1>0 DEF Token!CompletesAlone, Token!Authorizing, Token!Binding
<1>3. kept \in Token!Token /\ kept # Token!Gone /\ kept.gen = 1
  <2>1. kept.gen # Token!Gone.gen
    BY DEF Token!Gone
  <2>2. 1 \in 0..MaxGen
    BY ServicesAssumption
  <2> QED BY <2>1, <2>2 DEF Token!Token
<1>4. r \in Token!Call /\ r.pc = "bind" /\ r.at = t_row /\ r.grant = g
  BY <1>0, TokenFields DEF Token!Call, Token!Pc
<1> HIDE DEF r, kept
<1>5. /\ t_call' \in [Workers -> Token!Call] /\ t_call'[c] = r
      /\ \A d \in Workers \ {c} : t_call'[d] = t_call[d]
  BY <1>1, <1>4, <1>0, TokenBecomes
<1>6. t_call'[c].pc = "bind" /\ t_call'[c].at.ref = t_row.ref /\ t_call'[c].grant = g
  BY <1>4, <1>5
<1>7. /\ t_vault' \in [Grants -> Token!Token] /\ t_vault'[g] = kept
      /\ \A h \in Grants \ {g} : t_vault'[h] = t_vault[h]
  BY <1>1, <1>2, <1>3, <1>0 DEF Token!TypeOK
<1>8. t_row.ref # g /\ \A d \in Workers : t_call[d].at.ref # g /\ (Token!Binding(d, g) => d = c)
  BY <1>2, <1>0 DEF Token!BoundOnce
<1>9. Token!Stored'
  <2>1. t_row.ref \in Grants \cup {"none"}
    BY <1>0, TokenFields
  <2> QED BY <2>1, <1>1, <1>7, <1>8, <1>0 DEF Token!Stored, Token!None, Token!Gone
<1>10. Token!NeverRefused'
  BY <1>1, <1>0 DEF Token!NeverRefused
<1>11. Token!BoundOnce'
  <2>1. \A d \in Workers, h \in Grants : Token!Binding(d, h)' <=> Token!Binding(d, h)
    BY <1>1, <1>5, <1>6 DEF Token!Binding
  <2>2. \A d \in Workers : t_call'[d].at.ref \in {t_call[d].at.ref, t_row.ref}
    BY <1>5, <1>6
  <2> QED BY <2>1, <2>2, <1>1, <1>0 DEF Token!BoundOnce
<1>12. Token!HasCredential'
  <2>1. \A h \in Grants : t_vault'[h] # Token!Gone => t_vault'[h].gen > 0
    BY <1>3, <1>7, <1>0 DEF Token!HasCredential
  <2>2. ASSUME NEW d \in Workers \ {c}
        PROVE  /\ t_call'[d].pc \in Token!Rotating => t_call'[d].at.ref \in Grants
               /\ t_call'[d].pc \in Token!Rotating \ {"get"} /\ t_row'.ref = t_call'[d].at.ref =>
                     t_vault'[t_call'[d].at.ref] # Token!Gone
               /\ t_call'[d].pc = "put" => t_call'[d].gen > 0
               /\ t_call'[d].pc \in {"delete", "clean"} /\ t_call'[d].at.ref # "none" =>
                     t_row'.ref # t_call'[d].at.ref
    <3>1. t_call[d].pc \in Token!Rotating => t_vault'[t_call[d].at.ref] = t_vault[t_call[d].at.ref]
      BY <1>7, <1>8, <1>0 DEF Token!HasCredential
    <3> QED BY <3>1, <1>1, <1>5, <1>0 DEF Token!HasCredential, Token!None
  <2>3. ASSUME NEW d \in Workers \ {c}, t_call'[d].pc = "bind"
        PROVE  t_vault'[t_call'[d].grant] # Token!Gone
    <3>1. t_call[d].grant \in Grants \ {g}
      <4>1. t_call[d].pc = "bind" /\ d # c
        BY <2>3, <1>5
      <4>2. t_call[d].grant \in Grants
        BY <4>1, <1>0 DEF Token!CompletesAlone, Token!Authorizing
      <4> QED BY <4>1, <4>2, <1>8 DEF Token!Binding
    <3> QED BY <3>1, <2>3, <1>5, <1>7, <1>0 DEF Token!HasCredential
  <2> QED BY <2>1, <2>2, <2>3, <1>3, <1>6, <1>7
          DEF Token!HasCredential, Token!Gone, Token!Rotating, Token!None
<1>13. Token!RotatesAlone'
  <2>1. TokenNoted /\ TokenTold(c)
    BY <1>1, <1>6 DEF TokenNoted, TokenTold
  <2>2. t_call'[c].pc \notin Token!Locked \cup Token!Rotating /\ t_call'[c].pc \notin {"put", "refresh", "refused"}
    BY <1>6 DEF Token!Rotating, Token!Locked
  <2>3. t_row.ref \in Grants => t_vault'[t_row.ref] = t_vault[t_row.ref]
    BY <1>7, <1>8
  <2> HIDE DEF g
  <2> QED BY <2>1, <2>2, <2>3, <1>1, <1>5, TokenAlone
<1>14. Token!CompletesAlone'
  BY <1>1, <1>5, <1>6, <1>8, <1>0 DEF Token!CompletesAlone, Token!Authorizing, Token!None
<1>15. Token!TypeOK'
  BY <1>1, <1>5, <1>7, <1>0 DEF Token!TypeOK
<1> QED BY <1>9, <1>10, <1>11, <1>12, <1>13, <1>14, <1>15 DEF Token!TokenInv

\* The row points to the new grant, whether its call hears of it or not.
LEMMA TokenBinds ==
    ASSUME Token!TokenInv, NEW c \in Workers,
           Token!BindConnector(c) \/ (Token!BindFails(c) /\ Token!Bound(t_call[c].grant))
    PROVE  Token!TokenInv'
<1> DEFINE g == t_call[c].grant
           Whole == /\ t_call'[c].pc = "clean" /\ t_call'[c].grant = g
                    /\ UNCHANGED <<t_vault, t_completing, t_result, t_state, t_torn>>
           Half == /\ t_call'[c].pc = "idle" /\ t_torn' = t_torn \cup {g}
                   /\ t_vault' = [t_vault EXCEPT ![g] = Token!Gone]
                   /\ t_result' = [t_result EXCEPT ![g] = "failed"] /\ t_state' = t_state \ {g}
                   /\ t_completing' = [t_completing EXCEPT ![g] = IF @ = c THEN "none" ELSE @]
<1>0. /\ Token!TypeOK /\ Token!Stored /\ Token!NeverRefused /\ Token!BoundOnce
      /\ Token!HasCredential /\ Token!RotatesAlone /\ Token!CompletesAlone
      /\ "none" \notin Workers /\ "none" \notin Grants
  BY ServicesAssumption DEF Token!TokenInv
<1>1. t_call[c].pc = "bind" /\ Token!Bound(g) /\ UNCHANGED <<t_newest, t_refreshing>>
  BY DEF Token!BindConnector, Token!BindFails
<1>2. g \in Grants /\ Token!Binding(c, g)
  BY <1>1, <1>0 DEF Token!CompletesAlone, Token!Authorizing, Token!Binding
<1>3. t_row.ref # g /\ \A d \in Workers : t_call[d].at.ref # g /\ (Token!Binding(d, g) => d = c)
  BY <1>2, <1>0 DEF Token!BoundOnce
<1>4. /\ t_call' \in [Workers -> Token!Call]
      /\ \A d \in Workers \ {c} : t_call'[d] = t_call[d]
      /\ t_call'[c].at.ref \in {t_call[c].at.ref, "none"}
      /\ Whole \/ Half
  <2>1. CASE Token!BindConnector(c)
    <3>1. Token!Goto(c, "clean") /\ UNCHANGED <<t_vault, t_completing, t_result, t_state, t_torn>>
      BY <2>1 DEF Token!BindConnector, Token!oauth
    <3> QED BY <3>1, <1>0, TokenGoto DEF Token!Pc
  <2>2. CASE Token!BindFails(c) /\ Token!Bound(g)
    <3>1. t_row' # t_row
      <4>1. t_row'.ref = g
        BY <2>2 DEF Token!Bound
      <4> QED BY <4>1, <1>3
    <3>2. /\ t_call' = [t_call EXCEPT ![c] = Token!Rest] /\ t_torn' = t_torn \cup {g}
          /\ t_vault' = [t_vault EXCEPT ![g] = Token!Gone]
          /\ t_result' = [t_result EXCEPT ![g] = "failed"] /\ t_state' = t_state \ {g}
          /\ t_completing' = [t_completing EXCEPT ![g] = IF @ = c THEN "none" ELSE @]
      BY <2>2, <3>1 DEF Token!BindFails, Token!Fails, Token!LeaveOAuth, Token!None
    <3> QED BY <3>2, <1>0, TokenRests
  <2> QED BY <2>1, <2>2
<1>5. /\ t_row' \in Token!Row /\ t_row'.ref = g /\ t_row'.status = "active"
      /\ t_collector' \in {"active", "unavailable"}
  BY <1>1, <1>2, <1>0 DEF Token!Bound, Token!Restore, Token!Row, Token!None, Token!TypeOK
<1>6. t_overtaken' \in BOOLEAN /\ (~t_overtaken' => Token!AtWork = {})
  <2>1. t_overtaken' = (Token!AtWork # {})
    BY <1>1 DEF Token!Bound
  <2> QED BY <2>1
<1>7. /\ t_vault' \in [Grants -> Token!Token] /\ t_state' \subseteq Grants
      /\ t_result' \in [Grants -> {"none", "bound", "failed"}]
      /\ t_completing' \in [Grants -> Workers \cup {"none"}]
      /\ t_torn' \subseteq Grants /\ t_torn \subseteq t_torn'
      /\ \A h \in Grants \ {g} : /\ t_vault'[h] = t_vault[h] /\ t_result'[h] = t_result[h]
                                 /\ t_completing'[h] = t_completing[h]
      /\ t_vault'[g] \in {t_vault[g], Token!Gone}
      /\ t_vault'[g] = t_vault[g] \/ g \in t_torn'
      /\ t_call'[c].pc \in {"clean", "idle"}
      /\ t_call'[c].pc = "clean" => t_call'[c].grant = g
      /\ t_result'[g] = t_result[g] \/ g \in t_torn'
      /\ t_completing'[g] = t_completing[g] \/ g \in t_torn'
  <2>1. Token!Gone \in Token!Token
    BY <1>2, <1>0, TokenVault
  <2>2. CASE Whole
    BY <2>2, <1>0 DEF Token!TypeOK, Token!None
  <2>3. CASE Half
    BY <2>1, <2>3, <1>2, <1>0 DEF Token!TypeOK, Token!None
  <2> QED BY <2>2, <2>3, <1>4
<1> HIDE DEF Whole, Half
<1>8. Token!Stored'
  <2>1. t_vault[g] # Token!Gone
    BY <1>1, <1>0 DEF Token!HasCredential
  <2>2. t_vault'[g] # Token!Gone \/ g \in t_torn'
    BY <2>1, <1>7
  <2> QED BY <2>2, <1>5 DEF Token!Stored, Token!Gone
<1>9. g \in t_torn' \/ t_result[g] = "none"
  BY <1>1, <1>2, <1>7, <1>0 DEF Token!CompletesAlone, Token!Authorizing, Token!None
<1>10. Token!NeverRefused'
  BY <1>5, <1>7, <1>9 DEF Token!NeverRefused
<1>11. Token!BoundOnce'
  <2>1. \A d \in Workers, h \in Grants : Token!Binding(d, h)' => Token!Binding(d, h) /\ d # c
    BY <1>4, <1>7 DEF Token!Binding
  <2>2. \A d \in Workers : t_call'[d].at.ref \in {t_call[d].at.ref, "none"}
    BY <1>4
  <2>3. ASSUME NEW h \in Grants, h = g PROVE \A d \in Workers : ~Token!Binding(d, h)'
    BY <2>1, <2>3, <1>3
  <2>4. t_newest'[g] > 0
    BY <1>1, <1>2, <1>0 DEF Token!BoundOnce
  <2> HIDE DEF g
  <2> QED BY <2>1, <2>2, <2>3, <2>4, <1>1, <1>5, <1>0 DEF Token!BoundOnce
<1>12. Token!HasCredential'
  <2>1. \A h \in Grants : t_vault'[h] # Token!Gone => t_vault'[h].gen > 0
    BY <1>7, <1>0 DEF Token!HasCredential
  <2>2. ASSUME NEW d \in Workers \ {c}
        PROVE  /\ t_call'[d].pc \in Token!Rotating => t_call'[d].at.ref \in Grants
               /\ t_call'[d].at.ref # g
               /\ t_call'[d].pc = "put" => t_call'[d].gen > 0
    BY <1>3, <1>4, <1>0 DEF Token!HasCredential
  <2>3. ASSUME NEW d \in Workers \ {c}, t_call'[d].pc = "bind"
        PROVE  t_vault'[t_call'[d].grant] # Token!Gone
    <3>1. t_call[d].grant \in Grants \ {g}
      <4>1. t_call[d].pc = "bind" /\ d # c
        BY <2>3, <1>4
      <4>2. t_call[d].grant \in Grants
        BY <4>1, <1>0 DEF Token!CompletesAlone, Token!Authorizing
      <4> QED BY <4>1, <4>2, <1>3 DEF Token!Binding
    <3> QED BY <3>1, <2>3, <1>4, <1>7, <1>0 DEF Token!HasCredential
  <2>4. t_call'[c].at.ref # g /\ t_call'[c].pc \notin Token!Rotating \cup {"bind"}
    BY <1>2, <1>3, <1>4, <1>7, <1>0 DEF Token!Rotating
  <2> QED BY <2>1, <2>2, <2>3, <2>4, <1>5 DEF Token!HasCredential, Token!Gone, Token!Rotating, Token!None
<1>13. Token!RotatesAlone'
  <2>0. SUFFICES ASSUME ~t_overtaken' PROVE Token!RotatesAlone'
    BY DEF Token!RotatesAlone
  <2>1. \A d \in Workers : t_call[d].pc \notin Token!Rotating \cup {"told"}
    BY <2>0, <1>6 DEF Token!AtWork
  <2>2. \A d \in Workers : t_call'[d].pc \notin Token!Rotating \cup {"told"}
    BY <2>1, <1>4, <1>7 DEF Token!Rotating
  <2>3. t_row'.ref # "none" /\ t_row'.status # "expired"
    BY <1>2, <1>5, <1>0
  <2> QED BY <2>2, <2>3 DEF Token!RotatesAlone, Token!Rotating, Token!Locked, Token!None
<1>14. Token!CompletesAlone'
  <2>1. ASSUME NEW d \in Workers \ {c}, t_call'[d].pc \in Token!Authorizing
        PROVE  LET h == t_call'[d].grant
               IN  /\ h \in Grants
                   /\ h \notin t_torn' =>
                         /\ t_completing'[h] = d
                         /\ t_call'[d].pc # "complete" => t_result'[h] = "none"
                         /\ t_call'[d].pc \in {"exchange", "prepare", "bind"} => t_row'.ref # h
    <3> DEFINE h == t_call[d].grant
    <3>1. /\ t_call'[d] = t_call[d] /\ h \in Grants
          /\ h \notin t_torn =>
                /\ t_completing[h] = d
                /\ t_call[d].pc # "complete" => t_result[h] = "none"
      BY <2>1, <1>4, <1>0 DEF Token!CompletesAlone, Token!None
    <3>2. CASE h # g
      BY <3>1, <3>2, <1>5, <1>7
    <3>3. CASE h = g
      <4>1. g \in t_torn \/ t_completing[g] = c
        BY <1>1, <1>2, <1>0 DEF Token!CompletesAlone, Token!Authorizing
      <4>2. g \in t_torn
        BY <4>1, <3>1, <3>3
      <4> QED BY <4>2, <3>1, <3>3, <1>7
    <3> QED BY <3>2, <3>3
  <2>2. t_call'[c].pc = "clean" => g \in t_torn' \/ (t_completing'[g] = c /\ t_result'[g] = "none")
    BY <1>1, <1>2, <1>7, <1>9, <1>0 DEF Token!CompletesAlone, Token!Authorizing
  <2> QED BY <2>1, <2>2, <1>2, <1>7 DEF Token!CompletesAlone, Token!Authorizing, Token!None
<1>15. Token!TypeOK'
  BY <1>1, <1>4, <1>5, <1>6, <1>7, <1>0 DEF Token!TypeOK, Token!None
<1> QED BY <1>8, <1>10, <1>11, <1>12, <1>13, <1>14, <1>15 DEF Token!TokenInv

\* The commit does not happen: the credential that was made for it goes.
LEMMA TokenUnbound ==
    ASSUME Token!TokenInv, NEW c \in Workers, Token!BindFails(c), ~Token!Bound(t_call[c].grant)
    PROVE  Token!TokenInv'
<1> DEFINE g == t_call[c].grant
<1>0. /\ Token!TypeOK /\ Token!BoundOnce /\ Token!CompletesAlone
      /\ "none" \notin Workers /\ "none" \notin Grants
  BY ServicesAssumption DEF Token!TokenInv
<1>1. /\ t_call[c].pc = "bind"
      /\ t_vault' = [t_vault EXCEPT ![g] = Token!Gone]
      /\ t_result' = [t_result EXCEPT ![g] = "failed"] /\ t_state' = t_state \ {g}
      /\ t_call' = [t_call EXCEPT ![c] = Token!Rest]
      /\ t_completing' = [t_completing EXCEPT ![g] = IF @ = c THEN "none" ELSE @]
      /\ UNCHANGED <<t_row, t_collector, t_newest, t_refreshing, t_overtaken, t_torn>>
  BY DEF Token!BindFails, Token!Fails, Token!LeaveOAuth, Token!None
<1>2. g \in Grants /\ Token!Binding(c, g) /\ (g \in t_torn \/ t_completing[g] = c)
  BY <1>1, <1>0 DEF Token!CompletesAlone, Token!Authorizing, Token!Binding
<1>3. t_row.ref # g /\ \A d \in Workers : t_call[d].at.ref # g /\ (Token!Binding(d, g) => d = c)
  BY <1>2, <1>0 DEF Token!BoundOnce
<1>4. /\ t_call' \in [Workers -> Token!Call]
      /\ \A d \in Workers \ {c} : t_call'[d] = t_call[d]
      /\ t_call'[c].pc = "idle" /\ t_call'[c].at.ref = "none"
  BY <1>1, <1>0, TokenRests
<1>5. /\ t_vault' \in [Grants -> Token!Token] /\ t_state' \subseteq Grants
      /\ t_result' \in [Grants -> {"none", "bound", "failed"}]
      /\ t_completing' \in [Grants -> Workers \cup {"none"}]
  <2>1. Token!Gone \in Token!Token
    BY <1>2, <1>0, TokenVault
  <2> QED BY <2>1, <1>1, <1>0 DEF Token!TypeOK, Token!None
<1>6. Token!Stored' /\ Token!HasCredential' /\ Token!RotatesAlone'
  <2>1. t_call'[c].pc \notin Token!Rotating \cup {"told", "bind", "delete", "clean"}
    BY <1>4 DEF Token!Rotating
  <2>2. \A h \in Grants : t_vault'[h] = IF h = g THEN Token!Gone ELSE t_vault[h]
    BY <1>1, <1>2, <1>0 DEF Token!TypeOK
  <2>3. ASSUME NEW d \in Workers, t_call'[d].pc = "bind" PROVE t_call'[d].grant # g
    <3>1. d # c /\ t_call'[d] = t_call[d]
      BY <2>3, <1>4
    <3> QED BY <3>1, <2>3, <1>3 DEF Token!Binding
  <2>4. PICK h \in Grants : h = g
    BY <1>2
  <2>5. \A d \in Workers : t_call'[d].pc = "bind" => t_call'[d].grant # h
    BY <2>3, <2>4
  <2>6. t_row.ref # h /\ \A z \in Grants : t_vault'[z] = IF z = h THEN Token!Gone ELSE t_vault[z]
    BY <2>2, <2>4, <1>3
  <2>7. UNCHANGED <<t_row, t_newest, t_refreshing, t_overtaken, t_torn>>
    BY <1>1
  <2>8. t_call' \in [Workers -> Token!Call] /\ \A d \in Workers \ {c} : t_call'[d] = t_call[d]
    BY <1>4
  <2> HIDE DEF g
  <2> QED BY ONLY Token!TokenInv, <2>1, <2>5, <2>6, <2>7, <2>8, TokenForgets
<1>7. Token!NeverRefused' /\ Token!BoundOnce' /\ Token!CompletesAlone'
  <2>1. ASSUME NEW h \in Grants
        PROVE  /\ t_completing'[h] = t_completing[h] \/ t_completing[h] = c
               /\ t_result'[h] = t_result[h] \/ h \in t_torn \/ t_completing[h] = c
               /\ t_result'[h] = "failed" => t_result[h] = "failed" \/ t_row.ref # h \/ h \in t_torn
    BY <1>1, <1>2, <1>3, <1>0 DEF Token!TypeOK
  <2> QED BY <2>1, <1>1, <1>4, TokenLeavesOAuth
<1>8. Token!TypeOK'
  BY <1>1, <1>4, <1>5, <1>0 DEF Token!TypeOK, Token!None
<1> QED BY <1>6, <1>7, <1>8 DEF Token!TokenInv

\* What the row pointed to before goes, and the answer is recorded.
LEMMA TokenCleans ==
    ASSUME Token!TokenInv, NEW c \in Workers, Token!DeleteOld(c) PROVE Token!TokenInv'
<1> DEFINE g == t_call[c].grant
<1>0. /\ Token!TypeOK /\ Token!BoundOnce /\ Token!CompletesAlone /\ Token!HasCredential /\ Token!NeverRefused
      /\ "none" \notin Workers /\ "none" \notin Grants
  BY ServicesAssumption DEF Token!TokenInv
<1>1. /\ t_call[c].pc = "clean" /\ Token!Goto(c, "record")
      /\ t_vault' = [z \in Grants |-> IF z = t_call[c].at.ref /\ z # g THEN Token!Gone ELSE t_vault[z]]
      /\ UNCHANGED <<t_row, t_collector, t_newest, t_state, t_result, t_completing, t_refreshing,
                     t_overtaken, t_torn>>
  BY DEF Token!DeleteOld, Token!oauth
<1>2. /\ t_call' \in [Workers -> Token!Call]
      /\ \A d \in Workers \ {c} : t_call'[d] = t_call[d]
      /\ t_call'[c].pc = "record" /\ t_call'[c].at = t_call[c].at /\ t_call'[c].grant = g
  BY <1>1, <1>0, TokenGoto DEF Token!Pc
<1>3. PICK h \in Grants \cup {"none"} : h = IF t_call[c].at.ref # g THEN t_call[c].at.ref ELSE "none"
  BY <1>0, TokenFields
<1>4. \A z \in Grants : t_vault'[z] = IF z = h THEN Token!Gone ELSE t_vault[z]
  BY <1>1, <1>3, <1>0
<1>5. t_row.ref # h \/ h = "none"
  BY <1>1, <1>3, <1>0 DEF Token!HasCredential, Token!None
<1>6. ASSUME NEW d \in Workers, t_call'[d].pc = "bind" PROVE t_call'[d].grant # h
  <2>1. d # c /\ t_call'[d] = t_call[d]
    BY <1>2, <1>6
  <2>2. t_call[d].grant \in Grants /\ Token!Binding(d, t_call[d].grant)
    BY <2>1, <1>6, <1>0 DEF Token!CompletesAlone, Token!Authorizing, Token!Binding
  <2>3. t_call[c].at.ref # t_call[d].grant
    BY <2>2, <1>0 DEF Token!BoundOnce
  <2> QED BY <2>1, <2>2, <2>3, <1>3, <1>0
<1>7. Token!Stored' /\ Token!HasCredential' /\ Token!RotatesAlone'
  <2>1. t_call'[c].pc \notin Token!Rotating \cup {"told", "bind", "delete", "clean"}
    BY <1>2 DEF Token!Rotating
  <2> QED BY <2>1, <1>1, <1>2, <1>4, <1>5, <1>6, TokenForgets
<1>8. Token!NeverRefused'
  BY <1>1, <1>0 DEF Token!NeverRefused
<1>9. Token!BoundOnce'
  BY <1>1, <1>2, <1>0 DEF Token!BoundOnce, Token!Binding
<1>10. Token!CompletesAlone'
  BY <1>1, <1>2, <1>0 DEF Token!CompletesAlone, Token!Authorizing, Token!None
<1>11. Token!TypeOK'
  <2>1. t_vault' \in [Grants -> Token!Token]
    BY <1>1, <1>0, TokenVault
  <2> QED BY <2>1, <1>1, <1>2, <1>0 DEF Token!TypeOK
<1> QED BY <1>7, <1>8, <1>9, <1>10, <1>11 DEF Token!TokenInv

LEMMA TokenStep ==
    ASSUME Token!TokenInv, Token!Next PROVE Token!TokenInv'
<1>1. ASSUME NEW c \in Workers, Token!GetToken(c) PROVE Token!TokenInv'
  BY <1>1, TokenEnds, TokenApproaches
<1>2. ASSUME NEW c \in Workers, Token!Reread(c) PROVE Token!TokenInv'
  BY <1>2, TokenEnds, TokenApproaches
<1>3. ASSUME NEW c \in Workers, Token!Refresh(c) PROVE Token!TokenInv'
  BY <1>3, TokenRotates, TokenApproaches
<1>4. ASSUME NEW c \in Workers, \/ Token!WaitForToken(c) \/ Token!MarkExpired(c) \/ Token!RefreshFails(c)
                                \/ Token!MarkActive(c) \/ Token!TickMarks(c) \/ Token!PollFails(c)
      PROVE  Token!TokenInv'
  BY <1>4, TokenEnds
<1>5. ASSUME NEW c \in Workers, Token!Acquire(c) \/ Token!BeginRevoke(c) PROVE Token!TokenInv'
  BY <1>5, TokenApproaches
<1>6. ASSUME NEW c \in Workers, \E worker, force \in BOOLEAN : Token!Begin(c, worker, force) PROVE Token!TokenInv'
  BY <1>6, TokenBegins
<1>7. ASSUME NEW c \in Workers, Token!PutToken(c) PROVE Token!TokenInv'
  BY <1>7, TokenPuts
<1>8. ASSUME NEW c \in Workers, Token!RevokeConnector(c) \/ Token!DeleteCredential(c) PROVE Token!TokenInv'
  BY <1>8, TokenRevokes
<1>9. ASSUME NEW c \in Workers, \E g \in Grants : Token!Callback(c, g) PROVE Token!TokenInv'
  BY <1>9, TokenCallsBack
<1>10. ASSUME NEW c \in Workers, Token!ReadState(c) PROVE Token!TokenInv'
  BY <1>10, TokenCallsBack, TokenQuits
<1>11. ASSUME NEW c \in Workers, Token!ExchangeCode(c) PROVE Token!TokenInv'
  BY <1>11, TokenExchanges, TokenQuits
<1>12. ASSUME NEW c \in Workers, Token!Denied(c) \/ Token!Record(c) \/ Token!Crash(c) PROVE Token!TokenInv'
  BY <1>12, TokenQuits
<1>13. ASSUME NEW c \in Workers, Token!BindConnector(c) \/ Token!BindFails(c) PROVE Token!TokenInv'
  BY <1>13, TokenBinds, TokenUnbound
<1>14. ASSUME NEW c \in Workers, Token!Prepare(c) \/ Token!DeleteOld(c) PROVE Token!TokenInv'
  BY <1>14, TokenPrepares, TokenCleans
<1> QED
  BY <1>1, <1>2, <1>3, <1>4, <1>5, <1>6, <1>7, <1>8, <1>9, <1>10, <1>11, <1>12, <1>13, <1>14,
     TokenLapses, TokenExpires DEF Token!Next

LEMMA TokenStart ==
    ASSUME Token!Init PROVE Token!TokenInv
<1>0. "none" \notin Workers /\ "none" \notin Grants /\ 0 \in 0..MaxGen
  BY ServicesAssumption
<1>1. /\ t_row = Token!Unbound /\ Token!Unbound \in Token!Row
      /\ t_row.ref = "none" /\ t_row.status = "none"
  BY TokenNobody DEF Token!Init, Token!Unbound, Token!None
<1>2. /\ t_call \in [Workers -> Token!Call]
      /\ \A c \in Workers : t_call[c].pc = "idle" /\ t_call[c].at.ref = "none"
  BY TokenNobody DEF Token!Init
<1>3. t_vault \in [Grants -> Token!Token] /\ \A g \in Grants : t_vault[g] = Token!Gone
  BY <1>0 DEF Token!Init, Token!Gone, Token!Token
<1>4. Token!TypeOK
  <2>1. 0 \in 0..Token!Withdrawn
    BY ServicesAssumption DEF Token!Withdrawn
  <2> QED BY <2>1, <1>0, <1>1, <1>2, <1>3 DEF Token!Init, Token!TypeOK, Token!None
<1>5. Token!Stored /\ Token!NeverRefused
  BY <1>1 DEF Token!Init, Token!Stored, Token!NeverRefused, Token!None
<1>6. Token!BoundOnce
  BY <1>0, <1>1, <1>2 DEF Token!BoundOnce, Token!Binding
<1>7. Token!HasCredential
  BY <1>2, <1>3 DEF Token!HasCredential, Token!Rotating
<1>8. Token!RotatesAlone
  BY <1>1, <1>2 DEF Token!RotatesAlone, Token!Rotating, Token!Locked, Token!None
<1>9. Token!CompletesAlone
  BY <1>2 DEF Token!CompletesAlone, Token!Authorizing
<1> QED BY <1>4, <1>5, <1>6, <1>7, <1>8, <1>9 DEF Token!TokenInv

LEMMA TokenStill ==
    ASSUME Token!TokenInv, UNCHANGED tokenVars PROVE Token!TokenInv'
<1> USE DEF tokenVars
<1>1. Token!TypeOK' /\ Token!Stored' /\ Token!NeverRefused'
  BY DEF Token!TokenInv, Token!TypeOK, Token!Stored, Token!NeverRefused
<1>2. Token!BoundOnce' /\ Token!HasCredential' /\ Token!CompletesAlone'
  BY DEF Token!TokenInv, Token!BoundOnce, Token!Binding, Token!HasCredential, Token!CompletesAlone
<1>3. Token!RotatesAlone'
  BY TokenRotatesOn DEF Token!TokenInv
<1> QED BY <1>1, <1>2, <1>3 DEF Token!TokenInv

\* What the row shows and what the calls answer follows.
LEMMA TokenFits ==
    ASSUME Token!TokenInv PROVE Token!RowFitsVault /\ Token!AnswersFitRow
<1>1. Token!Stored /\ Token!NeverRefused /\ Token!RotatesAlone
  BY DEF Token!TokenInv
<1>2. ASSUME t_row.ref # "none", t_row.status = "expired"
      PROVE  t_overtaken \/ t_vault[t_row.ref].gen # t_newest[t_row.ref]
  BY <1>1, <1>2 DEF Token!RotatesAlone, Token!Spent, Token!None
<1>3. t_row.ref = "none" => t_overtaken \/ t_row.status \in {"none", "revoked"}
  BY <1>1 DEF Token!RotatesAlone, Token!None
<1>4. ASSUME NEW c \in Workers, t_call[c].pc = "told", t_call[c].outcome = "auth",
             t_call[c].at.ref = t_row.ref
      PROVE  t_overtaken \/ t_vault[t_row.ref].gen # t_newest[t_row.ref]
  BY <1>1, <1>4 DEF Token!RotatesAlone, Token!Spent
<1>5. Token!RowFitsVault
  BY <1>1, <1>2, <1>3 DEF Token!RowFitsVault, Token!None
<1>6. Token!AnswersFitRow
  BY <1>1, <1>4 DEF Token!AnswersFitRow
<1> QED BY <1>5, <1>6

-----------------------------------------------------------------------------
(* Private shares. *)

\* A reference to a private item exists, and a copy's knowledge base has a name.
LEMMA ShareNames ==
    /\ Share!Blank \in Share!Reference
    /\ \A o \in Users : Share!ShareSourceKey(o) \in {"participants"} \cup {"external"} \cup Users
<1>1. PICK t \in ChatTexts : TRUE
  BY ServicesAssumption
<1>2. [owner |-> Creator, msg |-> t, version |-> 1] \in Share!Reference
  BY ServicesAssumption DEF Share!Reference, Share!Versions
<1>3. Share!Blank \in Share!Reference
  BY <1>2 DEF Share!Blank
<1>4. \A o \in Users : Share!ShareSourceKey(o) \in {"participants"} \cup {"external"} \cup Users
  BY DEF Share!ShareSourceKey
<1> QED BY <1>3, <1>4

LEMMA ShareParts ==
    Share!TypeOK <=>
        /\ h_sameChat \in BOOLEAN /\ h_mapped \subseteq Users
        /\ h_source \in [Users -> [ChatTexts -> [version : Share!Versions, ready : BOOLEAN]]]
        /\ h_asked \subseteq RequestIds /\ h_refs \subseteq Share!Reference /\ h_shared \subseteq Share!Item
        /\ h_access \in [Askers -> [status : {"none", "pending", "approved", "rejected"},
                                    ref : h_refs \cup {Share!Blank}]]
        /\ h_subjects \in [Share!Reference -> SUBSET (Users \cup Askers)]
        /\ h_sync \in [busy : BOOLEAN, ref : Share!Reference, users : SUBSET (Users \cup Askers)]
        /\ h_remapped \in BOOLEAN /\ h_late \in BOOLEAN
BY DEF Share!TypeOK, Share!None

\* The peer accepts the mapping: if that changes the key of something shared, it is noted.
LEMMA ShareMaps ==
    ASSUME Share!ShareInv, NEW o \in Users, Share!Map(o) PROVE Share!ShareInv'
<1>0. Share!TypeOK /\ Share!OneSharer /\ Share!ApprovedIsGranted /\ Share!Copies /\ Share!ReadsThemAll
  BY DEF Share!ShareInv
<1>1. /\ h_mapped' = h_mapped \cup {o}
      /\ UNCHANGED <<h_sameChat, h_source, h_asked, h_refs, h_shared, h_access, h_subjects, h_sync, h_late>>
  BY DEF Share!Map
<1>2. h_remapped' \in BOOLEAN /\ (h_remapped' <=> h_remapped \/ h_shared # {})
  BY <1>0 DEF Share!Map, Share!TypeOK
<1>3. Share!TypeOK'
  <2>1. h_mapped' \subseteq Users
    BY <1>0, <1>1 DEF Share!TypeOK
  <2> QED BY <1>0, <1>1, <1>2, <2>1 DEF Share!TypeOK
<1>4. Share!OneSharer'
  BY <1>1, <1>2 DEF Share!OneSharer
<1>5. Share!ApprovedIsGranted' /\ Share!ReadsThemAll'
  BY <1>0, <1>1 DEF Share!ApprovedIsGranted, Share!ReadsThemAll, Share!Approved, Share!BasesOf, Share!CopiesOf
<1>6. Share!Copies'
  <2>1. \A x \in h_shared' : x.ref \in h_refs'
    BY <1>0, <1>1 DEF Share!Copies
  <2>2. \A x \in h_shared' : h_remapped'
    BY <1>1, <1>2
  <2>3. /\ \A x, y \in h_shared : x.ref = y.ref => x = y
        /\ \A u \in Askers : h_access[u].status = "approved" => Share!CopiesOf(h_access[u].ref) # {}
    BY <1>0 DEF Share!Copies
  <2>4. \A u \in Askers : h_access'[u].status = "approved" => Share!CopiesOf(h_access[u].ref)' # {}
    BY <1>1, <2>3 DEF Share!CopiesOf
  <2> QED BY <2>1, <2>2, <2>3, <2>4, <1>1 DEF Share!Copies
<1> QED BY <1>3, <1>4, <1>5, <1>6 DEF Share!ShareInv

\* A private item is processed again: nothing of what was shared changes.
LEMMA ShareReclassifies ==
    ASSUME Share!ShareInv, NEW o \in Users, NEW m \in ChatTexts,
           Share!Reclassify(o, m) \/ Share!Ready(o, m)
    PROVE  Share!ShareInv'
<1>0. Share!TypeOK /\ Share!OneSharer /\ Share!ApprovedIsGranted /\ Share!Copies /\ Share!ReadsThemAll
  BY DEF Share!ShareInv
<1>1. UNCHANGED <<h_sameChat, h_mapped, h_asked, h_refs, h_shared, h_access, h_subjects, h_sync,
                  h_remapped, h_late>>
  BY DEF Share!Reclassify, Share!Ready
<1>2. h_source' \in [Users -> [ChatTexts -> [version : Share!Versions, ready : BOOLEAN]]]
  <2> DEFINE State == [version : Share!Versions, ready : BOOLEAN]
  <2>1. h_source \in [Users -> [ChatTexts -> State]]
    BY <1>0 DEF Share!TypeOK
  <2>2. PICK r : /\ r = [version |-> 2, ready |-> FALSE] \/ r = [h_source[o][m] EXCEPT !.ready = TRUE]
                 /\ h_source' = [h_source EXCEPT ![o] = [h_source[o] EXCEPT ![m] = r]]
    <3>1. CASE Share!Reclassify(o, m)
      BY <3>1 DEF Share!Reclassify
    <3>2. CASE Share!Ready(o, m)
      BY <3>2 DEF Share!Ready
    <3> QED BY <3>1, <3>2
  <2>3. r \in State
    <3>1. h_source[o][m] \in State
      BY <2>1
    <3>2. [version |-> 2, ready |-> FALSE] \in State
      BY DEF Share!Versions
    <3>3. [h_source[o][m] EXCEPT !.ready = TRUE] \in State
      BY <3>1
    <3> QED BY <2>2, <3>2, <3>3
  <2> HIDE DEF State
  <2>4. [h_source[o] EXCEPT ![m] = r] \in [ChatTexts -> State]
    BY <2>1, <2>3
  <2>5. h_source' \in [Users -> [ChatTexts -> State]]
    BY <2>1, <2>2, <2>4
  <2> QED BY <2>5 DEF State
<1>3. Share!TypeOK'
  BY <1>0, <1>1, <1>2 DEF Share!TypeOK
<1>4. Share!OneSharer' /\ Share!Copies'
  BY <1>0, <1>1 DEF Share!OneSharer, Share!Copies, Share!ShareSourceKey, Share!CopiesOf
<1>5. Share!ApprovedIsGranted' /\ Share!ReadsThemAll'
  BY <1>0, <1>1 DEF Share!ApprovedIsGranted, Share!ReadsThemAll, Share!Approved, Share!BasesOf, Share!CopiesOf
<1> QED BY <1>3, <1>4, <1>5 DEF Share!ShareInv

\* A worker reads the subjects of a copy, which is the only one of its reference.
LEMMA ShareReads ==
    ASSUME Share!ShareInv, NEW x \in h_shared, Share!ListKnowledgePermissionSubjects(x)
    PROVE  Share!ShareInv'
<1>0. Share!TypeOK /\ Share!OneSharer /\ Share!ApprovedIsGranted /\ Share!Copies /\ Share!ReadsThemAll
  BY DEF Share!ShareInv
<1>1. /\ h_sync' = [busy |-> TRUE, ref |-> x.ref, users |-> {x.ref.owner} \cup Share!Approved(x.base)]
      /\ UNCHANGED <<h_sameChat, h_mapped, h_source, h_asked, h_refs, h_shared, h_access, h_subjects,
                     h_remapped, h_late>>
  BY DEF Share!ListKnowledgePermissionSubjects
<1>2. x \in Share!Item /\ x.ref \in Share!Reference /\ x.ref.owner \in Users /\ x.ref \in h_refs
  BY <1>0 DEF Share!TypeOK, Share!Item, Share!Reference, Share!Copies
<1>3. Share!Approved(x.base) \subseteq Askers
  BY DEF Share!Approved
<1>4. /\ h_sync' \in [busy : BOOLEAN, ref : Share!Reference, users : SUBSET (Users \cup Askers)]
      /\ h_sync'.ref = x.ref /\ Share!Approved(x.base) \subseteq h_sync'.users
  BY <1>1, <1>2, <1>3
<1>5. Share!TypeOK'
  BY <1>0, <1>1, <1>4 DEF Share!TypeOK
<1>6. Share!OneSharer' /\ Share!Copies'
  BY <1>0, <1>1 DEF Share!OneSharer, Share!Copies, Share!ShareSourceKey, Share!CopiesOf
<1>7. \A b : Share!Approved(b)' = Share!Approved(b)
  BY <1>1 DEF Share!Approved, Share!BasesOf, Share!CopiesOf
<1>8. Share!ApprovedIsGranted'
  BY <1>0, <1>1, <1>7 DEF Share!ApprovedIsGranted
<1>9. Share!ReadsThemAll'
  <2>1. ASSUME NEW y \in h_shared, y.ref = x.ref PROVE y = x
    BY <2>1, <1>0 DEF Share!Copies
  <2> QED BY <2>1, <1>1, <1>2, <1>4, <1>7 DEF Share!ReadsThemAll
<1> QED BY <1>5, <1>6, <1>8, <1>9 DEF Share!ShareInv

\* A worker is lost with what it read.
LEMMA ShareSyncFails ==
    ASSUME Share!ShareInv, Share!SyncFails PROVE Share!ShareInv'
<1>0. Share!TypeOK /\ Share!OneSharer /\ Share!ApprovedIsGranted /\ Share!Copies /\ Share!ReadsThemAll
  BY DEF Share!ShareInv
<1>1. /\ h_sync' = Share!Idle
      /\ UNCHANGED <<h_sameChat, h_mapped, h_source, h_asked, h_refs, h_shared, h_access, h_subjects,
                     h_remapped, h_late>>
  BY DEF Share!SyncFails
<1>2. h_sync' \in [busy : BOOLEAN, ref : Share!Reference, users : SUBSET (Users \cup Askers)] /\ ~h_sync'.busy
  BY <1>1, ShareNames DEF Share!Idle
<1>3. Share!TypeOK'
  BY <1>0, <1>1, <1>2 DEF Share!TypeOK
<1>4. Share!OneSharer' /\ Share!Copies'
  BY <1>0, <1>1 DEF Share!OneSharer, Share!Copies, Share!ShareSourceKey, Share!CopiesOf
<1>5. Share!ApprovedIsGranted'
  BY <1>0, <1>1 DEF Share!ApprovedIsGranted, Share!Approved, Share!BasesOf, Share!CopiesOf
<1>6. Share!ReadsThemAll'
  BY <1>2 DEF Share!ReadsThemAll
<1> QED BY <1>3, <1>4, <1>5, <1>6 DEF Share!ShareInv

\* Somebody asks, and is not let into anything by that.
LEMMA ShareAsks ==
    ASSUME Share!ShareInv, NEW u \in Askers, NEW ref \in h_refs, Share!CreatePrivateAccessRequest(u, ref)
    PROVE  Share!ShareInv'
<1>0. Share!TypeOK /\ Share!OneSharer /\ Share!ApprovedIsGranted /\ Share!Copies /\ Share!ReadsThemAll
  BY DEF Share!ShareInv
<1>1. /\ h_access' = [h_access EXCEPT ![u] = [status |-> "pending", ref |-> ref]]
      /\ h_access[u].status # "approved"
      /\ UNCHANGED <<h_sameChat, h_mapped, h_source, h_asked, h_refs, h_shared, h_subjects, h_sync,
                     h_remapped, h_late>>
  BY DEF Share!CreatePrivateAccessRequest, Share!None
<1>2. Share!TypeOK'
  <2> DEFINE Row == [status : {"none", "pending", "approved", "rejected"}, ref : h_refs \cup {Share!Blank}]
  <2>1. h_access \in [Askers -> Row] /\ [status |-> "pending", ref |-> ref] \in Row
    BY <1>0 DEF Share!TypeOK, Share!None
  <2> HIDE DEF Row
  <2>2. h_access' \in [Askers -> Row]
    BY <1>1, <2>1
  <2> QED BY <1>0, <1>1, <2>2 DEF Row, Share!TypeOK, Share!None
<1>3. \A v \in Askers : h_access'[v] = h_access[v] \/ (h_access'[v].status = "pending" /\ v = u)
  <2>1. h_access \in [Askers -> [status : {"none", "pending", "approved", "rejected"},
                                 ref : h_refs \cup {Share!Blank}]]
    BY <1>0, ShareParts
  <2>2. \A v \in Askers : h_access'[v] = IF v = u THEN [status |-> "pending", ref |-> ref] ELSE h_access[v]
    BY <1>1, <2>1
  <2>3. [status |-> "pending", ref |-> ref].status = "pending"
    OBVIOUS
  <2>4. ASSUME NEW v \in Askers, v # u PROVE h_access'[v] = h_access[v]
    BY <2>2, <2>4
  <2>5. h_access'[u].status = "pending"
    BY <2>2, <2>3
  <2> QED BY <2>4, <2>5
<1>4. \A b : Share!Approved(b)' = Share!Approved(b)
  BY <1>1, <1>3 DEF Share!Approved, Share!BasesOf, Share!CopiesOf
<1>5. Share!OneSharer'
  BY <1>0, <1>1 DEF Share!OneSharer, Share!ShareSourceKey
<1>6. Share!Copies'
  BY <1>0, <1>1, <1>3 DEF Share!Copies, Share!ShareSourceKey, Share!CopiesOf
<1>7. Share!ApprovedIsGranted' /\ Share!ReadsThemAll'
  BY <1>0, <1>1, <1>4 DEF Share!ApprovedIsGranted, Share!ReadsThemAll
<1> QED BY <1>2, <1>5, <1>6, <1>7 DEF Share!ShareInv

\* A member is let into the copies of a knowledge base: whoever was let into another is
\* not let into more.
LEMMA ShareApproves ==
    ASSUME Share!ShareInv, NEW u \in Askers, Share!ReviewPrivateAccessRequest(u, TRUE)
    PROVE  Share!ShareInv'
<1>0. Share!TypeOK /\ Share!OneSharer /\ Share!ApprovedIsGranted /\ Share!Copies /\ Share!ReadsThemAll
  BY DEF Share!ShareInv
<1>p. PICK ref : ref = h_access[u].ref
  OBVIOUS
<1>r. PICK x \in h_shared : /\ x.active /\ x \in Share!CopiesOf(ref)
                            /\ h_shared' = Share!Reviewed(ref, x.base)
  BY <1>p DEF Share!ReviewPrivateAccessRequest, Share!CopiesOf
<1>1. /\ h_access' = [h_access EXCEPT ![u].status = "approved"] /\ h_access[u].status = "pending"
      /\ UNCHANGED <<h_sameChat, h_mapped, h_source, h_asked, h_refs, h_subjects, h_sync, h_remapped>>
  BY DEF Share!ReviewPrivateAccessRequest
<1>2. /\ h_late' \in BOOLEAN
      /\ h_late => h_late'
      /\ ~h_late' => ~h_sync.busy /\ ~ (Cardinality(Share!BasesOf(ref)) > 1)
  <2>1. Share!Cardinality(Share!BasesOf(ref)) = Cardinality(Share!BasesOf(ref))
    BY DEF Share!Cardinality, Cardinality
  <2> QED BY <1>p, <2>1 DEF Share!ReviewPrivateAccessRequest
<1>3. h_access \in [Askers -> [status : {"none", "pending", "approved", "rejected"},
                               ref : h_refs \cup {Share!Blank}]]
  BY <1>0, ShareParts
<1>4. /\ h_access' \in [Askers -> [status : {"none", "pending", "approved", "rejected"},
                                   ref : h_refs \cup {Share!Blank}]]
      /\ \A v \in Askers \ {u} : h_access'[v] = h_access[v]
      /\ h_access'[u].status = "approved" /\ \A v \in Askers : h_access'[v].ref = h_access[v].ref
  <2> DEFINE r == [h_access[u] EXCEPT !.status = "approved"]
  <2>1. h_access' = [h_access EXCEPT ![u] = r]
    BY <1>1
  <2>2. /\ r \in [status : {"none", "pending", "approved", "rejected"}, ref : h_refs \cup {Share!Blank}]
        /\ r.status = "approved" /\ r.ref = h_access[u].ref
    BY <1>3
  <2> HIDE DEF r
  <2> QED BY <2>1, <2>2, <1>3
\* Copies keep their references, knowledge bases and owners.
<1>5. /\ h_shared' \subseteq Share!Item
      /\ \A y \in h_shared' : \E z \in h_shared : /\ y.ref = z.ref /\ y.base = z.base /\ y.active = z.active
                                                  /\ y = IF z.active /\ z.base = x.base THEN [z EXCEPT !.acl = "pending"] ELSE z
      /\ \A z \in h_shared : \E y \in h_shared' : y.ref = z.ref /\ y.base = z.base
      /\ \A y \in h_shared' : y.active /\ y.base = x.base => y.acl = "pending"
  <2> DEFINE f(z) == IF z.active /\ z.base = x.base THEN [z EXCEPT !.acl = "pending"] ELSE z
  <2>1. h_shared' = {f(z) : z \in h_shared}
    BY <1>r DEF Share!Reviewed
  <2>2. ASSUME NEW z \in h_shared
        PROVE  /\ f(z) \in Share!Item /\ f(z).ref = z.ref /\ f(z).base = z.base /\ f(z).active = z.active
               /\ f(z).active /\ f(z).base = x.base => f(z).acl = "pending"
    <3>1. z \in Share!Item
      BY <1>0 DEF Share!TypeOK
    <3> QED BY <3>1 DEF Share!Item
  <2> QED BY ZenonT(40), <2>1, <2>2
<1>6. \A y, z \in h_shared' : y.ref = z.ref => y = z
  BY <1>5, <1>0 DEF Share!Copies
<1>7. \A q \in {h_access[v].ref : v \in Askers} : Share!BasesOf(q)' = Share!BasesOf(q)
  BY <1>5 DEF Share!BasesOf, Share!CopiesOf
<1>8. Share!TypeOK'
  BY <1>0, <1>1, <1>2, <1>4, <1>5 DEF Share!TypeOK, Share!None
<1>9. Share!OneSharer'
  BY <1>0, <1>1, <1>5 DEF Share!OneSharer, Share!ShareSourceKey
<1>10. Share!Copies'
  <2>1. \A y \in h_shared' : y.ref \in h_refs' /\ (h_remapped' \/ y.base = Share!ShareSourceKey(y.ref.owner)')
    BY <1>0, <1>1, <1>5 DEF Share!Copies, Share!ShareSourceKey
  <2>2. ASSUME NEW v \in Askers, h_access'[v].status = "approved" PROVE Share!CopiesOf(h_access[v].ref)' # {}
    <3>1. Share!CopiesOf(h_access[v].ref) # {}
      <4>1. CASE v = u
        BY <4>1, <1>p, <1>r
      <4>2. CASE v # u
        BY <4>2, <2>2, <1>0, <1>4 DEF Share!Copies
      <4> QED BY <4>1, <4>2
    <3>2. PICK z \in h_shared : z.ref.owner = h_access[v].ref.owner /\ z.ref.msg = h_access[v].ref.msg
      BY <3>1 DEF Share!CopiesOf
    <3> QED BY <3>2, <1>4, <1>5 DEF Share!CopiesOf
  <2>3. \A v \in Askers : h_access'[v].status = "approved" => Share!CopiesOf(h_access[v].ref)' # {}
    BY <2>2
  <2> QED BY <2>1, <2>3, <1>6, <1>4 DEF Share!Copies
\* There is one knowledge base to open, or the approval came late.
<1>11. ASSUME ~h_late' PROVE Share!BasesOf(ref) = {x.base}
  <2>1. Share!BasesOf(ref) \subseteq {"participants"} \cup {"external"} \cup Users
    BY <1>0 DEF Share!BasesOf, Share!CopiesOf, Share!TypeOK, Share!Item
  <2>2. IsFiniteSet({"participants"} \cup {"external"} \cup Users)
    BY ServicesAssumption, FS_AddElement, FS_Union, FS_Singleton
  <2>3. IsFiniteSet(Share!BasesOf(ref))
    BY <2>1, <2>2, FS_Subset
  <2>4. Cardinality(Share!BasesOf(ref)) \in Nat
    BY <2>3, FS_CardinalityType
  <2>5. x.base \in Share!BasesOf(ref)
    BY <1>r DEF Share!BasesOf
  <2>6. Cardinality(Share!BasesOf(ref)) # 0
    BY <2>3, <2>5, FS_EmptySet
  <2>7. Cardinality(Share!BasesOf(ref)) = 1
    BY <2>4, <2>6, <1>11, <1>2
  <2> QED BY <2>3, <2>5, <2>7, FS_Singleton
<1>12. ASSUME ~h_late', NEW b, b # x.base, NEW v \in Askers, v \in Share!Approved(b)'
       PROVE  v \in Share!Approved(b)
  <2>1. h_access'[v].status = "approved" /\ b \in Share!BasesOf(h_access[v].ref)
    BY <1>12, <1>4, <1>7 DEF Share!Approved
  <2>2. v # u
    BY <2>1, <1>12, <1>11, <1>p
  <2> QED BY <2>1, <2>2, <1>4 DEF Share!Approved
<1>13. Share!ApprovedIsGranted'
  <2>1. ASSUME NEW y \in h_shared', y.active, y.acl = "synced", ~h_late'
        PROVE  Share!Approved(y.base)' \subseteq h_subjects'[y.ref]
    <3>1. y.base # x.base
      BY <2>1, <1>5
    <3>2. PICK z \in h_shared : y.ref = z.ref /\ y.base = z.base /\ y.active = z.active /\ y = z
      BY <1>5, <2>1, <3>1
    <3>3. Share!Approved(y.base) \subseteq h_subjects[y.ref]
      BY <3>2, <2>1, <1>0, <1>2 DEF Share!ApprovedIsGranted
    <3>4. Share!Approved(y.base)' \subseteq Askers
      BY DEF Share!Approved
    <3> QED BY <3>1, <3>3, <3>4, <2>1, <1>12, <1>1
  <2> QED BY <2>1 DEF Share!ApprovedIsGranted
<1>14. Share!ReadsThemAll'
  BY <1>0, <1>1, <1>2 DEF Share!ReadsThemAll
<1> QED BY <1>8, <1>9, <1>10, <1>13, <1>14 DEF Share!ShareInv

\* A request that is turned down opens nothing.
LEMMA ShareRejects ==
    ASSUME Share!ShareInv, NEW u \in Askers, Share!ReviewPrivateAccessRequest(u, FALSE)
    PROVE  Share!ShareInv'
<1>0. Share!TypeOK /\ Share!OneSharer /\ Share!ApprovedIsGranted /\ Share!Copies /\ Share!ReadsThemAll
  BY DEF Share!ShareInv
<1>1. /\ h_access' = [h_access EXCEPT ![u].status = "rejected"] /\ h_access[u].status = "pending"
      /\ UNCHANGED <<h_sameChat, h_mapped, h_source, h_asked, h_refs, h_shared, h_subjects, h_sync,
                     h_remapped, h_late>>
  BY DEF Share!ReviewPrivateAccessRequest
<1>3. h_access \in [Askers -> [status : {"none", "pending", "approved", "rejected"},
                               ref : h_refs \cup {Share!Blank}]]
  BY <1>0, ShareParts
<1>4. /\ h_access' \in [Askers -> [status : {"none", "pending", "approved", "rejected"},
                                   ref : h_refs \cup {Share!Blank}]]
      /\ \A v \in Askers \ {u} : h_access'[v] = h_access[v]
      /\ h_access'[u].status = "rejected" /\ \A v \in Askers : h_access'[v].ref = h_access[v].ref
  <2> DEFINE r == [h_access[u] EXCEPT !.status = "rejected"]
  <2>1. h_access' = [h_access EXCEPT ![u] = r]
    BY <1>1
  <2>2. /\ r \in [status : {"none", "pending", "approved", "rejected"}, ref : h_refs \cup {Share!Blank}]
        /\ r.status = "rejected" /\ r.ref = h_access[u].ref
    BY <1>3
  <2> HIDE DEF r
  <2> QED BY <2>1, <2>2, <1>3
<1>5. \A b : Share!Approved(b)' = Share!Approved(b)
  BY <1>1, <1>4 DEF Share!Approved, Share!BasesOf, Share!CopiesOf
<1>6. Share!TypeOK'
  BY <1>0, <1>1, <1>4 DEF Share!TypeOK, Share!None
<1>7. Share!OneSharer'
  BY <1>0, <1>1 DEF Share!OneSharer, Share!ShareSourceKey
<1>8. Share!Copies'
  BY <1>0, <1>1, <1>4 DEF Share!Copies, Share!ShareSourceKey, Share!CopiesOf
<1>9. Share!ApprovedIsGranted' /\ Share!ReadsThemAll'
  BY <1>0, <1>1, <1>5 DEF Share!ApprovedIsGranted, Share!ReadsThemAll
<1> QED BY <1>6, <1>7, <1>8, <1>9 DEF Share!ShareInv

\* A copy is deleted; the others are as they were.
LEMMA ShareDeletes ==
    ASSUME Share!ShareInv, NEW x \in h_shared, Share!DeleteShared(x) PROVE Share!ShareInv'
<1>0. Share!TypeOK /\ Share!OneSharer /\ Share!ApprovedIsGranted /\ Share!Copies /\ Share!ReadsThemAll
  BY DEF Share!ShareInv
<1>d. PICK d : d = [x EXCEPT !.active = FALSE]
  OBVIOUS
<1>1. /\ h_shared' = (h_shared \ {x}) \cup {d}
      /\ UNCHANGED <<h_sameChat, h_mapped, h_source, h_asked, h_refs, h_access, h_subjects, h_sync,
                     h_remapped, h_late>>
  BY <1>d DEF Share!DeleteShared
<1>2. x \in Share!Item /\ d \in Share!Item /\ d.ref = x.ref /\ d.base = x.base /\ ~d.active
  BY <1>0, <1>d DEF Share!TypeOK, Share!Item
<1>3. /\ h_shared' \subseteq Share!Item
      /\ \A y \in h_shared' : \E z \in h_shared : /\ y.ref = z.ref /\ y.base = z.base
                                                  /\ y.active => z.active /\ y = z
      /\ \A z \in h_shared : \E y \in h_shared' : y.ref = z.ref /\ y.base = z.base
      /\ \A y, z \in h_shared' : y.ref = z.ref => y = z
  <2>1. h_shared' \subseteq Share!Item
    BY <1>0, <1>1, <1>2 DEF Share!TypeOK
  <2>2. \A y \in h_shared' : \E z \in h_shared : /\ y.ref = z.ref /\ y.base = z.base
                                                 /\ y.active => z.active /\ y = z
    BY <1>1, <1>2
  <2>3. \A z \in h_shared : \E y \in h_shared' : y.ref = z.ref /\ y.base = z.base
    BY <1>1, <1>2
  <2>4. \A y, z \in h_shared : y.ref = z.ref => y = z
    BY <1>0 DEF Share!Copies
  <2>5. \A y, z \in h_shared' : y.ref = z.ref => y = z
    BY <2>4, <1>1, <1>2
  <2> QED BY <2>1, <2>2, <2>3, <2>5
<1>4. \A q : Share!BasesOf(q)' = Share!BasesOf(q)
  BY <1>3 DEF Share!BasesOf, Share!CopiesOf
<1>5. \A b : Share!Approved(b)' = Share!Approved(b)
  BY <1>1, <1>4 DEF Share!Approved
<1>6. Share!TypeOK'
  BY <1>0, <1>1, <1>3 DEF Share!TypeOK
<1>7. Share!OneSharer'
  BY <1>0, <1>1, <1>3 DEF Share!OneSharer, Share!ShareSourceKey
<1>8. Share!Copies'
  <2>1. \A y \in h_shared' : y.ref \in h_refs' /\ (h_remapped' \/ y.base = Share!ShareSourceKey(y.ref.owner)')
    BY <1>0, <1>1, <1>3 DEF Share!Copies, Share!ShareSourceKey
  <2>2. ASSUME NEW v \in Askers, h_access'[v].status = "approved" PROVE Share!CopiesOf(h_access[v].ref)' # {}
    <3>1. Share!CopiesOf(h_access[v].ref) # {}
      BY <2>2, <1>0, <1>1 DEF Share!Copies
    <3>2. PICK z \in h_shared : z.ref.owner = h_access[v].ref.owner /\ z.ref.msg = h_access[v].ref.msg
      BY <3>1 DEF Share!CopiesOf
    <3> QED BY <3>2, <1>1, <1>3 DEF Share!CopiesOf
  <2>3. \A v \in Askers : h_access'[v].status = "approved" => Share!CopiesOf(h_access[v].ref)' # {}
    BY <2>2
  <2> QED BY <2>1, <2>3, <1>3, <1>1 DEF Share!Copies
<1>9. Share!ApprovedIsGranted'
  BY <1>0, <1>1, <1>3, <1>5 DEF Share!ApprovedIsGranted
<1>10. Share!ReadsThemAll'
  <2>1. ASSUME NEW y \in h_shared', h_sync.busy, ~h_late, y.ref = h_sync.ref
        PROVE  Share!Approved(y.base) \subseteq h_sync.users
    <3>1. PICK z \in h_shared : y.ref = z.ref /\ y.base = z.base
      BY <1>3
    <3> QED BY <2>1, <3>1, <1>0 DEF Share!ReadsThemAll
  <2>2. h_sync.busy => h_sync.ref \in h_refs
    BY <1>0 DEF Share!ReadsThemAll
  <2> QED BY <2>1, <2>2, <1>1, <1>5 DEF Share!ReadsThemAll
<1> QED BY <1>6, <1>7, <1>8, <1>9, <1>10 DEF Share!ShareInv

\* A worker opens a copy to the subjects it has read, which are all of them unless a
\* request was approved in between.
LEMMA ShareMarks ==
    ASSUME Share!ShareInv, Share!MarkKnowledgePermissionSynced PROVE Share!ShareInv'
<1>0. Share!TypeOK /\ Share!OneSharer /\ Share!ApprovedIsGranted /\ Share!Copies /\ Share!ReadsThemAll
  BY DEF Share!ShareInv
<1>1. /\ h_sync.busy /\ h_sync' = Share!Idle
      /\ h_subjects' = [h_subjects EXCEPT ![h_sync.ref] = @ \cup h_sync.users]
      /\ h_shared' = {IF x.ref = h_sync.ref THEN [x EXCEPT !.acl = "synced"] ELSE x : x \in h_shared}
      /\ UNCHANGED <<h_sameChat, h_mapped, h_source, h_asked, h_refs, h_access, h_remapped, h_late>>
  BY DEF Share!MarkKnowledgePermissionSynced
<1>2. h_sync' \in [busy : BOOLEAN, ref : Share!Reference, users : SUBSET (Users \cup Askers)] /\ ~h_sync'.busy
  BY <1>1, ShareNames DEF Share!Idle
<1>3. /\ h_shared' \subseteq Share!Item
      /\ \A y \in h_shared' : \E z \in h_shared :
            /\ y.ref = z.ref /\ y.base = z.base /\ (y.active <=> z.active)
            /\ y.ref # h_sync.ref => y = z
      /\ \A z \in h_shared : \E y \in h_shared' : y.ref = z.ref /\ y.base = z.base
      /\ \A y, z \in h_shared' : y.ref = z.ref => y = z
  <2> DEFINE f(z) == IF z.ref = h_sync.ref THEN [z EXCEPT !.acl = "synced"] ELSE z
  <2>1. h_shared' = {f(z) : z \in h_shared}
    BY <1>1
  <2>2. ASSUME NEW z \in h_shared
        PROVE  /\ f(z) \in Share!Item /\ f(z).ref = z.ref /\ f(z).base = z.base /\ (f(z).active <=> z.active)
               /\ z.ref # h_sync.ref => f(z) = z
    <3>1. z \in Share!Item
      BY <1>0 DEF Share!TypeOK
    <3> QED BY <3>1 DEF Share!Item
  <2>3. \A y, z \in h_shared : y.ref = z.ref => y = z
    BY <1>0 DEF Share!Copies
  <2> HIDE DEF f
  <2> QED BY <2>1, <2>2, <2>3
<1>4. \A q : Share!BasesOf(q)' = Share!BasesOf(q)
  BY <1>3 DEF Share!BasesOf, Share!CopiesOf
<1>5. \A b : Share!Approved(b)' = Share!Approved(b)
  BY <1>1, <1>4 DEF Share!Approved
<1>s. /\ h_subjects' \in [Share!Reference -> SUBSET (Users \cup Askers)]
      /\ h_sync.users \subseteq h_subjects'[h_sync.ref]
      /\ \A q \in Share!Reference \ {h_sync.ref} : h_subjects'[q] = h_subjects[q]
  <2>1. /\ h_subjects \in [Share!Reference -> SUBSET (Users \cup Askers)]
        /\ h_sync.ref \in Share!Reference /\ h_sync.users \in SUBSET (Users \cup Askers)
    BY <1>0 DEF Share!TypeOK
  <2>2. h_subjects[h_sync.ref] \cup h_sync.users \in SUBSET (Users \cup Askers)
    BY <2>1
  <2> QED BY <1>1, <2>1, <2>2
<1>6. Share!TypeOK'
  BY <1>0, <1>1, <1>2, <1>3, <1>s DEF Share!TypeOK
<1>7. Share!OneSharer'
  <2>1. \A y \in h_shared' : \E z \in h_shared : y.ref = z.ref /\ y.base = z.base /\ (y.active <=> z.active)
    BY <1>3
  <2> QED BY <1>0, <1>1, <2>1 DEF Share!OneSharer, Share!ShareSourceKey
<1>8. Share!Copies'
  <2>1. \A y \in h_shared' : y.ref \in h_refs' /\ (h_remapped' \/ y.base = Share!ShareSourceKey(y.ref.owner)')
    BY <1>0, <1>1, <1>3 DEF Share!Copies, Share!ShareSourceKey
  <2>2. ASSUME NEW v \in Askers, h_access'[v].status = "approved" PROVE Share!CopiesOf(h_access[v].ref)' # {}
    <3>1. Share!CopiesOf(h_access[v].ref) # {}
      BY <2>2, <1>0, <1>1 DEF Share!Copies
    <3>2. PICK z \in h_shared : z.ref.owner = h_access[v].ref.owner /\ z.ref.msg = h_access[v].ref.msg
      BY <3>1 DEF Share!CopiesOf
    <3>3. PICK y \in h_shared' : y.ref = z.ref
      BY <1>3
    <3>4. y \in Share!CopiesOf(h_access[v].ref)'
      BY <3>2, <3>3, <1>1 DEF Share!CopiesOf
    <3> QED BY <3>4
  <2>3. \A v \in Askers : h_access'[v].status = "approved" => Share!CopiesOf(h_access[v].ref)' # {}
    BY <2>2
  <2> QED BY <2>1, <2>3, <1>3, <1>1 DEF Share!Copies
<1>9. Share!ApprovedIsGranted'
  <2>1. ASSUME NEW y \in h_shared', y.active, y.acl = "synced", ~h_late
        PROVE  Share!Approved(y.base) \subseteq h_subjects'[y.ref]
    <3>1. PICK z \in h_shared : /\ y.ref = z.ref /\ y.base = z.base /\ (y.active <=> z.active)
                                /\ y.ref # h_sync.ref => y = z
      BY <1>3
    <3>2. CASE y.ref = h_sync.ref
      <4>1. Share!Approved(z.base) \subseteq h_sync.users
        BY <3>1, <3>2, <2>1, <1>0, <1>1 DEF Share!ReadsThemAll
      <4> QED BY <4>1, <3>1, <3>2, <1>s
    <3>3. CASE y.ref # h_sync.ref
      <4>1. Share!Approved(y.base) \subseteq h_subjects[y.ref]
        BY <3>1, <3>3, <2>1, <1>0 DEF Share!ApprovedIsGranted
      <4>2. y.ref \in Share!Reference
        BY <1>3 DEF Share!Item
      <4> QED BY <4>1, <4>2, <3>3, <1>s
    <3> QED BY <3>2, <3>3
  <2> QED BY <2>1, <1>1, <1>5 DEF Share!ApprovedIsGranted
<1>10. Share!ReadsThemAll'
  BY <1>2 DEF Share!ReadsThemAll
<1> QED BY <1>6, <1>7, <1>8, <1>9, <1>10 DEF Share!ShareInv

\* A side shares a selection: nobody else shares the chat, and what comes is of references
\* that were not there.
LEMMA ShareShares ==
    ASSUME Share!ShareInv, NEW o \in Users, NEW r \in RequestIds, NEW s \in Share!Selection,
           Share!SharePrivateResources(o, r, s)
    PROVE  Share!ShareInv'
<1>0. Share!TypeOK /\ Share!OneSharer /\ Share!ApprovedIsGranted /\ Share!Copies /\ Share!ReadsThemAll
  BY DEF Share!ShareInv
<1>k. PICK key : key = Share!ShareSourceKey(o)
  OBVIOUS
<1>n. PICK new : new = {[ref |-> Share!ReferenceOf(o, m), base |-> key,
                         acl |-> "pending", active |-> TRUE] : m \in s}
  OBVIOUS
<1>t. PICK taken : taken = {Share!ReferenceOf(o, m) : m \in s}
  OBVIOUS
<1>1. /\ \A x \in h_shared : x.active /\ x.base = key => x.ref.owner = o
      /\ \A m \in s : Share!ReferenceOf(o, m) \notin h_refs
      /\ h_asked' = h_asked \cup {r} /\ h_refs' = h_refs \cup taken /\ h_shared' = h_shared \cup new
      /\ UNCHANGED <<h_sameChat, h_mapped, h_source, h_access, h_subjects, h_sync, h_remapped>>
  BY <1>k, <1>n, <1>t DEF Share!SharePrivateResources, Share!SharedByAnother
<1>2. /\ h_late' \in BOOLEAN
      /\ h_late' <=> h_late \/ Share!Spreads(o, s)
  BY <1>0 DEF Share!SharePrivateResources, Share!TypeOK
<1>3. /\ taken \subseteq Share!Reference
      /\ \A x \in taken : x.owner = o /\ x.msg \in s
      /\ \A x, y \in taken : x.msg = y.msg => x = y
      /\ taken \cap h_refs = {}
  <2>1. ASSUME NEW m \in s
        PROVE  /\ Share!ReferenceOf(o, m) \in Share!Reference
               /\ Share!ReferenceOf(o, m).owner = o /\ Share!ReferenceOf(o, m).msg = m
    <3>1. m \in ChatTexts /\ h_source[o][m] \in [version : Share!Versions, ready : BOOLEAN]
      BY <1>0 DEF Share!Selection, Share!TypeOK
    <3> QED BY <3>1 DEF Share!ReferenceOf, Share!Reference
  <2> QED BY <2>1, <1>1, <1>t
<1>4. /\ new \subseteq Share!Item
      /\ \A x \in new : x.ref \in taken /\ x.base = key /\ x.acl = "pending"
      /\ \A x, y \in new : x.ref = y.ref => x = y
  <2>1. key \in {"participants"} \cup {"external"} \cup Users
    BY <1>k, ShareNames
  <2>2. ASSUME NEW x \in new
        PROVE  \E q \in taken : x = [ref |-> q, base |-> key, acl |-> "pending", active |-> TRUE]
    BY <1>n, <1>t
  <2>3. ASSUME NEW q \in taken
        PROVE  [ref |-> q, base |-> key, acl |-> "pending", active |-> TRUE] \in Share!Item
    <3>1. q \in Share!Reference
      BY <1>3
    <3> QED BY <2>1, <3>1 DEF Share!Item
  <2>4. new \subseteq Share!Item
    BY <2>2, <2>3
  <2>5. \A x \in new : x.ref \in taken /\ x.base = key /\ x.acl = "pending"
    BY <2>2
  <2>6. ASSUME NEW x \in new, NEW y \in new, x.ref = y.ref PROVE x = y
    <3>1. PICK q \in taken : x = [ref |-> q, base |-> key, acl |-> "pending", active |-> TRUE]
      BY <2>2
    <3>2. PICK p \in taken : y = [ref |-> p, base |-> key, acl |-> "pending", active |-> TRUE]
      BY <2>2
    <3>3. x.ref = q /\ y.ref = p
      BY <3>1, <3>2
    <3> QED BY <3>1, <3>2, <3>3, <2>6
  <2> QED BY <2>4, <2>5, <2>6
<1>5. Share!TypeOK'
  <2>1. /\ h_asked' \subseteq RequestIds /\ h_refs' \subseteq Share!Reference /\ h_shared' \subseteq Share!Item
    BY <1>0, <1>1, <1>3, <1>4 DEF Share!TypeOK
  <2>2. h_access' \in [Askers -> [status : {"none", "pending", "approved", "rejected"},
                                  ref : h_refs' \cup {Share!Blank}]]
    <3>1. h_access \in [Askers -> [status : {"none", "pending", "approved", "rejected"},
                                   ref : h_refs \cup {Share!Blank}]]
      BY <1>0, ShareParts
    <3>2. \A q \in [status : {"none", "pending", "approved", "rejected"}, ref : h_refs \cup {Share!Blank}] :
             q \in [status : {"none", "pending", "approved", "rejected"}, ref : h_refs' \cup {Share!Blank}]
      BY <1>1
    <3>3. \A v \in Askers : h_access[v] \in [status : {"none", "pending", "approved", "rejected"},
                                             ref : h_refs' \cup {Share!Blank}]
      BY <3>1, <3>2
    <3> HIDE <3>2
    <3> QED BY <3>1, <3>3, <1>1
  <2> QED BY <1>0, <1>1, <1>2, <2>1, <2>2 DEF Share!TypeOK, Share!None
<1>6. Share!OneSharer'
  <2>1. ASSUME NEW x \in h_shared', NEW y \in h_shared', x.active, y.active, x.ref.owner # y.ref.owner,
               ~h_remapped
        PROVE  Share!ShareSourceKey(x.ref.owner) # Share!ShareSourceKey(y.ref.owner)
    <3>1. CASE x \in h_shared /\ y \in h_shared
      BY <3>1, <2>1, <1>0 DEF Share!OneSharer
    <3>2. ASSUME NEW z \in h_shared, z.active, z.ref.owner # o PROVE Share!ShareSourceKey(z.ref.owner) # key
      BY <3>2, <2>1, <1>1, <1>0 DEF Share!Copies
    <3>3. CASE x \in new /\ y \in new
      BY <3>3, <2>1, <1>3, <1>4
    <3>4. CASE x \in new /\ y \in h_shared
      BY <3>4, <3>2, <2>1, <1>3, <1>4, <1>k
    <3>5. CASE x \in h_shared /\ y \in new
      BY <3>5, <3>2, <2>1, <1>3, <1>4, <1>k
    <3> QED BY <3>1, <3>3, <3>4, <3>5, <2>1, <1>1
  <2>2. \A q : Share!ShareSourceKey(q)' = Share!ShareSourceKey(q)
    BY <1>1 DEF Share!ShareSourceKey
  <2> QED BY <2>1, <2>2, <1>1 DEF Share!OneSharer
<1>7. Share!Copies'
  <2>0. \A q : Share!ShareSourceKey(q)' = Share!ShareSourceKey(q)
    BY <1>1 DEF Share!ShareSourceKey
  <2>1. \A y \in h_shared' : y.ref \in h_refs' /\ (h_remapped' \/ y.base = Share!ShareSourceKey(y.ref.owner)')
    <3>1. ASSUME NEW y \in h_shared
          PROVE  y.ref \in h_refs' /\ (h_remapped' \/ y.base = Share!ShareSourceKey(y.ref.owner)')
      BY <1>0, <1>1, <2>0 DEF Share!Copies
    <3>2. ASSUME NEW y \in new
          PROVE  y.ref \in h_refs' /\ y.base = Share!ShareSourceKey(y.ref.owner)'
      BY <1>1, <1>3, <1>4, <1>k, <2>0
    <3> QED BY <3>1, <3>2, <1>1
  <2>2. \A y, z \in h_shared' : y.ref = z.ref => y = z
    <3>1. /\ \A x \in h_shared : x.ref \in h_refs
          /\ \A x, y \in h_shared : x.ref = y.ref => x = y
      BY <1>0 DEF Share!Copies
    <3> QED BY <3>1, <1>1, <1>3, <1>4
  <2>3. \A v \in Askers : h_access'[v].status = "approved" => Share!CopiesOf(h_access[v].ref)' # {}
    <3>1. \A v \in Askers : h_access[v].status = "approved" => Share!CopiesOf(h_access[v].ref) # {}
      BY <1>0 DEF Share!Copies
    <3> QED BY <3>1, <1>1 DEF Share!CopiesOf
  <2> QED BY <2>1, <2>2, <2>3, <1>1 DEF Share!Copies
\* Nobody is let into a knowledge base by what comes, unless that is noted.
<1>8. ASSUME ~h_late', NEW b, NEW v \in Askers, v \in Share!Approved(b)'
      PROVE  v \in Share!Approved(b)
  <2>1. h_access[v].status = "approved" /\ b \in Share!BasesOf(h_access[v].ref)'
    BY <1>8, <1>1 DEF Share!Approved
  <2>2. PICK x \in h_shared' : x.base = b /\ x.ref.owner = h_access[v].ref.owner
                               /\ x.ref.msg = h_access[v].ref.msg
    BY <2>1, <1>1 DEF Share!BasesOf, Share!CopiesOf
  <2>3. CASE x \in h_shared
    BY <2>1, <2>2, <2>3 DEF Share!Approved, Share!BasesOf, Share!CopiesOf
  <2>4. CASE x \in new
    <3>1. h_access[v].ref.owner = o /\ h_access[v].ref.msg \in s /\ b = key
      BY <2>2, <2>4, <1>3, <1>4
    <3>2. ~Share!Spreads(o, s)
      BY <1>8, <1>2
    <3>3. key \in Share!BasesOf(h_access[v].ref)
      BY <3>1, <3>2, <2>1, <1>k DEF Share!Spreads
    <3> QED BY <3>1, <3>3, <2>1 DEF Share!Approved
  <2> QED BY <2>3, <2>4, <2>2, <1>1
<1>a. \A b : Share!Approved(b)' \subseteq Askers
  BY DEF Share!Approved
<1>9. Share!ApprovedIsGranted'
  <2>1. ASSUME NEW y \in h_shared', y.active, y.acl = "synced", ~h_late'
        PROVE  Share!Approved(y.base)' \subseteq h_subjects'[y.ref]
    <3>1. y \in h_shared
      BY <2>1, <1>1, <1>4
    <3>2. Share!Approved(y.base) \subseteq h_subjects[y.ref]
      BY <3>1, <2>1, <1>0, <1>2 DEF Share!ApprovedIsGranted
    <3> QED BY <3>2, <2>1, <1>8, <1>a, <1>1
  <2> QED BY <2>1 DEF Share!ApprovedIsGranted
<1>10. Share!ReadsThemAll'
  <2>1. h_sync.busy => h_sync.ref \in h_refs
    BY <1>0 DEF Share!ReadsThemAll
  <2>2. ASSUME NEW y \in h_shared', h_sync.busy, ~h_late', y.ref = h_sync.ref
        PROVE  Share!Approved(y.base)' \subseteq h_sync.users
    <3>1. y \in h_shared
      BY <2>1, <2>2, <1>1, <1>3, <1>4
    <3>2. Share!Approved(y.base) \subseteq h_sync.users
      BY <3>1, <2>2, <1>0, <1>2 DEF Share!ReadsThemAll
    <3> QED BY <3>2, <2>2, <1>8, <1>a
  <2> QED BY <2>1, <2>2, <1>1 DEF Share!ReadsThemAll
<1> QED BY <1>5, <1>6, <1>7, <1>9, <1>10 DEF Share!ShareInv

LEMMA ShareStep ==
    ASSUME Share!ShareInv, Share!Next PROVE Share!ShareInv'
<1>1. CASE \E o \in Users :
              \/ Share!Map(o)
              \/ \E m \in ChatTexts : Share!Reclassify(o, m) \/ Share!Ready(o, m)
              \/ \E r \in RequestIds, s \in Share!Selection : Share!SharePrivateResources(o, r, s)
  BY <1>1, ShareMaps, ShareReclassifies, ShareShares
<1>2. CASE \E x \in h_shared : Share!DeleteShared(x) \/ Share!ListKnowledgePermissionSubjects(x)
  BY <1>2, ShareDeletes, ShareReads
<1>3. CASE \E u \in Askers :
              \/ \E ref \in h_refs : Share!CreatePrivateAccessRequest(u, ref)
              \/ \E approve \in BOOLEAN : Share!ReviewPrivateAccessRequest(u, approve)
  <2>1. PICK u \in Askers :
              \/ \E ref \in h_refs : Share!CreatePrivateAccessRequest(u, ref)
              \/ Share!ReviewPrivateAccessRequest(u, TRUE)
              \/ Share!ReviewPrivateAccessRequest(u, FALSE)
    BY <1>3
  <2> QED BY <2>1, ShareAsks, ShareApproves, ShareRejects
<1>4. CASE Share!MarkKnowledgePermissionSynced \/ Share!SyncFails
  BY <1>4, ShareMarks, ShareSyncFails
<1> QED BY <1>1, <1>2, <1>3, <1>4 DEF Share!Next

LEMMA ShareStart ==
    ASSUME Share!Init PROVE Share!ShareInv
<1>1. /\ h_refs = {} /\ h_shared = {} /\ h_sync = Share!Idle
      /\ h_access = [u \in Askers |-> [status |-> "none", ref |-> Share!Blank]]
  BY DEF Share!Init, Share!None
<1>2. h_sync \in [busy : BOOLEAN, ref : Share!Reference, users : SUBSET (Users \cup Askers)] /\ ~h_sync.busy
  BY <1>1, ShareNames DEF Share!Idle
<1>3. h_source \in [Users -> [ChatTexts -> [version : Share!Versions, ready : BOOLEAN]]]
  BY DEF Share!Init, Share!Versions
<1>a. h_access \in [Askers -> [status : {"none", "pending", "approved", "rejected"},
                               ref : h_refs \cup {Share!Blank}]]
  BY <1>1
<1>s. h_subjects \in [Share!Reference -> SUBSET (Users \cup Askers)]
  BY DEF Share!Init
<1>4. Share!TypeOK
  BY <1>1, <1>2, <1>3, <1>a, <1>s DEF Share!Init, Share!TypeOK, Share!None
<1>5. Share!OneSharer /\ Share!ApprovedIsGranted
  BY <1>1 DEF Share!OneSharer, Share!ApprovedIsGranted
<1>6. Share!Copies
  BY <1>1 DEF Share!Copies
<1>7. Share!ReadsThemAll
  BY <1>2 DEF Share!ReadsThemAll
<1> QED BY <1>4, <1>5, <1>6, <1>7 DEF Share!ShareInv

LEMMA ShareStill ==
    ASSUME Share!ShareInv, UNCHANGED shareVars PROVE Share!ShareInv'
<1> USE DEF shareVars
<1>1. Share!TypeOK' /\ Share!OneSharer'
  BY DEF Share!ShareInv, Share!TypeOK, Share!OneSharer, Share!ShareSourceKey
<1>2. Share!ApprovedIsGranted' /\ Share!ReadsThemAll'
  BY DEF Share!ShareInv, Share!ApprovedIsGranted, Share!ReadsThemAll, Share!Approved, Share!BasesOf,
         Share!CopiesOf
<1>3. Share!Copies'
  BY DEF Share!ShareInv, Share!Copies, Share!ShareSourceKey, Share!CopiesOf
<1> QED BY <1>1, <1>2, <1>3 DEF Share!ShareInv

-----------------------------------------------------------------------------
(* The WeChat collector. *)

\* A set of natural numbers that is not empty has a least element: below it there are
\* fewer than below any other.
LEMMA Least ==
    ASSUME NEW S \in SUBSET Nat, S # {}
    PROVE  LET least == CHOOSE s \in S : \A u \in S : s <= u
           IN  least \in S /\ \A u \in S : least <= u
<1> DEFINE Below(x) == {y \in S : y < x}
           F == {Below(x) : x \in S}
<1>1. ASSUME NEW x \in S PROVE Below(x) \in FiniteSubsetsOf(Nat)
  <2>1. Below(x) \in SUBSET Nat /\ x \in Nat
    OBVIOUS
  <2>a. ASSUME NEW y \in Below(x) PROVE y <= x
    <3>1. y \in Nat /\ y < x
      OBVIOUS
    <3> HIDE DEF Below
    <3> QED BY <3>1, <2>1
  <2>2. IsFiniteSet(Below(x))
    BY <2>1, <2>a, FS_BoundedSetOfNaturals
  <2> QED BY <2>1, <2>2 DEF FiniteSubsetsOf
<1>2. F \subseteq FiniteSubsetsOf(Nat) /\ F # {}
  BY <1>1
<1>3. PICK m \in F : \A y \in F : ~ (<<y, m>> \in StrictSubsetOrdering(Nat))
  <2> HIDE DEF F
  <2> QED BY <1>2, FS_StrictSubsetOrderingWellFounded, WFMin
<1>4. PICK x \in S : m = Below(x)
  BY <1>3
<1>5. ASSUME NEW y \in S PROVE x <= y
  <2>1. SUFFICES ASSUME y < x PROVE FALSE
    OBVIOUS
  <2>a. x \in Nat /\ y \in Nat
    OBVIOUS
  <2>b. ASSUME NEW z \in Below(y) PROVE z \in m
    <3>1. z \in S /\ z \in Nat /\ z < y
      OBVIOUS
    <3>2. z < x
      BY <3>1, <2>1, <2>a
    <3> QED BY <3>1, <3>2, <1>4
  <2>2. Below(y) \subseteq m /\ y \in m /\ y \notin Below(y) /\ m \subseteq Nat
    <3>1. Below(y) \subseteq m
      BY <2>b
    <3>2. y \in m
      BY <1>4, <2>1
    <3>3. y \notin Below(y)
      BY <2>a
    <3>4. m \subseteq Nat
      BY <1>4
    <3> QED BY <3>1, <3>2, <3>3, <3>4
  <2>3. <<Below(y), m>> \in StrictSubsetOrdering(Nat)
    BY <2>2 DEF StrictSubsetOrdering
  <2> QED BY <1>3, <2>3
<1> QED BY <1>5

\* What is done next of a collection is the first of its page.
LEMMA WechatNext ==
    ASSUME Wechat!CollectsInv, w_run.pc # "idle"
    PROVE  /\ Wechat!Current \in 1..w_newest /\ Wechat!Current \in Wechat!Messages
           /\ w_run.todo # {} =>
                 /\ Wechat!Current = Wechat!Lowest(w_run.todo)
                 /\ Wechat!Current \in w_run.todo
                 /\ \A m \in w_run.todo : Wechat!Current <= m
           /\ w_run.todo = {} => Wechat!Current \in w_run.again
           /\ w_run.todo \subseteq 1..w_newest /\ w_run.again \subseteq 1..w_newest
           /\ w_newest \in 1..N /\ 1..w_newest \subseteq 1..N
<1>0. /\ Wechat!TypeOK /\ w_run.todo \cup w_run.again \subseteq 1..w_newest
      /\ w_run.todo \cup w_run.again # {} /\ N \in Nat
  BY ServicesAssumption DEF Wechat!CollectsInv
<1>1. w_newest \in 1..N /\ 1..w_newest \subseteq 1..N
  BY <1>0 DEF Wechat!TypeOK, Wechat!Messages
<1>2. w_run.todo \in SUBSET Nat /\ w_run.again \in SUBSET Nat
  BY <1>0, <1>1
<1>3. CASE w_run.todo # {}
  <2>1. /\ Wechat!Lowest(w_run.todo) \in w_run.todo
        /\ \A m \in w_run.todo : Wechat!Lowest(w_run.todo) <= m
    BY <1>2, <1>3, Least DEF Wechat!Lowest
  <2>2. Wechat!Current = Wechat!Lowest(w_run.todo)
    BY <1>3 DEF Wechat!Current
  <2> QED BY <2>1, <2>2, <1>0, <1>1, <1>3 DEF Wechat!Messages
<1>4. CASE w_run.todo = {}
  <2>1. Wechat!Lowest(w_run.again) \in w_run.again
    BY <1>0, <1>2, <1>4, Least DEF Wechat!Lowest
  <2>2. Wechat!Current = Wechat!Lowest(w_run.again)
    BY <1>4 DEF Wechat!Current
  <2> QED BY <2>1, <2>2, <1>0, <1>1, <1>4 DEF Wechat!Messages
<1> QED BY <1>3, <1>4

\* What is kept of a message stays, whatever a step adds.
LEMMA WechatKept ==
    ASSUME NEW m, w_stored \subseteq w_stored', w_ready \subseteq w_ready',
           w_missing \subseteq w_missing', w_passed \subseteq w_passed', Wechat!Kept(m)
    PROVE  Wechat!Kept(m)'
BY DEF Wechat!Kept

\* A step that does not touch the run, its start or its cursor.
LEMMA WechatAside ==
    ASSUME Wechat!CollectsInv, UNCHANGED <<w_start, w_cursor, w_run, w_straddled>>,
           w_newest' \in Wechat!Messages, w_newest <= w_newest',
           w_stored = w_stored', w_ready = w_ready', w_missing = w_missing', w_passed = w_passed'
    PROVE  /\ Wechat!Vouched'
           /\ w_run'.todo \cup w_run'.again \subseteq 1..w_newest' /\ w_run'.again \subseteq Attached
           /\ w_run'.pc = "idle" <=> w_run'.todo \cup w_run'.again = {}
           /\ (w_run.pc = "commit" /\ w_run.todo # {} => Wechat!Kept(Wechat!Lowest(w_run.todo)))'
           /\ Wechat!InOrder'
<1>0. w_newest \in Nat /\ w_newest' \in Nat
  BY ServicesAssumption DEF Wechat!CollectsInv, Wechat!TypeOK, Wechat!Messages
<1>1. Wechat!Vouched'
  BY DEF Wechat!CollectsInv, Wechat!Vouched
<1>2. w_run'.todo \cup w_run'.again \subseteq 1..w_newest'
  <2>1. 1..w_newest \subseteq 1..w_newest'
    BY <1>0
  <2> QED BY <2>1 DEF Wechat!CollectsInv
<1>3. /\ w_run'.again \subseteq Attached
      /\ w_run'.pc = "idle" <=> w_run'.todo \cup w_run'.again = {}
  BY DEF Wechat!CollectsInv
<1>4. (w_run.pc = "commit" /\ w_run.todo # {} => Wechat!Kept(Wechat!Lowest(w_run.todo)))'
  BY DEF Wechat!CollectsInv, Wechat!Kept, Wechat!Lowest
<1>5. Wechat!InOrder'
  BY DEF Wechat!CollectsInv, Wechat!InOrder, Wechat!Kept
<1> QED BY <1>1, <1>2, <1>3, <1>4, <1>5

\* WeChat, the workers of the knowledge service and the owner.
LEMMA WechatOthers ==
    ASSUME Wechat!CollectsInv,
           \/ Wechat!Arrive \/ (\E m \in Attached : Wechat!LocalFile(m))
           \/ \E m \in Wechat!Messages : \/ Wechat!Rewrite(m) \/ Wechat!Publish(m)
                                         \/ Wechat!UpdateConversationStart(m)
    PROVE  Wechat!CollectsInv'
<1>0. Wechat!TypeOK /\ N \in Nat /\ N >= 2 /\ w_newest \in 1..N /\ 1..w_newest \subseteq 1..N
      /\ w_cursor \in 0..w_newest
  BY ServicesAssumption DEF Wechat!CollectsInv, Wechat!TypeOK, Wechat!Messages
<1>1. ASSUME \/ Wechat!Arrive \/ (\E m \in Attached : Wechat!LocalFile(m))
             \/ \E m \in Wechat!Messages : Wechat!Rewrite(m) \/ Wechat!Publish(m)
      PROVE  Wechat!CollectsInv'
  <2>1. /\ UNCHANGED <<w_start, w_cursor, w_run, w_straddled>> /\ UNCHANGED <<w_stored, w_ready, w_missing, w_passed>>
        /\ UNCHANGED <<w_receipts, w_replayed>>
    BY <1>1 DEF Wechat!Arrive, Wechat!LocalFile, Wechat!Rewrite, Wechat!Publish, Wechat!rows, Wechat!history,
       Wechat!wechat
  <2>2. w_newest' \in Wechat!Messages /\ w_newest <= w_newest'
    <3>1. w_newest' = w_newest \/ (w_newest < N /\ w_newest' = w_newest + 1)
      BY <1>1 DEF Wechat!Arrive, Wechat!LocalFile, Wechat!Rewrite, Wechat!Publish, Wechat!wechat
    <3> QED BY <3>1, <1>0 DEF Wechat!Messages
  <2>3. 1..w_newest \subseteq 1..w_newest' /\ 0..w_newest \subseteq 0..w_newest'
    BY <2>2, <1>0 DEF Wechat!Messages
  <2>4. w_local' \subseteq Attached
    BY <1>1, <1>0 DEF Wechat!Arrive, Wechat!LocalFile, Wechat!Rewrite, Wechat!Publish, Wechat!wechat, Wechat!TypeOK
  <2>5. w_rewritten' \subseteq w_stored' /\ w_published' \subseteq w_stored'
    BY <1>1, <2>1, <1>0 DEF Wechat!Arrive, Wechat!LocalFile, Wechat!Rewrite, Wechat!Publish, Wechat!wechat,
       Wechat!rows, Wechat!TypeOK
  <2>6. Wechat!TypeOK'
    BY <2>1, <2>2, <2>3, <2>4, <2>5, <1>0 DEF Wechat!TypeOK
  <2> QED BY <2>1, <2>2, <2>6, WechatAside DEF Wechat!CollectsInv
<1>2. ASSUME NEW s \in Wechat!Messages, Wechat!UpdateConversationStart(s) PROVE Wechat!CollectsInv'
  <2>1. /\ w_start' = s /\ w_cursor' = 0 /\ w_run' = [w_run EXCEPT !.moved = w_run.pc # "idle"]
        /\ UNCHANGED <<w_newest, w_local, w_rewritten, w_stored, w_ready, w_published, w_receipts,
                       w_replayed, w_missing, w_passed, w_straddled>>
    BY <1>2 DEF Wechat!UpdateConversationStart, Wechat!wechat, Wechat!rows, Wechat!history
  <2>2. PICK b \in BOOLEAN : b <=> w_run.pc # "idle"
    OBVIOUS
  <2>3. w_run' = [w_run EXCEPT !.moved = b]
    BY <2>1, <2>2
  <2>4. /\ w_run' \in [pc : {"idle", "ingest", "commit"}, todo : SUBSET Wechat!Messages,
                       again : SUBSET Wechat!Messages, moved : BOOLEAN]
        /\ w_run'.pc = w_run.pc /\ w_run'.todo = w_run.todo /\ w_run'.again = w_run.again
        /\ w_run'.moved = b
    BY <2>3, <1>0 DEF Wechat!TypeOK
  <2>5. Wechat!TypeOK'
    BY <2>1, <2>4, <1>0 DEF Wechat!TypeOK
  <2>6. Wechat!Vouched'
    BY <2>1, <1>0 DEF Wechat!Vouched, Wechat!Messages
  <2>7. w_run'.todo \cup w_run'.again \subseteq 1..w_newest' /\ w_run'.again \subseteq Attached
    BY <2>1, <2>4 DEF Wechat!CollectsInv
  <2>8. w_run'.pc = "idle" <=> w_run'.todo \cup w_run'.again = {}
    BY <2>4 DEF Wechat!CollectsInv
  <2>9. (w_run.pc = "commit" /\ w_run.todo # {} => Wechat!Kept(Wechat!Lowest(w_run.todo)))'
    BY <2>1, <2>4 DEF Wechat!CollectsInv, Wechat!Kept, Wechat!Lowest
  <2>10. Wechat!InOrder'
    <3>1. CASE w_run.pc = "idle"
      BY <3>1, <2>4, <2>8 DEF Wechat!InOrder
    <3>2. CASE w_run.pc # "idle"
      BY <3>2, <2>2, <2>4 DEF Wechat!InOrder
    <3> QED BY <3>1, <3>2
  <2> QED BY <2>5, <2>6, <2>7, <2>8, <2>9, <2>10 DEF Wechat!CollectsInv
<1> QED BY <1>1, <1>2

\* What a page leaves out lies behind the cursor, before the start, or is passed over.
LEMMA WechatCollects ==
    ASSUME Wechat!CollectsInv, Wechat!CollectOnce PROVE Wechat!CollectsInv'
<1>0. /\ Wechat!TypeOK /\ Wechat!Vouched /\ N \in Nat /\ w_newest \in 1..N /\ 1..w_newest \subseteq 1..N
      /\ w_cursor \in 0..w_newest /\ w_start \in 1..N /\ PageSize \in Nat
  BY ServicesAssumption DEF Wechat!CollectsInv, Wechat!TypeOK, Wechat!Messages
<1>a. PICK page : /\ \/ page = Wechat!Rows(w_cursor)
                     \/ page = Wechat!Fallback(w_cursor) /\ w_cursor > 0
                  /\ Wechat!Collect(page)
  BY DEF Wechat!CollectOnce
<1> DEFINE again == Wechat!ReplayCandidates(w_cursor, page)
<1>1. /\ page \cup again # {}
      /\ w_run' = [pc |-> "ingest", todo |-> page, again |-> again, moved |-> FALSE]
      /\ w_passed' = w_passed \cup (((w_cursor + 1)..w_newest) \ (page \cup Wechat!FirstPage))
      /\ UNCHANGED <<w_scope, w_start, w_newest, w_local, w_rewritten, w_stored, w_ready, w_published,
                     w_receipts, w_cursor, w_replayed, w_missing, w_straddled>>
  BY <1>a DEF Wechat!CollectOnce, Wechat!Collect, Wechat!wechat, Wechat!rows
<1>b. Wechat!FirstPage \subseteq 1..w_newest
  BY DEF Wechat!FirstPage
<1>2. page \subseteq 1..w_newest
  <2>1. CASE page = Wechat!Rows(w_cursor) /\ w_cursor = 0
    BY <2>1, <1>b DEF Wechat!Rows
  <2>2. CASE page = Wechat!Rows(w_cursor) /\ w_cursor # 0
    BY <2>2, <1>0 DEF Wechat!Rows
  <2>3. CASE page = Wechat!Fallback(w_cursor)
    BY <2>3, <1>b DEF Wechat!Fallback
  <2> QED BY <2>1, <2>2, <2>3, <1>a
<1>3. again \subseteq 1..w_newest /\ again \subseteq Attached
  BY <1>b DEF Wechat!ReplayCandidates
<1>4. ASSUME NEW m \in page, NEW n \in Wechat!Messages, w_start <= n, n < m, n \notin page, ~w_straddled
      PROVE  Wechat!Kept(n)'
  <2>0. n \in 1..w_newest
    <3>1. m \in 1..w_newest /\ n \in 1..N
      BY <1>2, <1>4 DEF Wechat!Messages
    <3> QED BY <3>1, <1>4, <1>0
  <2>1. CASE n <= w_cursor
    <3>1. Wechat!Kept(n)
      BY <2>1, <1>4, <1>0 DEF Wechat!Vouched, Wechat!Kept
    <3> QED BY <3>1, <1>1, WechatKept
  <2>2. CASE ~ n <= w_cursor
    <3>1. n \in (w_cursor + 1)..w_newest
      BY <2>0, <2>2, <1>0
    <3>2. n \notin Wechat!FirstPage
      <4>1. CASE page = Wechat!Rows(w_cursor) /\ w_cursor = 0
        BY <4>1, <1>4 DEF Wechat!Rows
      <4>2. CASE page = Wechat!Rows(w_cursor) /\ w_cursor # 0
        BY <4>2, <3>1, <1>4 DEF Wechat!Rows
      <4>3. CASE page = Wechat!Fallback(w_cursor)
        <5>1. n > w_cursor
          BY <2>0, <2>2, <1>0
        <5> QED BY <5>1, <4>3, <1>4 DEF Wechat!Fallback
      <4> QED BY <4>1, <4>2, <4>3, <1>a
    <3>3. n \in w_passed'
      BY <3>1, <3>2, <1>4, <1>1
    <3> QED BY <3>3 DEF Wechat!Kept
  <2> QED BY <2>1, <2>2
<1> HIDE DEF again
<1>5. w_run'.pc = "ingest" /\ w_run'.todo = page /\ w_run'.again = again
  BY <1>1
<1>6. Wechat!InOrder'
  BY <1>1, <1>4, <1>5 DEF Wechat!InOrder
<1>7. w_passed \subseteq w_passed' /\ w_passed' \subseteq Wechat!Messages
  <2>1. ASSUME NEW n \in (w_cursor + 1)..w_newest PROVE n \in Wechat!Messages
    BY <1>0 DEF Wechat!Messages
  <2>2. w_passed \subseteq Wechat!Messages
    BY <1>0 DEF Wechat!TypeOK
  <2> QED BY <2>1, <2>2, <1>1
<1>8. Wechat!Vouched'
  BY <1>1, <1>7, <1>0 DEF Wechat!Vouched
<1>9. Wechat!TypeOK'
  <2>1. w_run' \in [pc : {"idle", "ingest", "commit"}, todo : SUBSET Wechat!Messages,
                    again : SUBSET Wechat!Messages, moved : BOOLEAN]
    BY <1>1, <1>2, <1>3, <1>0 DEF Wechat!Messages
  <2> QED BY <2>1, <1>1, <1>7, <1>0 DEF Wechat!TypeOK
<1>10. w_run'.todo \cup w_run'.again \subseteq 1..w_newest' /\ w_run'.again \subseteq Attached
  BY <1>1, <1>2, <1>3, <1>5
<1> QED BY <1>1, <1>5, <1>6, <1>8, <1>9, <1>10 DEF Wechat!CollectsInv

\* What one request does to a message is never less than it was.
LEMMA WechatIngests ==
    ASSUME Wechat!CollectsInv, Wechat!IngestMessage PROVE Wechat!CollectsInv'
<1>0. /\ Wechat!TypeOK /\ Wechat!Vouched /\ Wechat!InOrder /\ w_run.pc = "ingest"
      /\ w_run.again \subseteq Attached /\ N \in Nat
  BY ServicesAssumption DEF Wechat!CollectsInv, Wechat!IngestMessage
<1>m. PICK m \in Wechat!Messages : m = Wechat!Current
  BY <1>0, WechatNext
<1>1. /\ m \in 1..w_newest /\ m \in Wechat!Messages
      /\ w_run.todo # {} => m = Wechat!Lowest(w_run.todo) /\ m \in w_run.todo
      /\ w_run.todo \subseteq 1..w_newest /\ w_run.again \subseteq 1..w_newest
  BY <1>0, <1>m, WechatNext
<1>2. /\ \/ /\ m \in w_rewritten /\ w_passed' = w_passed \cup {m}
            /\ UNCHANGED <<w_stored, w_ready, w_missing>>
         \/ /\ m \notin w_rewritten /\ w_stored' = w_stored \cup {m} /\ w_passed' = w_passed
            /\ \/ /\ m \in Attached \ w_ready /\ m \notin w_local
                  /\ w_missing' = w_missing \cup {m} /\ UNCHANGED w_ready
               \/ w_ready' = w_ready \cup ({m} \cap Attached) /\ UNCHANGED w_missing
      /\ w_run' = [w_run EXCEPT !.pc = "commit"]
      /\ UNCHANGED <<w_scope, w_start, w_newest, w_local, w_rewritten, w_published,
                     w_receipts, w_cursor, w_replayed, w_straddled>>
  BY <1>m DEF Wechat!IngestMessage, Wechat!wechat
<1>3. /\ w_stored \subseteq w_stored' /\ w_ready \subseteq w_ready' /\ w_missing \subseteq w_missing'
      /\ w_passed \subseteq w_passed'
  BY <1>2
<1>4. Wechat!Kept(m)'
  BY <1>2 DEF Wechat!Kept
<1>5. /\ w_run' \in [pc : {"idle", "ingest", "commit"}, todo : SUBSET Wechat!Messages,
                     again : SUBSET Wechat!Messages, moved : BOOLEAN]
      /\ w_run'.pc = "commit" /\ w_run'.todo = w_run.todo /\ w_run'.again = w_run.again
      /\ w_run'.moved = w_run.moved
  BY <1>2, <1>0 DEF Wechat!TypeOK
<1>6. Wechat!TypeOK'
  <2>1. w_stored' \subseteq 1..w_newest' /\ w_rewritten' \subseteq w_stored' /\ w_published' \subseteq w_stored'
    BY <1>1, <1>2, <1>0 DEF Wechat!TypeOK
  <2>2. w_ready' \subseteq w_stored' \cap Attached /\ w_missing' \subseteq Attached /\ w_passed' \subseteq Wechat!Messages
    BY <1>1, <1>2, <1>0 DEF Wechat!TypeOK
  <2> QED BY <2>1, <2>2, <1>2, <1>5, <1>0 DEF Wechat!TypeOK
<1>7. Wechat!Vouched'
  <2>1. ASSUME NEW n \in Wechat!Messages, w_start' <= n, n <= w_cursor', ~w_straddled
        PROVE  Wechat!Kept(n)'
    <3>1. Wechat!Kept(n)
      BY <2>1, <1>2, <1>0 DEF Wechat!Vouched, Wechat!Kept
    <3> QED BY <3>1, <1>3, WechatKept
  <2> QED BY <2>1, <1>2 DEF Wechat!Vouched, Wechat!Kept
<1>8. Wechat!InOrder'
  <2>1. ASSUME NEW n \in Wechat!Messages, NEW k \in Wechat!Messages, k \in w_run.todo, w_start <= n, n < k,
               n \notin w_run.todo, ~w_straddled, ~w_run.moved
        PROVE  Wechat!Kept(n)'
    <3>1. Wechat!Kept(n)
      BY <2>1, <1>0 DEF Wechat!InOrder
    <3> QED BY <3>1, <1>3, WechatKept
  <2> QED BY <2>1, <1>2, <1>5 DEF Wechat!InOrder
<1>9. (w_run.pc = "commit" /\ w_run.todo # {} => Wechat!Kept(Wechat!Lowest(w_run.todo)))'
  <2>1. w_run.todo # {} => m = Wechat!Lowest(w_run.todo)
    BY <1>1
  <2>2. Wechat!Lowest(w_run.todo)' = Wechat!Lowest(w_run.todo)
    BY <1>5 DEF Wechat!Lowest
  <2> QED BY <2>1, <2>2, <1>4, <1>5 DEF Wechat!Kept
<1>10. w_run'.todo \cup w_run'.again \subseteq 1..w_newest' /\ w_run'.again \subseteq Attached
  BY <1>0, <1>1, <1>2, <1>5
<1>11. w_run'.pc = "idle" <=> w_run'.todo \cup w_run'.again = {}
  BY <1>0, <1>5 DEF Wechat!CollectsInv
<1> QED BY <1>6, <1>7, <1>8, <1>9, <1>10, <1>11 DEF Wechat!CollectsInv

\* What has failed may have been stored all the same.
LEMMA WechatFails ==
    ASSUME Wechat!CollectsInv, Wechat!RequestFails PROVE Wechat!CollectsInv'
<1>0. Wechat!TypeOK /\ Wechat!Vouched /\ w_run.pc # "idle"
  BY DEF Wechat!CollectsInv, Wechat!RequestFails, Wechat!Lost
<1>1. /\ w_stored' = w_stored \/ w_stored' = w_stored \cup {Wechat!Current}
      /\ w_run' = [pc |-> "idle", todo |-> {}, again |-> {}, moved |-> FALSE]
      /\ UNCHANGED <<w_scope, w_start, w_newest, w_local, w_rewritten, w_ready, w_published,
                     w_receipts, w_cursor, w_replayed, w_missing, w_passed, w_straddled>>
  BY DEF Wechat!RequestFails, Wechat!Lost, Wechat!wechat, Wechat!history, Wechat!Idle
<1>2. Wechat!Current \in 1..w_newest
  BY <1>0, WechatNext
<1>3. Wechat!TypeOK'
  <2>1. w_run' \in [pc : {"idle", "ingest", "commit"}, todo : SUBSET Wechat!Messages,
                    again : SUBSET Wechat!Messages, moved : BOOLEAN]
    BY <1>1
  <2>2. w_stored' \subseteq 1..w_newest' /\ w_stored \subseteq w_stored'
    BY <1>1, <1>2, <1>0 DEF Wechat!TypeOK
  <2> QED BY <2>1, <2>2, <1>1, <1>0 DEF Wechat!TypeOK
<1>4. Wechat!Vouched'
  BY <1>1, <1>0 DEF Wechat!Vouched
<1>5. w_run'.pc = "idle" /\ w_run'.todo = {} /\ w_run'.again = {}
  BY <1>1
<1>6. Wechat!InOrder'
  BY <1>5 DEF Wechat!InOrder
<1> QED BY <1>3, <1>4, <1>5, <1>6 DEF Wechat!CollectsInv

\* A cursor moves to a message behind which all is kept, and the page goes on without it.
LEMMA WechatCommits ==
    ASSUME Wechat!CollectsInv, Wechat!CommitCursor PROVE Wechat!CollectsInv'
<1>0. /\ Wechat!TypeOK /\ Wechat!Vouched /\ Wechat!InOrder /\ w_run.pc = "commit"
      /\ w_run.again \subseteq Attached /\ N \in Nat /\ N >= 2
      /\ w_run.todo # {} => Wechat!Kept(Wechat!Lowest(w_run.todo))
  BY ServicesAssumption DEF Wechat!CollectsInv, Wechat!CommitCursor
<1>m. PICK m \in Wechat!Messages : m = Wechat!Current
  BY <1>0, WechatNext
<1>1. /\ m \in 1..w_newest
      /\ w_run.todo # {} => /\ m = Wechat!Lowest(w_run.todo) /\ m \in w_run.todo
                            /\ \A n \in w_run.todo : m <= n
      /\ w_run.todo = {} => m \in w_run.again
      /\ w_run.todo \subseteq 1..w_newest /\ w_run.again \subseteq 1..w_newest
      /\ w_newest \in 1..N /\ 1..w_newest \subseteq 1..N
  BY <1>0, <1>m, WechatNext
<1>2. /\ UNCHANGED <<w_scope, w_start, w_newest, w_local, w_rewritten, w_stored, w_ready, w_published,
                     w_missing, w_passed>>
      /\ \/ /\ w_run.todo # {} /\ w_receipts' = w_receipts \cup {m} /\ w_replayed' = w_replayed
            /\ \/ w_cursor' = m /\ w_straddled' = (w_straddled \/ w_run.moved)
               \/ UNCHANGED <<w_cursor, w_straddled>>
         \/ /\ w_run.todo = {} /\ w_replayed' = w_replayed \cup {m}
            /\ UNCHANGED <<w_receipts, w_cursor, w_straddled>>
  BY <1>m DEF Wechat!CommitCursor, Wechat!wechat, Wechat!rows
\* What is left of the collection.
<1> DEFINE todo == w_run.todo \ {m}
           again == IF w_run.todo # {} THEN w_run.again ELSE w_run.again \ {m}
<1>3. /\ Wechat!Rest \in [pc : {"idle", "ingest", "commit"}, todo : SUBSET Wechat!Messages,
                          again : SUBSET Wechat!Messages, moved : BOOLEAN]
      /\ Wechat!Rest.todo = todo /\ Wechat!Rest.again = again /\ Wechat!Rest.moved = w_run.moved
  <2>1. CASE w_run.todo # {}
    <3>1. Wechat!Rest = [w_run EXCEPT !.todo = w_run.todo \ {m}]
      BY <2>1, <1>m DEF Wechat!Rest
    <3> QED BY <3>1, <2>1, <1>0 DEF Wechat!TypeOK
  <2>2. CASE w_run.todo = {}
    <3>1. Wechat!Rest = [w_run EXCEPT !.again = w_run.again \ {m}]
      BY <2>2, <1>m DEF Wechat!Rest
    <3> QED BY <3>1, <2>2, <1>0 DEF Wechat!TypeOK
  <2> QED BY <2>1, <2>2
<1>4. /\ w_run' \in [pc : {"idle", "ingest", "commit"}, todo : SUBSET Wechat!Messages,
                     again : SUBSET Wechat!Messages, moved : BOOLEAN]
      /\ w_run'.pc # "commit"
      /\ w_run'.todo = todo /\ w_run'.again = again
      /\ w_run'.pc = "idle" <=> w_run'.todo \cup w_run'.again = {}
      /\ w_run'.moved = w_run.moved \/ w_run'.todo = {}
  <2> HIDE DEF todo, again
  <2>1. CASE todo \cup again = {}
    <3>1. w_run' = [pc |-> "idle", todo |-> {}, again |-> {}, moved |-> FALSE]
      BY <2>1, <1>3 DEF Wechat!CommitCursor, Wechat!Continue, Wechat!Idle
    <3> QED BY <3>1, <2>1
  <2>2. CASE todo \cup again # {}
    <3>1. w_run' = [Wechat!Rest EXCEPT !.pc = "ingest"]
      BY <2>2, <1>3 DEF Wechat!CommitCursor, Wechat!Continue
    <3> QED BY <3>1, <2>2, <1>3
  <2> QED BY <2>1, <2>2
<1>5. Wechat!TypeOK'
  <2>a. w_receipts \subseteq 1..w_newest /\ w_cursor \in 0..w_newest
    BY <1>0 DEF Wechat!TypeOK
  <2>b. m \in 0..w_newest
    BY <1>1, <1>0
  <2>c. w_newest' = w_newest
    BY <1>2
  <2>d. w_receipts' \subseteq 1..w_newest
    BY <2>a, <1>1, <1>2
  <2>e. w_cursor' \in 0..w_newest
    BY <2>a, <2>b, <1>2
  <2>1. w_receipts' \subseteq 1..w_newest' /\ w_cursor' \in 0..w_newest' /\ w_newest' = w_newest
    BY <2>c, <2>d, <2>e
  <2>2. w_replayed' \subseteq Attached
    BY <1>0, <1>1, <1>2 DEF Wechat!TypeOK
  <2> QED BY <2>1, <2>2, <1>2, <1>4, <1>0 DEF Wechat!TypeOK
<1>6. \A n \in Wechat!Messages : Wechat!Kept(n) => Wechat!Kept(n)'
  BY <1>2 DEF Wechat!Kept
<1>7. Wechat!Vouched'
  <2>1. CASE w_cursor' = w_cursor
    <3>1. w_straddled => w_straddled'
      BY <1>2
    <3> QED BY <3>1, <2>1, <1>2, <1>0 DEF Wechat!Vouched
  <2>2. CASE w_run.todo # {} /\ w_cursor' = m /\ w_straddled' = (w_straddled \/ w_run.moved)
    <3>1. ASSUME ~w_straddled', NEW n \in Wechat!Messages, w_start <= n, n <= m
          PROVE  Wechat!Kept(n)'
      <4>1. ~w_straddled /\ ~w_run.moved
        BY <2>2, <3>1
      <4>2. CASE n = m
        BY <2>2, <4>2, <1>0, <1>1, <1>6
      <4>3. CASE n # m
        <5>1. n < m
          BY <3>1, <4>3 DEF Wechat!Messages
        <5>2. n \notin w_run.todo
          BY <5>1, <2>2, <1>1 DEF Wechat!Messages
        <5> QED BY <5>1, <5>2, <4>1, <3>1, <2>2, <1>0, <1>1, <1>6 DEF Wechat!InOrder
      <4> QED BY <4>2, <4>3
    <3> QED BY <3>1, <2>2, <1>2 DEF Wechat!Vouched, Wechat!Kept
  <2> QED BY <2>1, <2>2, <1>2
<1>8. Wechat!InOrder'
  <2>1. ASSUME ~w_straddled', ~w_run'.moved, NEW n \in Wechat!Messages, NEW k \in Wechat!Messages,
               k \in todo, w_start <= n, n < k, n \notin todo
        PROVE  Wechat!Kept(n)'
    <3>a. w_run'.todo # {}
      BY <2>1, <1>4
    <3>b. ~w_run.moved
      BY <2>1, <1>4, <3>a
    <3>c. w_straddled => w_straddled'
      BY <1>2
    <3>e. ~w_straddled
      BY <2>1, <3>c
    <3>1. ~w_straddled /\ ~w_run.moved
      BY <3>b, <3>e
    <3>2. CASE n = m
      BY <2>1, <3>2, <1>0, <1>1, <1>6
    <3>3. CASE n # m
      BY <2>1, <3>1, <3>3, <1>0, <1>6 DEF Wechat!InOrder
    <3> QED BY <3>2, <3>3
  <2> HIDE DEF todo
  <2> QED BY <2>1, <1>2, <1>4 DEF Wechat!InOrder
<1>9. w_run'.todo \cup w_run'.again \subseteq 1..w_newest' /\ w_run'.again \subseteq Attached
  BY <1>0, <1>1, <1>2, <1>4
<1> QED BY <1>4, <1>5, <1>7, <1>8, <1>9 DEF Wechat!CollectsInv

LEMMA WechatStep ==
    ASSUME Wechat!CollectsInv, Wechat!Next PROVE Wechat!CollectsInv'
BY WechatOthers, WechatCollects, WechatIngests, WechatFails, WechatCommits DEF Wechat!Next

LEMMA WechatStart ==
    ASSUME Wechat!Init PROVE Wechat!CollectsInv
<1>0. N \in Nat /\ N >= 2 /\ Attached \subseteq 1..N
  BY ServicesAssumption
<1>1. /\ w_run.pc = "idle" /\ w_run.todo = {} /\ w_run.again = {}
      /\ w_run \in [pc : {"idle", "ingest", "commit"}, todo : SUBSET Wechat!Messages,
                    again : SUBSET Wechat!Messages, moved : BOOLEAN]
  BY DEF Wechat!Init, Wechat!Idle
<1>2. Wechat!TypeOK
  BY <1>0, <1>1 DEF Wechat!Init, Wechat!TypeOK, Wechat!Messages
<1>3. Wechat!Vouched
  BY <1>0 DEF Wechat!Init, Wechat!Vouched, Wechat!Messages
<1>4. Wechat!InOrder
  BY <1>1 DEF Wechat!InOrder
<1> QED BY <1>1, <1>2, <1>3, <1>4 DEF Wechat!CollectsInv

LEMMA WechatStill ==
    ASSUME Wechat!CollectsInv, UNCHANGED wechatVars PROVE Wechat!CollectsInv'
<1> USE DEF wechatVars
<1>1. Wechat!TypeOK' /\ Wechat!Vouched'
  BY DEF Wechat!CollectsInv, Wechat!TypeOK, Wechat!Vouched
<1>2. Wechat!InOrder'
  BY DEF Wechat!CollectsInv, Wechat!InOrder, Wechat!Kept
<1>3. (w_run.pc = "commit" /\ w_run.todo # {} => Wechat!Kept(Wechat!Lowest(w_run.todo)))'
  BY DEF Wechat!CollectsInv, Wechat!Kept, Wechat!Lowest
<1> QED BY <1>1, <1>2, <1>3 DEF Wechat!CollectsInv
=============================================================================
