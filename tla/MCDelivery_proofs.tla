-------------------------- MODULE MCDelivery_proofs --------------------------
(* Theorems about what has to arrive: the safety properties of MCDelivery     *)
(* about the desktop of the owner, the event stream and the parse lane of the *)
(* RAG service, for any operations, workers, events and documents and any     *)
(* number of faults.  Each component has an inductive invariant of its own,   *)
(* named in its module (DesktopInv, GroupInv, ParseInv).                      *)
EXTENDS MCDelivery, TLAPS, FiniteSetTheorems, SequenceTheorems, WellFoundedInduction

-----------------------------------------------------------------------------
\* A set of natural numbers that is not empty has a least element: below it there are
\* fewer than below any other.
LEMMA LeastOf ==
    ASSUME NEW S \in SUBSET Nat, S # {}
    PROVE  \E t \in S : \A u \in S : t <= u
<1> DEFINE Below(x) == {y \in S : y < x}
           F == {Below(x) : x \in S}
<1>1. ASSUME NEW x \in S PROVE Below(x) \in FiniteSubsetsOf(Nat)
  <2>1. Below(x) \in SUBSET Nat /\ x \in Nat
    OBVIOUS
  <2>a. ASSUME NEW y \in Below(x) PROVE y <= x
    <3>1. y \in Nat /\ y < x
      OBVIOUS
    <3> HIDE DEF Below
    <3> QED BY <3>1, <2>1
  <2>2. IsFiniteSet(Below(x))
    BY <2>1, <2>a, FS_BoundedSetOfNaturals
  <2> QED BY <2>1, <2>2 DEF FiniteSubsetsOf
<1>2. F \subseteq FiniteSubsetsOf(Nat) /\ F # {}
  BY <1>1
<1>3. PICK m \in F : \A y \in F : ~ (<<y, m>> \in StrictSubsetOrdering(Nat))
  <2> HIDE DEF F
  <2> QED BY <1>2, FS_StrictSubsetOrderingWellFounded, WFMin
<1>4. PICK x \in S : m = Below(x)
  BY <1>3
<1>5. ASSUME NEW y \in S PROVE x <= y
  <2>1. SUFFICES ASSUME y < x PROVE FALSE
    OBVIOUS
  <2>a. x \in Nat /\ y \in Nat
    OBVIOUS
  <2>b. ASSUME NEW z \in Below(y) PROVE z \in m
    <3>1. z \in S /\ z \in Nat /\ z < y
      OBVIOUS
    <3>2. z < x
      BY <3>1, <2>1, <2>a
    <3> QED BY <3>1, <3>2, <1>4
  <2>2. Below(y) \subseteq m /\ y \in m /\ y \notin Below(y) /\ m \subseteq Nat
    <3>1. Below(y) \subseteq m
      BY <2>b
    <3>2. y \in m
      BY <1>4, <2>1
    <3>3. y \notin Below(y)
      BY <2>a
    <3>4. m \subseteq Nat
      BY <1>4
    <3> QED BY <3>1, <3>2, <3>3, <3>4
  <2>3. <<Below(y), m>> \in StrictSubsetOrdering(Nat)
    BY <2>2 DEF StrictSubsetOrdering
  <2> QED BY <1>3, <2>3
<1> QED BY <1>5

LEMMA Greatest ==
    ASSUME NEW S \in SUBSET Nat, NEW b \in Nat, S # {}, \A s \in S : s <= b
    PROVE  \E m \in S : \A s \in S : s <= m
<1> DEFINE T == {b - s : s \in S}
<1>1. T \in SUBSET Nat /\ T # {}
  <2>1. ASSUME NEW s \in S PROVE b - s \in Nat
    OBVIOUS
  <2>2. PICK s \in S : TRUE
    OBVIOUS
  <2> QED BY <2>1, <2>2, SMTT(30)
<1>2. PICK t \in T : \A u \in T : t <= u
  <2> HIDE DEF T
  <2> QED BY <1>1, LeastOf
<1>3. PICK m \in S : t = b - m
  BY <1>2
<1>4. ASSUME NEW s \in S PROVE s <= m
  <2>1. b - m <= b - s
    BY <1>2, <1>3
  <2> QED BY <2>1
<1> QED BY <1>4

-----------------------------------------------------------------------------
(* The desktop. *)

\* What the invariant says of one operation.
LEMMA DesktopOf ==
    ASSUME Desktop!DesktopInv, NEW p \in Desktop!Ops
    PROVE  /\ Desktop!Once(p) /\ Desktop!Open(p) /\ Desktop!Untouched(p)
           /\ Desktop!Executing(p) /\ Desktop!Outlived(p)
BY DEF Desktop!DesktopInv, Desktop!OnceAndInTheOpen

\* The operations that a step leaves alone.
LEMMA DesktopElsewhere ==
    ASSUME Desktop!DesktopInv, NEW p \in Desktop!Ops,
           d_row'[p] = d_row[p], d_effect'[p] = d_effect[p], d_agent'[p] = d_agent[p],
           d_done'[p] = d_done[p], p \in d_aged' <=> p \in d_aged,
           d_lost \subseteq d_lost', d_runner'.op # p \/ d_runner' = d_runner
    PROVE  (Desktop!Once(p) /\ Desktop!Open(p) /\ Desktop!Untouched(p)
               /\ Desktop!Executing(p) /\ Desktop!Outlived(p))'
BY DesktopOf DEF Desktop!Once, Desktop!Open, Desktop!Untouched, Desktop!Executing, Desktop!Outlived

LEMMA DesktopAll ==
    ASSUME Desktop!TypeOK', Desktop!Held',
           \A p \in Desktop!Ops : (Desktop!Once(p) /\ Desktop!Open(p) /\ Desktop!Untouched(p)
                                      /\ Desktop!Executing(p) /\ Desktop!Outlived(p))'
    PROVE  Desktop!DesktopInv'
BY DEF Desktop!DesktopInv, Desktop!OnceAndInTheOpen, Desktop!Ops

\* A lost message leaves the rest as it is, and is remembered.
LEMMA DesktopLoses ==
    ASSUME Desktop!TypeOK, NEW o \in Desktop!Ops, Desktop!Lose(o)
    PROVE  /\ d_faults' \in 0..(MaxFaults + 1)
           /\ d_lost' = d_lost \cup {o} /\ d_lost' \subseteq Desktop!Ops
BY DeliveryAssumption DEF Desktop!TypeOK, Desktop!Lose

\* Create inserts a row that nobody has touched.
LEMMA DesktopCreates ==
    ASSUME Desktop!DesktopInv, NEW o \in Desktop!Ops, Desktop!Create(o) PROVE Desktop!DesktopInv'
<1> USE DEF Desktop!Create
<1>1. Desktop!TypeOK' /\ Desktop!Held'
  BY DEF Desktop!DesktopInv, Desktop!TypeOK, Desktop!Held, Desktop!Waiting, Desktop!Idle
<1>2. ASSUME NEW p \in Desktop!Ops, p # o
      PROVE  (Desktop!Once(p) /\ Desktop!Open(p) /\ Desktop!Untouched(p) /\ Desktop!Executing(p) /\ Desktop!Outlived(p))'
  BY <1>2, DesktopElsewhere DEF Desktop!DesktopInv, Desktop!TypeOK
<1>3. (Desktop!Once(o) /\ Desktop!Open(o) /\ Desktop!Untouched(o) /\ Desktop!Executing(o) /\ Desktop!Outlived(o))'
  <2>1. /\ d_row[o] = "absent" /\ d_row'[o] = "pending" /\ d_agent'[o] = "polling"
        /\ d_effect'[o] # "committed"
    BY DEF Desktop!DesktopInv, Desktop!TypeOK
  <2>2. d_agent[o] = "unasked" /\ d_done[o] = 0 /\ d_runner.op # o /\ o \notin d_aged
    BY <2>1, DesktopOf DEF Desktop!Outlived, Desktop!Untouched
  <2>3. d_done'[o] = 0 /\ d_runner'.op # o /\ o \notin d_aged'
    BY <2>2
  <2> QED BY <2>1, <2>3 DEF Desktop!Once, Desktop!Open, Desktop!Untouched, Desktop!Executing, Desktop!Outlived,
             Desktop!Waiting
<1> QED BY <1>1, <1>2, <1>3, DesktopAll

\* What the call learns of its row.
LEMMA DesktopPolls ==
    ASSUME Desktop!DesktopInv, NEW o \in Desktop!Ops, Desktop!Poll(o) PROVE Desktop!DesktopInv'
<1> USE DEF Desktop!Poll
<1>1. Desktop!TypeOK' /\ Desktop!Held'
  BY DEF Desktop!DesktopInv, Desktop!TypeOK, Desktop!Held, Desktop!Answer, Desktop!Waiting, Desktop!Final, Desktop!Settled
<1>2. ASSUME NEW p \in Desktop!Ops, p # o
      PROVE  (Desktop!Once(p) /\ Desktop!Open(p) /\ Desktop!Untouched(p) /\ Desktop!Executing(p) /\ Desktop!Outlived(p))'
  BY <1>2, DesktopElsewhere DEF Desktop!DesktopInv, Desktop!TypeOK
<1>3. (Desktop!Once(o) /\ Desktop!Open(o) /\ Desktop!Untouched(o) /\ Desktop!Executing(o) /\ Desktop!Outlived(o))'
  <2>1. d_agent'[o] = Desktop!Answer(o) /\ d_agent'[o] # "polling" /\ d_agent[o] = "polling"
    BY DEF Desktop!DesktopInv, Desktop!TypeOK
  <2>2. /\ d_row[o] \notin {"absent", "pending", "delivered"}
        /\ d_agent'[o] \in {"done", "login", "error"}
        /\ d_agent'[o] = "done" => d_row[o] = "completed"
    BY <2>1 DEF Desktop!Answer, Desktop!DesktopInv, Desktop!TypeOK, Desktop!Waiting, Desktop!Final, Desktop!Settled
  <2> QED BY <2>1, <2>2, DesktopOf DEF Desktop!Once, Desktop!Open, Desktop!Untouched, Desktop!Executing, Desktop!Outlived,
             Desktop!Waiting, Desktop!Idle, Desktop!Opens
<1> QED BY <1>1, <1>2, <1>3, DesktopAll

\* The deadline, of a call that still waits: a write is filed for a review.
LEMMA DesktopDeadline ==
    ASSUME Desktop!DesktopInv, NEW o \in Desktop!Ops, Desktop!Deadline(o) PROVE Desktop!DesktopInv'
<1> USE DEF Desktop!Deadline, Desktop!CompleteTask
<1>1. Desktop!TypeOK' /\ Desktop!Held'
  BY DEF Desktop!DesktopInv, Desktop!TypeOK, Desktop!Held, Desktop!Waiting, Desktop!Final, Desktop!Settled, Desktop!Idle
<1>2. ASSUME NEW p \in Desktop!Ops, p # o
      PROVE  (Desktop!Once(p) /\ Desktop!Open(p) /\ Desktop!Untouched(p) /\ Desktop!Executing(p) /\ Desktop!Outlived(p))'
  BY <1>2, DesktopElsewhere DEF Desktop!DesktopInv, Desktop!TypeOK
<1>3. (Desktop!Once(o) /\ Desktop!Open(o) /\ Desktop!Untouched(o) /\ Desktop!Executing(o) /\ Desktop!Outlived(o))'
  <2>1. /\ d_agent[o] = "polling" /\ d_agent'[o] \in {"error", "unavailable"}
        /\ \/ d_row[o] \in Desktop!Settled /\ d_row'[o] = d_row[o] /\ d_effect'[o] = d_effect[o]
           \/ /\ d_row[o] \notin Desktop!Settled /\ d_effect'[o] # "committed"
              /\ d_row'[o] = IF o \in WriteOperations THEN "needs_review" ELSE "failed"
    BY DEF Desktop!DesktopInv, Desktop!TypeOK
  <2>2. d_row[o] # "absent" /\ o \notin d_aged /\ d_row[o] # "expired"
    BY <2>1, DesktopOf DEF Desktop!Outlived, Desktop!Open
  <2>3. d_done'[o] = d_done[o] /\ d_lost' = d_lost /\ d_runner' = d_runner /\ d_aged' = d_aged
    OBVIOUS
  <2>4. CASE d_row[o] \in Desktop!Settled
    BY <2>1, <2>2, <2>3, <2>4, DesktopOf DEF Desktop!Once, Desktop!Open, Desktop!Untouched, Desktop!Executing, Desktop!Outlived,
       Desktop!Waiting, Desktop!Settled, Desktop!Idle, Desktop!Opens
  <2>5. CASE d_row[o] \notin Desktop!Settled
    BY <2>1, <2>2, <2>3, <2>5, DesktopOf DEF Desktop!Once, Desktop!Open, Desktop!Untouched, Desktop!Executing, Desktop!Outlived,
       Desktop!Waiting, Desktop!Settled, Desktop!Idle, Desktop!Opens
  <2> QED BY <2>4, <2>5
<1> QED BY <1>1, <1>2, <1>3, DesktopAll

\* The process of the call stops: the row is left to itself, and to the desktop.
LEMMA DesktopAgentStops ==
    ASSUME Desktop!DesktopInv, NEW o \in Desktop!Ops, Desktop!AgentStops(o) PROVE Desktop!DesktopInv'
<1> USE DEF Desktop!AgentStops
<1>0. d_faults' \in 0..(MaxFaults + 1) /\ d_lost' = d_lost \cup {o} /\ d_lost' \subseteq Desktop!Ops
  BY DesktopLoses DEF Desktop!DesktopInv
<1>1. Desktop!TypeOK' /\ Desktop!Held'
  BY <1>0 DEF Desktop!DesktopInv, Desktop!TypeOK, Desktop!Held
<1>2. ASSUME NEW p \in Desktop!Ops, p # o
      PROVE  (Desktop!Once(p) /\ Desktop!Open(p) /\ Desktop!Untouched(p) /\ Desktop!Executing(p) /\ Desktop!Outlived(p))'
  BY <1>2, DesktopElsewhere, <1>0 DEF Desktop!DesktopInv, Desktop!TypeOK
<1>3. (Desktop!Once(o) /\ Desktop!Open(o) /\ Desktop!Untouched(o) /\ Desktop!Executing(o) /\ Desktop!Outlived(o))'
  <2>1. d_agent[o] = "polling" /\ d_agent'[o] = "gone" /\ o \in d_lost'
    BY <1>0 DEF Desktop!DesktopInv, Desktop!TypeOK
  <2>2. d_row' = d_row /\ d_done' = d_done /\ d_effect' = d_effect /\ d_runner' = d_runner /\ d_aged' = d_aged
    OBVIOUS
  <2> QED BY <2>1, <2>2, DesktopOf DEF Desktop!Once, Desktop!Open, Desktop!Untouched, Desktop!Executing, Desktop!Outlived
<1> QED BY <1>1, <1>2, <1>3, DesktopAll

\* A row outlives its call.
LEMMA DesktopAges ==
    ASSUME Desktop!DesktopInv, NEW o \in Desktop!Ops, Desktop!Age(o) PROVE Desktop!DesktopInv'
<1> USE DEF Desktop!Age
<1>1. Desktop!TypeOK' /\ Desktop!Held'
  BY DEF Desktop!DesktopInv, Desktop!TypeOK, Desktop!Held
<1>2. ASSUME NEW p \in Desktop!Ops, p # o
      PROVE  (Desktop!Once(p) /\ Desktop!Open(p) /\ Desktop!Untouched(p) /\ Desktop!Executing(p) /\ Desktop!Outlived(p))'
  BY <1>2, DesktopElsewhere
<1>3. (Desktop!Once(o) /\ Desktop!Open(o) /\ Desktop!Untouched(o) /\ Desktop!Executing(o) /\ Desktop!Outlived(o))'
  <2>1. d_agent[o] # "polling" /\ d_row[o] # "absent"
    OBVIOUS
  <2>2. /\ d_row' = d_row /\ d_done' = d_done /\ d_effect' = d_effect /\ d_runner' = d_runner
        /\ d_agent' = d_agent /\ d_lost' = d_lost
    OBVIOUS
  <2> QED BY <2>1, <2>2, DesktopOf DEF Desktop!Once, Desktop!Open, Desktop!Untouched, Desktop!Executing, Desktop!Outlived
<1> QED BY <1>1, <1>2, <1>3, DesktopAll

\* A row that a claim leaves behind: expired if it waits for too long.
LEMMA DesktopExpires ==
    ASSUME Desktop!DesktopInv, NEW p \in Desktop!Ops,
           d_row'[p] = (IF Desktop!Expired(p) THEN "expired" ELSE d_row[p]),
           d_effect' = d_effect, d_agent' = d_agent, d_done' = d_done, d_aged' = d_aged,
           d_lost \subseteq d_lost', d_runner = Desktop!Idle, d_runner'.op # p
    PROVE  (Desktop!Once(p) /\ Desktop!Open(p) /\ Desktop!Untouched(p) /\ Desktop!Executing(p) /\ Desktop!Outlived(p))'
<1>1. CASE ~Desktop!Expired(p)
  BY <1>1, DesktopElsewhere
<1>2. CASE Desktop!Expired(p)
  <2>1. d_row[p] \in Desktop!Waiting /\ p \in d_aged /\ d_row'[p] = "expired"
    BY <1>2 DEF Desktop!Expired
  <2>2. d_effect[p] # "committed" /\ (p \in WriteOperations => p \in d_lost)
    BY <2>1, DesktopOf DEF Desktop!Open, Desktop!Outlived, Desktop!Waiting
  <2>3. d_agent[p] \notin {"unasked", "polling"}
    BY <2>1, DesktopOf DEF Desktop!Outlived
  <2> QED BY <2>1, <2>2, <2>3, DesktopOf DEF Desktop!Once, Desktop!Open, Desktop!Untouched, Desktop!Executing, Desktop!Outlived, Desktop!Waiting
<1> QED BY <1>1, <1>2

LEMMA DesktopClaims ==
    ASSUME Desktop!DesktopInv, NEW o \in Desktop!Ops, Desktop!Claim(o) PROVE Desktop!DesktopInv'
<1> USE DEF Desktop!Claim, Desktop!Reliably
<1>0. d_faults' \in 0..(MaxFaults + 1) /\ d_lost' \subseteq Desktop!Ops /\ d_lost \subseteq d_lost'
  BY DesktopLoses DEF Desktop!DesktopInv, Desktop!TypeOK
<1>. DEFINE Took == [at |-> "claimed", op |-> o]
<1>t. d_runner' \in {Took, Desktop!Idle} /\ o \in 1..Operations
  BY DEF Desktop!Ops
<1>1. Desktop!TypeOK' /\ Desktop!Held'
  BY <1>0, <1>t DEF Desktop!DesktopInv, Desktop!TypeOK, Desktop!Held, Desktop!Waiting, Desktop!Final, Desktop!Settled, Desktop!Idle,
     Desktop!Expire
<1>2. ASSUME NEW p \in Desktop!Ops, p # o
      PROVE  (Desktop!Once(p) /\ Desktop!Open(p) /\ Desktop!Untouched(p) /\ Desktop!Executing(p) /\ Desktop!Outlived(p))'
  <2>1. d_row'[p] = IF Desktop!Expired(p) THEN "expired" ELSE d_row[p]
    BY <1>2 DEF Desktop!Expire
  <2>2. d_runner'.op # p
    BY <1>2, <1>t DEF Desktop!Idle, Desktop!Ops
  <2> QED BY <1>0, <2>1, <2>2, DesktopExpires
<1>3. (Desktop!Once(o) /\ Desktop!Open(o) /\ Desktop!Untouched(o) /\ Desktop!Executing(o) /\ Desktop!Outlived(o))'
  <2>1. d_row[o] = "pending" /\ o \notin d_aged /\ d_row'[o] = "delivered"
    BY DEF Desktop!Claimed, Desktop!Claimable, Desktop!Expire
  <2>2. d_done[o] = 0 /\ d_effect[o] # "committed" /\ d_agent[o] # "unasked"
    BY <2>1, DesktopOf DEF Desktop!Untouched, Desktop!Outlived, Desktop!Open
  <2>3. o \in WriteOperations /\ d_agent[o] # "polling" => o \in d_lost'
    BY <1>0, <2>1, DesktopOf DEF Desktop!Outlived, Desktop!Waiting
  <2>4. d_runner'.op = o => d_runner'.at = "claimed"
    BY <1>t DEF Desktop!Idle, Desktop!Ops
  <2>5. d_agent[o] # "done"
    BY <2>2, DesktopOf DEF Desktop!Once
  <2> QED BY <1>t, <2>1, <2>2, <2>3, <2>4, <2>5 DEF Desktop!Once, Desktop!Open, Desktop!Untouched, Desktop!Executing, Desktop!Outlived, Desktop!Idle
<1> QED BY <1>1, <1>2, <1>3, DesktopAll

LEMMA DesktopClaimsNothing ==
    ASSUME Desktop!DesktopInv, Desktop!ClaimNothing PROVE Desktop!DesktopInv'
<1> USE DEF Desktop!ClaimNothing
<1>1. Desktop!TypeOK' /\ Desktop!Held'
  BY DEF Desktop!DesktopInv, Desktop!TypeOK, Desktop!Held, Desktop!Final, Desktop!Settled, Desktop!Idle, Desktop!Expire
<1>2. ASSUME NEW p \in Desktop!Ops
      PROVE  (Desktop!Once(p) /\ Desktop!Open(p) /\ Desktop!Untouched(p) /\ Desktop!Executing(p) /\ Desktop!Outlived(p))'
  BY DesktopExpires DEF Desktop!Expire, Desktop!Idle, Desktop!Ops
<1> QED BY <1>1, <1>2, DesktopAll

\* The operation that the desktop holds.
LEMMA DesktopHolds ==
    ASSUME Desktop!DesktopInv, d_runner # Desktop!Idle
    PROVE  d_runner.op \in Desktop!Ops /\ d_runner.at # "idle"
BY DEF Desktop!DesktopInv, Desktop!Held

\* The sidecar executes an operation that was claimed, and that is the only time.
LEMMA DesktopExecutes ==
    ASSUME Desktop!DesktopInv, NEW o, o = d_runner.op, Desktop!Execute PROVE Desktop!DesktopInv'
<1> USE DEF Desktop!Execute, Desktop!Reliably
<1>h. o \in Desktop!Ops /\ d_runner.at = "claimed"
  BY DesktopHolds DEF Desktop!Idle
<1>0. d_faults' \in 0..(MaxFaults + 1) /\ d_lost' \subseteq Desktop!Ops /\ d_lost \subseteq d_lost'
  BY <1>h, DesktopLoses DEF Desktop!DesktopInv, Desktop!TypeOK
<1>a. /\ d_row[o] \notin {"absent", "pending"} /\ d_done[o] = 0 /\ (o \in WriteOperations => d_row[o] # "failed")
      /\ d_row[o] # "completed"
  BY <1>h, DesktopOf DEF Desktop!Untouched, Desktop!Executing, Desktop!Outlived
<1>t. d_done \in [Desktop!Ops -> 0..Operations] /\ 1 \in 0..Operations /\ d_done[o] + 1 = 1
  BY <1>a, DeliveryAssumption DEF Desktop!DesktopInv, Desktop!TypeOK
<1>b. /\ d_runner' \in {[at |-> "completed", op |-> o], [at |-> "failed", op |-> o], [at |-> "waiting_login", op |-> o]}
      /\ d_done' = d_done \/ d_done' = [d_done EXCEPT ![o] = 1]
      /\ d_runner'.at = "completed" => d_done' = [d_done EXCEPT ![o] = 1]
      /\ d_runner'.at = "failed" => d_done' = d_done \/ o \in d_lost'
      /\ d_runner'.at = "waiting_login" => o \in Desktop!Opens
  BY <1>t DEF Desktop!Lose
<1>d. /\ d_done'[o] \in {0, 1} /\ d_done' \in [Desktop!Ops -> 0..Operations]
      /\ \A p \in Desktop!Ops : p # o => d_done'[p] = d_done[p]
      /\ d_runner'.at = "completed" => d_done'[o] = 1
      /\ d_runner'.at = "failed" /\ d_done'[o] = 1 => o \in d_lost'
  BY <1>a, <1>b, <1>h, <1>t
<1>1. Desktop!TypeOK' /\ Desktop!Held'
  BY <1>0, <1>b, <1>d, <1>h DEF Desktop!DesktopInv, Desktop!TypeOK, Desktop!Held, Desktop!Ops
<1>2. ASSUME NEW p \in Desktop!Ops, p # o
      PROVE  (Desktop!Once(p) /\ Desktop!Open(p) /\ Desktop!Untouched(p) /\ Desktop!Executing(p) /\ Desktop!Outlived(p))'
  BY <1>0, <1>b, <1>d, <1>2, DesktopElsewhere
<1>3. (Desktop!Once(o) /\ Desktop!Open(o) /\ Desktop!Untouched(o) /\ Desktop!Executing(o) /\ Desktop!Outlived(o))'
  <2>1. d_row'[o] = d_row[o] /\ d_agent'[o] = d_agent[o] /\ d_effect'[o] = d_effect[o] /\ d_aged' = d_aged
    OBVIOUS
  <2>2. d_effect[o] # "committed" /\ d_agent[o] # "done" /\ (d_row[o] = "expired" => d_agent[o] # "polling")
    BY <1>a, <1>h, DesktopOf DEF Desktop!Open, Desktop!Once
  <2>3. Desktop!Outlived(o)'
    BY <1>0, <1>a, <1>b, <1>d, <1>h, <2>1, DesktopOf DEF Desktop!Outlived
  <2>4. o \in WriteOperations /\ d_row[o] \in {"failed", "expired"} => o \in d_lost'
    BY <1>0, <1>a, <1>h, DesktopOf DEF Desktop!Outlived
  <2> QED BY <1>a, <1>b, <1>d, <2>1, <2>2, <2>3, <2>4 DEF Desktop!Once, Desktop!Open, Desktop!Untouched, Desktop!Executing
<1> QED BY <1>1, <1>2, <1>3, DesktopAll

\* A report of what was done: it fills a row that is not settled, or gives way to a report
\* that it failed.
LEMMA DesktopReports ==
    ASSUME Desktop!DesktopInv, NEW o, o = d_runner.op, Desktop!Report PROVE Desktop!DesktopInv'
<1>h. o \in Desktop!Ops /\ d_runner.at \in {"completed", "waiting_login"}
  BY DesktopHolds DEF Desktop!Report, Desktop!Idle
<1>0. d_faults' \in 0..(MaxFaults + 1) /\ d_lost' \subseteq Desktop!Ops /\ d_lost \subseteq d_lost'
  BY <1>h, DesktopLoses DEF Desktop!Report, Desktop!Reliably, Desktop!DesktopInv, Desktop!TypeOK
<1>a. /\ d_row[o] \notin {"absent", "pending"} /\ (o \in WriteOperations => d_row[o] # "failed")
      /\ d_runner.at = "completed" => d_done[o] = 1
      /\ d_runner.at = "waiting_login" => o \notin WriteOperations
  BY <1>h, DesktopOf DEF Desktop!Untouched, Desktop!Executing, Desktop!Opens
<1>r. d_runner' \in {Desktop!Idle, [at |-> "failed", op |-> o]}
  BY <1>h DEF Desktop!Report, Desktop!DesktopInv, Desktop!Held, Desktop!Idle
<1>b. /\ d_row' = d_row \/ d_row' = [d_row EXCEPT ![o] = d_runner.at]
      /\ d_effect' = d_effect \/ d_effect' = [d_effect EXCEPT ![o] = Desktop!Reported(o)]
      /\ Desktop!Reported(o) \in {"none", "committed", "pending"}
  BY DEF Desktop!Report, Desktop!CompleteTask, Desktop!Reported
<1>t. d_row \in [Desktop!Ops -> Desktop!Waiting \cup Desktop!Final \cup {"absent"}]
      /\ d_effect \in [Desktop!Ops -> {"none", "pending", "committed", "unknown"}]
  BY DEF Desktop!DesktopInv, Desktop!TypeOK
<1>i. Desktop!Idle.op # o /\ Desktop!Idle.op = 0
  BY <1>h DEF Desktop!Idle, Desktop!Ops
<1>c. /\ \/ d_row'[o] = d_row[o] /\ d_effect'[o] = d_effect[o]
         \/ /\ d_row[o] \notin Desktop!Settled /\ d_row'[o] = d_runner.at
            /\ d_effect'[o] = Desktop!Reported(o)
      /\ d_runner'.op = o => d_row[o] \in Desktop!Settled \/ o \in d_lost'
  <2>1. CASE /\ Desktop!CompleteTask(o, d_runner.at, Desktop!Reported(o))
             /\ d_runner' = (IF d_row[o] \in Desktop!Settled THEN [at |-> "failed", op |-> o] ELSE Desktop!Idle)
    BY <2>1, <1>h, <1>i, <1>t DEF Desktop!CompleteTask
  <2>2. CASE Desktop!CompleteTask(o, d_runner.at, Desktop!Reported(o)) /\ Desktop!Lose(o)
    BY <2>2, <1>h, <1>t DEF Desktop!CompleteTask, Desktop!Lose
  <2>3. CASE Desktop!Lose(o) /\ UNCHANGED <<d_row, d_effect>>
    BY <2>3, <1>h DEF Desktop!Lose
  <2> QED BY <2>1, <2>2, <2>3 DEF Desktop!Report
<1>1. Desktop!TypeOK' /\ Desktop!Held'
  <2>1. d_runner.at \in Desktop!Waiting \cup Desktop!Final
    BY <1>h DEF Desktop!Waiting, Desktop!Final, Desktop!Settled
  <2>2. /\ d_row' \in [Desktop!Ops -> Desktop!Waiting \cup Desktop!Final \cup {"absent"}]
        /\ d_effect' \in [Desktop!Ops -> {"none", "pending", "committed", "unknown"}]
    BY <1>b, <1>t, <2>1
  <2>3. Desktop!Held'
    BY <1>h, <1>r, DeliveryAssumption DEF Desktop!Held, Desktop!Idle, Desktop!Ops
  <2>4. UNCHANGED <<d_aged, d_agent, d_done>>
    BY DEF Desktop!Report
  <2> QED BY <1>0, <2>2, <2>3, <2>4 DEF Desktop!DesktopInv, Desktop!TypeOK, Desktop!Held
<1>2. ASSUME NEW p \in Desktop!Ops, p # o
      PROVE  (Desktop!Once(p) /\ Desktop!Open(p) /\ Desktop!Untouched(p) /\ Desktop!Executing(p) /\ Desktop!Outlived(p))'
  <2>1. d_row'[p] = d_row[p] /\ d_effect'[p] = d_effect[p]
    BY <1>b, <1>t, <1>2
  <2>2. d_runner'.op # p
    BY <1>r, <1>2 DEF Desktop!Idle, Desktop!Ops
  <2> QED BY <1>0, <1>2, <2>1, <2>2, DesktopElsewhere DEF Desktop!Report
<1>3. (Desktop!Once(o) /\ Desktop!Open(o) /\ Desktop!Untouched(o) /\ Desktop!Executing(o) /\ Desktop!Outlived(o))'
  <2>1. /\ d_done' = d_done /\ d_agent' = d_agent /\ d_aged' = d_aged
        /\ d_runner'.op = o => d_runner'.at = "failed"
    BY <1>r, <1>i DEF Desktop!Report
  <2>2. CASE d_row'[o] = d_row[o] /\ d_effect'[o] = d_effect[o]
    BY <1>0, <1>a, <1>c, <1>h, <2>1, <2>2, DesktopOf DEF Desktop!Once, Desktop!Open, Desktop!Untouched, Desktop!Executing, Desktop!Outlived
  <2>3. CASE d_row[o] \notin Desktop!Settled /\ d_row'[o] = d_runner.at /\ d_effect'[o] = Desktop!Reported(o)
    <3>1. /\ d_row'[o] \in {"completed", "waiting_login"}
          /\ d_effect'[o] = "committed" => d_row'[o] = "completed" /\ d_done[o] = 1
      BY <1>a, <1>h, <2>3 DEF Desktop!Reported
    <3>2. d_agent[o] # "unasked" /\ d_done[o] \in {0, 1}
      BY <1>a, <1>h, DesktopOf DEF Desktop!Outlived
    <3> QED BY <1>0, <1>a, <1>c, <1>h, <2>1, <2>3, <3>1, <3>2, DesktopOf DEF Desktop!Once, Desktop!Open, Desktop!Untouched, Desktop!Executing, Desktop!Outlived, Desktop!Settled, Desktop!Waiting
  <2> QED BY <1>c, <2>2, <2>3
<1> QED BY <1>1, <1>2, <1>3, DesktopAll

\* A report that it failed, which may be of an operation that was done.
LEMMA DesktopReportsFailure ==
    ASSUME Desktop!DesktopInv, NEW o, o = d_runner.op, Desktop!ReportFailure PROVE Desktop!DesktopInv'
<1> USE DEF Desktop!ReportFailure, Desktop!Reliably, Desktop!CompleteTask
<1>h. o \in Desktop!Ops /\ d_runner.at = "failed"
  BY DesktopHolds DEF Desktop!Idle
<1>0. d_faults' \in 0..(MaxFaults + 1) /\ d_lost' \subseteq Desktop!Ops /\ d_lost \subseteq d_lost'
  BY <1>h, DesktopLoses DEF Desktop!DesktopInv, Desktop!TypeOK
<1>a. /\ d_row[o] \notin {"absent", "pending"}
      /\ d_done[o] = 1 /\ d_row[o] \notin Desktop!Settled => o \in d_lost
  BY <1>h, DesktopOf DEF Desktop!Untouched, Desktop!Executing
<1>b. /\ d_row' = d_row \/ d_row' = [d_row EXCEPT ![o] = "failed"]
      /\ d_effect' = d_effect \/ d_effect' = [d_effect EXCEPT ![o] = Desktop!Reported(o)]
      /\ Desktop!Reported(o) \in {"none", "pending"}
  BY <1>h DEF Desktop!Reported
<1>t. d_row \in [Desktop!Ops -> Desktop!Waiting \cup Desktop!Final \cup {"absent"}]
      /\ d_effect \in [Desktop!Ops -> {"none", "pending", "committed", "unknown"}]
  BY DEF Desktop!DesktopInv, Desktop!TypeOK
<1>c. \/ d_row'[o] = d_row[o] /\ d_effect'[o] = d_effect[o]
      \/ d_row[o] \notin Desktop!Settled /\ d_row'[o] = "failed" /\ d_effect'[o] # "committed"
  BY <1>h, <1>b DEF Desktop!DesktopInv, Desktop!TypeOK
<1>1. Desktop!TypeOK' /\ Desktop!Held'
  <2>1. "failed" \in Desktop!Waiting \cup Desktop!Final
    BY DEF Desktop!Final, Desktop!Settled
  <2>2. /\ d_row' \in [Desktop!Ops -> Desktop!Waiting \cup Desktop!Final \cup {"absent"}]
        /\ d_effect' \in [Desktop!Ops -> {"none", "pending", "committed", "unknown"}]
    BY <1>b, <1>t, <2>1
  <2>3. Desktop!Held'
    BY DeliveryAssumption DEF Desktop!Held, Desktop!Idle
  <2>4. UNCHANGED <<d_aged, d_agent, d_done>>
    OBVIOUS
  <2> QED BY <1>0, <2>2, <2>3, <2>4 DEF Desktop!DesktopInv, Desktop!TypeOK, Desktop!Held
<1>2. ASSUME NEW p \in Desktop!Ops, p # o
      PROVE  (Desktop!Once(p) /\ Desktop!Open(p) /\ Desktop!Untouched(p) /\ Desktop!Executing(p) /\ Desktop!Outlived(p))'
  <2>1. d_row'[p] = d_row[p] /\ d_effect'[p] = d_effect[p]
    <3> HIDE DEF Desktop!ReportFailure
    <3> QED BY <1>b, <1>t, <1>2
  <2>2. d_runner'.op # p
    BY DEF Desktop!Idle, Desktop!Ops
  <2> QED BY <1>0, <1>2, <2>1, <2>2, DesktopElsewhere
<1>3. (Desktop!Once(o) /\ Desktop!Open(o) /\ Desktop!Untouched(o) /\ Desktop!Executing(o) /\ Desktop!Outlived(o))'
  <2>1. d_done' = d_done /\ d_agent' = d_agent /\ d_aged' = d_aged /\ d_runner'.op # o
    BY <1>h DEF Desktop!Idle, Desktop!Ops
  <2>2. CASE d_row'[o] = d_row[o] /\ d_effect'[o] = d_effect[o]
    BY <1>0, <1>a, <1>h, <2>1, <2>2, DesktopOf DEF Desktop!Once, Desktop!Open, Desktop!Untouched, Desktop!Executing, Desktop!Outlived
  <2>3. CASE d_row[o] \notin Desktop!Settled /\ d_row'[o] = "failed" /\ d_effect'[o] # "committed"
    <3>1. d_agent[o] # "unasked" /\ d_done[o] \in {0, 1}
      BY <1>a, <1>h, DesktopOf DEF Desktop!Outlived
    <3> QED BY <1>0, <1>a, <1>h, <2>1, <2>3, <3>1, DesktopOf DEF Desktop!Once, Desktop!Open, Desktop!Untouched, Desktop!Executing, Desktop!Outlived, Desktop!Waiting
  <2> QED BY <1>c, <2>2, <2>3
<1> QED BY <1>1, <1>2, <1>3, DesktopAll

LEMMA DesktopRunnerStops ==
    ASSUME Desktop!DesktopInv, Desktop!DesktopStops PROVE Desktop!DesktopInv'
<1> USE DEF Desktop!DesktopStops
<1>h. d_runner.op \in Desktop!Ops
  BY DesktopHolds
<1>0. d_faults' \in 0..(MaxFaults + 1) /\ d_lost' \subseteq Desktop!Ops /\ d_lost \subseteq d_lost'
  BY <1>h, DesktopLoses DEF Desktop!DesktopInv
<1>1. Desktop!TypeOK' /\ Desktop!Held'
  BY <1>0, DeliveryAssumption DEF Desktop!DesktopInv, Desktop!TypeOK, Desktop!Held, Desktop!Idle
<1>2. ASSUME NEW p \in Desktop!Ops
      PROVE  (Desktop!Once(p) /\ Desktop!Open(p) /\ Desktop!Untouched(p) /\ Desktop!Executing(p) /\ Desktop!Outlived(p))'
  BY <1>0, DesktopElsewhere DEF Desktop!Idle, Desktop!Ops
<1> QED BY <1>1, <1>2, DesktopAll

LEMMA DesktopStart == Desktop!Init => Desktop!DesktopInv
BY DeliveryAssumption DEF Desktop!Init, Desktop!DesktopInv, Desktop!TypeOK, Desktop!OnceAndInTheOpen, Desktop!Held,
   Desktop!Once, Desktop!Open, Desktop!Untouched, Desktop!Executing, Desktop!Outlived, Desktop!Ops, Desktop!Idle, Desktop!Waiting, Desktop!Final, Desktop!Settled

LEMMA DesktopStep == ASSUME Desktop!DesktopInv, Desktop!Next PROVE Desktop!DesktopInv'
<1> USE DEF Desktop!Next, Desktop!AgentStep, Desktop!Time, Desktop!Polling, Desktop!Running
<1>1. CASE Desktop!AgentStep
  BY <1>1, DesktopPolls, DesktopDeadline
<1>2. CASE Desktop!Time
  BY <1>2, DesktopAges
<1>3. CASE Desktop!Polling
  BY <1>3, DesktopClaims, DesktopClaimsNothing
<1>4. CASE Desktop!Running
  BY <1>4, DesktopExecutes, DesktopReports, DesktopReportsFailure
<1>5. CASE \E o \in Desktop!Ops : Desktop!Create(o) \/ Desktop!AgentStops(o)
  BY <1>5, DesktopCreates, DesktopAgentStops
<1>6. CASE Desktop!DesktopStops
  BY <1>6, DesktopRunnerStops
<1> QED BY <1>1, <1>2, <1>3, <1>4, <1>5, <1>6

LEMMA DesktopStill == ASSUME Desktop!DesktopInv, UNCHANGED desktopVars PROVE Desktop!DesktopInv'
BY DEF desktopVars, Desktop!DesktopInv, Desktop!TypeOK, Desktop!OnceAndInTheOpen, Desktop!Held, Desktop!Once, Desktop!Open, Desktop!Untouched, Desktop!Executing, Desktop!Outlived

-----------------------------------------------------------------------------
(* The event stream. *)

LEMMA GroupCardinality == ASSUME NEW S PROVE Group!Cardinality(S) = Cardinality(S)
BY DEF Group!Cardinality, Cardinality

\* In a finite set of entries there is one of every rank.
LEMMA Ranked ==
    ASSUME NEW es \in SUBSET Nat, NEW b \in Nat, \A s \in es : s <= b, NEW n \in 1..Cardinality(es)
    PROVE  \E e \in es : Group!Rank(es, e) = n - 1
<1> DEFINE Below(e) == {x \in es : x < e}
<1>1. IsFiniteSet(es) /\ Cardinality(es) \in Nat /\ n \in Nat /\ n >= 1 /\ n <= Cardinality(es)
  BY FS_BoundedSetOfNaturals, FS_CardinalityType
<1>2. ASSUME NEW e \in es PROVE IsFiniteSet(Below(e)) /\ Cardinality(Below(e)) \in Nat
  BY <1>1, FS_Subset, FS_CardinalityType
\* The greatest one below an entry: the rank of the entry is one more.
<1>3. ASSUME NEW e \in es, Below(e) # {}
      PROVE  \E d \in Below(e) : Cardinality(Below(e)) = Cardinality(Below(d)) + 1
  <2>1. PICK d \in Below(e) : \A x \in Below(e) : x <= d
    <3>1. Below(e) \in SUBSET Nat /\ \A x \in Below(e) : x <= b
      OBVIOUS
    <3> HIDE DEF Below
    <3> QED BY <1>3, <3>1, Greatest
  <2>2. d \in es /\ d \in Nat /\ e \in Nat /\ d < e
    BY <2>1
  <2>3. \A x \in es : x < e <=> x < d \/ x = d
    <3>1. ASSUME NEW x \in es, x < e PROVE x < d \/ x = d
      <4>1. x \in Below(e) /\ x \in Nat
        BY <3>1
      <4>2. x <= d
        <5> HIDE DEF Below
        <5> QED BY <4>1, <2>1
      <4> QED BY <4>1, <4>2, <2>2
    <3>2. ASSUME NEW x \in es, x < d \/ x = d PROVE x < e
      BY <3>2, <2>2
    <3> QED BY <3>1, <3>2
  <2>4. Below(e) = Below(d) \cup {d} /\ d \notin Below(d)
    <3>1. \A x : x \in Below(e) <=> x \in Below(d) \/ x = d
      BY <2>2, <2>3
    <3>2. d \notin Below(d)
      BY <2>2
    <3> HIDE DEF Below
    <3> QED BY <3>1, <3>2
  <2>5. Cardinality(Below(d) \cup {d}) = Cardinality(Below(d)) + 1
    BY <1>2, <2>2, <2>4, FS_AddElement
  <2> QED BY <2>4, <2>5
<1> DEFINE T == {e \in es : Cardinality(Below(e)) >= n - 1}
<1>4. T # {}
  <2>1. es # {}
    BY <1>1, FS_EmptySet
  <2>2. PICK m \in es : \A x \in es : x <= m
    BY <2>1, Greatest
  <2>3. es = Below(m) \cup {m} /\ m \notin Below(m)
    <3>1. ASSUME NEW x \in es, x # m PROVE x < m
      BY <3>1, <2>2
    <3>2. \A x : x \in es <=> x \in Below(m) \/ x = m
      BY <3>1, <2>2
    <3>3. m \notin Below(m)
      <4>1. m \in Nat
        OBVIOUS
      <4> QED BY <4>1
    <3> HIDE DEF Below
    <3> QED BY <3>2, <3>3
  <2>4. Cardinality(Below(m) \cup {m}) = Cardinality(Below(m)) + 1
    BY <1>2, <2>3, FS_AddElement
  <2>5. Cardinality(Below(m)) >= n - 1
    <3> HIDE DEF Below
    <3> QED BY <1>1, <1>2, <2>3, <2>4
  <2> QED BY <2>5
<1>5. PICK e \in T : \A x \in T : e <= x
  <2>1. T \in SUBSET Nat
    OBVIOUS
  <2> HIDE DEF T
  <2> QED BY <1>4, <2>1, LeastOf
<1>6. e \in es /\ Cardinality(Below(e)) >= n - 1
  BY <1>5
<1>7. Cardinality(Below(e)) = n - 1
  <2>1. SUFFICES ASSUME Cardinality(Below(e)) # n - 1 PROVE FALSE
    OBVIOUS
  <2>2. Below(e) # {}
    <3>1. Below(e) = {} => Cardinality(Below(e)) = 0
      BY FS_EmptySet
    <3> HIDE DEF Below
    <3> QED BY <3>1, <1>1, <1>2, <1>6, <2>1
  <2>3. PICK d \in Below(e) : Cardinality(Below(e)) = Cardinality(Below(d)) + 1
    BY <1>3, <1>6, <2>2
  <2>4. d \in es /\ d < e /\ d \in Nat /\ e \in Nat
    BY <2>3, <1>6
  <2>5. Cardinality(Below(d)) >= n - 1
    <3> HIDE DEF Below
    <3> QED BY <1>1, <1>2, <1>6, <2>1, <2>3, <2>4
  <2>6. d \in T
    BY <2>4, <2>5
  <2>7. e <= d
    <3> HIDE DEF T
    <3> QED BY <1>5, <2>6
  <2> QED BY <2>4, <2>7
<1> QED BY <1>6, <1>7, GroupCardinality DEF Group!Rank

\* What is taken is put in order: a sequence of what is taken.
LEMMA Ordered ==
    ASSUME NEW es \in SUBSET Nat, NEW b \in Nat, \A s \in es : s <= b
    PROVE  Group!InOrder(es) \in Seq(es)
<1>1. Cardinality(es) \in Nat
  BY FS_BoundedSetOfNaturals, FS_CardinalityType
<1>2. ASSUME NEW n \in 1..Cardinality(es)
      PROVE  (CHOOSE e \in es : Group!Rank(es, e) = n - 1) \in es
  BY Ranked
<1>3. [n \in 1..Cardinality(es) |-> CHOOSE e \in es : Group!Rank(es, e) = n - 1] \in Seq(es)
  <2> HIDE DEF Group!Rank
  <2> QED BY <1>1, <1>2
<1> QED BY <1>3, GroupCardinality DEF Group!InOrder

\* What the handler of an entry has to do.
LEMMA GroupSteps ==
    ASSUME NEW e \in Group!Entries
    PROVE  /\ Group!Steps(e) \in Seq({"job", "vectors", "chunks", "tell"})
           /\ Events[e] = "ready" => Group!Steps(e) = <<"job">>
           /\ Events[e] = "delete" => Group!Steps(e) = <<"vectors", "chunks", "tell">>
           /\ Events[e] \notin {"ready", "delete"} => Group!Steps(e) = <<>>
<1>1. Events[e] = "ready" => Group!Steps(e) = <<"job">>
  BY DEF Group!Steps
<1>2. Events[e] = "delete" => Group!Steps(e) = <<"vectors", "chunks", "tell">>
  BY DEF Group!Steps
<1>3. Events[e] \notin {"ready", "delete"} => Group!Steps(e) = <<>>
  BY DEF Group!Steps
<1>4. /\ <<"job">> \in Seq({"job", "vectors", "chunks", "tell"})
      /\ <<"vectors", "chunks", "tell">> \in Seq({"job", "vectors", "chunks", "tell"})
      /\ <<>> \in Seq({"job", "vectors", "chunks", "tell"})
  OBVIOUS
<1>5. Group!Steps(e) \in Seq({"job", "vectors", "chunks", "tell"})
  BY <1>1, <1>2, <1>3, <1>4
<1> QED BY <1>1, <1>2, <1>3, <1>5

LEMMA GroupToSet == ASSUME NEW s PROVE Group!ToSet(s) = {s[k] : k \in DOMAIN s}
BY DEF Group!ToSet

LEMMA SeqOfMore == ASSUME NEW S, NEW T, S \subseteq T, NEW s \in Seq(S) PROVE s \in Seq(T)
OBVIOUS

LEMMA GroupMembers == ASSUME NEW S, NEW s \in Seq(S) PROVE Group!ToSet(s) \subseteq S
<1>1. ASSUME NEW k \in DOMAIN s PROVE s[k] \in S
  BY <1>1
<1> QED BY <1>1, GroupToSet

\* A worker at work is at an entry that was delivered.
LEMMA GroupAt ==
    ASSUME Group!GroupInv, NEW i \in Workers, g_w[i].pc = "work"
    PROVE  /\ Group!At(i) \in 1..g_last /\ Group!At(i) \in Group!Entries /\ Group!At(i) \in Nat
           /\ g_w[i].batch # <<>> /\ g_w[i].batch \in Seq(1..g_last)
<1>1. g_w[i].batch \in Seq(1..g_last) /\ g_w[i].batch # <<>>
  BY DEF Group!GroupInv, Group!Held, Group!Knows, Group!Places
<1>2. Head(g_w[i].batch) \in 1..g_last
  BY <1>1, HeadTailProperties
<1>3. Group!Entries = 1..Len(Events) /\ Len(Events) \in Nat
  BY DeliveryAssumption DEF Group!Entries
<1>4. g_last \in 0..Len(Events)
  BY <1>3 DEF Group!GroupInv, Group!TypeOK
<1> QED BY <1>1, <1>2, <1>3, <1>4 DEF Group!At

\* What is finished remains so, whatever else is handled or given up.
LEMMA GroupFinished ==
    ASSUME NEW e, Group!Finished(e), g_done[e] \subseteq g_done'[e],
           g_done'[e] \subseteq Group!ToSet(Group!Steps(e)), g_dlq \subseteq g_dlq'
    PROVE  Group!Finished(e)'
BY DEF Group!Finished, Group!Steps

\* What a worker knows remains true while others handle, claim, acknowledge and give up.
LEMMA GroupKnows ==
    ASSUME Group!GroupInv, NEW i \in Workers, g_w'[i] = g_w[i],
           \A e \in Group!Entries : /\ g_done[e] \subseteq g_done'[e]
                                    /\ g_done'[e] \subseteq Group!ToSet(Group!Steps(e)),
           g_dlq \subseteq g_dlq', g_faults \in Nat, g_faults' \in Nat, g_faults <= g_faults',
           \A e \in 1..g_last : e \in DOMAIN g_pel' =>
               e \in DOMAIN g_pel /\ g_pel'[e].count \in Int /\ g_pel'[e].count >= g_pel[e].count
    PROVE  Group!Knows(i)'
<1>1. SUFFICES ASSUME g_w[i].pc = "work" PROVE Group!Knows(i)'
  BY DEF Group!Knows
<1> DEFINE e == Group!At(i)
<1>2. e \in 1..g_last /\ e \in Group!Entries /\ Group!At(i)' = e
  BY <1>1, GroupAt DEF Group!At
<1>3. Group!Knows(i)
  BY DEF Group!GroupInv
<1>4. Group!Steps(e)' = Group!Steps(e)
  BY <1>2 DEF Group!Steps
<1>5. \A k \in 1..(g_w'[i].step - 1) : Group!Steps(e)[k] \in g_done'[e]
  BY <1>1, <1>2, <1>3 DEF Group!Knows
<1>6. g_w'[i].at = "ack" => Group!Finished(e)'
  BY <1>1, <1>2, <1>3, GroupFinished DEF Group!Knows
<1>7. g_w'[i].at \in {"fail", "dlq"} /\ g_faults' = 0 => Events[e] = "wrong"
  BY <1>1, <1>2, <1>3 DEF Group!Knows
<1>8. g_w'[i].at = "dlq" /\ e \in DOMAIN g_pel' => g_pel'[e].count >= MaxRetries
  <2>1. SUFFICES ASSUME g_w'[i].at = "dlq", e \in DOMAIN g_pel' PROVE g_pel'[e].count >= MaxRetries
    OBVIOUS
  <2>2. g_pel[e].count >= MaxRetries /\ e \in DOMAIN g_pel
    BY <1>1, <1>2, <1>3, <2>1 DEF Group!Knows
  <2>3. g_pel[e].count \in Nat
    BY <2>2 DEF Group!GroupInv, Group!Held
  <2> QED BY <1>2, <2>1, <2>2, <2>3, DeliveryAssumption
<1> QED BY <1>1, <1>2, <1>3, <1>4, <1>5, <1>6, <1>7, <1>8 DEF Group!Knows

LEMMA GroupAll ==
    ASSUME Group!TypeOK', Group!Consumed', Group!Held', \A j \in Workers : Group!Knows(j)'
    PROVE  Group!GroupInv'
BY DEF Group!GroupInv

\* The types of what the steps change, one by one.
LEMMA GroupTypes ==
    ASSUME Group!GroupInv
    PROVE  /\ g_sent \in 0..Len(Events) /\ g_last \in 0..g_sent /\ g_last \in Nat /\ g_sent \in Nat
           /\ DOMAIN g_pel \subseteq 1..g_last /\ g_dlq \subseteq 1..g_last /\ g_acked \subseteq 1..g_last
           /\ g_faults \in 0..MaxFaults /\ g_faults \in Nat
           /\ g_w \in [Workers -> Group!Places]
           /\ g_pel \in [DOMAIN g_pel -> [count : Nat, idle : BOOLEAN]]
           /\ \A e \in DOMAIN g_pel : g_pel[e].count \in Nat
           /\ g_done \in [Group!Entries -> SUBSET {"job", "vectors", "chunks", "tell"}]
           /\ \A e \in Group!Entries : g_done[e] \subseteq Group!ToSet(Group!Steps(e))
           /\ Len(Events) \in Nat /\ Group!Entries = 1..Len(Events)
<1>1. Len(Events) \in Nat /\ Group!Entries = 1..Len(Events)
  BY DeliveryAssumption DEF Group!Entries
<1>2. g_sent \in 0..Len(Events) /\ g_last \in 0..g_sent /\ g_faults \in 0..MaxFaults
  BY DEF Group!GroupInv, Group!TypeOK
<1>3. g_last \in Nat /\ g_sent \in Nat /\ g_faults \in Nat
  BY <1>1, <1>2, DeliveryAssumption
<1>4. DOMAIN g_pel \subseteq 1..g_last /\ g_dlq \subseteq 1..g_last /\ g_acked \subseteq 1..g_last
  BY DEF Group!GroupInv, Group!TypeOK
<1>5. /\ g_w \in [Workers -> Group!Places]
      /\ g_pel \in [DOMAIN g_pel -> [count : Nat, idle : BOOLEAN]]
      /\ g_done \in [Group!Entries -> SUBSET {"job", "vectors", "chunks", "tell"}]
      /\ \A e \in Group!Entries : g_done[e] \subseteq Group!ToSet(Group!Steps(e))
  BY DEF Group!GroupInv, Group!Held
<1>6. \A e \in DOMAIN g_pel : g_pel[e].count \in Nat
  BY <1>5
<1> QED BY <1>1, <1>2, <1>3, <1>4, <1>5, <1>6

\* A step that handles nothing, acknowledges nothing and gives nothing up.
LEMMA GroupQuiet ==
    ASSUME Group!GroupInv, g_last' = g_last, g_done' = g_done, g_dlq' = g_dlq, g_acked' = g_acked,
           DOMAIN g_pel' = DOMAIN g_pel, g_faults' \in 0..MaxFaults, g_faults <= g_faults',
           g_sent' \in g_sent..Len(Events),
           g_pel' \in [DOMAIN g_pel' -> [count : Nat, idle : BOOLEAN]],
           \A e \in DOMAIN g_pel : g_pel'[e].count >= g_pel[e].count,
           NEW i, \A j \in Workers : j # i => g_w'[j] = g_w[j],
           i \in Workers => Group!Knows(i)',
           g_w' \in [Workers -> Group!Places]
    PROVE  Group!GroupInv'
<1>t. /\ g_sent \in Nat /\ g_last \in 0..g_sent /\ Len(Events) \in Nat /\ g_faults \in Nat
      /\ \A e \in DOMAIN g_pel : g_pel[e].count \in Nat
  BY GroupTypes
<1>1. Group!Held'
  BY DEF Group!GroupInv, Group!Held, Group!Places, Group!Entries, Group!Steps
<1>2. Group!TypeOK'
  <2>1. \A j \in Workers : g_w'[j].batch \in Seq(1..g_last) /\ g_w'[j].pc \in {"idle", "claim", "read", "work"}
    BY DEF Group!Places
  <2>2. ASSUME NEW j \in Workers PROVE Group!ToSet(g_w'[j].batch) \subseteq 1..g_last
    BY <2>1, GroupMembers
  <2> QED BY <1>t, <2>1, <2>2 DEF Group!GroupInv, Group!TypeOK
<1>3. Group!Consumed'
  <2>1. Group!NothingLost' /\ Group!ToldLast'
    BY DEF Group!GroupInv, Group!Consumed, Group!NothingLost, Group!Finished, Group!ToldLast, Group!Steps, Group!Entries
  <2>2. Group!OnlyTheHopeless'
    <3>1. g_faults' = 0 => g_faults = 0
      BY <1>t
    <3> QED BY <3>1 DEF Group!GroupInv, Group!Consumed, Group!OnlyTheHopeless
  <2>3. Group!Consistent'
    <3>1. ASSUME NEW e \in g_dlq \cap DOMAIN g_pel PROVE g_pel'[e].count >= MaxRetries
      <4>1. g_pel[e].count >= MaxRetries
        BY DEF Group!GroupInv, Group!Consumed, Group!Consistent
      <4>2. g_pel[e].count \in Nat /\ g_pel'[e].count \in Nat /\ g_pel'[e].count >= g_pel[e].count
        BY <1>t
      <4> QED BY <4>1, <4>2, DeliveryAssumption
    <3> QED BY <3>1 DEF Group!GroupInv, Group!Consumed, Group!Consistent
  <2> QED BY <2>1, <2>2, <2>3 DEF Group!Consumed
<1>4. ASSUME NEW j \in Workers PROVE Group!Knows(j)'
  <2>1. CASE j = i
    BY <2>1
  <2>2. CASE j # i
    <3>1. \A e \in Group!Entries : g_done'[e] \subseteq Group!ToSet(Group!Steps(e))
      BY GroupTypes
    <3>2. g_faults \in Nat /\ g_faults' \in Nat
      BY <1>t, DeliveryAssumption
    <3>3. \A e \in DOMAIN g_pel : g_pel'[e].count \in Int
      OBVIOUS
    <3> QED BY <2>2, <3>1, <3>2, <3>3, GroupKnows
  <2> QED BY <2>1, <2>2
<1> QED BY <1>1, <1>2, <1>3, <1>4, GroupAll

LEMMA GroupPublishes == ASSUME Group!GroupInv, Group!Publish PROVE Group!GroupInv'
<1> USE DEF Group!Publish
<1>1. g_sent' \in g_sent..Len(Events) /\ g_faults' \in 0..MaxFaults /\ g_faults <= g_faults'
  BY GroupTypes
<1>2. /\ g_pel' \in [DOMAIN g_pel' -> [count : Nat, idle : BOOLEAN]] /\ g_w' \in [Workers -> Group!Places]
      /\ \A e \in DOMAIN g_pel : g_pel'[e].count >= g_pel[e].count
  BY GroupTypes
<1>3. 0 \in Workers => Group!Knows(0)'
  BY DEF Group!GroupInv, Group!Knows, Group!At, Group!Finished, Group!Steps
<1> QED BY <1>1, <1>2, <1>3, GroupQuiet

LEMMA GroupAges ==
    ASSUME Group!GroupInv, NEW e \in Group!Entries, Group!Ages(e) PROVE Group!GroupInv'
<1> USE DEF Group!Ages
<1>1. g_sent' \in g_sent..Len(Events) /\ g_faults' \in 0..MaxFaults /\ g_faults <= g_faults'
  BY GroupTypes
<1>2. /\ DOMAIN g_pel' = DOMAIN g_pel
      /\ \A x \in DOMAIN g_pel : g_pel'[x] \in [count : Nat, idle : BOOLEAN] /\ g_pel'[x].count = g_pel[x].count
  BY GroupTypes
<1>3. /\ g_pel' \in [DOMAIN g_pel' -> [count : Nat, idle : BOOLEAN]] /\ g_w' \in [Workers -> Group!Places]
      /\ \A x \in DOMAIN g_pel : g_pel'[x].count >= g_pel[x].count
  <2>1. g_pel' = [x \in DOMAIN g_pel' |-> g_pel'[x]]
    OBVIOUS
  <2>2. \A x \in DOMAIN g_pel : g_pel[x].count \in Nat
    BY GroupTypes
  <2>3. g_pel' \in [DOMAIN g_pel' -> [count : Nat, idle : BOOLEAN]]
    BY <1>2, <2>1
  <2>4. \A x \in DOMAIN g_pel : g_pel'[x].count >= g_pel[x].count
    BY <1>2, <2>2
  <2> QED BY <2>3, <2>4, GroupTypes
<1>4. 0 \in Workers => Group!Knows(0)'
  <2>1. \A x \in DOMAIN g_pel' : x \in DOMAIN g_pel /\ g_pel'[x].count = g_pel[x].count
    BY <1>2
  <2> QED BY <2>1 DEF Group!GroupInv, Group!Knows, Group!At, Group!Finished, Group!Steps
<1> QED BY <1>1, <1>2, <1>3, <1>4, GroupQuiet

\* A place with one of its fields changed.
LEMMA GroupWith ==
    ASSUME NEW q \in Group!Places
    PROVE  /\ \A v \in {"idle", "claim", "read", "work"} : LET r == [q EXCEPT !.pc = v] IN
                  r \in Group!Places /\ r.pc = v /\ r.batch = q.batch /\ r.cursor = q.cursor /\ r.rounds = q.rounds /\ r.step = q.step /\ r.at = q.at
           /\ \A v \in Seq(1..g_last) : LET r == [q EXCEPT !.batch = v] IN
                  r \in Group!Places /\ r.batch = v /\ r.pc = q.pc /\ r.cursor = q.cursor /\ r.rounds = q.rounds /\ r.step = q.step /\ r.at = q.at
           /\ \A v \in Nat : LET r == [q EXCEPT !.cursor = v] IN
                  r \in Group!Places /\ r.cursor = v /\ r.pc = q.pc /\ r.batch = q.batch /\ r.rounds = q.rounds /\ r.step = q.step /\ r.at = q.at
           /\ \A v \in Int : LET r == [q EXCEPT !.rounds = v] IN
                  r \in Group!Places /\ r.rounds = v /\ r.pc = q.pc /\ r.batch = q.batch /\ r.cursor = q.cursor /\ r.step = q.step /\ r.at = q.at
           /\ \A v \in Nat \ {0} : LET r == [q EXCEPT !.step = v] IN
                  r \in Group!Places /\ r.step = v /\ r.pc = q.pc /\ r.batch = q.batch /\ r.cursor = q.cursor /\ r.rounds = q.rounds /\ r.at = q.at
           /\ \A v \in {"handle", "fail", "dlq", "ack"} : LET r == [q EXCEPT !.at = v] IN
                  r \in Group!Places /\ r.at = v /\ r.pc = q.pc /\ r.batch = q.batch /\ r.cursor = q.cursor /\ r.rounds = q.rounds /\ r.step = q.step
BY DEF Group!Places

\* A place that the steps of a worker put it to.
LEMMA GroupPlace ==
    ASSUME Group!GroupInv, NEW i \in Workers, NEW p \in Group!Places, g_w' = [g_w EXCEPT ![i] = p]
    PROVE  /\ g_w' \in [Workers -> Group!Places] /\ g_w'[i] = p
           /\ \A j \in Workers : j # i => g_w'[j] = g_w[j]
BY GroupTypes

LEMMA GroupFaults ==
    ASSUME Group!GroupInv, Group!Fault \/ UNCHANGED g_faults
    PROVE  g_faults' \in 0..MaxFaults /\ g_faults' \in Nat /\ g_faults <= g_faults'
BY GroupTypes, DeliveryAssumption DEF Group!Fault

LEMMA GroupIdle == Group!Idle \in Group!Places /\ Group!Idle.pc = "idle"
BY DEF Group!Idle, Group!Places

LEMMA GroupBegins ==
    ASSUME Group!GroupInv, NEW i \in Workers, Group!Begin(i) PROVE Group!GroupInv'
<1> DEFINE p == [Group!Idle EXCEPT !.pc = "claim", !.rounds = MaxRounds]
<1>1. p \in Group!Places /\ p.pc = "claim"
  <2>1. [Group!Idle EXCEPT !.pc = "claim"] \in Group!Places /\ [Group!Idle EXCEPT !.pc = "claim"].pc = "claim"
    BY GroupIdle, GroupWith
  <2>2. MaxRounds \in Int
    BY DeliveryAssumption
  <2> QED BY ZenonT(40), <2>1, <2>2, GroupWith
<1>2. g_w' = [g_w EXCEPT ![i] = p]
  BY DEF Group!Begin
<1>3. g_w' \in [Workers -> Group!Places] /\ g_w'[i].pc = "claim" /\ \A j \in Workers : j # i => g_w'[j] = g_w[j]
  <2> HIDE DEF p
  <2> QED BY <1>1, <1>2, GroupPlace
<1>4. UNCHANGED <<g_sent, g_last, g_pel, g_done, g_dlq, g_acked, g_faults>>
  BY DEF Group!Begin
<1>5. /\ g_pel' \in [DOMAIN g_pel' -> [count : Nat, idle : BOOLEAN]] /\ g_sent' \in g_sent..Len(Events)
      /\ \A x \in DOMAIN g_pel : g_pel'[x].count >= g_pel[x].count
  BY <1>4, GroupTypes
<1> QED BY <1>3, <1>4, <1>5, GroupFaults, GroupQuiet DEF Group!Knows

LEMMA GroupCrashes ==
    ASSUME Group!GroupInv, NEW i \in Workers, Group!Crash(i) PROVE Group!GroupInv'
<1>1. g_w' = [g_w EXCEPT ![i] = Group!Idle] /\ Group!Fault
  BY DEF Group!Crash
<1>2. g_w' \in [Workers -> Group!Places] /\ g_w'[i].pc = "idle" /\ \A j \in Workers : j # i => g_w'[j] = g_w[j]
  BY <1>1, GroupPlace, GroupIdle
<1>3. UNCHANGED <<g_sent, g_last, g_pel, g_done, g_dlq, g_acked>>
  BY DEF Group!Crash
<1>4. /\ g_pel' \in [DOMAIN g_pel' -> [count : Nat, idle : BOOLEAN]] /\ g_sent' \in g_sent..Len(Events)
      /\ \A x \in DOMAIN g_pel : g_pel'[x].count >= g_pel[x].count
  BY <1>3, GroupTypes
<1> QED BY <1>1, <1>2, <1>3, <1>4, GroupFaults, GroupQuiet DEF Group!Knows

\* What is taken, of the pending or of the new entries, is pending from then on.
LEMMA GroupTakes ==
    ASSUME Group!GroupInv, NEW page \in SUBSET Nat
    PROVE  /\ DOMAIN Group!Taking(page) = DOMAIN g_pel \cup page
           /\ Group!Taking(page) \in [DOMAIN g_pel \cup page -> [count : Nat, idle : BOOLEAN]]
           /\ \A x \in DOMAIN g_pel : Group!Taking(page)[x].count >= g_pel[x].count
<1>1. ASSUME NEW x \in DOMAIN g_pel \cup page
      PROVE  /\ Group!Delivered(x) \in [count : Nat, idle : BOOLEAN]
             /\ x \in DOMAIN g_pel => Group!Delivered(x).count >= g_pel[x].count /\ g_pel[x].count \in Nat
                                      /\ g_pel[x] \in [count : Nat, idle : BOOLEAN]
  BY <1>1, GroupTypes DEF Group!Delivered
<1> DEFINE Next_(x) == IF x \in page THEN Group!Delivered(x) ELSE g_pel[x]
<1>2. ASSUME NEW x \in DOMAIN g_pel \cup page
      PROVE  Next_(x) \in [count : Nat, idle : BOOLEAN] /\ (x \in DOMAIN g_pel => Next_(x).count >= g_pel[x].count)
  BY <1>1
<1>3. Group!Taking(page) = [x \in DOMAIN g_pel \cup page |-> Next_(x)]
  BY DEF Group!Taking
<1> HIDE DEF Next_
<1> QED BY <1>2, <1>3

LEMMA GroupFirst == ASSUME NEW es PROVE Group!FirstOf(es) \subseteq es
BY DEF Group!FirstOf

LEMMA GroupMin ==
    ASSUME NEW S \in SUBSET Nat, S # {} PROVE Group!Min(S) \in S
BY LeastOf DEF Group!Min

LEMMA GroupClaims ==
    ASSUME Group!GroupInv, NEW i \in Workers, Group!Claim(i) PROVE Group!GroupInv'
<1>t. g_w[i] \in Group!Places /\ g_w \in [Workers -> Group!Places]
  BY GroupTypes
<1>u. UNCHANGED <<g_sent, g_last, g_done, g_dlq, g_acked>>
  BY DEF Group!Claim
<1>s. g_sent' \in g_sent..Len(Events)
  BY <1>u, GroupTypes
<1> DEFINE page == Group!FirstOf({e \in DOMAIN g_pel : e >= g_w[i].cursor /\ g_pel[e].idle})
           rest == IF page = {} THEN {} ELSE {e \in DOMAIN g_pel : e > Group!Max(page)}
           p == [g_w[i] EXCEPT !.batch = @ \o Group!InOrder(page), !.rounds = @ - 1,
                               !.cursor = IF rest = {} THEN 0 ELSE Group!Min(rest),
                               !.pc = IF rest = {} \/ g_w[i].rounds = 1 THEN "read" ELSE "claim"]
<1>1. CASE g_pel' = Group!Taking(page) /\ UNCHANGED g_faults /\ g_w' = [g_w EXCEPT ![i] = p]
  <2>1. page \subseteq DOMAIN g_pel /\ DOMAIN g_pel \subseteq 1..g_last /\ DOMAIN g_pel \in SUBSET Nat /\ g_last \in Nat
    BY GroupFirst, GroupTypes
  <2>2. Group!InOrder(page) \in Seq(1..g_last)
    <3>1. page \in SUBSET Nat /\ \A x \in page : x <= g_last
      BY <2>1
    <3>2. Group!InOrder(page) \in Seq(page)
      <4> HIDE DEF page
      <4> QED BY <3>1, <2>1, Ordered
    <3> HIDE DEF page
    <3> QED BY <3>2, <2>1
  <2>3. rest # {} => Group!Min(rest) \in Nat
    <3>1. rest \in SUBSET Nat
      BY <2>1
    <3> HIDE DEF rest
    <3> QED BY <3>1, GroupMin
  <2>4. p \in Group!Places /\ p.pc # "work"
    <3> DEFINE b == g_w[i].batch \o Group!InOrder(page)
               c == IF rest = {} THEN 0 ELSE Group!Min(rest)
               s == IF rest = {} \/ g_w[i].rounds = 1 THEN "read" ELSE "claim"
    <3>1. b \in Seq(1..g_last) /\ c \in Nat /\ s \in {"idle", "claim", "read", "work"} /\ s # "work" /\ g_w[i].rounds - 1 \in Int
      <4> HIDE DEF page, rest
      <4> QED BY <1>t, <2>2, <2>3 DEF Group!Places
    <3>2. [g_w[i] EXCEPT !.batch = b] \in Group!Places
      <4> HIDE DEF b
      <4> QED BY <1>t, <3>1, GroupWith
    <3>3. [g_w[i] EXCEPT !.batch = b, !.rounds = @ - 1] \in Group!Places
      <4> HIDE DEF b
      <4> QED BY <3>1, <3>2, GroupWith
    <3>4. [g_w[i] EXCEPT !.batch = b, !.rounds = @ - 1, !.cursor = c] \in Group!Places
      <4> HIDE DEF b, c
      <4> QED BY <3>1, <3>3, GroupWith
    <3>5. ASSUME NEW q \in Group!Places PROVE [q EXCEPT !.pc = s] \in Group!Places /\ [q EXCEPT !.pc = s].pc = s
      <4> HIDE DEF s
      <4> QED BY ZenonT(40), <3>1, GroupWith
    <3>6. p = [[g_w[i] EXCEPT !.batch = b, !.rounds = @ - 1, !.cursor = c] EXCEPT !.pc = s]
      OBVIOUS
    <3> HIDE DEF b, c, s, p
    <3> QED BY <3>1, <3>4, <3>5, <3>6
  <2>5. g_w' \in [Workers -> Group!Places] /\ g_w'[i] = p /\ \A j \in Workers : j # i => g_w'[j] = g_w[j]
    <3> HIDE DEF p
    <3> QED BY <1>1, <2>4, GroupPlace
  <2>6. Group!Knows(i)'
    <3> HIDE DEF p
    <3> QED BY <2>4, <2>5 DEF Group!Knows
  <2>7. /\ DOMAIN g_pel' = DOMAIN g_pel /\ g_pel' \in [DOMAIN g_pel' -> [count : Nat, idle : BOOLEAN]]
        /\ \A x \in DOMAIN g_pel : g_pel'[x].count >= g_pel[x].count
    <3>1. page \in SUBSET Nat /\ DOMAIN g_pel \cup page = DOMAIN g_pel
      BY <2>1
    <3> HIDE DEF page
    <3> QED BY <1>1, <3>1, GroupTakes
  <2> QED BY <1>1, <1>u, <1>s, <2>5, <2>6, <2>7, GroupFaults, GroupQuiet
<1>2. CASE Group!Fault /\ g_w' = [g_w EXCEPT ![i] = [g_w[i] EXCEPT !.pc = "read"]] /\ UNCHANGED g_pel
  <2>1. [g_w[i] EXCEPT !.pc = "read"] \in Group!Places
    BY <1>t DEF Group!Places
  <2>2. g_w' \in [Workers -> Group!Places] /\ g_w'[i].pc = "read" /\ \A j \in Workers : j # i => g_w'[j] = g_w[j]
    BY <1>2, <2>1, <1>t, GroupPlace DEF Group!Places
  <2>3. /\ g_pel' \in [DOMAIN g_pel' -> [count : Nat, idle : BOOLEAN]]
        /\ \A x \in DOMAIN g_pel : g_pel'[x].count >= g_pel[x].count
    BY <1>2, GroupTypes
  <2> QED BY <1>2, <1>u, <1>s, <2>2, <2>3, GroupFaults, GroupQuiet DEF Group!Knows
<1> QED BY <1>1, <1>2, <1>t DEF Group!Claim, Group!Places

LEMMA GroupMax ==
    ASSUME NEW S \in SUBSET Nat, NEW b \in Nat, S # {}, \A s \in S : s <= b
    PROVE  Group!Max(S) \in S /\ \A s \in S : s <= Group!Max(S)
<1>1. PICK m \in S : \A s \in S : s <= m
  BY Greatest
<1>2. \A s \in S : m >= s
  BY <1>1
<1>3. Group!Max(S) \in S /\ \A s \in S : Group!Max(S) >= s
  BY <1>2 DEF Group!Max
<1> QED BY <1>3

\* The first of the entries behind the last delivered one are those up to a next one.
LEMMA GroupPage ==
    ASSUME Group!GroupInv, NEW page, page = Group!FirstOf({e \in 1..g_sent : e > g_last}),
           NEW m, m = Group!Max(page \cup {g_last})
    PROVE  /\ m \in g_last..g_sent /\ page \in SUBSET Nat /\ \A x \in page : x > g_last
           /\ 1..m = 1..g_last \cup page
<1>t. g_sent \in Nat /\ g_last \in Nat /\ g_last <= g_sent
  BY GroupTypes
<1>1. page \subseteq {e \in 1..g_sent : e > g_last}
  BY GroupFirst
<1>2. page \in SUBSET Nat /\ \A x \in page : x > g_last /\ x <= g_sent
  BY <1>1, <1>t
<1>3. m \in page \cup {g_last} /\ \A s \in page \cup {g_last} : s <= m
  <2>1. page \cup {g_last} \in SUBSET Nat /\ page \cup {g_last} # {} /\ \A s \in page \cup {g_last} : s <= g_sent
    BY <1>2, <1>t
  <2> QED BY <2>1, <1>t, GroupMax
<1>4. m \in g_last..g_sent /\ m \in Nat
  BY <1>2, <1>3, <1>t
<1>5. ASSUME NEW x \in 1..m, x > g_last PROVE x \in page
  <2> DEFINE new == {e \in 1..g_sent : e > g_last}
             Lower(y) == {z \in new : z < y}
  <2>1. m \in page /\ x \in new /\ x <= m
    BY <1>3, <1>4, <1>5, <1>t
  <2>2. Group!Cardinality(Lower(m)) < BatchSize
    BY <2>1 DEF Group!FirstOf, Group!Rank
  <2>3. Lower(x) \subseteq Lower(m) /\ IsFiniteSet(Lower(m))
    <3>1. Lower(x) \subseteq Lower(m)
      BY <2>1, <1>4, <1>t
    <3>2. Lower(m) \in SUBSET Nat /\ \A z \in Lower(m) : z <= g_sent
      BY <1>t
    <3>3. IsFiniteSet(Lower(m))
      <4> HIDE DEF Lower
      <4> QED BY <3>2, <1>t, FS_BoundedSetOfNaturals
    <3> QED BY <3>1, <3>3
  <2>4. Cardinality(Lower(x)) <= Cardinality(Lower(m)) /\ Cardinality(Lower(x)) \in Nat /\ Cardinality(Lower(m)) \in Nat
    <3> HIDE DEF Lower
    <3> QED BY <2>3, FS_Subset, FS_CardinalityType
  <2>5. Group!Cardinality(Lower(x)) < BatchSize
    <3> HIDE DEF Lower
    <3> QED BY <2>2, <2>4, GroupCardinality, DeliveryAssumption
  <2> QED BY <2>1, <2>5 DEF Group!FirstOf, Group!Rank
<1>6. \A x : x \in 1..m <=> x \in 1..g_last \/ x \in page
  BY <1>2, <1>3, <1>4, <1>5, <1>t
<1> QED BY <1>2, <1>4, <1>6

LEMMA GroupReads ==
    ASSUME Group!GroupInv, NEW i \in Workers, Group!Read(i) PROVE Group!GroupInv'
<1>t. /\ g_w[i] \in Group!Places /\ g_w \in [Workers -> Group!Places] /\ g_sent \in Nat /\ g_last \in Nat
      /\ Group!Idle \in Group!Places
  BY GroupTypes, GroupIdle
<1>u. UNCHANGED <<g_sent, g_done, g_dlq, g_acked>>
  BY DEF Group!Read
<1> DEFINE page == Group!FirstOf({e \in 1..g_sent : e > g_last})
           all == g_w[i].batch \o Group!InOrder(page)
           p == IF all = <<>> THEN Group!Idle ELSE [Group!Idle EXCEPT !.pc = "work", !.batch = all]
<1>1. CASE /\ g_pel' = Group!Taking(page) /\ g_last' = Group!Max(page \cup {g_last})
           /\ g_w' = [g_w EXCEPT ![i] = p] /\ UNCHANGED g_faults
  <2>1. /\ g_last' \in g_last..g_sent /\ page \in SUBSET Nat /\ \A x \in page : x > g_last
        /\ 1..g_last' = 1..g_last \cup page
    BY <1>1, GroupPage
  <2>2. /\ DOMAIN g_pel' = DOMAIN g_pel \cup page /\ g_pel' \in [DOMAIN g_pel' -> [count : Nat, idle : BOOLEAN]]
        /\ \A x \in DOMAIN g_pel : g_pel'[x].count >= g_pel[x].count
    <3> HIDE DEF page
    <3> QED BY <1>1, <2>1, GroupTakes
  <2>3. \A q \in Group!Places : q \in Group!Places'
    <3>1. Seq(1..g_last) \subseteq Seq(1..g_last')
      <4>1. 1..g_last \subseteq 1..g_last'
        BY <2>1
      <4> QED BY <4>1, SeqOfMore
    <3> QED BY <3>1 DEF Group!Places
  <2>4. all \in Seq(1..g_last')
    <3>1. \A x \in page : x <= g_last'
      BY <2>1, <1>t
    <3>2. Group!InOrder(page) \in Seq(page) /\ page \subseteq 1..g_last'
      <4>1. g_last' \in Nat
        BY <2>1, <1>t
      <4> HIDE DEF page
      <4> QED BY <2>1, <3>1, <4>1, Ordered
    <3>3. Group!InOrder(page) \in Seq(1..g_last')
      <4> HIDE DEF page
      <4> QED BY <3>2, SeqOfMore
    <3>4. g_w[i].batch \in Seq(1..g_last')
      BY <1>t, <2>3 DEF Group!Places
    <3> HIDE DEF page
    <3> QED BY <3>3, <3>4
  <2>5. /\ p \in Group!Places'
        /\ p.pc = "work" => p.batch # <<>> /\ p.at = "handle" /\ p.step = 1
    <3>1. CASE all = <<>>
      BY <3>1, <1>t, <2>3, GroupIdle
    <3>2. CASE all # <<>>
      <4>1. Group!Idle \in Group!Places' /\ Group!Idle.at = "handle" /\ Group!Idle.step = 1
        BY <1>t, <2>3 DEF Group!Idle
      <4> DEFINE q == [Group!Idle EXCEPT !.pc = "work"]
      <4>2. q \in Group!Places' /\ q.at = "handle" /\ q.step = 1
        BY <4>1 DEF Group!Places
      <4>3. [q EXCEPT !.batch = all] \in Group!Places' /\ [q EXCEPT !.batch = all].batch = all
            /\ [q EXCEPT !.batch = all].at = "handle" /\ [q EXCEPT !.batch = all].step = 1
        <5> HIDE DEF q, all
        <5> QED BY <2>4, <4>2 DEF Group!Places
      <4>4. p = [q EXCEPT !.batch = all]
        BY <3>2
      <4> HIDE DEF p, q, all
      <4> QED BY <3>2, <4>3, <4>4
    <3> QED BY <3>1, <3>2
  <2>6. /\ g_w' \in [Workers -> Group!Places'] /\ g_w'[i] = p
        /\ \A j \in Workers : j # i => g_w'[j] = g_w[j]
    <3> HIDE DEF p
    <3> QED BY <1>1, <1>t, <2>3, <2>5
  <2>7. Group!Held'
    <3>1. g_done' = g_done /\ \A e \in Group!Entries : Group!Steps(e)' = Group!Steps(e)
      BY <1>u DEF Group!Steps
    <3> QED BY <2>2, <2>6, <3>1, GroupTypes DEF Group!Held, Group!Entries
  <2>8. Group!TypeOK'
    <3>1. \A j \in Workers : g_w'[j].batch \in Seq(1..g_last') /\ g_w'[j].pc \in {"idle", "claim", "read", "work"}
      BY <2>6 DEF Group!Places
    <3>2. \A j \in Workers : Group!ToSet(g_w'[j].batch) \subseteq 1..g_last'
      BY <3>1, GroupMembers
    <3>3. g_last' \in 0..g_sent' /\ g_sent' \in 0..Len(Events) /\ g_faults' \in 0..MaxFaults
      BY <1>1, <1>u, <2>1, GroupTypes
    <3>4. DOMAIN g_pel' \subseteq 1..g_last' /\ g_dlq' \cup g_acked' \subseteq 1..g_last'
      BY <1>u, <2>1, <2>2, GroupTypes
    <3> QED BY <3>1, <3>2, <3>3, <3>4 DEF Group!TypeOK
  <2>9. Group!Consumed'
    <3>1. Group!NothingLost'
      <4>1. \A e \in 1..g_last' \ DOMAIN g_pel' : e \in 1..g_last \ DOMAIN g_pel
        BY <2>1, <2>2
      <4> QED BY <4>1, <1>u DEF Group!GroupInv, Group!Consumed, Group!NothingLost, Group!Finished, Group!Steps
    <3>2. Group!OnlyTheHopeless' /\ Group!ToldLast'
      BY <1>1, <1>u DEF Group!GroupInv, Group!Consumed, Group!OnlyTheHopeless, Group!ToldLast, Group!Entries
    <3>3. DOMAIN g_pel' \cap g_acked' = {} /\ DOMAIN g_pel' \cup g_acked' = 1..g_last'
      <4>1. g_acked \subseteq 1..g_last /\ g_acked' = g_acked
        BY <1>u, GroupTypes
      <4>2. DOMAIN g_pel \cap g_acked = {} /\ DOMAIN g_pel \cup g_acked = 1..g_last
        BY DEF Group!GroupInv, Group!Consumed, Group!Consistent
      <4>3. page \cap g_acked = {}
        BY <2>1, <4>1, <1>t
      <4> HIDE DEF page
      <4> QED BY <2>1, <2>2, <4>1, <4>2, <4>3
    <3>4. ASSUME NEW e \in g_dlq' \cap DOMAIN g_pel' PROVE g_pel'[e].count >= MaxRetries
      <4>1. e \in 1..g_last /\ e \in g_dlq
        BY <1>u, GroupTypes
      <4>2. e \in DOMAIN g_pel
        BY <4>1, <2>1, <2>2, <1>t
      <4>3. g_pel[e].count >= MaxRetries /\ g_pel[e].count \in Nat
        BY <4>1, <4>2, GroupTypes DEF Group!GroupInv, Group!Consumed, Group!Consistent
      <4>4. g_pel'[e].count >= g_pel[e].count /\ g_pel'[e].count \in Nat
        BY <2>2, <4>2
      <4> QED BY <4>3, <4>4, DeliveryAssumption
    <3> QED BY <3>1, <3>2, <3>3, <3>4 DEF Group!Consumed, Group!Consistent
  <2>10. Group!Knows(i)'
    <3>1. g_w'[i].pc = "work" => g_w'[i].batch # <<>> /\ g_w'[i].at = "handle" /\ g_w'[i].step = 1
      <4> HIDE DEF p
      <4> QED BY <2>5, <2>6
    <3> QED BY <3>1 DEF Group!Knows
  <2>11. ASSUME NEW j \in Workers, j # i PROVE Group!Knows(j)'
    <3>1. \A e \in Group!Entries : g_done'[e] \subseteq Group!ToSet(Group!Steps(e)) /\ g_done[e] \subseteq g_done'[e]
      BY <1>u, GroupTypes
    <3>2. g_faults \in Nat /\ g_faults' \in Nat /\ g_faults <= g_faults' /\ g_w'[j] = g_w[j] /\ g_dlq \subseteq g_dlq'
      BY <1>1, <1>u, <2>6, <2>11, GroupTypes
    <3>3. \A e \in 1..g_last : e \in DOMAIN g_pel' =>
              e \in DOMAIN g_pel /\ g_pel'[e].count \in Int /\ g_pel'[e].count >= g_pel[e].count
      <4>1. ASSUME NEW e \in 1..g_last, e \in page PROVE FALSE
        <5> HIDE DEF page
        <5> QED BY <4>1, <2>1, <1>t
      <4>2. \A e \in DOMAIN g_pel' : g_pel'[e].count \in Nat
        BY <2>2
      <4> HIDE DEF page
      <4> QED BY <2>2, <4>1, <4>2
    <3> QED BY <3>1, <3>2, <3>3, GroupKnows
  <2> QED BY <2>7, <2>8, <2>9, <2>10, <2>11, GroupAll
<1>2. CASE Group!Fault /\ g_w' = [g_w EXCEPT ![i] = Group!Idle] /\ UNCHANGED <<g_pel, g_last>>
  <2>1. g_w' \in [Workers -> Group!Places] /\ g_w'[i].pc = "idle" /\ \A j \in Workers : j # i => g_w'[j] = g_w[j]
    BY <1>2, GroupPlace, GroupIdle
  <2>2. /\ g_pel' \in [DOMAIN g_pel' -> [count : Nat, idle : BOOLEAN]] /\ g_sent' \in g_sent..Len(Events)
        /\ \A x \in DOMAIN g_pel : g_pel'[x].count >= g_pel[x].count
    BY <1>2, <1>u, GroupTypes
  <2> QED BY <1>2, <1>u, <2>1, <2>2, GroupFaults, GroupQuiet DEF Group!Knows
<1> QED BY <1>1, <1>2 DEF Group!Read

\* A worker leaves an entry for the next one of its batch.
LEMMA GroupLeaves ==
    ASSUME Group!GroupInv, NEW i \in Workers, g_w[i].pc = "work", g_w' = Group!Leave(i)
    PROVE  /\ g_w' \in [Workers -> Group!Places] /\ \A j \in Workers : j # i => g_w'[j] = g_w[j]
           /\ Group!Knows(i)'
<1> DEFINE p == IF Len(g_w[i].batch) = 1 THEN Group!Idle
                ELSE [g_w[i] EXCEPT !.batch = Tail(g_w[i].batch), !.step = 1, !.at = "handle"]
<1>t. g_w[i] \in Group!Places /\ g_w[i].batch \in Seq(1..g_last) /\ g_w[i].batch # <<>>
  BY GroupAt, GroupTypes
<1>1. g_w' = [g_w EXCEPT ![i] = p]
  BY DEF Group!Leave
<1>2. p \in Group!Places /\ (p.pc = "work" => p.batch # <<>> /\ p.at = "handle" /\ p.step = 1)
  <2>1. CASE Len(g_w[i].batch) = 1
    BY <2>1, GroupIdle
  <2>2. CASE Len(g_w[i].batch) # 1
    <3> DEFINE s == Tail(g_w[i].batch)
               q == [g_w[i] EXCEPT !.batch = s]
               r == [q EXCEPT !.step = 1]
    <3>1. s \in Seq(1..g_last) /\ s # <<>>
      <4>1. s \in Seq(1..g_last) /\ Len(s) = Len(g_w[i].batch) - 1
        BY <1>t, HeadTailProperties
      <4>2. Len(g_w[i].batch) \in Nat /\ Len(g_w[i].batch) # 0
        BY <1>t
      <4> HIDE DEF s
      <4>3. s = <<>> => Len(s) = 0
        OBVIOUS
      <4> QED BY <4>1, <4>2, <4>3, <2>2
    <3>2. q \in Group!Places /\ q.batch # <<>>
      <4> HIDE DEF s
      <4> QED BY <1>t, <3>1, GroupWith
    <3>3. r \in Group!Places /\ r.batch # <<>> /\ r.step = 1
      <4> HIDE DEF q
      <4> QED BY <3>2 DEF Group!Places
    <3>4. /\ [r EXCEPT !.at = "handle"] \in Group!Places /\ [r EXCEPT !.at = "handle"].batch # <<>>
          /\ [r EXCEPT !.at = "handle"].at = "handle" /\ [r EXCEPT !.at = "handle"].step = 1
      <4> HIDE DEF r
      <4> QED BY <3>3, GroupWith
    <3>5. p = [r EXCEPT !.at = "handle"]
      BY <2>2
    <3> HIDE DEF p, r
    <3> QED BY <3>4, <3>5
  <2> QED BY <2>1, <2>2
<1>3. g_w' \in [Workers -> Group!Places] /\ g_w'[i] = p /\ \A j \in Workers : j # i => g_w'[j] = g_w[j]
  <2> HIDE DEF p
  <2> QED BY <1>1, <1>2, GroupPlace
<1>4. Group!Knows(i)'
  <2>1. g_w'[i].pc = "work" => g_w'[i].batch # <<>> /\ g_w'[i].at = "handle" /\ g_w'[i].step = 1
    <3> HIDE DEF p
    <3> QED BY <1>2, <1>3
  <2> QED BY <2>1 DEF Group!Knows
<1> QED BY <1>3, <1>4

\* A worker goes on with the entry that it is at.
LEMMA GroupTo ==
    ASSUME Group!GroupInv, NEW i \in Workers, NEW at \in {"handle", "fail", "dlq", "ack"},
           g_w[i].pc = "work", g_w' = Group!To(i, at)
    PROVE  /\ g_w' \in [Workers -> Group!Places] /\ \A j \in Workers : j # i => g_w'[j] = g_w[j]
           /\ g_w'[i].at = at /\ g_w'[i].batch = g_w[i].batch /\ g_w'[i].step = g_w[i].step
           /\ Group!At(i)' = Group!At(i)
<1> DEFINE p == [g_w[i] EXCEPT !.at = at]
<1>1. p \in Group!Places /\ p.at = at /\ p.batch = g_w[i].batch /\ p.step = g_w[i].step
  <2>1. g_w[i] \in Group!Places
    BY GroupTypes
  <2> QED BY <2>1 DEF Group!Places
<1>2. g_w' = [g_w EXCEPT ![i] = p]
  BY DEF Group!To
<1> HIDE DEF p
<1> QED BY <1>1, <1>2, GroupPlace DEF Group!At

\* What a worker knows remains with it as it goes on, if what it goes on to is due.
LEMMA GroupGoesOn ==
    ASSUME Group!GroupInv, NEW i \in Workers, g_w[i].pc = "work",
           g_w'[i].batch = g_w[i].batch, g_w'[i].step = g_w[i].step, g_done' = g_done,
           g_w'[i].at = "ack" => Group!Finished(Group!At(i))',
           g_w'[i].at \in {"fail", "dlq"} /\ g_faults' = 0 => Events[Group!At(i)] = "wrong",
           g_w'[i].at = "dlq" /\ Group!At(i) \in DOMAIN g_pel' => g_pel'[Group!At(i)].count >= MaxRetries
    PROVE  Group!Knows(i)'
<1>1. Group!At(i)' = Group!At(i) /\ Group!Steps(Group!At(i))' = Group!Steps(Group!At(i))
  BY DEF Group!At, Group!Steps
<1>2. Group!Knows(i)
  BY DEF Group!GroupInv
<1> QED BY <1>1, <1>2 DEF Group!Knows

\* DeliveryCount: an entry that was delivered too often goes to the dead letters.
LEMMA GroupCounts ==
    ASSUME Group!GroupInv, NEW i \in Workers, Group!DeliveryCount(i) PROVE Group!GroupInv'
<1>1. UNCHANGED <<g_sent, g_last, g_pel, g_done, g_dlq, g_acked>> /\ g_w[i].pc = "work" /\ g_w[i].at = "fail"
  BY DEF Group!DeliveryCount
<1>2. /\ g_pel' \in [DOMAIN g_pel' -> [count : Nat, idle : BOOLEAN]] /\ g_sent' \in g_sent..Len(Events)
      /\ \A x \in DOMAIN g_pel : g_pel'[x].count >= g_pel[x].count
  BY <1>1, GroupTypes
<1>3. g_faults' \in 0..MaxFaults /\ g_faults <= g_faults'
  BY GroupFaults DEF Group!DeliveryCount
<1>4. CASE Group!Exhausted(Group!At(i)) /\ g_w' = Group!To(i, "dlq") /\ UNCHANGED g_faults
  <2>1. /\ g_w' \in [Workers -> Group!Places] /\ \A j \in Workers : j # i => g_w'[j] = g_w[j]
        /\ g_w'[i].at = "dlq" /\ g_w'[i].batch = g_w[i].batch /\ g_w'[i].step = g_w[i].step
    BY <1>1, <1>4, GroupTo
  <2>2. g_faults = 0 => Events[Group!At(i)] = "wrong"
    BY <1>1 DEF Group!GroupInv, Group!Knows
  <2>3. Group!Knows(i)'
    BY <1>1, <1>4, <2>1, <2>2, GroupGoesOn DEF Group!Exhausted
  <2> QED BY <1>1, <1>2, <1>3, <2>1, <2>3, GroupQuiet
<1>5. CASE g_w' = Group!Leave(i)
  BY <1>1, <1>2, <1>3, <1>5, GroupLeaves, GroupQuiet
<1> QED BY <1>4, <1>5 DEF Group!DeliveryCount

\* What a step does to the invariant that finishes, gives up or acknowledges an entry:
\* the types.
LEMMA GroupLoud ==
    ASSUME Group!GroupInv, NEW i \in Workers, UNCHANGED <<g_sent, g_last>>,
           g_w' \in [Workers -> Group!Places], \A j \in Workers : j # i => g_w'[j] = g_w[j], Group!Knows(i)',
           \A e \in Group!Entries : /\ g_done[e] \subseteq g_done'[e]
                                    /\ g_done'[e] \subseteq Group!ToSet(Group!Steps(e)),
           g_done' \in [Group!Entries -> SUBSET {"job", "vectors", "chunks", "tell"}],
           g_dlq \subseteq g_dlq', g_dlq' \subseteq 1..g_last, g_acked' \subseteq 1..g_last,
           g_faults' \in 0..MaxFaults, g_faults <= g_faults',
           DOMAIN g_pel' \subseteq DOMAIN g_pel, g_pel' = [x \in DOMAIN g_pel' |-> g_pel[x]],
           Group!Consumed'
    PROVE  Group!GroupInv'
<1>t. /\ g_last \in Nat /\ DOMAIN g_pel \subseteq 1..g_last /\ g_faults \in Nat /\ g_faults' \in Nat
      /\ g_last \in 0..g_sent /\ g_sent \in 0..Len(Events)
  BY GroupTypes, DeliveryAssumption
<1>p. /\ \A x \in DOMAIN g_pel' : g_pel'[x] = g_pel[x] /\ g_pel[x] \in [count : Nat, idle : BOOLEAN]
      /\ g_pel' \in [DOMAIN g_pel' -> [count : Nat, idle : BOOLEAN]]
  <2>1. \A x \in DOMAIN g_pel' : x \in DOMAIN g_pel
    OBVIOUS
  <2>2. \A x \in DOMAIN g_pel' : g_pel'[x] = g_pel[x]
    <3>1. ASSUME NEW x \in DOMAIN g_pel' PROVE g_pel'[x] = g_pel[x]
      <4>1. [y \in DOMAIN g_pel' |-> g_pel[y]][x] = g_pel[x]
        OBVIOUS
      <4> QED BY <4>1
    <3> QED BY <3>1
  <2>3. \A x \in DOMAIN g_pel : g_pel[x] \in [count : Nat, idle : BOOLEAN]
    BY GroupTypes
  <2> QED BY <2>1, <2>2, <2>3
<1>1. Group!Held'
  <2>1. \A e : Group!Steps(e)' = Group!Steps(e)
    BY DEF Group!Steps
  <2> QED BY <1>p, <2>1 DEF Group!Held, Group!Places, Group!Entries
<1>2. Group!TypeOK'
  <2>1. \A j \in Workers : g_w'[j].batch \in Seq(1..g_last) /\ g_w'[j].pc \in {"idle", "claim", "read", "work"}
    BY DEF Group!Places
  <2>2. \A j \in Workers : Group!ToSet(g_w'[j].batch) \subseteq 1..g_last
    BY <2>1, GroupMembers
  <2> QED BY <1>t, <2>1, <2>2 DEF Group!TypeOK
<1>3. ASSUME NEW j \in Workers, j # i PROVE Group!Knows(j)'
  <2>1. \A e \in DOMAIN g_pel' : e \in DOMAIN g_pel /\ g_pel'[e].count \in Int /\ g_pel'[e].count >= g_pel[e].count
    <3>1. ASSUME NEW e \in DOMAIN g_pel'
          PROVE  e \in DOMAIN g_pel /\ g_pel'[e].count = g_pel[e].count /\ g_pel[e].count \in Nat
      BY <1>p
    <3> QED BY <3>1
  <2> QED BY <1>3, <1>t, <2>1, GroupKnows
<1> QED BY <1>1, <1>2, <1>3, GroupAll

\* DeadLetter: the entry is given up, and acknowledged next.
LEMMA GroupGivesUp ==
    ASSUME Group!GroupInv, NEW i \in Workers, Group!DeadLetter(i) PROVE Group!GroupInv'
<1>1. UNCHANGED <<g_sent, g_last, g_pel, g_done, g_acked>> /\ g_w[i].pc = "work" /\ g_w[i].at = "dlq"
  BY DEF Group!DeadLetter
<1> DEFINE e == Group!At(i)
<1>2. CASE g_dlq' = g_dlq \cup {e} /\ g_w' = Group!To(i, "ack") /\ UNCHANGED g_faults
  <2>1. /\ g_w' \in [Workers -> Group!Places] /\ \A j \in Workers : j # i => g_w'[j] = g_w[j]
        /\ g_w'[i].at = "ack" /\ g_w'[i].batch = g_w[i].batch /\ g_w'[i].step = g_w[i].step
        /\ Group!At(i)' = Group!At(i)
    BY <1>1, <1>2, GroupTo
  <2>2. e \in 1..g_last
    BY <1>1, GroupAt
  <2>3. (g_faults = 0 => Events[e] = "wrong") /\ (e \in DOMAIN g_pel => g_pel[e].count >= MaxRetries)
    BY <1>1 DEF Group!GroupInv, Group!Knows
  <2>4. Group!Finished(e)'
    BY <1>2, <2>1 DEF Group!Finished
  <2>5. Group!Knows(i)'
    BY <1>1, <2>1, <2>4, GroupGoesOn DEF Group!At
  <2>6. Group!Consumed'
    <3>1. Group!NothingLost'
      BY <1>1, <1>2 DEF Group!GroupInv, Group!Consumed, Group!NothingLost, Group!Finished, Group!Steps
    <3>2. Group!OnlyTheHopeless'
      BY <1>2, <2>3 DEF Group!GroupInv, Group!Consumed, Group!OnlyTheHopeless
    <3>3. Group!ToldLast'
      BY <1>1 DEF Group!GroupInv, Group!Consumed, Group!ToldLast, Group!Entries
    <3>4. Group!Consistent'
      BY <1>1, <1>2, <2>3 DEF Group!GroupInv, Group!Consumed, Group!Consistent
    <3> QED BY <3>1, <3>2, <3>3, <3>4 DEF Group!Consumed
  <2>7. /\ \A x \in Group!Entries : g_done[x] \subseteq g_done'[x] /\ g_done'[x] \subseteq Group!ToSet(Group!Steps(x))
        /\ g_done' \in [Group!Entries -> SUBSET {"job", "vectors", "chunks", "tell"}]
        /\ g_dlq \subseteq g_dlq' /\ g_dlq' \subseteq 1..g_last /\ g_acked' \subseteq 1..g_last
        /\ g_faults' \in 0..MaxFaults /\ g_faults <= g_faults' /\ DOMAIN g_pel' \subseteq DOMAIN g_pel
        /\ g_pel' = [x \in DOMAIN g_pel' |-> g_pel[x]]
    BY <1>1, <1>2, <2>2, GroupTypes
  <2> QED BY <1>1, <2>1, <2>5, <2>6, <2>7, GroupLoud
<1>3. CASE Group!Fault /\ g_w' = Group!Leave(i) /\ UNCHANGED g_dlq
  <2>1. /\ g_pel' \in [DOMAIN g_pel' -> [count : Nat, idle : BOOLEAN]] /\ g_sent' \in g_sent..Len(Events)
        /\ \A x \in DOMAIN g_pel : g_pel'[x].count >= g_pel[x].count
    BY <1>1, GroupTypes
  <2> QED BY <1>1, <1>3, <2>1, GroupFaults, GroupLeaves, GroupQuiet
<1> QED BY <1>2, <1>3 DEF Group!DeadLetter

\* Ack: what is finished is pending no more, whoever else is still at it.
LEMMA GroupAcks ==
    ASSUME Group!GroupInv, NEW i \in Workers, Group!Ack(i) PROVE Group!GroupInv'
<1>1. /\ UNCHANGED <<g_sent, g_last, g_done, g_dlq>> /\ g_w[i].pc = "work" /\ g_w[i].at = "ack"
      /\ g_w' = Group!Leave(i)
  BY DEF Group!Ack
<1> DEFINE e == Group!At(i)
<1>0. /\ g_w' \in [Workers -> Group!Places] /\ \A j \in Workers : j # i => g_w'[j] = g_w[j] /\ Group!Knows(i)'
  BY <1>1, GroupLeaves
<1>k. Group!Knows(i)'
  BY <1>1, GroupLeaves
<1>2. CASE /\ g_pel' = Group!Restrict(g_pel, DOMAIN g_pel \ {e}) /\ g_acked' = g_acked \cup {e}
           /\ UNCHANGED g_faults
  <2>1. e \in 1..g_last /\ Group!Finished(e)
    BY <1>1, GroupAt DEF Group!GroupInv, Group!Knows
  <2>2. DOMAIN g_pel' = DOMAIN g_pel \ {e} /\ g_pel' = [x \in DOMAIN g_pel' |-> g_pel[x]]
    BY <1>2 DEF Group!Restrict
  <2>3. Group!Consumed'
    <3>1. Group!NothingLost'
      <4>1. ASSUME NEW x \in 1..g_last', x \notin DOMAIN g_pel' PROVE Group!Finished(x)
        BY <4>1, <1>1, <2>1, <2>2 DEF Group!GroupInv, Group!Consumed, Group!NothingLost
      <4> QED BY <4>1, <1>1 DEF Group!NothingLost, Group!Finished, Group!Steps
    <3>2. Group!OnlyTheHopeless' /\ Group!ToldLast'
      BY <1>1, <1>2 DEF Group!GroupInv, Group!Consumed, Group!OnlyTheHopeless, Group!ToldLast, Group!Entries
    <3>3. Group!Consistent'
      <4>1. /\ DOMAIN g_pel \cap g_acked = {} /\ DOMAIN g_pel \cup g_acked = 1..g_last
            /\ \A x \in g_dlq \cap DOMAIN g_pel : g_pel[x].count >= MaxRetries
        BY DEF Group!GroupInv, Group!Consumed, Group!Consistent
      <4>2. \A x \in DOMAIN g_pel' : g_pel'[x] = g_pel[x] /\ x \in DOMAIN g_pel
        <5>1. ASSUME NEW x \in DOMAIN g_pel' PROVE g_pel'[x] = g_pel[x]
          <6>1. [y \in DOMAIN g_pel' |-> g_pel[y]][x] = g_pel[x]
            OBVIOUS
          <6> QED BY <6>1, <2>2
        <5> QED BY <2>2, <5>1
      <4>3. DOMAIN g_pel' \cap g_acked' = {} /\ DOMAIN g_pel' \cup g_acked' = 1..g_last'
        BY <1>1, <1>2, <2>1, <2>2, <4>1
      <4> QED BY <1>1, <4>1, <4>2, <4>3 DEF Group!Consistent
    <3> QED BY <3>1, <3>2, <3>3 DEF Group!Consumed
  <2>4. /\ \A x \in Group!Entries : g_done[x] \subseteq g_done'[x] /\ g_done'[x] \subseteq Group!ToSet(Group!Steps(x))
        /\ g_done' \in [Group!Entries -> SUBSET {"job", "vectors", "chunks", "tell"}]
        /\ g_dlq \subseteq g_dlq' /\ g_dlq' \subseteq 1..g_last /\ g_acked' \subseteq 1..g_last
        /\ g_faults' \in 0..MaxFaults /\ g_faults <= g_faults' /\ DOMAIN g_pel' \subseteq DOMAIN g_pel
    BY <1>1, <1>2, <2>1, <2>2, GroupTypes
  <2> QED BY <1>0, <1>1, <1>k, <2>2, <2>3, <2>4, GroupLoud
<1>3. CASE Group!Fault /\ UNCHANGED <<g_pel, g_acked>>
  <2>1. /\ g_pel' \in [DOMAIN g_pel' -> [count : Nat, idle : BOOLEAN]] /\ g_sent' \in g_sent..Len(Events)
        /\ \A x \in DOMAIN g_pel : g_pel'[x].count >= g_pel[x].count
    BY <1>1, <1>3, GroupTypes
  <2> QED BY <1>0, <1>1, <1>3, <1>k, <2>1, GroupFaults, GroupQuiet
<1> QED BY <1>2, <1>3 DEF Group!Ack

\* Handle fails: the entry is left pending, or given up next.
LEMMA GroupFails ==
    ASSUME Group!GroupInv, NEW i \in Workers, g_w[i].pc = "work", g_w' = Group!Failed(i),
           UNCHANGED <<g_sent, g_last, g_pel, g_done, g_dlq, g_acked>>,
           (Events[Group!At(i)] = "wrong" /\ UNCHANGED g_faults) \/ Group!Fault
    PROVE  Group!GroupInv'
<1>1. /\ g_w' \in [Workers -> Group!Places] /\ \A j \in Workers : j # i => g_w'[j] = g_w[j]
      /\ g_w'[i].at = "fail" /\ g_w'[i].batch = g_w[i].batch /\ g_w'[i].step = g_w[i].step
  BY GroupTo DEF Group!Failed
<1>2. g_faults' = 0 => Events[Group!At(i)] = "wrong"
  <2>1. Group!Fault => g_faults' # 0
    BY GroupTypes DEF Group!Fault
  <2> QED BY <2>1
<1>3. Group!Knows(i)'
  BY <1>1, <1>2, GroupGoesOn
<1>4. /\ g_pel' \in [DOMAIN g_pel' -> [count : Nat, idle : BOOLEAN]] /\ g_sent' \in g_sent..Len(Events)
      /\ \A x \in DOMAIN g_pel : g_pel'[x].count >= g_pel[x].count
  BY GroupTypes
<1> QED BY <1>1, <1>3, <1>4, GroupFaults, GroupQuiet

\* Where the handler of an entry is, in what it has to do.
LEMMA GroupDoes ==
    ASSUME Group!GroupInv, NEW i \in Workers, g_w[i].pc = "work", NEW e, e = Group!At(i),
           NEW k, k = g_w[i].step, Group!Steps(e) # <<>>
    PROVE  /\ e \in Group!Entries /\ k \in 1..Len(Group!Steps(e)) /\ Len(Group!Steps(e)) \in Nat
           /\ Group!Steps(e)[k] \in {"job", "vectors", "chunks", "tell"}
           /\ Group!Steps(e)[k] \in Group!ToSet(Group!Steps(e))
           /\ DOMAIN Group!Steps(e) = 1..Len(Group!Steps(e))
           /\ \A j \in 1..(k - 1) : Group!Steps(e)[j] \in g_done[e]
<1>1. e \in Group!Entries
  BY GroupAt
<1>2. Group!Steps(e) \in Seq({"job", "vectors", "chunks", "tell"})
  BY <1>1, GroupSteps
<1>3. k \in Nat \ {0}
  BY GroupTypes DEF Group!Places
<1>4. (k = 1 \/ k <= Len(Group!Steps(e))) /\ \A j \in 1..(k - 1) : Group!Steps(e)[j] \in g_done[e]
  BY DEF Group!GroupInv, Group!Knows
<1> DEFINE s == Group!Steps(e)
<1>5. Len(s) \in Nat /\ Len(s) # 0 /\ DOMAIN s = 1..Len(s)
  <2> HIDE DEF s
  <2>1. s \in Seq({"job", "vectors", "chunks", "tell"}) /\ s # <<>>
    BY <1>2 DEF s
  <2> QED BY <2>1
<1>6. k \in 1..Len(s) /\ s[k] \in {"job", "vectors", "chunks", "tell"} /\ s[k] \in Group!ToSet(s)
  <2>1. k \in 1..Len(s)
    <3> HIDE DEF s
    <3> QED BY <1>3, <1>4, <1>5 DEF s
  <2>2. s \in Seq({"job", "vectors", "chunks", "tell"})
    BY <1>2
  <2> HIDE DEF s
  <2> QED BY <2>1, <2>2, <1>5, GroupToSet
<1> QED BY <1>1, <1>4, <1>5, <1>6

\* Handle does the next thing; behind the last one the entry is finished.
LEMMA GroupDone ==
    ASSUME Group!GroupInv, NEW i \in Workers, g_w[i].pc = "work", NEW e, e = Group!At(i),
           NEW k, k = g_w[i].step, Group!Steps(e) # <<>>,
           g_w[i].at = "handle", Events[e] # "wrong",
           g_w' = (IF k >= Len(Group!Steps(e)) THEN Group!To(i, "ack") ELSE [g_w EXCEPT ![i].step = @ + 1]),
           g_done' = [g_done EXCEPT ![e] = @ \cup {Group!Steps(e)[k]}],
           UNCHANGED <<g_sent, g_last, g_pel, g_dlq, g_acked, g_faults>>
    PROVE  Group!GroupInv'
<1> DEFINE s == Group!Steps(e)
<1>1. /\ e \in Group!Entries /\ k \in 1..Len(s) /\ Len(s) \in Nat /\ s[k] \in {"job", "vectors", "chunks", "tell"}
      /\ s[k] \in Group!ToSet(s) /\ DOMAIN s = 1..Len(s) /\ \A j \in 1..(k - 1) : s[j] \in g_done[e]
  BY GroupDoes
<1>2. g_w' \in [Workers -> Group!Places] /\ (\A j \in Workers : j # i => g_w'[j] = g_w[j]) /\ Group!At(i)' = e
      /\ (IF k >= Len(s) THEN g_w'[i].at = "ack" /\ g_w'[i].step = k ELSE g_w'[i].at = "handle" /\ g_w'[i].step = k + 1)
      /\ g_w'[i].batch # <<>>
  <2>0. g_w[i].batch # <<>>
    BY GroupAt
  <2>1. CASE k >= Len(s)
    BY <2>0, <2>1, GroupTo
  <2>2. CASE ~(k >= Len(s))
    <3> DEFINE p == [g_w[i] EXCEPT !.step = k + 1]
    <3>1. g_w[i] \in Group!Places /\ k + 1 \in Nat \ {0}
      BY <1>1, GroupTypes
    <3>2. p \in Group!Places /\ p.step = k + 1 /\ p.batch = g_w[i].batch /\ p.at = g_w[i].at
      BY <3>1 DEF Group!Places
    <3>3. g_w' = [g_w EXCEPT ![i] = p]
      BY <2>2
    <3>4. g_w' \in [Workers -> Group!Places] /\ (\A j \in Workers : j # i => g_w'[j] = g_w[j]) /\ g_w'[i] = p
      <4> HIDE DEF p
      <4> QED BY <3>2, <3>3, GroupPlace
    <3>5. g_w'[i].batch = g_w[i].batch /\ g_w'[i].step = k + 1 /\ g_w'[i].at = "handle"
      <4> HIDE DEF p
      <4> QED BY <3>2, <3>4
    <3>6. Group!At(i)' = Group!At(i)
      BY <3>5 DEF Group!At
    <3> HIDE DEF p
    <3> QED BY <2>0, <2>2, <3>4, <3>5, <3>6
  <2> HIDE DEF s
  <2> QED BY <2>1, <2>2
<1>3. /\ g_done'[e] = g_done[e] \cup {s[k]} /\ \A x \in Group!Entries : x # e => g_done'[x] = g_done[x]
      /\ g_done' \in [Group!Entries -> SUBSET {"job", "vectors", "chunks", "tell"}]
  <2>1. g_done \in [Group!Entries -> SUBSET {"job", "vectors", "chunks", "tell"}]
    BY GroupTypes
  <2> HIDE DEF s
  <2> QED BY <1>1, <2>1 DEF s
<1>4. \A x \in Group!Entries : g_done[x] \subseteq g_done'[x] /\ g_done'[x] \subseteq Group!ToSet(Group!Steps(x))
  BY <1>1, <1>3, GroupTypes
<1>5. k >= Len(s) => g_done'[e] = Group!ToSet(s)
  <2>1. SUFFICES ASSUME k >= Len(s) PROVE \A x \in Group!ToSet(s) : x \in g_done'[e]
    BY <1>1, <1>4
  <2>2. ASSUME NEW j \in 1..Len(s) PROVE s[j] \in g_done'[e]
    <3>1. j = k \/ j \in 1..(k - 1)
      <4> HIDE DEF s
      <4> QED BY <1>1, <2>1
    <3> HIDE DEF s
    <3> QED BY <1>1, <1>3, <3>1
  <2> HIDE DEF s
  <2> QED BY <1>1, <2>2, GroupToSet
<1>6. Group!Knows(i)'
  <2>1. Group!Steps(e)' = s
    BY DEF Group!Steps
  <2>2. g_w'[i].at = "ack" => Group!Finished(e)'
    <3>1. g_w'[i].at = "ack" => k >= Len(s)
      BY <1>2
    <3> QED BY <1>5, <2>1, <3>1 DEF Group!Finished
  <2>3. g_w'[i].step = 1 \/ g_w'[i].step <= Len(s)
    <3> HIDE DEF s
    <3> QED BY <1>1, <1>2
  <2>4. \A j \in 1..(g_w'[i].step - 1) : s[j] \in g_done'[e]
    <3>1. ASSUME NEW j \in 1..(g_w'[i].step - 1) PROVE s[j] \in g_done'[e]
      <4>1. j = k \/ j \in 1..(k - 1)
        <5> HIDE DEF s
        <5> QED BY <1>1, <1>2, <3>1
      <4> HIDE DEF s
      <4> QED BY <1>1, <1>3, <4>1
    <3> QED BY <3>1
  <2>5. g_w'[i].at \in {"ack", "handle"} /\ g_w'[i].batch # <<>> /\ Group!At(i)' = e
    <3> HIDE DEF s
    <3> QED BY <1>2
  <2>6. g_w'[i].at \notin {"fail", "dlq"} /\ g_w'[i].at # "dlq"
    BY <2>5
  <2> HIDE DEF s
  <2> QED BY <2>1, <2>2, <2>3, <2>4, <2>5, <2>6 DEF Group!Knows
<1>7. Group!Consumed'
  <2>1. Group!NothingLost'
    <3>1. ASSUME NEW x \in 1..g_last \ DOMAIN g_pel PROVE Group!Finished(x)'
      <4>1. Group!Finished(x) /\ x \in Group!Entries
        <5>1. x \in 1..Len(Events)
          BY GroupTypes
        <5> QED BY <5>1, GroupTypes DEF Group!GroupInv, Group!Consumed, Group!NothingLost
      <4> QED BY <1>4, <4>1, GroupFinished
    <3> QED BY <3>1 DEF Group!NothingLost
  <2>2. Group!OnlyTheHopeless' /\ Group!Consistent'
    BY DEF Group!GroupInv, Group!Consumed, Group!OnlyTheHopeless, Group!Consistent
  <2>3. Group!ToldLast'
    <3>0. Group!ToldLast
      BY DEF Group!GroupInv, Group!Consumed
    <3>1. s[k] = "tell" => {"vectors", "chunks"} \subseteq g_done[e]
      <4>1. SUFFICES ASSUME s[k] = "tell" PROVE {"vectors", "chunks"} \subseteq g_done[e]
        OBVIOUS
      <4>2. s = <<"vectors", "chunks", "tell">> \/ s = <<"job">>
        BY <1>1, GroupSteps
      <4>3. s = <<"vectors", "chunks", "tell">> /\ k = 3
        <5> HIDE DEF s
        <5> QED BY <1>1, <4>1, <4>2
      <4> HIDE DEF s
      <4> QED BY <1>1, <4>3
    <3>2. ASSUME NEW x \in Group!Entries, "tell" \in g_done'[x] PROVE {"vectors", "chunks"} \subseteq g_done'[x]
      <4>1. CASE x # e
        BY <3>0, <3>2, <4>1, <1>3 DEF Group!ToldLast
      <4>2. CASE x = e
        <5> HIDE DEF s
        <5> QED BY <3>0, <3>1, <3>2, <4>2, <1>1, <1>3 DEF Group!ToldLast
      <4> QED BY <4>1, <4>2
    <3> QED BY <3>2 DEF Group!ToldLast, Group!Entries
  <2> QED BY <2>1, <2>2, <2>3 DEF Group!Consumed
<1>8. /\ g_dlq \subseteq g_dlq' /\ g_dlq' \subseteq 1..g_last /\ g_acked' \subseteq 1..g_last
      /\ g_faults' \in 0..MaxFaults /\ g_faults <= g_faults' /\ DOMAIN g_pel' \subseteq DOMAIN g_pel
      /\ g_pel' = [x \in DOMAIN g_pel' |-> g_pel[x]]
  BY GroupTypes
<1> QED BY <1>2, <1>3, <1>4, <1>6, <1>7, <1>8, GroupLoud

LEMMA GroupHandles ==
    ASSUME Group!GroupInv, NEW i \in Workers, Group!Handle(i) PROVE Group!GroupInv'
<1> DEFINE e == Group!At(i)
           k == g_w[i].step
<1>1. g_w[i].pc = "work" /\ g_w[i].at = "handle" /\ UNCHANGED <<g_sent, g_last, g_pel, g_dlq, g_acked>>
  BY DEF Group!Handle
<1>2. CASE Events[e] = "wrong" /\ g_w' = Group!Failed(i) /\ UNCHANGED <<g_done, g_faults>>
  BY <1>1, <1>2, GroupFails
<1>3. CASE Group!Fault /\ g_w' = Group!Failed(i) /\ UNCHANGED g_done
  BY <1>1, <1>3, GroupFails
<1>4. CASE /\ Events[e] # "wrong" /\ UNCHANGED g_faults
           /\ g_w' = (IF k >= Len(Group!Steps(e)) THEN Group!To(i, "ack") ELSE [g_w EXCEPT ![i].step = @ + 1])
           /\ g_done' = (IF Group!Steps(e) = <<>> THEN g_done ELSE [g_done EXCEPT ![e] = @ \cup {Group!Steps(e)[k]}])
  <2>1. CASE Group!Steps(e) # <<>>
    BY <1>1, <1>4, <2>1, GroupDone
  <2>2. CASE Group!Steps(e) = <<>>
    <3>1. e \in Group!Entries /\ k \in Nat \ {0}
      BY <1>1, GroupAt, GroupTypes DEF Group!Places
    <3>2. Events[e] = "bad"
      <4>1. Events[e] \in {"ready", "delete", "wrong", "bad"}
        BY <3>1, DeliveryAssumption DEF Group!Entries
      <4>2. <<"job">> # <<>> /\ <<"vectors", "chunks", "tell">> # <<>>
        OBVIOUS
      <4> QED BY <1>4, <2>2, <3>1, <4>1, <4>2, GroupSteps
    <3>3. g_w' = Group!To(i, "ack") /\ UNCHANGED g_done
      <4>1. Len(<<>>) = 0
        OBVIOUS
      <4> QED BY <1>4, <2>2, <3>1, <4>1
    <3>4. /\ g_w' \in [Workers -> Group!Places] /\ \A j \in Workers : j # i => g_w'[j] = g_w[j]
          /\ g_w'[i].at = "ack" /\ g_w'[i].batch = g_w[i].batch /\ g_w'[i].step = g_w[i].step
          /\ Group!At(i)' = Group!At(i)
      BY <1>1, <3>3, GroupTo
    <3>5. Group!Finished(e)'
      BY <3>2, <3>4 DEF Group!Finished
    <3>6. Group!Knows(i)'
      BY <1>1, <3>3, <3>4, <3>5, GroupGoesOn
    <3>7. /\ g_pel' \in [DOMAIN g_pel' -> [count : Nat, idle : BOOLEAN]] /\ g_sent' \in g_sent..Len(Events)
          /\ \A x \in DOMAIN g_pel : g_pel'[x].count >= g_pel[x].count
      BY <1>1, GroupTypes
    <3> QED BY <1>1, <1>4, <3>3, <3>4, <3>6, <3>7, GroupFaults, GroupQuiet
  <2> QED BY <2>1, <2>2
<1> QED BY <1>2, <1>3, <1>4 DEF Group!Handle

LEMMA GroupStart == Group!Init => Group!GroupInv
<1> SUFFICES ASSUME Group!Init PROVE Group!GroupInv
  OBVIOUS
<1>1. /\ g_sent = 0 /\ g_last = 0 /\ g_pel = <<>> /\ g_done = [e \in Group!Entries |-> {}]
      /\ g_w = [i \in Workers |-> Group!Idle] /\ g_dlq = {} /\ g_acked = {} /\ g_faults = 0
  BY DEF Group!Init
<1>2. DOMAIN g_pel = {} /\ 1..0 = {}
  BY <1>1
<1>3. Group!Idle \in Group!Places
  BY GroupIdle
<1>4. Group!Held
  <2>1. g_pel \in [DOMAIN g_pel -> [count : Nat, idle : BOOLEAN]]
    BY <1>1, <1>2
  <2> QED BY <1>1, <1>3, <2>1 DEF Group!Held
<1>5. Group!TypeOK
  <2>1. \A i \in Workers : g_w[i].batch \in Seq(1..g_last) /\ g_w[i].pc = "idle"
    BY <1>1, <1>3 DEF Group!Idle, Group!Places
  <2>2. \A i \in Workers : Group!ToSet(g_w[i].batch) \subseteq 1..g_last
    BY <2>1, GroupMembers
  <2>3. Len(Events) \in Nat
    BY DeliveryAssumption
  <2> QED BY <1>1, <1>2, <2>1, <2>2, <2>3, DeliveryAssumption DEF Group!TypeOK
<1>6. Group!Consumed
  BY <1>1, <1>2 DEF Group!Consumed, Group!NothingLost, Group!OnlyTheHopeless, Group!ToldLast, Group!Consistent
<1>7. ASSUME NEW i \in Workers PROVE Group!Knows(i)
  BY <1>1, GroupIdle DEF Group!Knows
<1> QED BY <1>4, <1>5, <1>6, <1>7 DEF Group!GroupInv

LEMMA GroupStep == ASSUME Group!GroupInv, Group!Next PROVE Group!GroupInv'
<1>1. CASE Group!Publish
  BY <1>1, GroupPublishes
<1>2. CASE \E e \in Group!Entries : Group!Ages(e)
  BY <1>2, GroupAges
<1>3. CASE \E i \in Workers : Group!Crash(i)
  BY <1>3, GroupCrashes
<1>4. CASE \E i \in Workers : Group!Run(i)
  BY <1>4, GroupBegins, GroupClaims, GroupReads, GroupHandles, GroupCounts, GroupGivesUp, GroupAcks DEF Group!Run
<1> QED BY <1>1, <1>2, <1>3, <1>4 DEF Group!Next

LEMMA GroupStill == ASSUME Group!GroupInv, UNCHANGED groupVars PROVE Group!GroupInv'
<1> USE DEF groupVars
<1>1. Group!TypeOK'
  BY DEF Group!GroupInv, Group!TypeOK
<1>4. Group!Held'
  <2>1. Group!Places' = Group!Places
    BY DEF Group!Places
  <2> QED BY <2>1 DEF Group!GroupInv, Group!Held
<1>2. Group!Consumed'
  BY DEF Group!GroupInv, Group!Consumed, Group!NothingLost, Group!OnlyTheHopeless, Group!ToldLast, Group!Consistent,
         Group!Finished, Group!Steps, Group!Entries, Group!ToSet
<1>3. ASSUME NEW i \in Workers PROVE Group!Knows(i)'
  BY DEF Group!GroupInv, Group!Knows, Group!Finished, Group!Steps, Group!At
<1> QED BY <1>1, <1>2, <1>3, <1>4, GroupAll

-----------------------------------------------------------------------------
(* The parse lane. *)

\* Where a window of a text of n units ends, and that the next one begins behind its
\* beginning and leaves nothing out.
LEMMA WindowNext ==
    ASSUME NEW n \in Nat, NEW x \in Nat \ {0}, NEW l, l = Parse!End(x, n), NEW y, y = Parse!After(x, l)
    PROVE  /\ l \in Nat /\ y \in Int /\ l - x < ChunkLimit
           /\ x <= n => l \in x..n
           /\ l # n => x < n /\ y \in (x + 1)..n /\ y <= l + 1
<1>1. ChunkLimit \in Nat \ {0} /\ Overlap \in Nat
  BY DeliveryAssumption
<1>2. l = IF x + ChunkLimit - 1 < n THEN x + ChunkLimit - 1 ELSE n
  BY DEF Parse!End
<1>3. y = IF l + 1 - Overlap > x THEN l + 1 - Overlap ELSE x + 1
  BY DEF Parse!After
<1>4. l \in Nat
  BY <1>1, <1>2
<1>5. l # n => l = x + ChunkLimit - 1 /\ l < n
  BY <1>1, <1>2
<1>6. l - x < ChunkLimit
  BY <1>1, <1>2
<1>7. x <= n => l \in x..n
  BY <1>1, <1>2
<1> QED BY <1>1, <1>3, <1>4, <1>5, <1>6, <1>7

\* The windows from one place on are a function of the place: behind it there are fewer.
LEMMA WindowsFrom ==
    ASSUME NEW n \in Nat
    PROVE  \E f : f = [first \in 1..(n + ChunkLimit) |->
                         LET last == Parse!End(first, n) IN
                         {<<first, last>>} \cup (IF last = n THEN {} ELSE f[Parse!After(first, last)])]
<1> DEFINE top == n + ChunkLimit
           Body(f, x) == {<<x, Parse!End(x, n)>>}
                             \cup (IF Parse!End(x, n) = n THEN {} ELSE f[Parse!After(x, Parse!End(x, n))])
           Bad == {m \in 1..(top + 1) : ~ \E f : f = [x \in m..top |-> Body(f, x)]}
<1>0. top \in Nat /\ n < top
  BY DeliveryAssumption
<1>1. ASSUME NEW m \in 1..(top + 1) PROVE \E f : f = [x \in m..top |-> Body(f, x)]
  <2>1. SUFFICES ASSUME Bad # {} PROVE FALSE
    BY <2>1
  <2>2. Bad \in SUBSET Nat /\ \A k \in Bad : k <= top + 1
    <3> HIDE DEF Body
    <3> QED BY <1>0
  <2>3. PICK k \in Bad : \A j \in Bad : j <= k
    <3>1. top + 1 \in Nat
      BY <1>0
    <3> HIDE DEF Bad, top
    <3> QED BY <3>1, <2>1, <2>2, Greatest
  <2>4. k \in 1..(top + 1) /\ ~ \E f : f = [x \in k..top |-> Body(f, x)]
    BY <2>3
  <2>5. k # top + 1
    <3> HIDE DEF Body
    <3>1. SUFFICES ASSUME k = top + 1 PROVE FALSE
      OBVIOUS
    <3>2. k..top = {}
      BY <3>1, <1>0
    <3>3. [x \in {} |-> {}] = [x \in k..top |-> Body([z \in {} |-> {}], x)]
      BY <3>2
    <3> QED BY <2>4, <3>3
  <2>6. k + 1 \in 1..(top + 1) /\ k + 1 \notin Bad
    <3>1. k + 1 \in 1..(top + 1)
      BY <1>0, <2>4, <2>5
    <3>2. k \in Nat
      BY <1>0, <2>4
    <3> HIDE DEF Bad
    <3> QED BY <2>3, <3>1, <3>2
  <2>7. PICK f : f = [x \in (k + 1)..top |-> Body(f, x)]
    BY <2>6
  <2> DEFINE g == [x \in k..top |-> IF x = k THEN Body(f, k) ELSE f[x]]
  <2>8. ASSUME NEW x \in k..top PROVE Body(g, x) = Body(f, x)
    <3> DEFINE y == Parse!After(x, Parse!End(x, n))
    <3>1. x \in Nat \ {0}
      BY <1>0, <2>4
    <3>2. Parse!End(x, n) # n => y \in (x + 1)..n
      <4> HIDE DEF y
      <4> QED BY <3>1, WindowNext DEF y
    <3>3. Parse!End(x, n) # n => y \in k..top /\ y # k
      <4> HIDE DEF y, Body, g
      <4> QED BY <1>0, <2>4, <3>1, <3>2
    <3>4. Parse!End(x, n) # n => g[y] = f[y]
      <4> HIDE DEF y, Body
      <4> QED BY <3>3
    <3> HIDE DEF g
    <3> QED BY <3>4
  <2>9. ASSUME NEW x \in k..top PROVE g[x] = Body(f, x)
    <3>1. CASE x = k
      <4> HIDE DEF Body
      <4> QED BY <3>1
    <3>2. CASE x # k
      <4>1. x \in (k + 1)..top
        BY <1>0, <2>4, <3>2
      <4>2. f[x] = Body(f, x)
        <5> HIDE DEF Body
        <5> QED BY <2>7, <4>1
      <4> HIDE DEF Body
      <4> QED BY <3>2, <4>2
    <3> QED BY <3>1, <3>2
  <2>10. g = [x \in k..top |-> Body(g, x)]
    <3>1. \A x \in k..top : g[x] = Body(g, x)
      <4> HIDE DEF Body, g
      <4> QED BY <2>8, <2>9
    <3>2. g = [x \in k..top |-> g[x]]
      <4> HIDE DEF Body
      <4> QED OBVIOUS
    <3> HIDE DEF Body, g
    <3> QED BY <3>1, <3>2
  <2> HIDE DEF Body, g
  <2> QED BY <2>4, <2>10
<1>2. 1 \in 1..(top + 1)
  BY <1>0
<1>3. \E f : f = [x \in 1..top |-> Body(f, x)]
  BY <1>1, <1>2
<1> QED BY <1>3

\* The windows of a text lie in it, none is longer than the limit, and every unit is in one.
LEMMA WindowsCover ==
    ASSUME NEW n \in Nat
    PROVE  /\ n = 0 => Parse!Windows(n) = {}
           /\ \A x \in Parse!Windows(n) : x[1] \in 1..n /\ x[2] \in x[1]..n /\ x[2] - x[1] < ChunkLimit
           /\ \A u \in 1..n : \E x \in Parse!Windows(n) : u \in x[1]..x[2]
<1>1. CASE n = 0
  BY <1>1 DEF Parse!Windows
<1>2. CASE n # 0
  <2> DEFINE Body(f, x) == LET last == Parse!End(x, n) IN
                           {<<x, last>>} \cup (IF last = n THEN {} ELSE f[Parse!After(x, last)])
             from == CHOOSE f : f = [first \in 1..(n + ChunkLimit) |-> Body(f, first)]
             Good(m) == /\ \A x \in from[m] : x[1] \in m..n /\ x[2] \in x[1]..n /\ x[2] - x[1] < ChunkLimit
                        /\ \A u \in m..n : \E x \in from[m] : u \in x[1]..x[2]
             Bad == {m \in 1..n : ~ Good(m)}
  <2>1. \E f : f = [first \in 1..(n + ChunkLimit) |-> Body(f, first)]
    BY WindowsFrom
  <2>2. from = [first \in 1..(n + ChunkLimit) |-> Body(from, first)]
    <3> HIDE DEF Body
    <3> QED BY <2>1
  <2>3. Parse!Windows(n) = from[1]
    BY <1>2 DEF Parse!Windows
  <2>4. ASSUME NEW m \in 1..n PROVE Good(m)
    <3>1. SUFFICES ASSUME Bad # {} PROVE FALSE
      <4> HIDE DEF Good, from
      <4> QED BY <3>1
    <3>2. Bad \in SUBSET Nat /\ \A k \in Bad : k <= n
      <4> HIDE DEF Good, from
      <4> QED OBVIOUS
    <3>3. PICK k \in Bad : \A j \in Bad : j <= k
      <4> HIDE DEF Bad, from
      <4> QED BY <3>1, <3>2, Greatest
    <3>4. k \in 1..n /\ ~ Good(k) /\ \A j \in 1..n : j > k => Good(j)
      <4>1. k \in 1..n /\ ~ Good(k)
        <5> HIDE DEF Good, from
        <5> QED OBVIOUS
      <4>2. ASSUME NEW j \in 1..n, j > k PROVE Good(j)
        <5> HIDE DEF Good, from
        <5> QED BY <3>3, <4>1, <4>2
      <4> HIDE DEF Good, Bad, from
      <4> QED BY <4>1, <4>2
    <3> DEFINE l == Parse!End(k, n)
               y == Parse!After(k, l)
    <3>5. /\ l \in Nat /\ l - k < ChunkLimit /\ l \in k..n
          /\ l # n => k < n /\ y \in (k + 1)..n /\ y <= l + 1
      <4>1. k \in Nat \ {0} /\ k <= n
        BY <3>4
      <4> HIDE DEF l, y, Bad, Good, from
      <4> QED BY <4>1, WindowNext DEF l, y
    <3>6. from[k] = {<<k, l>>} \cup (IF l = n THEN {} ELSE from[y])
      <4>1. k \in 1..(n + ChunkLimit)
        BY <3>4, DeliveryAssumption
      <4>2. from[k] = Body(from, k)
        <5> HIDE DEF from, Body
        <5> QED BY <4>1, <2>2
      <4> HIDE DEF from
      <4> QED BY <4>2
    <3>7. l # n => Good(y)
      <4> HIDE DEF Good, from, l, y
      <4> QED BY <3>4, <3>5
    <3>8. Good(k)
      <4>1. ASSUME NEW x \in from[k] PROVE x[1] \in k..n /\ x[2] \in x[1]..n /\ x[2] - x[1] < ChunkLimit
        <5>1. CASE x = <<k, l>>
          <6> HIDE DEF from, l
          <6> QED BY <3>4, <3>5, <5>1
        <5>2. CASE l # n /\ x \in from[y]
          <6>1. x[1] \in y..n /\ x[2] \in x[1]..n /\ x[2] - x[1] < ChunkLimit
            <7> HIDE DEF from, l, y
            <7> QED BY <3>7, <5>2
          <6>2. k \in Nat /\ n \in Nat /\ y \in (k + 1)..n
            <7> HIDE DEF from, l, y
            <7> QED BY <3>4, <3>5, <5>2
          <6> HIDE DEF from, l, y
          <6> QED BY <6>1, <6>2
        <5> HIDE DEF from, l, y
        <5> QED BY <3>6, <5>1, <5>2
      <4>2. ASSUME NEW u \in k..n PROVE \E x \in from[k] : u \in x[1]..x[2]
        <5>1. CASE u \in k..l
          <6> HIDE DEF from, l, y
          <6>1. <<k, l>> \in from[k] /\ <<k, l>>[1] = k /\ <<k, l>>[2] = l
            BY <3>6
          <6> QED BY <5>1, <6>1
        <5>2. CASE u \notin k..l
          <6>1. l # n /\ u \in y..n
            <7> HIDE DEF from, l, y, Good, Bad
            <7> QED BY <3>4, <3>5, <5>2
          <6>2. PICK x \in from[y] : u \in x[1]..x[2]
            <7> HIDE DEF from, l, y
            <7> QED BY <6>1, <3>7
          <6> HIDE DEF from, l, y
          <6> QED BY <3>6, <6>1, <6>2
        <5> QED BY <5>1, <5>2
      <4> HIDE DEF from
      <4> QED BY <4>1, <4>2
    <3> HIDE DEF Good
    <3> QED BY <3>4, <3>8
  <2>5. Good(1) /\ 1 \in 1..n
    <3>1. 1 \in 1..n
      BY <1>2
    <3> HIDE DEF Good
    <3> QED BY <2>4, <3>1
  <2> HIDE DEF from
  <2> QED BY <1>2, <2>3, <2>5
<1> QED BY <1>1, <1>2

\* What the invariant says of the document and the job.
LEMMA ParseKnown ==
    ASSUME Parse!ParseInv
    PROVE  /\ p_doc \in Documents /\ p_doc.kind \in {"message", "attachment"} /\ p_doc.access \in BOOLEAN
           /\ p_doc.display \in Nat /\ p_doc.original \in Nat /\ p_doc.native \in Nat /\ p_doc.cloud \in Nat
           /\ p_version \in 1..(MaxChanges + 1) /\ p_attempt \in 1..MaxAttempts /\ p_faults \in 0..MaxFaults
           /\ p_pc # "done" => p_outcome = "none" /\ p_made = {}
           /\ p_display \in Nat /\ p_original \in Nat /\ p_parsed.units \in Nat
<1>1. p_doc \in Documents
  BY DEF Parse!ParseInv, Parse!TypeOK
<1>2. p_doc \in [kind : {"message", "attachment"}, access : BOOLEAN, ref : BOOLEAN,
                 check : {"ok", "huge", "meta", "hash"}, ext : {"local", "pdf", "docx"},
                 display : Nat, original : Nat, native : Nat, cloud : Nat]
  BY <1>1, DeliveryAssumption
<1> QED BY <1>1, <1>2 DEF Parse!ParseInv, Parse!TypeOK, Parse!Makes

\* As long as there are no chunks, only where the job stands and what it has read matter.
LEMMA ParseOn ==
    ASSUME Parse!ParseInv, p_pc # "done", p_doc' = p_doc, p_version' \in 1..(MaxChanges + 1),
           p_faults' \in 0..MaxFaults, p_attempt' \in 1..MaxAttempts, p_made' = {}, p_pc' # "done",
           p_outcome' = p_outcome, p_display' \in Nat, p_original' \in Nat, p_parsed'.units \in Nat,
           Parse!Stands', Parse!HasRead'
    PROVE  Parse!ParseInv'
<1>1. p_outcome' = "none" /\ p_doc \in Documents
  BY ParseKnown
<1>2. Parse!TypeOK'
  BY <1>1 DEF Parse!TypeOK
<1>3. Parse!NotForAFault' /\ Parse!Makes'
  BY <1>1 DEF Parse!NotForAFault, Parse!Makes
<1> QED BY <1>2, <1>3 DEF Parse!ParseInv

\* A job that ends without chunks, which it may call a document without content only when it is one.
LEMMA ParseEnds ==
    ASSUME Parse!ParseInv, p_pc # "done", p_doc' = p_doc, p_version' \in 1..(MaxChanges + 1),
           p_faults' \in 0..MaxFaults, p_attempt' = p_attempt, p_made' = {}, p_pc' = "done",
           p_outcome' \in {"failed", "metadata_only"}, p_display' \in Nat, p_original' \in Nat, p_parsed'.units \in Nat,
           Parse!NotForAFault'
    PROVE  Parse!ParseInv'
<1>1. p_attempt \in 1..MaxAttempts /\ p_doc \in Documents
  BY ParseKnown
<1>2. Parse!TypeOK'
  BY <1>1 DEF Parse!TypeOK
<1>3. Parse!Stands' /\ Parse!HasRead' /\ Parse!Makes'
  BY DEF Parse!Stands, Parse!HasRead, Parse!Makes, Parse!OfMessages, Parse!OfFiles
<1> QED BY <1>2, <1>3 DEF Parse!ParseInv

\* _retry_or_fail.
LEMMA ParseRaises ==
    ASSUME Parse!ParseInv, p_pc # "done", NEW r, Parse!Raise(r), p_doc' = p_doc, p_version' = p_version,
           p_faults' \in 0..MaxFaults, p_made' = {}, p_display' \in Nat, p_original' \in Nat, p_parsed'.units \in Nat
    PROVE  Parse!ParseInv'
<1>1. /\ p_attempt \in 1..MaxAttempts /\ p_version \in 1..(MaxChanges + 1)
      /\ p_outcome = "none" /\ MaxAttempts \in Nat
  BY ParseKnown, DeliveryAssumption
<1>2. CASE p_pc' = "metadata" /\ p_attempt' = p_attempt + 1 /\ p_attempt < MaxAttempts /\ p_outcome' = p_outcome
  <2>1. p_attempt' \in 1..MaxAttempts
    BY <1>1, <1>2
  <2>2. Parse!Stands' /\ Parse!HasRead'
    BY <1>2 DEF Parse!Stands, Parse!HasRead, Parse!OfMessages, Parse!OfFiles
  <2> QED BY <1>1, <1>2, <2>1, <2>2, ParseOn
<1>3. CASE p_pc' = "done" /\ p_outcome' = "failed" /\ p_attempt' = p_attempt
  <2>1. Parse!NotForAFault'
    BY <1>3 DEF Parse!NotForAFault
  <2> QED BY <1>1, <1>3, <2>1, ParseEnds
<1> QED BY <1>2, <1>3 DEF Parse!Raise, Parse!Ends

LEMMA ParseFaults == ASSUME Parse!ParseInv PROVE (Parse!Fault \/ UNCHANGED p_faults) => p_faults' \in 0..MaxFaults
BY ParseKnown, DeliveryAssumption DEF Parse!Fault

LEMMA ParseChanges == ASSUME Parse!ParseInv, Parse!Change PROVE Parse!ParseInv'
<1>1. UNCHANGED <<p_doc, p_pc, p_attempt, p_display, p_original, p_parsed, p_made, p_outcome, p_faults>>
  BY DEF Parse!Change, Parse!read
<1>2. p_version' \in 1..(MaxChanges + 1)
  BY SMTT(30), ParseKnown, DeliveryAssumption DEF Parse!Change
<1>3. Parse!TypeOK'
  BY <1>1, <1>2 DEF Parse!ParseInv, Parse!TypeOK
<1>4. Parse!NotForAFault' /\ Parse!Stands' /\ Parse!HasRead'
  BY <1>1 DEF Parse!ParseInv, Parse!NotForAFault, Parse!Stands, Parse!HasRead
<1>5. Parse!Makes'
  BY <1>1 DEF Parse!ParseInv, Parse!Makes, Parse!OfMessage, Parse!OfFile
<1> QED BY <1>1, <1>3, <1>4, <1>5 DEF Parse!ParseInv

LEMMA ParseMetadata == ASSUME Parse!ParseInv, Parse!Metadata PROVE Parse!ParseInv'
<1>1. /\ p_pc = "metadata" /\ p_doc' = p_doc /\ p_version' = p_version /\ p_made' = {}
      /\ p_display' = 0 /\ p_original' = 0 /\ p_parsed'.units = 0
  BY DEF Parse!Metadata, Parse!Unparsed
<1>2. p_faults' \in 0..MaxFaults
  BY ParseFaults DEF Parse!Metadata, Parse!Ask
<1>3. CASE Parse!Raise(TRUE)
  <2>1. p_pc # "done" /\ p_display' \in Nat /\ p_original' \in Nat /\ p_parsed'.units \in Nat
    BY <1>1
  <2> QED BY <1>1, <1>2, <1>3, <2>1, ParseRaises
<1>4. CASE IF p_doc.kind = "message" THEN Parse!To("display")
           ELSE IF p_doc.ref THEN Parse!To("fetch") ELSE Parse!Ends("metadata_only")
  <2>1. CASE p_doc.kind = "message" /\ Parse!To("display")
    <3>1. p_pc' = "display" /\ p_attempt' = p_attempt /\ p_outcome' = p_outcome
      BY <2>1 DEF Parse!To
    <3>2. Parse!Stands' /\ Parse!HasRead'
      BY <1>1, <2>1, <3>1 DEF Parse!Stands, Parse!HasRead, Parse!OfMessages, Parse!OfFiles
    <3> QED BY <1>1, <1>2, <3>1, <3>2, ParseOn, ParseKnown
  <2>2. CASE p_doc.kind # "message" /\ p_doc.ref /\ Parse!To("fetch")
    <3>1. p_pc' = "fetch" /\ p_attempt' = p_attempt /\ p_outcome' = p_outcome /\ p_doc.kind = "attachment"
      BY <2>2, ParseKnown DEF Parse!To
    <3>2. Parse!Stands' /\ Parse!HasRead'
      BY <1>1, <2>2, <3>1 DEF Parse!Stands, Parse!HasRead, Parse!OfMessages, Parse!OfFiles
    <3> QED BY <1>1, <1>2, <3>1, <3>2, ParseOn, ParseKnown
  <2>3. CASE p_doc.kind # "message" /\ ~ p_doc.ref /\ Parse!Ends("metadata_only")
    <3>1. p_pc' = "done" /\ p_attempt' = p_attempt /\ p_outcome' = "metadata_only"
      BY <2>3 DEF Parse!Ends
    <3>2. Parse!NotForAFault'
      BY <1>1, <2>3, <3>1 DEF Parse!NotForAFault
    <3> QED BY <1>1, <1>2, <3>1, <3>2, ParseEnds, ParseKnown
  <2> QED BY <1>4, <2>1, <2>2, <2>3
<1> QED BY <1>3, <1>4 DEF Parse!Metadata, Parse!Ask

LEMMA ParseChecks ==
    ASSUME Parse!ParseInv,
           Parse!Checked("display", "display_text") \/ Parse!Checked("original", "original_text")
    PROVE  Parse!ParseInv'
<1>1. UNCHANGED <<p_doc, p_version, p_display, p_original, p_parsed, p_made>> /\ p_pc \in {"display", "original"}
  BY DEF Parse!Checked, Parse!read
<1>2. p_faults' \in 0..MaxFaults
  BY ParseFaults DEF Parse!Checked, Parse!Ask
<1>3. CASE Parse!Raise(TRUE)
  BY <1>1, <1>2, <1>3, ParseRaises, ParseKnown
<1>4. CASE (p_pc = "display" /\ Parse!To("display_text")) \/ (p_pc = "original" /\ Parse!To("original_text"))
  <2>1. /\ p_attempt' = p_attempt /\ p_outcome' = p_outcome
        /\ (p_pc = "display" /\ p_pc' = "display_text") \/ (p_pc = "original" /\ p_pc' = "original_text")
    BY <1>4 DEF Parse!To
  <2>2. p_made = {}
    BY <1>1, ParseKnown
  <2>3. Parse!Stands' /\ Parse!HasRead'
    BY <1>1, <2>1, <2>2 DEF Parse!ParseInv, Parse!Stands, Parse!HasRead, Parse!OfMessages, Parse!OfFiles
  <2> QED BY <1>1, <1>2, <2>1, <2>2, <2>3, ParseOn, ParseKnown
<1> QED BY <1>3, <1>4 DEF Parse!Checked, Parse!Ask

LEMMA ParseDisplayText == ASSUME Parse!ParseInv, Parse!DisplayText PROVE Parse!ParseInv'
<1>1. /\ p_pc = "display_text" /\ p_display' = p_doc.display
      /\ UNCHANGED <<p_doc, p_version, p_original, p_parsed, p_made, p_faults>>
  BY DEF Parse!DisplayText
<1>2. p_doc.kind = "message" /\ p_made = {}
  BY <1>1, ParseKnown DEF Parse!ParseInv, Parse!Stands, Parse!OfMessages
<1>3. CASE p_doc.display = 0 /\ Parse!Ends("metadata_only")
  <2>1. p_pc' = "done" /\ p_attempt' = p_attempt /\ p_outcome' = "metadata_only"
    BY <1>3 DEF Parse!Ends
  <2>2. Parse!NotForAFault'
    BY <1>1, <1>2, <1>3, <2>1 DEF Parse!NotForAFault
  <2> QED BY <1>1, <1>2, <2>1, <2>2, ParseEnds, ParseKnown
<1>4. CASE p_doc.display # 0 /\ Parse!To(IF p_doc.access THEN "original" ELSE "chunk")
  <2>1. p_pc' = (IF p_doc.access THEN "original" ELSE "chunk") /\ p_attempt' = p_attempt /\ p_outcome' = p_outcome
    BY <1>4 DEF Parse!To
  <2>2. Parse!Stands'
    BY <1>1, <1>2, <2>1 DEF Parse!ParseInv, Parse!Stands, Parse!OfMessages, Parse!OfFiles
  <2>3. Parse!HasRead'
    <3>1. p_original = 0 /\ p_doc.kind # "attachment"
      BY <1>1, <1>2 DEF Parse!ParseInv, Parse!HasRead, Parse!OfMessages
    <3> QED BY <1>1, <1>2, <1>4, <2>1, <3>1 DEF Parse!HasRead, Parse!OfMessages
  <2> QED BY <1>1, <1>2, <2>1, <2>2, <2>3, ParseOn, ParseKnown
<1> QED BY <1>3, <1>4 DEF Parse!DisplayText

LEMMA ParseOriginalText == ASSUME Parse!ParseInv, Parse!OriginalText PROVE Parse!ParseInv'
<1>1. /\ p_pc = "original_text"
      /\ UNCHANGED <<p_doc, p_version, p_display, p_parsed, p_made, p_faults>>
  BY DEF Parse!OriginalText
<1>2. p_doc.kind = "message" /\ p_made = {} /\ p_doc.access /\ p_display = p_doc.display /\ p_display # 0
  BY <1>1, ParseKnown DEF Parse!ParseInv, Parse!Stands, Parse!HasRead, Parse!OfMessages
<1>3. CASE Parse!Raise(TRUE) /\ UNCHANGED p_original
  BY <1>1, <1>2, <1>3, ParseRaises, ParseKnown
<1>4. CASE p_doc.original # 0 /\ p_original' = p_doc.original /\ Parse!To("chunk")
  <2>1. p_pc' = "chunk" /\ p_attempt' = p_attempt /\ p_outcome' = p_outcome
    BY <1>4 DEF Parse!To
  <2>2. Parse!Stands' /\ Parse!HasRead'
    BY <1>1, <1>2, <1>4, <2>1 DEF Parse!Stands, Parse!HasRead, Parse!OfMessages, Parse!OfFiles
  <2> QED BY <1>1, <1>2, <1>4, <2>1, <2>2, ParseOn, ParseKnown
<1> QED BY <1>3, <1>4 DEF Parse!OriginalText

\* A call for the file that goes wrong, or brings the job to the next one.
LEMMA ParseCalls ==
    ASSUME Parse!ParseInv, p_pc \in Parse!OfFiles, NEW next \in Parse!OfFiles,
           Parse!To(next), UNCHANGED <<p_doc, p_version, p_display, p_original, p_parsed, p_made>>,
           p_faults' \in 0..MaxFaults, next = "local" => p_doc.ext \in {"local", "docx"},
           next \in {"submit", "poll", "download"} => p_doc.ext # "local"
    PROVE  Parse!ParseInv'
<1>1. p_pc' = next /\ p_attempt' = p_attempt /\ p_outcome' = p_outcome /\ p_pc # "done" /\ p_made = {} /\ next # "done"
  BY ParseKnown DEF Parse!To, Parse!OfFiles
<1>2. p_doc.kind = "attachment" /\ p_doc.ref
  BY DEF Parse!ParseInv, Parse!Stands
<1>3. Parse!Stands' /\ Parse!HasRead'
  BY <1>1, <1>2 DEF Parse!Stands, Parse!HasRead, Parse!OfMessages, Parse!OfFiles
<1> QED BY <1>1, <1>3, ParseOn, ParseKnown

LEMMA ParseFetches == ASSUME Parse!ParseInv, Parse!Fetch PROVE Parse!ParseInv'
<1>1. UNCHANGED <<p_doc, p_version, p_display, p_original, p_parsed, p_made>> /\ p_pc = "fetch" /\ p_made = {}
  BY ParseKnown DEF Parse!Fetch, Parse!read
<1>2. p_faults' \in 0..MaxFaults
  BY ParseFaults DEF Parse!Fetch
<1>3. CASE Parse!Raise(TRUE)
  BY <1>1, <1>2, <1>3, ParseRaises, ParseKnown
<1>4. CASE Parse!To("preflight")
  BY <1>1, <1>2, <1>4, ParseCalls DEF Parse!OfFiles
<1> QED BY <1>3, <1>4 DEF Parse!Fetch

LEMMA ParsePreflight == ASSUME Parse!ParseInv, Parse!Preflight PROVE Parse!ParseInv'
<1>1. UNCHANGED <<p_doc, p_version, p_display, p_original, p_parsed, p_made, p_faults>> /\ p_pc = "preflight" /\ p_made = {}
  BY ParseKnown DEF Parse!Preflight, Parse!read
<1>2. p_doc.kind = "attachment" /\ p_faults \in 0..MaxFaults
  BY <1>1, ParseKnown DEF Parse!ParseInv, Parse!Stands, Parse!OfFiles
<1>3. CASE p_doc.check = "meta" /\ Parse!Ends("metadata_only")
  <2>1. p_pc' = "done" /\ p_attempt' = p_attempt /\ p_outcome' = "metadata_only"
    BY <1>3 DEF Parse!Ends
  <2>2. Parse!NotForAFault'
    BY <1>1, <1>2, <1>3, <2>1 DEF Parse!NotForAFault
  <2> QED BY <1>1, <1>2, <2>1, <2>2, ParseEnds, ParseKnown
<1>4. CASE Parse!Raise(FALSE)
  BY <1>1, <1>2, <1>4, ParseRaises, ParseKnown
<1>5. CASE Parse!To(IF p_doc.ext = "local" THEN "local" ELSE "submit")
  BY <1>1, <1>2, <1>5, ParseCalls DEF Parse!OfFiles
<1> QED BY <1>3, <1>4, <1>5 DEF Parse!Preflight

\* A parser has read the file.
LEMMA ParseReads ==
    ASSUME Parse!ParseInv, p_pc \in {"local", "download"}, NEW n \in Nat, NEW by, Parse!Parsed(n, by),
           UNCHANGED <<p_doc, p_version, p_display, p_original, p_made, p_faults>>,
           p_doc.ext # "docx" => n = IF p_doc.ext = "local" THEN p_doc.native ELSE p_doc.cloud
    PROVE  Parse!ParseInv'
<1>1. p_parsed'.units = n /\ p_pc' = "chunk" /\ p_attempt' = p_attempt /\ p_outcome' = p_outcome /\ p_made = {}
  BY ParseKnown DEF Parse!Parsed, Parse!To
<1>2. p_doc.kind = "attachment"
  BY DEF Parse!ParseInv, Parse!Stands, Parse!OfFiles
<1>3. Parse!Stands' /\ Parse!HasRead'
  BY <1>1, <1>2 DEF Parse!Stands, Parse!HasRead, Parse!OfMessages, Parse!OfFiles
<1> QED BY <1>1, <1>3, ParseOn, ParseKnown

LEMMA ParseLocal == ASSUME Parse!ParseInv, Parse!Local PROVE Parse!ParseInv'
<1>1. UNCHANGED <<p_doc, p_version, p_display, p_original, p_made, p_faults>> /\ p_pc = "local" /\ p_made = {}
  BY ParseKnown DEF Parse!Local
<1>2. p_doc.kind = "attachment" /\ p_doc.ext \in {"local", "docx"}
  BY <1>1 DEF Parse!ParseInv, Parse!Stands, Parse!OfFiles
<1>3. CASE p_doc.native = Parse!Broken /\ Parse!Ends("metadata_only") /\ UNCHANGED p_parsed
  <2>1. p_pc' = "done" /\ p_attempt' = p_attempt /\ p_outcome' = "metadata_only"
    BY <1>3 DEF Parse!Ends
  <2>2. Parse!NotForAFault'
    BY <1>1, <1>2, <1>3, <2>1 DEF Parse!NotForAFault, Parse!Broken
  <2> QED BY <1>1, <1>3, <2>1, <2>2, ParseEnds, ParseKnown
<1>4. CASE Parse!Parsed(p_doc.native, "local")
  BY <1>1, <1>2, <1>4, ParseReads, ParseKnown
<1> QED BY <1>3, <1>4 DEF Parse!Local

\* _without: a DOCX is read in the process, the rest is tried again or given up.
LEMMA ParseWithout ==
    ASSUME Parse!ParseInv, p_pc \in {"submit", "poll", "download"}, NEW r, Parse!Without(r),
           UNCHANGED <<p_doc, p_version, p_display, p_original, p_parsed, p_made>>, p_faults' \in 0..MaxFaults
    PROVE  Parse!ParseInv'
<1>1. p_made = {} /\ p_pc \in Parse!OfFiles /\ p_pc # "done"
  BY ParseKnown DEF Parse!OfFiles
<1>2. CASE p_doc.ext = "docx" /\ Parse!To("local")
  BY <1>1, <1>2, ParseCalls DEF Parse!OfFiles
<1>3. CASE Parse!Raise(r)
  BY <1>1, <1>3, ParseRaises, ParseKnown
<1> QED BY <1>2, <1>3 DEF Parse!Without

LEMMA ParseMinerU == ASSUME Parse!ParseInv, Parse!Submit \/ Parse!Poll \/ Parse!Download PROVE Parse!ParseInv'
<1>1. /\ p_pc \in {"submit", "poll", "download"} /\ UNCHANGED <<p_doc, p_version, p_display, p_original, p_made>>
      /\ p_faults' \in 0..MaxFaults
  BY ParseFaults DEF Parse!Submit, Parse!Poll, Parse!Download, Parse!read
<1>2. p_doc.ext # "local" /\ p_pc \in Parse!OfFiles
  BY <1>1 DEF Parse!ParseInv, Parse!Stands, Parse!OfFiles
<1>3. CASE (Parse!To("poll") \/ Parse!To("download")) /\ UNCHANGED p_parsed
  BY <1>1, <1>2, <1>3, ParseCalls DEF Parse!OfFiles
<1>4. CASE (Parse!Without(TRUE) \/ Parse!Without(FALSE)) /\ UNCHANGED p_parsed
  BY <1>1, <1>4, ParseWithout
<1>5. CASE p_pc = "download" /\ Parse!Parsed(p_doc.cloud, "mineru") /\ UNCHANGED p_faults
  BY <1>1, <1>2, <1>5, ParseReads, ParseKnown
<1> QED BY <1>3, <1>4, <1>5 DEF Parse!Submit, Parse!Poll, Parse!Download, Parse!read

\* A text without a unit, and no other, has no chunk.
LEMMA ChunksOf ==
    ASSUME NEW variant, NEW of, NEW n \in Nat
    PROVE  /\ n = 0 <=> Parse!Chunks(variant, of, n) = {}
           /\ \A c \in Parse!Chunks(variant, of, n) :
                /\ c.variant = variant /\ c.of = of /\ c.first \in 1..n /\ c.last \in c.first..n
                /\ c.last - c.first < ChunkLimit
           /\ \A u \in 1..n : \E c \in Parse!Chunks(variant, of, n) : u \in c.first..c.last
<1> DEFINE W == Parse!Windows(n)
           C(x) == [variant |-> variant, of |-> of, first |-> x[1], last |-> x[2]]
<1>1. Parse!Chunks(variant, of, n) = {C(x) : x \in W}
  BY DEF Parse!Chunks
<1>2. \A x : C(x).variant = variant /\ C(x).of = of /\ C(x).first = x[1] /\ C(x).last = x[2]
  OBVIOUS
<1> HIDE DEF C, W
<1>3. \A x \in W : x[1] \in 1..n /\ x[2] \in x[1]..n /\ x[2] - x[1] < ChunkLimit
  BY WindowsCover DEF W
<1>4. \A u \in 1..n : \E x \in W : u \in x[1]..x[2]
  BY WindowsCover DEF W
<1>5. n = 0 => W = {}
  BY WindowsCover DEF W
<1>6. n # 0 => W # {}
  <2>1. n # 0 => 1 \in 1..n
    OBVIOUS
  <2> QED BY <2>1, <1>4
<1>7. \A u \in 1..n : \E c \in {C(x) : x \in W} : u \in c.first..c.last
  <2>1. ASSUME NEW u \in 1..n PROVE \E c \in {C(x) : x \in W} : u \in c.first..c.last
    <3>1. PICK x \in W : u \in x[1]..x[2]
      BY <1>4
    <3>2. C(x) \in {C(z) : z \in W} /\ u \in C(x).first..C(x).last
      BY <1>2, <3>1
    <3> QED BY <3>2
  <2> QED BY <2>1
<1> QED BY <1>1, <1>2, <1>3, <1>5, <1>6, <1>7

LEMMA ParseChunks == ASSUME Parse!ParseInv, Parse!Chunk PROVE Parse!ParseInv'
<1>1. p_pc = "chunk" /\ UNCHANGED <<p_doc, p_version, p_display, p_original, p_parsed, p_faults>> /\ p_made = {}
  BY ParseKnown DEF Parse!Chunk
<1>2. Parse!HasRead
  BY DEF Parse!ParseInv
<1> DEFINE cs == IF p_doc.kind = "message" THEN Parse!OfMessage ELSE Parse!OfFile(p_doc)
<1>3. CASE (cs = {} \/ (p_doc.kind # "message" /\ p_parsed.units = 0)) /\ Parse!Ends("metadata_only") /\ UNCHANGED p_made
  <2>1. p_pc' = "done" /\ p_attempt' = p_attempt /\ p_outcome' = "metadata_only"
    BY <1>3 DEF Parse!Ends
  <2>2. p_doc.kind = "message" => cs # {}
    <3>1. SUFFICES ASSUME p_doc.kind = "message" PROVE cs # {}
      OBVIOUS
    <3>2. p_display # 0 /\ p_display \in Nat
      BY <1>1, <1>2, <3>1, ParseKnown DEF Parse!HasRead
    <3>3. Parse!Chunks("display", "display", p_display) # {}
      BY <3>2, ChunksOf
    <3> QED BY <3>1, <3>3 DEF Parse!OfMessage
  <2>3. p_doc.kind # "message" => p_parsed.units = 0
    <3>1. SUFFICES ASSUME p_doc.kind # "message", cs = {} PROVE p_parsed.units = 0
      <4> HIDE DEF cs
      <4> QED BY <1>3
    <3>2. Parse!Chunks("protected", "file", p_parsed.units) = {} \/ Parse!Chunks("display", "file", p_parsed.units) = {}
      BY <3>1 DEF Parse!OfFile
    <3> QED BY <3>2, ChunksOf, ParseKnown
  <2>4. Parse!NotForAFault'
    <3>1. SUFFICES ASSUME p_doc.ext # "docx" PROVE
            p_doc.kind # "message" /\ (IF p_doc.ext = "local" THEN p_doc.native ELSE p_doc.cloud) = 0
      <4> HIDE DEF cs
      <4> QED BY <1>1, <3>1 DEF Parse!NotForAFault
    <3>2. p_doc.kind # "message" /\ p_doc.kind = "attachment"
      <4> HIDE DEF cs
      <4> QED BY <1>3, <2>2, ParseKnown
    <3> QED BY <1>1, <1>2, <2>3, <3>1, <3>2 DEF Parse!HasRead
  <2> QED BY <1>1, <1>3, <2>1, <2>4, ParseEnds, ParseKnown
<1>4. CASE cs # {} /\ (p_doc.kind # "message" => p_parsed.units # 0) /\ p_made' = cs /\ Parse!Ends("succeeded")
  <2>1. p_pc' = "done" /\ p_attempt' = p_attempt /\ p_outcome' = "succeeded"
    BY <1>4 DEF Parse!Ends
  <2>2. Parse!TypeOK'
    <3>1. \A c \in cs : c.variant \in {"display", "protected"} /\ c.first <= c.last
      <4>1. ASSUME NEW variant \in {"display", "protected"}, NEW of, NEW n \in Nat, NEW c \in Parse!Chunks(variant, of, n)
            PROVE  c.variant \in {"display", "protected"} /\ c.first <= c.last
        <5>1. c.variant = variant /\ c.first \in 1..n /\ c.last \in c.first..n
          BY ChunksOf
        <5> QED BY <5>1
      <4> QED BY <4>1, ParseKnown DEF Parse!OfMessage, Parse!OfFile
    <3>2. \A c \in p_made' : c.variant \in {"display", "protected"} /\ c.first <= c.last
      <4> HIDE DEF cs
      <4> QED BY <1>4, <3>1
    <3> HIDE DEF cs
    <3> QED BY <1>1, <2>1, <3>2, ParseKnown DEF Parse!TypeOK
  <2>3. Parse!NotForAFault' /\ Parse!Stands'
    <3> HIDE DEF cs
    <3> QED BY <2>1 DEF Parse!NotForAFault, Parse!Stands, Parse!OfMessages, Parse!OfFiles
  <2>4. Parse!HasRead'
    <3> HIDE DEF cs
    <3> QED BY <1>1, <1>2, <1>4, <2>1 DEF Parse!HasRead, Parse!OfMessages
  <2>5. Parse!Makes'
    <3>1. cs' = cs
      BY <1>1 DEF Parse!OfMessage, Parse!OfFile
    <3>2. p_made' = (IF p_doc.kind = "message" THEN Parse!OfMessage ELSE Parse!OfFile(p_doc))'
      BY <1>4, <3>1
    <3>3. p_made' # {}
      <4> HIDE DEF cs
      <4> QED BY <1>4
    <3> HIDE DEF cs
    <3> QED BY <2>1, <3>2, <3>3 DEF Parse!Makes
  <2> HIDE DEF cs
  <2> QED BY <1>1, <2>2, <2>3, <2>4, <2>5, ParseKnown DEF Parse!ParseInv
<1> QED BY <1>3, <1>4 DEF Parse!Chunk

LEMMA ParseStart == Parse!Init => Parse!ParseInv
<1> SUFFICES ASSUME Parse!Init PROVE Parse!ParseInv
  OBVIOUS
<1>1. /\ p_doc \in Documents /\ p_version = 1 /\ p_pc = "metadata" /\ p_attempt = 1
      /\ p_display = 0 /\ p_original = 0 /\ p_parsed.units = 0 /\ p_made = {} /\ p_outcome = "none" /\ p_faults = 0
  BY DEF Parse!Init, Parse!Unparsed
<1>2. Parse!TypeOK
  BY <1>1, DeliveryAssumption DEF Parse!TypeOK
<1>3. Parse!NotForAFault /\ Parse!Stands /\ Parse!HasRead /\ Parse!Makes
  BY <1>1 DEF Parse!NotForAFault, Parse!Stands, Parse!HasRead, Parse!Makes, Parse!OfMessages, Parse!OfFiles
<1> QED BY <1>1, <1>2, <1>3 DEF Parse!ParseInv

LEMMA ParseStep == ASSUME Parse!ParseInv, Parse!Next PROVE Parse!ParseInv'
BY ParseChanges, ParseMetadata, ParseChecks, ParseDisplayText, ParseOriginalText, ParseFetches, ParsePreflight,
   ParseLocal, ParseMinerU, ParseChunks DEF Parse!Next

LEMMA ParseStill == ASSUME Parse!ParseInv, UNCHANGED parseVars PROVE Parse!ParseInv'
<1>1. /\ UNCHANGED <<p_doc, p_version, p_pc, p_attempt, p_display, p_original>>
      /\ UNCHANGED <<p_parsed, p_made, p_outcome, p_faults>>
  BY DEF parseVars
<1>2. Parse!TypeOK' /\ Parse!NotForAFault' /\ Parse!Stands' /\ Parse!HasRead'
  BY <1>1 DEF Parse!ParseInv, Parse!TypeOK, Parse!NotForAFault, Parse!Stands, Parse!HasRead
<1>3. Parse!Makes'
  BY <1>1 DEF Parse!ParseInv, Parse!Makes, Parse!OfMessage, Parse!OfFile
<1> QED BY <1>1, <1>2, <1>3 DEF Parse!ParseInv

\* The chunks are those of what was read, so they show what may be shown and leave out nothing.
LEMMA ParsedWell == ASSUME Parse!ParseInv PROVE Parse!ParsedRight
<1>1. /\ p_doc.kind \in {"message", "attachment"} /\ p_doc.access \in BOOLEAN
      /\ p_doc.display \in Nat /\ p_doc.original \in Nat
      /\ p_display \in Nat /\ p_original \in Nat /\ p_parsed.units \in Nat
  BY ParseKnown
<1> DEFINE cs == IF p_doc.kind = "message" THEN Parse!OfMessage ELSE Parse!OfFile(p_doc)
<1>2. p_made # {} => p_made = cs
  BY DEF Parse!ParseInv, Parse!Makes
<1>3. p_outcome = "succeeded" => p_made # {}
  BY DEF Parse!ParseInv, Parse!Makes
<1>4. p_made # {} /\ p_doc.kind = "message" =>
        /\ p_display = p_doc.display /\ p_display # 0
        /\ p_original = p_doc.original \/ ~ p_doc.access
        /\ (IF p_doc.access THEN p_original # 0 ELSE p_original = 0)
  BY DEF Parse!ParseInv, Parse!HasRead
<1>5. p_made # {} /\ p_doc.kind # "message" => p_parsed.units # 0
  BY DEF Parse!ParseInv, Parse!HasRead
\* One text makes the chunks of one variant.
<1> DEFINE Of(v) == CASE p_doc.kind = "message" /\ v = "display" -> "display"
                      [] p_doc.kind = "message" /\ v = "protected" -> "original"
                      [] p_doc.kind # "message" /\ p_doc.access /\ v = "display" -> "display"
                      [] OTHER -> "file"
<1>6. ASSUME p_made # {}, NEW v \in {"display", "protected"}, NEW c \in p_made, c.variant = v
      PROVE  {x \in p_made : x.variant = v} = Parse!Chunks(v, Of(v), Parse!Size(Of(v)))
  <2>1. p_made = cs
    BY <1>2, <1>6
  <2>2. \A variant, of : \A n \in Nat : \A x \in Parse!Chunks(variant, of, n) : x.variant = variant
    BY ChunksOf
  <2>3. \A variant, of : Parse!Chunks(variant, of, 0) = {}
    BY ChunksOf
  <2>4. CASE p_doc.kind = "message"
    <3>1. p_made = Parse!Chunks("display", "display", p_doc.display) \cup Parse!Chunks("protected", "original", p_original)
      BY <2>1, <2>4, <1>4, <1>6 DEF Parse!OfMessage
    <3>2. \A x \in Parse!Chunks("display", "display", p_doc.display) : x.variant = "display"
      BY <1>1, <2>2
    <3>3. \A x \in Parse!Chunks("protected", "original", p_original) : x.variant = "protected"
      BY <1>1, <2>2
    <3>4. CASE v = "display"
      <4>1. {x \in p_made : x.variant = v} = Parse!Chunks("display", "display", p_doc.display)
        BY <3>1, <3>2, <3>3, <3>4
      <4>2. Of(v) = "display" /\ Parse!Size("display") = p_doc.display
        BY <2>4, <3>4 DEF Parse!Size
      <4> HIDE DEF Of
      <4> QED BY <3>4, <4>1, <4>2
    <3>5. CASE v = "protected"
      <4>1. {x \in p_made : x.variant = v} = Parse!Chunks("protected", "original", p_original)
        BY <3>1, <3>2, <3>3, <3>5
      <4>2. Of(v) = "original" /\ Parse!Size("original") = p_doc.original
        BY <2>4, <3>5 DEF Parse!Size
      <4>3. p_original = p_doc.original
        <5>1. p_original # 0
          BY <4>1, <1>6, <2>3
        <5> QED BY <5>1, <1>1, <1>4, <1>6, <2>4
      <4> HIDE DEF Of
      <4> QED BY <3>5, <4>1, <4>2, <4>3
    <3> QED BY <3>4, <3>5
  <2>5. CASE p_doc.kind # "message" /\ p_doc.access
    <3>1. p_made = Parse!Chunks("protected", "file", p_parsed.units) \cup Parse!Chunks("display", "display", p_doc.display)
      BY <2>1, <2>5 DEF Parse!OfFile
    <3>2. \A x \in Parse!Chunks("display", "display", p_doc.display) : x.variant = "display"
      BY <1>1, <2>2
    <3>3. \A x \in Parse!Chunks("protected", "file", p_parsed.units) : x.variant = "protected"
      BY <1>1, <2>2
    <3>4. CASE v = "display"
      <4>1. {x \in p_made : x.variant = v} = Parse!Chunks("display", "display", p_doc.display)
        BY <3>1, <3>2, <3>3, <3>4
      <4>2. Of(v) = "display" /\ Parse!Size("display") = p_doc.display
        BY <2>5, <3>4 DEF Parse!Size
      <4> HIDE DEF Of
      <4> QED BY <3>4, <4>1, <4>2
    <3>5. CASE v = "protected"
      <4>1. {x \in p_made : x.variant = v} = Parse!Chunks("protected", "file", p_parsed.units)
        BY <3>1, <3>2, <3>3, <3>5
      <4>2. Of(v) = "file" /\ Parse!Size("file") = p_parsed.units
        BY <2>5, <3>5 DEF Parse!Size
      <4> HIDE DEF Of
      <4> QED BY <3>5, <4>1, <4>2
    <3> QED BY <3>4, <3>5
  <2>6. CASE p_doc.kind # "message" /\ ~ p_doc.access
    <3>1. p_made = Parse!Chunks("display", "file", p_parsed.units)
      BY <2>1, <2>6 DEF Parse!OfFile
    <3>2. \A x \in p_made : x.variant = "display"
      BY <1>1, <2>2, <3>1
    <3>3. v = "display" /\ {x \in p_made : x.variant = v} = p_made
      BY <1>6, <3>2
    <3>4. Of(v) = "file" /\ Parse!Size("file") = p_parsed.units
      BY <2>6 DEF Parse!Size
    <3> HIDE DEF Of
    <3> QED BY <3>1, <3>3, <3>4
  <2> HIDE DEF Of, cs
  <2> QED BY <2>4, <2>5, <2>6
<1>7. \A v \in {"display", "protected"} : Parse!Size(Of(v)) \in Nat
  BY <1>1 DEF Parse!Size
<1>8. \A c \in p_made : c.variant \in {"display", "protected"}
  BY DEF Parse!ParseInv, Parse!TypeOK
<1>9. Parse!Covered
  <2>1. ASSUME NEW v \in {c.variant : c \in p_made} PROVE
          /\ \A c \in {x \in p_made : x.variant = v} : c.last - c.first < ChunkLimit
          /\ \A c \in {x \in p_made : x.variant = v} :
                UNION {x.first..x.last : x \in {y \in p_made : y.variant = v}} = 1..Parse!Size(c.of)
    <3> DEFINE n == Parse!Size(Of(v))
               S == {x \in p_made : x.variant = v}
    <3>1. PICK d \in p_made : d.variant = v
      BY <2>1
    <3>2. v \in {"display", "protected"} /\ p_made # {}
      BY <1>8, <3>1
    <3>3. S = Parse!Chunks(v, Of(v), n)
      <4> HIDE DEF Of
      <4> QED BY <1>6, <3>1, <3>2
    <3>4. n \in Nat
      <4> HIDE DEF Of
      <4> QED BY <1>7, <3>2
    <3>5. /\ \A c \in S : c.of = Of(v) /\ c.first \in 1..n /\ c.last \in c.first..n /\ c.last - c.first < ChunkLimit
          /\ \A u \in 1..n : \E c \in S : u \in c.first..c.last
      <4> HIDE DEF S, n, Of
      <4> QED BY <3>3, <3>4, ChunksOf
    <3>6. ASSUME NEW c \in S, NEW u \in c.first..c.last PROVE u \in 1..n
      <4>1. c.first \in 1..n /\ c.last \in c.first..n
        <5> HIDE DEF S, n, Of
        <5> QED BY <3>5
      <4> HIDE DEF S, n, Of
      <4> QED BY <3>4, <4>1
    <3>7. UNION {x.first..x.last : x \in S} = 1..n
      <4>1. ASSUME NEW u \in UNION {x.first..x.last : x \in S} PROVE u \in 1..n
        <5>1. PICK c \in S : u \in c.first..c.last
          <6> HIDE DEF S, n, Of
          <6> QED OBVIOUS
        <5> HIDE DEF S, n, Of
        <5> QED BY <3>6, <5>1
      <4>2. ASSUME NEW u \in 1..n PROVE u \in UNION {x.first..x.last : x \in S}
        <5>1. PICK c \in S : u \in c.first..c.last
          <6> HIDE DEF S, n, Of
          <6> QED BY <3>5
        <5> HIDE DEF S, n, Of
        <5> QED BY <5>1
      <4> HIDE DEF S, n, Of
      <4> QED BY <4>1, <4>2
    <3>8. \A c \in S : Parse!Size(c.of) = n
      <4> HIDE DEF S, Of
      <4> QED BY <3>5
    <3> HIDE DEF n, Of
    <3> QED BY <3>5, <3>7, <3>8
  <2> QED BY <2>1 DEF Parse!Covered
<1>10. Parse!Masked
  <2>1. SUFFICES ASSUME p_doc.access, NEW c \in p_made, c.variant = "display" PROVE c.of = "display"
    BY DEF Parse!Masked
  <2>2. {x \in p_made : x.variant = "display"} = Parse!Chunks("display", Of("display"), Parse!Size(Of("display")))
    <3> HIDE DEF Of
    <3> QED BY <1>6, <2>1
  <2>3. Of("display") = "display"
    BY <1>1, <2>1
  <2>4. c \in Parse!Chunks("display", "display", Parse!Size("display"))
    <3> HIDE DEF Of
    <3> QED BY <2>1, <2>2, <2>3
  <2>5. Parse!Size("display") \in Nat
    <3>1. "display" \in {"display", "protected"}
      OBVIOUS
    <3> HIDE DEF Of
    <3> QED BY <1>7, <2>3, <3>1
  <2> HIDE DEF Of
  <2> QED BY <2>4, <2>5, ChunksOf
<1>11. Parse!BothVariants
  <2>1. SUFFICES ASSUME p_outcome = "succeeded", p_doc.access
                 PROVE  /\ \E c \in p_made : c.variant = "protected"
                        /\ p_doc.display > 0 => \E c \in p_made : c.variant = "display"
    BY DEF Parse!BothVariants
  <2>2. p_made # {} /\ p_made = cs
    <3> HIDE DEF cs
    <3> QED BY <1>2, <1>3, <2>1
  <2>3. ASSUME NEW variant, NEW of, NEW n \in Nat \ {0}, Parse!Chunks(variant, of, n) \subseteq p_made
        PROVE  \E c \in p_made : c.variant = variant
    <3>1. PICK c \in Parse!Chunks(variant, of, n) : TRUE
      BY <2>3, ChunksOf
    <3>2. c.variant = variant
      BY <3>1, ChunksOf
    <3> QED BY <2>3, <3>1, <3>2
  <2>4. CASE p_doc.kind = "message"
    <3>1. /\ Parse!Chunks("display", "display", p_display) \subseteq p_made
          /\ Parse!Chunks("protected", "original", p_original) \subseteq p_made
      BY <2>2, <2>4 DEF Parse!OfMessage
    <3>2. p_display \in Nat \ {0} /\ p_original \in Nat \ {0}
      <4> HIDE DEF cs
      <4> QED BY <1>1, <1>4, <2>1, <2>2, <2>4
    <3> HIDE DEF cs
    <3> QED BY <2>3, <3>1, <3>2
  <2>5. CASE p_doc.kind # "message"
    <3>1. /\ Parse!Chunks("display", "display", p_doc.display) \subseteq p_made
          /\ Parse!Chunks("protected", "file", p_parsed.units) \subseteq p_made
      BY <2>1, <2>2, <2>5 DEF Parse!OfFile
    <3>2. p_parsed.units \in Nat \ {0}
      <4> HIDE DEF cs
      <4> QED BY <1>1, <1>5, <2>2, <2>5
    <3>3. p_doc.display > 0 => p_doc.display \in Nat \ {0}
      BY <1>1
    <3> HIDE DEF cs
    <3> QED BY <2>3, <3>1, <3>2, <3>3
  <2> QED BY <2>4, <2>5
<1> QED BY <1>9, <1>10, <1>11 DEF Parse!ParsedRight, Parse!ParseInv

-----------------------------------------------------------------------------
\* One component moves in a step, and the rest stand still.
LEMMA DesktopMoves ==
    ASSUME [Next]_vars
    PROVE  focus' = focus /\ ((focus = "desktop" /\ Desktop!Next) \/ UNCHANGED desktopVars)
BY DEF Next, vars, DeviceOnly, DesktopOnly, AnswersOnly, GroupOnly, ParseOnly, AnswerOnly, ResearchOnly, JsonOnly, ReportOnly

LEMMA GroupMoves ==
    ASSUME [Next]_vars
    PROVE  focus' = focus /\ ((focus = "group" /\ Group!Next) \/ UNCHANGED groupVars)
BY DEF Next, vars, DeviceOnly, DesktopOnly, AnswersOnly, GroupOnly, ParseOnly, AnswerOnly, ResearchOnly, JsonOnly, ReportOnly

LEMMA ParseMoves ==
    ASSUME [Next]_vars
    PROVE  focus' = focus /\ ((focus = "parse" /\ Parse!Next) \/ UNCHANGED parseVars)
BY DEF Next, vars, DeviceOnly, DesktopOnly, AnswersOnly, GroupOnly, ParseOnly, AnswerOnly, ResearchOnly, JsonOnly, ReportOnly

\* The computer of the owner performs what the agent asks at most once, and nothing it
\* wrote is filed as not written, for any number of operations and of faults
\* (claim_task, complete_task, runOne, _execute).
THEOREM DesktopOnceAndInTheOpen == Spec => []OnDesktop
<1> DEFINE I == focus = "desktop" => Desktop!DesktopInv
<1>1. Init => I
  BY DesktopStart DEF Init
<1>2. ASSUME I, [Next]_vars PROVE I'
  BY <1>2, DesktopMoves, DesktopStep, DesktopStill
<1>3. I => OnDesktop
  BY DEF OnDesktop, Desktop!DesktopInv
<1> QED BY <1>1, <1>2, <1>3, PTL DEF Spec

\* Of the events of the RAG service none is acknowledged that was not handled to the end or
\* moved to the dead letters, whoever claims it from whom, for every number of workers,
\* events, pages and retries; and what is indexed of a parsed document, of any length, is the
\* text that the reader may see, without a gap (redis_streams.py, MVPIndexService,
\* build_variant_chunks).
THEOREM NothingLostOrShown == Spec => []Ingested
<1> DEFINE I == /\ focus = "group" => Group!GroupInv
                /\ focus = "parse" => Parse!ParseInv
<1>1. Init => I
  BY GroupStart, ParseStart DEF Init
<1>2. ASSUME I, [Next]_vars PROVE I'
  <2>1. (focus = "group" => Group!GroupInv)'
    BY <1>2, GroupMoves, GroupStep, GroupStill
  <2>2. (focus = "parse" => Parse!ParseInv)'
    BY <1>2, ParseMoves, ParseStep, ParseStill
  <2> QED BY <2>1, <2>2
<1>3. I => Ingested
  <2>1. focus = "group" /\ Group!GroupInv => Group!Consumed
    BY DEF Group!GroupInv
  <2>2. focus = "parse" /\ Parse!ParseInv => Parse!ParsedRight
    BY ParsedWell
  <2> QED BY <2>1, <2>2 DEF Ingested
<1> QED BY <1>1, <1>2, <1>3, PTL DEF Spec
=============================================================================
