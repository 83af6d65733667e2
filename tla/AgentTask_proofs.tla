-------------------------- MODULE AgentTask_proofs ---------------------------
(* Theorems about AgentTask, for every number of processes, requests and     *)
(* steps, and for every value of the limits: types and leases, what approval  *)
(* covers, one request id per step, and what the call row and the attempt      *)
(* counter guarantee until two threads of one process drive the Task at once: *)
(* no call after an answer, and no more calls than attempts.                  *)
EXTENDS AgentTask, TLAPS

-----------------------------------------------------------------------------
(* Types.  TypeOK is not inductive: a thread at work on a step must have one, *)
(* and a request that decides must have an approval.                          *)

StepLabels == {"recover", "check", "request", "start", "call_read", "call_save",
               "invoke", "call_finish", "settle"}
AtStep(r) == \/ r.pc \in StepLabels
             \/ r.goal = "executing" /\ r.pc \in {"get_task", "save_plan", "commit"}
WorkingDriver == {r \in Driver : AtStep(r) => r.cur \in Steps}
DecidingRequest == {r \in Request : r.pc \in {"step", "save"} => r.ap \in 1..MaxApprovals}
TypeInv ==
    /\ TypeOK
    /\ drv \in [Drivers -> WorkingDriver]
    /\ api \in [Requests -> DecidingRequest]

\* A row that was never written is a row.
LEMMA RowTypes == NewStep \in StepRow /\ NewTask \in TaskRow
BY LimitsAssumption DEF NewStep, NewTask, StepRow, TaskRow, StepStatuses, TaskStatuses, Args

\* A thread that holds nothing may stand at any label where no step is at work.
LEMMA IdleType ==
    /\ IdleDriver \in WorkingDriver
    /\ \A l \in Labels \ StepLabels : [IdleDriver EXCEPT !.pc = l] \in WorkingDriver
BY RowTypes, NAssumption
   DEF Driver, IdleDriver, WorkingDriver, Labels, Goals, Outcomes, StepLabels, AtStep

\* The rows that are shared, each of its type.
LEMMA RowsTyped ==
    ASSUME TypeInv
    PROVE  /\ task \in TaskRow /\ step \in [Steps -> StepRow] /\ invoked \in [Steps -> Nat]
           /\ call \in [Steps -> [status : CallStatuses, req : Nat]]
BY DEF TypeInv, TypeOK

\* Replacing one thread by a well-typed one.
LEMMA Replaced ==
    ASSUME TypeInv, NEW d \in Drivers, NEW q \in WorkingDriver, drv' = [drv EXCEPT ![d] = q]
    PROVE  drv' \in [Drivers -> WorkingDriver]
BY DEF TypeInv

\* The thread d at work on a step has a well-typed row of it.
LEMMA AtWork ==
    ASSUME TypeInv, NEW d \in Drivers
    PROVE  /\ drv[d].mine \in StepRow /\ drv[d].seen \in TaskRow /\ drv[d].req \in Nat
           /\ drv[d].snap \in [Steps -> StepRow] /\ drv[d].goal \in Goals
           /\ drv[d].out \in Outcomes \cup Decisions /\ drv[d].pc \in Labels
           /\ drv[d] \in Driver
           /\ drv[d].pc \in StepLabels => drv[d].cur \in Steps
BY DEF TypeInv, WorkingDriver, Driver, AtStep

\* Goto: only a thread with a step may go to a label where one is at work.
LEMMA Gone_to ==
    ASSUME TypeInv, NEW d \in Drivers, NEW l \in Labels, Goto(d, l),
           drv[d].cur \in Steps \/ l \notin StepLabels \cup {"get_task", "save_plan", "commit"}
    PROVE  drv' \in [Drivers -> WorkingDriver]
<1> DEFINE q == [drv[d] EXCEPT !.pc = l]
<1>1. q \in Driver /\ q.pc = l /\ q.cur = drv[d].cur
  BY DEF TypeInv, WorkingDriver, Driver
<1>2. q \in WorkingDriver
  BY <1>1 DEF WorkingDriver, AtStep
<1> QED BY <1>2, Replaced DEF Goto

\* Aim at any status but executing needs no step.
LEMMA Aimed ==
    ASSUME TypeInv, NEW d \in Drivers, NEW g \in Goals \ {"executing"}, Aim(d, g)
    PROVE  drv' \in [Drivers -> WorkingDriver]
<1> DEFINE q == [drv[d] EXCEPT !.pc = "get_task", !.goal = g]
<1>1. drv[d] \in Driver /\ g \in Goals /\ g # "executing"
  BY AtWork
<1>2. q \in Driver /\ q.pc = "get_task" /\ q.goal = g
  BY <1>1 DEF Driver, Labels
<1>3. q \in WorkingDriver
  BY <1>1, <1>2 DEF WorkingDriver, AtStep, StepLabels
<1>4. drv' = [drv EXCEPT ![d] = q]
  BY DEF Aim
<1> QED BY <1>3, <1>4, Replaced

\* Again and Leave drop every local.
LEMMA Dropped ==
    ASSUME TypeInv, NEW d \in Drivers, Again(d) \/ Leave(d)
    PROVE  drv' \in [Drivers -> WorkingDriver]
BY IdleType, Replaced DEF Again, Leave, Labels, StepLabels

\* update_step writes a status and arguments, and nothing else.
LEMMA WrittenType ==
    ASSUME TypeInv, NEW s, NEW row, row.status \in StepStatuses, row.args \in Args
    PROVE  Written(s, row) \in [Steps -> StepRow]
<1>1. step \in [Steps -> StepRow]
  BY RowsTyped
<1>2. ASSUME NEW r \in StepRow
      PROVE  [r EXCEPT !.status = row.status, !.args = row.args] \in StepRow
  BY <1>2 DEF StepRow
<1> QED BY <1>1, <1>2 DEF Written

-----------------------------------------------------------------------------
LEMMA TypeInit == Init => TypeInv
<1> SUFFICES ASSUME Init PROVE TypeInv
  OBVIOUS
<1>1. drv \in [Drivers -> WorkingDriver]
  BY IdleType DEF Init
<1>2. api \in [Requests -> DecidingRequest]
  BY RowTypes, LimitsAssumption DEF Init, DecidingRequest, Request, Kinds, Args
<1>3. approvals \in [1..MaxApprovals -> ApprovalRow]
  BY NAssumption DEF Init, ApprovalRow, ApprovalStatuses, Steps, Args
<1>4. call \in [Steps -> [status : CallStatuses, req : Nat]]
  BY DEF Init, CallStatuses
<1>5. /\ step \in [Steps -> StepRow] /\ invoked \in [Steps -> Nat] /\ shared \in BOOLEAN
      /\ task \in TaskRow /\ lease = Free
  BY RowTypes, LimitsAssumption DEF Init
<1> QED BY <1>1, <1>2, <1>3, <1>4, <1>5, LimitsAssumption
        DEF Init, TypeInv, TypeOK, WorkingDriver, DecidingRequest

LEMMA TypeRunTask == ASSUME TypeInv, NEW d \in Drivers, RunTask(d) PROVE TypeInv'
<1>1. drv' \in [Drivers -> WorkingDriver]
  BY Gone_to DEF RunTask, Labels, StepLabels
<1>2. lease' \in Owners \cup {Free, Gone}
  BY OwnerAssumption DEF RunTask
<1> QED BY <1>1, <1>2 DEF RunTask, TypeInv, TypeOK, WorkingDriver

LEMMA TypeLoopRead == ASSUME TypeInv, NEW d \in Drivers, LoopRead(d) PROVE TypeInv'
<1>1. drv' \in [Drivers -> WorkingDriver]
  <2>1. CASE Leave(d)
    BY <2>1, Dropped
  <2>2. CASE drv' = [drv EXCEPT ![d].seen = task, ![d].pc = "begin_planning"]
    <3> DEFINE q == [drv[d] EXCEPT !.seen = task, !.pc = "begin_planning"]
    <3>0. drv[d] \in Driver /\ task \in TaskRow
      BY AtWork, RowsTyped
    <3>1. q \in Driver /\ q.pc = "begin_planning"
      BY <3>0 DEF Driver, Labels
    <3>2. q \in WorkingDriver
      <4> HIDE DEF q
      <4> QED BY <3>1 DEF WorkingDriver, AtStep, StepLabels
    <3>3. drv' = [drv EXCEPT ![d] = q]
      BY <2>2
    <3> HIDE DEF q
    <3> QED BY <3>2, <3>3, Replaced
  <2>3. CASE Goto(d, "pick")
    BY <2>3, Gone_to DEF Labels, StepLabels
  <2> QED BY <2>1, <2>2, <2>3 DEF LoopRead
<1> QED BY <1>1 DEF LoopRead, rows, TypeInv, TypeOK, WorkingDriver

LEMMA TypeOutOfTime == ASSUME TypeInv, NEW d \in Drivers, OutOfTime(d) PROVE TypeInv'
<1>1. drv' \in [Drivers -> WorkingDriver]
  BY Aimed DEF OutOfTime, Goals
<1> QED BY <1>1 DEF OutOfTime, rows, TypeInv, TypeOK, WorkingDriver

LEMMA TypeBeginPlanning == ASSUME TypeInv, NEW d \in Drivers, BeginPlanning(d) PROVE TypeInv'
<1>1. drv' \in [Drivers -> WorkingDriver]
  <2>1. CASE Leave(d)
    BY <2>1, Dropped
  <2>2. CASE drv' = [drv EXCEPT ![d].seen = NewTask, ![d].pc = "planner"]
    <3> DEFINE q == [drv[d] EXCEPT !.seen = NewTask, !.pc = "planner"]
    <3>0. drv[d] \in Driver /\ NewTask \in TaskRow
      BY AtWork, RowTypes
    <3>1. q \in Driver /\ q.pc = "planner"
      BY <3>0 DEF Driver, Labels
    <3>2. q \in WorkingDriver
      <4> HIDE DEF q
      <4> QED BY <3>1 DEF WorkingDriver, AtStep, StepLabels
    <3>3. drv' = [drv EXCEPT ![d] = q]
      BY <2>2
    <3> HIDE DEF q
    <3> QED BY <3>2, <3>3, Replaced
  <2> QED BY <2>1, <2>2 DEF BeginPlanning
<1>2. task' \in TaskRow
  BY AtWork DEF BeginPlanning, TypeInv, TypeOK, TaskRow, TaskStatuses
<1> QED BY <1>1, <1>2 DEF BeginPlanning, TypeInv, TypeOK, WorkingDriver

LEMMA TypePlanner == ASSUME TypeInv, NEW d \in Drivers, Planner(d) PROVE TypeInv'
<1>1. drv' \in [Drivers -> WorkingDriver]
  BY Aimed DEF Planner, Goals
<1> QED BY <1>1 DEF Planner, rows, TypeInv, TypeOK, WorkingDriver

LEMMA TypePick == ASSUME TypeInv, NEW d \in Drivers, Pick(d) PROVE TypeInv'
<1>1. drv' \in [Drivers -> WorkingDriver]
  <2>1. CASE drv' = [drv EXCEPT ![d].snap = step, ![d].pc = "decide"]
    <3> DEFINE q == [drv[d] EXCEPT !.snap = step, !.pc = "decide"]
    <3>0. drv[d] \in Driver /\ step \in [Steps -> StepRow]
      BY AtWork, RowsTyped
    <3>1. q \in Driver /\ q.pc = "decide"
      BY <3>0 DEF Driver, Labels
    <3>2. q \in WorkingDriver
      <4> HIDE DEF q
      <4> QED BY <3>1 DEF WorkingDriver, AtStep, StepLabels
    <3>3. drv' = [drv EXCEPT ![d] = q]
      BY <2>1
    <3> HIDE DEF q
    <3> QED BY <3>2, <3>3, Replaced
  <2>2. ASSUME NEW s \in Steps, NEW l \in Labels,
               drv' = [drv EXCEPT ![d].snap = step, ![d].cur = s, ![d].mine = step[s],
                                  ![d].pc = l]
        PROVE  drv' \in [Drivers -> WorkingDriver]
    <3> DEFINE q == [drv[d] EXCEPT !.snap = step, !.cur = s, !.mine = step[s], !.pc = l]
    <3>1. s \in 0..N
      BY DEF Steps
    <3>0. drv[d] \in Driver /\ step \in [Steps -> StepRow] /\ step[s] \in StepRow
      BY AtWork, RowsTyped
    <3>2. q \in Driver /\ q.cur = s
      BY <3>0, <3>1 DEF Driver
    <3>3. q \in WorkingDriver
      BY <3>2 DEF WorkingDriver
    <3>4. drv' = [drv EXCEPT ![d] = q]
      BY <2>2
    <3> QED BY <3>3, <3>4, Replaced
  <2>3. CASE \E s \in Steps :
               drv' = [drv EXCEPT ![d].snap = step, ![d].cur = s, ![d].mine = step[s],
                           ![d].pc = IF step[s].status = "running" THEN "recover" ELSE "check"]
    BY <2>2, <2>3 DEF Labels
  <2> QED BY <2>1, <2>3 DEF Pick
<1> QED BY <1>1 DEF Pick, rows, TypeInv, TypeOK, WorkingDriver

LEMMA TypeRecover == ASSUME TypeInv, NEW d \in Drivers, Recover(d) PROVE TypeInv'
<1>1. drv[d].cur \in Steps
  BY AtWork DEF Recover, At, StepLabels
<1>2. drv' \in [Drivers -> WorkingDriver]
  BY Aimed, Dropped DEF Recover, Goals
<1>3. step' \in [Steps -> StepRow]
  <2> DEFINE row == [drv[d].mine EXCEPT !.status = RecoveredStatus(call[drv[d].cur].status)]
  <2>1. drv[d].mine \in StepRow /\ drv[d].mine.args \in Args
    BY AtWork DEF StepRow
  <2>2. RecoveredStatus(call[drv[d].cur].status) \in StepStatuses
    BY DEF RecoveredStatus, Answers, StepStatuses, Recover
  <2>3. row.status \in StepStatuses /\ row.args \in Args
    BY <2>1, <2>2 DEF StepRow
  <2>4. step' = Written(drv[d].cur, row)
    BY DEF Recover
  <2> QED BY <2>3, <2>4, WrittenType
<1>4. lastObs' \in {"none", "succeeded", "asks", "failed", "unknown"}
  BY DEF Recover, Answers, TypeInv, TypeOK
<1>5. settled' \subseteq Steps
  BY <1>1 DEF Recover, TypeInv, TypeOK
<1> QED BY <1>2, <1>3, <1>4, <1>5 DEF Recover, TypeInv, TypeOK, WorkingDriver

LEMMA TypePreflightBlocks == ASSUME TypeInv, NEW d \in Drivers, PreflightBlocks(d) PROVE TypeInv'
<1>1. drv' \in [Drivers -> WorkingDriver]
  BY Gone_to DEF PreflightBlocks, Labels, StepLabels
<1> QED BY <1>1 DEF PreflightBlocks, TypeInv, TypeOK, WorkingDriver

LEMMA TypeStepRefused == ASSUME TypeInv, NEW d \in Drivers, StepRefused(d) PROVE TypeInv'
<1>1. drv[d].cur \in Steps
  BY AtWork DEF StepRefused, At, StepLabels
<1>2. drv' \in [Drivers -> WorkingDriver]
  <2>1. CASE drv' = [drv EXCEPT ![d].pc = "decide", ![d].cur = 0]
    <3> DEFINE q == [drv[d] EXCEPT !.pc = "decide", !.cur = 0]
    <3>0. 0 \in 0..N
      BY NAssumption
    <3>1. q \in Driver /\ q.pc = "decide"
      BY AtWork, <3>0 DEF Driver, Labels
    <3>2. q \in WorkingDriver
      <4> HIDE DEF q
      <4> QED BY <3>1 DEF WorkingDriver, AtStep, StepLabels
    <3>3. drv' = [drv EXCEPT ![d] = q]
      BY <2>1
    <3> QED BY <3>2, <3>3, Replaced
  <2>2. CASE Aim(d, "failed")
    BY <2>2, Aimed DEF Goals
  <2> QED BY <2>1, <2>2 DEF StepRefused
<1>3. step' \in [Steps -> StepRow]
  BY WrittenType, AtWork DEF StepRefused, StepRow, StepStatuses
<1> QED BY <1>1, <1>2, <1>3 DEF StepRefused, TypeInv, TypeOK, WorkingDriver

LEMMA TypeCheck == ASSUME TypeInv, NEW d \in Drivers, Check(d) PROVE TypeInv'
<1>1. drv[d].cur \in Steps
  BY AtWork DEF Check, At, StepLabels
<1>2. drv' \in [Drivers -> WorkingDriver]
  BY <1>1, Gone_to DEF Check, Labels
<1> QED BY <1>2 DEF Check, rows, TypeInv, TypeOK, WorkingDriver

LEMMA TypeRequestApproval == ASSUME TypeInv, NEW d \in Drivers, RequestApproval(d) PROVE TypeInv'
<1>1. drv[d].cur \in Steps /\ drv[d].pc = "request"
  BY AtWork DEF RequestApproval, At, StepLabels
<1>2. drv' \in [Drivers -> WorkingDriver]
  <2> DEFINE q == [drv[d] EXCEPT !.goal = "waiting_approval"]
  <2>1. q \in Driver /\ q.cur = drv[d].cur
    BY AtWork DEF Driver, Goals
  <2>2. q \in WorkingDriver
    BY <1>1, <2>1 DEF WorkingDriver
  <2> QED BY <2>2, Replaced DEF RequestApproval
<1>3. [step |-> drv[d].cur, args |-> drv[d].mine.args, status |-> "pending"] \in ApprovalRow
  BY <1>1, AtWork DEF ApprovalRow, ApprovalStatuses, StepRow
<1>4. approvals' \in [1..MaxApprovals -> ApprovalRow]
  BY <1>3 DEF RequestApproval, TypeInv, TypeOK
<1> QED BY <1>2, <1>4 DEF RequestApproval, TypeInv, TypeOK, WorkingDriver

LEMMA TypeStepWaits == ASSUME TypeInv, NEW d \in Drivers, StepWaits(d) PROVE TypeInv'
<1>1. drv' \in [Drivers -> WorkingDriver]
  BY Aimed DEF StepWaits, Goals
<1>2. step' \in [Steps -> StepRow]
  BY WrittenType, AtWork DEF StepWaits, StepRow, StepStatuses
<1> QED BY <1>1, <1>2 DEF StepWaits, TypeInv, TypeOK, WorkingDriver

LEMMA TypeStartStep == ASSUME TypeInv, NEW d \in Drivers, StartStep(d) PROVE TypeInv'
<1>1. drv[d].cur \in Steps
  BY AtWork DEF StartStep, At, StepLabels
<1> DEFINE row == Started(drv[d].mine)
<1>2. CASE AttemptAllowed(drv[d].mine.attempts + 1)
  <2>0. drv[d].mine.attempts + 1 \in 0..MaxAttempts
    BY <1>2, AtWork, LimitsAssumption DEF AttemptAllowed, StepRow
  <2>1. row \in StepRow
    BY <2>0, AtWork DEF Started, StepRow, StepStatuses
  <2> DEFINE q == [drv[d] EXCEPT !.mine = row, !.pc = "get_task", !.goal = "executing"]
  <2>a. drv[d] \in Driver
    BY AtWork
  <2>2. q \in Driver /\ q.cur = drv[d].cur
    <3> HIDE DEF row
    <3> QED BY <2>1, <2>a DEF Driver, Labels, Goals
  <2>3. q \in WorkingDriver
    BY <1>1, <2>2 DEF WorkingDriver
  <2>4. drv' = [drv EXCEPT ![d] = q] /\ step' = [step EXCEPT ![drv[d].cur] = row]
    BY <1>2 DEF StartStep
  <2>5. drv' \in [Drivers -> WorkingDriver]
    BY <2>3, <2>4, Replaced
  <2>6. step' \in [Steps -> StepRow]
    BY <2>1, <2>4 DEF TypeInv, TypeOK
  <2> QED BY <2>5, <2>6 DEF StartStep, TypeInv, TypeOK, WorkingDriver
<1>3. CASE ~ AttemptAllowed(drv[d].mine.attempts + 1)
  <2>1. drv' \in [Drivers -> WorkingDriver]
    BY <1>3, Aimed DEF StartStep, Goals
  <2> QED BY <1>3, <2>1 DEF StartStep, TypeInv, TypeOK, WorkingDriver
<1> QED BY <1>2, <1>3

LEMMA TypeCallRead == ASSUME TypeInv, NEW d \in Drivers, CallRead(d) PROVE TypeInv'
<1>1. drv[d].cur \in Steps
  BY AtWork DEF CallRead, At, StepLabels
<1> DEFINE found == call[drv[d].cur].status
           q == [drv[d] EXCEPT !.out = found, !.pc = "settle"]
           p == [drv[d] EXCEPT !.req = call[drv[d].cur].req, !.pc = "call_save"]
<1>2. CASE Reused(found)
  <2>a. drv[d] \in Driver
    BY AtWork
  <2>1. q \in Driver /\ q.cur = drv[d].cur
    BY <1>2, <2>a DEF Reused, Driver, Labels, Outcomes
  <2>2. q \in WorkingDriver
    BY <1>1, <2>1 DEF WorkingDriver
  <2>3. drv' = [drv EXCEPT ![d] = q]
    BY <1>2 DEF CallRead
  <2> QED BY <2>2, <2>3, Replaced DEF CallRead, rows, TypeInv, TypeOK, WorkingDriver
<1>3. CASE ~ Reused(found)
  <2>1. call[drv[d].cur].req \in Nat
    BY <1>1 DEF TypeInv, TypeOK
  <2>2. p \in Driver /\ p.cur = drv[d].cur
    BY <2>1, AtWork DEF Driver, Labels
  <2>3. p \in WorkingDriver
    BY <1>1, <2>2 DEF WorkingDriver
  <2>4. drv' = [drv EXCEPT ![d] = p]
    BY <1>3 DEF CallRead
  <2> QED BY <2>3, <2>4, Replaced DEF CallRead, rows, TypeInv, TypeOK, WorkingDriver
<1> QED BY <1>2, <1>3

LEMMA RequestIdType ==
    ASSUME TypeInv, NEW d \in Drivers, drv[d].cur \in Steps
    PROVE  RequestId(d) \in Nat
BY AtWork DEF RequestId, NewRequestId, TypeInv, TypeOK

LEMMA TypeCallSave == ASSUME TypeInv, NEW d \in Drivers, CallSave(d) PROVE TypeInv'
<1>1. drv[d].cur \in Steps /\ RequestId(d) \in Nat
  BY AtWork, RequestIdType DEF CallSave, At, StepLabels
<1>2. CASE Leave(d) /\ UNCHANGED call
  BY <1>2, Dropped DEF CallSave, TypeInv, TypeOK, WorkingDriver
<1> DEFINE q == [drv[d] EXCEPT !.req = RequestId(d), !.pc = "invoke"]
<1>3. CASE /\ call' = [call EXCEPT ![drv[d].cur] = [status |-> "running", req |-> RequestId(d)]]
           /\ drv' = [drv EXCEPT ![d] = q]
  <2>1. q \in Driver /\ q.cur = drv[d].cur
    BY <1>1, AtWork DEF Driver, Labels
  <2>2. q \in WorkingDriver
    BY <1>1, <2>1 DEF WorkingDriver
  <2>3. call' \in [Steps -> [status : CallStatuses, req : Nat]]
    BY <1>1, <1>3 DEF TypeInv, TypeOK, CallStatuses
  <2>4. drv' \in [Drivers -> WorkingDriver]
    BY <1>3, <2>2, Replaced
  <2> QED BY <2>3, <2>4 DEF CallSave, TypeInv, TypeOK, WorkingDriver
<1> QED BY <1>2, <1>3 DEF CallSave

LEMMA TypeInvoke == ASSUME TypeInv, NEW d \in Drivers, Invoke(d) PROVE TypeInv'
<1>1. drv[d].cur \in Steps
  BY AtWork DEF Invoke, At, StepLabels
<1>2. drv' \in [Drivers -> WorkingDriver]
  <2>1. PICK o \in Outcomes : drv' = [drv EXCEPT ![d].out = o, ![d].pc = "call_finish"]
    BY DEF Invoke
  <2> DEFINE q == [drv[d] EXCEPT !.out = o, !.pc = "call_finish"]
  <2>2. q \in Driver /\ q.cur = drv[d].cur
    BY AtWork DEF Driver, Labels
  <2>3. q \in WorkingDriver
    BY <1>1, <2>2 DEF WorkingDriver
  <2>4. drv' = [drv EXCEPT ![d] = q]
    BY <2>1
  <2> QED BY <2>3, <2>4, Replaced
<1>3. [step |-> drv[d].cur, req |-> drv[d].req, args |-> drv[d].mine.args]
          \in [step : Steps, req : Nat, args : Args]
  BY <1>1, AtWork DEF StepRow
<1>4. invoked' \in [Steps -> Nat]
  BY <1>1 DEF Invoke, TypeInv, TypeOK
<1> QED BY <1>2, <1>3, <1>4 DEF Invoke, rows, TypeInv, TypeOK, WorkingDriver

LEMMA TypeCallFinish == ASSUME TypeInv, NEW d \in Drivers, CallFinish(d) PROVE TypeInv'
<1>1. drv[d].cur \in Steps
  BY AtWork DEF CallFinish, At, StepLabels
<1>2. drv' \in [Drivers -> WorkingDriver]
  BY <1>1, Gone_to DEF CallFinish, Labels
<1>3. call' \in [Steps -> [status : CallStatuses, req : Nat]]
  BY <1>1, AtWork DEF CallFinish, TypeInv, TypeOK, CallStatuses
<1> QED BY <1>2, <1>3 DEF CallFinish, TypeInv, TypeOK, WorkingDriver

LEMMA TypeSettle == ASSUME TypeInv, NEW d \in Drivers, Settle(d) PROVE TypeInv'
<1>1. drv[d].cur \in Steps
  BY AtWork DEF Settle, At, StepLabels
<1>2. drv' \in [Drivers -> WorkingDriver]
  BY Aimed, Dropped DEF Settle, Goals
<1>3. step' \in [Steps -> StepRow]
  <2>1. PICK status \in {"succeeded", "unknown", "ready", "failed"} :
           step' = Written(drv[d].cur, [drv[d].mine EXCEPT !.status = status])
    BY DEF Settle
  <2>2. /\ [drv[d].mine EXCEPT !.status = status].status \in StepStatuses
        /\ [drv[d].mine EXCEPT !.status = status].args \in Args
    BY AtWork DEF StepRow, StepStatuses
  <2> QED BY <2>1, <2>2, WrittenType
<1>4. lastObs' \in {"none", "succeeded", "asks", "failed", "unknown"}
  BY DEF Settle, TypeInv, TypeOK
<1>5. settled' \subseteq Steps
  BY <1>1 DEF Settle, TypeInv, TypeOK
<1> QED BY <1>2, <1>3, <1>4, <1>5 DEF Settle, TypeInv, TypeOK, WorkingDriver

LEMMA TypeDecide == ASSUME TypeInv, NEW d \in Drivers, Decide(d) PROVE TypeInv'
<1> DEFINE plans == IF drv[d].cur = 0 THEN drv[d].snap ELSE step
           q(l, g, o) == [IdleDriver EXCEPT !.pc = l, !.goal = g, !.out = o, !.snap = plans]
<1>1. plans \in [Steps -> StepRow]
  BY AtWork DEF TypeInv, TypeOK
<1>2. ASSUME NEW l \in {"finish", "get_task"}, NEW g \in {"none", "event", "failed"},
             NEW o \in {"none"} \cup Decisions, drv' = [drv EXCEPT ![d] = q(l, g, o)]
      PROVE  drv' \in [Drivers -> WorkingDriver]
  <2>0. IdleDriver \in Driver /\ l \in Labels /\ g \in Goals /\ o \in Outcomes \cup Decisions
    BY IdleType DEF WorkingDriver, Labels, Goals, Outcomes
  <2>1. q(l, g, o) \in Driver /\ q(l, g, o).pc = l /\ q(l, g, o).goal = g
    BY <1>1, <2>0 DEF Driver
  <2>2. q(l, g, o) \in WorkingDriver
    BY <2>1 DEF WorkingDriver, AtStep, StepLabels
  <2> QED BY <1>2, <2>2, Replaced
<1>3. drv' \in [Drivers -> WorkingDriver]
  <2>1. CASE Again(d)
    BY <2>1, Dropped
  <2>2. CASE drv' = [drv EXCEPT ![d] = q("finish", "none", "none")]
    BY <1>2, <2>2
  <2>3. CASE drv' = [drv EXCEPT ![d] = q("get_task", "failed", "none")]
    BY <1>2, <2>3
  <2>4. CASE \E o \in Decisions : drv' = [drv EXCEPT ![d] = q("get_task", "event", o)]
    BY <1>2, <2>4
  <2> QED BY <2>1, <2>2, <2>3, <2>4 DEF Decide
<1> QED BY <1>3 DEF Decide, rows, TypeInv, TypeOK, WorkingDriver

LEMMA TypeApply == ASSUME TypeInv, NEW d \in Drivers, Apply(d) PROVE TypeInv'
<1>1. drv' \in [Drivers -> WorkingDriver]
  <2>1. CASE Again(d)
    BY <2>1, Dropped
  <2>2. CASE Goto(d, "finish")
    BY <2>2, Gone_to DEF Labels, StepLabels
  <2>3. CASE \E g \in {"failed", "unknown", "waiting_input"} : Aim(d, g)
    BY <2>3, Aimed DEF Goals
  <2> QED BY <2>1, <2>2, <2>3 DEF Apply
<1> QED BY <1>1 DEF Apply, rows, TypeInv, TypeOK, WorkingDriver

LEMMA TypeFinish == ASSUME TypeInv, NEW d \in Drivers, Finish(d) PROVE TypeInv'
<1>1. drv' \in [Drivers -> WorkingDriver]
  <2>1. CASE Aim(d, "failed")
    BY <2>1, Aimed DEF Goals
  <2>2. CASE drv' = [drv EXCEPT ![d].pc = "save_plan", ![d].goal = "succeeded"]
    <3> DEFINE q == [drv[d] EXCEPT !.pc = "save_plan", !.goal = "succeeded"]
    <3>0. drv[d] \in Driver
      BY AtWork
    <3>1. q \in Driver /\ q.pc = "save_plan" /\ q.goal = "succeeded"
      BY <3>0 DEF Driver, Labels, Goals
    <3>2. q \in WorkingDriver
      <4> HIDE DEF q
      <4> QED BY <3>1 DEF WorkingDriver, AtStep, StepLabels
    <3>3. drv' = [drv EXCEPT ![d] = q]
      BY <2>2
    <3> QED BY <3>2, <3>3, Replaced
  <2> QED BY <2>1, <2>2 DEF Finish
<1>2. step' \in [Steps -> StepRow]
  <2>1. ASSUME NEW s \in Steps PROVE [step[s] EXCEPT !.status = "skipped"] \in StepRow
    <3>1. step[s] \in StepRow
      BY RowsTyped
    <3> QED BY <3>1 DEF StepRow, StepStatuses
  <2>2. step \in [Steps -> StepRow]
    BY RowsTyped
  <2> QED BY <2>1, <2>2 DEF Finish
<1> QED BY <1>1, <1>2 DEF Finish, TypeInv, TypeOK, WorkingDriver

LEMMA TypeSavePlan == ASSUME TypeInv, NEW d \in Drivers, SavePlan(d) PROVE TypeInv'
<1> DEFINE l == IF drv[d].goal = "succeeded" THEN "get_task" ELSE "commit"
           q == [drv[d] EXCEPT !.pc = l]
<1>1. drv[d] \in WorkingDriver /\ drv[d].pc = "save_plan"
  BY DEF SavePlan, At, TypeInv
<1>2. q \in Driver /\ q.pc \in {"get_task", "commit"} /\ q.goal = drv[d].goal /\ q.cur = drv[d].cur
  <2>1. drv[d] \in Driver
    BY AtWork
  <2> QED BY <2>1 DEF Driver, Labels
<1>3. q \in WorkingDriver
  <2> HIDE DEF q
  <2>1. AtStep(q) => AtStep(drv[d])
    BY <1>1, <1>2 DEF AtStep, StepLabels
  <2> QED BY <1>1, <1>2, <2>1 DEF WorkingDriver
<1>4. drv' \in [Drivers -> WorkingDriver]
  BY <1>3, Replaced DEF SavePlan, Goto
<1>5. step' \in [Steps -> StepRow] /\ plan' \in {"none", "open", "completed", "failed"}
  BY AtWork DEF SavePlan, TypeInv, TypeOK
<1> QED BY <1>4, <1>5 DEF SavePlan, TypeInv, TypeOK, WorkingDriver

LEMMA TypeGetTask == ASSUME TypeInv, NEW d \in Drivers, GetTask(d) PROVE TypeInv'
<1> DEFINE l == IF drv[d].goal \in {"failed", "unknown"} /\ plan # "none"
                THEN "save_plan" ELSE "commit"
           q == [drv[d] EXCEPT !.seen = task, !.pc = l]
<1>1. drv[d] \in WorkingDriver /\ drv[d].pc = "get_task" /\ task \in TaskRow
  BY DEF GetTask, At, TypeInv, TypeOK
<1>2. q \in Driver /\ q.pc \in {"save_plan", "commit"} /\ q.goal = drv[d].goal /\ q.cur = drv[d].cur
  <2>1. drv[d] \in Driver
    BY AtWork
  <2> QED BY <1>1, <2>1 DEF Driver, Labels
<1>3. q \in WorkingDriver
  <2> HIDE DEF q
  <2>1. AtStep(q) => AtStep(drv[d])
    BY <1>1, <1>2 DEF AtStep, StepLabels
  <2> QED BY <1>1, <1>2, <2>1 DEF WorkingDriver
<1>4. drv' = [drv EXCEPT ![d] = q]
  BY DEF GetTask
<1> QED BY <1>3, <1>4, Replaced DEF GetTask, rows, TypeInv, TypeOK, WorkingDriver

\* The transition table leads from statuses to statuses.
LEMMA TransitionTargets == \A from \in TaskStatuses : TaskTransitions[from] \subseteq TaskStatuses
BY DEF TaskTransitions, TaskStatuses

\* The label that follows a commit.
LEMMA AfterCommit ==
    ASSUME NEW goal \in Goals
    PROVE  /\ NextLabel(goal) \in {"loop", "release", "call_read", "decide", "apply"}
           /\ NextLabel(goal) = "call_read" => goal = "executing"
BY DEF NextLabel, Goals

LEMMA TypeCommit == ASSUME TypeInv, NEW d \in Drivers, Commit(d) PROVE TypeInv'
<1> DEFINE l == NextLabel(drv[d].goal)
           q == [drv[d] EXCEPT !.pc = l, !.seen = NewTask, !.goal = "none"]
<1>1. drv[d] \in WorkingDriver /\ drv[d].pc = "commit"
  BY DEF Commit, At, TypeInv
<1>2. CASE Leave(d) /\ UNCHANGED <<task, plan>>
  BY <1>2, Dropped DEF Commit, TypeInv, TypeOK, WorkingDriver
<1>3. CASE /\ TaskMay(drv[d].seen.status, GoalStatus(d))
           /\ task' = CommittedRow(d)
           /\ plan' = IF drv[d].goal = "planned" THEN "open" ELSE plan
           /\ IF l \in {"loop", "release"}
              THEN drv' = [drv EXCEPT ![d] = [IdleDriver EXCEPT !.pc = l]]
              ELSE drv' = [drv EXCEPT ![d].pc = l, ![d].seen = NewTask, ![d].goal = "none"]
  <2>1. GoalStatus(d) \in TaskStatuses
    BY <1>3, AtWork, TransitionTargets DEF TaskMay, TaskRow
  <2>2. drv[d].seen.modelCalls \in 0..MaxModelCalls
    BY AtWork DEF TaskRow
  <2>3. task' \in TaskRow
    BY <1>3, <2>1, <2>2, LimitsAssumption DEF CommittedRow, TaskRow
  <2>4. drv' \in [Drivers -> WorkingDriver]
    <3>1. CASE l \in {"loop", "release"}
      BY <1>3, <3>1, IdleType, Replaced DEF Labels, StepLabels
    <3>2. CASE l \notin {"loop", "release"}
      <4>1. l \in {"call_read", "decide", "apply"} /\ (l = "call_read" => drv[d].goal = "executing")
        BY <3>2, AtWork, AfterCommit
      <4>a. drv[d] \in Driver /\ NewTask \in TaskRow /\ NewStep \in StepRow
        BY AtWork, RowTypes
      <4>2. q \in Driver /\ q.pc = l /\ q.cur = drv[d].cur /\ q.goal = "none"
        <5> HIDE DEF l
        <5> QED BY <4>1, <4>a DEF Driver, Labels, Goals
      <4>3. drv' = [drv EXCEPT ![d] = q]
        BY <1>3, <3>2
      <4>4. q \in WorkingDriver
        <5> HIDE DEF q, l
        <5>1. AtStep(q) => AtStep(drv[d])
          BY <1>1, <4>1, <4>2 DEF AtStep, StepLabels
        <5> QED BY <1>1, <4>2, <5>1 DEF WorkingDriver
      <4> QED BY <4>3, <4>4, Replaced
    <3> QED BY <3>1, <3>2
  <2>5. plan' \in {"none", "open", "completed", "failed"}
    BY <1>3 DEF TypeInv, TypeOK
  <2> QED BY <2>3, <2>4, <2>5 DEF Commit, TypeInv, TypeOK, WorkingDriver
<1> QED BY <1>2, <1>3 DEF Commit

LEMMA TypeRelease == ASSUME TypeInv, NEW d \in Drivers, Release(d) PROVE TypeInv'
<1>1. drv' \in [Drivers -> WorkingDriver]
  BY IdleType, Replaced DEF Release
<1>2. lease' \in Owners \cup {Free, Gone}
  BY DEF Release, TypeInv, TypeOK
<1> QED BY <1>1, <1>2 DEF Release, TypeInv, TypeOK, WorkingDriver

LEMMA TypeCrash == ASSUME TypeInv, NEW o \in Owners, Crash(o) PROVE TypeInv'
<1>1. drv' \in [Drivers -> WorkingDriver]
  BY IdleType DEF Crash, TypeInv
<1>2. lease' \in Owners \cup {Free, Gone} /\ crashes' \in 0..MaxCrashes
  BY LimitsAssumption DEF Crash, TypeInv, TypeOK
<1> QED BY <1>1, <1>2 DEF Crash, TypeInv, TypeOK, WorkingDriver

LEMMA TypeLeaseExpires == ASSUME TypeInv, LeaseExpires PROVE TypeInv'
BY DEF LeaseExpires, TypeInv, TypeOK

-----------------------------------------------------------------------------
(* The requests.                                                             *)

\* What a request holds while it is under way.
LEMMA AtDesk ==
    ASSUME TypeInv, NEW r \in Requests
    PROVE  /\ api[r].seen \in TaskRow /\ api[r].kind \in Kinds /\ api[r].args \in Args
           /\ api[r].ap \in 0..MaxApprovals /\ api[r] \in Request
           /\ api[r].pc \in {"step", "save"} => api[r].ap \in 1..MaxApprovals
BY DEF TypeInv, DecidingRequest, Request

\* A new request that starts as x, and one that has ended.
LEMMA Clicked ==
    ASSUME TypeInv, NEW r \in Requests, NEW x \in DecidingRequest, Click(r, x)
    PROVE  api' \in [Requests -> DecidingRequest] /\ clicks' \in 0..MaxClicks
BY LimitsAssumption DEF Click, TypeInv, TypeOK

LEMMA Ended ==
    ASSUME TypeInv, NEW r \in Requests, EndRequest(r)
    PROVE  api' \in [Requests -> DecidingRequest]
<1>1. IdleRequest \in DecidingRequest
  BY RowTypes, LimitsAssumption DEF IdleRequest, DecidingRequest, Request, Kinds, Args
<1> QED BY <1>1 DEF EndRequest, TypeInv

LEMMA Proceeded ==
    ASSUME TypeInv, NEW r \in Requests, NEW l \in {"save", "commit"}, Proceed(r, l),
           api[r].pc \in {"step", "save"}
    PROVE  api' \in [Requests -> DecidingRequest]
<1> DEFINE q == [api[r] EXCEPT !.pc = l]
<1>1. q \in Request /\ q.ap = api[r].ap
  BY AtDesk DEF Request
<1>2. q \in DecidingRequest
  BY <1>1, AtDesk DEF DecidingRequest
<1> QED BY <1>2 DEF Proceed, TypeInv

LEMMA TypeClickApprove ==
    ASSUME TypeInv, NEW r \in Requests, NEW a \in 1..MaxApprovals, NEW edit \in BOOLEAN,
           ClickApprove(r, a, edit)
    PROVE  TypeInv'
<1> DEFINE x == [pc |-> "step", kind |-> "approve", ap |-> a, seen |-> task,
                 args |-> IF edit THEN "edited" ELSE step[StepOf(a)].args]
<1>1. step[StepOf(a)].args \in Args /\ a \in 0..MaxApprovals
  BY LimitsAssumption DEF StepOf, TypeInv, TypeOK, ApprovalRow, StepRow
<1>2. x \in DecidingRequest
  BY <1>1 DEF DecidingRequest, Request, Kinds, Args, TypeInv, TypeOK
<1> QED BY <1>2, Clicked DEF ClickApprove, rows, TypeInv, TypeOK, DecidingRequest

LEMMA TypeClickReject ==
    ASSUME TypeInv, NEW r \in Requests, NEW a \in 1..MaxApprovals, ClickReject(r, a)
    PROVE  TypeInv'
<1> DEFINE x == [pc |-> "step", kind |-> "reject", ap |-> a, seen |-> task,
                 args |-> step[StepOf(a)].args]
<1>1. step[StepOf(a)].args \in Args /\ a \in 0..MaxApprovals
  BY LimitsAssumption DEF StepOf, TypeInv, TypeOK, ApprovalRow, StepRow
<1>2. x \in DecidingRequest
  BY <1>1 DEF DecidingRequest, Request, Kinds, TypeInv, TypeOK
<1> QED BY <1>2, Clicked DEF ClickReject, rows, TypeInv, TypeOK, DecidingRequest

LEMMA TypeSupersede ==
    ASSUME TypeInv, NEW a \in 1..MaxApprovals, SupersedeApproval(a)
    PROVE  TypeInv'
<1>0. approvals[a] \in ApprovalRow
  BY DEF TypeInv, TypeOK
<1>1. [approvals[a] EXCEPT !.status = "superseded"] \in ApprovalRow
  BY <1>0 DEF ApprovalRow, ApprovalStatuses
<1>2. approvals' \in [1..MaxApprovals -> ApprovalRow]
  BY <1>1 DEF SupersedeApproval, TypeInv, TypeOK
<1>3. clicks' \in 0..MaxClicks
  BY LimitsAssumption DEF SupersedeApproval, TypeInv, TypeOK
<1> QED BY <1>2, <1>3 DEF SupersedeApproval, TypeInv, TypeOK

LEMMA TypeDecideStep == ASSUME TypeInv, NEW r \in Requests, DecideStep(r) PROVE TypeInv'
<1>1. api' \in [Requests -> DecidingRequest]
  BY Proceeded, Ended DEF DecideStep, Answering
<1>2. step' \in [Steps -> StepRow]
  BY WrittenType, AtDesk DEF DecideStep, StepTarget, StepStatuses
<1>3. StepOf(api[r].ap) \in Steps
  BY AtDesk DEF DecideStep, Answering, StepOf, TypeInv, TypeOK, ApprovalRow
<1> QED BY <1>1, <1>2, <1>3 DEF DecideStep, TypeInv, TypeOK, DecidingRequest

LEMMA TypeDecideSave == ASSUME TypeInv, NEW r \in Requests, DecideSave(r) PROVE TypeInv'
<1> DEFINE a == api[r].ap
<1>1. a \in 1..MaxApprovals /\ api[r].args \in Args /\ StepOf(a) \in Steps
  BY AtDesk DEF DecideSave, Answering, StepOf, TypeInv, TypeOK, ApprovalRow
<1>2. api' \in [Requests -> DecidingRequest]
  BY Proceeded DEF DecideSave, Answering
<1>3. approvals' \in [1..MaxApprovals -> ApprovalRow]
  <2>1. approvals[a] \in ApprovalRow
    BY <1>1 DEF TypeInv, TypeOK
  <2>2. /\ [approvals[a] EXCEPT !.status = "approved", !.args = api[r].args] \in ApprovalRow
        /\ [approvals[a] EXCEPT !.status = "rejected"] \in ApprovalRow
    BY <1>1, <2>1 DEF ApprovalRow, ApprovalStatuses
  <2>3. \/ approvals' = [approvals EXCEPT ![a] =
                           [approvals[a] EXCEPT !.status = "approved", !.args = api[r].args]]
        \/ approvals' = [approvals EXCEPT ![a] = [approvals[a] EXCEPT !.status = "rejected"]]
    BY DEF DecideSave
  <2> QED BY <2>2, <2>3 DEF TypeInv, TypeOK
<1>4. granted' \subseteq Steps \X Args
  BY <1>1 DEF DecideSave, TypeInv, TypeOK
<1> QED BY <1>2, <1>3, <1>4 DEF DecideSave, TypeInv, TypeOK, DecidingRequest

LEMMA TypeClickCancel == ASSUME TypeInv, NEW r \in Requests, ClickCancel(r) PROVE TypeInv'
<1> DEFINE x == [IdleRequest EXCEPT !.pc = "commit", !.kind = "cancel", !.seen = task]
<1>1. task \in TaskRow /\ 0 \in 0..MaxApprovals
  BY LimitsAssumption DEF TypeInv, TypeOK
<1>2. x \in DecidingRequest
  BY <1>1 DEF IdleRequest, DecidingRequest, Request, Kinds, Args
<1> QED BY <1>2, Clicked DEF ClickCancel, rows, TypeInv, TypeOK, DecidingRequest

LEMMA TypeClickResume == ASSUME TypeInv, NEW r \in Requests, ClickResume(r) PROVE TypeInv'
<1> DEFINE x == [IdleRequest EXCEPT !.pc = "commit", !.seen = task,
                                    !.kind = IF plan = "none" THEN "answer" ELSE "resume"]
<1>1. task \in TaskRow /\ 0 \in 0..MaxApprovals
  BY LimitsAssumption DEF TypeInv, TypeOK
<1>2. x \in DecidingRequest
  BY <1>1 DEF IdleRequest, DecidingRequest, Request, Kinds, Args
<1> QED BY <1>2, Clicked DEF ClickResume, rows, TypeInv, TypeOK, DecidingRequest

LEMMA TypeRequestCommit == ASSUME TypeInv, NEW r \in Requests, RequestCommit(r) PROVE TypeInv'
<1>1. TaskTarget(api[r].kind) \in TaskStatuses
  BY DEF TaskTarget, TaskStatuses
<1>2. task' \in TaskRow
  BY <1>1, AtDesk DEF RequestCommit, TaskRow
<1> QED BY <1>2, Ended DEF RequestCommit, TypeInv, TypeOK, DecidingRequest

LEMMA TypeRequestDies == ASSUME TypeInv, NEW r \in Requests, RequestDies(r) PROVE TypeInv'
<1>1. crashes' \in 0..MaxCrashes
  BY LimitsAssumption DEF RequestDies, TypeInv, TypeOK
<1> QED BY <1>1, Ended DEF RequestDies, rows, TypeInv, TypeOK, DecidingRequest

-----------------------------------------------------------------------------
LEMMA TypeNext == TypeInv /\ [Next]_vars => TypeInv'
<1> SUFFICES ASSUME TypeInv, [Next]_vars PROVE TypeInv'
  OBVIOUS
<1>1. ASSUME NEW d \in Drivers, DriverStep(d) \/ PreflightBlocks(d) \/ StepRefused(d) \/ OutOfTime(d)
      PROVE  TypeInv'
  BY <1>1, TypeRunTask, TypeLoopRead, TypeOutOfTime, TypeBeginPlanning, TypePlanner, TypePick,
     TypeRecover, TypePreflightBlocks, TypeStepRefused, TypeCheck, TypeRequestApproval,
     TypeStepWaits, TypeStartStep, TypeCallRead, TypeCallSave, TypeInvoke, TypeCallFinish,
     TypeSettle, TypeDecide, TypeApply, TypeFinish, TypeSavePlan, TypeGetTask, TypeCommit,
     TypeRelease
  DEF DriverStep
<1>2. ASSUME NEW r \in Requests, RequestStep(r)
      PROVE  TypeInv'
  BY <1>2, TypeClickApprove, TypeClickReject, TypeDecideStep, TypeDecideSave, TypeClickCancel,
     TypeClickResume, TypeRequestCommit, TypeRequestDies
  DEF RequestStep
<1>3. CASE UNCHANGED vars
  BY <1>3 DEF vars, TypeInv, TypeOK
<1> QED BY <1>1, <1>2, <1>3, TypeCrash, TypeLeaseExpires, TypeSupersede DEF Next

\* The rows and the copies that threads and requests hold of them stay in their
\* domains; no step row counts more attempts than max_step_attempts.
THEOREM TypeCorrect == Spec => []TypeOK
<1>1. TypeInv => TypeOK
  BY DEF TypeInv
<1> QED BY <1>1, TypeInit, TypeNext, PTL DEF Spec

-----------------------------------------------------------------------------
(* What one driver at a time, the approvals and the call rows guarantee       *)
(* together, for every number of processes, requests and steps.               *)

-----------------------------------------------------------------------------
(* The lease.  Nothing is assumed of the threads of a process: what needs a    *)
(* single driver is proved until two threads of one process are at work.      *)

LeaseHeld ==
    /\ \A d \in Drivers : Driving(d) => lease = Owner[d]
    /\ \A d, e \in Drivers : Driving(d) /\ Driving(e) => d = e

\* A thread that is not idle moves, and keeps the lease it holds.
LEMMA LeaseKept ==
    ASSUME TypeInv, LeaseHeld, NEW d \in Drivers, ~ At(d, "idle"), lease' = lease,
           \A e \in Drivers \ {d} : drv'[e] = drv[e]
    PROVE  LeaseHeld'
BY DEF LeaseHeld, Driving, At

\* Whatever a thread does between acquire_lease and release_lease, it is not idle,
\* touches no other thread, and leaves lease_owner alone.
Work(d) ==
    \/ LoopRead(d) \/ OutOfTime(d) \/ BeginPlanning(d) \/ Planner(d) \/ Pick(d) \/ Recover(d)
    \/ PreflightBlocks(d) \/ StepRefused(d) \/ Check(d) \/ RequestApproval(d) \/ StepWaits(d)
    \/ StartStep(d) \/ CallRead(d) \/ CallSave(d) \/ Invoke(d) \/ CallFinish(d) \/ Settle(d)
    \/ Decide(d) \/ Apply(d) \/ Finish(d) \/ SavePlan(d) \/ GetTask(d) \/ Commit(d)

LEMMA WorkIsOwn ==
    ASSUME TypeInv, NEW d \in Drivers, Work(d)
    PROVE  /\ ~ At(d, "idle")
           /\ lease' = lease
           /\ \A e \in Drivers \ {d} : drv'[e] = drv[e]
<1>1. CASE LoopRead(d) \/ OutOfTime(d) \/ BeginPlanning(d) \/ Planner(d) \/ Pick(d)
  BY <1>1 DEF LoopRead, OutOfTime, BeginPlanning, Planner, Pick, At, Goto, Aim, Leave, rows,
              TypeInv
<1>2. CASE Recover(d) \/ PreflightBlocks(d) \/ StepRefused(d) \/ Check(d)
  BY <1>2 DEF Recover, PreflightBlocks, StepRefused, Check, At, Goto, Aim, Again, rows, TypeInv
<1>3. CASE RequestApproval(d) \/ StepWaits(d) \/ StartStep(d)
  BY <1>3 DEF RequestApproval, StepWaits, StartStep, At, Aim, TypeInv
<1>4. CASE CallRead(d) \/ CallSave(d)
  BY <1>4 DEF CallRead, CallSave, At, Leave, rows, TypeInv
<1>5. CASE Invoke(d)
  BY <1>5 DEF Invoke, At, rows, TypeInv
<1>6. CASE CallFinish(d) \/ Settle(d)
  BY <1>6 DEF CallFinish, Settle, At, Goto, Aim, Again, Leave, TypeInv
<1>7. CASE Decide(d)
  BY <1>7 DEF Decide, At, Again, rows, TypeInv
<1>8. CASE Apply(d)
  BY <1>8 DEF Apply, At, Goto, Aim, Again, rows, TypeInv
<1>9. CASE Finish(d) \/ SavePlan(d) \/ GetTask(d)
  BY <1>9 DEF Finish, SavePlan, GetTask, At, Goto, Aim, rows, TypeInv
<1>10. CASE Commit(d)
  BY <1>10 DEF Commit, At, Leave, TypeInv
<1> QED BY <1>1, <1>2, <1>3, <1>4, <1>5, <1>6, <1>7, <1>8, <1>9, <1>10 DEF Work

\* The lease invariant is inductive.
LEMMA LeaseStep == TypeInv /\ LeaseHeld /\ [Next]_vars /\ ~ shared' => LeaseHeld'
<1> SUFFICES ASSUME TypeInv, LeaseHeld, [Next]_vars, ~ shared' PROVE LeaseHeld'
  OBVIOUS
<1>1. ASSUME NEW d \in Drivers, Work(d) PROVE LeaseHeld'
  BY <1>1, WorkIsOwn, LeaseKept
<1>2. ASSUME NEW d \in Drivers, RunTask(d) PROVE LeaseHeld'
  <2>1. \A e \in Drivers \ {d} : ~ Driving(e)
    BY <1>2, OwnerAssumption, LeaseMarks
       DEF RunTask, MayAcquire, LeaseHeld
  <2>2. \A e \in Drivers \ {d} : drv'[e] = drv[e]
    BY <1>2 DEF RunTask, Goto, TypeInv
  <2> QED BY <1>2, <2>1, <2>2 DEF RunTask, LeaseHeld, Driving
<1>3. ASSUME NEW d \in Drivers, Release(d) PROVE LeaseHeld'
  <2>1. Driving(d) /\ lease = Owner[d]
    BY <1>3 DEF Release, At, LeaseHeld, Driving
  <2>2. \A e \in Drivers \ {d} : ~ Driving(e)
    BY <2>1 DEF LeaseHeld
  <2>3. /\ \A e \in Drivers \ {d} : drv'[e] = drv[e]
        /\ drv'[d] = IdleDriver
    BY <1>3 DEF Release, TypeInv
  <2> QED BY <2>2, <2>3 DEF LeaseHeld, Driving, IdleDriver
<1>4. ASSUME NEW o \in Owners, Crash(o) PROVE LeaseHeld'
  BY <1>4 DEF Crash, LeaseHeld, Driving, IdleDriver
<1>5. CASE LeaseExpires
  BY <1>5, OwnerAssumption, LeaseMarks DEF LeaseExpires, LeaseHeld, Driving
<1>6. ASSUME NEW r \in Requests, RequestStep(r) PROVE lease' = lease /\ drv' = drv
  BY <1>6 DEF RequestStep, ClickApprove, ClickReject, DecideStep, DecideSave, ClickCancel,
              ClickResume, RequestCommit, RequestDies, rows
<1>7. ASSUME NEW a \in 1..MaxApprovals, SupersedeApproval(a) PROVE lease' = lease /\ drv' = drv
  BY <1>7 DEF SupersedeApproval
<1>8. CASE lease' = lease /\ drv' = drv
  BY <1>8 DEF LeaseHeld, Driving
<1> QED BY <1>1, <1>2, <1>3, <1>4, <1>5, <1>6, <1>7, <1>8 DEF Next, DriverStep, Work, vars

\* Sharing is remembered.
LEMMA SharingStays == [Next]_vars /\ shared => shared'
<1> SUFFICES ASSUME [Next]_vars, shared PROVE shared'
  OBVIOUS
<1>1. ASSUME NEW d \in Drivers, DriverStep(d) \/ PreflightBlocks(d) \/ StepRefused(d) \/ OutOfTime(d)
      PROVE  shared'
  BY <1>1 DEF DriverStep, RunTask, LoopRead, OutOfTime, BeginPlanning, Planner, Pick, Recover,
     PreflightBlocks, StepRefused, Check, RequestApproval, StepWaits, StartStep, CallRead, CallSave,
     Invoke, CallFinish, Settle, Decide, Apply, Finish, SavePlan, GetTask, Commit, Release
<1>2. ASSUME NEW r \in Requests, RequestStep(r) PROVE shared'
  BY <1>2 DEF RequestStep, ClickApprove, ClickReject, DecideStep, DecideSave, ClickCancel,
              ClickResume, RequestCommit, RequestDies
<1>3. CASE \/ LeaseExpires \/ (\E o \in Owners : Crash(o)) \/ UNCHANGED vars
           \/ \E a \in 1..MaxApprovals : SupersedeApproval(a)
  BY <1>3 DEF LeaseExpires, Crash, SupersedeApproval, vars
<1> QED BY <1>1, <1>2, <1>3 DEF Next

LEMMA LeaseInit == Init => LeaseHeld
BY DEF Init, LeaseHeld, Driving, IdleDriver

\* No two threads drive the Task at once, however processes crash, time out and take
\* over from each other: the only way to it is two threads of one process.
THEOREM SingleDriver == Spec => []OneDriver
<1> DEFINE Inv == shared \/ LeaseHeld
<1>1. TypeInv /\ Inv /\ [Next]_vars => Inv'
  BY LeaseStep, SharingStays
<1>2. Inv => OneDriver
  BY DEF LeaseHeld, OneDriver
<1>3. Init => Inv
  BY LeaseInit
<1> QED BY <1>1, <1>2, <1>3, TypeInit, TypeNext, PTL DEF Spec

-----------------------------------------------------------------------------
(* Approvals.  ExecutedAsApproved becomes inductive with what an approved row *)
(* stands for, and with the permission a thread carries from Check to Invoke. *)

Executing(r) == r.goal = "executing" /\ r.pc \in {"get_task", "save_plan", "commit"}
Cleared(r) == r.pc \in {"start", "call_read", "call_save", "invoke"} \/ Executing(r)
Permitted(r) == Cleared(r) /\ r.cur \in Writes => <<r.cur, r.mine.args>> \in granted
ApprovedRowsGranted ==
    \A a \in 1..MaxApprovals :
        approvals[a].status = "approved" => <<approvals[a].step, approvals[a].args>> \in granted
ApprovalInv ==
    /\ ApprovedRowsGranted
    /\ \A d \in Drivers : Permitted(drv[d])
    /\ ExecutedAsApproved

\* Where the control operators leave a thread.
LEMMA Moved ==
    ASSUME TypeInv, NEW d \in Drivers
    PROVE  /\ \A l : Goto(d, l) => drv'[d].pc = l
           /\ \A g : Aim(d, g) => drv'[d].pc = "get_task" /\ drv'[d].goal = g
           /\ Again(d) => drv'[d].pc = "loop"
           /\ Leave(d) => drv'[d].pc = "release"
<1>1. drv[d] \in Driver
  BY AtWork
<1> QED BY <1>1 DEF Goto, Aim, Again, Leave, IdleDriver, TypeInv, WorkingDriver, Driver

\* resume_step sends the thread to the next step, or to the planner.
LEMMA Picked ==
    ASSUME TypeInv, NEW d \in Drivers, Pick(d)
    PROVE  drv'[d].pc \in {"decide", "recover", "check"}
<1>1. drv[d] \in Driver
  BY AtWork
<1>2. ASSUME NEW s \in Steps, NEW l \in {"recover", "check"},
             drv' = [drv EXCEPT ![d].snap = step, ![d].cur = s, ![d].mine = step[s],
                                ![d].pc = l]
      PROVE  drv'[d].pc \in {"recover", "check"}
  <2> DEFINE q == [drv[d] EXCEPT !.snap = step, !.cur = s, !.mine = step[s], !.pc = l]
  <2>1. q.pc = l
    BY <1>1 DEF Driver
  <2>2. drv' = [drv EXCEPT ![d] = q]
    BY <1>2
  <2> HIDE DEF q
  <2> QED BY <2>1, <2>2 DEF TypeInv
<1> DEFINE There == drv'[d].pc \in {"decide", "recover", "check"}
<1>3. ASSUME drv' = [drv EXCEPT ![d].snap = step, ![d].pc = "decide"] PROVE There
  BY <1>1, <1>3 DEF TypeInv, Driver
<1>4. ASSUME NEW s \in Steps,
             drv' = [drv EXCEPT ![d].snap = step, ![d].cur = s, ![d].mine = step[s],
                         ![d].pc = IF step[s].status = "running" THEN "recover" ELSE "check"]
      PROVE  There
  BY <1>2, <1>4
<1> HIDE DEF There
<1>5. There
  BY <1>3, <1>4, Zenon DEF Pick
<1> QED BY <1>5 DEF There

\* A thread moves where no permission is needed and no call awaits its end.
LEMMA NotCleared ==
    ASSUME TypeInv, NEW d \in Drivers,
           \/ LoopRead(d) \/ OutOfTime(d) \/ BeginPlanning(d) \/ Planner(d) \/ Pick(d)
           \/ Recover(d) \/ PreflightBlocks(d) \/ StepRefused(d) \/ RequestApproval(d)
           \/ StepWaits(d) \/ CallFinish(d) \/ Settle(d) \/ Decide(d) \/ Apply(d)
           \/ Finish(d) \/ RunTask(d) \/ Release(d)
    PROVE  ~ Cleared(drv'[d]) /\ drv'[d].pc # "call_finish"
<1> USE DEF Cleared, Executing
<1>1. drv[d] \in Driver
  BY AtWork
<1>2. CASE LoopRead(d)
  BY <1>1, <1>2, Moved DEF LoopRead, TypeInv, Driver
<1>3. CASE OutOfTime(d)
  BY <1>3, Moved DEF OutOfTime
<1>4. CASE BeginPlanning(d)
  BY <1>1, <1>4, Moved DEF BeginPlanning, TypeInv, Driver
<1>5. CASE Planner(d)
  BY <1>5, Moved DEF Planner
<1>6. CASE Pick(d)
  BY <1>6, Picked
<1>7. CASE Recover(d)
  BY <1>7, Moved DEF Recover
<1>8. CASE PreflightBlocks(d)
  BY <1>8, Moved DEF PreflightBlocks
<1>9. CASE StepRefused(d)
  BY <1>1, <1>9, Moved DEF StepRefused, TypeInv, Driver
<1>10. CASE RequestApproval(d)
  BY <1>1, <1>10 DEF RequestApproval, At, TypeInv, Driver
<1>11. CASE StepWaits(d)
  BY <1>11, Moved DEF StepWaits
<1>12. CASE CallFinish(d)
  BY <1>12, Moved DEF CallFinish
<1>13. CASE Settle(d)
  BY <1>13, Moved DEF Settle
<1>14. CASE Decide(d)
  <2> DEFINE plans == IF drv[d].cur = 0 THEN drv[d].snap ELSE step
             q(l, g, o) == [IdleDriver EXCEPT !.pc = l, !.goal = g, !.out = o, !.snap = plans]
  <2>1. CASE Again(d)
    BY <2>1, Moved
  <2>2. CASE drv' = [drv EXCEPT ![d] = q("finish", "none", "none")]
    BY <2>2 DEF IdleDriver, TypeInv
  <2>3. CASE drv' = [drv EXCEPT ![d] = q("get_task", "failed", "none")]
    BY <2>3 DEF IdleDriver, TypeInv
  <2>4. CASE \E o \in Decisions : drv' = [drv EXCEPT ![d] = q("get_task", "event", o)]
    BY <2>4 DEF IdleDriver, TypeInv
  <2> QED BY <1>14, <2>1, <2>2, <2>3, <2>4 DEF Decide
<1>15. CASE Apply(d)
  BY <1>15, Moved DEF Apply
<1>16. CASE Finish(d)
  <2> DEFINE q == [drv[d] EXCEPT !.pc = "save_plan", !.goal = "succeeded"]
  <2>1. CASE Aim(d, "failed")
    BY <2>1, Moved
  <2>2. CASE drv' = [drv EXCEPT ![d] = q]
    BY <1>1, <2>2 DEF TypeInv, Driver
  <2> QED BY <1>16, <2>1, <2>2 DEF Finish
<1>17. CASE RunTask(d) \/ Release(d)
  BY <1>17, Moved DEF RunTask, Release, IdleDriver, TypeInv
<1> QED BY <1>2, <1>3, <1>4, <1>5, <1>6, <1>7, <1>8, <1>9, <1>10, <1>11, <1>12, <1>13, <1>14,
           <1>15, <1>16, <1>17

\* A thread's own step keeps the permissions if nothing is granted or sent and its new
\* state is permitted; nobody else moves.
LEMMA PermissionsKept ==
    ASSUME TypeInv, ApprovalInv, NEW d \in Drivers,
           \A e \in Drivers \ {d} : drv'[e] = drv[e],
           granted' = granted, sent' = sent, approvals' = approvals, Permitted(drv[d])'
    PROVE  ApprovalInv'
<1>1. \A e \in Drivers : Permitted(drv[e])'
  BY DEF ApprovalInv, Permitted, Cleared, Executing
<1> QED BY <1>1 DEF ApprovalInv, ApprovedRowsGranted, ExecutedAsApproved

\* Threads that do not prepare a call.
LEMMA ApprovalByStanders ==
    ASSUME TypeInv, ApprovalInv, NEW d \in Drivers,
           \/ LoopRead(d) \/ OutOfTime(d) \/ BeginPlanning(d) \/ Planner(d) \/ Pick(d)
           \/ Recover(d) \/ PreflightBlocks(d) \/ StepRefused(d)
           \/ StepWaits(d) \/ CallFinish(d) \/ Settle(d) \/ Decide(d) \/ Apply(d)
           \/ Finish(d) \/ RunTask(d) \/ Release(d)
    PROVE  ApprovalInv'
<1>1. ~ Cleared(drv'[d])
  BY NotCleared
<1>2. \A e \in Drivers \ {d} : drv'[e] = drv[e]
  BY WorkIsOwn DEF Work, RunTask, Release, Goto, TypeInv
<1>3. granted' = granted /\ sent' = sent /\ approvals' = approvals
  BY DEF LoopRead, OutOfTime, BeginPlanning, Planner, Pick, Recover, PreflightBlocks, StepRefused,
         StepWaits, CallFinish, Settle, Decide, Apply, Finish, RunTask, Release, rows
<1> QED BY <1>1, <1>2, <1>3, PermissionsKept DEF Permitted

\* Asking for an approval grants nothing.
LEMMA ApprovalAsked ==
    ASSUME TypeInv, ApprovalInv, NEW d \in Drivers, RequestApproval(d)
    PROVE  ApprovalInv'
<1>1. ~ Cleared(drv'[d])
  BY NotCleared
<1>2. \A e \in Drivers \ {d} : drv'[e] = drv[e]
  BY WorkIsOwn DEF Work
<1>3. granted' = granted /\ sent' = sent
  BY DEF RequestApproval
<1>4. ApprovedRowsGranted'
  BY <1>3 DEF RequestApproval, ApprovalInv, ApprovedRowsGranted, TypeInv, TypeOK
<1>5. \A e \in Drivers : Permitted(drv[e])'
  BY <1>1, <1>2, <1>3 DEF ApprovalInv, Permitted, Cleared, Executing
<1> QED BY <1>3, <1>4, <1>5 DEF ApprovalInv, ExecutedAsApproved

\* The policy check clears a thread only for a read, or for a write that was approved.
LEMMA ApprovalByCheck ==
    ASSUME TypeInv, ApprovalInv, NEW d \in Drivers, Check(d)
    PROVE  ApprovalInv'
<1> DEFINE l == IF drv[d].cur \in Writes /\ ~ Approved(drv[d].cur, drv[d].mine.args)
                THEN "request" ELSE "start"
           q == [drv[d] EXCEPT !.pc = l]
<1>1. drv' = [drv EXCEPT ![d] = q]
  BY DEF Check, Goto
<1>2. Approved(drv[d].cur, drv[d].mine.args) => <<drv[d].cur, drv[d].mine.args>> \in granted
  BY DEF Approved, ApprovalInv, ApprovedRowsGranted
<1>3. l = "start" /\ drv[d].cur \in Writes => <<drv[d].cur, drv[d].mine.args>> \in granted
  BY <1>2
<1>4. l \in {"request", "start"}
  OBVIOUS
<1> HIDE DEF l
<1>5. drv[d] \in Driver
  BY AtWork
<1>6. q.pc = l /\ q.cur = drv[d].cur /\ q.mine = drv[d].mine /\ q.goal = drv[d].goal
  BY <1>5 DEF Driver
<1> HIDE DEF q
<1>7. drv'[d] = q /\ \A e \in Drivers \ {d} : drv'[e] = drv[e]
  BY <1>1 DEF TypeInv
<1>8. granted' = granted /\ sent' = sent /\ approvals' = approvals
  BY DEF Check, rows
<1>9. Permitted(drv[d])'
  BY <1>3, <1>4, <1>6, <1>7, <1>8 DEF Permitted, Cleared, Executing
<1> QED BY <1>7, <1>8, <1>9, PermissionsKept

\* A thread whose step and arguments do not change stays permitted, and is only
\* cleared if it was.
LEMMA StaysPermitted ==
    ASSUME TypeInv, ApprovalInv, NEW d \in Drivers, NEW q,
           drv' = [drv EXCEPT ![d] = q],
           q.cur = drv[d].cur, q.mine.args = drv[d].mine.args, Cleared(q) => Cleared(drv[d]),
           granted' = granted, sent' = sent, approvals' = approvals
    PROVE  ApprovalInv'
<1>1. drv'[d] = q /\ \A e \in Drivers \ {d} : drv'[e] = drv[e]
  BY DEF TypeInv
<1>2. Permitted(drv[d])'
  BY <1>1 DEF ApprovalInv, Permitted, Cleared, Executing
<1> QED BY <1>1, <1>2, PermissionsKept

LEMMA ApprovalByStart ==
    ASSUME TypeInv, ApprovalInv, NEW d \in Drivers, StartStep(d)
    PROVE  ApprovalInv'
<1>1. granted' = granted /\ sent' = sent /\ approvals' = approvals
  BY DEF StartStep
<1>2. CASE Aim(d, "failed")
  <2>1. ~ Cleared(drv[d])'
    BY <1>2, Moved DEF Cleared, Executing
  <2>2. \A e \in Drivers \ {d} : drv'[e] = drv[e]
    BY <1>2 DEF Aim, TypeInv
  <2> QED BY <1>1, <2>1, <2>2, PermissionsKept DEF Permitted
<1>3. CASE drv' = [drv EXCEPT ![d].mine = Started(drv[d].mine), ![d].pc = "get_task",
                              ![d].goal = "executing"]
  <2> DEFINE m == Started(drv[d].mine)
             q == [drv[d] EXCEPT !.mine = m, !.pc = "get_task", !.goal = "executing"]
  <2>1. drv' = [drv EXCEPT ![d] = q]
    BY <1>3
  <2>2. m.args = drv[d].mine.args
    BY AtWork DEF Started, StepRow
  <2> HIDE DEF m
  <2>3. q.cur = drv[d].cur /\ q.mine = m
    BY AtWork DEF Driver
  <2>4. Cleared(drv[d])
    BY DEF StartStep, At, Cleared
  <2> HIDE DEF q
  <2> QED BY <1>1, <2>1, <2>2, <2>3, <2>4, StaysPermitted
<1> QED BY <1>2, <1>3 DEF StartStep

LEMMA ApprovalByCallRead ==
    ASSUME TypeInv, ApprovalInv, NEW d \in Drivers, CallRead(d)
    PROVE  ApprovalInv'
<1> DEFINE found == call[drv[d].cur].status
           a == [drv[d] EXCEPT !.out = found, !.pc = "settle"]
           b == [drv[d] EXCEPT !.req = call[drv[d].cur].req, !.pc = "call_save"]
<1>1. granted' = granted /\ sent' = sent /\ approvals' = approvals
  BY DEF CallRead, rows
<1>2. drv' = [drv EXCEPT ![d] = a] \/ drv' = [drv EXCEPT ![d] = b]
  BY DEF CallRead
<1>3. Cleared(drv[d])
  BY DEF CallRead, At, Cleared
<1>4. /\ a.cur = drv[d].cur /\ a.mine = drv[d].mine
      /\ b.cur = drv[d].cur /\ b.mine = drv[d].mine
  BY AtWork DEF Driver
<1> HIDE DEF a, b
<1> QED BY <1>1, <1>2, <1>3, <1>4, StaysPermitted

LEMMA ApprovalByCallSave ==
    ASSUME TypeInv, ApprovalInv, NEW d \in Drivers, CallSave(d)
    PROVE  ApprovalInv'
<1> DEFINE q == [drv[d] EXCEPT !.req = RequestId(d), !.pc = "invoke"]
<1>1. granted' = granted /\ sent' = sent /\ approvals' = approvals
  BY DEF CallSave
<1>2. CASE Leave(d)
  <2>1. ~ Cleared(drv[d])'
    BY <1>2 DEF Leave, IdleDriver, Cleared, Executing, TypeInv
  <2>2. \A e \in Drivers \ {d} : drv'[e] = drv[e]
    BY <1>2 DEF Leave, TypeInv
  <2> QED BY <1>1, <2>1, <2>2, PermissionsKept DEF Permitted
<1>3. CASE drv' = [drv EXCEPT ![d] = q]
  <2>1. Cleared(drv[d])
    BY DEF CallSave, At, Cleared
  <2>2. q.cur = drv[d].cur /\ q.mine = drv[d].mine
    BY AtWork DEF Driver
  <2> HIDE DEF q
  <2> QED BY <1>1, <1>3, <2>1, <2>2, StaysPermitted
<1> QED BY <1>2, <1>3 DEF CallSave

\* What is sent is what the thread was permitted to send.
LEMMA ApprovalByInvoke ==
    ASSUME TypeInv, ApprovalInv, NEW d \in Drivers, Invoke(d)
    PROVE  ApprovalInv'
<1> DEFINE x == [step |-> drv[d].cur, req |-> drv[d].req, args |-> drv[d].mine.args]
<1>1. granted' = granted /\ approvals' = approvals /\ sent' = sent \cup {x}
  BY DEF Invoke, rows
<1>2. x.step \in Writes => <<x.step, x.args>> \in granted
  BY DEF Invoke, At, ApprovalInv, Permitted, Cleared
<1> HIDE DEF x
<1>3. ExecutedAsApproved'
  BY <1>1, <1>2 DEF ApprovalInv, ExecutedAsApproved
<1>4. ApprovedRowsGranted'
  BY <1>1 DEF ApprovalInv, ApprovedRowsGranted
<1>5. ASSUME NEW o, drv' = [drv EXCEPT ![d].out = o, ![d].pc = "call_finish"]
      PROVE  drv'[d].pc = "call_finish" /\ \A e \in Drivers \ {d} : drv'[e] = drv[e]
  <2> DEFINE q == [drv[d] EXCEPT !.out = o, !.pc = "call_finish"]
  <2>1. q.pc = "call_finish"
    BY AtWork DEF Driver
  <2>2. drv' = [drv EXCEPT ![d] = q]
    BY <1>5
  <2> HIDE DEF q
  <2> QED BY <2>1, <2>2 DEF TypeInv
<1>6. drv'[d].pc = "call_finish" /\ \A e \in Drivers \ {d} : drv'[e] = drv[e]
  BY <1>5 DEF Invoke
<1>7. \A e \in Drivers : Permitted(drv[e])'
  BY <1>1, <1>6 DEF ApprovalInv, Permitted, Cleared, Executing
<1> QED BY <1>3, <1>4, <1>7 DEF ApprovalInv

LEMMA ApprovalBySavePlan ==
    ASSUME TypeInv, ApprovalInv, NEW d \in Drivers, SavePlan(d)
    PROVE  ApprovalInv'
<1> DEFINE l == IF drv[d].goal = "succeeded" THEN "get_task" ELSE "commit"
           q == [drv[d] EXCEPT !.pc = l]
<1>1. granted' = granted /\ sent' = sent /\ approvals' = approvals
  BY DEF SavePlan
<1>2. drv' = [drv EXCEPT ![d] = q]
  BY DEF SavePlan, Goto
<1>3. l \in {"get_task", "commit"}
  OBVIOUS
<1> HIDE DEF l
<1>4. q.cur = drv[d].cur /\ q.mine = drv[d].mine /\ q.goal = drv[d].goal /\ q.pc = l
  BY AtWork DEF Driver
<1> HIDE DEF q
<1>5. Cleared(q) => Cleared(drv[d])
  BY <1>3, <1>4 DEF SavePlan, At, Cleared, Executing
<1> QED BY <1>1, <1>2, <1>4, <1>5, StaysPermitted

LEMMA ApprovalByGetTask ==
    ASSUME TypeInv, ApprovalInv, NEW d \in Drivers, GetTask(d)
    PROVE  ApprovalInv'
<1> DEFINE l == IF drv[d].goal \in {"failed", "unknown"} /\ plan # "none"
                THEN "save_plan" ELSE "commit"
           q == [drv[d] EXCEPT !.seen = task, !.pc = l]
<1>1. granted' = granted /\ sent' = sent /\ approvals' = approvals
  BY DEF GetTask, rows
<1>2. drv' = [drv EXCEPT ![d] = q]
  BY DEF GetTask
<1>3. l \in {"save_plan", "commit"}
  OBVIOUS
<1> HIDE DEF l
<1>4. q.cur = drv[d].cur /\ q.mine = drv[d].mine /\ q.goal = drv[d].goal /\ q.pc = l
  BY AtWork DEF Driver
<1> HIDE DEF q
<1>5. Cleared(q) => Cleared(drv[d])
  BY <1>3, <1>4 DEF GetTask, At, Cleared, Executing
<1> QED BY <1>1, <1>2, <1>4, <1>5, StaysPermitted

\* Committing "executing" takes the permission along to the call.
LEMMA ApprovalByCommit ==
    ASSUME TypeInv, ApprovalInv, NEW d \in Drivers, Commit(d)
    PROVE  ApprovalInv'
<1> DEFINE l == NextLabel(drv[d].goal)
           a == [IdleDriver EXCEPT !.pc = l]
           b == [drv[d] EXCEPT !.pc = l, !.seen = NewTask, !.goal = "none"]
           r == [IdleDriver EXCEPT !.pc = "release"]
<1>1. granted' = granted /\ sent' = sent /\ approvals' = approvals
  BY DEF Commit
<1>2. \/ l \in {"loop", "release"} /\ drv' = [drv EXCEPT ![d] = a]
      \/ drv' = [drv EXCEPT ![d] = b]
      \/ drv' = [drv EXCEPT ![d] = r]
  BY DEF Commit, Leave
<1>3. /\ l \in {"loop", "call_read", "decide", "apply", "release"}
      /\ l = "call_read" => drv[d].goal = "executing"
  BY DEF NextLabel
<1>4. drv[d].goal = "executing" => Cleared(drv[d])
  BY DEF Commit, At, Cleared, Executing
<1> HIDE DEF l
<1>5. /\ a.pc = l /\ a.goal = "none" /\ r.pc = "release" /\ b.pc = l /\ b.goal = "none"
      /\ b.cur = drv[d].cur /\ b.mine = drv[d].mine
  BY AtWork DEF Driver, IdleDriver
<1> HIDE DEF a, b, r
<1>6. CASE drv' = [drv EXCEPT ![d] = b]
  <2>1. Cleared(b) => Cleared(drv[d])
    BY <1>3, <1>4, <1>5 DEF Cleared, Executing
  <2> QED BY <1>1, <1>5, <1>6, <2>1, StaysPermitted
<1>7. CASE \/ l \in {"loop", "release"} /\ drv' = [drv EXCEPT ![d] = a]
           \/ drv' = [drv EXCEPT ![d] = r]
  <2>1. /\ drv'[d].pc \in {"loop", "release"}
        /\ \A e \in Drivers \ {d} : drv'[e] = drv[e]
    BY <1>5, <1>7 DEF TypeInv
  <2>2. ~ Cleared(drv[d])'
    BY <2>1 DEF Cleared, Executing
  <2> QED BY <1>1, <2>1, <2>2, PermissionsKept DEF Permitted
<1> QED BY <1>2, <1>6, <1>7

\* Only the owner's approval makes an approval row approved, and it is granted with it.
LEMMA ApprovalByOwner ==
    ASSUME TypeInv, ApprovalInv,
           \/ \E r \in Requests : RequestStep(r)
           \/ \E a \in 1..MaxApprovals : SupersedeApproval(a)
    PROVE  ApprovalInv'
<1>1. ASSUME NEW r \in Requests, DecideSave(r) PROVE ApprovalInv'
  <2> DEFINE a == api[r].ap
             x == <<StepOf(a), api[r].args>>
  <2>1. a \in 1..MaxApprovals
    BY <1>1, AtDesk DEF DecideSave, Answering
  <2>2. drv' = drv /\ sent' = sent /\ granted \subseteq granted'
    BY <1>1 DEF DecideSave
  <2>3. CASE api[r].kind = "approve"
    <3>1. /\ approvals' = [approvals EXCEPT ![a].status = "approved", ![a].args = api[r].args]
          /\ x \in granted'
      BY <1>1, <2>3 DEF DecideSave
    <3>2. /\ approvals'[a].step = StepOf(a) /\ approvals'[a].args = api[r].args
          /\ \A b \in 1..MaxApprovals \ {a} : approvals'[b] = approvals[b]
      BY <2>1, <3>1 DEF TypeInv, TypeOK, ApprovalRow, StepOf
    <3> QED BY <2>2, <3>1, <3>2
            DEF ApprovalInv, ApprovedRowsGranted, Permitted, Cleared, Executing, ExecutedAsApproved
  <2>4. CASE api[r].kind # "approve"
    <3>1. approvals' = [approvals EXCEPT ![a].status = "rejected"]
      BY <1>1, <2>4 DEF DecideSave
    <3>2. /\ approvals'[a].status = "rejected"
          /\ \A b \in 1..MaxApprovals \ {a} : approvals'[b] = approvals[b]
      BY <2>1, <3>1 DEF TypeInv, TypeOK, ApprovalRow
    <3> QED BY <2>2, <3>2
            DEF ApprovalInv, ApprovedRowsGranted, Permitted, Cleared, Executing, ExecutedAsApproved
  <2> QED BY <2>3, <2>4
<1>2. ASSUME NEW a \in 1..MaxApprovals, SupersedeApproval(a) PROVE ApprovalInv'
  <2>1. /\ approvals'[a].status = "superseded"
        /\ \A b \in 1..MaxApprovals \ {a} : approvals'[b] = approvals[b]
    BY <1>2 DEF SupersedeApproval, TypeInv, TypeOK, ApprovalRow
  <2>2. drv' = drv /\ sent' = sent /\ granted' = granted
    BY <1>2 DEF SupersedeApproval
  <2> QED BY <2>1, <2>2
          DEF ApprovalInv, ApprovedRowsGranted, Permitted, Cleared, Executing, ExecutedAsApproved
<1>3. ASSUME NEW r \in Requests, RequestStep(r), ~ DecideSave(r)
      PROVE  drv' = drv /\ approvals' = approvals /\ granted' = granted /\ sent' = sent
  BY <1>3 DEF RequestStep, ClickApprove, ClickReject, DecideStep, ClickCancel, ClickResume,
              RequestCommit, RequestDies, rows
<1>4. CASE drv' = drv /\ approvals' = approvals /\ granted' = granted /\ sent' = sent
  BY <1>4 DEF ApprovalInv, ApprovedRowsGranted, Permitted, Cleared, Executing, ExecutedAsApproved
<1> QED BY <1>1, <1>2, <1>3, <1>4

LEMMA ApprovalStep == TypeInv /\ ApprovalInv /\ [Next]_vars => ApprovalInv'
<1> SUFFICES ASSUME TypeInv, ApprovalInv, [Next]_vars PROVE ApprovalInv'
  OBVIOUS
<1>1. ASSUME NEW d \in Drivers,
             DriverStep(d) \/ PreflightBlocks(d) \/ StepRefused(d) \/ OutOfTime(d)
      PROVE  ApprovalInv'
  BY <1>1, ApprovalByStanders, ApprovalAsked, ApprovalByCheck, ApprovalByStart,
     ApprovalByCallRead, ApprovalByCallSave, ApprovalByInvoke, ApprovalBySavePlan,
     ApprovalByGetTask, ApprovalByCommit
     DEF DriverStep
<1>2. ASSUME NEW o \in Owners, Crash(o) PROVE ApprovalInv'
  <2>1. \A d \in Drivers : drv'[d] = drv[d] \/ drv'[d] = IdleDriver
    BY <1>2 DEF Crash
  <2>2. granted' = granted /\ sent' = sent /\ approvals' = approvals
    BY <1>2 DEF Crash
  <2>3. \A d \in Drivers : Permitted(drv[d])'
    BY <2>1, <2>2 DEF ApprovalInv, Permitted, Cleared, Executing, IdleDriver
  <2> QED BY <2>2, <2>3 DEF ApprovalInv, ApprovedRowsGranted, ExecutedAsApproved
<1>3. CASE LeaseExpires \/ UNCHANGED vars
  BY <1>3 DEF LeaseExpires, vars, ApprovalInv, ApprovedRowsGranted, Permitted, Cleared,
              Executing, ExecutedAsApproved
<1> QED BY <1>1, <1>2, <1>3, ApprovalByOwner DEF Next

\* No write is ever sent that the owner did not approve with exactly those arguments,
\* whatever happens to the step row, the threads and the requests in between.
THEOREM OnlyApprovedWrites == Spec => []ExecutedAsApproved
<1>1. Init => ApprovalInv
  BY DEF Init, ApprovalInv, ApprovedRowsGranted, Permitted, Cleared, Executing, IdleDriver,
         ExecutedAsApproved
<1>2. ApprovalInv => ExecutedAsApproved
  BY DEF ApprovalInv
<1> QED BY <1>1, <1>2, TypeInit, TypeNext, ApprovalStep, PTL DEF Spec

-----------------------------------------------------------------------------
(* The call row.  Its request id never changes, a thread that has read it     *)
(* keeps it until the outcome is written, and whatever was sent carries it:   *)
(* the second of two threads that found no row runs into the UNIQUE key.      *)

Calling(r) == r.pc \in {"call_save", "invoke", "call_finish"}
InHand(r) ==
    Calling(r) => /\ r.req # 0 => r.req = call[r.cur].req
                  /\ r.pc # "call_save" => r.req # 0
RowHasId == \A s \in Steps : call[s].req = 0 <=> call[s].status = "none"
SentAsRow == \A x \in sent : x.req = call[x.step].req /\ x.req # 0
CallInv ==
    /\ RowHasId
    /\ \A d \in Drivers : InHand(drv[d])
    /\ SentAsRow

\* A call under way is one whose row says no answer yet.
Unanswered(r) == Calling(r) => ~ Reused(call[r.cur].status)
AnswerInv == \A d \in Drivers : Unanswered(drv[d])

\* While one thread drives, the others are idle.
LEMMA Alone ==
    ASSUME LeaseHeld, NEW d \in Drivers, ~ At(d, "idle")
    PROVE  \A e \in Drivers \ {d} : drv[e].pc = "idle"
BY DEF LeaseHeld, Driving, At

\* Everything a thread does but reading the row, saving it, calling and finishing.
Elsewhere(d) ==
    \/ LoopRead(d) \/ OutOfTime(d) \/ BeginPlanning(d) \/ Planner(d) \/ Pick(d) \/ Recover(d)
    \/ PreflightBlocks(d) \/ StepRefused(d) \/ Check(d) \/ RequestApproval(d) \/ StepWaits(d)
    \/ StartStep(d) \/ Settle(d) \/ Decide(d) \/ Apply(d) \/ Finish(d)
    \/ SavePlan(d) \/ GetTask(d) \/ Commit(d) \/ RunTask(d) \/ Release(d)

\* A label written into a thread's record is the label it is at.
LEMMA Labelled ==
    ASSUME TypeInv, NEW d \in Drivers, NEW q, drv' = [drv EXCEPT ![d] = q]
    PROVE  drv'[d] = q /\ \A e \in Drivers \ {d} : drv'[e] = drv[e]
BY DEF TypeInv

LEMMA NotCalling ==
    ASSUME TypeInv, NEW d \in Drivers, Elsewhere(d)
    PROVE  ~ Calling(drv'[d])
<1>1. CASE \/ LoopRead(d) \/ OutOfTime(d) \/ BeginPlanning(d) \/ Planner(d) \/ Pick(d)
           \/ Recover(d) \/ PreflightBlocks(d) \/ StepRefused(d) \/ RequestApproval(d)
           \/ StepWaits(d) \/ Settle(d) \/ Decide(d) \/ Apply(d) \/ Finish(d)
           \/ RunTask(d) \/ Release(d)
  BY <1>1, NotCleared DEF Cleared, Calling
<1>2. CASE Check(d)
  BY <1>2, Moved DEF Check, Calling
<1>3. CASE StartStep(d)
  <2> DEFINE q == [drv[d] EXCEPT !.mine = Started(drv[d].mine), !.pc = "get_task",
                                 !.goal = "executing"]
  <2>1. CASE Aim(d, "failed")
    BY <2>1, Moved DEF Calling
  <2>2. CASE drv' = [drv EXCEPT ![d] = q]
    <3>1. q.pc = "get_task"
      BY AtWork DEF Driver
    <3> HIDE DEF q
    <3> QED BY <2>2, <3>1, Labelled DEF Calling
  <2> QED BY <1>3, <2>1, <2>2 DEF StartStep
<1>4. CASE SavePlan(d)
  BY <1>4, Moved DEF SavePlan, Calling
<1>5. CASE GetTask(d)
  <2> DEFINE l == IF drv[d].goal \in {"failed", "unknown"} /\ plan # "none"
                  THEN "save_plan" ELSE "commit"
             q == [drv[d] EXCEPT !.seen = task, !.pc = l]
  <2>1. q.pc = l
    BY AtWork DEF Driver
  <2>2. drv' = [drv EXCEPT ![d] = q] /\ l \in {"save_plan", "commit"}
    BY <1>5 DEF GetTask
  <2> HIDE DEF q, l
  <2> QED BY <2>1, <2>2, Labelled DEF Calling
<1>6. CASE Commit(d)
  <2> DEFINE l == NextLabel(drv[d].goal)
             a == [IdleDriver EXCEPT !.pc = l]
             b == [drv[d] EXCEPT !.pc = l, !.seen = NewTask, !.goal = "none"]
  <2>1. Leave(d) \/ drv' = [drv EXCEPT ![d] = a] \/ drv' = [drv EXCEPT ![d] = b]
    BY <1>6 DEF Commit
  <2>2. l \in {"loop", "call_read", "decide", "apply", "release"}
    BY DEF NextLabel
  <2> HIDE DEF l
  <2>3. a.pc = l /\ b.pc = l
    BY AtWork DEF Driver, IdleDriver
  <2> HIDE DEF a, b
  <2> QED BY <2>1, <2>2, <2>3, Moved, Labelled DEF Calling
<1> QED BY <1>1, <1>2, <1>3, <1>4, <1>5, <1>6 DEF Elsewhere

\* A thread elsewhere touches neither call rows nor what was sent.
LEMMA CallsUntouched ==
    ASSUME TypeInv, NEW d \in Drivers, Elsewhere(d)
    PROVE  call' = call /\ sent' = sent /\ invoked' = invoked
BY DEF Elsewhere, LoopRead, OutOfTime, BeginPlanning, Planner, Pick, Recover, PreflightBlocks,
       StepRefused, Check, RequestApproval, StepWaits, StartStep, Settle, Decide, Apply, Finish,
       SavePlan, GetTask, Commit, RunTask, Release, rows

\* A step of one thread keeps the invariant if rows and requests stay and the thread
\* holds the row it has.
LEMMA HandKept ==
    ASSUME TypeInv, CallInv, NEW d \in Drivers,
           \A e \in Drivers \ {d} : drv'[e] = drv[e],
           call' = call, sent' = sent, InHand(drv[d])'
    PROVE  CallInv'
BY DEF CallInv, RowHasId, InHand, Calling, SentAsRow

LEMMA CallByElsewhere ==
    ASSUME TypeInv, CallInv, NEW d \in Drivers, Elsewhere(d)
    PROVE  CallInv'
<1>1. \A e \in Drivers \ {d} : drv'[e] = drv[e]
  BY WorkIsOwn DEF Elsewhere, Work, RunTask, Release, Goto, TypeInv
<1> QED BY <1>1, NotCalling, CallsUntouched, HandKept DEF InHand

\* get_capability_call: an answered call is not re-issued, any other hands over its id.
LEMMA CallByRead ==
    ASSUME TypeInv, CallInv, NEW d \in Drivers, CallRead(d)
    PROVE  CallInv'
<1> DEFINE found == call[drv[d].cur].status
           a == [drv[d] EXCEPT !.out = found, !.pc = "settle"]
           b == [drv[d] EXCEPT !.req = call[drv[d].cur].req, !.pc = "call_save"]
<1>1. call' = call /\ sent' = sent
  BY DEF CallRead, rows
<1>2. drv' = [drv EXCEPT ![d] = a] \/ (~ Reused(found) /\ drv' = [drv EXCEPT ![d] = b])
  BY DEF CallRead
<1>3. /\ a.pc = "settle"
      /\ b.pc = "call_save" /\ b.cur = drv[d].cur /\ b.req = call[drv[d].cur].req
  BY AtWork DEF Driver
<1> HIDE DEF a, b
<1>4. CASE drv' = [drv EXCEPT ![d] = a]
  BY <1>1, <1>3, <1>4, Labelled, HandKept DEF InHand, Calling
<1>5. CASE ~ Reused(found) /\ drv' = [drv EXCEPT ![d] = b]
  <2>1. drv'[d] = b /\ \A e \in Drivers \ {d} : drv'[e] = drv[e]
    BY <1>5, Labelled
  <2>2. InHand(drv[d])'
    BY <1>1, <1>3, <1>5, <2>1 DEF InHand, Calling
  <2> QED BY <1>1, <2>1, <2>2, HandKept
<1> QED BY <1>2, <1>4, <1>5

\* The thread d changes the row of its step s and keeps, or for the first time gives,
\* the request id of the row, which is what any other thread holds.
LEMMA RowWritten ==
    ASSUME TypeInv, CallInv, NEW d \in Drivers,
           NEW s \in Steps, NEW row, call' = [call EXCEPT ![s] = row], sent' = sent,
           row.req # 0, row.status # "none", call[s].req \in {0, row.req},
           \A e \in Drivers \ {d} : drv'[e] = drv[e], InHand(drv[d])'
    PROVE  CallInv'
<1>1. call'[s] = row /\ \A t \in Steps \ {s} : call'[t] = call[t]
  BY DEF TypeInv, TypeOK
<1>2. RowHasId'
  BY <1>1 DEF CallInv, RowHasId
<1>3. \A x \in sent : x.step \in Steps
  BY DEF TypeInv, TypeOK
<1>4. SentAsRow'
  BY <1>1, <1>3 DEF CallInv, SentAsRow
<1>5. \A e \in Drivers : InHand(drv[e])'
  BY <1>1 DEF CallInv, InHand, Calling
<1> QED BY <1>2, <1>4, <1>5 DEF CallInv

LEMMA CallBySave ==
    ASSUME TypeInv, CallInv, NEW d \in Drivers, CallSave(d)
    PROVE  CallInv'
<1> DEFINE s == drv[d].cur
           id == RequestId(d)
           row == [status |-> "running", req |-> id]
           q == [drv[d] EXCEPT !.req = id, !.pc = "invoke"]
<1>1. s \in Steps /\ drv[d].pc = "call_save" /\ sent' = sent
  BY AtWork DEF CallSave, At, StepLabels
<1>2. /\ drv[d].req # 0 => drv[d].req = call[s].req
      /\ call[s].status = "none" => call[s].req = 0
  BY <1>1 DEF CallInv, RowHasId, InHand, Calling
<1>3. id # 0 /\ (drv[d].req # 0 => id = drv[d].req)
  BY <1>1, AtWork DEF RequestId, NewRequestId, TypeInv, TypeOK
<1> HIDE DEF id
<1>4. CASE Leave(d) /\ UNCHANGED call
  <2>1. ~ Calling(drv'[d]) /\ \A e \in Drivers \ {d} : drv'[e] = drv[e]
    BY <1>4, Moved DEF Calling, Leave, TypeInv
  <2> QED BY <1>1, <1>4, <2>1, HandKept DEF InHand
<1>5. CASE /\ ~ (drv[d].req = 0 /\ call[s].status # "none")
           /\ call' = [call EXCEPT ![s] = row] /\ drv' = [drv EXCEPT ![d] = q]
  <2>0. call[s].req \in {0, id}
    BY <1>2, <1>3, <1>5
  <2>1. q.pc = "invoke" /\ q.req = id /\ q.cur = s
    BY AtWork DEF Driver
  <2> HIDE DEF q
  <2>2. drv'[d] = q /\ \A e \in Drivers \ {d} : drv'[e] = drv[e]
    BY <1>5, Labelled
  <2>3. call'[s] = row
    BY <1>1, <1>5 DEF TypeInv, TypeOK
  <2>4. InHand(drv[d])'
    BY <1>3, <2>1, <2>2, <2>3 DEF InHand
  <2>5. row.req = id /\ row.status # "none"
    OBVIOUS
  <2> HIDE DEF s, row
  <2> QED BY <1>1, <1>3, <1>5, <2>0, <2>2, <2>4, <2>5, RowWritten
<1> QED BY <1>4, <1>5 DEF CallSave, id

\* What is sent carries the id of the row.
LEMMA CallByInvoke ==
    ASSUME TypeInv, CallInv, NEW d \in Drivers, Invoke(d)
    PROVE  CallInv'
<1> DEFINE x == [step |-> drv[d].cur, req |-> drv[d].req, args |-> drv[d].mine.args]
<1>1. call' = call /\ sent' = sent \cup {x}
  BY DEF Invoke, rows
<1>2. InHand(drv[d]) /\ drv[d].pc = "invoke"
  BY DEF CallInv, Invoke, At
<1>3. x.req = call[x.step].req /\ x.req # 0
  BY <1>2 DEF InHand, Calling
<1> HIDE DEF x
<1>4. SentAsRow'
  BY <1>1, <1>3 DEF CallInv, SentAsRow
<1>5. PICK o : drv' = [drv EXCEPT ![d].out = o, ![d].pc = "call_finish"]
  BY DEF Invoke
<1> DEFINE q == [drv[d] EXCEPT !.out = o, !.pc = "call_finish"]
<1>6. q.pc = "call_finish" /\ q.req = drv[d].req /\ q.cur = drv[d].cur
  BY AtWork DEF Driver
<1>7. drv' = [drv EXCEPT ![d] = q]
  BY <1>5
<1> HIDE DEF q
<1>8. drv'[d] = q /\ \A e \in Drivers \ {d} : drv'[e] = drv[e]
  BY <1>7, Labelled
<1>9. \A e \in Drivers : InHand(drv[e])'
  BY <1>1, <1>2, <1>6, <1>8 DEF CallInv, InHand, Calling
<1> QED BY <1>1, <1>4, <1>9 DEF CallInv, RowHasId

LEMMA CallByFinish ==
    ASSUME TypeInv, CallInv, NEW d \in Drivers, CallFinish(d)
    PROVE  CallInv'
<1> DEFINE s == drv[d].cur
           status == IF drv[d].out \in {"succeeded", "paused", "unknown"} THEN drv[d].out
                     ELSE "failed"
           row == [status |-> status, req |-> drv[d].req]
<1>1. s \in Steps /\ drv[d].pc = "call_finish" /\ sent' = sent
  BY AtWork DEF CallFinish, At, StepLabels
<1>2. drv[d].req = call[s].req /\ drv[d].req # 0
  BY <1>1 DEF CallInv, InHand, Calling
<1>3. status # "none"
  OBVIOUS
<1>4. call' = [call EXCEPT ![s] = row]
  BY DEF CallFinish
<1>5. drv'[d].pc = "settle" /\ \A e \in Drivers \ {d} : drv'[e] = drv[e]
  BY Moved DEF CallFinish, Goto, TypeInv
<1>6. InHand(drv[d])'
  BY <1>5 DEF InHand, Calling
<1>7. row.req = drv[d].req /\ row.status # "none"
  BY <1>3
<1> HIDE DEF s, row
<1> QED BY <1>1, <1>2, <1>4, <1>5, <1>6, <1>7, RowWritten

\* Requests, crashes and the lease leave call rows and what was sent alone.
LEMMA CallByOthers ==
    ASSUME CallInv, call' = call, sent' = sent,
           \A d \in Drivers : drv'[d] = drv[d] \/ drv'[d] = IdleDriver
    PROVE  CallInv'
<1>1. \A d \in Drivers : InHand(drv[d])'
  BY DEF CallInv, InHand, Calling, IdleDriver
<1> QED BY <1>1 DEF CallInv, RowHasId, SentAsRow

LEMMA Outside ==
    ASSUME [Next]_vars,
           ~ \E d \in Drivers : DriverStep(d) \/ PreflightBlocks(d) \/ StepRefused(d) \/ OutOfTime(d)
    PROVE  /\ call' = call /\ sent' = sent /\ invoked' = invoked
           /\ \A d \in Drivers : drv'[d] = drv[d] \/ drv'[d] = IdleDriver
<1>1. ASSUME NEW o \in Owners, Crash(o)
      PROVE  /\ call' = call /\ sent' = sent /\ invoked' = invoked
             /\ \A d \in Drivers : drv'[d] = drv[d] \/ drv'[d] = IdleDriver
  BY <1>1 DEF Crash
<1>2. ASSUME NEW r \in Requests, RequestStep(r)
      PROVE  call' = call /\ sent' = sent /\ invoked' = invoked /\ drv' = drv
  BY <1>2 DEF RequestStep, ClickApprove, ClickReject, DecideStep, DecideSave, ClickCancel,
              ClickResume, RequestCommit, RequestDies, rows
<1>3. CASE LeaseExpires \/ (\E a \in 1..MaxApprovals : SupersedeApproval(a)) \/ UNCHANGED vars
  BY <1>3 DEF LeaseExpires, SupersedeApproval, vars
<1> QED BY <1>1, <1>2, <1>3 DEF Next

LEMMA CallStep == TypeInv /\ CallInv /\ [Next]_vars => CallInv'
<1> SUFFICES ASSUME TypeInv, CallInv, [Next]_vars PROVE CallInv'
  OBVIOUS
<1>1. ASSUME NEW d \in Drivers,
             DriverStep(d) \/ PreflightBlocks(d) \/ StepRefused(d) \/ OutOfTime(d)
      PROVE  CallInv'
  BY <1>1, CallByElsewhere, CallByRead, CallBySave, CallByInvoke, CallByFinish
     DEF DriverStep, Elsewhere
<1> QED BY <1>1, Outside, CallByOthers

LEMMA CallInit == Init => CallInv
BY DEF Init, CallInv, RowHasId, InHand, Calling, SentAsRow, IdleDriver

\* However often a step is retried, recovered, taken over by another process or driven
\* by two threads at once, the external system sees one request id for it.
THEOREM OneIdPerStep == Spec => []OneRequestId
<1>1. CallInv => OneRequestId
  BY DEF CallInv, SentAsRow, OneRequestId
<1> QED BY <1>1, CallInit, TypeInit, TypeNext, CallStep, PTL DEF Spec

\* A thread works on a row it found unanswered, and the others are idle.
LEMMA AnswerByThread ==
    ASSUME TypeInv, AnswerInv, LeaseHeld, NEW d \in Drivers,
           CallRead(d) \/ CallSave(d) \/ Invoke(d) \/ CallFinish(d)
    PROVE  AnswerInv'
<1>1. drv[d].cur \in Steps /\ ~ At(d, "idle") /\ drv[d] \in Driver
  BY AtWork DEF CallRead, CallSave, Invoke, CallFinish, At, StepLabels
<1>2. CASE CallRead(d)
  <2> DEFINE found == call[drv[d].cur].status
             a == [drv[d] EXCEPT !.out = found, !.pc = "settle"]
             b == [drv[d] EXCEPT !.req = call[drv[d].cur].req, !.pc = "call_save"]
  <2>1. call' = call
    BY <1>2 DEF CallRead, rows
  <2>2. drv' = [drv EXCEPT ![d] = a] \/ (~ Reused(found) /\ drv' = [drv EXCEPT ![d] = b])
    BY <1>2 DEF CallRead
  <2>3. a.pc = "settle" /\ b.cur = drv[d].cur
    BY <1>1 DEF Driver
  <2> HIDE DEF a, b
  <2>4. Unanswered(drv[d])' /\ \A e \in Drivers \ {d} : drv'[e] = drv[e]
    BY <2>1, <2>2, <2>3, Labelled DEF Unanswered, Calling
  <2> QED BY <2>1, <2>4 DEF AnswerInv, Unanswered, Calling
<1>3. CASE Invoke(d)
  <2>1. PICK o : drv' = [drv EXCEPT ![d].out = o, ![d].pc = "call_finish"]
    BY <1>3 DEF Invoke
  <2> DEFINE q == [drv[d] EXCEPT !.out = o, !.pc = "call_finish"]
  <2>2. q.cur = drv[d].cur
    BY <1>1 DEF Driver
  <2>3. drv' = [drv EXCEPT ![d] = q]
    BY <2>1
  <2> HIDE DEF q
  <2>4. drv'[d] = q /\ \A e \in Drivers \ {d} : drv'[e] = drv[e]
    BY <2>3, Labelled
  <2>5. call' = call /\ drv[d].pc = "invoke"
    BY <1>3 DEF Invoke, rows, At
  <2> QED BY <2>2, <2>4, <2>5 DEF AnswerInv, Unanswered, Calling
<1>4. CASE CallSave(d) \/ CallFinish(d)
  <2>1. \A e \in Drivers \ {d} : Unanswered(drv[e])'
    <3>1. \A e \in Drivers \ {d} : drv'[e] = drv[e]
      BY <1>4 DEF CallSave, CallFinish, Leave, Goto, TypeInv
    <3> QED BY <1>1, <3>1, Alone DEF Unanswered, Calling
  <2>2. CASE CallFinish(d) \/ Leave(d)
    BY <2>1, <2>2, Moved DEF CallFinish, Unanswered, Calling, AnswerInv
  <2>3. CASE CallSave(d) /\ ~ Leave(d)
    <3> DEFINE q == [drv[d] EXCEPT !.req = RequestId(d), !.pc = "invoke"]
    <3>1. q.cur = drv[d].cur
      BY <1>1 DEF Driver
    <3> DEFINE row == [status |-> "running", req |-> RequestId(d)]
    <3>0. drv' = [drv EXCEPT ![d] = q] /\ call' = [call EXCEPT ![drv[d].cur] = row]
      BY <2>3 DEF CallSave
    <3>r. row.status = "running"
      OBVIOUS
    <3> HIDE DEF q, row
    <3>2. drv' = [drv EXCEPT ![d] = q] /\ call'[drv[d].cur].status = "running"
      BY <1>1, <3>0, <3>r DEF TypeInv, TypeOK
    <3>3. drv'[d] = q
      BY <3>2, Labelled
    <3>4. Unanswered(drv[d])'
      BY <3>1, <3>2, <3>3 DEF Unanswered, Reused
    <3> QED BY <2>1, <3>4 DEF AnswerInv
  <2> QED BY <1>4, <2>2, <2>3
<1> QED BY <1>2, <1>3, <1>4

LEMMA AnswerStep == TypeInv /\ LeaseHeld /\ AnswerInv /\ [Next]_vars => AnswerInv'
<1> SUFFICES ASSUME TypeInv, LeaseHeld, AnswerInv, [Next]_vars PROVE AnswerInv'
  OBVIOUS
<1>1. ASSUME NEW d \in Drivers, Elsewhere(d) PROVE AnswerInv'
  <2>1. \A e \in Drivers \ {d} : drv'[e] = drv[e]
    BY <1>1, WorkIsOwn DEF Elsewhere, Work, RunTask, Release, Goto, TypeInv
  <2> QED BY <1>1, <2>1, NotCalling, CallsUntouched DEF AnswerInv, Unanswered, Calling
<1>2. ASSUME NEW d \in Drivers,
             DriverStep(d) \/ PreflightBlocks(d) \/ StepRefused(d) \/ OutOfTime(d)
      PROVE  AnswerInv'
  BY <1>1, <1>2, AnswerByThread DEF DriverStep, Elsewhere
<1>3. CASE ~ \E d \in Drivers :
              DriverStep(d) \/ PreflightBlocks(d) \/ StepRefused(d) \/ OutOfTime(d)
  BY <1>3, Outside DEF AnswerInv, Unanswered, Calling, IdleDriver
<1> QED BY <1>2, <1>3

\* An answered call row is final and its capability is not invoked again.
LEMMA AnsweredStays ==
    ASSUME TypeInv, AnswerInv, [Next]_vars, NEW s \in Steps, call[s].status \in {"succeeded", "unknown"}
    PROVE  call'[s] = call[s] /\ invoked'[s] = invoked[s]
<1>1. ASSUME NEW d \in Drivers, CallSave(d) \/ Invoke(d) \/ CallFinish(d)
      PROVE  call'[s] = call[s] /\ invoked'[s] = invoked[s]
  <2>1. drv[d].cur \in Steps /\ Calling(drv[d])
    BY <1>1, AtWork DEF CallSave, Invoke, CallFinish, At, StepLabels, Calling
  <2>2. drv[d].cur # s
    BY <2>1 DEF AnswerInv, Unanswered, Reused
  <2> QED BY <1>1, <2>1, <2>2 DEF CallSave, Invoke, CallFinish, rows, TypeInv, TypeOK
<1>2. ASSUME NEW d \in Drivers,
             DriverStep(d) \/ PreflightBlocks(d) \/ StepRefused(d) \/ OutOfTime(d)
      PROVE  call'[s] = call[s] /\ invoked'[s] = invoked[s]
  BY <1>1, <1>2, CallsUntouched DEF DriverStep, Elsewhere, CallRead, rows
<1> QED BY <1>2, Outside

\* Once the call row says succeeded or unknown, no retry, no recovery and no late click
\* makes the service call the external system for that step again, until two threads of
\* one process drive the Task.
THEOREM NoCallAfterAnswer == Spec => NoRepeatAfterAnswer
<1> DEFINE Answered == \A s \in Steps : ~ shared /\ call[s].status \in {"succeeded", "unknown"} =>
                           call'[s] = call[s] /\ invoked'[s] = invoked[s]
           Inv == shared \/ (LeaseHeld /\ AnswerInv)
<1>1. TypeInv /\ Inv /\ [Next]_vars => Inv'
  BY LeaseStep, AnswerStep, SharingStays
<1>2. TypeInv /\ Inv /\ [Next]_vars => [Answered]_vars
  BY AnsweredStays
<1>3. Init => Inv
  BY LeaseInit DEF Init, AnswerInv, Unanswered, Calling, IdleDriver
<1> HIDE DEF Answered, Inv
<1>4. Spec => [][Answered]_vars
  BY <1>1, <1>2, <1>3, TypeInit, TypeNext, PTL DEF Spec
<1> QED BY <1>4 DEF NoRepeatAfterAnswer, Answered

-----------------------------------------------------------------------------
(* The attempt counter of a step row bounds the calls of its capability, for  *)
(* every number of processes, requests, crashes and attempts.                 *)

-----------------------------------------------------------------------------
(* A call is counted in the row before it is made, but threads hold copies of *)
(* the row: mine, which StartStep writes back, and snap, which SavePlan       *)
(* writes back.  A copy that may be written must count every call made.       *)

Checking(r) == r.pc \in {"check", "request", "start"}
Counted(r) == \/ r.pc \in {"call_read", "call_save", "invoke"}
              \/ r.goal = "executing" /\ r.pc \in {"get_task", "commit"}
MaySave(r) ==
    \/ Checking(r) \/ r.pc \in {"apply", "finish", "save_plan"}
    \/ r.pc = "decide" /\ r.cur = 0
    \/ r.pc \in {"get_task", "commit"} /\ r.goal = "event"
    \/ r.pc = "get_task" /\ r.goal \in {"failed", "unknown"} /\ plan # "none"
Counts(r) ==
    /\ Checking(r) => invoked[r.cur] <= r.mine.attempts
    /\ Counted(r) => /\ invoked[r.cur] < r.mine.attempts
                     /\ r.mine.attempts <= step[r.cur].attempts
    /\ MaySave(r) => \A s \in Steps : invoked[s] <= r.snap[s].attempts
    /\ r.pc \in {"begin_planning", "planner"} => plan = "none"
    /\ r.pc \in {"get_task", "commit"} /\ r.goal = "ready" => r.cur # 0
    /\ r.pc = "save_plan" => r.goal \in {"failed", "unknown", "succeeded"}
RowsCount == \A s \in Steps : invoked[s] <= step[s].attempts
AttemptInv == RowsCount /\ \A d \in Drivers : Counts(drv[d])

\* Nothing is asked of a thread that copies nothing and calls nothing.
Light(r) ==
    \/ r.pc \in {"idle", "loop", "pick", "recover", "call_finish", "settle", "release"}
    \/ r.pc \in {"get_task", "commit"}
       /\ r.goal \in {"none", "planned", "waiting_approval", "waiting_input", "succeeded",
                      "timed_out"}
LEMMA LightCounts == \A r : Light(r) => Counts(r)
BY DEF Light, Counts, Checking, Counted, MaySave
LEMMA LightCountsNext == \A d \in Drivers : Light(drv'[d]) => Counts(drv[d])'
BY DEF Light, Counts, Checking, Counted, MaySave

\* Where the control operators leave the locals of a thread.
LEMMA GoneWith ==
    ASSUME TypeInv, NEW d \in Drivers, NEW l, Goto(d, l)
    PROVE  /\ drv'[d].pc = l /\ drv'[d].goal = drv[d].goal /\ drv'[d].cur = drv[d].cur
           /\ drv'[d].mine = drv[d].mine /\ drv'[d].snap = drv[d].snap
<1> DEFINE q == [drv[d] EXCEPT !.pc = l]
<1>1. /\ q.pc = l /\ q.goal = drv[d].goal /\ q.cur = drv[d].cur
      /\ q.mine = drv[d].mine /\ q.snap = drv[d].snap
  BY AtWork DEF Driver
<1>2. drv' = [drv EXCEPT ![d] = q]
  BY DEF Goto
<1> HIDE DEF q
<1> QED BY <1>1, <1>2, Labelled

LEMMA AimedWith ==
    ASSUME TypeInv, NEW d \in Drivers, NEW g, Aim(d, g)
    PROVE  /\ drv'[d].pc = "get_task" /\ drv'[d].goal = g /\ drv'[d].cur = drv[d].cur
           /\ drv'[d].mine = drv[d].mine /\ drv'[d].snap = drv[d].snap
<1> DEFINE q == [drv[d] EXCEPT !.pc = "get_task", !.goal = g]
<1>1. /\ q.pc = "get_task" /\ q.goal = g /\ q.cur = drv[d].cur
      /\ q.mine = drv[d].mine /\ q.snap = drv[d].snap
  BY AtWork DEF Driver
<1>2. drv' = [drv EXCEPT ![d] = q]
  BY DEF Aim
<1> HIDE DEF q
<1> QED BY <1>1, <1>2, Labelled

\* A thread's step keeps the invariant if the rows still count and the thread does;
\* the others are idle.
LEMMA CountsKept ==
    ASSUME TypeInv, AttemptInv, LeaseHeld, NEW d \in Drivers, ~ At(d, "idle"),
           \A e \in Drivers \ {d} : drv'[e] = drv[e], RowsCount', Counts(drv[d])'
    PROVE  AttemptInv'
<1>1. \A e \in Drivers \ {d} : Light(drv'[e])
  BY Alone DEF Light
<1> QED BY <1>1, LightCountsNext DEF AttemptInv

\* The same where the step rows keep their counters and nothing is called.
LEMMA RowsKept ==
    ASSUME TypeInv, AttemptInv, invoked' = invoked,
           step' = step \/ \E s \in Steps : \E row : step' = Written(s, row)
    PROVE  /\ RowsCount'
           /\ \A s \in Steps : step'[s].attempts = step[s].attempts
<1>1. ASSUME NEW s \in Steps, NEW row, step' = Written(s, row), NEW t \in Steps
      PROVE  step'[t].attempts = step[t].attempts
  <2> DEFINE x == [step[s] EXCEPT !.status = row.status, !.args = row.args]
  <2>1. x.attempts = step[s].attempts
    BY DEF TypeInv, TypeOK, StepRow
  <2>2. step' = [step EXCEPT ![s] = x]
    BY <1>1 DEF Written
  <2> HIDE DEF x
  <2> QED BY <2>1, <2>2 DEF TypeInv, TypeOK
<1>2. \A s \in Steps : step'[s].attempts = step[s].attempts
  BY <1>1
<1> QED BY <1>2 DEF AttemptInv, RowsCount

-----------------------------------------------------------------------------
(* One lemma per handler, or per group of handlers that end alike.            *)

\* Handlers after which the thread holds no copy it may write.
LEMMA CountByLight ==
    ASSUME TypeInv, AttemptInv, LeaseHeld, NEW d \in Drivers,
           \/ OutOfTime(d) \/ StepWaits(d) \/ CallFinish(d)
    PROVE  AttemptInv'
<1>1. ~ At(d, "idle") /\ \A e \in Drivers \ {d} : drv'[e] = drv[e]
  BY WorkIsOwn DEF Work
<1>2. Light(drv'[d])
  BY Moved DEF OutOfTime, StepWaits, CallFinish, Light
<1>3. invoked' = invoked /\ (step' = step \/ \E s \in Steps : \E row : step' = Written(s, row))
  BY AtWork DEF OutOfTime, StepWaits, CallFinish, At, StepLabels, rows
<1> QED BY <1>1, <1>2, <1>3, RowsKept, CountsKept, LightCountsNext

\* The head of the loop and the planning: no step was called yet, or no plan exists.
LEMMA CountByPlanning ==
    ASSUME TypeInv, AttemptInv, LeaseHeld, NEW d \in Drivers,
           \/ LoopRead(d) \/ BeginPlanning(d) \/ Planner(d)
    PROVE  AttemptInv'
<1>1. ~ At(d, "idle") /\ \A e \in Drivers \ {d} : drv'[e] = drv[e]
  BY WorkIsOwn DEF Work
<1>2. invoked' = invoked /\ step' = step /\ plan' = plan
  BY DEF LoopRead, BeginPlanning, Planner, rows
<1>3. CASE LoopRead(d)
  <2> DEFINE q == [drv[d] EXCEPT !.seen = task, !.pc = "begin_planning"]
  <2>1. ASSUME Leave(d) \/ Goto(d, "pick") PROVE Counts(drv[d])'
    BY <2>1, Moved, LightCountsNext DEF Light
  <2>2. ASSUME plan = "none", drv' = [drv EXCEPT ![d] = q] PROVE Counts(drv[d])'
    <3>1. q.pc = "begin_planning"
      BY AtWork DEF Driver
    <3> HIDE DEF q
    <3>2. drv'[d].pc = "begin_planning"
      BY <2>2, <3>1, Labelled
    <3> QED BY <1>2, <2>2, <3>2 DEF Counts, Checking, Counted, MaySave
  <2>3. Counts(drv[d])'
    BY <1>3, <2>1, <2>2 DEF LoopRead
  <2> QED BY <1>1, <1>2, <2>3, RowsKept, CountsKept
<1>4. CASE BeginPlanning(d)
  <2> DEFINE q == [drv[d] EXCEPT !.seen = NewTask, !.pc = "planner"]
  <2>1. ASSUME Leave(d) PROVE Counts(drv[d])'
    BY <2>1, Moved, LightCountsNext DEF Light
  <2>2. ASSUME drv' = [drv EXCEPT ![d] = q] PROVE Counts(drv[d])'
    <3>1. q.pc = "planner"
      BY AtWork DEF Driver
    <3> HIDE DEF q
    <3>2. drv'[d].pc = "planner" /\ plan = "none"
      BY <1>4, <2>2, <3>1, Labelled DEF AttemptInv, Counts, BeginPlanning, At
    <3> QED BY <1>2, <3>2 DEF Counts, Checking, Counted, MaySave
  <2>3. Counts(drv[d])'
    BY <1>4, <2>1, <2>2 DEF BeginPlanning
  <2> QED BY <1>1, <1>2, <2>3, RowsKept, CountsKept
<1>5. CASE Planner(d)
  <2>1. plan = "none"
    BY <1>5 DEF AttemptInv, Counts, Planner, At
  <2>2. drv'[d].pc = "get_task" /\ drv'[d].goal \in {"planned", "waiting_input", "failed"}
    BY <1>5, Moved DEF Planner
  <2>3. Counts(drv[d])'
    BY <1>2, <2>1, <2>2 DEF Counts, Checking, Counted, MaySave
  <2> QED BY <1>1, <1>2, <2>3, RowsKept, CountsKept
<1> QED BY <1>3, <1>4, <1>5

\* resume_step copies the rows as they are.
LEMMA CountByPick ==
    ASSUME TypeInv, AttemptInv, LeaseHeld, NEW d \in Drivers, Pick(d)
    PROVE  AttemptInv'
<1>1. ~ At(d, "idle") /\ \A e \in Drivers \ {d} : drv'[e] = drv[e]
  BY WorkIsOwn DEF Work
<1>2. invoked' = invoked /\ step' = step /\ plan' = plan
  BY DEF Pick, rows
<1>3. ASSUME NEW s \in Steps, NEW l \in {"recover", "check"},
             drv' = [drv EXCEPT ![d].snap = step, ![d].cur = s, ![d].mine = step[s],
                                ![d].pc = l]
      PROVE  Counts(drv[d])'
  <2> DEFINE q == [drv[d] EXCEPT !.snap = step, !.cur = s, !.mine = step[s], !.pc = l]
  <2>1. q.pc = l /\ q.snap = step /\ q.cur = s /\ q.mine = step[s]
    BY AtWork DEF Driver
  <2>2. drv' = [drv EXCEPT ![d] = q]
    BY <1>3
  <2> HIDE DEF q
  <2>3. drv'[d] = q
    BY <2>2, Labelled
  <2> QED BY <1>2, <2>1, <2>3 DEF Counts, Checking, Counted, MaySave, AttemptInv, RowsCount
<1>4. ASSUME drv' = [drv EXCEPT ![d].snap = step, ![d].pc = "decide"]
      PROVE  Counts(drv[d])'
  <2> DEFINE q == [drv[d] EXCEPT !.snap = step, !.pc = "decide"]
  <2>1. q.pc = "decide" /\ q.snap = step
    BY AtWork DEF Driver
  <2>2. drv' = [drv EXCEPT ![d] = q]
    BY <1>4
  <2> HIDE DEF q
  <2>3. drv'[d] = q
    BY <2>2, Labelled
  <2> QED BY <1>2, <2>1, <2>3 DEF Counts, Checking, Counted, MaySave, AttemptInv, RowsCount
<1>5. \/ drv' = [drv EXCEPT ![d].snap = step, ![d].pc = "decide"]
      \/ \E s \in Steps, l \in {"recover", "check"} :
            drv' = [drv EXCEPT ![d].snap = step, ![d].cur = s, ![d].mine = step[s],
                               ![d].pc = l]
  <2>1. ASSUME NEW s \in Steps,
               drv' = [drv EXCEPT ![d].snap = step, ![d].cur = s, ![d].mine = step[s],
                           ![d].pc = IF step[s].status = "running" THEN "recover" ELSE "check"]
        PROVE  \E l \in {"recover", "check"} :
                  drv' = [drv EXCEPT ![d].snap = step, ![d].cur = s, ![d].mine = step[s],
                                     ![d].pc = l]
    BY <2>1
  <2> QED BY <2>1, Zenon DEF Pick
<1>6. Counts(drv[d])'
  BY <1>3, <1>4, <1>5, Zenon
<1> QED BY <1>1, <1>2, <1>6, RowsKept, CountsKept

\* A recovered or settled step is decided about with the rows read again.
LEMMA CountBySettling ==
    ASSUME TypeInv, AttemptInv, LeaseHeld, NEW d \in Drivers, Recover(d) \/ Settle(d)
    PROVE  AttemptInv'
<1>1. ~ At(d, "idle") /\ \A e \in Drivers \ {d} : drv'[e] = drv[e]
  BY WorkIsOwn DEF Work
<1>2. drv[d].cur \in Steps /\ drv[d].cur # 0
  BY AtWork DEF Recover, Settle, At, StepLabels, Steps
<1>3. invoked' = invoked /\ plan' = plan /\ \E s \in Steps : \E row : step' = Written(s, row)
  BY <1>2 DEF Recover, Settle
<1>4. Aim(d, "ready") \/ Again(d) \/ Leave(d)
  BY DEF Recover, Settle
<1>5. CASE Aim(d, "ready")
  <2>1. Counts(drv[d])'
    BY <1>2, <1>5, AimedWith DEF Counts, Checking, Counted, MaySave
  <2> QED BY <1>1, <1>3, <2>1, RowsKept, CountsKept
<1>6. CASE Again(d) \/ Leave(d)
  <2>1. Light(drv'[d])
    BY <1>6, Moved DEF Light
  <2> QED BY <1>1, <1>3, <2>1, RowsKept, CountsKept, LightCountsNext
<1> QED BY <1>4, <1>5, <1>6

\* Between the choice of a step and its start the copies stay as they were read.
LEMMA CountByCheck ==
    ASSUME TypeInv, AttemptInv, LeaseHeld, NEW d \in Drivers,
           PreflightBlocks(d) \/ Check(d)
    PROVE  AttemptInv'
<1>1. ~ At(d, "idle") /\ \A e \in Drivers \ {d} : drv'[e] = drv[e]
  BY WorkIsOwn DEF Work
<1>2. invoked' = invoked /\ step' = step
  BY DEF PreflightBlocks, Check, rows
<1>3. Counts(drv[d]) /\ Checking(drv[d])
  BY DEF AttemptInv, PreflightBlocks, Check, At, Checking
<1>4. \E l \in {"decide", "request", "start"} : Goto(d, l)
  BY DEF PreflightBlocks, Check
<1>5. Counts(drv[d])'
  BY <1>2, <1>3, <1>4, GoneWith DEF Counts, Checking, Counted, MaySave
<1> QED BY <1>1, <1>2, <1>5, RowsKept, CountsKept

LEMMA CountByRefusal ==
    ASSUME TypeInv, AttemptInv, LeaseHeld, NEW d \in Drivers, StepRefused(d)
    PROVE  AttemptInv'
<1> DEFINE q == [drv[d] EXCEPT !.pc = "decide", !.cur = 0]
<1>1. ~ At(d, "idle") /\ \A e \in Drivers \ {d} : drv'[e] = drv[e]
  BY WorkIsOwn DEF Work
<1>2. invoked' = invoked /\ plan' = plan /\ \E s \in Steps : \E row : step' = Written(s, row)
  BY AtWork DEF StepRefused, At, StepLabels
<1>3. \A s \in Steps : invoked[s] <= drv[d].snap[s].attempts
  BY DEF AttemptInv, Counts, MaySave, Checking, StepRefused, At
<1>4. CASE Aim(d, "failed")
  <2>1. Counts(drv[d])'
    BY <1>2, <1>3, <1>4, AimedWith DEF Counts, Checking, Counted, MaySave
  <2> QED BY <1>1, <1>2, <2>1, RowsKept, CountsKept
<1>5. CASE drv' = [drv EXCEPT ![d] = q]
  <2>1. q.pc = "decide" /\ q.snap = drv[d].snap
    BY AtWork DEF Driver
  <2> HIDE DEF q
  <2>2. drv'[d] = q
    BY <1>5, Labelled
  <2>3. Counts(drv[d])'
    BY <1>2, <1>3, <2>1, <2>2 DEF Counts, Checking, Counted, MaySave
  <2> QED BY <1>1, <1>2, <2>3, RowsKept, CountsKept
<1> QED BY <1>4, <1>5 DEF StepRefused

LEMMA CountByRequest ==
    ASSUME TypeInv, AttemptInv, LeaseHeld, NEW d \in Drivers, RequestApproval(d)
    PROVE  AttemptInv'
<1> DEFINE q == [drv[d] EXCEPT !.goal = "waiting_approval"]
<1>1. ~ At(d, "idle") /\ \A e \in Drivers \ {d} : drv'[e] = drv[e]
  BY WorkIsOwn DEF Work
<1>2. invoked' = invoked /\ step' = step /\ drv' = [drv EXCEPT ![d] = q]
  BY DEF RequestApproval
<1>3. q.pc = "request" /\ q.cur = drv[d].cur /\ q.mine = drv[d].mine /\ q.snap = drv[d].snap
  BY AtWork DEF RequestApproval, At, Driver
<1> HIDE DEF q
<1>4. drv'[d] = q
  BY <1>2, Labelled
<1>5. Counts(drv[d]) /\ drv[d].pc = "request"
  BY DEF AttemptInv, RequestApproval, At
<1>6. Counts(drv[d])'
  BY <1>2, <1>3, <1>4, <1>5 DEF Counts, Checking, Counted, MaySave
<1> QED BY <1>1, <1>2, <1>6, RowsKept, CountsKept

\* The attempt is counted in the row and in the thread's copy before the call.
LEMMA CountByStart ==
    ASSUME TypeInv, AttemptInv, LeaseHeld, NEW d \in Drivers, StartStep(d)
    PROVE  AttemptInv'
<1> DEFINE s == drv[d].cur
           row == Started(drv[d].mine)
           q == [drv[d] EXCEPT !.mine = row, !.pc = "get_task", !.goal = "executing"]
<1>1. ~ At(d, "idle") /\ \A e \in Drivers \ {d} : drv'[e] = drv[e]
  BY WorkIsOwn DEF Work
<1>2. invoked' = invoked /\ plan' = plan /\ s \in Steps /\ Counts(drv[d]) /\ Checking(drv[d])
  BY AtWork DEF StartStep, At, StepLabels, AttemptInv, Checking
<1>3. CASE Aim(d, "failed") /\ step' = step
  <2>1. Counts(drv[d])'
    BY <1>2, <1>3, AimedWith DEF Counts, Checking, Counted, MaySave
  <2> QED BY <1>1, <1>2, <1>3, <2>1, RowsKept, CountsKept
<1>4. CASE step' = [step EXCEPT ![s] = row] /\ drv' = [drv EXCEPT ![d] = q]
  <2>1. row.attempts = drv[d].mine.attempts + 1
    BY AtWork DEF Started, StepRow
  <2>2. drv[d].mine.attempts \in Nat /\ \A t \in Steps : invoked[t] \in Nat
    BY AtWork, LimitsAssumption DEF StepRow, TypeInv, TypeOK
  <2> HIDE DEF row
  <2>3. q.pc = "get_task" /\ q.goal = "executing" /\ q.cur = s /\ q.mine = row
    BY AtWork DEF Driver
  <2> HIDE DEF q
  <2>4. drv'[d] = q
    BY <1>4, Labelled
  <2>5. step'[s] = row /\ \A t \in Steps \ {s} : step'[t] = step[t]
    BY <1>2, <1>4 DEF TypeInv, TypeOK
  <2>6. invoked[s] < row.attempts
    BY <1>2, <2>1, <2>2 DEF Counts
  <2>7. RowsCount'
    BY <1>2, <2>1, <2>2, <2>5, <2>6 DEF AttemptInv, RowsCount
  <2>8. Counts(drv[d])'
    BY <1>2, <2>1, <2>2, <2>3, <2>4, <2>5, <2>6 DEF Counts, Checking, Counted, MaySave
  <2> HIDE DEF s
  <2> QED BY <1>1, <2>7, <2>8, CountsKept
<1> QED BY <1>3, <1>4 DEF StartStep

LEMMA CountByCall ==
    ASSUME TypeInv, AttemptInv, LeaseHeld, NEW d \in Drivers, CallRead(d) \/ CallSave(d)
    PROVE  AttemptInv'
<1> DEFINE a == [drv[d] EXCEPT !.out = call[drv[d].cur].status, !.pc = "settle"]
           b == [drv[d] EXCEPT !.req = call[drv[d].cur].req, !.pc = "call_save"]
           c == [drv[d] EXCEPT !.req = RequestId(d), !.pc = "invoke"]
<1>1. ~ At(d, "idle") /\ \A e \in Drivers \ {d} : drv'[e] = drv[e]
  BY WorkIsOwn DEF Work
<1>2. invoked' = invoked /\ step' = step
  BY DEF CallRead, CallSave, rows
<1>3. Counts(drv[d]) /\ Counted(drv[d])
  BY DEF AttemptInv, CallRead, CallSave, At, Counted
<1>4. \/ Leave(d)
      \/ drv' = [drv EXCEPT ![d] = a] \/ drv' = [drv EXCEPT ![d] = b] \/ drv' = [drv EXCEPT ![d] = c]
  BY DEF CallRead, CallSave
<1>5. /\ a.pc = "settle"
      /\ b.pc = "call_save" /\ b.cur = drv[d].cur /\ b.mine = drv[d].mine
      /\ c.pc = "invoke" /\ c.cur = drv[d].cur /\ c.mine = drv[d].mine
  BY AtWork DEF Driver
<1> HIDE DEF a, b, c
<1>6. CASE Leave(d) \/ drv' = [drv EXCEPT ![d] = a]
  <2>1. Light(drv'[d])
    BY <1>5, <1>6, Moved, Labelled DEF Light
  <2> QED BY <1>1, <1>2, <2>1, RowsKept, CountsKept, LightCountsNext
<1>7. CASE drv' = [drv EXCEPT ![d] = b] \/ drv' = [drv EXCEPT ![d] = c]
  <2>1. /\ drv'[d].pc \in {"call_save", "invoke"}
        /\ drv'[d].cur = drv[d].cur /\ drv'[d].mine = drv[d].mine
    BY <1>5, <1>7, Labelled
  <2>2. Counts(drv[d])'
    BY <1>2, <1>3, <2>1 DEF Counts, Checking, Counted, MaySave
  <2> QED BY <1>1, <1>2, <2>2, RowsKept, CountsKept
<1> QED BY <1>4, <1>6, <1>7

\* The call that is made was counted.
LEMMA CountByInvoke ==
    ASSUME TypeInv, AttemptInv, LeaseHeld, NEW d \in Drivers, Invoke(d)
    PROVE  AttemptInv'
<1> DEFINE s == drv[d].cur
<1>1. ~ At(d, "idle") /\ \A e \in Drivers \ {d} : drv'[e] = drv[e]
  BY WorkIsOwn DEF Work
<1>2. s \in Steps /\ step' = step /\ invoked' = [invoked EXCEPT ![s] = @ + 1]
  BY AtWork DEF Invoke, At, StepLabels, rows
<1>3. invoked[s] < drv[d].mine.attempts /\ drv[d].mine.attempts <= step[s].attempts
  BY DEF AttemptInv, Counts, Counted, Invoke, At
<1>4. /\ drv[d].mine.attempts \in Nat
      /\ \A t \in Steps : invoked[t] \in Nat /\ step[t].attempts \in Nat
  <2>1. ASSUME NEW r \in StepRow PROVE r.attempts \in Nat
    BY LimitsAssumption DEF StepRow
  <2> QED BY <2>1, AtWork, RowsTyped
<1>5. invoked'[s] = invoked[s] + 1 /\ \A t \in Steps \ {s} : invoked'[t] = invoked[t]
  BY <1>2 DEF TypeInv, TypeOK
<1>6. RowsCount'
  BY <1>2, <1>3, <1>4, <1>5 DEF AttemptInv, RowsCount
<1>7. PICK o : drv' = [drv EXCEPT ![d].out = o, ![d].pc = "call_finish"]
  BY DEF Invoke
<1> DEFINE q == [drv[d] EXCEPT !.out = o, !.pc = "call_finish"]
<1>8. q.pc = "call_finish"
  BY AtWork DEF Driver
<1>9. drv' = [drv EXCEPT ![d] = q]
  BY <1>7
<1> HIDE DEF q, s
<1>10. Light(drv'[d])
  BY <1>8, <1>9, Labelled DEF Light
<1> QED BY <1>1, <1>6, <1>10, CountsKept, LightCountsNext

\* The planner's turn: the plan it may save is the one loaded, or read again.
LEMMA CountByDecide ==
    ASSUME TypeInv, AttemptInv, LeaseHeld, NEW d \in Drivers, Decide(d)
    PROVE  AttemptInv'
<1> DEFINE plans == IF drv[d].cur = 0 THEN drv[d].snap ELSE step
           q(l, g, o) == [IdleDriver EXCEPT !.pc = l, !.goal = g, !.out = o, !.snap = plans]
<1>1. ~ At(d, "idle") /\ \A e \in Drivers \ {d} : drv'[e] = drv[e]
  BY WorkIsOwn DEF Work
<1>2. invoked' = invoked /\ step' = step
  BY DEF Decide, rows
<1>3. \A s \in Steps : invoked[s] <= plans[s].attempts
  BY DEF AttemptInv, RowsCount, Counts, MaySave, Decide, At
<1>4. ASSUME NEW l \in {"finish", "get_task"}, NEW g \in {"none", "event", "failed"}, NEW o,
             drv' = [drv EXCEPT ![d] = q(l, g, o)]
      PROVE  Counts(drv[d])'
  <2>1. q(l, g, o).pc = l /\ q(l, g, o).goal = g /\ q(l, g, o).snap = plans
    BY DEF IdleDriver
  <2>2. drv'[d] = q(l, g, o)
    BY <1>4 DEF TypeInv
  <2> HIDE DEF q, plans
  <2>3. drv'[d].pc = l /\ drv'[d].goal = g /\ drv'[d].snap = plans
    BY <2>1, <2>2
  <2> QED BY <1>2, <1>3, <2>3 DEF Counts, Checking, Counted, MaySave
<1>5. CASE Again(d)
  BY <1>1, <1>2, <1>5, Moved, RowsKept, CountsKept, LightCountsNext DEF Light
<1>6. CASE \/ drv' = [drv EXCEPT ![d] = q("finish", "none", "none")]
           \/ drv' = [drv EXCEPT ![d] = q("get_task", "failed", "none")]
           \/ \E o \in Decisions : drv' = [drv EXCEPT ![d] = q("get_task", "event", o)]
  <2> HIDE DEF q
  <2>1. Counts(drv[d])'
    BY <1>4, <1>6
  <2> QED BY <1>1, <1>2, <2>1, RowsKept, CountsKept
<1> QED BY <1>5, <1>6 DEF Decide

LEMMA CountByApply ==
    ASSUME TypeInv, AttemptInv, LeaseHeld, NEW d \in Drivers, Apply(d)
    PROVE  AttemptInv'
<1>1. ~ At(d, "idle") /\ \A e \in Drivers \ {d} : drv'[e] = drv[e]
  BY WorkIsOwn DEF Work
<1>2. invoked' = invoked /\ step' = step
  BY DEF Apply, rows
<1>3. \A s \in Steps : invoked[s] <= drv[d].snap[s].attempts
  BY DEF AttemptInv, Counts, MaySave, Apply, At
<1>4. \/ Again(d) \/ Goto(d, "finish")
      \/ \E g \in {"failed", "unknown", "waiting_input"} : Aim(d, g)
  BY DEF Apply
<1>5. CASE Again(d)
  BY <1>1, <1>2, <1>5, Moved, RowsKept, CountsKept, LightCountsNext DEF Light
<1>6. CASE Goto(d, "finish") \/ \E g \in {"failed", "unknown", "waiting_input"} : Aim(d, g)
  <2>1. Counts(drv[d])'
    BY <1>2, <1>3, <1>6, GoneWith, AimedWith DEF Counts, Checking, Counted, MaySave
  <2> QED BY <1>1, <1>2, <2>1, RowsKept, CountsKept
<1> QED BY <1>4, <1>5, <1>6

LEMMA CountByComplete ==
    ASSUME TypeInv, AttemptInv, LeaseHeld, NEW d \in Drivers, Finish(d)
    PROVE  AttemptInv'
<1> DEFINE q == [drv[d] EXCEPT !.pc = "save_plan", !.goal = "succeeded"]
<1>1. ~ At(d, "idle") /\ \A e \in Drivers \ {d} : drv'[e] = drv[e]
  BY WorkIsOwn DEF Work
<1>2. invoked' = invoked
  BY DEF Finish
<1>3. \A s \in Steps : step'[s].attempts = step[s].attempts
  BY DEF Finish, TypeInv, TypeOK, StepRow
<1>4. RowsCount'
  BY <1>2, <1>3 DEF AttemptInv, RowsCount
<1>5. \A s \in Steps : invoked[s] <= drv[d].snap[s].attempts
  BY DEF AttemptInv, Counts, MaySave, Finish, At
<1>6. CASE Aim(d, "failed")
  <2>1. Counts(drv[d])'
    BY <1>2, <1>5, <1>6, AimedWith DEF Counts, Checking, Counted, MaySave
  <2> QED BY <1>1, <1>4, <2>1, CountsKept
<1>7. CASE drv' = [drv EXCEPT ![d] = q]
  <2>1. q.pc = "save_plan" /\ q.goal = "succeeded" /\ q.snap = drv[d].snap
    BY AtWork DEF Driver
  <2> HIDE DEF q
  <2>2. drv'[d] = q
    BY <1>7, Labelled
  <2>3. Counts(drv[d])'
    BY <1>2, <1>5, <2>1, <2>2 DEF Counts, Checking, Counted, MaySave
  <2> QED BY <1>1, <1>4, <2>3, CountsKept
<1> QED BY <1>6, <1>7 DEF Finish

\* save_plan writes counters back: they are the ones that count every call.
LEMMA CountBySavePlan ==
    ASSUME TypeInv, AttemptInv, LeaseHeld, NEW d \in Drivers, SavePlan(d)
    PROVE  AttemptInv'
<1>1. ~ At(d, "idle") /\ \A e \in Drivers \ {d} : drv'[e] = drv[e]
  BY WorkIsOwn DEF Work
<1>2. /\ \A s \in Steps : invoked[s] <= drv[d].snap[s].attempts
      /\ drv[d].goal \in {"failed", "unknown", "succeeded"}
  BY DEF AttemptInv, Counts, MaySave, SavePlan, At
<1>3. invoked' = invoked /\ (step' = step \/ step' = drv[d].snap)
  BY DEF SavePlan
<1>4. RowsCount'
  BY <1>2, <1>3 DEF AttemptInv, RowsCount
<1>5. Goto(d, IF drv[d].goal = "succeeded" THEN "get_task" ELSE "commit")
  BY DEF SavePlan
<1>6. /\ drv'[d].pc \in {"get_task", "commit"} /\ drv'[d].goal = drv[d].goal
      /\ drv'[d].pc = "get_task" => drv'[d].goal = "succeeded"
  BY <1>5, GoneWith
<1>7. Counts(drv[d])'
  BY <1>2, <1>6 DEF Counts, Checking, Counted, MaySave
<1> QED BY <1>1, <1>4, <1>7, CountsKept

LEMMA CountByGetTask ==
    ASSUME TypeInv, AttemptInv, LeaseHeld, NEW d \in Drivers, GetTask(d)
    PROVE  AttemptInv'
<1> DEFINE l == IF drv[d].goal \in {"failed", "unknown"} /\ plan # "none"
                THEN "save_plan" ELSE "commit"
           q == [drv[d] EXCEPT !.seen = task, !.pc = l]
<1>1. ~ At(d, "idle") /\ \A e \in Drivers \ {d} : drv'[e] = drv[e]
  BY WorkIsOwn DEF Work
<1>2. invoked' = invoked /\ step' = step /\ plan' = plan /\ drv' = [drv EXCEPT ![d] = q]
  BY DEF GetTask, rows
<1>3. /\ l \in {"save_plan", "commit"}
      /\ l = "save_plan" => drv[d].goal \in {"failed", "unknown"} /\ plan # "none"
  OBVIOUS
<1> HIDE DEF l
<1>4. /\ q.pc = l /\ q.goal = drv[d].goal /\ q.cur = drv[d].cur
      /\ q.mine = drv[d].mine /\ q.snap = drv[d].snap
  BY AtWork DEF Driver
<1> HIDE DEF q
<1>5. drv'[d] = q
  BY <1>2, Labelled
<1>6. Counts(drv[d]) /\ drv[d].pc = "get_task"
  BY DEF AttemptInv, GetTask, At
<1>7. Counts(drv[d])'
  BY <1>2, <1>3, <1>4, <1>5, <1>6 DEF Counts, Checking, Counted, MaySave
<1> QED BY <1>1, <1>2, <1>7, RowsKept, CountsKept

LEMMA CountByCommit ==
    ASSUME TypeInv, AttemptInv, LeaseHeld, NEW d \in Drivers, Commit(d)
    PROVE  AttemptInv'
<1> DEFINE l == NextLabel(drv[d].goal)
           a == [IdleDriver EXCEPT !.pc = l]
           b == [drv[d] EXCEPT !.pc = l, !.seen = NewTask, !.goal = "none"]
<1>1. ~ At(d, "idle") /\ \A e \in Drivers \ {d} : drv'[e] = drv[e]
  BY WorkIsOwn DEF Work
<1>2. invoked' = invoked /\ step' = step /\ Counts(drv[d]) /\ drv[d].pc = "commit"
  BY DEF Commit, AttemptInv, At
<1>3. \/ Leave(d)
      \/ l \in {"loop", "release"} /\ drv' = [drv EXCEPT ![d] = a]
      \/ l \notin {"loop", "release"} /\ drv' = [drv EXCEPT ![d] = b]
  BY DEF Commit
<1>4. /\ l \in {"loop", "call_read", "decide", "apply", "release"}
      /\ l = "call_read" => drv[d].goal = "executing"
      /\ l = "decide" => drv[d].goal = "ready"
      /\ l = "apply" => drv[d].goal = "event"
  BY DEF NextLabel
<1> HIDE DEF l
<1>5. /\ a.pc = l /\ b.pc = l /\ b.goal = "none"
      /\ b.cur = drv[d].cur /\ b.mine = drv[d].mine /\ b.snap = drv[d].snap
  BY AtWork DEF Driver, IdleDriver
<1> HIDE DEF a, b
<1>6. CASE Leave(d) \/ (l \in {"loop", "release"} /\ drv' = [drv EXCEPT ![d] = a])
  <2>1. Light(drv'[d])
    BY <1>5, <1>6, Moved, Labelled DEF Light
  <2> QED BY <1>1, <1>2, <2>1, RowsKept, CountsKept, LightCountsNext
<1>7. CASE l \notin {"loop", "release"} /\ drv' = [drv EXCEPT ![d] = b]
  <2>1. drv'[d] = b
    BY <1>7, Labelled
  <2>2. Counts(drv[d])'
    BY <1>2, <1>4, <1>5, <1>7, <2>1 DEF Counts, Checking, Counted, MaySave
  <2> QED BY <1>1, <1>2, <2>2, RowsKept, CountsKept
<1> QED BY <1>3, <1>6, <1>7

\* acquire_lease and release_lease touch no row but the lease.
LEMMA CountByLease ==
    ASSUME TypeInv, AttemptInv, NEW d \in Drivers, RunTask(d) \/ Release(d)
    PROVE  AttemptInv'
<1>1. invoked' = invoked /\ step' = step /\ plan' = plan
  BY DEF RunTask, Release
<1>2. Light(drv'[d]) /\ \A e \in Drivers \ {d} : drv'[e] = drv[e]
  BY Moved DEF RunTask, Release, Goto, IdleDriver, Light, TypeInv
<1>3. \A e \in Drivers \ {d} : Counts(drv[e])'
  BY <1>1, <1>2 DEF AttemptInv, Counts, Checking, Counted, MaySave
<1> QED BY <1>1, <1>2, <1>3, LightCountsNext DEF AttemptInv, RowsCount

\* Requests write statuses and arguments of a step row, never its counter.
LEMMA CountByOthers ==
    ASSUME TypeInv, AttemptInv, [Next]_vars,
           ~ \E d \in Drivers : DriverStep(d) \/ PreflightBlocks(d) \/ StepRefused(d) \/ OutOfTime(d)
    PROVE  AttemptInv'
<1>1. invoked' = invoked /\ \A d \in Drivers : drv'[d] = drv[d] \/ drv'[d] = IdleDriver
  BY Outside
<1>2. plan' = plan /\ (step' = step \/ \E s \in Steps : \E row : step' = Written(s, row))
  <2>1. ASSUME NEW r \in Requests, DecideStep(r) PROVE \E s \in Steps : \E row : step' = Written(s, row)
    BY <2>1, AtDesk DEF DecideStep, Answering, StepOf, TypeInv, TypeOK, ApprovalRow
  <2>2. ASSUME NEW r \in Requests, RequestStep(r), ~ DecideStep(r) PROVE step' = step
    BY <2>2 DEF RequestStep, ClickApprove, ClickReject, DecideSave, ClickCancel, ClickResume,
                RequestCommit, RequestDies, rows
  <2>3. ASSUME NEW r \in Requests, RequestStep(r) PROVE plan' = plan
    BY <2>3 DEF RequestStep, ClickApprove, ClickReject, DecideStep, DecideSave, ClickCancel,
                ClickResume, RequestCommit, RequestDies, rows
  <2>4. CASE \/ LeaseExpires \/ (\E o \in Owners : Crash(o)) \/ UNCHANGED vars
             \/ \E a \in 1..MaxApprovals : SupersedeApproval(a)
    BY <2>4 DEF LeaseExpires, Crash, SupersedeApproval, vars
  <2> QED BY <2>1, <2>2, <2>3, <2>4 DEF Next
<1>3. RowsCount' /\ \A s \in Steps : step'[s].attempts = step[s].attempts
  BY <1>1, <1>2, RowsKept
<1>4. ASSUME NEW d \in Drivers, drv'[d] = drv[d] PROVE Counts(drv[d])'
  <2>1. Counts(drv[d]) /\ (Counted(drv[d]) => drv[d].cur \in Steps)
    BY AtWork DEF AttemptInv, Counted, StepLabels, TypeInv, WorkingDriver, AtStep
  <2> QED BY <1>1, <1>2, <1>3, <1>4, <2>1 DEF Counts, Checking, Counted, MaySave
<1>5. ASSUME NEW d \in Drivers, drv'[d] = IdleDriver PROVE Counts(drv[d])'
  BY <1>5, LightCountsNext DEF Light, IdleDriver
<1> QED BY <1>1, <1>3, <1>4, <1>5 DEF AttemptInv

LEMMA AttemptStep ==
    TypeInv /\ LeaseHeld /\ AttemptInv /\ [Next]_vars => AttemptInv'
<1> SUFFICES ASSUME TypeInv, LeaseHeld, AttemptInv, [Next]_vars PROVE AttemptInv'
  OBVIOUS
<1>1. ASSUME NEW d \in Drivers,
             DriverStep(d) \/ PreflightBlocks(d) \/ StepRefused(d) \/ OutOfTime(d)
      PROVE  AttemptInv'
  BY <1>1, CountByLight, CountByPlanning, CountByPick, CountBySettling, CountByCheck,
     CountByRefusal, CountByRequest, CountByStart, CountByCall, CountByInvoke, CountByDecide,
     CountByApply, CountByComplete, CountBySavePlan, CountByGetTask, CountByCommit, CountByLease
     DEF DriverStep
<1> QED BY <1>1, CountByOthers

LEMMA AttemptInit == Init => AttemptInv
<1> SUFFICES ASSUME Init PROVE AttemptInv
  OBVIOUS
<1>1. \A d \in Drivers : Light(drv[d])
  BY DEF Init, IdleDriver, Light
<1> QED BY <1>1, LightCounts DEF Init, AttemptInv, RowsCount, NewStep

\* Retries, crashes and recoveries together never call a capability more often than
\* max_step_attempts, until two threads of one process drive the Task.
THEOREM CallsBounded == Spec => []AttemptsBounded
<1> DEFINE Inv == shared \/ (LeaseHeld /\ AttemptInv)
<1>1. TypeInv /\ Inv /\ [Next]_vars => Inv'
  BY LeaseStep, AttemptStep, SharingStays
<1>2. TypeInv /\ Inv => AttemptsBounded
  <2> SUFFICES ASSUME TypeInv, AttemptInv, NEW s \in Steps PROVE invoked[s] <= MaxAttempts
    BY DEF AttemptsBounded
  <2>1. invoked[s] \in Nat /\ step[s].attempts \in 0..MaxAttempts /\ invoked[s] <= step[s].attempts
    BY DEF TypeInv, TypeOK, StepRow, AttemptInv, RowsCount
  <2> QED BY <2>1, LimitsAssumption
<1>3. Init => Inv
  BY LeaseInit, AttemptInit
<1> HIDE DEF Inv
<1> QED BY <1>1, <1>2, <1>3, TypeInit, TypeNext, PTL DEF Spec

-----------------------------------------------------------------------------
(* A Task that is reported succeeded accounts for each of its writes, for     *)
(* every number of processes, threads, requests and steps.                    *)

-----------------------------------------------------------------------------
(* The reported status passes through copies: the plan a thread saves, the    *)
(* row it read and the status it is about to commit.  Each of them only says  *)
(* what was once recorded, and what was recorded stays so.                    *)

Accounted == Writes \subseteq refused \cup settled
Reflects(s, status) ==
    /\ status \in Answers => s \in settled
    /\ status = "skipped" /\ s \in Writes => s \in refused
RowsReflect == \A s \in Steps : Reflects(s, step[s].status)
Truthful(r) ==
    /\ \A s \in Steps : Reflects(s, r.snap[s].status)
    /\ r.seen.status = "succeeded" => Accounted
    /\ r.goal = "succeeded" => Accounted
OutcomeInv ==
    /\ RowsReflect
    /\ \A d \in Drivers : Truthful(drv[d])
    /\ \A r \in Requests : api[r].pc = "step" => api[r].kind \in {"approve", "reject"}
    /\ SuccessAccountsForWrites

Remembered == settled \subseteq settled' /\ refused \subseteq refused'

\* A status that may be written: it is true of what the handler leaves recorded.
WillReflect(s, status) ==
    /\ status \in Answers => s \in settled'
    /\ status = "skipped" /\ s \in Writes => s \in refused'

\* The new record of a thread: rows it reads, copies it had, and no claim of success.
NewSnap == [s \in Steps |-> NewStep]
CopiesOnly(d) ==
    \E q : /\ drv' = [drv EXCEPT ![d] = q]
           /\ q.snap \in {drv[d].snap, step, NewSnap}
           /\ q.seen \in {drv[d].seen, task, NewTask}
           /\ q.goal = drv[d].goal \/ q.goal # "succeeded"

\* The rows reflect what was recorded after one of them was written.
LEMMA RowReflects ==
    ASSUME TypeInv, OutcomeInv, Remembered, NEW s \in Steps, NEW row, WillReflect(s, row.status),
           step' = [step EXCEPT ![s] = row] \/ step' = Written(s, row)
    PROVE  RowsReflect'
<1> DEFINE x == [step[s] EXCEPT !.status = row.status, !.args = row.args]
<1>1. x.status = row.status
  BY DEF TypeInv, TypeOK, StepRow
<1>2. step' = [step EXCEPT ![s] = row] \/ step' = [step EXCEPT ![s] = x]
  BY DEF Written
<1> HIDE DEF x
<1>3. step'[s].status = row.status /\ \A t \in Steps \ {s} : step'[t] = step[t]
  BY <1>1, <1>2 DEF TypeInv, TypeOK
<1>4. \A t \in Steps : WillReflect(t, step'[t].status)
  BY <1>3 DEF OutcomeInv, RowsReflect, Reflects, WillReflect, Remembered
<1> QED BY <1>4 DEF RowsReflect, Reflects, WillReflect

LEMMA RowsStill ==
    ASSUME OutcomeInv, Remembered, step' = step
    PROVE  RowsReflect'
BY DEF OutcomeInv, RowsReflect, Reflects, Remembered

\* A thread that only copies claims nothing new.
LEMMA CopiesTruthful ==
    ASSUME TypeInv, OutcomeInv, Remembered, NEW d \in Drivers, CopiesOnly(d), RowsReflect',
           task' = task \/ task'.status # "succeeded", api' = api
    PROVE  OutcomeInv'
<1>1. PICK q : /\ drv' = [drv EXCEPT ![d] = q]
               /\ q.snap \in {drv[d].snap, step, NewSnap}
               /\ q.seen \in {drv[d].seen, task, NewTask}
               /\ q.goal = drv[d].goal \/ q.goal # "succeeded"
  BY DEF CopiesOnly
<1>2. drv'[d] = q /\ \A e \in Drivers \ {d} : drv'[e] = drv[e]
  BY <1>1 DEF TypeInv
<1>3. \A s \in Steps : Reflects(s, NewSnap[s].status) /\ Reflects(s, step[s].status)
                       /\ Reflects(s, drv[d].snap[s].status)
  BY DEF Reflects, NewSnap, NewStep, Answers, OutcomeInv, RowsReflect, Truthful
<1>4. \A s \in Steps : Reflects(s, q.snap[s].status)
  BY <1>1, <1>3
<1>5. q.seen.status = "succeeded" => Accounted
  BY <1>1 DEF NewTask, OutcomeInv, Truthful, SuccessAccountsForWrites, Accounted
<1>6. q.goal = "succeeded" => Accounted
  BY <1>1 DEF OutcomeInv, Truthful
<1>7. Truthful(drv[d])'
  BY <1>2, <1>4, <1>5, <1>6 DEF Truthful, Reflects, Accounted, Remembered
<1>8. \A e \in Drivers \ {d} : Truthful(drv[e])'
  BY <1>2 DEF OutcomeInv, Truthful, Reflects, Accounted, Remembered
<1>9. SuccessAccountsForWrites'
  BY DEF OutcomeInv, SuccessAccountsForWrites, Remembered
<1> QED BY <1>7, <1>8, <1>9 DEF OutcomeInv

\* The control operators copy nothing.
LEMMA MovesCopy ==
    ASSUME TypeInv, NEW d \in Drivers
    PROVE  /\ \A l : Goto(d, l) => CopiesOnly(d)
           /\ \A g : g # "succeeded" /\ Aim(d, g) => CopiesOnly(d)
           /\ Again(d) \/ Leave(d) => CopiesOnly(d)
<1>1. ASSUME NEW l, Goto(d, l) PROVE CopiesOnly(d)
  <2> DEFINE q == [drv[d] EXCEPT !.pc = l]
  <2>1. q.snap = drv[d].snap /\ q.seen = drv[d].seen /\ q.goal = drv[d].goal
    BY AtWork DEF Driver
  <2>2. drv' = [drv EXCEPT ![d] = q]
    BY <1>1 DEF Goto
  <2> HIDE DEF q
  <2> QED BY <2>1, <2>2 DEF CopiesOnly
<1>2. ASSUME NEW g, g # "succeeded", Aim(d, g) PROVE CopiesOnly(d)
  <2> DEFINE q == [drv[d] EXCEPT !.pc = "get_task", !.goal = g]
  <2>1. q.snap = drv[d].snap /\ q.seen = drv[d].seen /\ q.goal # "succeeded"
    BY <1>2, AtWork DEF Driver
  <2>2. drv' = [drv EXCEPT ![d] = q]
    BY <1>2 DEF Aim
  <2> HIDE DEF q
  <2> QED BY <2>1, <2>2 DEF CopiesOnly
<1>3. ASSUME NEW l \in {"loop", "release"}, drv' = [drv EXCEPT ![d] = [IdleDriver EXCEPT !.pc = l]]
      PROVE  CopiesOnly(d)
  <2> DEFINE q == [IdleDriver EXCEPT !.pc = l]
  <2>1. q.snap = NewSnap /\ q.seen = NewTask /\ q.goal = "none"
    BY DEF IdleDriver, NewSnap
  <2>2. drv' = [drv EXCEPT ![d] = q]
    BY <1>3
  <2> HIDE DEF q
  <2> QED BY <2>1, <2>2 DEF CopiesOnly
<1>4. ASSUME Again(d) \/ Leave(d) PROVE CopiesOnly(d)
  BY <1>3, <1>4 DEF Again, Leave
<1> QED BY <1>1, <1>2, <1>4

-----------------------------------------------------------------------------
(* The handlers.                                                             *)

\* Handlers that write no step row.
LEMMA OutcomeOfReading ==
    ASSUME TypeInv, OutcomeInv, NEW d \in Drivers,
           \/ RunTask(d) \/ LoopRead(d) \/ OutOfTime(d) \/ BeginPlanning(d) \/ Planner(d)
           \/ Pick(d) \/ PreflightBlocks(d) \/ Check(d) \/ RequestApproval(d) \/ CallRead(d)
           \/ CallSave(d) \/ Invoke(d) \/ CallFinish(d) \/ Decide(d) \/ Apply(d) \/ GetTask(d)
           \/ Release(d)
    PROVE  OutcomeInv'
<1>1. Remembered /\ step' = step /\ api' = api
  BY DEF Remembered, RunTask, LoopRead, OutOfTime, BeginPlanning, Planner, Pick, PreflightBlocks,
         Check, RequestApproval, CallRead, CallSave, Invoke, CallFinish, Decide, Apply, GetTask,
         Release, rows
<1>2. task' = task \/ task'.status # "succeeded"
  <2>1. CASE BeginPlanning(d)
    BY <2>1, AtWork DEF BeginPlanning, TaskRow
  <2> QED BY <2>1 DEF RunTask, LoopRead, OutOfTime, Planner, Pick, PreflightBlocks, Check,
             RequestApproval, CallRead, CallSave, Invoke, CallFinish, Decide, Apply, GetTask,
             Release, rows
<1>3. CopiesOnly(d)
  <2>1. CASE \/ RunTask(d) \/ OutOfTime(d) \/ Planner(d) \/ PreflightBlocks(d) \/ Check(d)
             \/ CallFinish(d) \/ Apply(d)
    BY <2>1, MovesCopy DEF RunTask, OutOfTime, Planner, PreflightBlocks, Check, CallFinish, Apply
  <2>2. CASE LoopRead(d)
    <3> DEFINE q == [drv[d] EXCEPT !.seen = task, !.pc = "begin_planning"]
    <3>1. q.snap = drv[d].snap /\ q.seen = task /\ q.goal = drv[d].goal
      BY AtWork DEF Driver
    <3>2. Leave(d) \/ Goto(d, "pick") \/ drv' = [drv EXCEPT ![d] = q]
      BY <2>2 DEF LoopRead
    <3> HIDE DEF q
    <3> QED BY <3>1, <3>2, MovesCopy DEF CopiesOnly
  <2>3. CASE BeginPlanning(d)
    <3> DEFINE q == [drv[d] EXCEPT !.seen = NewTask, !.pc = "planner"]
    <3>1. q.snap = drv[d].snap /\ q.seen = NewTask /\ q.goal = drv[d].goal
      BY AtWork DEF Driver
    <3>2. Leave(d) \/ drv' = [drv EXCEPT ![d] = q]
      BY <2>3 DEF BeginPlanning
    <3> HIDE DEF q
    <3> QED BY <3>1, <3>2, MovesCopy DEF CopiesOnly
  <2>4. CASE Pick(d)
    <3>1. ASSUME NEW s, NEW l,
                 drv' = [drv EXCEPT ![d].snap = step, ![d].cur = s, ![d].mine = step[s],
                                    ![d].pc = l]
          PROVE  CopiesOnly(d)
      <4> DEFINE q == [drv[d] EXCEPT !.snap = step, !.cur = s, !.mine = step[s], !.pc = l]
      <4>1. q.snap = step /\ q.seen = drv[d].seen /\ q.goal = drv[d].goal
        BY AtWork DEF Driver
      <4>2. drv' = [drv EXCEPT ![d] = q]
        BY <3>1
      <4> HIDE DEF q
      <4> QED BY <4>1, <4>2 DEF CopiesOnly
    <3>2. ASSUME drv' = [drv EXCEPT ![d].snap = step, ![d].pc = "decide"]
          PROVE  CopiesOnly(d)
      <4> DEFINE q == [drv[d] EXCEPT !.snap = step, !.pc = "decide"]
      <4>1. q.snap = step /\ q.seen = drv[d].seen /\ q.goal = drv[d].goal
        BY AtWork DEF Driver
      <4>2. drv' = [drv EXCEPT ![d] = q]
        BY <3>2
      <4> HIDE DEF q
      <4> QED BY <4>1, <4>2 DEF CopiesOnly
    <3> QED BY <2>4, <3>1, <3>2, Zenon DEF Pick
  <2>5. CASE RequestApproval(d)
    <3> DEFINE q == [drv[d] EXCEPT !.goal = "waiting_approval"]
    <3>1. q.snap = drv[d].snap /\ q.seen = drv[d].seen /\ q.goal # "succeeded"
      BY AtWork DEF Driver
    <3>2. drv' = [drv EXCEPT ![d] = q]
      BY <2>5 DEF RequestApproval
    <3> HIDE DEF q
    <3> QED BY <3>1, <3>2 DEF CopiesOnly
  <2>6. CASE CallRead(d) \/ CallSave(d)
    <3> DEFINE a == [drv[d] EXCEPT !.out = call[drv[d].cur].status, !.pc = "settle"]
               b == [drv[d] EXCEPT !.req = call[drv[d].cur].req, !.pc = "call_save"]
               c == [drv[d] EXCEPT !.req = RequestId(d), !.pc = "invoke"]
    <3>1. /\ a.snap = drv[d].snap /\ a.seen = drv[d].seen /\ a.goal = drv[d].goal
          /\ b.snap = drv[d].snap /\ b.seen = drv[d].seen /\ b.goal = drv[d].goal
          /\ c.snap = drv[d].snap /\ c.seen = drv[d].seen /\ c.goal = drv[d].goal
      BY AtWork DEF Driver
    <3>2. \/ Leave(d) \/ drv' = [drv EXCEPT ![d] = a]
          \/ drv' = [drv EXCEPT ![d] = b] \/ drv' = [drv EXCEPT ![d] = c]
      BY <2>6 DEF CallRead, CallSave
    <3> HIDE DEF a, b, c
    <3> QED BY <3>1, <3>2, MovesCopy DEF CopiesOnly
  <2>7. CASE Invoke(d)
    <3>1. PICK o : drv' = [drv EXCEPT ![d].out = o, ![d].pc = "call_finish"]
      BY <2>7 DEF Invoke
    <3> DEFINE q == [drv[d] EXCEPT !.out = o, !.pc = "call_finish"]
    <3>2. q.snap = drv[d].snap /\ q.seen = drv[d].seen /\ q.goal = drv[d].goal
      BY AtWork DEF Driver
    <3>3. drv' = [drv EXCEPT ![d] = q]
      BY <3>1
    <3> HIDE DEF q
    <3> QED BY <3>2, <3>3 DEF CopiesOnly
  <2>8. CASE Decide(d)
    <3> DEFINE plans == IF drv[d].cur = 0 THEN drv[d].snap ELSE step
               q(l, g, o) == [IdleDriver EXCEPT !.pc = l, !.goal = g, !.out = o, !.snap = plans]
    <3>1. \A l, g, o : /\ q(l, g, o).snap = plans /\ q(l, g, o).seen = NewTask
                       /\ q(l, g, o).goal = g
      BY DEF IdleDriver
    <3>2. plans \in {drv[d].snap, step}
      OBVIOUS
    <3>3. \/ Again(d)
          \/ drv' = [drv EXCEPT ![d] = q("finish", "none", "none")]
          \/ drv' = [drv EXCEPT ![d] = q("get_task", "failed", "none")]
          \/ \E o \in Decisions : drv' = [drv EXCEPT ![d] = q("get_task", "event", o)]
      BY <2>8 DEF Decide
    <3> HIDE DEF plans, q
    <3> QED BY <3>1, <3>2, <3>3, MovesCopy DEF CopiesOnly
  <2>9. CASE GetTask(d)
    <3> DEFINE l == IF drv[d].goal \in {"failed", "unknown"} /\ plan # "none"
                    THEN "save_plan" ELSE "commit"
               q == [drv[d] EXCEPT !.seen = task, !.pc = l]
    <3>1. q.snap = drv[d].snap /\ q.seen = task /\ q.goal = drv[d].goal
      BY AtWork DEF Driver
    <3>2. drv' = [drv EXCEPT ![d] = q]
      BY <2>9 DEF GetTask
    <3> HIDE DEF q
    <3> QED BY <3>1, <3>2 DEF CopiesOnly
  <2>10. CASE Release(d)
    <3>1. IdleDriver.snap = NewSnap /\ IdleDriver.seen = NewTask /\ IdleDriver.goal = "none"
      BY DEF IdleDriver, NewSnap
    <3>2. drv' = [drv EXCEPT ![d] = IdleDriver]
      BY <2>10 DEF Release
    <3> QED BY <3>1, <3>2 DEF CopiesOnly
  <2> QED BY <2>1, <2>2, <2>3, <2>4, <2>5, <2>6, <2>7, <2>8, <2>9, <2>10
<1> QED BY <1>1, <1>2, <1>3, RowsStill, CopiesTruthful

\* A step that is given a final status is settled in the same handler.
LEMMA OutcomeOfSettling ==
    ASSUME TypeInv, OutcomeInv, NEW d \in Drivers,
           Recover(d) \/ Settle(d) \/ StepRefused(d) \/ StepWaits(d)
    PROVE  OutcomeInv'
<1>1. drv[d].cur \in Steps /\ drv[d].mine \in StepRow
  BY AtWork DEF Recover, Settle, StepRefused, StepWaits, At, StepLabels
<1>2. Remembered /\ api' = api /\ task' = task
  BY DEF Remembered, Recover, Settle, StepRefused, StepWaits
<1>3. \E status : /\ step' = Written(drv[d].cur, [drv[d].mine EXCEPT !.status = status])
                  /\ status # "skipped"
                  /\ status \in Answers => drv[d].cur \in settled'
  <2>1. CASE Recover(d)
    <3> DEFINE found == call[drv[d].cur].status
    <3>1. /\ RecoveredStatus(found) # "skipped"
          /\ RecoveredStatus(found) \in Answers => found \in Answers
      BY DEF RecoveredStatus, Answers
    <3>2. step' = Written(drv[d].cur, [drv[d].mine EXCEPT !.status = RecoveredStatus(found)])
      BY <2>1 DEF Recover
    <3>3. found \in Answers => drv[d].cur \in settled'
      BY <2>1 DEF Recover
    <3> QED BY <3>1, <3>2, <3>3
  <2>2. CASE Settle(d)
    BY <2>2 DEF Settle, Answers
  <2>3. CASE StepRefused(d) \/ StepWaits(d)
    BY <2>3 DEF StepRefused, StepWaits, Answers
  <2> QED BY <2>1, <2>2, <2>3
<1>4. PICK status : /\ step' = Written(drv[d].cur, [drv[d].mine EXCEPT !.status = status])
                    /\ status # "skipped"
                    /\ status \in Answers => drv[d].cur \in settled'
  BY <1>3
<1> DEFINE row == [drv[d].mine EXCEPT !.status = status]
<1>5. row.status = status
  BY <1>1 DEF StepRow
<1> HIDE DEF row
<1>6. step' = Written(drv[d].cur, row)
  BY <1>4 DEF row
<1>7. WillReflect(drv[d].cur, row.status)
  BY <1>4, <1>5 DEF WillReflect
<1>8. RowsReflect'
  BY <1>1, <1>2, <1>6, <1>7, RowReflects
<1>9. CopiesOnly(d)
  <2> DEFINE q == [drv[d] EXCEPT !.pc = "decide", !.cur = 0]
  <2>1. \/ \E g \in {"ready", "failed", "waiting_approval"} : Aim(d, g)
        \/ Again(d) \/ Leave(d) \/ drv' = [drv EXCEPT ![d] = q]
    BY DEF Recover, Settle, StepRefused, StepWaits
  <2>2. q.snap = drv[d].snap /\ q.seen = drv[d].seen /\ q.goal = drv[d].goal
    BY AtWork DEF Driver
  <2> HIDE DEF q
  <2> QED BY <2>1, <2>2, MovesCopy DEF CopiesOnly
<1> QED BY <1>2, <1>8, <1>9, CopiesTruthful

LEMMA OutcomeOfStart ==
    ASSUME TypeInv, OutcomeInv, NEW d \in Drivers, StartStep(d)
    PROVE  OutcomeInv'
<1> DEFINE row == Started(drv[d].mine)
           q == [drv[d] EXCEPT !.mine = row, !.pc = "get_task", !.goal = "executing"]
<1>1. Remembered /\ api' = api /\ task' = task /\ drv[d].cur \in Steps
  BY AtWork DEF Remembered, StartStep, At, StepLabels
<1>2. CASE Aim(d, "failed") /\ step' = step
  BY <1>1, <1>2, MovesCopy, RowsStill, CopiesTruthful
<1>3. CASE step' = [step EXCEPT ![drv[d].cur] = row] /\ drv' = [drv EXCEPT ![d] = q]
  <2>1. row.status = "running"
    BY AtWork DEF Started, StepRow
  <2> HIDE DEF row
  <2>2. q.snap = drv[d].snap /\ q.seen = drv[d].seen /\ q.goal = "executing"
    BY AtWork DEF Driver
  <2> HIDE DEF q
  <2>3. WillReflect(drv[d].cur, row.status)
    BY <2>1 DEF WillReflect, Answers
  <2>4. RowsReflect'
    BY <1>1, <1>3, <2>3, RowReflects
  <2>5. CopiesOnly(d)
    BY <1>3, <2>2 DEF CopiesOnly
  <2> QED BY <1>1, <2>4, <2>5, CopiesTruthful
<1> QED BY <1>2, <1>3 DEF StartStep

\* _complete: every write that is not blocked has an outcome, or was rejected.
LEMMA OutcomeOfComplete ==
    ASSUME TypeInv, OutcomeInv, NEW d \in Drivers, Finish(d)
    PROVE  OutcomeInv'
<1> DEFINE open == {s \in Steps : step[s].status \in Unfinished}
           q == [drv[d] EXCEPT !.pc = "save_plan", !.goal = "succeeded"]
<1>1. Remembered /\ api' = api /\ task' = task /\ settled' = settled /\ refused' = refused
  BY DEF Remembered, Finish
<1>2. CASE Aim(d, "failed") /\ step' = step
  BY <1>1, <1>2, MovesCopy, RowsStill, CopiesTruthful
<1>3. CASE /\ ~ \E s \in open : Blocks(s)
           /\ step' = [s \in Steps |-> IF s \in open THEN [step[s] EXCEPT !.status = "skipped"]
                                       ELSE step[s]]
           /\ Aim(d, "failed") \/ drv' = [drv EXCEPT ![d] = q]
  <2>1. \A s \in open : s \notin Writes
    BY <1>3 DEF Blocks
  <2>2. \A s \in Steps : \/ s \in open /\ step'[s].status = "skipped"
                         \/ step'[s] = step[s]
    BY <1>3 DEF TypeInv, TypeOK, StepRow
  <2> HIDE DEF open
  <2>3. RowsReflect'
    <3> SUFFICES ASSUME NEW s \in Steps PROVE Reflects(s, step[s].status)'
      BY DEF RowsReflect
    <3>1. CASE s \in open /\ step'[s].status = "skipped"
      BY <2>1, <3>1 DEF Reflects, Answers
    <3>2. CASE step'[s] = step[s]
      BY <1>1, <3>2 DEF Reflects, OutcomeInv, RowsReflect
    <3> QED BY <2>2, <3>1, <3>2
  <2>4. Accounted
    <3> SUFFICES ASSUME NEW s \in Writes PROVE s \in refused \cup settled
      BY DEF Accounted
    <3>1. s \in Steps /\ s \notin open
      BY <2>1, WritesAssumption
    <3>2. step[s].status \in StepStatuses \ Unfinished
      BY <3>1 DEF open, TypeInv, TypeOK, StepRow
    <3>3. step[s].status \in Answers \cup {"skipped"}
      BY <3>2 DEF StepStatuses, Unfinished, Answers
    <3> QED BY <3>1, <3>3 DEF OutcomeInv, RowsReflect, Reflects
  <2>5. CASE Aim(d, "failed")
    BY <1>1, <2>3, <2>5, MovesCopy, CopiesTruthful
  <2>6. CASE drv' = [drv EXCEPT ![d] = q]
    <3>1. q.snap = drv[d].snap /\ q.seen = drv[d].seen
      BY AtWork DEF Driver
    <3> HIDE DEF q
    <3>2. drv'[d] = q /\ \A e \in Drivers \ {d} : drv'[e] = drv[e]
      BY <2>6 DEF TypeInv
    <3>3. \A e \in Drivers : Truthful(drv[e])'
      BY <1>1, <2>4, <3>1, <3>2 DEF OutcomeInv, Truthful, Reflects, Accounted
    <3> QED BY <1>1, <2>3, <3>3 DEF OutcomeInv, SuccessAccountsForWrites
  <2> QED BY <1>3, <2>5, <2>6
<1> QED BY <1>2, <1>3 DEF Finish

\* save_plan writes back statuses that were once in the rows.
LEMMA OutcomeOfSavePlan ==
    ASSUME TypeInv, OutcomeInv, NEW d \in Drivers, SavePlan(d)
    PROVE  OutcomeInv'
<1>1. Remembered /\ api' = api /\ task' = task /\ settled' = settled /\ refused' = refused
  BY DEF Remembered, SavePlan
<1>2. step' = step \/ step' = drv[d].snap
  BY DEF SavePlan
<1>3. RowsReflect'
  BY <1>1, <1>2 DEF RowsReflect, Reflects, OutcomeInv, Truthful
<1>4. CopiesOnly(d)
  BY MovesCopy DEF SavePlan
<1> QED BY <1>1, <1>3, <1>4, CopiesTruthful

\* Success is committed for the goal, or again for a row that was read as succeeded.
LEMMA OutcomeOfCommit ==
    ASSUME TypeInv, OutcomeInv, NEW d \in Drivers, Commit(d)
    PROVE  OutcomeInv'
<1> DEFINE l == NextLabel(drv[d].goal)
           a == [IdleDriver EXCEPT !.pc = l]
           b == [drv[d] EXCEPT !.pc = l, !.seen = NewTask, !.goal = "none"]
<1>1. /\ Remembered /\ api' = api /\ step' = step
      /\ settled' = settled /\ refused' = refused
  BY DEF Remembered, Commit
<1>2. /\ a.snap = NewSnap /\ a.seen = NewTask /\ a.goal = "none"
      /\ b.snap = drv[d].snap /\ b.seen = NewTask /\ b.goal = "none"
  BY AtWork DEF Driver, IdleDriver, NewSnap
<1>3. Leave(d) \/ drv' = [drv EXCEPT ![d] = a] \/ drv' = [drv EXCEPT ![d] = b]
  BY DEF Commit
<1> HIDE DEF a, b
<1>4. CopiesOnly(d)
  BY <1>2, <1>3, MovesCopy DEF CopiesOnly
<1>5. CASE task' = task \/ task'.status # "succeeded"
  BY <1>1, <1>4, <1>5, RowsStill, CopiesTruthful
<1>6. CASE task' = CommittedRow(d) /\ task'.status = "succeeded"
  <2>1. GoalStatus(d) = "succeeded"
    BY <1>6 DEF CommittedRow
  <2>2. drv[d].goal = "succeeded" \/ drv[d].seen.status = "succeeded"
    BY <2>1, AtWork DEF GoalStatus, Goals
  <2>3. Accounted
    BY <2>2 DEF OutcomeInv, Truthful
  <2>4. \A e \in Drivers : Truthful(drv[e])'
    <3> SUFFICES ASSUME NEW e \in Drivers PROVE Truthful(drv[e])'
      OBVIOUS
    <3>1. CASE e # d
      <4>1. drv'[e] = drv[e]
        BY <3>1 DEF Commit, Leave, TypeInv
      <4> QED BY <1>1, <4>1 DEF OutcomeInv, Truthful, Reflects, Accounted
    <3>2. CASE e = d
      <4>1. PICK q : drv' = [drv EXCEPT ![d] = q] /\ q.snap \in {drv[d].snap, step, NewSnap}
        BY <1>4 DEF CopiesOnly
      <4>2. drv'[d] = q
        BY <4>1 DEF TypeInv
      <4>3. \A s \in Steps : Reflects(s, q.snap[s].status)
        BY <4>1 DEF Reflects, NewSnap, NewStep, Answers, OutcomeInv, RowsReflect, Truthful
      <4> QED BY <1>1, <2>3, <3>2, <4>2, <4>3 DEF Truthful, Reflects, Accounted
    <3> QED BY <3>1, <3>2
  <2> QED BY <1>1, <2>3, <2>4, RowsStill DEF OutcomeInv, SuccessAccountsForWrites, Accounted
<1> QED BY <1>5, <1>6 DEF Commit

\* Requests: only a rejection skips a write, and it is remembered as one; no request
\* reports success.
LEMMA OutcomeOfRequest ==
    ASSUME TypeInv, OutcomeInv, NEW r \in Requests, RequestStep(r)
    PROVE  OutcomeInv'
<1>1. Remembered /\ drv' = drv
  BY DEF Remembered, RequestStep, ClickApprove, ClickReject, DecideStep, DecideSave, ClickCancel,
         ClickResume, RequestCommit, RequestDies, rows
<1>2. \A d \in Drivers : Truthful(drv[d])'
  BY <1>1 DEF OutcomeInv, Truthful, Reflects, Accounted, Remembered
<1>3. task' = task \/ task'.status # "succeeded"
  <2>1. CASE RequestCommit(r)
    <3>1. task' = [api[r].seen EXCEPT !.status = TaskTarget(api[r].kind)]
      BY <2>1 DEF RequestCommit
    <3>2. TaskTarget(api[r].kind) # "succeeded"
      BY DEF TaskTarget
    <3> HIDE DEF TaskTarget
    <3> QED BY <3>1, <3>2, AtDesk DEF TaskRow
  <2> QED BY <2>1 DEF RequestStep, ClickApprove, ClickReject, DecideStep, DecideSave, ClickCancel,
             ClickResume, RequestDies, rows
<1>4. SuccessAccountsForWrites'
  BY <1>1, <1>3 DEF OutcomeInv, SuccessAccountsForWrites, Remembered
<1>5. RowsReflect'
  <2>1. CASE DecideStep(r)
    <3> DEFINE s == StepOf(api[r].ap)
               row == [status |-> StepTarget(api[r].kind), args |-> api[r].args]
    <3>1. s \in Steps /\ api[r].kind \in {"approve", "reject"}
      BY <2>1, AtDesk DEF DecideStep, Answering, StepOf, OutcomeInv, TypeInv, TypeOK, ApprovalRow
    <3>2. WillReflect(s, row.status)
      BY <2>1, <3>1 DEF DecideStep, StepTarget, WillReflect, Answers
    <3>3. step' = Written(s, row)
      BY <2>1 DEF DecideStep
    <3> HIDE DEF s, row
    <3> QED BY <1>1, <3>1, <3>2, <3>3, RowReflects
  <2>2. CASE ~ DecideStep(r)
    <3>1. step' = step
      BY <2>2 DEF RequestStep, ClickApprove, ClickReject, DecideSave, ClickCancel, ClickResume,
                  RequestCommit, RequestDies, rows
    <3> QED BY <1>1, <3>1, RowsStill
  <2> QED BY <2>1, <2>2
<1>6. /\ api'[r].pc = "step" => api'[r].kind \in {"approve", "reject"}
      /\ \A x \in Requests \ {r} : api'[x] = api[x]
  <2> DEFINE Fits == /\ api'[r].pc = "step" => api'[r].kind \in {"approve", "reject"}
                     /\ \A x \in Requests \ {r} : api'[x] = api[x]
  <2>1. ASSUME \/ \E a \in 1..MaxApprovals, edit \in BOOLEAN : ClickApprove(r, a, edit)
               \/ \E a \in 1..MaxApprovals : ClickReject(r, a)
        PROVE  Fits
    BY <2>1 DEF ClickApprove, ClickReject, Click, TypeInv
  <2>2. ASSUME NEW l \in {"save", "commit"}, Proceed(r, l) PROVE Fits
    <3> DEFINE q == [api[r] EXCEPT !.pc = l]
    <3>1. q.pc # "step"
      BY AtDesk DEF Request
    <3>2. api' = [api EXCEPT ![r] = q]
      BY <2>2 DEF Proceed
    <3> HIDE DEF q
    <3> QED BY <3>1, <3>2 DEF TypeInv
  <2>3. ASSUME EndRequest(r) PROVE Fits
    BY <2>3 DEF EndRequest, IdleRequest, TypeInv
  <2>4. ASSUME ClickCancel(r) \/ ClickResume(r) PROVE Fits
    BY <2>4 DEF ClickCancel, ClickResume, Click, IdleRequest, TypeInv
  <2>5. CASE DecideStep(r) \/ DecideSave(r) \/ RequestCommit(r) \/ RequestDies(r)
    BY <2>2, <2>3, <2>5 DEF DecideStep, DecideSave, RequestCommit, RequestDies
  <2> QED BY <2>1, <2>4, <2>5 DEF RequestStep
<1> QED BY <1>2, <1>4, <1>5, <1>6 DEF OutcomeInv

LEMMA OutcomeStep == TypeInv /\ OutcomeInv /\ [Next]_vars => OutcomeInv'
<1> SUFFICES ASSUME TypeInv, OutcomeInv, [Next]_vars PROVE OutcomeInv'
  OBVIOUS
<1>1. ASSUME NEW d \in Drivers,
             DriverStep(d) \/ PreflightBlocks(d) \/ StepRefused(d) \/ OutOfTime(d)
      PROVE  OutcomeInv'
  BY <1>1, OutcomeOfReading, OutcomeOfSettling, OutcomeOfStart, OutcomeOfComplete,
     OutcomeOfSavePlan, OutcomeOfCommit
     DEF DriverStep
<1>2. ASSUME NEW o \in Owners, Crash(o) PROVE OutcomeInv'
  <2>1. \A d \in Drivers : drv'[d] = drv[d] \/ drv'[d] = IdleDriver
    BY <1>2 DEF Crash
  <2>2. UNCHANGED <<task, step, api, settled, refused>>
    BY <1>2 DEF Crash
  <2>3. \A d \in Drivers : Truthful(drv[d])'
    BY <2>1, <2>2
       DEF OutcomeInv, Truthful, Reflects, Accounted, IdleDriver, NewStep, NewTask, Answers
  <2> QED BY <2>2, <2>3 DEF OutcomeInv, RowsReflect, Reflects, SuccessAccountsForWrites
<1>3. CASE LeaseExpires \/ (\E a \in 1..MaxApprovals : SupersedeApproval(a)) \/ UNCHANGED vars
  <2>1. UNCHANGED <<task, step, api, drv, settled, refused>>
    BY <1>3 DEF LeaseExpires, SupersedeApproval, vars
  <2> QED BY <2>1
          DEF OutcomeInv, RowsReflect, Truthful, Reflects, Accounted, SuccessAccountsForWrites
<1> QED BY <1>1, <1>2, <1>3, OutcomeOfRequest DEF Next

\* A Task is reported succeeded only if the outcome of each of its writes was recorded or
\* the owner rejected it, whatever stale plan or stale row was written back in between.
THEOREM SuccessIsAccounted == Spec => []SuccessAccountsForWrites
<1>1. Init => OutcomeInv
  BY DEF Init, OutcomeInv, RowsReflect, Truthful, Reflects, Accounted, SuccessAccountsForWrites,
         IdleDriver, NewStep, NewTask, Answers
<1>2. OutcomeInv => SuccessAccountsForWrites
  BY DEF OutcomeInv
<1> QED BY <1>1, <1>2, TypeInit, TypeNext, OutcomeStep, PTL DEF Spec
==============================================================================
