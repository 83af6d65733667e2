------------------------- MODULE TaskWakeup_proofs -------------------------
(* Theorems about TaskWakeup, for every number of workers and wake-ups, and  *)
(* for every number of faults.                                               *)
EXTENDS TaskWakeup, TLAPS

-----------------------------------------------------------------------------
(* Types.  A worker that marks has a row at hand, one that acknowledges has a *)
(* message.                                                                   *)

BusyWorker == {r \in Worker : /\ r.pc = "mark" => r.at \in Events
                              /\ r.pc \in {"drive", "release", "ack"} => r.msg \in Messages}
TypeInv == TypeOK /\ wk \in [Workers -> BusyWorker]

LEMMA FreshType == Fresh \in BusyWorker
BY BoundsAssumption DEF Fresh, BusyWorker, Worker

LEMMA TypeInit == Init => TypeInv
<1> SUFFICES ASSUME Init PROVE TypeInv
  OBVIOUS
<1>1. wk \in [Workers -> BusyWorker] /\ wk \in [Workers -> Worker]
  BY FreshType DEF Init, BusyWorker
<1>2. events \in [Events -> EventStates]
  BY DEF Init, EventStates
<1>3. stream \in [Messages -> MessageStates]
  BY DEF Init, MessageStates
<1>4. faults \in 0..MaxFaults
  BY BoundsAssumption DEF Init
<1> QED BY <1>1, <1>2, <1>3, <1>4 DEF Init, TypeInv, TypeOK, TaskStates

\* Replacing one worker by a well-typed one.
LEMMA Replaced ==
    ASSUME TypeInv, NEW w \in Workers, NEW q \in BusyWorker, wk' = [wk EXCEPT ![w] = q]
    PROVE  wk' \in [Workers -> BusyWorker] /\ wk' \in [Workers -> Worker]
BY DEF TypeInv, BusyWorker

LEMMA IsBusy ==
    ASSUME TypeInv, NEW w \in Workers
    PROVE  /\ wk[w] \in BusyWorker /\ wk[w] \in Worker
           /\ wk[w].claimed \subseteq Events /\ wk[w].at \in 0..MaxEvents
           /\ wk[w].inbox \subseteq Messages /\ wk[w].msg \in 0..MaxMessages
           /\ wk[w].pc = "mark" => wk[w].at \in Events
           /\ wk[w].pc \in {"drive", "release", "ack"} => wk[w].msg \in Messages
BY DEF TypeInv, BusyWorker, Worker

LEMMA Bounds == /\ 0 \in 0..MaxEvents /\ Events \subseteq 0..MaxEvents
                /\ 0 \in 0..MaxMessages /\ Messages \subseteq 0..MaxMessages
BY BoundsAssumption DEF Events, Messages

LEMMA FaultType == ASSUME TypeInv, Fault \/ faults' = faults PROVE faults' \in 0..MaxFaults
BY BoundsAssumption DEF TypeInv, TypeOK, Fault

LEMMA TypeDispatch == ASSUME TypeInv, NEW w \in Workers, Dispatch(w) PROVE TypeInv'
<1> DEFINE mine == {e \in Events : Claimable(e)}
           q == [wk[w] EXCEPT !.claimed = mine, !.pc = "publish"]
<1>1. q \in BusyWorker
  BY IsBusy DEF BusyWorker, Worker
<1>2. wk' = [wk EXCEPT ![w] = q]
  BY DEF Dispatch
<1>3. events' \in [Events -> EventStates]
  BY DEF Dispatch, TypeInv, TypeOK, EventStates
<1> QED BY <1>1, <1>2, <1>3, Replaced DEF Dispatch, TypeInv, TypeOK

LEMMA TypePublish == ASSUME TypeInv, NEW w \in Workers, Publish(w) PROVE TypeInv'
<1>1. PICK e \in wk[w].claimed, ok \in BOOLEAN, added \in BOOLEAN :
          /\ ok => added
          /\ IF ok THEN UNCHANGED faults ELSE Fault
          /\ IF added
             THEN /\ \E m \in Messages :
                        /\ IsFresh(stream, m, "none")
                        /\ stream' = [stream EXCEPT ![m] = "new"]
                  /\ published' = published \cup {e}
             ELSE UNCHANGED <<stream, published>>
          /\ wk' = [wk EXCEPT ![w].claimed = @ \ {e}, ![w].at = e, ![w].ok = ok, ![w].pc = "mark"]
  BY DEF Publish
<1> DEFINE q == [wk[w] EXCEPT !.claimed = @ \ {e}, !.at = e, !.ok = ok, !.pc = "mark"]
<1>2. e \in Events /\ e \in 0..MaxEvents
  BY IsBusy, Bounds
<1>3. q \in BusyWorker
  BY <1>2, IsBusy DEF BusyWorker, Worker
<1>4. wk' = [wk EXCEPT ![w] = q]
  BY <1>1
<1>5. stream' \in [Messages -> MessageStates] /\ published' \subseteq Events
  BY <1>1, <1>2 DEF TypeInv, TypeOK, MessageStates
<1>6. faults' \in 0..MaxFaults
  BY <1>1, FaultType
<1> QED BY <1>3, <1>4, <1>5, <1>6, Replaced DEF Publish, TypeInv, TypeOK

LEMMA TypeMark == ASSUME TypeInv, NEW w \in Workers, Mark(w) PROVE TypeInv'
<1> DEFINE q == [wk[w] EXCEPT !.at = 0, !.ok = TRUE, !.pc = "publish"]
<1>1. q \in BusyWorker
  BY IsBusy, Bounds DEF BusyWorker, Worker
<1>2. wk' = [wk EXCEPT ![w] = q]
  BY DEF Mark
<1>3. events' \in [Events -> EventStates]
  BY DEF Mark, StatusAfter, TypeInv, TypeOK, EventStates
<1> QED BY <1>1, <1>2, <1>3, Replaced DEF Mark, TypeInv, TypeOK

LEMMA TypeDone ==
    ASSUME TypeInv, NEW w \in Workers, DispatchDone(w) \/ BatchDone(w) PROVE TypeInv'
<1>1. ASSUME NEW l \in {"poll", "dispatch"} PROVE [wk[w] EXCEPT !.pc = l] \in BusyWorker
  BY IsBusy DEF BusyWorker, Worker
<1> QED BY <1>1, Replaced DEF DispatchDone, BatchDone, TypeInv, TypeOK

LEMMA TypePoll == ASSUME TypeInv, NEW w \in Workers, Poll(w) PROVE TypeInv'
<1> DEFINE batch == {m \in Messages : Delivered(m)}
           q == [wk[w] EXCEPT !.inbox = batch, !.pc = "handle"]
<1>1. q \in BusyWorker
  BY IsBusy DEF BusyWorker, Worker
<1>2. wk' = [wk EXCEPT ![w] = q]
  BY DEF Poll
<1>3. stream' \in [Messages -> MessageStates]
  BY DEF Poll, TypeInv, TypeOK, MessageStates
<1> QED BY <1>1, <1>2, <1>3, Replaced DEF Poll, TypeInv, TypeOK

LEMMA TypeHandle == ASSUME TypeInv, NEW w \in Workers, Handle(w) PROVE TypeInv'
<1>1. PICK m \in wk[w].inbox :
          \/ /\ lease' = w /\ UNCHANGED turnedAway
             /\ wk' = [wk EXCEPT ![w].inbox = @ \ {m}, ![w].msg = m, ![w].pc = "drive"]
          \/ /\ turnedAway' = (turnedAway \/ task = "runnable") /\ UNCHANGED lease
             /\ wk' = [wk EXCEPT ![w].inbox = @ \ {m}, ![w].msg = m, ![w].pc = "ack"]
  BY DEF Handle
<1> DEFINE q(l) == [wk[w] EXCEPT !.inbox = @ \ {m}, !.msg = m, !.pc = l]
<1>2. m \in Messages /\ m \in 0..MaxMessages
  BY IsBusy, Bounds
<1>3. q("drive") \in BusyWorker /\ q("ack") \in BusyWorker
  BY <1>2, IsBusy DEF BusyWorker, Worker
<1>4. wk' = [wk EXCEPT ![w] = q("drive")] \/ wk' = [wk EXCEPT ![w] = q("ack")]
  BY <1>1
<1>5. wk' \in [Workers -> BusyWorker] /\ wk' \in [Workers -> Worker]
  BY <1>3, <1>4, Replaced
<1>6. lease' \in Workers \cup {Free, Gone} /\ turnedAway' \in BOOLEAN
  BY <1>1 DEF TypeInv, TypeOK
<1> QED BY <1>5, <1>6 DEF Handle, TypeInv, TypeOK

LEMMA TypeDrive == ASSUME TypeInv, NEW w \in Workers, Drive(w) PROVE TypeInv'
<1> DEFINE a == [wk[w] EXCEPT !.pc = "release"]
           b == [wk[w] EXCEPT !.ok = FALSE, !.pc = "release"]
<1>1. a \in BusyWorker /\ b \in BusyWorker
  BY IsBusy DEF Drive, BusyWorker, Worker
<1>2. wk' = [wk EXCEPT ![w] = a] \/ wk' = [wk EXCEPT ![w] = b]
  BY DEF Drive
<1>3. wk' \in [Workers -> BusyWorker] /\ wk' \in [Workers -> Worker]
  BY <1>1, <1>2, Replaced
<1>4. task' \in TaskStates
  BY DEF Drive, TypeInv, TypeOK, TaskStates
<1>5. faults' \in 0..MaxFaults
  BY FaultType DEF Drive
<1> QED BY <1>3, <1>4, <1>5 DEF Drive, TypeInv, TypeOK

LEMMA TypeRelease == ASSUME TypeInv, NEW w \in Workers, Release(w) PROVE TypeInv'
<1> DEFINE a == [wk[w] EXCEPT !.pc = "ack"]
           b == [wk[w] EXCEPT !.ok = TRUE, !.msg = 0, !.pc = "handle"]
<1>1. a \in BusyWorker /\ b \in BusyWorker
  BY IsBusy, Bounds DEF Release, BusyWorker, Worker
<1>2. wk' = [wk EXCEPT ![w] = a] \/ wk' = [wk EXCEPT ![w] = b]
  BY DEF Release
<1>3. wk' \in [Workers -> BusyWorker] /\ wk' \in [Workers -> Worker]
  BY <1>1, <1>2, Replaced
<1> QED BY <1>3 DEF Release, TypeInv, TypeOK

LEMMA TypeAck == ASSUME TypeInv, NEW w \in Workers, Ack(w) PROVE TypeInv'
<1> DEFINE q == [wk[w] EXCEPT !.msg = 0, !.ok = TRUE, !.pc = "handle"]
<1>1. q \in BusyWorker
  BY IsBusy, Bounds DEF BusyWorker, Worker
<1>2. wk' = [wk EXCEPT ![w] = q]
  BY DEF Ack
<1>3. stream' \in [Messages -> MessageStates]
  BY DEF Ack, TypeInv, TypeOK, MessageStates
<1> QED BY <1>1, <1>2, <1>3, Replaced DEF Ack, TypeInv, TypeOK

LEMMA TypeCrash == ASSUME TypeInv, Restart \/ \E w \in Workers : Crash(w) PROVE TypeInv'
<1>1. wk' \in [Workers -> BusyWorker] /\ wk' \in [Workers -> Worker]
  BY FreshType, Replaced DEF Restart, Crash, BusyWorker
<1>2. faults' \in 0..MaxFaults
  BY FaultType DEF Restart, Crash
<1>3. events' \in [Events -> EventStates]
  BY DEF Restart, Crash, Runnable, TypeInv, TypeOK, EventStates
<1>4. lease' \in Workers \cup {Free, Gone}
  BY DEF Restart, Crash, LeaseAfterDeath, TypeInv, TypeOK
<1> QED BY <1>1, <1>2, <1>3, <1>4 DEF Restart, Crash, TypeInv, TypeOK

LEMMA TypeClocks ==
    ASSUME TypeInv,
           \/ \E e \in Events : ClaimLapses(e)
           \/ \E m \in Messages : GoesIdle(m)
           \/ LeaseExpires
    PROVE  TypeInv'
<1>1. ASSUME NEW e \in Events, ClaimLapses(e) PROVE TypeInv'
  <2>1. faults' \in 0..MaxFaults
    BY <1>1, FaultType DEF ClaimLapses
  <2>2. events' \in [Events -> EventStates]
    BY <1>1 DEF ClaimLapses, TypeInv, TypeOK, EventStates
  <2> QED BY <1>1, <2>1, <2>2 DEF ClaimLapses, TypeInv, TypeOK
<1>2. ASSUME NEW m \in Messages, GoesIdle(m) PROVE TypeInv'
  BY <1>2 DEF GoesIdle, TypeInv, TypeOK, MessageStates
<1>3. CASE LeaseExpires
  BY <1>3 DEF LeaseExpires, TypeInv, TypeOK
<1> QED BY <1>1, <1>2, <1>3

LEMMA TypeOwner == ASSUME TypeInv, OwnerResumes \/ OwnerCancels PROVE TypeInv'
<1>1. events' \in [Events -> EventStates]
  BY DEF OwnerResumes, OwnerCancels, Runnable, TypeInv, TypeOK, EventStates
<1> QED BY <1>1 DEF OwnerResumes, OwnerCancels, TypeInv, TypeOK, TaskStates

LEMMA TypeNext == TypeInv /\ [Next]_vars => TypeInv'
<1> SUFFICES ASSUME TypeInv, [Next]_vars PROVE TypeInv'
  OBVIOUS
<1>1. ASSUME NEW w \in Workers, WorkerStep(w) PROVE TypeInv'
  BY <1>1, TypeDispatch, TypePublish, TypeMark, TypeDone, TypePoll, TypeHandle, TypeDrive,
     TypeRelease, TypeAck DEF WorkerStep
<1>2. CASE UNCHANGED vars
  BY <1>2 DEF vars, TypeInv, TypeOK
<1> QED BY <1>1, <1>2, TypeCrash, TypeClocks, TypeOwner DEF Next

\* The rows of the outbox, the stream's entries and the workers stay well-typed.
THEOREM WakeupTypes == Spec => []TypeOK
<1>1. TypeInv => TypeOK
  BY DEF TypeInv
<1> QED BY <1>1, TypeInit, TypeNext, PTL DEF Spec

-----------------------------------------------------------------------------
(* The outbox.  SentWasPublished needs to know what a worker about to mark a  *)
(* row has done; the carrier below needs to know that a row is inserted fresh.*)

FreshRows == \A e \in Events : events[e] = "none" => e \notin published
AtHand(w) ==
    /\ \A e \in wk[w].claimed : events[e] # "none"
    /\ wk[w].pc = "mark" => events[wk[w].at] # "none"
    /\ wk[w].pc = "mark" /\ wk[w].ok => wk[w].at \in published
OutboxInv ==
    /\ SentWasPublished
    /\ FreshRows
    /\ \A w \in Workers : AtHand(w)

\* A message in some worker's hands has been in the stream.
InHands(w) == /\ \A m \in wk[w].inbox : stream[m] # "none"
              /\ wk[w].msg \in Messages => stream[wk[w].msg] # "none"
StreamInv == \A w \in Workers : InHands(w)

\* What still carries a runnable task: a row whose message has not reached the
\* stream, or a message that no worker is about to acknowledge.
Unsent(e) == events[e] \in {"pending", "publishing", "overdue"} /\ e \notin published
AboutToAck(r) == r.pc = "ack" \/ (r.pc = "release" /\ r.ok)
Undone(m) == /\ stream[m] \in {"new", "pending", "idle"}
             /\ \A w \in Workers : wk[w].msg = m => ~ AboutToAck(wk[w])
CarrierInv ==
    task = "runnable" /\ ~ turnedAway =>
        (\E e \in Events : Unsent(e)) \/ (\E m \in Messages : Undone(m))

\* What the steps that stay away from the outbox leave of a worker.
LEMMA Elsewhere ==
    ASSUME TypeInv, NEW w \in Workers,
           \/ DispatchDone(w) \/ Poll(w) \/ BatchDone(w) \/ Handle(w) \/ Drive(w)
           \/ Release(w) \/ Ack(w)
    PROVE  /\ wk'[w].claimed = wk[w].claimed /\ wk'[w].pc # "mark"
           /\ \A v \in Workers \ {w} : wk'[v] = wk[v]
           /\ events' = events /\ published' = published
<1>1. wk[w] \in Worker
  BY IsBusy
<1>2. ASSUME NEW q, wk' = [wk EXCEPT ![w] = q], q.claimed = wk[w].claimed, q.pc # "mark"
      PROVE  /\ wk'[w].claimed = wk[w].claimed /\ wk'[w].pc # "mark"
             /\ \A v \in Workers \ {w} : wk'[v] = wk[v]
  BY <1>2 DEF TypeInv
<1>3. CASE DispatchDone(w) \/ BatchDone(w)
  BY <1>1, <1>3 DEF DispatchDone, BatchDone, TypeInv, Worker
<1>4. CASE Poll(w)
  <2> DEFINE batch == {m \in Messages : Delivered(m)}
             q == [wk[w] EXCEPT !.inbox = batch, !.pc = "handle"]
  <2>1. wk' = [wk EXCEPT ![w] = q]
    BY <1>4 DEF Poll
  <2>2. q.claimed = wk[w].claimed /\ q.pc # "mark"
    BY <1>1 DEF Worker
  <2> QED BY <1>2, <1>4, <2>1, <2>2 DEF Poll
<1>5. CASE Handle(w)
  <2>1. PICK m \in wk[w].inbox, l \in {"drive", "ack"} :
            wk' = [wk EXCEPT ![w] = [wk[w] EXCEPT !.inbox = @ \ {m}, !.msg = m, !.pc = l]]
    BY ZenonT(40), <1>5 DEF Handle
  <2> DEFINE q == [wk[w] EXCEPT !.inbox = @ \ {m}, !.msg = m, !.pc = l]
  <2>2. q.claimed = wk[w].claimed /\ q.pc # "mark"
    BY <1>1 DEF Worker
  <2> QED BY <1>2, <1>5, <2>1, <2>2 DEF Handle
<1>6. CASE Drive(w)
  <2>1. \/ wk' = [wk EXCEPT ![w] = [wk[w] EXCEPT !.pc = "release"]]
        \/ wk' = [wk EXCEPT ![w] = [wk[w] EXCEPT !.ok = FALSE, !.pc = "release"]]
    BY <1>6 DEF Drive
  <2> QED BY <1>1, <1>2, <1>6, <2>1 DEF Drive, Worker
<1>7. CASE Release(w)
  <2>1. \/ wk' = [wk EXCEPT ![w] = [wk[w] EXCEPT !.pc = "ack"]]
        \/ wk' = [wk EXCEPT ![w] = [wk[w] EXCEPT !.ok = TRUE, !.msg = 0, !.pc = "handle"]]
    BY <1>7 DEF Release
  <2> DEFINE a == [wk[w] EXCEPT !.pc = "ack"]
             b == [wk[w] EXCEPT !.ok = TRUE, !.msg = 0, !.pc = "handle"]
  <2>2. /\ a.claimed = wk[w].claimed /\ a.pc # "mark"
        /\ b.claimed = wk[w].claimed /\ b.pc # "mark"
    BY <1>1 DEF Worker
  <2> HIDE DEF a, b
  <2> QED BY <1>2, <1>7, <2>1, <2>2 DEF Release, a, b
<1>8. CASE Ack(w)
  <2> DEFINE q == [wk[w] EXCEPT !.msg = 0, !.ok = TRUE, !.pc = "handle"]
  <2>1. wk' = [wk EXCEPT ![w] = q]
    BY <1>8 DEF Ack
  <2>2. q.claimed = wk[w].claimed /\ q.pc # "mark"
    BY <1>1 DEF Worker
  <2> HIDE DEF q
  <2> QED BY <1>2, <1>8, <2>1, <2>2 DEF Ack
<1> QED BY <1>3, <1>4, <1>5, <1>6, <1>7, <1>8

LEMMA OutboxByDispatch ==
    ASSUME TypeInv, OutboxInv, NEW w \in Workers, Dispatch(w) PROVE OutboxInv'
<1> DEFINE mine == {e \in Events : Claimable(e)}
           q == [wk[w] EXCEPT !.claimed = mine, !.pc = "publish"]
<1>1. q.claimed = mine /\ q.pc = "publish"
  BY IsBusy DEF Worker
<1>2. wk'[w] = q /\ \A v \in Workers \ {w} : wk'[v] = wk[v]
  BY DEF Dispatch, TypeInv
<1>3. /\ \A e \in Events : events'[e] = IF e \in mine THEN "publishing" ELSE events[e]
      /\ published' = published
  BY DEF Dispatch
<1>4. \A e \in mine : e \in Events /\ events[e] # "none"
  BY DEF Claimable
<1> HIDE DEF q, mine
<1>5. SentWasPublished' /\ FreshRows'
  BY <1>3, <1>4 DEF OutboxInv, SentWasPublished, FreshRows
<1>6. ASSUME NEW v \in Workers PROVE AtHand(v)'
  <2>1. CASE v = w
    BY <1>1, <1>2, <1>3, <1>4, <2>1 DEF AtHand
  <2>2. CASE v # w
    BY <1>2, <1>3, <2>2, IsBusy DEF OutboxInv, AtHand
  <2> QED BY <2>1, <2>2
<1> QED BY <1>5, <1>6 DEF OutboxInv

LEMMA OutboxByPublish ==
    ASSUME TypeInv, OutboxInv, NEW w \in Workers, Publish(w) PROVE OutboxInv'
<1>1. PICK e \in wk[w].claimed, ok \in BOOLEAN, added \in BOOLEAN :
          /\ ok => added
          /\ published' = IF added THEN published \cup {e} ELSE published
          /\ wk' = [wk EXCEPT ![w].claimed = @ \ {e}, ![w].at = e, ![w].ok = ok, ![w].pc = "mark"]
  BY DEF Publish
<1> DEFINE q == [wk[w] EXCEPT !.claimed = @ \ {e}, !.at = e, !.ok = ok, !.pc = "mark"]
<1>2. q.claimed \subseteq wk[w].claimed /\ q.at = e /\ q.ok = ok
  BY IsBusy DEF Worker
<1>3. wk'[w] = q /\ \A v \in Workers \ {w} : wk'[v] = wk[v]
  BY <1>1 DEF TypeInv
<1> HIDE DEF q
<1>4. events' = events /\ events[e] # "none"
  BY DEF Publish, OutboxInv, AtHand
<1>5. SentWasPublished' /\ FreshRows'
  BY <1>1, <1>4 DEF OutboxInv, SentWasPublished, FreshRows
<1>6. published \subseteq published' /\ (ok => e \in published')
  BY <1>1
<1>7. ASSUME NEW v \in Workers PROVE AtHand(v)'
  <2>1. CASE v = w
    BY <1>2, <1>3, <1>4, <1>6, <2>1 DEF OutboxInv, AtHand
  <2>2. CASE v # w
    BY <1>3, <1>4, <1>6, <2>2 DEF OutboxInv, AtHand
  <2> QED BY <2>1, <2>2
<1> QED BY <1>5, <1>7 DEF OutboxInv

LEMMA OutboxByMark ==
    ASSUME TypeInv, OutboxInv, NEW w \in Workers, Mark(w) PROVE OutboxInv'
<1> DEFINE e == wk[w].at
           q == [wk[w] EXCEPT !.at = 0, !.ok = TRUE, !.pc = "publish"]
<1>1. q.claimed = wk[w].claimed /\ q.pc = "publish"
  BY IsBusy DEF Worker
<1>2. wk'[w] = q /\ \A v \in Workers \ {w} : wk'[v] = wk[v]
  BY DEF Mark, TypeInv
<1> HIDE DEF q
<1>3. /\ e \in Events /\ published' = published
      /\ \A f \in Events \ {e} : events'[f] = events[f]
      /\ events'[e] = IF wk[w].ok THEN "sent" ELSE "pending"
  BY IsBusy DEF Mark, StatusAfter, TypeInv, TypeOK
<1>4. wk[w].ok => e \in published
  BY DEF Mark, OutboxInv, AtHand
<1>5. SentWasPublished' /\ FreshRows'
  BY <1>3, <1>4 DEF OutboxInv, SentWasPublished, FreshRows
<1>6. ASSUME NEW v \in Workers PROVE AtHand(v)'
  <2>1. wk[v].claimed \subseteq Events /\ (wk[v].pc = "mark" => wk[v].at \in Events)
    BY IsBusy
  <2>2. CASE v = w
    BY <1>1, <1>2, <1>3, <2>1, <2>2 DEF OutboxInv, AtHand
  <2>3. CASE v # w
    BY <1>2, <1>3, <2>1, <2>3 DEF OutboxInv, AtHand
  <2> QED BY <2>2, <2>3
<1> QED BY <1>5, <1>6 DEF OutboxInv

LEMMA OutboxElsewhere ==
    ASSUME TypeInv, OutboxInv, NEW w \in Workers,
           \/ DispatchDone(w) \/ Poll(w) \/ BatchDone(w) \/ Handle(w) \/ Drive(w)
           \/ Release(w) \/ Ack(w)
    PROVE  OutboxInv'
<1>1. /\ wk'[w].claimed = wk[w].claimed /\ wk'[w].pc # "mark"
      /\ \A v \in Workers \ {w} : wk'[v] = wk[v]
      /\ events' = events /\ published' = published
  BY Elsewhere
<1>2. SentWasPublished' /\ FreshRows'
  BY <1>1 DEF OutboxInv, SentWasPublished, FreshRows
<1>3. ASSUME NEW v \in Workers PROVE AtHand(v)'
  BY <1>1 DEF OutboxInv, AtHand
<1> QED BY <1>2, <1>3 DEF OutboxInv

\* A wake-up is inserted as a row that has never been published.
LEMMA OutboxByInsertion ==
    ASSUME TypeInv, OutboxInv, NEW e \in Events, Runnable(e), published' = published,
           \A v \in Workers : wk'[v] = wk[v] \/ wk'[v] = Fresh
    PROVE  OutboxInv' /\ Unsent(e)'
<1>1. /\ events[e] = "none" /\ events'[e] = "pending"
      /\ \A f \in Events \ {e} : events'[f] = events[f]
  BY DEF Runnable, IsFresh, TypeInv, TypeOK
<1>2. SentWasPublished' /\ FreshRows'
  BY <1>1 DEF OutboxInv, SentWasPublished, FreshRows
<1>3. ASSUME NEW v \in Workers PROVE AtHand(v)'
  <2>1. wk[v].claimed \subseteq Events /\ (wk[v].pc = "mark" => wk[v].at \in Events)
    BY IsBusy
  <2>2. CASE wk'[v] = Fresh
    BY <2>2 DEF AtHand, Fresh
  <2>3. CASE wk'[v] = wk[v]
    BY <1>1, <2>1, <2>3 DEF OutboxInv, AtHand
  <2> QED BY <2>2, <2>3
<1>4. Unsent(e)'
  BY <1>1 DEF OutboxInv, FreshRows, Unsent
<1> QED BY <1>2, <1>3, <1>4 DEF OutboxInv

LEMMA OutboxByCrash ==
    ASSUME TypeInv, OutboxInv, events' = events, published' = published,
           \A v \in Workers : wk'[v] = wk[v] \/ wk'[v] = Fresh
    PROVE  OutboxInv'
<1>1. SentWasPublished' /\ FreshRows'
  BY DEF OutboxInv, SentWasPublished, FreshRows
<1>2. ASSUME NEW v \in Workers PROVE AtHand(v)'
  BY DEF OutboxInv, AtHand, Fresh
<1> QED BY <1>1, <1>2 DEF OutboxInv

LEMMA OutboxByLapse ==
    ASSUME TypeInv, OutboxInv, NEW e \in Events, ClaimLapses(e) PROVE OutboxInv'
<1>1. /\ events[e] = "publishing" /\ events'[e] = "overdue"
      /\ \A f \in Events \ {e} : events'[f] = events[f]
      /\ wk' = wk /\ published' = published
  BY DEF ClaimLapses, TypeInv, TypeOK
<1>2. SentWasPublished' /\ FreshRows'
  BY <1>1 DEF OutboxInv, SentWasPublished, FreshRows
<1>3. ASSUME NEW v \in Workers PROVE AtHand(v)'
  BY <1>1, IsBusy DEF OutboxInv, AtHand
<1> QED BY <1>2, <1>3 DEF OutboxInv

LEMMA OutboxStep == TypeInv /\ OutboxInv /\ [Next]_vars => OutboxInv'
<1> SUFFICES ASSUME TypeInv, OutboxInv, [Next]_vars PROVE OutboxInv'
  OBVIOUS
<1>1. ASSUME NEW w \in Workers, WorkerStep(w) PROVE OutboxInv'
  BY <1>1, OutboxByDispatch, OutboxByPublish, OutboxByMark, OutboxElsewhere DEF WorkerStep
<1>2. ASSUME NEW w \in Workers, Crash(w) PROVE OutboxInv'
  BY <1>2, OutboxByCrash DEF Crash, TypeInv
<1>3. CASE Restart
  BY <1>3, OutboxByCrash, OutboxByInsertion DEF Restart
<1>4. CASE OwnerResumes
  BY <1>4, OutboxByInsertion DEF OwnerResumes
<1>5. CASE events' = events /\ published' = published /\ wk' = wk
  BY <1>5, OutboxByCrash
<1>6. CASE OwnerCancels \/ LeaseExpires \/ (\E m \in Messages : GoesIdle(m)) \/ UNCHANGED vars
  BY <1>5, <1>6 DEF OwnerCancels, LeaseExpires, GoesIdle, vars
<1> QED BY <1>1, <1>2, <1>3, <1>4, <1>6, OutboxByLapse DEF Next

\* No row of the outbox is marked sent before its message is in the stream, whichever
\* dispatchers crash, fail and overtake each other.
THEOREM NothingSentUnpublished == Spec => []SentWasPublished
<1>1. Init => OutboxInv
  BY DEF Init, OutboxInv, SentWasPublished, FreshRows, AtHand, Fresh
<1>2. OutboxInv => SentWasPublished
  BY DEF OutboxInv
<1> QED BY <1>1, <1>2, TypeInit, TypeNext, OutboxStep, PTL DEF Spec

-----------------------------------------------------------------------------
(* The stream and the carrier.                                               *)

\* One worker's step, by what it does to the messages in its hands.
LEMMA Hands ==
    ASSUME TypeInv, NEW w \in Workers,
           \/ Dispatch(w) \/ Publish(w) \/ Mark(w) \/ DispatchDone(w) \/ BatchDone(w)
           \/ Drive(w) \/ Release(w) \/ Ack(w)
    PROVE  /\ wk'[w].inbox = wk[w].inbox
           /\ wk'[w].msg = wk[w].msg \/ wk'[w].msg = 0
           /\ AboutToAck(wk'[w]) => task' # "runnable" \/ AboutToAck(wk[w])
           /\ \A v \in Workers \ {w} : wk'[v] = wk[v]
<1>1. wk[w] \in Worker
  BY IsBusy
<1>2. ASSUME NEW q, wk' = [wk EXCEPT ![w] = q]
      PROVE  wk'[w] = q /\ \A v \in Workers \ {w} : wk'[v] = wk[v]
  BY <1>2 DEF TypeInv
<1>3. CASE Dispatch(w)
  <2> DEFINE mine == {e \in Events : Claimable(e)}
             q == [wk[w] EXCEPT !.claimed = mine, !.pc = "publish"]
  <2>1. wk' = [wk EXCEPT ![w] = q]
    BY <1>3 DEF Dispatch
  <2>2. q.inbox = wk[w].inbox /\ q.msg = wk[w].msg /\ q.pc = "publish"
    BY <1>1 DEF Worker
  <2> HIDE DEF q
  <2> QED BY <1>2, <2>1, <2>2 DEF AboutToAck
<1>4. CASE Publish(w)
  <2>1. PICK e \in wk[w].claimed, ok \in BOOLEAN, added \in BOOLEAN :
            wk' = [wk EXCEPT ![w].claimed = @ \ {e}, ![w].at = e, ![w].ok = ok, ![w].pc = "mark"]
    BY <1>4 DEF Publish
  <2> DEFINE q == [wk[w] EXCEPT !.claimed = @ \ {e}, !.at = e, !.ok = ok, !.pc = "mark"]
  <2>2. q.inbox = wk[w].inbox /\ q.msg = wk[w].msg /\ q.pc = "mark"
    BY <1>1 DEF Worker
  <2> HIDE DEF q
  <2>3. wk' = [wk EXCEPT ![w] = q]
    BY <2>1 DEF q
  <2> QED BY <1>2, <2>2, <2>3 DEF AboutToAck
<1>5. CASE Mark(w)
  <2> DEFINE q == [wk[w] EXCEPT !.at = 0, !.ok = TRUE, !.pc = "publish"]
  <2>1. wk' = [wk EXCEPT ![w] = q]
    BY <1>5 DEF Mark
  <2>2. q.inbox = wk[w].inbox /\ q.msg = wk[w].msg /\ q.pc = "publish"
    BY <1>1 DEF Worker
  <2> HIDE DEF q
  <2> QED BY <1>2, <2>1, <2>2 DEF AboutToAck
<1>6. CASE DispatchDone(w) \/ BatchDone(w)
  <2>1. PICK l \in {"poll", "dispatch"} : wk' = [wk EXCEPT ![w] = [wk[w] EXCEPT !.pc = l]]
    BY <1>6 DEF DispatchDone, BatchDone
  <2> DEFINE q == [wk[w] EXCEPT !.pc = l]
  <2>2. q.inbox = wk[w].inbox /\ q.msg = wk[w].msg /\ q.pc = l
    BY <1>1 DEF Worker
  <2> HIDE DEF q
  <2>3. wk' = [wk EXCEPT ![w] = q]
    BY <2>1 DEF q
  <2> QED BY <1>2, <2>2, <2>3 DEF AboutToAck
<1>7. CASE Drive(w)
  <2> DEFINE a == [wk[w] EXCEPT !.pc = "release"]
             b == [wk[w] EXCEPT !.ok = FALSE, !.pc = "release"]
  <2>1. (wk' = [wk EXCEPT ![w] = a] /\ task' # "runnable") \/ wk' = [wk EXCEPT ![w] = b]
    BY <1>7 DEF Drive
  <2>2. /\ a.inbox = wk[w].inbox /\ a.msg = wk[w].msg
        /\ b.inbox = wk[w].inbox /\ b.msg = wk[w].msg /\ b.pc = "release" /\ b.ok = FALSE
    BY <1>1 DEF Worker
  <2> HIDE DEF a, b
  <2>3. ~ AboutToAck(b)
    BY <2>2 DEF AboutToAck
  <2> QED BY <1>2, <2>1, <2>2, <2>3
<1>8. CASE Release(w)
  <2> DEFINE a == [wk[w] EXCEPT !.pc = "ack"]
             b == [wk[w] EXCEPT !.ok = TRUE, !.msg = 0, !.pc = "handle"]
  <2>1. /\ wk' = [wk EXCEPT ![w] = a] \/ wk' = [wk EXCEPT ![w] = b]
        /\ wk' = [wk EXCEPT ![w] = b] \/ AboutToAck(wk[w])
    BY <1>8 DEF Release, Acknowledges, AboutToAck
  <2>2. /\ a.inbox = wk[w].inbox /\ a.msg = wk[w].msg
        /\ b.inbox = wk[w].inbox /\ b.msg = 0 /\ b.pc = "handle"
    BY <1>1 DEF Worker
  <2> HIDE DEF a, b
  <2>3. ~ AboutToAck(b)
    BY <2>2 DEF AboutToAck
  <2> QED BY <1>2, <1>8, <2>1, <2>2, <2>3
<1>9. CASE Ack(w)
  <2> DEFINE q == [wk[w] EXCEPT !.msg = 0, !.ok = TRUE, !.pc = "handle"]
  <2>1. wk' = [wk EXCEPT ![w] = q]
    BY <1>9 DEF Ack
  <2>2. q.inbox = wk[w].inbox /\ q.msg = 0 /\ q.pc = "handle"
    BY <1>1 DEF Worker
  <2> HIDE DEF q
  <2> QED BY <1>2, <2>1, <2>2 DEF AboutToAck
<1> QED BY <1>3, <1>4, <1>5, <1>6, <1>7, <1>8, <1>9

\* An entry of the stream is never unwritten.
LEMMA Written ==
    ASSUME TypeInv, [Next]_vars
    PROVE  \A m \in Messages : stream[m] # "none" => stream'[m] # "none"
<1>1. ASSUME NEW w \in Workers, Publish(w) \/ Poll(w) \/ Ack(w)
      PROVE  \A m \in Messages : stream[m] # "none" => stream'[m] # "none"
  BY <1>1 DEF Publish, Poll, Ack, TypeInv, TypeOK
<1>2. ASSUME NEW m \in Messages, GoesIdle(m)
      PROVE  \A n \in Messages : stream[n] # "none" => stream'[n] # "none"
  BY <1>2 DEF GoesIdle, TypeInv, TypeOK
<1>3. (\E w \in Workers : Publish(w) \/ Poll(w) \/ Ack(w)) \/ (\E m \in Messages : GoesIdle(m))
      \/ stream' = stream
  BY DEF Next, WorkerStep, Dispatch, Mark, DispatchDone, BatchDone, Handle, Drive, Release,
     Crash, ClaimLapses, OwnerResumes, OwnerCancels, Restart, LeaseExpires, vars
<1> QED BY <1>1, <1>2, <1>3

LEMMA StreamByPoll ==
    ASSUME TypeInv, NEW w \in Workers, Poll(w)
    PROVE  /\ \A m \in wk'[w].inbox : m \in Messages /\ stream'[m] = "pending"
           /\ wk'[w].msg = wk[w].msg /\ wk'[w].pc = "handle"
           /\ \A v \in Workers \ {w} : wk'[v] = wk[v]
           /\ \A m \in Messages : stream'[m] = stream[m] \/ stream'[m] = "pending"
           /\ \A m \in Messages : stream'[m] = stream[m] \/ stream[m] \in {"new", "idle"}
<1> DEFINE batch == {m \in Messages : Delivered(m)}
           q == [wk[w] EXCEPT !.inbox = batch, !.pc = "handle"]
<1>1. wk' = [wk EXCEPT ![w] = q] /\ stream' = [m \in Messages |-> IF m \in batch THEN "pending" ELSE stream[m]]
  BY DEF Poll
<1>2. q.inbox = batch /\ q.msg = wk[w].msg /\ q.pc = "handle"
  BY IsBusy DEF Worker
<1> HIDE DEF q
<1>3. wk'[w] = q /\ \A v \in Workers \ {w} : wk'[v] = wk[v]
  BY <1>1 DEF TypeInv
<1>4. \A m \in batch : m \in Messages /\ stream'[m] = "pending"
  BY <1>1
<1>5. \A m \in Messages : stream'[m] = stream[m] \/ (stream'[m] = "pending" /\ stream[m] \in {"new", "idle"})
  BY <1>1 DEF Delivered
<1> HIDE DEF batch
<1> QED BY <1>2, <1>3, <1>4, <1>5

LEMMA HandleHands ==
    ASSUME TypeInv, NEW w \in Workers, Handle(w)
    PROVE  \E m \in wk[w].inbox :
              /\ wk'[w].inbox \subseteq wk[w].inbox /\ wk'[w].msg = m
              /\ \A v \in Workers \ {w} : wk'[v] = wk[v]
              /\ stream' = stream
              /\ AboutToAck(wk'[w]) => turnedAway' \/ task' # "runnable"
<1>1. PICK m \in wk[w].inbox, l \in {"drive", "ack"} :
          /\ wk' = [wk EXCEPT ![w].inbox = @ \ {m}, ![w].msg = m, ![w].pc = l]
          /\ l = "ack" => turnedAway' = (turnedAway \/ task = "runnable")
  BY DEF Handle
<1> DEFINE q == [wk[w] EXCEPT !.inbox = @ \ {m}, !.msg = m, !.pc = l]
<1>2. wk' = [wk EXCEPT ![w] = q]
  BY <1>1
<1>3. q.inbox \subseteq wk[w].inbox /\ q.msg = m /\ q.pc = l
  BY IsBusy DEF Worker
<1> HIDE DEF q
<1>4. wk'[w] = q /\ \A v \in Workers \ {w} : wk'[v] = wk[v]
  BY <1>2 DEF TypeInv
<1>5. AboutToAck(wk'[w]) => turnedAway' \/ task' # "runnable"
  BY <1>1, <1>3, <1>4 DEF AboutToAck, Handle
<1> QED BY <1>3, <1>4, <1>5 DEF Handle

\* A message a worker holds is in the stream.
LEMMA StreamStep == TypeInv /\ StreamInv /\ [Next]_vars => StreamInv'
<1> SUFFICES ASSUME TypeInv, StreamInv, [Next]_vars PROVE StreamInv'
  OBVIOUS
<1>1. ASSUME NEW v \in Workers, wk'[v].inbox \subseteq wk[v].inbox,
             wk'[v].msg \in wk[v].inbox \cup {wk[v].msg, 0}
      PROVE  InHands(v)'
  <2>1. wk[v].inbox \subseteq Messages /\ 0 \notin Messages
    BY IsBusy DEF Messages
  <2>2. \A m \in Messages : m \in wk[v].inbox \/ m = wk[v].msg => stream'[m] # "none"
    BY Written DEF StreamInv, InHands
  <2> QED BY <1>1, <2>1, <2>2 DEF InHands
<1>2. ASSUME NEW v \in Workers, wk'[v] = wk[v] \/ wk'[v] = Fresh PROVE InHands(v)'
  BY <1>1, <1>2 DEF Fresh
<1>3. ASSUME NEW w \in Workers, WorkerStep(w), NEW v \in Workers PROVE InHands(v)'
  <2>1. CASE Poll(w)
    <3>1. CASE v = w
      BY <2>1, <3>1, StreamByPoll, Written DEF StreamInv, InHands
    <3>2. CASE v # w
      BY <1>2, <2>1, <3>2, StreamByPoll
    <3> QED BY <3>1, <3>2
  <2>2. CASE Handle(w)
    BY <1>1, <1>2, <2>2, HandleHands
  <2>3. CASE \/ Dispatch(w) \/ Publish(w) \/ Mark(w) \/ DispatchDone(w) \/ BatchDone(w)
             \/ Drive(w) \/ Release(w) \/ Ack(w)
    BY <1>1, <1>2, <2>3, Hands
  <2> QED BY <1>3, <2>1, <2>2, <2>3 DEF WorkerStep
<1>4. ASSUME NEW w \in Workers, Crash(w), NEW v \in Workers PROVE InHands(v)'
  BY <1>2, <1>4 DEF Crash, TypeInv
<1>5. ASSUME Restart, NEW v \in Workers PROVE InHands(v)'
  BY <1>2, <1>5 DEF Restart
<1>6. ASSUME wk' = wk, NEW v \in Workers PROVE InHands(v)'
  BY <1>2, <1>6
<1> QED BY <1>3, <1>4, <1>5, <1>6 DEF StreamInv, Next, ClaimLapses, GoesIdle, OwnerResumes,
           OwnerCancels, LeaseExpires, vars

LEMMA KeepsCarrier ==
    ASSUME CarrierInv,
           task' = "runnable" /\ ~ turnedAway' => task = "runnable" /\ ~ turnedAway,
           \A e \in Events : Unsent(e) => Unsent(e)' \/ \E m \in Messages : Undone(m)',
           \A m \in Messages : Undone(m) => Undone(m)'
    PROVE  CarrierInv'
BY DEF CarrierInv

\* The steps of a worker that drop no message and leave the outbox alone.
LEMMA CarrierByHands ==
    ASSUME TypeInv, NEW w \in Workers,
           \/ Dispatch(w) \/ Publish(w) \/ Mark(w) \/ DispatchDone(w) \/ BatchDone(w)
           \/ Drive(w) \/ Release(w),
           task' = "runnable", NEW m \in Messages, Undone(m)
    PROVE  Undone(m)'
<1>1. stream'[m] \in {"new", "pending", "idle"}
  <2>1. stream'[m] = stream[m]
    BY DEF Dispatch, Publish, Mark, DispatchDone, BatchDone, Drive, Release, IsFresh,
       Undone, TypeInv, TypeOK
  <2> QED BY <2>1 DEF Undone
<1>2. ASSUME NEW v \in Workers, wk'[v].msg = m PROVE ~ AboutToAck(wk'[v])
  <2>1. m # 0
    BY DEF Messages
  <2> QED BY <1>2, <2>1, Hands DEF Undone
<1> QED BY <1>1, <1>2 DEF Undone

LEMMA CarrierByPublish ==
    ASSUME TypeInv, OutboxInv, StreamInv, CarrierInv, NEW w \in Workers, Publish(w)
    PROVE  CarrierInv'
<1>1. PICK e \in wk[w].claimed, added \in BOOLEAN :
          IF added
          THEN /\ \E m \in Messages :
                     /\ IsFresh(stream, m, "none")
                     /\ stream' = [stream EXCEPT ![m] = "new"]
               /\ published' = published \cup {e}
          ELSE UNCHANGED <<stream, published>>
  BY DEF Publish
<1>2. events' = events /\ task' = task /\ turnedAway' = turnedAway
  BY DEF Publish
<1>3. ASSUME task' = "runnable", NEW f \in Events, Unsent(f)
      PROVE  Unsent(f)' \/ \E m \in Messages : Undone(m)'
  <2>1. CASE added
    <3>1. PICK m \in Messages : stream[m] = "none" /\ stream' = [stream EXCEPT ![m] = "new"]
      BY <1>1, <2>1 DEF IsFresh
    <3>2. stream'[m] = "new"
      BY <3>1 DEF TypeInv, TypeOK
    <3>3. ASSUME NEW v \in Workers PROVE wk'[v].msg # m
      <4>1. wk[v].msg # m /\ m # 0
        BY <3>1 DEF StreamInv, InHands, Messages
      <4> QED BY <4>1, Hands
    <3> QED BY <3>2, <3>3 DEF Undone
  <2>2. CASE ~ added
    BY <1>1, <1>2, <1>3, <2>2 DEF Unsent
  <2> QED BY <2>1, <2>2
<1>4. CASE task' = "runnable"
  BY <1>2, <1>3, <1>4, CarrierByHands, KeepsCarrier
<1>5. CASE task' # "runnable"
  BY <1>5 DEF CarrierInv
<1> QED BY <1>4, <1>5

LEMMA CarrierByOutbox ==
    ASSUME TypeInv, OutboxInv, CarrierInv, NEW w \in Workers, Dispatch(w) \/ Mark(w)
    PROVE  CarrierInv'
<1>1. published' = published /\ task' = task /\ turnedAway' = turnedAway
  BY DEF Dispatch, Mark
<1>2. ASSUME NEW f \in Events, Unsent(f) PROVE Unsent(f)'
  <2>1. CASE Dispatch(w)
    BY <1>1, <1>2, <2>1 DEF Dispatch, Unsent
  <2>2. CASE Mark(w)
    <3>1. wk[w].at \in Events /\ (wk[w].ok => wk[w].at \in published)
      BY <2>2, IsBusy DEF Mark, OutboxInv, AtHand
    <3>2. events'[f] = events[f] \/ (f = wk[w].at /\ ~ wk[w].ok /\ events'[f] = "pending")
      BY <1>2, <2>2, <3>1 DEF Mark, StatusAfter, Unsent, TypeInv, TypeOK
    <3> QED BY <1>1, <1>2, <3>2 DEF Unsent
  <2> QED BY <2>1, <2>2
<1>3. CASE task' = "runnable"
  BY <1>1, <1>2, <1>3, CarrierByHands, KeepsCarrier
<1>4. CASE task' # "runnable"
  BY <1>4 DEF CarrierInv
<1> QED BY <1>3, <1>4

LEMMA CarrierByDriver ==
    ASSUME TypeInv, CarrierInv, NEW w \in Workers,
           DispatchDone(w) \/ BatchDone(w) \/ Drive(w) \/ Release(w)
    PROVE  CarrierInv'
<1>1. /\ events' = events /\ published' = published /\ turnedAway' = turnedAway
      /\ task' = "runnable" => task = "runnable"
  BY DEF DispatchDone, BatchDone, Drive, Release
<1>2. ASSUME NEW f \in Events, Unsent(f) PROVE Unsent(f)'
  BY <1>1, <1>2 DEF Unsent
<1>3. CASE task' = "runnable"
  BY <1>1, <1>2, <1>3, CarrierByHands, KeepsCarrier
<1>4. CASE task' # "runnable"
  BY <1>4 DEF CarrierInv
<1> QED BY <1>3, <1>4

LEMMA CarrierByReader ==
    ASSUME TypeInv, CarrierInv, NEW w \in Workers, Poll(w) \/ Handle(w) \/ Ack(w)
    PROVE  CarrierInv'
<1>1. /\ events' = events /\ published' = published /\ task' = task
      /\ turnedAway => turnedAway'
  <2>1. turnedAway' = turnedAway \/ turnedAway' = (turnedAway \/ task = "runnable")
    BY Zenon DEF Poll, Handle, Ack
  <2>2. turnedAway => turnedAway'
    BY <2>1, Zenon
  <2> QED BY <2>2 DEF Poll, Handle, Ack
<1>2. ASSUME NEW f \in Events, Unsent(f) PROVE Unsent(f)'
  BY <1>1, <1>2 DEF Unsent
<1>3. ASSUME task' = "runnable", ~ turnedAway', NEW m \in Messages, Undone(m) PROVE Undone(m)'
  <2>1. CASE Poll(w)
    <3>1. stream'[m] \in {"new", "pending", "idle"}
      BY <1>3, <2>1, StreamByPoll DEF Undone
    <3>2. ASSUME NEW v \in Workers, wk'[v].msg = m PROVE ~ AboutToAck(wk'[v])
      BY <1>3, <2>1, <3>2, StreamByPoll DEF Undone, AboutToAck
    <3> QED BY <3>1, <3>2 DEF Undone
  <2>2. CASE Handle(w)
    BY <1>3, <2>2, HandleHands DEF Undone
  <2>3. CASE Ack(w)
    <3>1. wk[w].msg # m
      BY <1>3, <2>3 DEF Ack, Undone, AboutToAck
    <3>2. stream'[m] \in {"new", "pending", "idle"}
      BY <1>3, <2>3, <3>1 DEF Ack, Undone, TypeInv, TypeOK
    <3>3. ASSUME NEW v \in Workers, wk'[v].msg = m PROVE ~ AboutToAck(wk'[v])
      <4>1. m # 0
        BY DEF Messages
      <4> QED BY <1>3, <2>3, <3>3, <4>1, Hands DEF Undone
    <3> QED BY <3>2, <3>3 DEF Undone
  <2> QED BY <2>1, <2>2, <2>3
<1>4. CASE task' = "runnable" /\ ~ turnedAway'
  BY <1>1, <1>2, <1>3, <1>4, KeepsCarrier
<1> QED BY <1>4 DEF CarrierInv

LEMMA CarrierByInsertion ==
    ASSUME TypeInv, OutboxInv, NEW e \in Events, Runnable(e), published' = published,
           \A v \in Workers : wk'[v] = wk[v] \/ wk'[v] = Fresh
    PROVE  CarrierInv'
BY OutboxByInsertion DEF CarrierInv

\* What happens outside the workers, and what stops them, acknowledges nothing.
LEMMA CarrierByWorld ==
    ASSUME TypeInv, CarrierInv, published' = published, turnedAway' = turnedAway,
           task' = "runnable" => task = "runnable",
           \A v \in Workers : wk'[v] = wk[v] \/ wk'[v] = Fresh,
           \A f \in Events : events'[f] = events[f] \/ events'[f] = "overdue",
           \A m \in Messages : stream'[m] = stream[m] \/ stream'[m] = "idle"
    PROVE  CarrierInv'
<1>1. ASSUME NEW f \in Events, Unsent(f) PROVE Unsent(f)'
  BY <1>1 DEF Unsent
<1>2. ASSUME NEW m \in Messages, Undone(m) PROVE Undone(m)'
  BY <1>2 DEF Undone, AboutToAck, Fresh
<1> QED BY <1>1, <1>2, KeepsCarrier

LEMMA CarrierStep ==
    TypeInv /\ OutboxInv /\ StreamInv /\ CarrierInv /\ [Next]_vars => CarrierInv'
<1> SUFFICES ASSUME TypeInv, OutboxInv, StreamInv, CarrierInv, [Next]_vars PROVE CarrierInv'
  OBVIOUS
<1>1. ASSUME NEW w \in Workers, WorkerStep(w) PROVE CarrierInv'
  BY <1>1, CarrierByPublish, CarrierByOutbox, CarrierByDriver, CarrierByReader DEF WorkerStep
<1>2. ASSUME NEW w \in Workers, Crash(w) PROVE CarrierInv'
  BY <1>2, CarrierByWorld DEF Crash, TypeInv
<1>3. CASE Restart
  <2>1. CASE \E e \in Events : Runnable(e)
    BY <1>3, <2>1, CarrierByInsertion DEF Restart
  <2>2. CASE UNCHANGED events
    BY <1>3, <2>2, CarrierByWorld DEF Restart, TypeInv
  <2> QED BY <1>3, <2>1, <2>2 DEF Restart
<1>4. CASE OwnerResumes
  BY <1>4, CarrierByInsertion DEF OwnerResumes
<1>5. ASSUME NEW e \in Events, ClaimLapses(e) PROVE CarrierInv'
  BY <1>5, CarrierByWorld DEF ClaimLapses, TypeInv, TypeOK
<1>6. ASSUME NEW m \in Messages, GoesIdle(m) PROVE CarrierInv'
  BY <1>6, CarrierByWorld DEF GoesIdle, TypeInv, TypeOK
<1>7. CASE OwnerCancels \/ LeaseExpires \/ UNCHANGED vars
  BY <1>7, CarrierByWorld DEF OwnerCancels, LeaseExpires, vars
<1> QED BY <1>1, <1>2, <1>3, <1>4, <1>5, <1>6, <1>7 DEF Next

\* A runnable Task always has something left that will lead a worker to it, whatever
\* crashes and fails, until the lease turns a worker away.
THEOREM WakeupsCarried == Spec => []CarriedUnlessTurnedAway
<1>1. Init => StreamInv /\ OutboxInv
  BY DEF Init, StreamInv, InHands, Fresh, Messages, OutboxInv, SentWasPublished, FreshRows, AtHand
<1>2. Init => CarrierInv
  <2> SUFFICES ASSUME Init PROVE Unsent(1) /\ 1 \in Events
    BY DEF CarrierInv
  <2> QED BY BoundsAssumption DEF Init, Unsent, Events
<1>3. CarrierInv => CarriedUnlessTurnedAway
  BY DEF CarrierInv, CarriedUnlessTurnedAway, Carried, Carrier, Unsent, Undone
<1> QED BY <1>1, <1>2, <1>3, TypeInit, TypeNext, OutboxStep, StreamStep, CarrierStep, PTL DEF Spec

=============================================================================
