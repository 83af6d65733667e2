---------------------------- MODULE RagJob_proofs ----------------------------
(* Theorems about RagJob, for every number of worker processes, of retries    *)
(* and of faults.                                                             *)
EXTENDS RagJob, TLAPS

-----------------------------------------------------------------------------
(* Types.  Sound says what the place of a thread in its lane implies. *)

IndexSteps == {"embed", "indexing", "bulk", "indexed", "verify"}
Sound(lane, r) ==
    /\ r.pc \in {"begin", "call", "fail"} => lane \in {"parse", "index"}
    /\ r.pc \in IndexSteps => lane = "index"
    /\ r.pc \in {"add", "read", "settle"} => lane \in Lanes
    /\ r.pc = "settle" /\ lane = "parse" => r.result # "ready"
    /\ r.pc = "settle" /\ lane = "index" => r.result # "parsed"
    /\ r.pc # "idle" /\ lane \in Lanes => r.epoch # 0
    /\ lane \notin Lanes => r.epoch = 0
TypeInv == TypeOK /\ \A t \in Threads : Sound(Lane(t), th[t])

LEMMA LaneType == \A t \in Threads : Lane(t) \in Lanes \cup {"callback"}
BY DEF Threads, Lane

LEMMA RestType == Rest \in Thread /\ \A l : Sound(l, Rest)
BY DEF Rest, Thread, Sound, IndexSteps, News, Verdicts

LEMMA IsThread ==
    ASSUME TypeInv, NEW t \in Threads
    PROVE  /\ th[t] \in Thread /\ Sound(Lane(t), th[t])
           /\ Lane(t) \in Lanes \cup {"callback"}
           /\ th[t].epoch \in Nat /\ th[t].retry \in Nat
BY LaneType DEF TypeInv, TypeOK, Thread

\* Replacing one thread by a sound one.
LEMMA Replaced ==
    ASSUME TypeInv, NEW t \in Threads, NEW q \in Thread, Sound(Lane(t), q), th' = [th EXCEPT ![t] = q]
    PROVE  /\ th' \in [Threads -> Thread]
           /\ \A u \in Threads : Sound(Lane(u), th'[u])
<1>1. th \in [Threads -> Thread] /\ \A u \in Threads : Sound(Lane(u), th[u])
  BY DEF TypeInv, TypeOK
<1>2. th' \in [Threads -> Thread]
  BY <1>1
<1>3. ASSUME NEW u \in Threads PROVE Sound(Lane(u), th'[u])
  <2>1. CASE u = t
    BY <1>1, <2>1
  <2>2. CASE u # t
    <3>1. th'[u] = th[u]
      BY <1>1, <2>2
    <3> QED BY <1>1, <3>1
  <2> QED BY <2>1, <2>2
<1> QED BY <1>2, <1>3

\* A thread that leaves, that moves on, or that raises.
LEMMA Left ==
    ASSUME TypeInv, NEW t \in Threads, Leave(t)
    PROVE  th' \in [Threads -> Thread] /\ \A u \in Threads : Sound(Lane(u), th'[u])
BY RestType, Replaced DEF Leave

LEMMA Moved ==
    ASSUME TypeInv, NEW t \in Threads, NEW pc \in {"read", "send", "begin", "call"} \cup IndexSteps,
           Goto(t, pc), Sound(Lane(t), [th[t] EXCEPT !.pc = pc])
    PROVE  th' \in [Threads -> Thread] /\ \A u \in Threads : Sound(Lane(u), th'[u])
<1> DEFINE q == [th[t] EXCEPT !.pc = pc]
<1>1. q \in Thread
  BY IsThread DEF Thread, IndexSteps
<1>2. th' = [th EXCEPT ![t] = q]
  BY DEF Goto
<1> QED BY <1>1, <1>2, Replaced

LEMMA Raised ==
    ASSUME TypeInv, NEW t \in Threads, NEW again \in BOOLEAN, Raise(t, again),
           Lane(t) \in {"parse", "index"}, th[t].pc # "idle"
    PROVE  th' \in [Threads -> Thread] /\ \A u \in Threads : Sound(Lane(u), th'[u])
<1> DEFINE q == [th[t] EXCEPT !.pc = "fail", !.again = again]
<1>1. q \in Thread
  BY IsThread DEF Thread
<1>2. th' = [th EXCEPT ![t] = q]
  BY DEF Raise
<1>3. Sound(Lane(t), q)
  <2>1. q.pc = "fail" /\ q.epoch = th[t].epoch
    BY IsThread DEF Thread
  <2> QED BY <2>1, IsThread DEF Sound, IndexSteps, Lanes
<1> QED BY <1>1, <1>2, <1>3, Replaced

LEMMA FaultType == ASSUME TypeInv, Fault \/ faults' = faults PROVE faults' \in 0..MaxFaults
BY FaultsAssumption DEF TypeInv, TypeOK, Fault

LEMMA TypeInit == Init => TypeInv
<1> SUFFICES ASSUME Init PROVE TypeInv
  OBVIOUS
<1>1. th \in [Threads -> Thread] /\ \A t \in Threads : Sound(Lane(t), th[t])
  BY RestType DEF Init
<1>2. job \in Job /\ proj \in Proj
  BY DEF Init, Job, Proj, Verdicts
<1>3. outbox \in [News -> {"none", "pending", "published", "failed"}]
  BY DEF Init
<1>4. faults \in 0..MaxFaults
  BY FaultsAssumption DEF Init
<1> QED BY <1>1, <1>2, <1>3, <1>4 DEF Init, TypeInv, TypeOK

LEMMA TypeClaim == ASSUME TypeInv, NEW t \in Threads, Claim(t) PROVE TypeInv'
<1> DEFINE q == [Rest EXCEPT !.pc = "add", !.epoch = job.epoch + 1, !.retry = job.retry,
                             !.parse = job.parse, !.beat = TRUE]
<1>1. job.epoch + 1 \in Nat /\ job.epoch + 1 # 0 /\ job.retry \in Nat
      /\ job.parse \in {"pending", "parsed", "metadata_only", "failed"}
  BY DEF TypeInv, TypeOK, Job
<1>2. q \in Thread /\ q.pc = "add" /\ q.epoch = job.epoch + 1
  BY <1>1 DEF Rest, Thread, News, Verdicts
<1>3. Sound(Lane(t), q)
  BY <1>1, <1>2 DEF Claim, Sound, IndexSteps
<1>4. th' = [th EXCEPT ![t] = q]
  BY DEF Claim
<1>5. job' \in Job
  BY <1>1 DEF Claim, TypeInv, TypeOK, Job
<1> QED BY <1>2, <1>3, <1>4, <1>5, Replaced DEF Claim, TypeInv, TypeOK

LEMMA TypeBegin == ASSUME TypeInv, NEW t \in Threads, Begin(t) PROVE TypeInv'
<1>1. job' \in Job
  BY DEF Begin, TypeInv, TypeOK, Job
<1>2. th' \in [Threads -> Thread] /\ \A u \in Threads : Sound(Lane(u), th'[u])
  <2>1. CASE Leave(t)
    BY <2>1, Left
  <2>2. CASE Goto(t, "call")
    <3>1. Sound(Lane(t), [th[t] EXCEPT !.pc = "call"])
      BY IsThread DEF Begin, Sound, IndexSteps, Thread
    <3> QED BY <2>2, <3>1, Moved
  <2> QED BY <2>1, <2>2 DEF Begin
<1> QED BY <1>1, <1>2 DEF Begin, TypeInv, TypeOK

LEMMA ReleasedType ==
    ASSUME TypeInv, NEW status \in Verdicts \cup {"processing", "retry_wait"},
           NEW stage \in {"fetch", "index", "memory", "callback"}
    PROVE  Released(status, stage) \in Job
BY DEF Released, TypeInv, TypeOK, Job, Verdicts

LEMMA TypeSettle == ASSUME TypeInv, NEW t \in Threads, Settle(t) PROVE TypeInv'
<1>0. th[t] \in Thread /\ Sound(Lane(t), th[t]) /\ th[t].pc = "settle"
  BY IsThread DEF Settle
<1>1. Settled(t) \in Job
  <2>1. CASE Lane(t) = "parse"
    <3>1. th[t].result \in {"parsed", "metadata_only"}
      BY <1>0, <2>1 DEF Sound, Thread
    <3>2. Released("processing", "index") \in Job
      BY ReleasedType
    <3>3. Settled(t) = [Released("processing", "index") EXCEPT !.parse = th[t].result]
      BY <2>1 DEF Settled
    <3> QED BY <3>1, <3>2, <3>3 DEF Job
  <2>2. CASE Lane(t) = "index"
    BY <2>2, ReleasedType DEF Settled, Verdicts
  <2>3. CASE Lane(t) \notin {"parse", "index"}
    <3>1. Settled(t) = Released("ready", "callback")
      BY <2>3 DEF Settled
    <3> QED BY <3>1, ReleasedType DEF Verdicts
  <2> QED BY <2>1, <2>2, <2>3
<1>2. job' \in Job
  BY <1>1 DEF Settle, TypeInv, TypeOK
<1>3. th' \in [Threads -> Thread] /\ \A u \in Threads : Sound(Lane(u), th'[u])
  <2>1. CASE Leave(t)
    BY <2>1, Left
  <2>2. CASE Reports(t) /\ th' = [th EXCEPT ![t].pc = "add", ![t].news = th[t].result]
    <3> DEFINE q == [th[t] EXCEPT !.pc = "add", !.news = th[t].result]
    <3>1. th[t].result \in {"ready", "metadata_only"} /\ Lane(t) = "index"
      BY <1>0, <2>2 DEF Sound, Thread, Reports
    <3>2. q \in Thread
      BY <1>0, <3>1 DEF Thread, News, Verdicts
    <3>3. q.pc = "add" /\ q.epoch = th[t].epoch
      BY <1>0 DEF Thread
    <3>4. Sound(Lane(t), q)
      BY <1>0, <3>1, <3>3 DEF Sound, IndexSteps, Lanes
    <3>5. th' = [th EXCEPT ![t] = q]
      BY <2>2
    <3> QED BY <3>2, <3>4, <3>5, Replaced
  <2> QED BY <2>1, <2>2 DEF Settle
<1> QED BY <1>2, <1>3 DEF Settle, TypeInv, TypeOK

LEMMA TypeRetryOrFail == ASSUME TypeInv, NEW t \in Threads, RetryOrFail(t) PROVE TypeInv'
<1>0. th[t] \in Thread /\ Sound(Lane(t), th[t]) /\ th[t].pc = "fail" /\ th[t].retry + 1 \in Nat
  BY IsThread DEF RetryOrFail
<1>1. job' \in Job
  <2> DEFINE to == IF Terminal(t) THEN Released("failed", "callback")
                   ELSE Released("retry_wait", IF Lane(t) = "parse" THEN "fetch" ELSE "index")
  <2>1. to \in Job
    BY ReleasedType DEF Verdicts
  <2>2. [to EXCEPT !.retry = th[t].retry + 1,
                   !.parse = IF Lane(t) = "parse" THEN "failed" ELSE @] \in Job
    <3> HIDE DEF to
    <3> QED BY <1>0, <2>1 DEF Job
  <2> QED BY <2>2 DEF RetryOrFail, TypeInv, TypeOK
<1>2. th' \in [Threads -> Thread] /\ \A u \in Threads : Sound(Lane(u), th'[u])
  <2>1. CASE Leave(t)
    BY <2>1, Left
  <2>2. CASE th' = [th EXCEPT ![t].pc = "add", ![t].news = "failed"]
    <3> DEFINE q == [th[t] EXCEPT !.pc = "add", !.news = "failed"]
    <3>1. q \in Thread
      BY <1>0 DEF Thread, News, Verdicts
    <3>2. q.pc = "add" /\ q.epoch = th[t].epoch
      BY <1>0 DEF Thread
    <3>3. Sound(Lane(t), q)
      BY <1>0, <3>2 DEF Sound, IndexSteps, Lanes
    <3>4. th' = [th EXCEPT ![t] = q]
      BY <2>2
    <3> QED BY <3>1, <3>3, <3>4, Replaced
  <2> QED BY <2>1, <2>2 DEF RetryOrFail
<1> QED BY <1>1, <1>2 DEF RetryOrFail, TypeInv, TypeOK

\* The result of a lane's work.
LEMMA Finished ==
    ASSUME TypeInv, NEW t \in Threads, th[t].pc # "idle",
           NEW result \in {"parsed", "metadata_only", "ready"},
           \/ Lane(t) = "parse" /\ result # "ready"
           \/ Lane(t) = "index" /\ result # "parsed",
           th' = [th EXCEPT ![t].result = result, ![t].pc = "settle"]
    PROVE  th' \in [Threads -> Thread] /\ \A u \in Threads : Sound(Lane(u), th'[u])
<1> DEFINE q == [th[t] EXCEPT !.result = result, !.pc = "settle"]
<1>1. q \in Thread /\ q.pc = "settle" /\ q.result = result /\ q.epoch = th[t].epoch
  BY IsThread DEF Thread
<1>2. Sound(Lane(t), q)
  BY <1>1, IsThread DEF Sound, IndexSteps, Lanes
<1>3. th' = [th EXCEPT ![t] = q]
  OBVIOUS
<1> QED BY <1>1, <1>2, <1>3, Replaced

LEMMA TypeParse == ASSUME TypeInv, NEW t \in Threads, Parse(t) PROVE TypeInv'
<1>1. th' \in [Threads -> Thread] /\ \A u \in Threads : Sound(Lane(u), th'[u])
  BY Finished, Raised DEF Parse
<1> QED BY <1>1 DEF Parse, TypeInv, TypeOK

\* A thread of the index lane moves to one of its steps.
LEMMA Stepped ==
    ASSUME TypeInv, NEW t \in Threads, Lane(t) = "index", th[t].pc # "idle",
           NEW pc \in IndexSteps, Goto(t, pc)
    PROVE  th' \in [Threads -> Thread] /\ \A u \in Threads : Sound(Lane(u), th'[u])
<1> DEFINE q == [th[t] EXCEPT !.pc = pc]
<1>1. q.pc = pc /\ q.epoch = th[t].epoch
  BY IsThread DEF Thread
<1>2. Sound(Lane(t), q)
  BY <1>1, IsThread DEF Sound, IndexSteps, Lanes
<1> QED BY <1>2, Moved

LEMMA MarkedFailure ==
    ASSUME TypeInv, NEW t \in Threads, Lane(t) = "index", th[t].pc # "idle", MarkFailure(t)
    PROVE  /\ proj' \in Proj
           /\ th' \in [Threads -> Thread] /\ \A u \in Threads : Sound(Lane(u), th'[u])
<1>1. proj \in Proj /\ proj.retry + 1 \in Nat
  BY DEF TypeInv, TypeOK, Proj
<1>2. proj' \in Proj
  <2>1. \/ proj' = proj
        \/ \E status \in {"retry_wait", "failed"} : proj' = [status |-> status, retry |-> proj.retry + 1]
    BY DEF MarkFailure
  <2>2. \A status \in {"retry_wait", "failed"} : [status |-> status, retry |-> proj.retry + 1] \in Proj
    BY <1>1 DEF Proj
  <2> QED BY <1>1, <2>1, <2>2
<1>3. (proj.retry + 1 < IndexMaxRetries) \in BOOLEAN
  OBVIOUS
<1>4. \E again \in BOOLEAN : Raise(t, again)
  BY <1>3 DEF MarkFailure
<1> QED BY <1>2, <1>4, Raised

LEMMA Projected ==
    ASSUME TypeInv, NEW t \in Threads, Lane(t) = "index", th[t].pc # "idle",
           NEW status \in {"indexing", "ready"}, NEW pc \in IndexSteps, Project(t, status, pc)
    PROVE  /\ proj' \in Proj
           /\ th' \in [Threads -> Thread] /\ \A u \in Threads : Sound(Lane(u), th'[u])
<1>1. proj \in Proj
  BY DEF TypeInv, TypeOK
<1>2. proj' \in Proj
  BY <1>1 DEF Project, Proj
<1> QED BY <1>2, Raised, Stepped DEF Project

LEMMA TypeListChunks == ASSUME TypeInv, NEW t \in Threads, ListChunks(t) PROVE TypeInv'
<1>1. proj' \in Proj
  BY DEF ListChunks, TypeInv, TypeOK, Proj
<1>2. th' \in [Threads -> Thread] /\ \A u \in Threads : Sound(Lane(u), th'[u])
  <2>1. CASE th' = [th EXCEPT ![t].result = "metadata_only", ![t].pc = "settle"]
    BY <2>1, Finished DEF ListChunks
  <2>2. CASE Raise(t, FALSE)
    BY <2>2, Raised DEF ListChunks
  <2>3. CASE \E pc \in {"embed", "verify"} : Goto(t, pc)
    BY <2>3, Stepped DEF ListChunks, IndexSteps
  <2> QED BY <2>1, <2>2, <2>3 DEF ListChunks
<1> QED BY <1>1, <1>2 DEF ListChunks, TypeInv, TypeOK

LEMMA InIndexLane == ASSUME TypeInv, NEW t \in Threads, th[t].pc \in IndexSteps
                     PROVE  Lane(t) = "index" /\ th[t].pc # "idle"
BY IsThread DEF Sound, IndexSteps

LEMMA TypeEmbed == ASSUME TypeInv, NEW t \in Threads, Embed(t) PROVE TypeInv'
<1>1. Lane(t) = "index" /\ th[t].pc # "idle"
  BY InIndexLane DEF Embed, IndexSteps
<1>2. CASE Goto(t, "indexing") /\ chunks' = "ready" /\ UNCHANGED <<proj, errors>>
  <2>1. th' \in [Threads -> Thread] /\ \A u \in Threads : Sound(Lane(u), th'[u])
    BY <1>1, <1>2, Stepped DEF IndexSteps
  <2> QED BY <1>2, <2>1 DEF Embed, TypeInv, TypeOK
<1>3. CASE MarkFailure(t) /\ errors' = TRUE /\ UNCHANGED chunks
  BY <1>1, <1>3, MarkedFailure DEF Embed, TypeInv, TypeOK
<1> QED BY <1>2, <1>3 DEF Embed

LEMMA TypeMarkIndexing == ASSUME TypeInv, NEW t \in Threads, MarkIndexing(t) PROVE TypeInv'
<1>1. Lane(t) = "index" /\ th[t].pc # "idle"
  BY InIndexLane DEF MarkIndexing, IndexSteps
<1>2. proj' \in Proj /\ th' \in [Threads -> Thread] /\ \A u \in Threads : Sound(Lane(u), th'[u])
  BY <1>1, Projected DEF MarkIndexing, IndexSteps
<1> QED BY <1>2 DEF MarkIndexing, TypeInv, TypeOK

LEMMA TypeIndexChunks == ASSUME TypeInv, NEW t \in Threads, IndexChunks(t) PROVE TypeInv'
<1>1. Lane(t) = "index" /\ th[t].pc # "idle"
  BY InIndexLane DEF IndexChunks, IndexSteps
<1>2. CASE es' = TRUE /\ Goto(t, "indexed") /\ UNCHANGED <<proj, errors>>
  <2>1. th' \in [Threads -> Thread] /\ \A u \in Threads : Sound(Lane(u), th'[u])
    BY <1>1, <1>2, Stepped DEF IndexSteps
  <2> QED BY <1>2, <2>1 DEF IndexChunks, TypeInv, TypeOK
<1>3. CASE MarkFailure(t) /\ errors' = TRUE /\ es' \in {es, TRUE}
  BY <1>1, <1>3, MarkedFailure DEF IndexChunks, TypeInv, TypeOK
<1> QED BY <1>2, <1>3 DEF IndexChunks

LEMMA TypeMarkReady == ASSUME TypeInv, NEW t \in Threads, MarkReady(t) PROVE TypeInv'
<1>1. Lane(t) = "index" /\ th[t].pc # "idle"
  BY InIndexLane DEF MarkReady, IndexSteps
<1>2. proj' \in Proj /\ th' \in [Threads -> Thread] /\ \A u \in Threads : Sound(Lane(u), th'[u])
  BY <1>1, Projected DEF MarkReady, IndexSteps
<1> QED BY <1>2 DEF MarkReady, TypeInv, TypeOK

LEMMA TypeVerify == ASSUME TypeInv, NEW t \in Threads, Verify(t) PROVE TypeInv'
<1>1. Lane(t) = "index" /\ th[t].pc # "idle"
  BY InIndexLane DEF Verify, IndexSteps
<1>2. th' \in [Threads -> Thread] /\ \A u \in Threads : Sound(Lane(u), th'[u])
  <2>1. (proj.status # "failed") \in BOOLEAN
    OBVIOUS
  <2> QED BY <1>1, <2>1, Finished, Raised DEF Verify
<1> QED BY <1>2 DEF Verify, TypeInv, TypeOK

LEMMA TypeAdd == ASSUME TypeInv, NEW t \in Threads, AddOutboxEvent(t) PROVE TypeInv'
<1>0. th[t] \in Thread /\ Sound(Lane(t), th[t]) /\ th[t].pc = "add" /\ th[t].news \in News
  BY IsThread DEF AddOutboxEvent, Thread
<1>1. outbox' \in [News -> {"none", "pending", "published", "failed"}]
  BY <1>0 DEF AddOutboxEvent, TypeInv, TypeOK
<1>2. th' \in [Threads -> Thread] /\ \A u \in Threads : Sound(Lane(u), th'[u])
  <2> DEFINE q == [th[t] EXCEPT !.pc = "read"]
  <2>1. q.pc = "read" /\ q.epoch = th[t].epoch
    BY <1>0 DEF Thread
  <2>2. Sound(Lane(t), q)
    BY <1>0, <2>1 DEF Sound, IndexSteps
  <2> QED BY <2>2, Moved DEF AddOutboxEvent
<1> QED BY <1>1, <1>2 DEF AddOutboxEvent, TypeInv, TypeOK, rows

LEMMA TypeFlush == ASSUME TypeInv, NEW t \in Threads, Flush(t) PROVE TypeInv'
<1>0. th[t] \in Thread /\ Sound(Lane(t), th[t])
  BY IsThread
<1>1. PICK due \in SUBSET News : th' = [th EXCEPT ![t].todo = due, ![t].pc = "send"]
  BY DEF Flush
<1> DEFINE q == [th[t] EXCEPT !.todo = due, !.pc = "send"]
<1>2. q \in Thread
  BY <1>0 DEF Thread
<1>3. q.pc = "send" /\ q.epoch = th[t].epoch
  BY <1>0 DEF Thread
<1>4. Sound(Lane(t), q)
  BY <1>0, <1>3 DEF Flush, Sound, IndexSteps, Lanes
<1>5. th' = [th EXCEPT ![t] = q]
  BY <1>1
<1>6. th' \in [Threads -> Thread] /\ \A u \in Threads : Sound(Lane(u), th'[u])
  BY <1>2, <1>4, <1>5, Replaced
<1> QED BY <1>6 DEF Flush, TypeInv, TypeOK, rows

LEMMA TypeSend == ASSUME TypeInv, NEW t \in Threads, Send(t) PROVE TypeInv'
<1>0. th[t] \in Thread /\ Sound(Lane(t), th[t]) /\ th[t].pc = "send"
  BY IsThread DEF Send
<1>1. PICK e \in th[t].todo, applied \in BOOLEAN, ok \in BOOLEAN :
        /\ Fault \/ faults' = faults
        /\ item' = IF applied THEN ApplyRAGResult(e) ELSE item
        /\ th' = [th EXCEPT ![t].todo = @ \ {e}, ![t].at = e, ![t].ok = ok, ![t].pc = "mark"]
  BY DEF Send
<1>2. e \in News
  BY <1>0 DEF Thread
<1> DEFINE q == [th[t] EXCEPT !.todo = @ \ {e}, !.at = e, !.ok = ok, !.pc = "mark"]
<1>3. q \in Thread
  BY <1>0, <1>2 DEF Thread
<1>4. q.pc = "mark" /\ q.epoch = th[t].epoch
  BY <1>0 DEF Thread
<1>5. Sound(Lane(t), q)
  BY <1>0, <1>4 DEF Sound, IndexSteps
<1>6. th' = [th EXCEPT ![t] = q]
  BY <1>1
<1>7. th' \in [Threads -> Thread] /\ \A u \in Threads : Sound(Lane(u), th'[u])
  BY <1>3, <1>5, <1>6, Replaced
<1>8. item' \in News \cup {"pending"}
  BY <1>1, <1>2 DEF ApplyRAGResult, TypeInv, TypeOK
<1>9. faults' \in 0..MaxFaults
  BY <1>1, FaultType
<1> QED BY <1>7, <1>8, <1>9 DEF Send, TypeInv, TypeOK, rows

LEMMA TypeMark == ASSUME TypeInv, NEW t \in Threads, Mark(t) PROVE TypeInv'
<1>0. th[t] \in Thread /\ Sound(Lane(t), th[t]) /\ th[t].pc = "mark" /\ th[t].at \in News
  BY IsThread DEF Mark, Thread
<1>1. outbox' \in [News -> {"none", "pending", "published", "failed"}]
  BY <1>0 DEF Mark, TypeInv, TypeOK
<1>2. th' \in [Threads -> Thread] /\ \A u \in Threads : Sound(Lane(u), th'[u])
  <2> DEFINE q == [th[t] EXCEPT !.pc = "send"]
  <2>1. q.pc = "send" /\ q.epoch = th[t].epoch
    BY <1>0 DEF Thread
  <2>2. Sound(Lane(t), q)
    BY <1>0, <2>1 DEF Sound, IndexSteps
  <2> QED BY <2>2, Moved DEF Mark
<1> QED BY <1>1, <1>2 DEF Mark, TypeInv, TypeOK, rows

LEMMA TypeFlushDone == ASSUME TypeInv, NEW t \in Threads, FlushDone(t) PROVE TypeInv'
<1>0. th[t] \in Thread /\ Sound(Lane(t), th[t]) /\ th[t].pc = "send"
  BY IsThread DEF FlushDone
<1>1. th' \in [Threads -> Thread] /\ \A u \in Threads : Sound(Lane(u), th'[u])
  <2>1. CASE Leave(t)
    BY <2>1, Left
  <2>2. CASE /\ Lane(t) # "callback"
             /\ th' = [th EXCEPT ![t].pc = IF Lane(t) = "memory" THEN "settle" ELSE "begin",
                                 ![t].at = "processing", ![t].ok = TRUE]
    <3> DEFINE q == [th[t] EXCEPT !.pc = IF Lane(t) = "memory" THEN "settle" ELSE "begin",
                                  !.at = "processing", !.ok = TRUE]
    <3>1. q \in Thread
      BY <1>0 DEF Thread, News
    <3>2. q.pc = (IF Lane(t) = "memory" THEN "settle" ELSE "begin") /\ q.epoch = th[t].epoch
      BY <1>0 DEF Thread
    <3>3. Lane(t) \in Lanes
      BY <2>2, LaneType
    <3>4. Sound(Lane(t), q)
      BY <1>0, <3>2, <3>3 DEF Sound, IndexSteps, Lanes
    <3>5. th' = [th EXCEPT ![t] = q]
      BY <2>2
    <3> QED BY <3>1, <3>4, <3>5, Replaced
  <2> QED BY <2>1, <2>2 DEF FlushDone
<1> QED BY <1>1 DEF FlushDone, TypeInv, TypeOK, rows

LEMMA TypeTrip == ASSUME TypeInv, NEW t \in Threads, Trip(t) PROVE TypeInv'
<1>1. th' \in [Threads -> Thread] /\ \A u \in Threads : Sound(Lane(u), th'[u])
  BY Raised DEF Trip
<1>2. faults' \in 0..MaxFaults
  BY FaultType DEF Trip
<1> QED BY <1>1, <1>2 DEF Trip, TypeInv, TypeOK, rows

LEMMA TypeAbort == ASSUME TypeInv, NEW t \in Threads, Abort(t) PROVE TypeInv'
<1>1. th' \in [Threads -> Thread] /\ \A u \in Threads : Sound(Lane(u), th'[u])
  BY Left DEF Abort
<1>2. faults' \in 0..MaxFaults
  BY FaultType DEF Abort
<1>3. cut' \in BOOLEAN
  BY DEF Abort, Unreported, TypeInv, TypeOK
<1> QED BY <1>1, <1>2, <1>3 DEF Abort, TypeInv, TypeOK, rows

LEMMA TypeCrash == ASSUME TypeInv, NEW p \in Procs, Crash(p) PROVE TypeInv'
<1>1. th' \in [Threads -> Thread] /\ \A u \in Threads : Sound(Lane(u), th'[u])
  <2>1. ASSUME NEW u \in Threads
        PROVE  (IF u[1] = p THEN Rest ELSE th[u]) \in Thread
               /\ Sound(Lane(u), IF u[1] = p THEN Rest ELSE th[u])
    BY RestType, IsThread
  <2> QED BY <2>1 DEF Crash
<1>2. faults' \in 0..MaxFaults
  BY FaultType DEF Crash
<1>3. cut' \in BOOLEAN
  BY DEF Crash, TypeInv, TypeOK
<1> QED BY <1>1, <1>2, <1>3 DEF Crash, TypeInv, TypeOK, rows

LEMMA TypeHeartbeatDies == ASSUME TypeInv, NEW t \in Threads, HeartbeatDies(t) PROVE TypeInv'
<1> DEFINE q == [th[t] EXCEPT !.beat = FALSE]
<1>1. q \in Thread /\ q.pc = th[t].pc /\ q.epoch = th[t].epoch /\ q.result = th[t].result
  BY IsThread DEF Thread
<1>2. Sound(Lane(t), q)
  BY <1>1, IsThread DEF Sound
<1>3. th' = [th EXCEPT ![t] = q]
  BY DEF HeartbeatDies
<1>4. th' \in [Threads -> Thread] /\ \A u \in Threads : Sound(Lane(u), th'[u])
  BY <1>1, <1>2, <1>3, Replaced
<1>5. faults' \in 0..MaxFaults
  BY FaultType DEF HeartbeatDies
<1> QED BY <1>4, <1>5 DEF HeartbeatDies, TypeInv, TypeOK, rows

LEMMA TypeLeaseLapses == ASSUME TypeInv, LeaseLapses PROVE TypeInv'
<1>1. job' \in Job
  BY DEF LeaseLapses, TypeInv, TypeOK, Job
<1> QED BY <1>1 DEF LeaseLapses, TypeInv, TypeOK

LEMMA TypeStep == TypeInv /\ [Next]_vars => TypeInv'
<1> SUFFICES ASSUME TypeInv, [Next]_vars PROVE TypeInv'
  OBVIOUS
<1>1. CASE UNCHANGED vars
  BY <1>1 DEF vars, rows, TypeInv, TypeOK
<1>2. ASSUME NEW t \in Threads, Work(t) PROVE TypeInv'
  BY <1>2, TypeClaim, TypeBegin, TypeSettle, TypeRetryOrFail, TypeParse, TypeListChunks, TypeEmbed,
     TypeMarkIndexing, TypeIndexChunks, TypeMarkReady, TypeVerify, TypeAdd, TypeFlush, TypeSend,
     TypeMark, TypeFlushDone DEF Work
<1>3. ASSUME NEW t \in Threads, Trip(t) \/ Abort(t) \/ HeartbeatDies(t) PROVE TypeInv'
  BY <1>3, TypeTrip, TypeAbort, TypeHeartbeatDies
<1>4. ASSUME NEW p \in Procs, Crash(p) PROVE TypeInv'
  BY <1>4, TypeCrash
<1> QED BY <1>1, <1>2, <1>3, <1>4, TypeLeaseLapses DEF Next

\* Every reachable state of a job, of its threads and of the rows they write has the
\* types of the schema and of the lanes.
THEOREM RagTypes == Spec => []TypeOK
<1>1. TypeInv => TypeOK
  BY DEF TypeInv
<1> QED BY <1>1, TypeInit, TypeStep, PTL DEF Spec

-----------------------------------------------------------------------------
(* Safety of RagJob: leases, the verdict and its delivery, the search index.  *)

-----------------------------------------------------------------------------
(* Leases.  An epoch belongs to one thread, and the thread that still owns    *)
(* the row finds it in the stage of its lane.                                 *)

StageOf(lane) == CASE lane = "parse" -> "fetch" [] lane = "index" -> "index" [] OTHER -> "memory"
LeaseInv ==
    /\ job.owner \in {0, job.epoch}
    /\ \A t \in Threads : th[t].epoch <= job.epoch
    /\ \A t, u \in Threads : th[t].epoch = th[u].epoch /\ th[t].epoch # 0 => t = u
    /\ \A t \in Threads : Owns(t) /\ th[t].epoch # 0 =>
           job.status = "processing" /\ job.stage = StageOf(Lane(t))

LEMMA LeaseInit == Init => LeaseInv
BY DEF Init, LeaseInv, Rest

\* Steps that leave the row and take no new epoch.
LEMMA LeaseFrame ==
    ASSUME TypeInv, LeaseInv, UNCHANGED job, \A u \in Threads : th'[u].epoch \in {0, th[u].epoch}
    PROVE  LeaseInv'
<1>1. job.epoch \in Nat
  BY DEF TypeInv, TypeOK, Job
<1>2. \A u \in Threads : th[u].epoch \in Nat
  BY IsThread
<1> QED BY <1>1, <1>2 DEF LeaseInv, Owns

\* A thread that is not at the row.
Elsewhere(t) ==
    \/ Parse(t)
    \/ ListChunks(t) \/ Embed(t) \/ MarkIndexing(t) \/ IndexChunks(t) \/ MarkReady(t) \/ Verify(t)
    \/ AddOutboxEvent(t) \/ Flush(t) \/ Send(t) \/ Mark(t) \/ FlushDone(t)
    \/ Trip(t) \/ Abort(t) \/ HeartbeatDies(t)

\* What a step of thread t does to the threads: t itself becomes q.
LEMMA EpochKept ==
    ASSUME TypeInv, NEW t \in Threads, Elsewhere(t)
    PROVE  \A u \in Threads : th'[u].epoch \in {0, th[u].epoch}
<1>0. th \in [Threads -> Thread]
  BY DEF TypeInv, TypeOK
<1>1. CASE Leave(t)
  BY <1>0, <1>1 DEF Leave, Rest
<1>2. CASE \E pc : Goto(t, pc)
  BY <1>0, <1>2 DEF Goto, Thread
<1>3. CASE \E again : Raise(t, again)
  BY <1>0, <1>3 DEF Raise, Thread
<1>4. CASE \E pc, result : th' = [th EXCEPT ![t].result = result, ![t].pc = pc]
  BY <1>0, <1>4 DEF Thread
<1>5. CASE Flush(t)
  BY <1>0, <1>5 DEF Flush, Thread
<1>6. CASE Send(t)
  BY <1>0, <1>6 DEF Send, Thread
<1>7. CASE FlushDone(t)
  BY <1>0, <1>1, <1>7 DEF FlushDone, Thread
<1>8. CASE HeartbeatDies(t)
  BY <1>0, <1>8 DEF HeartbeatDies, Thread
<1>9. CASE Parse(t) \/ ListChunks(t) \/ Embed(t) \/ IndexChunks(t)
  BY <1>2, <1>3, <1>4, <1>9 DEF Parse, ListChunks, Embed, IndexChunks, MarkFailure
<1>10. CASE MarkIndexing(t) \/ MarkReady(t) \/ Verify(t)
  BY <1>2, <1>3, <1>4, <1>10 DEF MarkIndexing, MarkReady, Verify, Project
<1>11. CASE AddOutboxEvent(t) \/ Mark(t) \/ Trip(t) \/ Abort(t)
  BY <1>1, <1>2, <1>3, <1>11 DEF AddOutboxEvent, Mark, Trip, Abort
<1> QED BY <1>5, <1>6, <1>7, <1>8, <1>9, <1>10, <1>11 DEF Elsewhere

LEMMA RowLeftAlone == ASSUME NEW t \in Threads, Elsewhere(t) PROVE UNCHANGED job
BY DEF Elsewhere, Parse, ListChunks, Embed, MarkIndexing, IndexChunks, MarkReady, Verify,
       AddOutboxEvent, Flush, Send, Mark, FlushDone, Trip, Abort, HeartbeatDies, rows

LEMMA LeaseClaim == ASSUME TypeInv, LeaseInv, NEW t \in Threads, Claim(t) PROVE LeaseInv'
<1>0. job \in Job /\ job.epoch \in Nat /\ th \in [Threads -> Thread]
  BY DEF TypeInv, TypeOK, Job
<1>1. job'.owner = job.epoch + 1 /\ job'.epoch = job.epoch + 1 /\ job'.status = "processing"
      /\ job'.stage = IF job.stage = "null" THEN "fetch" ELSE job.stage
  BY <1>0 DEF Claim, Job
<1>2. th'[t].epoch = job.epoch + 1 /\ \A u \in Threads \ {t} : th'[u] = th[u]
  BY <1>0 DEF Claim, Rest
<1>3. \A u \in Threads : th[u].epoch \in Nat /\ th[u].epoch <= job.epoch
  BY IsThread DEF LeaseInv
<1>4. job'.stage = StageOf(Lane(t))
  BY <1>1 DEF Claim, Matches, StageOf
<1>5. \A u \in Threads : th'[u].epoch <= job'.epoch
  BY <1>0, <1>1, <1>2, <1>3
<1>6. \A u, w \in Threads : th'[u].epoch = th'[w].epoch /\ th'[u].epoch # 0 => u = w
  <2> SUFFICES ASSUME NEW u \in Threads, NEW w \in Threads, th'[u].epoch = th'[w].epoch,
                      th'[u].epoch # 0
               PROVE  u = w
    OBVIOUS
  <2>1. CASE u = t
    BY <1>0, <1>2, <1>3, <2>1
  <2>2. CASE u # t /\ w = t
    BY <1>0, <1>2, <1>3, <2>2
  <2>3. CASE u # t /\ w # t
    BY <1>2, <2>3 DEF LeaseInv
  <2> QED BY <2>1, <2>2, <2>3
<1>7. \A u \in Threads : Owns(u)' => u = t
  BY <1>0, <1>1, <1>2, <1>3 DEF Owns
<1> QED BY <1>1, <1>4, <1>5, <1>6, <1>7 DEF LeaseInv

LEMMA ReleasedFields ==
    ASSUME TypeInv, NEW status, NEW stage
    PROVE  LET r == Released(status, stage) IN
           r.status = status /\ r.stage = stage /\ r.owner = 0 /\ r.epoch = job.epoch
BY DEF Released, TypeInv, TypeOK, Job

\* The owner gives the row up.
LEMMA LeaseReleased ==
    ASSUME TypeInv, LeaseInv, job'.owner = 0, job'.epoch = job.epoch,
           \A u \in Threads : th'[u].epoch \in {0, th[u].epoch}
    PROVE  LeaseInv'
<1>1. job.epoch \in Nat /\ \A u \in Threads : th[u].epoch \in Nat
  BY IsThread DEF TypeInv, TypeOK, Job
<1> QED BY <1>1 DEF LeaseInv, Owns

LEMMA LeaseBegin == ASSUME TypeInv, LeaseInv, NEW t \in Threads, Begin(t) PROVE LeaseInv'
<1>0. job \in Job /\ th \in [Threads -> Thread]
  BY DEF TypeInv, TypeOK
<1>1. \A u \in Threads : th'[u].epoch \in {0, th[u].epoch}
  BY <1>0 DEF Begin, Goto, Leave, Rest, Thread
<1>2. CASE ~Owns(t)
  BY <1>1, <1>2, LeaseFrame DEF Begin
<1>3. CASE Owns(t)
  <2>1. Sound(Lane(t), th[t]) /\ th[t].pc = "begin"
    BY IsThread DEF Begin
  <2>2. th[t].epoch # 0 /\ Lane(t) \in {"parse", "index"}
    BY <2>1 DEF Sound, Lanes
  <2>3. job'.owner = job.owner /\ job'.epoch = job.epoch /\ job'.status = "processing"
        /\ job'.stage = StageOf(Lane(t))
    BY <1>0, <1>3, <2>2 DEF Begin, Job, StageOf
  <2>4. \A u \in Threads : th'[u].epoch <= job'.epoch
    BY <1>1, <2>3, IsThread DEF LeaseInv, TypeInv, TypeOK, Job
  <2>5. \A u, w \in Threads : th'[u].epoch = th'[w].epoch /\ th'[u].epoch # 0 => u = w
    BY <1>1 DEF LeaseInv
  <2>6. \A u \in Threads : Owns(u)' /\ th'[u].epoch # 0 => u = t
    BY <1>1, <1>3, <2>2, <2>3 DEF LeaseInv, Owns
  <2> QED BY <2>3, <2>4, <2>5, <2>6 DEF LeaseInv
<1> QED BY <1>2, <1>3

LEMMA LeaseSettle == ASSUME TypeInv, LeaseInv, NEW t \in Threads, Settle(t) PROVE LeaseInv'
<1>1. \A u \in Threads : th'[u].epoch \in {0, th[u].epoch}
  BY DEF Settle, Leave, Rest, Thread, TypeInv, TypeOK
<1>2. CASE ~Owns(t)
  BY <1>1, <1>2, LeaseFrame DEF Settle
<1>3. CASE Owns(t)
  <2>1. Settled(t).owner = 0 /\ Settled(t).epoch = job.epoch
    <3>1. [Released("processing", "index") EXCEPT !.parse = th[t].result].owner = 0
          /\ [Released("processing", "index") EXCEPT !.parse = th[t].result].epoch = job.epoch
      BY DEF Released, TypeInv, TypeOK, Job
    <3> QED BY <3>1, ReleasedFields DEF Settled
  <2> QED BY <1>1, <1>3, <2>1, LeaseReleased DEF Settle
<1> QED BY <1>2, <1>3

LEMMA LeaseRetryOrFail == ASSUME TypeInv, LeaseInv, NEW t \in Threads, RetryOrFail(t) PROVE LeaseInv'
<1>1. \A u \in Threads : th'[u].epoch \in {0, th[u].epoch}
  <2>1. th \in [Threads -> Thread]
    BY DEF TypeInv, TypeOK
  <2>2. CASE Leave(t)
    BY <2>1, <2>2 DEF Leave, Rest
  <2>3. CASE th' = [th EXCEPT ![t].pc = "add", ![t].news = "failed"]
    BY <2>1, <2>3 DEF Thread
  <2> QED BY <2>2, <2>3 DEF RetryOrFail
<1>2. CASE ~Owns(t)
  BY <1>1, <1>2, LeaseFrame DEF RetryOrFail
<1>3. CASE Owns(t)
  <2>1. job'.owner = 0 /\ job'.epoch = job.epoch
    BY <1>3 DEF RetryOrFail, Released, TypeInv, TypeOK, Job
  <2> QED BY <1>1, <2>1, LeaseReleased
<1> QED BY <1>2, <1>3

LEMMA LeaseStep == TypeInv /\ LeaseInv /\ [Next]_vars => LeaseInv'
<1> SUFFICES ASSUME TypeInv, LeaseInv, [Next]_vars PROVE LeaseInv'
  OBVIOUS
<1>1. CASE UNCHANGED vars
  BY <1>1, LeaseFrame DEF vars, rows
<1>2. ASSUME NEW t \in Threads, Elsewhere(t) PROVE LeaseInv'
  BY <1>2, EpochKept, RowLeftAlone, LeaseFrame
<1>3. ASSUME NEW p \in Procs, Crash(p) PROVE LeaseInv'
  <2>1. \A u \in Threads : th'[u].epoch \in {0, th[u].epoch}
    BY <1>3 DEF Crash, Rest
  <2> QED BY <1>3, <2>1, LeaseFrame DEF Crash, rows
<1>4. CASE LeaseLapses
  <2>1. job'.owner = job.owner /\ job'.epoch = job.epoch /\ job'.status = job.status
        /\ job'.stage = job.stage /\ th' = th
    BY <1>4 DEF LeaseLapses, TypeInv, TypeOK, Job
  <2> QED BY <2>1 DEF LeaseInv, Owns
<1> QED BY <1>1, <1>2, <1>3, <1>4, LeaseClaim, LeaseBegin, LeaseSettle, LeaseRetryOrFail
        DEF Next, Work, Elsewhere
-----------------------------------------------------------------------------
(* The verdict: decided once, by the owner. *)

LEMMA VerdictKept == ASSUME UNCHANGED job PROVE Verdict' = Verdict
BY DEF Verdict

LEMMA VerdictType == Verdict \in Verdicts \cup {"open"}
BY DEF Verdict, Verdicts

LEMMA VerdictClaim == ASSUME TypeInv, NEW t \in Threads, Claim(t) PROVE Verdict' = Verdict
<1>1. job'.status = "processing" /\ job'.stage = IF job.stage = "null" THEN "fetch" ELSE job.stage
  BY DEF Claim, TypeInv, TypeOK, Job
<1> QED BY <1>1 DEF Claim, Matches, Verdict

\* The owner of the row in the parse or the index lane has an open verdict.
LEMMA OwnerOpen ==
    ASSUME TypeInv, LeaseInv, NEW t \in Threads, Owns(t), th[t].pc # "idle", Lane(t) \in Lanes
    PROVE  /\ Lane(t) \in {"parse", "index"} => Verdict = "open"
           /\ Lane(t) = "memory" => Verdict = "ready"
<1>1. th[t].epoch # 0
  BY IsThread DEF Sound
<1>2. job.status = "processing" /\ job.stage = StageOf(Lane(t))
  BY <1>1 DEF LeaseInv
<1> QED BY <1>2 DEF Verdict, StageOf, Lanes

LEMMA VerdictBegin == ASSUME TypeInv, LeaseInv, NEW t \in Threads, Begin(t) PROVE Verdict' = Verdict
<1>1. CASE ~Owns(t)
  BY <1>1, VerdictKept DEF Begin
<1>2. CASE Owns(t)
  <2>1. Lane(t) \in {"parse", "index"} /\ th[t].pc = "begin"
    BY IsThread DEF Begin, Sound
  <2>2. Verdict = "open"
    BY <1>2, <2>1, OwnerOpen DEF Lanes
  <2>3. job'.status = "processing" /\ job'.stage \in {"fetch", "index"}
    BY <1>2 DEF Begin, TypeInv, TypeOK, Job
  <2> QED BY <2>2, <2>3 DEF Verdict
<1> QED BY <1>1, <1>2

\* What the closing update of a lane makes of the verdict.
LEMMA VerdictSettle ==
    ASSUME TypeInv, LeaseInv, NEW t \in Threads, Settle(t), Owns(t)
    PROVE  /\ Lane(t) \in {"parse", "memory"} => Verdict' = Verdict
           /\ Lane(t) = "index" => Verdict = "open" /\ Verdict' = th[t].result
<1>0. th[t].pc = "settle" /\ Lane(t) \in Lanes /\ job' = Settled(t)
      /\ (Lane(t) = "index" => th[t].result \in {"ready", "metadata_only"})
  BY IsThread DEF Settle, Sound, Thread
<1>1. CASE Lane(t) = "parse"
  <2>1. Verdict = "open"
    BY <1>0, <1>1, OwnerOpen
  <2>2. job'.status = "processing" /\ job'.stage = "index"
    <3>1. job' = [Released("processing", "index") EXCEPT !.parse = th[t].result]
      BY <1>0, <1>1 DEF Settled
    <3> QED BY <3>1 DEF Released, TypeInv, TypeOK, Job
  <2> QED BY <1>1, <2>1, <2>2 DEF Verdict
<1>2. CASE Lane(t) = "index"
  <2>1. Verdict = "open"
    BY <1>0, <1>2, OwnerOpen
  <2>2. IF th[t].result = "ready" THEN job'.status = "ready" /\ job'.stage = "memory"
        ELSE job'.status = "metadata_only" /\ job'.stage = "callback"
    BY <1>0, <1>2, ReleasedFields DEF Settled
  <2> QED BY <1>0, <1>2, <2>1, <2>2 DEF Verdict
<1>3. CASE Lane(t) = "memory"
  <2>1. Verdict = "ready"
    BY <1>0, <1>3, OwnerOpen
  <2>2. job'.status = "ready" /\ job'.stage = "callback"
    BY <1>0, <1>3, ReleasedFields DEF Settled
  <2> QED BY <1>3, <2>1, <2>2 DEF Verdict
<1> QED BY <1>0, <1>1, <1>2, <1>3 DEF Lanes

LEMMA VerdictRetryOrFail ==
    ASSUME TypeInv, LeaseInv, NEW t \in Threads, RetryOrFail(t), Owns(t)
    PROVE  Verdict = "open" /\ Verdict' = IF Terminal(t) THEN "failed" ELSE "open"
<1>1. th[t].pc = "fail" /\ Lane(t) \in {"parse", "index"}
  BY IsThread DEF RetryOrFail, Sound
<1>2. Verdict = "open"
  BY <1>1, OwnerOpen DEF Lanes
<1>3. IF Terminal(t) THEN job'.status = "failed"
      ELSE job'.status = "retry_wait" /\ job'.stage \in {"fetch", "index"}
  BY DEF RetryOrFail, Released, TypeInv, TypeOK, Job
<1> QED BY <1>2, <1>3 DEF Verdict

LEMMA VerdictLapse == ASSUME TypeInv, LeaseLapses PROVE Verdict' = Verdict
<1>1. job'.status = job.status /\ job'.stage = job.stage
  BY DEF LeaseLapses, TypeInv, TypeOK, Job
<1> QED BY <1>1 DEF Verdict

-----------------------------------------------------------------------------
(* Delivery: every row of the outbox, every row a flush holds and what the    *)
(* knowledge service shows are the verdict, or "processing".                  *)

DeliveryInv ==
    /\ \A t \in Threads : Unreported(t) => th[t].news = Verdict
    /\ OnlyTheVerdict
    /\ \A t \in Threads : \A e \in th[t].todo : outbox[e] # "none"
    /\ \A t \in Threads : th[t].pc = "mark" => outbox[th[t].at] # "none"
    /\ item \in Verdicts => outbox[item] # "none"
    /\ AnnouncedUnlessCut

LEMMA DeliveryInit == Init => DeliveryInv
<1> SUFFICES ASSUME Init PROVE DeliveryInv
  OBVIOUS
<1>1. Verdict = "open"
  BY DEF Init, Verdict
<1>2. \A e \in News : outbox[e] = "none"
  BY DEF Init
<1>3. \A t \in Threads : th[t] = Rest
  BY DEF Init
<1> QED BY <1>1, <1>2, <1>3
        DEF Init, DeliveryInv, OnlyTheVerdict, AnnouncedUnlessCut, Unreported, Rest, Verdicts, News

\* A step that takes nothing new to deliver to thread u.
Calm(u) ==
    /\ th'[u].todo \subseteq th[u].todo
    /\ th'[u].pc = "mark" => th[u].pc = "mark" /\ th'[u].at = th[u].at
    /\ Unreported(u)' => Unreported(u) /\ th'[u].news = th[u].news
    /\ Unreported(u) => Unreported(u)' \/ cut'

LEMMA DeliveryFrame ==
    ASSUME TypeInv, DeliveryInv, Verdict' = Verdict, UNCHANGED <<outbox, item>>,
           cut => cut', \A u \in Threads : Calm(u)
    PROVE  DeliveryInv'
<1>1. \A u \in Threads : Unreported(u)' => th'[u].news = Verdict'
  BY DEF DeliveryInv, Calm
<1>2. OnlyTheVerdict'
  BY DEF DeliveryInv, OnlyTheVerdict
<1>3. \A u \in Threads : \A e \in th'[u].todo : outbox'[e] # "none"
  BY DEF DeliveryInv, Calm
<1>4. \A u \in Threads : th'[u].pc = "mark" => outbox'[th'[u].at] # "none"
  BY DEF DeliveryInv, Calm
<1>5. AnnouncedUnlessCut'
  BY DEF DeliveryInv, Calm, AnnouncedUnlessCut
<1> QED BY <1>1, <1>2, <1>3, <1>4, <1>5 DEF DeliveryInv

\* One thread moves on, without news of a verdict.
LEMMA CalmMove ==
    ASSUME TypeInv, NEW t \in Threads, NEW q, th' = [th EXCEPT ![t] = q], q.todo \subseteq th[t].todo,
           q.pc # "mark", q.pc = "add" => q.news \notin Verdicts,
           Unreported(t) => cut'
    PROVE  \A u \in Threads : Calm(u)
<1>0. th \in [Threads -> Thread]
  BY DEF TypeInv, TypeOK
<1>1. Calm(t)
  BY <1>0 DEF Calm, Unreported
<1>2. ASSUME NEW u \in Threads \ {t} PROVE Calm(u)
  <2>1. th'[u] = th[u]
    BY <1>0
  <2> QED BY <2>1 DEF Calm, Unreported
<1> QED BY <1>1, <1>2

LEMMA CalmLeave ==
    ASSUME TypeInv, NEW t \in Threads, Leave(t), Unreported(t) => cut' PROVE \A u \in Threads : Calm(u)
<1>1. Rest.pc = "idle" /\ Rest.todo = {}
  BY DEF Rest
<1>2. th' = [th EXCEPT ![t] = Rest]
  BY DEF Leave
<1> QED BY <1>1, <1>2, CalmMove

LEMMA CalmGoto ==
    ASSUME TypeInv, NEW t \in Threads, NEW pc, pc \notin {"mark", "add"}, Goto(t, pc), th[t].pc # "add"
    PROVE  \A u \in Threads : Calm(u)
<1> DEFINE q == [th[t] EXCEPT !.pc = pc]
<1>1. q.pc = pc /\ q.todo = th[t].todo
  BY IsThread DEF Thread
<1>2. th' = [th EXCEPT ![t] = q]
  BY DEF Goto
<1> QED BY <1>1, <1>2, CalmMove DEF Unreported

LEMMA CalmRaise ==
    ASSUME TypeInv, NEW t \in Threads, NEW again, Raise(t, again), th[t].pc # "add"
    PROVE  \A u \in Threads : Calm(u)
<1> DEFINE q == [th[t] EXCEPT !.pc = "fail", !.again = again]
<1>1. q.pc = "fail" /\ q.todo = th[t].todo
  BY IsThread DEF Thread
<1>2. th' = [th EXCEPT ![t] = q]
  BY DEF Raise
<1> QED BY <1>1, <1>2, CalmMove DEF Unreported

LEMMA CalmFinish ==
    ASSUME TypeInv, NEW t \in Threads, NEW result, th[t].pc # "add",
           th' = [th EXCEPT ![t].result = result, ![t].pc = "settle"]
    PROVE  \A u \in Threads : Calm(u)
<1> DEFINE q == [th[t] EXCEPT !.result = result, !.pc = "settle"]
<1>1. q.pc = "settle" /\ q.todo = th[t].todo
  BY IsThread DEF Thread
<1>2. th' = [th EXCEPT ![t] = q]
  OBVIOUS
<1> QED BY <1>1, <1>2, CalmMove DEF Unreported
LEMMA CalmSteps ==
    ASSUME TypeInv, NEW t \in Threads,
           \/ Parse(t) \/ ListChunks(t) \/ Embed(t) \/ MarkIndexing(t) \/ IndexChunks(t)
           \/ MarkReady(t) \/ Verify(t) \/ Trip(t) \/ Abort(t) \/ Begin(t)
    PROVE  \A u \in Threads : Calm(u)
<1>1. CASE Parse(t)
  BY <1>1, CalmFinish, CalmRaise DEF Parse
<1>2. CASE ListChunks(t)
  BY <1>2, CalmFinish, CalmRaise, CalmGoto DEF ListChunks
<1>3. CASE Embed(t)
  BY <1>3, CalmRaise, CalmGoto DEF Embed, MarkFailure
<1>4. CASE MarkIndexing(t)
  BY <1>4, CalmRaise, CalmGoto DEF MarkIndexing, Project
<1>5. CASE IndexChunks(t)
  BY <1>5, CalmRaise, CalmGoto DEF IndexChunks, MarkFailure
<1>6. CASE MarkReady(t)
  BY <1>6, CalmRaise, CalmGoto DEF MarkReady, Project
<1>7. CASE Verify(t)
  BY <1>7, CalmFinish, CalmRaise DEF Verify
<1>8. CASE Trip(t)
  BY <1>8, CalmRaise DEF Trip
<1>9. CASE Abort(t)
  BY <1>9, CalmLeave DEF Abort
<1>10. CASE Begin(t)
  BY <1>10, CalmLeave, CalmGoto DEF Begin, Unreported
<1> QED BY <1>1, <1>2, <1>3, <1>4, <1>5, <1>6, <1>7, <1>8, <1>9, <1>10

LEMMA CalmFlushDone == ASSUME TypeInv, NEW t \in Threads, FlushDone(t) PROVE \A u \in Threads : Calm(u)
<1>1. CASE Leave(t)
  BY <1>1, CalmLeave DEF FlushDone, Unreported
<1>2. CASE th' = [th EXCEPT ![t].pc = IF Lane(t) = "memory" THEN "settle" ELSE "begin",
                            ![t].at = "processing", ![t].ok = TRUE]
  <2> DEFINE q == [th[t] EXCEPT !.pc = IF Lane(t) = "memory" THEN "settle" ELSE "begin",
                                !.at = "processing", !.ok = TRUE]
  <2>1. q.pc \in {"settle", "begin"} /\ q.todo = th[t].todo
    BY IsThread DEF Thread
  <2>2. th' = [th EXCEPT ![t] = q]
    BY <1>2
  <2> QED BY <2>1, <2>2, CalmMove DEF FlushDone, Unreported
<1> QED BY <1>1, <1>2 DEF FlushDone

LEMMA CalmHeartbeatDies ==
    ASSUME TypeInv, NEW t \in Threads, HeartbeatDies(t) PROVE \A u \in Threads : Calm(u)
<1>0. th \in [Threads -> Thread]
  BY DEF TypeInv, TypeOK
<1>1. ASSUME NEW u \in Threads
      PROVE  th'[u].pc = th[u].pc /\ th'[u].news = th[u].news /\ th'[u].at = th[u].at
             /\ th'[u].todo = th[u].todo
  BY <1>0 DEF HeartbeatDies, Thread
<1> QED BY <1>1 DEF Calm, Unreported

LEMMA CalmClaim == ASSUME TypeInv, NEW t \in Threads, Claim(t) PROVE \A u \in Threads : Calm(u)
<1> DEFINE q == [Rest EXCEPT !.pc = "add", !.epoch = job.epoch + 1, !.retry = job.retry,
                             !.parse = job.parse, !.beat = TRUE]
<1>1. q.pc = "add" /\ q.news = "processing" /\ q.todo = {}
  BY DEF Rest
<1>2. th' = [th EXCEPT ![t] = q]
  BY DEF Claim
<1>3. ~Unreported(t)
  BY DEF Claim, Unreported
<1> QED BY <1>1, <1>2, <1>3, CalmMove DEF Verdicts

LEMMA CalmCrash == ASSUME TypeInv, NEW p \in Procs, Crash(p) PROVE \A u \in Threads : Calm(u)
<1>1. ASSUME NEW u \in Threads, u[1] = p PROVE Calm(u)
  <2>1. th'[u] = Rest
    BY <1>1 DEF Crash
  <2>2. Rest.pc = "idle" /\ Rest.todo = {}
    BY DEF Rest
  <2>3. Unreported(u) => cut'
    BY <1>1 DEF Crash
  <2> QED BY <2>1, <2>2, <2>3 DEF Calm, Unreported
<1>2. ASSUME NEW u \in Threads, u[1] # p PROVE Calm(u)
  <2>1. th'[u] = th[u]
    BY <1>2 DEF Crash
  <2> QED BY <2>1 DEF Calm, Unreported
<1> QED BY <1>1, <1>2

\* Thread t has just decided and is about to add the verdict.
LEMMA Decided ==
    ASSUME TypeInv, DeliveryInv, NEW t \in Threads, Verdict = "open", Verdict' \in Verdicts,
           UNCHANGED <<outbox, item>>, th'[t].pc = "add", th'[t].news = Verdict',
           th'[t].todo = th[t].todo, \A u \in Threads \ {t} : th'[u] = th[u]
    PROVE  DeliveryInv'
<1>0. "open" \notin Verdicts
  BY DEF Verdicts
<1>1. \A u \in Threads : Unreported(u)' => th'[u].news = Verdict'
  BY <1>0 DEF DeliveryInv, Unreported
<1>2. OnlyTheVerdict'
  BY <1>0 DEF DeliveryInv, OnlyTheVerdict
<1>3. \A u \in Threads : \A e \in th'[u].todo : outbox'[e] # "none"
  BY DEF DeliveryInv
<1>4. \A u \in Threads : th'[u].pc = "mark" => outbox'[th'[u].at] # "none"
  BY DEF DeliveryInv
<1>5. AnnouncedUnlessCut'
  BY DEF AnnouncedUnlessCut, Unreported
<1> QED BY <1>1, <1>2, <1>3, <1>4, <1>5 DEF DeliveryInv

\* The lane that decides takes the news to the outbox next.
LEMMA DeliverySettle ==
    ASSUME TypeInv, LeaseInv, DeliveryInv, NEW t \in Threads, Settle(t) PROVE DeliveryInv'
<1>0. th \in [Threads -> Thread] /\ th[t].pc = "settle" /\ Lane(t) \in Lanes /\ UNCHANGED <<outbox, item, cut>>
      /\ (Lane(t) = "index" => th[t].result \in {"ready", "metadata_only"})
  BY IsThread DEF Settle, Sound, Thread, TypeInv, TypeOK
<1>1. CASE ~Owns(t)
  <2>1. \A u \in Threads : Calm(u)
    BY <1>0, <1>1, CalmLeave DEF Settle, Unreported
  <2>2. Verdict' = Verdict
    BY <1>1, VerdictKept DEF Settle
  <2> QED BY <1>0, <2>1, <2>2, DeliveryFrame
<1>2. CASE Owns(t) /\ Lane(t) # "index"
  <2>1. \A u \in Threads : Calm(u)
    BY <1>0, <1>2, CalmLeave DEF Settle, Reports, Unreported
  <2>2. Verdict' = Verdict
    BY <1>0, <1>2, VerdictSettle DEF Lanes
  <2> QED BY <1>0, <2>1, <2>2, DeliveryFrame
<1>3. CASE Owns(t) /\ Lane(t) = "index"
  <2>1. Verdict = "open" /\ Verdict' = th[t].result
    BY <1>3, VerdictSettle
  <2>2. th' = [th EXCEPT ![t].pc = "add", ![t].news = th[t].result]
    BY <1>3 DEF Settle, Reports
  <2>3. th'[t].pc = "add" /\ th'[t].news = th[t].result /\ th'[t].todo = th[t].todo
    BY <1>0, <2>2 DEF Thread
  <2>4. \A u \in Threads \ {t} : th'[u] = th[u]
    BY <1>0, <2>2
  <2> QED BY <1>0, <1>3, <2>1, <2>3, <2>4, Decided DEF Verdicts
<1> QED BY <1>1, <1>2, <1>3

LEMMA DeliveryRetryOrFail ==
    ASSUME TypeInv, LeaseInv, DeliveryInv, NEW t \in Threads, RetryOrFail(t) PROVE DeliveryInv'
<1>0. th \in [Threads -> Thread] /\ th[t].pc = "fail" /\ UNCHANGED <<outbox, item, cut>>
  BY DEF RetryOrFail, TypeInv, TypeOK
<1>1. CASE ~Owns(t)
  <2>1. \A u \in Threads : Calm(u)
    BY <1>0, <1>1, CalmLeave DEF RetryOrFail, Unreported
  <2>2. Verdict' = Verdict
    BY <1>1, VerdictKept DEF RetryOrFail
  <2> QED BY <1>0, <2>1, <2>2, DeliveryFrame
<1>2. CASE Owns(t) /\ ~Terminal(t)
  <2>1. Leave(t)
    BY <1>2 DEF RetryOrFail
  <2>2. \A u \in Threads : Calm(u)
    BY <1>0, <2>1, CalmLeave DEF Unreported
  <2>3. Verdict' = Verdict
    BY <1>2, VerdictRetryOrFail
  <2> QED BY <1>0, <2>2, <2>3, DeliveryFrame
<1>3. CASE Owns(t) /\ Terminal(t)
  <2>1. Verdict = "open" /\ Verdict' = "failed"
    BY <1>3, VerdictRetryOrFail
  <2> DEFINE q == [th[t] EXCEPT !.pc = "add", !.news = "failed"]
  <2>2. th' = [th EXCEPT ![t] = q]
    BY <1>3 DEF RetryOrFail
  <2>3. th'[t].pc = "add" /\ th'[t].news = "failed" /\ th'[t].todo = th[t].todo
    <3>1. q.pc = "add" /\ q.news = "failed" /\ q.todo = th[t].todo
      BY <1>0 DEF Thread
    <3>2. th'[t] = q
      BY <1>0, <2>2
    <3> QED BY <3>1, <3>2
  <2>4. \A u \in Threads \ {t} : th'[u] = th[u]
    BY <1>0, <2>2
  <2> QED BY <1>0, <1>3, <2>1, <2>3, <2>4, Decided DEF Verdicts
<1> QED BY <1>1, <1>2, <1>3
\* The row is added; the thread has it no longer to add.
LEMMA DeliveryAdd == ASSUME TypeInv, DeliveryInv, NEW t \in Threads, AddOutboxEvent(t) PROVE DeliveryInv'
<1>0. th \in [Threads -> Thread] /\ outbox \in [News -> {"none", "pending", "published", "failed"}]
      /\ th[t].pc = "add" /\ th[t].news \in News /\ UNCHANGED <<item, cut, job>>
  BY IsThread DEF TypeInv, TypeOK, AddOutboxEvent, Thread, rows
<1>1. outbox'[th[t].news] # "none" /\ \A e \in News \ {th[t].news} : outbox'[e] = outbox[e]
  BY <1>0 DEF AddOutboxEvent
<1>2. th'[t].pc = "read" /\ th'[t].todo = th[t].todo
  <2> DEFINE q == [th[t] EXCEPT !.pc = "read"]
  <2>1. q.pc = "read" /\ q.todo = th[t].todo
    BY <1>0 DEF Thread
  <2>2. th'[t] = q
    BY <1>0 DEF AddOutboxEvent, Goto
  <2> QED BY <2>1, <2>2
<1>3. \A u \in Threads \ {t} : th'[u] = th[u]
  BY <1>0 DEF AddOutboxEvent, Goto
<1>4. Verdict' = Verdict
  BY <1>0, VerdictKept
<1>5. \A e \in News : outbox[e] # "none" => outbox'[e] # "none"
  BY <1>1
<1>6. th[t].news \in Verdicts => th[t].news = Verdict
  BY <1>0 DEF DeliveryInv, Unreported
<1>7. \A u \in Threads : Unreported(u)' => th'[u].news = Verdict'
  BY <1>2, <1>3, <1>4 DEF DeliveryInv, Unreported
<1>8. OnlyTheVerdict'
  BY <1>1, <1>4, <1>6 DEF DeliveryInv, OnlyTheVerdict, News
<1>9. \A u \in Threads : \A e \in th'[u].todo : outbox'[e] # "none"
  BY <1>2, <1>3, <1>5, IsThread DEF DeliveryInv, Thread
<1>10. \A u \in Threads : th'[u].pc = "mark" => outbox'[th'[u].at] # "none"
  BY <1>2, <1>3, <1>5, IsThread DEF DeliveryInv, Thread
<1>11. item' \in Verdicts => outbox'[item'] # "none"
  BY <1>0, <1>5 DEF DeliveryInv, News
<1>12. AnnouncedUnlessCut'
  <2> SUFFICES ASSUME Verdict # "open", ~cut
               PROVE  outbox'[Verdict] # "none" \/ \E u \in Threads : Unreported(u)'
    BY <1>0, <1>4 DEF AnnouncedUnlessCut
  <2>1. CASE outbox[Verdict] # "none"
    BY <1>5, <2>1, VerdictType DEF News
  <2>2. CASE Unreported(t)
    BY <1>1, <1>6, <2>2 DEF Unreported
  <2>3. CASE \E u \in Threads \ {t} : Unreported(u)
    BY <1>3, <2>3 DEF Unreported
  <2> QED BY <2>1, <2>2, <2>3 DEF DeliveryInv, AnnouncedUnlessCut
<1> QED BY <1>7, <1>8, <1>9, <1>10, <1>11, <1>12 DEF DeliveryInv

\* A flush holds rows that exist, sends rows that exist, and marks them.
LEMMA Delivered ==
    ASSUME TypeInv, DeliveryInv, NEW t \in Threads, UNCHANGED <<job, cut>>,
           ~Unreported(t), ~Unreported(t)',
           \A u \in Threads \ {t} : th'[u] = th[u],
           \A e \in News : outbox[e] # "none" <=> outbox'[e] # "none",
           \A e \in th'[t].todo : outbox'[e] # "none",
           th'[t].pc = "mark" => outbox'[th'[t].at] # "none",
           item' \in Verdicts => outbox'[item'] # "none"
    PROVE  DeliveryInv'
<1>1. Verdict' = Verdict
  BY VerdictKept
<1>2. \A u \in Threads : Unreported(u)' => th'[u].news = Verdict'
  BY <1>1 DEF DeliveryInv, Unreported
<1>3. OnlyTheVerdict'
  BY <1>1 DEF DeliveryInv, OnlyTheVerdict, News
<1>4. \A u \in Threads : \A e \in th'[u].todo : outbox'[e] # "none"
  BY IsThread DEF DeliveryInv, Thread
<1>5. \A u \in Threads : th'[u].pc = "mark" => outbox'[th'[u].at] # "none"
  BY IsThread DEF DeliveryInv, Thread
<1>6. AnnouncedUnlessCut'
  <2> SUFFICES ASSUME Verdict # "open", ~cut
               PROVE  outbox'[Verdict] # "none" \/ \E u \in Threads : Unreported(u)'
    BY <1>1 DEF AnnouncedUnlessCut
  <2>1. CASE outbox[Verdict] # "none"
    BY <2>1, VerdictType DEF News
  <2>2. CASE \E u \in Threads \ {t} : Unreported(u)
    BY <2>2 DEF Unreported
  <2> QED BY <2>1, <2>2 DEF DeliveryInv, AnnouncedUnlessCut
<1> QED BY <1>2, <1>3, <1>4, <1>5, <1>6 DEF DeliveryInv

LEMMA DeliveryFlush == ASSUME TypeInv, DeliveryInv, NEW t \in Threads, Flush(t) PROVE DeliveryInv'
<1>0. th \in [Threads -> Thread] /\ th[t].pc \in {"read", "idle"} /\ UNCHANGED <<job, cut, outbox, item>>
  BY DEF TypeInv, TypeOK, Flush, rows
<1>1. PICK due \in SUBSET {e \in News : Deliverable(e)} :
        th' = [th EXCEPT ![t].todo = due, ![t].pc = "send"]
  BY DEF Flush
<1>2. th'[t].todo = due /\ th'[t].pc = "send" /\ \A u \in Threads \ {t} : th'[u] = th[u]
  <2> DEFINE q == [th[t] EXCEPT !.todo = due, !.pc = "send"]
  <2>1. q.todo = due /\ q.pc = "send"
    BY <1>0 DEF Thread
  <2>2. th' = [th EXCEPT ![t] = q]
    BY <1>1
  <2> HIDE DEF q
  <2> QED BY <1>0, <2>1, <2>2
<1>3. \A e \in due : outbox[e] # "none"
  BY DEF Deliverable
<1> QED BY <1>0, <1>2, <1>3, Delivered DEF DeliveryInv, Unreported

\* The knowledge service shows what it showed, or what was sent.
LEMMA DeliverySend == ASSUME TypeInv, DeliveryInv, NEW t \in Threads, Send(t) PROVE DeliveryInv'
<1>0. th \in [Threads -> Thread] /\ th[t].pc = "send" /\ UNCHANGED <<job, cut, outbox>>
  BY DEF TypeInv, TypeOK, Send, rows
<1>1. PICK e \in th[t].todo, applied \in BOOLEAN, ok \in BOOLEAN :
        /\ item' = IF applied THEN ApplyRAGResult(e) ELSE item
        /\ th' = [th EXCEPT ![t].todo = @ \ {e}, ![t].at = e, ![t].ok = ok, ![t].pc = "mark"]
  BY DEF Send
<1>2. th'[t].todo = th[t].todo \ {e} /\ th'[t].pc = "mark" /\ th'[t].at = e
      /\ \A u \in Threads \ {t} : th'[u] = th[u]
  <2> DEFINE q == [th[t] EXCEPT !.todo = @ \ {e}, !.at = e, !.ok = ok, !.pc = "mark"]
  <2>1. q.todo = th[t].todo \ {e} /\ q.pc = "mark" /\ q.at = e
    BY <1>0 DEF Thread
  <2>2. th' = [th EXCEPT ![t] = q]
    BY <1>1
  <2> HIDE DEF q
  <2> QED BY <1>0, <2>1, <2>2
<1>3. outbox[e] # "none" /\ \A f \in th[t].todo : outbox[f] # "none"
  BY DEF DeliveryInv
<1>4. item' \in {item, e}
  BY <1>1 DEF ApplyRAGResult
<1>5. item' \in Verdicts => outbox'[item'] # "none"
  BY <1>0, <1>3, <1>4 DEF DeliveryInv
<1> QED BY <1>0, <1>2, <1>3, <1>5, Delivered DEF Unreported

LEMMA DeliveryMark == ASSUME TypeInv, DeliveryInv, NEW t \in Threads, Mark(t) PROVE DeliveryInv'
<1>0. th \in [Threads -> Thread] /\ outbox \in [News -> {"none", "pending", "published", "failed"}]
      /\ th[t].pc = "mark" /\ th[t].at \in News /\ UNCHANGED <<job, cut, item>>
  BY IsThread DEF TypeInv, TypeOK, Mark, Thread, rows
<1>1. outbox[th[t].at] # "none"
  BY <1>0 DEF DeliveryInv
<1>2. \A e \in News : outbox[e] # "none" <=> outbox'[e] # "none"
  BY <1>0, <1>1 DEF Mark
<1>3. th'[t].pc = "send" /\ th'[t].todo = th[t].todo /\ \A u \in Threads \ {t} : th'[u] = th[u]
  <2> DEFINE q == [th[t] EXCEPT !.pc = "send"]
  <2>1. q.pc = "send" /\ q.todo = th[t].todo
    BY <1>0 DEF Thread
  <2>2. th' = [th EXCEPT ![t] = q]
    BY DEF Mark, Goto
  <2> HIDE DEF q
  <2> QED BY <1>0, <2>1, <2>2
<1>4. item \in Verdicts => outbox'[item] # "none"
  BY <1>2 DEF DeliveryInv, News
<1>5. \A e \in th'[t].todo : outbox'[e] # "none"
  BY <1>2, <1>3, IsThread DEF DeliveryInv, Thread
<1> QED BY <1>0, <1>2, <1>3, <1>4, <1>5, Delivered DEF Unreported

LEMMA DeliveryStep == TypeInv /\ LeaseInv /\ DeliveryInv /\ [Next]_vars => DeliveryInv'
<1> SUFFICES ASSUME TypeInv, LeaseInv, DeliveryInv, [Next]_vars PROVE DeliveryInv'
  OBVIOUS
<1>1. CASE UNCHANGED vars
  <2>1. \A u \in Threads : Calm(u)
    BY <1>1 DEF vars, Calm, Unreported
  <2> QED BY <1>1, <2>1, VerdictKept, DeliveryFrame DEF vars, rows
<1>2. ASSUME NEW t \in Threads,
             \/ Parse(t) \/ ListChunks(t) \/ Embed(t) \/ MarkIndexing(t) \/ IndexChunks(t)
             \/ MarkReady(t) \/ Verify(t) \/ Trip(t) \/ Abort(t) \/ FlushDone(t) \/ HeartbeatDies(t)
      PROVE  DeliveryInv'
  <2>1. \A u \in Threads : Calm(u)
    BY <1>2, CalmSteps, CalmFlushDone, CalmHeartbeatDies
  <2>2. UNCHANGED job
    BY <1>2, RowLeftAlone DEF Elsewhere
  <2>3. UNCHANGED <<outbox, item>> /\ (cut => cut')
    <3>1. CASE Abort(t)
      BY <3>1 DEF Abort
    <3>2. CASE ~Abort(t)
      <4>1. UNCHANGED <<outbox, item, cut>>
        BY <1>2, <3>2 DEF Parse, ListChunks, Embed, MarkIndexing, IndexChunks, MarkReady, Verify, Trip,
                          FlushDone, HeartbeatDies
      <4> QED BY <4>1
    <3> QED BY <3>1, <3>2
  <2> QED BY <2>1, <2>2, <2>3, VerdictKept, DeliveryFrame
<1>3. ASSUME NEW t \in Threads, Begin(t) \/ Claim(t) PROVE DeliveryInv'
  <2>1. UNCHANGED <<outbox, item, cut>>
    BY <1>3 DEF Begin, Claim
  <2> QED BY <1>3, <2>1, CalmSteps, CalmClaim, VerdictBegin, VerdictClaim, DeliveryFrame
<1>4. ASSUME NEW p \in Procs, Crash(p) PROVE DeliveryInv'
  <2>1. UNCHANGED <<outbox, item, job>> /\ (cut => cut')
    BY <1>4 DEF Crash, rows
  <2> QED BY <1>4, <2>1, CalmCrash, VerdictKept, DeliveryFrame
<1>5. CASE LeaseLapses
  <2>1. UNCHANGED <<outbox, item, cut, th>>
    BY <1>5 DEF LeaseLapses
  <2>2. \A u \in Threads : Calm(u)
    BY <2>1 DEF Calm, Unreported
  <2> QED BY <1>5, <2>1, <2>2, VerdictLapse, DeliveryFrame
<1> QED BY <1>1, <1>2, <1>3, <1>4, <1>5, DeliverySettle, DeliveryRetryOrFail, DeliveryAdd, DeliveryFlush,
           DeliverySend, DeliveryMark DEF Next, Work

SafetyInv == TypeInv /\ LeaseInv /\ DeliveryInv

LEMMA RagSafety == Spec => []SafetyInv
<1>1. Init => SafetyInv
  BY TypeInit, LeaseInit, DeliveryInit DEF SafetyInv
<1>2. SafetyInv /\ [Next]_vars => SafetyInv'
  BY TypeStep, LeaseStep, DeliveryStep DEF SafetyInv
<1> QED BY <1>1, <1>2, PTL DEF Spec

\* Whatever number of lanes worked on the job, with or without its lease, only its one
\* verdict is put into the outbox.
THEOREM OneVerdictReported == Spec => []OnlyTheVerdict
<1>1. SafetyInv => OnlyTheVerdict
  BY DEF SafetyInv, DeliveryInv
<1> QED BY <1>1, RagSafety, PTL

\* A verdict is in the outbox or about to be, unless its lane ended in between.
THEOREM VerdictAnnounced == Spec => []AnnouncedUnlessCut
<1>1. SafetyInv => AnnouncedUnlessCut
  BY DEF SafetyInv, DeliveryInv
<1> QED BY <1>1, RagSafety, PTL

-----------------------------------------------------------------------------
(* The job implements RagVerdict. *)

LEMMA ItemKept ==
    ASSUME [Next]_vars, \A t \in Threads : ~Send(t)
    PROVE  UNCHANGED item
<1>1. CASE UNCHANGED vars
  BY <1>1 DEF vars
<1>2. ASSUME NEW t \in Threads, Elsewhere(t), ~Send(t) PROVE UNCHANGED item
  BY <1>2 DEF Elsewhere, Parse, ListChunks, Embed, MarkIndexing, IndexChunks, MarkReady, Verify,
              AddOutboxEvent, Flush, Mark, FlushDone, Trip, Abort, HeartbeatDies
<1>3. ASSUME NEW t \in Threads, Claim(t) \/ Begin(t) \/ Settle(t) \/ RetryOrFail(t)
      PROVE  UNCHANGED item
  BY <1>3 DEF Claim, Begin, Settle, RetryOrFail
<1>4. ASSUME NEW p \in Procs, Crash(p) PROVE UNCHANGED item
  BY <1>4 DEF Crash
<1> QED BY <1>1, <1>2, <1>3, <1>4 DEF Next, Work, Elsewhere, LeaseLapses

\* The verdict is kept, or it is decided.
LEMMA VerdictStep ==
    ASSUME SafetyInv, [Next]_vars
    PROVE  Verdict' = Verdict \/ (Verdict = "open" /\ Verdict' \in Verdicts)
<1>0. TypeInv /\ LeaseInv
  BY DEF SafetyInv
<1>1. CASE UNCHANGED vars
  BY <1>1, VerdictKept DEF vars, rows
<1>2. ASSUME NEW t \in Threads, Elsewhere(t) PROVE Verdict' = Verdict
  BY <1>2, RowLeftAlone, VerdictKept
<1>3. ASSUME NEW t \in Threads, Claim(t) \/ Begin(t) PROVE Verdict' = Verdict
  BY <1>0, <1>3, VerdictClaim, VerdictBegin
<1>4. ASSUME NEW t \in Threads, Settle(t)
      PROVE  Verdict' = Verdict \/ (Verdict = "open" /\ Verdict' \in Verdicts)
  <2>1. CASE ~Owns(t)
    BY <1>4, <2>1, VerdictKept DEF Settle
  <2>2. CASE Owns(t)
    <3>1. Lane(t) \in Lanes /\ (Lane(t) = "index" => th[t].result \in {"ready", "metadata_only"})
      BY <1>0, <1>4, IsThread DEF Settle, Sound, Thread
    <3> QED BY <1>0, <1>4, <2>2, <3>1, VerdictSettle DEF Lanes, Verdicts
  <2> QED BY <2>1, <2>2
<1>5. ASSUME NEW t \in Threads, RetryOrFail(t)
      PROVE  Verdict' = Verdict \/ (Verdict = "open" /\ Verdict' \in Verdicts)
  <2>1. CASE ~Owns(t)
    BY <1>5, <2>1, VerdictKept DEF RetryOrFail
  <2>2. CASE Owns(t)
    BY <1>0, <1>5, <2>2, VerdictRetryOrFail DEF Verdicts
  <2> QED BY <2>1, <2>2
<1>6. ASSUME NEW p \in Procs, Crash(p) PROVE Verdict' = Verdict
  BY <1>6, VerdictKept DEF Crash, rows
<1>7. CASE LeaseLapses
  BY <1>0, <1>7, VerdictLapse
<1> QED BY <1>1, <1>2, <1>3, <1>4, <1>5, <1>6, <1>7 DEF Next, Work, Elsewhere

\* A callback applied shows the verdict, or "processing" before it, or nothing new.
LEMMA ShowsTheVerdict ==
    ASSUME SafetyInv, NEW t \in Threads, Send(t) PROVE [V!Next]_<<Verdict, item>>
<1>0. TypeInv /\ DeliveryInv
  BY DEF SafetyInv
<1>1. Verdict' = Verdict
  <2>1. UNCHANGED job
    BY DEF Send, rows
  <2> QED BY <2>1, VerdictKept
<1>2. PICK e \in th[t].todo : item' \in {item, ApplyRAGResult(e)}
  BY DEF Send
<1>3. e \in News /\ outbox[e] # "none"
  BY <1>0, IsThread DEF DeliveryInv, Thread
<1>4. e \in Verdicts => e = Verdict
  BY <1>0, <1>3 DEF DeliveryInv, OnlyTheVerdict
<1>5. item \in Verdicts => item = Verdict
  BY <1>0 DEF DeliveryInv, OnlyTheVerdict
<1>6. item \in News \cup {"pending"}
  BY <1>0 DEF TypeInv, TypeOK
<1>7. CASE item' = item
  BY <1>1, <1>7
<1>8. CASE item' = ApplyRAGResult(e) /\ item' # item
  <2>1. item \in {"pending", "processing"} /\ item' = e
    BY <1>3, <1>4, <1>5, <1>6, <1>8 DEF ApplyRAGResult, Settles, News, Verdicts
  <2>2. CASE e = "processing"
    BY <1>1, <1>8, <2>1, <2>2 DEF V!Next, V!Begin
  <2>3. CASE e \in Verdicts
    BY <1>1, <1>4, <2>1, <2>3 DEF V!Next, V!Show, V!Verdicts, Verdicts
  <2> QED BY <1>3, <2>2, <2>3 DEF News
<1> QED BY <1>2, <1>7, <1>8

\* One verdict, shown after it was reached and never taken back: a step of the lanes, of
\* a callback or of a fault is a step of RagVerdict or none.
THEOREM ImplementsVerdict == Spec => KeepsPromise
<1>1. Init => V!Init
  BY DEF Init, V!Init, Verdict
<1>2. SafetyInv /\ [Next]_vars => [V!Next]_<<Verdict, item>>
  <2> SUFFICES ASSUME SafetyInv, [Next]_vars PROVE [V!Next]_<<Verdict, item>>
    OBVIOUS
  <2>1. CASE \E t \in Threads : Send(t)
    BY <2>1, ShowsTheVerdict
  <2>2. CASE \A t \in Threads : ~Send(t)
    <3>1. UNCHANGED item
      BY <2>2, ItemKept
    <3> QED BY <3>1, VerdictStep DEF V!Next, V!Decide, V!Verdicts, Verdicts
  <2> QED BY <2>1, <2>2
<1> QED BY <1>1, <1>2, RagSafety, PTL DEF Spec, KeepsPromise, V!Spec

-----------------------------------------------------------------------------
(* The search index: what a lane writes without its lease. *)

IndexInv ==
    /\ proj.status = "ready" => es
    /\ \A t \in Threads : th[t].pc = "indexed" => es
    /\ \A t \in Threads : Lane(t) = "index" /\ th[t].pc = "settle" /\ th[t].result = "ready" =>
           proj.status = "ready"
    /\ Verdict = "ready" => proj.status = "ready"

LEMMA IndexInit == Init => IndexInv
BY DEF Init, IndexInv, Verdict, Rest

\* The projection, once ready, stays ready, and the index keeps what it has.
Grows ==
    /\ es => es'
    /\ proj.status = "ready" => proj'.status = "ready"
    /\ proj'.status = "ready" => proj.status = "ready" \/ es'
\* Thread u reaches no step that IndexInv speaks of, or rightly so.
Earned(u) ==
    /\ th'[u].pc = "indexed" => th[u].pc = "indexed" \/ es'
    /\ Lane(u) = "index" /\ th'[u].pc = "settle" /\ th'[u].result = "ready" =>
           \/ th[u].pc = "settle" /\ th[u].result = "ready"
           \/ proj'.status = "ready"

LEMMA IndexFrame ==
    ASSUME TypeInv, IndexInv, Grows, \A u \in Threads : Earned(u),
           Verdict' = "ready" => Verdict = "ready" \/ proj'.status = "ready"
    PROVE  IndexInv'
BY DEF IndexInv, Grows, Earned

LEMMA MoveEarned ==
    ASSUME TypeInv, NEW t \in Threads, NEW q, th' = [th EXCEPT ![t] = q],
           q.pc = "indexed" => es',
           Lane(t) = "index" /\ q.pc = "settle" /\ q.result = "ready" => proj'.status = "ready"
    PROVE  \A u \in Threads : Earned(u)
<1>0. th \in [Threads -> Thread]
  BY DEF TypeInv, TypeOK
<1>1. Earned(t)
  BY <1>0 DEF Earned
<1>2. ASSUME NEW u \in Threads \ {t} PROVE Earned(u)
  <2>1. th'[u] = th[u]
    BY <1>0
  <2> QED BY <2>1 DEF Earned
<1> QED BY <1>1, <1>2

LEMMA GotoEarned ==
    ASSUME TypeInv, NEW t \in Threads, NEW pc, Goto(t, pc), pc # "settle", pc = "indexed" => es'
    PROVE  \A u \in Threads : Earned(u)
<1> DEFINE q == [th[t] EXCEPT !.pc = pc]
<1>1. q.pc = pc
  BY IsThread DEF Thread
<1>2. th' = [th EXCEPT ![t] = q]
  BY DEF Goto
<1> HIDE DEF q
<1> QED BY <1>1, <1>2, MoveEarned

LEMMA RaiseEarned ==
    ASSUME TypeInv, NEW t \in Threads, NEW again, Raise(t, again) PROVE \A u \in Threads : Earned(u)
<1> DEFINE q == [th[t] EXCEPT !.pc = "fail", !.again = again]
<1>1. q.pc = "fail"
  BY IsThread DEF Thread
<1>2. th' = [th EXCEPT ![t] = q]
  BY DEF Raise
<1> HIDE DEF q
<1> QED BY <1>1, <1>2, MoveEarned

LEMMA LeaveEarned ==
    ASSUME TypeInv, NEW t \in Threads, Leave(t) PROVE \A u \in Threads : Earned(u)
<1>1. Rest.pc = "idle"
  BY DEF Rest
<1>2. th' = [th EXCEPT ![t] = Rest]
  BY DEF Leave
<1> QED BY <1>1, <1>2, MoveEarned

LEMMA FinishEarned ==
    ASSUME TypeInv, NEW t \in Threads, NEW result,
           th' = [th EXCEPT ![t].result = result, ![t].pc = "settle"],
           Lane(t) = "index" /\ result = "ready" => proj'.status = "ready"
    PROVE  \A u \in Threads : Earned(u)
<1> DEFINE q == [th[t] EXCEPT !.result = result, !.pc = "settle"]
<1>1. q.pc = "settle" /\ q.result = result
  BY IsThread DEF Thread
<1>2. th' = [th EXCEPT ![t] = q]
  OBVIOUS
<1> HIDE DEF q
<1> QED BY <1>1, <1>2, MoveEarned

LEMMA MarkFailureGrows ==
    ASSUME TypeInv, NEW t \in Threads, MarkFailure(t), es => es'
    PROVE  Grows /\ \A u \in Threads : Earned(u)
<1>1. proj.status = "ready" => UNCHANGED proj
  BY DEF MarkFailure, CanProject, ProjectionTransitions
<1>2. UNCHANGED proj \/ proj'.status \in {"retry_wait", "failed"}
  <2>1. \/ UNCHANGED proj
        \/ \E status \in {"retry_wait", "failed"} : proj' = [status |-> status, retry |-> proj.retry + 1]
    BY DEF MarkFailure
  <2> QED BY <2>1
<1>3. \E again : Raise(t, again)
  BY DEF MarkFailure
<1> QED BY <1>1, <1>2, <1>3, RaiseEarned DEF Grows

\* A projection is marked ready only over an index that has the chunks.
LEMMA ProjectGrows ==
    ASSUME TypeInv, NEW t \in Threads, NEW status \in {"indexing", "ready"}, NEW pc \in {"bulk", "verify"},
           Project(t, status, pc), status = "ready" => es, UNCHANGED es
    PROVE  Grows /\ \A u \in Threads : Earned(u)
<1>1. CASE CanProject(status)
  <2>1. proj'.status = status /\ Goto(t, pc)
    BY <1>1 DEF Project, TypeInv, TypeOK, Proj
  <2>2. proj.status = "ready" => status = "ready"
    BY <1>1 DEF CanProject, ProjectionTransitions
  <2> QED BY <2>1, <2>2, GotoEarned DEF Grows
<1>2. CASE ~CanProject(status)
  BY <1>2, RaiseEarned DEF Project, Grows
<1> QED BY <1>1, <1>2

LEMMA IndexElsewhere ==
    ASSUME TypeInv, IndexInv, NEW t \in Threads, Elsewhere(t)
    PROVE  Grows /\ \A u \in Threads : Earned(u)
<1>0. UNCHANGED <<es, proj>> => Grows
  BY DEF Grows
<1>1. CASE Parse(t)
  <2>1. Lane(t) # "index" /\ UNCHANGED <<es, proj>>
    BY <1>1 DEF Parse
  <2> QED BY <1>0, <1>1, <2>1, FinishEarned, RaiseEarned DEF Parse
<1>2. CASE ListChunks(t)
  <2>1. Grows
    <3>1. UNCHANGED es
      BY <1>2 DEF ListChunks
    <3>2. proj' = proj \/ (proj.status = "none" /\ proj'.status = "pending")
      BY <1>2 DEF ListChunks, TypeInv, TypeOK, Proj
    <3> QED BY <3>1, <3>2 DEF Grows
  <2>2. \A u \in Threads : Earned(u)
    BY <1>2, FinishEarned, RaiseEarned, GotoEarned DEF ListChunks
  <2> QED BY <2>1, <2>2
<1>3. CASE Embed(t)
  BY <1>0, <1>3, MarkFailureGrows, GotoEarned DEF Embed
<1>4. CASE MarkIndexing(t)
  BY <1>4, ProjectGrows DEF MarkIndexing
<1>5. CASE IndexChunks(t)
  <2>1. CASE es' = TRUE /\ Goto(t, "indexed") /\ UNCHANGED proj
    BY <2>1, GotoEarned DEF Grows
  <2>2. CASE MarkFailure(t) /\ es' \in {es, TRUE}
    <3>1. es => es'
      BY <2>2
    <3> QED BY <2>2, <3>1, MarkFailureGrows
  <2> QED BY <1>5, <2>1, <2>2 DEF IndexChunks
<1>6. CASE MarkReady(t)
  <2>1. es
    BY <1>6 DEF MarkReady, IndexInv
  <2> QED BY <1>6, <2>1, ProjectGrows DEF MarkReady
<1>7. CASE Verify(t)
  <2>1. UNCHANGED <<es, proj>>
    BY <1>7 DEF Verify
  <2>2. CASE Verified(proj.status)
    BY <1>0, <1>7, <2>1, <2>2, FinishEarned DEF Verify, Verified
  <2>3. CASE ~Verified(proj.status)
    BY <1>0, <1>7, <2>1, <2>3, RaiseEarned DEF Verify
  <2> QED BY <2>2, <2>3
<1>8. CASE AddOutboxEvent(t) \/ Mark(t)
  <2>1. UNCHANGED <<es, proj>>
    BY <1>8 DEF AddOutboxEvent, Mark, rows
  <2> QED BY <1>0, <1>8, <2>1, GotoEarned DEF AddOutboxEvent, Mark
<1>9. CASE Flush(t)
  <2>1. UNCHANGED <<es, proj>>
    BY <1>9 DEF Flush, rows
  <2>2. PICK due : th' = [th EXCEPT ![t].todo = due, ![t].pc = "send"]
    BY <1>9 DEF Flush
  <2> DEFINE q == [th[t] EXCEPT !.todo = due, !.pc = "send"]
  <2>3. q.pc = "send"
    BY IsThread DEF Thread
  <2>4. th' = [th EXCEPT ![t] = q]
    BY <2>2
  <2> HIDE DEF q
  <2> QED BY <1>0, <2>1, <2>3, <2>4, MoveEarned
<1>10. CASE Send(t)
  <2>1. UNCHANGED <<es, proj>>
    BY <1>10 DEF Send, rows
  <2>2. PICK e, ok : th' = [th EXCEPT ![t].todo = @ \ {e}, ![t].at = e, ![t].ok = ok, ![t].pc = "mark"]
    BY <1>10 DEF Send
  <2> DEFINE q == [th[t] EXCEPT !.todo = @ \ {e}, !.at = e, !.ok = ok, !.pc = "mark"]
  <2>3. q.pc = "mark"
    BY IsThread DEF Thread
  <2>4. th' = [th EXCEPT ![t] = q]
    BY <2>2
  <2> HIDE DEF q
  <2> QED BY <1>0, <2>1, <2>3, <2>4, MoveEarned
<1>11. CASE FlushDone(t)
  <2>1. UNCHANGED <<es, proj>>
    BY <1>11 DEF FlushDone, rows
  <2>2. CASE Leave(t)
    BY <1>0, <2>1, <2>2, LeaveEarned
  <2>3. CASE th' = [th EXCEPT ![t].pc = IF Lane(t) = "memory" THEN "settle" ELSE "begin",
                              ![t].at = "processing", ![t].ok = TRUE]
    <3> DEFINE q == [th[t] EXCEPT !.pc = IF Lane(t) = "memory" THEN "settle" ELSE "begin",
                                  !.at = "processing", !.ok = TRUE]
    <3>1. q.pc = (IF Lane(t) = "memory" THEN "settle" ELSE "begin")
      BY IsThread DEF Thread
    <3>2. th' = [th EXCEPT ![t] = q]
      BY <2>3
    <3> HIDE DEF q
    <3> QED BY <1>0, <2>1, <3>1, <3>2, MoveEarned
  <2> QED BY <1>11, <2>2, <2>3 DEF FlushDone
<1>12. CASE Trip(t) \/ Abort(t)
  <2>1. UNCHANGED <<es, proj>>
    BY <1>12 DEF Trip, Abort, rows
  <2> QED BY <1>0, <1>12, <2>1, RaiseEarned, LeaveEarned DEF Trip, Abort
<1>13. CASE HeartbeatDies(t)
  <2>1. UNCHANGED <<es, proj>>
    BY <1>13 DEF HeartbeatDies, rows
  <2>2. \A u \in Threads : th'[u].pc = th[u].pc /\ th'[u].result = th[u].result
    <3>1. th \in [Threads -> Thread]
      BY DEF TypeInv, TypeOK
    <3> QED BY <1>13, <3>1 DEF HeartbeatDies, Thread
  <2> QED BY <1>0, <2>1, <2>2 DEF Earned
<1> QED BY <1>1, <1>2, <1>3, <1>4, <1>5, <1>6, <1>7, <1>8, <1>9, <1>10, <1>11, <1>12, <1>13 DEF Elsewhere

\* A step at the row leaves the projection and the index alone.
LEMMA IndexAtRow ==
    ASSUME TypeInv, LeaseInv, IndexInv, NEW t \in Threads, Claim(t) \/ Begin(t) \/ Settle(t) \/ RetryOrFail(t)
    PROVE  IndexInv'
<1>1. Grows
  BY DEF Claim, Begin, Settle, RetryOrFail, Grows
<1>2. \A u \in Threads : Earned(u)
  <2>0. th \in [Threads -> Thread]
    BY DEF TypeInv, TypeOK
  <2>1. CASE Claim(t)
    <3> DEFINE q == [Rest EXCEPT !.pc = "add", !.epoch = job.epoch + 1, !.retry = job.retry,
                                 !.parse = job.parse, !.beat = TRUE]
    <3>1. q.pc = "add"
      BY DEF Rest
    <3>2. th' = [th EXCEPT ![t] = q]
      BY <2>1 DEF Claim
    <3> HIDE DEF q
    <3> QED BY <3>1, <3>2, MoveEarned
  <2>2. CASE Begin(t)
    BY <2>2, LeaveEarned, GotoEarned DEF Begin
  <2>3. CASE Settle(t) \/ RetryOrFail(t)
    <3>1. CASE Leave(t)
      BY <3>1, LeaveEarned
    <3>2. CASE \E news : th' = [th EXCEPT ![t].pc = "add", ![t].news = news]
      <4>1. PICK news : th' = [th EXCEPT ![t].pc = "add", ![t].news = news]
        BY <3>2
      <4> DEFINE q == [th[t] EXCEPT !.pc = "add", !.news = news]
      <4>2. q.pc = "add"
        BY IsThread DEF Thread
      <4>3. th' = [th EXCEPT ![t] = q]
        BY <4>1
      <4> HIDE DEF q
      <4> QED BY <4>2, <4>3, MoveEarned
    <3> QED BY <2>3, <3>1, <3>2 DEF Settle, RetryOrFail
  <2> QED BY <2>1, <2>2, <2>3
<1>3. Verdict' = "ready" => Verdict = "ready" \/ proj'.status = "ready"
  <2>1. CASE Claim(t) \/ Begin(t)
    BY <2>1, VerdictClaim, VerdictBegin
  <2>2. CASE Settle(t) /\ Owns(t)
    <3>1. th[t].pc = "settle" /\ Lane(t) \in Lanes /\ UNCHANGED proj
      BY <2>2, IsThread DEF Settle, Sound
    <3> QED BY <2>2, <3>1, VerdictSettle DEF Lanes, IndexInv
  <2>3. CASE RetryOrFail(t) /\ Owns(t)
    BY <2>3, VerdictRetryOrFail
  <2>4. CASE (Settle(t) \/ RetryOrFail(t)) /\ ~Owns(t)
    BY <2>4, VerdictKept DEF Settle, RetryOrFail
  <2> QED BY <2>1, <2>2, <2>3, <2>4
<1> QED BY <1>1, <1>2, <1>3, IndexFrame

LEMMA IndexStep == TypeInv /\ LeaseInv /\ IndexInv /\ [Next]_vars => IndexInv'
<1> SUFFICES ASSUME TypeInv, LeaseInv, IndexInv, [Next]_vars PROVE IndexInv'
  OBVIOUS
<1>1. CASE UNCHANGED vars
  BY <1>1, VerdictKept DEF vars, rows, IndexInv
<1>2. ASSUME NEW t \in Threads, Elsewhere(t) PROVE IndexInv'
  BY <1>2, IndexElsewhere, RowLeftAlone, VerdictKept, IndexFrame
<1>3. ASSUME NEW p \in Procs, Crash(p) PROVE IndexInv'
  <2>1. Grows /\ Verdict' = Verdict
    BY <1>3, VerdictKept DEF Crash, rows, Grows
  <2>2. \A u \in Threads : Earned(u)
    <3>1. \A u \in Threads : th'[u] = th[u] \/ th'[u].pc = "idle"
      BY <1>3 DEF Crash, Rest
    <3> QED BY <3>1 DEF Earned
  <2> QED BY <2>1, <2>2, IndexFrame
<1>4. CASE LeaseLapses
  <2>1. UNCHANGED <<proj, es, th>>
    BY <1>4 DEF LeaseLapses
  <2> QED BY <1>4, <2>1, VerdictLapse DEF IndexInv
<1> QED BY <1>1, <1>2, <1>3, <1>4, IndexAtRow DEF Next, Work, Elsewhere

\* A job that is ready is in the search index and its projection says so, although the
\* lanes write both without their lease.
THEOREM ReadyMeansIndexed == Spec => []ReadyIsIndexed
<1>1. Init => SafetyInv /\ IndexInv
  BY TypeInit, LeaseInit, DeliveryInit, IndexInit DEF SafetyInv
<1>2. SafetyInv /\ IndexInv /\ [Next]_vars => SafetyInv' /\ IndexInv'
  BY TypeStep, LeaseStep, DeliveryStep, IndexStep DEF SafetyInv
<1>3. IndexInv => ReadyIsIndexed
  BY DEF IndexInv, ReadyIsIndexed
<1> QED BY <1>1, <1>2, <1>3, PTL DEF Spec
==============================================================================
