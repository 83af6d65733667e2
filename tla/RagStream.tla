----------------------------- MODULE RagStream -----------------------------
(****************************************************************************)
(* The inbound stream of the RAG workers: one Redis consumer group that     *)
(* several processes read.  An entry stays pending from its delivery to its *)
(* acknowledgement; what lay there too long is claimed by whoever sweeps    *)
(* the pending entries first, dead or alive its reader, and an entry that   *)
(* fails too often is moved to another stream.                              *)
(*                                                                          *)
(* Stream[e] is what the entry e carries: "ready" (a job is created),       *)
(* "delete" (vectors, rows and the callback, one after the other), "wrong"  *)
(* (an envelope that no handler accepts) or "bad" (no envelope at all).     *)
(* What a handler does is done at most once: the job is unique by its       *)
(* event, a deletion deletes what is there.                                 *)
(****************************************************************************)
EXTENDS Integers, Sequences, FiniteSets, SequencesExt, FiniteSetsExt

CONSTANTS
    Workers,        \* the processes of the consumer group
    Stream,         \* the entries in the order of their arrival
    BatchSize,      \* settings.redis_batch_size
    ClaimMaxRounds, \* settings.redis_claim_max_rounds
    RedisMaxRetries,\* settings.redis_max_retries
    MaxFaults       \* bound: failing calls, dead processes

Entries == DOMAIN Stream
Steps(e) ==
    CASE Stream[e] = "ready" -> <<"job">>
      [] Stream[e] = "delete" -> <<"vectors", "chunks", "tell">>
      [] OTHER -> <<>>

VARIABLES
    sent,       \* the entries that have arrived: 1..sent
    last,       \* last-delivered-id of the group
    pel,        \* the pending entries: entry -> [count, idle]
    done,       \* entry -> the steps of its handler that took effect
    w,          \* worker -> what it is at
    dlq,        \* the entries in the dead letter stream
    acked,      \* the entries that were acknowledged
    faults

vars == <<sent, last, pel, done, w, dlq, acked, faults>>

\* pc: "idle", "claim" (from cursor, rounds left), "read", "work"; batch: the entries that it
\* holds, step and at: where the handler of the first one is, and what comes behind it.
Idle == [pc |-> "idle", batch |-> <<>>, cursor |-> 0, rounds |-> 0, step |-> 1, at |-> "handle"]

Init ==
    /\ sent = 0 /\ last = 0 /\ pel = <<>>
    /\ done = [e \in Entries |-> {}]
    /\ w = [i \in Workers |-> Idle]
    /\ dlq = {} /\ acked = {} /\ faults = 0

Fault == faults < MaxFaults /\ faults' = faults + 1

Publish ==
    /\ sent < Len(Stream) /\ sent' = sent + 1
    /\ UNCHANGED <<last, pel, done, w, dlq, acked, faults>>

\* A pending entry has not been touched for longer than redis_claim_idle_ms: its reader died,
\* left it after a failure, or is still at it.
Ages(e) ==
    /\ e \in DOMAIN pel /\ ~ pel[e].idle
    /\ pel' = [pel EXCEPT ![e].idle = TRUE]
    /\ UNCHANGED <<sent, last, done, w, dlq, acked, faults>>

-----------------------------------------------------------------------------
(* run_once: sweep, read, then work through what both brought.               *)

\* Counted no further than anyone looks.
Delivered(e) ==
    [idle |-> FALSE,
     count |-> IF e \notin DOMAIN pel THEN 1 ELSE IF pel[e].count < RedisMaxRetries THEN pel[e].count + 1 ELSE pel[e].count]
Taking(es) == [e \in DOMAIN pel \cup es |-> IF e \in es THEN Delivered(e) ELSE pel[e]]
Rank(es, e) == Cardinality({x \in es : x < e})
InOrder(es) == [n \in 1..Cardinality(es) |-> CHOOSE e \in es : Rank(es, e) = n - 1]
FirstOf(es) == {e \in es : Rank(es, e) < BatchSize}

Begin(i) ==
    /\ w[i].pc = "idle"
    /\ w' = [w EXCEPT ![i] = [Idle EXCEPT !.pc = "claim", !.rounds = ClaimMaxRounds]]
    /\ UNCHANGED <<sent, last, pel, done, dlq, acked, faults>>

\* One XAUTOCLAIM from the cursor; the answer's cursor is where the next one starts, and an
\* error ends the sweep without a word.
Claim(i) ==
    /\ w[i].pc = "claim"
    /\ \/ LET page == FirstOf({e \in DOMAIN pel : e >= w[i].cursor /\ pel[e].idle})
              rest == IF page = {} THEN {} ELSE {e \in DOMAIN pel : e > Max(page)} IN
          /\ pel' = Taking(page)
          /\ w' = [w EXCEPT ![i].batch = @ \o InOrder(page), ![i].rounds = @ - 1,
                            ![i].cursor = IF rest = {} THEN 0 ELSE Min(rest),
                            ![i].pc = IF rest = {} \/ w[i].rounds = 1 THEN "read" ELSE "claim"]
          /\ UNCHANGED faults
       \/ Fault /\ w' = [w EXCEPT ![i].pc = "read"] /\ UNCHANGED pel
    /\ UNCHANGED <<sent, last, done, dlq, acked>>

\* XREADGROUP of new entries.  Its error ends the iteration: what the sweep claimed stays with
\* this worker, a delivery more on its count, and is not worked on.
Read(i) ==
    /\ w[i].pc = "read"
    /\ \/ LET page == FirstOf({e \in 1..sent : e > last}) IN
          /\ pel' = Taking(page)
          /\ last' = Max(page \cup {last})
          /\ LET all == w[i].batch \o InOrder(page) IN
             w' = [w EXCEPT ![i] = IF all = <<>> THEN Idle ELSE [Idle EXCEPT !.pc = "work", !.batch = all]]
          /\ UNCHANGED faults
       \/ Fault /\ w' = [w EXCEPT ![i] = Idle] /\ UNCHANGED <<pel, last>>
    /\ UNCHANGED <<sent, done, dlq, acked>>

-----------------------------------------------------------------------------
(* One entry.                                                                *)

At(i) == Head(w[i].batch)
To(i, at) == [w EXCEPT ![i].at = at]
Leave(i) ==
    [w EXCEPT ![i] = IF Len(w[i].batch) = 1 THEN Idle
                     ELSE [w[i] EXCEPT !.batch = Tail(w[i].batch), !.step = 1, !.at = "handle"]]

\* The handler fails: the entry is not acknowledged.
Failed_Acked(i) == To(i, "ack")                            \* mutant
Failed(i) == To(i, "fail")

\* The next step of the handler; behind the last the entry is acknowledged.
Handle(i) ==
    LET e == At(i) IN
    /\ w[i].pc = "work" /\ w[i].at = "handle"
    /\ IF Stream[e] = "wrong" THEN w' = Failed(i) /\ UNCHANGED <<done, faults>>
       ELSE \/ /\ w' = IF w[i].step >= Len(Steps(e)) THEN To(i, "ack") ELSE [w EXCEPT ![i].step = @ + 1]
               /\ done' = IF Steps(e) = <<>> THEN done ELSE [done EXCEPT ![e] = @ \cup {Steps(e)[w[i].step]}]
               /\ UNCHANGED faults
            \/ Stream[e] # "bad" /\ Fault /\ w' = Failed(i) /\ UNCHANGED done
    /\ UNCHANGED <<sent, last, pel, dlq, acked>>

\* Exhausted are the deliveries, not the failures: 0 for an entry that another worker has
\* acknowledged in the meantime, and when Redis does not answer.
Exhausted_Always(e) == TRUE                                \* mutant
Exhausted(e) == e \in DOMAIN pel /\ pel[e].count >= RedisMaxRetries
DeliveryCount(i) ==
    /\ w[i].pc = "work" /\ w[i].at = "fail"
    /\ \/ Exhausted(At(i)) /\ w' = To(i, "dlq") /\ UNCHANGED faults
       \/ ~ Exhausted(At(i)) /\ w' = Leave(i) /\ UNCHANGED faults
       \/ Fault /\ w' = Leave(i)
    /\ UNCHANGED <<sent, last, pel, done, dlq, acked>>

DeadLetter(i) ==
    /\ w[i].pc = "work" /\ w[i].at = "dlq"
    /\ \/ dlq' = dlq \cup {At(i)} /\ w' = To(i, "ack") /\ UNCHANGED faults
       \/ Fault /\ w' = Leave(i) /\ UNCHANGED dlq
    /\ UNCHANGED <<sent, last, pel, done, acked>>

\* XACK works whoever the entry belongs to by now; when it fails the entry comes back.
Ack(i) ==
    /\ w[i].pc = "work" /\ w[i].at = "ack"
    /\ w' = Leave(i)
    /\ \/ /\ pel' = Restrict(pel, DOMAIN pel \ {At(i)})
          /\ acked' = acked \cup {At(i)} /\ UNCHANGED faults
       \/ Fault /\ UNCHANGED <<pel, acked>>
    /\ UNCHANGED <<sent, last, done, dlq>>

\* The process dies and another one takes its place.
Crash(i) ==
    /\ w[i].pc # "idle" /\ Fault
    /\ w' = [w EXCEPT ![i] = Idle]
    /\ UNCHANGED <<sent, last, pel, done, dlq, acked>>

Run(i) == Begin(i) \/ Claim(i) \/ Read(i) \/ Handle(i) \/ DeliveryCount(i) \/ DeadLetter(i) \/ Ack(i)

Next == Publish \/ (\E e \in Entries : Ages(e)) \/ (\E i \in Workers : Run(i) \/ Crash(i))

\* A worker loops as long as its process lives, and time passes.
Spec == Init /\ [][Next]_vars
        /\ \A i \in Workers : WF_vars(Run(i))
        /\ \A e \in Entries : WF_vars(Ages(e))

-----------------------------------------------------------------------------
\* Every variable holds what the group and its workers can hold.
TypeOK ==
    /\ sent \in 0..Len(Stream) /\ last \in 0..sent
    /\ DOMAIN pel \subseteq 1..last /\ dlq \cup acked \subseteq 1..last
    /\ \A i \in Workers : w[i].pc \in {"idle", "claim", "read", "work"} /\ ToSet(w[i].batch) \subseteq 1..last
    /\ faults \in 0..MaxFaults

\* What left the pending entries was handled to the end, was moved to the dead letters, or was
\* no event: whoever acknowledged it, and however often it was claimed in between.
Finished(e) ==
    \/ Stream[e] = "bad"
    \/ Stream[e] # "wrong" /\ done[e] = ToSet(Steps(e))
    \/ e \in dlq
NothingLost == \A e \in 1..last \ DOMAIN pel : Finished(e)

\* As long as nothing fails, only what no handler accepts is given up, although deliveries
\* are counted and not failures, and sweeps count too.
OnlyTheHopeless == faults = 0 => \A e \in dlq : Stream[e] = "wrong"

\* A deletion is told to the knowledge service only behind what it deletes.
ToldLast == \A e \in Entries : "tell" \in done[e] => {"vectors", "chunks"} \subseteq done[e]

\* An entry is pending, acknowledged or not yet delivered, and nothing is dead-lettered for
\* an entry that was delivered less often than the limit while it waits.
Consistent ==
    /\ DOMAIN pel \cap acked = {} /\ DOMAIN pel \cup acked = 1..last
    /\ \A e \in dlq \cap DOMAIN pel : pel[e].count >= RedisMaxRetries

Consumed == NothingLost /\ OnlyTheHopeless /\ ToldLast /\ Consistent

\* Inductive: what is held, and what a worker knows of the entry it is at, while others
\* handle, claim and acknowledge the same one.
Places ==
    [pc : {"idle", "claim", "read", "work"}, batch : Seq(1..last), cursor : Nat, rounds : Int,
     step : Nat \ {0}, at : {"handle", "fail", "dlq", "ack"}]
Held ==
    /\ w \in [Workers -> Places]
    /\ pel \in [DOMAIN pel -> [count : Nat, idle : BOOLEAN]]
    /\ done \in [Entries -> SUBSET {"job", "vectors", "chunks", "tell"}]
    /\ \A e \in Entries : done[e] \subseteq ToSet(Steps(e))
Knows(i) ==
    LET e == At(i) IN
    w[i].pc = "work" =>
        /\ w[i].batch # <<>>
        /\ w[i].step = 1 \/ w[i].step <= Len(Steps(e))
        /\ \A k \in 1..(w[i].step - 1) : Steps(e)[k] \in done[e]
        /\ w[i].at = "ack" => Finished(e)
        /\ w[i].at \in {"fail", "dlq"} /\ faults = 0 => Stream[e] = "wrong"
        /\ w[i].at = "dlq" /\ e \in DOMAIN pel => pel[e].count >= RedisMaxRetries
GroupInv ==
    /\ TypeOK /\ Consumed /\ Held
    /\ \A i \in Workers : Knows(i)

\* Every entry that arrives is done with in the end: no failing entry keeps those behind it
\* waiting, and none stays pending for ever.
Drained == \A e \in Entries : e <= sent => e \in acked
=============================================================================
