---------------------------- MODULE AnswerStream ----------------------------
(****************************************************************************)
(* The way of a streamed answer.  A worker runs the capability that writes  *)
(* it: the pieces a model sends are pushed to Redis as a preview, and what  *)
(* has been decided is told by the events of the task in PostgreSQL.  The   *)
(* API reads both in a loop and passes them on to a page, which may lose    *)
(* the connection at any time and come back with the cursors it has.        *)
(*                                                                          *)
(* Answers are numbered as they are started; 0 is no answer.  A piece is    *)
(* its number.  The final text of an answer is "whole", any other "part".   *)
(****************************************************************************)
EXTENDS Naturals, Sequences, FiniteSets, SequencesExt

CONSTANTS
    MaxPieces,     \* bound on the pieces of one answer
    MaxAnswers,    \* attempts of the step
    SnapshotEvery, \* snapshot_every
    MaxFaults      \* bound on writes and reads of Redis that fail, crashes and lost connections

VARIABLES
    task,    \* "running", "succeeded", "failed", "cancelled"
    log,     \* the events of the task: [type, answer, final]
    redis,   \* answer -> [pieces, next, done, final, snap, upto]
    worker,  \* [pc, answer, seq]
    conn,    \* the connection in the API: [on, at, cursor, answer, after, task, done, sent, idle]
    page,    \* [cursor, answer, after, text, shown, recovering, over]
    lost     \* what went wrong, in the order it did

vars == <<task, log, redis, worker, conn, page, lost>>

Answers == 1..MaxAnswers
NoAnswer == [pieces |-> {}, next |-> 0, done |-> FALSE, final |-> 0, snap |-> "none", upto |-> 0]
Off == [on |-> FALSE, at |-> "pieces", cursor |-> 0, answer |-> 0, after |-> 0,
        task |-> FALSE, done |-> <<>>, sent |-> FALSE, idle |-> FALSE]

Init ==
    /\ task = "running"
    /\ log = <<>>
    /\ redis = [a \in Answers |-> NoAnswer]
    /\ worker = [pc |-> "ready", answer |-> 0, seq |-> 0]
    /\ conn = Off
    /\ page = [cursor |-> 0, answer |-> 0, after |-> 0, text |-> <<>>, shown |-> "none",
               recovering |-> FALSE, over |-> FALSE]
    /\ lost = <<>>

Fault(kind) == Len(lost) < MaxFaults /\ lost' = Append(lost, kind)
Lost(kind) == \E i \in DOMAIN lost : lost[i] = kind
Event(type, a, n) == [type |-> type, answer |-> a, final |-> n]
Tell(es) == log' = log \o es

-----------------------------------------------------------------------------
(* The worker.                                                               *)

\* Executor.execute: every run of the step opens an answer of its own.
Start ==
    /\ worker.pc = "ready" /\ task = "running" /\ worker.answer < MaxAnswers
    /\ worker' = [pc |-> "stream", answer |-> worker.answer + 1, seq |-> 0]
    /\ Tell(<<Event("started", worker.answer + 1, 0)>>)
    /\ UNCHANGED <<task, redis, conn, page, lost>>

\* append_delta: the piece first, then the counter; and every so often a snapshot.
Appended(r, n) ==
    [r EXCEPT !.pieces = @ \cup {n}, !.next = n,
              !.snap = IF n % SnapshotEvery = 0 THEN "part" ELSE @,
              !.upto = IF n % SnapshotEvery = 0 THEN n ELSE @]

\* push: a write that fails is logged, and the next piece has the next number all the same.
Push ==
    /\ worker.pc = "stream" /\ worker.seq < MaxPieces
    /\ LET n == worker.seq + 1
           a == worker.answer
       IN /\ worker' = [worker EXCEPT !.seq = n]
          /\ \/ redis' = [redis EXCEPT ![a] = Appended(@, n)] /\ UNCHANGED lost
             \/ redis' = redis /\ Fault("piece")
             \/ redis' = [redis EXCEPT ![a].pieces = @ \cup {n}] /\ Fault("counter")
    /\ UNCHANGED <<task, log, conn, page>>

\* The stream ends.  The text is parsed from the whole of it, and if that is no valid JSON
\* one more call repairs it: it need not be what the preview showed.  Then
\* RedisAnswerStream.complete writes the snapshot, and then the mark that it is done.
Saved(r, n) == [r EXCEPT !.snap = "whole", !.upto = n]
Done(r, n) == [Saved(r, n) EXCEPT !.done = TRUE, !.final = n]
Complete ==
    /\ worker.pc = "stream"
    /\ LET a == worker.answer
           n == worker.seq
       IN \/ redis' = [redis EXCEPT ![a] = Done(@, n)] /\ UNCHANGED lost
          \/ redis' = [redis EXCEPT ![a] = Saved(@, n)] /\ Fault("mark")
          \/ redis' = redis /\ Fault("snapshot")
    /\ worker' = [worker EXCEPT !.pc = "told"]
    /\ UNCHANGED <<task, log, conn, page>>

Completed ==
    /\ worker.pc = "told"
    /\ Tell(<<Event("completed", worker.answer, worker.seq)>>)
    /\ worker' = [worker EXCEPT !.pc = "call"]
    /\ UNCHANGED <<task, redis, conn, page, lost>>

\* The call is saved; one that took longer than it may is a failure though it answered.
SaveCall ==
    /\ worker.pc = "call"
    /\ \/ /\ task = "running"
          /\ task' = "succeeded"
          /\ Tell(<<Event("step", 0, 0), Event("task", 0, 0)>>)
          /\ worker' = [worker EXCEPT !.pc = "end"]
       \/ task # "running" /\ worker' = [worker EXCEPT !.pc = "end"] /\ UNCHANGED <<task, log>>
       \/ worker' = [worker EXCEPT !.pc = "broken"] /\ UNCHANGED <<task, log>>
    /\ UNCHANGED <<redis, conn, page, lost>>

\* The model fails, idles or runs out of time, or the repair is invalid too.
StreamBreaks ==
    /\ worker.pc = "stream"
    /\ Fault("model")
    /\ worker' = [worker EXCEPT !.pc = "broken"]
    /\ UNCHANGED <<task, log, redis, conn, page>>

\* A retry runs the step again; without one the planner ends the task in another way, or it fails.
Broken ==
    /\ worker.pc = "broken"
    /\ \/ worker' = [worker EXCEPT !.pc = "ready"] /\ UNCHANGED <<task, log>>
       \/ /\ task = "running"
          /\ \/ task' = "succeeded" /\ Tell(<<Event("task", 0, 0)>>)
             \/ task' = "failed" /\ Tell(<<Event("failed", 0, 0)>>)
          /\ worker' = [worker EXCEPT !.pc = "end"]
    /\ UNCHANGED <<redis, conn, page, lost>>

\* No attempt is left, or the task was cancelled meanwhile.
GivesUp ==
    /\ worker.pc = "ready" /\ (worker.answer = MaxAnswers \/ task # "running")
    /\ IF task = "running" THEN task' = "failed" /\ Tell(<<Event("failed", 0, 0)>>) ELSE UNCHANGED <<task, log>>
    /\ worker' = [worker EXCEPT !.pc = "end"]
    /\ UNCHANGED <<redis, conn, page, lost>>

\* The owner cancels; the probe sees it while the stream is read and ends the call.
Cancel ==
    /\ task = "running"
    /\ task' = "cancelled"
    /\ Tell(<<Event("cancelled", 0, 0)>>)
    /\ worker' = [worker EXCEPT !.pc = IF @ = "stream" THEN "broken" ELSE @]
    /\ UNCHANGED <<redis, conn, page, lost>>

\* The process dies; another takes the task over and runs the step again.
Crash ==
    /\ worker.pc \notin {"ready", "end"}
    /\ Fault("crash")
    /\ worker' = [worker EXCEPT !.pc = "ready"]
    /\ UNCHANGED <<task, log, redis, conn, page>>

\* The keys expire, or Redis is emptied.
Forget(a) ==
    /\ redis[a] # NoAnswer
    /\ Fault("keys")
    /\ redis' = [redis EXCEPT ![a] = NoAnswer]
    /\ UNCHANGED <<task, log, worker, conn, page>>

-----------------------------------------------------------------------------
(* The page.                                                                 *)

\* answer.delta: an old piece is dropped; a gap asks for the snapshot, and the cursor
\* moves past it.
Piece(p, n) ==
    CASE n <= p.after -> p
      [] n = p.after + 1 -> [p EXCEPT !.text = Append(@, n), !.after = n]
      [] OTHER -> [p EXCEPT !.recovering = TRUE, !.after = n]

\* answer.started of another answer puts away what was shown.
Started(p, a) ==
    IF a = p.answer THEN p
    ELSE [p EXCEPT !.answer = a, !.after = 0, !.text = <<>>, !.shown = "none"]

Seen(p, i) == [p EXCEPT !.cursor = IF i > @ THEN i ELSE @]

Connect ==
    /\ ~ conn.on /\ ~ page.over /\ ~ page.recovering
    /\ conn' = [Off EXCEPT !.on = TRUE, !.cursor = page.cursor, !.answer = page.answer, !.after = page.after]
    /\ UNCHANGED <<task, log, redis, worker, page, lost>>

Disconnect ==
    /\ conn.on
    /\ Fault("connection")
    /\ conn' = Off
    /\ UNCHANGED <<task, log, redis, worker, page>>

\* recoverAnswerSnapshot: the text of the snapshot if it has any, and on from there.
Recover ==
    /\ page.recovering
    /\ LET r == redis[page.answer] IN
         page' = [page EXCEPT !.recovering = FALSE, !.after = r.upto,
                    !.text = IF r.snap = "none" THEN @ ELSE [i \in 1..r.upto |-> i]]
    /\ conn' = Off
    /\ UNCHANGED <<task, log, redis, worker, lost>>

-----------------------------------------------------------------------------
(* The API: one turn of the loop reads the pieces, then the events, then the *)
(* state of the answer.                                                      *)

Deltas(a, after) == SetToSortSeq({n \in redis[a].pieces : n > after}, LAMBDA x, y : x < y)

ReadDeltas ==
    /\ conn.on /\ conn.at = "pieces"
    /\ \/ /\ LET ns == IF conn.answer = 0 THEN <<>> ELSE Deltas(conn.answer, conn.after) IN
               /\ page' = FoldLeft(Piece, page, ns)
               /\ conn' = [conn EXCEPT !.at = "events", !.after = IF ns = <<>> THEN @ ELSE Last(ns)]
          /\ UNCHANGED lost
       \/ conn.answer # 0 /\ Fault("read") /\ conn' = [conn EXCEPT !.at = "events"] /\ UNCHANGED page
    /\ UNCHANGED <<task, log, redis, worker>>

\* An event of the log: the two that end something are held back.
Passed(s, i) ==
    LET e == log[i]
        c == [s.conn EXCEPT !.cursor = i]
    IN CASE e.type = "task" -> [s EXCEPT !.conn = [c EXCEPT !.task = TRUE]]
         [] e.type = "completed" -> [s EXCEPT !.conn = [c EXCEPT !.done = <<i, e.final>>]]
         [] e.type = "started" ->
              [conn |-> IF e.answer = c.answer THEN c
                        ELSE [c EXCEPT !.answer = e.answer, !.after = 0, !.done = <<>>, !.sent = FALSE],
               page |-> Seen(Started(s.page, e.answer), i)]
         [] OTHER -> [conn |-> c, page |-> [Seen(s.page, i) EXCEPT !.over = e.type \in {"failed", "cancelled"}]]

ReadEvents ==
    /\ conn.on /\ conn.at = "events"
    /\ LET new == [i \in 1..(Len(log) - conn.cursor) |-> conn.cursor + i]
           s == FoldLeft(Passed, [conn |-> conn, page |-> page], new)
       IN /\ conn' = [s.conn EXCEPT !.at = "state", !.idle = new = <<>>]
          /\ page' = s.page
    /\ UNCHANGED <<task, log, redis, worker, lost>>

\* answer.completed once the pieces are drained; if Redis lost the answer, the result of
\* the task must do.
Drained_Unread(after, final) == TRUE             \* mutant
Drained_Beyond(after, final) == after > final    \* mutant
Drained(after, final) == after >= final
Emit(st) ==
    LET known == conn.answer # 0
        final == IF conn.done # <<>> THEN conn.done[2] ELSE st.final
        ended == conn.done # <<>> \/ st.done
        gone == known /\ conn.task /\ st.next = 0 /\ ~ st.done
        send == known /\ ~ conn.sent /\ ~ gone /\ ended /\ Drained(conn.after, final)
        sent == conn.sent \/ (known /\ gone) \/ send
        last == conn.task /\ (~ known \/ sent)
        p1 == IF send THEN [Seen(page, IF conn.done # <<>> THEN conn.done[1] ELSE 0)
                              EXCEPT !.shown = IF st.snap = "none" THEN @ ELSE st.snap, !.after = final]
              ELSE page
    IN /\ page' = [p1 EXCEPT !.over = @ \/ last]
       /\ \/ conn' = [conn EXCEPT !.sent = sent, !.at = "pieces"]
                /\ ~ last /\ ~ (task # "running" /\ conn.idle /\ ~ conn.task)
          \/ conn' = Off                            \* the end, or the deadline

ReadState ==
    /\ conn.on /\ conn.at = "state"
    /\ \/ Emit(IF conn.answer = 0 THEN NoAnswer ELSE redis[conn.answer]) /\ UNCHANGED lost
       \/ conn.answer # 0 /\ Fault("read") /\ Emit(NoAnswer)
    /\ UNCHANGED <<task, log, redis, worker>>

-----------------------------------------------------------------------------
Work == \/ Start \/ Push \/ Complete \/ Completed \/ SaveCall \/ Broken \/ GivesUp
Serve == ReadDeltas \/ ReadEvents \/ ReadState
Read == Connect \/ Recover
Ended == worker.pc = "end" /\ page.over /\ ~ conn.on /\ UNCHANGED vars

Next ==
    \/ Work \/ Serve \/ Read \/ Ended
    \/ StreamBreaks \/ Cancel \/ Crash \/ Disconnect
    \/ \E a \in Answers : Forget(a)

Spec == Init /\ [][Next]_vars /\ WF_vars(Work) /\ WF_vars(Serve) /\ WF_vars(Read)

-----------------------------------------------------------------------------
\* Every variable holds what the code can put there.
TypeOK ==
    /\ task \in {"running", "succeeded", "failed", "cancelled"}
    /\ \A i \in DOMAIN log : log[i].type \in {"started", "completed", "step", "task", "failed", "cancelled"}
    /\ \A a \in Answers : redis[a].pieces \subseteq 1..MaxPieces /\ redis[a].next \in 0..MaxPieces
    /\ worker.pc \in {"ready", "stream", "told", "call", "broken", "end"}
    /\ worker.answer \in 0..MaxAnswers /\ worker.seq \in 0..MaxPieces
    /\ conn.at \in {"pieces", "events", "state"} /\ conn.cursor \in 0..Len(log)
    /\ page.cursor \in 0..Len(log) /\ page.shown \in {"none", "part", "whole"}
    /\ Len(lost) <= MaxFaults

Writes == Lost("piece") \/ Lost("counter") \/ Lost("mark") \/ Lost("snapshot")
LastIs(a, i) == log[i].type = "completed" /\ log[i].answer = a
            /\ ~ \E j \in DOMAIN log : log[j].type = "started" /\ log[j].answer > a

\* The result never overtakes the end of the answer ("task.completed is the last event on
\* the wire"): who has it has seen all of the last answer, unless Redis lost something.
TailFirst ==
    page.over /\ task = "succeeded" /\ ~ Writes /\ ~ Lost("read") /\ ~ Lost("keys") =>
        \A i \in DOMAIN log : \A a \in Answers : LastIs(a, i) =>
            page.answer = a /\ Len(page.text) = log[i].final /\ page.shown = "whole"

\* Whatever connections and attempts are lost, the preview is one answer from its first
\* piece on, without a hole and without a repetition.
OneText == ~ Lost("piece") /\ ~ Lost("keys") => page.text = [i \in 1..Len(page.text) |-> i]

\* What answer.completed shows is the final text and no earlier snapshot of the preview.
FinalText == page.shown = "part" => Lost("snapshot")

Streamed == TailFirst /\ OneText /\ FinalText

\* A task that succeeded is reported to the page, whatever connections, reads and attempts
\* are lost on the way, if its last answer was not broken off and Redis kept all of it.
Whole == ~ Writes /\ ~ Lost("keys")
Delivered ==
    task = "succeeded" /\ Whole /\ (\E i \in DOMAIN log : \E a \in Answers : LastIs(a, i))
        => page.over
=============================================================================
