------------------------------ MODULE Outbox ------------------------------
(***************************************************************************)
(* Table outbox_events and the cron workers that drain it.  Every pod      *)
(* claims a batch of due rows every ten seconds, whether or not its        *)
(* previous batch is finished, and hands each row to its handler in a task *)
(* of its own.  A task ends by one unconditional UPDATE of the row, which  *)
(* may fail, or take effect and be reported as failed; a pod that crashes  *)
(* forgets its tasks and leaves their rows as they are.                    *)
(*                                                                         *)
(* Times are relative: wait is next_attempt_at minus the present, in       *)
(* seconds, and rows overdue by MaxLate or more are not told apart.  It is *)
(* kept at 0 while a row is not pending: nobody reads the column then.     *)
(***************************************************************************)
EXTENDS Integers, FiniteSets

CONSTANTS Events, Pods,
          BatchSize,     \* BATCH_SIZE, 50 in the code
          MaxAttempts,   \* MAX_ATTEMPTS, 10 in the code
          MaxBackoff,    \* MAX_BACKOFF_SECONDS, 3600 in the code
          MaxLate,       \* bound on how overdue a row can be
          Faults         \* which faults happen: "crash", "db"

ASSUME OutboxConstants ==
    /\ BatchSize \in Nat \ {0} /\ MaxAttempts \in Nat \ {0}
    /\ MaxBackoff \in Nat /\ MaxLate \in Nat
    /\ Faults \subseteq {"crash", "db"}

VARIABLES status,     \* of each row; "none" before it is enqueued
          attempts,   \* failed attempts recorded in the row
          wait,       \* next_attempt_at of the row, from now
          tasks,      \* the running calls of OutboxWorker.process
          delivered   \* the events some handler call has taken
vars == <<status, attempts, wait, tasks, delivered>>

OutboxStatus == {"none", "pending", "processing", "done", "failed"}

\* A task carries the row as it was claimed.
Task == [event : Events, pod : Pods, attempts : Nat,
         stage : {"handle", "ack", "nack"}]

TypeOK ==
    /\ status \in [Events -> OutboxStatus]
    /\ attempts \in [Events -> 0 .. MaxAttempts]
    /\ wait \in [Events -> -MaxLate .. MaxBackoff]
    /\ tasks \subseteq Task
    /\ delivered \subseteq Events

Init ==
    /\ status = [e \in Events |-> "none"]
    /\ attempts = [e \in Events |-> 0]
    /\ wait = [e \in Events |-> 0]
    /\ tasks = {}
    /\ delivered = {}

-----------------------------------------------------------------------------
Enqueue(e) ==
    /\ status[e] = "none"
    /\ status' = [status EXCEPT ![e] = "pending"]
    /\ UNCHANGED <<attempts, wait, tasks, delivered>>

\* Mutation: rows given up are claimed as well.
DueOrFailed == {e \in Events : status[e] \in {"pending", "failed"} /\ wait[e] <= 0}

Due == {e \in Events : status[e] = "pending" /\ wait[e] <= 0}

\* Mutation: a plain SELECT, which claims nothing.
ClaimBatchSelect(pod) ==
    \E batch \in SUBSET Due :
        /\ batch # {}
        /\ Cardinality(batch) <= BatchSize
        /\ tasks' = tasks \cup
              {[event |-> e, pod |-> pod, attempts |-> attempts[e],
                stage |-> "handle"] : e \in batch}
        /\ UNCHANGED <<status, attempts, wait, delivered>>

\* UPDATE ... WHERE id IN (SELECT ... ORDER BY next_attempt_at LIMIT
\* BatchSize FOR UPDATE SKIP LOCKED): the longest overdue rows, at once.
ClaimBatch(pod) ==
    \E batch \in SUBSET Due :
        /\ batch # {}
        /\ \/ batch = Due /\ Cardinality(Due) < BatchSize
           \/ Cardinality(batch) = BatchSize
        /\ \A e \in batch, d \in Due \ batch : wait[e] <= wait[d]
        /\ status' = [e \in Events |-> IF e \in batch THEN "processing"
                                       ELSE status[e]]
        /\ wait' = [e \in Events |-> IF e \in batch THEN 0 ELSE wait[e]]
        /\ tasks' = tasks \cup
              {[event |-> e, pod |-> pod, attempts |-> attempts[e],
                stage |-> "handle"] : e \in batch}
        /\ UNCHANGED <<attempts, delivered>>

MoveTo(t, stage) == tasks' = (tasks \ {t}) \cup {[t EXCEPT !.stage = stage]}

\* The handler of the event's type takes it, or throws.
HandleOk(t) ==
    /\ t.stage = "handle"
    /\ MoveTo(t, "ack")
    /\ delivered' = delivered \cup {t.event}
    /\ UNCHANGED <<status, attempts, wait>>

HandleFails(t) ==
    /\ t.stage = "handle"
    /\ MoveTo(t, "nack")
    /\ UNCHANGED <<status, attempts, wait, delivered>>

Finish(t) == tasks' = tasks \ {t}

MarkDone(t) ==
    /\ t.stage = "ack"
    /\ status' = [status EXCEPT ![t.event] = "done"]
    /\ Finish(t)
    /\ UNCHANGED <<attempts, wait, delivered>>

\* markDone throws: the catch block takes the event for a failed one.  The
\* UPDATE may have been committed all the same.
MarkDoneFails(t) ==
    /\ "db" \in Faults
    /\ t.stage = "ack"
    /\ \/ UNCHANGED status
       \/ status' = [status EXCEPT ![t.event] = "done"]
    /\ MoveTo(t, "nack")
    /\ UNCHANGED <<attempts, wait, delivered>>

Backoff(n) == IF 2 ^ n <= MaxBackoff THEN 2 ^ n ELSE MaxBackoff

\* Mutations: one attempt too many; attempts are not counted.
MarkFailedLate(t) ==
    LET n == t.attempts + 1
    IN  /\ t.stage = "nack"
        /\ attempts' = [attempts EXCEPT ![t.event] = n]
        /\ status' = [status EXCEPT ![t.event] =
                        IF n > MaxAttempts THEN "failed" ELSE "pending"]
        /\ wait' = [wait EXCEPT ![t.event] =
                        IF n > MaxAttempts THEN 0 ELSE Backoff(n)]
        /\ Finish(t)
        /\ UNCHANGED delivered
MarkFailedUncounted(t) ==
    /\ t.stage = "nack"
    /\ status' = [status EXCEPT ![t.event] = "pending"]
    /\ wait' = [wait EXCEPT ![t.event] = Backoff(t.attempts + 1)]
    /\ Finish(t)
    /\ UNCHANGED <<attempts, delivered>>

\* The next attempt is scheduled, or the event is given up.
MarkFailed(t) ==
    LET n == t.attempts + 1
    IN  /\ t.stage = "nack"
        /\ attempts' = [attempts EXCEPT ![t.event] = n]
        /\ status' = [status EXCEPT ![t.event] =
                        IF n >= MaxAttempts THEN "failed" ELSE "pending"]
        /\ wait' = [wait EXCEPT ![t.event] =
                        IF n >= MaxAttempts THEN 0 ELSE Backoff(n)]
        /\ Finish(t)
        /\ UNCHANGED delivered

\* markFailed throws: Promise.allSettled forgets the event.
MarkFailedFails(t) ==
    /\ "db" \in Faults
    /\ t.stage = "nack"
    /\ Finish(t)
    /\ UNCHANGED <<status, attempts, wait, delivered>>

Crash(pod) ==
    /\ "crash" \in Faults
    /\ \E t \in tasks : t.pod = pod
    /\ tasks' = {t \in tasks : t.pod # pod}
    /\ UNCHANGED <<status, attempts, wait, delivered>>

\* A second passes.
Tick ==
    /\ wait' = [e \in Events |-> IF status[e] = "pending" /\ wait[e] > -MaxLate
                                 THEN wait[e] - 1 ELSE wait[e]]
    /\ UNCHANGED <<status, attempts, tasks, delivered>>

Process(t) ==
    \/ HandleOk(t) \/ HandleFails(t) \/ MarkDone(t) \/ MarkFailed(t)
    \/ MarkDoneFails(t) \/ MarkFailedFails(t)

Next ==
    \/ \E e \in Events : Enqueue(e)
    \/ \E pod \in Pods : ClaimBatch(pod) \/ Crash(pod)
    \/ \E t \in tasks : Process(t)
    \/ Tick

Spec == Init /\ [][Next]_vars

\* The cron fires on some pod, a handler returns or throws, and time passes.
Fairness ==
    /\ WF_vars(\E pod \in Pods : ClaimBatch(pod))
    /\ \A e \in Events : WF_vars(\E t \in tasks : t.event = e /\ Process(t))
    /\ WF_vars(Tick)

FairSpec == Spec /\ Fairness

-----------------------------------------------------------------------------
\* No event is in the hands of two tasks, however many pods and overlapping
\* batches there are: a side effect is repeated only by a retry.
ExclusiveHandling ==
    \A t, r \in tasks : t.event = r.event => t = r

\* A row is marked done only if some handler took the event.
DoneMeansDelivered ==
    \A e \in Events : status[e] = "done" => e \in delivered

\* An event is given up after exactly MaxAttempts failures, and as long as it
\* is not, it has attempts left.
GivenUpAfterAllAttempts ==
    \A e \in Events : status[e] # "done" =>
        (status[e] = "failed" <=> attempts[e] = MaxAttempts)

\* What a row says is true, whichever answers of the database are lost
\* (outbox.worker.ts:69-90).
OutcomesHold == DoneMeansDelivered /\ GivenUpAfterAllAttempts

\* A row given up stays given up: no late task brings it back.
FailedIsFinal ==
    [][ \A e \in Events : status[e] = "failed" => status'[e] = "failed" ]_vars

\* A row left processing by a task that is gone.
Stranded(e) == status[e] = "processing" /\ \A t \in tasks : t.event # e

\* An event waiting for its turn gets it, among rows that keep failing and
\* handlers that throw, unless a fault strands its row.
SettledUnlessStranded ==
    \A e \in Events :
        status[e] = "pending" ~> status[e] \in {"done", "failed"} \/ Stranded(e)

\* outbox.service.ts: the outbox is there "guaranteeing we never lose a side
\* effect", so every event enqueued is done or given up in the end.
EventuallySettled ==
    \A e \in Events : status[e] = "pending" ~> status[e] \in {"done", "failed"}
=============================================================================
