---------------------------- MODULE CronProofs ----------------------------
(* What the crons promise, whatever pods run them and whatever fails:      *)
(* Outbox, for any number of events, pods and attempts; Notices, for any   *)
(* pods, tokens, cycles and scenes; Trials, for any activations and runs.  *)
EXTENDS Outbox, MCNotices, TLAPS

-----------------------------------------------------------------------------
(* Outbox                                                                  *)

\* The types of what the proof speaks of; it never looks at wait.
RowTypes ==
    /\ status \in [Events -> OutboxStatus]
    /\ attempts \in [Events -> 0 .. MaxAttempts]
    /\ tasks \subseteq Task

\* A running task owns its row: nobody else has touched it since the claim,
\* except for the UPDATE of the task itself whose answer was lost.
TaskOwnsRow ==
    \A t \in tasks :
        /\ t.attempts = attempts[t.event]
        /\ attempts[t.event] < MaxAttempts
        /\ \/ status[t.event] = "processing"
           \/ status[t.event] = "done" /\ t.stage = "nack"
        /\ t.stage = "ack" => t.event \in delivered

\* The inductive invariant.
OutboxInv ==
    /\ RowTypes
    /\ TaskOwnsRow
    /\ ExclusiveHandling
    /\ DoneMeansDelivered
    /\ GivenUpAfterAllAttempts

\* The invariant holds before anything is enqueued.
LEMMA InitOutboxInv == Init => OutboxInv
BY OutboxConstants
   DEF Init, OutboxInv, RowTypes, TaskOwnsRow, ExclusiveHandling,
       DoneMeansDelivered, GivenUpAfterAllAttempts, OutboxStatus

\* Claiming keeps the invariant: the claimed rows were pending, so no task had
\* them, and no two tasks are created for one of them.
LEMMA ClaimKeepsInv ==
    ASSUME OutboxInv, NEW pod \in Pods, ClaimBatch(pod)
    PROVE  OutboxInv'
<1> DEFINE new(b) == {[event |-> e, pod |-> pod, attempts |-> attempts[e],
                       stage |-> "handle"] : e \in b}
<1>1. PICK batch \in SUBSET Due :
          /\ status' = [e \in Events |-> IF e \in batch THEN "processing"
                                         ELSE status[e]]
          /\ tasks' = tasks \cup new(batch)
          /\ UNCHANGED <<attempts, delivered>>
    BY DEF ClaimBatch
<1>2. \A e \in batch : e \in Events /\ status[e] = "pending"
    BY DEF Due
<1>3. \A t \in tasks : t \in Task /\ t.event \in Events /\ t.event \notin batch
    BY <1>2 DEF OutboxInv, RowTypes, TaskOwnsRow, Task
<1>4. \A t \in new(batch) :
          /\ t \in Task /\ t.event \in batch /\ t.stage = "handle"
          /\ t = [event |-> t.event, pod |-> pod,
                  attempts |-> attempts[t.event], stage |-> "handle"]
    BY <1>2, OutboxConstants DEF OutboxInv, RowTypes, Task
<1>5. RowTypes'
    BY <1>1, <1>4 DEF OutboxInv, RowTypes, OutboxStatus
<1>6. \A e \in batch : attempts[e] < MaxAttempts
    BY <1>2, OutboxConstants DEF OutboxInv, RowTypes, GivenUpAfterAllAttempts
<1>7. TaskOwnsRow'
    BY <1>1, <1>2, <1>3, <1>4, <1>6 DEF OutboxInv, RowTypes, TaskOwnsRow
<1>8. ExclusiveHandling'
    BY <1>1, <1>3, <1>4 DEF OutboxInv, ExclusiveHandling
<1>9. DoneMeansDelivered'
    BY <1>1 DEF OutboxInv, DoneMeansDelivered
<1>10. GivenUpAfterAllAttempts'
    BY <1>1, <1>2 DEF OutboxInv, GivenUpAfterAllAttempts
<1> QED
    BY <1>5, <1>7, <1>8, <1>9, <1>10 DEF OutboxInv

\* A task that goes on to its next stage keeps the invariant.
LEMMA MoveKeepsInv ==
    ASSUME OutboxInv, NEW t \in tasks,
           NEW stage \in {"ack", "nack"}, MoveTo(t, stage),
           UNCHANGED attempts,
           \/ UNCHANGED status
           \/ /\ stage = "nack" /\ t.stage = "ack"
              /\ status' = [status EXCEPT ![t.event] = "done"],
           \/ UNCHANGED delivered
           \/ delivered' = delivered \cup {t.event},
           stage = "ack" => t.event \in delivered',
           t.stage \in {"handle", "ack"}
    PROVE  OutboxInv'
<1> DEFINE s == [t EXCEPT !.stage = stage]
<1>1. t \in Task /\ t.event \in Events
    BY DEF OutboxInv, RowTypes, Task
<1>2. s \in Task /\ s.event = t.event /\ s.attempts = t.attempts /\ s.stage = stage
    BY <1>1 DEF Task
<1>3. tasks' = (tasks \ {t}) \cup {s}
    BY DEF MoveTo
<1>4. \A r \in tasks \ {t} : r \in Task /\ r.event \in Events /\ r.event # t.event
    BY DEF OutboxInv, RowTypes, Task, ExclusiveHandling
<1>5. RowTypes'
    BY <1>1, <1>2, <1>3 DEF OutboxInv, RowTypes, OutboxStatus
<1>6. status[t.event] = "processing" /\ attempts[t.event] < MaxAttempts
    BY DEF OutboxInv, TaskOwnsRow
<1>7. TaskOwnsRow'
    <2>1. \A r \in tasks \ {t} : status'[r.event] = status[r.event]
        BY <1>4, <1>1 DEF OutboxInv, RowTypes
    <2>2. \/ status'[t.event] = "processing"
          \/ status'[t.event] = "done" /\ stage = "nack"
        BY <1>6, <1>1 DEF OutboxInv, RowTypes
    <2> QED
        BY <1>1, <1>2, <1>3, <1>4, <1>6, <2>1, <2>2 DEF OutboxInv, TaskOwnsRow
<1>8. ExclusiveHandling'
    BY <1>2, <1>3, <1>4 DEF OutboxInv, ExclusiveHandling
<1>9. DoneMeansDelivered'
    BY <1>1 DEF OutboxInv, RowTypes, TaskOwnsRow, DoneMeansDelivered
<1>10. GivenUpAfterAllAttempts'
    BY <1>1, <1>6 DEF OutboxInv, RowTypes, GivenUpAfterAllAttempts
<1> QED
    BY <1>5, <1>7, <1>8, <1>9, <1>10 DEF OutboxInv

\* A task that ends keeps the invariant, whatever it wrote to its own row, as
\* long as what it wrote is right about the attempts.
LEMMA FinishKeepsInv ==
    ASSUME OutboxInv, NEW t \in tasks, Finish(t),
           NEW st \in OutboxStatus, NEW n \in 0 .. MaxAttempts,
           status' = [status EXCEPT ![t.event] = st],
           attempts' = [attempts EXCEPT ![t.event] = n],
           UNCHANGED delivered,
           st = "done" => t.event \in delivered,
           st # "done" => (st = "failed" <=> n = MaxAttempts)
    PROVE  OutboxInv'
<1>1. t \in Task /\ t.event \in Events
    BY DEF OutboxInv, RowTypes, Task
<1>2. tasks' = tasks \ {t}
    BY DEF Finish
<1>3. \A r \in tasks \ {t} : r \in Task /\ r.event \in Events /\ r.event # t.event
    BY DEF OutboxInv, RowTypes, Task, ExclusiveHandling
<1>4. \A r \in tasks \ {t} : /\ status'[r.event] = status[r.event]
                             /\ attempts'[r.event] = attempts[r.event]
    BY <1>1, <1>3 DEF OutboxInv, RowTypes
<1>5. RowTypes'
    BY <1>1, <1>2 DEF OutboxInv, RowTypes
<1>6. TaskOwnsRow'
    BY <1>2, <1>4 DEF OutboxInv, TaskOwnsRow
<1>7. ExclusiveHandling'
    BY <1>2 DEF OutboxInv, ExclusiveHandling
<1>8. DoneMeansDelivered'
    BY <1>1 DEF OutboxInv, RowTypes, DoneMeansDelivered
<1>9. GivenUpAfterAllAttempts'
    BY <1>1 DEF OutboxInv, RowTypes, GivenUpAfterAllAttempts
<1> QED
    BY <1>5, <1>6, <1>7, <1>8, <1>9 DEF OutboxInv

\* Every step of a task keeps the invariant.
LEMMA ProcessKeepsInv ==
    ASSUME OutboxInv, NEW t \in tasks, Process(t)
    PROVE  OutboxInv'
<1>1. /\ t \in Task /\ t.event \in Events
      /\ t.attempts = attempts[t.event]
      /\ attempts[t.event] \in 0 .. MaxAttempts /\ attempts[t.event] < MaxAttempts
      /\ status[t.event] \in OutboxStatus
    BY DEF OutboxInv, RowTypes, TaskOwnsRow, Task
<1>2. CASE HandleOk(t)
    BY <1>2, MoveKeepsInv DEF HandleOk
<1>3. CASE HandleFails(t)
    BY <1>3, MoveKeepsInv DEF HandleFails
<1>4. CASE MarkDone(t)
    <2>1. t.event \in delivered
        BY <1>4 DEF MarkDone, OutboxInv, TaskOwnsRow
    <2>2. attempts' = [attempts EXCEPT ![t.event] = attempts[t.event]]
        BY <1>4, <1>1 DEF MarkDone, OutboxInv, RowTypes
    <2> QED
        BY <1>1, <1>4, <2>1, <2>2, FinishKeepsInv DEF MarkDone, OutboxStatus
<1>5. CASE MarkDoneFails(t)
    BY <1>5, MoveKeepsInv DEF MarkDoneFails
<1>6. CASE MarkFailed(t)
    <2> DEFINE n == t.attempts + 1
               st == IF n >= MaxAttempts THEN "failed" ELSE "pending"
    <2>1. n \in 0 .. MaxAttempts /\ st \in OutboxStatus
        BY <1>1, OutboxConstants DEF OutboxStatus
    <2>2. /\ status' = [status EXCEPT ![t.event] = st]
          /\ attempts' = [attempts EXCEPT ![t.event] = n]
          /\ Finish(t) /\ UNCHANGED delivered
        BY <1>6 DEF MarkFailed
    <2>3. st # "done" /\ (st = "failed" <=> n = MaxAttempts)
        BY <2>1, OutboxConstants
    <2> HIDE DEF n, st
    <2> QED
        BY <2>1, <2>2, <2>3, FinishKeepsInv
<1>7. CASE MarkFailedFails(t)
    <2>1. /\ status' = [status EXCEPT ![t.event] = status[t.event]]
          /\ attempts' = [attempts EXCEPT ![t.event] = attempts[t.event]]
        BY <1>7, <1>1 DEF MarkFailedFails, OutboxInv, RowTypes
    <2>2. /\ status[t.event] = "done" => t.event \in delivered
          /\ status[t.event] # "done" =>
                (status[t.event] = "failed" <=> attempts[t.event] = MaxAttempts)
        BY <1>1 DEF OutboxInv, DoneMeansDelivered, GivenUpAfterAllAttempts
    <2> QED
        BY <1>1, <1>7, <2>1, <2>2, FinishKeepsInv DEF MarkFailedFails
<1> QED
    BY <1>2, <1>3, <1>4, <1>5, <1>6, <1>7 DEF Process

\* Every step keeps the invariant.
LEMMA NextKeepsInv == OutboxInv /\ [Next]_vars => OutboxInv'
<1> SUFFICES ASSUME OutboxInv, [Next]_vars
             PROVE  OutboxInv'
    OBVIOUS
<1>1. CASE \E e \in Events : Enqueue(e)
    <2>1. PICK e \in Events : Enqueue(e)
        BY <1>1
    <2>2. RowTypes'
        BY <2>1 DEF Enqueue, OutboxInv, RowTypes, OutboxStatus
    <2>3. TaskOwnsRow' /\ ExclusiveHandling'
        BY <2>1 DEF Enqueue, OutboxInv, RowTypes, Task, TaskOwnsRow, ExclusiveHandling
    <2>4. DoneMeansDelivered' /\ GivenUpAfterAllAttempts'
        BY <2>1 DEF Enqueue, OutboxInv, RowTypes, DoneMeansDelivered,
                    GivenUpAfterAllAttempts
    <2> QED
        BY <2>2, <2>3, <2>4 DEF OutboxInv
<1>2. CASE \E pod \in Pods : ClaimBatch(pod)
    BY <1>2, ClaimKeepsInv
<1>3. CASE \E pod \in Pods : Crash(pod)
    BY <1>3 DEF Crash, OutboxInv, RowTypes, TaskOwnsRow, ExclusiveHandling,
                DoneMeansDelivered, GivenUpAfterAllAttempts
<1>4. CASE \E t \in tasks : Process(t)
    BY <1>4, ProcessKeepsInv
<1>5. CASE Tick \/ UNCHANGED vars
    BY <1>5 DEF Tick, vars, OutboxInv, RowTypes, TaskOwnsRow, ExclusiveHandling,
                DoneMeansDelivered, GivenUpAfterAllAttempts
<1> QED
    BY <1>1, <1>2, <1>3, <1>4, <1>5 DEF Next

\* The invariant holds of every reachable state.
LEMMA OutboxInvHolds == Spec => []OutboxInv
BY InitOutboxInv, NextKeepsInv, PTL DEF Spec

\* No event is ever in the hands of two tasks: claimBatch's status flip is
\* enough for any number of pods and overlapping cron ticks.
THEOREM Exclusive == Spec => []ExclusiveHandling
BY OutboxInvHolds, PTL DEF OutboxInv

\* A row says done only of an event some handler took, and is given up after
\* exactly MaxAttempts failures, also when answers of the database are lost.
THEOREM OutcomesAreTrue == Spec => []OutcomesHold
BY OutboxInvHolds, PTL DEF OutboxInv, OutcomesHold

\* No step takes a row out of failed: its last task was the one that gave up.
THEOREM GivenUpForGood == Spec => FailedIsFinal
<1>1. ASSUME OutboxInv, [Next]_vars
      PROVE  \A e \in Events : status[e] = "failed" => status'[e] = "failed"
    <2> SUFFICES ASSUME NEW e \in Events, status[e] = "failed"
                 PROVE  status'[e] = "failed"
        OBVIOUS
    <2>1. \A t \in tasks : t.event # e
        BY <1>1 DEF OutboxInv, TaskOwnsRow
    <2>2. CASE \E d \in Events : Enqueue(d)
        BY <1>1, <2>2 DEF Enqueue, OutboxInv, RowTypes
    <2>3. CASE \E pod \in Pods : ClaimBatch(pod)
        BY <1>1, <2>3 DEF ClaimBatch, Due
    <2>4. CASE \E t \in tasks : Process(t)
        BY <1>1, <2>4, <2>1 DEF Process, HandleOk, HandleFails, MarkDone, MarkDoneFails,
                          MarkFailed, MarkFailedFails, OutboxInv, RowTypes
    <2>5. CASE (\E pod \in Pods : Crash(pod)) \/ Tick \/ UNCHANGED vars
        BY <2>5 DEF Crash, Tick, vars
    <2> QED
        BY <1>1, <2>2, <2>3, <2>4, <2>5 DEF Next
<1> QED
    BY <1>1, OutboxInvHolds, PTL DEF Spec, FailedIsFinal
-----------------------------------------------------------------------------
(* Notices                                                                 *)

\* The age of the last claim of a kind is that of its last notice or less: a
\* notice is sent in the half-day of its claim.
ClaimBeforeNotice(k) ==
    ago[k] # Never => row.last[k] # Never /\ row.last[k] <= ago[k]

\* A pod that writes has claimed in this half-day, so nobody else can claim.
WritersClaimed == \A p \in CronPods : Note!Writing(p) => row.last[run[p].kind] = 0

\* A token is cleared because it was refused.
ClearedIsRefused == \A p \in CronPods : run[p].step = "clear" => run[p].token \in refused

NoticesInv ==
    /\ Note!TypeOK
    /\ \A k \in Note!Claimed : ClaimBeforeNotice(k)
    /\ WritersClaimed
    /\ ClearedIsRefused
    /\ Note!NoticesSpaced

\* Ages are counted up to the oldest and compared only when there is one.
LEMMA AgeFacts ==
    ASSUME Note!NoticesConstants
    PROVE  /\ Note!Oldest \in Nat /\ Note!Cycle \in Nat /\ Note!Cycle >= 4
           /\ 0 \in Note!Ages /\ Never \in Note!Ages /\ 0 # Never
           /\ \A a \in Note!Ages : Note!Older(a) \in Note!Ages
           /\ \A a \in Note!Ages : a # Never => a \in Nat
           /\ \A a, b \in Note!Ages : b # Never /\ a # Never /\ a <= b
                  => Note!Older(a) # Never /\ Note!Older(b) # Never /\ Note!Older(a) <= Note!Older(b)
           /\ \A a \in Note!Ages : Note!Older(a) # Never => a # Never
           /\ \A k : Note!Recent(0, k)
           /\ \A k : \A a, b \in Note!Ages : a # Never /\ a <= b /\ Note!Recent(b, k) => Note!Recent(a, k)
           /\ \A k : ~Note!Recent(Never, k)
<1>1. /\ Days \in Nat /\ Days >= 2 /\ Never \notin Nat
  BY DEF Note!NoticesConstants
<1>2. Note!Cycle = 2 * Days /\ Note!Oldest = 2 * Days + 1
         /\ Note!Ages = 0 .. (2 * Days + 1) \cup {Never}
  BY DEF Note!Cycle, Note!Oldest, Note!Ages
<1>3. \A k : Note!Window(k) \in Nat /\ Note!Window(k) >= 1
  BY <1>1, <1>2 DEF Note!Window
<1>4. \A a \in Note!Ages : a # Never => a \in 0 .. (2 * Days + 1) /\ a \in Nat
  BY <1>1, <1>2
<1>5. \A a \in Note!Ages : /\ a = Never => Note!Older(a) = Never
                           /\ a # Never => /\ Note!Older(a) \in 0 .. (2 * Days + 1)
                                           /\ Note!Older(a) = IF a = 2 * Days + 1 THEN a ELSE a + 1
  BY <1>1, <1>2, <1>4 DEF Note!Older
<1>6. /\ 0 \in Note!Ages /\ Never \in Note!Ages /\ 0 # Never
      /\ \A a \in Note!Ages : Note!Older(a) \in Note!Ages
  BY <1>1, <1>2, <1>5
<1>7. /\ \A a, b \in Note!Ages : b # Never /\ a # Never /\ a <= b
             => Note!Older(a) # Never /\ Note!Older(b) # Never /\ Note!Older(a) <= Note!Older(b)
      /\ \A a \in Note!Ages : Note!Older(a) # Never => a # Never
  BY <1>1, <1>4, <1>5
<1>8. /\ \A k : Note!Recent(0, k) /\ ~Note!Recent(Never, k)
      /\ \A k : \A a, b \in Note!Ages : a # Never /\ a <= b /\ Note!Recent(b, k) => Note!Recent(a, k)
  BY <1>1, <1>3, <1>4 DEF Note!Recent
<1> QED
  BY <1>1, <1>2, <1>4, <1>6, <1>7, <1>8

RunRecord == [step : {"idle", "claim", "email", "push", "clear", "stamp"},
              kind : Note!Kinds, token : Tokens \cup {None}, email : BOOLEAN]
RowRecord == [enabled : BOOLEAN, weekly : BOOLEAN, email : BOOLEAN,
              token : Tokens \cup {None}, last : [Note!Kinds -> Note!Ages], updated : Note!Ages]

LEMMA NoticeTypes ==
    ASSUME Note!TypeOK
    PROVE  /\ row \in RowRecord /\ run \in [CronPods -> RunRecord] /\ ago \in [Note!Kinds -> Note!Ages]
           /\ row.last \in [Note!Kinds -> Note!Ages] /\ Note!Idle \in RunRecord
           /\ Note!Claimed \subseteq Note!Kinds /\ dead \subseteq Tokens
           /\ refused \subseteq Tokens \cup {None}
BY DEF Note!TypeOK, RowRecord, RunRecord, Note!Idle, Note!Kinds, Note!Pushes,
       Note!Emails, Note!Endings, Note!Claimed

\* A step after which whoever writes did so before, and claims and notices of
\* the kinds with a claim are what they were.
LEMMA QuietNotice ==
    ASSUME NoticesInv, Note!TypeOK', refused \subseteq refused',
           \A k \in Note!Claimed : row'.last[k] = row.last[k] /\ ago'[k] = ago[k],
           \A q \in CronPods : \/ run'[q] = run[q]
                           \/ /\ ~(run'[q].step \in {"email", "push"} /\ run'[q].kind \in Note!Claimed)
                              /\ run'[q].step = "clear" => run'[q].token \in refused'
    PROVE  NoticesInv'
<1>1. \A k \in Note!Claimed : ClaimBeforeNotice(k)'
  BY DEF NoticesInv, ClaimBeforeNotice
<1>2. \A q \in CronPods : Note!Writing(q)' => run'[q] = run[q] /\ Note!Writing(q)
  BY DEF Note!Writing
<1>3. WritersClaimed'
  BY <1>2 DEF NoticesInv, WritersClaimed, Note!Writing
<1>4. ClearedIsRefused'
  BY DEF NoticesInv, ClearedIsRefused
<1>5. Note!NoticesSpaced'
  <2> SUFFICES ASSUME NEW q \in CronPods, Note!Writing(q)'
               PROVE  /\ Note!Recent(ago'[run'[q].kind], run'[q].kind) =>
                            run'[q].kind = "reminders" /\ run'[q].step = "push"
                      /\ \A r \in CronPods \ {q} : Note!Writing(r)' => run'[r].kind # run'[q].kind
    BY DEF Note!NoticesSpaced, Note!Recent, Note!Window, Note!Cycle
  <2>1. /\ run'[q] = run[q] /\ Note!Writing(q) /\ run[q].kind \in Note!Claimed
        /\ \A r \in CronPods \ {q} : Note!Writing(r)' => run'[r] = run[r] /\ Note!Writing(r)
    BY <1>2 DEF Note!Writing
  <2> QED
    BY <2>1 DEF NoticesInv, Note!NoticesSpaced
<1> QED
  BY <1>1, <1>3, <1>4, <1>5 DEF NoticesInv

\* What follows a push is no writing under the claim of the push.
LEMMA ProceedFacts ==
    ASSUME Note!TypeOK, NEW p \in CronPods, Note!Proceed(p)
    PROVE  /\ run' \in [CronPods -> RunRecord]
           /\ \A q \in CronPods \ {p} : run'[q] = run[q]
           /\ ~(run'[p].step \in {"email", "push"} /\ run'[p].kind \in Note!Claimed)
           /\ run'[p].step # "clear"
<1>1. run \in [CronPods -> RunRecord] /\ Note!Idle \in RunRecord
  BY NoticeTypes
<1>2. CASE Note!Finish(p)
  BY <1>1, <1>2 DEF Note!Finish, Note!Idle
<1>3. CASE run[p].kind \in Note!Endings /\ Note!Goto(p, "email")
  BY <1>1, <1>3 DEF Note!Goto, RunRecord, Note!Claimed
<1>4. CASE run' = [run EXCEPT ![p].kind = "proEmail", ![p].step = "claim"]
  BY <1>1, <1>4 DEF RunRecord, Note!Kinds, Note!Emails
<1> QED
  BY <1>2, <1>3, <1>4 DEF Note!Proceed

\* A cron starts: kinds with a claim begin by claiming.
LEMMA StartNotice ==
    ASSUME NoticesInv, NEW p \in CronPods, NEW k \in Note!Kinds, Note!Start(p, k)
    PROVE  NoticesInv'
<1>1. /\ run \in [CronPods -> RunRecord] /\ row \in RowRecord
  BY NoticeTypes DEF NoticesInv
<1>2. /\ run' = [run EXCEPT ![p] = [step |-> Note!FirstStep(k), kind |-> k,
                                   token |-> row.token, email |-> row.email]]
      /\ UNCHANGED <<scene, half, row, suppressed, dead, refused, ago, presence>>
  BY DEF Note!Start
<1>3. /\ Note!FirstStep(k) \in {"claim", "push", "email"}
      /\ k \in Note!Claimed => Note!FirstStep(k) = "claim"
  BY DEF Note!FirstStep
<1>4. /\ run' \in [CronPods -> RunRecord] /\ \A q \in CronPods \ {p} : run'[q] = run[q]
      /\ run'[p].step = Note!FirstStep(k) /\ run'[p].kind = k
  BY <1>1, <1>2, <1>3 DEF RunRecord, RowRecord
<1>5. Note!TypeOK'
  BY <1>2, <1>4 DEF NoticesInv, Note!TypeOK, RunRecord, Note!Ages, Note!Oldest, Note!Cycle
<1> QED
  BY <1>2, <1>3, <1>4, <1>5, QuietNotice

\* A run fails, is refused, clears a token, stamps the report, or dies.
LEMMA RunNotice ==
    ASSUME NoticesInv, Note!NoticesConstants, NEW p \in CronPods,
           Note!PushFails(p) \/ Note!PushRefused(p) \/ Note!ClearDeadToken(p)
              \/ Note!StampReport(p) \/ Note!Crash(p)
    PROVE  NoticesInv'
<1>1. /\ run \in [CronPods -> RunRecord] /\ row \in RowRecord /\ Note!Idle \in RunRecord
      /\ Note!TypeOK /\ 0 \in Note!Ages
  BY NoticeTypes, AgeFacts DEF NoticesInv
<1>2. /\ UNCHANGED <<scene, half, suppressed, dead, ago, presence>>
      /\ refused' = refused \/ refused' = refused \cup {run[p].token}
      /\ row' = row \/ row' = [row EXCEPT !.token = None, !.updated = 0]
         \/ row' = [row EXCEPT !.last = [row.last EXCEPT !["monthly"] = 0], !.updated = 0]
  BY DEF Note!PushFails, Note!PushRefused, Note!ClearDeadToken, Note!StampReport,
         Note!Crash, Note!Update
<1>3. row' \in RowRecord /\ \A k \in Note!Claimed : row'.last[k] = row.last[k]
  <2>1. row.last \in [Note!Kinds -> Note!Ages] /\ "monthly" \notin Note!Claimed
           /\ Note!Claimed \subseteq Note!Kinds
    BY <1>1 DEF RowRecord, Note!Claimed
  <2>2. [row.last EXCEPT !["monthly"] = 0] \in [Note!Kinds -> Note!Ages]
    BY <1>1, <2>1
  <2>3. /\ [row EXCEPT !.last = [row.last EXCEPT !["monthly"] = 0], !.updated = 0] \in RowRecord
        /\ [row EXCEPT !.last = [row.last EXCEPT !["monthly"] = 0], !.updated = 0].last
              = [row.last EXCEPT !["monthly"] = 0]
    BY <1>1, <2>2 DEF RowRecord
  <2>4. /\ [row EXCEPT !.token = None, !.updated = 0] \in RowRecord
        /\ [row EXCEPT !.token = None, !.updated = 0].last = row.last
    BY <1>1 DEF RowRecord
  <2> QED
    BY <1>1, <1>2, <2>1, <2>3, <2>4
<1>4. /\ run' \in [CronPods -> RunRecord] /\ \A q \in CronPods \ {p} : run'[q] = run[q]
      /\ ~(run'[p].step \in {"email", "push"} /\ run'[p].kind \in Note!Claimed)
      /\ run'[p].step = "clear" => run'[p].token \in refused'
  <2>1. CASE Note!Proceed(p)
    BY <1>1, <2>1, ProceedFacts
  <2>2. CASE Note!Finish(p)
    BY <1>1, <2>2 DEF Note!Finish, Note!Idle
  <2>3. CASE Note!PushRefused(p)
    BY <1>1, <2>3 DEF Note!PushRefused, Note!Goto, RunRecord
  <2> QED
    BY <2>1, <2>2, <2>3 DEF Note!PushFails, Note!ClearDeadToken, Note!StampReport, Note!Crash
<1>5. refused \subseteq refused' /\ refused' \subseteq Tokens \cup {None}
  <2>1. run[p].token \in Tokens \cup {None} /\ refused \subseteq Tokens \cup {None}
    BY <1>1 DEF RunRecord, Note!TypeOK
  <2> QED
    BY <1>2, <2>1
<1>6. Note!TypeOK'
  BY <1>1, <1>2, <1>3, <1>4, <1>5 DEF Note!TypeOK, RunRecord, RowRecord, Note!Ages,
                                      Note!Oldest, Note!Cycle
<1> QED
  BY <1>2, <1>3, <1>4, <1>5, <1>6, QuietNotice

\* What the user and the mail provider do meanwhile.
LEMMA UserNotice ==
    ASSUME NoticesInv, Note!NoticesConstants,
           \/ Note!ChangeSettings \/ Note!Uninstall \/ Note!Suppress \/ Note!Leave
           \/ \E t \in Tokens : Note!RegisterPushToken(t)
    PROVE  NoticesInv'
<1>1. row \in RowRecord /\ Note!TypeOK /\ 0 \in Note!Ages
  BY NoticeTypes, AgeFacts DEF NoticesInv
<1>2. /\ UNCHANGED <<scene, half, run, ago>> /\ suppressed' \in BOOLEAN
      /\ presence' \in {"here", "gone", "nudged"}
      /\ dead' \subseteq Tokens /\ refused' = refused
  BY <1>1 DEF Note!ChangeSettings, Note!Uninstall, Note!Suppress, Note!Leave,
              Note!RegisterPushToken, Note!Aside,
     Note!TypeOK, RowRecord
<1>3. row' \in RowRecord /\ row'.last = row.last
  <2>1. CASE Note!ChangeSettings
    <3>1. PICK column \in {"enabled", "weekly", "email"} : \E b \in BOOLEAN :
            row' = [row EXCEPT ![column] = b, !.updated = 0]
      BY <2>1 DEF Note!ChangeSettings, Note!Update
    <3> QED
      BY <1>1, <3>1 DEF RowRecord
  <2>2. CASE \E t \in Tokens : Note!RegisterPushToken(t)
    BY <1>1, <2>2 DEF Note!RegisterPushToken, Note!Update, RowRecord
  <2>3. CASE UNCHANGED row
    BY <1>1, <2>3
  <2> QED
    BY <2>1, <2>2, <2>3 DEF Note!Uninstall, Note!Suppress, Note!Leave
<1>4. Note!TypeOK'
  BY <1>1, <1>2, <1>3 DEF Note!TypeOK, RowRecord, Note!Ages, Note!Oldest, Note!Cycle
<1> QED
  BY <1>2, <1>3, <1>4, QuietNotice

\* The UPDATE that claims finds the column within its window, and the run goes
\* on without writing; or sets it, and no notice of the kind was that recent.
LEMMA ClaimNotice ==
    ASSUME NoticesInv, Note!NoticesConstants, NEW p \in CronPods, Note!Claim(p)
    PROVE  NoticesInv'
<1> DEFINE k == run[p].kind
<1>1. /\ run \in [CronPods -> RunRecord] /\ row \in RowRecord /\ ago \in [Note!Kinds -> Note!Ages]
      /\ row.last \in [Note!Kinds -> Note!Ages] /\ Note!TypeOK /\ 0 \in Note!Ages /\ Note!Claimed \subseteq Note!Kinds
  BY NoticeTypes, AgeFacts DEF NoticesInv
<1>2. /\ k \in Note!Kinds /\ run[p].step = "claim"
      /\ UNCHANGED <<scene, half, suppressed, dead, refused, ago, presence>>
  BY <1>1 DEF Note!Claim, Note!At, RunRecord
<1>3. CASE Note!Recent(row.last[k], k)
  <2>1. Note!Proceed(p) /\ UNCHANGED row
    BY <1>3 DEF Note!Claim
  <2>2. /\ run' \in [CronPods -> RunRecord] /\ \A q \in CronPods \ {p} : run'[q] = run[q]
        /\ ~(run'[p].step \in {"email", "push"} /\ run'[p].kind \in Note!Claimed)
        /\ run'[p].step # "clear"
    BY <1>1, <2>1, ProceedFacts
  <2>3. Note!TypeOK'
    BY <1>1, <1>2, <2>1, <2>2 DEF Note!TypeOK, RunRecord, Note!Ages, Note!Oldest, Note!Cycle
  <2> QED
    BY <1>2, <2>1, <2>2, <2>3, QuietNotice
<1>4. CASE ~Note!Recent(row.last[k], k)
  <2> DEFINE last == [row.last EXCEPT ![k] = 0]
  <2>1. /\ Note!Goto(p, Note!Channel(run[p]))
        /\ row' = [row EXCEPT !.last = last, !.updated = 0]
    BY <1>1, <1>4 DEF Note!Claim, Note!Update, RowRecord
  <2>2. last \in [Note!Kinds -> Note!Ages] /\ last[k] = 0 /\ \A m \in Note!Kinds \ {k} : last[m] = row.last[m]
    BY <1>1, <1>2
  <2> HIDE DEF last, k
  <2>3. row' \in RowRecord /\ row'.last = last
    BY <1>1, <2>1, <2>2 DEF RowRecord
  <2>4. Note!Channel(run[p]) \in {"push", "email", "idle"}
    BY DEF Note!Channel
  <2>5. /\ run' \in [CronPods -> RunRecord] /\ \A q \in CronPods \ {p} : run'[q] = run[q]
        /\ run'[p].step = Note!Channel(run[p]) /\ run'[p].kind = k
    BY <1>1, <2>1, <2>4 DEF Note!Goto, RunRecord, k
  <2>6. Note!TypeOK'
    BY <1>1, <1>2, <2>3, <2>5 DEF Note!TypeOK, RunRecord, RowRecord, Note!Ages,
                                  Note!Oldest, Note!Cycle
  <2>7. ASSUME NEW m \in Note!Claimed PROVE ClaimBeforeNotice(m)'
    <3>1. ago[m] # Never => row.last[m] # Never /\ row.last[m] <= ago[m]
      BY DEF NoticesInv, ClaimBeforeNotice
    <3>2. ago[m] # Never => ago[m] \in Nat
      BY <1>1, AgeFacts
    <3>3. 0 # Never
      BY AgeFacts
    <3>4. m \in Note!Kinds /\ ago'[m] = ago[m] /\ row'.last[m] = IF m = k THEN 0 ELSE row.last[m]
      BY <1>1, <1>2, <2>2, <2>3
    <3> QED
      BY <3>1, <3>2, <3>3, <3>4 DEF ClaimBeforeNotice
  <2>8. \A q \in CronPods \ {p} : Note!Writing(q) => run[q].kind # k
    <3> SUFFICES ASSUME NEW q \in CronPods \ {p}, Note!Writing(q), run[q].kind = k PROVE FALSE
      OBVIOUS
    <3>1. row.last[k] = 0
      BY DEF NoticesInv, WritersClaimed
    <3> QED
      BY <1>4, <3>1, AgeFacts DEF k
  <2>9. WritersClaimed'
    <3> SUFFICES ASSUME NEW q \in CronPods, Note!Writing(q)' PROVE row'.last[run'[q].kind] = 0
      BY DEF WritersClaimed
    <3>1. CASE q = p
      BY <2>2, <2>3, <2>5, <3>1
    <3>2. CASE q # p
      <4>1. run'[q] = run[q] /\ Note!Writing(q) /\ run[q].kind \in Note!Kinds
        BY <1>1, <2>5, <3>2 DEF Note!Writing
      <4>2. row.last[run[q].kind] = 0
        BY <4>1 DEF NoticesInv, WritersClaimed
      <4> QED
        BY <2>2, <2>3, <4>1, <4>2
    <3> QED
      BY <3>1, <3>2
  <2>10. ClearedIsRefused'
    BY <1>2, <2>4, <2>5 DEF NoticesInv, ClearedIsRefused
  <2>11. k \in Note!Claimed => ~Note!Recent(ago[k], k)
    <3> SUFFICES ASSUME k \in Note!Claimed, Note!Recent(ago[k], k) PROVE FALSE
      OBVIOUS
    <3>1. ago[k] # Never => row.last[k] # Never /\ row.last[k] <= ago[k]
      BY DEF NoticesInv, ClaimBeforeNotice
    <3>2. ago[k] \in Note!Ages /\ row.last[k] \in Note!Ages
      BY <1>1
    <3>3. ago[k] # Never
      BY AgeFacts
    <3>4. Note!Recent(row.last[k], k)
      BY <3>1, <3>2, <3>3, AgeFacts
    <3> QED
      BY <1>4, <3>4 DEF k
  <2>12. Note!NoticesSpaced'
    <3> SUFFICES ASSUME NEW q \in CronPods, Note!Writing(q)'
                 PROVE  /\ Note!Recent(ago'[run'[q].kind], run'[q].kind) =>
                              run'[q].kind = "reminders" /\ run'[q].step = "push"
                        /\ \A r \in CronPods \ {q} : Note!Writing(r)' => run'[r].kind # run'[q].kind
      BY DEF Note!NoticesSpaced, Note!Recent, Note!Window, Note!Cycle
    <3>1. \A r \in CronPods \ {p} : Note!Writing(r)' => Note!Writing(r) /\ run'[r] = run[r]
      BY <2>5 DEF Note!Writing
    <3>2. CASE q = p
      <4>1. k \in Note!Claimed
        BY <2>5, <3>2 DEF Note!Writing
      <4> QED
        BY <1>2, <2>5, <2>8, <2>11, <3>1, <3>2, <4>1
    <3>3. CASE q # p
      <4>1. /\ Note!Writing(q) /\ run'[q] = run[q] /\ run[q].kind # k
            /\ Note!Recent(ago[run[q].kind], run[q].kind) =>
                  run[q].kind = "reminders" /\ run[q].step = "push"
            /\ \A r \in CronPods \ {q} : Note!Writing(r) => run[r].kind # run[q].kind
        BY <2>8, <3>1, <3>3 DEF NoticesInv, Note!NoticesSpaced
      <4> QED
        BY <1>2, <2>5, <3>1, <4>1
    <3> QED
      BY <3>2, <3>3
  <2> QED
    BY <2>6, <2>7, <2>9, <2>10, <2>12 DEF NoticesInv
<1> QED
  BY <1>3, <1>4

\* A notice is sent, and dated, in the half-day of its claim; or it is one of a
\* kind without a claim.
LEMMA SendNotice ==
    ASSUME NoticesInv, Note!NoticesConstants, NEW p \in CronPods, Note!SendEmail(p) \/ Note!Deliver(p)
    PROVE  NoticesInv'
<1> DEFINE k == run[p].kind
<1>1. /\ run \in [CronPods -> RunRecord] /\ row \in RowRecord /\ ago \in [Note!Kinds -> Note!Ages]
      /\ Note!TypeOK /\ 0 \in Note!Ages /\ Note!Claimed \subseteq Note!Kinds /\ Note!Idle \in RunRecord
      /\ k \in Note!Kinds
  BY NoticeTypes, AgeFacts DEF NoticesInv, RunRecord
<1>2. /\ UNCHANGED <<scene, half, row, suppressed, dead, refused>>
      /\ presence' \in {"here", "gone", "nudged"}
      /\ run[p].step \in {"email", "push"}
      /\ ago' = ago \/ ago' = [ago EXCEPT ![k] = 0]
  BY <1>1 DEF Note!SendEmail, Note!Deliver, Note!At, Note!TypeOK
<1> HIDE DEF k
<1>3. /\ run' \in [CronPods -> RunRecord] /\ \A q \in CronPods \ {p} : run'[q] = run[q]
      /\ run'[p].step # "clear"
      /\ \/ ~(run'[p].step \in {"email", "push"} /\ run'[p].kind \in Note!Claimed)
         \/ run'[p].step = "push" /\ run'[p].kind = k /\ k = "reminders"
  <2>1. CASE Note!SendEmail(p)
    <3>1. \/ Note!Finish(p)
          \/ run' = [run EXCEPT ![p] = Note!Idle]
          \/ k = "monthly" /\ run' = [run EXCEPT ![p].step = "stamp"]
          \/ k = "reminders" /\ run' = [run EXCEPT ![p].step = "push"]
      BY <2>1 DEF Note!SendEmail, k
    <3>2. "monthly" \notin Note!Claimed /\ Note!Idle.step = "idle" /\ Note!Idle.kind = "reminders"
      BY DEF Note!Claimed, Note!Idle
    <3>3. CASE run' = [run EXCEPT ![p] = Note!Idle]
      BY <1>1, <3>2, <3>3
    <3>4. CASE k = "monthly" /\ run' = [run EXCEPT ![p].step = "stamp"]
      <4>1. run'[p] = [run[p] EXCEPT !.step = "stamp"] /\ run[p] \in RunRecord
        BY <1>1, <3>4
      <4>2. run'[p] \in RunRecord /\ run'[p].step = "stamp"
        BY <4>1 DEF RunRecord
      <4> QED
        BY <1>1, <3>4, <4>2
    <3>5. CASE k = "reminders" /\ run' = [run EXCEPT ![p].step = "push"]
      <4>1. run'[p] = [run[p] EXCEPT !.step = "push"] /\ run[p] \in RunRecord
        BY <1>1, <3>5
      <4>2. run'[p] \in RunRecord /\ run'[p].step = "push" /\ run'[p].kind = k
        BY <4>1 DEF RunRecord, k
      <4> QED
        BY <1>1, <3>5, <4>2
    <3> QED
      BY <3>1, <3>3, <3>4, <3>5 DEF Note!Finish
  <2>2. CASE Note!Deliver(p)
    BY <1>1, <2>2, ProceedFacts DEF Note!Deliver
  <2> QED
    BY <2>1, <2>2
<1>4. Note!TypeOK'
  BY <1>1, <1>2, <1>3 DEF Note!TypeOK, RunRecord, Note!Ages, Note!Oldest, Note!Cycle
<1>5. CASE k \notin Note!Claimed
  <2>1. \A m \in Note!Claimed : ago'[m] = ago[m]
    BY <1>1, <1>2, <1>5
  <2>2. "reminders" \in Note!Claimed
    BY DEF Note!Claimed, Note!Kinds, Note!Endings
  <2> QED
    BY <1>2, <1>3, <1>4, <1>5, <2>1, <2>2, QuietNotice
<1>6. CASE k \in Note!Claimed
  <2>1. Note!Writing(p) /\ row.last[k] = 0 /\ 0 # Never
    BY <1>2, <1>6, AgeFacts DEF Note!Writing, NoticesInv, WritersClaimed, k
  <2>2. ASSUME NEW m \in Note!Claimed PROVE ClaimBeforeNotice(m)'
    <3>1. ago[m] # Never => row.last[m] # Never /\ row.last[m] <= ago[m]
      BY DEF NoticesInv, ClaimBeforeNotice
    <3>2. m \in Note!Kinds /\ ago'[m] \in {ago[m], 0} /\ (m # k => ago'[m] = ago[m])
      BY <1>1, <1>2
    <3> QED
      BY <1>2, <2>1, <3>1, <3>2 DEF ClaimBeforeNotice
  <2>3. \A q \in CronPods \ {p} : Note!Writing(q) => run[q].kind # k
    BY <2>1 DEF NoticesInv, Note!NoticesSpaced, k
  <2>4. \A q \in CronPods \ {p} : Note!Writing(q)' => Note!Writing(q) /\ run'[q] = run[q]
    BY <1>3 DEF Note!Writing
  <2>5. Note!Writing(p)' => run'[p].step = "push" /\ run'[p].kind = k /\ k = "reminders"
    BY <1>3 DEF Note!Writing
  <2>6. WritersClaimed'
    BY <1>2, <2>1, <2>4, <2>5 DEF NoticesInv, WritersClaimed
  <2>7. ClearedIsRefused'
    BY <1>2, <1>3 DEF NoticesInv, ClearedIsRefused
  <2>8. Note!NoticesSpaced'
    <3> SUFFICES ASSUME NEW q \in CronPods, Note!Writing(q)'
                 PROVE  /\ Note!Recent(ago'[run'[q].kind], run'[q].kind) =>
                              run'[q].kind = "reminders" /\ run'[q].step = "push"
                        /\ \A r \in CronPods \ {q} : Note!Writing(r)' => run'[r].kind # run'[q].kind
      BY DEF Note!NoticesSpaced, Note!Recent, Note!Window, Note!Cycle
    <3>1. CASE q = p
      BY <2>3, <2>4, <2>5, <3>1
    <3>2. CASE q # p
      <4>1. /\ Note!Writing(q) /\ run'[q] = run[q] /\ run[q].kind # k
            /\ Note!Recent(ago[run[q].kind], run[q].kind) =>
                  run[q].kind = "reminders" /\ run[q].step = "push"
            /\ \A r \in CronPods \ {q} : Note!Writing(r) => run[r].kind # run[q].kind
        BY <2>3, <2>4, <3>2 DEF NoticesInv, Note!NoticesSpaced
      <4>2. ago'[run[q].kind] = ago[run[q].kind]
        BY <1>1, <1>2, <4>1 DEF RunRecord
      <4> QED
        BY <2>4, <2>5, <4>1, <4>2
    <3> QED
      BY <3>1, <3>2
  <2> QED
    BY <1>4, <2>2, <2>6, <2>7, <2>8 DEF NoticesInv
<1> QED
  BY <1>5, <1>6

\* Time passes when nobody writes: every age grows alike.
LEMMA TickNotice ==
    ASSUME NoticesInv, Note!NoticesConstants, Note!Tick
    PROVE  NoticesInv'
<1>1. /\ run \in [CronPods -> RunRecord] /\ row \in RowRecord /\ ago \in [Note!Kinds -> Note!Ages]
      /\ row.last \in [Note!Kinds -> Note!Ages] /\ Note!TypeOK /\ Note!Claimed \subseteq Note!Kinds
      /\ row.updated \in Note!Ages /\ Note!Cycle \in Nat /\ Note!Cycle >= 4
      /\ \A a \in Note!Ages : Note!Older(a) \in Note!Ages
  BY NoticeTypes, AgeFacts DEF NoticesInv, RowRecord
<1>2. /\ \A p \in CronPods : run[p].step = "idle"
      /\ half' = (half + 1) % Note!Cycle
      /\ row' = [row EXCEPT !.updated = Note!Older(row.updated),
                            !.last = [m \in Note!Kinds |-> Note!Older(row.last[m])]]
      /\ ago' = [m \in Note!Kinds |-> Note!Older(ago[m])]
      /\ UNCHANGED <<scene, suppressed, dead, refused, run, presence>>
  BY <1>1 DEF Note!Tick, Note!At, RowRecord
<1>3. /\ [m \in Note!Kinds |-> Note!Older(row.last[m])] \in [Note!Kinds -> Note!Ages]
      /\ Note!Older(row.updated) \in Note!Ages
      /\ ago' \in [Note!Kinds -> Note!Ages]
  BY <1>1, <1>2
<1>4. row' \in RowRecord /\ row'.last = [m \in Note!Kinds |-> Note!Older(row.last[m])]
  BY <1>1, <1>2, <1>3 DEF RowRecord
<1>5. half' \in 0 .. Note!Cycle - 1
  <2>1. half \in 0 .. Note!Cycle - 1
    BY DEF NoticesInv, Note!TypeOK
  <2>2. half + 1 \in Nat /\ Note!Cycle \in Nat /\ Note!Cycle > 0
    BY <1>1, <2>1
  <2> QED
    BY ONLY <1>2, <2>2
<1>6. Note!TypeOK'
  BY <1>1, <1>2, <1>3, <1>4, <1>5 DEF Note!TypeOK, RowRecord, Note!Ages, Note!Oldest, Note!Cycle
<1>7. ASSUME NEW m \in Note!Claimed PROVE ClaimBeforeNotice(m)'
  <2>1. ago[m] # Never => row.last[m] # Never /\ row.last[m] <= ago[m]
    BY DEF NoticesInv, ClaimBeforeNotice
  <2>2. /\ m \in Note!Kinds /\ ago[m] \in Note!Ages /\ row.last[m] \in Note!Ages
        /\ ago'[m] = Note!Older(ago[m]) /\ row'.last[m] = Note!Older(row.last[m])
    BY <1>1, <1>2, <1>4
  <2>3. Note!Older(ago[m]) # Never =>
           Note!Older(row.last[m]) # Never /\ Note!Older(row.last[m]) <= Note!Older(ago[m])
    BY <2>1, <2>2, AgeFacts
  <2> QED
    BY <2>2, <2>3 DEF ClaimBeforeNotice
<1>8. \A p \in CronPods : ~Note!Writing(p)' /\ run'[p].step = "idle"
  BY <1>2 DEF Note!Writing
<1>9. WritersClaimed' /\ ClearedIsRefused' /\ Note!NoticesSpaced'
  BY <1>8 DEF WritersClaimed, ClearedIsRefused, Note!NoticesSpaced
<1> QED
  BY <1>6, <1>7, <1>9 DEF NoticesInv

\* Nothing is claimed or sent at first.
LEMMA InitNotice == ASSUME Note!NoticesConstants, Note!Init PROVE NoticesInv
<1>1. 0 \in Note!Ages /\ Never \in Note!Ages /\ Note!Cycle \in Nat /\ Note!Cycle >= 4
  BY AgeFacts
<1>2. 1 \in 0 .. Note!Cycle - 1
  BY ONLY <1>1
<1>3. Note!TypeOK
  BY <1>1, <1>2 DEF Note!Init, Note!TypeOK, Note!Idle, Note!Kinds, Note!Pushes,
                    Note!Emails, Note!Endings
<1>4. \A p \in CronPods : run[p].step = "idle"
  BY DEF Note!Init, Note!Idle
<1>5. \A m \in Note!Kinds : ago[m] = Never
  BY DEF Note!Init
<1>6. \A m \in Note!Claimed : ClaimBeforeNotice(m)
  BY <1>5 DEF ClaimBeforeNotice, Note!Claimed
<1>7. WritersClaimed /\ ClearedIsRefused /\ Note!NoticesSpaced
  BY <1>4 DEF WritersClaimed, ClearedIsRefused, Note!NoticesSpaced, Note!Writing
<1> QED
  BY <1>3, <1>6, <1>7 DEF NoticesInv

\* One case per action of Next.
LEMMA NextNotice == NoticesInv /\ Note!NoticesConstants /\ [Note!Next]_(Note!vars) => NoticesInv'
<1> SUFFICES ASSUME NoticesInv, Note!NoticesConstants, [Note!Next]_(Note!vars) PROVE NoticesInv'
  OBVIOUS
<1>1. CASE Note!Tick
  BY <1>1, TickNotice
<1>2. CASE Note!ChangeSettings \/ Note!Uninstall \/ Note!Suppress \/ Note!Leave
           \/ \E t \in Tokens : Note!RegisterPushToken(t)
  BY <1>2, UserNotice
<1>3. ASSUME NEW p \in CronPods, Note!Step(p) \/ Note!Crash(p) PROVE NoticesInv'
  BY <1>3, ClaimNotice, SendNotice, RunNotice DEF Note!Step
<1>4. ASSUME NEW p \in CronPods, NEW k \in Note!Kinds, Note!Start(p, k) PROVE NoticesInv'
  BY <1>4, StartNotice
<1>5. CASE UNCHANGED Note!vars
  <2>1. UNCHANGED <<scene, half, row, suppressed, dead, refused, run, ago, presence>>
    BY <1>5 DEF Note!vars
  <2>2. Note!TypeOK'
    BY <2>1 DEF NoticesInv, Note!TypeOK, Note!Ages, Note!Oldest, Note!Cycle
  <2> QED
    BY <2>1, <2>2, QuietNotice
<1> QED
  BY <1>1, <1>2, <1>3, <1>4, <1>5 DEF Note!Next

\* Claims come before notices and keep other runs away, in every state.
THEOREM NoticesInvariant == ASSUME Note!NoticesConstants PROVE Note!Spec => []NoticesInv
<1>1. Note!Init => NoticesInv
  BY InitNotice
<1>2. NoticesInv /\ [Note!Next]_(Note!vars) => NoticesInv'
  BY NextNotice
<1> QED
  BY <1>1, <1>2, PTL DEF Note!Spec

\* Whatever pods run the crons, crash or start over: one run at a time writes a
\* notice that has a claim, and only once its window has passed since the last
\* (claimNotification).
THEOREM NoticesAreSpaced == ASSUME Note!NoticesConstants PROVE Note!Spec => []NoticesSpaced
<1>1. NoticesInv => NoticesSpaced
  BY DEF NoticesInv, NoticesSpaced
<1> QED
  BY <1>1, NoticesInvariant, PTL

\* For any pods, tokens and crons: no push that is refused takes another token than
\* the one it was sent to (clearDeadToken, against registerPushToken).
THEOREM OnlyRefusedAreCleared == ASSUME Note!NoticesConstants PROVE Note!Spec => OnlyRefusedCleared
<1>1. ASSUME NoticesInv, [Note!Next]_(Note!vars), row.token \in Tokens \ refused
      PROVE  row'.token # None
  <2>1. None \notin Tokens /\ row \in RowRecord /\ row.token # None
    BY <1>1, NoticeTypes DEF Note!NoticesConstants, NoticesInv
  <2>2. CASE Note!ChangeSettings
    <3>1. PICK column \in {"enabled", "weekly", "email"} : \E b \in BOOLEAN :
            row' = [row EXCEPT ![column] = b, !.updated = 0]
      BY <2>2 DEF Note!ChangeSettings, Note!Update
    <3> QED
      BY <2>1, <3>1 DEF RowRecord
  <2>3. CASE \E t \in Tokens : Note!RegisterPushToken(t)
    BY <2>1, <2>3 DEF Note!RegisterPushToken, Note!Update, RowRecord
  <2>4. ASSUME NEW p \in CronPods, Note!ClearDeadToken(p) PROVE row'.token # None
    <3>1. run[p].step = "clear" /\ run[p].token \in refused
      BY <1>1, <2>4 DEF Note!ClearDeadToken, Note!At, NoticesInv, ClearedIsRefused
    <3> QED
      BY <1>1, <2>1, <2>4, <3>1 DEF Note!ClearDeadToken
  <2>5. ASSUME NEW p \in CronPods, Note!Claim(p) \/ Note!StampReport(p) PROVE row'.token # None
    BY <2>1, <2>5 DEF Note!Claim, Note!StampReport, Note!Update, RowRecord
  <2>6. CASE Note!Tick
    BY <2>1, <2>6 DEF Note!Tick, RowRecord
  <2>7. CASE UNCHANGED row
    BY <2>1, <2>7
  <2> QED
    BY <1>1, <2>2, <2>3, <2>4, <2>5, <2>6, <2>7
       DEF Note!Next, Note!Step, Note!Uninstall, Note!Suppress, Note!Leave, Note!Crash,
           Note!Start, Note!SendEmail,
           Note!Deliver, Note!PushFails, Note!PushRefused, Note!vars
<1> QED
  BY <1>1, NoticesInvariant, PTL DEF Note!Spec, OnlyRefusedCleared, Note!OnlyRefusedCleared

-----------------------------------------------------------------------------
(* Trials                                                                  *)

\* The inductive invariant: an activation that has inserted its row is alone,
\* no row is committed meanwhile, and the event it commits is one.
Activations ==
    act \in [Requests -> [step : Try!Steps, queued : 0 .. 1,
                          source : {"backend", "revenuecat_intro"}]]
InsertedAlone ==
    \A r \in Requests : Try!Inserted(r) =>
        /\ trial = "none"
        /\ act[r].step = "commit" => act[r].queued = 1
        /\ \A q \in Requests \ {r} : ~Try!Inserted(q)
TrialsInv ==
    /\ Activations
    /\ used => trial # "none"
    /\ InsertedAlone
    /\ Try!TrialAnnouncedOnce

\* What an activation does before its row is committed changes nothing else,
\* and nobody else has a row in the table.
LEMMA ActStep ==
    ASSUME TrialsInv, NEW r \in Requests, UNCHANGED <<trial, used, announced>>,
           Activations', \A q \in Requests \ {r} : act'[q] = act[q],
           Try!Inserted(r)' =>
              /\ trial = "none"
              /\ act'[r].step = "commit" => act'[r].queued = 1
              /\ \A q \in Requests \ {r} : ~Try!Inserted(q)
    PROVE  TrialsInv'
<1>1. \A q \in Requests \ {r} : Try!Inserted(q)' <=> Try!Inserted(q)
  BY DEF Try!Inserted
<1>2. InsertedAlone'
  BY <1>1 DEF TrialsInv, InsertedAlone
<1> QED
  BY <1>2 DEF TrialsInv, Try!TrialAnnouncedOnce

\* A row that is in the table never goes, and only an activation puts it there.
LEMMA NextTrial ==
    ASSUME TrialsInv, [Try!Next]_(Try!vars)
    PROVE  TrialsInv'
<1>1. Activations /\ InsertedAlone /\ Try!TrialAnnouncedOnce /\ (used => trial # "none")
  BY DEF TrialsInv
<1>2. ASSUME NEW r \in Requests,
             Try!StartTrial(r) \/ Try!LookForTrial(r) \/ Try!CheckUser(r)
                \/ Try!Rollback(r) \/ Try!Purchase(r)
      PROVE  TrialsInv'
  <2>1. /\ UNCHANGED <<trial, used, announced>> /\ Activations'
        /\ \A q \in Requests \ {r} : act'[q] = act[q]
    BY <1>1, <1>2 DEF Activations, Try!StartTrial, Try!LookForTrial, Try!CheckUser, Try!Rollback,
       Try!Purchase, Try!Goto, Try!At, Try!Activation, Try!Account, Try!userRow,
       Try!Granted, Try!Steps
  <2>2. act'[r] = act[r] \/ act'[r].step \in {"idle", "look", "user", "insert"}
    BY <1>1, <1>2 DEF Activations, Try!StartTrial, Try!LookForTrial, Try!CheckUser, Try!Rollback,
       Try!Purchase, Try!Goto, Try!At, Try!Activation
  <2> QED
    BY <1>1, <2>1, <2>2, ActStep DEF InsertedAlone, Try!Inserted
<1>3. ASSUME NEW r \in Requests, Try!InsertTrial(r) PROVE TrialsInv'
  <2>1. /\ UNCHANGED <<trial, used, announced>> /\ Activations'
        /\ \A q \in Requests \ {r} : act'[q] = act[q] /\ ~Try!Inserted(q)
        /\ act'[r].step = IF trial = "none" THEN "audit" ELSE "idle"
    BY <1>1, <1>3 DEF Activations, Try!InsertTrial, Try!Goto, Try!At, Try!Account,
                      Try!userRow, Try!Steps
  <2> QED
    BY <2>1, ActStep DEF Try!Inserted
<1>4. ASSUME NEW r \in Requests, Try!Audit(r) \/ Try!Enqueue(r) PROVE TrialsInv'
  <2>1. /\ UNCHANGED <<trial, used, announced>> /\ Try!Inserted(r)
        /\ \/ act' = [act EXCEPT ![r].step = "enqueue"]
           \/ act' = [act EXCEPT ![r].step = "commit", ![r].queued = 1]
    BY <1>4 DEF Try!Audit, Try!Enqueue, Try!Goto, Try!At, Try!Account, Try!userRow, Try!Inserted
  <2>2. /\ Activations' /\ \A q \in Requests \ {r} : act'[q] = act[q]
        /\ act'[r].step = "commit" => act'[r].queued = 1
    <3>1. CASE act' = [act EXCEPT ![r].step = "enqueue"]
      <4>1. act'[r] = [act[r] EXCEPT !.step = "enqueue"] /\ \A q \in Requests \ {r} : act'[q] = act[q]
        BY <1>1, <3>1 DEF Activations
      <4>2. Activations'
        BY <1>1, <3>1 DEF Activations, Try!Steps
      <4> QED
        BY <1>1, <4>1, <4>2 DEF Activations
    <3>2. CASE act' = [act EXCEPT ![r].step = "commit", ![r].queued = 1]
      <4> DEFINE mid == [act EXCEPT ![r].step = "commit"]
      <4>1. act' = [mid EXCEPT ![r].queued = 1]
        BY <3>2
      <4>2. /\ mid \in [Requests -> [step : Try!Steps, queued : 0 .. 1,
                                     source : {"backend", "revenuecat_intro"}]]
            /\ mid[r].step = "commit" /\ \A q \in Requests \ {r} : mid[q] = act[q]
        BY <1>1 DEF Activations, Try!Steps
      <4> HIDE DEF mid
      <4>3. Activations'
        BY <4>1, <4>2 DEF Activations, Try!Steps
      <4> QED
        BY <4>1, <4>2, <4>3
    <3> QED
      BY <2>1, <3>1, <3>2
  <2> QED
    BY <1>1, <2>1, <2>2, ActStep DEF InsertedAlone
<1>5. ASSUME NEW r \in Requests, Try!Commit(r) PROVE TrialsInv'
  <2>1. /\ trial = "none" /\ act[r].queued = 1 /\ ~used /\ announced = 0
        /\ \A q \in Requests \ {r} : ~Try!Inserted(q)
    BY <1>1, <1>5 DEF Try!Commit, Try!At, Try!Inserted, InsertedAlone, Try!TrialAnnouncedOnce
  <2>2. /\ Activations' /\ act'[r].step = "idle" /\ trial' = "running" /\ ~used'
        /\ announced' = 1 /\ \A q \in Requests \ {r} : act'[q] = act[q]
    BY <1>1, <1>5, <2>1 DEF Try!Commit, Try!Goto, Try!Account, Try!userRow, Activations, Try!Steps
  <2>3. \A q \in Requests : ~Try!Inserted(q)'
    BY <2>1, <2>2 DEF Try!Inserted
  <2> QED
    BY <2>2, <2>3 DEF TrialsInv, InsertedAlone, Try!TrialAnnouncedOnce
<1>6. CASE Try!TrialEnds
  <2>1. trial = "running" /\ trial' = "over" /\ UNCHANGED <<act, used, announced>>
    BY <1>6 DEF Try!TrialEnds
  <2>2. \A q \in Requests : ~Try!Inserted(q)'
    BY <1>1, <2>1 DEF InsertedAlone, Try!Inserted
  <2> QED
    BY <1>1, <2>1, <2>2 DEF TrialsInv, Activations, InsertedAlone, Try!TrialAnnouncedOnce
<1>7. CASE UNCHANGED <<act, trial, used, announced>>
  BY <1>1, <1>7 DEF TrialsInv, Activations, InsertedAlone, Try!Inserted, Try!TrialAnnouncedOnce
<1> QED
  BY <1>2, <1>3, <1>4, <1>5, <1>6, <1>7
     DEF Try!Next, Try!vars, Try!SubscriptionEnds, Try!Query, Try!Expire, Try!Clear,
         Try!CronDies, Try!Granted,
         Try!userRow

\* However many activations there are, of whatever origin, and whatever is
\* rolled back: a user has one trial at most, and it is announced exactly once
\* (TrialsService.activate).
THEOREM TrialsAnnouncedOnce == Try!Spec => []TrialAnnouncedOnce
<1>1. Try!Init => TrialsInv
  BY DEF Try!Init, TrialsInv, Activations, InsertedAlone, Try!Inserted, Try!TrialAnnouncedOnce,
     Try!Activation, Try!Steps
<1>2. TrialsInv /\ [Try!Next]_(Try!vars) => TrialsInv'
  BY NextTrial
<1>3. TrialsInv => TrialAnnouncedOnce
  BY DEF TrialsInv, TrialAnnouncedOnce
<1> QED
  BY <1>1, <1>2, <1>3, PTL DEF Try!Spec
=============================================================================
