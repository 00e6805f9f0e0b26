------------------------------- MODULE Trials -------------------------------
(***************************************************************************)
(* The trial of one user: TrialsService.activate, called by the app and by *)
(* the webhook of a store's introductory offer, and the crons that end     *)
(* trials.  A user who had a trial before user_trials was introduced has   *)
(* the older columns of users as well, and the plan of the trial in        *)
(* user_billing; activate leaves both alone, and such trials are known to  *)
(* the resolver of access alone.                                           *)
(***************************************************************************)
EXTENDS Naturals

CONSTANTS Requests,   \* activations under way
          CronRuns    \* runs of the crons, on any pod

VARIABLES billing,    \* plan and billingSource in user_billing
          trial,      \* the row of user_trials: "none", "running" or "over"
          used,       \* users.trialUsed: nothing sets it any more
          legacyEnd,  \* users.trialEndDate: "none", "running" or "over"
          customer,   \* users.lemonSqueezyCustomerId is set
          downgraded, \* users.downgradedAt is set
          announced,  \* trial_started events in the outbox
          audited,    \* an audit row says a trial was activated
          act,        \* request -> its step, the source, the events it enqueued
          cron        \* cron run -> its step, which cron it is, the row it read
vars == <<billing, trial, used, legacyEnd, customer, downgraded, announced,
          audited, act, cron>>
userRow == <<used, legacyEnd, customer, downgraded>>

Ends == {"none", "running", "over"}
Sources == {"none", "revenuecat"}
Free == [plan |-> "free", source |-> "none"]
Steps == {"idle", "look", "user", "insert", "audit", "enqueue", "commit"}

TypeOK ==
    /\ billing \in [plan : {"free", "pro"}, source : Sources]
    /\ trial \in Ends /\ legacyEnd \in Ends
    /\ used \in BOOLEAN /\ customer \in BOOLEAN /\ downgraded \in BOOLEAN
    /\ announced \in Nat /\ audited \in BOOLEAN
    /\ act \in [Requests -> [step : Steps, queued : 0 .. 1,
                            source : {"backend", "revenuecat_intro"}]]
    /\ cron \in [CronRuns -> [step : {"idle", "expire", "clear"},
                              job : {"daily", "hourly"}, marked : BOOLEAN]]

Activation(step, source) == [step |-> step, source |-> source, queued |-> 0]

\* A new user, or one of before: the migration copied the columns.
Init ==
    /\ \/ /\ billing = Free /\ trial = "none"
          /\ used = FALSE /\ legacyEnd = "none"
       \/ /\ billing = [Free EXCEPT !.plan = "pro"] /\ trial = "running"
          /\ used = TRUE /\ legacyEnd = "running"
    /\ customer \in BOOLEAN /\ downgraded = FALSE
    /\ announced = 0 /\ audited = FALSE
    /\ act = [r \in Requests |-> Activation("idle", "backend")]
    /\ cron = [p \in CronRuns |-> [step |-> "idle", job |-> "daily", marked |-> FALSE]]

-----------------------------------------------------------------------------
(* TrialsService.activate                                                  *)

At(r, step) == act[r].step = step
Goto(r, step) == act' = [act EXCEPT ![r].step = step]
Account == <<billing, userRow, cron>>

\* POST /billing/trial.
StartTrial(r) ==
    /\ At(r, "idle") /\ act' = [act EXCEPT ![r] = Activation("look", "backend")]
    /\ UNCHANGED <<trial, announced, audited, Account>>

\* FOR UPDATE locks the row that is there, and nothing when there is none.
LookForTrial(r) ==
    /\ At(r, "look") /\ Goto(r, IF trial = "none" THEN "user" ELSE "idle")
    /\ UNCHANGED <<trial, announced, audited, Account>>

CheckUser(r) ==
    /\ At(r, "user")
    /\ Goto(r, IF act[r].source = "backend" /\ billing.plan # "free"
               THEN "idle" ELSE "insert")
    /\ UNCHANGED <<trial, announced, audited, Account>>

\* UNIQUE(user_id): an insert waits for the transaction that has made one, and
\* fails if that commits.
Inserted(r) == act[r].step \in {"audit", "enqueue", "commit"}
InsertTrial(r) ==
    /\ At(r, "insert") /\ \A q \in Requests : ~Inserted(q)
    /\ Goto(r, IF trial = "none" THEN "audit" ELSE "idle")
    /\ UNCHANGED <<trial, announced, audited, Account>>

\* On a connection of its own, whatever becomes of the transaction; it never
\* throws.
Audit(r) ==
    /\ At(r, "audit") /\ Goto(r, "enqueue")
    /\ audited' \in {audited, TRUE}
    /\ UNCHANGED <<trial, announced, Account>>

\* Mutation: the manager is not passed on, and the event commits at once.
EnqueueAtOnce(r) ==
    /\ At(r, "enqueue") /\ Goto(r, "commit")
    /\ announced' = announced + 1
    /\ UNCHANGED <<trial, audited, Account>>

\* In the transaction.
Enqueue(r) ==
    /\ At(r, "enqueue")
    /\ act' = [act EXCEPT ![r].step = "commit", ![r].queued = 1]
    /\ UNCHANGED <<trial, announced, audited, Account>>

Commit(r) ==
    /\ At(r, "commit") /\ Goto(r, "idle")
    /\ trial' = "running"
    /\ announced' = announced + act[r].queued
    /\ UNCHANGED <<audited, Account>>

\* A query fails, the commit fails, or the pod dies.
Rollback(r) ==
    /\ Inserted(r) /\ Goto(r, "idle")
    /\ UNCHANGED <<trial, announced, audited, Account>>

-----------------------------------------------------------------------------
(* The store                                                               *)

Granted == <<trial, announced, audited>>

\* INITIAL_PURCHASE; an introductory offer is a trial too, activated after the
\* webhook's own transaction.
Purchase(r) ==
    /\ At(r, "idle") /\ billing.source = "none"
    /\ billing' = [plan |-> "pro", source |-> "revenuecat"]
    /\ \/ UNCHANGED act
       \/ act' = [act EXCEPT ![r] = Activation("look", "revenuecat_intro")]
    /\ UNCHANGED <<Granted, userRow, cron>>

SubscriptionEnds ==
    /\ billing.source = "revenuecat"
    /\ billing' = Free /\ downgraded' = TRUE
    /\ UNCHANGED <<Granted, used, legacyEnd, customer, act, cron>>

-----------------------------------------------------------------------------
(* The crons: downgradeExpiredTrials daily, expireTrials hourly            *)

Expired(job) ==
    /\ billing = [plan |-> "pro", source |-> "none"] /\ used /\ ~customer
    /\ IF job = "hourly" THEN legacyEnd = "over"
       ELSE trial = "over" \/ (trial = "none" /\ legacyEnd = "over")

Query(p, job) ==
    /\ cron[p].step = "idle" /\ Expired(job)
    /\ cron' = [cron EXCEPT ![p] = [step |-> "expire", job |-> job, marked |-> downgraded]]
    /\ UNCHANGED <<billing, Granted, userRow, act>>

\* TRIAL_EXPIRED, on the row as it is by now.
Expire(p) ==
    /\ cron[p].step = "expire" /\ cron' = [cron EXCEPT ![p].step = "clear"]
    /\ billing' = IF billing.source = "revenuecat" THEN billing ELSE Free
    /\ UNCHANGED <<Granted, userRow, act>>

\* The daily cron marks the user, whose row it has read before, as one who had
\* Pro, and then tells them; the hourly one only clears the date.
Clear(p) ==
    /\ cron[p].step = "clear" /\ cron' = [cron EXCEPT ![p].step = "idle", ![p].marked = FALSE]
    /\ legacyEnd' = "none"
    /\ downgraded' = (downgraded \/ cron[p].job = "daily")
    /\ UNCHANGED <<billing, Granted, used, customer, act>>

CronDies(p) ==
    /\ cron[p].step # "idle" /\ cron' = [cron EXCEPT ![p].step = "idle"]
    /\ UNCHANGED <<billing, Granted, userRow, act>>

TrialEnds ==
    /\ trial = "running" /\ trial' = "over"
    /\ legacyEnd' = IF legacyEnd = "running" THEN "over" ELSE legacyEnd
    /\ UNCHANGED <<billing, used, customer, downgraded, announced, audited, act, cron>>

-----------------------------------------------------------------------------
Next ==
    \/ SubscriptionEnds \/ TrialEnds
    \/ \E r \in Requests :
          \/ StartTrial(r) \/ LookForTrial(r) \/ CheckUser(r) \/ InsertTrial(r)
          \/ Audit(r) \/ Enqueue(r) \/ Commit(r) \/ Rollback(r) \/ Purchase(r)
    \/ \E p \in CronRuns :
          \/ Query(p, "daily") \/ Query(p, "hourly")
          \/ Expire(p) \/ Clear(p) \/ CronDies(p)

Spec == Init /\ [][Next]_vars

\* Trials end; the crons run again and again and do not die at every row.
Fairness ==
    /\ WF_vars(TrialEnds)
    /\ \A p \in CronRuns :
          /\ SF_vars(Query(p, "daily")) /\ SF_vars(Query(p, "hourly"))
          /\ SF_vars(Expire(p)) /\ SF_vars(Clear(p))

FairSpec == Spec /\ Fairness

-----------------------------------------------------------------------------
\* Of two activations one is granted, and it alone is announced, whatever is
\* rolled back (TrialsService.activate; a trial of before had no announcement).
TrialAnnouncedOnce ==
    announced = IF trial # "none" /\ ~used THEN 1 ELSE 0

\* trial-checker.cron.ts: the mark is there for "trial users who didn't convert".
EndedTrialIsMarked ==
    trial = "over" ~> downgraded \/ billing.source = "revenuecat"
=============================================================================
