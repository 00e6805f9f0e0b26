----------------------------- MODULE StoreSync -----------------------------
(***************************************************************************)
(* How one user's row follows their subscription at RevenueCat: webhooks,  *)
(* which may come late, twice, in any order or never; the claim in         *)
(* webhook_events that keeps an event from being processed twice; the two  *)
(* calls by which the app asks the server to look at RevenueCat; and the   *)
(* hourly reconciliation.                                                  *)
(*                                                                         *)
(* A transition locks, computes and commits one row, which is one step     *)
(* here; UserBilling takes it apart.  RevenueCat and the App Store are     *)
(* external, modelled by what the server reads and receives from them.     *)
(***************************************************************************)
EXTENDS BillingStateMachine, Sequences

CONSTANTS Pods,        \* request slots of the server processes
          AppPods,     \* those of them that serve the app's calls
          Products,    \* the plans on sale
          OneGroup,    \* one subscription group: a plan replaces the other
          Period,      \* days between two renewals
          MaxTime,     \* bound on the clock, in days
          MaxEvents,   \* bound on what happens at the store
          MaxFaults    \* bound on crashes and failures

Ids == 1 .. MaxEvents

ASSUME StoreSyncConstants ==
    /\ AppPods \subseteq Pods
    /\ Products \subseteq PaidPlans
    /\ OneGroup \in BOOLEAN
    /\ Period \in Nat \ {0}
    /\ MaxTime \in Nat /\ MaxEvents \in Nat /\ MaxFaults \in Nat

VARIABLES
    now,       \* the clock
    subs,      \* the user's subscriptions, as RevenueCat knows them
    events,    \* what RevenueCat has emitted, as the mapper reads it
    outgoing,  \* the events it still has to deliver, by position in events
    claims,    \* webhook_events: no row, a row, a row with an error
    row,       \* the user_billing row
    req,       \* the request each slot is serving
    applied,   \* history: how often each event has changed the row
    unsure,    \* history: the events whose commit was not confirmed
    faults     \* the failures so far
vars == <<now, subs, events, outgoing, claims, row, req, applied, unsure, faults>>

store == <<subs, events>>
history == <<applied, unsure>>

\* over: it has expired, which RevenueCat does not forget.
Sub == [end : Nat, renews : BOOLEAN, issue : BOOLEAN, over : BOOLEAN]
Claims == {"none", "held", "failed"}

\* What a request is about to do: for a webhook, for the app, for the cron.
WebhookPcs == {"apply", "unclaim"}
Pcs == {"idle"} \cup WebhookPcs \cup {"read", "fetch", "scan", "decided"}

\* RCSubscriberSnapshot
Snapshot == [ents : [Products -> OrNull(Sub)], cancel : BOOLEAN, issue : BOOLEAN]

Idle == [pc |-> "idle", id |-> 0, hint |-> Null, seen |-> FreeRow,
         rc |-> Null, event |-> NoEvent]
Request == [pc : Pcs, id : Ids \cup {0}, hint : OrNull(Products),
            seen : UserBillingSnapshot, rc : OrNull(Snapshot),
            event : BillingEvent \cup {NoEvent}]

\* That the row passes the CHECK constraints means that the UPDATE of a
\* transition never fails here: RevenueCat's events alone lead to no row for
\* which BillingLifecycle!RejectedByChecks holds.
TypeOK ==
    /\ now \in 0 .. MaxTime
    /\ subs \in [Products -> OrNull(Sub)]
    /\ events \in Seq(BillingEvent) /\ Len(events) <= MaxEvents
    /\ outgoing \subseteq 1 .. Len(events)
    /\ claims \in [Ids -> Claims]
    /\ row \in UserBillingSnapshot /\ ChecksPass(row)
    /\ req \in [Pods -> Request]
    /\ \A p \in Pods : req[p].pc \in {"apply", "decided"} => req[p].event # NoEvent
    /\ applied \in [Ids -> Nat]
    /\ unsure \subseteq Ids
    /\ faults \in 0 .. MaxFaults

Init ==
    /\ now = 0
    /\ subs = [pl \in Products |-> Null]
    /\ events = <<>>
    /\ outgoing = {}
    /\ claims = [i \in Ids |-> "none"]
    /\ row = FreeRow
    /\ req = [p \in Pods |-> Idle]
    /\ applied = [i \in Ids |-> 0]
    /\ unsure = {}
    /\ faults = 0

-----------------------------------------------------------------------------
(* The store.                                                              *)

Entitled(ents, t) == {pl \in Products : ents[pl] # Null /\ ents[pl].end > t}

\* Something happens to the subscriptions, and RevenueCat emits e.
Emit(e, newSubs) ==
    /\ Len(events) < MaxEvents
    /\ subs' = newSubs
    /\ events' = Append(events, e)
    /\ outgoing' = outgoing \cup {Len(events) + 1}
    /\ UNCHANGED <<now, claims, row, req, history, faults>>

Fresh == [end |-> now + Period, renews |-> TRUE, issue |-> FALSE, over |-> FALSE]

Buy(pl) ==
    /\ Entitled(subs, now) \subseteq IF OneGroup THEN {} ELSE Products \ {pl}
    /\ Emit([type |-> "RC_INITIAL_PURCHASE", plan |-> pl, periodEnd |-> now + Period],
            [subs EXCEPT ![pl] = Fresh])

\* In one subscription group the new plan takes the place of the old one.
Change(pl) ==
    /\ OneGroup
    /\ Entitled(subs, now) \ {pl} # {}
    /\ Emit([type |-> "RC_PRODUCT_CHANGE", plan |-> pl, periodEnd |-> now + Period],
            [q \in Products |-> IF q = pl THEN Fresh ELSE Null])

\* A renewal may go through some time after the period is over.
Renew(pl) ==
    /\ subs[pl] # Null
    /\ subs[pl].renews /\ ~subs[pl].over
    /\ subs[pl].end <= now
    /\ Emit([type |-> "RC_RENEWAL", periodEnd |-> now + Period],
            [subs EXCEPT ![pl] = Fresh])

Unsubscribe(pl) ==
    /\ pl \in Entitled(subs, now)
    /\ subs[pl].renews
    /\ Emit([type |-> "RC_CANCELLATION", periodEnd |-> subs[pl].end],
            [subs EXCEPT ![pl].renews = FALSE])

Resubscribe(pl) ==
    /\ pl \in Entitled(subs, now)
    /\ ~subs[pl].renews
    /\ Emit([type |-> "RC_UNCANCELLATION"], [subs EXCEPT ![pl].renews = TRUE])

ChargeFails(pl) ==
    /\ pl \in Entitled(subs, now)
    /\ subs[pl].renews /\ ~subs[pl].issue
    /\ Emit([type |-> "RC_BILLING_ISSUE"], [subs EXCEPT ![pl].issue = TRUE])

\* Of what is over, only a billing issue is looked at again.
Expire(pl) ==
    /\ subs[pl] # Null
    /\ ~subs[pl].over
    /\ subs[pl].end <= now
    /\ Emit([type |-> "RC_EXPIRATION"],
            IF subs[pl].issue THEN [subs EXCEPT ![pl].over = TRUE]
                              ELSE [subs EXCEPT ![pl] = Null])

GiveBack(pl) ==
    /\ pl \in Entitled(subs, now)
    /\ Emit([type |-> "RC_REFUND"], [subs EXCEPT ![pl] = Null])

AtStore ==
    \E pl \in Products :
        \/ Buy(pl) \/ Change(pl) \/ Renew(pl) \/ Unsubscribe(pl)
        \/ Resubscribe(pl) \/ ChargeFails(pl) \/ Expire(pl) \/ GiveBack(pl)

\* RevenueCat delivers an event a number of times, then no more.
Abandon ==
    /\ \E id \in outgoing : outgoing' = outgoing \ {id}
    /\ UNCHANGED <<now, store, claims, row, req, history, faults>>

-----------------------------------------------------------------------------
(* One delivery of a webhook.                                              *)

\* The answer is 200: RevenueCat is satisfied, if the answer reaches it.
Answered(id) == outgoing' \in {outgoing, outgoing \ {id}}

Failure == faults < MaxFaults /\ faults' = faults + 1

\* Process event id under a claim.
TakeUp(p, id) ==
    /\ req[p].pc = "idle"
    /\ claims' = [claims EXCEPT ![id] = "held"]
    /\ req' = [req EXCEPT ![p] = [Idle EXCEPT !.pc = "apply", !.id = id,
                                              !.event = events[id]]]
    /\ UNCHANGED <<now, store, outgoing, row, history, faults>>

\* Mutation: a claim that exists is taken over.
ClaimAgain(p) == \E id \in outgoing : TakeUp(p, id)

\* claimWebhookEvent inserts the row the unique key allows once.
Claim(p) == \E id \in outgoing : claims[id] = "none" /\ TakeUp(p, id)

\* A duplicate is answered 200, whatever has become of the first delivery.
Duplicate(p) ==
    \E id \in outgoing :
        /\ req[p].pc = "idle"
        /\ claims[id] # "none"
        /\ outgoing' = outgoing \ {id}
        /\ UNCHANGED <<now, store, claims, row, req, history, faults>>

\* findById(...).catch(() => null): a failed query is a user not found, which
\* is answered 200 and not tried again.  The claim is kept, with an error but
\* without the user, so that findSuspicious does not select it.
LookUpFails(p) ==
    /\ req[p].pc = "apply"
    /\ Failure
    /\ Answered(req[p].id)
    /\ req' = [req EXCEPT ![p] = Idle]
    /\ UNCHANGED <<now, store, claims, row, history>>

\* Mutation: a refused event is applied nevertheless.
ResultUnguarded(s, e) == Transition(s, e, now)

\* What the row becomes by e, refused events leaving it as it is.
Result(s, e) == IF Accepts(s, e) THEN Transition(s, e, now) ELSE s

CommitEvent(p) ==
    LET next == Result(row, req[p].event)
    IN  /\ req[p].pc = "apply"
        /\ row' = next
        /\ applied' = IF next = row THEN applied
                      ELSE [applied EXCEPT ![req[p].id] = @ + 1]

\* Mutation: the claim is deleted whether or not processing has failed.
ApplyThenUnclaim(p) ==
    /\ CommitEvent(p)
    /\ Answered(req[p].id)
    /\ claims' = [claims EXCEPT ![req[p].id] = "none"]
    /\ req' = [req EXCEPT ![p] = Idle]
    /\ UNCHANGED <<now, store, unsure, faults>>

\* The handler is through: 200.
ApplyEvent(p) ==
    /\ CommitEvent(p)
    /\ Answered(req[p].id)
    /\ req' = [req EXCEPT ![p] = Idle]
    /\ UNCHANGED <<now, store, claims, unsure, faults>>

\* updateWebhookEventMeta notes the error in the claim, or fails and goes on.
Report(p) ==
    /\ claims' \in {claims, [claims EXCEPT ![req[p].id] = "failed"]}
    /\ req' = [req EXCEPT ![p].pc = "unclaim"]

\* The transaction commits, but the handler is told that it failed.
CommitUnconfirmed(p) ==
    /\ CommitEvent(p)
    /\ Failure
    /\ Report(p)
    /\ unsure' = unsure \cup {req[p].id}
    /\ UNCHANGED <<now, store, outgoing>>

\* The transaction fails and is rolled back.
EventFails(p) ==
    /\ req[p].pc = "apply"
    /\ Failure
    /\ Report(p)
    /\ UNCHANGED <<now, store, outgoing, row, history>>

\* The claim is deleted and the answer is 500, so RevenueCat tries again.
Unclaim(p) ==
    /\ req[p].pc = "unclaim"
    /\ claims' = [claims EXCEPT ![req[p].id] = "none"]
    /\ req' = [req EXCEPT ![p] = Idle]
    /\ UNCHANGED <<now, store, outgoing, row, history, faults>>

\* .catch(() => undefined): the DELETE fails, and the claim stays.
UnclaimFails(p) ==
    /\ req[p].pc = "unclaim"
    /\ Failure
    /\ req' = [req EXCEPT ![p] = Idle]
    /\ UNCHANGED <<now, store, outgoing, claims, row, history>>

Webhook(p) == ApplyEvent(p) \/ Unclaim(p)

-----------------------------------------------------------------------------
(* The server looks at RevenueCat.                                         *)

\* fetchRcSubscriberSnapshot keeps what is active, and says cancelled when any
\* of that is; a billing issue counts also when its subscription is over.
FetchSnapshot ==
    LET live == Entitled(subs, now)
    IN  [ents |-> [pl \in Products |-> IF pl \in live THEN subs[pl] ELSE Null],
         cancel |-> \E pl \in live : ~subs[pl].renews,
         issue |-> \E pl \in Products : subs[pl] # Null /\ subs[pl].issue]

\* pickActiveEntitlement: the product asked for; else the team plan, unless it
\* is cancelled and pro is not.
PickActive(rc, hint, t) ==
    LET live == Entitled(rc.ents, t)
    IN  CASE hint \in live -> hint
          [] hint \notin live /\ live = {} -> Null
          [] hint \notin live /\ live = {"organization", "pro"} ->
               IF ~rc.ents["organization"].renews /\ rc.ents["pro"].renews
               THEN "pro" ELSE "organization"
          [] OTHER -> CHOOSE pl \in live : TRUE

\* inferEventFromRcSnapshot, on the entitlement that is picked.
Infer(rc, s, hint) ==
    LET pl == PickActive(rc, hint, now)
    IN  InferEvent(IF pl = Null THEN Null
                   ELSE [plan |-> pl, periodEnd |-> rc.ents[pl].end,
                         cancel |-> rc.cancel, issue |-> rc.issue],
                   s, now)

\* The request goes on with e, or ends when there is nothing to do.
Decide(p, e) ==
    /\ req' = [req EXCEPT ![p] = IF e = NoEvent THEN Idle
                                 ELSE [@ EXCEPT !.pc = "decided", !.event = e]]
    /\ UNCHANGED <<now, store, outgoing, claims, row, history, faults>>

\* syncRevenueCat, called by the app after a purchase and on Restore: the
\* product must be active at RevenueCat.
StartSync(p) ==
    \E pl \in Entitled(subs, now) :
        /\ req[p].pc = "idle"
        /\ req' = [req EXCEPT ![p] = [Idle EXCEPT !.pc = "read", !.hint = pl,
                                                  !.rc = FetchSnapshot]]
        /\ UNCHANGED <<now, store, outgoing, claims, row, history, faults>>

SyncRead(p) ==
    /\ req[p].pc = "read"
    /\ Decide(p, Infer(req[p].rc, row, req[p].hint))

\* reconcileRevenueCat: the row is read first, and must be RevenueCat's.
StartReconcile(p) ==
    /\ req[p].pc = "idle"
    /\ row.billingSource = "revenuecat"
    /\ req' = [req EXCEPT ![p] = [Idle EXCEPT !.pc = "fetch", !.seen = row]]
    /\ UNCHANGED <<now, store, outgoing, claims, row, history, faults>>

ReconcileFetch(p) ==
    /\ req[p].pc = "fetch"
    /\ Decide(p, Infer(FetchSnapshot, req[p].seen, Null))

\* applyTransition with the event that was inferred, on the row as it is now.
ApplyDecided(p) ==
    LET next == Result(row, req[p].event)
    IN  /\ req[p].pc = "decided"
        /\ row' = next
        /\ req' = [req EXCEPT ![p] = Idle]
        /\ UNCHANGED <<now, store, outgoing, claims, history, faults>>

-----------------------------------------------------------------------------
(* The hourly reconciliation.                                              *)

\* The rows findSuspicious selects: past their period, in grace, or with a
\* webhook that failed.
Suspicious ==
    /\ row.billingSource = "revenuecat"
    /\ \/ /\ row.currentPeriodEnd # Null /\ row.currentPeriodEnd <= now
          /\ row.state \notin {"free"} \cup GraceStates
       \/ row.state \in GraceStates /\ row.graceExpiresAt > now
       \/ \E i \in Ids : claims[i] = "failed"

\* findSuspicious selects u.*, the columns of users, and users.query returns
\* them raw: the billing columns are in another table, so all are undefined.
RawUser == [FreeRow EXCEPT !.plan = "undefined", !.state = "undefined"]

\* getSubscriber, which keeps what has expired too, and does not say which of
\* them are renewed.
GetSubscriber ==
    [ents |-> [pl \in Products |-> IF subs[pl] = Null THEN Null
                                   ELSE [subs[pl] EXCEPT !.renews = TRUE]],
     cancel |-> \E pl \in Products : subs[pl] # Null /\ ~subs[pl].renews,
     issue |-> \E pl \in Products : subs[pl] # Null /\ subs[pl].issue]

\* reconcile: the row RevenueCat's snapshot calls for.
Reconciled(s, rc) ==
    LET live == Entitled(rc.ents, now)
        latest == CHOOSE t \in {rc.ents[pl].end : pl \in live} :
                      \A pl \in live : rc.ents[pl].end <= t
        renewal == [type |-> "RC_RENEWAL", periodEnd |-> latest]
        issue == [type |-> "RC_BILLING_ISSUE"]
    IN  IF live = {} /\ s.state \in {"active", "cancel_at_period_end", "billing_issue"}
        THEN Transition(s, [type |-> "RC_EXPIRATION"], now)
        ELSE IF rc.issue /\ s.state # "billing_issue" /\ Accepts(s, issue)
        THEN Transition(s, issue, now)
        ELSE IF live # {} /\ s.state \in GraceStates \cup
                                        IF rc.issue THEN {} ELSE {"billing_issue"}
        THEN Transition(s, renewal, now)
        ELSE IF rc.cancel = s.cancelAtPeriodEnd
        THEN s
        ELSE IF rc.cancel /\ s.state = "active"
        THEN Transition(s, [type |-> "RC_CANCELLATION", periodEnd |-> latest], now)
        ELSE IF ~rc.cancel /\ s.state = "cancel_at_period_end"
        THEN Transition(s, [type |-> "RC_UNCANCELLATION"], now)
        ELSE s

\* ReconciliationCron.run
StartCron(p) ==
    /\ req[p].pc = "idle"
    /\ Suspicious
    /\ req' = [req EXCEPT ![p] = [Idle EXCEPT !.pc = "scan"]]
    /\ UNCHANGED <<now, store, outgoing, claims, row, history, faults>>

\* reconcileOne: an event is inferred only where reconcile sees a difference.
ReconcileOne(p) ==
    /\ req[p].pc = "scan"
    /\ Decide(p, IF Reconciled(RawUser, GetSubscriber) = RawUser THEN NoEvent
                 ELSE Infer(GetSubscriber, RawUser, Null))

\* resetExpiredGrace, for this user.
GraceCron ==
    /\ row.graceExpiresAt # Null /\ row.graceExpiresAt < now
    /\ row' = GraceExpired(row)
    /\ UNCHANGED <<now, store, outgoing, claims, req, history, faults>>

-----------------------------------------------------------------------------

\* A pod dies, or RevenueCat or the database does not answer the app's call.
Crash(p) ==
    /\ req[p].pc # "idle"
    /\ Failure
    /\ req' = [req EXCEPT ![p] = Idle]
    /\ UNCHANGED <<now, store, outgoing, claims, row, history>>

Tick ==
    /\ now < MaxTime
    /\ now' = now + 1
    /\ UNCHANGED <<store, outgoing, claims, row, req, history, faults>>

\* What a request does next, when nothing fails.
Serve(p) ==
    \/ Webhook(p) \/ SyncRead(p) \/ ReconcileFetch(p) \/ ApplyDecided(p)
    \/ ReconcileOne(p)

Next ==
    \/ \E p \in Pods :
         \/ Claim(p) \/ Duplicate(p) \/ Serve(p)
         \/ LookUpFails(p) \/ CommitUnconfirmed(p) \/ EventFails(p) \/ UnclaimFails(p)
         \/ StartCron(p) \/ Crash(p)
    \/ \E p \in AppPods : StartSync(p) \/ StartReconcile(p)
    \/ AtStore \/ Abandon \/ GraceCron \/ Tick

Spec == Init /\ [][Next]_vars
-----------------------------------------------------------------------------
(* What must hold.                                                         *)

\* An event is being processed by one request at most.
ExclusiveProcessing ==
    \A p, q \in Pods :
        /\ req[p].pc \in WebhookPcs /\ req[q].pc \in WebhookPcs
        /\ req[p].id = req[q].id
        => p = q

\* An event changes the row once, unless the commit of an earlier delivery
\* was reported as failed: the claim holds through duplicates and crashes.
AppliedOnce == \A i \in Ids : applied[i] > 1 => i \in unsure

\* What RevenueCat, the app and the crons can do to the row.
PeriodEnds == 0 .. MaxTime + Period
RowEvents ==
    [type : {"RC_INITIAL_PURCHASE", "RC_PRODUCT_CHANGE"}, plan : Products,
     periodEnd : PeriodEnds]
        \cup [type : {"RC_RENEWAL", "RC_CANCELLATION"}, periodEnd : PeriodEnds]
        \cup [type : {"RC_UNCANCELLATION", "RC_EXPIRATION", "RC_BILLING_ISSUE",
                      "RC_REFUND", "GRACE_EXPIRED"}]
Life == INSTANCE BillingLifecycle WITH Events <- RowEvents

\* Late, repeated, lost or inferred, in any order: an event leads to no row
\* that the CHECK constraints would refuse, so the UPDATE of a transition never
\* fails for what RevenueCat says (the webhook would answer 500 for ever), and
\* the UPDATE of resetExpiredGrace does what the reducer would.
RowFollowsLifecycle == Life!Spec

\* The row gives what RevenueCat gives.  Where nothing is active, a row may
\* run to the end of its period.
Agrees ==
    LET live == Entitled(subs, now)
    IN  IF live # {}
        THEN row.plan \in live /\ row.state \notin {"free"} \cup GraceStates
        ELSE \/ row.state \in {"free"} \cup GraceStates
             \/ row.state = "cancel_at_period_end" /\ row.currentPeriodEnd > now

\* No subscription at RevenueCat is cancelled or has a billing issue.
Healthy ==
    \A pl \in Products :
        subs[pl] # Null /\ ~subs[pl].over => subs[pl].renews /\ ~subs[pl].issue

\* The app calls when it sees that server and RevenueCat disagree, again and
\* again; a request that is not interrupted proceeds.  Of webhooks and crons
\* nothing is assumed.
AppCalls ==
    /\ \A p \in Pods : WF_vars(Serve(p))
    /\ SF_vars(~Agrees /\ \E p \in AppPods : StartSync(p))
    /\ SF_vars(~Agrees /\ \E p \in AppPods : StartReconcile(p))
FairSpec == Spec /\ AppCalls

\* Also when every webhook is lost, late or out of order, the app's calls
\* bring the row to what RevenueCat says, or the subscription is cancelled or
\* in trouble, for which they do not (see AnyEntitlementRestores).
EventuallyAgrees == []<>(Agrees \/ ~Healthy)

-----------------------------------------------------------------------------
(* What comments say, and the code does not do.                            *)

\* infer-rc-event.ts: "From `free` OR a grace state, treat any active RC
\* entitlement as a fresh INITIAL_PURCHASE".
AnyEntitlementRestores ==
    \A p \in Pods :
        /\ req[p].pc = "read"
        /\ row.state \in {"free"} \cup GraceStates
        /\ PickActive(req[p].rc, req[p].hint, now) # Null
        => Infer(req[p].rc, row, req[p].hint).type = "RC_INITIAL_PURCHASE"

\* The cron is run every hour, and its requests proceed.
CronRuns ==
    /\ \A p \in Pods : WF_vars(Serve(p))
    /\ SF_vars(\E p \in Pods : StartCron(p))
CronSpec == Spec /\ CronRuns

\* reconciliation.service.ts: of the "suspicious" rows, "If the result differs
\* we persist": a plan that has run out at RevenueCat runs out here.
CronRepairsDrift ==
    (Suspicious /\ ~Agrees) ~> (Agrees \/ ~Suspicious)
=============================================================================
