------------------------ MODULE BillingStateMachine ------------------------
(***************************************************************************)
(* The pure billing reducer of SubRadar: the row it works on, the events   *)
(* it takes, the events it refuses, the row each event leads to, and the   *)
(* CHECK constraints PostgreSQL evaluates on the row it writes.            *)
(*                                                                         *)
(* Time is counted in days: two timestamps less than 24 hours apart are    *)
(* the same number.  billingPeriod and currentPeriodStart are abstracted   *)
(* away: no decision of the reducer and no constraint looks at them.       *)
(***************************************************************************)
EXTENDS Integers

CONSTANTS Null,       \* SQL NULL
          GraceDays   \* GRACE_PERIOD_DAYS, 7 in the code

States == {"free", "active", "cancel_at_period_end", "billing_issue",
           "grace_pro", "grace_team"}
Plans == {"free", "pro", "organization"}
PaidPlans == Plans \ {"free"}
Sources == {"revenuecat", "lemon_squeezy"}
GraceReasons == {"team_expired", "pro_expired"}
GraceStates == {"grace_pro", "grace_team"}

ASSUME BillingConstants ==
    /\ Null \notin Nat \cup Sources \cup GraceReasons
    /\ GraceDays \in Nat \ {0}

OrNull(S) == S \cup {Null}

UserBillingSnapshot ==
    [plan : Plans,
     state : States,
     billingSource : OrNull(Sources),
     currentPeriodEnd : OrNull(Nat),
     cancelAtPeriodEnd : BOOLEAN,
     graceExpiresAt : OrNull(Nat),
     graceReason : OrNull(GraceReasons),
     billingIssueAt : OrNull(Nat),
     refundedAt : OrNull(Nat)]

\* The row an account is created with.
FreeRow == [plan |-> "free", state |-> "free", billingSource |-> Null,
            currentPeriodEnd |-> Null, cancelAtPeriodEnd |-> FALSE,
            graceExpiresAt |-> Null, graceReason |-> Null,
            billingIssueAt |-> Null, refundedAt |-> Null]

-----------------------------------------------------------------------------
(* The events: RC_PRODUCT_CHANGE's newPlan is called plan here.            *)

PurchaseTypes == {"RC_INITIAL_PURCHASE", "RC_PRODUCT_CHANGE",
                  "LS_SUBSCRIPTION_CREATED", "LS_SUBSCRIPTION_UPDATED"}
PeriodTypes == {"RC_RENEWAL", "RC_CANCELLATION"}
BareTypes == {"RC_UNCANCELLATION", "RC_EXPIRATION", "RC_BILLING_ISSUE",
              "RC_REFUND", "TEAM_MEMBER_REMOVED", "GRACE_EXPIRED",
              "TRIAL_EXPIRED", "LS_SUBSCRIPTION_CANCELLED"}

BillingEvent ==
    [type : PurchaseTypes, plan : PaidPlans, periodEnd : Nat]
        \cup [type : PeriodTypes, periodEnd : Nat]
        \cup [type : {"TEAM_OWNER_EXPIRED"}, memberHasOwnSub : BOOLEAN]
        \cup [type : {"ADMIN_GRANT_PRO"}, plan : PaidPlans]
        \cup [type : BareTypes]

\* FALSE where the reducer throws InvalidTransitionError.
Accepts(s, e) ==
    /\ e.type = "RC_RENEWAL" => s.state # "free"
    /\ e.type \in {"RC_CANCELLATION", "RC_UNCANCELLATION", "RC_BILLING_ISSUE"}
         => s.state \in {"active", "cancel_at_period_end", "billing_issue"}
    /\ e.type = "ADMIN_GRANT_PRO" => s.state = "free"

-----------------------------------------------------------------------------
(* One operator per case of the reducer's switch.                          *)

NoGrace(s) == [s EXCEPT !.graceExpiresAt = Null, !.graceReason = Null]

Grace(s, state, reason, now) ==
    [s EXCEPT !.state = state, !.graceReason = reason,
              !.graceExpiresAt = now + GraceDays]

\* A fresh RevenueCat subscription replaces whatever the row said.
ProductChange(s, e) ==
    [NoGrace(s) EXCEPT !.plan = e.plan, !.state = "active",
                       !.billingSource = "revenuecat",
                       !.currentPeriodEnd = e.periodEnd,
                       !.cancelAtPeriodEnd = FALSE,
                       !.billingIssueAt = Null, !.refundedAt = Null]

\* A purchase replayed by Restore on a cancelling subscription (same plan,
\* period end within 24 hours) keeps the cancellation.
SameSubReplayed(s, e) ==
    /\ s.state = "cancel_at_period_end"
    /\ s.plan = e.plan
    /\ s.currentPeriodEnd = e.periodEnd

InitialPurchase(s, e) ==
    IF SameSubReplayed(s, e)
    THEN [ProductChange(s, e) EXCEPT !.state = s.state,
                                     !.cancelAtPeriodEnd = s.cancelAtPeriodEnd]
    ELSE ProductChange(s, e)

Renewal(s, e) ==
    [NoGrace(s) EXCEPT !.state = "active", !.currentPeriodEnd = e.periodEnd,
                       !.cancelAtPeriodEnd = FALSE,
                       !.billingIssueAt = Null, !.refundedAt = Null]

Cancellation(s, e) ==
    IF s.state = "cancel_at_period_end"
    THEN [s EXCEPT !.currentPeriodEnd = e.periodEnd]
    ELSE [s EXCEPT !.state = "cancel_at_period_end",
                   !.cancelAtPeriodEnd = TRUE,
                   !.currentPeriodEnd = e.periodEnd]

Uncancellation(s) ==
    IF s.state = "cancel_at_period_end"
    THEN [s EXCEPT !.state = "active", !.cancelAtPeriodEnd = FALSE]
    ELSE s

\* Mutation: the cancel flag is not reset.
ExpirationKeepsFlag(s, now) ==
    IF s.state = "free" \/ s.state \in GraceStates
    THEN s
    ELSE [Grace(s, "grace_pro", "pro_expired", now) EXCEPT !.billingIssueAt = Null]

Expiration(s, now) ==
    IF s.state = "free" \/ s.state \in GraceStates
    THEN s
    ELSE [Grace(s, "grace_pro", "pro_expired", now) EXCEPT
            !.cancelAtPeriodEnd = FALSE, !.billingIssueAt = Null]

Refund(now) == [FreeRow EXCEPT !.refundedAt = now]

\* Mutations: no date is set; a repeated event is taken for a new one.
BillingIssueUndated(s, now) == [s EXCEPT !.state = "billing_issue"]
BillingIssueAgain(s, now) ==
    [s EXCEPT !.state = "billing_issue", !.billingIssueAt = now]

BillingIssue(s, now) ==
    IF s.state = "billing_issue"
    THEN s
    ELSE [s EXCEPT !.state = "billing_issue", !.billingIssueAt = now]

TeamOwnerExpired(s, e, now) ==
    IF e.memberHasOwnSub \/ s.plan = "free"
    THEN s
    ELSE Grace(s, "grace_team", "team_expired", now)

\* The test by which the reducer and the cascade know a member who pays.
HasOwnSub(s) ==
    /\ s.billingSource = "revenuecat"
    /\ s.state = "active"
    /\ ~s.cancelAtPeriodEnd

TeamMemberRemoved(s, now) ==
    IF HasOwnSub(s) \/ s.plan = "free"
    THEN s
    ELSE Grace(s, "grace_team", "team_expired", now)

\* Mutations: the reason is not reset; the billing source is not.
GraceExpiredKeepsReason(s) ==
    IF s.state \in GraceStates
    THEN [s EXCEPT !.plan = "free", !.state = "free", !.billingSource = Null,
                   !.graceExpiresAt = Null]
    ELSE s
GraceExpiredKeepsSource(s) ==
    IF s.state \in GraceStates
    THEN [NoGrace(s) EXCEPT !.plan = "free", !.state = "free"]
    ELSE s

GraceExpired(s) ==
    IF s.state \in GraceStates
    THEN [NoGrace(s) EXCEPT !.plan = "free", !.state = "free",
                            !.billingSource = Null]
    ELSE s

\* Mutation: a row that pays through a store is dropped too.
TrialExpiredAnySource(s) ==
    IF s.state = "free" THEN s ELSE [FreeRow EXCEPT !.refundedAt = s.refundedAt]

TrialExpired(s) ==
    IF s.state = "free" \/ s.billingSource \in Sources
    THEN s
    ELSE [FreeRow EXCEPT !.refundedAt = s.refundedAt]

AdminGrantPro(s, e) ==
    [FreeRow EXCEPT !.plan = e.plan, !.state = "active",
                    !.refundedAt = s.refundedAt]

\* Mutation: the store's name is misspelt.
LemonSqueezyPurchaseMisspelt(s, e) ==
    [NoGrace(s) EXCEPT !.plan = e.plan, !.state = "active",
                       !.billingSource = "lemonsqueezy",
                       !.currentPeriodEnd = e.periodEnd,
                       !.cancelAtPeriodEnd = FALSE]

LemonSqueezyPurchase(s, e) ==
    [NoGrace(s) EXCEPT !.plan = e.plan, !.state = "active",
                       !.billingSource = "lemon_squeezy",
                       !.currentPeriodEnd = e.periodEnd,
                       !.cancelAtPeriodEnd = FALSE]

LemonSqueezyCancelled(s) ==
    [s EXCEPT !.plan = "free", !.state = "free", !.billingSource = Null,
              !.cancelAtPeriodEnd = FALSE]

\* transition(s, e) at time now, for the events Accepts admits.
Transition(s, e, now) ==
    CASE e.type = "RC_INITIAL_PURCHASE" -> InitialPurchase(s, e)
      [] e.type = "RC_RENEWAL" -> Renewal(s, e)
      [] e.type = "RC_PRODUCT_CHANGE" -> ProductChange(s, e)
      [] e.type = "RC_CANCELLATION" -> Cancellation(s, e)
      [] e.type = "RC_UNCANCELLATION" -> Uncancellation(s)
      [] e.type = "RC_EXPIRATION" -> Expiration(s, now)
      [] e.type = "RC_REFUND" -> Refund(now)
      [] e.type = "RC_BILLING_ISSUE" -> BillingIssue(s, now)
      [] e.type = "TEAM_OWNER_EXPIRED" -> TeamOwnerExpired(s, e, now)
      [] e.type = "TEAM_MEMBER_REMOVED" -> TeamMemberRemoved(s, now)
      [] e.type = "GRACE_EXPIRED" -> GraceExpired(s)
      [] e.type = "TRIAL_EXPIRED" -> TrialExpired(s)
      [] e.type = "ADMIN_GRANT_PRO" -> AdminGrantPro(s, e)
      [] e.type \in {"LS_SUBSCRIPTION_CREATED", "LS_SUBSCRIPTION_UPDATED"} ->
            LemonSqueezyPurchase(s, e)
      [] e.type = "LS_SUBSCRIPTION_CANCELLED" -> LemonSqueezyCancelled(s)

-----------------------------------------------------------------------------
(* inferEventFromRcSnapshot: the event a look at RevenueCat stands for.     *)

NoEvent == [type |-> "none"]

\* The entitlement pickActiveEntitlement chooses, with what the snapshot says
\* of the subscriber's cancellations and billing issues.
Entitlement == [plan : PaidPlans, periodEnd : Nat, cancel : BOOLEAN, issue : BOOLEAN]

\* Nothing is active at RevenueCat.
InferLapse(s, now) ==
    CASE s.state = "free" -> NoEvent
      [] s.state # "free" /\ s.currentPeriodEnd # Null /\ s.currentPeriodEnd > now ->
           [type |-> "RC_CANCELLATION", periodEnd |-> s.currentPeriodEnd]
      [] OTHER -> [type |-> "RC_EXPIRATION"]

\* Mutation: a row in grace is not brought back, as before that was added.
InferActiveNoGrace(found, s) ==
    IF found.issue /\ s.state \in {"active", "cancel_at_period_end"}
    THEN [type |-> "RC_BILLING_ISSUE"]
    ELSE IF found.cancel
    THEN [type |-> "RC_CANCELLATION", periodEnd |-> found.periodEnd]
    ELSE IF s.state = "free"
    THEN [type |-> "RC_INITIAL_PURCHASE", plan |-> found.plan, periodEnd |-> found.periodEnd]
    ELSE IF s.plan # found.plan
    THEN [type |-> "RC_PRODUCT_CHANGE", plan |-> found.plan, periodEnd |-> found.periodEnd]
    ELSE IF s.state = "cancel_at_period_end"
    THEN [type |-> "RC_RENEWAL", periodEnd |-> found.periodEnd]
    ELSE NoEvent

\* The order of the tests decides: an open billing issue before a cancelled
\* subscription before a plan the row does not have.
InferActive(found, s) ==
    IF found.issue /\ s.state \in {"active", "cancel_at_period_end"}
    THEN [type |-> "RC_BILLING_ISSUE"]
    ELSE IF found.cancel
    THEN [type |-> "RC_CANCELLATION", periodEnd |-> found.periodEnd]
    ELSE IF s.state \in {"free"} \cup GraceStates
    THEN [type |-> "RC_INITIAL_PURCHASE", plan |-> found.plan, periodEnd |-> found.periodEnd]
    ELSE IF s.plan # found.plan
    THEN [type |-> "RC_PRODUCT_CHANGE", plan |-> found.plan, periodEnd |-> found.periodEnd]
    ELSE IF s.state = "cancel_at_period_end"
    THEN [type |-> "RC_RENEWAL", periodEnd |-> found.periodEnd]
    ELSE NoEvent

InferEvent(found, s, now) ==
    IF found = Null THEN InferLapse(s, now) ELSE InferActive(found, s)

-----------------------------------------------------------------------------
(* The CHECK constraints of table user_billing.                            *)

StatePlanConsistent(s) == s.state = "free" <=> s.plan = "free"

CancelFlagMatchesState(s) ==
    \/ s.state = "billing_issue"
    \/ s.cancelAtPeriodEnd <=> s.state = "cancel_at_period_end"

GraceStateHasEnd(s) == s.state \in GraceStates <=> s.graceExpiresAt # Null

PaidStateHasPeriod(s) ==
    \/ s.state \in {"free", "billing_issue"} \cup GraceStates
    \/ s.currentPeriodEnd # Null
    \/ s.state = "active" /\ s.billingSource = Null

SourceRequiredForPaid(s) ==
    \/ s.state \in {"free", "active"}
    \/ s.billingSource # Null

ChecksPass(s) ==
    /\ StatePlanConsistent(s)
    /\ CancelFlagMatchesState(s)
    /\ GraceStateHasEnd(s)
    /\ PaidStateHasPeriod(s)
    /\ SourceRequiredForPaid(s)
=============================================================================
