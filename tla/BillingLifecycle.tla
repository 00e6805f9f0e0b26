-------------------------- MODULE BillingLifecycle --------------------------
(***************************************************************************)
(* What table user_billing promises about one user's row: it is created    *)
(* free, and it moves only by an accepted event whose result passes the    *)
(* CHECK constraints.  UserBilling implements this for every user.         *)
(***************************************************************************)
EXTENDS BillingStateMachine

CONSTANTS Events,    \* the events that can be offered to the row
          MaxTime    \* bound on the clock, in days

ASSUME LifecycleConstants == Events \subseteq BillingEvent /\ MaxTime \in Nat

VARIABLES row,       \* the committed user_billing row
          now        \* the clock
vars == <<row, now>>

TypeOK == row \in UserBillingSnapshot /\ now \in 0 .. MaxTime

Init == row = FreeRow /\ now = 0

\* The reducer reads the clock when it runs, at or before the commit.
ApplyTransition(e) ==
    /\ Accepts(row, e)
    /\ \E t \in 0 .. now : row' = Transition(row, e, t)
    /\ ChecksPass(row')
    /\ UNCHANGED now

Tick == now < MaxTime /\ now' = now + 1 /\ UNCHANGED row

Next == Tick \/ \E e \in Events : ApplyTransition(e)

Spec == Init /\ [][Next]_vars

-----------------------------------------------------------------------------
(* The events for which the UPDATE fails although the reducer accepted     *)
(* them, the whole list of them:                                           *)
(*  - a member put in grace_team keeps the cancel flag of a subscription   *)
(*    of their own, or has no billing source (an admin grant);             *)
(*  - an admin grant, which has no source, cannot be cancelled, expire or  *)
(*    have a billing issue;                                                *)
(*  - an LS cancellation of a row in grace leaves graceExpiresAt set.      *)
RejectedByChecks(s, e) ==
    \/ /\ \/ e.type = "TEAM_OWNER_EXPIRED" /\ ~e.memberHasOwnSub
          \/ e.type = "TEAM_MEMBER_REMOVED" /\ ~HasOwnSub(s)
       /\ s.plan # "free"
       /\ s.cancelAtPeriodEnd \/ s.billingSource = Null
    \/ /\ e.type \in {"RC_CANCELLATION", "RC_EXPIRATION", "RC_BILLING_ISSUE"}
       /\ s.state = "active" /\ s.billingSource = Null
    \/ e.type = "LS_SUBSCRIPTION_CANCELLED" /\ s.state \in GraceStates

\* The CHECK constraints reject exactly the listed events, so every other
\* accepted event commits (transitions.ts and CreateUserBillingTable agree
\* everywhere else).
RejectionsAreKnown ==
    \A e \in Events :
        Accepts(row, e) =>
            (ChecksPass(Transition(row, e, now)) <=> ~RejectedByChecks(row, e))

\* The columns that carry the same fact agree.  Which grace the row is in, and
\* why, as EffectiveAccess tells the two apart by either column; a free row
\* belongs to no store, so nothing a store reports later is mistaken for a
\* subscription the row still holds; a row that RevenueCat pays for carries no
\* refund marker, so who came back never sees the refund banner; and a row in
\* billing_issue says since when.
MarkersAgree ==
    /\ row.state = "grace_pro" <=> row.graceReason = "pro_expired"
    /\ row.state = "grace_team" <=> row.graceReason = "team_expired"
    /\ row.state = "free" => row.billingSource = Null
    /\ row.billingSource = "revenuecat" => row.refundedAt = Null
    /\ row.state = "billing_issue" => row.billingIssueAt # Null

\* A webhook event applied twice, the second time a day later, leaves the row
\* the first delivery made; only a refund renews its own timestamp.  This is
\* what claimWebhookEvent falls back on for events without an id.
WebhookTypes ==
    PurchaseTypes \cup PeriodTypes \cup
    {"RC_UNCANCELLATION", "RC_EXPIRATION", "RC_BILLING_ISSUE", "RC_REFUND",
     "LS_SUBSCRIPTION_CANCELLED"}

RedeliveryIsIdempotent ==
    \A e \in {d \in Events : d.type \in WebhookTypes} :
        LET once == Transition(row, e, now)
            twice == Transition(once, e, now + 1)
        IN  Accepts(row, e) /\ ChecksPass(once) =>
              /\ Accepts(once, e)
              /\ twice = IF e.type = "RC_REFUND"
                         THEN [once EXCEPT !.refundedAt = now + 1]
                         ELSE once

\* A subscription RevenueCat pays for is taken away at once only by a refund
\* or by a Lemon Squeezy cancellation; whatever else ends it goes through a
\* grace period.  In particular no trial timer can do it.
PaidPlanEndsOnPurpose ==
    [][ row.billingSource = "revenuecat" /\ row.state \notin GraceStates
          /\ row'.plan = "free"
        => row'.refundedAt # Null \/ row' = LemonSqueezyCancelled(row) ]_vars
=============================================================================
