--------------------------- MODULE EffectiveAccess ---------------------------
(***************************************************************************)
(* What a user may use right now, as a function of their billing row, of   *)
(* what surrounds it, and of the time: the answer of                       *)
(* EffectiveAccessResolver (GET /billing/me and PlanGuard), the banner it  *)
(* picks, and the two older answers of BillingService, by which the        *)
(* subscription limit, the AI quota, the analysis and Gmail import still   *)
(* go.                                                                     *)
(***************************************************************************)
EXTENDS BillingStateMachine

CONSTANT BannerDays   \* the 7 days of the expiration and refund banners

ASSUME BannerConstant == BannerDays \in Nat

PaidStates == {"active", "cancel_at_period_end", "billing_issue"}

\* What the answers depend on besides the row: user_trials; whether the user
\* owns a workspace and belongs to one; the state, plan and cancel flag of
\* that workspace's owner, and whether it is marked expired; a monthly
\* period; an earlier downgrade.
Surroundings ==
    [trial : {"none"} \cup PaidPlans,
     ownsTeam : BOOLEAN, inTeam : BOOLEAN,
     ownerState : States, ownerPlan : Plans, ownerCancels : BOOLEAN,
     teamExpired : BOOLEAN, monthly : BOOLEAN, hadPro : BOOLEAN]

HasOwnPaidPlan(s) == s.billingSource \in Sources
IsTeamMember(c) == c.inTeam /\ ~c.ownsTeam
PeriodOver(s, now) == s.currentPeriodEnd # Null /\ s.currentPeriodEnd <= now

Answer(plan, source) == [plan |-> plan, source |-> source]

-----------------------------------------------------------------------------
(* computeResolve: the first case that applies.                            *)

OwnerOfTeam(s, c) == c.ownsTeam /\ s.plan \in PaidPlans /\ s.state = "active"
MemberOfTeam(c) == IsTeamMember(c) /\ c.ownerState \in PaidStates
OwnPlan(s) == HasOwnPaidPlan(s) /\ s.state \in PaidStates
Lapsed(s, now) == s.state = "cancel_at_period_end" /\ PeriodOver(s, now)

\* The store's period runs on although the state says otherwise.
SelfHeals(s, now) ==
    HasOwnPaidPlan(s) /\ s.plan # "free" /\ s.state \notin PaidStates
        /\ ~PeriodOver(s, now)

OwnAnswer(s, now) ==
    IF Lapsed(s, now) THEN Answer("free", "free") ELSE Answer(s.plan, "own")

\* Mutation: only a lapsed team has a grace period.
GraceAnswerTeam(s) ==
    IF s.state = "grace_team" THEN Answer("organization", "grace_team")
    ELSE Answer("free", "free")

GraceAnswer(s) ==
    CASE s.state = "grace_pro" -> Answer("pro", "grace_pro")
      [] s.state = "grace_team" -> Answer("organization", "grace_team")
      [] OTHER -> Answer("free", "free")

Resolve(s, c, now) ==
    IF OwnerOfTeam(s, c) THEN Answer("organization", "own")
    ELSE IF MemberOfTeam(c) THEN Answer("organization", "team")
    ELSE IF OwnPlan(s) THEN OwnAnswer(s, now)
    ELSE IF SelfHeals(s, now) THEN Answer(s.plan, "own")
    ELSE IF c.trial # "none" THEN Answer(c.trial, "trial")
    ELSE GraceAnswer(s)

\* Mutation: the state of the row, late as it may be.
RowState(s, a) == s.state

\* The state that is shown: a lagging one gives way to the plan served.
EffectiveState(s, a) ==
    IF a.source = "own" /\ a.plan # "free" /\ s.state \notin PaidStates
    THEN "active" ELSE s.state

-----------------------------------------------------------------------------
(* computeBannerPriority: the first case that applies.                     *)

DaysLeft(end, now) == IF end > now THEN end - now ELSE 0

Banner(s, c, now) ==
    LET a == Resolve(s, c, now)
        state == EffectiveState(s, a)
    IN
    IF state = "billing_issue" \/ s.billingIssueAt # Null THEN "billing_issue"
    ELSE IF state \in GraceStates /\ s.graceExpiresAt # Null THEN "grace"
    ELSE IF /\ state = "cancel_at_period_end" /\ s.currentPeriodEnd # Null
            /\ s.plan = a.plan
            /\ ~(IsTeamMember(c) /\ ~HasOwnPaidPlan(s))
            /\ DaysLeft(s.currentPeriodEnd, now) <= BannerDays
         THEN "expiration"
    ELSE IF HasOwnPaidPlan(s) /\ IsTeamMember(c) THEN "double_pay"
    ELSE IF HasOwnPaidPlan(s) /\ c.monthly /\ s.plan \in PaidPlans THEN "annual_upgrade"
    ELSE IF s.refundedAt # Null /\ now - s.refundedAt \in 0 .. BannerDays THEN "refund"
    ELSE IF s.plan = "free" /\ state = "free" /\ c.hadPro THEN "win_back"
    ELSE "none"

-----------------------------------------------------------------------------
(* BillingService: getEffectivePlan, of the row alone, and                 *)
(* getEffectiveAccess.  users.trialEndDate is read as user_trials is.      *)

GetEffectivePlan(s, c, now) ==
    IF s.plan = "free" THEN "free"
    ELSE IF c.trial # "none" THEN s.plan
    ELSE IF s.billingSource = Null THEN "free"
    ELSE IF s.cancelAtPeriodEnd /\ PeriodOver(s, now) THEN "free"
    ELSE s.plan

HasOwnPro(s, now) ==
    /\ s.billingSource = "revenuecat" /\ s.plan \in PaidPlans
    /\ s.cancelAtPeriodEnd => s.currentPeriodEnd # Null /\ s.currentPeriodEnd > now

OwnerSubscribed(c) ==
    c.inTeam /\ ~c.teamExpired /\ c.ownerPlan = "organization" /\ ~c.ownerCancels

GetEffectiveAccess(s, c, now) ==
    IF c.inTeam /\ c.ownsTeam /\ s.plan \in PaidPlans THEN Answer("organization", "own")
    ELSE IF OwnerSubscribed(c) THEN Answer("organization", "team")
    ELSE IF HasOwnPro(s, now) THEN Answer(s.plan, "own")
    ELSE IF c.trial # "none" THEN Answer("pro", "own")
    ELSE IF s.graceExpiresAt # Null /\ s.graceExpiresAt > now
         THEN Answer("pro", IF s.graceReason = "team_expired" THEN "grace_team"
                            ELSE "grace_pro")
    ELSE Answer("free", "free")
=============================================================================
