------------------------- MODULE MCBillingLifecycle -------------------------
(* The single row under every event, with small sets of period ends, and   *)
(* what EffectiveAccess makes of each row it can be.                       *)
EXTENDS BillingLifecycle, EffectiveAccess

CONSTANT PeriodEnds   \* the period ends a store reports

MCEvents ==
    [type : PurchaseTypes, plan : PaidPlans, periodEnd : PeriodEnds]
        \cup [type : PeriodTypes, periodEnd : PeriodEnds]
        \cup [type : {"TEAM_OWNER_EXPIRED"}, memberHasOwnSub : BOOLEAN]
        \cup [type : {"ADMIN_GRANT_PRO"}, plan : PaidPlans]
        \cup [type : BareTypes]

-----------------------------------------------------------------------------
\* A user who pays a store, and whose period runs on, is served a paid plan
\* whatever surrounds them, and nobody who is served the plan they pay for is
\* told that it is over: the banner goes by the state that is shown
\* (computeBannerPriority after the self-heal of computeResolve).
AnswersFit ==
    \A c \in Surroundings :
        LET a == Resolve(row, c, now)
        IN  /\ OwnPlan(row) /\ row.currentPeriodEnd > now => a.plan # "free"
            /\ Banner(row, c, now) = "grace" => a.source # "own"

\* A user on their own, as computeResolve sees them.
Alone == [trial : {"none"}, ownsTeam : BOOLEAN, inTeam : {FALSE},
          ownerState : {"free"}, ownerPlan : {"free"}, ownerCancels : {FALSE},
          teamExpired : {FALSE}, monthly : {TRUE}, hadPro : {FALSE}]

\* No event and no passing day takes a paid plan out of the answer but these:
\* a refund, a Lemon Squeezy cancellation, the end of the grace period, the
\* end of the period of a cancelled one, and the trial timer for a plan nobody pays.
\* Late webhooks never do: the row lags, the answer does not (computeResolve
\* over every transition).
AccessEndsOnPurpose ==
    [][ \A c \in Alone :
          Resolve(row, c, now).plan # "free" /\ Resolve(row', c, now').plan = "free"
            => \/ row'.refundedAt # Null
               \/ row' = LemonSqueezyCancelled(row)
               \/ row.state \in GraceStates /\ row' = GraceExpired(row)
               \/ Lapsed(row', now')
               \/ row.billingSource = Null /\ row' = TrialExpired(row) ]_vars

\* Whoever holds an active plan is served one, the invitee of a Pro user too.
GrantIsServed ==
    row.state = "active" =>
        \A c \in Surroundings : Resolve(row, c, now).plan # "free"
=============================================================================
