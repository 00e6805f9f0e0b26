--------------------------- MODULE MCUserBilling ---------------------------
(* Small tables for UserBilling: who owns which workspace and what the      *)
(* stores deliver.                                                         *)
EXTENDS UserBilling, TLC

CONSTANTS ann, bob     \* two users

AnnsTeam == ann :> {bob}
EachInTheOthers == ann :> {bob} @@ bob :> {ann}

Purchase(plan, end) ==
    [type |-> "RC_INITIAL_PURCHASE", plan |-> plan, periodEnd |-> end]
Bare(types) == [type : types]

\* One of the purchases and what can follow it.
RcSubscription ==
    {Purchase("organization", 1), [type |-> "RC_RENEWAL", periodEnd |-> 2]}
        \cup Bare({"RC_EXPIRATION", "RC_REFUND", "RC_BILLING_ISSUE"})
\* A monthly Pro; the store also tells of a variant no plan is known for.
LsSubscription ==
    {LsBillingEvent(name, status, plan, 1) :
        name \in {"order_created", "subscription_created", "subscription_updated"},
        status \in {"active", "expired"}, plan \in {"pro", Null}} \ {Null}

\* Nothing but a team bought and expired.
TeamExpires == {Purchase("organization", 1)} \cup Bare({"RC_EXPIRATION"})

\* What the app may find at RevenueCat: the team, active for one more day.
TeamActive ==
    {[plan |-> "organization", periodEnd |-> 2, cancel |-> FALSE, issue |-> FALSE]}

None == {}
=============================================================================
