---------------------- MODULE BillingStateMachineProofs ----------------------
(* Lemmas about the billing reducer that every proof about user_billing    *)
(* rests on.                                                               *)
EXTENDS BillingStateMachine, TLAPS

\* What each kind of event carries.
LEMMA EventFields ==
    ASSUME NEW e \in BillingEvent
    PROVE  /\ e.type \in PurchaseTypes \cup PeriodTypes \cup BareTypes
                          \cup {"TEAM_OWNER_EXPIRED", "ADMIN_GRANT_PRO"}
           /\ e.type \in PurchaseTypes
                => e.plan \in PaidPlans /\ e.periodEnd \in Nat
           /\ e.type \in PeriodTypes => e.periodEnd \in Nat
           /\ e.type = "TEAM_OWNER_EXPIRED" => e.memberHasOwnSub \in BOOLEAN
           /\ e.type = "ADMIN_GRANT_PRO" => e.plan \in PaidPlans
BY DEF BillingEvent, PurchaseTypes, PeriodTypes, BareTypes

\* The values the reducer writes belong to their columns.
LEMMA ColumnValues ==
    /\ Null \in OrNull(Nat) /\ Null \in OrNull(Sources)
    /\ Null \in OrNull(GraceReasons)
    /\ {"revenuecat", "lemon_squeezy"} \subseteq OrNull(Sources)
    /\ {"pro_expired", "team_expired"} \subseteq OrNull(GraceReasons)
    /\ {"free", "active", "cancel_at_period_end", "billing_issue",
        "grace_pro", "grace_team"} \subseteq States
    /\ "free" \in Plans /\ PaidPlans \subseteq Plans
    /\ Nat \subseteq OrNull(Nat)
    /\ \A t \in Nat : t + GraceDays \in OrNull(Nat)
BY BillingConstants DEF OrNull, Sources, GraceReasons, States, Plans, PaidPlans

\* The reducer returns a snapshot for every snapshot and event.
LEMMA TransitionType ==
    ASSUME NEW s \in UserBillingSnapshot, NEW e \in BillingEvent, NEW t \in Nat
    PROVE  Transition(s, e, t) \in UserBillingSnapshot
<1> USE ColumnValues
<1>1. FreeRow \in UserBillingSnapshot
  BY DEF FreeRow, UserBillingSnapshot
<1>2. ASSUME NEW st \in {"grace_pro", "grace_team"},
             NEW r \in {"pro_expired", "team_expired"}
      PROVE  Grace(s, st, r, t) \in UserBillingSnapshot
  BY DEF Grace, UserBillingSnapshot
<1>3. CASE e.type \in PurchaseTypes
  <2>1. e.plan \in Plans /\ e.periodEnd \in OrNull(Nat)
    BY <1>3, EventFields
  <2>2. ProductChange(s, e) \in UserBillingSnapshot
    BY <2>1 DEF ProductChange, NoGrace, UserBillingSnapshot
  <2>3. InitialPurchase(s, e) \in UserBillingSnapshot
    BY <2>2 DEF InitialPurchase, UserBillingSnapshot
  <2>4. LemonSqueezyPurchase(s, e) \in UserBillingSnapshot
    BY <2>1 DEF LemonSqueezyPurchase, NoGrace, UserBillingSnapshot
  <2> QED BY <1>3, <2>2, <2>3, <2>4 DEF Transition, PurchaseTypes
<1>4. CASE e.type \in PeriodTypes
  <2>1. e.periodEnd \in OrNull(Nat)
    BY <1>4, EventFields
  <2>2. Renewal(s, e) \in UserBillingSnapshot
    BY <2>1 DEF Renewal, NoGrace, UserBillingSnapshot
  <2>3. Cancellation(s, e) \in UserBillingSnapshot
    BY <2>1 DEF Cancellation, UserBillingSnapshot
  <2> QED BY <1>4, <2>2, <2>3 DEF Transition, PeriodTypes
<1>5. CASE e.type = "TEAM_OWNER_EXPIRED"
  BY <1>2, <1>5 DEF Transition, TeamOwnerExpired
<1>6. CASE e.type = "ADMIN_GRANT_PRO"
  <2>1. AdminGrantPro(s, e) \in UserBillingSnapshot
    BY <1>1, <1>6, EventFields DEF AdminGrantPro, UserBillingSnapshot
  <2> QED BY <1>6, <2>1 DEF Transition
<1>7. CASE e.type \in BareTypes
  <2>1. Uncancellation(s) \in UserBillingSnapshot
    BY DEF Uncancellation, UserBillingSnapshot
  <2>2. Expiration(s, t) \in UserBillingSnapshot
    BY <1>2 DEF Expiration, UserBillingSnapshot
  <2>3. Refund(t) \in UserBillingSnapshot
    BY <1>1 DEF Refund, UserBillingSnapshot
  <2>4. BillingIssue(s, t) \in UserBillingSnapshot
    BY DEF BillingIssue, UserBillingSnapshot
  <2>5. TeamMemberRemoved(s, t) \in UserBillingSnapshot
    BY <1>2 DEF TeamMemberRemoved
  <2>6. GraceExpired(s) \in UserBillingSnapshot
    BY DEF GraceExpired, NoGrace, UserBillingSnapshot
  <2>7. TrialExpired(s) \in UserBillingSnapshot
    BY <1>1 DEF TrialExpired, UserBillingSnapshot
  <2>8. LemonSqueezyCancelled(s) \in UserBillingSnapshot
    BY DEF LemonSqueezyCancelled, UserBillingSnapshot
  <2> QED BY <1>7, <2>1, <2>2, <2>3, <2>4, <2>5, <2>6, <2>7, <2>8
          DEF Transition, BareTypes
<1> QED BY <1>3, <1>4, <1>5, <1>6, <1>7, EventFields
=============================================================================
