----------------------- MODULE BillingLifecycleProofs -----------------------
(* Proofs about the billing reducer, the life of a row, and the access it  *)
(* gives.                                                                  *)
EXTENDS MCBillingLifecycle, BillingStateMachineProofs

\* Every row the run reaches is a well-formed snapshot.
THEOREM TypeCorrect == Spec => []TypeOK
<1>1. Init => TypeOK
  BY ColumnValues, LifecycleConstants
  DEF Init, TypeOK, FreeRow, UserBillingSnapshot
<1>2. TypeOK /\ [Next]_vars => TypeOK'
  <2> SUFFICES ASSUME TypeOK, [Next]_vars PROVE TypeOK'
    OBVIOUS
  <2>1. CASE Tick
    BY <2>1, LifecycleConstants DEF Tick, TypeOK
  <2>2. ASSUME NEW e \in Events, ApplyTransition(e) PROVE TypeOK'
    <3>1. e \in BillingEvent
      BY LifecycleConstants
    <3>2. PICK t \in 0 .. now : row' = Transition(row, e, t)
      BY <2>2 DEF ApplyTransition
    <3>3. row' \in UserBillingSnapshot
      BY <3>1, <3>2, TransitionType DEF TypeOK
    <3> QED BY <2>2, <3>3 DEF ApplyTransition, TypeOK
  <2>3. CASE UNCHANGED vars
    BY <2>3 DEF TypeOK, vars
  <2> QED BY <2>1, <2>2, <2>3 DEF Next
<1> QED BY <1>1, <1>2, PTL DEF Spec
-----------------------------------------------------------------------------

\* On a consistent row the CHECK constraints reject the result of an accepted
\* event in the listed cases and in no other.
LEMMA ChecksRejectExactly ==
    ASSUME NEW s \in UserBillingSnapshot, NEW e \in BillingEvent, NEW t \in Nat,
           ChecksPass(s), s.state = "free" => s.billingSource = Null,
           Accepts(s, e)
    PROVE  ChecksPass(Transition(s, e, t)) <=> ~RejectedByChecks(s, e)
<1> USE DEF ChecksPass, StatePlanConsistent, CancelFlagMatchesState,
            GraceStateHasEnd, PaidStateHasPeriod, SourceRequiredForPaid,
            RejectedByChecks, GraceStates
<1> DEFINE r == Transition(s, e, t)
<1>1. /\ r \in UserBillingSnapshot
      /\ "revenuecat" # Null /\ "lemon_squeezy" # Null
      /\ t + GraceDays # Null /\ t # Null
  BY TransitionType, BillingConstants DEF Sources
<1>2. CASE e.type \in PurchaseTypes
  <2>1. e.plan # "free" /\ e.periodEnd # Null
    BY <1>2, EventFields, BillingConstants DEF PaidPlans
  <2>2. CASE e.type = "RC_INITIAL_PURCHASE"
    BY <1>1, <2>1, <2>2
    DEF Transition, InitialPurchase, SameSubReplayed, ProductChange, NoGrace,
        UserBillingSnapshot
  <2>3. CASE e.type = "RC_PRODUCT_CHANGE"
    BY <1>1, <2>1, <2>3
    DEF Transition, ProductChange, NoGrace, UserBillingSnapshot
  <2>4. CASE e.type \in {"LS_SUBSCRIPTION_CREATED", "LS_SUBSCRIPTION_UPDATED"}
    BY <1>1, <2>1, <2>4
    DEF Transition, LemonSqueezyPurchase, NoGrace, UserBillingSnapshot
  <2> QED BY <1>2, <2>2, <2>3, <2>4 DEF PurchaseTypes
<1>3. CASE e.type \in PeriodTypes
  <2>1. e.periodEnd # Null
    BY <1>3, EventFields, BillingConstants
  <2>2. CASE e.type = "RC_RENEWAL"
    BY <1>1, <2>1, <2>2
    DEF Transition, Renewal, NoGrace, Accepts, UserBillingSnapshot
  <2>3. CASE e.type = "RC_CANCELLATION"
    BY <1>1, <2>1, <2>3
    DEF Transition, Cancellation, Accepts, UserBillingSnapshot
  <2> QED BY <1>3, <2>2, <2>3 DEF PeriodTypes
<1>4. CASE e.type = "TEAM_OWNER_EXPIRED"
  BY <1>1, <1>4 DEF Transition, TeamOwnerExpired, Grace, UserBillingSnapshot
<1>5. CASE e.type = "ADMIN_GRANT_PRO"
  <2>1. e.plan # "free"
    BY <1>5, EventFields DEF PaidPlans
  <2> QED
    BY <1>1, <1>5, <2>1
    DEF Transition, AdminGrantPro, FreeRow, UserBillingSnapshot
<1>6. CASE e.type \in BareTypes
  <2>1. CASE e.type = "RC_UNCANCELLATION"
    BY <1>1, <2>1 DEF Transition, Uncancellation, Accepts, UserBillingSnapshot
  <2>2. CASE e.type = "RC_EXPIRATION"
    BY <1>1, <2>2 DEF Transition, Expiration, Grace, UserBillingSnapshot, States
  <2>3. CASE e.type = "RC_BILLING_ISSUE"
    BY <1>1, <2>3 DEF Transition, BillingIssue, Accepts, UserBillingSnapshot
  <2>4. CASE e.type = "RC_REFUND"
    BY <1>1, <2>4 DEF Transition, Refund, FreeRow, UserBillingSnapshot
  <2>5. CASE e.type = "TEAM_MEMBER_REMOVED"
    BY <1>1, <2>5
    DEF Transition, TeamMemberRemoved, HasOwnSub, Grace, UserBillingSnapshot
  <2>6. CASE e.type = "GRACE_EXPIRED"
    BY <1>1, <2>6 DEF Transition, GraceExpired, NoGrace, UserBillingSnapshot
  <2>7. CASE e.type = "TRIAL_EXPIRED"
    BY <1>1, <2>7 DEF Transition, TrialExpired, FreeRow, UserBillingSnapshot
  <2>8. CASE e.type = "LS_SUBSCRIPTION_CANCELLED"
    BY <1>1, <2>8 DEF Transition, LemonSqueezyCancelled, UserBillingSnapshot
  <2> QED BY <1>6, <2>1, <2>2, <2>3, <2>4, <2>5, <2>6, <2>7, <2>8 DEF BareTypes
<1> QED BY <1>2, <1>3, <1>4, <1>5, <1>6, EventFields
-----------------------------------------------------------------------------

\* What the columns of a row tell of one another, beyond the constraints.
ColumnsAgree(s) ==
    /\ s.state = "grace_pro" <=> s.graceReason = "pro_expired"
    /\ s.state = "grace_team" <=> s.graceReason = "team_expired"
    /\ s.state = "free" => s.billingSource = Null
    /\ s.billingSource = "revenuecat" => s.refundedAt = Null
    /\ s.state = "billing_issue" => s.billingIssueAt # Null

\* A result the constraints let through keeps the columns in agreement.
LEMMA ColumnsStayInAgreement ==
    ASSUME NEW s \in UserBillingSnapshot, NEW e \in BillingEvent, NEW t \in Nat,
           ChecksPass(s), ColumnsAgree(s), Accepts(s, e),
           ChecksPass(Transition(s, e, t))
    PROVE  ColumnsAgree(Transition(s, e, t))
<1> USE DEF ColumnsAgree, GraceStates
<1> DEFINE r == Transition(s, e, t)
<1>1. /\ r \in UserBillingSnapshot
      /\ Null \notin {"revenuecat", "lemon_squeezy", "pro_expired", "team_expired"}
      /\ t # Null
  BY TransitionType, BillingConstants DEF Sources, GraceReasons
<1>2. CASE e.type \in PurchaseTypes
  <2>1. CASE e.type = "RC_INITIAL_PURCHASE"
    BY <1>1, <2>1
    DEF Transition, InitialPurchase, SameSubReplayed, ProductChange, NoGrace,
        UserBillingSnapshot
  <2>2. CASE e.type = "RC_PRODUCT_CHANGE"
    BY <1>1, <2>2 DEF Transition, ProductChange, NoGrace, UserBillingSnapshot
  <2>3. CASE e.type \in {"LS_SUBSCRIPTION_CREATED", "LS_SUBSCRIPTION_UPDATED"}
    BY <1>1, <2>3
    DEF Transition, LemonSqueezyPurchase, NoGrace, UserBillingSnapshot
  <2> QED BY <1>2, <2>1, <2>2, <2>3 DEF PurchaseTypes
<1>3. CASE e.type = "RC_RENEWAL"
  BY <1>1, <1>3 DEF Transition, Renewal, NoGrace, UserBillingSnapshot
<1>4. CASE e.type = "RC_CANCELLATION"
  BY <1>1, <1>4 DEF Transition, Cancellation, Accepts, UserBillingSnapshot
<1>5. CASE e.type = "TEAM_OWNER_EXPIRED"
  BY <1>1, <1>5 DEF Transition, TeamOwnerExpired, Grace, UserBillingSnapshot
<1>6. CASE e.type = "ADMIN_GRANT_PRO"
  BY <1>1, <1>6 DEF Transition, AdminGrantPro, FreeRow, UserBillingSnapshot
<1>7. CASE e.type \in BareTypes
  <2>1. CASE e.type = "RC_UNCANCELLATION"
    BY <1>1, <2>1 DEF Transition, Uncancellation, UserBillingSnapshot
  <2>2. CASE e.type = "RC_EXPIRATION"
    BY <1>1, <2>2 DEF Transition, Expiration, Grace, UserBillingSnapshot
  <2>3. CASE e.type = "RC_BILLING_ISSUE"
    BY <1>1, <2>3 DEF Transition, BillingIssue, Accepts, UserBillingSnapshot
  <2>4. CASE e.type = "RC_REFUND"
    BY <1>1, <2>4 DEF Transition, Refund, FreeRow, UserBillingSnapshot
  <2>5. CASE e.type = "TEAM_MEMBER_REMOVED"
    BY <1>1, <2>5
    DEF Transition, TeamMemberRemoved, HasOwnSub, Grace, UserBillingSnapshot
  <2>6. CASE e.type = "GRACE_EXPIRED"
    BY <1>1, <2>6 DEF Transition, GraceExpired, NoGrace, UserBillingSnapshot
  <2>7. CASE e.type = "TRIAL_EXPIRED"
    BY <1>1, <2>7 DEF Transition, TrialExpired, FreeRow, UserBillingSnapshot
  <2>8. CASE e.type = "LS_SUBSCRIPTION_CANCELLED"
    BY <1>1, <2>8
    DEF Transition, LemonSqueezyCancelled, ChecksPass, GraceStateHasEnd,
        UserBillingSnapshot
  <2> QED BY <1>7, <2>1, <2>2, <2>3, <2>4, <2>5, <2>6, <2>7, <2>8 DEF BareTypes
<1> QED BY <1>2, <1>3, <1>4, <1>5, <1>6, <1>7, EventFields DEF PeriodTypes

\* The inductive invariant: the constraints alone are not inductive for the
\* properties below, and the agreement of the columns is not without them.
RowInv == TypeOK /\ ChecksPass(row) /\ ColumnsAgree(row)

LEMMA RowInvInductive ==
    ASSUME RowInv, [Next]_vars
    PROVE  RowInv'
<1> USE DEF RowInv
<1>1. CASE Tick
  BY <1>1, LifecycleConstants DEF Tick, TypeOK
<1>2. ASSUME NEW e \in Events, ApplyTransition(e) PROVE RowInv'
  <2>1. PICK t \in 0 .. now : row' = Transition(row, e, t)
    BY <1>2 DEF ApplyTransition
  <2>2. e \in BillingEvent /\ t \in Nat
    BY LifecycleConstants DEF TypeOK
  <2>3. Accepts(row, e) /\ ChecksPass(row') /\ now' = now
    BY <1>2 DEF ApplyTransition
  <2>4. row' \in UserBillingSnapshot
    BY <2>1, <2>2, TransitionType DEF TypeOK
  <2>5. ColumnsAgree(row')
    BY <2>1, <2>2, <2>3, ColumnsStayInAgreement DEF TypeOK
  <2> QED BY <2>3, <2>4, <2>5 DEF TypeOK
<1>3. CASE UNCHANGED vars
  BY <1>3 DEF TypeOK, vars
<1> QED BY <1>1, <1>2, <1>3 DEF Next

LEMMA RowInvHolds == Spec => []RowInv
<1>1. Init => RowInv
  <2> SUFFICES ASSUME Init PROVE RowInv
    OBVIOUS
  <2>1. TypeOK
    BY ColumnValues, LifecycleConstants
    DEF Init, TypeOK, FreeRow, UserBillingSnapshot
  <2>2. ChecksPass(row) /\ ColumnsAgree(row)
    BY BillingConstants
    DEF Init, FreeRow, ColumnsAgree, ChecksPass, StatePlanConsistent,
        CancelFlagMatchesState, GraceStateHasEnd, PaidStateHasPeriod,
        SourceRequiredForPaid, GraceStates, Sources, GraceReasons
  <2> QED BY <2>1, <2>2 DEF RowInv
<1> QED BY <1>1, RowInvInductive, PTL DEF Spec

\* The CHECK constraints stop exactly the listed events, whatever the history.
THEOREM OnlyKnownRejections == Spec => []RejectionsAreKnown
<1>1. RowInv => RejectionsAreKnown
  <2> SUFFICES ASSUME RowInv, NEW e \in Events, Accepts(row, e)
               PROVE  ChecksPass(Transition(row, e, now))
                        <=> ~RejectedByChecks(row, e)
    BY DEF RejectionsAreKnown
  <2>1. e \in BillingEvent /\ now \in Nat
    BY LifecycleConstants DEF RowInv, TypeOK
  <2> QED BY <2>1, ChecksRejectExactly DEF RowInv, TypeOK, ColumnsAgree
<1> QED BY <1>1, RowInvHolds, PTL

\* The columns that carry the same fact never disagree: grace, its reason and
\* end; a free row and its store; RevenueCat and the refund marker; a billing
\* issue and its date.
THEOREM Markers == Spec => []MarkersAgree
<1>1. RowInv => MarkersAgree
  BY DEF RowInv, ColumnsAgree, MarkersAgree
<1> QED BY <1>1, RowInvHolds, PTL
-----------------------------------------------------------------------------

\* Each kind of purchase overwrites every column it depends on.
LEMMA PurchasesAreIdempotent ==
    ASSUME NEW s \in UserBillingSnapshot, NEW e
    PROVE  /\ ProductChange(ProductChange(s, e), e) = ProductChange(s, e)
           /\ Renewal(Renewal(s, e), e) = Renewal(s, e)
           /\ LemonSqueezyPurchase(LemonSqueezyPurchase(s, e), e)
                = LemonSqueezyPurchase(s, e)
<1>1. ProductChange(ProductChange(s, e), e) = ProductChange(s, e)
  BY DEF ProductChange, NoGrace, UserBillingSnapshot
<1>2. Renewal(Renewal(s, e), e) = Renewal(s, e)
  BY DEF Renewal, NoGrace, UserBillingSnapshot
<1>3. LemonSqueezyPurchase(LemonSqueezyPurchase(s, e), e)
        = LemonSqueezyPurchase(s, e)
  BY DEF LemonSqueezyPurchase, NoGrace, UserBillingSnapshot
<1> QED BY <1>1, <1>2, <1>3

\* So does a purchase that keeps the cancellation of a replayed subscription.
LEMMA InitialPurchaseIsIdempotent ==
    ASSUME NEW s \in UserBillingSnapshot, NEW e, ChecksPass(s)
    PROVE  InitialPurchase(InitialPurchase(s, e), e) = InitialPurchase(s, e)
<1>1. CASE SameSubReplayed(s, e)
  <2>1. SameSubReplayed(InitialPurchase(s, e), e)
    BY <1>1 DEF InitialPurchase, SameSubReplayed, ProductChange, NoGrace,
                UserBillingSnapshot
  <2>2. InitialPurchase(s, e) =
          [ProductChange(s, e) EXCEPT !.state = "cancel_at_period_end",
                                      !.cancelAtPeriodEnd = TRUE]
    BY <1>1 DEF InitialPurchase, SameSubReplayed, ChecksPass,
                CancelFlagMatchesState, UserBillingSnapshot
  <2> DEFINE once == InitialPurchase(s, e)
  <2>3. ProductChange(once, e) = ProductChange(s, e)
    BY <2>2 DEF ProductChange, NoGrace, UserBillingSnapshot
  <2>4. once.state = "cancel_at_period_end" /\ once.cancelAtPeriodEnd = TRUE
    BY <2>2 DEF ProductChange, NoGrace, UserBillingSnapshot
  <2>5. InitialPurchase(once, e) =
          [ProductChange(once, e) EXCEPT !.state = once.state,
                                         !.cancelAtPeriodEnd = once.cancelAtPeriodEnd]
    BY <2>1 DEF InitialPurchase
  <2> HIDE DEF once
  <2> QED BY <2>2, <2>3, <2>4, <2>5 DEF once
<1>2. CASE ~SameSubReplayed(s, e)
  <2>1. InitialPurchase(s, e) = ProductChange(s, e)
    BY <1>2 DEF InitialPurchase
  <2>2. ~SameSubReplayed(ProductChange(s, e), e)
    BY DEF SameSubReplayed, ProductChange, NoGrace, UserBillingSnapshot
  <2> QED
    BY <2>1, <2>2, PurchasesAreIdempotent DEF InitialPurchase
<1> QED BY <1>1, <1>2

\* Delivering a store's event twice is delivering it once.
LEMMA RedeliverOnce ==
    ASSUME NEW s \in UserBillingSnapshot, NEW e \in BillingEvent, NEW t \in Nat,
           e.type \in WebhookTypes,
           ChecksPass(s), Accepts(s, e), ChecksPass(Transition(s, e, t))
    PROVE  LET once == Transition(s, e, t)
               twice == Transition(once, e, t + 1)
           IN  /\ Accepts(once, e)
               /\ twice = IF e.type = "RC_REFUND"
                          THEN [once EXCEPT !.refundedAt = t + 1]
                          ELSE once
<1> USE DEF GraceStates
<1> DEFINE once == Transition(s, e, t)
<1>1. once \in UserBillingSnapshot
  BY TransitionType
<1>2. CASE e.type = "RC_INITIAL_PURCHASE"
  BY <1>2, InitialPurchaseIsIdempotent DEF Transition, Accepts
<1>3. CASE e.type = "RC_PRODUCT_CHANGE"
  BY <1>3, PurchasesAreIdempotent DEF Transition, Accepts
<1>4. CASE e.type \in {"LS_SUBSCRIPTION_CREATED", "LS_SUBSCRIPTION_UPDATED"}
  BY <1>4, PurchasesAreIdempotent DEF Transition, Accepts
<1>5. CASE e.type = "RC_RENEWAL"
  <2>1. once.state # "free"
    BY <1>5 DEF Transition, Renewal, NoGrace, UserBillingSnapshot
  <2> QED BY <1>5, <2>1, PurchasesAreIdempotent DEF Transition, Accepts
<1>6. CASE e.type = "RC_CANCELLATION"
  BY <1>1, <1>6 DEF Transition, Cancellation, Accepts, UserBillingSnapshot
<1>7. CASE e.type = "RC_UNCANCELLATION"
  BY <1>1, <1>7 DEF Transition, Uncancellation, Accepts, UserBillingSnapshot
<1>8. CASE e.type = "RC_EXPIRATION"
  BY <1>1, <1>8 DEF Transition, Expiration, Grace, Accepts, UserBillingSnapshot
<1>9. CASE e.type = "RC_BILLING_ISSUE"
  BY <1>1, <1>9 DEF Transition, BillingIssue, Accepts, UserBillingSnapshot
<1>10. CASE e.type = "RC_REFUND"
  BY <1>1, <1>10 DEF Transition, Refund, FreeRow, Accepts, UserBillingSnapshot
<1>11. CASE e.type = "LS_SUBSCRIPTION_CANCELLED"
  BY <1>1, <1>11
  DEF Transition, LemonSqueezyCancelled, Accepts, UserBillingSnapshot
<1> QED BY <1>2, <1>3, <1>4, <1>5, <1>6, <1>7, <1>8, <1>9, <1>10, <1>11
        DEF WebhookTypes, PurchaseTypes, PeriodTypes

\* A webhook that gets past the duplicate check changes nothing the second
\* time, for any row the system can hold.
THEOREM RedeliverySafe == Spec => []RedeliveryIsIdempotent
<1>1. RowInv => RedeliveryIsIdempotent
  <2> SUFFICES ASSUME RowInv, NEW e \in Events, e.type \in WebhookTypes,
                      Accepts(row, e), ChecksPass(Transition(row, e, now))
               PROVE  LET once == Transition(row, e, now)
                          twice == Transition(once, e, now + 1)
                      IN  /\ Accepts(once, e)
                          /\ twice = IF e.type = "RC_REFUND"
                                     THEN [once EXCEPT !.refundedAt = now + 1]
                                     ELSE once
    BY DEF RedeliveryIsIdempotent
  <2>1. e \in BillingEvent /\ now \in Nat
    BY LifecycleConstants DEF RowInv, TypeOK
  <2> QED BY <2>1, RedeliverOnce DEF RowInv, TypeOK
<1> QED BY <1>1, RowInvHolds, PTL

\* No event but a refund or a Lemon Squeezy cancellation takes a running
\* RevenueCat plan to free in one step.
LEMMA OnlyRefundOrCancelFrees ==
    ASSUME NEW s \in UserBillingSnapshot, NEW e \in BillingEvent, NEW t \in Nat,
           ChecksPass(s), Accepts(s, e),
           s.billingSource = "revenuecat", s.state \notin GraceStates,
           Transition(s, e, t).plan = "free",
           s.state = "free" => s.billingSource = Null
    PROVE  \/ Transition(s, e, t).refundedAt # Null
           \/ Transition(s, e, t) = LemonSqueezyCancelled(s)
<1> USE DEF GraceStates
<1>1. s.plan # "free" /\ s.state # "free" /\ t # Null /\ s.billingSource \in Sources
  BY BillingConstants DEF ChecksPass, StatePlanConsistent, Sources
<1>2. CASE e.type \in PurchaseTypes
  <2>1. e.plan # "free"
    BY <1>2, EventFields DEF PaidPlans
  <2> QED
    BY <1>2, <2>1
    DEF Transition, InitialPurchase, ProductChange, LemonSqueezyPurchase,
        NoGrace, PurchaseTypes, UserBillingSnapshot
<1>3. CASE e.type \in PeriodTypes \cup {"TEAM_OWNER_EXPIRED"}
  BY <1>1, <1>3
  DEF Transition, Renewal, Cancellation, TeamOwnerExpired, Grace, NoGrace,
      PeriodTypes, UserBillingSnapshot
<1>4. CASE e.type = "ADMIN_GRANT_PRO"
  BY <1>1, <1>4 DEF Accepts
<1>5. CASE e.type \in BareTypes
  BY <1>1, <1>5
  DEF Transition, Uncancellation, Expiration, Refund, BillingIssue,
      TeamMemberRemoved, GraceExpired, TrialExpired, Grace, NoGrace, FreeRow,
      BareTypes, UserBillingSnapshot
<1> QED BY <1>2, <1>3, <1>4, <1>5, EventFields

\* A plan RevenueCat pays for ends at once only on purpose, for every user
\* history and every order of the events.
THEOREM PaidPlanSafe == Spec => PaidPlanEndsOnPurpose
<1>1. RowInv /\ [Next]_vars =>
        [ row.billingSource = "revenuecat" /\ row.state \notin GraceStates
            /\ row'.plan = "free"
          => row'.refundedAt # Null \/ row' = LemonSqueezyCancelled(row) ]_vars
  <2> SUFFICES ASSUME RowInv, [Next]_vars,
                      row.billingSource = "revenuecat",
                      row.state \notin GraceStates, row'.plan = "free"
               PROVE  \/ row'.refundedAt # Null
                      \/ row' = LemonSqueezyCancelled(row)
                      \/ UNCHANGED vars
    OBVIOUS
  <2>1. row.plan # "free"
    BY BillingConstants
    DEF RowInv, ColumnsAgree, ChecksPass, StatePlanConsistent, Sources
  <2>2. ASSUME NEW e \in Events, ApplyTransition(e)
        PROVE  row'.refundedAt # Null \/ row' = LemonSqueezyCancelled(row)
    <3>1. PICK t \in 0 .. now : row' = Transition(row, e, t)
      BY <2>2 DEF ApplyTransition
    <3>2. e \in BillingEvent /\ t \in Nat /\ Accepts(row, e)
      BY <2>2, LifecycleConstants DEF ApplyTransition, RowInv, TypeOK
    <3> QED
      BY <3>1, <3>2, OnlyRefundOrCancelFrees DEF RowInv, TypeOK, ColumnsAgree
  <2>3. CASE Tick
    BY <2>1, <2>3 DEF Tick
  <2> QED BY <2>2, <2>3 DEF Next
<1> QED BY <1>1, RowInvHolds, PTL DEF Spec, PaidPlanEndsOnPurpose
-----------------------------------------------------------------------------

\* Who is on their own is served nothing in three cases only: nothing is there,
\* a grant that nobody pays (unless they own a team), or a cancelled period that
\* is over.
LEMMA ServedAlone ==
    ASSUME NEW s \in UserBillingSnapshot, ChecksPass(s), ColumnsAgree(s),
           NEW c \in Alone, NEW n \in Nat
    PROVE  Resolve(s, c, n).plan = "free" <=>
             \/ s.state = "free"
             \/ s.state = "active" /\ s.billingSource = Null /\ ~c.ownsTeam
             \/ Lapsed(s, n)
<1> USE DEF GraceStates, PaidStates, PaidPlans, Plans
<1>1. /\ c.trial = "none" /\ ~c.inTeam /\ c.ownsTeam \in BOOLEAN
  BY DEF Alone
<1>2. ~MemberOfTeam(c) BY <1>1 DEF MemberOfTeam, IsTeamMember
<1>3. /\ s.plan \in Plans /\ s.state \in States
      /\ s.billingSource \in Sources \/ s.billingSource = Null
      /\ Null \notin Sources
  BY BillingConstants DEF UserBillingSnapshot, OrNull
<1>4. s.state = "free" <=> s.plan = "free"
  BY DEF ChecksPass, StatePlanConsistent
<1>5. CASE OwnerOfTeam(s, c)
  BY <1>1, <1>5 DEF Resolve, Answer, OwnerOfTeam, Lapsed
<1>6. CASE ~OwnerOfTeam(s, c) /\ OwnPlan(s)
  <2>1. Resolve(s, c, n) = OwnAnswer(s, n) BY <1>2, <1>6 DEF Resolve
  <2>2. s.state # "free" /\ s.billingSource # Null
    BY <1>3, <1>6 DEF OwnPlan, HasOwnPaidPlan
  <2> QED BY <1>4, <2>1, <2>2 DEF OwnAnswer, Answer
<1>7. CASE ~OwnerOfTeam(s, c) /\ ~OwnPlan(s) /\ SelfHeals(s, n)
  <2>1. Resolve(s, c, n) = Answer(s.plan, "own") BY <1>2, <1>7 DEF Resolve
  <2>2. s.plan # "free" /\ s.state \notin PaidStates BY <1>7 DEF SelfHeals
  <2> QED BY <1>4, <2>1, <2>2 DEF Answer, Lapsed
<1>8. CASE ~OwnerOfTeam(s, c) /\ ~OwnPlan(s) /\ ~SelfHeals(s, n)
  <2>1. Resolve(s, c, n) = GraceAnswer(s) BY <1>1, <1>2, <1>8 DEF Resolve
  <2>2. CASE s.state \in GraceStates BY <2>1, <2>2 DEF GraceAnswer, Answer, Lapsed
  <2>3. CASE s.state = "free" BY <2>1, <2>3 DEF GraceAnswer, Answer
  <2>4. CASE s.state \in PaidStates
    <3>1. s.billingSource = Null BY <1>3, <1>8, <2>4 DEF OwnPlan, HasOwnPaidPlan
    <3>2. s.state = "active" BY <3>1, <2>4 DEF ChecksPass, SourceRequiredForPaid
    <3>3. ~c.ownsTeam
      BY <1>3, <1>4, <1>8, <3>2 DEF OwnerOfTeam
    <3> QED BY <2>1, <3>1, <3>2, <3>3 DEF GraceAnswer, Answer
  <2> QED BY <1>3, <2>2, <2>3, <2>4 DEF States
<1> QED BY <1>5, <1>6, <1>7, <1>8

\* What ends a plan in one step, and that no step makes a grant that nobody pays
\* of anything but a free row.
LEMMA EndsOnPurpose ==
    ASSUME NEW s \in UserBillingSnapshot, NEW e \in BillingEvent, NEW t \in Nat,
           ChecksPass(s), ColumnsAgree(s), Accepts(s, e), ChecksPass(Transition(s, e, t))
    PROVE  LET r == Transition(s, e, t)
           IN  /\ r.state = "free" =>
                    \/ r = s \/ s.state = "free"
                    \/ r.refundedAt # Null
                    \/ r = LemonSqueezyCancelled(s)
                    \/ s.state \in GraceStates /\ r = GraceExpired(s)
                    \/ s.billingSource = Null /\ r = TrialExpired(s)
               /\ r.state = "active" /\ r.billingSource = Null =>
                    \/ s.state = "active" /\ s.billingSource = Null
                    \/ s.state = "free"
<1> USE DEF GraceStates
<1>1. /\ t # Null /\ "revenuecat" # Null /\ "lemon_squeezy" # Null
      /\ s.state \in States
      /\ s.billingSource \in Sources \/ s.billingSource = Null
  BY BillingConstants DEF Sources, UserBillingSnapshot, OrNull
<1>2. s.state \notin {"free", "active"} => s.billingSource # Null
  BY DEF ChecksPass, SourceRequiredForPaid
<1>3. CASE e.type \in PurchaseTypes
  BY <1>1, <1>3
  DEF Transition, InitialPurchase, SameSubReplayed, ProductChange, LemonSqueezyPurchase,
      NoGrace, PurchaseTypes, UserBillingSnapshot
<1>4. CASE e.type \in PeriodTypes \cup {"TEAM_OWNER_EXPIRED"}
  BY <1>1, <1>2, <1>4
  DEF Transition, Renewal, Cancellation, TeamOwnerExpired, Grace, NoGrace, Accepts,
      PeriodTypes, UserBillingSnapshot
<1>5. CASE e.type = "ADMIN_GRANT_PRO"
  BY <1>5 DEF Accepts
<1>6. CASE e.type \in BareTypes
  <2>1. CASE e.type = "RC_UNCANCELLATION"
    BY <1>1, <1>2, <2>1 DEF Transition, Uncancellation, Accepts, UserBillingSnapshot
  <2>2. CASE e.type = "RC_EXPIRATION"
    BY <1>1, <1>2, <2>2 DEF Transition, Expiration, Grace, Accepts, UserBillingSnapshot
  <2>3. CASE e.type = "RC_BILLING_ISSUE"
    BY <1>1, <1>2, <2>3 DEF Transition, BillingIssue, Accepts, UserBillingSnapshot
  <2>4. CASE e.type = "RC_REFUND"
    BY <1>1, <1>2, <2>4 DEF Transition, Refund, FreeRow, Accepts, UserBillingSnapshot
  <2>5. CASE e.type = "TEAM_MEMBER_REMOVED"
    BY <1>1, <1>2, <2>5 DEF Transition, TeamMemberRemoved, Grace, Accepts, UserBillingSnapshot
  <2>6. CASE e.type = "GRACE_EXPIRED"
    BY <1>1, <1>2, <2>6 DEF Transition, GraceExpired, NoGrace, Accepts, UserBillingSnapshot
  <2>7. CASE e.type = "TRIAL_EXPIRED"
    BY <1>1, <1>2, <2>7 DEF Transition, TrialExpired, FreeRow, Accepts, UserBillingSnapshot
  <2>8. CASE e.type = "LS_SUBSCRIPTION_CANCELLED"
    BY <1>1, <1>2, <2>8 DEF Transition, LemonSqueezyCancelled, Accepts, UserBillingSnapshot
  <2> QED BY <1>6, <2>1, <2>2, <2>3, <2>4, <2>5, <2>6, <2>7, <2>8 DEF BareTypes
<1> QED BY <1>3, <1>4, <1>5, <1>6, EventFields

\* A running period is served, and the banner of the grace period is not shown
\* to who is served their own plan, whatever surrounds the user (computeResolve,
\* computeBannerPriority).
THEOREM AnswersAlwaysFit == Spec => []AnswersFit
<1>1. RowInv => AnswersFit
  <2> SUFFICES ASSUME RowInv, NEW c \in Surroundings
               PROVE  LET a == Resolve(row, c, now)
                      IN  /\ OwnPlan(row) /\ row.currentPeriodEnd > now => a.plan # "free"
                          /\ Banner(row, c, now) = "grace" => a.source # "own"
    BY DEF AnswersFit
  <2> DEFINE a == Resolve(row, c, now)
  <2>1. /\ row \in UserBillingSnapshot /\ now \in Nat /\ ChecksPass(row)
        /\ row.state = "free" <=> row.plan = "free"
    BY LifecycleConstants DEF RowInv, TypeOK, ChecksPass, StatePlanConsistent
  <2>2. OwnPlan(row) => row.plan # "free"
    BY <2>1 DEF OwnPlan, PaidStates
  <2>3. ASSUME OwnPlan(row), row.currentPeriodEnd > now PROVE a.plan # "free"
    <3>1. ~Lapsed(row, now)
      <4> SUFFICES ASSUME Lapsed(row, now) PROVE FALSE OBVIOUS
      <4>1. row.currentPeriodEnd \in Nat /\ row.currentPeriodEnd <= now
        BY <2>1 DEF Lapsed, PeriodOver, UserBillingSnapshot, OrNull
      <4> QED BY <2>1, <2>3, <4>1
    <3> QED BY <2>2, <2>3, <3>1 DEF Resolve, OwnAnswer, Answer
  <2>4. ASSUME Banner(row, c, now) = "grace" PROVE a.source # "own"
    <3>1. EffectiveState(row, a) \in GraceStates
      <4> HIDE DEF a
      <4> QED BY <2>4 DEF Banner, a
    <3>2. row.state \in GraceStates /\ ~(a.source = "own" /\ a.plan # "free")
      BY <3>1 DEF EffectiveState, GraceStates, PaidStates
    <3>3. row.plan # "free" BY <2>1, <3>2 DEF GraceStates
    <3> QED
      BY <3>2, <3>3
      DEF Resolve, OwnerOfTeam, OwnPlan, OwnAnswer, SelfHeals, GraceAnswer, Answer, GraceStates,
          PaidStates
  <2> QED BY <2>3, <2>4
<1> QED BY <1>1, RowInvHolds, PTL

\* No event and no passing day takes a plan out of the answer of a user on their
\* own but a refund, a Lemon Squeezy cancellation, the end of a grace period, of
\* a cancelled period, or of a trial (computeResolve over every transition).
THEOREM AccessSafe == Spec => AccessEndsOnPurpose
<1> DEFINE Purpose ==
        \/ row'.refundedAt # Null
        \/ row' = LemonSqueezyCancelled(row)
        \/ row.state \in GraceStates /\ row' = GraceExpired(row)
        \/ Lapsed(row', now')
        \/ row.billingSource = Null /\ row' = TrialExpired(row)
<1>1. ASSUME RowInv, RowInv', [Next]_vars, NEW c \in Alone,
             Resolve(row, c, now).plan # "free", Resolve(row', c, now').plan = "free"
      PROVE  Purpose
  <2>1. /\ row \in UserBillingSnapshot /\ now \in Nat /\ ChecksPass(row) /\ ColumnsAgree(row)
        /\ row' \in UserBillingSnapshot /\ now' \in Nat
        /\ ChecksPass(row') /\ ColumnsAgree(row')
    BY <1>1, LifecycleConstants DEF RowInv, TypeOK
  <2>2. /\ row.state # "free"
        /\ ~(row.state = "active" /\ row.billingSource = Null /\ ~c.ownsTeam)
        /\ ~Lapsed(row, now)
    BY <1>1, <2>1, ServedAlone
  <2>3. \/ row'.state = "free"
        \/ row'.state = "active" /\ row'.billingSource = Null /\ ~c.ownsTeam
        \/ Lapsed(row', now')
    BY <1>1, <2>1, ServedAlone
  <2>4. CASE UNCHANGED row BY <2>2, <2>3, <2>4
  <2>5. ASSUME NEW e \in Events, ApplyTransition(e) PROVE Purpose
    <3>1. PICK t \in 0 .. now : row' = Transition(row, e, t)
      BY <2>5 DEF ApplyTransition
    <3>2. e \in BillingEvent /\ t \in Nat /\ Accepts(row, e)
      BY <2>1, <2>5, LifecycleConstants DEF ApplyTransition
    <3> QED BY <2>1, <2>2, <2>3, <3>1, <3>2, EndsOnPurpose
  <2> QED BY <1>1, <2>4, <2>5 DEF Next, Tick, vars
<1>2. RowInv /\ RowInv' /\ [Next]_vars =>
        [ \A c \in Alone :
            Resolve(row, c, now).plan # "free" /\ Resolve(row', c, now').plan = "free"
              => Purpose ]_vars
  BY <1>1
<1> QED BY <1>2, RowInvHolds, PTL DEF Spec, AccessEndsOnPurpose
=============================================================================
