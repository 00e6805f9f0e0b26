------------------------- MODULE UserBillingProofs -------------------------
(* Table user_billing under any number of concurrent handlers implements   *)
(* the life of one row, for every user.                                    *)
EXTENDS UserBilling, BillingStateMachineProofs

\* The abstract row is moved by the same reducer, under the same constraints.
LEMMA SameReducer ==
    ASSUME NEW u \in Users, NEW s, NEW e, NEW t
    PROVE  /\ Row(u)!FreeRow = FreeRow
           /\ Row(u)!Accepts(s, e) <=> Accepts(s, e)
           /\ Row(u)!Transition(s, e, t) = Transition(s, e, t)
           /\ Row(u)!ChecksPass(s) <=> ChecksPass(s)
<1>1. Row(u)!FreeRow = FreeRow
  BY DEF Row!FreeRow, FreeRow
<1>2. Row(u)!Accepts(s, e) <=> Accepts(s, e)
  BY DEF Row!Accepts, Accepts
<1>3. Row(u)!ChecksPass(s) <=> ChecksPass(s)
  BY DEF Row!ChecksPass, Row!StatePlanConsistent, Row!CancelFlagMatchesState,
         Row!GraceStateHasEnd, Row!PaidStateHasPeriod,
         Row!SourceRequiredForPaid, Row!GraceStates,
         ChecksPass, StatePlanConsistent, CancelFlagMatchesState,
         GraceStateHasEnd, PaidStateHasPeriod, SourceRequiredForPaid,
         GraceStates
<1>4. Row(u)!Transition(s, e, t) = Transition(s, e, t)
  <2> USE DEF Row!NoGrace, NoGrace, Row!Grace, Grace, Row!GraceStates, GraceStates
  <2>1. /\ Row(u)!ProductChange(s, e) = ProductChange(s, e)
        /\ Row(u)!SameSubReplayed(s, e) <=> SameSubReplayed(s, e)
        /\ Row(u)!HasOwnSub(s) <=> HasOwnSub(s)
    BY DEF Row!ProductChange, ProductChange, Row!SameSubReplayed,
           SameSubReplayed, Row!HasOwnSub, HasOwnSub
  <2>2. Row(u)!InitialPurchase(s, e) = InitialPurchase(s, e)
    BY <2>1 DEF Row!InitialPurchase, InitialPurchase
  <2>3. /\ Row(u)!Renewal(s, e) = Renewal(s, e)
        /\ Row(u)!Cancellation(s, e) = Cancellation(s, e)
        /\ Row(u)!Uncancellation(s) = Uncancellation(s)
        /\ Row(u)!Expiration(s, t) = Expiration(s, t)
    BY DEF Row!Renewal, Renewal, Row!Cancellation, Cancellation,
           Row!Uncancellation, Uncancellation, Row!Expiration, Expiration
  <2>4. /\ Row(u)!Refund(t) = Refund(t)
        /\ Row(u)!BillingIssue(s, t) = BillingIssue(s, t)
        /\ Row(u)!TeamOwnerExpired(s, e, t) = TeamOwnerExpired(s, e, t)
        /\ Row(u)!TeamMemberRemoved(s, t) = TeamMemberRemoved(s, t)
    BY <1>1, <2>1
    DEF Row!Refund, Refund, Row!BillingIssue, BillingIssue,
        Row!TeamOwnerExpired, TeamOwnerExpired,
        Row!TeamMemberRemoved, TeamMemberRemoved
  <2>5. /\ Row(u)!GraceExpired(s) = GraceExpired(s)
        /\ Row(u)!TrialExpired(s) = TrialExpired(s)
        /\ Row(u)!AdminGrantPro(s, e) = AdminGrantPro(s, e)
    BY <1>1
    DEF Row!GraceExpired, GraceExpired, Row!TrialExpired, TrialExpired,
        Row!AdminGrantPro, AdminGrantPro, Row!Sources, Sources
  <2>6. /\ Row(u)!LemonSqueezyPurchase(s, e) = LemonSqueezyPurchase(s, e)
        /\ Row(u)!LemonSqueezyCancelled(s) = LemonSqueezyCancelled(s)
    BY DEF Row!LemonSqueezyPurchase, LemonSqueezyPurchase,
           Row!LemonSqueezyCancelled, LemonSqueezyCancelled
  <2> QED
    BY <2>1, <2>2, <2>3, <2>4, <2>5, <2>6 DEF Row!Transition, Transition
<1> QED BY <1>1, <1>2, <1>3, <1>4

\* What each event a row can meet carries.
LEMMA RowEventFields ==
    ASSUME NEW e \in RowEvents
    PROVE  /\ e \in BillingEvent
           /\ e.type \in PurchaseTypes \cup PeriodTypes => e.periodEnd \in PeriodEnds
<1> USE UserBillingConstants
<1>1. PeriodEnds \subseteq Nat
  <2>1. \A d \in BillingEvent : "periodEnd" \in DOMAIN d => d.periodEnd \in Nat
    BY DEF BillingEvent
  <2>2. \A v \in RcViews : v.periodEnd \in Nat
    BY DEF Entitlement
  <2> QED BY <2>1, <2>2 DEF PeriodEnds, StoreEvents
<1>2. CASE e \in StoreEvents
  <2>1. e \in BillingEvent
    BY <1>2 DEF StoreEvents
  <2>2. e.type \in PurchaseTypes \cup PeriodTypes => "periodEnd" \in DOMAIN e
    BY <2>1 DEF BillingEvent, PurchaseTypes, PeriodTypes, BareTypes
  <2> QED BY <1>2, <2>1, <2>2 DEF PeriodEnds
<1>3. CASE e \in [type : {"RC_CANCELLATION", "RC_RENEWAL"}, periodEnd : PeriodEnds]
  BY <1>1, <1>3 DEF BillingEvent, PeriodTypes
<1>4. CASE e \in [type : {"TRIAL_EXPIRED", "TEAM_MEMBER_REMOVED",
                          "GRACE_EXPIRED", "LS_SUBSCRIPTION_CANCELLED"}]
  BY <1>4 DEF BillingEvent, BareTypes, PurchaseTypes, PeriodTypes
<1>5. CASE e \in [type : {"TEAM_OWNER_EXPIRED"}, memberHasOwnSub : BOOLEAN]
              \cup [type : {"ADMIN_GRANT_PRO"}, plan : {"pro"}]
  BY <1>5 DEF BillingEvent, PaidPlans, Plans, PurchaseTypes, PeriodTypes
<1>6. CASE e \in [type : {"RC_INITIAL_PURCHASE", "RC_PRODUCT_CHANGE"},
                 plan : {v.plan : v \in RcViews}, periodEnd : PeriodEnds]
  <2>1. \A v \in RcViews : v.plan \in PaidPlans
    BY DEF Entitlement
  <2> QED BY <1>1, <1>6, <2>1 DEF BillingEvent, PurchaseTypes
<1>7. CASE e \in [type : {"RC_EXPIRATION", "RC_BILLING_ISSUE"}]
  BY <1>7 DEF BillingEvent, BareTypes, PurchaseTypes, PeriodTypes
<1> QED BY <1>2, <1>3, <1>4, <1>5, <1>6, <1>7 DEF RowEvents

\* The reducer takes the end of a period from the event or the row.
LEMMA PeriodEndIsKnown ==
    ASSUME NEW s \in UserBillingSnapshot, NEW e \in RowEvents, NEW t \in Nat,
           s.currentPeriodEnd \in OrNull(PeriodEnds)
    PROVE  Transition(s, e, t).currentPeriodEnd \in OrNull(PeriodEnds)
<1> USE DEF OrNull
<1>1. CASE e.type \in PurchaseTypes
  BY <1>1, RowEventFields
  DEF Transition, PurchaseTypes, InitialPurchase, ProductChange,
      LemonSqueezyPurchase, NoGrace, UserBillingSnapshot
<1>2. CASE e.type \in PeriodTypes
  BY <1>2, RowEventFields
  DEF Transition, PeriodTypes, Renewal, Cancellation, NoGrace, UserBillingSnapshot
<1>3. CASE e.type \in {"TEAM_OWNER_EXPIRED", "ADMIN_GRANT_PRO"}
  BY <1>3
  DEF Transition, TeamOwnerExpired, AdminGrantPro, Grace, FreeRow,
      UserBillingSnapshot
<1>4. CASE e.type \in BareTypes
  BY <1>4
  DEF Transition, BareTypes, Uncancellation, Expiration, Refund, BillingIssue,
      TeamMemberRemoved, GraceExpired, TrialExpired, LemonSqueezyCancelled,
      Grace, NoGrace, FreeRow, UserBillingSnapshot
<1> QED BY <1>1, <1>2, <1>3, <1>4, RowEventFields, EventFields

-----------------------------------------------------------------------------
(* The inductive invariant.                                                *)

\* The types of what the proof speaks of.
TableTypes ==
    /\ now \in 0 .. MaxTime
    /\ billing \in [Users -> UserBillingSnapshot]
    /\ writes \in [Procs -> [Users -> OrNull(UserBillingSnapshot)]]
    /\ lock \in [Users -> Procs \cup {Nobody}]
    /\ members \in [Owners -> SUBSET Users]
    /\ proc \in [Procs -> Handler]

\* A handler that will apply something knows to whom, and what.
HandlersAimed ==
    \A p \in Procs :
        /\ proc[p].pc \in {"read", "apply"} =>
              proc[p].user \in Users /\ proc[p].event \in RowEvents
        /\ proc[p].pc = "member" => proc[p].member \in Users

PeriodsKnown ==
    \A u \in Users : billing[u].currentPeriodEnd \in OrNull(PeriodEnds)

\* r is what the committed row of u may become in one step of its life.
OneTransition(u, r) ==
    \/ r = billing[u]
    \/ \E e \in RowEvents, t \in 0 .. now :
          Accepts(billing[u], e) /\ r = Transition(billing[u], e, t) /\ ChecksPass(r)

\* Nothing is written that is not one transition away from what is committed:
\* it stays so while the row is locked.
WritesAreTransitions ==
    \A p \in Procs, u \in Users : writes[p][u] # Null => OneTransition(u, writes[p][u])

TableInv ==
    /\ TableTypes /\ HandlersAimed /\ PeriodsKnown
    /\ WritesUnderLock /\ WritesAreTransitions

\* A handler that does nothing yet.
LEMMA IdleHandler == Idle \in Handler /\ Idle.pc = "idle" /\ FreeRow \in UserBillingSnapshot
<1>1. FreeRow \in UserBillingSnapshot
  BY ColumnValues DEF FreeRow, UserBillingSnapshot
<1> QED BY <1>1 DEF Idle, Handler, Pcs, Actors

LEMMA InitTable == Init => TableInv
<1> SUFFICES ASSUME Init PROVE TableInv
  OBVIOUS
<1>1. TableTypes
  BY IdleHandler, UserBillingConstants
  DEF Init, TableTypes, OrNull
<1>2. \A p \in Procs, u \in Users : writes[p][u] = Null
  BY DEF Init
<1>3. HandlersAimed
  BY IdleHandler DEF Init, HandlersAimed
<1>4. PeriodsKnown
  BY DEF Init, PeriodsKnown, FreeRow, OrNull
<1> QED
  BY <1>1, <1>2, <1>3, <1>4 DEF TableInv, WritesUnderLock, WritesAreTransitions

\* A step that leaves rows and locks alone need only keep its handlers aimed.
LEMMA HandlersOnly ==
    ASSUME TableInv, UNCHANGED <<now, billing, writes, lock>>,
           members' \in [Owners -> SUBSET Users],
           proc' \in [Procs -> Handler], HandlersAimed'
    PROVE  TableInv'
BY DEF TableInv, TableTypes, PeriodsKnown, WritesUnderLock,
       WritesAreTransitions, OneTransition

\* The handler of p changes from what it is to h.
LEMMA OneHandler ==
    ASSUME TableInv, NEW p \in Procs, NEW h \in Handler,
           proc' = [proc EXCEPT ![p] = h],
           h.pc \in {"read", "apply"} => h.user \in Users /\ h.event \in RowEvents,
           h.pc = "member" => h.member \in Users
    PROVE  proc' \in [Procs -> Handler] /\ HandlersAimed'
BY DEF TableInv, TableTypes, HandlersAimed

\* A transaction that ends lets go of its rows and of nobody else's.
LEMMA ReleaseKeeps ==
    ASSUME TableInv, NEW p \in Procs, Release(p)
    PROVE  /\ writes' \in [Procs -> [Users -> OrNull(UserBillingSnapshot)]]
           /\ lock' \in [Users -> Procs \cup {Nobody}]
           /\ WritesUnderLock'
           /\ \A q \in Procs, u \in Users :
                writes'[q][u] # Null => q # p /\ writes'[q][u] = writes[q][u]
BY DEF TableInv, TableTypes, WritesUnderLock, Release, OrNull

\* A rollback leaves the committed rows as they are.
LEMMA RollbackKeeps ==
    ASSUME TableInv, NEW p \in Procs, Rollback(p)
    PROVE  TableInv'
<1>1. proc' \in [Procs -> Handler] /\ HandlersAimed'
  BY IdleHandler, OneHandler DEF Rollback
<1>2. Release(p) /\ UNCHANGED <<now, billing, members>>
  BY DEF Rollback, tables
<1>3. WritesAreTransitions'
  BY <1>2, ReleaseKeeps DEF TableInv, WritesAreTransitions, OneTransition
<1> QED BY <1>1, <1>2, <1>3, ReleaseKeeps DEF TableInv, TableTypes, PeriodsKnown

\* A row is written only while nobody else has it.
LEMMA WriteKeeps ==
    ASSUME TableInv, NEW p \in Procs, NEW u \in Users,
           NEW r \in UserBillingSnapshot,
           lock[u] = Nobody, Write(p, u, r), OneTransition(u, r),
           proc' \in [Procs -> Handler], HandlersAimed'
    PROVE  TableInv'
<1>1. /\ writes' = [writes EXCEPT ![p][u] = r]
      /\ lock' = [lock EXCEPT ![u] = p]
      /\ UNCHANGED <<now, billing, members>>
  BY DEF Write, tables
<1>2. \A q \in Procs : writes[q][u] = Null
  BY UserBillingConstants DEF TableInv, WritesUnderLock
<1>3. /\ writes' \in [Procs -> [Users -> OrNull(UserBillingSnapshot)]]
      /\ lock' \in [Users -> Procs \cup {Nobody}]
  BY <1>1 DEF TableInv, TableTypes, OrNull
<1>4. \A q \in Procs, v \in Users :
        writes'[q][v] = IF q = p /\ v = u THEN r ELSE writes[q][v]
  BY <1>1 DEF TableInv, TableTypes
<1>5. WritesUnderLock'
  BY <1>1, <1>2, <1>4 DEF TableInv, TableTypes, WritesUnderLock
<1>6. WritesAreTransitions'
  BY <1>1, <1>4 DEF TableInv, WritesAreTransitions, OneTransition
<1> QED BY <1>1, <1>3, <1>5, <1>6 DEF TableInv, TableTypes, PeriodsKnown

-----------------------------------------------------------------------------
(* Every action keeps the invariant.                                       *)

\* A handler that starts is idle no more, and aimed.
LEMMA StartKeeps ==
    ASSUME TableInv, NEW p \in Procs, NEW h \in Handler, Start(p, h),
           members' \in [Owners -> SUBSET Users],
           h.pc \in {"read", "apply"} => h.user \in Users /\ h.event \in RowEvents,
           h.pc # "member"
    PROVE  TableInv'
<1>1. proc' = [proc EXCEPT ![p] = h] /\ UNCHANGED <<now, billing, writes, lock>>
  BY DEF Start
<1> QED BY <1>1, OneHandler, HandlersOnly

LEMMA WebhookKeeps ==
    ASSUME TableInv, NEW p \in Procs, NEW by \in Actors, NEW events,
           events \subseteq StoreEvents, Webhook(p, by, events)
    PROVE  TableInv'
<1>1. PICK u \in Users, e \in events :
        Start(p, [Idle EXCEPT !.pc = "read", !.by = by, !.user = u, !.event = e])
  BY DEF Webhook
<1>2. members' = members
  BY DEF Webhook
<1> DEFINE h == [Idle EXCEPT !.pc = "read", !.by = by, !.user = u, !.event = e]
<1>3. e \in RowEvents /\ e \in BillingEvent
  BY RowEventFields DEF RowEvents
<1>4. h \in Handler /\ h.pc = "read" /\ h.user = u /\ h.event = e
  BY <1>3, IdleHandler DEF Handler, Pcs
<1>5. Start(p, h)
  BY <1>1
<1> HIDE DEF h
<1> QED BY <1>2, <1>3, <1>4, <1>5, StartKeeps DEF TableInv, TableTypes

LEMMA AppliesOne ==
    ASSUME TableInv, NEW p \in Procs, NEW by \in Actors, NEW u \in Users,
           NEW e \in RowEvents, members' \in [Owners -> SUBSET Users],
           Start(p, [Idle EXCEPT !.pc = "apply", !.by = by, !.user = u, !.event = e])
    PROVE  TableInv'
<1> DEFINE h == [Idle EXCEPT !.pc = "apply", !.by = by, !.user = u, !.event = e]
<1>1. h \in Handler /\ h.pc = "apply" /\ h.user = u /\ h.event = e
  BY RowEventFields, IdleHandler DEF Handler, Pcs
<1>2. Start(p, h)
  OBVIOUS
<1> HIDE DEF h
<1> QED BY <1>1, <1>2, StartKeeps

LEMMA CancelEventKnown ==
    ASSUME TableInv, NEW u \in Users
    PROVE  CancelEvent(billing[u]) \in RowEvents
<1>1. now \in PeriodEnds
  BY DEF TableInv, TableTypes, PeriodEnds
<1>2. billing[u].currentPeriodEnd # Null => billing[u].currentPeriodEnd \in PeriodEnds
  BY DEF TableInv, PeriodsKnown, OrNull
<1> QED BY <1>1, <1>2 DEF CancelEvent, RowEvents

\* So is whatever a look at RevenueCat makes of a row.
LEMMA InferredKnown ==
    ASSUME TableInv, NEW u \in Users, NEW found \in RcViews \cup {Null},
           InferEvent(found, billing[u], now) # NoEvent
    PROVE  InferEvent(found, billing[u], now) \in RowEvents
<1>1. now \in PeriodEnds
  BY DEF TableInv, TableTypes, PeriodEnds
<1>2. billing[u].currentPeriodEnd # Null => billing[u].currentPeriodEnd \in PeriodEnds
  BY DEF TableInv, PeriodsKnown, OrNull
<1>3. CASE found = Null
  BY <1>1, <1>2, <1>3 DEF InferEvent, InferLapse, RowEvents
<1>4. CASE found # Null
  <2>1. found.periodEnd \in PeriodEnds /\ found.plan \in {v.plan : v \in RcViews}
    BY <1>4 DEF PeriodEnds
  <2> QED BY <1>4, <2>1 DEF InferEvent, InferActive, RowEvents
<1> QED BY <1>3, <1>4

\* What the app's two calls start.
LEMMA LooksInfer ==
    ASSUME NEW p \in Procs, StartSync(p) \/ StartReconcile(p)
    PROVE  \E by \in {"sync", "reconcile"}, u \in Users, found \in RcViews \cup {Null} :
             /\ InferEvent(found, billing[u], now) # NoEvent
             /\ Direct(p, by, u, InferEvent(found, billing[u], now))
BY DEF StartSync, StartReconcile, Inferred

LEMMA BeginKeeps ==
    ASSUME TableInv, NEW p \in Procs, Begin(p)
    PROVE  TableInv'
<1>1. CASE StartRc(p)
  BY <1>1, WebhookKeeps DEF StartRc, StoreEvents, Actors
<1>2. CASE StartLs(p)
  BY <1>2, WebhookKeeps DEF StartLs, StoreEvents, Actors
<1>3. ASSUME NEW by \in Actors, NEW u \in Users, NEW e \in RowEvents,
             Direct(p, by, u, e)
      PROVE  TableInv'
  BY <1>3, AppliesOne DEF Direct, TableInv, TableTypes
<1>4. CASE StartCancel(p)
  BY <1>3, <1>4, CancelEventKnown DEF StartCancel, Actors
<1>5. CASE StartInvite(p)
  BY <1>3, <1>5 DEF StartInvite, Actors, RowEvents
<1>6. CASE StartRevoke(p)
  BY <1>3, <1>6 DEF StartRevoke, Actors, RowEvents
<1>7. CASE StartLeave(p)
  <2> DEFINE leaves(o, u) ==
          /\ members' = [members EXCEPT ![o] = @ \ {u}]
          /\ Start(p, [Idle EXCEPT !.pc = "apply", !.by = "admin_grant",
                                   !.user = u,
                                   !.event = [type |-> "TEAM_MEMBER_REMOVED"]])
  <2>1. PICK o \in Owners : \E u \in members[o] : leaves(o, u)
    BY <1>7 DEF StartLeave
  <2>2. PICK u \in members[o] : leaves(o, u)
    BY <2>1
  <2>3. u \in Users /\ members' \in [Owners -> SUBSET Users]
    BY <2>2 DEF TableInv, TableTypes
  <2>4. [type |-> "TEAM_MEMBER_REMOVED"] \in RowEvents /\ "admin_grant" \in Actors
    BY DEF RowEvents, Actors
  <2> QED BY <2>2, <2>3, <2>4, AppliesOne
<1>8. CASE StartGraceCron(p)
  <2>1. PICK due \in SUBSET Users :
          Start(p, [Idle EXCEPT !.pc = "cron", !.by = "cron_grace", !.todo = due])
    BY <1>8 DEF StartGraceCron
  <2> DEFINE h == [Idle EXCEPT !.pc = "cron", !.by = "cron_grace", !.todo = due]
  <2>2. h \in Handler /\ h.pc = "cron"
    BY IdleHandler DEF Handler, Pcs, Actors
  <2>3. members' = members
    BY <1>8 DEF StartGraceCron
  <2>4. Start(p, h)
    BY <2>1
  <2> HIDE DEF h
  <2> QED BY <2>2, <2>3, <2>4, StartKeeps DEF TableInv, TableTypes
<1>9. CASE Join(p)
  <2>1. members' \in [Owners -> SUBSET Users]
    BY <1>9 DEF Join, TableInv, TableTypes
  <2> QED BY <1>9, <2>1 DEF Join, TableInv, TableTypes, HandlersAimed,
             PeriodsKnown, WritesUnderLock, WritesAreTransitions, OneTransition
<1>10. CASE StartSync(p) \/ StartReconcile(p)
  BY <1>3, <1>10, LooksInfer, InferredKnown DEF Actors
<1> QED BY <1>1, <1>2, <1>4, <1>5, <1>6, <1>7, <1>8, <1>9, <1>10 DEF Begin

\* applyTransition on the handler's own user.
LEMMA ApplyKeeps ==
    ASSUME TableInv, NEW p \in Procs, Apply(p)
    PROVE  TableInv'
<1> DEFINE u == proc[p].user
           e == proc[p].event
           r == Transition(billing[u], e, now)
<1>1. u \in Users /\ e \in RowEvents /\ e \in BillingEvent
  BY RowEventFields DEF Apply, TableInv, HandlersAimed
<1>2. billing[u] \in UserBillingSnapshot /\ now \in Nat /\ now \in 0 .. now
  BY <1>1, UserBillingConstants DEF TableInv, TableTypes
<1>3. r \in UserBillingSnapshot
  BY <1>1, <1>2, TransitionType
<1>4. proc[p] \in Handler /\ lock[u] = Nobody /\ proc[p].pc = "apply"
  BY DEF Apply, TableInv, TableTypes
<1> HIDE DEF r
<1>5. CASE Refuse(p, u, e)
  <2> DEFINE h == [proc[p] EXCEPT !.pc = "commit"]
  <2>1. h \in Handler /\ h.pc = "commit"
    BY <1>4 DEF Handler, Pcs
  <2>2. proc' = [proc EXCEPT ![p] = h]
    BY <1>4, <1>5 DEF Refuse, TableInv, TableTypes, Handler
  <2>3. proc' \in [Procs -> Handler] /\ HandlersAimed'
    BY <2>1, <2>2, OneHandler
  <2>4. /\ lock' = [lock EXCEPT ![u] = p]
        /\ UNCHANGED <<now, billing, writes, members>>
    BY <1>5 DEF Refuse, tables
  <2>5. \A q \in Procs : writes[q][u] = Null
    BY <1>1, <1>4, UserBillingConstants DEF TableInv, WritesUnderLock
  <2> QED
    BY <1>1, <2>3, <2>4, <2>5
    DEF TableInv, TableTypes, PeriodsKnown, WritesUnderLock,
        WritesAreTransitions, OneTransition
<1>6. CASE Accepts(billing[u], e) /\ ChecksPass(r) /\ Accept(p, u, r)
  <2> DEFINE effect == WorkspaceEffect(proc[p], r # billing[u])
             h == [proc[p] EXCEPT
                     !.pc = IF effect = "expire" THEN "cascade" ELSE "commit",
                     !.workspace = effect,
                     !.roster = IF effect = "expire" THEN members[u] \ {u} ELSE @,
                     !.todo = IF effect = "expire" THEN members[u] \ {u} ELSE @]
  <2>1. effect \in {"keep", "expire", "reactivate"}
    BY DEF WorkspaceEffect
  <2>2. effect = "expire" => u \in Owners
    BY DEF WorkspaceEffect
  <2>3. effect = "expire" => members[u] \ {u} \subseteq Users
    BY <2>2 DEF TableInv, TableTypes
  <2>4. Write(p, u, r) /\ proc' = [proc EXCEPT ![p] = h]
    BY <1>4, <1>6 DEF Accept, TableInv, TableTypes, Handler
  <2> HIDE DEF effect
  <2>5. h \in Handler /\ h.pc \in {"cascade", "commit"}
    BY <1>4, <2>1, <2>3 DEF Handler, Pcs
  <2>6. proc' \in [Procs -> Handler] /\ HandlersAimed'
    BY <2>4, <2>5, OneHandler
  <2>7. OneTransition(u, r)
    BY <1>1, <1>2, <1>6 DEF OneTransition, r
  <2> QED BY <1>1, <1>3, <1>4, <2>4, <2>6, <2>7, WriteKeeps
<1> QED BY <1>5, <1>6, RollbackKeeps DEF Apply, r

\* applyTransition on a member.
LEMMA ApplyMemberKeeps ==
    ASSUME TableInv, NEW p \in Procs, ApplyMember(p)
    PROVE  TableInv'
<1> DEFINE m == proc[p].member
           e == [type |-> "TEAM_OWNER_EXPIRED", memberHasOwnSub |-> m \in proc[p].own]
           r == Transition(billing[m], e, now)
<1>1. proc[p] \in Handler /\ m \in Users /\ lock[m] = Nobody
  BY DEF ApplyMember, TableInv, TableTypes, HandlersAimed
<1>2. e \in RowEvents /\ e \in BillingEvent
  <2>1. (m \in proc[p].own) \in BOOLEAN
    OBVIOUS
  <2>2. e \in [type : {"TEAM_OWNER_EXPIRED"}, memberHasOwnSub : BOOLEAN]
    BY <2>1
  <2> HIDE DEF e
  <2> QED BY <2>2, RowEventFields DEF RowEvents
<1>3. billing[m] \in UserBillingSnapshot /\ now \in Nat /\ now \in 0 .. now
  BY <1>1, UserBillingConstants DEF TableInv, TableTypes
<1>4. r \in UserBillingSnapshot
  BY <1>2, <1>3, TransitionType
<1>5. Accepts(billing[m], e)
  BY DEF Accepts
<1>6. CASE ChecksPass(r) /\ Write(p, m, r) /\ proc' = [proc EXCEPT ![p].pc = "cascade"]
  <2> DEFINE h == [proc[p] EXCEPT !.pc = "cascade"]
  <2>1. h \in Handler /\ h.pc = "cascade" /\ proc' = [proc EXCEPT ![p] = h]
    BY <1>1, <1>6 DEF Handler, Pcs, TableInv, TableTypes
  <2>2. proc' \in [Procs -> Handler] /\ HandlersAimed'
    BY <2>1, OneHandler
  <2>3. OneTransition(m, r)
    BY <1>2, <1>3, <1>5, <1>6 DEF OneTransition
  <2> HIDE DEF r
  <2> QED BY <1>1, <1>4, <1>6, <2>2, <2>3, WriteKeeps
<1> QED BY <1>6, RollbackKeeps DEF ApplyMember

\* Each row a commit changes moves by one transition.
LEMMA CommitMovesRows ==
    ASSUME TableInv, NEW p \in Procs, Commit(p), NEW u \in Users
    PROVE  OneTransition(u, billing'[u])
BY DEF Commit, TableInv, WritesAreTransitions, OneTransition

LEMMA CommitKeeps ==
    ASSUME TableInv, NEW p \in Procs, Commit(p)
    PROVE  TableInv'
<1>1. /\ billing' = [u \in Users |-> IF writes[p][u] = Null
                                     THEN billing[u] ELSE writes[p][u]]
      /\ Release(p) /\ UNCHANGED <<now, members>>
  BY DEF Commit
<1>2. billing' \in [Users -> UserBillingSnapshot]
  BY <1>1 DEF TableInv, TableTypes, OrNull
<1>3. proc' \in [Procs -> Handler] /\ HandlersAimed'
  <2> DEFINE h == IF proc[p].by = "cron_grace" /\ proc[p].todo # {}
                  THEN [proc[p] EXCEPT !.pc = "cron"] ELSE Idle
  <2>1. proc[p] \in Handler
    BY DEF TableInv, TableTypes
  <2>2. h \in Handler /\ h.pc \in {"cron", "idle"}
    BY <2>1, IdleHandler DEF Handler, Pcs
  <2>3. proc' = [proc EXCEPT ![p] = h]
    BY DEF Commit
  <2> HIDE DEF h
  <2> QED BY <2>2, <2>3, OneHandler
<1>4. PeriodsKnown'
  <2> SUFFICES ASSUME NEW u \in Users
               PROVE  billing'[u].currentPeriodEnd \in OrNull(PeriodEnds)
    BY DEF PeriodsKnown
  <2>1. \A t \in 0 .. now : t \in Nat
    BY UserBillingConstants DEF TableInv, TableTypes
  <2>2. /\ billing[u] \in UserBillingSnapshot
        /\ billing[u].currentPeriodEnd \in OrNull(PeriodEnds)
    BY DEF TableInv, TableTypes, PeriodsKnown
  <2>3. OneTransition(u, billing'[u])
    BY CommitMovesRows
  <2> QED BY <2>1, <2>2, <2>3, PeriodEndIsKnown DEF OneTransition
<1>5. WritesAreTransitions'
  <2> SUFFICES ASSUME NEW q \in Procs, NEW u \in Users, writes'[q][u] # Null
               PROVE  \/ writes'[q][u] = billing'[u]
                      \/ \E e \in RowEvents, t \in 0 .. now' :
                            /\ Accepts(billing'[u], e)
                            /\ writes'[q][u] = Transition(billing'[u], e, t)
                            /\ ChecksPass(writes'[q][u])
    BY DEF WritesAreTransitions, OneTransition
  <2>1. q # p /\ writes'[q][u] = writes[q][u]
    BY <1>1, ReleaseKeeps
  <2>2. writes[p][u] = Null
    BY <2>1 DEF TableInv, WritesUnderLock
  <2>3. billing'[u] = billing[u]
    BY <1>1, <2>2
  <2> QED BY <1>1, <2>1, <2>3 DEF TableInv, WritesAreTransitions, OneTransition
<1> QED BY <1>1, <1>2, <1>3, <1>4, <1>5, ReleaseKeeps DEF TableInv, TableTypes

LEMMA StepKeeps ==
    ASSUME TableInv, NEW p \in Procs, Step(p)
    PROVE  TableInv'
<1>1. proc[p] \in Handler
  BY DEF TableInv, TableTypes
<1>2. CASE NextGraceRow(p)
  <2>1. PICK u \in proc[p].todo :
          proc' = [proc EXCEPT ![p].pc = "apply", ![p].user = u,
                               ![p].event = [type |-> "GRACE_EXPIRED"],
                               ![p].todo = @ \ {u}]
    BY <1>2 DEF NextGraceRow
  <2> DEFINE h == [proc[p] EXCEPT !.pc = "apply", !.user = u,
                                  !.event = [type |-> "GRACE_EXPIRED"],
                                  !.todo = @ \ {u}]
  <2>2. u \in Users /\ [type |-> "GRACE_EXPIRED"] \in RowEvents
    BY <1>1 DEF Handler, RowEvents
  <2>3. [type |-> "GRACE_EXPIRED"] \in BillingEvent
    BY <2>2, RowEventFields
  <2>4. /\ h \in Handler /\ h.pc = "apply" /\ h.user = u
        /\ h.event = [type |-> "GRACE_EXPIRED"]
    BY <1>1, <2>2, <2>3 DEF Handler, Pcs
  <2>5. proc' = [proc EXCEPT ![p] = h]
    BY <1>1, <2>1 DEF TableInv, TableTypes, Handler
  <2> HIDE DEF h
  <2> QED
    BY <1>2, <2>2, <2>4, <2>5, OneHandler, HandlersOnly
    DEF NextGraceRow, tables, TableInv, TableTypes
<1>3. CASE ReadCurrent(p)
  <2> DEFINE h == [proc[p] EXCEPT !.pc = "apply", !.seen = billing[proc[p].user]]
  <2>1. proc[p].user \in Users /\ proc[p].event \in RowEvents
    BY <1>3 DEF ReadCurrent, TableInv, HandlersAimed
  <2>2. h \in Handler /\ h.user = proc[p].user /\ h.event = proc[p].event /\ h.pc = "apply"
    BY <1>1, <2>1 DEF Handler, Pcs, TableInv, TableTypes
  <2>3. proc' = [proc EXCEPT ![p] = h]
    BY <1>1, <1>3 DEF ReadCurrent, TableInv, TableTypes, Handler
  <2> HIDE DEF h
  <2> QED
    BY <1>3, <2>1, <2>2, <2>3, OneHandler, HandlersOnly
    DEF ReadCurrent, tables, TableInv, TableTypes
<1>4. CASE ReadMember(p)
  <2>1. PICK m \in proc[p].todo :
          proc' = [proc EXCEPT ![p].pc = "member", ![p].member = m,
                               ![p].todo = @ \ {m},
                               ![p].own = IF HasOwnSub(billing[m])
                                          THEN @ \cup {m} ELSE @]
    BY <1>4 DEF ReadMember
  <2> DEFINE h == [proc[p] EXCEPT !.pc = "member", !.member = m,
                                  !.todo = @ \ {m},
                                  !.own = IF HasOwnSub(billing[m])
                                          THEN @ \cup {m} ELSE @]
  <2>2. m \in Users
    BY <1>1 DEF Handler
  <2>3. h \in Handler /\ h.pc = "member" /\ h.member = m
    BY <1>1, <2>2 DEF Handler, Pcs
  <2>4. proc' = [proc EXCEPT ![p] = h]
    BY <1>1, <2>1 DEF TableInv, TableTypes, Handler
  <2> HIDE DEF h
  <2> QED
    BY <1>4, <2>2, <2>3, <2>4, OneHandler, HandlersOnly
    DEF ReadMember, tables, TableInv, TableTypes
<1> QED
  BY <1>2, <1>3, <1>4, ApplyKeeps, ApplyMemberKeeps, CommitKeeps DEF Step

LEMMA SkipKeeps ==
    ASSUME TableInv, NEW p \in Procs, SkipMember(p)
    PROVE  TableInv'
<1>1. PICK m \in proc[p].todo :
        proc' = [proc EXCEPT ![p].todo = @ \ {m}, ![p].roster = @ \ {m}]
  BY DEF SkipMember
<1> DEFINE h == [proc[p] EXCEPT !.todo = @ \ {m}, !.roster = @ \ {m}]
<1>2. proc[p] \in Handler /\ proc[p].pc = "cascade"
  BY DEF SkipMember, TableInv, TableTypes
<1>3. h \in Handler /\ h.pc = "cascade" /\ proc' = [proc EXCEPT ![p] = h]
  BY <1>1, <1>2 DEF Handler, Pcs, TableInv, TableTypes
<1> HIDE DEF h
<1> QED
  BY <1>3, OneHandler, HandlersOnly DEF SkipMember, tables, TableInv, TableTypes

LEMMA TickKeeps == TableInv /\ Tick => TableInv'
<1> SUFFICES ASSUME TableInv, Tick PROVE TableInv'
  OBVIOUS
<1>1. /\ now' \in 0 .. MaxTime /\ 0 .. now \subseteq 0 .. now'
      /\ UNCHANGED <<billing, members, writes, lock, proc>>
  BY UserBillingConstants DEF Tick, tables, TableInv, TableTypes
<1> QED
  BY <1>1
  DEF TableInv, TableTypes, HandlersAimed, PeriodsKnown, WritesUnderLock,
      WritesAreTransitions, OneTransition

LEMMA NextKeeps == TableInv /\ [Next]_vars => TableInv'
<1> SUFFICES ASSUME TableInv, [Next]_vars PROVE TableInv'
  OBVIOUS
<1>1. CASE UNCHANGED vars
  BY <1>1
  DEF vars, tables, logs, TableInv, TableTypes, HandlersAimed, PeriodsKnown,
      WritesUnderLock, WritesAreTransitions, OneTransition
<1>2. ASSUME NEW p \in Procs, DeadlockVictim(p) \/ Abort(p)
      PROVE  TableInv'
  BY <1>2, RollbackKeeps DEF DeadlockVictim, Abort
<1> QED BY <1>1, <1>2, BeginKeeps, StepKeeps, SkipKeeps, TickKeeps DEF Next

LEMMA TableInvHolds == Spec => []TableInv
BY InitTable, NextKeeps, PTL DEF Spec

-----------------------------------------------------------------------------
\* No two handlers ever hold uncommitted versions of one user's row: what
\* pessimistic_write in applyTransition is there for.
THEOREM NoLostUpdate == Spec => []WritesUnderLock
<1>1. TableInv => WritesUnderLock
  BY DEF TableInv
<1> QED BY <1>1, TableInvHolds, PTL

\* Seen through its committed row alone, each user's billing is a behaviour of
\* BillingLifecycle, however many webhooks, crons and requests run at a time
\* and wherever they fail.
THEOREM TableImplementsLifecycle == Spec => RowsImplementLifecycle
<1> DEFINE RowStep ==
      \A u \in Users : Row(u)!Next \/ UNCHANGED <<billing[u], now>>
<1>1. Init => \A u \in Users : Row(u)!Init
  BY SameReducer DEF Init, Row!Init
<1>2. TableInv /\ [Next]_vars => [RowStep]_<<billing, now>>
  <2> SUFFICES ASSUME TableInv, [Next]_vars, <<billing, now>>' # <<billing, now>>,
                      NEW u \in Users
               PROVE  Row(u)!Next \/ UNCHANGED <<billing[u], now>>
    OBVIOUS
  <2>1. CASE Tick
    BY <2>1 DEF Tick, tables, Row!Next, Row!Tick
  <2>2. ASSUME NEW p \in Procs, Commit(p)
        PROVE  Row(u)!Next \/ UNCHANGED <<billing[u], now>>
    <3>1. now' = now
      BY <2>2 DEF Commit
    <3>2. CASE billing'[u] = billing[u]
      BY <3>1, <3>2
    <3>3. ASSUME NEW e \in RowEvents, NEW t \in 0 .. now,
                 Accepts(billing[u], e), billing'[u] = Transition(billing[u], e, t),
                 ChecksPass(billing'[u])
          PROVE  Row(u)!ApplyTransition(e)
      BY <3>1, <3>3, SameReducer DEF Row!ApplyTransition
    <3> QED
      BY <2>2, <3>2, <3>3, CommitMovesRows DEF OneTransition, Row!Next
  <2>3. ASSUME NEW p \in Procs, Begin(p) \/ DeadlockVictim(p) \/ Abort(p)
        PROVE  UNCHANGED <<billing, now>>
    BY <2>3
    DEF Begin, StartRc, StartLs, StartSync, StartReconcile, StartCancel,
        StartInvite, StartRevoke, StartLeave, StartGraceCron, Join, Webhook,
        Inferred, Direct, Start, DeadlockVictim, Abort, Rollback, tables
  <2>4. ASSUME NEW p \in Procs,
               NextGraceRow(p) \/ ReadCurrent(p) \/ Apply(p)
                 \/ ReadMember(p) \/ SkipMember(p) \/ ApplyMember(p)
        PROVE  UNCHANGED <<billing, now>>
    BY <2>4
    DEF NextGraceRow, ReadCurrent, Apply, ReadMember, SkipMember, ApplyMember, Refuse,
        Accept, Write, Rollback, tables
  <2> QED BY <2>1, <2>2, <2>3, <2>4 DEF Next, Step, vars
<1> QED BY <1>1, <1>2, TableInvHolds, PTL DEF Spec, RowsImplementLifecycle

-----------------------------------------------------------------------------
(* The workspaces of owners who come and go, and their teams.              *)

Returners == {"webhook_rc", "sync", "reconcile"}

\* What the cascade of handler h, which has written w, has done for member m of
\* a table that is b.
Handled(h, w, b, m) ==
    /\ w[m] # Null
    /\ IF m \in h.own THEN w[m] = b[m]
       ELSE b[m].plan = "free" \/ w[m].state = "grace_team"

\* What handler h means to do fits the rows w it has written over table b: the
\* workspace's fate fits the owner's row, a row that pays again comes with the
\* workspace's return unless it is the app's doing, and every member the
\* cascade is done with is dealt with.
Fits(h, w, b) ==
    /\ h.pc \in {"idle", "read", "apply", "cron"} =>
          h.workspace = "keep" /\ \A u \in Users : w[u] = Null
    /\ h.pc \in {"read", "apply"} /\ h.event.type \in ReactivatingTypes =>
          h.by \in Returners
    /\ h.pc \in {"cascade", "member"} => h.workspace = "expire"
    /\ h.workspace # "keep" =>
          h.by = "webhook_rc" /\ h.user \in Owners /\ w[h.user] # Null
    /\ h.workspace = "expire" =>
          /\ Lapsed(w[h.user])
          /\ h.pc \in {"cascade", "member"}
          /\ \A m \in h.roster \ h.todo :
               (h.pc = "member" /\ m = h.member) \/ Handled(h, w, b, m)
    /\ \A o \in Owners :
          w[o] # Null /\ ~Lapsed(w[o]) /\ Lapsed(b[o]) =>
             /\ h.user = o
             /\ h.workspace = "reactivate" \/ h.by \in {"sync", "reconcile"}
    /\ /\ h.by = "webhook_rc" /\ h.event.type = "RC_EXPIRATION"
       /\ h.user \in Owners /\ h.seen.plan = "organization"
       /\ w[h.user] \notin {Null, b[h.user]}
       => h.workspace = "expire"

WorkspaceInv ==
    /\ expiredAt \in [Owners -> OrNull(Nat)]
    /\ \A p \in Procs : Fits(proc[p], writes[p], billing)

\* Others commit no row that h has written.
LEMMA FitsStays ==
    ASSUME NEW h \in Handler, NEW w, NEW b, NEW c, Fits(h, w, b),
           \A u \in Users : w[u] # Null => c[u] = b[u]
    PROVE  Fits(h, w, c)
<1>1. Owners \subseteq Users /\ h.roster \subseteq Users
  BY UserBillingConstants DEF Handler
<1>2. ASSUME NEW m \in h.roster, Handled(h, w, b, m)
      PROVE  Handled(h, w, c, m)
  BY <1>1, <1>2 DEF Handled
<1>3. h.workspace = "expire" =>
        /\ Lapsed(w[h.user])
        /\ h.pc \in {"cascade", "member"}
        /\ \A m \in h.roster \ h.todo :
             (h.pc = "member" /\ m = h.member) \/ Handled(h, w, c, m)
  BY <1>2 DEF Fits
<1>4. \A o \in Owners :
        w[o] # Null /\ ~Lapsed(w[o]) /\ Lapsed(c[o]) =>
           /\ h.user = o
           /\ h.workspace = "reactivate" \/ h.by \in {"sync", "reconcile"}
  BY <1>1 DEF Fits, Lapsed
<1>5. /\ h.by = "webhook_rc" /\ h.event.type = "RC_EXPIRATION"
      /\ h.user \in Owners /\ h.seen.plan = "organization"
      /\ w[h.user] \notin {Null, c[h.user]}
      => h.workspace = "expire"
  BY <1>1 DEF Fits
<1> QED BY <1>3, <1>4, <1>5 DEF Fits

\* A handler that has written nothing and means nothing for a workspace.
LEMMA FitsEarly ==
    ASSUME NEW h \in Handler, NEW w, NEW b,
           \A u \in Users : w[u] = Null,
           h.workspace = "keep", h.pc \notin {"cascade", "member"},
           h.pc \in {"read", "apply"} /\ h.event.type \in ReactivatingTypes
              => h.by \in Returners
    PROVE  Fits(h, w, b)
BY UserBillingConstants DEF Fits

\* A step of p is good if p's handler fits afterwards: nobody else is touched.
LEMMA OneFits ==
    ASSUME TableInv, WorkspaceInv, NEW p \in Procs, NEW h \in Handler,
           proc' = [proc EXCEPT ![p] = h],
           \A q \in Procs : q # p => writes'[q] = writes[q],
           \A q \in Procs, u \in Users :
              q # p /\ writes[q][u] # Null => billing'[u] = billing[u],
           Fits(h, writes'[p], billing'),
           expiredAt' \in [Owners -> OrNull(Nat)]
    PROVE  WorkspaceInv'
<1>1. \A q \in Procs : proc'[q] = IF q = p THEN h ELSE proc[q]
  BY DEF TableInv, TableTypes
<1>2. ASSUME NEW q \in Procs, q # p
      PROVE  Fits(proc[q], writes[q], billing')
  BY <1>2, FitsStays DEF WorkspaceInv, TableInv, TableTypes
<1>3. \A q \in Procs : Fits(proc'[q], writes'[q], billing')
  BY <1>1, <1>2
<1> QED BY <1>3 DEF WorkspaceInv

\* The same, of a step that writes nothing.
LEMMA OneFitsUnwritten ==
    ASSUME TableInv, WorkspaceInv, NEW p \in Procs, NEW h \in Handler,
           proc' = [proc EXCEPT ![p] = h],
           UNCHANGED <<billing, writes, expiredAt>>,
           Fits(h, writes[p], billing)
    PROVE  WorkspaceInv'
BY OneFits DEF WorkspaceInv

\* Only the events that bring a workspace back make a lapsed row pay again.
LEMMA OnlyReturnsPay ==
    ASSUME NEW s \in UserBillingSnapshot, NEW e \in BillingEvent, NEW t \in Nat,
           Accepts(s, e), Lapsed(s), ~Lapsed(Transition(s, e, t))
    PROVE  e.type \in ReactivatingTypes
<1> USE DEF Lapsed, GraceStates
<1>1. CASE e.type \in PurchaseTypes \ ReactivatingTypes
  BY <1>1
  DEF PurchaseTypes, ReactivatingTypes, Transition, LemonSqueezyPurchase,
      NoGrace, UserBillingSnapshot
<1>2. CASE e.type \in {"RC_CANCELLATION", "RC_BILLING_ISSUE"}
  BY <1>2
  DEF Transition, Accepts, Cancellation, BillingIssue, UserBillingSnapshot
<1>3. CASE e.type \in {"TEAM_OWNER_EXPIRED", "ADMIN_GRANT_PRO"}
  BY <1>3, BillingConstants
  DEF Transition, TeamOwnerExpired, AdminGrantPro, Grace, FreeRow, Sources,
      UserBillingSnapshot
<1>4. CASE e.type \in BareTypes \ {"RC_BILLING_ISSUE", "RC_UNCANCELLATION"}
  BY <1>4
  DEF Transition, BareTypes, Expiration, Refund, TeamMemberRemoved,
      GraceExpired, TrialExpired, LemonSqueezyCancelled, Grace, NoGrace,
      FreeRow, UserBillingSnapshot
<1> QED
  BY <1>1, <1>2, <1>3, <1>4, EventFields
  DEF PurchaseTypes, PeriodTypes, BareTypes, ReactivatingTypes

\* An expiration that moves the row leaves it in grace.
LEMMA ExpirationLapses ==
    ASSUME NEW s \in UserBillingSnapshot, NEW e, NEW t \in Nat,
           e.type = "RC_EXPIRATION", Transition(s, e, t) # s
    PROVE  Lapsed(Transition(s, e, t))
BY DEF Transition, Expiration, Grace, Lapsed, GraceStates, UserBillingSnapshot

LEMMA InitWorkspace == Init => WorkspaceInv
<1> SUFFICES ASSUME Init PROVE WorkspaceInv
  OBVIOUS
<1>1. /\ expiredAt = [o \in Owners |-> Null]
      /\ \A p \in Procs : proc[p] = Idle /\ writes[p] = [u \in Users |-> Null]
  BY DEF Init
<1>2. Idle \in Handler /\ Idle.pc = "idle" /\ Idle.workspace = "keep"
  BY IdleHandler DEF Idle
<1> HIDE DEF Idle
<1>3. \A p \in Procs : Fits(proc[p], writes[p], billing)
  BY <1>1, <1>2, FitsEarly
<1> QED BY <1>1, <1>3 DEF WorkspaceInv, OrNull

\* A transaction that fails takes its effect with it.
LEMMA RollbackKeepsWorkspace ==
    ASSUME TableInv, WorkspaceInv, NEW p \in Procs, Rollback(p)
    PROVE  WorkspaceInv'
<1>1. proc' = [proc EXCEPT ![p] = Idle] /\ UNCHANGED <<billing, expiredAt>>
  BY DEF Rollback, tables
<1>2. /\ writes'[p] = [u \in Users |-> Null]
      /\ \A q \in Procs : q # p => writes'[q] = writes[q]
  BY DEF Rollback, Release, TableInv, TableTypes
<1>3. Idle \in Handler /\ Idle.pc = "idle" /\ Idle.workspace = "keep"
  BY IdleHandler DEF Idle
<1> HIDE DEF Idle
<1>4. Fits(Idle, writes'[p], billing')
  BY <1>2, <1>3, FitsEarly
<1> QED BY <1>1, <1>2, <1>3, <1>4, OneFits DEF WorkspaceInv

LEMMA StartKeepsWorkspace ==
    ASSUME TableInv, WorkspaceInv, NEW p \in Procs, NEW h \in Handler, Start(p, h),
           h.workspace = "keep", h.pc \notin {"cascade", "member"},
           h.pc \in {"read", "apply"} /\ h.event.type \in ReactivatingTypes
              => h.by \in Returners
    PROVE  WorkspaceInv'
<1>1. \A u \in Users : writes[p][u] = Null
  BY DEF Start, WorkspaceInv, Fits
<1>2. proc' = [proc EXCEPT ![p] = h] /\ UNCHANGED <<billing, writes, expiredAt>>
  BY DEF Start
<1> QED BY <1>1, <1>2, FitsEarly, OneFitsUnwritten

\* A handler that starts out on one user's row.
LEMMA StartsOnOne ==
    ASSUME TableInv, WorkspaceInv, NEW p \in Procs, NEW pc \in {"read", "apply"},
           NEW by \in Actors, NEW u \in Users, NEW e \in BillingEvent,
           e.type \in ReactivatingTypes => by \in Returners,
           Start(p, [Idle EXCEPT !.pc = pc, !.by = by, !.user = u, !.event = e])
    PROVE  WorkspaceInv'
<1> DEFINE h == [Idle EXCEPT !.pc = pc, !.by = by, !.user = u, !.event = e]
<1>1. /\ h \in Handler /\ h.workspace = "keep"
      /\ h.pc = pc /\ h.event = e /\ h.by = by
  BY IdleHandler DEF Handler, Pcs, Idle
<1>2. Start(p, h)
  OBVIOUS
<1> HIDE DEF h
<1> QED BY <1>1, <1>2, StartKeepsWorkspace

LEMMA BeginKeepsWorkspace ==
    ASSUME TableInv, WorkspaceInv, NEW p \in Procs, Begin(p)
    PROVE  WorkspaceInv'
<1> USE DEF Actors
<1>1. \A e \in StoreEvents : e \in BillingEvent
  BY UserBillingConstants DEF StoreEvents
<1>2. CASE StartRc(p)
  BY <1>1, <1>2, StartsOnOne DEF StartRc, Webhook, StoreEvents, Returners
<1>3. CASE StartLs(p)
  <2>1. \A e \in LsEvents : e \in BillingEvent /\ e.type \notin ReactivatingTypes
    BY UserBillingConstants DEF LsTypes, ReactivatingTypes
  <2> QED BY <1>3, <2>1, StartsOnOne DEF StartLs, Webhook
<1>4. ASSUME NEW by \in Actors, NEW u \in Users, NEW e \in RowEvents,
             e.type \in ReactivatingTypes => by \in Returners,
             Start(p, [Idle EXCEPT !.pc = "apply", !.by = by, !.user = u, !.event = e])
      PROVE  WorkspaceInv'
  BY <1>4, RowEventFields, StartsOnOne
<1>5. CASE StartCancel(p)
  <2>1. PICK u \in Users : Direct(p, "user_cancel", u, CancelEvent(billing[u]))
    BY <1>5 DEF StartCancel
  <2>2. CancelEvent(billing[u]).type \notin ReactivatingTypes
    BY DEF CancelEvent, ReactivatingTypes
  <2> QED BY <1>4, <2>1, <2>2, CancelEventKnown DEF Direct
<1>6. CASE StartInvite(p)
  <2>1. /\ [type |-> "ADMIN_GRANT_PRO", plan |-> "pro"] \in RowEvents
        /\ [type |-> "ADMIN_GRANT_PRO", plan |-> "pro"].type \notin ReactivatingTypes
    BY DEF RowEvents, ReactivatingTypes
  <2> QED BY <1>4, <1>6, <2>1 DEF StartInvite, Direct
<1>7. CASE StartRevoke(p)
  <2>1. /\ [type |-> "TRIAL_EXPIRED"] \in RowEvents
        /\ [type |-> "TRIAL_EXPIRED"].type \notin ReactivatingTypes
    BY DEF RowEvents, ReactivatingTypes
  <2> QED BY <1>4, <1>7, <2>1 DEF StartRevoke, Direct
<1>8. CASE StartLeave(p)
  <2>1. \A o \in Owners : members[o] \subseteq Users
    BY DEF TableInv, TableTypes
  <2>2. /\ [type |-> "TEAM_MEMBER_REMOVED"] \in RowEvents
        /\ [type |-> "TEAM_MEMBER_REMOVED"].type \notin ReactivatingTypes
    BY DEF RowEvents, ReactivatingTypes
  <2> QED BY <1>4, <1>8, <2>1, <2>2 DEF StartLeave
<1>9. CASE StartGraceCron(p)
  <2>1. PICK due \in SUBSET Users :
          Start(p, [Idle EXCEPT !.pc = "cron", !.by = "cron_grace", !.todo = due])
    BY <1>9 DEF StartGraceCron
  <2> DEFINE h == [Idle EXCEPT !.pc = "cron", !.by = "cron_grace", !.todo = due]
  <2>2. h \in Handler /\ h.pc = "cron" /\ h.workspace = "keep"
    BY IdleHandler DEF Handler, Pcs, Idle
  <2>3. Start(p, h)
    BY <2>1
  <2> HIDE DEF h
  <2> QED BY <2>2, <2>3, StartKeepsWorkspace
<1>10. CASE Join(p)
  BY <1>10 DEF Join, WorkspaceInv
<1>11. CASE StartSync(p) \/ StartReconcile(p)
  BY <1>4, <1>11, LooksInfer, InferredKnown DEF Direct, Returners
<1> QED
  BY <1>2, <1>3, <1>5, <1>6, <1>7, <1>8, <1>9, <1>10, <1>11 DEF Begin

\* A row is written while its lock is free, so it is new to its writer.
LEMMA WriteSees ==
    ASSUME TableInv, NEW p \in Procs, NEW u \in Users,
           NEW r \in UserBillingSnapshot, lock[u] = Nobody, Write(p, u, r)
    PROVE  /\ writes[p][u] = Null
           /\ r # Null
           /\ \A v \in Users : writes'[p][v] = IF v = u THEN r ELSE writes[p][v]
           /\ \A q \in Procs : q # p => writes'[q] = writes[q]
           /\ UNCHANGED <<billing, expiredAt>>
<1>1. writes' = [writes EXCEPT ![p][u] = r] /\ UNCHANGED <<billing, expiredAt>>
  BY DEF Write, tables
<1> QED
  BY <1>1, UserBillingConstants DEF TableInv, TableTypes, WritesUnderLock

LEMMA ApplyKeepsWorkspace ==
    ASSUME TableInv, WorkspaceInv, NEW p \in Procs, Apply(p)
    PROVE  WorkspaceInv'
<1> DEFINE u == proc[p].user
           e == proc[p].event
           r == Transition(billing[u], e, now)
<1>1. /\ proc[p] \in Handler /\ lock[u] = Nobody /\ proc[p].pc = "apply"
      /\ u \in Users /\ e \in BillingEvent
  BY RowEventFields DEF Apply, TableInv, TableTypes, HandlersAimed
<1>2. billing[u] \in UserBillingSnapshot /\ now \in Nat
  BY <1>1, UserBillingConstants DEF TableInv, TableTypes
<1>3. r \in UserBillingSnapshot
  BY <1>1, <1>2, TransitionType
<1>4. /\ proc[p].workspace = "keep"
      /\ \A v \in Users : writes[p][v] = Null
      /\ e.type \in ReactivatingTypes => proc[p].by \in Returners
  BY <1>1 DEF WorkspaceInv, Fits
<1>5. CASE Refuse(p, u, e)
  <2> DEFINE h == [proc[p] EXCEPT !.pc = "commit"]
  <2>1. h \in Handler /\ h.pc = "commit" /\ h.workspace = proc[p].workspace
    BY <1>1 DEF Handler, Pcs
  <2>2. /\ proc' = [proc EXCEPT ![p] = h]
        /\ UNCHANGED <<billing, writes, expiredAt>>
    BY <1>1, <1>5 DEF Refuse, tables, TableInv, TableTypes, Handler
  <2> HIDE DEF h
  <2>3. Fits(h, writes[p], billing)
    BY <1>4, <2>1, FitsEarly
  <2> QED BY <2>1, <2>2, <2>3, OneFitsUnwritten
<1>6. CASE Accepts(billing[u], e) /\ Accept(p, u, r)
  <2> DEFINE effect == WorkspaceEffect(proc[p], r # billing[u])
             h == [proc[p] EXCEPT
                     !.pc = IF effect = "expire" THEN "cascade" ELSE "commit",
                     !.workspace = effect,
                     !.roster = IF effect = "expire" THEN members[u] \ {u} ELSE @,
                     !.todo = IF effect = "expire" THEN members[u] \ {u} ELSE @]
  <2>1. /\ effect \in {"keep", "expire", "reactivate"}
        /\ effect # "keep" => u \in Owners /\ proc[p].by = "webhook_rc"
        /\ effect = "expire" => r # billing[u] /\ e.type = "RC_EXPIRATION"
    BY DEF WorkspaceEffect
  <2>2. r # billing[u] /\ proc[p].by = "webhook_rc" /\ u \in Owners =>
          /\ e.type \in ReactivatingTypes => effect = "reactivate"
          /\ e.type = "RC_EXPIRATION" /\ proc[p].seen.plan = "organization"
             => effect = "expire"
    BY DEF WorkspaceEffect, ReactivatingTypes
  <2>3. effect = "expire" => members[u] \ {u} \subseteq Users
    BY <2>1 DEF TableInv, TableTypes
  <2>4. Write(p, u, r) /\ proc' = [proc EXCEPT ![p] = h]
    BY <1>1, <1>6 DEF Accept, TableInv, TableTypes, Handler
  <2> HIDE DEF effect
  <2>5. effect = "expire" => Lapsed(r)
    BY <1>2, <2>1, ExpirationLapses
  <2>6. u \in Owners /\ Lapsed(billing[u]) /\ ~Lapsed(r) =>
          effect = "reactivate" \/ proc[p].by \in {"sync", "reconcile"}
    BY <1>1, <1>2, <1>4, <1>6, <2>2, OnlyReturnsPay DEF Returners
  <2>7. /\ h \in Handler /\ h.workspace = effect
        /\ h.user = u /\ h.by = proc[p].by /\ h.event = e /\ h.seen = proc[p].seen
        /\ effect = "expire" => h.pc = "cascade" /\ h.roster = h.todo
        /\ effect # "expire" => h.pc = "commit"
    BY <1>1, <2>1, <2>3 DEF Handler, Pcs
  <2> HIDE DEF h, r
  <2>8. /\ r # Null
        /\ \A v \in Users : writes'[p][v] = IF v = u THEN r ELSE Null
        /\ \A q \in Procs : q # p => writes'[q] = writes[q]
        /\ UNCHANGED <<billing, expiredAt>>
    BY <1>1, <1>3, <1>4, <2>4, WriteSees
  <2>9. Fits(h, writes'[p], billing')
    BY <1>1, <2>1, <2>2, <2>5, <2>6, <2>7, <2>8, UserBillingConstants DEF Fits
  <2> QED BY <2>4, <2>7, <2>8, <2>9, OneFits DEF WorkspaceInv
<1> QED BY <1>5, <1>6, RollbackKeepsWorkspace DEF Apply

\* The cascade makes no member pay.
LEMMA ApplyMemberKeepsWorkspace ==
    ASSUME TableInv, WorkspaceInv, NEW p \in Procs, ApplyMember(p)
    PROVE  WorkspaceInv'
<1> DEFINE m == proc[p].member
           e == [type |-> "TEAM_OWNER_EXPIRED", memberHasOwnSub |-> m \in proc[p].own]
           r == Transition(billing[m], e, now)
<1>1. /\ proc[p] \in Handler /\ m \in Users /\ lock[m] = Nobody
      /\ proc[p].pc = "member"
  BY DEF ApplyMember, TableInv, TableTypes, HandlersAimed
<1>2. e \in BillingEvent /\ e.type \notin ReactivatingTypes /\ Accepts(billing[m], e)
  BY DEF BillingEvent, ReactivatingTypes, Accepts
<1>3. billing[m] \in UserBillingSnapshot /\ now \in Nat
  BY <1>1, UserBillingConstants DEF TableInv, TableTypes
<1>4. r \in UserBillingSnapshot
  BY <1>2, <1>3, TransitionType
<1>5. Lapsed(billing[m]) => Lapsed(r)
  BY <1>2, <1>3, OnlyReturnsPay
<1>6. IF m \in proc[p].own THEN r = billing[m]
      ELSE billing[m].plan = "free" \/ r.state = "grace_team"
  BY <1>3 DEF Transition, TeamOwnerExpired, Grace, UserBillingSnapshot
<1>7. CASE Write(p, m, r) /\ proc' = [proc EXCEPT ![p].pc = "cascade"]
  <2> DEFINE h == [proc[p] EXCEPT !.pc = "cascade"]
  <2>1. /\ h \in Handler /\ h.pc = "cascade" /\ proc' = [proc EXCEPT ![p] = h]
        /\ h.user = proc[p].user /\ h.by = proc[p].by /\ h.event = proc[p].event
        /\ h.seen = proc[p].seen /\ h.workspace = proc[p].workspace
        /\ h.roster = proc[p].roster /\ h.todo = proc[p].todo /\ h.own = proc[p].own
    BY <1>1, <1>7 DEF Handler, Pcs, TableInv, TableTypes
  <2> HIDE DEF h, r
  <2>2. /\ writes[p][m] = Null /\ r # Null
        /\ \A v \in Users : writes'[p][v] = IF v = m THEN r ELSE writes[p][v]
        /\ \A q \in Procs : q # p => writes'[q] = writes[q]
        /\ UNCHANGED <<billing, expiredAt>>
    BY <1>1, <1>4, <1>7, WriteSees
  <2>3. Fits(proc[p], writes[p], billing) /\ Owners \subseteq Users
    BY UserBillingConstants DEF WorkspaceInv
  <2>4. h.workspace # "keep" => /\ h.user \in Owners /\ h.user # m
                                /\ writes'[p][h.user] = writes[p][h.user]
    BY <2>1, <2>2, <2>3 DEF Fits
  <2>5. ASSUME NEW k \in h.roster \ h.todo, h.workspace = "expire"
        PROVE  Handled(h, writes'[p], billing, k)
    <3>1. k \in Users
      BY <2>1 DEF Handler
    <3>2. CASE k = m
      BY <1>6, <2>1, <2>2, <3>1, <3>2 DEF Handled
    <3>3. CASE k # m
      <4>1. Handled(proc[p], writes[p], billing, k)
        BY <2>1, <2>3, <2>5, <3>3 DEF Fits
      <4> QED BY <2>1, <2>2, <3>1, <3>3, <4>1 DEF Handled
    <3> QED BY <3>2, <3>3
  <2>6. ASSUME NEW o \in Owners,
               writes'[p][o] # Null, ~Lapsed(writes'[p][o]), Lapsed(billing[o])
        PROVE  /\ h.user = o
               /\ h.workspace = "reactivate" \/ h.by \in {"sync", "reconcile"}
    BY <1>5, <2>1, <2>2, <2>3, <2>6 DEF Fits
  <2>7. /\ h.by = "webhook_rc" /\ h.event.type = "RC_EXPIRATION"
        /\ h.user \in Owners /\ h.seen.plan = "organization"
        /\ writes'[p][h.user] \notin {Null, billing[h.user]}
        => h.workspace = "expire"
    <3>1. CASE h.user # m
      BY <2>1, <2>2, <2>3, <3>1 DEF Fits
    <3>2. CASE h.user = m
      BY <1>1, <2>1, <2>3 DEF Fits
    <3> QED BY <3>1, <3>2
  <2>8. Fits(h, writes'[p], billing)
    BY <1>1, <2>1, <2>3, <2>4, <2>5, <2>6, <2>7 DEF Fits
  <2> QED BY <2>1, <2>2, <2>8, OneFits DEF WorkspaceInv
<1> QED BY <1>7, RollbackKeepsWorkspace DEF ApplyMember

LEMMA CommitKeepsWorkspace ==
    ASSUME TableInv, WorkspaceInv, NEW p \in Procs, Commit(p)
    PROVE  WorkspaceInv'
<1> DEFINE h == IF proc[p].by = "cron_grace" /\ proc[p].todo # {}
                THEN [proc[p] EXCEPT !.pc = "cron"] ELSE Idle
<1>1. proc[p] \in Handler /\ now \in Nat
  BY UserBillingConstants DEF TableInv, TableTypes
<1>2. proc' = [proc EXCEPT ![p] = h]
  BY DEF Commit
<1>3. /\ writes'[p] = [u \in Users |-> Null]
      /\ \A q \in Procs : q # p => writes'[q] = writes[q]
  BY DEF Commit, Release, TableInv, TableTypes
<1>4. \A q \in Procs, u \in Users :
        q # p /\ writes[q][u] # Null => billing'[u] = billing[u]
  BY DEF Commit, TableInv, WritesUnderLock
<1>5. expiredAt' \in [Owners -> OrNull(Nat)]
  BY <1>1 DEF Commit, WorkspaceInv, OrNull
<1>6. h \in Handler /\ h.pc \in {"cron", "idle"} /\ h.workspace = "keep"
  <2>1. CASE proc[p].by = "cron_grace" /\ proc[p].todo # {}
    <3>1. proc[p].workspace = "keep"
      BY <2>1 DEF WorkspaceInv, Fits
    <3> QED BY <1>1, <2>1, <3>1 DEF Handler, Pcs
  <2>2. CASE ~(proc[p].by = "cron_grace" /\ proc[p].todo # {})
    BY <2>2, IdleHandler DEF Idle
  <2> QED BY <2>1, <2>2
<1> HIDE DEF h
<1>7. Fits(h, writes'[p], billing')
  BY <1>3, <1>6, FitsEarly
<1> QED BY <1>2, <1>3, <1>4, <1>5, <1>6, <1>7, OneFits

LEMMA StepKeepsWorkspace ==
    ASSUME TableInv, WorkspaceInv, NEW p \in Procs, Step(p) \/ SkipMember(p)
    PROVE  WorkspaceInv'
<1>1. proc[p] \in Handler /\ Fits(proc[p], writes[p], billing)
  BY DEF TableInv, TableTypes, WorkspaceInv
<1>2. CASE NextGraceRow(p)
  <2>1. PICK u \in proc[p].todo :
          proc' = [proc EXCEPT ![p].pc = "apply", ![p].user = u,
                               ![p].event = [type |-> "GRACE_EXPIRED"],
                               ![p].todo = @ \ {u}]
    BY <1>2 DEF NextGraceRow
  <2> DEFINE h == [proc[p] EXCEPT !.pc = "apply", !.user = u,
                                  !.event = [type |-> "GRACE_EXPIRED"],
                                  !.todo = @ \ {u}]
  <2>2. u \in Users /\ [type |-> "GRACE_EXPIRED"] \in RowEvents
    BY <1>1 DEF Handler, RowEvents
  <2>3. [type |-> "GRACE_EXPIRED"] \in BillingEvent
    BY <2>2, RowEventFields
  <2>4. /\ h \in Handler /\ h.pc = "apply" /\ h.workspace = proc[p].workspace
        /\ h.event.type \notin ReactivatingTypes
    BY <1>1, <2>2, <2>3 DEF Handler, Pcs, ReactivatingTypes
  <2>5. proc' = [proc EXCEPT ![p] = h]
    BY <1>1, <2>1 DEF TableInv, TableTypes, Handler
  <2>6. /\ proc[p].workspace = "keep" /\ \A v \in Users : writes[p][v] = Null
        /\ UNCHANGED <<billing, writes, expiredAt>>
    BY <1>1, <1>2 DEF NextGraceRow, tables, Fits
  <2> HIDE DEF h
  <2>7. Fits(h, writes[p], billing)
    BY <2>4, <2>6, FitsEarly
  <2> QED BY <2>4, <2>5, <2>6, <2>7, OneFitsUnwritten
<1>3. CASE ReadCurrent(p)
  <2> DEFINE h == [proc[p] EXCEPT !.pc = "apply", !.seen = billing[proc[p].user]]
  <2>1. proc[p].user \in Users /\ proc[p].pc = "read"
    BY <1>3 DEF ReadCurrent, TableInv, HandlersAimed
  <2>2. /\ h \in Handler /\ h.workspace = proc[p].workspace /\ h.pc = "apply"
        /\ h.event = proc[p].event /\ h.by = proc[p].by
    BY <1>1, <2>1 DEF Handler, Pcs, TableInv, TableTypes
  <2>3. /\ proc' = [proc EXCEPT ![p] = h]
        /\ UNCHANGED <<billing, writes, expiredAt>>
    BY <1>1, <1>3 DEF ReadCurrent, tables, TableInv, TableTypes, Handler
  <2>4. /\ proc[p].workspace = "keep" /\ \A v \in Users : writes[p][v] = Null
        /\ proc[p].event.type \in ReactivatingTypes => proc[p].by \in Returners
    BY <1>1, <2>1 DEF Fits
  <2> HIDE DEF h
  <2>5. Fits(h, writes[p], billing)
    BY <2>2, <2>4, FitsEarly
  <2> QED BY <2>2, <2>3, <2>5, OneFitsUnwritten
<1>4. CASE ReadMember(p)
  <2>1. PICK m \in proc[p].todo :
          proc' = [proc EXCEPT ![p].pc = "member", ![p].member = m,
                               ![p].todo = @ \ {m},
                               ![p].own = IF HasOwnSub(billing[m])
                                          THEN @ \cup {m} ELSE @]
    BY <1>4 DEF ReadMember
  <2> DEFINE h == [proc[p] EXCEPT !.pc = "member", !.member = m,
                                  !.todo = @ \ {m},
                                  !.own = IF HasOwnSub(billing[m])
                                          THEN @ \cup {m} ELSE @]
  <2>2. m \in Users /\ proc[p].pc = "cascade"
    BY <1>1, <1>4 DEF Handler, ReadMember
  <2>3. /\ h \in Handler /\ h.pc = "member" /\ h.member = m
        /\ h.workspace = proc[p].workspace /\ h.user = proc[p].user
        /\ h.by = proc[p].by /\ h.event = proc[p].event /\ h.seen = proc[p].seen
        /\ h.roster = proc[p].roster /\ h.todo = proc[p].todo \ {m}
        /\ \A k \in Users : k # m => (k \in h.own <=> k \in proc[p].own)
    BY <1>1, <2>2 DEF Handler, Pcs
  <2>4. /\ proc' = [proc EXCEPT ![p] = h]
        /\ UNCHANGED <<billing, writes, expiredAt>>
    BY <1>1, <1>4, <2>1 DEF ReadMember, tables, TableInv, TableTypes, Handler
  <2> HIDE DEF h
  <2>5. ASSUME NEW k \in h.roster \ h.todo, k # m
        PROVE  Handled(h, writes[p], billing, k)
    <3>1. k \in Users /\ k \in proc[p].roster \ proc[p].todo
      BY <1>1, <2>3, <2>5 DEF Handler
    <3>2. Handled(proc[p], writes[p], billing, k)
      BY <1>1, <2>2, <3>1 DEF Fits
    <3> QED BY <2>3, <2>5, <3>1, <3>2 DEF Handled
  <2>6. Fits(h, writes[p], billing)
    BY <1>1, <2>2, <2>3, <2>5 DEF Fits
  <2> QED BY <2>3, <2>4, <2>6, OneFitsUnwritten
<1>5. CASE SkipMember(p)
  <2>1. PICK m \in proc[p].todo :
          proc' = [proc EXCEPT ![p].todo = @ \ {m}, ![p].roster = @ \ {m}]
    BY <1>5 DEF SkipMember
  <2> DEFINE h == [proc[p] EXCEPT !.todo = @ \ {m}, !.roster = @ \ {m}]
  <2>2. proc[p].pc = "cascade"
    BY <1>5 DEF SkipMember
  <2>3. /\ h \in Handler /\ h.pc = "cascade" /\ h.workspace = proc[p].workspace
        /\ h.user = proc[p].user
        /\ h.by = proc[p].by /\ h.event = proc[p].event /\ h.seen = proc[p].seen
        /\ h.own = proc[p].own
        /\ h.roster \ h.todo \subseteq proc[p].roster \ proc[p].todo
    BY <1>1, <2>2 DEF Handler, Pcs
  <2>4. /\ proc' = [proc EXCEPT ![p] = h]
        /\ UNCHANGED <<billing, writes, expiredAt>>
    BY <1>1, <1>5, <2>1 DEF SkipMember, tables, TableInv, TableTypes, Handler
  <2> HIDE DEF h
  <2>5. Fits(h, writes[p], billing)
    BY <1>1, <2>2, <2>3 DEF Fits, Handled
  <2> QED BY <2>3, <2>4, <2>5, OneFitsUnwritten
<1> QED
  BY <1>2, <1>3, <1>4, <1>5, ApplyKeepsWorkspace, ApplyMemberKeepsWorkspace,
     CommitKeepsWorkspace
  DEF Step

LEMMA NextKeepsWorkspace == TableInv /\ WorkspaceInv /\ [Next]_vars => WorkspaceInv'
<1> SUFFICES ASSUME TableInv, WorkspaceInv, [Next]_vars PROVE WorkspaceInv'
  OBVIOUS
<1>1. CASE UNCHANGED <<billing, writes, expiredAt, proc>>
  BY <1>1 DEF WorkspaceInv
<1>2. ASSUME NEW p \in Procs, DeadlockVictim(p) \/ Abort(p)
      PROVE  WorkspaceInv'
  BY <1>2, RollbackKeepsWorkspace DEF DeadlockVictim, Abort
<1>3. Tick \/ UNCHANGED vars => UNCHANGED <<billing, writes, expiredAt, proc>>
  BY DEF Tick, tables, vars
<1> QED BY <1>1, <1>2, <1>3, BeginKeepsWorkspace, StepKeepsWorkspace DEF Next

LEMMA WorkspaceInvHolds == Spec => [](TableInv /\ WorkspaceInv)
BY InitTable, InitWorkspace, NextKeeps, NextKeepsWorkspace, PTL DEF Spec

\* Only a commit changes rows and workspaces.
LEMMA OnlyCommits ==
    ASSUME [Next]_vars, \A p \in Procs : ~Commit(p)
    PROVE  UNCHANGED <<billing, expiredAt>>
<1>1. CASE Tick \/ UNCHANGED vars
  BY <1>1 DEF Tick, tables, vars
<1>2. ASSUME NEW p \in Procs, Begin(p) \/ DeadlockVictim(p) \/ Abort(p)
      PROVE  UNCHANGED <<billing, expiredAt>>
  BY <1>2
  DEF Begin, StartRc, StartLs, StartSync, StartReconcile, StartCancel,
      StartInvite, StartRevoke, StartLeave, StartGraceCron, Join, Webhook,
      Inferred, Direct, Start, DeadlockVictim, Abort, Rollback, tables
<1>3. ASSUME NEW p \in Procs,
             NextGraceRow(p) \/ ReadCurrent(p) \/ Apply(p)
               \/ ReadMember(p) \/ SkipMember(p) \/ ApplyMember(p)
      PROVE  UNCHANGED <<billing, expiredAt>>
  BY <1>3
  DEF NextGraceRow, ReadCurrent, Apply, ReadMember, SkipMember, ApplyMember,
      Refuse, Accept, Write, Rollback, tables
<1> QED BY <1>1, <1>2, <1>3 DEF Next, Step

\* What a commit makes of a workspace.
LEMMA CommitMarks ==
    ASSUME TableInv, WorkspaceInv, NEW p \in Procs, Commit(p), NEW o \in Owners
    PROVE  /\ billing'[o] = IF writes[p][o] = Null THEN billing[o] ELSE writes[p][o]
           /\ expiredAt'[o] = IF o # proc[p].user \/ proc[p].workspace = "keep"
                              THEN expiredAt[o]
                              ELSE IF proc[p].workspace = "expire" THEN now ELSE Null
           /\ Fits(proc[p], writes[p], billing)
<1>1. proc[p].workspace \in {"keep", "expire", "reactivate"} /\ o \in Users
  BY UserBillingConstants DEF TableInv, TableTypes, Handler
<1> QED BY <1>1 DEF Commit, WorkspaceInv

\* Whatever interleaves with them, the RevenueCat webhooks strand no
\* workspace: only the app's sync and reconcile, which write the owner's row
\* alone, leave one expired under an owner who pays.
THEOREM WebhooksKeepWorkspaces == Spec => WebhooksStrandNoWorkspace
<1> DEFINE Strands(o) == \E p \in Procs : /\ Commit(p)
                                          /\ proc[p].by \in {"sync", "reconcile"}
                                          /\ proc[p].user = o
           Good == \A o \in Owners : ~Stranded(o) /\ Stranded(o)' => Strands(o)
<1>1. TableInv /\ WorkspaceInv /\ [Next]_vars => [Good]_vars
  <2> SUFFICES ASSUME TableInv, WorkspaceInv, [Next]_vars, NEW o \in Owners,
                      ~Stranded(o), Stranded(o)'
               PROVE  Strands(o)
    OBVIOUS
  <2>1. expiredAt'[o] # Null /\ ~Lapsed(billing'[o])
    BY DEF Stranded, Lapsed
  <2>2. ~UNCHANGED <<billing, expiredAt>>
    BY <2>1 DEF Stranded
  <2>3. PICK p \in Procs : Commit(p)
    BY <2>2, OnlyCommits
  <2>4. /\ billing'[o] = IF writes[p][o] = Null THEN billing[o] ELSE writes[p][o]
        /\ expiredAt'[o] = IF o # proc[p].user \/ proc[p].workspace = "keep"
                           THEN expiredAt[o]
                           ELSE IF proc[p].workspace = "expire" THEN now ELSE Null
        /\ Fits(proc[p], writes[p], billing)
    BY <2>3, CommitMarks
  <2>5. ~(o = proc[p].user /\ proc[p].workspace # "keep")
    BY <2>1, <2>4 DEF Fits
  <2>6. expiredAt[o] # Null /\ Lapsed(billing[o])
    BY <2>1, <2>4, <2>5 DEF Stranded
  <2>7. writes[p][o] # Null /\ ~Lapsed(writes[p][o])
    BY <2>1, <2>4, <2>6
  <2>8. proc[p].user = o /\ proc[p].by \in {"sync", "reconcile"}
    BY <2>4, <2>5, <2>6, <2>7 DEF Fits
  <2> QED BY <2>3, <2>8
<1> QED BY <1>1, WorkspaceInvHolds, PTL DEF Spec, WebhooksStrandNoWorkspace

\* However many handlers run at a time: when the webhook's expiration of an
\* organization commits, the workspace is marked expired and no member the
\* cascade could read is missed.
THEOREM CascadeIsComplete == Spec => CascadeComplete
<1> DEFINE Good == \A p \in Procs : ExpiresTeam(p) =>
              /\ expiredAt'[proc[p].user] # Null
              /\ \A m \in proc[p].roster :
                   IF m \in proc[p].own THEN billing'[m] = billing[m]
                   ELSE billing[m].plan = "free" \/ billing'[m].state = "grace_team"
<1>1. TableInv /\ WorkspaceInv => Good
  <2> SUFFICES ASSUME TableInv, WorkspaceInv, NEW p \in Procs, ExpiresTeam(p)
               PROVE  /\ expiredAt'[proc[p].user] # Null
                      /\ \A m \in proc[p].roster :
                           IF m \in proc[p].own THEN billing'[m] = billing[m]
                           ELSE \/ billing[m].plan = "free"
                                \/ billing'[m].state = "grace_team"
    OBVIOUS
  <2> DEFINE o == proc[p].user
  <2>1. /\ Commit(p) /\ proc[p].by = "webhook_rc" /\ o \in Owners
        /\ proc[p].event.type = "RC_EXPIRATION" /\ proc[p].seen.plan = "organization"
        /\ billing'[o] # billing[o]
    BY DEF ExpiresTeam
  <2>2. /\ billing'[o] = IF writes[p][o] = Null THEN billing[o] ELSE writes[p][o]
        /\ expiredAt'[o] = IF proc[p].workspace = "keep" THEN expiredAt[o]
                           ELSE IF proc[p].workspace = "expire" THEN now ELSE Null
        /\ Fits(proc[p], writes[p], billing)
    BY <2>1, CommitMarks
  <2>3. writes[p][o] \notin {Null, billing[o]}
    BY <2>1, <2>2
  <2>4. proc[p].workspace = "expire"
    BY <2>1, <2>2, <2>3 DEF Fits
  <2>5. now # Null
    BY UserBillingConstants, BillingConstants DEF TableInv, TableTypes
  <2>6. proc[p].pc = "cascade" /\ proc[p].todo = {}
    BY <2>1, <2>2, <2>4 DEF Commit, Committing, Fits
  <2>7. \A m \in proc[p].roster : Handled(proc[p], writes[p], billing, m)
    BY <2>2, <2>4, <2>6 DEF Fits
  <2>8. \A m \in proc[p].roster : m \in Users
    BY DEF TableInv, TableTypes, Handler
  <2>9. \A m \in Users : writes[p][m] # Null => billing'[m] = writes[p][m]
    BY <2>1 DEF Commit
  <2> QED BY <2>2, <2>4, <2>5, <2>7, <2>8, <2>9 DEF Handled
<1> QED BY <1>1, WorkspaceInvHolds, PTL DEF Spec, CascadeComplete
=============================================================================
