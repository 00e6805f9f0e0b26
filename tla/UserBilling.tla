---------------------------- MODULE UserBilling ----------------------------
(***************************************************************************)
(* Table user_billing under concurrent handlers: the RevenueCat and Lemon  *)
(* Squeezy webhooks, the two calls by which the app makes the server look  *)
(* at RevenueCat, the user's own cancellation, Pro invites given and taken *)
(* back, members leaving a team, and the grace cron.  A handler is a       *)
(* process.  Its transaction reads what is committed, locks a row when it  *)
(* applies a transition (SELECT ... FOR UPDATE), keeps its writes to       *)
(* itself until it commits, and may be rolled back at any point.           *)
(*                                                                         *)
(* UserBillingRepository.read runs on another connection than the          *)
(* transaction around it, takes no lock and sees committed rows only; the  *)
(* audit log is written on another connection too, and stays when the      *)
(* transaction is rolled back.                                             *)
(***************************************************************************)
EXTENDS BillingStateMachine

CONSTANTS Users, Procs,
          Teams,        \* the ACTIVE members of each owner's workspace, at first
          RcEvents, LsEvents,    \* what the two stores may deliver
          RcViews,      \* the entitlements RevenueCat may show when asked
          MaxTime,      \* bound on the clock, in days
          MaxHandlers,  \* bound on the number of handlers started
          Nobody        \* no process, no user

Owners == DOMAIN Teams
RcTypes == {"RC_INITIAL_PURCHASE", "RC_RENEWAL", "RC_PRODUCT_CHANGE",
            "RC_CANCELLATION", "RC_UNCANCELLATION", "RC_EXPIRATION",
            "RC_BILLING_ISSUE", "RC_REFUND"}
LsTypes == {"LS_SUBSCRIPTION_CREATED", "LS_SUBSCRIPTION_UPDATED",
            "LS_SUBSCRIPTION_CANCELLED"}

\* A process about to reach each of these.
Pcs == {"idle", "read", "apply", "cascade", "member", "commit", "cron"}
Actors == {"webhook_rc", "webhook_ls", "sync", "reconcile", "user_cancel",
           "admin_grant", "cron_grace"}

ASSUME UserBillingConstants ==
    /\ Nobody \notin Users \cup Procs
    /\ Null \notin UserBillingSnapshot
    /\ Owners \subseteq Users
    /\ Teams \in [Owners -> SUBSET Users]
    /\ \A o \in Owners : o \notin Teams[o]
    /\ RcEvents \cup LsEvents \subseteq BillingEvent
    /\ \A e \in RcEvents : e.type \in RcTypes
    /\ \A e \in LsEvents : e.type \in LsTypes
    /\ RcViews \subseteq Entitlement
    /\ MaxTime \in Nat /\ MaxHandlers \in Nat

VARIABLES
    now,        \* the clock
    billing,    \* user_billing as committed
    writes,     \* the rows each process's transaction has written
    lock,       \* the process whose transaction holds each row's lock
    members,    \* the ACTIVE members of each workspace
    expiredAt,  \* workspaces.expiredAt
    outbox,     \* amplitude.track rows: whose, state before, state after
    audited,    \* the state the last audit_logs row of each user names
    dlq,        \* billing_dead_letter: whose, event type, state
    proc,       \* what each handler is doing
    started     \* the handlers started so far
vars == <<now, billing, writes, lock, members, expiredAt, outbox, audited, dlq,
          proc, started>>

tables == <<billing, members, expiredAt, outbox>>  \* written by commits
logs == <<audited, dlq>>                           \* written at once

Idle == [pc |-> "idle", by |-> "webhook_rc", user |-> Nobody,
         event |-> NoEvent, seen |-> FreeRow, roster |-> {}, todo |-> {},
         member |-> Nobody, own |-> {}, workspace |-> "keep"]

\* roster: the members the cascade goes to, less those it could not read;
\* own: those of them it found paying.
Handler == [pc : Pcs, by : Actors, user : Users \cup {Nobody},
            event : BillingEvent \cup {NoEvent}, seen : UserBillingSnapshot,
            roster : SUBSET Users, todo : SUBSET Users,
            member : Users \cup {Nobody}, own : SUBSET Users,
            workspace : {"keep", "expire", "reactivate"}]

TypeOK ==
    /\ now \in 0 .. MaxTime
    /\ billing \in [Users -> UserBillingSnapshot]
    /\ writes \in [Procs -> [Users -> OrNull(UserBillingSnapshot)]]
    /\ lock \in [Users -> Procs \cup {Nobody}]
    /\ members \in [Owners -> SUBSET Users]
    /\ expiredAt \in [Owners -> OrNull(Nat)]
    /\ outbox \subseteq [userId : Users, before : States, after : States]
    /\ audited \in [Users -> States]
    /\ dlq \subseteq [userId : Users, eventType : STRING, fromState : States]
    /\ proc \in [Procs -> Handler]
    /\ started \in 0 .. MaxHandlers

Init ==
    /\ now = 0
    /\ billing = [u \in Users |-> FreeRow]
    /\ writes = [p \in Procs |-> [u \in Users |-> Null]]
    /\ lock = [u \in Users |-> Nobody]
    /\ members = Teams
    /\ expiredAt = [o \in Owners |-> Null]
    /\ outbox = {}
    /\ audited = [u \in Users |-> "free"]
    /\ dlq = {}
    /\ proc = [p \in Procs |-> Idle]
    /\ started = 0

-----------------------------------------------------------------------------
(* A handler starts.  Webhooks read the row before they lock it: what they *)
(* saw decides the cascade and the analytics.                              *)

Start(p, h) ==
    /\ proc[p].pc = "idle"
    /\ started < MaxHandlers
    /\ started' = started + 1
    /\ proc' = [proc EXCEPT ![p] = h]
    /\ UNCHANGED <<now, billing, writes, lock, expiredAt, outbox, logs>>

Webhook(p, by, events) ==
    \E u \in Users, e \in events :
        /\ Start(p, [Idle EXCEPT !.pc = "read", !.by = by, !.user = u, !.event = e])
        /\ UNCHANGED members

\* One transition in a transaction of its own.
Direct(p, by, u, e) ==
    /\ Start(p, [Idle EXCEPT !.pc = "apply", !.by = by, !.user = u, !.event = e])
    /\ UNCHANGED members

\* processRevenueCatEvent, the event claimed and the user found.
StartRc(p) == Webhook(p, "webhook_rc", RcEvents)

\* What a delivery of Lemon Squeezy means: plan is the one its variant is known
\* for, or Null; an update may say that the subscription is over.
LsBillingEvent(name, status, plan, periodEnd) ==
    CASE \/ name \in {"subscription_cancelled", "subscription_expired"}
         \/ /\ name = "subscription_updated" /\ plan # Null
            /\ status \in {"cancelled", "expired"}
            -> [type |-> "LS_SUBSCRIPTION_CANCELLED"]
      [] name = "subscription_created" /\ plan # Null ->
            [type |-> "LS_SUBSCRIPTION_CREATED", plan |-> plan, periodEnd |-> periodEnd]
      [] name = "subscription_updated" /\ plan # Null /\ status \notin {"cancelled", "expired"} ->
            [type |-> "LS_SUBSCRIPTION_UPDATED", plan |-> plan, periodEnd |-> periodEnd]
      [] OTHER -> Null

\* handleLemonSqueezyWebhook and handleWebhook, the event claimed and the user found.
StartLs(p) == Webhook(p, "webhook_ls", LsEvents)

\* inferEventFromRcSnapshot on the row as it was read: what is done about it
\* is one transition in a transaction of its own, and no more.
Inferred(p, by, u, found) ==
    LET e == InferEvent(found, billing[u], now)
    IN  e # NoEvent /\ Direct(p, by, u, e)

\* syncRevenueCat: the product the app names must be active at RevenueCat.
StartSync(p) ==
    \E u \in Users, found \in RcViews :
        found.periodEnd > now /\ Inferred(p, "sync", u, found)

\* reconcileRevenueCat: for a row of RevenueCat's, also when nothing is active.
StartReconcile(p) ==
    \E u \in Users :
        /\ billing[u].billingSource = "revenuecat"
        /\ \/ Inferred(p, "reconcile", u, Null)
           \/ \E found \in RcViews :
                found.periodEnd > now /\ Inferred(p, "reconcile", u, found)

\* The event cancelSubscription chooses from the row it read.
CancelEvent(s) ==
    CASE s.billingSource = "revenuecat" ->
            [type |-> "RC_CANCELLATION",
             periodEnd |-> IF s.currentPeriodEnd = Null
                           THEN now ELSE s.currentPeriodEnd]
      [] s.billingSource = "lemon_squeezy" ->
            [type |-> "LS_SUBSCRIPTION_CANCELLED"]
      [] OTHER -> [type |-> "TRIAL_EXPIRED"]

StartCancel(p) ==
    \E u \in Users :
        /\ billing[u].state # "free"
        /\ Direct(p, "user_cancel", u, CancelEvent(billing[u]))

\* activateProInvite: a paying user gives a free one a Pro seat.
StartInvite(p) ==
    \E inviter \in Users : \E u \in Users \ {inviter} :
        /\ billing[inviter].plan # "free"
        /\ ~billing[inviter].cancelAtPeriodEnd
        /\ billing[u].plan = "free"
        /\ Direct(p, "admin_grant", u, [type |-> "ADMIN_GRANT_PRO", plan |-> "pro"])

\* downgradeInviteeIfEligible: the seat is taken back from an invitee who
\* does not pay.
StartRevoke(p) ==
    \E u \in Users :
        /\ billing[u].billingSource = Null
        /\ billing[u].plan # "free"
        /\ Direct(p, "admin_grant", u, [type |-> "TRIAL_EXPIRED"])

\* leave and removeMember: the membership is deleted first, and for good.
StartLeave(p) ==
    \E o \in Owners : \E u \in members[o] :
        /\ members' = [members EXCEPT ![o] = @ \ {u}]
        /\ Start(p, [Idle EXCEPT !.pc = "apply", !.by = "admin_grant",
                                 !.user = u,
                                 !.event = [type |-> "TEAM_MEMBER_REMOVED"]])

\* joinByCode, a handler that touches no billing row.
Join(p) ==
    /\ proc[p].pc = "idle"
    /\ \E o \in Owners : \E u \in Users \ (members[o] \cup {o}) :
        members' = [members EXCEPT ![o] = @ \cup {u}]
    /\ UNCHANGED <<now, billing, writes, lock, expiredAt, outbox, logs, proc, started>>

\* resetExpiredGrace: the rows are selected once, without a lock.
StartGraceCron(p) ==
    LET due == {u \in Users : /\ billing[u].graceExpiresAt # Null
                              /\ billing[u].graceExpiresAt < now}
    IN  /\ due # {}
        /\ Start(p, [Idle EXCEPT !.pc = "cron", !.by = "cron_grace", !.todo = due])
        /\ UNCHANGED members

NextGraceRow(p) ==
    /\ proc[p].pc = "cron"
    /\ \E u \in proc[p].todo :
        proc' = [proc EXCEPT ![p].pc = "apply", ![p].user = u,
                             ![p].event = [type |-> "GRACE_EXPIRED"],
                             ![p].todo = @ \ {u}]
    /\ UNCHANGED <<now, tables, writes, lock, logs, started>>

-----------------------------------------------------------------------------
(* The steps of a transaction.                                             *)

\* The unlocked read at the top of a webhook's transaction.
ReadCurrent(p) ==
    /\ proc[p].pc = "read"
    /\ proc' = [proc EXCEPT ![p].pc = "apply", ![p].seen = billing[proc[p].user]]
    /\ UNCHANGED <<now, tables, writes, lock, logs, started>>

\* The transaction of p is over: its locks are released.
Release(p) ==
    /\ lock' = [u \in Users |-> IF lock[u] = p THEN Nobody ELSE lock[u]]
    /\ writes' = [writes EXCEPT ![p] = [u \in Users |-> Null]]

\* Mutation: the locks are kept.
RollbackKeepsLocks(p) ==
    /\ writes' = [writes EXCEPT ![p] = [u \in Users |-> Null]]
    /\ proc' = [proc EXCEPT ![p] = Idle]
    /\ UNCHANGED <<now, tables, lock, logs, started>>

\* Every write of p's transaction is undone.  A webhook answers 500 and is
\* delivered again, a cron abandons its loop.
Rollback(p) ==
    /\ Release(p)
    /\ proc' = [proc EXCEPT ![p] = Idle]
    /\ UNCHANGED <<now, tables, logs, started>>

\* Mutation: the row is read without FOR UPDATE, so it is not locked.
WriteUnlocked(p, u, r) ==
    /\ writes' = [writes EXCEPT ![p][u] = r]
    /\ audited' = IF r = billing[u] THEN audited
                  ELSE [audited EXCEPT ![u] = r.state]
    /\ UNCHANGED <<now, tables, lock, dlq, started>>

\* The UPDATE of one row and the audit row that goes with it; nothing of the
\* kind when the reducer left the row as it was.
Write(p, u, r) ==
    /\ lock' = [lock EXCEPT ![u] = p]
    /\ writes' = [writes EXCEPT ![p][u] = r]
    /\ audited' = IF r = billing[u] THEN audited
                  ELSE [audited EXCEPT ![u] = r.state]
    /\ UNCHANGED <<now, tables, dlq, started>>

\* InvalidTransitionError: the event goes to the dead-letter table, and the
\* transaction goes on to commit nothing.
Refuse(p, u, e) ==
    /\ lock' = [lock EXCEPT ![u] = p]
    /\ dlq' = dlq \cup {[userId |-> u, eventType |-> e.type,
                         fromState |-> billing[u].state]}
    /\ proc' = [proc EXCEPT ![p].pc = "commit"]
    /\ UNCHANGED <<now, tables, writes, audited, started>>

ReactivatingTypes ==
    {"RC_INITIAL_PURCHASE", "RC_RENEWAL", "RC_UNCANCELLATION", "RC_PRODUCT_CHANGE"}

\* Mutations: a purchase does not bring the workspace back; the cascade is
\* for the wrong plan.
WorkspaceEffectNoReturn(h, moved) ==
    IF /\ moved /\ h.by = "webhook_rc" /\ h.user \in Owners
       /\ h.event.type = "RC_EXPIRATION" /\ h.seen.plan = "organization"
    THEN "expire" ELSE "keep"
WorkspaceEffectWrongPlan(h, moved) ==
    IF ~moved \/ h.by # "webhook_rc" \/ h.user \notin Owners THEN "keep"
    ELSE CASE h.event.type \in ReactivatingTypes -> "reactivate"
           [] h.event.type = "RC_EXPIRATION" /\ h.seen.plan = "pro" -> "expire"
           [] OTHER -> "keep"

\* What the RevenueCat webhook goes on to do to the user's workspace.
WorkspaceEffect(h, moved) ==
    IF ~moved \/ h.by # "webhook_rc" \/ h.user \notin Owners THEN "keep"
    ELSE CASE h.event.type \in ReactivatingTypes -> "reactivate"
           [] h.event.type = "RC_EXPIRATION" /\ h.seen.plan = "organization" ->
                 "expire"
           [] OTHER -> "keep"

Accept(p, u, r) ==
    LET effect == WorkspaceEffect(proc[p], r # billing[u])
    IN  /\ Write(p, u, r)
        /\ proc' = [proc EXCEPT
                      ![p].pc = IF effect = "expire" THEN "cascade" ELSE "commit",
                      ![p].workspace = effect,
                      ![p].roster = IF effect = "expire" THEN members[u] \ {u} ELSE @,
                      ![p].todo = IF effect = "expire" THEN members[u] \ {u} ELSE @]

\* applyTransition on the handler's own user, once the row lock is free: the
\* reducer runs on the row as it is now, the CHECK constraints on its result.
Apply(p) ==
    LET u == proc[p].user
        e == proc[p].event
        r == Transition(billing[u], e, now)
    IN  /\ proc[p].pc = "apply"
        /\ lock[u] = Nobody
        /\ \/ ~Accepts(billing[u], e) /\ Refuse(p, u, e)
           \/ Accepts(billing[u], e) /\ ChecksPass(r) /\ Accept(p, u, r)
           \/ Accepts(billing[u], e) /\ ~ChecksPass(r) /\ Rollback(p)

\* Mutation: nobody is asked.
ReadMemberNotAsked(p) ==
    /\ proc[p].pc = "cascade"
    /\ \E m \in proc[p].todo :
        proc' = [proc EXCEPT ![p].pc = "member", ![p].member = m,
                             ![p].todo = @ \ {m}]
    /\ UNCHANGED <<now, tables, writes, lock, logs, started>>

\* handleTeamOwnerExpiration: is this member paying?  Asked without a lock.
ReadMember(p) ==
    /\ proc[p].pc = "cascade"
    /\ \E m \in proc[p].todo :
        proc' = [proc EXCEPT ![p].pc = "member", ![p].member = m,
                             ![p].todo = @ \ {m},
                             ![p].own = IF HasOwnSub(billing[m])
                                        THEN @ \cup {m} ELSE @]
    /\ UNCHANGED <<now, tables, writes, lock, logs, started>>

\* .catch(() => null): a member whose row cannot be read is passed over.
SkipMember(p) ==
    /\ proc[p].pc = "cascade"
    /\ \E m \in proc[p].todo :
        proc' = [proc EXCEPT ![p].todo = @ \ {m}, ![p].roster = @ \ {m}]
    /\ UNCHANGED <<now, tables, writes, lock, logs, started>>

\* The cascade's applyTransition, in the owner's transaction.
ApplyMember(p) ==
    LET m == proc[p].member
        r == Transition(billing[m], [type |-> "TEAM_OWNER_EXPIRED",
                                     memberHasOwnSub |-> m \in proc[p].own], now)
    IN  /\ proc[p].pc = "member"
        /\ lock[m] = Nobody
        /\ \/ /\ ChecksPass(r)
              /\ Write(p, m, r)
              /\ proc' = [proc EXCEPT ![p].pc = "cascade"]
           \/ ~ChecksPass(r) /\ Rollback(p)

\* What the webhook's analytics compare: the row it wrote with the row it
\* read first.
Visible(by, s) ==
    [state |-> s.state, plan |-> s.plan,
     extra |-> IF by = "webhook_ls" THEN s.billingSource ELSE s.cancelAtPeriodEnd]

\* The amplitude.track rows a handler enqueues in its transaction.
Tracked(h, next) ==
    IF /\ h.by \in {"webhook_rc", "webhook_ls"}
       /\ next \notin {Null, billing[h.user]}
       /\ Visible(h.by, next) # Visible(h.by, h.seen)
    THEN {[userId |-> h.user, before |-> h.seen.state, after |-> next.state]}
    ELSE {}

Committing(p) ==
    \/ proc[p].pc = "commit"
    \/ proc[p].pc = "cascade" /\ proc[p].todo = {}

\* A cron goes on with its next row.
Commit(p) ==
    LET h == proc[p]
    IN  /\ Committing(p)
        /\ billing' = [u \in Users |-> IF writes[p][u] = Null
                                       THEN billing[u] ELSE writes[p][u]]
        /\ expiredAt' = CASE h.workspace = "expire" -> [expiredAt EXCEPT ![h.user] = now]
                          [] h.workspace = "reactivate" -> [expiredAt EXCEPT ![h.user] = Null]
                          [] OTHER -> expiredAt
        /\ outbox' = outbox \cup Tracked(h, writes[p][h.user])
        /\ proc' = [proc EXCEPT ![p] = IF h.by = "cron_grace" /\ h.todo # {}
                                       THEN [h EXCEPT !.pc = "cron"] ELSE Idle]
        /\ Release(p)
        /\ UNCHANGED <<now, members, logs, started>>

-----------------------------------------------------------------------------
(* The environment.                                                        *)

\* The row whose lock p is about to take.
Wanted(p) ==
    CASE proc[p].pc = "apply" -> {proc[p].user}
      [] proc[p].pc = "member" -> {proc[p].member}
      [] OTHER -> {}

\* PostgreSQL finds a cycle of waiting transactions and aborts one of them.
DeadlockVictim(p) ==
    /\ \E S \in SUBSET Procs :
        /\ p \in S
        /\ \A q \in S : \E u \in Wanted(q) : lock[u] \in S
    /\ Rollback(p)

\* The database fails or the process dies in the middle of a handler.
Abort(p) == proc[p].pc # "idle" /\ Rollback(p)

Tick ==
    /\ now < MaxTime
    /\ now' = now + 1
    /\ UNCHANGED <<tables, writes, lock, logs, proc, started>>

Step(p) ==
    \/ NextGraceRow(p) \/ ReadCurrent(p) \/ Apply(p)
    \/ ReadMember(p) \/ ApplyMember(p) \/ Commit(p)

Begin(p) ==
    \/ StartRc(p) \/ StartLs(p) \/ StartSync(p) \/ StartReconcile(p)
    \/ StartCancel(p) \/ StartInvite(p) \/ StartRevoke(p) \/ StartLeave(p)
    \/ StartGraceCron(p) \/ Join(p)

Next ==
    \/ \E p \in Procs :
         Begin(p) \/ Step(p) \/ SkipMember(p) \/ DeadlockVictim(p) \/ Abort(p)
    \/ Tick

Spec == Init /\ [][Next]_vars

\* A handler that can take a step takes one, and PostgreSQL resolves every
\* deadlock.  Nothing is assumed of what starts, fails, or joins.
FairSpec ==
    /\ Spec
    /\ \A p \in Procs : WF_vars(Step(p)) /\ WF_vars(DeadlockVictim(p))
-----------------------------------------------------------------------------
(* What must hold.                                                         *)

\* A transaction's uncommitted rows are rows it has locked: no two handlers
\* ever compute a new row for the same user from the same old one.
WritesUnderLock ==
    \A p \in Procs, u \in Users : writes[p][u] # Null => lock[u] = p

\* The owner pays nothing through RevenueCat.
Lapsed(r) == r.billingSource # "revenuecat" \/ r.state \in {"free"} \cup GraceStates

\* A workspace is marked expired although its owner pays.
Stranded(o) == expiredAt[o] # Null /\ ~Lapsed(billing[o])

\* Whatever interleaves with them, the RevenueCat webhooks keep owners and
\* workspaces together: a purchase, renewal or product change that brings an
\* owner back brings the workspace back in the same commit, and no expiration
\* marks the workspace of an owner who pays.  Only the app's sync and
\* reconcile, which write the owner's row alone, leave a workspace expired
\* under an owner they have brought back.
WebhooksStrandNoWorkspace ==
    [][ \A o \in Owners :
          ~Stranded(o) /\ Stranded(o)' =>
            \E p \in Procs : /\ Commit(p)
                             /\ proc[p].by \in {"sync", "reconcile"}
                             /\ proc[p].user = o ]_vars

\* Whatever the handlers interleave with, each user's committed row moves by
\* one accepted transition at a time, computed from the row it replaces: no
\* update is lost and none is computed from a stale row.
StoreEvents == RcEvents \cup LsEvents
PeriodEnds ==
    0 .. MaxTime \cup {v.periodEnd : v \in RcViews} \cup
        {e.periodEnd : e \in {d \in StoreEvents : "periodEnd" \in DOMAIN d}}
RowEvents ==
    StoreEvents
        \cup [type : {"TRIAL_EXPIRED", "TEAM_MEMBER_REMOVED", "GRACE_EXPIRED",
                      "LS_SUBSCRIPTION_CANCELLED"}]
        \cup [type : {"TEAM_OWNER_EXPIRED"}, memberHasOwnSub : BOOLEAN]
        \cup [type : {"ADMIN_GRANT_PRO"}, plan : {"pro"}]
        \cup [type : {"RC_CANCELLATION", "RC_RENEWAL"}, periodEnd : PeriodEnds]
        \cup [type : {"RC_INITIAL_PURCHASE", "RC_PRODUCT_CHANGE"},
              plan : {v.plan : v \in RcViews}, periodEnd : PeriodEnds]
        \cup [type : {"RC_EXPIRATION", "RC_BILLING_ISSUE"}]
Row(u) == INSTANCE BillingLifecycle WITH row <- billing[u], Events <- RowEvents
RowsImplementLifecycle ==      \* that is, \A u \in Users : Row(u)!Spec
    /\ \A u \in Users : Row(u)!Init
    /\ [][ \A u \in Users : Row(u)!Next \/ UNCHANGED <<billing[u], now>>
         ]_<<billing, now>>

\* Every handler ends, committed or rolled back, also when two owners whose
\* workspaces hold each other expire at once and lock each other's rows.
HandlersFinish ==
    \A p \in Procs : []<>(proc[p].pc = "idle")

\* The webhook's expiration of an organization, seen as one when the row was
\* read, as it is committed.
ExpiresTeam(p) ==
    /\ Commit(p)
    /\ proc[p].by = "webhook_rc" /\ proc[p].event.type = "RC_EXPIRATION"
    /\ proc[p].user \in Owners /\ proc[p].seen.plan = "organization"
    /\ billing'[proc[p].user] # billing[proc[p].user]

\* With it the workspace is marked expired, and nobody of the team is missed,
\* whoever buys, leaves or expires in between: each member found when the row
\* was written, whose own row could be read, was found paying RevenueCat, and
\* keeps the row, or is put into grace, or has no plan to lose.
CascadeComplete ==
    [][ \A p \in Procs : ExpiresTeam(p) =>
          /\ expiredAt'[proc[p].user] # Null
          /\ \A m \in proc[p].roster :
               IF m \in proc[p].own THEN billing'[m] = billing[m]
               ELSE billing[m].plan = "free" \/ billing'[m].state = "grace_team" ]_vars

-----------------------------------------------------------------------------
(* What holds when handlers run one at a time, and is lost when they       *)
(* overlap, because the cascade acts on rows read before the lock.         *)

\* billing.service.ts, of the cascade: a "member with their own active RC sub"
\* has the "snapshot unchanged".
PayingMemberKept ==
    [][ \A u \in Users : HasOwnSub(billing[u]) => billing'[u].state # "grace_team" ]_vars

-----------------------------------------------------------------------------
(* What the comments and the docs say, and the code does not do.           *)

\* user-billing.repository.ts: "writes both the snapshot and an audit row in
\* one transaction", so the last audit row names the state of an unlocked row.
AuditTrailMatches ==
    \A u \in Users : lock[u] = Nobody => audited[u] = billing[u].state

\* infer-rc-event.ts: what a look at RevenueCat makes of an expired plan is "the
\* same event the webhook would produce for the equivalent transition", and an
\* expired organization takes its workspace and its members with it.
ExpirationReachesTeam ==
    [][ \A o \in Owners :
          /\ billing[o].plan = "organization"
          /\ billing[o].state \notin GraceStates
          /\ billing'[o].state = "grace_pro"
          => expiredAt'[o] # Null ]_vars

\* billing.service.ts: the cascade goes "to every ACTIVE workspace member":
\* none of them makes the owner's transaction fail.
CascadeAcceptsEveryMember ==
    \A p \in Procs : proc[p].pc = "member" =>
        ChecksPass(Transition(billing[proc[p].member],
                              [type |-> "TEAM_OWNER_EXPIRED",
                               memberHasOwnSub |-> proc[p].member \in proc[p].own],
                              now))
=============================================================================
