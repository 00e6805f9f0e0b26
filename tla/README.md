# TLA+ models of the SubRadar backend

SubRadar's backend (NestJS, TypeORM on PostgreSQL, Redis, Bull, OpenAI) keeps
track of its users' subscriptions. What it can least afford to get wrong is its
own billing: who has Pro, until when, and what happens to a team when its owner
stops paying. That is decided by webhooks of two stores, five crons and several
endpoints, all of which write the same rows concurrently. Around it are the
services the plan pays for: AI analyses, Gmail import, reports, teams, reminders.
They keep their own rows, locks and quotas, and most of their steps run without
a transaction, on several pods.

## The parts of the system

| part | state it keeps | operations | what is hard about it | module |
|---|---|---|---|---|
| billing state machine (`billing/state-machine`) | none: a reducer from row and event to row, and CHECK constraints in the database | `transition` | the reducer and the constraints were written apart; long sequences of legal events | BillingStateMachine, BillingLifecycle |
| user_billing repository (`user-billing.repository.ts`) | one row per user, audit rows, dead letters | `read` (no lock), `applyTransition` (row lock) | unlocked reads before locked writes; audit rows on another connection | UserBilling |
| store webhooks (`billing.service.ts`, `event-mapper.ts`) | claimed events, `users.downgradedAt` | RevenueCat and Lemon Squeezy handlers, the team cascade | redelivery, crash between claim and processing, transactions that lock several rows, what a failed read of a member does | UserBilling, StoreSync |
| user cancellation, Pro invites | `users.proInviteeEmail` | `cancelSubscription`, `activateProInvite`, `removeProInvite` | decide by one read, act on a later row | UserBilling |
| grace cron (`grace-period.cron.ts`) | none | `resetExpiredGrace`, `cleanupAbandonedWorkspaces` | acts on a list read earlier | UserBilling |
| outbox (`billing/outbox`) | `outbox_events` | `enqueue`, `claimBatch`, `markDone`, `markFailed` | several pods, overlapping ticks, crash with claimed rows | Outbox |
| syncing, hourly reconciliation | none | `syncRevenueCat`, `reconcileRevenueCat`, `findSuspicious`, `reconcileOne` | infers an event from a row and a snapshot that webhooks overtake; writes the row and leaves the workspace; selects rows by SQL, decides by entities | StoreSync, UserBilling |
| effective access (`billing/effective-access`) | a cache per pod, 60 s | `resolve`, `invalidate` | filled from reads older than the invalidation | EffectiveAccess, AccessCache |
| trials (`billing/trials`, `trial-checker.cron.ts`, `reminders.service.ts`) | `user_trials`, `users.trialEndDate` | activate, expire (three crons) | two crons for one expiry; activation by app and webhook | Trials |
| analysis (`analysis/`) | jobs, results, weekly usage | `run`, the Bull processor, weekly cleanup | quota checked at the start and counted at the end; retries, stalls; whole-row saves | AnalysisJobs |
| AI calls (`ai.service.ts`) | slots, queue, token window, a cache | chat, web search, screenshots, voice | a slot taken must be given back on every path; retries | AiGate |
| team workspaces (`workspace.service.ts`) | members, codes, `expiredAt` | create, join, invite, leave, remove, transfer, delete, roles | nothing but joining is locked; whole-row saves | WorkspaceTeam |
| subscriptions (`subscriptions.service.ts`) | the user's subscriptions | create under an advisory lock, update, status, recalculation | limit and duplicates under concurrent calls; dates at month ends | Subscriptions, BillingDates |
| analytics, team spending (`analytics.service.ts`, `workspace.service.ts`, `reports.service.ts`) | none | sums by month, category, card, member | the same money added up in loops of their own | Spend |
| reports (`reports/`) | rows, a PDF in Redis for an hour | ask, build (Bull), download | a stalled job is given to a second worker | Reports |
| authentication (`auth.service.ts`, `users.service.ts`) | users, codes, failure counters | Google, Apple, password, magic link, one-time code, deletion | which account a sign-in finds, makes or links | Accounts |
| exchange rates, catalog (`fx`, `catalog`) | cached rates, services and plans | refresh and lookup under a Redis lock | locks with a TTL, deleted by others than their holder | FxRates, CatalogLookup |
| reminders, digests, notifications | `lastXxxAt` columns, push tokens, suppression list | a cron for each kind of notice, on every pod | two pods at once; a push that fails after its claim | Notices |
| Gmail import (`gmail/`) | tokens, quota, scan lock, jobs, last result | connect, scan, background scan, disconnect | disconnect or reconnect while a scan runs; a lock with a TTL | GmailScan |
| AI quota (`consumeAiRequest`), idempotency keys, receipts, cards, storage, infrastructure | their tables | CRUD | see "Not modelled" | |

They interact through rows. A webhook claims its event, and in one transaction
applies a transition to the user's row, marks the workspace expired or active,
puts its members into grace, and enqueues analytics in the outbox. The outbox
worker sends what was committed. Crons, cancellations and invites apply
transitions to the same rows; effective access reads them, and everything that
has a limit asks it, or one of the two older answers of `BillingService`.

## The modules

**BillingStateMachine** is the pure part: the snapshot, the events, what
`transition` refuses (`Accepts`), one operator per case of its switch, the
five CHECK constraints of migration `1777400000000`, and `InferEvent`, what
`inferEventFromRcSnapshot` makes of a row and a snapshot. `billingPeriod` and
`currentPeriodStart` are left out: nothing decides by them. Time is in days, so
"less than 24 hours apart" is equality; two grace periods started on the same
day are the same.

**BillingLifecycle** is the abstract specification of one row: created free,
moved by accepted events whose result passes the constraints. `ApplyTransition`
lets the reducer's clock be any time up to now, because a transition computed
before midnight may commit after it.

**UserBilling** is the table under concurrent handlers. A process is one call
of a webhook, of `syncRevenueCat` or `reconcileRevenueCat`, a cancellation, an
invite or its revocation, a leave, or the grace cron; its control state `pc` says what it does next. The correspondence:

| code | model |
|---|---|
| `processRevenueCatEvent`, `handleWebhook` | `StartRc`/`StartLs`, `ReadCurrent` (the unlocked `read`), `Apply`, `Commit` |
| `mapLSEventToBillingEvent` | `LsBillingEvent`: the event a delivery stands for, if any |
| `applyTransition` | `Apply`: waits for the row lock, runs the reducer on the committed row, and `Accept`s (write and audit row), `Refuse`s (dead letter) or, if a constraint fails, `Rollback`s |
| `handleTeamOwnerExpiration` | `ReadMember` (unlocked) and `ApplyMember` (locked) per member, in any order; `SkipMember`: a read that fails is caught (`.catch(() => null)`) and the member passed over |
| `syncRevenueCat`, `reconcileRevenueCat` | `StartSync`, `StartReconcile`: from what RevenueCat may answer (`RcViews`) and the row as it was read, one event (`Inferred`), applied to that row in a transaction of its own. Nothing is done about workspace and team; how the answer comes about is `StoreSync`'s |
| `cancelSubscription` | `StartCancel`: the event is chosen by the row as it is then |
| `activateProInvite`, `downgradeInviteeIfEligible` | `StartInvite`, `StartRevoke`: their checks read other rows' columns without locking `user_billing`; that an inviter has one invite at a time is left out |
| `leave`, `removeMember`; `joinByCode` | `StartLeave`: the membership goes first, for good; `Join` |
| `resetExpiredGrace` | `StartGraceCron` (the list is read once), `NextGraceRow` |
| transactions | `writes` (uncommitted rows), `lock`, `Commit`, `Rollback`, `Abort` (any failure at any point), `DeadlockVictim` (PostgreSQL aborts one of a cycle) |

`AuditService.log` and the dead-letter insert use their own connections, so
`audited` and `dlq` change at once and survive a rollback. Any event a store
may send can arrive at any time and any number of times, which covers
redelivery, delay and reordering.

**Outbox** is `outbox_events` with the pods that drain it. A claim takes the
longest overdue rows, at most `BatchSize`; each row gets a task that handles
the event, acknowledges it, or records a failure with a backoff. Updates may
fail, or take effect and be reported as failed; a pod may crash. Times are
relative to the present and rows more than `MaxLate` overdue are not told
apart, which makes the state space finite without stopping the clock.

**StoreSync** is the way from RevenueCat to one user's row. The
row is a behaviour of `BillingLifecycle` (`Life`, with the events that deliveries
carry and inferences make, `RowEvents`). Its environment is
what the code relies on, and external: subscriptions that are bought, changed,
renewed, cancelled, charged in vain, refunded and run out (`AtStore`), and the
event of each, to be delivered any number of times, in any order, or never
(`outgoing`, `Abandon`). A transition, which `UserBilling` takes apart, is one
step here, on the row as it is when it is applied.

| code | model |
|---|---|
| `webhook_events`, `claimWebhookEvent` | `claims`; `Claim`, `Duplicate` (answered 200, whatever the first delivery has come to) |
| `handleRevenueCatWebhook` | `LookUpFails` (answered 200 too), `ApplyEvent`, or `EventFails`/`CommitUnconfirmed`, then `Unclaim` or `UnclaimFails` |
| `fetchRcSubscriberSnapshot`, `inferEventFromRcSnapshot` | `FetchSnapshot`, `PickActive`, `Infer` (`InferEvent` of BillingStateMachine) |
| `syncRevenueCat` | `StartSync` (the snapshot first), `SyncRead` (the row), `ApplyDecided` |
| `reconcileRevenueCat` | `StartReconcile` (the row first), `ReconcileFetch` (the snapshot), `ApplyDecided` |
| `ReconciliationCron`, `findSuspicious`, `reconcileOne` | `StartCron`, `Suspicious`, `ReconcileOne` with `RawUser`, `GetSubscriber`, `Reconciled` |
| a pod that dies, a call to RevenueCat that fails | `Crash` |

That the app sees a difference and calls is the client's doing and enters only
as fairness. RevenueCat's answer keeps an expired subscription with its
billing-issue flag (`over`), which the code takes into account whatever is active;
its other flags the code filters out.

**EffectiveAccess** has the three answers the code gives to "what may this user
use": the resolver's with its banner, and `getEffectiveAccess` and
`getEffectivePlan`, by which the limits still go. It is functions of a row
(`BillingLifecycle`'s), a context (team, trial) and the time; `BillingLifecycle`
takes it in, so that every reachable row is asked.

**AccessCache** is the Map in front of the resolver, one per pod. What an answer
is made of is abstracted to version numbers: of the billing row, which is read
first, and of the rest, which no writer invalidates.

| code | model |
|---|---|
| `resolve` | `Hit`, or `Miss` (which makes `Room`: a tenth goes at `CACHE_MAX`), `ReadRow`, `ReadRest`; the TTL runs from the start of the request |
| `applyTransition` in its own transaction | `TransitionCommits`, then `Invalidate` |
| `applyTransition` in its caller's (`opts.manager`) | `TransitionInCaller` invalidates; `CallerCommits` or `CallerRollsBack` later |
| what changes without telling a cache; a pod that restarts | `RestChanges`; `Restart` |

**AnalysisJobs** is `AnalysisService.run` with the queue behind it. Each step is
one await: the limits are read when a job is asked for and counted when it is
over. A row saved through TypeORM is saved whole (`Save`).

| code | model |
|---|---|
| `run` | `StartRun` (plan, cooldown, weekly limit), `LookForResult` (cached answer), `LookForJob` (one active job), `SaveJob`, `Enqueue`/`EnqueueFails` |
| Bull: attempts, backoff, stalls | `Take`, `JobReturns`, `JobThrows`, `WorkerDies`, `Stalled` |
| `AnalysisProcessor.process` | `UpdateStage`, `AskOpenAI`, `SaveTokens`, `StoreResult`, `Complete`, `StartCount`/`IncrementUsage`; in the catch `SaveFailed` |
| the processor's failure paths | `AnswerUnusable`, `Throws`, `CatchThrows`; an INSERT that took effect and was reported as failed: `StoredUnconfirmed`, `CountedUnconfirmed` |
| the weekly cleanup | `StartCleanup` (one read), `FailStuckJob` (a save per row, as it was read) |

An automatic run is the cron's, or that of a subscription that was just created
(`onSubscriptionChange`), so it may come on any day.

**WorkspaceTeam** is one workspace with its members, codes and the Redis lock of
those who join; a request is one handler call, a step one await. It has
`create`, `invite`, `joinByCode`, `generateInviteCode`, `removeMember`,
`leave`, `deleteWorkspace`, `transferOwnership`, the change of role and the
rename. `UserBilling` has what leaving does to the billing row.

**Subscriptions** is creation under `pg_advisory_xact_lock` (count, duplicate
check, insert), edits, the status endpoints, removal, and the nightly
recalculation that saves entities it loaded earlier. A creation without a billing
period, or with a name of which normalising leaves nothing, is not compared with
other rows (`dedup` is "skipped"). **BillingDates** is
`computeNextPaymentDate`, walked as the code walks and compared with a schedule
defined without a walk, for any integer as billing day: above, `Math.min` cuts it
to the month; below zero `setDate` counts into earlier months (`SetBack`).
**Spend** has the loops that add the same rows up:
`getSummary`, `getMonthly`, `getByCategory`, `getForecast`, `getSavings`,
`getByCard` of analytics, the workspace's totals and lists, the team PDF's; each
rounds to cents where the code does (`RoundCents`), and `getMonthly` has its
boundaries: a month ends at the midnight its last day begins with, and a row
without a start counts from its creation (`Begun`).

**Reports** has the call that asks, the row, Bull's job, and the workers. A
worker whose lock runs out goes on while another starts (`Stalled`).

**Accounts** has each way of signing in (`Google`, `Apple`, `Register`, `Login`,
magic link, one-time code) as lookup, insert, link and answer, with other
requests in between, the lockout counters, and `deleteAccount`. Whether a token
or a password is good is a choice. `Told` is what Apple tells: an address of one
subject only. In the run they are all one subject's.

**AiGate** is one pod's `AiService`: slots and queue with its timers, the window
of booked tokens, retries after a 429, and which calls an operation makes.

**Trials** is `activate` (from the app and from a store's introductory offer),
and the crons that end trials, each as the query and the update behind it.
**FxRates** is the key, the newest snapshot and the refresh under a lock with a
TTL. **CatalogLookup** is `search`, the research under a lock, the transaction
that stores service and plans, and the price refresh: `search` queues one for an
old plan (`lazy`), under an id that Bull keeps until it removes the finished job
(`defaultJobOptions`, `RemoveOnComplete`), so that no other is queued until then;
the weekly cron's ids have the day in them (`weekly`). **GmailScan** is the
connection, the foreground and the background scan, quota, lock, result and the
pointer to the job. **Notices** is one user and every cron that writes to them,
on two pods: read, claim (an UPDATE with a window, which moves `updatedAt`), mail,
push, bounces, and a token that is cleared because a push to it was refused
(`refused`): FCM and Expo refuse those of apps that are gone, and the code takes a
payload or credentials that are refused for the same, so any token may be. Which
crons run and who acts meanwhile is the behaviour's `scene`.

The `MC` modules give the constants values. `MCTeam`, `MCNotices` and
`MCServices` put parts together that share no state: in each behaviour one part
moves and the others stand still, which is what a behaviour of each alone is. So
one run serves several modules, and nothing is concluded from it about how they
act together. The parts that do meet, rows and handlers, stores and requests,
jobs and counters, are in one module each.

The proofs are in `BillingStateMachineProofs` (what the reducer returns),
`BillingLifecycleProofs` (the row and the access it gives), `UserBillingProofs`,
`StoreSyncProofs`, `AnalysisJobsProofs`, `CronProofs` (Outbox, Notices, Trials),
`TeamProofs` (WorkspaceTeam, AiGate, Reports, Accounts, Spend) and `ServicesProofs`
(AccessCache, CatalogLookup, Subscriptions, GmailScan, BillingDates).
Definitions introduced by a comment "Mutation" are plausible mistakes in the
definition that follows them. Nothing uses them; each is put in the place of the
right definition to see that a property notices.

## The runs

| run | asks | bounds |
|---|---|---|
| `lifecycle` | does one row stay consistent under every event in every order, which events do the constraints reject, and do access and banner follow the row | every event type, both plans, two period ends (within and beyond the day), grace of 2 days, 3 days: each grace can start, run and end |
| `user_billing` | do locks make each row behave like `BillingLifecycle` when handlers overlap; is the cascade complete; who may leave a workspace expired under a paying owner; do handlers end | two users, each a member of the other's workspace (the case in which cascades deadlock), two processes, four handlers (purchase, expiration, the app's sync or reconcile, and one more), times 0 and 1; RevenueCat sends purchase and expiration of a team, and its answer is that team, active. No grace ends within that time: the grace cron is in the sequential run and in the proofs |
| `user_billing_sequential` | are payers spared by what the cascade decides, when handlers do not overlap | one process, both stores with renewals, refunds, billing issues, cancellations, sync and reconcile, invites, the grace cron, four handlers, 2 days |
| `outbox` | is an event handled by one task at a time, settled, and given up correctly | three events, two pods, batches of two (so that a row can be left over), two attempts, crashes and failing updates |
| `store_sync` | is an event processed once, whatever is repeated, fails or crashes; is what webhooks, calls and crons make of the row what `BillingLifecycle` lets it be | one plan, two pods (two deliveries at once), two events, two failures (a transaction and the deletion of its claim), 3 days: grace starts and ends |
| `store_sync_app` | do the app's calls repair whatever webhooks do | two plans that replace each other, one slot (what is read may be old when it is used: other events pass between any two steps), three events, two days; a lost webhook is one that is abandoned |
| `analysis` | is each analysis taken off a week covered by a result of its own, how often is one job charged, is a completed job's result there, does every job end | one caller and two jobs, which suffice for a job to be overtaken by the next and by the cleanup; app and cron; the last of the four stages; weekly limit 1, so that two jobs reach it; one change of week; two attempts, one stall, one fault of each kind for the first job |
| `team` | is the workspace within its limit, a code used once; do the sums agree and stay for past months; are AI slots accounted for; has a READY report its PDF; does an Apple user keep the account | three users, two requests, two codes, limit 2 (reached by one join), one fault, joins that end within the lock's ten seconds; of `Spend`, as "spend" two bills of one payer without a start, in two currencies, two categories and the periods quarterly and lifetime, and as "months" one bill with a start, or none, in months of two days on days 1 to 5, so that creation, start and cancellation fall on a month's last day and on others (one price, which does not divide by three, so that rounding shows); three accounts, one address, one Apple subject, two sign-ins; two AI calls for one slot, a budget that one fills; one report, two callers, two workers, one stall |
| `notices` | is a notice sent once per window, a trial's announcement once; does a token survive that nobody has refused; is who left nudged; do rates recover | two pods, a cycle of two days, two tokens, seven scenes of who acts and which crons run; two trial requests and two cron runs; two callers of the rates |
| `services` | are answers fresh, is research kept, do creations fit, is the next date right, do scans keep within the quota | one pod, two users, two requests, TTL 1 and a cache of one entry (so that it evicts); two searches, two slugs; two creations, limits 1 and 2, three rows; starts on the 1st, 28th and 31st in months of both lengths, billing days none, 15, 31, 40 and -1, today in each month from the first January to the second February; two scans, two grants, quota 1. Scans and grants are symmetric, and the run has invariants only |
| `paying_member` | violation: a payer is put into team grace | two processes, three handlers |
| `ai_slots` | violation: requests queue although nobody is at OpenAI | three requests, two slots |

The properties, by hazard:

* *Lost update.* `RowsImplementLifecycle`: every user's committed row is a
  behaviour of `BillingLifecycle`, whoever else writes it (written as initial
  condition and box formula for each user, since TLC does not take
  `\A u \in Users : Row(u)!Spec`). `RowFollowsLifecycle` says the same of the row
  that `StoreSync` writes: events that are late, repeated, inferred from a snapshot
  or decided on an older row are among those of the lifecycle, so no
  constraint refuses anything it does.
* *Reducer against constraints.* `RejectionsAreKnown` lists the events that
  the reducer accepts and the database rejects. `MarkersAgree` relates the
  columns that banners and access are decided by.
* *Access.* `AnswersFit`: banner and limits follow the row; `AccessEndsOnPurpose`:
  paid access goes with a refund, an expiration or the end of a period only.
  `AnswersAreFresh`: a cached answer is stale for one TTL at most.
* *Redelivery and late timers.* `RedeliveryIsIdempotent`,
  `PaidPlanEndsOnPurpose`.
* *Team cascade.* `CascadeComplete`: the commit of a webhook's expiration misses
  none of the members it found and could read, whatever overlaps.
  `WebhooksStrandNoWorkspace`: only the app's sync and reconcile bring an owner
  back and leave the workspace expired. `PayingMemberKept` (without overlap; see
  the run `paying_member`), `HandlersFinish`.
* *Deliveries.* `ExclusiveProcessing`, `AppliedOnce`; that an event may be lost
  altogether is a fact (below), and `EventuallyAgrees` says what makes up for
  it: after the calls of the app, the row gives what RevenueCat gives.
* *Outbox.* `ExclusiveHandling`, `OutcomesHold`, `FailedIsFinal`,
  `SettledUnlessStranded`.
* *Check here, count there.* `NeverOvercharged` (per week, by the history
  `stored` of the results and the week each was counted in; and a job is charged
  once, and again only for a stall of its worker or a count that was saved and
  reported as failed), `NoOverfill`, `CreationsFit`,
  `ScansWithinQuota`, `CodesAreSingleUse`.
* *Whole-row saves, retries and stalls.* `CompletedHasResult`, `JobsSettle`,
  `ReadyHasPdf`.
* *Locks with a TTL.* `ResearchPaysOff` (how many ask the AI at once, and how many
  ask again for what is stored), `RatesRecover`.
* *Several pods, one user.* `NoticesSpaced`, `TrialAnnouncedOnce`,
  `OnlyRefusedCleared`, `NudgedWhenQuiet`, `AppleUserKeepsAccount`.
* *One thing computed in several places.* `TotalsAddUp`, `PastSpendKept`,
  `NextIsTheFirstAfterToday`, `SlotsAreAccounted`.

Deadlock is checked where the system goes on for ever: `lifecycle`, `outbox`,
`notices`. The other runs bound what is started (handlers, jobs, requests,
the store's events), so every behaviour ends.

### Fairness

`UserBilling!FairSpec`: a handler that can take a step takes one (the event
loop runs; a handler that fails ends as well), and PostgreSQL's deadlock
detector resolves every cycle. No fairness on starting, failing or joining.
`Outbox!FairSpec`: some pod's cron keeps firing, a handler returns or throws
(`Promise.allSettled` waits for nothing else), and time passes. No fairness on
success: handlers may fail every time, and faults may or may not happen.
`StoreSync!FairSpec`: a request that can proceed does (the event loop runs), and
while row and RevenueCat disagree the app calls `sync-revenuecat` and `reconcile`
again and again (the comment on `reconcileRevenueCat`: "Used when the mobile
client notices a drift"). This is strong fairness, because the slot may be busy
whenever the app would call. Nothing is assumed of webhooks, crons or the store.
`AnalysisJobs!FairSpec`: calls and workers get on, Bull looks for stalled jobs,
the cleanup comes every week, time passes. Nothing is assumed of success.
`Notices!Fairness`: time passes, runs get on, the win-back cron starts and its
push is delivered at last, since FCM is asked again every day; likewise
`FxRates!Fairness`: calls go on, both TTLs run out, and the providers answer at
last. Without the last assumption neither property can hold. `NudgedWhenQuiet`
has a premise besides, of what a user's subscriptions ask for and not of the
scheduler: there is, again and again, an afternoon of a cycle in which no other
cron has claimed a notice (`QuietAfternoon`). The scenes with the weekly digest and
with the reminders each have behaviours with such afternoons and without.

`EventuallyAgrees` excepts a user with a subscription that is cancelled or has a
billing issue: see `AnyEntitlementRestores` below, and next to it, an
unsubscribed user with a billing issue alternates between two states at each
call.

## What the code does not do

Two runs expect a violation:

* `paying_member`: `memberHasOwnSub` is computed from an unlocked read and used
  under the lock; a purchase in between ends in team grace.
* `ai_slots`: `wizardWithWebSearch` takes a slot and gives it back on no path.
  Three web searches, and every AI call of the pod waits 30 s and fails.

The configurations below are not runs; each states a sentence of the repository
and TLC finds it violated (`tlc -config <file> <module>`).

| configuration | module, property | what happens |
|---|---|---|
| `FindingMemberRejected` | MCUserBilling, `CascadeAcceptsEveryMember` (billing.service.ts:214) | `TEAM_OWNER_EXPIRED` keeps `cancelAtPeriodEnd` and a NULL source, which the constraints forbid in `grace_team`. One such member rolls the owner's expiration back at every redelivery, so the owner keeps the plan |
| `FindingMemberRejected` with `-continue` | MCUserBilling, `AuditTrailMatches` (user-billing.repository.ts:46) | audit rows are written on their own connection, not "in one transaction": that rollback leaves them behind |
| `FindingReconcileCascade` | MCUserBilling, `ExpirationReachesTeam` (infer-rc-event.ts:79) | `reconcileRevenueCat` infers `RC_EXPIRATION`, "the same event the webhook would produce", and applies it to the owner alone: the workspace is not marked and no member gets grace |
| `FindingOutboxCrash` | Outbox, `EventuallySettled` (outbox.service.ts:11) | nothing takes rows out of `processing` after a crash |
| `FindingCancelledEntitlement` | StoreSync, `AnyEntitlementRestores` (infer-rc-event.ts:114) | the inference asks whether anything is cancelled before it asks whether the row is free or in grace. Restore brings nothing back until the next renewal, which will not come |
| `FindingReconciliationCron` | StoreSync, `CronRepairsDrift` (reconciliation.service.ts:27) | `findSuspicious` returns raw `users` rows, without the billing columns a migration has moved away; the cron never changes a row |
| `FindingInvitedPro` | MCBillingLifecycle, `GrantIsServed` | a Pro by invitation or grant has no billing source, and the resolver takes a row without one for unpaid: it answers free |
| `FindingOwnership` | WorkspaceTeam, `OwnershipInSync` (transferOwnership's comment) | the member to be promoted leaves between two steps of the transfer, which goes on: the workspace has an owner without a row, and the old one is ADMIN |
| `FindingRestored` | Subscriptions, `CancelledUntilRestored` (`VALID_STATUS_TRANSITIONS`) | the recalculation saves the status it loaded over a cancellation |
| `FindingWinBack` | MCNotices, `InactiveAreNudged` (sendWinBackPush) | `updatedAt` stands for activity, and the crons' own updates move it |
| `FindingTrialMark` | Trials, `EndedTrialIsMarked` (trial-checker.cron.ts:227, 256) | the hourly cron clears `trialEndDate` before the daily one sets `downgradedAt`, so no notice goes out |
| `FindingTeamPdf` | Spend, `TeamPdfAgrees` (reports.service.ts:1507) | PATCH back to ACTIVE keeps `cancelledAt`; the PDF leaves such a row out, the screen counts it |
| `FindingSecondAccount` | MCTeam, `AppleUserHasOneAccount` (auth.service.ts:370) | an account made with Google is not linked by an Apple sign-in, so the next one, without an address, makes another |

Seen while modelling, and neither runs nor configurations:

*Billing.* `syncRevenueCat` and `reconcileRevenueCat` bring an owner back without
the workspace: it stays marked expired, and `cleanupAbandonedWorkspaces`
(grace-period.cron.ts:54) deletes it after thirty days. A webhook's analytics event
names the state it read before the lock. A cascade that cannot read a member's row
passes the member over. `ADMIN_GRANT_PRO` and the Lemon Squeezy purchase keep `refundedAt`,
which `types.ts` says is cleared on any way back to active; a billing issue
keeps the cancel flag, which the comment on `RC_UNCANCELLATION` excludes; a
`TEAM_*` event during grace starts its seven days again; a member who pays
through Lemon Squeezy counts as not paying; members who live on the team's plan
have free rows, which get no grace although `wiki/pages/billing-module.md` says
all members do; `deleteWorkspace` applies no `TEAM_MEMBER_REMOVED`, as `leave`
and `removeMember` do; a Lemon Squeezy update with status cancelled or expired
for an unknown variant brings no event. Of deliveries: a failed query of the user
(`catch(() => null)`)
is answered 200 and the event lost; so is one whose pod dies after the claim, or
whose duplicate is answered before the first delivery fails; an INITIAL_PURCHASE
that comes late, after a refund, brings the plan back until the next call.
`reconcileRevenueCat` ends for rows without a source, free ones among them,
although its comment says they are looked at. With a cancelled Team next to a
Pro that renews, the global cancel flag cancels Pro. `findSuspicious` looks for
claims with errors, which the webhook has just deleted. `claimBatch`
(outbox.service.ts:56) takes what `query('UPDATE ... RETURNING')` answers for the
rows, and the model with it; TypeORM's Postgres driver may answer with a pair of
rows and count.

*Access.* The three answers disagree: one who pays through Lemon Squeezy is free
to `getEffectiveAccess`; a grace that is over, a cancelled period that is over
and an admin's grant are seen by some only; a Pro invitee who owns a workspace is
served `organization`; a trial in `user_trials` is known to the resolver alone.
The Map grows beyond `CACHE_MAX` by the requests under way; an invalidation
comes before its caller's commit and reaches its own pod only.

*Analysis and AI.* The manual cooldown never refuses what the weekly limit
allows; `run` asks `getUserPlan`, `canRunManual` and `getUsageStats` ask
`getUserPlanById`; a second job can be made in the retry window of the first and
for another locale, so the weekly limit can be passed (`NeverOvercharged` is the
other direction); a job tried again may store, pay and be
charged twice, although processor.ts:400 says that failed runs shouldn't punish the
user's allowance (a worker that dies between the count and the acknowledgement, or a count
that was saved and reported as failed; `NeverOvercharged` bounds it by these); the
cleanup may save FAILED over a job that has completed meanwhile; tokens of
unusable answers are not recorded. A chat that is tried again is booked twice in
the window (against the comment at ai.service.ts:265); screenshots,
transcriptions and web searches are not booked.

*Teams, subscriptions, money.* `invalidateAnalyticsCache` has no callers, so the
team screen may be five minutes old. A change of role, a rename or a transfer
brings back a deleted row or the old owner. An owner can remove the own row. A
restore and a change of status pass limit, lock and duplicate check; PATCH takes
a status, POST any. Without a billing day the day drifts down after a short
month; a billing day before the day of the start can give a date before the
start. The DTO (create-subscription.dto.ts:42) bounds no billing day: with one below
zero and monthly billing each step of the walk takes back the month it advances, so
that the loop of `computeNextPaymentDate`, "Walk forward until we land strictly in the future",
does not end and holds the pod. Two live rows may share a key when the request
named no billing period, which the table takes for MONTHLY. A month's bar ends with
the midnight its last day begins with, so what is created without a start on that
day is in no bar until the next month. Months keep what PATCH has cancelled; PATCH back to active keeps
`cancelledAt`, so the PDF leaves the row out; currencies without a rate count 0
in analytics and at face value in workspace and PDF; `pdfSummary` adds up every
status.

*Reports, mail, notices.* Reports are counted, then saved, so a free user gets
more than the one a month of `wiki/pages/reports-module.md:60` by two calls at
once. A crash before `queue.add` leaves a report PENDING for
ever; a stalled job sets a READY one back. Two scans run at once when the lock's
minute is over; a scan of the old mailbox that is under way stores its result
after the eviction of a reconnect (`handleCallback`); `clearGmailCredentials` may clear a new connection; the lock is
deleted whoever holds it; a failed INCR lets a scan go uncharged. The monthly
report has no claim (comment monthly-report.service.ts:69), nor have
`checkExpiringTrials` and `warnExpiringProTrials`; a claimed reminder whose
sending fails is not tried again when `reminderDaysBefore` is `[1, 3]`. A push that
FCM refuses for its payload ("invalid-argument"), or Expo for the server's
credentials, takes a live token away. Every claim moves `updatedAt`, by which
win-back finds who is gone: whoever gets a reminder or a digest each week is never
nudged.

*Trials, rates, catalog, accounts.* The daily cron marks and tells a user who
has just bought; the crons do not end old trials of Lemon Squeezy's customers;
the audit row is written outside the transaction (comment trials.service.ts:32);
`FOR UPDATE` of a row that does not exist locks nothing. The rates' key can go
back to older rates; callers without the lock fetch all the same. When the AI
names a service by another slug than the query, every search researches it again,
is paid for, and fails on the unique index; a refresh that `search` queued and that
brought no price blocks another for as long as Bull keeps its job (a day, or the last
hundred); a service answered without plans is never
researched again, nor another region of a known one; `getPopular` caches prices
unconverted for an hour when the rates fail. `undefined` in an `update` never
clears a column, so a magic link works until it expires. Two overlapping Apple
sign-ins can make two accounts, since `providerSubHash` is indexed but not
unique: the run assumes they do not overlap. `deleteAccount` is not one
transaction.

## The proofs

What TLC checks for small sets is proved for all values of the constants.

* **BillingStateMachineProofs.** Lemmas about the reducer: the fields each event
  carries, and `TransitionType`: snapshots are mapped to snapshots.
* **BillingLifecycleProofs.** The type invariant (`TypeCorrect`) follows from
  `TransitionType`. The inductive invariant `RowInv` adds the constraints and the
  column facts: an accepted step re-establishes `ChecksPass` because the
  constraints are evaluated on its result, and each column fact is preserved by
  each event, case by case. From it follow `Markers`, `OnlyKnownRejections` (the
  listed events are exactly the rejected ones in every reachable row),
  `RedeliverySafe` and `PaidPlanSafe`; and, with the resolver of access,
  `AnswersAlwaysFit` and `AccessSafe`. The last rests on `ServedAlone`, the cases
  in which a user on their own is served nothing paid, and on `EndsOnPurpose`,
  which goes through the events that lead into them.
* **UserBillingProofs.** `NoLostUpdate`: uncommitted rows are locked rows.
  `TableImplementsLifecycle`: for any number of users, handlers and teams, each
  committed row is a behaviour of `BillingLifecycle`. `WritesUnderLock` alone
  does not carry this: a commit installs a row computed some steps earlier.
  `TableInv` therefore says of every uncommitted row that it is one accepted
  transition, at some time up to now, away from the committed row
  (`WritesAreTransitions`); this stays true because the lock keeps every other
  handler from committing that row in between. It also says that handlers know
  their user and event (`HandlersAimed`) and that period ends come from events
  or the clock (`PeriodsKnown`, which the abstract row's events need for the
  user's own cancellation). `SameReducer` relates the reducer of the instance
  `Row(u)` to the module's own.
  A row that the app's calls write follows from an event the lifecycle knows as well
  (`LooksInfer`, `InferredKnown`).
  `WorkspaceInv` adds what a handler has done and means to do to a workspace and its
  team, steps before it commits (`Fits`): a workspace is to be marked expired only by
  RevenueCat's webhook and with a lapsed row of the owner; an uncommitted row that
  pays again comes with the workspace's return, unless sync or reconcile wrote it; and
  of an expiring team each member the cascade is done with is dealt with (`Handled`:
  found paying and left alone, or in grace, or without a plan). All of it compares
  uncommitted rows with committed ones that others may replace in between. They
  cannot: what a handler has written it has locked (`FitsStays`). From it follow
  `WebhooksKeepWorkspaces` and `CascadeIsComplete`, overlap or not.
* **StoreSyncProofs.** `SyncInv`: a request processes its event under a claim
  (`ServedIsClaimed`), and an event that has changed the row keeps its claim and
  is served by nobody, unless its commit was not confirmed (`AppliedIsDone`).
  The second is what makes `AppliedOnce` inductive: a claim is deleted only by
  the request that serves its event, and only when that has not changed the row
  for certain. From it follow `OneDelivery` and `Once`.
  `RowFollows`: the row implements `BillingLifecycle`, a step here being one of its
  or a stutter. `LifeInv` says what the events in the model are made of: the period
  ends of the store and of every snapshot a request holds are dates the lifecycle
  knows (`EndsFit`, `RequestFits`), so that an event delivered late, or inferred
  (`InferFits`) from a snapshot that others have overtaken, is one of its events
  (`RowEventsTyped`); and the row fits the reducer (`RowFits`). `ResultIsLife` turns
  a write into the abstract transition, `SnapshotsFit` carries the invariant over
  `FetchSnapshot`. `BillingLifecycle`'s theorems therefore hold of this row as well.
* **AnalysisJobsProofs.** `JobsInv`: every version of a row, in the table, held by
  a run or read by the cleanup, says of results only what is true (`EarnedRows`,
  `RunsKnow`). Results stored for a job are counted and never uncounted, so what a
  version says stays true, and it may be saved whole however late and over
  whatever: this is why the lost updates among attempt, stalled attempt and
  cleanup do not make a job read `COMPLETED` without a result. For the types,
  a saved row is queued by the one call that saved it (`CallersKnow`), a run's
  entry is active (`RunsKnow`) and one that is not over has attempts left
  (`QueueKnows`). `JobsTyped` and `CompletedWork` follow.
  `ChargeInv` is about usage rows: one in the table, or read however long ago,
  counts no more than the results marked in that week by now (`Within`), and a run
  about to count has a last result that is not counted (`RunCharged`). Marks only
  grow, which carries the rows read long ago. `AllBorne` is about one job: what it was
  charged for is no more than its stalls and the counts reported as failed, but for one
  charge that its run (or what a dead worker left) has still to answer for (`Slack`):
  a retry after a charge costs a stall or an unconfirmed count. `NothingOvercharged`
  follows from both.
* **ServicesProofs.** Five parts of `MCServices`.
  *AccessCache*, `Inv`: what is current has not been replaced
  (`CurrentNotReplaced`); what an entry was computed from was current when its
  request came, which is one TTL before it expires (`EntriesFresh`); what a
  request has read so far was current when it came or later (`RequestsFresh`).
  The second carries an entry over any time it is kept, and any interleaving with
  writers, since an entry is served only until it expires; the third carries it
  over the computation, in which the row is read first and may be replaced before
  the rest is read. `Freshness` follows, and does not use a single invalidation:
  the TTL alone gives it. An entry whose TTL ran from the end of the computation
  would break it.
  *CatalogLookup*, `ResearchInv`: of the searches that may store a service, those
  without the lock are bounded by the expiries of the lock (`FewWithoutLock`); and of
  those that may ask again for what is stored, each has looked before it was: with
  the ones that have asked they stay fewer than the searches (`FewAgain`). The
  refreshes leave the plans there are (`Refreshes`). `ResearchAlwaysPaysOff` follows.
  *Subscriptions*, `CreationInv`: whoever is between its checks and its INSERT has
  the user's lock, and what it has counted, and compared unless it skips that, is
  what there is (`LockInv`); `CreationsAlwaysFit` follows, whatever updates and
  deletions do.
  *GmailScan*, `QuotaInv`: the counter is no less than the slots taken and the
  refusals under way together, and a slot is given back before its scan ends or
  never; `QuotaHolds` follows.
  *BillingDates*, `WalkInv`: the walk stands on a date of the schedule, and the one
  before it is not after today (`OnSchedule`); in weeks it has left the start by
  sevens (`ByWeeks`). The first rests on `DayOfNext`: cutting the day month by month,
  as the code does, gives the least of the lengths of the months on the way; the
  second on days being counted in order (`OrdinalsInOrder`, from the calendar's
  table by `DaysBeforeGrows`). `NextDateIsRight` follows for any start, today and
  billing day; of a billing day below zero (`Backwards`) it says no more than that a
  date on which the walk ends is after today.
* **TeamProofs.** Four parts of `MCTeam`.
  *WorkspaceTeam*, `TeamInv`: a code has let in one member at most, and then is used or
  over (`CodesFit`); a request between its lock and its INSERT has the lock, room in
  the team and a code that has let nobody in (`Fits`), which needs joins to end
  within their lock (`~SlowJoins`); a row has the same status in the table and in
  whatever was read of it, so that a late save makes no member of a row that was
  none (`ViewsAgree`); and until the owner's row is there nobody joins (`NewFits`). `TeamIsNeverOverfilled` and `InviteCodesAreSingleUse` follow.
  *AiGate*, `GateInv`: `active` counts the holders and the slots that were never
  given back, the queue holds each waiting request once, and it is empty unless
  all slots are taken; `SlotsAlwaysAccounted` follows.
  *Reports*, `ReadyInv`: a worker about to mark a report `READY` has stored its
  PDF, and nothing puts a PDF back to "none", only to "expired". So `READY` is
  earned by whichever worker writes it last (`ReadyReports`), although several
  workers on one report are not excluded.
  *Spend*, `MoneyInv`: `TypeOK`, and no row was made after today (`MadeBefore`); the
  rest is what sums are. The
  fold of the library takes elements as `CHOOSE` gives them; that there is such a
  function, and one only (`SumsExist`, `SumsAgree`), and that the order does not
  matter (`SumFromAny`), is shown on a smallest set of which it fails
  (`LeastSubset`), which needs no induction theorem. Then two parts add up to the
  whole (`SumOfParts`), so do the parts that a key tells apart (`SumByKey`),
  smaller values add up to no more (`SumOfLess`), and values that are each near
  another to sums that are near, half a cent for each (`Rounding`, `SumNear`).
  `TotalsAlwaysAddUp` follows: categories
  by `SumByKey`, cards by `SumOfParts`, savings by `SumOfLess`. `PastSpendIsKept`
  follows from what a change of status does to the rows of a month
  (`StatusKeepsPast`: none of them leaves it) and what a new row does
  (`CreationKeepsPast`). Both are theorems about `Spend`'s own specification, with
  time, starts and statuses together; the run splits them into its two parts.
* **CronProofs.** Outbox, and two parts of `MCNotices`.
  *Outbox*, `OutboxInv`: a task's attempts are those of its row and below
  `MaxAttempts`; its row is `processing`, or `done` when the acknowledgement took
  effect and its answer was lost; a task that acknowledges has delivered. The
  attempts are what makes it inductive: `markFailed` writes `event.attempts + 1`
  without looking at the row. From it follow `Exclusive`, `OutcomesAreTrue` and
  `GivenUpForGood`.
  *Notices*, `NoticesInv`: a kind's last claim is no older than its last notice
  (`ClaimBeforeNotice`), whoever writes has claimed in this half-day
  (`WritersClaimed`), so that nobody else can, and a token about to be
  cleared has been refused (`ClearedIsRefused`). `NoticesAreSpaced` and
  `OnlyRefusedAreCleared` follow.
  *Trials*, `TrialsInv`: an activation that has inserted its row is the only one,
  no row is committed meanwhile, and it queues one event (`InsertedAlone`);
  `TrialsAnnouncedOnce` follows.

The assumptions are those named in the modules: `Null` is no value of any column
and no row (`NullIsNoRow`), the grace period is positive, events are events of
the state machine, each store sends only its own event types (`RcTypes`,
`LsTypes`), batch size and attempts are positive, an analysis has stages and is
asked for with an input (`AnalysisConstants`), a pod serves finitely many AI
calls at once (`AiConstants`), the tables of `Spend` are finite and its periods
those of the enum (`SpendConstants`, stated of its instance by `MoneyFits`), and
the sets of `MCServices` are finite with their bounds natural numbers, its dates
days of a month, its months counted from 1 and its billing days integers
(`ServicesConstants`). `NoticesConstants` (a cycle of two days or
more; "no token" and "never" are neither a token nor an age) is a hypothesis of
its theorems, and TLC evaluates it for the values of the run (`GoodConstants` of
`MCNotices`). `~SlowJoins` is a hypothesis of the two theorems about joining; without
it two may take the last seat, or use one code. `AccountsConstants` (above all: Apple tells an address of
one subject only) is an assumption of the run only (`AccountsFit` of `MCTeam`).

Only model-checked:

* the liveness properties `HandlersFinish`, `SettledUnlessStranded`,
  `EventuallyAgrees`, `JobsSettle`, `NudgedWhenQuiet` and `RatesRecover`,
  which the prover cannot do;
* `PayingMemberKept` and `AppleUserKeepsAccount`. They hold when handlers, or a
  user's sign-ins, do not overlap, which nothing in the code sees to; the run
  `paying_member` and `FindingSecondAccount` show more of what is behind them. Every
  other invariant and action property of the runs that pass is a theorem's, and so
  are both refinements;
* the type invariants of the modules other than `BillingLifecycle`,
  `AnalysisJobs`, `AccessCache`, `WorkspaceTeam` and `Notices` are stated in the
  modules and not part of the runs; the inductive invariants have of them what
  they use.

## What is not modelled, and why

Sending mail and push, calls to OpenAI, Google and the stores, templates,
translations, PDF layout, the reading of mail and the prompts are I/O or data;
where one of them decides a next step (a failure, an unusable answer, a token
that is dead) it is a choice in the model. Receipts, payment cards, storage and
the profile are CRUD on rows of one user with no protocol between actors.
`common` is guards, logging, alerts and health checks.

* `consumeAiRequest` reads, compares and writes without a lock: overlapping calls
  lose updates, and there is no property it keeps that they could break.
* The idempotency service is used by no controller.
* `cleanupAbandonedWorkspaces`, the bookkeeping of an invite on `users`, the
  refund's push, the claim of Lemon Squeezy's deliveries (which is that of
  RevenueCat's), the rotation of refresh tokens (of two refreshes with one token
  the later write wins), `mergeJobProgress`, the five-minute caches of analytics
  and the list of popular services.
* Left to the reader of the code: `activateProInvite` and a webhook take `users`
  and `user_billing` in opposite orders, which PostgreSQL resolves as it does in
  `UserBilling`; a crash between the deletion of a membership and its transition
  leaves the plan; the invitee of a Lemon Squeezy inviter is revoked after the
  commit, in a second transaction; a row whose transition throws ends the grace
  cron's loop; a slow live worker of an analysis whose job Bull takes for stalled
  goes on next to the second one (in `AnalysisJobs` a stalled worker is a dead one;
  `Reports` has both at work).

Assumed in the models: a mail or push is sent within half a day; joins end within
their lock's ten seconds (`SlowJoins`); of what the SQL selects, the models have
the rows of one user, one team or one workspace; time is in days, half-days or
ticks as each module says. What TLC shows, it shows for the bounds above.
