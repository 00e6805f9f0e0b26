----------------------------- MODULE MCNotices -----------------------------
(* Notices, Trials and FxRates, one at a time: they share no row or key    *)
(* that another of them decides from, so a behaviour in which they mix     *)
(* shows nothing that one of them does not show alone.                     *)

CONSTANTS CronPods, Days, Tokens, None, Never, Scenes,
          Requests, CronRuns, Callers, Nobody

VARIABLES part,   \* the one that moves
          scene, half, row, suppressed, dead, refused, run, ago, presence,
          billing, trial, used, legacyEnd, customer, downgraded, announced,
          audited, act, cron,
          snapshot, key, lock, caller
notices == <<scene, half, row, suppressed, dead, refused, run, ago, presence>>
rates == <<snapshot, key, lock, caller>>
trials == <<billing, trial, used, legacyEnd, customer, downgraded, announced,
            audited, act, cron>>

\* Every kind of notice, with what it may run into.  A user who leaves does so
\* among a daily and a weekly cron whose claims move the updatedAt that a third
\* one reads.
Scene(crons, acts) == [crons |-> crons, acts |-> acts]
MCScenes == {Scene({"weekly", "winBack"}, {"settings", "leave"}),
             Scene({"reminders", "winBack"}, {"leave"}),
             Scene({"reminders"}, {"token", "crash"}),
             Scene({"pro", "proEmail"}, {}),
             Scene({"digest", "monthly"}, {"bounce", "crash"}),
             Scene({"trial"}, {"token", "crash"}),
             Scene({"subTrial", "proTrial"}, {})}

Note == INSTANCE Notices WITH Pods <- CronPods
Try == INSTANCE Trials
Fx == INSTANCE FxRates

ASSUME GoodConstants == Note!NoticesConstants

\* The parts that stand still do so in one state.
MCInit ==
    /\ part \in {"notices", "trials", "rates"}
    /\ Note!Init /\ Try!Init /\ Fx!Init
    /\ part # "trials" => ~used /\ ~customer
    /\ part # "notices" =>
          scene.crons = {"trial"} /\ row.weekly /\ row.token = CHOOSE t \in Tokens : TRUE

NoticesNext == part = "notices" /\ Note!Next /\ UNCHANGED <<part, trials, rates>>
TrialsNext == part = "trials" /\ Try!Next /\ UNCHANGED <<part, notices, rates>>
RatesNext == part = "rates" /\ Fx!Next /\ UNCHANGED <<part, notices, trials>>
MCNext == NoticesNext \/ TrialsNext \/ RatesNext

\* The fairness of Notices and of FxRates.  part never changes, so that a
\* condition on "one's action or the other's" is the condition on the action of
\* the one that moves.
MCSpec ==
    /\ MCInit /\ [][MCNext]_<<part, notices, trials, rates>>
    /\ WF_<<notices, rates>>(
          \/ part = "notices" /\ UNCHANGED rates /\ \E p \in CronPods : Note!Step(p)
          \/ part = "rates" /\ UNCHANGED notices /\ \E c \in Callers : Fx!GetRates(c) \/ Fx!Step(c))
    /\ SF_<<notices, rates>>(
          \/ part = "notices" /\ UNCHANGED rates /\ Note!Tick
          \/ part = "rates" /\ UNCHANGED notices /\ \E c \in Callers : Fx!ReadTable(c))
    /\ SF_<<notices, rates>>(
          \/ part = "notices" /\ UNCHANGED rates /\ \E p \in CronPods : Note!Start(p, "winBack")
          \/ part = "rates" /\ UNCHANGED notices /\ \E c \in Callers : Fx!Cache(c))
    /\ SF_<<notices, rates>>(
          \/ part = "notices" /\ UNCHANGED rates /\ \E p \in CronPods : Note!Nudge(p)
          \/ part = "rates" /\ UNCHANGED notices /\ \E c \in Callers : Fx!AcquireLock(c) /\ lock' = c)
    /\ SF_rates(part = "rates" /\ \E c \in Callers : Fx!Fetch(c))
    /\ WF_rates(part = "rates" /\ Fx!KeyExpires)
    /\ WF_rates(part = "rates" /\ Fx!LockExpires)

\* As in Notices.
NoticesSpaced == Note!NoticesSpaced
OnlyRefusedCleared == Note!OnlyRefusedCleared
NudgedWhenQuiet == Note!NudgedWhenQuiet
InactiveAreNudged == Note!InactiveAreNudged

\* As in Trials.
TrialAnnouncedOnce == Try!TrialAnnouncedOnce

\* As in FxRates.
RatesRecover == Fx!RatesRecover
=============================================================================
