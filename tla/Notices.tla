------------------------------ MODULE Notices ------------------------------
(***************************************************************************)
(* The hourly, weekly and monthly crons that write to a user, and what the *)
(* user, the push service and the mail provider do meanwhile.  Every pod   *)
(* runs every cron; a run reads the user's row, decides from it, claims    *)
(* the notice by an UPDATE of a lastXxxAt column, and sends it.            *)
(*                                                                         *)
(* One user.  Time is counted in half-days of a cycle of Days days: the    *)
(* week, and for the report the month.  Day 0 is the Sunday, or the 1st.   *)
(* A run is over within its half-day, so a window of 20 hours refuses the  *)
(* half-day of the last claim and the next.  Ages of claims are relative   *)
(* to the present and not told apart once they are past every window.      *)
(***************************************************************************)
EXTENDS Naturals, FiniteSets

CONSTANTS Pods,     \* whoever runs a cron: a pod, or its successor
          Days,     \* days in a cycle, two at least
          Tokens,   \* push tokens
          None,     \* no token
          Never,    \* the age of what has not happened
          Scenes    \* the crons that run in a behaviour, and what else happens:
                    \* "settings", "token", "leave", "bounce", "crash"

\* What the constants are: a cycle has at least two days, and neither "no token"
\* nor "never" is a token or an age.
NoticesConstants ==
    Days \in Nat /\ Days >= 2 /\ None \notin Tokens /\ Never \notin Nat

VARIABLES scene,      \* the crons and the acts of this behaviour
          half,       \* half-day of the cycle: 0 is the morning of day 0
          row,        \* the columns of users
          suppressed, \* the address is in suppressed_emails
          dead,       \* tokens of apps that were uninstalled
          refused,    \* history: tokens a push to which was refused
          run,        \* pod -> the cron it runs, and the row it has read
          ago,        \* cron -> age of the last notice it sent
          presence    \* "here"; "gone" for good; "nudged" since
vars == <<scene, half, row, suppressed, dead, refused, run, ago, presence>>

Pushes == {"trial", "pro", "weekly", "winBack"}
Emails == {"proEmail", "digest", "monthly"}
Endings == {"subTrial", "proTrial"}   \* a trial that ends: a push and a mail
Kinds == Pushes \cup Emails \cup Endings \cup {"reminders"}
Claimed == Kinds \ (Endings \cup {"monthly"})

Cycle == 2 * Days
Oldest == Cycle + 1   \* older ages are as good as this one
Ages == 0 .. Oldest \cup {Never}
Older(age) == IF age \in {Never, Oldest} THEN age ELSE age + 1

\* sentWithin and the cutoff of the claim: 20 hours, or a cycle less a day.
Window(k) == IF k \in {"weekly", "digest", "monthly"} THEN Cycle - 2 ELSE 1
Recent(age, k) == age # Never /\ age <= Window(k)

\* The user's local clock: hours 9 to 11 are the morning, 14 the afternoon.
Slot(k) ==
    CASE k \in {"weekly", "monthly"} -> {0}
      [] k = "digest" -> {3}
      [] k = "winBack" -> {h \in 0 .. Cycle - 1 : h % 2 = 1}
      [] OTHER -> {h \in 0 .. Cycle - 1 : h % 2 = 0}

Idle == [step |-> "idle", kind |-> "reminders", token |-> None, email |-> FALSE]

TypeOK ==
    /\ scene \in Scenes /\ half \in 0 .. Cycle - 1
    /\ row \in [enabled : BOOLEAN, weekly : BOOLEAN, email : BOOLEAN,
                token : Tokens \cup {None}, last : [Kinds -> Ages], updated : Ages]
    /\ suppressed \in BOOLEAN /\ dead \subseteq Tokens /\ refused \subseteq Tokens \cup {None}
    /\ run \in [Pods -> [step : {"idle", "claim", "email", "push", "clear", "stamp"},
                         kind : Kinds, token : Tokens \cup {None}, email : BOOLEAN]]
    /\ ago \in [Kinds -> Ages]
    /\ presence \in {"here", "gone", "nudged"}

Init ==
    /\ scene \in Scenes /\ half = 1
    /\ row \in [enabled : {TRUE}, weekly : BOOLEAN, email : {TRUE},
                token : Tokens, last : {[k \in Kinds |-> Never]}, updated : {0}]
    /\ suppressed = FALSE /\ dead = {} /\ refused = {}
    /\ run = [p \in Pods |-> Idle]
    /\ ago = [k \in Kinds |-> Never]
    /\ presence = "here"

-----------------------------------------------------------------------------
(* A run of cron k on pod p, for this user                                 *)

At(p, step) == run[p].step = step
Goto(p, step) == run' = [run EXCEPT ![p].step = step]
Finish(p) == run' = [run EXCEPT ![p] = Idle]

\* What follows a push: the mail of a trial's end, and on the seventh day before
\* the end of a period its mail, with a claim of its own.
Proceed(p) ==
    \/ run[p].kind \notin Endings /\ Finish(p)
    \/ run[p].kind \in Endings /\ Goto(p, "email")
    \/ /\ run[p].kind = "pro" /\ run[p].email
       /\ run' = [run EXCEPT ![p].kind = "proEmail", ![p].step = "claim"]

\* Every UPDATE of users sets updatedAt too: it is an @UpdateDateColumn.
Update(r) == row' = [r EXCEPT !.updated = 0]

\* What the query and the loop of each cron ask of the row.  Trials, periods
\* and subscriptions that are about to end or renew, and results of analyses,
\* are there whenever they are asked for: no cron of these changes them.
RemindersDue == row.enabled
TrialDue == row.enabled /\ row.token # None
ProDue == row.enabled /\ row.token # None
ProEmailDue == row.enabled /\ row.email
WeeklyDue == row.token # None /\ row.enabled /\ row.weekly
WinBackDue == row.token # None /\ row.enabled /\ row.updated > Cycle
DigestDue == row.weekly
MonthlyDue == row.email
EndingDue == TRUE   \* neither of the two asks what the user wants

Eligible(k) ==
    /\ k \notin Endings => ~Recent(row.last[k], k)
    /\ CASE k = "reminders" -> RemindersDue
         [] k = "trial" -> TrialDue
         [] k = "pro" -> ProDue
         [] k = "proEmail" -> ProEmailDue
         [] k = "weekly" -> WeeklyDue
         [] k = "winBack" -> WinBackDue
         [] k = "digest" -> DigestDue
         [] k = "monthly" -> MonthlyDue
         [] k \in Endings -> EndingDue

FirstStep(k) ==
    IF k \in Claimed THEN "claim"
    ELSE IF k \in Endings /\ row.token # None THEN "push" ELSE "email"

Start(p, k) ==
    /\ At(p, "idle") /\ k \in scene.crons /\ half \in Slot(k) /\ Eligible(k)
    /\ run' = [run EXCEPT ![p] = [step |-> FirstStep(k), kind |-> k,
                                 token |-> row.token, email |-> row.email]]
    /\ UNCHANGED <<scene, half, row, suppressed, dead, refused, ago, presence>>

\* What comes after the claim: the daily digest is mailed, then pushed.
Channel(r) ==
    IF r.kind \in Pushes THEN "push"
    ELSE IF r.kind # "reminders" \/ r.email THEN "email"
    ELSE IF r.token # None THEN "push" ELSE "idle"

\* Mutation: the UPDATE asks for the id alone, and always finds its row.
ClaimById(p) ==
    LET k == run[p].kind IN
    /\ At(p, "claim") /\ Goto(p, Channel(run[p]))
    /\ Update([row EXCEPT !.last[k] = 0])
    /\ UNCHANGED <<scene, half, suppressed, dead, refused, ago, presence>>

\* Mutation: the UPDATE compares the column only, which NULL never passes.
ClaimUnlessNull(p) ==
    LET k == run[p].kind IN
    /\ At(p, "claim")
    /\ IF row.last[k] = Never \/ Recent(row.last[k], k)
       THEN Finish(p) /\ UNCHANGED row
       ELSE Goto(p, Channel(run[p])) /\ Update([row EXCEPT !.last[k] = 0])
    /\ UNCHANGED <<scene, half, suppressed, dead, refused, ago, presence>>

\* claimNotification, and its copy in weeklyDigestSend.
Claim(p) ==
    LET k == run[p].kind IN
    /\ At(p, "claim")
    /\ IF Recent(row.last[k], k)
       THEN Proceed(p) /\ UNCHANGED row
       ELSE Goto(p, Channel(run[p])) /\ Update([row EXCEPT !.last[k] = 0])
    /\ UNCHANGED <<scene, half, suppressed, dead, refused, ago, presence>>

\* sendEmail: dropped when the address is suppressed, or when the provider answers
\* with an error, which nobody looks at; what is thrown ends the run, a push that
\* was to follow included.
SendEmail(p) ==
    LET k == run[p].kind
        next == IF k = "monthly" THEN "stamp"
                ELSE IF k = "reminders" /\ run[p].token # None THEN "push" ELSE "idle"
    IN /\ At(p, "email")
       /\ \/ Finish(p) /\ UNCHANGED ago
          \/ /\ run' = [run EXCEPT ![p] =
                    IF next = "idle" THEN Idle ELSE [@ EXCEPT !.step = next]]
             /\ ago' \in {ago} \cup IF suppressed THEN {} ELSE {[ago EXCEPT ![k] = 0]}
       /\ UNCHANGED <<scene, half, row, suppressed, dead, refused, presence>>

\* The report's stamp comes after the mail, from the row read long before.
StampReport(p) ==
    /\ At(p, "stamp") /\ Finish(p)
    /\ Update([row EXCEPT !.last["monthly"] = 0])
    /\ UNCHANGED <<scene, half, suppressed, dead, refused, ago, presence>>

\* sendPushNotification, to the token read at the start.
Deliver(p) ==
    LET k == run[p].kind IN
    /\ At(p, "push") /\ run[p].token \notin dead /\ Proceed(p)
    /\ ago' = [ago EXCEPT ![k] = 0]
    /\ presence' = IF k = "winBack" /\ presence = "gone" THEN "nudged" ELSE presence
    /\ UNCHANGED <<scene, half, row, suppressed, dead, refused>>

PushFails(p) ==
    /\ At(p, "push") /\ Proceed(p)
    /\ UNCHANGED <<scene, half, row, suppressed, dead, refused, ago, presence>>

\* An answer that "means the token is dead" may also come of the message (invalid
\* argument) or of the server's credentials: the token of an app that is
\* installed can be refused too.
PushRefused(p) ==
    /\ At(p, "push") /\ Goto(p, "clear") /\ refused' = refused \cup {run[p].token}
    /\ UNCHANGED <<scene, half, row, suppressed, dead, ago, presence>>

\* Mutation: the token is cleared for the user, whichever it is by now.
ClearWhatever(p) ==
    /\ At(p, "clear") /\ Finish(p)
    /\ Update([row EXCEPT !.token = None])
    /\ UNCHANGED <<scene, half, suppressed, dead, refused, ago, presence>>

\* An UPDATE of the row with this id and this token, if there is one; that
\* it may fail is a run that ends here (Crash).
ClearDeadToken(p) ==
    /\ At(p, "clear") /\ Proceed(p)
    /\ IF row.token = run[p].token THEN Update([row EXCEPT !.token = None])
       ELSE UNCHANGED row
    /\ UNCHANGED <<scene, half, suppressed, dead, refused, ago, presence>>

Crash(p) ==
    /\ "crash" \in scene.acts /\ ~At(p, "idle") /\ Finish(p)
    /\ UNCHANGED <<scene, half, row, suppressed, dead, refused, ago, presence>>

-----------------------------------------------------------------------------
(* The user, the provider and the clock                                    *)

UserActs(act) == act \in scene.acts /\ presence = "here"
Aside == UNCHANGED <<scene, half, refused, run, ago, presence>>

\* updateSettings, unsubscribe, resubscribe: each sends what it changes.
ChangeSettings ==
    /\ UserActs("settings")
    /\ \E column \in {"enabled", "weekly", "email"}, b \in BOOLEAN :
          Update([row EXCEPT ![column] = b])
    /\ UNCHANGED <<suppressed, dead>> /\ Aside

\* registerPushToken, from an app just installed or opened again.
RegisterPushToken(t) ==
    /\ UserActs("token") /\ t \notin dead
    /\ Update([row EXCEPT !.token = t])
    /\ UNCHANGED <<suppressed, dead>> /\ Aside

Uninstall ==
    /\ UserActs("token") /\ row.token # None /\ dead = {}
    /\ dead' = {row.token}
    /\ UNCHANGED <<row, suppressed>> /\ Aside

\* The mail provider reports a bounce or a complaint.
Suppress ==
    /\ "bounce" \in scene.acts /\ ~suppressed /\ suppressed' = TRUE
    /\ UNCHANGED <<row, dead>> /\ Aside

Leave ==
    /\ UserActs("leave") /\ presence' = "gone"
    /\ UNCHANGED <<scene, half, row, suppressed, dead, refused, run, ago>>

Tick ==
    /\ \A p \in Pods : At(p, "idle")
    /\ half' = (half + 1) % Cycle
    /\ row' = [row EXCEPT !.updated = Older(@), !.last = [k \in Kinds |-> Older(@[k])]]
    /\ ago' = [k \in Kinds |-> Older(ago[k])]
    /\ UNCHANGED <<scene, suppressed, dead, refused, run, presence>>

Step(p) ==
    \/ Claim(p) \/ SendEmail(p) \/ StampReport(p) \/ Deliver(p) \/ PushFails(p)
    \/ PushRefused(p) \/ ClearDeadToken(p)

Next ==
    \/ Tick \/ ChangeSettings \/ Uninstall \/ Suppress \/ Leave
    \/ \E t \in Tokens : RegisterPushToken(t)
    \/ \E p \in Pods : Step(p) \/ Crash(p) \/ \E k \in Kinds : Start(p, k)

Nudge(p) == run[p].kind = "winBack" /\ Deliver(p)

\* Time passes, runs get on, the win-back cron starts where it can again and again,
\* and its push is not refused or lost each time.
Fairness ==
    /\ SF_vars(Tick)
    /\ WF_vars(\E p \in Pods : Step(p))
    /\ SF_vars(\E p \in Pods : Start(p, "winBack"))
    /\ SF_vars(\E p \in Pods : Nudge(p))

Spec == Init /\ [][Next]_vars
FairSpec == Spec /\ Fairness

-----------------------------------------------------------------------------
\* Whatever pods start at the same time, crash or start over: of a cron with
\* a claim, one run at a time goes on to write to the user, and only when its
\* window has passed since the last notice.  The daily digest is one mail and
\* one push (claimNotification).
Writing(p) == run[p].step \in {"email", "push"} /\ run[p].kind \in Claimed
NoticesSpaced ==
    \A p \in Pods : Writing(p) =>
        /\ Recent(ago[run[p].kind], run[p].kind) =>
              run[p].kind = "reminders" /\ run[p].step = "push"
        /\ \A q \in Pods \ {p} : Writing(q) => run[q].kind # run[p].kind

\* A token is cleared only because a push to that very token was refused, whatever
\* is registered while a push is under way ("a user who already re-registered a
\* fresh token doesn't lose it because a stale push came back with the previous
\* one", clearDeadToken).
OnlyRefusedCleared ==
    [][row.token \in Tokens \ refused => row'.token # None]_vars

\* The afternoon of a cycle in which no other notice was claimed: each claim moves
\* updatedAt, by which users who are gone are found.
QuietAfternoon ==
    /\ half \in Slot("winBack")
    /\ \A k \in Kinds \ {"winBack"} : row.last[k] \in {Never, Oldest}

\* A user who has left for good and can be reached is nudged (sendWinBackPush), if
\* there is a week now and then in which no reminder, no digest and no report is
\* due: who is written to every week, or has something to pay every week, is not.
Unreachable == row.token = None \/ ~row.enabled
NudgedWhenQuiet ==
    []<>QuietAfternoon =>
        (presence = "gone" /\ "winBack" \in scene.crons ~> presence = "nudged" \/ Unreachable)

\* reminders.service.ts says this of every user.
InactiveAreNudged ==
    presence = "gone" /\ "winBack" \in scene.crons
        ~> presence = "nudged" \/ Unreachable
=============================================================================
