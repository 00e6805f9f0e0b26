----------------------------- MODULE GmailScan -----------------------------
(***************************************************************************)
(* GmailScanService and GmailService: one user's mailbox is connected,     *)
(* scanned (by POST /gmail/scan, or by a background job that the client    *)
(* polls) and disconnected.  Redis holds the lock, the day's quota, the    *)
(* last result, the job records and the pointer to the job in flight.      *)
(* Mail and candidates are abstracted to the grant they were read with;    *)
(* mergeJobProgress is left out: its read and its write of the record go   *)
(* through one connection, in order with the scan's own writes.            *)
(***************************************************************************)
EXTENDS Naturals, FiniteSets

CONSTANTS Scans,      \* the scans there will be, each with its job id
          Grants,     \* refresh tokens Google may issue to the user
          Cap,        \* DAILY_QUOTA of the user's plan
          None

VARIABLES gmail,      \* users.gmailRefreshToken, or None
          dead,       \* grants Google does not honour any more
          evicting,   \* a connect or disconnect still has to drop cache and pointer
          cache,      \* whose mail the cached result was read from, or None
          inflight,   \* the job the in-flight pointer names, or None
          job,        \* job id -> status in its record, "none" without one
          lock,       \* who took the scan lock, or None
          used,       \* the day's counter
          kept,       \* history: scans of the day that keep their slot
          scan        \* scan -> where it is and what it has in hand
redis == <<cache, inflight, lock, used>>
vars == <<gmail, dead, evicting, cache, inflight, job, lock, used, kept, scan>>

Statuses == {"pending", "running", "completed", "failed"}
Steps == {"idle", "create", "run", "cached", "lock", "quota", "refuse", "user",
          "token", "clear", "read", "store", "refund", "unlock", "point", "report", "over"}

TypeOK ==
    /\ gmail \in Grants \cup {None} /\ dead \subseteq Grants /\ evicting \in BOOLEAN
    /\ cache \in Grants \cup {None} /\ inflight \in Scans \cup {None}
    /\ lock \in Scans \cup {None} /\ used \in Nat
    /\ job \in [Scans -> Statuses \cup {"none"}]
    /\ kept \subseteq Scans
    /\ scan \in [Scans -> [step : Steps, grant : Grants \cup {None}, asJob : BOOLEAN,
                           charged : BOOLEAN, ok : BOOLEAN]]

Idle == [step |-> "idle", grant |-> None, asJob |-> FALSE, charged |-> FALSE, ok |-> FALSE]

Init ==
    /\ gmail \in Grants \cup {None} /\ dead = {} /\ evicting = FALSE
    /\ cache = None /\ inflight = None /\ lock = None /\ used = 0 /\ kept = {}
    /\ job = [s \in Scans |-> "none"]
    /\ scan = [s \in Scans |-> Idle]

At(s, step) == scan[s].step = step
Goto(s, step) == scan' = [scan EXCEPT ![s].step = step]
Over(s) == scan' = [scan EXCEPT ![s] = [Idle EXCEPT !.step = "over"]]
mailbox == <<gmail, dead, evicting>>

-----------------------------------------------------------------------------
(* startScanJob and runScanJob; a scan without a job starts at "cached"    *)

\* A cached result is answered as a job that is over already.
StartFromCache(s) ==
    /\ At(s, "idle") /\ cache # None
    /\ job' = [job EXCEPT ![s] = "completed"] /\ Over(s)
    /\ UNCHANGED <<mailbox, redis, kept>>

\* A job under way is answered instead of a new one: nothing changes then.
StartScanJob(s) ==
    /\ At(s, "idle")
    /\ inflight \notin {j \in Scans : job[j] \in {"pending", "running"}}
    /\ Goto(s, "create") /\ UNCHANGED <<mailbox, redis, job, kept>>

CreateJob(s) ==
    /\ At(s, "create")
    /\ job' = [job EXCEPT ![s] = "pending"] /\ inflight' = s
    /\ scan' = [scan EXCEPT ![s].step = "run", ![s].asJob = TRUE]
    /\ UNCHANGED <<mailbox, cache, lock, used, kept>>

RunScanJob(s) ==
    /\ At(s, "run")
    /\ job' = [job EXCEPT ![s] = "running"] /\ Goto(s, "cached")
    /\ UNCHANGED <<mailbox, redis, kept>>

StartScan(s) == At(s, "idle") /\ Goto(s, "cached") /\ UNCHANGED <<mailbox, redis, job, kept>>

\* The pointer goes whatever became of the scan, and may name a later job.
ClearInflight(s) ==
    /\ At(s, "point")
    /\ inflight' \in IF scan[s].asJob THEN {None, inflight} ELSE {inflight}
    /\ Goto(s, "report") /\ UNCHANGED <<mailbox, cache, lock, used, job, kept>>

Report(s) ==
    /\ At(s, "report")
    /\ job' = IF scan[s].asJob
              THEN [job EXCEPT ![s] = IF scan[s].ok THEN "completed" ELSE "failed"] ELSE job
    /\ Over(s) /\ UNCHANGED <<mailbox, redis, kept>>

-----------------------------------------------------------------------------
(* scan                                                                    *)

\* A cached result is the answer, unless the scan is forced.
ReadCache(s) ==
    /\ At(s, "cached")
    /\ \/ cache # None /\ scan' = [scan EXCEPT ![s].step = "point", ![s].ok = TRUE]
       \/ Goto(s, "lock")
    /\ UNCHANGED <<mailbox, redis, job, kept>>

AcquireLock(s) ==
    /\ At(s, "lock")
    /\ IF lock = None THEN lock' = s /\ Goto(s, "quota")
       ELSE Goto(s, "point") /\ UNCHANGED lock
    /\ UNCHANGED <<mailbox, cache, inflight, used, job, kept>>

\* Mutation: the counter is increased and never compared.
QuotaUnchecked(s) ==
    /\ At(s, "quota") /\ used' = used + 1
    /\ scan' = [scan EXCEPT ![s].step = "user", ![s].charged = TRUE]
    /\ UNCHANGED <<mailbox, cache, inflight, lock, job, kept>>

\* enforceDailyQuota: INCR, and DECR again when that was one too many; an INCR
\* that fails in its pipeline lets the scan go on uncharged.
EnforceDailyQuota(s) ==
    /\ At(s, "quota")
    /\ \/ /\ used' = used + 1
          /\ IF used' > Cap THEN Goto(s, "refuse")
             ELSE scan' = [scan EXCEPT ![s].step = "user", ![s].charged = TRUE]
       \/ Goto(s, "user") /\ UNCHANGED used
    /\ UNCHANGED <<mailbox, cache, inflight, lock, job, kept>>

RefuseQuota(s) ==
    /\ At(s, "refuse") /\ used' = used - 1 /\ Goto(s, "unlock")
    /\ UNCHANGED <<mailbox, cache, inflight, lock, job, kept>>

ReadUser(s) ==
    /\ At(s, "user")
    /\ scan' = [scan EXCEPT ![s].grant = gmail,
                            ![s].step = IF gmail = None THEN "refund" ELSE "token"]
    /\ UNCHANGED <<mailbox, redis, job, kept>>

\* Google's answer: an access token, a 4xx, or nothing (a 5xx, a timeout).
GetAccessToken(s) ==
    /\ At(s, "token")
    /\ \/ scan[s].grant \notin dead /\ Goto(s, "read")
       \/ scan[s].grant \in dead /\ Goto(s, "clear")
       \/ Goto(s, "refund")
    /\ UNCHANGED <<mailbox, redis, job, kept>>

\* Whichever grant is stored by now is cleared; the cached result too.
ClearGmailCredentials(s) ==
    /\ At(s, "clear") /\ gmail' = None /\ cache' \in {None, cache}
    /\ Goto(s, "refund")
    /\ UNCHANGED <<dead, evicting, inflight, lock, used, job, kept>>

\* Google's list or the model's answer fails; a message that cannot be read is
\* passed over.
MailUnreadable(s) ==
    /\ At(s, "read") /\ Goto(s, "refund")
    /\ UNCHANGED <<mailbox, redis, job, kept>>

\* All that was found is a subscription of the user already: the slot is given back.
NothingNew(s) ==
    /\ At(s, "read") /\ scan[s].charged /\ used' = used - 1
    /\ scan' = [scan EXCEPT ![s].step = "store", ![s].charged = FALSE]
    /\ UNCHANGED <<mailbox, cache, inflight, lock, job, kept>>

\* Candidates were found, or none at all.
ReadMail(s) ==
    /\ At(s, "read") /\ Goto(s, "store")
    /\ kept' = kept \cup (IF scan[s].charged THEN {s} ELSE {})
    /\ UNCHANGED <<mailbox, redis, job>>

StoreResult(s) ==
    /\ At(s, "store") /\ cache' \in {scan[s].grant, cache}
    /\ scan' = [scan EXCEPT ![s].step = "unlock", ![s].grant = None,
                            ![s].ok = TRUE, ![s].charged = FALSE]
    /\ UNCHANGED <<mailbox, inflight, lock, used, job, kept>>

\* Best effort: a Redis that fails leaves the slot used.
Refund(s) ==
    /\ At(s, "refund")
    /\ used' \in IF scan[s].charged THEN {used - 1, used} ELSE {used}
    /\ scan' = [scan EXCEPT ![s].step = "unlock", ![s].grant = None, ![s].charged = FALSE]
    /\ UNCHANGED <<mailbox, cache, inflight, lock, job, kept>>

\* finally: DEL, whoever holds the lock.
Unlock(s) ==
    /\ At(s, "unlock") /\ lock' = None /\ Goto(s, "point")
    /\ UNCHANGED <<mailbox, cache, inflight, used, job, kept>>

-----------------------------------------------------------------------------
(* GmailService: handleCallback and disconnect                             *)

Connect ==
    /\ \E g \in Grants \ (dead \cup {gmail}) : gmail' = g
    /\ evicting' = TRUE /\ UNCHANGED <<dead, redis, job, kept, scan>>

Disconnect ==
    /\ gmail # None /\ gmail' = None
    /\ dead' \in {dead, dead \cup {gmail}} /\ evicting' = TRUE
    /\ UNCHANGED <<redis, job, kept, scan>>

\* What follows either of them.
EvictResult ==
    /\ evicting /\ evicting' = FALSE
    /\ \/ cache' = None /\ inflight' = None
       \/ UNCHANGED <<cache, inflight>>
    /\ UNCHANGED <<gmail, dead, lock, used, job, kept, scan>>

-----------------------------------------------------------------------------
(* The world                                                               *)

\* The user or Google withdraws a grant.
GrantDies ==
    /\ gmail # None /\ gmail \notin dead /\ dead' = dead \cup {gmail}
    /\ UNCHANGED <<gmail, evicting, redis, job, kept, scan>>

\* 60 s, whether or not the scan is over.
LockExpires ==
    /\ lock # None /\ lock' = None
    /\ UNCHANGED <<mailbox, cache, inflight, used, job, kept, scan>>

CacheExpires ==
    /\ cache # None /\ cache' = None
    /\ UNCHANGED <<mailbox, inflight, lock, used, job, kept, scan>>

\* The counter is another key; what is given back goes to the old one.
Midnight ==
    /\ used > 0 /\ used' = 0 /\ kept' = {}
    /\ scan' = [s \in Scans |-> [scan[s] EXCEPT !.charged = FALSE,
                   !.step = IF @ = "refuse" THEN "unlock" ELSE @]]
    /\ UNCHANGED <<mailbox, cache, inflight, lock, job>>

\* The pod dies; the record, pointer, lock and slot stay.
Crash(s) ==
    /\ ~At(s, "idle") /\ ~At(s, "over")
    /\ Over(s)
    /\ UNCHANGED <<mailbox, redis, job, kept>>

Next ==
    \/ Connect \/ Disconnect \/ EvictResult \/ GrantDies
    \/ LockExpires \/ CacheExpires \/ Midnight
    \/ \E s \in Scans :
          \/ StartFromCache(s) \/ StartScanJob(s) \/ CreateJob(s) \/ RunScanJob(s) \/ StartScan(s)
          \/ ClearInflight(s) \/ Report(s)
          \/ ReadCache(s) \/ AcquireLock(s) \/ EnforceDailyQuota(s) \/ RefuseQuota(s)
          \/ ReadUser(s) \/ GetAccessToken(s) \/ ClearGmailCredentials(s)
          \/ MailUnreadable(s) \/ NothingNew(s) \/ ReadMail(s) \/ StoreResult(s) \/ Refund(s) \/ Unlock(s) \/ Crash(s)

Spec == Init /\ [][Next]_vars

-----------------------------------------------------------------------------
Charged == {s \in Scans : scan[s].charged}

\* Scans of one day that were charged and not given back, those under way
\* included, are at most the plan's quota, although two scans run at once when
\* the lock's minute is over, refunds fail, pods die, and refusals count up
\* and down in between (enforceDailyQuota and scan's refunds).
ScansWithinQuota == Cardinality(kept \cup Charged) <= Cap
=============================================================================
