------------------------------ MODULE FxRates ------------------------------
(***************************************************************************)
(* FxService: exchange rates behind two layers, a key in Redis and the     *)
(* newest row of fx_rate_snapshots, and a refresh that one caller at a     *)
(* time is meant to run.  Rates are abstracted to their age: "old" is      *)
(* older than STALE_THRESHOLD, "new" is not.                               *)
(***************************************************************************)
EXTENDS FiniteSets

CONSTANTS Callers,   \* requests for rates and daily crons, on any pod
          Nobody     \* no caller

VARIABLES snapshot,  \* the newest row: "none", "old" or "new"
          key,       \* fx:latest in Redis: "none" when missing or expired
          lock,      \* who took fx:refresh:lock, or Nobody
          caller     \* caller -> where it is, and the rates it has in hand
vars == <<snapshot, key, lock, caller>>

Rates == {"none", "old", "new"}
Steps == {"idle", "table", "cache", "refresh", "wait", "again", "fetch",
          "publish", "release"}

TypeOK ==
    /\ snapshot \in Rates /\ key \in Rates
    /\ lock \in Callers \cup {Nobody}
    /\ caller \in [Callers -> [step : Steps, rates : Rates, acquired : BOOLEAN]]

Idle == [step |-> "idle", rates |-> "none", acquired |-> FALSE]

Init ==
    /\ snapshot = "none" /\ key = "none" /\ lock = Nobody
    /\ caller = [c \in Callers |-> Idle]

At(c, step) == caller[c].step = step
Goto(c, step) == caller' = [caller EXCEPT ![c].step = step]
Finish(c) == caller' = [caller EXCEPT ![c] = Idle]

-----------------------------------------------------------------------------
(* getRates                                                                *)

\* A key that answers changes nothing.  When it is missing, or Redis cannot be
\* reached, or what it holds cannot be parsed, the table is read.
GetRates(c) == At(c, "idle") /\ Goto(c, "table") /\ UNCHANGED <<snapshot, key, lock>>

ReadTable(c) ==
    /\ At(c, "table")
    /\ caller' = [caller EXCEPT ![c].rates = snapshot,
          ![c].step = IF snapshot = "none" THEN "refresh" ELSE "cache"]
    /\ UNCHANGED <<snapshot, key, lock>>

\* The row goes into the key, unless Redis fails; a row that is too old is
\* answered all the same and refreshed behind the answer.
Cache(c) ==
    /\ At(c, "cache")
    /\ key' \in {key, caller[c].rates}
    /\ IF caller[c].rates = "old" THEN Goto(c, "refresh") ELSE Finish(c)
    /\ UNCHANGED <<snapshot, lock>>

-----------------------------------------------------------------------------
(* refreshFromApi, from getRates or from the daily cron                    *)

RefreshDaily(c) ==
    /\ At(c, "idle") /\ Goto(c, "refresh")
    /\ UNCHANGED <<snapshot, key, lock>>

\* SET NX; a Redis that fails counts as taken.
AcquireLock(c) ==
    /\ At(c, "refresh")
    /\ \/ /\ lock = Nobody /\ lock' = c
          /\ caller' = [caller EXCEPT ![c].step = "fetch", ![c].acquired = TRUE]
       \/ Goto(c, "wait") /\ UNCHANGED lock
    /\ UNCHANGED <<snapshot, key>>

\* After 1.5 s the key is looked up once more; still without rates, the caller
\* fetches although it does not hold the lock.
LookAgain(c) ==
    /\ At(c, "wait")
    /\ \/ key # "none" /\ Finish(c)
       \/ Goto(c, "fetch")
    /\ UNCHANGED <<snapshot, key, lock>>

\* Both providers fail; the lock is given back on the way out.
FetchFails(c) ==
    /\ At(c, "fetch") /\ Goto(c, "release") /\ UNCHANGED <<snapshot, key, lock>>

\* The first provider that answers: the row is saved, and then the key set.
Fetch(c) ==
    /\ At(c, "fetch")
    /\ snapshot' = "new"
    /\ caller' = [caller EXCEPT ![c].step = "publish", ![c].rates = "new"]
    /\ UNCHANGED <<key, lock>>

Publish(c) ==
    /\ At(c, "publish")
    /\ key' \in {key, caller[c].rates}
    /\ Goto(c, "release")
    /\ UNCHANGED <<snapshot, lock>>

\* DEL, whoever holds the lock by now, unless Redis fails.
Release(c) ==
    /\ At(c, "release")
    /\ \/ caller[c].acquired /\ lock' = Nobody
       \/ UNCHANGED lock
    /\ Finish(c)
    /\ UNCHANGED <<snapshot, key>>

-----------------------------------------------------------------------------
(* Time and faults                                                         *)

Older(r) == IF r = "new" THEN "old" ELSE r

\* A day passes for whatever rates there are.
Age ==
    /\ snapshot = "new"
    /\ snapshot' = "old" /\ key' = Older(key)
    /\ caller' = [c \in Callers |-> [caller[c] EXCEPT !.rates = Older(@)]]
    /\ UNCHANGED lock

KeyExpires == key # "none" /\ key' = "none" /\ UNCHANGED <<snapshot, lock, caller>>

\* Mutation: the lock has no TTL.
LockStays == FALSE /\ UNCHANGED vars

LockExpires == lock # Nobody /\ lock' = Nobody /\ UNCHANGED <<snapshot, key, caller>>

\* The caller's pod dies.
Crash(c) == ~At(c, "idle") /\ Finish(c) /\ UNCHANGED <<snapshot, key, lock>>

Step(c) ==
    \/ ReadTable(c) \/ Cache(c) \/ AcquireLock(c) \/ LookAgain(c)
    \/ Fetch(c) \/ FetchFails(c) \/ Publish(c) \/ Release(c)

Next ==
    \/ Age \/ KeyExpires \/ LockExpires
    \/ \E c \in Callers : GetRates(c) \/ RefreshDaily(c) \/ Step(c) \/ Crash(c)

\* Calls go on, requests get on, the two TTLs run out, and what is tried again
\* and again succeeds at last: pods do not die in the same place for ever, a
\* lock that is free again and again is taken, and the providers answer.
Fairness ==
    /\ WF_vars(KeyExpires) /\ WF_vars(LockExpires)
    /\ WF_vars(\E c \in Callers : GetRates(c) \/ Step(c))
    /\ SF_vars(\E c \in Callers : ReadTable(c))
    /\ SF_vars(\E c \in Callers : Cache(c))
    /\ SF_vars(\E c \in Callers : AcquireLock(c) /\ lock' = c)
    /\ SF_vars(\E c \in Callers : Fetch(c))

Spec == Init /\ [][Next]_vars
FairSpec == Spec /\ Fairness

-----------------------------------------------------------------------------
\* Old rates give way to new ones, from the cron or behind somebody's answer,
\* although refreshes fail, pods die with the lock, and a slow caller puts an
\* old row over the new key (getRates and refreshFromApi together).
RatesRecover == snapshot = "old" ~> snapshot = "new"
=============================================================================
