---------------------------- MODULE CatalogLookup ----------------------------
(***************************************************************************)
(* CatalogService.search for one query, from any pod: the service that is  *)
(* stored, or a lookup by the AI behind a lock in Redis, whose service and *)
(* plans are stored in one transaction.  The AI names the service by a     *)
(* slug of its own.  Behind it the price refresh, which search and the     *)
(* weekly cron queue and CatalogRefreshProcessor runs.                     *)
(***************************************************************************)
EXTENDS Naturals, FiniteSets

CONSTANTS Searches,    \* the searches that can be under way at once
          Regions,     \* the regions they ask for
          Slugs,       \* the slug of the query and others the AI may give
          QuerySlug,
          Nobody,      \* no holder of the lock
          MaxExpiries  \* bound on research that outlives LOCK_TTL_SEC

VARIABLES services,  \* slugs of the rows of catalog_services
          bare,      \* history: those the AI answered without a plan
          plans,     \* rows of catalog_plans: <<slug, region>>, "stale" or "fresh"
          lock,      \* who took ai:lookup:lock, or Nobody
          expiries,  \* how often the lock ran out under its holder
          again,     \* history: researches of a query whose service was stored
          search,    \* search -> where it is
          lazy,      \* the queue catalog-refresh: search's job for each plan
          weekly     \* and the services the cron has jobs queued for
vars == <<services, bare, plans, lock, expiries, again, search, lazy, weekly>>

Steps == {"start", "lock", "poll", "research", "store", "unlock", "found", "failed"}
Plan == [slug : Slugs, region : Regions]
Prices == {"missing", "stale", "fresh"}
\* Bull keeps a job that is done, and its id, for a day, one that failed for a
\* week, and removes it at the end of a later job.
Jobs == {"none", "queued", "kept"}

TypeOK ==
    /\ services \subseteq Slugs /\ bare \subseteq services
    /\ plans \in [Plan -> Prices]
    /\ lock \in Searches \cup {Nobody}
    /\ expiries \in 0 .. MaxExpiries /\ again \in Nat
    /\ search \in [Searches -> [step : Steps, region : Regions, answer : {"found", "failed"}]]
    /\ lazy \in [Plan -> Jobs] /\ weekly \subseteq Slugs

AnyRegion == CHOOSE r \in Regions : TRUE

\* No search is under way yet.
Init ==
    /\ services = {} /\ bare = {} /\ plans = [p \in Plan |-> "missing"]
    /\ lock = Nobody /\ expiries = 0 /\ again = 0
    /\ lazy = [p \in Plan |-> "none"] /\ weekly = {}
    /\ search = [s \in Searches |->
          [step |-> "failed", region |-> AnyRegion, answer |-> "failed"]]

At(s, step) == search[s].step = step
Goto(s, step) == search' = [search EXCEPT ![s].step = step]
Wanted(s) == [slug |-> QuerySlug, region |-> search[s].region]
refreshing == <<lazy, weekly>>

-----------------------------------------------------------------------------

\* findBySlug finds the service: its plans of the region, if it has any, and a
\* refresh of them if they are old.  Bull ignores a job whose id it has, be it
\* queued or done, and a queue that fails is only logged.
Find(s) ==
    /\ At(s, "start") /\ QuerySlug \in services
    /\ \/ /\ plans[Wanted(s)] = "stale" /\ lazy[Wanted(s)] = "none"
          /\ lazy' = [lazy EXCEPT ![Wanted(s)] = "queued"]
       \/ UNCHANGED lazy
    /\ Goto(s, "found")
    /\ UNCHANGED <<services, bare, plans, lock, expiries, again, weekly>>

NotFound(s) ==
    /\ At(s, "start") /\ QuerySlug \notin services
    /\ Goto(s, "lock")
    /\ UNCHANGED <<services, bare, plans, lock, expiries, again, refreshing>>

\* The look at the table is not repeated under the lock.
TakeLock(s) ==
    /\ lock' = s /\ Goto(s, "research")
    /\ again' = IF QuerySlug \in services THEN again + 1 ELSE again

\* Mutation: a lock that is there is taken over.
LockOver(s) ==
    /\ At(s, "lock") /\ TakeLock(s)
    /\ UNCHANGED <<services, bare, plans, expiries, refreshing>>

\* SET NX; a Redis that fails counts as taken.
Lock(s) ==
    /\ At(s, "lock")
    /\ \/ lock = Nobody /\ TakeLock(s)
       \/ Goto(s, "poll") /\ UNCHANGED <<lock, again>>
    /\ UNCHANGED <<services, bare, plans, expiries, refreshing>>

\* Without the lock: poll until it is gone (or Redis fails), and then take what
\* the holder has stored; 20 s later give up.
WaitForService(s) ==
    /\ At(s, "poll")
    /\ \/ Goto(s, IF QuerySlug \in services THEN "found" ELSE "failed")
       \/ Goto(s, "failed")
    /\ UNCHANGED <<services, bare, plans, lock, expiries, again, refreshing>>

\* fullResearch answers or fails twice.
Research(s) ==
    /\ At(s, "research")
    /\ Goto(s, "store") \/ Goto(s, "unlock")
    /\ UNCHANGED <<services, bare, plans, lock, expiries, again, refreshing>>

\* One transaction for the service, or its research count, and the plans the
\* AI gives for the region, none where the service is not sold; a database that
\* fails, or the unique index on (service, region, plan) if the plan is there
\* already, takes all of it back, and what was paid for is lost.
Store(s) ==
    /\ At(s, "store")
    /\ \E slug \in Slugs :
          LET plan == [slug |-> slug, region |-> search[s].region]
              stored == search' = [search EXCEPT ![s].step = "unlock",
                                                 ![s].answer = "found"]
          IN  \/ /\ plans[plan] = "missing" /\ stored
                 /\ services' = services \cup {slug}
                 /\ plans' = [plans EXCEPT ![plan] = "fresh"]
                 /\ UNCHANGED bare
              \/ /\ stored
                 /\ services' = services \cup {slug}
                 /\ bare' = bare \cup ({slug} \ services)
                 /\ UNCHANGED plans
              \/ Goto(s, "unlock") /\ UNCHANGED <<services, bare, plans>>
    /\ UNCHANGED <<lock, expiries, again, refreshing>>

\* DEL, whoever holds the lock by now, unless Redis fails.
Unlock(s) ==
    /\ At(s, "unlock")
    /\ lock' \in {Nobody, lock}
    /\ Goto(s, search[s].answer)
    /\ UNCHANGED <<services, bare, plans, expiries, again, refreshing>>

\* A client asks, for any region.
Ask(s) ==
    /\ search[s].step \in {"found", "failed"}
    /\ \E region \in Regions :
          search' = [search EXCEPT ![s] =
             [step |-> "start", region |-> region, answer |-> "failed"]]
    /\ UNCHANGED <<services, bare, plans, lock, expiries, again, refreshing>>

-----------------------------------------------------------------------------

\* The TTL of a lock that a failed DEL or a dead pod has left.
LockRunsOut ==
    /\ lock # Nobody /\ search[lock].step \notin {"research", "store", "unlock"}
    /\ lock' = Nobody
    /\ UNCHANGED <<services, bare, plans, expiries, again, search, refreshing>>

\* The research takes longer than LOCK_TTL_SEC.
LockOutlived ==
    /\ lock # Nobody /\ search[lock].step \in {"research", "store"}
    /\ expiries < MaxExpiries /\ expiries' = expiries + 1
    /\ lock' = Nobody
    /\ UNCHANGED <<services, bare, plans, again, search, refreshing>>

Crash(s) ==
    /\ search[s].step \notin {"start", "found", "failed"}
    /\ Goto(s, "failed")
    /\ UNCHANGED <<services, bare, plans, lock, expiries, again, refreshing>>

\* STALE_AGE has passed since the last refresh.
GoStale(p) ==
    /\ plans[p] = "fresh" /\ plans' = [plans EXCEPT ![p] = "stale"]
    /\ UNCHANGED <<services, bare, lock, expiries, again, search, refreshing>>

\* The cron of every pod queues the services that have plans, under one id a
\* day for each.
RefreshTopServices(slug) ==
    /\ \E r \in Regions : plans[[slug |-> slug, region |-> r]] # "missing"
    /\ weekly' = weekly \cup {slug}
    /\ UNCHANGED <<services, bare, plans, lock, expiries, again, search, lazy>>

\* The upsert touches plans the service has; without an answer of the AI, or
\* without the plan in it, the job ends all the same.
Refreshed(refreshed) ==
    plans' = [p \in Plan |-> IF p \in refreshed /\ plans[p] # "missing" THEN "fresh"
                             ELSE plans[p]]

\* search's job has one attempt; Bull starts one again whose worker died.
HandleLazyRefresh(p) ==
    /\ lazy[p] = "queued" /\ \E done \in SUBSET {p} : Refreshed(done)
    /\ lazy' \in {lazy, [lazy EXCEPT ![p] = "kept"]}
    /\ UNCHANGED <<services, bare, lock, expiries, again, search, weekly>>

\* The cron's covers every region, and a failed attempt is followed by another;
\* the next week's has an id of its own.
HandleRefresh(slug) ==
    /\ slug \in weekly
    /\ \E done \in SUBSET {p \in Plan : p.slug = slug} : Refreshed(done)
    /\ weekly' \in {weekly, weekly \ {slug}}
    /\ UNCHANGED <<services, bare, lock, expiries, again, search, lazy>>

\* Only now can search queue another refresh of the plan.
RemoveOnComplete(p) ==
    /\ lazy[p] = "kept" /\ lazy' = [lazy EXCEPT ![p] = "none"]
    /\ UNCHANGED <<services, bare, plans, lock, expiries, again, search, weekly>>

Step(s) ==
    \/ Find(s) \/ NotFound(s) \/ Lock(s) \/ WaitForService(s)
    \/ Research(s) \/ Store(s) \/ Unlock(s)

Next ==
    \/ LockRunsOut \/ LockOutlived
    \/ \E s \in Searches : Step(s) \/ Ask(s) \/ Crash(s)
    \/ \E p \in Plan : GoStale(p) \/ HandleLazyRefresh(p) \/ RemoveOnComplete(p)
    \/ \E slug \in Slugs : RefreshTopServices(slug) \/ HandleRefresh(slug)

Spec == Init /\ [][Next]_vars

-----------------------------------------------------------------------------
\* A service is in the catalog with the plans the AI gave it or not at all: a
\* search that finds it never researches it again, so one that lost its plans
\* on the way would stay so (the transaction of search).
ServicesHavePlans ==
    \A slug \in services \ bare :
        \E r \in Regions : plans[[slug |-> slug, region |-> r]] # "missing"

\* The AI is asked once at a time, by whatever pods: two at once are there
\* only after a lock was outlived by its holder, as many more as outlived it.
ResearchedByOne ==
    Cardinality({s \in Searches : search[s].step \in {"research", "store"}})
        <= 1 + expiries

\* Once the service of a query is stored, only searches that were under way
\* ask the AI for it again, each once at most: they looked before it was stored
\* and took the lock after it was free again, for want of another look.
ResearchedAgainByFew == QuerySlug \in services => again < Cardinality(Searches)

\* What the AI is paid for is stored as a whole, and is not asked for by every
\* search that waits.  It may still be paid for in vain: a service stored under
\* another slug than the query's is not found by the next search for it, and a
\* second answer of the same plan is taken back.
ResearchPaysOff == ServicesHavePlans /\ ResearchedByOne /\ ResearchedAgainByFew
=============================================================================
