----------------------------- MODULE MCServices -----------------------------
(* AccessCache, CatalogLookup, Subscriptions, BillingDates and GmailScan,  *)
(* one at a time: they keep apart (a Map in the pod; keys of their own in  *)
(* Redis; tables of their own), so no step of one can be seen by another,  *)
(* and a behaviour in which they mix shows nothing that one of them does   *)
(* not show alone.                                                         *)
EXTENDS AccessCache, TLC

CONSTANTS Searches, Regions, Slugs, QuerySlug, Nobody, MaxExpiries,
          Keys, Limits, MaxRows, MaxStarted,
          StartDates, StartMonths, BillingDays, TodayMonths, Todays,
          Scans, Grants, Cap, None

\* Finitely many searches and scans at once; Nobody is none of those who take
\* a lock; a day is one of a month that has come.
ASSUME ServicesConstants ==
    /\ IsFiniteSet(Searches) /\ Nobody \notin Searches \cup Requests
    /\ IsFiniteSet(Scans) /\ Cap \in Nat
    /\ Limits \subseteq Nat /\ MaxRows \in Nat /\ Regions # {}
    /\ StartDates \cup Todays \subseteq 1 .. 31 /\ BillingDays \subseteq Int
    /\ StartMonths \cup TodayMonths \subseteq Nat \ {0}

VARIABLES part,   \* the one that moves
          services, bare, plans, lookupLock, expiries, again, search, lazy, weekly,
          row, made, limit, userLock, req, started, saved,
          asked, answer,
          gmail, dead, evicting, result, inflight, job, scanLock, used, kept, scan
catalog == <<services, bare, plans, lookupLock, expiries, again, search, lazy, weekly>>
subs == <<row, made, limit, userLock, req, started, saved>>
dates == <<asked, answer>>
mail == <<gmail, dead, evicting, result, inflight, job, scanLock, used, kept, scan>>

Catalog == INSTANCE CatalogLookup WITH lock <- lookupLock
Subs == INSTANCE Subscriptions WITH lock <- userLock
Dates == INSTANCE BillingDates
Mail == INSTANCE GmailScan WITH lock <- scanLock, cache <- result

\* The parts that stand still do so in one state.
MCInit ==
    /\ part \in {"access", "catalog", "subscriptions", "dates", "mail"}
    /\ Init /\ Catalog!Init /\ Subs!Init /\ Dates!Init /\ Mail!Init
    /\ part # "subscriptions" => limit = CHOOSE l \in Limits : TRUE
    /\ part # "mail" => gmail = None
    /\ part # "dates" =>
          /\ asked.start = [m |-> 1, d |-> 1] /\ asked.now = [m |-> 1, d |-> 1]
          /\ asked.period = "WEEKLY" /\ asked.day = 0

AccessNext == part = "access" /\ Next /\ UNCHANGED <<part, catalog, subs, dates, mail>>
CatalogNext == part = "catalog" /\ Catalog!Next /\ UNCHANGED <<part, vars, subs, dates, mail>>
SubsNext == part = "subscriptions" /\ Subs!Next /\ UNCHANGED <<part, vars, catalog, dates, mail>>
DatesNext == part = "dates" /\ Dates!Next /\ UNCHANGED <<part, vars, catalog, subs, mail>>
MailNext == part = "mail" /\ Mail!Next /\ UNCHANGED <<part, vars, catalog, subs, dates>>
MCNext == AccessNext \/ CatalogNext \/ SubsNext \/ DatesNext \/ MailNext

MCSpec == MCInit /\ [][MCNext]_<<part, vars, catalog, subs, dates, mail>>

\* None, days that months have or lack, and one below zero.
MCBillingDays == {0, 15, 31, 40, -1}

\* Scans and grants are told apart by nothing but their names.
Symmetric == Permutations(Scans) \cup Permutations(Grants)

\* As in CatalogLookup.
ResearchPaysOff == part = "catalog" => Catalog!ResearchPaysOff

\* As in Subscriptions.
CreationsFit == part = "subscriptions" => Subs!CreationsFit

\* As in BillingDates.
NextIsTheFirstAfterToday == part = "dates" => Dates!NextIsTheFirstAfterToday

\* As in GmailScan.
ScansWithinQuota == part = "mail" => Mail!ScansWithinQuota
=============================================================================
