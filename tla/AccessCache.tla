----------------------------- MODULE AccessCache -----------------------------
(***************************************************************************)
(* The cache in front of EffectiveAccessResolver: a Map in every pod, with *)
(* a TTL, which applyTransition invalidates on its own pod.  What an       *)
(* answer is made of (EffectiveAccess) is abstracted to the versions of    *)
(* what it was computed from: the billing row, which is read first, and    *)
(* the rest (trial, workspace, membership, number of subscriptions), which *)
(* no writer invalidates.                                                  *)
(***************************************************************************)
EXTENDS Integers, FiniteSets

CONSTANTS Pods, Users,
          Requests,     \* the requests that can be under way at once
          Ttl,          \* TTL_MS
          CacheMax,     \* CACHE_MAX
          Drop,         \* the tenth of CACHE_MAX that is dropped when full
          MaxVersion,   \* bound on the writes of each part of a user's data
          MaxTime       \* bound on the clock

ASSUME CacheConstants ==
    /\ Pods # {} /\ Users # {}
    /\ Ttl \in Nat \ {0} /\ CacheMax \in Nat \ {0} /\ Drop \in 1 .. CacheMax
    /\ MaxVersion \in Nat /\ MaxTime \in Nat

Parts == {"billing", "rest"}
Version == 0 .. MaxVersion
Never == MaxTime + 1

VARIABLES clock,
          version,      \* user -> part -> the committed version
          replacedAt,   \* user -> part -> version -> when it was replaced
          cache,        \* pod -> entries, one per user
          request,      \* request -> what it is at
          write,        \* pod -> the transition it is in the middle of
          staleAnswer   \* an answer was older than the TTL when it was asked for
vars == <<clock, version, replacedAt, cache, request, write, staleAnswer>>

Entry == [user : Users, seen : [Parts -> Version], expiresAt : Nat]
Request == [step : {"idle", "row", "rest"}, pod : Pods, user : Users,
            start : Nat, seen : [Parts -> Version]]
Write == [step : {"none", "commit", "invalidate"}, user : Users]

TypeOK ==
    /\ clock \in 0 .. MaxTime
    /\ version \in [Users -> [Parts -> Version]]
    /\ replacedAt \in [Users -> [Parts -> [Version -> 0 .. Never]]]
    /\ cache \in [Pods -> SUBSET Entry]
    /\ request \in [Requests -> Request]
    /\ write \in [Pods -> Write]
    /\ staleAnswer \in BOOLEAN

Asked(step, p, u, start) ==
    [step |-> step, pod |-> p, user |-> u, start |-> start,
     seen |-> [k \in Parts |-> 0]]
Idle(p, u) == Asked("idle", p, u, 0)
NoWrite(u) == [step |-> "none", user |-> u]
AnyPod == CHOOSE p \in Pods : TRUE
AnyUser == CHOOSE u \in Users : TRUE

Init ==
    /\ clock = 0
    /\ version = [u \in Users |-> [k \in Parts |-> 0]]
    /\ replacedAt = [u \in Users |-> [k \in Parts |-> [v \in Version |-> Never]]]
    /\ cache = [p \in Pods |-> {}]
    /\ request = [r \in Requests |-> Idle(AnyPod, AnyUser)]
    /\ write = [p \in Pods |-> NoWrite(AnyUser)]
    /\ staleAnswer = FALSE

-----------------------------------------------------------------------------
(* resolve(userId)                                                         *)

Live(e) == e.expiresAt > clock
EntriesOf(p, u) == {e \in cache[p] : e.user = u}

\* Something the answer is made of had been replaced more than the TTL before
\* the answer was asked for.
TooOld(u, seen, asked) ==
    \E k \in Parts : replacedAt[u][k][seen[k]] + Ttl < asked

Answers(u, seen, asked) == staleAnswer' = (staleAnswer \/ TooOld(u, seen, asked))

Hit(p, u) ==
    /\ \E e \in EntriesOf(p, u) : Live(e) /\ Answers(u, e.seen, clock)
    /\ UNCHANGED <<clock, version, replacedAt, cache, request, write>>

\* What is left of the entries after the soft cap was applied: expired ones
\* go first, then, if all are fresh, the oldest tenth.
Room(es) ==
    IF Cardinality(es) < CacheMax THEN {es}
    ELSE LET fresh == {e \in es : Live(e)}
         IN  IF Cardinality(fresh) < CacheMax THEN {fresh}
             ELSE {kept \in SUBSET fresh :
                      Cardinality(kept) = Cardinality(fresh) - Drop}

Miss(r, p, u) ==
    /\ request[r].step = "idle"
    /\ \A e \in EntriesOf(p, u) : ~Live(e)
    /\ \E kept \in Room(cache[p] \ EntriesOf(p, u)) :
          cache' = [cache EXCEPT ![p] = kept]
    /\ request' = [request EXCEPT ![r] = Asked("row", p, u, clock)]
    /\ UNCHANGED <<clock, version, replacedAt, write, staleAnswer>>

\* computeResolve reads the user's row, and then everything else.
ReadRow(r) ==
    /\ request[r].step = "row"
    /\ request' = [request EXCEPT ![r].step = "rest",
          ![r].seen["billing"] = version[request[r].user]["billing"]]
    /\ UNCHANGED <<clock, version, replacedAt, cache, write, staleAnswer>>

\* Mutation: the TTL runs from the end of the computation.
ExpiresAfterRead(q) == clock + Ttl

\* The TTL runs from the start of the request.
ExpiresAt(q) == q.start + Ttl

ReadRest(r) ==
    LET q == request[r]
        seen == [q.seen EXCEPT !["rest"] = version[q.user]["rest"]]
    IN
    /\ q.step = "rest"
    /\ request' = [request EXCEPT ![r] = Idle(AnyPod, AnyUser)]
    /\ Answers(q.user, seen, q.start)
    /\ cache' = [cache EXCEPT ![q.pod] =
          (@ \ EntriesOf(q.pod, q.user))
             \cup {[user |-> q.user, seen |-> seen, expiresAt |-> ExpiresAt(q)]}]
    /\ UNCHANGED <<clock, version, replacedAt, write>>

-----------------------------------------------------------------------------
(* Writers                                                                 *)

Replace(u, part) ==
    /\ version[u][part] < MaxVersion
    /\ version' = [version EXCEPT ![u][part] = @ + 1]
    /\ replacedAt' = [replacedAt EXCEPT ![u][part][version[u][part]] = clock]

Invalidated(p, u) == [cache EXCEPT ![p] = @ \ EntriesOf(p, u)]

\* The row lock: a transaction that has written the row is not overtaken.
Locked(u) == \E p \in Pods : write[p] = [step |-> "commit", user |-> u]

\* applyTransition in a transaction of its own commits, then invalidates.
TransitionCommits(p, u) ==
    /\ write[p].step = "none" /\ ~Locked(u)
    /\ Replace(u, "billing")
    /\ write' = [write EXCEPT ![p] = [step |-> "invalidate", user |-> u]]
    /\ UNCHANGED <<clock, cache, request, staleAnswer>>

Invalidate(p) ==
    /\ write[p].step = "invalidate"
    /\ cache' = Invalidated(p, write[p].user)
    /\ write' = [write EXCEPT ![p].step = "none"]
    /\ UNCHANGED <<clock, version, replacedAt, request, staleAnswer>>

\* In the caller's transaction (opts.manager) it invalidates and returns; the
\* commit comes later, or never.
TransitionInCaller(p, u) ==
    /\ write[p].step = "none" /\ ~Locked(u)
    /\ version[u]["billing"] < MaxVersion
    /\ cache' = Invalidated(p, u)
    /\ write' = [write EXCEPT ![p] = [step |-> "commit", user |-> u]]
    /\ UNCHANGED <<clock, version, replacedAt, request, staleAnswer>>

CallerCommits(p) ==
    /\ write[p].step = "commit"
    /\ Replace(write[p].user, "billing")
    /\ write' = [write EXCEPT ![p].step = "none"]
    /\ UNCHANGED <<clock, cache, request, staleAnswer>>

CallerRollsBack(p) ==
    /\ write[p].step = "commit"
    /\ write' = [write EXCEPT ![p].step = "none"]
    /\ UNCHANGED <<clock, version, replacedAt, cache, request, staleAnswer>>

\* A trial, a membership or a subscription changes: no cache is told.
RestChanges(u) ==
    Replace(u, "rest") /\ UNCHANGED <<clock, cache, request, write, staleAnswer>>

-----------------------------------------------------------------------------

Restart(p) ==
    /\ cache' = [cache EXCEPT ![p] = {}]
    /\ write' = [write EXCEPT ![p].step = "none"]
    /\ request' = [r \in Requests |->
          IF request[r].pod = p THEN Idle(AnyPod, AnyUser) ELSE request[r]]
    /\ UNCHANGED <<clock, version, replacedAt, staleAnswer>>

Tick ==
    /\ clock < MaxTime /\ clock' = clock + 1
    /\ UNCHANGED <<version, replacedAt, cache, request, write, staleAnswer>>

Next ==
    \/ Tick
    \/ \E r \in Requests :
          \/ ReadRow(r) \/ ReadRest(r)
          \/ \E p \in Pods, u \in Users : Miss(r, p, u)
    \/ \E p \in Pods :
          \/ Invalidate(p) \/ CallerCommits(p) \/ CallerRollsBack(p) \/ Restart(p)
          \/ \E u \in Users :
                Hit(p, u) \/ TransitionCommits(p, u) \/ TransitionInCaller(p, u)
    \/ \E u \in Users : RestChanges(u)

Spec == Init /\ [][Next]_vars

-----------------------------------------------------------------------------
\* No answer is made of anything that was replaced longer than the TTL before
\* the request came: whatever is invalidated late, early, on another pod or
\* never, "any drift self-heals within a minute", also of an answer that took
\* long to compute (the TTL of resolve runs from its start).
AnswersAreFresh == ~staleAnswer
=============================================================================
