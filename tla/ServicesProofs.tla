--------------------------- MODULE ServicesProofs ---------------------------
(* For any pods, users, requests, searches, plans, quotas and              *)
(* interleavings: an answer is never made of anything that had been        *)
(* replaced longer than the TTL ago, research is asked for once at a time  *)
(* and stored as a whole, creations that run at once fit the plan          *)
(* together, and no day keeps more scans than the quota.  For any start,   *)
(* billing day and today, the next payment is after today, and the first   *)
(* of the schedule that is.                                                *)
EXTENDS MCServices, FiniteSetTheorems, WellFoundedInduction, TLAPS

-----------------------------------------------------------------------------
(* AccessCache                                                             *)

\* Everything in `seen` was current at `from` or later.
Fresh(u, seen, from) == \A k \in Parts : replacedAt[u][k][seen[k]] >= from

\* What is current has not been replaced.
CurrentNotReplaced ==
    \A u \in Users, k \in Parts, v \in Version :
        v >= version[u][k] => replacedAt[u][k][v] = Never

EntriesFresh ==
    \A p \in Pods : \A e \in cache[p] :
        e.expiresAt - Ttl <= clock /\ Fresh(e.user, e.seen, e.expiresAt - Ttl)

RequestsFresh ==
    \A r \in Requests :
        /\ request[r].start <= clock
        /\ request[r].step = "rest" =>
              replacedAt[request[r].user]["billing"][request[r].seen["billing"]]
                 >= request[r].start

Inv == TypeOK /\ CurrentNotReplaced /\ EntriesFresh /\ RequestsFresh /\ ~staleAnswer

LEMMA Choices == AnyPod \in Pods /\ AnyUser \in Users
BY CacheConstants DEF AnyPod, AnyUser

LEMMA IdleIsRequest == ASSUME NEW p \in Pods, NEW u \in Users PROVE Idle(p, u) \in Request
BY CacheConstants DEF Idle, Asked, Request, Version

LEMMA InitInv == Init => Inv
<1> SUFFICES ASSUME Init PROVE Inv
  OBVIOUS
<1> USE CacheConstants, Choices DEF Init
<1>1. request \in [Requests -> Request] /\ write \in [Pods -> Write]
  BY IdleIsRequest DEF NoWrite, Write
<1>2. /\ version \in [Users -> [Parts -> Version]]
      /\ replacedAt \in [Users -> [Parts -> [Version -> 0 .. Never]]]
      /\ cache \in [Pods -> SUBSET Entry]
  BY DEF Version, Never
<1>7. clock \in 0 .. MaxTime
  <2>1. clock = 0 /\ MaxTime \in Nat
    OBVIOUS
  <2> QED BY ONLY <2>1
<1>8. staleAnswer \in BOOLEAN
  OBVIOUS
<1>3. TypeOK
  BY ONLY <1>1, <1>2, <1>7, <1>8 DEF TypeOK
<1>4. CurrentNotReplaced
  BY DEF CurrentNotReplaced
<1>5. EntriesFresh
  BY DEF EntriesFresh
<1>6. RequestsFresh
  BY DEF RequestsFresh, Idle, Asked
<1> QED BY <1>3, <1>4, <1>5, <1>6 DEF Inv

-----------------------------------------------------------------------------
\* Replacing the current version of one part leaves everything as fresh as it
\* was: what is replaced now is replaced no earlier than any request started.
LEMMA ReplaceKeeps ==
    ASSUME Inv, NEW u \in Users, NEW k \in Parts, Replace(u, k),
           NEW w \in Users, NEW j \in Parts, NEW v \in Version
    PROVE  /\ version' \in [Users -> [Parts -> Version]]
           /\ replacedAt' \in [Users -> [Parts -> [Version -> 0 .. Never]]]
           /\ CurrentNotReplaced'
           /\ \A t \in Int : t <= clock /\ replacedAt[w][j][v] >= t
                 => replacedAt'[w][j][v] >= t
<1>0. /\ MaxVersion \in Nat /\ MaxTime \in Nat /\ clock \in 0 .. MaxTime
      /\ version \in [Users -> [Parts -> 0 .. MaxVersion]]
      /\ replacedAt \in [Users -> [Parts -> [0 .. MaxVersion -> 0 .. MaxTime + 1]]]
      /\ version[u][k] \in 0 .. MaxVersion /\ version[u][k] < MaxVersion
      /\ version' = [version EXCEPT ![u][k] = @ + 1]
      /\ replacedAt' = [replacedAt EXCEPT ![u][k][version[u][k]] = clock]
  BY CacheConstants DEF Inv, TypeOK, Replace, Version, Never
<1> USE <1>0 DEF Version, Never
<1>1. version[u][k] + 1 \in Version /\ clock \in 0 .. Never
  <2>1. /\ MaxVersion \in Nat /\ MaxTime \in Nat /\ clock \in 0 .. MaxTime
        /\ version[u][k] \in 0 .. MaxVersion /\ version[u][k] < MaxVersion
    BY ONLY <1>0
  <2> QED BY ONLY <2>1 DEF Version, Never
<1>2. version' \in [Users -> [Parts -> Version]]
  BY <1>1
<1>3. replacedAt' \in [Users -> [Parts -> [Version -> 0 .. Never]]]
  BY <1>1
<1>4. CurrentNotReplaced'
  <2> SUFFICES ASSUME NEW x \in Users, NEW y \in Parts, NEW z \in Version,
                      z >= version'[x][y]
               PROVE  replacedAt'[x][y][z] = Never
    BY DEF CurrentNotReplaced
  <2>1. CASE x = u /\ y = k
    <3>1. version'[u][k] = version[u][k] + 1
      OBVIOUS
    <3>2. z >= version[u][k] + 1
      BY <2>1, <3>1
    <3>5. z # version[u][k] /\ z >= version[u][k]
      <4>1. z \in Int /\ version[u][k] \in Int
        BY ONLY <1>0, z \in Version DEF Version
      <4> QED BY ONLY <3>2, <4>1
    <3>3. replacedAt'[u][k][z] = replacedAt[u][k][z]
      BY <2>1, <3>5
    <3>4. replacedAt[u][k][z] = Never
      BY <3>5 DEF Inv, CurrentNotReplaced
    <3> QED BY ONLY <2>1, <3>3, <3>4
  <2>2. CASE ~(x = u /\ y = k)
    <3>1. version'[x][y] = version[x][y] /\ replacedAt'[x][y] = replacedAt[x][y]
      BY <2>2
    <3>2. \A a \in Users, b \in Parts, c \in Version :
             c >= version[a][b] => replacedAt[a][b][c] = Never
      BY ONLY Inv DEF Inv, CurrentNotReplaced
    <3>3. z >= version[x][y]
      BY ONLY <3>1, z >= version'[x][y]
    <3> QED BY ONLY <3>1, <3>2, <3>3, x \in Users, y \in Parts, z \in Version
  <2> QED BY <2>1, <2>2
<1>5. ASSUME NEW t \in Int, t <= clock, replacedAt[w][j][v] >= t
      PROVE  replacedAt'[w][j][v] >= t
  <2>1. CASE w = u /\ j = k /\ v = version[u][k]
    <3>1. replacedAt'[w][j][v] = clock
      BY <2>1
    <3> QED BY <3>1, <1>5
  <2>2. CASE ~(w = u /\ j = k /\ v = version[u][k])
    <3>1. replacedAt'[w][j][v] = replacedAt[w][j][v]
      <4>1. CASE w = u /\ j = k
        <5>1. v # version[u][k]
          BY <2>2, <4>1
        <5>2. replacedAt'[u][k] = [replacedAt[u][k] EXCEPT ![version[u][k]] = clock]
          OBVIOUS
        <5> QED BY <4>1, <5>1, <5>2
      <4>2. CASE ~(w = u /\ j = k)
        <5>1. replacedAt'[w][j] = replacedAt[w][j]
          BY <4>2
        <5> QED BY <5>1
      <4> QED BY <4>1, <4>2
    <3> QED BY <3>1, <1>5
  <2> QED BY <2>1, <2>2
<1> QED BY <1>2, <1>3, <1>4, <1>5

-----------------------------------------------------------------------------
\* A step that changes only the entries and requests as the actions do keeps
\* their freshness: stated once for the steps that replace something.
LEMMA ReplaceStep ==
    ASSUME Inv, NEW u \in Users, NEW k \in Parts, Replace(u, k),
           UNCHANGED <<clock, cache, request, staleAnswer>>,
           write' \in [Pods -> Write]
    PROVE  Inv'
<1>1. /\ version' \in [Users -> [Parts -> Version]]
      /\ replacedAt' \in [Users -> [Parts -> [Version -> 0 .. Never]]]
      /\ CurrentNotReplaced'
  <2>1. 0 \in Version
    BY CacheConstants DEF Version
  <2> QED BY <2>1, ReplaceKeeps
<1>2. TypeOK'
  BY <1>1 DEF Inv, TypeOK
<1>3. EntriesFresh'
  <2> SUFFICES ASSUME NEW p \in Pods, NEW e \in cache[p], NEW j \in Parts
               PROVE  /\ e.expiresAt - Ttl <= clock
                      /\ replacedAt'[e.user][j][e.seen[j]] >= e.expiresAt - Ttl
    BY DEF EntriesFresh, Fresh
  <2>1. /\ e.user \in Users /\ e.seen[j] \in Version /\ e.expiresAt - Ttl \in Int
        /\ e.expiresAt - Ttl <= clock
        /\ replacedAt[e.user][j][e.seen[j]] >= e.expiresAt - Ttl
    BY CacheConstants DEF Inv, TypeOK, Entry, EntriesFresh, Fresh
  <2> QED BY <2>1, ReplaceKeeps
<1>4. RequestsFresh'
  <2> SUFFICES ASSUME NEW r \in Requests
               PROVE  /\ request[r].start <= clock
                      /\ request[r].step = "rest" =>
                           replacedAt'[request[r].user]["billing"]
                              [request[r].seen["billing"]] >= request[r].start
    BY DEF RequestsFresh
  <2>1. /\ request[r].user \in Users /\ request[r].seen["billing"] \in Version
        /\ "billing" \in Parts /\ request[r].start \in Int
        /\ request[r].start <= clock
        /\ request[r].step = "rest" =>
             replacedAt[request[r].user]["billing"][request[r].seen["billing"]]
                >= request[r].start
    BY DEF Inv, TypeOK, Request, RequestsFresh, Parts
  <2> QED BY <2>1, ReplaceKeeps
<1> QED BY <1>1, <1>2, <1>3, <1>4 DEF Inv
-----------------------------------------------------------------------------
\* A step that replaces nothing keeps the answers fresh if what it adds is.
LEMMA SmallerCache ==
    ASSUME Inv, UNCHANGED <<clock, version, replacedAt, staleAnswer>>,
           cache' \in [Pods -> SUBSET Entry],
           \A p \in Pods : cache'[p] \subseteq cache[p],
           request' \in [Requests -> Request], write' \in [Pods -> Write],
           RequestsFresh'
    PROVE  Inv'
<1>1. TypeOK'
  BY DEF Inv, TypeOK
<1>2. CurrentNotReplaced'
  BY DEF Inv, CurrentNotReplaced
<1>3. EntriesFresh'
  BY DEF Inv, EntriesFresh, Fresh
<1> QED BY <1>1, <1>2, <1>3 DEF Inv

LEMMA SameRequests ==
    ASSUME Inv, UNCHANGED <<clock, version, replacedAt, request>>
    PROVE  RequestsFresh' /\ request' \in [Requests -> Request]
BY DEF Inv, RequestsFresh, TypeOK

LEMMA HitInv == ASSUME Inv, NEW p \in Pods, NEW u \in Users, Hit(p, u) PROVE Inv'
<1>1. PICK e \in EntriesOf(p, u) : Live(e) /\ Answers(u, e.seen, clock)
  BY DEF Hit
<1>2. ~TooOld(u, e.seen, clock)
  <2> SUFFICES ASSUME NEW k \in Parts
               PROVE  ~(replacedAt[u][k][e.seen[k]] + Ttl < clock)
    BY DEF TooOld
  <2>1. /\ e \in cache[p] /\ e.user = u /\ e.expiresAt > clock
        /\ e.expiresAt \in Int /\ clock \in Int /\ Ttl \in Int
    BY <1>1, CacheConstants DEF EntriesOf, Live, Inv, TypeOK, Entry
  <2>2. /\ replacedAt[u][k][e.seen[k]] >= e.expiresAt - Ttl
        /\ e.seen[k] \in Version /\ replacedAt[u][k][e.seen[k]] \in Int
    BY <2>1, CacheConstants
       DEF Inv, EntriesFresh, Fresh, TypeOK, Entry, Never
  <2> QED BY <2>1, <2>2
<1>4. staleAnswer = FALSE /\ staleAnswer' = (staleAnswer \/ TooOld(u, e.seen, clock))
  <2>1. ~staleAnswer /\ staleAnswer \in BOOLEAN
    BY DEF Inv, TypeOK
  <2>2. staleAnswer = FALSE
    BY ONLY <2>1, Zenon
  <2> QED BY <1>1, <2>2 DEF Answers
<1>5. staleAnswer' = staleAnswer
  BY ONLY <1>2, <1>4, Zenon
<1>3. UNCHANGED vars
  BY <1>5 DEF Hit, vars
<1> QED BY <1>3 DEF vars, Inv, TypeOK, CurrentNotReplaced, EntriesFresh, Fresh,
                    RequestsFresh

LEMMA MissInv ==
    ASSUME Inv, NEW r \in Requests, NEW p \in Pods, NEW u \in Users, Miss(r, p, u)
    PROVE  Inv'
<1>1. PICK room \in Room(cache[p] \ EntriesOf(p, u)) :
         cache' = [cache EXCEPT ![p] = room]
  BY DEF Miss
<1>2. room \subseteq cache[p]
  BY <1>1 DEF Room
<1>3. Asked("row", p, u, clock) \in Request
  BY CacheConstants DEF Asked, Request, Version, Inv, TypeOK
<1>4. request' = [request EXCEPT ![r] = Asked("row", p, u, clock)]
  BY DEF Miss
<1>5. RequestsFresh'
  <2>1. UNCHANGED <<clock, version, replacedAt>> /\ clock <= clock
    BY DEF Miss, Inv, TypeOK
  <2>2. request'[r].start = clock /\ request'[r].step = "row"
    BY <1>4 DEF Idle, Asked, Inv, TypeOK
  <2>3. \A q \in Requests : q # r => request'[q] = request[q]
    BY <1>4 DEF Inv, TypeOK
  <2> QED BY <2>1, <2>2, <2>3 DEF Inv, RequestsFresh
<1>6. request' \in [Requests -> Request]
  BY <1>3, <1>4 DEF Inv, TypeOK
<1>7. /\ cache' \in [Pods -> SUBSET Entry]
      /\ \A q \in Pods : cache'[q] \subseteq cache[q]
  BY <1>1, <1>2 DEF Inv, TypeOK
<1> QED BY <1>5, <1>6, <1>7, SmallerCache DEF Miss, Inv, TypeOK
LEMMA ReadRowInv == ASSUME Inv, NEW r \in Requests, ReadRow(r) PROVE Inv'
<1> DEFINE u == request[r].user
           b == version[u]["billing"]
<1>1. request' = [request EXCEPT ![r].step = "rest", ![r].seen["billing"] = b]
  BY DEF ReadRow
<1>2. /\ request[r] \in Request /\ u \in Users /\ "billing" \in Parts
      /\ b \in Version /\ clock \in 0 .. MaxTime /\ request[r].start \in Nat
      /\ request[r].seen \in [Parts -> Version] /\ request \in [Requests -> Request]
  BY DEF Inv, TypeOK, Request, Parts
<1>7. /\ request'[r] = [request[r] EXCEPT !.step = "rest", !.seen["billing"] = b]
      /\ \A q \in Requests : q # r => request'[q] = request[q]
      /\ request' = [q \in Requests |-> request'[q]]
  BY <1>1, <1>2
<1>8. request'[r] = [step |-> "rest", pod |-> request[r].pod, user |-> u,
                     start |-> request[r].start,
                     seen |-> [request[r].seen EXCEPT !["billing"] = b]]
  BY <1>2, <1>7 DEF Request
<1>3. request' \in [Requests -> Request]
  <2>1. [request[r].seen EXCEPT !["billing"] = b] \in [Parts -> Version]
    BY <1>2
  <2>2. request'[r] \in Request
    BY <1>2, <1>8, <2>1 DEF Request
  <2> QED BY <1>2, <1>7, <2>2
<1>4. replacedAt[u]["billing"][b] = Never
  <2>1. b >= b
    BY <1>2 DEF Version
  <2> QED BY <1>2, <2>1 DEF Inv, CurrentNotReplaced
<1>5. request[r].start <= Never
  BY <1>2, CacheConstants DEF Inv, RequestsFresh, Never
<1>6. RequestsFresh'
  <2>1. /\ request'[r].start = request[r].start /\ request'[r].user = u
        /\ request'[r].seen["billing"] = b
    BY <1>2, <1>8
  <2>2. \A q \in Requests : q # r => request'[q] = request[q]
    BY <1>7
  <2>3. UNCHANGED <<clock, replacedAt>>
    BY DEF ReadRow
  <2>4. Never >= request[r].start
    BY <1>2, <1>5, CacheConstants DEF Never
  <2> QED BY <1>4, <2>1, <2>2, <2>3, <2>4 DEF Inv, RequestsFresh
<1> QED BY <1>3, <1>6, SmallerCache DEF ReadRow, Inv, TypeOK

\* The computed answer, and the entry made of it, are as fresh as the request
\* is old: both parts were current after it had started.
LEMMA ReadRestInv == ASSUME Inv, NEW r \in Requests, ReadRest(r) PROVE Inv'
<1> DEFINE q == request[r]
           now == version[q.user]["rest"]
           seen == [q.seen EXCEPT !["rest"] = now]
           entry == [user |-> q.user, seen |-> seen, expiresAt |-> ExpiresAt(q)]
<1>1. /\ q \in Request /\ q.user \in Users /\ q.pod \in Pods
      /\ q.seen \in [Parts -> Version] /\ Parts = {"billing", "rest"}
      /\ now \in Version /\ q.start \in Nat /\ q.start <= clock
      /\ clock \in 0 .. MaxTime /\ Ttl \in Nat /\ q.step = "rest"
  BY CacheConstants DEF Inv, TypeOK, Request, Parts, RequestsFresh, ReadRest
<1>2. seen \in [Parts -> Version]
  BY <1>1
<1>3. Fresh(q.user, seen, q.start)
  <2>1. replacedAt[q.user]["rest"][now] = Never
    <3>1. now >= now
      BY <1>1 DEF Version
    <3> QED BY <1>1, <3>1 DEF Inv, CurrentNotReplaced
  <2>2. Never >= q.start
    BY <1>1, CacheConstants DEF Never
  <2>3. replacedAt[q.user]["billing"][q.seen["billing"]] >= q.start
    BY <1>1 DEF Inv, RequestsFresh
  <2>4. seen["rest"] = now /\ seen["billing"] = q.seen["billing"]
    BY <1>1
  <2> QED BY <1>1, <2>1, <2>2, <2>3, <2>4 DEF Fresh
<1>4. entry \in Entry /\ entry.expiresAt - Ttl = q.start
  BY <1>1, <1>2 DEF Entry, ExpiresAt
<1>5. cache' = [cache EXCEPT ![q.pod] = (@ \ EntriesOf(q.pod, q.user)) \cup {entry}]
  BY DEF ReadRest
<1>6. ~TooOld(q.user, seen, q.start)
  <2> SUFFICES ASSUME NEW k \in Parts
               PROVE  ~(replacedAt[q.user][k][seen[k]] + Ttl < q.start)
    BY DEF TooOld
  <2>1. /\ replacedAt[q.user][k][seen[k]] >= q.start
        /\ replacedAt[q.user][k][seen[k]] \in Int
    BY <1>1, <1>2, <1>3, CacheConstants DEF Fresh, Inv, TypeOK, Never
  <2> QED BY <1>1, <2>1
<1>7. staleAnswer' = staleAnswer
  <2>1. ~staleAnswer /\ staleAnswer \in BOOLEAN
    BY DEF Inv, TypeOK
  <2>2. staleAnswer' = (staleAnswer \/ TooOld(q.user, seen, q.start))
    BY DEF ReadRest, Answers
  <2> QED BY ONLY <1>6, <2>1, <2>2, Zenon
<1>8. request' = [request EXCEPT ![r] = Idle(AnyPod, AnyUser)]
      /\ UNCHANGED <<clock, version, replacedAt, write>>
  BY DEF ReadRest
<1>9. TypeOK'
  <2>1. request' \in [Requests -> Request]
    BY <1>8, IdleIsRequest, Choices DEF Inv, TypeOK
  <2>2. cache' \in [Pods -> SUBSET Entry]
    BY <1>4, <1>5 DEF Inv, TypeOK
  <2> QED BY <1>7, <1>8, <2>1, <2>2 DEF Inv, TypeOK
<1>10. EntriesFresh'
  <2> SUFFICES ASSUME NEW p \in Pods, NEW e \in cache'[p]
               PROVE  e.expiresAt - Ttl <= clock
                        /\ Fresh(e.user, e.seen, e.expiresAt - Ttl)
    BY <1>8 DEF EntriesFresh, Fresh
  <2>1. CASE e = entry
    BY <1>1, <1>3, <1>4, <2>1
  <2>2. CASE e # entry
    <3>1. e \in cache[p]
      BY <1>5, <2>2 DEF Inv, TypeOK
    <3> QED BY <3>1 DEF Inv, EntriesFresh
  <2> QED BY <2>1, <2>2
<1>11. RequestsFresh'
  <2>1. request'[r].start = 0 /\ request'[r].step = "idle"
    BY <1>8 DEF Idle, Asked, Inv, TypeOK
  <2>2. \A o \in Requests : o # r => request'[o] = request[o]
    BY <1>8 DEF Inv, TypeOK
  <2>3. 0 <= clock
    BY <1>1
  <2> QED BY <1>8, <2>1, <2>2, <2>3 DEF Inv, RequestsFresh
<1>12. CurrentNotReplaced'
  BY <1>8 DEF Inv, CurrentNotReplaced
<1> QED BY <1>7, <1>9, <1>10, <1>11, <1>12 DEF Inv
-----------------------------------------------------------------------------
\* The other steps, one fact each.
LEMMA WritersInv ==
    ASSUME Inv, NEW p \in Pods
    PROVE  /\ Invalidate(p) => Inv'
           /\ CallerCommits(p) => Inv'
           /\ CallerRollsBack(p) => Inv'
           /\ \A u \in Users : TransitionCommits(p, u) => Inv'
           /\ \A u \in Users : TransitionInCaller(p, u) => Inv'
<1> USE CacheConstants DEF Parts
<1>1. ASSUME Invalidate(p) PROVE Inv'
  <2>1. /\ cache' \in [Pods -> SUBSET Entry] /\ write' \in [Pods -> Write]
        /\ \A q \in Pods : cache'[q] \subseteq cache[q]
    BY <1>1 DEF Invalidate, Invalidated, Inv, TypeOK, Write
  <2> QED BY <1>1, <2>1, SmallerCache, SameRequests DEF Invalidate
<1>2. ASSUME CallerCommits(p) PROVE Inv'
  <2>1. write[p].user \in Users /\ write' \in [Pods -> Write] /\ "billing" \in Parts
    BY <1>2 DEF CallerCommits, Inv, TypeOK, Write
  <2> QED BY <1>2, <2>1, ReplaceStep DEF CallerCommits
<1>3. ASSUME CallerRollsBack(p) PROVE Inv'
  <2>1. /\ cache' \in [Pods -> SUBSET Entry] /\ write' \in [Pods -> Write]
        /\ \A q \in Pods : cache'[q] \subseteq cache[q]
    BY <1>3 DEF CallerRollsBack, Inv, TypeOK, Write
  <2> QED BY <1>3, <2>1, SmallerCache, SameRequests DEF CallerRollsBack
<1>4. ASSUME NEW u \in Users, TransitionCommits(p, u) PROVE Inv'
  <2>1. write' \in [Pods -> Write] /\ "billing" \in Parts
    BY <1>4 DEF TransitionCommits, Inv, TypeOK, Write
  <2> QED BY <1>4, <2>1, ReplaceStep DEF TransitionCommits
<1>5. ASSUME NEW u \in Users, TransitionInCaller(p, u) PROVE Inv'
  <2>1. /\ cache' \in [Pods -> SUBSET Entry] /\ write' \in [Pods -> Write]
        /\ \A q \in Pods : cache'[q] \subseteq cache[q]
    BY <1>5 DEF TransitionInCaller, Invalidated, Inv, TypeOK, Write
  <2> QED BY <1>5, <2>1, SmallerCache, SameRequests DEF TransitionInCaller
<1> QED BY <1>1, <1>2, <1>3, <1>4, <1>5

LEMMA RestartInv == ASSUME Inv, NEW p \in Pods, Restart(p) PROVE Inv'
<1>1. /\ cache' \in [Pods -> SUBSET Entry] /\ write' \in [Pods -> Write]
      /\ \A q \in Pods : cache'[q] \subseteq cache[q]
  BY DEF Restart, Inv, TypeOK, Write
<1>2. request' \in [Requests -> Request]
  BY IdleIsRequest, Choices DEF Restart, Inv, TypeOK
<1>3. RequestsFresh'
  <2> SUFFICES ASSUME NEW r \in Requests
               PROVE  /\ request'[r].start <= clock
                      /\ request'[r].step = "rest" =>
                           replacedAt[request'[r].user]["billing"]
                              [request'[r].seen["billing"]] >= request'[r].start
    BY DEF Restart, RequestsFresh
  <2>1. CASE request[r].pod = p
    <3>1. request'[r].start = 0 /\ request'[r].step = "idle" /\ 0 <= clock
      BY <2>1 DEF Restart, Idle, Asked, Inv, TypeOK
    <3> QED BY <3>1
  <2>2. CASE request[r].pod # p
    BY <2>2 DEF Restart, Inv, RequestsFresh
  <2> QED BY <2>1, <2>2
<1> QED BY <1>1, <1>2, <1>3, SmallerCache DEF Restart

LEMMA TickInv == Inv /\ Tick => Inv'
<1> SUFFICES ASSUME Inv, Tick PROVE Inv'
  OBVIOUS
<1>1. /\ clock \in Nat /\ clock' = clock + 1 /\ clock' \in 0 .. MaxTime
      /\ UNCHANGED <<version, replacedAt, cache, request, write, staleAnswer>>
  BY CacheConstants DEF Tick, Inv, TypeOK
<1>2. TypeOK'
  BY <1>1 DEF Inv, TypeOK
<1>3. EntriesFresh'
  <2> SUFFICES ASSUME NEW p \in Pods, NEW e \in cache[p]
               PROVE  e.expiresAt - Ttl <= clock + 1
                        /\ Fresh(e.user, e.seen, e.expiresAt - Ttl)
    BY <1>1 DEF EntriesFresh, Fresh
  <2>1. e.expiresAt \in Int /\ Ttl \in Int
    BY CacheConstants DEF Inv, TypeOK, Entry
  <2> QED BY <1>1, <2>1 DEF Inv, EntriesFresh
<1>4. RequestsFresh'
  <2>1. \A r \in Requests : request[r].start \in Int
    BY DEF Inv, TypeOK, Request
  <2> QED BY <1>1, <2>1 DEF Inv, RequestsFresh
<1> QED BY <1>1, <1>2, <1>3, <1>4 DEF Inv, CurrentNotReplaced

LEMMA NextInv == Inv /\ [Next]_vars => Inv'
<1> SUFFICES ASSUME Inv, [Next]_vars PROVE Inv'
  OBVIOUS
<1>1. CASE Tick
  BY <1>1, TickInv
<1>2. ASSUME NEW r \in Requests, ReadRow(r) PROVE Inv'
  BY <1>2, ReadRowInv
<1>3. ASSUME NEW r \in Requests, ReadRest(r) PROVE Inv'
  BY <1>3, ReadRestInv
<1>4. ASSUME NEW r \in Requests, NEW p \in Pods, NEW u \in Users, Miss(r, p, u)
      PROVE  Inv'
  BY <1>4, MissInv
<1>5. ASSUME NEW p \in Pods, NEW u \in Users, Hit(p, u) PROVE Inv'
  BY <1>5, HitInv
<1>6. ASSUME NEW p \in Pods, Restart(p) PROVE Inv'
  BY <1>6, RestartInv
<1>7. ASSUME NEW u \in Users, RestChanges(u) PROVE Inv'
  BY <1>7, ReplaceStep DEF RestChanges, Parts, Inv, TypeOK
<1>8. CASE UNCHANGED vars
  BY <1>8 DEF vars, Inv, TypeOK, CurrentNotReplaced, EntriesFresh, Fresh,
              RequestsFresh
<1> QED BY <1>1, <1>2, <1>3, <1>4, <1>5, <1>6, <1>7, <1>8, WritersInv DEF Next

\* The steps of resolve, of the writers, of time and of restarts all keep Inv.
THEOREM InvHolds == Spec => []Inv
BY InitInv, NextInv, PTL DEF Spec

\* However late, early or never the cache is told: no answer is made of
\* anything replaced longer than the TTL before it was asked for.
THEOREM Freshness == Spec => []AnswersAreFresh
<1>1. Inv => AnswersAreFresh
  BY DEF Inv, AnswersAreFresh
<1> QED BY <1>1, InvHolds, PTL

-----------------------------------------------------------------------------
(* CatalogLookup: a row goes missing never, the lock is one, and few ask   *)
(* for what is there                                                       *)

\* A search that has taken the lock and not let go of it yet.
AtWork == {"research", "store", "unlock"}
Working == {s \in Searches : search[s].step \in AtWork}

\* Those at work without the lock are as many as outlived it: one that lets go
\* of another's lock leaves that one without, but works no more itself.
FewWithoutLock == Cardinality(Working \ {lookupLock}) <= expiries

ResearchInv ==
    /\ services \subseteq Slugs /\ expiries \in Nat
    /\ plans \in [Catalog!Plan -> Catalog!Prices]
    /\ \A s \in Searches :
          search[s] \in [step : Catalog!Steps, region : Regions, answer : {"found", "failed"}]
    /\ search = [s \in Searches |-> search[s]]
    /\ Catalog!ServicesHavePlans
    /\ FewWithoutLock

LEMMA CatalogCardinality == \A S : Catalog!Cardinality(S) = Cardinality(S)
  BY DEF Catalog!Cardinality, Cardinality, Catalog!IsFiniteSet, IsFiniteSet

LEMMA FewSearches ==
    ASSUME NEW S \in SUBSET Searches, NEW T \in SUBSET S, NEW x
    PROVE  /\ Cardinality(S) \in Nat /\ Cardinality(T) \in Nat
           /\ Cardinality(T) <= Cardinality(S) /\ Cardinality(S \ {x}) \in Nat
           /\ Cardinality(S) <= Cardinality(S \ {x}) + 1
           /\ x \in S => Cardinality(S \ {x}) = Cardinality(S) - 1
<1>1. IsFiniteSet(S) BY ServicesConstants, FS_Subset
<1>2. IsFiniteSet(T) /\ Cardinality(T) <= Cardinality(S) BY <1>1, FS_Subset
<1>3. Cardinality(S) \in Nat /\ Cardinality(T) \in Nat BY <1>1, <1>2, FS_CardinalityType
<1>4. CASE x \in S
  <2>1. Cardinality(S \ {x}) = Cardinality(S) - 1 /\ IsFiniteSet(S \ {x})
    BY <1>1, <1>4, FS_RemoveElement
  <2> QED BY <1>2, <1>3, <2>1, FS_CardinalityType
<1>5. CASE x \notin S
  <2>1. S \ {x} = S BY <1>5
  <2> QED BY <1>2, <1>3, <1>5, <2>1
<1> QED BY <1>4, <1>5

\* One search moves on, and none begins to work.
LEMMA QuietStep ==
    ASSUME ResearchInv, NEW s \in Searches, NEW x,
           x \in [step : Catalog!Steps, region : Regions, answer : {"found", "failed"}],
           search' = [search EXCEPT ![s] = x],
           x.step \in AtWork => search[s].step \in AtWork,
           UNCHANGED <<lookupLock, expiries>>,
           services' \subseteq Slugs, plans' \in [Catalog!Plan -> Catalog!Prices],
           Catalog!ServicesHavePlans'
    PROVE  ResearchInv'
<1>1. search' = [q \in Searches |-> IF q = s THEN x ELSE search[q]] BY DEF ResearchInv
<1>2. Working' \ {lookupLock'} \in SUBSET (Working \ {lookupLock})
      /\ Working \ {lookupLock} \in SUBSET Searches
  BY <1>1 DEF Working
<1>3. FewWithoutLock'
  <2>1. /\ Cardinality(Working' \ {lookupLock'}) <= Cardinality(Working \ {lookupLock})
        /\ Cardinality(Working' \ {lookupLock'}) \in Nat
        /\ Cardinality(Working \ {lookupLock}) \in Nat
    BY <1>2, FewSearches
  <2>2. /\ Cardinality(Working \ {lookupLock}) <= expiries /\ expiries \in Nat
        /\ expiries' = expiries
    BY DEF FewWithoutLock, ResearchInv
  <2> QED BY <2>1, <2>2 DEF FewWithoutLock
<1>4. \A q \in Searches :
        search'[q] \in [step : Catalog!Steps, region : Regions, answer : {"found", "failed"}]
  BY <1>1 DEF ResearchInv
<1> QED BY <1>1, <1>3, <1>4 DEF ResearchInv

\* A transaction stores the service and its plan, or the service without one,
\* or nothing.
LEMMA StoreStep ==
    ASSUME ResearchInv, NEW s \in Searches, Catalog!Store(s)
    PROVE  ResearchInv'
<1> DEFINE stored == [search[s] EXCEPT !.step = "unlock", !.answer = "found"]
           undone == [search[s] EXCEPT !.step = "unlock"]
<1>1. /\ search[s].step = "store" /\ UNCHANGED <<lookupLock, expiries>>
      /\ search[s] \in [step : Catalog!Steps, region : Regions, answer : {"found", "failed"}]
      /\ plans \in [Catalog!Plan -> Catalog!Prices] /\ services \subseteq Slugs
  BY DEF ResearchInv, Catalog!Store, Catalog!At
<1>2. PICK slug \in Slugs :
        LET plan == [slug |-> slug, region |-> search[s].region]
        IN  \/ /\ plans[plan] = "missing" /\ search' = [search EXCEPT ![s] = stored]
               /\ services' = services \cup {slug}
               /\ plans' = [plans EXCEPT ![plan] = "fresh"] /\ bare' = bare
            \/ /\ search' = [search EXCEPT ![s] = stored]
               /\ services' = services \cup {slug}
               /\ bare' = bare \cup ({slug} \ services) /\ plans' = plans
            \/ /\ search' = [search EXCEPT ![s] = undone]
               /\ services' = services /\ bare' = bare /\ plans' = plans
  <2>1. search = [q \in Searches |-> search[q]] BY DEF ResearchInv
  <2> QED BY <2>1 DEF Catalog!Store, Catalog!Goto
<1>3. /\ stored \in [step : Catalog!Steps, region : Regions, answer : {"found", "failed"}]
      /\ undone \in [step : Catalog!Steps, region : Regions, answer : {"found", "failed"}]
      /\ stored.step = "unlock" /\ undone.step = "unlock"
  BY <1>1 DEF Catalog!Steps
<1> HIDE DEF stored, undone
<1> DEFINE plan == [slug |-> slug, region |-> search[s].region]
<1>4. plan \in Catalog!Plan BY <1>1 DEF Catalog!Plan
<1>5. /\ search' \in {[search EXCEPT ![s] = stored], [search EXCEPT ![s] = undone]}
      /\ plans' \in [Catalog!Plan -> Catalog!Prices] /\ services' \subseteq Slugs
  BY <1>1, <1>2, <1>4 DEF Catalog!Prices
<1>6. Catalog!ServicesHavePlans'
  <2> SUFFICES ASSUME NEW g \in services' \ bare'
               PROVE  \E r \in Regions : plans'[[slug |-> g, region |-> r]] # "missing"
    BY DEF Catalog!ServicesHavePlans
  <2>1. CASE g \in services \ bare
    <3>1. PICK r \in Regions : plans[[slug |-> g, region |-> r]] # "missing"
      BY <2>1 DEF ResearchInv, Catalog!ServicesHavePlans
    <3>2. plans' \in {plans, [plans EXCEPT ![plan] = "fresh"]} BY <1>2
    <3>3. [slug |-> g, region |-> r] \in Catalog!Plan BY <1>1, <2>1 DEF Catalog!Plan
    <3>4. plans'[[slug |-> g, region |-> r]] # "missing"
      <4> DEFINE other == [slug |-> g, region |-> r]
      <4>1. other \in Catalog!Plan /\ plans[other] # "missing" BY <3>1, <3>3
      <4> HIDE DEF other, plan
      <4>2. plans'[other] # "missing" BY <1>1, <1>4, <3>2, <4>1
      <4> QED BY <4>2 DEF other
    <3> QED BY <3>4
  <2>2. CASE g \notin services \ bare
    <3>1. g = slug /\ plans' = [plans EXCEPT ![plan] = "fresh"] BY <1>2, <2>2
    <3>2. plans'[plan] = "fresh" BY <1>1, <1>4, <3>1
    <3>3. search[s].region \in Regions BY <1>1
    <3> QED BY <3>1, <3>2, <3>3
  <2> QED BY <2>1, <2>2
<1>7. search[s].step \in AtWork BY <1>1 DEF AtWork
<1>8. CASE search' = [search EXCEPT ![s] = stored]
  BY <1>1, <1>3, <1>5, <1>6, <1>7, <1>8, QuietStep
<1>9. CASE search' = [search EXCEPT ![s] = undone]
  BY <1>1, <1>3, <1>5, <1>6, <1>7, <1>9, QuietStep
<1> QED BY <1>5, <1>8, <1>9

LEMMA UnlockStep ==
    ASSUME ResearchInv, NEW s \in Searches, Catalog!Unlock(s)
    PROVE  ResearchInv'
<1>1. /\ search[s].step = "unlock" /\ lookupLock' \in {Nobody, lookupLock}
      /\ UNCHANGED <<services, bare, plans, expiries>>
      /\ search' = [search EXCEPT ![s] = [search[s] EXCEPT !.step = search[s].answer]]
      /\ search[s] \in [step : Catalog!Steps, region : Regions, answer : {"found", "failed"}]
  BY DEF ResearchInv, Catalog!Unlock, Catalog!At, Catalog!Goto
<1> DEFINE x == [search[s] EXCEPT !.step = search[s].answer]
<1>2. /\ x \in [step : Catalog!Steps, region : Regions, answer : {"found", "failed"}]
      /\ x.step \in {"found", "failed"}
  BY <1>1 DEF Catalog!Steps
<1>3. search' = [q \in Searches |-> IF q = s THEN x ELSE search[q]]
  BY <1>1 DEF ResearchInv
<1> HIDE DEF x
<1>4. Working' = Working \ {s} /\ s \in Working /\ Working \in SUBSET Searches
  BY <1>1, <1>2, <1>3 DEF Working, AtWork
<1>5. /\ Cardinality(Working \ {s}) = Cardinality(Working) - 1
      /\ Cardinality(Working) <= Cardinality(Working \ {lookupLock}) + 1
      /\ Cardinality(Working) \in Nat /\ Cardinality(Working \ {lookupLock}) \in Nat
      /\ Cardinality(Working \ {s}) \in Nat
  BY <1>4, FewSearches
<1>6. Working \ {s} \in SUBSET Searches /\ Working' \ {lookupLock'} \in SUBSET (Working \ {s})
  BY <1>4
<1>7. Cardinality(Working' \ {lookupLock'}) <= Cardinality(Working \ {s})
      /\ Cardinality(Working' \ {lookupLock'}) \in Nat
  BY <1>6, FewSearches
<1>8. FewWithoutLock' BY <1>1, <1>5, <1>7 DEF FewWithoutLock, ResearchInv
<1>9. Catalog!ServicesHavePlans' BY <1>1 DEF ResearchInv, Catalog!ServicesHavePlans
<1>10. \A q \in Searches :
        search'[q] \in [step : Catalog!Steps, region : Regions, answer : {"found", "failed"}]
  BY <1>2, <1>3 DEF ResearchInv
<1> QED BY <1>1, <1>3, <1>8, <1>9, <1>10 DEF ResearchInv

\* Who takes the lock finds it free: the others at work have outlived it.
LEMMA LockStep ==
    ASSUME ResearchInv, NEW s \in Searches, Catalog!At(s, "lock"), lookupLock = Nobody,
           lookupLock' = s, Catalog!Goto(s, "research"),
           UNCHANGED <<services, bare, plans, expiries>>
    PROVE  ResearchInv'
<1> DEFINE x == [search[s] EXCEPT !.step = "research"]
<1>1. search' = [q \in Searches |-> IF q = s THEN x ELSE search[q]]
  BY DEF ResearchInv, Catalog!Goto
<1>2. x \in [step : Catalog!Steps, region : Regions, answer : {"found", "failed"}]
  BY DEF ResearchInv, Catalog!Steps
<1> HIDE DEF x
<1>3. Working' \ {lookupLock'} \subseteq Working BY <1>1 DEF Working
<1>4. Working = Working \ {lookupLock} BY ServicesConstants DEF Working
<1>5. Working \in SUBSET Searches BY DEF Working
<1>6. FewWithoutLock'
  <2>1. /\ Cardinality(Working' \ {lookupLock'}) <= Cardinality(Working)
        /\ Cardinality(Working' \ {lookupLock'}) \in Nat /\ Cardinality(Working) \in Nat
    BY <1>3, <1>5, FewSearches
  <2>2. Cardinality(Working) <= expiries /\ expiries \in Nat /\ expiries' = expiries
    BY <1>4 DEF FewWithoutLock, ResearchInv
  <2> QED BY <2>1, <2>2 DEF FewWithoutLock
<1>7. Catalog!ServicesHavePlans' BY DEF ResearchInv, Catalog!ServicesHavePlans
<1>8. \A q \in Searches :
        search'[q] \in [step : Catalog!Steps, region : Regions, answer : {"found", "failed"}]
  BY <1>1, <1>2 DEF ResearchInv
<1> QED BY <1>1, <1>6, <1>7, <1>8 DEF ResearchInv

LEMMA LockEndsStep ==
    ASSUME ResearchInv, Catalog!LockRunsOut \/ Catalog!LockOutlived
    PROVE  ResearchInv'
<1>1. lookupLock' = Nobody /\ UNCHANGED <<services, bare, plans, search>>
  BY DEF Catalog!LockRunsOut, Catalog!LockOutlived
<1>2. Working' = Working /\ Working \ {Nobody} = Working /\ Working \in SUBSET Searches
  BY <1>1, ServicesConstants DEF Working
<1>3. /\ Cardinality(Working) <= Cardinality(Working \ {lookupLock}) + 1
      /\ Cardinality(Working) \in Nat /\ Cardinality(Working \ {lookupLock}) \in Nat
  BY <1>2, FewSearches
<1>4. CASE Catalog!LockRunsOut
  <2>1. lookupLock \notin Working /\ expiries' = expiries
    BY <1>4 DEF Working, AtWork, Catalog!LockRunsOut
  <2>2. Working \ {lookupLock} = Working BY <2>1
  <2>3. FewWithoutLock' /\ expiries' \in Nat
    BY <1>1, <1>2, <2>1, <2>2 DEF FewWithoutLock, ResearchInv
  <2> QED BY <1>1, <2>3 DEF ResearchInv, Catalog!ServicesHavePlans
<1>5. CASE Catalog!LockOutlived
  <2>1. expiries' = expiries + 1 /\ expiries \in Nat /\ FewWithoutLock
    BY <1>5 DEF Catalog!LockOutlived, ResearchInv
  <2>2. FewWithoutLock' /\ expiries' \in Nat
    BY <1>1, <1>2, <1>3, <2>1 DEF FewWithoutLock
  <2> QED BY <1>1, <2>2 DEF ResearchInv, Catalog!ServicesHavePlans
<1> QED BY <1>4, <1>5

\* The refreshes touch plans that are there, and leave them there.
Refreshes ==
    \/ \E p \in Catalog!Plan :
          Catalog!GoStale(p) \/ Catalog!HandleLazyRefresh(p) \/ Catalog!RemoveOnComplete(p)
    \/ \E slug \in Slugs : Catalog!RefreshTopServices(slug) \/ Catalog!HandleRefresh(slug)

LEMMA RefreshStep ==
    ASSUME ResearchInv, Refreshes
    PROVE  ResearchInv' /\ UNCHANGED <<services, again, search>>
<1>1. UNCHANGED <<services, bare, lookupLock, expiries, again, search>>
  BY DEF Refreshes, Catalog!GoStale, Catalog!RefreshTopServices, Catalog!HandleRefresh,
     Catalog!HandleLazyRefresh, Catalog!RemoveOnComplete
<1>2. plans \in [Catalog!Plan -> Catalog!Prices] BY DEF ResearchInv
<1>3. /\ plans' \in [Catalog!Plan -> Catalog!Prices]
      /\ \A q \in Catalog!Plan : plans[q] # "missing" => plans'[q] # "missing"
  <2>1. CASE \E p \in Catalog!Plan : Catalog!GoStale(p)
    BY <1>2, <2>1 DEF Catalog!GoStale, Catalog!Prices
  <2>2. CASE plans' = plans BY <1>2, <2>2
  <2>3. CASE \E done : Catalog!Refreshed(done)
    BY <1>2, <2>3 DEF Catalog!Refreshed, Catalog!Prices
  <2> QED BY <2>1, <2>2, <2>3
    DEF Refreshes, Catalog!RefreshTopServices, Catalog!HandleRefresh,
        Catalog!HandleLazyRefresh, Catalog!RemoveOnComplete
<1>4. Catalog!ServicesHavePlans'
  <2> SUFFICES ASSUME NEW g \in services \ bare
               PROVE  \E r \in Regions : plans'[[slug |-> g, region |-> r]] # "missing"
    BY <1>1 DEF Catalog!ServicesHavePlans
  <2>1. PICK r \in Regions : plans[[slug |-> g, region |-> r]] # "missing"
    BY DEF ResearchInv, Catalog!ServicesHavePlans
  <2>2. [slug |-> g, region |-> r] \in Catalog!Plan BY DEF ResearchInv, Catalog!Plan
  <2> QED BY <1>3, <2>1, <2>2
<1>5. FewWithoutLock' BY <1>1 DEF ResearchInv, FewWithoutLock, Working
<1> QED BY <1>1, <1>3, <1>4, <1>5 DEF ResearchInv

LEMMA CatalogNextKeeps == ResearchInv /\ [Catalog!Next]_Catalog!vars => ResearchInv'
<1> SUFFICES ASSUME ResearchInv, [Catalog!Next]_Catalog!vars PROVE ResearchInv' OBVIOUS
<1>1. ASSUME NEW s \in Searches
      PROVE  search[s] \in [step : Catalog!Steps, region : Regions, answer : {"found", "failed"}]
  BY DEF ResearchInv
<1>2. ASSUME NEW s \in Searches, NEW step \in Catalog!Steps, Catalog!Goto(s, step),
             step \in AtWork => search[s].step \in AtWork,
             UNCHANGED <<services, bare, plans, lookupLock, expiries>>
      PROVE  ResearchInv'
  <2> DEFINE x == [search[s] EXCEPT !.step = step]
  <2>1. /\ x \in [step : Catalog!Steps, region : Regions, answer : {"found", "failed"}]
        /\ x.step = step
    BY <1>1
  <2>2. search' = [search EXCEPT ![s] = x] BY <1>2 DEF ResearchInv, Catalog!Goto
  <2>3. /\ plans' \in [Catalog!Plan -> Catalog!Prices] /\ Catalog!ServicesHavePlans'
        /\ services' \subseteq Slugs
    BY <1>2 DEF ResearchInv, Catalog!ServicesHavePlans
  <2> HIDE DEF x
  <2> QED BY <1>2, <2>1, <2>2, <2>3, QuietStep
<1>3. ASSUME NEW s \in Searches,
             Catalog!Find(s) \/ Catalog!NotFound(s) \/ Catalog!WaitForService(s)
      PROVE  ResearchInv'
  BY <1>2, <1>3
  DEF Catalog!Find, Catalog!NotFound, Catalog!WaitForService, Catalog!Steps, AtWork
<1>4. ASSUME NEW s \in Searches, Catalog!Lock(s) PROVE ResearchInv'
  BY <1>2, <1>4, LockStep DEF Catalog!Lock, Catalog!TakeLock, Catalog!Steps, AtWork
<1>5. ASSUME NEW s \in Searches, Catalog!Research(s) \/ Catalog!Crash(s) PROVE ResearchInv'
  BY <1>2, <1>5 DEF Catalog!Research, Catalog!Crash, Catalog!At, Catalog!Steps, AtWork
<1>6. ASSUME NEW s \in Searches, Catalog!Ask(s) PROVE ResearchInv'
  <2>1. PICK region \in Regions :
          search' = [search EXCEPT ![s] =
             [step |-> "start", region |-> region, answer |-> "failed"]]
    BY <1>6 DEF Catalog!Ask
  <2> DEFINE x == [step |-> "start", region |-> region, answer |-> "failed"]
  <2>2. /\ x \in [step : Catalog!Steps, region : Regions, answer : {"found", "failed"}]
        /\ x.step \notin AtWork
    BY DEF Catalog!Steps, AtWork
  <2>3. /\ UNCHANGED <<lookupLock, expiries>>
        /\ plans' \in [Catalog!Plan -> Catalog!Prices] /\ Catalog!ServicesHavePlans'
        /\ services' \subseteq Slugs
    BY <1>6 DEF Catalog!Ask, ResearchInv, Catalog!ServicesHavePlans
  <2> HIDE DEF x
  <2>4. search' = [search EXCEPT ![s] = x] BY <2>1 DEF x
  <2> QED BY <2>2, <2>3, <2>4, QuietStep
<1>7. CASE UNCHANGED Catalog!vars
  BY <1>7 DEF Catalog!vars, ResearchInv, FewWithoutLock, Working, Catalog!ServicesHavePlans
<1> QED
  BY <1>3, <1>4, <1>5, <1>6, <1>7, StoreStep, UnlockStep, LockEndsStep, RefreshStep
  DEF Catalog!Next, Catalog!Step, Refreshes

\* Those that have looked in vain and not asked for the lock yet: with the
\* service stored, each of them may ask the AI for it again, and none comes.
AtLock == {s \in Searches : search[s].step = "lock"}
FewAgain ==
    /\ again \in Nat
    /\ QuerySlug \notin services => again = 0
    /\ QuerySlug \in services => again + Cardinality(AtLock) < Cardinality(Searches)

\* Nobody comes to the lock who asks for what is stored.
LEMMA NoneComes ==
    ASSUME FewAgain, services' = services, again' = again, AtLock' \subseteq AtLock
    PROVE  FewAgain'
<1>1. AtLock \in SUBSET Searches /\ AtLock' \in SUBSET AtLock BY DEF AtLock
<1>2. /\ Cardinality(AtLock') <= Cardinality(AtLock)
      /\ Cardinality(AtLock') \in Nat /\ Cardinality(AtLock) \in Nat
      /\ Cardinality(Searches) \in Nat
  BY <1>1, FewSearches
<1> QED BY <1>2 DEF FewAgain

LEMMA AgainStep == ResearchInv /\ FewAgain /\ [Catalog!Next]_Catalog!vars => FewAgain'
<1> SUFFICES ASSUME ResearchInv, FewAgain, [Catalog!Next]_Catalog!vars PROVE FewAgain' OBVIOUS
<1>1. search = [s \in Searches |-> search[s]] BY DEF ResearchInv
<1>2. ASSUME NEW s \in Searches, NEW x, search' = [search EXCEPT ![s] = x],
             x.step = "lock" => search[s].step = "lock"
      PROVE  AtLock' \subseteq AtLock
  BY <1>1, <1>2 DEF AtLock
<1>3. ASSUME NEW s \in Searches, NEW step, Catalog!Goto(s, step)
      PROVE  /\ search' = [search EXCEPT ![s] = [search[s] EXCEPT !.step = step]]
             /\ [search[s] EXCEPT !.step = step].step = step
             /\ step # "lock" => AtLock' = AtLock \ {s}
  <2>1. search[s] \in [step : Catalog!Steps, region : Regions, answer : {"found", "failed"}]
    BY DEF ResearchInv
  <2>2. /\ search' = [search EXCEPT ![s] = [search[s] EXCEPT !.step = step]]
        /\ [search[s] EXCEPT !.step = step].step = step
    BY <1>1, <1>3, <2>1 DEF Catalog!Goto
  <2>3. step # "lock" => AtLock' = AtLock \ {s} BY <1>1, <2>2 DEF AtLock
  <2> QED BY <2>2, <2>3
<1>4. ASSUME NEW s \in Searches, NEW step, Catalog!Goto(s, step), step # "lock",
             services' = services, again' = again
      PROVE  FewAgain'
  BY <1>3, <1>4, NoneComes
<1>5. ASSUME NEW s \in Searches,
             Catalog!Find(s) \/ Catalog!WaitForService(s) \/ Catalog!Research(s) \/ Catalog!Crash(s)
      PROVE  FewAgain'
  BY <1>4, <1>5
  DEF Catalog!Find, Catalog!WaitForService, Catalog!Research, Catalog!Crash
<1>6. ASSUME NEW s \in Searches, Catalog!NotFound(s) PROVE FewAgain'
  BY <1>6 DEF Catalog!NotFound, FewAgain
<1>7. ASSUME NEW s \in Searches, Catalog!At(s, "lock"), Catalog!TakeLock(s), services' = services
      PROVE  FewAgain'
  <2>1. AtLock' = AtLock \ {s} /\ s \in AtLock /\ AtLock \in SUBSET Searches
    BY <1>3, <1>7 DEF Catalog!TakeLock, Catalog!At, AtLock
  <2>2. Cardinality(AtLock') = Cardinality(AtLock) - 1 /\ Cardinality(AtLock) \in Nat
        /\ Cardinality(Searches) \in Nat
    BY <2>1, FewSearches
  <2>3. again' = IF QuerySlug \in services THEN again + 1 ELSE again
    BY <1>7 DEF Catalog!TakeLock
  <2> QED BY <1>7, <2>2, <2>3 DEF FewAgain
<1>8. ASSUME NEW s \in Searches, Catalog!Lock(s) PROVE FewAgain'
  <2>1. services' = services /\ Catalog!At(s, "lock") BY <1>8 DEF Catalog!Lock
  <2>2. CASE Catalog!TakeLock(s) BY <1>7, <2>1, <2>2
  <2>3. CASE Catalog!Goto(s, "poll") /\ again' = again BY <1>4, <2>1, <2>3
  <2> QED BY <1>8, <2>2, <2>3 DEF Catalog!Lock
<1>9. ASSUME NEW s \in Searches, Catalog!Store(s) PROVE FewAgain'
  <2>1. /\ search[s].step = "store" /\ again' = again /\ services \subseteq services'
        /\ \E x : x.step = "unlock" /\ search' = [search EXCEPT ![s] = x]
    <3>1. search[s] \in [step : Catalog!Steps, region : Regions, answer : {"found", "failed"}]
      BY DEF ResearchInv
    <3>2. search[s].step = "store" /\ again' = again /\ services \subseteq services'
      BY <1>9 DEF Catalog!Store, Catalog!At
    <3>3. \/ search' = [search EXCEPT ![s] = [search[s] EXCEPT !.step = "unlock", !.answer = "found"]]
          \/ search' = [search EXCEPT ![s] = [search[s] EXCEPT !.step = "unlock"]]
      BY <1>1, <1>9 DEF Catalog!Store, Catalog!Goto
    <3>4. /\ [search[s] EXCEPT !.step = "unlock", !.answer = "found"].step = "unlock"
          /\ [search[s] EXCEPT !.step = "unlock"].step = "unlock"
      BY <3>1
    <3> QED BY <3>2, <3>3, <3>4
  <2>2. AtLock' \in SUBSET (Searches \ {s}) /\ AtLock' \in SUBSET AtLock
        /\ AtLock \in SUBSET Searches
    BY <1>1, <2>1 DEF AtLock
  <2>3. /\ Cardinality(Searches \ {s}) = Cardinality(Searches) - 1
        /\ Cardinality(Searches) \in Nat /\ Cardinality(AtLock') \in Nat
        /\ Cardinality(AtLock') <= Cardinality(Searches \ {s})
        /\ Cardinality(AtLock') <= Cardinality(AtLock) /\ Cardinality(AtLock) \in Nat
    <3>1. Searches \ {s} \in SUBSET Searches /\ Searches \in SUBSET Searches OBVIOUS
    <3> QED BY <2>2, <3>1, FewSearches
  <2> QED BY <2>1, <2>3 DEF FewAgain
<1>10. ASSUME NEW s \in Searches, Catalog!Unlock(s) PROVE FewAgain'
  <2>1. search[s].answer \in {"found", "failed"} BY DEF ResearchInv
  <2> QED BY <1>4, <1>10, <2>1 DEF Catalog!Unlock
<1>11. ASSUME NEW s \in Searches, Catalog!Ask(s) PROVE FewAgain'
  <2>1. PICK region \in Regions :
          search' = [search EXCEPT ![s] =
             [step |-> "start", region |-> region, answer |-> "failed"]]
    BY <1>11 DEF Catalog!Ask
  <2> DEFINE x == [step |-> "start", region |-> region, answer |-> "failed"]
  <2>2. x.step = "start" /\ search' = [search EXCEPT ![s] = x] BY <2>1
  <2> HIDE DEF x
  <2>3. AtLock' \subseteq AtLock BY <1>2, <2>2
  <2> QED BY <1>11, <2>3, NoneComes DEF Catalog!Ask
<1>12. CASE Catalog!LockRunsOut \/ Catalog!LockOutlived
  BY <1>12, NoneComes DEF Catalog!LockRunsOut, Catalog!LockOutlived, AtLock
<1>13. CASE Refreshes BY <1>13, RefreshStep, NoneComes DEF AtLock
<1>14. CASE UNCHANGED Catalog!vars BY <1>14, NoneComes DEF Catalog!vars, AtLock
<1> QED
  BY <1>5, <1>6, <1>8, <1>9, <1>10, <1>11, <1>12, <1>13, <1>14
  DEF Catalog!Next, Catalog!Step, Refreshes

\* search, for any number of searches, regions and slugs, locks that run out and
\* pods that die: a service never loses its plans, the AI is asked once at a
\* time but for the locks that were outlived, and of what is stored under the
\* query's slug only by searches that were under way.
THEOREM ResearchAlwaysPaysOff == MCSpec => []ResearchPaysOff
<1>1. MCInit => ResearchInv /\ FewAgain
  <2> SUFFICES ASSUME Catalog!Init PROVE ResearchInv /\ FewAgain BY DEF MCInit
  <2>1. Catalog!AnyRegion \in Regions BY ServicesConstants DEF Catalog!AnyRegion
  <2>2. \A s \in Searches :
          search[s] = [step |-> "failed", region |-> Catalog!AnyRegion, answer |-> "failed"]
    BY DEF Catalog!Init
  <2>3. Working = {} BY <2>2 DEF Working, AtWork
  <2>4. FewWithoutLock
    <3>1. Working \ {lookupLock} = {} /\ expiries = 0 BY <2>3 DEF Catalog!Init
    <3> QED BY <3>1, FS_EmptySet DEF FewWithoutLock
  <2>5. FewAgain BY DEF FewAgain, Catalog!Init
  <2> QED BY <2>1, <2>2, <2>4, <2>5
    DEF ResearchInv, Catalog!Init, Catalog!ServicesHavePlans, Catalog!Prices, Catalog!Steps
<1>2. ASSUME [MCNext]_<<part, vars, catalog, subs, dates, mail>>
      PROVE [Catalog!Next]_Catalog!vars
  BY <1>2 DEF MCNext, AccessNext, CatalogNext, SubsNext, DatesNext, MailNext, catalog, Catalog!vars
<1>3. ResearchInv /\ FewAgain => ResearchPaysOff
  <2> SUFFICES ASSUME ResearchInv, FewAgain
               PROVE  /\ Catalog!ServicesHavePlans /\ Catalog!ResearchedByOne
                      /\ Catalog!ResearchedAgainByFew
    BY DEF ResearchPaysOff, Catalog!ResearchPaysOff
  <2> DEFINE some == {s \in Searches : search[s].step \in {"research", "store"}}
  <2>1. some \in SUBSET Working /\ Working \in SUBSET Searches BY DEF Working, AtWork
  <2>2. /\ Cardinality(some) <= Cardinality(Working)
        /\ Cardinality(Working) <= Cardinality(Working \ {lookupLock}) + 1
        /\ Cardinality(some) \in Nat /\ Cardinality(Working) \in Nat
        /\ Cardinality(Working \ {lookupLock}) \in Nat
    BY <2>1, FewSearches
  <2>3. expiries \in Nat /\ Cardinality(Working \ {lookupLock}) <= expiries
    BY DEF ResearchInv, FewWithoutLock
  <2>4. Cardinality(some) <= 1 + expiries BY ONLY <2>2, <2>3
  <2>5. Catalog!ResearchedByOne BY <2>4, CatalogCardinality DEF Catalog!ResearchedByOne
  <2>6. Catalog!ResearchedAgainByFew
    <3>1. Cardinality(AtLock) \in Nat /\ Cardinality(Searches) \in Nat
      BY FewSearches DEF AtLock
    <3> QED BY <3>1, CatalogCardinality DEF FewAgain, Catalog!ResearchedAgainByFew
  <2> QED BY <2>5, <2>6 DEF ResearchInv
<1>4. ResearchInv /\ FewAgain /\ [MCNext]_<<part, vars, catalog, subs, dates, mail>>
        => ResearchInv' /\ FewAgain'
  BY <1>2, CatalogNextKeeps, AgainStep
<1> QED BY <1>1, <1>3, <1>4, PTL DEF MCSpec

-----------------------------------------------------------------------------
(* Subscriptions: the advisory lock of a creation                          *)

\* Live rows as creations made them.
Own == Subs!Live \ saved
Creating(r) == req[r].step = "insert"

Creation == [step : {"lock", "insert"}, new : Subs!Row]
\* What a request may have in hand when n rows have been made.
InHand(r, n) ==
    \/ req[r] = Subs!Idle
    \/ req[r] \in Creation
    \/ /\ req[r].step = "save" /\ DOMAIN req[r].rows \subseteq 1 .. n
       /\ \A i \in DOMAIN req[r].rows : req[r].rows[i] \in Subs!Row

RowsInv ==
    /\ row \in [Subs!Ids -> Subs!Row \cup {Subs!Absent}] /\ made \in 0 .. MaxRows
    /\ limit \in Limits
    /\ Subs!Present \subseteq 1 .. made /\ saved \subseteq 1 .. made
    /\ req = [r \in Requests |-> req[r]]
    /\ \A r \in Requests : InHand(r, made)

\* The one under the lock has counted and compared what there is, and nothing
\* is added while it is there.
LockInv == \A r \in Requests : Creating(r) =>
    /\ userLock = r
    /\ Cardinality(Own) < req[r].new.cap
    /\ req[r].new.dedup = "compared" => \A i \in Own : row[i].key # req[r].new.key

CreationInv == RowsInv /\ LockInv /\ Subs!CreationsFit

LEMMA SubsCardinality == \A S : Subs!Cardinality(S) = Cardinality(S)
  BY DEF Subs!Cardinality, Cardinality, Subs!IsFiniteSet, IsFiniteSet

LEMMA FewRows ==
    ASSUME NEW S \in SUBSET Subs!Ids, NEW T \in SUBSET S, NEW i \in Subs!Ids
    PROVE  /\ Cardinality(S) \in Nat /\ Cardinality(T) \in Nat
           /\ Cardinality(T) <= Cardinality(S)
           /\ i \notin S => Cardinality(S \cup {i}) = Cardinality(S) + 1
<1>1. IsFiniteSet(Subs!Ids) BY FS_Interval, ServicesConstants DEF Subs!Ids
<1>2. IsFiniteSet(S) BY <1>1, FS_Subset
<1>3. IsFiniteSet(T) /\ Cardinality(T) <= Cardinality(S) BY <1>2, FS_Subset
<1> QED BY <1>2, <1>3, FS_CardinalityType, FS_AddElement

LEMMA OwnRows == RowsInv => Own \in SUBSET Subs!Ids /\ Own \in SUBSET (1 .. made)
  BY DEF RowsInv, Own, Subs!Live, Subs!Present

LEMMA CapsAreNumbers == \A r \in Subs!Row : r.cap \in Nat
  BY ServicesConstants DEF Subs!Row

\* The rows of creations become fewer and stay as they are, and nobody comes to
\* insert: the bounds hold on.
LEMMA OwnShrinks ==
    ASSUME CreationInv, RowsInv', Own' \subseteq Own, \A i \in Own' : row'[i] = row[i],
           \A r \in Requests : Creating(r)' =>
              Creating(r) /\ req'[r].new = req[r].new /\ userLock' = userLock
    PROVE  CreationInv'
<1>1. Own \in SUBSET Subs!Ids /\ Own' \in SUBSET Own BY OwnRows DEF CreationInv
<1>2. LockInv'
  <2> SUFFICES ASSUME NEW r \in Requests, Creating(r)'
               PROVE  /\ userLock' = r
                      /\ Cardinality(Own') < req'[r].new.cap
                      /\ req'[r].new.dedup = "compared"
                           => \A i \in Own' : row'[i].key # req'[r].new.key
    BY DEF LockInv
  <2>1. /\ userLock = r /\ Cardinality(Own) < req[r].new.cap
        /\ req[r].new.dedup = "compared" => \A i \in Own : row[i].key # req[r].new.key
    BY DEF CreationInv, LockInv
  <2>2. req[r].new \in Subs!Row
    BY DEF CreationInv, RowsInv, InHand, Creation, Creating, Subs!Idle
  <2>3. req[r].new.cap \in Nat BY <2>2, CapsAreNumbers
  <2>4. Cardinality(Own') <= Cardinality(Own) /\ Cardinality(Own) \in Nat /\ Cardinality(Own') \in Nat
    <3>1. CASE Own = {} BY <1>1, <3>1, FS_EmptySet
    <3>2. CASE Own # {} 
      <4>1. PICK i \in Subs!Ids : TRUE BY <1>1, <3>2
      <4> QED BY <1>1, <4>1, FewRows
    <3> QED BY <3>1, <3>2
  <2> QED BY <1>1, <2>1, <2>3, <2>4
<1>3. Subs!CreationsFit'
  <2> SUFFICES ASSUME NEW i \in Own'
               PROVE  /\ Cardinality({j \in Own' : j <= i}) <= row'[i].cap
                      /\ row'[i].dedup = "compared"
                           => \A j \in Own' : j < i => row'[i].key # row'[j].key
    BY SubsCardinality DEF Subs!CreationsFit, Own
  <2>1. /\ Cardinality({j \in Own : j <= i}) <= row[i].cap
        /\ row[i].dedup = "compared" => \A j \in Own : j < i => row[i].key # row[j].key
    BY <1>1, SubsCardinality DEF CreationInv, Subs!CreationsFit, Own
  <2>2. row[i] \in Subs!Row
    BY <1>1 DEF CreationInv, RowsInv, Own, Subs!Live, Subs!Present
  <2>3. /\ {j \in Own : j <= i} \in SUBSET Subs!Ids
        /\ {j \in Own' : j <= i} \in SUBSET {j \in Own : j <= i}
        /\ i \in Subs!Ids
    BY <1>1
  <2>4. /\ Cardinality({j \in Own' : j <= i}) <= Cardinality({j \in Own : j <= i})
        /\ Cardinality({j \in Own : j <= i}) \in Nat
        /\ Cardinality({j \in Own' : j <= i}) \in Nat
    BY <2>3, FewRows
  <2>5. Cardinality({j \in Own' : j <= i}) <= row[i].cap
    BY <2>1, <2>2, <2>4, CapsAreNumbers
  <2> QED BY <1>1, <2>1, <2>5
<1> QED BY <1>2, <1>3 DEF CreationInv

\* Only requests change: what they have in hand is of the rows there are.
LEMMA RequestStep ==
    ASSUME CreationInv, NEW r \in Requests, NEW now, Subs!Become(r, now),
           UNCHANGED <<row, made, userLock, saved>>, limit' = limit,
           now = Subs!Idle
           \/ now \in [step : {"lock"}, new : Subs!Row]
           \/ (/\ now.step = "save" /\ DOMAIN now.rows \subseteq 1 .. made
               /\ \A i \in DOMAIN now.rows : now.rows[i] \in Subs!Row)
    PROVE  CreationInv'
<1>1. req' = [q \in Requests |-> IF q = r THEN now ELSE req[q]]
  BY DEF CreationInv, RowsInv, Subs!Become
<1>2. now.step # "insert" BY DEF Subs!Idle
<1>3. RowsInv'
  <2>1. ASSUME NEW q \in Requests PROVE InHand(q, made)'
    <3>1. InHand(q, made) BY DEF CreationInv, RowsInv
    <3>2. CASE q = r BY <1>1, <3>2 DEF InHand, Creation
    <3>3. CASE q # r
      <4>1. req'[q] = req[q] BY <1>1, <3>3
      <4> QED BY <3>1, <4>1 DEF InHand
    <3> QED BY <3>2, <3>3
  <2>2. Subs!Present' = Subs!Present BY DEF Subs!Present
  <2> QED BY <1>1, <2>1, <2>2 DEF CreationInv, RowsInv
<1>4. Own' = Own BY DEF Own, Subs!Live, Subs!Present
<1>5. ASSUME NEW q \in Requests, Creating(q)'
      PROVE  Creating(q) /\ req'[q].new = req[q].new /\ userLock' = userLock
  BY <1>1, <1>2, <1>5 DEF Creating
<1> QED BY <1>3, <1>4, <1>5, OwnShrinks

LEMMA LookStep ==
    ASSUME CreationInv, NEW r \in Requests, Subs!LockAndLook(r)
    PROVE  CreationInv'
<1>1. /\ req[r] \in Creation /\ req[r].step = "lock" /\ userLock = Nobody
      /\ UNCHANGED <<row, made, limit, saved>>
  BY DEF CreationInv, RowsInv, InHand, Subs!Idle, Subs!LockAndLook
<1>2. CASE Subs!Become(r, Subs!Idle) /\ userLock' = userLock
  BY <1>1, <1>2, RequestStep
<1>3. CASE /\ ~Subs!Duplicate(req[r].new) /\ Subs!WithinLimit(req[r].new)
           /\ Subs!Become(r, [req[r] EXCEPT !.step = "insert"]) /\ userLock' = r
  <2> DEFINE now == [req[r] EXCEPT !.step = "insert"]
  <2>1. now \in Creation /\ now.step = "insert" /\ now.new = req[r].new
    BY <1>1 DEF Creation
  <2>2. req' = [q \in Requests |-> IF q = r THEN now ELSE req[q]]
    BY <1>3 DEF CreationInv, RowsInv, Subs!Become
  <2> HIDE DEF now
  <2>3. Own' = Own /\ Subs!Present' = Subs!Present
    BY <1>1 DEF Own, Subs!Live, Subs!Present
  <2>4. RowsInv'
    <3>1. ASSUME NEW q \in Requests PROVE InHand(q, made)'
      BY <1>1, <2>1, <2>2 DEF InHand, CreationInv, RowsInv
    <3> QED BY <1>1, <2>2, <2>3, <3>1 DEF CreationInv, RowsInv
  <2>5. \A q \in Requests : ~Creating(q)
    BY <1>1, ServicesConstants DEF CreationInv, LockInv
  <2>6. \A q \in Requests : Creating(q)' => q = r
    BY <2>2, <2>5 DEF Creating
  <2>7. Own \subseteq Subs!Live BY DEF Own
  <2>8. req[r].new.dedup = "compared" => \A i \in Own : row[i].key # req[r].new.key
    BY <1>3, <2>7 DEF Subs!Duplicate
  <2>9. Cardinality(Own) < req[r].new.cap
    <3>1. Cardinality(Subs!Live) < req[r].new.cap
      BY <1>3, SubsCardinality DEF Subs!WithinLimit
    <3>2. req[r].new.cap \in Nat BY <1>1, CapsAreNumbers DEF Creation
    <3>3. Subs!Live \in SUBSET Subs!Ids BY DEF Subs!Live, Subs!Present
    <3>4. Cardinality(Own) <= Cardinality(Subs!Live) /\ Cardinality(Own) \in Nat
          /\ Cardinality(Subs!Live) \in Nat
      <4>1. CASE Subs!Ids = {} BY <2>7, <3>3, <4>1, FS_EmptySet
      <4>2. CASE Subs!Ids # {}
        <5>1. PICK i \in Subs!Ids : TRUE BY <4>2
        <5> QED BY <2>7, <3>3, <5>1, FewRows
      <4> QED BY <4>1, <4>2
    <3> QED BY <3>1, <3>2, <3>4
  <2>10. req'[r] = now BY <2>2
  <2>11. LockInv' BY <1>1, <1>3, <2>1, <2>3, <2>6, <2>8, <2>9, <2>10 DEF LockInv
  <2>12. Subs!CreationsFit' BY <1>1, <2>3 DEF CreationInv, Subs!CreationsFit, Own
  <2> QED BY <2>4, <2>11, <2>12 DEF CreationInv
<1> QED BY <1>2, <1>3 DEF Subs!LockAndLook

\* What has left the lock has either its row or nothing.
LEMMA InsertStep ==
    ASSUME CreationInv, NEW r \in Requests, Subs!InsertCommit(r)
    PROVE  CreationInv'
<1> DEFINE i == made + 1
<1>1. /\ req[r] \in Creation /\ Creating(r) /\ made < MaxRows /\ made' = i
      /\ row' = [row EXCEPT ![made'] = req[r].new] /\ userLock = r /\ userLock' = Nobody
      /\ Subs!Become(r, Subs!Idle) /\ UNCHANGED <<limit, saved>>
  BY DEF CreationInv, RowsInv, LockInv, InHand, Creation, Creating, Subs!Idle, Subs!InsertCommit
<1>2. /\ i \in Subs!Ids /\ i \in 1 .. made' /\ made \in Nat /\ i \notin 1 .. made
      /\ 1 .. made \subseteq 1 .. made' /\ made' \in 0 .. MaxRows
  BY <1>1, ServicesConstants DEF CreationInv, RowsInv, Subs!Ids
<1>3. row' = [j \in Subs!Ids |-> IF j = i THEN req[r].new ELSE row[j]]
  BY <1>1 DEF CreationInv, RowsInv
<1>4. req[r].new \in Subs!Row BY <1>1 DEF Creation
<1>5. req' = [q \in Requests |-> IF q = r THEN Subs!Idle ELSE req[q]]
  BY <1>1 DEF CreationInv, RowsInv, Subs!Become
<1> HIDE DEF i
<1>6. Own' \subseteq Own \cup {i} /\ Own \in SUBSET Subs!Ids /\ i \notin Own
  <2>1. Own \in SUBSET Subs!Ids /\ i \notin Own BY <1>2, OwnRows DEF CreationInv
  <2>2. ASSUME NEW j \in Own', j # i PROVE j \in Own
    <3>1. j \in Subs!Ids /\ j \notin saved /\ row'[j] # Subs!Absent
          /\ row'[j].status \in {"active", "trial"}
      BY <1>1 DEF Own, Subs!Live, Subs!Present
    <3>2. row'[j] = row[j] BY <1>3, <2>2, <3>1
    <3> QED BY <3>1, <3>2 DEF Own, Subs!Live, Subs!Present
  <2> QED BY <2>1, <2>2
<1>7. RowsInv'
  <2>1. Subs!Present' \subseteq Subs!Present \cup {i} BY <1>3 DEF Subs!Present
  <2>2. ASSUME NEW q \in Requests PROVE InHand(q, made)'
    BY <1>1, <1>2, <1>5 DEF InHand, CreationInv, RowsInv
  <2>3. row' \in [Subs!Ids -> Subs!Row \cup {Subs!Absent}]
    BY <1>3, <1>4 DEF CreationInv, RowsInv
  <2> QED BY <1>1, <1>2, <1>5, <2>1, <2>2, <2>3 DEF CreationInv, RowsInv
<1>8. \A q \in Requests : ~Creating(q)'
  <2> SUFFICES ASSUME NEW q \in Requests, Creating(q)' PROVE FALSE OBVIOUS
  <2>1. q # r BY <1>5 DEF Creating, Subs!Idle
  <2>2. Creating(q) BY <1>5, <2>1 DEF Creating
  <2> QED BY <1>1, <2>1, <2>2 DEF CreationInv, LockInv
<1>9. /\ Cardinality(Own) < req[r].new.cap /\ req[r].new.cap \in Nat
      /\ req[r].new.dedup = "compared" => \A j \in Own : row[j].key # req[r].new.key
  BY <1>1, <1>4, CapsAreNumbers DEF CreationInv, LockInv
<1>10. \A j \in Own : j < i /\ row'[j] = row[j]
  <2>1. Own \subseteq 1 .. made BY OwnRows DEF CreationInv
  <2>2. \A j \in 1 .. made : j < i BY <1>2 DEF i
  <2> QED BY <1>3, <1>6, <2>1, <2>2
<1>11. row'[i] = req[r].new BY <1>2, <1>3
<1>12. Subs!CreationsFit'
  <2> SUFFICES ASSUME NEW k \in Own'
               PROVE  /\ Cardinality({j \in Own' : j <= k}) <= row'[k].cap
                      /\ row'[k].dedup = "compared"
                           => \A j \in Own' : j < k => row'[k].key # row'[j].key
    BY SubsCardinality DEF Subs!CreationsFit, Own
  <2>1. i \in Nat BY <1>2 DEF i
  <2>2. CASE k = i
    <3>1. {j \in Own' : j <= k} \in SUBSET (Own \cup {i}) BY <1>6
    <3>2. /\ Cardinality(Own \cup {i}) = Cardinality(Own) + 1
          /\ Cardinality({j \in Own' : j <= k}) <= Cardinality(Own \cup {i})
          /\ Cardinality(Own) \in Nat
          /\ Cardinality({j \in Own' : j <= k}) \in Nat
          /\ Cardinality(Own \cup {i}) \in Nat
      BY <1>2, <1>6, <3>1, FewRows
    <3>3. Cardinality({j \in Own' : j <= k}) <= req[r].new.cap BY <1>9, <3>2
    <3>4. \A j \in Own' : j < k => j \in Own BY <1>6, <2>1, <2>2
    <3> QED BY <1>6, <1>9, <1>10, <1>11, <2>2, <3>3, <3>4
  <2>3. CASE k # i
    <3>1. k \in Own /\ k < i /\ k \in Int /\ row'[k] = row[k]
      <4>1. k \in Own BY <1>6, <2>3
      <4>2. k \in 1 .. made BY <4>1, OwnRows DEF CreationInv
      <4> QED BY <1>10, <4>1, <4>2
    <3>2. {j \in Own' : j <= k} \in SUBSET {j \in Own : j <= k}
      <4>1. ~(i <= k) BY <2>1, <3>1
      <4>2. \A j \in Own' : j <= k => j \in Own BY <1>6, <4>1
      <4> QED BY ONLY <4>2
    <3>3. {j \in Own : j <= k} \in SUBSET Subs!Ids BY <1>6
    <3>4. /\ Cardinality({j \in Own' : j <= k}) <= Cardinality({j \in Own : j <= k})
          /\ Cardinality({j \in Own' : j <= k}) \in Nat
          /\ Cardinality({j \in Own : j <= k}) \in Nat
      BY <1>2, <3>2, <3>3, FewRows
    <3>5. /\ Cardinality({j \in Own : j <= k}) <= row[k].cap
          /\ row[k].dedup = "compared" => \A j \in Own : j < k => row[k].key # row[j].key
      BY <3>1, SubsCardinality DEF CreationInv, Subs!CreationsFit, Own
    <3>6. row[k].cap \in Nat
      BY <1>6, <3>1, CapsAreNumbers DEF CreationInv, RowsInv, Own, Subs!Live, Subs!Present
    <3>7. Cardinality({j \in Own' : j <= k}) <= row'[k].cap BY <3>1, <3>4, <3>5, <3>6
    <3>8. \A j \in Own' : j < k => j \in Own /\ row'[j] = row[j]
      <4>1. ~(i < k) BY <2>1, <3>1
      <4> QED BY <1>6, <1>10, <4>1
    <3> QED BY <3>1, <3>5, <3>7, <3>8
  <2> QED BY <2>2, <2>3
<1>13. LockInv' BY <1>8 DEF LockInv
<1> QED BY <1>7, <1>12, <1>13 DEF CreationInv

LEMMA RollbackStep ==
    ASSUME CreationInv, NEW r \in Requests, Subs!Rollback(r)
    PROVE  CreationInv'
<1>1. /\ Creating(r) /\ userLock = r /\ Subs!Become(r, Subs!Idle)
      /\ UNCHANGED <<row, made, limit, saved>>
  BY DEF CreationInv, LockInv, Creating, Subs!Rollback
<1>2. req' = [q \in Requests |-> IF q = r THEN Subs!Idle ELSE req[q]]
  BY <1>1 DEF CreationInv, RowsInv, Subs!Become
<1>3. Own' = Own /\ Subs!Present' = Subs!Present
  BY <1>1 DEF Own, Subs!Live, Subs!Present
<1>4. RowsInv'
  <2>1. ASSUME NEW q \in Requests PROVE InHand(q, made)'
    BY <1>1, <1>2 DEF InHand, CreationInv, RowsInv
  <2> QED BY <1>1, <1>2, <1>3, <2>1 DEF CreationInv, RowsInv
<1>5. \A q \in Requests : ~Creating(q)'
  <2> SUFFICES ASSUME NEW q \in Requests, Creating(q)' PROVE FALSE OBVIOUS
  <2>1. q # r BY <1>2 DEF Creating, Subs!Idle
  <2>2. Creating(q) BY <1>2, <2>1 DEF Creating
  <2> QED BY <1>1, <2>1, <2>2 DEF CreationInv, LockInv
<1> QED BY <1>1, <1>3, <1>4, <1>5, OwnShrinks

\* What a save writes is no creation's any more.
LEMMA SaveStep ==
    ASSUME CreationInv, NEW r \in Requests, Subs!Save(r)
    PROVE  CreationInv'
<1> DEFINE entities == req[r].rows
<1>1. /\ req[r].step = "save" /\ Subs!Become(r, Subs!Idle)
      /\ row' = [i \in Subs!Ids |-> IF i \in DOMAIN entities THEN entities[i] ELSE row[i]]
      /\ saved' = saved \cup DOMAIN entities
      /\ UNCHANGED <<made, limit, userLock>>
  BY DEF Subs!Save
<1>2. /\ DOMAIN entities \subseteq 1 .. made
      /\ \A i \in DOMAIN entities : entities[i] \in Subs!Row
  BY <1>1 DEF CreationInv, RowsInv, InHand, Creation, Subs!Idle
<1> HIDE DEF entities
<1>3. req' = [q \in Requests |-> IF q = r THEN Subs!Idle ELSE req[q]]
  BY <1>1 DEF CreationInv, RowsInv, Subs!Become
<1>4. /\ Subs!Present' \subseteq Subs!Present \cup DOMAIN entities
      /\ Own' \subseteq Own /\ \A i \in Own' : row'[i] = row[i]
  BY <1>1 DEF Own, Subs!Live, Subs!Present
<1>5. row' \in [Subs!Ids -> Subs!Row \cup {Subs!Absent}]
  BY <1>1, <1>2 DEF CreationInv, RowsInv
<1>6. RowsInv'
  <2>1. ASSUME NEW q \in Requests PROVE InHand(q, made)'
    BY <1>1, <1>3 DEF InHand, CreationInv, RowsInv
  <2> QED BY <1>1, <1>2, <1>3, <1>4, <1>5, <2>1 DEF CreationInv, RowsInv
<1>7. ASSUME NEW q \in Requests, Creating(q)'
      PROVE  Creating(q) /\ req'[q].new = req[q].new /\ userLock' = userLock
  BY <1>1, <1>3, <1>7 DEF Creating, Subs!Idle
<1> QED BY <1>4, <1>6, <1>7, OwnShrinks

LEMMA RemoveStep ==
    ASSUME CreationInv, Subs!Remove
    PROVE  CreationInv'
<1>1. PICK i \in Subs!Present : row' = [row EXCEPT ![i] = Subs!Absent]
  BY DEF Subs!Remove
<1>2. UNCHANGED <<made, limit, userLock, req, saved>> BY DEF Subs!Remove
<1>3. row' = [j \in Subs!Ids |-> IF j = i THEN Subs!Absent ELSE row[j]]
  BY <1>1 DEF CreationInv, RowsInv
<1>4. /\ Subs!Present' \subseteq Subs!Present
      /\ Own' \subseteq Own /\ \A j \in Own' : row'[j] = row[j]
  BY <1>2, <1>3 DEF Own, Subs!Live, Subs!Present
<1>5. row' \in [Subs!Ids -> Subs!Row \cup {Subs!Absent}]
  BY <1>3 DEF CreationInv, RowsInv
<1>6. RowsInv' BY <1>2, <1>4, <1>5 DEF CreationInv, RowsInv, InHand
<1> QED BY <1>2, <1>4, <1>6, OwnShrinks DEF Creating

LEMMA SubsNextKeeps == CreationInv /\ [Subs!Next]_Subs!vars => CreationInv'
<1> SUFFICES ASSUME CreationInv, [Subs!Next]_Subs!vars PROVE CreationInv' OBVIOUS
<1>0. /\ row \in [Subs!Ids -> Subs!Row \cup {Subs!Absent}] /\ Subs!Present \subseteq 1 .. made
      /\ limit \in Limits
  BY DEF CreationInv, RowsInv
<1>1. ASSUME NEW r \in Requests, Subs!CreateAsked(r) PROVE CreationInv'
  <2>1. PICK new \in Subs!Row : Subs!Become(r, [step |-> "lock", new |-> new])
    BY <1>1 DEF Subs!CreateAsked
  <2>2. UNCHANGED <<row, made, limit, userLock, saved>> BY <1>1 DEF Subs!CreateAsked
  <2> QED BY <2>1, <2>2, RequestStep
\* Any hold on rows that there are, with entities that may be rows.
<1>2. ASSUME NEW r \in Requests, NEW entities, NEW asks, Subs!Hold(r, entities, asks),
             DOMAIN entities \subseteq Subs!Present,
             \A i \in DOMAIN entities : entities[i] \in Subs!Row,
             UNCHANGED <<row, made, limit, userLock, saved>>
      PROVE  CreationInv'
  <2> DEFINE now == [step |-> "save", rows |-> entities, asks |-> asks]
  <2>1. /\ now.step = "save" /\ DOMAIN now.rows \subseteq 1 .. made
        /\ \A i \in DOMAIN now.rows : now.rows[i] \in Subs!Row
    BY <1>0, <1>2
  <2>2. Subs!Become(r, now) BY <1>2 DEF Subs!Hold
  <2> HIDE DEF now
  <2> QED BY <1>2, <2>1, <2>2, RequestStep
<1>3. ASSUME NEW r \in Requests, NEW i \in Subs!Present, NEW entity \in Subs!Row, NEW asks,
             Subs!Hold(r, Subs!Edited(i, entity), asks),
             UNCHANGED <<row, made, limit, userLock, saved>>
      PROVE  CreationInv'
  <2>1. /\ DOMAIN Subs!Edited(i, entity) \subseteq Subs!Present
        /\ \A j \in DOMAIN Subs!Edited(i, entity) : Subs!Edited(i, entity)[j] \in Subs!Row
    BY DEF Subs!Edited
  <2> QED BY <1>2, <1>3, <2>1
<1>4. \A i \in Subs!Present : row[i] \in Subs!Row BY <1>0 DEF Subs!Present
<1>5. ASSUME NEW r \in Requests, Subs!Update(r) PROVE CreationInv'
  <2>1. PICK i \in {j \in Subs!Ids : Subs!Opens(j)} :
          \/ \E k \in Keys : Subs!Hold(r, Subs!Edited(i, [row[i] EXCEPT !.key = k]), FALSE)
          \/ Subs!Hold(r, Subs!Edited(i, row[i]), FALSE)
          \/ \E s \in Subs!Statuses :
                Subs!Hold(r, Subs!Edited(i, [row[i] EXCEPT !.status = s]), TRUE)
    BY <1>5 DEF Subs!Update
  <2>2. i \in Subs!Present /\ row[i] \in Subs!Row BY <1>4, <2>1 DEF Subs!Opens
  <2>3. UNCHANGED <<row, made, limit, userLock, saved>> BY <1>5 DEF Subs!Update
  <2>4. /\ \A k \in Keys : [row[i] EXCEPT !.key = k] \in Subs!Row
        /\ \A s \in Subs!Statuses : [row[i] EXCEPT !.status = s] \in Subs!Row
    BY <2>2 DEF Subs!Row
  <2> QED BY <1>3, <2>1, <2>2, <2>3, <2>4
<1>6. ASSUME NEW r \in Requests, Subs!UpdateStatus(r) PROVE CreationInv'
  <2>1. PICK i \in {j \in Subs!Ids : Subs!Opens(j)}, s \in Subs!Statuses :
          Subs!Hold(r, Subs!Edited(i, [row[i] EXCEPT !.status = s]), TRUE)
    BY <1>6 DEF Subs!UpdateStatus
  <2>2. i \in Subs!Present /\ row[i] \in Subs!Row BY <1>4, <2>1 DEF Subs!Opens
  <2>3. UNCHANGED <<row, made, limit, userLock, saved>> BY <1>6 DEF Subs!UpdateStatus
  <2>4. [row[i] EXCEPT !.status = s] \in Subs!Row BY <2>2 DEF Subs!Row
  <2> QED BY <1>3, <2>1, <2>2, <2>3, <2>4
<1>7. ASSUME NEW r \in Requests, Subs!RecalculateNextPaymentDates(r) PROVE CreationInv'
  <2>1. PICK some \in SUBSET Subs!Live \ {{}} :
           Subs!Hold(r, [i \in some |-> row[i]], FALSE)
    BY <1>7 DEF Subs!RecalculateNextPaymentDates
  <2> DEFINE entities == [i \in some |-> row[i]]
  <2>2. some \subseteq Subs!Present BY DEF Subs!Live
  <2>3. DOMAIN entities \subseteq Subs!Present /\ \A i \in DOMAIN entities : entities[i] \in Subs!Row
    BY <1>4, <2>2
  <2>4. UNCHANGED <<row, made, limit, userLock, saved>> /\ Subs!Hold(r, entities, FALSE)
    BY <1>7, <2>1 DEF Subs!RecalculateNextPaymentDates
  <2> HIDE DEF entities
  <2> QED BY <1>2, <2>3, <2>4
<1>8. CASE Subs!PlanChanges
  <2>1. limit' \in Limits /\ UNCHANGED <<row, made, userLock, req, saved>>
    BY <1>8 DEF Subs!PlanChanges
  <2>2. Own' = Own /\ RowsInv'
    BY <2>1 DEF CreationInv, RowsInv, InHand, Own, Subs!Live, Subs!Present
  <2> QED BY <2>1, <2>2, OwnShrinks DEF Creating
<1>9. CASE UNCHANGED Subs!vars
  <2>1. UNCHANGED <<row, made, limit, userLock, req, saved>> BY <1>9 DEF Subs!vars
  <2>2. Own' = Own /\ RowsInv'
    BY <2>1 DEF CreationInv, RowsInv, InHand, Own, Subs!Live, Subs!Present
  <2> QED BY <2>1, <2>2, OwnShrinks DEF Creating
<1> QED
  BY <1>1, <1>5, <1>6, <1>7, <1>8, <1>9, LookStep, InsertStep, RollbackStep, SaveStep,
     RemoveStep DEF Subs!Next

\* create, for any number of requests at once, keys and limits: whatever is
\* edited, deleted, downgraded or recalculated meanwhile, a row that a creation
\* has compared with those there were has another key than theirs, and none is
\* beyond the limit it was checked against.
THEOREM CreationsAlwaysFit == MCSpec => []CreationsFit
<1>1. MCInit => CreationInv
  <2> SUFFICES ASSUME Subs!Init PROVE CreationInv BY DEF MCInit
  <2>1. Subs!Present = {} BY DEF Subs!Init, Subs!Present
  <2>2. Own = {} BY <2>1 DEF Own, Subs!Live
  <2>3. req = [r \in Requests |-> Subs!Idle] BY DEF Subs!Init
  <2>4. RowsInv
    BY <2>1, <2>3, ServicesConstants DEF RowsInv, InHand, Subs!Init
  <2>5. LockInv BY <2>3 DEF LockInv, Creating, Subs!Idle
  <2> QED BY <2>2, <2>4, <2>5 DEF CreationInv, Subs!CreationsFit, Own
<1>2. ASSUME [MCNext]_<<part, vars, catalog, subs, dates, mail>> PROVE [Subs!Next]_Subs!vars
  BY <1>2 DEF MCNext, AccessNext, CatalogNext, SubsNext, DatesNext, MailNext, subs, Subs!vars
<1>3. CreationInv => CreationsFit BY DEF CreationInv, CreationsFit
<1>4. CreationInv /\ [MCNext]_<<part, vars, catalog, subs, dates, mail>> => CreationInv'
  BY <1>2, SubsNextKeeps
<1> QED BY <1>1, <1>3, <1>4, PTL DEF MCSpec

-----------------------------------------------------------------------------
(* GmailScan: the counter is never below the slots that are taken          *)

Refusing == {s \in Scans : scan[s].step = "refuse"}
Slots == kept \cup Mail!Charged

Scan == [step : Mail!Steps, grant : Grants \cup {None}, asJob : BOOLEAN,
         charged : BOOLEAN, ok : BOOLEAN]

QuotaInv ==
    /\ gmail \in Grants \cup {None} /\ scan \in [Scans -> Scan]
    /\ used \in Nat /\ kept \subseteq Scans
    /\ Cardinality(Slots) + Cardinality(Refusing) <= used
    /\ Cardinality(Slots) <= Cap
    /\ \A s \in Scans : scan[s].charged =>
          scan[s].step \in {"user", "token", "clear", "read", "store", "refund"}
    /\ \A s \in kept : scan[s].step \in {"store", "unlock", "point", "report", "over"}


LEMMA MailCardinality == \A S : Mail!Cardinality(S) = Cardinality(S)
  BY DEF Mail!Cardinality, Cardinality, Mail!IsFiniteSet, IsFiniteSet

LEMMA FewScans ==
    ASSUME NEW S \in SUBSET Scans, NEW T \in SUBSET S, NEW s \in Scans
    PROVE  /\ Cardinality(S) \in Nat /\ Cardinality(T) \in Nat
           /\ Cardinality(T) <= Cardinality(S)
           /\ s \notin S => Cardinality(S \cup {s}) = Cardinality(S) + 1
           /\ s \in S => Cardinality(S \ {s}) = Cardinality(S) - 1
<1>1. IsFiniteSet(S) BY ServicesConstants, FS_Subset
<1>2. IsFiniteSet(T) /\ Cardinality(T) <= Cardinality(S) BY <1>1, FS_Subset
<1> QED BY <1>1, <1>2, FS_CardinalityType, FS_AddElement, FS_RemoveElement

LEMMA SlotsAndRefusals ==
    ASSUME QuotaInv
    PROVE  /\ Slots \in SUBSET Scans /\ Refusing \in SUBSET Scans
           /\ Cardinality(Slots) \in Nat /\ Cardinality(Refusing) \in Nat
<1>1. Slots \in SUBSET Scans /\ Refusing \in SUBSET Scans
  BY DEF QuotaInv, Slots, Refusing, Mail!Charged
<1> QED BY <1>1, FewScans, FS_EmptySet, ServicesConstants, FS_Subset, FS_CardinalityType

\* One scan moves on; none is counted that was not, none is refused.
LEMMA MailStep ==
    ASSUME QuotaInv, NEW s \in Scans, NEW x \in Scan, scan' = [scan EXCEPT ![s] = x],
           UNCHANGED <<used, kept>>, gmail' \in Grants \cup {None},
           x.charged => /\ scan[s].charged
                        /\ x.step \in {"user", "token", "clear", "read", "store", "refund"},
           x.step # "refuse",
           s \in kept => x.step \in {"store", "unlock", "point", "report", "over"}
    PROVE  QuotaInv'
<1>1. scan' \in [Scans -> Scan] /\ scan'[s] = x /\ \A q \in Scans \ {s} : scan'[q] = scan[q]
  BY DEF QuotaInv
<1>2. Slots' \subseteq Slots /\ Refusing' \subseteq Refusing
  BY <1>1 DEF Slots, Refusing, Mail!Charged
<1>3. /\ Cardinality(Slots') <= Cardinality(Slots) /\ Cardinality(Slots') \in Nat
      /\ Cardinality(Refusing') <= Cardinality(Refusing) /\ Cardinality(Refusing') \in Nat
      /\ Cardinality(Slots) \in Nat /\ Cardinality(Refusing) \in Nat
  BY <1>2, SlotsAndRefusals, FewScans
<1>4. /\ Cardinality(Slots') + Cardinality(Refusing') <= used'
      /\ Cardinality(Slots') <= Cap
  BY <1>3, ServicesConstants DEF QuotaInv
<1>5. \A q \in Scans : scan'[q].charged =>
          scan'[q].step \in {"user", "token", "clear", "read", "store", "refund"}
  BY <1>1 DEF QuotaInv
<1>6. \A q \in kept' : scan'[q].step \in {"store", "unlock", "point", "report", "over"}
  BY <1>1 DEF QuotaInv
<1> QED BY <1>1, <1>4, <1>5, <1>6 DEF QuotaInv

\* The counter goes up for a slot that is taken, or to be refused; it goes down
\* for a slot that is given back, or that was refused.
LEMMA QuotaStep ==
    ASSUME QuotaInv, NEW s \in Scans, Mail!EnforceDailyQuota(s)
    PROVE  QuotaInv'
<1> USE DEF Mail!mailbox
<1>1. /\ scan[s].step = "quota" /\ scan \in [Scans -> Scan] /\ scan[s] \in Scan
      /\ ~scan[s].charged /\ s \notin kept /\ UNCHANGED <<gmail, kept>>
  BY DEF QuotaInv, Scan, Mail!EnforceDailyQuota, Mail!At
<1>2. s \notin Slots /\ s \notin Refusing BY <1>1 DEF Slots, Refusing, Mail!Charged
<1>3. /\ Slots \in SUBSET Scans /\ Refusing \in SUBSET Scans
      /\ Cardinality(Slots) \in Nat /\ Cardinality(Refusing) \in Nat
      /\ Cardinality(Slots \cup {s}) = Cardinality(Slots) + 1
      /\ Cardinality(Refusing \cup {s}) = Cardinality(Refusing) + 1
  BY <1>2, SlotsAndRefusals, FewScans
<1>4. CASE used' = used + 1 /\ used' > Cap /\ scan' = [scan EXCEPT ![s].step = "refuse"]
  <2>1. scan' \in [Scans -> Scan] /\ scan'[s].step = "refuse" /\ ~scan'[s].charged
        /\ \A q \in Scans \ {s} : scan'[q] = scan[q]
    BY <1>1, <1>4 DEF Scan, Mail!Steps
  <2>2. Slots' = Slots /\ Refusing' = Refusing \cup {s}
    BY <1>1, <2>1 DEF Slots, Refusing, Mail!Charged
  <2>3. Cardinality(Slots') + Cardinality(Refusing') <= used' /\ used' \in Nat
    BY <1>3, <1>4, <2>2 DEF QuotaInv
  <2>4. \A q \in kept' : scan'[q].step \in {"store", "unlock", "point", "report", "over"}
    BY <1>1, <2>1 DEF QuotaInv
  <2> QED BY <1>1, <2>1, <2>2, <2>3, <2>4 DEF QuotaInv
<1>5. CASE /\ used' = used + 1 /\ ~(used' > Cap)
           /\ scan' = [scan EXCEPT ![s].step = "user", ![s].charged = TRUE]
  <2>1. scan' \in [Scans -> Scan] /\ scan'[s].step = "user" /\ scan'[s].charged
        /\ \A q \in Scans \ {s} : scan'[q] = scan[q]
    BY <1>1, <1>5 DEF Scan, Mail!Steps
  <2>2. Slots' = Slots \cup {s} /\ Refusing' = Refusing
    BY <1>1, <2>1 DEF Slots, Refusing, Mail!Charged
  <2>3. Cardinality(Slots') + Cardinality(Refusing') <= used' /\ used' \in Nat
    BY <1>3, <1>5, <2>2 DEF QuotaInv
  <2>4. Cardinality(Slots') <= Cap BY <1>3, <1>5, <2>2, <2>3, ServicesConstants
  <2>5. \A q \in kept' : scan'[q].step \in {"store", "unlock", "point", "report", "over"}
    BY <1>1, <2>1 DEF QuotaInv
  <2> QED BY <1>1, <2>1, <2>3, <2>4, <2>5 DEF QuotaInv
<1>6. CASE scan' = [scan EXCEPT ![s].step = "user"] /\ used' = used
  <2>1. [scan[s] EXCEPT !.step = "user"] \in Scan BY <1>1 DEF Scan, Mail!Steps
  <2>2. scan' = [scan EXCEPT ![s] = [scan[s] EXCEPT !.step = "user"]] BY <1>1, <1>6
  <2> QED BY <1>1, <1>6, <2>1, <2>2, MailStep DEF QuotaInv, Scan
<1> QED BY <1>4, <1>5, <1>6 DEF Mail!EnforceDailyQuota, Mail!Goto

LEMMA RefuseStep ==
    ASSUME QuotaInv, NEW s \in Scans, Mail!RefuseQuota(s)
    PROVE  QuotaInv'
<1> USE DEF Mail!mailbox
<1>1. /\ scan[s].step = "refuse" /\ scan[s] \in Scan /\ ~scan[s].charged /\ s \notin kept
      /\ used' = used - 1 /\ scan' = [scan EXCEPT ![s].step = "unlock"]
      /\ UNCHANGED <<gmail, kept>>
  BY DEF QuotaInv, Scan, Mail!RefuseQuota, Mail!At, Mail!Goto
<1>2. scan' \in [Scans -> Scan] /\ scan'[s].step = "unlock" /\ ~scan'[s].charged
      /\ \A q \in Scans \ {s} : scan'[q] = scan[q]
  BY <1>1 DEF QuotaInv, Scan, Mail!Steps
<1>3. Slots' = Slots /\ Refusing' = Refusing \ {s} /\ s \in Refusing
  BY <1>1, <1>2 DEF Slots, Refusing, Mail!Charged
<1>4. /\ Cardinality(Slots) \in Nat /\ Cardinality(Refusing) \in Nat
      /\ Cardinality(Refusing') = Cardinality(Refusing) - 1 /\ Cardinality(Refusing') \in Nat
  BY <1>3, SlotsAndRefusals, FewScans
<1>5. Cardinality(Slots') + Cardinality(Refusing') <= used' /\ used' \in Nat
  BY <1>1, <1>3, <1>4 DEF QuotaInv
<1>6. \A q \in kept' : scan'[q].step \in {"store", "unlock", "point", "report", "over"}
  BY <1>1, <1>2 DEF QuotaInv
<1> QED BY <1>1, <1>2, <1>3, <1>5, <1>6 DEF QuotaInv

\* NothingNew, and Refund where Redis takes it.
LEMMA GiveBackStep ==
    ASSUME QuotaInv, NEW s \in Scans, NEW x \in Scan, scan' = [scan EXCEPT ![s] = x],
           scan[s].charged, s \notin kept, ~x.charged, x.step # "refuse",
           used' = used - 1, UNCHANGED <<gmail, kept>>
    PROVE  QuotaInv'
<1>1. scan' \in [Scans -> Scan] /\ scan'[s] = x /\ \A q \in Scans \ {s} : scan'[q] = scan[q]
  BY DEF QuotaInv
<1>2. Slots' = Slots \ {s} /\ s \in Slots /\ Refusing' \subseteq Refusing
  BY <1>1 DEF Slots, Refusing, Mail!Charged
<1>3. /\ Cardinality(Slots) \in Nat /\ Cardinality(Refusing) \in Nat
      /\ Cardinality(Slots') = Cardinality(Slots) - 1 /\ Cardinality(Slots') \in Nat
      /\ Cardinality(Refusing') <= Cardinality(Refusing) /\ Cardinality(Refusing') \in Nat
  BY <1>2, SlotsAndRefusals, FewScans
<1>4. /\ Cardinality(Slots') + Cardinality(Refusing') <= used' /\ used' \in Nat
      /\ Cardinality(Slots') <= Cap
  BY <1>3, ServicesConstants DEF QuotaInv
<1>5. \A q \in kept' : scan'[q].step \in {"store", "unlock", "point", "report", "over"}
  BY <1>1 DEF QuotaInv
<1>6. \A q \in Scans : scan'[q].charged =>
          scan'[q].step \in {"user", "token", "clear", "read", "store", "refund"}
  BY <1>1 DEF QuotaInv
<1> QED BY <1>1, <1>4, <1>5, <1>6 DEF QuotaInv

LEMMA ReadMailStep ==
    ASSUME QuotaInv, NEW s \in Scans, Mail!ReadMail(s)
    PROVE  QuotaInv'
<1> USE DEF Mail!mailbox, Mail!redis
<1>1. /\ scan[s].step = "read" /\ scan[s] \in Scan
      /\ scan' = [scan EXCEPT ![s].step = "store"]
      /\ kept' = kept \cup (IF scan[s].charged THEN {s} ELSE {})
      /\ UNCHANGED <<gmail, used>>
  BY DEF QuotaInv, Mail!ReadMail, Mail!At, Mail!Goto
<1>2. /\ scan' \in [Scans -> Scan] /\ scan'[s].step = "store"
      /\ scan'[s].charged = scan[s].charged
      /\ \A q \in Scans \ {s} : scan'[q] = scan[q]
  BY <1>1 DEF QuotaInv, Scan, Mail!Steps
<1>3. Slots' = Slots /\ Refusing' = Refusing
  BY <1>1, <1>2 DEF Slots, Refusing, Mail!Charged
<1>4. \A q \in kept' : scan'[q].step \in {"store", "unlock", "point", "report", "over"}
  BY <1>1, <1>2 DEF QuotaInv
<1>5. \A q \in Scans : scan'[q].charged =>
          scan'[q].step \in {"user", "token", "clear", "read", "store", "refund"}
  BY <1>2 DEF QuotaInv
<1> QED BY <1>1, <1>2, <1>3, <1>4, <1>5 DEF QuotaInv

LEMMA MidnightStep == QuotaInv /\ Mail!Midnight => QuotaInv'
<1> SUFFICES ASSUME QuotaInv, Mail!Midnight PROVE QuotaInv' OBVIOUS
<1>1. /\ used' = 0 /\ kept' = {} /\ gmail' = gmail
      /\ scan' = [s \in Scans |-> [scan[s] EXCEPT !.charged = FALSE,
                     !.step = IF scan[s].step = "refuse" THEN "unlock" ELSE scan[s].step]]
  BY DEF Mail!Midnight, Mail!mailbox
<1>2. ASSUME NEW s \in Scans
      PROVE  scan'[s] \in Scan /\ ~scan'[s].charged /\ scan'[s].step # "refuse"
  <2>1. scan[s] \in Scan BY DEF QuotaInv
  <2> QED BY <1>1, <2>1 DEF Scan, Mail!Steps
<1>3. Slots' = {} /\ Refusing' = {} BY <1>1, <1>2 DEF Slots, Refusing, Mail!Charged
<1>4. scan' \in [Scans -> Scan] BY <1>1, <1>2
<1>5. /\ Cardinality(Slots') + Cardinality(Refusing') <= used' /\ Cardinality(Slots') <= Cap
      /\ used' \in Nat
  <2>1. Cardinality(Slots') = 0 /\ Cardinality(Refusing') = 0 BY <1>3, FS_EmptySet
  <2>2. used' = 0 /\ Cap \in Nat BY <1>1, ServicesConstants
  <2> QED BY ONLY <2>1, <2>2
<1>6. gmail' \in Grants \cup {None} /\ kept' = {} BY <1>1 DEF QuotaInv
<1>7. \A s \in kept' : scan'[s].step \in {"store", "unlock", "point", "report", "over"}
  BY <1>6
<1> QED BY <1>2, <1>4, <1>5, <1>6, <1>7 DEF QuotaInv

LEMMA MailNextKeeps == QuotaInv /\ [Mail!Next]_Mail!vars => QuotaInv'
<1> SUFFICES ASSUME QuotaInv, [Mail!Next]_Mail!vars PROVE QuotaInv' OBVIOUS
<1> USE DEF Mail!mailbox, Mail!redis
<1>1. gmail \in Grants \cup {None} /\ scan \in [Scans -> Scan] BY DEF QuotaInv
<1>2. ASSUME NEW s \in Scans, NEW step \in Mail!Steps \ {"refuse"}, Mail!Goto(s, step),
             UNCHANGED <<used, kept>>, gmail' \in Grants \cup {None},
             scan[s].charged => step \in {"user", "token", "clear", "read", "store", "refund"},
             s \in kept => step \in {"store", "unlock", "point", "report", "over"}
      PROVE  QuotaInv'
  <2>1. scan[s] \in Scan BY <1>1
  <2>2. scan' = [scan EXCEPT ![s] = [scan[s] EXCEPT !.step = step]] BY <1>1, <1>2 DEF Mail!Goto
  <2>3. /\ [scan[s] EXCEPT !.step = step] \in Scan
        /\ [scan[s] EXCEPT !.step = step].step = step
        /\ [scan[s] EXCEPT !.step = step].charged = scan[s].charged
    BY <2>1 DEF Scan
  <2> QED BY <1>2, <2>2, <2>3, MailStep
<1>3. ASSUME NEW s \in Scans, Mail!Over(s), UNCHANGED <<gmail, used, kept>> PROVE QuotaInv'
  <2>1. scan' = [scan EXCEPT ![s] = [Mail!Idle EXCEPT !.step = "over"]] BY <1>3 DEF Mail!Over
  <2>2. /\ [Mail!Idle EXCEPT !.step = "over"] \in Scan
        /\ [Mail!Idle EXCEPT !.step = "over"].step = "over"
        /\ ~[Mail!Idle EXCEPT !.step = "over"].charged
    BY DEF Mail!Idle, Scan, Mail!Steps
  <2> QED BY <1>1, <1>3, <2>1, <2>2, MailStep
\* Where a scan stands tells whether it is charged, or kept.
<1>4. ASSUME NEW s \in Scans
      PROVE  /\ scan[s] \in Scan
             /\ scan[s].charged =>
                   scan[s].step \in {"user", "token", "clear", "read", "store", "refund"}
             /\ s \in kept => scan[s].step \in {"store", "unlock", "point", "report", "over"}
  BY DEF QuotaInv
<1>5. ASSUME NEW s \in Scans,
             Mail!StartFromCache(s) \/ Mail!Report(s) \/ Mail!Crash(s)
      PROVE  QuotaInv'
  BY <1>3, <1>5 DEF Mail!StartFromCache, Mail!Report, Mail!Crash
<1>6. ASSUME NEW s \in Scans,
             \/ Mail!StartScanJob(s) \/ Mail!RunScanJob(s) \/ Mail!StartScan(s)
             \/ Mail!ClearInflight(s) \/ Mail!AcquireLock(s) \/ Mail!GetAccessToken(s)
             \/ Mail!ClearGmailCredentials(s) \/ Mail!MailUnreadable(s) \/ Mail!Unlock(s)
      PROVE  QuotaInv'
  <2>1. CASE Mail!StartScanJob(s) \/ Mail!RunScanJob(s) \/ Mail!StartScan(s)
    BY <1>1, <1>2, <1>4, <2>1
    DEF Mail!StartScanJob, Mail!RunScanJob, Mail!StartScan, Mail!At, Mail!Steps
  <2>2. CASE Mail!ClearInflight(s) \/ Mail!AcquireLock(s) \/ Mail!Unlock(s)
    BY <1>1, <1>2, <1>4, <2>2
    DEF Mail!ClearInflight, Mail!AcquireLock, Mail!Unlock, Mail!At, Mail!Steps
  <2>3. CASE Mail!GetAccessToken(s)
    BY <1>1, <1>2, <1>4, <2>3 DEF Mail!GetAccessToken, Mail!At, Mail!Steps
  <2>4. CASE Mail!ClearGmailCredentials(s) \/ Mail!MailUnreadable(s)
    BY <1>1, <1>2, <1>4, <2>4 DEF Mail!ClearGmailCredentials, Mail!MailUnreadable, Mail!At, Mail!Steps
  <2> QED BY <1>6, <2>1, <2>2, <2>3, <2>4
<1>7. ASSUME NEW s \in Scans, Mail!CreateJob(s) PROVE QuotaInv'
  <2>1. [scan[s] EXCEPT !.step = "run", !.asJob = TRUE] \in Scan
        /\ [scan[s] EXCEPT !.step = "run", !.asJob = TRUE].step = "run"
        /\ [scan[s] EXCEPT !.step = "run", !.asJob = TRUE].charged = scan[s].charged
    BY <1>4 DEF Scan, Mail!Steps
  <2>2. scan' = [scan EXCEPT ![s] = [scan[s] EXCEPT !.step = "run", !.asJob = TRUE]]
    BY <1>1, <1>7 DEF Mail!CreateJob
  <2>3. scan[s].step = "create" /\ UNCHANGED <<gmail, used, kept>>
    BY <1>7 DEF Mail!CreateJob, Mail!At
  <2> QED BY <1>1, <1>4, <2>1, <2>2, <2>3, MailStep
<1>8. ASSUME NEW s \in Scans, Mail!ReadCache(s) PROVE QuotaInv'
  <2>1. scan[s].step = "cached" /\ UNCHANGED <<gmail, used, kept>>
    BY <1>8 DEF Mail!ReadCache, Mail!At
  <2>2. CASE Mail!Goto(s, "lock") BY <1>1, <1>2, <1>4, <2>1, <2>2 DEF Mail!Steps
  <2>3. CASE scan' = [scan EXCEPT ![s].step = "point", ![s].ok = TRUE]
    <3>1. /\ [scan[s] EXCEPT !.step = "point", !.ok = TRUE] \in Scan
          /\ [scan[s] EXCEPT !.step = "point", !.ok = TRUE].step = "point"
          /\ [scan[s] EXCEPT !.step = "point", !.ok = TRUE].charged = scan[s].charged
      BY <1>4 DEF Scan, Mail!Steps
    <3>2. scan' = [scan EXCEPT ![s] = [scan[s] EXCEPT !.step = "point", !.ok = TRUE]]
      BY <1>1, <2>3
    <3> QED BY <1>1, <1>4, <2>1, <3>1, <3>2, MailStep
  <2> QED BY <1>8, <2>2, <2>3 DEF Mail!ReadCache
<1>9. ASSUME NEW s \in Scans, Mail!ReadUser(s) PROVE QuotaInv'
  <2> DEFINE step == IF gmail = None THEN "refund" ELSE "token"
             x == [scan[s] EXCEPT !.grant = gmail, !.step = step]
  <2>1. scan[s].step = "user" /\ UNCHANGED <<gmail, used, kept>>
    BY <1>9 DEF Mail!ReadUser, Mail!At
  <2>2. x \in Scan /\ x.step \in {"refund", "token"} /\ x.charged = scan[s].charged
    BY <1>1, <1>4 DEF Scan, Mail!Steps
  <2>3. scan' = [scan EXCEPT ![s] = x]
    BY <1>1, <1>9 DEF Mail!ReadUser
  <2> HIDE DEF x
  <2> QED BY <1>1, <1>4, <2>1, <2>2, <2>3, MailStep
<1>10. ASSUME NEW s \in Scans, Mail!NothingNew(s) PROVE QuotaInv'
  <2>1. /\ scan[s].step = "read" /\ scan[s].charged /\ used' = used - 1
        /\ UNCHANGED <<gmail, kept>>
    BY <1>10 DEF Mail!NothingNew, Mail!At
  <2>2. /\ [scan[s] EXCEPT !.step = "store", !.charged = FALSE] \in Scan
        /\ [scan[s] EXCEPT !.step = "store", !.charged = FALSE].step = "store"
        /\ ~[scan[s] EXCEPT !.step = "store", !.charged = FALSE].charged
    BY <1>4 DEF Scan, Mail!Steps
  <2>3. scan' = [scan EXCEPT ![s] = [scan[s] EXCEPT !.step = "store", !.charged = FALSE]]
    BY <1>1, <1>10 DEF Mail!NothingNew
  <2>4. s \notin kept BY <1>4, <2>1
  <2> QED BY <2>1, <2>2, <2>3, <2>4, GiveBackStep
<1>11. ASSUME NEW s \in Scans, Mail!StoreResult(s) PROVE QuotaInv'
  <2> DEFINE x == [scan[s] EXCEPT !.step = "unlock", !.grant = None, !.ok = TRUE, !.charged = FALSE]
  <2>1. scan[s].step = "store" /\ UNCHANGED <<gmail, used, kept>>
    BY <1>11 DEF Mail!StoreResult, Mail!At
  <2>2. x \in Scan /\ x.step = "unlock" /\ ~x.charged BY <1>4 DEF Scan, Mail!Steps
  <2>3. scan' = [scan EXCEPT ![s] = x] BY <1>1, <1>11 DEF Mail!StoreResult
  <2> HIDE DEF x
  <2> QED BY <1>1, <1>4, <2>1, <2>2, <2>3, MailStep
<1>12. ASSUME NEW s \in Scans, Mail!Refund(s) PROVE QuotaInv'
  <2> DEFINE x == [scan[s] EXCEPT !.step = "unlock", !.grant = None, !.charged = FALSE]
  <2>1. /\ scan[s].step = "refund" /\ UNCHANGED <<gmail, kept>>
        /\ used' \in IF scan[s].charged THEN {used - 1, used} ELSE {used}
    BY <1>12 DEF Mail!Refund, Mail!At
  <2>2. x \in Scan /\ x.step = "unlock" /\ ~x.charged BY <1>4 DEF Scan, Mail!Steps
  <2>3. scan' = [scan EXCEPT ![s] = x] BY <1>1, <1>12 DEF Mail!Refund
  <2> HIDE DEF x
  <2>4. s \notin kept BY <1>4, <2>1
  <2>5. CASE used' = used BY <1>1, <2>1, <2>2, <2>3, <2>4, <2>5, MailStep
  <2>6. CASE used' # used
    <3>1. scan[s].charged /\ used' = used - 1 BY <2>1, <2>6
    <3> QED BY <2>1, <2>2, <2>3, <2>4, <3>1, GiveBackStep
  <2> QED BY <2>5, <2>6
<1>13. CASE \/ Mail!Connect \/ Mail!Disconnect \/ Mail!EvictResult \/ Mail!GrantDies
            \/ Mail!LockExpires \/ Mail!CacheExpires \/ UNCHANGED Mail!vars
  <2>1. gmail' \in Grants \cup {None} /\ UNCHANGED <<used, kept, scan>>
    BY <1>1, <1>13
    DEF Mail!Connect, Mail!Disconnect, Mail!EvictResult, Mail!GrantDies,
        Mail!LockExpires, Mail!CacheExpires, Mail!vars
  <2> QED BY <2>1 DEF QuotaInv, Slots, Refusing, Mail!Charged
<1> QED
  BY <1>5, <1>6, <1>7, <1>8, <1>9, <1>10, <1>11, <1>12, <1>13, QuotaStep, RefuseStep,
     ReadMailStep, MidnightStep DEF Mail!Next

\* enforceDailyQuota and the refunds of scan, for any quota and any number of
\* scans at once, whatever fails or dies: no day keeps more scans than the plan
\* has.
THEOREM QuotaHolds == MCSpec => []ScansWithinQuota
<1>1. MCInit => QuotaInv
  <2> SUFFICES ASSUME Mail!Init PROVE QuotaInv BY DEF MCInit
  <2>1. /\ gmail \in Grants \cup {None} /\ used = 0 /\ kept = {}
        /\ scan = [s \in Scans |-> Mail!Idle]
    BY DEF Mail!Init
  <2>2. Mail!Idle \in Scan /\ ~Mail!Idle.charged /\ Mail!Idle.step = "idle"
    BY DEF Mail!Idle, Scan, Mail!Steps
  <2>3. Slots = {} /\ Refusing = {} BY <2>1, <2>2 DEF Slots, Refusing, Mail!Charged
  <2> QED BY <2>1, <2>2, <2>3, FS_EmptySet, ServicesConstants DEF QuotaInv
<1>2. ASSUME [MCNext]_<<part, vars, catalog, subs, dates, mail>> PROVE [Mail!Next]_Mail!vars
  BY <1>2 DEF MCNext, AccessNext, CatalogNext, SubsNext, DatesNext, MailNext, mail, Mail!vars
<1>3. QuotaInv => ScansWithinQuota
  BY MailCardinality DEF ScansWithinQuota, Mail!ScansWithinQuota, QuotaInv, Slots
<1>4. QuotaInv /\ [MCNext]_<<part, vars, catalog, subs, dates, mail>> => QuotaInv'
  BY <1>2, MailNextKeeps
<1> QED BY <1>1, <1>3, <1>4, PTL DEF MCSpec

-----------------------------------------------------------------------------
(* BillingDates                                                            *)

\* The least of a set of numbers is the one that is no more than any.
LEMMA LeastIs ==
    ASSUME NEW S, S \subseteq Int, NEW x \in S, \A y \in S : x <= y
    PROVE  Dates!Least(S) = x
<1>1. ASSUME NEW z \in S, \A y \in S : z <= y PROVE z = x
  BY <1>1
<1>2. x = CHOOSE z \in S : \A y \in S : z <= y
  BY <1>1
<1> QED BY <1>2 DEF Dates!Least, Dates!Min

\* A month has 28 to 31 days, and the next one begins when they are over.
LEMMA MonthLength ==
    ASSUME NEW m \in Nat \ {0}
    PROVE  /\ Dates!LastDayOfMonth(m) \in 28 .. 31
           /\ Dates!DaysBefore(m) \in Nat
           /\ Dates!DaysBefore(m + 1) = Dates!DaysBefore(m) + Dates!LastDayOfMonth(m)
<1> DEFINE r == (m - 1) % 12
           q == (m - 1) \div 12
           table == <<0, 31, 59, 90, 120, 151, 181, 212, 243, 273, 304, 334>>
           lengths == <<31, 28, 31, 30, 31, 30, 31, 31, 30, 31, 30, 31>>
<1>1. q \in Nat /\ r \in 0 .. 11 /\ m - 1 = 12 * q + r
  OBVIOUS
<1>2. /\ Dates!LastDayOfMonth(m) = lengths[r + 1]
      /\ Dates!DaysBefore(m) = 365 * q + table[r + 1]
      /\ Dates!DaysBefore(m + 1) = 365 * (m \div 12) + table[(m % 12) + 1]
  <2>1. (m + 1) - 1 = m
    OBVIOUS
  <2> QED BY <2>1 DEF Dates!LastDayOfMonth, Dates!DaysBefore
<1>3. CASE r < 11
  <2>1. m \div 12 = q /\ m % 12 = r + 1
    BY <1>1, <1>3
  <2>2. \A i \in 0 .. 10 : table[i + 1] \in Nat /\ lengths[i + 1] \in 28 .. 31
                             /\ table[i + 2] = table[i + 1] + lengths[i + 1]
    OBVIOUS
  <2> HIDE DEF table, lengths, r, q
  <2>3. r \in 0 .. 10 /\ r + 1 + 1 = r + 2
    BY <1>1, <1>3
  <2> QED BY <1>1, <1>2, <2>1, <2>2, <2>3
<1>4. CASE r = 11
  <2>1. m \div 12 = q + 1 /\ m % 12 = 0
    BY <1>1, <1>4
  <2>2. table[12] = 334 /\ lengths[12] = 31 /\ table[1] = 0
    OBVIOUS
  <2> HIDE DEF table, lengths, r, q
  <2> QED BY <1>1, <1>2, <1>4, <2>1, <2>2
<1> QED BY <1>1, <1>3, <1>4

\* Later months have more days before them.
LEMMA DaysBeforeGrows ==
    ASSUME NEW m \in Nat \ {0}, NEW k \in Nat \ {0}, m < k
    PROVE  Dates!DaysBefore(m + 1) <= Dates!DaysBefore(k)
<1> DEFINE table == <<0, 31, 59, 90, 120, 151, 181, 212, 243, 273, 304, 334>>
           q(x) == (x - 1) \div 12
           r(x) == (x - 1) % 12
<1>1. \A i, j \in 0 .. 11 : /\ table[i + 1] \in 0 .. 334
                            /\ i <= j => table[i + 1] <= table[j + 1]
  OBVIOUS
<1>2. ASSUME NEW x \in Nat \ {0}
      PROVE  /\ q(x) \in Nat /\ r(x) \in 0 .. 11 /\ x - 1 = 12 * q(x) + r(x)
             /\ Dates!DaysBefore(x) = 365 * q(x) + table[r(x) + 1]
  BY DEF Dates!DaysBefore
<1> HIDE DEF table, q, r
<1> DEFINE x == m + 1
<1>3. x \in Nat \ {0} /\ x - 1 <= k - 1
  OBVIOUS
<1> HIDE DEF x
<1>4. /\ q(x) \in Nat /\ r(x) \in 0 .. 11 /\ x - 1 = 12 * q(x) + r(x)
      /\ q(k) \in Nat /\ r(k) \in 0 .. 11 /\ k - 1 = 12 * q(k) + r(k)
  BY <1>2, <1>3
<1>5. q(x) < q(k) \/ (q(x) = q(k) /\ r(x) <= r(k))
  BY <1>3, <1>4
<1>6. table[r(x) + 1] \in 0 .. 334 /\ table[r(k) + 1] \in 0 .. 334
  BY <1>1, <1>4
<1>7. r(x) <= r(k) => table[r(x) + 1] <= table[r(k) + 1]
  BY <1>1, <1>4
<1>8. \A a, b \in Nat, c, d \in 0 .. 334 :
         a < b \/ (a = b /\ c <= d) => 365 * a + c <= 365 * b + d
  OBVIOUS
<1>9. PICK a, b \in Nat, c, d \in 0 .. 334 :
         a = q(x) /\ b = q(k) /\ c = table[r(x) + 1] /\ d = table[r(k) + 1]
  BY <1>4, <1>6
<1>10. a < b \/ (a = b /\ c <= d)
  BY <1>5, <1>7, <1>9
<1>11. 365 * a + c <= 365 * b + d
  BY <1>9, <1>10
<1> QED BY <1>2, <1>3, <1>9, <1>11 DEF x

\* Days of the calendar.
Date == {x \in [m : Nat \ {0}, d : 1 .. 31] : x.d <= Dates!LastDayOfMonth(x.m)}

\* Days are counted in their order.
LEMMA OrdinalsInOrder ==
    ASSUME NEW x \in Date, NEW y \in Date, ~Dates!After(x, y)
    PROVE  Dates!Ordinal(x) \in Nat /\ Dates!Ordinal(y) \in Nat
             /\ Dates!Ordinal(x) <= Dates!Ordinal(y)
<1>1. /\ x.m \in Nat \ {0} /\ y.m \in Nat \ {0} /\ x.d \in 1 .. 31 /\ y.d \in 1 .. 31
      /\ x.d <= Dates!LastDayOfMonth(x.m)
  BY DEF Date
<1>2. /\ Dates!DaysBefore(x.m) \in Nat /\ Dates!DaysBefore(y.m) \in Nat
      /\ Dates!LastDayOfMonth(x.m) \in Nat
      /\ Dates!DaysBefore(x.m + 1) = Dates!DaysBefore(x.m) + Dates!LastDayOfMonth(x.m)
  BY <1>1, MonthLength
<1>3. CASE x.m = y.m
  BY <1>1, <1>2, <1>3 DEF Dates!After, Dates!Ordinal
<1>4. CASE x.m < y.m
  BY <1>1, <1>2, <1>4, DaysBeforeGrows DEF Dates!Ordinal
<1> QED BY <1>1, <1>3, <1>4 DEF Dates!After

\* A week later is seven days later.
LEMMA WeekIsSevenDays ==
    ASSUME NEW x \in Date
    PROVE  /\ Dates!AddWeek(x) \in Date
           /\ Dates!Ordinal(x) \in Nat
           /\ Dates!Ordinal(Dates!AddWeek(x)) = Dates!Ordinal(x) + 7
<1> DEFINE last == Dates!LastDayOfMonth(x.m)
<1>1. /\ x.m \in Nat \ {0} /\ x.m + 1 \in Nat \ {0} /\ x.d \in 1 .. 31 /\ x.d <= last
      /\ x = [m |-> x.m, d |-> x.d]
  BY DEF Date
<1>2. /\ last \in 28 .. 31 /\ Dates!DaysBefore(x.m) \in Nat
      /\ Dates!DaysBefore(x.m + 1) = Dates!DaysBefore(x.m) + last
      /\ Dates!LastDayOfMonth(x.m + 1) \in 28 .. 31
  BY <1>1, MonthLength
<1> HIDE DEF last
<1>3. CASE x.d + 7 <= last
  <2>1. Dates!AddWeek(x) = [m |-> x.m, d |-> x.d + 7]
    BY <1>1, <1>3 DEF Dates!AddWeek, last
  <2> QED BY <1>1, <1>2, <1>3, <2>1 DEF Date, Dates!Ordinal, last
<1>4. CASE ~(x.d + 7 <= last)
  <2>1. Dates!AddWeek(x) = [m |-> x.m + 1, d |-> x.d + 7 - last]
    BY <1>4 DEF Dates!AddWeek, last
  <2>2. x.d + 7 - last \in 1 .. 7
    BY <1>1, <1>2, <1>4
  <2> QED BY <1>1, <1>2, <2>1, <2>2 DEF Date, Dates!Ordinal
<1> QED BY <1>3, <1>4

-----------------------------------------------------------------------------

\* The arguments of a call.
CallFits ==
    /\ asked = [start |-> asked.start, day |-> asked.day, period |-> asked.period,
                now |-> asked.now]
    /\ asked.start \in Date /\ asked.now \in Date /\ asked.day \in Int
    /\ asked.period \in Dates!Periods

\* By months, and not with a billing day below zero.
Monthly ==
    /\ asked.period \in {"MONTHLY", "QUARTERLY", "YEARLY"}
    /\ asked.period = "MONTHLY" => asked.day \in Nat
Each == Dates!MonthsIn[asked.period]
\* Months in which a payment falls.
Due == {j \in Nat : j >= asked.start.m /\ (j - asked.start.m) % Each = 0}
Payment(m) == [m |-> m, d |-> Dates!DayIn(m, Each)]

\* The walk stands on a date of the schedule, and left none behind that is
\* after today; in weeks, it left the start by sevens.
OnSchedule(next) ==
    /\ next.m \in Due /\ next = Payment(next.m)
    /\ next.m # asked.start.m => /\ next.m - Each \in Due
                                /\ ~Dates!After(Payment(next.m - Each), asked.now)
ByWeeks(next) ==
    /\ next \in Date
    /\ Dates!Ordinal(next) % 7 = Dates!Ordinal(asked.start) % 7
    /\ \/ next = asked.start
       \/ Dates!Ordinal(next) <= Dates!Ordinal(asked.now) + 7

WalkAt(step, next) ==
    /\ step \in {"asked", "walk", "done"}
    /\ step \in {"walk", "done"} /\ Monthly => OnSchedule(next)
    /\ step \in {"walk", "done"} /\ asked.period = "WEEKLY" => ByWeeks(next)
    /\ step = "done" /\ asked.period \notin {"LIFETIME", "ONE_TIME"}
         => Dates!After(next, asked.now)

WalkInv ==
    /\ CallFits
    /\ answer = [step |-> answer.step, next |-> answer.next]
    /\ WalkAt(answer.step, answer.next)

\* The day is cut to the month.
LEMMA ClampIs ==
    ASSUME NEW d \in Nat, NEW m \in Nat \ {0}
    PROVE  LET last == Dates!LastDayOfMonth(m)
           IN  Dates!Clamp(d, m) = IF d <= last THEN d ELSE last
<1> DEFINE last == Dates!LastDayOfMonth(m)
<1>1. last \in 28 .. 31 BY MonthLength
<1>2. CASE d <= last BY <1>1, <1>2, LeastIs DEF Dates!Clamp
<1>3. CASE ~(d <= last) BY <1>1, <1>3, LeastIs DEF Dates!Clamp
<1> QED BY <1>2, <1>3

\* The months of payments from one to the next: none lies between.
LEMMA DueMonths ==
    ASSUME CallFits, Monthly, NEW m \in Due
    PROVE  /\ Each \in {1, 3, 12} /\ m \in Nat \ {0} /\ m + Each \in Due
           /\ \A j \in Due : j <= m + Each => j <= m \/ j = m + Each
<1>1. Each \in {1, 3, 12} BY DEF Monthly, Each, Dates!MonthsIn
<1>2. asked.start.m \in Nat \ {0} BY DEF CallFits, Date
<1>3. PICK n \in {1, 3, 12}, s \in Nat \ {0} : n = Each /\ s = asked.start.m
  BY <1>1, <1>2
<1>4. Due = {j \in Nat : j >= s /\ (j - s) % n = 0} BY <1>3 DEF Due
<1>5. m \in Nat /\ m >= s /\ (m - s) % n = 0 BY <1>4
<1>6. CASE n = 1 BY <1>3, <1>4, <1>5, <1>6
<1>7. CASE n = 3 BY <1>3, <1>4, <1>5, <1>7
<1>8. CASE n = 12 BY <1>3, <1>4, <1>5, <1>8
<1> QED BY <1>6, <1>7, <1>8

\* A set of natural numbers has a least one.
LEMMA LeastExists ==
    ASSUME NEW S, S \subseteq Nat, S # {}
    PROVE  Dates!Least(S) \in S /\ \A y \in S : Dates!Least(S) <= y
<1>1. PICK x \in S : \A y \in S : ~(<<y, x>> \in OpToRel(<, Nat))
  BY NatLessThanWellFounded, WFMin
<1>2. \A y \in S : ~(y < x)
  BY <1>1, Zenon DEF OpToRel
<1>3. S \subseteq Int /\ \A y \in S : x <= y
  BY <1>2
<1>4. Dates!Least(S) = x
  BY <1>3, LeastIs
<1> QED BY <1>3, <1>4

\* The start's day is cut by each short month on the way: the day of the next
\* payment is this one's, cut to its month.
LEMMA DayOfNext ==
    ASSUME CallFits, Monthly, ~(asked.day # 0 /\ asked.period = "MONTHLY"), NEW m \in Due
    PROVE  /\ Dates!DayIn(asked.start.m, Each) = asked.start.d
           /\ Dates!DayIn(m, Each) \in 1 .. 31
           /\ Dates!DayIn(m + Each, Each) = Dates!Clamp(Dates!DayIn(m, Each), m + Each)
<1> DEFINE s == asked.start.m
           Days(k) == {asked.start.d} \cup
                      {Dates!LastDayOfMonth(i) : i \in {j \in s .. k : (j - s) % Each = 0}}
<1>1. /\ s \in Nat \ {0} /\ asked.start.d \in 1 .. 31
      /\ asked.start.d <= Dates!LastDayOfMonth(s)
  BY DEF CallFits, Date
<1>2. \A k : Dates!DayIn(k, Each) = Dates!Least(Days(k))
  BY DEF Dates!DayIn
<1>3. /\ Each \in {1, 3, 12} /\ m \in Nat \ {0} /\ m + Each \in Due /\ m >= s
      /\ \A j \in Due : j <= m + Each => j <= m \/ j = m + Each
  BY DueMonths DEF Due
<1>4. \A k \in Nat : {j \in s .. k : (j - s) % Each = 0} = {j \in Due : j <= k}
  BY <1>1 DEF Due
<1>5. Days(s) = {asked.start.d, Dates!LastDayOfMonth(s)}
  <2>1. {j \in Due : j <= s} = {s}
    BY <1>1, <1>3 DEF Due
  <2> QED BY <1>1, <1>4, <2>1
<1>6. Days(m + Each) = Days(m) \cup {Dates!LastDayOfMonth(m + Each)}
  <2>1. {j \in Due : j <= m + Each} = {j \in Due : j <= m} \cup {m + Each}
    BY <1>3 DEF Due
  <2> QED BY <1>3, <1>4, <2>1
<1>7. \A k \in Nat : Days(k) \subseteq 1 .. 31
  <2>1. \A j \in Nat : j >= s => Dates!LastDayOfMonth(j) \in 28 .. 31
    BY <1>1, MonthLength
  <2> QED BY <1>1, <2>1
<1> DEFINE day == Dates!Least(Days(m))
           last == Dates!LastDayOfMonth(m + Each)
<1>8. /\ day \in Days(m) /\ day \in 1 .. 31 /\ \A y \in Days(m) : day <= y
      /\ Days(m) \subseteq 1 .. 31
  <2>1. Days(m) \subseteq 1 .. 31 /\ Days(m) # {}
    BY <1>3, <1>7
  <2> HIDE DEF Days
  <2>2. Days(m) \subseteq Nat
    BY <2>1
  <2>3. day \in Days(m) /\ \A y \in Days(m) : day <= y
    BY <2>1, <2>2, LeastExists
  <2> QED BY <2>1, <2>3
<1>9. last \in 28 .. 31
  BY <1>3, MonthLength
<1>10. Dates!DayIn(asked.start.m, Each) = asked.start.d
  <2>1. Dates!Least({asked.start.d, Dates!LastDayOfMonth(s)}) = asked.start.d
    <3>1. Dates!LastDayOfMonth(s) \in 28 .. 31
      BY <1>1, MonthLength
    <3> QED BY <1>1, <3>1, LeastIs
  <2> QED BY <1>2, <1>5, <2>1
<1> HIDE DEF Days
<1>11. Dates!Least(Days(m) \cup {last}) = Dates!Clamp(day, m + Each)
  <2>1. Dates!Clamp(day, m + Each) = IF day <= last THEN day ELSE last
    BY <1>3, <1>8, ClampIs
  <2>2. CASE day <= last
    BY <1>8, <1>9, <2>1, <2>2, LeastIs
  <2>3. CASE ~(day <= last)
    BY <1>8, <1>9, <2>1, <2>3, LeastIs
  <2> QED BY <2>2, <2>3
<1> QED BY <1>2, <1>6, <1>8, <1>10, <1>11

\* A payment falls on a day.
LEMMA PaymentHasADay ==
    ASSUME CallFits, Monthly, NEW m \in Due
    PROVE  Payment(m).d \in Int
<1>1. CASE asked.day # 0 /\ asked.period = "MONTHLY"
  <2>1. m \in Nat \ {0} /\ asked.day \in Nat /\ Dates!LastDayOfMonth(m) \in 28 .. 31
    BY <1>1, DueMonths, MonthLength DEF Monthly
  <2>2. Dates!Clamp(asked.day, m) \in Int
    BY <2>1, ClampIs
  <2> QED BY <1>1, <2>2 DEF Payment, Dates!DayIn
<1>2. CASE ~(asked.day # 0 /\ asked.period = "MONTHLY")
  BY <1>2, DayOfNext DEF Payment
<1> QED BY <1>1, <1>2

\* A step of the walk from one payment comes to the next.
LEMMA WalkStep ==
    ASSUME CallFits, Monthly, NEW m \in Due
    PROVE  /\ Dates!ClampBillingDay(asked.start, asked) = Payment(asked.start.m)
           /\ Dates!AdvanceAndClamp(Payment(m)) = Payment(m + Each)
<1>1. /\ Each \in {1, 3, 12} /\ m \in Nat \ {0} /\ m + Each \in Nat \ {0}
      /\ asked.start.m \in Nat \ {0} /\ asked.start = [m |-> asked.start.m, d |-> asked.start.d]
      /\ asked.day \in Int /\ (asked.period = "MONTHLY" => ~(asked.day < 0))
  BY DueMonths DEF CallFits, Date, Monthly
<1>2. Dates!Advance(Payment(m), asked.period)
         = [m |-> m + Each, d |-> Dates!Clamp(Dates!DayIn(m, Each), m + Each)]
  BY DEF Dates!Advance, Dates!AddMonths, Monthly, Payment, Each
<1>3. CASE asked.day # 0 /\ asked.period = "MONTHLY"
  <2>1. \A k : Payment(k) = [m |-> k, d |-> Dates!Clamp(asked.day, k)]
    BY <1>3 DEF Payment, Dates!DayIn
  <2> QED BY <1>1, <1>2, <1>3, <2>1 DEF Dates!ClampBillingDay, Dates!AdvanceAndClamp
<1>4. CASE ~(asked.day # 0 /\ asked.period = "MONTHLY")
  BY <1>1, <1>2, <1>4, DayOfNext DEF Dates!ClampBillingDay, Dates!AdvanceAndClamp, Payment
<1> QED BY <1>3, <1>4

\* The arguments stay, so that what is so of the loop's variable stays so.
LEMMA WalkStays ==
    ASSUME CallFits, asked' = asked, NEW st, NEW x, answer' = [step |-> st, next |-> x],
           WalkAt(st, x)
    PROVE  WalkInv'
<1>1. answer'.step = st /\ answer'.next = x
  OBVIOUS
<1>2. CallFits'
  BY DEF CallFits
<1>3. WalkAt(answer.step, answer.next)'
  BY <1>1 DEF WalkAt, OnSchedule, ByWeeks, Monthly, Each, Due, Payment, Dates!DayIn
<1> QED BY <1>1, <1>2, <1>3 DEF WalkInv

\* The walk keeps to the schedule.
LEMMA NextWalk ==
    ASSUME WalkInv, [Dates!Next]_(Dates!vars)
    PROVE  WalkInv'
<1>1. CASE UNCHANGED Dates!vars
  BY <1>1 DEF Dates!vars, WalkInv, WalkAt, CallFits, OnSchedule, ByWeeks, Monthly, Each, Due, Payment,
     Dates!DayIn
<1>2. CASE Dates!Next
  <2>1. asked' = asked
    BY <1>2 DEF Dates!Next, Dates!ApplyBillingDay, Dates!WalkForward
  <2>2. CallFits
    BY DEF WalkInv
  <2>3. ASSUME Monthly
        PROVE  asked.start.m \in Due /\ asked.period # "WEEKLY"
    BY <2>2, <2>3, DueMonths DEF CallFits, Due, Each, Monthly, Dates!MonthsIn, Date
  <2>4. CASE Dates!ApplyBillingDay
    <3>1. CASE asked.period \in {"LIFETIME", "ONE_TIME"}
      <4>1. answer' = [step |-> "done", next |-> Dates!NoDate]
        BY <2>4, <3>1 DEF Dates!ApplyBillingDay
      <4>2. WalkAt("done", Dates!NoDate)
        BY <3>1 DEF WalkAt, Monthly
      <4> QED BY <2>1, <2>2, <4>1, <4>2, WalkStays
    <3>2. CASE asked.period \notin {"LIFETIME", "ONE_TIME"}
      <4> DEFINE first == Dates!ClampBillingDay(asked.start, asked)
      <4>1. answer' = [step |-> "walk", next |-> first]
        BY <2>4, <3>2 DEF Dates!ApplyBillingDay
      <4>2. ASSUME Monthly PROVE OnSchedule(first)
        <5>1. first = Payment(asked.start.m) /\ Payment(asked.start.m).m = asked.start.m
          BY <2>2, <2>3, <4>2, WalkStep DEF Payment
        <5> QED BY <2>3, <4>2, <5>1 DEF OnSchedule
      <4>3. ASSUME asked.period = "WEEKLY" PROVE ByWeeks(first)
        <5>1. first = asked.start
          BY <4>3 DEF Dates!ClampBillingDay
        <5> QED BY <2>2, <5>1 DEF ByWeeks, CallFits
      <4>4. WalkAt("walk", first)
        BY <4>2, <4>3 DEF WalkAt
      <4> QED BY <2>1, <2>2, <4>1, <4>4, WalkStays
    <3> QED BY <3>1, <3>2
  <2>5. CASE Dates!WalkForward
    <3> DEFINE next == answer.next
    <3>1. CASE Dates!After(next, asked.now)
      <4>1. answer.step = "walk" /\ answer' = [step |-> "done", next |-> next]
        BY <2>5, <3>1 DEF Dates!WalkForward, WalkInv
      <4>2. WalkAt("done", next)
        BY <3>1, <4>1 DEF WalkInv, WalkAt
      <4> QED BY <2>1, <2>2, <4>1, <4>2, WalkStays
    <3>2. CASE ~Dates!After(next, asked.now)
      <4> DEFINE later == Dates!AdvanceAndClamp(next)
      <4>1. answer.step = "walk" /\ answer' = [step |-> "walk", next |-> later]
        BY <2>5, <3>2 DEF Dates!WalkForward, WalkInv
      <4>2. ASSUME Monthly PROVE OnSchedule(later)
        <5>1. next.m \in Due /\ next = Payment(next.m)
          BY <4>1, <4>2 DEF WalkInv, WalkAt, OnSchedule
        <5>2. PICK m \in Due : m = next.m
          BY <5>1
        <5>3. later = Payment(m + Each) /\ Payment(m + Each).m = m + Each
          BY <2>2, <4>2, <5>1, <5>2, WalkStep DEF Payment
        <5>4. m + Each \in Due /\ (m + Each) - Each = m
          BY <2>2, <4>2, DueMonths
        <5>5. ~Dates!After(Payment(m), asked.now)
          BY <3>2, <5>1, <5>2
        <5>6. later.m = m + Each /\ later.m \in Due /\ later.m - Each = m
          BY <5>3, <5>4
        <5> HIDE DEF later
        <5> QED BY <5>2, <5>3, <5>5, <5>6 DEF OnSchedule
      <4>3. ASSUME asked.period = "WEEKLY" PROVE ByWeeks(later)
        <5>1. next \in Date /\ Dates!Ordinal(next) % 7 = Dates!Ordinal(asked.start) % 7
          BY <4>1, <4>3 DEF WalkInv, WalkAt, ByWeeks
        <5>2. later = Dates!AddWeek(next)
          BY <4>3 DEF Dates!AdvanceAndClamp, Dates!ClampBillingDay, Dates!Advance
        <5>3. /\ later \in Date /\ Dates!Ordinal(next) \in Nat
              /\ Dates!Ordinal(later) = Dates!Ordinal(next) + 7
          BY <5>1, <5>2, WeekIsSevenDays
        <5>4. Dates!Ordinal(asked.now) \in Nat /\ Dates!Ordinal(next) <= Dates!Ordinal(asked.now)
          BY <2>2, <3>2, <5>1, OrdinalsInOrder DEF CallFits
        <5>5. \A n \in Nat : (n + 7) % 7 = n % 7
          OBVIOUS
        <5> HIDE DEF later
        <5> QED BY <5>1, <5>3, <5>4, <5>5 DEF ByWeeks
      <4>4. WalkAt("walk", later)
        BY <4>2, <4>3 DEF WalkAt
      <4> QED BY <2>1, <2>2, <4>1, <4>4, WalkStays
    <3> QED BY <3>1, <3>2
  <2> QED BY <1>2, <2>4, <2>5 DEF Dates!Next
<1> QED BY <1>1, <1>2

\* computeNextPaymentDate, for any start, today and integer for a billing day:
\* where the walk ends, it ends after today; and if the billing day is not
\* below zero, on the first payment after today, and skips none.
THEOREM NextDateIsRight == MCSpec => []NextIsTheFirstAfterToday
<1>1. MCInit => WalkInv
  <2> SUFFICES ASSUME Dates!Init PROVE WalkInv BY DEF MCInit
  <2>1. /\ asked.start \in [m : StartMonths, d : StartDates]
        /\ asked.now \in [m : TodayMonths, d : Todays]
        /\ asked.start.d <= Dates!LastDayOfMonth(asked.start.m)
        /\ asked.now.d <= Dates!LastDayOfMonth(asked.now.m)
        /\ asked.day \in BillingDays /\ asked.period \in Dates!Periods
        /\ asked = [start |-> asked.start, day |-> asked.day, period |-> asked.period,
                    now |-> asked.now]
    BY DEF Dates!Init
  <2>2. CallFits
    BY <2>1, ServicesConstants DEF CallFits, Date
  <2> QED BY <2>2 DEF Dates!Init, WalkInv, WalkAt
<1>2. ASSUME [MCNext]_<<part, vars, catalog, subs, dates, mail>> PROVE [Dates!Next]_Dates!vars
  BY <1>2 DEF MCNext, AccessNext, CatalogNext, SubsNext, DatesNext, MailNext, dates, Dates!vars
<1>3. WalkInv => NextIsTheFirstAfterToday
  <2> SUFFICES ASSUME WalkInv, answer.step = "done", asked.period \notin {"LIFETIME", "ONE_TIME"}
               PROVE  Dates!NextIsTheFirstAfterToday
    BY DEF NextIsTheFirstAfterToday, Dates!NextIsTheFirstAfterToday
  <2> DEFINE next == answer.next
  <2>1. Dates!After(next, asked.now) /\ CallFits
    BY DEF WalkInv, WalkAt
  <2>2. CASE asked.period = "WEEKLY"
    BY <2>1, <2>2 DEF WalkInv, WalkAt, ByWeeks, Dates!NextIsTheFirstAfterToday
  <2>3. CASE asked.period # "WEEKLY" /\ Dates!Backwards
    BY <2>1, <2>3 DEF Dates!NextIsTheFirstAfterToday
  <2>4. CASE asked.period # "WEEKLY" /\ ~Dates!Backwards
    <3>1. Monthly /\ OnSchedule(next)
      BY <2>1, <2>4 DEF CallFits, Dates!Periods, Dates!Backwards, Monthly, WalkInv, WalkAt
    <3>2. PICK m \in Due : m = next.m /\ next = Payment(m)
      BY <3>1 DEF OnSchedule
    <3>3. /\ Each \in {1, 3, 12} /\ m \in Nat \ {0} /\ m >= asked.start.m
          /\ asked.start.m \in Nat \ {0} /\ asked.now.m \in Nat \ {0}
      BY <2>1, <3>1, DueMonths DEF CallFits, Date, Due
    <3>4. m # asked.start.m => m - Each \in Due /\ ~Dates!After(Payment(m - Each), asked.now)
      BY <3>1, <3>2 DEF OnSchedule
    <3>5. m # asked.start.m => m - Each <= asked.now.m
      BY <3>3, <3>4 DEF Dates!After, Payment
    <3> DEFINE last == asked.start.m + asked.now.m + 12
    <3>6. Dates!Schedule = {Payment(j) : j \in {i \in Due : i <= last}}
      <4>1. {j \in asked.start.m .. last : (j - asked.start.m) % Each = 0} = {i \in Due : i <= last}
        BY <3>3 DEF Due
      <4> QED BY <4>1 DEF Dates!Schedule, Payment, Each
    <3>7. next \in Dates!Schedule
      <4>1. m <= last
        BY <3>3, <3>5
      <4> QED BY <3>2, <3>6, <4>1
    <3>8. ASSUME NEW x \in Dates!Schedule, Dates!After(next, x) PROVE ~Dates!After(x, asked.now)
      <4>1. PICK j \in Due : x = Payment(j)
        BY <3>6
      <4>2. j \in Nat /\ j >= asked.start.m /\ x.m = j /\ next.m = m
        BY <3>2, <4>1 DEF Due, Payment
      <4>3. j < m
        <5>1. j # m
          <6>1. x.d \in Int
            BY <2>1, <3>1, <4>1, PaymentHasADay
          <6>2. ~Dates!After(x, x)
            BY <4>2, <6>1 DEF Dates!After
          <6> QED BY <3>2, <3>8, <4>1, <6>2
        <5> QED BY <3>3, <3>8, <4>2, <5>1 DEF Dates!After
      <4>4. m - Each \in Due /\ ~Dates!After(Payment(m - Each), asked.now) /\ m - Each <= asked.now.m
        BY <3>3, <3>4, <3>5, <4>2, <4>3
      <4>5. j <= m - Each
        <5>1. PICK k \in Due : k = m - Each
          BY <4>4
        <5>2. k + Each = m /\ k \in Nat
          BY <3>3, <5>1 DEF Due
        <5>3. \A i \in Due : i <= k + Each => i <= k \/ i = k + Each
          BY <2>1, <3>1, DueMonths
        <5>4. PICK e \in {1, 3, 12} : e = Each
          BY <3>3
        <5>5. j <= k + e /\ j # k + e
          BY <3>3, <4>2, <4>3, <5>2, <5>4
        <5> QED BY <4>1, <5>1, <5>3, <5>4, <5>5
      <4>6. CASE j = m - Each
        BY <4>1, <4>4, <4>6
      <4>7. CASE j # m - Each
        BY <3>3, <4>2, <4>4, <4>5, <4>7 DEF Dates!After
      <4> QED BY <4>6, <4>7
    <3> QED BY <2>1, <2>4, <3>7, <3>8 DEF Dates!NextIsTheFirstAfterToday
  <2> QED BY <2>2, <2>3, <2>4
<1> QED BY <1>1, <1>2, <1>3, NextWalk, PTL DEF MCSpec
=============================================================================
