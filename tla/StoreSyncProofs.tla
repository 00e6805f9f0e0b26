-------------------------- MODULE StoreSyncProofs --------------------------
(* What the claim in webhook_events is worth, and that the row lives the    *)
(* life BillingLifecycle gives it, proved for any number of pods, plans,    *)
(* events and failures, and whatever RevenueCat and the app do.             *)
EXTENDS StoreSync, BillingStateMachineProofs

Serving(p, i) == req[p].pc \in WebhookPcs /\ req[p].id = i

\* The types of what the proof speaks of; of a request it needs two fields.
SyncTypes ==
    /\ \E S : events \in Seq(S)
    /\ outgoing \subseteq Ids
    /\ claims \in [Ids -> Claims]
    /\ applied \in [Ids -> Nat]
    /\ req = [p \in Pods |-> req[p]]
    /\ \A p \in Pods : {"pc", "id"} \subseteq DOMAIN req[p]

\* An event is processed under a claim.
ServedIsClaimed ==
    \A p \in Pods : req[p].pc \in WebhookPcs =>
        req[p].id \in Ids /\ claims[req[p].id] # "none"

\* An event that has changed the row keeps its claim, and nobody processes it
\* any more, unless its commit was not confirmed.
AppliedIsDone ==
    \A i \in Ids : applied[i] > 0 /\ i \notin unsure =>
        claims[i] # "none" /\ \A p \in Pods : ~Serving(p, i)

\* The inductive invariant.
SyncInv ==
    /\ SyncTypes
    /\ ServedIsClaimed
    /\ ExclusiveProcessing
    /\ AppliedIsDone
    /\ AppliedOnce

\* The invariant holds before the first purchase.
LEMMA InitSyncInv == Init => SyncInv
<1> SUFFICES ASSUME Init PROVE SyncInv
    OBVIOUS
<1>1. events \in Seq({})
    BY DEF Init
<1>2. \A p \in Pods : req[p] = Idle
    BY DEF Init
<1>3. Idle.pc = "idle" /\ {"pc", "id"} \subseteq DOMAIN Idle
    BY DEF Idle
<1>4. SyncTypes
    BY <1>1, <1>2, <1>3 DEF Init, SyncTypes, Claims
<1>. QED
    BY <1>2, <1>3, <1>4 DEF Init, SyncInv, ServedIsClaimed, ExclusiveProcessing,
       AppliedIsDone, AppliedOnce, WebhookPcs

\* A request that ends, or that does not process a webhook, disturbs nothing.
LEMMA OtherRequest ==
    ASSUME SyncInv, NEW p \in Pods, NEW r,
           req' = [req EXCEPT ![p] = r],
           {"pc", "id"} \subseteq DOMAIN r, r.pc \notin WebhookPcs,
           outgoing' \subseteq outgoing,
           UNCHANGED <<events, claims, history>>
    PROVE  SyncInv'
<1>1. \A q \in Pods : req'[q] = IF q = p THEN r ELSE req[q]
    BY DEF SyncInv, SyncTypes
<1>2. \A q \in Pods : req'[q].pc \in WebhookPcs => req'[q] = req[q]
    BY <1>1
<1>3. SyncTypes'
    <2>1. req' = [q \in Pods |-> req'[q]]
        BY DEF SyncInv, SyncTypes
    <2>. QED
        BY <1>1, <2>1 DEF SyncInv, SyncTypes, history
<1>4. ServedIsClaimed' /\ ExclusiveProcessing'
    BY <1>2 DEF SyncInv, ServedIsClaimed, ExclusiveProcessing
<1>5. AppliedIsDone' /\ AppliedOnce'
    BY <1>2 DEF SyncInv, AppliedIsDone, AppliedOnce, Serving, history
<1>. QED
    BY <1>3, <1>4, <1>5 DEF SyncInv

\* A step that leaves requests and claims alone disturbs nothing either.
LEMMA NoRequest ==
    ASSUME SyncInv, UNCHANGED <<claims, req, history>>,
           outgoing' \subseteq Ids, \E S : events' \in Seq(S)
    PROVE  SyncInv'
BY DEF SyncInv, SyncTypes, ServedIsClaimed, ExclusiveProcessing, AppliedIsDone,
       AppliedOnce, Serving, history

\* What happens at the store adds one event to be delivered.
LEMMA EmitKeepsInv ==
    ASSUME SyncInv, NEW e, NEW newSubs, Emit(e, newSubs)
    PROVE  SyncInv'
<1>1. PICK S : events \in Seq(S)
    BY DEF SyncInv, SyncTypes
<1>2. events \in Seq(S \cup {e}) /\ Len(events) \in Nat
    BY <1>1
<1>3. events' \in Seq(S \cup {e})
    BY <1>2 DEF Emit
<1>4. Len(events) + 1 \in Ids
    BY <1>2, StoreSyncConstants DEF Emit, Ids
<1>5. outgoing' \subseteq Ids
    BY <1>4 DEF Emit, SyncInv, SyncTypes
<1>. QED
    BY <1>3, <1>5, NoRequest DEF Emit

\* A claim is made where there is none, so nobody processes the event, and it
\* has not changed the row unless unconfirmed.
LEMMA ClaimKeepsInv ==
    ASSUME SyncInv, NEW p \in Pods, Claim(p)
    PROVE  SyncInv'
<1> DEFINE taken(id) == [Idle EXCEPT !.pc = "apply", !.id = id, !.event = events[id]]
<1>1. PICK id \in outgoing : claims[id] = "none" /\ TakeUp(p, id)
    BY DEF Claim
<1>2. id \in Ids
    BY DEF SyncInv, SyncTypes
<1>3. taken(id).pc = "apply" /\ taken(id).id = id
         /\ {"pc", "id"} \subseteq DOMAIN taken(id)
    BY DEF Idle
<1>4. \A q \in Pods : req'[q] = IF q = p THEN taken(id) ELSE req[q]
    BY <1>1 DEF TakeUp, SyncInv, SyncTypes
<1>5. \A i \in Ids : claims'[i] = IF i = id THEN "held" ELSE claims[i]
    BY <1>1 DEF TakeUp, SyncInv, SyncTypes
<1>6. \A q \in Pods : ~Serving(q, id)
    BY <1>1 DEF SyncInv, ServedIsClaimed, Serving
<1>7. SyncTypes'
    <2>1. claims' \in [Ids -> Claims]
        BY <1>1 DEF TakeUp, SyncInv, SyncTypes, Claims
    <2>2. req' = [q \in Pods |-> req'[q]]
        BY <1>1 DEF TakeUp, SyncInv, SyncTypes
    <2>3. \A q \in Pods : {"pc", "id"} \subseteq DOMAIN req'[q]
        BY <1>3, <1>4 DEF SyncInv, SyncTypes
    <2>4. UNCHANGED <<events, outgoing, applied>>
        BY <1>1 DEF TakeUp, store, history
    <2>. QED
        BY <2>1, <2>2, <2>3, <2>4 DEF SyncInv, SyncTypes
<1>8. ServedIsClaimed'
    BY <1>2, <1>3, <1>4, <1>5 DEF SyncInv, ServedIsClaimed
<1>9. ExclusiveProcessing'
    BY <1>3, <1>4, <1>6 DEF SyncInv, ExclusiveProcessing, Serving
<1>10. AppliedIsDone' /\ AppliedOnce'
    <2>1. UNCHANGED <<applied, unsure>>
        BY <1>1 DEF TakeUp, history
    <2>2. ~(applied[id] > 0 /\ id \notin unsure)
        BY <1>1, <1>2 DEF SyncInv, AppliedIsDone
    <2>. QED
        BY <1>3, <1>4, <1>5, <2>1, <2>2
           DEF SyncInv, AppliedIsDone, AppliedOnce, Serving
<1>. QED
    BY <1>7, <1>8, <1>9, <1>10 DEF SyncInv

\* What a commit does to the count of changes, whatever becomes of the request.
LEMMA CommitCounts ==
    ASSUME SyncInv, NEW p \in Pods, CommitEvent(p)
    PROVE  /\ Serving(p, req[p].id) /\ req[p].id \in Ids
           /\ claims[req[p].id] # "none"
           /\ applied' \in [Ids -> Nat]
           /\ \A i \in Ids \ {req[p].id} : applied'[i] = applied[i]
           /\ req[p].id \in unsure \/ applied'[req[p].id] <= 1
<1>1. Serving(p, req[p].id) /\ req[p].id \in Ids /\ claims[req[p].id] # "none"
    BY DEF CommitEvent, Serving, WebhookPcs, SyncInv, ServedIsClaimed
<1>2. req[p].id \in unsure \/ applied[req[p].id] = 0
    BY <1>1 DEF SyncInv, SyncTypes, AppliedIsDone
<1>3. \/ applied' = applied
      \/ applied' = [applied EXCEPT ![req[p].id] = @ + 1]
    BY DEF CommitEvent
<1>4. applied \in [Ids -> Nat] /\ applied' \in [Ids -> Nat]
    BY <1>1, <1>3 DEF SyncInv, SyncTypes
<1>5. \A i \in Ids \ {req[p].id} : applied'[i] = applied[i]
    BY <1>1, <1>3, <1>4
<1>6. applied'[req[p].id] <= applied[req[p].id] + 1
    BY <1>1, <1>3, <1>4
<1>. QED
    BY <1>1, <1>2, <1>4, <1>5, <1>6

\* A commit after which the request ends, or goes on to delete its claim with
\* the event noted as unconfirmed.
LEMMA CommitKeepsInv ==
    ASSUME SyncInv, NEW p \in Pods, NEW r, CommitEvent(p),
           req' = [req EXCEPT ![p] = r], {"pc", "id"} \subseteq DOMAIN r,
           \/ r.pc \notin WebhookPcs /\ claims' = claims /\ unsure' = unsure
           \/ /\ r.id = req[p].id
              /\ claims' \in {claims, [claims EXCEPT ![req[p].id] = "failed"]}
              /\ unsure' = unsure \cup {req[p].id},
           outgoing' \subseteq outgoing, events' = events
    PROVE  SyncInv'
<1> DEFINE id == req[p].id
<1>1. /\ Serving(p, id) /\ id \in Ids /\ claims[id] # "none"
      /\ applied' \in [Ids -> Nat]
      /\ \A i \in Ids \ {id} : applied'[i] = applied[i]
      /\ id \in unsure \/ applied'[id] <= 1
    BY CommitCounts
<1>2. \A q \in Pods : req'[q] = IF q = p THEN r ELSE req[q]
    BY DEF SyncInv, SyncTypes
<1>3. /\ claims' \in [Ids -> Claims]
      /\ \A i \in Ids : claims[i] # "none" => claims'[i] # "none"
    BY <1>1 DEF SyncInv, SyncTypes, Claims
<1>4. \A q \in Pods, i \in Ids : Serving(q, i)' => Serving(q, i)
    BY <1>1, <1>2 DEF Serving
<1>5. SyncTypes'
    <2>1. req' = [q \in Pods |-> req'[q]]
        BY DEF SyncInv, SyncTypes
    <2>. QED
        BY <1>1, <1>2, <1>3, <2>1 DEF SyncInv, SyncTypes
<1>6. ServedIsClaimed'
    BY <1>1, <1>2, <1>3 DEF SyncInv, ServedIsClaimed
<1>7. ExclusiveProcessing'
    BY <1>1, <1>2 DEF SyncInv, ExclusiveProcessing, Serving
<1>8. AppliedIsDone'
    <2> SUFFICES ASSUME NEW i \in Ids, applied'[i] > 0, i \notin unsure'
                 PROVE  claims'[i] # "none" /\ \A q \in Pods : ~Serving(q, i)'
        BY DEF AppliedIsDone
    <2>1. CASE i # id
        BY <1>1, <1>3, <1>4, <2>1 DEF SyncInv, AppliedIsDone
    <2>2. CASE i = id
        <3>1. r.pc \notin WebhookPcs
            BY <2>2
        <3>2. \A q \in Pods : q # p => ~Serving(q, id)
            BY <1>1 DEF SyncInv, ExclusiveProcessing, Serving
        <3>. QED
            BY <1>1, <1>2, <1>3, <2>2, <3>1, <3>2 DEF Serving
    <2>. QED
        BY <2>1, <2>2
<1>9. AppliedOnce'
    <2> SUFFICES ASSUME NEW i \in Ids, applied'[i] > 1 PROVE i \in unsure'
        BY DEF AppliedOnce
    <2>1. i \in unsure => i \in unsure'
        OBVIOUS
    <2>2. CASE i = id
        <3>1. applied'[id] \in Nat /\ ~(applied'[id] <= 1)
            BY <1>1, <2>2
        <3>. QED
            BY <1>1, <2>1, <2>2, <3>1
    <2>3. CASE i # id
        BY <1>1, <2>1, <2>3 DEF SyncInv, AppliedOnce
    <2>. QED
        BY <2>2, <2>3
<1>. QED
    BY <1>5, <1>6, <1>7, <1>8, <1>9 DEF SyncInv

\* A failure that was rolled back leaves the claim where it is for now.
LEMMA EventFailsKeepsInv ==
    ASSUME SyncInv, NEW p \in Pods, EventFails(p)
    PROVE  SyncInv'
<1> DEFINE r == [req[p] EXCEPT !.pc = "unclaim"]
<1>1. /\ r.pc = "unclaim" /\ r.id = req[p].id
      /\ {"pc", "id"} \subseteq DOMAIN r
      /\ req[p].pc \in WebhookPcs
    BY DEF SyncInv, SyncTypes, EventFails, WebhookPcs
<1>2. \A q \in Pods : req'[q] = IF q = p THEN r ELSE req[q]
    BY DEF EventFails, Report, SyncInv, SyncTypes
<1>3. req[p].id \in Ids
    BY <1>1 DEF SyncInv, ServedIsClaimed
<1>4. /\ claims' \in [Ids -> Claims]
      /\ \A i \in Ids : claims[i] # "none" => claims'[i] # "none"
    BY <1>3 DEF EventFails, Report, SyncInv, SyncTypes, Claims
<1>5. \A q \in Pods, i \in Ids : Serving(q, i)' => Serving(q, i)
    BY <1>1, <1>2 DEF Serving
<1>6. UNCHANGED <<events, outgoing, applied, unsure>>
    BY DEF EventFails, store, history
<1>7. SyncTypes'
    <2>1. req' = [q \in Pods |-> req'[q]]
        BY DEF EventFails, Report, SyncInv, SyncTypes
    <2>. QED
        BY <1>1, <1>2, <1>4, <1>6, <2>1 DEF SyncInv, SyncTypes
<1>8. ServedIsClaimed' /\ ExclusiveProcessing'
    BY <1>1, <1>2, <1>3, <1>4 DEF SyncInv, ServedIsClaimed, ExclusiveProcessing
<1>9. AppliedIsDone' /\ AppliedOnce'
    BY <1>4, <1>5, <1>6 DEF SyncInv, AppliedIsDone, AppliedOnce
<1>. QED
    BY <1>7, <1>8, <1>9 DEF SyncInv

\* The claim that is deleted is the request's own, and its event has not
\* changed the row unless unconfirmed.
LEMMA UnclaimKeepsInv ==
    ASSUME SyncInv, NEW p \in Pods, Unclaim(p)
    PROVE  SyncInv'
<1> DEFINE id == req[p].id
<1>1. Serving(p, id) /\ id \in Ids
    BY DEF Unclaim, Serving, WebhookPcs, SyncInv, ServedIsClaimed
<1>2. \A q \in Pods : req'[q] = IF q = p THEN Idle ELSE req[q]
    BY DEF Unclaim, SyncInv, SyncTypes
<1>3. \A i \in Ids : claims'[i] = IF i = id THEN "none" ELSE claims[i]
    BY <1>1 DEF Unclaim, SyncInv, SyncTypes
<1>4. Idle.pc \notin WebhookPcs /\ {"pc", "id"} \subseteq DOMAIN Idle
    BY DEF Idle, WebhookPcs
<1>5. \A q \in Pods \ {p} : ~Serving(q, id)
    BY <1>1 DEF SyncInv, ExclusiveProcessing, Serving
<1>6. UNCHANGED <<events, outgoing, applied, unsure>>
    BY DEF Unclaim, store, history
<1>7. SyncTypes'
    <2>1. req' = [q \in Pods |-> req'[q]]
        BY DEF Unclaim, SyncInv, SyncTypes
    <2>2. claims' \in [Ids -> Claims]
        BY DEF Unclaim, SyncInv, SyncTypes, Claims
    <2>. QED
        BY <1>2, <1>4, <1>6, <2>1, <2>2 DEF SyncInv, SyncTypes
<1>8. ServedIsClaimed' /\ ExclusiveProcessing'
    BY <1>2, <1>3, <1>4, <1>5
       DEF SyncInv, ServedIsClaimed, ExclusiveProcessing, Serving
<1>9. AppliedIsDone' /\ AppliedOnce'
    BY <1>1, <1>2, <1>3, <1>4, <1>6
       DEF SyncInv, AppliedIsDone, AppliedOnce, Serving
<1>. QED
    BY <1>7, <1>8, <1>9 DEF SyncInv

\* Whatever an app's call or the cron decides is no webhook.
LEMMA DecideKeepsInv ==
    ASSUME SyncInv, NEW p \in Pods, NEW e, Decide(p, e)
    PROVE  SyncInv'
<1>1. PICK r : /\ req' = [req EXCEPT ![p] = r]
               /\ r = IF e = NoEvent THEN Idle
                      ELSE [req[p] EXCEPT !.pc = "decided", !.event = e]
    BY DEF Decide, SyncInv, SyncTypes
<1>2. {"pc", "id"} \subseteq DOMAIN r /\ r.pc \notin WebhookPcs
    BY <1>1 DEF Idle, WebhookPcs, SyncInv, SyncTypes
<1>3. UNCHANGED <<events, outgoing, claims, history>>
    BY DEF Decide, store
<1>. QED
    BY <1>1, <1>2, <1>3, OtherRequest

\* Every step keeps the invariant.
LEMMA NextSyncInv == SyncInv /\ [Next]_vars => SyncInv'
<1> SUFFICES ASSUME SyncInv, [Next]_vars PROVE SyncInv'
    OBVIOUS
<1> USE DEF store
<1>1. {"pc", "id"} \subseteq DOMAIN Idle /\ Idle.pc \notin WebhookPcs
    BY DEF Idle, WebhookPcs
<1>2. ASSUME NEW p \in Pods, Claim(p) PROVE SyncInv'
    BY <1>2, ClaimKeepsInv
<1>3. ASSUME NEW p \in Pods, Duplicate(p) PROVE SyncInv'
    BY <1>3, NoRequest DEF Duplicate, SyncInv, SyncTypes
<1>4. ASSUME NEW p \in Pods, Serve(p) PROVE SyncInv'
    <2>1. CASE ApplyEvent(p)
        BY <1>1, <2>1, CommitKeepsInv DEF ApplyEvent, Answered
    <2>2. CASE Unclaim(p)
        BY <2>2, UnclaimKeepsInv
    <2>3. CASE SyncRead(p)
        BY <2>3, DecideKeepsInv DEF SyncRead
    <2>4. CASE ReconcileFetch(p)
        BY <2>4, DecideKeepsInv DEF ReconcileFetch
    <2>5. CASE ApplyDecided(p)
        BY <1>1, <2>5, OtherRequest DEF ApplyDecided
    <2>6. CASE ReconcileOne(p)
        BY <2>6, DecideKeepsInv DEF ReconcileOne
    <2>. QED
        BY <1>4, <2>1, <2>2, <2>3, <2>4, <2>5, <2>6 DEF Serve, Webhook
<1>5. ASSUME NEW p \in Pods, LookUpFails(p) PROVE SyncInv'
    BY <1>1, <1>5, OtherRequest DEF LookUpFails, Answered
<1>6. ASSUME NEW p \in Pods, CommitUnconfirmed(p) PROVE SyncInv'
    <2>1. PICK r : /\ req' = [req EXCEPT ![p] = r]
                   /\ r = [req[p] EXCEPT !.pc = "unclaim"]
        BY <1>6 DEF CommitUnconfirmed, Report, SyncInv, SyncTypes
    <2>2. {"pc", "id"} \subseteq DOMAIN r /\ r.id = req[p].id
        BY <2>1 DEF SyncInv, SyncTypes
    <2>. QED
        BY <1>6, <2>1, <2>2, CommitKeepsInv DEF CommitUnconfirmed, Report
<1>7. ASSUME NEW p \in Pods, EventFails(p) PROVE SyncInv'
    BY <1>7, EventFailsKeepsInv
<1>8. ASSUME NEW p \in Pods, UnclaimFails(p) PROVE SyncInv'
    BY <1>1, <1>8, OtherRequest DEF UnclaimFails
<1>9. ASSUME NEW p \in Pods, StartCron(p) PROVE SyncInv'
    <2>1. PICK r : req' = [req EXCEPT ![p] = r] /\ r = [Idle EXCEPT !.pc = "scan"]
        BY <1>9 DEF StartCron
    <2>2. {"pc", "id"} \subseteq DOMAIN r /\ r.pc \notin WebhookPcs
        BY <2>1 DEF Idle, WebhookPcs
    <2>. QED
        BY <1>9, <2>1, <2>2, OtherRequest DEF StartCron
<1>10. ASSUME NEW p \in Pods, Crash(p) PROVE SyncInv'
    BY <1>1, <1>10, OtherRequest DEF Crash
<1>11. ASSUME NEW p \in AppPods, StartSync(p) PROVE SyncInv'
    <2>1. PICK pl : req' = [req EXCEPT ![p] = [Idle EXCEPT !.pc = "read", !.hint = pl,
                                                          !.rc = FetchSnapshot]]
        BY <1>11 DEF StartSync
    <2>2. PICK r : /\ req' = [req EXCEPT ![p] = r]
                   /\ r = [Idle EXCEPT !.pc = "read", !.hint = pl, !.rc = FetchSnapshot]
        BY <2>1
    <2>3. {"pc", "id"} \subseteq DOMAIN r /\ r.pc \notin WebhookPcs
        BY <2>2 DEF Idle, WebhookPcs
    <2>. QED
        BY <1>11, <2>2, <2>3, OtherRequest, StoreSyncConstants DEF StartSync
<1>12. ASSUME NEW p \in AppPods, StartReconcile(p) PROVE SyncInv'
    <2>1. PICK r : /\ req' = [req EXCEPT ![p] = r]
                   /\ r = [Idle EXCEPT !.pc = "fetch", !.seen = row]
        BY <1>12 DEF StartReconcile
    <2>2. {"pc", "id"} \subseteq DOMAIN r /\ r.pc \notin WebhookPcs
        BY <2>1 DEF Idle, WebhookPcs
    <2>. QED
        BY <1>12, <2>1, <2>2, OtherRequest, StoreSyncConstants DEF StartReconcile
<1>13. CASE AtStore
    BY <1>13, EmitKeepsInv
       DEF AtStore, Buy, Change, Renew, Unsubscribe, Resubscribe, ChargeFails,
           Expire, GiveBack
<1>14. CASE Abandon \/ GraceCron \/ Tick
    BY <1>14, NoRequest DEF Abandon, GraceCron, Tick, SyncInv, SyncTypes
<1>15. CASE UNCHANGED vars
    BY <1>15, NoRequest DEF vars, history, SyncInv, SyncTypes
<1>. QED
    BY <1>2, <1>3, <1>4, <1>5, <1>6, <1>7, <1>8, <1>9, <1>10, <1>11, <1>12, <1>13,
       <1>14, <1>15
       DEF Next

\* The invariant holds in every reachable state.
LEMMA SyncInvariant == Spec => []SyncInv
BY InitSyncInv, NextSyncInv, PTL DEF Spec

\* Of two deliveries of one event at most one is being processed, whatever the
\* first has come to: the unique key of webhook_events is enough.
THEOREM OneDelivery == Spec => []ExclusiveProcessing
BY SyncInvariant, PTL DEF SyncInv

\* However often an event is delivered, and wherever pods die, it changes the
\* row once, unless a commit was reported as failed.
THEOREM Once == Spec => []AppliedOnce
BY SyncInvariant, PTL DEF SyncInv

-----------------------------------------------------------------------------
(* The row follows BillingLifecycle.                                        *)

\* A row as RevenueCat's events alone leave it: it passes the CHECK
\* constraints, and whatever it gives is paid through RevenueCat.
RowFits(s) ==
    /\ s \in UserBillingSnapshot
    /\ ChecksPass(s)
    /\ s.state = "free" \/ s.billingSource = "revenuecat"
    /\ s.currentPeriodEnd \in PeriodEnds \cup {Null}

\* The ends RevenueCat knows are some period after a day that has come.
EndsFit(ents) == \A pl \in Products : ents[pl] # Null => ents[pl].end \in PeriodEnds

\* What a request holds where it stands.
RequestFits(r) ==
    /\ r.pc \in {"apply", "decided"} => r.event \in RowEvents
    /\ r.pc = "read" => EndsFit(r.rc.ents)
    /\ r.pc = "fetch" => RowFits(r.seen)

\* The inductive invariant of the refinement: what the row may be, and that
\* whatever is still to be applied to it, on its way or decided, is an event
\* of the list.
LifeInv ==
    /\ now \in 0 .. MaxTime
    /\ RowFits(row)
    /\ subs \in [Products -> OrNull(Sub)] /\ EndsFit(subs)
    /\ \E S : events \in Seq(S)
    /\ \A i \in 1 .. Len(events) : events[i] \in RowEvents
    /\ outgoing \subseteq 1 .. Len(events)
    /\ req = [p \in Pods |-> req[p]]
    /\ \A p \in Pods : {"pc", "event"} \subseteq DOMAIN req[p] /\ RequestFits(req[p])

\* The events are events of the reducer.
LEMMA RowEventsTyped ==
    /\ RowEvents \subseteq BillingEvent
    /\ PeriodEnds \subseteq Nat /\ MaxTime \in Nat /\ NoEvent \notin RowEvents
<1>1. PeriodEnds \subseteq Nat /\ MaxTime \in Nat
  BY StoreSyncConstants DEF PeriodEnds
<1>2. RowEvents \subseteq BillingEvent
  BY <1>1, StoreSyncConstants
     DEF RowEvents, BillingEvent, PurchaseTypes, PeriodTypes, BareTypes
<1>3. NoEvent \notin RowEvents
  BY DEF NoEvent, RowEvents
<1> QED
  BY <1>1, <1>2, <1>3

\* An accepted event of RevenueCat, or the end of a grace period, makes a row
\* that fits of one that does.
LEMMA RowStaysFit ==
    ASSUME NEW s, RowFits(s), NEW e \in RowEvents, Accepts(s, e), NEW t \in Nat
    PROVE  RowFits(Transition(s, e, t))
<1> DEFINE r == Transition(s, e, t)
<1> USE DEF ChecksPass, StatePlanConsistent, CancelFlagMatchesState,
            GraceStateHasEnd, PaidStateHasPeriod, SourceRequiredForPaid,
            GraceStates, RowFits
<1>1. e \in BillingEvent /\ s \in UserBillingSnapshot
  BY RowEventsTyped
<1>2. /\ r \in UserBillingSnapshot
      /\ "revenuecat" # Null /\ t # Null /\ t + GraceDays # Null
  BY <1>1, TransitionType, BillingConstants DEF Sources
<1>3. CASE e.type \in {"RC_INITIAL_PURCHASE", "RC_PRODUCT_CHANGE"}
  <2>1. e.plan # "free" /\ e.periodEnd \in PeriodEnds /\ e.periodEnd # Null
    BY <1>3, RowEventsTyped, StoreSyncConstants, BillingConstants DEF RowEvents, PaidPlans
  <2>2. CASE e.type = "RC_INITIAL_PURCHASE"
    BY <1>2, <2>1, <2>2
    DEF Transition, InitialPurchase, SameSubReplayed, ProductChange, NoGrace,
        UserBillingSnapshot
  <2>3. CASE e.type = "RC_PRODUCT_CHANGE"
    BY <1>2, <2>1, <2>3 DEF Transition, ProductChange, NoGrace, UserBillingSnapshot
  <2> QED BY <1>3, <2>2, <2>3
<1>4. CASE e.type \in {"RC_RENEWAL", "RC_CANCELLATION"}
  <2>1. e.periodEnd \in PeriodEnds /\ e.periodEnd # Null
    BY <1>4, RowEventsTyped, BillingConstants DEF RowEvents
  <2>2. CASE e.type = "RC_RENEWAL"
    BY <1>2, <2>1, <2>2 DEF Transition, Renewal, NoGrace, Accepts, UserBillingSnapshot
  <2>3. CASE e.type = "RC_CANCELLATION"
    BY <1>2, <2>1, <2>3 DEF Transition, Cancellation, Accepts, UserBillingSnapshot
  <2> QED BY <1>4, <2>2, <2>3
<1>5. CASE e.type = "RC_UNCANCELLATION"
  BY <1>2, <1>5 DEF Transition, Uncancellation, Accepts, UserBillingSnapshot
<1>6. CASE e.type = "RC_EXPIRATION"
  BY <1>2, <1>6 DEF Transition, Expiration, Grace, UserBillingSnapshot, States
<1>7. CASE e.type = "RC_BILLING_ISSUE"
  BY <1>2, <1>7 DEF Transition, BillingIssue, Accepts, UserBillingSnapshot
<1>8. CASE e.type = "RC_REFUND"
  BY <1>2, <1>8 DEF Transition, Refund, FreeRow, UserBillingSnapshot
<1>9. CASE e.type = "GRACE_EXPIRED"
  BY <1>2, <1>9 DEF Transition, GraceExpired, NoGrace, UserBillingSnapshot
<1> QED BY <1>3, <1>4, <1>5, <1>6, <1>7, <1>8, <1>9 DEF RowEvents

\* What the app's calls and the cron infer is one of these events.
LEMMA InferFits ==
    ASSUME NEW rc, EndsFit(rc.ents), NEW s, NEW hint,
           s.currentPeriodEnd \in PeriodEnds \cup {Null}
    PROVE  Infer(rc, s, hint) \in RowEvents \cup {NoEvent}
<1> DEFINE pl == PickActive(rc, hint, now)
           live == Entitled(rc.ents, now)
<1>3. InferLapse(s, now) \in RowEvents \cup {NoEvent}
  BY DEF InferLapse, RowEvents
<1>1. CASE pl = Null
  BY <1>1, <1>3 DEF Infer, InferEvent
<1>2. CASE pl # Null
  <2>1. pl \in live
    <3>1. CASE hint \in live
      BY <3>1 DEF PickActive
    <3>2. CASE hint \notin live /\ live = {}
      BY <1>2, <3>2 DEF PickActive
    <3>3. CASE hint \notin live /\ live = {"organization", "pro"}
      BY <3>3 DEF PickActive
    <3>4. CASE hint \notin live /\ live # {} /\ live # {"organization", "pro"}
      BY <3>4 DEF PickActive
    <3> QED BY <3>1, <3>2, <3>3, <3>4
  <2>2. pl \in Products /\ rc.ents[pl].end \in PeriodEnds
    BY <2>1 DEF Entitled, EndsFit
  <2> DEFINE found == [plan |-> pl, periodEnd |-> rc.ents[pl].end,
                       cancel |-> rc.cancel, issue |-> rc.issue]
  <2>3. found.plan \in Products /\ found.periodEnd \in PeriodEnds
    BY <2>2
  <2>4. Infer(rc, s, hint) = InferEvent(found, s, now)
    BY <1>2 DEF Infer
  <2> HIDE DEF found
  <2>5. InferActive(found, s) \in RowEvents \cup {NoEvent}
    BY <2>3 DEF InferActive, RowEvents
  <2> QED BY <1>3, <2>4, <2>5 DEF InferEvent
<1> QED BY <1>1, <1>2

\* A request that changes while the store, the row and the clock do not.
LEMMA RequestKeepsLife ==
    ASSUME LifeInv, NEW p \in Pods, NEW r, req' = [req EXCEPT ![p] = r],
           {"pc", "event"} \subseteq DOMAIN r, RequestFits(r),
           UNCHANGED <<now, store>>, outgoing' \subseteq outgoing, RowFits(row')
    PROVE  LifeInv'
<1>1. \A q \in Pods : req'[q] = IF q = p THEN r ELSE req[q]
  BY DEF LifeInv
<1>2. req' = [q \in Pods |-> req'[q]]
  BY DEF LifeInv
<1>3. UNCHANGED <<subs, events, now>>
  BY DEF store
<1> QED
  BY <1>1, <1>2, <1>3 DEF LifeInv, RequestFits, EndsFit, RowFits

\* What happens at the store, with an event of the list.
LEMMA EmitKeepsLife ==
    ASSUME LifeInv, NEW e \in RowEvents, NEW newSubs, Emit(e, newSubs),
           newSubs \in [Products -> OrNull(Sub)], EndsFit(newSubs)
    PROVE  LifeInv'
<1>1. PICK S : events \in Seq(S)
  BY DEF LifeInv
<1>2. events \in Seq(S \cup {e}) /\ Len(events) \in Nat
  BY <1>1
<1>3. /\ events' \in Seq(S \cup {e}) /\ Len(events') = Len(events) + 1
      /\ \A i \in 1 .. Len(events') :
            events'[i] = IF i = Len(events) + 1 THEN e ELSE events[i]
  BY <1>2 DEF Emit
<1>4. \A i \in 1 .. Len(events') : events'[i] \in RowEvents
  BY <1>2, <1>3 DEF LifeInv
<1>5. outgoing' \subseteq 1 .. Len(events')
  BY <1>2, <1>3 DEF Emit, LifeInv
<1> QED
  BY <1>3, <1>4, <1>5 DEF Emit, LifeInv, EndsFit, RowFits, RequestFits

\* The invariant holds before the first purchase.
LEMMA InitLife == Init => LifeInv /\ Life!Init
<1> SUFFICES ASSUME Init PROVE LifeInv /\ Life!Init
  OBVIOUS
<1>1. FreeRow \in UserBillingSnapshot /\ ChecksPass(FreeRow)
  BY ColumnValues, BillingConstants
     DEF FreeRow, UserBillingSnapshot, ChecksPass, StatePlanConsistent,
         CancelFlagMatchesState, GraceStateHasEnd, PaidStateHasPeriod,
         SourceRequiredForPaid, GraceStates
<1>2. RowFits(row)
  BY <1>1 DEF Init, RowFits, FreeRow
<1>3. \E S : events \in Seq(S)
  <2>1. events \in Seq({})
    BY DEF Init
  <2> QED BY <2>1
<1>4. Len(events) = 0
  BY DEF Init
<1>5. \A p \in Pods : {"pc", "event"} \subseteq DOMAIN req[p] /\ RequestFits(req[p])
  BY DEF Init, Idle, RequestFits
<1>6. subs \in [Products -> OrNull(Sub)] /\ EndsFit(subs)
  BY DEF Init, EndsFit, OrNull
<1>7. now \in 0 .. MaxTime /\ outgoing \subseteq 1 .. Len(events)
  BY RowEventsTyped DEF Init
<1>8. req = [p \in Pods |-> req[p]]
  BY DEF Init
<1> QED
  BY <1>2, <1>3, <1>4, <1>5, <1>6, <1>7, <1>8 DEF LifeInv, Init, Life!Init, Life!FreeRow, FreeRow

\* BillingLifecycle moves its row by the same reducer, under the same
\* constraints.
LEMMA SameReducer ==
    ASSUME NEW s, NEW e, NEW t
    PROVE  /\ Life!FreeRow = FreeRow
           /\ Life!Accepts(s, e) <=> Accepts(s, e)
           /\ Life!Transition(s, e, t) = Transition(s, e, t)
           /\ Life!ChecksPass(s) <=> ChecksPass(s)
<1>1. Life!FreeRow = FreeRow
  BY DEF Life!FreeRow, FreeRow
<1>2. Life!Accepts(s, e) <=> Accepts(s, e)
  BY DEF Life!Accepts, Accepts
<1>3. Life!ChecksPass(s) <=> ChecksPass(s)
  BY DEF Life!ChecksPass, Life!StatePlanConsistent, Life!CancelFlagMatchesState,
         Life!GraceStateHasEnd, Life!PaidStateHasPeriod,
         Life!SourceRequiredForPaid, Life!GraceStates,
         ChecksPass, StatePlanConsistent, CancelFlagMatchesState,
         GraceStateHasEnd, PaidStateHasPeriod, SourceRequiredForPaid,
         GraceStates
<1>4. Life!Transition(s, e, t) = Transition(s, e, t)
  <2> USE DEF Life!NoGrace, NoGrace, Life!Grace, Grace, Life!GraceStates, GraceStates
  <2>1. /\ Life!ProductChange(s, e) = ProductChange(s, e)
        /\ Life!SameSubReplayed(s, e) <=> SameSubReplayed(s, e)
        /\ Life!HasOwnSub(s) <=> HasOwnSub(s)
    BY DEF Life!ProductChange, ProductChange, Life!SameSubReplayed,
           SameSubReplayed, Life!HasOwnSub, HasOwnSub
  <2>2. Life!InitialPurchase(s, e) = InitialPurchase(s, e)
    BY <2>1 DEF Life!InitialPurchase, InitialPurchase
  <2>3. /\ Life!Renewal(s, e) = Renewal(s, e)
        /\ Life!Cancellation(s, e) = Cancellation(s, e)
        /\ Life!Uncancellation(s) = Uncancellation(s)
        /\ Life!Expiration(s, t) = Expiration(s, t)
    BY DEF Life!Renewal, Renewal, Life!Cancellation, Cancellation,
           Life!Uncancellation, Uncancellation, Life!Expiration, Expiration
  <2>4. /\ Life!Refund(t) = Refund(t)
        /\ Life!BillingIssue(s, t) = BillingIssue(s, t)
        /\ Life!TeamOwnerExpired(s, e, t) = TeamOwnerExpired(s, e, t)
        /\ Life!TeamMemberRemoved(s, t) = TeamMemberRemoved(s, t)
    BY <1>1, <2>1
    DEF Life!Refund, Refund, Life!BillingIssue, BillingIssue,
        Life!TeamOwnerExpired, TeamOwnerExpired,
        Life!TeamMemberRemoved, TeamMemberRemoved
  <2>5. /\ Life!GraceExpired(s) = GraceExpired(s)
        /\ Life!TrialExpired(s) = TrialExpired(s)
        /\ Life!AdminGrantPro(s, e) = AdminGrantPro(s, e)
    BY <1>1
    DEF Life!GraceExpired, GraceExpired, Life!TrialExpired, TrialExpired,
        Life!AdminGrantPro, AdminGrantPro, Life!Sources, Sources
  <2>6. /\ Life!LemonSqueezyPurchase(s, e) = LemonSqueezyPurchase(s, e)
        /\ Life!LemonSqueezyCancelled(s) = LemonSqueezyCancelled(s)
    BY DEF Life!LemonSqueezyPurchase, LemonSqueezyPurchase,
           Life!LemonSqueezyCancelled, LemonSqueezyCancelled
  <2> QED
    BY <2>1, <2>2, <2>3, <2>4, <2>5, <2>6 DEF Life!Transition, Transition
<1> QED BY <1>1, <1>2, <1>3, <1>4

\* What becomes of the row by an event of the list is a step of its life, or
\* nothing: the constraints refuse no result.
LEMMA ResultIsLife ==
    ASSUME LifeInv, NEW e \in RowEvents, row' = Result(row, e), now' = now
    PROVE  RowFits(row') /\ (Life!Next \/ UNCHANGED <<row, now>>)
<1>1. now \in Nat /\ now \in 0 .. now
  BY RowEventsTyped DEF LifeInv
<1>2. CASE Accepts(row, e)
  <2>1. row' = Transition(row, e, now)
    BY <1>2 DEF Result
  <2>2. RowFits(row')
    BY <1>1, <1>2, <2>1, RowStaysFit DEF LifeInv
  <2>3. Life!ApplyTransition(e)
    BY <1>1, <1>2, <2>1, <2>2, SameReducer DEF Life!ApplyTransition, RowFits
  <2> QED
    BY <2>2, <2>3 DEF Life!Next
<1>3. CASE ~Accepts(row, e)
  BY <1>3 DEF Result, LifeInv
<1> QED
  BY <1>2, <1>3

\* A request that changes while row and clock do not is no step of the row.
LEMMA DecideKeepsLife ==
    ASSUME LifeInv, NEW p \in Pods, NEW e \in RowEvents \cup {NoEvent}, Decide(p, e)
    PROVE  LifeInv'
<1>1. PICK r : /\ req' = [req EXCEPT ![p] = r]
               /\ r = IF e = NoEvent THEN Idle
                      ELSE [req[p] EXCEPT !.pc = "decided", !.event = e]
  BY DEF Decide, LifeInv
<1>2. {"pc", "event"} \subseteq DOMAIN r /\ RequestFits(r)
  BY <1>1 DEF Idle, LifeInv, RequestFits
<1>3. UNCHANGED <<now, store, row>> /\ outgoing' \subseteq outgoing
  BY DEF Decide
<1> QED
  BY <1>1, <1>2, <1>3, RequestKeepsLife DEF LifeInv

\* What RevenueCat tells of the subscriptions has ends it knows.
LEMMA SnapshotsFit ==
    ASSUME LifeInv
    PROVE  EndsFit(FetchSnapshot.ents) /\ EndsFit(GetSubscriber.ents)
<1>1. EndsFit(FetchSnapshot.ents)
  BY DEF LifeInv, EndsFit, FetchSnapshot, Entitled
<1>2. ASSUME NEW pl \in Products, GetSubscriber.ents[pl] # Null
      PROVE  GetSubscriber.ents[pl].end \in PeriodEnds
  <2>1. subs[pl] # Null /\ GetSubscriber.ents[pl] = [subs[pl] EXCEPT !.renews = TRUE]
    BY <1>2 DEF GetSubscriber
  <2>2. subs[pl] \in Sub
    BY <2>1 DEF LifeInv, OrNull
  <2>3. [subs[pl] EXCEPT !.renews = TRUE].end = subs[pl].end
    BY <2>2 DEF Sub
  <2> QED
    BY <2>1, <2>3 DEF LifeInv, EndsFit
<1> QED
  BY <1>1, <1>2 DEF EndsFit

\* Every step keeps the invariant, and is for the row a step of its life or
\* none at all.
LEMMA NextLife ==
    ASSUME LifeInv, [Next]_vars
    PROVE  LifeInv' /\ (Life!Next \/ UNCHANGED <<row, now>>)
<1> DEFINE Goal == LifeInv' /\ (Life!Next \/ UNCHANGED <<row, now>>)
<1>1. {"pc", "event"} \subseteq DOMAIN Idle /\ RequestFits(Idle)
  BY DEF Idle, RequestFits
<1>2. ASSUME NEW p \in Pods, CommitEvent(p), now' = now
      PROVE  RowFits(row') /\ (Life!Next \/ UNCHANGED <<row, now>>)
  BY <1>2, ResultIsLife DEF CommitEvent, LifeInv, RequestFits
<1>3. ASSUME NEW p \in Pods, Claim(p) PROVE Goal
  <2>1. PICK id \in outgoing : TakeUp(p, id)
    BY <1>3 DEF Claim
  <2>2. PICK r : /\ req' = [req EXCEPT ![p] = r]
                 /\ r = [Idle EXCEPT !.pc = "apply", !.id = id, !.event = events[id]]
    BY <2>1 DEF TakeUp
  <2>3. {"pc", "event"} \subseteq DOMAIN r /\ RequestFits(r)
    BY <2>2 DEF Idle, RequestFits, LifeInv
  <2>4. UNCHANGED <<now, store, row, outgoing>>
    BY <2>1 DEF TakeUp
  <2> QED
    BY <2>2, <2>3, <2>4, RequestKeepsLife DEF LifeInv
<1>4. ASSUME NEW p \in Pods, Duplicate(p) PROVE Goal
  BY <1>4 DEF Duplicate, store, LifeInv, EndsFit, RowFits, RequestFits
<1>5. ASSUME NEW p \in Pods, ApplyEvent(p) PROVE Goal
  BY <1>1, <1>2, <1>5, RequestKeepsLife DEF ApplyEvent, Answered
<1>6. ASSUME NEW p \in Pods, CommitUnconfirmed(p) PROVE Goal
  <2>1. PICK r : /\ req' = [req EXCEPT ![p] = r]
                 /\ r = [req[p] EXCEPT !.pc = "unclaim"]
    BY <1>6 DEF CommitUnconfirmed, Report
  <2>2. {"pc", "event"} \subseteq DOMAIN r /\ RequestFits(r)
    BY <2>1 DEF LifeInv, RequestFits
  <2> QED
    BY <1>2, <1>6, <2>1, <2>2, RequestKeepsLife DEF CommitUnconfirmed
<1>7. ASSUME NEW p \in Pods, EventFails(p) PROVE Goal
  <2>1. PICK r : /\ req' = [req EXCEPT ![p] = r]
                 /\ r = [req[p] EXCEPT !.pc = "unclaim"]
    BY <1>7 DEF EventFails, Report
  <2>2. {"pc", "event"} \subseteq DOMAIN r /\ RequestFits(r)
    BY <2>1 DEF LifeInv, RequestFits
  <2> QED
    BY <1>7, <2>1, <2>2, RequestKeepsLife DEF EventFails, LifeInv
<1>8. ASSUME NEW p \in Pods, Unclaim(p) \/ UnclaimFails(p) \/ Crash(p) \/ LookUpFails(p)
      PROVE  Goal
  <2>1. /\ req' = [req EXCEPT ![p] = Idle] /\ outgoing' \subseteq outgoing
        /\ UNCHANGED <<now, store, row>>
    BY <1>8 DEF Unclaim, UnclaimFails, Crash, LookUpFails, Answered
  <2> QED
    BY <1>1, <2>1, RequestKeepsLife DEF LifeInv
<1>9. ASSUME NEW p \in AppPods, StartSync(p) PROVE Goal
  <2>1. PICK pl : req' = [req EXCEPT ![p] = [Idle EXCEPT !.pc = "read", !.hint = pl,
                                                        !.rc = FetchSnapshot]]
    BY <1>9 DEF StartSync
  <2>2. PICK r : /\ req' = [req EXCEPT ![p] = r]
                 /\ r = [Idle EXCEPT !.pc = "read", !.hint = pl, !.rc = FetchSnapshot]
    BY <2>1
  <2>3. {"pc", "event"} \subseteq DOMAIN r /\ RequestFits(r)
    BY <2>2, SnapshotsFit DEF Idle, RequestFits
  <2>4. UNCHANGED <<now, store, row, outgoing>> /\ p \in Pods
    BY <1>9, StoreSyncConstants DEF StartSync
  <2> QED
    BY <2>2, <2>3, <2>4, RequestKeepsLife DEF LifeInv
<1>10. ASSUME NEW p \in AppPods, StartReconcile(p) PROVE Goal
  <2>1. PICK r : /\ req' = [req EXCEPT ![p] = r]
                 /\ r = [Idle EXCEPT !.pc = "fetch", !.seen = row]
    BY <1>10 DEF StartReconcile
  <2>2. {"pc", "event"} \subseteq DOMAIN r /\ RequestFits(r)
    BY <2>1 DEF Idle, RequestFits, LifeInv
  <2>3. UNCHANGED <<now, store, row, outgoing>> /\ p \in Pods
    BY <1>10, StoreSyncConstants DEF StartReconcile
  <2> QED
    BY <2>1, <2>2, <2>3, RequestKeepsLife DEF LifeInv
<1>11. ASSUME NEW p \in Pods, StartCron(p) PROVE Goal
  <2>1. PICK r : req' = [req EXCEPT ![p] = r] /\ r = [Idle EXCEPT !.pc = "scan"]
    BY <1>11 DEF StartCron
  <2>2. {"pc", "event"} \subseteq DOMAIN r /\ RequestFits(r)
    BY <2>1 DEF Idle, RequestFits
  <2> QED
    BY <1>11, <2>1, <2>2, RequestKeepsLife DEF StartCron, LifeInv
<1>12. ASSUME NEW p \in Pods, SyncRead(p) PROVE Goal
  <2>1. Infer(req[p].rc, row, req[p].hint) \in RowEvents \cup {NoEvent}
    BY <1>12, InferFits DEF SyncRead, LifeInv, RequestFits, RowFits
  <2> QED
    BY <1>12, <2>1, DecideKeepsLife DEF SyncRead, Decide
<1>13. ASSUME NEW p \in Pods, ReconcileFetch(p) PROVE Goal
  <2>1. Infer(FetchSnapshot, req[p].seen, Null) \in RowEvents \cup {NoEvent}
    BY <1>13, InferFits, SnapshotsFit DEF ReconcileFetch, LifeInv, RequestFits, RowFits
  <2> QED
    BY <1>13, <2>1, DecideKeepsLife DEF ReconcileFetch, Decide
<1>14. ASSUME NEW p \in Pods, ReconcileOne(p) PROVE Goal
  <2>1. Infer(GetSubscriber, RawUser, Null) \in RowEvents \cup {NoEvent}
    BY InferFits, SnapshotsFit DEF RawUser, FreeRow
  <2>2. PICK e \in RowEvents \cup {NoEvent} : Decide(p, e)
    BY <1>14, <2>1 DEF ReconcileOne
  <2> QED
    BY <2>2, DecideKeepsLife DEF Decide
<1>15. ASSUME NEW p \in Pods, ApplyDecided(p) PROVE Goal
  <2>1. RowFits(row') /\ (Life!Next \/ UNCHANGED <<row, now>>)
    BY <1>15, ResultIsLife DEF ApplyDecided, LifeInv, RequestFits
  <2> QED
    BY <1>1, <1>15, <2>1, RequestKeepsLife DEF ApplyDecided
<1>16. CASE AtStore
  <2>1. now + Period \in PeriodEnds
    BY StoreSyncConstants DEF LifeInv, PeriodEnds
  <2>2. Fresh \in Sub /\ Fresh.end \in PeriodEnds
    BY <2>1, RowEventsTyped DEF Fresh, Sub
  <2>3. PICK pl \in Products :
           \/ Buy(pl) \/ Change(pl) \/ Renew(pl) \/ Unsubscribe(pl)
           \/ Resubscribe(pl) \/ ChargeFails(pl) \/ Expire(pl) \/ GiveBack(pl)
    BY <1>16 DEF AtStore
  <2>4. subs[pl] # Null => subs[pl] \in Sub /\ subs[pl].end \in PeriodEnds
    BY DEF LifeInv, OrNull, EndsFit
  <2>5. ASSUME NEW e \in RowEvents, NEW x \in OrNull(Sub),
               x # Null => x.end \in PeriodEnds, Emit(e, [subs EXCEPT ![pl] = x])
        PROVE  Goal
    <3> DEFINE newSubs == [subs EXCEPT ![pl] = x]
    <3>1. newSubs \in [Products -> OrNull(Sub)]
      BY DEF LifeInv
    <3>2. EndsFit(newSubs)
      BY <2>5 DEF LifeInv, EndsFit
    <3> HIDE DEF newSubs
    <3>3. Emit(e, newSubs)
      BY <2>5 DEF newSubs
    <3> QED
      BY <3>1, <3>2, <3>3, EmitKeepsLife DEF Emit
  <2> USE DEF OrNull
  <2>6. CASE Buy(pl)
    <3>1. [type |-> "RC_INITIAL_PURCHASE", plan |-> pl, periodEnd |-> now + Period] \in RowEvents
      BY <2>1 DEF RowEvents
    <3> QED
      BY <2>2, <2>5, <2>6, <3>1 DEF Buy
  <2>7. CASE Change(pl)
    <3>1. [type |-> "RC_PRODUCT_CHANGE", plan |-> pl, periodEnd |-> now + Period] \in RowEvents
      BY <2>1 DEF RowEvents
    <3> DEFINE newSubs == [q \in Products |-> IF q = pl THEN Fresh ELSE Null]
    <3>2. newSubs \in [Products -> OrNull(Sub)] /\ EndsFit(newSubs)
      BY <2>2 DEF EndsFit
    <3> QED
      BY <2>7, <3>1, <3>2, EmitKeepsLife DEF Change, Emit
  <2>8. CASE Renew(pl)
    <3>1. [type |-> "RC_RENEWAL", periodEnd |-> now + Period] \in RowEvents
      BY <2>1 DEF RowEvents
    <3> QED
      BY <2>2, <2>5, <2>8, <3>1 DEF Renew
  <2>9. CASE Unsubscribe(pl)
    <3>1. subs[pl] # Null
      BY <2>9 DEF Unsubscribe, Entitled
    <3> DEFINE x == [subs[pl] EXCEPT !.renews = FALSE]
    <3>2. [type |-> "RC_CANCELLATION", periodEnd |-> subs[pl].end] \in RowEvents
      BY <2>4, <3>1 DEF RowEvents
    <3>3. x \in Sub /\ x.end = subs[pl].end
      BY <2>4, <3>1 DEF Sub
    <3>4. [subs EXCEPT ![pl].renews = FALSE] = [subs EXCEPT ![pl] = x]
      OBVIOUS
    <3> HIDE DEF x
    <3> QED
      BY <2>4, <2>5, <2>9, <3>1, <3>2, <3>3, <3>4 DEF Unsubscribe
  <2>10. CASE Resubscribe(pl)
    <3>1. subs[pl] # Null
      BY <2>10 DEF Resubscribe, Entitled
    <3> DEFINE x == [subs[pl] EXCEPT !.renews = TRUE]
    <3>2. [type |-> "RC_UNCANCELLATION"] \in RowEvents
      BY DEF RowEvents
    <3>3. x \in Sub /\ x.end = subs[pl].end
      BY <2>4, <3>1 DEF Sub
    <3>4. [subs EXCEPT ![pl].renews = TRUE] = [subs EXCEPT ![pl] = x]
      OBVIOUS
    <3> HIDE DEF x
    <3> QED
      BY <2>4, <2>5, <2>10, <3>1, <3>2, <3>3, <3>4 DEF Resubscribe
  <2>11. CASE ChargeFails(pl)
    <3>1. subs[pl] # Null
      BY <2>11 DEF ChargeFails, Entitled
    <3> DEFINE x == [subs[pl] EXCEPT !.issue = TRUE]
    <3>2. [type |-> "RC_BILLING_ISSUE"] \in RowEvents
      BY DEF RowEvents
    <3>3. x \in Sub /\ x.end = subs[pl].end
      BY <2>4, <3>1 DEF Sub
    <3>4. [subs EXCEPT ![pl].issue = TRUE] = [subs EXCEPT ![pl] = x]
      OBVIOUS
    <3> HIDE DEF x
    <3> QED
      BY <2>4, <2>5, <2>11, <3>1, <3>2, <3>3, <3>4 DEF ChargeFails
  <2>12. CASE Expire(pl)
    <3>1. subs[pl] # Null
      BY <2>12 DEF Expire
    <3> DEFINE x == IF subs[pl].issue THEN [subs[pl] EXCEPT !.over = TRUE] ELSE Null
    <3>2. [type |-> "RC_EXPIRATION"] \in RowEvents
      BY DEF RowEvents
    <3>3. x \in OrNull(Sub) /\ (x # Null => x.end = subs[pl].end)
      BY <2>4, <3>1 DEF Sub
    <3>4. (IF subs[pl].issue THEN [subs EXCEPT ![pl].over = TRUE]
                             ELSE [subs EXCEPT ![pl] = Null]) = [subs EXCEPT ![pl] = x]
      OBVIOUS
    <3> HIDE DEF x
    <3> QED
      BY <2>4, <2>5, <2>12, <3>1, <3>2, <3>3, <3>4 DEF Expire
  <2>13. CASE GiveBack(pl)
    <3>1. [type |-> "RC_REFUND"] \in RowEvents
      BY DEF RowEvents
    <3> QED
      BY <2>5, <2>13, <3>1 DEF GiveBack
  <2> QED
    BY <2>3, <2>6, <2>7, <2>8, <2>9, <2>10, <2>11, <2>12, <2>13
<1>17. CASE Abandon
  BY <1>17 DEF Abandon, store, LifeInv, EndsFit, RowFits, RequestFits
<1>18. CASE GraceCron
  <2> DEFINE e == [type |-> "GRACE_EXPIRED"]
  <2>1. e \in RowEvents /\ Accepts(row, e) /\ Transition(row, e, now) = GraceExpired(row)
    BY DEF RowEvents, Accepts, Transition
  <2>2. RowFits(row') /\ (Life!Next \/ UNCHANGED <<row, now>>)
    BY <1>18, <2>1, ResultIsLife DEF GraceCron, Result
  <2> QED
    BY <1>18, <2>2 DEF GraceCron, store, LifeInv, EndsFit, RowFits, RequestFits
<1>19. CASE Tick
  <2>1. Life!Tick /\ now' \in 0 .. MaxTime
    BY <1>19, StoreSyncConstants DEF Tick, Life!Tick, LifeInv
  <2> QED
    BY <1>19, <2>1 DEF Tick, Life!Next, store, LifeInv, EndsFit, RowFits, RequestFits
<1>20. CASE UNCHANGED vars
  BY <1>20 DEF vars, store, LifeInv, EndsFit, RowFits, RequestFits
<1> QED
  BY <1>3, <1>4, <1>5, <1>6, <1>7, <1>8, <1>9, <1>10, <1>11, <1>12, <1>13, <1>14,
     <1>15, <1>16, <1>17, <1>18, <1>19, <1>20
     DEF Next, Serve, Webhook

\* Late, repeated, lost or inferred, in any order: what RevenueCat, the app's
\* calls and the crons do to the row is what BillingLifecycle lets a row do,
\* so no event of theirs ever fails on a CHECK constraint (applyTransition,
\* inferEventFromRcSnapshot, resetExpiredGrace).
THEOREM RowFollows == Spec => RowFollowsLifecycle
<1>1. Init => LifeInv /\ Life!Init
  BY InitLife
<1>2. LifeInv /\ [Next]_vars => LifeInv'
  BY NextLife
<1>3. LifeInv /\ [Next]_vars => [Life!Next]_(Life!vars)
  BY NextLife DEF Life!vars
<1> QED
  BY <1>1, <1>2, <1>3, PTL DEF Spec, RowFollowsLifecycle, Life!Spec
=============================================================================
