--------------------------- MODULE Subscriptions ---------------------------
(***************************************************************************)
(* SubscriptionsService: one user's subscriptions.  A creation is guarded  *)
(* by an advisory lock (plan limit, duplicates); edits, status changes and *)
(* the daily recalculation load rows and save whole entities later.        *)
(***************************************************************************)
EXTENDS Naturals, FiniteSets

CONSTANTS Requests,   \* requests and crons under way
          Keys,       \* (normalised name, currency, billing period)
          Limits,     \* subscription limits of the plans the user may be on
          MaxRows,    \* bound on the rows ever created
          MaxStarted, \* bound on the requests ever started
          Nobody      \* no request

VARIABLES row,        \* id -> its row in subscriptions, or Absent
          made,       \* rows created so far: ids are given in order
          limit,      \* the limit of the user's effective plan now
          lock,       \* who holds pg_advisory_xact_lock, or Nobody
          req,        \* request -> what it is doing and has in hand
          started,    \* requests started so far
          saved       \* history: rows that a save has written since they were made
vars == <<row, made, limit, lock, req, started, saved>>

Ids == 1 .. MaxRows
Statuses == {"active", "trial", "paused", "cancelled"}
Absent == [key |-> "absent"]
\* History: cap is the limit the creation was checked against, and dedup tells
\* whether it was compared with the rows there were.
Row == [key : Keys, status : Statuses, cap : Limits, dedup : {"compared", "skipped"}]

Idle == [step |-> "idle"]

TypeOK ==
    /\ row \in [Ids -> Row \cup {Absent}]
    /\ made \in 0 .. MaxRows /\ started \in 0 .. MaxStarted /\ limit \in Limits
    /\ lock \in Requests \cup {Nobody} /\ saved \subseteq Ids
    /\ \A r \in Requests :
          \/ req[r] = Idle
          \/ req[r].step \in {"lock", "insert"} /\ req[r].new \in Row
          \/ /\ req[r].step = "save" /\ DOMAIN req[r].rows \subseteq Ids
             /\ \A i \in DOMAIN req[r].rows : req[r].rows[i] \in Row

Init ==
    /\ row = [i \in Ids |-> Absent] /\ made = 0
    /\ limit \in Limits /\ lock = Nobody /\ saved = {} /\ started = 0
    /\ req = [r \in Requests |-> Idle]

Present == {i \in Ids : row[i] # Absent}
Live == {i \in Present : row[i].status \in {"active", "trial"}}

Become(r, now) == req' = [req EXCEPT ![r] = now]
Starts(r) == req[r] = Idle /\ started < MaxStarted /\ started' = started + 1

-----------------------------------------------------------------------------
(* create                                                                  *)

\* The plan is resolved before the lock is asked for; the DTO takes any status.
\* A request without a billing period, which the table then takes for MONTHLY,
\* or with a name of which nothing is left, is not compared with other rows.
\* Email import and Gmail import come here too.
CreateAsked(r) ==
    /\ Starts(r)
    /\ \E new \in Row :
          /\ new.cap = limit
          /\ Become(r, [step |-> "lock", new |-> new])
    /\ UNCHANGED <<row, made, limit, lock, saved>>

Duplicate(new) == new.dedup = "compared" /\ \E i \in Live : row[i].key = new.key
WithinLimit(new) == Cardinality(Live) < new.cap

\* Mutation: the lock is keyed so that no two requests ever meet.
LookUnlocked(r) ==
    /\ req[r].step = "lock" /\ made < MaxRows
    /\ IF Duplicate(req[r].new) \/ ~WithinLimit(req[r].new)
       THEN Become(r, Idle) /\ UNCHANGED lock
       ELSE Become(r, [req[r] EXCEPT !.step = "insert"]) /\ lock' = r
    /\ UNCHANGED <<row, made, limit, started, saved>>

\* Under the lock: the row that is there already is the answer, or the limit
\* refuses, or the row may be inserted.
LockAndLook(r) ==
    /\ req[r].step = "lock" /\ lock = Nobody /\ made < MaxRows
    /\ IF Duplicate(req[r].new) \/ ~WithinLimit(req[r].new)
       THEN Become(r, Idle) /\ UNCHANGED lock
       ELSE Become(r, [req[r] EXCEPT !.step = "insert"]) /\ lock' = r
    /\ UNCHANGED <<row, made, limit, started, saved>>

\* The commit lets the lock go.
InsertCommit(r) ==
    /\ req[r].step = "insert" /\ made < MaxRows
    /\ made' = made + 1 /\ row' = [row EXCEPT ![made'] = req[r].new]
    /\ lock' = IF lock = r THEN Nobody ELSE lock
    /\ Become(r, Idle) /\ UNCHANGED <<limit, started, saved>>

Rollback(r) ==
    /\ req[r].step = "insert"
    /\ lock' = IF lock = r THEN Nobody ELSE lock
    /\ Become(r, Idle) /\ UNCHANGED <<row, made, limit, started, saved>>

-----------------------------------------------------------------------------
(* findOne, update, updateStatus, remove                                   *)

\* Live rows beyond the oldest ones of the plan cannot be opened.
Opens(i) ==
    /\ i \in Present
    /\ i \in Live => Cardinality({j \in Live : j < i}) < limit

\* asks is history: the request is for another status.
Hold(r, entities, asks) ==
    Become(r, [step |-> "save", rows |-> entities, asks |-> asks])
Edited(i, entity) == [j \in {i} |-> entity]

\* A name, currency or period; the status, which the DTO takes like any other
\* field; or anything else (row[i] as it was loaded).
Update(r) ==
    /\ Starts(r)
    /\ \E i \in {j \in Ids : Opens(j)} :
          \/ \E k \in Keys : Hold(r, Edited(i, [row[i] EXCEPT !.key = k]), FALSE)
          \/ Hold(r, Edited(i, row[i]), FALSE)
          \/ \E s \in Statuses : Hold(r, Edited(i, [row[i] EXCEPT !.status = s]), TRUE)
    /\ UNCHANGED <<row, made, limit, lock, saved>>

VALID_STATUS_TRANSITIONS ==
    [active |-> {"paused", "cancelled"}, trial |-> {"active", "cancelled"},
     paused |-> {"active", "cancelled"}, cancelled |-> {}]

\* CANCELLED to ACTIVE is the restore; neither it nor PAUSED to ACTIVE takes
\* the lock, counts rows or looks for duplicates.
UpdateStatus(r) ==
    /\ Starts(r)
    /\ \E i \in {j \in Ids : Opens(j)}, s \in Statuses :
          /\ \/ row[i].status = "cancelled" /\ s = "active"
             \/ s \in VALID_STATUS_TRANSITIONS[row[i].status]
          /\ Hold(r, Edited(i, [row[i] EXCEPT !.status = s]), TRUE)
    /\ UNCHANGED <<row, made, limit, lock, saved>>

\* repo.save of what was loaded: every column that differs from the table is
\* written, and a row that is gone is inserted again under its id.
Save(r) ==
    /\ req[r].step = "save"
    /\ LET entities == req[r].rows
       IN  /\ row' = [i \in Ids |-> IF i \in DOMAIN entities THEN entities[i] ELSE row[i]]
           /\ saved' = saved \cup DOMAIN entities
    /\ Become(r, Idle) /\ UNCHANGED <<made, limit, lock, started>>

Remove ==
    /\ \E i \in Present : row' = [row EXCEPT ![i] = Absent]
    /\ UNCHANGED <<made, limit, lock, req, started, saved>>

-----------------------------------------------------------------------------
(* recalculateNextPaymentDates: at start and every night, on every pod     *)

\* Whichever live rows have a next payment date that is reached or missing.
RecalculateNextPaymentDates(r) ==
    /\ Starts(r)
    /\ \E subs \in SUBSET Live \ {{}} : Hold(r, [i \in subs |-> row[i]], FALSE)
    /\ UNCHANGED <<row, made, limit, lock, saved>>

-----------------------------------------------------------------------------
\* The user's effective plan changes.
PlanChanges ==
    /\ limit' \in Limits \ {limit}
    /\ UNCHANGED <<row, made, lock, req, started, saved>>

Next ==
    \/ Remove \/ PlanChanges
    \/ \E r \in Requests :
          \/ CreateAsked(r) \/ LockAndLook(r) \/ InsertCommit(r) \/ Rollback(r)
          \/ Update(r) \/ UpdateStatus(r) \/ RecalculateNextPaymentDates(r) \/ Save(r)

Spec == Init /\ [][Next]_vars

-----------------------------------------------------------------------------
\* However many creations run at once, and whatever is deleted, downgraded or
\* recalculated meanwhile: of two live rows that creations made, and no save has
\* touched since, the later has a key of its own, unless it named no billing
\* period or nothing its name could be compared by; and none of them was made
\* beyond the limit it was checked against (create, "prevents race condition
\* where concurrent requests bypass subscriptionLimit").
CreationsFit ==
    LET own == Live \ saved
    IN  \A i \in own :
          /\ Cardinality({j \in own : j <= i}) <= row[i].cap
          /\ row[i].dedup = "compared" =>
                \A j \in own : j < i => row[i].key # row[j].key

\* A cancelled subscription stays so until somebody asks for another status,
\* "CANCELLED is terminal - restore is handled explicitly"
\* (VALID_STATUS_TRANSITIONS).  It does not: the nightly recalculation, and an
\* edit that was loaded before the cancellation, save the old status back.
CancelledUntilRestored ==
    [][\A i \in Ids :
          (row[i] # Absent /\ row[i].status = "cancelled" /\ row'[i] # Absent)
             => \/ row'[i].status = "cancelled"
                \/ \E r \in Requests : req[r].step = "save" /\ req[r].asks /\ Save(r)]_vars
=============================================================================
