------------------------------ MODULE Reports ------------------------------
(* A user's PDF reports (reports.service.ts, reports.processor.ts): the    *)
(* calls that ask for one, the rows, Bull's job for each and the workers   *)
(* that build the PDF and keep it in Redis for an hour.  A worker too busy *)
(* to renew its lock has its job given to another while it goes on.  What  *)
(* a PDF shows is left out (but see Spend).                                *)
EXTENDS Naturals, FiniteSets

CONSTANTS Reports,      \* the rows that may be created
          Callers, Workers,
          MaxStalls,    \* Bull's maxStalledCount, 1
          None

VARIABLES plan,      \* the user's: "free" or "pro"
          call,      \* the calls of generate and generateTeam under way
          rows,      \* reports.status
          pdf,       \* report:pdf:<id> in Redis
          job,       \* Bull's job for each row
          work       \* buildAndStorePdf on each worker
vars == <<plan, call, rows, pdf, job, work>>

NoJob == [state |-> "none", by |-> None, stalls |-> 0]
Resting == [at |-> "idle", report |-> None]
NoCall == [at |-> "idle", report |-> None]

TypeOK ==
    /\ plan \in {"free", "pro"}
    /\ call \in [Callers -> [at : {"idle", "save", "add"}, report : Reports \cup {None}]]
    /\ rows \in [Reports -> {"none", "PENDING", "GENERATING", "READY", "FAILED"}]
    /\ pdf \in [Reports -> {"none", "kept", "expired"}]
    /\ job \in [Reports -> [state : {"none", "waiting", "active", "completed", "failed"},
                            by : Workers \cup {None}, stalls : 0 .. MaxStalls]]
    /\ work \in [Workers -> [at : {"idle", "start", "build", "store", "ready", "fail"},
                             report : Reports \cup {None}]]

Init ==
    /\ plan \in {"free", "pro"}
    /\ call = [c \in Callers |-> NoCall]
    /\ rows = [r \in Reports |-> "none"] /\ pdf = [r \in Reports |-> "none"]
    /\ job = [r \in Reports |-> NoJob]
    /\ work = [w \in Workers |-> Resting]

Created == {r \in Reports : rows[r] # "none"}

----------------------------------------------------------------------------
(* generate and generateTeam.                                              *)

\* A free user has one report a month, and none of a team.
Generate(c, team) ==
    /\ call[c].at = "idle"
    /\ plan = "free" => ~team /\ Created = {}
    /\ call' = [call EXCEPT ![c].at = "save"]
    /\ UNCHANGED <<plan, rows, pdf, job, work>>

Save(c, r) ==
    /\ call[c].at = "save" /\ rows[r] = "none"
    /\ rows' = [rows EXCEPT ![r] = "PENDING"]
    /\ call' = [call EXCEPT ![c] = [at |-> "add", report |-> r]]
    /\ UNCHANGED <<plan, pdf, job, work>>

AddJob(c) ==
    /\ call[c].at = "add"
    /\ job' = [job EXCEPT ![call[c].report].state = "waiting"]
    /\ call' = [call EXCEPT ![c] = NoCall]
    /\ UNCHANGED <<plan, rows, pdf, work>>

\* The save, or Redis, or the pod fails: a row that is saved stays PENDING.
GiveUp(c) ==
    /\ call[c].at # "idle"
    /\ call' = [call EXCEPT ![c] = NoCall]
    /\ UNCHANGED <<plan, rows, pdf, job, work>>

----------------------------------------------------------------------------
(* Bull.                                                                   *)

Take(w, r) ==
    /\ work[w] = Resting /\ job[r].state = "waiting"
    /\ job' = [job EXCEPT ![r].state = "active", ![r].by = w]
    /\ work' = [work EXCEPT ![w] = [at |-> "start", report |-> r]]
    /\ UNCHANGED <<plan, call, rows, pdf>>

\* The lock of a job runs out, its worker dead or only slow.
Stalled(r) ==
    /\ job[r].state = "active"
    /\ job' = [job EXCEPT ![r] =
                IF @.stalls < MaxStalls
                THEN [state |-> "waiting", by |-> None, stalls |-> @.stalls + 1]
                ELSE [@ EXCEPT !.state = "failed", !.by = None]]
    /\ UNCHANGED <<plan, call, rows, pdf, work>>

\* A worker's outcome counts if the job is still its own.
EndJob(w, outcome) ==
    LET r == work[w].report
    IN  /\ job' = IF job[r].state = "active" /\ job[r].by = w
                  THEN [job EXCEPT ![r].state = outcome, ![r].by = None] ELSE job
        /\ work' = [work EXCEPT ![w] = Resting]

----------------------------------------------------------------------------
(* buildAndStorePdf.                                                       *)

At(w, step) == work[w].at = step
Goto(w, step) == work' = [work EXCEPT ![w].at = step]
Mark(w, status) == rows' = [rows EXCEPT ![work[w].report] = status]

StartBuild(w) ==
    /\ At(w, "start") /\ Mark(w, "GENERATING") /\ Goto(w, "build")
    /\ UNCHANGED <<plan, call, pdf, job>>

\* The first UPDATE is outside the try.
StartFails(w) ==
    /\ At(w, "start") /\ EndJob(w, "failed")
    /\ UNCHANGED <<plan, call, rows, pdf>>

\* Mutation: the row is set to READY first.
BuildPdfReadyFirst(w) ==
    /\ At(w, "build") /\ Mark(w, "READY") /\ Goto(w, "store")
    /\ UNCHANGED <<plan, call, pdf, job>>

BuildPdf(w) ==
    /\ At(w, "build") /\ Goto(w, "store")
    /\ UNCHANGED <<plan, call, rows, pdf, job>>

StorePdf(w) ==
    /\ At(w, "store")
    /\ pdf' = [pdf EXCEPT ![work[w].report] = "kept"]
    /\ Goto(w, "ready")
    /\ UNCHANGED <<plan, call, rows, job>>

MarkReady(w) ==
    /\ At(w, "ready") /\ Mark(w, "READY") /\ EndJob(w, "completed")
    /\ UNCHANGED <<plan, call, pdf>>

\* Building, storing or the UPDATE to READY fails.
Throws(w) ==
    /\ work[w].at \in {"build", "store", "ready"} /\ Goto(w, "fail")
    /\ UNCHANGED <<plan, call, rows, pdf, job>>

MarkFailed(w) ==
    /\ At(w, "fail") /\ Mark(w, "FAILED") /\ EndJob(w, "failed")
    /\ UNCHANGED <<plan, call, pdf>>

\* The UPDATE of the catch block fails, too.
MarkFailedFails(w) ==
    /\ At(w, "fail") /\ EndJob(w, "failed")
    /\ UNCHANGED <<plan, call, rows, pdf>>

WorkerDies(w) ==
    /\ ~At(w, "idle")
    /\ work' = [work EXCEPT ![w] = Resting]
    /\ UNCHANGED <<plan, call, rows, pdf, job>>

PdfExpires(r) ==
    /\ pdf[r] = "kept" /\ pdf' = [pdf EXCEPT ![r] = "expired"]
    /\ UNCHANGED <<plan, call, rows, job, work>>

PlanChanges ==
    /\ plan' \in {"free", "pro"} \ {plan}
    /\ UNCHANGED <<call, rows, pdf, job, work>>

Next ==
    \/ \E c \in Callers :
          \/ \E team \in BOOLEAN : Generate(c, team)
          \/ \E r \in Reports : Save(c, r)
          \/ AddJob(c) \/ GiveUp(c)
    \/ \E w \in Workers :
          \/ \E r \in Reports : Take(w, r)
          \/ StartBuild(w) \/ StartFails(w) \/ BuildPdf(w) \/ StorePdf(w) \/ MarkReady(w)
          \/ Throws(w) \/ MarkFailed(w) \/ MarkFailedFails(w) \/ WorkerDies(w)
    \/ \E r \in Reports : Stalled(r) \/ PdfExpires(r)
    \/ PlanChanges

Spec == Init /\ [][Next]_vars

----------------------------------------------------------------------------
\* A report that says READY has a PDF, or had one until the hour was over
\* (reports.service.ts:297-313), also when its job stalls and two workers write
\* the row by turns, or one of them fails.
ReadyHasPdf == \A r \in Reports : rows[r] = "READY" => pdf[r] # "none"
==============================================================================
