---------------------------- MODULE AnalysisJobs ----------------------------
(***************************************************************************)
(* The AI analyses of one user: calls of AnalysisService.run by the app    *)
(* and, automatic, by the weekly cron and after a subscription is created, *)
(* the rows they leave in analysis_jobs, the Bull queue that runs each job *)
(* again when it fails or stalls, the processor, the weekly usage row it   *)
(* counts in, and the weekly cleanup.  Each step is one await of the code: *)
(* the limits are checked when a job is asked for and counted when it is   *)
(* over, and nothing is locked in between.                                 *)
(*                                                                         *)
(* A row saved through TypeORM is saved whole: what the entity holds       *)
(* replaces what other processes have written since it was loaded.  Time   *)
(* is in ticks of less than a week and more than the hour after which a    *)
(* job counts as stuck.                                                    *)
(***************************************************************************)
EXTENDS Integers, Sequences, FiniteSets

CONSTANTS Callers,
          Inputs,        \* input hashes
          Asked,         \* the triggers and inputs of the calls
          Stages,        \* the statuses of a job under way; four in the code
          MaxJobs,       \* bound on the number of jobs
          MaxPerWeek,    \* maxManualPerWeek and maxAutoPerWeek, 1 in the code
          Cooldown,      \* manualCooldownHours
          ResultTtl,     \* resultTtlDays
          WeekLength,    \* ticks per week: the first is Monday, the last Sunday
          MaxTime,       \* bound on the clock
          MaxAttempts,   \* attempts of a Bull job, 2 in the code
          MaxStalls,     \* Bull's maxStalledCount, 1
          Faults,        \* which faults happen: "db", "openai", "crash"
          MaxFaults,     \* bound on the number of "db" and "crash"
          Faulty,        \* bound: the jobs that they befall
          Null

ASSUME AnalysisConstants ==
    /\ MaxJobs \in Nat /\ MaxPerWeek \in Nat /\ Cooldown \in Nat
    /\ ResultTtl \in Nat /\ WeekLength \in Nat \ {0} /\ MaxTime \in Nat
    /\ MaxAttempts \in Nat \ {0} /\ MaxStalls \in Nat /\ MaxFaults \in Nat
    /\ Faults \subseteq {"db", "openai", "crash"} /\ Faulty \subseteq Nat
    /\ Stages \in Seq({"COLLECTING", "NORMALIZING", "LOOKING_UP", "ANALYZING"})
    /\ Stages # <<>>
    /\ Asked \subseteq [trigger : {"MANUAL", "AUTO"}, input : Inputs]
    /\ Null \notin Nat

VARIABLES
    now,
    jobs,      \* analysis_jobs, in the order of their creation
    results,   \* analysis_results
    stored,    \* each result ever stored for a job: the week it was counted
               \* in, Null while it is not
    usage,     \* analysis_usage, one row for each week
    caller,    \* the calls of run under way
    queue,     \* Bull's entry for each job
    run,       \* handleAnalysis at each job, which no two pods work on at once
    cleaning,  \* the stuck jobs the cleanup has read and not yet saved
    unconfirmed,   \* history: the counts of each job saved and reported as failed
    faults
vars == <<now, jobs, results, stored, usage, caller, queue, run,
          cleaning, unconfirmed, faults>>

InProgress == {"QUEUED"} \cup {Stages[i] : i \in DOMAIN Stages}
Terminal == {"COMPLETED", "FAILED"}
Triggers == {"MANUAL", "AUTO"}

JobIds == 1 .. MaxJobs
Weeks == 0 .. MaxTime \div WeekLength
Week(t) == t \div WeekLength
Sunday(t) == t % WeekLength = WeekLength - 1

JobRow == [trigger : Triggers, input : Inputs, status : InProgress \cup Terminal,
           createdAt : 0 .. MaxTime,
           paid : BOOLEAN,        \* tokensUsed > 0
           result : BOOLEAN]      \* resultId
UsageRow == [manual : Nat, auto : Nat, lastManualAt : 0 .. MaxTime \cup {Null}]

FreshUsage == [manual |-> 0, auto |-> 0, lastManualAt |-> Null]

\* A call of run about to look for a result, for a job, to save, to queue.
Caller == [at : {"idle", "result", "job", "save", "enqueue"},
           trigger : Triggers, input : Inputs \cup {Null}, job : 0 .. MaxJobs]
NotCalling == [at |-> "idle", trigger |-> "MANUAL", input |-> Null, job |-> 0]

QueueEntry == [state : {"none", "waiting", "active", "over"},
               made : 0 .. MaxAttempts, stalls : 0 .. MaxStalls]

\* A call of handleAnalysis: the entity it works on and the usage it has read.
TrySteps == {"stage", "ask", "tokens", "store", "complete", "count", "counted"}
CatchSteps == {"catch", "cost", "costed"}
Run == [at : {"idle", "return", "throw"} \cup TrySteps \cup CatchSteps,
           row : JobRow \cup {Null}, stage : 0 .. Len(Stages), week : Weeks, seen : UsageRow]
NotRunning == [at |-> "idle", row |-> Null, stage |-> 0, week |-> 0,
               seen |-> FreshUsage]

TypeOK ==
    /\ now \in 0 .. MaxTime
    /\ jobs \in Seq(JobRow) /\ Len(jobs) <= MaxJobs
    /\ results \subseteq [job : JobIds, createdAt : 0 .. MaxTime]
    /\ stored \in [JobIds -> Seq(Weeks \cup {Null})]
    /\ usage \in [Weeks -> UsageRow]
    /\ caller \in [Callers -> Caller]
    /\ queue \in [JobIds -> QueueEntry]
    /\ run \in [JobIds -> Run]
    /\ cleaning \subseteq [job : JobIds, row : JobRow]
    /\ unconfirmed \in [JobIds -> Nat]
    /\ faults \in 0 .. MaxFaults

Init ==
    /\ now = 0
    /\ jobs = <<>>
    /\ results = {}
    /\ stored = [j \in JobIds |-> <<>>]
    /\ usage = [k \in Weeks |-> FreshUsage]
    /\ caller = [c \in Callers |-> NotCalling]
    /\ queue = [j \in JobIds |-> [state |-> "none", made |-> 0, stalls |-> 0]]
    /\ run = [j \in JobIds |-> NotRunning]
    /\ cleaning = {}
    /\ unconfirmed = [j \in JobIds |-> 0]
    /\ faults = 0

\* One of the faults happens, of those the bound allows.
Fault(f, j) ==
    f \in Faults /\ j \in Faulty /\ faults < MaxFaults /\ faults' = faults + 1

-----------------------------------------------------------------------------
(* AnalysisService.run, for a user with a plan; without one it ends at once. *)

work == <<results, stored, usage, queue, run, cleaning, unconfirmed>>

Cool(u) == u.lastManualAt # Null => now - u.lastManualAt >= Cooldown

\* The week's usage is read, and the limits are checked against it: one limit
\* for CRON, on Mondays, and SUBSCRIPTION_CHANGE, on any day.  Bound:
\* nothing is asked for once MaxJobs have been created.
StartRun(c) ==
    /\ caller[c].at = "idle"
    /\ Len(jobs) < MaxJobs
    /\ \E a \in Asked :
        /\ a.trigger = "MANUAL" => /\ usage[Week(now)].manual < MaxPerWeek
                                   /\ Cool(usage[Week(now)])
        /\ a.trigger = "AUTO" => usage[Week(now)].auto < MaxPerWeek
        /\ caller' = [caller EXCEPT ![c] = [NotCalling EXCEPT !.at = "result",
                                            !.trigger = a.trigger, !.input = a.input]]
    /\ UNCHANGED <<now, jobs, work, faults>>

Fresh(r) == r.createdAt >= now - ResultTtl

\* A fresh result for the same input is the answer.
LookForResult(c) ==
    LET hit == \E r \in results : jobs[r.job].input = caller[c].input /\ Fresh(r)
    IN  /\ caller[c].at = "result"
        /\ caller' = [caller EXCEPT ![c] = IF hit THEN NotCalling
                                           ELSE [@ EXCEPT !.at = "job"]]
        /\ UNCHANGED <<now, jobs, work, faults>>

\* So is a job for it that is not over.
LookForJob(c) ==
    LET hit == \E j \in DOMAIN jobs : /\ jobs[j].input = caller[c].input
                                      /\ jobs[j].status \in InProgress
    IN  /\ caller[c].at = "job"
        /\ caller' = [caller EXCEPT ![c] = IF hit THEN NotCalling
                                           ELSE [@ EXCEPT !.at = "save"]]
        /\ UNCHANGED <<now, jobs, work, faults>>

\* Bound: no job is created on the last tick, after which no cleanup comes.
SaveJob(c) ==
    /\ caller[c].at = "save"
    /\ Len(jobs) < MaxJobs /\ now < MaxTime
    /\ jobs' = Append(jobs, [trigger |-> caller[c].trigger,
                             input |-> caller[c].input, status |-> "QUEUED",
                             createdAt |-> now, paid |-> FALSE, result |-> FALSE])
    /\ caller' = [caller EXCEPT ![c].at = "enqueue", ![c].job = Len(jobs')]
    /\ UNCHANGED <<now, work, faults>>

Enqueue(c) ==
    /\ caller[c].at = "enqueue"
    /\ queue' = [queue EXCEPT ![caller[c].job].state = "waiting"]
    /\ caller' = [caller EXCEPT ![c] = NotCalling]
    /\ UNCHANGED <<now, jobs, results, stored, usage, run, cleaning, unconfirmed, faults>>

\* The pod dies, or Redis fails: the job stays QUEUED and is in no queue.
EnqueueFails(c) ==
    /\ caller[c].at = "enqueue"
    /\ Fault("crash", caller[c].job)
    /\ caller' = [caller EXCEPT ![c] = NotCalling]
    /\ UNCHANGED <<now, jobs, work>>

-----------------------------------------------------------------------------
(* AnalysisProcessor.handleAnalysis.                                       *)

asking == <<now, caller, cleaning, unconfirmed>>

Save(j, row) == jobs' = [jobs EXCEPT ![j] = row]
At(j, step) == run' = [run EXCEPT ![j].at = step]

\* Bull hands a waiting job to a pod, which loads its row, whatever its
\* status.
Take(j) ==
    /\ queue[j].state = "waiting"
    /\ queue' = [queue EXCEPT ![j].state = "active"]
    /\ run' = [run EXCEPT ![j] = [NotRunning EXCEPT !.at = "stage", !.row = jobs[j]]]
    /\ UNCHANGED <<asking, jobs, results, stored, usage, faults>>

\* updateStage, before collecting, normalizing, looking up, and analyzing.
UpdateStage(j) ==
    LET n == run[j].stage + 1
        row == [run[j].row EXCEPT !.status = Stages[n]]
    IN  /\ run[j].at = "stage"
        /\ Save(j, row)
        /\ run' = [run EXCEPT ![j].row = row, ![j].stage = n,
                        ![j].at = IF n = Len(Stages) THEN "ask" ELSE @]
        /\ UNCHANGED <<asking, results, stored, usage, queue, faults>>

AskOpenAI(j) ==
    /\ run[j].at = "ask"
    /\ run' = [run EXCEPT ![j].row.paid = TRUE, ![j].at = "tokens"]
    /\ UNCHANGED <<asking, jobs, results, stored, usage, queue, faults>>

\* The answer is charged for, but empty or not JSON: the code throws before
\* it reads the token count.
AnswerUnusable(j) ==
    /\ run[j].at = "ask"
    /\ "openai" \in Faults /\ j \in Faulty
    /\ At(j, "catch")
    /\ UNCHANGED <<asking, jobs, results, stored, usage, queue, faults>>

\* tokensUsed, and the stage once more.
SaveTokens(j) ==
    /\ run[j].at = "tokens"
    /\ Save(j, run[j].row)
    /\ At(j, "store")
    /\ UNCHANGED <<asking, results, stored, usage, queue, faults>>

Insert(j) ==
    /\ results' = results \cup {[job |-> j, createdAt |-> now]}
    /\ stored' = [stored EXCEPT ![j] = Append(@, Null)]

\* Mutation: the job is saved as completed before its result is.
StoreResultLater(j) ==
    /\ run[j].at = "store"
    /\ run' = [run EXCEPT ![j].at = "complete", ![j].row.result = TRUE,
                                ![j].row.status = "COMPLETED"]
    /\ UNCHANGED <<asking, jobs, results, stored, usage, queue, faults>>

StoreResult(j) ==
    /\ run[j].at = "store"
    /\ Insert(j)
    /\ run' = [run EXCEPT ![j].at = "complete", ![j].row.result = TRUE,
                                ![j].row.status = "COMPLETED"]
    /\ UNCHANGED <<asking, jobs, usage, queue, faults>>

Complete(j) ==
    /\ run[j].at = "complete"
    /\ Save(j, run[j].row)
    /\ At(j, "count")
    /\ UNCHANGED <<asking, results, stored, usage, queue, faults>>

\* getOrCreateUsage, of the week it is by now.
ReadUsage(j, from, to) ==
    /\ run[j].at = from
    /\ run' = [run EXCEPT ![j].at = to, ![j].week = Week(now),
                                ![j].seen = usage[Week(now)]]
    /\ UNCHANGED <<asking, jobs, results, stored, usage, queue, faults>>

\* The usage row read is not looked at again.
Done(j, step) == run' = [run EXCEPT ![j].at = step, ![j].week = 0,
                                          ![j].seen = FreshUsage]

StartCount(j) == ReadUsage(j, "count", "counted")
StartCost(j) == ReadUsage(j, "cost", "costed")

\* incrementUsage: the row that was read, plus one.
Counted(j) ==
    IF run[j].row.trigger = "MANUAL"
    THEN [run[j].seen EXCEPT !.manual = @ + 1, !.lastManualAt = now]
    ELSE [run[j].seen EXCEPT !.auto = @ + 1]

SaveCount(j) ==
    /\ usage' = [usage EXCEPT ![run[j].week] = Counted(j)]
    /\ stored' = [stored EXCEPT ![j][Len(stored[j])] = run[j].week]

IncrementUsage(j) ==
    /\ run[j].at = "counted"
    /\ SaveCount(j)
    /\ Done(j, "return")
    /\ UNCHANGED <<asking, jobs, results, queue, faults>>

\* Any await of the try block throws; an INSERT or UPDATE may have taken
\* effect all the same.
Throws(j) ==
    /\ run[j].at \in TrySteps
    /\ Fault("db", j)
    /\ At(j, "catch")
    /\ UNCHANGED <<asking, jobs, results, stored, usage, queue>>

StoredUnconfirmed(j) ==
    /\ run[j].at = "store"
    /\ Fault("db", j)
    /\ Insert(j)
    /\ At(j, "catch")
    /\ UNCHANGED <<asking, jobs, usage, queue>>

CountedUnconfirmed(j) ==
    /\ run[j].at = "counted"
    /\ Fault("db", j)
    /\ SaveCount(j)
    /\ unconfirmed' = [unconfirmed EXCEPT ![j] = @ + 1]
    /\ Done(j, "catch")
    /\ UNCHANGED <<now, caller, cleaning, jobs, results, queue>>

\* The catch block, whatever the job had come to.
SaveFailed(j) ==
    LET row == [run[j].row EXCEPT !.status = "FAILED"]
    IN  /\ run[j].at = "catch"
        /\ Save(j, row)
        /\ run' = [run EXCEPT ![j].row = row,
                        ![j].at = IF row.paid THEN "cost" ELSE "throw"]
        /\ UNCHANGED <<asking, results, stored, usage, queue, faults>>

\* Mutation: a failed job counts as an analysis.
RecordCostAndCount(j) ==
    /\ run[j].at = "costed"
    /\ usage' = [usage EXCEPT ![run[j].week] = Counted(j)]
    /\ At(j, "throw")
    /\ UNCHANGED <<asking, jobs, results, stored, queue, faults>>

\* recordFailedJobCost saves the row it has read with its tokens, and counts
\* no analysis.
RecordCost(j) ==
    /\ run[j].at = "costed"
    /\ usage' = [usage EXCEPT ![run[j].week] = run[j].seen]
    /\ Done(j, "throw")
    /\ UNCHANGED <<asking, jobs, results, stored, queue, faults>>

CatchThrows(j) ==
    /\ run[j].at \in CatchSteps
    /\ Fault("db", j)
    /\ At(j, "throw")
    /\ UNCHANGED <<asking, jobs, results, stored, usage, queue>>

-----------------------------------------------------------------------------
(* Bull, as the code configures it.                                        *)

Idle(j) == run' = [run EXCEPT ![j] = NotRunning]
tables == <<asking, jobs, results, stored, usage>>

JobReturns(j) ==
    /\ run[j].at = "return"
    /\ queue' = [queue EXCEPT ![j].state = "over"]
    /\ Idle(j)
    /\ UNCHANGED <<tables, faults>>

\* A job that throws is tried again, after a while, as often as it may be.
JobThrows(j) ==
    /\ run[j].at = "throw"
    /\ queue' = [queue EXCEPT ![j].made = @ + 1, ![j].state =
                    IF queue[j].made + 1 < MaxAttempts THEN "waiting" ELSE "over"]
    /\ Idle(j)
    /\ UNCHANGED <<tables, faults>>

\* The run's pod dies.
WorkerDies(j) ==
    /\ run[j].at # "idle"
    /\ Fault("crash", j)
    /\ Idle(j)
    /\ UNCHANGED <<tables, queue>>

\* An active job that no worker keeps alive is queued again, once.
Stalled(j) ==
    LET entry == queue[j]
    IN  /\ entry.state = "active"
        /\ run[j].at = "idle"
        /\ queue' = [queue EXCEPT ![j] =
                        IF entry.stalls < MaxStalls
                        THEN [entry EXCEPT !.state = "waiting", !.stalls = @ + 1]
                        ELSE [entry EXCEPT !.state = "over"]]
        /\ UNCHANGED <<tables, run, faults>>

-----------------------------------------------------------------------------
(* The weekly cleanup.                                                     *)

\* Mutation: only jobs that have been in the queue count as stuck.
StuckInQueue == {j \in DOMAIN jobs : /\ jobs[j].status \in InProgress \ {"QUEUED"}
                                     /\ jobs[j].createdAt < now}

Stuck == {j \in DOMAIN jobs : jobs[j].status \in InProgress /\ jobs[j].createdAt < now}
Expired == {r \in results : r.createdAt + ResultTtl < now}

\* Expired results go; the stuck jobs are read.
StartCleanup ==
    /\ Sunday(now)
    /\ cleaning = {}
    /\ Stuck # {} \/ Expired # {}
    /\ results' = results \ Expired
    /\ cleaning' = {[job |-> j, row |-> [jobs[j] EXCEPT !.status = "FAILED"]] :
                        j \in Stuck}
    /\ UNCHANGED <<now, jobs, stored, usage, caller, queue, run, unconfirmed, faults>>

\* Each is saved as failed, as it was read.
FailStuckJob ==
    \E s \in cleaning :
        /\ Save(s.job, s.row)
        /\ cleaning' = cleaning \ {s}
        /\ UNCHANGED <<now, results, stored, usage, caller, queue, run,
                       unconfirmed, faults>>

Tick ==
    /\ now < MaxTime
    /\ now' = now + 1
    /\ UNCHANGED <<jobs, work, caller, faults>>

Calling(c) ==
    \/ LookForResult(c) \/ LookForJob(c) \/ SaveJob(c) \/ Enqueue(c)
Working(j) ==
    \/ Take(j) \/ UpdateStage(j) \/ AskOpenAI(j) \/ SaveTokens(j)
    \/ StoreResult(j) \/ Complete(j) \/ StartCount(j) \/ IncrementUsage(j)
    \/ SaveFailed(j) \/ StartCost(j) \/ RecordCost(j)
    \/ JobReturns(j) \/ JobThrows(j)
Failing(j) ==
    \/ AnswerUnusable(j) \/ Throws(j) \/ StoredUnconfirmed(j)
    \/ CountedUnconfirmed(j) \/ CatchThrows(j) \/ WorkerDies(j)
Cleanup == StartCleanup \/ FailStuckJob

Next ==
    \/ \E c \in Callers : StartRun(c) \/ Calling(c) \/ EnqueueFails(c)
    \/ \E j \in JobIds : Working(j) \/ Failing(j) \/ Stalled(j)
    \/ Cleanup \/ Tick

Spec == Init /\ [][Next]_vars

\* A call and a worker that can take a step take one, Bull looks for stalled
\* jobs, the cleanup comes every week, and time passes.
FairSpec ==
    /\ Spec
    /\ \A c \in Callers : WF_vars(Calling(c))
    /\ \A j \in JobIds : WF_vars(Working(j))
    /\ \A j \in JobIds : WF_vars(Stalled(j))
    /\ WF_vars(Cleanup) /\ WF_vars(Tick)

-----------------------------------------------------------------------------
\* The results of the jobs with a trigger that were counted in a week.
CountedIn(week, trigger) ==
    UNION {{j} \X {n \in DOMAIN stored[j] : stored[j][n] = week} :
               j \in {i \in DOMAIN jobs : jobs[i].trigger = trigger}}

\* The results of one job that were counted, in any week.
Charges(j) == {n \in DOMAIN stored[j] : stored[j][n] # Null}

\* What a week's allowance says is used is covered by as many results, stored
\* before they were counted, none of them counted twice, nor by two jobs that
\* count at once.  And "failed runs shouldn't punish the user's allowance": a job
\* takes one analysis, however often it fails, is tried again, or dies; it takes
\* another only for each time Bull took its run for stalled, as when the pod dies
\* between the count and Bull's notice of it, and for each count that was saved
\* and reported as failed.
NeverOvercharged ==
    /\ \A k \in Weeks : /\ usage[k].manual <= Cardinality(CountedIn(k, "MANUAL"))
                        /\ usage[k].auto <= Cardinality(CountedIn(k, "AUTO"))
    /\ \A j \in JobIds :
         Cardinality(Charges(j)) <= 1 + queue[j].stalls + unconfirmed[j]

\* A job that reads COMPLETED has brought a result, whatever saved its row
\* last: an attempt, the next one, or the cleanup with what it read before.
CompletedHasResult ==
    \A j \in DOMAIN jobs : jobs[j].status = "COMPLETED" => jobs[j].result /\ stored[j] # <<>>

\* Every job is over in the end, and stays so: also one that never got into
\* the queue, whose worker died, or that the cleanup failed while it ran.
JobsSettle ==
    \A j \in JobIds : <>[](j \in DOMAIN jobs => jobs[j].status \in Terminal)

=============================================================================
