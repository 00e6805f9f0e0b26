-------------------------- MODULE AnalysisJobsProofs --------------------------
(* For any number of callers, jobs, attempts, stalls and faults: types, and *)
(* that a job which reads COMPLETED has brought a result.                   *)
EXTENDS AnalysisJobs, SequenceTheorems, FiniteSetTheorems, TLAPS

\* What a version of job j's row says is true of the results stored by now.
\* As no result is forgotten, it stays true of versions read long ago.
Earned(j, row) ==
    /\ row.status = "COMPLETED" => row.result
    /\ row.result => stored[j] # <<>>

EarnedRows ==
    /\ \A j \in DOMAIN jobs : Earned(j, jobs[j])
    /\ \A s \in cleaning : Earned(s.job, s.row)

\* A call about to queue its job is the only one that will.
CallersKnow ==
    \A c \in Callers :
        /\ caller[c].at # "idle" => caller[c].input \in Inputs
        /\ caller[c].at = "enqueue" =>
              /\ caller[c].job \in DOMAIN jobs
              /\ queue[caller[c].job].state = "none"
              /\ \A d \in Callers : caller[d].at = "enqueue" /\ caller[d].job = caller[c].job
                                       => d = c

QueueKnows ==
    \A j \in JobIds :
        /\ queue[j].state # "none" => j \in DOMAIN jobs
        /\ queue[j].state # "over" => queue[j].made < MaxAttempts

\* What a run of handleAnalysis holds.
RunsKnow ==
    \A j \in JobIds : run[j].at # "idle" =>
        /\ queue[j].state = "active"
        /\ run[j].row \in JobRow /\ Earned(j, run[j].row)
        /\ run[j].at = "stage" => run[j].stage < Len(Stages)

JobsInv == TypeOK /\ EarnedRows /\ CallersKnow /\ QueueKnows /\ RunsKnow

-----------------------------------------------------------------------------
\* The week of a time is one of the weeks usage is counted for.
LEMMA WeekOfTime == \A t \in 0 .. MaxTime : Week(t) \in Weeks
<1> SUFFICES ASSUME NEW t \in 0 .. MaxTime PROVE Week(t) \in Weeks
  OBVIOUS
<1>1. t \in Nat /\ MaxTime \in Nat /\ WeekLength \in Nat /\ WeekLength > 0 /\ t <= MaxTime
  BY AnalysisConstants
<1>2. t \div WeekLength \in Nat /\ MaxTime \div WeekLength \in Nat
  BY ONLY <1>1
<1>3. t \div WeekLength <= MaxTime \div WeekLength
  BY ONLY <1>1
<1> QED
  BY ONLY <1>2, <1>3 DEF Week, Weeks

\* The rows are numbered from 1, by numbers that are job ids.
LEMMA JobsAreIds == TypeOK => DOMAIN jobs = 1 .. Len(jobs) /\ DOMAIN jobs \subseteq JobIds
<1> SUFFICES ASSUME TypeOK PROVE DOMAIN jobs = 1 .. Len(jobs) /\ DOMAIN jobs \subseteq JobIds
  OBVIOUS
<1>1. jobs \in Seq(JobRow) /\ Len(jobs) <= MaxJobs /\ MaxJobs \in Nat
  BY AnalysisConstants DEF TypeOK
<1>2. DOMAIN jobs = 1 .. Len(jobs) /\ Len(jobs) \in Nat
  BY <1>1, LenProperties
<1> QED
  BY <1>1, <1>2 DEF JobIds

\* A row saved whole replaces one row.
LEMMA SaveRow ==
    ASSUME TypeOK, NEW j \in JobIds, NEW row \in JobRow, Save(j, row)
    PROVE  /\ jobs' \in Seq(JobRow) /\ Len(jobs') <= MaxJobs
           /\ DOMAIN jobs' = DOMAIN jobs
           /\ \A i \in DOMAIN jobs : jobs'[i] = IF i = j THEN row ELSE jobs[i]
<1>1. jobs \in Seq(JobRow) /\ DOMAIN jobs = 1 .. Len(jobs) /\ Len(jobs) <= MaxJobs
  BY JobsAreIds DEF TypeOK
<1>2. CASE j \in 1 .. Len(jobs)
  <2>1. /\ jobs' \in Seq(JobRow) /\ Len(jobs') = Len(jobs)
        /\ \A i \in 1 .. Len(jobs) : jobs'[i] = IF i = j THEN row ELSE jobs[i]
    BY <1>1, <1>2, ExceptSeq DEF Save
  <2>2. DOMAIN jobs' = 1 .. Len(jobs')
    BY <2>1, LenProperties
  <2> QED
    BY <1>1, <2>1, <2>2
<1>3. CASE j \notin 1 .. Len(jobs)
  <2>1. jobs' = [i \in DOMAIN jobs |-> jobs[i]]
    BY <1>1, <1>3 DEF Save
  <2>2. jobs = [i \in DOMAIN jobs |-> jobs[i]]
    BY <1>1, LenProperties
  <2> QED
    BY <1>1, <1>3, <2>1, <2>2
<1> QED
  BY <1>2, <1>3

\* What a step of one run leaves true of everything but the tables.
LEMMA OneRun ==
    ASSUME JobsInv, NEW j \in JobIds, run[j].at # "idle",
           UNCHANGED <<caller, queue>>, DOMAIN jobs' = DOMAIN jobs,
           \A i \in JobIds : stored[i] # <<>> => stored'[i] # <<>>,
           \A i \in JobIds \ {j} : run'[i] = run[i],
           run'[j].row \in JobRow, Earned(j, run[j].row)',
           run'[j].at = "stage" => run'[j].stage < Len(Stages)
    PROVE  CallersKnow' /\ QueueKnows' /\ RunsKnow'
<1>1. CallersKnow' /\ QueueKnows'
  BY DEF JobsInv, CallersKnow, QueueKnows
<1>2. RunsKnow'
  <2> SUFFICES ASSUME NEW i \in JobIds, run'[i].at # "idle"
               PROVE  /\ queue'[i].state = "active"
                      /\ run'[i].row \in JobRow /\ Earned(i, run[i].row)'
                      /\ run'[i].at = "stage" => run'[i].stage < Len(Stages)
    BY DEF RunsKnow
  <2>1. CASE i = j
    BY <2>1 DEF JobsInv, RunsKnow
  <2>2. CASE i # j
    BY <2>2 DEF JobsInv, RunsKnow, Earned
  <2> QED
    BY <2>1, <2>2
<1> QED
  BY <1>1, <1>2
-----------------------------------------------------------------------------
\* What a run may hold, and what its steps may save.
LEMMA Running ==
    ASSUME JobsInv, NEW j \in JobIds, run[j].at # "idle"
    PROVE  /\ run[j] \in Run /\ run[j].row \in JobRow /\ Earned(j, run[j].row)
           /\ run[j].at = "stage" => run[j].stage + 1 \in 1 .. Len(Stages)
           /\ MaxTime \in Nat /\ now \in 0 .. MaxTime
           /\ Len(Stages) \in Nat
<1>1. run[j] \in Run /\ Len(Stages) \in Nat
  BY AnalysisConstants, LenProperties DEF JobsInv, TypeOK
<1>2. run[j].stage \in 0 .. Len(Stages)
  BY <1>1 DEF Run
<1> QED
  BY <1>1, <1>2, AnalysisConstants DEF JobsInv, TypeOK, RunsKnow

\* Rows keep what they say when nothing but a run changes.
LEMMA RowsKept ==
    ASSUME JobsInv, UNCHANGED <<jobs, cleaning>>,
           \A i \in JobIds : stored[i] # <<>> => stored'[i] # <<>>
    PROVE  EarnedRows'
<1>1. DOMAIN jobs \subseteq JobIds /\ \A s \in cleaning : s.job \in JobIds
  BY JobsAreIds DEF JobsInv, TypeOK
<1> QED
  BY <1>1 DEF JobsInv, EarnedRows, Earned

\* A run's row, saved as the run holds it or changed, is as earned as the run's.
LEMMA RowSaved ==
    ASSUME JobsInv, UNCHANGED <<stored, cleaning>>,
           NEW j \in JobIds, NEW row \in JobRow, Earned(j, row), Save(j, row)
    PROVE  EarnedRows'
BY SaveRow DEF JobsInv, EarnedRows, Earned

\* The stage is written to the row the run holds and to the table (updateStage).
LEMMA StageStep == ASSUME JobsInv, NEW j \in JobIds, UpdateStage(j) PROVE JobsInv'
<1> DEFINE n == run[j].stage + 1
           row == [run[j].row EXCEPT !.status = Stages[n]]
<1>1. run[j].at = "stage" /\ Save(j, row)
  BY DEF UpdateStage
<1>2. /\ run[j] \in Run /\ run[j].row \in JobRow /\ Earned(j, run[j].row)
      /\ n \in 1 .. Len(Stages) /\ Len(Stages) \in Nat
  BY <1>1, Running
<1>3. /\ Stages[n] \in InProgress
      /\ Stages[n] \in {"COLLECTING", "NORMALIZING", "LOOKING_UP", "ANALYZING"}
  <2>1. DOMAIN Stages = 1 .. Len(Stages)
    BY AnalysisConstants, LenProperties
  <2>2. Stages[n] \in {"COLLECTING", "NORMALIZING", "LOOKING_UP", "ANALYZING"}
    BY <1>2, AnalysisConstants, ElementOfSeq
  <2> QED
    BY <1>2, <2>1, <2>2 DEF InProgress
<1>4. row \in JobRow /\ Earned(j, row)
  BY <1>2, <1>3 DEF JobRow, Earned
<1>5. /\ run' = [run EXCEPT ![j].row = row, ![j].stage = n,
                        ![j].at = IF n = Len(Stages) THEN "ask" ELSE @]
      /\ UNCHANGED <<asking, results, stored, usage, queue, faults>>
  BY DEF UpdateStage
<1> HIDE DEF row, n
<1>6. /\ run' \in [JobIds -> Run] /\ \A i \in JobIds \ {j} : run'[i] = run[i]
      /\ run'[j].row = row /\ run'[j].stage = n
      /\ run'[j].at = "stage" => n # Len(Stages)
  <2>1. run \in [JobIds -> Run]
    BY DEF JobsInv, TypeOK
  <2>2. [run[j] EXCEPT !.row = row, !.stage = n,
                       !.at = IF n = Len(Stages) THEN "ask" ELSE @] \in Run
    <3>1. \A q \in Run, r \in JobRow, m \in 0 .. Len(Stages) :
              \A step \in {"ask", q.at} :
                  [q EXCEPT !.row = r, !.stage = m, !.at = step] \in Run
      BY DEF Run, TrySteps
    <3>2. n \in 0 .. Len(Stages)
      BY <1>2
    <3>3. CASE n = Len(Stages)
      BY <1>2, <1>4, <3>1, <3>2, <3>3
    <3>4. CASE n # Len(Stages)
      BY <1>2, <1>4, <3>1, <3>2, <3>4
    <3> QED
      BY <3>3, <3>4
  <2> QED
    BY <2>1, <2>2, <1>5 DEF Run
<1>7. /\ jobs' \in Seq(JobRow) /\ Len(jobs') <= MaxJobs /\ DOMAIN jobs' = DOMAIN jobs
  BY <1>1, <1>4, SaveRow DEF JobsInv
<1>8. TypeOK'
  BY <1>5, <1>6, <1>7 DEF JobsInv, TypeOK, asking
<1>9. EarnedRows'
  BY <1>1, <1>4, <1>5, RowSaved DEF asking
<1>10. Earned(j, run[j].row)'
  BY <1>4, <1>5, <1>6 DEF Earned
<1>11. CallersKnow' /\ QueueKnows' /\ RunsKnow'
  <2>1. run'[j].at = "stage" => run'[j].stage < Len(Stages)
    BY <1>2, <1>6
  <2> QED
    BY <1>1, <1>4, <1>5, <1>6, <1>7, <1>10, <2>1, OneRun DEF asking
<1> QED
  BY <1>8, <1>9, <1>11 DEF JobsInv
\* Steps that move a run on and touch no table.
LEMMA QuietStep ==
    ASSUME JobsInv, NEW j \in JobIds,
           \/ AskOpenAI(j) \/ AnswerUnusable(j) \/ StartCount(j) \/ StartCost(j)
           \/ Throws(j) \/ CatchThrows(j)
    PROVE  JobsInv'
<1>1. run[j].at # "idle" /\ run \in [JobIds -> Run] /\ faults \in 0 .. MaxFaults /\ MaxFaults \in Nat
  BY AnalysisConstants DEF JobsInv, TypeOK, AskOpenAI, AnswerUnusable, StartCount, StartCost,
     ReadUsage, Throws, CatchThrows, TrySteps, CatchSteps
<1>2. /\ run[j] \in Run /\ run[j].row \in JobRow /\ Earned(j, run[j].row)
      /\ now \in 0 .. MaxTime
  BY <1>1, Running
<1>3. UNCHANGED <<now, jobs, results, stored, usage, caller, queue, cleaning, unconfirmed>>
  BY DEF AskOpenAI, AnswerUnusable, StartCount, StartCost, ReadUsage, Throws, CatchThrows, asking
<1>4. faults' \in 0 .. MaxFaults
  BY <1>1 DEF AskOpenAI, AnswerUnusable, StartCount, StartCost, ReadUsage, Throws, CatchThrows, Fault
<1> DEFINE Moved ==
        /\ run' \in [JobIds -> Run] /\ \A i \in JobIds \ {j} : run'[i] = run[i]
        /\ run'[j].row \in JobRow /\ Earned(j, run'[j].row) /\ run'[j].at # "stage"
<1>5. Moved
  <2>1. ASSUME AskOpenAI(j) PROVE Moved
    <3>1. [run[j].row EXCEPT !.paid = TRUE] \in JobRow
      BY <1>2 DEF JobRow
    <3>2. [run[j] EXCEPT !.row = [run[j].row EXCEPT !.paid = TRUE], !.at = "tokens"] \in Run
      BY <1>2, <3>1 DEF Run, TrySteps
    <3>3. run' = [run EXCEPT ![j] =
                    [run[j] EXCEPT !.row = [run[j].row EXCEPT !.paid = TRUE], !.at = "tokens"]]
      BY <2>1, <1>1, <1>2 DEF AskOpenAI, Run
    <3>4. /\ run'[j] = [run[j] EXCEPT !.row = [run[j].row EXCEPT !.paid = TRUE],
                                      !.at = "tokens"]
          /\ run' \in [JobIds -> Run] /\ \A i \in JobIds \ {j} : run'[i] = run[i]
      BY <1>1, <3>2, <3>3
    <3>5. run'[j].row = [run[j].row EXCEPT !.paid = TRUE] /\ run'[j].at = "tokens"
      BY <1>2, <3>4 DEF Run
    <3> QED
      BY <1>2, <3>1, <3>4, <3>5 DEF Earned, JobRow
  <2>2. ASSUME NEW step \in {"catch", "throw"}, At(j, step) PROVE Moved
    BY <2>2, <1>1, <1>2 DEF At, Run, CatchSteps
  <2>3. ASSUME NEW from, NEW to \in {"counted", "costed"}, ReadUsage(j, from, to) PROVE Moved
    <3>1. Week(now) \in Weeks /\ usage[Week(now)] \in UsageRow
      BY <1>2, WeekOfTime DEF JobsInv, TypeOK
    <3> HIDE DEF Week
    <3> QED
      BY <2>3, <1>1, <1>2, <3>1 DEF ReadUsage, Run, TrySteps, CatchSteps
  <2> QED
    BY <2>1, <2>2, <2>3 DEF AnswerUnusable, StartCount, StartCost, Throws, CatchThrows
<1>6. TypeOK'
  BY <1>3, <1>4, <1>5 DEF JobsInv, TypeOK
<1>7. EarnedRows'
  BY <1>3, RowsKept
<1>8. Earned(j, run[j].row)'
  BY <1>3, <1>5 DEF Earned
<1>9. CallersKnow' /\ QueueKnows' /\ RunsKnow'
  BY <1>1, <1>3, <1>5, <1>8, OneRun
<1> QED
  BY <1>6, <1>7, <1>9 DEF JobsInv

\* Steps that save the row as the run holds it.
LEMMA SaveStep ==
    ASSUME JobsInv, NEW j \in JobIds, SaveTokens(j) \/ Complete(j) \/ SaveFailed(j)
    PROVE  JobsInv'
<1>1. run[j].at # "idle" /\ run \in [JobIds -> Run]
  BY DEF JobsInv, TypeOK, SaveTokens, Complete, SaveFailed
<1>2. run[j] \in Run /\ run[j].row \in JobRow /\ Earned(j, run[j].row)
  BY <1>1, Running
<1>3. UNCHANGED <<now, results, stored, usage, caller, queue, cleaning, unconfirmed, faults>>
  BY DEF SaveTokens, Complete, SaveFailed, asking
<1>4. PICK row \in JobRow :
        /\ Earned(j, row) /\ Save(j, row)
        /\ run' \in [JobIds -> Run] /\ \A i \in JobIds \ {j} : run'[i] = run[i]
        /\ run'[j].row = row /\ run'[j].at # "stage"
  <2>1. CASE SaveTokens(j) \/ Complete(j)
    <3>1. Save(j, run[j].row) /\ \E step \in {"store", "count"} : At(j, step)
      BY <2>1 DEF SaveTokens, Complete
    <3>2. /\ run' \in [JobIds -> Run] /\ \A i \in JobIds \ {j} : run'[i] = run[i]
          /\ run'[j].row = run[j].row /\ run'[j].at # "stage"
      BY <3>1, <1>1, <1>2 DEF At, Run, TrySteps
    <3> QED
      BY <1>2, <3>1, <3>2
  <2>2. CASE SaveFailed(j)
    <3> DEFINE row == [run[j].row EXCEPT !.status = "FAILED"]
    <3>1. row \in JobRow /\ Earned(j, row)
      BY <1>2 DEF JobRow, Earned, Terminal
    <3>2. /\ Save(j, row)
          /\ run' = [run EXCEPT ![j].row = row,
                        ![j].at = IF row.paid THEN "cost" ELSE "throw"]
      BY <2>2 DEF SaveFailed
    <3> HIDE DEF row
    <3>3. /\ run' \in [JobIds -> Run] /\ \A i \in JobIds \ {j} : run'[i] = run[i]
          /\ run'[j].row = row /\ run'[j].at # "stage"
      BY <1>1, <1>2, <3>1, <3>2 DEF Run, CatchSteps
    <3> QED
      BY <3>1, <3>2, <3>3
  <2> QED
    BY <2>1, <2>2
<1>5. jobs' \in Seq(JobRow) /\ Len(jobs') <= MaxJobs /\ DOMAIN jobs' = DOMAIN jobs
  BY <1>4, SaveRow DEF JobsInv
<1>6. TypeOK'
  BY <1>3, <1>4, <1>5 DEF JobsInv, TypeOK
<1>7. EarnedRows'
  BY <1>3, <1>4, RowSaved
<1>8. Earned(j, run[j].row)'
  BY <1>3, <1>4 DEF Earned
<1>9. CallersKnow' /\ QueueKnows' /\ RunsKnow'
  BY <1>1, <1>3, <1>4, <1>5, <1>8, OneRun
<1> QED
  BY <1>6, <1>7, <1>9 DEF JobsInv
\* A result that is stored is not counted yet.
LEMMA InsertKeeps ==
    ASSUME stored \in [JobIds -> Seq(Weeks \cup {Null})], NEW j \in JobIds, Insert(j)
    PROVE  /\ stored' \in [JobIds -> Seq(Weeks \cup {Null})]
           /\ stored'[j] # <<>> /\ stored'[j][Len(stored'[j])] = Null
           /\ Len(stored'[j]) = Len(stored[j]) + 1
           /\ \A n \in 1 .. Len(stored[j]) : stored'[j][n] = stored[j][n]
           /\ \A i \in JobIds \ {j} : stored'[i] = stored[i]
           /\ \A i \in JobIds : stored[i] # <<>> => stored'[i] # <<>>
<1> DEFINE S == Weeks \cup {Null}
<1>1. Null \in S /\ stored \in [JobIds -> Seq(S)]
  OBVIOUS
<1>2. stored' = [stored EXCEPT ![j] = Append(stored[j], Null)]
  BY DEF Insert
<1> HIDE DEF S
<1>3. stored[j] \in Seq(S)
  BY <1>1
<1>4. /\ Append(stored[j], Null) \in Seq(S)
      /\ Append(stored[j], Null) # <<>>
      /\ Len(Append(stored[j], Null)) = Len(stored[j]) + 1
      /\ \A n \in 1 .. Len(stored[j]) : Append(stored[j], Null)[n] = stored[j][n]
      /\ Append(stored[j], Null)[Len(stored[j]) + 1] = Null
  BY <1>1, <1>3, AppendProperties
<1>5. /\ stored' \in [JobIds -> Seq(S)] /\ stored'[j] = Append(stored[j], Null)
      /\ \A i \in JobIds \ {j} : stored'[i] = stored[i]
  BY <1>1, <1>2, <1>4
<1>6. /\ stored'[j] # <<>> /\ Len(stored'[j]) = Len(stored[j]) + 1
      /\ stored'[j][Len(stored[j]) + 1] = Null
      /\ \A n \in 1 .. Len(stored[j]) : stored'[j][n] = stored[j][n]
  BY <1>4, <1>5
<1> QED
  BY <1>5, <1>6 DEF S

\* Steps that insert a result.
LEMMA StoreStep ==
    ASSUME JobsInv, NEW j \in JobIds, StoreResult(j) \/ StoredUnconfirmed(j)
    PROVE  JobsInv'
<1>1. /\ run[j].at # "idle" /\ run \in [JobIds -> Run]
      /\ stored \in [JobIds -> Seq(Weeks \cup {Null})]
      /\ faults \in 0 .. MaxFaults /\ MaxFaults \in Nat
  BY AnalysisConstants DEF JobsInv, TypeOK, StoreResult, StoredUnconfirmed
<1>2. /\ run[j] \in Run /\ run[j].row \in JobRow /\ Earned(j, run[j].row)
      /\ now \in 0 .. MaxTime
  BY <1>1, Running
<1>3. /\ UNCHANGED <<now, jobs, usage, caller, queue, cleaning, unconfirmed>>
      /\ faults' \in 0 .. MaxFaults /\ Insert(j)
  BY <1>1 DEF StoreResult, StoredUnconfirmed, asking, Fault
<1>4. /\ stored' \in [JobIds -> Seq(Weeks \cup {Null})] /\ stored'[j] # <<>>
      /\ \A i \in JobIds : stored[i] # <<>> => stored'[i] # <<>>
  BY <1>1, <1>3, InsertKeeps
<1>5. results' \subseteq [job : JobIds, createdAt : 0 .. MaxTime]
  BY <1>2, <1>3 DEF JobsInv, TypeOK, Insert
<1>6. /\ run' \in [JobIds -> Run] /\ \A i \in JobIds \ {j} : run'[i] = run[i]
      /\ run'[j].row \in JobRow /\ run'[j].at # "stage"
      /\ run'[j].row.status = "COMPLETED" => run'[j].row.result
  <2>1. CASE StoreResult(j)
    <3> DEFINE row == [run[j].row EXCEPT !.result = TRUE, !.status = "COMPLETED"]
    <3>1. row \in JobRow /\ row.result
      BY <1>2 DEF JobRow, Terminal
    <3>2. run' = [run EXCEPT ![j].at = "complete", ![j].row = row]
      BY <2>1, <1>1, <1>2 DEF StoreResult, Run, JobRow
    <3> HIDE DEF row
    <3> QED
      BY <1>1, <1>2, <3>1, <3>2 DEF Run, TrySteps
  <2>2. CASE StoredUnconfirmed(j)
    BY <2>2, <1>1, <1>2 DEF StoredUnconfirmed, At, Run, CatchSteps, Earned
  <2> QED
    BY <2>1, <2>2
<1>7. TypeOK'
  BY <1>3, <1>4, <1>5, <1>6 DEF JobsInv, TypeOK
<1>8. EarnedRows'
  BY <1>3, <1>4, RowsKept
<1>9. Earned(j, run[j].row)'
  BY <1>4, <1>6 DEF Earned
<1>10. CallersKnow' /\ QueueKnows' /\ RunsKnow'
  BY <1>1, <1>3, <1>4, <1>6, <1>9, OneRun
<1> QED
  BY <1>7, <1>8, <1>10 DEF JobsInv

\* The last result of a job is marked with the week it is counted in.
LEMMA MarkKeeps ==
    ASSUME stored \in [JobIds -> Seq(Weeks \cup {Null})], NEW j \in JobIds,
           run[j].week \in Weeks, SaveCount(j)
    PROVE  /\ stored' \in [JobIds -> Seq(Weeks \cup {Null})]
           /\ \A i \in JobIds : Len(stored'[i]) = Len(stored[i])
           /\ \A i \in JobIds : stored[i] # <<>> => stored'[i] # <<>>
           /\ \A i \in JobIds \ {j} : stored'[i] = stored[i]
           /\ \A n \in 1 .. Len(stored[j]) :
                 stored'[j][n] = IF n = Len(stored[j]) THEN run[j].week ELSE stored[j][n]
<1> DEFINE S == Weeks \cup {Null}
           s == stored[j]
           marked == [s EXCEPT ![Len(s)] = run[j].week]
<1>1. s \in Seq(S) /\ run[j].week \in S
  OBVIOUS
<1>2. stored' = [stored EXCEPT ![j] = marked]
  BY DEF SaveCount
<1> HIDE DEF S, s
<1>3. /\ Len(s) \in Nat /\ DOMAIN s = 1 .. Len(s)
      /\ s = <<>> <=> Len(s) = 0
  BY <1>1, LenProperties, EmptySeq
<1>4. /\ marked \in Seq(S) /\ Len(marked) = Len(s)
      /\ \A n \in 1 .. Len(s) :
            marked[n] = IF n = Len(s) THEN run[j].week ELSE s[n]
  <2>1. CASE Len(s) = 0
    <3>1. s = <<>> /\ DOMAIN s = {}
      BY <1>3, <2>1
    <3>2. marked = s /\ 1 .. Len(s) = {}
      BY <2>1, <3>1
    <3> HIDE DEF marked
    <3> QED
      BY <1>1, <3>2
  <2>2. CASE Len(s) # 0
    <3>1. Len(s) \in 1 .. Len(s)
      BY <1>3, <2>2
    <3> QED
      BY <1>1, <3>1, ExceptSeq
  <2> QED
    BY <2>1, <2>2
<1>5. marked = <<>> <=> s = <<>>
  BY <1>3, <1>4, EmptySeq, LenProperties
<1> HIDE DEF marked
<1>6. stored \in [JobIds -> Seq(S)]
  BY DEF S
<1>7. /\ stored' \in [JobIds -> Seq(S)] /\ stored'[j] = marked
      /\ \A i \in JobIds \ {j} : stored'[i] = stored[i]
  BY <1>2, <1>4, <1>6
<1>8. stored[j] = s
  BY DEF s
<1> QED
  BY <1>4, <1>5, <1>7, <1>8 DEF S

\* Steps that save the week's usage.
LEMMA CountStep ==
    ASSUME JobsInv, NEW j \in JobIds,
           IncrementUsage(j) \/ CountedUnconfirmed(j) \/ RecordCost(j)
    PROVE  JobsInv'
<1>1. /\ run[j].at # "idle" /\ run \in [JobIds -> Run] /\ usage \in [Weeks -> UsageRow]
      /\ unconfirmed \in [JobIds -> Nat]
      /\ faults \in 0 .. MaxFaults /\ MaxFaults \in Nat
  BY AnalysisConstants DEF JobsInv, TypeOK, IncrementUsage, CountedUnconfirmed, RecordCost
<1>2. /\ run[j] \in Run /\ run[j].row \in JobRow /\ Earned(j, run[j].row)
      /\ now \in 0 .. MaxTime
  BY <1>1, Running
<1>3. /\ UNCHANGED <<now, jobs, results, caller, queue, cleaning>>
      /\ faults' \in 0 .. MaxFaults
      /\ \E step \in {"return", "catch", "throw"} : Done(j, step)
      /\ \E u \in {Counted(j), run[j].seen} : usage' = [usage EXCEPT ![run[j].week] = u]
      /\ SaveCount(j) \/ UNCHANGED stored
  BY <1>1 DEF IncrementUsage, CountedUnconfirmed, RecordCost, SaveCount, asking, Fault
<1>0. unconfirmed' \in [JobIds -> Nat]
  <2>1. CASE UNCHANGED unconfirmed
    BY <1>1, <2>1
  <2>2. CASE unconfirmed' = [unconfirmed EXCEPT ![j] = @ + 1]
    BY <1>1, <2>2
  <2> QED
    BY <2>1, <2>2 DEF IncrementUsage, CountedUnconfirmed, RecordCost, asking
<1>4. Counted(j) \in UsageRow /\ run[j].seen \in UsageRow
  <2>1. run[j].seen \in UsageRow
    BY <1>2 DEF Run
  <2>2. ASSUME NEW T, now \in T,
               NEW u \in [manual : Nat, auto : Nat, lastManualAt : T]
        PROVE  /\ [u EXCEPT !.auto = @ + 1]
                     \in [manual : Nat, auto : Nat, lastManualAt : T]
               /\ [u EXCEPT !.manual = @ + 1, !.lastManualAt = now]
                     \in [manual : Nat, auto : Nat, lastManualAt : T]
    <3>1. \A x \in Nat, y \in T :
             /\ [u EXCEPT !.auto = x] \in [manual : Nat, auto : Nat, lastManualAt : T]
             /\ [u EXCEPT !.manual = x, !.lastManualAt = y]
                   \in [manual : Nat, auto : Nat, lastManualAt : T]
      BY <2>2
    <3>2. u.manual + 1 \in Nat /\ u.auto + 1 \in Nat
      BY <2>2
    <3> QED
      BY ONLY <2>2, <3>1, <3>2
  <2>3. now \in 0 .. MaxTime \cup {Null}
    BY <1>2
  <2> QED
    BY <2>1, <2>2, <2>3 DEF Counted, UsageRow
<1>5. usage' \in [Weeks -> UsageRow]
  BY <1>1, <1>3, <1>4
<1>6. 0 \in Weeks /\ FreshUsage \in UsageRow
  <2>1. 0 \in 0 .. MaxTime
    BY AnalysisConstants
  <2>2. Week(0) = 0
    BY AnalysisConstants DEF Week
  <2> QED
    BY <2>1, <2>2, WeekOfTime DEF FreshUsage, UsageRow
<1>7. /\ run' \in [JobIds -> Run] /\ \A i \in JobIds \ {j} : run'[i] = run[i]
      /\ run'[j].row = run[j].row /\ run'[j].at # "stage"
  <2>1. PICK step \in {"return", "catch", "throw"} :
          run' = [run EXCEPT ![j].at = step, ![j].week = 0, ![j].seen = FreshUsage]
    BY <1>3 DEF Done
  <2>2. /\ [run[j] EXCEPT !.at = step, !.week = 0, !.seen = FreshUsage] \in Run
        /\ [run[j] EXCEPT !.at = step, !.week = 0, !.seen = FreshUsage].row = run[j].row
        /\ [run[j] EXCEPT !.at = step, !.week = 0, !.seen = FreshUsage].at = step
    BY <1>2, <1>6 DEF Run, CatchSteps
  <2>3. run' = [run EXCEPT ![j] =
                  [run[j] EXCEPT !.at = step, !.week = 0, !.seen = FreshUsage]]
    BY <1>1, <1>2, <2>1 DEF Run
  <2> QED
    BY <1>1, <2>2, <2>3
<1>8. /\ stored' \in [JobIds -> Seq(Weeks \cup {Null})]
      /\ \A i \in JobIds : stored[i] # <<>> => stored'[i] # <<>>
  <2>1. stored \in [JobIds -> Seq(Weeks \cup {Null})] /\ run[j].week \in Weeks
    BY <1>2 DEF JobsInv, TypeOK, Run
  <2>2. CASE SaveCount(j)
    BY <2>1, <2>2, MarkKeeps
  <2> QED
    BY <1>3, <2>1, <2>2
<1>9. TypeOK'
  BY <1>0, <1>3, <1>5, <1>7, <1>8 DEF JobsInv, TypeOK
<1>10. EarnedRows'
  BY <1>3, <1>8, RowsKept
<1>11. Earned(j, run[j].row)'
  BY <1>2, <1>7, <1>8 DEF Earned
<1>12. CallersKnow' /\ QueueKnows' /\ RunsKnow'
  BY <1>1, <1>2, <1>3, <1>7, <1>8, <1>11, OneRun
<1> QED
  BY <1>9, <1>10, <1>12 DEF JobsInv
-----------------------------------------------------------------------------
\* The queue takes a job from a run, or gives it to one.
LEMMA QueueStep ==
    ASSUME JobsInv, NEW j \in JobIds,
           \/ Take(j) \/ JobReturns(j) \/ JobThrows(j) \/ WorkerDies(j) \/ Stalled(j)
    PROVE  JobsInv'
<1>1. /\ run \in [JobIds -> Run] /\ queue \in [JobIds -> QueueEntry]
      /\ faults \in 0 .. MaxFaults
      /\ MaxFaults \in Nat /\ MaxAttempts \in Nat \ {0} /\ MaxStalls \in Nat
  BY AnalysisConstants DEF JobsInv, TypeOK
<1>2. /\ UNCHANGED <<now, jobs, results, stored, usage, caller, cleaning, unconfirmed>>
      /\ faults' \in 0 .. MaxFaults
  BY <1>1 DEF Take, JobReturns, JobThrows, WorkerDies, Stalled, asking, tables, Fault
<1>3. DOMAIN jobs \subseteq JobIds /\ jobs \in Seq(JobRow) /\ DOMAIN jobs = 1 .. Len(jobs)
  BY JobsAreIds DEF JobsInv, TypeOK
<1>4. queue[j].state # "none"
  BY DEF Take, JobReturns, JobThrows, WorkerDies, Stalled, JobsInv, RunsKnow
<1>5. j \in DOMAIN jobs /\ jobs[j] \in JobRow /\ Earned(j, jobs[j])
  BY <1>3, <1>4, ElementOfSeq DEF JobsInv, QueueKnows, EarnedRows
<1>6. PICK q \in QueueEntry :
        /\ queue' = [queue EXCEPT ![j] = q]
        /\ q.state # "none"
        /\ q.state # "over" => q.made < MaxAttempts
        /\ run'[j].at # "idle" => q.state = "active"
  <2>1. CASE Take(j)
    <3>1. [queue[j] EXCEPT !.state = "active"] \in QueueEntry
      BY <1>1 DEF QueueEntry
    <3> QED
      BY <2>1, <1>1, <3>1 DEF Take, JobsInv, QueueKnows, QueueEntry
  <2>2. CASE JobReturns(j)
    <3>1. [queue[j] EXCEPT !.state = "over"] \in QueueEntry
      BY <1>1 DEF QueueEntry
    <3> QED
      BY <2>2, <1>1, <3>1 DEF JobReturns, Idle, NotRunning, QueueEntry
  <2>3. CASE JobThrows(j)
    <3>1. queue[j].made < MaxAttempts /\ queue[j].made \in 0 .. MaxAttempts
      BY <2>3, <1>1 DEF JobThrows, JobsInv, QueueKnows, RunsKnow, QueueEntry
    <3>2. [queue[j] EXCEPT !.made = @ + 1, !.state =
             IF queue[j].made + 1 < MaxAttempts THEN "waiting" ELSE "over"] \in QueueEntry
      <4>1. queue[j].made + 1 \in 0 .. MaxAttempts
        BY <1>1, <3>1
      <4>2. \A state \in {"waiting", "over"} :
               [queue[j] EXCEPT !.made = @ + 1, !.state = state] \in QueueEntry
        BY <1>1, <4>1 DEF QueueEntry
      <4> QED
        BY <4>2
    <3> QED
      BY <2>3, <1>1, <3>1, <3>2 DEF JobThrows, Idle, NotRunning, QueueEntry
  <2>4. CASE WorkerDies(j)
    <3>1. /\ queue[j].state = "active" /\ queue[j].made < MaxAttempts
          /\ queue[j] \in QueueEntry /\ queue' = [queue EXCEPT ![j] = queue[j]]
      BY <2>4, <1>1 DEF WorkerDies, JobsInv, QueueKnows, RunsKnow
    <3> QED
      BY <3>1
  <2>5. CASE Stalled(j)
    <3> DEFINE q == IF queue[j].stalls < MaxStalls
                    THEN [queue[j] EXCEPT !.state = "waiting", !.stalls = @ + 1]
                    ELSE [queue[j] EXCEPT !.state = "over"]
    <3>1. /\ q \in QueueEntry /\ q.state \in {"waiting", "over"}
          /\ q.made = queue[j].made
      <4>1. /\ queue[j] \in QueueEntry
            /\ queue[j].stalls < MaxStalls => queue[j].stalls + 1 \in 0 .. MaxStalls
        BY <1>1 DEF QueueEntry
      <4>2. CASE queue[j].stalls < MaxStalls
        BY <1>1, <4>1, <4>2 DEF QueueEntry
      <4>3. CASE ~(queue[j].stalls < MaxStalls)
        BY <1>1, <4>1, <4>3 DEF QueueEntry
      <4> QED
        BY <4>2, <4>3
    <3>2. /\ queue' = [queue EXCEPT ![j] = q]
          /\ run'[j].at = "idle" /\ queue[j].state = "active"
      <4>1. run'[j].at = "idle" /\ queue[j].state = "active"
        BY <2>5 DEF Stalled
      <4> QED
        BY <2>5, <4>1 DEF Stalled
    <3>3. queue[j].made < MaxAttempts
      BY <3>2 DEF JobsInv, QueueKnows
    <3> HIDE DEF q
    <3> QED
      BY <3>1, <3>2, <3>3
  <2> QED
    BY <2>1, <2>2, <2>3, <2>4, <2>5
<1>7. /\ run' \in [JobIds -> Run] /\ \A i \in JobIds \ {j} : run'[i] = run[i]
      /\ run'[j].at # "idle" =>
            run'[j].row \in JobRow /\ Earned(j, run'[j].row) /\ run'[j].stage = 0
  <2>1. NotRunning \in Run
    <3>1. 0 \in Weeks /\ 0 \in 0 .. Len(Stages)
      <4>1. 0 \in 0 .. MaxTime /\ Week(0) = 0
        BY AnalysisConstants DEF Week
      <4>2. Len(Stages) \in Nat
        BY AnalysisConstants, LenProperties
      <4> QED
        BY <4>1, <4>2, WeekOfTime
    <3> QED
      BY <3>1 DEF NotRunning, Run, FreshUsage, UsageRow
  <2>2. CASE Take(j)
    <3>1. [NotRunning EXCEPT !.at = "stage", !.row = jobs[j]] \in Run
      BY <2>1, <1>5 DEF Run, TrySteps
    <3> QED
      BY <2>2, <1>1, <1>5, <3>1 DEF Take, NotRunning
  <2>3. CASE JobReturns(j) \/ JobThrows(j) \/ WorkerDies(j)
    BY <2>1, <2>3, <1>1 DEF JobReturns, JobThrows, WorkerDies, Idle, NotRunning
  <2>4. CASE Stalled(j)
    BY <2>4, <1>1 DEF Stalled
  <2> QED
    BY <2>2, <2>3, <2>4
<1>8. /\ queue' \in [JobIds -> QueueEntry] /\ queue'[j] = q
      /\ \A i \in JobIds \ {j} : queue'[i] = queue[i]
  BY <1>1, <1>6
<1>9. TypeOK'
  BY <1>2, <1>7, <1>8 DEF JobsInv, TypeOK
<1>10. EarnedRows'
  BY <1>2, RowsKept
<1>11. CallersKnow'
  BY <1>2, <1>3, <1>4, <1>8 DEF JobsInv, CallersKnow
<1>12. QueueKnows'
  BY <1>2, <1>5, <1>6, <1>8 DEF JobsInv, QueueKnows
<1>13. RunsKnow'
  <2> SUFFICES ASSUME NEW i \in JobIds, run'[i].at # "idle"
               PROVE  /\ queue'[i].state = "active"
                      /\ run'[i].row \in JobRow /\ Earned(i, run[i].row)'
                      /\ run'[i].at = "stage" => run'[i].stage < Len(Stages)
    BY DEF RunsKnow
  <2>1. CASE i = j
    <3>1. 0 < Len(Stages)
      BY AnalysisConstants, EmptySeq, LenProperties
    <3> QED
      BY <2>1, <3>1, <1>2, <1>6, <1>7, <1>8 DEF Earned
  <2>2. CASE i # j
    BY <2>2, <1>2, <1>7, <1>8 DEF JobsInv, RunsKnow, Earned
  <2> QED
    BY <2>1, <2>2
<1> QED
  BY <1>9, <1>10, <1>11, <1>12, <1>13 DEF JobsInv
-----------------------------------------------------------------------------
\* What a step of one call leaves true, when it queues nothing.
LEMMA OneCall ==
    ASSUME JobsInv, NEW c \in Callers, NEW q \in Caller,
           UNCHANGED <<now, results, stored, usage, queue, run, cleaning, unconfirmed>>,
           caller' = [caller EXCEPT ![c] = q],
           q.at # "idle" => q.input \in Inputs, q.at # "enqueue",
           UNCHANGED jobs, faults' \in 0 .. MaxFaults
    PROVE  JobsInv'
<1>1. caller \in [Callers -> Caller]
  BY DEF JobsInv, TypeOK
<1>2. TypeOK'
  BY <1>1 DEF JobsInv, TypeOK
<1>3. EarnedRows'
  BY RowsKept
<1>4. CallersKnow'
  BY <1>1 DEF JobsInv, CallersKnow
<1>5. QueueKnows' /\ RunsKnow'
  BY DEF JobsInv, QueueKnows, RunsKnow, Earned
<1> QED
  BY <1>2, <1>3, <1>4, <1>5 DEF JobsInv

\* Steps of a call that queue no job.
LEMMA CallStep ==
    ASSUME JobsInv, NEW c \in Callers,
           StartRun(c) \/ LookForResult(c) \/ LookForJob(c) \/ EnqueueFails(c)
    PROVE  JobsInv'
<1>1. /\ UNCHANGED <<now, jobs, results, stored, usage, queue, run, cleaning, unconfirmed>>
      /\ faults \in 0 .. MaxFaults /\ MaxFaults \in Nat /\ faults' \in 0 .. MaxFaults
  <2>1. UNCHANGED <<now, jobs, work>>
    BY DEF StartRun, LookForResult, LookForJob, EnqueueFails
  <2>2. faults \in 0 .. MaxFaults /\ MaxFaults \in Nat
    BY AnalysisConstants DEF JobsInv, TypeOK
  <2>3. faults' = faults \/ (faults < MaxFaults /\ faults' = faults + 1)
    BY DEF StartRun, LookForResult, LookForJob, EnqueueFails, Fault
  <2>4. UNCHANGED <<now, jobs, results, stored, usage, queue, run, cleaning, unconfirmed>>
    BY <2>1 DEF work
  <2> QED
    BY <2>2, <2>3, <2>4
<1>2. caller \in [Callers -> Caller] /\ caller[c] \in Caller
  BY DEF JobsInv, TypeOK
<1>3. NotCalling \in Caller /\ NotCalling.at = "idle"
  BY AnalysisConstants DEF NotCalling, Caller, Triggers
<1> DEFINE Called(q) == /\ caller' = [caller EXCEPT ![c] = q]
                        /\ q.at # "idle" => q.input \in Inputs
                        /\ q.at # "enqueue"
<1>4. \E q \in Caller : Called(q)
  <2>1. CASE StartRun(c)
    <3>1. PICK a \in Asked :
            caller' = [caller EXCEPT ![c] = [NotCalling EXCEPT !.at = "result",
                                            !.trigger = a.trigger, !.input = a.input]]
      BY <2>1 DEF StartRun
    <3>2. a.trigger \in Triggers /\ a.input \in Inputs
      BY AnalysisConstants DEF Triggers
    <3>3. /\ [NotCalling EXCEPT !.at = "result", !.trigger = a.trigger,
                                !.input = a.input] \in Caller
          /\ [NotCalling EXCEPT !.at = "result", !.trigger = a.trigger,
                                !.input = a.input].input = a.input
          /\ [NotCalling EXCEPT !.at = "result", !.trigger = a.trigger,
                                !.input = a.input].at = "result"
      BY <1>3, <3>2 DEF Caller
    <3> QED
      BY <3>1, <3>2, <3>3
  <2>2. ASSUME NEW step \in {"job", "save"}, caller[c].at # "idle",
               caller' = [caller EXCEPT ![c].at = step]
        PROVE  \E q \in Caller : Called(q)
    <3>1. caller[c].input \in Inputs
      BY <2>2 DEF JobsInv, CallersKnow
    <3>2. /\ [caller[c] EXCEPT !.at = step] \in Caller
          /\ [caller[c] EXCEPT !.at = step].at = step
          /\ [caller[c] EXCEPT !.at = step].input = caller[c].input
      BY <1>2 DEF Caller
    <3>3. caller' = [caller EXCEPT ![c] = [caller[c] EXCEPT !.at = step]]
      BY <2>2
    <3> QED
      BY <3>1, <3>2, <3>3
  <2>3. ASSUME caller' = [caller EXCEPT ![c] = NotCalling]
        PROVE  \E q \in Caller : Called(q)
    BY <1>3, <2>3
  <2>4. CASE LookForResult(c)
    <3> DEFINE hit == \E r \in results : jobs[r.job].input = caller[c].input /\ Fresh(r)
    <3>1. /\ caller[c].at = "result"
          /\ caller' = [caller EXCEPT ![c] = IF hit THEN NotCalling
                                            ELSE [caller[c] EXCEPT !.at = "job"]]
      BY <2>4 DEF LookForResult
    <3> HIDE DEF hit
    <3>2. CASE hit
      BY <3>1, <3>2, <2>3
    <3>3. CASE ~hit
      BY <3>1, <3>3, <2>2
    <3> QED
      BY <3>2, <3>3
  <2>5. CASE LookForJob(c)
    <3> DEFINE hit == \E j \in DOMAIN jobs : /\ jobs[j].input = caller[c].input
                                             /\ jobs[j].status \in InProgress
    <3>1. /\ caller[c].at = "job"
          /\ caller' = [caller EXCEPT ![c] = IF hit THEN NotCalling
                                            ELSE [caller[c] EXCEPT !.at = "save"]]
      BY <2>5 DEF LookForJob
    <3> HIDE DEF hit
    <3>2. CASE hit
      BY <3>1, <3>2, <2>3
    <3>3. CASE ~hit
      BY <3>1, <3>3, <2>2
    <3> QED
      BY <3>2, <3>3
  <2>6. CASE EnqueueFails(c)
    BY <2>3, <2>6 DEF EnqueueFails
  <2> QED
    BY <2>1, <2>4, <2>5, <2>6
<1>6. PICK q \in Caller : /\ caller' = [caller EXCEPT ![c] = q]
                          /\ q.at # "idle" => q.input \in Inputs
                          /\ q.at # "enqueue"
  BY <1>4
<1>7. UNCHANGED <<now, results, stored, usage, queue, run, cleaning, unconfirmed>> /\ UNCHANGED jobs
  BY <1>1
<1> HIDE DEF Called
<1> QED
  BY <1>1, <1>6, <1>7, OneCall, Zenon
\* A new row is at the end of the table, and nobody else's.
LEMMA SaveJobStep == ASSUME JobsInv, NEW c \in Callers, SaveJob(c) PROVE JobsInv'
<1> DEFINE row == [trigger |-> caller[c].trigger, input |-> caller[c].input,
                   status |-> "QUEUED", createdAt |-> now, paid |-> FALSE, result |-> FALSE]
           n == Len(jobs) + 1
<1>1. /\ caller[c].at = "save" /\ Len(jobs) < MaxJobs /\ now < MaxTime
      /\ jobs' = Append(jobs, row)
      /\ caller' = [caller EXCEPT ![c].at = "enqueue", ![c].job = Len(jobs')]
      /\ UNCHANGED <<now, work, faults>>
  BY DEF SaveJob
<1>2. /\ caller \in [Callers -> Caller] /\ caller[c].input \in Inputs
      /\ now \in 0 .. MaxTime /\ jobs \in Seq(JobRow)
      /\ MaxJobs \in Nat
  BY <1>1, AnalysisConstants DEF JobsInv, TypeOK, CallersKnow
<1>3. row \in JobRow /\ Earned(n, row)
  BY <1>2 DEF JobRow, InProgress, Caller, Earned
<1> HIDE DEF row
<1>4. /\ jobs' \in Seq(JobRow) /\ Len(jobs') = n
      /\ \A i \in 1 .. Len(jobs) : jobs'[i] = jobs[i]
      /\ jobs'[n] = row
  BY <1>1, <1>2, <1>3, AppendProperties
<1>5. /\ DOMAIN jobs = 1 .. Len(jobs) /\ Len(jobs) \in Nat
      /\ DOMAIN jobs' = DOMAIN jobs \cup {n} /\ n \in JobIds /\ n \notin DOMAIN jobs
      /\ DOMAIN jobs \subseteq JobIds
  <2>1. /\ DOMAIN jobs = 1 .. Len(jobs) /\ Len(jobs) \in Nat
        /\ DOMAIN jobs' = 1 .. n
    BY <1>2, <1>4, LenProperties
  <2> QED
    BY <1>1, <1>2, <2>1 DEF JobIds
<1>6. UNCHANGED <<now, results, stored, usage, queue, run, cleaning, unconfirmed, faults>>
  BY <1>1 DEF work
<1>7. /\ caller' \in [Callers -> Caller]
      /\ \A d \in Callers \ {c} : caller'[d] = caller[d]
      /\ caller'[c].at = "enqueue" /\ caller'[c].job = n
      /\ caller'[c].input = caller[c].input
  <2>1. n \in 0 .. MaxJobs
    BY <1>1, <1>2, <1>5
  <2> HIDE DEF n
  <2>2. caller' = [caller EXCEPT ![c].at = "enqueue", ![c].job = n]
    BY <1>1, <1>4
  <2> QED
    BY <1>2, <2>1, <2>2 DEF Caller
<1>8. queue[n].state = "none"
  BY <1>5 DEF JobsInv, QueueKnows
<1>9. Len(jobs') <= MaxJobs
  BY <1>1, <1>2, <1>4, <1>5
<1> HIDE DEF n
<1>10. TypeOK'
  BY <1>4, <1>6, <1>7, <1>9 DEF JobsInv, TypeOK
<1>11. EarnedRows'
  BY <1>3, <1>4, <1>5, <1>6 DEF JobsInv, EarnedRows, Earned
<1>12. CallersKnow'
  <2> SUFFICES ASSUME NEW d \in Callers
               PROVE  /\ caller'[d].at # "idle" => caller'[d].input \in Inputs
                      /\ caller'[d].at = "enqueue" =>
                            /\ caller'[d].job \in DOMAIN jobs'
                            /\ queue'[caller'[d].job].state = "none"
                            /\ \A e \in Callers :
                                  caller'[e].at = "enqueue" /\ caller'[e].job = caller'[d].job
                                     => e = d
    BY DEF CallersKnow
  <2>1. \A e \in Callers \ {c} : caller'[e].at = "enqueue" => caller'[e].job \in DOMAIN jobs
    BY <1>7 DEF JobsInv, CallersKnow
  <2>2. CASE d = c
    BY <2>1, <2>2, <1>2, <1>5, <1>6, <1>7, <1>8
  <2>3. CASE d # c
    BY <2>1, <2>3, <1>5, <1>6, <1>7 DEF JobsInv, CallersKnow
  <2> QED
    BY <2>2, <2>3
<1>13. QueueKnows' /\ RunsKnow'
  BY <1>5, <1>6 DEF JobsInv, QueueKnows, RunsKnow, Earned
<1> QED
  BY <1>10, <1>11, <1>12, <1>13 DEF JobsInv

\* The call that saved the row queues it, and no other call can.
LEMMA EnqueueStep == ASSUME JobsInv, NEW c \in Callers, Enqueue(c) PROVE JobsInv'
<1>1. /\ caller[c].at = "enqueue"
      /\ queue' = [queue EXCEPT ![caller[c].job].state = "waiting"]
      /\ caller' = [caller EXCEPT ![c] = NotCalling]
      /\ UNCHANGED <<now, jobs, results, stored, usage, run, cleaning, unconfirmed, faults>>
  BY DEF Enqueue
<1>2. PICK j \in DOMAIN jobs : j = caller[c].job
  BY <1>1 DEF JobsInv, CallersKnow
<1>3. /\ j \in JobIds /\ queue \in [JobIds -> QueueEntry]
      /\ caller \in [Callers -> Caller]
  BY <1>2, JobsAreIds DEF JobsInv, TypeOK
<1>4. queue[j].state = "none" /\ queue[j].made < MaxAttempts
  BY <1>1, <1>2, <1>3 DEF JobsInv, CallersKnow, QueueKnows
<1>5. /\ queue' \in [JobIds -> QueueEntry] /\ \A i \in JobIds \ {j} : queue'[i] = queue[i]
      /\ queue'[j].state = "waiting" /\ queue'[j].made = queue[j].made
  BY <1>1, <1>2, <1>3 DEF QueueEntry
<1>6. NotCalling \in Caller /\ NotCalling.at = "idle"
  BY AnalysisConstants DEF NotCalling, Caller, Triggers
<1>7. /\ caller' \in [Callers -> Caller] /\ \A d \in Callers \ {c} : caller'[d] = caller[d]
      /\ caller'[c].at = "idle"
  BY <1>1, <1>3, <1>6
<1>8. TypeOK'
  BY <1>1, <1>5, <1>7 DEF JobsInv, TypeOK
<1>9. EarnedRows'
  BY <1>1, RowsKept
<1>10. CallersKnow'
  <2>1. \A d \in Callers \ {c} : caller[d].at = "enqueue" => caller[d].job # j
    BY <1>1, <1>2 DEF JobsInv, CallersKnow
  <2>2. DOMAIN jobs \subseteq JobIds
    BY JobsAreIds DEF JobsInv
  <2> QED
    BY <2>1, <2>2, <1>1, <1>5, <1>7 DEF JobsInv, CallersKnow
<1>11. QueueKnows'
  BY <1>1, <1>4, <1>5 DEF JobsInv, QueueKnows
<1>12. RunsKnow'
  BY <1>1, <1>4, <1>5 DEF JobsInv, RunsKnow, Earned
<1> QED
  BY <1>8, <1>9, <1>10, <1>11, <1>12 DEF JobsInv
-----------------------------------------------------------------------------
\* The cleanup may save a version it read long ago.
LEMMA CleanupStep == ASSUME JobsInv, Cleanup PROVE JobsInv'
<1>1. CASE StartCleanup
  <2>1. /\ results' = results \ Expired
        /\ cleaning' = {[job |-> j, row |-> [jobs[j] EXCEPT !.status = "FAILED"]] :
                            j \in Stuck}
        /\ UNCHANGED <<now, jobs, stored, usage, caller, queue, run, unconfirmed, faults>>
    BY <1>1 DEF StartCleanup
  <2>2. Stuck \subseteq DOMAIN jobs /\ DOMAIN jobs \subseteq JobIds
        /\ \A j \in Stuck : jobs[j] \in JobRow
    BY JobsAreIds, ElementOfSeq DEF Stuck, JobsInv, TypeOK
  <2>3. \A j \in Stuck : /\ [jobs[j] EXCEPT !.status = "FAILED"] \in JobRow
                         /\ Earned(j, [jobs[j] EXCEPT !.status = "FAILED"])
    BY <2>2 DEF JobRow, Terminal, JobsInv, EarnedRows, Earned
  <2>4. /\ cleaning' \subseteq [job : JobIds, row : JobRow]
        /\ \A s \in cleaning' : Earned(s.job, s.row)
    BY <2>1, <2>2, <2>3
  <2>5. TypeOK'
    BY <2>1, <2>4 DEF JobsInv, TypeOK
  <2>6. EarnedRows'
    BY <2>1, <2>4 DEF JobsInv, EarnedRows, Earned
  <2>7. CallersKnow' /\ QueueKnows' /\ RunsKnow'
    BY <2>1 DEF JobsInv, CallersKnow, QueueKnows, RunsKnow, Earned
  <2> QED
    BY <2>5, <2>6, <2>7 DEF JobsInv
<1>2. CASE FailStuckJob
  <2>1. PICK s \in cleaning :
          /\ Save(s.job, s.row) /\ cleaning' = cleaning \ {s}
          /\ UNCHANGED <<now, results, stored, usage, caller, queue, run, unconfirmed, faults>>
    BY <1>2 DEF FailStuckJob
  <2>2. s.job \in JobIds /\ s.row \in JobRow /\ Earned(s.job, s.row)
    BY DEF JobsInv, TypeOK, EarnedRows
  <2>3. /\ jobs' \in Seq(JobRow) /\ Len(jobs') <= MaxJobs /\ DOMAIN jobs' = DOMAIN jobs
        /\ \A i \in DOMAIN jobs : jobs'[i] = IF i = s.job THEN s.row ELSE jobs[i]
    BY <2>1, <2>2, SaveRow DEF JobsInv
  <2>4. TypeOK'
    BY <2>1, <2>3 DEF JobsInv, TypeOK
  <2>5. EarnedRows'
    BY <2>1, <2>2, <2>3 DEF JobsInv, EarnedRows, Earned
  <2>6. CallersKnow' /\ QueueKnows' /\ RunsKnow'
    BY <2>1, <2>3 DEF JobsInv, CallersKnow, QueueKnows, RunsKnow, Earned
  <2> QED
    BY <2>4, <2>5, <2>6 DEF JobsInv
<1> QED
  BY <1>1, <1>2 DEF Cleanup

\* Time changes no row.
LEMMA TickStep == ASSUME JobsInv, Tick PROVE JobsInv'
<1>1. /\ now < MaxTime /\ now' = now + 1 /\ UNCHANGED <<jobs, work, caller, faults>>
  BY DEF Tick
<1>2. now' \in 0 .. MaxTime
  BY <1>1, AnalysisConstants DEF JobsInv, TypeOK
<1>3. UNCHANGED <<jobs, results, stored, usage, queue, run, cleaning, unconfirmed, caller, faults>>
  BY <1>1 DEF work
<1> QED
  BY <1>2, <1>3 DEF JobsInv, TypeOK, EarnedRows, CallersKnow, QueueKnows, RunsKnow, Earned

\* No row, call, run or result at first.
LEMMA InitJobs == Init => JobsInv
<1> SUFFICES ASSUME Init PROVE JobsInv
  OBVIOUS
<1>1. /\ jobs \in Seq(JobRow) /\ Len(jobs) = 0 /\ DOMAIN jobs = {}
  BY EmptySeq, LenProperties DEF Init
<1>2. NotCalling \in Caller /\ NotCalling.at = "idle"
  BY AnalysisConstants DEF NotCalling, Caller, Triggers
<1>3. NotRunning \in Run /\ NotRunning.at = "idle" /\ 0 \in 0 .. MaxTime
  <2>1. 0 \in 0 .. MaxTime /\ Week(0) = 0
    BY AnalysisConstants DEF Week
  <2>2. Len(Stages) \in Nat
    BY AnalysisConstants, LenProperties
  <2>3. 0 \in Weeks /\ 0 \in 0 .. Len(Stages)
    BY <2>1, <2>2, WeekOfTime
  <2> QED
    BY <2>1, <2>3 DEF NotRunning, Run, FreshUsage, UsageRow
<1>4. /\ [state |-> "none", made |-> 0, stalls |-> 0] \in QueueEntry
      /\ FreshUsage \in UsageRow /\ 0 < MaxAttempts
  BY AnalysisConstants DEF QueueEntry, FreshUsage, UsageRow
<1>5. TypeOK
  BY <1>1, <1>2, <1>3, <1>4, AnalysisConstants DEF Init, TypeOK
<1>6. EarnedRows /\ CallersKnow /\ RunsKnow
  BY <1>1, <1>2, <1>3 DEF Init, EarnedRows, CallersKnow, RunsKnow
<1>7. QueueKnows
  BY <1>4 DEF Init, QueueKnows
<1> QED
  BY <1>5, <1>6, <1>7 DEF JobsInv

\* One case per action of Next.
LEMMA NextJobs == JobsInv /\ [Next]_vars => JobsInv'
<1> SUFFICES ASSUME JobsInv, [Next]_vars PROVE JobsInv'
  OBVIOUS
<1>1. ASSUME NEW c \in Callers, StartRun(c) \/ Calling(c) \/ EnqueueFails(c)
      PROVE  JobsInv'
  BY <1>1, CallStep, SaveJobStep, EnqueueStep DEF Calling
<1>2. ASSUME NEW j \in JobIds, Working(j) PROVE JobsInv'
  BY <1>2, StageStep, QuietStep, SaveStep, StoreStep, CountStep, QueueStep DEF Working
<1>3. ASSUME NEW j \in JobIds, Failing(j) \/ Stalled(j) PROVE JobsInv'
  BY <1>3, QuietStep, StoreStep, CountStep, QueueStep DEF Failing
<1>4. CASE UNCHANGED vars
  BY <1>4 DEF vars, JobsInv, TypeOK, EarnedRows, CallersKnow, QueueKnows, RunsKnow, Earned
<1> QED
  BY <1>1, <1>2, <1>3, <1>4, CleanupStep, TickStep DEF Next

\* Rows are earned, and callers, queue and runs know what a step relies on, in
\* every state: the two theorems below are parts of it.
THEOREM JobsInvariant == Spec => []JobsInv
BY InitJobs, NextJobs, PTL DEF Spec

\* Every row, counter, queue entry, call and run has its type (the jobs' tables,
\* AnalysisService and the processor).
THEOREM JobsTyped == Spec => []TypeOK
<1>1. JobsInv => TypeOK
  BY DEF JobsInv
<1> QED
  BY JobsInvariant, <1>1, PTL

\* A job that reads COMPLETED has brought a result, however attempts, stalls,
\* failing statements and the cleanup's late saves run into each other.
THEOREM CompletedWork == Spec => []CompletedHasResult
<1>1. JobsInv => CompletedHasResult
  BY DEF JobsInv, EarnedRows, Earned, CompletedHasResult
<1> QED
  BY JobsInvariant, <1>1, PTL
-----------------------------------------------------------------------------
\* A result that is not counted yet: the last one of a run that will count it.
Uncounted(j) == stored[j] # <<>> /\ stored[j][Len(stored[j])] = Null

\* How many results were counted in each week.
Counts == [k \in Weeks |-> [manual |-> Cardinality(CountedIn(k, "MANUAL")),
                            auto |-> Cardinality(CountedIn(k, "AUTO"))]]

\* A usage row of a week, current or read long ago, counts no more results than
\* were counted in that week by now; and than after a step.
Within(u, week) == u.manual <= Counts[week].manual /\ u.auto <= Counts[week].auto
WithinNext(u, week) == u.manual <= Counts'[week].manual /\ u.auto <= Counts'[week].auto

RunCharged(j) ==
    run[j].at # "idle" =>
        /\ run[j].row.trigger = jobs[j].trigger
        /\ Within(run[j].seen, run[j].week)
        /\ run[j].at \in {"complete", "count", "counted"} => Uncounted(j)

RowsKnowTrigger ==
    \A s \in cleaning : s.job \in DOMAIN jobs /\ s.row.trigger = jobs[s.job].trigger

ChargeInv ==
    /\ \A k \in Weeks : Within(usage[k], k)
    /\ RowsKnowTrigger
    /\ \A j \in JobIds : RunCharged(j)

\* No job changes its trigger, no result is forgotten or counted again.
Keeps ==
    /\ \A i \in DOMAIN jobs : i \in DOMAIN jobs' /\ jobs'[i].trigger = jobs[i].trigger
    /\ \A i \in JobIds : \A n \in DOMAIN stored[i] :
            /\ n \in DOMAIN stored'[i]
            /\ stored[i][n] # Null => stored'[i][n] = stored[i][n]

\* The results that the jobs J had counted in week k, for any table of results.
Marked(J, st, k) == UNION {{j} \X {n \in DOMAIN st[j] : st[j][n] = k} : j \in J}

FiniteCounts == \A k, t : /\ IsFiniteSet(CountedIn(k, t))
                          /\ Cardinality(CountedIn(k, t)) \in Nat

\* Finitely many results of finitely many jobs.
LEMMA FinitelyMany ==
    ASSUME NEW J \in SUBSET JobIds, NEW st,
           \A j \in J : st[j] \in Seq(Weeks \cup {Null}), NEW k
    PROVE  IsFiniteSet(Marked(J, st, k)) /\ Cardinality(Marked(J, st, k)) \in Nat
<1> DEFINE Part(j) == {j} \X {n \in DOMAIN st[j] : st[j][n] = k}
           F == {Part(j) : j \in J}
           f == [j \in J |-> Part(j)]
<1>1. IsFiniteSet(J)
  <2>1. IsFiniteSet(JobIds)
    BY AnalysisConstants, FS_Interval DEF JobIds
  <2> QED
    BY <2>1, FS_Subset
<1>2. ASSUME NEW j \in J PROVE IsFiniteSet(Part(j))
  <2> DEFINE D == {n \in DOMAIN st[j] : st[j][n] = k}
  <2>1. st[j] \in Seq(Weeks \cup {Null})
    BY <1>2
  <2>2. DOMAIN st[j] = 1 .. Len(st[j]) /\ Len(st[j]) \in Nat
    BY <2>1, LenProperties
  <2>3. IsFiniteSet(1 .. Len(st[j])) /\ D \in SUBSET (1 .. Len(st[j]))
    BY <2>2, FS_Interval
  <2> HIDE DEF D
  <2>4. IsFiniteSet(D)
    BY <2>3, FS_Subset
  <2>5. IsFiniteSet({j}) /\ Part(j) = {j} \X D
    BY FS_Singleton DEF D
  <2> HIDE DEF Part
  <2> QED
    BY <2>4, <2>5, FS_Product
<1>3. f \in Surjection(J, F)
  BY DEF Surjection
<1>4. IsFiniteSet(F)
  <2> HIDE DEF f, F
  <2> QED
    BY <1>1, <1>3, FS_Surjection
<1>5. \A T \in F : IsFiniteSet(T)
  BY <1>2
<1>6. IsFiniteSet(UNION F)
  <2> HIDE DEF F
  <2> QED
    BY <1>4, <1>5, FS_UNION
<1>7. Marked(J, st, k) = UNION F
  BY DEF Marked
<1> HIDE DEF F
<1> QED
  BY <1>6, <1>7, FS_CardinalityType

LEMMA CountedFinite == TypeOK => FiniteCounts
<1> SUFFICES ASSUME TypeOK, NEW k, NEW t
             PROVE  IsFiniteSet(CountedIn(k, t)) /\ Cardinality(CountedIn(k, t)) \in Nat
  BY DEF FiniteCounts
<1> DEFINE J == {i \in DOMAIN jobs : jobs[i].trigger = t}
<1>1. J \in SUBSET JobIds /\ \A j \in J : stored[j] \in Seq(Weeks \cup {Null})
  BY JobsAreIds DEF TypeOK
<1>2. CountedIn(k, t) = Marked(J, stored, k)
  BY DEF CountedIn, Marked
<1> HIDE DEF J
<1> QED
  BY <1>1, <1>2, FinitelyMany

\* The same in the next state.
LEMMA CountedFiniteNext == TypeOK' => FiniteCounts'
BY CountedFinite, PTL

\* What is counted is exactly the marked results of the jobs with the trigger.
LEMMA CountedMembers ==
    \A k, t, p : p \in CountedIn(k, t) <=>
        \E j \in DOMAIN jobs : \E n \in DOMAIN stored[j] :
            p = <<j, n>> /\ jobs[j].trigger = t /\ stored[j][n] = k
BY DEF CountedIn

\* So what is counted stays counted, and a row that was right stays right.
LEMMA CountedGrows ==
    ASSUME TypeOK, TypeOK', Keeps, NEW k \in Weeks
    PROVE  /\ \A t : /\ CountedIn(k, t) \subseteq CountedIn(k, t)'
                     /\ Cardinality(CountedIn(k, t)) <= Cardinality(CountedIn(k, t)')
           /\ \A u \in UsageRow : Within(u, k) => WithinNext(u, k)
<1>1. k # Null
  BY AnalysisConstants DEF Weeks
<1>2. ASSUME NEW t
      PROVE  /\ CountedIn(k, t) \subseteq CountedIn(k, t)'
             /\ Cardinality(CountedIn(k, t)) <= Cardinality(CountedIn(k, t)')
             /\ Cardinality(CountedIn(k, t)) \in Nat
             /\ Cardinality(CountedIn(k, t)') \in Nat
  <2>1. DOMAIN jobs \subseteq JobIds
    BY JobsAreIds
  <2>2. ASSUME NEW j \in DOMAIN jobs, NEW n \in DOMAIN stored[j],
               jobs[j].trigger = t, stored[j][n] = k
        PROVE  /\ j \in DOMAIN jobs' /\ n \in DOMAIN stored'[j]
               /\ jobs'[j].trigger = t /\ stored'[j][n] = k
    BY <1>1, <2>1, <2>2 DEF Keeps
  <2>3. CountedIn(k, t) \subseteq CountedIn(k, t)'
    <3> SUFFICES ASSUME NEW p \in CountedIn(k, t) PROVE p \in CountedIn(k, t)'
      OBVIOUS
    <3>1. PICK j \in DOMAIN jobs : \E n \in DOMAIN stored[j] :
            p = <<j, n>> /\ jobs[j].trigger = t /\ stored[j][n] = k
      BY CountedMembers
    <3> QED
      BY <2>2, <3>1 DEF CountedIn
  <2>4. IsFiniteSet(CountedIn(k, t)') /\ Cardinality(CountedIn(k, t)') \in Nat
    BY CountedFiniteNext DEF FiniteCounts
  <2>5. Cardinality(CountedIn(k, t)) \in Nat
    BY CountedFinite DEF FiniteCounts
  <2>6. Cardinality(CountedIn(k, t)) <= Cardinality(CountedIn(k, t)')
    BY <2>3, <2>4, FS_Subset
  <2> QED
    BY <2>3, <2>4, <2>5, <2>6
<1>3. ASSUME NEW u \in UsageRow, Within(u, k) PROVE WithinNext(u, k)
  <2>1. u.manual \in Nat /\ u.auto \in Nat
    BY DEF UsageRow
  <2>2. /\ u.manual <= Cardinality(CountedIn(k, "MANUAL"))
        /\ u.auto <= Cardinality(CountedIn(k, "AUTO"))
    BY <1>3 DEF Within, Counts
  <2>3. /\ u.manual <= Cardinality(CountedIn(k, "MANUAL")')
        /\ u.auto <= Cardinality(CountedIn(k, "AUTO")')
    BY <1>2, <2>1, <2>2
  <2> QED
    BY <2>3 DEF WithinNext, Counts
<1> QED
  BY <1>2, <1>3

-----------------------------------------------------------------------------
\* What a run reads and holds is typed, and its row is in the table.
LEMMA RunFacts ==
    ASSUME JobsInv, ChargeInv, NEW j \in JobIds, run[j].at # "idle"
    PROVE  /\ j \in DOMAIN jobs /\ run[j].row.trigger = jobs[j].trigger
           /\ run[j].row \in JobRow /\ jobs[j] \in JobRow
           /\ run[j] \in Run /\ run \in [JobIds -> Run]
           /\ run[j].week \in Weeks /\ run[j].seen \in UsageRow
           /\ Within(run[j].seen, run[j].week)
<1>1. run[j] \in Run /\ run \in [JobIds -> Run] /\ jobs \in Seq(JobRow)
  BY DEF JobsInv, TypeOK
<1>2. j \in DOMAIN jobs
  BY DEF JobsInv, RunsKnow, QueueKnows
<1>3. jobs[j] \in JobRow
  BY <1>1, <1>2, JobsAreIds, ElementOfSeq DEF JobsInv
<1> QED
  BY <1>1, <1>2, <1>3 DEF Run, ChargeInv, RunCharged, JobsInv, RunsKnow

\* A step of one run keeps every other run's charge.
LEMMA OneCharge ==
    ASSUME JobsInv, JobsInv', ChargeInv, Keeps, NEW j \in JobIds,
           \A i \in JobIds \ {j} : run'[i] = run[i] /\ stored'[i] = stored[i],
           \A k \in Weeks : usage'[k] = usage[k] \/ WithinNext(usage'[k], k),
           cleaning' \subseteq cleaning, RunCharged(j)'
    PROVE  ChargeInv'
<1>0. TypeOK /\ TypeOK' /\ usage \in [Weeks -> UsageRow]
  BY DEF JobsInv, TypeOK
<1>1. ASSUME NEW k \in Weeks PROVE WithinNext(usage'[k], k)
  <2>1. usage[k] \in UsageRow /\ Within(usage[k], k)
    BY <1>0 DEF ChargeInv
  <2>2. Within(usage[k], k) => WithinNext(usage[k], k)
    BY <1>0, <2>1, CountedGrows
  <2> QED
    BY <2>1, <2>2
<1>2. RowsKnowTrigger'
  BY DEF ChargeInv, RowsKnowTrigger, Keeps
<1>3. ASSUME NEW i \in JobIds PROVE RunCharged(i)'
  <2>1. CASE i = j
    BY <2>1
  <2>2. CASE i # j
    <3> SUFFICES ASSUME run[i].at # "idle" PROVE RunCharged(i)'
      BY <2>2 DEF RunCharged
    <3>1. /\ i \in DOMAIN jobs /\ run[i].row.trigger = jobs[i].trigger
          /\ run[i].week \in Weeks /\ run[i].seen \in UsageRow
          /\ Within(run[i].seen, run[i].week)
      BY RunFacts
    <3>2. WithinNext(run[i].seen, run[i].week)
      BY <1>0, <3>1, CountedGrows
    <3>3. jobs'[i].trigger = jobs[i].trigger
      BY <3>1 DEF Keeps
    <3>4. run[i].at \in {"complete", "count", "counted"} => Uncounted(i)
      BY DEF ChargeInv, RunCharged
    <3> QED
      BY <2>2, <3>1, <3>2, <3>3, <3>4 DEF RunCharged, Uncounted, Within, WithinNext
  <2> QED
    BY <2>1, <2>2
<1> QED
  BY <1>1, <1>2, <1>3 DEF ChargeInv, Within, WithinNext

\* So does a step that changes no run, no result and no count.
LEMMA NoCharge ==
    ASSUME JobsInv, JobsInv', ChargeInv, UNCHANGED <<run, stored, usage>>,
           \A i \in DOMAIN jobs : i \in DOMAIN jobs' /\ jobs'[i].trigger = jobs[i].trigger,
           RowsKnowTrigger'
    PROVE  ChargeInv'
<1>0. TypeOK /\ TypeOK' /\ usage \in [Weeks -> UsageRow] /\ Keeps
  BY DEF JobsInv, TypeOK, Keeps
<1>1. ASSUME NEW k \in Weeks PROVE WithinNext(usage'[k], k)
  BY <1>0, CountedGrows DEF ChargeInv
<1>2. ASSUME NEW i \in JobIds PROVE RunCharged(i)'
  <2> SUFFICES ASSUME run[i].at # "idle" PROVE RunCharged(i)'
    BY DEF RunCharged
  <2>1. /\ i \in DOMAIN jobs /\ run[i].row.trigger = jobs[i].trigger
        /\ run[i].week \in Weeks /\ run[i].seen \in UsageRow
        /\ Within(run[i].seen, run[i].week)
    BY RunFacts
  <2>2. WithinNext(run[i].seen, run[i].week)
    BY <1>0, <2>1, CountedGrows
  <2>3. run[i].at \in {"complete", "count", "counted"} => Uncounted(i)
    BY DEF ChargeInv, RunCharged
  <2> QED
    BY <2>1, <2>2, <2>3 DEF RunCharged, Uncounted, WithinNext, Within
<1> QED
  BY <1>1, <1>2 DEF ChargeInv, Within, WithinNext

\* A row saved keeps the trigger of the row it replaces.
LEMMA SaveKeepsTrigger ==
    ASSUME JobsInv, NEW j \in DOMAIN jobs, NEW row \in JobRow, Save(j, row),
           row.trigger = jobs[j].trigger
    PROVE  \A i \in DOMAIN jobs : i \in DOMAIN jobs' /\ jobs'[i].trigger = jobs[i].trigger
<1>1. j \in JobIds
  BY JobsAreIds DEF JobsInv
<1> QED
  BY <1>1, SaveRow DEF JobsInv

\* Calls, the cleanup and time change no count.
LEMMA OutsideCharge ==
    ASSUME JobsInv, JobsInv', ChargeInv,
           \/ \E c \in Callers : StartRun(c) \/ Calling(c) \/ EnqueueFails(c)
           \/ Cleanup \/ Tick
    PROVE  ChargeInv'
<1>1. UNCHANGED <<run, stored, usage>>
  BY DEF StartRun, Calling, EnqueueFails, LookForResult, LookForJob, SaveJob, Enqueue,
         Cleanup, StartCleanup, FailStuckJob, Tick, work
<1>2. CASE UNCHANGED <<jobs, cleaning>>
  BY <1>1, <1>2, NoCharge DEF ChargeInv, RowsKnowTrigger
<1>3. ASSUME NEW c \in Callers, SaveJob(c) PROVE ChargeInv'
  <2>1. PICK row : jobs' = Append(jobs, row) /\ UNCHANGED cleaning
    BY <1>3 DEF SaveJob, work
  <2>2. /\ jobs \in Seq(JobRow) /\ jobs' \in Seq(JobRow)
        /\ DOMAIN jobs = 1 .. Len(jobs) /\ DOMAIN jobs' = 1 .. Len(jobs')
        /\ Len(jobs) \in Nat
    BY LenProperties DEF JobsInv, TypeOK
  <2>3. \A i \in DOMAIN jobs : i \in DOMAIN jobs' /\ jobs'[i] = jobs[i]
    BY <2>1, <2>2
  <2>4. RowsKnowTrigger'
    BY <2>1, <2>3 DEF ChargeInv, RowsKnowTrigger
  <2> QED
    BY <1>1, <2>3, <2>4, NoCharge
<1>4. CASE StartCleanup
  <2>1. /\ cleaning' = {[job |-> j, row |-> [jobs[j] EXCEPT !.status = "FAILED"]] :
                            j \in Stuck}
        /\ UNCHANGED jobs
    BY <1>4 DEF StartCleanup
  <2>2. \A j \in Stuck : j \in DOMAIN jobs /\ jobs[j] \in JobRow
    BY JobsAreIds, ElementOfSeq DEF Stuck, JobsInv, TypeOK
  <2>3. \A j \in Stuck : [jobs[j] EXCEPT !.status = "FAILED"].trigger = jobs[j].trigger
    BY <2>2 DEF JobRow
  <2>4. RowsKnowTrigger'
    <3> SUFFICES ASSUME NEW s \in cleaning'
                 PROVE  s.job \in DOMAIN jobs' /\ s.row.trigger = jobs'[s.job].trigger
      BY DEF RowsKnowTrigger
    <3>1. PICK j \in Stuck : s = [job |-> j, row |-> [jobs[j] EXCEPT !.status = "FAILED"]]
      BY <2>1
    <3> QED
      BY <2>1, <2>2, <2>3, <3>1
  <2> QED
    BY <1>1, <2>1, <2>4, NoCharge
<1>5. CASE FailStuckJob
  <2>1. PICK s \in cleaning : Save(s.job, s.row) /\ cleaning' = cleaning \ {s}
    BY <1>5 DEF FailStuckJob
  <2>2. /\ s.row \in JobRow /\ s.job \in DOMAIN jobs
        /\ s.row.trigger = jobs[s.job].trigger
    BY DEF JobsInv, TypeOK, ChargeInv, RowsKnowTrigger
  <2>3. \A i \in DOMAIN jobs : i \in DOMAIN jobs' /\ jobs'[i].trigger = jobs[i].trigger
    BY <2>1, <2>2, SaveKeepsTrigger
  <2>4. RowsKnowTrigger'
    BY <2>1, <2>3 DEF ChargeInv, RowsKnowTrigger
  <2> QED
    BY <1>1, <2>3, <2>4, NoCharge
<1> QED
  BY <1>2, <1>3, <1>4, <1>5 DEF StartRun, Calling, EnqueueFails, LookForResult, LookForJob,
     Enqueue, Cleanup, Tick, work

\* Steps of a run that store nothing and count nothing: what it has read of the
\* usage is what it had, or the row as it is now.
LEMMA RunStepCharge ==
    ASSUME JobsInv, JobsInv', ChargeInv, NEW j \in JobIds,
           \/ UpdateStage(j) \/ AskOpenAI(j) \/ SaveTokens(j) \/ Complete(j)
           \/ StartCount(j) \/ StartCost(j) \/ SaveFailed(j)
           \/ AnswerUnusable(j) \/ Throws(j) \/ CatchThrows(j)
    PROVE  ChargeInv'
<1>1. /\ run[j].at # "idle"
      /\ UNCHANGED <<now, stored, usage, cleaning>>
  BY DEF UpdateStage, AskOpenAI, SaveTokens, Complete, StartCount, StartCost, ReadUsage,
     SaveFailed, AnswerUnusable, Throws, CatchThrows, TrySteps, CatchSteps, asking
<1>2. /\ j \in DOMAIN jobs /\ run[j].row.trigger = jobs[j].trigger
      /\ run[j].row \in JobRow /\ jobs[j] \in JobRow
      /\ run[j] \in Run /\ run \in [JobIds -> Run]
      /\ run[j].week \in Weeks /\ run[j].seen \in UsageRow
      /\ Within(run[j].seen, run[j].week)
  BY <1>1, RunFacts
<1>3. Week(now) \in Weeks /\ usage[Week(now)] \in UsageRow /\ Within(usage[Week(now)], Week(now))
  BY WeekOfTime DEF JobsInv, TypeOK, ChargeInv
<1> DEFINE Moved ==
        /\ \A i \in JobIds \ {j} : run'[i] = run[i]
        /\ run'[j].row.trigger = run[j].row.trigger
        /\ \/ run'[j].week = run[j].week /\ run'[j].seen = run[j].seen
           \/ run'[j].week = Week(now) /\ run'[j].seen = usage[Week(now)]
        /\ run'[j].at \in {"complete", "count", "counted"} =>
              run[j].at \in {"complete", "count", "counted"}
        /\ UNCHANGED jobs \/ \E row \in JobRow : row.trigger = jobs[j].trigger /\ Save(j, row)
<1>4. Moved
  <2>1. CASE UpdateStage(j)
    <3> DEFINE n == run[j].stage + 1
               row == [run[j].row EXCEPT !.status = Stages[n]]
    <3>1. /\ run[j].at = "stage" /\ Save(j, row)
          /\ run' = [run EXCEPT ![j].row = row, ![j].stage = n,
                        ![j].at = IF n = Len(Stages) THEN "ask" ELSE @]
      BY <2>1 DEF UpdateStage
    <3>2. row \in JobRow /\ row.trigger = run[j].row.trigger
      <4>1. run'[j] \in Run /\ run'[j].row = row
        BY <1>2, <3>1 DEF JobsInv, TypeOK, Run
      <4>2. run'[j].at # "idle"
        BY <1>2, <3>1 DEF Run
      <4>3. row \in JobRow
        BY <4>1, <4>2 DEF JobsInv, RunsKnow
      <4> QED
        BY <4>3, <1>2 DEF JobRow
    <3> HIDE DEF row, n
    <3> QED
      BY <1>2, <3>1, <3>2 DEF Run
  <2>2. CASE AskOpenAI(j)
    <3>1. /\ run[j].at = "ask" /\ UNCHANGED jobs
          /\ run' = [run EXCEPT ![j].row.paid = TRUE, ![j].at = "tokens"]
      BY <2>2 DEF AskOpenAI
    <3>2. run'[j] = [run[j] EXCEPT !.row = [run[j].row EXCEPT !.paid = TRUE], !.at = "tokens"]
      BY <1>2, <3>1 DEF Run, JobRow
    <3>3. \A i \in JobIds \ {j} : run'[i] = run[i]
      BY <1>2, <3>1
    <3> QED
      BY <1>2, <3>1, <3>2, <3>3 DEF Run, JobRow
  <2>3. CASE SaveTokens(j) \/ Complete(j)
    <3>1. /\ Save(j, run[j].row)
          /\ \/ run[j].at = "tokens" /\ At(j, "store")
             \/ run[j].at = "complete" /\ At(j, "count")
      BY <2>3 DEF SaveTokens, Complete
    <3> QED
      BY <1>2, <3>1 DEF At, Run
  <2>4. CASE SaveFailed(j)
    <3> DEFINE row == [run[j].row EXCEPT !.status = "FAILED"]
    <3>1. row \in JobRow /\ row.trigger = run[j].row.trigger
      BY <1>2 DEF JobRow, Terminal
    <3>2. /\ Save(j, row)
          /\ run' = [run EXCEPT ![j].row = row,
                        ![j].at = IF row.paid THEN "cost" ELSE "throw"]
      BY <2>4 DEF SaveFailed
    <3> HIDE DEF row
    <3> QED
      BY <1>2, <3>1, <3>2 DEF Run
  <2>5. CASE StartCount(j) \/ StartCost(j)
    <3>1. /\ UNCHANGED jobs
          /\ \E to \in {"counted", "costed"} :
                /\ run[j].at = "count" \/ to = "costed"
                /\ run' = [run EXCEPT ![j].at = to, ![j].week = Week(now),
                                ![j].seen = usage[Week(now)]]
      BY <2>5 DEF StartCount, StartCost, ReadUsage
    <3> HIDE DEF Week
    <3> QED
      BY <1>2, <3>1 DEF Run
  <2>6. CASE AnswerUnusable(j) \/ Throws(j) \/ CatchThrows(j)
    <3>1. UNCHANGED jobs /\ \E step \in {"catch", "throw"} : At(j, step)
      BY <2>6 DEF AnswerUnusable, Throws, CatchThrows
    <3> QED
      BY <1>2, <3>1 DEF At, Run
  <2> QED
    BY <2>1, <2>2, <2>3, <2>4, <2>5, <2>6
<1> HIDE DEF Moved, Week
<1>5. \A i \in DOMAIN jobs : i \in DOMAIN jobs' /\ jobs'[i].trigger = jobs[i].trigger
  BY <1>2, <1>4, SaveKeepsTrigger DEF Moved
<1>6. Keeps
  BY <1>1, <1>5 DEF Keeps
<1>7. RunCharged(j)'
  <2>1. /\ WithinNext(run[j].seen, run[j].week)
        /\ WithinNext(usage[Week(now)], Week(now))
    BY <1>2, <1>3, <1>6, CountedGrows DEF JobsInv
  <2>2. WithinNext(run'[j].seen, run'[j].week)
    BY <1>4, <2>1 DEF Moved
  <2>3. run'[j].at \in {"complete", "count", "counted"} => Uncounted(j)'
    <3>1. run[j].at \in {"complete", "count", "counted"} => Uncounted(j)
      BY <1>1 DEF ChargeInv, RunCharged
    <3> QED
      BY <1>1, <1>4, <3>1 DEF Moved, Uncounted
  <2>4. run'[j].row.trigger = jobs'[j].trigger
    BY <1>2, <1>4, <1>5 DEF Moved
  <2>5. Within(run[j].seen, run[j].week)'
    BY <2>2 DEF Within, WithinNext
  <2> QED
    BY <2>3, <2>4, <2>5 DEF RunCharged
<1>8. \A i \in JobIds \ {j} : run'[i] = run[i] /\ stored'[i] = stored[i]
  BY <1>1, <1>4 DEF Moved
<1> QED
  BY <1>1, <1>6, <1>7, <1>8, OneCharge

\* A stored result is not counted, so it may be counted once.
LEMMA StoreCharge ==
    ASSUME JobsInv, JobsInv', ChargeInv, NEW j \in JobIds,
           StoreResult(j) \/ StoredUnconfirmed(j)
    PROVE  ChargeInv'
<1>1. /\ run[j].at # "idle" /\ Insert(j)
      /\ UNCHANGED <<jobs, usage, cleaning>>
  BY DEF StoreResult, StoredUnconfirmed, asking
<1>2. /\ j \in DOMAIN jobs /\ run[j].row.trigger = jobs[j].trigger
      /\ run[j].row \in JobRow
      /\ run[j] \in Run /\ run \in [JobIds -> Run]
      /\ run[j].week \in Weeks /\ run[j].seen \in UsageRow
      /\ Within(run[j].seen, run[j].week)
  BY <1>1, RunFacts
<1>3. stored \in [JobIds -> Seq(Weeks \cup {Null})]
  BY DEF JobsInv, TypeOK
<1>4. /\ stored' \in [JobIds -> Seq(Weeks \cup {Null})]
      /\ Uncounted(j)'
      /\ Len(stored'[j]) = Len(stored[j]) + 1
      /\ \A n \in 1 .. Len(stored[j]) : stored'[j][n] = stored[j][n]
      /\ \A i \in JobIds \ {j} : stored'[i] = stored[i]
  BY <1>1, <1>3, InsertKeeps DEF Uncounted
<1>5. Keeps
  <2>1. \A i \in JobIds : /\ DOMAIN stored[i] = 1 .. Len(stored[i]) /\ Len(stored[i]) \in Nat
                          /\ DOMAIN stored'[i] = 1 .. Len(stored'[i])
    BY <1>3, <1>4, LenProperties
  <2>2. \A n \in DOMAIN stored[j] : n \in DOMAIN stored'[j]
    BY <1>4, <2>1
  <2> QED
    BY <1>1, <1>4, <2>1, <2>2 DEF Keeps
<1>6. /\ \A i \in JobIds \ {j} : run'[i] = run[i]
      /\ run'[j].row.trigger = run[j].row.trigger
      /\ run'[j].week = run[j].week /\ run'[j].seen = run[j].seen
  <2>1. CASE StoreResult(j)
    <3> DEFINE row == [run[j].row EXCEPT !.result = TRUE, !.status = "COMPLETED"]
    <3>1. row.trigger = run[j].row.trigger
      BY <1>2 DEF JobRow
    <3>2. run' = [run EXCEPT ![j].at = "complete", ![j].row = row]
      BY <2>1, <1>2 DEF StoreResult, Run, JobRow
    <3> HIDE DEF row
    <3> QED
      BY <1>2, <3>1, <3>2 DEF Run
  <2>2. CASE StoredUnconfirmed(j)
    BY <2>2, <1>2 DEF StoredUnconfirmed, At, Run
  <2> QED
    BY <2>1, <2>2
<1>7. RunCharged(j)'
  <2>1. WithinNext(run[j].seen, run[j].week)
    BY <1>2, <1>5, CountedGrows DEF JobsInv
  <2>2. Within(run[j].seen, run[j].week)'
    BY <1>6, <2>1 DEF Within, WithinNext
  <2> QED
    BY <1>1, <1>2, <1>4, <1>6, <2>2 DEF RunCharged
<1> QED
  BY <1>1, <1>4, <1>5, <1>6, <1>7, OneCharge

\* A count marks the run's result, which was not marked: one more is counted in
\* the week, of the run's trigger, and the row saved says at most one more.
LEMMA MarkCharge ==
    ASSUME JobsInv, JobsInv', ChargeInv, NEW j \in JobIds,
           run[j].at = "counted", SaveCount(j), UNCHANGED jobs
    PROVE  /\ Keeps
           /\ WithinNext(Counted(j), run[j].week)
<1>1. /\ j \in DOMAIN jobs /\ run[j].row.trigger = jobs[j].trigger
      /\ run[j].row \in JobRow
      /\ run[j].week \in Weeks /\ run[j].seen \in UsageRow
      /\ Within(run[j].seen, run[j].week)
  BY RunFacts
<1>2. stored \in [JobIds -> Seq(Weeks \cup {Null})] /\ Uncounted(j)
  BY DEF JobsInv, TypeOK, ChargeInv, RunCharged
<1>3. PICK k \in Weeks, t \in Triggers, last \in Nat :
        k = run[j].week /\ t = run[j].row.trigger /\ last = Len(stored[j])
  BY <1>1, <1>2, LenProperties DEF JobRow
<1>4. /\ stored' \in [JobIds -> Seq(Weeks \cup {Null})]
      /\ Len(stored'[j]) = last
      /\ \A n \in 1 .. last : stored'[j][n] = IF n = last THEN k ELSE stored[j][n]
      /\ \A i \in JobIds \ {j} : stored'[i] = stored[i]
  BY <1>1, <1>2, <1>3, MarkKeeps
<1>5. /\ \A i \in JobIds : DOMAIN stored[i] = 1 .. Len(stored[i])
      /\ DOMAIN stored'[j] = 1 .. last
      /\ last \in 1 .. last
  <2>1. \A i \in JobIds : /\ DOMAIN stored[i] = 1 .. Len(stored[i]) /\ Len(stored[i]) \in Nat
                          /\ DOMAIN stored'[i] = 1 .. Len(stored'[i])
    BY <1>2, <1>4, LenProperties
  <2>2. last # 0
    BY <1>2, <1>3, EmptySeq, LenProperties DEF Uncounted
  <2> QED
    BY <1>4, <1>3, <2>1, <2>2
<1>6. stored[j][last] = Null /\ stored'[j][last] = k /\ k # Null
  <2>1. k # Null
    BY AnalysisConstants DEF Weeks
  <2> QED
    BY <1>2, <1>4, <1>5, <1>3, <2>1 DEF Uncounted
<1>7. Keeps
  <2>1. ASSUME NEW n \in DOMAIN stored[j]
        PROVE  /\ n \in DOMAIN stored'[j]
               /\ stored[j][n] # Null => stored'[j][n] = stored[j][n]
    BY <1>4, <1>5, <1>6, <1>3
  <2> QED
    BY <1>4, <2>1 DEF Keeps
<1>8. <<j, last>> \in CountedIn(k, t)' /\ <<j, last>> \notin CountedIn(k, t)
  <2>1. <<j, last>> \in CountedIn(k, t)'
    BY <1>1, <1>5, <1>6, <1>3 DEF CountedIn
  <2>2. <<j, last>> \notin CountedIn(k, t)
    <3> SUFFICES ASSUME <<j, last>> \in CountedIn(k, t) PROVE FALSE
      OBVIOUS
    <3>1. PICK i \in DOMAIN jobs : \E n \in DOMAIN stored[i] :
            <<j, last>> = <<i, n>> /\ stored[i][n] = k
      BY CountedMembers
    <3> QED
      BY <1>6, <3>1
  <2> QED
    BY <2>1, <2>2
<1>9. TypeOK /\ TypeOK' /\ k \in Weeks
  BY DEF JobsInv
<1>10. Cardinality(CountedIn(k, t)') >= Cardinality(CountedIn(k, t)) + 1
  <2>1. /\ IsFiniteSet(CountedIn(k, t)) /\ IsFiniteSet(CountedIn(k, t)')
        /\ Cardinality(CountedIn(k, t)) \in Nat /\ Cardinality(CountedIn(k, t)') \in Nat
    BY <1>9, CountedFinite, CountedFiniteNext DEF FiniteCounts
  <2>2. CountedIn(k, t) \cup {<<j, last>>} \in SUBSET CountedIn(k, t)'
    BY <1>7, <1>8, <1>9, CountedGrows
  <2>3. Cardinality(CountedIn(k, t) \cup {<<j, last>>}) = Cardinality(CountedIn(k, t)) + 1
    BY <1>8, <2>1, FS_AddElement
  <2>4. Cardinality(CountedIn(k, t) \cup {<<j, last>>}) <= Cardinality(CountedIn(k, t)')
    BY <2>1, <2>2, FS_Subset
  <2> QED
    BY <2>1, <2>3, <2>4
<1>11. WithinNext(run[j].seen, k)
  BY <1>1, <1>7, <1>9, <1>3, CountedGrows
<1>12. /\ run[j].seen.manual <= Counts[k].manual /\ run[j].seen.auto <= Counts[k].auto
       /\ run[j].seen.manual \in Nat /\ run[j].seen.auto \in Nat
       /\ Counts[k].manual = Cardinality(CountedIn(k, "MANUAL"))
       /\ Counts[k].auto = Cardinality(CountedIn(k, "AUTO"))
       /\ Counts'[k].manual = Cardinality(CountedIn(k, "MANUAL")')
       /\ Counts'[k].auto = Cardinality(CountedIn(k, "AUTO")')
  BY <1>1, <1>3 DEF Within, UsageRow, Counts
<1>13. \A x : Cardinality(CountedIn(k, x)) \in Nat /\ Cardinality(CountedIn(k, x)') \in Nat
  BY <1>9, CountedFinite, CountedFiniteNext DEF FiniteCounts
<1>14. WithinNext(Counted(j), k)
  <2>1. CASE t = "MANUAL"
    <3>1. Counted(j).manual = run[j].seen.manual + 1 /\ Counted(j).auto = run[j].seen.auto
      BY <1>1, <1>3, <2>1 DEF Counted, UsageRow
    <3>2. Counted(j).manual <= Counts'[k].manual
      BY <1>10, <1>12, <1>13, <2>1, <3>1
    <3> QED
      BY <1>11, <3>1, <3>2 DEF WithinNext
  <2>2. CASE t # "MANUAL"
    <3>1. Counted(j).manual = run[j].seen.manual /\ Counted(j).auto = run[j].seen.auto + 1
      BY <1>1, <1>3, <2>2 DEF Counted, UsageRow
    <3>2. t = "AUTO"
      BY <2>2 DEF Triggers
    <3>3. Counted(j).auto <= Counts'[k].auto
      BY <1>10, <1>12, <1>13, <3>1, <3>2
    <3> QED
      BY <1>11, <3>1, <3>3 DEF WithinNext
  <2> QED
    BY <2>1, <2>2
<1> QED
  BY <1>7, <1>14, <1>3

\* A run that has read no usage counts nothing, in the first week.
LEMMA NothingCounted == ASSUME TypeOK' PROVE WithinNext(FreshUsage, 0)
<1>1. 0 \in Weeks
  <2>1. 0 \in 0 .. MaxTime /\ Week(0) = 0
    BY AnalysisConstants DEF Week
  <2> QED
    BY <2>1, WeekOfTime
<1>2. /\ Counts'[0].manual \in Nat
      /\ Counts'[0].auto \in Nat
  BY <1>1, CountedFiniteNext DEF Counts, FiniteCounts
<1> QED
  BY <1>2 DEF WithinNext, FreshUsage

\* recordFailedJobCost saves a row read before, which counts no more by now.
LEMMA CountCharge ==
    ASSUME JobsInv, JobsInv', ChargeInv, NEW j \in JobIds,
           IncrementUsage(j) \/ CountedUnconfirmed(j) \/ RecordCost(j)
    PROVE  ChargeInv'
<1>1. /\ run[j].at # "idle" /\ UNCHANGED <<jobs, cleaning>>
      /\ \E step \in {"return", "catch", "throw"} : Done(j, step)
  BY DEF IncrementUsage, CountedUnconfirmed, RecordCost, asking
<1>2. /\ j \in DOMAIN jobs /\ run[j].row.trigger = jobs[j].trigger
      /\ run[j] \in Run /\ run \in [JobIds -> Run]
      /\ run[j].week \in Weeks /\ run[j].seen \in UsageRow
      /\ Within(run[j].seen, run[j].week)
  BY <1>1, RunFacts
<1>3. /\ stored \in [JobIds -> Seq(Weeks \cup {Null})] /\ usage \in [Weeks -> UsageRow]
      /\ TypeOK /\ TypeOK'
  BY DEF JobsInv, TypeOK
<1>4. PICK u \in {Counted(j), run[j].seen} :
        /\ usage' = [usage EXCEPT ![run[j].week] = u]
        /\ Keeps /\ WithinNext(u, run[j].week)
        /\ \A i \in JobIds \ {j} : stored'[i] = stored[i]
  <2>1. CASE IncrementUsage(j) \/ CountedUnconfirmed(j)
    <3>1. run[j].at = "counted" /\ SaveCount(j)
      BY <2>1 DEF IncrementUsage, CountedUnconfirmed
    <3>2. usage' = [usage EXCEPT ![run[j].week] = Counted(j)]
      BY <3>1 DEF SaveCount
    <3>3. \A i \in JobIds \ {j} : stored'[i] = stored[i]
      BY <1>2, <1>3, <3>1, MarkKeeps
    <3>4. Keeps /\ WithinNext(Counted(j), run[j].week)
      BY <1>1, <3>1, MarkCharge
    <3> QED
      BY <3>2, <3>3, <3>4
  <2>2. CASE RecordCost(j)
    <3>1. usage' = [usage EXCEPT ![run[j].week] = run[j].seen] /\ UNCHANGED stored
      BY <2>2 DEF RecordCost
    <3>2. Keeps
      BY <1>1, <3>1 DEF Keeps
    <3>3. WithinNext(run[j].seen, run[j].week)
      BY <1>2, <1>3, <3>2, CountedGrows
    <3> QED
      BY <3>1, <3>2, <3>3
  <2> QED
    BY <2>1, <2>2
<1>5. \A k \in Weeks : usage'[k] = usage[k] \/ WithinNext(usage'[k], k)
  BY <1>2, <1>3, <1>4
<1>6. /\ \A i \in JobIds \ {j} : run'[i] = run[i]
      /\ run'[j].row.trigger = run[j].row.trigger
      /\ run'[j].week = 0 /\ run'[j].seen = FreshUsage
      /\ run'[j].at \in {"return", "catch", "throw"}
  BY <1>1, <1>2 DEF Done, Run
<1>7. RunCharged(j)'
  <2>1. WithinNext(FreshUsage, 0)
    BY <1>3, NothingCounted
  <2> QED
    BY <1>1, <1>2, <1>6, <2>1 DEF RunCharged, Within, WithinNext
<1> QED
  BY <1>1, <1>4, <1>5, <1>6, <1>7, OneCharge

\* Bull starts and ends runs.
LEMMA QueueCharge ==
    ASSUME JobsInv, JobsInv', ChargeInv, NEW j \in JobIds,
           \/ Take(j) \/ JobReturns(j) \/ JobThrows(j) \/ WorkerDies(j) \/ Stalled(j)
    PROVE  ChargeInv'
<1>1. UNCHANGED <<jobs, stored, usage, cleaning>>
  BY DEF Take, JobReturns, JobThrows, WorkerDies, Stalled, asking, tables
<1>2. Keeps
  BY <1>1 DEF Keeps
<1>3. run \in [JobIds -> Run] /\ TypeOK'
  BY DEF JobsInv, TypeOK
<1>4. \A i \in JobIds \ {j} : run'[i] = run[i]
  BY <1>3 DEF Take, JobReturns, JobThrows, WorkerDies, Stalled, Idle
<1>5. RunCharged(j)'
  <2>1. CASE Take(j)
    <3>1. /\ run'[j].row = jobs[j] /\ run'[j].week = 0 /\ run'[j].seen = FreshUsage
          /\ run'[j].at = "stage"
      BY <1>3, <2>1 DEF Take, NotRunning
    <3>2. WithinNext(FreshUsage, 0)
      BY <1>3, NothingCounted
    <3> QED
      BY <1>1, <3>1, <3>2 DEF RunCharged, Within, WithinNext
  <2>2. CASE JobReturns(j) \/ JobThrows(j) \/ WorkerDies(j)
    <3>1. run'[j].at = "idle"
      BY <1>3, <2>2 DEF JobReturns, JobThrows, WorkerDies, Idle, NotRunning
    <3> QED
      BY <3>1 DEF RunCharged
  <2>3. CASE Stalled(j)
    <3>1. run'[j].at = "idle"
      BY <2>3 DEF Stalled
    <3> QED
      BY <3>1 DEF RunCharged
  <2> QED
    BY <2>1, <2>2, <2>3
<1> QED
  BY <1>1, <1>2, <1>4, <1>5, OneCharge

\* Nothing is counted at first.
LEMMA InitCharge == Init => ChargeInv
<1> SUFFICES ASSUME Init PROVE ChargeInv
  OBVIOUS
<1>1. TypeOK /\ MaxTime \in Nat /\ WeekLength \in Nat \ {0}
  BY InitJobs, AnalysisConstants DEF JobsInv
<1>2. \A k \in Weeks : Within(usage[k], k)
  BY <1>1, CountedFinite DEF Init, FreshUsage, Within, Counts, FiniteCounts
<1>3. RowsKnowTrigger /\ \A j \in JobIds : RunCharged(j)
  BY DEF Init, RowsKnowTrigger, RunCharged, NotRunning
<1> QED
  BY <1>2, <1>3 DEF ChargeInv

\* One case per action of Next.
LEMMA NextCharge == JobsInv /\ JobsInv' /\ ChargeInv /\ [Next]_vars => ChargeInv'
<1> SUFFICES ASSUME JobsInv, JobsInv', ChargeInv, [Next]_vars PROVE ChargeInv'
  OBVIOUS
<1>1. ASSUME NEW j \in JobIds, Working(j) \/ Failing(j) \/ Stalled(j) PROVE ChargeInv'
  BY <1>1, RunStepCharge, StoreCharge, CountCharge, QueueCharge DEF Working, Failing
<1>2. CASE UNCHANGED vars
  BY <1>2, NoCharge DEF vars, ChargeInv, RowsKnowTrigger
<1> QED
  BY <1>1, <1>2, OutsideCharge DEF Next

\* Counters, in the table or read by a run, never say more than was counted, and
\* a run about to count has a result that is not: the next theorem is part of it.
THEOREM ChargeInvariant == Spec => []ChargeInv
BY JobsInvariant, InitCharge, NextCharge, PTL DEF Spec

-----------------------------------------------------------------------------
\* What a job may have been charged for beyond its stalls and the counts
\* reported as failed: one, once its run returns, is dead or is over.
Slack(j) == IF \/ run[j].at = "return" \/ queue[j].state = "over"
               \/ queue[j].state = "active" /\ run[j].at = "idle"
            THEN 1 ELSE 0
Borne(j) == Cardinality(Charges(j)) <= queue[j].stalls + unconfirmed[j] + Slack(j)
AllBorne == \A j \in JobIds : Borne(j)

Numbers(j) ==
    /\ IsFiniteSet(Charges(j)) /\ Cardinality(Charges(j)) \in Nat
    /\ queue[j].stalls \in Nat /\ unconfirmed[j] \in Nat /\ Slack(j) \in {0, 1}
AllNumbers == \A j \in JobIds : Numbers(j)

\* They are numbers, now and after a step.
LEMMA NumbersOf == TypeOK => AllNumbers
<1> SUFFICES ASSUME TypeOK, NEW j \in JobIds PROVE Numbers(j)
  BY DEF AllNumbers
<1>1. stored[j] \in Seq(Weeks \cup {Null}) /\ queue[j] \in QueueEntry
  BY DEF TypeOK
<1>2. DOMAIN stored[j] = 1 .. Len(stored[j]) /\ Len(stored[j]) \in Nat
  BY <1>1, LenProperties
<1>3. IsFiniteSet(1 .. Len(stored[j])) /\ Charges(j) \in SUBSET (1 .. Len(stored[j]))
  BY <1>2, FS_Interval DEF Charges
<1>4. IsFiniteSet(Charges(j)) /\ Cardinality(Charges(j)) \in Nat
  BY <1>3, FS_Subset, FS_CardinalityType
<1>5. queue[j].stalls \in Nat
  BY <1>1, AnalysisConstants DEF QueueEntry
<1> QED
  BY <1>4, <1>5 DEF TypeOK, Slack, Numbers

LEMMA NumbersNext == TypeOK' => AllNumbers'
BY NumbersOf, PTL

\* A result that is stored is charged to nobody yet.
LEMMA InsertCharges ==
    ASSUME TypeOK, NEW j \in JobIds, Insert(j) PROVE Charges(j)' = Charges(j)
<1>1. stored \in [JobIds -> Seq(Weeks \cup {Null})]
  BY DEF TypeOK
<1>2. /\ stored' \in [JobIds -> Seq(Weeks \cup {Null})]
      /\ stored'[j][Len(stored'[j])] = Null
      /\ Len(stored'[j]) = Len(stored[j]) + 1
      /\ \A n \in 1 .. Len(stored[j]) : stored'[j][n] = stored[j][n]
  BY <1>1, InsertKeeps
<1>3. /\ DOMAIN stored[j] = 1 .. Len(stored[j]) /\ Len(stored[j]) \in Nat
      /\ DOMAIN stored'[j] = 1 .. Len(stored'[j])
  BY <1>1, <1>2, LenProperties
<1>4. \A n : n \in 1 .. Len(stored'[j]) <=>
               n \in 1 .. Len(stored[j]) \/ n = Len(stored'[j])
  BY <1>2, <1>3
<1> QED
  BY <1>2, <1>3, <1>4 DEF Charges

\* A count charges one result more, at most.
LEMMA CountCharges ==
    ASSUME TypeOK, TypeOK', NEW j \in JobIds, run[j].week \in Weeks, SaveCount(j)
    PROVE  Cardinality(Charges(j)') <= Cardinality(Charges(j)) + 1
<1>1. stored \in [JobIds -> Seq(Weeks \cup {Null})]
  BY DEF TypeOK
<1>2. /\ stored' \in [JobIds -> Seq(Weeks \cup {Null})]
      /\ Len(stored'[j]) = Len(stored[j])
      /\ \A n \in 1 .. Len(stored[j]) :
            stored'[j][n] = IF n = Len(stored[j]) THEN run[j].week ELSE stored[j][n]
  BY <1>1, MarkKeeps
<1>3. /\ DOMAIN stored[j] = 1 .. Len(stored[j]) /\ Len(stored[j]) \in Nat
      /\ DOMAIN stored'[j] = 1 .. Len(stored'[j])
  BY <1>1, <1>2, LenProperties
<1>4. Charges(j)' \in SUBSET (Charges(j) \cup {Len(stored[j])})
  BY <1>2, <1>3 DEF Charges
<1>5. IsFiniteSet(Charges(j)) /\ Cardinality(Charges(j)) \in Nat
  BY NumbersOf DEF AllNumbers, Numbers
<1>6. /\ IsFiniteSet(Charges(j) \cup {Len(stored[j])})
      /\ Cardinality(Charges(j) \cup {Len(stored[j])}) <= Cardinality(Charges(j)) + 1
      /\ Cardinality(Charges(j) \cup {Len(stored[j])}) \in Nat
  <2>1. ASSUME NEW S, NEW x, IsFiniteSet(S), Cardinality(S) \in Nat
        PROVE  /\ IsFiniteSet(S \cup {x}) /\ Cardinality(S \cup {x}) \in Nat
               /\ Cardinality(S \cup {x}) <= Cardinality(S) + 1
    <3>1. /\ IsFiniteSet(S \cup {x})
          /\ Cardinality(S \cup {x}) \in {Cardinality(S), Cardinality(S) + 1}
      BY <2>1, FS_AddElement
    <3> QED
      BY <2>1, <3>1
  <2> QED
    BY <1>5, <2>1
<1>7. Cardinality(Charges(j)') <= Cardinality(Charges(j) \cup {Len(stored[j])})
  BY <1>4, <1>6, FS_Subset
<1>8. Cardinality(Charges(j)') \in Nat
  BY NumbersNext DEF AllNumbers, Numbers
<1> QED
  BY <1>5, <1>6, <1>7, <1>8

\* A step at one job leaves the others as they were.
LEMMA OneBorne ==
    ASSUME AllBorne, NEW j \in JobIds, Borne(j)',
           \A i \in JobIds \ {j} :
               /\ run'[i] = run[i] /\ stored'[i] = stored[i]
               /\ queue'[i] = queue[i] /\ unconfirmed'[i] = unconfirmed[i]
    PROVE  AllBorne'
<1> SUFFICES ASSUME NEW i \in JobIds, i # j PROVE Borne(i)'
  BY DEF AllBorne
<1>1. Borne(i)
  BY DEF AllBorne
<1> QED
  BY <1>1 DEF Borne, Slack, Charges

\* Steps of a run but the count: what it is charged for stays.
LEMMA RunBorne ==
    ASSUME JobsInv, JobsInv', AllBorne, NEW j \in JobIds,
           \/ UpdateStage(j) \/ AskOpenAI(j) \/ SaveTokens(j) \/ StoreResult(j)
           \/ Complete(j) \/ StartCount(j) \/ SaveFailed(j) \/ StartCost(j)
           \/ RecordCost(j) \/ AnswerUnusable(j) \/ Throws(j)
           \/ StoredUnconfirmed(j) \/ CatchThrows(j)
    PROVE  AllBorne'
<1>1. /\ UNCHANGED <<queue, unconfirmed>> /\ (UNCHANGED stored \/ Insert(j))
      /\ run[j].at \in TrySteps \cup CatchSteps
  BY DEF UpdateStage, AskOpenAI, SaveTokens, StoreResult, Complete, StartCount, SaveFailed,
         StartCost, RecordCost, AnswerUnusable, Throws, StoredUnconfirmed, CatchThrows,
         ReadUsage, asking, TrySteps, CatchSteps
<1>2. run \in [JobIds -> Run] /\ stored \in [JobIds -> Seq(Weeks \cup {Null})]
  BY DEF JobsInv, TypeOK
<1>3. \A i \in JobIds \ {j} : run'[i] = run[i]
  BY <1>2 DEF UpdateStage, AskOpenAI, SaveTokens, StoreResult, Complete, StartCount,
         SaveFailed, StartCost, RecordCost, AnswerUnusable, Throws, StoredUnconfirmed,
         CatchThrows, ReadUsage, At, Done
<1>4. queue[j].state = "active"
  BY <1>1 DEF JobsInv, RunsKnow, TrySteps, CatchSteps
<1>5. Charges(j)' = Charges(j) /\ \A i \in JobIds \ {j} : stored'[i] = stored[i]
  <2>1. CASE UNCHANGED stored
    BY <2>1 DEF Charges
  <2>2. CASE Insert(j)
    BY <2>2, <1>2, InsertCharges, InsertKeeps DEF JobsInv
  <2> QED
    BY <1>1, <2>1, <2>2
<1>6. Slack(j) = 0
  BY <1>1, <1>4 DEF Slack, TrySteps, CatchSteps
<1>7. Borne(j)
  BY DEF AllBorne
<1>8. Borne(j)'
  BY <1>1, <1>5, <1>6, <1>7, NumbersOf, NumbersNext DEF Borne, JobsInv, AllNumbers, Numbers
<1> QED
  BY <1>1, <1>3, <1>5, <1>8, OneBorne

\* A count is the one that a run ends with, or one reported as failed.
LEMMA CountBorne ==
    ASSUME JobsInv, JobsInv', AllBorne, NEW j \in JobIds,
           IncrementUsage(j) \/ CountedUnconfirmed(j)
    PROVE  AllBorne'
<1>1. run[j].at = "counted" /\ SaveCount(j) /\ UNCHANGED queue
  BY DEF IncrementUsage, CountedUnconfirmed, asking
<1>2. /\ run \in [JobIds -> Run] /\ stored \in [JobIds -> Seq(Weeks \cup {Null})]
      /\ run[j] \in Run /\ unconfirmed \in [JobIds -> Nat] /\ TypeOK /\ TypeOK'
  BY DEF JobsInv, TypeOK
<1>3. run[j].week \in Weeks
  BY <1>2 DEF Run
<1>4. /\ Cardinality(Charges(j)') <= Cardinality(Charges(j)) + 1
      /\ \A i \in JobIds \ {j} : stored'[i] = stored[i]
  BY <1>1, <1>2, <1>3, CountCharges, MarkKeeps
<1>5. queue[j].state = "active" /\ Slack(j) = 0 /\ Borne(j)
  BY <1>1 DEF JobsInv, RunsKnow, Slack, AllBorne
<1>6. /\ \A i \in JobIds \ {j} : run'[i] = run[i] /\ unconfirmed'[i] = unconfirmed[i]
      /\ \/ Slack(j)' = 1 /\ unconfirmed'[j] = unconfirmed[j]
         \/ unconfirmed'[j] = unconfirmed[j] + 1
  <2>1. CASE IncrementUsage(j)
    <3>1. UNCHANGED unconfirmed /\ Done(j, "return")
      BY <2>1 DEF IncrementUsage, asking
    <3>2. run'[j].at = "return" /\ \A i \in JobIds \ {j} : run'[i] = run[i]
      BY <1>2, <3>1 DEF Done, Run
    <3> QED
      BY <3>1, <3>2 DEF Slack
  <2>2. CASE CountedUnconfirmed(j)
    BY <2>2, <1>2 DEF CountedUnconfirmed, Done
  <2> QED
    BY <2>1, <2>2
<1>7. Borne(j)'
  BY <1>1, <1>2, <1>4, <1>5, <1>6, NumbersOf, NumbersNext DEF AllNumbers, Numbers, Borne
<1> QED
  BY <1>1, <1>4, <1>6, <1>7, OneBorne

\* Bull runs a job again after a stall, which counts, or after a run that
\* threw, which was not charged.
LEMMA QueueBorne ==
    ASSUME JobsInv, JobsInv', AllBorne, NEW j \in JobIds,
           \/ Take(j) \/ JobReturns(j) \/ JobThrows(j) \/ WorkerDies(j) \/ Stalled(j)
    PROVE  AllBorne'
<1>1. UNCHANGED <<stored, unconfirmed>>
  BY DEF Take, JobReturns, JobThrows, WorkerDies, Stalled, asking, tables
<1>2. /\ run \in [JobIds -> Run] /\ queue \in [JobIds -> QueueEntry]
      /\ TypeOK /\ TypeOK' /\ MaxStalls \in Nat
  BY AnalysisConstants DEF JobsInv, TypeOK
<1>3. \A i \in JobIds \ {j} : run'[i] = run[i] /\ queue'[i] = queue[i]
  BY <1>2 DEF Take, JobReturns, JobThrows, WorkerDies, Stalled, Idle
<1>4. /\ Borne(j) /\ Charges(j)' = Charges(j)
      /\ run[j].at # "idle" => queue[j].state = "active"
  BY <1>1 DEF AllBorne, Charges, JobsInv, RunsKnow
<1>5. queue'[j].stalls + Slack(j)' >= queue[j].stalls + Slack(j)
  <2>1. CASE Take(j)
    <3>1. Slack(j) = 0 /\ queue'[j].stalls = queue[j].stalls
      BY <2>1, <1>2, <1>4 DEF Take, Slack, QueueEntry
    <3> QED
      BY <1>2, <3>1, NumbersOf, NumbersNext DEF AllNumbers, Numbers
  <2>2. CASE JobReturns(j)
    <3>1. queue'[j].state = "over" /\ queue'[j].stalls = queue[j].stalls
      BY <2>2, <1>2 DEF JobReturns, QueueEntry
    <3> QED
      BY <1>2, <3>1, NumbersOf, NumbersNext DEF AllNumbers, Numbers, Slack
  <2>3. CASE JobThrows(j)
    <3>1. /\ queue' = [queue EXCEPT ![j].made = @ + 1, ![j].state =
                        IF queue[j].made + 1 < MaxAttempts THEN "waiting" ELSE "over"]
          /\ run[j].at = "throw"
      BY <2>3 DEF JobThrows
    <3>2. queue'[j].stalls = queue[j].stalls
      BY <1>2, <3>1 DEF QueueEntry
    <3>3. Slack(j) = 0
      BY <1>4, <3>1 DEF Slack
    <3> QED
      BY <1>2, <3>2, <3>3, NumbersOf, NumbersNext DEF AllNumbers, Numbers
  <2>4. CASE WorkerDies(j)
    <3>1. queue' = queue /\ queue[j].state = "active" /\ run'[j].at = "idle"
      BY <2>4, <1>2, <1>4 DEF WorkerDies, Idle, NotRunning, tables
    <3> QED
      BY <1>2, <3>1, NumbersOf, NumbersNext DEF AllNumbers, Numbers, Slack
  <2>5. CASE Stalled(j)
    <3>1. /\ queue[j].state = "active"
          /\ queue' = [queue EXCEPT ![j] =
                          IF queue[j].stalls < MaxStalls
                          THEN [queue[j] EXCEPT !.state = "waiting", !.stalls = @ + 1]
                          ELSE [queue[j] EXCEPT !.state = "over"]]
      BY <2>5 DEF Stalled
    <3>2. CASE queue[j].stalls < MaxStalls
      <4>1. queue'[j].stalls = queue[j].stalls + 1
        BY <1>2, <3>1, <3>2 DEF QueueEntry
      <4> QED
        BY <1>2, <4>1, NumbersOf, NumbersNext DEF AllNumbers, Numbers
    <3>3. CASE ~(queue[j].stalls < MaxStalls)
      <4>1. queue'[j].stalls = queue[j].stalls /\ queue'[j].state = "over"
        BY <1>2, <3>1, <3>3 DEF QueueEntry
      <4> QED
        BY <1>2, <4>1, NumbersOf, NumbersNext DEF AllNumbers, Numbers, Slack
    <3> QED
      BY <3>2, <3>3
  <2> QED
    BY <2>1, <2>2, <2>3, <2>4, <2>5
<1>6. Borne(j)'
  BY <1>1, <1>2, <1>4, <1>5, NumbersOf, NumbersNext DEF AllNumbers, Numbers, Borne
<1> QED
  BY <1>1, <1>3, <1>6, OneBorne

\* Calls, the cleanup and time change no charge; a job that is queued is new.
LEMMA OutsideBorne ==
    ASSUME JobsInv, JobsInv', AllBorne,
           \/ \E c \in Callers : StartRun(c) \/ Calling(c) \/ EnqueueFails(c)
           \/ Cleanup \/ Tick \/ UNCHANGED vars
    PROVE  AllBorne'
<1>1. UNCHANGED <<run, stored, unconfirmed>>
  BY DEF StartRun, Calling, EnqueueFails, LookForResult, LookForJob, SaveJob, Enqueue,
         Cleanup, StartCleanup, FailStuckJob, Tick, work, vars
<1>2. CASE UNCHANGED queue
  BY <1>1, <1>2 DEF AllBorne, Borne, Slack, Charges
<1>3. ASSUME NEW c \in Callers, Enqueue(c) PROVE AllBorne'
  <2>1. PICK j \in JobIds : j = caller[c].job
    BY <1>3, JobsAreIds DEF Enqueue, JobsInv, CallersKnow
  <2>2. /\ queue \in [JobIds -> QueueEntry] /\ queue[j].state = "none"
        /\ queue' = [queue EXCEPT ![j].state = "waiting"]
    BY <1>3, <2>1 DEF Enqueue, JobsInv, TypeOK, CallersKnow
  <2>3. /\ \A i \in JobIds \ {j} : queue'[i] = queue[i]
        /\ queue'[j].state = "waiting" /\ queue'[j].stalls = queue[j].stalls
    BY <2>2 DEF QueueEntry
  <2>4. run[j].at = "idle"
    BY <2>2 DEF JobsInv, RunsKnow
  <2>5. Slack(j) = 0 /\ Slack(j)' = 0
    BY <1>1, <2>2, <2>3, <2>4 DEF Slack
  <2>6. Borne(j)'
    BY <1>1, <2>3, <2>5 DEF AllBorne, Borne, Charges
  <2> QED
    BY <1>1, <2>3, <2>6, OneBorne
<1> QED
  BY <1>2, <1>3 DEF StartRun, Calling, EnqueueFails, LookForResult, LookForJob, SaveJob,
     Cleanup, StartCleanup, FailStuckJob, Tick, work, vars

\* Nothing is charged at first.
LEMMA InitBorne == Init => AllBorne
<1> SUFFICES ASSUME Init, NEW j \in JobIds PROVE Borne(j)
  BY DEF AllBorne
<1>1. Charges(j) = {}
  BY EmptySeq DEF Init, Charges
<1>2. Cardinality(Charges(j)) = 0
  BY <1>1, FS_EmptySet
<1>3. TypeOK
  BY InitJobs DEF JobsInv
<1> QED
  BY <1>2, <1>3, NumbersOf DEF Borne, AllNumbers, Numbers

\* One case per action of Next.
LEMMA NextBorne == JobsInv /\ JobsInv' /\ AllBorne /\ [Next]_vars => AllBorne'
<1> SUFFICES ASSUME JobsInv, JobsInv', AllBorne, [Next]_vars PROVE AllBorne'
  OBVIOUS
<1>1. ASSUME NEW j \in JobIds, Working(j) \/ Failing(j) \/ Stalled(j) PROVE AllBorne'
  BY <1>1, RunBorne, CountBorne, QueueBorne DEF Working, Failing
<1> QED
  BY <1>1, OutsideBorne DEF Next

\* What is taken off a week's allowance is covered by results of their own, for
\* any number of jobs, retries, stalls and overlapping counts (incrementUsage and
\* recordFailedJobCost, which save the row they have read); and a job is charged
\* once, but for its stalls and the counts reported as failed.
THEOREM NothingOvercharged == Spec => []NeverOvercharged
<1>1. JobsInv /\ ChargeInv /\ AllBorne => NeverOvercharged
  <2> SUFFICES ASSUME JobsInv, ChargeInv, AllBorne PROVE NeverOvercharged
    OBVIOUS
  <2>1. ASSUME NEW j \in JobIds
        PROVE  Cardinality(Charges(j)) <= 1 + queue[j].stalls + unconfirmed[j]
    BY NumbersOf DEF AllBorne, Borne, JobsInv, AllNumbers, Numbers
  <2> QED
    BY <2>1 DEF ChargeInv, Within, Counts, NeverOvercharged
<1>2. Spec => []AllBorne
  BY JobsInvariant, InitBorne, NextBorne, PTL DEF Spec
<1> QED
  BY JobsInvariant, ChargeInvariant, <1>1, <1>2, PTL
=============================================================================
