------------------------------- MODULE AiGate -------------------------------
(* AiService (ai.service.ts) on one pod: the semaphore and its wait queue, *)
(* the window of tokens booked in the last minute, and the attempts of a   *)
(* call that OpenAI rate-limits.  What is asked and answered is left out,  *)
(* but for what decides the next step.                                     *)
EXTENDS Integers, Sequences, FiniteSets, SequencesExt, FiniteSetsExt

CONSTANTS Requests,     \* requests under way at once
          MaxConcurrency,
          Estimates,    \* tokens a call may be estimated at, Budget at most
          Budget,       \* TPM_BUDGET
          Minute,       \* ticks an entry of the window lives
          MaxAttempts

VARIABLES active,    \* activeRequests
          queue,     \* waitQueue
          window,    \* tpmWindow, with ages for times
          cached,    \* the answer to the one query that is looked up
          req,
          kept       \* history: slots that no one gives back
vars == <<active, queue, window, cached, req, kept>>
gate == <<active, queue, window>>

\* The calls to OpenAI each operation makes, one after the other.
Calls == [lookup |-> <<"chat">>, text |-> <<"chat">>, wizard |-> <<"chat">>,
          screenshot |-> <<"vision">>, transcribe |-> <<"whisper">>,
          voice |-> <<"whisper", "chat">>]
Idle == [pc |-> "idle", op |-> "none", calls |-> <<>>, cost |-> 0, attempt |-> 0]
Steps == {"idle", "acquire", "queued", "budget", "call", "backoff"}
Holding(r) == req[r].pc \in {"budget", "call", "backoff"}
Holders == {r \in Requests : Holding(r)}

TypeOK ==
    /\ active \in 0 .. MaxConcurrency /\ kept \in Nat
    /\ queue \in SeqOf(Requests, Cardinality(Requests))
    /\ \A i \in DOMAIN window : window[i].age \in 0 .. Minute /\ window[i].tokens \in Estimates
    /\ cached \in BOOLEAN
    /\ \A r \in Requests : req[r].pc \in Steps

Init ==
    /\ active = 0 /\ queue = <<>> /\ window = <<>> /\ cached = FALSE
    /\ req = [r \in Requests |-> Idle]
    /\ kept = 0

At(r, pc) == req[r].pc = pc
Goto(r, pc) == req' = [req EXCEPT ![r].pc = pc]
End(r) == req' = [req EXCEPT ![r] = Idle]

----------------------------------------------------------------------------
(* A request, charged to the user's month before (consumeAiRequest).       *)

Start(r, op, cost) ==
    /\ At(r, "idle")
    /\ op = "lookup" => ~cached
    /\ req' = [req EXCEPT ![r] = [pc |-> "acquire", op |-> op, calls |-> Calls[op],
                                  cost |-> cost, attempt |-> 1]]
    /\ UNCHANGED <<gate, cached, kept>>

----------------------------------------------------------------------------
(* The semaphore.                                                          *)

\* chat waits for its share of the budget, the other calls are made at once.
Admitted(r) == IF Head(req[r].calls) = "chat" THEN "budget" ELSE "call"

AcquireSlot(r) ==
    /\ At(r, "acquire")
    /\ IF active < MaxConcurrency
       THEN active' = active + 1 /\ Goto(r, Admitted(r)) /\ UNCHANGED queue
       ELSE queue' = Append(queue, r) /\ Goto(r, "queued") /\ UNCHANGED active
    /\ UNCHANGED <<window, cached, kept>>

\* Mutation: the rejected waiter is still called.
TimedOutStaysQueued(r) ==
    /\ At(r, "queued")
    /\ End(r)
    /\ UNCHANGED <<gate, cached, kept>>

\* The timer of 30 s: out of the queue, and the request fails, or, when it was
\* the wizard's web search, is answered without one.
TimedOut(r) ==
    /\ At(r, "queued")
    /\ \E i \in DOMAIN queue : queue[i] = r /\ queue' = RemoveAt(queue, i)
    /\ End(r)
    /\ UNCHANGED <<active, window, cached, kept>>

\* releaseSlot, in the course of r's step to `to`: the slot goes straight to
\* the first who waits.
Release(r, to) ==
    IF queue = <<>>
    THEN /\ active' = active - 1 /\ req' = [req EXCEPT ![r] = to]
         /\ UNCHANGED queue
    ELSE /\ queue' = Tail(queue)
         /\ LET next == Head(queue)
            IN req' = [req EXCEPT ![r] = to, ![next].pc = Admitted(next)]
         /\ UNCHANGED active

----------------------------------------------------------------------------
(* chat: the token budget, and up to MaxAttempts attempts.                 *)

Tokens(w) == FoldLeft(LAMBDA sum, e : sum + e.tokens, 0, w)

\* waitForTpmBudget: who does not fit sleeps until the window has rolled on.
Book(r) ==
    /\ At(r, "budget") /\ Tokens(window) + req[r].cost <= Budget
    /\ window' = Append(window, [age |-> 0, tokens |-> req[r].cost])
    /\ Goto(r, "call")
    /\ UNCHANGED <<active, queue, cached, kept>>

\* OpenAI answers, and the next call, if there is one, takes a slot of its own.
Answered(r) ==
    /\ At(r, "call") /\ Head(req[r].calls) # "search"
    /\ LET rest == Tail(req[r].calls)
       IN Release(r, IF rest = <<>> THEN Idle
                     ELSE [req[r] EXCEPT !.pc = "acquire", !.calls = rest])
    /\ cached' = (cached \/ req[r].op = "lookup")
    /\ UNCHANGED <<window, kept>>

\* The wizard did not know the service, and searches the web for it.
Unsure(r) ==
    /\ At(r, "call") /\ req[r].op = "wizard" /\ Head(req[r].calls) = "chat"
    /\ Release(r, [req[r] EXCEPT !.pc = "acquire", !.calls = <<"search">>])
    /\ UNCHANGED <<window, cached, kept>>

\* wizardWithWebSearch ends, well or not, and gives no slot back.
Searched(r) ==
    /\ At(r, "call") /\ Head(req[r].calls) = "search"
    /\ kept' = kept + 1
    /\ End(r)
    /\ UNCHANGED <<gate, cached>>

\* A 429 is tried again, and the slot held through the pause.
RateLimited(r) ==
    /\ At(r, "call") /\ Head(req[r].calls) = "chat" /\ req[r].attempt < MaxAttempts
    /\ Goto(r, "backoff")
    /\ UNCHANGED <<gate, cached, kept>>

Retry(r) ==
    /\ At(r, "backoff")
    /\ req' = [req EXCEPT ![r].pc = "budget", ![r].attempt = @ + 1]
    /\ UNCHANGED <<gate, cached, kept>>

\* Any other error, or the last attempt's.
Fails(r) ==
    /\ At(r, "call") /\ Head(req[r].calls) # "search"
    /\ Release(r, Idle)
    /\ UNCHANGED <<window, cached, kept>>

----------------------------------------------------------------------------
Older(e) == [e EXCEPT !.age = @ + 1]
Young(e) == e.age < Minute

\* Time passes, and the entries of a minute ago drop out of the window.
Tick ==
    /\ window # <<>>
    /\ window' = SelectSeq([i \in DOMAIN window |-> Older(window[i])], Young)
    /\ UNCHANGED <<active, queue, cached, req, kept>>

CacheExpires ==
    /\ cached /\ cached' = FALSE
    /\ UNCHANGED <<gate, req, kept>>

\* A pod that starts again forgets its slots and all who waited for one.
Restart ==
    /\ active > 0
    /\ active' = 0 /\ queue' = <<>> /\ window' = <<>> /\ kept' = 0
    /\ req' = [r \in Requests |-> Idle]
    /\ UNCHANGED cached

Next ==
    \/ \E r \in Requests :
          \/ \E op \in DOMAIN Calls, cost \in Estimates : Start(r, op, cost)
          \/ AcquireSlot(r) \/ TimedOut(r)
          \/ Book(r) \/ Answered(r) \/ Unsure(r) \/ Searched(r)
          \/ RateLimited(r) \/ Retry(r) \/ Fails(r)
    \/ Tick \/ CacheExpires \/ Restart

Spec == Init /\ [][Next]_vars

----------------------------------------------------------------------------
\* The counter tells the truth: it counts the requests at work and the slots
\* the web searches have kept, the queue holds those who wait and no one else,
\* and nobody waits while there is a slot to be had.  The counter, the queue and
\* the timers are moved by different callbacks (ai.service.ts:108-133).
SlotsAreAccounted ==
    /\ active = Cardinality(Holders) + kept
    /\ ToSet(queue) = {r \in Requests : At(r, "queued")} /\ IsInjective(queue)
    /\ queue # <<>> => active = MaxConcurrency

\* Known issues, 5: requests wait when there are as many as may be at OpenAI at
\* once ("При перегрузке — wait queue", wiki/pages/known-issues.md:96), and so
\* not for slots that nobody uses.
WaitsOnlyWhenBusy == queue # <<>> => Cardinality(Holders) = MaxConcurrency
=============================================================================
