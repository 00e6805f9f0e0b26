------------------------------- MODULE MCTeam -------------------------------
(* WorkspaceTeam, Spend, Accounts, AiGate and Reports, one at a time: what *)
(* one of them decides from (its tables, its keys in Redis, the counters   *)
(* of one pod) no other writes, so a behaviour in which they mix shows     *)
(* nothing that one of them does not show alone.                           *)
EXTENDS WorkspaceTeam

CONSTANTS Bills, Payers, Periods, Currencies, Categories, Amounts, Starts, Days, MaxDay,
          AccountIds, Addresses, Apples, SignIns, MaxFails, Overlap,
          Asks, MaxConcurrency, Estimates, Budget, Minute, MaxAttempts,
          Reports, Callers, Workers, MaxStalls,
          Told

\* A pod has a limit, and serves finitely many at once.
ASSUME AiConstants == IsFiniteSet(Asks) /\ MaxConcurrency \in Nat

VARIABLES part,   \* the one that moves
          sub, day, rates,
          users, otp, fails, signIn, home,
          active, queue, window, cached, ask, kept,
          plan, call, report, pdf, job, work
spend == <<sub, day, rates>>
accounts == <<users, otp, fails, signIn, home>>
gate == <<active, queue, window, cached, ask, kept>>
pdfs == <<plan, call, report, pdf, job, work>>

\* The addresses are all one subject's; of another Apple tells none.
MCTold == [s \in Apples |-> IF s = (CHOOSE t \in Apples : TRUE) THEN Addresses ELSE {}]

Money == INSTANCE Spend WITH Members <- Payers, Nothing <- Null
ASSUME MoneyFits == Money!SpendConstants
Acc == INSTANCE Accounts WITH Requests <- SignIns, Nobody <- Null,
                              req <- signIn
ASSUME AccountsFit == Acc!AccountsConstants
Ai == INSTANCE AiGate WITH Requests <- Asks, req <- ask
Pdf == INSTANCE Reports WITH None <- Null, rows <- report

\* The parts that stand still do so in one state.
MCInit ==
    /\ part \in {"team", "spend", "months", "accounts", "ai", "reports"}
    /\ Init /\ Money!Init /\ Acc!Init /\ Ai!Init /\ Pdf!Init
    /\ part # "accounts" => \A a \in AccountIds : users[a] = Null
    /\ part # "reports" => plan = "free"

TeamNext == part = "team" /\ Next /\ UNCHANGED <<part, spend, accounts, gate, pdfs>>
\* Either two subscriptions without a start and no time, or one subscription and
\* all days: a month's bar is a sum like any other, of the rows that are in it.
Timeless(i) == sub'[i] # Null => sub'[i].start = Null
OnlyDated(i) ==
    sub'[i] # Null => /\ \A j \in Bills \ {i} : sub'[j] = Null
                      /\ sub'[i].category = CHOOSE c \in Categories : TRUE
SpendNext ==
    /\ part \in {"spend", "months"} /\ Money!Next
    /\ \/ part = "spend" /\ day' = day /\ \A i \in Bills : Timeless(i)
       \/ part = "months" /\ \A i \in Bills : OnlyDated(i)
    /\ UNCHANGED <<part, vars, accounts, gate, pdfs>>
AccountsNext == part = "accounts" /\ Acc!Next /\ UNCHANGED <<part, vars, spend, gate, pdfs>>
AiNext == part = "ai" /\ Ai!Next /\ UNCHANGED <<part, vars, spend, accounts, pdfs>>
ReportsNext == part = "reports" /\ Pdf!Next /\ UNCHANGED <<part, vars, spend, accounts, gate>>
MCNext == TeamNext \/ SpendNext \/ AccountsNext \/ AiNext \/ ReportsNext

MCSpec == MCInit /\ [][MCNext]_<<part, vars, spend, accounts, gate, pdfs>>

\* As in Spend.
TotalsAddUp == part \in {"spend", "months"} => Money!TotalsAddUp
PastSpendKept == Money!PastSpendKept

\* As in Accounts.
AppleUserKeepsAccount == Acc!AppleUserKeepsAccount
AppleUserHasOneAccount == Acc!AppleUserHasOneAccount

\* As in AiGate.
SlotsAreAccounted == part = "ai" => Ai!SlotsAreAccounted

\* As in Reports.
ReadyHasPdf == Pdf!ReadyHasPdf
=============================================================================
