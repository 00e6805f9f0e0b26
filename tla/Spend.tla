------------------------------- MODULE Spend -------------------------------
(* What users and teams spend: the subscription rows with the columns that *)
(* money depends on, how they change, and the answers computed from them,  *)
(* each in a loop of its own: summary, months, categories, forecast,       *)
(* savings and cards (analytics.service.ts), the team screen and lists     *)
(* (workspace.service.ts), the team's PDF (reports.service.ts).  Who may   *)
(* ask is left out, and an answer is computed from one state of the rows:  *)
(* that its SELECTs run one after another and the caches of five minutes   *)
(* are left out.                                                           *)
(*                                                                         *)
(* Money is counted in fractions of a cent small enough that every         *)
(* division is exact; floating point, which the code computes with, is     *)
(* not modelled, rounding to cents is.  Months have equally many days, in  *)
(* the time zone the pods and the database run in.                         *)
EXTENDS Integers, FiniteSetsExt

CONSTANTS Bills,        \* subscriptions
          Members,      \* the active members of a team
          Periods, Currencies, Categories,
          Amounts,      \* their prices, in cents
          Starts,       \* days on which they may start
          Days,         \* days of a month
          MaxDay,       \* bound on the days that pass
          Nothing       \* NULL

VARIABLES sub,     \* id -> its row, or Nothing
          day,     \* the current day
          rates    \* currencies FxService has a rate for; {}: no provider answers
vars == <<sub, day, rates>>

Statuses == {"ACTIVE", "TRIAL", "PAUSED", "CANCELLED"}
\* carded: paid with the card of its user, each of whom has at most one.
RowOf(made, cancelled) ==
    [user : Members, amount : Amounts, period : Periods, status : Statuses,
     currency : Currencies, category : Categories, carded : BOOLEAN,
     start : Starts \cup {Nothing}, createdAt : made, cancelledAt : cancelled]
Row == RowOf(1 .. MaxDay, (1 .. MaxDay) \cup {Nothing})

\* The tables are finite, a period is one of the enum's, and NULL is no row.
SpendConstants ==
    /\ IsFiniteSet(Bills) /\ IsFiniteSet(Categories) /\ Amounts \subseteq Nat
    /\ Starts \subseteq Nat /\ MaxDay \in Nat \ {0} /\ Days \in Nat \ {0}
    /\ Nothing \notin Row
    /\ Periods \subseteq {"WEEKLY", "MONTHLY", "QUARTERLY", "YEARLY", "LIFETIME", "ONE_TIME"}

TypeOK == /\ sub \in [Bills -> Row \cup {Nothing}] /\ day \in 1 .. MaxDay
          /\ rates \in {{}, {"USD"}, Currencies}

Init == sub = [i \in Bills |-> Nothing] /\ day = 1 /\ rates = Currencies

Present == {i \in Bills : sub[i] # Nothing}
Put(i, row) == sub' = [sub EXCEPT ![i] = row] /\ UNCHANGED <<day, rates>>

----------------------------------------------------------------------------
(* SubscriptionsService and PaymentCardsService, as far as money goes.     *)

\* The status is any the caller likes; the start may lie behind or ahead, or
\* not be told.
Create(i) ==
    /\ sub[i] = Nothing
    /\ \E row \in RowOf({day}, {Nothing}) : Put(i, row)

\* PATCH takes any column, the status too, without a look at cancelledAt; the
\* currency takes originalCurrency along, so that the two are one here.
Update(i) ==
    /\ i \in Present
    /\ \/ \E s \in Statuses : Put(i, [sub[i] EXCEPT !.status = s])
       \/ \E c \in Currencies : Put(i, [sub[i] EXCEPT !.currency = c])
       \/ \E b \in BOOLEAN : Put(i, [sub[i] EXCEPT !.carded = b])

UpdateStatus(i) ==
    /\ i \in Present
    /\ \/ /\ sub[i].status # "CANCELLED"
          /\ Put(i, [sub[i] EXCEPT !.status = "CANCELLED", !.cancelledAt = day])
       \/ /\ sub[i].status = "CANCELLED"
          /\ Put(i, [sub[i] EXCEPT !.status = "ACTIVE", !.cancelledAt = Nothing])

Remove(i) == i \in Present /\ Put(i, Nothing)

\* The foreign key's ON DELETE SET NULL.
RemoveCard(u) ==
    /\ \E i \in Present : sub[i].user = u /\ sub[i].carded
    /\ sub' = [i \in Bills |-> IF i \in Present /\ sub[i].user = u
                             THEN [sub[i] EXCEPT !.carded = FALSE] ELSE sub[i]]
    /\ UNCHANGED <<day, rates>>

NextDay == day < MaxDay /\ day' = day + 1 /\ UNCHANGED <<sub, rates>>

RatesChange == rates' \in {{}, {"USD"}, Currencies} \ {rates} /\ UNCHANGED <<sub, day>>

Next ==
    \/ NextDay \/ RatesChange
    \/ \E i \in Bills : Create(i) \/ Update(i) \/ UpdateStatus(i) \/ Remove(i)
    \/ \E u \in Members : RemoveCard(u)

Spec == Init /\ [][Next]_vars

----------------------------------------------------------------------------
(* Money.                                                                  *)

Cent == 1200
RoundCents(x) == ((x + 600) \div Cent) * Cent

\* An amount of cents: 433 hundredths of it for a weekly one, a third, a twelfth.
ToMonthlyAmount(amount, period) ==
    CASE period = "WEEKLY" -> amount * 5196
      [] period = "MONTHLY" -> amount * 1200
      [] period = "QUARTERLY" -> amount * 400
      [] period = "YEARLY" -> amount * 100
      [] period \in {"LIFETIME", "ONE_TIME"} -> 0
MonthlyOf(i) == ToMonthlyAmount(sub[i].amount, sub[i].period)

\* Two of any other currency for a dollar.
Rate(c) == IF c = "USD" THEN 1 ELSE 2
Convertible(from, to) == from = to \/ {from, to} \subseteq rates \cup {"USD"}
Convert(amount, from, to) == IF from = to THEN amount ELSE (amount * Rate(to)) \div Rate(from)

\* What is converted is rounded; an amount without a rate counts nothing in
\* analytics, ...
ConvertAmount(i, to) ==
    IF sub[i].currency = to THEN MonthlyOf(i)
    ELSE IF Convertible(sub[i].currency, to)
         THEN RoundCents(Convert(MonthlyOf(i), sub[i].currency, to)) ELSE 0

\* ... and itself for a team, which rounds nothing here; no rates at all convert
\* nothing there.
ConvertSafe(i, to) ==
    IF rates # {} /\ Convertible(sub[i].currency, to)
    THEN Convert(MonthlyOf(i), sub[i].currency, to) ELSE MonthlyOf(i)

\* Totals of some of the rows.
Total(ids, to) == SumFunctionOnSet([i \in Present |-> ConvertAmount(i, to)], ids)
TeamTotal(ids, to) == SumFunctionOnSet([i \in Present |-> ConvertSafe(i, to)], ids)
Sum(values) == SumFunctionOnSet(values, Categories)

----------------------------------------------------------------------------
(* The answers.  u: the user who asks; to: the currency shown.             *)

Own(u) == {i \in Present : sub[i].user = u}
Active(ids) == {i \in ids : sub[i].status \in {"ACTIVE", "TRIAL"}}

Summary(u, to) == RoundCents(Total(Active(Own(u)), to))
Forecast30d(u, to) ==
    RoundCents(Total({i \in Present : sub[i].user = u /\ sub[i].status \in {"ACTIVE", "TRIAL"}}, to))

\* Mutation: rows on trial are not among the categories.
ByCategoryNoTrials(u, to) ==
    [c \in Categories |->
        RoundCents(Total({i \in Own(u) : sub[i].status = "ACTIVE" /\ sub[i].category = c}, to))]

ByCategory(u, to) ==
    [c \in Categories |-> RoundCents(Total({i \in Active(Own(u)) : sub[i].category = c}, to))]

ByCard(u, to) ==
    [card |-> RoundCents(Total({i \in Active(Own(u)) : sub[i].carded}, to)),
     unassigned |-> RoundCents(Total({i \in Active(Own(u)) : ~sub[i].carded}, to))]

\* In every category with two or more, everything but the cheapest.
Savings(u, to) ==
    Sum([c \in Categories |->
          LET catSubs == {i \in Active(Own(u)) : sub[i].category = c}
          IN  IF catSubs = {} THEN 0
              ELSE RoundCents(Total(catSubs, to) - Min({ConvertAmount(i, to) : i \in catSubs}))])

MonthOf(d) == (d - 1) \div Days
FirstDay(m) == m * Days + 1
LastDay(m) == (m + 1) * Days

\* Mutation: a row without a start was always there.
BegunAlways(i, m) == sub[i].start # Nothing => sub[i].start <= LastDay(m)

\* A month ends at the midnight its last day begins with: a row that starts on
\* that day, at midnight, is in it, and one without a start that was created
\* that day, later than midnight, is not.
Begun(i, m) == IF sub[i].start # Nothing THEN sub[i].start <= LastDay(m)
               ELSE sub[i].createdAt < LastDay(m)

\* Cancelled rows stay in the months in which they were active.
InMonth(i, m) ==
    /\ sub[i].status # "PAUSED" /\ Begun(i, m)
    /\ sub[i].cancelledAt = Nothing \/ sub[i].cancelledAt >= FirstDay(m)
Monthly(u, to, m) == RoundCents(Total({i \in Own(u) : InMonth(i, m)}, to))

\* A line for each member: how many, and how much.
TeamScreen(to) ==
    [u \in Members |-> [count |-> Cardinality(Active(Own(u))),
                        monthly |-> RoundCents(TeamTotal(Active(Own(u)), to))]]

\* One GROUP BY over the rows of all members.
MemberCounts ==
    LET rows == Active({i \in Present : sub[i].user \in Members})
    IN  [u \in {sub[i].user : i \in rows} |-> Cardinality({i \in rows : sub[i].user = u})]
ListMembers == [u \in Members |-> IF u \in DOMAIN MemberCounts THEN MemberCounts[u] ELSE 0]

\* What an owner or admin sees of one of them.
MemberSubscriptions(u) == {i \in Present : sub[i].user = u /\ sub[i].status \in {"ACTIVE", "TRIAL"}}

\* The PDF of one month is about the rows "that overlap" it ...
TeamScope(m) ==
    {i \in Active(Present) :
        /\ sub[i].start = Nothing \/ sub[i].start <= LastDay(m)
        /\ sub[i].cancelledAt = Nothing \/ sub[i].cancelledAt >= FirstDay(m)}

\* ... and has the same lines.
TeamPdf(to, m) ==
    [u \in Members |->
        LET rows == {i \in TeamScope(m) : sub[i].user = u}
        IN  [count |-> Cardinality(rows), monthly |-> RoundCents(TeamTotal(rows, to))]]

----------------------------------------------------------------------------
\* No more than n half cents above, or apart.
AboveBy(a, b, n) == 2 * (a - b) <= n * Cent
Near(a, b, n) == AboveBy(a, b, n) /\ AboveBy(b, a, n)

\* Whatever is created, edited, cancelled, restored and removed, cards and
\* currencies with it: what a user is told in total is what the forecast tells
\* him, and what the categories and the cards (analytics.service.ts, a loop each)
\* add up to, but for the half cent that each line and the total may lose or win
\* by rounding; what can be saved is no more, but for as much; and the bar of
\* this month agrees for one who has nothing paused, cancelled or ahead, and
\* nothing without a start that was made on the month's last day.  The team
\* screen counts for each member what the list of members and the list of his
\* subscriptions do, and sums up what he is told where every currency has a rate,
\* but for half a cent for each of his rows and for the two totals: it rounds
\* them once, he is told what is rounded row by row.
TotalsAddUp ==
    /\ rates # {} => \A u \in Members, to \in Currencies :
          LET summary == Summary(u, to)
              lines == Cardinality(Categories)
          IN
          /\ summary = Forecast30d(u, to)
          /\ Near(summary, Sum(ByCategory(u, to)), lines + 1)
          /\ Near(summary, ByCard(u, to).card + ByCard(u, to).unassigned, 3)
          /\ AboveBy(Savings(u, to), summary, lines + 1)
          /\ (\A i \in Own(u) :
                /\ sub[i].status \in {"ACTIVE", "TRIAL"} /\ sub[i].cancelledAt = Nothing
                /\ \/ sub[i].start # Nothing /\ sub[i].start <= day
                   \/ sub[i].start = Nothing /\ sub[i].createdAt # LastDay(MonthOf(day)))
                => Monthly(u, to, MonthOf(day)) = summary
    /\ \A u \in Members, to \in Currencies :
          /\ rates = Currencies =>
                Near(TeamScreen(to)[u].monthly, Summary(u, to), TeamScreen(to)[u].count + 2)
          /\ TeamScreen(to)[u].count = ListMembers[u]
          /\ ListMembers[u] = Cardinality(MemberSubscriptions(u))

\* At the rates as they are, the past is not told otherwise because a subscription
\* is cancelled or restored: no bar up to this month's gets lower
\* ("silently understates past spend for anyone who has cancelled anything",
\* analytics.service.ts:227).  Nor because one is added: no bar of a month before
\* the one it starts in, or is created in, changes ("identical sums into every
\* requested month", line 217).
PastSpendKept ==
    [][sub' # sub /\ rates' = rates => \A u \in Members, to \in Currencies, m \in 0 .. MonthOf(day) :
         /\ (\E i \in Bills : UpdateStatus(i))
               => Monthly(u, to, m)' >= Monthly(u, to, m)
         /\ \A i \in Bills \ Present :
               LET row == sub'[i]
                   since == IF row.start # Nothing THEN row.start ELSE row.createdAt
               IN  row # Nothing /\ m < MonthOf(since)
                     => Monthly(u, to, m)' = Monthly(u, to, m)]_vars

\* "PDF Team Overview total agrees with what the user sees on the
\* workspace screen" (reports.service.ts:1508), of rows that have started.
TeamPdfAgrees ==
    (\A i \in Present : sub[i].start # Nothing => sub[i].start <= day)
       => \A to \in Currencies : TeamPdf(to, MonthOf(day)) = TeamScreen(to)
=============================================================================
