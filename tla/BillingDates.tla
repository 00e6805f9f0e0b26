---------------------------- MODULE BillingDates ----------------------------
(***************************************************************************)
(* computeNextPaymentDate of SubscriptionsService: the first billing date  *)
(* after today.  A date is a month, counted from a January, and a day of   *)
(* it; time of day and zones are left out, February has 28 days.           *)
(***************************************************************************)
EXTENDS Integers, FiniteSetsExt

CONSTANTS StartDates, StartMonths, \* the start dates tried: days of months
          BillingDays,  \* billingDay of the subscription: any integer, 0 for none
          TodayMonths, Todays        \* the days on which the date is computed

VARIABLES asked,        \* the arguments
          answer        \* how far the call is, and the date so far
vars == <<asked, answer>>

NoDate == [m |-> 0, d |-> 0]
LastDayOfMonth(m) ==
    <<31, 28, 31, 30, 31, 30, 31, 31, 30, 31, 30, 31>>[((m - 1) % 12) + 1]
After(x, y) == x.m > y.m \/ (x.m = y.m /\ x.d > y.d)
Least(S) == Min(S)
Clamp(d, m) == Least({d, LastDayOfMonth(m)})

Periods == {"WEEKLY", "MONTHLY", "QUARTERLY", "YEARLY", "LIFETIME", "ONE_TIME"}
MonthsIn == [MONTHLY |-> 1, QUARTERLY |-> 3, YEARLY |-> 12]

\* date-fns: addMonths keeps the day or takes the last one of the month.
AddMonths(x, n) == [m |-> x.m + n, d |-> Clamp(x.d, x.m + n)]
AddWeek(x) ==
    LET last == LastDayOfMonth(x.m)
    IN  IF x.d + 7 <= last THEN [x EXCEPT !.d = @ + 7]
        ELSE [m |-> x.m + 1, d |-> x.d + 7 - last]
Advance(x, period) ==
    IF period = "WEEKLY" THEN AddWeek(x) ELSE AddMonths(x, MonthsIn[period])

\* Days since the start of month 1, and of those that are over before month m.
DaysBefore(m) ==
    365 * ((m - 1) \div 12)
        + <<0, 31, 59, 90, 120, 151, 181, 212, 243, 273, 304, 334>>[((m - 1) % 12) + 1]
Ordinal(x) == x.d + DaysBefore(x.m)

\* date-fns: setDate counts a day below the first back into earlier months.
SetBack(m, day) ==
    LET date == DaysBefore(m) + day
        month == CHOOSE k \in m + day - 1 .. m :
                    DaysBefore(k) < date /\ date <= DaysBefore(k + 1)
    IN  [m |-> month, d |-> date - DaysBefore(month)]

\* Neither the DTO nor the table bounds the billing day; Math.min does above.
ClampBillingDay(x, a) ==
    IF a.day = 0 \/ a.period # "MONTHLY" THEN x
    ELSE IF a.day < 0 THEN SetBack(x.m, a.day)
    ELSE [x EXCEPT !.d = Clamp(a.day, x.m)]

-----------------------------------------------------------------------------
\* The arguments of one call; answer.next is the loop's variable.
Init ==
    /\ asked \in {a \in [start : [m : StartMonths, d : StartDates], day : BillingDays,
                         period : Periods, now : [m : TodayMonths, d : Todays]] :
                     /\ a.start.d <= LastDayOfMonth(a.start.m)
                     /\ a.now.d <= LastDayOfMonth(a.now.m)}
    /\ answer = [step |-> "asked", next |-> NoDate]

ApplyBillingDay ==
    /\ answer.step = "asked"
    /\ answer' = IF asked.period \in {"LIFETIME", "ONE_TIME"}
                 THEN [step |-> "done", next |-> NoDate]
                 ELSE [step |-> "walk", next |-> ClampBillingDay(asked.start, asked)]
    /\ UNCHANGED asked

\* Mutation: the billing day is applied once, before the walk.
AdvanceOnly(x) == Advance(x, asked.period)

AdvanceAndClamp(x) == ClampBillingDay(Advance(x, asked.period), asked)

WalkForward ==
    /\ answer.step = "walk"
    /\ answer' = IF After(answer.next, asked.now)
                 THEN [answer EXCEPT !.step = "done"]
                 ELSE [answer EXCEPT !.next = AdvanceAndClamp(answer.next)]
    /\ UNCHANGED asked

Next == ApplyBillingDay \/ WalkForward
Spec == Init /\ [][Next]_vars

-----------------------------------------------------------------------------
\* The day of month in m, for a period of n months that began at start: the
\* billing day when the subscription has one, else start's; the latter is cut
\* down by every short month on the way and never comes back.
DayIn(m, n) ==
    IF asked.day # 0 /\ asked.period = "MONTHLY" THEN Clamp(asked.day, m)
    ELSE Least({asked.start.d} \cup
               {LastDayOfMonth(k) : k \in {j \in asked.start.m .. m :
                                              (j - asked.start.m) % n = 0}})

\* Billing dates from the start on, to a year after the start and today.
Schedule ==
    LET n == MonthsIn[asked.period]
        last == asked.start.m + asked.now.m + 12
    IN  {[m |-> m, d |-> DayIn(m, n)] :
            m \in {j \in asked.start.m .. last : (j - asked.start.m) % n = 0}}

\* A billing day below zero takes back every month that the walk advances.
Backwards == asked.day < 0 /\ asked.period = "MONTHLY"

\* What the walk ends on is the first date of the schedule after today: a date
\* is never skipped, never today or past, a billing day of 31 is back on the
\* 31st after February, and one beyond 31 is the last of every month
\* (computeNextPaymentDate, used by create, update and the nightly
\* recalculation).  With a billing day below zero, which no step gets past, the
\* walk ends only if it need not begin, or never does.
NextIsTheFirstAfterToday ==
    answer.step = "done" /\ asked.period \notin {"LIFETIME", "ONE_TIME"} =>
        /\ After(answer.next, asked.now)
        /\ asked.period = "WEEKLY" =>
              /\ Ordinal(answer.next) % 7 = Ordinal(asked.start) % 7
              /\ \/ answer.next = asked.start
                 \/ Ordinal(answer.next) <= Ordinal(asked.now) + 7
        /\ asked.period # "WEEKLY" /\ ~Backwards =>
              /\ answer.next \in Schedule
              /\ \A x \in Schedule : After(answer.next, x) => ~After(x, asked.now)
=============================================================================
