----------------------------- MODULE PlannedDates -----------------------------
(***************************************************************************)
(* The dates a recurring rule falls on in one month. A date is a day       *)
(* number; month m is the days FirstDay[m] .. FirstDay[m + 1] - 1.         *)
(***************************************************************************)
EXTENDS Integers, Sequences

CONSTANTS
    FirstDay,         \* first day of each month, and the day after the last one
    WeekLength,       \* days from one weekly date to the next (7)
    Interval,         \* months from one date to the next, by frequency
    MaxOccurrences    \* dates a rule is followed for (400)

ASSUME CalendarConstants ==
    /\ FirstDay \in Seq(Nat \ {0}) /\ Len(FirstDay) > 1
    /\ FirstDay[1] = 1
    /\ \A m, n \in DOMAIN FirstDay : m < n => FirstDay[m] < FirstDay[n]
    /\ \A m \in 1..(Len(FirstDay) - 1) : FirstDay[m + 1] - FirstDay[m] <= 31
    /\ WeekLength \in Nat \ {0}
    /\ Interval \in [{"MONTHLY", "QUARTERLY", "YEARLY"} -> Nat \ {0}]
    /\ MaxOccurrences \in Nat

Months == 1..(Len(FirstDay) - 1)
Days(m) == FirstDay[m]..(FirstDay[m + 1] - 1)
AllDays == 1..(FirstDay[Len(FirstDay)] - 1)
Frequencies == {"WEEKLY"} \cup DOMAIN Interval

None == 0   \* no end date, no day of the month

CategoryKinds == {"INCOME", "EXPENSE", "TRANSFER"}
NoCategory == "none"

MonthOf(d) == CHOOSE m \in Months : d \in Days(m)
DayOf(d) == d - FirstDay[MonthOf(d)] + 1

\* kind is the kind of the rule's category; no date depends on it.
Schedule == [freq: Frequencies, start: AllDays, end: AllDays \cup {None},
             day: 0..31, active: BOOLEAN, kind: CategoryKinds \cup {NoCategory}]

BeforeEnd(s, d) == s.end = None \/ d <= s.end

\* The preferred day of month m, or its last day when the month is shorter.
CreateMonthDate(m, day) ==
    LET last == FirstDay[m + 1] - FirstDay[m] IN
    FirstDay[m] + (IF day <= last THEN day ELSE last) - 1

PreferredDay(s) == IF s.day = None THEN DayOf(s.start) ELSE s.day

BuildWeeklyDates(s, m) ==
    {d \in Days(m) :
        /\ \E i \in 0..(MaxOccurrences - 1) : d = s.start + i * WeekLength
        /\ BeforeEnd(s, d)}

\* The first date is in the month of the start, or an interval later when
\* that date is past.
BuildMonthlyLikeDates(s, m) ==
    LET n == Interval[s.freq]
        past == CreateMonthDate(MonthOf(s.start), PreferredDay(s)) < s.start
        first == MonthOf(s.start) + (IF past THEN n ELSE 0)
    IN  {d \in {CreateMonthDate(m, PreferredDay(s))} :
            /\ \E i \in 0..(MaxOccurrences - 1) : m = first + i * n
            /\ BeforeEnd(s, d)}

BuildPlannedDates(s, m) ==
    IF s.freq = "WEEKLY" THEN BuildWeeklyDates(s, m)
    ELSE BuildMonthlyLikeDates(s, m)

-----------------------------------------------------------------------------
\* What a schedule asks for, day by day and with no count of occurrences: a
\* weekly date lies whole weeks after the start; any other is the preferred
\* day, or the last day of a month without it, whole intervals after the
\* month of the start.
Due(s, d) ==
    /\ d >= s.start /\ BeforeEnd(s, d)
    /\ IF s.freq = "WEEKLY" THEN (d - s.start) % WeekLength = 0
       ELSE /\ (MonthOf(d) - MonthOf(s.start)) % Interval[s.freq] = 0
            /\ \/ DayOf(d) = PreferredDay(s)
               \/ DayOf(d) < PreferredDay(s) /\ d + 1 \notin Days(MonthOf(d))
=============================================================================
