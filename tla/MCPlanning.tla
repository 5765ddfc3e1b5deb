------------------------------ MODULE MCPlanning ------------------------------
(***************************************************************************)
(* Constants for TLC that a configuration file cannot write down: two      *)
(* months, of 3 and 2 days, weeks of 2 days, quarters and years of 2       *)
(* months.                                                                 *)
(***************************************************************************)
EXTENDS Planning, TLC

CONSTANTS s1, r1, r2, fire, car   \* repayment schedule, requests, names

Symmetry == Permutations(Requests) \cup Permutations(Names)

MCFirstDay == <<1, 4, 6>>
MCInterval == [f \in {"MONTHLY", "QUARTERLY", "YEARLY"} |->
                  IF f = "MONTHLY" THEN 1 ELSE 2]
MCDueDate == [s \in Repayments |-> 2]

\* Monthly, as an expense, on the day of the start unless the rule has another
\* day; and weekly, with one date, with that other day and no category.
MCRuleInputs ==
    {[freq |-> "MONTHLY", start |-> 2, end |-> 4, day |-> None, active |-> TRUE,
      kind |-> "EXPENSE"],
     [freq |-> "WEEKLY", start |-> 2, end |-> 3, day |-> 1, active |-> TRUE,
      kind |-> NoCategory]}

\* On the third day, until the second month begins.
MCPolicyInputs ==
    {[cycle |-> c, start |-> 3, maturity |-> 4, active |-> TRUE] :
        c \in {"MONTHLY", "YEARLY"}}

\* With a maturity, and without one.
MCMaturities ==
    {[cycle |-> "MONTHLY", start |-> 3, maturity |-> m, active |-> TRUE] :
        m \in {None, 4}}

-----------------------------------------------------------------------------
\* The eighteen months from January 2026, with weeks of seven days.
Calendar == INSTANCE PlannedDates WITH
    FirstDay <- <<1, 32, 60, 91, 121, 152, 182, 213, 244, 274, 305, 335, 366,
                  397, 425, 456, 486, 517, 547>>,
    WeekLength <- 7, MaxOccurrences <- 400,
    Interval <- [f \in {"MONTHLY", "QUARTERLY", "YEARLY"} |->
                   CASE f = "MONTHLY" -> 1 [] f = "QUARTERLY" -> 3 [] OTHER -> 12]

\* On it, for every frequency, starts in a month of 31 days and the one of 28
\* after it, the days a month may lack, and ends inside later months: the
\* dates planned are the dates due.
ASSUME PlannedIsDue ==
    \A s \in [freq: Calendar!Frequencies, start: {1, 15, 30, 31, 32, 45, 59},
              active: {TRUE}, kind: {NoCategory}, end: {None, 100, 457},
              day: {None, 1, 15, 28, 29, 30, 31}],
       m \in Calendar!Months :
        Calendar!BuildPlannedDates(s, m) = {d \in Calendar!Days(m) : Calendar!Due(s, d)}
=============================================================================
