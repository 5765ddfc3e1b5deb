---------------------------- MODULE PlanningProofs ----------------------------
(***************************************************************************)
(* Theorems about planning, for every calendar, any number of requests,    *)
(* rules and policies, and any inputs: the type invariant, that no date of *)
(* a rule is planned twice, that a policy and its rule live and die        *)
(* together, and that a generation plans exactly what is due.              *)
(***************************************************************************)
EXTENDS Planning, FiniteSetTheorems, WellFoundedInduction, TLAPS

-----------------------------------------------------------------------------
(* The calendar                                                              *)

\* Months follow one another without gap, each of them has a first day.
LEMMA MonthFirstDays ==
  /\ Len(FirstDay) \in Nat /\ Len(FirstDay) > 1
  /\ \A m \in 1..Len(FirstDay) : FirstDay[m] \in Nat \ {0}
  /\ \A m, n \in 1..Len(FirstDay) : m < n => FirstDay[m] < FirstDay[n]
  /\ \A m \in Months : /\ m \in Nat /\ m \in 1..Len(FirstDay)
                       /\ m + 1 \in 1..Len(FirstDay)
<1>1. /\ Len(FirstDay) \in Nat
      /\ DOMAIN FirstDay = 1..Len(FirstDay)
      /\ \A m \in DOMAIN FirstDay : FirstDay[m] \in Nat \ {0}
  BY CalendarConstants
<1>2. Len(FirstDay) > 1
  BY CalendarConstants
<1>3. \A m, n \in 1..Len(FirstDay) : m < n => FirstDay[m] < FirstDay[n]
  BY <1>1, CalendarConstants
<1>4. \A m \in Months : /\ m \in Nat /\ m \in 1..Len(FirstDay)
                        /\ m + 1 \in 1..Len(FirstDay)
  BY <1>1 DEF Months
<1>. QED  BY <1>1, <1>2, <1>3, <1>4

\* The days of a month are days of the calendar, and of no other month.
LEMMA DaysApart ==
  ASSUME NEW m \in Months
  PROVE  /\ Days(m) \subseteq AllDays
         /\ \A n \in Months : \A d \in Days(m) \cap Days(n) : m = n
<1>1. /\ m \in 1..Len(FirstDay) /\ m + 1 \in 1..Len(FirstDay)
      /\ Len(FirstDay) \in 1..Len(FirstDay)
  BY MonthFirstDays
<1>2. FirstDay[m + 1] <= FirstDay[Len(FirstDay)]
  <2>1. CASE m + 1 = Len(FirstDay)
    BY <1>1, <2>1, MonthFirstDays
  <2>2. CASE m + 1 < Len(FirstDay)
    <3>1. FirstDay[m + 1] < FirstDay[Len(FirstDay)]
      BY <1>1, <2>2, MonthFirstDays
    <3>. QED  BY <1>1, <3>1, MonthFirstDays
  <2>. QED  BY <1>1, <2>1, <2>2
<1>3. Days(m) \subseteq AllDays
  BY <1>1, <1>2, MonthFirstDays DEF Days, AllDays
<1>4. ASSUME NEW n \in Months, NEW d \in Days(m) \cap Days(n)
      PROVE  m = n
  <2>1. n \in 1..Len(FirstDay) /\ n + 1 \in 1..Len(FirstDay)
    BY MonthFirstDays
  <2>2. /\ d \in Int
        /\ FirstDay[m] <= d /\ d < FirstDay[m + 1]
        /\ FirstDay[n] <= d /\ d < FirstDay[n + 1]
    BY <1>1, <1>4, <2>1, MonthFirstDays DEF Days
  <2>3. ASSUME m < n  PROVE FALSE
    <3>1. FirstDay[m + 1] <= FirstDay[n]
      BY <1>1, <2>1, <2>3, MonthFirstDays
    <3>. QED  BY <1>1, <2>1, <2>2, <3>1, MonthFirstDays
  <2>4. ASSUME n < m  PROVE FALSE
    <3>1. FirstDay[n + 1] <= FirstDay[m]
      BY <1>1, <2>1, <2>4, MonthFirstDays
    <3>. QED  BY <1>1, <2>1, <2>2, <3>1, MonthFirstDays
  <2>. QED  BY <1>1, <2>1, <2>3, <2>4
<1>. QED  BY <1>3, <1>4

\* A non-empty set of numbers has a smallest one.
LEMMA Smallest ==
  ASSUME NEW T \in SUBSET Nat, T # {}
  PROVE  \E x \in T : \A y \in T : x <= y
<1>1. IsWellFoundedOn(OpToRel(<, Nat), Nat)
  BY NatLessThanWellFounded
<1>2. PICK x \in T : \A y \in T : ~ (<<y, x>> \in OpToRel(<, Nat))
  BY <1>1, WFMin
<1>3. \A y \in T : ~ (y < x)
  BY <1>2 DEF OpToRel
<1>. QED  BY <1>3

\* Each day of the calendar lies in a month, of 31 days at most.
LEMMA MonthFound ==
  ASSUME NEW d \in AllDays
  PROVE  /\ MonthOf(d) \in Months
         /\ d \in Days(MonthOf(d))
         /\ DayOf(d) \in 1..31
<1>. DEFINE Later == {m \in Months : d < FirstDay[m + 1]}
            last == Len(FirstDay) - 1
<1>1. d \in Nat /\ d >= 1 /\ d < FirstDay[Len(FirstDay)]
  BY MonthFirstDays DEF AllDays
<1>2. last \in Months /\ last + 1 = Len(FirstDay)
  BY MonthFirstDays DEF Months
<1>3. last \in Later
  BY <1>1, <1>2
<1>4. Later \subseteq Nat
  BY MonthFirstDays
<1>5. PICK m \in Later : \A n \in Later : m <= n
  BY <1>3, <1>4, Smallest
<1>6. m \in Months /\ m \in 1..Len(FirstDay) /\ m + 1 \in 1..Len(FirstDay)
  BY <1>5, MonthFirstDays
<1>7. FirstDay[m] <= d
  <2>1. CASE m = 1
    BY <1>1, <2>1, CalendarConstants
  <2>2. CASE m # 1
    <3>1. m - 1 \in Months /\ (m - 1) + 1 = m
      BY <1>6, <2>2 DEF Months
    <3>2. ~ (m - 1 \in Later)
      BY <1>5, <1>6
    <3>. QED  BY <1>1, <1>6, <3>1, <3>2, MonthFirstDays
  <2>. QED  BY <2>1, <2>2
<1>8. d \in Days(m)
  BY <1>1, <1>5, <1>6, <1>7, MonthFirstDays DEF Days
<1>9. MonthOf(d) \in Months /\ d \in Days(MonthOf(d))
  BY <1>6, <1>8 DEF MonthOf
<1>10. DayOf(d) \in 1..31
  <2>. DEFINE n == MonthOf(d)
  <2>1. n \in 1..(Len(FirstDay) - 1)
    BY <1>9 DEF Months
  <2>2. FirstDay[n + 1] - FirstDay[n] <= 31
    BY <2>1, CalendarConstants
  <2>3. FirstDay[n] \in Nat /\ FirstDay[n + 1] \in Nat
    BY <1>9, MonthFirstDays
  <2>4. d \in FirstDay[n]..(FirstDay[n + 1] - 1)
    BY <1>9 DEF Days
  <2>5. DayOf(d) = d - FirstDay[n] + 1
    BY DEF DayOf
  <2>6. FirstDay[n] <= d /\ d < FirstDay[n + 1]
    BY <1>1, <2>3, <2>4
  <2>7. \A a, b \in Nat : a <= d /\ d < b /\ b - a <= 31 => d - a + 1 \in 1..31
    BY <1>1
  <2>8. d - FirstDay[n] + 1 \in 1..31
    BY <2>2, <2>3, <2>6, <2>7
  <2>. QED  BY <2>5, <2>8
<1>. QED  BY <1>9, <1>10

\* A month planned for a schedule gets dates of its own only.
LEMMA PlannedInMonth ==
  ASSUME NEW s \in Schedule, NEW m \in Months
  PROVE  BuildPlannedDates(s, m) \subseteq Days(m)
<1>1. BuildWeeklyDates(s, m) \subseteq Days(m)
  BY DEF BuildWeeklyDates
<1>2. PreferredDay(s) \in 1..31
  BY MonthFound DEF PreferredDay, Schedule, None
<1>3. CreateMonthDate(m, PreferredDay(s)) \in Days(m)
  <2>1. /\ FirstDay[m] \in Nat /\ FirstDay[m + 1] \in Nat
        /\ FirstDay[m] < FirstDay[m + 1]
    BY MonthFirstDays
  <2>. QED  BY <1>2, <2>1 DEF CreateMonthDate, Days
<1>4. BuildMonthlyLikeDates(s, m) \subseteq Days(m)
  BY <1>3 DEF BuildMonthlyLikeDates
<1>. QED  BY <1>1, <1>4 DEF BuildPlannedDates

-----------------------------------------------------------------------------
(* Schedules, bags and requests                                              *)

\* What a policy asks to be paid is a schedule with a day of the month.
LEMMA PayloadTyped ==
  ASSUME NEW i \in PolicyInput
  PROVE  /\ RulePayload(i) \in Schedule
         /\ RulePayload(i).day # None /\ RulePayload(i).kind # NoCategory
<1>1. /\ i.cycle \in Frequencies /\ i.start \in AllDays
      /\ i.maturity \in AllDays \cup {None} /\ i.active \in BOOLEAN
  BY CalendarConstants DEF PolicyInput, Frequencies
<1>2. DayOf(i.start) \in 1..31
  BY <1>1, MonthFound
<1>. QED  BY <1>1, <1>2 DEF RulePayload, Schedule, CategoryKinds, NoCategory, None

LEMMA WrittenTyped ==
  ASSUME NEW s \in Schedule, NEW t \in Schedule, NEW cleared
  PROVE  /\ Written(s, t, cleared) \in Schedule
         /\ t.day # None /\ t.kind # NoCategory
            => Written(s, t, cleared) = [t EXCEPT !.end = Written(s, t, cleared).end]
BY DEF Written, Schedule

\* The bag union counts what is in either bag.
LEMMA BagUnited ==
  ASSUME NEW A, NEW B, IsABag(A), IsABag(B)
  PROVE  /\ IsABag(A (+) B)
         /\ BagToSet(A (+) B) = BagToSet(A) \cup BagToSet(B)
         /\ \A e \in BagToSet(A) \ BagToSet(B) : (A (+) B)[e] = A[e]
         /\ \A e \in BagToSet(B) \ BagToSet(A) : (A (+) B)[e] = B[e]
<1>1. /\ \A e \in DOMAIN A : A[e] \in Nat /\ A[e] > 0
      /\ \A e \in DOMAIN B : B[e] \in Nat /\ B[e] > 0
  BY DEF IsABag
<1>. QED  BY <1>1 DEF IsABag, BagToSet, (+)

LEMMA SetAsBag ==
  ASSUME NEW S
  PROVE  /\ IsABag(SetToBag(S)) /\ BagToSet(SetToBag(S)) = S
         /\ \A e \in S : SetToBag(S)[e] = 1
BY DEF SetToBag, IsABag, BagToSet

\* The items of repayments refer to no rule.
LEMMA RepaymentBag ==
  ASSUME NEW S \in SUBSET Repayments, NEW m \in Months,
         \A s \in S : DueDate[s] \in Days(m)
  PROVE  /\ IsABag(RepaymentItems(S, m))
         /\ BagToSet(RepaymentItems(S, m)) \subseteq PlanItem
         /\ \A i \in BagToSet(RepaymentItems(S, m)) : i.rule = NoRule
<1>. DEFINE of(i) == {s \in S : RepaymentItem(s, m) = i}
            all == {RepaymentItem(s, m) : s \in S}
<1>1. IsFiniteSet(S)
  BY PlanConstants, FS_Subset
<1>2. ASSUME NEW i \in all
      PROVE  Cardinality(of(i)) \in Nat /\ Cardinality(of(i)) > 0
  <2>1. of(i) \in SUBSET S
    OBVIOUS
  <2>2. of(i) # {}
    OBVIOUS
  <2>3. IsFiniteSet(of(i))
    BY <1>1, <2>1, FS_Subset
  <2>. HIDE DEF of
  <2>. QED  BY <2>2, <2>3, FS_EmptySet, FS_CardinalityType
<1>3. all \subseteq PlanItem /\ \A i \in all : i.rule = NoRule
  BY PlanConstants DEF RepaymentItem, PlanItem
<1>4. RepaymentItems(S, m) = [i \in all |-> Cardinality(of(i))]
  BY DEF RepaymentItems
<1>. HIDE DEF of, all
<1>. QED  BY <1>2, <1>3, <1>4 DEF IsABag, BagToSet

\* Each item of a rule is there once.
ItemsOnce(B) == \A i \in BagToSet(B) : i.rule # NoRule => B[i] = 1

\* The deletion of a rule leaves the items of the other rules as they were,
\* and makes none.
LEMMA ItemsWithoutBag ==
  ASSUME NEW k, IsABag(item), BagToSet(item) \subseteq PlanItem, ItemsOnce(item)
  PROVE  /\ IsABag(ItemsWithout(k))
         /\ BagToSet(ItemsWithout(k)) \subseteq PlanItem
         /\ ItemsOnce(ItemsWithout(k))
         /\ \A i \in BagToSet(item) : i.rule # k => i \in BagToSet(ItemsWithout(k))
         /\ \A i \in BagToSet(ItemsWithout(k)) :
              i.rule # NoRule => i \in BagToSet(item)
<1>. DEFINE of == {i \in BagToSet(item) : i.rule = k}
            freed == {[j EXCEPT !.rule = NoRule] : j \in of}
            A == [i \in BagToSet(item) \ of |-> item[i]]
            B == [i \in freed |-> item[[i EXCEPT !.rule = k]]]
<1>1. \A i \in BagToSet(item) : item[i] \in Nat /\ item[i] > 0
  BY DEF IsABag, BagToSet
<1>2. IsABag(A) /\ BagToSet(A) = BagToSet(item) \ of
  BY <1>1 DEF IsABag, BagToSet
<1>3. ASSUME NEW i \in freed
      PROVE  /\ i \in PlanItem /\ i.rule = NoRule
             /\ [i EXCEPT !.rule = k] \in of
  <2>1. PICK j \in of : i = [j EXCEPT !.rule = NoRule]
    OBVIOUS
  <2>2. j \in PlanItem /\ j.rule = k
    BY <2>1
  <2>. QED  BY <2>1, <2>2 DEF PlanItem
<1>4. IsABag(B) /\ BagToSet(B) = freed
  <2>1. \A i \in freed : B[i] \in Nat /\ B[i] > 0
    BY <1>1, <1>3
  <2>. HIDE DEF freed
  <2>. QED  BY <2>1 DEF IsABag, BagToSet
<1>5. ItemsWithout(k) = A (+) B
  BY DEF ItemsWithout
<1>6. ASSUME NEW i \in BagToSet(item) \ of, i.rule # NoRule
      PROVE  (A (+) B)[i] = item[i]
  <2>1. i \notin freed
    BY <1>3, <1>6
  <2>2. i \in BagToSet(A) \ BagToSet(B)
    BY <1>2, <1>4, <2>1
  <2>3. A[i] = item[i]
    OBVIOUS
  <2>. HIDE DEF A, B, of, freed
  <2>. QED  BY <1>2, <1>4, <2>2, <2>3, BagUnited
<1>7. \A i \in freed : i \in PlanItem /\ i.rule = NoRule
  BY <1>3
<1>8. IsABag(A (+) B) /\ BagToSet(A (+) B) = (BagToSet(item) \ of) \cup freed
  <2>. HIDE DEF A, B, of, freed
  <2>. QED  BY <1>2, <1>4, BagUnited
<1>9. \A i \in BagToSet(item) : i.rule # k => i \in BagToSet(item) \ of
  OBVIOUS
<1>. HIDE DEF A, B, of, freed
<1>. QED  BY <1>5, <1>6, <1>7, <1>8, <1>9 DEF ItemsOnce

\* What a generation writes: one item for each date that has none.
LEMMA GeneratedBag ==
  ASSUME IsABag(item), BagToSet(item) \subseteq PlanItem, ItemsOnce(item),
         NEW S, S \cap BagToSet(item) = {}, S \subseteq PlanItem,
         NEW B, IsABag(B), BagToSet(B) \subseteq PlanItem,
         \A i \in BagToSet(B) : i.rule = NoRule
  PROVE  LET new == item (+) SetToBag(S) (+) B
         IN  /\ IsABag(new) /\ BagToSet(new) \subseteq PlanItem
             /\ ItemsOnce(new)
             /\ BagToSet(new) = BagToSet(item) \cup S \cup BagToSet(B)
<1>. DEFINE A == item (+) SetToBag(S)
<1>1. /\ IsABag(A) /\ BagToSet(A) = BagToSet(item) \cup S
      /\ \A e \in BagToSet(item) \ S : A[e] = item[e]
      /\ \A e \in S \ BagToSet(item) : A[e] = SetToBag(S)[e]
  BY SetAsBag, BagUnited
<1>2. ItemsOnce(A)
  BY <1>1, SetAsBag DEF ItemsOnce
<1>. HIDE DEF A
<1>3. /\ IsABag(A (+) B) /\ BagToSet(A (+) B) = BagToSet(A) \cup BagToSet(B)
      /\ \A e \in BagToSet(A) \ BagToSet(B) : (A (+) B)[e] = A[e]
  BY <1>1, BagUnited
<1>4. ItemsOnce(A (+) B)
  BY <1>2, <1>3 DEF ItemsOnce
<1>. QED  BY <1>1, <1>3, <1>4 DEF A

\* What a request holds at its next step.
LEMMA RequestHolds ==
  ASSUME TypeOK, NEW r \in Requests
  PROVE  LET q == req[r] IN
         /\ q.at = "updateRule" => q.rule \in Rules /\ q.input \in RuleInputs
         /\ q.at = "deleteRule" => q.rule \in Rules
         /\ q.at = "createPolicy" => q.name \in Names /\ q.input \in PolicyInputs
         /\ q.at = "updatePolicy" =>
              /\ q.policy \in Policies /\ q.rule \in Rules \cup {NoRule}
              /\ q.name \in Names /\ q.input \in PolicyInputs
         /\ q.at = "deletePolicy" =>
              q.policy \in Policies /\ q.rule \in Rules \cup {NoRule}
         /\ q.at = "repay" =>
              /\ q.repayment \in Repayments /\ q.month \in Months
              /\ DueDate[q.repayment] \in Days(q.month)
         /\ q.at = "generate" =>
              /\ q.month \in Months
              /\ q.items \subseteq PlanItem
              /\ q.plans \subseteq [rule : Rules, plan : Schedule]
              /\ q.due \subseteq Repayments
              /\ \A s \in q.due : DueDate[s] \in Days(q.month)
<1>1. req[r] \in Request
  BY DEF TypeOK
<1>. QED  BY <1>1 DEF Request

LEMMA HoldTyped ==
  ASSUME TypeOK, NEW r \in Requests, NEW q \in Request, Hold(r, q)
  PROVE  req' \in [Requests -> Request]
BY DEF TypeOK, Hold

LEMMA AnswerTyped ==
  ASSUME TypeOK, NEW r \in Requests, Answer(r)
  PROVE  req' \in [Requests -> Request]
<1>1. Idle \in Request
  BY DEF Idle, Request
<1>. QED  BY <1>1, HoldTyped DEF Answer

\* Inputs of rules and policies that are live.
LEMMA RowsTyped ==
  ASSUME TypeOK
  PROVE  /\ \A k \in Rules : LiveRule(k) => rule[k] \in RuleRow
         /\ \A p \in Policies : LivePolicy(p) => policy[p] \in PolicyRow
         /\ \A i \in RuleInputs : i \in Schedule
         /\ \A i \in PolicyInputs : /\ RulePayload(i) \in Schedule
                                    /\ RulePayload(i).day # None
                                    /\ RulePayload(i).kind # NoCategory
<1>1. \A k \in Rules : LiveRule(k) => rule[k] \in RuleRow
  BY DEF TypeOK, LiveRule, NoRow, DeletedRow
<1>2. \A p \in Policies : LivePolicy(p) => policy[p] \in PolicyRow
  BY DEF TypeOK, LivePolicy, NoRow, DeletedRow
<1>. QED  BY <1>1, <1>2, PayloadTyped, PlanConstants

\* What the deletion of a rule does to rules and policies.
LEMMA WithoutTyped ==
  ASSUME TypeOK, NEW k \in Rules \cup {NoRule}
  PROVE  /\ RulesWithout(k) \in [Rules -> RuleRow \cup {NoRow, DeletedRow}]
         /\ PoliciesWithout(k) \in [Policies -> PolicyRow \cup {NoRow, DeletedRow}]
<1>1. RulesWithout(k) \in [Rules -> RuleRow \cup {NoRow, DeletedRow}]
  BY DEF TypeOK, RulesWithout
<1>2. ASSUME NEW p \in Policies
      PROVE  (IF LivePolicy(p) /\ policy[p].rule = k
              THEN [policy[p] EXCEPT !.rule = NoRule] ELSE policy[p])
             \in PolicyRow \cup {NoRow, DeletedRow}
  <2>1. CASE LivePolicy(p)
    <3>1. policy[p] \in PolicyRow
      BY <2>1, RowsTyped
    <3>. QED  BY <3>1 DEF PolicyRow
  <2>. QED  BY <2>1 DEF TypeOK
<1>. QED  BY <1>1, <1>2 DEF PoliciesWithout

\* Types, and no date of a rule planned twice.
ItemInv == TypeOK /\ ItemsOnce(item)

LEMMA InitItems == Init => ItemInv
<1>. SUFFICES ASSUME Init  PROVE ItemInv
  OBVIOUS
<1>1. IsABag(item) /\ BagToSet(item) = {}
  BY SetAsBag DEF Init, EmptyBag
<1>2. ItemsOnce(item)
  BY <1>1 DEF ItemsOnce
<1>3. Idle \in Request
  BY DEF Idle, Request
<1>. QED  BY <1>1, <1>2, <1>3 DEF Init, ItemInv, TypeOK

\* A step that writes no items keeps the invariant when it keeps the types of
\* what it writes.
LEMMA ItemsKept ==
  ASSUME ItemInv, item' = item,
         month' \in [Months -> {"none", "collecting", "locked"}],
         rule' \in [Rules -> RuleRow \cup {NoRow, DeletedRow}],
         policy' \in [Policies -> PolicyRow \cup {NoRow, DeletedRow}],
         linked' \subseteq Repayments,
         req' \in [Requests -> Request]
  PROVE  ItemInv'
BY DEF ItemInv, TypeOK, ItemsOnce, BagToSet

LEMMA MonthItems ==
  ASSUME ItemInv, NEW m \in Months, OpenMonth(m) \/ CloseMonth(m)
  PROVE  ItemInv'
<1>1. month' \in [Months -> {"none", "collecting", "locked"}]
  BY DEF ItemInv, TypeOK, OpenMonth, CloseMonth
<1>. QED  BY <1>1, ItemsKept DEF ItemInv, TypeOK, OpenMonth, CloseMonth

\* Reads change the request only.
LEMMA ReadItems ==
  ASSUME ItemInv, NEW r \in Requests, NEW q \in Request, Hold(r, q),
         UNCHANGED <<month, rule, policy, item, linked>>
  PROVE  ItemInv'
BY HoldTyped, ItemsKept DEF ItemInv, TypeOK

LEMMA RuleStepItems ==
  ASSUME ItemInv, NEW r \in Requests, RuleStep(r)
  PROVE  ItemInv'
<1>. USE DEF ItemInv
<1>1. CASE \E k \in Rules, s \in RuleInputs : UpdateRuleRead(r, k, s)
  <2>1. PICK k \in Rules, s \in RuleInputs : UpdateRuleRead(r, k, s)
    BY <1>1
  <2>2. [at |-> "updateRule", rule |-> k, input |-> s] \in Request
    BY DEF Request
  <2>. QED  BY <2>1, <2>2, ReadItems DEF UpdateRuleRead
<1>2. CASE UpdateRuleCommit(r)
  <2>. DEFINE q == req[r]
  <2>1. q.rule \in Rules /\ q.input \in Schedule
    BY <1>2, RequestHolds, RowsTyped DEF UpdateRuleCommit
  <2>2. rule' \in [Rules -> RuleRow \cup {NoRow, DeletedRow}]
    <3>1. CASE LiveRule(q.rule)
      <4>1. rule[q.rule] \in RuleRow
        BY <2>1, <3>1, RowsTyped
      <4>2. PICK cleared :
              rule' = [rule EXCEPT ![q.rule].plan = Written(@, q.input, cleared)]
        BY <1>2, <3>1 DEF UpdateRuleCommit
      <4>3. [rule[q.rule] EXCEPT !.plan = Written(rule[q.rule].plan, q.input, cleared)]
              \in RuleRow
        BY <2>1, <4>1, WrittenTyped DEF RuleRow
      <4>. QED  BY <2>1, <4>2, <4>3 DEF TypeOK
    <3>2. CASE ~ LiveRule(q.rule)
      BY <1>2, <3>2 DEF UpdateRuleCommit, TypeOK
    <3>. QED  BY <3>1, <3>2
  <2>. QED  BY <1>2, <2>2, AnswerTyped, ItemsKept DEF UpdateRuleCommit, TypeOK
<1>3. CASE \E k \in Rules : DeleteRuleRead(r, k)
  <2>1. PICK k \in Rules : DeleteRuleRead(r, k)
    BY <1>3
  <2>2. [at |-> "deleteRule", rule |-> k] \in Request
    BY DEF Request
  <2>. QED  BY <2>1, <2>2, ReadItems DEF DeleteRuleRead
<1>4. CASE DeleteRuleCommit(r)
  <2>1. req[r].rule \in Rules
    BY <1>4, RequestHolds DEF DeleteRuleCommit
  <2>. QED
    BY <1>4, <2>1, WithoutTyped, ItemsWithoutBag, AnswerTyped
       DEF DeleteRuleCommit, TypeOK
<1>. QED  BY <1>1, <1>2, <1>3, <1>4 DEF RuleStep

LEMMA PolicyStepItems ==
  ASSUME ItemInv, NEW r \in Requests, PolicyStep(r)
  PROVE  ItemInv'
<1>. USE DEF ItemInv
<1>. DEFINE q == req[r]
<1>1. CASE \E n \in Names, i \in PolicyInputs : CreatePolicyRead(r, n, i)
  <2>1. PICK n \in Names, i \in PolicyInputs : CreatePolicyRead(r, n, i)
    BY <1>1
  <2>2. [at |-> "createPolicy", name |-> n, input |-> i] \in Request
    BY DEF Request
  <2>. QED  BY <2>1, <2>2, ReadItems DEF CreatePolicyRead
<1>2. CASE \E k \in Rules, p \in Policies : CreatePolicyCommit(r, k, p)
  <2>1. PICK k \in Rules, p \in Policies : CreatePolicyCommit(r, k, p)
    BY <1>2
  <2>2. /\ q.name \in Names /\ q.input \in PolicyInputs
        /\ RulePayload(q.input) \in Schedule
    BY <2>1, RequestHolds, RowsTyped DEF CreatePolicyCommit
  <2>3. [status |-> "live", plan |-> RulePayload(q.input), maker |-> p] \in RuleRow
    BY <2>2 DEF RuleRow
  <2>4. [status |-> "live", name |-> q.name, input |-> q.input, rule |-> k]
          \in PolicyRow
    BY <2>2 DEF PolicyRow
  <2>5. /\ rule' \in [Rules -> RuleRow \cup {NoRow, DeletedRow}]
        /\ policy' \in [Policies -> PolicyRow \cup {NoRow, DeletedRow}]
    BY <2>1, <2>3, <2>4 DEF CreatePolicyCommit, TypeOK
  <2>. QED  BY <2>1, <2>5, AnswerTyped, ItemsKept DEF CreatePolicyCommit, TypeOK
<1>3. CASE CreatePolicyConflict(r)
  BY <1>3, AnswerTyped, ItemsKept DEF CreatePolicyConflict, TypeOK
<1>4. CASE \E p \in Policies, n \in Names, i \in PolicyInputs :
              UpdatePolicyRead(r, p, n, i)
  <2>1. PICK p \in Policies, n \in Names, i \in PolicyInputs :
             UpdatePolicyRead(r, p, n, i)
    BY <1>4
  <2>2. policy[p] \in PolicyRow
    BY <2>1, RowsTyped DEF UpdatePolicyRead
  <2>3. [at |-> "updatePolicy", policy |-> p, name |-> n, input |-> i,
         rule |-> policy[p].rule] \in Request
    BY <2>2 DEF Request, PolicyRow
  <2>. QED  BY <2>1, <2>3, ReadItems DEF UpdatePolicyRead
<1>5. CASE \E k \in Rules : UpdatePolicyCommit(r, k)
  <2>1. PICK k \in Rules : UpdatePolicyCommit(r, k)
    BY <1>5
  <2>2. /\ q.policy \in Policies /\ q.name \in Names /\ q.input \in PolicyInputs
        /\ RulePayload(q.input) \in Schedule
    BY <2>1, RequestHolds, RowsTyped DEF UpdatePolicyCommit
  <2>3. rule' \in [Rules -> RuleRow \cup {NoRow, DeletedRow}]
    <3>1. SyncedRule(q, k) \in [Rules -> RuleRow \cup {NoRow, DeletedRow}]
      <4>1. LiveRule(k) => Written(rule[k].plan, RulePayload(q.input), {}) \in Schedule
        BY <2>2, RowsTyped, WrittenTyped DEF RuleRow
      <4>2. [status |-> "live", maker |-> q.policy,
             plan |-> IF LiveRule(k) THEN Written(rule[k].plan, RulePayload(q.input), {})
                      ELSE RulePayload(q.input)] \in RuleRow
        BY <2>2, <4>1 DEF RuleRow
      <4>. QED  BY <4>2 DEF SyncedRule, TypeOK
    <3>. QED  BY <2>1, <3>1 DEF UpdatePolicyCommit, RuleAfterUpdate, TypeOK
  <2>4. policy' \in [Policies -> PolicyRow \cup {NoRow, DeletedRow}]
    <3>1. CASE UpdateFails(q)
      BY <2>1, <3>1 DEF UpdatePolicyCommit, TypeOK
    <3>2. CASE ~ UpdateFails(q)
      <4>1. policy[q.policy] \in PolicyRow
        BY <2>2, <3>2, RowsTyped DEF UpdateFails
      <4>2. [policy[q.policy] EXCEPT !.name = q.name, !.input = q.input, !.rule = k]
              \in PolicyRow
        BY <2>2, <4>1 DEF PolicyRow
      <4>3. policy' = [policy EXCEPT ![q.policy] =
              [policy[q.policy] EXCEPT !.name = q.name, !.input = q.input, !.rule = k]]
        BY <2>1, <3>2 DEF UpdatePolicyCommit
      <4>. QED  BY <2>2, <4>2, <4>3 DEF TypeOK
    <3>. QED  BY <3>1, <3>2
  <2>. QED  BY <2>1, <2>3, <2>4, AnswerTyped, ItemsKept DEF UpdatePolicyCommit, TypeOK
<1>6. CASE \E p \in Policies : DeletePolicyRead(r, p)
  <2>1. PICK p \in Policies : DeletePolicyRead(r, p)
    BY <1>6
  <2>2. policy[p] \in PolicyRow
    BY <2>1, RowsTyped DEF DeletePolicyRead
  <2>3. [at |-> "deletePolicy", policy |-> p, rule |-> policy[p].rule] \in Request
    BY <2>2 DEF Request, PolicyRow
  <2>. QED  BY <2>1, <2>3, ReadItems DEF DeletePolicyRead
<1>7. CASE DeletePolicyCommit(r)
  <2>1. q.rule \in Rules \cup {NoRule}
    BY <1>7, RequestHolds DEF DeletePolicyCommit
  <2>2. policy' \in [Policies -> PolicyRow \cup {NoRow, DeletedRow}]
    BY <1>7, <2>1, WithoutTyped DEF DeletePolicyCommit
  <2>. QED
    BY <1>7, <2>1, <2>2, WithoutTyped, ItemsWithoutBag, AnswerTyped
       DEF DeletePolicyCommit, TypeOK
<1>. QED
  BY <1>1, <1>2, <1>3, <1>4, <1>5, <1>6, <1>7 DEF PolicyStep

\* What a generation is about to write.
LEMMA DraftsTyped ==
  ASSUME TypeOK, NEW r \in Requests, req[r].at = "generate"
  PROVE  /\ Drafts(req[r]) \subseteq PlanItem
         /\ \A i \in Drafts(req[r]) :
              /\ i.month = req[r].month /\ i.date \in Days(i.month)
              /\ \E p \in req[r].plans :
                   /\ p.rule = i.rule /\ p \in [rule : Rules, plan : Schedule]
                   /\ Resolves(p.plan)
                   /\ i.date \in BuildPlannedDates(p.plan, i.month)
<1>. DEFINE q == req[r]
<1>1. q.month \in Months /\ q.plans \subseteq [rule : Rules, plan : Schedule]
  BY RequestHolds
<1>2. ASSUME NEW i \in Drafts(q)
      PROVE  /\ i \in PlanItem /\ i.month = q.month /\ i.date \in Days(i.month)
             /\ \E p \in q.plans :
                  /\ p.rule = i.rule /\ p \in [rule : Rules, plan : Schedule]
                  /\ Resolves(p.plan)
                  /\ i.date \in BuildPlannedDates(p.plan, i.month)
  <2>1. PICK p \in Resolved(q) : \E d \in BuildPlannedDates(p.plan, q.month) :
             i = [month |-> q.month, rule |-> p.rule, date |-> d]
    BY DEF Drafts
  <2>2. p \in q.plans /\ Resolves(p.plan) /\ p \in [rule : Rules, plan : Schedule]
    BY <1>1, <2>1 DEF Resolved
  <2>3. PICK d \in BuildPlannedDates(p.plan, q.month) :
             i = [month |-> q.month, rule |-> p.rule, date |-> d]
    BY <2>1
  <2>4. d \in Days(q.month) /\ d \in AllDays
    BY <1>1, <2>2, <2>3, PlannedInMonth, DaysApart
  <2>. QED  BY <1>1, <2>2, <2>3, <2>4 DEF PlanItem
<1>. QED  BY <1>2

LEMMA ItemStepItems ==
  ASSUME ItemInv, NEW r \in Requests, ItemStep(r)
  PROVE  ItemInv'
<1>. USE DEF ItemInv
<1>. DEFINE q == req[r]
<1>1. CASE \E m \in Months : GenerateRead(r, m)
  <2>1. PICK m \in Months : GenerateRead(r, m)
    BY <1>1
  <2>. DEFINE items == {i \in BagToSet(item) : i.month = m}
              plans == {[rule |-> k, plan |-> rule[k].plan] :
                              k \in {j \in Rules : Listed(j, m)}}
              due == DueIn(m)
  <2>2. /\ items \subseteq PlanItem /\ due \subseteq Repayments
        /\ \A s \in due : DueDate[s] \in Days(m)
    BY DEF TypeOK, DueIn
  <2>3. plans \subseteq [rule : Rules, plan : Schedule]
    <3>1. ASSUME NEW k \in Rules, Listed(k, m)  PROVE rule[k].plan \in Schedule
      BY <3>1, RowsTyped DEF Listed, RuleRow
    <3>. QED  BY <3>1
  <2>4. [at |-> "generate", month |-> m, items |-> items, plans |-> plans,
         due |-> due] \in Request
    <3>. HIDE DEF items, plans, due
    <3>. QED  BY <2>2, <2>3 DEF Request
  <2>. QED  BY <2>1, <2>4, ReadItems DEF GenerateRead
<1>2. CASE GenerateCommit(r)
  <2>1. /\ q.at = "generate" /\ q.month \in Months /\ q.due \subseteq Repayments
        /\ \A s \in q.due : DueDate[s] \in Days(q.month)
    BY <1>2, RequestHolds DEF GenerateCommit
  <2>2. Inserted(q) \cap BagToSet(item) = {} /\ Inserted(q) \subseteq PlanItem
    BY <2>1, DraftsTyped DEF Inserted
  <2>3. /\ IsABag(item') /\ BagToSet(item') \subseteq PlanItem /\ ItemsOnce(item')
    BY <1>2, <2>1, <2>2, RepaymentBag, GeneratedBag DEF GenerateCommit, TypeOK
  <2>4. req' \in [Requests -> Request]
    <3>1. [at |-> "generated"] \in Request
      BY DEF Request
    <3>. QED  BY <1>2, <3>1, HoldTyped DEF GenerateCommit
  <2>. QED  BY <1>2, <2>1, <2>3, <2>4 DEF GenerateCommit, TypeOK
<1>3. CASE GenerateRollback(r)
  BY <1>3, AnswerTyped, ItemsKept DEF GenerateRollback, TypeOK
<1>4. CASE \E s \in Repayments, m \in Months : RepayRead(r, s, m)
  <2>1. PICK s \in Repayments, m \in Months : RepayRead(r, s, m)
    BY <1>4
  <2>2. [at |-> "repay", repayment |-> s, month |-> m] \in Request
    BY <2>1 DEF Request, RepayRead, DueIn
  <2>. QED  BY <2>1, <2>2, ReadItems DEF RepayRead
<1>5. CASE RepayCommit(r)
  <2>. DEFINE B == RepaymentItems({q.repayment}, q.month)
  <2>1. /\ q.repayment \in Repayments /\ q.month \in Months
        /\ DueDate[q.repayment] \in Days(q.month)
    BY <1>5, RequestHolds DEF RepayCommit
  <2>2. /\ IsABag(B) /\ BagToSet(B) \subseteq PlanItem
        /\ \A i \in BagToSet(B) : i.rule = NoRule
    BY <2>1, RepaymentBag
  <2>3. item' = item (+) B
    BY <1>5 DEF RepayCommit
  <2>. HIDE DEF B
  <2>4. /\ IsABag(item') /\ BagToSet(item') \subseteq PlanItem /\ ItemsOnce(item')
    BY <2>2, <2>3, BagUnited DEF TypeOK, ItemsOnce
  <2>. QED  BY <1>5, <2>1, <2>4, AnswerTyped DEF RepayCommit, TypeOK
<1>. QED  BY <1>1, <1>2, <1>3, <1>4, <1>5 DEF ItemStep

LEMMA NextItems == ItemInv /\ [Next]_vars => ItemInv'
<1>. SUFFICES ASSUME ItemInv, [Next]_vars  PROVE ItemInv'
  OBVIOUS
<1>1. CASE UNCHANGED vars
  BY <1>1, ItemsKept DEF vars, ItemInv, TypeOK
<1>2. ASSUME NEW k \in Rules, NEW s \in RuleInputs, CreateRule(k, s)
      PROVE  ItemInv'
  <2>1. [status |-> "live", plan |-> s, maker |-> NoPolicy] \in RuleRow
    BY PlanConstants DEF RuleRow
  <2>2. rule' \in [Rules -> RuleRow \cup {NoRow, DeletedRow}]
    BY <1>2, <2>1 DEF CreateRule, ItemInv, TypeOK
  <2>. QED  BY <1>2, <2>2, ItemsKept DEF CreateRule, ItemInv, TypeOK
<1>. QED
  BY <1>1, <1>2, MonthItems, RuleStepItems, PolicyStepItems, ItemStepItems
     DEF Next

LEMMA SpecItems == Spec => []ItemInv
<1>. QED  BY InitItems, NextItems, PTL DEF Spec

\* Rows, items and requests in flight keep their types, for any number of
\* requests that generate, change and delete at once.
THEOREM PlanningTyped == Spec => []TypeOK
<1>1. ItemInv => TypeOK
  BY DEF ItemInv
<1>. QED  BY <1>1, SpecItems, PTL

\* No date of a rule is planned twice, however many generations overlap and
\* whatever happens to rules and policies between their reads and writes.
THEOREM PlannedOnce == Spec => []OccurrenceOnce
<1>1. ItemInv => OccurrenceOnce
  <2>. SUFFICES ASSUME ItemInv, NEW i \in BagToSet(item), NEW j \in BagToSet(item),
                       i.rule # NoRule, i.rule = j.rule, i.date = j.date
                PROVE  i = j /\ item[i] = 1
    BY DEF OccurrenceOnce
  <2>1. i \in PlanItem /\ j \in PlanItem
    BY DEF ItemInv, TypeOK
  <2>2. /\ item[i] = 1 /\ i.date \in Days(i.month) /\ i.date \in Days(j.month)
    BY <2>1 DEF ItemInv, ItemsOnce, PlanItem
  <2>3. i.month = j.month
    BY <2>1, <2>2, DaysApart DEF PlanItem
  <2>. QED  BY <2>1, <2>2, <2>3 DEF PlanItem
<1>. QED  BY <1>1, SpecItems, PTL

-----------------------------------------------------------------------------
(* Policies and their rules                                                  *)

\* A live policy is paid by a live rule that was made for it.
Paid(p) ==
    LivePolicy(p) =>
        LET k == policy[p].rule IN
        /\ LiveRule(k) /\ rule[k].maker = p
        /\ rule[k].plan = [RulePayload(policy[p].input) EXCEPT !.end = rule[k].plan.end]

\* A live rule that was made for a policy pays it.
Owned(k) ==
    LiveRule(k) /\ rule[k].maker # NoPolicy =>
        /\ LivePolicy(rule[k].maker)
        /\ policy[rule[k].maker].rule = k

\* What a request has read stays true as far as its writes rely on it: a rule
\* without a policy never gets one, and a policy keeps its rule while it lives.
Informed(q) ==
    /\ q.at \in {"updateRule", "deleteRule"} =>
         /\ rule[q.rule] # NoRow
         /\ LiveRule(q.rule) => rule[q.rule].maker = NoPolicy
    /\ q.at \in {"updatePolicy", "deletePolicy"} =>
         /\ q.rule \in Rules /\ rule[q.rule] # NoRow
         /\ policy[q.policy] # NoRow
         /\ LiveRule(q.rule) => rule[q.rule].maker = q.policy
         /\ LivePolicy(q.policy) => policy[q.policy].rule = q.rule

RuleInv ==
    /\ \A p \in Policies : Paid(p)
    /\ \A k \in Rules : Owned(k)
    /\ \A r \in Requests : Informed(req[r])

\* No row comes back, changes its maker, or, a policy, its rule.
RowsStay ==
    /\ \A k \in Rules : rule[k] # NoRow =>
         /\ rule'[k] # NoRow
         /\ LiveRule(k)' => LiveRule(k) /\ rule'[k].maker = rule[k].maker
    /\ \A p \in Policies : policy[p] # NoRow =>
         /\ policy'[p] # NoRow
         /\ LivePolicy(p)' => LivePolicy(p) /\ policy'[p].rule = policy[p].rule

LEMMA InformedStays ==
  ASSUME TypeOK, RowsStay, NEW r \in Requests, Informed(req[r]), req'[r] = req[r]
  PROVE  Informed(req[r])'
BY RequestHolds DEF RowsStay, Informed

\* A commit answers its request.
LEMMA CommitInforms ==
  ASSUME TypeOK, RuleInv, RowsStay, NEW r \in Requests, Answer(r)
  PROVE  \A x \in Requests : Informed(req[x])'
<1>1. req'[r].at = "idle"
  BY DEF TypeOK, Answer, Hold, Idle
<1>2. \A x \in Requests \ {r} : req'[x] = req[x]
  BY DEF TypeOK, Answer, Hold
<1>3. Informed(req[r])'
  BY <1>1 DEF Informed
<1>. QED  BY <1>2, <1>3, InformedStays DEF RuleInv

\* A step that leaves rules and policies alone.
LEMMA RulesUnchanged ==
  ASSUME TypeOK, RuleInv, UNCHANGED <<rule, policy>>,
         \A x \in Requests : req'[x] = req[x] \/ Informed(req[x])'
  PROVE  RuleInv'
<1>1. RowsStay
  BY DEF RowsStay, LiveRule, LivePolicy
<1>2. \A x \in Requests : Informed(req[x])'
  BY <1>1, InformedStays DEF RuleInv
<1>3. \A p \in Policies : Paid(p)'
  BY DEF RuleInv, Paid, LivePolicy, LiveRule
<1>4. \A k \in Rules : Owned(k)'
  BY DEF RuleInv, Owned, LivePolicy, LiveRule
<1>. QED  BY <1>2, <1>3, <1>4 DEF RuleInv

\* A step that turns one request into q.
LEMMA HoldRules ==
  ASSUME TypeOK, RuleInv, UNCHANGED <<rule, policy>>, NEW r \in Requests, NEW q,
         Hold(r, q), Informed(q)
  PROVE  RuleInv'
<1>1. \A x \in Requests : IF x = r THEN req'[x] = q ELSE req'[x] = req[x]
  BY DEF TypeOK, Hold
<1>2. Informed(req[r])'
  BY <1>1 DEF Informed, LiveRule, LivePolicy
<1>. QED  BY <1>1, <1>2, RulesUnchanged

\* A live rule that no policy manages was made for none.
LEMMA ManagedRules ==
  ASSUME TypeOK, RuleInv, NEW k \in Rules, LiveRule(k), ~ ManagedByPolicy(k)
  PROVE  rule[k].maker = NoPolicy
<1>1. rule[k] \in RuleRow
  BY RowsTyped
<1>. QED  BY <1>1 DEF RuleInv, Owned, ManagedByPolicy, RuleRow

\* The rule of a live policy is one of the rules.
LEMMA LivePaid ==
  ASSUME RuleInv
  PROVE  \A p \in Policies : LivePolicy(p) => policy[p].rule \in Rules
BY DEF RuleInv, Paid, LiveRule

\* A policy and its rule that stay as they are.
LEMMA PaidStays ==
  ASSUME NEW p, Paid(p), policy'[p] = policy[p],
         LivePolicy(p) => rule'[policy[p].rule] = rule[policy[p].rule]
  PROVE  Paid(p)'
BY DEF Paid, LivePolicy, LiveRule, RulePayload, DayOf, MonthOf

LEMMA InitRules == Init => RuleInv
BY DEF Init, RuleInv, Paid, Owned, Informed, LiveRule, LivePolicy, NoRow, Idle

LEMMA CreateRuleRules ==
  ASSUME TypeOK, RuleInv, NEW k \in Rules, NEW s \in RuleInputs, CreateRule(k, s)
  PROVE  RuleInv'
<1>1. rule[k] = NoRow /\ ~ LiveRule(k)
  BY DEF CreateRule, FreshRule, LiveRule, NoRow
<1>2. /\ rule'[k] = [status |-> "live", plan |-> s, maker |-> NoPolicy]
      /\ \A j \in Rules \ {k} : rule'[j] = rule[j]
      /\ policy' = policy /\ req' = req
  BY DEF CreateRule, TypeOK
<1>3. RowsStay
  BY <1>1, <1>2 DEF RowsStay, LiveRule, LivePolicy
<1>4. \A p \in Policies : Paid(p)'
  <2>1. \A p \in Policies : LivePolicy(p) => policy[p].rule \in Rules \ {k}
    BY <1>1 DEF RuleInv, Paid, LiveRule
  <2>. QED  BY <1>2, <2>1, PaidStays DEF RuleInv
<1>5. \A j \in Rules : Owned(j)'
  BY <1>2 DEF RuleInv, Owned, LivePolicy, LiveRule
<1>. QED  BY <1>2, <1>3, <1>4, <1>5, InformedStays DEF RuleInv

\* A rule that is about to be changed or deleted by itself pays no policy.
LEMMA PaidByOthers ==
  ASSUME TypeOK, RuleInv, NEW k \in Rules,
         LiveRule(k) => rule[k].maker = NoPolicy
  PROVE  \A p \in Policies : LivePolicy(p) => policy[p].rule # k
<1>. SUFFICES ASSUME NEW p \in Policies, LivePolicy(p), policy[p].rule = k
              PROVE  FALSE
  OBVIOUS
<1>1. LiveRule(k) /\ rule[k].maker = p
  BY DEF RuleInv, Paid
<1>2. p # NoPolicy
  BY PlanConstants DEF Policies, NoPolicy
<1>. QED  BY <1>1, <1>2

LEMMA UpdateRuleRules ==
  ASSUME TypeOK, RuleInv, NEW r \in Requests, UpdateRuleCommit(r)
  PROVE  RuleInv'
<1>. DEFINE k == req[r].rule
<1>1. k \in Rules /\ (LiveRule(k) => rule[k].maker = NoPolicy)
  BY RequestHolds DEF UpdateRuleCommit, RuleInv, Informed
<1>2. \A p \in Policies : LivePolicy(p) => policy[p].rule # k
  BY <1>1, PaidByOthers
<1>3. /\ policy' = policy /\ Answer(r)
      /\ \A j \in Rules \ {k} : rule'[j] = rule[j]
  BY <1>1 DEF UpdateRuleCommit, TypeOK
<1>4. IF LiveRule(k) THEN rule'[k].status = "live" /\ rule'[k].maker = rule[k].maker
                     ELSE rule'[k] = rule[k]
  <2>1. CASE LiveRule(k)
    <3>1. rule[k] \in RuleRow
      BY <1>1, <2>1, RowsTyped
    <3>2. \E plan : rule'[k] = [rule[k] EXCEPT !.plan = plan]
      BY <1>1, <2>1 DEF UpdateRuleCommit, TypeOK
    <3>. QED  BY <2>1, <3>1, <3>2 DEF RuleRow
  <2>2. CASE ~ LiveRule(k)
    BY <2>2 DEF UpdateRuleCommit
  <2>. QED  BY <2>1, <2>2
<1>. HIDE DEF k
<1>5. RowsStay
  BY <1>1, <1>3, <1>4 DEF RowsStay, LiveRule, LivePolicy, NoRow
<1>6. \A p \in Policies : Paid(p)'
  BY <1>2, <1>3, LivePaid, PaidStays DEF RuleInv
<1>7. \A j \in Rules : Owned(j)'
  BY <1>1, <1>3, <1>4 DEF RuleInv, Owned, LivePolicy, LiveRule
<1>. QED  BY <1>3, <1>5, <1>6, <1>7, CommitInforms DEF RuleInv

LEMMA DeleteRuleRules ==
  ASSUME TypeOK, RuleInv, NEW r \in Requests, DeleteRuleCommit(r)
  PROVE  RuleInv'
<1>1. PICK k \in Rules : /\ k = req[r].rule
                         /\ LiveRule(k) => rule[k].maker = NoPolicy
  BY RequestHolds DEF DeleteRuleCommit, RuleInv, Informed
<1>2. \A p \in Policies : LivePolicy(p) => policy[p].rule # k
  BY <1>1, PaidByOthers
<1>3. policy' = policy
  <2>1. \A p \in Policies : policy'[p] = policy[p]
    BY <1>1, <1>2 DEF DeleteRuleCommit, PoliciesWithout
  <2>2. DOMAIN policy' = Policies /\ policy' = [p \in Policies |-> policy'[p]]
    BY DEF DeleteRuleCommit, PoliciesWithout
  <2>. QED  BY <2>1, <2>2 DEF TypeOK
<1>4. /\ Answer(r)
      /\ \A j \in Rules \ {k} : rule'[j] = rule[j]
      /\ rule'[k] = rule[k] \/ rule'[k] = DeletedRow
      /\ ~ LiveRule(k)'
  <2>1. rule' = RulesWithout(k) /\ Answer(r)
    BY <1>1 DEF DeleteRuleCommit
  <2>2. CASE LiveRule(k)
    BY <1>1, <2>1, <2>2 DEF RulesWithout, TypeOK, LiveRule, DeletedRow
  <2>3. CASE ~ LiveRule(k)
    BY <2>1, <2>3 DEF RulesWithout, LiveRule
  <2>. QED  BY <2>1, <2>2, <2>3
<1>5. RowsStay
  BY <1>1, <1>3, <1>4 DEF RowsStay, LiveRule, LivePolicy, NoRow, DeletedRow
<1>6. \A p \in Policies : Paid(p)'
  BY <1>2, <1>3, <1>4, LivePaid, PaidStays DEF RuleInv
<1>7. \A j \in Rules : Owned(j)'
  BY <1>1, <1>3, <1>4 DEF RuleInv, Owned, LivePolicy, LiveRule
<1>. QED  BY <1>4, <1>5, <1>6, <1>7, CommitInforms DEF RuleInv

LEMMA RuleStepRules ==
  ASSUME TypeOK, RuleInv, NEW r \in Requests, RuleStep(r)
  PROVE  RuleInv'
<1>1. ASSUME NEW k \in Rules, NEW s \in RuleInputs, UpdateRuleRead(r, k, s)
      PROVE  RuleInv'
  <2>. DEFINE q == [at |-> "updateRule", rule |-> k, input |-> s]
  <2>1. Informed(q)
    BY <1>1, ManagedRules DEF UpdateRuleRead, Informed, LiveRule, NoRow
  <2>. QED  BY <1>1, <2>1, HoldRules DEF UpdateRuleRead
<1>2. ASSUME NEW k \in Rules, DeleteRuleRead(r, k)  PROVE RuleInv'
  <2>. DEFINE q == [at |-> "deleteRule", rule |-> k]
  <2>1. Informed(q)
    BY <1>2, ManagedRules DEF DeleteRuleRead, Informed, LiveRule, NoRow
  <2>. QED  BY <1>2, <2>1, HoldRules DEF DeleteRuleRead
<1>. QED  BY <1>1, <1>2, UpdateRuleRules, DeleteRuleRules DEF RuleStep

LEMMA CreatePolicyRules ==
  ASSUME TypeOK, RuleInv, NEW r \in Requests, NEW k \in Rules, NEW p \in Policies,
         CreatePolicyCommit(r, k, p)
  PROVE  RuleInv'
<1>. DEFINE q == req[r]
<1>1. /\ rule[k] = NoRow /\ ~ LiveRule(k)
      /\ policy[p] = NoRow /\ ~ LivePolicy(p)
  BY DEF CreatePolicyCommit, FreshRule, FreshPolicy, LiveRule, LivePolicy, NoRow
<1>2. /\ Answer(r)
      /\ rule'[k] = [status |-> "live", plan |-> RulePayload(q.input), maker |-> p]
      /\ \A j \in Rules \ {k} : rule'[j] = rule[j]
      /\ policy'[p] = [status |-> "live", name |-> q.name, input |-> q.input,
                       rule |-> k]
      /\ \A o \in Policies \ {p} : policy'[o] = policy[o]
  BY DEF CreatePolicyCommit, TypeOK
<1>3. RowsStay
  BY <1>1, <1>2 DEF RowsStay, LiveRule, LivePolicy, NoRow
<1>4. Paid(p)'
  <2>1. RulePayload(q.input) \in Schedule
    BY RequestHolds, RowsTyped DEF CreatePolicyCommit
  <2>3. RulePayload(policy[p].input)' = RulePayload(q.input)
    BY <1>2 DEF RulePayload, DayOf, MonthOf
  <2>. QED  BY <1>2, <2>1, <2>3 DEF Paid, LiveRule, Schedule
<1>5. \A o \in Policies \ {p} : Paid(o)'
  <2>1. \A o \in Policies : LivePolicy(o) => policy[o].rule \in Rules \ {k}
    BY <1>1 DEF RuleInv, Paid, LiveRule
  <2>. HIDE DEF q
  <2>. QED  BY <1>2, <2>1, PaidStays DEF RuleInv
<1>6. \A j \in Rules \ {k} : Owned(j)'
  <2>. SUFFICES ASSUME NEW j \in Rules \ {k}, LiveRule(j)', rule'[j].maker # NoPolicy
                PROVE  LivePolicy(rule[j].maker)' /\ policy'[rule'[j].maker].rule = j
    BY DEF Owned
  <2>1. LiveRule(j) /\ rule'[j] = rule[j]
    BY <1>2 DEF LiveRule
  <2>2. rule[j].maker \in Policies /\ LivePolicy(rule[j].maker)
        /\ policy[rule[j].maker].rule = j
    BY <2>1, RowsTyped DEF RuleInv, Owned, RuleRow
  <2>. QED  BY <1>1, <1>2, <2>1, <2>2 DEF LivePolicy
<1>7. Owned(k)'
  BY <1>2 DEF Owned, LivePolicy
<1>. QED  BY <1>2, <1>3, <1>4, <1>5, <1>6, <1>7, CommitInforms DEF RuleInv

\* A request that is answered without writing rules or policies.
LEMMA AnswerRules ==
  ASSUME TypeOK, RuleInv, UNCHANGED <<rule, policy>>, NEW r \in Requests, Answer(r)
  PROVE  RuleInv'
<1>1. Informed(Idle)
  BY DEF Informed, Idle
<1>. QED  BY <1>1, HoldRules DEF Answer

LEMMA UpdatePolicyRules ==
  ASSUME TypeOK, RuleInv, NEW r \in Requests, NEW k \in Rules,
         UpdatePolicyCommit(r, k)
  PROVE  RuleInv'
<1>1. CASE UpdateFails(req[r])
  BY <1>1, AnswerRules DEF UpdatePolicyCommit, RuleAfterUpdate
<1>2. CASE ~ UpdateFails(req[r])
  <2>1. PICK q : q = req[r]
    OBVIOUS
  <2>2. PICK p \in Policies : p = q.policy
    BY <2>1, RequestHolds DEF UpdatePolicyCommit
  <2>3. LivePolicy(p) /\ policy[p].rule = q.rule /\ policy[p] \in PolicyRow
    BY <1>2, <2>1, <2>2, RowsTyped DEF UpdateFails, UpdatePolicyCommit, RuleInv, Informed
  <2>4. LiveRule(k) /\ k = q.rule /\ rule[k].maker = p /\ rule[k] \in RuleRow
    <3>1. LiveRule(q.rule) /\ rule[q.rule].maker = p
      BY <2>3 DEF RuleInv, Paid
    <3>2. k = q.rule
      BY <2>1, <3>1 DEF UpdatePolicyCommit
    <3>. QED  BY <3>1, <3>2, RowsTyped
  <2>. DEFINE plan == Written(rule[k].plan, RulePayload(q.input), {})
  <2>5. plan = [RulePayload(q.input) EXCEPT !.end = plan.end]
    BY <2>1, <2>4, RequestHolds, RowsTyped, WrittenTyped DEF UpdatePolicyCommit, RuleRow
  <2>6. /\ rule'[k] = [status |-> "live", maker |-> p, plan |-> plan]
        /\ \A j \in Rules \ {k} : rule'[j] = rule[j]
    BY <1>2, <2>1, <2>2, <2>4
       DEF UpdatePolicyCommit, RuleAfterUpdate, SyncedRule, TypeOK
  <2>7. /\ Answer(r)
        /\ policy'[p] = [policy[p] EXCEPT !.name = q.name, !.input = q.input, !.rule = k]
        /\ \A o \in Policies \ {p} : policy'[o] = policy[o]
    BY <1>2, <2>1, <2>2 DEF UpdatePolicyCommit, TypeOK
  <2>8. /\ policy'[p].status = "live" /\ policy'[p].rule = k
        /\ policy'[p].input = q.input
    BY <2>3, <2>7 DEF PolicyRow, LivePolicy
  <2>9. RowsStay
    <3>1. rule'[k].status = "live" /\ rule'[k].maker = rule[k].maker
      BY <2>4, <2>6
    <3>2. rule'[k] # NoRow /\ policy'[p] # NoRow
      BY <2>8, <3>1 DEF NoRow
    <3>3. policy'[p].rule = policy[p].rule
      BY <2>3, <2>4, <2>8
    <3>. HIDE DEF plan
    <3>. QED
      BY <2>3, <2>4, <2>6, <2>7, <3>1, <3>2, <3>3 DEF RowsStay, LiveRule, LivePolicy
  <2>10. Paid(p)'
    <3>1. RulePayload(policy[p].input)' = RulePayload(q.input)
      BY <2>8 DEF RulePayload, DayOf, MonthOf
    <3>2. rule'[k].plan = [RulePayload(q.input) EXCEPT !.end = rule'[k].plan.end]
      BY <2>5, <2>6
    <3>. HIDE DEF plan
    <3>. QED  BY <2>6, <2>8, <3>1, <3>2 DEF Paid, LiveRule
  <2>11. ASSUME NEW o \in Policies \ {p}  PROVE Paid(o)'
    <3>1. LivePolicy(o) => policy[o].rule \in Rules \ {k}
      BY <2>4 DEF RuleInv, Paid, LiveRule
    <3>. QED  BY <2>6, <2>7, <3>1, PaidStays DEF RuleInv
  <2>12. ASSUME NEW j \in Rules \ {k}  PROVE Owned(j)'
    <3>. SUFFICES ASSUME LiveRule(j)', rule'[j].maker # NoPolicy
                  PROVE  /\ LivePolicy(rule[j].maker)'
                         /\ policy'[rule'[j].maker].rule = j
      BY DEF Owned
    <3>1. LiveRule(j) /\ rule'[j] = rule[j]
      BY <2>6 DEF LiveRule
    <3>2. /\ rule[j].maker \in Policies /\ LivePolicy(rule[j].maker)
          /\ policy[rule[j].maker].rule = j
      BY <3>1, RowsTyped DEF RuleInv, Owned, RuleRow
    <3>3. rule[j].maker # p
      BY <2>3, <2>4, <3>2
    <3>. QED  BY <2>7, <3>1, <3>2, <3>3 DEF LivePolicy
  <2>13. Owned(k)'
    BY <2>6, <2>8 DEF Owned, LivePolicy
  <2>. QED  BY <2>7, <2>9, <2>10, <2>11, <2>12, <2>13, CommitInforms DEF RuleInv
<1>. QED  BY <1>1, <1>2

LEMMA DeletePolicyRules ==
  ASSUME TypeOK, RuleInv, NEW r \in Requests, DeletePolicyCommit(r)
  PROVE  RuleInv'
<1>1. req[r].policy \in Policies /\ req[r].rule \in Rules
  BY RequestHolds DEF DeletePolicyCommit, RuleInv, Informed
<1>2. PICK p \in Policies, k \in Rules : p = req[r].policy /\ k = req[r].rule
  BY <1>1
<1>3. /\ LiveRule(k) => rule[k].maker = p
      /\ LivePolicy(p) => policy[p].rule = k
  BY <1>2 DEF DeletePolicyCommit, RuleInv, Informed
<1>4. \A o \in Policies \ {p} : LivePolicy(o) => policy[o].rule # k
  BY <1>3 DEF RuleInv, Paid
<1>5. /\ Answer(r)
      /\ rule' = RulesWithout(k)
      /\ policy' = [PoliciesWithout(k) EXCEPT ![p] = DeletedRow]
  BY <1>2 DEF DeletePolicyCommit
<1>6. /\ \A j \in Rules \ {k} : rule'[j] = rule[j]
      /\ rule'[k] = rule[k] \/ rule'[k] = DeletedRow
      /\ ~ LiveRule(k)'
  <2>1. CASE LiveRule(k)
    BY <1>5, <2>1 DEF RulesWithout, TypeOK, LiveRule, DeletedRow
  <2>2. CASE ~ LiveRule(k)
    BY <1>5, <2>2 DEF RulesWithout, LiveRule
  <2>. QED  BY <2>1, <2>2
<1>7. policy'[p] = DeletedRow /\ \A o \in Policies \ {p} : policy'[o] = policy[o]
  BY <1>4, <1>5 DEF PoliciesWithout
<1>8. RowsStay
  BY <1>6, <1>7 DEF RowsStay, LiveRule, LivePolicy, NoRow, DeletedRow
<1>9. \A o \in Policies : Paid(o)'
  <2>1. Paid(p)'
    BY <1>7 DEF Paid, LivePolicy, DeletedRow
  <2>2. \A o \in Policies \ {p} : Paid(o)'
    BY <1>4, <1>6, <1>7, LivePaid, PaidStays DEF RuleInv
  <2>. QED  BY <2>1, <2>2
<1>10. ASSUME NEW j \in Rules  PROVE Owned(j)'
  <2>. SUFFICES ASSUME LiveRule(j)', rule'[j].maker # NoPolicy
                PROVE  /\ LivePolicy(rule[j].maker)'
                       /\ policy'[rule'[j].maker].rule = j
    BY DEF Owned
  <2>1. j # k /\ LiveRule(j) /\ rule'[j] = rule[j]
    BY <1>6 DEF LiveRule
  <2>2. /\ rule[j].maker \in Policies /\ LivePolicy(rule[j].maker)
        /\ policy[rule[j].maker].rule = j
    BY <2>1, RowsTyped DEF RuleInv, Owned, RuleRow
  <2>3. rule[j].maker # p
    BY <1>3, <2>1, <2>2
  <2>. QED  BY <1>7, <2>1, <2>2, <2>3 DEF LivePolicy
<1>. QED  BY <1>5, <1>8, <1>9, <1>10, CommitInforms DEF RuleInv

LEMMA PolicyStepRules ==
  ASSUME TypeOK, RuleInv, NEW r \in Requests, PolicyStep(r)
  PROVE  RuleInv'
<1>1. ASSUME NEW n \in Names, NEW i \in PolicyInputs, CreatePolicyRead(r, n, i)
      PROVE  RuleInv'
  <2>. DEFINE q == [at |-> "createPolicy", name |-> n, input |-> i]
  <2>1. Informed(q)
    BY DEF Informed
  <2>. QED  BY <1>1, <2>1, HoldRules DEF CreatePolicyRead
<1>2. CASE CreatePolicyConflict(r)
  BY <1>2, AnswerRules DEF CreatePolicyConflict
<1>3. ASSUME NEW p \in Policies, NEW n \in Names, NEW i \in PolicyInputs,
             UpdatePolicyRead(r, p, n, i)
      PROVE  RuleInv'
  <2>. DEFINE q == [at |-> "updatePolicy", policy |-> p, name |-> n, input |-> i,
                    rule |-> policy[p].rule]
  <2>1. /\ LivePolicy(p) /\ LiveRule(policy[p].rule)
        /\ rule[policy[p].rule].maker = p
    BY <1>3 DEF UpdatePolicyRead, RuleInv, Paid
  <2>2. Informed(q)
    BY <2>1 DEF Informed, LiveRule, LivePolicy, NoRow
  <2>. QED  BY <1>3, <2>2, HoldRules DEF UpdatePolicyRead
<1>4. ASSUME NEW p \in Policies, DeletePolicyRead(r, p)  PROVE RuleInv'
  <2>. DEFINE q == [at |-> "deletePolicy", policy |-> p, rule |-> policy[p].rule]
  <2>1. /\ LivePolicy(p) /\ LiveRule(policy[p].rule)
        /\ rule[policy[p].rule].maker = p
    BY <1>4 DEF DeletePolicyRead, RuleInv, Paid
  <2>2. Informed(q)
    BY <2>1 DEF Informed, LiveRule, LivePolicy, NoRow
  <2>. QED  BY <1>4, <2>2, HoldRules DEF DeletePolicyRead
<1>. QED
  BY <1>1, <1>2, <1>3, <1>4, CreatePolicyRules, UpdatePolicyRules, DeletePolicyRules
     DEF PolicyStep

\* Generations and repayments leave rules and policies alone.
LEMMA ItemStepRules ==
  ASSUME TypeOK, RuleInv, NEW r \in Requests, ItemStep(r)
  PROVE  RuleInv'
<1>1. UNCHANGED <<rule, policy>>
  BY DEF ItemStep, GenerateRead, GenerateCommit, GenerateRollback, RepayRead, RepayCommit
<1>2. CASE \E m \in Months : GenerateRead(r, m)
  <2>1. PICK m \in Months : GenerateRead(r, m)
    BY <1>2
  <2>2. PICK q : Hold(r, q) /\ q.at = "generate"
    BY <2>1 DEF GenerateRead
  <2>. QED  BY <1>1, <2>2, HoldRules DEF Informed
<1>3. CASE GenerateCommit(r)
  <2>1. PICK q : Hold(r, q) /\ q.at = "generated"
    BY <1>3 DEF GenerateCommit
  <2>. QED  BY <1>1, <2>1, HoldRules DEF Informed
<1>4. CASE \E s \in Repayments, m \in Months : RepayRead(r, s, m)
  <2>1. PICK s \in Repayments, m \in Months : RepayRead(r, s, m)
    BY <1>4
  <2>2. PICK q : Hold(r, q) /\ q.at = "repay"
    BY <2>1 DEF RepayRead
  <2>. QED  BY <1>1, <2>2, HoldRules DEF Informed
<1>5. CASE GenerateRollback(r) \/ RepayCommit(r)
  BY <1>1, <1>5, AnswerRules DEF GenerateRollback, RepayCommit
<1>. QED  BY <1>2, <1>3, <1>4, <1>5 DEF ItemStep

LEMMA NextRules == TypeOK /\ RuleInv /\ [Next]_vars => RuleInv'
<1>. SUFFICES ASSUME TypeOK, RuleInv, [Next]_vars  PROVE RuleInv'
  OBVIOUS
<1>1. CASE UNCHANGED vars
  BY <1>1, RulesUnchanged DEF vars
<1>2. ASSUME NEW m \in Months, OpenMonth(m) \/ CloseMonth(m)  PROVE RuleInv'
  BY <1>2, RulesUnchanged DEF OpenMonth, CloseMonth
<1>. QED
  BY <1>1, <1>2, CreateRuleRules, RuleStepRules, PolicyStepRules, ItemStepRules
     DEF Next

\* A policy and the rule that pays it live and die together, whatever
\* overlaps: updates of either, deletions, renames to a taken name.
THEOREM PoliciesKeepRules == Spec => []PolicyRuleTogether
<1>1. RuleInv => PolicyRuleTogether
  BY DEF RuleInv, Paid, Owned, PolicyRuleTogether
<1>. QED  BY <1>1, InitItems, InitRules, NextItems, NextRules, PTL DEF Spec, ItemInv

-----------------------------------------------------------------------------
(* What is planned is what is due                                            *)

\* The calendar ends before a rule has been followed for MaxOccurrences dates:
\* 400 of them, seven and a half years of weeks.
OccurrencesSuffice ==
    /\ MaxOccurrences >= Len(FirstDay)
    /\ MaxOccurrences * WeekLength >= FirstDay[Len(FirstDay)]

LEMMA Multiples ==
  ASSUME NEW x \in Nat, NEW n \in Nat \ {0}
  PROVE  x % n = 0 <=> \E i \in Nat : x = i * n
<1>1. ASSUME x % n = 0  PROVE \E i \in Nat : x = i * n
  BY <1>1
<1>2. ASSUME NEW i \in Nat, x = i * n  PROVE x % n = 0
  BY <1>2
<1>. QED  BY <1>1, <1>2

\* The month of a day is the one month it lies in, and later months have later
\* days.
LEMMA MonthsOrdered ==
  ASSUME NEW m \in Months, NEW d \in Days(m)
  PROVE  /\ d \in AllDays /\ MonthOf(d) = m /\ DayOf(d) = d - FirstDay[m] + 1
         /\ \A n \in Months : \A e \in Days(n) : m < n => d < e
<1>1. d \in AllDays /\ MonthOf(d) = m
  BY DaysApart, MonthFound
<1>2. ASSUME NEW n \in Months, NEW e \in Days(n), m < n
      PROVE  d < e
  <2>1. /\ m \in 1..Len(FirstDay) /\ m + 1 \in 1..Len(FirstDay)
        /\ n \in 1..Len(FirstDay) /\ n + 1 \in 1..Len(FirstDay)
    BY MonthFirstDays
  <2>2. FirstDay[m + 1] <= FirstDay[n]
    BY <1>2, <2>1, MonthFirstDays
  <2>3. d < FirstDay[m + 1] /\ FirstDay[n] <= e /\ d \in Int /\ e \in Int
    BY <2>1, MonthFirstDays DEF Days
  <2>. QED  BY <2>1, <2>2, <2>3, MonthFirstDays
<1>. QED  BY <1>1, <1>2 DEF DayOf

\* A date of a month is its preferred day, or its last day when it lacks that.
LEMMA DateOfMonth ==
  ASSUME NEW m \in Months, NEW day \in 1..31
  PROVE  /\ CreateMonthDate(m, day) \in Days(m)
         /\ \A d \in Days(m) :
              d = CreateMonthDate(m, day)
              <=> \/ d - FirstDay[m] + 1 = day
                  \/ d - FirstDay[m] + 1 < day /\ d + 1 \notin Days(m)
<1>1. /\ FirstDay[m] \in Nat /\ FirstDay[m + 1] \in Nat
      /\ FirstDay[m] < FirstDay[m + 1]
  BY MonthFirstDays
<1>. QED  BY <1>1 DEF CreateMonthDate, Days

LEMMA WeeklyDates ==
  ASSUME OccurrencesSuffice, NEW s \in Schedule, s.freq = "WEEKLY",
         NEW m \in Months, NEW d \in Days(m)
  PROVE  d \in BuildPlannedDates(s, m) <=> Due(s, d)
<1>1. /\ s.start \in Nat /\ s.start >= 1 /\ d \in Nat
      /\ d < FirstDay[Len(FirstDay)]
      /\ FirstDay[Len(FirstDay)] \in Nat
      /\ WeekLength \in Nat \ {0} /\ MaxOccurrences \in Nat
  BY MonthsOrdered, MonthFirstDays, CalendarConstants DEF Schedule, AllDays
<1>2. ASSUME NEW i \in 0..(MaxOccurrences - 1), d = s.start + i * WeekLength
      PROVE  d >= s.start /\ (d - s.start) % WeekLength = 0
  <2>1. i \in Nat /\ i * WeekLength \in Nat /\ d - s.start = i * WeekLength
    BY <1>1, <1>2
  <2>2. PICK x \in Nat : x = d - s.start
    BY <2>1
  <2>3. x % WeekLength = 0
    BY <1>1, <2>1, <2>2, Multiples
  <2>4. x >= 0 /\ d = s.start + x
    BY <1>1, <2>2
  <2>. QED  BY <1>1, <2>2, <2>3, <2>4
<1>3. ASSUME d >= s.start, (d - s.start) % WeekLength = 0
      PROVE  \E i \in 0..(MaxOccurrences - 1) : d = s.start + i * WeekLength
  <2>1. d - s.start \in Nat
    BY <1>1, <1>3
  <2>2. PICK i \in Nat : d - s.start = i * WeekLength
    BY <1>1, <1>3, <2>1, Multiples
  <2>3. i < MaxOccurrences
    <3>1. \A a, b \in Nat : a >= b => a * WeekLength >= b * WeekLength
      BY <1>1
    <3>2. SUFFICES ASSUME i >= MaxOccurrences  PROVE FALSE
      BY <1>1
    <3>3. i * WeekLength >= FirstDay[Len(FirstDay)]
      <4>1. i * WeekLength >= MaxOccurrences * WeekLength
        BY <1>1, <3>1, <3>2
      <4>2. \A a, b, c \in Nat : a >= b /\ b >= c => a >= c
        OBVIOUS
      <4>3. i * WeekLength \in Nat /\ MaxOccurrences * WeekLength \in Nat
        BY <1>1
      <4>. QED  BY <1>1, <4>1, <4>2, <4>3 DEF OccurrencesSuffice
    <3>. QED  BY <1>1, <2>2, <3>3
  <2>4. i \in 0..(MaxOccurrences - 1)
    BY <1>1, <2>3
  <2>5. PICK x \in Nat : x = i * WeekLength
    BY <1>1
  <2>6. d = s.start + x
    BY <1>1, <2>2, <2>5
  <2>. QED  BY <2>4, <2>5, <2>6
<1>. QED  BY <1>2, <1>3 DEF BuildPlannedDates, BuildWeeklyDates, Due

\* For the other frequencies, whether or not the first date is past at the start.
LEMMA MonthlyDates ==
  ASSUME OccurrencesSuffice, NEW s \in Schedule, s.freq # "WEEKLY",
         NEW m \in Months, NEW d \in Days(m)
  PROVE  d \in BuildPlannedDates(s, m) <=> Due(s, d)
<1>. DEFINE n == Interval[s.freq]
            h == MonthOf(s.start)
            day == PreferredDay(s)
            past == CreateMonthDate(h, day) < s.start
            first == h + (IF past THEN n ELSE 0)
            Counted == \E i \in 0..(MaxOccurrences - 1) : m = first + i * n
<1>1. n \in Nat \ {0} /\ MaxOccurrences \in Nat
  BY CalendarConstants DEF Schedule, Frequencies
<1>2. /\ h \in Months /\ s.start \in Days(h) /\ day \in 1..31
      /\ s.start \in Nat /\ d \in Nat
  <2>1. s.start \in AllDays /\ s.day \in 0..31
    BY DEF Schedule
  <2>2. day \in 1..31
    BY <2>1, MonthFound DEF PreferredDay, None
  <2>. QED  BY <2>1, <2>2, MonthFound, MonthsOrdered DEF AllDays
<1>3. h \in Nat /\ m \in Nat /\ h >= 1 /\ m < MaxOccurrences
  <2>1. \A x \in Months : x \in Nat /\ x >= 1 /\ x < MaxOccurrences
    BY <1>1, MonthFirstDays DEF Months, OccurrencesSuffice
  <2>. QED  BY <1>2, <2>1
<1>4. /\ d \in BuildPlannedDates(s, m)
         <=> d = CreateMonthDate(m, day) /\ Counted /\ BeforeEnd(s, d)
      /\ Due(s, d)
         <=> /\ d >= s.start /\ BeforeEnd(s, d) /\ (m - h) % n = 0
             /\ d = CreateMonthDate(m, day)
  <2>1. d \in BuildPlannedDates(s, m)
        <=> d = CreateMonthDate(m, day) /\ Counted /\ BeforeEnd(s, d)
    BY DEF BuildPlannedDates, BuildMonthlyLikeDates
  <2>2. MonthOf(d) = m /\ DayOf(d) = d - FirstDay[m] + 1
    BY MonthsOrdered
  <2>3. d = CreateMonthDate(m, day)
        <=> \/ DayOf(d) = day
            \/ DayOf(d) < day /\ d + 1 \notin Days(MonthOf(d))
    BY <1>2, <2>2, DateOfMonth
  <2>. HIDE DEF day, h, n
  <2>4. Due(s, d)
        <=> /\ d >= s.start /\ BeforeEnd(s, d) /\ (m - h) % n = 0
            /\ \/ DayOf(d) = day
               \/ DayOf(d) < day /\ d + 1 \notin Days(MonthOf(d))
    BY <2>2 DEF Due, day, h, n
  <2>. QED  BY <2>1, <2>3, <2>4
<1>. HIDE DEF n, h, day
<1>5. CreateMonthDate(h, day) \in Days(h)
  BY <1>2, DateOfMonth
<1>6. /\ h < m => d > s.start
      /\ m < h => d < s.start
      /\ d \in Int /\ CreateMonthDate(h, day) \in Int
  <2>1. CreateMonthDate(h, day) \in AllDays /\ d \in AllDays
    BY <1>2, <1>5, MonthsOrdered
  <2>2. (h < m => s.start < d) /\ (m < h => d < s.start)
    BY <1>2, MonthsOrdered
  <2>. QED  BY <1>2, <2>1, <2>2 DEF AllDays
<1>7. ASSUME d = CreateMonthDate(m, day), Counted
      PROVE  d >= s.start /\ (m - h) % n = 0
  <2>1. PICK i \in 0..(MaxOccurrences - 1) : m = first + i * n
    BY <1>7
  <2>2. PICK j \in Nat : m = h + j * n /\ (past => j >= 1)
    <3>1. CASE past
      <4>1. m = h + (i + 1) * n
        BY <1>1, <1>3, <2>1, <3>1
      <4>2. i + 1 \in Nat /\ i + 1 >= 1
        BY <1>1, <2>1
      <4>. QED  BY <4>1, <4>2
    <3>2. CASE ~ past
      BY <1>1, <1>3, <2>1, <3>2
    <3>. QED  BY <3>1, <3>2
  <2>3. PICK x \in Nat : x = j * n
    BY <1>1
  <2>4. m = h + x /\ x % n = 0 /\ (j >= 1 => x >= 1)
    <3>1. \A a \in Nat : a >= 1 => a * n >= 1
      BY <1>1
    <3>. QED  BY <1>1, <2>2, <2>3, <3>1, Multiples
  <2>5. m - h = x
    BY <1>3, <2>4
  <2>6. d >= s.start
    <3>1. CASE h < m
      BY <1>2, <1>6, <3>1
    <3>2. CASE h = m
      <4>1. ~ past
        BY <1>3, <2>2, <2>4, <3>2
      <4>. QED  BY <1>2, <1>6, <1>7, <3>2, <4>1
    <3>. QED  BY <1>3, <2>4, <3>1, <3>2
  <2>. QED  BY <2>4, <2>5, <2>6
<1>8. ASSUME d = CreateMonthDate(m, day), d >= s.start, (m - h) % n = 0
      PROVE  Counted
  <2>1. h <= m
    BY <1>2, <1>3, <1>6, <1>8
  <2>2. PICK x \in Nat : x = m - h
    BY <1>3, <2>1
  <2>3. PICK j \in Nat : x = j * n
    BY <1>1, <1>8, <2>2, Multiples
  <2>4. j <= x
    <3>1. \A a \in Nat : a * n >= a
      BY <1>1
    <3>. QED  BY <2>3, <3>1
  <2>5. j < MaxOccurrences
    BY <1>3, <2>2, <2>4, <1>1
  <2>6. CASE past
    <3>1. m # h
      BY <1>2, <1>6, <1>8, <2>6
    <3>2. j >= 1
      <4>1. x # 0
        BY <1>3, <2>2, <3>1
      <4>2. 0 * n = 0
        BY <1>1
      <4>. QED  BY <2>3, <4>1, <4>2
    <3>3. PICK i \in Nat : j = i + 1
      BY <3>2
    <3>4. i * n + n = x
      BY <1>1, <2>3, <3>3
    <3>5. m = first + i * n
      BY <1>1, <1>3, <2>2, <2>6, <3>4
    <3>6. i \in 0..(MaxOccurrences - 1)
      BY <1>1, <2>5, <3>3
    <3>. QED  BY <3>5, <3>6
  <2>7. CASE ~ past
    <3>1. m = first + j * n
      BY <1>3, <2>2, <2>3, <2>7
    <3>. QED  BY <1>1, <2>5, <3>1
  <2>. QED  BY <2>6, <2>7
<1>. QED  BY <1>4, <1>7, <1>8

\* The dates planned for a schedule in a month are the days of that month on
\* which it is due: no date is lost at a preferred day before the start, in a
\* short month or at the end, and none is made up.
LEMMA PlannedIsDueThere ==
  ASSUME OccurrencesSuffice, NEW s \in Schedule, NEW m \in Months, NEW d \in Days(m)
  PROVE  d \in BuildPlannedDates(s, m) <=> Due(s, d)
BY WeeklyDates, MonthlyDates

\* What requests may rely on between reading and writing: a deleted rule does
\* not come back, its items lose it and nothing else takes an item away, and
\* an item is made for a live rule only.
RulesStay ==
    \A k \in Rules : rule[k] # NoRow =>
        rule'[k] # NoRow /\ (LiveRule(k)' => LiveRule(k))

ItemsStay ==
    /\ \A i \in BagToSet(item) :
         i.rule # NoRule /\ LiveRule(i.rule)' => i \in BagToSet(item')
    /\ \A i \in BagToSet(item') :
         i.rule # NoRule => i \in BagToSet(item) \/ LiveRule(i.rule)

LEMMA DeletionStays ==
  ASSUME ItemInv, NEW k, rule' = RulesWithout(k), item' = ItemsWithout(k),
         k \in Rules \cup {NoRule}
  PROVE  RulesStay /\ ItemsStay
<1>1. \A j \in Rules : rule'[j] = rule[j] \/ rule'[j] = DeletedRow
  BY DEF ItemInv, TypeOK, RulesWithout
<1>2. RulesStay
  BY <1>1 DEF RulesStay, LiveRule, NoRow, DeletedRow
<1>3. k \in Rules => ~ LiveRule(k)'
  <2>1. CASE LiveRule(k)
    BY <2>1 DEF ItemInv, TypeOK, RulesWithout, LiveRule, DeletedRow
  <2>2. CASE ~ LiveRule(k)
    BY <2>2 DEF RulesWithout, LiveRule
  <2>. QED  BY <2>1, <2>2
<1>4. /\ \A i \in BagToSet(item) : i.rule # k => i \in BagToSet(item')
      /\ \A i \in BagToSet(item') : i.rule # NoRule => i \in BagToSet(item)
  BY ItemsWithoutBag DEF ItemInv, TypeOK
<1>5. \A i \in BagToSet(item) : i.rule \in Rules \cup {NoRule}
  BY DEF ItemInv, TypeOK, PlanItem
<1>. QED  BY <1>2, <1>3, <1>4, <1>5 DEF ItemsStay

\* The bag after a generation that commits.
LEMMA GenerationCommitted ==
  ASSUME ItemInv, NEW r \in Requests, GenerateCommit(r)
  PROVE  /\ BagToSet(item) \cup Drafts(req[r]) \subseteq BagToSet(item')
         /\ \A i \in BagToSet(item') :
              i.rule # NoRule => i \in BagToSet(item) \/ i \in Drafts(req[r])
<1>. DEFINE q == req[r]
            B == RepaymentItems(q.due, q.month)
            S == Inserted(q)
<1>1. /\ q.at = "generate" /\ q.month \in Months /\ q.due \subseteq Repayments
      /\ \A s \in q.due : DueDate[s] \in Days(q.month)
  BY RequestHolds DEF GenerateCommit, ItemInv
<1>2. S \cap BagToSet(item) = {} /\ S \subseteq PlanItem
  BY <1>1, DraftsTyped DEF Inserted, ItemInv
<1>3. /\ IsABag(B) /\ BagToSet(B) \subseteq PlanItem
      /\ \A i \in BagToSet(B) : i.rule = NoRule
  BY <1>1, RepaymentBag
<1>4. item' = item (+) SetToBag(S) (+) B
  BY DEF GenerateCommit
<1>5. /\ S \subseteq Drafts(q)
      /\ Drafts(q) \subseteq BagToSet(item) \cup S
  BY DEF Inserted
<1>. HIDE DEF B, S, q
<1>6. BagToSet(item') = BagToSet(item) \cup S \cup BagToSet(B)
  BY <1>2, <1>3, <1>4, GeneratedBag DEF ItemInv, TypeOK
<1>. QED  BY <1>3, <1>5, <1>6 DEF q

LEMMA EveryStepStays ==
  ASSUME ItemInv, RuleInv, [Next]_vars
  PROVE  RulesStay /\ ItemsStay
<1>1. ASSUME UNCHANGED <<rule, item>>  PROVE RulesStay /\ ItemsStay
  BY <1>1 DEF RulesStay, ItemsStay, LiveRule
<1>2. ASSUME item' = item, NEW k \in Rules,
             \A j \in Rules \ {k} : rule'[j] = rule[j],
             rule'[k] # NoRow,
             rule[k] # NoRow /\ LiveRule(k)' => LiveRule(k)
      PROVE  RulesStay /\ ItemsStay
  BY <1>2 DEF RulesStay, ItemsStay, LiveRule
<1>3. ASSUME NEW r \in Requests, RuleStep(r)
      PROVE  RulesStay /\ ItemsStay
  <2>1. CASE UpdateRuleCommit(r)
    <3>1. PICK k \in Rules : k = req[r].rule
      BY <2>1, RequestHolds DEF UpdateRuleCommit, ItemInv
    <3>2. CASE LiveRule(k)
      <4>1. rule[k] \in RuleRow
        BY <3>2, RowsTyped DEF ItemInv
      <4>2. /\ \A j \in Rules \ {k} : rule'[j] = rule[j]
            /\ \E plan : rule'[k] = [rule[k] EXCEPT !.plan = plan]
            /\ item' = item
        BY <2>1, <3>1, <3>2 DEF UpdateRuleCommit, ItemInv, TypeOK
      <4>3. rule'[k].status = "live"
        BY <4>1, <4>2 DEF RuleRow
      <4>. QED  BY <1>2, <3>2, <4>2, <4>3 DEF NoRow
    <3>3. CASE ~ LiveRule(k)
      BY <1>1, <2>1, <3>1, <3>3 DEF UpdateRuleCommit
    <3>. QED  BY <3>2, <3>3
  <2>2. CASE DeleteRuleCommit(r)
    BY <2>2, DeletionStays, RequestHolds DEF DeleteRuleCommit, ItemInv
  <2>3. ASSUME NEW k \in Rules, NEW s \in RuleInputs,
               UpdateRuleRead(r, k, s) \/ DeleteRuleRead(r, k)
        PROVE  RulesStay /\ ItemsStay
    BY <1>1, <2>3 DEF UpdateRuleRead, DeleteRuleRead
  <2>4. ASSUME NEW k \in Rules, DeleteRuleRead(r, k)
        PROVE  RulesStay /\ ItemsStay
    BY <1>1, <2>4 DEF DeleteRuleRead
  <2>. QED  BY <1>3, <2>1, <2>2, <2>3, <2>4 DEF RuleStep
<1>4. ASSUME NEW r \in Requests, PolicyStep(r)
      PROVE  RulesStay /\ ItemsStay
  <2>1. ASSUME NEW k \in Rules, NEW p \in Policies, CreatePolicyCommit(r, k, p)
        PROVE  RulesStay /\ ItemsStay
    <3>1. /\ rule[k] = NoRow /\ item' = item
          /\ rule'[k].status = "live"
          /\ \A j \in Rules \ {k} : rule'[j] = rule[j]
      BY <2>1 DEF CreatePolicyCommit, FreshRule, ItemInv, TypeOK
    <3>. QED  BY <1>2, <3>1 DEF NoRow
  <2>2. ASSUME NEW k \in Rules, UpdatePolicyCommit(r, k)
        PROVE  RulesStay /\ ItemsStay
    <3>1. item' = item /\ (rule[k] = NoRow \/ LiveRule(k))
      BY <2>2 DEF UpdatePolicyCommit, FreshRule
    <3>2. CASE rule' = rule
      BY <1>1, <3>1, <3>2
    <3>3. CASE rule' = SyncedRule(req[r], k)
      <4>1. /\ rule'[k].status = "live"
            /\ \A j \in Rules \ {k} : rule'[j] = rule[j]
        BY <3>3 DEF SyncedRule, ItemInv, TypeOK
      <4>. QED  BY <1>2, <3>1, <4>1 DEF NoRow
    <3>. QED  BY <2>2, <3>2, <3>3 DEF UpdatePolicyCommit, RuleAfterUpdate
  <2>3. CASE DeletePolicyCommit(r)
    BY <2>3, DeletionStays, RequestHolds DEF DeletePolicyCommit, ItemInv
  <2>4. ASSUME UNCHANGED <<rule, item>> PROVE RulesStay /\ ItemsStay
    BY <1>1, <2>4
  <2>. QED
    BY <1>4, <2>1, <2>2, <2>3, <2>4
       DEF PolicyStep, CreatePolicyRead, CreatePolicyConflict, UpdatePolicyRead,
           DeletePolicyRead
<1>5. ASSUME NEW r \in Requests, ItemStep(r)
      PROVE  RulesStay /\ ItemsStay
  <2>1. rule' = rule
    BY <1>5 DEF ItemStep, GenerateRead, GenerateCommit, GenerateRollback,
                RepayRead, RepayCommit
  <2>2. CASE GenerateCommit(r)
    <3>1. \A i \in Drafts(req[r]) : LiveRule(i.rule)
      BY <2>2 DEF GenerateCommit
    <3>. QED
      BY <2>1, <2>2, <3>1, GenerationCommitted DEF RulesStay, ItemsStay, LiveRule
  <2>3. CASE RepayCommit(r)
    <3>. DEFINE B == RepaymentItems({req[r].repayment}, req[r].month)
    <3>1. /\ req[r].repayment \in Repayments /\ req[r].month \in Months
          /\ DueDate[req[r].repayment] \in Days(req[r].month)
      BY <2>3, RequestHolds DEF RepayCommit, ItemInv
    <3>2. IsABag(B) /\ \A i \in BagToSet(B) : i.rule = NoRule
      BY <3>1, RepaymentBag
    <3>3. item' = item (+) B
      BY <2>3 DEF RepayCommit
    <3>. HIDE DEF B
    <3>4. BagToSet(item') = BagToSet(item) \cup BagToSet(B)
      BY <3>2, <3>3, BagUnited DEF ItemInv, TypeOK
    <3>. QED  BY <2>1, <3>2, <3>4 DEF RulesStay, ItemsStay, LiveRule
  <2>4. ASSUME item' = item  PROVE RulesStay /\ ItemsStay
    BY <1>1, <2>1, <2>4
  <2>. QED
    BY <1>5, <2>2, <2>3, <2>4 DEF ItemStep, GenerateRead, GenerateRollback, RepayRead
<1>6. ASSUME NEW k \in Rules, NEW s \in RuleInputs, CreateRule(k, s)
      PROVE  RulesStay /\ ItemsStay
  <2>1. /\ rule[k] = NoRow /\ item' = item
        /\ rule'[k].status = "live"
        /\ \A j \in Rules \ {k} : rule'[j] = rule[j]
    BY <1>6 DEF CreateRule, FreshRule, ItemInv, TypeOK
  <2>. QED  BY <1>2, <2>1 DEF NoRow
<1>. QED
  BY <1>1, <1>3, <1>4, <1>5, <1>6 DEF Next, OpenMonth, CloseMonth, vars

\* A generation under way has read each rule once, and the items it has read
\* are still there as long as their rules are.
Foreseen(q) ==
    q.at = "generate" =>
        /\ \A p, o \in q.plans : p.rule = o.rule => p = o
        /\ \A i \in q.items : i.rule # NoRule =>
             /\ rule[i.rule] # NoRow
             /\ LiveRule(i.rule) => i \in BagToSet(item)

\* Items refer to rules that exist or have been deleted.
PlanInv ==
    /\ \A i \in BagToSet(item) : i.rule # NoRule => rule[i.rule] # NoRow
    /\ \A r \in Requests : Foreseen(req[r])

\* A step leaves a request where it is, or it is not the read of a generation,
\* or it is.
LEMMA WhoGenerates ==
  ASSUME TypeOK, [Next]_vars, NEW r \in Requests
  PROVE  \/ req'[r] = req[r]
         \/ req'[r].at # "generate"
         \/ \E m \in Months : GenerateRead(r, m)
<1>. SUFFICES ASSUME req'[r] # req[r]
              PROVE  \/ req'[r].at # "generate"
                     \/ \E m \in Months : GenerateRead(r, m)
  OBVIOUS
<1>1. ASSUME NEW x \in Requests, NEW q, Hold(x, q), q.at # "generate"
      PROVE  req'[r].at # "generate"
  BY <1>1 DEF Hold, TypeOK
<1>2. ASSUME NEW x \in Requests, Answer(x)
      PROVE  req'[r].at # "generate"
  BY <1>1, <1>2 DEF Answer, Idle
<1>3. ASSUME NEW x \in Requests, RuleStep(x)  PROVE req'[r].at # "generate"
  BY <1>1, <1>2, <1>3
     DEF RuleStep, UpdateRuleRead, UpdateRuleCommit, DeleteRuleRead, DeleteRuleCommit
<1>4. ASSUME NEW x \in Requests, PolicyStep(x)  PROVE req'[r].at # "generate"
  BY <1>1, <1>2, <1>4
     DEF PolicyStep, CreatePolicyRead, CreatePolicyCommit, CreatePolicyConflict,
         UpdatePolicyRead, UpdatePolicyCommit, DeletePolicyRead, DeletePolicyCommit
<1>5. ASSUME NEW x \in Requests, ItemStep(x),
             ~ \E m \in Months : GenerateRead(x, m)
      PROVE  req'[r].at # "generate"
  BY <1>1, <1>2, <1>5
     DEF ItemStep, GenerateCommit, GenerateRollback, RepayRead, RepayCommit
<1>6. ASSUME NEW x \in Requests, NEW m \in Months, GenerateRead(x, m)
      PROVE  x = r
  BY <1>6 DEF GenerateRead, Hold, TypeOK
<1>. QED
  BY <1>3, <1>4, <1>5, <1>6 DEF Next, OpenMonth, CloseMonth, CreateRule, vars

\* What the read of a generation holds.
LEMMA GenerationRead ==
  ASSUME TypeOK, NEW r \in Requests, NEW m \in Months, GenerateRead(r, m)
  PROVE  /\ req'[r].month = m
         /\ req'[r].items \subseteq BagToSet(item)
         /\ \A p \in req'[r].plans : p.rule \in Rules /\ p.plan = rule[p.rule].plan
         /\ \A k \in Rules : Listed(k, m) => \E p \in req'[r].plans : p.rule = k
         /\ \A p, o \in req'[r].plans : p.rule = o.rule => p = o
         /\ UNCHANGED <<rule, item>>
<1>. DEFINE plans == {[rule |-> k, plan |-> rule[k].plan] :
                         k \in {j \in Rules : Listed(j, m)}}
<1>1. /\ req'[r].month = m /\ req'[r].plans = plans
      /\ req'[r].items = {i \in BagToSet(item) : i.month = m}
      /\ UNCHANGED <<rule, item>>
  BY DEF GenerateRead, Hold, TypeOK
<1>2. /\ \A p \in plans : p.rule \in Rules /\ p.plan = rule[p.rule].plan
      /\ \A k \in Rules : Listed(k, m) => \E p \in plans : p.rule = k
      /\ \A p, o \in plans : p.rule = o.rule => p = o
  <2>1. \A p \in plans : \E k \in Rules : p = [rule |-> k, plan |-> rule[k].plan]
    OBVIOUS
  <2>2. \A k \in Rules : Listed(k, m) => [rule |-> k, plan |-> rule[k].plan] \in plans
    OBVIOUS
  <2>. HIDE DEF plans
  <2>3. \A p \in plans : /\ p.rule \in Rules
                        /\ p = [rule |-> p.rule, plan |-> rule[p.rule].plan]
    BY <2>1
  <2>4. \A k \in Rules : Listed(k, m) => \E p \in plans : p.rule = k
    <3>1. \A k \in Rules : [rule |-> k, plan |-> rule[k].plan].rule = k
      OBVIOUS
    <3>. QED  BY <2>2, <3>1
  <2>5. \A p \in plans : p.plan = rule[p.rule].plan
    BY <2>3
  <2>. QED  BY <2>3, <2>4, <2>5
<1>. HIDE DEF plans
<1>. QED  BY <1>1, <1>2

LEMMA InitPlans == Init => PlanInv
<1>. SUFFICES ASSUME Init  PROVE PlanInv
  OBVIOUS
<1>1. BagToSet(item) = {}
  BY SetAsBag DEF Init, EmptyBag
<1>. QED  BY <1>1 DEF Init, PlanInv, Foreseen, Idle

LEMMA NextPlans == ItemInv /\ RuleInv /\ PlanInv /\ [Next]_vars => PlanInv'
<1>. SUFFICES ASSUME ItemInv, RuleInv, PlanInv, [Next]_vars  PROVE PlanInv'
  OBVIOUS
<1>1. RulesStay /\ ItemsStay
  BY EveryStepStays
<1>2. \A i \in BagToSet(item') : i.rule # NoRule => i.rule \in Rules
  BY NextItems DEF ItemInv, TypeOK, PlanItem
<1>3. \A k \in Rules : LiveRule(k) => rule[k] # NoRow
  BY DEF LiveRule, NoRow
<1>4. \A i \in BagToSet(item') : i.rule # NoRule => rule'[i.rule] # NoRow
  BY <1>1, <1>2, <1>3 DEF PlanInv, RulesStay, ItemsStay
<1>5. ASSUME NEW r \in Requests  PROVE Foreseen(req[r])'
  <2>1. CASE req'[r] = req[r] /\ req[r].at = "generate"
    <3>1. PICK q : q = req[r]
      OBVIOUS
    <3>2. q.at = "generate" /\ q.items \subseteq PlanItem /\ Foreseen(q)
      BY <2>1, <3>1, RequestHolds DEF ItemInv, PlanInv
    <3>3. ASSUME NEW i \in q.items, i.rule # NoRule
          PROVE  /\ rule'[i.rule] # NoRow
                 /\ LiveRule(i.rule)' => i \in BagToSet(item')
      <4>1. i.rule \in Rules
        BY <3>2, <3>3 DEF PlanItem
      <4>2. rule[i.rule] # NoRow /\ (LiveRule(i.rule) => i \in BagToSet(item))
        BY <3>2, <3>3 DEF Foreseen
      <4>. QED  BY <1>1, <3>3, <4>1, <4>2 DEF RulesStay, ItemsStay
    <3>4. Foreseen(q)'
      BY <3>2, <3>3 DEF Foreseen
    <3>. QED  BY <2>1, <3>1, <3>2, <3>3 DEF Foreseen
  <2>2. CASE req'[r].at # "generate"
    BY <2>2 DEF Foreseen
  <2>3. CASE \E m \in Months : GenerateRead(r, m)
    <3>1. PICK m \in Months : GenerateRead(r, m)
      BY <2>3
    <3>2. /\ req'[r].items \subseteq BagToSet(item)
          /\ \A p, o \in req'[r].plans : p.rule = o.rule => p = o
          /\ UNCHANGED <<rule, item>>
      BY <3>1, GenerationRead DEF ItemInv
    <3>. QED  BY <3>2 DEF Foreseen, PlanInv, LiveRule
  <2>. QED  BY <2>1, <2>2, <2>3, WhoGenerates DEF ItemInv
<1>. QED  BY <1>4, <1>5 DEF PlanInv

\* A rule that is due on some day of a month spans it.
LEMMA DueIsListed ==
  ASSUME TypeOK, NEW k \in Rules, NEW m \in Months, NEW d \in Days(m),
         LiveRule(k), rule[k].plan.active, Due(rule[k].plan, d)
  PROVE  Listed(k, m)
<1>. DEFINE s == rule[k].plan
<1>1. s \in Schedule
  BY RowsTyped DEF RuleRow
<1>2. /\ s.start \in Int /\ s.end \in Int
      /\ FirstDay[m] \in Int /\ FirstDay[m + 1] \in Int
      /\ FirstDay[m] <= d /\ d < FirstDay[m + 1] /\ d \in Int
  BY <1>1, MonthFirstDays DEF Schedule, AllDays, None, Days
<1>3. d >= s.start /\ BeforeEnd(s, d)
  BY DEF Due
<1>. HIDE DEF s
<1>. QED  BY <1>2, <1>3 DEF Listed, BeforeEnd, s

\* A generation that commits: each date of a rule it has read, while the rule
\* lives and has a transaction type, has an item now, and the items that are
\* new are dates of such a rule.
LEMMA GenerationPlans ==
  ASSUME OccurrencesSuffice, ItemInv, PlanInv, NEW r \in Requests, GenerateCommit(r),
         NEW p \in req[r].plans, NEW d \in Days(req[r].month)
  PROVE  LET i == [month |-> req[r].month, rule |-> p.rule, date |-> d]
         IN  /\ LiveRule(p.rule) /\ Resolves(p.plan) /\ Due(p.plan, d)
                  => i \in BagToSet(item')
             /\ i \in BagToSet(item') /\ i \notin BagToSet(item)
                  => Resolves(p.plan) /\ Due(p.plan, d)
<1>1. PICK q : q = req[r]
  OBVIOUS
<1>2. /\ q.at = "generate" /\ q.month \in Months /\ Foreseen(q)
      /\ q.plans \subseteq [rule : Rules, plan : Schedule]
  BY <1>1, RequestHolds DEF GenerateCommit, ItemInv, PlanInv
<1>3. p \in q.plans /\ p.rule \in Rules /\ p.plan \in Schedule /\ d \in Days(q.month)
  BY <1>1, <1>2
<1>4. d \in BuildPlannedDates(p.plan, q.month) <=> Due(p.plan, d)
  BY <1>2, <1>3, PlannedIsDueThere
<1>5. PICK i : i = [month |-> q.month, rule |-> p.rule, date |-> d]
  OBVIOUS
<1>6. i.rule # NoRule
  BY <1>3, <1>5 DEF Rules, NoRule
<1>7. /\ BagToSet(item) \cup Drafts(q) \subseteq BagToSet(item')
      /\ i \in BagToSet(item') => i \in BagToSet(item) \/ i \in Drafts(q)
  BY <1>1, <1>6, GenerationCommitted
<1>8. ASSUME LiveRule(p.rule), Resolves(p.plan), Due(p.plan, d)
      PROVE  i \in BagToSet(item')
  <2>1. CASE i \in q.items
    BY <1>2, <1>5, <1>6, <1>7, <1>8, <2>1 DEF Foreseen
  <2>2. CASE i \notin q.items
    <3>1. i \in Drafts(q)
      BY <1>3, <1>4, <1>5, <1>8, <2>2 DEF Drafts, Resolved
    <3>. QED  BY <1>7, <3>1
  <2>. QED  BY <2>1, <2>2
<1>9. ASSUME i \in BagToSet(item'), i \notin BagToSet(item)
      PROVE  Resolves(p.plan) /\ Due(p.plan, d)
  <2>1. i \in Drafts(q)
    BY <1>7, <1>9
  <2>2. PICK o \in q.plans : /\ o.rule = i.rule /\ Resolves(o.plan)
                             /\ i.date \in BuildPlannedDates(o.plan, i.month)
    BY <1>1, <1>2, <2>1, DraftsTyped DEF ItemInv
  <2>3. o = p
    BY <1>2, <1>3, <1>5, <2>2 DEF Foreseen
  <2>. QED  BY <1>4, <1>5, <2>2, <2>3
<1>. QED  BY <1>1, <1>5, <1>8, <1>9

LEMMA OnlyCommitsGenerate ==
  ASSUME TypeOK, [Next]_vars, NEW r \in Requests,
         req[r].at = "generate", req'[r].at = "generated"
  PROVE  GenerateCommit(r)
<1>1. ASSUME NEW x \in Requests, NEW q, Hold(x, q), q.at # "generated"
      PROVE  FALSE
  BY <1>1 DEF Hold, TypeOK
<1>2. ASSUME NEW x \in Requests, Answer(x)  PROVE FALSE
  BY <1>1, <1>2 DEF Answer, Idle
<1>3. ASSUME NEW x \in Requests, RuleStep(x)  PROVE FALSE
  BY <1>1, <1>2, <1>3
     DEF RuleStep, UpdateRuleRead, UpdateRuleCommit, DeleteRuleRead, DeleteRuleCommit
<1>4. ASSUME NEW x \in Requests, PolicyStep(x)  PROVE FALSE
  BY <1>1, <1>2, <1>4
     DEF PolicyStep, CreatePolicyRead, CreatePolicyCommit, CreatePolicyConflict,
         UpdatePolicyRead, UpdatePolicyCommit, DeletePolicyRead, DeletePolicyCommit
<1>5. ASSUME NEW x \in Requests, ItemStep(x)  PROVE GenerateCommit(x)
  BY <1>1, <1>2, <1>5
     DEF ItemStep, GenerateRead, GenerateRollback, RepayRead, RepayCommit
<1>6. ASSUME NEW x \in Requests, GenerateCommit(x)  PROVE x = r
  BY <1>6 DEF GenerateCommit, Hold, TypeOK
<1>. QED
  BY <1>3, <1>4, <1>5, <1>6 DEF Next, OpenMonth, CloseMonth, CreateRule, vars

\* A generation reads every active rule that is due in its month, and plans
\* the dates on which those of them with a transaction type are due and no
\* others, whatever happens to rules and items between its read and its commit
\* and whichever kinds have a type: if a rule is gone by then, its dates are
\* the only ones that are not there.
THEOREM PlansAsDue ==
  ASSUME OccurrencesSuffice
  PROVE  Spec => GeneratesWhatIsDue
<1>1. ItemInv /\ PlanInv /\ [Next]_vars
      => [\A r \in Requests :
            /\ req'[r].at = "generate" /\ req[r].at # "generate" =>
                 \A k \in Rules :
                    LiveRule(k) /\ rule[k].plan.active
                    /\ (\E d \in Days(req'[r].month) : Due(rule[k].plan, d))
                    => \E p \in req'[r].plans : p.rule = k
            /\ req[r].at = "generate" /\ req'[r].at = "generated" =>
                 LET q == req[r]
                 IN  \A p \in q.plans, d \in Days(q.month) :
                       LET i == [month |-> q.month, rule |-> p.rule, date |-> d]
                       IN  /\ LiveRule(p.rule) /\ Resolves(p.plan) /\ Due(p.plan, d)
                                => BagIn(i, item')
                           /\ BagIn(i, item') /\ ~BagIn(i, item)
                                => Resolves(p.plan) /\ Due(p.plan, d)]_vars
  <2>. SUFFICES ASSUME ItemInv, PlanInv, [Next]_vars, NEW r \in Requests
                PROVE
            /\ req'[r].at = "generate" /\ req[r].at # "generate" =>
                 \A k \in Rules :
                    LiveRule(k) /\ rule[k].plan.active
                    /\ (\E d \in Days(req'[r].month) : Due(rule[k].plan, d))
                    => \E p \in req'[r].plans : p.rule = k
            /\ req[r].at = "generate" /\ req'[r].at = "generated" =>
                 \A p \in req[r].plans, d \in Days(req[r].month) :
                   LET i == [month |-> req[r].month, rule |-> p.rule, date |-> d]
                   IN  /\ LiveRule(p.rule) /\ Resolves(p.plan) /\ Due(p.plan, d)
                            => BagIn(i, item')
                       /\ BagIn(i, item') /\ ~BagIn(i, item)
                            => Resolves(p.plan) /\ Due(p.plan, d)
    OBVIOUS
  <2>1. ASSUME req'[r].at = "generate", req[r].at # "generate",
               NEW k \in Rules, LiveRule(k), rule[k].plan.active,
               NEW d \in Days(req'[r].month), Due(rule[k].plan, d)
        PROVE  \E p \in req'[r].plans : p.rule = k
    <3>1. PICK m \in Months : GenerateRead(r, m)
      BY <2>1, WhoGenerates DEF ItemInv
    <3>2. /\ req'[r].month = m
          /\ \A j \in Rules : Listed(j, m) => \E p \in req'[r].plans : p.rule = j
      BY <3>1, GenerationRead DEF ItemInv
    <3>3. Listed(k, m)
      BY <2>1, <3>2, DueIsListed DEF ItemInv
    <3>. QED  BY <3>2, <3>3
  <2>2. ASSUME req[r].at = "generate", req'[r].at = "generated",
               NEW p \in req[r].plans, NEW d \in Days(req[r].month)
        PROVE  LET i == [month |-> req[r].month, rule |-> p.rule, date |-> d]
               IN  /\ LiveRule(p.rule) /\ Resolves(p.plan) /\ Due(p.plan, d)
                        => BagIn(i, item')
                   /\ BagIn(i, item') /\ ~BagIn(i, item)
                        => Resolves(p.plan) /\ Due(p.plan, d)
    <3>1. GenerateCommit(r)
      BY <2>2, OnlyCommitsGenerate DEF ItemInv
    <3>. QED  BY <2>2, <3>1, GenerationPlans DEF BagIn, BagToSet
  <2>. QED  BY <2>1, <2>2
<1>2. ItemInv /\ RuleInv /\ PlanInv /\ [Next]_vars => (ItemInv /\ RuleInv /\ PlanInv)'
  BY NextItems, NextRules, NextPlans DEF ItemInv
<1>3. Init => ItemInv /\ RuleInv /\ PlanInv
  BY InitItems, InitRules, InitPlans
<1>. QED  BY <1>1, <1>2, <1>3, PTL DEF Spec, GeneratesWhatIsDue
=============================================================================
