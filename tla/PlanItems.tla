------------------------------ MODULE PlanItems ------------------------------
(***************************************************************************)
(* Planning in one ledger: recurring rules, the insurance policies that    *)
(* manage a rule of their own, liability repayment schedules, and the plan *)
(* items generated from them. A request reads in one step and writes, in a *)
(* database transaction, in a later one.                                   *)
(***************************************************************************)
EXTENDS PlannedDates, Bags, FiniteSets

CONSTANTS
    Requests,       \* requests that may be in flight together
    Names,          \* (insurer, product) pairs of policies
    Repayments,     \* liability repayment schedules
    DueDate,        \* the day each of them is due
    RuleInputs,     \* what a user may save as a rule
    PolicyInputs,   \* what a user may save as a policy
    ActiveFlows,    \* kinds that have an active transaction type
    LastRule,       \* bound: rules ever created
    LastPolicy      \* bound: policies ever created

Rules == 1..LastRule
Policies == 1..LastPolicy
NoRule == 0
NoPolicy == 0

\* A policy is paid on the day of its start, and ends no earlier.
PolicyInput ==
    {i \in [cycle: {"MONTHLY", "YEARLY"}, start: AllDays,
            maturity: AllDays \cup {None}, active: BOOLEAN] :
        i.maturity = None \/ i.start <= i.maturity}

ASSUME PlanConstants ==
    /\ IsFiniteSet(Repayments)
    /\ DueDate \in [Repayments -> AllDays]
    /\ RuleInputs \subseteq Schedule
    /\ PolicyInputs \subseteq PolicyInput
    /\ ActiveFlows \subseteq CategoryKinds
    /\ LastRule \in Nat /\ LastPolicy \in Nat

VARIABLES
    month,      \* accounting periods, as far as generation looks at them
    rule,       \* RecurringRule rows by number
    policy,     \* InsurancePolicy rows by number
    item,       \* PlanItem rows, a bag
    linked,     \* repayment schedules linked to a plan item
    req         \* requests in flight

vars == <<month, rule, policy, item, linked, req>>

NoRow == [status |-> "none"]
DeletedRow == [status |-> "deleted"]
Idle == [at |-> "idle"]

\* maker is history: the policy a rule was created for.
RuleRow == [status: {"live"}, plan: Schedule, maker: Policies \cup {NoPolicy}]
PolicyRow == [status: {"live"}, name: Names, input: PolicyInputs,
              rule: Rules \cup {NoRule}]
PlanItem ==
    {i \in [month: Months, rule: Rules \cup {NoRule}, date: AllDays] :
        i.date \in Days(i.month)}

\* What a request holds between its reads and its transaction.
Request ==
    [at: {"idle", "generated"}]
    \cup [at: {"updateRule"}, rule: Rules, input: RuleInputs]
    \cup [at: {"deleteRule"}, rule: Rules]
    \cup [at: {"createPolicy"}, name: Names, input: PolicyInputs]
    \cup [at: {"updatePolicy"}, policy: Policies, name: Names,
          input: PolicyInputs, rule: Rules \cup {NoRule}]
    \cup [at: {"deletePolicy"}, policy: Policies, rule: Rules \cup {NoRule}]
    \cup {q \in [at: {"repay"}, repayment: Repayments, month: Months] :
            DueDate[q.repayment] \in Days(q.month)}
    \cup {q \in [at: {"generate"}, month: Months, items: SUBSET PlanItem,
                 plans: SUBSET [rule: Rules, plan: Schedule],
                 due: SUBSET Repayments] :
            \A s \in q.due : DueDate[s] \in Days(q.month)}

Init ==
    /\ month = [m \in Months |-> IF m = 1 THEN "collecting" ELSE "none"]
    /\ rule = [k \in Rules |-> NoRow]
    /\ policy = [p \in Policies |-> NoRow]
    /\ item = EmptyBag
    /\ linked = {}
    /\ req = [r \in Requests |-> Idle]

LiveRule(k) == k \in Rules /\ rule[k].status = "live"
LivePolicy(p) == policy[p].status = "live"
FreshRule(k) == rule[k] = NoRow /\ \A j \in 1..(k - 1) : rule[j] # NoRow
FreshPolicy(p) == policy[p] = NoRow /\ \A j \in 1..(p - 1) : policy[j] # NoRow

Starts(r) == req[r].at \in {"idle", "generated"}
Hold(r, q) == req' = [req EXCEPT ![r] = q]
Answer(r) == Hold(r, Idle)

-----------------------------------------------------------------------------
\* Months are opened one after the other, each when the one before is locked.
OpenMonth(m) ==
    /\ month[m] = "none"
    /\ \A n \in 1..(m - 1) : month[n] = "locked"
    /\ month' = [month EXCEPT ![m] = "collecting"]
    /\ UNCHANGED <<rule, policy, item, linked, req>>

CloseMonth(m) ==
    /\ month[m] = "collecting"
    /\ month' = [month EXCEPT ![m] = "locked"]
    /\ UNCHANGED <<rule, policy, item, linked, req>>

\* The month a request writes to: still collecting, and the latest such.
LatestCollecting(m) ==
    /\ month[m] = "collecting"
    /\ \A n \in Months : month[n] = "collecting" => n <= m

-----------------------------------------------------------------------------
\* A column left out of an update keeps its value; a day or a category given
\* as null is cleared.
Written(old, new, cleared) ==
    [new EXCEPT
        !.end = IF @ = None THEN old.end ELSE @,
        !.day = IF @ = None /\ "day" \notin cleared THEN old.day ELSE @,
        !.kind = IF @ = NoCategory /\ "category" \notin cleared THEN old.kind ELSE @]

RulesWithout(k) ==
    IF LiveRule(k) THEN [rule EXCEPT ![k] = DeletedRow] ELSE rule

\* Rows that refer to a deleted rule are kept, with no rule.
ItemsWithout(k) ==
    LET of == {i \in BagToSet(item) : i.rule = k}
    IN  [i \in BagToSet(item) \ of |-> item[i]]
        (+) [i \in {[j EXCEPT !.rule = NoRule] : j \in of} |->
                item[[i EXCEPT !.rule = k]]]

PoliciesWithout(k) ==
    [p \in Policies |-> IF LivePolicy(p) /\ policy[p].rule = k
                        THEN [policy[p] EXCEPT !.rule = NoRule] ELSE policy[p]]

ManagedByPolicy(k) == \E p \in Policies : LivePolicy(p) /\ policy[p].rule = k

CreateRule(k, s) ==
    /\ FreshRule(k)
    /\ rule' = [rule EXCEPT ![k] = [status |-> "live", plan |-> s, maker |-> NoPolicy]]
    /\ UNCHANGED <<month, policy, item, linked, req>>

UpdateRuleRead(r, k, s) ==
    /\ Starts(r)
    /\ LiveRule(k) /\ ~ManagedByPolicy(k)
    /\ Hold(r, [at |-> "updateRule", rule |-> k, input |-> s])
    /\ UNCHANGED <<month, rule, policy, item, linked>>

UpdateRuleCommit(r) ==
    LET q == req[r] IN
    /\ q.at = "updateRule"
    /\ \E cleared \in SUBSET {"day", "category"} :
         rule' = IF LiveRule(q.rule)
                 THEN [rule EXCEPT ![q.rule].plan = Written(@, q.input, cleared)]
                 ELSE rule
    /\ Answer(r)
    /\ UNCHANGED <<month, policy, item, linked>>

DeleteRuleRead(r, k) ==
    /\ Starts(r)
    /\ LiveRule(k) /\ ~ManagedByPolicy(k)
    /\ Hold(r, [at |-> "deleteRule", rule |-> k])
    /\ UNCHANGED <<month, rule, policy, item, linked>>

DeleteRuleCommit(r) ==
    LET q == req[r] IN
    /\ q.at = "deleteRule"
    /\ rule' = RulesWithout(q.rule)
    /\ item' = ItemsWithout(q.rule)
    /\ policy' = PoliciesWithout(q.rule)
    /\ Answer(r)
    /\ UNCHANGED <<month, linked>>
=============================================================================
