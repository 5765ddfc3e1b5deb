------------------------------- MODULE Planning -------------------------------
(***************************************************************************)
(* Policies and generation over the rows of PlanItems, all requests        *)
(* interleaved, and what planning promises.                                *)
(***************************************************************************)
EXTENDS PlanItems

NameTaken(n, p) ==
    \E o \in Policies \ {p} : LivePolicy(o) /\ policy[o].name = n

\* The schedule of the rule that pays a policy.
RulePayload(i) ==
    [freq |-> i.cycle, start |-> i.start, end |-> i.maturity,
     day |-> DayOf(i.start), active |-> i.active, kind |-> "EXPENSE"]

CreatePolicyRead(r, n, i) ==
    /\ Starts(r)
    /\ ~NameTaken(n, NoPolicy)
    /\ Hold(r, [at |-> "createPolicy", name |-> n, input |-> i])
    /\ UNCHANGED <<month, rule, policy, item, linked>>

\* The rule and the policy are created together; the unique name decides
\* between two requests that both found it free.
CreatePolicyCommit(r, k, p) ==
    LET q == req[r] IN
    /\ q.at = "createPolicy"
    /\ ~NameTaken(q.name, NoPolicy)
    /\ FreshRule(k) /\ FreshPolicy(p)
    /\ rule' = [rule EXCEPT ![k] =
                  [status |-> "live", plan |-> RulePayload(q.input), maker |-> p]]
    /\ policy' = [policy EXCEPT ![p] =
                    [status |-> "live", name |-> q.name, input |-> q.input, rule |-> k]]
    /\ Answer(r)
    /\ UNCHANGED <<month, item, linked>>

CreatePolicyConflict(r) ==
    /\ req[r].at = "createPolicy"
    /\ NameTaken(req[r].name, NoPolicy)
    /\ Answer(r)
    /\ UNCHANGED <<month, rule, policy, item, linked>>

UpdatePolicyRead(r, p, n, i) ==
    /\ Starts(r)
    /\ LivePolicy(p) /\ ~NameTaken(n, p)
    /\ Hold(r, [at |-> "updatePolicy", policy |-> p, name |-> n, input |-> i,
                rule |-> policy[p].rule])
    /\ UNCHANGED <<month, rule, policy, item, linked>>

UpdateFails(q) == ~LivePolicy(q.policy) \/ NameTaken(q.name, q.policy)

\* The rule the request read is updated, or a new one made if it is gone.
SyncedRule(q, k) ==
    [rule EXCEPT ![k] =
        [status |-> "live", maker |-> q.policy,
         plan |-> IF LiveRule(k) THEN Written(rule[k].plan, RulePayload(q.input), {})
                  ELSE RulePayload(q.input)]]

\* Slip: the rule is written before the transaction, not in it.
RuleWrittenFirst(q, k) == SyncedRule(q, k)

\* A policy that cannot be written takes the rule's write back with it.
RuleAfterUpdate(q, k) == IF UpdateFails(q) THEN rule ELSE SyncedRule(q, k)

UpdatePolicyCommit(r, k) ==
    LET q == req[r] IN
    /\ q.at = "updatePolicy"
    /\ IF LiveRule(q.rule) THEN k = q.rule ELSE FreshRule(k)
    /\ rule' = RuleAfterUpdate(q, k)
    /\ policy' = IF UpdateFails(q) THEN policy
                 ELSE [policy EXCEPT ![q.policy] =
                         [@ EXCEPT !.name = q.name, !.input = q.input, !.rule = k]]
    /\ Answer(r)
    /\ UNCHANGED <<month, item, linked>>

DeletePolicyRead(r, p) ==
    /\ Starts(r)
    /\ LivePolicy(p)
    /\ Hold(r, [at |-> "deletePolicy", policy |-> p, rule |-> policy[p].rule])
    /\ UNCHANGED <<month, rule, policy, item, linked>>

DeletePolicyCommit(r) ==
    LET q == req[r] IN
    /\ q.at = "deletePolicy"
    /\ rule' = RulesWithout(q.rule)
    /\ item' = ItemsWithout(q.rule)
    /\ policy' = [PoliciesWithout(q.rule) EXCEPT ![q.policy] = DeletedRow]
    /\ Answer(r)
    /\ UNCHANGED <<month, linked>>

-----------------------------------------------------------------------------
\* The rules whose span meets the month; the dates come later.
Listed(k, m) ==
    /\ LiveRule(k) /\ rule[k].plan.active
    /\ rule[k].plan.start < FirstDay[m + 1]
    /\ BeforeEnd(rule[k].plan, FirstDay[m])

\* Slip: the repayments of earlier months that have no item are swept up.
DueUntil(m) ==
    {s \in Repayments \ linked : "EXPENSE" \in ActiveFlows /\ DueDate[s] < FirstDay[m + 1]}

\* The repayments of the month that have no item, when expenses have a type.
DueIn(m) ==
    {s \in Repayments \ linked : "EXPENSE" \in ActiveFlows /\ DueDate[s] \in Days(m)}

GenerateRead(r, m) ==
    /\ Starts(r)
    /\ LatestCollecting(m)
    /\ Hold(r, [at |-> "generate", month |-> m,
                items |-> {i \in BagToSet(item) : i.month = m},
                plans |-> {[rule |-> k, plan |-> rule[k].plan] :
                              k \in {j \in Rules : Listed(j, m)}},
                due |-> DueIn(m)])
    /\ UNCHANGED <<month, rule, policy, item, linked>>

\* A rule without a category has no transaction type, nor has one whose kind
\* has no active type: its dates are left out.
Resolves(s) == s.kind \in ActiveFlows

Resolved(q) == {p \in q.plans : Resolves(p.plan)}

\* Slip: a date is skipped when any rule has an item on it.
DraftsByDate(q) ==
    {i \in UNION {{[month |-> q.month, rule |-> p.rule, date |-> d] :
                      d \in BuildPlannedDates(p.plan, q.month)} : p \in Resolved(q)} :
        \A j \in q.items : j.date # i.date}

\* What is to be created: the dates of each rule with a type that have no item.
Drafts(q) ==
    (UNION {{[month |-> q.month, rule |-> p.rule, date |-> d] :
                d \in BuildPlannedDates(p.plan, q.month)} : p \in Resolved(q)})
        \ q.items

RepaymentItem(s, m) == [month |-> m, rule |-> NoRule, date |-> DueDate[s]]

\* One item for each repayment, equal ones counted.
RepaymentItems(S, m) ==
    [i \in {RepaymentItem(s, m) : s \in S} |->
        Cardinality({s \in S : RepaymentItem(s, m) = i})]

\* Slip: no unique key on month, rule and date.
InsertedAll(q) == Drafts(q)

\* What the unique key on month, rule and date lets in.
Inserted(q) == Drafts(q) \ BagToSet(item)

\* An item that exists by now is skipped, when the error names the columns of
\* the key. The months are not looked at again.
GenerateCommit(r) ==
    LET q == req[r] IN
    /\ q.at = "generate"
    /\ \A i \in Drafts(q) : LiveRule(i.rule)
    /\ item' = item (+) SetToBag(Inserted(q)) (+) RepaymentItems(q.due, q.month)
    /\ linked' = linked \cup q.due
    /\ Hold(r, [at |-> "generated"])
    /\ UNCHANGED <<month, rule, policy>>

\* A rule deleted meanwhile, or a duplicate whose error names only the key,
\* takes everything back.
GenerateRollback(r) ==
    LET q == req[r] IN
    /\ q.at = "generate"
    /\ \E i \in Drafts(q) : ~LiveRule(i.rule) \/ BagIn(i, item)
    /\ Answer(r)
    /\ UNCHANGED <<month, rule, policy, item, linked>>

\* The item of one repayment, from the page of its loan.
RepayRead(r, s, m) ==
    /\ Starts(r)
    /\ LatestCollecting(m) /\ s \in DueIn(m)
    /\ Hold(r, [at |-> "repay", repayment |-> s, month |-> m])
    /\ UNCHANGED <<month, rule, policy, item, linked>>

RepayCommit(r) ==
    LET q == req[r] IN
    /\ q.at = "repay"
    /\ item' = item (+) RepaymentItems({q.repayment}, q.month)
    /\ linked' = linked \cup {q.repayment}
    /\ Answer(r)
    /\ UNCHANGED <<month, rule, policy>>

-----------------------------------------------------------------------------
RuleStep(r) ==
    \/ \E k \in Rules, s \in RuleInputs : UpdateRuleRead(r, k, s)
    \/ UpdateRuleCommit(r)
    \/ \E k \in Rules : DeleteRuleRead(r, k)
    \/ DeleteRuleCommit(r)

PolicyStep(r) ==
    \/ \E n \in Names, i \in PolicyInputs : CreatePolicyRead(r, n, i)
    \/ \E k \in Rules, p \in Policies : CreatePolicyCommit(r, k, p)
    \/ CreatePolicyConflict(r)
    \/ \E p \in Policies, n \in Names, i \in PolicyInputs : UpdatePolicyRead(r, p, n, i)
    \/ \E k \in Rules : UpdatePolicyCommit(r, k)
    \/ \E p \in Policies : DeletePolicyRead(r, p)
    \/ DeletePolicyCommit(r)

ItemStep(r) ==
    \/ \E m \in Months : GenerateRead(r, m)
    \/ GenerateCommit(r)
    \/ GenerateRollback(r)
    \/ \E s \in Repayments, m \in Months : RepayRead(r, s, m)
    \/ RepayCommit(r)

Next ==
    \/ \E m \in Months : OpenMonth(m) \/ CloseMonth(m)
    \/ \E k \in Rules, s \in RuleInputs : CreateRule(k, s)
    \/ \E r \in Requests : RuleStep(r) \/ PolicyStep(r) \/ ItemStep(r)

Spec == Init /\ [][Next]_vars

-----------------------------------------------------------------------------
\* Every row, item and request in flight keeps its shape, whatever was
\* deleted under it.
TypeOK ==
    /\ month \in [Months -> {"none", "collecting", "locked"}]
    /\ rule \in [Rules -> RuleRow \cup {NoRow, DeletedRow}]
    /\ policy \in [Policies -> PolicyRow \cup {NoRow, DeletedRow}]
    /\ IsABag(item) /\ BagToSet(item) \subseteq PlanItem
    /\ linked \subseteq Repayments
    /\ req \in [Requests -> Request]

\* However many generations overlap, and however often a rule's dates are
\* changed between them, no date of a rule is planned twice, within a month
\* or at the edge of two.
OccurrenceOnce ==
    \A i, j \in BagToSet(item) :
        /\ i.rule # NoRule
        /\ i.rule = j.rule /\ i.date = j.date
        => i = j /\ item[i] = 1

\* A policy has its own live rule, paid as the policy says, and a rule made
\* for a policy never outlives it: no request that overlaps another one's
\* deletion or rename leaves a rule that plans premiums of no policy.
PolicyRuleTogether ==
    /\ \A p \in Policies : LivePolicy(p) =>
        /\ LiveRule(policy[p].rule)
        /\ LET s == rule[policy[p].rule].plan
           IN  s = [RulePayload(policy[p].input) EXCEPT !.end = s.end]
    /\ \A k \in Rules : LiveRule(k) /\ rule[k].maker # NoPolicy =>
        /\ LivePolicy(rule[k].maker)
        /\ policy[rule[k].maker].rule = k

\* A generation looks at every active rule that is due in its month, and one
\* that succeeds has planned every date on which such a rule, as it was read,
\* is due, unless the rule is gone or has no transaction type, and no other
\* date. A rule without a type is reported as excluded and gets no item.
GeneratesWhatIsDue ==
    [][\A r \in Requests :
        /\ req'[r].at = "generate" /\ req[r].at # "generate" =>
             \A k \in Rules :
                LiveRule(k) /\ rule[k].plan.active
                /\ (\E d \in Days(req'[r].month) : Due(rule[k].plan, d))
                => \E p \in req'[r].plans : p.rule = k
        /\ req[r].at = "generate" /\ req'[r].at = "generated" =>
             LET q == req[r]
             IN  \A p \in q.plans, d \in Days(q.month) :
                   LET i == [month |-> q.month, rule |-> p.rule, date |-> d]
                   IN  /\ LiveRule(p.rule) /\ Resolves(p.plan) /\ Due(p.plan, d)
                            => BagIn(i, item')
                       /\ BagIn(i, item') /\ ~BagIn(i, item)
                            => Resolves(p.plan) /\ Due(p.plan, d)]_vars

\* A policy's rule plans no premium after the policy has matured, and none is
\* missing before.
EndFollowsMaturity ==
    \A p \in Policies : LivePolicy(p) /\ LiveRule(policy[p].rule) =>
        rule[policy[p].rule].plan.end = policy[p].input.maturity
=============================================================================
