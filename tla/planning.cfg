SPECIFICATION Spec
CONSTANTS
    s1 = s1
    r1 = r1
    r2 = r2
    fire = fire
    car = car
    Requests = {r1, r2}
    FirstDay <- MCFirstDay
    Interval <- MCInterval
    WeekLength = 2
    MaxOccurrences = 5
    Names = {fire, car}
    Repayments = {s1}
    DueDate <- MCDueDate
    RuleInputs <- MCRuleInputs
    PolicyInputs <- MCPolicyInputs
    ActiveFlows = {"INCOME", "EXPENSE", "TRANSFER"}
    LastRule = 2
    LastPolicy = 2
SYMMETRY Symmetry
INVARIANTS
    TypeOK
    OccurrenceOnce
    PolicyRuleTogether
PROPERTIES
    GeneratesWhatIsDue
\* The rows and the months of the small instance are used up in the end.
CHECK_DEADLOCK FALSE
