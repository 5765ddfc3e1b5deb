SPECIFICATION Spec
CONSTANTS
    s1 = s1
    r1 = r1
    r2 = r2
    fire = fire
    car = car
    Requests = {r1}
    FirstDay <- MCFirstDay
    Interval <- MCInterval
    WeekLength = 2
    MaxOccurrences = 5
    Names = {fire}
    Repayments = {}
    DueDate <- MCDueDate
    RuleInputs <- MCRuleInputs
    PolicyInputs <- MCMaturities
    ActiveFlows = {"INCOME", "EXPENSE", "TRANSFER"}
    LastRule = 2
    LastPolicy = 1
INVARIANTS
    EndFollowsMaturity
CHECK_DEADLOCK FALSE
