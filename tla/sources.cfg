SPECIFICATION Spec
CONSTANTS
    LastMonth = 1
    LastEntry = 3
    Txs = {t1, t2, t3}
    NoTx = NoTx
    Amounts = {1}
    Rows = {approval, cancellation}
    NoRow = NoRow
    approval = approval
    cancellation = cancellation
    CancelTarget <- MCCancelTarget
    RowMonth <- MCRowMonth
    Batches <- MCBatches
    Schedules = {s1}
    NoSchedule = NoSchedule
    DueMonth <- MCDueMonth
    Requests = {r1, r2}
    Ops = {"open", "close", "create", "delete", "confirm", "reverse", "collectRow", "cancelCollection", "repayment"}
SYMMETRY Symmetry
INVARIANTS
    PostedByOneEntry
    PostingStatusAgrees
    CancellationReversesApproval
    PlanFollowsTransaction
\* Without reopening, the ledger stops when the last month is closed.
CHECK_DEADLOCK FALSE
