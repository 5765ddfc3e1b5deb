SPECIFICATION Spec
CONSTANTS
    LastMonth = 1
    LastEntry = 2
    Txs = {t1}
    NoTx = NoTx
    Amounts = {1}
    Rows = {}
    NoRow = NoRow
    approval = approval
    cancellation = cancellation
    CancelTarget <- MCCancelTarget
    RowMonth <- MCRowMonth
    Batches <- MCBatches
    Schedules = {}
    NoSchedule = NoSchedule
    DueMonth <- MCDueMonth
    Requests = {r1, r2}
    Ops = {"open", "close", "create", "confirm", "reverse"}
SYMMETRY Symmetry
INVARIANTS
    ClosingComplete
\* The small calendar is used up when its last month is closed.
CHECK_DEADLOCK FALSE
