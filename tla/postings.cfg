SPECIFICATION Spec
CONSTANTS
    LastMonth = 2
    LastEntry = 3
    Txs = {t1, t2}
    NoTx = NoTx
    Amounts = {1}
    Rows = {}
    NoRow = NoRow
    approval = approval
    cancellation = cancellation
    CancelTarget <- MCCancelTarget
    RowMonth <- MCRowMonth
    Batches <- MCBatches
    Schedules = {}
    NoSchedule = NoSchedule
    DueMonth <- MCDueMonth
    Requests = {r1, r2}
    Ops = {"open", "close", "create", "update", "delete", "confirm", "reverse", "correct"}
SYMMETRY Symmetry
INVARIANTS
    PostedByOneEntry
    PostingStatusAgrees
    AdjustedOnce
PROPERTIES
    HistoryKept
\* Without reopening, the ledger stops when the last month is closed.
CHECK_DEADLOCK FALSE
