SPECIFICATION Spec
CONSTANTS
    LastMonth = 2
    LastEntry = 2
    Txs = {t1, t2}
    NoTx = NoTx
    Amounts = {1}
    Rows = {}
    NoRow = NoRow
    approval = approval
    cancellation = cancellation
    CancelTarget <- MCCancelTarget
    RowMonth <- MCRowMonth
    Batches <- MCBatches
    Schedules = {}
    NoSchedule = NoSchedule
    DueMonth <- MCDueMonth
    Requests = {r1, r2}
    Ops = {"open", "close", "reopen", "create", "confirm", "reverse", "carry", "cancelCarry", "statements"}
SYMMETRY Symmetry
INVARIANTS
    NumbersGapless
    LockedIffClosed
    CarryMatchesClosing
PROPERTIES
    ImplementsBooks
