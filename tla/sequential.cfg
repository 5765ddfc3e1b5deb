SPECIFICATION Spec
CONSTANTS
    LastMonth = 2
    LastEntry = 3
    Txs = {t1, t2}
    NoTx = NoTx
    Amounts = {1, 2}
    Rows = {approval, cancellation}
    NoRow = NoRow
    approval = approval
    cancellation = cancellation
    CancelTarget <- MCCancelTarget
    RowMonth <- MCRowMonth
    Batches <- MCBatches
    Schedules = {s1}
    NoSchedule = NoSchedule
    DueMonth <- MCDueMonth
    Requests = {r1}
    Ops = {"open", "close", "reopen", "create", "update", "delete", "confirm", "reverse", "correct", "carry", "cancelCarry", "statements", "collectRow", "cancelCollection", "repayment", "updateRepayment"}
SYMMETRY Symmetry
INVARIANTS
    TypeOK
    PostedAsRecorded
    NoPendingInLocked
    ClosingComplete
    StatementsMatchClosing
    RepaymentSettledByItsEntry
    RepaymentStatusFollowsLinks
