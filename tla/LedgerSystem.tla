----------------------------- MODULE LedgerSystem -----------------------------
(***************************************************************************)
(* The workspace ledger: all components over the same database rows, with  *)
(* the steps of the requests in flight interleaved.                        *)
(***************************************************************************)
EXTENDS AccountingPeriods, CollectedTransactions, JournalEntries,
        CarryForwards, FinancialStatements, ImportedRows, LiabilityRepayments

PeriodStep(r) ==
    \/ \E m \in Months : OpenCheck(r, m)
    \/ OpenCommit(r)
    \/ \E m \in Months : CloseRead(r, m)
    \/ CloseCommit(r)
    \/ \E m \in Months : ReopenCheck(r, m)
    \/ ReopenRollbackRead(r)
    \/ ReopenCommit(r)

CollectedStep(r) ==
    \/ \E m \in Months, a \in Amounts, st \in ManualStatus :
            CreateGuard(r, m, a, st)
    \/ \E t \in Txs : CreateInsert(r, t)
    \/ \E t \in Txs, m \in Months, a \in Amounts, st \in ManualStatus,
          rev \in BOOLEAN : UpdateGuard(r, t, m, a, st, rev)
    \/ UpdateCommit(r)
    \/ \E t \in Txs : DeleteGuard(r, t)
    \/ DeleteCommit(r)
    \/ \E t \in Txs : ConfirmRead(r, t)
    \/ \E e \in Entries : ConfirmCommit(r, e)
    \/ \E e \in Entries : ConfirmCancellationCommit(r, e)

JournalStep(r) ==
    \/ \E e \in Entries, m \in Months : ReverseGuard(r, e, m)
    \/ ReverseRead(r)
    \/ \E e \in Entries : ReverseCommit(r, e)
    \/ \E e \in Entries, m \in Months, a \in Amounts : CorrectGuard(r, e, m, a)
    \/ CorrectRead(r)
    \/ \E e \in Entries : CorrectCommit(r, e)

SnapshotStep(r) ==
    \/ \E m \in Months : CarryCheck(r, m)
    \/ CarryCommit(r)
    \/ \E m \in Months : CancelCarryRead(r, m)
    \/ CancelCarryCommit(r)
    \/ \E m \in Months : StatementsRead(r, m)
    \/ StatementsCommit(r)

SourceStep(r) ==
    \/ \E w \in Rows, a \in Amounts, st \in Unposted : CollectRowRead(r, w, a, st)
    \/ \E t \in Txs : CollectRowInsert(r, t)
    \/ CollectRowAbsorb(r)
    \/ \E rows \in Batches : CancelCollectionRead(r, rows)
    \/ CancelCollectionCommit(r)
    \/ \E s \in Schedules, a \in Amounts : RepaymentCheck(r, s, a)
    \/ \E t \in Txs : RepaymentCommit(r, t)
    \/ \E s \in Schedules, st \in ScheduleStatus : UpdateRepaymentCheck(r, s, st)
    \/ UpdateRepaymentCommit(r)

Next ==
    \E r \in Requests :
        \/ PeriodStep(r)
        \/ CollectedStep(r)
        \/ JournalStep(r)
        \/ SnapshotStep(r)
        \/ SourceStep(r)
        \/ Fail(r)

Spec == Init /\ [][Next]_vars

-----------------------------------------------------------------------------
(* Postings and their source *)

\* The status of an entry and that of the transaction it was posted from
\* move together: POSTED with POSTED, REVERSED or SUPERSEDED with CORRECTED
\* (confirm, reverse, correct and the confirmation of a card cancellation).
PostingStatusAgrees ==
    \A e \in Entries : entry[e].source # NoTx =>
        CASE entry[e].status = "POSTED" -> tx[entry[e].source].status = "POSTED"
          [] OTHER -> tx[entry[e].source].status = "CORRECTED"

\* Whatever requests race to confirm, update, delete or adjust it, a
\* transaction that counts as posted has exactly one journal entry posted
\* from it, and one that does not has none (claimForConfirmation, and the
\* unique key sourceCollectedTransactionId).
PostedByOneEntry ==
    \A t \in Txs :
        IF tx[t].status \in {"POSTED", "CORRECTED"}
        THEN \E e \in Entries : Sourced(t) = {e}
        ELSE Sourced(t) = {}

\* The entries of a month carry the numbers 1, 2, ... without a gap and
\* without a duplicate, whatever requests allocate at the same time or fail
\* after allocating (allocateJournalEntryNumber).
NumbersGapless ==
    \A m \in Months :
        /\ {entry[e].seq : e \in EntriesOf(m)} = 1 .. (period[m].nextSeq - 1)
        /\ \A e, f \in EntriesOf(m) : entry[e].seq = entry[f].seq => e = f

\* The lineage of adjustments: an entry is REVERSED exactly when one entry
\* reverses it, SUPERSEDED exactly when one entry corrects it, and never
\* both (reverse and correct claim the original on its status).
AdjustedOnce ==
    \A e \in Entries :
        LET reversers == {k \in Entries : entry[k].reverses = e}
            correctors == {k \in Entries : entry[k].corrects = e}
        IN  /\ Cardinality(reversers) = IF entry[e].status = "REVERSED" THEN 1 ELSE 0
            /\ Cardinality(correctors) = IF entry[e].status = "SUPERSEDED" THEN 1 ELSE 0

-----------------------------------------------------------------------------
(* Months and their snapshots *)

\* A month is LOCKED exactly when it has its closing snapshot: the close
\* writes both or neither, the reopening takes both back.
LockedIffClosed ==
    \A m \in Months : period[m].status = "LOCKED" <=> closing[m].exists

\* While a carry forward record exists its source is locked, and the opening
\* balances of the next month are the closing balances of the source.
CarryMatchesClosing ==
    \A m \in Months : carry[m] =>
        /\ period[m].status = "LOCKED"
        /\ m + 1 \in Existing
        /\ opening[m + 1].kind = "CARRY_FORWARD"
        /\ opening[m + 1].entries = closing[m].entries

\* A locked month has no transaction waiting to be confirmed.
NoPendingInLocked ==
    \A m \in Months : period[m].status = "LOCKED" => Pending(m) = {}

\* Has e been reversed or corrected by an entry of its own month?
AdjustedAtHome(e) ==
    \E k \in Entries :
        /\ entry[k].reverses = e \/ entry[k].corrects = e
        /\ entry[k].month = entry[e].month

\* The closing snapshot of a month adds up its opening balances and those
\* entries of the month that are not adjusted within the month; adjusting
\* one later, from another month, leaves it in.
ClosingComplete ==
    \A m \in Months : closing[m].exists =>
        closing[m].entries = opening[m].entries \cup
            {e \in EntriesOf(m) : ~ AdjustedAtHome(e)}

\* Official statements exist for locked months only, and three of them tell
\* what the closing snapshot tells.  The cash flow summary is drawn from the
\* journal instead: of the month's lines in the closing snapshot it lacks
\* those only whose entry has been adjusted since the close.
StatementsMatchClosing ==
    \A m \in Months : fs[m].exists =>
        /\ period[m].status = "LOCKED"
        /\ fs[m].entries = closing[m].entries
        /\ fs[m].posted \subseteq EntriesOf(m) \cap fs[m].entries
        /\ \A e \in (EntriesOf(m) \cap fs[m].entries) \ fs[m].posted :
                entry[e].status # "POSTED"

-----------------------------------------------------------------------------
(* The repayment schedules and imported rows behind the transactions *)

\* A schedule holds the entry that paid it exactly as long as it counts as
\* paid, and that entry was posted from the transaction it is linked to.
RepaymentSettledByItsEntry ==
    \A s \in Schedules : schedule[s].entry # NoEntry =>
        /\ schedule[s].status = "POSTED"
        /\ entry[schedule[s].entry].source = schedule[s].tx

\* The status kept with a linked schedule is the one its links say: PLANNED
\* with an item whose transaction has been deleted, MATCHED with a
\* transaction, POSTED with an entry, whatever is generated, absorbed,
\* confirmed, adjusted, cancelled or changed in whatever order (the summaries
\* count the kept status, readEffectiveRepaymentStatus shows the other).
RepaymentStatusFollowsLinks ==
    \A s \in Schedules : schedule[s].tx # NoTx =>
        schedule[s].status =
            CASE schedule[s].entry # NoEntry -> "POSTED"
              [] tx[schedule[s].tx].status = "GONE" -> "PLANNED"
              [] OTHER -> "MATCHED"

\* Was the entry of t taken back by a user's reversal?
TakenBack(t) ==
    \E e \in Sourced(t), k \in Entries :
        entry[k].reverses = e /\ entry[k].source = NoTx

\* A plan item follows the transaction matched with it, also while the
\* transactions of an upload are collected, confirmed, deleted and cancelled
\* at the same time: it is a draft again when that has been deleted, waits
\* while that is unposted or has been reversed, and is confirmed otherwise.
PlanFollowsTransaction ==
    \A t \in Txs : plan[t].status # "NONE" =>
        plan[t].status =
            CASE tx[t].status = "GONE" -> "DRAFT"
              [] tx[t].status \in Unposted \/ TakenBack(t) -> "MATCHED"
              [] OTHER -> "CONFIRMED"

\* A posted card cancellation has reversed the entry of the very approval
\* its row names, and nothing else that has a source reverses anything.
CancellationReversesApproval ==
    \A e \in Entries : entry[e].source # NoTx =>
        LET t == entry[e].source
            o == entry[e].reverses
        IN  IF IsCancellation(t)
            THEN o # NoEntry /\ tx[entry[o].source].row = CancelTarget[tx[t].row]
            ELSE o = NoEntry

\* An entry says what its transaction says: the amount and the month.
PostedAsRecorded ==
    \A e \in Entries :
        entry[e].source # NoTx /\ entry[e].reverses = NoEntry =>
            /\ entry[e].amount = tx[entry[e].source].amount
            /\ entry[e].month = tx[entry[e].source].month

-----------------------------------------------------------------------------
(* What a step may never do *)

\* History is append-only: an entry keeps its month, number, amount and
\* source, leaves POSTED at most once and never comes back; only the removal
\* of its whole month takes it away (the "no overwriting" of reverse and
\* correct).
EntryKept(e) ==
    \/ /\ entry'[e].status = "GONE"
       /\ period'[entry[e].month].status = "NONE"
    \/ /\ entry'[e].month = entry[e].month
       /\ entry'[e].seq = entry[e].seq
       /\ entry'[e].amount = entry[e].amount
       /\ entry'[e].source = entry[e].source
       /\ \/ entry'[e].status = entry[e].status
          \/ /\ entry[e].status = "POSTED"
             /\ entry'[e].status \in {"REVERSED", "SUPERSEDED"}

HistoryKept ==
    [][\A e \in Entries : entry[e].status \in EntryLive => EntryKept(e)]_vars

-----------------------------------------------------------------------------
(* The books a reader sees *)

\* The entries of month m in the order of their numbers.
Journal(m) ==
    [i \in 1 .. (period[m].nextSeq - 1) |->
        CHOOSE e \in EntriesOf(m) : entry[e].seq = i]

BookStates ==
    [m \in Months |-> CASE period[m].status = "NONE" -> "none"
                       [] period[m].status = "LOCKED" -> "sealed"
                       [] OTHER -> "open"]
BookEntries == [m \in Months |-> Journal(m)]
BookBalances == [m \in Months |-> closing[m].entries]

Books == INSTANCE PeriodBooks WITH
    Entry <- Entries, state <- BookStates, book <- BookEntries,
    balance <- BookBalances

\* The ledger, with all its requests in flight, implements the books: the
\* number allocation and the claim of the close work on the same period row,
\* so that no entry slips into a sealed book and no number is skipped.
ImplementsBooks == Books!Spec
=============================================================================
