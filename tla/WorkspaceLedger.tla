--------------------------- MODULE WorkspaceLedger ---------------------------
(***************************************************************************)
(* The database rows of one workspace ledger, and the requests that work   *)
(* on them.  Every component module extends this one and adds the actions  *)
(* of its handlers; LedgerSystem puts the actions together.                *)
(*                                                                         *)
(* A request of the API is a small process.  A prisma.$transaction runs on *)
(* InnoDB at REPEATABLE READ: its plain reads see the snapshot of its      *)
(* first SELECT, and its conditional updateMany / deleteMany statements    *)
(* see the rows as they are.  A transaction is therefore two actions: a    *)
(* Read, which keeps in req[r] what the handler decides from, and a        *)
(* Commit, which evaluates the conditional writes on the current rows.     *)
(* A check the handler makes before it opens the transaction is an action  *)
(* of its own.                                                             *)
(***************************************************************************)
EXTENDS Integers, FiniteSets

CONSTANTS
    LastMonth,     \* the calendar months are 1..LastMonth
    LastEntry,     \* bound: journal entry ids are 1..LastEntry, never reused
    Txs,           \* collected transaction ids, never reused
    NoTx,          \* null reference to a collected transaction
    Amounts,       \* amounts a client may enter
    Rows,          \* imported rows a transaction may be created from
    NoRow,         \* null reference to an imported row
    CancelTarget,  \* row -> row whose card approval it cancels, or NoRow
    RowMonth,      \* row -> month of its transaction date
    Batches,       \* the uploads: each is the set of its rows
    Schedules,     \* liability repayment schedule ids
    NoSchedule,    \* null reference to a repayment schedule
    DueMonth,      \* schedule -> month of its due date
    Requests,      \* bound: requests in flight at the same time
    Ops            \* the operations the requests may perform

Months  == 1 .. LastMonth
Entries == 1 .. LastEntry
NoMonth == 0
NoEntry == 0
NoAmount == 0

Operations ==
    { "open", "close", "reopen", "create", "update", "delete", "confirm",
      "reverse", "correct", "carry", "cancelCarry", "statements",
      "collectRow", "cancelCollection", "repayment",
      "updateRepayment" }

ASSUME LedgerConstants ==
    /\ LastMonth \in Nat \ {0}
    /\ LastEntry \in Nat
    /\ NoTx \notin Txs
    /\ NoRow \notin Rows
    /\ NoSchedule \notin Schedules
    /\ Amounts \subseteq Nat \ {0}
    /\ CancelTarget \in [Rows -> Rows \cup {NoRow}]
    /\ RowMonth \in [Rows -> Months]
    /\ Batches \subseteq SUBSET Rows
    /\ DueMonth \in [Schedules -> Months]
    /\ Ops \subseteq Operations

VARIABLES
    period,    \* AccountingPeriod rows, by month
    opening,   \* OpeningBalanceSnapshot rows, by the month they take effect in
    closing,   \* ClosingSnapshot rows, by month
    carry,     \* is there a CarryForwardRecord from this month to the next?
    fs,        \* FinancialStatementSnapshot rows, by month
    tx,        \* CollectedTransaction rows
    plan,      \* the PlanItem row matched with each transaction
    schedule,  \* LiabilityRepaymentSchedule rows
    entry,     \* JournalEntry rows
    req        \* the requests in flight

periodVars == <<period, opening, closing, carry, fs>>
ledgerVars == <<tx, plan, schedule, entry>>
vars == <<period, opening, closing, carry, fs, tx, plan, schedule, entry, req>>

-----------------------------------------------------------------------------
(* Rows *)

\* accounting-period-transition.policy.ts: "NONE" is a month with no row.
PeriodStatus == {"NONE", "OPEN", "IN_REVIEW", "CLOSING", "LOCKED"}
\* readCollectingAccountingPeriodStatuses
Collecting == {"OPEN", "IN_REVIEW", "CLOSING"}
\* journalWritableAccountingPeriodStatuses
JournalWritable == {"OPEN", "IN_REVIEW"}

\* "ABSENT" is an id not used yet, "GONE" the id of a deleted row.
Unposted == {"COLLECTED", "REVIEWED", "READY_TO_POST"}
TxStatus == Unposted \cup {"POSTED", "CORRECTED", "ABSENT", "GONE"}
ScheduleStatus ==
    {"SCHEDULED", "PLANNED", "MATCHED", "POSTED", "SKIPPED", "CANCELLED"}
EntryLive == {"POSTED", "REVERSED", "SUPERSEDED"}
EntryStatus == EntryLive \cup {"ABSENT", "GONE"}

PeriodRow == [status : PeriodStatus, nextSeq : Nat]
\* A balance snapshot is the set of the entries whose lines it adds up; the
\* amounts of the initial setup are in every one of them and are left out.
OpeningRow == [kind : {"NONE", "INITIAL_SETUP", "CARRY_FORWARD"},
               entries : SUBSET Entries]
ClosingRow == [exists : BOOLEAN, entries : SUBSET Entries]
\* entries: the closing lines of the payload; posted: its journal lines.
StatementRow == [exists : BOOLEAN, entries : SUBSET Entries,
                 posted : SUBSET Entries]
\* month is that of occurredOn; periodId points to the period of that month,
\* or is null (detached) once that period has been deleted.
TxRow == [status : TxStatus, month : Months \cup {NoMonth},
          detached : BOOLEAN, amount : Amounts \cup {NoAmount},
          type : {"PLAIN", "REVERSAL"}, row : Rows \cup {NoRow}]
PlanRow == [status : {"NONE", "DRAFT", "MATCHED", "CONFIRMED"},
            month : Months \cup {NoMonth}]
\* tx: the transaction last matched with the linked plan item; it may have
\* been deleted since, the link to the item remains.
ScheduleRow == [status : ScheduleStatus,
                tx : Txs \cup {NoTx}, entry : Entries \cup {NoEntry}]
EntryRow == [status : EntryStatus, month : Months \cup {NoMonth}, seq : Nat,
             amount : Amounts \cup {NoAmount}, source : Txs \cup {NoTx},
             reverses : Entries \cup {NoEntry},
             corrects : Entries \cup {NoEntry}]

NoPeriod  == [status |-> "NONE", nextSeq |-> 1]
NewPeriod == [status |-> "OPEN", nextSeq |-> 1]
NoOpening == [kind |-> "NONE", entries |-> {}]
NoClosing == [exists |-> FALSE, entries |-> {}]
NoStatement == [exists |-> FALSE, entries |-> {}, posted |-> {}]
NoTxRow == [status |-> "ABSENT", month |-> NoMonth, detached |-> FALSE,
            amount |-> NoAmount, type |-> "PLAIN", row |-> NoRow]
NoPlan == [status |-> "NONE", month |-> NoMonth]
NewSchedule == [status |-> "SCHEDULED", tx |-> NoTx, entry |-> NoEntry]
NoEntryRow == [status |-> "ABSENT", month |-> NoMonth, seq |-> 0,
               amount |-> NoAmount, source |-> NoTx, reverses |-> NoEntry,
               corrects |-> NoEntry]

-----------------------------------------------------------------------------
(* Requests *)

\* at names the next database step; the other fields are what the handler
\* has read or been given, and holds in local variables.
Steps ==
    { "idle", "openCommit", "closeCommit", "reopenRollback", "reopenCommit",
      "createInsert", "updateCommit", "deleteCommit", "confirmCommit",
      "reverseRead", "reverseCommit", "correctRead", "correctCommit",
      "carryCommit", "cancelCarryCommit", "statementsCommit",
      "collectRowInsert", "collectRowAbsorb", "cancelCollectionCommit",
      "repaymentCommit", "updateRepaymentCommit" }

Request == [at : Steps, month : Months \cup {NoMonth}, tx : Txs \cup {NoTx},
            entry : Entries \cup {NoEntry}, amount : Amounts \cup {NoAmount},
            status : PeriodStatus \cup TxStatus \cup ScheduleStatus, flag : BOOLEAN,
            row : Rows \cup {NoRow}, schedule : Schedules \cup {NoSchedule},
            entries : SUBSET Entries, posted : SUBSET Entries,
            txs : SUBSET Txs]

Idle == [at |-> "idle", month |-> NoMonth, tx |-> NoTx, entry |-> NoEntry,
         amount |-> NoAmount, status |-> "NONE", flag |-> FALSE,
         row |-> NoRow, schedule |-> NoSchedule, entries |-> {},
         posted |-> {}, txs |-> {}]

\* Request r is free to start operation op.
Starts(r, op) == op \in Ops /\ req[r].at = "idle"
\* The handler of r goes on, holding rec, or has answered its client.
Hold(r, rec) == req' = [req EXCEPT ![r] = rec]
Answer(r) == req' = [req EXCEPT ![r] = Idle]

\* An error, a lock timeout or a lost connection rolls the transaction back
\* and ends the request; nothing it has written remains.
Fail(r) ==
    /\ req[r].at # "idle"
    /\ Answer(r)
    /\ UNCHANGED <<periodVars, ledgerVars>>

-----------------------------------------------------------------------------
(* What the handlers ask of the database *)

Existing == {m \in Months : period[m].status # "NONE"}
IsLatest(m, S) == m \in S /\ \A k \in S : k <= m

\* Slip: any period counts, instead of the collecting ones.
WriteGuardAnyStatus(m, statuses) == IsLatest(m, Existing)

\* assertBusinessDateAllowedInWorkspace: the date must lie in the latest
\* period whose status is one of statuses.
WriteGuard(m, statuses) ==
    IsLatest(m, {k \in Months : period[k].status \in statuses})

InPeriod(t, m) ==
    /\ tx[t].status \notin {"ABSENT", "GONE"}
    /\ tx[t].month = m
    /\ ~ tx[t].detached

Pending(m) == {t \in Txs : InPeriod(t, m) /\ tx[t].status \in Unposted}
EntriesOf(m) == {e \in Entries : entry[e].status \in EntryLive /\ entry[e].month = m}
\* Slip: the status of the entry is not filtered.
PostedOfAnyStatus(m) == EntriesOf(m)
PostedOf(m) == {e \in EntriesOf(m) : entry[e].status = "POSTED"}
Sourced(t) == {e \in Entries : entry[e].status \in EntryLive /\ entry[e].source = t}
LinkedSchedules(t) == {s \in Schedules : schedule[s].tx = t}

\* The id the next insert gets.
FreshEntry(e) ==
    /\ entry[e].status = "ABSENT"
    /\ \A k \in Entries : entry[k].status = "ABSENT" => e <= k
FreshTx(t) == tx[t].status = "ABSENT"

\* Slips: the counter is read and not advanced; the update is conditional on
\* the id of the period alone.
AllocateNumberReadOnly(m) ==
    /\ period[m].status \in JournalWritable
    /\ UNCHANGED period
AllocateNumberAnyStatus(m) ==
    period' = [period EXCEPT ![m].nextSeq = @ + 1]

\* The conditional updateMany of allocateJournalEntryNumber; the update sees
\* the current row, so that the number is the one nobody else has.
AllocateNumber(m) ==
    /\ period[m].status \in JournalWritable
    /\ period' = [period EXCEPT ![m].nextSeq = @ + 1]

\* The unique keys of JournalEntry: one entry per source transaction, one
\* reversal per entry.
NotSourced(t) == Sourced(t) = {}
NotReversed(e) == \A k \in Entries : entry[k].reverses # e

\* A POSTED entry under the number just allocated in month m.
NewEntry(m, amount) ==
    [NoEntryRow EXCEPT !.status = "POSTED", !.month = m,
                       !.seq = period[m].nextSeq, !.amount = amount]

-----------------------------------------------------------------------------
\* What a request at each of its steps has in hand.
WellFormed(q) ==
    /\ q.at \notin {"idle", "deleteCommit", "cancelCollectionCommit",
                   "updateRepaymentCommit"} => q.month \in Months
    /\ q.at = "carryCommit" \/ (q.at = "reopenCommit" /\ q.flag) \/ q.at = "reopenRollback"
        => q.month + 1 \in Months
    /\ q.at \in {"createInsert", "updateCommit", "collectRowInsert",
                "collectRowAbsorb"} => q.status \in Unposted
    /\ q.at \in {"updateCommit", "deleteCommit", "confirmCommit",
                "collectRowAbsorb"} => q.tx \in Txs
    /\ q.at \in {"reverseRead", "reverseCommit", "correctRead",
                "correctCommit"} => q.entry \in Entries
    /\ q.at \in {"collectRowInsert", "collectRowAbsorb"} => q.row \in Rows
    /\ q.at \in {"repaymentCommit", "updateRepaymentCommit"}
        => q.schedule \in Schedules
    /\ q.at = "updateRepaymentCommit" => q.status \in ScheduleStatus

PeriodRowsOK ==
    /\ period \in [Months -> PeriodRow]
    /\ opening \in [Months -> OpeningRow]
    /\ closing \in [Months -> ClosingRow]
    /\ carry \in [Months -> BOOLEAN]
    /\ fs \in [Months -> StatementRow]

LedgerRowsOK ==
    /\ tx \in [Txs -> TxRow]
    /\ plan \in [Txs -> PlanRow]
    /\ schedule \in [Schedules -> ScheduleRow]
    /\ entry \in [Entries -> EntryRow]
    /\ \A t \in Txs : tx[t].status \in Unposted => tx[t].month \in Months
    /\ \A e \in Entries : entry[e].status \in EntryLive => entry[e].month \in Months

RequestsOK ==
    /\ req \in [Requests -> Request]
    /\ \A r \in Requests : WellFormed(req[r])

\* The rows have the types of the schema, and a handler between two database
\* steps holds the references its next statement is about.
TypeOK == PeriodRowsOK /\ LedgerRowsOK /\ RequestsOK

\* A new workspace: no month opened, repayment schedules already entered.
Init ==
    /\ period = [m \in Months |-> NoPeriod]
    /\ opening = [m \in Months |-> NoOpening]
    /\ closing = [m \in Months |-> NoClosing]
    /\ carry = [m \in Months |-> FALSE]
    /\ fs = [m \in Months |-> NoStatement]
    /\ tx = [t \in Txs |-> NoTxRow]
    /\ plan = [t \in Txs |-> NoPlan]
    /\ schedule = [s \in Schedules |-> NewSchedule]
    /\ entry = [e \in Entries |-> NoEntryRow]
    /\ req = [r \in Requests |-> Idle]
=============================================================================
