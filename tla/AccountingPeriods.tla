-------------------------- MODULE AccountingPeriods --------------------------
(***************************************************************************)
(* Opening, closing and reopening the operating month: the three lifecycle *)
(* services of the accounting-periods module.                              *)
(***************************************************************************)
EXTENDS WorkspaceLedger

-----------------------------------------------------------------------------
(* PrismaOpenAccountingPeriodLifecycle *)

\* The checks run before the transaction.  The first month, and only the
\* first, comes with the opening balances the user has entered.
OpenCheck(r, m) ==
    /\ Starts(r, "open")
    /\ period[m].status = "NONE"
    /\ \A k \in Existing :
        /\ k < m
        /\ IsLatest(k, Existing) => period[k].status = "LOCKED"
    /\ Hold(r, [Idle EXCEPT !.at = "openCommit", !.month = m,
                            !.flag = (Existing = {})])
    /\ UNCHANGED <<periodVars, ledgerVars>>

\* Only the unique key (ledgerId, year, month) is left to stop the insert.
OpenCommit(r) ==
    LET m == req[r].month IN
    /\ req[r].at = "openCommit"
    /\ period[m].status = "NONE"
    /\ period' = [period EXCEPT ![m] = NewPeriod]
    /\ opening' = IF req[r].flag
                  THEN [opening EXCEPT ![m].kind = "INITIAL_SETUP"]
                  ELSE opening
    /\ Answer(r)
    /\ UNCHANGED <<closing, carry, fs, ledgerVars>>

-----------------------------------------------------------------------------
(* PrismaCloseAccountingPeriodLifecycle *)

\* assertAccountingPeriodCanBeClosed
CanBeClosed(status) == status \in {"OPEN", "IN_REVIEW"}

\* The reads of the transaction, all at the snapshot of its first SELECT:
\* the status, the pending transactions and the lines to aggregate.
CloseRead(r, m) ==
    /\ Starts(r, "close")
    /\ CanBeClosed(period[m].status)
    /\ ~ closing[m].exists
    /\ Pending(m) = {}
    /\ Hold(r, [Idle EXCEPT !.at = "closeCommit", !.month = m,
                            !.status = period[m].status,
                            !.entries = opening[m].entries \cup PostedOf(m)])
    /\ UNCHANGED <<periodVars, ledgerVars>>

\* The claim, OPEN -> CLOSING, is an update conditional on the status that
\* was read; CLOSING is overwritten by LOCKED before the commit, so that no
\* other transaction ever reads it.
CloseCommit(r) ==
    LET q == req[r] IN
    /\ q.at = "closeCommit"
    /\ period[q.month].status = q.status
    /\ ~ closing[q.month].exists
    /\ closing' = [closing EXCEPT ![q.month] =
                        [exists |-> TRUE, entries |-> q.entries]]
    /\ period' = [period EXCEPT ![q.month].status = "LOCKED"]
    /\ Answer(r)
    /\ UNCHANGED <<opening, carry, fs, ledgerVars>>

-----------------------------------------------------------------------------
(* PrismaReopenAccountingPeriodLifecycle *)

\* assertLatestSuccessorPeriodHasNoUsage
Unused(n) ==
    /\ \A t \in Txs : ~ InPeriod(t, n)
    /\ \A t \in Txs : plan[t].status # "NONE" => plan[t].month # n
    /\ EntriesOf(n) = {}
    /\ ~ fs[n].exists
    /\ ~ closing[n].exists

\* The month n after m was opened by mistake and can go away with the lock.
CanRollBack(n) ==
    /\ n \in Existing
    /\ period[n].status = "OPEN"
    /\ opening[n].kind = "NONE"
    /\ Unused(n)

\* The checks before the transaction: nothing may depend on the close of m.
ReopenCheck(r, m) ==
    /\ Starts(r, "reopen")
    /\ period[m].status = "LOCKED"
    /\ ~ carry[m]
    /\ m + 1 \in Months => opening[m + 1].kind = "NONE"
    /\ \/ /\ IsLatest(m, Existing)
          /\ Hold(r, [Idle EXCEPT !.at = "reopenCommit", !.month = m])
       \/ /\ IsLatest(m + 1, Existing)
          /\ CanRollBack(m + 1)
          /\ Hold(r, [Idle EXCEPT !.at = "reopenRollback", !.month = m,
                                  !.flag = TRUE])
    /\ UNCHANGED <<periodVars, ledgerVars>>

\* The transaction checks the successor again, at its own snapshot.
ReopenRollbackRead(r) ==
    /\ req[r].at = "reopenRollback"
    /\ CanRollBack(req[r].month + 1)
    /\ Hold(r, [req[r] EXCEPT !.at = "reopenCommit"])
    /\ UNCHANGED <<periodVars, ledgerVars>>

\* What the foreign keys do when the period row of n is deleted: its entries
\* and plan items go with it, references to those become null, and its
\* transactions stay, without a period.
DeletePeriod(n) ==
    LET dead == EntriesOf(n)
        lost == {t \in Txs : plan[t].status # "NONE" /\ plan[t].month = n}
    IN
    /\ entry' = [e \in Entries |->
            IF e \in dead THEN [NoEntryRow EXCEPT !.status = "GONE"]
            ELSE [entry[e] EXCEPT
                    !.reverses = IF @ \in dead THEN NoEntry ELSE @,
                    !.corrects = IF @ \in dead THEN NoEntry ELSE @]]
    /\ tx' = [t \in Txs |->
            [tx[t] EXCEPT !.detached = @ \/ InPeriod(t, n)]]
    /\ plan' = [t \in Txs |-> IF t \in lost THEN NoPlan ELSE plan[t]]
    /\ schedule' = [s \in Schedules |->
            [schedule[s] EXCEPT
                !.tx = IF @ \in lost THEN NoTx ELSE @,
                !.entry = IF @ \in dead THEN NoEntry ELSE @]]

\* The request is about to create the period of its month, and holds no id.
CreatesPeriod(q) ==
    q.at = "openCommit" \/ (q.at = "collectRowInsert" /\ q.flag)

\* The requests that hold the id of a row this commit deletes.  A new row
\* has a new id, so these can only fail; they are ended here.
HoldsDeleted(q, m, rollback) ==
    \/ q.month = m /\ q.at = "carryCommit"
    \/ /\ rollback
       /\ \/ q.month = m + 1 /\ ~ CreatesPeriod(q)
          \/ q.month = m /\ q.at \in {"reopenRollback", "reopenCommit"} /\ q.flag

\* Slips: reopening leaves the statements, the closing snapshot or the carry
\* forward record behind.
DeleteSnapshotsButStatements(m, rollback) ==
    /\ UNCHANGED fs
    /\ closing' = [closing EXCEPT ![m] = NoClosing]
    /\ carry' = [carry EXCEPT ![m] = FALSE]
DeleteSnapshotsButClosing(m, rollback) ==
    /\ fs' = [fs EXCEPT ![m] = NoStatement]
    /\ UNCHANGED <<closing, carry>>
DeleteSnapshotsButCarry(m, rollback) ==
    /\ fs' = [fs EXCEPT ![m] = NoStatement]
    /\ closing' = [closing EXCEPT ![m] = NoClosing]
    /\ UNCHANGED carry

\* The statements and the closing snapshot of m are deleted, and its carry
\* forward record goes with the closing snapshot; the statements of the
\* successor go with its row.
DeleteSnapshots(m, rollback) ==
    /\ fs' = [k \in Months |-> IF k = m \/ (rollback /\ k = m + 1)
                              THEN NoStatement ELSE fs[k]]
    /\ closing' = [closing EXCEPT ![m] = NoClosing]
    /\ carry' = [carry EXCEPT ![m] = FALSE]

\* The successor is deleted only if it is still OPEN and without an opening
\* snapshot (a foreign key); the target's own row is updated whatever its
\* status.
ReopenCommit(r) ==
    LET m == req[r].month
        n == m + 1
        rollback == req[r].flag
    IN
    /\ req[r].at = "reopenCommit"
    /\ m \in Existing
    /\ IF rollback
       THEN /\ period[n].status = "OPEN" /\ opening[n].kind = "NONE"
            /\ DeletePeriod(n)
            /\ period' = [period EXCEPT ![m].status = "OPEN", ![n] = NoPeriod]
       ELSE /\ period' = [period EXCEPT ![m].status = "OPEN"]
            /\ UNCHANGED ledgerVars
    /\ DeleteSnapshots(m, rollback)
    /\ req' = [x \in Requests |->
            IF x = r \/ HoldsDeleted(req[x], m, rollback) THEN Idle ELSE req[x]]
    /\ UNCHANGED opening
=============================================================================
