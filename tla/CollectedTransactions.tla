------------------------ MODULE CollectedTransactions ------------------------
(***************************************************************************)
(* Entering, changing, deleting and confirming collected transactions.     *)
(* Confirming posts the journal entry of the transaction; confirming an    *)
(* imported card cancellation posts the reversal of the approval's entry.  *)
(***************************************************************************)
EXTENDS WorkspaceLedger

-----------------------------------------------------------------------------
(* Create *)

\* resolveManualCollectedTransactionStatus: with a category (or a transfer)
\* the transaction is ready, without one it waits for review.
ManualStatus == {"REVIEWED", "READY_TO_POST"}

\* The controller checks the business date, outside any transaction.
CreateGuard(r, m, amount, status) ==
    /\ Starts(r, "create")
    /\ WriteGuard(m, Collecting)
    /\ Hold(r, [Idle EXCEPT !.at = "createInsert", !.month = m,
                            !.amount = amount, !.status = status])
    /\ UNCHANGED <<periodVars, ledgerVars>>

\* The insert needs the period row only, whatever its status has become.
CreateInsert(r, t) ==
    LET q == req[r] IN
    /\ q.at = "createInsert"
    /\ FreshTx(t)
    /\ tx' = [tx EXCEPT ![t] =
                [NoTxRow EXCEPT !.status = q.status, !.month = q.month,
                                !.amount = q.amount]]
    /\ Answer(r)
    /\ UNCHANGED <<periodVars, plan, schedule, entry>>

-----------------------------------------------------------------------------
(* Update and delete *)

\* Slip: the write is conditional on the id of the transaction alone.
ChangeableAnyStatus(t) == tx[t].status \notin {"ABSENT", "GONE"}

\* isUnpostedCollectedTransactionPostingStatus and no posted entry
Changeable(t) == tx[t].status \in Unposted /\ NotSourced(t)

\* assertCollectedTransactionCanBeManagedDirectly: a transaction made from a
\* repayment schedule is changed through the schedule.
ManagedDirectly(t) == LinkedSchedules(t) = {}

\* The date checked is the new one.  Only an imported transaction may
\* become a card cancellation.
UpdateGuard(r, t, m, amount, status, reversal) ==
    /\ Starts(r, "update")
    /\ WriteGuard(m, Collecting)
    /\ Changeable(t)
    /\ reversal => tx[t].row # NoRow
    /\ Hold(r, [Idle EXCEPT !.at = "updateCommit", !.tx = t, !.month = m,
                            !.amount = amount, !.status = status,
                            !.flag = reversal])
    /\ UNCHANGED <<periodVars, ledgerVars>>

UpdateCommit(r) ==
    LET q == req[r] IN
    /\ q.at = "updateCommit"
    /\ Changeable(q.tx)
    /\ ManagedDirectly(q.tx)
    /\ tx' = [tx EXCEPT ![q.tx] =
                [@ EXCEPT !.status = q.status, !.month = q.month,
                          !.detached = FALSE, !.amount = q.amount,
                          !.type = IF q.flag THEN "REVERSAL" ELSE "PLAIN"]]
    /\ Answer(r)
    /\ UNCHANGED <<periodVars, plan, schedule, entry>>

\* The date checked is that of the transaction.
DeleteGuard(r, t) ==
    /\ Starts(r, "delete")
    /\ tx[t].status \notin {"ABSENT", "GONE"}
    /\ WriteGuard(tx[t].month, Collecting)
    /\ Hold(r, [Idle EXCEPT !.at = "deleteCommit", !.tx = t])
    /\ UNCHANGED <<periodVars, ledgerVars>>

\* The matched plan item goes back to DRAFT.
DeleteCommit(r) ==
    LET t == req[r].tx IN
    /\ req[r].at = "deleteCommit"
    /\ Changeable(t)
    /\ ManagedDirectly(t)
    /\ tx' = [tx EXCEPT ![t] = [NoTxRow EXCEPT !.status = "GONE"]]
    /\ plan' = IF plan[t].status = "NONE" THEN plan
               ELSE [plan EXCEPT ![t].status = "DRAFT"]
    /\ Answer(r)
    /\ UNCHANGED <<periodVars, schedule, entry>>

-----------------------------------------------------------------------------
(* Confirm *)

\* isImportedReversalTransaction
IsCancellation(t) == tx[t].type = "REVERSAL" /\ tx[t].row # NoRow

\* Slip: the row the cancellation refers to is not compared.
CancelledByAnyRow(t) ==
    {e \in Entries : entry[e].status = "POSTED" /\ entry[e].source \in Txs}

\* findReversalTarget: the entry of the transaction made from the row whose
\* approval t cancels.
CancelledBy(t) ==
    {e \in Entries :
        /\ entry[e].status = "POSTED"
        /\ entry[e].source \in Txs
        /\ CancelTarget[tx[t].row] # NoRow
        /\ tx[entry[e].source].row = CancelTarget[tx[t].row]}

\* assertCollectedTransactionCanBeConfirmed
CanBeConfirmed(t) ==
    /\ tx[t].status = "READY_TO_POST"
    /\ ~ tx[t].detached
    /\ period[tx[t].month].status \in JournalWritable
    /\ NotSourced(t)

\* The check before the transaction and the one inside it, which decides.
\* The handler goes on with the amount, the month and the links it read.
ConfirmRead(r, t) ==
    /\ Starts(r, "confirm")
    /\ CanBeConfirmed(t)
    /\ \E s \in IF LinkedSchedules(t) = {} THEN {NoSchedule}
                                           ELSE LinkedSchedules(t) :
       LET q == [Idle EXCEPT !.at = "confirmCommit", !.tx = t,
                             !.month = tx[t].month, !.amount = tx[t].amount,
                             !.flag = (plan[t].status # "NONE"),
                             !.schedule = s]
       IN  IF IsCancellation(t)
           THEN \E e \in CancelledBy(t) :
                    Hold(r, [q EXCEPT !.entry = e,
                                      !.amount = entry[e].amount,
                                      !.status = tx[entry[e].source].status])
           ELSE Hold(r, q)
    /\ UNCHANGED <<periodVars, ledgerVars>>

\* The claim is an update conditional on the status that was read, and only
\* on it: the content of the entry is what was read.
ConfirmCommit(r, e) ==
    LET q == req[r]
        settled == IF q.flag THEN {s \in LinkedSchedules(q.tx) :
                                        schedule[s].entry = NoEntry}
                             ELSE {}
    IN
    /\ q.at = "confirmCommit" /\ q.entry = NoEntry
    /\ AllocateNumber(q.month)
    /\ tx[q.tx].status = "READY_TO_POST"
    /\ NotSourced(q.tx)
    /\ q.flag => plan[q.tx].status # "NONE"
    /\ q.schedule # NoSchedule => settled # {}
    /\ FreshEntry(e)
    /\ tx' = [tx EXCEPT ![q.tx].status = "POSTED"]
    /\ entry' = [entry EXCEPT ![e] =
                    [NewEntry(q.month, q.amount) EXCEPT !.source = q.tx]]
    /\ plan' = IF q.flag THEN [plan EXCEPT ![q.tx].status = "CONFIRMED"]
                         ELSE plan
    /\ schedule' = [s \in Schedules |->
                        IF s \in settled
                        THEN [schedule[s] EXCEPT !.status = "POSTED", !.entry = e]
                        ELSE schedule[s]]
    /\ Answer(r)
    /\ UNCHANGED <<opening, closing, carry, fs>>

\* confirmImportedReversalTransaction: both the approval's entry and its
\* transaction are claimed on the status that was read.
ConfirmCancellationCommit(r, e) ==
    LET q == req[r]
        original == entry[q.entry].source
    IN
    /\ q.at = "confirmCommit" /\ q.entry # NoEntry
    /\ AllocateNumber(q.month)
    /\ tx[q.tx].status = "READY_TO_POST"
    /\ NotSourced(q.tx)
    /\ entry[q.entry].status = "POSTED"
    /\ tx[original].status = q.status
    /\ NotReversed(q.entry)
    /\ FreshEntry(e)
    /\ tx' = [tx EXCEPT ![q.tx].status = "POSTED",
                        ![original].status = "CORRECTED"]
    /\ entry' = [entry EXCEPT ![q.entry].status = "REVERSED",
                    ![e] = [NewEntry(q.month, q.amount)
                                EXCEPT !.source = q.tx, !.reverses = q.entry]]
    /\ Answer(r)
    /\ UNCHANGED <<opening, closing, carry, fs, plan, schedule>>
=============================================================================
