----------------------------- MODULE ImportedRows -----------------------------
(***************************************************************************)
(* Collecting a row of an uploaded bank or card statement: it becomes a    *)
(* collected transaction of its month, or is absorbed by the transaction   *)
(* that was generated from a plan item.  The collection of a whole upload  *)
(* can be cancelled as long as nothing of it has been posted.              *)
(***************************************************************************)
EXTENDS WorkspaceLedger

\* readCollectableImportedRow
NotCollected(w) == \A t \in Txs : tx[t].row # w

\* The row of a card cancellation is collected with the type REVERSAL.
IsReversalRow(w) == CancelTarget[w] # NoRow

\* resolveTargetCollectionPeriod: the month may be created by the upload if
\* it is the first one, or for a new account right after the last one.
MayCreateMonth(m) ==
    /\ m \notin Existing
    /\ \/ Existing = {}
       \/ IsLatest(m - 1, Existing) /\ period[m - 1].status = "LOCKED"

\* readDraftPlanItemCandidates: an item whose transaction was deleted.
DraftPlans(m) ==
    {t \in Txs : /\ plan[t].status = "DRAFT" /\ plan[t].month = m
                 /\ tx[t].status = "GONE"}

\* readRecurringCollectedTransactionCandidates
PlannedTxs(m, amount) ==
    {t \in Pending(m) : /\ plan[t].status # "NONE"
                        /\ tx[t].row = NoRow
                        /\ tx[t].type = "PLAIN"
                        /\ tx[t].amount = amount}

\* resolveImportedRowAutoPreparation: a duplicate fingerprint leaves the
\* transaction COLLECTED, without a match.
RowStatus(w) == IF IsReversalRow(w) THEN {"COLLECTED", "READY_TO_POST"}
                ELSE Unposted

\* Everything collectRowInTransaction decides, from one snapshot.  A match
\* is made only when one candidate stands out, so there may be none.
CollectRowRead(r, w, amount, status) ==
    LET m == RowMonth[w]
        create == m \notin Existing
        q == [Idle EXCEPT !.at = "collectRowInsert", !.month = m, !.row = w,
                          !.amount = amount, !.status = status,
                          !.flag = create]
        mayMatch == ~ create /\ ~ IsReversalRow(w) /\ status # "COLLECTED"
    IN
    /\ Starts(r, "collectRow")
    /\ NotCollected(w)
    /\ status \in RowStatus(w)
    /\ MayCreateMonth(m) \/ WriteGuard(m, Collecting)
    /\ \/ Hold(r, q)
       \/ /\ mayMatch
          /\ \E t \in DraftPlans(m) : Hold(r, [q EXCEPT !.tx = t])
       \/ /\ mayMatch
          /\ \E t \in PlannedTxs(m, amount) :
                Hold(r, [q EXCEPT !.at = "collectRowAbsorb", !.tx = t])
    /\ UNCHANGED <<periodVars, ledgerVars>>

\* Slip: only schedules that were never planned before count.
MatchPlanFirstTime(old, t, m) ==
    /\ plan' = [x \in Txs |->
            IF x = t THEN [status |-> "MATCHED", month |-> m]
            ELSE IF x = old THEN NoPlan ELSE plan[x]]
    /\ schedule' = [s \in Schedules |->
            IF schedule[s].tx = old
            THEN [schedule[s] EXCEPT !.tx = t,
                    !.status = IF @ = "SCHEDULED" THEN "MATCHED" ELSE @]
            ELSE schedule[s]]

\* markPlanItemMatched, for the item whose transaction was old and is now t.
MatchPlan(old, t, m) ==
    /\ plan' = [x \in Txs |->
            IF x = t THEN [status |-> "MATCHED", month |-> m]
            ELSE IF x = old THEN NoPlan ELSE plan[x]]
    /\ schedule' = [s \in Schedules |->
            IF schedule[s].tx = old
            THEN [schedule[s] EXCEPT !.tx = t,
                    !.status = IF @ \in {"SCHEDULED", "PLANNED"}
                               THEN "MATCHED" ELSE @]
            ELSE schedule[s]]

\* createCollectedTransactionRecord, after the month has been created if it
\* has to be.  The unique keys are those of the month, of the row and of the
\* matched plan item.
CollectRowInsert(r, t) ==
    LET q == req[r] IN
    /\ q.at = "collectRowInsert"
    /\ NotCollected(q.row)
    /\ FreshTx(t)
    /\ q.flag => period[q.month].status = "NONE"
    /\ period' = IF q.flag THEN [period EXCEPT ![q.month] = NewPeriod]
                           ELSE period
    /\ tx' = [tx EXCEPT ![t] =
                [NoTxRow EXCEPT !.status = q.status, !.month = q.month,
                    !.amount = q.amount, !.row = q.row,
                    !.type = IF IsReversalRow(q.row) THEN "REVERSAL" ELSE "PLAIN"]]
    /\ IF q.tx = NoTx THEN UNCHANGED <<plan, schedule>>
       ELSE /\ plan[q.tx].status # "NONE"
            /\ MatchPlan(q.tx, t, plan[q.tx].month)
    /\ Answer(r)
    /\ UNCHANGED <<opening, closing, carry, fs, entry>>

\* absorbImportedRowIntoCollectedTransactionRecord: a claim on the planned
\* transaction being unposted and without a row.
CollectRowAbsorb(r) ==
    LET q == req[r] IN
    /\ q.at = "collectRowAbsorb"
    /\ NotCollected(q.row)
    /\ tx[q.tx].status \in Unposted
    /\ tx[q.tx].row = NoRow
    /\ plan[q.tx].status # "NONE"
    /\ tx' = [tx EXCEPT ![q.tx] =
                [@ EXCEPT !.status = q.status, !.month = q.month,
                          !.detached = FALSE, !.amount = q.amount,
                          !.row = q.row, !.type = "PLAIN"]]
    /\ MatchPlan(q.tx, q.tx, plan[q.tx].month)
    /\ Answer(r)
    /\ UNCHANGED <<periodVars, entry>>

-----------------------------------------------------------------------------
(* Cancelling the collection of a whole upload *)

CollectedFrom(rows) == {t \in Txs : tx[t].row \in rows}

\* The refusal while a bulk job works on the upload is a check before the
\* transaction and left out: rows may be collected at any moment after it.
CancelCollectionRead(r, rows) ==
    LET linked == CollectedFrom(rows) IN
    /\ Starts(r, "cancelCollection")
    /\ \A t \in linked : tx[t].status \in Unposted /\ NotSourced(t)
    /\ Hold(r, [Idle EXCEPT !.at = "cancelCollectionCommit", !.txs = linked])
    /\ UNCHANGED <<periodVars, ledgerVars>>

\* Slip: what is no longer unposted is left alone, and not noticed.
CancelCollectionUncounted(r) ==
    LET q == req[r]
        restored == {t \in q.txs : plan[t].status # "NONE"}
    IN
    /\ q.at = "cancelCollectionCommit"
    /\ tx' = [t \in Txs |-> IF t \in q.txs /\ tx[t].status \in Unposted
                           THEN [NoTxRow EXCEPT !.status = "GONE"] ELSE tx[t]]
    /\ plan' = [t \in Txs |-> IF t \in restored
                             THEN [plan[t] EXCEPT !.status = "DRAFT"]
                             ELSE plan[t]]
    /\ UNCHANGED schedule
    /\ Answer(r)
    /\ UNCHANGED <<periodVars, entry>>

\* The transactions are deleted if all of them are unposted still; their plan
\* items, and the schedules linked to those, go back to being planned.
CancelCollectionCommit(r) ==
    LET q == req[r]
        restored == {t \in q.txs : plan[t].status # "NONE"}
    IN
    /\ q.at = "cancelCollectionCommit"
    /\ \A t \in q.txs : tx[t].status \in Unposted
    /\ tx' = [t \in Txs |-> IF t \in q.txs
                           THEN [NoTxRow EXCEPT !.status = "GONE"] ELSE tx[t]]
    /\ plan' = [t \in Txs |-> IF t \in restored
                             THEN [plan[t] EXCEPT !.status = "DRAFT"]
                             ELSE plan[t]]
    /\ schedule' = [s \in Schedules |->
            IF schedule[s].tx \in restored /\ schedule[s].status = "MATCHED"
            THEN [schedule[s] EXCEPT !.status = "PLANNED"]
            ELSE schedule[s]]
    /\ Answer(r)
    /\ UNCHANGED <<periodVars, entry>>
=============================================================================
