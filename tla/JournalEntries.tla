---------------------------- MODULE JournalEntries ----------------------------
(***************************************************************************)
(* Reversing and correcting a posted journal entry.  An entry is never     *)
(* overwritten: its status changes and a new entry refers to it.           *)
(***************************************************************************)
EXTENDS WorkspaceLedger

\* The guard on the date of the adjustment runs before the transaction.  An
\* entry that is not POSTED at this point never will be again, and its
\* request fails at the read.
AdjustGuard(r, op, step, e, m, amount) ==
    /\ Starts(r, op)
    /\ WriteGuard(m, JournalWritable)
    /\ entry[e].status = "POSTED"
    /\ Hold(r, [Idle EXCEPT !.at = step, !.entry = e, !.month = m,
                            !.amount = amount])
    /\ UNCHANGED <<periodVars, ledgerVars>>

\* The snapshot of the transaction: the original entry, and the status of
\* the transaction it came from.
AdjustRead(r, from, to) ==
    LET q == req[r]
        t == entry[q.entry].source
    IN
    /\ q.at = from
    /\ period[q.month].status \in JournalWritable
    /\ entry[q.entry].status = "POSTED"
    /\ Hold(r, [q EXCEPT !.at = to,
                         !.status = IF t = NoTx THEN "NONE" ELSE tx[t].status])
    /\ UNCHANGED <<periodVars, ledgerVars>>

\* Slips: the original is updated by id alone; its source transaction is
\* checked and not updated.
ClaimOriginalById(q) ==
    LET t == entry[q.entry].source IN
    /\ AllocateNumber(q.month)
    /\ IF t = NoTx THEN UNCHANGED tx
       ELSE tx' = [tx EXCEPT ![t].status = "CORRECTED"]
ClaimOriginalOnly(q) ==
    /\ AllocateNumber(q.month)
    /\ entry[q.entry].status = "POSTED"
    /\ UNCHANGED tx

\* The conditional updates common to both: the entry is claimed as it was
\* read, and so is its source transaction, which becomes CORRECTED.
ClaimOriginal(q) ==
    LET t == entry[q.entry].source IN
    /\ AllocateNumber(q.month)
    /\ entry[q.entry].status = "POSTED"
    /\ IF t = NoTx THEN UNCHANGED tx
       ELSE /\ tx[t].status = q.status
            /\ tx' = [tx EXCEPT ![t].status = "CORRECTED"]

-----------------------------------------------------------------------------
(* ReverseJournalEntryUseCase *)

ReverseGuard(r, e, m) == AdjustGuard(r, "reverse", "reverseRead", e, m, NoAmount)
ReverseRead(r) == AdjustRead(r, "reverseRead", "reverseCommit")

\* Slips: the schedule keeps its entry; the item gets a status of schedules.
RestorePlanningKeepingEntry(t, e) ==
    IF t = NoTx \/ plan[t].status = "NONE" THEN UNCHANGED <<plan, schedule>>
    ELSE /\ plan' = [plan EXCEPT ![t].status = "MATCHED"]
         /\ schedule' = [s \in Schedules |->
                IF schedule[s].entry = e
                THEN [schedule[s] EXCEPT !.status = "MATCHED"]
                ELSE schedule[s]]
RestorePlanningScheduled(t, e) ==
    IF t = NoTx \/ plan[t].status = "NONE" THEN UNCHANGED <<plan, schedule>>
    ELSE /\ plan' = [plan EXCEPT ![t].status = "SCHEDULED"]
         /\ UNCHANGED schedule

\* restoreMatchedPlanningStateAfterReversal
RestorePlanning(t, e) ==
    IF t = NoTx \/ plan[t].status = "NONE" THEN UNCHANGED <<plan, schedule>>
    ELSE /\ plan' = [plan EXCEPT ![t].status =
                        IF @ = "CONFIRMED" THEN "MATCHED" ELSE @]
         /\ schedule' = [s \in Schedules |->
                IF /\ schedule[s].tx = t
                   /\ schedule[s].status = "POSTED"
                   /\ schedule[s].entry = e
                THEN [schedule[s] EXCEPT !.status = "MATCHED", !.entry = NoEntry]
                ELSE schedule[s]]

\* The new entry has the lines of the original with the sides exchanged.
ReverseCommit(r, e) ==
    LET q == req[r] IN
    /\ q.at = "reverseCommit"
    /\ ClaimOriginal(q)
    /\ RestorePlanning(entry[q.entry].source, q.entry)
    /\ NotReversed(q.entry)
    /\ FreshEntry(e)
    /\ entry' = [entry EXCEPT ![q.entry].status = "REVERSED",
                    ![e] = [NewEntry(q.month, entry[q.entry].amount)
                                EXCEPT !.reverses = q.entry]]
    /\ Answer(r)
    /\ UNCHANGED <<opening, closing, carry, fs>>

-----------------------------------------------------------------------------
(* CorrectJournalEntryUseCase *)

CorrectGuard(r, e, m, amount) ==
    AdjustGuard(r, "correct", "correctRead", e, m, amount)
CorrectRead(r) == AdjustRead(r, "correctRead", "correctCommit")

\* The new entry has the lines the user has entered; the plan item and the
\* schedule of the source transaction stay as they are.
CorrectCommit(r, e) ==
    LET q == req[r] IN
    /\ q.at = "correctCommit"
    /\ ClaimOriginal(q)
    /\ FreshEntry(e)
    /\ entry' = [entry EXCEPT ![q.entry].status = "SUPERSEDED",
                    ![e] = [NewEntry(q.month, q.amount)
                                EXCEPT !.corrects = q.entry]]
    /\ Answer(r)
    /\ UNCHANGED <<opening, closing, carry, fs, plan, schedule>>
=============================================================================
