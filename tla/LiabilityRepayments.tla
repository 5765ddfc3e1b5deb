------------------------- MODULE LiabilityRepayments -------------------------
(***************************************************************************)
(* Changing a liability repayment schedule, and generating its plan item   *)
(* and collected transaction (LiabilitiesService).                         *)
(***************************************************************************)
EXTENDS WorkspaceLedger

\* The schedule is read, and its link checked, before the transaction.  The
\* amount is the total of the schedule.
RepaymentCheck(r, s, amount) ==
    /\ Starts(r, "repayment")
    /\ schedule[s].tx = NoTx
    /\ schedule[s].status \notin {"POSTED", "SKIPPED", "CANCELLED"}
    /\ WriteGuard(DueMonth[s], Collecting)
    /\ Hold(r, [Idle EXCEPT !.at = "repaymentCommit", !.schedule = s,
                            !.month = DueMonth[s], !.amount = amount])
    /\ UNCHANGED <<periodVars, ledgerVars>>

\* The transaction links the schedule to the new item whatever it is linked
\* to by then.
RepaymentCommit(r, t) ==
    LET q == req[r] IN
    /\ q.at = "repaymentCommit"
    /\ FreshTx(t)
    /\ tx' = [tx EXCEPT ![t] =
                [NoTxRow EXCEPT !.status = "READY_TO_POST", !.month = q.month,
                                !.amount = q.amount]]
    /\ plan' = [plan EXCEPT ![t] = [status |-> "MATCHED", month |-> q.month]]
    /\ schedule' = [schedule EXCEPT ![q.schedule] =
                        [@ EXCEPT !.tx = t, !.status = "MATCHED"]]
    /\ Answer(r)
    /\ UNCHANGED <<periodVars, entry>>

\* updateRepayment: the form offers every status.  Due date and amounts
\* change as well, which is left out.
UpdateRepaymentCheck(r, s, status) ==
    /\ Starts(r, "updateRepayment")
    /\ schedule[s].entry = NoEntry
    /\ schedule[s].status # "POSTED"
    /\ schedule[s].tx = NoTx
    /\ Hold(r, [Idle EXCEPT !.at = "updateRepaymentCommit", !.schedule = s,
                            !.status = status])
    /\ UNCHANGED <<periodVars, ledgerVars>>

\* The update is by id alone.
UpdateRepaymentCommit(r) ==
    /\ req[r].at = "updateRepaymentCommit"
    /\ schedule' = [schedule EXCEPT ![req[r].schedule].status = req[r].status]
    /\ Answer(r)
    /\ UNCHANGED <<periodVars, tx, plan, entry>>
=============================================================================
