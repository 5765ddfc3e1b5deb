------------------------- MODULE FinancialStatements -------------------------
(***************************************************************************)
(* Generating the official statements of a locked month.                   *)
(***************************************************************************)
EXTENDS WorkspaceLedger

\* readGenerationContext: the closing snapshot is the source of three of the
\* statements, the journal lines are that of the cash flow summary.
StatementsRead(r, m) ==
    /\ Starts(r, "statements")
    /\ period[m].status = "LOCKED"
    /\ closing[m].exists
    /\ Hold(r, [Idle EXCEPT !.at = "statementsCommit", !.month = m,
                            !.entries = closing[m].entries,
                            !.posted = PostedOf(m)])
    /\ UNCHANGED <<periodVars, ledgerVars>>

\* upsertStatementSnapshots: nothing but the period row has to be there.
StatementsCommit(r) ==
    LET q == req[r] IN
    /\ q.at = "statementsCommit"
    /\ q.month \in Existing
    /\ fs' = [fs EXCEPT ![q.month] = [exists |-> TRUE, entries |-> q.entries,
                                      posted |-> q.posted]]
    /\ Answer(r)
    /\ UNCHANGED <<period, opening, closing, carry, ledgerVars>>
=============================================================================
