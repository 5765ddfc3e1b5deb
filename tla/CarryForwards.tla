---------------------------- MODULE CarryForwards ----------------------------
(***************************************************************************)
(* Carrying the closing balances of a month forward as the opening         *)
(* balances of the next one, and cancelling that.                          *)
(***************************************************************************)
EXTENDS WorkspaceLedger

-----------------------------------------------------------------------------
(* GenerateCarryForwardUseCase *)

\* All checks run before the transaction.  With replaceExisting the handler
\* cancels the existing record in a transaction of its own first, which is
\* the cancelCarry operation, and then goes on here.
CarryCheck(r, m) ==
    /\ Starts(r, "carry")
    /\ m + 1 \in Months
    /\ period[m].status = "LOCKED"
    /\ closing[m].exists
    /\ ~ carry[m]
    /\ period[m + 1].status # "LOCKED"
    /\ opening[m + 1].kind = "NONE"
    /\ Hold(r, [Idle EXCEPT !.at = "carryCommit", !.month = m,
                            !.flag = (m + 1 \in Existing),
                            !.entries = closing[m].entries])
    /\ UNCHANGED <<periodVars, ledgerVars>>

\* What the database still checks: the closing snapshot exists (a foreign
\* key), the next month has no opening snapshot and m no record yet (unique
\* keys).  The next month is created when there was none at the check.
CarryCommit(r) ==
    LET q == req[r]
        n == q.month + 1
    IN
    /\ q.at = "carryCommit"
    /\ q.flag <=> n \in Existing
    /\ closing[q.month].exists
    /\ opening[n].kind = "NONE"
    /\ ~ carry[q.month]
    /\ period' = IF q.flag THEN period ELSE [period EXCEPT ![n] = NewPeriod]
    /\ opening' = [opening EXCEPT ![n] =
                        [kind |-> "CARRY_FORWARD", entries |-> q.entries]]
    /\ carry' = [carry EXCEPT ![q.month] = TRUE]
    /\ Answer(r)
    /\ UNCHANGED <<closing, fs, ledgerVars>>

-----------------------------------------------------------------------------
(* PrismaCarryForwardCancellationAdapter *)

\* assertCarryForwardCanBeCanceled; plan items do not count as usage.
CanBeCanceled(n) ==
    /\ period[n].status = "OPEN"
    /\ opening[n].kind = "CARRY_FORWARD"
    /\ \A t \in Txs : ~ InPeriod(t, n)
    /\ EntriesOf(n) = {}
    /\ ~ fs[n].exists
    /\ ~ closing[n].exists

CancelCarryRead(r, m) ==
    /\ Starts(r, "cancelCarry")
    /\ carry[m]
    /\ CanBeCanceled(m + 1)
    /\ Hold(r, [Idle EXCEPT !.at = "cancelCarryCommit", !.month = m])
    /\ UNCHANGED <<periodVars, ledgerVars>>

\* The rows are deleted by id, whether they are still there or not: another
\* cancellation of the same record finds nothing left to delete.
CancelCarryCommit(r) ==
    LET m == req[r].month
        same == {x \in Requests :
                    req[x].at = "cancelCarryCommit" /\ req[x].month = m}
    IN
    /\ req[r].at = "cancelCarryCommit"
    /\ opening' = [opening EXCEPT ![m + 1] = NoOpening]
    /\ carry' = [carry EXCEPT ![m] = FALSE]
    /\ req' = [x \in Requests |-> IF x \in same THEN Idle ELSE req[x]]
    /\ UNCHANGED <<period, closing, fs, ledgerVars>>
=============================================================================
