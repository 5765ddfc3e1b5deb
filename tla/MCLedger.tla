------------------------------- MODULE MCLedger -------------------------------
(***************************************************************************)
(* Constants for TLC that a configuration file cannot write down.          *)
(***************************************************************************)
EXTENDS LedgerRules, TLC

CONSTANTS approval, cancellation  \* rows: a card approval, its cancellation

\* Row cancellation cancels row approval, both of month 1; every repayment
\* is due in month 1.
MCCancelTarget ==
    [w \in Rows |-> IF w = cancellation /\ approval \in Rows
                    THEN approval ELSE NoRow]
\* All rows come from one upload.
MCBatches == IF Rows = {} THEN {} ELSE {Rows}
MCRowMonth == [w \in Rows |-> 1]
MCDueMonth == [s \in Schedules |-> 1]

Symmetry == Permutations(Txs) \cup Permutations(Requests)
=============================================================================
