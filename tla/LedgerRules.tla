----------------------------- MODULE LedgerRules -----------------------------
(***************************************************************************)
(* A rule that the documents of the repository state, and that the code    *)
(* keeps only partly; README.md describes the run that breaks it. The      *)
(* rules the code keeps are with the properties of LedgerSystem.           *)
(***************************************************************************)
EXTENDS LedgerSystem

\* A confirmed transaction is cancelled by its reversal: in the balances of
\* the month in which both lie, either both lines count or neither does.
ReversalCancels ==
    \A e, k \in Entries :
        LET m == entry[k].month IN
        /\ entry[k].reverses = e /\ entry[e].month = m /\ closing[m].exists
        => (e \in closing[m].entries <=> k \in closing[m].entries)
=============================================================================
