--------------------------- MODULE CollectionJobs ---------------------------
(***************************************************************************)
(* What the bulk collection of imported rows promises its users, without   *)
(* runners, locks and reconciliations.  A job is submitted with its rows,  *)
(* each of them gets one result, and when the job is done it reports how   *)
(* its rows have fared; after that no row changes.  A cancellation lets at *)
(* most the row at hand get its result, unless it comes before the first   *)
(* row, when the job may go on after all.                                  *)
(***************************************************************************)
EXTENDS Naturals, FiniteSets

CONSTANTS
    Job,     \* collection jobs
    Row      \* imported rows

VARIABLES
    phase,   \* job -> "none", "open", "done", "cancelled", or "stopping":
             \* cancelled, but with a row at hand
    result,  \* job -> row -> "NONE" (not in the job), "OPEN" or its result
    report   \* job -> what it says of itself when it is done

jobsVars == <<phase, result, report>>

Results == {"COLLECTED", "FAILED", "SKIPPED"}
Reports == [status : {"SUCCEEDED", "PARTIAL", "FAILED"},
            succeeded : 0 .. Cardinality(Row), failed : 0 .. Cardinality(Row)]
NoReport == [status |-> "NONE", succeeded |-> 0, failed |-> 0]

\* A report counts what was collected, and every row that failed or was not
\* reached; it calls itself a success only if there is no such row.
Truthful(r, results) ==
    LET rows == Cardinality({w \in Row : results[w] # "NONE"})
        of(s) == Cardinality({w \in Row : results[w] = s})
    IN
    /\ r.succeeded = of("COLLECTED")
    /\ of("FAILED") <= r.failed /\ r.failed <= rows - r.succeeded
    /\ r.succeeded + r.failed + of("SKIPPED") >= rows
    /\ r.status = "SUCCEEDED" => r.failed = 0
    /\ r.status = "PARTIAL" => r.succeeded > 0 /\ r.failed > 0

\* Rows that will not be reached any more have failed.
Dropped(results) ==
    [w \in Row |-> IF results[w] = "OPEN" THEN "FAILED" ELSE results[w]]

Init ==
    /\ phase = [j \in Job |-> "none"]
    /\ result = [j \in Job |-> [w \in Row |-> "NONE"]]
    /\ report = [j \in Job |-> NoReport]

Submit(j, rows) ==
    /\ phase[j] = "none"
    /\ phase' = [phase EXCEPT ![j] = "open"]
    /\ result' = [result EXCEPT ![j] =
                    [w \in Row |-> IF w \in rows THEN "OPEN" ELSE "NONE"]]
    /\ UNCHANGED report

\* A job that stops gets the result of the row at hand, and no other.
Record(j, w, s) ==
    /\ phase[j] \in {"open", "stopping"}
    /\ result[j][w] = "OPEN"
    /\ phase' = [phase EXCEPT ![j] = IF @ = "stopping" THEN "cancelled" ELSE @]
    /\ result' = [result EXCEPT ![j][w] = s]
    /\ UNCHANGED report

\* The rows not reached are given up, or stay as they are and only count so.
Finish(j) ==
    /\ phase[j] = "open"
    /\ phase' = [phase EXCEPT ![j] = "done"]
    /\ result' \in {result, [result EXCEPT ![j] = Dropped(@)]}
    /\ \E r \in Reports :
        /\ report' = [report EXCEPT ![j] = r]
        /\ Truthful(r, result'[j])

\* A job that is done may still be found to have failed, with the same rows.
Fail(j) ==
    /\ phase[j] = "done"
    /\ UNCHANGED <<phase, result>>
    /\ \E r \in Reports :
        /\ r.status = "FAILED"
        /\ report' = [report EXCEPT ![j] = r]
        /\ Truthful(r, result[j])

\* A late cancellation hides the report of a job that is done.
Cancel(j) ==
    /\ phase[j] \in {"open", "done"}
    /\ phase' = [phase EXCEPT ![j] = "cancelled"]
    /\ report' = [report EXCEPT ![j] = NoReport]
    /\ UNCHANGED result

CancelAtRow(j) ==
    /\ phase[j] = "open"
    /\ phase' = [phase EXCEPT ![j] = "stopping"]
    /\ UNCHANGED <<result, report>>

\* The row at hand is given up.
Stop(j) ==
    /\ phase[j] = "stopping"
    /\ phase' = [phase EXCEPT ![j] = "cancelled"]
    /\ UNCHANGED <<result, report>>

Drop(j) ==
    /\ phase[j] = "cancelled"
    /\ result' = [result EXCEPT ![j] = Dropped(@)]
    /\ UNCHANGED <<phase, report>>

Resume(j) ==
    /\ phase[j] = "cancelled"
    /\ \A w \in Row : result[j][w] \in {"NONE", "OPEN"}
    /\ phase' = [phase EXCEPT ![j] = "open"]
    /\ UNCHANGED <<result, report>>

Next ==
    \E j \in Job :
        \/ \E rows \in SUBSET Row : Submit(j, rows)
        \/ \E w \in Row, s \in Results : Record(j, w, s)
        \/ Finish(j) \/ Fail(j)
        \/ Cancel(j) \/ CancelAtRow(j) \/ Stop(j) \/ Drop(j) \/ Resume(j)

Spec == Init /\ [][Next]_jobsVars
=============================================================================
