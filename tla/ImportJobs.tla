----------------------------- MODULE ImportJobs -----------------------------
(***************************************************************************)
(* Bulk collection of the rows of an upload.  A request creates a job and  *)
(* takes the lock of the workspace; a runner inside the API process then   *)
(* collects the rows one after another while the user may cancel the job,  *)
(* single rows may be collected by hand, the process may die, and a        *)
(* reconciliation, run every minute and by most requests, ends the jobs    *)
(* whose lock has expired.                                                 *)
(*                                                                         *)
(* Every update here is a statement of its own (only the creation of a job *)
(* and the reconciliation use a transaction), so every write of the runner *)
(* and of a cancellation is an action.  Two reads in a row are one action  *)
(* at the time of the later one; marking a row RUNNING and reading the     *)
(* imported row are one, since nobody tells RUNNING from PENDING in a row. *)
(* What collecting a row does to the ledger is the subject of              *)
(* ImportedRows: here it succeeds, at most once for a row, or fails.       *)
(***************************************************************************)
EXTENDS Integers, FiniteSets

CONSTANTS
    LastJob,      \* bound: jobs are 1..LastJob, in the order of their creation
    LastRow,      \* bound: the uploaded rows are 1..LastRow, by rowNumber
    Cleaners,     \* reconciliations that may overlap (cron and requests)
    Singles,      \* rows that users may collect by hand
    Cancels,      \* jobs that users may cancel
    SlowRunners   \* jobs whose lock may expire while the runner is alive

Jobs == 1 .. LastJob
Rows == 1 .. LastRow
NoJob == 0
NoRow == 0

ASSUME JobConstants ==
    /\ LastJob \in Nat \ {0}
    /\ LastRow \in Nat \ {0}
    /\ Singles \subseteq Rows
    /\ Cancels \subseteq Jobs
    /\ SlowRunners \subseteq Jobs

VARIABLES
    job,        \* ImportBatchCollectionJob: status and row counts
    jobRow,     \* ImportBatchCollectionJobRow: status of each row, by job
    lock,       \* ImportBatchCollectionLock of the workspace: its job, whether
                \* it has expired, and for which reconciliations expiresAt < now
    collected,  \* imported rows that have a collected transaction
    runner,     \* ImportBatchCollectionJobRunner.run, by job
    cancel,     \* a cancellation request, one for each job
    cleaner,    \* reconcileExpiredCollectionJobs
    single      \* rows of single requests that have passed the lock check

vars == <<job, jobRow, lock, collected, runner, cancel, cleaner, single>>

Active     == {"PENDING", "RUNNING"}
Ended      == {"SUCCEEDED", "PARTIAL", "FAILED", "CANCELLED"}
Unfinished == {"PENDING", "RUNNING"}
RowResult  == {"COLLECTED", "FAILED", "SKIPPED"}
Counts     == 0 .. LastRow

RunnerAt == {"none", "load", "start", "check", "take", "collect", "mark",
             "flush", "extend", "finish", "unlock", "done"}

NoRunner  == [at |-> "none", row |-> NoRow, succeeded |-> 0, failed |-> 0,
              result |-> "NONE", failing |-> FALSE]
Stopped   == [NoRunner EXCEPT !.at = "done"]
NoLock    == [job |-> NoJob, expired |-> FALSE, expiredFor |-> {}]
NoRows    == [w \in Rows |-> "NONE"]
IdleCleaner == [at |-> "idle", job |-> NoJob, active |-> FALSE, rows |-> NoRows]

RowsOf(j) == {w \in Rows : jobRow[j][w] # "NONE"}
With(j, status) == {w \in Rows : jobRow[j][w] = status}
Living(j) == runner[j].at \notin {"none", "done"}

JobRecord == [status : {"NONE"} \cup Active \cup Ended,
              succeeded : Counts, failed : Counts]
RowStatus == {"NONE"} \cup Unfinished \cup RowResult
LockRecord == [job : Jobs \cup {NoJob}, expired : BOOLEAN,
               expiredFor : SUBSET Cleaners]
RunnerRecord == [at : RunnerAt, row : Rows \cup {NoRow},
                 succeeded : Counts, failed : Counts,
                 result : {"NONE"} \cup RowResult \cup Ended,
                 failing : BOOLEAN]
CleanerRecord == [at : {"idle", "snapshot", "commit"}, job : Jobs \cup {NoJob},
                  active : BOOLEAN, rows : [Rows -> RowStatus]]

\* One type invariant; the counts of a job stay within its rows.
TypeOK ==
    /\ job \in [Jobs -> JobRecord]
    /\ jobRow \in [Jobs -> [Rows -> RowStatus]]
    /\ lock \in LockRecord
    /\ collected \subseteq Rows
    /\ runner \in [Jobs -> RunnerRecord]
    /\ cancel \in [Jobs -> {"idle", "write", "writePending", "unlock", "done"}]
    /\ cleaner \in [Cleaners -> CleanerRecord]
    /\ single \subseteq Singles

Init ==
    /\ job = [j \in Jobs |-> [status |-> "NONE", succeeded |-> 0, failed |-> 0]]
    /\ jobRow = [j \in Jobs |-> NoRows]
    /\ lock = NoLock
    /\ collected = {}
    /\ runner = [j \in Jobs |-> NoRunner]
    /\ cancel = [j \in Jobs |-> "idle"]
    /\ cleaner = [c \in Cleaners |-> IdleCleaner]
    /\ single = {}

-----------------------------------------------------------------------------
\* BulkCollectImportedRowsHandler.execute: the transaction, and the start of
\* the runner.  The user may choose any rows.  An expired lock is cleaned up
\* by a reconciliation first, so the handler meets a lock or none.
Create(j, rows) ==
    /\ job[j].status = "NONE"
    /\ \A i \in Jobs : i < j => job[i].status # "NONE"
    /\ lock.job = NoJob
    /\ rows # {}
    /\ job' = [job EXCEPT ![j].status = "PENDING"]
    /\ jobRow' = [jobRow EXCEPT ![j] =
                    [w \in Rows |-> IF w \in rows THEN "PENDING" ELSE "NONE"]]
    /\ lock' = [NoLock EXCEPT !.job = j]
    /\ runner' = [runner EXCEPT ![j].at = "load"]
    /\ UNCHANGED <<collected, cancel, cleaner, single>>

\* Slip: the lock goes by workspace instead of by job.
ReleasedAnyJob(j) == NoLock

\* importBatchCollectionLock.deleteMany({where: {jobId}})
Released(j) == IF lock.job = j THEN NoLock ELSE lock

-----------------------------------------------------------------------------
(* The runner.  A call that throws before the try block ends it like a     *)
(* crash; RunnerError is a throw inside the block.                         *)

RunnerLoad(j) ==
    /\ runner[j].at = "load"
    /\ runner' = [runner EXCEPT ![j] =
            IF job[j].status = "PENDING" THEN [@ EXCEPT !.at = "start"]
                                         ELSE Stopped]
    /\ UNCHANGED <<job, jobRow, lock, collected, cancel, cleaner, single>>

\* The update to RUNNING has no condition on the status.
RunnerStart(j) ==
    /\ runner[j].at = "start"
    /\ job' = [job EXCEPT ![j] =
                [status |-> "RUNNING", succeeded |-> 0, failed |-> 0]]
    /\ runner' = [runner EXCEPT ![j].at = "check"]
    /\ UNCHANGED <<jobRow, lock, collected, cancel, cleaner, single>>

\* Slip: one failure among successes is overlooked.
ResolveIgnoringFailures(succeeded, failed) ==
    IF succeeded > 0 THEN "SUCCEEDED" ELSE IF failed > 0 THEN "FAILED" ELSE "SUCCEEDED"

\* resolveFinalJobStatus, resolveStaleCollectionJobStatus
Resolve(succeeded, failed) ==
    IF failed = 0 THEN "SUCCEEDED"
    ELSE IF succeeded > 0 THEN "PARTIAL" ELSE "FAILED"

\* isJobCancelled, read after each row and again before the next; the later
\* of the two reads decides.
RunnerCheck(j) ==
    LET left == {w \in RowsOf(j) : w > runner[j].row}
        go(at, row, result) ==
            runner' = [runner EXCEPT ![j].at = at, ![j].row = row,
                                     ![j].result = result]
    IN
    /\ runner[j].at = "check"
    /\ IF job[j].status = "CANCELLED"
       THEN go("finish", NoRow, "CANCELLED")
       ELSE IF left = {}
       THEN go("finish", NoRow, Resolve(runner[j].succeeded, runner[j].failed))
       ELSE \E w \in left :
                /\ \A v \in left : w <= v
                /\ go("take", w, "NONE")
    /\ UNCHANGED <<job, jobRow, lock, collected, cancel, cleaner, single>>

\* processRow up to collectRow: the row is RUNNING, and read again.  It may
\* have no parsed data, or have been collected by someone else.
RunnerTakeRow(j) ==
    LET w == runner[j].row
        go(at, result) ==
            runner' = [runner EXCEPT ![j].at = at, ![j].result = result]
    IN
    /\ runner[j].at = "take"
    /\ jobRow' = [jobRow EXCEPT ![j][w] = "RUNNING"]
    /\ \/ go("mark", "FAILED")
       \/ w \in collected /\ go("mark", "SKIPPED")
       \/ w \notin collected /\ go("collect", "NONE")
    /\ UNCHANGED <<job, lock, collected, cancel, cleaner, single>>

\* collectRow, a transaction of the ledger: the row's unique key lets one
\* collection through; any error fails the row and not the job.
RunnerCollect(j) ==
    LET w == runner[j].row IN
    /\ runner[j].at = "collect"
    /\ \/ /\ w \notin collected
          /\ collected' = collected \cup {w}
          /\ runner' = [runner EXCEPT ![j].at = "mark", ![j].result = "COLLECTED"]
       \/ /\ runner' = [runner EXCEPT ![j].at = "mark", ![j].result = "FAILED"]
          /\ UNCHANGED collected
    /\ UNCHANGED <<job, jobRow, lock, cancel, cleaner, single>>

\* markRowFinished, and the counters of run.
RunnerMark(j) ==
    LET result == runner[j].result IN
    /\ runner[j].at = "mark"
    /\ jobRow' = [jobRow EXCEPT ![j][runner[j].row] = result]
    /\ runner' = [runner EXCEPT
            ![j].at = "flush",
            ![j].succeeded = IF result = "COLLECTED" THEN @ + 1 ELSE @,
            ![j].failed = IF result = "FAILED" THEN @ + 1 ELSE @]
    /\ UNCHANGED <<job, lock, collected, cancel, cleaner, single>>

\* The mark of a collected row is inside the try block of processRow: when it
\* throws, the row is marked FAILED although it has been collected.
RunnerMarkFails(j) ==
    /\ runner[j].at = "mark"
    /\ runner[j].result = "COLLECTED"
    /\ runner' = [runner EXCEPT ![j].result = "FAILED"]
    /\ UNCHANGED <<job, jobRow, lock, collected, cancel, cleaner, single>>

\* updateJobProgress: the counts are written, and then the lock, if it is
\* still there, is extended.
RunnerFlush(j) ==
    /\ runner[j].at = "flush"
    /\ job' = [job EXCEPT ![j].succeeded = runner[j].succeeded,
                          ![j].failed = runner[j].failed]
    /\ runner' = [runner EXCEPT ![j].at = "extend", ![j].result = "NONE"]
    /\ UNCHANGED <<jobRow, lock, collected, cancel, cleaner, single>>

RunnerExtend(j) ==
    /\ runner[j].at = "extend"
    /\ lock' = IF lock.job = j THEN [NoLock EXCEPT !.job = j] ELSE lock
    /\ runner' = [runner EXCEPT ![j].at = "check"]
    /\ UNCHANGED <<job, jobRow, collected, cancel, cleaner, single>>

\* Progress is written after a failed row, and else every few rows or after
\* a second.
RunnerSkipFlush(j) ==
    /\ runner[j].at = "flush"
    /\ runner[j].result # "FAILED"
    /\ runner' = [runner EXCEPT ![j].at = "check", ![j].result = "NONE"]
    /\ UNCHANGED <<job, jobRow, lock, collected, cancel, cleaner, single>>

\* Slip: CANCELLED is overwritten.
RunnerFinishAnyway(j) ==
    LET q == runner[j] IN
    /\ q.at = "finish"
    /\ job' = [job EXCEPT ![j] = [status |-> q.result,
                    succeeded |-> q.succeeded, failed |-> q.failed]]
    /\ runner' = [runner EXCEPT ![j].at = "unlock"]
    /\ UNCHANGED <<jobRow, lock, collected, cancel, cleaner, single>>

\* finishJob: a result other than CANCELLED does not overwrite CANCELLED.
RunnerFinish(j) ==
    LET q == runner[j] IN
    /\ q.at = "finish"
    /\ job' = IF q.result = "CANCELLED" \/ job[j].status # "CANCELLED"
              THEN [job EXCEPT ![j] = [status |-> q.result,
                        succeeded |-> q.succeeded, failed |-> q.failed]]
              ELSE job
    /\ runner' = [runner EXCEPT ![j].at = "unlock"]
    /\ UNCHANGED <<jobRow, lock, collected, cancel, cleaner, single>>

RunnerUnlock(j) ==
    /\ runner[j].at = "unlock"
    /\ lock' = Released(j)
    /\ runner' = [runner EXCEPT ![j] = Stopped]
    /\ UNCHANGED <<job, jobRow, collected, cancel, cleaner, single>>

\* Slip: failures are added to the rows without success instead of being
\* among them.
FailedOnErrorAdded(requested, succeeded, failed) ==
    failed + (requested - succeeded)

\* Math.max(failedCount, requestedRowCount - succeededCount)
FailedOnError(requested, succeeded, failed) ==
    IF failed > requested - succeeded THEN failed ELSE requested - succeeded

\* The catch block of run; an error in its own finishJob is a crash.
RunnerError(j) ==
    LET q == runner[j] IN
    /\ q.at \in {"check", "take", "mark", "flush", "extend", "finish",
                "unlock"}
    /\ q.at = "mark" => q.result # "COLLECTED"
    /\ ~ q.failing
    /\ runner' = [runner EXCEPT ![j] =
            [q EXCEPT !.at = "finish", !.row = NoRow, !.result = "FAILED",
                      !.failing = TRUE,
                      !.failed = FailedOnError(Cardinality(RowsOf(j)),
                                               q.succeeded, q.failed)]]
    /\ UNCHANGED <<job, jobRow, lock, collected, cancel, cleaner, single>>

\* The process dies; its jobs are not taken up again after a restart.
RunnerDies(j) ==
    /\ Living(j)
    /\ runner' = [runner EXCEPT ![j] = Stopped]
    /\ UNCHANGED <<job, jobRow, lock, collected, cancel, cleaner, single>>

-----------------------------------------------------------------------------
(* Expiry of the lock, and the reconciliation.                             *)

\* Fifteen minutes after the last extension.  A living runner extends the
\* lock after every row that takes longer than a second.
Expire ==
    /\ lock.job # NoJob
    /\ ~ lock.expired
    /\ Living(lock.job) => lock.job \in SlowRunners
    /\ lock' = [lock EXCEPT !.expired = TRUE]
    /\ UNCHANGED <<job, jobRow, collected, runner, cancel, cleaner, single>>

\* The expired locks, read before the transaction.  A lock that is created or
\* extended after this has an expiresAt later than this now.
ReconcileRead(c) ==
    /\ cleaner[c].at = "idle"
    /\ lock.job # NoJob
    /\ lock.expired
    /\ lock' = [lock EXCEPT !.expiredFor = @ \cup {c}]
    /\ cleaner' = [cleaner EXCEPT ![c] =
            [IdleCleaner EXCEPT !.at = "snapshot", !.job = lock.job]]
    /\ UNCHANGED <<job, jobRow, collected, runner, cancel, single>>

\* Slip: a job whose runner never started is not considered.
StaleRunningOnly(status) == status = "RUNNING"

\* ACTIVE_JOB_STATUSES
Stale(status) == status \in Active

\* The first read of the transaction: the stale job and its rows.
ReconcileSnapshot(c) ==
    LET j == cleaner[c].job IN
    /\ cleaner[c].at = "snapshot"
    /\ cleaner' = [cleaner EXCEPT ![c] =
            [@ EXCEPT !.at = "commit", !.active = Stale(job[j].status),
                      !.rows = jobRow[j]]]
    /\ UNCHANGED <<job, jobRow, lock, collected, runner, cancel, single>>

\* Slip: unfinished rows are not counted as failed.
StaleFailedCountedBefore(rows) == {w \in Rows : rows[w] = "FAILED"}

\* resolvedRows: an unfinished row is a failed one.
StaleFailed(rows) == {w \in Rows : rows[w] \in Unfinished \cup {"FAILED"}}

\* Slip: the lock goes only with a job that is finalised.
LockAfterReconcileOfActive(c) ==
    IF c \in lock.expiredFor /\ cleaner[c].active THEN NoLock ELSE lock

\* importBatchCollectionLock.deleteMany({where: {expiresAt: {lt: now}}})
LockAfterReconcile(c) == IF c \in lock.expiredFor THEN NoLock ELSE lock

\* The writes.  Rows are written by id, the job if it still is active, and
\* a lock that had expired by now goes.
ReconcileCommit(c) ==
    LET q == cleaner[c]
        succeeded == Cardinality({w \in Rows : q.rows[w] = "COLLECTED"})
        failed == Cardinality(StaleFailed(q.rows))
    IN
    /\ q.at = "commit"
    /\ jobRow' = IF ~ q.active THEN jobRow
                 ELSE [jobRow EXCEPT ![q.job] = [w \in Rows |->
                        IF q.rows[w] \in Unfinished THEN "FAILED" ELSE @[w]]]
    /\ job' = IF q.active /\ Stale(job[q.job].status)
              THEN [job EXCEPT ![q.job] =
                        [status |-> Resolve(succeeded, failed),
                         succeeded |-> succeeded, failed |-> failed]]
              ELSE job
    /\ lock' = LockAfterReconcile(c)
    /\ cleaner' = [cleaner EXCEPT ![c] = IdleCleaner]
    /\ UNCHANGED <<collected, runner, cancel, single>>

-----------------------------------------------------------------------------
(* CancelImportBatchCollectionJobHandler.execute, and the collection of a  *)
(* single row.                                                             *)

\* A job that has ended is answered unchanged.
CancelRead(j) ==
    /\ j \in Cancels
    /\ cancel[j] = "idle"
    /\ job[j].status \in Active
    /\ cancel' = [cancel EXCEPT ![j] =
            IF job[j].status = "PENDING" THEN "writePending" ELSE "write"]
    /\ UNCHANGED <<job, jobRow, lock, collected, runner, cleaner, single>>

\* The update has no condition on the status.
CancelWrite(j) ==
    /\ cancel[j] \in {"write", "writePending"}
    /\ job' = [job EXCEPT ![j].status = "CANCELLED"]
    /\ cancel' = [cancel EXCEPT ![j] =
            IF @ = "writePending" THEN "unlock" ELSE "done"]
    /\ UNCHANGED <<jobRow, lock, collected, runner, cleaner, single>>

\* Only a job that was PENDING loses its lock here.
CancelUnlock(j) ==
    /\ cancel[j] = "unlock"
    /\ lock' = Released(j)
    /\ cancel' = [cancel EXCEPT ![j] = "done"]
    /\ UNCHANGED <<job, jobRow, collected, runner, cleaner, single>>

\* The request is lost with its process.
CancelDies(j) ==
    /\ cancel[j] \notin {"idle", "done"}
    /\ cancel' = [cancel EXCEPT ![j] = "done"]
    /\ UNCHANGED <<job, jobRow, lock, collected, runner, cleaner, single>>

\* CollectImportedRowHandler.execute: the lock is checked, and not taken.  It
\* deletes expired locks as well, but only those that the reconciliation just
\* before it, with the same now, has deleted.
SingleCheck(w) ==
    /\ w \notin single
    /\ lock.job = NoJob
    /\ single' = single \cup {w}
    /\ UNCHANGED <<job, jobRow, lock, collected, runner, cancel, cleaner>>

SingleCollect(w) ==
    /\ w \in single
    /\ single' = single \ {w}
    /\ collected' \in {collected, collected \cup {w}}
    /\ UNCHANGED <<job, jobRow, lock, runner, cancel, cleaner>>

-----------------------------------------------------------------------------
RunnerStep(j) ==
    \/ RunnerLoad(j) \/ RunnerStart(j) \/ RunnerCheck(j) \/ RunnerTakeRow(j)
    \/ RunnerCollect(j) \/ RunnerMark(j) \/ RunnerFlush(j)
    \/ RunnerExtend(j) \/ RunnerSkipFlush(j) \/ RunnerFinish(j) \/ RunnerUnlock(j)

CleanerStep(c) == ReconcileRead(c) \/ ReconcileSnapshot(c) \/ ReconcileCommit(c)

Next ==
    \/ \E j \in Jobs :
        \/ \E rows \in SUBSET Rows : Create(j, rows)
        \/ RunnerStep(j) \/ RunnerMarkFails(j) \/ RunnerError(j)
        \/ RunnerDies(j)
        \/ CancelRead(j) \/ CancelWrite(j) \/ CancelUnlock(j) \/ CancelDies(j)
    \/ Expire
    \/ \E c \in Cleaners : CleanerStep(c)
    \/ \E w \in Singles : SingleCheck(w) \/ SingleCollect(w)

\* A living runner goes on, a lock that is not extended expires, and the
\* reconciliation is a cron job.  Requests owe nobody a next step.
Fairness ==
    /\ \A j \in Jobs : WF_vars(RunnerStep(j))
    /\ WF_vars(Expire)
    /\ \A c \in Cleaners : WF_vars(CleanerStep(c))

Spec == Init /\ [][Next]_vars
FairSpec == Spec /\ Fairness

-----------------------------------------------------------------------------
(* Properties                                                              *)

\* A job reported as SUCCEEDED has left no row behind: each of its rows has a
\* collected transaction, whoever finalised the job, the runner from its
\* counters or the reconciliation from the rows, and however they overlapped.
SucceededMeansCollected ==
    \A j \in Jobs : job[j].status = "SUCCEEDED" => RowsOf(j) \subseteq collected

\* The counts and the result a finished job reports agree with the results of
\* its rows, also when the runner died or gave up half way; a job that stopped
\* early counts the rows it did not reach as failed.
JobResultMatchesRows ==
    \A j \in Jobs \ SlowRunners : job[j].status \in Ended \ {"CANCELLED"} =>
        LET rows == Cardinality(RowsOf(j))
            succeeded == Cardinality(With(j, "COLLECTED"))
            failed == Cardinality(With(j, "FAILED"))
            skipped == Cardinality(With(j, "SKIPPED"))
        IN
        /\ job[j].succeeded = succeeded
        /\ failed <= job[j].failed /\ job[j].failed <= rows - succeeded
        /\ job[j].succeeded + job[j].failed + skipped >= rows
        /\ job[j].status = "SUCCEEDED" => job[j].failed = 0
        /\ job[j].status = "PARTIAL" => job[j].succeeded > 0 /\ job[j].failed > 0

\* A runner works under its lock: nobody takes the lock away from a job that
\* has not been cancelled, so that no second job runs beside it.  That includes
\* a runner or a reconciliation of an earlier job that resumes after its lock
\* had expired and the workspace was locked again.
RunnerHoldsLock ==
    \A j \in Jobs \ SlowRunners :
        Living(j) /\ cancel[j] = "idle" => lock.job = j

\* A job that nobody cancels ends, although its runner may die at any point.
UncancelledJobEnds ==
    \A j \in Jobs : job[j].status \in Active
                        ~> job[j].status \in Ended \/ cancel[j] # "idle"

\* The workspace does not stay locked by a job, cancelled or not.
LockReleased == \A j \in Jobs : lock.job = j ~> lock.job # j

-----------------------------------------------------------------------------
\* The jobs as CollectionJobs has them: of what a living runner or an unfinished
\* reconciliation still has to write, only that there is a row at hand shows.
AtRow(j) == runner[j].at \in {"take", "collect", "mark"}
Phase(j) ==
    CASE job[j].status = "NONE" -> "none"
      [] job[j].status \in Active -> "open"
      [] job[j].status = "CANCELLED" ->
            IF AtRow(j) THEN "stopping" ELSE "cancelled"
      [] OTHER -> "done"
Shown(rows) == [w \in Rows |-> IF rows[w] \in Unfinished THEN "OPEN" ELSE rows[w]]
Report(j) ==
    IF Phase(j) = "done" THEN job[j]
    ELSE [status |-> "NONE", succeeded |-> 0, failed |-> 0]

Phases     == [j \in Jobs \ SlowRunners |-> Phase(j)]
RowResults == [j \in Jobs \ SlowRunners |-> Shown(jobRow[j])]
JobReports == [j \in Jobs \ SlowRunners |-> Report(j)]

Promised == INSTANCE CollectionJobs WITH
    Job <- Jobs \ SlowRunners, Row <- Rows,
    phase <- Phases, result <- RowResults, report <- JobReports

\* A row of a job gets one result, whoever writes it, a finished job keeps its
\* rows and what it reports of them, and after a cancellation only the row at
\* hand gets a result, unless the cancellation came before the first row and
\* is overrun by the runner.
ImplementsPromise == Promised!Spec
=============================================================================
