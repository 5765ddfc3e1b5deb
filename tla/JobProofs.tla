------------------------------ MODULE JobProofs ------------------------------
(***************************************************************************)
(* Theorems about the bulk collection of imported rows, for any number of  *)
(* jobs, rows and reconciliations: the type invariant, with counts that    *)
(* never exceed the rows, that a runner works under its lock, that a job   *)
(* reported as SUCCEEDED has collected every one of its rows, that the     *)
(* counts and the result of a finished job agree with its rows, and that   *)
(* the jobs implement CollectionJobs.                                      *)
(***************************************************************************)
EXTENDS ImportJobs, FiniteSetTheorems, TLAPS

\* A runner visits the rows in their order, so that what it has counted is
\* bounded by the number of the row it is at.
Counted(q) ==
    /\ q.at \in {"none", "load", "start"} =>
            q.row = 0 /\ q.succeeded = 0 /\ q.failed = 0
    /\ q.at \in {"check", "flush", "extend"} => q.succeeded + q.failed <= q.row
    /\ q.at \in {"take", "collect", "mark"} =>
            q.row \in Rows /\ q.succeeded + q.failed < q.row

\* The result a runner holds is one of the kind it is about to write.
Resulted(q) ==
    /\ q.at = "mark" => q.result \in RowResult
    /\ q.at = "finish" => q.result \in Ended

RunnersCount == \A j \in Jobs : Counted(runner[j]) /\ Resulted(runner[j])

\* A job without a row has no runner, and a reconciliation knows its job.
WellPlaced ==
    /\ \A j \in Jobs : job[j].status = "NONE" => runner[j].at = "none"
    /\ \A c \in Cleaners : cleaner[c].at # "idle" => cleaner[c].job \in Jobs

JobInv == TypeOK /\ RunnersCount /\ WellPlaced

-----------------------------------------------------------------------------
\* Sets of rows are finite, and no larger than the bound on the rows.
LEMMA RowsCounted ==
  ASSUME NEW S \in SUBSET Rows
  PROVE  Cardinality(S) \in Counts
<1>1. IsFiniteSet(Rows) /\ Cardinality(Rows) = LastRow
  BY FS_Interval, JobConstants DEF Rows
<1>2. IsFiniteSet(S) /\ Cardinality(S) <= LastRow
  BY <1>1, FS_Subset
<1>. QED  BY <1>2, FS_CardinalityType, JobConstants DEF Counts

\* The initial states satisfy the invariant.
LEMMA InitInv == Init => JobInv
<1>. SUFFICES ASSUME Init  PROVE JobInv
  OBVIOUS
<1>1. NoRows \in [Rows -> RowStatus]
  BY DEF NoRows, RowStatus
<1>2. IdleCleaner \in CleanerRecord /\ IdleCleaner.at = "idle"
  BY <1>1 DEF IdleCleaner, CleanerRecord, NoJob
<1>3. /\ NoRunner \in RunnerRecord
      /\ Counted(NoRunner) /\ Resulted(NoRunner) /\ NoRunner.at = "none"
  BY JobConstants DEF NoRunner, RunnerRecord, RunnerAt, Counts, NoRow, Counted,
     Resulted
<1>4. NoLock \in LockRecord
  BY DEF NoLock, LockRecord, NoJob
<1>5. [status |-> "NONE", succeeded |-> 0, failed |-> 0] \in JobRecord
  BY JobConstants DEF JobRecord, Counts
<1>6. TypeOK
  BY <1>1, <1>2, <1>3, <1>4, <1>5 DEF Init, TypeOK
<1>7. RunnersCount /\ WellPlaced
  BY <1>2, <1>3 DEF Init, RunnersCount, WellPlaced
<1>. QED  BY <1>6, <1>7 DEF JobInv

\* A step of a runner keeps the invariant if the new record is well counted,
\* and the rows it writes in job, jobRow, lock and collected are well typed.
LEMMA RunnerMoves ==
  ASSUME JobInv, NEW j \in Jobs, NEW q \in RunnerRecord,
         runner' = [runner EXCEPT ![j] = q],
         Counted(q), Resulted(q), q.at # "none",
         job' \in [Jobs -> JobRecord], job'[j].status # "NONE",
         \A i \in Jobs \ {j} : job'[i] = job[i],
         jobRow' \in [Jobs -> [Rows -> RowStatus]],
         lock' \in LockRecord, collected' \subseteq Rows,
         UNCHANGED <<cancel, cleaner, single>>
  PROVE  JobInv'
<1>1. TypeOK'
  BY DEF JobInv, TypeOK
<1>2. \A i \in Jobs : runner'[i] = IF i = j THEN q ELSE runner[i]
  BY DEF JobInv, TypeOK
<1>3. RunnersCount'
  BY <1>2 DEF JobInv, RunnersCount
<1>4. WellPlaced'
  BY <1>2 DEF JobInv, WellPlaced
<1>. QED  BY <1>1, <1>3, <1>4 DEF JobInv

\* A job with a runner exists.
LEMMA RunnerHasJob ==
  ASSUME JobInv, NEW j \in Jobs, runner[j].at # "none"
  PROVE  job[j].status # "NONE"
  BY DEF JobInv, WellPlaced

\* What is known of the record of a runner.
LEMMA RunnerTyped ==
  ASSUME JobInv, NEW j \in Jobs
  PROVE  /\ runner[j] \in RunnerRecord
         /\ Counted(runner[j]) /\ Resulted(runner[j])
         /\ runner[j].row \in Nat
         /\ runner[j].succeeded \in Nat /\ runner[j].failed \in Nat
<1>1. runner[j] \in RunnerRecord /\ Counted(runner[j]) /\ Resulted(runner[j])
  BY DEF JobInv, TypeOK, RunnersCount
<1>2. Counts \subseteq Nat /\ Rows \cup {NoRow} \subseteq Nat
  BY JobConstants DEF Counts, Rows, NoRow
<1>. QED  BY <1>1, <1>2 DEF RunnerRecord

\* A runner that has ended has counted nothing.
LEMMA StoppedTyped ==
  Stopped \in RunnerRecord /\ Counted(Stopped) /\ Resulted(Stopped)
    /\ Stopped.at = "done"
<1>1. NoRunner \in [at : RunnerAt, row : {0}, succeeded : {0}, failed : {0},
                      result : {"NONE"}, failing : {FALSE}]
  BY DEF NoRunner, NoRow, RunnerAt
<1>2. Stopped \in [at : {"done"}, row : {0}, succeeded : {0}, failed : {0},
                     result : {"NONE"}, failing : {FALSE}]
  BY <1>1 DEF Stopped
<1>3. 0 \in Counts
  BY JobConstants DEF Counts
<1>4. Stopped \in RunnerRecord
  BY <1>2, <1>3 DEF RunnerRecord, RunnerAt, NoRow
<1>. QED  BY <1>2, <1>4 DEF Counted, Resulted

\* Releasing a lock leaves a lock.
LEMMA ReleasedTyped ==
  ASSUME JobInv, NEW j \in Jobs
  PROVE  Released(j) \in LockRecord /\ NoLock \in LockRecord
         /\ [NoLock EXCEPT !.job = j] \in LockRecord
  BY DEF JobInv, TypeOK, Released, NoLock, LockRecord, NoJob

-----------------------------------------------------------------------------
\* The runner looks at the job.
LEMMA RunnerLoadInv ==
  ASSUME JobInv, NEW j \in Jobs, RunnerLoad(j)
  PROVE  JobInv'
<1>. DEFINE q == runner'[j]
<1>1. /\ runner[j] \in RunnerRecord /\ Counted(runner[j]) /\ Resulted(runner[j])
      /\ runner[j].row \in Nat
      /\ runner[j].succeeded \in Nat /\ runner[j].failed \in Nat
  BY RunnerTyped
<1>2. runner' = [runner EXCEPT ![j] = q] /\ q \in RunnerRecord
  BY <1>1, StoppedTyped DEF RunnerLoad, RunnerRecord, RunnerAt, JobInv, TypeOK
<1>3. Counted(q) /\ Resulted(q) /\ q.at # "none"
  BY <1>1, StoppedTyped DEF RunnerLoad, RunnerRecord, JobInv, TypeOK, Counted, Resulted
<1>4. job' \in [Jobs -> JobRecord] /\ job'[j].status # "NONE"
      /\ \A i \in Jobs \ {j} : job'[i] = job[i]
  BY <1>1, RunnerHasJob DEF RunnerLoad, JobInv, TypeOK
<1>5. jobRow' \in [Jobs -> [Rows -> RowStatus]] /\ lock' \in LockRecord
      /\ collected' \subseteq Rows /\ UNCHANGED <<cancel, cleaner, single>>
  BY <1>1, ReleasedTyped DEF RunnerLoad, JobInv, TypeOK
<1>. QED  BY <1>2, <1>3, <1>4, <1>5, RunnerMoves

\* The job is RUNNING, and the counts start again.
LEMMA RunnerStartInv ==
  ASSUME JobInv, NEW j \in Jobs, RunnerStart(j)
  PROVE  JobInv'
<1>. DEFINE q == runner'[j]
<1>1. /\ runner[j] \in RunnerRecord /\ Counted(runner[j]) /\ Resulted(runner[j])
      /\ runner[j].row \in Nat
      /\ runner[j].succeeded \in Nat /\ runner[j].failed \in Nat
  BY RunnerTyped
<1>2. runner' = [runner EXCEPT ![j] = q] /\ q \in RunnerRecord
  BY <1>1 DEF RunnerStart, RunnerRecord, RunnerAt, JobInv, TypeOK
<1>3. Counted(q) /\ Resulted(q) /\ q.at # "none"
  BY <1>1 DEF RunnerStart, RunnerRecord, JobInv, TypeOK, Counted, Resulted
<1>4. job' \in [Jobs -> JobRecord] /\ job'[j].status # "NONE"
      /\ \A i \in Jobs \ {j} : job'[i] = job[i]
  BY <1>1, RunnerHasJob, JobConstants DEF RunnerStart, JobInv, TypeOK, JobRecord, Active, Counts
<1>5. jobRow' \in [Jobs -> [Rows -> RowStatus]] /\ lock' \in LockRecord
      /\ collected' \subseteq Rows /\ UNCHANGED <<cancel, cleaner, single>>
  BY <1>1, ReleasedTyped DEF RunnerStart, JobInv, TypeOK
<1>. QED  BY <1>2, <1>3, <1>4, <1>5, RunnerMoves

\* The runner ends, or goes on with a row after the last one.
LEMMA RunnerCheckInv ==
  ASSUME JobInv, NEW j \in Jobs, RunnerCheck(j)
  PROVE  JobInv'
<1>. DEFINE q == runner'[j]
<1>1. /\ runner[j] \in RunnerRecord /\ Counted(runner[j]) /\ Resulted(runner[j])
      /\ runner[j].row \in Nat
      /\ runner[j].succeeded \in Nat /\ runner[j].failed \in Nat
  BY RunnerTyped
<1>2. /\ runner' = [runner EXCEPT ![j] = q] /\ q \in RunnerRecord
      /\ q.succeeded = runner[j].succeeded /\ q.failed = runner[j].failed
      /\ \/ q.at = "finish" /\ q.result \in Ended
         \/ q.at = "take" /\ q.row \in Rows /\ q.row > runner[j].row
  <2>1. PICK row \in Rows \cup {NoRow}, result \in {"NONE"} \cup Ended,
             at \in {"finish", "take"} :
          /\ runner' = [runner EXCEPT ![j].at = at, ![j].row = row,
                                      ![j].result = result]
          /\ at = "finish" => result \in Ended
          /\ at = "take" => row \in Rows /\ row > runner[j].row
    BY DEF RunnerCheck, Resolve, Ended, RowsOf
  <2>2. q = [runner[j] EXCEPT !.at = at, !.row = row, !.result = result]
    BY <2>1 DEF JobInv, TypeOK
  <2>3. runner' = [runner EXCEPT ![j] = q]
    BY <2>1, <2>2
  <2>4. at \in RunnerAt /\ result \in {"NONE"} \cup RowResult \cup Ended
    BY DEF RunnerAt
  <2>5. q \in RunnerRecord
    BY <1>1, <2>2, <2>4 DEF RunnerRecord
  <2>6. /\ q.at = at /\ q.row = row /\ q.result = result
        /\ q.succeeded = runner[j].succeeded /\ q.failed = runner[j].failed
    BY <1>1, <2>2 DEF RunnerRecord
  <2>. QED  BY <2>1, <2>3, <2>5, <2>6
<1>3. Counted(q) /\ Resulted(q) /\ q.at # "none"
  <2>1. runner[j].succeeded + runner[j].failed <= runner[j].row
    BY <1>1 DEF RunnerCheck, Counted
  <2>2. Rows \subseteq Int
    BY DEF Rows
  <2>3. CASE q.at = "finish"
    BY <1>2, <2>3 DEF Counted, Resulted
  <2>4. CASE q.at = "take"
    <3>1. q.row \in Rows /\ q.row \in Int /\ q.row > runner[j].row
      BY <1>2, <2>2, <2>4
    <3>2. q.succeeded + q.failed < q.row
      BY <1>1, <1>2, <2>1, <3>1
    <3>. QED  BY <2>4, <3>1, <3>2 DEF Counted, Resulted
  <2>. QED  BY <1>2, <2>3, <2>4
<1>4. job' \in [Jobs -> JobRecord] /\ job'[j].status # "NONE"
      /\ \A i \in Jobs \ {j} : job'[i] = job[i]
  BY <1>1, RunnerHasJob DEF RunnerCheck, JobInv, TypeOK
<1>5. jobRow' \in [Jobs -> [Rows -> RowStatus]] /\ lock' \in LockRecord
      /\ collected' \subseteq Rows /\ UNCHANGED <<cancel, cleaner, single>>
  BY <1>1, ReleasedTyped DEF RunnerCheck, JobInv, TypeOK
<1>. QED  BY <1>2, <1>3, <1>4, <1>5, RunnerMoves

\* The row at hand is RUNNING.
LEMMA RunnerTakeRowInv ==
  ASSUME JobInv, NEW j \in Jobs, RunnerTakeRow(j)
  PROVE  JobInv'
<1>. DEFINE q == runner'[j]
<1>1. /\ runner[j] \in RunnerRecord /\ Counted(runner[j]) /\ Resulted(runner[j])
      /\ runner[j].row \in Nat
      /\ runner[j].succeeded \in Nat /\ runner[j].failed \in Nat
  BY RunnerTyped
<1>2. runner' = [runner EXCEPT ![j] = q] /\ q \in RunnerRecord
  <2>1. \E at \in {"mark", "collect"}, result \in {"FAILED", "SKIPPED", "NONE"} :
          runner' = [runner EXCEPT ![j].at = at, ![j].result = result]
    BY DEF RunnerTakeRow
  <2>2. PICK at \in {"mark", "collect"}, result \in {"FAILED", "SKIPPED", "NONE"} :
          runner' = [runner EXCEPT ![j] = [@ EXCEPT !.at = at, !.result = result]]
    BY <2>1
  <2>3. q = [runner[j] EXCEPT !.at = at, !.result = result]
    BY <2>2 DEF JobInv, TypeOK
  <2>4. runner' = [runner EXCEPT ![j] = q]
    BY <2>2, <2>3
  <2>. QED  BY <1>1, <2>3, <2>4 DEF RunnerRecord, RunnerAt, RowResult
<1>3. Counted(q) /\ Resulted(q) /\ q.at # "none"
  <2>1. /\ q.row = runner[j].row /\ q.succeeded = runner[j].succeeded
        /\ q.failed = runner[j].failed /\ q.at \in {"mark", "collect"}
        /\ q.at = "mark" => q.result \in RowResult
    BY <1>1 DEF RunnerTakeRow, RunnerRecord, JobInv, TypeOK, RowResult
  <2>2. /\ runner[j].row \in Rows
        /\ runner[j].succeeded + runner[j].failed < runner[j].row
    BY <1>1 DEF RunnerTakeRow, Counted
  <2>. QED  BY <2>1, <2>2 DEF Counted, Resulted
<1>4. job' \in [Jobs -> JobRecord] /\ job'[j].status # "NONE"
      /\ \A i \in Jobs \ {j} : job'[i] = job[i]
  BY <1>1, RunnerHasJob DEF RunnerTakeRow, JobInv, TypeOK
<1>5. jobRow' \in [Jobs -> [Rows -> RowStatus]] /\ lock' \in LockRecord
      /\ collected' \subseteq Rows /\ UNCHANGED <<cancel, cleaner, single>>
  BY <1>1, ReleasedTyped DEF RunnerTakeRow, JobInv, TypeOK, RowStatus, Unfinished,
     RowResult, Counted, Resulted
<1>. QED  BY <1>2, <1>3, <1>4, <1>5, RunnerMoves

\* The row at hand is collected or fails.
LEMMA RunnerCollectInv ==
  ASSUME JobInv, NEW j \in Jobs, RunnerCollect(j)
  PROVE  JobInv'
<1>. DEFINE q == runner'[j]
<1>1. /\ runner[j] \in RunnerRecord /\ Counted(runner[j]) /\ Resulted(runner[j])
      /\ runner[j].row \in Nat
      /\ runner[j].succeeded \in Nat /\ runner[j].failed \in Nat
  BY RunnerTyped
<1>2. runner' = [runner EXCEPT ![j] = q] /\ q \in RunnerRecord
  <2>1. PICK result \in {"COLLECTED", "FAILED"} :
          runner' = [runner EXCEPT ![j].at = "mark", ![j].result = result]
    BY DEF RunnerCollect
  <2>2. q = [runner[j] EXCEPT !.at = "mark", !.result = result]
    BY <2>1 DEF JobInv, TypeOK
  <2>3. runner' = [runner EXCEPT ![j] = q]
    BY <2>1, <2>2
  <2>. QED  BY <1>1, <2>2, <2>3 DEF RunnerRecord, RunnerAt, RowResult
<1>3. Counted(q) /\ Resulted(q) /\ q.at # "none"
  <2>1. /\ q.row = runner[j].row /\ q.succeeded = runner[j].succeeded
        /\ q.failed = runner[j].failed /\ q.at = "mark"
        /\ q.result \in RowResult
    BY <1>1 DEF RunnerCollect, RunnerRecord, JobInv, TypeOK, RowResult
  <2>2. /\ runner[j].row \in Rows
        /\ runner[j].succeeded + runner[j].failed < runner[j].row
    BY <1>1 DEF RunnerCollect, Counted
  <2>. QED  BY <2>1, <2>2 DEF Counted, Resulted
<1>4. job' \in [Jobs -> JobRecord] /\ job'[j].status # "NONE"
      /\ \A i \in Jobs \ {j} : job'[i] = job[i]
  BY <1>1, RunnerHasJob DEF RunnerCollect, JobInv, TypeOK
<1>5. jobRow' \in [Jobs -> [Rows -> RowStatus]] /\ lock' \in LockRecord
      /\ collected' \subseteq Rows /\ UNCHANGED <<cancel, cleaner, single>>
  BY <1>1, ReleasedTyped DEF RunnerCollect, JobInv, TypeOK, RowStatus, Unfinished,
     RowResult, Counted, Resulted
<1>. QED  BY <1>2, <1>3, <1>4, <1>5, RunnerMoves

\* The row is counted once, and it is a row.
LEMMA RunnerMarkInv ==
  ASSUME JobInv, NEW j \in Jobs, RunnerMark(j)
  PROVE  JobInv'
<1>. DEFINE q == runner'[j]
<1>1. /\ runner[j] \in RunnerRecord /\ Counted(runner[j]) /\ Resulted(runner[j])
      /\ runner[j].row \in Nat
      /\ runner[j].succeeded \in Nat /\ runner[j].failed \in Nat
  BY RunnerTyped
<1>2. runner' = [runner EXCEPT ![j] = q] /\ q \in RunnerRecord
  <2>. DEFINE succeeded == IF runner[j].result = "COLLECTED"
                           THEN runner[j].succeeded + 1 ELSE runner[j].succeeded
              failed == IF runner[j].result = "FAILED"
                        THEN runner[j].failed + 1 ELSE runner[j].failed
  <2>1. /\ runner[j].row \in Rows
        /\ runner[j].succeeded + runner[j].failed < runner[j].row
    BY <1>1 DEF RunnerMark, Counted
  <2>2. succeeded \in Counts /\ failed \in Counts
    BY <1>1, <2>1, JobConstants DEF Counts, Rows
  <2>3. runner' = [runner EXCEPT ![j].at = "flush", ![j].succeeded = succeeded,
                                 ![j].failed = failed]
    BY DEF RunnerMark
  <2>. HIDE DEF succeeded, failed
  <2>. QED
    BY <1>1, <2>2, <2>3 DEF RunnerRecord, RunnerAt, JobInv, TypeOK
<1>3. Counted(q) /\ Resulted(q) /\ q.at # "none"
  BY <1>1 DEF RunnerMark, RunnerRecord, JobInv, TypeOK, Counted, Resulted, RowResult, Rows, Counts
<1>4. job' \in [Jobs -> JobRecord] /\ job'[j].status # "NONE"
      /\ \A i \in Jobs \ {j} : job'[i] = job[i]
  BY <1>1, RunnerHasJob DEF RunnerMark, JobInv, TypeOK
<1>5. jobRow' \in [Jobs -> [Rows -> RowStatus]] /\ lock' \in LockRecord
      /\ collected' \subseteq Rows /\ UNCHANGED <<cancel, cleaner, single>>
  BY <1>1, ReleasedTyped DEF RunnerMark, JobInv, TypeOK, RowStatus, Unfinished,
     RowResult, Counted, Resulted
<1>. QED  BY <1>2, <1>3, <1>4, <1>5, RunnerMoves

\* A mark that throws changes the result only.
LEMMA RunnerMarkFailsInv ==
  ASSUME JobInv, NEW j \in Jobs, RunnerMarkFails(j)
  PROVE  JobInv'
<1>. DEFINE q == runner'[j]
<1>1. /\ runner[j] \in RunnerRecord /\ Counted(runner[j]) /\ Resulted(runner[j])
      /\ runner[j].row \in Nat
      /\ runner[j].succeeded \in Nat /\ runner[j].failed \in Nat
  BY RunnerTyped
<1>2. runner' = [runner EXCEPT ![j] = q] /\ q \in RunnerRecord
  BY <1>1 DEF RunnerMarkFails, RunnerRecord, RunnerAt, JobInv, TypeOK, RowResult
<1>3. Counted(q) /\ Resulted(q) /\ q.at # "none"
  BY <1>1 DEF RunnerMarkFails, RunnerRecord, JobInv, TypeOK, Counted, Resulted, RowResult
<1>4. job' \in [Jobs -> JobRecord] /\ job'[j].status # "NONE"
      /\ \A i \in Jobs \ {j} : job'[i] = job[i]
  BY <1>1, RunnerHasJob DEF RunnerMarkFails, JobInv, TypeOK
<1>5. jobRow' \in [Jobs -> [Rows -> RowStatus]] /\ lock' \in LockRecord
      /\ collected' \subseteq Rows /\ UNCHANGED <<cancel, cleaner, single>>
  BY <1>1, ReleasedTyped DEF RunnerMarkFails, JobInv, TypeOK
<1>. QED  BY <1>2, <1>3, <1>4, <1>5, RunnerMoves

\* The job takes the counts over.
LEMMA RunnerFlushInv ==
  ASSUME JobInv, NEW j \in Jobs, RunnerFlush(j)
  PROVE  JobInv'
<1>. DEFINE q == runner'[j]
<1>1. /\ runner[j] \in RunnerRecord /\ Counted(runner[j]) /\ Resulted(runner[j])
      /\ runner[j].row \in Nat
      /\ runner[j].succeeded \in Nat /\ runner[j].failed \in Nat
  BY RunnerTyped
<1>2. runner' = [runner EXCEPT ![j] = q] /\ q \in RunnerRecord
  BY <1>1 DEF RunnerFlush, RunnerRecord, RunnerAt, JobInv, TypeOK
<1>3. Counted(q) /\ Resulted(q) /\ q.at # "none"
  BY <1>1 DEF RunnerFlush, RunnerRecord, JobInv, TypeOK, Counted, Resulted
<1>4. job' \in [Jobs -> JobRecord] /\ job'[j].status # "NONE"
      /\ \A i \in Jobs \ {j} : job'[i] = job[i]
  BY <1>1, RunnerHasJob, JobConstants DEF RunnerFlush, JobInv, TypeOK, JobRecord, RunnerRecord
<1>5. jobRow' \in [Jobs -> [Rows -> RowStatus]] /\ lock' \in LockRecord
      /\ collected' \subseteq Rows /\ UNCHANGED <<cancel, cleaner, single>>
  BY <1>1, ReleasedTyped DEF RunnerFlush, JobInv, TypeOK
<1>. QED  BY <1>2, <1>3, <1>4, <1>5, RunnerMoves

\* The lock is extended.
LEMMA RunnerExtendInv ==
  ASSUME JobInv, NEW j \in Jobs, RunnerExtend(j)
  PROVE  JobInv'
<1>. DEFINE q == runner'[j]
<1>1. /\ runner[j] \in RunnerRecord /\ Counted(runner[j]) /\ Resulted(runner[j])
      /\ runner[j].row \in Nat
      /\ runner[j].succeeded \in Nat /\ runner[j].failed \in Nat
  BY RunnerTyped
<1>2. runner' = [runner EXCEPT ![j] = q] /\ q \in RunnerRecord
  BY <1>1 DEF RunnerExtend, RunnerRecord, RunnerAt, JobInv, TypeOK
<1>3. Counted(q) /\ Resulted(q) /\ q.at # "none"
  BY <1>1 DEF RunnerExtend, RunnerRecord, JobInv, TypeOK, Counted, Resulted
<1>4. job' \in [Jobs -> JobRecord] /\ job'[j].status # "NONE"
      /\ \A i \in Jobs \ {j} : job'[i] = job[i]
  BY <1>1, RunnerHasJob, JobConstants DEF RunnerExtend, JobInv, TypeOK, JobRecord, RunnerRecord
<1>5. jobRow' \in [Jobs -> [Rows -> RowStatus]] /\ lock' \in LockRecord
      /\ collected' \subseteq Rows /\ UNCHANGED <<cancel, cleaner, single>>
  BY <1>1, ReleasedTyped DEF RunnerExtend, JobInv, TypeOK
<1>. QED  BY <1>2, <1>3, <1>4, <1>5, RunnerMoves

\* No progress is written.
LEMMA RunnerSkipFlushInv ==
  ASSUME JobInv, NEW j \in Jobs, RunnerSkipFlush(j)
  PROVE  JobInv'
<1>. DEFINE q == runner'[j]
<1>1. /\ runner[j] \in RunnerRecord /\ Counted(runner[j]) /\ Resulted(runner[j])
      /\ runner[j].row \in Nat
      /\ runner[j].succeeded \in Nat /\ runner[j].failed \in Nat
  BY RunnerTyped
<1>2. runner' = [runner EXCEPT ![j] = q] /\ q \in RunnerRecord
  BY <1>1 DEF RunnerSkipFlush, RunnerRecord, RunnerAt, JobInv, TypeOK
<1>3. Counted(q) /\ Resulted(q) /\ q.at # "none"
  BY <1>1 DEF RunnerSkipFlush, RunnerRecord, JobInv, TypeOK, Counted, Resulted
<1>4. job' \in [Jobs -> JobRecord] /\ job'[j].status # "NONE"
      /\ \A i \in Jobs \ {j} : job'[i] = job[i]
  BY <1>1, RunnerHasJob DEF RunnerSkipFlush, JobInv, TypeOK
<1>5. jobRow' \in [Jobs -> [Rows -> RowStatus]] /\ lock' \in LockRecord
      /\ collected' \subseteq Rows /\ UNCHANGED <<cancel, cleaner, single>>
  BY <1>1, ReleasedTyped DEF RunnerSkipFlush, JobInv, TypeOK
<1>. QED  BY <1>2, <1>3, <1>4, <1>5, RunnerMoves

\* The job takes the result and the counts over.
LEMMA RunnerFinishInv ==
  ASSUME JobInv, NEW j \in Jobs, RunnerFinish(j)
  PROVE  JobInv'
<1>. DEFINE q == runner'[j]
<1>1. /\ runner[j] \in RunnerRecord /\ Counted(runner[j]) /\ Resulted(runner[j])
      /\ runner[j].row \in Nat
      /\ runner[j].succeeded \in Nat /\ runner[j].failed \in Nat
  BY RunnerTyped
<1>2. runner' = [runner EXCEPT ![j] = q] /\ q \in RunnerRecord
  BY <1>1 DEF RunnerFinish, RunnerRecord, RunnerAt, JobInv, TypeOK
<1>3. Counted(q) /\ Resulted(q) /\ q.at # "none"
  BY <1>1 DEF RunnerFinish, RunnerRecord, JobInv, TypeOK, Counted, Resulted
<1>4. job' \in [Jobs -> JobRecord] /\ job'[j].status # "NONE"
      /\ \A i \in Jobs \ {j} : job'[i] = job[i]
  BY <1>1, RunnerHasJob, JobConstants DEF RunnerFinish, JobInv, TypeOK, JobRecord, RunnerRecord, Ended, Resulted
<1>5. jobRow' \in [Jobs -> [Rows -> RowStatus]] /\ lock' \in LockRecord
      /\ collected' \subseteq Rows /\ UNCHANGED <<cancel, cleaner, single>>
  BY <1>1, ReleasedTyped DEF RunnerFinish, JobInv, TypeOK
<1>. QED  BY <1>2, <1>3, <1>4, <1>5, RunnerMoves

\* The lock is released, and the runner ends.
LEMMA RunnerUnlockInv ==
  ASSUME JobInv, NEW j \in Jobs, RunnerUnlock(j)
  PROVE  JobInv'
<1>. DEFINE q == runner'[j]
<1>1. /\ runner[j] \in RunnerRecord /\ Counted(runner[j]) /\ Resulted(runner[j])
      /\ runner[j].row \in Nat
      /\ runner[j].succeeded \in Nat /\ runner[j].failed \in Nat
  BY RunnerTyped
<1>2. runner' = [runner EXCEPT ![j] = q] /\ q \in RunnerRecord
  BY <1>1, StoppedTyped DEF RunnerUnlock, RunnerRecord, RunnerAt, JobInv, TypeOK
<1>3. Counted(q) /\ Resulted(q) /\ q.at # "none"
  BY <1>1, StoppedTyped DEF RunnerUnlock, RunnerRecord, JobInv, TypeOK, Counted, Resulted
<1>4. job' \in [Jobs -> JobRecord] /\ job'[j].status # "NONE"
      /\ \A i \in Jobs \ {j} : job'[i] = job[i]
  BY <1>1, RunnerHasJob DEF RunnerUnlock, JobInv, TypeOK
<1>5. jobRow' \in [Jobs -> [Rows -> RowStatus]] /\ lock' \in LockRecord
      /\ collected' \subseteq Rows /\ UNCHANGED <<cancel, cleaner, single>>
  BY <1>1, ReleasedTyped DEF RunnerUnlock, JobInv, TypeOK
<1>. QED  BY <1>2, <1>3, <1>4, <1>5, RunnerMoves

\* What is not collected counts as failed.
LEMMA RunnerErrorInv ==
  ASSUME JobInv, NEW j \in Jobs, RunnerError(j)
  PROVE  JobInv'
<1>. DEFINE q == runner'[j]
<1>1. /\ runner[j] \in RunnerRecord /\ Counted(runner[j]) /\ Resulted(runner[j])
      /\ runner[j].row \in Nat
      /\ runner[j].succeeded \in Nat /\ runner[j].failed \in Nat
  BY RunnerTyped
<1>2. runner' = [runner EXCEPT ![j] = q] /\ q \in RunnerRecord
  <2>. DEFINE failed == FailedOnError(Cardinality(RowsOf(j)),
                              runner[j].succeeded, runner[j].failed)
  <2>1. Cardinality(RowsOf(j)) \in Counts
    BY RowsCounted DEF RowsOf
  <2>2. runner[j].succeeded \in Counts /\ runner[j].failed \in Counts
    BY <1>1 DEF RunnerRecord
  <2>3. failed \in Counts
    BY <2>1, <2>2, JobConstants DEF FailedOnError, Counts
  <2>. HIDE DEF failed
  <2>. QED
    BY <1>1, <2>3 DEF RunnerError, RunnerRecord, RunnerAt, JobInv, TypeOK,
       Ended, NoRow, failed
<1>3. Counted(q) /\ Resulted(q) /\ q.at # "none"
  BY <1>1 DEF RunnerError, RunnerRecord, JobInv, TypeOK, Counted, Resulted, FailedOnError, Ended, NoRow, Counts
<1>4. job' \in [Jobs -> JobRecord] /\ job'[j].status # "NONE"
      /\ \A i \in Jobs \ {j} : job'[i] = job[i]
  BY <1>1, RunnerHasJob DEF RunnerError, JobInv, TypeOK
<1>5. jobRow' \in [Jobs -> [Rows -> RowStatus]] /\ lock' \in LockRecord
      /\ collected' \subseteq Rows /\ UNCHANGED <<cancel, cleaner, single>>
  BY <1>1, ReleasedTyped DEF RunnerError, JobInv, TypeOK
<1>. QED  BY <1>2, <1>3, <1>4, <1>5, RunnerMoves

\* A runner that is gone has counted nothing.
LEMMA RunnerDiesInv ==
  ASSUME JobInv, NEW j \in Jobs, RunnerDies(j)
  PROVE  JobInv'
<1>. DEFINE q == runner'[j]
<1>1. /\ runner[j] \in RunnerRecord /\ Counted(runner[j]) /\ Resulted(runner[j])
      /\ runner[j].row \in Nat
      /\ runner[j].succeeded \in Nat /\ runner[j].failed \in Nat
  BY RunnerTyped
<1>2. runner' = [runner EXCEPT ![j] = q] /\ q \in RunnerRecord
  BY <1>1, StoppedTyped DEF RunnerDies, RunnerRecord, RunnerAt, JobInv, TypeOK
<1>3. Counted(q) /\ Resulted(q) /\ q.at # "none"
  BY <1>1, StoppedTyped DEF RunnerDies, RunnerRecord, JobInv, TypeOK, Counted, Resulted
<1>4. job' \in [Jobs -> JobRecord] /\ job'[j].status # "NONE"
      /\ \A i \in Jobs \ {j} : job'[i] = job[i]
  BY <1>1, RunnerHasJob, JobConstants DEF RunnerDies, JobInv, TypeOK, Living
<1>5. jobRow' \in [Jobs -> [Rows -> RowStatus]] /\ lock' \in LockRecord
      /\ collected' \subseteq Rows /\ UNCHANGED <<cancel, cleaner, single>>
  BY <1>1, ReleasedTyped DEF RunnerDies, JobInv, TypeOK
<1>. QED  BY <1>2, <1>3, <1>4, <1>5, RunnerMoves

\* A new job starts with a runner that has counted nothing.
LEMMA CreateInv ==
  ASSUME JobInv, NEW j \in Jobs, NEW rows \in SUBSET Rows, Create(j, rows)
  PROVE  JobInv'
<1>. DEFINE q == runner'[j]
<1>1. /\ runner[j] \in RunnerRecord /\ Counted(runner[j])
      /\ runner[j].at = "none"
  BY RunnerTyped DEF Create, JobInv, WellPlaced
<1>2. /\ runner' = [runner EXCEPT ![j] = q] /\ q \in RunnerRecord
      /\ Counted(q) /\ Resulted(q) /\ q.at # "none"
  BY <1>1 DEF Create, RunnerRecord, RunnerAt, JobInv, TypeOK, Counted, Resulted
<1>3. /\ job' \in [Jobs -> JobRecord] /\ job'[j].status # "NONE"
      /\ \A i \in Jobs \ {j} : job'[i] = job[i]
  BY DEF Create, JobInv, TypeOK, JobRecord, Active
<1>4. /\ jobRow' \in [Jobs -> [Rows -> RowStatus]] /\ lock' \in LockRecord
      /\ collected' \subseteq Rows /\ UNCHANGED <<cancel, cleaner, single>>
  BY ReleasedTyped DEF Create, JobInv, TypeOK, RowStatus, Unfinished
<1>. QED  BY <1>2, <1>3, <1>4, RunnerMoves

\* The steps of the others leave the runners alone.
LEMMA OthersMove ==
  ASSUME JobInv, TypeOK', UNCHANGED runner,
         \A j \in Jobs : job'[j].status = "NONE" => job[j].status = "NONE",
         \A c \in Cleaners : cleaner'[c].at # "idle" => cleaner'[c].job \in Jobs
  PROVE  JobInv'
  BY DEF JobInv, RunnersCount, WellPlaced

\* The lock expires.
LEMMA ExpireInv ==
  ASSUME JobInv, Expire
  PROVE  JobInv'
<1>1. TypeOK'
  BY DEF JobInv, TypeOK, Expire, LockRecord
<1>. QED  BY <1>1, OthersMove DEF JobInv, WellPlaced, Expire

\* A reconciliation remembers the job whose lock has expired.
LEMMA ReconcileReadInv ==
  ASSUME JobInv, NEW c \in Cleaners, ReconcileRead(c)
  PROVE  JobInv'
<1>. DEFINE q == [IdleCleaner EXCEPT !.at = "snapshot", !.job = lock.job]
<1>1. lock.job \in Jobs /\ lock' \in LockRecord
  BY DEF JobInv, TypeOK, LockRecord, ReconcileRead
<1>2. NoRows \in [Rows -> RowStatus]
  BY DEF NoRows, RowStatus
<1>3. q \in CleanerRecord /\ q.job = lock.job
  BY <1>1, <1>2 DEF IdleCleaner, CleanerRecord
<1>4. cleaner' = [cleaner EXCEPT ![c] = q]
  BY DEF ReconcileRead
<1>. HIDE DEF q
<1>5. TypeOK'
  BY <1>1, <1>3, <1>4 DEF JobInv, TypeOK, ReconcileRead
<1>6. \A d \in Cleaners : cleaner'[d].at # "idle" => cleaner'[d].job \in Jobs
  BY <1>1, <1>3, <1>4 DEF JobInv, TypeOK, WellPlaced
<1>. QED  BY <1>5, <1>6, OthersMove DEF ReconcileRead

\* A reconciliation remembers the rows of its job.
LEMMA ReconcileSnapshotInv ==
  ASSUME JobInv, NEW c \in Cleaners, ReconcileSnapshot(c)
  PROVE  JobInv'
<1>1. cleaner[c].job \in Jobs /\ cleaner[c] \in CleanerRecord
  BY DEF JobInv, TypeOK, WellPlaced, ReconcileSnapshot
<1>2. jobRow[cleaner[c].job] \in [Rows -> RowStatus]
  BY <1>1 DEF JobInv, TypeOK
<1>. DEFINE q == [cleaner[c] EXCEPT !.at = "commit",
                        !.active = Stale(job[cleaner[c].job].status),
                        !.rows = jobRow[cleaner[c].job]]
<1>0. /\ q \in CleanerRecord /\ q.job = cleaner[c].job
      /\ cleaner' = [cleaner EXCEPT ![c] = q]
  <2>1. Stale(job[cleaner[c].job].status) \in BOOLEAN
    BY DEF Stale
  <2>2. q \in CleanerRecord /\ q.job = cleaner[c].job
    BY <1>1, <1>2, <2>1 DEF CleanerRecord
  <2>. QED  BY <2>2 DEF ReconcileSnapshot
<1>. HIDE DEF q
<1>3. \A d \in Cleaners : cleaner'[d] \in CleanerRecord
                          /\ cleaner'[d].job = cleaner[d].job
                          /\ (d # c => cleaner'[d] = cleaner[d])
  BY <1>0 DEF JobInv, TypeOK
<1>4. TypeOK'
  BY <1>3 DEF JobInv, TypeOK, ReconcileSnapshot
<1>5. \A d \in Cleaners : cleaner'[d].at # "idle" => cleaner'[d].job \in Jobs
  BY <1>1, <1>3 DEF JobInv, WellPlaced
<1>. QED  BY <1>4, <1>5, OthersMove DEF ReconcileSnapshot

\* The stale job ends with counts of its rows, and its unfinished rows fail.
LEMMA ReconcileCommitInv ==
  ASSUME JobInv, NEW c \in Cleaners, ReconcileCommit(c)
  PROVE  JobInv'
<1>. DEFINE j == cleaner[c].job
            succeeded == Cardinality({w \in Rows : cleaner[c].rows[w] = "COLLECTED"})
            failed == Cardinality(StaleFailed(cleaner[c].rows))
            result == [status |-> Resolve(succeeded, failed),
                       succeeded |-> succeeded, failed |-> failed]
<1>1. j \in Jobs
  BY DEF JobInv, WellPlaced, ReconcileCommit
<1>2. succeeded \in Counts /\ failed \in Counts
  BY RowsCounted DEF StaleFailed
<1>3. Resolve(succeeded, failed) \in Ended
  BY DEF Resolve, Ended
<1>4. result \in JobRecord /\ result.status # "NONE"
  BY <1>2, <1>3 DEF JobRecord, Ended
<1>5. job' = job \/ job' = [job EXCEPT ![j] = result]
  BY DEF ReconcileCommit
<1>. HIDE DEF result, succeeded, failed
<1>6. /\ job' \in [Jobs -> JobRecord]
      /\ \A i \in Jobs : job'[i].status = "NONE" => job[i].status = "NONE"
  BY <1>1, <1>4, <1>5 DEF JobInv, TypeOK
<1>7. jobRow' \in [Jobs -> [Rows -> RowStatus]]
  BY <1>1 DEF JobInv, TypeOK, ReconcileCommit, RowStatus, RowResult
<1>8. lock' \in LockRecord
  BY DEF JobInv, TypeOK, ReconcileCommit, LockAfterReconcile, NoLock, LockRecord,
     NoJob
<1>9. IdleCleaner \in CleanerRecord /\ IdleCleaner.at = "idle"
  BY DEF IdleCleaner, CleanerRecord, NoRows, RowStatus, NoJob
<1>10. TypeOK'
  BY <1>6, <1>7, <1>8, <1>9 DEF JobInv, TypeOK, ReconcileCommit
<1>11. \A d \in Cleaners : cleaner'[d].at # "idle" => cleaner'[d].job \in Jobs
  BY <1>9 DEF JobInv, TypeOK, WellPlaced, ReconcileCommit
<1>. QED  BY <1>6, <1>10, <1>11, OthersMove DEF ReconcileCommit

\* A cancellation writes CANCELLED, or nothing but the lock.
LEMMA CancelInv ==
  ASSUME JobInv, NEW j \in Jobs,
         CancelRead(j) \/ CancelWrite(j) \/ CancelUnlock(j) \/ CancelDies(j)
  PROVE  JobInv'
<1>1. CASE CancelRead(j)
  BY <1>1, OthersMove DEF CancelRead, JobInv, TypeOK, WellPlaced
<1>2. CASE CancelWrite(j)
  <2>1. /\ job' \in [Jobs -> JobRecord]
        /\ \A i \in Jobs : job'[i].status = "NONE" => job[i].status = "NONE"
    BY <1>2 DEF CancelWrite, JobInv, TypeOK, JobRecord, Ended
  <2>2. TypeOK'
    BY <1>2, <2>1 DEF CancelWrite, JobInv, TypeOK
  <2>. QED  BY <1>2, <2>1, <2>2, OthersMove DEF CancelWrite, JobInv, WellPlaced
<1>3. CASE CancelUnlock(j)
  BY <1>3, OthersMove, ReleasedTyped DEF CancelUnlock, JobInv, TypeOK, WellPlaced
<1>4. CASE CancelDies(j)
  BY <1>4, OthersMove DEF CancelDies, JobInv, TypeOK, WellPlaced
<1>. QED  BY <1>1, <1>2, <1>3, <1>4

\* A single request collects a row.
LEMMA SingleInv ==
  ASSUME JobInv, NEW w \in Singles, SingleCheck(w) \/ SingleCollect(w)
  PROVE  JobInv'
<1>1. TypeOK'
  BY JobConstants DEF SingleCheck, SingleCollect, JobInv, TypeOK
<1>. QED
  BY <1>1, OthersMove DEF SingleCheck, SingleCollect, JobInv, WellPlaced

-----------------------------------------------------------------------------
\* Every step preserves the invariant.
LEMMA StepInv == JobInv /\ [Next]_vars => JobInv'
<1>. SUFFICES ASSUME JobInv, [Next]_vars  PROVE JobInv'
  OBVIOUS
<1>1. ASSUME NEW j \in Jobs, \E rows \in SUBSET Rows : Create(j, rows)
      PROVE  JobInv'
  BY <1>1, CreateInv
<1>2. ASSUME NEW j \in Jobs, RunnerStep(j)  PROVE JobInv'
  BY <1>2, RunnerLoadInv, RunnerStartInv, RunnerCheckInv, RunnerTakeRowInv,
     RunnerCollectInv, RunnerMarkInv, RunnerFlushInv, RunnerExtendInv, RunnerSkipFlushInv,
     RunnerFinishInv, RunnerUnlockInv DEF RunnerStep
<1>3. ASSUME NEW j \in Jobs,
             RunnerMarkFails(j) \/ RunnerError(j) \/ RunnerDies(j)
      PROVE  JobInv'
  BY <1>3, RunnerMarkFailsInv, RunnerErrorInv, RunnerDiesInv
<1>4. ASSUME NEW c \in Cleaners, CleanerStep(c)  PROVE JobInv'
  BY <1>4, ReconcileReadInv, ReconcileSnapshotInv, ReconcileCommitInv
     DEF CleanerStep
<1>5. CASE UNCHANGED vars
  BY <1>5 DEF vars, JobInv, TypeOK, RunnersCount, WellPlaced
<1>. QED
  BY <1>1, <1>2, <1>3, <1>4, <1>5, CancelInv, ExpireInv, SingleInv DEF Next

\* The type invariant: among the rest, the counts of a job never exceed its
\* rows, also where the runner gives up half way (Math.max in the catch block)
\* and where the reconciliation counts the rows.
THEOREM JobsTyped == Spec => []TypeOK
<1>1. JobInv => TypeOK
  BY DEF JobInv
<1>2. Spec => []JobInv
  BY InitInv, StepInv, PTL DEF Spec
<1>. QED  BY <1>1, <1>2, PTL

-----------------------------------------------------------------------------
\* A runner whose job is neither slow nor cancelled: its lock is there, and
\* fresh, so that it neither expires nor is known to a reconciliation.
Holding(j) == Living(j) /\ cancel[j] = "idle"
Fresh(j) == lock.job = j /\ ~ lock.expired /\ lock.expiredFor = {}
LockKept == \A j \in Jobs \ SlowRunners : Holding(j) => Fresh(j)

\* It is kept by a step that keeps the lock of everyone who holds one.
LEMMA LockKeptBy ==
  ASSUME LockKept,
         \A i \in Jobs \ SlowRunners : Holding(i)' =>
            \/ Fresh(i)'
            \/ Holding(i) /\ (Fresh(i) => UNCHANGED lock)
  PROVE  LockKept'
  BY DEF LockKept, Fresh

\* A new job finds no lock, so nobody holds one.
LEMMA CreateKeeps ==
  ASSUME JobInv, LockKept, NEW j \in Jobs, \E rows \in SUBSET Rows : Create(j, rows)
  PROVE  LockKept'
<1>1. Fresh(j)'
  BY DEF Create, Fresh, NoLock
<1>2. \A i \in Jobs \ SlowRunners : i # j => ~ Holding(i)
  BY DEF Create, LockKept, Fresh, Jobs, NoJob
<1>3. \A i \in Jobs : i # j => Holding(i)' = Holding(i)
  BY DEF Create, Holding, Living, JobInv, TypeOK
<1>. QED  BY <1>1, <1>2, <1>3 DEF LockKept

\* A runner extends its own lock, releases its own lock when it ends, and
\* touches no other.
LEMMA RunnerKeeps ==
  ASSUME JobInv, LockKept, NEW j \in Jobs,
         RunnerStep(j) \/ RunnerMarkFails(j) \/ RunnerError(j) \/ RunnerDies(j)
  PROVE  LockKept'
<1>1. /\ UNCHANGED cancel
      /\ \A i \in Jobs : i # j => Holding(i)' = Holding(i)
      /\ Holding(j)' => Holding(j)
  BY DEF RunnerStep, RunnerLoad, RunnerStart, RunnerCheck, RunnerTakeRow,
     RunnerCollect, RunnerMark, RunnerFlush, RunnerExtend, RunnerSkipFlush,
     RunnerFinish, RunnerUnlock, RunnerMarkFails, RunnerError, RunnerDies, Holding, Living,
     JobInv, TypeOK
<1>2. CASE RunnerExtend(j)
  BY <1>1, <1>2, LockKeptBy DEF RunnerExtend, Fresh, NoLock
<1>3. CASE RunnerUnlock(j)
  <2>1. ~ Holding(j)'
    BY <1>3, StoppedTyped DEF RunnerUnlock, Holding, Living, JobInv, TypeOK
  <2>. QED  BY <1>1, <1>3, <2>1, LockKeptBy DEF RunnerUnlock, Released, Fresh
<1>4. CASE UNCHANGED lock
  BY <1>1, <1>4, LockKeptBy
<1>. QED
  BY <1>2, <1>3, <1>4 DEF RunnerStep, RunnerLoad, RunnerStart, RunnerCheck,
     RunnerTakeRow, RunnerCollect, RunnerMark, RunnerFlush, RunnerSkipFlush,
     RunnerFinish,
     RunnerMarkFails, RunnerError, RunnerDies

\* A fresh lock does not expire, and a reconciliation deletes none.
LEMMA ReconcilerKeeps ==
  ASSUME JobInv, LockKept, Expire \/ \E c \in Cleaners : CleanerStep(c)
  PROVE  LockKept'
<1>1. \A i \in Jobs : Holding(i)' = Holding(i)
  BY DEF Expire, CleanerStep, ReconcileRead, ReconcileSnapshot, ReconcileCommit,
     Holding, Living
<1>2. CASE Expire
  BY <1>1, <1>2, LockKeptBy DEF Expire, Fresh, Holding, LockKept
<1>3. ASSUME NEW c \in Cleaners, CleanerStep(c)  PROVE LockKept'
  BY <1>1, <1>3, LockKeptBy DEF CleanerStep, ReconcileRead, ReconcileSnapshot,
     ReconcileCommit, LockAfterReconcile, Fresh
<1>. QED  BY <1>2, <1>3

\* A cancellation releases the lock of the job it has cancelled.
LEMMA CancelKeeps ==
  ASSUME JobInv, LockKept, NEW j \in Jobs,
         CancelRead(j) \/ CancelWrite(j) \/ CancelUnlock(j) \/ CancelDies(j)
  PROVE  LockKept'
<1>1. /\ \A i \in Jobs : i # j => Holding(i)' = Holding(i)
      /\ ~ Holding(j)'
  BY DEF CancelRead, CancelWrite, CancelUnlock, CancelDies, Holding, Living,
     JobInv, TypeOK
<1>2. UNCHANGED lock \/ lock' = Released(j)
  BY DEF CancelRead, CancelWrite, CancelUnlock, CancelDies
<1>. QED  BY <1>1, <1>2, LockKeptBy DEF Released, Fresh

\* A runner works under its lock: no second job runs beside a job that has
\* neither been cancelled nor paused for longer than the lock lasts, whatever
\* the runners, reconciliations and cancellations of other jobs still do.
THEOREM RunnersExclude == Spec => []RunnerHoldsLock
<1>1. Init => LockKept
  BY DEF Init, LockKept, Holding, Living, NoRunner
<1>2. JobInv /\ LockKept /\ [Next]_vars => LockKept'
  <2>. SUFFICES ASSUME JobInv, LockKept, [Next]_vars  PROVE LockKept'
    OBVIOUS
  <2>1. ASSUME NEW w \in Singles, SingleCheck(w) \/ SingleCollect(w)
        PROVE  LockKept'
    BY <2>1 DEF SingleCheck, SingleCollect, LockKept, Holding, Living, Fresh
  <2>2. CASE UNCHANGED vars
    BY <2>2 DEF vars, LockKept, Holding, Living, Fresh
  <2>. QED
    BY <2>1, <2>2, CreateKeeps, RunnerKeeps, ReconcilerKeeps, CancelKeeps DEF Next
<1>3. LockKept => RunnerHoldsLock
  BY DEF LockKept, RunnerHoldsLock, Holding, Fresh
<1>4. Spec => []JobInv
  BY InitInv, StepInv, PTL DEF Spec
<1>. QED  BY <1>1, <1>2, <1>3, <1>4, PTL DEF Spec
-----------------------------------------------------------------------------
(* Results: a job reported as SUCCEEDED has collected every one of its      *)
(* rows, whether its runner or the reconciliation said so                   *)

Success == {"COLLECTED", "SKIPPED"}

\* What a runner knows of the rows it has passed.
Reached(j) ==
    LET q == runner[j] IN
    /\ q.at \in {"take", "collect", "mark"} => q.row \in RowsOf(j)
    /\ q.at \in {"take", "collect", "mark", "check", "flush", "extend"} /\ q.failed = 0 =>
            \A w \in RowsOf(j) : w < q.row => w \in collected
    /\ q.at \in {"check", "flush", "extend"} /\ q.failed = 0
            /\ q.row \in RowsOf(j) => q.row \in collected
    /\ q.at = "mark" /\ q.result \in Success => q.row \in collected
    /\ q.at = "finish" /\ q.result = "SUCCEEDED" => RowsOf(j) \subseteq collected

\* What a reconciliation knows of the rows it has read.
ReadRows(c) ==
    cleaner[c].at = "commit" =>
        /\ \A w \in Rows : cleaner[c].rows[w] \in Success => w \in collected
        /\ {w \in Rows : cleaner[c].rows[w] # "NONE"} = RowsOf(cleaner[c].job)

\* The job of a lock, and of a reconciliation, exists.
JobsExist ==
    /\ lock.job # NoJob => job[lock.job].status # "NONE"
    /\ \A c \in Cleaners :
            cleaner[c].at # "idle" => job[cleaner[c].job].status # "NONE"

ReportedCollected ==
    \A j \in Jobs : \A w \in Rows : jobRow[j][w] \in Success => w \in collected

OutcomeInv ==
    /\ JobInv
    /\ \A j \in Jobs : Reached(j)
    /\ \A c \in Cleaners : ReadRows(c)
    /\ JobsExist
    /\ ReportedCollected
    /\ SucceededMeansCollected

-----------------------------------------------------------------------------
\* Initially there is nothing to know.
LEMMA InitOutcome == Init => OutcomeInv
<1>. SUFFICES ASSUME Init  PROVE OutcomeInv
  OBVIOUS
<1>1. JobInv
  BY InitInv
<1>2. \A j \in Jobs : Reached(j)
  BY DEF Init, Reached, NoRunner
<1>3. (\A c \in Cleaners : ReadRows(c)) /\ JobsExist
  BY DEF Init, ReadRows, JobsExist, IdleCleaner, NoLock
<1>4. ReportedCollected /\ SucceededMeansCollected
  BY DEF Init, ReportedCollected, SucceededMeansCollected, NoRows, Success
<1>. QED  BY <1>1, <1>2, <1>3, <1>4 DEF OutcomeInv

\* A step keeps the invariant if it moves one runner at most, keeps the rows of
\* every job and their collections, and reports no success it does not know of.
LEMMA OutcomeKept ==
  ASSUME OutcomeInv, JobInv', NEW j \in Jobs, Reached(j)',
         \A i \in Jobs : i # j => runner'[i] = runner[i],
         \A i \in Jobs : RowsOf(i)' = RowsOf(i),
         collected \subseteq collected', UNCHANGED cleaner,
         lock'.job \in {lock.job, NoJob},
         \A i \in Jobs : job[i].status # "NONE" => job'[i].status # "NONE",
         ReportedCollected',
         \A i \in Jobs : job'[i].status = "SUCCEEDED" =>
                job[i].status = "SUCCEEDED" \/ RowsOf(i) \subseteq collected'
  PROVE  OutcomeInv'
<1>1. \A i \in Jobs : Reached(i)'
  <2>. SUFFICES ASSUME NEW i \in Jobs, i # j  PROVE Reached(i)'
    OBVIOUS
  <2>1. Reached(i) /\ runner'[i] = runner[i] /\ RowsOf(i)' = RowsOf(i)
    BY DEF OutcomeInv
  <2>. QED  BY <2>1 DEF Reached
<1>2. \A c \in Cleaners : ReadRows(c)'
  <2>. SUFFICES ASSUME NEW c \in Cleaners, cleaner[c].at = "commit"
       PROVE  ReadRows(c)'
    BY DEF ReadRows
  <2>1. cleaner[c].job \in Jobs /\ ReadRows(c)
    BY DEF OutcomeInv, JobInv, WellPlaced
  <2>. QED  BY <2>1 DEF ReadRows
<1>3. JobsExist'
  <2>1. lock.job \in Jobs \cup {NoJob}
    BY DEF OutcomeInv, JobInv, TypeOK, LockRecord
  <2>2. \A c \in Cleaners : cleaner[c].at # "idle" => cleaner[c].job \in Jobs
    BY DEF OutcomeInv, JobInv, WellPlaced
  <2>. QED  BY <2>1, <2>2 DEF OutcomeInv, JobsExist
<1>4. SucceededMeansCollected'
  BY DEF OutcomeInv, SucceededMeansCollected
<1>. QED  BY <1>1, <1>2, <1>3, <1>4 DEF OutcomeInv

\* Writing a result other than NONE into a row of a job keeps the rows of jobs.
LEMMA RowWritten ==
  ASSUME OutcomeInv, NEW j \in Jobs, NEW w \in RowsOf(j), NEW status,
         status # "NONE", jobRow' = [jobRow EXCEPT ![j][w] = status],
         collected \subseteq collected',
         status \in Success => w \in collected'
  PROVE  /\ \A i \in Jobs : RowsOf(i)' = RowsOf(i)
         /\ ReportedCollected'
<1>1. \A i \in Jobs, v \in Rows :
        jobRow'[i][v] = IF i = j /\ v = w THEN status ELSE jobRow[i][v]
  BY DEF OutcomeInv, JobInv, TypeOK
<1>2. w \in Rows /\ jobRow[j][w] # "NONE"
  BY DEF RowsOf
<1>3. \A i \in Jobs : RowsOf(i)' = RowsOf(i)
  BY <1>1, <1>2 DEF RowsOf
<1>4. ReportedCollected'
  BY <1>1 DEF OutcomeInv, ReportedCollected
<1>. QED  BY <1>3, <1>4

\* Nothing reported changes where no row is written.
LEMMA RowsUnwritten ==
  ASSUME OutcomeInv, UNCHANGED jobRow, collected \subseteq collected'
  PROVE  /\ \A i \in Jobs : RowsOf(i)' = RowsOf(i)
         /\ ReportedCollected'
  BY DEF RowsOf, OutcomeInv, ReportedCollected

\* The record of a runner after its step, field by field.
LEMMA RunnerFields ==
  ASSUME OutcomeInv, NEW j \in Jobs
  PROVE  /\ Reached(j) /\ JobInv
         /\ runner \in [Jobs -> RunnerRecord]
         /\ runner[j].row \in Nat /\ runner[j].failed \in Nat
         /\ runner[j].succeeded \in Nat
         /\ runner[j].at # "none" => job[j].status # "NONE"
         /\ Rows \subseteq Nat
<1>1. Reached(j) /\ JobInv /\ runner \in [Jobs -> RunnerRecord]
  BY DEF OutcomeInv, JobInv, TypeOK
<1>2. Rows \subseteq Nat
  BY DEF Rows
<1>. QED  BY <1>1, <1>2, RunnerTyped, RunnerHasJob

-----------------------------------------------------------------------------
\* A runner that starts has passed no row.
LEMMA StartOutcome ==
  ASSUME OutcomeInv, NEW j \in Jobs, RunnerLoad(j) \/ RunnerStart(j)
  PROVE  OutcomeInv'
<1>1. JobInv'
  BY RunnerLoadInv, RunnerStartInv DEF OutcomeInv
<1>2. CASE RunnerLoad(j)
  <2>1. runner'[j].at \in {"start", "done"}
    BY <1>2, RunnerFields, StoppedTyped DEF RunnerLoad, RunnerRecord
  <2>. QED
    BY <1>1, <1>2, <2>1, OutcomeKept, RowsUnwritten, RunnerFields
       DEF RunnerLoad, Reached
<1>3. CASE RunnerStart(j)
  <2>1. /\ runner'[j].at = "check" /\ runner'[j].row = 0
    BY <1>3, RunnerFields, RunnerTyped DEF RunnerStart, RunnerRecord, Counted
  <2>2. Reached(j)'
    BY <1>3, <2>1, RunnerFields DEF Reached, RowsOf, Rows
  <2>3. \A i \in Jobs : /\ job[i].status # "NONE" => job'[i].status # "NONE"
                        /\ job'[i].status = "SUCCEEDED" => job[i].status = "SUCCEEDED"
    BY <1>3 DEF RunnerStart, OutcomeInv, JobInv, TypeOK
  <2>4. \A i \in Jobs : i # j => runner'[i] = runner[i]
    BY <1>3 DEF RunnerStart
  <2>. QED
    BY <1>1, <1>3, <2>2, <2>3, <2>4, OutcomeKept, RowsUnwritten DEF RunnerStart
<1>. QED  BY <1>2, <1>3

\* A runner that goes on takes the first row after those it has passed; one that
\* has passed them all without a failure has them all collected.
LEMMA CheckOutcome ==
  ASSUME OutcomeInv, NEW j \in Jobs, RunnerCheck(j)
  PROVE  OutcomeInv'
<1>. DEFINE left == {w \in RowsOf(j) : w > runner[j].row}
<1>1. JobInv'
  BY RunnerCheckInv DEF OutcomeInv
<1>2. runner[j].failed = 0 => \A w \in RowsOf(j) \ left : w \in collected
  <2>. SUFFICES ASSUME runner[j].failed = 0, NEW w \in RowsOf(j), w \notin left
       PROVE  w \in collected
    OBVIOUS
  <2>1. w \in Nat /\ runner[j].row \in Nat /\ ~ (w > runner[j].row)
    BY RunnerFields DEF RowsOf
  <2>2. w < runner[j].row \/ w = runner[j].row
    BY <2>1
  <2>. QED  BY <2>2, RunnerFields DEF RunnerCheck, Reached
<1>3. Reached(j)'
  <2>1. CASE job[j].status = "CANCELLED"
    <3>1. runner'[j].at = "finish" /\ runner'[j].result = "CANCELLED"
      BY <2>1, RunnerFields DEF RunnerCheck, RunnerRecord
    <3>. QED  BY <3>1 DEF Reached
  <2>2. CASE job[j].status # "CANCELLED" /\ left = {}
    <3>1. /\ runner'[j].at = "finish"
          /\ runner'[j].result = Resolve(runner[j].succeeded, runner[j].failed)
      BY <2>2, RunnerFields DEF RunnerCheck, RunnerRecord
    <3>2. runner'[j].result = "SUCCEEDED" => RowsOf(j) \subseteq collected
      BY <1>2, <2>2, <3>1 DEF Resolve
    <3>3. RowsOf(j)' = RowsOf(j) /\ collected' = collected
      BY DEF RunnerCheck, RowsOf
    <3>. QED  BY <3>1, <3>2, <3>3 DEF Reached
  <2>3. CASE job[j].status # "CANCELLED" /\ left # {}
    <3>1. PICK w \in left :
            /\ \A v \in left : w <= v
            /\ runner' = [runner EXCEPT ![j].at = "take", ![j].row = w,
                                        ![j].result = "NONE"]
      BY <2>3 DEF RunnerCheck
    <3>2. /\ runner'[j].at = "take" /\ runner'[j].row = w
          /\ runner'[j].failed = runner[j].failed
      BY <3>1, RunnerFields DEF RunnerRecord
    <3>3. \A v \in RowsOf(j) : v < w => v \notin left
      BY <3>1, RunnerFields DEF RowsOf
    <3>4. RowsOf(j)' = RowsOf(j) /\ collected' = collected
      BY DEF RunnerCheck, RowsOf
    <3>. QED  BY <1>2, <3>1, <3>2, <3>3, <3>4 DEF Reached
  <2>. QED  BY <2>1, <2>2, <2>3
<1>4. \A i \in Jobs : i # j => runner'[i] = runner[i]
  BY RunnerFields DEF RunnerCheck
<1>. QED
  BY <1>1, <1>3, <1>4, OutcomeKept, RowsUnwritten DEF RunnerCheck

\* A row is skipped only if it has been collected.
LEMMA TakeOutcome ==
  ASSUME OutcomeInv, NEW j \in Jobs, RunnerTakeRow(j)
  PROVE  OutcomeInv'
<1>1. JobInv'
  BY RunnerTakeRowInv DEF OutcomeInv
<1>2. runner[j].row \in RowsOf(j)
  BY RunnerFields DEF RunnerTakeRow, Reached
<1>3. (\A i \in Jobs : RowsOf(i)' = RowsOf(i)) /\ ReportedCollected'
  <2>1. /\ jobRow' = [jobRow EXCEPT ![j][runner[j].row] = "RUNNING"]
        /\ collected \subseteq collected' /\ "RUNNING" \notin Success
    BY DEF RunnerTakeRow, Success
  <2>. QED  BY <1>2, <2>1, RowWritten
<1>4. /\ runner'[j].row = runner[j].row /\ runner'[j].failed = runner[j].failed
      /\ \/ runner'[j].at = "collect"
         \/ /\ runner'[j].at = "mark"
            /\ runner'[j].result \in Success => runner[j].row \in collected
  BY RunnerFields DEF RunnerTakeRow, RunnerRecord, Success
<1>5. Reached(j)'
  BY <1>3, <1>4, RunnerFields DEF RunnerTakeRow, Reached
<1>6. \A i \in Jobs : i # j => runner'[i] = runner[i]
  BY RunnerFields DEF RunnerTakeRow
<1>. QED  BY <1>1, <1>3, <1>5, <1>6, OutcomeKept DEF RunnerTakeRow

\* A row that succeeds has been collected.
LEMMA CollectOutcome ==
  ASSUME OutcomeInv, NEW j \in Jobs, RunnerCollect(j)
  PROVE  OutcomeInv'
<1>1. JobInv'
  BY RunnerCollectInv DEF OutcomeInv
<1>2. collected \subseteq collected'
  BY DEF RunnerCollect
<1>3. (\A i \in Jobs : RowsOf(i)' = RowsOf(i)) /\ ReportedCollected'
  BY <1>2, RowsUnwritten DEF RunnerCollect
<1>4. /\ runner'[j].row = runner[j].row /\ runner'[j].failed = runner[j].failed
      /\ runner'[j].at = "mark"
      /\ runner'[j].result \in Success => runner[j].row \in collected'
  BY RunnerFields DEF RunnerCollect, RunnerRecord, Success
<1>5. Reached(j)'
  BY <1>2, <1>3, <1>4, RunnerFields DEF RunnerCollect, Reached
<1>6. \A i \in Jobs : i # j => runner'[i] = runner[i]
  BY RunnerFields DEF RunnerCollect
<1>. QED  BY <1>1, <1>2, <1>3, <1>5, <1>6, OutcomeKept DEF RunnerCollect

\* A counted row with no failure so far has been collected.
LEMMA MarkOutcome ==
  ASSUME OutcomeInv, NEW j \in Jobs, RunnerMark(j) \/ RunnerMarkFails(j)
  PROVE  OutcomeInv'
<1>1. JobInv'
  BY RunnerMarkInv, RunnerMarkFailsInv DEF OutcomeInv
<1>2. CASE RunnerMark(j)
  <2>1. /\ runner[j].row \in RowsOf(j) /\ runner[j].result \in RowResult
        /\ runner[j].result \in Success => runner[j].row \in collected
    BY <1>2, RunnerFields, RunnerTyped DEF RunnerMark, Reached, Resulted
  <2>2. (\A i \in Jobs : RowsOf(i)' = RowsOf(i)) /\ ReportedCollected'
    <3>1. /\ jobRow' = [jobRow EXCEPT ![j][runner[j].row] = runner[j].result]
          /\ collected' = collected /\ runner[j].result # "NONE"
      BY <1>2, <2>1 DEF RunnerMark, RowResult
    <3>. QED  BY <2>1, <3>1, RowWritten
  <2>3. /\ runner'[j].at = "flush" /\ runner'[j].row = runner[j].row
        /\ runner'[j].failed = IF runner[j].result = "FAILED"
                               THEN runner[j].failed + 1 ELSE runner[j].failed
    BY <1>2, RunnerFields DEF RunnerMark, RunnerRecord
  <2>4. runner'[j].failed = 0 =>
            runner[j].failed = 0 /\ runner[j].result \in Success
    BY <2>1, <2>3, RunnerFields DEF RowResult, Success
  <2>5. Reached(j)'
    BY <1>2, <2>1, <2>2, <2>3, <2>4, RunnerFields DEF RunnerMark, Reached
  <2>6. \A i \in Jobs : i # j => runner'[i] = runner[i]
    BY <1>2, RunnerFields DEF RunnerMark
  <2>. QED  BY <1>1, <1>2, <2>2, <2>5, <2>6, OutcomeKept DEF RunnerMark
<1>3. CASE RunnerMarkFails(j)
  <2>1. /\ runner'[j].at = "mark" /\ runner'[j].row = runner[j].row
        /\ runner'[j].failed = runner[j].failed /\ runner'[j].result = "FAILED"
    BY <1>3, RunnerFields DEF RunnerMarkFails, RunnerRecord
  <2>2. (\A i \in Jobs : RowsOf(i)' = RowsOf(i)) /\ ReportedCollected'
    BY <1>3, RowsUnwritten DEF RunnerMarkFails
  <2>3. Reached(j)'
    BY <1>3, <2>1, <2>2, RunnerFields DEF RunnerMarkFails, Reached, Success
  <2>4. \A i \in Jobs : i # j => runner'[i] = runner[i]
    BY <1>3, RunnerFields DEF RunnerMarkFails
  <2>. QED  BY <1>1, <1>3, <2>2, <2>3, <2>4, OutcomeKept DEF RunnerMarkFails
<1>. QED  BY <1>2, <1>3

\* Progress keeps the status of the job and what the runner knows.
LEMMA FlushOutcome ==
  ASSUME OutcomeInv, NEW j \in Jobs,
         RunnerFlush(j) \/ RunnerExtend(j) \/ RunnerSkipFlush(j)
  PROVE  OutcomeInv'
<1>1. JobInv'
  BY RunnerFlushInv, RunnerExtendInv, RunnerSkipFlushInv DEF OutcomeInv
<1>2. /\ runner'[j].at \in {"extend", "check"} /\ runner'[j].row = runner[j].row
      /\ runner'[j].failed = runner[j].failed /\ runner[j].at \in {"flush", "extend"}
  BY RunnerFields DEF RunnerFlush, RunnerExtend, RunnerSkipFlush, RunnerRecord
<1>3. (\A i \in Jobs : RowsOf(i)' = RowsOf(i)) /\ ReportedCollected'
      /\ UNCHANGED <<collected, cleaner>>
  BY RowsUnwritten DEF RunnerFlush, RunnerExtend, RunnerSkipFlush
<1>4. Reached(j)'
  BY <1>2, <1>3, RunnerFields DEF Reached
<1>5. \A i \in Jobs : i # j => runner'[i] = runner[i]
  BY RunnerFields DEF RunnerFlush, RunnerExtend, RunnerSkipFlush
<1>6. \A i \in Jobs : job'[i].status = job[i].status
  <2>1. CASE RunnerFlush(j)
    <3>1. job \in [Jobs -> JobRecord]
      BY DEF OutcomeInv, JobInv, TypeOK
    <3>2. \A i \in Jobs :
            job'[i] = IF i = j THEN [job[j] EXCEPT !.succeeded = runner[j].succeeded,
                                                  !.failed = runner[j].failed]
                      ELSE job[i]
      BY <2>1, <3>1 DEF RunnerFlush
    <3>. QED  BY <3>1, <3>2 DEF JobRecord
  <2>2. CASE RunnerExtend(j) \/ RunnerSkipFlush(j)
    BY <2>2 DEF RunnerExtend, RunnerSkipFlush
  <2>. QED  BY <2>1, <2>2
<1>7. lock'.job = lock.job
  BY DEF RunnerFlush, RunnerExtend, RunnerSkipFlush, NoLock
<1>. QED  BY <1>1, <1>3, <1>4, <1>5, <1>6, <1>7, OutcomeKept

\* A job becomes SUCCEEDED by a runner that knows all rows to be collected.
LEMMA EndOutcome ==
  ASSUME OutcomeInv, NEW j \in Jobs,
         RunnerFinish(j) \/ RunnerUnlock(j) \/ RunnerError(j) \/ RunnerDies(j)
  PROVE  OutcomeInv'
<1>1. JobInv'
  BY RunnerFinishInv, RunnerUnlockInv, RunnerErrorInv, RunnerDiesInv DEF OutcomeInv
<1>2. (\A i \in Jobs : RowsOf(i)' = RowsOf(i)) /\ ReportedCollected'
      /\ UNCHANGED <<collected, cleaner>>
  BY RowsUnwritten DEF RunnerFinish, RunnerUnlock, RunnerError, RunnerDies
<1>3. \/ runner'[j].at \in {"unlock", "done"}
      \/ runner'[j].at = "finish" /\ runner'[j].result = "FAILED"
  <2>1. CASE RunnerFinish(j)
    BY <2>1, RunnerFields DEF RunnerFinish, RunnerRecord
  <2>2. CASE RunnerUnlock(j) \/ RunnerDies(j)
    <3>1. runner'[j] = Stopped
      BY <2>2, RunnerFields DEF RunnerUnlock, RunnerDies
    <3>. QED  BY <3>1, StoppedTyped
  <2>3. CASE RunnerError(j)
    BY <2>3, RunnerFields DEF RunnerError, RunnerRecord
  <2>. QED  BY <2>1, <2>2, <2>3
<1>4. Reached(j)'
  BY <1>3 DEF Reached
<1>5. \A i \in Jobs : i # j => runner'[i] = runner[i]
  BY RunnerFields DEF RunnerFinish, RunnerUnlock, RunnerError, RunnerDies
<1>6. \A i \in Jobs :
        /\ job[i].status # "NONE" => job'[i].status # "NONE"
        /\ job'[i].status = "SUCCEEDED" =>
              job[i].status = "SUCCEEDED" \/ RowsOf(i) \subseteq collected
  <2>1. CASE RunnerFinish(j)
    <3>1. /\ runner[j].result \in Ended
          /\ runner[j].result = "SUCCEEDED" => RowsOf(j) \subseteq collected
      BY <2>1, RunnerFields, RunnerTyped DEF RunnerFinish, Reached, Resulted
    <3>2. job \in [Jobs -> JobRecord]
      BY DEF OutcomeInv, JobInv, TypeOK
    <3>. QED  BY <2>1, <3>1, <3>2 DEF RunnerFinish, Ended
  <2>2. CASE UNCHANGED job
    BY <2>2
  <2>. QED  BY <2>1, <2>2 DEF RunnerUnlock, RunnerError, RunnerDies
<1>7. lock'.job \in {lock.job, NoJob}
  BY DEF RunnerFinish, RunnerUnlock, RunnerError, RunnerDies, Released, NoLock
<1>. QED  BY <1>1, <1>2, <1>4, <1>5, <1>6, <1>7, OutcomeKept

-----------------------------------------------------------------------------
\* A new job has rows of its own, none of which is reported.
LEMMA CreateOutcome ==
  ASSUME OutcomeInv, NEW j \in Jobs, NEW rows \in SUBSET Rows, Create(j, rows)
  PROVE  OutcomeInv'
<1>1. JobInv'
  BY CreateInv DEF OutcomeInv
<1>2. \A i \in Jobs : i # j => /\ RowsOf(i)' = RowsOf(i)
                             /\ runner'[i] = runner[i] /\ job'[i] = job[i]
  BY DEF Create, RowsOf, OutcomeInv, JobInv, TypeOK
<1>3. runner'[j].at = "load" /\ job'[j].status = "PENDING" /\ lock'.job = j
  BY DEF Create, OutcomeInv, JobInv, TypeOK, RunnerRecord, JobRecord, NoLock
<1>4. UNCHANGED <<collected, cleaner>> /\ job[j].status = "NONE"
  BY DEF Create
<1>5. \A i \in Jobs : Reached(i)'
  BY <1>2, <1>3, <1>4 DEF Reached, OutcomeInv
<1>6. \A c \in Cleaners : cleaner[c].at # "idle" =>
            cleaner[c].job \in Jobs /\ cleaner[c].job # j
  BY <1>4 DEF OutcomeInv, JobsExist, JobInv, WellPlaced
<1>7. \A c \in Cleaners : ReadRows(c)'
  BY <1>2, <1>4, <1>6 DEF OutcomeInv, ReadRows
<1>8. JobsExist'
  BY <1>2, <1>3, <1>4, <1>6 DEF OutcomeInv, JobsExist
<1>9. ReportedCollected'
  BY <1>4 DEF Create, OutcomeInv, JobInv, TypeOK, ReportedCollected, Success
<1>10. SucceededMeansCollected'
  BY <1>2, <1>3, <1>4 DEF OutcomeInv, SucceededMeansCollected
<1>. QED  BY <1>1, <1>5, <1>7, <1>8, <1>9, <1>10 DEF OutcomeInv

\* Expiry, cancellations and single requests report no row and no success.
LEMMA OtherOutcome ==
  ASSUME OutcomeInv, JobInv', NEW j \in Jobs,
         UNCHANGED <<runner, jobRow, cleaner>>, collected \subseteq collected',
         lock'.job \in {lock.job, NoJob},
         \A i \in Jobs : /\ job[i].status # "NONE" => job'[i].status # "NONE"
                         /\ job'[i].status = "SUCCEEDED" => job[i].status = "SUCCEEDED"
  PROVE  OutcomeInv'
<1>1. (\A i \in Jobs : RowsOf(i)' = RowsOf(i)) /\ ReportedCollected'
  BY RowsUnwritten
<1>2. Reached(j)'
  BY <1>1 DEF OutcomeInv, Reached
<1>. QED  BY <1>1, <1>2, OutcomeKept

\* The lock expires, a job is cancelled, or a row is collected by hand.
LEMMA RequestOutcome ==
  ASSUME OutcomeInv, NEW j \in Jobs, NEW w \in Rows,
         \/ Expire
         \/ CancelRead(j) \/ CancelWrite(j) \/ CancelUnlock(j) \/ CancelDies(j)
         \/ w \in Singles /\ (SingleCheck(w) \/ SingleCollect(w))
  PROVE  OutcomeInv'
<1>1. JobInv'
  BY ExpireInv, CancelInv, SingleInv DEF OutcomeInv
<1>2. UNCHANGED <<runner, jobRow, cleaner>> /\ collected \subseteq collected'
  BY DEF Expire, CancelRead, CancelWrite, CancelUnlock, CancelDies, SingleCheck,
     SingleCollect
<1>3. lock'.job \in {lock.job, NoJob}
  BY DEF Expire, CancelRead, CancelWrite, CancelUnlock, CancelDies, SingleCheck,
     SingleCollect, Released, NoLock, OutcomeInv, JobInv, TypeOK, LockRecord
<1>4. \A i \in Jobs : /\ job[i].status # "NONE" => job'[i].status # "NONE"
                      /\ job'[i].status = "SUCCEEDED" => job[i].status = "SUCCEEDED"
  <2>1. CASE CancelWrite(j)
    <3>1. job \in [Jobs -> JobRecord]
      BY DEF OutcomeInv, JobInv, TypeOK
    <3>2. \A i \in Jobs : job'[i] = IF i = j
                THEN [job[j] EXCEPT !.status = "CANCELLED"] ELSE job[i]
      BY <2>1, <3>1 DEF CancelWrite
    <3>. QED  BY <3>1, <3>2 DEF JobRecord
  <2>2. CASE UNCHANGED job
    BY <2>2
  <2>. QED
    BY <2>1, <2>2 DEF Expire, CancelRead, CancelUnlock, CancelDies, SingleCheck,
       SingleCollect
<1>. QED  BY <1>1, <1>2, <1>3, <1>4, OtherOutcome

-----------------------------------------------------------------------------
\* A reconciliation changes its own record only, and what the others have read
\* stays true while no row is given to a job or taken from one.
LEMMA CleanerMoves ==
  ASSUME OutcomeInv, JobInv', NEW c \in Cleaners, ReadRows(c)',
         \A d \in Cleaners : d # c => cleaner'[d] = cleaner[d],
         cleaner'[c].at # "idle" => job'[cleaner'[c].job].status # "NONE",
         UNCHANGED <<runner, collected>>, lock'.job \in {lock.job, NoJob},
         \A i \in Jobs : RowsOf(i)' = RowsOf(i),
         \A i \in Jobs : job[i].status # "NONE" => job'[i].status # "NONE",
         ReportedCollected', SucceededMeansCollected'
  PROVE  OutcomeInv'
<1>1. \A i \in Jobs : Reached(i)'
  BY DEF OutcomeInv, Reached
<1>2. ASSUME NEW d \in Cleaners  PROVE ReadRows(d)'
  <2>1. CASE d = c
    BY <2>1
  <2>2. CASE d # c
    BY <2>2 DEF OutcomeInv, JobInv, WellPlaced, ReadRows
  <2>. QED  BY <2>1, <2>2
<1>3. JobsExist'
  <2>1. lock.job \in Jobs \cup {NoJob}
    BY DEF OutcomeInv, JobInv, TypeOK, LockRecord
  <2>2. \A d \in Cleaners : cleaner[d].at # "idle" => cleaner[d].job \in Jobs
    BY DEF OutcomeInv, JobInv, WellPlaced
  <2>. QED  BY <2>1, <2>2 DEF OutcomeInv, JobsExist
<1>. QED  BY <1>1, <1>2, <1>3 DEF OutcomeInv

\* A reconciliation starts with the job of an expired lock.
LEMMA ReconcileReadOutcome ==
  ASSUME OutcomeInv, NEW c \in Cleaners, ReconcileRead(c)
  PROVE  OutcomeInv'
<1>1. JobInv'
  BY ReconcileReadInv DEF OutcomeInv
<1>2. /\ cleaner'[c].at = "snapshot" /\ cleaner'[c].job = lock.job
      /\ \A d \in Cleaners : d # c => cleaner'[d] = cleaner[d]
  BY DEF ReconcileRead, OutcomeInv, JobInv, TypeOK, IdleCleaner
<1>3. lock'.job = lock.job /\ lock.job # NoJob
  BY DEF ReconcileRead, OutcomeInv, JobInv, TypeOK, LockRecord
<1>4. (\A i \in Jobs : RowsOf(i)' = RowsOf(i)) /\ ReportedCollected'
  BY RowsUnwritten DEF ReconcileRead
<1>5. SucceededMeansCollected' /\ UNCHANGED <<runner, collected, job>>
  BY <1>4 DEF ReconcileRead, OutcomeInv, SucceededMeansCollected
<1>6. ReadRows(c)' /\ job[lock.job].status # "NONE"
  BY <1>2, <1>3 DEF ReadRows, OutcomeInv, JobsExist
<1>. QED  BY <1>1, <1>2, <1>3, <1>4, <1>5, <1>6, CleanerMoves

\* The rows it reads are those of the job, and what they report is so.
LEMMA ReconcileSnapshotOutcome ==
  ASSUME OutcomeInv, NEW c \in Cleaners, ReconcileSnapshot(c)
  PROVE  OutcomeInv'
<1>. DEFINE j == cleaner[c].job
<1>1. JobInv'
  BY ReconcileSnapshotInv DEF OutcomeInv
<1>2. j \in Jobs /\ job[j].status # "NONE"
  BY DEF ReconcileSnapshot, OutcomeInv, JobInv, WellPlaced, JobsExist
<1>3. /\ cleaner'[c].job = j /\ cleaner'[c].rows = jobRow[j]
      /\ \A d \in Cleaners : d # c => cleaner'[d] = cleaner[d]
  BY DEF ReconcileSnapshot, OutcomeInv, JobInv, TypeOK, CleanerRecord
<1>4. UNCHANGED <<runner, collected, job, lock, jobRow>>
  BY DEF ReconcileSnapshot
<1>5. (\A i \in Jobs : RowsOf(i)' = RowsOf(i)) /\ ReportedCollected'
  BY <1>4, RowsUnwritten
<1>6. SucceededMeansCollected'
  BY <1>4, <1>5 DEF OutcomeInv, SucceededMeansCollected
<1>7. ReadRows(c)'
  BY <1>2, <1>3, <1>4 DEF ReadRows, RowsOf, OutcomeInv, ReportedCollected
<1>. QED  BY <1>1, <1>2, <1>3, <1>4, <1>5, <1>6, <1>7, CleanerMoves

\* A reconciliation that counts no failure has read success in every row.
LEMMA NoFailureRead ==
  ASSUME OutcomeInv, NEW c \in Cleaners, cleaner[c].at = "commit",
         Cardinality(StaleFailed(cleaner[c].rows)) = 0
  PROVE  RowsOf(cleaner[c].job) \subseteq collected
<1>1. IsFiniteSet(Rows) /\ Cardinality(Rows) = LastRow
  BY FS_Interval, JobConstants DEF Rows
<1>2. StaleFailed(cleaner[c].rows) = {}
  <2>1. IsFiniteSet(StaleFailed(cleaner[c].rows))
    BY <1>1, FS_Subset DEF StaleFailed
  <2>. QED  BY <2>1, FS_EmptySet
<1>3. cleaner[c].rows \in [Rows -> RowStatus] /\ ReadRows(c)
  BY DEF OutcomeInv, JobInv, TypeOK, CleanerRecord
<1>4. \A w \in Rows : cleaner[c].rows[w] \in Success \cup {"NONE"}
  BY <1>2, <1>3 DEF StaleFailed, RowStatus, Unfinished, RowResult, Success
<1>. QED  BY <1>3, <1>4 DEF ReadRows

\* It reports success of a job only without a failure.
LEMMA ReconcileCommitOutcome ==
  ASSUME OutcomeInv, NEW c \in Cleaners, ReconcileCommit(c)
  PROVE  OutcomeInv'
<1>. DEFINE j == cleaner[c].job
            succeeded == Cardinality({w \in Rows : cleaner[c].rows[w] = "COLLECTED"})
            failed == Cardinality(StaleFailed(cleaner[c].rows))
            result == [status |-> Resolve(succeeded, failed),
                       succeeded |-> succeeded, failed |-> failed]
<1>1. JobInv'
  BY ReconcileCommitInv DEF OutcomeInv
<1>2. j \in Jobs /\ ReadRows(c) /\ cleaner[c].at = "commit"
  BY DEF ReconcileCommit, OutcomeInv, JobInv, WellPlaced
<1>3. \A i \in Jobs, w \in Rows :
        \/ jobRow'[i][w] = jobRow[i][w]
        \/ i = j /\ w \in RowsOf(j) /\ jobRow'[i][w] = "FAILED"
  BY <1>2 DEF ReconcileCommit, ReadRows, Unfinished, OutcomeInv, JobInv, TypeOK
<1>4. \A i \in Jobs : RowsOf(i)' = RowsOf(i)
  BY <1>3 DEF RowsOf
<1>5. ReportedCollected' /\ UNCHANGED <<runner, collected>>
  BY <1>3 DEF ReconcileCommit, OutcomeInv, ReportedCollected, Success
<1>6. lock'.job \in {lock.job, NoJob}
  BY DEF ReconcileCommit, LockAfterReconcile, NoLock
<1>7. /\ cleaner'[c].at = "idle"
      /\ \A d \in Cleaners : d # c => cleaner'[d] = cleaner[d]
  BY DEF ReconcileCommit, IdleCleaner, OutcomeInv, JobInv, TypeOK
<1>8. job' = job \/ job' = [job EXCEPT ![j] = result]
  BY DEF ReconcileCommit
<1>9. /\ result.status \in Ended
      /\ result.status = "SUCCEEDED" => RowsOf(j) \subseteq collected
  BY <1>2, NoFailureRead DEF Resolve, Ended
<1>. HIDE DEF result
<1>10. \A i \in Jobs : job'[i] = job[i] \/ (i = j /\ job'[i] = result)
  BY <1>8 DEF OutcomeInv, JobInv, TypeOK
<1>11. \A i \in Jobs : job[i].status # "NONE" => job'[i].status # "NONE"
  BY <1>9, <1>10 DEF Ended
<1>12. SucceededMeansCollected'
  BY <1>4, <1>5, <1>9, <1>10 DEF OutcomeInv, SucceededMeansCollected
<1>13. ReadRows(c)'
  BY <1>7 DEF ReadRows
<1>. QED
  BY <1>1, <1>4, <1>5, <1>6, <1>7, <1>11, <1>12, <1>13, CleanerMoves

-----------------------------------------------------------------------------
\* Every step keeps the invariant.
LEMMA NextOutcome == OutcomeInv /\ [Next]_vars => OutcomeInv'
<1>. SUFFICES ASSUME OutcomeInv, [Next]_vars  PROVE OutcomeInv'
  OBVIOUS
<1>1. ASSUME NEW j \in Jobs, \E rows \in SUBSET Rows : Create(j, rows)
      PROVE  OutcomeInv'
  BY <1>1, CreateOutcome
<1>2. ASSUME NEW j \in Jobs,
             RunnerStep(j) \/ RunnerMarkFails(j) \/ RunnerError(j) \/ RunnerDies(j)
      PROVE  OutcomeInv'
  BY <1>2, StartOutcome, CheckOutcome, TakeOutcome, CollectOutcome, MarkOutcome,
     FlushOutcome, EndOutcome DEF RunnerStep
<1>3. ASSUME NEW c \in Cleaners, CleanerStep(c)  PROVE OutcomeInv'
  BY <1>3, ReconcileReadOutcome, ReconcileSnapshotOutcome, ReconcileCommitOutcome
     DEF CleanerStep
<1>4. 1 \in Jobs /\ 1 \in Rows /\ Singles \subseteq Rows
  BY JobConstants DEF Jobs, Rows
<1>5. ASSUME Expire  PROVE OutcomeInv'
  BY <1>4, <1>5, RequestOutcome
<1>6. ASSUME NEW j \in Jobs,
             CancelRead(j) \/ CancelWrite(j) \/ CancelUnlock(j) \/ CancelDies(j)
      PROVE  OutcomeInv'
  BY <1>4, <1>6, RequestOutcome
<1>7. ASSUME NEW w \in Singles, SingleCheck(w) \/ SingleCollect(w)
      PROVE  OutcomeInv'
  BY <1>4, <1>7, RequestOutcome
<1>8. CASE UNCHANGED vars
  <2>1. JobInv'
    BY <1>8, StepInv DEF OutcomeInv
  <2>. QED
    BY <1>8, <2>1 DEF vars, OutcomeInv, Reached, ReadRows, RowsOf, JobsExist,
       ReportedCollected, SucceededMeansCollected
<1>. QED  BY <1>1, <1>2, <1>3, <1>5, <1>6, <1>7, <1>8 DEF Next

\* A job reported as SUCCEEDED has a collected transaction for each of its rows,
\* whoever finalised it: the runner from its counters, or the reconciliation from
\* the rows it had read before the runner went on.
THEOREM SuccessIsReal == Spec => []SucceededMeansCollected
<1>1. OutcomeInv => SucceededMeansCollected
  BY DEF OutcomeInv
<1>. QED  BY InitOutcome, NextOutcome, <1>1, PTL DEF Spec

-----------------------------------------------------------------------------
(* Counts: what a job reports agrees with the results of its rows           *)

Finished == Ended \ {"CANCELLED"}
Unended == Active \cup {"CANCELLED"}

Open(j) == {w \in Rows : jobRow[j][w] \in Unfinished}
Collected(j) == Cardinality(With(j, "COLLECTED"))
Failed(j) == Cardinality(With(j, "FAILED"))

\* A job with a lock has had a runner.  What a runner has counted is what is written in the
\* rows, and the rows it has not reached are open.
Tallied(j) ==
    LET q == runner[j] IN
    /\ q.at = "none" => lock.job # j /\ ~ q.failing
    /\ q.at \in {"load", "start"} => RowsOf(j) \subseteq Open(j)
    /\ q.at \in {"check", "flush", "extend"} =>
         \A w \in RowsOf(j) : w \in Open(j) <=> w > q.row
    /\ q.at \in {"take", "collect", "mark"} =>
         \A w \in RowsOf(j) : w \in Open(j) <=> w >= q.row
    /\ q.at \in {"load", "start", "check", "take", "collect", "mark", "flush", "extend"} =>
         job[j].status \in Unended /\ ~ q.failing
    /\ Living(j) => q.succeeded = Collected(j)
    /\ Living(j) /\ ~ q.failing => q.failed = Failed(j)
    /\ Living(j) /\ q.failing =>
         q.failed = Cardinality(RowsOf(j)) - Collected(j)
    /\ q.at = "finish" =>
         \/ q.result = "CANCELLED" /\ ~ q.failing /\ job[j].status = "CANCELLED"
         \/ q.result = "FAILED" /\ q.failing
         \/ /\ q.result = Resolve(q.succeeded, q.failed) /\ ~ q.failing
            /\ Open(j) = {} /\ job[j].status \in Unended

\* What JobResultMatchesRows says of one job.
Agreed(j) ==
    job[j].status \in Finished =>
        LET rows == Cardinality(RowsOf(j))
            failed == Failed(j)
            skipped == Cardinality(With(j, "SKIPPED"))
        IN
        /\ job[j].succeeded = Collected(j)
        /\ failed <= job[j].failed /\ job[j].failed <= rows - Collected(j)
        /\ job[j].succeeded + job[j].failed + skipped >= rows
        /\ job[j].status = "SUCCEEDED" => job[j].failed = 0
        /\ job[j].status = "PARTIAL" => job[j].succeeded > 0 /\ job[j].failed > 0

\* A lock expires, and a reconciliation begins, when the runner has ended.
RunnerOver ==
    /\ lock.expired /\ lock.job \in Jobs \ SlowRunners =>
         runner[lock.job].at = "done"
    /\ \A c \in Cleaners :
         cleaner[c].at # "idle" /\ cleaner[c].job \notin SlowRunners =>
            runner[cleaner[c].job].at = "done"

Settled(rows) ==
    [w \in Rows |-> IF rows[w] \in Unfinished THEN "FAILED" ELSE rows[w]]

\* The rows a reconciliation has read of an active job are still those of the
\* job, or it is settled as the reconciliation would settle it.
Current(c) ==
    LET q == cleaner[c] IN
    q.at = "commit" /\ q.active /\ q.job \notin SlowRunners =>
        \/ jobRow[q.job] = q.rows /\ job[q.job].status \in Unended
        \/ jobRow[q.job] = Settled(q.rows) /\ job[q.job].status \notin Active

TallyInv ==
    /\ RunnerOver
    /\ \A j \in Jobs \ SlowRunners : Tallied(j) /\ Agreed(j)
    /\ \A c \in Cleaners : Current(c)

-----------------------------------------------------------------------------
\* Each row of a job is open, collected, failed or skipped.
LEMMA RowsSplit ==
  ASSUME NEW r \in [Rows -> RowStatus]
  PROVE  LET of(results) == Cardinality({w \in Rows : r[w] \in results})
         IN  /\ of(Unfinished) \in Nat /\ of({"COLLECTED"}) \in Nat
             /\ of({"FAILED"}) \in Nat /\ of({"SKIPPED"}) \in Nat
             /\ of(Unfinished \cup {"FAILED"}) = of(Unfinished) + of({"FAILED"})
             /\ Cardinality({w \in Rows : r[w] # "NONE"})
                  = of({"COLLECTED"}) + of({"FAILED"}) + of({"SKIPPED"}) + of(Unfinished)
<1>. DEFINE in(results) == {w \in Rows : r[w] \in results}
<1>1. IsFiniteSet(Rows)
  BY FS_Interval, JobConstants DEF Rows
<1>2. ASSUME NEW results  PROVE in(results) \subseteq Rows /\ IsFiniteSet(in(results))
                               /\ Cardinality(in(results)) \in Nat
  <2>1. in(results) \in SUBSET Rows
    OBVIOUS
  <2>. HIDE DEF in
  <2>. QED  BY <1>1, <2>1, FS_Subset, FS_CardinalityType
<1>3. ASSUME NEW A, NEW B, A \cap B = {}
      PROVE  Cardinality(in(A \cup B)) = Cardinality(in(A)) + Cardinality(in(B))
  <2>1. in(A \cup B) = in(A) \cup in(B) /\ in(A) \cap in(B) = {}
    BY <1>3
  <2>. HIDE DEF in
  <2>2. Cardinality(in(A) \cap in(B)) = 0
    BY <2>1, FS_EmptySet
  <2>3. /\ IsFiniteSet(in(A)) /\ IsFiniteSet(in(B))
        /\ Cardinality(in(A)) \in Nat /\ Cardinality(in(B)) \in Nat
    BY <1>2
  <2>4. Cardinality(in(A) \cup in(B))
          = Cardinality(in(A)) + Cardinality(in(B)) - Cardinality(in(A) \cap in(B))
    BY <2>3, FS_Union
  <2>5. Cardinality(in(A \cup B)) = Cardinality(in(A) \cup in(B))
    BY <2>1
  <2>6. Cardinality(in(A \cup B)) = Cardinality(in(A)) + Cardinality(in(B)) - 0
    BY <2>2, <2>4, <2>5
  <2>7. \A a, b \in Nat : a + b - 0 = a + b
    OBVIOUS
  <2>. QED  BY <2>3, <2>6, <2>7
<1>4. {w \in Rows : r[w] # "NONE"}
        = in(({"COLLECTED"} \cup {"FAILED"}) \cup ({"SKIPPED"} \cup Unfinished))
  BY DEF RowStatus, RowResult, Unfinished
<1>. HIDE DEF in
<1>5. /\ Cardinality(in(({"COLLECTED"} \cup {"FAILED"}) \cup ({"SKIPPED"} \cup Unfinished)))
           = Cardinality(in({"COLLECTED"} \cup {"FAILED"}))
             + Cardinality(in({"SKIPPED"} \cup Unfinished))
      /\ Cardinality(in({"COLLECTED"} \cup {"FAILED"}))
           = Cardinality(in({"COLLECTED"})) + Cardinality(in({"FAILED"}))
      /\ Cardinality(in({"SKIPPED"} \cup Unfinished))
           = Cardinality(in({"SKIPPED"})) + Cardinality(in(Unfinished))
      /\ Cardinality(in(Unfinished \cup {"FAILED"}))
           = Cardinality(in(Unfinished)) + Cardinality(in({"FAILED"}))
  BY <1>3 DEF Unfinished
<1>6. /\ Cardinality(in(Unfinished)) \in Nat /\ Cardinality(in({"COLLECTED"})) \in Nat
      /\ Cardinality(in({"FAILED"})) \in Nat /\ Cardinality(in({"SKIPPED"})) \in Nat
  BY <1>2
<1>7. Cardinality({w \in Rows : r[w] # "NONE"})
        = Cardinality(in({"COLLECTED"})) + Cardinality(in({"FAILED"}))
          + Cardinality(in({"SKIPPED"})) + Cardinality(in(Unfinished))
  <2>. DEFINE c == Cardinality(in({"COLLECTED"}))
              f == Cardinality(in({"FAILED"}))
              s == Cardinality(in({"SKIPPED"}))
              u == Cardinality(in(Unfinished))
  <2>1. c \in Nat /\ f \in Nat /\ s \in Nat /\ u \in Nat
    BY <1>6
  <2>2. Cardinality({v \in Rows : r[v] # "NONE"}) = (c + f) + (s + u)
    BY <1>4, <1>5
  <2>. HIDE DEF c, f, s, u
  <2>3. (c + f) + (s + u) = c + f + s + u
    BY <2>1
  <2>. QED  BY <2>2, <2>3 DEF c, f, s, u
<1>. QED  BY <1>5, <1>6, <1>7 DEF in

\* The same of the rows of a job.
LEMMA JobSplit ==
  ASSUME TypeOK, NEW j \in Jobs
  PROVE  /\ Cardinality(Open(j)) \in Nat /\ Collected(j) \in Nat
         /\ Failed(j) \in Nat /\ Cardinality(With(j, "SKIPPED")) \in Nat
         /\ Cardinality(RowsOf(j)) = Collected(j) + Failed(j)
                + Cardinality(With(j, "SKIPPED")) + Cardinality(Open(j))
         /\ Open(j) \subseteq RowsOf(j)
<1>1. jobRow[j] \in [Rows -> RowStatus]
  BY DEF TypeOK
<1>2. /\ Open(j) = {w \in Rows : jobRow[j][w] \in Unfinished}
      /\ With(j, "COLLECTED") = {w \in Rows : jobRow[j][w] \in {"COLLECTED"}}
      /\ With(j, "FAILED") = {w \in Rows : jobRow[j][w] \in {"FAILED"}}
      /\ With(j, "SKIPPED") = {w \in Rows : jobRow[j][w] \in {"SKIPPED"}}
      /\ RowsOf(j) = {w \in Rows : jobRow[j][w] # "NONE"}
  BY DEF Open, With, RowsOf
<1>3. Open(j) \subseteq RowsOf(j)
  BY DEF Open, RowsOf, Unfinished
<1>. QED  BY <1>1, <1>2, <1>3, RowsSplit DEF Collected, Failed

\* A row that gets its result is counted once.
LEMMA RowCounted ==
  ASSUME TypeOK, NEW j \in Jobs, NEW w \in Open(j), NEW result \in RowResult,
         jobRow' = [jobRow EXCEPT ![j][w] = result]
  PROVE  /\ Open(j)' = Open(j) \ {w} /\ RowsOf(j)' = RowsOf(j)
         /\ Collected(j)' = IF result = "COLLECTED" THEN Collected(j) + 1 ELSE Collected(j)
         /\ Failed(j)' = IF result = "FAILED" THEN Failed(j) + 1 ELSE Failed(j)
<1>1. /\ w \in Rows /\ jobRow[j][w] \in Unfinished
      /\ \A v \in Rows : jobRow'[j][v] = IF v = w THEN result ELSE jobRow[j][v]
  BY DEF Open, TypeOK
<1>2. Open(j)' = Open(j) \ {w} /\ RowsOf(j)' = RowsOf(j)
  BY <1>1 DEF Open, RowsOf, RowResult, Unfinished
<1>3. ASSUME NEW s \in RowResult
      PROVE  /\ With(j, s)' = IF s = result THEN With(j, s) \cup {w} ELSE With(j, s)
             /\ w \notin With(j, s) /\ IsFiniteSet(With(j, s))
  <2>1. With(j, s)' = IF s = result THEN With(j, s) \cup {w} ELSE With(j, s)
    BY <1>1 DEF With, RowResult, Unfinished
  <2>2. w \notin With(j, s) /\ With(j, s) \in SUBSET Rows
    BY <1>1 DEF With, RowResult, Unfinished
  <2>3. IsFiniteSet(Rows)
    BY FS_Interval, JobConstants DEF Rows
  <2>. QED  BY <2>1, <2>2, <2>3, FS_Subset
<1>4. ASSUME NEW s \in RowResult
      PROVE  Cardinality(With(j, s))'
               = IF s = result THEN Cardinality(With(j, s)) + 1
                               ELSE Cardinality(With(j, s))
  BY <1>3, FS_AddElement
<1>5. "COLLECTED" \in RowResult /\ "FAILED" \in RowResult
  BY DEF RowResult
<1>. QED  BY <1>2, <1>4, <1>5 DEF Collected, Failed

\* Nothing is counted where no row of the job is written.
LEMMA RowsAlike ==
  ASSUME NEW j, jobRow'[j] = jobRow[j]
  PROVE  /\ Open(j)' = Open(j) /\ RowsOf(j)' = RowsOf(j)
         /\ Collected(j)' = Collected(j) /\ Failed(j)' = Failed(j)
         /\ Cardinality(With(j, "SKIPPED"))' = Cardinality(With(j, "SKIPPED"))
BY DEF Open, RowsOf, Collected, Failed, With

-----------------------------------------------------------------------------
\* What a step that is not one of a reconciliation leaves to be shown: the
\* counts of the one job it works for.
LEMMA TallyKept ==
  ASSUME JobInv, TallyInv, NEW j \in Jobs, Living(j) \/ runner[j].at = "none",
         \A i \in Jobs \ {j} : /\ runner'[i] = runner[i] /\ job'[i] = job[i]
                               /\ jobRow'[i] = jobRow[i],
         UNCHANGED cleaner,
         lock' = lock \/ (lock'.job \in {NoJob, j} /\ ~ lock'.expired),
         j \notin SlowRunners => Tallied(j)' /\ Agreed(j)'
  PROVE  TallyInv'
<1>1. RunnerOver'
  <2>1. lock'.expired /\ lock'.job \in Jobs \ SlowRunners => runner'[lock'.job].at = "done"
    BY DEF TallyInv, RunnerOver, Living
  <2>2. ASSUME NEW c \in Cleaners, cleaner[c].at # "idle", cleaner[c].job \notin SlowRunners
        PROVE  runner'[cleaner[c].job].at = "done"
    <3>1. cleaner[c].job \in Jobs /\ runner[cleaner[c].job].at = "done"
      BY <2>2 DEF TallyInv, RunnerOver, JobInv, WellPlaced
    <3>. QED  BY <3>1 DEF Living
  <2>. QED  BY <2>1, <2>2 DEF RunnerOver
<1>2. ASSUME NEW i \in Jobs \ SlowRunners, i # j
      PROVE  Tallied(i)' /\ Agreed(i)'
  <2>1. Tallied(i) /\ Agreed(i)
    BY DEF TallyInv
  <2>2. /\ runner'[i] = runner[i] /\ job'[i] = job[i] /\ jobRow'[i] = jobRow[i]
    BY <1>2
  <2>3. /\ Open(i)' = Open(i) /\ RowsOf(i)' = RowsOf(i)
        /\ Collected(i)' = Collected(i) /\ Failed(i)' = Failed(i)
        /\ Cardinality(With(i, "SKIPPED"))' = Cardinality(With(i, "SKIPPED"))
    BY <2>2, RowsAlike
  <2>4. lock.job # i => lock'.job # i
    BY <1>2 DEF Jobs, NoJob
  <2>. QED  BY <2>1, <2>2, <2>3, <2>4 DEF Tallied, Agreed, Living
<1>3. ASSUME NEW c \in Cleaners  PROVE Current(c)'
  <2>. SUFFICES ASSUME cleaner[c].at = "commit", cleaner[c].active,
                       cleaner[c].job \notin SlowRunners
                PROVE  Current(c)'
    BY DEF Current
  <2>1. cleaner[c].job \in Jobs /\ runner[cleaner[c].job].at = "done"
    BY DEF TallyInv, RunnerOver, JobInv, WellPlaced
  <2>2. cleaner[c].job # j
    BY <2>1 DEF Living
  <2>3. Current(c)
    BY DEF TallyInv
  <2>. QED  BY <2>1, <2>2, <2>3 DEF Current, Settled
<1>. QED  BY <1>1, <1>2, <1>3 DEF TallyInv

\* Such a step of a runner, where no row is written.
LEMMA TallySame ==
  ASSUME TypeOK, NEW j \in Jobs, Tallied(j), Agreed(j), jobRow' = jobRow
  PROVE  /\ Open(j)' = Open(j) /\ RowsOf(j)' = RowsOf(j)
         /\ Collected(j)' = Collected(j) /\ Failed(j)' = Failed(j)
         /\ job'[j] = job[j] => Agreed(j)'
         /\ job'[j].status \notin Finished => Agreed(j)'
         /\ runner'[j] = Stopped => Tallied(j)'
<1>1. /\ Open(j)' = Open(j) /\ RowsOf(j)' = RowsOf(j)
      /\ Collected(j)' = Collected(j) /\ Failed(j)' = Failed(j)
      /\ Cardinality(With(j, "SKIPPED"))' = Cardinality(With(j, "SKIPPED"))
  BY RowsAlike
<1>. QED  BY <1>1, StoppedTyped DEF Agreed, Tallied, Living

\* A runner that starts finds all rows open.
LEMMA StartTally ==
  ASSUME OutcomeInv, TallyInv, NEW j \in Jobs, RunnerLoad(j) \/ RunnerStart(j)
  PROVE  TallyInv'
<1>1. Living(j) /\ runner[j].at \in {"load", "start"}
  BY DEF RunnerLoad, RunnerStart, Living
<1>2. /\ runner[j] \in RunnerRecord /\ JobInv /\ TypeOK
      /\ runner[j].row = 0 /\ runner[j].succeeded = 0 /\ runner[j].failed = 0
  BY <1>1, RunnerTyped DEF OutcomeInv, JobInv, Counted
<1>3. ASSUME j \notin SlowRunners  PROVE Tallied(j)' /\ Agreed(j)'
  <2>1. Tallied(j) /\ Agreed(j)
    BY <1>3 DEF TallyInv
  <2>2. jobRow' = jobRow
    BY DEF RunnerLoad, RunnerStart
  <2>3. CASE RunnerLoad(j)
    <3>1. runner'[j] = Stopped \/ runner'[j] = [runner[j] EXCEPT !.at = "start"]
      BY <1>2, <2>3 DEF RunnerLoad, TypeOK
    <3>2. job' = job
      BY <2>3 DEF RunnerLoad
    <3>3. CASE runner'[j] = Stopped
      BY <1>2, <2>1, <2>2, <3>2, <3>3, TallySame
    <3>4. CASE runner'[j] = [runner[j] EXCEPT !.at = "start"]
      <4>1. /\ runner'[j].at = "start" /\ runner'[j].succeeded = runner[j].succeeded
            /\ runner'[j].failed = runner[j].failed
            /\ runner'[j].failing = runner[j].failing
        BY <1>2, <3>4 DEF RunnerRecord
      <4>. QED
        BY <1>1, <1>2, <2>1, <2>2, <3>2, <4>1, TallySame DEF Tallied, Living
    <3>. QED  BY <3>1, <3>3, <3>4
  <2>4. CASE RunnerStart(j)
    <3>1. /\ runner'[j].at = "check" /\ runner'[j].succeeded = runner[j].succeeded
          /\ runner'[j].failed = runner[j].failed
          /\ runner'[j].failing = runner[j].failing /\ runner'[j].row = 0
      BY <1>2, <2>4 DEF RunnerStart, RunnerRecord, TypeOK
    <3>2. job'[j].status = "RUNNING"
      BY <1>2, <2>4 DEF RunnerStart, TypeOK
    <3>3. \A w \in RowsOf(j) : w > 0
      BY DEF RowsOf, Rows
    <3>. QED
      BY <1>1, <1>2, <2>1, <2>2, <3>1, <3>2, <3>3, TallySame
         DEF Tallied, Living, Finished, Unended, Ended, Active
  <2>. QED  BY <2>3, <2>4
<1>. QED
  BY <1>1, <1>2, <1>3, TallyKept DEF RunnerLoad, RunnerStart, TypeOK

\* A runner ends when no row is open, or goes on with the first open row.
LEMMA CheckTally ==
  ASSUME OutcomeInv, TallyInv, NEW j \in Jobs, RunnerCheck(j)
  PROVE  TallyInv'
<1>. DEFINE left == {w \in RowsOf(j) : w > runner[j].row}
<1>1. Living(j) /\ runner[j].at = "check"
  BY DEF RunnerCheck, Living
<1>2. /\ runner[j] \in RunnerRecord /\ JobInv /\ TypeOK /\ runner[j].row \in Nat
      /\ jobRow' = jobRow /\ job' = job
  BY RunnerTyped DEF OutcomeInv, JobInv, RunnerCheck
<1>. DEFINE Goes(at, row, result) ==
              runner' = [runner EXCEPT ![j].at = at, ![j].row = row,
                                       ![j].result = result]
<1>3. ASSUME NEW at, NEW row, NEW result, Goes(at, row, result)
      PROVE  /\ runner'[j].at = at /\ runner'[j].result = result
             /\ runner'[j].succeeded = runner[j].succeeded
             /\ runner'[j].failed = runner[j].failed
             /\ runner'[j].failing = runner[j].failing
  <2>1. runner'[j] = [runner[j] EXCEPT !.at = at, !.row = row, !.result = result]
    BY <1>2, <1>3 DEF TypeOK
  <2>. QED  BY <1>2, <2>1 DEF RunnerRecord
<1>4. ASSUME j \notin SlowRunners  PROVE Tallied(j)' /\ Agreed(j)'
  <2>1. Tallied(j) /\ Agreed(j) /\ left = Open(j)
    <3>1. Tallied(j) /\ Agreed(j)
      BY <1>4 DEF TallyInv
    <3>. QED  BY <1>1, <1>2, <3>1, JobSplit DEF Tallied
  <2>2. /\ Open(j)' = Open(j) /\ RowsOf(j)' = RowsOf(j)
        /\ Collected(j)' = Collected(j) /\ Failed(j)' = Failed(j) /\ Agreed(j)'
    BY <1>2, <2>1, TallySame
  <2>3. /\ runner'[j].succeeded = runner[j].succeeded
        /\ runner'[j].failed = runner[j].failed
        /\ runner'[j].failing = runner[j].failing
    <3>1. \/ Goes("finish", NoRow, "CANCELLED")
          \/ Goes("finish", NoRow, Resolve(runner[j].succeeded, runner[j].failed))
          \/ \E w \in left : Goes("take", w, "NONE")
      BY Zenon DEF RunnerCheck
    <3>. QED  BY <1>3, <3>1
  <2>4. CASE left = {}
    <3>1. /\ runner'[j].at = "finish"
          /\ \/ runner'[j].result = "CANCELLED" /\ job[j].status = "CANCELLED"
             \/ runner'[j].result = Resolve(runner[j].succeeded, runner[j].failed)
      <4>1. \/ Goes("finish", NoRow, "CANCELLED") /\ job[j].status = "CANCELLED"
            \/ Goes("finish", NoRow, Resolve(runner[j].succeeded, runner[j].failed))
        BY <2>4, Zenon DEF RunnerCheck
      <4>. HIDE DEF Goes
      <4>. QED  BY <1>3, <4>1
    <3>. QED  BY <1>1, <1>2, <2>1, <2>2, <2>3, <2>4, <3>1 DEF Tallied, Living
  <2>5. CASE job[j].status = "CANCELLED"
    <3>1. runner'[j].at = "finish" /\ runner'[j].result = "CANCELLED"
      BY <1>2, <2>5 DEF RunnerCheck, RunnerRecord, TypeOK
    <3>. QED  BY <1>1, <1>2, <2>1, <2>2, <2>3, <2>5, <3>1 DEF Tallied, Living
  <2>6. CASE left # {} /\ job[j].status # "CANCELLED"
    <3>1. PICK w \in left :
            /\ \A v \in left : w <= v
            /\ runner' = [runner EXCEPT ![j].at = "take", ![j].row = w,
                                        ![j].result = "NONE"]
      BY <2>6 DEF RunnerCheck
    <3>2. runner'[j].at = "take" /\ runner'[j].row = w
      BY <1>2, <3>1 DEF RunnerRecord, TypeOK
    <3>3. \A v \in RowsOf(j) : v \in Open(j) <=> v >= w
      <4>1. \A v \in RowsOf(j) : v \in Nat
        BY DEF RowsOf, Rows
      <4>. QED  BY <1>2, <2>1, <3>1, <4>1
    <3>. QED  BY <1>1, <1>2, <2>1, <2>2, <2>3, <3>2, <3>3 DEF Tallied, Living
  <2>. QED  BY <2>4, <2>5, <2>6
<1>5. lock' = lock /\ UNCHANGED cleaner
      /\ \A i \in Jobs \ {j} : runner'[i] = runner[i]
  BY <1>2 DEF RunnerCheck, TypeOK
<1>. QED  BY <1>1, <1>2, <1>4, <1>5, TallyKept

\* A row that is worked on is open until it gets its result.
LEMMA TakeTally ==
  ASSUME OutcomeInv, TallyInv, NEW j \in Jobs,
         RunnerTakeRow(j) \/ RunnerCollect(j) \/ RunnerMarkFails(j)
  PROVE  TallyInv'
<1>1. /\ Living(j) /\ runner[j].at \in {"take", "collect", "mark"}
      /\ runner'[j].at \in {"collect", "mark"}
      /\ runner'[j].row = runner[j].row /\ runner'[j].failing = runner[j].failing
      /\ runner'[j].succeeded = runner[j].succeeded
      /\ runner'[j].failed = runner[j].failed
      /\ job' = job
  <2>1. runner \in [Jobs -> RunnerRecord]
    BY DEF OutcomeInv, JobInv, TypeOK
  <2>. QED
    BY <2>1 DEF RunnerTakeRow, RunnerCollect, RunnerMarkFails, Living, RunnerRecord
<1>2. JobInv /\ TypeOK /\ runner[j].row \in RowsOf(j) /\ runner[j].row \in Nat
  BY <1>1, RunnerFields DEF Reached, JobInv
<1>3. ASSUME j \notin SlowRunners  PROVE Tallied(j)' /\ Agreed(j)'
  <2>1. Tallied(j) /\ Agreed(j) /\ job[j].status \notin Finished
    BY <1>1, <1>3 DEF TallyInv, Tallied, Unended, Finished, Ended, Active
  <2>2. runner[j].row \in Open(j)
    BY <1>1, <1>2, <2>1 DEF Tallied
  <2>3. /\ Open(j)' = Open(j) /\ RowsOf(j)' = RowsOf(j)
        /\ Collected(j)' = Collected(j) /\ Failed(j)' = Failed(j)
    <3>1. CASE RunnerTakeRow(j)
      <4>1. \A w \in Rows : jobRow'[j][w] =
                IF w = runner[j].row THEN "RUNNING" ELSE jobRow[j][w]
        BY <1>2, <2>2, <3>1 DEF RunnerTakeRow, TypeOK, Open
      <4>2. jobRow[j][runner[j].row] \in Unfinished
        BY <2>2 DEF Open
      <4>3. /\ With(j, "COLLECTED")' = With(j, "COLLECTED")
            /\ With(j, "FAILED")' = With(j, "FAILED")
            /\ Open(j)' = Open(j) /\ RowsOf(j)' = RowsOf(j)
        BY <4>1, <4>2 DEF With, Open, RowsOf, Unfinished
      <4>. QED  BY <4>3 DEF Collected, Failed
    <3>2. CASE RunnerCollect(j) \/ RunnerMarkFails(j)
      BY <3>2, RowsAlike DEF RunnerCollect, RunnerMarkFails
    <3>. QED  BY <3>1, <3>2
  <2>. QED  BY <1>1, <2>1, <2>3 DEF Tallied, Agreed, Living
<1>4. /\ lock' = lock /\ UNCHANGED cleaner
      /\ \A i \in Jobs \ {j} : runner'[i] = runner[i] /\ jobRow'[i] = jobRow[i]
  BY <1>2 DEF RunnerTakeRow, RunnerCollect, RunnerMarkFails, TypeOK
<1>. QED  BY <1>1, <1>2, <1>3, <1>4, TallyKept

\* The result of a row and the count of it are written in one step.
LEMMA MarkTally ==
  ASSUME OutcomeInv, TallyInv, NEW j \in Jobs, RunnerMark(j)
  PROVE  TallyInv'
<1>. DEFINE w == runner[j].row
            result == runner[j].result
<1>1. /\ JobInv /\ TypeOK /\ w \in RowsOf(j) /\ w \in Nat
      /\ result \in RowResult /\ runner[j].at = "mark"
      /\ runner[j].succeeded \in Nat /\ runner[j].failed \in Nat
  BY RunnerFields, RunnerTyped DEF Reached, JobInv, RunnerMark, Resulted
<1>2. /\ Living(j) /\ runner'[j].at = "flush"
      /\ runner'[j].row = w /\ runner'[j].failing = runner[j].failing
      /\ runner'[j].succeeded
           = IF result = "COLLECTED" THEN runner[j].succeeded + 1 ELSE runner[j].succeeded
      /\ runner'[j].failed
           = IF result = "FAILED" THEN runner[j].failed + 1 ELSE runner[j].failed
      /\ job' = job /\ jobRow' = [jobRow EXCEPT ![j][w] = result]
  <2>1. runner \in [Jobs -> RunnerRecord]
    BY <1>1 DEF TypeOK
  <2>. QED
    BY <1>1, <2>1 DEF RunnerMark, Living, RunnerRecord
<1>3. ASSUME j \notin SlowRunners  PROVE Tallied(j)' /\ Agreed(j)'
  <2>1. Tallied(j) /\ Agreed(j) /\ job[j].status \notin Finished
    BY <1>1, <1>3 DEF TallyInv, Tallied, Unended, Finished, Ended, Active
  <2>2. w \in Open(j)
    BY <1>1, <2>1 DEF Tallied
  <2>3. /\ Open(j)' = Open(j) \ {w} /\ RowsOf(j)' = RowsOf(j)
        /\ Collected(j)' = IF result = "COLLECTED" THEN Collected(j) + 1 ELSE Collected(j)
        /\ Failed(j)' = IF result = "FAILED" THEN Failed(j) + 1 ELSE Failed(j)
    BY <1>1, <1>2, <2>2, RowCounted
  <2>4. \A v \in RowsOf(j) : v \in Open(j) \ {w} <=> v > w
    <3>1. \A v \in RowsOf(j) : v \in Nat
      BY DEF RowsOf, Rows
    <3>2. \A v \in RowsOf(j) : v \in Open(j) <=> v >= w
      BY <1>1, <2>1 DEF Tallied
    <3>. QED  BY <1>1, <3>1, <3>2
  <2>. QED  BY <1>1, <1>2, <2>1, <2>3, <2>4 DEF Tallied, Agreed, Living
<1>4. /\ lock' = lock /\ UNCHANGED cleaner
      /\ \A i \in Jobs \ {j} : runner'[i] = runner[i] /\ jobRow'[i] = jobRow[i]
  BY <1>1 DEF RunnerMark, TypeOK
<1>. QED  BY <1>1, <1>2, <1>3, <1>4, TallyKept

\* Progress is no result.
LEMMA FlushTally ==
  ASSUME OutcomeInv, TallyInv, NEW j \in Jobs,
         RunnerFlush(j) \/ RunnerExtend(j) \/ RunnerSkipFlush(j)
  PROVE  TallyInv'
<1>1. /\ Living(j) /\ runner[j].at \in {"flush", "extend"}
      /\ runner'[j].at \in {"extend", "check"}
      /\ runner'[j].row = runner[j].row /\ runner'[j].failing = runner[j].failing
      /\ runner'[j].succeeded = runner[j].succeeded
      /\ runner'[j].failed = runner[j].failed
      /\ jobRow' = jobRow
  <2>1. runner \in [Jobs -> RunnerRecord]
    BY DEF OutcomeInv, JobInv, TypeOK
  <2>. QED
    BY <2>1 DEF RunnerFlush, RunnerExtend, RunnerSkipFlush, Living, RunnerRecord
<1>2. JobInv /\ TypeOK
  BY DEF OutcomeInv, JobInv
<1>3. job'[j].status = job[j].status /\ \A i \in Jobs \ {j} : job'[i] = job[i]
  <2>1. CASE RunnerFlush(j)
    <3>1. job'[j] = [job[j] EXCEPT !.succeeded = runner[j].succeeded,
                                   !.failed = runner[j].failed]
      BY <1>2, <2>1 DEF RunnerFlush, TypeOK
    <3>. QED  BY <1>2, <2>1, <3>1 DEF RunnerFlush, TypeOK, JobRecord
  <2>2. CASE RunnerExtend(j) \/ RunnerSkipFlush(j)
    BY <2>2 DEF RunnerExtend, RunnerSkipFlush
  <2>. QED  BY <2>1, <2>2
<1>4. ASSUME j \notin SlowRunners  PROVE Tallied(j)' /\ Agreed(j)'
  <2>1. Tallied(j) /\ Agreed(j) /\ job[j].status \notin Finished
    BY <1>1, <1>4 DEF TallyInv, Tallied, Unended, Finished, Ended, Active
  <2>2. /\ Open(j)' = Open(j) /\ RowsOf(j)' = RowsOf(j)
        /\ Collected(j)' = Collected(j) /\ Failed(j)' = Failed(j) /\ Agreed(j)'
    BY <1>1, <1>2, <1>3, <2>1, TallySame
  <2>. QED  BY <1>1, <1>3, <2>1, <2>2 DEF Tallied, Living
<1>5. /\ lock' = lock \/ (lock'.job = j /\ ~ lock'.expired)
      /\ UNCHANGED cleaner
      /\ \A i \in Jobs \ {j} : runner'[i] = runner[i]
  BY <1>2 DEF RunnerFlush, RunnerExtend, RunnerSkipFlush, TypeOK, NoLock
<1>. QED  BY <1>1, <1>2, <1>3, <1>4, <1>5, TallyKept

\* What a runner reports at its end agrees with its rows, whether it has been
\* through them all or gives up.
LEMMA ReportAgrees ==
  ASSUME TypeOK, NEW j \in Jobs, Tallied(j), runner[j].at = "finish",
         job'[j] = [status |-> runner[j].result, succeeded |-> runner[j].succeeded,
                    failed |-> runner[j].failed],
         jobRow' = jobRow
  PROVE  Agreed(j)'
<1>. DEFINE n == Cardinality(RowsOf(j))
            c == Collected(j)
            f == Failed(j)
            k == Cardinality(With(j, "SKIPPED"))
            u == Cardinality(Open(j))
<1>1. /\ c \in Nat /\ f \in Nat /\ k \in Nat /\ u \in Nat
      /\ n = c + f + k + u
  BY JobSplit
<1>2. /\ RowsOf(j)' = RowsOf(j) /\ Collected(j)' = c /\ Failed(j)' = f
      /\ Cardinality(With(j, "SKIPPED"))' = k
  BY RowsAlike
<1>3. /\ job'[j].status = runner[j].result /\ job'[j].succeeded = runner[j].succeeded
      /\ job'[j].failed = runner[j].failed
  OBVIOUS
<1>4. runner[j].succeeded = c
  BY DEF Tallied, Living
<1>5. CASE runner[j].result = "CANCELLED"
  BY <1>3, <1>5 DEF Agreed, Finished
<1>6. CASE runner[j].result = "FAILED" /\ runner[j].failing
  <2>1. runner[j].failed = n - c
    BY <1>6 DEF Tallied, Living
  <2>. HIDE DEF n, c, f, k, u
  <2>2. f <= n - c /\ n - c <= n - c /\ c + (n - c) + k >= n
    BY <1>1
  <2>. QED  BY <1>2, <1>3, <1>4, <1>6, <2>1, <2>2 DEF Agreed, n
<1>7. CASE /\ runner[j].result = Resolve(runner[j].succeeded, runner[j].failed)
           /\ ~ runner[j].failing /\ Open(j) = {}
  <2>1. runner[j].failed = f /\ u = 0
    BY <1>7, FS_EmptySet DEF Tallied, Living
  <2>2. runner[j].result = Resolve(c, f)
    BY <1>4, <1>7, <2>1
  <2>. HIDE DEF n, c, f, k, u
  <2>3. f <= n - c /\ c + f + k >= n
    BY <1>1, <2>1
  <2>4. /\ runner[j].result = "SUCCEEDED" => f = 0
        /\ runner[j].result = "PARTIAL" => c > 0 /\ f > 0
    BY <1>1, <2>2 DEF Resolve
  <2>. QED  BY <1>1, <1>2, <1>3, <1>4, <2>1, <2>3, <2>4 DEF Agreed, n
<1>. QED  BY <1>5, <1>6, <1>7 DEF Tallied

\* A runner that ends reports its counts, or leaves the job as it is.
LEMMA EndTally ==
  ASSUME OutcomeInv, TallyInv, NEW j \in Jobs,
         RunnerFinish(j) \/ RunnerUnlock(j) \/ RunnerDies(j) \/ RunnerError(j)
  PROVE  TallyInv'
<1>1. Living(j) /\ jobRow' = jobRow /\ UNCHANGED cleaner
  BY DEF RunnerFinish, RunnerUnlock, RunnerDies, RunnerError, Living
<1>2. JobInv /\ TypeOK /\ runner[j] \in RunnerRecord
  BY RunnerTyped DEF OutcomeInv, JobInv
<1>3. ASSUME j \notin SlowRunners  PROVE Tallied(j)' /\ Agreed(j)'
  <2>1. Tallied(j) /\ Agreed(j)
    BY <1>3 DEF TallyInv
  <2>2. /\ Open(j)' = Open(j) /\ RowsOf(j)' = RowsOf(j)
        /\ Collected(j)' = Collected(j) /\ Failed(j)' = Failed(j)
        /\ job'[j] = job[j] => Agreed(j)'
        /\ runner'[j] = Stopped => Tallied(j)'
    BY <1>1, <1>2, <2>1, TallySame
  <2>3. CASE RunnerUnlock(j) \/ RunnerDies(j)
    <3>1. runner'[j] = Stopped /\ job' = job
      BY <1>2, <2>3 DEF RunnerUnlock, RunnerDies, TypeOK
    <3>. QED  BY <2>2, <3>1
  <2>4. CASE RunnerFinish(j)
    <3>1. runner'[j] = [runner[j] EXCEPT !.at = "unlock"] /\ runner[j].at = "finish"
      BY <1>2, <2>4 DEF RunnerFinish, TypeOK
    <3>2. /\ runner'[j].at = "unlock" /\ runner'[j].succeeded = runner[j].succeeded
          /\ runner'[j].failed = runner[j].failed
          /\ runner'[j].failing = runner[j].failing
      BY <1>2, <3>1 DEF RunnerRecord
    <3>3. Tallied(j)'
      BY <1>1, <2>1, <2>2, <3>2 DEF Tallied, Living
    <3>4. CASE job' = job
      BY <2>2, <3>3, <3>4
    <3>5. CASE job' # job
      <4>1. job'[j] = [status |-> runner[j].result,
                       succeeded |-> runner[j].succeeded, failed |-> runner[j].failed]
        BY <1>2, <2>4, <3>5 DEF RunnerFinish, TypeOK
      <4>. QED  BY <1>1, <1>2, <2>1, <3>1, <3>3, <4>1, ReportAgrees
    <3>. QED  BY <3>4, <3>5
  <2>5. CASE RunnerError(j)
    <3>1. /\ runner'[j].at = "finish" /\ runner'[j].result = "FAILED"
          /\ runner'[j].failing /\ runner'[j].succeeded = runner[j].succeeded
          /\ runner'[j].failed = FailedOnError(Cardinality(RowsOf(j)),
                                     runner[j].succeeded, runner[j].failed)
          /\ ~ runner[j].failing /\ job' = job
      BY <1>2, <2>5 DEF RunnerError, RunnerRecord, TypeOK
    <3>2. runner[j].succeeded = Collected(j) /\ runner[j].failed = Failed(j)
      BY <1>1, <2>1, <3>1 DEF Tallied
    <3>3. runner'[j].failed = Cardinality(RowsOf(j)) - Collected(j)
      <4>. DEFINE c == Collected(j)
                  f == Failed(j)
                  k == Cardinality(With(j, "SKIPPED"))
                  u == Cardinality(Open(j))
                  n == Cardinality(RowsOf(j))
      <4>1. /\ c \in Nat /\ f \in Nat /\ k \in Nat /\ u \in Nat
            /\ n = c + f + k + u
        BY <1>2, JobSplit
      <4>2. runner'[j].failed = FailedOnError(n, c, f)
        BY <3>1, <3>2
      <4>. HIDE DEF c, f, k, u, n
      <4>3. FailedOnError(n, c, f) = n - c
        BY <4>1 DEF FailedOnError
      <4>. QED  BY <4>2, <4>3 DEF n, c
    <3>4. runner'[j].succeeded = Collected(j)
      BY <3>1, <3>2
    <3>. QED  BY <1>1, <2>2, <3>1, <3>3, <3>4 DEF Tallied, Living
  <2>. QED  BY <2>3, <2>4, <2>5
<1>4. /\ lock' = lock \/ (lock'.job = NoJob /\ ~ lock'.expired)
      /\ \A i \in Jobs \ {j} : runner'[i] = runner[i] /\ job'[i] = job[i]
  BY <1>2 DEF RunnerFinish, RunnerUnlock, RunnerDies, RunnerError, Released, NoLock,
     TypeOK
<1>. QED  BY <1>1, <1>2, <1>3, <1>4, TallyKept

\* Initially there is no job.
LEMMA InitTally == Init => TallyInv
<1>. SUFFICES ASSUME Init  PROVE TallyInv
  OBVIOUS
<1>1. ASSUME NEW j \in Jobs  PROVE Tallied(j) /\ Agreed(j)
  <2>1. runner[j].at = "none" /\ ~ runner[j].failing /\ job[j].status = "NONE"
      /\ lock.job # j
    BY DEF Init, NoRunner, NoLock, NoJob, Jobs
  <2>. QED  BY <2>1 DEF Tallied, Agreed, Living, Finished, Ended
<1>. QED  BY <1>1 DEF Init, TallyInv, RunnerOver, Current, NoLock, IdleCleaner

\* The rows of a new job are open, and its runner has counted none.
LEMMA CreateTally ==
  ASSUME OutcomeInv, TallyInv, NEW j \in Jobs, NEW rows \in SUBSET Rows,
         Create(j, rows)
  PROVE  TallyInv'
<1>1. /\ JobInv /\ TypeOK /\ runner[j] \in RunnerRecord
      /\ runner[j].at = "none" /\ runner[j].succeeded = 0 /\ runner[j].failed = 0
  BY RunnerTyped DEF OutcomeInv, JobInv, WellPlaced, Create, Counted
<1>2. ASSUME j \notin SlowRunners  PROVE Tallied(j)' /\ Agreed(j)'
  <2>1. ~ runner[j].failing
    BY <1>1, <1>2 DEF TallyInv, Tallied
  <2>2. /\ runner'[j].at = "load" /\ runner'[j].succeeded = 0
        /\ runner'[j].failed = 0 /\ ~ runner'[j].failing
    BY <1>1, <2>1 DEF Create, TypeOK, RunnerRecord
  <2>3. job'[j].status = "PENDING"
    BY <1>1 DEF Create, TypeOK, JobRecord
  <2>4. jobRow'[j] = [w \in Rows |-> IF w \in rows THEN "PENDING" ELSE "NONE"]
    BY <1>1 DEF Create, TypeOK
  <2>5. /\ RowsOf(j)' \subseteq Open(j)'
        /\ With(j, "COLLECTED")' = {} /\ With(j, "FAILED")' = {}
    BY <2>4 DEF RowsOf, Open, With, Unfinished
  <2>6. Collected(j)' = 0 /\ Failed(j)' = 0
    BY <2>5, FS_EmptySet DEF Collected, Failed
  <2>. QED
    BY <2>2, <2>3, <2>5, <2>6
       DEF Tallied, Agreed, Living, Finished, Unended, Ended, Active
<1>3. /\ lock'.job = j /\ ~ lock'.expired /\ UNCHANGED cleaner
      /\ \A i \in Jobs \ {j} : /\ runner'[i] = runner[i] /\ job'[i] = job[i]
                               /\ jobRow'[i] = jobRow[i]
  BY <1>1 DEF Create, TypeOK, NoLock
<1>. QED  BY <1>1, <1>2, <1>3, TallyKept

\* What a request, or the expiry of a lock, leaves to be shown: it moves no
\* runner, writes no row, and gives no job another status but CANCELLED.
LEMMA RequestTally ==
  ASSUME OutcomeInv, TallyInv, UNCHANGED <<runner, jobRow, cleaner>>,
         \A i \in Jobs : job'[i] = job[i] \/ job'[i].status = "CANCELLED",
         \/ lock' = lock
         \/ lock'.job = NoJob /\ ~ lock'.expired
         \/ lock'.job = lock.job /\ (Living(lock.job) => lock.job \in SlowRunners)
  PROVE  TallyInv'
<1>1. JobInv /\ TypeOK
  BY DEF OutcomeInv, JobInv
<1>2. RunnerOver'
  <2>1. ASSUME lock'.expired, lock'.job \in Jobs \ SlowRunners
        PROVE  runner'[lock'.job].at = "done"
    <3>1. CASE lock' = lock
      BY <2>1, <3>1 DEF TallyInv, RunnerOver
    <3>2. CASE lock'.job = lock.job /\ (Living(lock.job) => lock.job \in SlowRunners)
      <4>1. runner[lock.job].at # "none"
        BY <2>1, <3>2 DEF TallyInv, Tallied
      <4>. QED  BY <2>1, <3>2, <4>1 DEF Living
    <3>. QED  BY <2>1, <3>1, <3>2
  <2>2. \A c \in Cleaners :
           cleaner[c].at # "idle" /\ cleaner[c].job \notin SlowRunners =>
              runner[cleaner[c].job].at = "done"
    BY DEF TallyInv, RunnerOver
  <2>. QED  BY <2>1, <2>2 DEF RunnerOver
<1>3. ASSUME NEW i \in Jobs \ SlowRunners  PROVE Tallied(i)' /\ Agreed(i)'
  <2>1. Tallied(i) /\ Agreed(i)
    BY DEF TallyInv
  <2>2. /\ Open(i)' = Open(i) /\ RowsOf(i)' = RowsOf(i)
        /\ Collected(i)' = Collected(i) /\ Failed(i)' = Failed(i)
        /\ job'[i] = job[i] => Agreed(i)'
        /\ job'[i].status \notin Finished => Agreed(i)'
        /\ lock.job # i => lock'.job # i
    BY <1>1, <2>1, TallySame DEF Jobs, NoJob
  <2>3. CASE job'[i] = job[i]
    BY <2>1, <2>2, <2>3 DEF Tallied, Living
  <2>4. CASE job'[i].status = "CANCELLED"
    BY <2>1, <2>2, <2>4 DEF Tallied, Living, Unended, Finished
  <2>. QED  BY <2>3, <2>4
<1>4. ASSUME NEW c \in Cleaners  PROVE Current(c)'
  <2>. SUFFICES ASSUME cleaner[c].at = "commit", cleaner[c].active,
                       cleaner[c].job \notin SlowRunners
                PROVE  Current(c)'
    BY DEF Current
  <2>1. cleaner[c].job \in Jobs /\ Current(c)
    BY <1>1 DEF JobInv, WellPlaced, TallyInv
  <2>2. \/ job'[cleaner[c].job] = job[cleaner[c].job]
        \/ job'[cleaner[c].job].status = "CANCELLED"
    BY <2>1
  <2>. QED  BY <2>1, <2>2 DEF Current, Settled, Unended, Active
<1>. QED  BY <1>2, <1>3, <1>4 DEF TallyInv

\* The requests, and the expiry of a lock.
LEMMA OthersTally ==
  ASSUME OutcomeInv, TallyInv,
         \/ Expire
         \/ \E j \in Jobs : \/ CancelRead(j) \/ CancelWrite(j)
                            \/ CancelUnlock(j) \/ CancelDies(j)
         \/ \E w \in Singles : SingleCheck(w) \/ SingleCollect(w)
         \/ UNCHANGED vars
  PROVE  TallyInv'
<1>1. TypeOK
  BY DEF OutcomeInv, JobInv
<1>2. CASE Expire
  <2>1. lock'.job = lock.job
    BY <1>1, <1>2 DEF Expire, TypeOK, LockRecord
  <2>. QED  BY <1>2, <2>1, RequestTally DEF Expire
<1>3. ASSUME NEW j \in Jobs,
             CancelRead(j) \/ CancelWrite(j) \/ CancelUnlock(j) \/ CancelDies(j)
      PROVE  TallyInv'
  <2>1. /\ UNCHANGED <<runner, jobRow, cleaner>>
        /\ lock' = lock \/ (lock'.job = NoJob /\ ~ lock'.expired)
    BY <1>3 DEF CancelRead, CancelWrite, CancelUnlock, CancelDies, Released, NoLock
  <2>2. CASE job' = job
    BY <2>1, <2>2, RequestTally
  <2>3. CASE CancelWrite(j)
    <3>1. \A i \in Jobs : job'[i] = job[i] \/ job'[i].status = "CANCELLED"
      BY <1>1, <2>3 DEF CancelWrite, TypeOK, JobRecord
    <3>. QED  BY <2>1, <3>1, RequestTally
  <2>. QED
    BY <1>3, <2>2, <2>3 DEF CancelRead, CancelUnlock, CancelDies
<1>4. CASE \E w \in Singles : SingleCheck(w) \/ SingleCollect(w)
  BY <1>4, RequestTally DEF SingleCheck, SingleCollect
<1>5. CASE UNCHANGED vars
  BY <1>5, RequestTally DEF vars
<1>. QED  BY <1>2, <1>3, <1>4, <1>5

-----------------------------------------------------------------------------
\* What a reconciliation reports of the rows it has read agrees with them when
\* it has failed the open ones.
LEMMA SettledAgrees ==
  ASSUME NEW j \in Jobs, NEW r \in [Rows -> RowStatus], jobRow'[j] = Settled(r),
         NEW c, c = Cardinality({w \in Rows : r[w] = "COLLECTED"}),
         NEW f, f = Cardinality(StaleFailed(r)),
         job'[j] = [status |-> Resolve(c, f), succeeded |-> c, failed |-> f]
  PROVE  Agreed(j)'
<1>. DEFINE of(results) == Cardinality({w \in Rows : r[w] \in results})
            n == Cardinality({w \in Rows : r[w] # "NONE"})
            s == of({"SKIPPED"})
            g == of({"FAILED"})
            u == of(Unfinished)
<1>1. /\ u \in Nat /\ of({"COLLECTED"}) \in Nat /\ g \in Nat /\ s \in Nat
      /\ of(Unfinished \cup {"FAILED"}) = u + g
      /\ n = of({"COLLECTED"}) + g + s + u
  BY RowsSplit
<1>2. c = of({"COLLECTED"}) /\ f = of(Unfinished \cup {"FAILED"})
  <2>1. {w \in Rows : r[w] = "COLLECTED"} = {w \in Rows : r[w] \in {"COLLECTED"}}
    OBVIOUS
  <2>2. StaleFailed(r) = {w \in Rows : r[w] \in Unfinished \cup {"FAILED"}}
    BY DEF StaleFailed
  <2>. QED  BY <2>1, <2>2
<1>3. /\ RowsOf(j)' = {w \in Rows : r[w] # "NONE"}
      /\ With(j, "COLLECTED")' = {w \in Rows : r[w] = "COLLECTED"}
      /\ With(j, "FAILED")' = StaleFailed(r)
      /\ With(j, "SKIPPED")' = {w \in Rows : r[w] \in {"SKIPPED"}}
  BY DEF RowsOf, With, Settled, StaleFailed, Unfinished
<1>4. /\ Cardinality(RowsOf(j)') = n
      /\ Collected(j)' = c /\ Failed(j)' = f
      /\ Cardinality(With(j, "SKIPPED")') = s
  BY <1>3 DEF Collected, Failed
<1>. HIDE DEF of, n, s, g, u
<1>5. /\ c \in Nat /\ f \in Nat
      /\ f <= f /\ f <= n - c /\ c + f + s >= n
  BY <1>1, <1>2
<1>6. /\ Resolve(c, f) = "SUCCEEDED" => f = 0
      /\ Resolve(c, f) = "PARTIAL" => c > 0 /\ f > 0
  BY <1>5 DEF Resolve
<1>. QED  BY <1>4, <1>5, <1>6 DEF Agreed

\* A reconciliation begins with a lock that has expired, and reads the rows of
\* an active job, which its runner no longer writes.
LEMMA ReadTally ==
  ASSUME OutcomeInv, TallyInv, NEW c \in Cleaners,
         ReconcileRead(c) \/ ReconcileSnapshot(c)
  PROVE  TallyInv'
<1>1. JobInv /\ TypeOK
  BY DEF OutcomeInv, JobInv
<1>2. /\ job' = job /\ jobRow' = jobRow /\ runner' = runner
      /\ lock'.job = lock.job /\ lock'.expired = lock.expired
      /\ \A d \in Cleaners \ {c} : cleaner'[d] = cleaner[d]
  BY <1>1 DEF ReconcileRead, ReconcileSnapshot, TypeOK, LockRecord
<1>3. ASSUME NEW j \in Jobs \ SlowRunners  PROVE Tallied(j)' /\ Agreed(j)'
  <2>1. Tallied(j) /\ Agreed(j)
    BY DEF TallyInv
  <2>2. /\ Open(j)' = Open(j) /\ RowsOf(j)' = RowsOf(j)
        /\ Collected(j)' = Collected(j) /\ Failed(j)' = Failed(j) /\ Agreed(j)'
    BY <1>1, <1>2, <2>1, TallySame
  <2>. QED  BY <1>2, <2>1, <2>2 DEF Tallied, Living
<1>4. /\ cleaner'[c].job \notin SlowRunners => runner[cleaner'[c].job].at = "done"
      /\ Current(c)'
  <2>1. CASE ReconcileRead(c)
    <3>1. cleaner'[c].job = lock.job /\ cleaner'[c].at = "snapshot"
      BY <1>1, <2>1 DEF ReconcileRead, TypeOK, IdleCleaner
    <3>2. lock.job \in Jobs /\ lock.expired
      BY <1>1, <2>1 DEF ReconcileRead, TypeOK, LockRecord
    <3>. QED  BY <3>1, <3>2 DEF TallyInv, RunnerOver, Current
  <2>2. CASE ReconcileSnapshot(c)
    <3>1. /\ cleaner'[c].job = cleaner[c].job /\ cleaner[c].at # "idle"
          /\ cleaner'[c].active = (job[cleaner[c].job].status \in Active)
          /\ cleaner'[c].rows = jobRow[cleaner[c].job]
      BY <1>1, <2>2 DEF ReconcileSnapshot, TypeOK, CleanerRecord, Stale
    <3>. QED  BY <1>2, <3>1 DEF TallyInv, RunnerOver, Current, Unended
  <2>. QED  BY <2>1, <2>2
<1>5. RunnerOver'
  BY <1>2, <1>4 DEF TallyInv, RunnerOver
<1>6. ASSUME NEW d \in Cleaners \ {c}  PROVE Current(d)'
  BY <1>2 DEF TallyInv, Current, Settled
<1>. QED  BY <1>3, <1>4, <1>5, <1>6 DEF TallyInv

\* A reconciliation settles a job, or finds it settled.
LEMMA CommitTally ==
  ASSUME OutcomeInv, TallyInv, NEW c \in Cleaners, ReconcileCommit(c)
  PROVE  TallyInv'
<1>0. PICK j \in Jobs, r \in [Rows -> RowStatus] :
          j = cleaner[c].job /\ r = cleaner[c].rows
  BY DEF OutcomeInv, JobInv, WellPlaced, ReconcileCommit, TypeOK, CleanerRecord
<1>1. /\ JobInv /\ TypeOK
      /\ runner' = runner
      /\ cleaner[c].at = "commit" /\ cleaner'[c].at = "idle"
      /\ \A d \in Cleaners \ {c} : cleaner'[d] = cleaner[d]
      /\ \A i \in Jobs \ {j} : job'[i] = job[i] /\ jobRow'[i] = jobRow[i]
      /\ \A d \in Cleaners : cleaner[d].at # "idle" => cleaner[d].job \in Jobs
  BY <1>0 DEF OutcomeInv, JobInv, WellPlaced, ReconcileCommit, TypeOK, CleanerRecord,
     IdleCleaner
<1>2. lock' = lock \/ (lock'.job = NoJob /\ ~ lock'.expired)
  BY DEF ReconcileCommit, LockAfterReconcile, NoLock
<1>3. RunnerOver'
  BY <1>1, <1>2 DEF TallyInv, RunnerOver
<1>4. ASSUME NEW i \in Jobs \ SlowRunners, job'[i] = job[i], jobRow'[i] = jobRow[i]
      PROVE  Tallied(i)' /\ Agreed(i)'
  <2>1. Tallied(i) /\ Agreed(i)
    BY DEF TallyInv
  <2>2. /\ Open(i)' = Open(i) /\ RowsOf(i)' = RowsOf(i)
        /\ Collected(i)' = Collected(i) /\ Failed(i)' = Failed(i)
        /\ Cardinality(With(i, "SKIPPED"))' = Cardinality(With(i, "SKIPPED"))
        /\ lock.job # i => lock'.job # i
    BY <1>2, <1>4, RowsAlike DEF Jobs, NoJob
  <2>. QED  BY <1>1, <1>4, <2>1, <2>2 DEF Tallied, Agreed, Living
<1>5. CASE ~ cleaner[c].active
  <2>1. job' = job /\ jobRow' = jobRow
    BY <1>5 DEF ReconcileCommit
  <2>. QED  BY <1>1, <1>3, <1>4, <2>1 DEF TallyInv, Current, Settled
<1>6. CASE j \in SlowRunners
  BY <1>1, <1>3, <1>4, <1>6 DEF TallyInv, Current, Settled
<1>7. CASE cleaner[c].active /\ j \notin SlowRunners
  <2>1. /\ runner[j].at = "done"
        /\ \/ jobRow[j] = r /\ job[j].status \in Unended
           \/ jobRow[j] = Settled(r) /\ job[j].status \notin Active
    BY <1>0, <1>1, <1>7 DEF TallyInv, RunnerOver, Current
  <2>2. jobRow'[j] = Settled(r)
    <3>1. jobRow'[j] = [w \in Rows |->
                          IF r[w] \in Unfinished THEN "FAILED" ELSE jobRow[j][w]]
      BY <1>0, <1>1, <1>7 DEF ReconcileCommit, TypeOK
    <3>. QED  BY <2>1, <3>1 DEF Settled
  <2>3. CASE job[j].status \in Active
    <3>1. jobRow[j] = r
      BY <2>1, <2>3
    <3>2. /\ job'[j] = [status |-> Resolve(Cardinality({w \in Rows : r[w] = "COLLECTED"}),
                                           Cardinality(StaleFailed(r))),
                        succeeded |-> Cardinality({w \in Rows : r[w] = "COLLECTED"}),
                        failed |-> Cardinality(StaleFailed(r))]
      BY <1>0, <1>1, <1>7, <2>3 DEF ReconcileCommit, TypeOK, Stale
    <3>3. Agreed(j)'
      BY <1>1, <2>2, <3>2, SettledAgrees
    <3>4. Tallied(j)'
      BY <1>1, <2>1 DEF Tallied, Living
    <3>5. job'[j].status \notin Active
      BY <3>2 DEF Resolve, Active
    <3>6. ASSUME NEW d \in Cleaners \ {c}  PROVE Current(d)'
      <4>1. Current(d)
        BY DEF TallyInv
      <4>2. CASE cleaner[d].job = j
        <5>. SUFFICES ASSUME cleaner[d].at = "commit", cleaner[d].active
             PROVE  Current(d)'
          BY <1>1 DEF Current
        <5>1. cleaner[d].rows = r
          BY <1>7, <2>3, <3>1, <4>1, <4>2 DEF Current
        <5>. QED  BY <1>1, <2>2, <3>5, <4>2, <5>1 DEF Current
      <4>3. CASE cleaner[d].job # j
        <5>. SUFFICES ASSUME cleaner[d].at = "commit"
             PROVE  Current(d)'
          BY <1>1 DEF Current
        <5>1. cleaner[d].job \in Jobs
          BY <1>1 DEF JobInv, WellPlaced
        <5>. QED  BY <1>1, <4>1, <4>3, <5>1 DEF Current, Settled
      <4>. QED  BY <4>2, <4>3
    <3>7. Current(c)'
      BY <1>1 DEF Current
    <3>. QED  BY <1>1, <1>3, <1>4, <3>3, <3>4, <3>6, <3>7 DEF TallyInv
  <2>4. CASE job[j].status \notin Active
    <3>1. job' = job
      BY <1>0, <2>4 DEF ReconcileCommit, Stale
    <3>2. Tallied(j)' /\ Agreed(j)'
      <4>1. Tallied(j)'
        BY <1>1, <2>1 DEF Tallied, Living
      <4>2. CASE jobRow[j] = Settled(r)
        BY <1>4, <1>7, <1>1, <2>2, <3>1, <4>2
      <4>3. CASE job[j].status \in Unended
        <5>1. job'[j].status \notin Finished
          BY <2>4, <3>1, <4>3 DEF Finished, Unended
        <5>. QED  BY <4>1, <5>1 DEF Agreed
      <4>. QED  BY <2>1, <4>1, <4>2, <4>3
    <3>3. ASSUME NEW d \in Cleaners \ {c}  PROVE Current(d)'
      <4>1. Current(d)
        BY DEF TallyInv
      <4>2. CASE cleaner[d].job = j
        <5>. SUFFICES ASSUME cleaner[d].at = "commit", cleaner[d].active
             PROVE  Current(d)'
          BY <1>1 DEF Current
        <5>1. \/ jobRow[j] = cleaner[d].rows
              \/ jobRow[j] = Settled(cleaner[d].rows)
          BY <1>7, <4>1, <4>2 DEF Current
        <5>2. CASE jobRow'[j] = jobRow[j]
          BY <1>1, <3>1, <4>1, <4>2, <5>2 DEF Current, Settled
        <5>3. CASE jobRow[j] = r
          <6>1. Settled(Settled(cleaner[d].rows)) = Settled(cleaner[d].rows)
            BY DEF Settled, Unfinished
          <6>2. jobRow'[j] = Settled(cleaner[d].rows)
            BY <2>2, <5>1, <5>3, <6>1
          <6>. QED  BY <1>1, <2>4, <3>1, <4>2, <6>2 DEF Current
        <5>. QED  BY <2>1, <2>2, <5>2, <5>3
      <4>3. CASE cleaner[d].job # j
        <5>. SUFFICES ASSUME cleaner[d].at = "commit"
             PROVE  Current(d)'
          BY <1>1 DEF Current
        <5>1. cleaner[d].job \in Jobs
          BY <1>1 DEF JobInv, WellPlaced
        <5>. QED  BY <1>1, <4>1, <4>3, <5>1 DEF Current, Settled
      <4>. QED  BY <4>2, <4>3
    <3>4. Current(c)'
      BY <1>1 DEF Current
    <3>. QED  BY <1>1, <1>3, <1>4, <3>2, <3>3, <3>4 DEF TallyInv
  <2>. QED  BY <2>3, <2>4
<1>. QED  BY <1>5, <1>6, <1>7

\* Every step keeps the counts.
LEMMA NextTally == OutcomeInv /\ TallyInv /\ [Next]_vars => TallyInv'
<1>. SUFFICES ASSUME OutcomeInv, TallyInv, [Next]_vars  PROVE TallyInv'
  OBVIOUS
<1>1. ASSUME NEW j \in Jobs, \E rows \in SUBSET Rows : Create(j, rows)
      PROVE  TallyInv'
  BY <1>1, CreateTally
<1>2. ASSUME NEW j \in Jobs,
             RunnerStep(j) \/ RunnerMarkFails(j) \/ RunnerError(j) \/ RunnerDies(j)
      PROVE  TallyInv'
  BY <1>2, StartTally, CheckTally, TakeTally, MarkTally, FlushTally, EndTally
     DEF RunnerStep
<1>3. ASSUME NEW c \in Cleaners, CleanerStep(c)  PROVE TallyInv'
  BY <1>3, ReadTally, CommitTally DEF CleanerStep
<1>4. ASSUME NEW j \in Jobs,
             CancelRead(j) \/ CancelWrite(j) \/ CancelUnlock(j) \/ CancelDies(j)
      PROVE  TallyInv'
  BY <1>4, OthersTally
<1>5. CASE Expire \/ UNCHANGED vars
  BY <1>5, OthersTally
<1>6. ASSUME NEW w \in Singles, SingleCheck(w) \/ SingleCollect(w)
      PROVE  TallyInv'
  BY <1>6, OthersTally
<1>. QED  BY <1>1, <1>2, <1>3, <1>4, <1>5, <1>6 DEF Next

\* What a finished job reports agrees with the results of its rows, whether its
\* runner reported its counters or the reconciliation the rows it had read, and
\* however many reconciliations overlapped.
THEOREM ResultsMatchRows == Spec => []JobResultMatchesRows
<1>1. TallyInv => JobResultMatchesRows
  <2>. SUFFICES ASSUME TallyInv, NEW j \in Jobs \ SlowRunners,
                       job[j].status \in Finished
                PROVE  /\ job[j].succeeded = Cardinality(With(j, "COLLECTED"))
                       /\ Cardinality(With(j, "FAILED")) <= job[j].failed
                       /\ job[j].failed <= Cardinality(RowsOf(j))
                                             - Cardinality(With(j, "COLLECTED"))
                       /\ job[j].succeeded + job[j].failed
                            + Cardinality(With(j, "SKIPPED")) >= Cardinality(RowsOf(j))
                       /\ job[j].status = "SUCCEEDED" => job[j].failed = 0
                       /\ job[j].status = "PARTIAL" =>
                            job[j].succeeded > 0 /\ job[j].failed > 0
    BY DEF JobResultMatchesRows, Finished
  <2>1. Agreed(j)
    BY DEF TallyInv
  <2>. QED  BY <2>1 DEF Agreed, Collected, Failed
<1>. QED  BY InitOutcome, NextOutcome, InitTally, NextTally, <1>1, PTL DEF Spec

-----------------------------------------------------------------------------
(* The promise: what users see of the jobs is CollectionJobs                 *)

\* A cancellation is of a job that exists.
CancelsExist == \A j \in Jobs : cancel[j] # "idle" => job[j].status # "NONE"

\* A job that exists goes on existing.
LEMMA JobsStay ==
  ASSUME JobInv, [Next]_vars, NEW j \in Jobs, job[j].status # "NONE"
  PROVE  job'[j].status # "NONE"
<1>1. /\ job \in [Jobs -> JobRecord] /\ runner \in [Jobs -> RunnerRecord]
      /\ cleaner \in [Cleaners -> CleanerRecord]
  BY DEF JobInv, TypeOK
<1>2. ASSUME NEW i \in Jobs, \E rows \in SUBSET Rows : Create(i, rows)
      PROVE  job'[j].status # "NONE"
  BY <1>1, <1>2 DEF Create, JobRecord
<1>3. ASSUME NEW i \in Jobs,
             RunnerStep(i) \/ RunnerMarkFails(i) \/ RunnerError(i) \/ RunnerDies(i)
      PROVE  job'[j].status # "NONE"
  <2>1. CASE RunnerStart(i)
    BY <1>1, <2>1 DEF RunnerStart
  <2>2. CASE RunnerFlush(i)
    <3>1. job'[i] = [job[i] EXCEPT !.succeeded = runner[i].succeeded,
                                   !.failed = runner[i].failed]
          /\ \A k \in Jobs \ {i} : job'[k] = job[k]
      BY <1>1, <2>2 DEF RunnerFlush
    <3>. QED  BY <1>1, <3>1 DEF JobRecord
  <2>3. CASE RunnerFinish(i)
    <3>1. runner[i].result # "NONE"
      BY <2>3, RunnerTyped DEF RunnerFinish, Resulted, Ended
    <3>. QED  BY <1>1, <2>3, <3>1 DEF RunnerFinish
  <2>. QED
    BY <1>3, <2>1, <2>2, <2>3
       DEF RunnerStep, RunnerLoad, RunnerCheck, RunnerTakeRow, RunnerCollect, RunnerMark,
           RunnerMarkFails, RunnerExtend, RunnerSkipFlush, RunnerUnlock, RunnerError,
           RunnerDies
<1>4. ASSUME NEW c \in Cleaners, CleanerStep(c)  PROVE job'[j].status # "NONE"
  <2>1. CASE ReconcileCommit(c)
    <3>. DEFINE succeeded == Cardinality({w \in Rows : cleaner[c].rows[w] = "COLLECTED"})
                failed == Cardinality(StaleFailed(cleaner[c].rows))
    <3>1. Resolve(succeeded, failed) # "NONE"
      BY DEF Resolve
    <3>2. \/ job' = job
          \/ job' = [job EXCEPT ![cleaner[c].job] =
                        [status |-> Resolve(succeeded, failed),
                         succeeded |-> succeeded, failed |-> failed]]
      BY <2>1 DEF ReconcileCommit
    <3>. HIDE DEF succeeded, failed
    <3>. QED  BY <1>1, <3>1, <3>2
  <2>. QED  BY <1>4, <2>1 DEF CleanerStep, ReconcileRead, ReconcileSnapshot
<1>5. ASSUME NEW i \in Jobs,
             CancelRead(i) \/ CancelWrite(i) \/ CancelUnlock(i) \/ CancelDies(i)
      PROVE  job'[j].status # "NONE"
  BY <1>1, <1>5 DEF CancelRead, CancelWrite, CancelUnlock, CancelDies, JobRecord
<1>6. CASE Expire \/ UNCHANGED vars
  BY <1>6 DEF Expire, vars
<1>7. ASSUME NEW w \in Singles, SingleCheck(w) \/ SingleCollect(w)
      PROVE  job'[j].status # "NONE"
  BY <1>7 DEF SingleCheck, SingleCollect
<1>. QED  BY <1>2, <1>3, <1>4, <1>5, <1>6, <1>7 DEF Next

LEMMA NextCancels == JobInv /\ CancelsExist /\ [Next]_vars => CancelsExist'
<1>. SUFFICES ASSUME JobInv, CancelsExist, [Next]_vars,
                     NEW j \in Jobs, cancel'[j] # "idle"
              PROVE  job'[j].status # "NONE"
  BY DEF CancelsExist
<1>1. CASE cancel[j] # "idle"
  BY <1>1, JobsStay DEF CancelsExist
<1>2. CASE cancel[j] = "idle"
  <2>1. cancel \in [Jobs -> {"idle", "write", "writePending", "unlock", "done"}]
    BY DEF JobInv, TypeOK
  <2>2. CancelRead(j)
    BY <1>2, <2>1
       DEF Next, Create, RunnerStep, RunnerLoad, RunnerStart, RunnerCheck, RunnerTakeRow,
           RunnerCollect, RunnerMark, RunnerFlush, RunnerExtend, RunnerSkipFlush,
           RunnerFinish, RunnerUnlock, RunnerMarkFails, RunnerError, RunnerDies,
           CancelRead, CancelWrite, CancelUnlock, CancelDies, Expire, CleanerStep,
           ReconcileRead, ReconcileSnapshot, ReconcileCommit, SingleCheck,
           SingleCollect, vars
  <2>3. job[j].status # "NONE"
    BY <2>2 DEF CancelRead, Active
  <2>. QED  BY <2>3, JobsStay
<1>. QED  BY <1>1, <1>2

-----------------------------------------------------------------------------
\* CollectionJobs counts as this module does.
LEMMA SameCount ==
  ASSUME NEW S  PROVE Promised!Cardinality(S) = Cardinality(S)
BY DEF Promised!Cardinality, Cardinality

\* A report of a job that is done is truthful of the rows it shows.
LEMMA ReportTruthful ==
  ASSUME TypeOK', NEW j \in Jobs, Agreed(j)', job'[j].status \in Finished
  PROVE  /\ job'[j] \in Promised!Reports
         /\ Promised!Truthful(job'[j], Shown(jobRow[j])')
<1>. DEFINE r == jobRow'[j]
            shown == Shown(jobRow[j])'
            b == job'[j]
<1>1. r \in [Rows -> RowStatus] /\ b \in JobRecord
  BY DEF TypeOK
<1>2. /\ {w \in Rows : shown[w] # "NONE"} = RowsOf(j)'
      /\ {w \in Rows : shown[w] = "COLLECTED"} = With(j, "COLLECTED")'
      /\ {w \in Rows : shown[w] = "FAILED"} = With(j, "FAILED")'
      /\ {w \in Rows : shown[w] = "SKIPPED"} = With(j, "SKIPPED")'
  BY DEF Shown, RowsOf, With, Unfinished
<1>3. /\ b.succeeded = Cardinality(With(j, "COLLECTED")')
      /\ Cardinality(With(j, "FAILED")') <= b.failed
      /\ b.failed <= Cardinality(RowsOf(j)') - Cardinality(With(j, "COLLECTED")')
      /\ b.succeeded + b.failed + Cardinality(With(j, "SKIPPED")')
           >= Cardinality(RowsOf(j)')
      /\ b.status = "SUCCEEDED" => b.failed = 0
      /\ b.status = "PARTIAL" => b.succeeded > 0 /\ b.failed > 0
  BY DEF Agreed, Collected, Failed
<1>4. Promised!Truthful(b, shown)
  <2>. HIDE DEF b, shown
  <2>1. /\ b.succeeded = Cardinality({w \in Rows : shown[w] = "COLLECTED"})
        /\ Cardinality({w \in Rows : shown[w] = "FAILED"}) <= b.failed
        /\ b.failed <= Cardinality({w \in Rows : shown[w] # "NONE"}) - b.succeeded
        /\ b.succeeded + b.failed + Cardinality({w \in Rows : shown[w] = "SKIPPED"})
             >= Cardinality({w \in Rows : shown[w] # "NONE"})
        /\ b.status = "SUCCEEDED" => b.failed = 0
        /\ b.status = "PARTIAL" => b.succeeded > 0 /\ b.failed > 0
    BY <1>2, <1>3
  <2>2. /\ b.succeeded = Promised!Cardinality({w \in Rows : shown[w] = "COLLECTED"})
        /\ Promised!Cardinality({w \in Rows : shown[w] = "FAILED"}) <= b.failed
        /\ b.failed <= Promised!Cardinality({w \in Rows : shown[w] # "NONE"})
                          - b.succeeded
        /\ b.succeeded + b.failed
              + Promised!Cardinality({w \in Rows : shown[w] = "SKIPPED"})
             >= Promised!Cardinality({w \in Rows : shown[w] # "NONE"})
        /\ b.status = "SUCCEEDED" => b.failed = 0
        /\ b.status = "PARTIAL" => b.succeeded > 0 /\ b.failed > 0
    BY <2>1, SameCount
  <2>. QED  BY <2>2, Zenon DEF Promised!Truthful
<1>5. Cardinality(Rows) = LastRow
  BY FS_Interval, JobConstants DEF Rows
<1>6. b \in Promised!Reports
  <2>1. b.status \in {"SUCCEEDED", "PARTIAL", "FAILED"}
    BY DEF Finished, Ended
  <2>2. /\ b.succeeded \in 0 .. Promised!Cardinality(Rows)
        /\ b.failed \in 0 .. Promised!Cardinality(Rows)
    BY <1>1, <1>5, SameCount DEF JobRecord, Counts
  <2>3. b = [status |-> b.status, succeeded |-> b.succeeded, failed |-> b.failed]
    BY <1>1 DEF JobRecord
  <2>. HIDE DEF b
  <2>. QED  BY <2>1, <2>2, <2>3 DEF Promised!Reports
<1>. QED  BY <1>4, <1>6

\* A step that writes one job at most shows in that job only.
LEMMA OneJobShows ==
  ASSUME NEW j \in Jobs,
         \A i \in Jobs \ {j} : /\ job'[i] = job[i] /\ jobRow'[i] = jobRow[i]
                              /\ runner'[i] = runner[i]
  PROVE  /\ j \in SlowRunners => UNCHANGED Promised!jobsVars
         /\ j \notin SlowRunners =>
              /\ Phases' = [Phases EXCEPT ![j] = Phase(j)']
              /\ RowResults' = [RowResults EXCEPT ![j] = Shown(jobRow'[j])]
              /\ JobReports' = [JobReports EXCEPT ![j] = Report(j)']
<1>1. \A i \in Jobs \ {j} :
        /\ Phase(i)' = Phase(i) /\ Report(i)' = Report(i)
        /\ Shown(jobRow'[i]) = Shown(jobRow[i])
  BY DEF Phase, Report, AtRow
<1>2. /\ Phases' = [i \in Jobs \ SlowRunners |-> Phase(i)']
      /\ RowResults' = [i \in Jobs \ SlowRunners |-> Shown(jobRow'[i])]
      /\ JobReports' = [i \in Jobs \ SlowRunners |-> Report(i)']
  BY DEF Phases, RowResults, JobReports, Shown
<1>. QED  BY <1>1, <1>2 DEF Phases, RowResults, JobReports, Promised!jobsVars

\* Nothing shows where status and report of a job stay, and open rows open.
LEMMA NothingShows ==
  ASSUME NEW j \in Jobs,
         \A i \in Jobs \ {j} : /\ job'[i] = job[i] /\ jobRow'[i] = jobRow[i]
                              /\ runner'[i] = runner[i],
         j \notin SlowRunners =>
            Phase(j)' = Phase(j) /\ Report(j)' = Report(j)
              /\ Shown(jobRow'[j]) = Shown(jobRow[j])
  PROVE  UNCHANGED Promised!jobsVars
<1>1. \A i \in Jobs \ SlowRunners :
        /\ Phase(i)' = Phase(i) /\ Report(i)' = Report(i)
        /\ Shown(jobRow'[i]) = Shown(jobRow[i])
  BY DEF Phase, Report, AtRow
<1>2. /\ Phases' = [i \in Jobs \ SlowRunners |-> Phase(i)']
      /\ RowResults' = [i \in Jobs \ SlowRunners |-> Shown(jobRow'[i])]
      /\ JobReports' = [i \in Jobs \ SlowRunners |-> Report(i)']
  BY DEF Phases, RowResults, JobReports, Shown
<1>. QED  BY <1>1, <1>2 DEF Phases, RowResults, JobReports, Promised!jobsVars

\* How a job is shown.
LEMMA PhaseIs ==
  ASSUME TypeOK, NEW j \in Jobs
  PROVE  /\ job[j].status = "NONE" => Phase(j) = "none"
         /\ job[j].status \in Active => Phase(j) = "open"
         /\ job[j].status = "CANCELLED" =>
              Phase(j) = IF AtRow(j) THEN "stopping" ELSE "cancelled"
         /\ job[j].status \in Finished => Phase(j) = "done" /\ Report(j) = job[j]
         /\ job[j].status \notin Finished => Report(j) = Promised!NoReport
         /\ job[j].status \in {"NONE", "CANCELLED"} \cup Active \cup Finished
<1>1. job[j].status \in {"NONE"} \cup Active \cup Ended
  BY DEF TypeOK, JobRecord
<1>. QED
  BY <1>1 DEF Phase, Report, Active, Finished, Ended, Promised!NoReport

LEMMA PhaseBecomes ==
  ASSUME TypeOK', NEW j \in Jobs
  PROVE  /\ job'[j].status = "NONE" => Phase(j)' = "none"
         /\ job'[j].status \in Active => Phase(j)' = "open"
         /\ job'[j].status = "CANCELLED" =>
              Phase(j)' = IF AtRow(j)' THEN "stopping" ELSE "cancelled"
         /\ job'[j].status \in Finished => Phase(j)' = "done" /\ Report(j)' = job'[j]
         /\ job'[j].status \notin Finished => Report(j)' = Promised!NoReport
<1>1. job'[j].status \in {"NONE"} \cup Active \cup Ended
  BY DEF TypeOK, JobRecord
<1>. QED
  BY <1>1 DEF Phase, Report, Active, Finished, Ended, Promised!NoReport

\* A job is shown in its phase, with its rows and its report.
LEMMA ShownAs ==
  ASSUME NEW j \in Jobs \ SlowRunners
  PROVE  /\ Phases[j] = Phase(j) /\ JobReports[j] = Report(j)
         /\ RowResults[j] = Shown(jobRow[j])
BY DEF Phases, JobReports, RowResults

Shows == [Promised!Next]_(Promised!jobsVars)

\* Initially nothing has been submitted.
LEMMA InitShows == Init => Promised!Init /\ CancelsExist
<1>. SUFFICES ASSUME Init  PROVE Promised!Init /\ CancelsExist
  OBVIOUS
<1>1. TypeOK
  BY InitInv DEF JobInv
<1>2. \A j \in Jobs : job[j].status = "NONE" /\ jobRow[j] = NoRows
  BY DEF Init
<1>3. \A j \in Jobs : Phase(j) = "none" /\ Report(j) = Promised!NoReport
  BY <1>1, <1>2, PhaseIs DEF Finished, Ended
<1>4. Shown(NoRows) = [w \in Rows |-> "NONE"]
  BY DEF Shown, NoRows, Unfinished
<1>5. Promised!Init
  BY <1>2, <1>3, <1>4 DEF Promised!Init, Phases, RowResults, JobReports
<1>. QED  BY <1>5 DEF Init, CancelsExist

\* Steps that write neither jobs nor rows.
LEMMA QuietShows ==
  ASSUME UNCHANGED <<job, jobRow>>,
         \A j \in Jobs : job[j].status = "CANCELLED" => AtRow(j)' = AtRow(j)
  PROVE  Shows
<1>1. \A j \in Jobs \ SlowRunners :
        /\ Phase(j)' = Phase(j) /\ Report(j)' = Report(j)
        /\ Shown(jobRow[j])' = Shown(jobRow[j])
  BY DEF Phase, Report, Shown, Active
<1>2. Phases' = Phases /\ RowResults' = RowResults /\ JobReports' = JobReports
  BY <1>1 DEF Phases, RowResults, JobReports
<1>. QED  BY <1>2 DEF Shows, Promised!jobsVars

\* A new job is submitted with its rows.
LEMMA CreateShows ==
  ASSUME TypeOK, TypeOK', NEW j \in Jobs, NEW rows \in SUBSET Rows, Create(j, rows)
  PROVE  Shows
<1>1. \A i \in Jobs \ {j} : /\ job'[i] = job[i] /\ jobRow'[i] = jobRow[i]
                            /\ runner'[i] = runner[i]
  BY DEF Create, TypeOK
<1>2. CASE j \in SlowRunners
  BY <1>1, <1>2, OneJobShows DEF Shows
<1>3. CASE j \notin SlowRunners
  <2>1. job[j].status = "NONE" /\ job'[j].status = "PENDING"
    BY DEF Create, TypeOK, JobRecord
  <2>2. Phase(j) = "none" /\ Phase(j)' = "open" /\ Report(j)' = Report(j)
    BY <2>1, PhaseIs, PhaseBecomes DEF Active, Finished, Ended
  <2>3. Shown(jobRow'[j]) = [w \in Rows |-> IF w \in rows THEN "OPEN" ELSE "NONE"]
    BY DEF Create, TypeOK, Shown, Unfinished
  <2>4. Promised!Submit(j, rows)
    <3>1. /\ Phases' = [Phases EXCEPT ![j] = "open"]
          /\ RowResults' = [RowResults EXCEPT ![j] = Shown(jobRow'[j])]
          /\ JobReports' = [JobReports EXCEPT ![j] = JobReports[j]]
      BY <1>1, <1>3, <2>2, OneJobShows, ShownAs
    <3>2. JobReports' = JobReports
      BY <3>1 DEF JobReports
    <3>. QED
      BY <1>3, <2>2, <2>3, <3>1, <3>2, ShownAs DEF Promised!Submit
  <2>. QED  BY <1>3, <2>4 DEF Shows, Promised!Next
<1>. QED  BY <1>2, <1>3

\* A runner starts an open job, or takes up a cancelled one, and no row has a
\* result yet.
LEMMA StartShows ==
  ASSUME OutcomeInv, TallyInv, TypeOK', NEW j \in Jobs, RunnerStart(j)
  PROVE  Shows
<1>1. /\ JobInv /\ TypeOK /\ jobRow' = jobRow
      /\ \A i \in Jobs \ {j} : job'[i] = job[i] /\ runner'[i] = runner[i]
      /\ job'[j].status = "RUNNING" /\ ~ AtRow(j)
  BY DEF OutcomeInv, JobInv, RunnerStart, TypeOK, AtRow
<1>2. CASE j \in SlowRunners
  BY <1>1, <1>2, OneJobShows DEF Shows
<1>3. CASE j \notin SlowRunners
  <2>1. RowsOf(j) \subseteq Open(j) /\ job[j].status \in Unended
    BY <1>3 DEF TallyInv, Tallied, RunnerStart
  <2>2. Phase(j)' = "open" /\ Report(j)' = Promised!NoReport
        /\ Report(j) = Promised!NoReport
    BY <1>1, <2>1, PhaseIs, PhaseBecomes DEF Active, Finished, Ended, Unended
  <2>3. CASE job[j].status \in Active
    <3>1. Phase(j) = "open"
      BY <1>1, <2>3, PhaseIs
    <3>. QED  BY <1>1, <2>2, <3>1, NothingShows DEF Shows
  <2>4. CASE job[j].status = "CANCELLED"
    <3>1. Phase(j) = "cancelled"
      BY <1>1, <2>4, PhaseIs
    <3>2. \A w \in Rows : Shown(jobRow[j])[w] \in {"NONE", "OPEN"}
      BY <2>1 DEF RowsOf, Open, Shown
    <3>3. /\ Phases' = [Phases EXCEPT ![j] = "open"]
          /\ RowResults' = RowResults /\ JobReports' = JobReports
      <4>1. /\ Phases' = [Phases EXCEPT ![j] = "open"]
            /\ RowResults' = [RowResults EXCEPT ![j] = RowResults[j]]
            /\ JobReports' = [JobReports EXCEPT ![j] = JobReports[j]]
        BY <1>1, <1>3, <2>2, OneJobShows, ShownAs
      <4>. QED  BY <4>1 DEF RowResults, JobReports
    <3>4. Promised!Resume(j)
      BY <1>3, <3>1, <3>2, <3>3, ShownAs DEF Promised!Resume
    <3>. QED  BY <1>3, <3>4 DEF Shows, Promised!Next
  <2>. QED  BY <2>1, <2>3, <2>4 DEF Unended
<1>. QED  BY <1>2, <1>3

\* The row at hand is open until it is marked with its result, and the
\* progress of a job is no report.
LEMMA RowShows ==
  ASSUME OutcomeInv, TallyInv, TypeOK', NEW j \in Jobs,
         RunnerTakeRow(j) \/ RunnerMark(j) \/ RunnerFlush(j)
  PROVE  Shows
<1>. DEFINE w == runner[j].row
            result == runner[j].result
<1>1. /\ JobInv /\ TypeOK /\ w \in Nat
      /\ \A i \in Jobs \ {j} : /\ job'[i] = job[i] /\ jobRow'[i] = jobRow[i]
                              /\ runner'[i] = runner[i]
      /\ job'[j].status = job[j].status
  <2>1. /\ job \in [Jobs -> JobRecord] /\ jobRow \in [Jobs -> [Rows -> RowStatus]]
        /\ runner \in [Jobs -> RunnerRecord]
    BY DEF OutcomeInv, JobInv, TypeOK
  <2>2. \A i \in Jobs \ {j} : /\ job'[i] = job[i] /\ jobRow'[i] = jobRow[i]
                              /\ runner'[i] = runner[i]
    BY <2>1 DEF RunnerTakeRow, RunnerMark, RunnerFlush
  <2>3. CASE RunnerFlush(j)
    <3>1. job'[j] = [job[j] EXCEPT !.succeeded = runner[j].succeeded,
                                   !.failed = runner[j].failed]
      BY <2>1, <2>3 DEF RunnerFlush
    <3>2. job'[j].status = job[j].status
      BY <2>1, <3>1 DEF JobRecord
    <3>. QED  BY <2>2, <3>2, RunnerTyped DEF OutcomeInv, JobInv
  <2>4. CASE RunnerTakeRow(j) \/ RunnerMark(j)
    BY <2>2, <2>4, RunnerTyped DEF OutcomeInv, JobInv, RunnerTakeRow, RunnerMark
  <2>. QED  BY <2>3, <2>4
<1>2. CASE j \in SlowRunners
  BY <1>1, <1>2, OneJobShows DEF Shows
<1>3. CASE j \notin SlowRunners
  <2>1. Tallied(j) /\ job[j].status \in Unended
    BY <1>3 DEF TallyInv, Tallied, RunnerTakeRow, RunnerMark, RunnerFlush
  <2>2. /\ AtRow(j)' = AtRow(j) => Phase(j)' = Phase(j)
        /\ AtRow(j) /\ ~ AtRow(j)' =>
             /\ Phase(j) \in {"open", "stopping"}
             /\ Phase(j)' = IF Phase(j) = "stopping" THEN "cancelled" ELSE Phase(j)
        /\ Report(j)' = Report(j)
    BY <1>1, <2>1, PhaseIs, PhaseBecomes DEF Unended, Active, Finished, Ended
  <2>3. CASE RunnerFlush(j)
    <3>1. AtRow(j)' = AtRow(j)
      BY <1>1, <2>3 DEF AtRow, RunnerFlush, TypeOK, RunnerRecord
    <3>. QED  BY <1>1, <2>2, <2>3, <3>1, NothingShows DEF Shows, RunnerFlush
  <2>4. RunnerTakeRow(j) \/ RunnerMark(j) => w \in Open(j) /\ w \in Rows
    <3>. SUFFICES ASSUME RunnerTakeRow(j) \/ RunnerMark(j)
                  PROVE  w \in Open(j) /\ w \in Rows
      OBVIOUS
    <3>1. w \in RowsOf(j)
      BY <1>1, RunnerFields DEF Reached, RunnerTakeRow, RunnerMark
    <3>2. w \in Open(j)
      BY <1>1, <2>1, <3>1 DEF Tallied, RunnerTakeRow, RunnerMark
    <3>. QED  BY <3>1, <3>2 DEF RowsOf
  <2>5. CASE RunnerTakeRow(j)
    <3>2. w \in Open(j)
      BY <2>4, <2>5
    <3>3. jobRow'[j] = [jobRow[j] EXCEPT ![w] = "RUNNING"]
      BY <1>1, <2>5 DEF RunnerTakeRow, TypeOK
    <3>4. Shown(jobRow'[j]) = Shown(jobRow[j])
      BY <1>1, <3>2, <3>3 DEF Shown, Open, Unfinished, TypeOK
    <3>5. AtRow(j)' = AtRow(j)
      <4>1. runner \in [Jobs -> RunnerRecord]
        BY <1>1 DEF TypeOK
      <4>2. runner'[j].at \in {"mark", "collect"}
        BY <2>5, <4>1 DEF RunnerTakeRow, RunnerRecord
      <4>. QED  BY <2>5, <4>2 DEF AtRow, RunnerTakeRow
    <3>. QED  BY <1>1, <2>2, <3>4, <3>5, NothingShows DEF Shows
  <2>6. CASE RunnerMark(j)
    <3>1. w \in Open(j) /\ w \in Rows
      BY <2>4, <2>6
    <3>2. jobRow'[j] = [jobRow[j] EXCEPT ![w] = result] /\ result \in RowResult
      BY <1>1, <2>6, RunnerTyped DEF RunnerMark, TypeOK, Resulted
    <3>3. Shown(jobRow'[j]) = [Shown(jobRow[j]) EXCEPT ![w] = result]
      BY <1>1, <3>1, <3>2 DEF Shown, Unfinished, RowResult, TypeOK
    <3>4. /\ JobReports' = JobReports /\ Phase(j) \in {"open", "stopping"}
          /\ Phases' = [Phases EXCEPT ![j] = IF @ = "stopping" THEN "cancelled" ELSE @]
          /\ RowResults' = [RowResults EXCEPT ![j] = [Shown(jobRow[j]) EXCEPT ![w] = result]]
      <4>0. AtRow(j) /\ ~ AtRow(j)'
        BY <1>1, <2>6 DEF RunnerMark, AtRow, TypeOK, RunnerRecord
      <4>1. /\ Phases' = [Phases EXCEPT ![j] = Phase(j)']
            /\ RowResults' = [RowResults EXCEPT ![j] = Shown(jobRow'[j])]
            /\ JobReports' = [JobReports EXCEPT ![j] = JobReports[j]]
        BY <1>1, <1>3, <2>2, OneJobShows, ShownAs
      <4>. QED  BY <1>3, <2>2, <3>3, <4>0, <4>1, ShownAs DEF JobReports
    <3>5. RowResults' = [RowResults EXCEPT ![j][w] = result]
      BY <1>3, <3>4, ShownAs
    <3>6. RowResults[j][w] = "OPEN"
      BY <1>3, <3>1, ShownAs DEF Shown, Open
    <3>7. Promised!Record(j, w, result)
      BY <1>3, <2>2, <3>4, <3>5, <3>6, ShownAs DEF Promised!Record
    <3>. QED
      BY <1>3, <3>1, <3>2, <3>7 DEF Shows, Promised!Next, Promised!Results, RowResult
  <2>. QED  BY <2>3, <2>5, <2>6
<1>. QED  BY <1>2, <1>3

\* A job is finished with a report that is true of its rows.
LEMMA ReportShows ==
  ASSUME TypeOK, TypeOK', NEW j \in Jobs \ SlowRunners, Agreed(j)',
         job[j].status \in Active, job'[j].status \in Finished,
         \A i \in Jobs \ {j} : /\ job'[i] = job[i] /\ jobRow'[i] = jobRow[i]
                              /\ runner'[i] = runner[i],
         \/ Shown(jobRow'[j]) = Shown(jobRow[j])
         \/ Shown(jobRow'[j]) = Promised!Dropped(Shown(jobRow[j]))
  PROVE  Shows
<1>1. /\ job'[j] \in Promised!Reports
      /\ Promised!Truthful(job'[j], Shown(jobRow'[j]))
  <2>1. Shown(jobRow[j])' = Shown(jobRow'[j])
    BY DEF Shown
  <2>. QED  BY <2>1, ReportTruthful
<1>2. Phase(j) = "open" /\ Phase(j)' = "done" /\ Report(j)' = job'[j]
  BY PhaseIs, PhaseBecomes
<1>3. /\ Phases' = [Phases EXCEPT ![j] = "done"]
      /\ RowResults' = [RowResults EXCEPT ![j] = Shown(jobRow'[j])]
      /\ JobReports' = [JobReports EXCEPT ![j] = job'[j]]
  BY <1>2, OneJobShows
<1>4. RowResults'[j] = Shown(jobRow'[j])
  BY <1>3 DEF RowResults
<1>5. RowResults' \in {RowResults, [RowResults EXCEPT ![j] = Promised!Dropped(@)]}
  <2>1. RowResults = [RowResults EXCEPT ![j] = Shown(jobRow[j])]
    BY ShownAs DEF RowResults
  <2>. QED  BY <1>3, <2>1, ShownAs
<1>6. Promised!Finish(j)
  BY <1>1, <1>2, <1>3, <1>4, <1>5, ShownAs DEF Promised!Finish
<1>. QED  BY <1>1, <1>6 DEF Shows, Promised!Next

LEMMA FinishShows ==
  ASSUME OutcomeInv, TallyInv, TypeOK', NEW j \in Jobs, RunnerFinish(j)
  PROVE  Shows
<1>1. /\ JobInv /\ TypeOK /\ jobRow' = jobRow
      /\ \A i \in Jobs \ {j} : job'[i] = job[i] /\ runner'[i] = runner[i]
      /\ runner[j].at = "finish" /\ ~ AtRow(j) /\ ~ AtRow(j)'
  BY DEF OutcomeInv, JobInv, RunnerFinish, TypeOK, RunnerRecord, AtRow
<1>2. CASE j \in SlowRunners
  BY <1>1, <1>2, OneJobShows DEF Shows
<1>3. CASE job' = job
  <2>1. \A i \in Jobs : AtRow(i)' = AtRow(i)
    BY <1>1 DEF AtRow
  <2>. QED  BY <1>1, <1>3, <2>1, QuietShows
<1>4. CASE j \notin SlowRunners /\ job' # job
  <2>1. /\ job'[j] = [status |-> runner[j].result,
                      succeeded |-> runner[j].succeeded, failed |-> runner[j].failed]
        /\ runner[j].result = "CANCELLED" \/ job[j].status # "CANCELLED"
    BY <1>1, <1>4 DEF RunnerFinish, TypeOK
  <2>2. Tallied(j) /\ job[j].status # "NONE"
    BY <1>1, <1>4, RunnerHasJob DEF TallyInv
  <2>3. CASE runner[j].result = "CANCELLED"
    <3>1. job[j].status = "CANCELLED" /\ job'[j].status = "CANCELLED"
      BY <1>1, <2>1, <2>2, <2>3 DEF Tallied, Resolve
    <3>2. Phase(j) = Phase(j)' /\ Report(j) = Report(j)'
      BY <1>1, <3>1, PhaseIs, PhaseBecomes DEF Finished
    <3>. QED  BY <1>1, <3>2, NothingShows DEF Shows
  <2>4. CASE runner[j].result # "CANCELLED"
    <3>1. Agreed(j)' /\ job'[j].status \in Finished
      <4>1. Agreed(j)'
        BY <1>1, <2>1, <2>2, ReportAgrees
      <4>2. runner[j].result \in Ended
        BY <1>1, RunnerTyped DEF Resulted
      <4>. QED  BY <2>1, <2>4, <4>1, <4>2 DEF Finished
    <3>2. CASE job[j].status \in Active
      BY <1>1, <1>4, <3>1, <3>2, ReportShows
    <3>3. CASE job[j].status \in Finished
      <4>1. runner[j].result = "FAILED"
        BY <1>1, <2>2, <2>4, <3>3
           DEF Tallied, Unended, Active, Finished, Ended
      <4>2. /\ job'[j] \in Promised!Reports
            /\ Promised!Truthful(job'[j], Shown(jobRow[j]))
        <5>1. Shown(jobRow[j])' = Shown(jobRow[j])
          BY <1>1 DEF Shown
        <5>. QED  BY <3>1, <5>1, ReportTruthful
      <4>3. Phase(j) = "done" /\ Phase(j)' = "done" /\ Report(j)' = job'[j]
        BY <1>1, <3>1, <3>3, PhaseIs, PhaseBecomes
      <4>4. /\ Phases' = Phases /\ RowResults' = RowResults
            /\ JobReports' = [JobReports EXCEPT ![j] = job'[j]]
        <5>1. /\ Phases' = [Phases EXCEPT ![j] = Phases[j]]
              /\ RowResults' = [RowResults EXCEPT ![j] = RowResults[j]]
              /\ JobReports' = [JobReports EXCEPT ![j] = job'[j]]
          BY <1>1, <1>4, <4>3, OneJobShows, ShownAs
        <5>. QED  BY <5>1 DEF Phases, RowResults
      <4>5. Promised!Fail(j)
        <5>1. job'[j].status = "FAILED"
          BY <2>1, <4>1
        <5>2. Phases[j] = "done" /\ RowResults[j] = Shown(jobRow[j])
          BY <1>4, <4>3, ShownAs
        <5>. QED  BY <4>2, <4>4, <5>1, <5>2 DEF Promised!Fail
      <4>. QED  BY <1>4, <4>2, <4>5 DEF Shows, Promised!Next
    <3>. QED  BY <1>1, <2>1, <2>2, <2>4, <3>2, <3>3, PhaseIs
  <2>. QED  BY <2>3, <2>4
<1>. QED  BY <1>2, <1>3, <1>4

\* A cancellation stops a job, or hides the report of one that is done.
LEMMA CancelShows ==
  ASSUME TypeOK, TypeOK', TallyInv, CancelsExist, NEW j \in Jobs, CancelWrite(j)
  PROVE  Shows
<1>1. /\ jobRow' = jobRow /\ job'[j].status = "CANCELLED" /\ job[j].status # "NONE"
      /\ \A i \in Jobs \ {j} : job'[i] = job[i]
      /\ runner' = runner /\ AtRow(j)' = AtRow(j)
  BY DEF CancelWrite, TypeOK, JobRecord, CancelsExist, AtRow
<1>2. CASE j \in SlowRunners
  BY <1>1, <1>2, OneJobShows DEF Shows
<1>3. CASE j \notin SlowRunners
  <2>. DEFINE p == IF AtRow(j) THEN "stopping" ELSE "cancelled"
  <2>1. Phase(j)' = p /\ Report(j)' = Promised!NoReport
    BY <1>1, PhaseBecomes DEF Finished
  <2>2. CASE job[j].status = "CANCELLED"
    <3>1. Phase(j) = p /\ Report(j) = Promised!NoReport
      BY <2>2, PhaseIs DEF Finished
    <3>. QED  BY <1>1, <2>1, <3>1, NothingShows DEF Shows
  <2>3. CASE job[j].status # "CANCELLED"
    <3>1. Phase(j) \in {"open", "done"}
      BY <1>1, <2>3, PhaseIs
    <3>2. /\ Phases' = [Phases EXCEPT ![j] = p] /\ RowResults' = RowResults
          /\ JobReports' = [JobReports EXCEPT ![j] = Promised!NoReport]
      <4>1. /\ Phases' = [Phases EXCEPT ![j] = p]
            /\ RowResults' = [RowResults EXCEPT ![j] = RowResults[j]]
            /\ JobReports' = [JobReports EXCEPT ![j] = Promised!NoReport]
        BY <1>1, <1>3, <2>1, OneJobShows, ShownAs
      <4>. QED  BY <4>1 DEF RowResults
    <3>3. CASE ~ AtRow(j)
      <4>1. Promised!Cancel(j)
        BY <1>3, <3>1, <3>2, <3>3, ShownAs DEF Promised!Cancel
      <4>. QED  BY <1>3, <4>1 DEF Shows, Promised!Next
    <3>4. CASE AtRow(j)
      <4>1. job[j].status \in Unended
        BY <1>3, <3>4 DEF TallyInv, Tallied, AtRow
      <4>2. Phase(j) = "open" /\ Report(j) = Promised!NoReport
        BY <2>3, <4>1, PhaseIs DEF Unended, Active, Finished, Ended
      <4>3. JobReports' = JobReports
        BY <1>3, <3>2, <4>2, ShownAs DEF JobReports
      <4>4. Promised!CancelAtRow(j)
        BY <1>3, <3>2, <3>4, <4>2, <4>3, ShownAs DEF Promised!CancelAtRow
      <4>. QED  BY <1>3, <4>4 DEF Shows, Promised!Next
    <3>. QED  BY <3>3, <3>4
  <2>. QED  BY <2>2, <2>3
<1>. QED  BY <1>2, <1>3

\* A reconciliation fails the open rows and finishes the job, or finds it
\* cancelled or settled.
LEMMA CommitShows ==
  ASSUME OutcomeInv, TallyInv, TypeOK', TallyInv', NEW c \in Cleaners,
         ReconcileCommit(c)
  PROVE  Shows
<1>1. PICK j \in Jobs, r \in [Rows -> RowStatus] :
          j = cleaner[c].job /\ r = cleaner[c].rows
  BY DEF OutcomeInv, JobInv, WellPlaced, ReconcileCommit, TypeOK, CleanerRecord
<1>2. /\ TypeOK /\ cleaner[c].at = "commit"
      /\ \A i \in Jobs \ {j} : job'[i] = job[i] /\ jobRow'[i] = jobRow[i]
      /\ runner' = runner
  BY <1>1 DEF OutcomeInv, JobInv, ReconcileCommit, TypeOK
<1>3. CASE j \in SlowRunners
  BY <1>2, <1>3, OneJobShows DEF Shows
<1>4. CASE ~ cleaner[c].active
  BY <1>4, QuietShows DEF ReconcileCommit, AtRow
<1>5. CASE j \notin SlowRunners /\ cleaner[c].active
  <2>1. \/ jobRow[j] = r /\ job[j].status \in Unended
        \/ jobRow[j] = Settled(r) /\ job[j].status \notin Active
    BY <1>1, <1>2, <1>5 DEF TallyInv, Current
  <2>2. jobRow'[j] = Settled(r)
    <3>1. jobRow'[j] = [w \in Rows |->
                          IF r[w] \in Unfinished THEN "FAILED" ELSE jobRow[j][w]]
      BY <1>1, <1>2, <1>5 DEF ReconcileCommit, TypeOK
    <3>. QED  BY <2>1, <3>1 DEF Settled
  <2>3. Shown(Settled(r)) = Promised!Dropped(Shown(r))
    BY DEF Shown, Settled, Promised!Dropped, Unfinished, RowStatus, RowResult
  <2>4. CASE job[j].status \in Active
    <3>1. jobRow[j] = r
      BY <2>1, <2>4
    <3>2. job'[j].status \in {"SUCCEEDED", "PARTIAL", "FAILED"}
      <4>. DEFINE succeeded == Cardinality({w \in Rows : r[w] = "COLLECTED"})
                  failed == Cardinality(StaleFailed(r))
      <4>1. job'[j] = [status |-> Resolve(succeeded, failed),
                       succeeded |-> succeeded, failed |-> failed]
        BY <1>1, <1>2, <1>5, <2>4 DEF ReconcileCommit, TypeOK, Stale
      <4>. HIDE DEF succeeded, failed
      <4>. QED  BY <4>1 DEF Resolve
    <3>3. Agreed(j)' /\ job'[j].status \in Finished
      BY <1>5, <3>2 DEF TallyInv, Finished, Ended
    <3>. QED  BY <1>2, <1>5, <2>2, <2>3, <2>4, <3>1, <3>3, ReportShows
  <2>5. CASE job[j].status \notin Active
    <3>1. job' = job
      BY <1>1, <2>5 DEF ReconcileCommit, Stale
    <3>2. Phase(j)' = Phase(j) /\ Report(j)' = Report(j)
      BY <1>2, <3>1 DEF Phase, Report, AtRow
    <3>3. CASE jobRow[j] = Settled(r)
      BY <1>2, <2>2, <3>2, <3>3, NothingShows DEF Shows
    <3>4. CASE jobRow[j] = r /\ job[j].status = "CANCELLED"
      <4>1. Phase(j) = "cancelled"
        <5>1. runner[j].at = "done"
          BY <1>1, <1>2, <1>5 DEF TallyInv, RunnerOver
        <5>. QED  BY <1>2, <3>4, <5>1, PhaseIs DEF AtRow
      <4>2. /\ Phases' = Phases /\ JobReports' = JobReports
            /\ RowResults' = [RowResults EXCEPT ![j] = Promised!Dropped(@)]
        <5>1. /\ Phases' = [Phases EXCEPT ![j] = Phases[j]]
              /\ RowResults' = [RowResults EXCEPT ![j] = Shown(jobRow'[j])]
              /\ JobReports' = [JobReports EXCEPT ![j] = JobReports[j]]
          BY <1>2, <1>5, <3>2, OneJobShows, ShownAs
        <5>. QED
          BY <1>5, <2>2, <2>3, <3>4, <5>1, ShownAs DEF Phases, JobReports
      <4>3. Promised!Drop(j)
        BY <1>5, <4>1, <4>2, ShownAs DEF Promised!Drop
      <4>. QED  BY <1>5, <4>3 DEF Shows, Promised!Next
    <3>. QED  BY <2>1, <2>5, <3>3, <3>4 DEF Unended
  <2>. QED  BY <2>4, <2>5
<1>. QED  BY <1>3, <1>4, <1>5

\* The other steps of a runner write nothing, but one that ends gives up the
\* row at hand.
LEMMA RunnerShows ==
  ASSUME TypeOK, TypeOK', NEW j \in Jobs,
         \/ RunnerLoad(j) \/ RunnerCheck(j) \/ RunnerCollect(j) \/ RunnerExtend(j)
         \/ RunnerSkipFlush(j) \/ RunnerUnlock(j) \/ RunnerMarkFails(j)
         \/ RunnerError(j) \/ RunnerDies(j)
  PROVE  Shows
<1>1. /\ job' = job /\ jobRow' = jobRow
      /\ \A i \in Jobs \ {j} : runner'[i] = runner[i]
  BY DEF RunnerLoad, RunnerCheck, RunnerCollect, RunnerExtend, RunnerSkipFlush,
         RunnerUnlock, RunnerMarkFails, RunnerError, RunnerDies, TypeOK
<1>2. CASE job[j].status = "CANCELLED" => AtRow(j)' = AtRow(j)
  <2>1. \A i \in Jobs \ {j} : AtRow(i)' = AtRow(i)
    BY <1>1 DEF AtRow
  <2>. QED  BY <1>1, <1>2, <2>1, QuietShows
<1>3. CASE j \in SlowRunners
  BY <1>1, <1>3, OneJobShows DEF Shows
<1>4. CASE /\ j \notin SlowRunners /\ job[j].status = "CANCELLED"
           /\ AtRow(j)' # AtRow(j)
  <2>1. AtRow(j) /\ ~ AtRow(j)'
    <3>1. runner \in [Jobs -> RunnerRecord]
      BY DEF TypeOK
    <3>2. CASE RunnerCheck(j)
      <4>1. runner'[j].at = "finish"
        BY <1>4, <3>1, <3>2 DEF RunnerCheck, RunnerRecord
      <4>. QED  BY <1>4, <3>2, <4>1 DEF AtRow, RunnerCheck
    <3>3. CASE RunnerCollect(j) \/ RunnerMarkFails(j)
      BY <1>4, <3>1, <3>3 DEF AtRow, RunnerCollect, RunnerMarkFails, RunnerRecord
    <3>4. CASE \/ RunnerLoad(j) \/ RunnerExtend(j) \/ RunnerSkipFlush(j)
               \/ RunnerUnlock(j) \/ RunnerError(j) \/ RunnerDies(j)
      <4>1. runner'[j].at \in {"start", "check", "finish", "done"}
        <5>1. \/ runner'[j] = Stopped
              \/ runner'[j] = [runner[j] EXCEPT !.at = "start"]
              \/ RunnerExtend(j) \/ RunnerSkipFlush(j) \/ RunnerError(j)
          BY <3>1, <3>4 DEF RunnerLoad, RunnerUnlock, RunnerDies
        <5>2. CASE RunnerExtend(j) \/ RunnerSkipFlush(j) \/ RunnerError(j)
          BY <3>1, <5>2 DEF RunnerExtend, RunnerSkipFlush, RunnerError, RunnerRecord
        <5>3. CASE runner'[j] = [runner[j] EXCEPT !.at = "start"]
          BY <3>1, <5>3 DEF RunnerRecord
        <5>. QED  BY <5>1, <5>2, <5>3, StoppedTyped
      <4>. QED  BY <1>4, <4>1 DEF AtRow
    <3>. QED  BY <3>2, <3>3, <3>4
  <2>2. /\ Phase(j) = "stopping" /\ Phase(j)' = "cancelled"
        /\ Report(j)' = Report(j)
    BY <1>1, <1>4, <2>1, PhaseIs, PhaseBecomes DEF Finished
  <2>3. /\ Phases' = [Phases EXCEPT ![j] = "cancelled"]
        /\ RowResults' = RowResults /\ JobReports' = JobReports
    <3>1. /\ Phases' = [Phases EXCEPT ![j] = "cancelled"]
          /\ RowResults' = [RowResults EXCEPT ![j] = RowResults[j]]
          /\ JobReports' = [JobReports EXCEPT ![j] = JobReports[j]]
      BY <1>1, <1>4, <2>2, OneJobShows, ShownAs
    <3>. QED  BY <3>1 DEF RowResults, JobReports
  <2>4. Promised!Stop(j)
    BY <1>4, <2>2, <2>3, ShownAs DEF Promised!Stop
  <2>. QED  BY <1>4, <2>4 DEF Shows, Promised!Next
<1>. QED  BY <1>2, <1>3, <1>4

\* Every step shows as a step of CollectionJobs, or not at all.
LEMMA NextShows ==
  OutcomeInv /\ TallyInv /\ CancelsExist /\ OutcomeInv' /\ TallyInv' /\ [Next]_vars
    => Shows
<1>. SUFFICES ASSUME OutcomeInv, TallyInv, CancelsExist, OutcomeInv', TallyInv',
                     [Next]_vars
              PROVE  Shows
  OBVIOUS
<1>1. TypeOK /\ TypeOK'
  BY DEF OutcomeInv, JobInv
<1>2. ASSUME NEW j \in Jobs, \E rows \in SUBSET Rows : Create(j, rows)
      PROVE  Shows
  BY <1>1, <1>2, CreateShows
<1>3. ASSUME NEW j \in Jobs,
             RunnerStep(j) \/ RunnerMarkFails(j) \/ RunnerError(j) \/ RunnerDies(j)
      PROVE  Shows
  <2>1. CASE RunnerStart(j)
    BY <1>1, <2>1, StartShows
  <2>2. CASE RunnerTakeRow(j) \/ RunnerMark(j) \/ RunnerFlush(j)
    BY <1>1, <2>2, RowShows
  <2>3. CASE RunnerFinish(j)
    BY <1>1, <2>3, FinishShows
  <2>4. CASE \/ RunnerLoad(j) \/ RunnerCheck(j) \/ RunnerCollect(j)
             \/ RunnerExtend(j) \/ RunnerSkipFlush(j) \/ RunnerUnlock(j)
             \/ RunnerMarkFails(j) \/ RunnerError(j) \/ RunnerDies(j)
    BY <1>1, <2>4, RunnerShows
  <2>. QED  BY <1>3, <2>1, <2>2, <2>3, <2>4 DEF RunnerStep
<1>4. ASSUME NEW j \in Jobs,
             CancelRead(j) \/ CancelWrite(j) \/ CancelUnlock(j) \/ CancelDies(j)
      PROVE  Shows
  <2>1. CASE CancelRead(j) \/ CancelUnlock(j) \/ CancelDies(j)
    BY <2>1, QuietShows DEF CancelRead, CancelUnlock, CancelDies, AtRow
  <2>. QED  BY <1>1, <1>4, <2>1, CancelShows
<1>5. ASSUME NEW c \in Cleaners, CleanerStep(c)  PROVE Shows
  <2>1. CASE ReconcileRead(c) \/ ReconcileSnapshot(c)
    BY <2>1, QuietShows DEF ReconcileRead, ReconcileSnapshot, AtRow
  <2>. QED  BY <1>1, <1>5, <2>1, CommitShows DEF CleanerStep
<1>6. CASE Expire \/ UNCHANGED vars
  BY <1>6, QuietShows DEF Expire, vars, AtRow
<1>7. ASSUME NEW w \in Singles, SingleCheck(w) \/ SingleCollect(w)  PROVE Shows
  BY <1>7, QuietShows DEF SingleCheck, SingleCollect, AtRow
<1>. QED  BY <1>2, <1>3, <1>4, <1>5, <1>6, <1>7 DEF Next

\* Runners that may be overtaken by cancellations, die, or leave their jobs to
\* any number of overlapping reconciliations, together keep the promise of
\* CollectionJobs: a row gets one result, a finished job keeps its rows and a
\* report that is true of them, and a cancellation lets only the row at hand go
\* on, unless it is overrun before the first row.
THEOREM JobsKeepPromise == Spec => ImplementsPromise
<1>1. OutcomeInv => JobInv
  BY DEF OutcomeInv
<1>2. Shows <=> [Promised!Next]_(Promised!jobsVars)
  BY DEF Shows
<1>. QED
  BY InitOutcome, NextOutcome, InitTally, NextTally, InitShows, NextCancels, NextShows,
     <1>1, <1>2, PTL DEF Spec, ImplementsPromise, Promised!Spec
=============================================================================
