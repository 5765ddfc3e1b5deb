----------------------------- MODULE PeriodProofs -----------------------------
(***************************************************************************)
(* Theorems about the months: a month is locked exactly when it has a      *)
(* closing snapshot, what was carried forward under a record is what was   *)
(* closed, the live entries of every month are numbered 1, 2, ... without  *)
(* a gap and without a duplicate, and the ledger, with all its requests in *)
(* flight, implements PeriodBooks.                                         *)
(***************************************************************************)
EXTENDS LedgerProofs, SequenceTheorems

\* A carry forward that has passed its checks holds the balances of a closing
\* snapshot that is still there: reopening ends it.
CarryRequestsMatch ==
    \A r \in Requests : req[r].at = "carryCommit" =>
        /\ closing[req[r].month].exists
        /\ req[r].entries = closing[req[r].month].entries

\* A close that has passed its checks claims an open month.
CloseRequestsChecked ==
    \A r \in Requests : req[r].at = "closeCommit" => CanBeClosed(req[r].status)

\* A month that is not closed has no balances.
NoBalanceUnclosed ==
    \A m \in Months : ~ closing[m].exists => closing[m].entries = {}

PeriodInv ==
    /\ TypeOK
    /\ LockedIffClosed
    /\ NoBalanceUnclosed
    /\ CarryMatchesClosing
    /\ CarryRequestsMatch
    /\ CloseRequestsChecked

\* Most steps leave alone all that the invariant is about.
SnapshotsKept ==
    /\ UNCHANGED <<opening, closing, carry>>
    /\ \A m \in Months : period'[m].status = period[m].status
InFlightKept ==
    \A x \in Requests : req'[x].at \in {"carryCommit", "closeCommit"}
                            => req'[x] = req[x]

-----------------------------------------------------------------------------
\* A step of a component that leaves the months alone keeps the invariant.
LEMMA FrameInv ==
  ASSUME PeriodInv, TypeOK', SnapshotsKept, InFlightKept
  PROVE  PeriodInv'
<1>1. LockedIffClosed'
  BY DEF PeriodInv, LockedIffClosed, SnapshotsKept, Months
<1>2. CarryMatchesClosing'
  BY DEF PeriodInv, CarryMatchesClosing, SnapshotsKept, Existing, Months
<1>3. CarryRequestsMatch'
  BY DEF PeriodInv, CarryRequestsMatch, SnapshotsKept, InFlightKept
<1>4. NoBalanceUnclosed' /\ CloseRequestsChecked'
  BY DEF PeriodInv, NoBalanceUnclosed, CloseRequestsChecked, SnapshotsKept,
         InFlightKept
<1>. QED  BY <1>1, <1>2, <1>3, <1>4 DEF PeriodInv

\* A handler of another operation goes on: the carries and closes in flight stay.
LEMMA HoldKeepsOthers ==
  ASSUME TypeOK, NEW r \in Requests, NEW rec, Hold(r, rec),
         rec.at \notin {"carryCommit", "closeCommit"}
  PROVE  InFlightKept
  BY DEF Hold, InFlightKept, TypeOK, RequestsOK

\* So they do when it answers.
LEMMA AnswerKeepsOthers ==
  ASSUME TypeOK, NEW r \in Requests, Answer(r)
  PROVE  InFlightKept
  BY HoldKeepsOthers DEF Answer, Hold, Idle

\* A step that writes no row of a month changes no snapshot.
LEMMA RowsKeepSnapshots ==
  ASSUME UNCHANGED periodVars
  PROVE  SnapshotsKept
  BY DEF periodVars, SnapshotsKept

\* Allocating a number changes no status and no snapshot.
LEMMA AllocateKeepsSnapshots ==
  ASSUME TypeOK, NEW m, AllocateNumber(m), UNCHANGED <<opening, closing, carry>>
  PROVE  SnapshotsKept
  BY DEF AllocateNumber, SnapshotsKept, TypeOK, PeriodRowsOK, PeriodRow

\* The transactions leave the months alone, but for the numbers.
LEMMA CollectedFrame ==
  ASSUME TypeOK, NEW r \in Requests, CollectedStep(r)
  PROVE  SnapshotsKept /\ InFlightKept
<1>1. ASSUME NEW m \in Months, NEW a \in Amounts, NEW st \in ManualStatus,
             CreateGuard(r, m, a, st)
      PROVE  SnapshotsKept /\ InFlightKept
  BY <1>1, RowsKeepSnapshots, HoldKeepsOthers DEF CreateGuard, Idle
<1>2. ASSUME NEW t \in Txs, CreateInsert(r, t)
      PROVE  SnapshotsKept /\ InFlightKept
  BY <1>2, RowsKeepSnapshots, AnswerKeepsOthers DEF CreateInsert
<1>3. ASSUME NEW t \in Txs, NEW m \in Months, NEW a \in Amounts,
             NEW st \in ManualStatus, NEW rev \in BOOLEAN,
             UpdateGuard(r, t, m, a, st, rev)
      PROVE  SnapshotsKept /\ InFlightKept
  BY <1>3, RowsKeepSnapshots, HoldKeepsOthers DEF UpdateGuard, Idle
<1>4. ASSUME UpdateCommit(r) PROVE SnapshotsKept /\ InFlightKept
  BY <1>4, RowsKeepSnapshots, AnswerKeepsOthers DEF UpdateCommit
<1>5. ASSUME NEW t \in Txs, DeleteGuard(r, t)
      PROVE  SnapshotsKept /\ InFlightKept
  BY <1>5, RowsKeepSnapshots, HoldKeepsOthers DEF DeleteGuard, Idle
<1>6. ASSUME DeleteCommit(r) PROVE SnapshotsKept /\ InFlightKept
  BY <1>6, RowsKeepSnapshots, AnswerKeepsOthers DEF DeleteCommit
<1>7. ASSUME NEW t \in Txs, ConfirmRead(r, t)
      PROVE  SnapshotsKept /\ InFlightKept
  <2>1. \E rec : rec.at = "confirmCommit" /\ Hold(r, rec)
    BY <1>7 DEF ConfirmRead, Idle
  <2>. QED  BY <1>7, <2>1, RowsKeepSnapshots, HoldKeepsOthers DEF ConfirmRead
<1>8. ASSUME NEW e \in Entries, ConfirmCommit(r, e)
      PROVE  SnapshotsKept /\ InFlightKept
  BY <1>8, AllocateKeepsSnapshots, AnswerKeepsOthers DEF ConfirmCommit
<1>9. ASSUME NEW e \in Entries, ConfirmCancellationCommit(r, e)
      PROVE  SnapshotsKept /\ InFlightKept
  BY <1>9, AllocateKeepsSnapshots, AnswerKeepsOthers
     DEF ConfirmCancellationCommit
<1>. QED
  BY <1>1, <1>2, <1>3, <1>4, <1>5, <1>6, <1>7, <1>8, <1>9 DEF CollectedStep

\* So do the adjustments of entries.
LEMMA JournalFrame ==
  ASSUME TypeOK, NEW r \in Requests, JournalStep(r)
  PROVE  SnapshotsKept /\ InFlightKept
<1>1. ASSUME NEW op, NEW step \in {"reverseRead", "correctRead"}, NEW e, NEW m,
             NEW a, AdjustGuard(r, op, step, e, m, a)
      PROVE  SnapshotsKept /\ InFlightKept
  BY <1>1, RowsKeepSnapshots, HoldKeepsOthers DEF AdjustGuard, Idle
<1>2. ASSUME NEW from, NEW to \in {"reverseCommit", "correctCommit"},
             AdjustRead(r, from, to)
      PROVE  SnapshotsKept /\ InFlightKept
  <2>1. \E rec : rec.at = to /\ Hold(r, rec)
    BY <1>2, RequestFields DEF AdjustRead, TypeOK, Request
  <2>. QED  BY <1>2, <2>1, RowsKeepSnapshots, HoldKeepsOthers DEF AdjustRead
<1>3. ASSUME NEW e \in Entries, ReverseCommit(r, e)
      PROVE  SnapshotsKept /\ InFlightKept
  BY <1>3, AllocateKeepsSnapshots, AnswerKeepsOthers
     DEF ReverseCommit, ClaimOriginal
<1>4. ASSUME NEW e \in Entries, CorrectCommit(r, e)
      PROVE  SnapshotsKept /\ InFlightKept
  BY <1>4, AllocateKeepsSnapshots, AnswerKeepsOthers
     DEF CorrectCommit, ClaimOriginal
<1>. QED
  BY <1>1, <1>2, <1>3, <1>4
     DEF JournalStep, ReverseGuard, ReverseRead, CorrectGuard, CorrectRead

-----------------------------------------------------------------------------
(* The steps that open, lock and unlock months *)

\* Where a row was missing, a month is opened; nothing else happens.
LEMMA OpeningMonthInv ==
  ASSUME PeriodInv, TypeOK', InFlightKept, NEW n \in Months,
         period[n].status = "NONE",
         period' = [period EXCEPT ![n] = NewPeriod],
         UNCHANGED <<closing, carry>>,
         \A m \in Months \ {n} : opening'[m] = opening[m]
  PROVE  PeriodInv'
<1>1. \A m \in Months : period'[m] = IF m = n THEN NewPeriod ELSE period[m]
  BY DEF PeriodInv, TypeOK, PeriodRowsOK
<1>2. LockedIffClosed'
  BY <1>1 DEF PeriodInv, LockedIffClosed, NewPeriod, Months
<1>3. CarryMatchesClosing'
  <2>1. \A m \in Months : carry[m] => m # n /\ m + 1 # n
    BY DEF PeriodInv, CarryMatchesClosing, Existing
  <2>. QED
    BY <1>1, <2>1 DEF PeriodInv, CarryMatchesClosing, Existing, NewPeriod, Months
<1>4. CarryRequestsMatch'
  BY DEF PeriodInv, CarryRequestsMatch, InFlightKept
<1>5. NoBalanceUnclosed' /\ CloseRequestsChecked'
  BY DEF PeriodInv, NoBalanceUnclosed, CloseRequestsChecked, InFlightKept
<1>. QED  BY <1>2, <1>3, <1>4, <1>5 DEF PeriodInv

\* Collecting a row and generating a repayment keep the invariant.
LEMMA SourceInv ==
  ASSUME PeriodInv, TypeOK', NEW r \in Requests, SourceStep(r)
  PROVE  PeriodInv'
<1>. USE DEF PeriodInv
<1>1. ASSUME NEW w \in Rows, NEW a \in Amounts, NEW st \in Unposted,
             CollectRowRead(r, w, a, st)
      PROVE  PeriodInv'
  <2>1. \E rec : rec.at \notin {"carryCommit", "closeCommit"}
                  /\ Hold(r, rec)
    BY <1>1 DEF CollectRowRead, Idle
  <2>. QED
    BY <1>1, <2>1, RowsKeepSnapshots, HoldKeepsOthers, FrameInv
       DEF CollectRowRead
<1>2. ASSUME NEW t \in Txs, CollectRowInsert(r, t) PROVE PeriodInv'
  <2>1. InFlightKept
    BY <1>2, AnswerKeepsOthers DEF CollectRowInsert
  <2>2. CASE req[r].flag
    <3>1. req[r].month \in Months
      BY <1>2, RequestFields DEF CollectRowInsert, WellFormed, TypeOK
    <3>. QED  BY <1>2, <2>1, <2>2, <3>1, OpeningMonthInv DEF CollectRowInsert
  <2>3. CASE ~ req[r].flag
    BY <1>2, <2>1, <2>3, FrameInv DEF CollectRowInsert, SnapshotsKept
  <2>. QED  BY <2>2, <2>3
<1>3. ASSUME CollectRowAbsorb(r) PROVE PeriodInv'
  BY <1>3, RowsKeepSnapshots, AnswerKeepsOthers, FrameInv DEF CollectRowAbsorb
<1>4. ASSUME NEW s \in Schedules, NEW a \in Amounts, RepaymentCheck(r, s, a)
      PROVE  PeriodInv'
  BY <1>4, RowsKeepSnapshots, HoldKeepsOthers, FrameInv
     DEF RepaymentCheck, Idle
<1>5. ASSUME NEW t \in Txs, RepaymentCommit(r, t) PROVE PeriodInv'
  BY <1>5, RowsKeepSnapshots, AnswerKeepsOthers, FrameInv DEF RepaymentCommit
<1>6. ASSUME NEW rows \in Batches, CancelCollectionRead(r, rows)
      PROVE  PeriodInv'
  BY <1>6, RowsKeepSnapshots, HoldKeepsOthers, FrameInv
     DEF CancelCollectionRead, Idle
<1>7. ASSUME CancelCollectionCommit(r) PROVE PeriodInv'
  BY <1>7, RowsKeepSnapshots, AnswerKeepsOthers, FrameInv
     DEF CancelCollectionCommit
<1>8. ASSUME NEW s \in Schedules, NEW st \in ScheduleStatus,
             UpdateRepaymentCheck(r, s, st)
      PROVE  PeriodInv'
  BY <1>8, RowsKeepSnapshots, HoldKeepsOthers, FrameInv
     DEF UpdateRepaymentCheck, Idle
<1>9. ASSUME UpdateRepaymentCommit(r) PROVE PeriodInv'
  BY <1>9, RowsKeepSnapshots, AnswerKeepsOthers, FrameInv
     DEF UpdateRepaymentCommit
<1>. QED
  BY <1>1, <1>2, <1>3, <1>4, <1>5, <1>6, <1>7, <1>8, <1>9 DEF SourceStep

\* Opening, closing and reopening keep lock, snapshot and carry forward together.
LEMMA PeriodStepInv ==
  ASSUME PeriodInv, TypeOK', NEW r \in Requests, PeriodStep(r)
  PROVE  PeriodInv'
<1>. USE DEF PeriodInv
<1>1. ASSUME NEW m \in Months, OpenCheck(r, m) PROVE PeriodInv'
  BY <1>1, RowsKeepSnapshots, HoldKeepsOthers, FrameInv DEF OpenCheck, Idle
<1>2. ASSUME OpenCommit(r) PROVE PeriodInv'
  <2>1. req[r].month \in Months
    BY <1>2, RequestFields DEF OpenCommit, WellFormed, TypeOK
  <2>2. \A m \in Months \ {req[r].month} : opening'[m] = opening[m]
    BY <1>2 DEF OpenCommit, TypeOK, PeriodRowsOK
  <2>. QED
    BY <1>2, <2>1, <2>2, AnswerKeepsOthers, OpeningMonthInv DEF OpenCommit
<1>3. ASSUME NEW m \in Months, CloseRead(r, m) PROVE PeriodInv'
  <2>1. SnapshotsKept
    BY <1>3, RowsKeepSnapshots DEF CloseRead
  <2>2. \A x \in Requests : req'[x] = req[x] \/
            (req'[x].at = "closeCommit" /\ CanBeClosed(req'[x].status))
    BY <1>3 DEF CloseRead, Hold, Idle, TypeOK, RequestsOK
  <2>3. CarryRequestsMatch' /\ CloseRequestsChecked'
    BY <2>1, <2>2 DEF CarryRequestsMatch, CloseRequestsChecked, SnapshotsKept
  <2>4. LockedIffClosed' /\ CarryMatchesClosing' /\ NoBalanceUnclosed'
    BY <2>1 DEF LockedIffClosed, CarryMatchesClosing, NoBalanceUnclosed,
                SnapshotsKept, Existing, Months
  <2>. QED  BY <2>3, <2>4
<1>4. ASSUME CloseCommit(r) PROVE PeriodInv'
  <2>. DEFINE n == req[r].month
  <2>1. n \in Months
    BY <1>4, RequestFields DEF CloseCommit, WellFormed, TypeOK
  <2>2. \A m \in Months :
          /\ period'[m].status = IF m = n THEN "LOCKED" ELSE period[m].status
          /\ m = n => closing'[m].exists
          /\ m # n => closing'[m] = closing[m]
    BY <1>4 DEF CloseCommit, TypeOK, PeriodRowsOK, PeriodRow
  <2>3. ~ closing[n].exists /\ UNCHANGED <<opening, carry>>
    BY <1>4 DEF CloseCommit
  <2>4. LockedIffClosed'
    BY <2>2 DEF LockedIffClosed, Months
  <2>5. CarryMatchesClosing'
    <3>1. ~ carry[n]
      BY <2>1, <2>3 DEF CarryMatchesClosing, LockedIffClosed
    <3>. QED
      BY <2>2, <2>3, <3>1 DEF CarryMatchesClosing, Existing, Months
  <2>6. CarryRequestsMatch'
    <3>1. InFlightKept
      BY <1>4, AnswerKeepsOthers DEF CloseCommit
    <3>2. \A x \in Requests : req[x].at = "carryCommit" =>
            req[x].month \in Months /\ req[x].month # n
      BY <2>3, RequestFields DEF CarryRequestsMatch, WellFormed, TypeOK
    <3>. QED  BY <2>2, <3>1, <3>2 DEF CarryRequestsMatch, InFlightKept
  <2>7. NoBalanceUnclosed' /\ CloseRequestsChecked'
    <3>1. InFlightKept
      BY <1>4, AnswerKeepsOthers DEF CloseCommit
    <3>. QED
      BY <2>2, <3>1
         DEF NoBalanceUnclosed, CloseRequestsChecked, InFlightKept, Months
  <2>. QED  BY <2>4, <2>5, <2>6, <2>7
<1>5. ASSUME NEW m \in Months, ReopenCheck(r, m) PROVE PeriodInv'
  <2>1. \E rec : rec.at \notin {"carryCommit", "closeCommit"}
                  /\ Hold(r, rec)
    BY <1>5 DEF ReopenCheck, Idle
  <2>. QED
    BY <1>5, <2>1, RowsKeepSnapshots, HoldKeepsOthers, FrameInv DEF ReopenCheck
<1>6. ASSUME ReopenRollbackRead(r) PROVE PeriodInv'
  <2>1. \E rec : rec.at = "reopenCommit" /\ Hold(r, rec)
    BY <1>6, RequestFields DEF ReopenRollbackRead, TypeOK, Request
  <2>. QED
    BY <1>6, <2>1, RowsKeepSnapshots, HoldKeepsOthers, FrameInv
       DEF ReopenRollbackRead
<1>7. ASSUME ReopenCommit(r) PROVE PeriodInv'
  <2>. DEFINE m == req[r].month
              n == m + 1
              rollback == req[r].flag
  <2>1. m \in Months /\ (rollback => n \in Months)
    BY <1>7, RequestFields DEF ReopenCommit, WellFormed, TypeOK
  <2>2. \A k \in Months :
          /\ k = m => period'[k].status = "OPEN"
          /\ k # m => period'[k] = IF rollback /\ k = n THEN NoPeriod ELSE period[k]
    BY <1>7, <2>1 DEF ReopenCommit, TypeOK, PeriodRowsOK, PeriodRow, Months
  <2>3. /\ closing' = [closing EXCEPT ![m] = NoClosing]
        /\ carry' = [carry EXCEPT ![m] = FALSE]
        /\ opening' = opening
        /\ rollback => period[n].status = "OPEN"
    BY <1>7 DEF ReopenCommit, DeleteSnapshots
  <2>4. \A k \in Months :
          /\ closing'[k] = IF k = m THEN NoClosing ELSE closing[k]
          /\ carry'[k] <=> (k # m /\ carry[k])
    BY <2>3 DEF TypeOK, PeriodRowsOK
  <2>5. LockedIffClosed'
    BY <2>1, <2>2, <2>3, <2>4 DEF LockedIffClosed, NoPeriod, NoClosing, Months
  <2>6. CarryMatchesClosing'
    <3>1. ASSUME NEW k \in Months, carry'[k]
          PROVE  /\ period'[k].status = "LOCKED"
                 /\ k + 1 \in Existing'
                 /\ opening'[k + 1].kind = "CARRY_FORWARD"
                 /\ opening'[k + 1].entries = closing'[k].entries
      <4>1. k # m /\ carry[k]
        BY <2>4, <3>1
      <4>2. /\ period[k].status = "LOCKED"
            /\ k + 1 \in Months /\ period[k + 1].status # "NONE"
            /\ opening[k + 1].kind = "CARRY_FORWARD"
            /\ opening[k + 1].entries = closing[k].entries
        BY <4>1 DEF CarryMatchesClosing, Existing
      <4>3. ~ (rollback /\ (k = n \/ k + 1 = n))
        BY <2>1, <2>3, <4>1, <4>2 DEF Months
      <4>4. period'[k].status = "LOCKED" /\ period'[k + 1].status # "NONE"
        BY <2>2, <4>1, <4>2, <4>3
      <4>. QED  BY <2>3, <2>4, <4>1, <4>2, <4>4 DEF Existing, Months
    <3>. QED  BY <3>1 DEF CarryMatchesClosing, Months
  <2>7. CarryRequestsMatch'
    <3>1. ASSUME NEW x \in Requests, req'[x].at = "carryCommit"
          PROVE  /\ req'[x] = req[x]
                 /\ req[x].month \in Months \ {m}
      <4>1. req'[x] = IF x = r \/ HoldsDeleted(req[x], m, rollback) THEN Idle
                                                                   ELSE req[x]
        BY <1>7 DEF ReopenCommit
      <4>2. req'[x] = req[x] /\ ~ HoldsDeleted(req[x], m, rollback)
        BY <3>1, <4>1 DEF Idle
      <4>. QED
        BY <3>1, <4>2, RequestFields DEF HoldsDeleted, WellFormed, TypeOK
    <3>. QED  BY <2>4, <3>1 DEF CarryRequestsMatch
  <2>8. NoBalanceUnclosed'
    BY <2>4 DEF NoBalanceUnclosed, NoClosing, Months
  <2>9. CloseRequestsChecked'
    <3>1. \A x \in Requests : req'[x] \in {Idle, req[x]}
      BY <1>7 DEF ReopenCommit
    <3>. QED  BY <3>1 DEF CloseRequestsChecked, Idle
  <2>. QED  BY <2>5, <2>6, <2>7, <2>8, <2>9
<1>. QED
  BY <1>1, <1>2, <1>3, <1>4, <1>5, <1>6, <1>7 DEF PeriodStep

\* Carry forwards and statements keep them together too.
LEMMA SnapshotStepInv ==
  ASSUME PeriodInv, TypeOK', NEW r \in Requests, SnapshotStep(r)
  PROVE  PeriodInv'
<1>. USE DEF PeriodInv
<1>1. ASSUME NEW m \in Months, CarryCheck(r, m) PROVE PeriodInv'
  <2>1. SnapshotsKept
    BY <1>1, RowsKeepSnapshots DEF CarryCheck
  <2>2. \A x \in Requests : req'[x] = req[x] \/
            (req'[x].month = m /\ req'[x].entries = closing[m].entries)
    BY <1>1 DEF CarryCheck, Hold, Idle, TypeOK, RequestsOK
  <2>3. closing[m].exists
    BY <1>1 DEF CarryCheck
  <2>4. CarryRequestsMatch'
    BY <2>1, <2>2, <2>3 DEF CarryRequestsMatch, SnapshotsKept
  <2>5. LockedIffClosed' /\ CarryMatchesClosing' /\ NoBalanceUnclosed'
    BY <2>1 DEF LockedIffClosed, CarryMatchesClosing, NoBalanceUnclosed,
                SnapshotsKept, Existing, Months
  <2>6. CloseRequestsChecked'
    <3>1. \A x \in Requests : req'[x] = req[x] \/ req'[x].at = "carryCommit"
      BY <1>1 DEF CarryCheck, Hold, Idle, TypeOK, RequestsOK
    <3>. QED  BY <3>1 DEF CloseRequestsChecked
  <2>. QED  BY <2>4, <2>5, <2>6
<1>2. ASSUME CarryCommit(r) PROVE PeriodInv'
  <2>. DEFINE m == req[r].month
              n == m + 1
  <2>1. m \in Months /\ n \in Months
    BY <1>2, RequestFields DEF CarryCommit, WellFormed, TypeOK
  <2>2. closing[m].exists /\ req[r].entries = closing[m].entries
    BY <1>2 DEF CarryCommit, CarryRequestsMatch
  <2>3. UNCHANGED closing /\ InFlightKept /\ opening[n].kind = "NONE"
    BY <1>2, AnswerKeepsOthers DEF CarryCommit
  <2>4. \A k \in Months :
          /\ opening'[k] = IF k = n THEN [kind |-> "CARRY_FORWARD",
                                          entries |-> req[r].entries]
                                    ELSE opening[k]
          /\ carry'[k] <=> (k = m \/ carry[k])
    BY <1>2 DEF CarryCommit, TypeOK, PeriodRowsOK
  <2>5. \A k \in Months : period'[k] = period[k] \/
            (k = n /\ period[k].status = "NONE" /\ period'[k].status = "OPEN")
    BY <1>2, <2>1 DEF CarryCommit, TypeOK, PeriodRowsOK, Existing, NewPeriod
  <2>6. period'[n].status # "NONE"
    BY <1>2, <2>1 DEF CarryCommit, TypeOK, PeriodRowsOK, Existing, NewPeriod
  <2>7. LockedIffClosed'
    BY <2>3, <2>5 DEF LockedIffClosed, Months
  <2>8. CarryMatchesClosing'
    <3>1. ASSUME NEW k \in Months, carry'[k]
          PROVE  /\ period'[k].status = "LOCKED"
                 /\ k + 1 \in Existing'
                 /\ opening'[k + 1].kind = "CARRY_FORWARD"
                 /\ opening'[k + 1].entries = closing'[k].entries
      <4>1. CASE k = m
        <5>1. period[m].status = "LOCKED"
          BY <2>1, <2>2 DEF LockedIffClosed
        <5>2. period'[m].status = "LOCKED"
          BY <2>1, <2>5, <5>1
        <5>. QED
          BY <2>1, <2>2, <2>3, <2>4, <2>6, <4>1, <5>2 DEF Existing, Months
      <4>2. CASE k # m
        <5>1. /\ period[k].status = "LOCKED"
              /\ k + 1 \in Months /\ period[k + 1].status # "NONE"
              /\ opening[k + 1].kind = "CARRY_FORWARD"
              /\ opening[k + 1].entries = closing[k].entries
          BY <2>4, <3>1, <4>2 DEF CarryMatchesClosing, Existing
        <5>2. k + 1 # n
          BY <2>1, <4>2 DEF Months
        <5>3. period'[k].status = "LOCKED" /\ period'[k + 1].status # "NONE"
          BY <2>5, <5>1
        <5>. QED  BY <2>3, <2>4, <5>1, <5>2, <5>3 DEF Existing, Months
      <4>. QED  BY <4>1, <4>2
    <3>. QED  BY <3>1 DEF CarryMatchesClosing, Months
  <2>9. /\ CarryRequestsMatch'
        /\ NoBalanceUnclosed'
        /\ CloseRequestsChecked'
    BY <2>3 DEF CarryRequestsMatch, NoBalanceUnclosed, CloseRequestsChecked,
                InFlightKept
  <2>. QED  BY <2>7, <2>8, <2>9
<1>3. ASSUME NEW m \in Months, CancelCarryRead(r, m) PROVE PeriodInv'
  BY <1>3, RowsKeepSnapshots, HoldKeepsOthers, FrameInv
     DEF CancelCarryRead, Idle
<1>4. ASSUME CancelCarryCommit(r) PROVE PeriodInv'
  <2>. DEFINE m == req[r].month
  <2>1. m \in Months
    BY <1>4, RequestFields DEF CancelCarryCommit, WellFormed, TypeOK
  <2>2. InFlightKept
    <3>1. \A x \in Requests : req'[x] \in {Idle, req[x]}
      BY <1>4 DEF CancelCarryCommit
    <3>. QED  BY <3>1 DEF InFlightKept, Idle
  <2>3. \A k \in Months :
          /\ carry'[k] <=> (k # m /\ carry[k])
          /\ k # m + 1 => opening'[k] = opening[k]
    BY <1>4 DEF CancelCarryCommit, TypeOK, PeriodRowsOK
  <2>4. UNCHANGED <<period, closing>>
    BY <1>4 DEF CancelCarryCommit
  <2>5. CarryMatchesClosing'
    BY <2>1, <2>3, <2>4 DEF CarryMatchesClosing, Existing, Months
  <2>. QED
    BY <2>2, <2>4, <2>5
       DEF LockedIffClosed, CarryRequestsMatch, NoBalanceUnclosed,
           CloseRequestsChecked, InFlightKept, Months
<1>5. ASSUME NEW m \in Months, StatementsRead(r, m) PROVE PeriodInv'
  BY <1>5, RowsKeepSnapshots, HoldKeepsOthers, FrameInv DEF StatementsRead, Idle
<1>6. ASSUME StatementsCommit(r) PROVE PeriodInv'
  BY <1>6, AnswerKeepsOthers, FrameInv DEF StatementsCommit, SnapshotsKept
<1>. QED
  BY <1>1, <1>2, <1>3, <1>4, <1>5, <1>6 DEF SnapshotStep

-----------------------------------------------------------------------------
\* In an empty workspace there is nothing to disagree.
LEMMA InitInv == Init => PeriodInv
  BY InitType
     DEF Init, PeriodInv, LockedIffClosed, CarryMatchesClosing, NoBalanceUnclosed,
         CarryRequestsMatch, CloseRequestsChecked, NoPeriod, NoClosing, Idle

\* Every step of every request keeps the invariant.
LEMMA NextInv == PeriodInv /\ [Next]_vars => PeriodInv'
<1>. SUFFICES ASSUME PeriodInv, [Next]_vars PROVE PeriodInv'
  OBVIOUS
<1>1. TypeOK'
  BY NextType DEF PeriodInv
<1>2. CASE UNCHANGED vars
  BY <1>1, <1>2, FrameInv DEF vars, SnapshotsKept, InFlightKept
<1>3. CASE Next
  <2>1. PICK r \in Requests :
            \/ PeriodStep(r) \/ CollectedStep(r) \/ JournalStep(r)
            \/ SnapshotStep(r) \/ SourceStep(r) \/ Fail(r)
    BY <1>3 DEF Next
  <2>2. CASE CollectedStep(r)
    BY <1>1, <2>2, CollectedFrame, FrameInv DEF PeriodInv
  <2>3. CASE JournalStep(r)
    BY <1>1, <2>3, JournalFrame, FrameInv DEF PeriodInv
  <2>4. CASE Fail(r)
    BY <1>1, <2>4, RowsKeepSnapshots, AnswerKeepsOthers, FrameInv
       DEF Fail, PeriodInv
  <2>. QED
    BY <1>1, <2>1, <2>2, <2>3, <2>4, PeriodStepInv, SnapshotStepInv, SourceInv
<1>. QED  BY <1>2, <1>3

\* A month is locked exactly when it has its closing snapshot: no interleaving
\* of closing, reopening, rolling back and failing requests leaves the one
\* without the other.
THEOREM LockAndSnapshotTogether == Spec => []LockedIffClosed
<1>1. PeriodInv => LockedIffClosed
  BY DEF PeriodInv
<1>. QED  BY <1>1, InitInv, NextInv, PTL DEF Spec

\* While a carry forward record exists its source stays locked, and the next
\* month opens with the balances the source was closed with.
THEOREM CarriedAsClosed == Spec => []CarryMatchesClosing
<1>1. PeriodInv => CarryMatchesClosing
  BY DEF PeriodInv
<1>. QED  BY <1>1, InitInv, NextInv, PTL DEF Spec

-----------------------------------------------------------------------------
(* The numbers of the entries *)

\* A month that does not exist starts with number 1 again.
CounterReset ==
    \A m \in Months :
        /\ period[m].nextSeq >= 1
        /\ period[m].status = "NONE" => period[m].nextSeq = 1

NumberInv ==
    /\ TypeOK
    /\ CounterReset
    /\ NumbersGapless

\* The entries keep month and number, and stay what they are.
SameBook(e) ==
    /\ entry'[e].status \in EntryLive <=> entry[e].status \in EntryLive
    /\ entry'[e].month = entry[e].month
    /\ entry'[e].seq = entry[e].seq
SameCounter(m) ==
    /\ period'[m].nextSeq = period[m].nextSeq
    /\ period'[m].status = "NONE" => period[m].status = "NONE"

\* A month has the entries, the numbers and the counter it had.
SameMonth(m) ==
    /\ SameCounter(m)
    /\ EntriesOf(m)' = EntriesOf(m)
    /\ \A e \in EntriesOf(m) : entry'[e].seq = entry[e].seq

\* What NumbersGapless says of a month, number by number.
Numbered(m) ==
    /\ \A e \in EntriesOf(m) : entry[e].seq \in 1 .. (period[m].nextSeq - 1)
    /\ \A i \in 1 .. (period[m].nextSeq - 1) :
            \E e \in EntriesOf(m) : entry[e].seq = i
    /\ \A e, f \in EntriesOf(m) : entry[e].seq = entry[f].seq => e = f

-----------------------------------------------------------------------------
\* The property, month by month.
LEMMA NumberedIff == NumbersGapless <=> \A m \in Months : Numbered(m)
  BY DEF NumbersGapless, Numbered

\* The same after a step.
LEMMA NumberedIffPrime ==
  (\A m \in Months : Numbered(m)') => NumbersGapless'
  BY DEF NumbersGapless, Numbered, Months

\* A month whose entries and counter stay as they are stays numbered.
LEMMA SameNumbered ==
  ASSUME NumberInv, NEW m \in Months, SameMonth(m)
  PROVE  Numbered(m)'
  BY NumberedIff DEF NumberInv, Numbered, SameMonth, SameCounter

\* It does when each entry keeps its place or was not and is not in the month.
LEMMA SameMonthByEntry ==
  ASSUME NEW m \in Months, SameCounter(m),
         \A e \in Entries : SameBook(e) \/ (/\ entry[e].month # m
                                            /\ entry'[e].month # m)
  PROVE  SameMonth(m)
  BY DEF SameMonth, EntriesOf, SameBook, Entries, EntryLive

\* A step that keeps every entry in its book keeps the numbers.
LEMMA KeptNumbers ==
  ASSUME NumberInv, TypeOK', \A m \in Months : SameCounter(m),
         \A e \in Entries : SameBook(e)
  PROVE  NumberInv'
<1>1. NumbersGapless'
  BY SameMonthByEntry, SameNumbered, NumberedIffPrime
<1>2. CounterReset'
  BY DEF NumberInv, CounterReset, SameCounter, Months
<1>. QED  BY <1>1, <1>2 DEF NumberInv

\* A step that writes no entry keeps the numbers.
LEMMA UnchangedNumbers ==
  ASSUME NumberInv, TypeOK', UNCHANGED entry,
         \A m \in Months : SameCounter(m)
  PROVE  NumberInv'
  BY KeptNumbers DEF SameBook

\* An entry that changes its status among the live ones stays in its book.
LEMMA AdjustedBook ==
  ASSUME NumberInv, NEW o \in Entries, NEW e \in Entries, FreshEntry(e),
         entry[o].status = "POSTED", NEW st \in {"REVERSED", "SUPERSEDED"},
         NEW new, entry' = [entry EXCEPT ![o].status = st, ![e] = new]
  PROVE  entry'[e] = new /\ \A k \in Entries \ {e} : SameBook(k)
<1>1. entry \in [Entries -> EntryRow] /\ o # e
  BY DEF NumberInv, TypeOK, LedgerRowsOK, FreshEntry
<1>2. entry'[e] = new
  BY <1>1
<1>3. ASSUME NEW k \in Entries \ {e} PROVE SameBook(k)
  <2>1. entry[k] \in EntryRow
    BY <1>1
  <2>2. entry'[k] = IF k = o THEN [entry[k] EXCEPT !.status = st] ELSE entry[k]
    BY <1>1
  <2>. QED  BY <2>1, <2>2 DEF EntryRow, EntryLive, SameBook
<1>. QED  BY <1>2, <1>3

\* Entry e is new in month n, under the number the counter stood at.
Appended(n, e) ==
    /\ AllocateNumber(n)
    /\ FreshEntry(e)
    /\ entry'[e].status = "POSTED"
    /\ entry'[e].month = n
    /\ entry'[e].seq = period[n].nextSeq
    /\ \A k \in Entries \ {e} : SameBook(k)

\* What that does to the months.
LEMMA AppendedMonths ==
  ASSUME NumberInv, NEW n \in Months, NEW e \in Entries, Appended(n, e)
  PROVE  /\ period[n].nextSeq \in Nat /\ period[n].nextSeq >= 1
         /\ period'[n].nextSeq = period[n].nextSeq + 1
         /\ \A m \in Months : period'[m].status = period[m].status
         /\ period[n].status \in JournalWritable
         /\ \A m \in Months \ {n} : SameMonth(m)
         /\ EntriesOf(n)' = EntriesOf(n) \cup {e} /\ e \notin EntriesOf(n)
         /\ \A k \in EntriesOf(n) : entry'[k].seq = entry[k].seq
<1>. USE DEF Appended
<1>1. /\ period \in [Months -> PeriodRow]
      /\ period' = [period EXCEPT ![n].nextSeq = @ + 1]
      /\ period[n].status \in JournalWritable
  BY DEF NumberInv, TypeOK, PeriodRowsOK, AllocateNumber
<1>2. \A m \in Months :
        /\ period[m] \in PeriodRow
        /\ period'[m].nextSeq = IF m = n THEN period[n].nextSeq + 1
                                         ELSE period[m].nextSeq
        /\ period'[m].status = period[m].status
  BY <1>1 DEF PeriodRow
<1>3. period[n].nextSeq \in Nat /\ period[n].nextSeq >= 1
  BY <1>2 DEF PeriodRow, NumberInv, CounterReset
<1>4. entry[e].status \notin EntryLive
  BY DEF FreshEntry, EntryLive
<1>5. ASSUME NEW m \in Months, m # n PROVE SameMonth(m)
  BY <1>2, <1>4, <1>5
     DEF SameMonth, SameCounter, EntriesOf, SameBook, Entries, EntryLive
<1>6. /\ EntriesOf(n)' = EntriesOf(n) \cup {e} /\ e \notin EntriesOf(n)
      /\ \A k \in EntriesOf(n) : entry'[k].seq = entry[k].seq
  BY <1>4 DEF EntriesOf, SameBook, Entries, EntryLive
<1>. QED  BY <1>1, <1>2, <1>3, <1>5, <1>6

\* The new entry continues the numbers of its month.
LEMMA AppendNumber ==
  ASSUME NumberInv, TypeOK', NEW n \in Months, NEW e \in Entries,
         Appended(n, e)
  PROVE  NumberInv'
<1>. DEFINE s == period[n].nextSeq
<1>1. /\ s \in Nat /\ s >= 1 /\ period'[n].nextSeq = s + 1
      /\ period[n].status # "NONE"
      /\ \A m \in Months : period'[m].status = period[m].status
      /\ \A m \in Months \ {n} : SameMonth(m)
      /\ EntriesOf(n)' = EntriesOf(n) \cup {e} /\ e \notin EntriesOf(n)
      /\ \A k \in EntriesOf(n) : entry'[k].seq = entry[k].seq
  BY AppendedMonths DEF JournalWritable
<1>2. entry'[e].seq = s
  BY DEF Appended
<1>3. CounterReset'
  BY <1>1 DEF NumberInv, CounterReset, SameMonth, SameCounter, Months
<1>4. Numbered(n)'
  <2>1. Numbered(n)
    BY NumberedIff DEF NumberInv
  <2>2. \A k \in EntriesOf(n)' : entry'[k].seq \in 1 .. s
    BY <1>1, <1>2, <2>1 DEF Numbered
  <2>3. ASSUME NEW i \in 1 .. s PROVE \E k \in EntriesOf(n)' : entry'[k].seq = i
    <3>1. CASE i = s
      BY <1>1, <1>2, <3>1
    <3>2. CASE i # s
      BY <1>1, <2>1, <3>2 DEF Numbered
    <3>. QED  BY <3>1, <3>2
  <2>4. \A k, l \in EntriesOf(n)' : entry'[k].seq = entry'[l].seq => k = l
    BY <1>1, <1>2, <2>1 DEF Numbered
  <2>. QED  BY <1>1, <2>2, <2>3, <2>4 DEF Numbered
<1>. QED  BY <1>1, <1>3, <1>4, SameNumbered, NumberedIffPrime DEF NumberInv

-----------------------------------------------------------------------------
(* The steps *)

\* A month that is inserted has the counter of a month that is not there.
LEMMA InsertedMonth ==
  ASSUME NumberInv, NEW n \in Months, period[n].status = "NONE",
         period' = [period EXCEPT ![n] = NewPeriod]
  PROVE  \A m \in Months : SameCounter(m)
<1>1. period[n].nextSeq = 1
  BY DEF NumberInv, CounterReset
<1>2. \A m \in Months : period'[m] = IF m = n THEN NewPeriod ELSE period[m]
  BY DEF NumberInv, TypeOK, PeriodRowsOK
<1>. QED  BY <1>1, <1>2 DEF NewPeriod, SameCounter

\* A change of the status of an existing month leaves its counter alone.
LEMMA StatusChanged ==
  ASSUME NumberInv, NEW n \in Months, NEW st, st # "NONE",
         period' = [period EXCEPT ![n].status = st]
  PROVE  \A m \in Months : SameCounter(m)
<1>1. period \in [Months -> PeriodRow]
  BY DEF NumberInv, TypeOK, PeriodRowsOK
<1>2. ASSUME NEW m \in Months PROVE SameCounter(m)
  <2>1. period[m] \in PeriodRow
    BY <1>1
  <2>2. period'[m] = IF m = n THEN [period[m] EXCEPT !.status = st] ELSE period[m]
    BY <1>1
  <2>. QED  BY <2>1, <2>2 DEF PeriodRow, SameCounter
<1>. QED  BY <1>2

\* A step that touches neither an entry nor a period row changes no number.
LEMMA UntouchedNumbers ==
  ASSUME NumberInv, TypeOK', UNCHANGED <<period, entry>>
  PROVE  NumberInv'
  BY UnchangedNumbers DEF SameCounter

\* Deleting a month takes all of its entries, and no entry or counter of
\* another month is touched.
LEMMA DeletedBooks ==
  ASSUME NumberInv, NEW m \in Months, m + 1 \in Months,
         DeletePeriod(m + 1),
         period' = [period EXCEPT ![m].status = "OPEN", ![m + 1] = NoPeriod]
  PROVE  /\ m # m + 1 /\ period'[m + 1] = NoPeriod
         /\ EntriesOf(m + 1)' = {}
         /\ \A k \in Months \ {m + 1} :
                /\ SameMonth(k)
                /\ k # m => period'[k] = period[k]
<1>. DEFINE n == m + 1
<1>1. n \in Months /\ m # n
  BY DEF Months
<1>2. period \in [Months -> PeriodRow] /\ entry \in [Entries -> EntryRow]
  BY DEF NumberInv, TypeOK, PeriodRowsOK, LedgerRowsOK
<1>3. period'[n] = NoPeriod
  BY <1>1, <1>2
<1>4. ASSUME NEW k \in Months, k # n
      PROVE  SameCounter(k) /\ (k # m => period'[k] = period[k])
  <2>1. period[k] \in PeriodRow
    BY <1>2
  <2>2. period'[k] = IF k = m THEN [period[k] EXCEPT !.status = "OPEN"]
                              ELSE period[k]
    BY <1>1, <1>2, <1>4
  <2>. QED  BY <2>1, <2>2 DEF PeriodRow, SameCounter
<1>5. \A e \in EntriesOf(n) : entry'[e] = [NoEntryRow EXCEPT !.status = "GONE"]
  BY DEF DeletePeriod, EntriesOf
<1>6. ASSUME NEW e \in Entries, e \notin EntriesOf(n) PROVE SameBook(e)
  <2>1. entry[e] \in EntryRow
    BY <1>2
  <2>. QED  BY <1>6, <2>1 DEF DeletePeriod, EntryRow, SameBook
<1>7. EntriesOf(n)' = {}
  <2>1. ASSUME NEW e \in Entries PROVE ~ (/\ entry'[e].status \in EntryLive
                                          /\ entry'[e].month = n)
    <3>1. CASE e \in EntriesOf(n)
      BY <1>5, <3>1 DEF NoEntryRow, EntryLive
    <3>2. CASE e \notin EntriesOf(n)
      BY <1>6, <3>2 DEF SameBook, EntriesOf
    <3>. QED  BY <3>1, <3>2
  <2>. QED  BY <2>1 DEF EntriesOf, Entries, EntryLive
<1>8. ASSUME NEW k \in Months, k # n PROVE SameMonth(k)
  <2>1. ASSUME NEW e \in Entries
        PROVE  SameBook(e) \/ (entry[e].month # k /\ entry'[e].month # k)
    <3>1. CASE e \in EntriesOf(n)
      BY <1>5, <1>8, <3>1 DEF EntriesOf, NoEntryRow, NoMonth, Months
    <3>2. CASE e \notin EntriesOf(n)
      BY <1>6, <3>2
    <3>. QED  BY <3>1, <3>2
  <2>. QED  BY <1>4, <1>8, <2>1, SameMonthByEntry
<1>. QED  BY <1>1, <1>3, <1>4, <1>7, <1>8

\* So every month stays numbered, and the deleted one starts with 1 again.
LEMMA DeletedMonth ==
  ASSUME NumberInv, TypeOK', NEW m \in Months, m + 1 \in Months,
         DeletePeriod(m + 1),
         period' = [period EXCEPT ![m].status = "OPEN", ![m + 1] = NoPeriod]
  PROVE  NumberInv'
<1>. DEFINE n == m + 1
<1>0. /\ n \in Months /\ period'[n] = NoPeriod
      /\ EntriesOf(n)' = {}
      /\ \A k \in Months \ {n} : SameMonth(k)
  BY DeletedBooks
<1>1. Numbered(n)'
  <2>1. 1 .. (period'[n].nextSeq - 1) = {}
    BY <1>0 DEF NoPeriod
  <2>2. EntriesOf(n)' = {}
    BY <1>0
  <2>. HIDE DEF n
  <2>3. \A i \in 1 .. (period'[n].nextSeq - 1) : FALSE
    BY <2>1
  <2>. QED  BY <2>2, <2>3 DEF Numbered
<1>2. ASSUME NEW k \in Months, k # n PROVE Numbered(k)'
  BY <1>0, <1>2, SameNumbered
<1>3. CounterReset'
  <2>1. ASSUME NEW k \in Months
        PROVE  /\ period'[k].nextSeq >= 1
               /\ period'[k].status = "NONE" => period'[k].nextSeq = 1
    <3>1. CASE k = n
      BY <3>1, <1>0 DEF NoPeriod
    <3>2. CASE k # n
      BY <3>2, <1>0 DEF SameMonth, SameCounter, NumberInv, CounterReset
    <3>. QED  BY <3>1, <3>2
  <2>. QED  BY <2>1 DEF CounterReset, Months
<1>. QED  BY <1>1, <1>2, <1>3, NumberedIffPrime DEF NumberInv

\* The lifecycle of the months.
LEMMA PeriodStepNumbers ==
  ASSUME NumberInv, TypeOK', NEW r \in Requests, PeriodStep(r)
  PROVE  NumberInv'
<1>. DEFINE q == req[r]
<1>1. CASE OpenCommit(r)
  <2>1. q.month \in Months
    BY <1>1, RequestFields DEF OpenCommit, WellFormed, TypeOK, NumberInv
  <2>. QED
    BY <1>1, <2>1, InsertedMonth, UnchangedNumbers DEF OpenCommit, ledgerVars
<1>2. CASE CloseCommit(r)
  <2>1. q.month \in Months
    BY <1>2, RequestFields DEF CloseCommit, WellFormed, TypeOK, NumberInv
  <2>. QED
    BY <1>2, <2>1, StatusChanged, UnchangedNumbers DEF CloseCommit, ledgerVars
<1>3. CASE ReopenCommit(r)
  <2>1. q.month \in Months /\ (q.flag => q.month + 1 \in Months)
    BY <1>3, RequestFields DEF ReopenCommit, WellFormed, TypeOK, NumberInv
  <2>2. CASE q.flag
    BY <1>3, <2>1, <2>2, DeletedMonth DEF ReopenCommit
  <2>3. CASE ~ q.flag
    BY <1>3, <2>1, <2>3, StatusChanged, UnchangedNumbers
       DEF ReopenCommit, ledgerVars
  <2>. QED  BY <2>2, <2>3
<1>4. CASE UNCHANGED <<period, entry>>
  BY <1>4, UntouchedNumbers
<1>5. OpenCommit(r) \/ CloseCommit(r) \/ ReopenCommit(r) \/ UNCHANGED <<period, entry>>
  BY DEF PeriodStep, OpenCheck, CloseRead, ReopenCheck, ReopenRollbackRead,
         periodVars, ledgerVars
<1>. QED  BY <1>1, <1>2, <1>3, <1>4, <1>5

\* A commit that posts appends its entry to the journal of its month.
LEMMA PostingAppends ==
  ASSUME NumberInv, NEW r \in Requests, NEW e \in Entries, PostingCommit(r, e)
  PROVE  req[r].month \in Months /\ Appended(req[r].month, e)
<1>. DEFINE q == req[r]
<1>1. CASE ConfirmCommit(r, e)
  <2>. DEFINE new == [NewEntry(q.month, q.amount) EXCEPT !.source = q.tx]
  <2>1. q.month \in Months
    BY <1>1, RequestFields DEF ConfirmCommit, WellFormed, TypeOK, NumberInv
  <2>2. new.status = "POSTED" /\ new.month = q.month
        /\ new.seq = period[q.month].nextSeq
    BY DEF NewEntry, NoEntryRow
  <2>3. /\ AllocateNumber(q.month) /\ FreshEntry(e)
        /\ entry' = [entry EXCEPT ![e] = new]
    BY <1>1 DEF ConfirmCommit
  <2>. HIDE DEF new
  <2>4. entry'[e] = new /\ \A k \in Entries \ {e} : SameBook(k)
    BY <2>3 DEF NumberInv, TypeOK, LedgerRowsOK, SameBook
  <2>. QED  BY <2>1, <2>2, <2>3, <2>4 DEF Appended
<1>2. ASSUME NEW o \in Entries, NEW st \in {"REVERSED", "SUPERSEDED"}, NEW new,
             AllocateNumber(q.month), FreshEntry(e), entry[o].status = "POSTED",
             new.status = "POSTED", new.month = q.month,
             new.seq = period[q.month].nextSeq,
             entry' = [entry EXCEPT ![o].status = st, ![e] = new]
      PROVE  Appended(q.month, e)
  <2>1. entry'[e] = new /\ \A k \in Entries \ {e} : SameBook(k)
    BY <1>2, AdjustedBook
  <2>. QED  BY <1>2, <2>1 DEF Appended
<1>3. CASE ConfirmCancellationCommit(r, e)
  <2>. DEFINE new == [NewEntry(q.month, q.amount)
                        EXCEPT !.source = q.tx, !.reverses = q.entry]
  <2>1. q.month \in Months /\ q.entry \in Entries
    BY <1>3, RequestFields
       DEF ConfirmCancellationCommit, Request, WellFormed, TypeOK, NumberInv
  <2>2. new.status = "POSTED" /\ new.month = q.month
        /\ new.seq = period[q.month].nextSeq
    BY DEF NewEntry, NoEntryRow
  <2>3. /\ AllocateNumber(q.month) /\ FreshEntry(e)
        /\ entry[q.entry].status = "POSTED"
        /\ entry' = [entry EXCEPT ![q.entry].status = "REVERSED", ![e] = new]
    BY <1>3 DEF ConfirmCancellationCommit
  <2>. HIDE DEF new
  <2>. QED  BY <1>2, <2>1, <2>2, <2>3
<1>4. CASE ReverseCommit(r, e)
  <2>. DEFINE new == [NewEntry(q.month, entry[q.entry].amount)
                        EXCEPT !.reverses = q.entry]
  <2>1. q.month \in Months /\ q.entry \in Entries
    BY <1>4, RequestFields DEF ReverseCommit, WellFormed, TypeOK, NumberInv
  <2>2. new.status = "POSTED" /\ new.month = q.month
        /\ new.seq = period[q.month].nextSeq
    BY DEF NewEntry, NoEntryRow
  <2>3. /\ AllocateNumber(q.month) /\ FreshEntry(e)
        /\ entry[q.entry].status = "POSTED"
        /\ entry' = [entry EXCEPT ![q.entry].status = "REVERSED", ![e] = new]
    BY <1>4 DEF ReverseCommit, ClaimOriginal
  <2>. HIDE DEF new
  <2>. QED  BY <1>2, <2>1, <2>2, <2>3
<1>5. CASE CorrectCommit(r, e)
  <2>. DEFINE new == [NewEntry(q.month, q.amount) EXCEPT !.corrects = q.entry]
  <2>1. q.month \in Months /\ q.entry \in Entries
    BY <1>5, RequestFields DEF CorrectCommit, WellFormed, TypeOK, NumberInv
  <2>2. new.status = "POSTED" /\ new.month = q.month
        /\ new.seq = period[q.month].nextSeq
    BY DEF NewEntry, NoEntryRow
  <2>3. /\ AllocateNumber(q.month) /\ FreshEntry(e)
        /\ entry[q.entry].status = "POSTED"
        /\ entry' = [entry EXCEPT ![q.entry].status = "SUPERSEDED", ![e] = new]
    BY <1>5 DEF CorrectCommit, ClaimOriginal
  <2>. HIDE DEF new
  <2>. QED  BY <1>2, <2>1, <2>2, <2>3
<1>. QED  BY <1>1, <1>3, <1>4, <1>5 DEF PostingCommit

\* So the steps of transactions and entries keep the numbers.
LEMMA PostingStepNumbers ==
  ASSUME NumberInv, TypeOK', NEW r \in Requests, CollectedStep(r) \/ JournalStep(r)
  PROVE  NumberInv'
  BY OtherStepsPostNothing, PostingAppends, AppendNumber, UntouchedNumbers

\* A carry forward may create the month it carries into.
LEMMA SnapshotStepNumbers ==
  ASSUME NumberInv, TypeOK', NEW r \in Requests, SnapshotStep(r)
  PROVE  NumberInv'
<1>. DEFINE n == req[r].month + 1
<1>1. CASE CarryCommit(r)
  <2>1. n \in Months
    BY <1>1, RequestFields DEF CarryCommit, WellFormed, TypeOK, NumberInv
  <2>2. CASE req[r].flag
    BY <1>1, <2>2, UntouchedNumbers DEF CarryCommit, ledgerVars
  <2>3. CASE ~ req[r].flag
    BY <1>1, <2>1, <2>3, InsertedMonth, UnchangedNumbers
       DEF CarryCommit, Existing, ledgerVars
  <2>. QED  BY <2>2, <2>3
<1>2. CASE UNCHANGED <<period, entry>>
  BY <1>2, UntouchedNumbers
<1>3. CarryCommit(r) \/ UNCHANGED <<period, entry>>
  BY DEF SnapshotStep, CarryCheck, CancelCarryRead, CancelCarryCommit,
         StatementsRead, StatementsCommit, periodVars, ledgerVars
<1>. QED  BY <1>1, <1>2, <1>3

\* So may the collection of an imported row.
LEMMA SourceStepNumbers ==
  ASSUME NumberInv, TypeOK', NEW r \in Requests, SourceStep(r)
  PROVE  NumberInv'
<1>. DEFINE q == req[r]
<1>1. ASSUME NEW t \in Txs, CollectRowInsert(r, t) PROVE NumberInv'
  <2>1. q.month \in Months
    BY <1>1, RequestFields DEF CollectRowInsert, WellFormed, TypeOK, NumberInv
  <2>2. CASE q.flag
    BY <1>1, <2>1, <2>2, InsertedMonth, UnchangedNumbers DEF CollectRowInsert
  <2>3. CASE ~ q.flag
    BY <1>1, <2>3, UntouchedNumbers DEF CollectRowInsert
  <2>. QED  BY <2>2, <2>3
<1>2. CASE UNCHANGED <<period, entry>>
  BY <1>2, UntouchedNumbers
<1>3. \/ UNCHANGED <<period, entry>>
      \/ \E t \in Txs : CollectRowInsert(r, t)
  BY DEF SourceStep, CollectRowRead, CollectRowAbsorb,
         CancelCollectionRead, CancelCollectionCommit, RepaymentCheck,
         RepaymentCommit, UpdateRepaymentCheck, UpdateRepaymentCommit,
         periodVars, ledgerVars
<1>. QED  BY <1>1, <1>2, <1>3

\* No month, no entry, and every counter at 1.
LEMMA InitNumbers == Init => NumberInv
<1>. SUFFICES ASSUME Init PROVE NumberInv
  OBVIOUS
<1>1. TypeOK
  BY InitType
<1>2. \A m \in Months : period[m] = NoPeriod /\ EntriesOf(m) = {}
  BY DEF Init, EntriesOf, NoEntryRow, EntryLive
<1>3. CounterReset
  BY <1>2 DEF CounterReset, NoPeriod
<1>4. \A m \in Months : Numbered(m)
  BY <1>2 DEF Numbered, NoPeriod
<1>. QED  BY <1>1, <1>3, <1>4, NumberedIff DEF NumberInv

\* Every step of every request keeps the numbers.
LEMMA NextNumbers == NumberInv /\ [Next]_vars => NumberInv'
<1>. SUFFICES ASSUME NumberInv, [Next]_vars PROVE NumberInv'
  OBVIOUS
<1>1. TypeOK'
  BY NextType DEF NumberInv
<1>2. CASE UNCHANGED vars
  BY <1>1, <1>2, UntouchedNumbers DEF vars
<1>3. CASE Next
  BY <1>1, <1>3, PeriodStepNumbers, PostingStepNumbers, SnapshotStepNumbers, SourceStepNumbers, UntouchedNumbers
     DEF Next, Fail, periodVars, ledgerVars
<1>. QED  BY <1>2, <1>3

\* The live entries of every month are numbered without a gap and without a
\* duplicate, whatever requests allocate numbers at the same time, fail, or
\* delete and create the month.
THEOREM NumbersWithoutGaps == Spec => []NumbersGapless
<1>1. NumberInv => NumbersGapless
  BY DEF NumberInv
<1>. QED  BY <1>1, InitNumbers, NextNumbers, PTL DEF Spec
-----------------------------------------------------------------------------
(* The books *)

BooksInv == PeriodInv /\ NumberInv

\* A month whose entries and counter stay as they are keeps its journal.
LEMMA SameJournal ==
  ASSUME NumberInv, NumberInv', NEW m \in Months, SameMonth(m)
  PROVE  Journal(m)' = Journal(m)
<1>1. Numbered(m) /\ Numbered(m)'
  BY NumberedIff, SameNumbered DEF NumberInv
<1>2. ASSUME NEW i \in 1 .. (period[m].nextSeq - 1)
      PROVE  (CHOOSE e \in EntriesOf(m)' : entry'[e].seq = i)
                = CHOOSE e \in EntriesOf(m) : entry[e].seq = i
  <2>. DEFINE now  == CHOOSE e \in EntriesOf(m) : entry[e].seq = i
              next == CHOOSE e \in EntriesOf(m)' : entry'[e].seq = i
  <2>1. now \in EntriesOf(m) /\ entry[now].seq = i
    BY <1>1 DEF Numbered
  <2>2. next \in EntriesOf(m)' /\ entry'[next].seq = i
    BY <1>1 DEF Numbered, SameMonth, SameCounter
  <2>. HIDE DEF now, next
  <2>3. next = now
    BY <1>1, <2>1, <2>2 DEF Numbered, SameMonth
  <2>. QED  BY <2>3 DEF now, next
<1>. QED  BY <1>2 DEF Journal, SameMonth, SameCounter

\* A new entry is the last of its journal.
LEMMA LongerJournal ==
  ASSUME NumberInv, NumberInv', NEW n \in Months, NEW e \in Entries,
         Appended(n, e)
  PROVE  Journal(n)' = Append(Journal(n), e)
<1>. DEFINE s == period[n].nextSeq
            Now(i) == CHOOSE k \in EntriesOf(n) : entry[k].seq = i
            Then(i) == CHOOSE k \in EntriesOf(n)' : entry'[k].seq = i
<1>1. /\ s \in Nat /\ s >= 1 /\ period'[n].nextSeq = s + 1
      /\ EntriesOf(n)' = EntriesOf(n) \cup {e} /\ e \notin EntriesOf(n)
      /\ \A k \in EntriesOf(n) : entry'[k].seq = entry[k].seq
  BY AppendedMonths
<1>2. entry'[e].seq = s
  BY DEF Appended
<1>3. Numbered(n) /\ Numbered(n)'
  BY NumberedIff DEF NumberInv, NumbersGapless, Numbered, Months
<1>4. ASSUME NEW i \in 1 .. s - 1
      PROVE  Now(i) \in EntriesOf(n) /\ Then(i) = Now(i)
  <2>1. Now(i) \in EntriesOf(n) /\ entry[Now(i)].seq = i
    BY <1>3 DEF Numbered
  <2>2. \E k \in EntriesOf(n)' : entry'[k].seq = i
    BY <1>1, <2>1
  <2>3. Then(i) \in EntriesOf(n)' /\ entry'[Then(i)].seq = i
    BY <2>2
  <2>. HIDE DEF Now, Then
  <2>4. Then(i) = Now(i)
    BY <1>1, <1>3, <2>1, <2>3 DEF Numbered
  <2>. QED  BY <2>1, <2>4
<1>5. Then(s) = e
  <2>1. Then(s) \in EntriesOf(n)' /\ entry'[Then(s)].seq = s
    BY <1>1, <1>2
  <2>. HIDE DEF Then
  <2>. QED  BY <1>1, <1>2, <1>3, <2>1 DEF Numbered
<1>6. /\ Journal(n) = [i \in 1 .. (s - 1) |-> Now(i)]
      /\ Journal(n)' = [i \in 1 .. s |-> Then(i)]
  BY <1>1 DEF Journal
<1>. HIDE DEF Now, Then
<1>7. Journal(n) \in Seq(Entries) /\ Len(Journal(n)) = s - 1
  BY <1>1, <1>4, <1>6 DEF EntriesOf
<1>8. Journal(n)' \in Seq(Entries) /\ Len(Journal(n)') = s
  <2>1. ASSUME NEW i \in 1 .. s PROVE Then(i) \in Entries
    <3>1. CASE i = s
      BY <1>5, <3>1
    <3>2. CASE i # s
      BY <1>1, <1>4, <3>2 DEF EntriesOf
    <3>. QED  BY <3>1, <3>2
  <2>. QED  BY <1>1, <1>6, <2>1
<1>9. /\ Append(Journal(n), e) \in Seq(Entries)
      /\ Len(Append(Journal(n), e)) = s
      /\ \A i \in 1 .. s - 1 : Append(Journal(n), e)[i] = Journal(n)[i]
      /\ Append(Journal(n), e)[s] = e
  BY <1>1, <1>7, AppendProperties
<1>10. ASSUME NEW i \in 1 .. s
       PROVE  Journal(n)'[i] = Append(Journal(n), e)[i]
  <2>1. CASE i = s
    BY <1>1, <1>5, <1>6, <1>9, <2>1
  <2>2. CASE i # s
    BY <1>1, <1>4, <1>6, <1>9, <2>2
  <2>. QED  BY <2>1, <2>2
<1>. QED  BY <1>8, <1>9, <1>10, SeqEqual

\* The months of the books are those of the ledger.
LEMMA BookMonths == Books!Month = Months
  BY DEF Books!Month, Months

\* What changes the status of one month changes the state of its book.
LEMMA BookStateChanged ==
  ASSUME NEW n \in Months, NEW st, period'[n].status = st,
         \A m \in Months \ {n} : period'[m].status = period[m].status
  PROVE  BookStates' = [BookStates EXCEPT ![n] =
                            CASE st = "NONE" -> "none"
                              [] st = "LOCKED" -> "sealed"
                              [] OTHER -> "open"]
  BY DEF BookStates, Months

\* Months that keep entries, numbers and status keep their books.
LEMMA SameBooks ==
  ASSUME BooksInv, NumberInv', UNCHANGED closing, \A m \in Months : SameMonth(m),
         \A m \in Months : period'[m].status = period[m].status
  PROVE  UNCHANGED Books!booksVars
<1>1. UNCHANGED BookEntries
  BY SameJournal DEF BooksInv, BookEntries, Months
<1>2. UNCHANGED BookStates /\ UNCHANGED BookBalances
  BY DEF BookStates, BookBalances, Months
<1>. QED  BY <1>1, <1>2 DEF Books!booksVars

\* A step that touches neither a month nor an entry keeps the books.
LEMMA UntouchedBooks ==
  ASSUME BooksInv, NumberInv', UNCHANGED <<period, closing, entry>>
  PROVE  UNCHANGED Books!booksVars
<1>1. \A m \in Months : SameMonth(m)
  BY SameMonthByEntry DEF SameBook, SameCounter
<1>. QED  BY <1>1, SameBooks

\* Inserting a month opens its book.
LEMMA OpenedBook ==
  ASSUME BooksInv, NumberInv', NEW n \in Months, period[n].status = "NONE",
         period' = [period EXCEPT ![n] = NewPeriod], UNCHANGED <<closing, entry>>
  PROVE  Books!OpenMonth(n)
<1>1. \A m \in Months : SameMonth(m)
  BY InsertedMonth, SameMonthByEntry DEF BooksInv, SameBook
<1>2. UNCHANGED BookEntries /\ UNCHANGED BookBalances
  BY <1>1, SameJournal DEF BooksInv, BookEntries, BookBalances, Months
<1>3. \A m \in Months : period'[m] = IF m = n THEN NewPeriod ELSE period[m]
  BY DEF BooksInv, NumberInv, TypeOK, PeriodRowsOK
<1>4. BookStates[n] = "none"
  BY DEF BookStates
<1>5. BookStates' = [BookStates EXCEPT ![n] = "open"]
  BY <1>3, BookStateChanged DEF NewPeriod
<1>. QED  BY <1>2, <1>4, <1>5 DEF Books!OpenMonth

\* Posting an entry writes it into the open book of its month.
LEMMA WrittenBook ==
  ASSUME BooksInv, NumberInv', NEW n \in Months, NEW e \in Entries,
         Appended(n, e), UNCHANGED closing
  PROVE  Books!Write(n, e)
<1>1. /\ \A m \in Months : period'[m].status = period[m].status
      /\ period[n].status \in JournalWritable
      /\ \A m \in Months \ {n} : SameMonth(m)
  BY AppendedMonths DEF BooksInv
<1>2. UNCHANGED BookStates /\ UNCHANGED BookBalances
  BY <1>1 DEF BookStates, BookBalances, Months
<1>3. BookStates[n] = "open"
  BY <1>1 DEF BookStates, JournalWritable
<1>4. BookEntries' = [BookEntries EXCEPT ![n] = Append(@, e)]
  <2>1. \A m \in Months \ {n} : Journal(m)' = Journal(m)
    BY <1>1, SameJournal DEF BooksInv
  <2>2. Journal(n)' = Append(Journal(n), e)
    BY LongerJournal DEF BooksInv
  <2>. QED  BY <2>1, <2>2 DEF BookEntries, Months
<1>. QED  BY <1>2, <1>3, <1>4 DEF Books!Write

\* The claim of the close seals the book of an open month.
LEMMA SealedBook ==
  ASSUME BooksInv, NumberInv', NEW r \in Requests, CloseCommit(r)
  PROVE  /\ req[r].month \in Months /\ req[r].entries \in SUBSET Entries
         /\ Books!Seal(req[r].month, req[r].entries)
<1>. DEFINE n == req[r].month
<1>1. n \in Months /\ req[r].entries \in SUBSET Entries
  BY RequestFields
     DEF CloseCommit, Request, WellFormed, TypeOK, NumberInv, BooksInv
<1>2. period[n].status \in {"OPEN", "IN_REVIEW"}
  BY DEF CloseCommit, CloseRequestsChecked, CanBeClosed, PeriodInv, BooksInv
<1>3. \A m \in Months : SameMonth(m)
  BY <1>1, StatusChanged, SameMonthByEntry
     DEF CloseCommit, ledgerVars, SameBook, BooksInv
<1>4. UNCHANGED BookEntries
  BY <1>3, SameJournal DEF BooksInv, BookEntries, Months
<1>5. period \in [Months -> PeriodRow] /\ closing \in [Months -> ClosingRow]
  BY DEF BooksInv, NumberInv, TypeOK, PeriodRowsOK
<1>6. \A m \in Months :
        /\ period'[m].status = IF m = n THEN "LOCKED" ELSE period[m].status
        /\ closing'[m].entries = IF m = n THEN req[r].entries
                                          ELSE closing[m].entries
  BY <1>5 DEF CloseCommit, PeriodRow
<1>7. BookStates[n] = "open" /\ BookStates' = [BookStates EXCEPT ![n] = "sealed"]
  BY <1>1, <1>2, <1>6 DEF BookStates, Months
<1>8. BookBalances' = [BookBalances EXCEPT ![n] = req[r].entries]
  BY <1>1, <1>6 DEF BookBalances, Months
<1>. QED  BY <1>1, <1>4, <1>7, <1>8 DEF Books!Seal

\* Reopening unseals the book and discards that of a successor; on a month
\* that is not locked any more it changes nothing.
LEMMA UnsealedBook ==
  ASSUME BooksInv, NumberInv', NEW r \in Requests, ReopenCommit(r)
  PROVE  \/ UNCHANGED Books!booksVars
         \/ \E m \in Months :
                \/ Books!Unseal(m)
                \/ m + 1 \in Months /\ Books!UnsealAndDiscard(m)
<1>0. req[r].month \in Months /\ (req[r].flag => req[r].month + 1 \in Months)
  BY RequestFields DEF ReopenCommit, WellFormed, TypeOK, NumberInv, BooksInv
<1>. PICK m \in Months : m = req[r].month
  BY <1>0
<1>. DEFINE n == m + 1
<1>1. m \in Months /\ (req[r].flag => n \in Months)
  BY <1>0
<1>2. period[m].status # "NONE" /\ m # n
  BY <1>1 DEF ReopenCommit, Existing, Months
<1>3. /\ period \in [Months -> PeriodRow] /\ closing \in [Months -> ClosingRow]
      /\ closing' = [closing EXCEPT ![m] = NoClosing]
  BY DEF BooksInv, NumberInv, TypeOK, PeriodRowsOK, ReopenCommit, DeleteSnapshots
<1>4. BookBalances' = [BookBalances EXCEPT ![m] = {}]
  BY <1>1, <1>3 DEF BookBalances, NoClosing, Months
<1>5. CASE req[r].flag
  <2>1. /\ period[n].status = "OPEN" /\ DeletePeriod(n)
        /\ period' = [period EXCEPT ![m].status = "OPEN", ![n] = NoPeriod]
    BY <1>5 DEF ReopenCommit
  <2>2. /\ period'[n] = NoPeriod /\ EntriesOf(n)' = {}
        /\ \A k \in Months \ {n} :
              SameMonth(k) /\ (k # m => period'[k] = period[k])
    BY <1>1, <1>5, <2>1, DeletedBooks DEF BooksInv
  <2>3. period'[m].status = "OPEN"
    BY <1>1, <1>2, <1>3, <2>1 DEF PeriodRow
  <2>4. /\ BookStates[m] # "none" /\ BookStates[n] = "open"
        /\ BookStates' = [BookStates EXCEPT ![m] = "open", ![n] = "none"]
    <3>1. BookStates[m] # "none" /\ BookStates[n] = "open"
      BY <1>1, <1>2, <1>5, <2>1 DEF BookStates
    <3>2. \A k \in Months :
            BookStates'[k] = IF k = n THEN "none"
                             ELSE IF k = m THEN "open" ELSE BookStates[k]
      BY <1>2, <2>2, <2>3 DEF BookStates, NoPeriod, Months
    <3>. QED  BY <1>2, <3>1, <3>2 DEF BookStates, Months
  <2>5. BookEntries' = [BookEntries EXCEPT ![n] = <<>>]
    <3>1. \A k \in Months \ {n} : Journal(k)' = Journal(k)
      BY <2>2, SameJournal DEF BooksInv
    <3>2. Journal(n)' = <<>>
      BY <2>2 DEF Journal, NoPeriod
    <3>. QED  BY <3>1, <3>2 DEF BookEntries, Months
  <2>6. Books!UnsealAndDiscard(m)
    BY <1>4, <2>4, <2>5 DEF Books!UnsealAndDiscard
  <2>. QED  BY <1>1, <1>5, <2>6
<1>6. CASE ~ req[r].flag
  <2>1. period' = [period EXCEPT ![m].status = "OPEN"] /\ UNCHANGED entry
    BY <1>6 DEF ReopenCommit, ledgerVars
  <2>2. \A k \in Months : SameMonth(k)
    BY <1>1, <2>1, StatusChanged, SameMonthByEntry DEF SameBook, BooksInv
  <2>3. UNCHANGED BookEntries
    BY <2>2, SameJournal DEF BooksInv, BookEntries, Months
  <2>4. \A k \in Months :
          period'[k].status = IF k = m THEN "OPEN" ELSE period[k].status
    BY <1>3, <2>1 DEF PeriodRow
  <2>5. BookStates' = [BookStates EXCEPT ![m] = "open"]
    BY <1>1, <2>4 DEF BookStates, Months
  <2>6. CASE period[m].status = "LOCKED"
    <3>1. BookStates[m] = "sealed"
      BY <1>1, <2>6 DEF BookStates
    <3>. QED  BY <1>1, <1>4, <2>3, <2>5, <3>1 DEF Books!Unseal
  <2>7. CASE period[m].status # "LOCKED"
    <3>1. BookStates[m] = "open"
      BY <1>1, <1>2, <2>7 DEF BookStates
    <3>2. BookBalances[m] = {}
      BY <1>1, <2>7
         DEF BookBalances, BooksInv, PeriodInv, LockedIffClosed, NoBalanceUnclosed
    <3>3. UNCHANGED BookStates /\ UNCHANGED BookBalances
      BY <1>4, <2>5, <3>1, <3>2 DEF BookStates, BookBalances
    <3>. QED  BY <2>3, <3>3 DEF Books!booksVars
  <2>. QED  BY <2>6, <2>7
<1>. QED  BY <1>5, <1>6

\* Every step of every request is a step of the books or changes none.
LEMMA NextBooks ==
  ASSUME BooksInv, [Next]_vars
  PROVE  [Books!Next]_(Books!booksVars)
<1>0. NumberInv'
  BY NextNumbers DEF BooksInv
<1>1. CASE UNCHANGED <<period, closing, entry>>
  BY <1>0, <1>1, UntouchedBooks
<1>2. ASSUME NEW n \in Months, period[n].status = "NONE",
             period' = [period EXCEPT ![n] = NewPeriod],
             UNCHANGED <<closing, entry>>
      PROVE  Books!Next
  BY <1>0, <1>2, OpenedBook, BookMonths DEF Books!Next
<1>3. ASSUME NEW r \in Requests, PeriodStep(r)
      PROVE  [Books!Next]_(Books!booksVars)
  <2>1. CASE OpenCommit(r)
    <3>1. req[r].month \in Months
      BY <2>1, RequestFields
         DEF OpenCommit, WellFormed, TypeOK, NumberInv, BooksInv
    <3>. QED  BY <1>2, <2>1, <3>1 DEF OpenCommit, ledgerVars
  <2>2. CASE CloseCommit(r)
    BY <1>0, <2>2, SealedBook, BookMonths DEF Books!Next
  <2>3. CASE ReopenCommit(r)
    BY <1>0, <2>3, UnsealedBook, BookMonths DEF Books!Next
  <2>. QED
    BY <1>1, <1>3, <2>1, <2>2, <2>3
       DEF PeriodStep, OpenCheck, CloseRead, ReopenCheck, ReopenRollbackRead,
           periodVars, ledgerVars
<1>4. ASSUME NEW r \in Requests, CollectedStep(r) \/ JournalStep(r)
      PROVE  [Books!Next]_(Books!booksVars)
  <2>1. ASSUME NEW e \in Entries, PostingCommit(r, e) PROVE Books!Next
    <3>1. req[r].month \in Months /\ Appended(req[r].month, e)
      BY <2>1, PostingAppends DEF BooksInv
    <3>2. UNCHANGED closing
      BY <2>1 DEF PostingCommit, ConfirmCommit, ConfirmCancellationCommit,
                  ReverseCommit, CorrectCommit
    <3>. QED  BY <1>0, <3>1, <3>2, WrittenBook, BookMonths DEF Books!Next
  <2>. QED  BY <1>1, <1>4, <2>1, OtherStepsPostNothing
<1>5. ASSUME NEW r \in Requests, SnapshotStep(r)
      PROVE  [Books!Next]_(Books!booksVars)
  <2>1. CASE CarryCommit(r)
    <3>1. req[r].month + 1 \in Months
      BY <2>1, RequestFields
         DEF CarryCommit, WellFormed, TypeOK, NumberInv, BooksInv
    <3>. QED  BY <1>1, <1>2, <2>1, <3>1 DEF CarryCommit, Existing, ledgerVars
  <2>. QED
    BY <1>1, <1>5, <2>1
       DEF SnapshotStep, CarryCheck, CancelCarryRead, CancelCarryCommit,
           StatementsRead, StatementsCommit, periodVars, ledgerVars
<1>6. ASSUME NEW r \in Requests, SourceStep(r)
      PROVE  [Books!Next]_(Books!booksVars)
  <2>1. ASSUME NEW t \in Txs, CollectRowInsert(r, t)
        PROVE  [Books!Next]_(Books!booksVars)
    <3>1. req[r].month \in Months
      BY <2>1, RequestFields
         DEF CollectRowInsert, WellFormed, TypeOK, NumberInv, BooksInv
    <3>. QED  BY <1>1, <1>2, <2>1, <3>1 DEF CollectRowInsert
  <2>. QED
    BY <1>1, <1>6, <2>1
       DEF SourceStep, CollectRowRead, CollectRowAbsorb, CancelCollectionRead,
           CancelCollectionCommit, RepaymentCheck, RepaymentCommit,
           UpdateRepaymentCheck, UpdateRepaymentCommit, periodVars, ledgerVars
<1>7. CASE UNCHANGED vars
  BY <1>1, <1>7 DEF vars
<1>8. CASE Next
  BY <1>1, <1>3, <1>4, <1>5, <1>6, <1>8 DEF Next, Fail, periodVars, ledgerVars
<1>. QED  BY <1>7, <1>8

\* An empty workspace has empty books.
LEMMA InitBooks == Init => Books!Init
<1>. SUFFICES ASSUME Init PROVE Books!Init
  OBVIOUS
<1>1. BookStates = [m \in Months |-> "none"]
  BY DEF Init, BookStates, NoPeriod
<1>2. BookEntries = [m \in Months |-> <<>>]
  <2>1. \A m \in Months : Journal(m) = <<>>
    BY DEF Init, Journal, NoPeriod
  <2>. QED  BY <2>1 DEF BookEntries
<1>3. BookBalances = [m \in Months |-> {}]
  BY DEF Init, BookBalances, NoClosing
<1>. QED  BY <1>1, <1>2, <1>3, BookMonths DEF Books!Init

\* The ledger, with all its requests in flight, implements the books: entries
\* are only ever appended, and only to an open month; a closed month and its
\* balances stay as they are until it is reopened.
THEOREM LedgerImplementsBooks == Spec => ImplementsBooks
<1>1. Init => BooksInv /\ Books!Init
  BY InitInv, InitNumbers, InitBooks DEF BooksInv
<1>2. BooksInv /\ [Next]_vars => BooksInv' /\ [Books!Next]_(Books!booksVars)
  BY NextInv, NextNumbers, NextBooks DEF BooksInv
<1>. QED  BY <1>1, <1>2, PTL DEF Spec, ImplementsBooks, Books!Spec
=============================================================================
