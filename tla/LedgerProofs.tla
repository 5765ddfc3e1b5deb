----------------------------- MODULE LedgerProofs -----------------------------
(***************************************************************************)
(* Theorems about the workspace ledger, for every calendar, every set of   *)
(* transactions, rows and schedules and every number of requests.          *)
(***************************************************************************)
EXTENDS LedgerSystem, TLAPS

-----------------------------------------------------------------------------
(* Requests *)

\* A request that is not in flight holds nothing.
LEMMA IdleType == Idle \in Request /\ WellFormed(Idle)
  BY DEF Idle, Request, Steps, PeriodStatus, WellFormed

\* A handler that goes on with a well-formed record keeps the requests typed.
LEMMA HoldType ==
  ASSUME RequestsOK, NEW r \in Requests, NEW rec \in Request,
         WellFormed(rec), Hold(r, rec)
  PROVE  RequestsOK'
<1>1. req' \in [Requests -> Request]
  BY DEF RequestsOK, Hold
<1>2. ASSUME NEW x \in Requests PROVE WellFormed(req[x])'
  <2>1. req'[x] = IF x = r THEN rec ELSE req[x]
    BY DEF RequestsOK, Hold
  <2>2. WellFormed(req[x])
    BY DEF RequestsOK
  <2>. QED  BY <2>1, <2>2 DEF WellFormed, Months
<1>. QED  BY <1>1, <1>2 DEF RequestsOK

\* So does one that answers.
LEMMA AnswerType ==
  ASSUME RequestsOK, NEW r \in Requests, Answer(r)
  PROVE  RequestsOK'
  BY IdleType, HoldType DEF Answer, Hold

\* And so does a commit that ends some of the requests.
LEMMA EndSomeType ==
  ASSUME RequestsOK, NEW S \in SUBSET Requests,
         req' = [x \in Requests |-> IF x \in S THEN Idle ELSE req[x]]
  PROVE  RequestsOK'
<1>1. req' \in [Requests -> Request]
  BY IdleType DEF RequestsOK
<1>2. ASSUME NEW x \in Requests PROVE WellFormed(req[x])'
  <2>1. req'[x] = IF x \in S THEN Idle ELSE req[x]
    OBVIOUS
  <2>2. WellFormed(req[x])
    BY DEF RequestsOK
  <2>. QED  BY <2>1, <2>2, IdleType DEF WellFormed, Months
<1>. QED  BY <1>1, <1>2 DEF RequestsOK

\* What the record of a request in flight holds.
LEMMA RequestFields ==
  ASSUME RequestsOK, NEW r \in Requests
  PROVE  req[r] \in Request /\ WellFormed(req[r])
  BY DEF RequestsOK

\* A step that writes no row of a month keeps them typed.
LEMMA PeriodRowsKept ==
  ASSUME PeriodRowsOK, UNCHANGED periodVars
  PROVE  PeriodRowsOK'
  BY DEF PeriodRowsOK, periodVars, Months

\* A step that writes no transaction, item, schedule or entry keeps them typed.
LEMMA LedgerRowsKept ==
  ASSUME LedgerRowsOK, UNCHANGED ledgerVars
  PROVE  LedgerRowsOK'
  BY DEF LedgerRowsOK, ledgerVars, Months, Entries

\* A step that only changes its request.
LEMMA HoldKeepsTypes ==
  ASSUME TypeOK, NEW r \in Requests, NEW rec \in Request, WellFormed(rec),
         Hold(r, rec), UNCHANGED <<periodVars, ledgerVars>>
  PROVE  TypeOK'
<1>1. UNCHANGED periodVars /\ UNCHANGED ledgerVars
  OBVIOUS
<1>. QED  BY <1>1, HoldType, PeriodRowsKept, LedgerRowsKept DEF TypeOK

-----------------------------------------------------------------------------
(* Types: one lemma for the steps of each component *)

\* The rows the foreign keys change when a period is deleted.
LEMMA DeletePeriodType ==
  ASSUME LedgerRowsOK, NEW n \in Months, DeletePeriod(n)
  PROVE  LedgerRowsOK'
<1>. DEFINE dead == EntriesOf(n)
            lost == {t \in Txs : plan[t].status # "NONE" /\ plan[t].month = n}
<1>1. /\ entry' = [e \in Entries |->
            IF e \in dead THEN [NoEntryRow EXCEPT !.status = "GONE"]
            ELSE [entry[e] EXCEPT
                    !.reverses = IF @ \in dead THEN NoEntry ELSE @,
                    !.corrects = IF @ \in dead THEN NoEntry ELSE @]]
      /\ tx' = [t \in Txs |-> [tx[t] EXCEPT !.detached = @ \/ InPeriod(t, n)]]
      /\ plan' = [t \in Txs |-> IF t \in lost THEN NoPlan ELSE plan[t]]
      /\ schedule' = [s \in Schedules |->
            [schedule[s] EXCEPT
                !.tx = IF @ \in lost THEN NoTx ELSE @,
                !.entry = IF @ \in dead THEN NoEntry ELSE @]]
  BY DEF DeletePeriod
<1>2. ASSUME NEW e \in Entries
      PROVE  /\ entry'[e] \in EntryRow
             /\ entry'[e].status \in EntryLive => entry'[e].month \in Months
  BY <1>1, ZenonT(60) DEF LedgerRowsOK, EntryRow, NoEntryRow, EntryStatus, EntryLive
<1>3. ASSUME NEW t \in Txs
      PROVE  /\ tx'[t] \in TxRow
             /\ tx'[t].status = tx[t].status /\ tx'[t].month = tx[t].month
  BY <1>1 DEF LedgerRowsOK, TxRow, InPeriod
<1>4. plan' \in [Txs -> PlanRow]
  BY <1>1 DEF LedgerRowsOK, PlanRow, NoPlan
<1>5. schedule' \in [Schedules -> ScheduleRow]
  BY <1>1 DEF LedgerRowsOK, ScheduleRow, ScheduleStatus
<1>6. entry' \in [Entries -> EntryRow] /\ tx' \in [Txs -> TxRow]
  BY <1>1, <1>2, <1>3
<1>. QED  BY <1>2, <1>3, <1>4, <1>5, <1>6 DEF LedgerRowsOK, Months, Entries

\* Opening, closing and reopening a month keep the types.
LEMMA PeriodStepType ==
  ASSUME TypeOK, NEW r \in Requests, PeriodStep(r)
  PROVE  TypeOK'
<1>. USE DEF TypeOK
<1>1. ASSUME NEW m \in Months, OpenCheck(r, m) PROVE TypeOK'
  <2>. DEFINE q == [Idle EXCEPT !.at = "openCommit", !.month = m,
                                !.flag = (Existing = {})]
  <2>1. q \in Request /\ WellFormed(q)
    BY DEF Idle, Request, Steps, PeriodStatus, WellFormed
  <2>. QED  BY <1>1, <2>1, HoldKeepsTypes DEF OpenCheck
<1>2. ASSUME OpenCommit(r) PROVE TypeOK'
  <2>1. RequestsOK' /\ UNCHANGED ledgerVars
    BY <1>2, AnswerType DEF OpenCommit
  <2>2. PeriodRowsOK'
    BY <1>2 DEF OpenCommit, PeriodRowsOK, PeriodRow, NewPeriod, PeriodStatus,
                OpeningRow, Months
  <2>. QED  BY <2>1, <2>2, LedgerRowsKept
<1>3. ASSUME NEW m \in Months, CloseRead(r, m) PROVE TypeOK'
  <2>. DEFINE q == [Idle EXCEPT !.at = "closeCommit", !.month = m,
                            !.status = period[m].status,
                            !.entries = opening[m].entries \cup PostedOf(m)]
  <2>1. q \in Request /\ WellFormed(q)
    BY DEF Idle, Request, Steps, PeriodStatus, WellFormed, PeriodRowsOK,
           PeriodRow, OpeningRow, PostedOf, EntriesOf
  <2>. QED  BY <1>3, <2>1, HoldKeepsTypes DEF CloseRead
<1>4. ASSUME CloseCommit(r) PROVE TypeOK'
  <2>1. RequestsOK' /\ UNCHANGED ledgerVars
    BY <1>4, AnswerType DEF CloseCommit
  <2>2. [exists |-> TRUE, entries |-> req[r].entries] \in ClosingRow
    BY RequestFields DEF Request, ClosingRow
  <2>3. closing' \in [Months -> ClosingRow]
    BY <1>4, <2>2 DEF CloseCommit, PeriodRowsOK
  <2>4. period' \in [Months -> PeriodRow]
    BY <1>4, ZenonT(60) DEF CloseCommit, PeriodRowsOK, PeriodRow, PeriodStatus
  <2>5. UNCHANGED <<opening, carry, fs>>
    BY <1>4 DEF CloseCommit
  <2>. QED  BY <2>1, <2>3, <2>4, <2>5, LedgerRowsKept DEF PeriodRowsOK, Months
<1>5. ASSUME NEW m \in Months, ReopenCheck(r, m) PROVE TypeOK'
  <2>. DEFINE q == [Idle EXCEPT !.at = "reopenCommit", !.month = m]
              p == [Idle EXCEPT !.at = "reopenRollback", !.month = m,
                                !.flag = TRUE]
  <2>1. q \in Request /\ WellFormed(q)
    BY DEF Idle, Request, Steps, PeriodStatus, WellFormed
  <2>2. CASE Hold(r, q)
    BY <1>5, <2>1, <2>2, HoldKeepsTypes DEF ReopenCheck
  <2>3. m + 1 \in Existing => p \in Request /\ WellFormed(p)
    BY DEF Idle, Request, Steps, PeriodStatus, WellFormed, Existing
  <2>4. CASE m + 1 \in Existing /\ Hold(r, p)
    BY <1>5, <2>3, <2>4, HoldKeepsTypes DEF ReopenCheck
  <2>. QED  BY <1>5, <2>2, <2>4 DEF ReopenCheck, IsLatest
<1>6. ASSUME ReopenRollbackRead(r) PROVE TypeOK'
  <2>. DEFINE q == [req[r] EXCEPT !.at = "reopenCommit"]
  <2>1. q \in Request /\ WellFormed(q)
    BY <1>6, RequestFields DEF ReopenRollbackRead, Request, Steps, WellFormed
  <2>. QED  BY <1>6, <2>1, HoldKeepsTypes DEF ReopenRollbackRead
<1>7. ASSUME ReopenCommit(r) PROVE TypeOK'
  <2>. DEFINE m == req[r].month
              rollback == req[r].flag
  <2>1. RequestsOK'
    <3>. DEFINE S == {x \in Requests : x = r \/ HoldsDeleted(req[x], m, rollback)}
    <3>1. req' = [x \in Requests |-> IF x \in S THEN Idle ELSE req[x]]
      BY <1>7 DEF ReopenCommit
    <3>. QED  BY <3>1, EndSomeType
  <2>2. closing' \in [Months -> ClosingRow] /\ carry' \in [Months -> BOOLEAN]
    BY <1>7 DEF ReopenCommit, DeleteSnapshots, PeriodRowsOK, ClosingRow, NoClosing
  <2>3. fs' \in [Months -> StatementRow]
    BY <1>7 DEF ReopenCommit, DeleteSnapshots, PeriodRowsOK, StatementRow,
                NoStatement
  <2>4. period' \in [Months -> PeriodRow]
    BY <1>7 DEF ReopenCommit, PeriodRowsOK, PeriodRow, PeriodStatus, NoPeriod
  <2>5. PeriodRowsOK'
    BY <1>7, <2>2, <2>3, <2>4 DEF ReopenCommit, PeriodRowsOK, Months
  <2>6. LedgerRowsOK'
    <3>1. CASE rollback
      <4>1. DeletePeriod(m + 1) /\ m + 1 \in Months
        BY <1>7, <3>1, RequestFields DEF ReopenCommit, WellFormed
      <4>. QED  BY <4>1, DeletePeriodType
    <3>2. CASE ~ rollback
      BY <1>7, <3>2, LedgerRowsKept DEF ReopenCommit
    <3>. QED  BY <3>1, <3>2
  <2>. QED  BY <2>1, <2>5, <2>6
<1>. QED
  BY <1>1, <1>2, <1>3, <1>4, <1>5, <1>6, <1>7 DEF PeriodStep

\* The row of an entry just numbered; the overrides below keep it one.
LEMMA NewEntryType ==
  ASSUME PeriodRowsOK, NEW m \in Months, NEW a \in Amounts \cup {NoAmount}
  PROVE  /\ NewEntry(m, a) \in EntryRow
         /\ NewEntry(m, a).month \in Months
  BY DEF PeriodRowsOK, PeriodRow, NewEntry, EntryRow, EntryStatus, EntryLive,
         NoEntryRow

\* Allocating a number keeps the period rows typed.
LEMMA AllocateType ==
  ASSUME PeriodRowsOK, NEW m \in Months, AllocateNumber(m),
         UNCHANGED <<opening, closing, carry, fs>>
  PROVE  PeriodRowsOK'
  BY DEF PeriodRowsOK, AllocateNumber, PeriodRow, Months

\* Setting the status of a transaction keeps its row typed.
LEMMA TxStatusType ==
  ASSUME NEW f \in [Txs -> TxRow], NEW t, NEW st \in TxStatus
  PROVE  [f EXCEPT ![t].status = st] \in [Txs -> TxRow]
<1>1. \A x \in Txs : [f[x] EXCEPT !.status = st] \in TxRow
  BY DEF TxRow
<1>. QED  BY <1>1

\* And it changes no other status, and no month.
LEMMA TxStatusAt ==
  ASSUME NEW f \in [Txs -> TxRow], NEW t, NEW st, NEW x \in Txs
  PROVE  LET g == [f EXCEPT ![t].status = st]
         IN  g[x].status = (IF x = t THEN st ELSE f[x].status)
             /\ g[x].month = f[x].month
  BY DEF TxRow

\* Entering, changing, deleting and confirming transactions keep the types.
LEMMA CollectedStepType ==
  ASSUME TypeOK, NEW r \in Requests, CollectedStep(r)
  PROVE  TypeOK'
<1>. USE DEF TypeOK
<1>1. ASSUME NEW m \in Months, NEW a \in Amounts, NEW st \in ManualStatus,
             CreateGuard(r, m, a, st)
      PROVE  TypeOK'
  <2>. DEFINE q == [Idle EXCEPT !.at = "createInsert", !.month = m,
                                !.amount = a, !.status = st]
  <2>1. q \in Request /\ WellFormed(q)
    BY DEF Idle, Request, Steps, TxStatus, Unposted, ManualStatus, WellFormed
  <2>. QED  BY <1>1, <2>1, HoldKeepsTypes DEF CreateGuard
<1>2. ASSUME NEW t \in Txs, CreateInsert(r, t) PROVE TypeOK'
  <2>. DEFINE q == req[r]
              row == [NoTxRow EXCEPT !.status = q.status, !.month = q.month,
                                     !.amount = q.amount]
  <2>1. row \in TxRow /\ row.month \in Months
    BY <1>2, RequestFields DEF CreateInsert, Request, WellFormed, TxRow,
       TxStatus, NoTxRow
  <2>2. tx' = [tx EXCEPT ![t] = row] /\ UNCHANGED <<plan, schedule, entry>>
    BY <1>2 DEF CreateInsert
  <2>3. LedgerRowsOK'
    BY <2>1, <2>2 DEF LedgerRowsOK, Months, Entries
  <2>4. RequestsOK' /\ UNCHANGED periodVars
    BY <1>2, AnswerType DEF CreateInsert
  <2>. QED  BY <2>3, <2>4, PeriodRowsKept
<1>3. ASSUME NEW t \in Txs, NEW m \in Months, NEW a \in Amounts,
             NEW st \in ManualStatus, NEW rev \in BOOLEAN,
             UpdateGuard(r, t, m, a, st, rev)
      PROVE  TypeOK'
  <2>. DEFINE q == [Idle EXCEPT !.at = "updateCommit", !.tx = t, !.month = m,
                            !.amount = a, !.status = st, !.flag = rev]
  <2>1. q \in Request /\ WellFormed(q)
    BY DEF Idle, Request, Steps, TxStatus, Unposted, ManualStatus, WellFormed
  <2>. QED  BY <1>3, <2>1, HoldKeepsTypes DEF UpdateGuard
<1>4. ASSUME UpdateCommit(r) PROVE TypeOK'
  <2>. DEFINE q == req[r]
              row == [tx[q.tx] EXCEPT !.status = q.status, !.month = q.month,
                          !.detached = FALSE, !.amount = q.amount,
                          !.type = IF q.flag THEN "REVERSAL" ELSE "PLAIN"]
  <2>0. /\ q.tx \in Txs /\ q.month \in Months /\ q.status \in Unposted
        /\ q.amount \in Amounts \cup {NoAmount}
    BY <1>4, RequestFields DEF UpdateCommit, Request, WellFormed
  <2>1. row \in TxRow /\ row.month \in Months
    <3>1. tx[q.tx] \in TxRow
      BY <2>0 DEF LedgerRowsOK
    <3>. QED  BY <2>0, <3>1 DEF TxRow, TxStatus
  <2>2. tx' = [tx EXCEPT ![q.tx] = row] /\ UNCHANGED <<plan, schedule, entry>>
    BY <1>4 DEF UpdateCommit
  <2>3. LedgerRowsOK'
    BY <2>1, <2>2 DEF LedgerRowsOK, Months, Entries
  <2>4. RequestsOK' /\ UNCHANGED periodVars
    BY <1>4, AnswerType DEF UpdateCommit
  <2>. QED  BY <2>3, <2>4, PeriodRowsKept
<1>5. ASSUME NEW t \in Txs, DeleteGuard(r, t) PROVE TypeOK'
  <2>. DEFINE q == [Idle EXCEPT !.at = "deleteCommit", !.tx = t]
  <2>1. q \in Request /\ WellFormed(q)
    BY DEF Idle, Request, Steps, PeriodStatus, WellFormed
  <2>. QED  BY <1>5, <2>1, HoldKeepsTypes DEF DeleteGuard
<1>6. ASSUME DeleteCommit(r) PROVE TypeOK'
  <2>1. tx' = [tx EXCEPT ![req[r].tx] = [NoTxRow EXCEPT !.status = "GONE"]]
    BY <1>6 DEF DeleteCommit
  <2>2. [NoTxRow EXCEPT !.status = "GONE"] \in TxRow
    BY DEF NoTxRow, TxRow, TxStatus
  <2>3. plan' \in [Txs -> PlanRow]
    BY <1>6 DEF DeleteCommit, LedgerRowsOK, PlanRow
  <2>4. LedgerRowsOK'
    BY <1>6, <2>1, <2>2, <2>3, ZenonT(60)
       DEF DeleteCommit, LedgerRowsOK, NoTxRow, Unposted, Months, Entries
  <2>5. RequestsOK' /\ UNCHANGED periodVars
    BY <1>6, AnswerType DEF DeleteCommit
  <2>. QED  BY <2>4, <2>5, PeriodRowsKept
<1>7. ASSUME NEW t \in Txs, ConfirmRead(r, t) PROVE TypeOK'
  <2>1. PICK s \in Schedules \cup {NoSchedule} :
          LET q == [Idle EXCEPT !.at = "confirmCommit", !.tx = t,
                       !.month = tx[t].month, !.amount = tx[t].amount,
                       !.flag = (plan[t].status # "NONE"), !.schedule = s]
          IN  \/ Hold(r, q)
              \/ \E e \in CancelledBy(t) :
                    Hold(r, [q EXCEPT !.entry = e, !.amount = entry[e].amount,
                                      !.status = tx[entry[e].source].status])
    BY <1>7 DEF ConfirmRead, LinkedSchedules
  <2>. DEFINE q == [Idle EXCEPT !.at = "confirmCommit", !.tx = t,
                       !.month = tx[t].month, !.amount = tx[t].amount,
                       !.flag = (plan[t].status # "NONE"), !.schedule = s]
  <2>2. tx[t] \in TxRow /\ tx[t].month \in Months
    BY <1>7 DEF ConfirmRead, CanBeConfirmed, LedgerRowsOK, Unposted
  <2>3. q \in Request /\ WellFormed(q)
    BY <2>2, ZenonT(60) DEF Idle, Request, Steps, PeriodStatus, WellFormed, TxRow
  <2>4. CASE Hold(r, q)
    BY <1>7, <2>3, <2>4, HoldKeepsTypes DEF ConfirmRead
  <2>5. ASSUME NEW e \in CancelledBy(t),
               Hold(r, [q EXCEPT !.entry = e, !.amount = entry[e].amount,
                                 !.status = tx[entry[e].source].status])
        PROVE  TypeOK'
    <3>. DEFINE p == [q EXCEPT !.entry = e, !.amount = entry[e].amount,
                               !.status = tx[entry[e].source].status]
    <3>1. /\ e \in Entries
          /\ entry[e].amount \in Amounts \cup {NoAmount}
          /\ tx[entry[e].source].status \in TxStatus
      BY DEF CancelledBy, LedgerRowsOK, EntryRow, TxRow
    <3>2. p \in Request /\ WellFormed(p)
      BY <2>2, <3>1, ZenonT(60) DEF Idle, Request, Steps, WellFormed, TxRow
    <3>. QED  BY <1>7, <2>5, <3>2, HoldKeepsTypes DEF ConfirmRead
  <2>. QED  BY <2>1, <2>4, <2>5
<1>8. ASSUME NEW e \in Entries, ConfirmCommit(r, e) PROVE TypeOK'
  <2>. DEFINE q == req[r]
              new == [NewEntry(q.month, q.amount) EXCEPT !.source = q.tx]
  <2>1. /\ q.month \in Months /\ q.tx \in Txs
        /\ q.amount \in Amounts \cup {NoAmount}
    BY <1>8, RequestFields DEF ConfirmCommit, Request, WellFormed
  <2>2. new \in EntryRow /\ new.month \in Months
    BY <2>1, NewEntryType DEF EntryRow
  <2>3. entry' = [entry EXCEPT ![e] = new]
    BY <1>8 DEF ConfirmCommit
  <2>4. plan' \in [Txs -> PlanRow]
    BY <1>8 DEF ConfirmCommit, LedgerRowsOK, PlanRow
  <2>5. schedule' \in [Schedules -> ScheduleRow]
    <3>1. \A s \in Schedules :
            schedule'[s] \in {schedule[s],
                [schedule[s] EXCEPT !.status = "POSTED", !.entry = e]}
      BY <1>8 DEF ConfirmCommit
    <3>2. \A s \in Schedules :
            [schedule[s] EXCEPT !.status = "POSTED", !.entry = e] \in ScheduleRow
      BY DEF LedgerRowsOK, ScheduleRow, ScheduleStatus
    <3>3. \A s \in Schedules : schedule'[s] \in ScheduleRow
      BY <3>1, <3>2 DEF LedgerRowsOK
    <3>4. schedule' = [s \in Schedules |-> schedule'[s]]
      BY <1>8 DEF ConfirmCommit
    <3>. QED  BY <3>3, <3>4
  <2>6. tx' \in [Txs -> TxRow]
    <3>1. tx' = [tx EXCEPT ![q.tx].status = "POSTED"]
      BY <1>8 DEF ConfirmCommit
    <3>. QED  BY <3>1, TxStatusType DEF TxStatus, LedgerRowsOK
  <2>7. \A t \in Txs : tx'[t].month = tx[t].month
                       /\ (tx'[t].status \in Unposted => tx[t].status \in Unposted)
    BY <1>8 DEF ConfirmCommit, LedgerRowsOK, TxRow, Unposted
  <2>8. LedgerRowsOK'
    BY <2>2, <2>3, <2>4, <2>5, <2>6, <2>7 DEF LedgerRowsOK, Months, Entries
  <2>9. PeriodRowsOK'
    BY <1>8, <2>1, AllocateType DEF ConfirmCommit
  <2>10. RequestsOK'
    BY <1>8, AnswerType DEF ConfirmCommit
  <2>. QED  BY <2>8, <2>9, <2>10
<1>9. ASSUME NEW e \in Entries, ConfirmCancellationCommit(r, e) PROVE TypeOK'
  <2>. DEFINE q == req[r]
              new == [NewEntry(q.month, q.amount)
                        EXCEPT !.source = q.tx, !.reverses = q.entry]
  <2>1. /\ q.month \in Months /\ q.tx \in Txs /\ q.entry \in Entries
        /\ q.amount \in Amounts \cup {NoAmount}
    BY <1>9, RequestFields DEF ConfirmCancellationCommit, Request, WellFormed
  <2>2. new \in EntryRow /\ new.month \in Months
    <3>1. /\ NewEntry(q.month, q.amount) \in EntryRow
          /\ NewEntry(q.month, q.amount).month \in Months
      BY <2>1, NewEntryType
    <3>. QED  BY <2>1, <3>1 DEF EntryRow
  <2>3. entry' = [entry EXCEPT ![q.entry].status = "REVERSED", ![e] = new]
    BY <1>9 DEF ConfirmCancellationCommit
  <2>4. entry[q.entry].month \in Months
    BY <1>9, <2>1 DEF ConfirmCancellationCommit, LedgerRowsOK, EntryLive
  <2>5. /\ entry' \in [Entries -> EntryRow]
        /\ \A k \in Entries : entry'[k].status \in EntryLive
                                => entry'[k].month \in Months
    BY <2>1, <2>2, <2>3, <2>4, SMTT(30) DEF LedgerRowsOK, EntryRow, EntryStatus, EntryLive
  <2>6. tx' \in [Txs -> TxRow]
    <3>1. tx' = [tx EXCEPT ![q.tx].status = "POSTED",
                           ![entry[q.entry].source].status = "CORRECTED"]
      BY <1>9 DEF ConfirmCancellationCommit
    <3>. DEFINE posted == [tx EXCEPT ![q.tx].status = "POSTED"]
    <3>2. posted \in [Txs -> TxRow]
      BY TxStatusType DEF LedgerRowsOK, TxStatus
    <3>3. tx' = [posted EXCEPT ![entry[q.entry].source].status = "CORRECTED"]
      BY <3>1 DEF LedgerRowsOK
    <3>. HIDE DEF posted
    <3>. QED  BY <3>2, <3>3, TxStatusType DEF TxStatus
  <2>7. \A t \in Txs : tx'[t].month = tx[t].month
                       /\ (tx'[t].status \in Unposted => tx[t].status \in Unposted)
    <3>. DEFINE posted == [tx EXCEPT ![q.tx].status = "POSTED"]
    <3>1. tx \in [Txs -> TxRow] /\ posted \in [Txs -> TxRow]
      BY TxStatusType DEF LedgerRowsOK, TxStatus
    <3>2. tx' = [posted EXCEPT ![entry[q.entry].source].status = "CORRECTED"]
      BY <1>9, <3>1 DEF ConfirmCancellationCommit
    <3>3. \A t \in Txs :
            /\ posted[t].status = IF t = q.tx THEN "POSTED" ELSE tx[t].status
            /\ posted[t].month = tx[t].month
      BY <3>1, TxStatusAt
    <3>. HIDE DEF posted
    <3>. QED  BY <3>1, <3>2, <3>3, TxStatusAt DEF Unposted
  <2>8. UNCHANGED <<plan, schedule>>
    BY <1>9 DEF ConfirmCancellationCommit
  <2>9. LedgerRowsOK'
    BY <2>5, <2>6, <2>7, <2>8 DEF LedgerRowsOK, Months, Entries
  <2>10. PeriodRowsOK'
    BY <1>9, <2>1, AllocateType DEF ConfirmCancellationCommit
  <2>11. RequestsOK'
    BY <1>9, AnswerType DEF ConfirmCancellationCommit
  <2>. QED  BY <2>9, <2>10, <2>11
<1>. QED
  BY <1>1, <1>2, <1>3, <1>4, <1>5, <1>6, <1>7, <1>8, <1>9 DEF CollectedStep

\* Adjusting one entry by a new one keeps the entries typed.
LEMMA EntryPairType ==
  ASSUME LedgerRowsOK, NEW o \in Entries, NEW e \in Entries,
         NEW st \in EntryLive, NEW new \in EntryRow, new.month \in Months,
         entry[o].status \in EntryLive,
         entry' = [entry EXCEPT ![o].status = st, ![e] = new]
  PROVE  /\ entry' \in [Entries -> EntryRow]
         /\ \A k \in Entries : entry'[k].status \in EntryLive
                                 => entry'[k].month \in Months
<1>1. entry[o].month \in Months
  BY DEF LedgerRowsOK
<1>. QED  BY <1>1 DEF LedgerRowsOK, EntryRow, EntryStatus, EntryLive

\* What the claim of an adjusted entry leaves.
LEMMA ClaimType ==
  ASSUME TypeOK, NEW q, q.month \in Months, ClaimOriginal(q),
         UNCHANGED <<opening, closing, carry, fs>>
  PROVE  /\ PeriodRowsOK'
         /\ tx' \in [Txs -> TxRow]
         /\ \A t \in Txs : tx'[t].status \in Unposted => tx'[t].month \in Months
<1>1. PeriodRowsOK'
  BY AllocateType DEF ClaimOriginal, TypeOK
<1>2. tx' = tx \/ tx' = [tx EXCEPT ![entry[q.entry].source].status = "CORRECTED"]
  BY DEF ClaimOriginal
<1>3. tx' \in [Txs -> TxRow]
  <2>1. tx \in [Txs -> TxRow]
    BY DEF TypeOK, LedgerRowsOK
  <2>2. "CORRECTED" \in TxStatus
    BY DEF TxStatus
  <2>. QED  BY <1>2, <2>1, <2>2, TxStatusType
<1>4. \A t \in Txs : tx'[t].month = tx[t].month
                     /\ (tx'[t].status \in Unposted => tx[t].status \in Unposted)
  <2>1. CASE tx' = tx
    BY <2>1
  <2>2. CASE tx' = [tx EXCEPT ![entry[q.entry].source].status = "CORRECTED"]
    BY <2>2 DEF TypeOK, LedgerRowsOK, TxRow, Unposted
  <2>. QED  BY <1>2, <2>1, <2>2
<1>. QED  BY <1>1, <1>3, <1>4 DEF TypeOK, LedgerRowsOK

\* The check before an adjustment holds the entry and a month.
LEMMA AdjustGuardType ==
  ASSUME TypeOK, NEW r \in Requests, NEW op,
         NEW step \in {"reverseRead", "correctRead"}, NEW e \in Entries,
         NEW m \in Months, NEW a \in Amounts \cup {NoAmount},
         AdjustGuard(r, op, step, e, m, a)
  PROVE  TypeOK'
<1>. DEFINE q == [Idle EXCEPT !.at = step, !.entry = e, !.month = m,
                              !.amount = a]
<1>1. q \in Request /\ WellFormed(q)
  BY DEF Idle, Request, Steps, PeriodStatus, WellFormed
<1>. QED  BY <1>1, HoldKeepsTypes DEF AdjustGuard

\* The snapshot of an adjustment is held with the same references.
LEMMA AdjustReadType ==
  ASSUME TypeOK, NEW r \in Requests,
         NEW from \in {"reverseRead", "correctRead"},
         NEW to \in {"reverseCommit", "correctCommit"},
         AdjustRead(r, from, to)
  PROVE  TypeOK'
<1>. DEFINE t == entry[req[r].entry].source
            st == IF t = NoTx THEN "NONE" ELSE tx[t].status
            q == [req[r] EXCEPT !.at = to, !.status = st]
<1>1. req[r] \in Request /\ req[r].entry \in Entries /\ req[r].month \in Months
  BY RequestFields DEF AdjustRead, WellFormed, TypeOK
<1>2. t \in Txs \cup {NoTx}
  BY <1>1 DEF TypeOK, LedgerRowsOK, EntryRow
<1>3. st \in PeriodStatus \cup TxStatus
  BY <1>2 DEF TypeOK, LedgerRowsOK, TxRow, PeriodStatus
<1>4. q \in Request
  <2>. HIDE DEF st
  <2>. QED  BY <1>1, <1>3 DEF Request, Steps
<1>5. q.at = to /\ q.entry = req[r].entry /\ q.month = req[r].month
  BY <1>1 DEF Request
<1>6. WellFormed(q)
  BY <1>1, <1>5 DEF WellFormed
<1>. QED  BY <1>4, <1>6, HoldKeepsTypes DEF AdjustRead

\* Restoring the plan item and the schedule keeps them typed.
LEMMA RestorePlanningType ==
  ASSUME LedgerRowsOK, NEW t, NEW e, RestorePlanning(t, e)
  PROVE  plan' \in [Txs -> PlanRow] /\ schedule' \in [Schedules -> ScheduleRow]
<1>1. CASE UNCHANGED <<plan, schedule>>
  BY <1>1 DEF LedgerRowsOK
<1>2. CASE /\ plan' = [plan EXCEPT ![t].status =
                            IF @ = "CONFIRMED" THEN "MATCHED" ELSE @]
           /\ schedule' = [s \in Schedules |->
                IF /\ schedule[s].tx = t
                   /\ schedule[s].status = "POSTED"
                   /\ schedule[s].entry = e
                THEN [schedule[s] EXCEPT !.status = "MATCHED", !.entry = NoEntry]
                ELSE schedule[s]]
  <2>1. \A s \in Schedules :
          [schedule[s] EXCEPT !.status = "MATCHED", !.entry = NoEntry]
                \in ScheduleRow
    BY DEF LedgerRowsOK, ScheduleRow, ScheduleStatus
  <2>2. schedule' \in [Schedules -> ScheduleRow]
    BY <1>2, <2>1 DEF LedgerRowsOK
  <2>3. plan' \in [Txs -> PlanRow]
    BY <1>2 DEF LedgerRowsOK, PlanRow
  <2>. QED  BY <2>2, <2>3
<1>. QED  BY <1>1, <1>2 DEF RestorePlanning

\* Reversing and correcting an entry keep the types.
LEMMA JournalStepType ==
  ASSUME TypeOK, NEW r \in Requests, JournalStep(r)
  PROVE  TypeOK'
<1>1. ASSUME NEW e \in Entries, NEW m \in Months, ReverseGuard(r, e, m)
      PROVE  TypeOK'
  BY <1>1, AdjustGuardType DEF ReverseGuard
<1>2. ASSUME ReverseRead(r) PROVE TypeOK'
  BY <1>2, AdjustReadType DEF ReverseRead
<1>3. ASSUME NEW e \in Entries, ReverseCommit(r, e) PROVE TypeOK'
  <2>. DEFINE q == req[r]
              a == entry[q.entry].amount
              new == [NewEntry(q.month, a) EXCEPT !.reverses = q.entry]
  <2>1. /\ q.month \in Months /\ q.entry \in Entries
        /\ a \in Amounts \cup {NoAmount}
    BY <1>3, RequestFields
       DEF ReverseCommit, WellFormed, TypeOK, LedgerRowsOK, EntryRow
  <2>2. new \in EntryRow /\ new.month \in Months
    <3>1. NewEntry(q.month, a) \in EntryRow /\ NewEntry(q.month, a).month \in Months
      BY <2>1, NewEntryType DEF TypeOK
    <3>. QED  BY <2>1, <3>1 DEF EntryRow
  <2>3. /\ entry' = [entry EXCEPT ![q.entry].status = "REVERSED", ![e] = new]
        /\ entry[q.entry].status \in EntryLive
    BY <1>3 DEF ReverseCommit, ClaimOriginal, EntryLive
  <2>4. /\ PeriodRowsOK'
        /\ tx' \in [Txs -> TxRow]
        /\ \A t \in Txs : tx'[t].status \in Unposted => tx'[t].month \in Months
    BY <1>3, <2>1, ClaimType DEF ReverseCommit
  <2>5. plan' \in [Txs -> PlanRow] /\ schedule' \in [Schedules -> ScheduleRow]
    BY <1>3, RestorePlanningType DEF ReverseCommit, TypeOK
  <2>6. LedgerRowsOK'
    BY <2>1, <2>2, <2>3, <2>4, <2>5, EntryPairType
       DEF TypeOK, EntryLive, LedgerRowsOK, Months, Entries
  <2>. QED  BY <1>3, <2>4, <2>6, AnswerType DEF ReverseCommit, TypeOK
<1>4. ASSUME NEW e \in Entries, NEW m \in Months, NEW a \in Amounts,
             CorrectGuard(r, e, m, a)
      PROVE  TypeOK'
  BY <1>4, AdjustGuardType DEF CorrectGuard
<1>5. ASSUME CorrectRead(r) PROVE TypeOK'
  BY <1>5, AdjustReadType DEF CorrectRead
<1>6. ASSUME NEW e \in Entries, CorrectCommit(r, e) PROVE TypeOK'
  <2>. DEFINE q == req[r]
              new == [NewEntry(q.month, q.amount) EXCEPT !.corrects = q.entry]
  <2>1. /\ q.month \in Months /\ q.entry \in Entries
        /\ q.amount \in Amounts \cup {NoAmount}
    BY <1>6, RequestFields DEF CorrectCommit, Request, WellFormed, TypeOK
  <2>2. new \in EntryRow /\ new.month \in Months
    <3>1. /\ NewEntry(q.month, q.amount) \in EntryRow
          /\ NewEntry(q.month, q.amount).month \in Months
      BY <2>1, NewEntryType DEF TypeOK
    <3>. QED  BY <2>1, <3>1 DEF EntryRow
  <2>3. /\ entry' = [entry EXCEPT ![q.entry].status = "SUPERSEDED", ![e] = new]
        /\ entry[q.entry].status \in EntryLive
    BY <1>6 DEF CorrectCommit, ClaimOriginal, EntryLive
  <2>4. /\ PeriodRowsOK'
        /\ tx' \in [Txs -> TxRow]
        /\ \A t \in Txs : tx'[t].status \in Unposted => tx'[t].month \in Months
    BY <1>6, <2>1, ClaimType DEF CorrectCommit
  <2>5. UNCHANGED <<plan, schedule>>
    BY <1>6 DEF CorrectCommit
  <2>6. LedgerRowsOK'
    BY <2>1, <2>2, <2>3, <2>4, <2>5, EntryPairType
       DEF TypeOK, EntryLive, LedgerRowsOK, Months, Entries
  <2>. QED  BY <1>6, <2>4, <2>6, AnswerType DEF CorrectCommit, TypeOK
<1>. QED
  BY <1>1, <1>2, <1>3, <1>4, <1>5, <1>6 DEF JournalStep

\* Carrying forward, cancelling that and making statements keep the types.
LEMMA SnapshotStepType ==
  ASSUME TypeOK, NEW r \in Requests, SnapshotStep(r)
  PROVE  TypeOK'
<1>. USE DEF TypeOK
<1>1. ASSUME NEW m \in Months, CarryCheck(r, m) PROVE TypeOK'
  <2>. DEFINE f == m + 1 \in Existing
              q == [Idle EXCEPT !.at = "carryCommit", !.month = m, !.flag = f,
                                !.entries = closing[m].entries]
  <2>1. m + 1 \in Months /\ closing[m].entries \in SUBSET Entries
    BY <1>1 DEF CarryCheck, PeriodRowsOK, ClosingRow
  <2>2. q \in Request
    <3>1. f \in BOOLEAN
      OBVIOUS
    <3>. HIDE DEF f
    <3>. QED  BY <2>1, <3>1 DEF Idle, Request, Steps, PeriodStatus
  <2>3. q.at = "carryCommit" /\ q.month = m
    BY DEF Idle
  <2>4. WellFormed(q)
    BY <2>1, <2>3 DEF WellFormed
  <2>. QED  BY <1>1, <2>2, <2>4, HoldKeepsTypes DEF CarryCheck
<1>2. ASSUME CarryCommit(r) PROVE TypeOK'
  <2>1. opening' \in [Months -> OpeningRow]
    <3>1. [kind |-> "CARRY_FORWARD", entries |-> req[r].entries] \in OpeningRow
      BY RequestFields DEF Request, OpeningRow
    <3>. QED  BY <1>2, <3>1 DEF CarryCommit, PeriodRowsOK
  <2>2. period' \in [Months -> PeriodRow]
    BY <1>2 DEF CarryCommit, PeriodRowsOK, PeriodRow, NewPeriod, PeriodStatus
  <2>3. carry' \in [Months -> BOOLEAN]
    BY <1>2 DEF CarryCommit, PeriodRowsOK
  <2>4. PeriodRowsOK'
    BY <1>2, <2>1, <2>2, <2>3 DEF CarryCommit, PeriodRowsOK, Months
  <2>. QED  BY <1>2, <2>4, AnswerType, LedgerRowsKept DEF CarryCommit
<1>3. ASSUME NEW m \in Months, CancelCarryRead(r, m) PROVE TypeOK'
  <2>. DEFINE q == [Idle EXCEPT !.at = "cancelCarryCommit", !.month = m]
  <2>1. q \in Request /\ WellFormed(q)
    BY DEF Idle, Request, Steps, PeriodStatus, WellFormed
  <2>. QED  BY <1>3, <2>1, HoldKeepsTypes DEF CancelCarryRead
<1>4. ASSUME CancelCarryCommit(r) PROVE TypeOK'
  <2>1. RequestsOK'
    <3>. DEFINE S == {x \in Requests : req[x].at = "cancelCarryCommit"
                                        /\ req[x].month = req[r].month}
    <3>1. req' = [x \in Requests |-> IF x \in S THEN Idle ELSE req[x]]
      BY <1>4 DEF CancelCarryCommit
    <3>. QED  BY <3>1, EndSomeType
  <2>2. PeriodRowsOK'
    BY <1>4 DEF CancelCarryCommit, PeriodRowsOK, OpeningRow, NoOpening, Months
  <2>. QED  BY <1>4, <2>1, <2>2, LedgerRowsKept DEF CancelCarryCommit
<1>5. ASSUME NEW m \in Months, StatementsRead(r, m) PROVE TypeOK'
  <2>. DEFINE q == [Idle EXCEPT !.at = "statementsCommit", !.month = m,
                                !.entries = closing[m].entries,
                                !.posted = PostedOf(m)]
  <2>1. q \in Request /\ WellFormed(q)
    BY DEF Idle, Request, Steps, PeriodStatus, WellFormed, PeriodRowsOK,
           ClosingRow, PostedOf, EntriesOf
  <2>. QED  BY <1>5, <2>1, HoldKeepsTypes DEF StatementsRead
<1>6. ASSUME StatementsCommit(r) PROVE TypeOK'
  <2>1. [exists |-> TRUE, entries |-> req[r].entries, posted |-> req[r].posted]
            \in StatementRow
    BY RequestFields DEF Request, StatementRow
  <2>2. PeriodRowsOK'
    BY <1>6, <2>1 DEF StatementsCommit, PeriodRowsOK, Months
  <2>. QED  BY <1>6, <2>2, AnswerType, LedgerRowsKept DEF StatementsCommit
<1>. QED
  BY <1>1, <1>2, <1>3, <1>4, <1>5, <1>6 DEF SnapshotStep

\* Matching a plan item with another transaction keeps the rows typed.
LEMMA MatchPlanType ==
  ASSUME LedgerRowsOK, NEW old, NEW t \in Txs, NEW m \in Months \cup {NoMonth},
         MatchPlan(old, t, m)
  PROVE  plan' \in [Txs -> PlanRow] /\ schedule' \in [Schedules -> ScheduleRow]
<1>1. plan' \in [Txs -> PlanRow]
  BY DEF MatchPlan, LedgerRowsOK, PlanRow, NoPlan
<1>2. \A s \in Schedules :
        [schedule[s] EXCEPT !.tx = t,
            !.status = IF @ \in {"SCHEDULED", "PLANNED"}
                       THEN "MATCHED" ELSE @] \in ScheduleRow
  BY DEF LedgerRowsOK, ScheduleRow, ScheduleStatus
<1>3. schedule' \in [Schedules -> ScheduleRow]
  BY <1>2 DEF MatchPlan, LedgerRowsOK
<1>. QED  BY <1>1, <1>3

\* Collecting rows, cancelling that and generating a repayment keep the types.
LEMMA SourceStepType ==
  ASSUME TypeOK, NEW r \in Requests, SourceStep(r)
  PROVE  TypeOK'
<1>. USE DEF TypeOK
<1>1. ASSUME NEW w \in Rows, NEW a \in Amounts, NEW st \in Unposted,
             CollectRowRead(r, w, a, st)
      PROVE  TypeOK'
  <2>. DEFINE create == RowMonth[w] \notin Existing
              q == [Idle EXCEPT !.at = "collectRowInsert", !.month = RowMonth[w],
                        !.row = w, !.amount = a, !.status = st, !.flag = create]
  <2>1. RowMonth[w] \in Months /\ st \in TxStatus /\ create \in BOOLEAN
    BY LedgerConstants DEF LedgerConstants, TxStatus
  <2>2. q \in Request
    <3>. HIDE DEF create
    <3>. QED  BY <2>1 DEF Idle, Request, Steps
  <2>3. ASSUME NEW t \in Txs
        PROVE  /\ [q EXCEPT !.tx = t] \in Request
               /\ [q EXCEPT !.at = "collectRowAbsorb", !.tx = t] \in Request
    <3>. HIDE DEF q
    <3>. QED  BY <2>2, ZenonT(60) DEF Request, Steps
  <2>4. WellFormed(q)
    BY <2>1 DEF WellFormed, Idle
  <2>5. ASSUME NEW t \in Txs
        PROVE  /\ WellFormed([q EXCEPT !.tx = t])
               /\ WellFormed([q EXCEPT !.at = "collectRowAbsorb", !.tx = t])
    BY <2>1 DEF WellFormed, Idle
  <2>6. UNCHANGED <<periodVars, ledgerVars>>
    BY <1>1 DEF CollectRowRead
  <2>7. \/ Hold(r, q)
        \/ \E t \in Txs : Hold(r, [q EXCEPT !.tx = t])
        \/ \E t \in Txs : Hold(r, [q EXCEPT !.at = "collectRowAbsorb", !.tx = t])
    BY <1>1 DEF CollectRowRead, DraftPlans, PlannedTxs, Pending
  <2>. HIDE DEF q
  <2>. QED  BY <2>2, <2>3, <2>4, <2>5, <2>6, <2>7, HoldKeepsTypes
<1>2. ASSUME NEW t \in Txs, CollectRowInsert(r, t) PROVE TypeOK'
  <2>. DEFINE q == req[r]
              row == [NoTxRow EXCEPT !.status = q.status, !.month = q.month,
                    !.amount = q.amount, !.row = q.row,
                    !.type = IF IsReversalRow(q.row) THEN "REVERSAL" ELSE "PLAIN"]
  <2>1. /\ q.month \in Months /\ q.status \in Unposted /\ q.row \in Rows
        /\ q.amount \in Amounts \cup {NoAmount} /\ q.tx \in Txs \cup {NoTx}
    BY <1>2, RequestFields DEF CollectRowInsert, Request, WellFormed
  <2>2. row \in TxRow /\ row.month \in Months
    BY <2>1 DEF TxRow, TxStatus, NoTxRow
  <2>3. tx' = [tx EXCEPT ![t] = row] /\ UNCHANGED entry
    BY <1>2 DEF CollectRowInsert
  <2>4. plan' \in [Txs -> PlanRow] /\ schedule' \in [Schedules -> ScheduleRow]
    <3>1. CASE q.tx = NoTx
      BY <1>2, <3>1 DEF CollectRowInsert, LedgerRowsOK
    <3>2. CASE q.tx # NoTx
      <4>1. plan[q.tx].month \in Months \cup {NoMonth}
        BY <2>1, <3>2 DEF LedgerRowsOK, PlanRow
      <4>2. MatchPlan(q.tx, t, plan[q.tx].month)
        BY <1>2, <3>2 DEF CollectRowInsert
      <4>. QED  BY <4>1, <4>2, MatchPlanType
    <3>. QED  BY <3>1, <3>2
  <2>5. LedgerRowsOK'
    BY <2>2, <2>3, <2>4 DEF LedgerRowsOK, Months, Entries
  <2>6. PeriodRowsOK'
    BY <1>2 DEF CollectRowInsert, PeriodRowsOK, PeriodRow, NewPeriod,
                PeriodStatus, Months
  <2>. QED  BY <1>2, <2>5, <2>6, AnswerType DEF CollectRowInsert
<1>3. ASSUME CollectRowAbsorb(r) PROVE TypeOK'
  <2>. DEFINE q == req[r]
              row == [tx[q.tx] EXCEPT !.status = q.status, !.month = q.month,
                          !.detached = FALSE, !.amount = q.amount,
                          !.row = q.row, !.type = "PLAIN"]
  <2>1. /\ q.month \in Months /\ q.status \in Unposted /\ q.row \in Rows
        /\ q.amount \in Amounts \cup {NoAmount} /\ q.tx \in Txs
    BY <1>3, RequestFields DEF CollectRowAbsorb, Request, WellFormed
  <2>2. row \in TxRow /\ row.month \in Months
    <3>1. tx[q.tx] \in TxRow
      BY <2>1 DEF LedgerRowsOK
    <3>. QED  BY <2>1, <3>1 DEF TxRow, TxStatus
  <2>3. tx' = [tx EXCEPT ![q.tx] = row] /\ UNCHANGED <<periodVars, entry>>
    BY <1>3 DEF CollectRowAbsorb
  <2>4. plan[q.tx].month \in Months \cup {NoMonth}
    BY <2>1 DEF LedgerRowsOK, PlanRow
  <2>5. plan' \in [Txs -> PlanRow] /\ schedule' \in [Schedules -> ScheduleRow]
    BY <1>3, <2>1, <2>4, MatchPlanType DEF CollectRowAbsorb
  <2>6. LedgerRowsOK'
    BY <2>2, <2>3, <2>5 DEF LedgerRowsOK, Months, Entries
  <2>. QED  BY <1>3, <2>3, <2>6, AnswerType, PeriodRowsKept DEF CollectRowAbsorb
<1>4. ASSUME NEW s \in Schedules, NEW a \in Amounts, RepaymentCheck(r, s, a)
      PROVE  TypeOK'
  <2>. DEFINE q == [Idle EXCEPT !.at = "repaymentCommit", !.schedule = s,
                                !.month = DueMonth[s], !.amount = a]
  <2>1. DueMonth[s] \in Months
    BY LedgerConstants DEF LedgerConstants
  <2>2. q \in Request /\ WellFormed(q)
    BY <2>1 DEF Idle, Request, Steps, PeriodStatus, WellFormed
  <2>. QED  BY <1>4, <2>2, HoldKeepsTypes DEF RepaymentCheck
<1>5. ASSUME NEW t \in Txs, RepaymentCommit(r, t) PROVE TypeOK'
  <2>. DEFINE q == req[r]
              row == [NoTxRow EXCEPT !.status = "READY_TO_POST",
                                     !.month = q.month, !.amount = q.amount]
  <2>1. q.month \in Months /\ q.amount \in Amounts \cup {NoAmount}
    BY <1>5, RequestFields DEF RepaymentCommit, Request, WellFormed
  <2>2. row \in TxRow /\ row.month \in Months
    BY <2>1 DEF TxRow, TxStatus, Unposted, NoTxRow
  <2>3. tx' = [tx EXCEPT ![t] = row] /\ UNCHANGED <<periodVars, entry>>
    BY <1>5 DEF RepaymentCommit
  <2>4. plan' \in [Txs -> PlanRow]
    BY <1>5, <2>1 DEF RepaymentCommit, LedgerRowsOK, PlanRow
  <2>5. schedule' \in [Schedules -> ScheduleRow]
    BY <1>5 DEF RepaymentCommit, LedgerRowsOK, ScheduleRow, ScheduleStatus
  <2>6. LedgerRowsOK'
    BY <2>2, <2>3, <2>4, <2>5 DEF LedgerRowsOK, Months, Entries
  <2>. QED  BY <1>5, <2>3, <2>6, AnswerType, PeriodRowsKept DEF RepaymentCommit
<1>6. ASSUME NEW rows \in Batches, CancelCollectionRead(r, rows) PROVE TypeOK'
  <2>. DEFINE q == [Idle EXCEPT !.at = "cancelCollectionCommit",
                                !.txs = CollectedFrom(rows)]
  <2>1. CollectedFrom(rows) \in SUBSET Txs
    BY DEF CollectedFrom
  <2>2. q \in Request /\ WellFormed(q)
    BY <2>1 DEF Idle, Request, Steps, PeriodStatus, WellFormed
  <2>. QED  BY <1>6, <2>2, HoldKeepsTypes DEF CancelCollectionRead
<1>7. ASSUME CancelCollectionCommit(r) PROVE TypeOK'
  <2>1. tx' \in [Txs -> TxRow]
    BY <1>7 DEF CancelCollectionCommit, LedgerRowsOK, TxRow, TxStatus, NoTxRow
  <2>2. \A t \in Txs : tx'[t].status \in Unposted => tx'[t].month \in Months
    BY <1>7 DEF CancelCollectionCommit, LedgerRowsOK, Unposted, NoTxRow
  <2>3. plan' \in [Txs -> PlanRow]
    BY <1>7 DEF CancelCollectionCommit, LedgerRowsOK, PlanRow
  <2>4. schedule' \in [Schedules -> ScheduleRow]
    BY <1>7 DEF CancelCollectionCommit, LedgerRowsOK, ScheduleRow, ScheduleStatus
  <2>5. UNCHANGED <<periodVars, entry>>
    BY <1>7 DEF CancelCollectionCommit
  <2>6. LedgerRowsOK'
    BY <2>1, <2>2, <2>3, <2>4, <2>5 DEF LedgerRowsOK, Months, Entries
  <2>. QED
    BY <1>7, <2>5, <2>6, AnswerType, PeriodRowsKept DEF CancelCollectionCommit
<1>8. ASSUME NEW s \in Schedules, NEW st \in ScheduleStatus,
             UpdateRepaymentCheck(r, s, st)
      PROVE  TypeOK'
  <2>. DEFINE q == [Idle EXCEPT !.at = "updateRepaymentCommit", !.schedule = s,
                                !.status = st]
  <2>1. q \in Request /\ WellFormed(q)
    BY DEF Idle, Request, Steps, WellFormed
  <2>. QED  BY <1>8, <2>1, HoldKeepsTypes DEF UpdateRepaymentCheck
<1>9. ASSUME UpdateRepaymentCommit(r) PROVE TypeOK'
  <2>1. req[r].status \in ScheduleStatus
    BY <1>9, RequestFields DEF UpdateRepaymentCommit, WellFormed
  <2>2. schedule' \in [Schedules -> ScheduleRow]
    BY <1>9, <2>1
       DEF UpdateRepaymentCommit, LedgerRowsOK, ScheduleRow, ScheduleStatus
  <2>3. UNCHANGED <<periodVars, tx, plan, entry>>
    BY <1>9 DEF UpdateRepaymentCommit
  <2>4. LedgerRowsOK'
    BY <2>2, <2>3 DEF LedgerRowsOK, Months, Entries
  <2>. QED
    BY <1>9, <2>3, <2>4, AnswerType, PeriodRowsKept DEF UpdateRepaymentCommit
<1>. QED
  BY <1>1, <1>2, <1>3, <1>4, <1>5, <1>6, <1>7, <1>8, <1>9 DEF SourceStep

\* A request that fails leaves every row as it was.
LEMMA FailType ==
  ASSUME TypeOK, NEW r \in Requests, Fail(r)
  PROVE  TypeOK'
  BY IdleType, HoldKeepsTypes DEF Fail, Answer, Hold

\* An empty workspace is typed.
LEMMA InitType == Init => TypeOK
<1>. SUFFICES ASSUME Init PROVE TypeOK
  OBVIOUS
<1>1. PeriodRowsOK
  BY DEF Init, PeriodRowsOK, PeriodRow, OpeningRow, ClosingRow, StatementRow,
         NoPeriod, NoOpening, NoClosing, NoStatement, PeriodStatus
<1>2. LedgerRowsOK
  BY DEF Init, LedgerRowsOK, TxRow, PlanRow, ScheduleRow, ScheduleStatus,
         EntryRow, TxStatus, Unposted, EntryStatus, EntryLive, NoTxRow, NoPlan,
         NewSchedule,
         NoEntryRow
<1>3. RequestsOK
  BY IdleType DEF Init, RequestsOK
<1>. QED  BY <1>1, <1>2, <1>3 DEF TypeOK

\* Every step of every request keeps the types.
LEMMA NextType == TypeOK /\ [Next]_vars => TypeOK'
<1>. SUFFICES ASSUME TypeOK, [Next]_vars PROVE TypeOK'
  OBVIOUS
<1>1. CASE UNCHANGED vars
  BY <1>1 DEF vars, TypeOK, PeriodRowsOK, LedgerRowsOK, RequestsOK, WellFormed,
              Months, Entries
<1>2. CASE Next
  BY <1>2, PeriodStepType, CollectedStepType, JournalStepType, SnapshotStepType,
     SourceStepType, FailType DEF Next
<1>. QED  BY <1>1, <1>2

\* Type correctness: the rows keep the types of the schema, and a handler
\* between two database steps always holds the references that its next
\* statement is about, whatever the other requests do meanwhile.
THEOREM TypeCorrect == Spec => []TypeOK
  BY InitType, NextType, PTL DEF Spec

-----------------------------------------------------------------------------
(* What the steps write *)

\* The commits that post an entry.
PostingCommit(r, e) ==
    \/ ConfirmCommit(r, e)
    \/ ConfirmCancellationCommit(r, e)
    \/ ReverseCommit(r, e)
    \/ CorrectCommit(r, e)

\* The other steps of transactions and entries leave entries and months alone.
LEMMA OtherStepsPostNothing ==
  ASSUME NEW r, CollectedStep(r) \/ JournalStep(r)
  PROVE  \/ UNCHANGED <<period, entry, closing>>
         \/ \E e \in Entries : PostingCommit(r, e)
  BY DEF CollectedStep, CreateGuard, CreateInsert, UpdateGuard, UpdateCommit,
         DeleteGuard, DeleteCommit, ConfirmRead, JournalStep, ReverseGuard,
         ReverseRead, CorrectGuard, CorrectRead, AdjustGuard, AdjustRead,
         PostingCommit, periodVars, ledgerVars

\* An entry is written by a commit that posts, and by a rollback.
LEMMA EntryWriters ==
  ASSUME Next
  PROVE  \/ UNCHANGED entry
         \/ \E r \in Requests : ReopenCommit(r) /\ req[r].flag
         \/ \E r \in Requests, e \in Entries : PostingCommit(r, e)
<1>1. PICK r \in Requests :
            \/ PeriodStep(r) \/ CollectedStep(r) \/ JournalStep(r)
            \/ SnapshotStep(r) \/ SourceStep(r) \/ Fail(r)
  BY DEF Next
<1>2. PeriodStep(r) => (ReopenCommit(r) /\ req[r].flag) \/ UNCHANGED entry
  BY DEF PeriodStep, OpenCheck, OpenCommit, CloseRead, CloseCommit,
         ReopenCheck, ReopenRollbackRead, ReopenCommit, ledgerVars
<1>3. SnapshotStep(r) \/ SourceStep(r) \/ Fail(r) => UNCHANGED entry
  BY DEF SnapshotStep, CarryCheck, CarryCommit, CancelCarryRead,
         CancelCarryCommit, StatementsRead, StatementsCommit, SourceStep,
         CollectRowRead, CollectRowInsert, CollectRowAbsorb,
         CancelCollectionRead, CancelCollectionCommit, RepaymentCheck,
         RepaymentCommit, UpdateRepaymentCheck, UpdateRepaymentCommit, Fail,
         ledgerVars
<1>. QED  BY <1>1, <1>2, <1>3, OtherStepsPostNothing

\* The new entry e is posted from u and reverses or corrects the POSTED entry
\* o, according to the status o gets, or has no original; all others stay.
Posts(e, u, o, st) ==
    /\ entry[e].status = "ABSENT"
    /\ entry'[e].status = "POSTED"
    /\ entry'[e].source = u
    /\ entry'[e].reverses = IF st = "REVERSED" THEN o ELSE NoEntry
    /\ entry'[e].corrects = IF st = "SUPERSEDED" THEN o ELSE NoEntry
    /\ IF o = NoEntry THEN st = "POSTED"
       ELSE /\ o \in Entries \ {e}
            /\ entry[o].status = "POSTED"
            /\ st \in {"REVERSED", "SUPERSEDED"}
            /\ entry'[o] = [entry[o] EXCEPT !.status = st]
    /\ \A k \in Entries \ {e, o} : entry'[k] = entry[k]

\* What the two writes of an adjustment make of the entries.
LEMMA AdjustmentPosts ==
  ASSUME TypeOK, NEW o \in Entries, NEW e \in Entries, FreshEntry(e),
         entry[o].status = "POSTED", NEW st \in {"REVERSED", "SUPERSEDED"},
         NEW new, new.status = "POSTED",
         new.reverses = IF st = "REVERSED" THEN o ELSE NoEntry,
         new.corrects = IF st = "SUPERSEDED" THEN o ELSE NoEntry,
         entry' = [entry EXCEPT ![o].status = st, ![e] = new]
  PROVE  Posts(e, new.source, o, st) /\ entry'[e] = new
<1>1. o # e /\ entry[e].status = "ABSENT" /\ o # NoEntry
  BY DEF FreshEntry, Entries, NoEntry
<1>2. entry \in [Entries -> EntryRow]
  BY DEF TypeOK, LedgerRowsOK
<1>3. /\ entry'[e] = new /\ entry'[o] = [entry[o] EXCEPT !.status = st]
      /\ \A k \in Entries \ {o, e} : entry'[k] = entry[k]
  BY <1>1, <1>2
<1>. QED  BY <1>1, <1>3 DEF Posts

\* Every commit that posts does that.
LEMMA PostingPosts ==
  ASSUME TypeOK, NEW r \in Requests, NEW e \in Entries
  PROVE  LET q == req[r] IN
         /\ ConfirmCommit(r, e) => Posts(e, q.tx, NoEntry, "POSTED")
         /\ ConfirmCancellationCommit(r, e) => Posts(e, q.tx, q.entry, "REVERSED")
         /\ ReverseCommit(r, e) => Posts(e, NoTx, q.entry, "REVERSED")
         /\ CorrectCommit(r, e) => Posts(e, NoTx, q.entry, "SUPERSEDED")
<1>. DEFINE q == req[r]
<1>1. ASSUME ConfirmCommit(r, e)
      PROVE  Posts(e, q.tx, NoEntry, "POSTED")
  <2>. DEFINE new == [NewEntry(q.month, q.amount) EXCEPT !.source = q.tx]
  <2>1. /\ new.status = "POSTED" /\ new.source = q.tx
        /\ new.reverses = NoEntry /\ new.corrects = NoEntry
    BY DEF NewEntry, NoEntryRow
  <2>2. FreshEntry(e) /\ entry' = [entry EXCEPT ![e] = new]
    BY <1>1 DEF ConfirmCommit
  <2>. HIDE DEF new
  <2>3. entry'[e] = new /\ \A k \in Entries \ {e} : entry'[k] = entry[k]
    BY <2>2 DEF TypeOK, LedgerRowsOK
  <2>. QED  BY <2>1, <2>2, <2>3 DEF Posts, FreshEntry
<1>2. ASSUME ConfirmCancellationCommit(r, e)
      PROVE  Posts(e, q.tx, q.entry, "REVERSED")
  <2>. DEFINE new == [NewEntry(q.month, q.amount)
                        EXCEPT !.source = q.tx, !.reverses = q.entry]
  <2>1. q.entry \in Entries
    BY <1>2, RequestFields DEF ConfirmCancellationCommit, Request, TypeOK
  <2>2. /\ new.status = "POSTED" /\ new.source = q.tx
        /\ new.reverses = q.entry /\ new.corrects = NoEntry
    BY DEF NewEntry, NoEntryRow
  <2>3. /\ FreshEntry(e) /\ entry[q.entry].status = "POSTED"
        /\ entry' = [entry EXCEPT ![q.entry].status = "REVERSED", ![e] = new]
    BY <1>2 DEF ConfirmCancellationCommit
  <2>. HIDE DEF new
  <2>4. Posts(e, new.source, q.entry, "REVERSED")
    BY <2>1, <2>2, <2>3, AdjustmentPosts
  <2>. QED  BY <2>2, <2>4
<1>3. ASSUME ReverseCommit(r, e)
      PROVE  Posts(e, NoTx, q.entry, "REVERSED")
  <2>. DEFINE new == [NewEntry(q.month, entry[q.entry].amount)
                        EXCEPT !.reverses = q.entry]
  <2>1. q.entry \in Entries
    BY <1>3, RequestFields DEF ReverseCommit, WellFormed, TypeOK
  <2>2. /\ new.status = "POSTED" /\ new.source = NoTx
        /\ new.reverses = q.entry /\ new.corrects = NoEntry
    BY DEF NewEntry, NoEntryRow
  <2>3. /\ FreshEntry(e) /\ entry[q.entry].status = "POSTED"
        /\ entry' = [entry EXCEPT ![q.entry].status = "REVERSED", ![e] = new]
    BY <1>3 DEF ReverseCommit, ClaimOriginal
  <2>. HIDE DEF new
  <2>4. Posts(e, new.source, q.entry, "REVERSED")
    BY <2>1, <2>2, <2>3, AdjustmentPosts
  <2>. QED  BY <2>2, <2>4
<1>4. ASSUME CorrectCommit(r, e)
      PROVE  Posts(e, NoTx, q.entry, "SUPERSEDED")
  <2>. DEFINE new == [NewEntry(q.month, q.amount) EXCEPT !.corrects = q.entry]
  <2>1. q.entry \in Entries
    BY <1>4, RequestFields DEF CorrectCommit, WellFormed, TypeOK
  <2>2. /\ new.status = "POSTED" /\ new.source = NoTx
        /\ new.corrects = q.entry /\ new.reverses = NoEntry
    BY DEF NewEntry, NoEntryRow
  <2>3. /\ FreshEntry(e) /\ entry[q.entry].status = "POSTED"
        /\ entry' = [entry EXCEPT ![q.entry].status = "SUPERSEDED", ![e] = new]
    BY <1>4 DEF CorrectCommit, ClaimOriginal
  <2>. HIDE DEF new
  <2>4. Posts(e, new.source, q.entry, "SUPERSEDED")
    BY <2>1, <2>2, <2>3, AdjustmentPosts
  <2>. QED  BY <2>2, <2>4
<1>. QED  BY <1>1, <1>2, <1>3, <1>4

\* In one phrase, for what holds whichever of them it is.
LEMMA SomePosting ==
  ASSUME TypeOK, NEW r \in Requests, NEW e \in Entries, PostingCommit(r, e)
  PROVE  \E u, o, st : Posts(e, u, o, st)
  BY PostingPosts DEF PostingCommit

\* The entries that were there keep all but the status of the original.
LEMMA PostsKeeps ==
  ASSUME TypeOK, NEW e \in Entries, NEW u, NEW o, NEW st, Posts(e, u, o, st),
         NEW k \in Entries, k # e
  PROVE  /\ entry'[k].source = entry[k].source
         /\ entry'[k].reverses = entry[k].reverses
         /\ entry'[k].corrects = entry[k].corrects
         /\ entry'[k].status = IF k = o THEN st ELSE entry[k].status
         /\ k # o => entry'[k] = entry[k]
<1>1. entry[k] \in EntryRow /\ k # NoEntry
  BY DEF TypeOK, LedgerRowsOK, Entries, NoEntry
<1>2. CASE k = o
  BY <1>1, <1>2 DEF Posts, EntryRow
<1>3. CASE k # o
  BY <1>3 DEF Posts
<1>. QED  BY <1>2, <1>3

-----------------------------------------------------------------------------
(* Where the requests go *)

\* r goes on to one of the steps in S, or has answered; other requests stay
\* as they are or are ended.
StepsTo(r, S) ==
    /\ req'[r].at \in S \cup {"idle"}
    /\ \A x \in Requests \ {r} : req'[x] \in {req[x], Idle}

\* The handler of r goes on to the step at.
GoesTo(r, at) == \E rec : rec.at = at /\ Hold(r, rec)

\* A handler that goes on, and one that has answered.
LEMMA GoesStepsTo ==
  ASSUME RequestsOK, NEW r \in Requests, NEW S, NEW at \in S, GoesTo(r, at)
  PROVE  StepsTo(r, S)
  BY DEF RequestsOK, GoesTo, Hold, StepsTo
LEMMA AnswerStepsTo ==
  ASSUME RequestsOK, NEW r \in Requests, Answer(r), NEW S
  PROVE  StepsTo(r, S)
  BY DEF RequestsOK, Answer, StepsTo, Idle

\* The months: one of the steps of opening, closing and reopening.
LEMMA PeriodStepsTo ==
  ASSUME TypeOK, NEW r \in Requests, PeriodStep(r)
  PROVE  \/ StepsTo(r, {"openCommit", "closeCommit"})
         \/ /\ "reopen" \in Ops \/ req[r].at = "reopenRollback"
            /\ StepsTo(r, {"reopenRollback", "reopenCommit"})
<1>. DEFINE S == {"openCommit", "closeCommit"}
<1>. USE DEF TypeOK
<1>1. ASSUME NEW m \in Months, OpenCheck(r, m) \/ CloseRead(r, m)
      PROVE  StepsTo(r, S)
  <2>1. CASE OpenCheck(r, m)
    <3>1. GoesTo(r, "openCommit")
      BY <2>1 DEF OpenCheck, GoesTo, Idle
    <3>. QED  BY <3>1, GoesStepsTo
  <2>2. CASE CloseRead(r, m)
    <3>1. GoesTo(r, "closeCommit")
      BY <2>2 DEF CloseRead, GoesTo, Idle
    <3>. QED  BY <3>1, GoesStepsTo
  <2>. QED  BY <1>1, <2>1, <2>2
<1>2. ASSUME OpenCommit(r) \/ CloseCommit(r) PROVE StepsTo(r, S)
  BY <1>2, AnswerStepsTo DEF OpenCommit, CloseCommit
<1>3. ASSUME NEW m \in Months, ReopenCheck(r, m)
      PROVE  /\ "reopen" \in Ops
             /\ StepsTo(r, {"reopenRollback", "reopenCommit"})
  <2>1. GoesTo(r, "reopenRollback") \/ GoesTo(r, "reopenCommit")
    BY <1>3 DEF ReopenCheck, GoesTo, Idle
  <2>2. "reopen" \in Ops
    BY <1>3 DEF ReopenCheck, Starts
  <2>. QED  BY <2>1, <2>2, GoesStepsTo
<1>4. ASSUME ReopenRollbackRead(r)
      PROVE  /\ req[r].at = "reopenRollback"
             /\ StepsTo(r, {"reopenRollback", "reopenCommit"})
  <2>1. GoesTo(r, "reopenCommit")
    BY <1>4, RequestFields DEF ReopenRollbackRead, Request, GoesTo
  <2>2. req[r].at = "reopenRollback"
    BY <1>4 DEF ReopenRollbackRead
  <2>. QED  BY <2>1, <2>2, GoesStepsTo
<1>5. ASSUME ReopenCommit(r) PROVE StepsTo(r, S)
  BY <1>5 DEF ReopenCommit, StepsTo, Idle
<1>. QED  BY <1>1, <1>2, <1>3, <1>4, <1>5 DEF PeriodStep

\* The transactions.
LEMMA CollectedStepsTo ==
  ASSUME TypeOK, NEW r \in Requests, CollectedStep(r)
  PROVE  \/ StepsTo(r, {"createInsert", "deleteCommit"})
         \/ "update" \in Ops /\ StepsTo(r, {"updateCommit"})
         \/ \E t \in Txs : ConfirmRead(r, t)
<1>. DEFINE S == {"createInsert", "deleteCommit"}
<1>. USE DEF TypeOK
<1>1. ASSUME NEW m \in Months, NEW a \in Amounts, NEW st \in ManualStatus,
             CreateGuard(r, m, a, st)
      PROVE  StepsTo(r, S)
  <2>1. GoesTo(r, "createInsert")
    BY <1>1 DEF CreateGuard, GoesTo, Idle
  <2>. QED  BY <2>1, GoesStepsTo
<1>2. ASSUME NEW t \in Txs, NEW m \in Months, NEW a \in Amounts,
             NEW st \in ManualStatus, NEW rev \in BOOLEAN,
             UpdateGuard(r, t, m, a, st, rev)
      PROVE  "update" \in Ops /\ StepsTo(r, {"updateCommit"})
  <2>1. GoesTo(r, "updateCommit") /\ "update" \in Ops
    BY <1>2 DEF UpdateGuard, GoesTo, Idle, Starts
  <2>. QED  BY <2>1, GoesStepsTo
<1>3. ASSUME NEW t \in Txs, DeleteGuard(r, t) PROVE StepsTo(r, S)
  <2>1. GoesTo(r, "deleteCommit")
    BY <1>3 DEF DeleteGuard, GoesTo, Idle
  <2>. QED  BY <2>1, GoesStepsTo
<1>4. ASSUME Answer(r) PROVE StepsTo(r, S)
  BY <1>4, AnswerStepsTo
<1>. QED
  BY <1>1, <1>2, <1>3, <1>4
     DEF CollectedStep, CreateInsert, UpdateCommit, DeleteCommit, ConfirmCommit,
         ConfirmCancellationCommit

\* The adjustments.
LEMMA JournalStepsTo ==
  ASSUME TypeOK, NEW r \in Requests, JournalStep(r)
  PROVE  StepsTo(r, {"reverseRead", "correctRead", "reverseCommit",
                     "correctCommit"})
<1>. DEFINE S == {"reverseRead", "correctRead", "reverseCommit", "correctCommit"}
<1>. USE DEF TypeOK
<1>1. ASSUME NEW op, NEW step \in S, NEW e, NEW m, NEW a,
             AdjustGuard(r, op, step, e, m, a)
      PROVE  StepsTo(r, S)
  <2>1. GoesTo(r, step)
    BY <1>1 DEF AdjustGuard, GoesTo, Idle
  <2>. QED  BY <2>1, GoesStepsTo
<1>2. ASSUME NEW from, NEW to \in S, AdjustRead(r, from, to) PROVE StepsTo(r, S)
  <2>1. GoesTo(r, to)
    BY <1>2, RequestFields DEF AdjustRead, Request, GoesTo
  <2>. QED  BY <2>1, GoesStepsTo
<1>3. ASSUME Answer(r) PROVE StepsTo(r, S)
  BY <1>3, AnswerStepsTo
<1>. QED
  BY <1>1, <1>2, <1>3
     DEF JournalStep, ReverseGuard, ReverseRead, ReverseCommit, CorrectGuard,
         CorrectRead, CorrectCommit

\* The snapshots.
LEMMA SnapshotStepsTo ==
  ASSUME TypeOK, NEW r \in Requests, SnapshotStep(r)
  PROVE  StepsTo(r, {"carryCommit", "cancelCarryCommit", "statementsCommit"})
<1>. DEFINE S == {"carryCommit", "cancelCarryCommit", "statementsCommit"}
<1>. USE DEF TypeOK
<1>1. ASSUME NEW m \in Months,
             CarryCheck(r, m) \/ CancelCarryRead(r, m) \/ StatementsRead(r, m)
      PROVE  StepsTo(r, S)
  <2>1. CASE CarryCheck(r, m)
    <3>1. GoesTo(r, "carryCommit")
      BY <2>1 DEF CarryCheck, GoesTo, Idle
    <3>. QED  BY <3>1, GoesStepsTo
  <2>2. CASE CancelCarryRead(r, m)
    <3>1. GoesTo(r, "cancelCarryCommit")
      BY <2>2 DEF CancelCarryRead, GoesTo, Idle
    <3>. QED  BY <3>1, GoesStepsTo
  <2>3. CASE StatementsRead(r, m)
    <3>1. GoesTo(r, "statementsCommit")
      BY <2>3 DEF StatementsRead, GoesTo, Idle
    <3>. QED  BY <3>1, GoesStepsTo
  <2>. QED  BY <1>1, <2>1, <2>2, <2>3
<1>2. ASSUME CancelCarryCommit(r) PROVE StepsTo(r, S)
  BY <1>2 DEF CancelCarryCommit, StepsTo, Idle
<1>3. ASSUME Answer(r) PROVE StepsTo(r, S)
  BY <1>3, AnswerStepsTo
<1>. QED
  BY <1>1, <1>2, <1>3 DEF SnapshotStep, CarryCommit, StatementsCommit

\* The rows and schedules behind the transactions.
LEMMA SourceStepsTo ==
  ASSUME TypeOK, NEW r \in Requests, SourceStep(r)
  PROVE  \/ StepsTo(r, {"cancelCollectionCommit", "repaymentCommit",
                        "updateRepaymentCommit"})
         \/ \E w \in Rows, a \in Amounts, st \in Unposted :
                /\ CollectRowRead(r, w, a, st)
                /\ StepsTo(r, {"collectRowInsert", "collectRowAbsorb"})
<1>. DEFINE S == {"cancelCollectionCommit", "repaymentCommit",
                  "updateRepaymentCommit"}
            C == {"collectRowInsert", "collectRowAbsorb"}
<1>. USE DEF TypeOK
<1>1. ASSUME NEW w \in Rows, NEW a \in Amounts, NEW st \in Unposted,
             CollectRowRead(r, w, a, st)
      PROVE  StepsTo(r, C)
  <2>1. GoesTo(r, "collectRowInsert") \/ GoesTo(r, "collectRowAbsorb")
    BY <1>1 DEF CollectRowRead, GoesTo, Idle
  <2>. QED  BY <2>1, GoesStepsTo
<1>2. ASSUME NEW rows \in Batches, CancelCollectionRead(r, rows)
      PROVE  StepsTo(r, S)
  <2>1. GoesTo(r, "cancelCollectionCommit")
    BY <1>2 DEF CancelCollectionRead, GoesTo, Idle
  <2>. QED  BY <2>1, GoesStepsTo
<1>3. ASSUME NEW s \in Schedules, NEW a \in Amounts, RepaymentCheck(r, s, a)
      PROVE  StepsTo(r, S)
  <2>1. GoesTo(r, "repaymentCommit")
    BY <1>3 DEF RepaymentCheck, GoesTo, Idle
  <2>. QED  BY <2>1, GoesStepsTo
<1>4. ASSUME NEW s \in Schedules, NEW st \in ScheduleStatus,
             UpdateRepaymentCheck(r, s, st)
      PROVE  StepsTo(r, S)
  <2>1. GoesTo(r, "updateRepaymentCommit")
    BY <1>4 DEF UpdateRepaymentCheck, GoesTo, Idle
  <2>. QED  BY <2>1, GoesStepsTo
<1>5. ASSUME Answer(r) PROVE StepsTo(r, S)
  BY <1>5, AnswerStepsTo
<1>. QED
  BY <1>1, <1>2, <1>3, <1>4, <1>5
     DEF SourceStep, CollectRowInsert, CollectRowAbsorb, CancelCollectionCommit,
         RepaymentCommit, UpdateRepaymentCommit

\* Nobody is about to reopen a month.
NobodyReopens ==
    \A r \in Requests : req[r].at \notin {"reopenRollback", "reopenCommit"}

\* Where reopening is not offered nobody ever is.
LEMMA NextNobodyReopens ==
  ASSUME "reopen" \notin Ops, TypeOK, NobodyReopens, [Next]_vars
  PROVE  NobodyReopens'
<1>. DEFINE R == {"reopenRollback", "reopenCommit"}
<1>1. ASSUME NEW r \in Requests, NEW S, StepsTo(r, S), S \cap R = {}
      PROVE  NobodyReopens'
  BY <1>1 DEF StepsTo, NobodyReopens, Idle
<1>2. ASSUME NEW r \in Requests, NEW t \in Txs, ConfirmRead(r, t)
      PROVE  NobodyReopens'
  <2>1. GoesTo(r, "confirmCommit")
    BY <1>2 DEF ConfirmRead, GoesTo, Idle
  <2>2. StepsTo(r, {"confirmCommit"})
    BY <2>1, GoesStepsTo DEF TypeOK
  <2>. QED  BY <1>1, <2>2
<1>3. ASSUME NEW r \in Requests, Fail(r) PROVE NobodyReopens'
  <2>1. StepsTo(r, {})
    BY <1>3, AnswerStepsTo DEF Fail, TypeOK
  <2>. QED  BY <1>1, <2>1
<1>4. ASSUME NEW r \in Requests, PeriodStep(r) PROVE NobodyReopens'
  BY <1>1, <1>4, PeriodStepsTo DEF NobodyReopens
<1>5. CASE UNCHANGED vars
  BY <1>5 DEF vars, NobodyReopens
<1>6. CASE Next
  BY <1>1, <1>2, <1>3, <1>4, <1>6, CollectedStepsTo, JournalStepsTo,
     SnapshotStepsTo, SourceStepsTo DEF Next
<1>. QED  BY <1>5, <1>6

\* At the beginning nobody does anything.
LEMMA InitNobodyReopens == Init => NobodyReopens
  BY DEF Init, NobodyReopens, Idle

\* A reopening takes no transaction, plan item, schedule or entry away: the
\* month it rolls back, if it does, has none.
NothingTaken == \A r \in Requests : ReopenCommit(r) => UNCHANGED ledgerVars

LEMMA NobodyTakes == NobodyReopens => NothingTaken
  BY DEF NobodyReopens, NothingTaken, ReopenCommit

\* Nor does anybody update a transaction where that is not offered.
NobodyUpdates == \A r \in Requests : req[r].at # "updateCommit"

LEMMA NextNobodyUpdates ==
  ASSUME "update" \notin Ops, TypeOK, NobodyUpdates, [Next]_vars
  PROVE  NobodyUpdates'
<1>1. ASSUME NEW r \in Requests, NEW S, StepsTo(r, S), "updateCommit" \notin S
      PROVE  NobodyUpdates'
  BY <1>1 DEF StepsTo, NobodyUpdates, Idle
<1>2. ASSUME NEW r \in Requests, NEW t \in Txs, ConfirmRead(r, t)
      PROVE  NobodyUpdates'
  <2>1. GoesTo(r, "confirmCommit")
    BY <1>2 DEF ConfirmRead, GoesTo, Idle
  <2>2. StepsTo(r, {"confirmCommit"})
    BY <2>1, GoesStepsTo DEF TypeOK
  <2>. QED  BY <1>1, <2>2
<1>3. ASSUME NEW r \in Requests, Fail(r) PROVE NobodyUpdates'
  <2>1. StepsTo(r, {})
    BY <1>3, AnswerStepsTo DEF Fail, TypeOK
  <2>. QED  BY <1>1, <2>1
<1>4. CASE UNCHANGED vars
  BY <1>4 DEF vars, NobodyUpdates
<1>5. CASE Next
  BY <1>1, <1>2, <1>3, <1>5, PeriodStepsTo, CollectedStepsTo, JournalStepsTo,
     SnapshotStepsTo, SourceStepsTo DEF Next
<1>. QED  BY <1>4, <1>5

LEMMA InitNobodyUpdates == Init => NobodyUpdates
  BY DEF Init, NobodyUpdates, Idle

\* Apart from the reads of confirmations and of collected rows, whose decisions
\* matter below, no step leads to the commits of these.
DecidedSteps == {"confirmCommit", "collectRowInsert", "collectRowAbsorb"}

LEMMA WhereRequestsGo ==
  ASSUME TypeOK, [Next]_vars
  PROVE  \/ UNCHANGED req
         \/ \E r \in Requests : StepsTo(r, Steps \ DecidedSteps)
         \/ \E r \in Requests, t \in Txs : ConfirmRead(r, t)
         \/ \E r \in Requests, w \in Rows, a \in Amounts, st \in Unposted :
                /\ CollectRowRead(r, w, a, st)
                /\ StepsTo(r, {"collectRowInsert", "collectRowAbsorb"})
<1>. DEFINE S == Steps \ DecidedSteps
<1>1. ASSUME NEW r \in Requests, NEW T, StepsTo(r, T), T \subseteq S
      PROVE  StepsTo(r, S)
  BY <1>1 DEF StepsTo
<1>2. /\ {"openCommit", "closeCommit"} \subseteq S
      /\ {"reopenRollback", "reopenCommit"} \subseteq S
      /\ {"createInsert", "deleteCommit"} \subseteq S /\ {"updateCommit"} \subseteq S
      /\ {"reverseRead", "correctRead", "reverseCommit", "correctCommit"} \subseteq S
      /\ {"carryCommit", "cancelCarryCommit", "statementsCommit"} \subseteq S
      /\ {"cancelCollectionCommit", "repaymentCommit", "updateRepaymentCommit"}
            \subseteq S
  BY DEF Steps, DecidedSteps
<1>. HIDE DEF S
<1>3. ASSUME NEW r \in Requests, Fail(r) PROVE StepsTo(r, S)
  BY <1>3, AnswerStepsTo DEF Fail, TypeOK
<1>4. ASSUME Next
      PROVE  \/ \E r \in Requests : StepsTo(r, S)
             \/ \E r \in Requests, t \in Txs : ConfirmRead(r, t)
             \/ \E r \in Requests, w \in Rows, a \in Amounts, st \in Unposted :
                    /\ CollectRowRead(r, w, a, st)
                    /\ StepsTo(r, {"collectRowInsert", "collectRowAbsorb"})
  <2>1. PICK r \in Requests :
            \/ PeriodStep(r) \/ CollectedStep(r) \/ JournalStep(r)
            \/ SnapshotStep(r) \/ SourceStep(r) \/ Fail(r)
    BY <1>4 DEF Next
  <2>2. PeriodStep(r) => StepsTo(r, S)
    BY <1>1, <1>2, PeriodStepsTo
  <2>3. CollectedStep(r) => StepsTo(r, S) \/ \E t \in Txs : ConfirmRead(r, t)
    BY <1>1, <1>2, CollectedStepsTo
  <2>4. JournalStep(r) => StepsTo(r, S)
    BY <1>1, <1>2, JournalStepsTo
  <2>5. SnapshotStep(r) => StepsTo(r, S)
    BY <1>1, <1>2, SnapshotStepsTo
  <2>6. SourceStep(r) =>
            \/ StepsTo(r, S)
            \/ \E w \in Rows, a \in Amounts, st \in Unposted :
                    /\ CollectRowRead(r, w, a, st)
                    /\ StepsTo(r, {"collectRowInsert", "collectRowAbsorb"})
    BY <1>1, <1>2, SourceStepsTo
  <2>. QED  BY <1>3, <2>1, <2>2, <2>3, <2>4, <2>5, <2>6
<1>5. CASE UNCHANGED vars
  BY <1>5 DEF vars
<1>. QED  BY <1>4, <1>5 DEF S

\* A row that is to be matched with a plan item cancels no card approval.
MatchedRows ==
    \A r \in Requests :
        req[r].at \in {"collectRowInsert", "collectRowAbsorb"} /\ req[r].tx # NoTx
            => CancelTarget[req[r].row] = NoRow

LEMMA NextMatchedRows ==
  ASSUME TypeOK, MatchedRows, [Next]_vars
  PROVE  MatchedRows'
<1>1. CASE UNCHANGED req
  BY <1>1 DEF MatchedRows
<1>2. ASSUME NEW r \in Requests, StepsTo(r, Steps \ DecidedSteps)
      PROVE  MatchedRows'
  BY <1>2 DEF StepsTo, DecidedSteps, MatchedRows, Idle
<1>3. ASSUME NEW r \in Requests, NEW rec, Hold(r, rec),
             rec.at \in {"collectRowInsert", "collectRowAbsorb"} /\ rec.tx # NoTx
                => CancelTarget[rec.row] = NoRow
      PROVE  MatchedRows'
  BY <1>3 DEF Hold, MatchedRows, TypeOK, RequestsOK
<1>4. ASSUME NEW r \in Requests, NEW t \in Txs, ConfirmRead(r, t)
      PROVE  MatchedRows'
  <2>1. GoesTo(r, "confirmCommit")
    BY <1>4 DEF ConfirmRead, GoesTo, Idle
  <2>. QED  BY <1>3, <2>1 DEF GoesTo
<1>5. ASSUME NEW r \in Requests, NEW w \in Rows, NEW a \in Amounts,
             NEW st \in Unposted, CollectRowRead(r, w, a, st)
      PROVE  MatchedRows'
  <2>. DEFINE q == [Idle EXCEPT !.at = "collectRowInsert", !.month = RowMonth[w],
                        !.row = w, !.amount = a, !.status = st,
                        !.flag = (RowMonth[w] \notin Existing)]
  <2>1. \/ Hold(r, q)
        \/ /\ CancelTarget[w] = NoRow
           /\ \E t : \/ Hold(r, [q EXCEPT !.tx = t])
                    \/ Hold(r, [q EXCEPT !.at = "collectRowAbsorb", !.tx = t])
    BY <1>5 DEF CollectRowRead, IsReversalRow
  <2>2. /\ q.tx = NoTx
        /\ \A t : /\ [q EXCEPT !.tx = t].row = w
                  /\ [q EXCEPT !.at = "collectRowAbsorb", !.tx = t].row = w
    BY DEF Idle
  <2>. HIDE DEF q
  <2>. QED  BY <1>3, <2>1, <2>2
<1>. QED  BY <1>1, <1>2, <1>4, <1>5, WhereRequestsGo

LEMMA InitMatchedRows == Init => MatchedRows
  BY DEF Init, MatchedRows, Idle

-----------------------------------------------------------------------------
(* What the steps do to a transaction and its plan item, but for the commits *)
(* that post                                                                 *)

Kept(t) ==
    /\ tx'[t].status = tx[t].status
    /\ tx'[t].row = tx[t].row
    /\ tx'[t].type = tx[t].type
    /\ plan'[t].status = plan[t].status

\* Entered by hand, from a row, or with a plan item from a repayment.
Entered(t) ==
    /\ tx[t].status = "ABSENT"
    /\ tx'[t].status \in Unposted
    /\ \/ plan'[t].status = plan[t].status
       \/ /\ plan'[t].status = "MATCHED"
          /\ tx'[t].row # NoRow => CancelTarget[tx'[t].row] = NoRow

\* Changed by the user, on an update request.
Updated(t) ==
    /\ \E r \in Requests : req[r].at = "updateCommit"
    /\ tx[t].status \in Unposted
    /\ tx'[t].status \in Unposted
    /\ tx'[t].row = tx[t].row
    /\ plan'[t].status = plan[t].status

Absorbed(t) ==
    /\ tx[t].status \in Unposted
    /\ tx'[t].status \in Unposted
    /\ tx[t].row = NoRow
    /\ CancelTarget[tx'[t].row] = NoRow
    /\ tx'[t].type = "PLAIN"
    /\ plan[t].status # "NONE"
    /\ plan'[t].status = "MATCHED"

Removed(t) ==
    /\ tx[t].status \in Unposted
    /\ tx'[t].status = "GONE"
    /\ tx'[t].row = NoRow
    /\ plan'[t].status = IF plan[t].status = "NONE" THEN "NONE" ELSE "DRAFT"

\* Its item is matched with another transaction.
Unplanned(t) ==
    /\ tx'[t].status = tx[t].status
    /\ tx'[t].row = tx[t].row
    /\ tx'[t].type = tx[t].type
    /\ plan'[t].status = "NONE"

\* One of these.
Moves(t) ==
    Kept(t) \/ Entered(t) \/ Updated(t) \/ Absorbed(t) \/ Removed(t) \/ Unplanned(t)

LEMMA CollectedMoves ==
  ASSUME TypeOK, NEW r \in Requests, CollectedStep(r)
  PROVE  \/ UNCHANGED entry /\ \A x \in Txs : Moves(x)
         \/ \E e \in Entries : PostingCommit(r, e)
<1>. DEFINE Fine == UNCHANGED entry /\ \A x \in Txs : Moves(x)
<1>. USE DEF TypeOK, LedgerRowsOK
<1>1. ASSUME UNCHANGED ledgerVars PROVE Fine
  BY <1>1 DEF ledgerVars, Moves, Kept
<1>2. ASSUME NEW t \in Txs, CreateInsert(r, t) PROVE Fine
  <2>1. req[r].status \in Unposted
    BY <1>2, RequestFields DEF CreateInsert, WellFormed
  <2>. QED
    BY <1>2, <2>1 DEF CreateInsert, FreshTx, Moves, Kept, Entered, NoTxRow
<1>3. ASSUME UpdateCommit(r) PROVE Fine
  <2>. DEFINE q == req[r]
  <2>1. q.status \in Unposted /\ q.tx \in Txs /\ q.at = "updateCommit"
    BY <1>3, RequestFields DEF UpdateCommit, WellFormed
  <2>2. Updated(q.tx)
    <3>1. tx[q.tx] \in TxRow /\ tx[q.tx].status \in Unposted
      BY <1>3, <2>1 DEF UpdateCommit, Changeable
    <3>2. tx'[q.tx].status = q.status /\ tx'[q.tx].row = tx[q.tx].row
      BY <1>3, <2>1, <3>1 DEF UpdateCommit, TxRow
    <3>. QED  BY <1>3, <2>1, <3>1, <3>2 DEF UpdateCommit, Updated
  <2>3. \A x \in Txs \ {q.tx} : Kept(x)
    BY <1>3 DEF UpdateCommit, Kept
  <2>. QED  BY <1>3, <2>2, <2>3 DEF UpdateCommit, Moves
<1>4. ASSUME DeleteCommit(r) PROVE Fine
  <2>. DEFINE t == req[r].tx
  <2>1. t \in Txs /\ plan[t] \in PlanRow
    BY <1>4, RequestFields DEF DeleteCommit, WellFormed
  <2>2. Removed(t)
    BY <1>4, <2>1 DEF DeleteCommit, Changeable, Removed, NoTxRow, PlanRow
  <2>3. \A x \in Txs \ {t} : Kept(x)
    BY <1>4 DEF DeleteCommit, Kept
  <2>. QED  BY <1>4, <2>2, <2>3 DEF DeleteCommit, Moves
<1>. QED
  BY <1>1, <1>2, <1>3, <1>4
     DEF CollectedStep, CreateGuard, UpdateGuard, DeleteGuard, ConfirmRead,
         PostingCommit

\* Matching an item with t makes the transaction it was matched with unplanned.
LEMMA MatchPlanMoves ==
  ASSUME TypeOK, NEW old \in Txs, NEW t \in Txs, NEW m, MatchPlan(old, t, m)
  PROVE  \A x \in Txs : plan'[x].status =
            IF x = t THEN "MATCHED" ELSE IF x = old THEN "NONE" ELSE plan[x].status
  BY DEF MatchPlan, NoPlan

LEMMA SourceMoves ==
  ASSUME TypeOK, MatchedRows, NEW r \in Requests, SourceStep(r)
  PROVE  UNCHANGED entry /\ \A x \in Txs : Moves(x)
<1>. DEFINE Fine == UNCHANGED entry /\ \A x \in Txs : Moves(x)
            q == req[r]
<1>. USE DEF TypeOK, LedgerRowsOK
<1>1. ASSUME UNCHANGED <<tx, plan, entry>> PROVE Fine
  BY <1>1 DEF Moves, Kept
<1>2. ASSUME NEW t \in Txs, CollectRowInsert(r, t) PROVE Fine
  <2>1. q.status \in Unposted /\ q.tx \in Txs \cup {NoTx}
    BY <1>2, RequestFields DEF CollectRowInsert, WellFormed, Request
  <2>2. /\ tx[t].status = "ABSENT" /\ tx'[t].status \in Unposted
        /\ tx'[t].row = q.row
        /\ \A x \in Txs \ {t} : tx'[x] = tx[x]
    BY <1>2, <2>1 DEF CollectRowInsert, FreshTx, NoTxRow
  <2>3. CASE q.tx = NoTx
    <3>1. UNCHANGED plan
      BY <1>2, <2>3 DEF CollectRowInsert
    <3>. QED
      BY <1>2, <2>2, <3>1 DEF CollectRowInsert, Moves, Kept, Entered
  <2>4. CASE q.tx # NoTx
    <3>1. \A x \in Txs : plan'[x].status =
            IF x = t THEN "MATCHED" ELSE IF x = q.tx THEN "NONE" ELSE plan[x].status
      BY <1>2, <2>1, <2>4, MatchPlanMoves DEF CollectRowInsert
    <3>2. CancelTarget[q.row] = NoRow
      BY <1>2, <2>4 DEF CollectRowInsert, MatchedRows
    <3>3. Entered(t)
      BY <2>2, <3>1, <3>2 DEF Entered
    <3>4. \A x \in Txs \ {t} : Kept(x) \/ Unplanned(x)
      BY <2>2, <3>1 DEF Kept, Unplanned
    <3>. QED  BY <1>2, <3>3, <3>4 DEF CollectRowInsert, Moves
  <2>. QED  BY <2>3, <2>4
<1>3. ASSUME CollectRowAbsorb(r) PROVE Fine
  <2>1. q.status \in Unposted /\ q.tx \in Txs /\ q.tx # NoTx
    BY <1>3, RequestFields, LedgerConstants
       DEF CollectRowAbsorb, WellFormed, LedgerConstants
  <2>2. \A x \in Txs : plan'[x].status =
            IF x = q.tx THEN "MATCHED" ELSE plan[x].status
    BY <1>3, <2>1, MatchPlanMoves DEF CollectRowAbsorb
  <2>3. CancelTarget[q.row] = NoRow
    BY <1>3, <2>1 DEF CollectRowAbsorb, MatchedRows
  <2>4. /\ tx'[q.tx].status = q.status /\ tx'[q.tx].row = q.row
        /\ tx'[q.tx].type = "PLAIN"
    <3>1. tx[q.tx] \in TxRow
      BY <2>1
    <3>. QED  BY <1>3, <2>1, <3>1 DEF CollectRowAbsorb, TxRow
  <2>5. Absorbed(q.tx)
    BY <1>3, <2>1, <2>2, <2>3, <2>4 DEF CollectRowAbsorb, Absorbed
  <2>6. \A x \in Txs \ {q.tx} : Kept(x)
    BY <1>3, <2>2 DEF CollectRowAbsorb, Kept
  <2>. QED  BY <1>3, <2>5, <2>6 DEF CollectRowAbsorb, Moves
<1>4. ASSUME CancelCollectionCommit(r) PROVE Fine
  <2>1. ASSUME NEW x \in Txs PROVE Kept(x) \/ Removed(x)
    <3>1. plan[x] \in PlanRow
      OBVIOUS
    <3>2. CASE x \in q.txs
      BY <1>4, <3>1, <3>2 DEF CancelCollectionCommit, Removed, NoTxRow, PlanRow
    <3>3. CASE x \notin q.txs
      BY <1>4, <3>3 DEF CancelCollectionCommit, Kept
    <3>. QED  BY <3>2, <3>3
  <2>. QED  BY <1>4, <2>1 DEF CancelCollectionCommit, Moves
<1>5. ASSUME NEW t \in Txs, RepaymentCommit(r, t) PROVE Fine
  BY <1>5 DEF RepaymentCommit, FreshTx, Moves, Kept, Entered, NoTxRow, Unposted
<1>. QED
  BY <1>1, <1>2, <1>3, <1>4, <1>5
     DEF SourceStep, CollectRowRead, CancelCollectionRead, RepaymentCheck,
         UpdateRepaymentCheck, UpdateRepaymentCommit, ledgerVars

\* Every step moves each transaction in one of these ways, unless it posts or
\* takes a month away.
LEMMA MovesOrPosts ==
  ASSUME TypeOK, MatchedRows, NothingTaken, [Next]_vars
  PROVE  \/ UNCHANGED entry /\ \A x \in Txs : Moves(x)
         \/ \E r \in Requests, e \in Entries : PostingCommit(r, e)
<1>1. UNCHANGED ledgerVars => UNCHANGED entry /\ \A x \in Txs : Moves(x)
  BY DEF ledgerVars, Moves, Kept
<1>2. UNCHANGED vars => UNCHANGED ledgerVars
  BY DEF vars, ledgerVars
<1>3. \A r \in Requests : PeriodStep(r) \/ SnapshotStep(r) \/ Fail(r)
                            => UNCHANGED ledgerVars
  BY DEF NothingTaken, PeriodStep, OpenCheck, OpenCommit, CloseRead, CloseCommit,
         ReopenCheck, ReopenRollbackRead, SnapshotStep, CarryCheck,
         CarryCommit, CancelCarryRead, CancelCarryCommit, StatementsRead,
         StatementsCommit, Fail
<1>4. ASSUME NEW r \in Requests, JournalStep(r)
      PROVE  \/ UNCHANGED ledgerVars
             \/ \E e \in Entries : PostingCommit(r, e)
  BY <1>4 DEF JournalStep, ReverseGuard, ReverseRead, CorrectGuard, CorrectRead,
              AdjustGuard, AdjustRead, PostingCommit
<1>. QED  BY <1>1, <1>2, <1>3, <1>4, CollectedMoves, SourceMoves DEF Next

\* A commit that posts from u, and adjusts o if there is such an entry, makes
\* u POSTED and the source of o CORRECTED, and changes no transaction otherwise.
WritesTx(u, o) ==
    \A x \in Txs :
        /\ tx'[x].row = tx[x].row
        /\ tx'[x].type = tx[x].type
        /\ tx'[x].status =
                IF o # NoEntry /\ x = entry[o].source THEN "CORRECTED"
                ELSE IF x = u THEN "POSTED" ELSE tx[x].status

LEMMA PostingWritesTx ==
  ASSUME TypeOK, NEW r \in Requests, NEW e \in Entries
  PROVE  LET q == req[r] IN
         /\ ConfirmCommit(r, e) => WritesTx(q.tx, NoEntry)
         /\ ConfirmCancellationCommit(r, e) => WritesTx(q.tx, q.entry)
         /\ ReverseCommit(r, e) \/ CorrectCommit(r, e) => WritesTx(NoTx, q.entry)
<1>. DEFINE q == req[r]
            Same(x) == tx'[x].row = tx[x].row /\ tx'[x].type = tx[x].type
<1>1. tx \in [Txs -> TxRow] /\ NoTx \notin Txs
  BY LedgerConstants DEF LedgerConstants, TypeOK, LedgerRowsOK
<1>2. ASSUME ConfirmCommit(r, e) PROVE WritesTx(q.tx, NoEntry)
  <2>1. tx' = [tx EXCEPT ![q.tx].status = "POSTED"]
    BY <1>2 DEF ConfirmCommit
  <2>. QED  BY <1>1, <2>1 DEF WritesTx, TxRow
<1>3. ASSUME ConfirmCancellationCommit(r, e) PROVE WritesTx(q.tx, q.entry)
  <2>. DEFINE t == entry[q.entry].source
              posted == [tx EXCEPT ![q.tx].status = "POSTED"]
  <2>1. /\ tx' = [tx EXCEPT ![q.tx].status = "POSTED", ![t].status = "CORRECTED"]
        /\ q.entry # NoEntry
    BY <1>3 DEF ConfirmCancellationCommit
  <2>2. /\ posted \in [Txs -> TxRow]
        /\ \A x \in Txs : /\ posted[x].row = tx[x].row /\ posted[x].type = tx[x].type
                          /\ posted[x].status =
                                IF x = q.tx THEN "POSTED" ELSE tx[x].status
    BY <1>1 DEF TxRow, TxStatus
  <2>3. tx' = [posted EXCEPT ![t].status = "CORRECTED"]
    BY <1>1, <2>1
  <2>. HIDE DEF posted
  <2>4. \A x \in Txs : /\ tx'[x].row = posted[x].row /\ tx'[x].type = posted[x].type
                       /\ tx'[x].status =
                            IF x = t THEN "CORRECTED" ELSE posted[x].status
    BY <2>2, <2>3 DEF TxRow
  <2>. QED  BY <2>1, <2>2, <2>4 DEF WritesTx
<1>4. ASSUME ReverseCommit(r, e) \/ CorrectCommit(r, e)
      PROVE  WritesTx(NoTx, q.entry)
  <2>. DEFINE t == entry[q.entry].source
  <2>1. q.entry # NoEntry
    BY <1>4, RequestFields
       DEF ReverseCommit, CorrectCommit, WellFormed, TypeOK, Entries, NoEntry
  <2>2. IF t = NoTx THEN UNCHANGED tx
        ELSE tx' = [tx EXCEPT ![t].status = "CORRECTED"]
    BY <1>4 DEF ReverseCommit, CorrectCommit, ClaimOriginal
  <2>3. CASE t = NoTx
    BY <1>1, <2>2, <2>3 DEF WritesTx
  <2>4. CASE t # NoTx
    BY <1>1, <2>1, <2>2, <2>4 DEF WritesTx, TxRow
  <2>. QED  BY <2>3, <2>4
<1>. QED  BY <1>2, <1>3, <1>4
=============================================================================
