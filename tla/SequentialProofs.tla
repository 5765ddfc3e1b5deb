--------------------------- MODULE SequentialProofs ---------------------------
(***************************************************************************)
(* Theorems about one request at a time: whole operations that follow each *)
(* other in any order, each of which may fail at any of its steps.  What a *)
(* handler has read still holds when it writes then, and that is what      *)
(* these properties need.                                                  *)
(***************************************************************************)
EXTENDS PeriodProofs, SourceProofs

OneAtATime == \A x, y \in Requests : x = y

\* What the checks and reads of a handler have found, as far as its commit
\* relies on it, is what the rows say.
Upheld(q) ==
    /\ q.at \in {"createInsert", "updateCommit", "collectRowInsert",
                "collectRowAbsorb", "repaymentCommit"}
        => period[q.month].status # "LOCKED"
    /\ q.at = "openCommit" =>
        \A k \in Existing : /\ k < q.month
                            /\ IsLatest(k, Existing) => period[k].status = "LOCKED"
    /\ q.at = "closeCommit" =>
        /\ Pending(q.month) = {}
        /\ q.entries = opening[q.month].entries \cup PostedOf(q.month)
    /\ q.at \in {"reopenRollback", "reopenCommit"} =>
        IF q.flag THEN IsLatest(q.month + 1, Existing) /\ Unused(q.month + 1)
                  ELSE IsLatest(q.month, Existing)
    /\ q.at = "confirmCommit" /\ q.entry = NoEntry =>
        q.month = tx[q.tx].month /\ q.amount = tx[q.tx].amount
    /\ q.at \in {"reverseRead", "reverseCommit", "correctRead", "correctCommit"} =>
        \A k \in Months : period[k].status \in JournalWritable => k <= q.month
    /\ q.at = "carryCommit" =>
        period[q.month].status = "LOCKED" /\ ~ closing[q.month + 1].exists
    /\ q.at = "cancelCarryCommit" => ~ closing[q.month + 1].exists
    /\ q.at = "statementsCommit" =>
        /\ period[q.month].status = "LOCKED"
        /\ closing[q.month].exists
        /\ q.entries = closing[q.month].entries
        /\ q.posted = PostedOf(q.month)
    /\ q.at = "collectRowInsert" =>
        /\ q.flag => MayCreateMonth(q.month)
        /\ q.tx # NoTx => tx[q.tx].status = "GONE"
    /\ q.at = "repaymentCommit" =>
        schedule[q.schedule].tx = NoTx /\ schedule[q.schedule].status # "POSTED"
    /\ q.at = "updateRepaymentCommit" =>
        schedule[q.schedule].tx = NoTx /\ schedule[q.schedule].entry = NoEntry

Current == \A r \in Requests : Upheld(req[r])

-----------------------------------------------------------------------------
(* What the request has read stays what the rows say *)

\* A request that has been answered relies on nothing.
LEMMA EndedUpheld ==
  ASSUME OneAtATime, NEW r \in Requests, req'[r].at = "idle"
  PROVE  Current'
<1>1. \A x \in Requests : req'[x].at = "idle"
  BY DEF OneAtATime
<1>. QED  BY <1>1 DEF Current, Upheld

\* A read or a check changes no row; what it hands on is true as it stands.
LEMMA HeldUpheld ==
  ASSUME OneAtATime, RequestsOK, NEW r \in Requests, NEW rec, Hold(r, rec),
         UNCHANGED <<periodVars, ledgerVars>>, Upheld(rec)
  PROVE  Current'
<1>1. \A x \in Requests : req'[x] = rec
  BY DEF OneAtATime, Hold, RequestsOK
<1>2. Upheld(rec)'
  BY DEF Upheld, periodVars, ledgerVars, Existing, IsLatest, Pending, InPeriod,
         PostedOf, EntriesOf, Unused, MayCreateMonth
<1>. QED  BY <1>1, <1>2 DEF Current, Upheld

\* The months.
LEMMA PeriodCurrent ==
  ASSUME OneAtATime, TypeOK, Current, NEW r \in Requests, PeriodStep(r)
  PROVE  Current'
<1>. USE DEF TypeOK
<1>1. ASSUME NEW m \in Months, OpenCheck(r, m) PROVE Current'
  <2>. DEFINE rec == [Idle EXCEPT !.at = "openCommit", !.month = m,
                                  !.flag = (Existing = {})]
  <2>1. Upheld(rec)
    BY <1>1 DEF OpenCheck, Upheld, Idle
  <2>2. Hold(r, rec) /\ UNCHANGED <<periodVars, ledgerVars>>
    BY <1>1 DEF OpenCheck
  <2>. QED  BY <2>1, <2>2, HeldUpheld
<1>2. ASSUME NEW m \in Months, CloseRead(r, m) PROVE Current'
  <2>. DEFINE rec == [Idle EXCEPT !.at = "closeCommit", !.month = m,
                                  !.status = period[m].status,
                                  !.entries = opening[m].entries \cup PostedOf(m)]
  <2>1. Upheld(rec)
    BY <1>2 DEF CloseRead, Upheld, Idle
  <2>2. Hold(r, rec) /\ UNCHANGED <<periodVars, ledgerVars>>
    BY <1>2 DEF CloseRead
  <2>. QED  BY <2>1, <2>2, HeldUpheld
<1>3. ASSUME NEW m \in Months, ReopenCheck(r, m) PROVE Current'
  <2>. DEFINE one == [Idle EXCEPT !.at = "reopenCommit", !.month = m]
              two == [Idle EXCEPT !.at = "reopenRollback", !.month = m,
                                  !.flag = TRUE]
  <2>1. IsLatest(m, Existing) => Upheld(one)
    BY DEF Upheld, Idle
  <2>2. IsLatest(m + 1, Existing) /\ CanRollBack(m + 1) => Upheld(two)
    BY DEF Upheld, Idle, CanRollBack
  <2>3. UNCHANGED <<periodVars, ledgerVars>>
    BY <1>3 DEF ReopenCheck
  <2>4. \/ IsLatest(m, Existing) /\ Hold(r, one)
        \/ IsLatest(m + 1, Existing) /\ CanRollBack(m + 1) /\ Hold(r, two)
    BY <1>3 DEF ReopenCheck
  <2>. QED  BY <2>1, <2>2, <2>3, <2>4, HeldUpheld
<1>4. ASSUME ReopenRollbackRead(r) PROVE Current'
  <2>. DEFINE rec == [req[r] EXCEPT !.at = "reopenCommit"]
  <2>1. req[r] \in Request /\ req[r].at = "reopenRollback" /\ Upheld(req[r])
    BY <1>4, RequestFields DEF ReopenRollbackRead, Current
  <2>2. Upheld(rec)
    BY <2>1 DEF Upheld, Request
  <2>3. Hold(r, rec) /\ UNCHANGED <<periodVars, ledgerVars>>
    BY <1>4 DEF ReopenRollbackRead
  <2>. QED  BY <2>2, <2>3, HeldUpheld
<1>5. ASSUME OpenCommit(r) \/ CloseCommit(r) \/ ReopenCommit(r)
      PROVE  req'[r].at = "idle"
  BY <1>5 DEF OpenCommit, CloseCommit, ReopenCommit, Answer, Idle, RequestsOK
<1>. QED
  BY <1>1, <1>2, <1>3, <1>4, <1>5, EndedUpheld DEF PeriodStep

\* A date that the write guard lets through lies in no locked month.
LEMMA GuardedNotLocked ==
  ASSUME NEW m, WriteGuard(m, Collecting)
  PROVE  period[m].status # "LOCKED"
  BY DEF WriteGuard, IsLatest, Collecting

\* The transactions.
LEMMA CollectedCurrent ==
  ASSUME OneAtATime, TypeOK, NEW r \in Requests, CollectedStep(r)
  PROVE  Current'
<1>. USE DEF TypeOK
<1>1. ASSUME NEW m \in Months, NEW a \in Amounts, NEW st \in ManualStatus,
             CreateGuard(r, m, a, st)
      PROVE  Current'
  <2>. DEFINE rec == [Idle EXCEPT !.at = "createInsert", !.month = m,
                                  !.amount = a, !.status = st]
  <2>1. Upheld(rec)
    BY <1>1, GuardedNotLocked DEF CreateGuard, Upheld, Idle
  <2>2. Hold(r, rec) /\ UNCHANGED <<periodVars, ledgerVars>>
    BY <1>1 DEF CreateGuard
  <2>. QED  BY <2>1, <2>2, HeldUpheld
<1>2. ASSUME NEW t \in Txs, NEW m \in Months, NEW a \in Amounts,
             NEW st \in ManualStatus, NEW rev \in BOOLEAN,
             UpdateGuard(r, t, m, a, st, rev)
      PROVE  Current'
  <2>. DEFINE rec == [Idle EXCEPT !.at = "updateCommit", !.tx = t, !.month = m,
                                  !.amount = a, !.status = st, !.flag = rev]
  <2>1. Upheld(rec)
    BY <1>2, GuardedNotLocked DEF UpdateGuard, Upheld, Idle
  <2>2. Hold(r, rec) /\ UNCHANGED <<periodVars, ledgerVars>>
    BY <1>2 DEF UpdateGuard
  <2>. QED  BY <2>1, <2>2, HeldUpheld
<1>3. ASSUME NEW t \in Txs, DeleteGuard(r, t) PROVE Current'
  <2>. DEFINE rec == [Idle EXCEPT !.at = "deleteCommit", !.tx = t]
  <2>1. Upheld(rec)
    BY DEF Upheld, Idle
  <2>2. Hold(r, rec) /\ UNCHANGED <<periodVars, ledgerVars>>
    BY <1>3 DEF DeleteGuard
  <2>. QED  BY <2>1, <2>2, HeldUpheld
<1>4. ASSUME NEW t \in Txs, ConfirmRead(r, t) PROVE Current'
  <2>1. \E rec : /\ Hold(r, rec) /\ rec.at = "confirmCommit"
                 /\ rec.entry = NoEntry =>
                        rec.month = tx[rec.tx].month /\ rec.amount = tx[rec.tx].amount
    <3>. DEFINE q(s) == [Idle EXCEPT !.at = "confirmCommit", !.tx = t,
                             !.month = tx[t].month, !.amount = tx[t].amount,
                             !.flag = (plan[t].status # "NONE"), !.schedule = s]
                c(s, e) == [q(s) EXCEPT !.entry = e, !.amount = entry[e].amount,
                                        !.status = tx[entry[e].source].status]
    <3>1. PICK s : Hold(r, q(s)) \/ \E e \in Entries : Hold(r, c(s, e))
      BY <1>4 DEF ConfirmRead, CancelledBy
    <3>2. /\ q(s).at = "confirmCommit" /\ q(s).tx = t
          /\ q(s).month = tx[t].month /\ q(s).amount = tx[t].amount
      BY DEF Idle
    <3>3. \A e : c(s, e).at = "confirmCommit" /\ c(s, e).entry = e
      BY DEF Idle
    <3>4. NoEntry \notin Entries
      BY DEF NoEntry, Entries
    <3>. HIDE DEF q, c
    <3>. QED  BY <3>1, <3>2, <3>3, <3>4
  <2>2. PICK rec : /\ Hold(r, rec) /\ rec.at = "confirmCommit"
                   /\ rec.entry = NoEntry =>
                        rec.month = tx[rec.tx].month /\ rec.amount = tx[rec.tx].amount
    BY <2>1
  <2>3. Upheld(rec)
    BY <2>2 DEF Upheld
  <2>4. UNCHANGED <<periodVars, ledgerVars>>
    BY <1>4 DEF ConfirmRead
  <2>. QED  BY <2>2, <2>3, <2>4, HeldUpheld
<1>5. ASSUME Answer(r) PROVE req'[r].at = "idle"
  BY <1>5 DEF Answer, Idle, RequestsOK
<1>. QED
  BY <1>1, <1>2, <1>3, <1>4, <1>5, EndedUpheld
     DEF CollectedStep, CreateInsert, UpdateCommit, DeleteCommit, ConfirmCommit,
         ConfirmCancellationCommit

\* The adjustments: their month is the latest one that may be written to.
LEMMA JournalCurrent ==
  ASSUME OneAtATime, TypeOK, Current, NEW r \in Requests, JournalStep(r)
  PROVE  Current'
<1>. DEFINE S == {"reverseRead", "correctRead", "reverseCommit", "correctCommit"}
            Last(m) == \A k \in Months : period[k].status \in JournalWritable => k <= m
<1>. USE DEF TypeOK
<1>1. ASSUME NEW rec, Hold(r, rec), UNCHANGED <<periodVars, ledgerVars>>,
             rec.at \in S, Last(rec.month)
      PROVE  Current'
  <2>1. Upheld(rec)
    BY <1>1 DEF Upheld
  <2>. QED  BY <1>1, <2>1, HeldUpheld
<1>2. ASSUME NEW op, NEW step \in S, NEW e, NEW m \in Months, NEW a,
             AdjustGuard(r, op, step, e, m, a)
      PROVE  Current'
  <2>. DEFINE rec == [Idle EXCEPT !.at = step, !.entry = e, !.month = m,
                                  !.amount = a]
  <2>1. rec.at = step /\ rec.month = m
    BY DEF Idle
  <2>2. /\ Hold(r, rec) /\ UNCHANGED <<periodVars, ledgerVars>>
        /\ IsLatest(m, {k \in Months : period[k].status \in JournalWritable})
    BY <1>2 DEF AdjustGuard, WriteGuard
  <2>3. Last(m)
    BY <2>2 DEF IsLatest
  <2>. HIDE DEF rec, Last, S
  <2>. QED  BY <1>1, <2>1, <2>2, <2>3
<1>3. ASSUME NEW from \in S, NEW to \in S, AdjustRead(r, from, to)
      PROVE  Current'
  <2>. DEFINE st == IF entry[req[r].entry].source = NoTx THEN "NONE"
                    ELSE tx[entry[req[r].entry].source].status
              rec == [req[r] EXCEPT !.at = to, !.status = st]
  <2>1. req[r] \in Request /\ req[r].at \in S /\ Upheld(req[r])
    BY <1>3, RequestFields DEF AdjustRead, Current
  <2>2. rec.at = to /\ rec.month = req[r].month
    BY <2>1 DEF Request
  <2>3. Last(req[r].month)
    BY <2>1 DEF Upheld
  <2>4. Hold(r, rec) /\ UNCHANGED <<periodVars, ledgerVars>>
    BY <1>3 DEF AdjustRead
  <2>. HIDE DEF rec, Last, S
  <2>. QED  BY <1>1, <2>2, <2>3, <2>4
<1>4. ASSUME Answer(r) PROVE Current'
  <2>1. req'[r].at = "idle"
    BY <1>4 DEF Answer, Idle, RequestsOK
  <2>. QED  BY <2>1, EndedUpheld
<1>. QED
  BY <1>2, <1>3, <1>4
     DEF JournalStep, ReverseGuard, ReverseRead, ReverseCommit, CorrectGuard,
         CorrectRead, CorrectCommit

\* The snapshots.
LEMMA SnapshotCurrent ==
  ASSUME OneAtATime, PeriodInv, NEW r \in Requests, SnapshotStep(r)
  PROVE  Current'
<1>. USE DEF TypeOK, PeriodInv
<1>1. ASSUME NEW m \in Months, CarryCheck(r, m) PROVE Current'
  <2>. DEFINE rec == [Idle EXCEPT !.at = "carryCommit", !.month = m,
                            !.flag = (m + 1 \in Existing),
                            !.entries = closing[m].entries]
  <2>1. Upheld(rec)
    BY <1>1 DEF CarryCheck, LockedIffClosed, Upheld, Idle
  <2>2. Hold(r, rec) /\ UNCHANGED <<periodVars, ledgerVars>>
    BY <1>1 DEF CarryCheck
  <2>. QED  BY <2>1, <2>2, HeldUpheld
<1>2. ASSUME NEW m \in Months, CancelCarryRead(r, m) PROVE Current'
  <2>. DEFINE rec == [Idle EXCEPT !.at = "cancelCarryCommit", !.month = m]
  <2>1. Upheld(rec)
    BY <1>2 DEF CancelCarryRead, CanBeCanceled, Upheld, Idle
  <2>2. Hold(r, rec) /\ UNCHANGED <<periodVars, ledgerVars>>
    BY <1>2 DEF CancelCarryRead
  <2>. QED  BY <2>1, <2>2, HeldUpheld
<1>3. ASSUME NEW m \in Months, StatementsRead(r, m) PROVE Current'
  <2>. DEFINE rec == [Idle EXCEPT !.at = "statementsCommit", !.month = m,
                            !.entries = closing[m].entries,
                            !.posted = PostedOf(m)]
  <2>1. Upheld(rec)
    BY <1>3 DEF StatementsRead, Upheld, Idle
  <2>2. Hold(r, rec) /\ UNCHANGED <<periodVars, ledgerVars>>
    BY <1>3 DEF StatementsRead
  <2>. QED  BY <2>1, <2>2, HeldUpheld
<1>4. ASSUME CarryCommit(r) \/ CancelCarryCommit(r) \/ StatementsCommit(r)
      PROVE  req'[r].at = "idle"
  BY <1>4 DEF CarryCommit, CancelCarryCommit, StatementsCommit, Answer, Idle,
              RequestsOK
<1>. QED  BY <1>1, <1>2, <1>3, <1>4, EndedUpheld DEF SnapshotStep

\* The rows and schedules behind the transactions.
LEMMA SourceCurrent ==
  ASSUME OneAtATime, TypeOK, NEW r \in Requests, SourceStep(r)
  PROVE  Current'
<1>. USE DEF TypeOK
<1>1. ASSUME NEW w \in Rows, NEW a \in Amounts, NEW st \in Unposted,
             CollectRowRead(r, w, a, st)
      PROVE  Current'
  <2>. DEFINE m == RowMonth[w]
              q == [Idle EXCEPT !.at = "collectRowInsert", !.month = m, !.row = w,
                                !.amount = a, !.status = st,
                                !.flag = (m \notin Existing)]
  <2>1. /\ UNCHANGED <<periodVars, ledgerVars>>
        /\ period[m].status # "LOCKED"
        /\ m \notin Existing => MayCreateMonth(m)
    <3>1. m \in Months
      BY LedgerConstants DEF LedgerConstants
    <3>2. MayCreateMonth(m) \/ WriteGuard(m, Collecting)
      BY <1>1 DEF CollectRowRead
    <3>3. MayCreateMonth(m) => period[m].status = "NONE"
      BY <3>1 DEF MayCreateMonth, Existing
    <3>4. m \notin Existing => ~ WriteGuard(m, Collecting)
      BY <3>1 DEF WriteGuard, IsLatest, Existing, Collecting
    <3>5. UNCHANGED <<periodVars, ledgerVars>>
      BY <1>1 DEF CollectRowRead
    <3>. QED  BY <3>2, <3>3, <3>4, <3>5, GuardedNotLocked
  <2>2. PICK rec : /\ Hold(r, rec)
                   /\ rec.at \in {"collectRowInsert", "collectRowAbsorb"}
                   /\ rec.month = m /\ rec.flag = (m \notin Existing)
                   /\ rec.at = "collectRowInsert" /\ rec.tx # NoTx
                        => tx[rec.tx].status = "GONE"
    <3>. DEFINE p(t) == [q EXCEPT !.tx = t]
                b(t) == [q EXCEPT !.at = "collectRowAbsorb", !.tx = t]
    <3>1. \/ Hold(r, q)
          \/ \E t \in DraftPlans(m) : Hold(r, p(t))
          \/ \E t : Hold(r, b(t))
      BY <1>1 DEF CollectRowRead
    <3>2. /\ q.at = "collectRowInsert" /\ q.month = m /\ q.flag = (m \notin Existing)
          /\ q.tx = NoTx
          /\ \A t : /\ p(t).at = "collectRowInsert" /\ p(t).month = m
                    /\ p(t).flag = (m \notin Existing) /\ p(t).tx = t
                    /\ b(t).at = "collectRowAbsorb" /\ b(t).month = m
                    /\ b(t).flag = (m \notin Existing)
      BY DEF Idle
    <3>3. \A t \in DraftPlans(m) : tx[t].status = "GONE"
      BY DEF DraftPlans
    <3>. HIDE DEF q, p, b
    <3>. QED  BY <3>1, <3>2, <3>3
  <2>3. Upheld(rec)
    BY <2>1, <2>2 DEF Upheld
  <2>. QED  BY <2>1, <2>2, <2>3, HeldUpheld
<1>2. ASSUME NEW rows \in Batches, CancelCollectionRead(r, rows) PROVE Current'
  <2>. DEFINE rec == [Idle EXCEPT !.at = "cancelCollectionCommit",
                                  !.txs = CollectedFrom(rows)]
  <2>1. Upheld(rec)
    BY DEF Upheld, Idle
  <2>2. Hold(r, rec) /\ UNCHANGED <<periodVars, ledgerVars>>
    BY <1>2 DEF CancelCollectionRead
  <2>. QED  BY <2>1, <2>2, HeldUpheld
<1>3. ASSUME NEW s \in Schedules, NEW a \in Amounts, RepaymentCheck(r, s, a)
      PROVE  Current'
  <2>. DEFINE rec == [Idle EXCEPT !.at = "repaymentCommit", !.schedule = s,
                            !.month = DueMonth[s], !.amount = a]
  <2>1. Upheld(rec)
    BY <1>3, GuardedNotLocked DEF RepaymentCheck, Upheld, Idle
  <2>2. Hold(r, rec) /\ UNCHANGED <<periodVars, ledgerVars>>
    BY <1>3 DEF RepaymentCheck
  <2>. QED  BY <2>1, <2>2, HeldUpheld
<1>4. ASSUME NEW s \in Schedules, NEW st \in ScheduleStatus,
             UpdateRepaymentCheck(r, s, st)
      PROVE  Current'
  <2>. DEFINE rec == [Idle EXCEPT !.at = "updateRepaymentCommit", !.schedule = s,
                            !.status = st]
  <2>1. Upheld(rec)
    BY <1>4 DEF UpdateRepaymentCheck, Upheld, Idle
  <2>2. Hold(r, rec) /\ UNCHANGED <<periodVars, ledgerVars>>
    BY <1>4 DEF UpdateRepaymentCheck
  <2>. QED  BY <2>1, <2>2, HeldUpheld
<1>5. ASSUME Answer(r) PROVE req'[r].at = "idle"
  BY <1>5 DEF Answer, Idle, RequestsOK
<1>. QED
  BY <1>1, <1>2, <1>3, <1>4, <1>5, EndedUpheld
     DEF SourceStep, CollectRowInsert, CollectRowAbsorb, CancelCollectionCommit,
         RepaymentCommit, UpdateRepaymentCommit

\* So, whatever the request does, what it holds is current.
LEMMA NextCurrent ==
  ASSUME OneAtATime, PeriodInv, Current, [Next]_vars
  PROVE  Current'
<1>1. CASE UNCHANGED vars
  BY <1>1 DEF vars, Current, Upheld, Existing, IsLatest, Pending, InPeriod,
              PostedOf, EntriesOf, Unused, MayCreateMonth
<1>2. ASSUME NEW r \in Requests, Fail(r) PROVE req'[r].at = "idle"
  BY <1>2 DEF Fail, Answer, Idle, PeriodInv, TypeOK, RequestsOK
<1>3. CASE Next
  BY <1>2, <1>3, EndedUpheld, PeriodCurrent, CollectedCurrent, JournalCurrent,
     SnapshotCurrent, SourceCurrent DEF Next, PeriodInv
<1>. QED  BY <1>1, <1>3

LEMMA InitCurrent == Init => Current
  BY DEF Init, Current, Upheld, Idle

-----------------------------------------------------------------------------
(* Which steps write which rows *)

\* The commits that write transactions, plan items, schedules and entries.
LedgerCommit(r) ==
    \/ \E t \in Txs : CreateInsert(r, t)
    \/ UpdateCommit(r)
    \/ DeleteCommit(r)
    \/ \E e \in Entries : PostingCommit(r, e)
    \/ \E t \in Txs : CollectRowInsert(r, t)
    \/ CollectRowAbsorb(r)
    \/ CancelCollectionCommit(r)
    \/ \E t \in Txs : RepaymentCommit(r, t)
    \/ UpdateRepaymentCommit(r)

\* The commits that write months and snapshots, but for the numbers.
MonthCommit(r) ==
    \/ OpenCommit(r)
    \/ CloseCommit(r)
    \/ ReopenCommit(r)
    \/ CarryCommit(r)
    \/ CancelCarryCommit(r)
    \/ StatementsCommit(r)
    \/ req[r].flag /\ \E t \in Txs : CollectRowInsert(r, t)

\* The rollback of a month that nobody has used takes nothing away.
LEMMA UnusedRollback ==
  ASSUME TypeOK, NEW n, Unused(n), DeletePeriod(n)
  PROVE  UNCHANGED ledgerVars
<1>1. /\ EntriesOf(n) = {}
      /\ {t \in Txs : plan[t].status # "NONE" /\ plan[t].month = n} = {}
      /\ \A t \in Txs : ~ InPeriod(t, n)
  BY DEF Unused
<1>2. entry' = entry
  <2>1. entry' = [e \in Entries |->
            [entry[e] EXCEPT !.reverses = IF @ \in {} THEN NoEntry ELSE @,
                             !.corrects = IF @ \in {} THEN NoEntry ELSE @]]
    BY <1>1 DEF DeletePeriod
  <2>2. entry \in [Entries -> EntryRow]
    BY DEF TypeOK, LedgerRowsOK
  <2>. QED  BY <2>1, <2>2 DEF EntryRow
<1>3. tx' = tx
  <2>1. tx \in [Txs -> TxRow]
    BY DEF TypeOK, LedgerRowsOK
  <2>2. tx' = [t \in Txs |-> [tx[t] EXCEPT !.detached = @ \/ InPeriod(t, n)]]
    BY DEF DeletePeriod
  <2>3. ASSUME NEW t \in Txs PROVE tx'[t] = tx[t]
    <3>1. tx[t] \in TxRow /\ tx[t].detached \in BOOLEAN /\ ~ InPeriod(t, n)
      BY <1>1, <2>1 DEF TxRow
    <3>2. (tx[t].detached \/ InPeriod(t, n)) = tx[t].detached
      BY <3>1
    <3>3. tx'[t] = [tx[t] EXCEPT !.detached = tx[t].detached]
      BY <2>2, <3>2
    <3>. QED  BY <3>1, <3>3 DEF TxRow
  <2>4. tx' = [t \in Txs |-> tx'[t]]
    BY <2>2
  <2>. QED  BY <2>1, <2>3, <2>4
<1>4. plan' = plan
  BY <1>1 DEF DeletePeriod, TypeOK, LedgerRowsOK
<1>5. schedule' = schedule
  <2>1. schedule' = [s \in Schedules |->
            [schedule[s] EXCEPT !.tx = IF @ \in {} THEN NoTx ELSE @,
                                !.entry = IF @ \in {} THEN NoEntry ELSE @]]
    BY <1>1 DEF DeletePeriod
  <2>2. schedule \in [Schedules -> ScheduleRow]
    BY DEF TypeOK, LedgerRowsOK
  <2>. QED  BY <2>1, <2>2 DEF ScheduleRow
<1>. QED  BY <1>2, <1>3, <1>4, <1>5 DEF ledgerVars

\* With one request at a time a reopening never takes more than that away.
LEMMA ReopenKeepsLedger ==
  ASSUME TypeOK, Current, NEW r \in Requests, ReopenCommit(r)
  PROVE  UNCHANGED ledgerVars
<1>1. CASE req[r].flag
  <2>1. Unused(req[r].month + 1) /\ DeletePeriod(req[r].month + 1)
    BY <1>1 DEF Current, Upheld, ReopenCommit
  <2>. QED  BY <2>1, UnusedRollback
<1>2. CASE ~ req[r].flag
  BY <1>2 DEF ReopenCommit
<1>. QED  BY <1>1, <1>2

LEMMA CurrentTakesNothing ==
  ASSUME TypeOK, Current
  PROVE  NothingTaken
  BY ReopenKeepsLedger DEF NothingTaken

\* So only the commits above write transactions, plan items, schedules and
\* entries.
LEMMA LedgerWriters ==
  ASSUME TypeOK, Current, [Next]_vars
  PROVE  UNCHANGED ledgerVars \/ \E r \in Requests : LedgerCommit(r)
<1>1. UNCHANGED vars => UNCHANGED ledgerVars
  BY DEF vars, ledgerVars
<1>2. ASSUME NEW r \in Requests, PeriodStep(r) \/ SnapshotStep(r) \/ Fail(r)
      PROVE  UNCHANGED ledgerVars
  BY <1>2, ReopenKeepsLedger
     DEF PeriodStep, OpenCheck, OpenCommit, CloseRead, CloseCommit,
         ReopenCheck, ReopenRollbackRead, SnapshotStep, CarryCheck,
         CarryCommit, CancelCarryRead, CancelCarryCommit, StatementsRead,
         StatementsCommit, Fail
<1>3. ASSUME NEW r \in Requests, CollectedStep(r) \/ JournalStep(r)
      PROVE  UNCHANGED ledgerVars \/ LedgerCommit(r)
  BY <1>3 DEF CollectedStep, CreateGuard, UpdateGuard, DeleteGuard, ConfirmRead,
              JournalStep, ReverseGuard, ReverseRead, CorrectGuard, CorrectRead,
              AdjustGuard, AdjustRead, PostingCommit, LedgerCommit
<1>4. ASSUME NEW r \in Requests, SourceStep(r)
      PROVE  UNCHANGED ledgerVars \/ LedgerCommit(r)
  BY <1>4 DEF SourceStep, CollectRowRead, CancelCollectionRead, RepaymentCheck,
              UpdateRepaymentCheck, LedgerCommit
<1>. QED  BY <1>1, <1>2, <1>3, <1>4 DEF Next

\* A step with no other effect on months keeps their status and snapshots.
MonthsKept ==
    /\ UNCHANGED <<opening, closing, carry, fs>>
    /\ \A m \in Months : period'[m].status = period[m].status

LEMMA MonthWriters ==
  ASSUME TypeOK, [Next]_vars
  PROVE  MonthsKept \/ \E r \in Requests : MonthCommit(r)
<1>1. UNCHANGED periodVars => MonthsKept
  BY DEF periodVars, MonthsKept
<1>2. ASSUME NEW m, AllocateNumber(m), UNCHANGED <<opening, closing, carry, fs>>
      PROVE  MonthsKept
  BY <1>2, AllocateKeepsSnapshots DEF SnapshotsKept, MonthsKept
<1>3. UNCHANGED vars => UNCHANGED periodVars
  BY DEF vars, periodVars
<1>4. ASSUME NEW r \in Requests, PeriodStep(r) \/ SnapshotStep(r) \/ Fail(r)
      PROVE  UNCHANGED periodVars \/ MonthCommit(r)
  BY <1>4 DEF PeriodStep, OpenCheck, CloseRead, ReopenCheck, ReopenRollbackRead,
              SnapshotStep, CarryCheck, CancelCarryRead, StatementsRead, Fail,
              MonthCommit
<1>5. ASSUME NEW r \in Requests, NEW e \in Entries, PostingCommit(r, e)
      PROVE  MonthsKept
  BY <1>2, <1>5 DEF PostingCommit, ConfirmCommit, ConfirmCancellationCommit,
                    ReverseCommit, CorrectCommit, ClaimOriginal
<1>6. ASSUME NEW r \in Requests, CollectedStep(r) \/ JournalStep(r)
      PROVE  MonthsKept
  <2>1. UNCHANGED periodVars \/ \E e \in Entries : PostingCommit(r, e)
    BY <1>6 DEF CollectedStep, CreateGuard, CreateInsert, UpdateGuard,
                UpdateCommit, DeleteGuard, DeleteCommit, ConfirmRead,
                JournalStep, ReverseGuard, ReverseRead, CorrectGuard,
                CorrectRead, AdjustGuard, AdjustRead, PostingCommit
  <2>. QED  BY <1>1, <1>5, <2>1
<1>7. ASSUME NEW r \in Requests, SourceStep(r)
      PROVE  MonthsKept \/ MonthCommit(r)
  <2>1. ASSUME NEW t \in Txs, CollectRowInsert(r, t), ~ req[r].flag
        PROVE  UNCHANGED periodVars
    BY <2>1 DEF CollectRowInsert, periodVars
  <2>. QED
    BY <1>1, <1>7, <2>1
       DEF SourceStep, CollectRowRead, CollectRowAbsorb, CancelCollectionRead,
           CancelCollectionCommit, RepaymentCheck, RepaymentCommit,
           UpdateRepaymentCheck, UpdateRepaymentCommit, MonthCommit
<1>. QED  BY <1>1, <1>3, <1>4, <1>6, <1>7 DEF Next

-----------------------------------------------------------------------------
(* Locked months have nothing waiting *)

\* A commit that posts changes nothing of a transaction but its status.
LEMMA PostingKeepsTx ==
  ASSUME TypeOK, NEW r \in Requests, NEW e \in Entries, PostingCommit(r, e),
         NEW t \in Txs
  PROVE  /\ tx'[t].month = tx[t].month
         /\ tx'[t].amount = tx[t].amount
         /\ tx'[t].detached = tx[t].detached
         /\ tx'[t].status \in {tx[t].status, "POSTED", "CORRECTED"}
<1>. DEFINE q == req[r]
            o == entry[q.entry].source
<1>1. tx \in [Txs -> TxRow]
  BY DEF TypeOK, LedgerRowsOK
<1>2. CASE ConfirmCommit(r, e)
  <2>1. tx' = [tx EXCEPT ![q.tx].status = "POSTED"]
    BY <1>2 DEF ConfirmCommit
  <2>. QED  BY <1>1, <2>1 DEF TxRow
<1>3. CASE ConfirmCancellationCommit(r, e)
  <2>. DEFINE posted == [tx EXCEPT ![q.tx].status = "POSTED"]
  <2>1. tx' = [tx EXCEPT ![q.tx].status = "POSTED", ![o].status = "CORRECTED"]
    BY <1>3 DEF ConfirmCancellationCommit
  <2>2. tx' = [posted EXCEPT ![o].status = "CORRECTED"]
    BY <1>1, <2>1
  <2>3. posted \in [Txs -> TxRow]
    BY <1>1 DEF TxRow, TxStatus
  <2>4. /\ posted[t].month = tx[t].month /\ posted[t].amount = tx[t].amount
        /\ posted[t].detached = tx[t].detached
        /\ posted[t].status \in {tx[t].status, "POSTED"}
    BY <1>1 DEF TxRow
  <2>. HIDE DEF posted
  <2>5. /\ tx'[t].month = posted[t].month /\ tx'[t].amount = posted[t].amount
        /\ tx'[t].detached = posted[t].detached
        /\ tx'[t].status \in {posted[t].status, "CORRECTED"}
    BY <2>2, <2>3 DEF TxRow
  <2>. QED  BY <2>4, <2>5
<1>4. CASE ReverseCommit(r, e) \/ CorrectCommit(r, e)
  <2>1. tx' = tx \/ tx' = [tx EXCEPT ![o].status = "CORRECTED"]
    BY <1>4 DEF ReverseCommit, CorrectCommit, ClaimOriginal
  <2>. QED  BY <1>1, <2>1 DEF TxRow
<1>. QED  BY <1>2, <1>3, <1>4 DEF PostingCommit

\* A transaction comes to wait in a month that is not locked only.
LEMMA PendingGrows ==
  ASSUME TypeOK, Current, NEW r \in Requests, LedgerCommit(r),
         NEW t \in Txs, NEW m \in Months, period[m].status = "LOCKED",
         t \in Pending(m)'
  PROVE  t \in Pending(m)
<1>. DEFINE q == req[r]
<1>. USE DEF Pending, InPeriod
<1>1. tx \in [Txs -> TxRow]
  BY DEF TypeOK, LedgerRowsOK
<1>2. Upheld(q)
  BY DEF Current
<1>3. ASSUME NEW x \in Txs, CreateInsert(r, x) PROVE t \in Pending(m)
  BY <1>1, <1>2, <1>3 DEF CreateInsert, Upheld
<1>4. ASSUME UpdateCommit(r) PROVE t \in Pending(m)
  <2>1. q.tx \in Txs /\ period[q.month].status # "LOCKED"
    BY <1>2, <1>4, RequestFields DEF UpdateCommit, Upheld, WellFormed, TypeOK
  <2>. QED  BY <1>1, <1>4, <2>1 DEF UpdateCommit, TxRow
<1>5. ASSUME DeleteCommit(r) PROVE t \in Pending(m)
  BY <1>1, <1>5 DEF DeleteCommit, NoTxRow, Unposted
<1>6. ASSUME NEW e \in Entries, PostingCommit(r, e) PROVE t \in Pending(m)
  <2>1. /\ tx'[t].month = tx[t].month /\ tx'[t].detached = tx[t].detached
        /\ tx'[t].status \in {tx[t].status, "POSTED", "CORRECTED"}
    BY <1>6, PostingKeepsTx
  <2>. QED  BY <2>1 DEF Unposted
<1>7. ASSUME NEW x \in Txs, CollectRowInsert(r, x) PROVE t \in Pending(m)
  BY <1>1, <1>2, <1>7 DEF CollectRowInsert, Upheld
<1>8. ASSUME CollectRowAbsorb(r) PROVE t \in Pending(m)
  <2>1. q.tx \in Txs /\ period[q.month].status # "LOCKED"
    BY <1>2, <1>8, RequestFields DEF CollectRowAbsorb, Upheld, WellFormed, TypeOK
  <2>. QED  BY <1>1, <1>8, <2>1 DEF CollectRowAbsorb, TxRow
<1>9. ASSUME CancelCollectionCommit(r) PROVE t \in Pending(m)
  BY <1>1, <1>9 DEF CancelCollectionCommit, NoTxRow, Unposted
<1>10. ASSUME NEW x \in Txs, RepaymentCommit(r, x) PROVE t \in Pending(m)
  BY <1>1, <1>2, <1>10 DEF RepaymentCommit, Upheld
<1>11. ASSUME UpdateRepaymentCommit(r) PROVE t \in Pending(m)
  BY <1>11 DEF UpdateRepaymentCommit
<1>. QED
  BY <1>3, <1>4, <1>5, <1>6, <1>7, <1>8, <1>9, <1>10, <1>11 DEF LedgerCommit

\* A month becomes locked by a close, which has found nothing waiting.
LEMMA LockedMonths ==
  ASSUME TypeOK, Current, [Next]_vars, NEW m \in Months,
         period'[m].status = "LOCKED", period[m].status # "LOCKED"
  PROVE  UNCHANGED ledgerVars /\ Pending(m) = {}
<1>1. PICK r \in Requests : MonthCommit(r)
  BY MonthWriters DEF MonthsKept
<1>2. period \in [Months -> PeriodRow] /\ Upheld(req[r])
  BY DEF TypeOK, PeriodRowsOK, Current
<1>3. CloseCommit(r) /\ m = req[r].month
  BY <1>1, <1>2 DEF MonthCommit, OpenCommit, CloseCommit, ReopenCommit, CarryCommit,
                    CancelCarryCommit, StatementsCommit, CollectRowInsert,
                    NewPeriod, NoPeriod, PeriodRow
<1>. QED  BY <1>2, <1>3 DEF CloseCommit, Upheld

LEMMA NextNoPendingInLocked ==
  ASSUME TypeOK, Current, NoPendingInLocked, [Next]_vars
  PROVE  NoPendingInLocked'
<1>. SUFFICES ASSUME NEW m \in Months, period'[m].status = "LOCKED",
                     NEW t \in Txs, t \in Pending(m)'
              PROVE  FALSE
  BY DEF NoPendingInLocked, Pending
<1>1. CASE UNCHANGED ledgerVars
  <2>1. Pending(m) = {}
    BY LockedMonths DEF NoPendingInLocked
  <2>. QED  BY <1>1, <2>1 DEF Pending, InPeriod, ledgerVars
<1>2. CASE ~ UNCHANGED ledgerVars
  <2>1. period[m].status = "LOCKED"
    BY <1>2, LockedMonths
  <2>2. t \in Pending(m)
    BY <1>2, <2>1, LedgerWriters, PendingGrows
  <2>. QED  BY <2>1, <2>2 DEF NoPendingInLocked
<1>. QED  BY <1>1, <1>2

\* One operation after the other, a month that is locked has no transaction
\* waiting to be confirmed, and none gets into it while it stays locked.
THEOREM LockedHasNonePending ==
  ASSUME OneAtATime
  PROVE  Spec => []NoPendingInLocked
<1>. DEFINE Inv == PeriodInv /\ Current /\ NoPendingInLocked
<1>1. Init => Inv
  BY InitInv, InitCurrent DEF Init, NoPendingInLocked, NoPeriod
<1>2. Inv /\ [Next]_vars => Inv'
  BY NextInv, NextCurrent, NextNoPendingInLocked DEF PeriodInv
<1>. QED  BY <1>1, <1>2, PTL DEF Spec

-----------------------------------------------------------------------------
(* Entries say what their transactions say *)

\* What counts as posted has been posted from, and is not changed any more.
LEMMA PostedTxKept ==
  ASSUME TypeOK, NEW r \in Requests, LedgerCommit(r),
         NEW t \in Txs, tx[t].status \in {"POSTED", "CORRECTED"}
  PROVE  tx'[t].month = tx[t].month /\ tx'[t].amount = tx[t].amount
<1>1. tx \in [Txs -> TxRow] /\ tx[t].status \notin Unposted \cup {"ABSENT"}
  BY DEF TypeOK, LedgerRowsOK, Unposted
<1>2. ASSUME NEW e \in Entries, PostingCommit(r, e)
      PROVE  tx'[t].month = tx[t].month /\ tx'[t].amount = tx[t].amount
  BY <1>2, PostingKeepsTx
<1>3. ASSUME ~ \E e \in Entries : PostingCommit(r, e) PROVE tx'[t] = tx[t]
  BY <1>1, <1>3 DEF LedgerCommit, CreateInsert, UpdateCommit, DeleteCommit,
                    Changeable, CollectRowInsert, CollectRowAbsorb, FreshTx,
                    CancelCollectionCommit, RepaymentCommit,
                    UpdateRepaymentCommit
<1>. QED  BY <1>2, <1>3

LEMMA NextPostedAsRecorded ==
  ASSUME PostingInv, Current, PostedAsRecorded, [Next]_vars
  PROVE  PostedAsRecorded'
<1>. USE DEF PostingInv
<1>1. CASE UNCHANGED ledgerVars
  BY <1>1 DEF PostedAsRecorded, ledgerVars
<1>2. ASSUME NEW r \in Requests, LedgerCommit(r), NEW k \in Entries,
             entry[k].source # NoTx, entry[k].reverses = NoEntry,
             entry'[k].source = entry[k].source,
             entry'[k].amount = entry[k].amount, entry'[k].month = entry[k].month
      PROVE  /\ entry'[k].amount = tx'[entry'[k].source].amount
             /\ entry'[k].month = tx'[entry'[k].source].month
  <2>1. PICK t \in Txs : t = entry[k].source
    BY <1>2 DEF TypeOK, LedgerRowsOK, EntryRow
  <2>2. tx[t].status \in {"POSTED", "CORRECTED"}
    BY <1>2, <2>1 DEF PostingStatusAgrees
  <2>3. tx'[t].month = tx[t].month /\ tx'[t].amount = tx[t].amount
    BY <1>2, <2>2, PostedTxKept
  <2>. QED  BY <1>2, <2>1, <2>3 DEF PostedAsRecorded
<1>3. ASSUME NEW r \in Requests, LedgerCommit(r), UNCHANGED entry
      PROVE  PostedAsRecorded'
  BY <1>2, <1>3 DEF PostedAsRecorded
<1>4. ASSUME NEW r \in Requests, NEW e \in Entries, PostingCommit(r, e)
      PROVE  PostedAsRecorded'
  <2>1. PICK u, o, st : Posts(e, u, o, st)
    BY <1>4, SomePosting
  <2>2. ASSUME NEW k \in Entries \ {e}
        PROVE  /\ entry'[k].source = entry[k].source
               /\ entry'[k].reverses = entry[k].reverses
               /\ entry'[k].amount = entry[k].amount
               /\ entry'[k].month = entry[k].month
    <3>1. entry[k] \in EntryRow /\ k # NoEntry
      BY DEF TypeOK, LedgerRowsOK, Entries, NoEntry
    <3>. QED  BY <2>1, <2>2, <3>1 DEF Posts, EntryRow
  <2>3. \/ entry'[e].source = NoTx \/ entry'[e].reverses # NoEntry
        \/ /\ entry'[e].amount = tx'[entry'[e].source].amount
           /\ entry'[e].month = tx'[entry'[e].source].month
    <3>1. CASE ConfirmCommit(r, e)
      <4>. DEFINE q == req[r]
      <4>1. q.tx \in Txs /\ q.month = tx[q.tx].month /\ q.amount = tx[q.tx].amount
        BY <3>1, RequestFields DEF ConfirmCommit, Current, Upheld, WellFormed, TypeOK
      <4>2. /\ entry'[e].source = q.tx /\ entry'[e].month = q.month
            /\ entry'[e].amount = q.amount
        BY <3>1 DEF ConfirmCommit, NewEntry, NoEntryRow, TypeOK, LedgerRowsOK
      <4>3. tx'[q.tx].month = tx[q.tx].month /\ tx'[q.tx].amount = tx[q.tx].amount
        BY <3>1, <4>1 DEF ConfirmCommit, TypeOK, LedgerRowsOK, TxRow
      <4>. QED  BY <4>1, <4>2, <4>3
    <3>2. CASE ConfirmCancellationCommit(r, e)
      <4>1. Posts(e, req[r].tx, req[r].entry, "REVERSED") /\ req[r].entry # NoEntry
        BY <3>2, PostingPosts DEF ConfirmCancellationCommit
      <4>. QED  BY <4>1 DEF Posts
    <3>3. CASE ReverseCommit(r, e) \/ CorrectCommit(r, e)
      <4>1. \E p, s : Posts(e, NoTx, p, s)
        BY <3>3, PostingPosts
      <4>. QED  BY <4>1 DEF Posts
    <3>. QED  BY <1>4, <3>1, <3>2, <3>3 DEF PostingCommit
  <2>4. LedgerCommit(r)
    BY <1>4 DEF LedgerCommit
  <2>. QED  BY <1>2, <2>2, <2>3, <2>4 DEF PostedAsRecorded
<1>. QED
  BY <1>1, <1>3, <1>4, LedgerWriters, EntriesArePosted, CurrentTakesNothing

\* One operation after the other, the entry of a transaction has its amount
\* and month, now and after whatever is done to either.
THEOREM EntriesAsRecorded ==
  ASSUME OneAtATime
  PROVE  Spec => []PostedAsRecorded
<1>. DEFINE Inv == PeriodInv /\ PostingInv /\ Current /\ PostedAsRecorded
<1>1. Init => Inv
  BY InitInv, InitPostingInv, InitCurrent DEF Init, PostedAsRecorded, NoEntryRow
<1>2. Inv /\ [Next]_vars => Inv'
  BY NextInv, NextPostingInv, NextCurrent, NextPostedAsRecorded
<1>. QED  BY <1>1, <1>2, PTL DEF Spec

-----------------------------------------------------------------------------
(* Repayment schedules *)

\* A schedule is linked to a transaction with a plan item; it has an entry
\* only if that was posted from this transaction, and then counts as paid; its
\* status is the one its links say.
RepaymentTells(s) ==
    LET c == schedule[s] IN
    /\ c.tx # NoTx => plan[c.tx].status # "NONE"
    /\ c.entry # NoEntry =>
            c.tx # NoTx /\ c.status = "POSTED" /\ entry[c.entry].source = c.tx
    /\ c.tx # NoTx =>
            c.status = CASE c.entry # NoEntry -> "POSTED"
                         [] tx[c.tx].status = "GONE" -> "PLANNED"
                         [] OTHER -> "MATCHED"

RepaymentsTell == \A s \in Schedules : RepaymentTells(s)

\* What has been posted from a transaction stays posted from it.
SourcesKept ==
    \A k \in Entries : entry[k].source # NoTx => entry'[k].source = entry[k].source

LEMMA LedgerSourcesKept ==
  ASSUME PostingInv, NEW r \in Requests, LedgerCommit(r)
  PROVE  SourcesKept
<1>. USE DEF PostingInv
<1>1. ASSUME NEW e \in Entries, PostingCommit(r, e) PROVE SourcesKept
  <2>1. PICK u, o, st : Posts(e, u, o, st)
    BY <1>1, SomePosting
  <2>2. entry[e].source = NoTx
    BY <2>1 DEF Posts, SourcesUnique, EntryLive
  <2>. QED  BY <2>1, <2>2, PostsKeeps DEF SourcesKept
<1>2. ASSUME ~ \E e \in Entries : PostingCommit(r, e) PROVE UNCHANGED entry
  BY <1>2 DEF LedgerCommit, CreateInsert, UpdateCommit, DeleteCommit,
              CollectRowInsert, CollectRowAbsorb, CancelCollectionCommit,
              RepaymentCommit, UpdateRepaymentCommit
<1>. QED  BY <1>1, <1>2 DEF SourcesKept

\* What is said of a schedule that a step does not write stays true while its
\* item stays and its transaction is not deleted.
LEMMA SameRepayment ==
  ASSUME TypeOK, SourcesKept, NEW s \in Schedules, RepaymentTells(s),
         schedule'[s] = schedule[s],
         schedule[s].tx # NoTx =>
            /\ plan'[schedule[s].tx].status # "NONE"
            /\ tx'[schedule[s].tx].status = "GONE" <=> tx[schedule[s].tx].status = "GONE"
  PROVE  RepaymentTells(s)'
<1>1. schedule[s].entry \in Entries \cup {NoEntry}
  BY DEF TypeOK, LedgerRowsOK, ScheduleRow
<1>. QED  BY <1>1 DEF RepaymentTells, SourcesKept

\* A transaction that waits, or has been deleted, has paid no schedule.
LEMMA UnpostedPaysNothing ==
  ASSUME PostingInv, NEW s \in Schedules, RepaymentTells(s),
         schedule[s].tx # NoTx,
         tx[schedule[s].tx].status \notin {"POSTED", "CORRECTED"}
  PROVE  schedule[s].entry = NoEntry
<1>1. schedule[s].entry \in Entries \cup {NoEntry} /\ schedule[s].tx \in Txs
  BY DEF PostingInv, TypeOK, LedgerRowsOK, ScheduleRow
<1>. QED  BY <1>1, UnpostedHasNoEntry DEF RepaymentTells

\* Posting deletes nothing and brings nothing back.
LEMMA PostingKeepsGone ==
  ASSUME PostingInv, NEW r \in Requests, NEW e \in Entries, PostingCommit(r, e),
         NEW t \in Txs
  PROVE  tx'[t].status = "GONE" <=> tx[t].status = "GONE"
<1>. DEFINE q == req[r]
<1>. USE DEF PostingInv
<1>1. tx'[t].status \in {tx[t].status, "POSTED", "CORRECTED"}
  BY PostingKeepsTx
<1>2. ASSUME NEW u, NEW o, WritesTx(u, o), t = u => tx[t].status = "READY_TO_POST",
             o # NoEntry => o \in Entries /\ entry[o].status = "POSTED"
      PROVE  tx[t].status = "GONE" => tx'[t].status = "GONE"
  <2>1. o # NoEntry /\ t = entry[o].source => tx[t].status = "POSTED"
    BY <1>2, LedgerConstants DEF PostingStatusAgrees, LedgerConstants
  <2>. QED  BY <1>2, <2>1 DEF WritesTx
<1>3. CASE ConfirmCommit(r, e)
  <2>1. WritesTx(q.tx, NoEntry) /\ tx[q.tx].status = "READY_TO_POST"
    BY <1>3, PostingWritesTx DEF ConfirmCommit
  <2>. QED  BY <1>1, <1>2, <2>1
<1>4. CASE ConfirmCancellationCommit(r, e)
  <2>1. /\ WritesTx(q.tx, q.entry) /\ tx[q.tx].status = "READY_TO_POST"
        /\ Posts(e, q.tx, q.entry, "REVERSED")
    BY <1>4, PostingWritesTx, PostingPosts DEF ConfirmCancellationCommit
  <2>. QED  BY <1>1, <1>2, <2>1 DEF Posts
<1>5. CASE ReverseCommit(r, e) \/ CorrectCommit(r, e)
  <2>1. WritesTx(NoTx, q.entry) /\ \E st : Posts(e, NoTx, q.entry, st)
    BY <1>5, PostingWritesTx, PostingPosts
  <2>2. t # NoTx
    BY LedgerConstants DEF LedgerConstants
  <2>. QED  BY <1>1, <1>2, <2>1, <2>2 DEF Posts
<1>. QED  BY <1>3, <1>4, <1>5 DEF PostingCommit

\* Entering, changing and deleting transactions, and the adjustments that leave
\* schedules alone.
LEMMA OtherCommitsTell ==
  ASSUME PostingInv, RepaymentsTell, NEW r \in Requests,
         \/ \E t \in Txs : CreateInsert(r, t)
         \/ UpdateCommit(r)
         \/ DeleteCommit(r)
         \/ \E e \in Entries : ConfirmCancellationCommit(r, e) \/ CorrectCommit(r, e)
  PROVE  RepaymentsTell'
<1>. USE DEF PostingInv
<1>1. SourcesKept
  <2>1. LedgerCommit(r)
    BY DEF LedgerCommit, PostingCommit
  <2>. QED  BY <2>1, LedgerSourcesKept
<1>2. tx \in [Txs -> TxRow] /\ plan \in [Txs -> PlanRow]
      /\ schedule \in [Schedules -> ScheduleRow]
  BY DEF TypeOK, LedgerRowsOK
<1>3. ASSUME NEW s \in Schedules, NEW t \in Txs, t = schedule[s].tx
      PROVE  /\ plan[t].status # "NONE" => plan'[t].status # "NONE"
             /\ tx'[t].status = "GONE" <=> tx[t].status = "GONE"
  <2>1. ASSUME NEW x \in Txs, CreateInsert(r, x)
        PROVE  plan'[t] = plan[t] /\ (tx'[t].status = "GONE" <=> tx[t].status = "GONE")
    <3>1. req[r].status \in Unposted
      BY <2>1, RequestFields DEF CreateInsert, WellFormed, TypeOK
    <3>. QED  BY <1>2, <2>1, <3>1 DEF CreateInsert, FreshTx, Unposted
  <2>2. ASSUME UpdateCommit(r)
        PROVE  plan'[t] = plan[t] /\ (tx'[t].status = "GONE" <=> tx[t].status = "GONE")
    <3>1. req[r].status \in Unposted /\ req[r].tx \in Txs
      BY <2>2, RequestFields DEF UpdateCommit, WellFormed, TypeOK
    <3>2. CASE t = req[r].tx
      <4>1. tx'[t].status = req[r].status
        BY <1>2, <2>2, <3>2 DEF UpdateCommit, TxRow
      <4>. QED  BY <2>2, <3>1, <3>2, <4>1 DEF UpdateCommit, Changeable, Unposted
    <3>3. CASE t # req[r].tx
      BY <1>2, <2>2, <3>3 DEF UpdateCommit
    <3>. QED  BY <3>2, <3>3
  <2>3. ASSUME DeleteCommit(r)
        PROVE  /\ plan[t].status # "NONE" => plan'[t].status # "NONE"
               /\ tx'[t].status = "GONE" <=> tx[t].status = "GONE"
    <3>1. t # req[r].tx
      BY <1>3, <2>3 DEF DeleteCommit, ManagedDirectly, LinkedSchedules
    <3>. QED  BY <1>2, <2>3, <3>1 DEF DeleteCommit
  <2>4. ASSUME NEW e \in Entries, ConfirmCancellationCommit(r, e) \/ CorrectCommit(r, e)
        PROVE  plan'[t] = plan[t] /\ (tx'[t].status = "GONE" <=> tx[t].status = "GONE")
    <3>1. PostingCommit(r, e)
      BY <2>4 DEF PostingCommit
    <3>. QED
      BY <2>4, <3>1, PostingKeepsGone DEF ConfirmCancellationCommit, CorrectCommit
  <2>. QED  BY <2>1, <2>2, <2>3, <2>4
<1>4. UNCHANGED schedule
  BY DEF CreateInsert, UpdateCommit, DeleteCommit, ConfirmCancellationCommit,
         CorrectCommit
<1>5. ASSUME NEW s \in Schedules PROVE RepaymentTells(s)'
  <2>1. schedule[s].tx \in Txs \cup {NoTx}
    BY <1>2 DEF ScheduleRow
  <2>2. RepaymentTells(s)
    BY DEF RepaymentsTell
  <2>3. schedule[s].tx # NoTx => plan[schedule[s].tx].status # "NONE"
    BY <2>2 DEF RepaymentTells
  <2>. QED  BY <1>1, <1>3, <1>4, <2>1, <2>2, <2>3, SameRepayment
<1>. QED  BY <1>4, <1>5 DEF RepaymentsTell

\* A schedule is told right once it has been paid by the entry of its transaction.
LEMMA PaidTells ==
  ASSUME NEW s, schedule'[s].tx # NoTx, plan'[schedule'[s].tx].status # "NONE",
         schedule'[s].status = "POSTED", schedule'[s].entry # NoEntry,
         entry'[schedule'[s].entry].source = schedule'[s].tx,
         tx'[schedule'[s].tx].status # "GONE"
  PROVE  RepaymentTells(s)'
  BY DEF RepaymentTells

\* Confirming pays the schedules linked to the transaction.
LEMMA ConfirmTells ==
  ASSUME PostingInv, RepaymentsTell, NEW r \in Requests, NEW e \in Entries,
         ConfirmCommit(r, e)
  PROVE  RepaymentsTell'
<1>. DEFINE q == req[r]
            settled == IF q.flag THEN {s \in LinkedSchedules(q.tx) :
                                            schedule[s].entry = NoEntry}
                       ELSE {}
<1>. USE DEF PostingInv
<1>1. SourcesKept /\ \A t \in Txs : tx'[t].status = "GONE" <=> tx[t].status = "GONE"
  <2>1. PostingCommit(r, e) /\ LedgerCommit(r)
    BY DEF PostingCommit, LedgerCommit
  <2>. QED  BY <2>1, LedgerSourcesKept, PostingKeepsGone
<1>2. tx \in [Txs -> TxRow] /\ plan \in [Txs -> PlanRow]
      /\ schedule \in [Schedules -> ScheduleRow]
  BY DEF TypeOK, LedgerRowsOK
<1>3. /\ q.tx \in Txs /\ e # NoEntry /\ entry'[e].source = q.tx
      /\ q.tx # NoTx
  <2>1. Posts(e, q.tx, NoEntry, "POSTED")
    BY PostingPosts
  <2>2. q.tx \in Txs
    BY RequestFields DEF ConfirmCommit, WellFormed, TypeOK
  <2>. QED
    BY <2>1, <2>2, LedgerConstants DEF Posts, Entries, NoEntry, LedgerConstants
<1>4. \A t \in Txs : plan[t].status # "NONE" => plan'[t].status # "NONE"
  BY <1>2, <1>3 DEF ConfirmCommit, PlanRow
<1>5. schedule' = [s \in Schedules |->
            IF s \in settled THEN [schedule[s] EXCEPT !.status = "POSTED", !.entry = e]
            ELSE schedule[s]]
  BY DEF ConfirmCommit
<1>6. ASSUME NEW s \in Schedules PROVE RepaymentTells(s)'
  <2>1. schedule[s] \in ScheduleRow /\ RepaymentTells(s)
    BY <1>2 DEF RepaymentsTell
  <2>2. CASE s \in settled
    <3>1. /\ schedule[s].tx = q.tx
          /\ schedule'[s] = [schedule[s] EXCEPT !.status = "POSTED", !.entry = e]
      BY <1>5, <2>2 DEF LinkedSchedules
    <3>2. schedule'[s].tx = q.tx /\ schedule'[s].status = "POSTED" /\ schedule'[s].entry = e
      BY <2>1, <3>1 DEF ScheduleRow
    <3>3. plan'[q.tx].status # "NONE"
      BY <1>3, <1>4, <2>1, <3>1 DEF RepaymentTells
    <3>4. entry'[schedule'[s].entry].source = schedule'[s].tx
      BY <1>3, <3>2
    <3>5. schedule'[s].entry # NoEntry
      BY <1>3, <3>2
    <3>6. tx'[q.tx].status # "GONE"
      BY <1>1, <1>3 DEF ConfirmCommit
    <3>. QED  BY <1>3, <3>2, <3>3, <3>4, <3>5, <3>6, PaidTells
  <2>3. CASE s \notin settled
    <3>1. schedule'[s] = schedule[s]
      BY <1>5, <2>3
    <3>2. schedule[s].tx # NoTx => schedule[s].tx \in Txs
                                   /\ plan[schedule[s].tx].status # "NONE"
      BY <2>1 DEF ScheduleRow, RepaymentTells
    <3>. QED  BY <1>1, <1>4, <2>1, <3>1, <3>2, SameRepayment
  <2>. QED  BY <2>2, <2>3
<1>. QED  BY <1>5, <1>6 DEF RepaymentsTell

\* Reversing gives back what the entry has paid.
LEMMA ReverseTells ==
  ASSUME PostingInv, RepaymentsTell, NEW r \in Requests, NEW e \in Entries,
         ReverseCommit(r, e)
  PROVE  RepaymentsTell'
<1>. DEFINE q == req[r]
            t == entry[q.entry].source
            paid == {s \in Schedules : /\ schedule[s].tx = t
                                       /\ schedule[s].status = "POSTED"
                                       /\ schedule[s].entry = q.entry}
<1>. USE DEF PostingInv
<1>1. SourcesKept /\ \A x \in Txs : tx'[x].status = "GONE" <=> tx[x].status = "GONE"
  <2>1. PostingCommit(r, e) /\ LedgerCommit(r)
    BY DEF PostingCommit, LedgerCommit
  <2>. QED  BY <2>1, LedgerSourcesKept, PostingKeepsGone
<1>2. tx \in [Txs -> TxRow] /\ plan \in [Txs -> PlanRow]
      /\ schedule \in [Schedules -> ScheduleRow] /\ entry \in [Entries -> EntryRow]
  BY DEF TypeOK, LedgerRowsOK
<1>3. q.entry \in Entries /\ t \in Txs \cup {NoTx} /\ RestorePlanning(t, q.entry)
      /\ (t # NoTx => tx[t].status # "GONE")
  <2>1. q.entry \in Entries /\ entry[q.entry].status = "POSTED"
    BY RequestFields DEF ReverseCommit, ClaimOriginal, WellFormed, TypeOK
  <2>2. RestorePlanning(t, q.entry)
    BY DEF ReverseCommit
  <2>. QED  BY <1>2, <2>1, <2>2 DEF EntryRow, PostingStatusAgrees
<1>4. CASE t = NoTx \/ plan[t].status = "NONE"
  <2>1. UNCHANGED <<plan, schedule>>
    BY <1>3, <1>4 DEF RestorePlanning
  <2>2. ASSUME NEW s \in Schedules PROVE RepaymentTells(s)'
    <3>1. schedule[s] \in ScheduleRow /\ RepaymentTells(s)
      BY <1>2 DEF RepaymentsTell
    <3>2. schedule[s].tx # NoTx => schedule[s].tx \in Txs
                                   /\ plan[schedule[s].tx].status # "NONE"
      BY <3>1 DEF ScheduleRow, RepaymentTells
    <3>. QED  BY <1>1, <2>1, <3>1, <3>2, SameRepayment
  <2>. QED  BY <2>1, <2>2 DEF RepaymentsTell
<1>5. CASE t # NoTx /\ plan[t].status # "NONE"
  <2>1. /\ plan' = [plan EXCEPT ![t].status = IF @ = "CONFIRMED" THEN "MATCHED" ELSE @]
        /\ schedule' = [s \in Schedules |-> IF s \in paid
                THEN [schedule[s] EXCEPT !.status = "MATCHED", !.entry = NoEntry]
                ELSE schedule[s]]
    BY <1>3, <1>5 DEF RestorePlanning
  <2>2. \A x \in Txs : plan[x].status # "NONE" => plan'[x].status # "NONE"
    BY <1>2, <2>1 DEF PlanRow
  <2>3. ASSUME NEW s \in Schedules PROVE RepaymentTells(s)'
    <3>1. schedule[s] \in ScheduleRow /\ RepaymentTells(s)
      BY <1>2 DEF RepaymentsTell
    <3>2. schedule[s].tx # NoTx => schedule[s].tx \in Txs
                                   /\ plan[schedule[s].tx].status # "NONE"
      BY <3>1 DEF ScheduleRow, RepaymentTells
    <3>3. CASE s \in paid
      <4>1. /\ schedule[s].tx = t
            /\ schedule'[s] = [schedule[s] EXCEPT !.status = "MATCHED", !.entry = NoEntry]
        BY <2>1, <3>3
      <4>2. /\ schedule'[s].tx = t /\ schedule'[s].status = "MATCHED"
            /\ schedule'[s].entry = NoEntry
        BY <3>1, <4>1 DEF ScheduleRow
      <4>3. plan'[t].status # "NONE" /\ tx'[t].status # "GONE"
        BY <1>1, <1>3, <1>5, <2>2
      <4>. QED  BY <4>2, <4>3 DEF RepaymentTells
    <3>4. CASE s \notin paid
      <4>1. schedule'[s] = schedule[s]
        BY <2>1, <3>4
      <4>. QED  BY <1>1, <2>2, <3>1, <3>2, <4>1, SameRepayment
    <3>. QED  BY <3>3, <3>4
  <2>. QED  BY <2>1, <2>3 DEF RepaymentsTell
<1>. QED  BY <1>4, <1>5

\* A schedule that nothing has paid is told right by its item and transaction.
LEMMA UnpaidTells ==
  ASSUME NEW s, schedule'[s].entry = NoEntry,
         schedule'[s].tx # NoTx =>
            /\ plan'[schedule'[s].tx].status # "NONE"
            /\ IF tx'[schedule'[s].tx].status = "GONE"
               THEN schedule'[s].status = "PLANNED"
               ELSE schedule'[s].status = "MATCHED"
  PROVE  RepaymentTells(s)'
  BY DEF RepaymentTells

\* A row that takes over an item takes its schedules along.
LEMMA CollectTells ==
  ASSUME PostingInv, Current, RepaymentsTell, NEW r \in Requests, NEW t \in Txs,
         CollectRowInsert(r, t)
  PROVE  RepaymentsTell'
<1>. DEFINE q == req[r]
<1>. USE DEF PostingInv
<1>1. SourcesKept
  <2>1. LedgerCommit(r)
    BY DEF LedgerCommit
  <2>. QED  BY <2>1, LedgerSourcesKept
<1>2. tx \in [Txs -> TxRow] /\ plan \in [Txs -> PlanRow]
      /\ schedule \in [Schedules -> ScheduleRow]
  BY DEF TypeOK, LedgerRowsOK
<1>3. /\ q.tx \in Txs \cup {NoTx} /\ q.status \in Unposted
      /\ q.tx # NoTx => tx[q.tx].status = "GONE"
  <2>1. q.at = "collectRowInsert" /\ q \in Request /\ WellFormed(q) /\ Upheld(q)
    BY RequestFields DEF CollectRowInsert, Current, TypeOK, RequestsOK
  <2>. QED  BY <2>1 DEF Request, WellFormed, Upheld
<1>4. /\ tx[t].status = "ABSENT" /\ tx'[t].status \in Unposted
      /\ \A x \in Txs \ {t} : tx'[x] = tx[x]
  BY <1>2, <1>3 DEF CollectRowInsert, FreshTx
<1>5. \A x \in Txs : tx'[x].status = "GONE" <=> tx[x].status = "GONE"
  BY <1>4 DEF Unposted
<1>6. CASE q.tx = NoTx
  <2>1. UNCHANGED <<plan, schedule>>
    BY <1>6 DEF CollectRowInsert
  <2>2. ASSUME NEW s \in Schedules PROVE RepaymentTells(s)'
    <3>1. RepaymentTells(s) /\ schedule[s].tx \in Txs \cup {NoTx}
      BY <1>2 DEF RepaymentsTell, ScheduleRow
    <3>2. schedule[s].tx # NoTx => plan[schedule[s].tx].status # "NONE"
      BY <3>1 DEF RepaymentTells
    <3>. QED  BY <1>1, <1>5, <2>1, <3>1, <3>2, SameRepayment
  <2>. QED  BY <2>2 DEF RepaymentsTell
<1>7. CASE q.tx # NoTx
  <2>1. /\ plan'[t].status = "MATCHED"
        /\ \A x \in Txs \ {t, q.tx} : plan'[x] = plan[x]
        /\ \A s \in Schedules : schedule'[s] =
              IF schedule[s].tx = q.tx
              THEN [schedule[s] EXCEPT !.tx = t,
                      !.status = IF @ \in {"SCHEDULED", "PLANNED"}
                                 THEN "MATCHED" ELSE @]
              ELSE schedule[s]
    <3>1. MatchPlan(q.tx, t, plan[q.tx].month)
      BY <1>7 DEF CollectRowInsert
    <3>. QED  BY <3>1 DEF MatchPlan
  <2>2. ASSUME NEW s \in Schedules PROVE RepaymentTells(s)'
    <3>1. RepaymentTells(s) /\ schedule[s] \in ScheduleRow
      BY <1>2 DEF RepaymentsTell
    <3>2. CASE schedule[s].tx = q.tx
      <4>1. schedule[s].entry = NoEntry
        BY <1>3, <1>7, <3>1, <3>2, UnpostedPaysNothing
      <4>2. schedule[s].status = "PLANNED"
        BY <1>3, <1>7, <3>1, <3>2, <4>1 DEF RepaymentTells
      <4>3. /\ schedule'[s].tx = t /\ schedule'[s].status = "MATCHED"
            /\ schedule'[s].entry = NoEntry
        BY <2>1, <3>1, <3>2, <4>1, <4>2 DEF ScheduleRow
      <4>. QED  BY <1>4, <2>1, <4>3, UnpaidTells DEF Unposted
    <3>3. CASE schedule[s].tx # q.tx
      <4>1. schedule'[s] = schedule[s]
        BY <2>1, <3>3
      <4>2. schedule[s].tx # NoTx => schedule[s].tx \in Txs
                                     /\ plan[schedule[s].tx].status # "NONE"
        BY <3>1 DEF ScheduleRow, RepaymentTells
      <4>3. schedule[s].tx # NoTx => plan'[schedule[s].tx].status # "NONE"
        BY <2>1, <3>3, <4>2
      <4>. QED  BY <1>1, <1>5, <3>1, <4>1, <4>2, <4>3, SameRepayment
    <3>. QED  BY <3>2, <3>3
  <2>. QED  BY <2>2 DEF RepaymentsTell
<1>. QED  BY <1>6, <1>7

\* A row absorbed by the planned transaction changes nothing for its schedule.
LEMMA AbsorbTells ==
  ASSUME PostingInv, RepaymentsTell, NEW r \in Requests, CollectRowAbsorb(r)
  PROVE  RepaymentsTell'
<1>. DEFINE q == req[r]
<1>. USE DEF PostingInv
<1>1. SourcesKept
  <2>1. LedgerCommit(r)
    BY DEF LedgerCommit
  <2>. QED  BY <2>1, LedgerSourcesKept
<1>2. tx \in [Txs -> TxRow] /\ plan \in [Txs -> PlanRow]
      /\ schedule \in [Schedules -> ScheduleRow]
  BY DEF TypeOK, LedgerRowsOK
<1>3. q.tx \in Txs /\ q.status \in Unposted /\ tx[q.tx].status \in Unposted
  BY RequestFields DEF CollectRowAbsorb, WellFormed, TypeOK
<1>4. tx'[q.tx].status = q.status /\ \A x \in Txs \ {q.tx} : tx'[x] = tx[x]
  BY <1>2, <1>3 DEF CollectRowAbsorb, TxRow
<1>5. \A x \in Txs : tx'[x].status = "GONE" <=> tx[x].status = "GONE"
  BY <1>3, <1>4 DEF Unposted
<1>6. /\ plan'[q.tx].status = "MATCHED"
      /\ \A x \in Txs \ {q.tx} : plan'[x] = plan[x]
      /\ \A s \in Schedules : schedule'[s] =
            IF schedule[s].tx = q.tx
            THEN [schedule[s] EXCEPT !.tx = q.tx,
                    !.status = IF @ \in {"SCHEDULED", "PLANNED"}
                               THEN "MATCHED" ELSE @]
            ELSE schedule[s]
  BY <1>3 DEF CollectRowAbsorb, MatchPlan
<1>7. ASSUME NEW s \in Schedules PROVE RepaymentTells(s)'
  <2>1. RepaymentTells(s) /\ schedule[s] \in ScheduleRow
    BY <1>2 DEF RepaymentsTell
  <2>2. CASE schedule[s].tx = q.tx
    <3>1. q.tx # NoTx /\ tx[q.tx].status \notin {"GONE", "POSTED", "CORRECTED"}
      BY <1>3, LedgerConstants DEF LedgerConstants, Unposted
    <3>2. schedule[s].entry = NoEntry
      BY <2>1, <2>2, <3>1, UnpostedPaysNothing
    <3>3. schedule[s].status = "MATCHED"
      BY <2>1, <2>2, <3>1, <3>2 DEF RepaymentTells
    <3>4. /\ schedule'[s].tx = q.tx /\ schedule'[s].status = "MATCHED"
          /\ schedule'[s].entry = NoEntry
      BY <1>6, <2>1, <2>2, <3>2, <3>3 DEF ScheduleRow
    <3>. QED  BY <1>3, <1>4, <1>6, <3>4, UnpaidTells DEF Unposted
  <2>3. CASE schedule[s].tx # q.tx
    <3>1. schedule'[s] = schedule[s]
      BY <1>6, <2>3
    <3>2. schedule[s].tx # NoTx => schedule[s].tx \in Txs
                                   /\ plan[schedule[s].tx].status # "NONE"
      BY <2>1 DEF ScheduleRow, RepaymentTells
    <3>3. schedule[s].tx # NoTx => plan'[schedule[s].tx].status # "NONE"
      BY <1>6, <2>3, <3>2
    <3>. QED  BY <1>1, <1>5, <2>1, <3>1, <3>2, <3>3, SameRepayment
  <2>. QED  BY <2>2, <2>3
<1>. QED  BY <1>7 DEF RepaymentsTell

\* Cancelling an upload plans its schedules again.
LEMMA CancelTells ==
  ASSUME PostingInv, RepaymentsTell, NEW r \in Requests, CancelCollectionCommit(r)
  PROVE  RepaymentsTell'
<1>. DEFINE q == req[r]
<1>. USE DEF PostingInv
<1>1. SourcesKept
  <2>1. LedgerCommit(r)
    BY DEF LedgerCommit
  <2>. QED  BY <2>1, LedgerSourcesKept
<1>2. tx \in [Txs -> TxRow] /\ plan \in [Txs -> PlanRow]
      /\ schedule \in [Schedules -> ScheduleRow]
  BY DEF TypeOK, LedgerRowsOK
<1>3. q.txs \subseteq Txs /\ \A t \in q.txs : tx[t].status \in Unposted
  BY RequestFields DEF CancelCollectionCommit, Request, TypeOK
<1>4. \A x \in Txs : IF x \in q.txs THEN tx'[x].status = "GONE" ELSE tx'[x] = tx[x]
  BY DEF CancelCollectionCommit, NoTxRow
<1>5. \A x \in Txs : plan[x].status # "NONE" => plan'[x].status # "NONE"
  BY <1>2 DEF CancelCollectionCommit, PlanRow
<1>6. \A s \in Schedules : schedule'[s] =
            IF /\ schedule[s].tx \in q.txs /\ plan[schedule[s].tx].status # "NONE"
               /\ schedule[s].status = "MATCHED"
            THEN [schedule[s] EXCEPT !.status = "PLANNED"]
            ELSE schedule[s]
  BY DEF CancelCollectionCommit
<1>7. ASSUME NEW s \in Schedules PROVE RepaymentTells(s)'
  <2>1. RepaymentTells(s) /\ schedule[s] \in ScheduleRow
    BY <1>2 DEF RepaymentsTell
  <2>2. schedule[s].tx # NoTx => schedule[s].tx \in Txs
                                 /\ plan[schedule[s].tx].status # "NONE"
    BY <2>1 DEF ScheduleRow, RepaymentTells
  <2>3. CASE schedule[s].tx \in q.txs
    <3>1. /\ schedule[s].tx # NoTx
          /\ tx[schedule[s].tx].status \notin {"GONE", "POSTED", "CORRECTED"}
      BY <1>3, <2>3, LedgerConstants DEF LedgerConstants, Unposted
    <3>2. schedule[s].entry = NoEntry
      BY <2>1, <3>1, UnpostedPaysNothing
    <3>3. schedule[s].status = "MATCHED"
      BY <2>1, <3>1, <3>2 DEF RepaymentTells
    <3>4. schedule'[s] = [schedule[s] EXCEPT !.status = "PLANNED"]
      BY <1>6, <2>2, <2>3, <3>1, <3>3
    <3>5. /\ schedule'[s].tx = schedule[s].tx /\ schedule'[s].status = "PLANNED"
          /\ schedule'[s].entry = NoEntry
      BY <2>1, <3>2, <3>4 DEF ScheduleRow
    <3>6. tx'[schedule'[s].tx].status = "GONE" /\ plan'[schedule'[s].tx].status # "NONE"
      BY <1>4, <1>5, <2>2, <2>3, <3>1, <3>5
    <3>. QED  BY <3>5, <3>6, UnpaidTells
  <2>4. CASE schedule[s].tx \notin q.txs
    <3>1. schedule'[s] = schedule[s]
      BY <1>6, <2>4
    <3>2. schedule[s].tx # NoTx => tx'[schedule[s].tx] = tx[schedule[s].tx]
      BY <1>4, <2>2, <2>4
    <3>. QED  BY <1>1, <1>5, <2>1, <2>2, <3>1, <3>2, SameRepayment
  <2>. QED  BY <2>3, <2>4
<1>. QED  BY <1>7 DEF RepaymentsTell

\* Generating a repayment links a schedule that had no link, and the form
\* changes the status of such a schedule only.
LEMMA LiabilityTells ==
  ASSUME PostingInv, Current, RepaymentsTell, NEW r \in Requests,
         (\E t \in Txs : RepaymentCommit(r, t)) \/ UpdateRepaymentCommit(r)
  PROVE  RepaymentsTell'
<1>. DEFINE q == req[r]
<1>. USE DEF PostingInv
<1>1. SourcesKept
  <2>1. LedgerCommit(r)
    BY DEF LedgerCommit
  <2>. QED  BY <2>1, LedgerSourcesKept
<1>2. tx \in [Txs -> TxRow] /\ plan \in [Txs -> PlanRow]
      /\ schedule \in [Schedules -> ScheduleRow]
  BY DEF TypeOK, LedgerRowsOK
<1>3. PICK c \in Schedules : q.schedule = c /\ schedule[c].tx = NoTx
  <2>1. /\ q.at \in {"repaymentCommit", "updateRepaymentCommit"}
        /\ WellFormed(q) /\ Upheld(q)
    BY RequestFields DEF RepaymentCommit, UpdateRepaymentCommit, Current, TypeOK
  <2>. QED  BY <2>1 DEF WellFormed, Upheld
<1>4. schedule[c].entry = NoEntry
  BY <1>3 DEF RepaymentsTell, RepaymentTells
<1>5. ASSUME NEW s \in Schedules, s # c, schedule'[s] = schedule[s],
             \A x \in Txs : plan[x].status # "NONE" => plan'[x].status # "NONE",
             \A x \in Txs : tx'[x].status = "GONE" <=> tx[x].status = "GONE"
      PROVE  RepaymentTells(s)'
  <2>1. RepaymentTells(s) /\ schedule[s] \in ScheduleRow
    BY <1>2 DEF RepaymentsTell
  <2>2. schedule[s].tx # NoTx => schedule[s].tx \in Txs
                                 /\ plan[schedule[s].tx].status # "NONE"
    BY <2>1 DEF ScheduleRow, RepaymentTells
  <2>. QED  BY <1>1, <1>5, <2>1, <2>2, SameRepayment
<1>6. ASSUME NEW t \in Txs, RepaymentCommit(r, t) PROVE RepaymentsTell'
  <2>1. /\ tx[t].status = "ABSENT" /\ tx'[t].status = "READY_TO_POST"
        /\ \A x \in Txs \ {t} : tx'[x] = tx[x]
        /\ plan'[t].status = "MATCHED" /\ \A x \in Txs \ {t} : plan'[x] = plan[x]
    BY <1>2, <1>6 DEF RepaymentCommit, FreshTx, NoTxRow
  <2>2. /\ schedule'[c].tx = t /\ schedule'[c].status = "MATCHED"
        /\ schedule'[c].entry = NoEntry
        /\ \A s \in Schedules \ {c} : schedule'[s] = schedule[s]
    BY <1>2, <1>3, <1>4, <1>6 DEF RepaymentCommit, ScheduleRow
  <2>3. RepaymentTells(c)'
    BY <2>1, <2>2, UnpaidTells
  <2>4. /\ \A x \in Txs : plan[x].status # "NONE" => plan'[x].status # "NONE"
        /\ \A x \in Txs : tx'[x].status = "GONE" <=> tx[x].status = "GONE"
    BY <2>1
  <2>. QED  BY <1>5, <2>2, <2>3, <2>4 DEF RepaymentsTell
<1>7. ASSUME UpdateRepaymentCommit(r) PROVE RepaymentsTell'
  <2>1. UNCHANGED <<tx, plan>>
    BY <1>7 DEF UpdateRepaymentCommit
  <2>2. /\ schedule'[c].tx = NoTx /\ schedule'[c].entry = NoEntry
        /\ \A s \in Schedules \ {c} : schedule'[s] = schedule[s]
    BY <1>2, <1>3, <1>4, <1>7 DEF UpdateRepaymentCommit, ScheduleRow
  <2>3. RepaymentTells(c)'
    BY <2>2, UnpaidTells
  <2>. QED  BY <1>5, <2>1, <2>2, <2>3 DEF RepaymentsTell
<1>. QED  BY <1>6, <1>7

LEMMA NextRepaymentsTell ==
  ASSUME PostingInv, Current, RepaymentsTell, [Next]_vars
  PROVE  RepaymentsTell'
<1>1. CASE UNCHANGED ledgerVars
  BY <1>1 DEF RepaymentsTell, RepaymentTells, ledgerVars
<1>2. ASSUME NEW r \in Requests, LedgerCommit(r) PROVE RepaymentsTell'
  BY <1>2, OtherCommitsTell, ConfirmTells, ReverseTells, CollectTells, AbsorbTells,
     CancelTells, LiabilityTells DEF LedgerCommit, PostingCommit
<1>3. TypeOK
  BY DEF PostingInv
<1>. QED  BY <1>1, <1>2, <1>3, LedgerWriters

LEMMA SpecRepaymentsTell ==
  ASSUME OneAtATime
  PROVE  Spec => []RepaymentsTell
<1>. DEFINE Inv == PeriodInv /\ PostingInv /\ Current /\ RepaymentsTell
<1>1. Init => Inv
  BY InitInv, InitPostingInv, InitCurrent
     DEF Init, RepaymentsTell, RepaymentTells, NewSchedule
<1>2. Inv /\ [Next]_vars => Inv'
  BY NextInv, NextPostingInv, NextCurrent, NextRepaymentsTell
<1>. QED  BY <1>1, <1>2, PTL DEF Spec

\* One operation after the other, a schedule that has an entry counts as paid,
\* by the entry of the very transaction it is linked to.
THEOREM RepaymentsSettled ==
  ASSUME OneAtATime
  PROVE  Spec => []RepaymentSettledByItsEntry
<1>1. RepaymentsTell => RepaymentSettledByItsEntry
  BY DEF RepaymentsTell, RepaymentTells, RepaymentSettledByItsEntry
<1>. QED  BY <1>1, SpecRepaymentsTell, PTL

\* One operation after the other, the status kept with a schedule is the one
\* its links say.
THEOREM RepaymentStatusKept ==
  ASSUME OneAtATime
  PROVE  Spec => []RepaymentStatusFollowsLinks
<1>1. RepaymentsTell => RepaymentStatusFollowsLinks
  BY DEF RepaymentsTell, RepaymentTells, RepaymentStatusFollowsLinks
<1>. QED  BY <1>1, SpecRepaymentsTell, PTL

-----------------------------------------------------------------------------
(* Statements and the closing snapshot *)

\* A locked month gets no entry, and its entries can only be adjusted.
LEMMA LockedEntries ==
  ASSUME NumberInv, Current, [Next]_vars, NEW m \in Months,
         period[m].status = "LOCKED"
  PROVE  EntriesOf(m)' = EntriesOf(m) /\ PostedOf(m)' \subseteq PostedOf(m)
<1>1. CASE UNCHANGED entry
  BY <1>1 DEF EntriesOf, PostedOf
<1>2. ASSUME NEW r \in Requests, NEW e \in Entries, PostingCommit(r, e)
      PROVE  EntriesOf(m)' = EntriesOf(m) /\ PostedOf(m)' \subseteq PostedOf(m)
  <2>. DEFINE n == req[r].month
  <2>1. n \in Months /\ Appended(n, e)
    BY <1>2, PostingAppends
  <2>2. period[n].status \in JournalWritable /\ \A k \in Months \ {n} : SameMonth(k)
    BY <2>1, AppendedMonths
  <2>3. EntriesOf(m)' = EntriesOf(m)
    BY <2>2 DEF JournalWritable, SameMonth
  <2>4. PICK u, o, st : Posts(e, u, o, st)
    BY <1>2, SomePosting DEF NumberInv
  <2>5. ASSUME NEW k \in PostedOf(m)' PROVE k \in PostedOf(m)
    <3>1. k \in Entries /\ k \in EntriesOf(m) /\ entry'[k].status = "POSTED"
      BY <2>3, <2>5 DEF PostedOf, EntriesOf
    <3>2. k # e
      BY <2>4, <3>1 DEF Posts, EntriesOf, EntryLive
    <3>3. k # o => entry'[k] = entry[k]
      BY <2>4, <3>1, <3>2 DEF Posts
    <3>4. k = o => entry[k].status = "POSTED"
      BY <2>4, <3>1 DEF Posts, Entries, NoEntry
    <3>. QED  BY <3>1, <3>3, <3>4 DEF PostedOf
  <2>. QED  BY <2>3, <2>5
<1>3. TypeOK
  BY DEF NumberInv
<1>. QED  BY <1>1, <1>2, <1>3, EntriesArePosted, CurrentTakesNothing

\* The closing snapshot of a locked month has every entry of the month that
\* is still posted, and the statements agree with it.
Sealed(m) ==
    /\ period[m].status = "LOCKED" => PostedOf(m) \subseteq closing[m].entries
    /\ fs[m].exists =>
        /\ period[m].status = "LOCKED"
        /\ fs[m].entries = closing[m].entries
        /\ fs[m].posted \subseteq EntriesOf(m) \cap fs[m].entries
        /\ \A e \in (EntriesOf(m) \cap fs[m].entries) \ fs[m].posted :
                entry[e].status # "POSTED"

\* It stays so while the month and its snapshots stay what they are.
LEMMA SealedKept ==
  ASSUME NumberInv, Current, [Next]_vars, NEW m \in Months, Sealed(m),
         period'[m].status = period[m].status,
         closing'[m] = closing[m], fs'[m] = fs[m]
  PROVE  Sealed(m)'
<1>1. CASE period[m].status = "LOCKED"
  <2>1. EntriesOf(m)' = EntriesOf(m) /\ PostedOf(m)' \subseteq PostedOf(m)
    BY <1>1, LockedEntries
  <2>2. \A e \in EntriesOf(m) : entry[e].status # "POSTED" => entry'[e].status # "POSTED"
    BY <2>1 DEF PostedOf
  <2>. QED  BY <2>1, <2>2 DEF Sealed
<1>2. CASE period[m].status # "LOCKED"
  BY <1>2 DEF Sealed
<1>. QED  BY <1>1, <1>2

\* What is not locked and has no statements has nothing to agree.
LEMMA UnlockedSealed ==
  ASSUME NEW m, period'[m].status # "LOCKED", ~ fs'[m].exists
  PROVE  Sealed(m)'
  BY DEF Sealed

LEMMA NextSealed ==
  ASSUME PeriodInv, NumberInv, Current, \A m \in Months : Sealed(m), [Next]_vars
  PROVE  \A m \in Months : Sealed(m)'
<1>. USE DEF PeriodInv
<1>1. CASE MonthsKept
  BY <1>1, SealedKept DEF MonthsKept
<1>2. /\ period \in [Months -> PeriodRow] /\ closing \in [Months -> ClosingRow]
      /\ fs \in [Months -> StatementRow]
  BY DEF TypeOK, PeriodRowsOK
<1>3. ASSUME NEW n \in Months, period[n].status = "NONE",
             period' = [period EXCEPT ![n] = NewPeriod], UNCHANGED <<closing, fs>>
      PROVE  \A m \in Months : Sealed(m)'
  <2>1. /\ period'[n].status # "LOCKED" /\ ~ fs'[n].exists
        /\ \A m \in Months \ {n} : period'[m] = period[m]
    BY <1>2, <1>3 DEF NewPeriod, Sealed
  <2>. QED  BY <1>3, <2>1, SealedKept, UnlockedSealed
<1>4. ASSUME NEW r \in Requests, OpenCommit(r) \/ CarryCommit(r)
             \/ (req[r].flag /\ \E t \in Txs : CollectRowInsert(r, t))
      PROVE  \A m \in Months : Sealed(m)'
  <2>1. CASE UNCHANGED <<period, closing, fs>>
    BY <2>1, SealedKept
  <2>2. CASE ~ UNCHANGED <<period, closing, fs>>
    <3>1. PICK n \in Months : /\ period[n].status = "NONE"
                              /\ period' = [period EXCEPT ![n] = NewPeriod]
      BY <1>4, <2>2, RequestFields
         DEF OpenCommit, CarryCommit, CollectRowInsert, WellFormed, TypeOK, Existing
    <3>2. UNCHANGED <<closing, fs>>
      BY <1>4 DEF OpenCommit, CarryCommit, CollectRowInsert
    <3>. QED  BY <1>3, <3>1, <3>2
  <2>. QED  BY <2>1, <2>2
<1>5. ASSUME NEW r \in Requests, CloseCommit(r) PROVE \A m \in Months : Sealed(m)'
  <2>1. PICK n \in Months : n = req[r].month
    BY <1>5, RequestFields DEF CloseCommit, WellFormed, TypeOK
  <2>2. /\ closing' = [closing EXCEPT ![n] = [exists |-> TRUE, entries |-> req[r].entries]]
        /\ period' = [period EXCEPT ![n].status = "LOCKED"]
        /\ UNCHANGED <<fs, ledgerVars>> /\ ~ closing[n].exists
    BY <1>5, <2>1 DEF CloseCommit
  <2>3. PostedOf(n) \subseteq req[r].entries
    BY <1>5, <2>1 DEF CloseCommit, Current, Upheld
  <2>4. ~ fs[n].exists
    BY <2>2 DEF Sealed, LockedIffClosed
  <2>5. Sealed(n)'
    BY <1>2, <2>2, <2>3, <2>4 DEF Sealed, PostedOf, EntriesOf, ledgerVars
  <2>6. \A m \in Months \ {n} : Sealed(m)'
    BY <1>2, <2>2, SealedKept
  <2>. QED  BY <2>5, <2>6
<1>6. ASSUME NEW r \in Requests, ReopenCommit(r) PROVE \A m \in Months : Sealed(m)'
  <2>1. PICK n \in Months : n = req[r].month /\ (req[r].flag => n + 1 \in Months)
    BY <1>6, RequestFields DEF ReopenCommit, WellFormed, TypeOK
  <2>2. \A m \in Months :
          \/ period'[m].status # "LOCKED" /\ ~ fs'[m].exists
          \/ period'[m] = period[m] /\ closing'[m] = closing[m] /\ fs'[m] = fs[m]
    <3>1. /\ \A m \in Months : fs'[m] = IF m = n \/ (req[r].flag /\ m = n + 1)
                                         THEN NoStatement ELSE fs[m]
          /\ \A m \in Months \ {n} : closing'[m] = closing[m]
      BY <1>2, <1>6, <2>1 DEF ReopenCommit, DeleteSnapshots
    <3>2. CASE req[r].flag
      <4>1. period' = [period EXCEPT ![n].status = "OPEN", ![n + 1] = NoPeriod]
        BY <1>6, <2>1, <3>2 DEF ReopenCommit
      <4>2. n + 1 \in Months /\ n + 1 # n
        BY <2>1, <3>2 DEF Months
      <4>3. /\ period'[n].status = "OPEN" /\ period'[n + 1].status = "NONE"
            /\ \A m \in Months \ {n, n + 1} : period'[m] = period[m]
        BY <1>2, <4>1, <4>2 DEF NoPeriod, PeriodRow
      <4>. QED  BY <3>1, <3>2, <4>3 DEF NoStatement
    <3>3. CASE ~ req[r].flag
      <4>1. period' = [period EXCEPT ![n].status = "OPEN"]
        BY <1>6, <2>1, <3>3 DEF ReopenCommit
      <4>2. /\ period'[n].status = "OPEN"
            /\ \A m \in Months \ {n} : period'[m] = period[m]
        BY <1>2, <4>1 DEF PeriodRow
      <4>. QED  BY <3>1, <3>3, <4>2 DEF NoStatement
    <3>. QED  BY <3>2, <3>3
  <2>. QED  BY <2>2, SealedKept, UnlockedSealed
<1>7. ASSUME NEW r \in Requests, CancelCarryCommit(r)
      PROVE  \A m \in Months : Sealed(m)'
  BY <1>7, SealedKept DEF CancelCarryCommit
<1>8. ASSUME NEW r \in Requests, StatementsCommit(r)
      PROVE  \A m \in Months : Sealed(m)'
  <2>1. PICK n \in Months : n = req[r].month
    BY <1>8, RequestFields DEF StatementsCommit, WellFormed, TypeOK
  <2>2. /\ period[n].status = "LOCKED"
        /\ fs' = [fs EXCEPT ![n] = [exists |-> TRUE, entries |-> closing[n].entries,
                                    posted |-> PostedOf(n)]]
        /\ UNCHANGED <<period, closing, ledgerVars>>
    BY <1>8, <2>1 DEF StatementsCommit, Current, Upheld
  <2>3. PostedOf(n) \subseteq closing[n].entries
    BY <2>2 DEF Sealed
  <2>4. Sealed(n)'
    BY <1>2, <2>2, <2>3 DEF Sealed, PostedOf, EntriesOf, ledgerVars
  <2>5. \A m \in Months \ {n} : Sealed(m)'
    BY <1>2, <2>2, SealedKept
  <2>. QED  BY <2>4, <2>5
<1>. QED
  BY <1>1, <1>4, <1>5, <1>6, <1>7, <1>8, MonthWriters DEF MonthCommit

\* One operation after the other, statements exist for locked months only,
\* tell the closing balances, and their cash flow lacks the entries only that
\* have been adjusted since the close.
THEOREM StatementsAsClosed ==
  ASSUME OneAtATime
  PROVE  Spec => []StatementsMatchClosing
<1>. DEFINE Inv == /\ PeriodInv /\ NumberInv /\ Current
                   /\ \A m \in Months : Sealed(m)
<1>1. Init => Inv
  BY InitInv, InitNumbers, InitCurrent DEF Init, Sealed, NoPeriod, NoStatement
<1>2. Inv /\ [Next]_vars => Inv'
  <2>1. Months' = Months
    BY DEF Months
  <2>. QED  BY <2>1, NextInv, NextNumbers, NextCurrent, NextSealed
<1>3. Inv => StatementsMatchClosing
  BY DEF Sealed, StatementsMatchClosing
<1>. QED  BY <1>1, <1>2, <1>3, PTL DEF Spec

-----------------------------------------------------------------------------
(* What holds without reopening for requests that overlap, with it for one   *)
(* at a time                                                                 *)

\* While one transaction is updated no other is being confirmed.
LEMMA AloneUpdates ==
  ASSUME OneAtATime
  PROVE  UpdatesAlone
  BY DEF OneAtATime, UpdatesAlone

\* One operation after the other, reopenings and rollbacks included, each
\* reversed entry has its one reversal, each superseded one its correction,
\* and no other entry is referred to.
THEOREM AdjustmentsExactInTurn ==
  ASSUME OneAtATime
  PROVE  Spec => []AdjustedOnce
<1>. DEFINE Inv == PeriodInv /\ Current /\ Lineage /\ AdjustmentsStand
<1>1. Init => Inv
  BY InitInv, InitCurrent, InitLineage DEF Init, AdjustmentsStand, NoEntryRow
<1>2. Inv /\ [Next]_vars => Inv'
  BY NextInv, NextCurrent, CurrentTakesNothing, NextLineage, NextAdjustmentsStand
     DEF PeriodInv
<1>3. Inv => AdjustedOnce
  BY StandsExact DEF PeriodInv
<1>. QED  BY <1>1, <1>2, <1>3, PTL DEF Spec

\* So has each transaction that counts as posted its one entry, and no other
\* has any.
THEOREM PostedOnceInTurn ==
  ASSUME OneAtATime
  PROVE  Spec => []PostedByOneEntry
<1>. DEFINE Inv == /\ PeriodInv /\ Current
                   /\ PostingInv /\ MatchedRows /\ PostedHaveEntry
<1>1. Init => Inv
  BY InitInv, InitCurrent, InitPostingInv, InitMatchedRows
     DEF Init, PostedHaveEntry, NoTxRow
<1>2. Inv /\ [Next]_vars => Inv'
  BY NextInv, NextCurrent, CurrentTakesNothing, NextPostingInv, NextMatchedRows,
     NextPostedHaveEntry DEF PostingInv
<1>3. Inv => PostedByOneEntry
  BY HaveOneEntry
<1>. QED  BY <1>1, <1>2, <1>3, PTL DEF Spec

\* So does each plan item tell what has become of its transaction.
THEOREM PlansFollowInTurn ==
  ASSUME OneAtATime
  PROVE  Spec => []PlanFollowsTransaction
<1>. DEFINE Inv == PeriodInv /\ Current /\ PlanInv
<1>1. Init => Inv
  BY InitInv, InitCurrent, InitPlanInv
<1>2. Inv /\ [Next]_vars => Inv'
  BY NextInv, NextCurrent, CurrentTakesNothing, NextPlanInv DEF PeriodInv
<1>3. Inv => PlanFollowsTransaction
  BY DEF PlanInv
<1>. QED  BY <1>1, <1>2, <1>3, PTL DEF Spec

\* And a posted card cancellation has reversed the entry of its approval, and
\* nothing else that was confirmed has reversed anything, although updates
\* turn transactions into cancellations and back in between.
THEOREM CancellationsReverseInTurn ==
  ASSUME OneAtATime
  PROVE  Spec => []CancellationReversesApproval
<1>. DEFINE Inv == PeriodInv /\ Current /\ KindInv
<1>1. Init => Inv
  BY InitInv, InitCurrent, InitKindInv
<1>2. Inv /\ [Next]_vars => Inv'
  BY NextInv, NextCurrent, CurrentTakesNothing, AloneUpdates, NextKindInv
     DEF PeriodInv
<1>. QED  BY <1>1, <1>2, KindsReverse, PTL DEF Spec

-----------------------------------------------------------------------------
(* The months in a row, where none of them has been skipped                  *)

\* One month is open for business at a time: "one latest month in progress is
\* allowed" (the open lifecycle, where it turns down a month before the latest
\* one is closed).
OneMonthOpen ==
    \A m, k \in Existing :
        period[m].status # "LOCKED" /\ period[k].status # "LOCKED" => m = k

\* No month is left out between two that exist.  Opening does not ask for that.
NoMonthSkipped ==
    \A m, n, k \in Months : m < n /\ n < k /\ m \in Existing /\ k \in Existing
        => n \in Existing

\* Only the latest month is open.
LatestOpen == \A m, k \in Existing : m < k => period[m].status = "LOCKED"

\* A month that comes after the latest one finds all of them locked.
LEMMA NextMonthOpened ==
  ASSUME TypeOK, LatestOpen, NEW n \in Months,
         \A k \in Existing : /\ k < n
                             /\ IsLatest(k, Existing) => period[k].status = "LOCKED",
         period' = [period EXCEPT ![n] = NewPeriod]
  PROVE  LatestOpen'
<1>1. period \in [Months -> PeriodRow] /\ Months \subseteq Nat
  BY DEF TypeOK, PeriodRowsOK, Months
<1>2. /\ period'[n].status # "NONE"
      /\ \A k \in Months \ {n} : period'[k] = period[k]
  BY <1>1 DEF NewPeriod
<1>3. ASSUME NEW m \in Existing', NEW k \in Existing', m < k
      PROVE  period'[m].status = "LOCKED"
  <2>1. m \in Months /\ k \in Months
    BY DEF Existing, Months
  <2>2. m # n
    <3>1. k # n => k < n
      BY <1>2, <2>1 DEF Existing
    <3>2. k \in Nat /\ n \in Nat
      BY <1>1, <2>1
    <3>. QED  BY <1>3, <3>1, <3>2
  <2>3. m \in Existing /\ period'[m] = period[m]
    BY <1>2, <2>1, <2>2 DEF Existing
  <2>4. CASE IsLatest(m, Existing)
    BY <2>3, <2>4
  <2>5. CASE ~ IsLatest(m, Existing)
    <3>1. PICK l \in Existing : ~ (l <= m)
      BY <2>3, <2>5 DEF IsLatest
    <3>2. m < l
      BY <1>1, <2>1, <3>1 DEF Existing
    <3>. QED  BY <2>3, <3>1, <3>2 DEF LatestOpen
  <2>. QED  BY <2>4, <2>5
<1>. QED  BY <1>3 DEF LatestOpen

\* So it stays when months are opened, closed, reopened, carried forward and
\* created by an upload, one after the other.
LEMMA NextLatestOpen ==
  ASSUME PeriodInv, Current, NoMonthSkipped, LatestOpen, [Next]_vars
  PROVE  LatestOpen'
<1>. USE DEF PeriodInv
<1>1. period \in [Months -> PeriodRow] /\ Months \subseteq Nat
  BY DEF TypeOK, PeriodRowsOK, Months
<1>2. ASSUME \A m \in Months : \/ period'[m].status = period[m].status
                               \/ /\ period[m].status # "NONE"
                                  /\ period'[m].status = "LOCKED"
      PROVE  LatestOpen'
  BY <1>2 DEF LatestOpen, Existing, Months
<1>3. ASSUME NEW r \in Requests, OpenCommit(r) PROVE LatestOpen'
  <2>1. PICK n \in Months : n = req[r].month
    BY <1>3, RequestFields DEF OpenCommit, WellFormed, TypeOK
  <2>2. /\ period' = [period EXCEPT ![n] = NewPeriod]
        /\ \A k \in Existing : /\ k < n
                               /\ IsLatest(k, Existing) => period[k].status = "LOCKED"
    BY <1>3, <2>1 DEF OpenCommit, Current, Upheld
  <2>. QED  BY <2>2, NextMonthOpened
<1>4. ASSUME NEW r \in Requests, CloseCommit(r) PROVE LatestOpen'
  <2>1. PICK n \in Months : n = req[r].month
    BY <1>4, RequestFields DEF CloseCommit, WellFormed, TypeOK
  <2>2. /\ period' = [period EXCEPT ![n].status = "LOCKED"]
        /\ CanBeClosed(period[n].status)
    BY <1>4, <2>1 DEF CloseCommit, CloseRequestsChecked
  <2>3. /\ period[n].status # "NONE" /\ period'[n].status = "LOCKED"
        /\ \A m \in Months \ {n} : period'[m] = period[m]
    BY <1>1, <2>2 DEF CanBeClosed, PeriodRow
  <2>. QED  BY <1>2, <2>3
<1>5. ASSUME NEW r \in Requests, ReopenCommit(r) PROVE LatestOpen'
  <2>1. PICK n \in Months : n = req[r].month /\ (req[r].flag => n + 1 \in Months)
    BY <1>5, RequestFields DEF ReopenCommit, WellFormed, TypeOK
  <2>2. CASE req[r].flag
    <3>1. /\ period' = [period EXCEPT ![n].status = "OPEN", ![n + 1] = NoPeriod]
          /\ IsLatest(n + 1, Existing)
      BY <1>5, <2>1, <2>2 DEF ReopenCommit, Current, Upheld
    <3>2. /\ period'[n + 1] = NoPeriod
          /\ \A m \in Months \ {n, n + 1} : period'[m] = period[m]
      BY <1>1, <2>1, <2>2, <3>1
    <3>3. ASSUME NEW m \in Existing', NEW k \in Existing', m < k
          PROVE  period'[m].status = "LOCKED"
      <4>1. m \in Months /\ k \in Months /\ m # n + 1 /\ k # n + 1
        BY <3>2 DEF Existing, Months, NoPeriod
      <4>2. n \in Existing
        BY <1>5, <2>1 DEF ReopenCommit
      <4>3. k \in Existing
        BY <3>2, <4>1, <4>2 DEF Existing
      <4>4. k <= n + 1
        BY <3>1, <4>3 DEF IsLatest
      <4>5. m # n
        BY <1>1, <3>3, <4>1, <4>4
      <4>6. m \in Existing /\ period'[m] = period[m]
        BY <3>2, <4>1, <4>5 DEF Existing
      <4>. QED  BY <3>3, <4>3, <4>6 DEF LatestOpen
    <3>. QED  BY <3>3 DEF LatestOpen
  <2>3. CASE ~ req[r].flag
    <3>1. /\ period' = [period EXCEPT ![n].status = "OPEN"]
          /\ IsLatest(n, Existing)
      BY <1>5, <2>1, <2>3 DEF ReopenCommit, Current, Upheld
    <3>2. \A m \in Months \ {n} : period'[m] = period[m]
      BY <1>1, <3>1
    <3>3. ASSUME NEW m \in Existing', NEW k \in Existing', m < k
          PROVE  period'[m].status = "LOCKED"
      <4>1. m \in Months /\ k \in Months /\ k \in Existing
        BY <3>1, <3>2 DEF Existing, Months, IsLatest
      <4>2. m # n
        BY <1>1, <3>1, <3>3, <4>1 DEF IsLatest
      <4>3. m \in Existing /\ period'[m] = period[m]
        BY <3>2, <4>1, <4>2 DEF Existing
      <4>. QED  BY <3>3, <4>1, <4>3 DEF LatestOpen
    <3>. QED  BY <3>3 DEF LatestOpen
  <2>. QED  BY <2>2, <2>3
<1>6. ASSUME NEW r \in Requests, CarryCommit(r) PROVE LatestOpen'
  <2>1. PICK m \in Months : m = req[r].month /\ m + 1 \in Months
    BY <1>6, RequestFields DEF CarryCommit, WellFormed, TypeOK
  <2>2. CASE req[r].flag
    BY <1>2, <1>6, <2>2 DEF CarryCommit
  <2>3. CASE ~ req[r].flag
    <3>1. /\ period' = [period EXCEPT ![m + 1] = NewPeriod]
          /\ m + 1 \notin Existing
          /\ period[m].status = "LOCKED"
      BY <1>6, <2>1, <2>3 DEF CarryCommit, Current, Upheld
    <3>2. m \in Existing
      BY <2>1, <3>1 DEF Existing
    <3>3. ASSUME NEW k \in Existing PROVE k <= m
      <4>1. k \in Months /\ k # m + 1
        BY <3>1 DEF Existing
      <4>2. ~ (m < m + 1 /\ m + 1 < k)
        BY <2>1, <3>1, <3>2, <4>1 DEF NoMonthSkipped
      <4>3. k \in Nat /\ m \in Nat
        BY <1>1, <2>1, <4>1
      <4>. QED  BY <4>1, <4>2, <4>3
    <3>4. ASSUME NEW k \in Existing
          PROVE  k < m + 1 /\ (IsLatest(k, Existing) => period[k].status = "LOCKED")
      <4>1. k \in Nat /\ m \in Nat
        BY <1>1, <2>1 DEF Existing
      <4>2. IsLatest(k, Existing) => k = m
        BY <3>2, <3>3, <4>1 DEF IsLatest
      <4>. QED  BY <3>1, <3>3, <4>1, <4>2
    <3>. QED  BY <2>1, <3>1, <3>4, NextMonthOpened
  <2>. QED  BY <2>2, <2>3
<1>7. ASSUME NEW r \in Requests, NEW t \in Txs, CollectRowInsert(r, t), req[r].flag
      PROVE  LatestOpen'
  <2>1. PICK n \in Months : n = req[r].month
    BY <1>7, RequestFields DEF CollectRowInsert, WellFormed, TypeOK
  <2>2. MayCreateMonth(n)
    BY <1>7, <2>1 DEF CollectRowInsert, Current, Upheld
  <2>3. ASSUME NEW k \in Existing
        PROVE  k < n /\ (IsLatest(k, Existing) => period[k].status = "LOCKED")
    <3>1. IsLatest(n - 1, Existing) /\ period[n - 1].status = "LOCKED"
      BY <2>2 DEF MayCreateMonth
    <3>2. k \in Nat /\ n \in Nat /\ n - 1 \in Nat
      BY <1>1, <2>1, <3>1 DEF Existing, IsLatest
    <3>. QED  BY <3>1, <3>2 DEF IsLatest
  <2>4. period' = [period EXCEPT ![n] = NewPeriod]
    BY <1>7, <2>1 DEF CollectRowInsert
  <2>. QED  BY <2>3, <2>4, NextMonthOpened
<1>8. ASSUME NEW r \in Requests, CancelCarryCommit(r) \/ StatementsCommit(r)
      PROVE  LatestOpen'
  BY <1>2, <1>8 DEF CancelCarryCommit, StatementsCommit
<1>9. CASE MonthsKept
  BY <1>2, <1>9 DEF MonthsKept
<1>. QED
  BY <1>3, <1>4, <1>5, <1>6, <1>7, <1>8, <1>9, MonthWriters DEF MonthCommit

\* One operation after the other, one month is open at a time as long as no
\* month has been skipped: the carry forward of the month before a gap would
\* open the month in it behind the latest one.
THEOREM OneMonthAtATime ==
  ASSUME OneAtATime
  PROVE  Spec /\ []NoMonthSkipped => []OneMonthOpen
<1>. DEFINE Inv == PeriodInv /\ Current /\ LatestOpen
<1>1. Init => Inv
  BY InitInv, InitCurrent DEF Init, LatestOpen, Existing, NoPeriod
<1>2. Inv /\ NoMonthSkipped /\ [Next]_vars => Inv'
  BY NextInv, NextCurrent, NextLatestOpen
<1>3. Inv => OneMonthOpen
  BY DEF LatestOpen, OneMonthOpen, Existing, Months
<1>. QED  BY <1>1, <1>2, <1>3, PTL DEF Spec

\* An entry is adjusted in its own month or in a later one.
AdjustedLater ==
    \A e, k \in Entries :
        entry[k].reverses = e \/ entry[k].corrects = e => entry[k].month >= entry[e].month

\* A month that has entries exists.
LEMMA EntriesInMonths ==
  ASSUME NumberInv, NEW e \in Entries, entry[e].status \in EntryLive
  PROVE  entry[e].month \in Existing
<1>. DEFINE m == entry[e].month
<1>1. m \in Months /\ e \in EntriesOf(m)
  BY DEF NumberInv, TypeOK, LedgerRowsOK, EntriesOf
<1>2. entry[e].seq \in 1 .. (period[m].nextSeq - 1)
  BY <1>1 DEF NumberInv, NumbersGapless
<1>3. period[m].nextSeq # 1
  BY <1>2
<1>. QED  BY <1>1, <1>3 DEF NumberInv, CounterReset, Existing

\* A commit that posts leaves the place and the lineage of the other entries,
\* and what it posts lies in the latest month.
LEMMA PostedLatest ==
  ASSUME NumberInv, LatestOpen, NEW r \in Requests, NEW x \in Entries,
         PostingCommit(r, x)
  PROVE  /\ period[entry'[x].month].status \in JournalWritable
         /\ \A k \in Existing : k <= entry'[x].month
         /\ \A k \in Entries \ {x} :
                /\ entry'[k].month = entry[k].month
                /\ entry'[k].reverses = entry[k].reverses
                /\ entry'[k].corrects = entry[k].corrects
<1>1. PICK n \in Months : Appended(n, x)
  BY PostingAppends
<1>2. entry'[x].month = n /\ period[n].status \in JournalWritable
  BY <1>1, AppendedMonths DEF Appended
<1>3. ASSUME NEW k \in Existing PROVE k <= n
  <2>1. n \in Existing /\ ~ (n < k)
    BY <1>2, <1>3 DEF LatestOpen, Existing, JournalWritable
  <2>2. k \in Nat /\ n \in Nat
    BY DEF Existing, Months
  <2>. QED  BY <2>1, <2>2
<1>4. \A k \in Entries \ {x} : entry'[k].month = entry[k].month
  BY <1>1 DEF Appended, SameBook
<1>5. ASSUME NEW k \in Entries \ {x}
      PROVE  entry'[k].reverses = entry[k].reverses /\ entry'[k].corrects = entry[k].corrects
  <2>1. PICK u, o, st : Posts(x, u, o, st)
    BY SomePosting DEF NumberInv
  <2>. QED  BY <2>1, PostsKeeps DEF NumberInv
<1>. QED  BY <1>2, <1>3, <1>4, <1>5

LEMMA NextAdjustedLater ==
  ASSUME NumberInv, Current, Lineage, LatestOpen, AdjustedLater, [Next]_vars
  PROVE  AdjustedLater'
<1>. USE DEF NumberInv
<1>1. CASE UNCHANGED entry
  BY <1>1 DEF AdjustedLater, Entries
<1>2. ASSUME NEW r \in Requests, NEW x \in Entries, PostingCommit(r, x),
             NEW e \in Entries, NEW k \in Entries,
             entry'[k].reverses = e \/ entry'[k].corrects = e
      PROVE  entry'[k].month >= entry'[e].month
  <2>1. PICK u, o, st : Posts(x, u, o, st)
    BY <1>2, SomePosting
  <2>2. e # NoEntry
    BY DEF Entries, NoEntry
  <2>3. CASE k = x
    <3>1. e = o /\ e # x /\ entry[e].status = "POSTED"
      BY <1>2, <2>1, <2>2, <2>3 DEF Posts
    <3>2. entry[e].month \in Existing
      BY <3>1, EntriesInMonths DEF EntryLive
    <3>3. entry[e].month <= entry'[x].month /\ entry'[e].month = entry[e].month
      BY <1>2, <3>1, <3>2, PostedLatest
    <3>4. entry'[x].month \in Nat /\ entry[e].month \in Nat
      <4>1. PICK n \in Months : Appended(n, x)
        BY <1>2, PostingAppends
      <4>. QED  BY <3>2, <4>1 DEF Appended, Existing, Months
    <3>. QED  BY <2>3, <3>3, <3>4
  <2>4. CASE k # x
    <3>1. /\ entry'[k].month = entry[k].month
          /\ entry[k].reverses = e \/ entry[k].corrects = e
      BY <1>2, <2>4, PostedLatest
    <3>2. e # x
      BY <2>1, <2>2, <3>1 DEF Lineage, Posts
    <3>3. entry'[e].month = entry[e].month
      BY <1>2, <3>2, PostedLatest
    <3>. QED  BY <3>1, <3>3 DEF AdjustedLater
  <2>. QED  BY <2>3, <2>4
<1>3. TypeOK /\ NothingTaken
  BY CurrentTakesNothing
<1>. QED  BY <1>1, <1>2, <1>3, EntriesArePosted DEF AdjustedLater, Entries

\* In a month that can still be closed exactly the entries are POSTED that
\* have no adjustment in it: what adjusts one lies in the latest month, too.
LEMMA PostedUnadjusted ==
  ASSUME NumberInv, Lineage, AdjustmentsStand, AdjustedLater, LatestOpen,
         NEW m \in Existing, period[m].status # "LOCKED"
  PROVE  PostedOf(m) = {e \in EntriesOf(m) : ~ AdjustedAtHome(e)}
<1>1. ASSUME NEW e \in EntriesOf(m), entry[e].status = "POSTED", AdjustedAtHome(e)
      PROVE  FALSE
  <2>1. PICK k \in Entries : entry[k].reverses = e \/ entry[k].corrects = e
    BY <1>1 DEF AdjustedAtHome
  <2>2. e # NoEntry
    BY DEF EntriesOf, Entries, NoEntry
  <2>. QED  BY <1>1, <2>1, <2>2 DEF Lineage
<1>2. ASSUME NEW e \in EntriesOf(m), entry[e].status # "POSTED"
      PROVE  AdjustedAtHome(e)
  <2>1. e \in Entries /\ e # NoEntry /\ entry[e].month = m
    BY DEF EntriesOf, Entries, NoEntry
  <2>2. PICK k \in Entries : entry[k].reverses = e \/ entry[k].corrects = e
    BY <1>2, <2>1 DEF EntriesOf, EntryLive, AdjustmentsStand
  <2>3. entry[k].status \in EntryLive
    BY <2>1, <2>2 DEF Lineage
  <2>4. entry[k].month \in Existing /\ entry[k].month >= m
    BY <2>1, <2>2, <2>3, EntriesInMonths DEF AdjustedLater
  <2>5. ~ (m < entry[k].month)
    BY <2>4 DEF LatestOpen
  <2>6. entry[k].month = m
    BY <2>4, <2>5 DEF Existing, Months
  <2>. QED  BY <2>1, <2>2, <2>6 DEF AdjustedAtHome
<1>. QED  BY <1>1, <1>2 DEF PostedOf

\* What has been adjusted within a locked month stays the same.
LEMMA LockedUnadjusted ==
  ASSUME NumberInv, Current, Lineage, LatestOpen, [Next]_vars,
         NEW m \in Months, period[m].status = "LOCKED", NEW e \in EntriesOf(m)
  PROVE  AdjustedAtHome(e)' <=> AdjustedAtHome(e)
<1>. USE DEF NumberInv
<1>1. CASE UNCHANGED entry
  BY <1>1 DEF AdjustedAtHome, Entries
<1>2. ASSUME NEW r \in Requests, NEW x \in Entries, PostingCommit(r, x)
      PROVE  AdjustedAtHome(e)' <=> AdjustedAtHome(e)
  <2>1. PICK u, o, st : Posts(x, u, o, st)
    BY <1>2, SomePosting
  <2>2. e \in Entries /\ e # x /\ e # NoEntry /\ entry[e].month = m
    BY <2>1 DEF EntriesOf, EntryLive, Posts, Entries, NoEntry
  <2>3. /\ entry'[x].month # m
        /\ \A k \in Entries \ {x} :
                /\ entry'[k].month = entry[k].month
                /\ entry'[k].reverses = entry[k].reverses
                /\ entry'[k].corrects = entry[k].corrects
    BY <1>2, PostedLatest DEF JournalWritable
  <2>4. entry[x].reverses # e /\ entry[x].corrects # e
    BY <2>1, <2>2 DEF Lineage, Posts, EntryLive
  <2>. QED  BY <2>2, <2>3, <2>4 DEF AdjustedAtHome, Entries
<1>3. TypeOK /\ NothingTaken
  BY CurrentTakesNothing
<1>. QED  BY <1>1, <1>2, <1>3, EntriesArePosted

\* The closing snapshot of m has all that belongs to it.
Complete(m) ==
    closing[m].exists =>
        closing[m].entries = opening[m].entries \cup
            {e \in EntriesOf(m) : ~ AdjustedAtHome(e)}

CompleteInv ==
    /\ PeriodInv
    /\ NumberInv
    /\ Current
    /\ Lineage
    /\ AdjustmentsStand
    /\ LatestOpen
    /\ AdjustedLater
    /\ \A m \in Months : Complete(m)

\* It keeps that while it and the opening balances stay.
LEMMA CompleteKept ==
  ASSUME CompleteInv, [Next]_vars, NEW m \in Months,
         \/ ~ closing'[m].exists
         \/ closing'[m] = closing[m] /\ opening'[m].entries = opening[m].entries
  PROVE  Complete(m)'
<1>1. CASE ~ closing'[m].exists
  BY <1>1 DEF Complete
<1>2. CASE closing'[m] = closing[m] /\ opening'[m].entries = opening[m].entries
           /\ closing[m].exists
  <2>1. period[m].status = "LOCKED"
    BY <1>2 DEF CompleteInv, PeriodInv, LockedIffClosed
  <2>2. EntriesOf(m)' = EntriesOf(m)
    BY <2>1, LockedEntries DEF CompleteInv
  <2>3. \A e \in EntriesOf(m) : AdjustedAtHome(e)' <=> AdjustedAtHome(e)
    BY <2>1, LockedUnadjusted DEF CompleteInv
  <2>4. {e \in EntriesOf(m) : ~ AdjustedAtHome(e)}'
            = {e \in EntriesOf(m) : ~ AdjustedAtHome(e)}
    BY <2>2, <2>3
  <2>. QED  BY <1>2, <2>4 DEF Complete, CompleteInv
<1>. QED  BY <1>1, <1>2

LEMMA NextComplete ==
  ASSUME CompleteInv, [Next]_vars
  PROVE  \A m \in Months : Complete(m)'
<1>. USE DEF CompleteInv, PeriodInv
<1>1. /\ opening \in [Months -> OpeningRow] /\ closing \in [Months -> ClosingRow]
      /\ period \in [Months -> PeriodRow]
  BY DEF TypeOK, PeriodRowsOK
<1>2. CASE UNCHANGED <<opening, closing>>
  BY <1>2, CompleteKept
<1>3. ASSUME NEW r \in Requests, OpenCommit(r) PROVE \A m \in Months : Complete(m)'
  BY <1>1, <1>3, CompleteKept DEF OpenCommit, OpeningRow
<1>4. ASSUME NEW r \in Requests, CloseCommit(r) PROVE \A m \in Months : Complete(m)'
  <2>1. PICK n \in Months : n = req[r].month
    BY <1>4, RequestFields DEF CloseCommit, WellFormed, TypeOK
  <2>2. /\ closing' = [closing EXCEPT ![n] = [exists |-> TRUE, entries |-> req[r].entries]]
        /\ UNCHANGED <<opening, ledgerVars>>
        /\ CanBeClosed(period[n].status)
        /\ req[r].entries = opening[n].entries \cup PostedOf(n)
    BY <1>4, <2>1 DEF CloseCommit, CloseRequestsChecked, Current, Upheld
  <2>3. n \in Existing /\ period[n].status # "LOCKED"
    BY <2>2 DEF CanBeClosed, Existing
  <2>4. req[r].entries = opening[n].entries \cup {e \in EntriesOf(n) : ~ AdjustedAtHome(e)}
    BY <2>2, <2>3, PostedUnadjusted
  <2>5. Complete(n)'
    BY <1>1, <2>2, <2>4 DEF Complete, EntriesOf, AdjustedAtHome, ledgerVars
  <2>6. \A m \in Months \ {n} : closing'[m] = closing[m] /\ opening'[m] = opening[m]
    BY <1>1, <2>2
  <2>. QED  BY <2>5, <2>6, CompleteKept
<1>5. ASSUME NEW r \in Requests, ReopenCommit(r) PROVE \A m \in Months : Complete(m)'
  <2>1. /\ closing' = [closing EXCEPT ![req[r].month] = NoClosing]
        /\ UNCHANGED opening
    BY <1>5 DEF ReopenCommit, DeleteSnapshots
  <2>2. \A m \in Months : closing'[m] = closing[m] \/ ~ closing'[m].exists
    BY <1>1, <2>1 DEF NoClosing
  <2>. QED  BY <2>1, <2>2, CompleteKept
<1>6. ASSUME NEW r \in Requests, CarryCommit(r) \/ CancelCarryCommit(r)
      PROVE  \A m \in Months : Complete(m)'
  <2>. DEFINE n == req[r].month + 1
  <2>1. UNCHANGED closing /\ ~ closing[n].exists
    BY <1>6 DEF CarryCommit, CancelCarryCommit, Current, Upheld
  <2>2. \A m \in Months \ {n} : opening'[m] = opening[m]
    BY <1>1, <1>6 DEF CarryCommit, CancelCarryCommit
  <2>3. ASSUME NEW m \in Months PROVE Complete(m)'
    <3>1. CASE m = n
      BY <2>1, <3>1, CompleteKept
    <3>2. CASE m # n
      BY <2>1, <2>2, <3>2, CompleteKept
    <3>. QED  BY <3>1, <3>2
  <2>. QED  BY <2>3
<1>7. ASSUME NEW r \in Requests,
             StatementsCommit(r) \/ \E t \in Txs : CollectRowInsert(r, t)
      PROVE  \A m \in Months : Complete(m)'
  BY <1>2, <1>7 DEF StatementsCommit, CollectRowInsert
<1>8. CASE MonthsKept
  BY <1>2, <1>8 DEF MonthsKept
<1>. QED
  BY <1>3, <1>4, <1>5, <1>6, <1>7, <1>8, MonthWriters DEF MonthCommit

\* One operation after the other, the closing snapshot of a month adds up its
\* opening balances and exactly those of its entries that are not adjusted
\* within the month, as long as no month has been skipped.
THEOREM ClosedComplete ==
  ASSUME OneAtATime
  PROVE  Spec /\ []NoMonthSkipped => []ClosingComplete
<1>1. Init => CompleteInv
  BY InitInv, InitNumbers, InitCurrent, InitLineage
     DEF Init, CompleteInv, AdjustmentsStand, LatestOpen, AdjustedLater, Complete,
         Existing, NoPeriod, NoEntryRow, NoClosing, Entries, NoEntry
<1>2. CompleteInv /\ NoMonthSkipped /\ [Next]_vars => CompleteInv'
  <2>1. Months' = Months
    BY DEF Months
  <2>. QED
    BY <2>1, NextInv, NextNumbers, NextCurrent, CurrentTakesNothing, NextLineage,
       NextAdjustmentsStand, NextLatestOpen, NextAdjustedLater, NextComplete
       DEF CompleteInv, PeriodInv
<1>3. CompleteInv => ClosingComplete
  BY DEF CompleteInv, Complete, ClosingComplete
<1>. QED  BY <1>1, <1>2, <1>3, PTL DEF Spec
=============================================================================
