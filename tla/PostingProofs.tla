----------------------------- MODULE PostingProofs -----------------------------
(***************************************************************************)
(* Theorems about journal entries: the status of an entry agrees with that *)
(* of the transaction it was posted from, history is append-only, an entry *)
(* is adjusted once at most, and, where no reopening takes entries away,   *)
(* what is adjusted has its adjustment and what is posted its entry.       *)
(***************************************************************************)
EXTENDS LedgerProofs, FiniteSetTheorems

\* Why the status of a source is decided by one entry: no two entries have
\* the same source, and an id without an entry has none.
SourcesUnique ==
    /\ \A e, f \in Entries :
            entry[e].source # NoTx /\ entry[e].source = entry[f].source => e = f
    /\ \A e \in Entries :
            entry[e].status \notin EntryLive => entry[e].source = NoTx

PostingInv ==
    /\ TypeOK
    /\ SourcesUnique
    /\ PostingStatusAgrees

\* What an entry or transaction says about postings is the same after a step
\* that changes neither a source nor the status of a transaction with an
\* entry.
PostingsKept ==
    /\ \A e \in Entries : entry'[e].status = entry[e].status
                          /\ entry'[e].source = entry[e].source
    /\ \A t \in Txs : (\E e \in Entries : entry[e].source = t)
                        => tx'[t].status = tx[t].status

-----------------------------------------------------------------------------
\* A step that keeps sources and statuses keeps the invariant.
LEMMA KeptInv ==
  ASSUME PostingInv, TypeOK', PostingsKept
  PROVE  PostingInv'
<1>1. SourcesUnique'
  BY DEF PostingInv, SourcesUnique, PostingsKept, Entries
<1>2. PostingStatusAgrees'
  <2>1. \A e \in Entries : entry[e].source # NoTx => entry[e].source \in Txs
    BY DEF PostingInv, TypeOK, LedgerRowsOK, EntryRow
  <2>. QED
    BY <2>1 DEF PostingInv, PostingStatusAgrees, PostingsKept, Entries
<1>. QED  BY <1>1, <1>2 DEF PostingInv

\* A transaction that is not posted has no entry.
LEMMA UnpostedHasNoEntry ==
  ASSUME PostingInv, NEW t \in Txs, tx[t].status \notin {"POSTED", "CORRECTED"}
  PROVE  \A e \in Entries : entry[e].source # t
<1>1. t # NoTx
  BY LedgerConstants DEF LedgerConstants
<1>. QED  BY <1>1 DEF PostingInv, PostingStatusAgrees

\* A transaction for which the unique key finds no entry is the source of none.
LEMMA UnsourcedHasNoEntry ==
  ASSUME PostingInv, NEW t \in Txs, NotSourced(t)
  PROVE  \A e \in Entries : entry[e].source # t
<1>1. t # NoTx
  BY LedgerConstants DEF LedgerConstants
<1>. QED
  BY <1>1 DEF PostingInv, SourcesUnique, NotSourced, Sourced

\* The row of a transaction without an entry may become anything.
LEMMA UnpostedTxInv ==
  ASSUME PostingInv, TypeOK', UNCHANGED entry, NEW t \in Txs, NEW row,
         tx' = [tx EXCEPT ![t] = row],
         \A e \in Entries : entry[e].source # t
  PROVE  PostingInv'
<1>1. PostingsKept
  BY DEF PostingsKept, PostingInv, TypeOK, LedgerRowsOK
<1>. QED  BY <1>1, KeptInv

\* A transaction without an entry gets one.
LEMMA PostInv ==
  ASSUME PostingInv, TypeOK', NEW t \in Txs, NEW e \in Entries, FreshEntry(e),
         \A k \in Entries : entry[k].source # t,
         NEW new, new.status = "POSTED", new.source = t,
         tx' = [tx EXCEPT ![t].status = "POSTED"],
         entry' = [entry EXCEPT ![e] = new]
  PROVE  PostingInv'
<1>1. \A k \in Entries : entry'[k] = IF k = e THEN new ELSE entry[k]
  BY DEF PostingInv, TypeOK, LedgerRowsOK
<1>2. \A x \in Txs : tx'[x].status = IF x = t THEN "POSTED" ELSE tx[x].status
  BY DEF PostingInv, TypeOK, LedgerRowsOK, TxRow
<1>3. SourcesUnique'
  BY <1>1 DEF PostingInv, SourcesUnique, EntryLive, Entries
<1>4. PostingStatusAgrees'
  <2>1. \A k \in Entries : entry[k].source # NoTx => entry[k].source \in Txs
    BY DEF PostingInv, TypeOK, LedgerRowsOK, EntryRow
  <2>. QED
    BY <1>1, <1>2, <2>1 DEF PostingInv, PostingStatusAgrees, Entries
<1>. QED  BY <1>3, <1>4 DEF PostingInv

\* An entry is adjusted by a new one, which is posted from u, a transaction
\* that had no entry, or from none.
Adjusted(o, e, u) ==
    /\ o # e
    /\ entry[o].status = "POSTED"
    /\ entry[e].status = "ABSENT"
    /\ entry'[e].status = "POSTED"
    /\ entry'[e].source = u
    /\ entry'[o].status \in {"REVERSED", "SUPERSEDED"}
    /\ entry'[o].source = entry[o].source
    /\ \A k \in Entries \ {o, e} : entry'[k] = entry[k]

\* An adjustment, with or without a source of its own, keeps the invariant.
LEMMA AdjustInv ==
  ASSUME PostingInv, TypeOK', NEW o \in Entries, NEW e \in Entries,
         NEW u \in Txs \cup {NoTx},
         u # NoTx => \A k \in Entries : entry[k].source # u,
         Adjusted(o, e, u), WritesTx(u, o)
  PROVE  PostingInv'
<1>. DEFINE t == entry[o].source
<1>. USE DEF Adjusted
<1>1. \A x \in Txs : tx'[x].status =
            IF x = t THEN "CORRECTED" ELSE IF x = u THEN "POSTED" ELSE tx[x].status
  BY DEF WritesTx, Entries, NoEntry
<1>3. SourcesUnique'
  <2>1. \A k \in Entries :
            entry'[k].source = IF k = e THEN u ELSE entry[k].source
    OBVIOUS
  <2>2. \A k, l \in Entries :
          entry'[k].source # NoTx /\ entry'[k].source = entry'[l].source => k = l
    BY <2>1 DEF PostingInv, SourcesUnique
  <2>3. \A k \in Entries :
          entry'[k].status \notin EntryLive => entry'[k].source = NoTx
    BY DEF PostingInv, SourcesUnique, EntryLive
  <2>. QED  BY <2>2, <2>3 DEF SourcesUnique, Entries, EntryLive
<1>4. PostingStatusAgrees'
  <2>1. \A k \in Entries : entry[k].source # NoTx => entry[k].source \in Txs
    BY DEF PostingInv, TypeOK, LedgerRowsOK, EntryRow
  <2>2. \A k \in Entries \ {o, e} : entry[k].source # NoTx => entry[k].source # t
    BY DEF PostingInv, SourcesUnique
  <2>3. ASSUME NEW k \in Entries, entry'[k].source # NoTx
        PROVE  IF entry'[k].status = "POSTED"
               THEN tx'[entry'[k].source].status = "POSTED"
               ELSE tx'[entry'[k].source].status = "CORRECTED"
    <3>1. CASE k = o
      BY <1>1, <2>1, <2>3, <3>1
    <3>2. CASE k = e
      <4>1. u \in Txs /\ u # t
        BY <2>3, <3>2
      <4>. QED  BY <1>1, <3>2, <4>1
    <3>3. CASE k \notin {o, e}
      <4>1. IF entry[k].status = "POSTED"
            THEN tx[entry[k].source].status = "POSTED"
            ELSE tx[entry[k].source].status = "CORRECTED"
        BY <2>3, <3>3 DEF PostingInv, PostingStatusAgrees
      <4>2. entry'[k] = entry[k]
        BY <3>3
      <4>3. entry[k].source \in Txs /\ entry[k].source \notin {t, u}
        BY <2>1, <2>2, <2>3, <3>3, <4>2
      <4>4. tx'[entry[k].source].status = tx[entry[k].source].status
        BY <1>1, <4>3
      <4>. QED  BY <4>1, <4>2, <4>4
    <3>. QED  BY <3>1, <3>2, <3>3
  <2>. QED  BY <2>3 DEF PostingStatusAgrees, Entries
<1>. QED  BY <1>3, <1>4 DEF PostingInv

\* What a commit that adjusts makes of the entries.
LEMMA AdjustedByPosting ==
  ASSUME PostingInv, NEW o \in Entries, NEW e \in Entries, NEW u, NEW st,
         Posts(e, u, o, st)
  PROVE  Adjusted(o, e, u)
<1>1. entry[o] \in EntryRow /\ o # NoEntry
  BY DEF PostingInv, TypeOK, LedgerRowsOK, Entries, NoEntry
<1>. QED  BY <1>1 DEF Posts, Adjusted, EntryRow

-----------------------------------------------------------------------------
(* The steps *)

\* A step that writes neither a transaction nor an entry keeps it.
LEMMA UnchangedInv ==
  ASSUME PostingInv, TypeOK', UNCHANGED <<tx, entry>>
  PROVE  PostingInv'
  BY KeptInv DEF PostingsKept

\* Entering, changing, deleting and confirming transactions keep the invariant.
LEMMA CollectedStepInv ==
  ASSUME PostingInv, TypeOK', NEW r \in Requests, CollectedStep(r)
  PROVE  PostingInv'
<1>1. ASSUME NEW m \in Months, NEW a \in Amounts, NEW st \in ManualStatus,
             CreateGuard(r, m, a, st)
      PROVE  PostingInv'
  BY <1>1, UnchangedInv DEF CreateGuard, ledgerVars
<1>2. ASSUME NEW t \in Txs, CreateInsert(r, t) PROVE PostingInv'
  BY <1>2, UnpostedHasNoEntry, UnpostedTxInv DEF CreateInsert, FreshTx
<1>3. ASSUME NEW t \in Txs, NEW m \in Months, NEW a \in Amounts,
             NEW st \in ManualStatus, NEW rev \in BOOLEAN,
             UpdateGuard(r, t, m, a, st, rev)
      PROVE  PostingInv'
  BY <1>3, UnchangedInv DEF UpdateGuard, ledgerVars
<1>4. ASSUME UpdateCommit(r) PROVE PostingInv'
  <2>1. req[r].tx \in Txs
    BY <1>4, RequestFields DEF UpdateCommit, WellFormed, TypeOK,
       PostingInv
  <2>. QED
    BY <1>4, <2>1, UnsourcedHasNoEntry, UnpostedTxInv
       DEF UpdateCommit, Changeable
<1>5. ASSUME NEW t \in Txs, DeleteGuard(r, t) PROVE PostingInv'
  BY <1>5, UnchangedInv DEF DeleteGuard, ledgerVars
<1>6. ASSUME DeleteCommit(r) PROVE PostingInv'
  <2>1. req[r].tx \in Txs
    BY <1>6, RequestFields DEF DeleteCommit, WellFormed, TypeOK,
       PostingInv
  <2>. QED
    BY <1>6, <2>1, UnsourcedHasNoEntry, UnpostedTxInv
       DEF DeleteCommit, Changeable
<1>7. ASSUME NEW t \in Txs, ConfirmRead(r, t) PROVE PostingInv'
  BY <1>7, UnchangedInv DEF ConfirmRead, ledgerVars
<1>8. ASSUME NEW e \in Entries, ConfirmCommit(r, e) PROVE PostingInv'
  <2>. DEFINE q == req[r]
              new == [NewEntry(q.month, q.amount) EXCEPT !.source = q.tx]
  <2>1. q.tx \in Txs
    BY <1>8, RequestFields DEF ConfirmCommit, WellFormed, TypeOK,
       PostingInv
  <2>2. new.status = "POSTED" /\ new.source = q.tx
    BY DEF NewEntry, NoEntryRow
  <2>3. /\ NotSourced(q.tx) /\ FreshEntry(e)
        /\ tx' = [tx EXCEPT ![q.tx].status = "POSTED"]
        /\ entry' = [entry EXCEPT ![e] = new]
    BY <1>8 DEF ConfirmCommit
  <2>. QED  BY <2>1, <2>2, <2>3, UnsourcedHasNoEntry, PostInv
<1>9. ASSUME NEW e \in Entries, ConfirmCancellationCommit(r, e)
      PROVE  PostingInv'
  <2>. DEFINE q == req[r]
              o == q.entry
  <2>1. q.tx \in Txs /\ o \in Entries
    BY <1>9, RequestFields
       DEF ConfirmCancellationCommit, Request, WellFormed, TypeOK,
       PostingInv
  <2>3. NotSourced(q.tx)
    BY <1>9 DEF ConfirmCancellationCommit
  <2>4. \A k \in Entries : entry[k].source # q.tx
    BY <2>1, <2>3, UnsourcedHasNoEntry
  <2>5. WritesTx(q.tx, o)
    BY <1>9, PostingWritesTx DEF PostingInv
  <2>6. Adjusted(o, e, q.tx)
    BY <1>9, <2>1, PostingPosts, AdjustedByPosting DEF PostingInv
  <2>. QED  BY <2>1, <2>4, <2>5, <2>6, AdjustInv
<1>. QED
  BY <1>1, <1>2, <1>3, <1>4, <1>5, <1>6, <1>7, <1>8, <1>9 DEF CollectedStep

\* Reversing and correcting an entry keep the invariant.
LEMMA JournalStepInv ==
  ASSUME PostingInv, TypeOK', NEW r \in Requests, JournalStep(r)
  PROVE  PostingInv'
<1>1. ASSUME NEW op, NEW step, NEW e, NEW m, NEW a,
             AdjustGuard(r, op, step, e, m, a)
      PROVE  PostingInv'
  BY <1>1, UnchangedInv DEF AdjustGuard, ledgerVars
<1>2. ASSUME NEW from, NEW to, AdjustRead(r, from, to) PROVE PostingInv'
  BY <1>2, UnchangedInv DEF AdjustRead, ledgerVars
<1>3. ASSUME NEW e \in Entries, ReverseCommit(r, e) \/ CorrectCommit(r, e)
      PROVE  PostingInv'
  <2>. DEFINE q == req[r]
  <2>1. q.entry \in Entries
    BY <1>3, RequestFields
       DEF ReverseCommit, CorrectCommit, WellFormed, TypeOK, PostingInv
  <2>2. WritesTx(NoTx, q.entry)
    BY <1>3, PostingWritesTx DEF PostingInv
  <2>3. Adjusted(q.entry, e, NoTx)
    BY <1>3, <2>1, PostingPosts, AdjustedByPosting DEF PostingInv
  <2>. QED  BY <2>1, <2>2, <2>3, AdjustInv
<1>. QED
  BY <1>1, <1>2, <1>3
     DEF JournalStep, ReverseGuard, ReverseRead, CorrectGuard, CorrectRead

\* Collecting a row and generating a repayment keep the invariant.
LEMMA SourceStepInv ==
  ASSUME PostingInv, TypeOK', NEW r \in Requests, SourceStep(r)
  PROVE  PostingInv'
<1>1. ASSUME NEW w \in Rows, NEW a \in Amounts, NEW st \in Unposted,
             CollectRowRead(r, w, a, st)
      PROVE  PostingInv'
  BY <1>1, UnchangedInv DEF CollectRowRead, ledgerVars
<1>2. ASSUME NEW t \in Txs, CollectRowInsert(r, t) PROVE PostingInv'
  BY <1>2, UnpostedHasNoEntry, UnpostedTxInv DEF CollectRowInsert, FreshTx
<1>3. ASSUME CollectRowAbsorb(r) PROVE PostingInv'
  <2>1. req[r].tx \in Txs
    BY <1>3, RequestFields DEF CollectRowAbsorb, WellFormed, TypeOK,
       PostingInv
  <2>. QED
    BY <1>3, <2>1, UnpostedHasNoEntry, UnpostedTxInv
       DEF CollectRowAbsorb, Unposted
<1>4. ASSUME NEW s \in Schedules, NEW a \in Amounts, RepaymentCheck(r, s, a)
      PROVE  PostingInv'
  BY <1>4, UnchangedInv DEF RepaymentCheck, ledgerVars
<1>5. ASSUME NEW t \in Txs, RepaymentCommit(r, t) PROVE PostingInv'
  BY <1>5, UnpostedHasNoEntry, UnpostedTxInv DEF RepaymentCommit, FreshTx
<1>6. ASSUME NEW rows \in Batches, CancelCollectionRead(r, rows)
      PROVE  PostingInv'
  BY <1>6, UnchangedInv DEF CancelCollectionRead, ledgerVars
<1>7. ASSUME CancelCollectionCommit(r) PROVE PostingInv'
  <2>1. req[r].txs \subseteq Txs
    BY <1>7, RequestFields DEF CancelCollectionCommit, Request, TypeOK,
       PostingInv
  <2>2. \A t \in req[r].txs, e \in Entries : entry[e].source # t
    BY <1>7, <2>1, UnpostedHasNoEntry DEF CancelCollectionCommit, Unposted
  <2>3. PostingsKept
    BY <1>7, <2>2 DEF CancelCollectionCommit, PostingsKept, PostingInv, TypeOK,
       LedgerRowsOK
  <2>. QED  BY <2>3, KeptInv
<1>8. ASSUME NEW s \in Schedules, NEW st \in ScheduleStatus,
             UpdateRepaymentCheck(r, s, st)
      PROVE  PostingInv'
  BY <1>8, UnchangedInv DEF UpdateRepaymentCheck, ledgerVars
<1>9. ASSUME UpdateRepaymentCommit(r) PROVE PostingInv'
  BY <1>9, KeptInv DEF UpdateRepaymentCommit, PostingsKept
<1>. QED
  BY <1>1, <1>2, <1>3, <1>4, <1>5, <1>6, <1>7, <1>8, <1>9 DEF SourceStep

\* The entries of a deleted month take their sources with them; its
\* transactions keep their status.
LEMMA DeletePeriodInv ==
  ASSUME PostingInv, TypeOK', NEW n, DeletePeriod(n)
  PROVE  PostingInv'
<1>1. /\ \A e \in Entries :
            \/ entry'[e].source = NoTx
            \/ /\ entry'[e].source = entry[e].source
               /\ entry'[e].status = entry[e].status
      /\ \A t \in Txs : tx'[t].status = tx[t].status
  <2>1. ASSUME NEW e \in Entries
        PROVE  \/ entry'[e].source = NoTx
               \/ /\ entry'[e].source = entry[e].source
                  /\ entry'[e].status = entry[e].status
    <3>1. entry[e] \in EntryRow
      BY DEF PostingInv, TypeOK, LedgerRowsOK
    <3>. QED  BY <3>1 DEF DeletePeriod, NoEntryRow, EntryRow
  <2>2. ASSUME NEW t \in Txs PROVE tx'[t].status = tx[t].status
    <3>1. tx[t] \in TxRow
      BY DEF PostingInv, TypeOK, LedgerRowsOK
    <3>. QED  BY <3>1 DEF DeletePeriod, TxRow
  <2>. QED  BY <2>1, <2>2
<1>2. SourcesUnique'
  BY <1>1 DEF PostingInv, SourcesUnique, Entries, EntryLive
<1>3. PostingStatusAgrees'
  <2>1. \A k \in Entries : entry[k].source # NoTx => entry[k].source \in Txs
    BY DEF PostingInv, TypeOK, LedgerRowsOK, EntryRow
  <2>. QED
    BY <1>1, <2>1 DEF PostingInv, PostingStatusAgrees, Entries
<1>. QED  BY <1>2, <1>3 DEF PostingInv

\* Opening, closing and reopening a month, with or without its successor, keep it.
LEMMA PeriodStepKeepsInv ==
  ASSUME PostingInv, TypeOK', NEW r \in Requests, PeriodStep(r)
  PROVE  PostingInv'
<1>1. CASE ReopenCommit(r)
  BY <1>1, DeletePeriodInv, UnchangedInv DEF ReopenCommit, ledgerVars
<1>2. CASE UNCHANGED ledgerVars
  BY <1>2, UnchangedInv DEF ledgerVars
<1>3. ReopenCommit(r) \/ UNCHANGED ledgerVars
  BY DEF PeriodStep, OpenCheck, OpenCommit, CloseRead, CloseCommit,
         ReopenCheck, ReopenRollbackRead
<1>. QED  BY <1>1, <1>2, <1>3

\* Carry forwards and statements write no posting.
LEMMA SnapshotStepKeepsInv ==
  ASSUME PostingInv, TypeOK', NEW r \in Requests, SnapshotStep(r)
  PROVE  PostingInv'
<1>1. UNCHANGED ledgerVars
  BY DEF SnapshotStep, CarryCheck, CarryCommit, CancelCarryRead,
         CancelCarryCommit, StatementsRead, StatementsCommit
<1>. QED  BY <1>1, UnchangedInv DEF ledgerVars

\* An empty workspace has no posting.
LEMMA InitPostingInv == Init => PostingInv
  BY InitType
     DEF Init, PostingInv, SourcesUnique, PostingStatusAgrees, NoEntryRow

\* Every step of every request keeps the invariant.
LEMMA NextPostingInv == PostingInv /\ [Next]_vars => PostingInv'
<1>. SUFFICES ASSUME PostingInv, [Next]_vars PROVE PostingInv'
  OBVIOUS
<1>1. TypeOK'
  BY NextType DEF PostingInv
<1>2. CASE UNCHANGED vars
  BY <1>1, <1>2, UnchangedInv DEF vars
<1>3. CASE Next
  BY <1>1, <1>3, PeriodStepKeepsInv, CollectedStepInv, JournalStepInv,
     SnapshotStepKeepsInv, SourceStepInv, UnchangedInv DEF Next, Fail, ledgerVars
<1>. QED  BY <1>2, <1>3

\* The status of an entry and that of the transaction it was posted from move
\* together, whatever confirmations, changes, reversals, corrections, card
\* cancellations and rollbacks of months interleave.
THEOREM PostingsAgree == Spec => []PostingStatusAgrees
<1>1. PostingInv => PostingStatusAgrees
  BY DEF PostingInv
<1>. QED  BY <1>1, InitPostingInv, NextPostingInv, PTL DEF Spec

-----------------------------------------------------------------------------
(* History *)

\* A step that writes no entry keeps history.
LEMMA SameEntriesKept ==
  ASSUME UNCHANGED entry, NEW e \in Entries
  PROVE  EntryKept(e)
  BY DEF EntryKept

\* A commit that posts keeps history: an original changes its status once.
LEMMA PostedKept ==
  ASSUME TypeOK, NEW n \in Entries, NEW u, NEW o, NEW st, Posts(n, u, o, st),
         NEW e \in Entries, entry[e].status \in EntryLive
  PROVE  EntryKept(e)
<1>1. e # n
  BY DEF Posts, EntryLive
<1>2. CASE e = o
  <2>1. entry[e] \in EntryRow /\ o # NoEntry
    BY <1>2 DEF TypeOK, LedgerRowsOK, Entries, NoEntry
  <2>. QED  BY <1>2, <2>1 DEF Posts, EntryKept, EntryRow
<1>3. CASE e # o
  BY <1>1, <1>3 DEF Posts, EntryKept
<1>. QED  BY <1>2, <1>3

\* Every step of every request keeps history.
LEMMA NextKeepsHistory ==
  ASSUME TypeOK, Next, NEW e \in Entries, entry[e].status \in EntryLive
  PROVE  EntryKept(e)
<1>1. CASE UNCHANGED entry
  BY <1>1, SameEntriesKept
<1>2. ASSUME NEW r \in Requests, ReopenCommit(r), req[r].flag PROVE EntryKept(e)
  <2>. DEFINE n == req[r].month + 1
  <2>1. DeletePeriod(n) /\ n \in Months
    BY <1>2, RequestFields DEF ReopenCommit, WellFormed, TypeOK
  <2>2. period'[n].status = "NONE"
    BY <1>2, <2>1 DEF ReopenCommit, NoPeriod, TypeOK, PeriodRowsOK
  <2>3. CASE e \in EntriesOf(n)
    BY <2>1, <2>2, <2>3 DEF DeletePeriod, EntriesOf, NoEntryRow, EntryKept
  <2>4. CASE e \notin EntriesOf(n)
    <3>1. entry[e] \in EntryRow
      BY DEF TypeOK, LedgerRowsOK
    <3>. QED  BY <2>1, <2>4, <3>1 DEF DeletePeriod, EntryRow, EntryKept
  <2>. QED  BY <2>3, <2>4
<1>3. ASSUME NEW r \in Requests, NEW n \in Entries, PostingCommit(r, n)
      PROVE  EntryKept(e)
  BY <1>3, SomePosting, PostedKept
<1>. QED  BY <1>1, <1>2, <1>3, EntryWriters

\* History is append-only in every behaviour: what an entry says never
\* changes, it is adjusted at most once, and only the removal of its month
\* removes it.
THEOREM HistoryAppendOnly == Spec => HistoryKept
<1>. DEFINE Step == \A e \in Entries : entry[e].status \in EntryLive => EntryKept(e)
<1>1. TypeOK /\ [Next]_vars => [Step]_vars
  <2>. SUFFICES ASSUME TypeOK, Next PROVE Step
    OBVIOUS
  <2>. QED  BY NextKeepsHistory
<1>. QED  BY <1>1, TypeCorrect, PTL DEF Spec, HistoryKept

-----------------------------------------------------------------------------
(* Adjustments *)

\* The entries that reverse or correct e.
AdjustersOf(e) == {k \in Entries : entry[k].reverses = e \/ entry[k].corrects = e}

\* No entry is adjusted twice, in whatever way.
NeverAdjustedTwice ==
    \A e \in Entries : \A k, l \in AdjustersOf(e) : k = l

\* What an entry refers to has the status that goes with the reference, is
\* referred to once, and an id without an entry refers to nothing.
Lineage ==
    /\ \A k \in Entries :
        /\ entry[k].reverses # NoEntry => entry[entry[k].reverses].status = "REVERSED"
        /\ entry[k].corrects # NoEntry => entry[entry[k].corrects].status = "SUPERSEDED"
        /\ entry[k].status \notin EntryLive
            => entry[k].reverses = NoEntry /\ entry[k].corrects = NoEntry
    /\ \A k, l \in Entries :
        /\ entry[k].reverses # NoEntry /\ entry[k].reverses = entry[l].reverses
            => k = l
        /\ entry[k].corrects # NoEntry /\ entry[k].corrects = entry[l].corrects
            => k = l

\* A new entry that adjusts a POSTED one keeps the lineage.
LEMMA PostsLineage ==
  ASSUME TypeOK, Lineage, NEW e \in Entries, NEW u, NEW o, NEW st, Posts(e, u, o, st)
  PROVE  Lineage'
<1>1. NoEntry \notin Entries
  BY DEF NoEntry, Entries
<1>2. \A k \in Entries :
        /\ entry[k] \in EntryRow
        /\ k # e => /\ entry'[k].reverses = entry[k].reverses
                    /\ entry'[k].corrects = entry[k].corrects
                    /\ k # o => entry'[k] = entry[k]
  BY PostsKeeps DEF TypeOK, LedgerRowsOK
<1>3. o # NoEntry => o \in Entries /\ o # e /\ entry'[o].status = st
  BY PostsKeeps DEF Posts
<1>4. \A k \in Entries :
        /\ entry[k].reverses # e /\ entry[k].corrects # e
        /\ entry[k].reverses = o => o = NoEntry
        /\ entry[k].corrects = o => o = NoEntry
  BY <1>1 DEF Posts, Lineage
<1>5. \A k \in Entries : entry[k].reverses \in Entries \cup {NoEntry}
                         /\ entry[k].corrects \in Entries \cup {NoEntry}
  BY <1>2 DEF EntryRow
<1>6. ASSUME NEW k \in Entries
      PROVE  /\ entry'[k].reverses # NoEntry
                  => entry'[entry'[k].reverses].status = "REVERSED"
             /\ entry'[k].corrects # NoEntry
                  => entry'[entry'[k].corrects].status = "SUPERSEDED"
             /\ entry'[k].status \notin EntryLive
                  => entry'[k].reverses = NoEntry /\ entry'[k].corrects = NoEntry
  <2>1. CASE k = e
    BY <1>3, <2>1 DEF Posts, EntryLive
  <2>2. CASE k # e
    <3>1. /\ entry'[k].reverses = entry[k].reverses
          /\ entry'[k].corrects = entry[k].corrects
      BY <1>2, <2>2
    <3>2. /\ entry[k].reverses # NoEntry
                => entry'[entry[k].reverses] = entry[entry[k].reverses]
          /\ entry[k].corrects # NoEntry
                => entry'[entry[k].corrects] = entry[entry[k].corrects]
      BY <1>2, <1>4, <1>5
    <3>3. entry'[k].status \notin EntryLive => entry[k].status \notin EntryLive
      <4>1. CASE k = o
        BY <1>1, <1>3, <4>1 DEF Posts, EntryLive
      <4>2. CASE k # o
        BY <1>2, <2>2, <4>2
      <4>. QED  BY <4>1, <4>2
    <3>. QED  BY <3>1, <3>2, <3>3 DEF Lineage
  <2>. QED  BY <2>1, <2>2
<1>7. ASSUME NEW k \in Entries, NEW l \in Entries
      PROVE  /\ entry'[k].reverses # NoEntry /\ entry'[k].reverses = entry'[l].reverses
                  => k = l
             /\ entry'[k].corrects # NoEntry /\ entry'[k].corrects = entry'[l].corrects
                  => k = l
  BY <1>2, <1>4 DEF Posts, Lineage
<1>. QED  BY <1>6, <1>7 DEF Lineage, Entries, EntryLive

\* Deleting a month takes the references to its entries with it.
LEMMA DeletePeriodLineage ==
  ASSUME TypeOK, Lineage, NEW n, DeletePeriod(n)
  PROVE  Lineage'
<1>. DEFINE dead == EntriesOf(n)
<1>1. \A k \in Entries :
        /\ k \in dead => entry'[k] = [NoEntryRow EXCEPT !.status = "GONE"]
        /\ k \notin dead =>
            /\ entry'[k].status = entry[k].status
            /\ entry'[k].reverses = IF entry[k].reverses \in dead THEN NoEntry
                                    ELSE entry[k].reverses
            /\ entry'[k].corrects = IF entry[k].corrects \in dead THEN NoEntry
                                    ELSE entry[k].corrects
  <2>1. ASSUME NEW k \in Entries PROVE entry[k] \in EntryRow
    BY DEF TypeOK, LedgerRowsOK
  <2>. QED  BY <2>1 DEF DeletePeriod, EntryRow
<1>. HIDE DEF dead
<1>2. \A k \in Entries : entry[k].reverses \in Entries \cup {NoEntry}
                         /\ entry[k].corrects \in Entries \cup {NoEntry}
  BY DEF TypeOK, LedgerRowsOK, EntryRow
<1>3. \A k \in Entries :
        /\ entry'[k].reverses # NoEntry =>
            k \notin dead /\ entry'[k].reverses = entry[k].reverses
            /\ entry[k].reverses \in Entries \ dead
        /\ entry'[k].corrects # NoEntry =>
            k \notin dead /\ entry'[k].corrects = entry[k].corrects
            /\ entry[k].corrects \in Entries \ dead
        /\ entry'[k].status \notin EntryLive
            => entry'[k].reverses = NoEntry /\ entry'[k].corrects = NoEntry
  BY <1>1, <1>2 DEF NoEntryRow, Lineage
<1>. QED  BY <1>1, <1>3 DEF Lineage, Entries, EntryLive

\* Every step keeps the lineage.
LEMMA NextLineage == TypeOK /\ Lineage /\ [Next]_vars => Lineage'
<1>. SUFFICES ASSUME TypeOK, Lineage, [Next]_vars PROVE Lineage'
  OBVIOUS
<1>1. CASE UNCHANGED entry
  BY <1>1 DEF Lineage
<1>2. ASSUME NEW r \in Requests, ReopenCommit(r), req[r].flag PROVE Lineage'
  BY <1>2, DeletePeriodLineage DEF ReopenCommit
<1>3. ASSUME NEW r \in Requests, NEW e \in Entries, PostingCommit(r, e)
      PROVE  Lineage'
  BY <1>3, SomePosting, PostsLineage
<1>. QED  BY <1>1, <1>2, <1>3, EntryWriters DEF vars

\* Nothing has been adjusted in an empty workspace.
LEMMA InitLineage == Init => Lineage
  BY DEF Init, Lineage, NoEntryRow

\* Whatever requests reverse, correct and cancel the same entry at the same
\* time, with months opened, closed, reopened and rolled back around them,
\* one adjustment of it remains at the most.
THEOREM AdjustedAtMostOnce == Spec => []NeverAdjustedTwice
<1>1. TypeOK /\ Lineage => NeverAdjustedTwice
  <2>. SUFFICES ASSUME Lineage, NEW e \in Entries,
                       NEW k \in AdjustersOf(e), NEW l \in AdjustersOf(e)
                PROVE  k = l
    BY DEF NeverAdjustedTwice
  <2>1. e # NoEntry
    BY DEF Entries, NoEntry
  <2>. QED  BY <2>1 DEF Lineage, AdjustersOf
<1>. QED  BY <1>1, InitLineage, NextLineage, TypeCorrect, PTL DEF Spec

-----------------------------------------------------------------------------
(* Where no reopening takes anything away: only the rollback of a month      *)
(* deletes an entry that others rely on                                      *)

\* What is adjusted has its adjustment.
AdjustmentsStand ==
    \A e \in Entries :
        /\ entry[e].status = "REVERSED" => \E k \in Entries : entry[k].reverses = e
        /\ entry[e].status = "SUPERSEDED" => \E k \in Entries : entry[k].corrects = e

\* Nothing but a commit that posts writes an entry then.
LEMMA EntriesArePosted ==
  ASSUME NothingTaken, [Next]_vars
  PROVE  \/ UNCHANGED entry
         \/ \E r \in Requests, e \in Entries : PostingCommit(r, e)
  BY EntryWriters DEF NothingTaken, ledgerVars, vars

\* An original gets its status together with the entry that adjusts it.
LEMMA PostsAdjustmentsStand ==
  ASSUME TypeOK, Lineage, AdjustmentsStand,
         NEW e \in Entries, NEW u, NEW o, NEW st, Posts(e, u, o, st)
  PROVE  AdjustmentsStand'
<1>1. \A k \in Entries :
        /\ entry[k].reverses # NoEntry \/ entry[k].corrects # NoEntry => k # e
        /\ k # e => /\ entry'[k].reverses = entry[k].reverses
                    /\ entry'[k].corrects = entry[k].corrects
  <2>1. ASSUME NEW k \in Entries, k # e
        PROVE  /\ entry'[k].reverses = entry[k].reverses
               /\ entry'[k].corrects = entry[k].corrects
    BY <2>1, PostsKeeps
  <2>2. entry[e].reverses = NoEntry /\ entry[e].corrects = NoEntry
    BY DEF Posts, Lineage, EntryLive
  <2>. QED  BY <2>1, <2>2
<1>2. NoEntry \notin Entries
  BY DEF NoEntry, Entries
<1>3. ASSUME NEW k \in Entries
      PROVE  /\ entry'[k].status = "REVERSED"
                    => \E l \in Entries : entry'[l].reverses = k
             /\ entry'[k].status = "SUPERSEDED"
                    => \E l \in Entries : entry'[l].corrects = k
  <2>1. CASE k = e
    BY <2>1 DEF Posts
  <2>2. CASE k # e /\ k = o
    <3>1. entry'[k].status = st
      BY <2>2, PostsKeeps
    <3>. QED  BY <2>2, <3>1 DEF Posts
  <2>3. CASE k \notin {e, o}
    <3>1. entry'[k] = entry[k]
      BY <2>3 DEF Posts
    <3>. QED  BY <1>1, <1>2, <3>1 DEF AdjustmentsStand
  <2>. QED  BY <2>1, <2>2, <2>3
<1>. QED  BY <1>3 DEF AdjustmentsStand, Entries

\* Every step keeps that.
LEMMA NextAdjustmentsStand ==
  ASSUME TypeOK, Lineage, AdjustmentsStand, NothingTaken, [Next]_vars
  PROVE  AdjustmentsStand'
<1>1. CASE UNCHANGED entry
  BY <1>1 DEF AdjustmentsStand
<1>2. ASSUME NEW r \in Requests, NEW e \in Entries, PostingCommit(r, e)
      PROVE  AdjustmentsStand'
  BY <1>2, SomePosting, PostsAdjustmentsStand
<1>. QED  BY <1>1, <1>2, EntriesArePosted

\* A set counts one if it has an element and no two, none if it has none.
LEMMA CountOfOne ==
  ASSUME NEW S, \A k, l \in S : k = l
  PROVE  Cardinality(S) = IF S # {} THEN 1 ELSE 0
<1>1. CASE S = {}
  BY <1>1, FS_EmptySet
<1>2. ASSUME NEW k \in S PROVE Cardinality(S) = 1
  <2>1. S = {k}
    BY <1>2
  <2>. QED  BY <2>1, FS_Singleton
<1>. QED  BY <1>1, <1>2

\* With the lineage of the references that makes one adjustment of each.
LEMMA StandsExact ==
  ASSUME TypeOK, Lineage, AdjustmentsStand
  PROVE  AdjustedOnce
<1>. SUFFICES ASSUME NEW e \in Entries
              PROVE  LET reversers == {k \in Entries : entry[k].reverses = e}
                         correctors == {k \in Entries : entry[k].corrects = e}
                     IN  /\ Cardinality(reversers) =
                              IF entry[e].status = "REVERSED" THEN 1 ELSE 0
                         /\ Cardinality(correctors) =
                              IF entry[e].status = "SUPERSEDED" THEN 1 ELSE 0
  BY DEF AdjustedOnce
<1>. DEFINE R == {k \in Entries : entry[k].reverses = e}
            C == {k \in Entries : entry[k].corrects = e}
<1>1. e # NoEntry
  BY DEF Entries, NoEntry
<1>2. (\A k, l \in R : k = l) /\ (R # {} <=> entry[e].status = "REVERSED")
  BY <1>1 DEF Lineage, AdjustmentsStand
<1>3. (\A k, l \in C : k = l) /\ (C # {} <=> entry[e].status = "SUPERSEDED")
  BY <1>1 DEF Lineage, AdjustmentsStand
<1>. HIDE DEF R, C
<1>4. /\ Cardinality(R) = IF entry[e].status = "REVERSED" THEN 1 ELSE 0
      /\ Cardinality(C) = IF entry[e].status = "SUPERSEDED" THEN 1 ELSE 0
  BY <1>2, <1>3, CountOfOne
<1>. QED  BY <1>4 DEF R, C

\* Where no month is reopened the lineage of adjustments is exact: a reversed
\* entry has its one reversal, a superseded one its one correction, and no
\* other entry is referred to.
THEOREM AdjustmentsExact ==
  ASSUME "reopen" \notin Ops
  PROVE  Spec => []AdjustedOnce
<1>. DEFINE Inv == TypeOK /\ NobodyReopens /\ Lineage /\ AdjustmentsStand
<1>1. Init => Inv
  BY InitType, InitNobodyReopens, InitLineage
     DEF Init, AdjustmentsStand, NoEntryRow
<1>2. Inv /\ [Next]_vars => Inv'
  BY NextType, NextNobodyReopens, NobodyTakes, NextLineage, NextAdjustmentsStand
<1>3. Inv => AdjustedOnce
  BY StandsExact
<1>. QED  BY <1>1, <1>2, <1>3, PTL DEF Spec

\* A transaction that counts as posted is the source of an entry.
PostedHaveEntry ==
    \A t \in Txs : tx[t].status \in {"POSTED", "CORRECTED"} =>
        \E e \in Entries : entry[e].source = t

\* A commit posts what it makes POSTED, and the entries of the others stay.
LEMMA PostsHaveEntry ==
  ASSUME TypeOK, PostingInv, PostedHaveEntry,
         NEW e \in Entries, NEW u \in Txs \cup {NoTx}, NEW o, NEW st,
         Posts(e, u, o, st), WritesTx(u, o)
  PROVE  PostedHaveEntry'
<1>1. \A k \in Entries : entry[k].source # NoTx => entry'[k].source = entry[k].source
  BY PostsKeeps DEF PostingInv, SourcesUnique, Posts, EntryLive
<1>2. o # NoEntry => o \in Entries
  BY DEF Posts
<1>3. \A t \in Txs : t # NoTx
  BY LedgerConstants DEF LedgerConstants
<1>4. ASSUME NEW t \in Txs, tx'[t].status \in {"POSTED", "CORRECTED"}
      PROVE  \E k \in Entries : entry'[k].source = t
  <2>1. CASE t = u
    BY <2>1 DEF Posts
  <2>2. CASE t # u
    <3>1. \E k \in Entries : entry[k].source = t
      BY <1>2, <1>4, <2>2 DEF WritesTx, PostedHaveEntry
    <3>. QED  BY <1>1, <1>3, <3>1
  <2>. QED  BY <2>1, <2>2
<1>. QED  BY <1>4 DEF PostedHaveEntry, Entries

\* The transaction a commit posts from, if it does.
LEMMA PostedTx ==
  ASSUME TypeOK, NEW r \in Requests, NEW e \in Entries, PostingCommit(r, e)
  PROVE  \E u \in Txs \cup {NoTx} : \E o, st : Posts(e, u, o, st) /\ WritesTx(u, o)
<1>1. req[r].tx \in Txs \cup {NoTx}
  BY RequestFields DEF TypeOK, Request
<1>. QED  BY <1>1, PostingPosts, PostingWritesTx DEF PostingCommit

\* Every step keeps that.
LEMMA NextPostedHaveEntry ==
  ASSUME TypeOK, PostingInv, PostedHaveEntry, MatchedRows, NothingTaken,
         [Next]_vars
  PROVE  PostedHaveEntry'
<1>1. CASE UNCHANGED entry /\ \A t \in Txs : Moves(t)
  <2>1. \A t \in Txs : tx'[t].status \in {"POSTED", "CORRECTED"}
                            => tx'[t].status = tx[t].status
    BY <1>1 DEF Moves, Kept, Entered, Updated, Absorbed, Removed, Unplanned, Unposted
  <2>. QED  BY <1>1, <2>1 DEF PostedHaveEntry
<1>2. ASSUME NEW r \in Requests, NEW e \in Entries, PostingCommit(r, e)
      PROVE  PostedHaveEntry'
  BY <1>2, PostedTx, PostsHaveEntry
<1>. QED  BY <1>1, <1>2, MovesOrPosts

\* The unique key makes that one entry.
LEMMA HaveOneEntry ==
  ASSUME PostingInv, PostedHaveEntry
  PROVE  PostedByOneEntry
<1>. SUFFICES ASSUME NEW t \in Txs
              PROVE  IF tx[t].status \in {"POSTED", "CORRECTED"}
                     THEN \E e \in Entries : Sourced(t) = {e}
                     ELSE Sourced(t) = {}
  BY DEF PostedByOneEntry
<1>1. CASE tx[t].status \in {"POSTED", "CORRECTED"}
  <2>1. PICK e \in Entries : entry[e].source = t
    BY <1>1 DEF PostedHaveEntry
  <2>2. t # NoTx
    BY LedgerConstants DEF LedgerConstants
  <2>3. Sourced(t) = {e}
    BY <2>1, <2>2 DEF PostingInv, SourcesUnique, Sourced
  <2>. QED  BY <1>1, <2>3
<1>2. CASE tx[t].status \notin {"POSTED", "CORRECTED"}
  BY <1>2, UnpostedHasNoEntry DEF Sourced
<1>. QED  BY <1>1, <1>2

\* Where no month is reopened a transaction that counts as posted has one
\* entry, and one that does not has none, whatever races to confirm, change,
\* delete or adjust it.
THEOREM PostedOnce ==
  ASSUME "reopen" \notin Ops
  PROVE  Spec => []PostedByOneEntry
<1>. DEFINE Inv == PostingInv /\ NobodyReopens /\ MatchedRows /\ PostedHaveEntry
<1>1. Init => Inv
  BY InitPostingInv, InitNobodyReopens, InitMatchedRows
     DEF Init, PostedHaveEntry, NoTxRow
<1>2. Inv /\ [Next]_vars => Inv'
  BY NextPostingInv, NextNobodyReopens, NobodyTakes, NextMatchedRows,
     NextPostedHaveEntry DEF PostingInv
<1>3. Inv => PostedByOneEntry
  BY HaveOneEntry
<1>. QED  BY <1>1, <1>2, <1>3, PTL DEF Spec
=============================================================================
