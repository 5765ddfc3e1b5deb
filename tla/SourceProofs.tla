----------------------------- MODULE SourceProofs -----------------------------
(***************************************************************************)
(* Theorems about what stands behind a posting, where no reopening takes   *)
(* anything away: the plan item of a transaction tells what has become of  *)
(* it, and a card cancellation has reversed the approval its row names.    *)
(***************************************************************************)
EXTENDS PostingProofs

-----------------------------------------------------------------------------
(* Plan items *)

\* An id not used yet has no plan item.
UnusedUnplanned ==
    \A t \in Txs : tx[t].status = "ABSENT" => plan[t].status = "NONE"

\* No plan item is matched with a card cancellation.
NoPlannedCancellation ==
    \A t \in Txs : plan[t].status # "NONE" /\ tx[t].row # NoRow =>
        CancelTarget[tx[t].row] = NoRow

\* A confirmation that leaves the plan item alone has none to think of.
ConfirmUnplanned ==
    \A r \in Requests :
        req[r].at = "confirmCommit" /\ (~ req[r].flag \/ req[r].entry # NoEntry)
            => /\ tx[req[r].tx].status # "ABSENT"
               /\ plan[req[r].tx].status = "NONE"

PlanInv ==
    /\ PostingInv
    /\ MatchedRows
    /\ Lineage
    /\ UnusedUnplanned
    /\ NoPlannedCancellation
    /\ ConfirmUnplanned
    /\ PlanFollowsTransaction

\* What the commits that post write of the plan items.
LEMMA PostingPlans ==
  ASSUME TypeOK, NEW r \in Requests, NEW e \in Entries
  PROVE  LET q == req[r] IN
         /\ ConfirmCommit(r, e) =>
                /\ q.flag => plan[q.tx].status # "NONE"
                /\ \A x \in Txs : plan'[x].status =
                    IF q.flag /\ x = q.tx THEN "CONFIRMED" ELSE plan[x].status
         /\ ConfirmCancellationCommit(r, e) \/ CorrectCommit(r, e) =>
                UNCHANGED plan
         /\ ReverseCommit(r, e) =>
                \A x \in Txs : plan'[x].status =
                    IF x = entry[q.entry].source /\ plan[x].status = "CONFIRMED"
                    THEN "MATCHED" ELSE plan[x].status
<1>. DEFINE q == req[r]
            t == entry[q.entry].source
<1>1. plan \in [Txs -> PlanRow] /\ NoTx \notin Txs
  BY LedgerConstants DEF LedgerConstants, TypeOK, LedgerRowsOK
<1>2. ASSUME ConfirmCommit(r, e)
      PROVE  /\ q.flag => plan[q.tx].status # "NONE"
             /\ \A x \in Txs : plan'[x].status =
                    IF q.flag /\ x = q.tx THEN "CONFIRMED" ELSE plan[x].status
  <2>1. /\ q.flag => plan[q.tx].status # "NONE"
        /\ plan' = IF q.flag THEN [plan EXCEPT ![q.tx].status = "CONFIRMED"]
                             ELSE plan
    BY <1>2 DEF ConfirmCommit
  <2>. QED  BY <1>1, <2>1 DEF PlanRow
<1>3. ConfirmCancellationCommit(r, e) \/ CorrectCommit(r, e) => UNCHANGED plan
  BY DEF ConfirmCancellationCommit, CorrectCommit
<1>4. ASSUME ReverseCommit(r, e)
      PROVE  \A x \in Txs : plan'[x].status =
                IF x = t /\ plan[x].status = "CONFIRMED"
                THEN "MATCHED" ELSE plan[x].status
  <2>1. RestorePlanning(t, q.entry)
    BY <1>4 DEF ReverseCommit
  <2>2. CASE t = NoTx \/ plan[t].status = "NONE"
    BY <1>1, <2>1, <2>2 DEF RestorePlanning
  <2>3. CASE ~ (t = NoTx \/ plan[t].status = "NONE")
    <3>1. plan' = [plan EXCEPT ![t].status = IF @ = "CONFIRMED" THEN "MATCHED"
                                             ELSE @]
      BY <2>1, <2>3 DEF RestorePlanning
    <3>. QED  BY <1>1, <3>1 DEF PlanRow
  <2>. QED  BY <2>2, <2>3
<1>. QED  BY <1>2, <1>3, <1>4

\* They give no item to a transaction and take none.
LEMMA PostingKeepsPlanned ==
  ASSUME TypeOK, NEW r \in Requests, NEW e \in Entries, PostingCommit(r, e),
         NEW x \in Txs
  PROVE  plan'[x].status = "NONE" <=> plan[x].status = "NONE"
  BY PostingPlans DEF PostingCommit

\* A used id without a plan item stays one.
LEMMA UnplannedStays ==
  ASSUME TypeOK, MatchedRows, NothingTaken, [Next]_vars, NEW x \in Txs,
         tx[x].status # "ABSENT", plan[x].status = "NONE"
  PROVE  tx'[x].status # "ABSENT" /\ plan'[x].status = "NONE"
<1>1. CASE Moves(x)
  BY <1>1 DEF Moves, Kept, Entered, Updated, Absorbed, Removed, Unplanned, Unposted
<1>2. ASSUME NEW r \in Requests, NEW e \in Entries, PostingCommit(r, e)
      PROVE  tx'[x].status # "ABSENT" /\ plan'[x].status = "NONE"
  BY <1>2, PostingKeepsPlanned, PostedTx DEF WritesTx
<1>. QED  BY <1>1, <1>2, MovesOrPosts

\* What a confirmation goes on with.
LEMMA ConfirmReads ==
  ASSUME NEW r \in Requests, NEW t \in Txs, ConfirmRead(r, t)
  PROVE  \E rec : /\ Hold(r, rec)
                  /\ rec.tx = t
                  /\ ~ rec.flag => plan[t].status = "NONE"
                  /\ IF IsCancellation(t) THEN rec.entry \in CancelledBy(t)
                                          ELSE rec.entry = NoEntry
<1>1. PICK s \in IF LinkedSchedules(t) = {} THEN {NoSchedule}
                                            ELSE LinkedSchedules(t) :
        LET q == [Idle EXCEPT !.at = "confirmCommit", !.tx = t,
                         !.month = tx[t].month, !.amount = tx[t].amount,
                         !.flag = (plan[t].status # "NONE"),
                         !.schedule = s]
        IN  IF IsCancellation(t)
            THEN \E e \in CancelledBy(t) :
                Hold(r, [q EXCEPT !.entry = e,
                                  !.amount = entry[e].amount,
                                  !.status = tx[entry[e].source].status])
            ELSE Hold(r, q)
  BY DEF ConfirmRead
<1>. DEFINE q == [Idle EXCEPT !.at = "confirmCommit", !.tx = t,
                         !.month = tx[t].month, !.amount = tx[t].amount,
                         !.flag = (plan[t].status # "NONE"),
                         !.schedule = s]
            c(e) == [q EXCEPT !.entry = e, !.amount = entry[e].amount,
                              !.status = tx[entry[e].source].status]
<1>2. /\ q.tx = t /\ (~ q.flag => plan[t].status = "NONE") /\ q.entry = NoEntry
      /\ \A e : c(e).tx = t /\ (~ c(e).flag => plan[t].status = "NONE")
               /\ c(e).entry = e
  BY DEF Idle
<1>3. CASE IsCancellation(t)
  <2>1. PICK e \in CancelledBy(t) : Hold(r, c(e))
    BY <1>1, <1>3
  <2>. HIDE DEF c
  <2>. QED  BY <1>2, <1>3, <2>1
<1>4. CASE ~ IsCancellation(t)
  <2>1. Hold(r, q)
    BY <1>1, <1>4
  <2>. HIDE DEF q
  <2>. QED  BY <1>2, <1>4, <2>1
<1>. QED  BY <1>3, <1>4

\* Confirmations under way keep to transactions without an item.
LEMMA NextConfirmUnplanned ==
  ASSUME PlanInv, NothingTaken, [Next]_vars
  PROVE  ConfirmUnplanned'
<1>. USE DEF PlanInv, PostingInv
<1>. DEFINE Fits(q) == q.at = "confirmCommit" /\ (~ q.flag \/ q.entry # NoEntry)
                => tx'[q.tx].status # "ABSENT" /\ plan'[q.tx].status = "NONE"
<1>1. ASSUME NEW x \in Requests PROVE Fits(req[x])
  <2>. SUFFICES ASSUME req[x].at = "confirmCommit",
                       ~ req[x].flag \/ req[x].entry # NoEntry
                PROVE  tx'[req[x].tx].status # "ABSENT" /\ plan'[req[x].tx].status = "NONE"
    OBVIOUS
  <2>1. req[x].tx \in Txs
    BY RequestFields DEF TypeOK, WellFormed
  <2>2. tx[req[x].tx].status # "ABSENT" /\ plan[req[x].tx].status = "NONE"
    BY DEF ConfirmUnplanned
  <2>. QED  BY <2>1, <2>2, UnplannedStays
<1>2. ASSUME \A x \in Requests : req'[x] = req[x] \/ req'[x].at # "confirmCommit"
      PROVE  ConfirmUnplanned'
  BY <1>1, <1>2 DEF ConfirmUnplanned
<1>3. CASE UNCHANGED req
  BY <1>2, <1>3
<1>4. ASSUME NEW r \in Requests, StepsTo(r, Steps \ DecidedSteps)
      PROVE  ConfirmUnplanned'
  BY <1>2, <1>4 DEF StepsTo, DecidedSteps, Idle
<1>5. ASSUME NEW r \in Requests, StepsTo(r, {"collectRowInsert", "collectRowAbsorb"})
      PROVE  ConfirmUnplanned'
  BY <1>2, <1>5 DEF StepsTo, Idle
<1>6. ASSUME NEW r \in Requests, NEW t \in Txs, ConfirmRead(r, t)
      PROVE  ConfirmUnplanned'
  <2>1. UNCHANGED <<tx, plan>> /\ tx[t].status = "READY_TO_POST"
    BY <1>6 DEF ConfirmRead, CanBeConfirmed, ledgerVars
  <2>3. /\ IsCancellation(t) /\ CancelledBy(t) # {} => plan[t].status = "NONE"
        /\ NoEntry \notin CancelledBy(t)
    BY DEF IsCancellation, CancelledBy, NoPlannedCancellation, Entries, NoEntry
  <2>2. PICK rec : /\ Hold(r, rec) /\ rec.tx = t
                   /\ ~ rec.flag => plan[t].status = "NONE"
                   /\ IF IsCancellation(t) THEN rec.entry \in CancelledBy(t)
                                           ELSE rec.entry = NoEntry
    BY <1>6, ConfirmReads
  <2>4. rec.entry # NoEntry => plan[t].status = "NONE"
    BY <2>2, <2>3
  <2>5. \A x \in Requests : req'[x] = IF x = r THEN rec ELSE req[x]
    BY <2>2 DEF Hold, TypeOK, RequestsOK
  <2>6. Fits(rec)
    BY <2>1, <2>2, <2>4
  <2>7. \A x \in Requests : Fits(req'[x])
    BY <1>1, <2>5, <2>6
  <2>. QED  BY <2>7 DEF ConfirmUnplanned
<1>. QED  BY <1>3, <1>4, <1>5, <1>6, WhereRequestsGo

\* Ids without an item and items without a cancellation stay so.
LEMMA NextUnplanned ==
  ASSUME PlanInv, NothingTaken, [Next]_vars
  PROVE  UnusedUnplanned' /\ NoPlannedCancellation'
<1>. USE DEF PlanInv, PostingInv
<1>1. ASSUME NEW x \in Txs
      PROVE  /\ tx'[x].status = "ABSENT" => plan'[x].status = "NONE"
             /\ plan'[x].status # "NONE" /\ tx'[x].row # NoRow =>
                    CancelTarget[tx'[x].row] = NoRow
  <2>1. CASE Moves(x)
    BY <2>1 DEF Moves, Kept, Entered, Updated, Absorbed, Removed, Unplanned,
                Unposted, UnusedUnplanned, NoPlannedCancellation
  <2>2. ASSUME NEW r \in Requests, NEW e \in Entries, PostingCommit(r, e)
        PROVE  /\ tx'[x].row = tx[x].row
               /\ tx'[x].status = "ABSENT" => tx[x].status = "ABSENT"
               /\ plan'[x].status = "NONE" <=> plan[x].status = "NONE"
    BY <2>2, PostingKeepsPlanned, PostedTx DEF WritesTx
  <2>3. CASE \E r \in Requests, e \in Entries : PostingCommit(r, e)
    BY <2>2, <2>3 DEF UnusedUnplanned, NoPlannedCancellation
  <2>. QED  BY <2>1, <2>3, MovesOrPosts
<1>. QED  BY <1>1 DEF UnusedUnplanned, NoPlannedCancellation

\* A posting from a transaction takes nothing back; one from nothing takes
\* back the transaction whose entry it reverses, and no other.
LEMMA PostsTakeBack ==
  ASSUME TypeOK, SourcesUnique, Lineage,
         NEW e \in Entries, NEW u, NEW o, NEW st, Posts(e, u, o, st),
         NEW x \in Txs
  PROVE  TakenBack(x)' <=> \/ TakenBack(x)
                           \/ /\ st = "REVERSED" /\ u = NoTx
                              /\ entry[o].source = x
<1>1. x # NoTx /\ NoEntry \notin Entries
  BY LedgerConstants DEF LedgerConstants, Entries, NoEntry
<1>2. \A k \in Entries \ {e} :
        /\ entry'[k].source = entry[k].source
        /\ entry'[k].reverses = entry[k].reverses
        /\ entry[k].status \in EntryLive => entry'[k].status \in EntryLive
  <2>1. o # NoEntry => st \in EntryLive
    BY DEF Posts, EntryLive
  <2>. QED  BY <1>1, <2>1, PostsKeeps
<1>3. /\ entry[e].source = NoTx /\ entry[e].reverses = NoEntry
      /\ \A k \in Entries : entry[k].reverses # e
  BY <1>1 DEF Posts, SourcesUnique, Lineage, EntryLive
<1>4. /\ entry'[e].source = u
      /\ entry'[e].reverses = IF st = "REVERSED" THEN o ELSE NoEntry
      /\ st = "REVERSED" => o \in Entries \ {e}
  BY DEF Posts
<1>5. \A k \in Entries : entry'[k].reverses # e
  BY <1>1, <1>2, <1>3, <1>4
<1>6. ASSUME TakenBack(x)'
      PROVE  \/ TakenBack(x)
             \/ st = "REVERSED" /\ u = NoTx /\ entry[o].source = x
  <2>1. PICK f \in Entries, k \in Entries :
            /\ entry'[f].source = x
            /\ entry'[k].reverses = f /\ entry'[k].source = NoTx
    BY <1>6 DEF TakenBack, Sourced, Entries
  <2>2. f # e /\ entry[f].source = x /\ entry[f].status \in EntryLive
    BY <1>1, <1>2, <1>5, <2>1 DEF SourcesUnique
  <2>3. CASE k = e
    BY <1>1, <1>4, <2>1, <2>2, <2>3
  <2>4. CASE k # e
    <3>1. entry[k].reverses = f /\ entry[k].source = NoTx
      BY <1>2, <2>1, <2>4
    <3>2. f \in Sourced(x)
      BY <2>2 DEF Sourced
    <3>. QED  BY <3>1, <3>2 DEF TakenBack
  <2>. QED  BY <2>3, <2>4
<1>7. ASSUME TakenBack(x) PROVE TakenBack(x)'
  <2>1. PICK f \in Entries, k \in Entries :
            /\ entry[f].source = x /\ entry[f].status \in EntryLive
            /\ entry[k].reverses = f /\ entry[k].source = NoTx
    BY <1>7 DEF TakenBack, Sourced
  <2>2. f # e /\ k # e
    BY <1>1, <1>3, <2>1
  <2>3. /\ entry'[f].source = x /\ entry'[f].status \in EntryLive
        /\ entry'[k].reverses = f /\ entry'[k].source = NoTx
    BY <1>2, <2>1, <2>2
  <2>. QED  BY <2>3 DEF TakenBack, Sourced, Entries, EntryLive
<1>8. ASSUME st = "REVERSED", u = NoTx, entry[o].source = x PROVE TakenBack(x)'
  <2>1. o \in Entries \ {e} /\ entry[o].status \in EntryLive
    BY <1>1, <1>4, <1>8 DEF SourcesUnique
  <2>2. /\ entry'[o].source = x /\ entry'[o].status \in EntryLive
        /\ entry'[e].reverses = o /\ entry'[e].source = NoTx
    BY <1>2, <1>4, <1>8, <2>1
  <2>. QED  BY <2>1, <2>2 DEF TakenBack, Sourced, Entries, EntryLive
<1>. QED  BY <1>6, <1>7, <1>8

\* The item of a transaction whose entry is POSTED is confirmed.
LEMMA OriginalConfirmed ==
  ASSUME PlanInv, NEW o \in Entries, entry[o].status = "POSTED",
         entry[o].source \in Txs
  PROVE  LET x == entry[o].source IN
         /\ tx[x].status = "POSTED"
         /\ ~ TakenBack(x)
         /\ plan[x].status \in {"NONE", "CONFIRMED"}
<1>. DEFINE x == entry[o].source
<1>. USE DEF PlanInv, PostingInv
<1>1. x # NoTx /\ o # NoEntry
  BY LedgerConstants DEF LedgerConstants, Entries, NoEntry
<1>2. tx[x].status = "POSTED"
  BY <1>1 DEF PostingStatusAgrees
<1>3. ASSUME TakenBack(x) PROVE FALSE
  <2>1. PICK f \in Entries, k \in Entries :
            entry[f].source = x /\ entry[k].reverses = f
    BY <1>3 DEF TakenBack, Sourced
  <2>2. f = o
    BY <1>1, <2>1 DEF SourcesUnique
  <2>. QED  BY <1>1, <2>1, <2>2 DEF Lineage
<1>. QED  BY <1>2, <1>3 DEF PlanFollowsTransaction, Unposted

\* The plan items go on following when a commit posts.
LEMMA PostingKeepsFollowing ==
  ASSUME PlanInv, NEW r \in Requests, NEW e \in Entries, PostingCommit(r, e)
  PROVE  PlanFollowsTransaction'
<1>. USE DEF PlanInv, PostingInv
<1>. DEFINE q == req[r]
            Follows(t) == plan'[t].status # "NONE" =>
                plan'[t].status =
                    CASE tx'[t].status = "GONE" -> "DRAFT"
                      [] tx'[t].status \in Unposted \/ TakenBack(t)' -> "MATCHED"
                      [] OTHER -> "CONFIRMED"
<1>1. /\ q \in Request /\ WellFormed(q) /\ NoTx \notin Txs /\ NoEntry \notin Entries
      /\ \A x \in Txs : x # NoTx
  BY RequestFields, LedgerConstants DEF LedgerConstants, TypeOK, Entries, NoEntry
<1>2. ASSUME NEW x \in Txs, tx'[x].status = tx[x].status,
             plan'[x].status = plan[x].status, TakenBack(x)' <=> TakenBack(x)
      PROVE  Follows(x)
  BY <1>2 DEF PlanFollowsTransaction
<1>3. ASSUME ConfirmCommit(r, e) PROVE \A x \in Txs : Follows(x)
  <2>1. Posts(e, q.tx, NoEntry, "POSTED") /\ WritesTx(q.tx, NoEntry)
    BY <1>3, PostingPosts, PostingWritesTx
  <2>2. q.tx \in Txs /\ NotSourced(q.tx) /\ q.at = "confirmCommit"
    BY <1>1, <1>3 DEF ConfirmCommit, WellFormed
  <2>3. \A x \in Txs : TakenBack(x)' <=> TakenBack(x)
    BY <2>1, PostsTakeBack
  <2>4. \A x \in Txs : plan'[x].status =
                IF q.flag /\ x = q.tx THEN "CONFIRMED" ELSE plan[x].status
    BY <1>3, PostingPlans
  <2>5. ASSUME NEW x \in Txs, x # q.tx PROVE Follows(x)
    BY <1>2, <2>1, <2>3, <2>4, <2>5 DEF WritesTx
  <2>6. CASE q.flag
    <3>1. ASSUME NEW x \in Txs, x = q.tx PROVE Follows(x)
      <4>1. tx'[x].status = "POSTED" /\ plan'[x].status = "CONFIRMED"
        BY <2>1, <2>4, <2>6, <3>1 DEF WritesTx
      <4>2. ~ TakenBack(x)
        BY <2>2, <3>1, UnsourcedHasNoEntry DEF TakenBack, Sourced
      <4>. QED  BY <2>3, <4>1, <4>2 DEF Unposted
    <3>. QED  BY <2>5, <3>1
  <2>7. CASE ~ q.flag
    <3>1. plan'[q.tx].status = "NONE"
      BY <2>2, <2>4, <2>7 DEF ConfirmUnplanned
    <3>. QED  BY <2>5, <3>1
  <2>. QED  BY <2>6, <2>7
<1>4. ASSUME ConfirmCancellationCommit(r, e) PROVE \A x \in Txs : Follows(x)
  <2>1. Posts(e, q.tx, q.entry, "REVERSED") /\ WritesTx(q.tx, q.entry)
    BY <1>4, PostingPosts, PostingWritesTx
  <2>2. /\ q.tx \in Txs /\ q.at = "confirmCommit" /\ q.entry # NoEntry
        /\ entry[q.entry].status = "POSTED" /\ q.entry \in Entries
    BY <1>1, <1>4 DEF ConfirmCancellationCommit, WellFormed, Request
  <2>3. \A x \in Txs : TakenBack(x)' <=> TakenBack(x)
    BY <1>1, <2>1, <2>2, PostsTakeBack
  <2>4. UNCHANGED plan
    BY <1>4, PostingPlans
  <2>5. plan'[q.tx].status = "NONE"
    BY <2>2, <2>4 DEF ConfirmUnplanned
  <2>6. ASSUME NEW x \in Txs, x # q.tx, x = entry[q.entry].source
        PROVE  Follows(x)
    <3>1. /\ ~ TakenBack(x) /\ plan[x].status \in {"NONE", "CONFIRMED"}
          /\ tx'[x].status = "CORRECTED"
      BY <2>1, <2>2, <2>6, OriginalConfirmed DEF WritesTx
    <3>. QED  BY <2>3, <2>4, <3>1 DEF Unposted
  <2>7. ASSUME NEW x \in Txs, x # q.tx, x # entry[q.entry].source
        PROVE  Follows(x)
    BY <1>2, <2>1, <2>3, <2>4, <2>7 DEF WritesTx
  <2>. QED  BY <2>5, <2>6, <2>7
<1>5. ASSUME ReverseCommit(r, e) \/ CorrectCommit(r, e)
      PROVE  \A x \in Txs : Follows(x)
  <2>. DEFINE st == IF ReverseCommit(r, e) THEN "REVERSED" ELSE "SUPERSEDED"
  <2>1. Posts(e, NoTx, q.entry, st) /\ WritesTx(NoTx, q.entry)
    BY <1>5, PostingPosts, PostingWritesTx
  <2>2. entry[q.entry].status = "POSTED" /\ q.entry \in Entries
    BY <1>1, <1>5
       DEF ReverseCommit, CorrectCommit, ClaimOriginal, WellFormed, Request
  <2>3. ASSUME NEW x \in Txs, x = entry[q.entry].source PROVE Follows(x)
    <3>1. /\ ~ TakenBack(x) /\ plan[x].status \in {"NONE", "CONFIRMED"}
          /\ tx'[x].status = "CORRECTED"
      BY <1>1, <2>1, <2>2, <2>3, OriginalConfirmed DEF WritesTx
    <3>2. CASE ReverseCommit(r, e)
      <4>1. TakenBack(x)'
        BY <2>1, <2>3, <3>2, PostsTakeBack
      <4>2. plan'[x].status = IF plan[x].status = "CONFIRMED"
                              THEN "MATCHED" ELSE plan[x].status
        BY <2>3, <3>2, PostingPlans
      <4>. QED  BY <3>1, <4>1, <4>2
    <3>3. CASE ~ ReverseCommit(r, e)
      <4>1. ~ TakenBack(x)'
        BY <2>1, <3>1, <3>3, PostsTakeBack
      <4>2. UNCHANGED plan
        BY <1>5, <3>3, PostingPlans
      <4>. QED  BY <3>1, <4>1, <4>2 DEF Unposted
    <3>. QED  BY <3>2, <3>3
  <2>4. ASSUME NEW x \in Txs, x # entry[q.entry].source PROVE Follows(x)
    <3>1. TakenBack(x)' <=> TakenBack(x)
      BY <2>1, <2>4, PostsTakeBack
    <3>2. plan'[x].status = plan[x].status
      BY <1>5, <2>4, PostingPlans
    <3>. QED  BY <1>1, <1>2, <2>1, <2>4, <3>1, <3>2 DEF WritesTx
  <2>. QED  BY <2>3, <2>4
<1>6. \A x \in Txs : Follows(x)
  BY <1>3, <1>4, <1>5 DEF PostingCommit
<1>. QED  BY <1>6 DEF PlanFollowsTransaction

\* And when no commit posts.
LEMMA MovesKeepFollowing ==
  ASSUME PlanInv, UNCHANGED entry, \A x \in Txs : Moves(x)
  PROVE  PlanFollowsTransaction'
<1>1. ASSUME NEW x \in Txs, plan'[x].status # "NONE"
      PROVE  plan'[x].status =
                CASE tx'[x].status = "GONE" -> "DRAFT"
                  [] tx'[x].status \in Unposted \/ TakenBack(x)' -> "MATCHED"
                  [] OTHER -> "CONFIRMED"
  <2>1. TakenBack(x)' <=> TakenBack(x)
    BY DEF TakenBack, Sourced, Entries, EntryLive
  <2>2. plan[x].status # "NONE" =>
            plan[x].status =
                CASE tx[x].status = "GONE" -> "DRAFT"
                  [] tx[x].status \in Unposted \/ TakenBack(x) -> "MATCHED"
                  [] OTHER -> "CONFIRMED"
    BY DEF PlanInv, PlanFollowsTransaction
  <2>3. tx[x].status = "ABSENT" => plan[x].status = "NONE"
    BY DEF PlanInv, UnusedUnplanned
  <2>4. CASE Kept(x)
    BY <1>1, <2>1, <2>2, <2>4 DEF Kept
  <2>5. CASE Entered(x)
    BY <1>1, <2>3, <2>5 DEF Entered, Unposted
  <2>6. CASE Updated(x)
    BY <1>1, <2>2, <2>6 DEF Updated, Unposted
  <2>7. CASE Absorbed(x)
    BY <2>7 DEF Absorbed, Unposted
  <2>8. CASE Removed(x)
    <3>1. ~ TakenBack(x)
      BY <2>8, UnpostedHasNoEntry
         DEF Removed, Unposted, TakenBack, Sourced, PlanInv
    <3>. QED  BY <1>1, <2>1, <2>8, <3>1 DEF Removed, Unposted
  <2>9. CASE Unplanned(x)
    BY <1>1, <2>9 DEF Unplanned
  <2>. QED  BY <2>4, <2>5, <2>6, <2>7, <2>8, <2>9 DEF Moves
<1>. QED  BY <1>1 DEF PlanFollowsTransaction

LEMMA InitPlanInv == Init => PlanInv
  BY InitPostingInv, InitMatchedRows, InitLineage
     DEF Init, PlanInv, UnusedUnplanned, NoPlannedCancellation, ConfirmUnplanned,
         PlanFollowsTransaction, Idle, NoPlan

\* Every step that takes nothing away keeps all of that.
LEMMA NextPlanInv ==
  ASSUME PlanInv, NothingTaken, [Next]_vars
  PROVE  PlanInv'
<1>1. TypeOK /\ MatchedRows
  BY DEF PlanInv, PostingInv
<1>2. PlanFollowsTransaction'
  BY <1>1, MovesOrPosts, MovesKeepFollowing, PostingKeepsFollowing
<1>3. PostingInv' /\ MatchedRows' /\ Lineage'
  BY <1>1, NextPostingInv, NextMatchedRows, NextLineage DEF PlanInv
<1>4. UnusedUnplanned' /\ NoPlannedCancellation' /\ ConfirmUnplanned'
  BY NextUnplanned, NextConfirmUnplanned
<1>. QED  BY <1>2, <1>3, <1>4 DEF PlanInv

\* Where no month is reopened the plan item of every transaction tells what
\* has become of it, whatever is collected, generated, absorbed, confirmed,
\* adjusted, deleted and cancelled at the same time.
THEOREM PlansFollow ==
  ASSUME "reopen" \notin Ops
  PROVE  Spec => []PlanFollowsTransaction
<1>. DEFINE Inv == PlanInv /\ NobodyReopens
<1>1. Init => Inv
  BY InitPlanInv, InitNobodyReopens
<1>2. Inv /\ [Next]_vars => Inv'
  BY NextPlanInv, NextNobodyReopens, NobodyTakes DEF PlanInv, PostingInv
<1>3. Inv => PlanFollowsTransaction
  BY DEF PlanInv
<1>. QED  BY <1>1, <1>2, <1>3, PTL DEF Spec

-----------------------------------------------------------------------------
(* Card cancellations, where no transaction is updated while another is      *)
(* being confirmed: the update may make this one a cancellation              *)

UpdatesAlone ==
    \A r, y \in Requests : ~ (req[r].at = "updateCommit" /\ req[y].at = "confirmCommit")

\* e was posted from the transaction made from the row that t cancels.
ApprovalOf(t, e) ==
    /\ entry[e].source \in Txs
    /\ tx[entry[e].source].row = CancelTarget[tx[t].row]

\* t is a card cancellation and o the entry of its approval, or neither is.
RightKind(t, o) ==
    IF IsCancellation(t) THEN o # NoEntry /\ ApprovalOf(t, o) ELSE o = NoEntry

\* A confirmation under way goes on as the kind of its transaction demands.
ConfirmKinds ==
    \A r \in Requests : req[r].at = "confirmCommit" =>
        /\ tx[req[r].tx].status # "ABSENT"
        /\ tx[req[r].tx].status \in Unposted => RightKind(req[r].tx, req[r].entry)

\* So has every entry been posted that has a source.
EntryKinds ==
    \A e \in Entries : entry[e].source # NoTx =>
        RightKind(entry[e].source, entry[e].reverses)

KindInv ==
    /\ PostingInv
    /\ MatchedRows
    /\ ConfirmKinds
    /\ EntryKinds

\* The source of an entry is posted, and from then on stays what it is.
LEMMA SourceKindStays ==
  ASSUME KindInv, NothingTaken, [Next]_vars, NEW e \in Entries, entry[e].source # NoTx
  PROVE  /\ entry[e].source \in Txs
         /\ entry'[e].source = entry[e].source
         /\ entry'[e].reverses = entry[e].reverses
         /\ tx'[entry[e].source].row = tx[entry[e].source].row
         /\ tx'[entry[e].source].type = tx[entry[e].source].type
<1>. USE DEF KindInv, PostingInv
<1>1. entry[e].source \in Txs /\ entry[e].status \in EntryLive
  BY DEF TypeOK, LedgerRowsOK, EntryRow, SourcesUnique
<1>2. PICK t \in Txs : t = entry[e].source
  BY <1>1
<1>3. tx[t].status \in {"POSTED", "CORRECTED"}
  BY <1>2 DEF PostingStatusAgrees
<1>4. CASE UNCHANGED entry /\ \A x \in Txs : Moves(x)
  <2>1. tx'[t].row = tx[t].row /\ tx'[t].type = tx[t].type
    BY <1>3, <1>4 DEF Moves, Kept, Entered, Updated, Absorbed, Removed, Unplanned,
                      Unposted
  <2>. QED  BY <1>1, <1>2, <1>4, <2>1
<1>5. ASSUME NEW r \in Requests, NEW n \in Entries, PostingCommit(r, n)
      PROVE  /\ entry'[e].source = entry[e].source
             /\ entry'[e].reverses = entry[e].reverses
             /\ tx'[t].row = tx[t].row /\ tx'[t].type = tx[t].type
  <2>1. PICK u, o, st : u \in Txs \cup {NoTx} /\ Posts(n, u, o, st) /\ WritesTx(u, o)
    BY <1>5, PostedTx
  <2>2. e # n
    BY <1>1, <2>1 DEF Posts, EntryLive
  <2>. QED  BY <2>1, <2>2, PostsKeeps DEF WritesTx
<1>. QED  BY <1>1, <1>2, <1>4, <1>5, MovesOrPosts

\* What is of the right kind remains so as long as the transaction does.
LEMMA RightKindStays ==
  ASSUME KindInv, NothingTaken, [Next]_vars, NEW x \in Txs, NEW o \in Entries \cup {NoEntry},
         RightKind(x, o), tx'[x].row = tx[x].row, tx'[x].type = tx[x].type
  PROVE  RightKind(x, o)'
<1>1. CASE o = NoEntry
  BY <1>1 DEF RightKind, IsCancellation
<1>2. CASE o # NoEntry
  <2>1. ApprovalOf(x, o) /\ o \in Entries /\ entry[o].source # NoTx
    BY <1>2, LedgerConstants DEF LedgerConstants, RightKind, ApprovalOf
  <2>2. ApprovalOf(x, o)'
    BY <2>1, SourceKindStays DEF ApprovalOf
  <2>. QED  BY <1>2, <2>2 DEF RightKind, IsCancellation
<1>. QED  BY <1>1, <1>2

\* What is collected into an unposted transaction does not change its kind.
LEMMA ConfirmKindStays ==
  ASSUME KindInv, NothingTaken, [Next]_vars, NEW x \in Txs, NEW o \in Entries \cup {NoEntry},
         tx[x].status # "ABSENT", ~ Updated(x),
         tx[x].status \in Unposted => RightKind(x, o)
  PROVE  /\ tx'[x].status # "ABSENT"
         /\ tx'[x].status \in Unposted => RightKind(x, o)'
<1>. USE DEF KindInv, PostingInv
<1>1. CASE Kept(x) \/ Unplanned(x)
  BY <1>1, RightKindStays DEF Kept, Unplanned
<1>2. CASE Absorbed(x)
  <2>1. o = NoEntry
    BY <1>2 DEF Absorbed, RightKind, IsCancellation
  <2>. QED  BY <1>2, <2>1 DEF Absorbed, RightKind, IsCancellation, Unposted
<1>3. CASE Removed(x)
  BY <1>3 DEF Removed, Unposted
<1>4. ~ Entered(x)
  BY DEF Entered
<1>5. ASSUME NEW r \in Requests, NEW e \in Entries, PostingCommit(r, e)
      PROVE  /\ tx'[x].status # "ABSENT"
             /\ tx'[x].status \in Unposted => RightKind(x, o)'
  <2>1. /\ tx'[x].row = tx[x].row /\ tx'[x].type = tx[x].type
        /\ tx'[x].status \in {"POSTED", "CORRECTED", tx[x].status}
    BY <1>5, PostedTx DEF WritesTx
  <2>. QED  BY <2>1, RightKindStays DEF Unposted
<1>. QED  BY <1>1, <1>2, <1>3, <1>4, <1>5, MovesOrPosts DEF Moves

\* Every step keeps the confirmations under way of the right kind.
LEMMA NextConfirmKinds ==
  ASSUME KindInv, NothingTaken, UpdatesAlone, [Next]_vars
  PROVE  ConfirmKinds'
<1>. USE DEF KindInv, PostingInv
<1>. DEFINE Fits(q) == q.at = "confirmCommit" =>
                \E x \in Txs, o \in Entries \cup {NoEntry} :
                    /\ x = q.tx /\ o = q.entry
                    /\ tx'[x].status # "ABSENT"
                    /\ tx'[x].status \in Unposted => RightKind(x, o)'
<1>1. ASSUME NEW y \in Requests PROVE Fits(req[y])
  <2>. SUFFICES ASSUME req[y].at = "confirmCommit" PROVE Fits(req[y])
    OBVIOUS
  <2>1. PICK x \in Txs, o \in Entries \cup {NoEntry} :
            x = req[y].tx /\ o = req[y].entry
    BY RequestFields DEF TypeOK, WellFormed, Request
  <2>2. /\ tx[x].status # "ABSENT"
        /\ tx[x].status \in Unposted => RightKind(x, o)
    BY <2>1 DEF ConfirmKinds
  <2>3. ~ Updated(x)
    BY DEF UpdatesAlone, Updated
  <2>. QED  BY <2>1, <2>2, <2>3, ConfirmKindStays
<1>2. ASSUME \A y \in Requests : Fits(req'[y]) PROVE ConfirmKinds'
  <2>1. ASSUME NEW y \in Requests, req'[y].at = "confirmCommit"
        PROVE  /\ tx'[req'[y].tx].status # "ABSENT"
               /\ tx'[req'[y].tx].status \in Unposted
                    => RightKind(req[y].tx, req[y].entry)'
    <3>1. PICK x \in Txs, o \in Entries \cup {NoEntry} :
            /\ x = req'[y].tx /\ o = req'[y].entry
            /\ tx'[x].status # "ABSENT"
            /\ tx'[x].status \in Unposted => RightKind(x, o)'
      BY <1>2, <2>1
    <3>. QED  BY <3>1 DEF RightKind, IsCancellation, ApprovalOf
  <2>. QED  BY <2>1 DEF ConfirmKinds
<1>3. ASSUME \A y \in Requests : req'[y] = req[y] \/ req'[y].at # "confirmCommit"
      PROVE  ConfirmKinds'
  BY <1>1, <1>2, <1>3
<1>4. CASE UNCHANGED req
  BY <1>3, <1>4
<1>5. ASSUME NEW r \in Requests, NEW S, StepsTo(r, S), "confirmCommit" \notin S
      PROVE  ConfirmKinds'
  BY <1>3, <1>5 DEF StepsTo, Idle
<1>6. ASSUME NEW r \in Requests, NEW t \in Txs, ConfirmRead(r, t)
      PROVE  ConfirmKinds'
  <2>1. UNCHANGED <<tx, entry>> /\ tx[t].status = "READY_TO_POST"
    BY <1>6 DEF ConfirmRead, CanBeConfirmed, ledgerVars
  <2>2. PICK rec : /\ Hold(r, rec) /\ rec.tx = t
                   /\ IF IsCancellation(t) THEN rec.entry \in CancelledBy(t)
                                           ELSE rec.entry = NoEntry
    BY <1>6, ConfirmReads
  <2>3. PICK o \in Entries \cup {NoEntry} : o = rec.entry
    BY <2>2 DEF CancelledBy
  <2>4. RightKind(t, o)
    BY <2>2, <2>3 DEF RightKind, CancelledBy, ApprovalOf, Entries, NoEntry
  <2>5. RightKind(t, o)'
    BY <2>1, <2>4 DEF RightKind, ApprovalOf, IsCancellation
  <2>6. Fits(rec)
    BY <2>1, <2>2, <2>3, <2>5
  <2>7. \A y \in Requests : req'[y] = IF y = r THEN rec ELSE req[y]
    BY <2>2 DEF Hold, TypeOK, RequestsOK
  <2>. QED  BY <1>1, <1>2, <2>6, <2>7
<1>. QED  BY <1>4, <1>5, <1>6, WhereRequestsGo DEF DecidedSteps

\* An entry with a source is posted by a confirmation, which knows its kind.
LEMMA PostingKind ==
  ASSUME KindInv, NEW r \in Requests, NEW e \in Entries, PostingCommit(r, e),
         NEW u \in Txs, entry'[e].source = u
  PROVE  /\ RightKind(u, entry'[e].reverses)
         /\ entry'[e].reverses \in Entries \cup {NoEntry}
<1>. USE DEF KindInv, PostingInv
<1>. DEFINE q == req[r]
<1>1. q.entry \in Entries \cup {NoEntry} /\ u # NoTx
  BY RequestFields, LedgerConstants DEF LedgerConstants, TypeOK, Request
<1>2. CASE ReverseCommit(r, e) \/ CorrectCommit(r, e)
  BY <1>1, <1>2, PostingPosts DEF Posts
<1>3. CASE ConfirmCommit(r, e) \/ ConfirmCancellationCommit(r, e)
  <2>1. /\ q.at = "confirmCommit" /\ tx[q.tx].status \in Unposted
        /\ q.tx = u
        /\ entry'[e].reverses = q.entry
    BY <1>3, PostingPosts
       DEF ConfirmCommit, ConfirmCancellationCommit, Posts, Unposted
  <2>. QED  BY <1>1, <2>1 DEF ConfirmKinds
<1>. QED  BY <1>2, <1>3 DEF PostingCommit

\* Every step keeps the entries of the right kind.
LEMMA NextEntryKinds ==
  ASSUME KindInv, NothingTaken, TypeOK', [Next]_vars
  PROVE  EntryKinds'
<1>. USE DEF KindInv, PostingInv
<1>1. ASSUME NEW k \in Entries, entry[k].source # NoTx
      PROVE  RightKind(entry[k].source, entry[k].reverses)'
  <2>1. PICK x \in Txs, o \in Entries \cup {NoEntry} :
            x = entry[k].source /\ o = entry[k].reverses
    BY <1>1 DEF TypeOK, LedgerRowsOK, EntryRow
  <2>2. RightKind(x, o)
    BY <1>1, <2>1 DEF EntryKinds
  <2>3. /\ entry'[k].source = x /\ entry'[k].reverses = o
        /\ tx'[x].row = tx[x].row /\ tx'[x].type = tx[x].type
    BY <1>1, <2>1, SourceKindStays
  <2>4. RightKind(x, o)'
    BY <2>2, <2>3, RightKindStays
  <2>. QED  BY <2>3, <2>4 DEF RightKind, IsCancellation, ApprovalOf
<1>2. CASE UNCHANGED entry
  BY <1>1, <1>2 DEF EntryKinds, Entries
<1>3. ASSUME NEW r \in Requests, NEW e \in Entries, PostingCommit(r, e)
      PROVE  EntryKinds'
  <2>1. PICK v, w, st : v \in Txs \cup {NoTx} /\ Posts(e, v, w, st) /\ WritesTx(v, w)
    BY <1>3, PostedTx
  <2>2. ASSUME NEW k \in Entries, k # e, entry'[k].source # NoTx
        PROVE  RightKind(entry[k].source, entry[k].reverses)'
    BY <1>1, <2>1, <2>2, PostsKeeps
  <2>3. ASSUME entry'[e].source # NoTx
        PROVE  RightKind(entry[e].source, entry[e].reverses)'
    <3>1. v \in Txs /\ entry'[e].source = v
      BY <2>1, <2>3 DEF Posts
    <3>2. PICK o \in Entries \cup {NoEntry} : o = entry'[e].reverses
      BY <1>3, <3>1, PostingKind
    <3>3. RightKind(v, o)
      BY <1>3, <3>1, <3>2, PostingKind
    <3>4. RightKind(v, o)'
      BY <2>1, <3>1, <3>3, RightKindStays DEF WritesTx
    <3>. QED  BY <3>1, <3>2, <3>4 DEF RightKind, IsCancellation, ApprovalOf
  <2>. QED  BY <2>2, <2>3 DEF EntryKinds, Entries
<1>. QED  BY <1>2, <1>3, EntriesArePosted

LEMMA InitKindInv == Init => KindInv
  BY InitPostingInv, InitMatchedRows
     DEF Init, KindInv, ConfirmKinds, EntryKinds, Idle, NoEntryRow

LEMMA NextKindInv ==
  ASSUME KindInv, NothingTaken, UpdatesAlone, [Next]_vars
  PROVE  KindInv'
<1>1. PostingInv' /\ MatchedRows'
  BY NextPostingInv, NextMatchedRows DEF KindInv, PostingInv
<1>2. ConfirmKinds' /\ EntryKinds'
  BY <1>1, NextConfirmKinds, NextEntryKinds DEF PostingInv
<1>. QED  BY <1>1, <1>2 DEF KindInv

LEMMA KindsReverse == KindInv => CancellationReversesApproval
  BY DEF KindInv, EntryKinds, RightKind, ApprovalOf, CancellationReversesApproval

\* Where no month is reopened and no transaction updated, a posted card
\* cancellation has reversed the entry of the approval its row names, and
\* nothing else that was confirmed has reversed anything, whatever is
\* collected, absorbed, confirmed, adjusted and cancelled at the same time.
THEOREM CancellationsReverse ==
  ASSUME "reopen" \notin Ops, "update" \notin Ops
  PROVE  Spec => []CancellationReversesApproval
<1>. DEFINE Inv == KindInv /\ NobodyReopens /\ NobodyUpdates
<1>1. Init => Inv
  BY InitKindInv, InitNobodyReopens, InitNobodyUpdates
<1>2. Inv /\ [Next]_vars => Inv'
  <2>1. NobodyUpdates => UpdatesAlone
    BY DEF NobodyUpdates, UpdatesAlone
  <2>. QED
    BY <2>1, NextKindInv, NextNobodyReopens, NextNobodyUpdates, NobodyTakes
       DEF KindInv, PostingInv
<1>. QED  BY <1>1, <1>2, KindsReverse, PTL DEF Spec
=============================================================================
