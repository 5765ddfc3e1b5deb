# PERSONAL_ERP: a TLA+ model of the ledger, its jobs, its plans and its sessions

PERSONAL_ERP is a household accounting system: a NestJS API over MySQL (Prisma),
a Next.js web client, and a few shared packages. This directory models four parts
of it, each with its own processes:

- the *workspace ledger*: accounting months that are opened, closed and reopened,
  collected transactions that are confirmed into journal entries, reversals and
  corrections, carry forwards, official statements, imported rows and liability
  repayments (`LedgerSystem` is the composition);
- the background *jobs* that collect imported rows in bulk (`ImportJobs`);
- *planning*: recurring rules, the insurance policies that manage one, and the
  generation of a month's plan items (`Planning`);
- *sessions*: the refresh tokens of a user on the API, and the web client that uses
  them (`WebClient`).

Modules of properties, abstraction, model checking and proofs go with them.

Paths below are relative to `src/apps/api/src/modules/` unless they start with
`src/`.

## 1. The system

### Components

| Component | State it keeps | Operations | What is hard | What makes it correct |
|---|---|---|---|---|
| accounting periods | `AccountingPeriod` (status, `nextJournalEntrySequence`), `OpeningBalanceSnapshot`, `ClosingSnapshot`, status history | open, close, reopen (which may roll an empty successor back), the write guard other components call | close reads at a database snapshot and then claims; open and reopen check before their transaction | LOCKED and closing snapshot go together; a closing is complete; one month is open |
| collected transactions | `CollectedTransaction`, the matched `PlanItem` | create, update, delete, confirm, bulk confirm, confirm of a card cancellation | the date is checked in the controller; confirm races update, delete, close | posted by exactly one entry; an entry says what its transaction says; no pending transaction in a locked month |
| journal entries | `JournalEntry` (status, number, lineage) | reverse, correct | two adjustments of one entry; number allocation | append-only history; adjusted once; numbers without gaps |
| carry forwards | `CarryForwardRecord`, the next month's opening snapshot | generate (optionally replacing), cancel | every check of generate is outside its transaction | opening balances of a month are the closing balances of the one before |
| financial statements | `FinancialStatementSnapshot` | generate | lock read before the write; two sources of figures | statements exist for locked months and agree with the close |
| import batches: row collection | `ImportedRow`, its transaction, plan match | collect a row (insert, match a plan item, absorb a planned transaction, create a month), cancel a batch's collection | two collections of one row; absorption races confirm and delete | a row becomes one transaction; a cancellation reverses its own approval |
| import batches: collection jobs | job, job rows, workspace lock with expiry, in-process runner set | start, run, progress, cancel, reconcile stale jobs each minute | process death, expiry while the runner lives, cancellation at every step | one job per workspace; every job ends; the lock is released |
| import batches: upload and parsers | `ImportBatch`, parsed rows | upload | none (pure) | rows as in the file |
| liabilities | agreement, `LiabilityRepaymentSchedule` | enter, change, generate plan item | link checked outside the transaction | a schedule counts as paid exactly by its own entry |
| plan items | `PlanItem` with its transaction | generate a month's items from rules and repayment schedules | overlapping and repeated generation; one insert of many fails; dates at month ends | what is due is planned, once |
| recurring rules | `RecurringRule` | create, update, delete | check and write are apart; generation is between them | a rule managed by a policy is changed by that policy only |
| insurance policies | `InsurancePolicy` and its linked rule | create, update, delete | two rows, three requests | a policy and its rule live and die together |
| vehicles | fuel and maintenance logs with a linked transaction | create, update, delete | log and transaction move together | as transactions entered by hand |
| funding accounts, reference data | master data | CRUD, bootstrap of an account | none | names are unique |
| dashboard, forecast, reporting | none | read | none | projections of the rows |
| auth | `AuthSession`; users, tokens of links, rate limits | sign in, rotate, sign out, end sessions of other devices, change and reset the password, switch and create a workspace; registration, invitations | a rotation is three statements; a token that is used twice ends everything | an ended session stays ended; a cookie used in turn stays good |
| admin, operations, demo reset, health | members, menus, notes | CRUD | a read and a later write without a transaction | outside the accounting core |
| money package | none | parse, sum, allocate | limits of safe integers | sums exact |
| web client | access token and status in memory, refresh cookie, a shared refresh in flight | send a request, refresh and retry it after 401, restore, sign in, sign out | many requests, one refresh; several tabs, one cookie; lost answers; page loads in between | a request ends and is carried out once; tabs that take turns do not lose the session |

### How they interact

Every component of the API works directly on the tables of one ledger; there are no
queues or messages between them. A request of the API runs through a controller, often a
guard (`assertCollectingDateAllowed`, `assertJournalEntryDateAllowed`) and then a
`prisma.$transaction`. Requests of several clients and the background import job
interleave. What protects them from each other is what the database does: the
conditions of `updateMany`/`deleteMany`, unique keys and foreign keys. The code
sets no isolation level, so InnoDB's default REPEATABLE READ applies: plain reads
in a transaction see the snapshot of the first one, conditional writes see the
current rows. Reads that precede a transaction are not protected at all. These two
gaps, between check and transaction and between snapshot and claim, are where
most hazards of `PROJECT.json` bite.

The web client and the API exchange HTTP requests. A request carries the access token
of a session, and the guard of the API looks the session up each time; a refresh
carries the cookie, revokes the session it names and issues another. So the client and
the rows of `AuthSession` are one protocol, in which an answer may be lost after the
server has acted on the request. All tabs of a browser use one cookie, while the refresh
under way is known to the page that started it and to no other.

## 2. The model

### Requests as processes

`req[r]` is a request in flight: the name of its next database step and the local
variables its handler holds. Every operation is split at exactly the points at
which other requests can get in between:

- a check before the transaction is an action (`OpenCheck`, `CreateGuard`, ...);
- the snapshot of a transaction is an action, at its first read (`CloseRead`,
  `ConfirmRead`, `ReverseRead`, ...), where all plain reads of the transaction
  are evaluated;
- the conditional writes, unique keys, foreign keys and the commit are one action
  (`CloseCommit`, `ConfirmCommit`, ...), evaluated on the current rows. Writes of a
  transaction take row locks and become visible at the commit together, which
  justifies one action.

Where the first statement of a transaction already is a write (create's insert), or
the checks before the transaction and those at its snapshot are the same (confirm
checks twice; only the second decides), there is one action fewer. `Fail` lets any
request end at any step with its transaction rolled back: errors, dead locks,
timeouts and crashes of the process all look like this, since nothing but the
database is persistent. Requests that are refused change nothing and are left out.

### Modules

| Module | Models | From |
|---|---|---|
| `WorkspaceLedger` | the rows (variables), the request record, `Fail`, the write guard, number allocation, unique keys, `TypeOK`, `Init` | `src/apps/api/prisma/schema.prisma`, `prisma-accounting-period-gateway.adapter.ts`, `prisma-confirm-collected-transaction-store.adapter.ts` |
| `AccountingPeriods` | open, close, reopen with rollback of the successor and the cascades of the foreign keys | `accounting-periods/infrastructure/services/*.lifecycle.ts`, `domain/accounting-period-transition.policy.ts` |
| `CollectedTransactions` | create, update, delete, confirm, confirm of an imported card cancellation | `collected-transactions/` controller, store adapters, `confirm-collected-transaction.use-case.ts` |
| `JournalEntries` | reverse and correct, with transaction, plan item and schedule | `journal-entries/application/use-cases`, `prisma-journal-entry-adjustment-store.adapter.ts` |
| `CarryForwards` | generate and cancel | `carry-forwards/` |
| `FinancialStatements` | generate | `financial-statements/` |
| `ImportedRows` | collecting one row, cancelling the collection of an upload | `import-batches/infrastructure/services/imported-row-collection.service.ts` and its repository, `cancel-import-batch-collection.handler.ts` |
| `LiabilityRepayments` | `generatePlanItem`, `updateRepayment` | `liabilities/services/liabilities.service.ts` |
| `LedgerSystem` | the composition (`Next`, `Spec`) and the properties the code keeps | |
| `PeriodBooks` | abstract specification: books of entries that are opened, written, sealed, unsealed | what the modules above promise |
| `LedgerRules` | a rule the repository states and the code keeps only partly | docs, quoted in `PROJECT.json` |
| `ImportJobs` | collection jobs: creation under the workspace lock, runner, cancellation, expiry, reconciliation, collection by hand | `import-batches/infrastructure/services/` (bulk, cancel and single-row handlers, job runner, maintenance service) |
| `CollectionJobs` | abstract specification: jobs that are submitted, get a result for each row, finish with a report, or are cancelled | what `ImportJobs` promises |
| `PlannedDates` | the dates a rule falls on in a month, and the reference definition `Due` | `plan-items/domain/plan-item-generation.policy.ts` |
| `PlanItems` | rules, policies, repayment schedules and items as rows; months as far as planning looks at them; operations on rules | `recurring-rules/`, schema |
| `Planning` | operations on policies, generation, the item of one repayment; the properties | `insurance-policies/`, `plan-items/`, `liabilities/services/liabilities.service.ts` |
| `AuthSessions` | the rows of `AuthSession` and every statement of the calls to `/auth` | `auth/infrastructure/services/` |
| `WebClient` | tabs, cookies, requests, the shared refresh and the retry, over `AuthSessions`; the properties | `src/apps/web/src/shared/auth/`, `src/apps/web/src/shared/api/fetch-json.ts`, the guard |
| `MCLedger`, `MCPlanning`, `MCSessions` | constants for TLC, symmetry; the calendar comparison `PlannedIsDue` | |
| `LedgerProofs`, `PeriodProofs`, `PostingProofs`, `SourceProofs`, `SequentialProofs`, `JobProofs`, `SessionProofs`, `PlanningProofs` | theorems and proofs | section 5 |

`PROJECT.json` maps every definition to the lines it stands for. Operators whose
comment starts with "Slip" are small wrong variants of the definition that follows
them; nothing in the specification uses them. They exist to test the properties:
each one, put in the place of the original, breaks the property it is listed with.

### Collection jobs

`ImportJobs` stands beside the ledger, because its processes are of another kind: a
runner (`runner[j]`) lives in the API process, takes dozens of steps, uses no
transaction around them and is simply gone after a crash (`RunnerDies`). Beside it
run cancellations (`cancel[j]`), reconciliations (`cleaner[c]`: the cron, and the one
most requests start with) and single collections (`single`). Every write of the
runner and of a cancellation is a step; creation is one transaction; a reconciliation
is three steps, the search for expired locks, the snapshot of its transaction, and
the writes. What connects the two halves is `collected`: collecting a row is one step
here that succeeds at most once for a row or fails, which is what `ImportedRows` shows
of the ledger's side.

Time appears in one place. `lock.expired` says that `expiresAt` has passed, and
`lock.expiredFor` which running reconciliations took their `now` after that; a lock
that is created or extended later is none of theirs. A living runner extends its lock
after each row that took a second or more, so its lock expires only if one row takes
longer than the fifteen minutes of the lock: the jobs for which that may happen are
the constant `SlowRunners`.

`CollectionJobs` says what users are promised of a job, without runners, locks and
reconciliations; `ImportJobs` implements it for the jobs outside `SlowRunners` under a
refinement mapping. A job is in one phase (`Phase`; a cancelled job with a row at hand is
`stopping`), a row of it is open or has its result (`Shown`: `PENDING` and `RUNNING` are
both open), and only a job that is done has a report (`Report`: progress is none).
Locks, counters, crashes and requests are not shown, so most steps of `ImportJobs` are
stutters there.

### Planning

A generation reads (month, rules, existing items, repayments: `GenerateRead`), computes
its drafts, and writes them in one transaction (`GenerateCommit`). What the rows look
like by then decides the outcome: an item that another generation has written meanwhile
meets the unique key on month, rule and date; a draft whose rule is gone meets a foreign
key. `isPlanItemDuplicateError` recognises a duplicate only if the driver reports the
columns of the key, so with a duplicate either outcome is possible, skipping it or
`GenerateRollback`; a missing rule always takes everything back. Updates and deletions
of rules and policies are split between their checks and their writes in the same way,
and a deletion sets the references of items and policies to null.

A date is a day number and a calendar is a sequence of first days, so that the same
`BuildPlannedDates` runs on the small calendar of the state machine (months of three and
two days, weeks of two days) and on a real one. The code's loops step from the first
occurrence; the model says which day of the month they reach after `i` steps, bound
included. `Due` says, day by day and without counting, what a schedule asks for. An
update that leaves a column undefined keeps the old value (`Written`): that is what the
Prisma client does. A day of the month or a category may also be given as null, which
clears the column; an end date that is null is turned into undefined before.

A rule is planned with the transaction type that its category's kind resolves to
(`Resolves`). A rule without a category, which may be saved, or with a kind that has no
active type, has none: a generation counts its dates as excluded and goes on. The same
holds for repayments when expenses have no type (`DueIn`). No handler sets a type on a
rule directly, or changes the types of a ledger; `ActiveFlows` is therefore a constant.

### Sessions and the web client

`session[i]` is a row, live or revoked. A call to `/auth` (sign in, refresh, sign out)
goes through its statements one by one: `Resolve` looks the token up, `RevokeReused`
ends everything if the row was already revoked, `RevokeOld` revokes and does not look
at how many rows it changed, `Issue` inserts the next row. The calls of other handlers
that end sessions are single statements and single actions.

A tab is what its memory holds, and `cookie[d]` is what all tabs of browser `d` share.
`Load` clears the memory and leaves the cookie; the call the page had under way goes on,
in the slot `"gone"`, and its answer may still set the cookie, while the new page starts
a refresh of its own. A request that is refused starts the shared refresh of its page or
waits for the one under way (`AwaitRefresh`), and when it is answered each waiting
request is sent again or fails (`Resumed`). Another tab of the browser knows nothing of
that refresh and sends the same cookie. `AnswerLost` and `RefusalLost` are the network:
the server has acted, the client does not hear of it. A request that is lost before it
arrives is one that is never sent. `CallFails` ends a call between any two of its
statements, whether the rate limit refuses it, a statement fails or the API is restarted.

Three variables are history, for the properties only: `ended` (sessions revoked because
somebody asked for it), `session[i].line` and `.late` (which sessions it was rotated
from, and whether one of them was ended between the lookup and the revocation of its
refresh), and `alarm`. `excused` collects the browsers for which the code really does
raise a false alarm, or may: two calls used the cookie at once, the answer of a rotation
was lost, or a rotation failed after it had revoked the old session (section 4).

### Abstractions

- A balance snapshot (opening, closing, carried, statement payload) is the **set of
  entries** whose lines it adds up. The amounts of the initial setup are part of
  every snapshot and are left out; so is the filter that carries asset, liability
  and equity accounts only. Sums are a function of the set, so that a missing,
  doubled or stale entry shows, while signs and rounding do not.
- An entry's lines are one amount. `periodId` of a transaction is its month, with
  `detached` for a reference the deletion of the period has set to null.
- `IN_REVIEW` is never assigned by any service. `CLOSING` is written and overwritten
  with `LOCKED` in one transaction and therefore never visible; both stay in the
  guards. The transaction status `LOCKED` is not reached by the
  modelled operations.
- Ids are never reused: a deleted row is `GONE`. A request that holds the id of a
  period or carry forward record that a commit deletes can only fail afterwards; it
  is ended in that commit (`HoldsDeleted`), because the model refers to a period by
  its month and a new period of that month has another id.
- A row is collected with the amount the client sends, matching is nondeterministic
  where the code ranks candidates; a row with a `CancelTarget` is a card
  cancellation. The amount of a repayment is left open. An upload is the set of its rows
  (`Batches`). The refusal to cancel its collection while a bulk job runs is left out: it
  is made before the transaction, and rows may be collected at any moment after it.
- `replaceExisting` is a cancellation followed by a generation, as in the code, which
  uses two transactions. Bulk confirm is a sequence of confirms.
- The status history, audit records and notes are write-only and left out; import
  batches and notes therefore do not count as usage of a month.
- Jobs: one workspace (the lock's unique key); rows by number; which rows a request
  selects is any non-empty set. `processedRowCount`, times and messages are left out.
  A row is marked `RUNNING` and read again in one step, because nobody distinguishes a
  `RUNNING` row from a `PENDING` one; two reads of the job's status in a row are one.
  One cancellation per job. A reconciliation that fails is like one that never ran,
  and a call of the runner that throws outside its `try` block is like a crash.

- Imported rows: the type of the transaction made from a row is the one the row suggests.
  The client sends it, and the code does not compare the two; the properties go by the
  type of the transaction.
- Planning: amounts and accounts are left out; a category is its kind, and a transaction
  type is there or not. The reads of a generation, and the month check before them, are
  one step. Months open and close in order and are not reopened; what a confirmation does
  to an item is in the ledger. All policies have a linked rule (rows from before the link
  was introduced do not). `MaxOccurrences`, 400 in the code, is in the model and never
  binds in the runs.
- Sessions: one user, several browsers, several tabs in each. A page that is left leaves
  one call behind at most, and is not left again before that call has been answered. The
  thirty days of a refresh token (after which a refresh is refused and the tab signed
  out), the status of the user and the selected workspace are left out; the rate limit is
  a call that fails at its first step. An access
  token may expire at any time, except that of a retry under way: it is younger than the
  answer it was obtained for. A switch or creation of a workspace is reduced to what it
  does when the session is over. Hashing and signing are perfect.

## 3. What is checked

The runs of the ledger use `MCLedger` with symmetry over transactions and requests
(safety properties only); those of the jobs use `ImportJobs`, those of the sessions
`MCSessions`, both without symmetry; `planning` uses symmetry over requests and names.
Deadlock checking is off where the configured operations do not include reopening
(once the last month is locked, nothing more can be done), in `jobs_live`, where
nothing is left to do once the last job has ended, in `planning`, where rows and months
are used up, and in the runs of the sessions, where their numbers are.

| Run | Bounds | Operations | Distinct states | Shows |
|---|---|---|---|---|
| `months` | 2 months, 2 entries, 2 transactions, 2 requests | lifecycle, create, confirm, reverse, carry, statements | 1.3 million | `NumbersGapless`, `LockedIffClosed`, `CarryMatchesClosing`, and that the ledger implements `PeriodBooks` |
| `postings` | 2 months, 3 entries, 2 transactions, 2 requests | open, close, create, update, delete, confirm, reverse, correct | 0.8 million | `PostedByOneEntry`, `PostingStatusAgrees`, `AdjustedOnce`, `HistoryKept` |
| `sources` | 1 month, 3 entries, 3 transactions, 1 approval row and 1 row cancelling it, 1 schedule, 2 requests | open, close, create, delete, confirm, reverse, collectRow, cancelCollection, repayment | 0.9 million | `PostedByOneEntry`, `PostingStatusAgrees`, `CancellationReversesApproval`, `PlanFollowsTransaction` |
| `jobs` | 2 jobs, 1 row that may also be collected by hand, 2 reconciliations, the first job may be cancelled and may outlive its lock | all | 3.7 million | `TypeOK`, `SucceededMeansCollected`, `RunnerHoldsLock` |
| `jobs_live` | 2 jobs, 2 rows, 1 reconciliation, the first job may be cancelled; runners crash anywhere | all but collection by hand | 0.6 million | `JobResultMatchesRows`, `UncancelledJobEnds`, `LockReleased`, and that the jobs implement `CollectionJobs` |
| `sequential` | 2 months, 3 entries, 2 transactions, 2 amounts, 2 rows, 1 schedule, 1 request | all | 4.7 million | `TypeOK`, `PostedAsRecorded`, `NoPendingInLocked`, `ClosingComplete`, `StatementsMatchClosing`, `RepaymentSettledByItsEntry`, `RepaymentStatusFollowsLinks` |
| `planning` | 2 months, 2 rules, 2 policies with 2 names, 2 schedules to save as a rule, one of them without a category, and 2 as a policy, 1 repayment, 2 requests | all | 2.3 million | `TypeOK`, `OccurrenceOnce`, `PolicyRuleTogether`, `GeneratesWhatIsDue` |
| `sessions` | 2 tabs of one browser and 1 of another, a request in each of the two, 3 sessions, 3 page loads, sign-ins, sign-outs, lost answers or failing calls | all; the requests are an ordinary one and one that ends other sessions | 4.0 million | `TypeOK`, `EndedStaysEnded`, `KeptSignedIn`, `NoFalseAlarm` |
| `sessions_live` | 1 tab, 2 requests, 3 sessions, 2 page loads, sign-ins, sign-outs, lost answers or failing calls | all, with every kind of request | 0.25 million | `NoFalseAlarm`, `ExecutedOnce`, `RequestsEnd` |

The properties, in the order of what they protect:

- `PostedByOneEntry`: a transaction counts as posted exactly when one entry has been
  posted from it, whichever requests race to confirm, update, delete or adjust it.
  It is checked without reopening: a rollback of a successor month can delete the
  entry of a transaction that stays.
- `PostingStatusAgrees`: entry and source transaction move together.
- `AdjustedOnce`: reversed by exactly one entry, or corrected by exactly one, never
  both.
- `HistoryKept`: no step rewrites an entry.
- `NumbersGapless`: numbers 1, 2, ... in every month under concurrent allocation,
  failures after allocation, and deletion and re-creation of a month.
- `LockedIffClosed`, `CarryMatchesClosing`: lock, closing snapshot, carry forward
  record and opening snapshot stay together.
- `CancellationReversesApproval`: a card cancellation reverses the entry of the
  approval its row names.
- `PlanFollowsTransaction`: a plan item whose transaction is deleted is a draft again, one
  whose transaction is posted is confirmed, one whose transaction waits or was reversed
  waits. The threat is a cancellation of the whole upload: it turns plan items back
  without a condition and relies on counting the transactions it deletes.
- `ImplementsBooks`: the refinement. An entry is appended to an open book only, a
  sealed book does not change: the number allocation and the claim of the close
  update the same period row, and that is what keeps an entry out of a locked month
  even though its date was checked earlier.
- The properties of `sequential` hold for every order of whole operations, and, as
  section 4 shows, not for overlapping ones. `ClosingComplete`: the closing adds up
  the opening balances and every entry of the month not adjusted within the month.
  Of these it alone needs a calendar without gaps, which two months cannot have:
  with a month left out and created later by a carry forward (section 4),
  that month's entries can be adjusted from a later month and the closing, made after
  it, lacks them. Section 5 proves it for behaviours without gaps.
  `StatementsMatchClosing`: statements belong to locked months, three of them tell
  what the closing tells, and the cash flow summary lacks exactly entries adjusted
  since. `NoPendingInLocked`, `PostedAsRecorded`, `RepaymentSettledByItsEntry` as
  named. `RepaymentStatusFollowsLinks`: the status kept with a schedule, which the
  summary of the liabilities counts, is the one the mapper derives from its links, also
  after a planned repayment has been matched, its upload cancelled, and matched again.

- `RunnerHoldsLock`: a runner works under its lock until it is cancelled. The
  interesting threats are leftovers: a runner, a cancellation or a reconciliation of an
  earlier job that goes on after the workspace has been locked again. It is stated for
  jobs outside `SlowRunners`; a runner slower than its lock does lose it.
- `SucceededMeansCollected`: a job reported as `SUCCEEDED` has a collected transaction
  for each of its rows, whether the runner says so from its counters or a
  reconciliation from rows it read while a slow runner kept writing.
- `JobResultMatchesRows`: counts and result of a job that ended agree with the results
  of its rows, after crashes and errors too; rows that were not reached count as failed.
- `ImplementsPromise`: what a user sees of a job is a behaviour of `CollectionJobs`. A row
  gets one result and keeps it, whoever writes it; a job that is done keeps its rows and a
  report that is true of them (a late error of its runner may still turn it into a failed
  one, a late cancellation hides it); after a cancellation at most the row at hand gets a
  result. The runner may overrun a cancellation that comes before the first row, and no
  later one.
- `UncancelledJobEnds`, `LockReleased`: a job that nobody cancels ends, whatever step
  its runner dies at, and no job, cancelled or not, keeps the workspace locked.
- `OccurrenceOnce`: whichever generations overlap, and whatever happens to the schedule of
  a rule between two of them, no date of a rule is planned twice.
- `GeneratesWhatIsDue`: a generation looks at every active rule that is due in its month,
  and afterwards every day on which a rule it read is due has its item, if the rule has a
  transaction type and still exists, and no other day got one, even if some of the inserts
  met items of another generation. `Due` is the
  measure; `PlannedIsDue` compares it with the code's dates on the eighteen months from
  January 2026, for all frequencies, starts at the ends of a month of 31 and of 28 days,
  days a month may lack, and ends within a month.
- `PolicyRuleTogether`: a live policy has its own live rule that says what the policy says
  (but for its end, section 4), and a rule made for a policy does not outlive it. The
  threats are an update whose write fails on the name or on the deleted policy after it
  has written the rule, and a deletion that knows an older rule.
- `EndedStaysEnded`: a session that was ended is not live, and neither is one it was
  rotated into. The exception the code allows is an end between the lookup and the
  revocation of the refresh itself (`late`): the refresh then issues a session that
  nobody ends.
- `NoFalseAlarm`, `KeptSignedIn`: a used token is taken for a stolen one only if its
  session was ended, or in a browser that is excused; and while no call uses the cookie of
  another browser, the cookie names a live session or one that was ended on request. So
  the requests of one page, which share a refresh, do the user no harm, nor do tabs that
  refresh the cookie in turn, page loads between calls, calls that fail before or after
  the rotation, and whatever happens in other browsers. Two tabs that refresh at the same
  time do: nothing keeps them apart, and they are one of the exceptions of section 4.
- `ExecutedOnce`: a request that is sent again after a 401 is not carried out twice,
  although some handlers have written before they answer 401.
- `RequestsEnd`: whoever waits for a refresh gets its result.

**Why the bounds are enough.** Two months are the smallest calendar with a carry
forward, a successor to roll back and an adjustment from a later month. Every check
in the code is about one month and its neighbour. Races are between the check of one
request and the commit of another, so two requests exhibit each pair; three entries
allow an entry, its adjustment and an adjustment of that. With one entry per
transaction, two transactions give two competing sources. The theorems of section 5
remove the bounds. For the jobs, a second job is what an
earlier one can harm, and two rows are a row that was reached and one that was not; two
reconciliations overlap in `jobs`, where one row suffices, because a reconciliation
treats the rows alike. For planning, two rules give a rule and a policy's rule, and the
replacement of a deleted one; two requests are each pair of a generation, an update and a
deletion; the two schedules of rules differ in frequency, day, end and category, so an
update may move a rule's date to the other month, keep it or leave it out, and a repayment
falls on a date of a rule. Days that a month lacks, and longer intervals, are left to the
comparison of the date arithmetic over eighteen months (`PlannedIsDue` of `MCPlanning`).
`v_maturity_kept` has policies with and without a maturity. For
sessions, three are one that is rotated, its successor and one more, of the other browser
or of a second rotation; two tabs share a cookie and a third has its own; requests of two
tabs race the cookie, and in `sessions_live` two requests of one tab share a refresh.

**Fairness.** None in the ledger and in planning, where everything is safety: a request
may stop at any step. `FairSpec` of `ImportJobs` assumes weak fairness of three things. A runner that is
alive takes its next step: the event loop goes on, and `RunnerDies`, which is not fair
and always possible, ends the obligation. A lock that is not extended expires: time
passes. A reconciliation starts when there is an expired lock, and finishes: it is a
cron job that runs every minute (`@Cron(EVERY_MINUTE)`), and one that fails is repeated a minute
later. Requests of users (creation, cancellation, collection by hand) owe nobody a next
step, and a cancellation may die between its two writes. `FairSpec` of `WebClient` assumes
weak fairness of three things: the API takes the next statement of a call it has received,
and of a request it has admitted, and a tab handles an answer. Each is a promise that is
resolved by the event loop. Users owe nothing (`Load`, `Login`, `Logout`, `Send`,
`EndAll`), and neither does the network: `AnswerLost` may always happen, and then the
client goes on as after a refusal. In the model sessions may run out, which ends the
obligation.

## 4. Where the code and its documents disagree

Each of these runs checks one rule that a comment, a document or a page states and finds
a behaviour of the code that breaks it. `PROJECT.json` quotes the lines.

| Run | Rule | What happens |
|---|---|---|
| `v_closing_reversal` (one request) | `ReversalCancels` | confirm, reverse in the same month, close: the close adds up `POSTED` entries only (`prisma-close-accounting-period.lifecycle.ts:179`), the original is `REVERSED`, its reversal is `POSTED`; the balance moves by minus the amount |
| `v_close_races_confirm` | `ClosingComplete` | the snapshot of the close is fixed at its first read, an entry commits, and the claim compares the status only: the closing lacks the entry |
| `v_maturity_kept` (one request) | `EndFollowsMaturity` | a policy is saved with a maturity and later without one: the rule is updated with `endDate: undefined`, which the Prisma client leaves out, and keeps the old end |

More behaviours of the same kind are visible in the model and have no run of their own.

In the ledger: an opening asks only for a month after the latest one, so January may be
opened and closed and March opened next; carrying January forward then creates February,
open, behind an open March (`prisma-carry-forward-generation.adapter.ts:137`), although the
opening says that only one latest month in progress is allowed
(`prisma-open-accounting-period.lifecycle.ts:115`); a reopening looks for carry forwards before its transaction, and one that
commits in between leaves opening balances of a close that no longer exists; the claim of a
confirmation compares the status, and an update that keeps it `READY_TO_POST` changes amount
or month underneath; a transaction whose date was checked before a
close is inserted into the locked month; a transaction created after the usage check of
a rollback loses its month; a repayment whose entry is reversed goes back to `MATCHED`
with a transaction that is `CORRECTED` and can no longer be confirmed; a carry forward whose
next month is closed between its check and its transaction writes opening balances into a
locked month; statements whose month is reopened in between are written for an open month;
two requests that generate the plan item of one schedule both link it, the second one even
when the first has been paid, which turns the schedule back to `MATCHED`; a change of a schedule that overlaps the
generation of its item overwrites the `MATCHED`, and the form that changes it offers every
status, so that an unlinked schedule may say `POSTED` for good; and after an
adjustment from the next month the cash flow summary, which is drawn from the
journal, differs from the statements drawn from the close (this one is what the last
conjunct of `StatementsMatchClosing` allows).

In the jobs: the runner reads `PENDING`, a cancellation writes `CANCELLED`, the runner
overwrites it with `RUNNING` (no condition), the cancellation deletes the lock, the process
dies: the job stays `RUNNING`, and the reconciliation, which goes by expired locks, never
finds it. A second cancellation would end it. `UncancelledJobEnds` excludes this case.

In planning: a generation does not look at the months again before it writes, so its items
may land in a month that was closed meanwhile; a generation and the page of a loan that
both found a repayment unlinked make an item each; changing the day of a rule and
generating again plans the month a second time, under the new date; an end date can be
changed and not removed, because an update without one keeps the old. A rule without a
category never gets an item: the generation succeeds and reports it as excluded, which is
what a test of the repository expects (`apps/api/test/unit/plan-items/plan-items.service.test.ts`).

In the sessions there are four ways in which the code takes an honest user for a thief and
ends all sessions. They are the excuses of `NoFalseAlarm` and `KeptSignedIn`:

- two tabs of one browser use the cookie at the same time (two refreshes, or a refresh and
  a sign-out): the second presents a token that the first has used up;
- a page is left while a call of it uses the cookie, and the next page refreshes at once
  with the same token. Instead of an alarm, two live sessions may be the outcome;
- the answer to a rotation is lost: the cookie still names the revoked session, and the
  next refresh presents it;
- a rotation fails, or the API is restarted, after the old session has been revoked and
  before the next one has been issued: likewise.

No document of the repository says what should happen then. Further: a device whose session
was ended from another one presents a revoked token at its next refresh, which counts as
reuse and ends all sessions, also the one that asked (the page promises that the current
session stays); a mistyped current password is answered with 401, which the client takes
for an expired session: it refreshes, repeats the request and signs the tab out, though the
cookie stays good for the next page load; so does a retry whose new session another tab has
rotated meanwhile; a new workspace is committed when the session turns out to be over, and
the retry answers a conflict although it was created; a sign-out that overlaps a refresh
revokes the old session and the client keeps the new cookie; a change of the password keeps
the session of the request and ends the one it was just rotated into; a sign-in that
compared the old password before a reset still gets its session.

## 5. What is proved

TLAPS proves these for every calendar, every set of transactions, rows, schedules and
amounts, any number of requests and any selection of operations, under the assumption
`LedgerConstants` (types of the constants, null values outside the sets). Months and
entries are intervals `1..n`. The theorems about jobs hold for any number of jobs, rows
and overlapping reconciliations, under `JobConstants`; those about sessions for any
number of browsers, tabs, requests, sessions and visits, under `SessionConstants` and
`ClientConstants`; those about planning for any number of requests, rules and policies
and any calendar, under `CalendarConstants` (months follow one another from day 1, none
has more than 31 days) and `PlanConstants` (types of the inputs, finitely many repayment
schedules).

Some theorems have a hypothesis of their own, because without it the property is false
of the code (section 4):

- *without reopening* (`"reopen" \notin Ops`): a reopening rolls back a successor month it
  has found empty, and with it the entries that overlapping requests have posted there
  since; what those requests have written elsewhere stays;
- *without updates*: an update may turn a transaction into another kind between the
  reading of a confirmation, which has found the approval to reverse or found that there
  is none, and its claim, which compares the status only;
- *one request at a time* (`OneAtATime`): requests do not overlap, but each may fail
  at any of its steps, and every operation is there, reopening included. It is
  the setting of the run `sequential`;
- *no month left out* (`[]NoMonthSkipped`, of a behaviour): whoever opens months in
  their order;
- `OccurrencesSuffice`: the calendar ends before a rule has been followed for
  `MaxOccurrences` dates, that is 400 weeks or 400 months in the code.

| Theorem | Module | Property |
|---|---|---|
| `TypeCorrect` | `LedgerProofs` | `TypeOK` |
| `LockAndSnapshotTogether` | `PeriodProofs` | `LockedIffClosed` |
| `CarriedAsClosed` | `PeriodProofs` | `CarryMatchesClosing` |
| `PostingsAgree` | `PostingProofs` | `PostingStatusAgrees` |
| `HistoryAppendOnly` | `PostingProofs` | `HistoryKept` |
| `NumbersWithoutGaps` | `PeriodProofs` | `NumbersGapless` |
| `LedgerImplementsBooks` | `PeriodProofs` | `ImplementsBooks`: initial states, and every statement of every handler |
| `AdjustedAtMostOnce` | `PostingProofs` | no entry is adjusted twice, every operation enabled |
| `AdjustmentsExact` | `PostingProofs` | `AdjustedOnce`, without reopening |
| `PostedOnce` | `PostingProofs` | `PostedByOneEntry`, without reopening |
| `PlansFollow` | `SourceProofs` | `PlanFollowsTransaction`, without reopening |
| `CancellationsReverse` | `SourceProofs` | `CancellationReversesApproval`, without reopening and updates |
| `AdjustmentsExactInTurn` | `SequentialProofs` | `AdjustedOnce`, one request at a time |
| `PostedOnceInTurn` | `SequentialProofs` | `PostedByOneEntry`, one request at a time |
| `PlansFollowInTurn` | `SequentialProofs` | `PlanFollowsTransaction`, one request at a time |
| `CancellationsReverseInTurn` | `SequentialProofs` | `CancellationReversesApproval`, one request at a time |
| `EntriesAsRecorded` | `SequentialProofs` | `PostedAsRecorded`, one request at a time |
| `LockedHasNonePending` | `SequentialProofs` | `NoPendingInLocked`, one request at a time |
| `StatementsAsClosed` | `SequentialProofs` | `StatementsMatchClosing`, one request at a time |
| `RepaymentsSettled` | `SequentialProofs` | `RepaymentSettledByItsEntry`, one request at a time |
| `RepaymentStatusKept` | `SequentialProofs` | `RepaymentStatusFollowsLinks`, one request at a time |
| `OneMonthAtATime` | `SequentialProofs` | `OneMonthOpen`, one request at a time and no month left out |
| `ClosedComplete` | `SequentialProofs` | `ClosingComplete`, one request at a time and no month left out |
| `PlanningTyped` | `PlanningProofs` | `TypeOK` of `Planning` |
| `PlannedOnce` | `PlanningProofs` | `OccurrenceOnce` |
| `PoliciesKeepRules` | `PlanningProofs` | `PolicyRuleTogether` |
| `PlansAsDue` | `PlanningProofs` | `GeneratesWhatIsDue`, under `OccurrencesSuffice` |
| `JobsTyped` | `JobProofs` | `TypeOK` of `ImportJobs` |
| `RunnersExclude` | `JobProofs` | `RunnerHoldsLock` |
| `SuccessIsReal` | `JobProofs` | `SucceededMeansCollected` |
| `ResultsMatchRows` | `JobProofs` | `JobResultMatchesRows` |
| `JobsKeepPromise` | `JobProofs` | `ImplementsPromise`, the refinement of `CollectionJobs` |
| `SessionsTyped` | `SessionProofs` | `TypeOK` of `WebClient` |
| `EndedForGood` | `SessionProofs` | `EndedStaysEnded` |
| `ExecutedAtMostOnce` | `SessionProofs` | `ExecutedOnce` |
| `NoFalseReuse` | `SessionProofs` | `NoFalseAlarm` |
| `StaysSignedIn` | `SessionProofs` | `KeptSignedIn` |

The argument:

- `TypeOK` is inductive because `WellFormed` says what a handler holds at each step;
  without it the commit actions could be taken with a null month. Its proof has one
  lemma per action, and those lemmas are what the other proofs use to know the shape
  of the next state.
- `PeriodInv` strengthens `LockedIffClosed` and `CarryMatchesClosing` with
  `CarryRequestsMatch`: a request between `CarryCheck` and `CarryCommit` holds
  exactly the entries of the closing snapshot, which still exists. That is the reason a stale
  carry forward cannot disagree with its record: a month is reclosed only after a
  reopening, and a reopening deletes the closing snapshot row whose id the request
  holds (`HoldsDeleted`), so that the foreign key stops it.
- `PostingInv` strengthens `PostingStatusAgrees` with `SourcesUnique`: two entries
  never share a source, and a deleted entry has none. It holds since `NotSourced`, the unique key, is part of both
  confirming commits, and it is what lets the claim of one entry leave the others'
  agreement alone.
- `NumberInv` strengthens `NumbersGapless` with `CounterReset`: a month without a row
  has counter 1 and, by gaplessness, no entries. That covers the deletion and
  re-creation of a month. A new entry takes the number the counter had and the counter
  moves in the same action; entries change month only by disappearing with it.
- The refinement (`LedgerImplementsBooks`) rests on `BooksInv`, which is `PeriodInv` and
  `NumberInv`: by gaplessness the journal of a month is the function from its numbers
  to its entries, so that a commit which takes a number appends to the book, and one
  that takes none leaves every book as it is or opens, seals, unseals or removes one.
- `HistoryKept` follows from `TypeOK` and the shape of each action.
- `AdjustedAtMostOnce` needs no hypothesis. `Lineage` says that what an entry reverses
  or corrects is `REVERSED` or `SUPERSEDED`, and that two entries never reverse, or
  correct, the same one; a commit that adjusts claims an entry that still is `POSTED`.
  The converse, `AdjustmentsStand` (what is `REVERSED` has its reversal), is what a
  rollback breaks, and with it `AdjustedOnce`.
- `PostedByOneEntry` is `SourcesUnique` and `PostedHaveEntry`, a transaction that counts
  as posted is the source of some entry; again only a rollback removes one.
- `PlanFollowsTransaction` has its `PlanInv` (in `SourceProofs`): an id not used
  yet and a card cancellation have no plan item, and a confirmation that does not touch
  the plan item has none to touch (`ConfirmUnplanned`).
- `KindInv` strengthens `CancellationReversesApproval` with what a confirmation under way
  has found out: it holds the entry of the approval if its transaction is a
  cancellation, and none if not (`ConfirmKinds`); what has been posted keeps its kind
  (`EntryKinds`).
- One request at a time, the request that reads is the one that writes: `Current` says
  that what a handler relies on when it commits (`Upheld`, one clause for each commit)
  is what the rows say. With it, the same lemmas about commits carry the properties of
  `sequential`. A rollback takes away no row of the ledger (`NothingTaken`), since the
  month is still as empty as the check has found it, so that the theorems above hold
  with reopening as well. `RepaymentsTell` says of a schedule what its two links and its status
  have to do with each other; `Sealed` that a locked month's closing has every entry that
  is still posted.
- `ClosedComplete` needs to know that no entry is adjusted from a later month before
  the close: only the latest month is open (`LatestOpen`, which needs that no month is
  left out), and adjustments are dated in the entry's month or later (`AdjustedLater`).
- In planning, `ItemsOnce` makes `OccurrenceOnce` inductive: an item with a rule is
  in the bag once, and by `TypeOK` on a day of its own month, so that the unique key, which
  has the month in it, also keeps two months apart. A rule's deletion clears the reference of
  its items, whose copies then do not count.
- `RuleInv` is `PolicyRuleTogether` from both sides (`Paid`, `Owned`) and what a request
  has read (`Informed`): the rule of an update or deletion belongs to no policy and never
  will, and a policy keeps its rule while it lives, since no row comes back or changes
  hands (`RowsStay`). That is why a check before the transaction is enough here.
- `PlansAsDue` has two halves. `PlannedIsDueThere`: the dates that the loops step
  through in a month are exactly the days on which `Due` says that the rule is due, for
  each frequency, start, preferred day and end (arithmetic on days and
  months; the bound on the steps is where `OccurrencesSuffice` is used). And the
  interleaving: a generation has read every rule once, and an item it has read, and
  therefore does not write again, is still there when it commits, unless its rule is gone
  (`Foreseen`); items are never taken away from a live rule (`ItemsStay`).
- `JobInv` strengthens `TypeOK` of `ImportJobs`. Its counts are bounded by the rows, and
  that is not inductive as it stands: `Counted` says that a runner's counters never
  exceed the number of the row it is at, which it visits in order.
- `LockKept` strengthens `RunnerHoldsLock`: the lock of a runner that is neither slow
  nor cancelled is not only there but fresh, so that no reconciliation, however old its
  `now`, may delete it; the others release by job.
- `OutcomeInv` strengthens `SucceededMeansCollected` with what each party knows: a
  runner without failures that every row before its own is collected (`Reached`), a
  reconciliation that the successes it has read are real and that it has read all rows
  of the job (`ReadRows`); `ReportedCollected` says the same of the rows themselves.
- `TallyInv` strengthens `JobResultMatchesRows`. While a runner lives, its counters are
  the cardinalities of the rows with that result, and the rows it has not reached are
  exactly those without a result (`Tallied`); an error at any step then turns the rest
  into failures. A reconciliation begins only when the runner is over
  (`RunnerOver`: a lock expires under no runner but a slow one). Between its read and its
  writes the rows are the ones it has read, or another reconciliation has settled them as
  this one would, and the job is no longer active (`Current`), so that the second one
  writes the rows again and the job not. TLC has checked `TallyInv` on two jobs
  with two rows and on two overlapping reconciliations before.
- `JobsKeepPromise` goes through the steps of `ImportJobs` under `OutcomeInv`, `TallyInv`
  and `CancelsExist` (a cancellation is of a job that exists); each is an action of
  `CollectionJobs` on one job or changes nothing that shows (`OneJobShows`,
  `NothingShows`, `QuietShows`). `TallyInv` supplies what the abstract actions demand: the
  row at hand is open, no row has a result when a runner starts a cancelled job
  (`RunnerStart` is then `Resume`), a runner that ends with its result has met a job that
  is not done, unless it failed after it had reported (`Finish` or `Fail`), and a
  reconciliation meets the rows it has read or settled ones (`Finish`, `Drop` or nothing).
  `ReportTruthful` is `JobResultMatchesRows` seen through the mapping.
- `ServerInv` strengthens `EndedStaysEnded` with `LineOver` (a session is rotated only
  once it is no longer live, so that ending live sessions touches no line but their own)
  and `Placed` (between its two statements, a refresh that is not late has a row nobody
  has ended; nobody can end it any more, since it is not live). Numbers are given out in
  order (`RowsNumbered`), so a new row is in nobody's line. `Once` adds to
  `ExecutedOnce` that a request which has been carried out is over, except the creation
  of a workspace, whose second attempt meets the slug of the first.
- `BrowserInv` is about one browser at a time. Nobody else holds its sessions (`Held`), so
  that other browsers can only end them (`Undisturbed`). A browser that is not excused is
  `Kept`: one call at most uses its cookie, whichever tab sent it (`OneUse`), that call is
  not one a page has left behind (`NoneGone`), and the cookie is sound, that is live or
  ended on request, or is being rotated by that very call (`CookieKept`). A call that has
  been granted a session is the only one to know it until its answer is there
  (`CallKept`), so the answer leaves a sound cookie. A call that finds its token used thus
  finds it ended, which is `NoFalseAlarm`; and without a call that uses the cookie there
  is none that rotates it, which is `KeptSignedIn`. TLC has checked `BrowserInv` on the
  instance of `sessions` with 2 page loads or mishaps before.

Every safety property of every passing run is thus a theorem. Only model-checked are the
liveness properties under fairness (`UncancelledJobEnds`, `LockReleased`, `RequestsEnd`):
liveness and `ENABLED` are outside the reach of the installed provers. So are two
comparisons that concern TLC's instances only: `PlannedIsDue`, on a real calendar, which
also shows that `Due` is what one expects of a calendar, and the three rules of section 4,
which are violated. `OneMonthOpen` of a behaviour in which a month is left out, and the
properties of `sequential` for overlapping requests, are not proved because they do not
hold.

## 6. Not modelled

- Of the imports: confirmation of potential duplicates, bootstrap of a funding account by an upload.
- Of the collection jobs: the selection of rows by a bulk request, and the endpoints
  that only read jobs.
- Vehicle-linked transactions (they follow the rules of transactions entered by hand);
  agreements, new repayment schedules, their dates and amounts.
- Of authentication: registration, verification and reset links, invitations, rate
  limits, deleting a workspace, support mode. Members and their roles: nearly every
  operation is a read, a check and an unconditional write, about which there is little to
  promise.
- Arithmetic of amounts and the choice of balance sheet accounts.
- Administration, notes, navigation, dashboards, forecasts, the pages of the web
  client, parsers, migrations, seeds: no state machine of their own, or pure
  functions of text.

## 7. Plan

Order of the modules: (1) `WorkspaceLedger` and the lifecycle, (2) transactions and
entries, (3) snapshots: carry forward, statements, (4) sources: rows, repayments,
(5) composition, abstraction, rules, proofs, (6) `ImportJobs`, `CollectionJobs` and their proofs, (7)
`AuthSessions` and `WebClient`, (8) `PlannedDates`, `PlanItems` and `Planning`. These
exist. Next:

1. A second cancellation of a job, under which every job should end.
2. Pure operators: aggregation of a close, which accounts are carried, each against a
   reference definition over bounded inputs.
3. Proofs: the theorems about jobs with a second cancellation (item 1), and the lemmas
   about the operators of item 2.
