# A verification project for Tendnote

Tendnote keeps the records of a person's relationships and acts on them later:
it reminds, extracts, embeds, exports and deletes in the background. Requests
write rows to Postgres; queue callbacks, a recovery cron and an agent (Eve) do
the rest. There is no long-lived server process, so all that survives an
invocation is what Postgres, the queue provider and blob storage hold. That is
what these modules are about: what the rows and messages look like after any
interleaving of invocations, with crashes, lost messages and late answers, and
whether the background work still does what the code's comments and decision
records promise.

All paths below are relative to the repository.

## The system

| Component | State it keeps | Operations | What makes it hard | What must be true |
|---|---|---|---|---|
| Delivery outbox (`packages/db/src/queries/background-job-deliveries`) | one row per job: status, revision, next attempt, published time | create, revise, mark published, mark failed, abandon, list due; send to the provider | the send is outside the database; a re-arm may happen between any two steps | a row that says "published" stands for a pointer the provider took |
| Reminder planning (`reminders/service.ts`, `delivery-planning.ts`, `drizzle-store.ts`) | schedule, occurrence intents, delivery jobs | save, reconcile, clear; upsert intent; upsert job | no transaction around them; the job is read and then written by id | the plan follows the owner's last save |
| Reminder installations (`installation-service.ts`) | installation status, opt-in state | opt in, register, disable, revoke | several writes each; may fail half way | what is planned for an installation is settled whatever happens to it |
| Reminder dispatch (`dispatch.ts`, `policy.ts`) | job status, outcome, lease (`updated_at`) | claim, suppress, push, accept, retry, revoke | redelivery, lease takeover, writes by id after an external call | one dispatcher per plan, one push, inside the window |
| Reminder wake-ups (`outbox.ts`, `delivery-wakeups.ts`) | the outbox row of the job | arm, re-arm, checkpoint, sweep, reset for a rollback | the arm is fenced in some callers and unfenced in others | a waiting job is woken when it is due |
| Queue runtime (`apps/web/src/lib/background-jobs/queue-runtime.ts`, `reminder-queue.ts`) | none (the provider keeps messages) | validate, inspect, dispatch, acknowledge | at-least-once delivery, expiry, rate limits, holds | an old pointer writes nothing |
| Recovery pass (`recovery.ts`) | none | republish due rows, sweep lost wake-ups, backfill job queues | reads and writes are apart; may overlap everything | whatever was lost is found again, and finished work is retired |
| Embedding jobs (`semantic-retrieval`) | one job row with a claim generation and a rerun marker; one embedding row | enqueue, claim, read, embed, scrub, settle, recover | an edit meets a running pass; a pass outlives its lease; the vector arrives after the record changed | the index says what the record says, and nothing of a restricted one |
| Extraction, action-extraction and context-fact queues (`extraction-job-queue`, `*-jobs`) | job rows with leases and attempts | enqueue, claim, process, complete, fail, defer, dead-letter | late writers after a lease | every job ends; no result of a lost claim is kept |
| Account deletion, retention, recovery journal (`account-deletion`, `account-retention`, `recovery-journal`, `legal-holds`) | intent, hold and deadline rows; a journal in blob storage | request, claim purge, journal, delete, sweep, hold | two stores with no common transaction, and the account itself goes | a deletion once accepted completes; held data stays |
| Restore procedure (`apps/web/src/lib/restore`) | a branch of the database, the journal | stop writes, journal, drain, apply, reconcile, swap | what was written after the restore point is lost | no erased account comes back and no closing one opens |
| Pause, Service-Wide Hold | one hold row | place, lift, reset reminders to cron-only | must see a quiet system | what the reset hands over is what the earlier code can run |
| Billing (`apps/web/src/lib/billing`, `stripe-subscriptions`, `paid-access-revocations`, `access-profiles`) | a copy of each subscription, refund and dispute records, the paying subscription | webhooks, reconciliation, admission, refunds, re-admission | events reordered, repeated or lost; six writes to two systems | an end stands; access follows payment |
| Owner data export (`owner-data-export`) | job rows with claim tokens, archives, fences in the journal's store | request, claim, put, complete, fence, fail; expire, delete, clear | a worker outlives its claim; bytes and rows are written apart; a restore takes both back | one export at a time; bytes are the completing claim's; what lapses is cleaned up to the end; a restore repeats nothing delivered |
| Scheduled workflow deliveries | a ledger of attempts | dispatch, retry | missed ticks | a schedule fires once |
| Households (`packages/db/src/queries/households`, `packages/domain/src/household-*`) | workspaces, memberships with roles and offers, dissolution votes, invitations; purge state | create, invite, resend, cancel, accept, decline, offer and take co-ownership, step down, remove, leave, confirm and call off an end; the account-deletion trigger; purge | several members at once, each deciding by what a screen showed; ownership and the clock are read before the lock | governance is never lost; seats hold; nobody comes in without a live link or governs without consent; only its owners end it |
| Approvals, Gmail drafts, spend breaker | decisions, drafts, counters | decide, send, admit | repetition | an effect happens once |
| Records, retrieval, web and marketing pages, Eve | rows and views | ordinary reads and writes | little protocol state | (left to the repository's tests) |

How they interact: an owner's request writes a schedule, an intent and a job,
and arms the job's outbox row. Arming bumps the row's revision and sends a
pointer, delayed to the alert time, to the provider. The provider delivers it,
at least once, to the queue callback, which checks the revision, claims the job,
loads the current record and pushes. The hourly (later ten-minute) cron
republishes rows that were never sent and re-arms or closes jobs whose pointer
went missing. The job row, not the pointer, is the authority. Saving a record
enqueues an embedding job the same way, except that its outbox row is never
revised. A deletion, whether the owner's or retention's, ends all of it for one
account: the account's rows go with it, and only the journal remembers.
Subscriptions grant the access that retention waits for: an account lapses when
the subscription that pays for it does. An owner may ask for an archive of
everything at any time; the same consumer and pass make it and, a day later,
remove it.

`PROJECT.json` lists every component with its status, and under "hazards" what
can go wrong at which line and which property would notice.

## The modules

| Module | What it models |
|---|---|
| `DeliveryOutbox` | One row of `background_job_deliveries` and the pointers sent for it: each SQL statement of the store and each pure helper of `queue-publish.ts` as an operator. No actions: the modules that extend it decide who runs it when. |
| `ReminderJob` | One row of `reminder_delivery_jobs`: the conditional updates of the store and the predicates of `policy.ts`, again as operators. |
| `ReminderDelivery` | One occurrence of a record for one installation, with any number of owner invocations, queue callbacks and recovery passes interleaved. |
| `ReminderRollback` | `ReminderDelivery` composed with the Service-Wide Hold and the reset an operator runs inside one. |
| `EmbeddingJob` | One embedding job row, the embedding row it writes, and the statements of the store on them, as operators. |
| `EmbeddingQueue` | Mutations, callbacks and recovery passes that embed one record. |
| `DerivedIndex` | The abstract specification of an index derived from a source; `EmbeddingQueue` implements it. |
| `AccountRecord` | What the database holds of one account, and the statements of the deletion, retention and hold services. |
| `AccountDeletion` | One account's deletion by requests and sweeps, with the journal, holds, a backup and a restore. |
| `ErasurePromise` | The abstract specification of an account that closes once and is erased once; `AccountDeletion` implements it. |
| `PaidAccess` | The subscriptions of one customer at Stripe, the copy of them, and the access they pay for. |
| `OwnerDataExport` | One owner's data exports: the rows, the archives, the fences, a restore, and the invocations that request, make and clean up. |
| `HouseholdGovernance` | Household workspaces: founding, invitations, ownership, departures, dissolution and the deletion of a member's account, by any number of people. |
| `MCReminderDelivery`, `MCReminderRollback`, `MCEmbeddingQueue`, `MCAccountDeletion`, `MCPaidAccess`, `MCOwnerDataExport`, `MCHouseholdGovernance` | The small sets TLC uses. |
| `ReminderDelivery_proof`, `ReminderTiming_proof`, `ReminderRollback_proof`, `EmbeddingQueue_proof`, `AccountDeletion_proof`, `PaidAccess_proof`, `OwnerDataExport_proof`, `HouseholdGovernance_proof` | TLAPS proofs about the module named; `ReminderTiming_proof` is about `ReminderDelivery` too, and holds the theorems about when a job is woken and when it is settled. |

All seven systems share one form. An invocation runs one database statement or
one external call per step; what it runs next is its label (`pc`, or
`worker[w].step`, `procs[p].step`; in `HouseholdGovernance` the `kind` of a
call), and what it has read is its `frame`. Statements that the
code runs inside one transaction, behind a lock, are one step. A process that
crashes keeps nothing; what it wrote stays.

### How `ReminderDelivery` corresponds to the code

*State.* `schedule` is the `reminder_schedules` row as this occurrence sees it:
`unset`, `here` (it has this occurrence, alerting at `alert`), `away` (it has
another occurrence, or the record is not eligible) or `cleared`. `intents` has
one status per alert time, since the unique index on schedule, occurrence and
`intended_at` allows one intent row for each. `job` and `row` are the two rows,
or `None`. `queue` is the set of pointers at the provider and `sent` the
revisions it has accepted. `enabled` and `optIn` are the installation's two
rows. `pushed` and `job.round` are history: no guard reads them.

*Processes.* An invocation runs one database statement or one external call per
step; `pc` is the statement it runs next and `frame` holds what it has read: the
`now` it captured when it began, the revision its arm is fenced on, the alert
and the due time it decided on, the message to acknowledge. Where the code puts
statements in one transaction (`upsertOccurrenceIntent`), they are one step.
Reads made together to take one decision (`loadDispatchContext`) are one step as
well. `frame.then` is how a recovery pass goes on to its next scan.

| Actions | Code |
|---|---|
| `Save` ... `ReplaceJob` | `saveReminder`, `reconcileReminderRecord`, the planner and `upsertDeliveryJob`, whose read and write are two steps |
| `MoveAway`, `Clear` | reconciliation that supersedes the intent, the cascade of `clearReminder` |
| `Disable` ... `SuppressJobs`, `Register` ... `ListIntents` | the installation service, write by write; a terminal endpoint runs the same writes from a callback |
| `CreateRow`, `ReviseRow`, `ReadForPublish`, `Send`, `MarkPublished`, `RecordPublishFailure`, `ReloadForRearm` | arming and publishing; three callers fence it, two do not |
| `Receive` ... `Acknowledge` | the callback, `claimJob` of the processor, `dispatchReminder` |
| `StartPass` ... `CloseStale` | `recoverBackgroundJobDeliveries` for this job |
| `Crash`, `LoseMessage`, `SkipPass`, the failing `Send` | the faults |
| `Tick`, `Stop` | time; `Stop` is the bound of the clock |

*Rows of other alerts* are not in the state: every statement names its job or
delivery by id, and the installation-wide suppression is, for this alert, one
conditional write. Time zones, previews, audit entries and error texts are left
out; the alert time the owner's choice resolves to is what `Save` chooses.

*Time.* One tick stands for about five minutes: the lease, the lost-wake-up
grace, a retry and a publish retry all last five minutes in the code. Whether a
comparison is `<` or `<=` is kept. The six-day queue delay is scaled down
(`MaxDelay`) so that checkpoints occur within the bound, which changes how many
hops an alert takes and not what a hop does.

*Fences.* `MarkFence`, `RearmFence` and `AbandonFence` name the revision each
fenced write is given; beside them stand variants (`NoFence` and others) that no
specification uses: they are what a plausible bug would write instead, and the
project checks that the properties notice.

### How `EmbeddingQueue` corresponds to the code

*State.* `record` is the saved record, as far as the pipeline looks at it: its
text, its sensitivity, whether it is archived. `job` and `emb` are the rows of
`embedding_jobs` and of the embeddings. A claim has a generation, which is what
`activeClaim` of the store compares before each write of a pass; `gen` counts
the generations taken. `delivery` is the status of the job's outbox row, which
this family never revises, so its revision is always 0 and one idempotency key
(`keyUsed`) stands for all its sends. `announced`, `misses` and the `deadText`
of a job are history.

| Actions | Code |
|---|---|
| `Save`, `Find`, `Insert`, `Reopen`, `CreateDelivery` | a mutation, then `enqueueAndPublishBackgroundJob`: look the job up, insert it or reopen it, create the outbox row. Reopening a running job sets its rerun marker |
| `Publish`, `MarkPublished`, `MarkPublishFailed` | the send to the provider, and what is recorded of it |
| `Receive`, `ClaimJob` | the callback (`consume.ts`): the revision check, and the claim by id |
| `Load`, `ReadRecord`, `Scrub`, `Lookup`, `Refresh`, `Embed`, `Upsert`, `Settle` | `processEmbeddingJob` and the steps it runs: load the job, read the record, remove the vector of what must not be indexed, find the current row, refresh its metadata, ask the provider, write the vector, settle the job with a verdict |
| `ListDue`, `Inspect`, `Abandon`, `RecoverStale`, `ClaimNext` | the family's part of the recovery pass and its backfill |
| `BackoffEnds`, `LeaseLapses`, `SuppressionEnds` | time: it is not counted, only what ends with it |
| `LoseMessage`, `Crash` | the faults |

With `Overlap` a lease may end while the invocation that took it still works
(a fault, and counted as one); without it leases outlast invocations, which is
what the code's lease length is chosen for. The run takes the harder case.

### How `AccountDeletion` corresponds to the code

*State.* Time is in days. `db` is production's rows of one account, `backup`
one instant a restore may go back to, `restore` the procedure's step and the
branch it works on, `journal` the times of the account's Deletion Records and
`heldUntil` the latest journaled hold.

| Actions | Code |
|---|---|
| `OwnerRequest`, `ListDue`, `ClaimPurge`, `CommitClaimed`, `SweepIntent` | the three ways a deletion begins or goes on: the owner's request, the retention sweep's listing and its one-statement claim, the recovery sweep over intents |
| `CancelBilling`, `CheckHold`, `WriteRecord`, `MarkJournaled`, `DeleteAccount` | `completeDeletion`: each store's write is a step of its own |
| `Fail`, `Refused` | a call that fails, and a write refused because writes have stopped |
| `Lapse`, `Resubscribe` | the deadline of the account set and cleared by billing |
| `PlaceHold`, `JournalHold`, `SweepRecords` | the Legal Hold and its journal entry; the sweep of records past their retention |
| `Capture`, `StopWrites`, `JournalIntents`, `Drain`, `ApplyDeletionRecords`, `Reconcile`, `Swap`, `Abandon` | a restore point, and the restore procedure in the runbook's order |
| `Tick` | a day. It waits for an invocation begun the day before, which lives for minutes |

*What no code enforces.* A hold may be placed for any length and a deletion may
wait for ever: `Spec` has no bound on either. The operator's promise that every
deletion is done within `LongestWait` is `Prompt`, and `PromptSpec` is `Spec`
with it. Only what depends on the age of a Deletion Record is claimed of
`PromptSpec`; what protects held data is claimed, and proved, of `Spec`.

*Holds.* `heldInTime` is history, which no action reads: was the hold in force
placed while no purge was past its last safe point (`PurgeBegun`)? The code checks
for a hold once, before the record, so a hold that comes later comes too late.
`HeldInTime` is a hold that did not, whether it came before the request or
after it.

*The number of days.* `BackupWindow`, `RecordRetention` and `LapsedRetention`
are `RETENTION`'s fields, scaled down. `RecordOutlivesBackups` and
`ImplementsPromise` rest on `LongestWait + BackupWindow < RecordRetention`: the
code has 7 and 30 days there, so the assumption is that a deletion never waits
23 days. `del_late` checks `Spec`, where it may.

### How `PaidAccess` corresponds to the code

*State.* `stripe` is each subscription at Stripe, `dispute` and `refund` each
subscription's dispute and refund, there and on record, `record` the row of
`stripe_subscriptions` (whether an end and an overdue renewal are recorded),
`payer` the subscription the access profile is granted by. `todo` is a
reconciliation pass's stage and what is left of its list.

| Actions | Code |
|---|---|
| `Receive`, `CheckEnd`, `Retrieve`, `RecordSubscription`, `Lapse` | a webhook: Stripe's current copy is read, recorded and, if it has ended, lapses what it pays for. A webhook may arrive at any time, again, or never |
| `Blocks`, `ReadForGrant`, `Grant` | admission: the blocks, the profile, the grant, in separate statements |
| `MatchRefund`, `Revoke`, `Cancel`, `MarkRevoked` | applying a refund |
| `SeeDispute`, `NoteStop`, `StopRenewal` | applying a dispute: the stop is noted before it is asked for |
| `NextStage`, `NextItem` | the reconciliation pass, stage by stage and item by item; the dunning stage comes last and looks at Stripe's copy before it ends anything |
| `BeginRefund`, `RecordRefund`, `MakeRefund`, `AttachRefund`, `BeginReadmit`, `GrantException`, `ResumeRenewal`, `CheckStanding` | the operator's actions |
| `Outside` | the customer and Stripe: checkout, cancellation, keeping the renewal, the end of a period, a renewal failing and recovering, a dispute opened and won |
| `Fail` | a call that fails or an invocation that dies, at any step |

### How `OwnerDataExport` corresponds to the code

*State.* `jobs` are the owner's rows of `owner_data_export_jobs`, oldest first;
a row's `key` is the predecessor its idempotency key names and `cursor` its
`artifactExpiresAt`. `archives` are the artifacts, told apart by the claim
that wrote them. `fences` is when the exports of each key were last fenced, in a
store no restore touches. `backup` is the instant of production that the
next restore goes back to. `fenced` and a row's `by` are history.

| Actions | Code |
|---|---|
| `Request`, `Enqueue` | the request action: an unfinished export is returned, a lapsed one cleaned up first, and the insert meets the unique index on its key |
| `Download` | a GET of an export past its expiry, which cleans it up; any other only reads |
| `Mark`, `Delete`, `Clear` | the cleanup, three calls: `markExpired`, the deletion of the bytes, `markArtifactDeleted`. Request, download and sweep go on differently when one of them fails (`CleanupFails`) |
| `Consume`, `Present`, `Put`, `Complete`, `FenceDelivery`, `RecordFailure` | the consumer's claim and `processOwnerDataExportJob`, whose every write but the fence compares the claim token |
| `StartPass`, `SelectNext`, `ClaimNext`, `StopClaiming` | the recovery pass works on the job due first, on the clock reading it began with |
| `ListExpired`, `SweepNext`, `SelectOrphans`, `Purge` | its expiry sweep: lapsed jobs one by one, then archives no job leads to |
| `SaveBackup`, `Restore` | a restore point; the restore procedure with its marking of fenced jobs, in one step, outbound held and no invocation outliving it |
| `CleanupFails`, `WorkFails`, `FenceFails`, `Crash`, `TimeOut`, `Tick` | the faults, the platform's limit, time |

*Time.* A claim's lease is ten minutes and an invocation's limit 300 seconds,
but the code does not rest on it: the claim token is there for a worker that
outlives its claim, and the repository's processor tests have one that is eleven
minutes late. `MaxRun = Lease` lets a claim be taken over under its worker.
A pointer may be delivered at any time, again, or never, so the outbox
row is not in the state.

### How `ReminderRollback` corresponds to the code

`hold` is when the open Service-Wide Hold was placed. While there is one, no
invocation begins (`Refuses`), except on a proxy instance that trusts an older
read; what had begun goes on to its end. `ResetToCronOnly` is
`resetReminderDeliveriesToCronOnly`, allowed when the hold is a lease old. The
earlier code, which the reset prepares for, is not in the repository at this
commit and not modelled: the properties say what it must find.

An owner's mutation, even one that is a single step here, is refused once the
hold is older than the proxies' reading of it. A proxy that cannot read the
hold keeps its last answer; that failure is left out.

### How `HouseholdGovernance` corresponds to the code

*State.* `status` is the workspace row of each household, `member` its membership
rows (active, removed or never there; the role; an open offer of co-ownership),
`confirmed` the votes to dissolve it, `invitation` the invitation rows, with the
household, the sender, the address, the expiry and a count of secrets issued in
place of the secret. `accounts` are the users that exist.

*Calls.* Governance looks up the caller's household, locks its row, reads the
roster again and writes, in one transaction: one step. What is read *before* the
lock is a step of its own, and what it found is kept in `calls` until the call
writes or is dropped: that an owner who sends, resends or cancels is one, and the
clock they read; the invitation a recipient loaded by its secret; the admission
check of a founder. A call may be dropped at any time, which is a refusal, a
rollback or a crash.

| Actions | Code |
|---|---|
| `CheckAdmission`, `InsertWorkspace`, `InsertOwner` | `createHousehold`, three statements without a transaction |
| `RequireOwnedHousehold`, then `SendInvitation`, `ResendInvitation`, `CancelInvitation` | the owner's side of invitations; lapsed links are settled under the lock, and seats are members plus live links |
| `LoadForAccept`, `AcceptInvitation`, `LoadForDecline`, `DeclineInvitation` | the recipient's side. Acceptance locks its user first and reads the clock again under the household's lock |
| `OfferOwnerRole` ... `DeclineOwnerRole`, `StepDownFromOwner`, `RemoveMember`, `LeaveHousehold` | `governance.ts` |
| `ConfirmDissolution`, `CancelDissolution` | votes to end it; `endsNow` is what the caller's screen said, which is any value here |
| `DeleteUser` | the database trigger on the deletion of a user and the cascades after it |
| `Drop`, `Tick` | a call that goes no further; a day |

## What is checked

Every run takes the smallest sets in which the races of its question occur:
they are between two writers of one row with a third holding an old read, so two
or three processes, one record and two values of what may change. Wherever two
processes are interchangeable a safety run uses symmetry over them. Deadlock is
checked in every run but those of `AccountDeletion`, `OwnerDataExport` and
`HouseholdGovernance`, where nothing is left to do once the clock has reached its
bound and every invocation is over, or everybody has gone.

Type invariants are not among the runs' properties: they are proved, for all
seven systems, and a theorem costs a reader less than a row. So is
`MarkerOnlyWhileRunning` of the embedding jobs.

`households` uses symmetry over people and links, and a `VIEW` that reduces an
invitation that is no longer pending to its state. No action and no property
reads more of such a row: each looks at sender, address or expiry only of
pending ones. What two people and one household leave out is proved for any.

| Run | Asks | Bounds that matter |
|---|---|---|
| `edits` | Do two edits, two callbacks and a pass ever dispatch or push twice, mark an unsent revision, or leave a stale plan or a late wake-up? | no faults; alerts at 3 and 5 and a largest delay of 2, so one and two checkpoint hops; five ticks |
| `settles` | Is every planned job settled, within a fixed time of its freshness, and its row retired, and is a push always between alert time and freshness? | alerts at 1 and 3, so that an edit may move one during retries and a row may be left pending for the later one; all owner operations and push answers, one fault, publish-ahead off; nine ticks, two past the deadline with that fault |
| `rollback` | Does a reset inside a hold leave the earlier code what it can run? | a dispatch, an edit, a pass and one fault around one hold; lease of two ticks |
| `embeddings` | Is every step of the pipeline a step of the abstract index, is a job given up on only for cause, and does every announced record come to rest? | two saves, one callback, one pass, one fault; a lease that may end under them; a text the provider refuses, a record that may become restricted or archived |
| `deletion` | Is every step a step of the promise, does a record outlive the backups, does held data stay, does retention claim only what is lapsed, and is an accepted deletion carried out? | one invocation at a time (the theorems are for any number); the operator's promise with a longest wait of two days; one failed call, one restore, to before a hold or a request too; holds before and after the request; an account that may lapse and resubscribe; five days |
| `del_late` | Does a deletion that waited too long survive a restore? | violated |
| `paid_access` | Does an end stand, does only an own end lapse, and do the passes bring access, refunds, disputes and dunning to rest? | two subscriptions, four outside changes, one fault, one webhook or operator invocation beside one pass |
| `paid_resume` | Does re-admission resume only what Tendnote stopped? | violated |
| `export` | Is there one export at a time, are its bytes the completing claim's, and does no finished cleanup leave bytes? | two web invocations, a consumer and a pass that may outlive their claims, two jobs, three claims, one fault; a lapse within the four ticks |
| `export_settles` | Is an export finished, is a lapsed one cleaned up, and does a restore repeat nothing? | one invocation of each kind, one fault and one restore by the third tick, then two ticks for what they left behind |
| `households` | Is there always an owner, do seats hold, do votes and offers lapse with the standing they rest on, and does nobody enter, govern or end a household but in the ways the rules name? | two people and an outside address, one household, three links on three seats, two calls under way, one resend; links live two ticks, so that a call that read the clock on a link's last tick may write after it |
| `lost_edit` | Does an edit saved during a dispatch stand? | violated |

`embeddings` and `deletion` have one session and one worker, because their
liveness allows no symmetry; that a second one changes nothing is proved rather than
run, for the index and the promise and the invariants named under "What is
proved". In `export_settles` a call fails, and a restore is made, by
`LastFault`: after it the passes have the time the property gives them.

One owner at a time is a bound of `edits`: with two, a callback delayed past an
edit may still write a job that the edit planned anew, which is what
`lost_edit` shows in its shortest form. `PendingJobFollowsSchedule`,
`NoLateWakeup` and `EditStands` are stated for moments when no invocation is
under way and nothing has failed: in between, the rows may disagree.
`PushedOnce` is stated without faults and with a push service that accepts,
because the code accepts a repeated push after a dead claim (the device shows
one notification per tag). In `paid_access`, one refund and one dispute per
subscription, and one invocation slot for both webhooks and operators, leave
out two operators at work on one invoice at once.

*Fairness.* No liveness property assumes anything of an owner, a customer, an
operator's action or a webhook, and no fault is ever fair.

* Reminders: weakly fair to the clock and to the next step of each process. An
  invocation the platform has started goes on unless it crashes; the provider
  delivers a visible message; Vercel runs the cron. `Tick` waits for a pass
  that is due (`PassEvery`) and for invocations at the end of their `MaxRun`,
  the platform's own limit (300 seconds, about one tick). `MaxRun < Lease` is
  the comment at `reminders/policy.ts:5-11`.
* Embedding: weakly fair to the next step of each process and to the end of a
  backoff and of a lease. The recovery pass is one of the processes.
* Deletion: weakly fair to what an invocation has begun, to the clock while the
  operator's promise lets it go on, and to
  the restore procedure (an operator finishes the runbook); strongly fair to
  the recovery sweep, because holds, restores and other work disable it for a
  while but the cron comes back every hour.
* Billing: weakly fair to what an invocation has begun and to the pass. The
  passes alone must bring everything to rest.

* Export: weakly fair to the clock, to what an invocation has begun and to the
  start of the recovery pass, which the cron makes. Requests, downloads and
  pointers may never come: the pass alone must finish and clean up.

### What the violated runs show

* `lost_edit`: the owner moves an alert while a callback is dispatching it. The
  planner leaves a running job alone; the dispatch then sees the new schedule,
  and suppresses the job as ineligible. The new alert is never sent and saving
  again does not help. `reminders/outbox.ts:73-74` promises that no reminder is
  left without a wake-up.
* `del_late`: a Deletion Record is dated at the request and expires by that
  date. If a hold or a lasting failure keeps the deletion waiting, the record
  may expire while a backup still holds the account, and a restore brings the
  account back (`recovery-journal.ts:175` says it cannot). The household purge
  dates its record at the attempt for this reason.
* `paid_resume`: the stop of a disputed subscription is noted, the call to
  Stripe fails, and the customer cancels. Re-admission sees a noted stop and a
  scheduled cancellation, and resumes it
  (`paid-access-revocation.ts:271-273` says it never does).

### Seen while modelling

These are no runs: the models contain them, and the properties are stated so as
to hold around them.

* A push fails and its retry is armed without a fence, just after an edit of the
  same alert was armed. The retry's revision replaces the edit's, with the
  retry's time (`dispatch.ts:210`). The alert is late, until the sweep finds it.
* A retry is written by id alone (`dispatch.ts:210`), over whatever the row has
  become. An owner who disables and registers again during a dispatch gets a
  second planning, which a second callback dispatches; the retry of the first
  makes that job claimable at once, and a third callback dispatches it beside
  the second. TLC finds it with `OwnerOps` save, disable and register and
  `PushOutcomes` accepted and failed. `OneDispatcherAlways` is therefore stated
  for when no such write can fall into another dispatch, and nothing else is
  needed: no edit, registration, redelivery or takeover does it.
* A recovery pass that finds an overdue job without a delivery row re-arms it
  without a fence (`delivery-wakeups.ts:143-165`, the revision it observed is
  undefined). If a registration has just inserted an overdue job, and the owner
  then saves a later alert and an earlier one, the pass may reload the job at the
  later and arm it over the earlier: the pointer comes late, until the next sweep.
  TLC finds it with five mutations (disable, save, register, save, save).
* A callback that finds an endpoint gone revokes the installation while the
  owner's save is between listing installations and writing the job: the job
  stays pending on a disabled installation, and a later save, which plans enabled
  ones only, leaves it at the old alert time. Its dispatch suppresses it.
* With publish-ahead off, a save to an earlier alert that crashes between
  replacing the job and arming it leaves the row pending for the old, later time.
  A pending row is not a lost wake-up (`delivery-wakeups.ts:97-100`), so no pass
  touches the job before that time: the reminder is not delivered, nor closed as
  stale, until then. TLC finds it with alerts two ticks apart, as a violation of
  a deadline counted from the job's own alert. With publish-ahead off,
  `SettledInTime` therefore counts from the latest alert (`Horizon`).
* Moving an alert and moving it back leaves its intent superseded, because the
  insert meets the old row and does nothing. An installation registered later
  plans only active intents and gets no job.
* The recovery pass decides that an embedding row's job is finished, the job is
  reopened, and the pass then abandons the row of a live job
  (`recovery.ts:225-226`). The backfill, which looks at jobs, still runs it.
* A pointer whose worker died is delivered again, meets a running job and is
  acknowledged (`consume.ts:95`): the claim by id does not take an expired lease
  over there. The backfill does.
* A Legal Hold placed between the check and the record leaves a record of a held
  account, and one placed after the check does not stop the delete
  (`account-deletion/service.ts:71-80`), though the comment there says that such a
  record "must never exist for held data". `NoRecordForHeldData` and
  `HeldDataStays` are therefore about holds that came while no purge was past its
  check and no record was there, before the request or after it.
* Admission reads the blocks and grants later: an end, a refund or a dispute in
  between is granted over, until a pass repairs it
  (`paid-access-admission.ts:67`). `AccessFollowsPayment` is therefore an
  eventuality.
* An owner who has already confirmed and presses again, from a screen that says
  their press would not end it, does end the household when the co-owner whose
  vote was missing has left or stepped down meanwhile
  (`households/governance.ts:787-797`): the check asks whether they alone are
  awaited, and they are not awaited at all. The comment above it (755-765) speaks of
  any press. `EndedByItsOwners` says it of first confirmations.
* The owner check of an invitation precedes the lock
  (`requireOwnedHousehold`), and nothing under it reads the workspace's status. A
  link sent by an owner who has left meanwhile stays live, and one sent while the
  household was dissolved lets its recipient in afterwards: they are then a plain
  member of a household that has ended, where `dissolve` says that "every live
  invitation dies, every active membership ends" (`governance.ts:881-882`). TLC
  finds it in nine states, as a violation of `status[h] = "dissolved" =>
  ActiveMembers(h) = {}`; `Governed` is therefore about active households.
  Departure cancels links, the deletion of a co-owner's account does not.
* Two creations at once, or a creation beside an acceptance, leave one person in
  two active households (`households/lifecycle.ts:52`): the check and the insert
  are not one step, and the unique index is per household.
* An acceptance counts the invitation it accepts among the seats
  (`household-policy.ts:91`), so the link that holds the last seat can never be
  accepted, and a household fills to one less than its limit by invitation
  (`docs/phase-8/household-setup-and-member-management.md:81` counts it as one seat).
* Governance locks the household and then touches the user's rows, acceptance and
  account deletion lock the user first: two of them can wait for each other until
  Postgres ends one. The model lets neither go first, and loses nothing but the wait.
* The export sweep reads the ids of lapsed archives and deletes by job id
  (`owner-data-export/drizzle-store.ts:305`). The archive of an attempt whose
  `markCompleted` failed lapses a day later; a retry that replaces it between the
  two statements completes, and its bytes are deleted: a download is
  offered for a day that answers 404. `ArchiveIsTheClaims` therefore speaks of the
  bytes that are there.
* A fence is filed under the key of the request, which names its predecessor
  (`owner-data-export/processor.ts:86`). A restore to before a delivered export
  takes its row away, the next request has the same predecessor and the same
  key, and a second restore, before that export has run, marks it expired.
  `FencedIsNotRepeated` is about rows, not keys.

## What is proved

For any sets of processes and any values of the constants allowed by each
module's named assumptions (disjoint process sets, natural numbers, positive
durations):

| Theorem | States |
|---|---|
| `ReminderDelivery_proof!TypeCorrect`, `PublishedWasSentAlways`, `PushedInWindowAlways`, `PushedOnceAlways`, `OneDispatcherAlways`, `PendingFollowsAlways` | `[]` of `TypeOK`, `PublishedWasSent`, `PushedInWindow` and `PushedOnce`; of `OneDispatcher` assuming `RetriesApart`; of `PendingJobFollowsSchedule` assuming `OneSession` |
| `ReminderTiming_proof!NoLateWakeupAlways`, `SettledInTimeAlways` | `[]` of `NoLateWakeup` assuming `OrderlySession`; of `SettledInTime` assuming `Recovers` |
| `ReminderRollback_proof!HandedOverAlways`, `FreshKeyAlways` | `RollbackSpec =>` `[]` of `HandedOver` and `FreshKey`, for any number of holds, faults, owners' mutations of every kind and push answers |
| `EmbeddingQueue_proof!EmbeddingTypes`, `IndexMatchesRecordAlways`, `MarkerOnlyWhileRunningAlways`, `DeadLetterIsEarnedAlways`, `PipelineImplementsIndex` | `[]` of `TypeOK`, `IndexMatchesRecord`, `MarkerOnlyWhileRunning` and `DeadLetterIsEarned`; `Spec => ImplementsIndex` |
| `AccountDeletion_proof!DeletionTypes`, `RecordOutlivesBackupsAlways`, `NoRecordForHeldDataAlways`, `HeldDataStaysAlways`, `OnlyLapsedPurgedAlways`, `DeletionImplementsPromise` | `Spec =>` `[]` of the type invariant and of `NoRecordForHeldData`, and the two action properties, with no bound on waits or holds and no relation between the retention periods; `PromptSpec =>` `[]RecordOutlivesBackups` and `ImplementsPromise` assuming `Timely`: `LongestWait + BackupWindow < RecordRetention` |
| `PaidAccess_proof!PaidAccessTypes`, `EndStandsAlways`, `OnlyOwnEndLapsesAlways` | the type invariant and the two action properties |
| `OwnerDataExport_proof!TypeCorrect`, `OneExportAtATime`, `ArchivesAreTheClaims`, `CursorsOutliveBytes`, `FencedStaysOver` | `[]` of `TypeOK`, `OneOpenExport`, `ArchiveIsTheClaims`, `CursorOutlivesBytes` and `FencedIsNotRepeated`, past any number of restores |
| `HouseholdGovernance_proof!TypeCorrect`, `AlwaysGoverned`, `NothingEverOutlivesStanding`, `SeatsAlwaysHold`, `TerminalAlwaysStands`, `AlwaysAdmittedByLiveLink`, `AlwaysPromotedByConsent`, `AlwaysEndedByItsOwners` | `[]` of the type invariant and of `Governed`, `NothingOutlivesStanding` and `SeatsHold`; the four action properties |

None of the invariants is inductive alone. Each proof module defines `IInv`,
proves that the initial states satisfy it and that every action keeps it (one
lemma per group of actions and per conjunct), and derives the properties.

* Reminders. A mark is only right because the process that makes it names the
  revision whose send it saw accepted. `FencedPublish` says that a process on its
  way to publish knows its revision and one about to mark has had it accepted;
  `IInv` is `TypeOK`, `FencedPublish` and `PublishedWasSent`. `Window` says what a
  dispatch knows from its own claim on: the alert time had come, and past the
  check of the context that it is fresh. It speaks of the frame, not of the
  row, which is why no edit in between can disturb it.
* One dispatcher, one push. A claim excludes others for as long as its process
  may run: `AllAnswered` says that for each dispatch the job is gone for good, or
  has a later round, or is `Taken` as of that dispatch's clock: running since
  then, settled, or failed with a retry that the process will not see.
  `RunsInTime` (no invocation outlives `MaxRun`) and `MaxRun < Lease` make
  `Taken` shut the claim's `WHERE` (`NoClaim`). What a step may do to the job is
  one of seven things (`JobStep`), of which only a retry written over a later
  planning breaks it; `RetriesApart` leaves that one out (no push fails, or
  invocations take no time). `PushedOnce` adds `Spent`: what was pushed is
  settled, superseded, or about to be settled by the process that pushed it. Its
  premise implies `RetriesApart`, so that theorem has no assumption.
* The plan follows the schedule. The owner's process reads schedule, intents and
  job in one statement each and writes in others, so the argument is that what
  it has read still holds when it writes. `Roles` says who may be where (the
  labels of planning are the owner's), hence only that process puts a job back to
  pending or moves its alert time; callbacks and passes only claim and settle
  (`OtherKeeps`). `Planned` says that a pending job is planned for the schedule's
  alert, or that the process is on its way to see to it (`PlanAgrees`), and what
  must hold of the installation and the intent meanwhile (`OneActive`,
  `ActiveIsScheduled`, `NonePendingDisabled`). `OneSession` assumes that the owner's
  mutations come one after the other and that no push finds its endpoint gone:
  both exclude a second process that revokes or plans in between, with which the
  property is false (see above).
* No late wake-up. The proof says, at every moment and not only at the quiet
  ones, where the wake-up of a waiting job is. `RowArmed`: once the owner's
  process has armed it (`Armed`), the row is there and live, and it is either due
  in time or its revision was sent and the queue holds a pointer of it that shows
  in time. `Carries`: a process about to publish or re-arm the current revision
  has a due time no later than the job's, and a callback that holds the pointer
  of the current revision has not gone past its claim, so an acknowledgement
  takes away only a pointer nobody waits for. A re-arm makes a revision that is
  new to all (`RevisionsKnown`), which frees the invariant from every other
  process at once. That a callback or a pass writes under the fence of the
  revision it has read is `Fenced`; `RowComing` is the gap between the insert of
  a job and its row, closed by the process that is in it. `OrderlySession` leaves
  out what arms without a fence: a second session, a registration, a failing push
  (see above), and a pass that finds a job overdue before it has a row, which
  cannot be while the grace outlasts the invocation that planned it. That is
  `MaxRun <= Grace`, 300 seconds each (`maxDuration` and `delivery-wakeups.ts:24`).
  That no endpoint is found gone is assumed for the proof's sake: it keeps the
  owner's statements to the owner's process. Covered are the saves, moves, clears
  and disables of one session with any callbacks, passes, checkpoints and
  redeliveries, and clock readings up to `MaxRun` old.
* Settled in time. This is the deadline of everything else: with any owners,
  callbacks, passes, push answers and faults, the passes settle every job by
  `Deadline`, and each fault puts that off by `FaultCost`. The invariant gives each
  stage of recovery a time of its own. `LastStart`: no invocation that arms the
  row of an unsettled job begins later, since what is stale is not retried or
  re-armed (`PlanTimes`, `TryTimes`). `PublishBy`: a pass begins by then that finds
  the row unpublished and due (`RowInTime`), and publishes it (`Republishes`).
  `CloseBy`: a pass begins by then that finds the wake-up lost and the alert
  stale, and closes the job (`Closes`). `OnTime` says that each cron's last pass is
  not yet the one it needs, or is that pass and still at it; since a pass begins
  every `PassEvery` and ends within `MaxRun`, the clock cannot go past
  (`NowInTime`). While a callback works on its claim (`InHand`) nothing is
  asked of the passes; when it dies, the fault has paid for its lease, and
  when it ends, it has settled the job or scheduled a retry before `LastStart`. A
  step does one of five things to job, row, faults and passes (`SettleStep`), and
  there is a lemma for each (`RenewsInTime`, `TakesInTime`, `FailsInTime`,
  `BeginsInTime`, `GoesOnInTime`, ...). A fault moves all the times at once, so
  that what was in time stays so. `Recovers` asks for a recovery cron
  (`apps/web/vercel.json` schedules one) and, with publish-ahead off, for a
  latest alert, from which `Horizon` counts.
* Rollback. One lease into a hold every invocation of before is over
  (`LeaseEmpties`: none began after the hold was placed, none outlives `MaxRun`),
  none may begin, and a claim they left is older than the lease
  (`ClaimedBefore`), so the reset releases it. `KnownRevisions` says that no
  send and no process on its way to one is ahead of the row's revision; the
  reset's is the next.
* Embedding. What a pass has read matters only while it holds the claim, so the
  invariant speaks of passes whose claim is the row's: `JobFirst` (before there
  is a job there is no outbox row, and nobody is past looking for them), `ClaimsNumbered` (a
  running job has a generation, and none comes from the future), `FramesFilled`
  (a label implies what has been read) and `PassAgrees` (a pass that holds the
  claim of a job with no rerun marker, of an announced record, has read the
  record as it is, and what it has written agrees with it). The marker is what
  makes the last one stable under an edit. The refinement
  needs the same facts at `Settle`. `DeadLetterIsEarned` needs `Budgeted`: unless
  the job has a rerun marker or has died of this very text before, it has counted
  no more attempts than there were misses, one more while it runs, so that a job
  that is out of attempts has had its misses; and a pass that holds the claim
  counts from the attempts of the row (`ReadStands`) and has a reason for its
  verdict (`VerdictEarned`). A transient failure has the longer budget, which is
  the assumption `MaxAttempts <= MaxTransientAttempts` (5 and 48 in
  `packages/domain/src/semantic-retrieval.ts:168,176`).
* Deletion, with the operator's promise. `IntentIsPast`, `BackupIsPast` (dates are
  not in the future), `FramesFit` (what a process carries is what the intent says),
  `JournalNamesIntent` (a record of an account that is there is its intent's),
  `GoneOnRecord` (an account that is gone has a record dated within `LongestWait`)
  and `Restoring` (a branch lags production only in what the journal and the
  intent make up for) are the argument that the journal, the intent and the
  account are never out of step by more than one write. `Timely` turns the age of
  the record into `RecordOutlivesBackups`; `ImplementsPromise` follows action by
  action.
* Deletion, of the code alone. `HeldInv` is a second inductive invariant, of
  `Spec`. `ChecksStand` says that a purge past its check passed over no hold that
  came in time: a later one does not count as such, and one that is in force
  today was in force on the day the check read. So nobody writes a record or
  deletes while such a hold lasts (`NoRecordForHeldData`). `BackupHeld` (the
  restore point has the account, and its hold is production's or an earlier one)
  and `BranchHeld` (the branch keeps the account, and at the end has the
  hold the journal names) carry both past a restore, which with `Quiet` begins
  to change the branch only when every invocation is over. `OnlyLapsedPurged`
  needs of it that what an invocation carries is not from the future: only
  `ClaimPurge` and `Swap` bring a new reason, and the claim compares deadline and
  hold in its own statement.
* Billing. Everything Stripe and the operator record about one subscription
  grows (`Grows`): a subscription that has ended stays ended, a refund goes from
  recorded to revoked, a dispute that is known stays known. `Fits` says that what a
  process has read of its subscription, as far as it is of this kind, is so; it
  was when it was read, and so it stays. A process about to lapse the payer has
  its reason still. `ListHasStage` and `ListFits` say the same of what
  a pass has listed.
* Export. `DataFits` says what holds of rows, archives and fences, of production
  and of the backup alike, since a restore puts one in the other's place:
  `Chained` (each row but the last is over and is some row's predecessor, so a
  key nobody has taken is the last row's), `Agree` (a row and its archive name
  one claim and one expiry, and an expired row with bytes has its cursor) and
  `Fenced` (the key of a row that was fenced is one the fences name, which the
  restore looks for). `FramesFit` is what each step relies on, `OwnClaims` that no two
  invocations hold one claim, `RestoreLeft` that while a backup is kept a restore
  may still come.
* Households. `FoundersAlone` (until its founder's row is in, a new household has
  no rows, no votes and no links, and only one founder is on the way to it) starts
  the argument; `OwnedOnceUsed` (an active household has an owner, unless nobody
  has ever been in it, been asked into it or governed it) is kept because each
  departure counts owners under the lock; `VotesAreOwners` and `OffersAreOpen` are `NothingOutlivesStanding`. `SeatsReserved` is stronger than
  `SeatsHold`: members and *pending* rows, lapsed or not, never exceed the
  seats. A lapsed row keeps its seat until a call settles it, and a call that
  counts by an older clock settles fewer, so it cannot count a seat twice: that is
  why reading the clock before the lock does no harm.

Only model-checked: liveness and fairness, which are out of the prover's reach
(`EventuallySettled` and `RowRetired` among them: that time goes on is fairness,
and `SettledInTime` says what is so when it does). Every invariant and every
action property of the passing runs has a theorem.

## What is not modelled, and the plan

Most of the repository's 268,000 lines keep no protocol state: components and
pages of the web application and the marketing site, the agent's prompts and
tools, demonstration data, scripts, agent skills, schemas and tests. A state
machine of them would say only what their code says line by line. They are left
out, and with them the larger part of the lines.

Left out of the modelled parts: previews, audit entries and error texts;
time-zone batches, household subscribers and opt-in invitations; signatures and
rate limits of the queue runtime, whose effect is a crash's; the order of the
families within a pass; the six kinds of record an embedding job may be about,
which share one path; similarity search; notices and e-mails; plan switches,
suspensions and their credits, terminations, dunning extensions, beta and
bootstrap grants and the thirty-day lookback of the reconciliation; Stripe's
side of an account deletion; the fences of e-mails and
the Stripe replay of the restore procedure; what an export's archive contains,
who may download it, how many jobs are listed, the attempts counter and the retention of fences (14 days, twice the
backups'); of households the purge sweep and its records, the return of shared
records to their authors, access grants, invitation e-mails with their cooldown, and replays.

In this order, next:

1. The extraction-family lease queue (claim, late writes by id, defer,
   dead-letter, backfill), composed with the one-shot use of the outbox.
2. Scheduled workflow deliveries, with their missed ticks.
3. Household purge, whose record is dated at the attempt; approvals bound to a
   revision of their subject; Gmail drafts.
