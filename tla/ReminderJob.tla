----------------------------- MODULE ReminderJob -----------------------------
(***************************************************************************)
(* One row of reminder_delivery_jobs: the authoritative state of one alert *)
(* (an occurrence of a record) for one installation.  The unique index on  *)
(* owner, occurrence and installation makes it the only job of that pair.  *)
(*                                                                         *)
(* Each operator is one conditional UPDATE of the drizzle store or one     *)
(* predicate of policy.ts.  updateDeliveryJob is NOT conditional: whoever  *)
(* holds the job id writes, whatever the row has become meanwhile.         *)
(*                                                                         *)
(* `round` is a history field, never read by a guard: it counts the times  *)
(* the owner's saves and registrations (re-)planned the job.               *)
(***************************************************************************)
EXTENDS Integers

CONSTANTS
  Lease,      \* REMINDER_DELIVERY_LEASE_MS, in ticks
  RetryAfter, \* the five minutes of scheduleRetry, in ticks
  FreshFor    \* how long after its alert time an alert is still worth sending

ASSUME ReminderJobAssumption ==
  /\ Lease \in Nat \ {0}
  /\ RetryAfter \in Nat \ {0}
  /\ FreshFor \in Nat \ {0}

JobStatus == {"pending", "running", "failed", "completed", "skipped"}

Outcome == {"none", "accepted", "transient_failure", "terminal_endpoint",
            "suppressed_stale", "suppressed_revoked", "suppressed_ineligible"}

Job == [status : JobStatus, outcome : Outcome, intendedAt : Nat,
        nextAttemptAt : Nat, updatedAt : Nat, round : Nat]

\* resolveFreshUntil, for a record whose time is an instant.
FreshUntil(alert) == alert + FreshFor

\* The columns both branches of upsertDeliveryJob write.
PlannedJob(alert, at, round) ==
  [status |-> "pending", outcome |-> "none", intendedAt |-> alert,
   nextAttemptAt |-> alert, updatedAt |-> at, round |-> round]

Finished(job) == job.status \in {"completed", "skipped"}

NeverExpired(job, at) == FALSE                    \* variant: no takeover
AnyRunning(job, at) == job.status = "running"     \* variant: no lease
LeaseExpired(job, at) == job.status = "running" /\ job.updatedAt + Lease <= at

AwaitingUnlessSkipped(job, at) ==     \* variant: a completed job still waits
  job.status \in {"pending", "failed", "completed"} \/ LeaseExpired(job, at)

\* isReminderDeliveryJobAwaiting
Awaiting(job, at) == job.status \in {"pending", "failed"} \/ LeaseExpired(job, at)

\* isReminderDeliveryJobClaimable
Claimable(job, at) ==
  Awaiting(job, at) /\ (job.status = "running" \/ job.nextAttemptAt <= at)

\* reminderDeliveryWakeupTime, for a job owed one.
WakeupTime(job, at) == IF job.status = "running" THEN at ELSE job.nextAttemptAt

\* The WHERE of claimDeliveryJob: claimable, and its alert time has come.
ClaimAllowed(job, at) == Claimable(job, at) /\ job.intendedAt <= at

Claimed(job, at) == [job EXCEPT !.status = "running", !.updatedAt = at]

\* The WHERE of listOverdueDeliveryJobs.
OverdueJob(job, at, grace) ==
  \/ job.status \in {"pending", "failed"} /\ job.nextAttemptAt + grace <= at
  \/ LeaseExpired(job, at)

\* The WHERE of suppressStaleDeliveryJob.
StaleJob(job, at) == FreshUntil(job.intendedAt) <= at /\ Awaiting(job, at)

Settled(job, status, outcome, at) ==
  [job EXCEPT !.status = status, !.outcome = outcome, !.updatedAt = at]

\* suppressInstallationDeliveryJobs
Suppressible(job) == job.status \in {"pending", "failed", "running"}

\* scheduleRetry: the last retry stays one tick inside the freshness window.
RetryTime(alert, at) ==
  LET latest == FreshUntil(alert) - 1 IN
  IF latest <= at THEN FreshUntil(alert)
  ELSE IF at + RetryAfter < latest THEN at + RetryAfter ELSE latest

RetryScheduled(job, alert, at) ==
  [Settled(job, "failed", "transient_failure", at) EXCEPT
     !.nextAttemptAt = RetryTime(alert, at)]

\* upsertDeliveryJob's two reasons to replace an existing job's plan.
RearmAfterDisable(job, alert, at) ==
  /\ \/ job.status = "skipped" /\ job.outcome = "suppressed_revoked"
     \/ job.status \in {"skipped", "failed"} /\ job.outcome = "terminal_endpoint"
  /\ FreshUntil(alert) > at

PlanChangedOnceFailed(job, alert, at) ==     \* variant: a pending job is kept
  RearmAfterDisable(job, alert, at) \/ (job.status = "failed" /\ job.intendedAt # alert)

\* One intent row exists per alert time, so an other intent is an other time.
PlanChanged(job, alert, at) ==
  \/ RearmAfterDisable(job, alert, at)
  \/ job.status \in {"pending", "failed"} /\ job.intendedAt # alert
=============================================================================
