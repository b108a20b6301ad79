-------------------------- MODULE ReminderDelivery --------------------------
(***************************************************************************)
(* The life of one reminder alert: one occurrence of a record for one      *)
(* installation, from the owner's save to the push.  The state is what     *)
(* Postgres and the queue provider hold; a process is one invocation (a    *)
(* server action, a queue callback, a cron recovery pass) that runs        *)
(* one database statement or one external call per step, keeping what it   *)
(* read earlier - and the `now` it captured when it began - in its frame.  *)
(* No statement runs in a transaction with another one except where the    *)
(* code says so, so every interleaving of steps is possible, and an        *)
(* invocation may end between any two of them.                             *)
(*                                                                         *)
(* One tick of `now` is a few minutes.  Rows of other alerts are not in    *)
(* the state: every statement here names the job or the delivery by id,    *)
(* except the installation-wide suppression, which for this alert is the   *)
(* write it makes to this job.                                             *)
(***************************************************************************)
EXTENDS DeliveryOutbox, ReminderJob, FiniteSets

CONSTANTS
  Owners,        \* invocations made by the owner's mutations
  Workers,       \* queue callbacks
  Crons,         \* recovery passes
  AlertTimes,    \* the alert times the owner may choose
  OwnerOps,      \* the kinds of mutation the owner makes
  PushOutcomes,  \* what the push service may answer
  PublishAhead,  \* REMINDER_DELIVERY_PUBLISH_AHEAD
  Grace,         \* REMINDER_LOST_WAKEUP_GRACE_MS, in ticks
  PassEvery,     \* BACKGROUND_PASS_CRON: at most so many ticks between passes
  MaxRun,        \* ticks within which an invocation ends or is ended
  MaxTime, MaxOps, MaxFaults   \* bounds: clock, owner mutations, faults

Procs == Owners \cup Workers \cup Crons

ASSUME ReminderAssumption ==
  /\ Owners \cap Workers = {} /\ Crons \cap (Owners \cup Workers) = {}
  /\ None \notin Job /\ None \notin Delivery      \* no row is SQL's null
  /\ AlertTimes \subseteq Nat
  /\ OwnerOps \subseteq {"save", "move", "clear", "disable", "register"}
  /\ PushOutcomes \subseteq {"accepted", "failed", "terminal"}
  /\ PublishAhead \in BOOLEAN
  /\ Grace \in Nat \ {0}
  /\ PassEvery \in Nat \ {0}
  /\ MaxRun \in Nat /\ MaxRun < Lease
  /\ MaxTime \in Nat /\ MaxOps \in Nat /\ MaxFaults \in Nat

VARIABLES
  now,        \* the clock
  schedule,   \* the Reminder Schedule, as this occurrence sees it
  intents,    \* the occurrence intent rows, one per alert time
  enabled,    \* the installation's status is "enabled"
  optIn,      \* the installation's opt-in state
  job,        \* the delivery job row, or None
  row,        \* its outbox row, or None
  queue,      \* pointers the provider holds
  sent,       \* revisions whose send the provider has accepted
  pushed,     \* <<alert time, round>> handed to the push service (history)
  passAt,     \* when each cron last began a pass
  pc, frame,  \* the processes
  ops, faults \* how many mutations and faults there have been

alertVars == <<schedule, intents, enabled, optIn>>
vars == <<now, alertVars, job, row, queue, sent, pushed, passAt, pc, frame, ops, faults>>

-----------------------------------------------------------------------------
(* Processes.                                                              *)

Idle == [at |-> 0, msg |-> None, rev |-> None, alert |-> 0, due |-> 0,
         round |-> 0, outcome |-> "none", then |-> "idle"]

Frame == [at : Nat, msg : Message \cup {None}, rev : Nat \cup {None},
          alert : Nat, due : Nat, round : Nat, outcome : Outcome,
          then : {"idle", "listOverdue", "listPointers"}]

Labels ==
  {"idle", "ack",
   "saveSchedule", "saveIntent", "supersede", "listInstallations", "findJob", "insertJob",
   "replaceJob",
   "disable", "optOut", "suppressJobs", "closeJob",
   "offer", "checkOptIn", "enable", "register", "listIntents",
   "create", "revise", "publish", "send", "mark", "markFailed",
   "validate", "inspect", "claim", "context", "push", "suppress", "accept", "retry",
   "listDue", "target", "listOverdue", "findRow", "listPointers", "pointerJob",
   "reload", "closeStale", "abandon"}

At(p, label) == pc[p] = label

Goto(p, label, f) ==
  /\ pc' = [pc EXCEPT ![p] = label]
  /\ frame' = [frame EXCEPT ![p] = f]

\* An invocation begins at the current time.
Start(p, label, f) ==
  /\ pc[p] = "idle"
  /\ Goto(p, label, [f EXCEPT !.at = now])

\* The end of an invocation's work: a queue callback still has to acknowledge,
\* a recovery pass goes on to its next scan.
Finish(p) ==
  IF frame[p].msg # None
  THEN Goto(p, "ack", [Idle EXCEPT !.at = frame[p].at, !.msg = frame[p].msg])
  ELSE IF frame[p].then # "idle"
  THEN Goto(p, frame[p].then, [Idle EXCEPT !.at = frame[p].at])
  ELSE Goto(p, "idle", Idle)

-----------------------------------------------------------------------------
(* Arming: scheduleReminderDeliveryOutbox and publishArmedReminderDelivery. *)
(* frame.rev is the revision the arm is fenced on (None: unfenced), then    *)
(* the revision it armed; frame.due is when the job is to be woken.         *)

\* The revision each fenced write of the outbox row names.
NoFence(f) == None     \* variant: the fence is forgotten
MarkFence(f) == f.rev
RearmFence(f) == f.rev
AbandonFence(f) == f.rev

FirstPublishAttemptAt(f) == IF PublishAhead THEN f.at ELSE f.due

CreateRow(p) ==
  /\ At(p, "create")
  /\ row' = IF row = None THEN NewDelivery(FirstPublishAttemptAt(frame[p])) ELSE row
  /\ Goto(p, "revise", frame[p])
  /\ UNCHANGED <<now, alertVars, job, queue, sent, pushed, passAt, ops, faults>>

ReviseRow(p) ==
  /\ At(p, "revise")
  /\ IF Targets(row, frame[p].rev)
     THEN /\ row' = Revised(row, FirstPublishAttemptAt(frame[p]))
          /\ IF PublishAhead
             THEN Goto(p, "publish", [frame[p] EXCEPT !.rev = row.revision + 1])
             ELSE Finish(p)
     ELSE UNCHANGED row /\ Finish(p)
  /\ UNCHANGED <<now, alertVars, job, queue, sent, pushed, passAt, ops, faults>>

\* publishBackgroundJobDelivery reads the row: a newer revision publishes itself.
ReadForPublish(p) ==
  /\ At(p, "publish")
  /\ IF Targets(row, frame[p].rev) THEN Goto(p, "send", frame[p]) ELSE Finish(p)
  /\ UNCHANGED <<now, alertVars, job, row, queue, sent, pushed, passAt, ops, faults>>

DelayOf(f) == QueueDelay(f.due, f.at)

\* The provider may suppress a key it has accepted before.
Accept(f) ==
  /\ sent' = sent \cup {f.rev}
  /\ \/ queue' = queue \cup {Pointer(f.rev, DelayOf(f), now)}
     \/ f.rev \in sent /\ UNCHANGED queue

Send(p) ==
  /\ At(p, "send")
  /\ \/ Accept(frame[p]) /\ Goto(p, "mark", frame[p]) /\ UNCHANGED faults
     \/ \* The call throws, whether or not the provider took the message.
        /\ faults < MaxFaults /\ faults' = faults + 1
        /\ Accept(frame[p]) \/ UNCHANGED <<queue, sent>>
        /\ Goto(p, "markFailed", frame[p])
  /\ UNCHANGED <<now, alertVars, job, row, pushed, passAt, ops>>

MarkPublished(p) ==
  /\ At(p, "mark")
  /\ row' = IF Targets(row, MarkFence(frame[p]))
            THEN MarkedPublished(row, frame[p].at, frame[p].at + DelayOf(frame[p]))
            ELSE row
  /\ Finish(p)
  /\ UNCHANGED <<now, alertVars, job, queue, sent, pushed, passAt, ops, faults>>

RecordPublishFailure(p) ==
  /\ At(p, "markFailed")
  /\ row' = IF Targets(row, frame[p].rev)
            THEN MarkedPublishFailed(row, frame[p].at) ELSE row
  /\ Finish(p)
  /\ UNCHANGED <<now, alertVars, job, queue, sent, pushed, passAt, ops, faults>>

\* rearmReminderDeliveryJob reloads the job before it arms, fenced on frame.rev.
ReloadForRearm(p) ==
  /\ At(p, "reload")
  /\ IF job # None /\ Awaiting(job, frame[p].at)
     THEN Goto(p, "create", [frame[p] EXCEPT !.rev = RearmFence(frame[p]),
                                             !.due = WakeupTime(job, frame[p].at)])
     ELSE Finish(p)
  /\ UNCHANGED <<now, alertVars, job, row, queue, sent, pushed, passAt, ops, faults>>

Arming(p) ==
  \/ CreateRow(p) \/ ReviseRow(p) \/ ReadForPublish(p) \/ Send(p)
  \/ MarkPublished(p) \/ RecordPublishFailure(p) \/ ReloadForRearm(p)

-----------------------------------------------------------------------------
(* The owner's mutations.                                                  *)

Mutates(p, kind) ==
  p \in Owners /\ kind \in OwnerOps /\ ops < MaxOps /\ ops' = ops + 1

\* saveReminder, or reconcileReminderRecord after the record changed: the
\* record still has this occurrence and its alert is now due at t.
Save(p) ==
  /\ Mutates(p, "save")
  /\ schedule.state # "cleared"
  /\ \E t \in AlertTimes : Start(p, "saveSchedule", [Idle EXCEPT !.alert = t, !.due = t])
  /\ UNCHANGED <<now, alertVars, job, row, queue, sent, pushed, passAt, faults>>

SaveSchedule(p) ==
  /\ At(p, "saveSchedule")
  /\ IF schedule.state = "cleared" THEN Finish(p) /\ UNCHANGED schedule
     ELSE /\ schedule' = [state |-> "here", alert |-> frame[p].alert]
          /\ Goto(p, IF frame[p].alert <= frame[p].at THEN "supersede" ELSE "saveIntent",
                  frame[p])
  /\ UNCHANGED <<now, intents, enabled, optIn, job, row, queue, sent, pushed, passAt, ops, faults>>

SupersededIntents ==
  [t \in AlertTimes |-> IF intents[t] = "active" THEN "superseded" ELSE intents[t]]

\* persistOccurrenceAndJobs: an alert time already past plans nothing.
SupersedeIntents(p) ==
  /\ At(p, "supersede")
  /\ intents' = SupersededIntents
  /\ Finish(p)
  /\ UNCHANGED <<now, schedule, enabled, optIn, job, row, queue, sent, pushed, passAt, ops, faults>>

\* upsertOccurrenceIntent, one transaction.  The insert does nothing when the
\* row for this alert time exists: an intent once superseded stays superseded.
SaveIntent(p) ==
  /\ At(p, "saveIntent")
  /\ LET t == frame[p].alert IN
     IF schedule.state = "cleared" THEN Finish(p) /\ UNCHANGED intents
     ELSE /\ intents' = IF intents[t] = "active" THEN intents
                        ELSE [SupersededIntents EXCEPT
                                ![t] = IF @ = "none" THEN "active" ELSE @]
          /\ Goto(p, "listInstallations", frame[p])
  /\ UNCHANGED <<now, schedule, enabled, optIn, job, row, queue, sent, pushed, passAt, ops, faults>>

ListInstallations(p) ==
  /\ At(p, "listInstallations")
  /\ IF enabled THEN Goto(p, "findJob", frame[p]) ELSE Finish(p)
  /\ UNCHANGED <<now, alertVars, job, row, queue, sent, pushed, passAt, ops, faults>>

\* upsertDeliveryJob reads the job and decides; its write names only the id.
FindJob(p) ==
  /\ At(p, "findJob")
  /\ IF job = None THEN Goto(p, "insertJob", frame[p])
     ELSE IF PlanChanged(job, frame[p].alert, frame[p].at)
     THEN Goto(p, "replaceJob", frame[p])
     ELSE Finish(p)
  /\ UNCHANGED <<now, alertVars, job, row, queue, sent, pushed, passAt, ops, faults>>

\* The unique index or the schedule's foreign key may refuse the insert.
InsertJob(p) ==
  /\ At(p, "insertJob")
  /\ IF job = None /\ schedule.state # "cleared"
     THEN /\ job' = PlannedJob(frame[p].alert, frame[p].at, 1)
          /\ Goto(p, "create", frame[p])
     ELSE UNCHANGED job /\ Finish(p)
  /\ UNCHANGED <<now, alertVars, row, queue, sent, pushed, passAt, ops, faults>>

ReplaceJob(p) ==
  /\ At(p, "replaceJob")
  /\ IF job # None
     THEN /\ job' = PlannedJob(frame[p].alert, frame[p].at, job.round + 1)
          /\ Goto(p, "create", frame[p])
     ELSE UNCHANGED job /\ Finish(p)
  /\ UNCHANGED <<now, alertVars, row, queue, sent, pushed, passAt, ops, faults>>

\* The record moves to another occurrence or stops being eligible, and its
\* reconciliation supersedes this occurrence's intent.
MoveAway(p) ==
  /\ Mutates(p, "move")
  /\ pc[p] = "idle"
  /\ schedule.state = "here"
  /\ schedule' = [schedule EXCEPT !.state = "away"]
  /\ intents' = SupersededIntents
  /\ UNCHANGED <<now, enabled, optIn, job, row, queue, sent, pushed, passAt, pc, frame, faults>>

\* clearReminder deletes the schedule; intents and jobs go with it (cascade).
Clear(p) ==
  /\ Mutates(p, "clear")
  /\ pc[p] = "idle"
  /\ schedule.state \in {"here", "away"}
  /\ schedule' = [schedule EXCEPT !.state = "cleared"]
  /\ intents' = [t \in AlertTimes |-> "none"]
  /\ job' = None
  /\ UNCHANGED <<now, enabled, optIn, row, queue, sent, pushed, passAt, pc, frame, faults>>

\* disableInstallation, and the same three writes of revokeTerminalInstallation.
Disable(p) ==
  /\ Mutates(p, "disable")
  /\ enabled
  /\ Start(p, "disable", Idle)
  /\ UNCHANGED <<now, alertVars, job, row, queue, sent, pushed, passAt, faults>>

DisableInstallation(p) ==
  /\ At(p, "disable")
  /\ enabled' = FALSE
  /\ Goto(p, "optOut", frame[p])
  /\ UNCHANGED <<now, schedule, intents, optIn, job, row, queue, sent, pushed, passAt, ops, faults>>

OptOut(p) ==
  /\ At(p, "optOut")
  /\ optIn' = "disabled"
  /\ Goto(p, "suppressJobs", frame[p])
  /\ UNCHANGED <<now, schedule, intents, enabled, job, row, queue, sent, pushed, passAt, ops, faults>>

SuppressJobs(p) ==
  /\ At(p, "suppressJobs")
  /\ job' = IF job # None /\ Suppressible(job)
            THEN Settled(job, "skipped", "suppressed_revoked", frame[p].at) ELSE job
  /\ IF p \in Workers THEN Goto(p, "closeJob", frame[p]) ELSE Finish(p)
  /\ UNCHANGED <<now, alertVars, row, queue, sent, pushed, passAt, ops, faults>>

\* A fresh opt-in on the installation and its registration, which plans the
\* active intent again.
Register(p) ==
  /\ Mutates(p, "register")
  /\ Start(p, "offer", Idle)
  /\ UNCHANGED <<now, alertVars, job, row, queue, sent, pushed, passAt, faults>>

OfferOptIn(p) ==
  /\ At(p, "offer")
  /\ optIn' = "offered"
  /\ Goto(p, "checkOptIn", frame[p])
  /\ UNCHANGED <<now, schedule, intents, enabled, job, row, queue, sent, pushed, passAt, ops, faults>>

CheckOptIn(p) ==
  /\ At(p, "checkOptIn")
  /\ IF optIn \in {"offered", "registered"} THEN Goto(p, "enable", frame[p]) ELSE Finish(p)
  /\ UNCHANGED <<now, alertVars, job, row, queue, sent, pushed, passAt, ops, faults>>

EnableInstallation(p) ==
  /\ At(p, "enable")
  /\ enabled' = TRUE
  /\ Goto(p, "register", frame[p])
  /\ UNCHANGED <<now, schedule, intents, optIn, job, row, queue, sent, pushed, passAt, ops, faults>>

RegisterOptIn(p) ==
  /\ At(p, "register")
  /\ optIn' = "registered"
  /\ Goto(p, "listIntents", frame[p])
  /\ UNCHANGED <<now, schedule, intents, enabled, job, row, queue, sent, pushed, passAt, ops, faults>>

FreshIntents(at) == {t \in AlertTimes : intents[t] = "active" /\ at < FreshUntil(t)}

ListIntents(p) ==
  /\ At(p, "listIntents")
  /\ \/ \E t \in FreshIntents(frame[p].at) :
          Goto(p, "findJob", [frame[p] EXCEPT !.alert = t, !.due = t])
     \/ FreshIntents(frame[p].at) = {} /\ Finish(p)
  /\ UNCHANGED <<now, alertVars, job, row, queue, sent, pushed, passAt, ops, faults>>

Owning(p) == Save(p) \/ MoveAway(p) \/ Clear(p) \/ Disable(p) \/ Register(p)

Planning(p) ==
  \/ SaveSchedule(p) \/ SupersedeIntents(p) \/ SaveIntent(p)
  \/ ListInstallations(p) \/ FindJob(p) \/ InsertJob(p) \/ ReplaceJob(p)
  \/ DisableInstallation(p) \/ OptOut(p) \/ SuppressJobs(p)
  \/ OfferOptIn(p) \/ CheckOptIn(p) \/ EnableInstallation(p)
  \/ RegisterOptIn(p) \/ ListIntents(p)

-----------------------------------------------------------------------------
(* The queue callback: consumeBackgroundJobQueueMessage, the reminder       *)
(* processor's claimJob, and dispatchReminder.                              *)

\* The provider may deliver a message again until it is acknowledged, also
\* while an earlier delivery of it is still being handled.
Receive(p) ==
  /\ p \in Workers
  /\ \E m \in queue :
       /\ m.visibleAt <= now /\ now < m.expiresAt
       /\ Start(p, "validate", [Idle EXCEPT !.msg = m, !.rev = m.revision])
  /\ UNCHANGED <<now, alertVars, job, row, queue, sent, pushed, passAt, ops, faults>>

Validate(p) ==
  /\ At(p, "validate")
  /\ IF row # None /\ Processable(row, frame[p].rev)
     THEN Goto(p, "inspect", frame[p]) ELSE Finish(p)
  /\ UNCHANGED <<now, alertVars, job, row, queue, sent, pushed, passAt, ops, faults>>

\* claimJob of the reminder processor: only looks, and re-arms early wake-ups.
InspectJob(p) ==
  /\ At(p, "inspect")
  /\ IF job = None \/ Finished(job) THEN Finish(p)
     ELSE IF Claimable(job, frame[p].at) THEN Goto(p, "claim", frame[p])
     ELSE IF job.status \in {"pending", "failed"} THEN Goto(p, "reload", frame[p])
     ELSE Finish(p)
  /\ UNCHANGED <<now, alertVars, job, row, queue, sent, pushed, passAt, ops, faults>>

\* claimDeliveryJob: a refused claim leaves the message to be acknowledged.
ClaimJob(p) ==
  /\ At(p, "claim")
  /\ IF job # None /\ ClaimAllowed(job, frame[p].at)
     THEN /\ job' = Claimed(job, frame[p].at)
          /\ Goto(p, "context",
                  [frame[p] EXCEPT !.alert = job.intendedAt, !.round = job.round])
     ELSE UNCHANGED job /\ Finish(p)
  /\ UNCHANGED <<now, alertVars, row, queue, sent, pushed, passAt, ops, faults>>

SuppressionReasonPastFresh(f) ==     \* variant: fresh at the boundary
  IF FreshUntil(f.alert) < f.at THEN "suppressed_stale"
  ELSE IF ~enabled \/ optIn # "registered" THEN "suppressed_revoked"
  ELSE IF schedule # [state |-> "here", alert |-> f.alert] THEN "suppressed_ineligible"
  ELSE "none"

\* suppressionReason, on the record, schedule, installation and opt-in as now.
SuppressionReason(f) ==
  IF FreshUntil(f.alert) <= f.at THEN "suppressed_stale"
  ELSE IF ~enabled \/ optIn # "registered" THEN "suppressed_revoked"
  ELSE IF schedule # [state |-> "here", alert |-> f.alert] THEN "suppressed_ineligible"
  ELSE "none"

LoadContext(p) ==
  /\ At(p, "context")
  /\ LET reason == SuppressionReason(frame[p]) IN
     Goto(p, IF reason = "none" THEN "push" ELSE "suppress",
          [frame[p] EXCEPT !.outcome = reason])
  /\ UNCHANGED <<now, alertVars, job, row, queue, sent, pushed, passAt, ops, faults>>

\* The web push request.  One that throws may still have been handed over.
Push(p) ==
  /\ At(p, "push")
  /\ \E answer \in PushOutcomes :
       /\ \/ pushed' = pushed \cup {<<frame[p].alert, frame[p].round>>} /\ answer # "terminal"
          \/ UNCHANGED pushed /\ answer # "accepted"
       /\ Goto(p, CASE answer = "accepted" -> "accept"
                    [] answer = "failed"   -> "retry"
                    [] answer = "terminal" -> "disable", frame[p])
  /\ UNCHANGED <<now, alertVars, job, row, queue, sent, passAt, ops, faults>>

\* updateDeliveryJob names only the job, whatever the row has become.
WriteJob(p, label, written) ==
  /\ At(p, label)
  /\ job # None
  /\ job' = written
  /\ UNCHANGED <<now, alertVars, row, queue, sent, pushed, passAt, ops, faults>>

SuppressDelivery(p) ==
  /\ WriteJob(p, "suppress", Settled(job, "skipped", frame[p].outcome, frame[p].at))
  /\ Finish(p)

AcceptDelivery(p) ==
  /\ WriteJob(p, "accept", Settled(job, "completed", "accepted", frame[p].at))
  /\ Finish(p)

CloseTerminal(p) ==
  /\ WriteJob(p, "closeJob", Settled(job, "skipped", "terminal_endpoint", frame[p].at))
  /\ Finish(p)

\* scheduleRetry arms the retry without a fence, like an owner's edit.
ScheduleRetry(p) ==
  /\ WriteJob(p, "retry", RetryScheduled(job, frame[p].alert, frame[p].at))
  /\ Goto(p, "create", [frame[p] EXCEPT !.rev = None,
                                        !.due = RetryTime(frame[p].alert, frame[p].at)])

\* The write of a job that is gone throws: the message is not acknowledged.
JobGone(p) ==
  /\ pc[p] \in {"suppress", "accept", "closeJob", "retry"}
  /\ job = None
  /\ Goto(p, "idle", Idle)
  /\ UNCHANGED <<now, alertVars, job, row, queue, sent, pushed, passAt, ops, faults>>

Acknowledge(p) ==
  /\ At(p, "ack")
  /\ queue' = queue \ {frame[p].msg}
  /\ Goto(p, "idle", Idle)
  /\ UNCHANGED <<now, alertVars, job, row, sent, pushed, passAt, ops, faults>>

Consuming(p) ==
  \/ Receive(p) \/ Validate(p) \/ InspectJob(p) \/ ClaimJob(p) \/ LoadContext(p)
  \/ Push(p) \/ SuppressDelivery(p) \/ AcceptDelivery(p) \/ CloseTerminal(p)
  \/ ScheduleRetry(p) \/ JobGone(p) \/ Acknowledge(p)

-----------------------------------------------------------------------------
(* The recovery pass: republishDueDeliveries, then recoverLostReminder-     *)
(* Wakeups' two scans, all on the `now` the pass began with.                *)

StartPass(p) ==
  /\ p \in Crons
  /\ passAt[p] < now
  /\ Start(p, "listDue", Idle)
  /\ passAt' = [passAt EXCEPT ![p] = now]
  /\ UNCHANGED <<now, alertVars, job, row, queue, sent, pushed, ops, faults>>

ListDue(p) ==
  /\ At(p, "listDue")
  /\ IF DueDelivery(row, {"pending", "publish_failed"}, frame[p].at)
     THEN Goto(p, "target", [frame[p] EXCEPT !.rev = row.revision, !.then = "listOverdue"])
     ELSE Goto(p, "listOverdue", frame[p])
  /\ UNCHANGED <<now, alertVars, job, row, queue, sent, pushed, passAt, ops, faults>>

\* reminderWakeupTarget: publish, leave a live dispatch alone, or abandon.
LoadTarget(p) ==
  /\ At(p, "target")
  /\ IF job # None /\ Awaiting(job, frame[p].at)
     THEN Goto(p, "publish", [frame[p] EXCEPT !.due = WakeupTime(job, frame[p].at)])
     ELSE IF job # None /\ job.status = "running" THEN Finish(p)
     ELSE Goto(p, "abandon", frame[p])
  /\ UNCHANGED <<now, alertVars, job, row, queue, sent, pushed, passAt, ops, faults>>

Abandon(p) ==
  /\ At(p, "abandon")
  /\ row' = IF Targets(row, AbandonFence(frame[p])) THEN Abandoned(row) ELSE row
  /\ Finish(p)
  /\ UNCHANGED <<now, alertVars, job, queue, sent, pushed, passAt, ops, faults>>

ListOverdueJobs(p) ==
  /\ At(p, "listOverdue")
  /\ IF job # None /\ OverdueJob(job, frame[p].at, Grace)
     THEN Goto(p, "findRow", [frame[p] EXCEPT !.alert = job.intendedAt,
                                             !.then = "listPointers"])
     ELSE Goto(p, "listPointers", frame[p])
  /\ UNCHANGED <<now, alertVars, job, row, queue, sent, pushed, passAt, ops, faults>>

WakeupLostOfRow(d, at) ==     \* variant: a job without a row is passed over
  /\ d # None
  /\ d.status = "abandoned" \/ (d.status = "published" /\ d.publishedAt + Grace <= at)

WakeupLost(d, at) ==
  \/ d = None
  \/ d.status = "abandoned"
  \/ d.status = "published" /\ d.publishedAt + Grace <= at

\* recoverJobWakeup, on the freshness of the job as it was listed.
RecoverJobWakeup(p, alert, rev) ==
  Goto(p, IF FreshUntil(alert) <= frame[p].at THEN "closeStale" ELSE "reload",
       [frame[p] EXCEPT !.rev = rev])

FindRow(p) ==
  /\ At(p, "findRow")
  /\ IF WakeupLost(row, frame[p].at)
     THEN RecoverJobWakeup(p, frame[p].alert, IF row = None THEN None ELSE row.revision)
     ELSE Finish(p)
  /\ UNCHANGED <<now, alertVars, job, row, queue, sent, pushed, passAt, ops, faults>>

ListOverduePointers(p) ==
  /\ At(p, "listPointers")
  /\ IF DueDelivery(row, {"published"}, frame[p].at - Grace)
     THEN Goto(p, "pointerJob", [frame[p] EXCEPT !.rev = row.revision])
     ELSE Finish(p)
  /\ UNCHANGED <<now, alertVars, job, row, queue, sent, pushed, passAt, ops, faults>>

OverNullJob(j) == j = None     \* variant: a finished job keeps its pointer
OverJob(j) == j = None \/ j.status # "running"

LoadPointerJob(p) ==
  /\ At(p, "pointerJob")
  /\ IF job # None /\ Awaiting(job, frame[p].at)
     THEN RecoverJobWakeup(p, job.intendedAt, frame[p].rev)
     ELSE IF OverJob(job) THEN Goto(p, "abandon", frame[p])
     ELSE Finish(p)
  /\ UNCHANGED <<now, alertVars, job, row, queue, sent, pushed, passAt, ops, faults>>

\* suppressStaleDeliveryJob, decided by the row as it is now.
CloseStale(p) ==
  /\ At(p, "closeStale")
  /\ job' = IF job # None /\ StaleJob(job, frame[p].at)
            THEN Settled(job, "skipped", "suppressed_stale", frame[p].at) ELSE job
  /\ Finish(p)
  /\ UNCHANGED <<now, alertVars, row, queue, sent, pushed, passAt, ops, faults>>

Recovering(p) ==
  \/ StartPass(p) \/ ListDue(p) \/ LoadTarget(p) \/ Abandon(p)
  \/ ListOverdueJobs(p) \/ FindRow(p) \/ ListOverduePointers(p)
  \/ LoadPointerJob(p) \/ CloseStale(p)

-----------------------------------------------------------------------------
(* Time and faults.                                                        *)

Fault == faults < MaxFaults /\ faults' = faults + 1

\* The process dies, or a call of it throws, or a callback is deferred by a
\* rate limit or a hold.  The message it handles is delivered again.
Crash(p) ==
  /\ Fault
  /\ pc[p] # "idle"
  /\ Goto(p, "idle", Idle)
  /\ UNCHANGED <<now, alertVars, job, row, queue, sent, pushed, passAt, ops>>

LoseMessage ==
  /\ Fault
  /\ \E m \in queue : queue' = queue \ {m}
  /\ UNCHANGED <<now, alertVars, job, row, sent, pushed, passAt, pc, frame, ops>>

\* The platform misses a cron tick.
SkipPass ==
  /\ Fault
  /\ \E c \in Crons : passAt[c] < now /\ passAt' = [passAt EXCEPT ![c] = now]
  /\ UNCHANGED <<now, alertVars, job, row, queue, sent, pushed, pc, frame, ops>>

\* No invocation outlives MaxRun and no pass is later than its cron.
Tick ==
  /\ now < MaxTime
  /\ \A p \in Procs : pc[p] # "idle" => now < frame[p].at + MaxRun
  /\ \A c \in Crons : now < passAt[c] + PassEvery
  /\ now' = now + 1
  /\ UNCHANGED <<alertVars, job, row, queue, sent, pushed, passAt, pc, frame, ops, faults>>

Quiet == \A p \in Procs : pc[p] = "idle"

\* The bound of the clock: nothing more is looked at.
Stop == now = MaxTime /\ Quiet /\ UNCHANGED vars

-----------------------------------------------------------------------------
Init ==
  /\ now = 0
  /\ schedule = [state |-> "unset", alert |-> 0]
  /\ intents = [t \in AlertTimes |-> "none"]
  /\ enabled = TRUE /\ optIn = "registered"
  /\ job = None /\ row = None
  /\ queue = {} /\ sent = {} /\ pushed = {}
  /\ passAt = [c \in Crons |-> 0]
  /\ pc = [p \in Procs |-> "idle"]
  /\ frame = [p \in Procs |-> Idle]
  /\ ops = 0 /\ faults = 0

Works(p) == Planning(p) \/ Arming(p) \/ Consuming(p) \/ Recovering(p)

Next ==
  \/ \E p \in Procs : Owning(p) \/ Works(p) \/ Crash(p)
  \/ LoseMessage \/ SkipPass \/ Tick \/ Stop

\* An invocation that has begun goes on; the provider delivers what is
\* visible; the cron runs; time passes.  The owner need not do anything.
Fairness == WF_vars(Tick) /\ \A p \in Procs : WF_vars(Works(p))

Spec == Init /\ [][Next]_vars
FairSpec == Spec /\ Fairness

-----------------------------------------------------------------------------
(* Properties.                                                             *)

\* Every variable keeps the shape its table, message or process frame has.
TypeOK ==
  /\ now \in Nat
  /\ schedule \in [state : {"unset", "here", "away", "cleared"}, alert : Nat]
  /\ intents \in [AlertTimes -> {"none", "active", "superseded"}]
  /\ enabled \in BOOLEAN
  /\ optIn \in {"offered", "registered", "disabled"}
  /\ job \in Job \cup {None}
  /\ row \in Delivery \cup {None}
  /\ queue \subseteq Message
  /\ sent \subseteq Nat
  /\ pushed \subseteq Nat \X Nat
  /\ passAt \in [Crons -> Nat]
  /\ pc \in [Procs -> Labels]
  /\ frame \in [Procs -> Frame]
  /\ ops \in Nat /\ faults \in Nat

\* A row that says "published" tells recovery that the provider holds a pointer
\* of that very revision.  However sends, marks, re-arms, failures and crashes
\* interleave, the revision it carries is one whose send was accepted
\* (queue-publish.ts fences its mark on the revision it sent).
PublishedWasSent ==
  row # None /\ row.status = "published" => row.revision \in sent

\* The steps of dispatchReminder between its claim and its last write.
Dispatching(p) ==
  pc[p] \in {"context", "push", "suppress", "accept", "retry",
             "disable", "optOut", "suppressJobs", "closeJob"} /\ p \in Workers

\* Two callbacks never dispatch the same planning of a job at once: not two
\* deliveries of one pointer, nor pointers of two revisions, nor a lease
\* takeover beside an invocation the platform still runs (policy.ts, the lease).
\* Where invocations last and pushes fail, one may: updateDeliveryJob puts the
\* retry of an earlier planning over a later one that is being dispatched.
OneDispatcher ==
  \A p, q \in Workers :
    Dispatching(p) /\ Dispatching(q) /\ frame[p].round = frame[q].round => p = q

\* A reminder is pushed inside its window: never before the time the alert was
\* last planned for, nor once its freshness ended, even when a retry or a
\* recovery pass wakes the job at a time an edit has since moved.
PushedInWindow ==
  \A p \in Workers : At(p, "push") =>
    frame[p].alert <= frame[p].at /\ frame[p].at < FreshUntil(frame[p].alert)

\* While nothing fails and the push service accepts, one planning of an alert
\* is pushed at most once, whatever is redelivered, re-armed or recovered.
PushedOnce ==
  faults = 0 /\ PushOutcomes = {"accepted"} =>
    \A p \in Workers : At(p, "push") => <<frame[p].alert, frame[p].round>> \notin pushed

Later(a, b) == IF a < b THEN b ELSE a

\* The wake-up of a waiting job is on its way: to be published by the next
\* pass, or a pointer of the current revision the queue shows in time.
WakeupOnItsWay(due) ==
  /\ row # None
  /\ \/ row.status \in {"pending", "publish_failed"} /\ row.nextAttemptAt <= due
     \/ /\ row.status = "published"
        /\ \E m \in queue : m.revision = row.revision /\ m.visibleAt <= due

Waiting == job # None /\ job.status \in {"pending", "failed"}

\* "No reminder is left without a wake-up" (outbox.ts:73): when no invocation is
\* under way and nothing has failed, a waiting job is woken no later than it is
\* due, give or take the run of the invocation that armed it.  Re-arms by edits,
\* checkpoints and recovery must not overtake one another with a stale time,
\* and no pass may abandon the row of a live job.
NoLateWakeup ==
  Quiet /\ faults = 0 /\ Waiting
    => WakeupOnItsWay(Later(job.nextAttemptAt, now) + MaxRun)

\* When no invocation is under way and nothing has failed, a job planned and not
\* yet tried is planned for the alert time the schedule shows, if that is to come.
PendingJobFollowsSchedule ==
  /\ Quiet /\ faults = 0
  /\ job # None /\ job.status = "pending"
  /\ schedule.state = "here" /\ schedule.alert > now
  => job.intendedAt = schedule.alert

\* The owner wants an alert that is to come, on an installation that takes them.
AlertWanted ==
  /\ schedule.state = "here" /\ schedule.alert > now
  /\ enabled /\ optIn = "registered"

\* "The owner's mutation stands either way and no reminder is left without a
\* wake-up" (outbox.ts:73-74): when nothing is under way and nothing has failed,
\* the job of a wanted alert has not been suppressed as ineligible, which no
\* later save of the same occurrence would undo.
EditStands ==
  Quiet /\ faults = 0 /\ AlertWanted
    => job = None \/ job.outcome # "suppressed_ineligible"

LastAlert == CHOOSE t \in AlertTimes : \A u \in AlertTimes : u <= t

\* The alert a job's time is counted from.  Without publish-ahead the row of a
\* job moved to an earlier alert may, when the save dies before it arms, stay
\* pending for the later one, and keeps the passes away so long: a pending row
\* is not a lost wake-up (delivery-wakeups.ts:97-100).
Horizon(alert) == IF PublishAhead THEN alert ELSE LastAlert

\* What one fault may cost: a dead claim's lease or a failed send's retry delay,
\* and the next pass, with the invocations that were under way.
FaultCost == Later(Lease, RetryDelay) + PassEvery - 1 + 3 * MaxRun

\* What recovery takes without a fault: the last retry an alert is given while it
\* is fresh, the wait for the pass that publishes its row, the grace, the wait
\* for the pass that finds the wake-up lost and closes the job; and the run of
\* the invocations one after another.
Deadline(alert) ==
  FreshUntil(Horizon(alert)) + RetryAfter + Grace + 2 * (PassEvery - 1) + 7 * MaxRun

\* Whatever is lost, late or crashed, the recovery passes settle a job in
\* bounded time, each fault costing no more than a lease and a pass:
\* delivery-wakeups.ts re-arms it until it is stale, then closes it, and no
\* edit, retry, redelivery or takeover makes it start over.
SettledInTime ==
  job # None /\ ~Finished(job)
    => now <= Deadline(job.intendedAt) + faults * FaultCost

\* Every job is settled in the end: delivered, suppressed, or gone.
EventuallySettled ==
  (job # None /\ ~Finished(job)) ~> (job = None \/ Finished(job))

\* The row of a settled job is retired in the end, so that no later pass meets
\* it again (delivery-wakeups.ts:192-193), unless the job is planned anew.
RowRetired ==
  (row # None /\ (job = None \/ Finished(job)))
    ~> (row # None /\ row.status = "abandoned") \/ (job # None /\ ~Finished(job))
=============================================================================
