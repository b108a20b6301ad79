----------------------- MODULE ReminderDelivery_proof -----------------------
(***************************************************************************)
(* Safety of ReminderDelivery for any number of owners' mutations, queue   *)
(* callbacks and recovery passes, any alert times and any bounds.          *)
(***************************************************************************)
EXTENDS ReminderDelivery, TLAPS

\* A step of a process keeps the process table well typed.
LEMMA GotoType ==
  ASSUME TypeOK, NEW p \in Procs, NEW label \in Labels, NEW f \in Frame,
         Goto(p, label, f)
  PROVE  pc' \in [Procs -> Labels] /\ frame' \in [Procs -> Frame]
BY DEF TypeOK, Goto

LEMMA IdleType == Idle \in Frame
BY DEF Idle, Frame, Outcome

\* Starting an invocation and finishing one do, too.
LEMMA StartType ==
  ASSUME TypeOK, NEW p \in Procs, NEW label \in Labels, NEW f \in Frame,
         Start(p, label, f)
  PROVE  pc' \in [Procs -> Labels] /\ frame' \in [Procs -> Frame]
<1>1. [f EXCEPT !.at = now] \in Frame
  BY DEF TypeOK, Frame
<1> QED BY <1>1, GotoType DEF Start

LEMMA FinishType ==
  ASSUME TypeOK, NEW p \in Procs, Finish(p)
  PROVE  pc' \in [Procs -> Labels] /\ frame' \in [Procs -> Frame]
<1>1. frame[p] \in Frame
  BY DEF TypeOK
<1>2. /\ [Idle EXCEPT !.at = frame[p].at, !.msg = frame[p].msg] \in Frame
      /\ [Idle EXCEPT !.at = frame[p].at] \in Frame
      /\ frame[p].then \in Labels
  BY <1>1, IdleType DEF Frame, Labels
<1>3. "ack" \in Labels /\ "idle" \in Labels
  BY DEF Labels
<1> QED BY <1>2, <1>3, IdleType, GotoType DEF Finish

DataOK ==
  /\ now \in Nat
  /\ schedule \in [state : {"unset", "here", "away", "cleared"}, alert : Nat]
  /\ intents \in [AlertTimes -> {"none", "active", "superseded"}]
  /\ enabled \in BOOLEAN
  /\ optIn \in {"offered", "registered", "disabled"}
  /\ job \in Job \cup {None}
  /\ row \in Delivery \cup {None}
  /\ queue \subseteq Message
  /\ sent \subseteq Nat
  /\ pushed \subseteq Nat \X Nat
  /\ passAt \in [Crons -> Nat]
  /\ ops \in Nat /\ faults \in Nat

ProcsOK == pc \in [Procs -> Labels] /\ frame \in [Procs -> Frame]

LEMMA TypeParts == (TypeOK <=> DataOK /\ ProcsOK) /\ (TypeOK' <=> DataOK' /\ ProcsOK')
BY DEF TypeOK, DataOK, ProcsOK

LEMMA Constants ==
  /\ None \notin Int /\ RetryDelay \in Nat /\ MaxDelay \in Nat /\ Headroom \in Nat
  /\ Lease \in Nat /\ RetryAfter \in Nat /\ FreshFor \in Nat \ {0}
  /\ AlertTimes \subseteq Nat /\ Grace \in Nat /\ PublishAhead \in BOOLEAN
BY OutboxAssumption, ReminderJobAssumption, ReminderAssumption

LEMMA JobTimes ==
  /\ \A alert, at \in Nat : RetryTime(alert, at) \in Nat
  /\ \A alert \in Nat : FreshUntil(alert) \in Nat
  /\ \A j \in Job, at \in Nat : WakeupTime(j, at) \in Nat
BY Constants DEF RetryTime, FreshUntil, WakeupTime, Job

LEMMA JobUpdates ==
  ASSUME NEW j \in Job, NEW at \in Nat, NEW alert \in Nat, NEW round \in Nat
  PROVE  /\ PlannedJob(alert, at, round) \in Job
         /\ Claimed(j, at) \in Job
         /\ \A status \in JobStatus, outcome \in Outcome : Settled(j, status, outcome, at) \in Job
         /\ RetryScheduled(j, alert, at) \in Job
<1>1. PlannedJob(alert, at, round) \in Job
  BY DEF PlannedJob, Job, JobStatus, Outcome
<1>2. Claimed(j, at) \in Job
  BY DEF Claimed, Job, JobStatus
<1>3. \A status \in JobStatus, outcome \in Outcome : Settled(j, status, outcome, at) \in Job
  BY DEF Settled, Job
<1>4. Settled(j, "failed", "transient_failure", at) \in Job
  BY <1>3 DEF JobStatus, Outcome
<1>5. RetryScheduled(j, alert, at) \in Job
  BY <1>4, JobTimes DEF RetryScheduled, Job
<1> QED BY <1>1, <1>2, <1>3, <1>5

LEMMA RowType ==
  ASSUME NEW at \in Nat
  PROVE  NewDelivery(at) \in Delivery
BY DEF NewDelivery, Delivery, DeliveryStatus

LEMMA RowUpdates ==
  ASSUME NEW d \in Delivery, NEW at \in Nat, NEW due \in Nat
  PROVE  /\ Revised(d, at) \in Delivery
         /\ MarkedPublished(d, at, due) \in Delivery
         /\ MarkedPublishFailed(d, at) \in Delivery
         /\ Abandoned(d) \in Delivery
<1> USE DEF Delivery, DeliveryStatus
<1>2. Revised(d, at) \in Delivery
  <2>1. d.revision + 1 \in Nat
    OBVIOUS
  <2> QED BY <2>1, Zenon DEF Revised
<1>3. MarkedPublished(d, at, due) \in Delivery
  BY Constants DEF MarkedPublished
<1>4. MarkedPublishFailed(d, at) \in Delivery
  <2>1. at + RetryDelay \in Nat
    BY Constants
  <2> QED BY <2>1, Zenon DEF MarkedPublishFailed
<1>5. Abandoned(d) \in Delivery
  BY DEF Abandoned
<1> QED BY <1>2, <1>3, <1>4, <1>5

LEMMA DelayType ==
  ASSUME NEW due \in Nat, NEW at \in Nat
  PROVE  QueueDelay(due, at) \in Nat
BY Constants DEF QueueDelay

LEMMA ConsumingProcs ==
  ASSUME TypeOK, NEW p \in Procs, Consuming(p)
  PROVE  ProcsOK'
<1> USE DEF At, Goto
<1>0. frame[p] \in Frame /\ frame \in [Procs -> Frame] /\ pc \in [Procs -> Labels]
  BY DEF TypeOK
<1>1. CASE Receive(p)
  <2>1. PICK m \in queue : Start(p, "validate", [Idle EXCEPT !.msg = m, !.rev = m.revision])
    BY <1>1 DEF Receive
  <2>2. [Idle EXCEPT !.msg = m, !.rev = m.revision] \in Frame
    BY IdleType DEF TypeOK, Message, Frame
  <2> QED BY <2>1, <2>2, StartType DEF ProcsOK, Labels
<1>2. CASE Validate(p)
  BY <1>0, <1>2, FinishType DEF Validate, ProcsOK, Labels
<1>3. CASE InspectJob(p)
  BY <1>0, <1>3, FinishType DEF InspectJob, ProcsOK, Labels
<1>4. CASE ClaimJob(p)
  <2>1. job # None => [frame[p] EXCEPT !.alert = job.intendedAt, !.round = job.round] \in Frame
    BY <1>0 DEF TypeOK, Job, Frame
  <2> QED BY <1>0, <1>4, <2>1, FinishType DEF ClaimJob, ProcsOK, Labels
<1>5. CASE LoadContext(p)
  BY <1>0, <1>5 DEF LoadContext, ProcsOK, Labels, SuppressionReason, Outcome, Frame
<1>6. CASE Push(p)
  BY <1>0, <1>6, ReminderAssumption DEF Push, ProcsOK, Labels
<1>7. CASE SuppressDelivery(p)
  BY <1>7, FinishType DEF SuppressDelivery, ProcsOK
<1>8. CASE AcceptDelivery(p)
  BY <1>8, FinishType DEF AcceptDelivery, ProcsOK
<1>9. CASE CloseTerminal(p)
  BY <1>9, FinishType DEF CloseTerminal, ProcsOK
<1>10. CASE ScheduleRetry(p)
  <2>1. RetryTime(frame[p].alert, frame[p].at) \in Nat
    BY <1>0, JobTimes DEF Frame
  <2>2. [frame[p] EXCEPT !.rev = None, !.due = RetryTime(frame[p].alert, frame[p].at)] \in Frame
    BY <1>0, <2>1 DEF Frame
  <2> QED BY <1>0, <1>10, <2>2 DEF ScheduleRetry, ProcsOK, Labels
<1>11. CASE JobGone(p)
  BY <1>0, <1>11, IdleType DEF JobGone, ProcsOK, Labels
<1>12. CASE Acknowledge(p)
  BY <1>0, <1>12, IdleType DEF Acknowledge, ProcsOK, Labels
<1> QED BY <1>1, <1>2, <1>3, <1>4, <1>5, <1>6, <1>7, <1>8, <1>9, <1>10, <1>11, <1>12
        DEF Consuming

LEMMA ArmingProcs ==
  ASSUME TypeOK, NEW p \in Procs, Arming(p)
  PROVE  ProcsOK'
<1> USE DEF At, Goto
<1>0. frame[p] \in Frame /\ frame \in [Procs -> Frame] /\ pc \in [Procs -> Labels]
  BY DEF TypeOK
<1>1. CASE CreateRow(p)
  BY <1>0, <1>1 DEF CreateRow, ProcsOK, Labels
<1>2. CASE ReviseRow(p)
  <2>1. row # None => [frame[p] EXCEPT !.rev = row.revision + 1] \in Frame
    BY <1>0 DEF TypeOK, Delivery, Frame
  <2> QED BY <1>0, <1>2, <2>1, FinishType DEF ReviseRow, Targets, ProcsOK, Labels
<1>3. CASE ReadForPublish(p)
  BY <1>0, <1>3, FinishType DEF ReadForPublish, ProcsOK, Labels
<1>4. CASE Send(p)
  BY <1>0, <1>4 DEF Send, ProcsOK, Labels
<1>5. CASE MarkPublished(p)
  BY <1>5, FinishType DEF MarkPublished, ProcsOK
<1>6. CASE RecordPublishFailure(p)
  BY <1>6, FinishType DEF RecordPublishFailure, ProcsOK
<1>7. CASE ReloadForRearm(p)
  <2>1. job # None => WakeupTime(job, frame[p].at) \in Nat
    BY <1>0, JobTimes DEF TypeOK, Frame
  <2>2. job # None =>
          [frame[p] EXCEPT !.rev = RearmFence(frame[p]),
                           !.due = WakeupTime(job, frame[p].at)] \in Frame
    BY <1>0, <2>1 DEF Frame, RearmFence
  <2> QED BY <1>0, <1>7, <2>2, FinishType DEF ReloadForRearm, ProcsOK, Labels
<1> QED BY <1>1, <1>2, <1>3, <1>4, <1>5, <1>6, <1>7 DEF Arming

LEMMA RecoveringProcs ==
  ASSUME TypeOK, NEW p \in Procs, Recovering(p)
  PROVE  ProcsOK'
<1> USE DEF At, Goto
<1>0. frame[p] \in Frame /\ frame \in [Procs -> Frame] /\ pc \in [Procs -> Labels]
  BY DEF TypeOK
<1>r. row # None => row.revision \in Nat
  BY DEF TypeOK, Delivery
<1>j. job # None => job \in Job /\ job.intendedAt \in Nat
  BY DEF TypeOK, Job
<1>1. CASE StartPass(p)
  BY <1>1, IdleType, StartType DEF StartPass, ProcsOK, Labels
<1>2. CASE ListDue(p)
  <2>1. row # None =>
          [frame[p] EXCEPT !.rev = row.revision, !.then = "listOverdue"] \in Frame
    BY <1>0, <1>r DEF Frame
  <2> QED BY <1>0, <1>2, <2>1 DEF ListDue, DueDelivery, ProcsOK, Labels
<1>3. CASE LoadTarget(p)
  <2>1. job # None => WakeupTime(job, frame[p].at) \in Nat
    BY <1>0, <1>j, JobTimes DEF Frame
  <2>2. job # None => [frame[p] EXCEPT !.due = WakeupTime(job, frame[p].at)] \in Frame
    BY <1>0, <2>1 DEF Frame
  <2> QED BY <1>0, <1>3, <2>2, FinishType DEF LoadTarget, ProcsOK, Labels
<1>4. CASE Abandon(p)
  BY <1>4, FinishType DEF Abandon, ProcsOK
<1>5. CASE ListOverdueJobs(p)
  <2>1. job # None =>
          [frame[p] EXCEPT !.alert = job.intendedAt, !.then = "listPointers"] \in Frame
    BY <1>0, <1>j DEF Frame
  <2> QED BY <1>0, <1>5, <2>1 DEF ListOverdueJobs, ProcsOK, Labels
<1>6. CASE FindRow(p)
  <2>1. [frame[p] EXCEPT !.rev = IF row = None THEN None ELSE row.revision] \in Frame
    BY <1>0, <1>r DEF Frame
  <2> QED BY <1>0, <1>6, <2>1, FinishType DEF FindRow, RecoverJobWakeup, ProcsOK, Labels
<1>7. CASE ListOverduePointers(p)
  <2>1. row # None => [frame[p] EXCEPT !.rev = row.revision] \in Frame
    BY <1>0, <1>r DEF Frame
  <2> QED BY <1>0, <1>7, <2>1, FinishType DEF ListOverduePointers, DueDelivery, ProcsOK, Labels
<1>8. CASE LoadPointerJob(p)
  <2>1. [frame[p] EXCEPT !.rev = frame[p].rev] \in Frame
    BY <1>0 DEF Frame
  <2> QED BY <1>0, <1>8, <2>1, FinishType DEF LoadPointerJob, RecoverJobWakeup, ProcsOK, Labels
<1>9. CASE CloseStale(p)
  BY <1>9, FinishType DEF CloseStale, ProcsOK
<1> QED BY <1>1, <1>2, <1>3, <1>4, <1>5, <1>6, <1>7, <1>8, <1>9 DEF Recovering

LEMMA OwningProcs ==
  ASSUME TypeOK, NEW p \in Procs, Owning(p)
  PROVE  ProcsOK'
<1>1. CASE Save(p)
  <2>1. \A t \in AlertTimes : [Idle EXCEPT !.alert = t, !.due = t] \in Frame
    BY IdleType, Constants DEF Frame
  <2> QED BY <1>1, <2>1, StartType DEF Save, ProcsOK, Labels
<1>2. CASE MoveAway(p)
  BY <1>2 DEF MoveAway, TypeOK, ProcsOK
<1>3. CASE Clear(p)
  BY <1>3 DEF Clear, TypeOK, ProcsOK
<1>4. CASE Disable(p)
  BY <1>4, IdleType, StartType DEF Disable, ProcsOK, Labels
<1>5. CASE Register(p)
  BY <1>5, IdleType, StartType DEF Register, ProcsOK, Labels
<1> QED BY <1>1, <1>2, <1>3, <1>4, <1>5 DEF Owning

LEMMA PlanningProcs ==
  ASSUME TypeOK, NEW p \in Procs, Planning(p)
  PROVE  ProcsOK'
<1> USE DEF At, Goto
<1>0. frame[p] \in Frame /\ frame \in [Procs -> Frame] /\ pc \in [Procs -> Labels]
  BY DEF TypeOK
<1>1. CASE SaveSchedule(p)
  BY <1>0, <1>1, FinishType DEF SaveSchedule, ProcsOK, Labels
<1>2. CASE SupersedeIntents(p)
  BY <1>2, FinishType DEF SupersedeIntents, ProcsOK
<1>3. CASE SaveIntent(p)
  BY <1>0, <1>3, FinishType DEF SaveIntent, ProcsOK, Labels
<1>4. CASE ListInstallations(p)
  BY <1>0, <1>4, FinishType DEF ListInstallations, ProcsOK, Labels
<1>5. CASE FindJob(p)
  BY <1>0, <1>5, FinishType DEF FindJob, ProcsOK, Labels
<1>6. CASE InsertJob(p)
  BY <1>0, <1>6, FinishType DEF InsertJob, ProcsOK, Labels
<1>7. CASE ReplaceJob(p)
  BY <1>0, <1>7, FinishType DEF ReplaceJob, ProcsOK, Labels
<1>8. CASE DisableInstallation(p)
  BY <1>0, <1>8 DEF DisableInstallation, ProcsOK, Labels
<1>9. CASE OptOut(p)
  BY <1>0, <1>9 DEF OptOut, ProcsOK, Labels
<1>10. CASE SuppressJobs(p)
  BY <1>0, <1>10, FinishType DEF SuppressJobs, ProcsOK, Labels
<1>11. CASE OfferOptIn(p)
  BY <1>0, <1>11 DEF OfferOptIn, ProcsOK, Labels
<1>12. CASE CheckOptIn(p)
  BY <1>0, <1>12, FinishType DEF CheckOptIn, ProcsOK, Labels
<1>13. CASE EnableInstallation(p)
  BY <1>0, <1>13 DEF EnableInstallation, ProcsOK, Labels
<1>14. CASE RegisterOptIn(p)
  BY <1>0, <1>14 DEF RegisterOptIn, ProcsOK, Labels
<1>15. CASE ListIntents(p)
  <2>1. \A t \in AlertTimes : [frame[p] EXCEPT !.alert = t, !.due = t] \in Frame
    BY <1>0, Constants DEF Frame
  <2> QED BY <1>0, <1>15, <2>1, FinishType DEF ListIntents, FreshIntents, ProcsOK, Labels
<1> QED BY <1>1, <1>2, <1>3, <1>4, <1>5, <1>6, <1>7, <1>8, <1>9, <1>10, <1>11, <1>12,
           <1>13, <1>14, <1>15 DEF Planning

-----------------------------------------------------------------------------
\* What each group of actions does to the tables and the queue.

LEMMA SendType ==
  ASSUME TypeOK, NEW f \in Frame, f.rev \in Nat, Accept(f)
  PROVE  queue' \subseteq Message /\ sent' \subseteq Nat
<1>1. DelayOf(f) \in Nat
  BY DelayType DEF DelayOf, Frame
<1>2. Pointer(f.rev, DelayOf(f), now) \in Message
  BY <1>1, Constants DEF Pointer, Message, TypeOK
<1> QED BY <1>2 DEF Accept, TypeOK

LEMMA ArmingData ==
  ASSUME TypeOK, NEW p \in Procs, Arming(p), At(p, "send") => frame[p].rev \in Nat
  PROVE  DataOK'
<1>0. frame[p] \in Frame
  BY DEF TypeOK
<1>t. frame[p].at \in Nat /\ frame[p].due \in Nat /\ DelayOf(frame[p]) \in Nat
  BY <1>0, DelayType DEF Frame, DelayOf
<1>f. FirstPublishAttemptAt(frame[p]) \in Nat
  BY <1>t DEF FirstPublishAttemptAt
<1> USE DEF TypeOK, DataOK, alertVars
<1>1. CASE CreateRow(p)
  <2>1. NewDelivery(FirstPublishAttemptAt(frame[p])) \in Delivery
    BY <1>f, RowType
  <2> QED BY <1>1, <2>1 DEF CreateRow
<1>2. CASE ReviseRow(p)
  <2>1. row # None => Revised(row, FirstPublishAttemptAt(frame[p])) \in Delivery
    BY <1>f, RowUpdates
  <2> QED BY <1>2, <2>1 DEF ReviseRow, Targets
<1>3. CASE ReadForPublish(p)
  BY <1>3 DEF ReadForPublish
<1>4. CASE Send(p)
  <2>1. queue' \subseteq Message /\ sent' \subseteq Nat
    BY <1>0, <1>4, SendType DEF Send
  <2> QED BY <1>4, <2>1 DEF Send
<1>5. CASE MarkPublished(p)
  <2>1. frame[p].at + DelayOf(frame[p]) \in Nat
    BY <1>t
  <2>2. row # None =>
          MarkedPublished(row, frame[p].at, frame[p].at + DelayOf(frame[p])) \in Delivery
    BY <1>t, <2>1, RowUpdates
  <2> QED BY <1>5, <2>2 DEF MarkPublished, Targets
<1>6. CASE RecordPublishFailure(p)
  <2>1. row # None => MarkedPublishFailed(row, frame[p].at) \in Delivery
    BY <1>t, RowUpdates
  <2> QED BY <1>6, <2>1 DEF RecordPublishFailure, Targets
<1>7. CASE ReloadForRearm(p)
  BY <1>7 DEF ReloadForRearm
<1> QED BY <1>1, <1>2, <1>3, <1>4, <1>5, <1>6, <1>7 DEF Arming

LEMMA ConsumingData ==
  ASSUME TypeOK, NEW p \in Procs, Consuming(p)
  PROVE  DataOK'
<1>0. /\ frame[p] \in Frame /\ frame[p].at \in Nat /\ frame[p].alert \in Nat
      /\ frame[p].round \in Nat /\ frame[p].outcome \in Outcome
  BY DEF TypeOK, Frame
<1>j. job # None =>
        /\ Claimed(job, frame[p].at) \in Job
        /\ \A status \in JobStatus, outcome \in Outcome :
              Settled(job, status, outcome, frame[p].at) \in Job
        /\ RetryScheduled(job, frame[p].alert, frame[p].at) \in Job
  BY <1>0, JobUpdates DEF TypeOK
<1> USE DEF TypeOK, DataOK, alertVars
<1>1. CASE Receive(p)
  BY <1>1 DEF Receive
<1>2. CASE Validate(p)
  BY <1>2 DEF Validate
<1>3. CASE InspectJob(p)
  BY <1>3 DEF InspectJob
<1>4. CASE ClaimJob(p)
  BY <1>4, <1>j DEF ClaimJob
<1>5. CASE LoadContext(p)
  BY <1>5 DEF LoadContext
<1>6. CASE Push(p)
  BY <1>0, <1>6 DEF Push
<1>7. CASE SuppressDelivery(p)
  BY <1>0, <1>7, <1>j DEF SuppressDelivery, WriteJob, JobStatus
<1>8. CASE AcceptDelivery(p)
  BY <1>8, <1>j DEF AcceptDelivery, WriteJob, JobStatus, Outcome
<1>9. CASE CloseTerminal(p)
  BY <1>9, <1>j DEF CloseTerminal, WriteJob, JobStatus, Outcome
<1>10. CASE ScheduleRetry(p)
  BY <1>10, <1>j DEF ScheduleRetry, WriteJob
<1>11. CASE JobGone(p)
  BY <1>11 DEF JobGone
<1>12. CASE Acknowledge(p)
  BY <1>12 DEF Acknowledge
<1> QED BY <1>1, <1>2, <1>3, <1>4, <1>5, <1>6, <1>7, <1>8, <1>9, <1>10, <1>11, <1>12
        DEF Consuming

LEMMA RecoveringData ==
  ASSUME TypeOK, NEW p \in Procs, Recovering(p)
  PROVE  DataOK'
<1>0. frame[p].at \in Nat
  BY DEF TypeOK, Frame
<1> USE DEF TypeOK, DataOK, alertVars
<1>1. CASE StartPass(p)
  BY <1>1 DEF StartPass
<1>2. CASE ListDue(p)
  BY <1>2 DEF ListDue
<1>3. CASE LoadTarget(p)
  BY <1>3 DEF LoadTarget
<1>4. CASE Abandon(p)
  <2>1. row # None => Abandoned(row) \in Delivery
    BY <1>0, RowUpdates
  <2> QED BY <1>4, <2>1 DEF Abandon, Targets
<1>5. CASE ListOverdueJobs(p)
  BY <1>5 DEF ListOverdueJobs
<1>6. CASE FindRow(p)
  BY <1>6 DEF FindRow
<1>7. CASE ListOverduePointers(p)
  BY <1>7 DEF ListOverduePointers
<1>8. CASE LoadPointerJob(p)
  BY <1>8 DEF LoadPointerJob
<1>9. CASE CloseStale(p)
  <2>1. job # None => Settled(job, "skipped", "suppressed_stale", frame[p].at) \in Job
    BY <1>0, JobUpdates DEF JobStatus, Outcome
  <2> QED BY <1>9, <2>1 DEF CloseStale
<1> QED BY <1>1, <1>2, <1>3, <1>4, <1>5, <1>6, <1>7, <1>8, <1>9 DEF Recovering

LEMMA OwningData ==
  ASSUME TypeOK, NEW p \in Procs, Owning(p)
  PROVE  DataOK'
<1> USE DEF TypeOK, DataOK, alertVars, Mutates
<1>1. CASE Save(p)
  BY <1>1 DEF Save
<1>2. CASE MoveAway(p)
  BY <1>2 DEF MoveAway, SupersededIntents
<1>3. CASE Clear(p)
  BY <1>3 DEF Clear
<1>4. CASE Disable(p)
  BY <1>4 DEF Disable
<1>5. CASE Register(p)
  BY <1>5 DEF Register
<1> QED BY <1>1, <1>2, <1>3, <1>4, <1>5 DEF Owning

LEMMA PlanningData ==
  ASSUME TypeOK, NEW p \in Procs, Planning(p)
  PROVE  DataOK'
<1>0. frame[p] \in Frame /\ frame[p].at \in Nat /\ frame[p].alert \in Nat
  BY DEF TypeOK, Frame
<1> USE DEF TypeOK, DataOK, alertVars
<1>1. CASE SaveSchedule(p)
  BY <1>0, <1>1 DEF SaveSchedule
<1>2. CASE SupersedeIntents(p)
  BY <1>2 DEF SupersedeIntents, SupersededIntents
<1>3. CASE SaveIntent(p)
  BY <1>3 DEF SaveIntent, SupersededIntents
<1>4. CASE ListInstallations(p)
  BY <1>4 DEF ListInstallations
<1>5. CASE FindJob(p)
  BY <1>5 DEF FindJob
<1>6. CASE InsertJob(p)
  <2>1. PlannedJob(frame[p].alert, frame[p].at, 1) \in Job
    BY <1>0 DEF PlannedJob, Job, JobStatus, Outcome
  <2> QED BY <1>6, <2>1 DEF InsertJob
<1>7. CASE ReplaceJob(p)
  <2>1. job # None => job.round + 1 \in Nat
    BY DEF Job
  <2>2. job # None => PlannedJob(frame[p].alert, frame[p].at, job.round + 1) \in Job
    BY <1>0, <2>1 DEF PlannedJob, Job, JobStatus, Outcome
  <2> QED BY <1>7, <2>2 DEF ReplaceJob
<1>8. CASE DisableInstallation(p)
  BY <1>8 DEF DisableInstallation
<1>9. CASE OptOut(p)
  BY <1>9 DEF OptOut
<1>10. CASE SuppressJobs(p)
  <2>1. job # None => Settled(job, "skipped", "suppressed_revoked", frame[p].at) \in Job
    BY <1>0, JobUpdates DEF JobStatus, Outcome
  <2> QED BY <1>10, <2>1 DEF SuppressJobs
<1>11. CASE OfferOptIn(p)
  BY <1>11 DEF OfferOptIn
<1>12. CASE CheckOptIn(p)
  BY <1>12 DEF CheckOptIn
<1>13. CASE EnableInstallation(p)
  BY <1>13 DEF EnableInstallation
<1>14. CASE RegisterOptIn(p)
  BY <1>14 DEF RegisterOptIn
<1>15. CASE ListIntents(p)
  BY <1>15 DEF ListIntents
<1> QED BY <1>1, <1>2, <1>3, <1>4, <1>5, <1>6, <1>7, <1>8, <1>9, <1>10, <1>11, <1>12,
           <1>13, <1>14, <1>15 DEF Planning

LEMMA FaultType ==
  ASSUME TypeOK, (\E p \in Procs : Crash(p)) \/ LoseMessage \/ SkipPass \/ Tick \/ Stop
  PROVE  TypeOK'
<1>1. ASSUME NEW p \in Procs, Crash(p) PROVE TypeOK'
  BY <1>1, IdleType DEF Crash, Fault, Goto, TypeOK, alertVars, Labels
<1>2. CASE LoseMessage
  BY <1>2 DEF LoseMessage, Fault, TypeOK, alertVars
<1>3. CASE SkipPass
  BY <1>3 DEF SkipPass, Fault, TypeOK, alertVars
<1>4. CASE Tick
  BY <1>4 DEF Tick, TypeOK, alertVars
<1>5. CASE Stop
  BY <1>5 DEF Stop, vars, TypeOK, alertVars
<1> QED BY <1>1, <1>2, <1>3, <1>4, <1>5

-----------------------------------------------------------------------------
\* A process about to publish knows the revision it is fenced on, and one about
\* to record a publish has had its send accepted.
FencedPublish ==
  \A p \in Procs :
    /\ pc[p] \in {"target", "publish", "send", "mark", "markFailed"} => frame[p].rev \in Nat
    /\ At(p, "mark") => frame[p].rev \in sent

IInv == TypeOK /\ FencedPublish /\ PublishedWasSent

LEMMA GotoFenced ==
  ASSUME TypeOK, FencedPublish, sent \subseteq sent',
         NEW p \in Procs, NEW label, NEW f, Goto(p, label, f),
         label \in {"target", "publish", "send", "mark", "markFailed"} => f.rev \in Nat,
         label = "mark" => f.rev \in sent'
  PROVE  FencedPublish'
<1>1. pc' = [pc EXCEPT ![p] = label] /\ frame' = [frame EXCEPT ![p] = f]
  BY DEF Goto
<1>2. pc \in [Procs -> Labels] /\ frame \in [Procs -> Frame]
  BY DEF TypeOK
<1> QED BY <1>1, <1>2 DEF FencedPublish, At

\* Every label from which nothing is published.
LEMMA GotoElsewhere ==
  ASSUME TypeOK, FencedPublish, sent \subseteq sent',
         NEW p \in Procs, NEW label, NEW f, Goto(p, label, f),
         label \notin {"target", "publish", "send", "mark", "markFailed"}
  PROVE  FencedPublish'
BY GotoFenced

LEMMA StartFenced ==
  ASSUME TypeOK, FencedPublish, sent \subseteq sent',
         NEW p \in Procs, NEW label, NEW f, Start(p, label, f),
         label \notin {"target", "publish", "send", "mark", "markFailed"}
  PROVE  FencedPublish'
BY GotoElsewhere DEF Start

LEMMA FinishFenced ==
  ASSUME TypeOK, FencedPublish, sent \subseteq sent', NEW p \in Procs, Finish(p)
  PROVE  FencedPublish'
<1>1. frame[p].then \in {"idle", "listOverdue", "listPointers"}
  BY DEF TypeOK, Frame
<1> QED BY <1>1, GotoElsewhere DEF Finish

LEMMA OwningFenced ==
  ASSUME TypeOK, FencedPublish, NEW p \in Procs, Owning(p) \/ Planning(p)
  PROVE  FencedPublish'
<1> USE GotoElsewhere, StartFenced, FinishFenced
<1>1. CASE Owning(p)
  <2>1. CASE Save(p)
    <3>1. PICK t \in AlertTimes : Start(p, "saveSchedule", [Idle EXCEPT !.alert = t, !.due = t])
      BY <2>1 DEF Save
    <3> QED BY <2>1, <3>1 DEF Save
  <2>2. CASE MoveAway(p) \/ Clear(p)
    BY <2>2 DEF MoveAway, Clear, FencedPublish, At
  <2>3. CASE Disable(p) \/ Register(p)
    BY <2>3 DEF Disable, Register
  <2> QED BY <1>1, <2>1, <2>2, <2>3 DEF Owning
<1>2. CASE Planning(p)
  <2>1. CASE SaveSchedule(p) \/ SupersedeIntents(p) \/ SaveIntent(p) \/ ListInstallations(p)
    BY <2>1 DEF SaveSchedule, SupersedeIntents, SaveIntent, ListInstallations
  <2>2. CASE FindJob(p) \/ InsertJob(p) \/ ReplaceJob(p)
    BY <2>2 DEF FindJob, InsertJob, ReplaceJob
  <2>3. CASE DisableInstallation(p) \/ OptOut(p) \/ SuppressJobs(p)
    BY <2>3 DEF DisableInstallation, OptOut, SuppressJobs
  <2>4. CASE OfferOptIn(p) \/ CheckOptIn(p) \/ EnableInstallation(p) \/ RegisterOptIn(p)
    BY <2>4 DEF OfferOptIn, CheckOptIn, EnableInstallation, RegisterOptIn
  <2>5. CASE ListIntents(p)
    <3>0. sent' = sent
      BY <2>5 DEF ListIntents
    <3>1. ASSUME NEW t \in AlertTimes,
                 Goto(p, "findJob", [frame[p] EXCEPT !.alert = t, !.due = t])
          PROVE  FencedPublish'
      BY <3>0, <3>1
    <3> QED BY <2>5, <3>0, <3>1 DEF ListIntents, FreshIntents
  <2> QED BY <1>2, <2>1, <2>2, <2>3, <2>4, <2>5 DEF Planning
<1> QED BY <1>1, <1>2

LEMMA ConsumingFenced ==
  ASSUME TypeOK, FencedPublish, NEW p \in Procs, Consuming(p)
  PROVE  FencedPublish'
<1> USE GotoElsewhere, StartFenced, FinishFenced
<1>0. CASE Receive(p)
  <2>1. PICK m \in queue : Start(p, "validate", [Idle EXCEPT !.msg = m, !.rev = m.revision])
    BY <1>0 DEF Receive
  <2> QED BY <1>0, <2>1 DEF Receive
<1>1. CASE Validate(p) \/ InspectJob(p) \/ ClaimJob(p)
  BY <1>1 DEF Validate, InspectJob, ClaimJob
<1>2. CASE LoadContext(p)
  BY <1>2 DEF LoadContext
<1>3. CASE Push(p)
  <2>1. PICK answer \in PushOutcomes :
           Goto(p, CASE answer = "accepted" -> "accept"
                    [] answer = "failed"   -> "retry"
                    [] answer = "terminal" -> "disable", frame[p])
    BY <1>3 DEF Push
  <2>2. answer \in {"accepted", "failed", "terminal"} /\ sent' = sent
    BY <1>3, ReminderAssumption DEF Push
  <2> QED BY <2>1, <2>2
<1>4. CASE SuppressDelivery(p) \/ AcceptDelivery(p) \/ CloseTerminal(p) \/ ScheduleRetry(p)
  BY <1>4 DEF SuppressDelivery, AcceptDelivery, CloseTerminal, ScheduleRetry, WriteJob
<1>5. CASE JobGone(p) \/ Acknowledge(p)
  BY <1>5 DEF JobGone, Acknowledge
<1> QED BY <1>0, <1>1, <1>2, <1>3, <1>4, <1>5 DEF Consuming

LEMMA ArmingFenced ==
  ASSUME TypeOK, FencedPublish, NEW p \in Procs, Arming(p)
  PROVE  FencedPublish'
<1>0. frame[p] \in Frame /\ (row # None => row.revision + 1 \in Nat)
  BY DEF TypeOK, Delivery
<1> USE GotoElsewhere, FinishFenced, GotoFenced
<1>1. CASE CreateRow(p)
  BY <1>1 DEF CreateRow
<1>2. CASE ReviseRow(p)
  <2>1. CASE Targets(row, frame[p].rev) /\ PublishAhead
    <3>1. [frame[p] EXCEPT !.rev = row.revision + 1].rev \in Nat
      BY <1>0, <2>1 DEF Targets, Frame
    <3> QED BY <1>2, <2>1, <3>1 DEF ReviseRow
  <2> QED BY <1>2, <2>1 DEF ReviseRow
<1>3. CASE ReadForPublish(p)
  BY <1>3 DEF ReadForPublish, FencedPublish, At
<1>4. CASE Send(p)
  <2>1. frame[p].rev \in Nat /\ sent \subseteq sent'
    BY <1>4 DEF Send, Accept, FencedPublish, At
  <2>2. CASE Goto(p, "mark", frame[p]) /\ Accept(frame[p])
    BY <2>1, <2>2 DEF Accept
  <2>3. CASE Goto(p, "markFailed", frame[p])
    BY <2>1, <2>3
  <2> QED BY <1>4, <2>2, <2>3 DEF Send
<1>5. CASE MarkPublished(p)
  BY <1>5 DEF MarkPublished
<1>6. CASE RecordPublishFailure(p)
  BY <1>6 DEF RecordPublishFailure
<1>7. CASE ReloadForRearm(p)
  BY <1>7 DEF ReloadForRearm
<1> QED BY <1>1, <1>2, <1>3, <1>4, <1>5, <1>6, <1>7 DEF Arming

LEMMA RecoveringFenced ==
  ASSUME TypeOK, FencedPublish, NEW p \in Procs, Recovering(p)
  PROVE  FencedPublish'
<1>0. /\ frame[p] \in Frame
      /\ row # None => row.revision \in Nat
  BY DEF TypeOK, Delivery
<1> USE GotoElsewhere, StartFenced, FinishFenced, GotoFenced
<1>1. CASE StartPass(p)
  BY <1>1 DEF StartPass
<1>2. CASE ListDue(p)
  <2>1. row # None =>
          [frame[p] EXCEPT !.rev = row.revision, !.then = "listOverdue"].rev \in Nat
    BY <1>0 DEF Frame
  <2> QED BY <1>2, <2>1 DEF ListDue, DueDelivery
<1>3. CASE LoadTarget(p)
  <2>1. [frame[p] EXCEPT !.due = WakeupTime(job, frame[p].at)].rev \in Nat
    BY <1>0, <1>3 DEF LoadTarget, FencedPublish, At, Frame
  <2> QED BY <1>3, <2>1 DEF LoadTarget
<1>4. CASE Abandon(p) \/ CloseStale(p)
  BY <1>4 DEF Abandon, CloseStale
<1>5. CASE ListOverdueJobs(p) \/ ListOverduePointers(p)
  BY <1>5 DEF ListOverdueJobs, ListOverduePointers
<1>6. CASE FindRow(p) \/ LoadPointerJob(p)
  BY <1>6 DEF FindRow, LoadPointerJob, RecoverJobWakeup
<1> QED BY <1>1, <1>2, <1>3, <1>4, <1>5, <1>6 DEF Recovering

\* Only arming and abandoning write the row, and only Send adds to `sent`.
LEMMA ArmingPublished ==
  ASSUME TypeOK, FencedPublish, PublishedWasSent, NEW p \in Procs, Arming(p)
  PROVE  PublishedWasSent'
<1>0. row # None => row \in Delivery
  BY DEF TypeOK
<1> USE DEF PublishedWasSent
<1>1. CASE CreateRow(p)
  BY <1>1 DEF CreateRow, NewDelivery
<1>2. CASE ReviseRow(p)
  BY <1>0, <1>2 DEF ReviseRow, Revised, Delivery, Targets
<1>3. CASE ReadForPublish(p)
  BY <1>3 DEF ReadForPublish
<1>4. CASE Send(p)
  BY <1>4 DEF Send, Accept
<1>5. CASE MarkPublished(p)
  <2>1. frame[p].rev \in Nat /\ frame[p].rev \in sent /\ sent' = sent
    BY <1>5 DEF MarkPublished, FencedPublish, At
  <2>2. frame[p].rev # None
    BY <2>1, Constants
  <2>3. CASE Targets(row, frame[p].rev)
    BY <1>0, <1>5, <2>1, <2>2, <2>3
       DEF MarkPublished, MarkFence, Targets, MarkedPublished, Delivery
  <2>4. CASE ~Targets(row, frame[p].rev)
    BY <1>5, <2>1, <2>4 DEF MarkPublished, MarkFence
  <2> QED BY <2>3, <2>4
<1>6. CASE RecordPublishFailure(p)
  BY <1>0, <1>6 DEF RecordPublishFailure, MarkedPublishFailed, Delivery, Targets
<1>7. CASE ReloadForRearm(p)
  BY <1>7 DEF ReloadForRearm
<1> QED BY <1>1, <1>2, <1>3, <1>4, <1>5, <1>6, <1>7 DEF Arming

\* The strengthened invariant is preserved by every step of the system.
LEMMA WorkKeepsIInv ==
  ASSUME IInv, NEW p \in Procs, Owning(p) \/ Works(p)
  PROVE  IInv'
<1> USE DEF IInv
<1>1. CASE Owning(p) \/ Planning(p)
  <2>1. TypeOK'
    BY <1>1, OwningProcs, OwningData, PlanningProcs, PlanningData, TypeParts
  <2>2. PublishedWasSent'
    <3>1. row' = row /\ sent' = sent
      <4>1. CASE Owning(p)
        BY <4>1 DEF Owning, Save, MoveAway, Clear, Disable, Register
      <4>2. CASE Planning(p)
        BY <4>2 DEF Planning, SaveSchedule, SupersedeIntents, SaveIntent, ListInstallations,
             FindJob, InsertJob, ReplaceJob, DisableInstallation, OptOut, SuppressJobs,
             OfferOptIn, CheckOptIn, EnableInstallation, RegisterOptIn, ListIntents
      <4> QED BY <1>1, <4>1, <4>2
    <3> QED BY <3>1 DEF PublishedWasSent
  <2> QED BY <1>1, <2>1, <2>2, OwningFenced
<1>2. CASE Arming(p)
  <2>1. At(p, "send") => frame[p].rev \in Nat
    BY DEF FencedPublish, At
  <2> QED BY <1>2, <2>1, ArmingProcs, ArmingData, TypeParts, ArmingFenced, ArmingPublished
<1>3. CASE Consuming(p)
  <2>1. row' = row /\ sent' = sent
    BY <1>3 DEF Consuming, Receive, Validate, InspectJob, ClaimJob, LoadContext, Push,
         SuppressDelivery, AcceptDelivery, CloseTerminal, ScheduleRetry, WriteJob, JobGone,
         Acknowledge
  <2>2. PublishedWasSent'
    BY <2>1 DEF PublishedWasSent
  <2> QED BY <1>3, <2>2, ConsumingProcs, ConsumingData, TypeParts, ConsumingFenced
<1>4. CASE Recovering(p)
  <2>1. /\ sent' = sent
        /\ row' = row \/ Abandon(p)
    BY <1>4 DEF Recovering, StartPass, ListDue, LoadTarget, Abandon, ListOverdueJobs, FindRow,
         ListOverduePointers, LoadPointerJob, CloseStale
  <2>2. CASE row' = row
    BY <2>1, <2>2, <1>4, RecoveringProcs, RecoveringData, TypeParts, RecoveringFenced
       DEF PublishedWasSent
  <2>3. CASE Abandon(p)
    <3>1. PublishedWasSent'
      BY <2>1, <2>3 DEF Abandon, Abandoned, PublishedWasSent, Targets, TypeOK, Delivery
    <3> QED BY <3>1, <1>4, RecoveringProcs, RecoveringData, TypeParts, RecoveringFenced
  <2> QED BY <2>1, <2>2, <2>3
<1> QED BY <1>1, <1>2, <1>3, <1>4 DEF Works

LEMMA FaultKeepsIInv ==
  ASSUME IInv, (\E p \in Procs : Crash(p)) \/ LoseMessage \/ SkipPass \/ Tick \/ Stop
  PROVE  IInv'
<1>1. TypeOK'
  BY FaultType DEF IInv
<1>2. row' = row /\ sent' = sent
  BY DEF Crash, LoseMessage, SkipPass, Tick, Stop, vars
<1>3. FencedPublish'
  <2>1. ASSUME NEW p \in Procs, Crash(p) PROVE FencedPublish'
    BY <1>2, <2>1, GotoElsewhere DEF Crash, IInv
  <2>2. CASE LoseMessage \/ SkipPass \/ Tick \/ Stop
    BY <2>2 DEF LoseMessage, SkipPass, Tick, Stop, vars, FencedPublish, At, IInv
  <2> QED BY <2>1, <2>2
<1> QED BY <1>1, <1>2, <1>3 DEF IInv, PublishedWasSent

LEMMA InitIInv == Init => IInv
<1> SUFFICES ASSUME Init PROVE IInv
  OBVIOUS
<1>1. TypeOK
  BY IdleType DEF Init, TypeOK, Labels
<1>2. FencedPublish /\ PublishedWasSent
  BY DEF Init, FencedPublish, At, PublishedWasSent
<1> QED BY <1>1, <1>2 DEF IInv

LEMMA NextIInv == IInv /\ [Next]_vars => IInv'
<1> SUFFICES ASSUME IInv, [Next]_vars PROVE IInv'
  OBVIOUS
<1>1. CASE UNCHANGED vars
  BY <1>1 DEF vars, alertVars, IInv, TypeOK, FencedPublish, At, PublishedWasSent
<1>2. CASE Next
  BY <1>2, WorkKeepsIInv, FaultKeepsIInv DEF Next
<1> QED BY <1>1, <1>2

\* Every variable keeps its shape, whatever the number of processes and bounds:
\* in particular a fenced publish never runs without a revision.
THEOREM TypeCorrect == Spec => []TypeOK
<1>1. IInv => TypeOK
  BY DEF IInv
<1> QED BY <1>1, InitIInv, NextIInv, PTL DEF Spec

\* An outbox row that says "published" carries a revision whose send the provider
\* accepted (markBackgroundJobDeliveryPublished, fenced by publish on the revision
\* it sent), for any interleaving of edits, callbacks, passes, failures and crashes.
THEOREM PublishedWasSentAlways == Spec => []PublishedWasSent
<1>1. IInv => PublishedWasSent
  BY DEF IInv
<1> QED BY <1>1, InitIInv, NextIInv, PTL DEF Spec
-----------------------------------------------------------------------------
\* A process that loads its context has claimed the job at or after the alert
\* time, and one about to push has also found the alert fresh.
Window ==
  \A p \in Procs :
    /\ At(p, "context") => frame[p].alert <= frame[p].at
    /\ At(p, "push") => /\ frame[p].alert <= frame[p].at
                        /\ frame[p].at < FreshUntil(frame[p].alert)

\* Every step but the claim and the load of the context leads elsewhere.
LEMMA GotoOutside ==
  ASSUME TypeOK, Window, NEW p \in Procs, NEW label, NEW f, Goto(p, label, f),
         label \notin {"context", "push"}
  PROVE  Window'
<1>1. pc' = [pc EXCEPT ![p] = label] /\ frame' = [frame EXCEPT ![p] = f]
  BY DEF Goto
<1>2. pc \in [Procs -> Labels] /\ frame \in [Procs -> Frame]
  BY DEF TypeOK
<1>3. ASSUME NEW q \in Procs, pc'[q] \in {"context", "push"}
      PROVE  q # p /\ pc'[q] = pc[q] /\ frame'[q] = frame[q]
  BY <1>1, <1>2, <1>3
<1> QED BY <1>3 DEF Window, At

LEMMA StartOutside ==
  ASSUME TypeOK, Window, NEW p \in Procs, NEW label, NEW f, Start(p, label, f),
         label \notin {"context", "push"}
  PROVE  Window'
BY GotoOutside DEF Start

LEMMA FinishOutside ==
  ASSUME TypeOK, Window, NEW p \in Procs, Finish(p)
  PROVE  Window'
<1>1. frame[p].then \in {"idle", "listOverdue", "listPointers"}
  BY DEF TypeOK, Frame
<1> QED BY <1>1, GotoOutside DEF Finish

LEMMA OwningWindow ==
  ASSUME TypeOK, Window, NEW p \in Procs, Owning(p) \/ Planning(p)
  PROVE  Window'
<1> USE GotoOutside, StartOutside, FinishOutside
<1>1. CASE Save(p)
  <2>1. PICK t \in AlertTimes : Start(p, "saveSchedule", [Idle EXCEPT !.alert = t, !.due = t])
    BY <1>1 DEF Save
  <2> QED BY <2>1
<1>2. CASE MoveAway(p) \/ Clear(p)
  BY <1>2 DEF MoveAway, Clear, Window, At
<1>3. CASE Disable(p) \/ Register(p)
  BY <1>3 DEF Disable, Register
<1>4. CASE SaveSchedule(p) \/ SupersedeIntents(p) \/ SaveIntent(p) \/ ListInstallations(p)
  BY <1>4 DEF SaveSchedule, SupersedeIntents, SaveIntent, ListInstallations
<1>5. CASE FindJob(p) \/ InsertJob(p) \/ ReplaceJob(p)
  BY <1>5 DEF FindJob, InsertJob, ReplaceJob
<1>6. CASE DisableInstallation(p) \/ OptOut(p) \/ SuppressJobs(p)
  BY <1>6 DEF DisableInstallation, OptOut, SuppressJobs
<1>7. CASE OfferOptIn(p) \/ CheckOptIn(p) \/ EnableInstallation(p) \/ RegisterOptIn(p)
  BY <1>7 DEF OfferOptIn, CheckOptIn, EnableInstallation, RegisterOptIn
<1>8. CASE ListIntents(p)
  <2>1. ASSUME NEW t \in AlertTimes,
               Goto(p, "findJob", [frame[p] EXCEPT !.alert = t, !.due = t])
        PROVE  Window'
    BY <2>1
  <2> QED BY <1>8, <2>1 DEF ListIntents, FreshIntents
<1> QED BY <1>1, <1>2, <1>3, <1>4, <1>5, <1>6, <1>7, <1>8 DEF Owning, Planning

\* What the claim and the freshness check establish.
LEMMA ClaimWindow ==
  ASSUME TypeOK, Window, NEW p \in Procs, ClaimJob(p) \/ LoadContext(p)
  PROVE  Window'
<1>0. /\ pc \in [Procs -> Labels] /\ frame \in [Procs -> Frame] /\ frame[p] \in Frame
      /\ job # None => job \in Job /\ job.intendedAt \in Nat
  BY DEF TypeOK, Job
<1>1. CASE ClaimJob(p) /\ job # None /\ ClaimAllowed(job, frame[p].at)
  <2> DEFINE f == [frame[p] EXCEPT !.alert = job.intendedAt, !.round = job.round]
  <2>1. pc' = [pc EXCEPT ![p] = "context"] /\ frame' = [frame EXCEPT ![p] = f]
    BY <1>1 DEF ClaimJob, Goto
  <2>2. f.alert = job.intendedAt /\ f.at = frame[p].at
    BY <1>0 DEF Frame
  <2>3. job.intendedAt <= frame[p].at
    BY <1>1 DEF ClaimAllowed
  <2>4. pc'[p] = "context" /\ frame'[p].alert <= frame'[p].at
    BY <1>0, <2>1, <2>2, <2>3
  <2>5. \A q \in Procs \ {p} : pc'[q] = pc[q] /\ frame'[q] = frame[q]
    BY <1>0, <2>1
  <2> QED BY <2>4, <2>5 DEF Window, At
<1>2. CASE ClaimJob(p) /\ ~(job # None /\ ClaimAllowed(job, frame[p].at))
  BY <1>2, FinishOutside DEF ClaimJob
<1>3. CASE LoadContext(p)
  <2> DEFINE reason == SuppressionReason(frame[p])
             f == [frame[p] EXCEPT !.outcome = reason]
  <2>1. /\ At(p, "context")
        /\ pc' = [pc EXCEPT ![p] = IF reason = "none" THEN "push" ELSE "suppress"]
        /\ frame' = [frame EXCEPT ![p] = f]
    BY <1>3 DEF LoadContext, Goto
  <2>2. f.alert = frame[p].alert /\ f.at = frame[p].at
    BY <1>0 DEF Frame
  <2>3. frame[p].alert <= frame[p].at
    BY <2>1 DEF Window
  <2>4. reason = "none" => frame[p].at < FreshUntil(frame[p].alert)
    <3>1. frame[p].at \in Nat /\ FreshUntil(frame[p].alert) \in Nat
      BY <1>0, JobTimes DEF Frame
    <3> QED BY <3>1 DEF SuppressionReason
  <2>5. /\ pc'[p] \in {"push", "suppress"} /\ (pc'[p] = "push" => reason = "none")
        /\ frame'[p].alert = frame[p].alert /\ frame'[p].at = frame[p].at
    BY <1>0, <2>1, <2>2
  <2>6. \A q \in Procs \ {p} : pc'[q] = pc[q] /\ frame'[q] = frame[q]
    BY <1>0, <2>1
  <2> QED BY <2>3, <2>4, <2>5, <2>6 DEF Window, At, FreshUntil
<1> QED BY <1>1, <1>2, <1>3

LEMMA ConsumingWindow ==
  ASSUME TypeOK, Window, NEW p \in Procs, Consuming(p)
  PROVE  Window'
<1> USE GotoOutside, StartOutside, FinishOutside
<1>0. CASE Receive(p)
  <2>1. PICK m \in queue : Start(p, "validate", [Idle EXCEPT !.msg = m, !.rev = m.revision])
    BY <1>0 DEF Receive
  <2> QED BY <2>1
<1>1. CASE Validate(p) \/ InspectJob(p)
  BY <1>1 DEF Validate, InspectJob
<1>2. CASE ClaimJob(p) \/ LoadContext(p)
  BY <1>2, ClaimWindow
<1>3. CASE Push(p)
  <2>1. PICK answer \in PushOutcomes :
           Goto(p, CASE answer = "accepted" -> "accept"
                    [] answer = "failed"   -> "retry"
                    [] answer = "terminal" -> "disable", frame[p])
    BY <1>3 DEF Push
  <2>2. answer \in {"accepted", "failed", "terminal"}
    BY ReminderAssumption
  <2> QED BY <2>1, <2>2
<1>4. CASE SuppressDelivery(p) \/ AcceptDelivery(p) \/ CloseTerminal(p) \/ ScheduleRetry(p)
  BY <1>4 DEF SuppressDelivery, AcceptDelivery, CloseTerminal, ScheduleRetry
<1>5. CASE JobGone(p) \/ Acknowledge(p)
  BY <1>5 DEF JobGone, Acknowledge
<1> QED BY <1>0, <1>1, <1>2, <1>3, <1>4, <1>5 DEF Consuming

LEMMA PublishingWindow ==
  ASSUME TypeOK, Window, NEW p \in Procs, Arming(p) \/ Recovering(p)
  PROVE  Window'
<1> USE GotoOutside, StartOutside, FinishOutside
<1>1. CASE CreateRow(p) \/ ReviseRow(p) \/ ReadForPublish(p)
  BY <1>1 DEF CreateRow, ReviseRow, ReadForPublish
<1>2. CASE Send(p)
  BY <1>2 DEF Send
<1>3. CASE MarkPublished(p) \/ RecordPublishFailure(p) \/ ReloadForRearm(p)
  BY <1>3 DEF MarkPublished, RecordPublishFailure, ReloadForRearm
<1>4. CASE StartPass(p) \/ ListDue(p) \/ LoadTarget(p)
  BY <1>4 DEF StartPass, ListDue, LoadTarget
<1>5. CASE Abandon(p) \/ CloseStale(p) \/ ListOverdueJobs(p) \/ ListOverduePointers(p)
  BY <1>5 DEF Abandon, CloseStale, ListOverdueJobs, ListOverduePointers
<1>6. CASE FindRow(p) \/ LoadPointerJob(p)
  BY <1>6 DEF FindRow, LoadPointerJob, RecoverJobWakeup
<1> QED BY <1>1, <1>2, <1>3, <1>4, <1>5, <1>6 DEF Arming, Recovering

LEMMA NextWindow == TypeOK /\ Window /\ [Next]_vars => Window'
<1> SUFFICES ASSUME TypeOK, Window, [Next]_vars PROVE Window'
  OBVIOUS
<1>1. ASSUME NEW p \in Procs, Owning(p) \/ Works(p) PROVE Window'
  BY <1>1, OwningWindow, ConsumingWindow, PublishingWindow DEF Works
<1>2. ASSUME NEW p \in Procs, Crash(p) PROVE Window'
  BY <1>2, GotoOutside DEF Crash
<1>3. CASE LoseMessage \/ SkipPass \/ Tick \/ Stop \/ UNCHANGED vars
  BY <1>3 DEF LoseMessage, SkipPass, Tick, Stop, vars, Window, At
<1> QED BY <1>1, <1>2, <1>3 DEF Next

\* No reminder is pushed before its alert time or once it is stale: the claim's
\* own WHERE (claimDeliveryJob) and the freshness check of dispatchReminder hold
\* what an edit, a retry or a recovery pass may get wrong when it wakes the job.
THEOREM PushedInWindowAlways == Spec => []PushedInWindow
<1>1. Init => Window
  BY DEF Init, Window, At
<1>2. Window => PushedInWindow
  BY DEF Window, PushedInWindow, Procs
<1> QED BY <1>1, <1>2, NextWindow, TypeCorrect, PTL DEF Spec
-----------------------------------------------------------------------------
(* What one step of a process leaves alone, and when an invocation runs.   *)

\* Nobody else moves, and p goes on at the time it began at, or begins now.
OneStep(p) ==
  /\ now' = now
  /\ \A q \in Procs \ {p} : pc'[q] = pc[q] /\ frame'[q] = frame[q]
  /\ pc'[p] # "idle" => frame'[p].at = IF pc[p] = "idle" THEN now ELSE frame[p].at

LEMMA GotoOne ==
  ASSUME TypeOK, NEW p \in Procs, NEW label, NEW f, Goto(p, label, f), now' = now,
         label # "idle" => pc[p] # "idle" /\ f.at = frame[p].at
  PROVE  OneStep(p)
BY DEF TypeOK, Goto, OneStep

LEMMA StartOne ==
  ASSUME TypeOK, NEW p \in Procs, NEW label, NEW f \in Frame, Start(p, label, f), now' = now
  PROVE  OneStep(p)
<1>1. [f EXCEPT !.at = now].at = now
  BY DEF Frame
<1> QED BY <1>1 DEF TypeOK, Start, Goto, OneStep

LEMMA FinishOne ==
  ASSUME TypeOK, NEW p \in Procs, Finish(p), pc[p] # "idle", now' = now
  PROVE  OneStep(p)
<1>1. /\ [Idle EXCEPT !.at = frame[p].at, !.msg = frame[p].msg].at = frame[p].at
      /\ [Idle EXCEPT !.at = frame[p].at].at = frame[p].at
  BY DEF Idle
<1> QED BY <1>1, GotoOne DEF Finish

\* The frames a step makes of the one it has.
LEMMA FrameKept ==
  ASSUME NEW f \in Frame
  PROVE  /\ \A x, y : [f EXCEPT !.alert = x, !.due = y].at = f.at
         /\ \A x, y : [f EXCEPT !.alert = x, !.round = y].at = f.at
         /\ \A x, y : [f EXCEPT !.alert = x, !.then = y].at = f.at
         /\ \A x, y : [f EXCEPT !.rev = x, !.due = y].at = f.at
         /\ \A x, y : [f EXCEPT !.rev = x, !.then = y].at = f.at
         /\ \A x : [f EXCEPT !.rev = x].at = f.at /\ [f EXCEPT !.due = x].at = f.at
                   /\ [f EXCEPT !.outcome = x].at = f.at
BY DEF Frame

LEMMA OwningOne ==
  ASSUME TypeOK, NEW p \in Procs, Owning(p) \/ Planning(p)
  PROVE  OneStep(p)
<1> USE GotoOne, FinishOne DEF At
<1>0. frame[p] \in Frame
  BY DEF TypeOK
<1>1. CASE Save(p)
  <2>1. PICK t \in AlertTimes : Start(p, "saveSchedule", [Idle EXCEPT !.alert = t, !.due = t])
    BY <1>1 DEF Save
  <2>2. [Idle EXCEPT !.alert = t, !.due = t] \in Frame
    BY IdleType, Constants DEF Frame
  <2> QED BY <1>1, <2>1, <2>2, StartOne DEF Save
<1>2. CASE MoveAway(p) \/ Clear(p)
  BY <1>2 DEF MoveAway, Clear, OneStep
<1>3. CASE Disable(p) \/ Register(p)
  BY <1>3, StartOne, IdleType DEF Disable, Register
<1>4. CASE SaveSchedule(p) \/ SupersedeIntents(p) \/ SaveIntent(p) \/ ListInstallations(p)
  BY <1>4 DEF SaveSchedule, SupersedeIntents, SaveIntent, ListInstallations
<1>5. CASE FindJob(p) \/ InsertJob(p) \/ ReplaceJob(p)
  BY <1>5 DEF FindJob, InsertJob, ReplaceJob
<1>6. CASE DisableInstallation(p) \/ OptOut(p) \/ SuppressJobs(p)
  BY <1>6 DEF DisableInstallation, OptOut, SuppressJobs
<1>7. CASE OfferOptIn(p) \/ CheckOptIn(p) \/ EnableInstallation(p) \/ RegisterOptIn(p)
  BY <1>7 DEF OfferOptIn, CheckOptIn, EnableInstallation, RegisterOptIn
<1>8. CASE ListIntents(p)
  <2>1. pc[p] # "idle" /\ now' = now
    BY <1>8 DEF ListIntents
  <2>2. ASSUME NEW t \in AlertTimes,
               Goto(p, "findJob", [frame[p] EXCEPT !.alert = t, !.due = t])
        PROVE  OneStep(p)
    <3>1. [frame[p] EXCEPT !.alert = t, !.due = t].at = frame[p].at
      BY <1>0, FrameKept
    <3> QED BY <2>1, <2>2, <3>1
  <2> QED BY <1>8, <2>1, <2>2 DEF ListIntents, FreshIntents
<1> QED BY <1>1, <1>2, <1>3, <1>4, <1>5, <1>6, <1>7, <1>8 DEF Owning, Planning

LEMMA ConsumingOne ==
  ASSUME TypeOK, NEW p \in Procs, Consuming(p)
  PROVE  OneStep(p)
<1>0. frame[p] \in Frame
  BY DEF TypeOK
<1>1. CASE Receive(p)
  <2>1. PICK m \in queue : Start(p, "validate", [Idle EXCEPT !.msg = m, !.rev = m.revision])
    BY <1>1 DEF Receive
  <2>2. [Idle EXCEPT !.msg = m, !.rev = m.revision] \in Frame
    BY IdleType DEF TypeOK, Message, Frame
  <2> QED BY <1>1, <2>1, <2>2, StartOne DEF Receive
<1> USE GotoOne, FinishOne DEF At
<1>2. CASE Validate(p) \/ InspectJob(p)
  BY <1>2 DEF Validate, InspectJob
<1>3. CASE ClaimJob(p)
  <2>1. [frame[p] EXCEPT !.alert = job.intendedAt, !.round = job.round].at = frame[p].at
    BY <1>0, FrameKept
  <2> QED BY <1>3, <2>1 DEF ClaimJob
<1>4. CASE LoadContext(p)
  <2>1. [frame[p] EXCEPT !.outcome = SuppressionReason(frame[p])].at = frame[p].at
    BY <1>0, FrameKept
  <2> QED BY <1>4, <2>1 DEF LoadContext
<1>5. CASE Push(p)
  <2>1. PICK label \in {"accept", "retry", "disable"} : Goto(p, label, frame[p])
    BY <1>5, ReminderAssumption DEF Push
  <2> QED BY <1>5, <2>1 DEF Push
<1>6. CASE SuppressDelivery(p) \/ AcceptDelivery(p) \/ CloseTerminal(p)
  BY <1>6 DEF SuppressDelivery, AcceptDelivery, CloseTerminal, WriteJob
<1>7. CASE ScheduleRetry(p)
  <2>1. [frame[p] EXCEPT !.rev = None, !.due = RetryTime(frame[p].alert, frame[p].at)].at
          = frame[p].at
    BY <1>0, FrameKept
  <2> QED BY <1>7, <2>1 DEF ScheduleRetry, WriteJob
<1>8. CASE JobGone(p) \/ Acknowledge(p)
  BY <1>8 DEF JobGone, Acknowledge
<1> QED BY <1>1, <1>2, <1>3, <1>4, <1>5, <1>6, <1>7, <1>8 DEF Consuming

LEMMA PublishingOne ==
  ASSUME TypeOK, NEW p \in Procs, Arming(p) \/ Recovering(p)
  PROVE  OneStep(p)
<1>0. frame[p] \in Frame
  BY DEF TypeOK
<1> USE GotoOne, FinishOne DEF At
<1>1. CASE CreateRow(p) \/ ReadForPublish(p) \/ Send(p)
  BY <1>1 DEF CreateRow, ReadForPublish, Send
<1>2. CASE ReviseRow(p)
  <2>1. [frame[p] EXCEPT !.rev = row.revision + 1].at = frame[p].at
    BY <1>0, FrameKept
  <2> QED BY <1>2, <2>1 DEF ReviseRow
<1>3. CASE MarkPublished(p) \/ RecordPublishFailure(p)
  BY <1>3 DEF MarkPublished, RecordPublishFailure
<1>4. CASE ReloadForRearm(p)
  <2>1. [frame[p] EXCEPT !.rev = RearmFence(frame[p]),
                         !.due = WakeupTime(job, frame[p].at)].at = frame[p].at
    BY <1>0, FrameKept
  <2> QED BY <1>4, <2>1 DEF ReloadForRearm
<1>5. CASE StartPass(p)
  BY <1>5, StartOne, IdleType DEF StartPass
<1>6. CASE ListDue(p)
  <2>1. [frame[p] EXCEPT !.rev = row.revision, !.then = "listOverdue"].at = frame[p].at
    BY <1>0, FrameKept
  <2> QED BY <1>6, <2>1 DEF ListDue
<1>7. CASE LoadTarget(p)
  <2>1. [frame[p] EXCEPT !.due = WakeupTime(job, frame[p].at)].at = frame[p].at
    BY <1>0, FrameKept
  <2> QED BY <1>7, <2>1 DEF LoadTarget
<1>8. CASE Abandon(p) \/ CloseStale(p)
  BY <1>8 DEF Abandon, CloseStale
<1>9. CASE ListOverdueJobs(p)
  <2>1. [frame[p] EXCEPT !.alert = job.intendedAt, !.then = "listPointers"].at = frame[p].at
    BY <1>0, FrameKept
  <2> QED BY <1>9, <2>1 DEF ListOverdueJobs
<1>10. CASE ListOverduePointers(p)
  <2>1. [frame[p] EXCEPT !.rev = row.revision].at = frame[p].at
    BY <1>0, FrameKept
  <2> QED BY <1>10, <2>1 DEF ListOverduePointers
<1>11. CASE FindRow(p) \/ LoadPointerJob(p)
  <2>1. \A x : [frame[p] EXCEPT !.rev = x].at = frame[p].at
    BY <1>0, FrameKept
  <2>2. ASSUME NEW alert, NEW rev, RecoverJobWakeup(p, alert, rev), pc[p] # "idle", now' = now
        PROVE  OneStep(p)
    BY <2>1, <2>2 DEF RecoverJobWakeup
  <2> QED BY <1>11, <2>2 DEF FindRow, LoadPointerJob
<1> QED BY <1>1, <1>2, <1>3, <1>4, <1>5, <1>6, <1>7, <1>8, <1>9, <1>10, <1>11 DEF Arming, Recovering

LEMMA EachOneStep ==
  ASSUME TypeOK, NEW p \in Procs, Owning(p) \/ Works(p) \/ Crash(p)
  PROVE  OneStep(p)
<1>1. CASE Crash(p)
  BY <1>1, GotoOne DEF Crash
<1> QED BY <1>1, OwningOne, ConsumingOne, PublishingOne DEF Works

\* No invocation outlives MaxRun.
RunsInTime ==
  \A p \in Procs : pc[p] # "idle" => frame[p].at <= now /\ now <= frame[p].at + MaxRun

LEMMA NextRunsInTime == TypeOK /\ TypeOK' /\ RunsInTime /\ [Next]_vars => RunsInTime'
<1> SUFFICES ASSUME TypeOK, TypeOK', RunsInTime, [Next]_vars PROVE RunsInTime'
  OBVIOUS
<1>0. now \in Nat /\ MaxRun \in Nat /\ \A q \in Procs : frame[q].at \in Nat
  BY ReminderAssumption DEF TypeOK, Frame
<1>1. ASSUME NEW p \in Procs, Owning(p) \/ Works(p) \/ Crash(p)  PROVE RunsInTime'
  <2>1. OneStep(p)
    BY <1>1, EachOneStep
  <2> QED BY <1>0, <2>1 DEF OneStep, RunsInTime
<1>2. CASE Tick
  BY <1>0, <1>2 DEF Tick, RunsInTime
<1>3. CASE LoseMessage \/ SkipPass \/ Stop \/ UNCHANGED vars
  BY <1>3 DEF LoseMessage, SkipPass, Stop, vars, RunsInTime
<1> QED BY <1>1, <1>2, <1>3 DEF Next

-----------------------------------------------------------------------------
(* One dispatcher of a planning.  A claim is exclusive while its process   *)
(* may run: the row says running under the process's own `at`, whose lease *)
(* outlives the process, or a later write has settled or replaced it.      *)

\* A dispatch writes the job by id alone, so a failed push may put a later
\* planning, which another callback dispatches, back to be claimed at once.
\* That is left out: no push fails for the time being, or no invocation lasts.
RetriesApart == "failed" \notin PushOutcomes \/ MaxRun = 0

\* Dispatching, of any process: only a callback gets here, but no step needs it.
Dispatches(p) ==
  \/ pc[p] \in {"context", "push", "suppress", "accept", "retry", "closeJob"}
  \/ p \in Workers /\ pc[p] \in {"disable", "optOut", "suppressJobs"}

Closed == job = None /\ schedule.state = "cleared"

\* No other process may claim the job while one that began at `at` runs.
Taken(at) ==
  \/ job.status = "running" /\ job.updatedAt = at
  \/ Finished(job)
  \/ job.status = "failed" /\ at + MaxRun < job.nextAttemptAt

Answered(p) ==
  \/ Closed
  \/ job # None /\ frame[p].round < job.round
  \/ job # None /\ frame[p].round = job.round /\ Taken(frame[p].at)

AllAnswered == \A p \in Procs : Dispatches(p) => Answered(p)

OneEach ==
  \A p, q \in Procs :
    Dispatches(p) /\ Dispatches(q) /\ frame[p].round = frame[q].round => p = q

RetryKnown ==
  \A p \in Procs : At(p, "retry") =>
    "failed" \in PushOutcomes /\ frame[p].at < FreshUntil(frame[p].alert)

DInv == TypeOK /\ Window /\ RunsInTime /\ RetryKnown /\ AllAnswered /\ OneEach

\* What a step of p does to the job of a planning: nothing, or one of these.
Claims(p) ==
  /\ At(p, "claim") /\ job # None /\ ClaimAllowed(job, frame[p].at)
  /\ job' = Claimed(job, frame[p].at)
  /\ Goto(p, "context", [frame[p] EXCEPT !.alert = job.intendedAt, !.round = job.round])
  /\ pushed' = pushed

JobStep(p) ==
  \/ job' = job /\ (schedule.state = "cleared" => schedule'.state = "cleared")
  \/ job' = None /\ schedule'.state = "cleared"
  \/ job = None /\ schedule.state # "cleared"
  \/ job # None /\ job' # None /\ job'.round = job.round + 1
  \/ job # None /\ job' # None /\ job'.round = job.round /\ Finished(job')
  \/ At(p, "retry") /\ job # None /\ job' = RetryScheduled(job, frame[p].alert, frame[p].at)
  \/ Claims(p)

\* How p comes to dispatch, and to push and to retry.
DispatchStep(p) ==
  /\ Dispatches(p)' =>
       Claims(p) \/ (Dispatches(p) /\ frame'[p].round = frame[p].round)
  /\ pc'[p] \in {"context", "push"} =>
       Claims(p) \/ (pc[p] = "context" /\ frame'[p].round = frame[p].round /\ pushed' = pushed)
  /\ pc'[p] = "retry" => Push(p) /\ frame'[p] = frame[p] /\ "failed" \in PushOutcomes

DispatchLabels ==
  {"context", "push", "suppress", "accept", "retry", "disable", "optOut", "suppressJobs",
   "closeJob"}

LEMMA GotoLeaves ==
  ASSUME TypeOK, NEW p \in Procs, NEW label, NEW f, Goto(p, label, f),
         label \notin DispatchLabels
  PROVE  DispatchStep(p)
BY DEF TypeOK, Goto, DispatchStep, DispatchLabels, Dispatches

LEMMA StartLeaves ==
  ASSUME TypeOK, NEW p \in Procs, NEW label, NEW f, Start(p, label, f),
         label \notin DispatchLabels
  PROVE  DispatchStep(p)
BY GotoLeaves DEF Start

LEMMA FinishLeaves ==
  ASSUME TypeOK, NEW p \in Procs, Finish(p)
  PROVE  DispatchStep(p)
<1>1. frame[p].then \in {"idle", "listOverdue", "listPointers"}
  BY DEF TypeOK, Frame
<1> QED BY <1>1, GotoLeaves DEF Finish, DispatchLabels

LEMMA OwningDispatch ==
  ASSUME TypeOK, NEW p \in Procs, Owning(p) \/ Planning(p)
  PROVE  DispatchStep(p)
<1> USE GotoLeaves, StartLeaves, FinishLeaves DEF DispatchLabels
<1>1. CASE Save(p)
  <2>1. PICK t \in AlertTimes : Start(p, "saveSchedule", [Idle EXCEPT !.alert = t, !.due = t])
    BY <1>1 DEF Save
  <2> QED BY <2>1
<1>2. CASE MoveAway(p) \/ Clear(p)
  BY <1>2, ReminderAssumption DEF MoveAway, Clear, DispatchStep, Dispatches, Mutates
<1>3. CASE Disable(p)
  <2>1. p \notin Workers
    BY <1>3, ReminderAssumption DEF Disable, Mutates
  <2>2. pc'[p] = "disable"
    BY <1>3 DEF Disable, Start, Goto, TypeOK
  <2> QED BY <2>1, <2>2 DEF DispatchStep, Dispatches
<1>4. CASE Register(p)
  BY <1>4 DEF Register
<1>5. CASE SaveSchedule(p) \/ SupersedeIntents(p) \/ SaveIntent(p) \/ ListInstallations(p)
  BY <1>5 DEF SaveSchedule, SupersedeIntents, SaveIntent, ListInstallations
<1>6. CASE FindJob(p) \/ InsertJob(p) \/ ReplaceJob(p)
  BY <1>6 DEF FindJob, InsertJob, ReplaceJob
<1>7. CASE DisableInstallation(p) \/ OptOut(p)
  <2>1. /\ pc[p] \in {"disable", "optOut"} /\ pc'[p] \in {"optOut", "suppressJobs"}
        /\ frame'[p] = frame[p]
    BY <1>7 DEF DisableInstallation, OptOut, Goto, TypeOK, At
  <2> QED BY <2>1 DEF DispatchStep, Dispatches
<1>8. CASE SuppressJobs(p)
  <2>1. CASE p \in Workers
    <3>1. pc[p] = "suppressJobs" /\ pc'[p] = "closeJob" /\ frame'[p] = frame[p]
      BY <1>8, <2>1 DEF SuppressJobs, Goto, TypeOK, At
    <3> QED BY <2>1, <3>1 DEF DispatchStep, Dispatches
  <2> QED BY <1>8, <2>1 DEF SuppressJobs
<1>9. CASE OfferOptIn(p) \/ CheckOptIn(p) \/ EnableInstallation(p) \/ RegisterOptIn(p)
  BY <1>9 DEF OfferOptIn, CheckOptIn, EnableInstallation, RegisterOptIn
<1>10. CASE ListIntents(p)
  <2>1. ASSUME NEW t \in AlertTimes,
               Goto(p, "findJob", [frame[p] EXCEPT !.alert = t, !.due = t])
        PROVE  DispatchStep(p)
    BY <2>1
  <2> QED BY <1>10, <2>1 DEF ListIntents, FreshIntents
<1> QED BY <1>1, <1>2, <1>3, <1>4, <1>5, <1>6, <1>7, <1>8, <1>9, <1>10 DEF Owning, Planning

LEMMA ConsumingDispatch ==
  ASSUME TypeOK, NEW p \in Procs, Consuming(p)
  PROVE  DispatchStep(p)
<1> USE GotoLeaves, StartLeaves, FinishLeaves DEF DispatchLabels
<1>0. frame[p] \in Frame /\ frame \in [Procs -> Frame] /\ pc \in [Procs -> Labels]
  BY DEF TypeOK
<1>1. CASE Receive(p)
  <2>1. PICK m \in queue : Start(p, "validate", [Idle EXCEPT !.msg = m, !.rev = m.revision])
    BY <1>1 DEF Receive
  <2> QED BY <2>1
<1>2. CASE Validate(p) \/ InspectJob(p)
  BY <1>2 DEF Validate, InspectJob
<1>3. CASE ClaimJob(p)
  <2>1. CASE job # None /\ ClaimAllowed(job, frame[p].at)
    <3>1. Claims(p)
      BY <1>3, <2>1 DEF ClaimJob, Claims
    <3>2. pc'[p] = "context"
      BY <1>0, <3>1 DEF Claims, Goto
    <3> QED BY <3>1, <3>2 DEF DispatchStep
  <2> QED BY <1>3, <2>1 DEF ClaimJob
<1>4. CASE LoadContext(p)
  <2> DEFINE reason == SuppressionReason(frame[p])
             f == [frame[p] EXCEPT !.outcome = reason]
             label == IF reason = "none" THEN "push" ELSE "suppress"
  <2>1. pc[p] = "context" /\ Goto(p, label, f) /\ pushed' = pushed
    BY <1>4 DEF LoadContext, At
  <2>2. label \in {"push", "suppress"} /\ f.round = frame[p].round
    BY <1>0 DEF Frame
  <2> HIDE DEF label, f
  <2>3. pc'[p] = label /\ frame'[p].round = frame[p].round
    BY <1>0, <2>1, <2>2 DEF Goto
  <2> QED BY <2>1, <2>2, <2>3 DEF DispatchStep, Dispatches
<1>5. CASE Push(p)
  <2>1. PICK answer \in PushOutcomes :
           Goto(p, CASE answer = "accepted" -> "accept"
                     [] answer = "failed"   -> "retry"
                     [] answer = "terminal" -> "disable", frame[p])
    BY <1>5 DEF Push
  <2>2. /\ pc'[p] \in {"accept", "retry", "disable"} /\ frame'[p] = frame[p]
        /\ pc'[p] = "retry" => "failed" \in PushOutcomes
    BY <1>0, <2>1, ReminderAssumption DEF Goto
  <2>3. pc[p] = "push"
    BY <1>5 DEF Push, At
  <2> QED BY <1>5, <2>2, <2>3 DEF DispatchStep, Dispatches
<1>6. CASE SuppressDelivery(p) \/ AcceptDelivery(p) \/ CloseTerminal(p) \/ ScheduleRetry(p)
  BY <1>6 DEF SuppressDelivery, AcceptDelivery, CloseTerminal, ScheduleRetry
<1>7. CASE JobGone(p) \/ Acknowledge(p)
  BY <1>7 DEF JobGone, Acknowledge
<1> QED BY <1>1, <1>2, <1>3, <1>4, <1>5, <1>6, <1>7 DEF Consuming

LEMMA PublishingDispatch ==
  ASSUME TypeOK, NEW p \in Procs, Arming(p) \/ Recovering(p)
  PROVE  DispatchStep(p)
<1> USE GotoLeaves, StartLeaves, FinishLeaves DEF DispatchLabels
<1>1. CASE CreateRow(p) \/ ReviseRow(p) \/ ReadForPublish(p)
  BY <1>1 DEF CreateRow, ReviseRow, ReadForPublish
<1>2. CASE Send(p)
  BY <1>2 DEF Send
<1>3. CASE MarkPublished(p) \/ RecordPublishFailure(p) \/ ReloadForRearm(p)
  BY <1>3 DEF MarkPublished, RecordPublishFailure, ReloadForRearm
<1>4. CASE StartPass(p) \/ ListDue(p) \/ LoadTarget(p)
  BY <1>4 DEF StartPass, ListDue, LoadTarget
<1>5. CASE Abandon(p) \/ CloseStale(p) \/ ListOverdueJobs(p) \/ ListOverduePointers(p)
  BY <1>5 DEF Abandon, CloseStale, ListOverdueJobs, ListOverduePointers
<1>6. CASE FindRow(p) \/ LoadPointerJob(p)
  BY <1>6 DEF FindRow, LoadPointerJob, RecoverJobWakeup
<1> QED BY <1>1, <1>2, <1>3, <1>4, <1>5, <1>6 DEF Arming, Recovering

LEMMA EachDispatchStep ==
  ASSUME TypeOK, NEW p \in Procs, Owning(p) \/ Works(p) \/ Crash(p)
  PROVE  DispatchStep(p)
<1>1. CASE Crash(p)
  BY <1>1, GotoLeaves DEF Crash, DispatchLabels
<1> QED BY <1>1, OwningDispatch, ConsumingDispatch, PublishingDispatch DEF Works

\* A write that settles the job keeps its planning.
LEMMA SettledJob ==
  ASSUME TypeOK, NEW p \in Procs, job # None, NEW status \in {"completed", "skipped"},
         NEW outcome \in Outcome, job' = Settled(job, status, outcome, frame[p].at)
  PROVE  JobStep(p)
<1>1. job \in Job /\ frame[p].at \in Nat /\ status \in JobStatus
  BY DEF TypeOK, Frame, JobStatus
<1>2. job' \in Job
  BY <1>1, JobUpdates DEF Job
<1>3. job'.status = status /\ job'.round = job.round
  BY <1>1 DEF Settled, Job
<1> QED BY <1>2, <1>3, ReminderAssumption DEF JobStep, Finished

LEMMA OwningJob ==
  ASSUME TypeOK, NEW p \in Procs, Owning(p) \/ Planning(p)
  PROVE  JobStep(p)
<1>0. job # None => job \in Job /\ job.round \in Nat
  BY DEF TypeOK, Job
<1>1. CASE Save(p) \/ Disable(p) \/ Register(p)
  BY <1>1 DEF Save, Disable, Register, alertVars, JobStep
<1>2. CASE MoveAway(p)
  BY <1>2 DEF MoveAway, JobStep
<1>3. CASE Clear(p)
  <2>1. schedule'.state = "cleared" /\ job' = None
    BY <1>3 DEF Clear, TypeOK
  <2> QED BY <2>1 DEF JobStep
<1>4. CASE SaveSchedule(p)
  BY <1>4 DEF SaveSchedule, JobStep
<1>5. CASE SupersedeIntents(p) \/ SaveIntent(p) \/ ListInstallations(p) \/ FindJob(p)
  BY <1>5 DEF SupersedeIntents, SaveIntent, ListInstallations, FindJob, alertVars, JobStep
<1>6. CASE InsertJob(p)
  BY <1>6 DEF InsertJob, alertVars, JobStep
<1>7. CASE ReplaceJob(p)
  <2>1. CASE job # None
    <3>0. frame[p].alert \in Nat /\ frame[p].at \in Nat /\ job \in Job /\ job.round + 1 \in Nat
      BY <1>0, <2>1 DEF TypeOK, Frame
    <3>1. /\ PlannedJob(frame[p].alert, frame[p].at, job.round + 1) \in Job
          /\ PlannedJob(frame[p].alert, frame[p].at, job.round + 1).round = job.round + 1
      BY <3>0, JobUpdates DEF PlannedJob
    <3> QED BY <1>7, <2>1, <3>1, ReminderAssumption DEF ReplaceJob, JobStep
  <2> QED BY <1>7, <2>1 DEF ReplaceJob, alertVars, JobStep
<1>8. CASE DisableInstallation(p) \/ OptOut(p)
  BY <1>8 DEF DisableInstallation, OptOut, JobStep
<1>9. CASE SuppressJobs(p)
  <2>1. CASE job # None /\ Suppressible(job)
    <3>1. job' = Settled(job, "skipped", "suppressed_revoked", frame[p].at)
      BY <1>9, <2>1 DEF SuppressJobs
    <3> QED BY <1>0, <2>1, <3>1, SettledJob DEF Outcome
  <2> QED BY <1>9, <2>1 DEF SuppressJobs, alertVars, JobStep
<1>10. CASE OfferOptIn(p) \/ CheckOptIn(p) \/ EnableInstallation(p) \/ RegisterOptIn(p) \/ ListIntents(p)
  BY <1>10 DEF OfferOptIn, CheckOptIn, EnableInstallation, RegisterOptIn, ListIntents,
               alertVars, JobStep
<1> QED BY <1>1, <1>2, <1>3, <1>4, <1>5, <1>6, <1>7, <1>8, <1>9, <1>10 DEF Owning, Planning

LEMMA ConsumingJob ==
  ASSUME TypeOK, NEW p \in Procs, Consuming(p)
  PROVE  JobStep(p)
<1>0. frame[p].outcome \in Outcome
  BY DEF TypeOK, Frame
<1>1. CASE Receive(p) \/ Validate(p) \/ InspectJob(p)
  BY <1>1 DEF Receive, Validate, InspectJob, alertVars, JobStep
<1>2. CASE ClaimJob(p)
  BY <1>2 DEF ClaimJob, Claims, alertVars, JobStep
<1>3. CASE LoadContext(p) \/ Push(p) \/ JobGone(p) \/ Acknowledge(p)
  BY <1>3 DEF LoadContext, Push, JobGone, Acknowledge, alertVars, JobStep
<1>4. CASE SuppressDelivery(p)
  BY <1>0, <1>4, SettledJob DEF SuppressDelivery, WriteJob
<1>5. CASE AcceptDelivery(p)
  BY <1>5, SettledJob DEF AcceptDelivery, WriteJob, Outcome
<1>6. CASE CloseTerminal(p)
  BY <1>6, SettledJob DEF CloseTerminal, WriteJob, Outcome
<1>7. CASE ScheduleRetry(p)
  BY <1>7 DEF ScheduleRetry, WriteJob, JobStep
<1> QED BY <1>1, <1>2, <1>3, <1>4, <1>5, <1>6, <1>7 DEF Consuming

LEMMA PublishingJob ==
  ASSUME TypeOK, NEW p \in Procs, Arming(p) \/ Recovering(p)
  PROVE  JobStep(p)
<1>1. CASE Arming(p)
  BY <1>1 DEF Arming, CreateRow, ReviseRow, ReadForPublish, Send, MarkPublished,
              RecordPublishFailure, ReloadForRearm, alertVars, JobStep
<1>2. CASE StartPass(p) \/ ListDue(p) \/ LoadTarget(p) \/ Abandon(p)
  BY <1>2 DEF StartPass, ListDue, LoadTarget, Abandon, alertVars, JobStep
<1>3. CASE ListOverdueJobs(p) \/ FindRow(p) \/ ListOverduePointers(p) \/ LoadPointerJob(p)
  BY <1>3 DEF ListOverdueJobs, FindRow, ListOverduePointers, LoadPointerJob, alertVars, JobStep
<1>4. CASE CloseStale(p)
  <2>1. CASE job # None /\ StaleJob(job, frame[p].at)
    <3>1. job' = Settled(job, "skipped", "suppressed_stale", frame[p].at)
      BY <1>4, <2>1 DEF CloseStale
    <3> QED BY <2>1, <3>1, SettledJob DEF Outcome
  <2> QED BY <1>4, <2>1 DEF CloseStale, alertVars, JobStep
<1> QED BY <1>1, <1>2, <1>3, <1>4 DEF Recovering

LEMMA EachJobStep ==
  ASSUME TypeOK, NEW p \in Procs, Owning(p) \/ Works(p) \/ Crash(p)
  PROVE  JobStep(p)
<1>1. CASE Crash(p)
  BY <1>1 DEF Crash, alertVars, JobStep
<1> QED BY <1>1, OwningJob, ConsumingJob, PublishingJob DEF Works

\* While a process runs that has taken the job, no claim of it succeeds.
LEMMA NoClaim ==
  ASSUME TypeOK, RunsInTime, job # None, NEW p \in Procs, NEW q \in Procs,
         pc[p] # "idle", pc[q] # "idle", Taken(frame[q].at)
  PROVE  ~ClaimAllowed(job, frame[p].at)
<1>0. /\ frame[p].at \in Nat /\ frame[q].at \in Nat /\ now \in Nat /\ job \in Job
      /\ MaxRun \in Nat /\ Lease \in Nat /\ MaxRun < Lease
  BY ReminderAssumption, Constants DEF TypeOK, Frame
<1>1. frame[p].at <= now /\ now <= frame[q].at + MaxRun
  BY DEF RunsInTime
<1>2. CASE job.status = "running" /\ job.updatedAt = frame[q].at
  BY <1>0, <1>1, <1>2 DEF ClaimAllowed, Claimable, Awaiting, LeaseExpired
<1>3. CASE Finished(job)
  BY <1>3 DEF Finished, ClaimAllowed, Claimable, Awaiting, LeaseExpired
<1>4. CASE job.status = "failed" /\ frame[q].at + MaxRun < job.nextAttemptAt
  <2>1. job.nextAttemptAt \in Nat
    BY <1>0 DEF Job
  <2>2. ~(job.nextAttemptAt <= frame[p].at)
    BY <1>0, <1>1, <1>4, <2>1
  <2> QED BY <1>4, <2>2 DEF ClaimAllowed, Claimable
<1> QED BY <1>2, <1>3, <1>4 DEF Taken

\* A retry is scheduled for later than the dispatch that schedules it began.
LEMMA RetryLater ==
  ASSUME NEW alert \in Nat, NEW at \in Nat, at < FreshUntil(alert)
  PROVE  at < RetryTime(alert, at)
BY ReminderJobAssumption DEF RetryTime, FreshUntil

\* What the job of a dispatch becomes is still its own, or not its business.
LEMMA StillAnswered ==
  ASSUME RetriesApart, DInv, NEW p \in Procs, OneStep(p), JobStep(p), TypeOK',
         NEW q \in Procs, Dispatches(q), q # p \/ ~At(p, "claim"),
         frame'[q].round = frame[q].round, frame'[q].at = frame[q].at
  PROVE  Answered(q)'
<1>0. /\ TypeOK /\ Answered(q) /\ pc[q] # "idle"
      /\ frame[q].round \in Nat /\ frame[q].at \in Nat /\ frame[p].at \in Nat
      /\ job # None => job \in Job /\ job.round \in Nat
      /\ job' # None => job'.round \in Nat
  BY DEF DInv, AllAnswered, Dispatches, TypeOK, Frame, Job
<1>1. CASE job' = job /\ (schedule.state = "cleared" => schedule'.state = "cleared")
  BY <1>0, <1>1 DEF Answered, Closed, Taken, Finished
<1>2. CASE job' = None /\ schedule'.state = "cleared"
  BY <1>2 DEF Answered, Closed
<1>3. CASE job = None /\ schedule.state # "cleared"
  BY <1>0, <1>3 DEF Answered, Closed
<1>4. CASE job # None /\ job' # None /\ job'.round = job.round + 1
  BY <1>0, <1>4 DEF Answered, Closed
<1>5. CASE job # None /\ job' # None /\ job'.round = job.round /\ Finished(job')
  BY <1>0, <1>5 DEF Answered, Closed, Taken, Finished
<1>6. CASE At(p, "retry") /\ job # None /\ job' = RetryScheduled(job, frame[p].alert, frame[p].at)
  <2>1. frame[p].alert \in Nat /\ frame[p].at < FreshUntil(frame[p].alert) /\ MaxRun = 0
    BY <1>0, <1>6 DEF DInv, RetryKnown, RetriesApart, TypeOK, Frame
  <2>2. frame[p].at < RetryTime(frame[p].alert, frame[p].at)
    BY <1>0, <2>1, RetryLater
  <2>3. frame[q].at = frame[p].at
    <3>1. pc[p] # "idle" /\ now \in Nat
      BY <1>0, <1>6 DEF At, TypeOK
    <3> QED BY <1>0, <2>1, <3>1 DEF DInv, RunsInTime
  <2>4. /\ job' \in Job /\ job'.round = job.round /\ job'.status = "failed"
        /\ job'.nextAttemptAt = RetryTime(frame[p].alert, frame[p].at)
    BY <1>0, <1>6, <2>1, JobUpdates DEF RetryScheduled, Settled, Job
  <2>5. job' # None
    BY <2>4, ReminderAssumption
  <2> QED BY <1>0, <1>6, <2>1, <2>2, <2>3, <2>4, <2>5 DEF Answered, Closed, Taken
<1>7. CASE Claims(p)
  <2>1. job' = Claimed(job, frame[p].at) /\ job # None /\ ClaimAllowed(job, frame[p].at)
        /\ pc[p] # "idle"
    BY <1>7 DEF Claims, At
  <2>2. ~Taken(frame[q].at)
    BY <1>0, <2>1, NoClaim DEF DInv
  <2>3. frame[q].round < job.round
    BY <1>0, <2>1, <2>2 DEF Answered, Closed
  <2>4. job' \in Job /\ job'.round = job.round
    BY <1>0, <2>1, JobUpdates DEF Claimed, Job
  <2> QED BY <1>0, <2>3, <2>4, ReminderAssumption DEF Answered
<1> QED BY <1>1, <1>2, <1>3, <1>4, <1>5, <1>6, <1>7 DEF JobStep

\* A step of a process leaves every dispatch answered and alone.
LEMMA DispatchKeeps ==
  ASSUME RetriesApart, DInv, NEW p \in Procs, OneStep(p), JobStep(p), DispatchStep(p), TypeOK'
  PROVE  RetryKnown' /\ AllAnswered' /\ OneEach'
<1>0. TypeOK /\ Window /\ RunsInTime /\ RetryKnown /\ AllAnswered /\ OneEach
  BY DEF DInv
<1>1. ASSUME NEW q \in Procs, Dispatches(q)', ~(q = p /\ Claims(p))
      PROVE  /\ Dispatches(q) /\ (q # p \/ ~At(p, "claim"))
             /\ frame'[q].round = frame[q].round /\ frame'[q].at = frame[q].at
  <2>1. CASE q = p
    <3>1. Dispatches(p) /\ frame'[p].round = frame[p].round
      BY <1>1, <2>1 DEF DispatchStep
    <3>2. pc[p] # "idle" /\ pc'[p] # "idle" /\ pc[p] # "claim"
      BY <1>1, <2>1, <3>1 DEF Dispatches
    <3> QED BY <2>1, <3>1, <3>2 DEF OneStep, At
  <2>2. CASE q # p
    BY <1>1, <2>2 DEF OneStep, Dispatches
  <2> QED BY <2>1, <2>2
<1>2. ASSUME Claims(p)
      PROVE  /\ frame'[p].round = job.round /\ frame'[p].at = frame[p].at
             /\ job' = Claimed(job, frame[p].at) /\ job' \in Job /\ job # None
             /\ pc[p] # "idle" /\ ClaimAllowed(job, frame[p].at)
  <2>1. /\ [frame[p] EXCEPT !.alert = job.intendedAt, !.round = job.round].round = job.round
        /\ [frame[p] EXCEPT !.alert = job.intendedAt, !.round = job.round].at = frame[p].at
    BY <1>0 DEF TypeOK, Frame
  <2>2. frame'[p].round = job.round /\ frame'[p].at = frame[p].at
    BY <1>0, <1>2, <2>1 DEF Claims, Goto, TypeOK
  <2>3. job' \in Job
    BY <1>0, <1>2, JobUpdates DEF Claims, TypeOK, Frame, Job
  <2> QED BY <1>2, <2>2, <2>3 DEF Claims, At
<1>3. RetryKnown'
  <2> SUFFICES ASSUME NEW q \in Procs, At(q, "retry")'
               PROVE  ("failed" \in PushOutcomes /\ frame[q].at < FreshUntil(frame[q].alert))'
    BY DEF RetryKnown
  <2>1. CASE q = p
    <3>1. Push(p) /\ frame'[p] = frame[p] /\ "failed" \in PushOutcomes
      BY <2>1 DEF DispatchStep, At
    <3>2. frame[p].at < FreshUntil(frame[p].alert)
      BY <1>0, <3>1 DEF Push, Window
    <3> QED BY <2>1, <3>1, <3>2 DEF FreshUntil
  <2>2. CASE q # p
    BY <1>0, <2>2 DEF OneStep, At, RetryKnown, FreshUntil
  <2> QED BY <2>1, <2>2
<1>4. AllAnswered'
  <2> SUFFICES ASSUME NEW q \in Procs, Dispatches(q)' PROVE Answered(q)'
    BY DEF AllAnswered
  <2>1. CASE q = p /\ Claims(p)
    <3>1. job'.round = job.round /\ job'.status = "running" /\ job'.updatedAt = frame[p].at
      BY <1>0, <1>2, <2>1 DEF Claimed, TypeOK, Job
    <3>2. job' # None
      BY <1>2, <2>1, ReminderAssumption
    <3> QED BY <1>2, <2>1, <3>1, <3>2 DEF Answered, Taken
  <2>2. CASE ~(q = p /\ Claims(p))
    BY <1>1, <2>2, StillAnswered
  <2> QED BY <2>1, <2>2
<1>5. ASSUME NEW q \in Procs, q # p, Dispatches(q), Claims(p) PROVE frame[q].round # job.round
  <2>1. pc[q] # "idle" /\ Answered(q)
    BY <1>0, <1>5 DEF AllAnswered, Dispatches
  <2>2. ~Taken(frame[q].at)
    BY <1>0, <1>2, <1>5, <2>1, NoClaim
  <2>3. job.round \in Nat /\ job # None
    BY <1>0, <1>2, <1>5 DEF TypeOK, Job
  <2> QED BY <2>1, <2>2, <2>3 DEF Answered, Closed
<1>6. OneEach'
  <2> SUFFICES ASSUME NEW q \in Procs, NEW r \in Procs, Dispatches(q)', Dispatches(r)',
                      frame'[q].round = frame'[r].round, q # r
               PROVE  FALSE
    BY DEF OneEach
  <2>1. CASE Claims(p) /\ q = p
    <3>1. Dispatches(r) /\ frame'[r].round = frame[r].round
      BY <1>1, <2>1
    <3> QED BY <1>2, <1>5, <2>1, <3>1
  <2>2. CASE Claims(p) /\ r = p
    <3>1. Dispatches(q) /\ frame'[q].round = frame[q].round
      BY <1>1, <2>2
    <3> QED BY <1>2, <1>5, <2>2, <3>1
  <2>3. CASE ~(Claims(p) /\ q = p) /\ ~(Claims(p) /\ r = p)
    <3>1. /\ Dispatches(q) /\ frame'[q].round = frame[q].round
          /\ Dispatches(r) /\ frame'[r].round = frame[r].round
      BY <1>1, <2>3
    <3> QED BY <1>0, <3>1 DEF OneEach
  <2> QED BY <2>1, <2>2, <2>3
<1> QED BY <1>3, <1>4, <1>6

LEMMA NextDInv == ASSUME RetriesApart PROVE DInv /\ TypeOK' /\ [Next]_vars => DInv'
<1> SUFFICES ASSUME DInv, TypeOK', [Next]_vars PROVE DInv'
  OBVIOUS
<1>0. TypeOK /\ Window /\ RunsInTime /\ RetryKnown /\ AllAnswered /\ OneEach
  BY DEF DInv
<1>1. Window' /\ RunsInTime'
  BY <1>0, NextWindow, NextRunsInTime
<1>2. ASSUME NEW p \in Procs, Owning(p) \/ Works(p) \/ Crash(p)
      PROVE  RetryKnown' /\ AllAnswered' /\ OneEach'
  BY <1>0, <1>2, EachOneStep, EachJobStep, EachDispatchStep, DispatchKeeps
<1>3. CASE LoseMessage \/ SkipPass \/ Tick \/ Stop \/ UNCHANGED vars
  <2>1. pc' = pc /\ frame' = frame /\ job' = job /\ schedule' = schedule
    BY <1>3 DEF LoseMessage, SkipPass, Tick, Stop, vars, alertVars
  <2>2. RetryKnown'
    BY <1>0, <2>1 DEF RetryKnown, At, FreshUntil
  <2>3. AllAnswered'
    BY <1>0, <2>1 DEF AllAnswered, Dispatches, Answered, Closed, Taken, Finished
  <2>4. OneEach'
    BY <1>0, <2>1 DEF OneEach, Dispatches
  <2> QED BY <1>1, <2>2, <2>3, <2>4 DEF DInv
<1> QED BY <1>1, <1>2, <1>3 DEF Next, DInv

LEMMA InitDInv == Init => DInv
<1> SUFFICES ASSUME Init PROVE DInv
  OBVIOUS
<1>1. \A p \in Procs : pc[p] = "idle"
  BY DEF Init
<1>2. TypeOK
  BY InitIInv DEF IInv
<1>3. Window /\ RunsInTime /\ RetryKnown /\ AllAnswered /\ OneEach
  BY <1>1 DEF Window, RunsInTime, RetryKnown, AllAnswered, OneEach, Dispatches, At
<1> QED BY <1>2, <1>3 DEF DInv

\* Two callbacks never dispatch one planning of a job at once, however deliveries
\* of its pointers overlap and whatever the owner does meanwhile: the claim, its
\* lease and the platform's end of an invocation exclude each other
\* (claimDeliveryJob), as long as no failed push writes its retry over a later
\* planning that is being dispatched.
THEOREM OneDispatcherAlways == ASSUME RetriesApart PROVE Spec => []OneDispatcher
<1>1. DInv => OneDispatcher
  BY DEF DInv, OneEach, OneDispatcher, Dispatching, Dispatches, Procs
<1> QED BY <1>1, InitDInv, NextDInv, TypeCorrect, PTL DEF Spec
-----------------------------------------------------------------------------
(* One push of a planning, while nothing fails.  What was pushed is spent:  *)
(* no claim gives its planning out again.                                  *)

Calm == faults = 0 /\ PushOutcomes = {"accepted"}

Spent(round) ==
  \/ Closed
  \/ job # None /\ round < job.round
  \/ /\ job # None /\ round = job.round
     /\ Finished(job) \/ \E p \in Procs : At(p, "accept") /\ frame[p].round = round

AboutToPush(p) == pc[p] \in {"context", "push"}

PushesSpent == Calm => \A x \in pushed : Spent(x[2])

PushesNew ==
  Calm => \A p \in Procs : AboutToPush(p) => \A x \in pushed : x[2] # frame[p].round

PInv == PushesSpent /\ PushesNew

\* What a step of p does to the pushes and to an accepted push not yet recorded.
PushStep(p) ==
  /\ faults' = 0 => faults = 0
  /\ \/ pushed' = pushed
     \/ /\ pc[p] = "push" /\ job' = job /\ schedule' = schedule /\ frame'[p] = frame[p]
        /\ pushed' = pushed \cup {<<frame[p].alert, frame[p].round>>}
        /\ PushOutcomes = {"accepted"} => pc'[p] = "accept"
  /\ At(p, "accept") /\ faults' = 0 =>
       \/ job = None /\ job' = job /\ schedule' = schedule
       \/ job # None /\ job' # None /\ Finished(job') /\ job'.round = job.round

LEMMA EachPushStep ==
  ASSUME TypeOK, NEW p \in Procs, Owning(p) \/ Works(p) \/ Crash(p)
  PROVE  PushStep(p)
<1>0. faults \in Nat /\ pc \in [Procs -> Labels] /\ frame \in [Procs -> Frame]
  BY DEF TypeOK
<1> USE DEF PushStep, At
<1>1. CASE Owning(p)
  BY <1>0, <1>1 DEF Owning, Save, MoveAway, Clear, Disable, Register, Start
<1>2. CASE Planning(p)
  BY <1>0, <1>2 DEF Planning, SaveSchedule, SupersedeIntents, SaveIntent, ListInstallations,
       FindJob, InsertJob, ReplaceJob, DisableInstallation, OptOut, SuppressJobs, OfferOptIn,
       CheckOptIn, EnableInstallation, RegisterOptIn, ListIntents
<1>3. CASE Arming(p)
  BY <1>0, <1>3 DEF Arming, CreateRow, ReviseRow, ReadForPublish, Send, MarkPublished,
       RecordPublishFailure, ReloadForRearm
<1>4. CASE Recovering(p)
  BY <1>0, <1>4 DEF Recovering, StartPass, ListDue, LoadTarget, Abandon, ListOverdueJobs, FindRow,
       ListOverduePointers, LoadPointerJob, CloseStale, Start
<1>5. CASE Receive(p) \/ Validate(p) \/ InspectJob(p) \/ ClaimJob(p) \/ LoadContext(p)
  BY <1>0, <1>5 DEF Receive, Validate, InspectJob, ClaimJob, LoadContext, Start
<1>6. CASE Push(p)
  <2>1. PICK answer \in PushOutcomes :
          /\ \/ pushed' = pushed \cup {<<frame[p].alert, frame[p].round>>}
             \/ pushed' = pushed
          /\ Goto(p, CASE answer = "accepted" -> "accept"
                       [] answer = "failed"   -> "retry"
                       [] answer = "terminal" -> "disable", frame[p])
    BY <1>6 DEF Push
  <2>2. frame'[p] = frame[p] /\ (PushOutcomes = {"accepted"} => pc'[p] = "accept")
    BY <1>0, <2>1 DEF Goto
  <2>3. pc[p] = "push" /\ job' = job /\ schedule' = schedule /\ faults' = faults
    BY <1>6 DEF Push, alertVars
  <2> QED BY <2>1, <2>2, <2>3
<1>7. CASE SuppressDelivery(p) \/ CloseTerminal(p) \/ ScheduleRetry(p) \/ Acknowledge(p)
  BY <1>7 DEF SuppressDelivery, CloseTerminal, ScheduleRetry, Acknowledge, WriteJob
<1>8. CASE AcceptDelivery(p)
  <2>1. job # None /\ job \in Job /\ frame[p].at \in Nat
    BY <1>8 DEF AcceptDelivery, WriteJob, TypeOK, Frame
  <2>2. job' = Settled(job, "completed", "accepted", frame[p].at) /\ job' \in Job
    <3>1. "completed" \in JobStatus /\ "accepted" \in Outcome /\ job.round \in Nat /\ job.intendedAt \in Nat
      BY <2>1 DEF JobStatus, Outcome, Job
    <3>2. Settled(job, "completed", "accepted", frame[p].at) \in Job
      BY <2>1, <3>1, JobUpdates
    <3> QED BY <1>8, <3>2 DEF AcceptDelivery, WriteJob
  <2>3. job'.status = "completed" /\ job'.round = job.round
    BY <2>1, <2>2 DEF Settled, Job
  <2>4. pushed' = pushed /\ faults' = faults
    BY <1>8 DEF AcceptDelivery, WriteJob
  <2> QED BY <2>1, <2>2, <2>3, <2>4, ReminderAssumption DEF Finished
<1>9. CASE JobGone(p)
  BY <1>9 DEF JobGone, alertVars
<1>10. CASE Crash(p)
  BY <1>0, <1>10 DEF Crash, Fault
<1> QED BY <1>1, <1>2, <1>3, <1>4, <1>5, <1>6, <1>7, <1>8, <1>9, <1>10 DEF Works, Consuming

\* A claim never gives out a planning that is spent.
LEMMA ClaimUnspent ==
  ASSUME DInv, NEW p \in Procs, Claims(p)
  PROVE  ~Spent(job.round)
<1>1. /\ TypeOK /\ job # None /\ job.round \in Nat /\ pc[p] # "idle"
      /\ ClaimAllowed(job, frame[p].at)
  BY DEF DInv, Claims, TypeOK, Job, At
<1>2. ~Finished(job)
  BY <1>1 DEF Finished, ClaimAllowed, Claimable, Awaiting, LeaseExpired
<1>3. ASSUME NEW q \in Procs, At(q, "accept"), frame[q].round = job.round  PROVE FALSE
  <2>1. pc[q] # "idle" /\ Answered(q)
    BY <1>3 DEF DInv, AllAnswered, Dispatches, At
  <2>2. Taken(frame[q].at)
    BY <1>1, <1>3, <2>1 DEF Answered, Closed
  <2> QED BY <1>1, <2>1, <2>2, NoClaim DEF DInv
<1> QED BY <1>1, <1>2, <1>3 DEF Spent, Closed

LEMMA StillSpent ==
  ASSUME DInv, Calm', NEW p \in Procs, OneStep(p), JobStep(p), PushStep(p), TypeOK',
         NEW round \in Nat, Spent(round)
  PROVE  Spent(round)'
<1>0. /\ job # None => job \in Job /\ job.round \in Nat
      /\ job' # None => job'.round \in Nat
      /\ faults = 0 /\ PushOutcomes = {"accepted"}
  BY DEF DInv, TypeOK, Job, Calm, PushStep
<1>1. CASE At(p, "accept")
  <2>1. CASE job = None /\ job' = job /\ schedule' = schedule
    BY <2>1 DEF Spent, Closed
  <2>2. CASE job # None /\ job' # None /\ Finished(job') /\ job'.round = job.round
    BY <2>2 DEF Spent, Closed
  <2> QED BY <1>1, <2>1, <2>2 DEF PushStep, Calm
<1>2. CASE ~At(p, "accept")
  <2>1. ASSUME NEW q \in Procs, At(q, "accept"), frame[q].round = round
        PROVE  At(q, "accept")' /\ frame'[q].round = round
    BY <1>2, <2>1 DEF OneStep, At
  <2>2. CASE job' = job /\ (schedule.state = "cleared" => schedule'.state = "cleared")
    BY <2>1, <2>2 DEF Spent, Closed, Finished
  <2>3. CASE job' = None /\ schedule'.state = "cleared"
    BY <2>3 DEF Spent, Closed
  <2>4. CASE job = None /\ schedule.state # "cleared"
    BY <2>4 DEF Spent, Closed
  <2>5. CASE job # None /\ job' # None /\ job'.round = job.round + 1
    BY <1>0, <2>5 DEF Spent, Closed
  <2>6. CASE job # None /\ job' # None /\ job'.round = job.round /\ Finished(job')
    BY <2>6 DEF Spent, Closed
  <2>7. CASE At(p, "retry")
    BY <1>0, <2>7 DEF DInv, RetryKnown
  <2>8. CASE Claims(p)
    <3>1. ~Spent(job.round) /\ job # None
      BY <2>8, ClaimUnspent DEF Claims
    <3>2. round < job.round
      BY <3>1 DEF Spent, Closed
    <3>3. job' \in Job /\ job'.round = job.round
      BY <1>0, <2>8, JobUpdates DEF Claims, Claimed, Job, DInv, TypeOK, Frame
    <3> QED BY <3>2, <3>3, ReminderAssumption DEF Spent
  <2> QED BY <2>2, <2>3, <2>4, <2>5, <2>6, <2>7, <2>8 DEF JobStep
<1> QED BY <1>1, <1>2

LEMMA PushKeeps ==
  ASSUME DInv, PInv, NEW p \in Procs, OneStep(p), JobStep(p), DispatchStep(p), PushStep(p), TypeOK'
  PROVE  PInv'
<1> SUFFICES ASSUME Calm' PROVE PInv'
  BY DEF PInv, PushesSpent, PushesNew
<1>0. Calm /\ TypeOK /\ pushed \subseteq Nat \X Nat
  BY DEF Calm, PushStep, DInv, TypeOK
<1>1. /\ \A x \in pushed : x[2] \in Nat /\ Spent(x[2])
      /\ \A q \in Procs : AboutToPush(q) => \A x \in pushed : x[2] # frame[q].round
  BY <1>0 DEF PInv, PushesSpent, PushesNew
<1>2. CASE pushed' = pushed
  <2>1. PushesSpent'
    BY <1>1, <1>2, StillSpent DEF PushesSpent
  <2>2. ASSUME NEW q \in Procs, AboutToPush(q)', NEW x \in pushed  PROVE x[2] # frame'[q].round
    <3>1. CASE q # p
      BY <1>1, <2>2, <3>1 DEF OneStep, AboutToPush
    <3>2. CASE q = p /\ Claims(p)
      <4>1. frame'[p].round = job.round
        BY <1>0, <3>2 DEF Claims, Goto, TypeOK, Frame
      <4> QED BY <1>1, <3>2, <4>1, ClaimUnspent
    <3>3. CASE q = p /\ pc[p] = "context" /\ frame'[p].round = frame[p].round
      BY <1>1, <3>3 DEF AboutToPush
    <3> QED BY <2>2, <3>1, <3>2, <3>3 DEF DispatchStep, AboutToPush
  <2>3. PushesNew'
    BY <1>2, <2>2 DEF PushesNew
  <2> QED BY <2>1, <2>3 DEF PInv
<1>3. CASE /\ pc[p] = "push" /\ job' = job /\ schedule' = schedule /\ frame'[p] = frame[p]
           /\ pushed' = pushed \cup {<<frame[p].alert, frame[p].round>>}
           /\ pc'[p] = "accept"
  <2>1. Answered(p)
    BY <1>3 DEF DInv, AllAnswered, Dispatches
  <2>2. Spent(frame[p].round)'
    BY <1>3, <2>1 DEF Answered, Closed, Spent, At
  <2>3. PushesSpent'
    BY <1>1, <1>3, <2>2, StillSpent DEF PushesSpent
  <2>4. ASSUME NEW q \in Procs, AboutToPush(q)', NEW x \in pushed'  PROVE x[2] # frame'[q].round
    <3>1. q # p /\ AboutToPush(q) /\ frame'[q] = frame[q]
      BY <1>3, <2>4 DEF OneStep, AboutToPush
    <3>2. frame[q].round # frame[p].round
      BY <1>3, <3>1 DEF DInv, OneEach, Dispatches, AboutToPush
    <3> QED BY <1>1, <1>3, <2>4, <3>1, <3>2
  <2>5. PushesNew'
    BY <2>4 DEF PushesNew
  <2> QED BY <2>3, <2>5 DEF PInv
<1> QED BY <1>0, <1>2, <1>3 DEF PushStep, Calm

LEMMA NextPInv == DInv /\ TypeOK' /\ PInv /\ [Next]_vars => PInv'
<1> SUFFICES ASSUME DInv, TypeOK', PInv, [Next]_vars PROVE PInv'
  OBVIOUS
<1>0. TypeOK /\ faults \in Nat
  BY DEF DInv, TypeOK
<1>1. ASSUME NEW p \in Procs, Owning(p) \/ Works(p) \/ Crash(p)  PROVE PInv'
  BY <1>0, <1>1, EachOneStep, EachJobStep, EachDispatchStep, EachPushStep, PushKeeps
<1>2. CASE LoseMessage \/ SkipPass \/ Tick \/ Stop \/ UNCHANGED vars
  <2>1. /\ pc' = pc /\ frame' = frame /\ job' = job /\ schedule' = schedule /\ pushed' = pushed
        /\ faults' = 0 => faults = 0
    BY <1>0, <1>2 DEF LoseMessage, SkipPass, Tick, Stop, Fault, vars, alertVars
  <2>2. PushesSpent'
    BY <2>1 DEF PInv, PushesSpent, Calm, Spent, Closed, Finished, At
  <2>3. PushesNew'
    BY <2>1 DEF PInv, PushesNew, Calm, AboutToPush
  <2> QED BY <2>2, <2>3 DEF PInv
<1> QED BY <1>1, <1>2 DEF Next

\* While no call fails and the push service accepts, one planning of an alert is
\* pushed at most once, whatever is redelivered, re-armed or recovered and however
\* the owner edits: a claim succeeds only on a row the previous push has not settled
\* and is not about to settle (claimDeliveryJob, updateDeliveryJob).
THEOREM PushedOnceAlways == Spec => []PushedOnce
<1>1. CASE PushOutcomes = {"accepted"}
  <2>1. RetriesApart
    BY <1>1 DEF RetriesApart
  <2>2. Init => PInv
    BY DEF Init, PInv, PushesSpent, PushesNew
  <2>3. DInv /\ PInv => PushedOnce
    <3> SUFFICES ASSUME DInv, PInv, Calm, NEW p \in Workers, At(p, "push")
                 PROVE  <<frame[p].alert, frame[p].round>> \notin pushed
      BY DEF PushedOnce, Calm
    <3>1. \A x \in pushed : x[2] # frame[p].round
      BY DEF PInv, PushesNew, AboutToPush, At, Procs
    <3> QED BY <3>1
  <2>4. Spec => []DInv
    BY <2>1, InitDInv, NextDInv, TypeCorrect, PTL DEF Spec
  <2> QED BY <2>2, <2>3, <2>4, NextPInv, TypeCorrect, PTL DEF Spec
<1>2. CASE PushOutcomes # {"accepted"}
  <2>1. PushedOnce
    BY <1>2 DEF PushedOnce
  <2> QED BY <2>1, PTL
<1> QED BY <1>1, <1>2
-----------------------------------------------------------------------------
(* One session of the owner: what a planning rests on.  With a single      *)
(* owner's process, what it has read of the schedule and of its job is     *)
(* still so when it writes, unless the job is no longer waiting.           *)

\* The owner's mutations come one after the other, and no endpoint is found to
\* be gone: a callback that revokes an installation does it beside the owner.
OneSession == (\A p, q \in Owners : p = q) /\ "terminal" \notin PushOutcomes

PlanLabels == {"saveIntent", "listInstallations", "findJob", "insertJob", "replaceJob"}

SessionLabels ==
  PlanLabels \cup {"saveSchedule", "supersede", "disable", "optOut", "suppressJobs",
                   "offer", "checkOptIn", "enable", "register", "listIntents"}

ArmLabels == {"create", "revise", "publish", "send", "mark", "markFailed"}

Role(p) ==
  IF p \in Owners
  THEN /\ pc[p] \in SessionLabels \cup ArmLabels \cup {"idle"}
       /\ frame[p].msg = None /\ frame[p].then = "idle"
  ELSE pc[p] \notin SessionLabels

Roles == \A p \in Procs : Role(p)

OwnerAt(labels) == \E p \in Owners : pc[p] \in labels

Pending == job # None /\ job.status = "pending"

\* What the owner's process is about to write is what the schedule shows, and
\* it plans for an installation that is enabled.
PlanAgrees ==
  \A p \in Owners :
    /\ pc[p] \in PlanLabels \cup {"saveSchedule"} => frame[p].alert \in AlertTimes
    /\ pc[p] \in PlanLabels => schedule.state = "here" /\ schedule.alert = frame[p].alert
    /\ pc[p] \in {"findJob", "insertJob", "replaceJob", "register", "listIntents"} => enabled
    /\ pc[p] = "insertJob" => job = None
    /\ pc[p] = "supersede" => schedule.alert <= now

OneActive ==
  \A t, u \in AlertTimes : intents[t] = "active" /\ intents[u] = "active" => t = u

ActiveIsScheduled ==
  \A t \in AlertTimes : intents[t] = "active" =>
    (schedule.state = "here" /\ schedule.alert = t) \/ OwnerAt({"supersede", "saveIntent"})

NonePendingDisabled == Pending /\ ~enabled => OwnerAt({"optOut", "suppressJobs"})

PendingIsScheduled ==
  Pending /\ schedule.state = "here" /\ schedule.alert > now =>
    job.intendedAt = schedule.alert
      \/ OwnerAt({"saveIntent", "listInstallations", "findJob", "replaceJob"})

Planned ==
  PlanAgrees /\ OneActive /\ ActiveIsScheduled /\ NonePendingDisabled /\ PendingIsScheduled

SInv == Roles /\ (faults = 0 => Planned)

\* Who may be where.
LEMMA GotoRole ==
  ASSUME TypeOK, NEW p \in Procs, NEW label, NEW f, Goto(p, label, f),
         IF p \in Owners
         THEN /\ label \in SessionLabels \cup ArmLabels \cup {"idle"}
              /\ f.msg = None /\ f.then = "idle"
         ELSE label \notin SessionLabels
  PROVE  Role(p)'
BY DEF TypeOK, Goto, Role

LEMMA FinishRole ==
  ASSUME TypeOK, NEW p \in Procs, Role(p), Finish(p)
  PROVE  Role(p)'
<1>1. frame[p].then \in {"idle", "listOverdue", "listPointers"} /\ Idle.msg = None /\ Idle.then = "idle"
  BY DEF TypeOK, Frame, Idle
<1>2. CASE p \in Owners
  <2>1. Goto(p, "idle", Idle)
    BY <1>2 DEF Role, Finish
  <2> QED BY <1>1, <1>2, <2>1, GotoRole
<1>3. CASE p \notin Owners
  <2>1. pc'[p] \in {"ack", "idle", "listOverdue", "listPointers"}
    BY <1>1 DEF Finish, Goto, TypeOK
  <2> QED BY <1>3, <2>1 DEF Role, SessionLabels, PlanLabels
<1> QED BY <1>2, <1>3

\* What an owner's process does, and what the others do.
LEMMA RoleSplit ==
  ASSUME NEW p \in Procs, Role(p), Owning(p) \/ Works(p)
  PROVE  \/ p \in Owners /\ (Owning(p) \/ Planning(p) \/ (Arming(p) /\ ~At(p, "reload")))
         \/ p \notin Owners /\ (Consuming(p) \/ Arming(p) \/ Recovering(p))
<1> USE DEF Role, SessionLabels, PlanLabels, ArmLabels, At
<1>1. CASE p \in Owners
  <2>1. p \notin Workers /\ p \notin Crons
    BY <1>1, ReminderAssumption
  <2>2. ~Consuming(p)
    BY <1>1, <2>1 DEF Consuming, Receive, Validate, InspectJob, ClaimJob, LoadContext, Push,
       SuppressDelivery, AcceptDelivery, CloseTerminal, ScheduleRetry, WriteJob, JobGone, Acknowledge
  <2>3. ~Recovering(p)
    BY <1>1, <2>1 DEF Recovering, StartPass, ListDue, LoadTarget, Abandon, ListOverdueJobs,
       FindRow, ListOverduePointers, LoadPointerJob, CloseStale
  <2> QED BY <1>1, <2>2, <2>3 DEF Works
<1>2. CASE p \notin Owners
  <2>1. ~Owning(p)
    BY <1>2 DEF Owning, Save, MoveAway, Clear, Disable, Register, Mutates
  <2>2. ~Planning(p)
    BY <1>2 DEF Planning, SaveSchedule, SupersedeIntents, SaveIntent, ListInstallations, FindJob,
       InsertJob, ReplaceJob, DisableInstallation, OptOut, SuppressJobs, OfferOptIn, CheckOptIn,
       EnableInstallation, RegisterOptIn, ListIntents
  <2> QED BY <1>2, <2>1, <2>2 DEF Works
<1> QED BY <1>1, <1>2

LEMMA OwnerRoles ==
  ASSUME TypeOK, NEW p \in Owners, Role(p), Owning(p) \/ Planning(p) \/ (Arming(p) /\ ~At(p, "reload"))
  PROVE  Role(p)'
<1>0. /\ p \in Procs /\ p \notin Workers
      /\ frame[p] \in Frame /\ frame \in [Procs -> Frame] /\ pc \in [Procs -> Labels]
      /\ frame[p].msg = None /\ frame[p].then = "idle" /\ Idle.msg = None /\ Idle.then = "idle"
  BY ReminderAssumption DEF TypeOK, Procs, Role, Idle
<1>1. ASSUME NEW label \in SessionLabels \cup ArmLabels \cup {"idle"}, NEW f,
             Goto(p, label, f), f.msg = frame[p].msg /\ f.then = frame[p].then
      PROVE  Role(p)'
  BY <1>0, <1>1, GotoRole
<1>2. ASSUME NEW label \in SessionLabels, NEW f \in Frame, Start(p, label, f),
             f.msg = None, f.then = "idle"
      PROVE  Role(p)'
  <2>1. [f EXCEPT !.at = now].msg = None /\ [f EXCEPT !.at = now].then = "idle"
    BY <1>2 DEF Frame
  <2> QED BY <1>0, <1>2, <2>1, GotoRole DEF Start
<1> USE <1>0, FinishRole DEF SessionLabels, PlanLabels, ArmLabels
<1>3. CASE Save(p)
  <2>1. PICK t \in AlertTimes : Start(p, "saveSchedule", [Idle EXCEPT !.alert = t, !.due = t])
    BY <1>3 DEF Save
  <2>2. /\ [Idle EXCEPT !.alert = t, !.due = t] \in Frame
        /\ [Idle EXCEPT !.alert = t, !.due = t].msg = None
        /\ [Idle EXCEPT !.alert = t, !.due = t].then = "idle"
    BY IdleType, Constants DEF Frame
  <2> QED BY <1>2, <2>1, <2>2
<1>4. CASE MoveAway(p) \/ Clear(p)
  BY <1>4 DEF MoveAway, Clear, Role
<1>5. CASE Disable(p) \/ Register(p)
  BY <1>2, <1>5, IdleType DEF Disable, Register
<1>6. CASE SaveSchedule(p) \/ SupersedeIntents(p) \/ SaveIntent(p) \/ ListInstallations(p)
  BY <1>1, <1>6 DEF SaveSchedule, SupersedeIntents, SaveIntent, ListInstallations
<1>7. CASE FindJob(p) \/ InsertJob(p) \/ ReplaceJob(p)
  BY <1>1, <1>7 DEF FindJob, InsertJob, ReplaceJob
<1>8. CASE DisableInstallation(p) \/ OptOut(p) \/ SuppressJobs(p)
  BY <1>1, <1>8 DEF DisableInstallation, OptOut, SuppressJobs
<1>9. CASE OfferOptIn(p) \/ CheckOptIn(p) \/ EnableInstallation(p) \/ RegisterOptIn(p)
  BY <1>1, <1>9 DEF OfferOptIn, CheckOptIn, EnableInstallation, RegisterOptIn
<1>10. CASE ListIntents(p)
  <2>1. \A t : /\ [frame[p] EXCEPT !.alert = t, !.due = t].msg = frame[p].msg
               /\ [frame[p] EXCEPT !.alert = t, !.due = t].then = frame[p].then
    BY DEF Frame
  <2> QED BY <1>1, <1>10, <2>1 DEF ListIntents
<1>11. CASE CreateRow(p) \/ ReadForPublish(p) \/ Send(p) \/ MarkPublished(p) \/ RecordPublishFailure(p)
  BY <1>1, <1>11 DEF CreateRow, ReadForPublish, Send, MarkPublished, RecordPublishFailure
<1>12. CASE ReviseRow(p)
  <2>1. /\ [frame[p] EXCEPT !.rev = row.revision + 1].msg = frame[p].msg
        /\ [frame[p] EXCEPT !.rev = row.revision + 1].then = frame[p].then
    BY DEF Frame
  <2> QED BY <1>1, <1>12, <2>1 DEF ReviseRow
<1>13. CASE ReloadForRearm(p) /\ ~At(p, "reload")
  BY <1>13 DEF ReloadForRearm
<1> QED BY <1>3, <1>4, <1>5, <1>6, <1>7, <1>8, <1>9, <1>10, <1>11, <1>12, <1>13
        DEF Owning, Planning, Arming

LEMMA OtherRoles ==
  ASSUME TypeOK, NEW p \in Procs, p \notin Owners, Role(p), "terminal" \notin PushOutcomes,
         Consuming(p) \/ Arming(p) \/ Recovering(p)
  PROVE  Role(p)'
<1>0. pc \in [Procs -> Labels] /\ pc[p] \notin SessionLabels
  BY DEF TypeOK, Role
<1>1. ASSUME NEW label, NEW f, Goto(p, label, f), label \notin SessionLabels
      PROVE  Role(p)'
  BY <1>1, GotoRole
<1> USE <1>0, FinishRole DEF SessionLabels, PlanLabels, At
<1>2. CASE Receive(p) \/ Validate(p) \/ InspectJob(p) \/ ClaimJob(p) \/ LoadContext(p)
  BY <1>1, <1>2 DEF Receive, Start, Validate, InspectJob, ClaimJob, LoadContext
<1>3. CASE Push(p)
  <2>1. PICK answer \in PushOutcomes :
           Goto(p, CASE answer = "accepted" -> "accept"
                     [] answer = "failed"   -> "retry"
                     [] answer = "terminal" -> "disable", frame[p])
    BY <1>3 DEF Push
  <2>2. answer \in {"accepted", "failed"}
    BY ReminderAssumption
  <2>3. Goto(p, "accept", frame[p]) \/ Goto(p, "retry", frame[p])
    BY <2>1, <2>2
  <2> QED BY <1>1, <2>3
<1>4. CASE SuppressDelivery(p) \/ AcceptDelivery(p) \/ CloseTerminal(p) \/ ScheduleRetry(p)
  BY <1>1, <1>4 DEF SuppressDelivery, AcceptDelivery, CloseTerminal, ScheduleRetry
<1>5. CASE JobGone(p) \/ Acknowledge(p)
  BY <1>1, <1>5 DEF JobGone, Acknowledge
<1>6. CASE Arming(p)
  BY <1>1, <1>6 DEF Arming, CreateRow, ReviseRow, ReadForPublish, Send, MarkPublished,
     RecordPublishFailure, ReloadForRearm
<1>7. CASE StartPass(p) \/ ListDue(p) \/ LoadTarget(p) \/ Abandon(p)
  BY <1>1, <1>7 DEF StartPass, Start, ListDue, LoadTarget, Abandon
<1>8. CASE ListOverdueJobs(p) \/ FindRow(p) \/ ListOverduePointers(p) \/ LoadPointerJob(p) \/ CloseStale(p)
  BY <1>1, <1>8 DEF ListOverdueJobs, FindRow, ListOverduePointers, LoadPointerJob, CloseStale,
     RecoverJobWakeup
<1> QED BY <1>2, <1>3, <1>4, <1>5, <1>6, <1>7, <1>8 DEF Consuming, Recovering

LEMMA NextRoles ==
  ASSUME "terminal" \notin PushOutcomes
  PROVE  TypeOK /\ Roles /\ [Next]_vars => Roles'
<1> SUFFICES ASSUME TypeOK, Roles, [Next]_vars PROVE Roles'
  OBVIOUS
<1>1. ASSUME NEW p \in Procs, Owning(p) \/ Works(p) \/ Crash(p)
      PROVE  Roles'
  <2>1. Role(p)'
    <3>1. CASE Crash(p)
      <4>1. Goto(p, "idle", Idle) /\ Idle.msg = None /\ Idle.then = "idle"
        BY <3>1 DEF Crash, Idle
      <4> QED BY <4>1, GotoRole DEF SessionLabels, PlanLabels
    <3> QED BY <1>1, <3>1, RoleSplit, OwnerRoles, OtherRoles DEF Roles
  <2>2. \A q \in Procs \ {p} : Role(q)'
    BY <1>1, EachOneStep DEF Roles, Role, OneStep
  <2> QED BY <2>1, <2>2 DEF Roles
<1>2. CASE LoseMessage \/ SkipPass \/ Tick \/ Stop \/ UNCHANGED vars
  BY <1>2 DEF LoseMessage, SkipPass, Tick, Stop, vars, Roles, Role
<1> QED BY <1>1, <1>2 DEF Next

LEMMA StatusWritten ==
  ASSUME NEW j \in Job
  PROVE  /\ \A at : Claimed(j, at).status = "running"
         /\ \A status, outcome, at : Settled(j, status, outcome, at).status = status
         /\ \A alert, at : RetryScheduled(j, alert, at).status = "failed"
BY DEF Job, Claimed, Settled, RetryScheduled

\* Nobody but the owner's process plans: the others leave a waiting job as it
\* is or take it out of waiting, and none of them inserts one.
LEMMA OtherKeeps ==
  ASSUME TypeOK, NEW p \in Procs, p \notin Owners, Role(p),
         Consuming(p) \/ Arming(p) \/ Recovering(p)
  PROVE  /\ UNCHANGED <<now, schedule, intents, enabled>> /\ (faults' = 0 => faults = 0)
         /\ (job = None => job' = None) /\ (Pending' => job' = job)
<1>0. (job # None => job \in Job) /\ faults \in Nat
  BY DEF TypeOK
<1>1. UNCHANGED <<now, schedule, intents, enabled>>
  BY DEF Consuming, Receive, Validate, InspectJob, ClaimJob, LoadContext, Push,
     SuppressDelivery, AcceptDelivery, CloseTerminal, ScheduleRetry, WriteJob, JobGone,
     Acknowledge, Arming, CreateRow, ReviseRow, ReadForPublish, Send, MarkPublished,
     RecordPublishFailure, ReloadForRearm, Recovering, StartPass, ListDue, LoadTarget, Abandon,
     ListOverdueJobs, FindRow, ListOverduePointers, LoadPointerJob, CloseStale, alertVars
<1>2. faults' = faults \/ faults' = faults + 1
  BY DEF Consuming, Receive, Validate, InspectJob, ClaimJob, LoadContext, Push,
     SuppressDelivery, AcceptDelivery, CloseTerminal, ScheduleRetry, WriteJob, JobGone,
     Acknowledge, Arming, CreateRow, ReviseRow, ReadForPublish, Send, MarkPublished,
     RecordPublishFailure, ReloadForRearm, Recovering, StartPass, ListDue, LoadTarget, Abandon,
     ListOverdueJobs, FindRow, ListOverduePointers, LoadPointerJob, CloseStale
<1>3. job' = job \/ (job # None /\ job'.status # "pending")
  <2>1. CASE ClaimJob(p)
    BY <1>0, <2>1, StatusWritten DEF ClaimJob
  <2>2. CASE SuppressDelivery(p) \/ AcceptDelivery(p) \/ CloseTerminal(p)
    BY <1>0, <2>2, StatusWritten DEF SuppressDelivery, AcceptDelivery, CloseTerminal, WriteJob
  <2>3. CASE ScheduleRetry(p)
    BY <1>0, <2>3, StatusWritten DEF ScheduleRetry, WriteJob
  <2>4. CASE CloseStale(p)
    BY <1>0, <2>4, StatusWritten DEF CloseStale
  <2>5. CASE Receive(p) \/ Validate(p) \/ InspectJob(p) \/ LoadContext(p) \/ Push(p)
             \/ JobGone(p) \/ Acknowledge(p) \/ Arming(p)
    BY <2>5 DEF Receive, Validate, InspectJob, LoadContext, Push, JobGone, Acknowledge,
       Arming, CreateRow, ReviseRow, ReadForPublish, Send, MarkPublished, RecordPublishFailure,
       ReloadForRearm
  <2>6. CASE StartPass(p) \/ ListDue(p) \/ LoadTarget(p) \/ Abandon(p) \/ ListOverdueJobs(p)
             \/ FindRow(p) \/ ListOverduePointers(p) \/ LoadPointerJob(p)
    BY <2>6 DEF StartPass, ListDue, LoadTarget, Abandon, ListOverdueJobs, FindRow,
       ListOverduePointers, LoadPointerJob
  <2> QED BY <2>1, <2>2, <2>3, <2>4, <2>5, <2>6 DEF Consuming, Recovering
<1>4. faults' = 0 => faults = 0
  BY <1>0, <1>2
<1> QED BY <1>1, <1>3, <1>4 DEF Pending

LEMMA OtherPlanned ==
  ASSUME TypeOK, Planned, UNCHANGED <<now, schedule, intents, enabled>>,
         \A q \in Owners : pc'[q] = pc[q] /\ frame'[q] = frame[q],
         job = None => job' = None, Pending' => job' = job
  PROVE  Planned'
<1>1. PlanAgrees'
  BY DEF Planned, PlanAgrees
<1>2. OneActive' /\ ActiveIsScheduled'
  BY DEF Planned, OneActive, ActiveIsScheduled, OwnerAt
<1>3. Pending' => Pending
  BY DEF Pending
<1>4. NonePendingDisabled' /\ PendingIsScheduled'
  BY <1>3 DEF Planned, NonePendingDisabled, PendingIsScheduled, OwnerAt
<1> QED BY <1>1, <1>2, <1>4 DEF Planned

\* The same facts, of the one owner's process.
PlannedBy(p) ==
  /\ pc[p] \in PlanLabels \cup {"saveSchedule"} => frame[p].alert \in AlertTimes
  /\ pc[p] \in PlanLabels => schedule.state = "here" /\ schedule.alert = frame[p].alert
  /\ pc[p] \in {"findJob", "insertJob", "replaceJob", "register", "listIntents"} => enabled
  /\ pc[p] = "insertJob" => job = None
  /\ pc[p] = "supersede" => schedule.alert <= now
  /\ OneActive
  /\ \A t \in AlertTimes : intents[t] = "active" =>
       (schedule.state = "here" /\ schedule.alert = t) \/ pc[p] \in {"supersede", "saveIntent"}
  /\ Pending /\ ~enabled => pc[p] \in {"optOut", "suppressJobs"}
  /\ Pending /\ schedule.state = "here" /\ schedule.alert > now =>
       job.intendedAt = schedule.alert
         \/ pc[p] \in {"saveIntent", "listInstallations", "findJob", "replaceJob"}

LEMMA OneOwner ==
  ASSUME OneSession, NEW p \in Owners
  PROVE  (Planned <=> PlannedBy(p)) /\ (Planned' <=> PlannedBy(p)')
<1>1. \A q \in Owners : q = p
  BY DEF OneSession
<1>2. Planned <=> PlannedBy(p)
  BY <1>1 DEF Planned, PlannedBy, PlanAgrees, ActiveIsScheduled, NonePendingDisabled,
     PendingIsScheduled, OwnerAt
<1>3. Planned' <=> PlannedBy(p)'
  BY <1>1 DEF Planned, PlannedBy, PlanAgrees, ActiveIsScheduled, NonePendingDisabled,
     PendingIsScheduled, OwnerAt
<1> QED BY <1>2, <1>3

\* A mutation begins, or is one statement.
LEMMA OwningPlanned ==
  ASSUME TypeOK, NEW p \in Owners, PlannedBy(p), Owning(p)
  PROVE  PlannedBy(p)'
<1>0. /\ p \in Procs /\ pc \in [Procs -> Labels] /\ frame \in [Procs -> Frame]
      /\ intents \in [AlertTimes -> {"none", "active", "superseded"}]
  BY DEF TypeOK, Procs
<1>1. CASE Save(p) \/ Disable(p) \/ Register(p)
  <2>1. pc[p] = "idle" /\ pc'[p] \in {"saveSchedule", "disable", "offer"}
    BY <1>0, <1>1 DEF Save, Disable, Register, Start, Goto
  <2>2. UNCHANGED <<now, alertVars, job>>
    BY <1>1 DEF Save, Disable, Register
  <2>3. pc'[p] = "saveSchedule" => frame'[p].alert \in AlertTimes
    <3>1. CASE Save(p)
      <4>1. PICK t \in AlertTimes : Start(p, "saveSchedule", [Idle EXCEPT !.alert = t, !.due = t])
        BY <3>1 DEF Save
      <4>2. frame'[p] = [[Idle EXCEPT !.alert = t, !.due = t] EXCEPT !.at = now]
        BY <1>0, <4>1 DEF Start, Goto
      <4>3. frame'[p].alert = t
        BY <4>2 DEF Idle
      <4> QED BY <4>3
    <3>2. CASE Disable(p) \/ Register(p)
      BY <1>0, <3>2 DEF Disable, Register, Start, Goto
    <3> QED BY <1>1, <3>1, <3>2
  <2> QED BY <2>1, <2>2, <2>3 DEF PlannedBy, PlanLabels, OneActive, Pending, alertVars
<1>2. CASE MoveAway(p)
  <2>1. /\ pc[p] = "idle" /\ UNCHANGED <<now, enabled, job, pc>>
        /\ schedule'.state = "away" /\ intents' = SupersededIntents
    BY <1>2 DEF MoveAway, TypeOK
  <2>2. \A t \in AlertTimes : intents'[t] # "active"
    BY <2>1 DEF SupersededIntents
  <2> QED BY <2>1, <2>2 DEF PlannedBy, PlanLabels, OneActive, Pending
<1>3. CASE Clear(p)
  <2>1. pc[p] = "idle" /\ pc' = pc /\ job' = None /\ \A t \in AlertTimes : intents'[t] = "none"
    BY <1>3 DEF Clear
  <2> QED BY <2>1 DEF PlannedBy, PlanLabels, OneActive, Pending
<1> QED BY <1>1, <1>2, <1>3 DEF Owning

\* The statements of a save and of a registration, one after the other.
LEMMA PlanningPlanned ==
  ASSUME TypeOK, RunsInTime, NEW p \in Owners, Role(p), PlannedBy(p), Planning(p)
  PROVE  PlannedBy(p)'
<1>0. /\ p \in Procs /\ pc \in [Procs -> Labels] /\ frame \in [Procs -> Frame] /\ frame[p] \in Frame
      /\ intents \in [AlertTimes -> {"none", "active", "superseded"}]
      /\ now \in Nat /\ frame[p].at \in Nat /\ frame[p].alert \in Nat
      /\ (job # None => job \in Job) /\ p \notin Workers
  BY ReminderAssumption DEF TypeOK, Procs, Frame
<1>1. ASSUME Finish(p)  PROVE pc'[p] = "idle"
  BY <1>0, <1>1 DEF Finish, Role, Goto
<1>2. ASSUME NEW label, Goto(p, label, frame[p])  PROVE pc'[p] = label /\ frame'[p] = frame[p]
  BY <1>0, <1>2 DEF Goto
<1> USE DEF At
<1>3. CASE SaveSchedule(p)
  <2>0. UNCHANGED <<now, intents, enabled, job>> /\ pc[p] = "saveSchedule"
    BY <1>3 DEF SaveSchedule
  <2>1. CASE schedule.state = "cleared"
    <3>1. pc'[p] = "idle" /\ schedule' = schedule
      BY <1>1, <1>3, <2>1 DEF SaveSchedule
    <3> QED BY <2>0, <2>1, <3>1 DEF PlannedBy, PlanLabels, OneActive, Pending
  <2>2. CASE schedule.state # "cleared"
    <3>1. /\ schedule'.state = "here" /\ schedule'.alert = frame[p].alert
          /\ pc'[p] = (IF frame[p].alert <= frame[p].at THEN "supersede" ELSE "saveIntent")
          /\ frame'[p] = frame[p]
      BY <1>2, <1>3, <2>2 DEF SaveSchedule
    <3>2. frame[p].at <= now
      BY <1>0, <2>0 DEF RunsInTime
    <3>3. \/ pc'[p] = "supersede" /\ schedule'.alert <= now
          \/ pc'[p] = "saveIntent"
      BY <1>0, <3>1, <3>2
    <3>4. Pending' /\ ~enabled' => FALSE
      BY <2>0 DEF PlannedBy, Pending
    <3> QED BY <1>0, <2>0, <3>1, <3>3, <3>4 DEF PlannedBy, PlanLabels, OneActive
  <2> QED BY <2>1, <2>2
<1>4. CASE SupersedeIntents(p)
  <2>1. /\ UNCHANGED <<now, schedule, enabled, job>> /\ pc[p] = "supersede" /\ pc'[p] = "idle"
        /\ \A t \in AlertTimes : intents'[t] # "active"
    BY <1>1, <1>4 DEF SupersedeIntents, SupersededIntents
  <2> QED BY <2>1 DEF PlannedBy, PlanLabels, OneActive, Pending
<1>5. CASE SaveIntent(p)
  <2>0. /\ UNCHANGED <<now, schedule, enabled, job>> /\ pc[p] = "saveIntent"
        /\ schedule.state = "here" /\ schedule.alert = frame[p].alert
    BY <1>5 DEF SaveIntent, PlannedBy, PlanLabels
  <2>1. pc'[p] = "listInstallations" /\ frame'[p] = frame[p]
    BY <1>2, <1>5, <2>0 DEF SaveIntent
  <2>2. \A t \in AlertTimes : intents'[t] = "active" => t = frame[p].alert
    <3>0. frame[p].alert \in AlertTimes
      BY <2>0 DEF PlannedBy, PlanLabels
    <3>1. CASE intents[frame[p].alert] = "active"
      BY <1>5, <2>0, <3>0, <3>1 DEF SaveIntent, PlannedBy, OneActive
    <3>2. CASE intents[frame[p].alert] # "active"
      <4>1. intents' = [SupersededIntents EXCEPT
                          ![frame[p].alert] = IF @ = "none" THEN "active" ELSE @]
        BY <1>5, <2>0, <3>2 DEF SaveIntent
      <4> QED BY <3>0, <4>1 DEF SupersededIntents
    <3> QED BY <3>1, <3>2
  <2> QED BY <2>0, <2>1, <2>2 DEF PlannedBy, PlanLabels, OneActive, Pending
<1>6. CASE ListInstallations(p)
  <2>0. UNCHANGED <<now, alertVars, job>> /\ pc[p] = "listInstallations"
    BY <1>6 DEF ListInstallations
  <2>1. CASE enabled
    <3>1. pc'[p] = "findJob" /\ frame'[p] = frame[p]
      BY <1>2, <1>6, <2>1 DEF ListInstallations
    <3> QED BY <2>0, <2>1, <3>1 DEF PlannedBy, PlanLabels, OneActive, Pending, alertVars
  <2>2. CASE ~enabled
    <3>1. pc'[p] = "idle" /\ ~Pending
      BY <1>1, <1>6, <2>0, <2>2 DEF ListInstallations, PlannedBy
    <3> QED BY <2>0, <2>2, <3>1 DEF PlannedBy, PlanLabels, OneActive, Pending, alertVars
  <2> QED BY <2>1, <2>2
<1>7. CASE FindJob(p)
  <2>0. UNCHANGED <<now, alertVars, job>> /\ pc[p] = "findJob"
    BY <1>7 DEF FindJob
  <2>1. CASE job = None
    <3>1. pc'[p] = "insertJob" /\ frame'[p] = frame[p]
      BY <1>2, <1>7, <2>1 DEF FindJob
    <3> QED BY <2>0, <2>1, <3>1 DEF PlannedBy, PlanLabels, OneActive, Pending, alertVars
  <2>2. CASE job # None /\ PlanChanged(job, frame[p].alert, frame[p].at)
    <3>1. pc'[p] = "replaceJob" /\ frame'[p] = frame[p]
      BY <1>2, <1>7, <2>2 DEF FindJob
    <3> QED BY <2>0, <3>1 DEF PlannedBy, PlanLabels, OneActive, Pending, alertVars
  <2>3. CASE job # None /\ ~PlanChanged(job, frame[p].alert, frame[p].at)
    <3>1. pc'[p] = "idle"
      BY <1>1, <1>7, <2>3 DEF FindJob
    <3>2. Pending => job.intendedAt = frame[p].alert
      BY <2>3 DEF PlanChanged, Pending
    <3> QED BY <2>0, <3>1, <3>2 DEF PlannedBy, PlanLabels, OneActive, Pending, alertVars
  <2> QED BY <2>1, <2>2, <2>3
<1>8. CASE InsertJob(p) \/ ReplaceJob(p)
  <2>0. UNCHANGED <<now, alertVars>> /\ pc[p] \in {"insertJob", "replaceJob"}
    BY <1>8 DEF InsertJob, ReplaceJob
  <2>1. pc'[p] \in {"create", "idle"}
    BY <1>1, <1>2, <1>8 DEF InsertJob, ReplaceJob
  <2>2. \/ job' = None
        \/ \E round : job' = PlannedJob(frame[p].alert, frame[p].at, round)
    BY <1>8, <2>0 DEF InsertJob, ReplaceJob, PlannedBy, PlanLabels
  <2>3. Pending' => job'.intendedAt = frame[p].alert
    BY <2>2 DEF Pending, PlannedJob
  <2> QED BY <2>0, <2>1, <2>3 DEF PlannedBy, PlanLabels, OneActive, alertVars
<1>9. CASE DisableInstallation(p) \/ OptOut(p)
  <2>0. /\ UNCHANGED <<now, schedule, intents, job>> /\ pc[p] \in {"disable", "optOut"}
        /\ pc'[p] \in {"optOut", "suppressJobs"}
    BY <1>2, <1>9 DEF DisableInstallation, OptOut
  <2> QED BY <2>0 DEF PlannedBy, PlanLabels, OneActive, Pending
<1>10. CASE SuppressJobs(p)
  <2>0. UNCHANGED <<now, alertVars>> /\ pc[p] = "suppressJobs" /\ pc'[p] = "idle"
    BY <1>0, <1>1, <1>10 DEF SuppressJobs
  <2>1. ~Pending'
    BY <1>0, <1>10, StatusWritten DEF SuppressJobs, Pending, Suppressible
  <2> QED BY <2>0, <2>1 DEF PlannedBy, PlanLabels, OneActive, alertVars
<1>11. CASE OfferOptIn(p) \/ CheckOptIn(p)
  <2>0. /\ UNCHANGED <<now, schedule, intents, enabled, job>> /\ pc[p] \in {"offer", "checkOptIn"}
        /\ pc'[p] \in {"checkOptIn", "enable", "idle"}
    BY <1>1, <1>2, <1>11 DEF OfferOptIn, CheckOptIn, alertVars
  <2> QED BY <2>0 DEF PlannedBy, PlanLabels, OneActive, Pending
<1>12. CASE EnableInstallation(p) \/ RegisterOptIn(p)
  <2>0. /\ UNCHANGED <<now, schedule, intents, job>> /\ pc[p] \in {"enable", "register"}
        /\ enabled' /\ pc'[p] \in {"register", "listIntents"}
    BY <1>2, <1>12 DEF EnableInstallation, RegisterOptIn, PlannedBy
  <2> QED BY <2>0 DEF PlannedBy, PlanLabels, OneActive, Pending
<1>13. CASE ListIntents(p)
  <2>0. UNCHANGED <<now, alertVars, job>> /\ pc[p] = "listIntents"
    BY <1>13 DEF ListIntents
  <2>1. CASE Finish(p)
    BY <1>1, <2>0, <2>1 DEF PlannedBy, PlanLabels, OneActive, Pending, alertVars
  <2>2. ASSUME NEW t \in AlertTimes, intents[t] = "active",
               Goto(p, "findJob", [frame[p] EXCEPT !.alert = t, !.due = t])
        PROVE  PlannedBy(p)'
    <3>1. pc'[p] = "findJob" /\ frame'[p].alert = t
      BY <1>0, <2>2 DEF Goto, Frame
    <3>2. schedule.state = "here" /\ schedule.alert = t
      BY <2>0, <2>2 DEF PlannedBy
    <3> QED BY <2>0, <3>1, <3>2 DEF PlannedBy, PlanLabels, OneActive, Pending, alertVars
  <2> QED BY <1>13, <2>1, <2>2 DEF ListIntents, FreshIntents
<1> QED BY <1>3, <1>4, <1>5, <1>6, <1>7, <1>8, <1>9, <1>10, <1>11, <1>12, <1>13 DEF Planning

LEMMA ArmingPlanned ==
  ASSUME TypeOK, NEW p \in Owners, Role(p), PlannedBy(p), Arming(p), ~At(p, "reload")
  PROVE  PlannedBy(p)'
<1>0. p \in Procs /\ pc \in [Procs -> Labels]
  BY DEF TypeOK, Procs
<1>1. pc[p] \in ArmLabels /\ UNCHANGED <<now, alertVars, job>>
  BY DEF Arming, CreateRow, ReviseRow, ReadForPublish, Send, MarkPublished, RecordPublishFailure,
     ReloadForRearm, At, ArmLabels
<1>2. pc'[p] \in ArmLabels \cup {"idle"}
  BY <1>0 DEF Arming, CreateRow, ReviseRow, ReadForPublish, Send, MarkPublished,
     RecordPublishFailure, ReloadForRearm, At, ArmLabels, Finish, Role, Goto
<1> QED BY <1>1, <1>2 DEF PlannedBy, PlanLabels, ArmLabels, OneActive, Pending, alertVars

LEMMA NextSInv ==
  ASSUME OneSession
  PROVE  TypeOK /\ RunsInTime /\ SInv /\ [Next]_vars => SInv'
<1> SUFFICES ASSUME TypeOK, RunsInTime, SInv, [Next]_vars PROVE SInv'
  OBVIOUS
<1>0. "terminal" \notin PushOutcomes /\ faults \in Nat
  BY DEF OneSession, TypeOK
<1>1. Roles'
  BY <1>0, NextRoles DEF SInv
<1>2. ASSUME faults' = 0  PROVE Planned'
  <2>1. ASSUME NEW p \in Procs, Owning(p) \/ Works(p)  PROVE Planned'
    <3>0. Role(p) /\ OneStep(p)
      BY <2>1, EachOneStep DEF SInv, Roles
    <3>1. CASE p \in Owners /\ (Owning(p) \/ Planning(p) \/ (Arming(p) /\ ~At(p, "reload")))
      <4>1. faults' = faults \/ faults' = faults + 1
        BY <3>1 DEF Owning, Save, MoveAway, Clear, Disable, Register, Planning, SaveSchedule,
           SupersedeIntents, SaveIntent, ListInstallations, FindJob, InsertJob, ReplaceJob,
           DisableInstallation, OptOut, SuppressJobs, OfferOptIn, CheckOptIn, EnableInstallation,
           RegisterOptIn, ListIntents, Arming, CreateRow, ReviseRow, ReadForPublish, Send,
           MarkPublished, RecordPublishFailure, ReloadForRearm
      <4>2. PlannedBy(p)
        BY <1>0, <1>2, <3>1, <4>1, OneOwner DEF SInv
      <4>3. PlannedBy(p)'
        BY <3>0, <3>1, <4>2, OwningPlanned, PlanningPlanned, ArmingPlanned
      <4> QED BY <3>1, <4>3, OneOwner
    <3>2. CASE p \notin Owners /\ (Consuming(p) \/ Arming(p) \/ Recovering(p))
      <4>1. /\ UNCHANGED <<now, schedule, intents, enabled>> /\ faults = 0
            /\ (job = None => job' = None) /\ (Pending' => job' = job)
        BY <1>2, <3>0, <3>2, OtherKeeps
      <4>2. \A q \in Owners : pc'[q] = pc[q] /\ frame'[q] = frame[q]
        BY <3>0, <3>2 DEF OneStep, Procs
      <4> QED BY <4>1, <4>2, OtherPlanned DEF SInv
    <3> QED BY <2>1, <3>0, <3>1, <3>2, RoleSplit
  <2>2. ~LoseMessage /\ ~SkipPass /\ \A p \in Procs : ~Crash(p)
    BY <1>0, <1>2 DEF LoseMessage, SkipPass, Crash, Fault
  <2>3. CASE Tick
    <3>1. UNCHANGED <<alertVars, job, pc, frame, faults>> /\ now' = now + 1
      BY <2>3 DEF Tick
    <3>2. Planned /\ now \in Nat /\ schedule.alert \in Nat
      BY <1>2, <3>1 DEF SInv, TypeOK
    <3> QED BY <3>1, <3>2 DEF Planned, PlanAgrees, OneActive, ActiveIsScheduled,
         NonePendingDisabled, PendingIsScheduled, Pending, OwnerAt, alertVars
  <2>4. CASE Stop \/ UNCHANGED vars
    <3>1. UNCHANGED vars
      BY <2>4 DEF Stop
    <3>2. Planned
      BY <1>2, <3>1 DEF SInv, vars
    <3> QED BY <3>1, <3>2 DEF Planned, PlanAgrees, OneActive, ActiveIsScheduled,
         NonePendingDisabled, PendingIsScheduled, Pending, OwnerAt, vars, alertVars
  <2> QED BY <2>1, <2>2, <2>3, <2>4 DEF Next
<1> QED BY <1>1, <1>2 DEF SInv

LEMMA InitSInv == Init => SInv
<1> SUFFICES ASSUME Init PROVE SInv
  OBVIOUS
<1>1. Roles
  BY DEF Init, Roles, Role, Idle, SessionLabels, PlanLabels
<1>2. \A p \in Owners : pc[p] = "idle"
  BY DEF Init, Procs
<1>3. Planned
  BY <1>2 DEF Init, Planned, PlanAgrees, PlanLabels, OneActive, ActiveIsScheduled,
     NonePendingDisabled, PendingIsScheduled, Pending
<1> QED BY <1>1, <1>3 DEF SInv

\* While the owner's mutations come one after the other, nothing fails and no
\* endpoint is gone, a job planned and not yet tried is planned for the alert time
\* the schedule shows: no read of a save or of a registration is out of date when it
\* plans, whatever callbacks and recovery passes do to the job meanwhile.
THEOREM PendingFollowsAlways ==
  ASSUME OneSession
  PROVE  Spec => []PendingJobFollowsSchedule
<1>1. Init => SInv
  BY InitSInv
<1>2. Init => RunsInTime
  BY DEF Init, RunsInTime
<1>3. SInv => PendingJobFollowsSchedule
  BY DEF SInv, Planned, PendingIsScheduled, PendingJobFollowsSchedule, Pending, OwnerAt, Quiet, Procs
<1>4. TypeOK /\ TypeOK' /\ RunsInTime /\ SInv /\ [Next]_vars => RunsInTime' /\ SInv'
  BY NextRunsInTime, NextSInv
<1> QED BY <1>1, <1>2, <1>3, <1>4, TypeCorrect, PTL DEF Spec
-----------------------------------------------------------------------------
(* What one step of a process does to the row and to the sends.            *)

Publishes(p) == pc[p] \in {"target", "publish", "send", "mark", "markFailed"}

RowStep(p) ==
  /\ row # None => row' # None /\ row.revision <= row'.revision
  /\ \/ sent' = sent
     \/ pc[p] = "send" /\ sent' = sent \cup {frame[p].rev} /\ row' = row
  /\ Publishes(p)' =>
       \/ row' # None /\ frame'[p].rev \in Nat /\ frame'[p].rev <= row'.revision
       \/ Publishes(p) /\ frame'[p].rev = frame[p].rev

LEMMA GotoRow ==
  ASSUME TypeOK, row' = row, sent' = sent, NEW p \in Procs, NEW label, NEW f, Goto(p, label, f),
         label \notin {"target", "publish", "send", "mark", "markFailed"}
  PROVE  RowStep(p)
BY DEF TypeOK, Goto, RowStep, Publishes, Delivery

LEMMA FinishLabel ==
  ASSUME TypeOK, NEW p \in Procs, Finish(p)
  PROVE  ~Publishes(p)'
<1>1. frame[p].then \in {"idle", "listOverdue", "listPointers"}
  BY DEF TypeOK, Frame
<1> QED BY <1>1 DEF Finish, Goto, TypeOK, Publishes

LEMMA FinishRow ==
  ASSUME TypeOK, row' = row, sent' = sent, NEW p \in Procs, Finish(p)
  PROVE  RowStep(p)
BY FinishLabel DEF RowStep, TypeOK, Delivery

LEMMA StartRow ==
  ASSUME TypeOK, row' = row, sent' = sent, NEW p \in Procs, NEW label, NEW f, Start(p, label, f),
         label \notin {"target", "publish", "send", "mark", "markFailed"}
  PROVE  RowStep(p)
BY GotoRow DEF Start

LEMMA OwningRow ==
  ASSUME TypeOK, NEW p \in Procs, Owning(p) \/ Planning(p)
  PROVE  RowStep(p)
<1> USE GotoRow, StartRow, FinishRow
<1>1. CASE Save(p)
  <2>1. PICK t \in AlertTimes : Start(p, "saveSchedule", [Idle EXCEPT !.alert = t, !.due = t])
    BY <1>1 DEF Save
  <2> QED BY <1>1, <2>1 DEF Save
<1>2. CASE MoveAway(p) \/ Clear(p)
  BY <1>2 DEF MoveAway, Clear, RowStep, Publishes, TypeOK, Delivery
<1>3. CASE Disable(p) \/ Register(p)
  BY <1>3 DEF Disable, Register
<1>4. CASE SaveSchedule(p) \/ SupersedeIntents(p) \/ SaveIntent(p) \/ ListInstallations(p)
  BY <1>4 DEF SaveSchedule, SupersedeIntents, SaveIntent, ListInstallations
<1>5. CASE FindJob(p) \/ InsertJob(p) \/ ReplaceJob(p)
  BY <1>5 DEF FindJob, InsertJob, ReplaceJob
<1>6. CASE DisableInstallation(p) \/ OptOut(p) \/ SuppressJobs(p)
  BY <1>6 DEF DisableInstallation, OptOut, SuppressJobs
<1>7. CASE OfferOptIn(p) \/ CheckOptIn(p) \/ EnableInstallation(p) \/ RegisterOptIn(p)
  BY <1>7 DEF OfferOptIn, CheckOptIn, EnableInstallation, RegisterOptIn
<1>8. CASE ListIntents(p)
  <2>1. row' = row /\ sent' = sent
    BY <1>8 DEF ListIntents
  <2>2. ASSUME NEW t \in AlertTimes,
               Goto(p, "findJob", [frame[p] EXCEPT !.alert = t, !.due = t])
        PROVE  RowStep(p)
    BY <2>1, <2>2
  <2> QED BY <1>8, <2>1, <2>2 DEF ListIntents, FreshIntents
<1> QED BY <1>1, <1>2, <1>3, <1>4, <1>5, <1>6, <1>7, <1>8 DEF Owning, Planning

LEMMA ConsumingRow ==
  ASSUME TypeOK, NEW p \in Procs, Consuming(p)
  PROVE  RowStep(p)
<1> USE GotoRow, StartRow, FinishRow
<1>1. CASE Receive(p)
  <2>1. PICK m \in queue : Start(p, "validate", [Idle EXCEPT !.msg = m, !.rev = m.revision])
    BY <1>1 DEF Receive
  <2> QED BY <1>1, <2>1 DEF Receive
<1>2. CASE Validate(p) \/ InspectJob(p) \/ ClaimJob(p) \/ LoadContext(p)
  BY <1>2 DEF Validate, InspectJob, ClaimJob, LoadContext
<1>3. CASE Push(p)
  <2>1. PICK label \in {"accept", "retry", "disable"} : Goto(p, label, frame[p])
    BY <1>3, ReminderAssumption DEF Push
  <2> QED BY <1>3, <2>1 DEF Push
<1>4. CASE SuppressDelivery(p) \/ AcceptDelivery(p) \/ CloseTerminal(p) \/ ScheduleRetry(p)
  BY <1>4 DEF SuppressDelivery, AcceptDelivery, CloseTerminal, ScheduleRetry, WriteJob
<1>5. CASE JobGone(p) \/ Acknowledge(p)
  BY <1>5 DEF JobGone, Acknowledge
<1> QED BY <1>1, <1>2, <1>3, <1>4, <1>5 DEF Consuming

\* What the fenced writes make of the row.
LEMMA RowWrites ==
  ASSUME NEW d \in Delivery
  PROVE  /\ \A at \in Nat : /\ Revised(d, at) \in Delivery
                            /\ Revised(d, at).revision = d.revision + 1
                            /\ Revised(d, at).status = "pending"
                            /\ Revised(d, at).nextAttemptAt = at
                            /\ MarkedPublishFailed(d, at) \in Delivery
                            /\ MarkedPublishFailed(d, at).revision = d.revision
         /\ \A at, due \in Nat : /\ MarkedPublished(d, at, due) \in Delivery
                                 /\ MarkedPublished(d, at, due).revision = d.revision
         /\ Abandoned(d) \in Delivery /\ Abandoned(d).revision = d.revision
<1>1. \A at \in Nat : Revised(d, at) \in Delivery /\ MarkedPublishFailed(d, at) \in Delivery
  BY RowUpdates
<1>2. \A at, due \in Nat : MarkedPublished(d, at, due) \in Delivery
  BY RowUpdates
<1>3. Abandoned(d) \in Delivery
  BY RowUpdates
<1>4. \A at \in Nat : /\ Revised(d, at).revision = d.revision + 1
                      /\ Revised(d, at).status = "pending" /\ Revised(d, at).nextAttemptAt = at
                      /\ MarkedPublishFailed(d, at).revision = d.revision
  BY DEF Revised, MarkedPublishFailed, Delivery
<1>5. /\ \A at, due \in Nat : MarkedPublished(d, at, due).revision = d.revision
      /\ Abandoned(d).revision = d.revision
  BY DEF MarkedPublished, Abandoned, Delivery
<1> QED BY <1>1, <1>2, <1>3, <1>4, <1>5

LEMMA ArmingRow ==
  ASSUME TypeOK, NEW p \in Procs, Arming(p)
  PROVE  RowStep(p)
<1>0. /\ frame[p] \in Frame /\ frame[p].at \in Nat /\ frame[p].due \in Nat
      /\ FirstPublishAttemptAt(frame[p]) \in Nat /\ frame[p].at + DelayOf(frame[p]) \in Nat
      /\ row # None => row \in Delivery /\ row.revision \in Nat
      /\ frame \in [Procs -> Frame] /\ pc \in [Procs -> Labels] /\ None \notin Delivery
  <2>1. frame[p] \in Frame /\ frame[p].at \in Nat /\ frame[p].due \in Nat
    BY DEF TypeOK, Frame
  <2>2. DelayOf(frame[p]) \in Nat
    BY <2>1, DelayType DEF DelayOf
  <2> QED BY <2>1, <2>2, ReminderAssumption DEF TypeOK, Delivery, FirstPublishAttemptAt
<1>1. CASE CreateRow(p)
  <2>1. sent' = sent /\ ~Publishes(p)'
    BY <1>0, <1>1 DEF CreateRow, Goto, Publishes
  <2>2. row # None => row' = row
    BY <1>1 DEF CreateRow
  <2> QED BY <1>0, <2>1, <2>2 DEF RowStep
<1>2. CASE ReviseRow(p)
  <2>1. sent' = sent
    BY <1>2 DEF ReviseRow
  <2>2. CASE Targets(row, frame[p].rev)
    <3>1. /\ row # None /\ row' = Revised(row, FirstPublishAttemptAt(frame[p]))
      BY <1>2, <2>2 DEF ReviseRow, Targets
    <3>2. row' # None /\ row'.revision = row.revision + 1
      BY <1>0, <3>1, RowWrites
    <3>3. CASE PublishAhead
      <4>1. [frame[p] EXCEPT !.rev = row.revision + 1].rev = row.revision + 1
        BY <1>0 DEF Frame
      <4>2. Goto(p, "publish", [frame[p] EXCEPT !.rev = row.revision + 1])
        BY <1>2, <2>2, <3>3 DEF ReviseRow
      <4>3. frame'[p].rev = row.revision + 1
        BY <1>0, <4>1, <4>2 DEF Goto
      <4> QED BY <1>0, <2>1, <3>1, <3>2, <4>3 DEF RowStep
    <3>4. CASE ~PublishAhead
      <4>1. ~Publishes(p)'
        BY <1>2, <2>2, <3>4, FinishLabel DEF ReviseRow
      <4> QED BY <1>0, <2>1, <3>1, <3>2, <4>1 DEF RowStep
    <3> QED BY <3>3, <3>4
  <2>3. CASE ~Targets(row, frame[p].rev)
    BY <1>2, <2>1, <2>3, FinishRow DEF ReviseRow
  <2> QED BY <2>2, <2>3
<1>3. CASE ReadForPublish(p)
  <2>1. CASE Targets(row, frame[p].rev)
    BY <1>0, <1>3, <2>1 DEF ReadForPublish, Goto, RowStep, Publishes, At
  <2> QED BY <1>3, <2>1, FinishRow DEF ReadForPublish
<1>4. CASE Send(p)
  <2>1. /\ sent' = sent \/ sent' = sent \cup {frame[p].rev}
        /\ row' = row /\ pc[p] = "send" /\ frame'[p] = frame[p]
    BY <1>0, <1>4 DEF Send, Accept, Goto, At
  <2> QED BY <1>0, <2>1 DEF RowStep, Publishes
<1>5. CASE MarkPublished(p)
  <2>1. sent' = sent /\ ~Publishes(p)'
    BY <1>5, FinishLabel DEF MarkPublished
  <2>2. row # None => row' # None /\ row'.revision = row.revision
    BY <1>0, <1>5, RowWrites DEF MarkPublished
  <2> QED BY <1>0, <2>1, <2>2 DEF RowStep
<1>6. CASE RecordPublishFailure(p)
  <2>1. sent' = sent /\ ~Publishes(p)'
    BY <1>6, FinishLabel DEF RecordPublishFailure
  <2>2. row # None => row' # None /\ row'.revision = row.revision
    BY <1>0, <1>6, RowWrites DEF RecordPublishFailure
  <2> QED BY <1>0, <2>1, <2>2 DEF RowStep
<1>7. CASE ReloadForRearm(p)
  BY <1>7, GotoRow, FinishRow DEF ReloadForRearm
<1> QED BY <1>1, <1>2, <1>3, <1>4, <1>5, <1>6, <1>7 DEF Arming

LEMMA RecoveringRow ==
  ASSUME TypeOK, NEW p \in Procs, Recovering(p)
  PROVE  RowStep(p)
<1> USE GotoRow, StartRow, FinishRow
<1>0. /\ frame[p] \in Frame /\ frame \in [Procs -> Frame] /\ pc \in [Procs -> Labels]
      /\ row # None => row \in Delivery /\ row.revision \in Nat
  BY DEF TypeOK, Delivery
<1>1. CASE StartPass(p) \/ CloseStale(p) \/ ListOverdueJobs(p) \/ ListOverduePointers(p)
  BY <1>1 DEF StartPass, CloseStale, ListOverdueJobs, ListOverduePointers
<1>2. CASE ListDue(p)
  <2>1. row' = row /\ sent' = sent
    BY <1>2 DEF ListDue
  <2>2. CASE DueDelivery(row, {"pending", "publish_failed"}, frame[p].at)
    <3>1. [frame[p] EXCEPT !.rev = row.revision, !.then = "listOverdue"].rev = row.revision
      BY <1>0 DEF Frame
    <3>2. frame'[p].rev = row.revision /\ row # None
      BY <1>0, <1>2, <2>2, <3>1 DEF ListDue, Goto, DueDelivery
    <3> QED BY <1>0, <2>1, <3>2 DEF RowStep
  <2> QED BY <1>2, <2>1, <2>2 DEF ListDue
<1>3. CASE LoadTarget(p)
  <2>1. row' = row /\ sent' = sent /\ pc[p] = "target"
    BY <1>3 DEF LoadTarget, At
  <2>2. CASE Goto(p, "publish", [frame[p] EXCEPT !.due = WakeupTime(job, frame[p].at)])
    <3>1. [frame[p] EXCEPT !.due = WakeupTime(job, frame[p].at)].rev = frame[p].rev
      BY <1>0 DEF Frame
    <3>2. frame'[p].rev = frame[p].rev
      BY <1>0, <2>2, <3>1 DEF Goto
    <3> QED BY <1>0, <2>1, <3>2 DEF RowStep, Publishes
  <2> QED BY <1>3, <2>1, <2>2 DEF LoadTarget
<1>4. CASE Abandon(p)
  <2>1. sent' = sent /\ ~Publishes(p)'
    BY <1>4, FinishLabel DEF Abandon
  <2>2. row # None => row' # None /\ row'.revision = row.revision
    BY <1>0, <1>4, RowWrites, ReminderAssumption DEF Abandon
  <2> QED BY <1>0, <2>1, <2>2 DEF RowStep
<1>5. CASE FindRow(p) \/ LoadPointerJob(p)
  BY <1>5 DEF FindRow, LoadPointerJob, RecoverJobWakeup
<1> QED BY <1>1, <1>2, <1>3, <1>4, <1>5 DEF Recovering

LEMMA EachRowStep ==
  ASSUME TypeOK, NEW p \in Procs, Owning(p) \/ Works(p) \/ Crash(p)
  PROVE  RowStep(p)
<1>1. CASE Crash(p)
  BY <1>1, GotoRow DEF Crash
<1> QED BY <1>1, OwningRow, ConsumingRow, ArmingRow, RecoveringRow DEF Works
=============================================================================
