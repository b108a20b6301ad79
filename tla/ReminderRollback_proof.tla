----------------------- MODULE ReminderRollback_proof -----------------------
(***************************************************************************)
(* What the reset to cron-only publication leaves for the earlier code,    *)
(* for any number of processes, holds, faults and owner's mutations.       *)
(***************************************************************************)
EXTENDS ReminderRollback, ReminderDelivery_proof

\* The revision a process publishes, or knows it published, is the row's or
\* an earlier one.
KnownRevisions ==
  /\ \A r \in sent : row # None /\ r <= row.revision
  /\ \A p \in Procs :
       Publishes(p) => row # None /\ frame[p].rev \in Nat /\ frame[p].rev <= row.revision

HoldOK ==
  /\ hold \in Nat \cup {None} /\ (Held => hold <= now)
  /\ reset \in BOOLEAN /\ holds \in Nat

\* Nothing that runs under a hold began after it was placed.
BeganBefore == Held => \A p \in Procs : pc[p] # "idle" => frame[p].at <= hold

\* Nor was a claim taken after it was placed.
ClaimedBefore ==
  job # None /\ job.status = "running" =>
    job.updatedAt <= now /\ (Held => job.updatedAt <= hold)

Reset == reset => RollbackUnblocked /\ HandedOver /\ FreshKey

RInv ==
  /\ IInv /\ RunsInTime
  /\ KnownRevisions /\ HoldOK /\ BeganBefore /\ ClaimedBefore /\ Reset

-----------------------------------------------------------------------------
(* What one step of a process does to the claim.                           *)

\* Only a claim makes the job running, at the time its process began.
RunningStep(p) ==
  job' # None /\ job'.status = "running" =>
    job' = job \/ (pc[p] = "claim" /\ job'.updatedAt = frame[p].at)

LEMMA SettledRunning ==
  ASSUME TypeOK, NEW p \in Procs, job # None, NEW status, NEW outcome,
         status # "running", job' = Settled(job, status, outcome, frame[p].at)
  PROVE  RunningStep(p)
<1>1. Settled(job, status, outcome, frame[p].at).status = status
  BY DEF Settled, TypeOK, Job
<1> QED BY <1>1 DEF RunningStep

LEMMA EachRunningStep ==
  ASSUME TypeOK, NEW p \in Procs, Owning(p) \/ Works(p) \/ Crash(p)
  PROVE  RunningStep(p)
<1>0. job # None => job \in Job
  BY DEF TypeOK
<1>1. CASE Owning(p)
  BY <1>1 DEF Owning, Save, MoveAway, Clear, Disable, Register, RunningStep
<1>2. CASE InsertJob(p) \/ ReplaceJob(p)
  BY <1>2 DEF InsertJob, ReplaceJob, PlannedJob, RunningStep
<1>3. CASE SuppressJobs(p)
  BY <1>3, SettledRunning DEF SuppressJobs, RunningStep
<1>4. CASE /\ Planning(p)
           /\ ~InsertJob(p) /\ ~ReplaceJob(p) /\ ~SuppressJobs(p)
  BY <1>4 DEF Planning, SaveSchedule, SupersedeIntents, SaveIntent, ListInstallations, FindJob,
       DisableInstallation, OptOut, OfferOptIn, CheckOptIn, EnableInstallation, RegisterOptIn,
       ListIntents, RunningStep
<1>5. CASE Arming(p) \/ Crash(p)
  BY <1>5 DEF Arming, CreateRow, ReviseRow, ReadForPublish, Send, MarkPublished,
       RecordPublishFailure, ReloadForRearm, Crash, RunningStep
<1>6. CASE ClaimJob(p)
  <2>1. CASE job # None /\ ClaimAllowed(job, frame[p].at)
    <3>1. job' = Claimed(job, frame[p].at) /\ pc[p] = "claim"
      BY <1>6, <2>1 DEF ClaimJob, At
    <3>2. Claimed(job, frame[p].at).updatedAt = frame[p].at
      BY <1>0, <2>1 DEF Claimed, Job
    <3> QED BY <3>1, <3>2 DEF RunningStep
  <2> QED BY <1>6, <2>1 DEF ClaimJob, RunningStep
<1>7. CASE SuppressDelivery(p) \/ AcceptDelivery(p) \/ CloseTerminal(p) \/ ScheduleRetry(p)
  <2>1. CASE SuppressDelivery(p)
    BY <2>1, SettledRunning DEF SuppressDelivery, WriteJob
  <2>2. CASE AcceptDelivery(p)
    BY <2>2, SettledRunning DEF AcceptDelivery, WriteJob
  <2>3. CASE CloseTerminal(p)
    BY <2>3, SettledRunning DEF CloseTerminal, WriteJob
  <2>4. CASE ScheduleRetry(p)
    <3>1. /\ job # None
          /\ job' = RetryScheduled(job, frame[p].alert, frame[p].at)
      BY <2>4 DEF ScheduleRetry, WriteJob
    <3>2. RetryScheduled(job, frame[p].alert, frame[p].at).status = "failed"
      BY <1>0, <3>1 DEF RetryScheduled, Settled, Job
    <3> QED BY <3>1, <3>2 DEF RunningStep
  <2> QED BY <1>7, <2>1, <2>2, <2>3, <2>4
<1>8. CASE Receive(p) \/ Validate(p) \/ InspectJob(p) \/ LoadContext(p) \/ Push(p)
             \/ JobGone(p) \/ Acknowledge(p)
  BY <1>8 DEF Receive, Validate, InspectJob, LoadContext, Push, JobGone, Acknowledge, RunningStep
<1>9. CASE CloseStale(p)
  BY <1>9, SettledRunning DEF CloseStale, RunningStep
<1>10. CASE Recovering(p) /\ ~CloseStale(p)
  BY <1>10 DEF Recovering, StartPass, ListDue, LoadTarget, Abandon, ListOverdueJobs, FindRow,
        ListOverduePointers, LoadPointerJob, RunningStep
<1> QED BY <1>1, <1>2, <1>3, <1>4, <1>5, <1>6, <1>7, <1>8, <1>9, <1>10 DEF Works, Consuming

\* A step of a process at rest begins an invocation or is a mutation.
LEMMA IdleStep ==
  ASSUME TypeOK, NEW p \in Procs, pc[p] = "idle", Owning(p) \/ Works(p) \/ Crash(p)
  PROVE  pc'[p] # "idle" \/ ops' # ops
<1>0. pc \in [Procs -> Labels] /\ ops \in Nat
  BY DEF TypeOK
<1> USE DEF At, Start, Goto
<1>1. CASE Owning(p)
  <2>1. ops' = ops + 1
    BY <1>1 DEF Owning, Save, MoveAway, Clear, Disable, Register, Mutates
  <2> QED BY <1>0, <2>1
<1>2. CASE Planning(p)
  BY <1>2 DEF Planning, SaveSchedule, SupersedeIntents, SaveIntent, ListInstallations, FindJob,
       InsertJob, ReplaceJob, DisableInstallation, OptOut, SuppressJobs, OfferOptIn, CheckOptIn,
       EnableInstallation, RegisterOptIn, ListIntents
<1>3. CASE Arming(p) \/ Crash(p)
  BY <1>3 DEF Arming, CreateRow, ReviseRow, ReadForPublish, Send, MarkPublished,
       RecordPublishFailure, ReloadForRearm, Crash
<1>4. CASE Consuming(p)
  BY <1>0, <1>4 DEF Consuming, Receive, Validate, InspectJob, ClaimJob, LoadContext, Push,
       SuppressDelivery, AcceptDelivery, CloseTerminal, ScheduleRetry, WriteJob, JobGone,
       Acknowledge
<1>5. CASE Recovering(p)
  BY <1>0, <1>5 DEF Recovering, StartPass, ListDue, LoadTarget, Abandon, ListOverdueJobs, FindRow,
       ListOverduePointers, LoadPointerJob, CloseStale
<1> QED BY <1>1, <1>2, <1>3, <1>4, <1>5 DEF Works

\* One claim lease into a hold, every invocation that began before it is over.
LEMMA LeaseEmpties ==
  ASSUME TypeOK, HoldOK, RunsInTime, BeganBefore, RollbackUnblocked
  PROVE  Quiet /\ now > hold
<1>1. /\ hold \in Nat /\ now \in Nat /\ hold + Lease <= now /\ Held
      /\ MaxRun \in Nat /\ Lease \in Nat /\ MaxRun < Lease
  BY ReminderAssumption, Constants DEF HoldOK, Held, RollbackUnblocked, TypeOK
<1>2. ASSUME NEW p \in Procs, pc[p] # "idle" PROVE FALSE
  <2>1. frame[p].at \in Nat /\ frame[p].at <= hold /\ now <= frame[p].at + MaxRun
    BY <1>1, <1>2 DEF BeganBefore, RunsInTime, TypeOK, Frame
  <2> QED BY <1>1, <2>1
<1> QED BY <1>1, <1>2 DEF Quiet

\* So after the reset no process has a step, and the hold keeps it so.
LEMMA ResetQuiet ==
  ASSUME RInv, reset, Deliver
  PROVE  LoseMessage \/ SkipPass \/ Tick \/ Stop
<1>1. RollbackUnblocked /\ TypeOK /\ HoldOK
  BY DEF RInv, Reset, IInv
<1>2. Quiet /\ now > hold /\ Held
  BY <1>1, LeaseEmpties DEF RInv, RollbackUnblocked
<1>3. ASSUME NEW p \in Procs, Owning(p) \/ Works(p) \/ Crash(p) PROVE FALSE
  <2>1. pc[p] = "idle" /\ pc'[p] = "idle" /\ ops' = ops
    BY <1>2 DEF Quiet, Deliver, Refuses
  <2> QED BY <1>1, <1>3, <2>1, IdleStep
<1> QED BY <1>3 DEF Deliver, Next

LEMMA DeliverRInv ==
  ASSUME RInv, Deliver
  PROVE  RInv'
<1>0. /\ IInv /\ TypeOK /\ RunsInTime /\ KnownRevisions /\ HoldOK /\ BeganBefore /\ ClaimedBefore
      /\ hold' = hold /\ reset' = reset /\ holds' = holds /\ now \in Nat
      /\ row # None => row.revision \in Nat
      /\ sent \subseteq Nat /\ \A p \in Procs : frame[p].at \in Nat
  BY DEF RInv, IInv, Deliver, TypeOK, Delivery, Frame
<1>1. IInv' /\ TypeOK' /\ RunsInTime'
  <2>1. IInv' /\ TypeOK'
    BY <1>0, NextIInv DEF Deliver, IInv
  <2> QED BY <1>0, <2>1, NextRunsInTime DEF Deliver
<1>2. now' = now \/ now' = now + 1
  <2>1. ASSUME NEW p \in Procs, Owning(p) \/ Works(p) \/ Crash(p) PROVE now' = now
    BY <1>0, <2>1, EachOneStep DEF OneStep
  <2> QED BY <2>1 DEF Deliver, Next, LoseMessage, SkipPass, Tick, Stop, vars
<1>3. HoldOK'
  BY <1>0, <1>2 DEF HoldOK, Held
<1>4. ASSUME NEW p \in Procs, Owning(p) \/ Works(p) \/ Crash(p)
      PROVE  KnownRevisions' /\ BeganBefore' /\ ClaimedBefore'
  <2>1. OneStep(p) /\ RowStep(p) /\ RunningStep(p)
    BY <1>0, <1>4, EachOneStep, EachRowStep, EachRunningStep
  <2>2. row' # None => row'.revision \in Nat
    BY <1>1 DEF TypeOK, Delivery
  <2>3. \A r \in sent' : row' # None /\ r <= row'.revision
    <3>1. ASSUME NEW r \in sent PROVE row' # None /\ r <= row'.revision
      <4>1. row # None /\ r \in Nat /\ r <= row.revision
        BY <1>0, <3>1 DEF KnownRevisions
      <4> QED BY <1>0, <2>1, <2>2, <4>1 DEF RowStep
    <3>2. CASE pc[p] = "send" /\ sent' = sent \cup {frame[p].rev} /\ row' = row
      <4>1. row # None /\ frame[p].rev <= row.revision
        BY <1>0, <3>2 DEF KnownRevisions, Publishes
      <4> QED BY <3>1, <3>2, <4>1
    <3> QED BY <2>1, <3>1, <3>2 DEF RowStep
  <2>4. ASSUME NEW q \in Procs, Publishes(q)'
        PROVE  row' # None /\ frame'[q].rev \in Nat /\ frame'[q].rev <= row'.revision
    BY <1>0, <2>1, <2>2, <2>4 DEF OneStep, RowStep, KnownRevisions, Publishes
  <2>5. KnownRevisions'
    BY <2>3, <2>4 DEF KnownRevisions
  <2>6. BeganBefore'
    <3> SUFFICES ASSUME Held, NEW q \in Procs, pc'[q] # "idle" PROVE frame'[q].at <= hold
      BY <1>0 DEF BeganBefore, Held
    <3>1. CASE q = p /\ pc[p] = "idle"
      <4>1. p \in Owners /\ ~(now > hold)
        BY <3>1 DEF Deliver, Refuses
      <4>2. frame'[p].at = now /\ hold \in Nat
        BY <1>0, <2>1, <3>1 DEF OneStep, HoldOK, Held
      <4> QED BY <1>0, <3>1, <4>1, <4>2
    <3>2. CASE ~(q = p /\ pc[p] = "idle")
      BY <1>0, <2>1, <3>2 DEF OneStep, BeganBefore
    <3> QED BY <3>1, <3>2
  <2>7. ClaimedBefore'
    <3> SUFFICES ASSUME job' # None, job'.status = "running"
                 PROVE  job'.updatedAt <= now' /\ (Held => job'.updatedAt <= hold)
      BY <1>0 DEF ClaimedBefore, Held
    <3>1. now' = now
      BY <2>1 DEF OneStep
    <3> QED BY <1>0, <2>1, <3>1 DEF RunningStep, ClaimedBefore, BeganBefore, RunsInTime
  <2> QED BY <2>5, <2>6, <2>7
<1>5. ASSUME LoseMessage \/ SkipPass \/ Tick \/ Stop
      PROVE  KnownRevisions' /\ BeganBefore' /\ ClaimedBefore'
  <2>1. /\ pc' = pc /\ frame' = frame /\ job' = job /\ row' = row /\ sent' = sent
    BY <1>5 DEF LoseMessage, SkipPass, Tick, Stop, vars
  <2>2. KnownRevisions' /\ BeganBefore'
    BY <1>0, <2>1 DEF KnownRevisions, BeganBefore, Publishes, Held
  <2>3. ClaimedBefore'
    BY <1>0, <1>2, <2>1 DEF ClaimedBefore, Held, TypeOK, Job
  <2> QED BY <2>2, <2>3
<1>6. KnownRevisions' /\ BeganBefore' /\ ClaimedBefore'
  BY <1>4, <1>5 DEF Deliver, Next
<1>7. Reset'
  <2> SUFFICES ASSUME reset PROVE (RollbackUnblocked /\ HandedOver /\ FreshKey)'
    BY <1>0 DEF Reset
  <2>1. job' = job /\ row' = row /\ sent' = sent
    BY ResetQuiet DEF LoseMessage, SkipPass, Tick, Stop, vars
  <2>2. RollbackUnblocked /\ HandedOver /\ FreshKey
    BY DEF RInv, Reset
  <2>3. RollbackUnblocked'
    BY <1>0, <1>2, <2>2, Constants DEF RollbackUnblocked, Held, HoldOK
  <2> QED BY <1>0, <2>1, <2>2, <2>3 DEF HandedOver, FreshKey, Live, Finished
<1> QED BY <1>1, <1>3, <1>6, <1>7 DEF RInv

LEMMA HoldRInv ==
  ASSUME RInv, HeldPass \/ PlaceHold \/ LiftHold
  PROVE  RInv'
<1>0. /\ IInv /\ TypeOK /\ RunsInTime /\ KnownRevisions /\ HoldOK /\ BeganBefore /\ ClaimedBefore
      /\ now \in Nat
  BY DEF RInv, IInv, TypeOK
<1>1. /\ now' = now /\ job' = job /\ row' = row /\ sent' = sent /\ pc' = pc /\ frame' = frame
      /\ UNCHANGED <<alertVars, queue, pushed, ops, faults>>
      /\ passAt' \in [Crons -> Nat]
  <2>1. CASE HeldPass
    BY <1>0, <2>1 DEF HeldPass, TypeOK
  <2>2. CASE PlaceHold \/ LiftHold
    BY <1>0, <2>2 DEF PlaceHold, LiftHold, vars, TypeOK
  <2> QED BY <2>1, <2>2
<1>2. IInv'
  BY <1>0, <1>1 DEF IInv, TypeOK, alertVars, FencedPublish, PublishedWasSent, At
<1>3. RunsInTime' /\ KnownRevisions'
  BY <1>0, <1>1 DEF RunsInTime, KnownRevisions, Publishes
<1>4. CASE HeldPass
  <2>1. hold' = hold /\ reset' = reset /\ holds' = holds
    BY <1>4 DEF HeldPass
  <2>2. HoldOK' /\ BeganBefore' /\ ClaimedBefore'
    BY <1>0, <1>1, <2>1 DEF HoldOK, BeganBefore, ClaimedBefore, Held
  <2>3. Reset'
    BY <1>1, <2>1 DEF RInv, Reset, RollbackUnblocked, HandedOver, FreshKey, Live, Finished, Held
  <2> QED BY <1>2, <1>3, <2>2, <2>3 DEF RInv
<1>5. CASE PlaceHold
  <2>1. hold' = now /\ reset' = FALSE /\ holds' = holds + 1
    BY <1>5 DEF PlaceHold
  <2>2. HoldOK' /\ BeganBefore' /\ ClaimedBefore'
    <3>0. hold' <= now' /\ holds' \in Nat /\ hold' \in Nat
      BY <1>0, <1>1, <2>1 DEF HoldOK
    <3>1. HoldOK'
      BY <2>1, <3>0 DEF HoldOK
    <3>2. BeganBefore'
      BY <1>0, <1>1, <2>1 DEF BeganBefore, RunsInTime, Held
    <3>3. ClaimedBefore'
      BY <1>0, <1>1, <2>1 DEF ClaimedBefore, Held
    <3> QED BY <3>1, <3>2, <3>3
  <2> QED BY <1>2, <1>3, <2>1, <2>2 DEF RInv, Reset
<1>6. CASE LiftHold
  <2>1. hold' = None /\ reset' = FALSE /\ holds' = holds
    BY <1>6 DEF LiftHold
  <2>2. HoldOK' /\ BeganBefore' /\ ClaimedBefore'
    BY <1>0, <1>1, <2>1 DEF HoldOK, BeganBefore, ClaimedBefore, Held
  <2> QED BY <1>2, <1>3, <2>1, <2>2 DEF RInv, Reset
<1> QED BY <1>4, <1>5, <1>6

\* What the reset does to a claim of before the hold, and to the row.
LEMMA ResetRInv ==
  ASSUME RInv, ResetToCronOnly
  PROVE  RInv'
<1>0. /\ IInv /\ TypeOK /\ RunsInTime /\ KnownRevisions /\ HoldOK /\ BeganBefore /\ ClaimedBefore
      /\ RollbackUnblocked /\ hold' = hold /\ holds' = holds /\ reset' = TRUE
      /\ now' = now /\ now \in Nat /\ sent' = sent /\ sent \subseteq Nat
      /\ pc' = pc /\ frame' = frame
      /\ UNCHANGED <<alertVars, queue, pushed, passAt, ops, faults>>
      /\ job # None => job \in Job
      /\ row # None => row \in Delivery /\ row.revision \in Nat
      /\ None \notin Job /\ None \notin Delivery
  BY ReminderAssumption DEF RInv, IInv, ResetToCronOnly, TypeOK, Delivery
<1>1. Quiet
  BY <1>0, LeaseEmpties
<1>2. ASSUME job # None
      PROVE  /\ job' \in Job /\ job'.status # "running" /\ job'.nextAttemptAt \in Nat
             /\ Finished(job) => job' = job
             /\ job' # None
  <2>1. job' = Released(job)
    BY <1>0, <1>2 DEF ResetToCronOnly
  <2>2. CASE LeaseExpired(job, now)
    <3> DEFINE s == Settled(job, "failed", "transient_failure", now)
    <3>1. s \in Job
      <4>1. "failed" \in JobStatus /\ "transient_failure" \in Outcome
        BY DEF JobStatus, Outcome
      <4> QED BY <1>0, <1>2, <4>1, JobUpdates
    <3>2. s.status = "failed"
      BY <1>0, <1>2 DEF Settled, Job
    <3> HIDE DEF s
    <3>3. /\ [s EXCEPT !.nextAttemptAt = now] \in Job
          /\ [s EXCEPT !.nextAttemptAt = now].status = s.status
          /\ [s EXCEPT !.nextAttemptAt = now].nextAttemptAt = now
      BY <1>0, <3>1 DEF Job
    <3>4. job' = [s EXCEPT !.nextAttemptAt = now]
      BY <2>1, <2>2 DEF Released, s
    <3> QED BY <1>0, <2>2, <3>2, <3>3, <3>4 DEF LeaseExpired, Finished
  <2>3. CASE ~LeaseExpired(job, now)
    <3>1. job' = job
      BY <2>1, <2>3 DEF Released
    <3>2. job.updatedAt \in Nat /\ hold \in Nat /\ Lease \in Nat /\ job.nextAttemptAt \in Nat
      BY <1>0, <1>2, Constants DEF Job, HoldOK, Held, RollbackUnblocked
    <3>3. job.status # "running"
      BY <1>0, <1>2, <2>3, <3>2 DEF LeaseExpired, ClaimedBefore, RollbackUnblocked
    <3> QED BY <1>0, <1>2, <3>1, <3>2, <3>3
  <2> QED BY <2>2, <2>3
<1>3. ASSUME row # None, job # None, ~Finished(job)
      PROVE  /\ row' \in Delivery /\ row' # None /\ row'.status = "pending"
             /\ KnownRevisions' /\ HandedOver' /\ FreshKey'
  <2>1. row' = Revised(row, job'.nextAttemptAt)
    BY <1>3 DEF ResetToCronOnly, Returned
  <2>2. /\ row' \in Delivery /\ row'.revision = row.revision + 1 /\ row'.status = "pending"
        /\ row'.nextAttemptAt = job'.nextAttemptAt /\ row' # None
    BY <1>0, <1>2, <1>3, <2>1, RowWrites
  <2>3. KnownRevisions'
    BY <1>0, <1>3, <2>2 DEF KnownRevisions, Publishes
  <2>4. HandedOver' /\ FreshKey'
    BY <1>0, <1>2, <1>3, <2>2 DEF HandedOver, FreshKey, KnownRevisions
  <2> QED BY <2>2, <2>3, <2>4
<1>4. ASSUME ~(row # None /\ job # None /\ ~Finished(job))
      PROVE  row' = row /\ KnownRevisions' /\ HandedOver' /\ FreshKey'
  <2>1. row' = row
    BY <1>4 DEF ResetToCronOnly
  <2>2. job = None => job' = None
    BY DEF ResetToCronOnly
  <2>3. KnownRevisions'
    BY <1>0, <2>1 DEF KnownRevisions, Publishes
  <2>4. HandedOver' /\ FreshKey'
    BY <1>0, <1>2, <1>4, <2>1, <2>2 DEF HandedOver, FreshKey, Live
  <2> QED BY <2>1, <2>3, <2>4
<1>5. row' \in Delivery \cup {None} /\ (row' = row \/ (row' # None /\ row'.status = "pending"))
      /\ KnownRevisions' /\ HandedOver' /\ FreshKey'
  BY <1>0, <1>3, <1>4
<1>6. job' \in Job \cup {None}
  BY <1>2 DEF ResetToCronOnly
<1>7. IInv'
  <2>1. TypeOK'
    BY <1>0, <1>5, <1>6 DEF TypeOK, alertVars
  <2>2. FencedPublish' /\ PublishedWasSent'
    BY <1>0, <1>5 DEF IInv, FencedPublish, PublishedWasSent, At
  <2> QED BY <2>1, <2>2 DEF IInv
<1>8. RunsInTime' /\ HoldOK' /\ BeganBefore'
  BY <1>0 DEF RunsInTime, HoldOK, BeganBefore, Held
<1>9. ClaimedBefore'
  BY <1>2 DEF ClaimedBefore, ResetToCronOnly
<1>10. Reset'
  BY <1>0, <1>5 DEF Reset, RollbackUnblocked, Held
<1> QED BY <1>5, <1>7, <1>8, <1>9, <1>10 DEF RInv

LEMMA InitRInv == RollbackInit => RInv
<1> SUFFICES ASSUME RollbackInit PROVE RInv
  OBVIOUS
<1>1. IInv
  BY InitIInv DEF RollbackInit
<1>2. /\ sent = {} /\ job = None /\ hold = None /\ reset = FALSE /\ holds = 0
      /\ \A p \in Procs : pc[p] = "idle"
  BY DEF RollbackInit, Init
<1>3. RunsInTime /\ KnownRevisions /\ HoldOK /\ BeganBefore /\ ClaimedBefore /\ Reset
  BY <1>2 DEF RunsInTime, KnownRevisions, Publishes, HoldOK, BeganBefore, ClaimedBefore, Reset, Held
<1> QED BY <1>1, <1>3 DEF RInv

LEMMA NextRInv == RInv /\ [RollbackNext]_rollbackVars => RInv'
<1> SUFFICES ASSUME RInv, [RollbackNext]_rollbackVars PROVE RInv'
  OBVIOUS
<1>1. CASE UNCHANGED rollbackVars
  <2>1. IInv'
    BY <1>1 DEF rollbackVars, vars, alertVars, RInv, IInv, TypeOK, FencedPublish, At,
                PublishedWasSent
  <2>2. RunsInTime' /\ KnownRevisions' /\ HoldOK' /\ BeganBefore' /\ ClaimedBefore' /\ Reset'
    BY <1>1 DEF rollbackVars, vars, RInv, RunsInTime, KnownRevisions, Publishes, HoldOK,
                BeganBefore, ClaimedBefore, Reset, RollbackUnblocked, HandedOver, FreshKey, Live,
                Finished, Held
  <2> QED BY <2>1, <2>2 DEF RInv
<1>2. CASE RollbackNext
  BY <1>2, DeliverRInv, HoldRInv, ResetRInv DEF RollbackNext
<1> QED BY <1>1, <1>2

\* From the reset until the hold is lifted, the earlier code finds every live job
\* claimable and its row pending and due with it: one lease into a hold nothing of
\* before it runs, and nothing has begun since (reminderRollbackBlocker).
THEOREM HandedOverAlways == RollbackSpec => []HandedOver
<1>1. RInv => HandedOver
  BY DEF RInv, Reset, HandedOver
<1> QED BY <1>1, InitRInv, NextRInv, PTL DEF RollbackSpec

\* The revision the reset leaves was never sent, so that the provider cannot take
\* its next send for a repetition: no send is ever ahead of the row
\* (resetReminderDeliveriesToCronOnly, deliveryTarget's fence).
THEOREM FreshKeyAlways == RollbackSpec => []FreshKey
<1>1. RInv => FreshKey
  BY DEF RInv, Reset, FreshKey
<1> QED BY <1>1, InitRInv, NextRInv, PTL DEF RollbackSpec
=============================================================================
