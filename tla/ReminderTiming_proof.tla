------------------------- MODULE ReminderTiming_proof -------------------------
(***************************************************************************)
(* When a job is woken and when it is settled.                             *)
(*                                                                         *)
(* No late wake-up: while nothing fails and the owner's mutations come one *)
(* after the other, a waiting job is woken no later than it is due.        *)
(*                                                                         *)
(* Settled in time: with any faults and any owners, a job is settled by    *)
(* its deadline, which each fault puts off by a fixed time.                *)
(*                                                                         *)
(* Both for any number of owners, queue callbacks and recovery passes and  *)
(* any alert times.                                                        *)
(***************************************************************************)
EXTENDS ReminderDelivery_proof

\* One session of the owner, by which no installation is registered; pushes
\* that are accepted; and a grace that outlasts an invocation.  A retry, and
\* the recovery of a job that has no row yet, are armed without a fence, and
\* may put an earlier reading of the job over a later one.
OrderlySession ==
  /\ OneSession
  /\ "failed" \notin PushOutcomes /\ "register" \notin OwnerOps
  /\ MaxRun <= Grace

-----------------------------------------------------------------------------
(* What processes know, and who is where.                                  *)

\* Every revision a send, a pointer or a process names is the row's or an
\* earlier one, so that the next is new to all of them.
Known(r) == row # None /\ r <= row.revision

FrameKnown(p) ==
  /\ frame[p].rev # None => Known(frame[p].rev)
  /\ frame[p].msg # None => Known(frame[p].msg.revision)

RevisionsKnown ==
  /\ \A r \in sent : Known(r)
  /\ \A m \in queue : Known(m.revision)
  /\ \A p \in Procs : FrameKnown(p)

SweepLabels == {"listDue", "target", "listOverdue", "findRow", "listPointers", "pointerJob",
                "closeStale", "abandon"}

\* A callback does not sweep and nobody else has a message to acknowledge.
Post(p) ==
  /\ p \in Workers => frame[p].then = "idle" /\ pc[p] \notin SweepLabels
  /\ p \notin Workers => frame[p].msg = None
  /\ At(p, "ack") => frame[p].msg # None

Posts == \A p \in Procs : Post(p)

-----------------------------------------------------------------------------
(* Where the wake-up is.  faults = 0 throughout.                           *)

JobCalm ==
  /\ job # None => job.status # "failed"
  /\ Pending => job.nextAttemptAt = job.intendedAt

\* A job without a row is one the owner's process is about to arm, in time.
RowComing ==
  row = None /\ job # None =>
    Pending /\ \E p \in Owners : At(p, "create") /\ frame[p].at < job.nextAttemptAt

\* The owner's process plans what is to come, and arms the job as it is.
OwnerPlan(p) ==
  /\ pc[p] \notin {"offer", "checkOptIn", "enable", "register", "listIntents"}
  /\ pc[p] \in PlanLabels \cup {"saveSchedule"} =>
       frame[p].due = frame[p].alert /\ frame[p].rev = None
  /\ pc[p] \in PlanLabels => frame[p].at < frame[p].alert
  /\ pc[p] \in {"create", "revise"} =>
       frame[p].rev = None /\ (Pending => frame[p].due = job.nextAttemptAt)
  /\ At(p, "revise") => row # None

\* The others act on a revision they have read or were handed.
RevLabels == {"validate", "inspect", "claim", "context", "push", "suppress", "accept",
              "reload", "create", "revise", "publish", "send", "mark",
              "target", "abandon", "pointerJob", "closeStale"}

MsgLabels == {"validate", "inspect", "claim", "reload", "create", "revise"}

Fenced(p) ==
  /\ pc[p] \in RevLabels => frame[p].rev # None
  /\ pc[p] \in MsgLabels /\ frame[p].msg # None => frame[p].rev = frame[p].msg.revision
  /\ At(p, "findRow") => row # None

Heading(p) ==
  /\ pc[p] \notin {"retry", "markFailed", "closeJob"}
  /\ IF p \in Owners THEN OwnerPlan(p) ELSE Fenced(p)

Headings == \A p \in Procs : Heading(p)

\* The job waits and the owner's process has armed it.
Armed == Pending /\ ~OwnerAt({"create", "revise"})

DueAt == Later(job.nextAttemptAt, now)

RowArmed ==
  Armed =>
    /\ row # None /\ row.status # "abandoned" /\ row.revision # 0
    /\ row.status # "published" => row.nextAttemptAt <= DueAt
    /\ row.revision \in sent =>
         \E m \in queue : m.revision = row.revision /\ m.visibleAt <= DueAt + MaxRun

\* Whoever will publish or re-arm the current revision does it in time.
Publishing(p) ==
  pc[p] \in {"publish", "send"} \/ (p \notin Owners /\ pc[p] \in {"create", "revise"})

\* From here on a callback no longer leaves the job a wake-up of its revision.
Committed == {"context", "push", "suppress", "accept", "publish", "send", "mark", "ack"}

Carries(p) ==
  Armed =>
    /\ frame[p].rev = row.revision =>
         ~At(p, "abandon") /\ (Publishing(p) => frame[p].due <= DueAt)
    /\ frame[p].msg # None /\ frame[p].msg.revision = row.revision =>
         pc[p] \notin Committed /\ (At(p, "claim") => job.nextAttemptAt <= frame[p].at)

Wakes ==
  JobCalm /\ RowComing /\ Headings /\ RowArmed /\ \A p \in Procs : Carries(p)

WInv == RevisionsKnown /\ Posts /\ (faults = 0 => Wakes)

-----------------------------------------------------------------------------
(* The values at hand, and the steps processes take.                       *)

LEMMA Values ==
  ASSUME TypeOK, NEW p \in Procs
  PROVE  /\ pc \in [Procs -> Labels] /\ frame \in [Procs -> Frame] /\ frame[p] \in Frame
         /\ frame[p].at \in Nat /\ frame[p].due \in Nat /\ frame[p].alert \in Nat
         /\ frame[p].rev \in Nat \cup {None} /\ frame[p].msg \in Message \cup {None}
         /\ frame[p].then \in {"idle", "listOverdue", "listPointers"}
         /\ now \in Nat /\ faults \in Nat /\ queue \subseteq Message /\ sent \subseteq Nat
         /\ row # None => row \in Delivery /\ row.revision \in Nat /\ row.nextAttemptAt \in Nat
         /\ job # None => /\ job \in Job /\ job.status \in JobStatus
                          /\ job.nextAttemptAt \in Nat /\ job.intendedAt \in Nat
         /\ MaxRun \in Nat /\ Grace \in Nat /\ None \notin Int /\ None \notin Delivery /\ None \notin Job
BY Constants, ReminderAssumption DEF TypeOK, Frame, Delivery, Job

LEMMA GotoAt ==
  ASSUME TypeOK, NEW p \in Procs, NEW label, NEW f, Goto(p, label, f)
  PROVE  pc'[p] = label /\ frame'[p] = f
BY DEF TypeOK, Goto

LEMMA StartAt ==
  ASSUME TypeOK, NEW p \in Procs, NEW label, NEW f \in Frame, Start(p, label, f)
  PROVE  /\ pc[p] = "idle" /\ pc'[p] = label
         /\ frame'[p].at = now /\ frame'[p].rev = f.rev /\ frame'[p].msg = f.msg
         /\ frame'[p].due = f.due /\ frame'[p].alert = f.alert /\ frame'[p].then = f.then
<1>1. pc[p] = "idle" /\ pc'[p] = label /\ frame'[p] = [f EXCEPT !.at = now]
  BY GotoAt DEF Start
<1> QED BY <1>1 DEF Frame

LEMMA FinishAt ==
  ASSUME TypeOK, NEW p \in Procs, Finish(p)
  PROVE  /\ frame'[p].rev = None /\ frame'[p].then = "idle" /\ frame'[p].msg = frame[p].msg
         /\ frame[p].msg # None => pc'[p] = "ack"
         /\ frame[p].msg = None => pc'[p] = frame[p].then
<1>1. CASE frame[p].msg # None
  <2>1. pc'[p] = "ack" /\ frame'[p] = [Idle EXCEPT !.at = frame[p].at, !.msg = frame[p].msg]
    BY <1>1, GotoAt DEF Finish
  <2> QED BY <1>1, <2>1 DEF Idle
<1>2. CASE frame[p].msg = None /\ frame[p].then # "idle"
  <2>1. pc'[p] = frame[p].then /\ frame'[p] = [Idle EXCEPT !.at = frame[p].at]
    BY <1>2, GotoAt DEF Finish
  <2> QED BY <1>2, <2>1 DEF Idle
<1>3. CASE frame[p].msg = None /\ frame[p].then = "idle"
  <2>1. pc'[p] = "idle" /\ frame'[p] = Idle
    BY <1>3, GotoAt DEF Finish
  <2> QED BY <1>3, <2>1 DEF Idle
<1> QED BY <1>1, <1>2, <1>3

-----------------------------------------------------------------------------
(* What a step makes of the revisions its process knows.                   *)

FrameStep(p) ==
  /\ \/ frame'[p].rev \in {None, frame[p].rev}
     \/ \E m \in queue : frame'[p].rev = m.revision
     \/ row' # None /\ frame'[p].rev = row'.revision
  /\ frame'[p].msg \in {None, frame[p].msg} \/ (p \in Workers /\ frame'[p].msg \in queue)
  /\ \A m \in queue' : m \in queue \/ (At(p, "send") /\ m.revision = frame[p].rev)

\* A step that keeps or resets both, whatever else it does to the frame.
LEMMA GotoFrame ==
  ASSUME TypeOK, NEW p \in Procs, NEW label, NEW f, Goto(p, label, f), queue' \subseteq queue,
         f.rev \in {None, frame[p].rev}, f.msg \in {None, frame[p].msg}
  PROVE  FrameStep(p)
BY GotoAt DEF FrameStep

LEMMA StartFrame ==
  ASSUME TypeOK, NEW p \in Procs, NEW label, NEW f \in Frame, Start(p, label, f),
         queue' = queue, f.rev = None, f.msg = None
  PROVE  FrameStep(p)
BY StartAt DEF FrameStep

LEMMA FinishFrame ==
  ASSUME TypeOK, NEW p \in Procs, Finish(p), queue' \subseteq queue
  PROVE  FrameStep(p)
BY FinishAt DEF FrameStep

LEMMA OwningFrame ==
  ASSUME TypeOK, NEW p \in Procs, Owning(p) \/ Planning(p)
  PROVE  FrameStep(p)
<1>0. frame[p] \in Frame /\ Idle \in Frame /\ Idle.rev = None /\ Idle.msg = None
  BY IdleType DEF TypeOK, Idle
<1> USE <1>0, GotoFrame, FinishFrame, StartFrame
<1>1. CASE Save(p)
  <2>1. PICK t \in AlertTimes : Start(p, "saveSchedule", [Idle EXCEPT !.alert = t, !.due = t])
    BY <1>1 DEF Save
  <2>2. /\ [Idle EXCEPT !.alert = t, !.due = t] \in Frame
        /\ [Idle EXCEPT !.alert = t, !.due = t].rev = None
        /\ [Idle EXCEPT !.alert = t, !.due = t].msg = None
    BY Constants DEF Frame
  <2> QED BY <1>1, <2>1, <2>2 DEF Save
<1>2. CASE MoveAway(p) \/ Clear(p)
  BY <1>2 DEF MoveAway, Clear, FrameStep
<1>3. CASE Disable(p) \/ Register(p)
  BY <1>3 DEF Disable, Register
<1>4. CASE SaveSchedule(p) \/ SupersedeIntents(p) \/ SaveIntent(p) \/ ListInstallations(p)
  BY <1>4 DEF SaveSchedule, SupersedeIntents, SaveIntent, ListInstallations
<1>5. CASE FindJob(p) \/ InsertJob(p) \/ ReplaceJob(p)
  BY <1>5 DEF FindJob, InsertJob, ReplaceJob
<1>6. CASE DisableInstallation(p) \/ OptOut(p) \/ SuppressJobs(p)
  BY <1>6 DEF DisableInstallation, OptOut, SuppressJobs
<1>7. CASE OfferOptIn(p) \/ CheckOptIn(p) \/ EnableInstallation(p) \/ RegisterOptIn(p)
  BY <1>7 DEF OfferOptIn, CheckOptIn, EnableInstallation, RegisterOptIn
<1>8. CASE ListIntents(p)
  <2>1. \A t : /\ [frame[p] EXCEPT !.alert = t, !.due = t].rev = frame[p].rev
               /\ [frame[p] EXCEPT !.alert = t, !.due = t].msg = frame[p].msg
    BY DEF Frame
  <2> QED BY <1>8, <2>1 DEF ListIntents
<1> QED BY <1>1, <1>2, <1>3, <1>4, <1>5, <1>6, <1>7, <1>8 DEF Owning, Planning

LEMMA ConsumingFrame ==
  ASSUME TypeOK, NEW p \in Procs, Consuming(p)
  PROVE  FrameStep(p)
<1>0. frame[p] \in Frame /\ Idle \in Frame /\ Idle.rev = None /\ Idle.msg = None
  BY IdleType DEF TypeOK, Idle
<1>1. CASE Receive(p)
  <2>1. PICK m \in queue : Start(p, "validate", [Idle EXCEPT !.msg = m, !.rev = m.revision])
    BY <1>1 DEF Receive
  <2>2. /\ [Idle EXCEPT !.msg = m, !.rev = m.revision] \in Frame
        /\ [Idle EXCEPT !.msg = m, !.rev = m.revision].rev = m.revision
        /\ [Idle EXCEPT !.msg = m, !.rev = m.revision].msg = m
    BY <1>0 DEF TypeOK, Message, Frame
  <2>3. frame'[p].rev = m.revision /\ frame'[p].msg = m /\ queue' = queue /\ p \in Workers
    BY <1>1, <2>1, <2>2, StartAt DEF Receive
  <2> QED BY <2>3 DEF FrameStep
<1> USE <1>0, GotoFrame, FinishFrame
<1>2. CASE Validate(p) \/ InspectJob(p)
  BY <1>2 DEF Validate, InspectJob
<1>3. CASE ClaimJob(p)
  <2>1. /\ [frame[p] EXCEPT !.alert = job.intendedAt, !.round = job.round].rev = frame[p].rev
        /\ [frame[p] EXCEPT !.alert = job.intendedAt, !.round = job.round].msg = frame[p].msg
    BY DEF Frame
  <2> QED BY <1>3, <2>1 DEF ClaimJob
<1>4. CASE LoadContext(p)
  <2>1. /\ [frame[p] EXCEPT !.outcome = SuppressionReason(frame[p])].rev = frame[p].rev
        /\ [frame[p] EXCEPT !.outcome = SuppressionReason(frame[p])].msg = frame[p].msg
    BY DEF Frame
  <2> QED BY <1>4, <2>1 DEF LoadContext
<1>5. CASE Push(p)
  <2>1. PICK label \in {"accept", "retry", "disable"} : Goto(p, label, frame[p])
    BY <1>5, ReminderAssumption DEF Push
  <2> QED BY <1>5, <2>1 DEF Push
<1>6. CASE SuppressDelivery(p) \/ AcceptDelivery(p) \/ CloseTerminal(p)
  BY <1>6 DEF SuppressDelivery, AcceptDelivery, CloseTerminal, WriteJob
<1>7. CASE ScheduleRetry(p)
  <2>1. \A x : /\ [frame[p] EXCEPT !.rev = None, !.due = x].rev = None
               /\ [frame[p] EXCEPT !.rev = None, !.due = x].msg = frame[p].msg
    BY DEF Frame
  <2> QED BY <1>7, <2>1 DEF ScheduleRetry, WriteJob
<1>8. CASE JobGone(p) \/ Acknowledge(p)
  BY <1>8 DEF JobGone, Acknowledge
<1> QED BY <1>1, <1>2, <1>3, <1>4, <1>5, <1>6, <1>7, <1>8 DEF Consuming

LEMMA ArmingFrame ==
  ASSUME TypeOK, NEW p \in Procs, Arming(p)
  PROVE  FrameStep(p)
<1>0. /\ frame[p] \in Frame
      /\ row # None => row \in Delivery
      /\ FirstPublishAttemptAt(frame[p]) \in Nat /\ None \notin Delivery
  BY ReminderAssumption DEF TypeOK, Frame, FirstPublishAttemptAt
<1> USE <1>0, GotoFrame, FinishFrame
<1>1. CASE CreateRow(p) \/ ReadForPublish(p) \/ MarkPublished(p) \/ RecordPublishFailure(p)
  BY <1>1 DEF CreateRow, ReadForPublish, MarkPublished, RecordPublishFailure
<1>2. CASE ReviseRow(p)
  <2>1. CASE Targets(row, frame[p].rev) /\ PublishAhead
    <3>1. row' = Revised(row, FirstPublishAttemptAt(frame[p])) /\ row \in Delivery /\ queue' = queue
      BY <1>2, <2>1 DEF ReviseRow, Targets
    <3>2. row'.revision = row.revision + 1 /\ row' # None
      BY <3>1, RowWrites
    <3>3. frame'[p] = [frame[p] EXCEPT !.rev = row.revision + 1]
      BY <1>2, <2>1, GotoAt DEF ReviseRow
    <3>4. frame'[p].rev = row.revision + 1 /\ frame'[p].msg = frame[p].msg
      BY <3>3 DEF Frame
    <3> QED BY <3>1, <3>2, <3>4 DEF FrameStep
  <2> QED BY <1>2, <2>1 DEF ReviseRow
<1>3. CASE Send(p)
  <2>1. frame'[p] = frame[p] /\ At(p, "send")
    BY <1>3, GotoAt DEF Send
  <2>2. queue' = queue \/ queue' = queue \cup {Pointer(frame[p].rev, DelayOf(frame[p]), now)}
    BY <1>3 DEF Send, Accept
  <2>3. Pointer(frame[p].rev, DelayOf(frame[p]), now).revision = frame[p].rev
    BY DEF Pointer
  <2> QED BY <2>1, <2>2, <2>3 DEF FrameStep
<1>4. CASE ReloadForRearm(p)
  <2>1. \A x : /\ [frame[p] EXCEPT !.rev = frame[p].rev, !.due = x].rev = frame[p].rev
               /\ [frame[p] EXCEPT !.rev = frame[p].rev, !.due = x].msg = frame[p].msg
    BY DEF Frame
  <2> QED BY <1>4, <2>1 DEF ReloadForRearm, RearmFence
<1> QED BY <1>1, <1>2, <1>3, <1>4 DEF Arming

LEMMA RecoveringFrame ==
  ASSUME TypeOK, NEW p \in Procs, Recovering(p)
  PROVE  FrameStep(p)
<1>0. frame[p] \in Frame /\ Idle \in Frame /\ Idle.rev = None /\ Idle.msg = None
  BY IdleType DEF TypeOK, Idle
<1>r. ASSUME NEW label, NEW f, Goto(p, label, f), row' = row, row # None, queue' = queue,
             f.rev = row.revision, f.msg = frame[p].msg
      PROVE  FrameStep(p)
  BY <1>r, GotoAt DEF FrameStep
<1> USE <1>0, GotoFrame, FinishFrame
<1>1. CASE StartPass(p) \/ CloseStale(p) \/ Abandon(p)
  BY <1>1, StartFrame DEF StartPass, CloseStale, Abandon
<1>2. CASE ListDue(p)
  <2>1. /\ [frame[p] EXCEPT !.rev = row.revision, !.then = "listOverdue"].rev = row.revision
        /\ [frame[p] EXCEPT !.rev = row.revision, !.then = "listOverdue"].msg = frame[p].msg
    BY DEF Frame
  <2> QED BY <1>2, <1>r, <2>1 DEF ListDue, DueDelivery
<1>3. CASE LoadTarget(p)
  <2>1. \A x : /\ [frame[p] EXCEPT !.due = x].rev = frame[p].rev
               /\ [frame[p] EXCEPT !.due = x].msg = frame[p].msg
    BY DEF Frame
  <2> QED BY <1>3, <2>1 DEF LoadTarget
<1>4. CASE ListOverdueJobs(p)
  <2>1. \A x, y : /\ [frame[p] EXCEPT !.alert = x, !.then = y].rev = frame[p].rev
                  /\ [frame[p] EXCEPT !.alert = x, !.then = y].msg = frame[p].msg
    BY DEF Frame
  <2> QED BY <1>4, <2>1 DEF ListOverdueJobs
<1>5. \A x : /\ [frame[p] EXCEPT !.rev = x].rev = x
             /\ [frame[p] EXCEPT !.rev = x].msg = frame[p].msg
  BY DEF Frame
<1>6. CASE ListOverduePointers(p)
  BY <1>5, <1>6, <1>r DEF ListOverduePointers, DueDelivery
<1>7. CASE FindRow(p)
  <2>1. CASE row = None
    BY <1>5, <1>7, <2>1 DEF FindRow, RecoverJobWakeup
  <2>2. CASE row # None
    BY <1>5, <1>7, <1>r, <2>2 DEF FindRow, RecoverJobWakeup
  <2> QED BY <2>1, <2>2
<1>8. CASE LoadPointerJob(p)
  BY <1>5, <1>8 DEF LoadPointerJob, RecoverJobWakeup
<1> QED BY <1>1, <1>2, <1>3, <1>4, <1>6, <1>7, <1>8 DEF Recovering

LEMMA EachFrameStep ==
  ASSUME TypeOK, NEW p \in Procs, Owning(p) \/ Works(p) \/ Crash(p)
  PROVE  FrameStep(p)
<1>1. CASE Crash(p)
  BY <1>1, GotoFrame DEF Crash, Idle
<1> QED BY <1>1, OwningFrame, ConsumingFrame, ArmingFrame, RecoveringFrame DEF Works

LEMMA NextKnown == IInv /\ TypeOK' /\ RevisionsKnown /\ [Next]_vars => RevisionsKnown'
<1> SUFFICES ASSUME TypeOK, FencedPublish, TypeOK', RevisionsKnown, [Next]_vars
             PROVE  RevisionsKnown'
  BY DEF IInv
<1>0. /\ row # None => row.revision \in Nat
      /\ row' # None => row'.revision \in Nat
      /\ sent \subseteq Nat /\ queue \subseteq Message
      /\ \A m \in Message : m.revision \in Nat
      /\ \A p \in Procs : frame[p].rev \in Nat \cup {None} /\ frame[p].msg \in Message \cup {None}
  BY DEF TypeOK, Delivery, Message, Frame
<1>1. ASSUME NEW p \in Procs, Owning(p) \/ Works(p) \/ Crash(p)  PROVE RevisionsKnown'
  <2>1. RowStep(p) /\ FrameStep(p) /\ OneStep(p)
    BY <1>1, EachRowStep, EachFrameStep, EachOneStep
  <2> DEFINE KnownNext(r) == row' # None /\ r <= row'.revision
  <2>2. ASSUME NEW r \in Nat, Known(r) PROVE KnownNext(r)
    BY <1>0, <2>1, <2>2 DEF RowStep, Known
  <2>3. \A q \in Procs : /\ frame[q].rev # None => KnownNext(frame[q].rev)
                         /\ frame[q].msg # None => KnownNext(frame[q].msg.revision)
    <3>1. \A q \in Procs : /\ frame[q].rev # None => Known(frame[q].rev)
                           /\ frame[q].msg # None => Known(frame[q].msg.revision)
      BY DEF RevisionsKnown, FrameKnown
    <3> HIDE DEF KnownNext
    <3> QED BY <1>0, <2>2, <3>1
  <2>4. \A m \in queue : KnownNext(m.revision)
    <3> HIDE DEF KnownNext
    <3> QED BY <1>0, <2>2 DEF RevisionsKnown
  <2>5. \A q \in Procs \ {p} : FrameKnown(q)'
    BY <2>1, <2>3 DEF OneStep, FrameKnown, Known
  <2>6. FrameKnown(p)'
    <3>1. frame'[p].rev # None => KnownNext(frame'[p].rev)
      BY <1>0, <2>1, <2>3, <2>4 DEF FrameStep
    <3>2. frame'[p].msg # None => KnownNext(frame'[p].msg.revision)
      <4> HIDE DEF KnownNext
      <4> QED BY <2>1, <2>3, <2>4 DEF FrameStep
    <3> QED BY <3>1, <3>2 DEF FrameKnown, Known
  <2>7. At(p, "send") => frame[p].rev # None
    BY <1>0, OutboxAssumption DEF FencedPublish, At
  <2>8. \A r \in sent' : Known(r)'
    <3>1. \A r \in sent : KnownNext(r)
      <4> HIDE DEF KnownNext
      <4> QED BY <1>0, <2>2 DEF RevisionsKnown
    <3> QED BY <2>1, <2>3, <2>7, <3>1 DEF RowStep, Known, At
  <2>9. \A m \in queue' : Known(m.revision)'
    BY <2>1, <2>3, <2>4, <2>7 DEF FrameStep, Known
  <2> QED BY <2>5, <2>6, <2>8, <2>9 DEF RevisionsKnown
<1>2. CASE LoseMessage
  BY <1>2 DEF LoseMessage, RevisionsKnown, FrameKnown, Known
<1>3. CASE SkipPass \/ Tick \/ Stop \/ UNCHANGED vars
  BY <1>3 DEF SkipPass, Tick, Stop, vars, RevisionsKnown, FrameKnown, Known
<1> QED BY <1>1, <1>2, <1>3 DEF Next

\* A callback does not begin to sweep, and is acknowledged for its message.
LEMMA CallbackPost ==
  ASSUME TypeOK, NEW p \in Procs, Consuming(p) \/ Arming(p)
  PROVE  /\ pc'[p] = "ack" => frame'[p].msg # None
         /\ frame[p].then = "idle" => frame'[p].then = "idle" /\ pc'[p] \notin SweepLabels
<1>0. /\ frame[p] \in Frame /\ Idle \in Frame /\ Idle.then = "idle"
      /\ frame[p].then \in {"idle", "listOverdue", "listPointers"}
  BY IdleType DEF TypeOK, Idle, Frame
<1> DEFINE Keeps == /\ pc'[p] = "ack" => frame'[p].msg # None
                    /\ frame[p].then = "idle" => frame'[p].then = "idle" /\ pc'[p] \notin SweepLabels
<1>1. ASSUME NEW label, NEW f, Goto(p, label, f), label # "ack", label \notin SweepLabels,
             f.then \in {"idle", frame[p].then}
      PROVE  Keeps
  BY <1>1, GotoAt
<1>2. ASSUME Finish(p) PROVE Keeps
  BY <1>0, <1>2, FinishAt DEF SweepLabels
<1> HIDE DEF Keeps
<1> SUFFICES Keeps
  BY DEF Keeps
<1>l. \A label \in {"validate", "context", "accept", "retry", "disable", "publish"} :
        label # "ack" /\ label \notin SweepLabels
  BY DEF SweepLabels
<1>3. CASE Consuming(p)
  <2> USE <1>0, <1>1, <1>2 DEF SweepLabels
  <2>1. CASE Receive(p)
    <3>1. PICK m \in queue : Start(p, "validate", [Idle EXCEPT !.msg = m, !.rev = m.revision])
      BY <2>1 DEF Receive
    <3>2. /\ [Idle EXCEPT !.msg = m, !.rev = m.revision] \in Frame
          /\ [Idle EXCEPT !.msg = m, !.rev = m.revision].then = "idle"
      BY DEF TypeOK, Message, Frame
    <3> DEFINE f == [Idle EXCEPT !.msg = m, !.rev = m.revision]
    <3> HIDE <1>0, <1>1, <1>2 DEF SweepLabels, f
    <3>3. pc'[p] = "validate" /\ frame'[p].then = "idle"
      <4>1. f \in Frame /\ f.then = "idle" /\ Start(p, "validate", f)
        BY <3>1, <3>2 DEF f
      <4> QED BY <4>1, StartAt
    <3> QED BY <1>l, <3>3 DEF Keeps
  <2>2. CASE Validate(p) \/ InspectJob(p)
    BY <2>2 DEF Validate, InspectJob
  <2>3. CASE ClaimJob(p)
    <3>1. [frame[p] EXCEPT !.alert = job.intendedAt, !.round = job.round].then = frame[p].then
      BY DEF Frame
    <3>2. \/ Finish(p)
          \/ Goto(p, "context", [frame[p] EXCEPT !.alert = job.intendedAt, !.round = job.round])
      BY <2>3 DEF ClaimJob
    <3> HIDE DEF SweepLabels
    <3> QED BY <1>l, <3>1, <3>2, Zenon
  <2>4. CASE LoadContext(p)
    <3>1. [frame[p] EXCEPT !.outcome = SuppressionReason(frame[p])].then = frame[p].then
      BY DEF Frame
    <3> QED BY <2>4, <3>1 DEF LoadContext
  <2>5. CASE Push(p)
    <3>1. PICK label \in {"accept", "retry", "disable"} : Goto(p, label, frame[p])
      BY <2>5, ReminderAssumption DEF Push
    <3> HIDE DEF SweepLabels
    <3> QED BY <1>l, <3>1, Zenon
  <2>6. CASE SuppressDelivery(p) \/ AcceptDelivery(p) \/ CloseTerminal(p)
    BY <2>6 DEF SuppressDelivery, AcceptDelivery, CloseTerminal
  <2>7. CASE ScheduleRetry(p)
    <3> DEFINE f == [frame[p] EXCEPT !.rev = None, !.due = RetryTime(frame[p].alert, frame[p].at)]
    <3>1. f.then = frame[p].then
      BY DEF Frame
    <3>2. Goto(p, "create", f)
      BY <2>7 DEF ScheduleRetry
    <3> HIDE DEF f
    <3> QED BY <3>1, <3>2
  <2>8. CASE JobGone(p) \/ Acknowledge(p)
    BY <2>8 DEF JobGone, Acknowledge
  <2> QED BY <1>3, <2>1, <2>2, <2>3, <2>4, <2>5, <2>6, <2>7, <2>8 DEF Consuming
<1>4. CASE Arming(p)
  <2> USE <1>0, <1>1, <1>2 DEF SweepLabels
  <2>1. CASE CreateRow(p) \/ ReadForPublish(p) \/ Send(p) \/ MarkPublished(p) \/ RecordPublishFailure(p)
    BY <2>1 DEF CreateRow, ReadForPublish, Send, MarkPublished, RecordPublishFailure
  <2>2. CASE ReviseRow(p)
    <3>1. [frame[p] EXCEPT !.rev = row.revision + 1].then = frame[p].then
      BY DEF Frame
    <3>2. Finish(p) \/ Goto(p, "publish", [frame[p] EXCEPT !.rev = row.revision + 1])
      BY <2>2 DEF ReviseRow
    <3> HIDE DEF SweepLabels
    <3> QED BY <1>l, <3>1, <3>2, Zenon
  <2>3. CASE ReloadForRearm(p)
    <3> DEFINE f == [frame[p] EXCEPT !.rev = RearmFence(frame[p]),
                                     !.due = WakeupTime(job, frame[p].at)]
    <3>1. f.then = frame[p].then
      BY DEF Frame
    <3>2. Goto(p, "create", f) \/ Finish(p)
      BY <2>3 DEF ReloadForRearm
    <3> HIDE DEF f
    <3> QED BY <3>1, <3>2
  <2> QED BY <1>4, <2>1, <2>2, <2>3 DEF Arming
<1> QED BY <1>3, <1>4

LEMMA SweepPost ==
  ASSUME TypeOK, NEW p \in Procs, Recovering(p)
  PROVE  pc'[p] = "ack" => frame'[p].msg # None
<1>1. ASSUME NEW label, NEW f, Goto(p, label, f), label # "ack"
      PROVE  pc'[p] # "ack"
  BY <1>1, GotoAt
<1>2. ASSUME Finish(p) PROVE pc'[p] = "ack" => frame'[p].msg # None
  <2>1. frame[p].then # "ack"
    BY DEF TypeOK, Frame
  <2> QED BY <1>2, <2>1, FinishAt
<1> QED BY <1>1, <1>2 DEF Recovering, StartPass, Start, ListDue, LoadTarget, Abandon,
     ListOverdueJobs, FindRow, ListOverduePointers, LoadPointerJob, CloseStale, RecoverJobWakeup

LEMMA NextPosts ==
  ASSUME "terminal" \notin PushOutcomes
  PROVE  TypeOK /\ Roles /\ Posts /\ [Next]_vars => Posts'
<1> SUFFICES ASSUME TypeOK, Roles, Posts, [Next]_vars PROVE Posts'
  OBVIOUS
<1>0. Roles'
  BY NextRoles
<1>1. ASSUME NEW p \in Procs, Owning(p) \/ Works(p) \/ Crash(p)  PROVE Posts'
  <2>1. Post(p) /\ Role(p) /\ Role(p)' /\ FrameStep(p)
    BY <1>0, <1>1, EachFrameStep DEF Posts, Roles
  <2>2. ASSUME p \in Owners PROVE Post(p)'
    BY <2>1, <2>2, ReminderAssumption DEF Role, Post, At, SessionLabels, PlanLabels, ArmLabels
  <2>3. ASSUME Crash(p) PROVE Post(p)'
    BY <2>3, GotoAt DEF Crash, Post, Idle, At, SweepLabels
  <2>4. ASSUME p \notin Owners, Consuming(p) \/ Arming(p) \/ Recovering(p)
        PROVE  Post(p)'
    <3>1. ASSUME p \in Workers PROVE ~Recovering(p)
      BY <2>1, <3>1, ReminderAssumption DEF Post, SweepLabels, At, Recovering, StartPass, ListDue,
         LoadTarget, Abandon, ListOverdueJobs, FindRow, ListOverduePointers, LoadPointerJob, CloseStale
    <3>2. p \in Workers => frame'[p].then = "idle" /\ pc'[p] \notin SweepLabels
      BY <2>1, <2>4, <3>1, CallbackPost DEF Post
    <3>3. p \notin Workers => frame'[p].msg = None
      BY <2>1 DEF FrameStep, Post
    <3>4. pc'[p] = "ack" => frame'[p].msg # None
      BY <2>4, CallbackPost, SweepPost
    <3> QED BY <3>2, <3>3, <3>4 DEF Post, At
  <2>5. Post(p)'
    BY <1>1, <2>1, <2>2, <2>3, <2>4, RoleSplit
  <2>6. \A q \in Procs \ {p} : Post(q)'
    BY <1>1, EachOneStep DEF Posts, Post, OneStep, At
  <2> QED BY <2>5, <2>6 DEF Posts
<1>2. CASE LoseMessage \/ SkipPass \/ Tick \/ Stop \/ UNCHANGED vars
  BY <1>2 DEF LoseMessage, SkipPass, Tick, Stop, vars, Posts, Post, At
<1> QED BY <1>1, <1>2 DEF Next

-----------------------------------------------------------------------------
(* What the others do, while nothing fails.                                *)

Context == IInv /\ RunsInTime /\ Roles /\ RevisionsKnown /\ Posts /\ Wakes

\* Nobody but the owner's process plans or arms for the first time.
LEMMA StillArmed ==
  ASSUME Context, NEW p \in Procs, p \notin Owners, Consuming(p) \/ Arming(p) \/ Recovering(p)
  PROVE  /\ now' = now /\ (faults' = 0 => faults = 0) /\ (job = None => job' = None)
         /\ Pending' => job' = job /\ Pending
         /\ Armed' => Armed /\ job' = job /\ DueAt' = DueAt
<1>1. /\ UNCHANGED <<now, schedule, intents, enabled>> /\ (faults' = 0 => faults = 0)
      /\ (job = None => job' = None) /\ (Pending' => job' = job)
  BY OtherKeeps DEF Context, IInv, Roles
<1>2. \A q \in Owners : pc'[q] = pc[q]
  BY EachOneStep DEF Context, IInv, OneStep, Works, Procs
<1>3. Pending' => Pending
  BY <1>1 DEF Pending
<1>4. OwnerAt({"create", "revise"})' <=> OwnerAt({"create", "revise"})
  BY <1>2 DEF OwnerAt
<1> QED BY <1>1, <1>3, <1>4 DEF Armed, DueAt, Later

\* The end of an invocation's work: a message is acknowledged only when it is
\* not the one the job waits for.
LEMMA FinishWakes ==
  ASSUME TypeOK, NEW p \in Procs, p \notin Owners, Finish(p),
         Armed' /\ frame[p].msg # None => frame[p].msg.revision # row'.revision
  PROVE  Heading(p)' /\ Carries(p)'
<1>1. /\ frame'[p].msg = frame[p].msg
      /\ pc'[p] \in {"ack", "idle", "listOverdue", "listPointers"}
      /\ frame[p].msg = None => pc'[p] # "ack"
  BY FinishAt, Values
<1>2. Heading(p)'
  BY <1>1 DEF Heading, Fenced, RevLabels, MsgLabels, At
<1>3. Carries(p)'
  BY <1>1 DEF Carries, Publishing, Committed, At
<1> QED BY <1>2, <1>3

\* A step that goes on with the frame it has, but for what it notes down.
LEMMA GoesOn ==
  ASSUME Context, NEW p \in Procs, p \notin Owners, NEW label, row' = row,
         pc'[p] = label, frame'[p].rev = frame[p].rev, frame'[p].msg = frame[p].msg,
         label \notin {"retry", "markFailed", "closeJob", "findRow", "abandon"},
         label \in RevLabels => pc[p] \in RevLabels,
         label \in MsgLabels /\ frame[p].msg # None => pc[p] \in MsgLabels,
         Armed' /\ frame[p].rev = row.revision =>
           (label \in {"create", "revise", "publish", "send"} => frame'[p].due <= DueAt'),
         Armed' /\ frame[p].msg # None /\ frame[p].msg.revision = row.revision =>
           label \notin Committed /\ (label = "claim" => job'.nextAttemptAt <= frame'[p].at)
  PROVE  Heading(p)' /\ Carries(p)'
<1>1. Fenced(p)
  BY DEF Context, Wakes, Headings, Heading
<1>2. Heading(p)'
  BY <1>1 DEF Heading, Fenced, At
<1>3. Carries(p)'
  BY DEF Carries, Publishing, At
<1> QED BY <1>2, <1>3

LEMMA ConsumingWakes ==
  ASSUME OrderlySession, Context, TypeOK', NEW p \in Procs, p \notin Owners, Consuming(p)
  PROVE  /\ Heading(p)' /\ Carries(p)' /\ row' = row /\ sent' = sent
         /\ job' # job => row # None /\ job' # None /\ job'.status # "failed"
         /\ Armed => \A m \in queue : m.revision = row.revision => m \in queue'
<1>0. /\ TypeOK /\ Heading(p) /\ Fenced(p) /\ Carries(p) /\ Post(p) /\ RowArmed /\ JobCalm /\ FrameKnown(p)
      /\ pc[p] \notin {"retry", "markFailed", "closeJob"}
  BY DEF Context, IInv, Wakes, Headings, Heading, Posts, RevisionsKnown
<1>v. /\ frame[p] \in Frame /\ frame[p].at \in Nat /\ frame[p].rev \in Nat \cup {None}
      /\ row # None => row.revision \in Nat
      /\ job # None => job \in Job /\ job.nextAttemptAt \in Nat /\ job.intendedAt \in Nat
      /\ None \notin Int
  BY <1>0, Values
<1>a. Armed' => Armed /\ job' = job /\ job # None /\ job.status = "pending"
  BY StillArmed DEF Armed, Pending
<1> DEFINE Goal == /\ Heading(p)' /\ Carries(p)' /\ row' = row /\ sent' = sent
                   /\ job' # job => row # None /\ job' # None /\ job'.status # "failed"
                   /\ Armed => \A m \in queue : m.revision = row.revision => m \in queue'
<1> SUFFICES Goal
  OBVIOUS
<1>1. CASE Receive(p)
  <2>1. PICK m \in queue : Start(p, "validate", [Idle EXCEPT !.msg = m, !.rev = m.revision])
    BY <1>1 DEF Receive
  <2> DEFINE f == [Idle EXCEPT !.msg = m, !.rev = m.revision]
  <2>2. f \in Frame /\ f.rev = m.revision /\ f.msg = m /\ m.revision \in Nat
    BY <1>0, IdleType DEF TypeOK, Message, Frame
  <2> HIDE DEF f
  <2>3. pc'[p] = "validate" /\ frame'[p].rev = m.revision /\ frame'[p].msg = m
    BY <1>0, <2>1, <2>2, StartAt DEF f
  <2>4. Heading(p)'
    BY <1>v, <2>2, <2>3 DEF Heading, Fenced, RevLabels, MsgLabels, At
  <2>5. Carries(p)'
    BY <2>3 DEF Carries, Publishing, Committed, At
  <2> QED BY <1>1, <2>4, <2>5 DEF Receive
<1>2. CASE Validate(p)
  <2>0. /\ pc[p] = "validate" /\ row' = row /\ sent' = sent /\ queue' = queue /\ job' = job
    BY <1>2 DEF Validate, At
  <2>1. CASE row # None /\ Processable(row, frame[p].rev)
    <3>1. pc'[p] = "inspect" /\ frame'[p] = frame[p]
      BY <1>0, <1>2, <2>1, GotoAt DEF Validate
    <3>2. Heading(p)' /\ Carries(p)'
      BY <2>0, <3>1, GoesOn DEF RevLabels, MsgLabels, Committed
    <3> QED BY <2>0, <3>2
  <2>2. CASE ~(row # None /\ Processable(row, frame[p].rev))
    <3>1. Finish(p)
      BY <1>2, <2>2 DEF Validate
    <3>2. ASSUME Armed', frame[p].msg # None  PROVE frame[p].msg.revision # row'.revision
      <4>1. /\ row # None /\ row.status # "abandoned" /\ row.revision # 0
            /\ row.status \in DeliveryStatus
        BY <1>0, <1>a, <3>2 DEF RowArmed, TypeOK, Delivery
      <4>2. frame[p].rev = frame[p].msg.revision
        BY <1>0, <2>0, <3>2 DEF Fenced, MsgLabels
      <4> QED BY <2>0, <2>2, <4>1, <4>2 DEF Processable, DeliveryStatus
    <3>3. Heading(p)' /\ Carries(p)'
      BY <1>0, <3>1, <3>2, FinishWakes
    <3> QED BY <2>0, <3>3
  <2> QED BY <2>1, <2>2
<1>3. CASE InspectJob(p)
  <2>0. /\ pc[p] = "inspect" /\ row' = row /\ sent' = sent /\ queue' = queue /\ job' = job
    BY <1>3 DEF InspectJob, At
  <2>1. ASSUME Goto(p, "claim", frame[p]), Claimable(job, frame[p].at)
        PROVE  Heading(p)' /\ Carries(p)'
    <3>1. pc'[p] = "claim" /\ frame'[p] = frame[p]
      BY <1>0, <2>1, GotoAt
    <3>2. Armed' => job'.nextAttemptAt <= frame'[p].at
      BY <1>a, <2>1, <3>1 DEF Claimable
    <3> QED BY <2>0, <3>1, <3>2, GoesOn DEF RevLabels, MsgLabels, Committed
  <2>2. ASSUME Goto(p, "reload", frame[p]) PROVE Heading(p)' /\ Carries(p)'
    <3>1. pc'[p] = "reload" /\ frame'[p] = frame[p]
      BY <1>0, <2>2, GotoAt
    <3> QED BY <2>0, <3>1, GoesOn DEF RevLabels, MsgLabels, Committed
  <2>3. ASSUME Finish(p), ~Armed' PROVE Heading(p)' /\ Carries(p)'
    BY <1>0, <2>3, FinishWakes
  <2>4. ASSUME Finish(p), Armed', ~Claimable(job, frame[p].at), job.status \notin {"pending", "failed"}
        PROVE  FALSE
    BY <1>a, <2>4
  <2>5. job = None \/ Finished(job) => ~Armed'
    BY <1>a DEF Finished
  <2> QED BY <1>3, <2>0, <2>1, <2>2, <2>3, <2>4, <2>5 DEF InspectJob
<1>4. CASE ClaimJob(p)
  <2>0. pc[p] = "claim" /\ row' = row /\ sent' = sent /\ queue' = queue
    BY <1>4 DEF ClaimJob, At
  <2>1. CASE job # None /\ ClaimAllowed(job, frame[p].at)
    <3> DEFINE f == [frame[p] EXCEPT !.alert = job.intendedAt, !.round = job.round]
    <3>1. f.rev = frame[p].rev /\ f.msg = frame[p].msg
      BY <1>v DEF Frame
    <3>2. Goto(p, "context", f) /\ job' = Claimed(job, frame[p].at)
      BY <1>4, <2>1 DEF ClaimJob
    <3> HIDE DEF f
    <3>3. pc'[p] = "context" /\ frame'[p].rev = frame[p].rev /\ frame'[p].msg = frame[p].msg
      BY <1>0, <3>1, <3>2, GotoAt
    <3>4. job'.status = "running" /\ job' # None /\ ~Armed'
      <4>1. job'.status = "running"
        BY <1>v, <2>1, <3>2, StatusWritten
      <4>2. job' \in Job
        BY <1>v, <2>1, <3>2, JobUpdates
      <4> QED BY <1>a, <4>1, <4>2, ReminderAssumption DEF Armed, Pending
    <3>5. Heading(p)' /\ Carries(p)'
      BY <2>0, <3>3, <3>4, GoesOn DEF RevLabels, MsgLabels
    <3>6. row # None
      BY <1>0, <2>0 DEF Fenced, RevLabels, FrameKnown, Known
    <3> QED BY <2>0, <3>4, <3>5, <3>6
  <2>2. CASE ~(job # None /\ ClaimAllowed(job, frame[p].at))
    <3>1. Finish(p) /\ job' = job
      BY <1>4, <2>2 DEF ClaimJob
    <3>2. ASSUME Armed', frame[p].msg # None, frame[p].msg.revision = row'.revision  PROVE FALSE
      <4>1. job.nextAttemptAt <= frame[p].at /\ job.nextAttemptAt = job.intendedAt
        BY <1>0, <1>a, <2>0, <3>2 DEF Carries, At, JobCalm, Armed
      <4>2. ClaimAllowed(job, frame[p].at)
        BY <1>a, <1>v, <3>2, <4>1 DEF ClaimAllowed, Claimable, Awaiting
      <4> QED BY <1>a, <2>2, <3>2, <4>2
    <3>3. Heading(p)' /\ Carries(p)'
      BY <1>0, <3>1, <3>2, FinishWakes
    <3> QED BY <2>0, <3>1, <3>3
  <2> QED BY <2>1, <2>2
<1>5. CASE LoadContext(p)
  <2>0. /\ pc[p] = "context" /\ row' = row /\ sent' = sent /\ queue' = queue /\ job' = job
    BY <1>5 DEF LoadContext, At
  <2>1. ASSUME NEW label \in {"push", "suppress"},
               Goto(p, label, [frame[p] EXCEPT !.outcome = SuppressionReason(frame[p])])
        PROVE  Heading(p)' /\ Carries(p)'
    <3> DEFINE f == [frame[p] EXCEPT !.outcome = SuppressionReason(frame[p])]
    <3>1. f.rev = frame[p].rev /\ f.msg = frame[p].msg
      BY <1>v DEF Frame
    <3>2. Goto(p, label, f)
      BY <2>1
    <3> HIDE DEF f
    <3>3. pc'[p] = label /\ frame'[p].rev = frame[p].rev /\ frame'[p].msg = frame[p].msg
      BY <1>0, <3>1, <3>2, GotoAt
    <3>4. ~(Armed' /\ frame[p].msg # None /\ frame[p].msg.revision = row.revision)
      BY <1>0, <1>a, <2>0 DEF Carries, Committed
    <3> QED BY <2>0, <3>3, <3>4, GoesOn DEF RevLabels, MsgLabels
  <2> QED BY <1>5, <2>0, <2>1 DEF LoadContext
<1>6. CASE Push(p)
  <2>0. /\ pc[p] = "push" /\ row' = row /\ sent' = sent /\ queue' = queue /\ job' = job
    BY <1>6 DEF Push, At
  <2>1. PICK answer \in PushOutcomes :
           Goto(p, CASE answer = "accepted" -> "accept"
                     [] answer = "failed"   -> "retry"
                     [] answer = "terminal" -> "disable", frame[p])
    BY <1>6 DEF Push
  <2>2. answer = "accepted"
    BY ReminderAssumption DEF OrderlySession, OneSession
  <2>3. pc'[p] = "accept" /\ frame'[p] = frame[p]
    BY <1>0, <2>1, <2>2, GotoAt
  <2>4. ~(Armed' /\ frame[p].msg # None /\ frame[p].msg.revision = row.revision)
    BY <1>0, <1>a, <2>0 DEF Carries, Committed
  <2>5. Heading(p)' /\ Carries(p)'
    BY <2>0, <2>3, <2>4, GoesOn DEF RevLabels, MsgLabels
  <2> QED BY <2>0, <2>5
<1>7. CASE SuppressDelivery(p) \/ AcceptDelivery(p)
  <2>0. /\ pc[p] \in {"suppress", "accept"} /\ row' = row /\ sent' = sent /\ queue' = queue
        /\ job # None /\ Finish(p)
        /\ \E status \in {"skipped", "completed"}, outcome \in Outcome :
             job' = Settled(job, status, outcome, frame[p].at)
    BY <1>7, <1>v DEF SuppressDelivery, AcceptDelivery, WriteJob, At, Frame, Outcome
  <2>1. job'.status \in {"skipped", "completed"}
    BY <1>v, <2>0, StatusWritten
  <2>2. job' # None
    <3>1. job' \in Job
      BY <1>v, <2>0, JobUpdates DEF JobStatus
    <3> QED BY <3>1, ReminderAssumption
  <2>3. ~Armed'
    BY <1>a, <2>1
  <2>4. Heading(p)' /\ Carries(p)'
    BY <1>0, <2>0, <2>3, FinishWakes
  <2>5. row # None
    BY <1>0, <2>0 DEF Fenced, RevLabels, FrameKnown, Known
  <2> QED BY <2>0, <2>1, <2>2, <2>4, <2>5
<1>8. CASE CloseTerminal(p) \/ ScheduleRetry(p)
  BY <1>0, <1>8 DEF CloseTerminal, ScheduleRetry, WriteJob, At
<1>9. CASE JobGone(p)
  <2>0. pc'[p] = "idle" /\ row' = row /\ sent' = sent /\ queue' = queue /\ job' = job
    BY <1>0, <1>9, GotoAt DEF JobGone
  <2>1. Heading(p)' /\ Carries(p)'
    BY <2>0 DEF Heading, Fenced, Carries, RevLabels, MsgLabels, Publishing, Committed, At
  <2> QED BY <2>0, <2>1
<1>10. CASE Acknowledge(p)
  <2>0. /\ pc'[p] = "idle" /\ row' = row /\ sent' = sent /\ queue' = queue \ {frame[p].msg}
        /\ job' = job /\ pc[p] = "ack"
    BY <1>0, <1>10, GotoAt DEF Acknowledge, At
  <2>1. Heading(p)' /\ Carries(p)'
    BY <2>0 DEF Heading, Fenced, Carries, RevLabels, MsgLabels, Publishing, Committed, At
  <2>2. ASSUME Armed, NEW m \in queue, m.revision = row.revision  PROVE m \in queue'
    BY <1>0, <2>0, <2>2 DEF Post, Carries, Committed, At
  <2> QED BY <2>0, <2>1, <2>2
<1> QED BY <1>1, <1>2, <1>3, <1>4, <1>5, <1>6, <1>7, <1>8, <1>9, <1>10 DEF Consuming

\* A job without a row is not yet overdue: the process that made it will arm it
\* within its run, which the grace outlasts.
LEMMA OverdueHasRow ==
  ASSUME OrderlySession, Context, NEW p \in Procs, At(p, "listOverdue"),
         job # None, OverdueJob(job, frame[p].at, Grace)
  PROVE  row # None
<1> SUFFICES ASSUME row = None PROVE FALSE
  OBVIOUS
<1>1. Pending /\ \E q \in Owners : At(q, "create") /\ frame[q].at < job.nextAttemptAt
  BY DEF Context, Wakes, RowComing
<1>2. PICK q \in Owners : At(q, "create") /\ frame[q].at < job.nextAttemptAt
  BY <1>1
<1>3. frame[p].at <= now /\ now <= frame[q].at + MaxRun
  BY <1>2 DEF Context, RunsInTime, At, Procs
<1>4. job.nextAttemptAt + Grace <= frame[p].at
  BY <1>1 DEF Pending, OverdueJob, LeaseExpired
<1>5. /\ now \in Nat /\ frame[p].at \in Nat /\ frame[q].at \in Nat /\ job.nextAttemptAt \in Nat
      /\ MaxRun \in Nat /\ Grace \in Nat
  BY Values DEF Context, IInv, Procs
<1> QED BY <1>2, <1>3, <1>4, <1>5 DEF OrderlySession

LEMMA RecoveringWakes ==
  ASSUME OrderlySession, Context, TypeOK', NEW p \in Procs, p \notin Owners, Recovering(p)
  PROVE  /\ Heading(p)' /\ Carries(p)' /\ sent' = sent /\ queue' = queue
         /\ row # None => row' # None
         /\ Armed' => row' = row
         /\ job' # job => row # None /\ job' # None /\ job'.status # "failed"
<1>0. /\ TypeOK /\ Fenced(p) /\ Carries(p) /\ Post(p) /\ RowArmed /\ FrameKnown(p)
  BY DEF Context, IInv, Wakes, Headings, Heading, Posts, RevisionsKnown
<1>v. /\ frame[p] \in Frame /\ frame[p].at \in Nat /\ frame[p].rev \in Nat \cup {None}
      /\ row # None => row \in Delivery /\ row.revision \in Nat
      /\ job # None => job \in Job /\ job.nextAttemptAt \in Nat
      /\ None \notin Int /\ None \notin Delivery /\ None \notin Job /\ now \in Nat
  BY <1>0, Values
<1>a. now' = now /\ (Armed' => Armed /\ job' = job /\ job # None /\ job.status = "pending")
  BY StillArmed DEF Armed, Pending
<1>m. frame[p].msg = None
  <2>1. p \notin Workers
    BY <1>0, ReminderAssumption DEF Post, SweepLabels, At, Recovering, StartPass, ListDue, LoadTarget,
       Abandon, ListOverdueJobs, FindRow, ListOverduePointers, LoadPointerJob, CloseStale
  <2> QED BY <1>0, <2>1 DEF Post
<1> DEFINE Goal == /\ Heading(p)' /\ Carries(p)' /\ sent' = sent /\ queue' = queue
                   /\ row # None => row' # None
                   /\ Armed' => row' = row
                   /\ job' # job => row # None /\ job' # None /\ job'.status # "failed"
<1> SUFFICES Goal
  OBVIOUS
<1>f. ASSUME Finish(p) PROVE Heading(p)' /\ Carries(p)'
  BY <1>0, <1>f, <1>m, FinishWakes
<1>g. ASSUME frame'[p].msg = None, pc'[p] \in RevLabels => frame'[p].rev # None,
             At(p, "findRow")' => row' # None, At(p, "abandon")' => ~Armed',
             pc'[p] \notin {"retry", "markFailed", "closeJob", "create", "revise", "send"},
             Armed' /\ pc'[p] = "publish" => frame'[p].due <= DueAt'
      PROVE  Heading(p)' /\ Carries(p)'
  <2>1. Heading(p)'
    BY <1>g DEF Heading, Fenced, At
  <2>2. Carries(p)'
    BY <1>g DEF Carries, Publishing, At
  <2> QED BY <2>1, <2>2
<1>1. CASE StartPass(p)
  <2>1. /\ pc'[p] = "listDue" /\ frame'[p].msg = None
    <3>1. Idle \in Frame /\ Idle.msg = None /\ Start(p, "listDue", Idle)
      BY <1>1, IdleType DEF StartPass, Idle
    <3> QED BY <1>0, <3>1, StartAt
  <2>2. Heading(p)' /\ Carries(p)'
    BY <1>g, <2>1 DEF RevLabels, At
  <2> QED BY <1>1, <2>2 DEF StartPass
<1>2. CASE ListDue(p)
  <2>0. sent' = sent /\ queue' = queue /\ row' = row /\ job' = job
    BY <1>2 DEF ListDue
  <2>1. ASSUME row # None,
               Goto(p, "target", [frame[p] EXCEPT !.rev = row.revision, !.then = "listOverdue"])
        PROVE  Heading(p)' /\ Carries(p)'
    <3> DEFINE f == [frame[p] EXCEPT !.rev = row.revision, !.then = "listOverdue"]
    <3>1. f.rev = row.revision /\ f.msg = frame[p].msg
      BY <1>v DEF Frame
    <3>2. Goto(p, "target", f)
      BY <2>1
    <3> HIDE DEF f
    <3>3. pc'[p] = "target" /\ frame'[p].rev = row.revision /\ frame'[p].msg = None
      BY <1>0, <1>m, <3>1, <3>2, GotoAt
    <3> QED BY <1>g, <1>v, <2>1, <3>3 DEF At
  <2>2. ASSUME Goto(p, "listOverdue", frame[p]) PROVE Heading(p)' /\ Carries(p)'
    <3>1. pc'[p] = "listOverdue" /\ frame'[p] = frame[p]
      BY <1>0, <2>2, GotoAt
    <3> QED BY <1>g, <1>m, <3>1 DEF RevLabels, At
  <2> QED BY <1>2, <2>0, <2>1, <2>2 DEF ListDue, DueDelivery
<1>3. CASE LoadTarget(p)
  <2>0. sent' = sent /\ queue' = queue /\ row' = row /\ job' = job /\ pc[p] = "target"
    BY <1>3 DEF LoadTarget, At
  <2>r. frame[p].rev # None
    BY <1>0, <2>0 DEF Fenced, RevLabels
  <2>1. ASSUME Goto(p, "publish", [frame[p] EXCEPT !.due = WakeupTime(job, frame[p].at)])
        PROVE  Heading(p)' /\ Carries(p)'
    <3> DEFINE f == [frame[p] EXCEPT !.due = WakeupTime(job, frame[p].at)]
    <3>1. f.rev = frame[p].rev /\ f.msg = frame[p].msg /\ f.due = WakeupTime(job, frame[p].at)
      BY <1>v DEF Frame
    <3>2. Goto(p, "publish", f)
      BY <2>1
    <3> HIDE DEF f
    <3>3. /\ pc'[p] = "publish" /\ frame'[p].rev = frame[p].rev /\ frame'[p].msg = None
          /\ frame'[p].due = WakeupTime(job, frame[p].at)
      BY <1>0, <1>m, <3>1, <3>2, GotoAt
    <3>4. Armed' => frame'[p].due <= DueAt'
      BY <1>a, <1>v, <3>3 DEF WakeupTime, DueAt, Later
    <3> QED BY <1>g, <2>r, <3>3, <3>4 DEF At
  <2>2. ASSUME Goto(p, "abandon", frame[p]), ~Armed' PROVE Heading(p)' /\ Carries(p)'
    <3>1. pc'[p] = "abandon" /\ frame'[p] = frame[p]
      BY <1>0, <2>2, GotoAt
    <3> QED BY <1>g, <1>m, <2>2, <2>r, <3>1 DEF At
  <2>3. ~(job # None /\ Awaiting(job, frame[p].at)) => ~Armed'
    BY <1>a DEF Awaiting
  <2> QED BY <1>3, <1>f, <2>0, <2>1, <2>2, <2>3 DEF LoadTarget
<1>4. CASE Abandon(p)
  <2>0. /\ sent' = sent /\ queue' = queue /\ job' = job /\ pc[p] = "abandon"
        /\ row' = (IF Targets(row, frame[p].rev) THEN Abandoned(row) ELSE row)
        /\ Heading(p)' /\ Carries(p)'
    BY <1>4, <1>f DEF Abandon, AbandonFence, At
  <2>1. row # None => row' # None
    BY <1>v, <2>0, RowWrites
  <2>2. Armed' => row' = row
    BY <1>0, <1>a, <2>0 DEF Targets, Fenced, RevLabels, Carries, At
  <2> QED BY <2>0, <2>1, <2>2
<1>5. CASE ListOverdueJobs(p)
  <2>0. sent' = sent /\ queue' = queue /\ row' = row /\ job' = job /\ At(p, "listOverdue")
    BY <1>5 DEF ListOverdueJobs
  <2>1. ASSUME job # None, OverdueJob(job, frame[p].at, Grace),
               Goto(p, "findRow", [frame[p] EXCEPT !.alert = job.intendedAt, !.then = "listPointers"])
        PROVE  Heading(p)' /\ Carries(p)'
    <3> DEFINE f == [frame[p] EXCEPT !.alert = job.intendedAt, !.then = "listPointers"]
    <3>1. f.msg = frame[p].msg
      BY <1>v DEF Frame
    <3>2. Goto(p, "findRow", f)
      BY <2>1
    <3> HIDE DEF f
    <3>3. pc'[p] = "findRow" /\ frame'[p].msg = None
      BY <1>0, <1>m, <3>1, <3>2, GotoAt
    <3>4. row' # None
      BY <2>0, <2>1, OverdueHasRow
    <3> QED BY <1>g, <3>3, <3>4 DEF RevLabels, At
  <2>2. ASSUME Goto(p, "listPointers", frame[p]) PROVE Heading(p)' /\ Carries(p)'
    <3>1. pc'[p] = "listPointers" /\ frame'[p] = frame[p]
      BY <1>0, <2>2, GotoAt
    <3> QED BY <1>g, <1>m, <3>1 DEF RevLabels, At
  <2> QED BY <1>5, <2>0, <2>1, <2>2 DEF ListOverdueJobs
<1>6. ASSUME NEW label \in {"closeStale", "reload", "pointerJob"}, NEW rev, rev # None,
             Goto(p, label, [frame[p] EXCEPT !.rev = rev])
      PROVE  Heading(p)' /\ Carries(p)'
  <2> DEFINE f == [frame[p] EXCEPT !.rev = rev]
  <2>1. f.rev = rev /\ f.msg = frame[p].msg
    BY <1>v DEF Frame
  <2>2. Goto(p, label, f)
    BY <1>6
  <2> HIDE DEF f
  <2>3. pc'[p] = label /\ frame'[p].rev = rev /\ frame'[p].msg = None
    BY <1>0, <1>m, <2>1, <2>2, GotoAt
  <2> QED BY <1>6, <1>g, <2>3 DEF At
<1>7. CASE FindRow(p)
  <2>0. sent' = sent /\ queue' = queue /\ row' = row /\ job' = job /\ At(p, "findRow")
    BY <1>7 DEF FindRow
  <2>1. row # None /\ row.revision # None
    BY <1>0, <1>v, <2>0 DEF Fenced
  <2> QED BY <1>6, <1>7, <1>f, <2>0, <2>1 DEF FindRow, RecoverJobWakeup
<1>8. CASE ListOverduePointers(p)
  <2>0. sent' = sent /\ queue' = queue /\ row' = row /\ job' = job
    BY <1>8 DEF ListOverduePointers
  <2>1. row # None => row.revision # None
    BY <1>v
  <2> QED BY <1>6, <1>8, <1>f, <2>0, <2>1 DEF ListOverduePointers, DueDelivery
<1>9. CASE LoadPointerJob(p)
  <2>0. sent' = sent /\ queue' = queue /\ row' = row /\ job' = job /\ frame[p].rev # None
    BY <1>0, <1>9 DEF LoadPointerJob, Fenced, RevLabels, At
  <2>1. ASSUME Goto(p, "abandon", frame[p]), ~Armed' PROVE Heading(p)' /\ Carries(p)'
    <3>1. pc'[p] = "abandon" /\ frame'[p] = frame[p]
      BY <1>0, <2>1, GotoAt
    <3> QED BY <1>g, <1>m, <2>0, <2>1, <3>1 DEF At
  <2>2. ~(job # None /\ Awaiting(job, frame[p].at)) => ~Armed'
    BY <1>a DEF Awaiting
  <2> QED BY <1>6, <1>9, <1>f, <2>0, <2>1, <2>2 DEF LoadPointerJob, RecoverJobWakeup
<1>10. CASE CloseStale(p)
  <2>0. /\ sent' = sent /\ queue' = queue /\ row' = row /\ pc[p] = "closeStale"
        /\ Heading(p)' /\ Carries(p)'
    BY <1>10, <1>f DEF CloseStale, At
  <2>1. row # None
    BY <1>0, <2>0 DEF Fenced, RevLabels, FrameKnown, Known
  <2>2. ASSUME job' # job  PROVE job' # None /\ job'.status # "failed"
    <3>1. job # None /\ job' = Settled(job, "skipped", "suppressed_stale", frame[p].at)
      BY <1>10, <2>2 DEF CloseStale
    <3>2. job'.status = "skipped"
      BY <1>v, <3>1, StatusWritten
    <3>3. job' \in Job
      BY <1>v, <3>1, JobUpdates DEF JobStatus, Outcome
    <3> QED BY <1>v, <3>2, <3>3
  <2> QED BY <2>0, <2>1, <2>2
<1> QED BY <1>1, <1>2, <1>3, <1>4, <1>5, <1>7, <1>8, <1>9, <1>10 DEF Recovering

-----------------------------------------------------------------------------
(* Arming, by the owner's process or by another.                           *)

LEMMA OwnerArmed ==
  ASSUME OneSession, NEW p \in Owners
  PROVE  /\ Armed <=> Pending /\ pc[p] \notin {"create", "revise"}
         /\ Armed' <=> Pending' /\ pc'[p] \notin {"create", "revise"}
<1>1. \A q \in Owners : q = p
  BY DEF OneSession
<1> QED BY <1>1 DEF Armed, OwnerAt

LEMMA FinishEither ==
  ASSUME TypeOK, NEW p \in Procs, Role(p), Finish(p),
         Armed' /\ frame[p].msg # None => frame[p].msg.revision # row'.revision
  PROVE  Heading(p)' /\ Carries(p)'
<1>1. CASE p \in Owners
  <2>1. pc'[p] = "idle"
    BY <1>1, FinishAt DEF Role
  <2> QED BY <1>1, <2>1 DEF Heading, OwnerPlan, PlanLabels, Carries, Publishing, Committed, At
<1> QED BY <1>1, FinishWakes

LEMMA RowStays ==
  ASSUME TypeOK, TypeOK', RowArmed,
         Armed' => /\ Armed /\ row' = row /\ sent' = sent /\ DueAt <= DueAt'
                   /\ \A m \in queue : m.revision = row.revision => m \in queue'
  PROVE  RowArmed'
<1> SUFFICES ASSUME Armed'
             PROVE  /\ row' # None /\ row'.status # "abandoned" /\ row'.revision # 0
                    /\ row'.status # "published" => row'.nextAttemptAt <= DueAt'
                    /\ row'.revision \in sent' =>
                         \E m \in queue' : m.revision = row'.revision
                                           /\ m.visibleAt <= DueAt' + MaxRun
  BY DEF RowArmed
<1>1. /\ Armed /\ row' = row /\ sent' = sent /\ DueAt <= DueAt'
      /\ \A m \in queue : m.revision = row.revision => m \in queue'
  OBVIOUS
<1>2. /\ DueAt \in Nat /\ DueAt' \in Nat /\ MaxRun \in Nat
      /\ row # None => row.nextAttemptAt \in Nat
      /\ \A m \in queue : m.visibleAt \in Nat
  <2>1. job # None /\ job' # None
    BY <1>1 DEF Armed, Pending
  <2> QED BY <2>1, ReminderAssumption DEF TypeOK, Job, Delivery, Message, DueAt, Later
<1>3. \A m \in queue : m.visibleAt <= DueAt + MaxRun => m.visibleAt <= DueAt' + MaxRun
  BY <1>1, <1>2
<1>4. row # None /\ row.status # "abandoned" /\ row.revision # 0
  BY <1>1 DEF RowArmed
<1>5. row'.status # "published" => row'.nextAttemptAt <= DueAt'
  BY <1>1, <1>2, <1>4 DEF RowArmed
<1>6. row'.revision \in sent' =>
        \E m \in queue' : m.revision = row'.revision /\ m.visibleAt <= DueAt' + MaxRun
  BY <1>1, <1>3 DEF RowArmed
<1> QED BY <1>1, <1>4, <1>5, <1>6

\* A new revision: nobody has sent it yet, and the next pass will.
LEMMA RowRenewed ==
  ASSUME RevisionsKnown, NEW at \in Nat, row \in Delivery, row' = Revised(row, at), sent' = sent,
         Armed' => at <= DueAt'
  PROVE  RowArmed'
<1>1. row'.revision = row.revision + 1 /\ row'.status = "pending" /\ row'.nextAttemptAt = at
  BY RowWrites
<1>2. row' # None /\ row.revision \in Nat
  <2>1. row' \in Delivery
    BY RowWrites
  <2> QED BY <2>1, ReminderAssumption DEF Delivery
<1>3. row'.revision \notin sent'
  BY <1>1, <1>2 DEF RevisionsKnown, Known
<1> QED BY <1>1, <1>2, <1>3 DEF RowArmed

LEMMA PointerInTime ==
  ASSUME NEW due \in Nat, NEW at \in Nat, NEW limit \in Nat, now \in Nat,
         now <= at + MaxRun, due <= limit, now <= limit
  PROVE  now + QueueDelay(due, at) <= limit + MaxRun
<1>1. MaxDelay \in Nat /\ MaxRun \in Nat
  BY Constants, ReminderAssumption
<1>2. CASE due <= at
  BY <1>1, <1>2 DEF QueueDelay
<1>3. CASE ~(due <= at)
  <2>1. QueueDelay(due, at) <= due - at /\ QueueDelay(due, at) \in Nat
    BY <1>1, <1>3 DEF QueueDelay
  <2> QED BY <1>1, <1>3, <2>1
<1> QED BY <1>2, <1>3

\* A send of the current revision puts its pointer on the queue, in time.
LEMMA SendArmed ==
  ASSUME Context, TypeOK', NEW p \in Procs, At(p, "send"), Accept(frame[p]),
         row' = row, job' = job, now' = now, Armed' => Armed
  PROVE  RowArmed'
<1>0. TypeOK /\ RowArmed /\ Carries(p) /\ frame[p].rev \in Nat
  BY DEF Context, IInv, Wakes, FencedPublish, At
<1> DEFINE m == Pointer(frame[p].rev, DelayOf(frame[p]), now)
<1>1. DueAt' = DueAt /\ sent' = sent \cup {frame[p].rev} /\ queue \subseteq queue'
  BY DEF DueAt, Later, Accept
<1>2. CASE frame[p].rev # row.revision \/ frame[p].rev \in sent \/ ~Armed'
  <2> SUFFICES ASSUME Armed' PROVE RowArmed'
    BY DEF RowArmed
  <2>1. row'.revision \in sent' => row.revision \in sent
    BY <1>1, <1>2
  <2>2. row.revision \in sent =>
          \E x \in queue' : x.revision = row.revision /\ x.visibleAt <= DueAt' + MaxRun
    BY <1>0, <1>1 DEF RowArmed
  <2> QED BY <1>0, <1>1, <2>1, <2>2 DEF RowArmed
<1>3. CASE Armed' /\ frame[p].rev = row.revision /\ frame[p].rev \notin sent
  <2>1. m \in queue'
    BY <1>3 DEF Accept
  <2>2. m.revision = frame[p].rev /\ m.visibleAt = now + QueueDelay(frame[p].due, frame[p].at)
    BY DEF Pointer, DelayOf
  <2>3. /\ frame[p].due <= DueAt /\ now <= DueAt /\ now <= frame[p].at + MaxRun
        /\ frame[p].due \in Nat /\ frame[p].at \in Nat /\ now \in Nat /\ DueAt \in Nat
    <3>1. frame[p].due \in Nat /\ frame[p].at \in Nat /\ now \in Nat
      BY <1>0, Values
    <3>2. job # None /\ job.nextAttemptAt \in Nat
      BY <1>0, <1>3, Values DEF Armed, Pending
    <3>3. DueAt \in Nat /\ now <= DueAt
      BY <3>1, <3>2 DEF DueAt, Later
    <3>4. frame[p].due <= DueAt
      BY <1>0, <1>3 DEF Carries, Publishing, At
    <3>5. now <= frame[p].at + MaxRun
      BY DEF Context, RunsInTime, At
    <3> QED BY <3>1, <3>3, <3>4, <3>5
  <2> HIDE DEF m
  <2>4. m.visibleAt <= DueAt' + MaxRun
    BY <1>1, <2>2, <2>3, PointerInTime
  <2>5. Armed
    BY <1>3
  <2> QED BY <1>0, <1>1, <1>3, <2>1, <2>2, <2>4, <2>5 DEF RowArmed
<1> QED BY <1>2, <1>3

\* What arming does to the row, and what it leaves for its process and others.
ArmStep(p) ==
  /\ Heading(p)' /\ Carries(p)' /\ RowArmed' /\ job' = job
  /\ row # None \/ At(p, "create") => row' # None
  /\ \/ Armed' => Armed /\ row'.revision = row.revision
     \/ row # None /\ row'.revision = row.revision + 1

LEMMA ArmingHas ==
  ASSUME OrderlySession, Context, NEW p \in Procs, Arming(p)
  PROVE  /\ TypeOK /\ Role(p) /\ Heading(p) /\ Carries(p) /\ RowArmed /\ RevisionsKnown
         /\ p \notin Owners => Fenced(p)
         /\ p \in Owners => OwnerPlan(p) /\ frame[p].msg = None
         /\ now' = now /\ job' = job /\ DueAt' = DueAt
         /\ p \notin Owners => (Armed' => Armed)
         /\ p \in Owners => /\ Armed <=> Pending /\ pc[p] \notin {"create", "revise"}
                            /\ Armed' <=> Pending /\ pc'[p] \notin {"create", "revise"}
         /\ frame[p].msg # None /\ row # None => frame[p].msg.revision <= row.revision
         /\ pc[p] # "idle" /\ frame[p].at <= now
         /\ \A q \in Procs \ {p} : pc'[q] = pc[q] /\ frame'[q] = frame[q]
<1>1. /\ TypeOK /\ Role(p) /\ Heading(p) /\ Carries(p) /\ RowArmed /\ RevisionsKnown /\ FrameKnown(p)
      /\ OneSession
  BY DEF Context, IInv, Roles, Wakes, Headings, RevisionsKnown, OrderlySession
<1>2. now' = now /\ job' = job /\ pc[p] # "idle"
  BY DEF Arming, CreateRow, ReviseRow, ReadForPublish, Send, MarkPublished,
     RecordPublishFailure, ReloadForRearm, At
<1>3. DueAt' = DueAt /\ (Pending' <=> Pending)
  BY <1>2 DEF DueAt, Later, Pending
<1>4. p \notin Owners => (Armed' => Armed)
  BY StillArmed
<1>5. p \in Owners => /\ Armed <=> Pending /\ pc[p] \notin {"create", "revise"}
                      /\ Armed' <=> Pending /\ pc'[p] \notin {"create", "revise"}
  BY <1>1, <1>3, OwnerArmed
<1>6. OneStep(p)
  BY <1>1, EachOneStep DEF Works
<1>7. frame[p].at <= now
  BY <1>2 DEF Context, RunsInTime
<1> QED BY <1>1, <1>2, <1>3, <1>4, <1>5, <1>6, <1>7 DEF Heading, Role, FrameKnown, Known, OneStep

LEMMA CreateWakes ==
  ASSUME OrderlySession, Context, TypeOK', NEW p \in Procs, CreateRow(p)
  PROVE  ArmStep(p)
<1>0. Arming(p) /\ pc[p] = "create" /\ sent' = sent /\ queue' = queue
  BY DEF Arming, CreateRow, At
<1>h. /\ TypeOK /\ Carries(p) /\ RowArmed /\ job' = job /\ DueAt' = DueAt
      /\ p \notin Owners => Fenced(p) /\ (Armed' => Armed)
      /\ p \in Owners => OwnerPlan(p) /\ (Armed' <=> Pending /\ pc'[p] \notin {"create", "revise"})
  BY <1>0, ArmingHas
<1>v. /\ FirstPublishAttemptAt(frame[p]) \in Nat /\ None \notin Delivery
      /\ DueAt \in Nat \/ ~Armed
  <2>1. frame[p].at \in Nat /\ frame[p].due \in Nat /\ now \in Nat
        /\ (job # None => job.nextAttemptAt \in Nat)
    BY <1>h, Values
  <2> QED BY <2>1, ReminderAssumption DEF FirstPublishAttemptAt, DueAt, Later, Armed, Pending
<1>1. pc'[p] = "revise" /\ frame'[p] = frame[p]
  BY <1>h, GotoAt DEF CreateRow
<1>2. row' # None /\ (row # None => row' = row)
  BY <1>v, RowType DEF CreateRow
<1>3. Armed' => Armed /\ row # None
  BY <1>h, <1>1 DEF RowArmed
<1>4. Heading(p)'
  <2>1. CASE p \in Owners
    BY <1>0, <1>1, <1>2, <1>h, <2>1 DEF Heading, OwnerPlan, PlanLabels, Pending, At
  <2>2. CASE p \notin Owners
    BY <1>0, <1>1, <1>2, <1>h, <2>2 DEF Heading, Fenced, RevLabels, MsgLabels, At
  <2> QED BY <2>1, <2>2
<1>5. Carries(p)'
  <2>1. Publishing(p)' => p \notin Owners /\ Publishing(p)
    BY <1>0, <1>1 DEF Publishing
  <2> QED BY <1>0, <1>1, <1>2, <1>3, <1>h, <2>1 DEF Carries, Committed, At
<1>6. RowArmed'
  <2>1. Armed' => DueAt <= DueAt'
    BY <1>3, <1>h, <1>v
  <2> QED BY <1>0, <1>2, <1>3, <1>h, <2>1, RowStays
<1> QED BY <1>2, <1>3, <1>4, <1>5, <1>6, <1>h DEF ArmStep

LEMMA ReviseWakes ==
  ASSUME OrderlySession, Context, TypeOK', NEW p \in Procs, ReviseRow(p)
  PROVE  ArmStep(p)
<1>0. Arming(p) /\ pc[p] = "revise" /\ sent' = sent /\ queue' = queue
  BY DEF Arming, ReviseRow, At
<1>h. /\ TypeOK /\ Role(p) /\ Carries(p) /\ RowArmed /\ RevisionsKnown /\ job' = job /\ DueAt' = DueAt
      /\ p \notin Owners => Fenced(p) /\ (Armed' => Armed)
      /\ p \in Owners => /\ OwnerPlan(p) /\ frame[p].msg = None
                         /\ Armed' <=> Pending /\ pc'[p] \notin {"create", "revise"}
      /\ frame[p].msg # None /\ row # None => frame[p].msg.revision <= row.revision
      /\ frame[p].at <= now
  BY <1>0, ArmingHas
<1>v. /\ frame[p] \in Frame /\ frame[p].at \in Nat /\ frame[p].due \in Nat /\ now \in Nat
      /\ frame[p].rev \in Nat \cup {None}
      /\ row # None => row \in Delivery /\ row.revision \in Nat
      /\ job # None => job.nextAttemptAt \in Nat
      /\ None \notin Int /\ None \notin Delivery
  BY <1>h, Values
<1>d. Armed' \/ Armed => DueAt \in Nat /\ now <= DueAt /\ job.nextAttemptAt <= DueAt
  BY <1>h, <1>v DEF DueAt, Later, Armed, Pending
<1>1. CASE Targets(row, frame[p].rev)
  <2>1. row # None /\ row' = Revised(row, FirstPublishAttemptAt(frame[p]))
    BY <1>1 DEF ReviseRow, Targets
  <2>2. FirstPublishAttemptAt(frame[p]) \in Nat
    BY <1>v DEF FirstPublishAttemptAt
  <2>3. row' # None /\ row'.revision = row.revision + 1
    BY <1>v, <2>1, <2>2, RowWrites
  <2>4. Armed' => frame[p].due <= DueAt
    <3>1. CASE p \in Owners
      BY <1>0, <1>d, <1>h, <3>1 DEF OwnerPlan
    <3>2. CASE p \notin Owners
      <4>1. frame[p].rev = row.revision
        BY <1>0, <1>1, <1>h, <3>2 DEF Targets, Fenced, RevLabels
      <4> QED BY <1>0, <1>h, <3>2, <4>1 DEF Carries, Publishing
    <3> QED BY <3>1, <3>2
  <2>5. Armed' => FirstPublishAttemptAt(frame[p]) <= DueAt'
    BY <1>d, <1>h, <1>v, <2>4 DEF FirstPublishAttemptAt
  <2>6. RowArmed'
    BY <1>0, <1>h, <1>v, <2>1, <2>2, <2>5, RowRenewed
  <2>7. frame[p].msg # None => frame[p].msg.revision # row'.revision
    <3>1. frame[p].msg # None => frame[p].msg.revision \in Nat
      BY <1>h, Values DEF Message
    <3> QED BY <1>h, <1>v, <2>1, <2>3, <3>1
  <2>8. Heading(p)' /\ Carries(p)'
    <3>1. CASE PublishAhead
      <4> DEFINE f == [frame[p] EXCEPT !.rev = row.revision + 1]
      <4>1. f.rev = row.revision + 1 /\ f.msg = frame[p].msg /\ f.due = frame[p].due
        BY <1>v DEF Frame
      <4>2. Goto(p, "publish", f)
        BY <1>1, <3>1 DEF ReviseRow
      <4> HIDE DEF f
      <4>3. /\ pc'[p] = "publish" /\ frame'[p].rev = row.revision + 1
            /\ frame'[p].msg = frame[p].msg /\ frame'[p].due = frame[p].due
        BY <1>h, <4>1, <4>2, GotoAt
      <4>4. frame'[p].rev # None
        BY <1>v, <2>1, <4>3
      <4>5. Heading(p)'
        BY <4>3, <4>4 DEF Heading, OwnerPlan, PlanLabels, Fenced, MsgLabels, At
      <4>6. Carries(p)'
        BY <1>h, <2>4, <2>7, <4>3 DEF Carries, At
      <4> QED BY <4>5, <4>6
    <3>2. CASE ~PublishAhead
      <4>1. Finish(p)
        BY <1>1, <3>2 DEF ReviseRow
      <4> QED BY <1>h, <2>7, <4>1, FinishEither
    <3> QED BY <3>1, <3>2
  <2> QED BY <1>h, <2>1, <2>3, <2>6, <2>8 DEF ArmStep
<1>2. CASE ~Targets(row, frame[p].rev)
  <2>1. Finish(p) /\ row' = row
    BY <1>2 DEF ReviseRow
  <2>2. p \notin Owners
    BY <1>0, <1>2, <1>h DEF Targets, OwnerPlan, At
  <2>3. Armed' => Armed /\ row # None /\ frame[p].rev # row.revision
    BY <1>2, <1>h, <2>2 DEF Targets, RowArmed
  <2>4. frame[p].msg # None => frame[p].rev = frame[p].msg.revision
    BY <1>0, <1>h, <2>2 DEF Fenced, MsgLabels
  <2>5. Heading(p)' /\ Carries(p)'
    BY <1>h, <2>1, <2>3, <2>4, FinishEither
  <2>6. RowArmed'
    BY <1>0, <1>d, <1>h, <2>1, <2>3, RowStays
  <2> QED BY <1>0, <1>h, <2>1, <2>3, <2>5, <2>6 DEF ArmStep, At
<1> QED BY <1>1, <1>2

LEMMA PublishWakes ==
  ASSUME OrderlySession, Context, TypeOK', NEW p \in Procs, ReadForPublish(p)
  PROVE  ArmStep(p)
<1>0. Arming(p) /\ pc[p] = "publish" /\ row' = row /\ sent' = sent /\ queue' = queue
  BY DEF Arming, ReadForPublish, At
<1>h. /\ TypeOK /\ Role(p) /\ Heading(p) /\ Carries(p) /\ RowArmed /\ job' = job /\ DueAt' = DueAt
      /\ p \notin Owners => Fenced(p) /\ (Armed' => Armed)
      /\ p \in Owners => Armed <=> Pending /\ pc[p] \notin {"create", "revise"}
      /\ p \in Owners => (Armed' => Pending)
  BY <1>0, ArmingHas
<1>1. Armed' => Armed
  BY <1>0, <1>h
<1>d. Armed => DueAt \in Nat
  <2>1. now \in Nat /\ (job # None => job.nextAttemptAt \in Nat)
    BY <1>h, Values
  <2> QED BY <2>1 DEF DueAt, Later, Armed, Pending
<1>2. RowArmed'
  BY <1>0, <1>1, <1>d, <1>h, RowStays
<1>3. Heading(p)' /\ Carries(p)'
  <2>1. CASE Targets(row, frame[p].rev)
    <3>1. pc'[p] = "send" /\ frame'[p] = frame[p]
      BY <1>h, <2>1, GotoAt DEF ReadForPublish
    <3>2. Heading(p)'
      BY <1>0, <1>h, <3>1 DEF Heading, OwnerPlan, PlanLabels, Fenced, RevLabels, MsgLabels, At
    <3>3. Carries(p)'
      BY <1>0, <1>1, <1>h, <3>1 DEF Carries, Publishing, Committed, At
    <3> QED BY <3>2, <3>3
  <2>2. CASE ~Targets(row, frame[p].rev)
    <3>1. Finish(p)
      BY <2>2 DEF ReadForPublish
    <3>2. Armed' /\ frame[p].msg # None => frame[p].msg.revision # row'.revision
      BY <1>0, <1>1, <1>h DEF Carries, Committed
    <3> QED BY <1>h, <3>1, <3>2, FinishEither
  <2> QED BY <2>1, <2>2
<1> QED BY <1>0, <1>1, <1>2, <1>3, <1>h DEF ArmStep, At

LEMMA SendWakes ==
  ASSUME OrderlySession, Context, TypeOK', faults = 0, faults' = 0, NEW p \in Procs, Send(p)
  PROVE  ArmStep(p)
<1>0. Arming(p) /\ pc[p] = "send" /\ At(p, "send") /\ row' = row
  BY DEF Arming, Send, At
<1>h. /\ TypeOK /\ Role(p) /\ Heading(p) /\ Carries(p) /\ RowArmed /\ job' = job /\ DueAt' = DueAt
      /\ now' = now
      /\ p \notin Owners => Fenced(p) /\ (Armed' => Armed)
      /\ p \in Owners => Armed <=> Pending /\ pc[p] \notin {"create", "revise"}
      /\ p \in Owners => (Armed' => Pending)
  BY <1>0, ArmingHas
<1>1. Armed' => Armed
  BY <1>0, <1>h
<1>2. Accept(frame[p]) /\ Goto(p, "mark", frame[p])
  BY DEF Send
<1>3. RowArmed'
  BY <1>0, <1>1, <1>2, <1>h, SendArmed
<1>4. pc'[p] = "mark" /\ frame'[p] = frame[p]
  BY <1>2, <1>h, GotoAt
<1>5. Heading(p)'
  BY <1>0, <1>4, <1>h DEF Heading, OwnerPlan, PlanLabels, Fenced, RevLabels, MsgLabels, At
<1>6. Carries(p)'
  BY <1>0, <1>1, <1>4, <1>h DEF Carries, Publishing, Committed, At
<1> QED BY <1>0, <1>1, <1>3, <1>5, <1>6, <1>h DEF ArmStep, At

LEMMA MarkWakes ==
  ASSUME OrderlySession, Context, TypeOK', NEW p \in Procs, MarkPublished(p)
  PROVE  ArmStep(p)
<1>0. Arming(p) /\ pc[p] = "mark" /\ sent' = sent /\ queue' = queue /\ Finish(p)
  BY DEF Arming, MarkPublished, At
<1>h. /\ TypeOK /\ Role(p) /\ Heading(p) /\ Carries(p) /\ RowArmed /\ job' = job /\ DueAt' = DueAt
      /\ p \notin Owners => (Armed' => Armed)
      /\ p \in Owners => Armed <=> Pending /\ pc[p] \notin {"create", "revise"}
      /\ p \in Owners => (Armed' => Pending)
  BY <1>0, ArmingHas
<1>1. Armed' => Armed
  BY <1>0, <1>h
<1>v. /\ frame[p].at \in Nat /\ frame[p].due \in Nat /\ now \in Nat
      /\ row # None => row \in Delivery
      /\ None \notin Delivery /\ (job # None => job.nextAttemptAt \in Nat)
  BY <1>h, Values
<1>d. Armed => DueAt \in Nat
  BY <1>v DEF DueAt, Later, Armed, Pending
<1>2. \/ row' = row
      \/ /\ row # None /\ row' # None /\ row'.revision = row.revision
         /\ row'.status = "published"
  <2>1. CASE Targets(row, MarkFence(frame[p]))
    <3>1. row # None /\ row' = MarkedPublished(row, frame[p].at, frame[p].at + DelayOf(frame[p]))
      BY <2>1 DEF MarkPublished, Targets
    <3>2. DelayOf(frame[p]) \in Nat
      BY <1>v, DelayType DEF DelayOf
    <3>3. row' \in Delivery /\ row'.revision = row.revision
      BY <1>v, <3>1, <3>2, RowWrites
    <3>4. row'.status = "published"
      BY <1>v, <3>1 DEF MarkedPublished, Delivery
    <3> QED BY <1>v, <3>1, <3>3, <3>4
  <2>2. CASE ~Targets(row, MarkFence(frame[p]))
    BY <2>2 DEF MarkPublished
  <2> QED BY <2>1, <2>2
<1>3. RowArmed'
  <2>1. CASE row' = row
    BY <1>0, <1>1, <1>d, <1>h, <2>1, RowStays
  <2>2. CASE row' # row
    BY <1>0, <1>1, <1>2, <1>h, <2>2 DEF RowArmed
  <2> QED BY <2>1, <2>2
<1>4. Armed' /\ frame[p].msg # None => frame[p].msg.revision # row'.revision
  BY <1>0, <1>1, <1>2, <1>h DEF Carries, Committed
<1>5. Heading(p)' /\ Carries(p)'
  BY <1>0, <1>4, <1>h, FinishEither
<1> QED BY <1>0, <1>1, <1>2, <1>3, <1>5, <1>h DEF ArmStep, At

LEMMA ReloadWakes ==
  ASSUME OrderlySession, Context, TypeOK', NEW p \in Procs, p \notin Owners, ReloadForRearm(p)
  PROVE  ArmStep(p)
<1>0. Arming(p) /\ pc[p] = "reload" /\ row' = row /\ sent' = sent /\ queue' = queue
  BY DEF Arming, ReloadForRearm, At
<1>h. /\ TypeOK /\ Role(p) /\ Carries(p) /\ RowArmed /\ job' = job /\ DueAt' = DueAt
      /\ Fenced(p) /\ (Armed' => Armed)
  BY <1>0, ArmingHas
<1>v. /\ frame[p] \in Frame /\ now \in Nat /\ (job # None => job.nextAttemptAt \in Nat)
  BY <1>h, Values
<1>d. Armed => /\ DueAt \in Nat /\ job.nextAttemptAt <= DueAt
               /\ job # None /\ job.status = "pending"
  BY <1>v DEF DueAt, Later, Armed, Pending
<1>1. RowArmed'
  BY <1>0, <1>d, <1>h, RowStays
<1>2. Heading(p)' /\ Carries(p)'
  <2>1. CASE job # None /\ Awaiting(job, frame[p].at)
    <3> DEFINE f == [frame[p] EXCEPT !.rev = RearmFence(frame[p]), !.due = WakeupTime(job, frame[p].at)]
    <3>1. f.rev = frame[p].rev /\ f.msg = frame[p].msg /\ f.due = WakeupTime(job, frame[p].at)
      BY <1>v DEF Frame, RearmFence
    <3>2. Goto(p, "create", f)
      BY <2>1 DEF ReloadForRearm
    <3> HIDE DEF f
    <3>3. /\ pc'[p] = "create" /\ frame'[p].rev = frame[p].rev /\ frame'[p].msg = frame[p].msg
          /\ frame'[p].due = WakeupTime(job, frame[p].at)
      BY <1>h, <3>1, <3>2, GotoAt
    <3>4. Armed' => frame'[p].due <= DueAt'
      BY <1>d, <1>h, <3>3 DEF WakeupTime
    <3> QED BY <1>0, <3>3, <3>4, GoesOn DEF RevLabels, MsgLabels, Committed
  <2>2. CASE ~(job # None /\ Awaiting(job, frame[p].at))
    <3>1. Finish(p)
      BY <2>2 DEF ReloadForRearm
    <3>2. ~Armed'
      BY <1>d, <1>h, <2>2 DEF Awaiting
    <3> QED BY <1>h, <3>1, <3>2, FinishEither
  <2> QED BY <2>1, <2>2
<1> QED BY <1>0, <1>1, <1>2, <1>h DEF ArmStep, At

LEMMA ArmingWakes ==
  ASSUME OrderlySession, Context, TypeOK', faults = 0, faults' = 0,
         NEW p \in Procs, Arming(p), p \in Owners => ~At(p, "reload")
  PROVE  ArmStep(p)
<1>1. ~RecordPublishFailure(p)
  <2>1. Heading(p)
    BY DEF Context, Wakes, Headings
  <2> QED BY <2>1 DEF RecordPublishFailure, Heading, At
<1>2. ReloadForRearm(p) => p \notin Owners
  BY DEF ReloadForRearm
<1> QED BY <1>1, <1>2, CreateWakes, ReviseWakes, PublishWakes, SendWakes, MarkWakes, ReloadWakes
     DEF Arming

-----------------------------------------------------------------------------
(* Planning, by the owner's process.                                       *)

\* What the owner's mutations leave alone, and where their process is.
LEMMA PlanningHas ==
  ASSUME OrderlySession, Context, NEW p \in Owners, Owning(p) \/ Planning(p)
  PROVE  /\ TypeOK /\ p \in Procs /\ OneSession /\ Role(p) /\ Role(p)' /\ OwnerPlan(p) /\ JobCalm
         /\ UNCHANGED <<now, row, queue, sent, faults>>
         /\ pc[p] \in SessionLabels \cup {"idle"}
         /\ frame[p].alert \in Nat /\ frame[p].at \in Nat /\ None \notin Job
         /\ job # None => job \in Job
         /\ row = None => job = None
         /\ p \notin Workers
         /\ ~Register(p) /\ ~OfferOptIn(p) /\ ~CheckOptIn(p) /\ ~EnableInstallation(p)
         /\ ~RegisterOptIn(p) /\ ~ListIntents(p)
<1>1. /\ TypeOK /\ p \in Procs /\ OneSession /\ Role(p) /\ OwnerPlan(p) /\ JobCalm /\ RowComing
  BY DEF Context, IInv, Procs, Roles, Wakes, Headings, Heading, OrderlySession
<1>2. Role(p)'
  BY <1>1, OwnerRoles
<1>3. /\ UNCHANGED <<now, row, queue, sent, faults>>
      /\ pc[p] \in SessionLabels \cup {"idle"}
  BY DEF Owning, Save, MoveAway, Clear, Disable, Register, Start, Planning, SaveSchedule,
     SupersedeIntents, SaveIntent, ListInstallations, FindJob, InsertJob, ReplaceJob,
     DisableInstallation, OptOut, SuppressJobs, OfferOptIn, CheckOptIn, EnableInstallation,
     RegisterOptIn, ListIntents, At, SessionLabels, PlanLabels
<1>4. ~Register(p) /\ ~OfferOptIn(p) /\ ~CheckOptIn(p) /\ ~EnableInstallation(p)
      /\ ~RegisterOptIn(p) /\ ~ListIntents(p)
  BY <1>1 DEF OrderlySession, Register, Mutates, OfferOptIn, CheckOptIn, EnableInstallation,
     RegisterOptIn, ListIntents, OwnerPlan, At
<1>5. row = None => job = None
  <2>1. \A q \in Owners : pc[q] # "create"
    BY <1>1, <1>3 DEF OneSession, SessionLabels, PlanLabels
  <2> QED BY <1>1, <2>1 DEF RowComing, At
<1>6. frame[p].alert \in Nat /\ frame[p].at \in Nat /\ None \notin Job
      /\ (job # None => job \in Job) /\ p \notin Workers
  BY <1>1, Values, ReminderAssumption
<1> QED BY <1>1, <1>2, <1>3, <1>4, <1>5, <1>6

\* The plan a mutation makes of the job: a new one it goes on to arm, or none.
LEMMA OwnerPlansJob ==
  ASSUME OrderlySession, Context, NEW p \in Owners, Owning(p) \/ Planning(p)
  PROVE  \/ job' = job /\ pc'[p] # "create"
         \/ job' = None /\ pc'[p] # "create"
         \/ row # None /\ job' # None /\ job'.status = "skipped" /\ pc'[p] # "create"
         \/ /\ pc[p] \in {"insertJob", "replaceJob"} /\ (row = None => pc[p] = "insertJob")
            /\ pc'[p] = "create" /\ frame'[p] = frame[p] /\ job' # None
            /\ job'.status = "pending" /\ job'.nextAttemptAt = frame[p].alert
            /\ job'.intendedAt = frame[p].alert
<1>h. /\ TypeOK /\ p \in Procs /\ Role(p) /\ None \notin Job
      /\ frame[p].alert \in Nat /\ frame[p].at \in Nat
      /\ job # None => job \in Job /\ row # None
      /\ p \notin Workers
  BY PlanningHas
<1>j. ~Register(p) /\ ~OfferOptIn(p) /\ ~CheckOptIn(p) /\ ~EnableInstallation(p)
      /\ ~RegisterOptIn(p) /\ ~ListIntents(p)
  BY PlanningHas
<1>f. ASSUME Finish(p)  PROVE pc'[p] = "idle"
  BY <1>f, <1>h, FinishAt DEF Role
<1>g. ASSUME NEW label, Goto(p, label, frame[p])  PROVE pc'[p] = label /\ frame'[p] = frame[p]
  BY <1>g, <1>h, GotoAt
<1>s. ASSUME NEW label, NEW f, Start(p, label, f)  PROVE pc'[p] = label
  BY <1>s, <1>h, GotoAt DEF Start
<1>1. CASE Save(p) \/ Disable(p)
  BY <1>1, <1>s DEF Save, Disable
<1>2. CASE MoveAway(p) \/ Clear(p)
  BY <1>2 DEF MoveAway, Clear
<1>3. CASE SaveSchedule(p) \/ SupersedeIntents(p) \/ SaveIntent(p) \/ ListInstallations(p) \/ FindJob(p)
  BY <1>3, <1>f, <1>g DEF SaveSchedule, SupersedeIntents, SaveIntent, ListInstallations, FindJob
<1>4. CASE InsertJob(p) \/ ReplaceJob(p)
  <2>1. pc[p] \in {"insertJob", "replaceJob"} /\ (pc[p] = "replaceJob" => ReplaceJob(p))
    BY <1>4 DEF InsertJob, ReplaceJob, At
  <2>2. ASSUME NEW round \in Nat, job' = PlannedJob(frame[p].alert, frame[p].at, round)
        PROVE  /\ job' # None /\ job'.status = "pending" /\ job'.nextAttemptAt = frame[p].alert
               /\ job'.intendedAt = frame[p].alert
    <3>1. PlannedJob(frame[p].alert, frame[p].at, round) \in Job
      BY <1>h DEF PlannedJob, Job, JobStatus, Outcome
    <3> QED BY <1>h, <2>2, <3>1 DEF PlannedJob
  <2>3. CASE job' = job /\ Finish(p)
    BY <1>f, <2>3
  <2>4. CASE InsertJob(p) /\ ~(job' = job /\ Finish(p))
    BY <1>g, <2>1, <2>2, <2>4 DEF InsertJob, At
  <2>5. CASE ReplaceJob(p) /\ ~(job' = job /\ Finish(p))
    <3>1. job # None /\ job.round + 1 \in Nat
      BY <1>h, <2>5 DEF ReplaceJob, Job
    <3> QED BY <1>g, <1>h, <2>1, <2>2, <2>5, <3>1 DEF ReplaceJob, At
  <2> QED BY <1>4, <2>3, <2>4, <2>5
<1>5. CASE DisableInstallation(p) \/ OptOut(p)
  BY <1>5, <1>g DEF DisableInstallation, OptOut
<1>6. CASE SuppressJobs(p)
  <2>1. pc'[p] = "idle"
    BY <1>6, <1>f, <1>h DEF SuppressJobs
  <2>2. CASE job # None /\ Suppressible(job)
    <3>1. job' = Settled(job, "skipped", "suppressed_revoked", frame[p].at)
      BY <1>6, <2>2 DEF SuppressJobs
    <3>2. job'.status = "skipped"
      BY <1>h, <2>2, <3>1, StatusWritten
    <3>3. job' \in Job
      BY <1>h, <2>2, <3>1, JobUpdates DEF JobStatus, Outcome
    <3> QED BY <1>h, <2>1, <2>2, <3>2, <3>3
  <2>3. CASE ~(job # None /\ Suppressible(job))
    BY <1>6, <2>1, <2>3 DEF SuppressJobs
  <2> QED BY <2>2, <2>3
<1> QED BY <1>1, <1>2, <1>3, <1>4, <1>5, <1>6, <1>j DEF Owning, Planning

\* And the plan the mutation itself goes by.
LEMMA OwnerPlansOn ==
  ASSUME OrderlySession, Context, NEW p \in Owners, Owning(p) \/ Planning(p)
  PROVE  OwnerPlan(p)' /\ pc'[p] \notin {"publish", "send", "abandon", "retry", "markFailed", "closeJob", "revise"}
<1>h. /\ TypeOK /\ p \in Procs /\ Role(p) /\ OwnerPlan(p) /\ p \notin Workers
      /\ frame[p].alert \in Nat /\ frame[p].at \in Nat
  BY PlanningHas
<1>j. ~Register(p) /\ ~OfferOptIn(p) /\ ~CheckOptIn(p) /\ ~EnableInstallation(p)
      /\ ~RegisterOptIn(p) /\ ~ListIntents(p)
  BY PlanningHas
<1>c. pc'[p] = "create" =>
        /\ pc[p] \in PlanLabels /\ frame'[p] = frame[p] /\ job'.nextAttemptAt = frame[p].alert
  BY OwnerPlansJob DEF PlanLabels
<1> DEFINE Goal == OwnerPlan(p)' /\ pc'[p] \notin {"publish", "send", "abandon", "retry", "markFailed", "closeJob", "revise"}
<1> SUFFICES Goal
  OBVIOUS
<1>q. ASSUME pc'[p] \in {"idle", "supersede", "disable", "optOut", "suppressJobs"}  PROVE Goal
  BY <1>q DEF OwnerPlan, PlanLabels, At
<1>p. ASSUME pc'[p] \in PlanLabels \cup {"create"}, frame'[p] = frame[p], pc[p] \in PlanLabels  PROVE Goal
  BY <1>c, <1>h, <1>p DEF OwnerPlan, PlanLabels, At
<1>f. ASSUME Finish(p)  PROVE Goal
  <2>1. pc'[p] = "idle"
    BY <1>f, <1>h, FinishAt DEF Role
  <2> QED BY <1>q, <2>1
<1>g. ASSUME NEW label, Goto(p, label, frame[p])  PROVE pc'[p] = label /\ frame'[p] = frame[p]
  BY <1>g, <1>h, GotoAt
<1>1. CASE Save(p)
  <2>1. PICK t \in AlertTimes : Start(p, "saveSchedule", [Idle EXCEPT !.alert = t, !.due = t])
    BY <1>1 DEF Save
  <2> DEFINE f == [Idle EXCEPT !.alert = t, !.due = t]
  <2>2. f \in Frame /\ f.alert = t /\ f.due = t /\ f.rev = None
    BY Constants, IdleType DEF Frame, Idle
  <2> HIDE DEF f
  <2>3. pc'[p] = "saveSchedule" /\ frame'[p].due = t /\ frame'[p].alert = t /\ frame'[p].rev = None
    <3>1. Start(p, "saveSchedule", f)
      BY <2>1 DEF f
    <3> QED BY <1>h, <2>2, <3>1, StartAt
  <2> QED BY <2>3 DEF OwnerPlan, PlanLabels, At
<1>2. CASE Disable(p)
  <2>1. pc'[p] = "disable"
    BY <1>2, <1>h, GotoAt DEF Disable, Start
  <2> QED BY <1>q, <2>1
<1>3. CASE MoveAway(p) \/ Clear(p)
  <2>1. pc'[p] = "idle"
    BY <1>3 DEF MoveAway, Clear
  <2> QED BY <1>q, <2>1
<1>4. CASE SaveSchedule(p)
  <2>1. CASE schedule.state = "cleared"
    BY <1>4, <1>f, <2>1 DEF SaveSchedule
  <2>2. CASE schedule.state # "cleared" /\ frame[p].alert <= frame[p].at
    BY <1>4, <1>g, <1>q, <2>2 DEF SaveSchedule
  <2>3. CASE schedule.state # "cleared" /\ ~(frame[p].alert <= frame[p].at)
    <3>1. pc'[p] = "saveIntent" /\ frame'[p] = frame[p] /\ pc[p] = "saveSchedule"
      BY <1>4, <1>g, <2>3 DEF SaveSchedule, At
    <3> QED BY <1>h, <2>3, <3>1 DEF OwnerPlan, PlanLabels, At
  <2> QED BY <2>1, <2>2, <2>3
<1>5. CASE SupersedeIntents(p)
  BY <1>5, <1>f DEF SupersedeIntents
<1>6. CASE SaveIntent(p) \/ ListInstallations(p) \/ FindJob(p) \/ InsertJob(p) \/ ReplaceJob(p)
  <2>1. pc[p] \in PlanLabels
    BY <1>6 DEF SaveIntent, ListInstallations, FindJob, InsertJob, ReplaceJob, At, PlanLabels
  <2>2. CASE Finish(p)
    BY <1>f, <2>2
  <2>3. CASE ~Finish(p)
    <3>1. \E label \in PlanLabels \cup {"create"} : Goto(p, label, frame[p])
      BY <1>6, <2>3 DEF SaveIntent, ListInstallations, FindJob, InsertJob, ReplaceJob, PlanLabels
    <3> QED BY <1>g, <1>p, <2>1, <3>1
  <2> QED BY <2>2, <2>3
<1>7. CASE DisableInstallation(p) \/ OptOut(p)
  BY <1>7, <1>g, <1>q DEF DisableInstallation, OptOut
<1>8. CASE SuppressJobs(p)
  BY <1>8, <1>f, <1>h DEF SuppressJobs
<1> QED BY <1>1, <1>2, <1>3, <1>4, <1>5, <1>6, <1>7, <1>8, <1>j DEF Owning, Planning

LEMMA OwnerWakes ==
  ASSUME OrderlySession, Context, NEW p \in Owners, Owning(p) \/ Planning(p)
  PROVE  /\ Heading(p)' /\ Carries(p)' /\ JobCalm' /\ RowComing'
         /\ UNCHANGED <<now, row, queue, sent>> /\ faults' = faults
         /\ Pending' => job' = job \/ pc'[p] = "create"
         /\ Armed' => Armed /\ job' = job
<1>h. /\ OneSession /\ JobCalm /\ OwnerPlan(p) /\ Role(p)' /\ p \in Procs
      /\ UNCHANGED <<now, row, queue, sent, faults>>
      /\ pc[p] \in SessionLabels \cup {"idle"}
      /\ row = None => job = None
  BY PlanningHas
<1>o. OwnerPlan(p)' /\ pc'[p] \notin {"publish", "send", "abandon", "retry", "markFailed", "closeJob"}
  BY OwnerPlansOn
<1>1. Heading(p)'
  BY <1>o DEF Heading
<1>2. Carries(p)'
  BY <1>h, <1>o DEF Carries, Publishing, Role, At
<1>3. JobCalm'
  BY <1>h, OwnerPlansJob DEF JobCalm, Pending
<1>4. RowComing'
  <2>1. CASE pc'[p] = "create"
    <3>1. /\ pc[p] \in PlanLabels /\ frame'[p] = frame[p] /\ job' # None
          /\ job'.status = "pending" /\ job'.nextAttemptAt = frame[p].alert
      BY <2>1, OwnerPlansJob DEF PlanLabels
    <3> QED BY <1>h, <2>1, <3>1 DEF RowComing, Pending, OwnerPlan, At
  <2>2. CASE pc'[p] # "create"
    BY <1>h, <2>2, OwnerPlansJob DEF RowComing
  <2> QED BY <2>1, <2>2
<1>5. Pending' => job' = job \/ pc'[p] = "create"
  BY OwnerPlansJob DEF Pending
<1>6. Armed' => Armed /\ job' = job
  <2>1. pc[p] \notin {"create", "revise"}
    BY <1>h DEF SessionLabels, PlanLabels
  <2>2. Armed' <=> Pending' /\ pc'[p] \notin {"create", "revise"}
    BY <1>h, OwnerArmed
  <2>3. Armed <=> Pending /\ pc[p] \notin {"create", "revise"}
    BY <1>h, OwnerArmed
  <2> QED BY <1>5, <2>1, <2>2, <2>3 DEF Pending
<1> QED BY <1>1, <1>2, <1>3, <1>4, <1>5, <1>6, <1>h

-----------------------------------------------------------------------------
(* Every step keeps the wake-up on its way.                                *)

\* A process that does not move goes on as it did: the row it knows is the
\* row of the job that waits, or a newer one than it knows.
LEMMA UnmovedWakes ==
  ASSUME Context, TypeOK', NEW q \in Procs, pc'[q] = pc[q], frame'[q] = frame[q],
         row # None => row' # None, q \in Owners => (Pending' => job' = job),
         Armed' => job' = job /\ now' = now,
         \/ Armed' => Armed /\ row'.revision = row.revision
         \/ row # None /\ row'.revision = row.revision + 1 /\ row.revision \in Nat
  PROVE  Heading(q)' /\ Carries(q)'
<1>0. /\ Heading(q) /\ Carries(q) /\ FrameKnown(q) /\ TypeOK
  BY DEF Context, IInv, Wakes, Headings, RevisionsKnown
<1>v. frame[q].rev \in Nat \cup {None} /\ frame[q].msg \in Message \cup {None} /\ None \notin Int
  BY <1>0, Values
<1>1. Heading(q)'
  <2>1. CASE q \in Owners
    <3>1. Pending' => Pending
      BY <2>1 DEF Pending
    <3> QED BY <1>0, <2>1, <3>1 DEF Heading, OwnerPlan, At
  <2>2. CASE q \notin Owners
    BY <1>0, <2>2 DEF Heading, Fenced, At
  <2> QED BY <2>1, <2>2
<1>2. CASE Armed' => Armed /\ row'.revision = row.revision
  <2>1. Armed' => DueAt' = DueAt /\ job' = job
    BY DEF DueAt, Later
  <2> QED BY <1>0, <1>1, <1>2, <2>1 DEF Carries, Publishing, At
<1>3. CASE row # None /\ row'.revision = row.revision + 1 /\ row.revision \in Nat
  <2>1. frame[q].rev # row'.revision
    BY <1>0, <1>3, <1>v DEF FrameKnown, Known
  <2>2. frame[q].msg # None => frame[q].msg.revision # row'.revision
    <3>1. frame[q].msg # None => frame[q].msg.revision \in Nat
      BY <1>v DEF Message
    <3> QED BY <1>0, <1>3, <1>v, <3>1 DEF FrameKnown, Known
  <2>3. Carries(q)'
    BY <2>1, <2>2 DEF Carries
  <2> QED BY <1>1, <2>3
<1> QED BY <1>2, <1>3

\* A step of another process than the owner's leaves a job without a row to it.
LEMMA OtherCalm ==
  ASSUME Context, NEW p \in Procs, p \notin Owners, Consuming(p) \/ Arming(p) \/ Recovering(p),
         row # None => row' # None,
         job' # job => row # None /\ job' # None /\ job'.status # "failed"
  PROVE  JobCalm' /\ RowComing'
<1>1. JobCalm /\ RowComing
  BY DEF Context, Wakes
<1>2. Pending' => job' = job /\ Pending
  BY StillArmed
<1>3. JobCalm'
  BY <1>1, <1>2 DEF JobCalm, Pending
<1>4. \A q \in Owners : pc'[q] = pc[q] /\ frame'[q] = frame[q]
  BY EachOneStep DEF Context, IInv, OneStep, Works, Procs
<1>5. RowComing'
  <2>1. CASE job' = job
    BY <1>1, <1>4, <2>1 DEF RowComing, Pending, At
  <2>2. CASE job' # job
    BY <2>2 DEF RowComing
  <2> QED BY <2>1, <2>2
<1> QED BY <1>3, <1>5

LEMMA WorkWakes ==
  ASSUME OrderlySession, Context, TypeOK', faults = 0, faults' = 0,
         NEW p \in Procs, Owning(p) \/ Works(p)
  PROVE  Wakes'
<1>0. /\ TypeOK /\ OneSession /\ Role(p) /\ RowArmed /\ JobCalm /\ RowComing /\ OneStep(p)
      /\ (row # None => row.revision \in Nat)
  <2>1. TypeOK /\ OneSession /\ Role(p) /\ RowArmed /\ JobCalm /\ RowComing
    BY DEF Context, IInv, Roles, Wakes, OrderlySession
  <2> QED BY <2>1, EachOneStep, Values
<1>o. /\ now' = now
      /\ \A q \in Procs \ {p} : pc'[q] = pc[q] /\ frame'[q] = frame[q]
  BY <1>0 DEF OneStep
<1>u. ASSUME row # None => row' # None, Pending' => job' = job \/ p \in Owners,
             Armed' => job' = job,
             \/ Armed' => Armed /\ row'.revision = row.revision
             \/ row # None /\ row'.revision = row.revision + 1
      PROVE  \A q \in Procs \ {p} : Heading(q)' /\ Carries(q)'
  <2> SUFFICES ASSUME NEW q \in Procs \ {p} PROVE Heading(q)' /\ Carries(q)'
    OBVIOUS
  <2>1. q \in Owners => p \notin Owners
    BY <1>0 DEF OneSession
  <2> QED BY <1>0, <1>o, <1>u, <2>1, UnmovedWakes
<1>w. ASSUME Heading(p)', Carries(p)', JobCalm', RowComing', RowArmed',
             \A q \in Procs \ {p} : Heading(q)' /\ Carries(q)'
      PROVE  Wakes'
  BY <1>w DEF Wakes, Headings
<1>1. CASE p \in Owners /\ (Owning(p) \/ Planning(p))
  <2>1. /\ Heading(p)' /\ Carries(p)' /\ JobCalm' /\ RowComing'
        /\ UNCHANGED <<now, row, queue, sent>>
        /\ Armed' => Armed /\ job' = job
    BY <1>1, OwnerWakes
  <2>2. RowArmed'
    <3>1. Armed' => DueAt' = DueAt /\ DueAt \in Nat
      <4>1. now \in Nat /\ (job # None => job.nextAttemptAt \in Nat)
        BY <1>0, Values
      <4> QED BY <2>1, <4>1 DEF DueAt, Later, Armed, Pending
    <3> QED BY <1>0, <2>1, <3>1, RowStays
  <2> QED BY <1>1, <1>u, <1>w, <2>1, <2>2
<1>2. CASE Arming(p) /\ (p \in Owners => ~At(p, "reload"))
  <2>1. ArmStep(p)
    BY <1>2, ArmingWakes
  <2>2. JobCalm' /\ RowComing'
    <3>1. CASE p \in Owners
      <4>1. \A q \in Owners : q = p
        BY <1>0, <3>1 DEF OneSession
      <4>2. job' = job /\ (row' # None \/ (row = None /\ ~At(p, "create")))
        BY <2>1 DEF ArmStep
      <4> QED BY <1>0, <3>1, <4>1, <4>2 DEF JobCalm, RowComing, Pending, At
    <3>2. CASE p \notin Owners
      BY <1>2, <2>1, <3>2, OtherCalm DEF ArmStep
    <3> QED BY <3>1, <3>2
  <2> QED BY <1>u, <1>w, <2>1, <2>2 DEF ArmStep
<1>3. CASE p \notin Owners /\ Consuming(p)
  <2>1. /\ Heading(p)' /\ Carries(p)' /\ row' = row /\ sent' = sent
        /\ job' # job => row # None /\ job' # None /\ job'.status # "failed"
        /\ Armed => \A m \in queue : m.revision = row.revision => m \in queue'
    BY <1>3, ConsumingWakes
  <2>2. /\ Pending' => job' = job
        /\ Armed' => Armed /\ job' = job /\ DueAt' = DueAt
    BY <1>3, StillArmed
  <2>3. Armed => DueAt \in Nat
    <3>1. now \in Nat /\ (job # None => job.nextAttemptAt \in Nat)
      BY <1>0, Values
    <3> QED BY <3>1 DEF DueAt, Later, Armed, Pending
  <2>4. RowArmed'
    BY <1>0, <2>1, <2>2, <2>3, RowStays
  <2>5. JobCalm' /\ RowComing'
    BY <1>3, <2>1, OtherCalm
  <2> QED BY <1>u, <1>w, <2>1, <2>2, <2>4, <2>5
<1>4. CASE p \notin Owners /\ Recovering(p)
  <2>1. /\ Heading(p)' /\ Carries(p)' /\ sent' = sent /\ queue' = queue
        /\ row # None => row' # None
        /\ Armed' => row' = row
        /\ job' # job => row # None /\ job' # None /\ job'.status # "failed"
    BY <1>4, RecoveringWakes
  <2>2. /\ Pending' => job' = job
        /\ Armed' => Armed /\ job' = job /\ DueAt' = DueAt
    BY <1>4, StillArmed
  <2>3. Armed => DueAt \in Nat
    <3>1. now \in Nat /\ (job # None => job.nextAttemptAt \in Nat)
      BY <1>0, Values
    <3> QED BY <3>1 DEF DueAt, Later, Armed, Pending
  <2>4. RowArmed'
    BY <1>0, <2>1, <2>2, <2>3, RowStays
  <2>5. JobCalm' /\ RowComing'
    BY <1>4, <2>1, OtherCalm
  <2> QED BY <1>u, <1>w, <2>1, <2>2, <2>4, <2>5
<1> QED BY <1>0, <1>1, <1>2, <1>3, <1>4, RoleSplit

\* Time passes: what was in time stays so.
LEMMA TickWakes ==
  ASSUME TypeOK, Wakes, Tick
  PROVE  Wakes'
<1>0. /\ now' = now + 1 /\ UNCHANGED <<job, row, queue, sent, pc, frame>>
      /\ JobCalm /\ RowComing /\ Headings /\ RowArmed /\ \A p \in Procs : Carries(p)
  BY DEF Tick, Wakes
<1>v. /\ now \in Nat /\ MaxRun \in Nat
      /\ job # None => job.nextAttemptAt \in Nat
      /\ row # None => row.nextAttemptAt \in Nat
      /\ \A m \in queue : m.visibleAt \in Nat
      /\ \A p \in Procs : frame[p].due \in Nat
  BY ReminderAssumption DEF TypeOK, Job, Delivery, Message, Frame
<1>1. Armed' <=> Armed
  BY <1>0 DEF Armed, Pending, OwnerAt
<1>2. Armed => DueAt \in Nat /\ DueAt' \in Nat /\ DueAt <= DueAt'
  BY <1>0, <1>v DEF Armed, Pending, DueAt, Later
<1>3. JobCalm' /\ RowComing' /\ Headings'
  BY <1>0 DEF JobCalm, RowComing, Headings, Heading, OwnerPlan, Fenced, Pending, At
<1>4. RowArmed'
  <2>1. \A m \in queue : Armed /\ m.visibleAt <= DueAt + MaxRun => m.visibleAt <= DueAt' + MaxRun
    BY <1>2, <1>v
  <2>2. Armed' /\ row'.status # "published" => row'.nextAttemptAt <= DueAt'
    BY <1>0, <1>1, <1>2, <1>v DEF RowArmed
  <2>3. Armed' => (row'.revision \in sent' =>
          \E m \in queue' : m.revision = row'.revision /\ m.visibleAt <= DueAt' + MaxRun)
    BY <1>0, <1>1, <2>1 DEF RowArmed
  <2> QED BY <1>0, <1>1, <2>2, <2>3 DEF RowArmed
<1>5. ASSUME NEW p \in Procs PROVE Carries(p)'
  <2>1. Carries(p)
    BY <1>0
  <2>d. frame[p].due \in Nat
    BY <1>v
  <2>2. ASSUME Armed, frame[p].due <= DueAt PROVE frame[p].due <= DueAt'
    <3>1. DueAt \in Nat /\ DueAt' \in Nat /\ DueAt <= DueAt'
      BY <1>2, <2>2
    <3> QED BY <2>d, <2>2, <3>1
  <2> QED BY <1>0, <1>1, <2>1, <2>2 DEF Carries, Publishing, At
<1> QED BY <1>3, <1>4, <1>5 DEF Wakes

LEMMA NextWInv ==
  ASSUME OrderlySession
  PROVE  IInv /\ TypeOK' /\ RunsInTime /\ Roles /\ WInv /\ [Next]_vars => WInv'
<1> SUFFICES ASSUME IInv, TypeOK', RunsInTime, Roles, WInv, [Next]_vars PROVE WInv'
  OBVIOUS
<1>0. TypeOK /\ faults \in Nat /\ "terminal" \notin PushOutcomes
  BY DEF IInv, TypeOK, OrderlySession, OneSession
<1>1. RevisionsKnown' /\ Posts'
  BY <1>0, NextKnown, NextPosts DEF WInv
<1>2. ASSUME faults' = 0 PROVE Wakes'
  <2>1. ~LoseMessage /\ ~SkipPass /\ \A p \in Procs : ~Crash(p)
    BY <1>0, <1>2 DEF LoseMessage, SkipPass, Crash, Fault
  <2>2. ASSUME NEW p \in Procs, Owning(p) \/ Works(p)  PROVE Wakes'
    <3>1. faults' = faults \/ faults' = faults + 1
      BY <2>2 DEF Owning, Save, MoveAway, Clear, Disable, Register, Works, Planning, SaveSchedule,
         SupersedeIntents, SaveIntent, ListInstallations, FindJob, InsertJob, ReplaceJob,
         DisableInstallation, OptOut, SuppressJobs, OfferOptIn, CheckOptIn, EnableInstallation,
         RegisterOptIn, ListIntents, Arming, CreateRow, ReviseRow, ReadForPublish, Send,
         MarkPublished, RecordPublishFailure, ReloadForRearm, Consuming, Receive, Validate,
         InspectJob, ClaimJob, LoadContext, Push, SuppressDelivery, AcceptDelivery, CloseTerminal,
         ScheduleRetry, WriteJob, JobGone, Acknowledge, Recovering, StartPass, ListDue, LoadTarget,
         Abandon, ListOverdueJobs, FindRow, ListOverduePointers, LoadPointerJob, CloseStale
    <3>2. faults = 0
      BY <1>0, <1>2, <3>1
    <3>3. Context
      BY <3>2 DEF Context, WInv
    <3> QED BY <1>2, <2>2, <3>2, <3>3, WorkWakes
  <2>3. CASE Tick
    <3>1. faults = 0
      BY <1>2, <2>3 DEF Tick
    <3> QED BY <1>0, <2>3, <3>1, TickWakes DEF WInv
  <2>4. CASE Stop \/ UNCHANGED vars
    <3>1. UNCHANGED vars
      BY <2>4 DEF Stop
    <3>2. Wakes
      BY <1>2, <3>1 DEF WInv, vars
    <3> QED BY <3>1, <3>2 DEF vars, Wakes, JobCalm, RowComing, Headings, Heading, OwnerPlan, Fenced,
         RowArmed, Armed, DueAt, Later, OwnerAt, Carries, Publishing, Pending, At
  <2> QED BY <2>1, <2>2, <2>3, <2>4 DEF Next
<1> QED BY <1>1, <1>2 DEF WInv

LEMMA InitWInv == Init => WInv
<1> SUFFICES ASSUME Init PROVE WInv
  OBVIOUS
<1>0. /\ job = None /\ row = None /\ queue = {} /\ sent = {}
      /\ \A p \in Procs : pc[p] = "idle" /\ frame[p] = Idle
  BY DEF Init
<1>1. RevisionsKnown /\ Posts
  BY <1>0 DEF RevisionsKnown, FrameKnown, Posts, Post, SweepLabels, Idle, At
<1>2. JobCalm /\ RowComing /\ ~Armed
  BY <1>0 DEF JobCalm, RowComing, Armed, Pending
<1>3. Headings
  BY <1>0 DEF Headings, Heading, OwnerPlan, PlanLabels, Fenced, RevLabels, MsgLabels, At
<1> QED BY <1>1, <1>2, <1>3 DEF WInv, Wakes, RowArmed, Carries

\* No reminder is left without a wake-up (outbox.ts:73): while nothing fails, no
\* push does either and the owner's mutations, none of them a registration, come
\* one after the other, a waiting job is woken no later than it is due, give or
\* take a run, whenever no invocation is under way.  Edits, checkpoints that
\* re-arm themselves, redeliveries and recovery passes do not overtake one another
\* with a stale time, and no pass abandons the row of a live job.
THEOREM NoLateWakeupAlways ==
  ASSUME OrderlySession
  PROVE  Spec => []NoLateWakeup
<1>1. Init => IInv /\ RunsInTime /\ Roles /\ WInv
  BY InitIInv, InitSInv, InitWInv DEF Init, RunsInTime, SInv
<1>2. IInv /\ TypeOK' /\ RunsInTime /\ Roles /\ WInv /\ [Next]_vars
        => IInv' /\ RunsInTime' /\ Roles' /\ WInv'
  <2>1. IInv => TypeOK
    BY DEF IInv
  <2>2. "terminal" \notin PushOutcomes
    BY DEF OrderlySession, OneSession
  <2> QED BY <2>1, <2>2, NextIInv, NextRunsInTime, NextRoles, NextWInv
<1>3. IInv /\ WInv => NoLateWakeup
  <2> SUFFICES ASSUME IInv, WInv, Quiet, faults = 0, Waiting
               PROVE  WakeupOnItsWay(Later(job.nextAttemptAt, now) + MaxRun)
    BY DEF NoLateWakeup
  <2>1. Wakes /\ TypeOK /\ PublishedWasSent
    BY DEF WInv, IInv
  <2>2. Pending /\ Armed
    BY <2>1 DEF Wakes, JobCalm, Waiting, Pending, Armed, OwnerAt, Quiet, Procs
  <2>3. /\ row # None /\ row.status \in DeliveryStatus \ {"abandoned"}
        /\ row.status # "published" => row.nextAttemptAt <= DueAt
        /\ row.revision \in sent =>
             \E m \in queue : m.revision = row.revision /\ m.visibleAt <= DueAt + MaxRun
    BY <2>1, <2>2 DEF Wakes, RowArmed, TypeOK, Delivery
  <2>4. row.nextAttemptAt \in Nat /\ DueAt \in Nat /\ MaxRun \in Nat
    <3>1. now \in Nat /\ job.nextAttemptAt \in Nat /\ row.nextAttemptAt \in Nat
      BY <2>2, <2>3 DEF TypeOK, IInv, Job, Delivery, Pending
    <3> QED BY <3>1, ReminderAssumption DEF DueAt, Later
  <2>5. row.status = "published" => row.revision \in sent
    BY <2>1, <2>3 DEF PublishedWasSent
  <2>6. WakeupOnItsWay(DueAt + MaxRun)
    BY <2>3, <2>4, <2>5 DEF WakeupOnItsWay, DeliveryStatus
  <2> QED BY <2>6 DEF DueAt
<1> QED BY <1>1, <1>2, <1>3, TypeCorrect, PTL DEF Spec

-----------------------------------------------------------------------------
(* Settled in time.  A job's time runs from the last alert it may wait for; *)
(* no invocation that arms its row begins after LastStart, by PublishBy a   *)
(* pass begins that publishes it, and by CloseBy one that finds the wake-up *)
(* lost and closes the job.  Every fault moves these times by FaultCost.    *)

Unsettled == job # None /\ ~Finished(job)

Unpublished(d) == d # None /\ d.status \in {"pending", "publish_failed"}

LastStart(alert) == FreshUntil(Horizon(alert)) + RetryAfter + 2 * MaxRun
Base(alert) == LastStart(alert) + MaxRun
PublishBy(alert, n) == Base(alert) + n * FaultCost
SeenBy(alert, n) == PublishBy(alert, n) + PassEvery - 1 + 2 * MaxRun
CloseBy(alert, n) == SeenBy(alert, n) + Grace

\* By when a pass must begin to move the job on.
PassBy(alert, n, d) == IF Unpublished(d) THEN PublishBy(alert, n) ELSE CloseBy(alert, n)

\* There is a pass, and a latest alert to count from where one is needed.
Recovers ==
  /\ Crons # {}
  /\ PublishAhead \/ \E t \in AlertTimes : \A u \in AlertTimes : u <= t

LEMMA Horizons ==
  ASSUME Recovers, NEW alert \in AlertTimes
  PROVE  /\ Horizon(alert) \in Nat /\ alert <= Horizon(alert)
         /\ ~PublishAhead => Horizon(alert) = LastAlert
<1>1. CASE PublishAhead
  BY <1>1, Constants DEF Horizon
<1>2. CASE ~PublishAhead
  <2>1. \E t \in AlertTimes : \A u \in AlertTimes : u <= t
    BY <1>2 DEF Recovers
  <2>2. LastAlert \in AlertTimes /\ \A u \in AlertTimes : u <= LastAlert
    BY <2>1 DEF LastAlert
  <2> QED BY <1>2, <2>2, Constants DEF Horizon
<1> QED BY <1>1, <1>2

\* The times as numbers, and how they lie to one another.
LEMMA Bounds ==
  ASSUME Recovers, NEW alert \in AlertTimes, NEW n \in Nat
  PROVE  /\ PublishBy(alert, n) \in Nat /\ FaultCost \in Nat /\ LastStart(alert) \in Nat
         /\ FreshUntil(alert) \in Nat /\ MaxRun \in Nat /\ Base(alert) \in Nat
         /\ PassEvery \in Nat \ {0} /\ Grace \in Nat \ {0} /\ Lease \in Nat /\ RetryDelay \in Nat
         /\ RetryAfter \in Nat \ {0} /\ MaxRun < Lease
         /\ FreshUntil(alert) + RetryAfter + 2 * MaxRun <= LastStart(alert)
         /\ Base(alert) = LastStart(alert) + MaxRun /\ Base(alert) <= PublishBy(alert, n)
         /\ n > 0 => Base(alert) + FaultCost <= PublishBy(alert, n)
         /\ PublishBy(alert, n + 1) = PublishBy(alert, n) + FaultCost
         /\ SeenBy(alert, n) = PublishBy(alert, n) + PassEvery - 1 + 2 * MaxRun
         /\ CloseBy(alert, n) = SeenBy(alert, n) + Grace
         /\ SeenBy(alert, n) \in Nat /\ CloseBy(alert, n) \in Nat
         /\ Lease + PassEvery - 1 + 3 * MaxRun <= FaultCost
         /\ RetryDelay + PassEvery - 1 + 3 * MaxRun <= FaultCost
         /\ Deadline(alert) + n * FaultCost = CloseBy(alert, n) + PassEvery - 1 + 2 * MaxRun
<1>1. /\ MaxRun \in Nat /\ PassEvery \in Nat \ {0} /\ Grace \in Nat \ {0} /\ Lease \in Nat
      /\ RetryDelay \in Nat /\ RetryAfter \in Nat \ {0} /\ FreshFor \in Nat /\ MaxRun < Lease
      /\ alert \in Nat
  BY ReminderAssumption, ReminderJobAssumption, Constants
<1>2. /\ FaultCost \in Nat /\ Lease + PassEvery - 1 + 3 * MaxRun <= FaultCost
      /\ RetryDelay + PassEvery - 1 + 3 * MaxRun <= FaultCost
  BY <1>1 DEF FaultCost, Later
<1>3. /\ LastStart(alert) \in Nat /\ FreshUntil(alert) \in Nat
      /\ FreshUntil(alert) + RetryAfter + 2 * MaxRun <= LastStart(alert)
  BY <1>1, Horizons DEF LastStart, FreshUntil
<1>4. /\ Base(alert) \in Nat /\ Base(alert) = LastStart(alert) + MaxRun
  BY <1>1, <1>3 DEF Base
<1>5. /\ n * FaultCost \in Nat /\ (n + 1) * FaultCost = n * FaultCost + FaultCost
      /\ n > 0 => FaultCost <= n * FaultCost
  <2>1. \A c \in Nat : /\ n * c \in Nat /\ (n + 1) * c = n * c + c
                       /\ n > 0 => c <= n * c
    OBVIOUS
  <2> QED BY <1>2, <2>1
<1>6. /\ PublishBy(alert, n) \in Nat /\ Base(alert) <= PublishBy(alert, n)
      /\ n > 0 => Base(alert) + FaultCost <= PublishBy(alert, n)
      /\ PublishBy(alert, n + 1) = PublishBy(alert, n) + FaultCost
  BY <1>2, <1>4, <1>5 DEF PublishBy
<1>7. /\ SeenBy(alert, n) = PublishBy(alert, n) + PassEvery - 1 + 2 * MaxRun
      /\ CloseBy(alert, n) = SeenBy(alert, n) + Grace
      /\ SeenBy(alert, n) \in Nat /\ CloseBy(alert, n) \in Nat
  BY <1>1, <1>6 DEF SeenBy, CloseBy
<1>8. Deadline(alert) + n * FaultCost = CloseBy(alert, n) + PassEvery - 1 + 2 * MaxRun
  <2>1. FreshUntil(Horizon(alert)) \in Nat
    BY <1>1, Horizons DEF FreshUntil
  <2>2. PublishBy(alert, n) = FreshUntil(Horizon(alert)) + RetryAfter + 3 * MaxRun + n * FaultCost
    BY <1>1, <1>5, <2>1 DEF PublishBy, Base, LastStart
  <2> QED BY <1>1, <1>5, <1>7, <2>1, <2>2 DEF Deadline
<1> QED BY <1>1, <1>2, <1>3, <1>4, <1>6, <1>7, <1>8
-----------------------------------------------------------------------------
(* What one step of a process does, in the terms of the deadline.          *)

EndLabels == {"idle", "ack", "listOverdue", "listPointers"}

\* It plans the job, settles it, schedules its retry or claims it,
Plans(p) ==
  /\ pc[p] \in {"insertJob", "replaceJob"} /\ pc'[p] = "create" /\ frame'[p] = frame[p]
  /\ \E round \in Nat : job' = PlannedJob(frame[p].alert, frame[p].at, round)

Settles(p) ==
  /\ job' = None \/ (job # None /\ Finished(job') /\ job'.intendedAt = job.intendedAt)
  /\ \/ pc'[p] \in EndLabels
     \/ pc'[p] = "closeJob" /\ Dispatches(p) /\ frame'[p] = frame[p]

Retries(p) ==
  /\ pc[p] = "retry" /\ job # None
  /\ job' = RetryScheduled(job, frame[p].alert, frame[p].at)
  /\ pc'[p] = "create" /\ frame'[p].due = RetryTime(frame[p].alert, frame[p].at)

Takes(p) ==
  /\ pc[p] = "claim" /\ job # None /\ ClaimAllowed(job, frame[p].at)
  /\ job' = Claimed(job, frame[p].at)
  /\ pc'[p] = "context" /\ frame'[p].alert = job.intendedAt

JobMove(p) ==
  /\ Plans(p) \/ Settles(p) \/ Retries(p) \/ Takes(p)
  /\ row' = row /\ passAt' = passAt /\ faults' = faults

\* or writes the row,
Creates(p) ==
  /\ pc[p] = "create" /\ row = None /\ row' = NewDelivery(FirstPublishAttemptAt(frame[p]))
  /\ pc'[p] = "revise" /\ frame'[p] = frame[p]

Revises(p) ==
  /\ pc[p] = "revise" /\ row # None /\ row' = Revised(row, FirstPublishAttemptAt(frame[p]))
  /\ pc'[p] \in EndLabels \cup {"publish"}

Marks(p) ==
  /\ pc[p] = "mark" /\ row # None /\ pc'[p] \in EndLabels
  /\ \E due \in Nat : row' = MarkedPublished(row, frame[p].at, due)

MarksFailed(p) ==
  /\ pc[p] = "markFailed" /\ row # None /\ pc'[p] \in EndLabels
  /\ row' = MarkedPublishFailed(row, frame[p].at)

Abandons(p) ==
  pc[p] = "abandon" /\ row # None /\ row' = Abandoned(row) /\ pc'[p] \in EndLabels

RowMove(p) ==
  /\ Creates(p) \/ Revises(p) \/ Marks(p) \/ MarksFailed(p) \/ Abandons(p)
  /\ job' = job /\ passAt' = passAt /\ faults' = faults

\* or fails, or begins a pass,
FaultMove(p) ==
  /\ job' = job /\ row' = row /\ passAt' = passAt /\ faults' = faults + 1
  /\ pc'[p] = "idle" \/ (pc[p] = "send" /\ pc'[p] = "markFailed")

PassMove(p) ==
  /\ job' = job /\ row' = row /\ faults' = faults
  /\ p \in Crons /\ pc[p] = "idle" /\ pc'[p] = "listDue"
  /\ passAt' = [passAt EXCEPT ![p] = now]

\* or goes on: to arm the row, in a dispatch, in a planning, in a pass.
ArmsNext(p) ==
  /\ pc'[p] = "create" => /\ pc[p] = "reload" /\ job # None /\ Awaiting(job, frame[p].at)
                          /\ frame'[p].due = WakeupTime(job, frame[p].at)
  /\ pc'[p] = "revise" => pc[p] = "create" /\ frame'[p] = frame[p]
  /\ pc'[p] = "reload" =>
       \/ /\ pc[p] = "inspect" /\ job # None /\ job.status \in {"pending", "failed"}
          /\ ~Claimable(job, frame[p].at)
       \/ pc[p] = "findRow" /\ frame[p].at < FreshUntil(frame[p].alert)
       \/ pc[p] = "pointerJob" /\ job # None /\ frame[p].at < FreshUntil(job.intendedAt)
  /\ pc'[p] = "findRow" => job # None /\ frame'[p].alert = job.intendedAt
  /\ pc'[p] = "target" => Unpublished(row)
  /\ pc'[p] = "publish" => pc[p] = "target"
  /\ pc'[p] = "send" => pc[p] = "publish"
  /\ pc'[p] = "mark" => pc[p] = "send"
  /\ pc'[p] # "markFailed"

DispatchesNext(p) ==
  /\ Dispatches(p)' => Dispatches(p) /\ frame'[p].alert = frame[p].alert
  /\ Dispatches(p) => Dispatches(p)' \/ job = None
  /\ pc'[p] = "push" => frame'[p].at < FreshUntil(frame'[p].alert)
  /\ pc'[p] = "retry" => pc[p] = "push" /\ frame'[p] = frame[p]

PlanFrame(f) == f.alert \in AlertTimes /\ f.due = f.alert

PlansNext(p) ==
  /\ pc'[p] = "saveSchedule" => PlanFrame(frame'[p])
  /\ pc'[p] \in PlanLabels =>
       \/ pc[p] \in PlanLabels /\ frame'[p] = frame[p]
       \/ pc[p] = "saveSchedule" /\ frame'[p] = frame[p] /\ frame[p].at < frame[p].alert
       \/ PlanFrame(frame'[p]) /\ frame'[p].at < FreshUntil(frame'[p].alert)

PassNext(p) ==
  /\ pc[p] = "listDue" =>
       IF DueDelivery(row, {"pending", "publish_failed"}, frame[p].at)
       THEN pc'[p] = "target" /\ frame'[p].rev = row.revision ELSE pc'[p] = "listOverdue"
  /\ pc[p] = "target" /\ job # None /\ Awaiting(job, frame[p].at) =>
       pc'[p] = "publish" /\ frame'[p].rev = frame[p].rev
  /\ pc[p] = "publish" /\ Targets(row, frame[p].rev) =>
       pc'[p] = "send" /\ frame'[p].rev = frame[p].rev
  /\ pc[p] = "send" => pc'[p] = "mark" /\ frame'[p].rev = frame[p].rev
  /\ pc[p] = "mark" => ~Targets(row, frame[p].rev)
  /\ pc[p] = "listOverdue" /\ job # None /\ OverdueJob(job, frame[p].at, Grace) =>
       pc'[p] = "findRow" /\ frame'[p].alert = job.intendedAt
  /\ pc[p] = "findRow" /\ WakeupLost(row, frame[p].at)
       /\ FreshUntil(frame[p].alert) <= frame[p].at => pc'[p] = "closeStale"
  /\ pc[p] = "closeStale" => ~(job # None /\ StaleJob(job, frame[p].at))

NextMove(p) ==
  /\ job' = job /\ row' = row /\ passAt' = passAt /\ faults' = faults
  /\ ArmsNext(p) /\ DispatchesNext(p) /\ PlansNext(p) /\ PassNext(p)

SettleStep(p) == JobMove(p) \/ RowMove(p) \/ FaultMove(p) \/ PassMove(p) \/ NextMove(p)

\* The labels that none of these says anything of, come from or gone to.
PlainLabels ==
  EndLabels \cup
  {"supersede", "offer", "checkOptIn", "enable", "register", "listIntents", "validate",
   "inspect", "claim", "listDue", "pointerJob", "closeStale", "abandon"}

PlainOrigins ==
  {"idle", "ack", "saveSchedule", "supersede", "offer", "checkOptIn", "enable", "register",
   "listIntents", "validate", "inspect", "claim", "abandon", "listPointers", "pointerJob",
   "create", "revise", "markFailed", "reload"} \cup PlanLabels

LEMMA PlainMove ==
  ASSUME TypeOK, NEW p \in Procs, NEW label \in PlainLabels, NEW f, Goto(p, label, f),
         pc[p] \in PlainOrigins,
         job' = job, row' = row, passAt' = passAt, faults' = faults
  PROVE  NextMove(p)
<1>1. pc'[p] \in PlainLabels /\ pc[p] \in PlainOrigins /\ pc'[p] = label
  BY DEF TypeOK, Goto
<1>2. ArmsNext(p)
  BY <1>1 DEF ArmsNext, PlainLabels, EndLabels
<1>3. DispatchesNext(p)
  BY <1>1 DEF DispatchesNext, PlainLabels, EndLabels, PlainOrigins, PlanLabels, Dispatches
<1>4. PlansNext(p)
  BY <1>1 DEF PlansNext, PlainLabels, EndLabels, PlanLabels
<1>5. PassNext(p)
  BY <1>1 DEF PassNext, PlainOrigins, PlanLabels
<1> QED BY <1>2, <1>3, <1>4, <1>5 DEF NextMove

LEMMA FinishLabels ==
  ASSUME TypeOK, NEW p \in Procs, Finish(p)
  PROVE  pc'[p] \in EndLabels /\ \E label \in EndLabels : \E f : Goto(p, label, f)
<1>1. frame[p].then \in {"idle", "listOverdue", "listPointers"}
  BY DEF TypeOK, Frame
<1>2. \E label \in EndLabels : \E f : Goto(p, label, f)
  BY <1>1 DEF Finish, EndLabels
<1> QED BY <1>2 DEF Goto, TypeOK, EndLabels

LEMMA PlainFinish ==
  ASSUME TypeOK, NEW p \in Procs, Finish(p), pc[p] \in PlainOrigins,
         job' = job, row' = row, passAt' = passAt, faults' = faults
  PROVE  NextMove(p)
BY FinishLabels, PlainMove DEF PlainLabels

LEMMA PlainStart ==
  ASSUME TypeOK, NEW p \in Procs, NEW label \in PlainLabels, NEW f, Start(p, label, f),
         job' = job, row' = row, passAt' = passAt, faults' = faults
  PROVE  NextMove(p)
BY PlainMove DEF Start, PlainOrigins

\* An owner begins, or plans.
LEMMA OwningSettles ==
  ASSUME TypeOK, NEW p \in Procs, Owning(p) \/ Planning(p)
  PROVE  SettleStep(p)
<1>0. /\ frame[p] \in Frame /\ pc \in [Procs -> Labels] /\ frame \in [Procs -> Frame]
      /\ job # None => job \in Job
      /\ p \in Owners => p \notin Workers
  BY ReminderAssumption DEF TypeOK
<1> USE DEF At
<1>1. CASE Save(p)
  <2>1. PICK t \in AlertTimes : Start(p, "saveSchedule", [Idle EXCEPT !.alert = t, !.due = t])
    BY <1>1 DEF Save
  <2>2. PlanFrame(frame'[p]) /\ pc'[p] = "saveSchedule" /\ pc[p] = "idle"
    BY <1>0, <2>1 DEF Start, Goto, Idle, PlanFrame
  <2>3. job' = job /\ row' = row /\ passAt' = passAt /\ faults' = faults
    BY <1>1 DEF Save
  <2>4. ArmsNext(p) /\ DispatchesNext(p) /\ PlansNext(p) /\ PassNext(p)
    BY <2>2 DEF ArmsNext, DispatchesNext, PlansNext, PassNext, PlanLabels, Dispatches
  <2> QED BY <2>3, <2>4 DEF SettleStep, NextMove
<1>2. CASE MoveAway(p) \/ Clear(p)
  <2>1. /\ pc'[p] = "idle" /\ pc[p] = "idle"
        /\ row' = row /\ passAt' = passAt /\ faults' = faults
    BY <1>2 DEF MoveAway, Clear
  <2>2. CASE Clear(p)
    BY <2>1, <2>2 DEF Clear, SettleStep, JobMove, Settles, EndLabels
  <2>3. CASE MoveAway(p)
    <3>1. ArmsNext(p) /\ DispatchesNext(p) /\ PlansNext(p) /\ PassNext(p)
      BY <2>1 DEF ArmsNext, DispatchesNext, PlansNext, PassNext, PlanLabels, Dispatches
    <3> QED BY <2>1, <2>3, <3>1 DEF MoveAway, SettleStep, NextMove
  <2> QED BY <1>2, <2>2, <2>3
<1>3. CASE Disable(p)
  <2>1. /\ pc'[p] = "disable" /\ pc[p] = "idle" /\ p \in Owners
        /\ job' = job /\ row' = row /\ passAt' = passAt /\ faults' = faults
    BY <1>0, <1>3 DEF Disable, Start, Goto, Mutates
  <2>2. ArmsNext(p) /\ DispatchesNext(p) /\ PlansNext(p) /\ PassNext(p)
    BY <1>0, <2>1 DEF ArmsNext, DispatchesNext, PlansNext, PassNext, PlanLabels, Dispatches
  <2> QED BY <2>1, <2>2 DEF SettleStep, NextMove
<1>4. CASE Register(p)
  BY <1>4, PlainStart DEF Register, PlainLabels, SettleStep
<1>5. CASE SaveSchedule(p)
  <2>1. job' = job /\ row' = row /\ passAt' = passAt /\ faults' = faults /\ pc[p] = "saveSchedule"
    BY <1>5 DEF SaveSchedule
  <2>2. CASE Goto(p, "saveIntent", frame[p]) /\ ~(frame[p].alert <= frame[p].at)
    <3>1. pc'[p] = "saveIntent" /\ frame'[p] = frame[p] /\ frame[p].at < frame[p].alert
      BY <1>0, <2>2 DEF Goto, Frame
    <3>2. ArmsNext(p) /\ DispatchesNext(p) /\ PlansNext(p) /\ PassNext(p)
      BY <2>1, <3>1 DEF ArmsNext, DispatchesNext, PlansNext, PassNext, PlanLabels, Dispatches
    <3> QED BY <2>1, <3>2 DEF SettleStep, NextMove
  <2> QED BY <1>5, <2>1, <2>2, PlainMove, PlainFinish
          DEF SaveSchedule, PlainLabels, PlainOrigins, SettleStep
<1>6. ASSUME NEW from \in PlanLabels, pc[p] = from, NEW to \in PlanLabels, Goto(p, to, frame[p]),
             job' = job, row' = row, passAt' = passAt, faults' = faults
      PROVE  SettleStep(p)
  <2>1. pc'[p] = to /\ frame'[p] = frame[p]
    BY <1>0, <1>6 DEF Goto
  <2>2. ArmsNext(p) /\ DispatchesNext(p) /\ PlansNext(p) /\ PassNext(p)
    BY <1>6, <2>1 DEF ArmsNext, DispatchesNext, PlansNext, PassNext, PlanLabels, Dispatches
  <2> QED BY <1>6, <2>2 DEF SettleStep, NextMove
<1>7. CASE SaveIntent(p) \/ ListInstallations(p) \/ FindJob(p)
  <2>1. CASE SaveIntent(p)
    BY <1>6, <2>1, PlainFinish DEF SaveIntent, PlanLabels, PlainOrigins, SettleStep
  <2>2. CASE ListInstallations(p)
    BY <1>6, <2>2, PlainFinish DEF ListInstallations, PlanLabels, PlainOrigins, SettleStep
  <2>3. CASE FindJob(p)
    BY <1>6, <2>3, PlainFinish DEF FindJob, PlanLabels, PlainOrigins, SettleStep
  <2> QED BY <1>7, <2>1, <2>2, <2>3
<1>8. CASE SupersedeIntents(p) \/ OfferOptIn(p) \/ CheckOptIn(p) \/ EnableInstallation(p)
           \/ RegisterOptIn(p)
  BY <1>8, PlainMove, PlainFinish
     DEF SupersedeIntents, OfferOptIn, CheckOptIn, EnableInstallation, RegisterOptIn,
         PlainLabels, PlainOrigins, SettleStep
<1>9. CASE InsertJob(p) \/ ReplaceJob(p)
  <2>1. row' = row /\ passAt' = passAt /\ faults' = faults /\ pc[p] \in {"insertJob", "replaceJob"}
    BY <1>9 DEF InsertJob, ReplaceJob
  <2>2. CASE /\ Goto(p, "create", frame[p])
             /\ \E round \in Nat : job' = PlannedJob(frame[p].alert, frame[p].at, round)
    <3>1. pc'[p] = "create" /\ frame'[p] = frame[p]
      BY <1>0, <2>2 DEF Goto
    <3> QED BY <2>1, <2>2, <3>1 DEF SettleStep, JobMove, Plans
  <2>3. CASE job' = job /\ Finish(p)
    BY <2>1, <2>3, PlainFinish DEF PlainOrigins, PlanLabels, SettleStep
  <2>4. job # None => job.round + 1 \in Nat
    BY <1>0 DEF Job
  <2> QED BY <1>9, <2>2, <2>3, <2>4 DEF InsertJob, ReplaceJob
<1>10. CASE DisableInstallation(p) \/ OptOut(p)
  <2>1. /\ pc[p] \in {"disable", "optOut"} /\ pc'[p] \in {"optOut", "suppressJobs"}
        /\ frame'[p] = frame[p]
        /\ job' = job /\ row' = row /\ passAt' = passAt /\ faults' = faults
    BY <1>0, <1>10 DEF DisableInstallation, OptOut, Goto
  <2>2. ArmsNext(p) /\ DispatchesNext(p) /\ PlansNext(p) /\ PassNext(p)
    BY <2>1 DEF ArmsNext, DispatchesNext, PlansNext, PassNext, PlanLabels, Dispatches
  <2> QED BY <2>1, <2>2 DEF SettleStep, NextMove
<1>11. CASE SuppressJobs(p)
  <2>1. row' = row /\ passAt' = passAt /\ faults' = faults /\ pc[p] = "suppressJobs"
    BY <1>11 DEF SuppressJobs
  <2>2. /\ p \in Workers => pc'[p] = "closeJob" /\ frame'[p] = frame[p]
        /\ p \notin Workers => pc'[p] \in EndLabels
    BY <1>0, <1>11, FinishLabels DEF SuppressJobs, Goto
  <2>3. CASE job # None /\ Suppressible(job)
    <3>1. job' = Settled(job, "skipped", "suppressed_revoked", frame[p].at)
      BY <1>11, <2>3 DEF SuppressJobs
    <3>2. job'.status = "skipped" /\ job'.intendedAt = job.intendedAt
      BY <1>0, <2>3, <3>1 DEF Settled, Job
    <3> QED BY <2>1, <2>2, <2>3, <3>2
            DEF SettleStep, JobMove, Settles, Finished, Dispatches
  <2>4. CASE ~(job # None /\ Suppressible(job))
    <3>1. job' = job
      BY <1>11, <2>4 DEF SuppressJobs
    <3>2. ArmsNext(p) /\ DispatchesNext(p) /\ PlansNext(p) /\ PassNext(p)
      BY <2>1, <2>2
         DEF ArmsNext, DispatchesNext, PlansNext, PassNext, PlanLabels, Dispatches, EndLabels
    <3> QED BY <2>1, <3>1, <3>2 DEF SettleStep, NextMove
  <2> QED BY <2>3, <2>4
<1>12. CASE ListIntents(p)
  <2>1. job' = job /\ row' = row /\ passAt' = passAt /\ faults' = faults /\ pc[p] = "listIntents"
    BY <1>12 DEF ListIntents
  <2>2. ASSUME NEW t \in AlertTimes, frame[p].at < FreshUntil(t),
               Goto(p, "findJob", [frame[p] EXCEPT !.alert = t, !.due = t])
        PROVE  SettleStep(p)
    <3>1. /\ pc'[p] = "findJob" /\ frame'[p].alert = t /\ frame'[p].due = t
          /\ frame'[p].at = frame[p].at
      BY <1>0, <2>2 DEF Goto, Frame
    <3>2. ArmsNext(p) /\ DispatchesNext(p) /\ PlansNext(p) /\ PassNext(p)
      BY <2>1, <2>2, <3>1
         DEF ArmsNext, DispatchesNext, PlansNext, PassNext, PlanFrame, PlanLabels, Dispatches
    <3> QED BY <2>1, <3>2 DEF SettleStep, NextMove
  <2>3. CASE Finish(p)
    BY <2>1, <2>3, PlainFinish DEF PlainOrigins, SettleStep
  <2> QED BY <1>12, <2>2, <2>3 DEF ListIntents, FreshIntents
<1> QED BY <1>1, <1>2, <1>3, <1>4, <1>5, <1>7, <1>8, <1>9, <1>10, <1>11, <1>12
        DEF Owning, Planning

-----------------------------------------------------------------------------
\* Only a queue callback looks at the job, claims it and dispatches it.
CallbackLabels ==
  {"validate", "inspect", "claim", "context", "push", "suppress", "accept", "retry", "closeJob"}

CallbacksDispatch == \A p \in Procs : pc[p] \in CallbackLabels => p \in Workers

LEMMA GotoCallback ==
  ASSUME TypeOK, CallbacksDispatch, NEW p \in Procs, NEW label, NEW f, Goto(p, label, f),
         label \in CallbackLabels => p \in Workers
  PROVE  CallbacksDispatch'
BY DEF TypeOK, Goto, CallbacksDispatch

LEMMA StartCallback ==
  ASSUME TypeOK, CallbacksDispatch, NEW p \in Procs, NEW label, NEW f, Start(p, label, f),
         label \in CallbackLabels => p \in Workers
  PROVE  CallbacksDispatch'
BY GotoCallback DEF Start

LEMMA FinishCallback ==
  ASSUME TypeOK, CallbacksDispatch, NEW p \in Procs, Finish(p)
  PROVE  CallbacksDispatch'
<1>1. PICK label \in EndLabels : \E f : Goto(p, label, f)
  BY FinishLabels
<1> QED BY <1>1, GotoCallback DEF EndLabels, CallbackLabels

LEMMA NextCallbacks == TypeOK /\ CallbacksDispatch /\ [Next]_vars => CallbacksDispatch'
<1> SUFFICES ASSUME TypeOK, CallbacksDispatch, [Next]_vars PROVE CallbacksDispatch'
  OBVIOUS
<1>1. ASSUME NEW p \in Procs, Owning(p) \/ Planning(p) PROVE CallbacksDispatch'
  <2> USE GotoCallback, StartCallback, FinishCallback DEF CallbackLabels
  <2>1. CASE Save(p)
    <3>1. PICK t \in AlertTimes : Start(p, "saveSchedule", [Idle EXCEPT !.alert = t, !.due = t])
      BY <2>1 DEF Save
    <3> QED BY <3>1
  <2>2. CASE MoveAway(p) \/ Clear(p)
    BY <2>2 DEF MoveAway, Clear, CallbacksDispatch
  <2>3. CASE Disable(p) \/ Register(p)
    BY <2>3 DEF Disable, Register
  <2>4. CASE SaveSchedule(p) \/ SupersedeIntents(p) \/ SaveIntent(p) \/ ListInstallations(p)
    BY <2>4 DEF SaveSchedule, SupersedeIntents, SaveIntent, ListInstallations
  <2>5. CASE FindJob(p) \/ InsertJob(p) \/ ReplaceJob(p)
    BY <2>5 DEF FindJob, InsertJob, ReplaceJob
  <2>6. CASE DisableInstallation(p) \/ OptOut(p) \/ SuppressJobs(p)
    BY <2>6 DEF DisableInstallation, OptOut, SuppressJobs
  <2>7. CASE OfferOptIn(p) \/ CheckOptIn(p) \/ EnableInstallation(p) \/ RegisterOptIn(p)
    BY <2>7 DEF OfferOptIn, CheckOptIn, EnableInstallation, RegisterOptIn
  <2>8. CASE ListIntents(p)
    <3>1. ASSUME NEW t \in AlertTimes,
                 Goto(p, "findJob", [frame[p] EXCEPT !.alert = t, !.due = t])
          PROVE  CallbacksDispatch'
      BY <3>1
    <3> QED BY <2>8, <3>1 DEF ListIntents, FreshIntents
  <2> QED BY <1>1, <2>1, <2>2, <2>3, <2>4, <2>5, <2>6, <2>7, <2>8 DEF Owning, Planning
<1>2. ASSUME NEW p \in Procs, Consuming(p) PROVE CallbacksDispatch'
  <2>0. pc[p] \in CallbackLabels => p \in Workers
    BY DEF CallbacksDispatch
  <2> USE GotoCallback, StartCallback, FinishCallback DEF CallbackLabels, At
  <2>1. CASE Receive(p)
    <3>1. PICK m \in queue : Start(p, "validate", [Idle EXCEPT !.msg = m, !.rev = m.revision])
      BY <2>1 DEF Receive
    <3> QED BY <2>1, <3>1 DEF Receive
  <2>2. CASE Validate(p) \/ InspectJob(p) \/ ClaimJob(p) \/ LoadContext(p)
    BY <2>0, <2>2 DEF Validate, InspectJob, ClaimJob, LoadContext
  <2>3. CASE Push(p)
    <3>1. PICK label \in {"accept", "retry", "disable"} : Goto(p, label, frame[p])
      BY <2>3, ReminderAssumption DEF Push
    <3> QED BY <2>0, <2>3, <3>1 DEF Push
  <2>4. CASE SuppressDelivery(p) \/ AcceptDelivery(p) \/ CloseTerminal(p) \/ ScheduleRetry(p)
    BY <2>4 DEF SuppressDelivery, AcceptDelivery, CloseTerminal, ScheduleRetry
  <2>5. CASE JobGone(p) \/ Acknowledge(p)
    BY <2>5 DEF JobGone, Acknowledge
  <2> QED BY <1>2, <2>1, <2>2, <2>3, <2>4, <2>5 DEF Consuming
<1>3. ASSUME NEW p \in Procs, Arming(p) \/ Recovering(p) PROVE CallbacksDispatch'
  <2> USE GotoCallback, StartCallback, FinishCallback DEF CallbackLabels
  <2>1. CASE CreateRow(p) \/ ReviseRow(p) \/ ReadForPublish(p)
    BY <2>1 DEF CreateRow, ReviseRow, ReadForPublish
  <2>2. CASE Send(p)
    BY <2>2 DEF Send
  <2>3. CASE MarkPublished(p) \/ RecordPublishFailure(p) \/ ReloadForRearm(p)
    BY <2>3 DEF MarkPublished, RecordPublishFailure, ReloadForRearm
  <2>4. CASE StartPass(p) \/ ListDue(p) \/ LoadTarget(p)
    BY <2>4 DEF StartPass, ListDue, LoadTarget
  <2>5. CASE Abandon(p) \/ CloseStale(p) \/ ListOverdueJobs(p) \/ ListOverduePointers(p)
    BY <2>5 DEF Abandon, CloseStale, ListOverdueJobs, ListOverduePointers
  <2>6. CASE FindRow(p) \/ LoadPointerJob(p)
    BY <2>6 DEF FindRow, LoadPointerJob, RecoverJobWakeup
  <2> QED BY <1>3, <2>1, <2>2, <2>3, <2>4, <2>5, <2>6 DEF Arming, Recovering
<1>4. ASSUME NEW p \in Procs, Crash(p) PROVE CallbacksDispatch'
  BY <1>4, GotoCallback DEF Crash, CallbackLabels
<1>5. CASE LoseMessage \/ SkipPass \/ Tick \/ Stop \/ UNCHANGED vars
  BY <1>5 DEF LoseMessage, SkipPass, Tick, Stop, vars, CallbacksDispatch
<1> QED BY <1>1, <1>2, <1>3, <1>4, <1>5 DEF Next, Works
-----------------------------------------------------------------------------
\* A callback dispatches the job, or lets it be.
LEMMA ConsumingSettles ==
  ASSUME TypeOK, CallbacksDispatch, NEW p \in Procs, Consuming(p)
  PROVE  SettleStep(p)
<1>0. /\ frame[p] \in Frame /\ pc \in [Procs -> Labels] /\ frame \in [Procs -> Frame]
      /\ job # None => job \in Job
      /\ frame[p].at \in Nat /\ frame[p].alert \in Nat /\ frame[p].outcome \in Outcome
  BY DEF TypeOK, Frame
<1> USE DEF At
<1>1. CASE Receive(p)
  <2>1. PICK m \in queue : Start(p, "validate", [Idle EXCEPT !.msg = m, !.rev = m.revision])
    BY <1>1 DEF Receive
  <2> QED BY <1>1, <2>1, PlainStart DEF Receive, PlainLabels, SettleStep
<1>2. CASE Validate(p)
  BY <1>2, PlainMove, PlainFinish DEF Validate, PlainLabels, PlainOrigins, SettleStep
<1>3. CASE InspectJob(p)
  <2>1. job' = job /\ row' = row /\ passAt' = passAt /\ faults' = faults /\ pc[p] = "inspect"
    BY <1>3 DEF InspectJob
  <2>2. CASE Finish(p)
    BY <2>1, <2>2, PlainFinish DEF PlainOrigins, SettleStep
  <2>3. CASE Goto(p, "claim", frame[p])
    BY <2>1, <2>3, PlainMove DEF PlainLabels, PlainOrigins, SettleStep
  <2>4. CASE /\ Goto(p, "reload", frame[p]) /\ job # None /\ ~Claimable(job, frame[p].at)
             /\ job.status \in {"pending", "failed"}
    <3>1. pc'[p] = "reload"
      BY <1>0, <2>4 DEF Goto
    <3>2. ArmsNext(p) /\ DispatchesNext(p) /\ PlansNext(p) /\ PassNext(p)
      BY <2>1, <2>4, <3>1
         DEF ArmsNext, DispatchesNext, PlansNext, PassNext, PlanLabels, Dispatches
    <3> QED BY <2>1, <3>2 DEF SettleStep, NextMove
  <2> QED BY <1>3, <2>2, <2>3, <2>4 DEF InspectJob
<1>4. CASE ClaimJob(p)
  <2>1. row' = row /\ passAt' = passAt /\ faults' = faults /\ pc[p] = "claim"
    BY <1>4 DEF ClaimJob
  <2>2. CASE job # None /\ ClaimAllowed(job, frame[p].at)
    <3>1. /\ job' = Claimed(job, frame[p].at)
          /\ Goto(p, "context", [frame[p] EXCEPT !.alert = job.intendedAt, !.round = job.round])
      BY <1>4, <2>2 DEF ClaimJob
    <3>2. pc'[p] = "context" /\ frame'[p].alert = job.intendedAt
      BY <1>0, <3>1 DEF Goto, Frame
    <3> QED BY <2>1, <2>2, <3>1, <3>2 DEF SettleStep, JobMove, Takes
  <2> QED BY <1>4, <2>1, <2>2, PlainFinish DEF ClaimJob, PlainOrigins, SettleStep
<1>5. CASE LoadContext(p)
  <2>1. job' = job /\ row' = row /\ passAt' = passAt /\ faults' = faults /\ pc[p] = "context"
    BY <1>5 DEF LoadContext
  <2>2. /\ frame'[p].at = frame[p].at /\ frame'[p].alert = frame[p].alert
        /\ pc'[p] \in {"push", "suppress"}
        /\ pc'[p] = "push" => SuppressionReason(frame[p]) = "none"
    BY <1>0, <1>5 DEF LoadContext, Goto, Frame
  <2>3. pc'[p] = "push" => frame[p].at < FreshUntil(frame[p].alert)
    <3>1. FreshUntil(frame[p].alert) \in Nat
      BY <1>0, JobTimes
    <3>2. SuppressionReason(frame[p]) = "none" => ~(FreshUntil(frame[p].alert) <= frame[p].at)
      BY DEF SuppressionReason
    <3> QED BY <1>0, <2>2, <3>1, <3>2
  <2>4. ArmsNext(p) /\ DispatchesNext(p) /\ PlansNext(p) /\ PassNext(p)
    BY <2>1, <2>2, <2>3
       DEF ArmsNext, DispatchesNext, PlansNext, PassNext, PlanLabels, Dispatches
  <2> QED BY <2>1, <2>4 DEF SettleStep, NextMove
<1>6. CASE Push(p)
  <2>1. job' = job /\ row' = row /\ passAt' = passAt /\ faults' = faults /\ pc[p] = "push"
    BY <1>6 DEF Push
  <2>2. PICK answer \in PushOutcomes :
          Goto(p, CASE answer = "accepted" -> "accept"
                    [] answer = "failed"   -> "retry"
                    [] answer = "terminal" -> "disable", frame[p])
    BY <1>6 DEF Push
  <2>3. pc'[p] \in {"accept", "retry", "disable"} /\ frame'[p] = frame[p]
    BY <1>0, <2>2, ReminderAssumption DEF Goto
  <2>4. pc'[p] = "disable" => p \in Workers
    BY <2>1 DEF CallbacksDispatch, CallbackLabels
  <2>5. ArmsNext(p) /\ DispatchesNext(p) /\ PlansNext(p) /\ PassNext(p)
    BY <2>1, <2>3, <2>4
       DEF ArmsNext, DispatchesNext, PlansNext, PassNext, PlanLabels, Dispatches
  <2> QED BY <2>1, <2>5 DEF SettleStep, NextMove
<1>7. ASSUME NEW status \in {"completed", "skipped"}, NEW outcome,
             job # None, job' = Settled(job, status, outcome, frame[p].at), Finish(p),
             row' = row, passAt' = passAt, faults' = faults
      PROVE  SettleStep(p)
  <2>1. job'.status = status /\ job'.intendedAt = job.intendedAt
    BY <1>0, <1>7 DEF Settled, Job
  <2> QED BY <1>7, <2>1, FinishLabels DEF SettleStep, JobMove, Settles, Finished
<1>8. CASE SuppressDelivery(p)
  BY <1>7, <1>8 DEF SuppressDelivery, WriteJob
<1>9. CASE AcceptDelivery(p)
  BY <1>7, <1>9 DEF AcceptDelivery, WriteJob
<1>10. CASE CloseTerminal(p)
  BY <1>7, <1>10 DEF CloseTerminal, WriteJob
<1>11. CASE ScheduleRetry(p)
  <2>1. /\ row' = row /\ passAt' = passAt /\ faults' = faults /\ pc[p] = "retry" /\ job # None
        /\ job' = RetryScheduled(job, frame[p].alert, frame[p].at)
    BY <1>11 DEF ScheduleRetry, WriteJob
  <2>2. pc'[p] = "create" /\ frame'[p].due = RetryTime(frame[p].alert, frame[p].at)
    BY <1>0, <1>11 DEF ScheduleRetry, Goto, Frame
  <2> QED BY <2>1, <2>2 DEF SettleStep, JobMove, Retries
<1>12. CASE JobGone(p)
  <2>1. /\ job' = job /\ row' = row /\ passAt' = passAt /\ faults' = faults
        /\ pc[p] \in {"suppress", "accept", "closeJob", "retry"} /\ job = None /\ pc'[p] = "idle"
    BY <1>0, <1>12 DEF JobGone, Goto
  <2>2. ArmsNext(p) /\ DispatchesNext(p) /\ PlansNext(p) /\ PassNext(p)
    BY <2>1 DEF ArmsNext, DispatchesNext, PlansNext, PassNext, PlanLabels, Dispatches
  <2> QED BY <2>1, <2>2 DEF SettleStep, NextMove
<1>13. CASE Acknowledge(p)
  BY <1>13, PlainMove DEF Acknowledge, PlainLabels, EndLabels, PlainOrigins, SettleStep
<1> QED BY <1>1, <1>2, <1>3, <1>4, <1>5, <1>6, <1>8, <1>9, <1>10, <1>11, <1>12, <1>13
        DEF Consuming

\* An invocation arms or publishes the row.
LEMMA ArmingSettles ==
  ASSUME TypeOK, NEW p \in Procs, Arming(p)
  PROVE  SettleStep(p)
<1>0. /\ frame[p] \in Frame /\ pc \in [Procs -> Labels] /\ frame \in [Procs -> Frame]
      /\ frame[p].at \in Nat /\ frame[p].at + DelayOf(frame[p]) \in Nat
  <2>1. frame[p].due \in Nat /\ frame[p].at \in Nat
    BY DEF TypeOK, Frame
  <2>2. DelayOf(frame[p]) \in Nat
    BY <2>1, DelayType DEF DelayOf
  <2> QED BY <2>1, <2>2 DEF TypeOK
<1> USE DEF At
<1>1. CASE CreateRow(p)
  <2>1. /\ job' = job /\ passAt' = passAt /\ faults' = faults /\ pc[p] = "create"
        /\ pc'[p] = "revise" /\ frame'[p] = frame[p]
    BY <1>0, <1>1 DEF CreateRow, Goto
  <2>2. CASE row = None
    BY <1>1, <2>1, <2>2 DEF CreateRow, SettleStep, RowMove, Creates
  <2>3. CASE row # None
    <3>1. ArmsNext(p) /\ DispatchesNext(p) /\ PlansNext(p) /\ PassNext(p)
      BY <2>1 DEF ArmsNext, DispatchesNext, PlansNext, PassNext, PlanLabels, Dispatches
    <3> QED BY <1>1, <2>1, <2>3, <3>1 DEF CreateRow, SettleStep, NextMove
  <2> QED BY <2>2, <2>3
<1>2. CASE ReviseRow(p)
  <2>1. job' = job /\ passAt' = passAt /\ faults' = faults /\ pc[p] = "revise"
    BY <1>2 DEF ReviseRow
  <2>2. CASE Targets(row, frame[p].rev)
    <3>1. row # None /\ row' = Revised(row, FirstPublishAttemptAt(frame[p]))
      BY <1>2, <2>2 DEF ReviseRow, Targets
    <3>2. pc'[p] \in EndLabels \cup {"publish"}
      BY <1>0, <1>2, <2>2, FinishLabels DEF ReviseRow, Goto
    <3> QED BY <2>1, <3>1, <3>2 DEF SettleStep, RowMove, Revises
  <2> QED BY <1>2, <2>1, <2>2, PlainFinish DEF ReviseRow, PlainOrigins, SettleStep
<1>3. CASE ReadForPublish(p)
  <2>1. job' = job /\ row' = row /\ passAt' = passAt /\ faults' = faults /\ pc[p] = "publish"
    BY <1>3 DEF ReadForPublish
  <2>2. /\ Targets(row, frame[p].rev) => pc'[p] = "send" /\ frame'[p].rev = frame[p].rev
        /\ pc'[p] \in EndLabels \cup {"send"}
    BY <1>0, <1>3, FinishLabels DEF ReadForPublish, Goto
  <2>3. ArmsNext(p) /\ DispatchesNext(p) /\ PlansNext(p) /\ PassNext(p)
    BY <2>1, <2>2
       DEF ArmsNext, DispatchesNext, PlansNext, PassNext, PlanLabels, Dispatches, EndLabels
  <2> QED BY <2>1, <2>3 DEF SettleStep, NextMove
<1>4. CASE Send(p)
  <2>1. job' = job /\ row' = row /\ passAt' = passAt /\ pc[p] = "send" /\ frame'[p] = frame[p]
    BY <1>0, <1>4 DEF Send, Goto
  <2>2. \/ pc'[p] = "mark" /\ faults' = faults
        \/ pc'[p] = "markFailed" /\ faults' = faults + 1
    BY <1>0, <1>4 DEF Send, Goto
  <2>3. CASE pc'[p] = "mark" /\ faults' = faults
    <3>1. ArmsNext(p) /\ DispatchesNext(p) /\ PlansNext(p) /\ PassNext(p)
      BY <2>1, <2>3 DEF ArmsNext, DispatchesNext, PlansNext, PassNext, PlanLabels, Dispatches
    <3> QED BY <2>1, <2>3, <3>1 DEF SettleStep, NextMove
  <2> QED BY <2>1, <2>2, <2>3 DEF SettleStep, FaultMove
<1>5. CASE MarkPublished(p)
  <2>1. /\ job' = job /\ passAt' = passAt /\ faults' = faults /\ pc[p] = "mark"
        /\ pc'[p] \in EndLabels
    BY <1>5, FinishLabels DEF MarkPublished
  <2>2. CASE Targets(row, frame[p].rev)
    <3>1. row # None /\ row' = MarkedPublished(row, frame[p].at, frame[p].at + DelayOf(frame[p]))
      BY <1>5, <2>2 DEF MarkPublished, MarkFence, Targets
    <3> QED BY <1>0, <2>1, <3>1 DEF SettleStep, RowMove, Marks
  <2>3. CASE ~Targets(row, frame[p].rev)
    <3>1. row' = row
      BY <1>5, <2>3 DEF MarkPublished, MarkFence
    <3>2. ArmsNext(p) /\ DispatchesNext(p) /\ PlansNext(p) /\ PassNext(p)
      BY <2>1, <2>3
         DEF ArmsNext, DispatchesNext, PlansNext, PassNext, PlanLabels, Dispatches, EndLabels
    <3> QED BY <2>1, <3>1, <3>2 DEF SettleStep, NextMove
  <2> QED BY <2>2, <2>3
<1>6. CASE RecordPublishFailure(p)
  <2>1. /\ job' = job /\ passAt' = passAt /\ faults' = faults /\ pc[p] = "markFailed"
        /\ pc'[p] \in EndLabels
    BY <1>6, FinishLabels DEF RecordPublishFailure
  <2>2. CASE Targets(row, frame[p].rev)
    <3>1. row # None /\ row' = MarkedPublishFailed(row, frame[p].at)
      BY <1>6, <2>2 DEF RecordPublishFailure, Targets
    <3> QED BY <2>1, <3>1 DEF SettleStep, RowMove, MarksFailed
  <2>3. CASE ~Targets(row, frame[p].rev)
    BY <1>6, <2>1, <2>3, PlainFinish DEF RecordPublishFailure, PlainOrigins, SettleStep
  <2> QED BY <2>2, <2>3
<1>7. CASE ReloadForRearm(p)
  <2>1. job' = job /\ row' = row /\ passAt' = passAt /\ faults' = faults /\ pc[p] = "reload"
    BY <1>7 DEF ReloadForRearm
  <2>2. CASE job # None /\ Awaiting(job, frame[p].at)
    <3>1. pc'[p] = "create" /\ frame'[p].due = WakeupTime(job, frame[p].at)
      BY <1>0, <1>7, <2>2 DEF ReloadForRearm, Goto, Frame
    <3>2. ArmsNext(p) /\ DispatchesNext(p) /\ PlansNext(p) /\ PassNext(p)
      BY <2>1, <2>2, <3>1
         DEF ArmsNext, DispatchesNext, PlansNext, PassNext, PlanLabels, Dispatches
    <3> QED BY <2>1, <3>2 DEF SettleStep, NextMove
  <2> QED BY <1>7, <2>1, <2>2, PlainFinish DEF ReloadForRearm, PlainOrigins, SettleStep
<1> QED BY <1>1, <1>2, <1>3, <1>4, <1>5, <1>6, <1>7 DEF Arming

\* A recovery pass begins, scans, abandons the row or closes the job.
LEMMA RecoveringSettles ==
  ASSUME TypeOK, NEW p \in Procs, Recovering(p)
  PROVE  SettleStep(p)
<1>0. /\ frame[p] \in Frame /\ pc \in [Procs -> Labels] /\ frame \in [Procs -> Frame]
      /\ job # None => job \in Job
      /\ frame[p].at \in Nat /\ frame[p].alert \in Nat
  BY DEF TypeOK, Frame
<1> USE DEF At
<1>n. ASSUME job' = job, row' = row, passAt' = passAt, faults' = faults,
             ArmsNext(p) /\ DispatchesNext(p) /\ PlansNext(p) /\ PassNext(p)
      PROVE  SettleStep(p)
  BY <1>n DEF SettleStep, NextMove
<1>1. CASE StartPass(p)
  <2>1. /\ p \in Crons /\ pc[p] = "idle" /\ passAt' = [passAt EXCEPT ![p] = now]
        /\ job' = job /\ row' = row /\ faults' = faults /\ pc'[p] = "listDue"
    BY <1>0, <1>1 DEF StartPass, Start, Goto
  <2> QED BY <2>1 DEF SettleStep, PassMove
<1>2. CASE ListDue(p)
  <2>1. job' = job /\ row' = row /\ passAt' = passAt /\ faults' = faults /\ pc[p] = "listDue"
    BY <1>2 DEF ListDue
  <2>2. CASE DueDelivery(row, {"pending", "publish_failed"}, frame[p].at)
    <3>1. pc'[p] = "target" /\ frame'[p].rev = row.revision /\ Unpublished(row)
      BY <1>0, <1>2, <2>2 DEF ListDue, Goto, Frame, Unpublished, DueDelivery
    <3>2. ArmsNext(p) /\ DispatchesNext(p) /\ PlansNext(p) /\ PassNext(p)
      BY <2>1, <2>2, <3>1
         DEF ArmsNext, DispatchesNext, PlansNext, PassNext, PlanLabels, Dispatches
    <3> QED BY <1>n, <2>1, <3>2
  <2>3. CASE ~DueDelivery(row, {"pending", "publish_failed"}, frame[p].at)
    <3>1. pc'[p] = "listOverdue"
      BY <1>0, <1>2, <2>3 DEF ListDue, Goto
    <3>2. ArmsNext(p) /\ DispatchesNext(p) /\ PlansNext(p) /\ PassNext(p)
      BY <2>1, <2>3, <3>1
         DEF ArmsNext, DispatchesNext, PlansNext, PassNext, PlanLabels, Dispatches
    <3> QED BY <1>n, <2>1, <3>2
  <2> QED BY <2>2, <2>3
<1>3. CASE LoadTarget(p)
  <2>1. job' = job /\ row' = row /\ passAt' = passAt /\ faults' = faults /\ pc[p] = "target"
    BY <1>3 DEF LoadTarget
  <2>2. CASE job # None /\ Awaiting(job, frame[p].at)
    <3>1. pc'[p] = "publish" /\ frame'[p].rev = frame[p].rev
      BY <1>0, <1>3, <2>2 DEF LoadTarget, Goto, Frame
    <3>2. ArmsNext(p) /\ DispatchesNext(p) /\ PlansNext(p) /\ PassNext(p)
      BY <2>1, <3>1 DEF ArmsNext, DispatchesNext, PlansNext, PassNext, PlanLabels, Dispatches
    <3> QED BY <1>n, <2>1, <3>2
  <2>3. CASE ~(job # None /\ Awaiting(job, frame[p].at))
    <3>1. pc'[p] \in EndLabels \cup {"abandon"}
      BY <1>0, <1>3, <2>3, FinishLabels DEF LoadTarget, Goto
    <3>2. ArmsNext(p) /\ DispatchesNext(p) /\ PlansNext(p) /\ PassNext(p)
      BY <2>1, <2>3, <3>1
         DEF ArmsNext, DispatchesNext, PlansNext, PassNext, PlanLabels, Dispatches, EndLabels
    <3> QED BY <1>n, <2>1, <3>2
  <2> QED BY <2>2, <2>3
<1>4. CASE Abandon(p)
  <2>1. /\ job' = job /\ passAt' = passAt /\ faults' = faults /\ pc[p] = "abandon"
        /\ pc'[p] \in EndLabels
    BY <1>4, FinishLabels DEF Abandon
  <2>2. CASE Targets(row, AbandonFence(frame[p]))
    <3>1. row # None /\ row' = Abandoned(row)
      BY <1>4, <2>2 DEF Abandon, Targets
    <3> QED BY <2>1, <3>1 DEF SettleStep, RowMove, Abandons
  <2>3. CASE ~Targets(row, AbandonFence(frame[p]))
    BY <1>4, <2>1, <2>3, PlainFinish DEF Abandon, PlainOrigins, SettleStep
  <2> QED BY <2>2, <2>3
<1>5. CASE ListOverdueJobs(p)
  <2>1. job' = job /\ row' = row /\ passAt' = passAt /\ faults' = faults /\ pc[p] = "listOverdue"
    BY <1>5 DEF ListOverdueJobs
  <2>2. CASE job # None /\ OverdueJob(job, frame[p].at, Grace)
    <3>1. pc'[p] = "findRow" /\ frame'[p].alert = job.intendedAt
      BY <1>0, <1>5, <2>2 DEF ListOverdueJobs, Goto, Frame
    <3>2. ArmsNext(p) /\ DispatchesNext(p) /\ PlansNext(p) /\ PassNext(p)
      BY <2>1, <2>2, <3>1
         DEF ArmsNext, DispatchesNext, PlansNext, PassNext, PlanLabels, Dispatches
    <3> QED BY <1>n, <2>1, <3>2
  <2>3. CASE ~(job # None /\ OverdueJob(job, frame[p].at, Grace))
    <3>1. pc'[p] = "listPointers"
      BY <1>0, <1>5, <2>3 DEF ListOverdueJobs, Goto
    <3>2. ArmsNext(p) /\ DispatchesNext(p) /\ PlansNext(p) /\ PassNext(p)
      BY <2>1, <2>3, <3>1
         DEF ArmsNext, DispatchesNext, PlansNext, PassNext, PlanLabels, Dispatches
    <3> QED BY <1>n, <2>1, <3>2
  <2> QED BY <2>2, <2>3
<1>6. ASSUME NEW alert \in Nat, NEW rev, RecoverJobWakeup(p, alert, rev)
      PROVE  \/ pc'[p] = "closeStale"
             \/ pc'[p] = "reload" /\ frame[p].at < FreshUntil(alert)
  <2>1. FreshUntil(alert) \in Nat
    BY JobTimes
  <2>2. pc'[p] = IF FreshUntil(alert) <= frame[p].at THEN "closeStale" ELSE "reload"
    BY <1>0, <1>6 DEF RecoverJobWakeup, Goto
  <2> QED BY <1>0, <2>1, <2>2
<1>7. CASE FindRow(p)
  <2>1. job' = job /\ row' = row /\ passAt' = passAt /\ faults' = faults /\ pc[p] = "findRow"
    BY <1>7 DEF FindRow
  <2>2. CASE WakeupLost(row, frame[p].at)
    <3>1. \E rev : RecoverJobWakeup(p, frame[p].alert, rev)
      BY <1>7, <2>2 DEF FindRow
    <3>2. pc'[p] = IF FreshUntil(frame[p].alert) <= frame[p].at THEN "closeStale" ELSE "reload"
      BY <1>0, <3>1 DEF RecoverJobWakeup, Goto
    <3>3. \/ pc'[p] = "closeStale"
          \/ pc'[p] = "reload" /\ frame[p].at < FreshUntil(frame[p].alert)
      BY <1>0, <1>6, <3>1
    <3>4. ArmsNext(p) /\ DispatchesNext(p) /\ PlansNext(p) /\ PassNext(p)
      BY <2>1, <2>2, <3>2, <3>3
         DEF ArmsNext, DispatchesNext, PlansNext, PassNext, PlanLabels, Dispatches
    <3> QED BY <1>n, <2>1, <3>4
  <2>3. CASE ~WakeupLost(row, frame[p].at)
    <3>1. pc'[p] \in EndLabels
      BY <1>7, <2>3, FinishLabels DEF FindRow
    <3>2. ArmsNext(p) /\ DispatchesNext(p) /\ PlansNext(p) /\ PassNext(p)
      BY <2>1, <2>3, <3>1
         DEF ArmsNext, DispatchesNext, PlansNext, PassNext, PlanLabels, Dispatches, EndLabels
    <3> QED BY <1>n, <2>1, <3>2
  <2> QED BY <2>2, <2>3
<1>8. CASE ListOverduePointers(p)
  <2>1. job' = job /\ row' = row /\ passAt' = passAt /\ faults' = faults /\ pc[p] = "listPointers"
    BY <1>8 DEF ListOverduePointers
  <2> QED BY <1>8, <2>1, PlainMove, PlainFinish
          DEF ListOverduePointers, PlainLabels, PlainOrigins, SettleStep
<1>9. CASE LoadPointerJob(p)
  <2>1. job' = job /\ row' = row /\ passAt' = passAt /\ faults' = faults /\ pc[p] = "pointerJob"
    BY <1>9 DEF LoadPointerJob
  <2>2. CASE job # None /\ Awaiting(job, frame[p].at)
    <3>1. RecoverJobWakeup(p, job.intendedAt, frame[p].rev)
      BY <1>9, <2>2 DEF LoadPointerJob
    <3>2. \/ pc'[p] = "closeStale"
          \/ pc'[p] = "reload" /\ frame[p].at < FreshUntil(job.intendedAt)
      BY <1>0, <1>6, <2>2, <3>1 DEF Job
    <3>3. ArmsNext(p) /\ DispatchesNext(p) /\ PlansNext(p) /\ PassNext(p)
      BY <2>1, <2>2, <3>2
         DEF ArmsNext, DispatchesNext, PlansNext, PassNext, PlanLabels, Dispatches
    <3> QED BY <1>n, <2>1, <3>3
  <2>3. CASE ~(job # None /\ Awaiting(job, frame[p].at))
    BY <1>9, <2>1, <2>3, PlainMove, PlainFinish
       DEF LoadPointerJob, PlainLabels, PlainOrigins, SettleStep
  <2> QED BY <2>2, <2>3
<1>10. CASE CloseStale(p)
  <2>1. /\ row' = row /\ passAt' = passAt /\ faults' = faults /\ pc[p] = "closeStale"
        /\ pc'[p] \in EndLabels
    BY <1>10, FinishLabels DEF CloseStale
  <2>2. CASE job # None /\ StaleJob(job, frame[p].at)
    <3>1. job' = Settled(job, "skipped", "suppressed_stale", frame[p].at)
      BY <1>10, <2>2 DEF CloseStale
    <3>2. job'.status = "skipped" /\ job'.intendedAt = job.intendedAt
      BY <1>0, <2>2, <3>1 DEF Settled, Job
    <3> QED BY <2>1, <2>2, <3>2 DEF SettleStep, JobMove, Settles, Finished
  <2>3. CASE ~(job # None /\ StaleJob(job, frame[p].at))
    <3>1. job' = job
      BY <1>10, <2>3 DEF CloseStale
    <3>2. ArmsNext(p) /\ DispatchesNext(p) /\ PlansNext(p) /\ PassNext(p)
      BY <2>1, <2>3
         DEF ArmsNext, DispatchesNext, PlansNext, PassNext, PlanLabels, Dispatches, EndLabels
    <3> QED BY <1>n, <2>1, <3>1, <3>2
  <2> QED BY <2>2, <2>3
<1> QED BY <1>1, <1>2, <1>3, <1>4, <1>5, <1>7, <1>8, <1>9, <1>10 DEF Recovering

LEMMA EachSettleStep ==
  ASSUME TypeOK, CallbacksDispatch, NEW p \in Procs, Owning(p) \/ Works(p) \/ Crash(p)
  PROVE  SettleStep(p)
<1>1. CASE Crash(p)
  <2>1. pc'[p] = "idle"
    BY <1>1 DEF Crash, Goto, TypeOK
  <2> QED BY <1>1, <2>1 DEF Crash, Fault, SettleStep, FaultMove
<1> QED BY <1>1, OwningSettles, ConsumingSettles, ArmingSettles, RecoveringSettles DEF Works
-----------------------------------------------------------------------------
(* The inductive invariant.  First what holds of the times in any state.   *)

PassTimes == \A c \in Crons : passAt[c] <= now /\ now <= passAt[c] + PassEvery

\* A planning is of one of the alerts, and of one still fresh when it began.
PlanTimes ==
  \A p \in Procs :
    /\ pc[p] \in PlanLabels \cup {"saveSchedule"} => PlanFrame(frame[p])
    /\ pc[p] \in PlanLabels => frame[p].at < FreshUntil(frame[p].alert)

\* So is a dispatch, which retries no alert that is stale.
TryTimes ==
  \A p \in Procs :
    /\ pc[p] \in {"push", "retry"} => frame[p].at < FreshUntil(frame[p].alert)
    /\ Dispatches(p) => frame[p].alert \in AlertTimes
    /\ pc[p] = "markFailed" => faults > 0

JobTimed ==
  job # None => /\ job.intendedAt \in AlertTimes
                /\ job.status = "running" => job.updatedAt <= now

RowTimed ==
  row # None =>
    /\ row.status = "pending" =>
         row.nextAttemptAt <= IF PublishAhead THEN now ELSE Base(LastAlert)
    /\ row.status = "publish_failed" => row.nextAttemptAt <= now + RetryDelay /\ faults > 0
    /\ row.publishedAt # None => row.publishedAt <= now
    /\ row.status = "published" => row.publishedAt # None

\* Without publish-ahead a row may wait for the latest alert, and no longer.
ArmTimes ==
  \A p \in Procs :
    pc[p] \in {"create", "revise"} => PublishAhead \/ frame[p].due <= Base(LastAlert)

\* A dispatch is of the job's alert, or began before that alert was stale.
DispatchTimes ==
  job # None => \A p \in Procs : Dispatches(p) =>
    frame[p].alert = job.intendedAt \/ frame[p].at < FreshUntil(job.intendedAt) + MaxRun

Timed ==
  /\ PassTimes /\ PlanTimes /\ TryTimes /\ JobTimed /\ RowTimed /\ ArmTimes /\ DispatchTimes

(* Then what holds until the job is settled.                               *)

\* The callback that has claimed the job is still at it.
InHand ==
  job.status = "running" /\ \E p \in Procs : Dispatches(p) /\ frame[p].at = job.updatedAt

PassByNow == PassBy(job.intendedAt, faults, row)

RowInTime ==
  /\ Unpublished(row) => row.nextAttemptAt <= PublishBy(job.intendedAt, faults)
  /\ row # None /\ row.status = "published" =>
       row.publishedAt <= SeenBy(job.intendedAt, faults)

JobInTime ==
  /\ job.status # "running" => job.nextAttemptAt <= LastStart(job.intendedAt)
  /\ job.status = "running" => job.updatedAt <= PassByNow + PassEvery - 1 + MaxRun
  /\ job.status = "running" /\ ~InHand => job.updatedAt + Lease <= PassByNow /\ faults > 0

ArmInTime(p) ==
  /\ pc[p] \in {"create", "revise", "reload"} => frame[p].at < LastStart(job.intendedAt)
  /\ pc[p] = "findRow" =>
       \/ frame[p].alert = job.intendedAt
       \/ frame[p].at < FreshUntil(job.intendedAt) + 2 * MaxRun
  /\ pc[p] \in {"target", "publish", "send", "mark"} =>
       frame[p].at <= SeenBy(job.intendedAt, faults)
  /\ pc[p] = "markFailed" =>
       frame[p].at + Later(Lease, RetryDelay) + MaxRun <= PublishBy(job.intendedAt, faults)

\* A pass that begins once the row may be published publishes it,
Republishes(c) ==
  \/ pc[c] = "listDue"
  \/ pc[c] \in {"target", "publish", "send", "mark"} /\ frame[c].rev = row.revision

\* and one that begins once the wake-up is lost closes the job.
Closes(c) ==
  \/ pc[c] \in {"listDue", "listOverdue", "closeStale"}
  \/ pc[c] = "findRow" /\ FreshUntil(frame[c].alert) <= frame[c].at

OnTime(c) ==
  \/ passAt[c] < PassByNow
  \/ /\ passAt[c] < PassByNow + PassEvery /\ frame[c].at = passAt[c]
     /\ IF Unpublished(row) THEN Republishes(c) ELSE Closes(c)

InTime ==
  /\ RowInTime /\ JobInTime
  /\ \A p \in Procs : ArmInTime(p)
  /\ ~InHand => \A c \in Crons : OnTime(c)

SettleInv ==
  TypeOK /\ CallbacksDispatch /\ RunsInTime /\ Timed /\ (Unsettled => InTime)

\* The numbers of a state.
Sized ==
  /\ now \in Nat /\ faults \in Nat
  /\ \A p \in Procs : frame[p].at \in Nat /\ frame[p].alert \in Nat /\ frame[p].due \in Nat
  /\ \A c \in Crons : c \in Procs /\ passAt[c] \in Nat
  /\ job # None => /\ job.nextAttemptAt \in Nat /\ job.updatedAt \in Nat
                   /\ job.intendedAt \in Nat
                   /\ job.status \in {"pending", "running", "failed", "completed", "skipped"}
  /\ row # None => /\ row.nextAttemptAt \in Nat /\ row.publishedAt \in Nat \cup {None}
                   /\ row.revision \in Nat
                   /\ row.status \in {"pending", "published", "publish_failed", "abandoned"}

LEMMA Sizes == (TypeOK => Sized) /\ (TypeOK' => Sized')
<1>1. TypeOK => Sized
  BY DEF TypeOK, Sized, Frame, Job, JobStatus, Delivery, DeliveryStatus, Procs
<1>2. TypeOK' => Sized'
  BY DEF TypeOK, Sized, Frame, Job, JobStatus, Delivery, DeliveryStatus, Procs
<1> QED BY <1>1, <1>2

\* The latest alert, where it is counted from.
LEMMA Latest ==
  ASSUME Recovers, ~PublishAhead, NEW alert \in AlertTimes
  PROVE  /\ LastAlert \in AlertTimes /\ alert <= LastAlert
         /\ FreshUntil(alert) <= Base(LastAlert) /\ Base(LastAlert) \in Nat
         /\ Base(alert) = Base(LastAlert) /\ LastStart(alert) <= Base(LastAlert)
<1>1. LastAlert \in AlertTimes /\ alert <= LastAlert
  <2>1. \E t \in AlertTimes : \A u \in AlertTimes : u <= t
    BY DEF Recovers
  <2> QED BY <2>1 DEF LastAlert
<1>2. Horizon(alert) = Horizon(LastAlert)
  BY DEF Horizon
<1>3. Base(alert) = Base(LastAlert)
  BY <1>2 DEF Base, LastStart
<1>4. /\ Base(alert) = LastStart(alert) + MaxRun /\ LastStart(alert) \in Nat /\ MaxRun \in Nat
      /\ FreshUntil(alert) + RetryAfter + 2 * MaxRun <= LastStart(alert)
      /\ FreshUntil(alert) \in Nat /\ RetryAfter \in Nat /\ Base(alert) \in Nat
  <2>1. 0 \in Nat
    OBVIOUS
  <2> QED BY <2>1, Bounds
<1> QED BY <1>1, <1>3, <1>4

\* A retry is scheduled inside the freshness, and soon.
LEMMA RetrySoon ==
  ASSUME NEW alert \in Nat, NEW at \in Nat, at < FreshUntil(alert)
  PROVE  /\ RetryTime(alert, at) \in Nat /\ RetryTime(alert, at) <= FreshUntil(alert)
         /\ RetryTime(alert, at) <= at + RetryAfter
BY ReminderJobAssumption DEF RetryTime, FreshUntil

\* What every step of a process does to the labels, in short.
LEMMA Moves ==
  ASSUME NEW p \in Procs, SettleStep(p)
  PROVE  /\ pc'[p] \in {"push", "retry", "saveSchedule", "reload", "findRow", "target", "send",
                        "mark"} \cup PlanLabels
              => NextMove(p)
         /\ pc'[p] = "publish" => NextMove(p) \/ Revises(p)
         /\ pc'[p] = "markFailed" => FaultMove(p)
         /\ pc'[p] = "create" => NextMove(p) \/ Plans(p) \/ Retries(p)
         /\ pc'[p] = "revise" => NextMove(p) \/ Creates(p)
         /\ (passAt' = passAt /\ ~PassMove(p)) \/ PassMove(p)
         /\ faults' = faults \/ (faults' = faults + 1 /\ FaultMove(p))
<1> USE DEF SettleStep, JobMove, RowMove, FaultMove, PassMove, Plans, Settles, Retries, Takes,
            Creates, Revises, Marks, MarksFailed, Abandons, EndLabels, PlanLabels
<1>1. CASE JobMove(p)
  BY <1>1
<1>2. CASE RowMove(p)
  BY <1>2
<1>3. CASE FaultMove(p)
  BY <1>3
<1>4. CASE PassMove(p)
  BY <1>4
<1>5. CASE NextMove(p)
  BY <1>5 DEF NextMove, ArmsNext
<1> QED BY <1>1, <1>2, <1>3, <1>4, <1>5 DEF SettleStep

\* And to the job and the row.
LEMMA DispatchMoves ==
  ASSUME NEW p \in Procs, SettleStep(p), Dispatches(p)'
  PROVE  \/ NextMove(p) \/ Takes(p)
         \/ job' # None /\ job # None /\ job'.intendedAt = job.intendedAt
              /\ Dispatches(p) /\ frame'[p] = frame[p] /\ pc'[p] = "closeJob"
         \/ job' = None /\ Dispatches(p) /\ frame'[p] = frame[p] /\ pc'[p] = "closeJob"
<1> USE DEF Dispatches, EndLabels
<1>1. CASE JobMove(p)
  BY <1>1 DEF JobMove, Plans, Settles, Retries, Takes
<1>2. CASE RowMove(p)
  BY <1>2 DEF RowMove, Creates, Revises, Marks, MarksFailed, Abandons
<1>3. CASE FaultMove(p) \/ PassMove(p)
  BY <1>3 DEF FaultMove, PassMove
<1> QED BY <1>1, <1>2, <1>3 DEF SettleStep

LEMMA StepPlanTimes ==
  ASSUME SettleInv, NEW p \in Procs, OneStep(p), SettleStep(p)
  PROVE  PlanTimes'
<1>1. PlanTimes /\ Sized
  BY Sizes DEF SettleInv, Timed
<1>2. ASSUME NEW q \in Procs, q # p
      PROVE  pc'[q] = pc[q] /\ frame'[q] = frame[q]
  BY <1>2 DEF OneStep
<1>3. ASSUME pc'[p] \in PlanLabels \cup {"saveSchedule"} PROVE PlanFrame(frame'[p])
  BY <1>1, <1>3, Moves DEF NextMove, PlansNext, PlanTimes
<1>4. ASSUME pc'[p] \in PlanLabels PROVE frame'[p].at < FreshUntil(frame'[p].alert)
  <2>1. CASE pc[p] = "saveSchedule" /\ frame'[p] = frame[p] /\ frame[p].at < frame[p].alert
    BY <1>1, <2>1, Constants DEF FreshUntil, Sized
  <2> QED BY <1>1, <1>4, <2>1, Moves DEF NextMove, PlansNext, PlanTimes
<1>5. ASSUME NEW q \in Procs
      PROVE  /\ pc'[q] \in PlanLabels \cup {"saveSchedule"} => PlanFrame(frame'[q])
             /\ pc'[q] \in PlanLabels => frame'[q].at < FreshUntil(frame'[q].alert)
  BY <1>1, <1>2, <1>3, <1>4 DEF PlanTimes
<1> QED BY <1>5 DEF PlanTimes, PlanFrame, FreshUntil

LEMMA StepTryTimes ==
  ASSUME SettleInv, NEW p \in Procs, OneStep(p), SettleStep(p)
  PROVE  TryTimes'
<1>1. TryTimes /\ JobTimed /\ Sized
  BY Sizes DEF SettleInv, Timed
<1>2. ASSUME NEW q \in Procs, q # p
      PROVE  pc'[q] = pc[q] /\ frame'[q] = frame[q] /\ (Dispatches(q)' <=> Dispatches(q))
  BY <1>2 DEF OneStep, Dispatches
<1>3. ASSUME pc'[p] \in {"push", "retry"} PROVE frame'[p].at < FreshUntil(frame'[p].alert)
  BY <1>1, <1>3, Moves DEF NextMove, DispatchesNext, TryTimes
<1>4. ASSUME Dispatches(p)' PROVE frame'[p].alert \in AlertTimes
  BY <1>1, <1>4, DispatchMoves DEF NextMove, DispatchesNext, TryTimes, Takes, JobTimed
<1>5. (pc'[p] = "markFailed" \/ faults > 0) => faults' > 0
  BY <1>1, Moves DEF FaultMove, Sized
<1>6. ASSUME NEW q \in Procs
      PROVE  /\ pc'[q] \in {"push", "retry"} => frame'[q].at < FreshUntil(frame'[q].alert)
             /\ Dispatches(q)' => frame'[q].alert \in AlertTimes
             /\ pc'[q] = "markFailed" => faults' > 0
  BY <1>1, <1>2, <1>3, <1>4, <1>5 DEF TryTimes
<1> QED BY <1>6 DEF TryTimes, FreshUntil

LEMMA StepPassTimes ==
  ASSUME SettleInv, NEW p \in Procs, OneStep(p), SettleStep(p)
  PROVE  PassTimes'
<1>1. PassTimes /\ Sized /\ passAt \in [Crons -> Nat] /\ PassEvery \in Nat
  BY Sizes, ReminderAssumption DEF SettleInv, Timed, TypeOK
<1>2. passAt' = passAt \/ passAt' = [passAt EXCEPT ![p] = now]
  BY Moves DEF PassMove
<1> QED BY <1>1, <1>2 DEF PassTimes, OneStep, Sized

\* The fields a step of a process writes.
LEMMA Written ==
  ASSUME TypeOK, NEW p \in Procs
  PROVE  /\ Plans(p) => /\ job'.status = "pending" /\ job'.intendedAt = frame[p].alert
                        /\ job'.nextAttemptAt = frame[p].alert
         /\ Retries(p) => /\ job'.status = "failed" /\ job'.intendedAt = job.intendedAt
                          /\ job'.nextAttemptAt = RetryTime(frame[p].alert, frame[p].at)
         /\ Takes(p) => /\ job'.status = "running" /\ job'.intendedAt = job.intendedAt
                        /\ job'.updatedAt = frame[p].at
         /\ Creates(p) \/ Revises(p) =>
              /\ row'.status = "pending" /\ row'.publishedAt = None
              /\ row'.nextAttemptAt = FirstPublishAttemptAt(frame[p])
         /\ Marks(p) => row'.status = "published" /\ row'.publishedAt = frame[p].at
         /\ MarksFailed(p) => /\ row'.status = "publish_failed"
                              /\ row'.publishedAt = row.publishedAt
                              /\ row'.nextAttemptAt = frame[p].at + RetryDelay
         /\ Abandons(p) => row'.status = "abandoned" /\ row'.publishedAt = row.publishedAt
<1>0. /\ job # None => job \in Job
      /\ row # None => row \in Delivery
  BY DEF TypeOK
<1>1. Plans(p) => /\ job'.status = "pending" /\ job'.intendedAt = frame[p].alert
                  /\ job'.nextAttemptAt = frame[p].alert
  BY DEF Plans, PlannedJob
<1>2. ASSUME Retries(p)
      PROVE  /\ job'.status = "failed" /\ job'.intendedAt = job.intendedAt
             /\ job'.nextAttemptAt = RetryTime(frame[p].alert, frame[p].at)
  BY <1>0, <1>2 DEF Retries, RetryScheduled, Settled, Job
<1>3. ASSUME Takes(p)
      PROVE  /\ job'.status = "running" /\ job'.intendedAt = job.intendedAt
             /\ job'.updatedAt = frame[p].at
  BY <1>0, <1>3 DEF Takes, Claimed, Job
<1>4. ASSUME Creates(p) \/ Revises(p)
      PROVE  /\ row'.status = "pending" /\ row'.publishedAt = None
             /\ row'.nextAttemptAt = FirstPublishAttemptAt(frame[p])
  <2>1. CASE Creates(p)
    BY <2>1 DEF Creates, NewDelivery
  <2>2. CASE Revises(p)
    BY <1>0, <2>2 DEF Revises, Revised, Delivery
  <2> QED BY <1>4, <2>1, <2>2
<1>5. ASSUME Marks(p)
      PROVE  row'.status = "published" /\ row'.publishedAt = frame[p].at
  BY <1>0, <1>5 DEF Marks, MarkedPublished, Delivery
<1>6. ASSUME MarksFailed(p)
      PROVE  /\ row'.status = "publish_failed" /\ row'.publishedAt = row.publishedAt
             /\ row'.nextAttemptAt = frame[p].at + RetryDelay
  BY <1>0, <1>6 DEF MarksFailed, MarkedPublishFailed, Delivery
<1>7. ASSUME Abandons(p)
      PROVE  row'.status = "abandoned" /\ row'.publishedAt = row.publishedAt
  BY <1>0, <1>7 DEF Abandons, Abandoned, Delivery
<1> QED BY <1>1, <1>2, <1>3, <1>4, <1>5, <1>6, <1>7

LEMMA StepJobTimed ==
  ASSUME SettleInv, TypeOK', NEW p \in Procs, OneStep(p), SettleStep(p)
  PROVE  JobTimed'
<1>1. TypeOK /\ PlanTimes /\ JobTimed /\ RunsInTime /\ Sized /\ now' = now
  BY Sizes DEF SettleInv, Timed, OneStep
<1> SUFFICES ASSUME job' # None
             PROVE  /\ job'.intendedAt \in AlertTimes
                    /\ job'.status = "running" => job'.updatedAt <= now
  BY <1>1 DEF JobTimed
<1>2. CASE job' = job
  BY <1>1, <1>2 DEF JobTimed
<1>3. CASE Plans(p)
  <2>1. pc[p] \in PlanLabels
    BY <1>3 DEF Plans, PlanLabels
  <2> QED BY <1>1, <1>3, <2>1, Written DEF PlanTimes, PlanFrame
<1>4. CASE Settles(p)
  BY <1>1, <1>4 DEF Settles, JobTimed, Finished
<1>5. CASE Retries(p)
  BY <1>1, <1>5, Written DEF Retries, JobTimed
<1>6. CASE Takes(p)
  <2>1. frame[p].at <= now
    BY <1>1, <1>6 DEF Takes, RunsInTime
  <2> QED BY <1>1, <1>6, <2>1, Written DEF Takes, JobTimed
<1> QED BY <1>2, <1>3, <1>4, <1>5, <1>6
        DEF SettleStep, JobMove, RowMove, FaultMove, PassMove, NextMove

LEMMA StepRowTimed ==
  ASSUME SettleInv, TypeOK', NEW p \in Procs, OneStep(p), SettleStep(p)
  PROVE  RowTimed'
<1>1. /\ TypeOK /\ TryTimes /\ RowTimed /\ ArmTimes /\ RunsInTime /\ Sized /\ now' = now
      /\ RetryDelay \in Nat /\ None \notin Int
  BY Sizes, Constants DEF SettleInv, Timed, OneStep
<1>2. faults' = faults \/ faults' = faults + 1
  BY Moves
<1>3. pc[p] # "idle" => frame[p].at <= now
  BY <1>1 DEF RunsInTime
<1> SUFFICES ASSUME row' # None
             PROVE  /\ row'.status = "pending" =>
                         row'.nextAttemptAt <= IF PublishAhead THEN now ELSE Base(LastAlert)
                    /\ row'.status = "publish_failed" =>
                         row'.nextAttemptAt <= now + RetryDelay /\ faults' > 0
                    /\ row'.publishedAt # None => row'.publishedAt <= now
                    /\ row'.status = "published" => row'.publishedAt # None
  <2>1. RowTimed' <=> (row # None =>
          /\ row.status = "pending" =>
               row.nextAttemptAt <= IF PublishAhead THEN now ELSE Base(LastAlert)
          /\ row.status = "publish_failed" =>
               row.nextAttemptAt <= now + RetryDelay /\ faults > 0
          /\ row.publishedAt # None => row.publishedAt <= now
          /\ row.status = "published" => row.publishedAt # None)'
    BY DEF RowTimed
  <2> QED BY <1>1, <2>1 DEF Base, LastStart, Horizon, LastAlert, FreshUntil
<1>4. CASE row' = row
  BY <1>1, <1>2, <1>4 DEF RowTimed, Sized
<1>5. CASE Creates(p) \/ Revises(p)
  <2>1. pc[p] \in {"create", "revise"}
    BY <1>5 DEF Creates, Revises
  <2>2. FirstPublishAttemptAt(frame[p]) <= IF PublishAhead THEN now ELSE Base(LastAlert)
    BY <1>1, <1>3, <2>1 DEF FirstPublishAttemptAt, ArmTimes
  <2> QED BY <1>1, <1>5, <2>2, Written
<1>6. CASE Marks(p)
  BY <1>1, <1>3, <1>6, Written DEF Marks, Sized
<1>7. CASE MarksFailed(p)
  <2>1. faults' > 0 /\ frame[p].at <= now /\ row # None
    BY <1>1, <1>2, <1>3, <1>7 DEF MarksFailed, TryTimes, Sized
  <2>2. /\ row'.status = "publish_failed" /\ row'.publishedAt = row.publishedAt
        /\ row'.nextAttemptAt = frame[p].at + RetryDelay
    BY <1>1, <1>7, Written
  <2>3. frame[p].at + RetryDelay <= now + RetryDelay
    BY <1>1, <2>1 DEF Sized
  <2>4. row'.publishedAt # None => row'.publishedAt <= now
    BY <1>1, <2>1, <2>2 DEF RowTimed
  <2> QED BY <2>1, <2>2, <2>3, <2>4
<1>8. CASE Abandons(p)
  BY <1>1, <1>8, Written DEF Abandons, RowTimed
<1> QED BY <1>4, <1>5, <1>6, <1>7, <1>8
        DEF SettleStep, JobMove, RowMove, FaultMove, PassMove, NextMove

LEMMA StepArmTimes ==
  ASSUME Recovers, SettleInv, NEW p \in Procs, OneStep(p), SettleStep(p)
  PROVE  ArmTimes'
<1>1. /\ TypeOK /\ PlanTimes /\ TryTimes /\ JobTimed /\ ArmTimes /\ RunsInTime /\ Sized
      /\ Unsettled => InTime
  BY Sizes DEF SettleInv, Timed
<1>2. ASSUME ~PublishAhead, pc'[p] \in {"create", "revise"}
      PROVE  frame'[p].due <= Base(LastAlert)
  <2>1. CASE Plans(p)
    <3>1. pc[p] \in PlanLabels
      BY <2>1 DEF Plans, PlanLabels
    <3>2. frame'[p].due \in AlertTimes
      BY <1>1, <2>1, <3>1 DEF Plans, PlanTimes, PlanFrame
    <3>3. /\ FreshUntil(frame'[p].due) <= Base(LastAlert) /\ Base(LastAlert) \in Nat
          /\ frame'[p].due \in Nat
      BY <1>2, <3>2, Latest, Constants
    <3>4. frame'[p].due <= FreshUntil(frame'[p].due) /\ FreshUntil(frame'[p].due) \in Nat
      BY <3>3, Constants DEF FreshUntil
    <3> QED BY <3>3, <3>4
  <2>2. CASE Retries(p)
    <3>1. /\ frame[p].at < FreshUntil(frame[p].alert) /\ frame[p].alert \in AlertTimes
          /\ frame'[p].due = RetryTime(frame[p].alert, frame[p].at)
      BY <1>1, <2>2 DEF Retries, TryTimes, Dispatches
    <3>2. RetryTime(frame[p].alert, frame[p].at) \in Nat
          /\ RetryTime(frame[p].alert, frame[p].at) <= FreshUntil(frame[p].alert)
      BY <1>1, <3>1, RetrySoon DEF Sized
    <3>3. FreshUntil(frame[p].alert) \in Nat
      BY <1>1, JobTimes DEF Sized
    <3> QED BY <1>2, <3>1, <3>2, <3>3, Latest
  <2>3. CASE Creates(p)
    BY <1>1, <1>2, <2>3 DEF Creates, ArmTimes
  <2>4. CASE NextMove(p) /\ pc'[p] = "revise"
    BY <1>1, <1>2, <2>4 DEF NextMove, ArmsNext, ArmTimes
  <2>5. CASE NextMove(p) /\ pc'[p] = "create"
    <3>1. /\ pc[p] = "reload" /\ job # None /\ Awaiting(job, frame[p].at)
          /\ frame'[p].due = WakeupTime(job, frame[p].at)
      BY <2>5 DEF NextMove, ArmsNext
    <3>2. Unsettled /\ job.intendedAt \in AlertTimes
      BY <1>1, <3>1 DEF Unsettled, Awaiting, LeaseExpired, Finished, JobTimed
    <3>3. WakeupTime(job, frame[p].at) <= LastStart(job.intendedAt)
      <4>1. CASE job.status = "running"
        <5>1. LastStart(job.intendedAt) \in Nat
          BY <1>1, <3>2, Bounds DEF Sized
        <5> QED BY <1>1, <3>1, <3>2, <4>1, <5>1 DEF InTime, ArmInTime, WakeupTime, Sized
      <4>2. CASE job.status # "running"
        BY <1>1, <3>2, <4>2 DEF InTime, JobInTime, WakeupTime
      <4> QED BY <4>1, <4>2
    <3>4. WakeupTime(job, frame[p].at) \in Nat /\ LastStart(job.intendedAt) \in Nat
      BY <1>1, <3>1, <3>2, Bounds DEF Sized, WakeupTime
    <3> QED BY <1>2, <3>1, <3>2, <3>3, <3>4, Latest
  <2> QED BY <1>2, <2>1, <2>2, <2>3, <2>4, <2>5, Moves
<1>3. ASSUME NEW q \in Procs, q # p
      PROVE  pc'[q] = pc[q] /\ frame'[q] = frame[q]
  BY <1>3 DEF OneStep
<1>4. ASSUME NEW q \in Procs, pc'[q] \in {"create", "revise"}
      PROVE  PublishAhead \/ frame'[q].due <= Base(LastAlert)
  BY <1>1, <1>2, <1>3, <1>4 DEF ArmTimes
<1> QED BY <1>4 DEF ArmTimes, Base, LastStart, Horizon, LastAlert, FreshUntil

LEMMA StepDispatchTimes ==
  ASSUME SettleInv, NEW p \in Procs, OneStep(p), SettleStep(p)
  PROVE  DispatchTimes'
<1>1. TypeOK /\ PlanTimes /\ DispatchTimes /\ RunsInTime /\ Sized
  BY Sizes DEF SettleInv, Timed
<1>2. ASSUME NEW q \in Procs, q # p
      PROVE  pc'[q] = pc[q] /\ frame'[q] = frame[q] /\ (Dispatches(q)' <=> Dispatches(q))
  BY <1>2 DEF OneStep, Dispatches
<1> SUFFICES ASSUME job' # None, NEW q \in Procs, Dispatches(q)'
             PROVE  \/ frame'[q].alert = job'.intendedAt
                    \/ frame'[q].at < FreshUntil(job'.intendedAt) + MaxRun
  BY DEF DispatchTimes, FreshUntil
<1>3. CASE Plans(p)
  <2>1. q # p
    BY <1>3 DEF Plans, Dispatches
  <2>2. frame'[q] = frame[q] /\ pc[q] # "idle" /\ frame[q].at <= now /\ now <= frame[p].at + MaxRun
    BY <1>1, <1>2, <1>3, <2>1 DEF Plans, Dispatches, RunsInTime
  <2>3. frame[p].at < FreshUntil(job'.intendedAt) /\ FreshUntil(job'.intendedAt) \in Nat
    <3>1. pc[p] \in PlanLabels /\ job'.intendedAt = frame[p].alert
      BY <1>1, <1>3, Written DEF Plans, PlanLabels
    <3> QED BY <1>1, <3>1, JobTimes DEF PlanTimes, Sized
  <2> QED BY <1>1, <2>2, <2>3, ReminderAssumption DEF Sized
<1>4. CASE ~Plans(p)
  <2>1. job # None /\ job'.intendedAt = job.intendedAt
    BY <1>1, <1>4, Written
       DEF SettleStep, JobMove, RowMove, FaultMove, PassMove, NextMove, Settles, Retries, Takes
  <2>2. CASE q # p
    BY <1>1, <1>2, <2>1, <2>2 DEF DispatchTimes
  <2>3. CASE q = p
    <3>1. CASE Takes(p)
      BY <2>1, <2>3, <3>1 DEF Takes
    <3>2. CASE ~Takes(p)
      <4>1. /\ Dispatches(p) /\ frame'[p].alert = frame[p].alert
            /\ pc[p] # "idle" /\ pc'[p] # "idle"
        BY <2>3, <3>2, DispatchMoves DEF NextMove, DispatchesNext, Dispatches
      <4>2. frame'[p].at = frame[p].at
        BY <4>1 DEF OneStep
      <4> QED BY <1>1, <2>1, <2>3, <4>1, <4>2 DEF DispatchTimes
    <3> QED BY <3>1, <3>2
  <2> QED BY <2>2, <2>3
<1> QED BY <1>3, <1>4

LEMMA StepTimed ==
  ASSUME Recovers, SettleInv, TypeOK', NEW p \in Procs, OneStep(p), SettleStep(p)
  PROVE  Timed'
BY StepPassTimes, StepPlanTimes, StepTryTimes, StepJobTimed, StepRowTimed, StepArmTimes,
   StepDispatchTimes DEF Timed

-----------------------------------------------------------------------------
(* Then, step by step, that a job that is not settled is in time.          *)

\* No pass is late while nobody has the job in hand, and who has it ends in time.
LEMMA NowInTime ==
  ASSUME Recovers, SettleInv, Unsettled
  PROVE  /\ PassByNow \in Nat
         /\ ~InHand => now <= PassByNow + PassEvery - 1 + MaxRun
         /\ now <= PassByNow + PassEvery - 1 + 2 * MaxRun
<1>1. TypeOK /\ PassTimes /\ JobTimed /\ RunsInTime /\ InTime /\ Sized /\ job # None
  BY Sizes DEF SettleInv, Timed, Unsettled
<1>2. /\ PublishBy(job.intendedAt, faults) \in Nat /\ CloseBy(job.intendedAt, faults) \in Nat
      /\ PassEvery \in Nat \ {0} /\ MaxRun \in Nat
  BY <1>1, Bounds DEF JobTimed, Sized
<1>3. PassByNow \in Nat
  BY <1>2 DEF PassByNow, PassBy
<1>4. ASSUME ~InHand PROVE now <= PassByNow + PassEvery - 1 + MaxRun
  <2>1. PICK c \in Crons : OnTime(c)
    BY <1>1, <1>4 DEF Recovers, InTime
  <2>2. CASE passAt[c] < PassByNow
    <3>1. now <= passAt[c] + PassEvery
      BY <1>1 DEF PassTimes
    <3> QED BY <1>1, <1>2, <1>3, <2>2, <3>1 DEF Sized
  <2>3. CASE ~(passAt[c] < PassByNow)
    <3>1. passAt[c] < PassByNow + PassEvery /\ frame[c].at = passAt[c] /\ pc[c] # "idle"
      BY <2>1, <2>3 DEF OnTime, Republishes, Closes
    <3>2. now <= frame[c].at + MaxRun
      BY <1>1, <3>1 DEF RunsInTime, Sized
    <3> QED BY <1>1, <1>2, <1>3, <3>1, <3>2 DEF Sized
  <2> QED BY <2>2, <2>3
<1>5. ASSUME InHand PROVE now <= PassByNow + PassEvery - 1 + 2 * MaxRun
  <2>1. PICK p \in Procs : Dispatches(p) /\ frame[p].at = job.updatedAt
    BY <1>5 DEF InHand
  <2>2. now <= job.updatedAt + MaxRun
    BY <1>1, <2>1 DEF RunsInTime, Dispatches
  <2>3. job.updatedAt <= PassByNow + PassEvery - 1 + MaxRun
    BY <1>1, <1>5 DEF InHand, InTime, JobInTime
  <2> QED BY <1>1, <1>2, <1>3, <2>2, <2>3 DEF Sized
<1> QED BY <1>1, <1>2, <1>3, <1>4, <1>5 DEF Sized

\* A job planned or put back to be tried while its alert is all but fresh.
LEMMA AnewInTime ==
  ASSUME Recovers, TypeOK', RunsInTime', Timed', Unsettled', job'.status # "running",
         job'.nextAttemptAt <= LastStart(job'.intendedAt),
         now' < FreshUntil(job'.intendedAt) + 2 * MaxRun
  PROVE  InTime'
<1> DEFINE i == job'.intendedAt  n == faults'
<1>1. Sized' /\ PassTimes' /\ TryTimes' /\ RowTimed' /\ i \in AlertTimes /\ n \in Nat
  BY Sizes DEF Timed, JobTimed, Unsettled, Sized
<1>2. /\ PublishBy(i, n) \in Nat /\ FaultCost \in Nat /\ LastStart(i) \in Nat
      /\ FreshUntil(i) \in Nat /\ MaxRun \in Nat /\ Base(i) \in Nat
      /\ PassEvery \in Nat \ {0} /\ Grace \in Nat \ {0} /\ Lease \in Nat /\ RetryDelay \in Nat
      /\ RetryAfter \in Nat \ {0}
      /\ FreshUntil(i) + RetryAfter + 2 * MaxRun <= LastStart(i)
      /\ Base(i) = LastStart(i) + MaxRun /\ Base(i) <= PublishBy(i, n)
      /\ n > 0 => Base(i) + FaultCost <= PublishBy(i, n)
      /\ SeenBy(i, n) = PublishBy(i, n) + PassEvery - 1 + 2 * MaxRun
      /\ CloseBy(i, n) = SeenBy(i, n) + Grace
      /\ Lease + PassEvery - 1 + 3 * MaxRun <= FaultCost
      /\ RetryDelay + PassEvery - 1 + 3 * MaxRun <= FaultCost
  BY <1>1, Bounds
<1>3. now' \in Nat /\ now' < LastStart(i) /\ now' < FreshUntil(i) + 2 * MaxRun
  BY <1>1, <1>2 DEF Sized
<1> HIDE DEF i, n
<1>4. RowInTime'
  <2>1. ASSUME row' # None, row'.status = "pending" PROVE row'.nextAttemptAt <= PublishBy(i, n)
    <3>1. CASE PublishAhead
      BY <1>1, <1>2, <1>3, <2>1, <3>1 DEF RowTimed, Sized
    <3>2. CASE ~PublishAhead
      <4>1. Base(LastAlert) = Base(i)
        BY <1>1, <3>2, Latest
      <4>2. (row.nextAttemptAt <= IF PublishAhead THEN now ELSE Base(LastAlert))'
        BY <1>1, <2>1 DEF RowTimed
      <4>3. row'.nextAttemptAt <= Base(LastAlert)
        BY <3>2, <4>2 DEF Base, LastStart, Horizon, LastAlert, FreshUntil
      <4> QED BY <1>1, <1>2, <2>1, <4>1, <4>3 DEF Sized
    <3> QED BY <3>1, <3>2
  <2>2. ASSUME row' # None, row'.status = "publish_failed"
        PROVE  row'.nextAttemptAt <= PublishBy(i, n)
    <3>1. row'.nextAttemptAt <= now' + RetryDelay /\ n > 0
      BY <1>1, <2>2 DEF RowTimed, n
    <3> QED BY <1>1, <1>2, <1>3, <2>2, <3>1 DEF Sized
  <2>3. ASSUME row' # None, row'.status = "published" PROVE row'.publishedAt <= SeenBy(i, n)
    BY <1>1, <1>2, <1>3, <2>3 DEF RowTimed, Sized
  <2> QED BY <2>1, <2>2, <2>3 DEF RowInTime, Unpublished, i, n
<1>5. JobInTime'
  BY DEF JobInTime, i
<1>6. ASSUME NEW q \in Procs PROVE ArmInTime(q)'
  <2>1. pc'[q] # "idle" => frame'[q].at <= now'
    BY <1>1 DEF RunsInTime
  <2>2. frame'[q].at \in Nat
    BY <1>1 DEF Sized
  <2>3. pc'[q] = "markFailed" => n > 0
    BY <1>1 DEF TryTimes, n
  <2>4. Later(Lease, RetryDelay) \in {Lease, RetryDelay}
    BY DEF Later
  <2>5. pc'[q] = "markFailed" => frame'[q].at + Later(Lease, RetryDelay) + MaxRun <= PublishBy(i, n)
    BY <1>2, <1>3, <2>1, <2>2, <2>3, <2>4
  <2>6. pc'[q] # "idle" => /\ frame'[q].at < LastStart(i) /\ frame'[q].at <= SeenBy(i, n)
                           /\ frame'[q].at < FreshUntil(i) + 2 * MaxRun
    BY <1>2, <1>3, <2>1, <2>2
  <2> QED BY <2>5, <2>6 DEF ArmInTime, i, n
<1>7. ASSUME NEW c \in Crons PROVE OnTime(c)'
  <2>1. passAt'[c] <= now' /\ passAt'[c] \in Nat
    BY <1>1 DEF PassTimes, Sized
  <2>2. PassByNow' \in {PublishBy(i, n), CloseBy(i, n)}
    BY DEF PassByNow, PassBy, i, n
  <2>3. passAt'[c] < PassByNow'
    BY <1>2, <1>3, <2>1, <2>2
  <2> QED BY <2>3 DEF OnTime
<1> QED BY <1>4, <1>5, <1>6, <1>7 DEF InTime

\* A fault moves every time it may disturb by what it may cost.
LEMMA FaultInTime ==
  ASSUME Recovers, SettleInv, Unsettled, TypeOK',
         job' = job, row' = row, faults' = faults + 1,
         \A c \in Crons : passAt'[c] \in {passAt[c], now},
         \A q \in Procs : \/ pc'[q] = pc[q] /\ frame'[q] = frame[q]
                          \/ pc'[q] = "idle"
                          \/ pc[q] = "send" /\ pc'[q] = "markFailed" /\ frame'[q].at = frame[q].at
  PROVE  InTime'
<1> DEFINE i == job.intendedAt  n == faults  m == faults'
<1>1. Sized /\ PassTimes /\ InTime /\ i \in AlertTimes /\ n \in Nat /\ m \in Nat /\ m = n + 1
  BY Sizes DEF SettleInv, Timed, JobTimed, Unsettled, Sized
<1>2. /\ PublishBy(i, n) \in Nat /\ FaultCost \in Nat /\ LastStart(i) \in Nat
      /\ MaxRun \in Nat /\ PassEvery \in Nat \ {0} /\ Grace \in Nat /\ Lease \in Nat
      /\ RetryDelay \in Nat /\ MaxRun < Lease
      /\ SeenBy(i, n) = PublishBy(i, n) + PassEvery - 1 + 2 * MaxRun
      /\ CloseBy(i, n) = SeenBy(i, n) + Grace
      /\ Lease + PassEvery - 1 + 3 * MaxRun <= FaultCost
      /\ RetryDelay + PassEvery - 1 + 3 * MaxRun <= FaultCost
  BY <1>1, Bounds
<1>3. /\ PublishBy(i, m) = PublishBy(i, n) + FaultCost
      /\ SeenBy(i, m) = SeenBy(i, n) + FaultCost
      /\ CloseBy(i, m) = CloseBy(i, n) + FaultCost
      /\ SeenBy(i, n) \in Nat /\ CloseBy(i, n) \in Nat
  <2>1. PublishBy(i, m) = PublishBy(i, n) + FaultCost
    BY <1>1, Bounds
  <2>2. /\ SeenBy(i, m) = PublishBy(i, m) + PassEvery - 1 + 2 * MaxRun
        /\ CloseBy(i, m) = SeenBy(i, m) + Grace
    BY <1>1, Bounds
  <2> QED BY <1>2, <2>1, <2>2
<1>4. /\ PassByNow \in Nat /\ PassByNow' = PassByNow + FaultCost
      /\ now <= PassByNow + PassEvery - 1 + 2 * MaxRun
  <2>1. PassByNow = IF Unpublished(row) THEN PublishBy(i, n) ELSE CloseBy(i, n)
    BY DEF PassByNow, PassBy
  <2>2. PassByNow' = IF Unpublished(row) THEN PublishBy(i, m) ELSE CloseBy(i, m)
    BY DEF PassByNow, PassBy, Unpublished
  <2> QED BY <1>2, <1>3, <2>1, <2>2, NowInTime
<1>5. RowInTime'
  <2>1. /\ Unpublished(row) => row.nextAttemptAt <= PublishBy(i, n)
        /\ row # None /\ row.status = "published" => row.publishedAt <= SeenBy(i, n)
    BY <1>1 DEF InTime, RowInTime
  <2>2. Unpublished(row) => row.nextAttemptAt <= PublishBy(i, m)
    BY <1>1, <1>2, <1>3, <2>1 DEF Unpublished, Sized
  <2>3. row # None /\ row.status = "published" /\ row.publishedAt # None =>
          row.publishedAt <= SeenBy(i, m)
    BY <1>1, <1>2, <1>3, <2>1 DEF Sized
  <2>4. row # None /\ row.status = "published" => row.publishedAt # None
    BY DEF SettleInv, Timed, RowTimed
  <2> QED BY <2>2, <2>3, <2>4 DEF RowInTime, Unpublished
<1>6. JobInTime'
  <2>1. job.status # "running" => job.nextAttemptAt <= LastStart(i)
    BY <1>1 DEF InTime, JobInTime
  <2>2. ASSUME job.status = "running"
        PROVE  /\ job.updatedAt <= PassByNow' + PassEvery - 1 + MaxRun
               /\ job.updatedAt + Lease <= PassByNow'
    <3>1. job.updatedAt <= PassByNow + PassEvery - 1 + MaxRun
      BY <1>1, <2>2 DEF InTime, JobInTime
    <3>2. job.updatedAt \in Nat
      BY <1>1 DEF Sized, Unsettled
    <3> QED BY <1>2, <1>4, <3>1, <3>2
  <2>3. faults' > 0
    BY <1>1
  <2> QED BY <2>1, <2>2, <2>3 DEF JobInTime
<1>7. ASSUME NEW q \in Procs PROVE ArmInTime(q)'
  <2>1. ArmInTime(q) /\ frame[q].at \in Nat
    BY <1>1 DEF InTime, Sized
  <2>2. CASE pc'[q] = pc[q] /\ frame'[q] = frame[q]
    <3>1. pc[q] \in {"target", "publish", "send", "mark"} => frame[q].at <= SeenBy(i, m)
      BY <1>2, <1>3, <2>1 DEF ArmInTime
    <3>2. pc[q] = "markFailed" => frame[q].at + Later(Lease, RetryDelay) + MaxRun <= PublishBy(i, m)
      <4>1. Later(Lease, RetryDelay) \in Nat
        BY <1>2 DEF Later
      <4> QED BY <1>2, <1>3, <2>1, <4>1 DEF ArmInTime
    <3> QED BY <2>1, <2>2, <3>1, <3>2 DEF ArmInTime
  <2>3. CASE pc'[q] = "idle"
    BY <2>3 DEF ArmInTime
  <2>4. CASE pc[q] = "send" /\ pc'[q] = "markFailed" /\ frame'[q].at = frame[q].at
    <3>1. frame[q].at <= SeenBy(i, n)
      BY <2>1, <2>4 DEF ArmInTime
    <3>2. frame[q].at + Later(Lease, RetryDelay) + MaxRun <= PublishBy(i, m)
      <4>1. Later(Lease, RetryDelay) \in {Lease, RetryDelay}
        BY DEF Later
      <4> QED BY <1>2, <1>3, <2>1, <3>1, <4>1
    <3> QED BY <2>4, <3>2 DEF ArmInTime
  <2> QED BY <2>2, <2>3, <2>4
<1>8. ASSUME NEW c \in Crons PROVE OnTime(c)'
  <2>1. passAt'[c] <= now /\ passAt'[c] \in Nat
    BY <1>1 DEF PassTimes, Sized
  <2>2. passAt'[c] < PassByNow'
    BY <1>1, <1>2, <1>4, <2>1 DEF Sized
  <2> QED BY <2>2 DEF OnTime
<1> QED BY <1>5, <1>6, <1>7, <1>8 DEF InTime

\* A row that is written is there.
LEMMA RowStands ==
  ASSUME TypeOK, NEW p \in Procs,
         Creates(p) \/ Revises(p) \/ Marks(p) \/ MarksFailed(p) \/ Abandons(p)
  PROVE  row' # None
<1>1. /\ row # None => row \in Delivery
      /\ frame[p].at \in Nat /\ FirstPublishAttemptAt(frame[p]) \in Nat
  BY Sizes DEF TypeOK, Sized, FirstPublishAttemptAt
<1>2. None \notin Delivery
  BY ReminderAssumption
<1>3. CASE Creates(p)
  BY <1>1, <1>2, <1>3, RowType DEF Creates
<1>4. CASE Revises(p)
  <2>1. Revised(row, FirstPublishAttemptAt(frame[p])) \in Delivery
    BY <1>1, <1>4, RowUpdates DEF Revises
  <2> QED BY <1>2, <1>4, <2>1 DEF Revises
<1>5. CASE Marks(p)
  <2>1. PICK due \in Nat : row' = MarkedPublished(row, frame[p].at, due)
    BY <1>5 DEF Marks
  <2>2. MarkedPublished(row, frame[p].at, due) \in Delivery
    BY <1>1, <1>5, RowUpdates DEF Marks
  <2> QED BY <1>2, <2>1, <2>2
<1>6. CASE MarksFailed(p) \/ Abandons(p)
  <2>1. MarkedPublishFailed(row, frame[p].at) \in Delivery /\ Abandoned(row) \in Delivery
    BY <1>1, <1>6, RowUpdates DEF MarksFailed, Abandons
  <2> QED BY <1>2, <1>6, <2>1 DEF MarksFailed, Abandons
<1> QED BY <1>3, <1>4, <1>5, <1>6

\* A step that neither begins nor ends a dispatch leaves the job in the same hands.
LEMMA HandSame ==
  ASSUME NEW p \in Procs, OneStep(p), job' = job, job # None,
         RowMove(p) \/ PassMove(p) \/ NextMove(p)
  PROVE  InHand' <=> InHand
<1>1. ASSUME NEW q \in Procs, q # p
      PROVE  frame'[q] = frame[q] /\ (Dispatches(q)' <=> Dispatches(q))
  BY <1>1 DEF OneStep, Dispatches
<1>2. Dispatches(p)' <=> Dispatches(p)
  <2>1. CASE RowMove(p)
    BY <2>1 DEF RowMove, Creates, Revises, Marks, MarksFailed, Abandons, Dispatches, EndLabels
  <2>2. CASE PassMove(p)
    BY <2>2 DEF PassMove, Dispatches
  <2>3. CASE NextMove(p)
    BY <2>3 DEF NextMove, DispatchesNext
  <2> QED BY <2>1, <2>2, <2>3
<1>3. Dispatches(p) => frame'[p].at = frame[p].at
  BY <1>2 DEF OneStep, Dispatches
<1>4. \A q \in Procs : /\ Dispatches(q)' <=> Dispatches(q)
                       /\ Dispatches(q) => frame'[q].at = frame[q].at
  BY <1>1, <1>2, <1>3
<1> QED BY <1>4 DEF InHand

\* Who does not move stays in time.
LEMMA OthersArm ==
  ASSUME NEW p \in Procs, OneStep(p), job'.intendedAt = job.intendedAt, faults' = faults,
         NEW q \in Procs, q # p, ArmInTime(q)
  PROVE  ArmInTime(q)'
BY DEF OneStep, ArmInTime

\* The claim: the job is in hand.
LEMMA TakesInTime ==
  ASSUME Recovers, SettleInv, Unsettled, NEW p \in Procs, OneStep(p), Takes(p), JobMove(p)
  PROVE  InTime'
<1>1. /\ TypeOK /\ Sized /\ RunsInTime /\ JobTimed /\ InTime /\ job # None
      /\ row' = row /\ faults' = faults /\ passAt' = passAt
      /\ job'.intendedAt = job.intendedAt /\ job'.status = "running"
      /\ job'.updatedAt = frame[p].at
      /\ pc[p] # "idle" /\ pc'[p] = "context" /\ frame[p].at <= now
  BY Sizes, Written DEF SettleInv, Timed, Unsettled, JobMove, Takes, RunsInTime
<1>2. Lease \in Nat /\ MaxRun \in Nat /\ MaxRun < Lease /\ PassEvery \in Nat
  BY Constants, ReminderAssumption
<1>3. ~InHand
  <2> SUFFICES ASSUME InHand PROVE FALSE
    OBVIOUS
  <2>1. PICK q \in Procs : Dispatches(q) /\ frame[q].at = job.updatedAt
    BY DEF InHand
  <2>2. now <= job.updatedAt + MaxRun
    BY <1>1, <2>1 DEF RunsInTime, Dispatches
  <2>3. job.status = "running" /\ ClaimAllowed(job, frame[p].at)
    BY DEF InHand, Takes
  <2>4. job.updatedAt + Lease <= frame[p].at
    BY <2>3 DEF ClaimAllowed, Claimable, Awaiting, LeaseExpired
  <2> QED BY <1>1, <1>2, <2>2, <2>4 DEF Sized
<1>4. InHand'
  <2>1. frame'[p].at = frame[p].at /\ Dispatches(p)'
    BY <1>1 DEF OneStep, Dispatches
  <2> QED BY <1>1, <2>1 DEF InHand
<1>5. PassByNow' = PassByNow
  BY <1>1 DEF PassByNow
<1>6. JobInTime'
  <2>1. now <= PassByNow + PassEvery - 1 + MaxRun /\ PassByNow \in Nat
    BY <1>3, NowInTime
  <2>2. frame[p].at <= PassByNow + PassEvery - 1 + MaxRun
    BY <1>1, <1>2, <2>1 DEF Sized
  <2> QED BY <1>1, <1>4, <1>5, <2>2 DEF JobInTime
<1>7. RowInTime'
  BY <1>1 DEF InTime, RowInTime, Unpublished
<1>8. ASSUME NEW q \in Procs PROVE ArmInTime(q)'
  <2>1. CASE q = p
    BY <1>1, <2>1 DEF ArmInTime
  <2> QED BY <1>1, <2>1, OthersArm DEF InTime
<1> QED BY <1>4, <1>6, <1>7, <1>8 DEF InTime

\* The row is written anew before Base.
LEMMA RenewsInTime ==
  ASSUME Recovers, SettleInv, Unsettled, TypeOK', NEW p \in Procs, OneStep(p), RowMove(p),
         Creates(p) \/ Revises(p)
  PROVE  InTime'
<1> DEFINE i == job.intendedAt  n == faults
<1>1. /\ TypeOK /\ Sized /\ Sized' /\ PassTimes /\ RunsInTime /\ JobTimed /\ ArmTimes /\ InTime
      /\ job # None /\ i \in AlertTimes /\ n \in Nat
      /\ job' = job /\ faults' = faults /\ passAt' = passAt
      /\ row' # None => row'.status = "pending" /\ row'.publishedAt = None
      /\ row'.nextAttemptAt = FirstPublishAttemptAt(frame[p])
      /\ pc[p] \in {"create", "revise"}
      /\ pc'[p] \in EndLabels \cup {"publish"} \/ (pc'[p] = "revise" /\ frame'[p] = frame[p])
  BY Sizes, Written
     DEF SettleInv, Timed, Unsettled, RowMove, Creates, Revises, Sized, JobTimed, EndLabels
<1>2. /\ PublishBy(i, n) \in Nat /\ FaultCost \in Nat /\ LastStart(i) \in Nat
      /\ MaxRun \in Nat /\ PassEvery \in Nat \ {0} /\ Lease \in Nat
      /\ Base(i) \in Nat
      /\ Base(i) = LastStart(i) + MaxRun /\ Base(i) <= PublishBy(i, n)
      /\ n > 0 => Base(i) + FaultCost <= PublishBy(i, n)
      /\ SeenBy(i, n) = PublishBy(i, n) + PassEvery - 1 + 2 * MaxRun
      /\ Lease + PassEvery - 1 + 3 * MaxRun <= FaultCost
  BY <1>1, Bounds
<1>3. frame[p].at < LastStart(i) /\ frame[p].at <= now /\ now < Base(i)
  <2>1. frame[p].at < LastStart(i)
    BY <1>1 DEF InTime, ArmInTime
  <2>2. frame[p].at <= now /\ now <= frame[p].at + MaxRun
    BY <1>1 DEF RunsInTime
  <2> QED BY <1>1, <1>2, <2>1, <2>2 DEF Sized
<1>4. InHand' <=> InHand
  BY <1>1, HandSame
<1>5. row' # None /\ Unpublished(row)' /\ PassByNow' = PublishBy(i, n)
  <2>1. row' # None
    BY <1>1, RowStands
  <2>2. Unpublished(row')
    BY <1>1, <2>1 DEF Unpublished
  <2> QED BY <1>1, <2>1, <2>2 DEF PassByNow, PassBy, Unpublished
<1>6. RowInTime'
  <2>1. FirstPublishAttemptAt(frame[p]) <= PublishBy(i, n)
    <3>1. CASE PublishAhead
      BY <1>1, <1>2, <1>3, <3>1 DEF FirstPublishAttemptAt, Sized
    <3>2. CASE ~PublishAhead
      <4>1. frame[p].due <= Base(i)
        BY <1>1, <3>2, Latest DEF ArmTimes
      <4> QED BY <1>1, <1>2, <3>2, <4>1 DEF FirstPublishAttemptAt, Sized
    <3> QED BY <3>1, <3>2
  <2> QED BY <1>1, <1>5, <2>1 DEF RowInTime
<1>7. JobInTime'
  <2>1. job.status # "running" => job.nextAttemptAt <= LastStart(i)
    BY <1>1 DEF InTime, JobInTime
  <2>2. job.status = "running" => job.updatedAt <= now
    BY <1>1 DEF JobTimed
  <2>3. job.updatedAt \in Nat /\ now \in Nat
    BY <1>1 DEF Sized
  <2>4. job.status = "running" /\ ~InHand => n > 0
    BY <1>1 DEF InTime, JobInTime
  <2>5. job.status = "running" => job.updatedAt <= PublishBy(i, n) + PassEvery - 1 + MaxRun
    BY <1>2, <1>3, <2>2, <2>3
  <2>6. job.status = "running" /\ ~InHand => job.updatedAt + Lease <= PublishBy(i, n)
    BY <1>2, <1>3, <2>2, <2>3, <2>4
  <2> QED BY <1>1, <1>4, <1>5, <2>1, <2>4, <2>5, <2>6 DEF JobInTime
<1>8. ASSUME NEW q \in Procs PROVE ArmInTime(q)'
  <2>1. CASE q = p
    <3>1. pc'[p] \in EndLabels \cup {"publish"} => ArmInTime(p)'
      <4>1. pc'[p] = "publish" => frame'[p].at <= SeenBy(i, n)
        <5>1. pc'[p] = "publish" => frame'[p].at = frame[p].at
          BY <1>1 DEF OneStep
        <5> QED BY <1>1, <1>2, <1>3, <5>1 DEF Sized
      <4> QED BY <1>1, <4>1 DEF ArmInTime, EndLabels
    <3>2. pc'[p] = "revise" /\ frame'[p] = frame[p] => ArmInTime(p)'
      BY <1>1, <1>3 DEF ArmInTime
    <3> QED BY <1>1, <2>1, <3>1, <3>2
  <2> QED BY <1>1, <2>1, OthersArm DEF InTime
<1>9. ASSUME NEW c \in Crons PROVE OnTime(c)'
  <2>1. passAt'[c] <= now /\ passAt'[c] \in Nat
    BY <1>1 DEF PassTimes, Sized
  <2>2. passAt'[c] < PassByNow'
    BY <1>1, <1>2, <1>3, <1>5, <2>1 DEF Sized
  <2> QED BY <2>2 DEF OnTime
<1> QED BY <1>6, <1>7, <1>8, <1>9 DEF InTime

\* The row is marked published or abandoned: the grace runs, or ends with the pass.
LEMMA RestsInTime ==
  ASSUME Recovers, SettleInv, Unsettled, TypeOK', NEW p \in Procs, OneStep(p), RowMove(p),
         Marks(p) \/ Abandons(p)
  PROVE  InTime'
<1> DEFINE i == job.intendedAt  n == faults
<1>0. TypeOK /\ Sized /\ JobTimed /\ InTime /\ job # None /\ i \in AlertTimes /\ n \in Nat
  BY Sizes DEF SettleInv, Timed, Unsettled, Sized, JobTimed
<1>1. /\ job' = job /\ faults' = faults /\ passAt' = passAt /\ row' # None
      /\ \/ row'.status = "published" /\ row'.publishedAt = frame[p].at /\ pc[p] = "mark"
         \/ row'.status = "abandoned" /\ pc[p] = "abandon"
      /\ pc'[p] \in EndLabels
  <2>1. row' # None /\ job' = job /\ faults' = faults /\ passAt' = passAt
    BY <1>0, RowStands DEF RowMove
  <2>2. CASE Marks(p)
    BY <1>0, <2>1, <2>2, Written DEF Marks
  <2>3. CASE Abandons(p)
    BY <1>0, <2>1, <2>3, Written DEF Abandons
  <2> QED BY <2>2, <2>3
<1>2. /\ PublishBy(i, n) \in Nat /\ MaxRun \in Nat /\ PassEvery \in Nat \ {0}
      /\ Grace \in Nat \ {0}
      /\ SeenBy(i, n) = PublishBy(i, n) + PassEvery - 1 + 2 * MaxRun
      /\ CloseBy(i, n) = SeenBy(i, n) + Grace
  BY <1>0, <1>1, Bounds
<1>3. InHand' <=> InHand
  BY <1>0, <1>1, HandSame
<1>4. /\ ~Unpublished(row)' /\ PassByNow' = CloseBy(i, n)
      /\ PassByNow = IF Unpublished(row) THEN PublishBy(i, n) ELSE CloseBy(i, n)
  BY <1>0, <1>1 DEF PassByNow, PassBy, Unpublished
<1>5. RowInTime'
  <2>1. pc[p] = "mark" => frame[p].at <= SeenBy(i, n)
    BY <1>0, <1>1 DEF InTime, ArmInTime
  <2> QED BY <1>0, <1>1, <1>4, <2>1 DEF RowInTime
<1>6. JobInTime'
  <2>1. /\ job.status # "running" => job.nextAttemptAt <= LastStart(i)
        /\ job.status = "running" => job.updatedAt <= PassByNow + PassEvery - 1 + MaxRun
        /\ job.status = "running" /\ ~InHand => job.updatedAt + Lease <= PassByNow /\ n > 0
        /\ job.updatedAt \in Nat /\ Lease \in Nat
    BY <1>0, <1>1, Constants DEF InTime, JobInTime, Sized
  <2>2. PassByNow \in Nat /\ PassByNow <= CloseBy(i, n) /\ CloseBy(i, n) \in Nat
    BY <1>2, <1>4
  <2>3. /\ job.status = "running" => job.updatedAt <= CloseBy(i, n) + PassEvery - 1 + MaxRun
        /\ job.status = "running" /\ ~InHand => job.updatedAt + Lease <= CloseBy(i, n)
    BY <1>2, <2>1, <2>2
  <2> QED BY <1>0, <1>1, <1>3, <1>4, <2>1, <2>3 DEF JobInTime
<1>7. ASSUME NEW q \in Procs PROVE ArmInTime(q)'
  <2>1. CASE q = p
    BY <1>0, <1>1, <2>1 DEF ArmInTime, EndLabels
  <2> QED BY <1>0, <1>1, <2>1, OthersArm DEF InTime
<1>8. ASSUME ~InHand, NEW c \in Crons PROVE OnTime(c)'
  <2>1. OnTime(c) /\ passAt[c] \in Nat
    BY <1>0, <1>1, <1>8 DEF InTime, Sized
  <2>2. CASE passAt[c] < PassByNow \/ Unpublished(row)
    <3>1. (passAt[c] < PassByNow + PassEvery /\ Unpublished(row)) \/ passAt[c] < PassByNow
      BY <1>2, <1>4, <2>1, <2>2 DEF OnTime
    <3>2. passAt'[c] < PassByNow'
      BY <1>0, <1>1, <1>2, <1>4, <2>1, <3>1
    <3> QED BY <3>2 DEF OnTime
  <2>3. CASE ~(passAt[c] < PassByNow) /\ ~Unpublished(row)
    <3>1. passAt[c] < PassByNow + PassEvery /\ frame[c].at = passAt[c] /\ Closes(c)
      BY <2>1, <2>3 DEF OnTime
    <3>2. c # p
      BY <1>0, <1>1, <3>1 DEF Closes
    <3>3. frame'[c] = frame[c] /\ pc'[c] = pc[c]
      BY <1>0, <1>1, <3>2 DEF OneStep, Sized
    <3> QED BY <1>0, <1>1, <1>4, <2>3, <3>1, <3>3 DEF OnTime, Closes, FreshUntil
  <2> QED BY <2>2, <2>3
<1> QED BY <1>3, <1>5, <1>6, <1>7, <1>8 DEF InTime

\* The failure of a send is recorded: the row is published again in time.
LEMMA FailsInTime ==
  ASSUME Recovers, SettleInv, Unsettled, TypeOK', NEW p \in Procs, OneStep(p), RowMove(p),
         MarksFailed(p)
  PROVE  InTime'
<1> DEFINE i == job.intendedAt  n == faults
<1>1. /\ TypeOK /\ Sized /\ PassTimes /\ TryTimes /\ RunsInTime /\ JobTimed /\ InTime
      /\ job # None /\ i \in AlertTimes /\ n \in Nat
      /\ job' = job /\ faults' = faults /\ passAt' = passAt /\ row' # None
      /\ row'.status = "publish_failed" /\ row'.nextAttemptAt = frame[p].at + RetryDelay
      /\ pc[p] = "markFailed" /\ pc'[p] \in EndLabels
  BY Sizes, Written, RowStands
     DEF SettleInv, Timed, Unsettled, RowMove, MarksFailed, Sized, JobTimed
<1>2. /\ PublishBy(i, n) \in Nat /\ MaxRun \in Nat /\ PassEvery \in Nat \ {0}
      /\ Lease \in Nat /\ RetryDelay \in Nat /\ MaxRun < Lease
      /\ Later(Lease, RetryDelay) \in Nat
      /\ Lease <= Later(Lease, RetryDelay) /\ RetryDelay <= Later(Lease, RetryDelay)
  BY <1>1, Bounds DEF Later
<1>3. /\ n > 0 /\ frame[p].at + Later(Lease, RetryDelay) + MaxRun <= PublishBy(i, n)
      /\ frame[p].at <= now /\ now <= frame[p].at + MaxRun
      /\ frame[p].at \in Nat /\ now \in Nat
  BY <1>1 DEF InTime, ArmInTime, TryTimes, RunsInTime, Sized
<1>4. frame[p].at + RetryDelay <= PublishBy(i, n) /\ now + Lease <= PublishBy(i, n)
  BY <1>2, <1>3
<1>5. InHand' <=> InHand
  BY <1>1, HandSame
<1>6. Unpublished(row)' /\ PassByNow' = PublishBy(i, n)
  BY <1>1 DEF PassByNow, PassBy, Unpublished
<1>7. RowInTime'
  BY <1>1, <1>4 DEF RowInTime
<1>8. JobInTime'
  <2>1. job.status # "running" => job.nextAttemptAt <= LastStart(i)
    BY <1>1 DEF InTime, JobInTime
  <2>2. job.status = "running" => job.updatedAt <= now
    BY <1>1 DEF JobTimed
  <2>3. job.updatedAt \in Nat
    BY <1>1 DEF Sized
  <2>4. job.status = "running" => /\ job.updatedAt <= PublishBy(i, n) + PassEvery - 1 + MaxRun
                                  /\ job.updatedAt + Lease <= PublishBy(i, n)
    BY <1>2, <1>3, <1>4, <2>2, <2>3
  <2> QED BY <1>1, <1>3, <1>6, <2>1, <2>4 DEF JobInTime
<1>9. ASSUME NEW q \in Procs PROVE ArmInTime(q)'
  <2>1. CASE q = p
    BY <1>1, <2>1 DEF ArmInTime, EndLabels
  <2> QED BY <1>1, <2>1, OthersArm DEF InTime
<1>10. ASSUME NEW c \in Crons PROVE OnTime(c)'
  <2>1. passAt'[c] <= now /\ passAt'[c] \in Nat
    BY <1>1 DEF PassTimes, Sized
  <2>2. passAt'[c] < PassByNow'
    BY <1>2, <1>3, <1>4, <1>6, <2>1
  <2> QED BY <2>2 DEF OnTime
<1> QED BY <1>7, <1>8, <1>9, <1>10 DEF InTime

\* A pass begins before the last one was due to end its work.
LEMMA BeginsInTime ==
  ASSUME Recovers, SettleInv, Unsettled, NEW p \in Procs, OneStep(p), PassMove(p)
  PROVE  InTime'
<1>1. /\ TypeOK /\ Sized /\ PassTimes /\ InTime /\ job # None /\ passAt \in [Crons -> Nat]
      /\ job' = job /\ row' = row /\ faults' = faults /\ p \in Crons
      /\ passAt' = [passAt EXCEPT ![p] = now]
      /\ pc[p] = "idle" /\ pc'[p] = "listDue" /\ frame'[p].at = now
      /\ PassEvery \in Nat
  BY Sizes, ReminderAssumption
     DEF SettleInv, Timed, Unsettled, PassMove, OneStep, TypeOK
<1>2. InHand' <=> InHand
  BY <1>1, HandSame
<1>3. PassByNow' = PassByNow /\ PassByNow \in Nat /\ (Unpublished(row)' <=> Unpublished(row))
  BY <1>1, NowInTime DEF PassByNow, Unpublished
<1>4. RowInTime' /\ JobInTime'
  BY <1>1, <1>2, <1>3 DEF InTime, RowInTime, JobInTime
<1>5. ASSUME NEW q \in Procs PROVE ArmInTime(q)'
  <2>1. CASE q = p
    BY <1>1, <2>1 DEF ArmInTime
  <2> QED BY <1>1, <2>1, OthersArm DEF InTime
<1>6. ASSUME ~InHand, NEW c \in Crons PROVE OnTime(c)'
  <2>1. OnTime(c)
    BY <1>1, <1>6 DEF InTime
  <2>2. CASE c = p
    <3>1. passAt[p] < PassByNow
      BY <1>1, <2>1, <2>2 DEF OnTime, Republishes, Closes
    <3>2. now <= passAt[p] + PassEvery
      BY <1>1 DEF PassTimes
    <3>3. now < PassByNow + PassEvery
      BY <1>1, <1>3, <3>1, <3>2 DEF Sized
    <3>4. passAt'[p] = now
      BY <1>1
    <3> QED BY <1>1, <1>3, <2>2, <3>3, <3>4 DEF OnTime, Republishes, Closes
  <2>3. CASE c # p
    <3>1. passAt'[c] = passAt[c] /\ frame'[c] = frame[c] /\ pc'[c] = pc[c]
      BY <1>1, <2>3 DEF OneStep, Sized
    <3> QED BY <1>1, <1>3, <2>1, <3>1 DEF OnTime, Republishes, Closes, FreshUntil
  <2> QED BY <2>2, <2>3
<1> QED BY <1>2, <1>4, <1>5, <1>6 DEF InTime

\* The pass that is due goes on: to publish the row, or to close the job.
LEMMA PassGoesOn ==
  ASSUME Recovers, SettleInv, Unsettled, ~InHand, NEW p \in Crons, NextMove(p), OneStep(p),
         OnTime(p), ~(passAt[p] < PassByNow)
  PROVE  IF Unpublished(row)
         THEN \/ pc'[p] \in {"target", "publish", "send", "mark"} /\ frame'[p].rev = row.revision
         ELSE \/ pc'[p] \in {"listOverdue", "closeStale"}
              \/ pc'[p] = "findRow" /\ frame'[p].alert = job.intendedAt
                   /\ FreshUntil(job.intendedAt) <= frame[p].at
<1> DEFINE i == job.intendedAt  n == faults  at == frame[p].at
<1>1. /\ TypeOK /\ Sized /\ JobTimed /\ RowTimed /\ InTime /\ job # None
      /\ i \in AlertTimes /\ n \in Nat /\ at \in Nat
      /\ job.status \in {"pending", "running", "failed"}
  BY Sizes DEF SettleInv, Timed, Unsettled, Sized, JobTimed, Procs, Finished
<1>2. /\ PublishBy(i, n) \in Nat /\ LastStart(i) \in Nat /\ FreshUntil(i) \in Nat
      /\ RetryAfter \in Nat /\ MaxRun \in Nat /\ PassEvery \in Nat \ {0}
      /\ Grace \in Nat \ {0} /\ Lease \in Nat /\ Base(i) \in Nat
      /\ FreshUntil(i) + RetryAfter + 2 * MaxRun <= LastStart(i)
      /\ Base(i) = LastStart(i) + MaxRun /\ Base(i) <= PublishBy(i, n)
      /\ SeenBy(i, n) = PublishBy(i, n) + PassEvery - 1 + 2 * MaxRun
      /\ CloseBy(i, n) = SeenBy(i, n) + Grace
  BY <1>1, Bounds
<1>3. /\ at = passAt[p] /\ PassByNow \in Nat /\ PassByNow <= at
      /\ IF Unpublished(row) THEN Republishes(p) ELSE Closes(p)
      /\ PassByNow = IF Unpublished(row) THEN PublishBy(i, n) ELSE CloseBy(i, n)
  BY <1>1, NowInTime DEF OnTime, PassByNow, PassBy
<1>4. FreshUntil(i) <= at /\ LastStart(i) <= at
  BY <1>1, <1>2, <1>3
<1>5. Awaiting(job, at)
  <2>1. job.status = "running" => job.updatedAt + Lease <= PassByNow
    BY <1>1 DEF InTime, JobInTime
  <2>2. job.status = "running" => job.updatedAt + Lease <= at
    BY <1>1, <1>2, <1>3, <2>1 DEF Sized
  <2> QED BY <1>1, <2>2 DEF Awaiting, LeaseExpired
<1>6. PassNext(p)
  BY DEF NextMove
<1> HIDE DEF i, n, at
<1>7. CASE Unpublished(row)
  <2>1. CASE pc[p] = "listDue"
    <3>1. row # None /\ row.status \in {"pending", "publish_failed"}
          /\ row.nextAttemptAt <= PublishBy(i, n)
      BY <1>1, <1>7 DEF InTime, RowInTime, Unpublished, i, n
    <3>2. row.nextAttemptAt <= at
      BY <1>1, <1>2, <1>3, <1>7, <3>1 DEF Sized
    <3>3. DueDelivery(row, {"pending", "publish_failed"}, at)
      BY <3>1, <3>2 DEF DueDelivery
    <3> QED BY <1>6, <1>7, <2>1, <3>3 DEF PassNext, at
  <2>2. CASE pc[p] \in {"target", "publish", "send", "mark"} /\ frame[p].rev = row.revision
    <3>1. Targets(row, frame[p].rev)
      BY <1>7, <2>2 DEF Targets, Unpublished
    <3> QED BY <1>1, <1>5, <1>6, <1>7, <2>2, <3>1 DEF PassNext, at
  <2> QED BY <1>3, <1>7, <2>1, <2>2 DEF Republishes
<1>8. CASE ~Unpublished(row)
  <2>1. CASE pc[p] = "listDue"
    BY <1>6, <1>8, <2>1 DEF PassNext, DueDelivery, Unpublished
  <2>2. CASE pc[p] = "listOverdue"
    <3>1. OverdueJob(job, at, Grace)
      <4>1. job.status \in {"pending", "failed"} => job.nextAttemptAt <= LastStart(i)
        BY <1>1 DEF InTime, JobInTime, i
      <4>2. LastStart(i) + Grace <= at
        BY <1>1, <1>2, <1>3, <1>8
      <4>3. job.status \in {"pending", "failed"} => job.nextAttemptAt + Grace <= at
        BY <1>1, <1>2, <4>1, <4>2 DEF Sized
      <4> QED BY <1>1, <1>5, <4>3 DEF OverdueJob, Awaiting
    <3> QED BY <1>1, <1>4, <1>6, <1>8, <2>2, <3>1 DEF PassNext, at, i
  <2>3. CASE pc[p] = "findRow" /\ FreshUntil(frame[p].alert) <= at
    <3>1. WakeupLost(row, at)
      <4>1. CASE row = None \/ row.status = "abandoned"
        BY <4>1 DEF WakeupLost
      <4>2. CASE row # None /\ row.status = "published"
        <5>1. row.publishedAt <= SeenBy(i, n) /\ row.publishedAt # None
          BY <1>1, <4>2 DEF InTime, RowInTime, RowTimed, i, n
        <5>2. row.publishedAt + Grace <= at
          BY <1>1, <1>2, <1>3, <1>8, <4>2, <5>1 DEF Sized
        <5> QED BY <4>2, <5>2 DEF WakeupLost
      <4> QED BY <1>1, <1>8, <4>1, <4>2 DEF Sized, Unpublished
    <3> QED BY <1>6, <1>8, <2>3, <3>1 DEF PassNext, at
  <2>4. pc[p] # "closeStale"
    BY <1>1, <1>4, <1>5, <1>6 DEF PassNext, StaleJob, at, i
  <2> QED BY <1>3, <1>8, <2>1, <2>2, <2>3, <2>4 DEF Closes, at
<1> QED BY <1>7, <1>8

\* Nothing is written: who arms the row goes on in time, and so does the pass.
LEMMA GoesOnInTime ==
  ASSUME Recovers, SettleInv, Unsettled, NEW p \in Procs, OneStep(p), NextMove(p)
  PROVE  InTime'
<1> DEFINE i == job.intendedAt  n == faults
<1>1. /\ TypeOK /\ Sized /\ JobTimed /\ RunsInTime /\ InTime /\ job # None
      /\ job' = job /\ row' = row /\ faults' = faults /\ passAt' = passAt
      /\ i \in AlertTimes /\ n \in Nat
      /\ job.status \in {"pending", "running", "failed"}
  BY Sizes DEF SettleInv, Timed, Unsettled, NextMove, JobTimed, Sized, Finished
<1>2. /\ PublishBy(i, n) \in Nat /\ LastStart(i) \in Nat /\ FreshUntil(i) \in Nat
      /\ RetryAfter \in Nat /\ MaxRun \in Nat /\ PassEvery \in Nat \ {0}
      /\ FreshUntil(i) + RetryAfter + 2 * MaxRun <= LastStart(i)
      /\ SeenBy(i, n) = PublishBy(i, n) + PassEvery - 1 + 2 * MaxRun
      /\ RetryAfter \in Nat \ {0}
  BY <1>1, Bounds
<1>3. InHand' <=> InHand
  BY <1>1, HandSame
<1>4. PassByNow' = PassByNow /\ PassByNow \in Nat
  BY <1>1, NowInTime DEF PassByNow
<1>5. RowInTime' /\ JobInTime'
  BY <1>1, <1>3, <1>4 DEF InTime, RowInTime, JobInTime, Unpublished
<1>6. ArmInTime(p)'
  <2>1. ArmInTime(p) /\ frame[p].at \in Nat /\ now \in Nat
    BY <1>1 DEF InTime, Sized
  <2>2. pc[p] # "idle" /\ pc'[p] # "idle" => frame'[p].at = frame[p].at
    BY DEF OneStep
  <2>3. ArmsNext(p)
    BY DEF NextMove
  <2>4. pc'[p] = "reload" => frame'[p].at < LastStart(i)
    <3>1. CASE pc[p] = "inspect" /\ job.status \in {"pending", "failed"}
               /\ ~Claimable(job, frame[p].at)
      <4>1. job.nextAttemptAt <= LastStart(i) /\ job.nextAttemptAt \in Nat
        BY <1>1, <3>1 DEF InTime, JobInTime, Sized
      <4>2. ~(job.nextAttemptAt <= frame[p].at)
        BY <3>1 DEF Claimable, Awaiting
      <4> QED BY <1>2, <2>1, <2>2, <3>1, <4>1, <4>2
    <3>2. CASE pc[p] = "findRow" /\ frame[p].at < FreshUntil(frame[p].alert)
      <4>1. frame[p].alert = i \/ frame[p].at < FreshUntil(i) + 2 * MaxRun
        BY <2>1, <3>2 DEF ArmInTime
      <4> QED BY <1>2, <2>1, <2>2, <3>2, <4>1
    <3>3. CASE pc[p] = "pointerJob" /\ frame[p].at < FreshUntil(i)
      BY <1>2, <2>1, <2>2, <3>3
    <3> QED BY <2>3, <3>1, <3>2, <3>3 DEF ArmsNext
  <2>5. pc'[p] \in {"create", "revise"} => frame'[p].at < LastStart(i)
    BY <2>1, <2>2, <2>3 DEF ArmsNext, ArmInTime
  <2>6. pc'[p] = "findRow" => frame'[p].alert = i
    BY <2>3 DEF ArmsNext
  <2>7. pc'[p] = "target" => frame'[p].at <= SeenBy(i, n)
    <3>1. pc'[p] = "target" => PassByNow = PublishBy(i, n)
      BY <2>3 DEF ArmsNext, PassByNow, PassBy
    <3>2. pc'[p] = "target" => frame'[p].at <= now
      BY <1>1, <2>1, <2>2 DEF OneStep, RunsInTime
    <3>3. now <= PassByNow + PassEvery - 1 + 2 * MaxRun
      BY NowInTime
    <3>4. pc'[p] = "target" => frame'[p].at \in Nat
      BY <2>1 DEF OneStep
    <3> QED BY <1>2, <2>1, <3>1, <3>2, <3>3, <3>4
  <2>8. pc'[p] \in {"publish", "send", "mark"} => frame'[p].at <= SeenBy(i, n)
    BY <2>1, <2>2, <2>3 DEF ArmsNext, ArmInTime
  <2>9. pc'[p] # "markFailed"
    BY <2>3 DEF ArmsNext
  <2> QED BY <1>1, <2>4, <2>5, <2>6, <2>7, <2>8, <2>9 DEF ArmInTime
<1>7. ASSUME NEW q \in Procs PROVE ArmInTime(q)'
  <2>1. CASE q = p
    BY <1>6, <2>1
  <2> QED BY <1>1, <2>1, OthersArm DEF InTime
<1>8. ASSUME ~InHand, NEW c \in Crons PROVE OnTime(c)'
  <2>1. OnTime(c) /\ passAt'[c] = passAt[c]
    BY <1>1, <1>8 DEF InTime
  <2>2. CASE passAt[c] < PassByNow
    BY <1>4, <2>1, <2>2 DEF OnTime
  <2>3. CASE c = p /\ ~(passAt[c] < PassByNow)
    <3>1. IF Unpublished(row)
          THEN \/ pc'[p] \in {"target", "publish", "send", "mark"} /\ frame'[p].rev = row.revision
          ELSE \/ pc'[p] \in {"listOverdue", "closeStale"}
               \/ pc'[p] = "findRow" /\ frame'[p].alert = i /\ FreshUntil(i) <= frame[p].at
      BY <1>8, <2>1, <2>3, PassGoesOn
    <3>2. pc[p] # "idle" /\ frame[p].at = passAt[p] /\ passAt[p] < PassByNow + PassEvery
      BY <2>1, <2>3 DEF OnTime, Republishes, Closes
    <3>3. pc'[p] # "idle"
      BY <3>1
    <3>4. frame'[p].at = frame[p].at
      BY <3>2, <3>3 DEF OneStep
    <3>5. IF Unpublished(row) THEN Republishes(p)' ELSE Closes(p)'
      <4>1. CASE Unpublished(row)
        BY <1>1, <3>1, <4>1 DEF Republishes
      <4>2. CASE ~Unpublished(row)
        BY <1>1, <3>1, <3>4, <4>2 DEF Closes, FreshUntil
      <4> QED BY <4>1, <4>2
    <3> QED BY <1>1, <1>4, <2>1, <2>3, <3>2, <3>4, <3>5 DEF OnTime, Unpublished
  <2>4. CASE c # p /\ ~(passAt[c] < PassByNow)
    <3>1. frame'[c] = frame[c] /\ pc'[c] = pc[c]
      BY <1>1, <2>4 DEF OneStep, Sized
    <3> QED BY <1>1, <1>4, <2>1, <2>4, <3>1 DEF OnTime, Republishes, Closes, FreshUntil, Unpublished
  <2> QED BY <2>2, <2>3, <2>4
<1> QED BY <1>3, <1>5, <1>7, <1>8 DEF InTime

\* An invocation that plans the job, or retries it, has not run for long.
LEMMA ReplanInTime ==
  ASSUME Recovers, SettleInv, TypeOK', RunsInTime', Timed', Unsettled',
         NEW p \in Procs, OneStep(p), Plans(p) \/ Retries(p)
  PROVE  InTime'
<1> DEFINE i == job'.intendedAt
<1>1. /\ TypeOK /\ Sized /\ PlanTimes /\ TryTimes /\ DispatchTimes /\ RunsInTime
      /\ i \in AlertTimes /\ now' = now
  BY Sizes DEF SettleInv, Timed, Unsettled, JobTimed, OneStep
<1>2. /\ LastStart(i) \in Nat /\ FreshUntil(i) \in Nat /\ MaxRun \in Nat
      /\ RetryAfter \in Nat \ {0}
      /\ FreshUntil(i) + RetryAfter + 2 * MaxRun <= LastStart(i)
  BY <1>1, Bounds DEF Sized
<1>3. pc[p] # "idle" /\ now <= frame[p].at + MaxRun /\ frame[p].at \in Nat /\ now \in Nat
  BY <1>1 DEF Plans, Retries, RunsInTime, Sized
<1>4. CASE Plans(p)
  <2>1. /\ job'.status # "running" /\ job'.nextAttemptAt = i
        /\ frame[p].at < FreshUntil(i)
    BY <1>1, <1>4, Written DEF Plans, PlanLabels, PlanTimes
  <2>2. i \in Nat /\ i <= FreshUntil(i)
    <3>1. i \in Nat /\ FreshFor \in Nat
      BY <1>1, Constants
    <3> QED BY <3>1 DEF FreshUntil
  <2>3. job'.nextAttemptAt <= LastStart(i)
    BY <1>2, <2>1, <2>2
  <2>4. now' < FreshUntil(i) + 2 * MaxRun
    BY <1>1, <1>2, <1>3, <2>1
  <2> QED BY <2>1, <2>3, <2>4, AnewInTime
<1>5. CASE Retries(p)
  <2>1. /\ job # None /\ job'.status # "running" /\ i = job.intendedAt
        /\ job'.nextAttemptAt = RetryTime(frame[p].alert, frame[p].at)
        /\ frame[p].at < FreshUntil(frame[p].alert) /\ frame[p].alert \in Nat
        /\ frame[p].alert = i \/ frame[p].at < FreshUntil(i) + MaxRun
    BY <1>1, <1>5, Written DEF Retries, TryTimes, DispatchTimes, Dispatches, Sized
  <2>2. /\ RetryTime(frame[p].alert, frame[p].at) \in Nat
        /\ RetryTime(frame[p].alert, frame[p].at) <= FreshUntil(frame[p].alert)
        /\ RetryTime(frame[p].alert, frame[p].at) <= frame[p].at + RetryAfter
    BY <1>3, <2>1, RetrySoon
  <2>3. frame[p].at < FreshUntil(i) + MaxRun
    BY <1>2, <1>3, <2>1
  <2>4. job'.nextAttemptAt <= LastStart(i)
    BY <1>2, <1>3, <2>1, <2>2, <2>3
  <2>5. now' < FreshUntil(i) + 2 * MaxRun
    BY <1>1, <1>2, <1>3, <2>3
  <2> QED BY <2>1, <2>4, <2>5, AnewInTime
<1> QED BY <1>4, <1>5

LEMMA StepInTime ==
  ASSUME Recovers, SettleInv, TypeOK', RunsInTime', Timed', Unsettled',
         NEW p \in Procs, OneStep(p), SettleStep(p)
  PROVE  InTime'
<1>1. CASE Plans(p) \/ Retries(p)
  BY <1>1, ReplanInTime
<1>2. CASE JobMove(p) /\ Settles(p)
  BY <1>2 DEF Settles, Unsettled, Finished
<1>3. CASE JobMove(p) /\ Takes(p)
  <2>1. Unsettled
    BY <1>3 DEF Takes, ClaimAllowed, Claimable, Awaiting, LeaseExpired, Unsettled, Finished
  <2> QED BY <1>3, <2>1, TakesInTime
<1>4. CASE RowMove(p) \/ FaultMove(p) \/ PassMove(p) \/ NextMove(p)
  <2>1. Unsettled
    BY <1>4 DEF RowMove, FaultMove, PassMove, NextMove, Unsettled, Finished
  <2>2. CASE RowMove(p)
    BY <2>1, <2>2, RenewsInTime, RestsInTime, FailsInTime DEF RowMove
  <2>3. CASE FaultMove(p)
    <3>1. \A q \in Procs \ {p} : pc'[q] = pc[q] /\ frame'[q] = frame[q]
      BY DEF OneStep
    <3>2. \/ pc'[p] = "idle"
          \/ pc[p] = "send" /\ pc'[p] = "markFailed" /\ frame'[p].at = frame[p].at
      BY <2>3 DEF FaultMove, OneStep
    <3>3. job' = job /\ row' = row /\ faults' = faults + 1 /\ passAt' = passAt
      BY <2>3 DEF FaultMove
    <3> QED BY <2>1, <3>1, <3>2, <3>3, FaultInTime
  <2> QED BY <1>4, <2>1, <2>2, <2>3, BeginsInTime, GoesOnInTime
<1> QED BY <1>1, <1>2, <1>3, <1>4 DEF SettleStep, JobMove

\* Time passes: nothing that is in time depends on the clock.
LEMMA ClockInTime ==
  ASSUME SettleInv, TypeOK', Tick \/ Stop \/ UNCHANGED vars
  PROVE  Timed' /\ (Unsettled' => InTime')
<1>1. /\ Timed /\ (Unsettled => InTime) /\ Sized
  BY Sizes DEF SettleInv
<1>2. /\ job' = job /\ row' = row /\ faults' = faults /\ passAt' = passAt /\ pc' = pc
      /\ frame' = frame
      /\ now' = now \/ (now' = now + 1 /\ \A c \in Crons : now < passAt[c] + PassEvery)
  BY DEF Tick, Stop, vars
<1>3. PassTimes'
  BY <1>1, <1>2, ReminderAssumption DEF Timed, PassTimes, Sized
<1>4. PlanTimes' /\ TryTimes' /\ DispatchTimes'
  BY <1>1, <1>2
     DEF Timed, PlanTimes, PlanFrame, TryTimes, DispatchTimes, Dispatches, FreshUntil
<1>5. ArmTimes'
  BY <1>1, <1>2 DEF Timed, ArmTimes, Base, LastStart, Horizon, LastAlert, FreshUntil
<1>6. JobTimed'
  BY <1>1, <1>2 DEF Timed, JobTimed, Sized
<1>7. RowTimed'
  <2> SUFFICES ASSUME row # None
               PROVE  /\ row.status = "pending" =>
                           row.nextAttemptAt <= IF PublishAhead THEN now' ELSE Base(LastAlert)
                      /\ row.status = "publish_failed" =>
                           row.nextAttemptAt <= now' + RetryDelay /\ faults > 0
                      /\ row.publishedAt # None => row.publishedAt <= now'
                      /\ row.status = "published" => row.publishedAt # None
    BY <1>2 DEF RowTimed, Base, LastStart, Horizon, LastAlert, FreshUntil
  <2> QED BY <1>1, <1>2, Constants DEF Timed, RowTimed, Sized
<1>8. Unsettled' => InTime'
  <2>1. InTime = InTime' /\ Unsettled = Unsettled'
    BY <1>2 DEF InTime, RowInTime, JobInTime, ArmInTime, OnTime, Republishes, Closes, InHand,
                Dispatches, PassByNow, PassBy, Unpublished, Unsettled, Finished, FreshUntil
  <2> QED BY <1>1, <2>1
<1> QED BY <1>3, <1>4, <1>5, <1>6, <1>7, <1>8 DEF Timed

\* A lost message and a missed pass are faults that move no invocation.
LEMMA LossInTime ==
  ASSUME Recovers, SettleInv, TypeOK', LoseMessage \/ SkipPass
  PROVE  Timed' /\ (Unsettled' => InTime')
<1>1. Timed /\ Sized /\ passAt \in [Crons -> Nat] /\ PassEvery \in Nat
  BY Sizes, ReminderAssumption DEF SettleInv, TypeOK
<1>2. /\ job' = job /\ row' = row /\ faults' = faults + 1 /\ pc' = pc /\ frame' = frame
      /\ now' = now
      /\ passAt' = passAt \/ \E c \in Crons : passAt' = [passAt EXCEPT ![c] = now]
  BY DEF LoseMessage, SkipPass, Fault
<1>3. \A c \in Crons : passAt'[c] \in {passAt[c], now}
  BY <1>1, <1>2
<1>4. PassTimes'
  BY <1>1, <1>2, <1>3 DEF Timed, PassTimes, Sized
<1>5. PlanTimes' /\ DispatchTimes'
  BY <1>1, <1>2 DEF Timed, PlanTimes, PlanFrame, DispatchTimes, Dispatches, FreshUntil
<1>6. TryTimes'
  <2>1. faults' > 0
    BY <1>1, <1>2 DEF Sized
  <2> QED BY <1>1, <1>2, <2>1 DEF Timed, TryTimes, Dispatches, FreshUntil
<1>7. ArmTimes'
  BY <1>1, <1>2 DEF Timed, ArmTimes, Base, LastStart, Horizon, LastAlert, FreshUntil
<1>8. JobTimed'
  BY <1>1, <1>2 DEF Timed, JobTimed
<1>9. RowTimed'
  <2>1. faults' > 0
    BY <1>1, <1>2 DEF Sized
  <2> QED BY <1>1, <1>2, <2>1
          DEF Timed, RowTimed, Base, LastStart, Horizon, LastAlert, FreshUntil
<1>10. ASSUME Unsettled' PROVE InTime'
  <2>1. Unsettled
    BY <1>2, <1>10 DEF Unsettled, Finished
  <2> QED BY <1>2, <1>3, <2>1, FaultInTime
<1> QED BY <1>4, <1>5, <1>6, <1>7, <1>8, <1>9, <1>10 DEF Timed

LEMMA NextSettleInv ==
  ASSUME Recovers
  PROVE  SettleInv /\ TypeOK' /\ [Next]_vars => SettleInv'
<1> SUFFICES ASSUME SettleInv, TypeOK', [Next]_vars PROVE SettleInv'
  OBVIOUS
<1>1. CallbacksDispatch' /\ RunsInTime' /\ TypeOK /\ CallbacksDispatch
  BY NextCallbacks, NextRunsInTime DEF SettleInv
<1>2. ASSUME NEW p \in Procs, Owning(p) \/ Works(p) \/ Crash(p)
      PROVE  Timed' /\ (Unsettled' => InTime')
  <2>1. OneStep(p) /\ SettleStep(p)
    BY <1>1, <1>2, EachOneStep, EachSettleStep
  <2>2. Timed'
    BY <2>1, StepTimed
  <2> QED BY <1>1, <2>1, <2>2, StepInTime
<1>3. CASE LoseMessage \/ SkipPass
  BY <1>1, <1>3, LossInTime DEF SettleInv
<1>4. CASE Tick \/ Stop \/ UNCHANGED vars
  BY <1>1, <1>4, ClockInTime DEF SettleInv
<1> QED BY <1>1, <1>2, <1>3, <1>4 DEF Next, SettleInv

LEMMA InitSettleInv == Init => SettleInv
<1> SUFFICES ASSUME Init PROVE SettleInv
  OBVIOUS
<1>1. /\ \A p \in Procs : pc[p] = "idle"
      /\ now = 0 /\ job = None /\ row = None /\ passAt = [c \in Crons |-> 0]
  BY DEF Init
<1>2. TypeOK
  BY InitIInv DEF IInv
<1>3. CallbacksDispatch /\ RunsInTime
  BY <1>1 DEF CallbacksDispatch, CallbackLabels, RunsInTime
<1>4. Timed
  BY <1>1, ReminderAssumption
     DEF Timed, PassTimes, PlanTimes, PlanLabels, TryTimes, Dispatches, JobTimed, RowTimed,
         ArmTimes, DispatchTimes
<1> QED BY <1>1, <1>2, <1>3, <1>4 DEF SettleInv, Unsettled

\* Whatever is lost, late or crashed, and however edits, redeliveries, takeovers
\* and retries meet, the recovery passes settle every job by its deadline, each
\* fault adding no more than a lease (or a retry delay) and a pass: the re-arms of
\* delivery-wakeups.ts end when the alert is stale, and suppressStaleDeliveryJob
\* closes it.  It takes a recovery pass, and, without publish-ahead, a latest
\* alert the owner may choose.
THEOREM SettledInTimeAlways == ASSUME Recovers PROVE Spec => []SettledInTime
<1>1. SettleInv => SettledInTime
  <2> SUFFICES ASSUME SettleInv, job # None, ~Finished(job)
               PROVE  now <= Deadline(job.intendedAt) + faults * FaultCost
    BY DEF SettledInTime
  <2>1. Unsettled /\ job.intendedAt \in AlertTimes /\ faults \in Nat /\ now \in Nat
    BY Sizes DEF Unsettled, SettleInv, Timed, JobTimed, Sized
  <2>2. now <= PassByNow + PassEvery - 1 + 2 * MaxRun /\ PassByNow \in Nat
    BY <2>1, NowInTime
  <2>3. /\ Deadline(job.intendedAt) + faults * FaultCost
             = CloseBy(job.intendedAt, faults) + PassEvery - 1 + 2 * MaxRun
        /\ CloseBy(job.intendedAt, faults) \in Nat /\ PassEvery \in Nat \ {0} /\ MaxRun \in Nat
        /\ PublishBy(job.intendedAt, faults) <= CloseBy(job.intendedAt, faults)
    <3>1. /\ PublishBy(job.intendedAt, faults) \in Nat /\ Grace \in Nat
          /\ CloseBy(job.intendedAt, faults) = SeenBy(job.intendedAt, faults) + Grace
          /\ SeenBy(job.intendedAt, faults)
               = PublishBy(job.intendedAt, faults) + PassEvery - 1 + 2 * MaxRun
          /\ PassEvery \in Nat \ {0} /\ MaxRun \in Nat
      BY <2>1, Bounds
    <3>2. /\ Deadline(job.intendedAt) + faults * FaultCost
               = CloseBy(job.intendedAt, faults) + PassEvery - 1 + 2 * MaxRun
          /\ CloseBy(job.intendedAt, faults) \in Nat
      BY <2>1, Bounds
    <3> QED BY <3>1, <3>2
  <2>4. PassByNow <= CloseBy(job.intendedAt, faults)
    BY <2>3 DEF PassByNow, PassBy
  <2> QED BY <2>1, <2>2, <2>3, <2>4
<1> QED BY <1>1, InitSettleInv, NextSettleInv, TypeCorrect, PTL DEF Spec
=============================================================================
