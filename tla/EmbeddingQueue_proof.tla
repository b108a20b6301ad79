------------------------ MODULE EmbeddingQueue_proof ------------------------
(***************************************************************************)
(* The index agrees with its record, for any number of mutations, queue    *)
(* callbacks and recovery passes, any records, texts and bounds, and       *)
(* leases that may end under a live invocation; and the pipeline           *)
(* implements the abstract index.                                          *)
(***************************************************************************)
EXTENDS EmbeddingQueue, TLAPS

-----------------------------------------------------------------------------
(* The inductive invariant.                                                *)

AfterRead == {"scrub", "lookup", "refresh", "embed", "upsert", "settle"}

AfterLoad == AfterRead \cup {"read"}

\* Only these labels are reached before there is a job.
BeforeJob == {"idle", "find", "insert", "recover", "claimNext"}

JobFirst ==
  job = None => delivery = "none" /\ \A p \in Procs : pc[p] \in BeforeJob

\* Generations are handed out in order, and a running job has one.
ClaimsNumbered ==
  job # None => /\ job.status = "running" => job.claim \in Nat
                /\ job.claim # None => job.claim <= gen

FrameFilled(p) ==
  /\ pc[p] \in AfterLoad =>
       /\ frame[p].job \in Job
       /\ frame[p].job.claim \in Nat /\ frame[p].job.claim <= gen
  /\ pc[p] \in AfterRead => frame[p].record \in Records
  /\ pc[p] = "scrub" =>
       /\ frame[p].verdict = Skipped(frame[p].job)
       /\ Decision(frame[p].record) = "scrub"
  /\ pc[p] \in {"lookup", "refresh", "embed", "upsert"} => Decision(frame[p].record) = "embed"
  /\ pc[p] = "settle" => frame[p].verdict \in Verdict

FramesFilled == \A p \in Procs : FrameFilled(p)

\* No save and no enqueue has come since the claim p works under was taken.
Current(p) == Holds(p) /\ ~job.rerun /\ announced

\* ... so what p has read is what the record says, and what p or a pass that
\* shares its claim has written agrees with it.
PassAgrees(p) ==
  pc[p] \in AfterRead /\ Current(p) =>
    /\ frame[p].record = record
    /\ pc[p] = "refresh" /\ emb # None => emb.text = record.text
    /\ pc[p] = "settle" /\ frame[p].verdict.status \in {"completed", "skipped"}
         => Agrees(record, emb)

IInv ==
  /\ TypeOK /\ JobFirst /\ ClaimsNumbered /\ FramesFilled
  /\ (job # None => \A p \in Procs : PassAgrees(p))
  /\ IndexMatchesRecord

-----------------------------------------------------------------------------
(* The row's statements are typed.                                         *)

LEMMA Constants ==
  /\ None \notin Texts /\ None \notin Int /\ None \notin Job /\ None \notin Embedding
  /\ MaxAttempts \in Nat /\ MaxTransientAttempts \in Nat
  /\ Records \subseteq Record /\ MaxEdits \in Nat /\ MaxFaults \in Nat
BY EmbeddingJobAssumption, EmbeddingQueueAssumption

LEMMA NewJobType == NewJob \in Job
BY DEF NewJob, Job, JobStatus

LEMMA ClaimedType ==
  ASSUME NEW j \in Job, NEW g \in Nat
  PROVE  /\ Claimed(j, g) \in Job
         /\ Claimed(j, g).status = "running" /\ Claimed(j, g).claim = g
         /\ Claimed(j, g).rerun = j.rerun
<1>1. j.attempts + 1 \in Nat
  BY DEF Job
<1> QED BY <1>1 DEF Claimed, Job, JobStatus

LEMMA ReopenedType ==
  ASSUME NEW j \in Job
  PROVE  /\ Reopened(j) \in Job
         /\ Reopened(j).status \notin {"completed", "skipped"}
         /\ Reopened(j).status = "running" =>
              j.status = "running" /\ Reopened(j).claim = j.claim /\ Reopened(j).rerun
         /\ Reopened(j).claim \in {j.claim, None}
BY DEF Reopened, Job, JobStatus, Reopenable

LEMMA RecoveredType ==
  ASSUME NEW j \in Job
  PROVE  /\ Recovered(j) \in Job
         /\ Recovered(j).status = "pending" /\ Recovered(j).claim = None
<1>1. (IF j.rerun \/ j.attempts = 0 THEN 0 ELSE j.attempts - 1) \in Nat
  BY DEF Job
<1> QED BY <1>1 DEF Recovered, Job, JobStatus

LEMMA SettledType ==
  ASSUME NEW j \in Job, NEW v \in Verdict
  PROVE  /\ Settled(j, v) \in Job
         /\ Settled(j, v).status # "running"
         /\ Settled(j, v).status \in {"completed", "skipped"} =>
              ~j.rerun /\ v.status = Settled(j, v).status
         /\ Settled(j, v).claim \in {j.claim, None}
<1> USE DEF Job, Verdict, JobStatus
<1>1. CASE j.rerun /\ v.status \notin {"failed", "pending"}
  <2> DEFINE text == v.deadText
             zero == 0
             later == FALSE
  <2>1. Settled(j, v) = [j EXCEPT !.status = "pending", !.claim = None, !.attempts = zero,
                 !.rerun = FALSE, !.deadText = text, !.later = later]
    BY <1>1 DEF Settled
  <2>2. text \in Texts \cup {None} /\ zero \in Nat /\ later \in BOOLEAN
    OBVIOUS
  <2> HIDE DEF text, zero, later
  <2>3. Settled(j, v) \in Job
    BY <2>1, <2>2
  <2>4. Settled(j, v).status = "pending" /\ Settled(j, v).claim = None
    BY <2>1
  <2> QED BY <2>3, <2>4
<1>2. CASE ~(j.rerun /\ v.status \notin {"failed", "pending"})
  <2> DEFINE attempts == IF j.rerun THEN 0 ELSE v.attempts
             claim == IF v.status \in {"completed", "skipped"} THEN j.claim ELSE None
             later == v.status \in {"failed", "pending"}
  <2>1. Settled(j, v) = [j EXCEPT !.status = v.status, !.claim = claim, !.attempts = attempts,
                 !.rerun = FALSE, !.deadText = v.deadText, !.later = later]
    BY <1>2 DEF Settled
  <2>2. attempts \in Nat /\ claim \in Nat \cup {None} /\ claim \in {j.claim, None}
    OBVIOUS
  <2>3. later \in BOOLEAN
    OBVIOUS
  <2> HIDE DEF attempts, claim, later
  <2>4. Settled(j, v) \in Job
    BY <2>1, <2>2, <2>3
  <2>5. Settled(j, v).status = v.status /\ Settled(j, v).claim = claim
    BY <2>1, <2>2
  <2> QED BY <1>2, <2>2, <2>4, <2>5
<1> QED BY <1>1, <1>2

LEMMA VerdictTypes ==
  ASSUME NEW j \in Job
  PROVE  /\ Completed(j) \in Verdict /\ Skipped(j) \in Verdict /\ DeadAgain(j) \in Verdict
         /\ Deferred(j) \in Verdict /\ FailedPastCap(j) \in Verdict
         /\ \A cap \in Nat, t \in Texts \cup {None} : Failed(j, cap, t) \in Verdict
<1> USE DEF Job, Verdict, JobStatus
<1>1. Completed(j) \in Verdict /\ Skipped(j) \in Verdict /\ DeadAgain(j) \in Verdict
  BY DEF Completed, Skipped, DeadAgain
<1>2. FailedPastCap(j) \in Verdict
  BY DEF FailedPastCap
<1>3. Deferred(j) \in Verdict
  <2>1. (IF j.attempts = 0 THEN 0 ELSE j.attempts - 1) \in Nat
    OBVIOUS
  <2> QED BY <2>1 DEF Deferred
<1>4. ASSUME NEW cap \in Nat, NEW t \in Texts \cup {None}
      PROVE  Failed(j, cap, t) \in Verdict
  BY DEF Failed
<1> QED BY <1>1, <1>2, <1>3, <1>4

\* Only a completed or a skipped verdict claims that the index is right.
LEMMA VerdictClaims ==
  ASSUME NEW j \in Job
  PROVE  /\ DeadAgain(j).status \notin {"completed", "skipped"}
         /\ Deferred(j).status \notin {"completed", "skipped"}
         /\ FailedPastCap(j).status \notin {"completed", "skipped"}
         /\ \A cap, t : Failed(j, cap, t).status \notin {"completed", "skipped"}
BY DEF DeadAgain, Deferred, FailedPastCap, Failed

LEMMA DecisionType ==
  ASSUME NEW r \in Records
  PROVE  Decision(r) \in {"skip", "scrub", "embed"}
BY Constants DEF Decision, Record
-----------------------------------------------------------------------------
(* Every step is typed.                                                    *)

LEMMA GotoType ==
  ASSUME TypeOK, NEW p \in Procs, NEW label \in Labels, Goto(p, label)
  PROVE  pc' \in [Procs -> Labels]
BY DEF TypeOK, Goto

LEMMA ForgetType ==
  ASSUME TypeOK, NEW p \in Procs, NEW label \in Labels, Forget(p, label)
  PROVE  pc' \in [Procs -> Labels] /\ frame' \in [Procs -> Frame]
<1>1. NoFrame \in Frame
  BY DEF NoFrame, Frame
<1> QED BY <1>1, GotoType DEF Forget, TypeOK

LEMMA DropType ==
  ASSUME TypeOK, NEW p, Drop(p) \/ Acknowledge
  PROVE  queue' \in Nat
BY DEF TypeOK, Drop, Acknowledge

LEMMA AfterType == \A p : After(p) \subseteq Labels
BY DEF After, Labels

LEMMA EndPassType ==
  ASSUME TypeOK, NEW p \in Procs, EndPass(p)
  PROVE  queue' \in Nat /\ pc' \in [Procs -> Labels] /\ frame' \in [Procs -> Frame]
BY AfterType, ForgetType, DropType DEF EndPass

LEMMA DecideType ==
  ASSUME TypeOK, NEW p \in Procs, NEW v \in Verdict, Decide(p, v)
  PROVE  pc' \in [Procs -> Labels] /\ frame' \in [Procs -> Frame]
<1>1. pc' \in [Procs -> Labels]
  BY GotoType DEF Decide, Labels
<1>2. [frame[p] EXCEPT !.verdict = v] \in Frame
  BY DEF TypeOK, Frame
<1>3. frame' \in [Procs -> Frame]
  BY <1>2 DEF Decide, TypeOK
<1> QED BY <1>1, <1>3

LEMMA FaultType ==
  ASSUME TypeOK, Fault \/ UNCHANGED faults
  PROVE  faults' \in 0..MaxFaults
BY Constants DEF TypeOK, Fault

\* The steps of an owner's mutation and of a publish.
LEMMA AnnounceType ==
  ASSUME IInv, NEW p \in Procs, Save(p) \/ Announce(p) \/ Deliver(p)
  PROVE  TypeOK'
<1> USE DEF TypeOK
<1>0. TypeOK /\ (job # None => job \in Job)
  BY DEF IInv
<1>1. CASE Save(p)
  <2>1. edits' \in 0..MaxEdits
    BY <1>0, <1>1, Constants DEF Save
  <2> QED BY <1>0, <1>1, <2>1, GotoType DEF Save, Labels, provider
<1>2. CASE Find(p)
  BY <1>0, <1>2, GotoType DEF Find, Labels, store, provider
<1>3. CASE Insert(p)
  <2>1. pc' \in [Procs -> Labels]
    BY <1>0, <1>3, GotoType DEF Insert, Labels
  <2>2. job' \in Job \cup {None} /\ misses' \in Nat
    BY <1>0, <1>3, NewJobType DEF Insert
  <2>3. announced' \in BOOLEAN
    BY <1>0, <1>3 DEF Insert
  <2> QED BY <1>0, <1>3, <2>1, <2>2, <2>3 DEF Insert, provider
<1>4. CASE Reopen(p)
  <2>1. job # None
    BY <1>4 DEF IInv, JobFirst, Reopen, BeforeJob
  <2> QED BY <1>0, <1>4, <2>1, GotoType, ReopenedType DEF Reopen, Labels, provider
<1>5. CASE CreateDelivery(p)
  BY <1>0, <1>5, GotoType DEF CreateDelivery, Labels, provider, DeliveryStates
<1>6. CASE Publish(p)
  <2>1. faults' \in 0..MaxFaults
    BY <1>0, <1>6, FaultType DEF Publish
  <2>2. pc' \in [Procs -> Labels]
    BY <1>0, <1>6, GotoType DEF Publish, Labels
  <2>3. queue' \in Nat
    BY <1>0, <1>6 DEF Publish, provider
  <2>4. keyUsed' \in BOOLEAN
    BY <1>0, <1>6 DEF Publish, provider
  <2> QED BY <1>0, <1>6, <2>1, <2>2, <2>3, <2>4 DEF Publish, store
<1>7. CASE MarkPublished(p) \/ MarkPublishFailed(p)
  BY <1>0, <1>7, GotoType
     DEF MarkPublished, MarkPublishFailed, Published, Labels, provider, DeliveryStates
<1> QED BY <1>1, <1>2, <1>3, <1>4, <1>5, <1>6, <1>7 DEF Announce, Deliver

\* The steps of the callback before its pass, and of the recovery pass.
LEMMA RecoverType ==
  ASSUME IInv, NEW p \in Procs, Consume(p) \/ Recover(p)
  PROVE  TypeOK'
<1> USE DEF TypeOK
<1>0. TypeOK /\ (job # None => job \in Job)
  BY DEF IInv
<1>1. CASE Receive(p)
  BY <1>0, <1>1, GotoType, DropType DEF Receive, Labels, store
<1>2. CASE ClaimJob(p)
  <2>1. job # None
    BY <1>2 DEF IInv, JobFirst, ClaimJob, BeforeJob
  <2>2. gen + 1 \in Nat
    BY <1>0
  <2> QED BY <1>0, <1>2, <2>1, <2>2, GotoType, DropType, ClaimedType DEF ClaimJob, Labels
<1>3. CASE ListDue(p)
  BY <1>0, <1>3, GotoType DEF ListDue, Labels, store, provider
<1>4. CASE Inspect(p)
  BY <1>0, <1>4, GotoType DEF Inspect, Labels, store, provider
<1>5. CASE Abandon(p)
  BY <1>0, <1>5, GotoType DEF Abandon, Labels, provider, DeliveryStates
<1>6. CASE RecoverStale(p)
  BY <1>0, <1>6, GotoType, RecoveredType DEF RecoverStale, Labels, provider
<1>7. CASE ClaimNext(p)
  <2>2. gen + 1 \in Nat
    BY <1>0
  <2> QED BY <1>0, <1>7, <2>2, GotoType, ClaimedType DEF ClaimNext, Labels, provider
<1> QED BY <1>1, <1>2, <1>3, <1>4, <1>5, <1>6, <1>7 DEF Consume, Recover

\* The steps of a pass.
LEMMA ProcessType ==
  ASSUME IInv, NEW p \in Procs, Process(p)
  PROVE  TypeOK'
<1> USE DEF TypeOK
<1>0. TypeOK /\ FrameFilled(p) /\ (pc[p] \notin BeforeJob => job \in Job)
  BY DEF IInv, JobFirst, FramesFilled
<1>1. CASE Load(p)
  <2>1. job \in Job
    BY <1>0, <1>1 DEF Load, BeforeJob
  <2>2. [frame[p] EXCEPT !.job = job] \in Frame
    BY <1>0, <2>1 DEF Frame
  <2>3. CASE job.status = "running" /\ ~EndPass(p)
    BY <1>0, <1>1, <2>2, <2>3, GotoType DEF Load, Labels, store
  <2>4. CASE EndPass(p)
    BY <1>0, <1>1, <2>4, EndPassType DEF Load, store
  <2> QED BY <1>1, <2>3, <2>4 DEF Load
<1>2. CASE ReadRecord(p)
  <2>1. frame[p].job \in Job /\ record \in Records
    BY <1>0, <1>2 DEF ReadRecord, FrameFilled, AfterLoad
  <2> DEFINE v == IF Decision(record) = "embed" THEN None ELSE Skipped(frame[p].job)
  <2>2. v \in Verdict \cup {None}
    BY <2>1, VerdictTypes
  <2> HIDE DEF v
  <2>3. [frame[p] EXCEPT !.record = record, !.verdict = v] \in Frame
    BY <1>0, <2>1, <2>2 DEF Frame
  <2>4. frame' = [frame EXCEPT ![p] = [frame[p] EXCEPT !.record = record, !.verdict = v]]
    BY <1>0, <1>2 DEF ReadRecord, v
  <2>5. pc' \in [Procs -> Labels]
    BY <1>0, <1>2, <2>1, DecisionType, GotoType DEF ReadRecord, Labels
  <2> QED BY <1>0, <1>2, <2>3, <2>4, <2>5 DEF ReadRecord, store, provider
<1>3. CASE Scrub(p)
  <2>1. frame[p].job \in Job
    BY <1>0, <1>3 DEF Scrub, FrameFilled, AfterLoad, AfterRead
  <2>2. FailedPastCap(frame[p].job) \in Verdict
    BY <2>1, VerdictTypes
  <2>3. faults' \in 0..MaxFaults
    BY <1>0, <1>3, FaultType DEF Scrub, Superseded
  <2>4. queue' \in Nat /\ pc' \in [Procs -> Labels] /\ frame' \in [Procs -> Frame]
    BY <1>0, <1>3, <2>2, DecideType, EndPassType, GotoType DEF Scrub, Superseded, Labels
  <2> QED BY <1>0, <1>3, <2>3, <2>4 DEF Scrub, Superseded
<1>4. CASE Lookup(p)
  <2>1. frame[p].job \in Job
    BY <1>0, <1>4 DEF Lookup, FrameFilled, AfterLoad, AfterRead
  <2>2. Completed(frame[p].job) \in Verdict /\ DeadAgain(frame[p].job) \in Verdict
    BY <2>1, VerdictTypes
  <2>4. pc' \in [Procs -> Labels] /\ frame' \in [Procs -> Frame]
    BY <1>0, <1>4, <2>2, DecideType, GotoType DEF Lookup, Labels
  <2> QED BY <1>0, <1>4, <2>4 DEF Lookup, store, provider
<1>5. CASE Refresh(p)
  <2>1. frame[p].job \in Job /\ frame[p].record \in Record
    BY <1>0, <1>5, Constants DEF Refresh, FrameFilled, AfterLoad, AfterRead
  <2>2. Completed(frame[p].job) \in Verdict /\ Failed(frame[p].job, MaxAttempts, None) \in Verdict
    BY <2>1, VerdictTypes, Constants
  <2>3. faults' \in 0..MaxFaults
    BY <1>0, <1>5, FaultType DEF Refresh, Superseded
  <2>4. queue' \in Nat /\ pc' \in [Procs -> Labels] /\ frame' \in [Procs -> Frame]
    BY <1>0, <1>5, <2>2, DecideType, EndPassType DEF Refresh, Superseded
  <2>5. emb' \in Embedding \cup {None}
    BY <1>0, <1>5, <2>1 DEF Refresh, Superseded, Embedding, Record
  <2> QED BY <1>0, <1>5, <2>3, <2>4, <2>5 DEF Refresh
<1>6. CASE Embed(p)
  <2>1. frame[p].job \in Job /\ frame[p].record \in Record
    BY <1>0, <1>6, Constants DEF Embed, FrameFilled, AfterLoad, AfterRead
  <2>2. /\ Deferred(frame[p].job) \in Verdict
        /\ Failed(frame[p].job, MaxAttempts, frame[p].record.text) \in Verdict
        /\ \A cap \in {MaxAttempts, MaxTransientAttempts} : Failed(frame[p].job, cap, None) \in Verdict
    BY <2>1, VerdictTypes, Constants DEF Record
  <2>3. faults' \in 0..MaxFaults
    BY <1>0, <1>6, FaultType DEF Embed
  <2>4. pc' \in [Procs -> Labels] /\ frame' \in [Procs -> Frame]
    BY <1>0, <1>6, <2>2, DecideType, GotoType DEF Embed, Labels
  <2> QED BY <1>0, <1>6, <2>3, <2>4 DEF Embed, store, provider
<1>7. CASE Upsert(p)
  <2>1. frame[p].job \in Job /\ frame[p].record \in Record
    BY <1>0, <1>7, Constants DEF Upsert, FrameFilled, AfterLoad, AfterRead
  <2>2. Completed(frame[p].job) \in Verdict
    BY <2>1, VerdictTypes
  <2>3. faults' \in 0..MaxFaults
    BY <1>0, <1>7, FaultType DEF Upsert, Superseded
  <2>4. queue' \in Nat /\ pc' \in [Procs -> Labels] /\ frame' \in [Procs -> Frame]
    BY <1>0, <1>7, <2>2, DecideType, EndPassType DEF Upsert, Superseded
  <2>5. emb' \in Embedding \cup {None}
    BY <1>0, <1>7, <2>1 DEF Upsert, Superseded, Embedding, Record
  <2> QED BY <1>0, <1>7, <2>3, <2>4, <2>5 DEF Upsert
<1>8. CASE Settle(p)
  <2>1. job \in Job /\ frame[p].verdict \in Verdict
    BY <1>0, <1>8 DEF Settle, FrameFilled, BeforeJob
  <2>2. job' \in Job
    BY <1>8, <2>1, SettledType DEF Settle
  <2>3. misses' \in Nat /\ queue' \in Nat
    BY <1>0, <1>8, DropType DEF Settle
  <2>4. pc' \in [Procs -> Labels] /\ frame' \in [Procs -> Frame]
    BY <1>0, <1>8, AfterType, ForgetType DEF Settle
  <2> QED BY <1>0, <1>8, <2>2, <2>3, <2>4 DEF Settle
<1> QED BY <1>1, <1>2, <1>3, <1>4, <1>5, <1>6, <1>7, <1>8 DEF Process

\* Time, the provider and faults.
Environment == BackoffEnds \/ LeaseLapses \/ SuppressionEnds \/ LoseMessage

LEMMA EnvironmentType ==
  ASSUME IInv, Environment \/ \E p \in Procs : Crash(p)
  PROVE  TypeOK'
<1> USE DEF TypeOK
<1>0. TypeOK /\ (job # None => job \in Job)
  BY DEF IInv
<1>1. CASE BackoffEnds
  BY <1>0, <1>1 DEF BackoffEnds, Job, provider
<1>2. CASE LeaseLapses
  <2>1. faults' \in 0..MaxFaults
    BY <1>0, <1>2, FaultType DEF LeaseLapses
  <2>2. job' \in Job
    BY <1>0, <1>2 DEF LeaseLapses, Job
  <2> QED BY <1>0, <1>2, <2>1, <2>2 DEF LeaseLapses, provider
<1>3. CASE SuppressionEnds
  BY <1>0, <1>3 DEF SuppressionEnds, store
<1>4. CASE LoseMessage
  BY <1>0, <1>4, FaultType DEF LoseMessage, store
<1>5. ASSUME NEW p \in Procs, Crash(p) PROVE TypeOK'
  <2>1. faults' \in 0..MaxFaults
    BY <1>0, <1>5, FaultType DEF Crash
  <2> QED BY <1>0, <1>5, <2>1, ForgetType DEF Crash, Labels, store, provider
<1> QED BY <1>1, <1>2, <1>3, <1>4, <1>5 DEF Environment

-----------------------------------------------------------------------------
(* Steps that leave the rows alone: only the process that runs matters.    *)

LEMMA OthersFilled ==
  ASSUME NEW q \in Procs, FrameFilled(q), pc'[q] = pc[q], frame'[q] = frame[q],
         gen \in Nat, gen' \in Nat, gen <= gen'
  PROVE  FrameFilled(q)'
<1>1. frame[q].job.claim \in Nat /\ frame[q].job.claim <= gen => frame[q].job.claim <= gen'
  OBVIOUS
<1> QED BY <1>1 DEF FrameFilled

LEMMA RowsStand ==
  ASSUME IInv, TypeOK', NEW p \in Procs,
         UNCHANGED <<record, announced, job, emb, gen>>,
         \A q \in Procs \ {p} : pc'[q] = pc[q] /\ frame'[q] = frame[q],
         job = None => delivery' = "none" /\ pc'[p] \in BeforeJob,
         FrameFilled(p)',
         job # None => PassAgrees(p)'
  PROVE  IInv'
<1>1. JobFirst'
  BY DEF IInv, JobFirst
<1>2. ClaimsNumbered'
  BY DEF IInv, ClaimsNumbered
<1>3. ASSUME NEW q \in Procs PROVE FrameFilled(q)'
  BY OthersFilled DEF IInv, TypeOK, FramesFilled
<1>4. ASSUME NEW q \in Procs, job # None PROVE PassAgrees(q)'
  <2>1. CASE q = p
    BY <1>4, <2>1
  <2>2. CASE q # p
    BY <1>4, <2>2 DEF IInv, PassAgrees, Current, Holds
  <2> QED BY <2>1, <2>2
<1>5. IndexMatchesRecord'
  BY DEF IInv, IndexMatchesRecord, Fresh
<1> QED BY <1>1, <1>2, <1>3, <1>4, <1>5 DEF IInv, FramesFilled

\* The same of a step to a label that comes before a record is read.
LEMMA PlainMove ==
  ASSUME IInv, TypeOK', NEW p \in Procs, NEW label \in Labels,
         (Goto(p, label) /\ UNCHANGED frame) \/ Forget(p, label),
         UNCHANGED <<record, announced, job, emb, gen>>,
         label \notin AfterLoad,
         job = None => delivery' = "none" /\ label \in BeforeJob
  PROVE  IInv'
<1>1. pc' = [pc EXCEPT ![p] = label] /\ pc \in [Procs -> Labels] /\ frame \in [Procs -> Frame]
  BY DEF Goto, Forget, IInv, TypeOK
<1>2. \A q \in Procs \ {p} : pc'[q] = pc[q] /\ frame'[q] = frame[q]
  BY <1>1 DEF Forget
<1>3. pc'[p] = label
  BY <1>1
<1>4. FrameFilled(p)' /\ PassAgrees(p)'
  BY <1>3 DEF FrameFilled, PassAgrees, AfterLoad, AfterRead
<1> QED BY <1>2, <1>3, <1>4, RowsStand

LEMMA PlainSteps ==
  ASSUME IInv, TypeOK', NEW p \in Procs,
         \/ Find(p) \/ CreateDelivery(p) \/ Deliver(p) \/ ListDue(p) \/ Inspect(p) \/ Abandon(p)
         \/ Crash(p)
  PROVE  IInv'
<1> USE DEF Labels, AfterLoad, AfterRead, BeforeJob
<1>0. job = None => delivery = "none" /\ pc[p] \in BeforeJob
  BY DEF IInv, JobFirst
<1>1. CASE Find(p)
  BY <1>0, <1>1, PlainMove DEF Find, store
<1>2. CASE CreateDelivery(p)
  BY <1>0, <1>2, PlainMove DEF CreateDelivery
<1>3. CASE Publish(p)
  BY <1>0, <1>3, PlainMove DEF Publish, store
<1>4. CASE MarkPublished(p) \/ MarkPublishFailed(p)
  BY <1>0, <1>4, PlainMove DEF MarkPublished, MarkPublishFailed, Published
<1>5. CASE ListDue(p)
  BY <1>0, <1>5, PlainMove DEF ListDue, store
<1>6. CASE Inspect(p)
  BY <1>0, <1>6, PlainMove DEF Inspect, store
<1>7. CASE Abandon(p)
  BY <1>0, <1>7, PlainMove DEF Abandon
<1>8. CASE Crash(p)
  BY <1>0, <1>8, PlainMove DEF Crash, store
<1> QED BY <1>1, <1>2, <1>3, <1>4, <1>5, <1>6, <1>7, <1>8 DEF Deliver

\* A pass that ends leaves the rows as they are.
LEMMA PassEnds ==
  ASSUME IInv, TypeOK', NEW p \in Procs, EndPass(p), pc[p] \notin BeforeJob,
         UNCHANGED <<record, announced, job, emb, delivery, gen>>
  PROVE  IInv'
<1>1. PICK label \in After(p) : Forget(p, label)
  BY DEF EndPass
<1>2. label \in BeforeJob /\ label \in Labels /\ label \notin AfterLoad
  BY DEF After, BeforeJob, Labels, AfterLoad, AfterRead
<1>3. job = None => delivery' = "none"
  BY DEF IInv, JobFirst
<1> QED BY <1>1, <1>2, <1>3, PlainMove

\* A process decides on a verdict.
LEMMA DecideMove ==
  ASSUME IInv, TypeOK', NEW p \in Procs, NEW v \in Verdict, Decide(p, v),
         pc[p] \in AfterRead, job # None,
         UNCHANGED <<record, announced, job, emb, gen>>,
         Current(p) /\ v.status \in {"completed", "skipped"} => Agrees(record, emb)
  PROVE  IInv'
<1> USE DEF AfterRead, AfterLoad
<1>1. /\ pc' = [pc EXCEPT ![p] = "settle"] /\ pc \in [Procs -> Labels]
      /\ frame' = [frame EXCEPT ![p].verdict = v] /\ frame[p] \in Frame
      /\ frame \in [Procs -> Frame]
  BY DEF Decide, Goto, IInv, TypeOK
<1>2. \A q \in Procs \ {p} : pc'[q] = pc[q] /\ frame'[q] = frame[q]
  BY <1>1
<1>3. /\ pc'[p] = "settle" /\ frame'[p].verdict = v
      /\ frame'[p].job = frame[p].job /\ frame'[p].record = frame[p].record
  BY <1>1 DEF Frame
<1>4. FrameFilled(p)'
  BY <1>3 DEF FrameFilled, IInv, FramesFilled
<1>5. PassAgrees(p)'
  BY <1>3 DEF PassAgrees, Current, Holds, IInv
<1> QED BY <1>2, <1>4, <1>5, RowsStand

\* A process moves on with the frame it has.
LEMMA PassMove ==
  ASSUME IInv, TypeOK', NEW p \in Procs, NEW label \in {"refresh", "embed", "upsert"},
         Goto(p, label), UNCHANGED frame,
         pc[p] \in {"lookup", "embed"}, job # None,
         UNCHANGED <<record, announced, job, emb, gen>>,
         label = "refresh" => emb # None /\ emb.text = frame[p].record.text
  PROVE  IInv'
<1> USE DEF AfterRead, AfterLoad
<1>1. /\ pc' = [pc EXCEPT ![p] = label] /\ pc \in [Procs -> Labels]
  BY DEF Goto, IInv, TypeOK
<1>2. \A q \in Procs \ {p} : pc'[q] = pc[q] /\ frame'[q] = frame[q]
  BY <1>1
<1>3. pc'[p] = label /\ frame'[p] = frame[p]
  BY <1>1
<1>4. FrameFilled(p)'
  BY <1>3 DEF FrameFilled, IInv, FramesFilled
<1>5. PassAgrees(p)'
  BY <1>3 DEF PassAgrees, Current, Holds, IInv
<1> QED BY <1>2, <1>4, <1>5, RowsStand

LEMMA JobRead ==
  ASSUME IInv, TypeOK', NEW p \in Procs, Load(p)
  PROVE  IInv'
<1> USE DEF AfterRead, AfterLoad, BeforeJob
<1>1. pc[p] = "load" /\ job # None /\ UNCHANGED <<record, announced, job, emb, delivery, gen>>
  BY DEF Load, store, IInv, JobFirst
<1>2. CASE EndPass(p)
  BY <1>1, <1>2, PassEnds
<1>3. CASE job.status = "running" /\ ~EndPass(p)
  <2>1. /\ frame' = [frame EXCEPT ![p].job = job] /\ pc' = [pc EXCEPT ![p] = "read"]
        /\ pc \in [Procs -> Labels] /\ frame \in [Procs -> Frame] /\ frame[p] \in Frame
    BY <1>3 DEF Load, Goto, IInv, TypeOK
  <2>2. \A q \in Procs \ {p} : pc'[q] = pc[q] /\ frame'[q] = frame[q]
    BY <2>1
  <2>3. pc'[p] = "read" /\ frame'[p].job = job
    BY <2>1 DEF Frame
  <2>4. job \in Job /\ job.claim \in Nat /\ job.claim <= gen
    BY <1>1, <1>3, Constants DEF IInv, TypeOK, ClaimsNumbered
  <2>5. FrameFilled(p)' /\ PassAgrees(p)'
    BY <1>1, <2>3, <2>4 DEF FrameFilled, PassAgrees
  <2> QED BY <1>1, <2>2, <2>5, RowsStand
<1> QED BY <1>2, <1>3 DEF Load

LEMMA RecordRead ==
  ASSUME IInv, TypeOK', NEW p \in Procs, ReadRecord(p)
  PROVE  IInv'
<1> USE DEF AfterRead, AfterLoad, BeforeJob
<1>1. /\ pc[p] = "read" /\ job # None /\ record \in Records /\ frame[p].job \in Job
      /\ UNCHANGED <<record, announced, job, emb, delivery, gen>>
  BY DEF ReadRecord, store, IInv, JobFirst, TypeOK, FramesFilled, FrameFilled
<1>2. /\ pc \in [Procs -> Labels] /\ frame \in [Procs -> Frame] /\ frame[p] \in Frame
  BY DEF IInv, TypeOK
<1> DEFINE v == IF Decision(record) = "embed" THEN None ELSE Skipped(frame[p].job)
           label == CASE Decision(record) = "embed" -> "lookup"
                      [] Decision(record) = "scrub" -> "scrub"
                      [] Decision(record) = "skip" -> "settle"
<1>3. frame' = [frame EXCEPT ![p] = [frame[p] EXCEPT !.record = record, !.verdict = v]]
  BY <1>2 DEF ReadRecord
<1>4. pc' = [pc EXCEPT ![p] = label]
  BY DEF ReadRecord, Goto
<1>5. \A q \in Procs \ {p} : pc'[q] = pc[q] /\ frame'[q] = frame[q]
  BY <1>2, <1>3, <1>4
<1>6. /\ pc'[p] = label /\ frame'[p].record = record /\ frame'[p].verdict = v
      /\ frame'[p].job = frame[p].job
  <2> HIDE DEF v, label
  <2> QED BY <1>2, <1>3, <1>4 DEF Frame
<1>7. Skipped(frame[p].job) \in Verdict
  BY <1>1, VerdictTypes
<1>8. Decision(record) \in {"skip", "scrub", "embed"}
  BY <1>1, DecisionType
<1>9. FrameFilled(p)'
  BY <1>1, <1>6, <1>7, <1>8 DEF FrameFilled, IInv, FramesFilled
<1>10. PassAgrees(p)'
  BY <1>1, <1>6, <1>8 DEF PassAgrees, Agrees
<1> QED BY <1>1, <1>5, <1>9, <1>10, RowsStand

LEMMA LookupSteps ==
  ASSUME IInv, TypeOK', NEW p \in Procs, Lookup(p) \/ Embed(p)
  PROVE  IInv'
<1> USE DEF AfterRead, AfterLoad, BeforeJob
<1>1. /\ pc[p] \in {"lookup", "embed"} /\ job # None /\ frame[p].job \in Job
      /\ frame[p].record \in Record /\ Decision(frame[p].record) = "embed"
      /\ UNCHANGED <<record, announced, job, emb, delivery, gen>>
  BY Constants DEF Lookup, Embed, store, IInv, JobFirst, TypeOK, FramesFilled, FrameFilled
<1>2. Current(p) => frame[p].record = record
  BY <1>1 DEF IInv, PassAgrees
<1>3. CASE Lookup(p)
  <2> DEFINE found == emb # None /\ emb.text = frame[p].record.text
  <2>1. CASE found /\ emb.sensitivity = frame[p].record.sensitivity
    <3>1. Decide(p, Completed(frame[p].job))
      BY <1>3, <2>1 DEF Lookup
    <3>2. emb = [text |-> frame[p].record.text, sensitivity |-> frame[p].record.sensitivity]
      BY <2>1 DEF IInv, TypeOK, Embedding
    <3>3. Current(p) => Agrees(record, emb)
      BY <1>1, <1>2, <3>2 DEF Agrees
    <3> QED BY <1>1, <3>1, <3>3, DecideMove, VerdictTypes
  <2>2. CASE found /\ emb.sensitivity # frame[p].record.sensitivity
    BY <1>1, <1>3, <2>2, PassMove DEF Lookup
  <2>3. CASE ~found /\ frame[p].job.deadText = frame[p].record.text
    BY <1>1, <1>3, <2>3, DecideMove, VerdictTypes, VerdictClaims DEF Lookup
  <2>4. CASE ~found /\ frame[p].job.deadText # frame[p].record.text
    BY <1>1, <1>3, <2>4, PassMove DEF Lookup
  <2> QED BY <2>1, <2>2, <2>3, <2>4
<1>4. CASE Embed(p)
  <2>1. CASE Goto(p, "upsert") /\ UNCHANGED frame
    BY <1>1, <2>1, PassMove
  <2>2. ASSUME NEW cap \in Nat, NEW t \in Texts \cup {None}, Decide(p, Failed(frame[p].job, cap, t))
        PROVE  IInv'
    BY <1>1, <2>2, DecideMove, VerdictTypes, VerdictClaims
  <2>3. CASE Decide(p, Deferred(frame[p].job))
    BY <1>1, <2>3, DecideMove, VerdictTypes, VerdictClaims
  <2>4. frame[p].record.text \in Texts
    BY <1>1 DEF Record
  <2> QED BY <1>4, <2>1, <2>2, <2>3, <2>4, Constants DEF Embed
<1> QED BY <1>3, <1>4

-----------------------------------------------------------------------------
(* Steps that write the embedding row.                                     *)

\* The write is fenced by the claim, so the job is running, and every pass
\* that shares the claim has read the same record.
LEMMA IndexWritten ==
  ASSUME IInv, TypeOK', NEW p \in Procs, pc[p] \in AfterRead, job # None, Holds(p),
         UNCHANGED <<record, announced, job, delivery, gen>>,
         \A q \in Procs \ {p} : pc'[q] = pc[q] /\ frame'[q] = frame[q],
         pc'[p] = "settle", frame'[p].job = frame[p].job,
         frame'[p].record = frame[p].record, frame'[p].verdict \in Verdict,
         Current(p) => Agrees(record, emb')
  PROVE  IInv'
<1> USE DEF AfterRead, AfterLoad
<1>1. JobFirst' /\ ClaimsNumbered'
  BY DEF IInv, JobFirst, ClaimsNumbered
<1>2. FrameFilled(p)'
  BY DEF FrameFilled, IInv, FramesFilled
<1>3. ASSUME NEW q \in Procs PROVE FrameFilled(q)'
  BY <1>2, OthersFilled DEF IInv, TypeOK, FramesFilled
<1>4. PassAgrees(p)'
  BY DEF PassAgrees, Current, Holds, IInv
<1>5. ASSUME NEW q \in Procs \ {p} PROVE PassAgrees(q)'
  <2>1. CASE pc[q] \in AfterRead /\ Current(q)
    <3>1. Current(p)
      BY <2>1 DEF Current
    <3>2. Agrees(record, emb')
      BY <3>1
    <3>3. frame[q].record = record
      BY <2>1 DEF IInv, PassAgrees
    <3>4. pc[q] = "refresh" => Decision(record) = "embed"
      BY <3>3 DEF IInv, FramesFilled, FrameFilled
    <3>5. pc[q] = "refresh" /\ emb' # None => emb'.text = record.text
      BY <3>2, <3>4 DEF Agrees
    <3> QED BY <3>2, <3>3, <3>5 DEF PassAgrees
  <2>2. CASE ~(pc[q] \in AfterRead /\ Current(q))
    BY <2>2 DEF PassAgrees, Current, Holds
  <2> QED BY <2>1, <2>2
<1>6. IndexMatchesRecord'
  BY DEF IndexMatchesRecord, Fresh, Holds, ActiveClaim
<1> QED BY <1>1, <1>3, <1>4, <1>5, <1>6 DEF IInv, FramesFilled

LEMMA IndexSteps ==
  ASSUME IInv, TypeOK', NEW p \in Procs, Scrub(p) \/ Refresh(p) \/ Upsert(p)
  PROVE  IInv'
<1> USE DEF AfterRead, AfterLoad, BeforeJob
<1>1. /\ pc[p] \in {"scrub", "refresh", "upsert"} /\ job # None /\ frame[p].job \in Job
      /\ frame[p].record \in Record
      /\ UNCHANGED <<record, announced, job, delivery, gen>>
  BY Constants DEF Scrub, Refresh, Upsert, IInv, JobFirst, TypeOK, FramesFilled, FrameFilled
<1>2. Current(p) => frame[p].record = record
  BY <1>1 DEF IInv, PassAgrees
<1>3. CASE EndPass(p) /\ UNCHANGED emb
  BY <1>1, <1>3, PassEnds
<1>4. pc \in [Procs -> Labels] /\ frame \in [Procs -> Frame] /\ frame[p] \in Frame
  BY DEF IInv, TypeOK
<1>5. ASSUME NEW v \in Verdict, Decide(p, v), Holds(p), Current(p) => Agrees(record, emb')
      PROVE  IInv'
  <2>1. /\ pc'[p] = "settle" /\ frame'[p].job = frame[p].job
        /\ frame'[p].record = frame[p].record /\ frame'[p].verdict = v
        /\ \A q \in Procs \ {p} : pc'[q] = pc[q] /\ frame'[q] = frame[q]
    BY <1>4, <1>5 DEF Decide, Goto, Frame
  <2> QED BY <1>1, <1>5, <2>1, IndexWritten
<1>6. CASE Scrub(p)
  <2>1. /\ frame[p].verdict = Skipped(frame[p].job) /\ Decision(frame[p].record) = "scrub"
    BY <1>6 DEF Scrub, IInv, FramesFilled, FrameFilled
  <2>2. CASE Holds(p) /\ emb' = None /\ Goto(p, "settle") /\ UNCHANGED frame
    <3>1. /\ pc'[p] = "settle" /\ \A q \in Procs \ {p} : pc'[q] = pc[q] /\ frame'[q] = frame[q]
      BY <1>4, <2>2 DEF Goto
    <3>2. Current(p) => Agrees(record, emb')
      BY <1>2, <2>1, <2>2 DEF Agrees
    <3> QED BY <1>1, <2>1, <2>2, <3>1, <3>2, IndexWritten, VerdictTypes
  <2>3. CASE Decide(p, FailedPastCap(frame[p].job)) /\ UNCHANGED emb
    BY <1>1, <2>3, DecideMove, VerdictTypes, VerdictClaims
  <2> QED BY <1>3, <1>6, <2>2, <2>3 DEF Scrub, Superseded
<1>7. CASE Refresh(p)
  <2>1. Decision(frame[p].record) = "embed"
    BY <1>7 DEF Refresh, IInv, FramesFilled, FrameFilled
  <2>2. CASE /\ Holds(p) /\ emb # None /\ Decide(p, Completed(frame[p].job))
             /\ emb' = [emb EXCEPT !.sensitivity = frame[p].record.sensitivity]
    <3>1. Current(p) => emb.text = record.text
      BY <1>1, <1>7, <2>2 DEF Refresh, IInv, PassAgrees
    <3>2. emb \in Embedding
      BY <2>2 DEF IInv, TypeOK
    <3>3. Current(p) => Agrees(record, emb')
      BY <1>2, <2>1, <2>2, <3>1, <3>2 DEF Agrees, Embedding
    <3> QED BY <1>1, <1>5, <2>2, <3>3, VerdictTypes
  <2>3. CASE Decide(p, Failed(frame[p].job, MaxAttempts, None)) /\ UNCHANGED emb
    BY <1>1, <2>3, DecideMove, VerdictTypes, VerdictClaims, Constants
  <2> QED BY <1>3, <1>7, <2>2, <2>3 DEF Refresh, Superseded
<1>8. CASE Upsert(p)
  <2>1. Decision(frame[p].record) = "embed"
    BY <1>8 DEF Upsert, IInv, FramesFilled, FrameFilled
  <2>2. CASE /\ Holds(p) /\ Decide(p, Completed(frame[p].job))
             /\ emb' = [text |-> frame[p].record.text, sensitivity |-> frame[p].record.sensitivity]
    <3>1. Current(p) => Agrees(record, emb')
      BY <1>2, <2>1, <2>2 DEF Agrees
    <3> QED BY <1>1, <1>5, <2>2, <3>1, VerdictTypes
  <2> QED BY <1>3, <1>8, <2>2 DEF Upsert, Superseded
<1> QED BY <1>6, <1>7, <1>8

-----------------------------------------------------------------------------
(* Steps that write the job's row.                                         *)

LEMMA JobMoves ==
  ASSUME IInv, TypeOK', JobFirst', ClaimsNumbered', FramesFilled', IndexMatchesRecord',
         \A q \in Procs : pc'[q] \in AfterRead /\ Current(q)' =>
           /\ job # None /\ Current(q) /\ pc'[q] = pc[q] /\ frame'[q] = frame[q]
           /\ record' = record /\ emb' = emb
  PROVE  IInv'
<1>1. ASSUME NEW q \in Procs PROVE PassAgrees(q)'
  BY DEF PassAgrees, IInv
<1> QED BY <1>1 DEF IInv

\* What of IInv follows of a process that moves to a label before its read.
LEMMA OneMoves ==
  ASSUME IInv, TypeOK', NEW p \in Procs, NEW label \in Labels \ AfterLoad,
         gen' \in Nat, gen <= gen',
         (Goto(p, label) /\ UNCHANGED frame) \/ Forget(p, label)
  PROVE  /\ FramesFilled'
         /\ \A q \in Procs : pc'[q] \in AfterRead =>
              /\ pc'[q] = pc[q] /\ frame'[q] = frame[q]
              /\ frame[q].job.claim \in Nat /\ frame[q].job.claim <= gen
<1>1. /\ pc' = [pc EXCEPT ![p] = label] /\ pc \in [Procs -> Labels]
      /\ frame \in [Procs -> Frame] /\ gen \in Nat
  BY DEF Goto, Forget, IInv, TypeOK
<1>2. \A q \in Procs \ {p} : pc'[q] = pc[q] /\ frame'[q] = frame[q]
  BY <1>1 DEF Forget
<1>3. pc'[p] = label
  BY <1>1
<1>4. FrameFilled(p)'
  BY <1>3 DEF FrameFilled, AfterLoad, AfterRead
<1>5. ASSUME NEW q \in Procs PROVE FrameFilled(q)'
  BY <1>1, <1>2, <1>4, <1>5, OthersFilled DEF IInv, FramesFilled
<1>6. ASSUME NEW q \in Procs, pc'[q] \in AfterRead
      PROVE  /\ pc'[q] = pc[q] /\ frame'[q] = frame[q]
             /\ frame[q].job.claim \in Nat /\ frame[q].job.claim <= gen
  BY <1>2, <1>3, <1>6 DEF IInv, FramesFilled, FrameFilled, AfterLoad
<1> QED BY <1>5, <1>6 DEF FramesFilled

LEMMA AnnounceSteps ==
  ASSUME IInv, TypeOK', NEW p \in Procs, Save(p) \/ Insert(p) \/ Reopen(p)
  PROVE  IInv'
<1> USE DEF AfterRead, AfterLoad, BeforeJob, Labels
<1>0. TypeOK /\ JobFirst /\ ClaimsNumbered /\ (job # None => job \in Job) /\ gen \in Nat
  BY DEF IInv, TypeOK
<1>1. CASE Save(p)
  <2>1. FramesFilled' /\ UNCHANGED <<job, gen, delivery>> /\ pc' = [pc EXCEPT ![p] = "find"]
    <3>1. Goto(p, "find") /\ UNCHANGED <<job, gen, delivery, frame>>
      BY <1>1 DEF Save, provider
    <3>2. "find" \in Labels \ AfterLoad /\ gen' \in Nat /\ gen <= gen'
      BY <1>0, <3>1
    <3>3. FramesFilled'
      BY <3>1, <3>2, OneMoves
    <3> QED BY <3>1, <3>3 DEF Goto
  <2>2. JobFirst' /\ ClaimsNumbered'
    BY <1>0, <2>1 DEF JobFirst, ClaimsNumbered, TypeOK
  <2>3. IndexMatchesRecord' /\ \A q \in Procs : ~Current(q)'
    BY <1>1 DEF Save, IndexMatchesRecord, Current
  <2> QED BY <2>1, <2>2, <2>3, JobMoves
<1>2. CASE Insert(p) /\ job = None
  <2>1. FramesFilled' /\ job' = NewJob /\ UNCHANGED gen
    BY <1>0, <1>2, OneMoves DEF Insert
  <2>2. JobFirst' /\ ClaimsNumbered' /\ IndexMatchesRecord' /\ \A q \in Procs : ~Current(q)'
    BY <2>1, NewJobType, Constants
       DEF NewJob, JobFirst, ClaimsNumbered, IndexMatchesRecord, Fresh, Current, Holds, ActiveClaim
  <2> QED BY <2>1, <2>2, JobMoves
<1>3. CASE Insert(p) /\ job # None
  BY <1>3, PlainMove DEF Insert
<1>4. CASE Reopen(p)
  <2>1. job \in Job
    BY <1>0, <1>4 DEF Reopen, JobFirst
  <2>2. FramesFilled' /\ job' = Reopened(job) /\ UNCHANGED gen
    BY <1>0, <1>4, OneMoves DEF Reopen
  <2>3. job' # None /\ JobFirst'
    BY <2>1, <2>2, ReopenedType, Constants DEF JobFirst
  <2>4. ClaimsNumbered'
    BY <1>0, <2>1, <2>2, ReopenedType, Constants DEF ClaimsNumbered
  <2>5. IndexMatchesRecord' /\ \A q \in Procs : ~Current(q)'
    BY <2>1, <2>2, ReopenedType DEF IndexMatchesRecord, Fresh, Current, Holds, ActiveClaim
  <2> QED BY <2>2, <2>3, <2>4, <2>5, JobMoves
<1> QED BY <1>1, <1>2, <1>3, <1>4

\* A claim's generation is new, so it takes every older pass's claim away.
LEMMA ClaimSteps ==
  ASSUME IInv, TypeOK', NEW p \in Procs, ClaimJob(p) \/ ClaimNext(p)
  PROVE  IInv'
<1> USE DEF AfterRead, AfterLoad, BeforeJob, Labels
<1>0. JobFirst /\ ClaimsNumbered /\ (job # None => job \in Job) /\ gen \in Nat
  BY DEF IInv, TypeOK
<1>1. CASE /\ job # None /\ job' = Claimed(job, gen + 1) /\ gen' = gen + 1 /\ UNCHANGED frame
           /\ Goto(p, "load")
  <2>1. job \in Job /\ gen + 1 \in Nat
    BY <1>0, <1>1
  <2>2. job' \in Job /\ job'.status = "running" /\ job'.claim = gen + 1 /\ job' # None
    BY <1>1, <2>1, ClaimedType, Constants
  <2>3. /\ FramesFilled'
        /\ \A q \in Procs : pc'[q] \in AfterRead =>
              frame'[q] = frame[q] /\ frame[q].job.claim \in Nat /\ frame[q].job.claim <= gen
    BY <1>0, <1>1, <2>1, OneMoves
  <2>4. JobFirst' /\ ClaimsNumbered' /\ IndexMatchesRecord'
    BY <1>0, <1>1, <2>2 DEF JobFirst, ClaimsNumbered, IndexMatchesRecord, Fresh
  <2>5. \A q \in Procs : pc'[q] \in AfterRead => ~Current(q)'
    BY <1>0, <2>2, <2>3 DEF Current, Holds, ActiveClaim
  <2> QED BY <2>3, <2>4, <2>5, JobMoves
<1>2. CASE /\ Goto(p, "idle") /\ UNCHANGED <<record, announced, job, emb, delivery, gen, frame>>
  BY <1>0, <1>2, PlainMove DEF JobFirst
<1> QED BY <1>0, <1>1, <1>2 DEF ClaimJob, ClaimNext, JobFirst

LEMMA SettleStep ==
  ASSUME IInv, TypeOK', NEW p \in Procs, Settle(p)
  PROVE  IInv'
<1> USE DEF AfterRead, AfterLoad, BeforeJob, Labels
<1>0. JobFirst /\ ClaimsNumbered /\ (job # None => job \in Job) /\ gen \in Nat
  BY DEF IInv, TypeOK
<1>1. /\ pc[p] = "settle" /\ job \in Job /\ frame[p].verdict \in Verdict
      /\ UNCHANGED <<record, announced, emb, delivery, gen>>
  BY <1>0 DEF Settle, JobFirst, IInv, FramesFilled, FrameFilled
<1>2. PICK label \in After(p) : Forget(p, label)
  BY DEF Settle
<1>3. label \in BeforeJob /\ label \in Labels \ AfterLoad
  BY DEF After
<1>4. CASE ~Holds(p)
  BY <1>0, <1>1, <1>2, <1>3, <1>4, PlainMove DEF Settle, JobFirst
<1>5. CASE Holds(p)
  <2>1. job' = Settled(job, frame[p].verdict)
    BY <1>5 DEF Settle
  <2>2. /\ job' \in Job /\ job'.status # "running" /\ job' # None
        /\ job'.claim \in {job.claim, None}
        /\ job'.status \in {"completed", "skipped"} =>
             ~job.rerun /\ frame[p].verdict.status = job'.status
    BY <1>1, <2>1, SettledType, Constants
  <2>3. FramesFilled'
    BY <1>0, <1>1, <1>2, <1>3, OneMoves
  <2>4. JobFirst' /\ ClaimsNumbered'
    BY <1>0, <1>1, <2>2 DEF JobFirst, ClaimsNumbered
  <2>5. IndexMatchesRecord'
    <3>1. SUFFICES ASSUME announced, job'.status \in {"completed", "skipped"}
                   PROVE  Agrees(record, emb)
      BY <1>1, <2>2 DEF IndexMatchesRecord, Fresh, Agrees
    <3>2. Current(p)
      BY <1>5, <2>2, <3>1 DEF Current
    <3> QED BY <1>1, Constants, <2>2, <3>1, <3>2 DEF IInv, PassAgrees
  <2>6. \A q \in Procs : ~Current(q)'
    BY <2>2 DEF Current, Holds, ActiveClaim
  <2> QED BY <2>3, <2>4, <2>5, <2>6, JobMoves
<1> QED BY <1>4, <1>5

LEMMA RecoverStaleStep ==
  ASSUME IInv, TypeOK', NEW p \in Procs, RecoverStale(p)
  PROVE  IInv'
<1> USE DEF AfterRead, AfterLoad, BeforeJob, Labels
<1>0. JobFirst /\ (job # None => job \in Job) /\ gen \in Nat
  BY DEF IInv, TypeOK
<1>1. /\ Goto(p, "claimNext") /\ UNCHANGED <<record, announced, emb, delivery, gen, frame>>
  BY DEF RecoverStale, provider
<1>2. CASE job' = job
  BY <1>0, <1>1, <1>2, PlainMove DEF JobFirst
<1>3. CASE job # None /\ job' = Recovered(job)
  <2>1. job' \in Job /\ job'.status = "pending" /\ job'.claim = None /\ job' # None
    BY <1>0, <1>3, RecoveredType, Constants
  <2>2. FramesFilled'
    BY <1>0, <1>1, OneMoves
  <2>3. JobFirst' /\ ClaimsNumbered' /\ IndexMatchesRecord' /\ \A q \in Procs : ~Current(q)'
    BY <2>1 DEF JobFirst, ClaimsNumbered, IndexMatchesRecord, Fresh, Current, Holds, ActiveClaim
  <2> QED BY <2>2, <2>3, JobMoves
<1> QED BY <1>2, <1>3 DEF RecoverStale

\* No process moves, and the job keeps its status, its claim and its marker.
LEMMA StandStill ==
  ASSUME IInv, TypeOK', UNCHANGED <<record, announced, emb, delivery, gen, pc, frame>>,
         \/ job' = job
         \/ /\ job \in Job /\ job' \in Job /\ job'.status = job.status
            /\ job'.claim = job.claim /\ job'.rerun = job.rerun
  PROVE  IInv'
<1>1. JobFirst' /\ ClaimsNumbered' /\ FramesFilled'
  BY Constants DEF IInv, JobFirst, ClaimsNumbered, FramesFilled, FrameFilled
<1>2. IndexMatchesRecord'
  BY Constants DEF IInv, IndexMatchesRecord, Fresh, Agrees
<1>3. \A q \in Procs : pc'[q] \in AfterRead /\ Current(q)' /\ job # None => Current(q)
  BY DEF Current, Holds, ActiveClaim
<1>4. job' # None => job # None
  BY Constants
<1>5. ASSUME NEW q \in Procs, job' # None PROVE PassAgrees(q)'
  BY <1>3, <1>4, <1>5 DEF IInv, PassAgrees, Agrees
<1> QED BY <1>1, <1>2, <1>5 DEF IInv

LEMMA EnvironmentSteps ==
  ASSUME IInv, TypeOK', Environment
  PROVE  IInv'
<1>0. job # None => job \in Job
  BY DEF IInv, TypeOK
<1>1. CASE BackoffEnds
  <2>1. /\ job' \in Job /\ job'.status = job.status /\ job'.claim = job.claim
        /\ job'.rerun = job.rerun
    BY <1>0, <1>1 DEF BackoffEnds, Job
  <2> QED BY <1>0, <1>1, <2>1, StandStill DEF BackoffEnds
<1>2. CASE LeaseLapses
  <2>1. /\ job' \in Job /\ job'.status = job.status /\ job'.claim = job.claim
        /\ job'.rerun = job.rerun
    BY <1>0, <1>2 DEF LeaseLapses, Job
  <2> QED BY <1>0, <1>2, <2>1, StandStill DEF LeaseLapses
<1>3. CASE SuppressionEnds \/ LoseMessage
  BY <1>3, StandStill DEF SuppressionEnds, LoseMessage, store
<1> QED BY <1>1, <1>2, <1>3 DEF Environment

LEMMA ReceiveStep ==
  ASSUME IInv, TypeOK', NEW p \in Procs, Receive(p)
  PROVE  IInv'
<1> USE DEF AfterRead, AfterLoad, BeforeJob, Labels
<1>1. CASE delivery = "published"
  BY <1>1, PlainMove DEF Receive, store, IInv, JobFirst
<1>2. CASE delivery # "published"
  BY <1>2, StandStill DEF Receive, store
<1> QED BY <1>1, <1>2

-----------------------------------------------------------------------------
(* The theorems.                                                           *)

LEMMA Initially == Init => IInv
<1> SUFFICES ASSUME Init PROVE IInv
  OBVIOUS
<1>1. NoFrame \in Frame
  BY DEF NoFrame, Frame
<1>2. TypeOK
  <2>1. edits \in 0..MaxEdits /\ faults \in 0..MaxFaults /\ queue \in Nat /\ gen \in Nat /\ misses \in Nat
    BY Constants DEF Init
  <2>2. announced \in BOOLEAN /\ keyUsed \in BOOLEAN
    BY DEF Init
  <2>3. pc \in [Procs -> Labels] /\ frame \in [Procs -> Frame]
    BY <1>1 DEF Init, Labels
  <2> QED BY <2>1, <2>2, <2>3 DEF Init, TypeOK, DeliveryStates
<1>3. \A p \in Procs : pc[p] = "idle"
  BY DEF Init
<1>4. JobFirst /\ ClaimsNumbered /\ FramesFilled /\ IndexMatchesRecord /\ job = None
  BY <1>3 DEF Init, JobFirst, BeforeJob, ClaimsNumbered, FramesFilled, FrameFilled, AfterLoad,
              AfterRead, IndexMatchesRecord
<1> QED BY <1>2, <1>4 DEF IInv

LEMMA Preserved == IInv /\ [Next]_vars => IInv'
<1> SUFFICES ASSUME IInv, [Next]_vars PROVE IInv'
  OBVIOUS
<1>1. CASE UNCHANGED vars
  <2>1. TypeOK'
    BY <1>1 DEF IInv, TypeOK, vars, store, provider
  <2> QED BY <1>1, <2>1, StandStill DEF vars, store, provider
<1>2. CASE Next
  <2>1. ASSUME NEW p \in Procs, Save(p) \/ Announce(p) \/ Deliver(p)
        PROVE  IInv'
    BY <2>1, AnnounceType, AnnounceSteps, PlainSteps DEF Announce
  <2>2. ASSUME NEW p \in Procs, Consume(p) \/ Recover(p)
        PROVE  IInv'
    BY <2>2, RecoverType, ReceiveStep, ClaimSteps, RecoverStaleStep, PlainSteps DEF Consume, Recover
  <2>3. ASSUME NEW p \in Procs, Process(p)
        PROVE  IInv'
    BY <2>3, ProcessType, JobRead, RecordRead, LookupSteps, IndexSteps, SettleStep DEF Process
  <2>4. ASSUME NEW p \in Procs, Crash(p) PROVE IInv'
    BY <2>4, EnvironmentType, PlainSteps
  <2>5. CASE Environment
    BY <2>5, EnvironmentType, EnvironmentSteps
  <2> QED BY <1>2, <2>1, <2>2, <2>3, <2>4, <2>5 DEF Next, Step, Environment
<1> QED BY <1>1, <1>2

LEMMA Inductive == Spec => []IInv
BY Initially, Preserved, PTL DEF Spec

\* Whatever the processes do, in any order, every variable keeps its type.
THEOREM EmbeddingTypes == Spec => []TypeOK
<1>1. IInv => TypeOK
  BY DEF IInv
<1> QED BY <1>1, Inductive, PTL

\* Once the last save is announced, a job at rest in completed or skipped has
\* left in the index exactly what the record says.
THEOREM IndexMatchesRecordAlways == Spec => []IndexMatchesRecord
<1>1. IInv => IndexMatchesRecord
  BY DEF IInv
<1> QED BY <1>1, Inductive, PTL

\* What the row's statements do to the marker.
LEMMA MarkerFields ==
  ASSUME NEW j \in Job, j.rerun => j.status = "running"
  PROVE  /\ ~NewJob.rerun
         /\ Claimable(j) => ~j.rerun
         /\ Reopened(j).rerun => Reopened(j).status = "running"
         /\ ~Recovered(j).rerun
         /\ \A v \in Verdict : ~Settled(j, v).rerun
<1>1. ~NewJob.rerun  BY DEF NewJob
<1>2. Claimable(j) => ~j.rerun  BY DEF Claimable
<1>3. Reopened(j).rerun => Reopened(j).status = "running"
  BY DEF Reopened, Job, JobStatus, Reopenable
<1>4. ~Recovered(j).rerun
  BY DEF Recovered, Job
<1>5. ASSUME NEW v \in Verdict  PROVE ~Settled(j, v).rerun
  BY DEF Settled, Job, Verdict
<1> QED  BY <1>1, <1>2, <1>3, <1>4, <1>5

\* A marker is set on a running job only, and every statement that ends a run
\* clears it.
LEMMA MarkerKept ==
  ASSUME IInv, MarkerOnlyWhileRunning, [Next]_vars
  PROVE  MarkerOnlyWhileRunning'
<1>0. job \in Job \cup {None}
  BY DEF IInv, TypeOK
<1>1. ASSUME UNCHANGED job  PROVE MarkerOnlyWhileRunning'
  BY <1>1 DEF MarkerOnlyWhileRunning
<1>2. ASSUME NEW p \in Procs, Insert(p)  PROVE MarkerOnlyWhileRunning'
  <2>1. job' = NewJob \/ UNCHANGED job  BY <1>2 DEF Insert
  <2> QED  BY <1>1, <2>1 DEF MarkerOnlyWhileRunning, NewJob
<1>3. ASSUME NEW p \in Procs, Reopen(p)  PROVE MarkerOnlyWhileRunning'
  <2>1. job # None /\ job' = Reopened(job)
    BY <1>3 DEF Reopen, IInv, JobFirst, BeforeJob
  <2> QED  BY <1>0, <2>1, MarkerFields DEF MarkerOnlyWhileRunning
<1>4. ASSUME NEW p \in Procs, ClaimJob(p) \/ ClaimNext(p)  PROVE MarkerOnlyWhileRunning'
  <2>1. CASE UNCHANGED job  BY <1>1, <2>1
  <2>2. CASE Claimable(job) /\ job # None /\ job' = Claimed(job, gen + 1)
    <3>1. job \in Job /\ ~job.rerun /\ gen + 1 \in Nat
      BY <1>0, <2>2, MarkerFields DEF MarkerOnlyWhileRunning, IInv, TypeOK
    <3> QED  BY <2>2, <3>1, ClaimedType DEF MarkerOnlyWhileRunning
  <2> QED  BY <1>4, <2>1, <2>2 DEF ClaimJob, ClaimNext, IInv, JobFirst, BeforeJob
<1>5. ASSUME NEW p \in Procs, Settle(p)  PROVE MarkerOnlyWhileRunning'
  <2>1. CASE UNCHANGED job  BY <1>1, <2>1
  <2>2. CASE job' = Settled(job, frame[p].verdict)
    <3>1. job # None /\ frame[p].verdict \in Verdict
      BY <1>5 DEF Settle, IInv, JobFirst, BeforeJob, FramesFilled, FrameFilled
    <3> QED  BY <1>0, <2>2, <3>1, MarkerFields DEF MarkerOnlyWhileRunning
  <2> QED  BY <1>5, <2>1, <2>2 DEF Settle
<1>6. ASSUME NEW p \in Procs, RecoverStale(p)  PROVE MarkerOnlyWhileRunning'
  <2>1. CASE UNCHANGED job  BY <1>1, <2>1
  <2>2. CASE job # None /\ job' = Recovered(job)
    BY <1>0, <2>2, MarkerFields DEF MarkerOnlyWhileRunning
  <2> QED  BY <1>6, <2>1, <2>2 DEF RecoverStale
<1>7. CASE BackoffEnds \/ LeaseLapses
  <2>1. job \in Job /\ (job' = [job EXCEPT !.later = FALSE] \/ job' = [job EXCEPT !.lapsed = TRUE])
    BY <1>0, <1>7 DEF BackoffEnds, LeaseLapses
  <2>2. job'.rerun = job.rerun /\ job'.status = job.status
    BY <2>1 DEF Job
  <2> QED  BY <1>0, <1>7, <2>2 DEF MarkerOnlyWhileRunning, BackoffEnds, LeaseLapses
<1>8. ASSUME NEW p \in Procs,
             Save(p) \/ Find(p) \/ CreateDelivery(p) \/ Deliver(p) \/ Receive(p) \/ Load(p)
             \/ ReadRecord(p) \/ Lookup(p) \/ Embed(p) \/ ListDue(p) \/ Inspect(p)
             \/ Abandon(p) \/ Crash(p)
      PROVE  UNCHANGED job
  BY <1>8 DEF Save, Find, CreateDelivery, Deliver, Publish, MarkPublished, MarkPublishFailed, Receive,
              Load, ReadRecord, Lookup, Embed, ListDue, Inspect, Abandon, Crash, store
<1>9. ASSUME NEW p \in Procs, Scrub(p) \/ Refresh(p) \/ Upsert(p)
      PROVE  UNCHANGED job
  BY <1>9 DEF Scrub, Refresh, Upsert
<1>10. CASE SuppressionEnds \/ LoseMessage \/ UNCHANGED vars
  BY <1>1, <1>10 DEF SuppressionEnds, LoseMessage, vars, store
<1> QED
  BY <1>1, <1>2, <1>3, <1>4, <1>5, <1>6, <1>7, <1>8, <1>9, <1>10
  DEF Next, Step, Announce, Consume, Process, Recover

\* However saves meet passes, takeovers and crashes, a rerun request is never
\* left on a job no pass is running (drizzle-store.ts, reopen and settle).
THEOREM MarkerOnlyWhileRunningAlways == Spec => []MarkerOnlyWhileRunning
<1>1. Init => MarkerOnlyWhileRunning
  BY DEF Init, MarkerOnlyWhileRunning
<1>2. IInv /\ MarkerOnlyWhileRunning /\ [Next]_vars => MarkerOnlyWhileRunning'
  BY MarkerKept
<1> QED  BY <1>1, <1>2, Inductive, PTL DEF Spec

-----------------------------------------------------------------------------
(* The retry budget.  A claim raises attempts, and only a settled failure  *)
(* leaves it raised, so attempts is at most the failures the current       *)
(* enqueue has seen, and one more while a pass runs - or the text is one   *)
(* the provider has refused.                                               *)

\* What a verdict leaves of the budget the pass has read.
LeavesBudget(v, read) ==
  /\ v.status = "failed" => v.attempts = read.attempts /\ v.deadText = read.deadText
  /\ v.status = "pending" =>
       /\ v.attempts = IF read.attempts = 0 THEN 0 ELSE read.attempts - 1
       /\ v.deadText = read.deadText

DeadForCause(v, read, text) ==
  v.status = "dead_lettered" =>
    v.deadText = text \/ (read.attempts >= MaxAttempts /\ read.deadText # text)

VerdictEarned(p) ==
  /\ LeavesBudget(frame[p].verdict, frame[p].job)
  /\ Current(p) => DeadForCause(frame[p].verdict, frame[p].job, frame[p].record.text)

\* While the claim is held, the columns of the budget are as they were read.
ReadStands(p) ==
  pc[p] \in AfterLoad /\ Holds(p) =>
    frame[p].job.attempts = job.attempts /\ frame[p].job.deadText = job.deadText

PassBudgeted(p) ==
  /\ ReadStands(p)
  /\ pc[p] = "embed" => frame[p].job.deadText # frame[p].record.text
  /\ pc[p] = "refresh" /\ Current(p) => emb # None
  /\ pc[p] = "settle" => VerdictEarned(p)

PassesBudgeted == \A p \in Procs : PassBudgeted(p)

Budgeted ==
  announced /\ job # None /\ ~job.rerun =>
    /\ job.status = "running" => job.attempts <= misses + 1 \/ job.deadText = record.text
    /\ job.status \in {"pending", "failed"} =>
         job.attempts <= misses \/ job.deadText = record.text
    /\ job.status = "dead_lettered" => job.deadText = record.text \/ misses >= MaxAttempts

BInv == IInv /\ Budgeted /\ (job # None => PassesBudgeted)

\* A process that stands still keeps its part, if its claim does not come
\* back and the row it may refresh does not go.
LEMMA PassKept ==
  ASSUME NEW q \in Procs, PassBudgeted(q), pc'[q] = pc[q], frame'[q] = frame[q],
         pc[q] \in AfterLoad /\ Holds(q)' =>
           Holds(q) /\ job'.attempts = job.attempts /\ job'.deadText = job.deadText,
         pc[q] \in AfterRead /\ Current(q)' => Current(q) /\ (pc[q] = "refresh" => emb' # None)
  PROVE  PassBudgeted(q)'
<1>1. ReadStands(q)'
  BY DEF PassBudgeted, ReadStands
<1>2. pc'[q] = "embed" => frame'[q].job.deadText # frame'[q].record.text
  BY DEF PassBudgeted
<1>3. pc'[q] = "refresh" /\ Current(q)' => emb' # None
  BY DEF PassBudgeted, AfterRead
<1>4. pc'[q] = "settle" => VerdictEarned(q)'
  BY DEF PassBudgeted, VerdictEarned, AfterRead
<1> QED BY <1>1, <1>2, <1>3, <1>4 DEF PassBudgeted

\* Steps that leave the job's row alone: only the process that runs matters,
\* and a refresh whose row would go.
LEMMA BudgetStands ==
  ASSUME BInv, IInv', NEW p \in Procs,
         UNCHANGED <<record, announced, job, misses>>,
         \A q \in Procs \ {p} : pc'[q] = pc[q] /\ frame'[q] = frame[q],
         \A q \in Procs \ {p} : pc[q] = "refresh" /\ Current(q) /\ emb # None => emb' # None,
         job # None => PassBudgeted(p)'
  PROVE  BInv'
<1>1. Budgeted'
  BY DEF BInv, Budgeted
<1>2. ASSUME job # None, NEW q \in Procs  PROVE PassBudgeted(q)'
  <2>1. CASE q = p
    BY <1>2, <2>1
  <2>2. CASE q # p
    <3>1. pc'[q] = pc[q] /\ frame'[q] = frame[q] /\ PassBudgeted(q)
      BY <1>2, <2>2 DEF BInv, PassesBudgeted
    <3>2. (Holds(q)' => Holds(q)) /\ (Current(q)' => Current(q))
      BY <3>1 DEF Holds, Current
    <3>3. pc[q] = "refresh" /\ Current(q)' => emb' # None
      BY <2>2, <3>1, <3>2 DEF PassBudgeted
    <3> QED BY <3>1, <3>2, <3>3, PassKept
  <2> QED BY <2>1, <2>2
<1> QED BY <1>1, <1>2 DEF BInv, PassesBudgeted

\* The verdicts, each from what the pass knows when it reaches it.
LEMMA VerdictsEarned ==
  ASSUME NEW j \in Job, NEW text \in Texts
  PROVE  /\ \A v \in {Completed(j), Skipped(j), Deferred(j), FailedPastCap(j)} :
              LeavesBudget(v, j) /\ DeadForCause(v, j, text)
         /\ LeavesBudget(DeadAgain(j), j)
         /\ j.deadText = text => DeadForCause(DeadAgain(j), j, text)
         /\ \A cap, t : LeavesBudget(Failed(j, cap, t), j)
         /\ j.deadText # text =>
              \A cap \in {MaxAttempts, MaxTransientAttempts} :
                DeadForCause(Failed(j, cap, None), j, text)
         /\ \A cap : DeadForCause(Failed(j, cap, text), j, text)
<1> USE DEF LeavesBudget, DeadForCause
<1>1. j.attempts \in Nat /\ MaxAttempts \in Nat /\ MaxTransientAttempts \in Nat
      /\ MaxAttempts <= MaxTransientAttempts
  BY EmbeddingJobAssumption DEF Job
<1>2. \A v \in {Completed(j), Skipped(j), Deferred(j), FailedPastCap(j)} :
        LeavesBudget(v, j) /\ DeadForCause(v, j, text)
  BY DEF Completed, Skipped, Deferred, FailedPastCap
<1>3. LeavesBudget(DeadAgain(j), j) /\ (j.deadText = text => DeadForCause(DeadAgain(j), j, text))
  BY DEF DeadAgain
<1>4. ASSUME NEW cap, NEW t  PROVE LeavesBudget(Failed(j, cap, t), j)
  BY DEF Failed
<1>5. ASSUME NEW cap \in {MaxAttempts, MaxTransientAttempts}, j.deadText # text
      PROVE  DeadForCause(Failed(j, cap, None), j, text)
  <2>1. CASE j.attempts >= cap
    <3>1. j.attempts >= MaxAttempts
      BY <1>1, <1>5, <2>1
    <3> QED BY <1>5, <3>1
  <2>2. CASE ~(j.attempts >= cap)
    BY <2>2 DEF Failed
  <2> QED BY <2>1, <2>2
<1>6. ASSUME NEW cap  PROVE DeadForCause(Failed(j, cap, text), j, text)
  BY DEF Failed
<1> QED BY <1>2, <1>3, <1>4, <1>5, <1>6

\* A process decides on a verdict.
LEMMA DecideBudget ==
  ASSUME BInv, IInv', NEW p \in Procs, NEW v \in Verdict, Decide(p, v),
         pc[p] \in AfterRead,
         UNCHANGED <<record, announced, job, misses>>,
         \A q \in Procs \ {p} : pc[q] = "refresh" /\ Current(q) /\ emb # None => emb' # None,
         LeavesBudget(v, frame[p].job),
         Current(p) => DeadForCause(v, frame[p].job, frame[p].record.text)
  PROVE  BInv'
<1>1. /\ pc' = [pc EXCEPT ![p] = "settle"] /\ pc \in [Procs -> Labels]
      /\ frame' = [frame EXCEPT ![p].verdict = v] /\ frame[p] \in Frame
      /\ frame \in [Procs -> Frame]
  BY DEF Decide, Goto, BInv, IInv, TypeOK
<1>2. \A q \in Procs \ {p} : pc'[q] = pc[q] /\ frame'[q] = frame[q]
  BY <1>1
<1>3. /\ pc'[p] = "settle" /\ frame'[p].verdict = v
      /\ frame'[p].job = frame[p].job /\ frame'[p].record = frame[p].record
  BY <1>1 DEF Frame
<1>4. (Holds(p)' => Holds(p)) /\ (Current(p)' => Current(p))
  BY <1>3 DEF Holds, Current
<1>5. ASSUME job # None  PROVE PassBudgeted(p)'
  <2>1. ReadStands(p)'
    BY <1>3, <1>4, <1>5 DEF BInv, PassesBudgeted, PassBudgeted, ReadStands, AfterLoad
  <2>2. VerdictEarned(p)'
    BY <1>3, <1>4 DEF VerdictEarned
  <2> QED BY <1>3, <2>1, <2>2 DEF PassBudgeted
<1> QED BY <1>2, <1>5, BudgetStands

\* A process moves on with the frame it has.
LEMMA MoveBudget ==
  ASSUME BInv, IInv', NEW p \in Procs, NEW label \in Labels \ {"settle"},
         (Goto(p, label) /\ UNCHANGED frame /\ (label \in AfterLoad => pc[p] \in AfterLoad))
         \/ (Forget(p, label) /\ label \notin AfterLoad),
         UNCHANGED <<record, announced, job, emb, misses>>,
         label = "embed" => frame[p].job.deadText # frame[p].record.text,
         label = "refresh" => emb # None
  PROVE  BInv'
<1>1. pc' = [pc EXCEPT ![p] = label] /\ pc \in [Procs -> Labels] /\ frame \in [Procs -> Frame]
  BY DEF Goto, Forget, BInv, IInv, TypeOK
<1>2. \A q \in Procs \ {p} : pc'[q] = pc[q] /\ frame'[q] = frame[q]
  BY <1>1 DEF Forget
<1>3. pc'[p] = label
  BY <1>1
<1>4. ASSUME job # None  PROVE PassBudgeted(p)'
  <2>1. CASE label \notin AfterLoad
    BY <1>3, <2>1 DEF PassBudgeted, ReadStands, AfterLoad, AfterRead
  <2>2. CASE label \in AfterLoad
    <3>1. UNCHANGED frame /\ pc[p] \in AfterLoad
      BY <2>2
    <3>2. ReadStands(p)'
      BY <1>3, <1>4, <3>1 DEF BInv, PassesBudgeted, PassBudgeted, ReadStands, Holds
    <3> QED BY <1>3, <3>1, <3>2 DEF PassBudgeted
  <2> QED BY <2>1, <2>2
<1> QED BY <1>2, <1>4, BudgetStands

\* A pass that ends leaves the budget as it is.
LEMMA PassEndBudget ==
  ASSUME BInv, IInv', NEW p \in Procs, EndPass(p),
         UNCHANGED <<record, announced, job, emb, misses>>
  PROVE  BInv'
<1>1. PICK label \in After(p) : Forget(p, label)
  BY DEF EndPass
<1>2. label \in Labels \ {"settle", "embed", "refresh"} /\ label \notin AfterLoad
  BY DEF After, Labels, AfterLoad, AfterRead
<1> QED BY <1>1, <1>2, MoveBudget

LEMMA PlainBudget ==
  ASSUME BInv, IInv', NEW p \in Procs,
         \/ Find(p) \/ CreateDelivery(p) \/ Deliver(p) \/ Receive(p) \/ ListDue(p) \/ Inspect(p)
         \/ Abandon(p) \/ Crash(p)
  PROVE  BInv'
<1> USE DEF Labels, AfterLoad, AfterRead
<1>1. CASE Find(p) \/ CreateDelivery(p)
  BY <1>1, MoveBudget DEF Find, CreateDelivery, store
<1>2. CASE Deliver(p)
  BY <1>2, MoveBudget DEF Deliver, Publish, MarkPublished, MarkPublishFailed, Published, store
<1>3. CASE Receive(p) /\ delivery = "published"
  BY <1>3, MoveBudget DEF Receive, store
<1>4. CASE Receive(p) /\ delivery # "published"
  <2>1. UNCHANGED <<pc, frame, record, announced, job, emb, misses>>
    BY <1>4 DEF Receive, store
  <2>2. job # None => PassBudgeted(p)'
    BY <2>1 DEF BInv, PassesBudgeted, PassBudgeted, ReadStands, VerdictEarned, Holds, Current
  <2> QED BY <2>1, <2>2, BudgetStands
<1>5. CASE ListDue(p)
  BY <1>5, MoveBudget DEF ListDue, store
<1>6. CASE Inspect(p) \/ Abandon(p)
  BY <1>6, MoveBudget DEF Inspect, Abandon, store
<1>7. CASE Crash(p)
  BY <1>7, MoveBudget DEF Crash, store
<1> QED BY <1>1, <1>2, <1>3, <1>4, <1>5, <1>6, <1>7

LEMMA ReadBudget ==
  ASSUME BInv, IInv', NEW p \in Procs, Load(p) \/ ReadRecord(p)
  PROVE  BInv'
<1> USE DEF AfterRead, AfterLoad
<1>0. pc \in [Procs -> Labels] /\ frame \in [Procs -> Frame] /\ frame[p] \in Frame
  BY DEF BInv, IInv, TypeOK
<1>1. CASE Load(p) /\ EndPass(p)
  BY <1>1, PassEndBudget DEF Load, store
<1>2. CASE Load(p) /\ ~EndPass(p)
  <2>1. /\ frame' = [frame EXCEPT ![p].job = job] /\ pc' = [pc EXCEPT ![p] = "read"]
        /\ UNCHANGED <<record, announced, job, emb, misses>>
    BY <1>2 DEF Load, Goto, store
  <2>2. \A q \in Procs \ {p} : pc'[q] = pc[q] /\ frame'[q] = frame[q]
    BY <1>0, <2>1
  <2>3. pc'[p] = "read" /\ frame'[p].job = job
    BY <1>0, <2>1 DEF Frame
  <2>4. PassBudgeted(p)'
    BY <2>1, <2>3 DEF PassBudgeted, ReadStands
  <2> QED BY <2>1, <2>2, <2>4, BudgetStands
<1>3. CASE ReadRecord(p)
  <2> DEFINE v == IF Decision(record) = "embed" THEN None ELSE Skipped(frame[p].job)
             label == CASE Decision(record) = "embed" -> "lookup"
                        [] Decision(record) = "scrub" -> "scrub"
                        [] Decision(record) = "skip" -> "settle"
  <2>1. /\ pc[p] = "read" /\ record \in Records /\ frame[p].job \in Job
        /\ UNCHANGED <<record, announced, job, emb, misses>>
    BY <1>3 DEF ReadRecord, store, BInv, IInv, TypeOK, FramesFilled, FrameFilled
  <2>2. Decision(record) \in {"skip", "scrub", "embed"}
    BY <2>1, DecisionType
  <2>3. frame' = [frame EXCEPT ![p] = [frame[p] EXCEPT !.record = record, !.verdict = v]]
    BY <1>0, <1>3 DEF ReadRecord
  <2>4. pc' = [pc EXCEPT ![p] = label]
    BY <1>3 DEF ReadRecord, Goto
  <2>5. \A q \in Procs \ {p} : pc'[q] = pc[q] /\ frame'[q] = frame[q]
    BY <1>0, <2>3, <2>4
  <2>6. /\ pc'[p] = label /\ frame'[p].record = record /\ frame'[p].verdict = v
        /\ frame'[p].job = frame[p].job
    <3> HIDE DEF v, label
    <3> QED BY <1>0, <2>3, <2>4 DEF Frame
  <2>7. label \in {"lookup", "scrub", "settle"} /\ (label = "settle" => v = Skipped(frame[p].job))
    BY <2>2
  <2>8. label = "settle" => VerdictEarned(p)'
    <3>1. record.text \in Texts
      BY <2>1, Constants DEF Record
    <3>2. /\ LeavesBudget(Skipped(frame[p].job), frame[p].job)
          /\ DeadForCause(Skipped(frame[p].job), frame[p].job, record.text)
      BY <2>1, <3>1, VerdictsEarned
    <3> HIDE DEF v, label
    <3> QED BY <2>6, <2>7, <3>2 DEF VerdictEarned
  <2> HIDE DEF v, label
  <2>9. job # None => ReadStands(p)'
    BY <2>1, <2>6 DEF BInv, PassesBudgeted, PassBudgeted, ReadStands, Holds
  <2>10. job # None => PassBudgeted(p)'
    BY <2>6, <2>7, <2>8, <2>9 DEF PassBudgeted
  <2> QED BY <2>1, <2>5, <2>10, BudgetStands
<1> QED BY <1>1, <1>2, <1>3

LEMMA LookupBudget ==
  ASSUME BInv, IInv', NEW p \in Procs, Lookup(p) \/ Embed(p)
  PROVE  BInv'
<1> USE DEF AfterRead, AfterLoad, Labels
<1>0. /\ pc[p] \in {"lookup", "embed"} /\ frame[p].job \in Job
      /\ frame[p].record.text \in Texts /\ job # None
      /\ UNCHANGED <<record, announced, job, emb, misses>>
  BY Constants
  DEF Lookup, Embed, store, BInv, IInv, TypeOK, JobFirst, BeforeJob, FramesFilled, FrameFilled, Record
<1>1. CASE Lookup(p)
  <2> DEFINE found == emb # None /\ emb.text = frame[p].record.text
  <2>1. CASE Decide(p, Completed(frame[p].job))
    BY <1>0, <2>1, DecideBudget, VerdictsEarned, VerdictTypes
  <2>2. CASE found /\ Goto(p, "refresh") /\ UNCHANGED frame
    BY <1>0, <2>2, MoveBudget
  <2>3. CASE frame[p].job.deadText = frame[p].record.text /\ Decide(p, DeadAgain(frame[p].job))
    BY <1>0, <2>3, DecideBudget, VerdictsEarned, VerdictTypes
  <2>4. CASE frame[p].job.deadText # frame[p].record.text /\ Goto(p, "embed") /\ UNCHANGED frame
    BY <1>0, <2>4, MoveBudget
  <2> QED BY <1>1, <2>1, <2>2, <2>3, <2>4 DEF Lookup
<1>2. CASE Embed(p)
  <2>0. frame[p].job.deadText # frame[p].record.text
    BY <1>0, <1>2 DEF Embed, BInv, PassesBudgeted, PassBudgeted
  <2>1. CASE Goto(p, "upsert") /\ UNCHANGED frame
    BY <1>0, <2>1, MoveBudget
  <2>2. CASE Decide(p, Failed(frame[p].job, MaxAttempts, frame[p].record.text))
    BY <1>0, <2>2, DecideBudget, VerdictsEarned, VerdictTypes, Constants
  <2>3. CASE Decide(p, Deferred(frame[p].job))
    BY <1>0, <2>3, DecideBudget, VerdictsEarned, VerdictTypes
  <2>4. ASSUME NEW cap \in {MaxAttempts, MaxTransientAttempts},
               Decide(p, Failed(frame[p].job, cap, None))
        PROVE  BInv'
    BY <1>0, <2>0, <2>4, DecideBudget, VerdictsEarned, VerdictTypes, Constants
  <2> QED BY <1>2, <2>1, <2>2, <2>3, <2>4 DEF Embed
<1> QED BY <1>1, <1>2

\* Only a scrub deletes the row, and no refresh shares its claim: they would
\* have read one record and decided differently on it.
LEMMA IndexBudget ==
  ASSUME BInv, IInv', NEW p \in Procs, Scrub(p) \/ Refresh(p) \/ Upsert(p)
  PROVE  BInv'
<1> USE DEF AfterRead, AfterLoad, Labels
<1>0. /\ pc[p] \in AfterRead /\ frame[p].job \in Job
      /\ frame[p].record \in Record /\ frame[p].record.text \in Texts /\ job # None
      /\ UNCHANGED <<record, announced, job, misses>>
  BY Constants DEF Scrub, Refresh, Upsert, BInv, IInv, TypeOK, JobFirst, BeforeJob,
     FramesFilled, FrameFilled, Record
<1>1. CASE EndPass(p) /\ UNCHANGED emb
  BY <1>0, <1>1, PassEndBudget
<1>2. CASE Scrub(p) /\ ~EndPass(p)
  <2>1. frame[p].verdict = Skipped(frame[p].job) /\ Decision(frame[p].record) = "scrub"
    BY <1>2 DEF Scrub, BInv, IInv, FramesFilled, FrameFilled
  <2>2. CASE Decide(p, FailedPastCap(frame[p].job)) /\ UNCHANGED emb
    BY <1>0, <2>2, DecideBudget, VerdictsEarned, VerdictTypes
  <2>3. CASE Holds(p) /\ emb' = None /\ Goto(p, "settle") /\ UNCHANGED frame
    <3>1. /\ pc'[p] = "settle" /\ \A q \in Procs \ {p} : pc'[q] = pc[q] /\ frame'[q] = frame[q]
      BY <2>3 DEF Goto, BInv, IInv, TypeOK
    <3>2. ASSUME NEW q \in Procs, pc[q] = "refresh", Current(q)  PROVE FALSE
      <4>1. Current(p)
        BY <2>3, <3>2 DEF Current
      <4>2. frame[q].record = record /\ frame[p].record = record
        BY <1>0, <3>2, <4>1 DEF BInv, IInv, PassAgrees
      <4>3. Decision(frame[q].record) = "embed"
        BY <3>2 DEF BInv, IInv, FramesFilled, FrameFilled
      <4> QED BY <2>1, <4>2, <4>3
    <3>3. VerdictEarned(p)'
      BY <1>0, <2>1, <2>3, VerdictsEarned DEF VerdictEarned
    <3>4. ReadStands(p)'
      BY <1>0, <2>3, <3>1 DEF BInv, PassesBudgeted, PassBudgeted, ReadStands, Holds
    <3>5. PassBudgeted(p)'
      BY <3>1, <3>3, <3>4 DEF PassBudgeted
    <3> QED BY <1>0, <3>1, <3>2, <3>5, BudgetStands
  <2> QED BY <1>2, <2>2, <2>3 DEF Scrub, Superseded
<1>3. CASE Refresh(p) /\ ~EndPass(p)
  <2>1. CASE /\ emb # None /\ Decide(p, Completed(frame[p].job))
             /\ emb' = [emb EXCEPT !.sensitivity = frame[p].record.sensitivity]
    <3>1. emb' # None
      BY <1>0, <2>1, Constants DEF BInv, IInv, TypeOK, Embedding, Record
    <3> QED BY <1>0, <2>1, <3>1, DecideBudget, VerdictsEarned, VerdictTypes
  <2>2. CASE Holds(p) /\ emb = None /\ Decide(p, Failed(frame[p].job, MaxAttempts, None)) /\ UNCHANGED emb
    <3>1. ~Current(p)
      BY <1>0, <1>3, <2>2 DEF Refresh, BInv, PassesBudgeted, PassBudgeted
    <3> QED BY <1>0, <2>2, <3>1, DecideBudget, VerdictsEarned, VerdictTypes, Constants
  <2> QED BY <1>3, <2>1, <2>2 DEF Refresh, Superseded
<1>4. CASE Upsert(p) /\ ~EndPass(p)
  <2>1. /\ Decide(p, Completed(frame[p].job))
        /\ emb' = [text |-> frame[p].record.text, sensitivity |-> frame[p].record.sensitivity]
    BY <1>4 DEF Upsert, Superseded
  <2>2. emb' # None
    BY <1>0, <2>1, Constants DEF Embedding, Record
  <2> QED BY <1>0, <2>1, <2>2, DecideBudget, VerdictsEarned, VerdictTypes
<1>5. EndPass(p) => UNCHANGED emb
  <2>1. ASSUME NEW v, Decide(p, v), EndPass(p)  PROVE FALSE
    <3>1. pc'[p] = "settle"
      BY <2>1 DEF Decide, Goto, BInv, IInv, TypeOK
    <3>2. pc'[p] \in {"claimNext", "idle"}
      BY <2>1 DEF EndPass, Forget, Goto, After, BInv, IInv, TypeOK
    <3> QED BY <3>1, <3>2
  <2>2. ASSUME Goto(p, "settle"), EndPass(p)  PROVE FALSE
    <3>1. pc'[p] = "settle"
      BY <2>2 DEF Goto, BInv, IInv, TypeOK
    <3>2. pc'[p] \in {"claimNext", "idle"}
      BY <2>2 DEF EndPass, Forget, Goto, After, BInv, IInv, TypeOK
    <3> QED BY <3>1, <3>2
  <2> QED BY <2>1, <2>2 DEF Scrub, Refresh, Upsert, Superseded
<1> QED BY <1>1, <1>2, <1>3, <1>4, <1>5

\* The steps that write the job's row.
LEMMA JobBudget ==
  ASSUME BInv, IInv', Budgeted', UNCHANGED emb,
         \A q \in Procs : pc'[q] \in AfterLoad =>
           /\ job # None /\ pc'[q] = pc[q] /\ frame'[q] = frame[q]
           /\ Holds(q)' => Holds(q) /\ job'.attempts = job.attempts /\ job'.deadText = job.deadText
           /\ Current(q)' => Current(q)
  PROVE  BInv'
<1>1. ASSUME NEW q \in Procs  PROVE PassBudgeted(q)'
  <2>1. CASE pc'[q] \in AfterLoad
    <3>1. PassBudgeted(q)
      BY <2>1 DEF BInv, PassesBudgeted
    <3>2. pc[q] = "refresh" /\ Current(q)' => emb' # None
      BY <2>1, <3>1 DEF PassBudgeted
    <3> QED BY <2>1, <3>1, <3>2, PassKept
  <2>2. CASE pc'[q] \notin AfterLoad
    BY <2>2 DEF PassBudgeted, ReadStands, AfterLoad, AfterRead
  <2> QED BY <2>1, <2>2
<1> QED BY <1>1 DEF BInv, PassesBudgeted

\* What a process that moves to a label before its read leaves of the others.
LEMMA OthersWait ==
  ASSUME IInv, NEW p \in Procs, NEW label \in Labels \ AfterLoad,
         (Goto(p, label) /\ UNCHANGED frame) \/ Forget(p, label)
  PROVE  \A q \in Procs : pc'[q] \in AfterLoad =>
           /\ pc'[q] = pc[q] /\ frame'[q] = frame[q] /\ job # None
           /\ frame[q].job.claim \in Nat /\ frame[q].job.claim <= gen
<1>1. /\ pc' = [pc EXCEPT ![p] = label] /\ pc \in [Procs -> Labels]
      /\ frame \in [Procs -> Frame]
  BY DEF Goto, Forget, IInv, TypeOK
<1>2. \A q \in Procs \ {p} : pc'[q] = pc[q] /\ frame'[q] = frame[q]
  BY <1>1 DEF Forget
<1>3. \A q \in Procs : pc[q] \in AfterLoad =>
        job # None /\ frame[q].job.claim \in Nat /\ frame[q].job.claim <= gen
  BY DEF IInv, JobFirst, BeforeJob, AfterLoad, AfterRead, FramesFilled, FrameFilled
<1> QED BY <1>1, <1>2, <1>3

LEMMA AnnounceBudget ==
  ASSUME BInv, IInv', NEW p \in Procs, Save(p) \/ Insert(p) \/ Reopen(p)
  PROVE  BInv'
<1> USE DEF AfterRead, AfterLoad, Labels
<1>0. IInv /\ (job # None => job \in Job)
  BY DEF BInv, IInv, TypeOK
<1>1. CASE Save(p)
  <2>1. Goto(p, "find") /\ UNCHANGED <<frame, job, emb>> /\ announced' = FALSE
    BY <1>1 DEF Save
  <2>2. Budgeted' /\ \A q \in Procs : ~Current(q)'
    BY <2>1 DEF Budgeted, Current
  <2>3. \A q \in Procs : pc'[q] \in AfterLoad => job # None /\ pc'[q] = pc[q] /\ frame'[q] = frame[q]
    BY <1>0, <2>1, OthersWait
  <2> QED BY <2>1, <2>2, <2>3, JobBudget DEF Holds
<1>2. CASE Insert(p) /\ job = None
  <2>1. /\ Goto(p, "create") /\ UNCHANGED <<frame, emb>> /\ job' = NewJob /\ misses' = 0
    BY <1>2 DEF Insert
  <2>2. \A q \in Procs : pc'[q] \notin AfterLoad
    BY <1>0, <1>2, <2>1, OthersWait
  <2>3. Budgeted'
    BY <2>1 DEF Budgeted, NewJob
  <2> QED BY <2>1, <2>2, <2>3, JobBudget
<1>3. CASE Insert(p) /\ job # None
  BY <1>3, MoveBudget DEF Insert
<1>4. CASE Reopen(p)
  <2>1. Goto(p, "create") /\ UNCHANGED <<frame, emb>> /\ job' = Reopened(job) /\ misses' = 0
    BY <1>4 DEF Reopen
  <2>2. job \in Job
    BY <1>0, <1>4 DEF Reopen, IInv, JobFirst, BeforeJob
  <2>3. /\ job'.status = "running" =>
             /\ job.status = "running" /\ job'.claim = job.claim /\ job'.rerun
             /\ job'.attempts = job.attempts /\ job'.deadText = job.deadText
        /\ job'.status \in {"pending", "failed"} => job'.attempts = 0
        /\ job'.status # "dead_lettered"
    BY <2>1, <2>2 DEF Reopened, Reopenable, Job, JobStatus
  <2>4. Budgeted'
    BY <2>1, <2>3 DEF Budgeted
  <2>5. \A q \in Procs : pc'[q] \in AfterLoad => job # None /\ pc'[q] = pc[q] /\ frame'[q] = frame[q]
    BY <1>0, <2>1, OthersWait
  <2>6. \A q \in Procs : ~Current(q)'
    BY <2>3 DEF Current, Holds, ActiveClaim
  <2> QED BY <2>1, <2>3, <2>4, <2>5, <2>6, JobBudget DEF Holds, ActiveClaim
<1> QED BY <1>1, <1>2, <1>3, <1>4

LEMMA ClaimBudget ==
  ASSUME BInv, IInv', NEW p \in Procs, ClaimJob(p) \/ ClaimNext(p)
  PROVE  BInv'
<1> USE DEF AfterRead, AfterLoad, Labels
<1>0. IInv /\ (job # None => job \in Job) /\ gen \in Nat /\ misses \in Nat
  BY DEF BInv, IInv, TypeOK
<1>1. CASE job # None /\ Claimable(job) /\ (ClaimJob(p) \/ ClaimNext(p))
  <2>1. /\ job' = Claimed(job, gen + 1) /\ Goto(p, "load")
        /\ UNCHANGED <<frame, emb, record, announced, misses>>
    BY <1>1 DEF ClaimJob, ClaimNext
  <2>2. job \in Job /\ job.status \in {"pending", "failed"}
    BY <1>0, <1>1 DEF Claimable
  <2>3. /\ job'.status = "running" /\ job'.claim = gen + 1 /\ job'.attempts = job.attempts + 1
        /\ job'.rerun = job.rerun /\ job'.deadText = job.deadText
    BY <2>1, <2>2 DEF Claimed, Job
  <2>4. job.attempts \in Nat
    BY <2>2 DEF Job
  <2>5. job.attempts <= misses => job'.attempts <= misses' + 1
    BY <1>0, <2>1, <2>3, <2>4
  <2>6. Budgeted'
    BY <1>1, <2>1, <2>2, <2>3, <2>5 DEF BInv, Budgeted
  <2>7. \A q \in Procs : pc'[q] \in AfterLoad =>
          /\ pc'[q] = pc[q] /\ frame'[q] = frame[q] /\ job # None
          /\ frame[q].job.claim \in Nat /\ frame[q].job.claim <= gen
    BY <1>0, <2>1, OthersWait
  <2>8. \A q \in Procs : pc'[q] \in AfterLoad => ~Holds(q)'
    BY <1>0, <2>3, <2>7 DEF Holds, ActiveClaim
  <2> QED BY <2>1, <2>6, <2>7, <2>8, JobBudget DEF Current
<1>2. CASE Goto(p, "idle") /\ UNCHANGED <<frame, record, announced, job, emb, misses>>
  BY <1>2, MoveBudget
<1> QED BY <1>0, <1>1, <1>2 DEF ClaimJob, ClaimNext, IInv, JobFirst, BeforeJob

\* A failure the current enqueue has seen is counted, and a verdict of a pass
\* that a marker has overtaken leaves a budget of none.
LEMMA SettleBudget ==
  ASSUME BInv, IInv', NEW p \in Procs, Settle(p)
  PROVE  BInv'
<1> USE DEF AfterRead, AfterLoad, Labels
<1> DEFINE v == frame[p].verdict
           read == frame[p].job
<1>0. /\ IInv /\ job \in Job /\ v \in Verdict /\ read \in Job /\ misses \in Nat
      /\ UNCHANGED <<record, announced, emb>> /\ pc[p] = "settle" /\ job # None
  BY DEF Settle, BInv, IInv, TypeOK, JobFirst, BeforeJob, FramesFilled, FrameFilled
<1>1. PICK label \in After(p) : Forget(p, label)
  BY DEF Settle
<1>2. label \in Labels \ AfterLoad
  BY DEF After
<1>3. CASE ~Holds(p)
  BY <1>0, <1>1, <1>2, <1>3, MoveBudget DEF Settle
<1>4. CASE Holds(p)
  <2>1. job' = Settled(job, v)
    BY <1>4 DEF Settle
  <2>2. job'.status # "running"
    BY <1>0, <2>1, SettledType
  <2>3. \A q \in Procs : pc'[q] \in AfterLoad => job # None /\ pc'[q] = pc[q] /\ frame'[q] = frame[q]
    BY <1>0, <1>1, <1>2, OthersWait
  <2>4. \A q \in Procs : ~Holds(q)' /\ ~Current(q)'
    BY <2>2 DEF Current, Holds, ActiveClaim
  <2>5. Budgeted'
    <3>1. CASE job.rerun
      <4>1. /\ job'.status \in {"pending", "failed"} => job'.attempts = 0
            /\ job'.status # "dead_lettered"
        BY <1>0, <2>1, <3>1 DEF Settled, Job, Verdict, JobStatus
      <4>2. misses' = misses
        BY <3>1 DEF Settle
      <4> QED BY <1>0, <2>2, <4>1, <4>2 DEF Budgeted
    <3>2. CASE ~job.rerun /\ announced
      <4>1. Current(p)
        BY <1>4, <3>2 DEF Current
      <4>2. frame[p].record = record
        BY <1>0, <4>1 DEF IInv, PassAgrees
      <4>3. read.attempts = job.attempts /\ read.deadText = job.deadText
        BY <1>0, <1>4 DEF BInv, PassesBudgeted, PassBudgeted, ReadStands
      <4>4. LeavesBudget(v, read) /\ DeadForCause(v, read, record.text)
        BY <1>0, <4>1, <4>2 DEF BInv, PassesBudgeted, PassBudgeted, VerdictEarned
      <4>5. job.attempts <= misses + 1 \/ job.deadText = record.text
        BY <1>0, <1>4, <3>2 DEF BInv, Budgeted, Holds, ActiveClaim
      <4>6. job'.status = v.status /\ job'.attempts = v.attempts /\ job'.deadText = v.deadText
        BY <1>0, <2>1, <3>2 DEF Settled, Job
      <4>7. misses' = IF Throws(v) /\ job.deadText # record.text THEN misses + 1 ELSE misses
        BY <1>4, <3>2, <4>2 DEF Settle
      <4>8. job.attempts \in Nat /\ MaxAttempts \in Nat
        BY <1>0, Constants DEF Job
      <4> HIDE DEF v, read
      <4>9. CASE v.status = "failed"
        BY <1>0, <4>3, <4>4, <4>5, <4>6, <4>7, <4>8, <4>9 DEF Budgeted, LeavesBudget, Throws
      <4>10. CASE v.status = "pending"
        BY <1>0, <4>3, <4>4, <4>5, <4>6, <4>7, <4>8, <4>10 DEF Budgeted, LeavesBudget, Throws
      <4>11. CASE v.status = "dead_lettered"
        BY <1>0, <4>3, <4>4, <4>5, <4>6, <4>7, <4>8, <4>11 DEF Budgeted, DeadForCause, Throws
      <4>12. CASE v.status \notin {"failed", "pending", "dead_lettered"}
        BY <2>2, <4>6, <4>12 DEF Budgeted
      <4> QED BY <4>9, <4>10, <4>11, <4>12
    <3>3. CASE ~announced
      BY <1>0, <3>3 DEF Budgeted
    <3> QED BY <3>1, <3>2, <3>3
  <2> QED BY <1>0, <2>3, <2>4, <2>5, JobBudget
<1> QED BY <1>3, <1>4

\* A claim nobody settled gives its attempt back.
LEMMA RecoverBudget ==
  ASSUME BInv, IInv', NEW p \in Procs, RecoverStale(p)
  PROVE  BInv'
<1> USE DEF AfterRead, AfterLoad, Labels
<1>0. /\ IInv /\ (job # None => job \in Job) /\ misses \in Nat
      /\ Goto(p, "claimNext") /\ UNCHANGED <<record, announced, emb, frame, misses>>
  BY DEF RecoverStale, BInv, IInv, TypeOK, provider
<1>1. CASE job' = job
  BY <1>0, <1>1, MoveBudget
<1>2. CASE job # None /\ job.status = "running" /\ job' = Recovered(job)
  <2>1. job \in Job /\ job.attempts \in Nat
    BY <1>0, <1>2 DEF Job
  <2>2. /\ job'.status = "pending" /\ job'.deadText = job.deadText
        /\ job'.attempts = IF job.rerun \/ job.attempts = 0 THEN 0 ELSE job.attempts - 1
    BY <1>2, <2>1 DEF Recovered, Job
  <2>3. job.attempts <= misses + 1 \/ job.rerun => job'.attempts <= misses
    BY <1>0, <2>1, <2>2
  <2>4. Budgeted'
    BY <1>0, <1>2, <2>2, <2>3 DEF BInv, Budgeted
  <2>5. \A q \in Procs : pc'[q] \in AfterLoad => job # None /\ pc'[q] = pc[q] /\ frame'[q] = frame[q]
    BY <1>0, OthersWait
  <2>6. \A q \in Procs : ~Holds(q)' /\ ~Current(q)'
    BY <2>2 DEF Current, Holds, ActiveClaim
  <2> QED BY <1>0, <2>4, <2>5, <2>6, JobBudget
<1> QED BY <1>1, <1>2 DEF RecoverStale

LEMMA EnvironmentBudget ==
  ASSUME BInv, IInv', Environment
  PROVE  BInv'
<1>0. UNCHANGED <<record, announced, emb, misses, pc, frame>> /\ (job # None => job \in Job)
  BY DEF Environment, BackoffEnds, LeaseLapses, SuppressionEnds, LoseMessage, store, BInv, IInv, TypeOK
<1>1. job' = job \/ (/\ job \in Job /\ job' # None /\ job # None
                     /\ job'.status = job.status /\ job'.claim = job.claim /\ job'.rerun = job.rerun
                     /\ job'.attempts = job.attempts /\ job'.deadText = job.deadText)
  <2>1. CASE BackoffEnds \/ LeaseLapses
    <3>1. job \in Job /\ job # None
      BY <1>0, <2>1 DEF BackoffEnds, LeaseLapses
    <3>2. job' = [job EXCEPT !.later = FALSE] \/ job' = [job EXCEPT !.lapsed = TRUE]
      BY <2>1 DEF BackoffEnds, LeaseLapses
    <3>3. /\ job'.status = job.status /\ job'.claim = job.claim /\ job'.rerun = job.rerun
          /\ job'.attempts = job.attempts /\ job'.deadText = job.deadText /\ job' \in Job
      BY <3>1, <3>2 DEF Job
    <3> QED BY <3>1, <3>3, Constants
  <2> QED BY <2>1 DEF Environment, SuppressionEnds, LoseMessage, store
<1>2. Budgeted'
  BY <1>0, <1>1 DEF BInv, Budgeted
<1>3. \A q \in Procs : pc'[q] \in AfterLoad => job # None
  BY <1>0 DEF BInv, IInv, JobFirst, BeforeJob, AfterLoad, AfterRead
<1>4. \A q \in Procs : (Holds(q)' => Holds(q)) /\ (Current(q)' => Current(q))
  BY <1>0, <1>1 DEF Holds, ActiveClaim, Current
<1>5. job'.attempts = job.attempts /\ job'.deadText = job.deadText
  BY <1>1
<1> QED BY <1>0, <1>2, <1>3, <1>4, <1>5, JobBudget

LEMMA BudgetKept == BInv /\ IInv' /\ [Next]_vars => BInv'
<1> SUFFICES ASSUME BInv, IInv', [Next]_vars PROVE BInv'
  OBVIOUS
<1>1. CASE UNCHANGED vars
  <2>1. UNCHANGED <<record, announced, job, emb, misses, pc, frame>>
    BY <1>1 DEF vars, store
  <2>2. Budgeted' /\ (job' # None => PassesBudgeted')
    BY <2>1 DEF BInv, Budgeted, PassesBudgeted, PassBudgeted, ReadStands, VerdictEarned, Holds, Current
  <2> QED BY <2>2 DEF BInv
<1>2. ASSUME NEW p \in Procs, Save(p) \/ Step(p) \/ Crash(p)
      PROVE  BInv'
  BY <1>2, AnnounceBudget, PlainBudget, ReadBudget, LookupBudget, IndexBudget, ClaimBudget,
     SettleBudget, RecoverBudget
  DEF Step, Announce, Consume, Process, Recover
<1>3. CASE Environment
  BY <1>3, EnvironmentBudget
<1> QED BY <1>1, <1>2, <1>3 DEF Next, Environment

\* However claims are abandoned, deferred and taken over, and whenever an edit
\* comes, a job is given up on only for the text the record has now or for
\* MaxAttempts failures since its last enqueue (steps.ts, failJob).
THEOREM DeadLetterIsEarnedAlways == Spec => []DeadLetterIsEarned
<1>1. Init => Budgeted /\ (job # None => PassesBudgeted)
  BY DEF Init, Budgeted
<1>2. BInv /\ MarkerOnlyWhileRunning => DeadLetterIsEarned
  BY DEF BInv, Budgeted, DeadLetterIsEarned, MarkerOnlyWhileRunning
<1>3. BInv /\ IInv' /\ [Next]_vars => BInv'
  BY BudgetKept
<1>4. (Budgeted /\ (job # None => PassesBudgeted)) /\ IInv <=> BInv
  BY DEF BInv
<1> QED BY <1>1, <1>2, <1>3, <1>4, Initially, Inductive, MarkerOnlyWhileRunningAlways, PTL DEF Spec

-----------------------------------------------------------------------------
(* The refinement: each step is a step of the abstract index, or none.     *)

FreshPrime == job' # None /\ job'.status \in {"completed", "skipped"}

\* A step that changes none of what the abstract index sees.
LEMMA Hidden ==
  ASSUME UNCHANGED <<record, announced, emb, Fresh>>
  PROVE  [Index!Next]_(Index!vars)
BY DEF Index!vars

LEMMA JobHidden ==
  ASSUME IInv, TypeOK', UNCHANGED <<record, announced, emb>>,
         \/ job' = job
         \/ /\ job \in Job /\ job' \in Job
            /\ job.status \notin {"completed", "skipped"}
            /\ job'.status \notin {"completed", "skipped"}
         \/ job \in Job /\ job' \in Job /\ job'.status = job.status
  PROVE  [Index!Next]_(Index!vars)
<1>1. UNCHANGED Fresh
  BY Constants DEF Fresh
<1> QED BY <1>1, Hidden

LEMMA StepsMapped == IInv /\ IInv' /\ [Next]_vars => [Index!Next]_(Index!vars)
<1> SUFFICES ASSUME IInv, IInv', [Next]_vars PROVE [Index!Next]_(Index!vars)
  OBVIOUS
<1>0. /\ TypeOK /\ TypeOK' /\ JobFirst /\ (job # None => job \in Job)
      /\ (job' # None => job' \in Job)
  BY DEF IInv, TypeOK
<1>1. CASE UNCHANGED vars
  BY <1>0, <1>1, JobHidden DEF vars, store
<1>2. ASSUME NEW p \in Procs, Save(p)
      PROVE  [Index!Next]_(Index!vars)
  BY <1>0, <1>2 DEF Save, Fresh, TypeOK, Index!Next, Index!Save
<1>3. ASSUME NEW p \in Procs, Announce(p)
      PROVE  [Index!Next]_(Index!vars)
  <2>1. CASE Find(p) \/ CreateDelivery(p) \/ (Insert(p) /\ job # None)
    BY <1>0, <2>1, JobHidden DEF Find, CreateDelivery, Insert, store
  <2>2. CASE Insert(p) /\ job = None
    BY <1>0, <2>2 DEF Insert, NewJob, Fresh, Index!Next, Index!Announce
  <2>3. CASE Reopen(p)
    <3>1. job \in Job
      BY <1>0, <2>3 DEF Reopen, JobFirst, BeforeJob
    <3>2. announced' /\ ~Fresh' /\ UNCHANGED <<record, emb>>
      BY <2>3, <3>1, ReopenedType DEF Reopen, Fresh
    <3>3. announced' = TRUE /\ Fresh' = FALSE
      BY <2>3, <3>2 DEF Reopen, Fresh
    <3> QED BY <3>2, <3>3 DEF Index!Next, Index!Announce
  <2> QED BY <1>3, <2>1, <2>2, <2>3 DEF Announce
<1>4. ASSUME NEW p \in Procs, Deliver(p)
      PROVE  [Index!Next]_(Index!vars)
  BY <1>0, <1>4, JobHidden DEF Deliver, Publish, MarkPublished, MarkPublishFailed, store
<1>5. ASSUME NEW p \in Procs, Consume(p)
      PROVE  [Index!Next]_(Index!vars)
  <2>1. CASE Receive(p)
    BY <1>0, <2>1, JobHidden DEF Receive, store
  <2>2. CASE ClaimJob(p) /\ Claimable(job)
    <3>1. job \in Job /\ gen + 1 \in Nat
      BY <1>0, <2>2 DEF ClaimJob, JobFirst, BeforeJob, TypeOK
    <3>2. job' \in Job /\ job'.status = "running"
      BY <2>2, <3>1, ClaimedType DEF ClaimJob
    <3> QED BY <1>0, <2>2, <3>1, <3>2, JobHidden DEF ClaimJob, Claimable
  <2>3. CASE ClaimJob(p) /\ ~Claimable(job)
    BY <1>0, <2>3, JobHidden DEF ClaimJob
  <2> QED BY <1>5, <2>1, <2>2, <2>3 DEF Consume
<1>6. ASSUME NEW p \in Procs, Recover(p)
      PROVE  [Index!Next]_(Index!vars)
  <2>1. CASE ListDue(p) \/ Inspect(p) \/ Abandon(p)
    BY <1>0, <2>1, JobHidden DEF ListDue, Inspect, Abandon, store
  <2>2. CASE RecoverStale(p)
    BY <1>0, <2>2, RecoveredType, JobHidden DEF RecoverStale
  <2>3. CASE ClaimNext(p) /\ job' = job
    BY <1>0, <2>3, JobHidden DEF ClaimNext
  <2>4. CASE ClaimNext(p) /\ job' # job
    <3>1. job \in Job /\ gen + 1 \in Nat /\ Claimable(job)
      BY <1>0, <2>4 DEF ClaimNext, TypeOK
    <3>2. job' \in Job /\ job'.status = "running"
      BY <2>4, <3>1, ClaimedType DEF ClaimNext
    <3> QED BY <1>0, <2>4, <3>1, <3>2, JobHidden DEF ClaimNext, Claimable
  <2> QED BY <1>6, <2>1, <2>2, <2>3, <2>4 DEF Recover
<1>7. ASSUME NEW p \in Procs, Process(p)
      PROVE  [Index!Next]_(Index!vars)
  <2>1. CASE Load(p) \/ ReadRecord(p) \/ Lookup(p) \/ Embed(p)
    BY <1>0, <2>1, JobHidden DEF Load, ReadRecord, Lookup, Embed, store
  <2>2. CASE Scrub(p) \/ Refresh(p) \/ Upsert(p)
    <3>1. UNCHANGED <<record, announced, job>>
      BY <2>2 DEF Scrub, Refresh, Upsert
    <3>2. CASE Holds(p)
      BY <1>0, <3>1, <3>2 DEF Holds, ActiveClaim, Fresh, TypeOK, Index!Next, Index!Write
    <3>3. CASE ~Holds(p)
      BY <1>0, <2>2, <3>1, <3>3, JobHidden DEF Scrub, Refresh, Upsert, Superseded
    <3> QED BY <3>2, <3>3
  <2>3. CASE Settle(p)
    <3>1. UNCHANGED <<record, announced, emb>>
      BY <2>3 DEF Settle
    <3>2. CASE ~Holds(p)
      BY <1>0, <2>3, <3>1, <3>2, JobHidden DEF Settle
    <3>3. CASE Holds(p) /\ Fresh'
      <4>1. ~Fresh
        BY <3>3 DEF Holds, ActiveClaim, Fresh
      <4>2. announced => Agrees(record, emb)
        BY <3>1, <3>3 DEF IInv, IndexMatchesRecord, Agrees
      <4>3. Fresh = FALSE /\ Fresh' = TRUE
        BY <3>3, <4>1 DEF Fresh
      <4> QED BY <3>1, <4>2, <4>3 DEF Index!Next, Index!Settle
    <3>4. CASE Holds(p) /\ ~Fresh'
      <4>1. ~Fresh
        BY <3>4 DEF Holds, ActiveClaim, Fresh
      <4>2. UNCHANGED Fresh
        BY <3>4, <4>1 DEF Fresh
      <4> QED BY <3>1, <4>2, Hidden
    <3> QED BY <3>2, <3>3, <3>4
  <2> QED BY <1>7, <2>1, <2>2, <2>3 DEF Process
<1>8. ASSUME NEW p \in Procs, Crash(p)
      PROVE  [Index!Next]_(Index!vars)
  BY <1>0, <1>8, JobHidden DEF Crash, store
<1>9. CASE BackoffEnds \/ LeaseLapses
  <2>1. job \in Job /\ job' \in Job /\ job'.status = job.status
    BY <1>0, <1>9 DEF BackoffEnds, LeaseLapses, Job
  <2> QED BY <1>0, <1>9, <2>1, JobHidden DEF BackoffEnds, LeaseLapses
<1>10. CASE SuppressionEnds \/ LoseMessage
  BY <1>0, <1>10, JobHidden DEF SuppressionEnds, LoseMessage, store
<1> QED
  BY <1>1, <1>2, <1>3, <1>4, <1>5, <1>6, <1>7, <1>8, <1>9, <1>10 DEF Next, Step

LEMMA InitMapped == Init => Index!Init
BY DEF Init, Index!Init, Fresh

\* The pipeline implements the index it promises: it writes the derived row
\* only while the job is open, only an enqueue reopens it, and it settles on
\* data that agrees with an announced record.
THEOREM PipelineImplementsIndex == Spec => ImplementsIndex
BY InitMapped, StepsMapped, Inductive, PTL DEF Spec, ImplementsIndex, Index!Spec
=============================================================================
