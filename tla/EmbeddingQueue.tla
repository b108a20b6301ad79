--------------------------- MODULE EmbeddingQueue ---------------------------
(***************************************************************************)
(* The semantic index of one record: the owner's mutations announce it,    *)
(* queue callbacks and the hourly recovery pass embed it.  A process runs  *)
(* one database statement or one external call per step and keeps what it  *)
(* read in its frame; any interleaving of steps is possible.  The row's    *)
(* statements are in EmbeddingJob.                                         *)
(*                                                                         *)
(* The outbox row of this family is never revised, so its revision stays   *)
(* 0 and only its status matters; when it is next due is left open.        *)
(***************************************************************************)
EXTENDS EmbeddingJob, FiniteSets

CONSTANTS
  Owners,    \* invocations made by the owner's mutations
  Workers,   \* queue callbacks
  Crons,     \* recovery passes
  Records,   \* what the owner may save
  Rejected,  \* texts the provider refuses
  Overlap,   \* may a claim's lease end while the invocation that took it runs?
  MaxEdits, MaxFaults   \* bounds: saves, and crashes and failed calls

Procs == Owners \cup Workers \cup Crons

ASSUME EmbeddingQueueAssumption ==
  /\ Owners \cap Workers = {} /\ Crons \cap (Owners \cup Workers) = {}
  /\ Records # {} /\ Records \subseteq Record
  /\ Rejected \subseteq Texts
  /\ Overlap \in BOOLEAN
  /\ MaxEdits \in Nat /\ MaxFaults \in Nat

VARIABLES
  record,     \* the record as it is stored
  announced,  \* has an enqueue been committed since the last save? (history)
  job,        \* the embedding job row, or None
  emb,        \* the embedding row, or None
  delivery,   \* the status of the job's outbox row, or "none"
  queue,      \* how many pointers the provider holds
  keyUsed,    \* the provider still suppresses the row's idempotency key
  gen,        \* claims taken so far, the source of claim generations
  misses,     \* failed passes settled since the last enqueue (history)
  pc, frame,  \* the processes
  edits, faults

store == <<record, announced, job, emb, delivery>>
provider == <<queue, keyUsed>>
vars == <<store, provider, gen, misses, pc, frame, edits, faults>>

NoFrame == [job |-> None, record |-> None, verdict |-> None]

Frame == [job : Job \cup {None}, record : Records \cup {None}, verdict : Verdict \cup {None}]

DeliveryStates == {"none", "pending", "published", "publish_failed", "abandoned"}

Labels == {"idle", "find", "insert", "reopen", "create", "publish", "mark", "markFailed",
           "claim", "load", "read", "scrub", "lookup", "refresh", "embed", "upsert", "settle",
           "inspect", "abandon", "recover", "claimNext"}

TypeOK ==
  /\ record \in Records /\ announced \in BOOLEAN
  /\ job \in Job \cup {None} /\ emb \in Embedding \cup {None}
  /\ delivery \in DeliveryStates
  /\ queue \in Nat /\ keyUsed \in BOOLEAN
  /\ gen \in Nat /\ misses \in Nat
  /\ pc \in [Procs -> Labels] /\ frame \in [Procs -> Frame]
  /\ edits \in 0..MaxEdits /\ faults \in 0..MaxFaults

Init ==
  /\ record \in Records /\ announced = FALSE
  /\ job = None /\ emb = None /\ delivery = "none"
  /\ queue = 0 /\ keyUsed = FALSE
  /\ gen = 0 /\ misses = 0
  /\ pc = [p \in Procs |-> "idle"] /\ frame = [p \in Procs |-> NoFrame]
  /\ edits = 0 /\ faults = 0

-----------------------------------------------------------------------------
(* Helpers.                                                                *)

Goto(p, label) == pc' = [pc EXCEPT ![p] = label]

\* A step to a label that needs nothing the process has read.
Forget(p, label) == Goto(p, label) /\ frame' = [frame EXCEPT ![p] = NoFrame]

Fault == faults < MaxFaults /\ faults' = faults + 1

\* The callback returns, so the provider drops the pointer it was given.
Acknowledge == queue' = IF queue = 0 THEN 0 ELSE queue - 1

Drop(p) == IF p \in Workers THEN Acknowledge ELSE UNCHANGED queue

\* Where a pass that is over leaves its process: a recovery pass asks
\* stopClaiming before each further claim.
After(p) == IF p \in Crons THEN {"claimNext", "idle"} ELSE {"idle"}

\* A pass that ends without a failure: its caller returns normally.
EndPass(p) == Drop(p) /\ \E label \in After(p) : Forget(p, label)

Holds(p) == ActiveClaim(job, frame[p].job.claim)

-----------------------------------------------------------------------------
(* The owner's mutation, and enqueueAndPublishBackgroundJob after it.      *)

Save(p) ==
  /\ p \in Owners /\ pc[p] = "idle" /\ edits < MaxEdits
  /\ edits' = edits + 1
  /\ record' \in Records
  /\ announced' = FALSE
  /\ Goto(p, "find")
  /\ UNCHANGED <<job, emb, delivery, provider, gen, misses, frame, faults>>

Find(p) ==
  /\ pc[p] = "find"
  /\ Goto(p, IF job = None THEN "insert" ELSE "reopen")
  /\ UNCHANGED <<store, provider, gen, misses, frame, edits, faults>>

\* The idempotency key is unique: the insert of a job another mutation has
\* inserted since the lookup fails, and the mutation with it.
Insert(p) ==
  /\ pc[p] = "insert"
  /\ IF job = None
     THEN job' = NewJob /\ announced' = TRUE /\ misses' = 0 /\ Goto(p, "create")
     ELSE Goto(p, "idle") /\ UNCHANGED <<job, announced, misses>>
  /\ UNCHANGED <<record, emb, delivery, provider, gen, frame, edits, faults>>

Reopen(p) ==
  /\ pc[p] = "reopen"
  /\ job' = Reopened(job) /\ announced' = TRUE /\ misses' = 0
  /\ Goto(p, "create")
  /\ UNCHANGED <<record, emb, delivery, provider, gen, frame, edits, faults>>

CreateDelivery(p) ==
  /\ pc[p] = "create"
  /\ delivery' = IF delivery = "none" THEN "pending" ELSE delivery
  /\ Goto(p, "publish")
  /\ UNCHANGED <<record, announced, job, emb, provider, gen, misses, frame, edits, faults>>

\* publishBackgroundJobDelivery: whatever the row's status, the pointer is
\* sent under its one key, which the provider suppresses for up to a day.
Publish(p) ==
  /\ pc[p] = "publish"
  /\ \/ /\ queue' = IF keyUsed THEN queue ELSE queue + 1
        /\ keyUsed' = TRUE
        /\ Goto(p, "mark")
        /\ UNCHANGED faults
     \/ Fault /\ Goto(p, "markFailed") /\ UNCHANGED provider
  /\ UNCHANGED <<store, gen, misses, frame, edits>>

\* What a process does after it has recorded how a publish went.
Published(p) == Goto(p, IF p \in Crons THEN "recover" ELSE "idle")

MarkPublished(p) ==
  /\ pc[p] = "mark"
  /\ delivery' = "published"
  /\ Published(p)
  /\ UNCHANGED <<record, announced, job, emb, provider, gen, misses, frame, edits, faults>>

MarkPublishFailed(p) ==
  /\ pc[p] = "markFailed"
  /\ delivery' = "publish_failed"
  /\ Published(p)
  /\ UNCHANGED <<record, announced, job, emb, provider, gen, misses, frame, edits, faults>>

-----------------------------------------------------------------------------
(* The queue callback, up to its claim.                                    *)

\* validatePublishedDelivery: this family's pointer carries no revision, so
\* one that comes before its publish is recorded is dropped.
Receive(p) ==
  /\ p \in Workers /\ pc[p] = "idle" /\ queue > 0
  /\ IF delivery = "published"
     THEN Goto(p, "claim") /\ UNCHANGED queue
     ELSE Acknowledge /\ UNCHANGED pc
  /\ UNCHANGED <<store, keyUsed, gen, misses, frame, edits, faults>>

ClaimJob(p) ==
  /\ pc[p] = "claim"
  /\ IF Claimable(job)
     THEN /\ gen' = gen + 1
          /\ job' = Claimed(job, gen + 1)
          /\ Goto(p, "load")
          /\ UNCHANGED queue
     ELSE Acknowledge /\ Goto(p, "idle") /\ UNCHANGED <<gen, job>>
  /\ UNCHANGED <<record, announced, emb, delivery, keyUsed, misses, frame, edits, faults>>

-----------------------------------------------------------------------------
(* One pass of processEmbeddingJob with claim: false.                      *)

\* The job is read again: a running one is processed as it is found.
Load(p) ==
  /\ pc[p] = "load"
  /\ \/ /\ job.status = "running"
        /\ frame' = [frame EXCEPT ![p].job = job]
        /\ Goto(p, "read")
        /\ UNCHANGED queue
     \/ job.status # "running" /\ EndPass(p)
  /\ UNCHANGED <<store, keyUsed, gen, misses, edits, faults>>

\* The record is read once; the pass decides on this copy.
ReadRecord(p) ==
  /\ pc[p] = "read"
  /\ frame' = [frame EXCEPT
       ![p].record = record,
       ![p].verdict = IF Decision(record) = "embed" THEN None ELSE Skipped(frame[p].job)]
  /\ Goto(p, CASE Decision(record) = "embed" -> "lookup"
               [] Decision(record) = "scrub" -> "scrub"
               [] Decision(record) = "skip" -> "settle")
  /\ UNCHANGED <<store, provider, gen, misses, edits, faults>>

\* A step whose fenced write finds the claim gone: the pass is superseded.
Superseded(p) == ~Holds(p) /\ EndPass(p) /\ UNCHANGED <<emb, faults>>

\* A step that leaves verdict v to be settled.
Decide(p, v) == Goto(p, "settle") /\ frame' = [frame EXCEPT ![p].verdict = v]

Scrub(p) ==
  /\ pc[p] = "scrub"
  /\ \/ /\ Holds(p) /\ emb' = None
        /\ Goto(p, "settle")
        /\ UNCHANGED <<queue, frame, faults>>
     \/ Fault /\ Decide(p, FailedPastCap(frame[p].job)) /\ UNCHANGED <<emb, queue>>
     \/ Superseded(p)
  /\ UNCHANGED <<record, announced, job, delivery, keyUsed, gen, misses, edits>>

\* reuseOrEmbed, up to the provider's call.
Lookup(p) ==
  LET found == emb # None /\ emb.text = frame[p].record.text
  IN /\ pc[p] = "lookup"
     /\ \/ /\ found /\ emb.sensitivity = frame[p].record.sensitivity
           /\ Decide(p, Completed(frame[p].job))
        \/ /\ found /\ emb.sensitivity # frame[p].record.sensitivity
           /\ Goto(p, "refresh") /\ UNCHANGED frame
        \/ /\ ~found /\ frame[p].job.deadText = frame[p].record.text
           /\ Decide(p, DeadAgain(frame[p].job))
        \/ /\ ~found /\ frame[p].job.deadText # frame[p].record.text
           /\ Goto(p, "embed") /\ UNCHANGED frame
     /\ UNCHANGED <<store, provider, gen, misses, edits, faults>>

\* converge: only the columns beside the vector are brought up to date.
Refresh(p) ==
  /\ pc[p] = "refresh"
  /\ \/ /\ Holds(p) /\ emb # None
        /\ emb' = [emb EXCEPT !.sensitivity = frame[p].record.sensitivity]
        /\ Decide(p, Completed(frame[p].job))
        /\ UNCHANGED <<queue, faults>>
     \/ /\ Holds(p) /\ emb = None
        /\ Decide(p, Failed(frame[p].job, MaxAttempts, None))
        /\ UNCHANGED <<emb, queue, faults>>
     \/ Superseded(p)
  /\ UNCHANGED <<record, announced, job, delivery, keyUsed, gen, misses, edits>>

\* The provider answers: a vector, a refusal of the text, an Account Ceiling
\* that pauses background work, an outage, or an error that is neither.
Embed(p) ==
  /\ pc[p] = "embed"
  /\ \/ /\ frame[p].record.text \notin Rejected
        /\ Goto(p, "upsert") /\ UNCHANGED <<frame, faults>>
     \/ /\ frame[p].record.text \in Rejected
        /\ Decide(p, Failed(frame[p].job, MaxAttempts, frame[p].record.text))
        /\ UNCHANGED faults
     \/ Fault /\ Decide(p, Deferred(frame[p].job))
     \/ Fault /\ \E cap \in {MaxAttempts, MaxTransientAttempts} :
                   Decide(p, Failed(frame[p].job, cap, None))
  /\ UNCHANGED <<store, provider, gen, misses, edits>>

Upsert(p) ==
  /\ pc[p] = "upsert"
  /\ \/ /\ Holds(p)
        /\ emb' = [text |-> frame[p].record.text, sensitivity |-> frame[p].record.sensitivity]
        /\ Decide(p, Completed(frame[p].job))
        /\ UNCHANGED <<queue, faults>>
     \/ Superseded(p)
  /\ UNCHANGED <<record, announced, job, delivery, keyUsed, gen, misses, edits>>

\* A failed outcome makes the callback throw, so its pointer is kept for
\* redelivery; every other outcome acknowledges it.
Throws(v) == v.status \in {"failed", "dead_lettered"}

Settle(p) ==
  LET v == frame[p].verdict
      failed == Holds(p) /\ Throws(v)
  IN /\ pc[p] = "settle"
     /\ job' = IF Holds(p) THEN Settled(job, v) ELSE job
     /\ misses' = IF failed /\ ~job.rerun /\ job.deadText # frame[p].record.text
                  THEN misses + 1 ELSE misses
     /\ IF failed THEN UNCHANGED queue ELSE Drop(p)
     /\ \E label \in After(p) : Forget(p, label)
     /\ UNCHANGED <<record, announced, emb, delivery, keyUsed, gen, edits, faults>>

-----------------------------------------------------------------------------
(* The recovery pass: republishDueDeliveries, then runEmbeddingBackfill.   *)

ListDue(p) ==
  /\ p \in Crons /\ pc[p] = "idle"
  /\ \/ delivery \in {"pending", "publish_failed"} /\ Goto(p, "inspect")
     \/ Goto(p, "recover")              \* nothing is due yet
  /\ UNCHANGED <<store, provider, gen, misses, frame, edits, faults>>

Inspect(p) ==
  /\ pc[p] = "inspect"
  /\ Goto(p, IF job.status \in {"completed", "skipped", "dead_lettered"}
             THEN "abandon" ELSE "publish")
  /\ UNCHANGED <<store, provider, gen, misses, frame, edits, faults>>

\* Fenced to the row's revision, which is always 0 here.
Abandon(p) ==
  /\ pc[p] = "abandon"
  /\ delivery' = "abandoned"
  /\ Goto(p, "recover")
  /\ UNCHANGED <<record, announced, job, emb, provider, gen, misses, frame, edits, faults>>

RecoverStale(p) ==
  /\ pc[p] = "recover"
  /\ job' = IF job # None /\ job.status = "running" /\ job.lapsed THEN Recovered(job) ELSE job
  /\ Goto(p, "claimNext")
  /\ UNCHANGED <<record, announced, emb, delivery, provider, gen, misses, frame, edits, faults>>

ClaimNext(p) ==
  /\ pc[p] = "claimNext"
  /\ IF job # None /\ Claimable(job)
     THEN gen' = gen + 1 /\ job' = Claimed(job, gen + 1) /\ Goto(p, "load")
     ELSE Goto(p, "idle") /\ UNCHANGED <<gen, job>>
  /\ UNCHANGED <<record, announced, emb, delivery, provider, misses, frame, edits, faults>>

-----------------------------------------------------------------------------
(* Time, the provider and faults.                                          *)

\* run_after comes.
BackoffEnds ==
  /\ job # None /\ job.later
  /\ job' = [job EXCEPT !.later = FALSE]
  /\ UNCHANGED <<record, announced, emb, delivery, provider, gen, misses, pc, frame, edits, faults>>

PassLabels == {"load", "read", "scrub", "lookup", "refresh", "embed", "upsert", "settle"}

\* The claim's lease ends, as a fault while an invocation still works on a job.
LeaseLapses ==
  /\ job # None /\ job.status = "running" /\ ~job.lapsed
  /\ job' = [job EXCEPT !.lapsed = TRUE]
  /\ \/ (\A p \in Procs : pc[p] \notin PassLabels) /\ UNCHANGED faults
     \/ Overlap /\ Fault
  /\ UNCHANGED <<record, announced, emb, delivery, provider, gen, misses, pc, frame, edits>>

SuppressionEnds ==
  /\ keyUsed /\ keyUsed' = FALSE
  /\ UNCHANGED <<store, queue, gen, misses, pc, frame, edits, faults>>

\* A pointer the provider gives up on.
LoseMessage ==
  /\ queue > 0 /\ queue' = queue - 1 /\ Fault
  /\ UNCHANGED <<store, keyUsed, gen, misses, pc, frame, edits>>

Crash(p) ==
  /\ pc[p] # "idle" /\ Fault
  /\ Forget(p, "idle")
  /\ UNCHANGED <<store, provider, gen, misses, edits>>

-----------------------------------------------------------------------------
Announce(p) == Find(p) \/ Insert(p) \/ Reopen(p) \/ CreateDelivery(p)

Deliver(p) == Publish(p) \/ MarkPublished(p) \/ MarkPublishFailed(p)

Process(p) ==
  \/ Load(p) \/ ReadRecord(p) \/ Scrub(p) \/ Lookup(p) \/ Refresh(p)
  \/ Embed(p) \/ Upsert(p) \/ Settle(p)

Recover(p) ==
  ListDue(p) \/ Inspect(p) \/ Abandon(p) \/ RecoverStale(p) \/ ClaimNext(p)

Consume(p) == Receive(p) \/ ClaimJob(p)

Step(p) == Announce(p) \/ Deliver(p) \/ Consume(p) \/ Process(p) \/ Recover(p)

Next ==
  \/ \E p \in Procs : Save(p) \/ Step(p) \/ Crash(p)
  \/ BackoffEnds \/ LeaseLapses \/ SuppressionEnds \/ LoseMessage

Spec == Init /\ [][Next]_vars

\* A started invocation goes on, the pass is scheduled every hour, the clock
\* advances and the provider delivers: none is fair about the owner's saves,
\* the faults or a second claim of a pass that may stop.
Fairness ==
  /\ \A p \in Procs : WF_vars(Step(p))
  /\ WF_vars(BackoffEnds) /\ WF_vars(LeaseLapses)

FairSpec == Spec /\ Fairness

-----------------------------------------------------------------------------
(* What the index promises.                                                *)

Agrees(r, e) ==
  CASE Decision(r) = "embed" -> e = [text |-> r.text, sensitivity |-> r.sensitivity]
    [] Decision(r) = "scrub" -> e = None
    [] Decision(r) = "skip"  -> TRUE

Fresh == job # None /\ job.status \in {"completed", "skipped"}

\* The pipeline implements the index it promises.
Index == INSTANCE DerivedIndex
  WITH Sources <- Records, Derivations <- Embedding, Nothing <- None,
       source <- record, derived <- emb, settled <- Fresh

\* Every step of the pipeline is a step of the abstract index: the derived row
\* changes only while the job is open, only an enqueue reopens it, and it
\* settles on data that agrees with an announced record.
ImplementsIndex == Index!Spec

\* Once the record's last save is announced, a job at rest in completed or
\* skipped means the index holds exactly what the record says now - no vector
\* of an older text, no sensitivity the owner has since raised, and nothing of
\* a retrievable record that is restricted.
IndexMatchesRecord == announced /\ Fresh => Agrees(record, emb)

\* A job is given up on only if the provider refused the text the record has
\* now, or the passes since the last enqueue failed MaxAttempts times: an
\* edit's budget is not spent by failures before it, by abandoned claims or by
\* passes the Account Ceiling refused.
DeadLetterIsEarned ==
  announced /\ job # None /\ job.status = "dead_lettered"
    => job.deadText = record.text \/ misses >= MaxAttempts

\* The marker of a rerun request is on a running job only, so that no request
\* is left for a pass that never comes.
MarkerOnlyWhileRunning == job # None /\ job.rerun => job.status = "running"

\* Every announced record comes to rest - embedded, scrubbed, skipped or
\* given up on for cause - however the announcement met the passes in flight.
EventuallySettled ==
  <>[](announced => Fresh \/ (job # None /\ job.status = "dead_lettered"))
=============================================================================
