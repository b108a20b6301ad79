--------------------------- MODULE DeliveryOutbox ---------------------------
(***************************************************************************)
(* One row of background_job_deliveries, the transactional outbox that     *)
(* every background job family shares, and the pointer it puts on the      *)
(* provider's queue.  Each operator is one statement of the drizzle store, *)
(* or one pure helper of queue-publish.ts; the modules that EXTEND this    *)
(* one decide when a process runs it.                                      *)
(*                                                                         *)
(* The columns attempts, lastError and updatedAt are written but never     *)
(* read back by the delivery protocol and are left out.                    *)
(***************************************************************************)
EXTENDS Integers

CONSTANTS
  None,         \* SQL null / an absent optional argument
  RetryDelay,   \* DEFAULT_RETRY_DELAY_MS, in ticks
  MaxDelay,     \* QUEUE_MAX_DELAY_SECONDS, in ticks
  Headroom      \* QUEUE_RETRY_HEADROOM_SECONDS, in ticks

ASSUME OutboxAssumption ==
  /\ None \notin Int
  /\ RetryDelay \in Nat \ {0}
  /\ MaxDelay \in Nat \ {0}
  /\ Headroom \in Nat \ {0}

DeliveryStatus == {"pending", "published", "publish_failed", "abandoned"}

Delivery == [status : DeliveryStatus, revision : Nat,
             nextAttemptAt : Nat, publishedAt : Nat \cup {None}]

\* createBackgroundJobDelivery of a row that does not exist yet.
NewDelivery(dueAt) ==
  [status |-> "pending", revision |-> 0,
   nextAttemptAt |-> dueAt, publishedAt |-> None]

\* deliveryTarget: does a write that names `fence` (None: unfenced) reach d?
Targets(d, fence) == d # None /\ (fence = None \/ d.revision = fence)

Revised(d, dueAt) ==
  [d EXCEPT !.status = "pending", !.nextAttemptAt = dueAt,
            !.publishedAt = None, !.revision = @ + 1]

MarkedPublished(d, at, expectedAt) ==
  [d EXCEPT !.status = "published", !.publishedAt = at,
            !.nextAttemptAt = IF expectedAt = None THEN @ ELSE expectedAt]

MarkedPublishFailed(d, at) ==
  [d EXCEPT !.status = "publish_failed", !.nextAttemptAt = at + RetryDelay]

Abandoned(d) == [d EXCEPT !.status = "abandoned"]

\* listDueBackgroundJobDeliveries, for the one row.
DueDelivery(d, statuses, t) ==
  d # None /\ d.status \in statuses /\ d.nextAttemptAt <= t

\* scheduledQueueTiming: a due time further than MaxDelay is a checkpoint.
QueueDelay(deliverAt, at) ==
  IF deliverAt <= at THEN 0
  ELSE IF deliverAt - at > MaxDelay THEN MaxDelay ELSE deliverAt - at

Message == [revision : Nat, visibleAt : Nat, expiresAt : Nat]

\* What the provider stores for a send made at time t.
Pointer(revision, delay, t) ==
  [revision |-> revision, visibleAt |-> t + delay, expiresAt |-> t + delay + Headroom]

\* validatePublishedDelivery: is the current-revision pointer to be processed?
\* A revision-zero payload carries no revision, so only a confirmed publish is.
Processable(d, revision) ==
  /\ d.revision = revision
  /\ \/ d.status = "published"
     \/ revision # 0 /\ d.status \in {"pending", "publish_failed"}
=============================================================================
