---------------------------- MODULE EmbeddingJob ----------------------------
(***************************************************************************)
(* One row of relationship_context_embedding_jobs, and the decision what   *)
(* to do with the record it names.  Each operator is one conditional       *)
(* statement of semantic-retrieval/drizzle-store.ts, or one pure function. *)
(*                                                                         *)
(* claimedAt is the claim's generation: two claims of a job never fall on  *)
(* one millisecond, since between them the job is settled or its lease of  *)
(* ten minutes runs out.  Times that are only compared with the clock are  *)
(* flags: `later` is run_after > now, `lapsed` is claimed_at <= now minus  *)
(* the lease.                                                              *)
(***************************************************************************)
EXTENDS Integers

CONSTANTS
  None,                 \* SQL null
  Texts,                \* embedded texts, as their fingerprints tell them apart
  MaxAttempts,          \* EMBEDDING_JOB_MAX_ATTEMPTS
  MaxTransientAttempts  \* EMBEDDING_JOB_MAX_TRANSIENT_ATTEMPTS

JobStatus == {"pending", "running", "completed", "failed", "skipped", "dead_lettered"}

Sensitivity == {"normal", "sensitive", "restricted"}

\* The record as the projections and the decision see it.
Record == [text : Texts, sensitivity : Sensitivity, retrievable : BOOLEAN]

\* One row of relationship_context_embeddings.
Embedding == [text : Texts, sensitivity : Sensitivity]

Job == [status : JobStatus, claim : Nat \cup {None}, attempts : Nat,
        rerun : BOOLEAN, deadText : Texts \cup {None},
        later : BOOLEAN, lapsed : BOOLEAN]

ASSUME EmbeddingJobAssumption ==
  /\ None \notin Texts /\ None \notin Int
  /\ None \notin Job /\ None \notin Embedding
  /\ MaxAttempts \in Nat \ {0}
  /\ MaxTransientAttempts \in Nat \ {0} /\ MaxAttempts <= MaxTransientAttempts

\* enqueueEmbeddingJob, of a record that has no job.
NewJob == [status |-> "pending", claim |-> None, attempts |-> 0, rerun |-> FALSE,
           deadText |-> None, later |-> FALSE, lapsed |-> FALSE]

\* decide...Embedding: eligibility is looked at before sensitivity.
Decision(record) ==
  CASE ~record.retrievable -> "skip"
    [] record.retrievable /\ record.sensitivity = "restricted" -> "scrub"
    [] record.retrievable /\ record.sensitivity # "restricted" -> "embed"

OnlyPending(j) == j.status = "pending" /\ ~j.later   \* variant: no retry
Claimable(j) == j.status \in {"pending", "failed"} /\ ~j.later

Claimed(j, generation) ==
  [j EXCEPT !.status = "running", !.claim = generation,
            !.attempts = @ + 1, !.lapsed = FALSE]

AnyRunningClaim(j, generation) == j.status = "running"   \* variant: status only

\* activeClaim: the running generation a processor's writes belong to.
ActiveClaim(j, generation) == j.status = "running" /\ j.claim = generation

Reopenable == {"completed", "skipped", "dead_lettered"}

ReopenedSilently(j) ==            \* variant: a running job takes no marker
  IF j.status \in Reopenable
  THEN [j EXCEPT !.status = "pending", !.claim = None, !.attempts = 0,
                 !.rerun = FALSE, !.later = FALSE]
  ELSE [j EXCEPT !.rerun = FALSE]

\* reopenEmbeddingJob, every column decided on the row as it is at the write.
Reopened(j) ==
  CASE j.status \in Reopenable ->
         [j EXCEPT !.status = "pending", !.claim = None, !.attempts = 0,
                   !.rerun = FALSE, !.later = FALSE]
    [] j.status = "running" -> [j EXCEPT !.rerun = TRUE]
    [] OTHER -> [j EXCEPT !.rerun = FALSE, !.attempts = 0]

\* A verdict names the attempts to leave and the text to remember as refused.
Verdict == [status : JobStatus \ {"running"}, attempts : Nat,
            deadText : Texts \cup {None}]

FailureStands(j, v) ==            \* variant: the budget outlives an edit
  IF j.rerun /\ v.status \notin {"failed", "pending"}
  THEN [j EXCEPT !.status = "pending", !.claim = None, !.attempts = 0,
                 !.rerun = FALSE, !.deadText = v.deadText, !.later = FALSE]
  ELSE [j EXCEPT !.status = v.status,
                 !.claim = IF v.status \in {"completed", "skipped"} THEN @ ELSE None,
                 !.attempts = v.attempts, !.rerun = FALSE,
                 !.deadText = v.deadText, !.later = v.status \in {"failed", "pending"}]

\* buildSettleUpdate: a marker turns a final verdict into another pass, and
\* gives a retry a fresh budget.
Settled(j, v) ==
  IF j.rerun /\ v.status \notin {"failed", "pending"}
  THEN [j EXCEPT !.status = "pending", !.claim = None, !.attempts = 0,
                 !.rerun = FALSE, !.deadText = v.deadText, !.later = FALSE]
  ELSE [j EXCEPT !.status = v.status,
                 !.claim = IF v.status \in {"completed", "skipped"} THEN @ ELSE None,
                 !.attempts = IF j.rerun THEN 0 ELSE v.attempts, !.rerun = FALSE,
                 !.deadText = v.deadText, !.later = v.status \in {"failed", "pending"}]

\* recoverStaleEmbeddingJobs, of a running job whose lease is over.
Recovered(j) ==
  [j EXCEPT !.status = "pending", !.claim = None, !.later = FALSE,
            !.attempts = IF j.rerun \/ @ = 0 THEN 0 ELSE @ - 1, !.rerun = FALSE]

Completed(j) == [status |-> "completed", attempts |-> j.attempts, deadText |-> None]
Skipped(j) == [status |-> "skipped", attempts |-> j.attempts, deadText |-> j.deadText]

\* redeadLetterUnchangedJob
DeadAgain(j) == [status |-> "dead_lettered", attempts |-> j.attempts, deadText |-> j.deadText]

\* deferJob: the pass the Account Ceiling refused is given back.
Deferred(j) ==
  [status |-> "pending", attempts |-> IF j.attempts = 0 THEN 0 ELSE j.attempts - 1,
   deadText |-> j.deadText]

\* failJob: dead-lettered at the cap, unless the failure retries past it.
Failed(j, cap, refusedText) ==
  IF j.attempts >= cap
  THEN [status |-> "dead_lettered", attempts |-> j.attempts, deadText |-> refusedText]
  ELSE [status |-> "failed", attempts |-> j.attempts, deadText |-> j.deadText]

FailedPastCap(j) == [status |-> "failed", attempts |-> j.attempts, deadText |-> j.deadText]
=============================================================================
