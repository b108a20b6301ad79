-------------------------- MODULE ReminderRollback --------------------------
(***************************************************************************)
(* ReminderDelivery under a Service-Wide Hold, and the reset an operator   *)
(* runs inside one before deploying code that predates delayed wake-ups.   *)
(* That code publishes only pending rows that are due and never takes a    *)
(* running job over, so the reset must leave neither a claim nor a         *)
(* published row behind, and nothing that began before the hold may undo   *)
(* it.  The earlier code itself is not modelled: a lifted hold lets the    *)
(* present code go on, as when the operator decides against the rollback.  *)
(***************************************************************************)
EXTENDS ReminderDelivery

CONSTANT MaxHolds      \* bound: how many holds are placed

ASSUME HoldAssumption == MaxHolds \in Nat

VARIABLES
  hold,     \* when the open Service-Wide Hold was placed, or None
  reset,    \* the reset has run inside the open hold (history)
  holds     \* how many holds there have been

rollbackVars == <<vars, hold, reset, holds>>

Held == hold # None

\* The proxy, the callbacks and the cron route refuse to begin anything.  A
\* proxy instance may still trust a read from before the hold was placed.
Refuses(p) == Held /\ pc[p] = "idle" /\ (p \in Owners => now > hold)

\* What ReminderDelivery does, while the hold keeps new invocations out, those
\* of the owner's mutations that are one step included.
Deliver ==
  /\ Next
  /\ \A p \in Procs : Refuses(p) => pc'[p] = "idle"
  /\ Held /\ now > hold => UNCHANGED ops
  /\ UNCHANGED <<hold, reset, holds>>

\* The cron route answers "held" and does nothing.
HeldPass ==
  /\ Held
  /\ \E c \in Crons : /\ pc[c] = "idle" /\ passAt[c] < now
                      /\ passAt' = [passAt EXCEPT ![c] = now]
  /\ UNCHANGED <<now, alertVars, job, row, queue, sent, pushed, pc, frame, ops, faults,
                 hold, reset, holds>>

PlaceHold ==
  /\ ~Held /\ holds < MaxHolds
  /\ hold' = now /\ reset' = FALSE /\ holds' = holds + 1
  /\ UNCHANGED vars

LiftHold ==
  /\ Held
  /\ hold' = None /\ reset' = FALSE
  /\ UNCHANGED <<vars, holds>>

RollbackUnblockedAtOnce == Held     \* variant: the claims are not waited out
\* reminderRollbackBlocker: the hold is at least one claim lease old.
RollbackUnblocked == Held /\ hold + Lease <= now

\* A claim whose lease is over becomes a retry due now.
Released(j) ==
  IF LeaseExpired(j, now)
  THEN [Settled(j, "failed", "transient_failure", now) EXCEPT !.nextAttemptAt = now]
  ELSE j

ReturnedUnderOldKey(d, dueAt) ==     \* variant: the revision is kept
  [d EXCEPT !.status = "pending", !.publishedAt = None, !.nextAttemptAt = dueAt]

\* The row goes back to cron-only publication, under a new revision.
Returned(d, dueAt) == Revised(d, dueAt)

\* resetReminderDeliveriesToCronOnly, one transaction that locks the hold.
ResetToCronOnly ==
  /\ RollbackUnblocked /\ ~reset
  /\ job' = IF job = None THEN None ELSE Released(job)
  /\ row' = IF row # None /\ job # None /\ ~Finished(job)
            THEN Returned(row, job'.nextAttemptAt) ELSE row
  /\ reset' = TRUE
  /\ UNCHANGED <<now, alertVars, queue, sent, pushed, passAt, pc, frame, ops, faults,
                 hold, holds>>

RollbackInit == Init /\ hold = None /\ reset = FALSE /\ holds = 0

RollbackNext == Deliver \/ HeldPass \/ PlaceHold \/ LiftHold \/ ResetToCronOnly

RollbackSpec == RollbackInit /\ [][RollbackNext]_rollbackVars

-----------------------------------------------------------------------------
(* Properties.                                                             *)

Live == job # None /\ ~Finished(job)

\* From the reset until the hold is lifted, the earlier code finds every live
\* job claimable and its row pending and due when the job is: no dispatch taken
\* before the hold still runs or has died holding its claim, and no send, mark
\* or re-arm that was under way overwrites the row (delivery-wakeups.ts:276-285).
HandedOver ==
  reset /\ Live =>
    /\ job.status # "running"
    /\ row # None => row.status = "pending" /\ row.nextAttemptAt = job.nextAttemptAt

\* The row's next send is not one the provider may still be suppressing as a
\* repetition: the reset never leaves a revision that was sent before.
FreshKey == reset /\ Live /\ row # None => row.revision \notin sent
=============================================================================
