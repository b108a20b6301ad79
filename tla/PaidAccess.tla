----------------------------- MODULE PaidAccess -----------------------------
(***************************************************************************)
(* Paid Access of one account: the customer's subscriptions at Stripe, the *)
(* copy of them the database keeps, and the subscription the account's     *)
(* access profile names as the one paying for it.  Webhook invocations,    *)
(* reconciliation passes and the operator's actions each run one database  *)
(* statement or one Stripe call per step, in any interleaving; a webhook   *)
(* event may be delivered at any time, again, or never.                    *)
(***************************************************************************)
EXTENDS Integers, Sequences

CONSTANTS
  None,
  Subs,          \* the subscriptions the customer may take out
  Hooks,         \* webhook invocations
  Passes,        \* reconciliation passes
  Operators,     \* operators running a Refund or a re-admission
  Changes,       \* what the customer and Stripe do in this instance
  MaxChanges,    \* bound: how often they do something
  MaxFaults      \* bound: failed calls and dead invocations

ASSUME PaidAccessAssumption ==
  /\ None \notin Subs
  /\ (Hooks \cup Operators) \cap Passes = {}
  /\ MaxChanges \in Nat /\ MaxFaults \in Nat

VARIABLES
  stripe,    \* each subscription at Stripe
  dispute,   \* each subscription's dispute, at Stripe and on record
  refund,    \* each subscription's refund: its record, and the refund at Stripe
  record,    \* stripe_subscriptions: what is recorded of each subscription
  payer,     \* the subscription the access profile is granted by, or None
  pc, frame, \* what an invocation runs next, and what it has read
  todo,      \* the stage a pass is in, and what it has still to do of its list
  changes, faults

external == <<stripe, changes>>
vars == <<stripe, dispute, refund, record, payer, pc, frame, todo, changes, faults>>

Procs == Hooks \cup Passes \cup Operators

Subscription ==
  [status: {"none", "session", "live", "ended"},
   cancelAt: {"none", "customer", "tendnote"},   \* who scheduled the cancellation
   renewal: {"paid", "failed", "overdue"}]       \* overdue: its dunning window is closed

Dispute ==
  [state: {"none", "open", "won"},               \* at Stripe
   known: BOOLEAN, renewalStopped: BOOLEAN,      \* stripe_disputes
   excepted: BOOLEAN]                            \* admission_exceptions

\* recorded: by the operator; made: at Stripe; attached: the record names it.
RefundState == {"none", "recorded", "made", "attached", "revoked"}

Record == [endedAt: BOOLEAN, pastDue: BOOLEAN]

Snapshot == [endedAt: BOOLEAN, cancelAt: BOOLEAN, renewal: {"paid", "failed", "overdue"}]

Tasks == {"admit", "change", "refund", "dispute", "dunning", "readmit"}

Labels ==
  {"idle", "next", "check", "retrieve", "record", "lapse", "blocks", "grant_read", "grant",
   "match", "revoke", "cancel", "mark", "see_dispute", "note_stop", "stop",
   "record_refund", "make_refund", "attach", "except", "resume", "standing"}

NoSnapshot == [endedAt |-> FALSE, cancelAt |-> FALSE, renewal |-> "paid"]

NoFrame == [sub |-> None, task |-> "change", snap |-> NoSnapshot, stopped |-> FALSE]

\* Checkout has been paid: Stripe has the subscription and its first invoice.
Begun(s) == stripe[s].status \in {"live", "ended"}

Refunded(s) == refund[s] \in {"made", "attached", "revoked"}

RevokedByRefund(s) == refund[s] \in {"attached", "revoked"}   \* variant: disputes are not asked for
\* listSubscriptionRevocationBlocks and isSubscriptionRevoked.
Revoked(s) ==
  \/ refund[s] \in {"attached", "revoked"}
  \/ dispute[s].known /\ ~dispute[s].excepted

\* subscriptionSnapshot of Stripe's current copy.
Current(s) ==
  LET ended == stripe[s].status = "ended" IN
  [endedAt |-> ended, cancelAt |-> stripe[s].cancelAt # "none",
   renewal |-> IF ended THEN "paid" ELSE stripe[s].renewal]

-----------------------------------------------------------------------------
(* Control.                                                                *)

Goto(p, label) == pc' = [pc EXCEPT ![p] = label] /\ UNCHANGED <<frame, todo, faults>>

\* The invocation answers, or the pass goes on to its next item.
Over(p) ==
  /\ pc' = [pc EXCEPT ![p] = IF p \in Passes THEN "next" ELSE "idle"]
  /\ frame' = [frame EXCEPT ![p] = NoFrame]
  /\ UNCHANGED <<todo, faults>>

Read(p, snap, label) ==
  /\ frame' = [frame EXCEPT ![p].snap = snap]
  /\ pc' = [pc EXCEPT ![p] = label]
  /\ UNCHANGED <<todo, faults>>

Work(p, s, task, label) ==
  /\ pc' = [pc EXCEPT ![p] = label]
  /\ frame' = [frame EXCEPT ![p] = [NoFrame EXCEPT !.sub = s, !.task = task]]

\* Where each kind of work begins.
FirstStep(task) ==
  CASE task = "admit" -> "check"
    [] task \in {"change", "dunning"} -> "retrieve"
    [] task = "refund" -> "match"
    [] task = "dispute" -> "see_dispute"

\* What Stripe has announced, or the reconciliation finds listed there.
Announced(task) ==
  CASE task \in {"admit", "change"} -> {s \in Subs : Begun(s)}
    [] task = "refund" -> {s \in Subs : Refunded(s)}
    [] task = "dispute" -> {s \in Subs : dispute[s].state # "none"}
    [] task = "dunning" -> {s \in Subs : record[s].pastDue /\ ~record[s].endedAt}

Unread == UNCHANGED <<stripe, dispute, refund, record, payer, changes>>

\* A webhook event arrives: once, again, late or in any order.
Receive(p) ==
  /\ pc[p] = "idle"
  /\ \E task \in {"admit", "change", "refund", "dispute"} : \E s \in Announced(task) :
       Work(p, s, task, FirstStep(task))
  /\ Unread /\ UNCHANGED <<todo, faults>>

\* The stages of a pass, in the code's order: the replays come before the
\* dunning windows, so that a recovery whose webhook was lost is on record.
Stages == <<"admit", "change", "refund", "dispute", "dunning">>

\* Each stage reads its list at Stripe as it begins; the last one lists what is
\* past due on record, and closes only the windows Stripe's copy says are over.
NextStage(p) ==
  LET stage == todo[p].stage + 1 IN
  /\ pc[p] = "next" \/ (pc[p] = "idle" /\ p \in Passes)
  /\ todo[p].subs = {}
  /\ IF stage > Len(Stages)
     THEN /\ todo' = [todo EXCEPT ![p] = [stage |-> 0, subs |-> {}]]
          /\ pc' = [pc EXCEPT ![p] = "idle"]
     ELSE /\ todo' = [todo EXCEPT ![p] = [stage |-> stage, subs |-> Announced(Stages[stage])]]
          /\ pc' = [pc EXCEPT ![p] = "next"]
  /\ Unread /\ UNCHANGED <<frame, faults>>

NextItem(p) ==
  /\ pc[p] = "next"
  /\ \E s \in todo[p].subs :
       /\ todo' = [todo EXCEPT ![p].subs = @ \ {s}]
       /\ LET task == Stages[todo[p].stage] IN Work(p, s, task, FirstStep(task))
  /\ Unread /\ UNCHANGED faults

-----------------------------------------------------------------------------
(* Projection of a snapshot, and the admission of a first paid invoice.    *)

\* An end already on record is refused without asking Stripe.
CheckEnd(p) ==
  /\ pc[p] = "check"
  /\ IF record[frame[p].sub].endedAt THEN Over(p) ELSE Goto(p, "retrieve")
  /\ Unread

\* What each kind of work does with Stripe's current copy.
AfterRetrieve(p, snap) ==
  LET f == frame[p] IN
  CASE f.task = "refund" /\ ~snap.endedAt -> "cancel"
    [] f.task = "dispute" /\ ~snap.endedAt /\ ~snap.cancelAt -> "note_stop"
    [] f.task = "dunning" /\ snap.renewal = "overdue" -> "cancel"
    [] f.task = "readmit" /\ ~snap.endedAt ->
         IF f.stopped /\ snap.cancelAt THEN "resume" ELSE "standing"
    [] OTHER -> "record"

Retrieve(p) ==
  /\ pc[p] = "retrieve"
  /\ LET snap == Current(frame[p].sub) IN Read(p, snap, AfterRetrieve(p, snap))
  /\ Unread

RecordedOver(old, snap) ==     \* variant: the end is replaced as well
  [endedAt |-> snap.endedAt, pastDue |-> snap.renewal # "paid"]
RecordedOnce(old, snap) ==     \* variant: a failed renewal is recorded on insert only
  [endedAt |-> old.endedAt \/ snap.endedAt, pastDue |-> old.pastDue]
\* recordStripeSubscription: the end is kept once recorded, the rest replaced.
Recorded(old, snap) ==
  [endedAt |-> old.endedAt \/ snap.endedAt, pastDue |-> snap.renewal # "paid"]

\* What follows a projection.
AfterProjection(p) ==
  CASE frame[p].task = "admit" /\ ~frame[p].snap.endedAt -> Goto(p, "blocks")
    [] frame[p].task = "refund" -> Goto(p, "mark")
    [] OTHER -> Over(p)

RecordSubscription(p) ==
  LET s == frame[p].sub IN
  /\ pc[p] = "record"
  /\ record' = [record EXCEPT ![s] = Recorded(@, frame[p].snap)]
  /\ IF frame[p].snap.endedAt THEN Goto(p, "lapse") ELSE AfterProjection(p)
  /\ UNCHANGED <<stripe, dispute, refund, payer, changes>>

EndedByAny(s) == None          \* variant: any subscription's end counts
\* endPaidAccess: only the subscription that pays can end the account's access.
EndPaidAccess(s) == IF payer = s THEN None ELSE payer

Lapse(p) ==
  /\ pc[p] = "lapse"
  /\ payer' = EndPaidAccess(frame[p].sub)
  /\ AfterProjection(p)
  /\ UNCHANGED <<stripe, dispute, refund, record, changes>>

\* The revocation blocks, as admission, a dispute and a re-admission ask for them.
Blocks(p) ==
  LET s == frame[p].sub IN
  /\ pc[p] = "blocks"
  /\ CASE frame[p].task = "admit" -> IF Revoked(s) THEN Over(p) ELSE Goto(p, "grant_read")
       [] frame[p].task = "readmit" -> IF Revoked(s) THEN Over(p) ELSE Goto(p, "retrieve")
       [] frame[p].task = "dispute" -> IF dispute[s].excepted THEN Over(p) ELSE Goto(p, "revoke")
  /\ Unread

\* After a grant: a re-admission projects what it read, an admission is done.
Granted(p) == IF frame[p].task = "readmit" THEN Goto(p, "record") ELSE Over(p)

\* grantAccess reads the profile, and writes unless this subscription pays already.
ReadForGrant(p) ==
  /\ pc[p] = "grant_read"
  /\ IF payer = frame[p].sub THEN Granted(p) ELSE Goto(p, "grant")
  /\ Unread

Grant(p) ==
  /\ pc[p] = "grant"
  /\ payer' = frame[p].sub
  /\ Granted(p)
  /\ UNCHANGED <<stripe, dispute, refund, record, changes>>

-----------------------------------------------------------------------------
(* Refunds and disputes.                                                   *)

MatchAndMark(p) ==             \* variant: marked before it is carried out
  LET s == frame[p].sub IN
  /\ pc[p] = "match"
  /\ refund' = [refund EXCEPT ![s] = "revoked"]
  /\ IF refund[s] = "revoked" THEN Over(p) ELSE Goto(p, "revoke")
  /\ UNCHANGED <<stripe, dispute, record, payer, changes>>
\* matchRefundOrigin, which repairs an id the operator's run lost.
MatchRefund(p) ==
  LET s == frame[p].sub IN
  /\ pc[p] = "match"
  /\ refund' = [refund EXCEPT ![s] = IF @ = "made" THEN "attached" ELSE @]
  /\ IF refund[s] = "revoked" THEN Over(p) ELSE Goto(p, "revoke")
  /\ UNCHANGED <<stripe, dispute, record, payer, changes>>

\* lapsePaidAccess, before Stripe is asked for anything.
Revoke(p) ==
  /\ pc[p] = "revoke"
  /\ payer' = EndPaidAccess(frame[p].sub)
  /\ Goto(p, "retrieve")
  /\ UNCHANGED <<stripe, dispute, refund, record, changes>>

\* cancelSubscription; Stripe refuses one that has ended, and the work fails.
Cancel(p) ==
  LET s == frame[p].sub IN
  /\ pc[p] = "cancel"
  /\ IF stripe[s].status = "ended"
     THEN Over(p) /\ UNCHANGED stripe
     ELSE /\ stripe' = [stripe EXCEPT ![s].status = "ended"]
          /\ Read(p, [NoSnapshot EXCEPT !.endedAt = TRUE], "record")
  /\ UNCHANGED <<dispute, refund, record, payer, changes>>

MarkRevoked(p) ==
  /\ pc[p] = "mark"
  /\ refund' = [refund EXCEPT ![frame[p].sub] = "revoked"]
  /\ Over(p)
  /\ UNCHANGED <<stripe, dispute, record, payer, changes>>

SeeNewDispute(p) ==            \* variant: a dispute on record is not applied again
  LET s == frame[p].sub IN
  /\ pc[p] = "see_dispute"
  /\ dispute' = [dispute EXCEPT ![s].known = TRUE]
  /\ IF dispute[s].known THEN Over(p) ELSE Goto(p, "blocks")
  /\ UNCHANGED <<stripe, refund, record, payer, changes>>
\* recordedDispute: on record first, whoever sees it first.
SeeDispute(p) ==
  /\ pc[p] = "see_dispute"
  /\ dispute' = [dispute EXCEPT ![frame[p].sub].known = TRUE]
  /\ Goto(p, "blocks")
  /\ UNCHANGED <<stripe, refund, record, payer, changes>>

\* markDisputeRenewalStopped, before the stop is asked of Stripe.
NoteStop(p) ==
  /\ pc[p] = "note_stop"
  /\ dispute' = [dispute EXCEPT ![frame[p].sub].renewalStopped = TRUE]
  /\ Goto(p, "stop")
  /\ UNCHANGED <<stripe, refund, record, payer, changes>>

\* cancel_at_period_end set to `by`, and what Stripe answers.
SetCancelAt(p, by, label) ==
  LET s == frame[p].sub IN
  /\ IF stripe[s].status = "ended"
     THEN Over(p) /\ UNCHANGED stripe
     ELSE /\ stripe' = [stripe EXCEPT ![s].cancelAt = by]
          /\ Read(p, [Current(s) EXCEPT !.cancelAt = (by # "none")], label)
  /\ UNCHANGED <<dispute, refund, record, payer, changes>>

StopRenewal(p) ==
  /\ pc[p] = "stop"
  /\ SetCancelAt(p, IF stripe[frame[p].sub].cancelAt = "none" THEN "tendnote"
                    ELSE stripe[frame[p].sub].cancelAt, "record")

-----------------------------------------------------------------------------
(* Operator Actions.                                                       *)

\* refundInvoice: a record is opened or an unfinished one resumed.
BeginRefund(p) ==
  /\ pc[p] = "idle"
  /\ \E s \in Subs : /\ Begun(s) /\ refund[s] \in {"none", "recorded", "made"}
                    /\ Work(p, s, "refund", "record_refund")
  /\ Unread /\ UNCHANGED <<todo, faults>>

\* A step on the refund: record, then Stripe under the record's key, then the id.
RefundStep(p, at, from, to, label) ==
  /\ pc[p] = at
  /\ refund' = [refund EXCEPT ![frame[p].sub] = IF @ = from THEN to ELSE @]
  /\ Goto(p, label)
  /\ UNCHANGED <<stripe, dispute, record, payer, changes>>

RecordRefund(p) == RefundStep(p, "record_refund", "none", "recorded", "make_refund")
MakeRefund(p) == RefundStep(p, "make_refund", "recorded", "made", "attach")
AttachRefund(p) == RefundStep(p, "attach", "made", "attached", "match")

\* readmitAfterWonDispute reads the dispute, and that it is won.
BeginReadmit(p) ==
  /\ pc[p] = "idle"
  /\ \E s \in Subs :
       /\ dispute[s].known /\ dispute[s].state = "won"
       /\ frame' = [frame EXCEPT ![p] = [NoFrame EXCEPT !.sub = s, !.task = "readmit",
                                                    !.stopped = dispute[s].renewalStopped]]
  /\ pc' = [pc EXCEPT ![p] = "except"]
  /\ Unread /\ UNCHANGED <<todo, faults>>

GrantException(p) ==
  /\ pc[p] = "except"
  /\ dispute' = [dispute EXCEPT ![frame[p].sub].excepted = TRUE]
  /\ Goto(p, "blocks")
  /\ UNCHANGED <<stripe, refund, record, payer, changes>>

ResumeRenewal(p) == pc[p] = "resume" /\ SetCancelAt(p, "none", "standing")

\* An account another subscription admitted since keeps that one.
CheckStanding(p) ==
  /\ pc[p] = "standing"
  /\ Goto(p, IF payer = None THEN "grant_read" ELSE "record")
  /\ Unread

-----------------------------------------------------------------------------
(* The customer and Stripe.                                                *)

\* openCheckout: refused while one subscription is live.  Each paid Checkout
\* makes a subscription of its own.
Unused == {s \in Subs : stripe[s].status = "none"}

OpenCheckout ==
  /\ Unused # {} /\ \A s \in Subs : stripe[s].status # "live"
  /\ stripe' = [stripe EXCEPT ![CHOOSE s \in Unused : TRUE].status = "session"]

PayCheckout(s) == stripe[s].status = "session" /\ stripe' = [stripe EXCEPT ![s].status = "live"]

CancelAtPeriodEnd(s) ==
  /\ stripe[s].status = "live" /\ stripe[s].cancelAt = "none"
  /\ stripe' = [stripe EXCEPT ![s].cancelAt = "customer"]

KeepRenewing(s) ==
  /\ stripe[s].status = "live" /\ stripe[s].cancelAt # "none"
  /\ stripe' = [stripe EXCEPT ![s].cancelAt = "none"]

PeriodEnds(s) ==
  /\ stripe[s].status = "live" /\ stripe[s].cancelAt # "none"
  /\ stripe' = [stripe EXCEPT ![s].status = "ended"]

\* A renewal fails, its dunning window closes, or its payment recovers.
RenewalTurns(s) ==
  /\ stripe[s].status = "live"
  /\ \E turn \in {<<"paid", "failed">>, <<"failed", "overdue">>,
                  <<"failed", "paid">>, <<"overdue", "paid">>} :
       /\ stripe[s].renewal = turn[1]
       /\ stripe' = [stripe EXCEPT ![s].renewal = turn[2]]

DisputeTurns(s) ==
  /\ Begun(s) /\ dispute[s].state # "won"
  /\ dispute' = [dispute EXCEPT ![s].state = IF @ = "none" THEN "open" ELSE "won"]

Outside ==
  /\ changes < MaxChanges /\ changes' = changes + 1
  /\ \/ OpenCheckout /\ UNCHANGED dispute
     \/ \E s \in Subs :
          /\ UNCHANGED dispute
          /\ \/ PayCheckout(s)
             \/ "cancel" \in Changes /\ CancelAtPeriodEnd(s)
             \/ "keep" \in Changes /\ KeepRenewing(s)
             \/ PeriodEnds(s)
             \/ "renewal" \in Changes /\ RenewalTurns(s)
     \/ "dispute" \in Changes /\ UNCHANGED stripe /\ \E s \in Subs : DisputeTurns(s)
  /\ UNCHANGED <<refund, record, payer, pc, frame, todo, faults>>

\* A call fails or an invocation dies: Stripe delivers a webhook again, a pass
\* logs the item and goes on or dies too, an operator may run the action again.
Fail(p) ==
  /\ faults < MaxFaults /\ faults' = faults + 1
  /\ pc[p] # "idle"
  /\ frame' = [frame EXCEPT ![p] = NoFrame]
  /\ \/ /\ p \in Passes /\ pc' = [pc EXCEPT ![p] = "next"] /\ UNCHANGED todo
     \/ /\ pc' = [pc EXCEPT ![p] = "idle"]
        /\ todo' = [todo EXCEPT ![p] = [stage |-> 0, subs |-> {}]]
  /\ Unread

-----------------------------------------------------------------------------
Init ==
  /\ stripe = [s \in Subs |-> [status |-> "none", cancelAt |-> "none", renewal |-> "paid"]]
  /\ dispute = [s \in Subs |-> [state |-> "none", known |-> FALSE, renewalStopped |-> FALSE,
                                excepted |-> FALSE]]
  /\ refund = [s \in Subs |-> "none"]
  /\ record = [s \in Subs |-> [endedAt |-> FALSE, pastDue |-> FALSE]]
  /\ payer = None
  /\ pc = [p \in Procs |-> "idle"] /\ frame = [p \in Procs |-> NoFrame]
  /\ todo = [p \in Procs |-> [stage |-> 0, subs |-> {}]]
  /\ changes = 0 /\ faults = 0

\* An invocation that has begun goes on.
Continue(p) ==
  \/ CheckEnd(p) \/ Retrieve(p) \/ RecordSubscription(p) \/ Lapse(p)
  \/ Blocks(p) \/ ReadForGrant(p) \/ Grant(p)
  \/ MatchRefund(p) \/ Revoke(p) \/ Cancel(p) \/ MarkRevoked(p)
  \/ SeeDispute(p) \/ NoteStop(p) \/ StopRenewal(p)
  \/ RecordRefund(p) \/ MakeRefund(p) \/ AttachRefund(p)
  \/ GrantException(p) \/ ResumeRenewal(p) \/ CheckStanding(p)

Reconcile(p) == NextStage(p) \/ NextItem(p)

Next ==
  \/ \E p \in Procs : Continue(p) \/ Fail(p)
  \/ \E p \in Hooks : Receive(p)
  \/ \E p \in Passes : Reconcile(p)
  \/ \E p \in Operators : BeginRefund(p) \/ BeginReadmit(p)
  \/ Outside

Spec == Init /\ [][Next]_vars

\* The cron starts passes, and what has begun goes on unless it fails.  No
\* webhook is ever sure to arrive, and no operator to act.
Fairness ==
  /\ \A p \in Procs : WF_vars(Continue(p))
  /\ \A p \in Passes : WF_vars(Reconcile(p))

FairSpec == Spec /\ Fairness

-----------------------------------------------------------------------------
(* Properties.                                                             *)

\* The type invariant; an invocation names a subscription while it works on one.
TypeOK ==
  /\ stripe \in [Subs -> Subscription]
  /\ dispute \in [Subs -> Dispute]
  /\ refund \in [Subs -> RefundState]
  /\ record \in [Subs -> Record]
  /\ payer \in Subs \cup {None}
  /\ pc \in [Procs -> Labels]
  /\ frame \in [Procs -> [sub: Subs \cup {None}, task: Tasks, snap: Snapshot, stopped: BOOLEAN]]
  /\ todo \in [Procs -> [stage: 0..Len(Stages), subs: SUBSET Subs]]
  /\ \A p \in Procs : frame[p].sub = None <=> pc[p] \in {"idle", "next"}
  /\ changes \in 0..MaxChanges /\ faults \in 0..MaxFaults

\* An end on record is never cleared, however old the snapshot that lands after
\* it (stripe-subscriptions.ts:22-24): the subscription cannot be revived.
EndStands == [][\A s \in Subs : record[s].endedAt => record'[s].endedAt]_vars

\* "A redelivered or late end never moves a deadline or cuts off a resubscriber"
\* (access-profiles/queries.ts:340-341): access is lost only when the
\* subscription that pays has itself ended, been refunded or been disputed.
OnlyOwnEndLapses ==
  [][payer # None /\ payer' = None =>
       \/ stripe[payer].status = "ended"
       \/ refund[payer] \in {"attached", "revoked"}
       \/ dispute[payer].known]_vars

\* A subscription that is paid for and not refunded nor in dispute.
Entitled == {s \in Subs : /\ stripe[s].status = "live" /\ ~Refunded(s)
                          /\ dispute[s].state = "none" \/ dispute[s].excepted}

\* Webhooks may all be lost, late or repeated: once the customer and the
\* operator leave the subscriptions alone, the passes give access for a
\* subscription that entitles to it, and for no other, and keep it so
\* (stripe-reconciliation.ts:91-111).
AccessFollowsPayment ==
  <>[](IF Entitled = {} THEN payer = None ELSE payer \in Entitled)

\* A refunded customer's subscription is ended at Stripe in the end, wherever
\* applying the refund was interrupted, so that it never charges again
\* (paid-access-revocation.ts:194-198).
RefundEndsSubscription ==
  <>[](\A s \in Subs : Refunded(s) => stripe[s].status = "ended")

\* A disputed subscription ends up not renewing unless the dispute is excepted,
\* wherever applying it was interrupted.
DisputeStopsRenewal ==
  <>[](\A s \in Subs : dispute[s].state # "none" =>
         stripe[s].cancelAt # "none" \/ stripe[s].status = "ended" \/ dispute[s].excepted)

\* No renewal stays unpaid past its dunning window on a subscription that goes
\* on: the pass that closes the window ends it, whichever webhook was lost.
DunningEnds ==
  <>[](\A s \in Subs : stripe[s].renewal = "overdue" => stripe[s].status = "ended")

\* "The stop is noted on the dispute before it is asked of Stripe, so
\* re-admission resumes only a renewal Tendnote stopped, never one the customer
\* cancelled" (paid-access-revocation.ts:271-273).
CustomerCancellationStands ==
  [][\A p \in Operators :
       ResumeRenewal(p) => stripe[frame[p].sub].cancelAt # "customer"]_vars
=============================================================================
