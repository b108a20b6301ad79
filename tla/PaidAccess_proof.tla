-------------------------- MODULE PaidAccess_proof --------------------------
(***************************************************************************)
(* What PaidAccess promises of an end, proved for any number of            *)
(* subscriptions, webhook invocations, passes and operators, and for any   *)
(* bound on changes and faults.                                            *)
(***************************************************************************)
EXTENDS PaidAccess, TLAPS

-----------------------------------------------------------------------------
(* The inductive invariant.                                                *)

Resting == {"idle", "next"}

\* The types of what an invocation or a pass holds, and of the rest.
Control ==
  /\ pc \in [Procs -> Labels]
  /\ frame \in [Procs -> [sub: Subs \cup {None}, task: Tasks, snap: Snapshot, stopped: BOOLEAN]]
  /\ todo \in [Procs -> [stage: 0..Len(Stages), subs: SUBSET Subs]]
  /\ \A p \in Procs : frame[p].sub = None <=> pc[p] \in Resting
  /\ faults \in 0..MaxFaults

Data ==
  /\ stripe \in [Subs -> Subscription]
  /\ dispute \in [Subs -> Dispute]
  /\ refund \in [Subs -> RefundState]
  /\ record \in [Subs -> Record]
  /\ payer \in Subs \cup {None}
  /\ changes \in 0..MaxChanges

\* A list belongs to a stage.
ListHasStage == \A p \in Procs : todo[p].stage = 0 => todo[p].subs = {}

\* Why a subscription may be revoked: a refund on record, or a dispute.
Cause(s) == refund[s] \in {"attached", "revoked"} \/ dispute[s].known

\* What an invocation has read is still so, or can no longer be undone: an end
\* it has seen is an end, and what it revokes for is on record.
Fits(p) ==
  pc[p] \notin Resting =>
    LET s == frame[p].sub IN
    /\ frame[p].snap.endedAt => stripe[s].status = "ended"
    /\ pc[p] = "lapse" => frame[p].snap.endedAt
    /\ pc[p] = "see_dispute" => frame[p].task = "dispute"
    /\ pc[p] = "except" => frame[p].task = "readmit"
    /\ pc[p] = "blocks" => /\ frame[p].task \in {"admit", "readmit", "dispute"}
                           /\ frame[p].task = "dispute" => dispute[s].known
    /\ pc[p] = "make_refund" => refund[s] # "none"
    /\ pc[p] \in {"attach", "match"} => Refunded(s)
    /\ pc[p] = "revoke" => Cause(s)

\* The third stage lists refunds, and Stripe does not take one back.
ListFits(p) == todo[p].stage = 3 => \A s \in todo[p].subs : Refunded(s)

IInv == TypeOK /\ ListHasStage /\ \A p \in Procs : Fits(p) /\ ListFits(p)

LEMMA TypesSplit == TypeOK <=> Control /\ Data
  BY DEF TypeOK, Control, Data, Resting

-----------------------------------------------------------------------------
(* What every step keeps of what the others have read.                     *)

\* An end, a refund and a known dispute are never taken back.
Grows ==
  \A s \in Subs :
    /\ stripe[s].status = "ended" => stripe'[s].status = "ended"
    /\ refund[s] # "none" => refund'[s] # "none"
    /\ Refunded(s) => Refunded(s)'
    /\ refund[s] \in {"attached", "revoked"} => refund'[s] \in {"attached", "revoked"}
    /\ dispute[s].known => dispute'[s].known

OthersStay(p) ==
  \A q \in Procs \ {p} : pc'[q] = pc[q] /\ frame'[q] = frame[q] /\ todo'[q] = todo[q]

\* A step of p to a label: the control keeps its types, the others their place.
Moves(p, label) ==
  /\ Control' /\ ListHasStage' /\ OthersStay(p) /\ pc'[p] = label
  /\ todo'[p] = todo[p] \/ ListFits(p)'

LEMMA GotoMoves ==
  ASSUME IInv, NEW p \in Procs, NEW label \in Labels \ Resting,
         pc[p] \notin Resting, Goto(p, label)
  PROVE  Moves(p, label) /\ frame'[p] = frame[p]
  BY DEF IInv, TypeOK, ListHasStage, Goto, Moves, Control, OthersStay, Resting

LEMMA OverMoves ==
  ASSUME IInv, NEW p \in Procs, Over(p)
  PROVE  Moves(p, pc'[p]) /\ pc'[p] \in Resting
<1>1. NoFrame \in [sub: Subs \cup {None}, task: Tasks, snap: Snapshot, stopped: BOOLEAN]
  BY DEF NoFrame, NoSnapshot, Snapshot, Tasks
<1>2. pc' \in [Procs -> Labels] /\ pc'[p] \in Resting
  BY DEF IInv, TypeOK, Over, Labels, Resting
<1>3. frame' \in [Procs -> [sub: Subs \cup {None}, task: Tasks, snap: Snapshot, stopped: BOOLEAN]]
  BY <1>1 DEF IInv, TypeOK, Over
<1>4. OthersStay(p) /\ frame'[p].sub = None
  BY DEF IInv, TypeOK, Over, OthersStay, NoFrame
<1> QED
  BY <1>2, <1>3, <1>4 DEF IInv, TypeOK, ListHasStage, Over, Moves, Control, OthersStay, Resting

LEMMA ReadMoves ==
  ASSUME IInv, NEW p \in Procs, NEW snap \in Snapshot, NEW label \in Labels \ Resting,
         pc[p] \notin Resting, Read(p, snap, label)
  PROVE  /\ Moves(p, label)
         /\ frame'[p].snap = snap
         /\ frame'[p].sub = frame[p].sub /\ frame'[p].task = frame[p].task
<1> DEFINE f == [frame[p] EXCEPT !.snap = snap]
<1>1. /\ f \in [sub: Subs \cup {None}, task: Tasks, snap: Snapshot, stopped: BOOLEAN]
      /\ f.snap = snap /\ f.sub = frame[p].sub /\ f.task = frame[p].task
  BY DEF IInv, TypeOK
<1>2. /\ frame' = [frame EXCEPT ![p] = f] /\ pc' = [pc EXCEPT ![p] = label]
      /\ UNCHANGED <<todo, faults>>
  BY DEF Read
<1> HIDE DEF f
<1>3. /\ pc' \in [Procs -> Labels] /\ pc'[p] = label
      /\ frame' \in [Procs -> [sub: Subs \cup {None}, task: Tasks, snap: Snapshot, stopped: BOOLEAN]]
      /\ frame'[p] = f /\ OthersStay(p)
  BY <1>1, <1>2 DEF IInv, TypeOK, OthersStay
<1> QED
  BY <1>1, <1>2, <1>3 DEF IInv, TypeOK, ListHasStage, Moves, Control, OthersStay, Resting

\* Beginning a piece of work, once the lists are taken care of.
LEMMA WorkMoves ==
  ASSUME IInv, PaidAccessAssumption, NEW p \in Procs, NEW s \in Subs, NEW task \in Tasks,
         NEW label \in Labels \ Resting, Work(p, s, task, label),
         todo' \in [Procs -> [stage: 0..Len(Stages), subs: SUBSET Subs]], ListHasStage',
         todo'[p] = todo[p] \/ ListFits(p)', \A q \in Procs \ {p} : todo'[q] = todo[q],
         UNCHANGED faults
  PROVE  /\ Moves(p, label)
         /\ frame'[p].sub = s /\ frame'[p].task = task /\ ~frame'[p].snap.endedAt
<1> DEFINE f == [NoFrame EXCEPT !.sub = s, !.task = task]
<1>1. f \in [sub: Subs \cup {None}, task: Tasks, snap: Snapshot, stopped: BOOLEAN]
  BY DEF NoFrame, NoSnapshot, Snapshot, Tasks
<1>2. f.sub = s /\ f.task = task /\ ~f.snap.endedAt
  BY DEF NoFrame, NoSnapshot
<1>3. frame' = [frame EXCEPT ![p] = f] /\ pc' = [pc EXCEPT ![p] = label]
  BY DEF Work
<1> HIDE DEF f
<1>4. /\ pc' \in [Procs -> Labels] /\ pc'[p] = label
      /\ frame' \in [Procs -> [sub: Subs \cup {None}, task: Tasks, snap: Snapshot, stopped: BOOLEAN]]
      /\ frame'[p] = f /\ OthersStay(p)
  BY <1>1, <1>3 DEF IInv, TypeOK, OthersStay
<1> QED
  BY <1>1, <1>2, <1>4 DEF IInv, TypeOK, Moves, Control, OthersStay, Resting, PaidAccessAssumption

\* A step keeps the invariant if its own invocation fits and nothing is taken back.
LEMMA StepKeeps ==
  ASSUME IInv, NEW p \in Procs, Moves(p, pc'[p]), Data', Grows, Fits(p)'
  PROVE  IInv'
<1>1. TypeOK'
  BY TypesSplit, PTL DEF Moves
<1>2. ASSUME NEW q \in Procs \ {p}  PROVE Fits(q)'
  <2>1. pc'[q] = pc[q] /\ frame'[q] = frame[q] /\ Fits(q)
    BY DEF Moves, OthersStay, IInv
  <2>2. pc[q] \notin Resting => frame[q].sub \in Subs
    BY DEF IInv, TypeOK, Resting
  <2> QED  BY <2>1, <2>2 DEF Fits, Grows, Cause, Refunded
<1>3. ASSUME NEW q \in Procs  PROVE ListFits(q)'
  <2>1. todo'[q] = todo[q] \/ ListFits(q)'
    BY DEF Moves, OthersStay
  <2>2. todo[q].subs \subseteq Subs /\ ListFits(q)
    BY DEF IInv, TypeOK
  <2> QED  BY <2>1, <2>2 DEF ListFits, Grows
<1> QED  BY <1>1, <1>2, <1>3 DEF IInv, Moves

\* An invocation that works names a subscription.
LEMMA NamesOne ==
  ASSUME IInv, NEW p \in Procs, pc[p] \notin Resting
  PROVE  frame[p].sub \in Subs
  BY DEF IInv, TypeOK, Resting

LEMMA RestingFits ==
  ASSUME NEW p \in Procs, pc'[p] \in Resting
  PROVE  Fits(p)'
  BY DEF Fits

LEMMA UnreadKeeps ==
  ASSUME IInv, Unread
  PROVE  Data' /\ Grows
  BY DEF IInv, TypeOK, Data, Unread, Grows, Refunded, Cause

\* What a step that reads no store leaves in place.
LEMMA CurrentTyped ==
  ASSUME IInv, NEW s \in Subs
  PROVE  /\ Current(s) \in Snapshot
         /\ Current(s).endedAt => stripe[s].status = "ended"
  BY DEF IInv, TypeOK, Current, Snapshot, Subscription

-----------------------------------------------------------------------------
(* The projection and the admission keep it.                               *)

\* A step of the projection that reads no store and goes on to `label`.
LEMMA PassesOn ==
  ASSUME IInv, NEW p \in Procs, NEW label \in Labels \ Resting, pc[p] \notin Resting,
         Goto(p, label), Data', Grows,
         label \notin {"lapse", "see_dispute", "except", "blocks", "make_refund",
                       "attach", "match", "revoke"}
  PROVE  IInv'
<1>1. Moves(p, label) /\ frame'[p] = frame[p] /\ pc'[p] = label
  BY GotoMoves DEF Moves
<1>2. Fits(p)'
  BY <1>1, NamesOne DEF Fits, IInv, Grows
<1> QED  BY <1>1, <1>2, StepKeeps

\* An invocation that is over fits, whatever it did.
LEMMA EndsWell ==
  ASSUME IInv, NEW p \in Procs, Over(p), Data', Grows
  PROVE  IInv'
  BY OverMoves, RestingFits, StepKeeps DEF Moves

LEMMA CheckEndKeeps ==
  ASSUME IInv, NEW p \in Procs, CheckEnd(p)
  PROVE  IInv'
<1>1. Data' /\ Grows
  BY UnreadKeeps DEF CheckEnd
<1>2. CASE Over(p)
  BY <1>1, <1>2, EndsWell
<1>3. CASE Goto(p, "retrieve")
  BY <1>1, <1>3, PassesOn DEF CheckEnd, Labels, Resting
<1> QED  BY <1>2, <1>3 DEF CheckEnd

LEMMA RetrieveKeeps ==
  ASSUME IInv, NEW p \in Procs, Retrieve(p)
  PROVE  IInv'
<1> DEFINE snap == Current(frame[p].sub)
           label == AfterRetrieve(p, snap)
<1>1. Data' /\ Grows /\ pc[p] \notin Resting
  BY UnreadKeeps DEF Retrieve, Resting
<1>2. snap \in Snapshot /\ (snap.endedAt => stripe[frame[p].sub].status = "ended")
  BY <1>1, NamesOne, CurrentTyped
<1>3. label \in {"cancel", "note_stop", "resume", "standing", "record"}
  BY DEF AfterRetrieve
<1>4. Read(p, snap, label)
  BY DEF Retrieve
<1> HIDE DEF snap, label
<1>5. /\ Moves(p, label) /\ pc'[p] = label
      /\ frame'[p].snap = snap /\ frame'[p].sub = frame[p].sub
  BY <1>1, <1>2, <1>3, <1>4, ReadMoves DEF Labels, Resting, Moves
<1>6. Fits(p)'
  BY <1>1, <1>2, <1>3, <1>5, NamesOne DEF Fits, Grows
<1> QED  BY <1>1, <1>5, <1>6, StepKeeps

\* What follows a projection fits.
LEMMA AfterProjectionKeeps ==
  ASSUME IInv, NEW p \in Procs, pc[p] \notin Resting, AfterProjection(p), Data', Grows
  PROVE  IInv'
<1>1. CASE frame[p].task = "admit" /\ Goto(p, "blocks")
  <2>1. Moves(p, "blocks") /\ frame'[p] = frame[p] /\ pc'[p] = "blocks"
    BY <1>1, GotoMoves DEF Labels, Resting, Moves
  <2>2. Fits(p)'
    BY <1>1, <2>1, NamesOne DEF Fits, IInv, Grows
  <2> QED  BY <2>1, <2>2, StepKeeps
<1>2. CASE Goto(p, "mark")
  BY <1>2, PassesOn DEF Labels, Resting
<1>3. CASE Over(p)
  BY <1>3, EndsWell
<1> QED  BY <1>1, <1>2, <1>3 DEF AfterProjection

LEMMA RecordSubscriptionKeeps ==
  ASSUME IInv, NEW p \in Procs, RecordSubscription(p)
  PROVE  IInv'
<1>1. pc[p] \notin Resting
  BY DEF RecordSubscription, Resting
<1>2. \A r \in Record, snap \in Snapshot : Recorded(r, snap) \in Record
  BY DEF Recorded, Record, Snapshot
<1>3. Data' /\ Grows
  BY <1>1, <1>2, NamesOne DEF RecordSubscription, IInv, TypeOK, Data, Grows, Refunded
<1>4. CASE frame[p].snap.endedAt /\ Goto(p, "lapse")
  <2>1. Moves(p, "lapse") /\ frame'[p] = frame[p] /\ pc'[p] = "lapse"
    BY <1>1, <1>4, GotoMoves DEF Labels, Resting, Moves
  <2>2. Fits(p)'
    BY <1>1, <1>3, <1>4, <2>1, NamesOne DEF Fits, IInv, Grows
  <2> QED  BY <1>3, <2>1, <2>2, StepKeeps
<1>5. CASE AfterProjection(p)
  BY <1>1, <1>3, <1>5, AfterProjectionKeeps
<1> QED  BY <1>4, <1>5 DEF RecordSubscription

LEMMA LapseKeeps ==
  ASSUME IInv, NEW p \in Procs, Lapse(p)
  PROVE  IInv'
<1>1. pc[p] \notin Resting
  BY DEF Lapse, Resting
<1>2. Data' /\ Grows
  BY <1>1, NamesOne DEF Lapse, EndPaidAccess, IInv, TypeOK, Data, Grows, Refunded
<1> QED  BY <1>1, <1>2, AfterProjectionKeeps DEF Lapse

LEMMA BlocksKeeps ==
  ASSUME IInv, NEW p \in Procs, Blocks(p)
  PROVE  IInv'
<1>1. Data' /\ Grows /\ pc[p] \notin Resting
  BY UnreadKeeps DEF Blocks, Resting
<1>2. frame[p].task \in {"admit", "readmit", "dispute"}
  BY DEF Blocks, IInv, Fits, Resting
<1>3. CASE Over(p)
  BY <1>1, <1>3, EndsWell
<1>4. CASE Goto(p, "grant_read")
  BY <1>1, <1>4, PassesOn DEF Labels, Resting
<1>5. CASE Goto(p, "retrieve")
  BY <1>1, <1>5, PassesOn DEF Labels, Resting
<1>6. CASE frame[p].task = "dispute" /\ Goto(p, "revoke")
  <2>1. Moves(p, "revoke") /\ frame'[p] = frame[p] /\ pc'[p] = "revoke"
    BY <1>1, <1>6, GotoMoves DEF Labels, Resting, Moves
  <2>2. dispute[frame[p].sub].known
    BY <1>6 DEF Blocks, IInv, Fits, Resting
  <2>3. Fits(p)'
    BY <1>1, <2>1, <2>2, NamesOne DEF Fits, IInv, Grows, Cause
  <2> QED  BY <1>1, <2>1, <2>3, StepKeeps
<1> QED  BY <1>2, <1>3, <1>4, <1>5, <1>6 DEF Blocks

\* After a grant.
LEMMA GrantedKeeps ==
  ASSUME IInv, NEW p \in Procs, pc[p] \notin Resting, Granted(p), Data', Grows
  PROVE  IInv'
  BY PassesOn, EndsWell DEF Granted, Labels, Resting

LEMMA ReadForGrantKeeps ==
  ASSUME IInv, NEW p \in Procs, ReadForGrant(p)
  PROVE  IInv'
<1>1. Data' /\ Grows /\ pc[p] \notin Resting
  BY UnreadKeeps DEF ReadForGrant, Resting
<1>2. CASE Goto(p, "grant")
  BY <1>1, <1>2, PassesOn DEF Labels, Resting
<1> QED  BY <1>1, <1>2, GrantedKeeps DEF ReadForGrant

LEMMA GrantKeeps ==
  ASSUME IInv, NEW p \in Procs, Grant(p)
  PROVE  IInv'
<1>1. pc[p] \notin Resting
  BY DEF Grant, Resting
<1>2. Data' /\ Grows
  BY <1>1, NamesOne DEF Grant, IInv, TypeOK, Data, Grows, Refunded
<1> QED  BY <1>1, <1>2, GrantedKeeps DEF Grant

-----------------------------------------------------------------------------
(* Refunds, disputes and the operator's actions keep it.                   *)

\* One refund moves on, one dispute gains a mark: nothing is taken back.
LEMMA RefundGrows ==
  ASSUME IInv, NEW s \in Subs, NEW to \in RefundState, refund' = [refund EXCEPT ![s] = to],
         <<refund[s], to>> \in {<<"none", "recorded">>, <<"recorded", "made">>, <<"made", "attached">>}
           \/ refund[s] = to \/ to = "revoked",
         UNCHANGED <<stripe, dispute, record, payer, changes>>
  PROVE  Data' /\ Grows /\ refund'[s] = to
  BY DEF IInv, TypeOK, Data, Grows, Refunded, RefundState

LEMMA DisputeGrows ==
  ASSUME IInv, NEW s \in Subs, NEW d \in Dispute, dispute' = [dispute EXCEPT ![s] = d],
         dispute[s].known => d.known,
         UNCHANGED <<stripe, refund, record, payer, changes>>
  PROVE  Data' /\ Grows /\ dispute'[s] = d
  BY DEF IInv, TypeOK, Data, Grows, Refunded

LEMMA StripeGrows ==
  ASSUME IInv, NEW s \in Subs, NEW t \in Subscription, stripe' = [stripe EXCEPT ![s] = t],
         stripe[s].status = "ended" => t.status = "ended",
         UNCHANGED <<dispute, refund, record, payer>>, changes' \in 0..MaxChanges
  PROVE  Data' /\ Grows /\ stripe'[s] = t
  BY DEF IInv, TypeOK, Data, Grows, Refunded

\* What an update of one field leaves of a subscription, a snapshot, a dispute.
LEMMA SubscriptionUpdates ==
  ASSUME NEW t \in Subscription
  PROVE  /\ [t EXCEPT !.status = "ended"] \in Subscription
         /\ [t EXCEPT !.status = "ended"].status = "ended"
         /\ \A by \in {"none", "customer", "tendnote"} : [t EXCEPT !.cancelAt = by] \in Subscription
  BY DEF Subscription

LEMMA SnapshotUpdates ==
  ASSUME NEW snap \in Snapshot
  PROVE  /\ [snap EXCEPT !.endedAt = TRUE] \in Snapshot
         /\ \A b \in BOOLEAN : /\ [snap EXCEPT !.cancelAt = b] \in Snapshot
                               /\ [snap EXCEPT !.cancelAt = b].endedAt => snap.endedAt
  BY DEF Snapshot

LEMMA DisputeUpdates ==
  ASSUME NEW d \in Dispute
  PROVE  /\ [d EXCEPT !.known = TRUE] \in Dispute /\ [d EXCEPT !.known = TRUE].known
         /\ [d EXCEPT !.renewalStopped = TRUE] \in Dispute
         /\ d.known => [d EXCEPT !.renewalStopped = TRUE].known
         /\ [d EXCEPT !.excepted = TRUE] \in Dispute
         /\ d.known => [d EXCEPT !.excepted = TRUE].known
         /\ \A state \in {"open", "won"} : /\ [d EXCEPT !.state = state] \in Dispute
                                           /\ d.known => [d EXCEPT !.state = state].known
  BY DEF Dispute

LEMMA MatchRefundKeeps ==
  ASSUME IInv, NEW p \in Procs, MatchRefund(p)
  PROVE  IInv'
<1> DEFINE s == frame[p].sub
           to == IF refund[s] = "made" THEN "attached" ELSE refund[s]
<1>1. pc[p] \notin Resting /\ s \in Subs /\ Refunded(s)
  BY NamesOne DEF MatchRefund, Resting, IInv, Fits
<1>2. to \in {"attached", "revoked"} /\ to \in RefundState
  BY <1>1 DEF Refunded, RefundState
<1>3. refund' = [refund EXCEPT ![s] = to]
  BY DEF MatchRefund
<1>4. Data' /\ Grows /\ refund'[s] = to
  BY <1>1, <1>2, <1>3, RefundGrows DEF MatchRefund
<1>5. CASE Over(p)
  BY <1>4, <1>5, EndsWell
<1>6. CASE Goto(p, "revoke")
  <2>1. Moves(p, "revoke") /\ frame'[p] = frame[p] /\ pc'[p] = "revoke"
    BY <1>1, <1>6, GotoMoves DEF Labels, Resting, Moves
  <2>2. Fits(p)'
    BY <1>1, <1>2, <1>4, <2>1 DEF Fits, IInv, Grows, Cause
  <2> QED  BY <1>4, <2>1, <2>2, StepKeeps
<1> QED  BY <1>5, <1>6 DEF MatchRefund

LEMMA RevokeKeeps ==
  ASSUME IInv, NEW p \in Procs, Revoke(p)
  PROVE  IInv'
<1>1. pc[p] \notin Resting
  BY DEF Revoke, Resting
<1>2. Data' /\ Grows
  BY <1>1, NamesOne DEF Revoke, EndPaidAccess, IInv, TypeOK, Data, Grows, Refunded
<1> QED  BY <1>1, <1>2, PassesOn DEF Revoke, Labels, Resting

\* A step on the subscription at Stripe that reads back what Stripe answers.
LEMMA AnswerKeeps ==
  ASSUME IInv, NEW p \in Procs, pc[p] \notin Resting, Data', Grows,
         NEW snap \in Snapshot, NEW label \in {"record", "standing"}, Read(p, snap, label),
         snap.endedAt => stripe'[frame[p].sub].status = "ended"
  PROVE  IInv'
<1>1. /\ Moves(p, label) /\ pc'[p] = label
      /\ frame'[p].snap = snap /\ frame'[p].sub = frame[p].sub
  BY ReadMoves DEF Labels, Resting, Moves
<1>2. Fits(p)'
  BY <1>1 DEF Fits
<1> QED  BY <1>1, <1>2, StepKeeps

LEMMA CancelKeeps ==
  ASSUME IInv, NEW p \in Procs, Cancel(p)
  PROVE  IInv'
<1> DEFINE s == frame[p].sub
<1>1. pc[p] \notin Resting /\ s \in Subs
  BY NamesOne DEF Cancel, Resting
<1>2. CASE stripe[s].status = "ended"
  <2>1. Data' /\ Grows
    BY <1>2 DEF Cancel, IInv, TypeOK, Data, Grows, Refunded
  <2> QED  BY <1>2, <2>1, EndsWell DEF Cancel
<1>3. CASE stripe[s].status # "ended"
  <2> DEFINE t == [stripe[s] EXCEPT !.status = "ended"]
             snap == [NoSnapshot EXCEPT !.endedAt = TRUE]
  <2>1. t \in Subscription /\ t.status = "ended" /\ snap \in Snapshot
    <3>1. stripe[s] \in Subscription /\ NoSnapshot \in Snapshot
      BY <1>1 DEF IInv, TypeOK, NoSnapshot, Snapshot
    <3> QED  BY <3>1, SubscriptionUpdates, SnapshotUpdates
  <2>2. stripe' = [stripe EXCEPT ![s] = t] /\ Read(p, snap, "record")
    BY <1>3 DEF Cancel
  <2>3. UNCHANGED <<dispute, refund, record, payer, changes>> /\ changes' \in 0..MaxChanges
    BY DEF Cancel, IInv, TypeOK
  <2> HIDE DEF t, snap
  <2>4. Data' /\ Grows /\ stripe'[s] = t
    BY <1>1, <2>1, <2>2, <2>3, StripeGrows
  <2> QED  BY <1>1, <2>1, <2>2, <2>4, AnswerKeeps
<1> QED  BY <1>2, <1>3

LEMMA SetCancelAtKeeps ==
  ASSUME IInv, NEW p \in Procs, pc[p] \notin Resting,
         NEW by \in {"none", "customer", "tendnote"}, NEW label \in {"record", "standing"},
         SetCancelAt(p, by, label)
  PROVE  IInv'
<1> DEFINE s == frame[p].sub
<1>1. s \in Subs
  BY NamesOne
<1>2. CASE stripe[s].status = "ended"
  <2>1. Data' /\ Grows
    BY <1>2 DEF SetCancelAt, IInv, TypeOK, Data, Grows, Refunded
  <2> QED  BY <1>2, <2>1, EndsWell DEF SetCancelAt
<1>3. CASE stripe[s].status # "ended"
  <2> DEFINE t == [stripe[s] EXCEPT !.cancelAt = by]
             snap == [Current(s) EXCEPT !.cancelAt = (by # "none")]
  <2>1. t \in Subscription /\ snap \in Snapshot /\ (snap.endedAt => Current(s).endedAt)
    <3>1. stripe[s] \in Subscription /\ Current(s) \in Snapshot
      BY <1>1, CurrentTyped DEF IInv, TypeOK
    <3> QED  BY <3>1, SubscriptionUpdates, SnapshotUpdates
  <2>2. stripe' = [stripe EXCEPT ![s] = t] /\ Read(p, snap, label)
    BY <1>3 DEF SetCancelAt
  <2>3. UNCHANGED <<dispute, refund, record, payer, changes>> /\ changes' \in 0..MaxChanges
    BY DEF SetCancelAt, IInv, TypeOK
  <2>4. ~snap.endedAt
    BY <1>1, <1>3, <2>1, CurrentTyped
  <2> HIDE DEF t, snap
  <2>5. Data' /\ Grows
    BY <1>1, <1>3, <2>1, <2>2, <2>3, StripeGrows
  <2> QED  BY <2>1, <2>2, <2>4, <2>5, AnswerKeeps
<1> QED  BY <1>2, <1>3

LEMMA MarkRevokedKeeps ==
  ASSUME IInv, NEW p \in Procs, MarkRevoked(p)
  PROVE  IInv'
<1>1. frame[p].sub \in Subs
  BY NamesOne DEF MarkRevoked, Resting
<1>2. Data' /\ Grows
  BY <1>1, RefundGrows DEF MarkRevoked, RefundState
<1> QED  BY <1>2, EndsWell DEF MarkRevoked

LEMMA SeeDisputeKeeps ==
  ASSUME IInv, NEW p \in Procs, SeeDispute(p)
  PROVE  IInv'
<1> DEFINE s == frame[p].sub
           d == [dispute[s] EXCEPT !.known = TRUE]
<1>1. pc[p] \notin Resting /\ s \in Subs /\ frame[p].task = "dispute"
  BY NamesOne DEF SeeDispute, Resting, IInv, Fits
<1>2. d \in Dispute /\ d.known
  BY <1>1, DisputeUpdates DEF IInv, TypeOK
<1>3. dispute' = [dispute EXCEPT ![s] = d] /\ Goto(p, "blocks")
  BY DEF SeeDispute
<1>3a. UNCHANGED <<stripe, refund, record, payer, changes>>
  BY DEF SeeDispute
<1> HIDE DEF d
<1>4. Data' /\ Grows /\ dispute'[s].known
  BY <1>1, <1>2, <1>3, <1>3a, DisputeGrows
<1>5. Moves(p, "blocks") /\ frame'[p] = frame[p] /\ pc'[p] = "blocks"
  BY <1>1, <1>3, GotoMoves DEF Labels, Resting, Moves
<1>6. Fits(p)'
  BY <1>1, <1>4, <1>5 DEF Fits, IInv, Grows
<1> QED  BY <1>4, <1>5, <1>6, StepKeeps

LEMMA NoteStopKeeps ==
  ASSUME IInv, NEW p \in Procs, NoteStop(p)
  PROVE  IInv'
<1> DEFINE s == frame[p].sub
           d == [dispute[s] EXCEPT !.renewalStopped = TRUE]
<1>1. pc[p] \notin Resting /\ s \in Subs
  BY NamesOne DEF NoteStop, Resting
<1>2. d \in Dispute /\ (dispute[s].known => d.known)
  BY <1>1, DisputeUpdates DEF IInv, TypeOK
<1>3. dispute' = [dispute EXCEPT ![s] = d]
  BY DEF NoteStop
<1> HIDE DEF d
<1>4. Data' /\ Grows
  BY <1>1, <1>2, <1>3, DisputeGrows DEF NoteStop
<1> QED  BY <1>1, <1>4, PassesOn DEF NoteStop, Labels, Resting

LEMMA StopRenewalKeeps ==
  ASSUME IInv, NEW p \in Procs, StopRenewal(p)
  PROVE  IInv'
<1>1. pc[p] \notin Resting /\ stripe[frame[p].sub] \in Subscription
  BY NamesOne DEF StopRenewal, Resting, IInv, TypeOK
<1>2. (IF stripe[frame[p].sub].cancelAt = "none" THEN "tendnote" ELSE stripe[frame[p].sub].cancelAt)
        \in {"none", "customer", "tendnote"}
  BY <1>1 DEF Subscription
<1> QED  BY <1>1, <1>2, SetCancelAtKeeps DEF StopRenewal

\* What a step on the refund leaves: each state leads to the next.
LEMMA RefundStepFields ==
  ASSUME IInv, NEW p \in Procs, pc[p] \notin Resting, NEW at, NEW from, NEW to \in RefundState,
         NEW label, RefundStep(p, at, from, to, label),
         <<from, to>> \in {<<"none", "recorded">>, <<"recorded", "made">>, <<"made", "attached">>}
  PROVE  /\ Data' /\ Grows
         /\ refund'[frame[p].sub] = (IF refund[frame[p].sub] = from THEN to ELSE refund[frame[p].sub])
<1> DEFINE s == frame[p].sub
           next == IF refund[s] = from THEN to ELSE refund[s]
<1>1. s \in Subs /\ refund[s] \in RefundState
  BY NamesOne DEF IInv, TypeOK
<1>2. refund' = [refund EXCEPT ![s] = next]
  BY DEF RefundStep
<1>3. next \in RefundState
  BY <1>1
<1>4. \/ <<refund[s], next>> \in {<<"none", "recorded">>, <<"recorded", "made">>, <<"made", "attached">>}
      \/ refund[s] = next
  OBVIOUS
<1> HIDE DEF next
<1>5. Data' /\ Grows /\ refund'[s] = next
  BY <1>1, <1>2, <1>3, <1>4, RefundGrows DEF RefundStep
<1> QED  BY <1>5 DEF next

LEMMA RecordRefundKeeps ==
  ASSUME IInv, NEW p \in Procs, RecordRefund(p)
  PROVE  IInv'
<1> DEFINE s == frame[p].sub
<1>1. pc[p] \notin Resting /\ s \in Subs /\ Goto(p, "make_refund")
  BY NamesOne DEF RecordRefund, RefundStep, Resting
<1>2. Data' /\ Grows /\ refund'[s] # "none"
  BY <1>1, RefundStepFields DEF RecordRefund, RefundState
<1>3. Moves(p, "make_refund") /\ frame'[p] = frame[p] /\ pc'[p] = "make_refund"
  BY <1>1, GotoMoves DEF Labels, Resting, Moves
<1>4. Fits(p)'
  BY <1>1, <1>2, <1>3 DEF Fits, IInv, Grows
<1> QED  BY <1>2, <1>3, <1>4, StepKeeps

LEMMA MakeRefundKeeps ==
  ASSUME IInv, NEW p \in Procs, MakeRefund(p)
  PROVE  IInv'
<1> DEFINE s == frame[p].sub
<1>1. pc[p] \notin Resting /\ s \in Subs /\ Goto(p, "attach") /\ refund[s] # "none"
  BY NamesOne DEF MakeRefund, RefundStep, Resting, IInv, Fits
<1>2. Data' /\ Grows /\ refund'[s] \in {"made", "attached", "revoked"}
  <2>1. refund[s] \in RefundState
    BY <1>1 DEF IInv, TypeOK
  <2>2. /\ Data' /\ Grows
        /\ refund'[s] = (IF refund[s] = "recorded" THEN "made" ELSE refund[s])
    BY <1>1, RefundStepFields DEF MakeRefund, RefundState
  <2>3. refund'[s] \in {"made", "attached", "revoked"}
    BY <1>1, <2>1, <2>2 DEF RefundState
  <2> QED  BY <2>2, <2>3
<1>3. Moves(p, "attach") /\ frame'[p] = frame[p] /\ pc'[p] = "attach"
  BY <1>1, GotoMoves DEF Labels, Resting, Moves
<1>4. Fits(p)'
  BY <1>1, <1>2, <1>3 DEF Fits, IInv, Grows, Refunded
<1> QED  BY <1>2, <1>3, <1>4, StepKeeps

LEMMA AttachRefundKeeps ==
  ASSUME IInv, NEW p \in Procs, AttachRefund(p)
  PROVE  IInv'
<1> DEFINE s == frame[p].sub
<1>1. pc[p] \notin Resting /\ s \in Subs /\ Goto(p, "match") /\ Refunded(s)
  BY NamesOne DEF AttachRefund, RefundStep, Resting, IInv, Fits
<1>2. Data' /\ Grows
  BY <1>1, RefundStepFields DEF AttachRefund, RefundState
<1>3. Moves(p, "match") /\ frame'[p] = frame[p] /\ pc'[p] = "match"
  BY <1>1, GotoMoves DEF Labels, Resting, Moves
<1>4. Fits(p)'
  BY <1>1, <1>2, <1>3 DEF Fits, IInv, Grows, Refunded
<1> QED  BY <1>2, <1>3, <1>4, StepKeeps

LEMMA GrantExceptionKeeps ==
  ASSUME IInv, NEW p \in Procs, GrantException(p)
  PROVE  IInv'
<1> DEFINE s == frame[p].sub
           d == [dispute[s] EXCEPT !.excepted = TRUE]
<1>1. pc[p] \notin Resting /\ s \in Subs /\ frame[p].task = "readmit"
  BY NamesOne DEF GrantException, Resting, IInv, Fits
<1>2. d \in Dispute /\ (dispute[s].known => d.known)
  BY <1>1, DisputeUpdates DEF IInv, TypeOK
<1>3. dispute' = [dispute EXCEPT ![s] = d] /\ Goto(p, "blocks")
  BY DEF GrantException
<1>3a. UNCHANGED <<stripe, refund, record, payer, changes>>
  BY DEF GrantException
<1> HIDE DEF d
<1>4. Data' /\ Grows
  BY <1>1, <1>2, <1>3, <1>3a, DisputeGrows
<1>5. Moves(p, "blocks") /\ frame'[p] = frame[p] /\ pc'[p] = "blocks"
  BY <1>1, <1>3, GotoMoves DEF Labels, Resting, Moves
<1>6. Fits(p)'
  BY <1>1, <1>4, <1>5 DEF Fits, IInv, Grows
<1> QED  BY <1>4, <1>5, <1>6, StepKeeps

LEMMA ResumeRenewalKeeps ==
  ASSUME IInv, NEW p \in Procs, ResumeRenewal(p)
  PROVE  IInv'
  BY SetCancelAtKeeps DEF ResumeRenewal, Resting

LEMMA CheckStandingKeeps ==
  ASSUME IInv, NEW p \in Procs, CheckStanding(p)
  PROVE  IInv'
<1>1. Data' /\ Grows /\ pc[p] \notin Resting
  BY UnreadKeeps DEF CheckStanding, Resting
<1>2. Goto(p, "grant_read") \/ Goto(p, "record")
  BY DEF CheckStanding
<1> QED  BY <1>1, <1>2, PassesOn DEF Labels, Resting

-----------------------------------------------------------------------------
(* What begins, what fails, and what happens outside keep it.              *)

\* Work that begins at its first step, or at a label nothing is asked of.
LEMMA BeginsFitting ==
  ASSUME IInv, PaidAccessAssumption, NEW p \in Procs, NEW s \in Subs,
         NEW task \in Tasks, NEW label \in Labels \ Resting, Work(p, s, task, label),
         todo' \in [Procs -> [stage: 0..Len(Stages), subs: SUBSET Subs]], ListHasStage',
         todo'[p] = todo[p] \/ ListFits(p)', \A q \in Procs \ {p} : todo'[q] = todo[q],
         UNCHANGED faults, Data', Grows,
         \/ label \in {"check", "retrieve", "record_refund"}
         \/ label = "match" /\ Refunded(s)'
         \/ label = "see_dispute" /\ task = "dispute"
  PROVE  IInv'
<1>1. /\ Moves(p, label) /\ pc'[p] = label
      /\ frame'[p].sub = s /\ frame'[p].task = task /\ ~frame'[p].snap.endedAt
  BY WorkMoves DEF Moves
<1>2. Fits(p)'
  BY <1>1 DEF Fits, Refunded
<1> QED  BY <1>1, <1>2, StepKeeps

LEMMA ReceiveKeeps ==
  ASSUME IInv, PaidAccessAssumption, NEW p \in Procs, Receive(p)
  PROVE  IInv'
<1>0. PICK task \in {"admit", "change", "refund", "dispute"} :
        \E s \in Announced(task) : Work(p, s, task, FirstStep(task))
  BY DEF Receive
<1>1. PICK s \in Announced(task) : Work(p, s, task, FirstStep(task))
  BY <1>0
<1>2. s \in Subs /\ (task = "refund" => Refunded(s)) /\ task \in Tasks
  BY <1>1 DEF Announced, Tasks
<1>3. Data' /\ Grows /\ UNCHANGED <<todo, faults, refund>>
  BY UnreadKeeps DEF Receive, Unread
<1>4. /\ todo' \in [Procs -> [stage: 0..Len(Stages), subs: SUBSET Subs]] /\ ListHasStage'
      /\ \A q \in Procs : todo'[q] = todo[q]
  BY <1>3 DEF IInv, TypeOK, ListHasStage
<1>5. /\ FirstStep(task) \in Labels \ Resting
      /\ \/ FirstStep(task) \in {"check", "retrieve", "record_refund"}
         \/ FirstStep(task) = "match" /\ Refunded(s)'
         \/ FirstStep(task) = "see_dispute" /\ task = "dispute"
  BY <1>1, <1>2, <1>3 DEF FirstStep, Labels, Resting, Refunded
<1> QED  BY <1>1, <1>2, <1>3, <1>4, <1>5, BeginsFitting

LEMMA StagesAre ==
  ASSUME NEW i \in 1..Len(Stages)
  PROVE  Stages[i] \in {"admit", "change", "refund", "dispute", "dunning"}
  BY DEF Stages

LEMMA AnnouncedSubs ==
  ASSUME NEW i \in 1..Len(Stages)
  PROVE  Announced(Stages[i]) \subseteq Subs
  BY StagesAre DEF Announced

LEMMA NextStageKeeps ==
  ASSUME IInv, NEW p \in Procs, NextStage(p)
  PROVE  IInv'
<1> DEFINE stage == todo[p].stage + 1
           entry == IF stage > Len(Stages) THEN [stage |-> 0, subs |-> {}]
                    ELSE [stage |-> stage, subs |-> Announced(Stages[stage])]
<1>1. Len(Stages) = 5
  BY DEF Stages
<1>2. /\ entry \in [stage: 0..Len(Stages), subs: SUBSET Subs]
      /\ entry.stage = 0 => entry.subs = {}
  <2>1. stage \in 1..6
    BY <1>1 DEF IInv, TypeOK
  <2>2. CASE stage > Len(Stages)
    BY <1>1, <2>2
  <2>3. CASE ~(stage > Len(Stages))
    <3>1. stage \in 1..Len(Stages) /\ Announced(Stages[stage]) \subseteq Subs
      BY <1>1, <2>1, <2>3, AnnouncedSubs
    <3> HIDE DEF stage
    <3> QED  BY <2>3, <3>1
  <2> QED  BY <2>2, <2>3
<1>3. /\ todo' = [todo EXCEPT ![p] = entry]
      /\ pc[p] \in Resting
      /\ pc' \in [Procs -> Labels] /\ pc'[p] \in Resting
      /\ \A q \in Procs \ {p} : pc'[q] = pc[q]
      /\ UNCHANGED <<frame, faults>>
  BY DEF NextStage, Resting, Labels, IInv, TypeOK
<1>4. Data' /\ Grows
  BY UnreadKeeps DEF NextStage
<1>5. entry.stage = 3 => \A s \in entry.subs : Refunded(s)
  BY <1>1 DEF Stages, Announced
<1> HIDE DEF entry
<1>6. todo'[p] = entry /\ ListFits(p)'
  BY <1>3, <1>4, <1>5 DEF ListFits, IInv, TypeOK, NextStage, Unread, Refunded
<1>7. Moves(p, pc'[p])
  BY <1>2, <1>3, <1>6 DEF Moves, Control, ListHasStage, OthersStay, IInv, TypeOK, Resting
<1> QED  BY <1>3, <1>4, <1>7, RestingFits, StepKeeps

LEMMA NextItemKeeps ==
  ASSUME IInv, PaidAccessAssumption, NEW p \in Procs, NextItem(p)
  PROVE  IInv'
<1> DEFINE task == Stages[todo[p].stage]
<1>1. PICK s \in todo[p].subs : /\ todo' = [todo EXCEPT ![p].subs = @ \ {s}]
                                /\ Work(p, s, task, FirstStep(task))
  BY DEF NextItem
<1>2. s \in Subs /\ todo[p].stage \in 1..Len(Stages)
  <2>1. todo[p] \in [stage: 0..Len(Stages), subs: SUBSET Subs] /\ todo[p].stage # 0
    BY <1>1 DEF IInv, TypeOK, ListHasStage
  <2>2. Len(Stages) = 5
    BY DEF Stages
  <2> QED  BY <1>1, <2>1, <2>2
<1>3. task \in {"admit", "change", "refund", "dispute", "dunning"}
  BY <1>2, StagesAre
<1>4. /\ todo' \in [Procs -> [stage: 0..Len(Stages), subs: SUBSET Subs]] /\ ListHasStage'
      /\ \A q \in Procs \ {p} : todo'[q] = todo[q]
      /\ todo'[p].stage = todo[p].stage /\ todo'[p].subs \subseteq todo[p].subs
  <2> DEFINE entry == [todo[p] EXCEPT !.subs = todo[p].subs \ {s}]
  <2>1. todo' = [todo EXCEPT ![p] = entry]
    BY <1>1
  <2>2. /\ entry \in [stage: 0..Len(Stages), subs: SUBSET Subs]
        /\ entry.stage = todo[p].stage /\ entry.subs \subseteq todo[p].subs
    <3>1. todo[p] \in [stage: 0..Len(Stages), subs: SUBSET Subs]
      BY DEF IInv, TypeOK
    <3> QED  BY <3>1
  <2> HIDE DEF entry
  <2> QED  BY <2>1, <2>2 DEF IInv, TypeOK, ListHasStage
<1>5. Data' /\ Grows /\ UNCHANGED <<faults, refund>>
  BY UnreadKeeps DEF NextItem, Unread
<1>6. task = "refund" => Refunded(s)'
  <2>1. task = "refund" => todo[p].stage = 3
    BY <1>2 DEF Stages
  <2> QED  BY <1>1, <1>5, <2>1 DEF IInv, ListFits, Refunded
<1>7. ListFits(p)'
  BY <1>4, <1>5 DEF IInv, ListFits, Refunded
<1> HIDE DEF task
<1>8. /\ FirstStep(task) \in Labels \ Resting /\ task \in Tasks
      /\ \/ FirstStep(task) \in {"check", "retrieve", "record_refund"}
         \/ FirstStep(task) = "match" /\ Refunded(s)'
         \/ FirstStep(task) = "see_dispute" /\ task = "dispute"
  BY <1>3, <1>6 DEF FirstStep, Labels, Resting, Tasks
<1> QED  BY <1>1, <1>2, <1>4, <1>5, <1>7, <1>8, BeginsFitting

LEMMA BeginRefundKeeps ==
  ASSUME IInv, PaidAccessAssumption, NEW p \in Procs, BeginRefund(p)
  PROVE  IInv'
<1>1. PICK s \in Subs : Work(p, s, "refund", "record_refund")
  BY DEF BeginRefund
<1>2. Data' /\ Grows /\ UNCHANGED <<todo, faults>>
  BY UnreadKeeps DEF BeginRefund
<1>3. /\ todo' \in [Procs -> [stage: 0..Len(Stages), subs: SUBSET Subs]] /\ ListHasStage'
      /\ \A q \in Procs : todo'[q] = todo[q]
  BY <1>2 DEF IInv, TypeOK, ListHasStage
<1> QED  BY <1>1, <1>2, <1>3, BeginsFitting DEF Labels, Resting, Tasks

LEMMA BeginReadmitKeeps ==
  ASSUME IInv, PaidAccessAssumption, NEW p \in Procs, BeginReadmit(p)
  PROVE  IInv'
<1>1. PICK s \in Subs :
        frame' = [frame EXCEPT ![p] = [NoFrame EXCEPT !.sub = s, !.task = "readmit",
                                                      !.stopped = dispute[s].renewalStopped]]
  BY DEF BeginReadmit
<1> DEFINE f == [NoFrame EXCEPT !.sub = s, !.task = "readmit",
                                !.stopped = dispute[s].renewalStopped]
<1>2. /\ f \in [sub: Subs \cup {None}, task: Tasks, snap: Snapshot, stopped: BOOLEAN]
      /\ f.sub = s /\ f.task = "readmit" /\ ~f.snap.endedAt
  <2>1. dispute[s].renewalStopped \in BOOLEAN
    BY DEF IInv, TypeOK, Dispute
  <2> QED  BY <2>1 DEF NoFrame, NoSnapshot, Snapshot, Tasks
<1>3. Data' /\ Grows /\ UNCHANGED <<todo, faults>> /\ pc' = [pc EXCEPT ![p] = "except"]
  BY UnreadKeeps DEF BeginReadmit
<1>4. frame' = [frame EXCEPT ![p] = f]
  BY <1>1
<1> HIDE DEF f
<1>5. frame'[p] = f /\ pc'[p] = "except"
  BY <1>3, <1>4 DEF IInv, TypeOK
<1>6. Moves(p, "except")
  BY <1>2, <1>3, <1>4, <1>5, PaidAccessAssumption
     DEF Moves, Control, ListHasStage, OthersStay, IInv, TypeOK, Resting, Labels
<1>7. Fits(p)'
  BY <1>2, <1>5 DEF Fits
<1> QED  BY <1>3, <1>5, <1>6, <1>7, StepKeeps

LEMMA FailKeeps ==
  ASSUME IInv, PaidAccessAssumption, NEW p \in Procs, Fail(p)
  PROVE  IInv'
<1>1. NoFrame \in [sub: Subs \cup {None}, task: Tasks, snap: Snapshot, stopped: BOOLEAN]
  BY DEF NoFrame, NoSnapshot, Snapshot, Tasks
<1>2. Data' /\ Grows
  BY UnreadKeeps DEF Fail
<1>3. pc'[p] \in Resting /\ pc' \in [Procs -> Labels] /\ \A q \in Procs \ {p} : pc'[q] = pc[q]
  BY DEF Fail, IInv, TypeOK, Labels, Resting
<1>4. faults' \in 0..MaxFaults
  BY PaidAccessAssumption DEF Fail, IInv, TypeOK
<1>5. /\ todo' \in [Procs -> [stage: 0..Len(Stages), subs: SUBSET Subs]]
      /\ \A q \in Procs \ {p} : todo'[q] = todo[q]
      /\ todo'[p] = todo[p] \/ todo'[p] = [stage |-> 0, subs |-> {}]
  <2> DEFINE none == [stage |-> 0, subs |-> {}]
  <2>1. none \in [stage: 0..Len(Stages), subs: SUBSET Subs]
    BY DEF Stages
  <2>2. UNCHANGED todo \/ todo' = [todo EXCEPT ![p] = none]
    BY DEF Fail
  <2> HIDE DEF none
  <2>3. /\ todo' \in [Procs -> [stage: 0..Len(Stages), subs: SUBSET Subs]]
        /\ \A q \in Procs \ {p} : todo'[q] = todo[q]
        /\ todo'[p] = todo[p] \/ todo'[p] = none
    <3>1. todo \in [Procs -> [stage: 0..Len(Stages), subs: SUBSET Subs]]
      BY DEF IInv, TypeOK
    <3>2. CASE UNCHANGED todo
      BY <3>1, <3>2
    <3>3. CASE todo' = [todo EXCEPT ![p] = none]
      BY <2>1, <3>1, <3>3
    <3> QED  BY <2>2, <3>2, <3>3
  <2> QED  BY <2>3 DEF none
<1>6. frame' = [frame EXCEPT ![p] = NoFrame] /\ NoFrame.sub = None
  BY DEF Fail, NoFrame
<1>7. /\ frame' \in [Procs -> [sub: Subs \cup {None}, task: Tasks, snap: Snapshot, stopped: BOOLEAN]]
      /\ \A q \in Procs \ {p} : frame'[q] = frame[q]
      /\ frame'[p].sub = None
  BY <1>1, <1>6 DEF IInv, TypeOK
<1>8. Moves(p, pc'[p])
  <2>1. Control'
    BY <1>3, <1>4, <1>5, <1>7 DEF Control, IInv, TypeOK, Resting
  <2>2. ListHasStage'
    BY <1>5 DEF ListHasStage, IInv
  <2>3. OthersStay(p)
    BY <1>3, <1>5, <1>7 DEF OthersStay
  <2>4. todo'[p] = todo[p] \/ ListFits(p)'
    BY <1>5 DEF ListFits
  <2> QED  BY <2>1, <2>2, <2>3, <2>4 DEF Moves
<1> QED  BY <1>2, <1>3, <1>8, RestingFits, StepKeeps

\* What happens outside moves no invocation.
LEMMA OutsideKeeps ==
  ASSUME IInv, PaidAccessAssumption, Outside
  PROVE  IInv'
<1>1. UNCHANGED <<refund, record, payer, pc, frame, todo, faults>> /\ changes' \in 0..MaxChanges
  BY PaidAccessAssumption DEF Outside, IInv, TypeOK
<1>2. Data' /\ Grows
  <2>1. CASE OpenCheckout /\ UNCHANGED dispute
    <3> DEFINE s == CHOOSE t \in Unused : TRUE
    <3>1. s \in Subs /\ stripe[s].status = "none"
      BY <2>1 DEF OpenCheckout, Unused
    <3>2. stripe' = [stripe EXCEPT ![s] = [stripe[s] EXCEPT !.status = "session"]]
      BY <2>1 DEF OpenCheckout
    <3> HIDE DEF s
    <3>3. [stripe[s] EXCEPT !.status = "session"] \in Subscription
      BY <3>1 DEF IInv, TypeOK, Subscription
    <3> QED  BY <1>1, <2>1, <3>1, <3>2, <3>3, StripeGrows
  <2>2. ASSUME NEW s \in Subs, UNCHANGED dispute,
               PayCheckout(s) \/ CancelAtPeriodEnd(s) \/ KeepRenewing(s) \/ PeriodEnds(s)
        PROVE  Data' /\ Grows
    <3>1. stripe[s] \in Subscription
      BY DEF IInv, TypeOK
    <3>2. PICK t \in Subscription :
            /\ stripe' = [stripe EXCEPT ![s] = t]
            /\ stripe[s].status = "ended" => t.status = "ended"
      <4>1. ASSUME NEW x \in {"live", "ended"} PROVE [stripe[s] EXCEPT !.status = x] \in Subscription
        BY <3>1 DEF Subscription
      <4>2. ASSUME NEW x \in {"customer", "none"}
            PROVE  [stripe[s] EXCEPT !.cancelAt = x] \in Subscription
        BY <3>1 DEF Subscription
      <4> QED  BY <2>2, <4>1, <4>2 DEF PayCheckout, CancelAtPeriodEnd, KeepRenewing, PeriodEnds
    <3> QED  BY <1>1, <2>2, <3>2, StripeGrows
  <2>3. ASSUME NEW s \in Subs, UNCHANGED dispute, RenewalTurns(s)
        PROVE  Data' /\ Grows
    <3>1. stripe[s] \in Subscription /\ stripe[s].status # "ended"
      BY <2>3 DEF IInv, TypeOK, RenewalTurns
    <3>2. PICK to \in {"paid", "failed", "overdue"} :
            stripe' = [stripe EXCEPT ![s] = [stripe[s] EXCEPT !.renewal = to]]
      <4>1. PICK turn \in {<<"paid", "failed">>, <<"failed", "overdue">>,
                           <<"failed", "paid">>, <<"overdue", "paid">>} :
              stripe' = [stripe EXCEPT ![s].renewal = turn[2]]
        BY <2>3 DEF RenewalTurns
      <4>2. turn[2] \in {"paid", "failed", "overdue"}
        OBVIOUS
      <4> QED  BY <4>1, <4>2
    <3>3. [stripe[s] EXCEPT !.renewal = to] \in Subscription
      BY <3>1 DEF Subscription
    <3> QED  BY <1>1, <2>3, <3>1, <3>2, <3>3, StripeGrows
  <2>4. ASSUME NEW s \in Subs, UNCHANGED stripe, DisputeTurns(s)
        PROVE  Data' /\ Grows
    <3>1. PICK to \in {"open", "won"} :
            dispute' = [dispute EXCEPT ![s] = [dispute[s] EXCEPT !.state = to]]
      BY <2>4 DEF DisputeTurns
    <3>2. /\ [dispute[s] EXCEPT !.state = to] \in Dispute
          /\ dispute[s].known => [dispute[s] EXCEPT !.state = to].known
      BY DisputeUpdates DEF IInv, TypeOK
    <3> DEFINE d == [dispute[s] EXCEPT !.state = to]
    <3> HIDE DEF d
    <3>3. dispute' = [dispute EXCEPT ![s] = d] /\ d \in Dispute /\ (dispute[s].known => d.known)
      BY <3>1, <3>2 DEF d
    <3> QED  BY <1>1, <2>4, <3>3 DEF IInv, TypeOK, Data, Grows, Refunded
  <2> QED  BY <2>1, <2>2, <2>3, <2>4 DEF Outside
<1>3. TypeOK'
  <2>1. Control'
    BY <1>1, TypesSplit DEF IInv, Control
  <2> QED  BY <1>2, <2>1, TypesSplit, PTL
<1>4. ASSUME NEW p \in Procs  PROVE Fits(p)' /\ ListFits(p)'
  <2>1. /\ frame'[p] = frame[p] /\ pc'[p] = pc[p] /\ todo'[p] = todo[p] /\ Fits(p) /\ ListFits(p)
        /\ todo[p].subs \subseteq Subs
    BY <1>1 DEF IInv, TypeOK
  <2>2. pc[p] \notin Resting => frame[p].sub \in Subs
    BY NamesOne
  <2> QED  BY <1>2, <2>1, <2>2 DEF Fits, ListFits, Grows, Cause, Refunded
<1> QED  BY <1>1, <1>3, <1>4 DEF IInv, ListHasStage

-----------------------------------------------------------------------------
(* The invariant is inductive.                                             *)

LEMMA InitIInv ==
  ASSUME PaidAccessAssumption, Init
  PROVE  IInv
<1>1. NoFrame \in [sub: Subs \cup {None}, task: Tasks, snap: Snapshot, stopped: BOOLEAN]
      /\ NoFrame.sub = None
  BY DEF NoFrame, NoSnapshot, Snapshot, Tasks
<1>2. [stage |-> 0, subs |-> {}] \in [stage: 0..Len(Stages), subs: SUBSET Subs]
  BY DEF Stages
<1>3. Control
  BY <1>1, <1>2, PaidAccessAssumption DEF Init, Control, Labels, Resting
<1>4. Data
  BY PaidAccessAssumption
     DEF Init, Data, Subscription, Dispute, RefundState, Record
<1>5. \A p \in Procs : pc[p] \in Resting /\ todo[p] = [stage |-> 0, subs |-> {}]
  BY DEF Init, Resting
<1> QED  BY <1>3, <1>4, <1>5, TypesSplit DEF IInv, ListHasStage, Fits, ListFits

LEMMA ContinueKeeps ==
  ASSUME IInv, NEW p \in Procs, Continue(p)
  PROVE  IInv'
<1>1. CASE CheckEnd(p) \/ Retrieve(p) \/ RecordSubscription(p) \/ Lapse(p)
  BY <1>1, CheckEndKeeps, RetrieveKeeps, RecordSubscriptionKeeps, LapseKeeps
<1>2. CASE Blocks(p) \/ ReadForGrant(p) \/ Grant(p)
  BY <1>2, BlocksKeeps, ReadForGrantKeeps, GrantKeeps
<1>3. CASE MatchRefund(p) \/ Revoke(p) \/ Cancel(p) \/ MarkRevoked(p)
  BY <1>3, MatchRefundKeeps, RevokeKeeps, CancelKeeps, MarkRevokedKeeps
<1>4. CASE SeeDispute(p) \/ NoteStop(p) \/ StopRenewal(p)
  BY <1>4, SeeDisputeKeeps, NoteStopKeeps, StopRenewalKeeps
<1>5. CASE RecordRefund(p) \/ MakeRefund(p) \/ AttachRefund(p)
  BY <1>5, RecordRefundKeeps, MakeRefundKeeps, AttachRefundKeeps
<1>6. CASE GrantException(p) \/ ResumeRenewal(p) \/ CheckStanding(p)
  BY <1>6, GrantExceptionKeeps, ResumeRenewalKeeps, CheckStandingKeeps
<1> QED  BY <1>1, <1>2, <1>3, <1>4, <1>5, <1>6 DEF Continue

LEMMA NextIInv ==
  ASSUME PaidAccessAssumption, IInv, [Next]_vars
  PROVE  IInv'
<1>1. ASSUME NEW p \in Procs, Continue(p)  PROVE IInv'
  BY <1>1, ContinueKeeps
<1>2. ASSUME NEW p \in Procs, Fail(p)  PROVE IInv'
  BY <1>2, FailKeeps
<1>3. ASSUME NEW p \in Hooks, Receive(p)  PROVE IInv'
  BY <1>3, ReceiveKeeps DEF Procs
<1>4. ASSUME NEW p \in Passes, Reconcile(p)  PROVE IInv'
  BY <1>4, NextStageKeeps, NextItemKeeps DEF Procs, Reconcile
<1>5. ASSUME NEW p \in Operators, BeginRefund(p) \/ BeginReadmit(p)  PROVE IInv'
  BY <1>5, BeginRefundKeeps, BeginReadmitKeeps DEF Procs
<1>6. CASE Outside
  BY <1>6, OutsideKeeps
<1>7. CASE UNCHANGED vars
  BY <1>7 DEF vars, IInv, TypeOK, ListHasStage, Fits, ListFits, Cause, Refunded
<1> QED  BY <1>1, <1>2, <1>3, <1>4, <1>5, <1>6, <1>7 DEF Next

LEMMA AlwaysIInv == Spec => []IInv
<1>1. Init => IInv
  BY InitIInv, PaidAccessAssumption
<1>2. IInv /\ [Next]_vars => IInv'
  BY NextIInv, PaidAccessAssumption
<1> QED  BY <1>1, <1>2, PTL DEF Spec

-----------------------------------------------------------------------------
(* The theorems.                                                           *)

\* Every variable keeps its type, and an invocation or a pass names a
\* subscription exactly while it works on one, whatever fails and whenever.
THEOREM PaidAccessTypes == Spec => []TypeOK
<1>1. IInv => TypeOK
  BY DEF IInv
<1> QED  BY <1>1, AlwaysIInv, PTL

\* An end on record is never cleared, by whatever snapshot lands after it.
THEOREM EndStandsAlways == Spec => EndStands
<1>1. IInv /\ [Next]_vars => [\A s \in Subs : record[s].endedAt => record'[s].endedAt]_vars
  <2> SUFFICES ASSUME IInv, [Next]_vars
               PROVE  \A s \in Subs : record[s].endedAt => record'[s].endedAt
    OBVIOUS
  <2>1. ASSUME NEW p \in Procs, RecordSubscription(p)
        PROVE  \A s \in Subs : record[s].endedAt => record'[s].endedAt
    BY <2>1 DEF RecordSubscription, Recorded, IInv, TypeOK
  <2>2. (\E p \in Procs : RecordSubscription(p)) \/ UNCHANGED record
    BY DEF Next, Continue, Reconcile, Procs, Unread, vars, CheckEnd, Retrieve, Lapse, Blocks,
           ReadForGrant, Grant, MatchRefund, Revoke, Cancel, MarkRevoked, SeeDispute, NoteStop,
           StopRenewal, SetCancelAt, RecordRefund, MakeRefund, AttachRefund, RefundStep,
           GrantException, ResumeRenewal, CheckStanding, Fail, Receive, NextStage, NextItem,
           BeginRefund, BeginReadmit, Outside
  <2> QED  BY <2>1, <2>2
<1> QED  BY <1>1, AlwaysIInv, PTL DEF Spec, EndStands

\* Access is lost only through an end, a refund or a dispute of the very
\* subscription that pays, however late or often another one's end arrives.
THEOREM OnlyOwnEndLapsesAlways == Spec => OnlyOwnEndLapses
<1> DEFINE OwnEnd == payer # None /\ payer' = None =>
                       \/ stripe[payer].status = "ended"
                       \/ refund[payer] \in {"attached", "revoked"}
                       \/ dispute[payer].known
<1>1. IInv /\ [Next]_vars => [OwnEnd]_vars
  <2> SUFFICES ASSUME IInv, [Next]_vars, payer # None, payer' = None
               PROVE  stripe[payer].status = "ended" \/ Cause(payer)
    BY DEF Cause
  <2>1. ASSUME NEW p \in Procs, Lapse(p)
        PROVE  stripe[payer].status = "ended"
    <3>1. payer = frame[p].sub /\ pc[p] = "lapse"
      BY <2>1 DEF Lapse, EndPaidAccess
    <3> QED  BY <3>1 DEF IInv, Fits, Resting
  <2>2. ASSUME NEW p \in Procs, Revoke(p)
        PROVE  Cause(payer)
    <3>1. payer = frame[p].sub /\ pc[p] = "revoke"
      BY <2>2 DEF Revoke, EndPaidAccess
    <3> QED  BY <3>1 DEF IInv, Fits, Resting
  <2>3. ASSUME NEW p \in Procs, Grant(p)
        PROVE  FALSE
    <3>1. frame[p].sub \in Subs /\ payer' = frame[p].sub
      BY <2>3, NamesOne DEF Grant, Resting
    <3> QED  BY <3>1, PaidAccessAssumption
  <2>4. (\E p \in Procs : Lapse(p) \/ Revoke(p) \/ Grant(p)) \/ UNCHANGED payer
    BY DEF Next, Continue, Reconcile, Procs, Unread, vars, CheckEnd, Retrieve, Blocks,
           RecordSubscription, ReadForGrant, MatchRefund, Cancel, MarkRevoked, SeeDispute, NoteStop,
           StopRenewal, SetCancelAt, RecordRefund, MakeRefund, AttachRefund, RefundStep,
           GrantException, ResumeRenewal, CheckStanding, Fail, Receive, NextStage, NextItem,
           BeginRefund, BeginReadmit, Outside
  <2> QED  BY <2>1, <2>2, <2>3, <2>4
<1> QED  BY <1>1, AlwaysIInv, PTL DEF Spec, OnlyOwnEndLapses
=============================================================================
