------------------------ MODULE AccountDeletion_proof -----------------------
(***************************************************************************)
(* What AccountDeletion promises, proved for any number of invocations,    *)
(* any retention periods and any bounds.  That data under a Legal Hold     *)
(* stays is proved of the code's steps alone.  That a restore undoes no    *)
(* deletion rests on what the operator promises and no code enforces       *)
(* (PromptSpec), and on the longest wait and the Backup Window together    *)
(* being shorter than Deletion Record Retention (Timely).                  *)
(***************************************************************************)
EXTENDS AccountDeletion, TLAPS

Timely == LongestWait + BackupWindow < RecordRetention

-----------------------------------------------------------------------------
(* The inductive invariant.                                                *)

Active == {"billing", "check", "write", "mark", "delete"}

\* What an invocation has read still stands: the clock has moved on by a day at
\* most, the intent is the account's until the account is gone, and a
\* record is relied on only if it is there.
FrameFits(f) ==
  /\ f.step # "idle" => f.at <= now /\ now <= f.at + 1 /\ f.at > 0
  /\ f.step = "commit" /\ db.account => db.requested # 0
  /\ f.step \in Active =>
       /\ f.requested \in 1..now
       /\ db.account => db.requested = f.requested
       /\ db.account /\ f.journaled => f.requested \in journal
  /\ f.step \in {"mark", "delete"} /\ db.account => f.requested \in journal

FramesFit == \A w \in Workers : FrameFits(worker[w])

IntentIsPast == db.requested <= now

NoAccountNoIntent == ~db.account => db.requested = 0

\* Every invocation is over before the branch takes the place of production.
Quiet ==
  restore.step \in {"drained", "applied", "reconciled"}
  => \A w \in Workers : worker[w].step = "idle"

\* While the account is there, the journal names its intent or nothing.
JournalNamesIntent ==
  db.account => /\ journal \subseteq {db.requested}
                /\ db.requested # 0 /\ db.journaled => db.requested \in journal

\* No intent waits longer than LongestWait.
InTime == db.requested # 0 => now <= db.requested + LongestWait

\* An account that is gone was deleted on a record that is still there, if it
\* is not past its retention, and no later than LongestWait after it.
GoneOnRecord ==
  ~db.account /\ backup.db.account =>
    \E at \in 1..Days : /\ backup.at <= at + LongestWait
                        /\ at \in journal \/ now - at >= RecordRetention

\* The restore point lies in production's past.
BackupIsPast ==
  /\ backup.at <= now
  /\ db.account /\ backup # NoBackup => backup.db.account
  /\ backup.db.requested # 0 => backup.db.account
  /\ db.account /\ backup.db.requested # 0 =>
       /\ db.requested = backup.db.requested
       /\ backup.db.journaled => db.journaled

\* What the steps of the restore have established about the branch.
BranchTaken ==
  /\ restore.step # "none" => backup # NoBackup
  /\ restore.step \in {"none", "stopped"} => ~restore.heldIntent
  /\ restore.heldIntent => db.requested # 0
  /\ restore.step \in {"stopped", "journaled", "drained"} =>
       /\ restore.db = backup.db
       /\ ~db.account /\ restore.db.account => journal # {}

IntentsJournaled ==
  restore.step \in {"journaled", "drained"} /\ db.account /\ db.requested # 0
  => restore.heldIntent \/ journal # {}

RecordsApplied ==
  restore.step = "applied" =>
    /\ restore.db.account =>
         /\ db.account /\ restore.db = backup.db
         /\ journal = {}
         /\ db.requested # 0 => restore.heldIntent
    /\ ~restore.db.account => journal # {} \/ ~backup.db.account
    /\ ~restore.db.account => restore.db.requested = 0

BranchReady ==
  restore.step = "reconciled" =>
    /\ restore.db.account =>
         /\ db.account
         /\ db.requested # 0 <=> restore.db.requested # 0
         /\ db.requested <= restore.db.requested
         /\ restore.db.requested <= now
         /\ restore.db.requested # 0 => ~restore.db.journaled
    /\ ~restore.db.account => journal # {} \/ ~backup.db.account
    /\ ~restore.db.account => restore.db.requested = 0

Restoring == BranchTaken /\ IntentsJournaled /\ RecordsApplied /\ BranchReady

IInv ==
  /\ TypeOK
  /\ IntentIsPast /\ FramesFit /\ NoAccountNoIntent /\ Quiet
  /\ JournalNamesIntent /\ InTime /\ GoneOnRecord
  /\ BackupIsPast /\ Restoring

-----------------------------------------------------------------------------
(* What the statements on the account's rows do, field by field.           *)

Reason == {"owner_request", "retention_deadline"}

\* An intent is inserted only where there is an account and no intent.
LEMMA WithIntentFields ==
  ASSUME NEW d \in Db, NEW at \in Nat \ {0}, NEW why \in Reason, NEW e,
         e = WithIntent(d, at, why)
  PROVE  /\ e \in Db /\ e.account = d.account
         /\ e.hold = d.hold /\ e.heldInTime = d.heldInTime /\ e.deadline = d.deadline
         /\ ~d.account \/ d.requested # 0 => e = d
         /\ d.account /\ d.requested = 0 => e.requested = at /\ ~e.journaled /\ e.reason = why
<1>1. CASE d.account /\ d.requested = 0
  <2>1. e = [d EXCEPT !.requested = at, !.journaled = FALSE, !.reason = why]
    BY <1>1 DEF WithIntent
  <2> QED  BY <1>1, <2>1 DEF Db, Reason
<1>2. CASE ~(d.account /\ d.requested = 0)
  BY <1>2 DEF WithIntent
<1> QED  BY <1>1, <1>2

\* A hold changes nothing but the hold: it is never shorter than the one in force,
\* and counts as in time only if no purge is past its last safe point.
LEMMA WithHoldFields ==
  ASSUME NEW d \in Db, NEW until \in Nat, NEW e, e = WithHold(d, until, now, ~PurgeBegun)
  PROVE  /\ e \in Db /\ e.account = d.account /\ e.requested = d.requested
         /\ e.journaled = d.journaled /\ e.reason = d.reason /\ e.deadline = d.deadline
         /\ e.hold >= d.hold /\ e.hold >= until
         /\ Held(d, now) => e.heldInTime = d.heldInTime
         /\ ~Held(d, now) /\ PurgeBegun => ~e.heldInTime
         /\ ~Held(d, now) /\ ~PurgeBegun => e.heldInTime
<1> DEFINE h == IF until > d.hold THEN until ELSE d.hold
           f == IF Held(d, now) THEN d.heldInTime ELSE ~PurgeBegun
<1>1. h \in Nat /\ h >= d.hold /\ h >= until  BY DEF Db
<1>2. f \in BOOLEAN
  <2>1. d.heldInTime \in BOOLEAN  BY DEF Db
  <2>2. CASE Held(d, now)  BY <2>1, <2>2
  <2>3. CASE ~Held(d, now) /\ PurgeBegun  BY <2>3
  <2>4. CASE ~Held(d, now) /\ ~PurgeBegun  BY <2>4
  <2> QED  BY <2>2, <2>3, <2>4
<1>3. /\ Held(d, now) => f = d.heldInTime
      /\ ~Held(d, now) /\ PurgeBegun => ~f
      /\ ~Held(d, now) /\ ~PurgeBegun => f
  OBVIOUS
<1>4. e = [d EXCEPT !.hold = h, !.heldInTime = f]  BY DEF WithHold
<1> HIDE DEF h, f
<1>5. /\ e \in Db /\ e.account = d.account /\ e.requested = d.requested
      /\ e.journaled = d.journaled /\ e.reason = d.reason /\ e.deadline = d.deadline
      /\ e.hold = h /\ e.heldInTime = f
  BY <1>1, <1>2, <1>4 DEF Db
<1> QED  BY <1>1, <1>3, <1>5

\* Marking sets journaled_at on the intent that is there.
LEMMA MarkedFields ==
  ASSUME NEW d \in Db, NEW e, e = MarkedJournaled(d)
  PROVE  /\ e \in Db /\ e.account = d.account /\ e.requested = d.requested
         /\ e.hold = d.hold /\ e.heldInTime = d.heldInTime /\ e.reason = d.reason
         /\ d.journaled => e.journaled
<1>1. CASE d.requested = 0  BY <1>1 DEF MarkedJournaled
<1>2. CASE d.requested # 0
  <2>1. e = [d EXCEPT !.journaled = TRUE]  BY <1>2 DEF MarkedJournaled
  <2> QED  BY <2>1 DEF Db
<1> QED  BY <1>1, <1>2

\* A row that is gone leaves nothing.
LEMMA ErasedFields ==
  /\ Erased \in Db /\ ~Erased.account /\ Erased.requested = 0 /\ ~Erased.journaled
  /\ Erased.hold = 0 /\ Erased.reason = "owner_request"
  /\ NewAccount \in Db /\ NewAccount.account /\ NewAccount.requested = 0
  /\ NewAccount.hold = 0 /\ NewAccount.reason = "owner_request"
BY DEF Erased, NewAccount, Db

\* The hold the operator places again leaves the intent as it is.
LEMMA ReheldFields ==
  ASSUME NEW d \in Db, TypeOK, NEW e, e = Reheld(d)
  PROVE  /\ e \in Db /\ e.account = d.account /\ e.requested = d.requested
         /\ e.journaled = d.journaled /\ e.reason = d.reason
<1>1. heldUntil \in Nat  BY DEF TypeOK
<1>2. CASE e = d  BY <1>2
<1>3. CASE e = WithHold(d, heldUntil, now, ~PurgeBegun)
  BY <1>1, <1>3, WithHoldFields
<1> QED  BY <1>2, <1>3 DEF Reheld

-----------------------------------------------------------------------------
(* The invariant holds at first, and every step preserves it.              *)

LEMMA Initially == Init => IInv
<1> SUFFICES ASSUME Init PROVE IInv  OBVIOUS
<1> USE AccountDeletionAssumption, ErasedFields
<1>1. TypeOK
  BY DEF Init, TypeOK, NoBackup, NoRestore, Frame, Idle, Steps, RestoreSteps
<1>2. IntentIsPast /\ NoAccountNoIntent /\ Quiet /\ InTime
  BY DEF Init, IntentIsPast, NoAccountNoIntent, Quiet, InTime, NoRestore
<1>3. FramesFit
  BY DEF Init, FramesFit, FrameFits, Idle, Active
<1>4. JournalNamesIntent /\ GoneOnRecord /\ BackupIsPast
  BY DEF Init, JournalNamesIntent, GoneOnRecord, BackupIsPast, NoBackup
<1>5. Restoring
  BY DEF Init, NoRestore, Restoring, BranchTaken, IntentsJournaled, RecordsApplied, BranchReady
<1> QED  BY <1>1, <1>2, <1>3, <1>4, <1>5 DEF IInv

\* While production takes writes, no restore is under way to be disturbed.
LEMMA WritableKeepsRestoring ==
  ASSUME IInv, Writable, UNCHANGED restore
  PROVE  Quiet' /\ Restoring'
BY DEF IInv, Writable, Quiet, Restoring, BranchTaken, IntentsJournaled, RecordsApplied, BranchReady

\* A step of one invocation that changes nothing else.
LEMMA FrameStep ==
  ASSUME IInv, NEW w \in Workers, NEW f \in Frame, FrameFits(f),
         worker' = [worker EXCEPT ![w] = f],
         f.step # "idle" => restore.step \in {"none", "stopped", "journaled"},
         faults' \in 0..MaxFaults,
         UNCHANGED <<now, db, journal, heldUntil, backup, restore, restores>>
  PROVE  IInv'
<1>1. TypeOK'  BY DEF IInv, TypeOK
<1>2. FramesFit'
  <2> SUFFICES ASSUME NEW v \in Workers PROVE FrameFits(worker[v])'  BY DEF FramesFit
  <2>1. worker'[v] = IF v = w THEN f ELSE worker[v]  BY DEF IInv, TypeOK
  <2>2. FrameFits(worker'[v])  BY <2>1 DEF IInv, FramesFit
  <2> QED  BY <2>2 DEF FrameFits
<1>3. Quiet'  BY DEF IInv, TypeOK, Quiet
<1>4. /\ IntentIsPast' /\ NoAccountNoIntent' /\ JournalNamesIntent' /\ InTime'
      /\ GoneOnRecord' /\ BackupIsPast'
  BY DEF IInv, IntentIsPast, NoAccountNoIntent, JournalNamesIntent, InTime, GoneOnRecord,
         BackupIsPast
<1>5. Restoring'
  BY DEF IInv, Restoring, BranchTaken, IntentsJournaled, RecordsApplied, BranchReady
<1> QED  BY <1>1, <1>2, <1>3, <1>4, <1>5 DEF IInv

\* An invocation that is over relies on nothing.
LEMMA IdleFits == Idle \in Frame /\ FrameFits(Idle) /\ Idle.step = "idle"
BY DEF Idle, Frame, Steps, FrameFits, Active

\* What every proof below needs of the types.
LEMMA Typed ==
  ASSUME TypeOK
  PROVE  /\ now \in Nat /\ now > 0 /\ now <= Days
         /\ db \in Db /\ db.requested \in Nat /\ db.hold \in Nat /\ db.account \in BOOLEAN
         /\ journal \subseteq Nat /\ 0 \notin journal
         /\ backup.at \in Nat /\ backup.db \in Db
         /\ \A w \in Workers : /\ worker[w] \in Frame /\ worker[w].at \in Nat
                               /\ worker[w].requested \in Nat
BY AccountDeletionAssumption DEF TypeOK, Db, Frame

-----------------------------------------------------------------------------
(* Steps of an invocation.                                                 *)

\* An intent is committed, or the one that is there is read.
LEMMA IntentStep ==
  ASSUME IInv, Writable, db.account,
         NEW w \in Workers, NEW at \in Nat \ {0}, at <= now, now <= at + 1,
         NEW why \in Reason, NEW f \in Frame, f.step \in {"commit", "billing"}, f.at = at,
         db' = WithIntent(db, at, why),
         f.step = "billing" => f.requested = db'.requested /\ f.journaled = db'.journaled,
         worker' = [worker EXCEPT ![w] = f],
         UNCHANGED <<now, journal, heldUntil, backup, restore, faults, restores>>
  PROVE  IInv'
<1> USE Typed, WithIntentFields, AccountDeletionAssumption
<1>0. TypeOK  BY DEF IInv
<1>1. /\ db' \in Db /\ db'.account
      /\ db'.hold = db.hold /\ db'.heldInTime = db.heldInTime
      /\ db.requested # 0 => db' = db
      /\ db.requested = 0 => db'.requested = at /\ ~db'.journaled
  <2>1. db \in Db  BY <1>0
  <2> QED  BY <2>1
<1>2. db'.requested \in 1..now  BY <1>0, <1>1 DEF IInv, IntentIsPast
<1>3. db.requested = 0 => journal = {}
  BY <1>0 DEF IInv, JournalNamesIntent
<1>4. TypeOK'  BY <1>0, <1>1 DEF TypeOK
<1>5. FrameFits(f)'
  <2>1. f.step = "billing" /\ f.journaled => f.requested \in journal
    BY <1>1 DEF IInv, JournalNamesIntent
  <2>2. CASE f.step = "commit"  BY <1>0, <1>2, <2>2 DEF FrameFits, Active
  <2>3. CASE f.step = "billing"
    <3>1. f.requested = db'.requested  BY <2>3
    <3> QED  BY <1>0, <1>2, <2>1, <2>3, <3>1 DEF FrameFits, Active
  <2> QED  BY <2>2, <2>3
<1>6. FramesFit'
  <2> SUFFICES ASSUME NEW v \in Workers PROVE FrameFits(worker[v])'  BY DEF FramesFit
  <2>1. CASE v = w
    <3>1. worker'[v] = f  BY <1>0, <2>1 DEF TypeOK
    <3> QED  BY <1>5, <3>1 DEF FrameFits
  <2>2. CASE v # w
    <3>1. worker'[v] = worker[v]  BY <1>0, <2>2 DEF TypeOK
    <3>2. FrameFits(worker[v])  BY DEF IInv, FramesFit
    <3>3. CASE db.requested # 0
      <4>1. db' = db  BY <1>1, <3>3
      <4> QED  BY <3>1, <3>2, <4>1 DEF FrameFits
    <3>4. CASE db.requested = 0
      <4>1. worker[v].step \notin Active \cup {"commit"}
        BY <1>0, <3>2, <3>4 DEF FrameFits
      <4> QED  BY <1>0, <3>1, <3>2, <4>1 DEF FrameFits, Active
    <3> QED  BY <1>0, <3>3, <3>4
  <2> QED  BY <2>1, <2>2
<1>7. IntentIsPast' /\ NoAccountNoIntent'
  BY <1>0, <1>1, <1>2 DEF IntentIsPast, NoAccountNoIntent
<1>8. JournalNamesIntent'  BY <1>1, <1>3 DEF IInv, JournalNamesIntent
<1>9. InTime'  BY <1>0, <1>1 DEF IInv, InTime
<1>10. GoneOnRecord'  BY <1>1 DEF GoneOnRecord
<1>11. BackupIsPast'  BY <1>0, <1>1 DEF IInv, BackupIsPast
<1> QED
  BY <1>4, <1>6, <1>7, <1>8, <1>9, <1>10, <1>11, WritableKeepsRestoring DEF IInv

LEMMA ResumeIsFrame ==
  ASSUME TypeOK, NEW d \in Db, NEW at \in Nat, NEW step \in Steps
  PROVE  [step |-> step, at |-> at, requested |-> d.requested, journaled |-> d.journaled,
          deadline |-> 0] \in Frame
BY DEF Db, Frame

LEMMA OwnerRequestStep ==
  ASSUME IInv, NEW w \in Workers, OwnerRequest(w)  PROVE IInv'
<1> DEFINE f == [step |-> "billing", at |-> now, requested |-> db'.requested,
                 journaled |-> db'.journaled, deadline |-> 0]
<1>1. TypeOK  BY DEF IInv
<1>2. now \in Nat \ {0} /\ db \in Db  BY <1>1, Typed
<1>3. db' = WithIntent(db, now, "owner_request")  BY DEF OwnerRequest
<1>4. "owner_request" \in Reason /\ "billing" \in Steps  BY DEF Reason, Steps
<1>5. db' \in Db  BY <1>2, <1>3, <1>4, WithIntentFields
<1>6. f \in Frame  BY <1>1, <1>2, <1>4, <1>5, ResumeIsFrame
<1>7. worker' = [worker EXCEPT ![w] = f]  BY DEF OwnerRequest, Resume
<1>8. /\ f.step = "billing" /\ f.at = now
      /\ f.requested = db'.requested /\ f.journaled = db'.journaled
  OBVIOUS
<1>9. /\ Writable /\ db.account /\ now <= now /\ now <= now + 1
      /\ UNCHANGED <<now, journal, heldUntil, backup, restore, faults, restores>>
  BY <1>2 DEF OwnerRequest
<1> HIDE DEF f
<1> QED  BY <1>2, <1>3, <1>4, <1>6, <1>7, <1>8, <1>9, IntentStep

LEMMA CommitClaimedStep ==
  ASSUME IInv, NEW w \in Workers, CommitClaimed(w)  PROVE IInv'
<1> DEFINE at == worker[w].at
           f == [step |-> "billing", at |-> at, requested |-> db'.requested,
                 journaled |-> db'.journaled, deadline |-> 0]
<1>1. TypeOK  BY DEF IInv
<1>2. CASE ~db.account
  <2>1. worker' = [worker EXCEPT ![w] = Idle] /\ db' = db  BY <1>2 DEF CommitClaimed, End
  <2> QED  BY <1>1, <2>1, IdleFits, FrameStep DEF CommitClaimed, TypeOK
<1>3. CASE db.account
  <2>1. at \in Nat \ {0} /\ at <= now /\ now <= at + 1 /\ db \in Db
    BY <1>1, Typed DEF IInv, FramesFit, FrameFits, CommitClaimed
  <2>2. db' = WithIntent(db, at, "owner_request")  BY <1>3 DEF CommitClaimed
  <2>3. "owner_request" \in Reason /\ "billing" \in Steps  BY DEF Reason, Steps
  <2> HIDE DEF at
  <2>4. db' \in Db  BY <2>1, <2>2, <2>3, WithIntentFields
  <2>5. f \in Frame  BY <1>1, <2>1, <2>3, <2>4, ResumeIsFrame
  <2>6. worker' = [worker EXCEPT ![w] = f]  BY <1>3 DEF CommitClaimed, Resume, at
  <2>7. /\ f.step = "billing" /\ f.at = at
        /\ f.requested = db'.requested /\ f.journaled = db'.journaled
    OBVIOUS
  <2> HIDE DEF f
  <2> QED  BY <1>3, <2>1, <2>2, <2>3, <2>5, <2>6, <2>7, IntentStep DEF CommitClaimed
<1> QED  BY <1>2, <1>3

LEMMA ClaimPurgeStep ==
  ASSUME IInv, NEW w \in Workers, ClaimPurge(w)  PROVE IInv'
<1> DEFINE at == worker[w].at
           f == [worker[w] EXCEPT !.step = "commit"]
<1>1. TypeOK  BY DEF IInv
<1>2. CASE ~MayClaim(db, worker[w].deadline, at)
  <2>1. worker' = [worker EXCEPT ![w] = Idle] /\ db' = db  BY <1>2 DEF ClaimPurge, End
  <2> QED  BY <1>1, <2>1, IdleFits, FrameStep DEF ClaimPurge, TypeOK
<1>3. CASE MayClaim(db, worker[w].deadline, at)
  <2>1. at \in Nat \ {0} /\ at <= now /\ now <= at + 1 /\ db \in Db
    BY <1>1, Typed DEF IInv, FramesFit, FrameFits, ClaimPurge
  <2>2. db' = WithIntent(db, at, "retention_deadline") /\ db.account
    BY <1>3 DEF ClaimPurge, MayClaim
  <2>3. "retention_deadline" \in Reason  BY DEF Reason
  <2>4. f \in Frame /\ f.step = "commit" /\ f.at = at
    BY <1>1, Typed DEF Frame, Steps
  <2>5. worker' = [worker EXCEPT ![w] = f]
    BY <1>1, <1>3 DEF ClaimPurge, Goto, TypeOK
  <2> HIDE DEF f, at
  <2> QED  BY <2>1, <2>2, <2>3, <2>4, <2>5, IntentStep DEF ClaimPurge
<1> QED  BY <1>2, <1>3

LEMMA SweepIntentStep ==
  ASSUME IInv, NEW w \in Workers, SweepIntent(w)  PROVE IInv'
<1> DEFINE f == [step |-> "billing", at |-> now, requested |-> db.requested,
                 journaled |-> db.journaled, deadline |-> 0]
<1>1. TypeOK  BY DEF IInv
<1>2. now \in Nat /\ now > 0 /\ db \in Db /\ db.requested \in Nat  BY <1>1, Typed
<1>3. f \in Frame  BY <1>1, <1>2, ResumeIsFrame DEF Steps
<1>4. db.requested # 0 /\ worker' = [worker EXCEPT ![w] = f]  BY DEF SweepIntent, Resume
<1>5. db.journaled /\ db.account => db.requested \in journal
  BY <1>4 DEF IInv, JournalNamesIntent
<1>6. FrameFits(f)  BY <1>2, <1>4, <1>5 DEF FrameFits, Active, IInv, IntentIsPast
<1> HIDE DEF f
<1> QED  BY <1>1, <1>3, <1>4, <1>6, FrameStep DEF SweepIntent, Writable, TypeOK

LEMMA ListDueStep ==
  ASSUME IInv, NEW w \in Workers, ListDue(w)  PROVE IInv'
<1> DEFINE f == [step |-> "claim", at |-> now, requested |-> 0, journaled |-> FALSE,
                 deadline |-> db.deadline]
<1>1. TypeOK  BY DEF IInv
<1>2. now \in Nat /\ now > 0 /\ db \in Db  BY <1>1, Typed
<1>3. f \in Frame  BY <1>2 DEF Frame, Steps, Db
<1>4. worker' = [worker EXCEPT ![w] = f]  BY DEF ListDue
<1>5. FrameFits(f)  BY <1>2 DEF FrameFits, Active
<1> HIDE DEF f
<1> QED  BY <1>1, <1>3, <1>4, <1>5, FrameStep DEF ListDue, Writable, TypeOK

\* An invocation moves on with what it has read.
LEMMA GotoFrame ==
  ASSUME TypeOK, NEW w \in Workers, NEW step \in Steps, NEW f,
         f = [worker[w] EXCEPT !.step = step]
  PROVE  /\ f \in Frame /\ f.step = step /\ f.at = worker[w].at
         /\ f.requested = worker[w].requested /\ f.journaled = worker[w].journaled
BY Typed DEF Frame

LEMMA CancelBillingStep ==
  ASSUME IInv, NEW w \in Workers, CancelBilling(w)  PROVE IInv'
<1> DEFINE f == [worker[w] EXCEPT !.step = "check"]
<1>1. TypeOK /\ FrameFits(worker[w]) /\ worker[w].step = "billing"
  BY DEF IInv, FramesFit, CancelBilling
<1>2. worker' = [worker EXCEPT ![w] = f]  BY <1>1 DEF CancelBilling, Goto, TypeOK
<1>3. /\ f \in Frame /\ f.step = "check" /\ f.at = worker[w].at
      /\ f.requested = worker[w].requested /\ f.journaled = worker[w].journaled
  BY <1>1, GotoFrame DEF Steps
<1> HIDE DEF f
<1>4. FrameFits(f)  BY <1>1, <1>3 DEF FrameFits, Active
<1>5. restore.step \in {"none", "stopped", "journaled"}
  BY <1>1 DEF IInv, Quiet, TypeOK, RestoreSteps
<1> QED  BY <1>1, <1>2, <1>3, <1>4, <1>5, FrameStep DEF CancelBilling, TypeOK

LEMMA CheckHoldStep ==
  ASSUME IInv, NEW w \in Workers, CheckHold(w)  PROVE IInv'
<1> DEFINE next == IF worker[w].journaled THEN "delete" ELSE "write"
           f == [worker[w] EXCEPT !.step = next]
<1>1. TypeOK /\ FrameFits(worker[w]) /\ worker[w].step = "check"
  BY DEF IInv, FramesFit, CheckHold
<1>2. CASE Held(db, worker[w].at)
  <2>1. worker' = [worker EXCEPT ![w] = Idle]  BY <1>2 DEF CheckHold, End
  <2> QED  BY <1>1, <2>1, IdleFits, FrameStep DEF CheckHold, TypeOK
<1>3. CASE ~Held(db, worker[w].at)
  <2>1. worker' = [worker EXCEPT ![w] = f]  BY <1>1, <1>3 DEF CheckHold, Goto, TypeOK
  <2>2. next \in Steps /\ next \in {"write", "delete"} /\ (next = "delete" => worker[w].journaled)
    BY DEF Steps
  <2> HIDE DEF next
  <2>3. /\ f \in Frame /\ f.step = next /\ f.at = worker[w].at
        /\ f.requested = worker[w].requested /\ f.journaled = worker[w].journaled
    BY <1>1, <2>2, GotoFrame
  <2> HIDE DEF f
  <2>4. FrameFits(f)  BY <1>1, <1>3, <2>2, <2>3 DEF FrameFits, Active
  <2>5. restore.step \in {"none", "stopped", "journaled"}
    BY <1>1 DEF IInv, Quiet, TypeOK, RestoreSteps
  <2> QED  BY <1>1, <2>1, <2>3, <2>4, <2>5, FrameStep DEF CheckHold, TypeOK
<1> QED  BY <1>2, <1>3

LEMMA RefusedStep ==
  ASSUME IInv, NEW w \in Workers, Refused(w)  PROVE IInv'
BY IdleFits, FrameStep DEF Refused, End, IInv, TypeOK

\* A Deletion Record is written, or a write that failed left it there.
LEMMA RecordStep ==
  ASSUME IInv, NEW w \in Workers, worker[w].step = "write",
         journal' = journal \cup {worker[w].requested},
         NEW f \in Frame, FrameFits(f)', worker' = [worker EXCEPT ![w] = f],
         faults' \in 0..MaxFaults,
         UNCHANGED <<now, db, heldUntil, backup, restore, restores>>
  PROVE  IInv'
<1> DEFINE x == worker[w].requested
<1>0. TypeOK  BY DEF IInv
<1>1. x \in 1..now /\ (db.account => x = db.requested)
  BY <1>0, Typed DEF IInv, FramesFit, FrameFits, Active
<1>2. restore.step \in {"none", "stopped", "journaled"}
  BY <1>0 DEF IInv, Quiet, TypeOK, RestoreSteps
<1>3. journal' = journal \cup {x} /\ journal' # {}  OBVIOUS
<1>4. now \in Nat /\ now <= Days  BY <1>0, Typed
<1> HIDE DEF x
<1>5. TypeOK'
  <2>1. journal \cup {x} \subseteq 1..Days
    BY <1>0, <1>1, <1>4, AccountDeletionAssumption DEF TypeOK
  <2>2. worker' \in [Workers -> Frame]  BY <1>0 DEF TypeOK
  <2> QED  BY <1>0, <1>3, <2>1, <2>2 DEF TypeOK
<1>6. FramesFit'
  <2> SUFFICES ASSUME NEW v \in Workers PROVE FrameFits(worker[v])'  BY DEF FramesFit
  <2>1. worker'[v] = IF v = w THEN f ELSE worker[v]  BY <1>0 DEF TypeOK
  <2>2. FrameFits(worker[v])  BY DEF IInv, FramesFit
  <2>3. CASE v = w  BY <2>1, <2>3 DEF FrameFits
  <2>4. CASE v # w  BY <1>3, <2>1, <2>2, <2>4 DEF FrameFits
  <2> QED  BY <2>3, <2>4
<1>7. JournalNamesIntent'  BY <1>1, <1>3 DEF IInv, JournalNamesIntent
<1>8. GoneOnRecord'  BY <1>3 DEF IInv, GoneOnRecord
<1>9. Restoring'
  BY <1>2, <1>3 DEF IInv, Restoring, BranchTaken, IntentsJournaled, RecordsApplied, BranchReady
<1>10. /\ IntentIsPast' /\ NoAccountNoIntent' /\ Quiet' /\ InTime' /\ BackupIsPast'
  BY <1>2 DEF IInv, IntentIsPast, NoAccountNoIntent, Quiet, InTime, BackupIsPast
<1> QED  BY <1>5, <1>6, <1>7, <1>8, <1>9, <1>10 DEF IInv

LEMMA WriteRecordStep ==
  ASSUME IInv, NEW w \in Workers, WriteRecord(w)  PROVE IInv'
<1>1. TypeOK /\ FrameFits(worker[w]) /\ worker[w].step = "write"
  BY DEF IInv, FramesFit, WriteRecord
<1>2. PICK f : f = [worker[w] EXCEPT !.step = "mark"]  OBVIOUS
<1>3. /\ f \in Frame /\ f.step = "mark" /\ f.at = worker[w].at
      /\ f.requested = worker[w].requested /\ f.journaled = worker[w].journaled
  BY <1>1, <1>2, GotoFrame DEF Steps
<1>4. worker' = [worker EXCEPT ![w] = f]  BY <1>1, <1>2 DEF WriteRecord, Goto, TypeOK
<1>5. FrameFits(f)'  BY <1>1, <1>3 DEF WriteRecord, FrameFits, Active
<1> QED  BY <1>1, <1>3, <1>4, <1>5, RecordStep DEF WriteRecord, TypeOK

LEMMA FailStep ==
  ASSUME IInv, NEW w \in Workers, Fail(w)  PROVE IInv'
<1>1. TypeOK /\ faults' \in 0..MaxFaults /\ worker' = [worker EXCEPT ![w] = Idle]
  BY AccountDeletionAssumption DEF IInv, TypeOK, Fail, Fault, End
<1>2. CASE UNCHANGED journal
  BY <1>1, <1>2, IdleFits, FrameStep DEF Fail
<1>3. CASE worker[w].step = "write" /\ journal' = journal \cup {worker[w].requested}
  <2>1. FrameFits(Idle)'  BY DEF Idle, FrameFits, Active
  <2> QED  BY <1>1, <1>3, <2>1, IdleFits, RecordStep DEF Fail
<1> QED  BY <1>2, <1>3 DEF Fail

LEMMA MarkJournaledStep ==
  ASSUME IInv, NEW w \in Workers, MarkJournaled(w)  PROVE IInv'
<1>0. TypeOK /\ FrameFits(worker[w]) /\ worker[w].step = "mark" /\ Writable
  BY DEF IInv, FramesFit, MarkJournaled
<1>1. PICK f : f = [worker[w] EXCEPT !.step = "delete"]  OBVIOUS
<1>2. /\ f \in Frame /\ f.step = "delete" /\ f.at = worker[w].at
      /\ f.requested = worker[w].requested /\ f.journaled = worker[w].journaled
  BY <1>0, <1>1, GotoFrame DEF Steps
<1>3. worker' = [worker EXCEPT ![w] = f]  BY <1>0, <1>1 DEF MarkJournaled, Goto, TypeOK
<1>4. /\ db \in Db /\ db' \in Db /\ db'.account = db.account /\ db'.requested = db.requested
      /\ db'.hold = db.hold /\ db'.heldInTime = db.heldInTime
      /\ db.journaled => db'.journaled
  BY <1>0, Typed, MarkedFields DEF MarkJournaled
<1>5. UNCHANGED <<now, journal, heldUntil, backup, restore, faults, restores>>
  BY DEF MarkJournaled
<1>6. TypeOK'
  <2>1. worker' \in [Workers -> Frame]  BY <1>0, <1>2, <1>3 DEF TypeOK
  <2> QED  BY <1>0, <1>4, <1>5, <2>1 DEF TypeOK
<1>7. FramesFit'
  <2> SUFFICES ASSUME NEW v \in Workers PROVE FrameFits(worker[v])'  BY DEF FramesFit
  <2>1. worker'[v] = IF v = w THEN f ELSE worker[v]  BY <1>0, <1>3 DEF TypeOK
  <2>2. FrameFits(worker[v])  BY DEF IInv, FramesFit
  <2>3. FrameFits(worker'[v])
    BY <1>0, <1>2, <2>1, <2>2 DEF FrameFits, Active
  <2> QED  BY <1>4, <1>5, <2>3 DEF FrameFits
<1>8. JournalNamesIntent'
  BY <1>0, <1>4, <1>5 DEF IInv, JournalNamesIntent, FrameFits, Active
<1>9. /\ IntentIsPast' /\ NoAccountNoIntent' /\ InTime' /\ GoneOnRecord' /\ BackupIsPast'
  BY <1>4, <1>5 DEF IInv, IntentIsPast, NoAccountNoIntent, InTime, GoneOnRecord, BackupIsPast
<1> QED  BY <1>0, <1>5, <1>6, <1>7, <1>8, <1>9, WritableKeepsRestoring DEF IInv

LEMMA DeleteAccountStep ==
  ASSUME IInv, NEW w \in Workers, DeleteAccount(w)  PROVE IInv'
<1>0. /\ TypeOK /\ FrameFits(worker[w]) /\ worker[w].step = "delete" /\ Writable
      /\ db' = Erased /\ worker' = [worker EXCEPT ![w] = Idle]
      /\ UNCHANGED <<now, journal, heldUntil, backup, restore, faults, restores>>
  BY DEF IInv, FramesFit, DeleteAccount, End
<1>1. db' \in Db /\ ~db'.account /\ db'.requested = 0 /\ db'.hold = 0
  BY <1>0, ErasedFields
<1>2. TypeOK'
  <2>1. worker' \in [Workers -> Frame]  BY <1>0, IdleFits DEF TypeOK
  <2> QED  BY <1>0, <1>1, <2>1 DEF TypeOK
<1>3. FramesFit'
  <2> SUFFICES ASSUME NEW v \in Workers PROVE FrameFits(worker[v])'  BY DEF FramesFit
  <2>1. worker'[v] = IF v = w THEN Idle ELSE worker[v]  BY <1>0 DEF TypeOK
  <2>2. FrameFits(worker'[v])  BY <2>1, IdleFits DEF IInv, FramesFit
  <2> QED  BY <1>0, <1>1, <2>2 DEF FrameFits
<1>4. GoneOnRecord'
  <2>1. CASE ~db.account  BY <1>0, <2>1 DEF IInv, GoneOnRecord
  <2>2. CASE db.account
    <3> DEFINE at == db.requested
    <3>1. at \in 1..now /\ at \in journal
      BY <1>0, <2>2 DEF FrameFits, Active
    <3>2. backup.at <= at + LongestWait /\ at \in 1..Days
      BY <1>0, <3>1, Typed, AccountDeletionAssumption DEF IInv, BackupIsPast, InTime
    <3> QED  BY <1>0, <3>1, <3>2 DEF GoneOnRecord
  <2> QED  BY <2>1, <2>2
<1>5. IntentIsPast' /\ NoAccountNoIntent' /\ InTime' /\ JournalNamesIntent'
  BY <1>0, <1>1, Typed DEF IntentIsPast, NoAccountNoIntent, InTime, JournalNamesIntent
<1>6. BackupIsPast'  BY <1>0, <1>1 DEF IInv, BackupIsPast
<1> QED  BY <1>0, <1>2, <1>3, <1>4, <1>5, <1>6, WritableKeepsRestoring DEF IInv

-----------------------------------------------------------------------------
(* What else happens to an account, and the clock.                         *)

\* A change to the account's other fields, the hold's among them, or to the hold's
\* journal entry.
LEMMA ProfileStep ==
  ASSUME IInv, Writable, db' \in Db, heldUntil' \in Nat,
         db'.account = db.account, db'.requested = db.requested,
         db'.journaled = db.journaled,
         UNCHANGED <<now, journal, backup, worker, restore, faults, restores>>
  PROVE  IInv'
<1>1. TypeOK'  BY DEF IInv, TypeOK
<1>2. FramesFit'
  BY DEF IInv, FramesFit, FrameFits
<1>3. /\ IntentIsPast' /\ NoAccountNoIntent' /\ InTime' /\ GoneOnRecord' /\ BackupIsPast'
      /\ JournalNamesIntent'
  BY DEF IInv, IntentIsPast, NoAccountNoIntent, InTime, GoneOnRecord, BackupIsPast,
         JournalNamesIntent
<1> QED  BY <1>1, <1>2, <1>3, WritableKeepsRestoring DEF IInv

LEMMA DeadlineStep ==
  ASSUME IInv, Lapse \/ Resubscribe  PROVE IInv'
<1>1. now + LapsedRetention \in Nat /\ 0 \in Nat /\ db \in Db /\ heldUntil \in Nat
  BY Typed, AccountDeletionAssumption DEF IInv, TypeOK
<1>2. PICK day \in Nat : db' = [db EXCEPT !.deadline = day]
  BY <1>1 DEF Lapse, Resubscribe
<1>3. /\ db' \in Db /\ db'.account = db.account /\ db'.requested = db.requested
      /\ db'.journaled = db.journaled
  BY <1>1, <1>2 DEF Db
<1> QED  BY <1>1, <1>3, ProfileStep DEF Lapse, Resubscribe

LEMMA JournalHoldStep ==
  ASSUME IInv, JournalHold  PROVE IInv'
BY Typed, ProfileStep DEF JournalHold, IInv, TypeOK

LEMMA PlaceHoldStep ==
  ASSUME IInv, NEW until \in 1..Days, PlaceHold(until)  PROVE IInv'
<1>1. until \in Nat /\ db \in Db /\ heldUntil \in Nat
  BY Typed DEF IInv, TypeOK
<1>2. db' = WithHold(db, until, now, ~PurgeBegun)  BY DEF PlaceHold
<1>3. /\ db' \in Db /\ db'.account = db.account /\ db'.requested = db.requested
      /\ db'.journaled = db.journaled
  BY <1>1, <1>2, WithHoldFields
<1> QED  BY <1>1, <1>3, ProfileStep DEF PlaceHold

\* A Deletion Record that is swept is not one that a deletion still under way
\* relies on.
LEMMA SweepRecordsStep ==
  ASSUME Timely, IInv, SweepRecords  PROVE IInv'
<1>0. /\ TypeOK /\ Writable
      /\ UNCHANGED <<now, db, heldUntil, backup, worker, restore, faults, restores>>
  BY DEF IInv, SweepRecords
<1>1. journal' \subseteq journal /\ \A at \in journal : at \in journal' \/ now - at >= RecordRetention
  BY DEF SweepRecords, IsExpired
<1>2. db.requested # 0 /\ db.requested \in journal => db.requested \in journal'
  <2> SUFFICES ASSUME db.requested # 0, db.requested \in journal
               PROVE  ~(now - db.requested >= RecordRetention)
    BY <1>1
  <2> QED  BY <1>0, Typed, AccountDeletionAssumption DEF Timely, IInv, InTime
<1>3. TypeOK'  BY <1>0, <1>1 DEF TypeOK
<1>4. FramesFit'
  <2> SUFFICES ASSUME NEW v \in Workers PROVE FrameFits(worker[v])'  BY DEF FramesFit
  <2>1. FrameFits(worker[v])  BY DEF IInv, FramesFit
  <2>2. CASE worker[v].step \in Active /\ db.account
    <3>1. worker[v].requested = db.requested /\ worker[v].requested \in 1..now
      BY <2>1, <2>2 DEF FrameFits
    <3>2. worker[v].requested \in journal => worker[v].requested \in journal'
      BY <1>0, <1>2, <3>1, Typed
    <3> QED  BY <1>0, <2>1, <3>2 DEF FrameFits
  <2>3. CASE ~(worker[v].step \in Active /\ db.account)
    BY <1>0, <2>1, <2>3 DEF FrameFits, Active
  <2> QED  BY <2>2, <2>3
<1>5. JournalNamesIntent'  BY <1>0, <1>1, <1>2 DEF IInv, JournalNamesIntent
<1>6. GoneOnRecord'
  <2> SUFFICES ASSUME ~db.account, backup.db.account
               PROVE \E at \in 1..Days : /\ backup.at <= at + LongestWait
                                         /\ at \in journal' \/ now - at >= RecordRetention
    BY <1>0 DEF GoneOnRecord
  <2> QED  BY <1>0, <1>1 DEF IInv, GoneOnRecord
<1>7. IntentIsPast' /\ NoAccountNoIntent' /\ InTime' /\ BackupIsPast'
  BY <1>0 DEF IInv, IntentIsPast, NoAccountNoIntent, InTime, BackupIsPast
<1> QED  BY <1>0, <1>3, <1>4, <1>5, <1>6, <1>7, WritableKeepsRestoring DEF IInv

-----------------------------------------------------------------------------
(* The clock, and the restore.                                             *)

LEMMA CaptureStep ==
  ASSUME IInv, Capture  PROVE IInv'
<1>0. /\ TypeOK /\ Writable /\ backup' = [at |-> now, db |-> db]
      /\ UNCHANGED <<now, db, journal, heldUntil, worker, restore, faults, restores>>
  BY DEF IInv, Capture
<1>1. now \in 1..Days /\ db \in Db /\ now \in Nat /\ db.requested \in Nat
  BY <1>0, Typed, AccountDeletionAssumption
<1>2. backup' \in [at : 0..Days, db : Db] /\ backup'.at = now /\ backup'.db = db
  BY <1>0, <1>1, AccountDeletionAssumption
<1>3. TypeOK'  BY <1>0, <1>2 DEF TypeOK
<1>4. FramesFit'  BY <1>0 DEF IInv, FramesFit, FrameFits
<1>5. BackupIsPast' /\ GoneOnRecord'
  BY <1>0, <1>1, <1>2 DEF IInv, BackupIsPast, GoneOnRecord, NoAccountNoIntent
<1>6. IntentIsPast' /\ NoAccountNoIntent' /\ InTime' /\ JournalNamesIntent'
  BY <1>0 DEF IInv, IntentIsPast, NoAccountNoIntent, InTime, JournalNamesIntent
<1>7. Quiet' /\ Restoring'
  BY <1>0 DEF Writable, Quiet, Restoring, BranchTaken, IntentsJournaled, RecordsApplied,
              BranchReady, IInv
<1> QED  BY <1>3, <1>4, <1>5, <1>6, <1>7 DEF IInv

\* A day passes: no invocation sees a second midnight, and by the operator's promise
\* no deletion waits beyond its time.
LEMMA TickStep ==
  ASSUME IInv, Tick, InTime'  PROVE IInv'
<1>0. /\ TypeOK /\ now' = now + 1 /\ now < Days
      /\ \A w \in Workers : worker[w].step # "idle" => worker[w].at = now
      /\ UNCHANGED <<db, journal, heldUntil, backup, worker, restore, faults, restores>>
  BY DEF IInv, Tick
<1>1. now \in Nat /\ now > 0 /\ db.requested \in Nat /\ db.hold \in Nat /\ backup.at \in Nat
  BY <1>0, Typed
<1>2. TypeOK'  BY <1>0, <1>1, AccountDeletionAssumption DEF TypeOK
<1>3. FramesFit'
  <2> SUFFICES ASSUME NEW w \in Workers PROVE FrameFits(worker[w])'  BY DEF FramesFit
  <2>1. FrameFits(worker[w]) /\ worker[w].requested \in Nat
    BY <1>0, Typed DEF IInv, FramesFit
  <2>2. worker[w].step # "idle" => worker[w].at <= now' /\ now' <= worker[w].at + 1 /\ worker[w].at > 0
    BY <1>0, <1>1
  <2>3. worker[w].requested \in 1..now => worker[w].requested \in 1..now'
    BY <1>0, <1>1, <2>1
  <2> QED  BY <1>0, <2>1, <2>2, <2>3 DEF FrameFits
<1>4. IntentIsPast' /\ NoAccountNoIntent' /\ JournalNamesIntent'
  BY <1>0, <1>1 DEF IInv, IntentIsPast, NoAccountNoIntent, JournalNamesIntent
<1>5. GoneOnRecord'
  <2> SUFFICES ASSUME ~db.account, backup.db.account
               PROVE \E at \in 1..Days : /\ backup.at <= at + LongestWait
                                         /\ at \in journal \/ now' - at >= RecordRetention
    BY <1>0 DEF GoneOnRecord
  <2>1. PICK at \in 1..Days : /\ backup.at <= at + LongestWait
                              /\ at \in journal \/ now - at >= RecordRetention
    BY DEF IInv, GoneOnRecord
  <2>2. now - at >= RecordRetention => now' - at >= RecordRetention
    BY <1>0, <1>1, AccountDeletionAssumption
  <2> QED  BY <2>1, <2>2
<1>6. BackupIsPast'  BY <1>0, <1>1 DEF IInv, BackupIsPast
<1>7. Quiet'  BY <1>0 DEF IInv, Quiet
<1>8. Restoring'
  <2>1. restore.db.requested \in Nat
    BY <1>0 DEF TypeOK, Db
  <2> QED
    BY <1>0, <1>1, <2>1 DEF IInv, Restoring, BranchTaken, IntentsJournaled, RecordsApplied, BranchReady
<1> QED  BY <1>2, <1>3, <1>4, <1>5, <1>6, <1>7, <1>8 DEF IInv

\* What GoneOnRecord is for: the record that is past its retention is older
\* than every backup.
LEMMA RecordThere ==
  ASSUME Timely, IInv  PROVE RecordOutlivesBackups
<1> SUFFICES ASSUME ~db.account, backup.db.account, now - backup.at <= BackupWindow
             PROVE journal # {}
  BY DEF RecordOutlivesBackups
<1>1. PICK at \in 1..Days : /\ backup.at <= at + LongestWait
                            /\ at \in journal \/ now - at >= RecordRetention
  BY DEF IInv, GoneOnRecord
<1>2. now \in Nat /\ backup.at \in Nat  BY Typed DEF IInv
<1>3. ~(now - at >= RecordRetention)
  BY <1>1, <1>2, AccountDeletionAssumption DEF Timely
<1> QED  BY <1>1, <1>3

\* A step that changes nothing but the restore procedure's own state.
LEMMA ProcedureStep ==
  ASSUME IInv, restore' \in [step : RestoreSteps, db : Db, heldIntent : BOOLEAN],
         restores' \in 0..MaxRestores, Quiet', Restoring',
         UNCHANGED <<now, db, journal, heldUntil, backup, worker, faults>>
  PROVE  IInv'
<1>1. TypeOK'  BY DEF IInv, TypeOK
<1>2. FramesFit'  BY DEF IInv, FramesFit, FrameFits
<1>3. /\ IntentIsPast' /\ NoAccountNoIntent' /\ InTime' /\ JournalNamesIntent'
      /\ GoneOnRecord' /\ BackupIsPast'
  BY DEF IInv, IntentIsPast, NoAccountNoIntent, InTime, JournalNamesIntent, GoneOnRecord,
         BackupIsPast
<1> QED  BY <1>1, <1>2, <1>3 DEF IInv

LEMMA StopWritesStep ==
  ASSUME Timely, IInv, StopWrites  PROVE IInv'
<1>0. /\ TypeOK /\ restore.step = "none" /\ restores < MaxRestores
      /\ restore' = [step |-> "stopped", db |-> backup.db, heldIntent |-> FALSE]
      /\ backup # NoBackup /\ now - backup.at <= BackupWindow /\ restores' = restores + 1
      /\ UNCHANGED <<now, db, journal, heldUntil, backup, worker, faults>>
  BY DEF IInv, StopWrites
<1>1. backup.db \in Db /\ restores' \in 0..MaxRestores
  BY <1>0, Typed, AccountDeletionAssumption DEF TypeOK
<1>2. /\ restore' \in [step : RestoreSteps, db : Db, heldIntent : BOOLEAN]
      /\ restore'.step = "stopped" /\ restore'.db = backup.db /\ ~restore'.heldIntent
  BY <1>0, <1>1 DEF RestoreSteps
<1>3. ~db.account /\ backup.db.account => journal # {}
  BY <1>0, RecordThere DEF RecordOutlivesBackups
<1>4. Quiet' /\ Restoring'
  BY <1>0, <1>2, <1>3
  DEF Quiet, Restoring, BranchTaken, IntentsJournaled, RecordsApplied, BranchReady
<1> QED  BY <1>0, <1>1, <1>2, <1>4, ProcedureStep

\* Production is read-only: the intents that wait are journaled, all but those
\* of held accounts, which the operator notes.
LEMMA JournalIntentsStep ==
  ASSUME IInv, JournalIntents  PROVE IInv'
<1> DEFINE held == db.requested # 0 /\ Held(db, now)
<1>0. /\ TypeOK /\ restore.step = "stopped"
      /\ restore' = [restore EXCEPT !.step = "journaled", !.heldIntent = held]
      /\ journal' = IF db.requested # 0 /\ ~Held(db, now)
                      THEN journal \cup {db.requested} ELSE journal
      /\ UNCHANGED <<now, db, heldUntil, backup, worker, faults, restores>>
  BY DEF IInv, JournalIntents
<1>1. /\ now \in Nat /\ now <= Days /\ db.requested \in Nat /\ db.hold \in Nat
      /\ held \in BOOLEAN
  BY <1>0, Typed DEF Held
<1>2. held <=> db.requested # 0 /\ Held(db, now)  OBVIOUS
<1> HIDE DEF held
<1>3. /\ restore' \in [step : RestoreSteps, db : Db, heldIntent : BOOLEAN]
      /\ restore'.step = "journaled" /\ restore'.db = restore.db
      /\ restore'.heldIntent = held
  BY <1>0, <1>1 DEF TypeOK, RestoreSteps
<1>4. /\ journal \subseteq journal' /\ journal' \subseteq journal \cup {db.requested}
      /\ db.requested # 0 /\ ~held => journal' # {}
      /\ db.requested = 0 \/ held => journal' = journal
  BY <1>0, <1>2
<1>5. journal' \subseteq 1..Days
  BY <1>0, <1>1, AccountDeletionAssumption DEF IInv, IntentIsPast, TypeOK
<1>6. TypeOK'  BY <1>0, <1>3, <1>5 DEF TypeOK
<1>7. FramesFit'
  BY <1>0, <1>4 DEF IInv, FramesFit, FrameFits
<1>8. /\ IntentIsPast' /\ NoAccountNoIntent' /\ InTime' /\ BackupIsPast'
  BY <1>0 DEF IInv, IntentIsPast, NoAccountNoIntent, InTime, BackupIsPast
<1>9. JournalNamesIntent'
  BY <1>0, <1>4 DEF IInv, JournalNamesIntent
<1>10. GoneOnRecord'
  <2> SUFFICES ASSUME ~db.account, backup.db.account
               PROVE \E at \in 1..Days : /\ backup.at <= at + LongestWait
                                         /\ at \in journal' \/ now - at >= RecordRetention
    BY <1>0 DEF GoneOnRecord
  <2> QED  BY <1>4 DEF IInv, GoneOnRecord
<1>11. Quiet'  BY <1>3 DEF Quiet
<1>12. Restoring'
  <2>1. BranchTaken'
    BY <1>0, <1>2, <1>3, <1>4 DEF IInv, Restoring, BranchTaken
  <2>2. IntentsJournaled'
    BY <1>0, <1>3, <1>4 DEF IntentsJournaled
  <2> QED  BY <1>3, <2>1, <2>2 DEF Restoring, RecordsApplied, BranchReady
<1> QED  BY <1>6, <1>7, <1>8, <1>9, <1>10, <1>11, <1>12 DEF IInv

LEMMA DrainStep ==
  ASSUME IInv, Drain  PROVE IInv'
<1>0. /\ TypeOK /\ restore.step = "journaled" /\ \A w \in Workers : worker[w].step = "idle"
      /\ restore' = [restore EXCEPT !.step = "drained"]
      /\ UNCHANGED <<now, db, journal, heldUntil, backup, worker, faults, restores>>
  BY DEF IInv, Drain
<1>1. /\ restore' \in [step : RestoreSteps, db : Db, heldIntent : BOOLEAN]
      /\ restore'.step = "drained" /\ restore'.db = restore.db
      /\ restore'.heldIntent = restore.heldIntent
  BY <1>0 DEF TypeOK, RestoreSteps
<1>2. Quiet' /\ Restoring'
  BY <1>0, <1>1
  DEF IInv, Quiet, Restoring, BranchTaken, IntentsJournaled, RecordsApplied, BranchReady
<1> QED  BY <1>0, <1>1, <1>2, ProcedureStep DEF TypeOK

\* The branch loses the account if any record names it; if none does, production
\* still has the account and no intent but a held one.
LEMMA ApplyDeletionRecordsStep ==
  ASSUME IInv, ApplyDeletionRecords  PROVE IInv'
<1>0. /\ TypeOK /\ restore.step = "drained"
      /\ restore' = [restore EXCEPT !.step = "applied",
                                    !.db = IF journal # {} THEN Erased ELSE restore.db]
      /\ UNCHANGED <<now, db, journal, heldUntil, backup, worker, faults, restores>>
  BY DEF IInv, ApplyDeletionRecords
<1>1. /\ restore' \in [step : RestoreSteps, db : Db, heldIntent : BOOLEAN]
      /\ restore'.step = "applied" /\ restore'.heldIntent = restore.heldIntent
      /\ restore'.db = IF journal # {} THEN Erased ELSE restore.db
  BY <1>0, ErasedFields DEF TypeOK, RestoreSteps
<1>2. /\ restore.db = backup.db /\ backup # NoBackup
      /\ ~db.account /\ restore.db.account => journal # {}
      /\ db.account /\ db.requested # 0 => restore.heldIntent \/ journal # {}
      /\ restore.heldIntent => db.requested # 0
      /\ backup.db.requested # 0 => backup.db.account
  BY <1>0 DEF IInv, Restoring, BranchTaken, IntentsJournaled, BackupIsPast
<1>3. RecordsApplied'
  <2>1. CASE journal # {}
    <3>1. ~restore'.db.account /\ restore'.db.requested = 0  BY <1>1, <2>1, ErasedFields
    <3> QED  BY <1>0, <2>1, <3>1 DEF RecordsApplied
  <2>2. CASE journal = {}
    <3>1. restore'.db = backup.db  BY <1>1, <1>2, <2>2
    <3>2. restore'.db.account => db.account /\ (db.requested # 0 => restore'.heldIntent)
      BY <1>1, <1>2, <2>2, <3>1
    <3>3. ~restore'.db.account => restore'.db.requested = 0  BY <1>2, <3>1
    <3> QED  BY <1>0, <2>2, <3>1, <3>2, <3>3 DEF RecordsApplied
  <2> QED  BY <2>1, <2>2
<1>4. Quiet' /\ Restoring'
  BY <1>0, <1>1, <1>2, <1>3
  DEF IInv, Quiet, Restoring, BranchTaken, IntentsJournaled, BranchReady
<1> QED  BY <1>0, <1>1, <1>4, ProcedureStep DEF TypeOK

LEMMA ReconcileStep ==
  ASSUME IInv, Reconcile  PROVE IInv'
<1> DEFINE branch == IF restore.heldIntent
                       THEN WithIntent(Reheld(restore.db), now, "owner_request")
                       ELSE Reheld(restore.db)
<1>0. /\ TypeOK /\ restore.step = "applied"
      /\ restore' = [restore EXCEPT !.step = "reconciled", !.db = branch]
      /\ UNCHANGED <<now, db, journal, heldUntil, backup, worker, faults, restores>>
  BY DEF IInv, Reconcile
<1>1. PICK d : d = Reheld(restore.db)  OBVIOUS
<1>2. PICK b : b = branch  OBVIOUS
<1>3. b = IF restore.heldIntent THEN WithIntent(d, now, "owner_request") ELSE d  BY <1>1, <1>2
<1>4. restore' = [restore EXCEPT !.step = "reconciled", !.db = b]  BY <1>0, <1>2
<1> HIDE DEF branch
<1>5. restore.db \in Db /\ now \in Nat \ {0} /\ "owner_request" \in Reason
  BY <1>0, Typed DEF TypeOK, Reason
<1>6. /\ d \in Db /\ d.account = restore.db.account /\ d.requested = restore.db.requested
      /\ d.journaled = restore.db.journaled
  BY <1>0, <1>1, <1>5, ReheldFields
<1>7. /\ b \in Db /\ b.account = d.account
      /\ ~d.account \/ d.requested # 0 \/ ~restore.heldIntent =>
           b.requested = d.requested /\ b.journaled = d.journaled
      /\ d.account /\ d.requested = 0 /\ restore.heldIntent => b.requested = now /\ ~b.journaled
  BY <1>3, <1>5, <1>6, WithIntentFields
<1>8. /\ restore' \in [step : RestoreSteps, db : Db, heldIntent : BOOLEAN]
      /\ restore'.step = "reconciled" /\ restore'.db = b
      /\ restore'.heldIntent = restore.heldIntent
  BY <1>0, <1>4, <1>7 DEF TypeOK, RestoreSteps
<1>9. /\ restore.db.account =>
           /\ db.account /\ restore.db = backup.db /\ journal = {}
           /\ db.requested # 0 => restore.heldIntent
      /\ ~restore.db.account => journal # {} \/ ~backup.db.account
      /\ ~restore.db.account => restore.db.requested = 0
      /\ restore.heldIntent => db.requested # 0
      /\ backup # NoBackup
  BY <1>0 DEF IInv, Restoring, RecordsApplied, BranchTaken
<1>10. BranchReady'
  <2>1. CASE ~b.account
    <3>1. b.requested = 0  BY <1>6, <1>7, <1>9, <2>1
    <3> QED  BY <1>0, <1>6, <1>7, <1>8, <1>9, <2>1, <3>1 DEF BranchReady
  <2>2. CASE b.account
    <3>1. /\ db.account /\ restore.db = backup.db /\ journal = {}
          /\ db.requested # 0 <=> restore.heldIntent
      BY <1>6, <1>7, <1>9, <2>2
    <3>2. /\ db.requested # 0 => db.requested <= now
          /\ backup.db.requested # 0 => db.requested = backup.db.requested
          /\ backup.db.requested # 0 /\ backup.db.journaled => db.journaled
          /\ db.requested # 0 /\ db.journaled => db.requested \in journal
      BY <3>1 DEF IInv, IntentIsPast, BackupIsPast, JournalNamesIntent
    <3>3. db.requested \in Nat /\ now \in Nat  BY <1>0, Typed
    <3>4. CASE db.requested = 0
      <4>1. b.requested = 0  BY <1>6, <1>7, <3>1, <3>2, <3>4
      <4> QED  BY <1>0, <1>8, <2>2, <3>1, <3>3, <3>4, <4>1 DEF BranchReady
    <3>5. CASE db.requested # 0 /\ restore.db.requested = 0
      <4>1. b.requested = now /\ ~b.journaled  BY <1>6, <1>7, <2>2, <3>1, <3>5
      <4> QED  BY <1>0, <1>5, <1>8, <2>2, <3>1, <3>2, <3>3, <3>5, <4>1 DEF BranchReady
    <3>6. CASE db.requested # 0 /\ restore.db.requested # 0
      <4>1. b.requested = db.requested /\ ~b.journaled
        BY <1>6, <1>7, <2>2, <3>1, <3>2, <3>6
      <4> QED  BY <1>0, <1>8, <2>2, <3>1, <3>2, <3>3, <3>6, <4>1 DEF BranchReady
    <3> QED  BY <3>4, <3>5, <3>6
  <2> QED  BY <2>1, <2>2
<1>11. Quiet' /\ Restoring'
  BY <1>0, <1>8, <1>9, <1>10
  DEF IInv, Quiet, Restoring, BranchTaken, IntentsJournaled, RecordsApplied
<1> QED  BY <1>0, <1>8, <1>11, ProcedureStep DEF TypeOK

LEMMA AbandonStep ==
  ASSUME IInv, Abandon  PROVE IInv'
<1>1. /\ TypeOK /\ restore' = NoRestore
      /\ UNCHANGED <<now, db, journal, heldUntil, backup, worker, faults, restores>>
  BY DEF IInv, Abandon
<1>2. /\ restore' \in [step : RestoreSteps, db : Db, heldIntent : BOOLEAN]
      /\ restore'.step = "none" /\ ~restore'.heldIntent
  BY <1>1, ErasedFields DEF NoRestore, RestoreSteps
<1>3. Quiet' /\ Restoring'
  BY <1>2 DEF Quiet, Restoring, BranchTaken, IntentsJournaled, RecordsApplied, BranchReady
<1> QED  BY <1>1, <1>2, <1>3, ProcedureStep DEF TypeOK

\* The branch takes production's place.  If it has the account, nothing names it
\* for deletion but a held intent that the branch now has too.
LEMMA SwapStep ==
  ASSUME IInv, Swap  PROVE IInv'
<1>0. /\ TypeOK /\ restore.step = "reconciled" /\ db' = restore.db
      /\ restore.db.account => journal = {}
      /\ restore' = NoRestore /\ backup' = NoBackup
      /\ UNCHANGED <<now, journal, heldUntil, worker, faults, restores>>
  BY DEF IInv, Swap
<1>1. PICK b : b = restore.db  OBVIOUS
<1>2. /\ b \in Db /\ db' = b /\ b.requested \in Nat /\ now \in Nat /\ db.requested \in Nat
  BY <1>0, <1>1, Typed DEF TypeOK, Db
<1>3. /\ b.account =>
           /\ db.account /\ journal = {} /\ (db.requested # 0 <=> b.requested # 0)
           /\ db.requested <= b.requested /\ b.requested <= now
           /\ b.requested # 0 => ~b.journaled
      /\ ~b.account => b.requested = 0
  BY <1>0, <1>1 DEF IInv, Restoring, BranchReady
<1>4. /\ backup'.at = 0 /\ ~backup'.db.account /\ backup'.db.requested = 0
      /\ backup' \in [at : 0..Days, db : Db]
  BY <1>0, ErasedFields, AccountDeletionAssumption DEF NoBackup
<1>5. /\ restore' \in [step : RestoreSteps, db : Db, heldIntent : BOOLEAN]
      /\ restore'.step = "none" /\ ~restore'.heldIntent
  BY <1>0, ErasedFields DEF NoRestore, RestoreSteps
<1>6. TypeOK'  BY <1>0, <1>2, <1>4, <1>5 DEF TypeOK
<1>7. FramesFit'
  <2> SUFFICES ASSUME NEW w \in Workers PROVE FrameFits(worker[w])'  BY DEF FramesFit
  <2>1. worker[w].step = "idle"  BY <1>0 DEF IInv, Quiet
  <2> QED  BY <1>0, <2>1 DEF FrameFits, Active
<1>8. /\ IntentIsPast' /\ NoAccountNoIntent' /\ JournalNamesIntent'
  BY <1>0, <1>2, <1>3 DEF IntentIsPast, NoAccountNoIntent, JournalNamesIntent
<1>9. InTime'
  BY <1>0, <1>2, <1>3, AccountDeletionAssumption DEF IInv, InTime
<1>10. GoneOnRecord' /\ BackupIsPast'
  BY <1>0, <1>2, <1>4 DEF GoneOnRecord, BackupIsPast
<1>11. Quiet' /\ Restoring'
  BY <1>5 DEF Quiet, Restoring, BranchTaken, IntentsJournaled, RecordsApplied, BranchReady
<1> QED  BY <1>6, <1>7, <1>8, <1>9, <1>10, <1>11 DEF IInv

-----------------------------------------------------------------------------
(* The invariant of the specification.                                     *)

LEMMA Preserved ==
  ASSUME Timely, IInv, [Next /\ Prompt']_vars  PROVE IInv'
<1>1. ASSUME NEW w \in Workers, OwnerRequest(w) \/ ListDue(w) \/ SweepIntent(w)  PROVE IInv'
  BY <1>1, OwnerRequestStep, ListDueStep, SweepIntentStep
<1>2. ASSUME NEW w \in Workers, Complete(w)  PROVE IInv'
  BY <1>2, ClaimPurgeStep, CommitClaimedStep, CancelBillingStep, CheckHoldStep, WriteRecordStep,
     MarkJournaledStep, DeleteAccountStep, RefusedStep DEF Complete
<1>3. ASSUME NEW w \in Workers, Fail(w)  PROVE IInv'
  BY <1>3, FailStep
<1>4. ASSUME Lapse \/ Resubscribe \/ JournalHold \/ SweepRecords \/ Capture  PROVE IInv'
  BY <1>4, DeadlineStep, JournalHoldStep, SweepRecordsStep, CaptureStep
<1>5. ASSUME NEW until \in 1..Days, PlaceHold(until)  PROVE IInv'
  BY <1>5, PlaceHoldStep
<1>6. ASSUME StopWrites \/ Procedure \/ Abandon  PROVE IInv'
  BY <1>6, StopWritesStep, JournalIntentsStep, DrainStep, ApplyDeletionRecordsStep, ReconcileStep,
     SwapStep, AbandonStep DEF Procedure
<1>7. ASSUME Tick, Prompt'  PROVE IInv'
  BY <1>7, TickStep DEF Prompt, InTime
<1>8. CASE UNCHANGED vars
  <2>1. TypeOK'  BY <1>8 DEF IInv, TypeOK, vars
  <2>2. FramesFit'  BY <1>8 DEF IInv, FramesFit, FrameFits, vars
  <2>3. /\ IntentIsPast' /\ NoAccountNoIntent' /\ Quiet' /\ JournalNamesIntent' /\ InTime'
        /\ GoneOnRecord' /\ BackupIsPast'
    BY <1>8 DEF IInv, IntentIsPast, NoAccountNoIntent, Quiet, JournalNamesIntent, InTime,
                GoneOnRecord, BackupIsPast, vars
  <2>4. Restoring'
    BY <1>8 DEF IInv, Restoring, BranchTaken, IntentsJournaled, RecordsApplied, BranchReady, vars
  <2> QED  BY <2>1, <2>2, <2>3, <2>4 DEF IInv
<1> QED  BY <1>1, <1>2, <1>3, <1>4, <1>5, <1>6, <1>7, <1>8 DEF Next

LEMMA Inductive == ASSUME Timely  PROVE PromptSpec => []IInv
<1>1. Init => IInv  BY Initially
<1>2. IInv /\ [Next /\ Prompt']_vars => IInv'  BY Preserved
<1> QED  BY <1>1, <1>2, PTL DEF PromptSpec

\* While deletions are seen done in time, an account a backup can still bring
\* back and that is gone has a Deletion Record for the restore to re-apply
\* (service.ts:15, recovery-journal.ts:175).
THEOREM RecordOutlivesBackupsAlways == ASSUME Timely  PROVE PromptSpec => []RecordOutlivesBackups
<1>1. IInv => RecordOutlivesBackups  BY RecordThere
<1> QED  BY <1>1, Inductive, PTL

-----------------------------------------------------------------------------
(* What needs no promise of the operator: the types, and data under a      *)
(* Legal Hold.  Its invariant is one of the specification itself.          *)

\* What an invocation has read is from the past, and a purge past its last safe
\* point passed over no hold that came in time.
CheckStands(f) ==
  /\ f.step # "idle" => f.at \in 1..now
  /\ f.step \in Active => f.requested \in 1..now
  /\ f.step \in {"write", "mark", "delete"} =>
       ~(db.account /\ db.heldInTime /\ Held(db, f.at))

ChecksStand == \A w \in Workers : CheckStands(worker[w])

IntentsArePast ==
  db.requested <= now /\ backup.db.requested <= now /\ restore.db.requested <= now

\* The restore point has the account, and its hold is production's or an earlier one.
BackupHeld ==
  db.account /\ backup # NoBackup =>
    /\ backup.db.account /\ backup.db.hold <= db.hold
    /\ Held(backup.db, now) => backup.db.heldInTime = db.heldInTime

\* The branch of an account that is held has the account, and in the end the hold
\* too, if the journal has it.
BranchHeld ==
  /\ restore.step # "none" => backup # NoBackup
  /\ restore.step \in {"stopped", "journaled", "drained"} => restore.db = backup.db
  /\ restore.step = "applied" /\ HeldInTime(db) => restore.db = backup.db
  /\ restore.step = "reconciled" /\ HeldInTime(db) =>
       /\ restore.db.account
       /\ heldUntil = db.hold => restore.db.heldInTime /\ restore.db.hold >= db.hold

HeldInv ==
  /\ TypeOK /\ ChecksStand /\ IntentsArePast /\ Quiet
  /\ NoRecordForHeldData /\ BackupHeld /\ BranchHeld

LEMMA HeldInitially == Init => HeldInv
<1> SUFFICES ASSUME Init PROVE HeldInv  OBVIOUS
<1>1. TypeOK  BY Initially DEF IInv
<1>2. ChecksStand  BY DEF Init, ChecksStand, CheckStands, Idle, Active
<1>3. IntentsArePast /\ Quiet /\ NoRecordForHeldData /\ BackupHeld /\ BranchHeld
  BY ErasedFields DEF Init, IntentsArePast, Quiet, NoRecordForHeldData, BackupHeld, BranchHeld,
                      NoBackup, NoRestore
<1> QED  BY <1>1, <1>2, <1>3 DEF HeldInv

\* A hold in force today was in force on every earlier day since it was placed.
LEMMA HeldEarlier ==
  ASSUME NEW d \in Db, NEW t \in Nat, NEW at \in Nat, at <= t, Held(d, t)
  PROVE  Held(d, at)
BY DEF Held, Db

LEMMA HeldTyped ==
  ASSUME TypeOK
  PROVE  /\ heldUntil \in Nat
         /\ \A d \in Db : d.hold \in Nat /\ d.requested \in Nat /\ d.account \in BOOLEAN
                          /\ d.heldInTime \in BOOLEAN
         /\ restore.db \in Db /\ restore.step \in RestoreSteps
BY DEF TypeOK, Db

\* A step that leaves the account and its hold as they are, and the journal.
LEMMA HoldUntouched ==
  ASSUME HeldInv, Writable \/ UNCHANGED <<db, heldUntil>>,
         db' \in Db, db'.account = db.account, db'.requested \in Nat, db'.requested <= now,
         db'.hold = db.hold, db'.heldInTime = db.heldInTime, heldUntil' \in Nat,
         worker' \in [Workers -> Frame], Quiet',
         \A w \in Workers : worker'[w] = worker[w] \/ CheckStands(worker'[w]),
         faults' \in 0..MaxFaults,
         UNCHANGED <<now, journal, backup, restore, restores>>
  PROVE  HeldInv'
<1>1. TypeOK'  BY DEF HeldInv, TypeOK
<1>2. ChecksStand'
  <2> SUFFICES ASSUME NEW w \in Workers PROVE CheckStands(worker[w])'  BY DEF ChecksStand
  <2>1. CheckStands(worker'[w])  BY DEF HeldInv, ChecksStand
  <2> QED  BY <2>1 DEF CheckStands, Held
<1>3. IntentsArePast' /\ NoRecordForHeldData' /\ BackupHeld'
  BY DEF HeldInv, IntentsArePast, NoRecordForHeldData, HeldInTime, Held, BackupHeld
<1>4. BranchHeld'
  <2>1. CASE Writable  BY <2>1 DEF HeldInv, BranchHeld, Writable
  <2>2. CASE UNCHANGED <<db, heldUntil>>  BY <2>2 DEF HeldInv, BranchHeld, HeldInTime, Held
  <2> QED  BY <2>1, <2>2
<1> QED  BY <1>1, <1>2, <1>3, <1>4 DEF HeldInv

\* An invocation moves on, or is over.
LEMMA HeldFrameStep ==
  ASSUME HeldInv, NEW w \in Workers, NEW f \in Frame, CheckStands(f),
         worker' = [worker EXCEPT ![w] = f], f.step # "idle" => worker[w].step # "idle",
         faults' \in 0..MaxFaults,
         UNCHANGED <<now, db, journal, heldUntil, backup, restore, restores>>
  PROVE  HeldInv'
<1>1. TypeOK /\ db.requested <= now /\ db \in Db /\ db.requested \in Nat
  BY Typed DEF HeldInv, IntentsArePast
<1>2. worker' \in [Workers -> Frame] /\ \A v \in Workers : worker'[v] = IF v = w THEN f ELSE worker[v]
  BY <1>1 DEF TypeOK
<1>3. Quiet'  BY <1>2 DEF HeldInv, Quiet
<1> QED  BY <1>1, <1>2, <1>3, HeldTyped, HoldUntouched

LEMMA IdleStands == Idle \in Frame /\ CheckStands(Idle) /\ Idle.step = "idle"
BY DEF Idle, Frame, Steps, CheckStands, Active

\* An intent is committed, or the one that is there is read.
LEMMA HeldIntentStep ==
  ASSUME HeldInv, NEW w \in Workers, OwnerRequest(w) \/ ClaimPurge(w) \/ CommitClaimed(w)
  PROVE  HeldInv'
<1> DEFINE at == IF OwnerRequest(w) THEN now ELSE worker[w].at
<1>1. /\ TypeOK /\ db \in Db /\ now \in Nat \ {0} /\ worker[w] \in Frame /\ Writable
      /\ CheckStands(worker[w]) /\ worker[w].at \in Nat /\ heldUntil \in Nat /\ Quiet'
      /\ UNCHANGED <<now, journal, heldUntil, backup, restore, faults, restores>>
  BY Typed, HeldTyped
  DEF HeldInv, ChecksStand, OwnerRequest, ClaimPurge, CommitClaimed, Writable, Quiet
<1>2. at \in Nat \ {0} /\ at <= now
  BY <1>1 DEF CheckStands, OwnerRequest, ClaimPurge, CommitClaimed
<1>3. "owner_request" \in Reason /\ "retention_deadline" \in Reason
      /\ "billing" \in Steps /\ "commit" \in Steps
  BY DEF Reason, Steps
<1>4. /\ db' \in Db /\ db'.account = db.account
      /\ db'.hold = db.hold /\ db'.heldInTime = db.heldInTime
      /\ db'.requested = db.requested \/ db'.requested = at
      /\ db.account => db'.requested # 0 \/ db' = db
  <2>1. CASE db' = db  BY <1>1, <2>1
  <2>2. ASSUME NEW why \in Reason, db' = WithIntent(db, at, why)
        PROVE  /\ db' \in Db /\ db'.account = db.account
               /\ db'.hold = db.hold /\ db'.heldInTime = db.heldInTime
               /\ db'.requested = db.requested \/ db'.requested = at
               /\ db.account => db'.requested # 0 \/ db' = db
    <3> HIDE DEF at
    <3> QED  BY <1>1, <1>2, <2>2, WithIntentFields
  <2>3. \/ db' = db
        \/ db' = WithIntent(db, at, "owner_request")
        \/ db' = WithIntent(db, at, "retention_deadline")
    BY <1>1 DEF OwnerRequest, ClaimPurge, CommitClaimed
  <2> QED  BY <1>3, <2>1, <2>2, <2>3
<1>5. db'.requested \in Nat /\ db'.requested <= now
  BY <1>1, <1>2, <1>4, HeldTyped DEF HeldInv, IntentsArePast
<1>6. PICK f \in Frame : worker' = [worker EXCEPT ![w] = f] /\ CheckStands(f)
  <2>1. CASE worker' = [worker EXCEPT ![w] = Idle]  BY <2>1, IdleStands
  <2>2. CASE ClaimPurge(w) /\ worker' = [worker EXCEPT ![w].step = "commit"]
    <3>1. PICK f : f = [worker[w] EXCEPT !.step = "commit"]  OBVIOUS
    <3>2. f \in Frame /\ f.step = "commit" /\ f.at = worker[w].at
      BY <1>1, <1>3, <3>1, GotoFrame
    <3>3. worker' = [worker EXCEPT ![w] = f]  BY <1>1, <2>2, <3>1 DEF TypeOK
    <3>4. worker[w].step = "claim"  BY <2>2 DEF ClaimPurge
    <3> QED  BY <1>1, <3>2, <3>3, <3>4 DEF CheckStands, Active
  <2>3. CASE Resume(w, "billing", at, db') /\ (OwnerRequest(w) \/ CommitClaimed(w)) /\ db.account
    <3>1. PICK f : f = [step |-> "billing", at |-> at, requested |-> db'.requested,
                        journaled |-> db'.journaled, deadline |-> 0]
      OBVIOUS
    <3>2. worker' = [worker EXCEPT ![w] = f]  BY <2>3, <3>1 DEF Resume
    <3>3. db'.requested # 0
      BY <1>2, <1>3, <1>4, <2>3, WithIntentFields DEF OwnerRequest, CommitClaimed
    <3>4. /\ f \in Frame /\ f.step = "billing" /\ f.at = at /\ f.requested = db'.requested
      BY <1>1, <1>2, <1>3, <1>4, <3>1, ResumeIsFrame
    <3> HIDE DEF at
    <3>5. f.at \in 1..now /\ f.requested \in 1..now  BY <1>1, <1>2, <1>4, <1>5, <3>3, <3>4
    <3>6. CheckStands(f)  BY <3>4, <3>5 DEF CheckStands
    <3> QED  BY <3>2, <3>4, <3>6
  <2> QED  BY <2>1, <2>2, <2>3 DEF OwnerRequest, ClaimPurge, CommitClaimed, Goto, End
<1>7. worker' \in [Workers -> Frame] /\ \A v \in Workers : worker'[v] = IF v = w THEN f ELSE worker[v]
  BY <1>1, <1>6 DEF TypeOK
<1>8. faults' \in 0..MaxFaults  BY <1>1 DEF TypeOK
<1> HIDE DEF at
<1> QED  BY <1>1, <1>4, <1>5, <1>6, <1>7, <1>8, HoldUntouched

\* An account past its deadline, or an intent, is listed.
LEMMA HeldListStep ==
  ASSUME HeldInv, NEW w \in Workers, ListDue(w) \/ SweepIntent(w)  PROVE HeldInv'
<1>1. /\ TypeOK /\ db \in Db /\ now \in Nat \ {0} /\ Writable /\ Quiet'
      /\ db.requested \in Nat /\ db.requested <= now /\ heldUntil \in Nat
      /\ UNCHANGED <<now, db, journal, heldUntil, backup, restore, faults, restores>>
  BY Typed, HeldTyped DEF HeldInv, IntentsArePast, ListDue, SweepIntent, Writable, Quiet
<1>2. PICK f \in Frame : worker' = [worker EXCEPT ![w] = f] /\ CheckStands(f)
  <2>1. CASE ListDue(w)
    <3>1. PICK f : f = [step |-> "claim", at |-> now, requested |-> 0, journaled |-> FALSE,
                        deadline |-> db.deadline]
      OBVIOUS
    <3>2. f \in Frame  BY <1>1, <3>1 DEF Frame, Steps, Db
    <3>3. CheckStands(f)  BY <1>1, <3>1 DEF CheckStands, Active
    <3> QED  BY <2>1, <3>1, <3>2, <3>3 DEF ListDue
  <2>2. CASE SweepIntent(w)
    <3>1. PICK f : f = [step |-> "billing", at |-> now, requested |-> db.requested,
                        journaled |-> db.journaled, deadline |-> 0]
      OBVIOUS
    <3>2. f \in Frame  BY <1>1, <3>1, ResumeIsFrame DEF Steps
    <3>3. CheckStands(f)  BY <1>1, <2>2, <3>1 DEF CheckStands, Active, SweepIntent
    <3> QED  BY <2>2, <3>1, <3>2, <3>3 DEF SweepIntent, Resume
  <2> QED  BY <2>1, <2>2
<1>3. worker' \in [Workers -> Frame] /\ \A v \in Workers : worker'[v] = IF v = w THEN f ELSE worker[v]
  BY <1>1, <1>2 DEF TypeOK
<1> QED  BY <1>1, <1>2, <1>3, HoldUntouched DEF TypeOK

\* The check passes only where no hold is in force on the day it was read for.
LEMMA HeldCheckStep ==
  ASSUME HeldInv, NEW w \in Workers, CancelBilling(w) \/ CheckHold(w) \/ Refused(w)
  PROVE  HeldInv'
<1>1. /\ TypeOK /\ CheckStands(worker[w]) /\ faults' \in 0..MaxFaults /\ worker[w].step # "idle"
      /\ UNCHANGED <<now, db, journal, heldUntil, backup, restore, restores>>
  BY DEF HeldInv, ChecksStand, TypeOK, CancelBilling, CheckHold, Refused
<1>2. CASE worker' = [worker EXCEPT ![w] = Idle]
  BY <1>1, <1>2, IdleStands, HeldFrameStep
<1>3. ASSUME NEW step \in {"check", "write", "delete"}, Goto(w, step),
             worker[w].step \in {"billing", "check"},
             step \in {"write", "delete"} => ~Held(db, worker[w].at)
      PROVE  HeldInv'
  <2>1. PICK f : f = [worker[w] EXCEPT !.step = step]  OBVIOUS
  <2>2. /\ f \in Frame /\ f.step = step /\ f.at = worker[w].at
        /\ f.requested = worker[w].requested
    BY <1>1, <2>1, GotoFrame DEF Steps
  <2>3. worker' = [worker EXCEPT ![w] = f]  BY <1>1, <1>3, <2>1 DEF Goto, TypeOK
  <2>4. CheckStands(f)  BY <1>1, <1>3, <2>2 DEF CheckStands, Active
  <2> QED  BY <1>1, <2>2, <2>3, <2>4, HeldFrameStep
<1>4. CASE CancelBilling(w)  BY <1>3, <1>4 DEF CancelBilling
<1>5. CASE CheckHold(w)  BY <1>2, <1>3, <1>5 DEF CheckHold, End
<1>6. CASE Refused(w)  BY <1>2, <1>6 DEF Refused, End
<1> QED  BY <1>4, <1>5, <1>6

\* A record is written by a purge that passed its check, or by one that then failed.
LEMMA HeldRecordStep ==
  ASSUME HeldInv, NEW w \in Workers, worker[w].step = "write",
         journal' = journal \cup {worker[w].requested},
         NEW f \in Frame, CheckStands(f), worker' = [worker EXCEPT ![w] = f],
         faults' \in 0..MaxFaults,
         UNCHANGED <<now, db, heldUntil, backup, restore, restores>>
  PROVE  HeldInv'
<1>1. TypeOK /\ CheckStands(worker[w]) /\ now \in Nat /\ now <= Days /\ db \in Db
  BY Typed DEF HeldInv, ChecksStand
<1>2. /\ worker[w].requested \in 1..Days /\ worker[w].at \in Nat /\ worker[w].at <= now
      /\ ~(db.account /\ db.heldInTime /\ Held(db, worker[w].at))
  BY <1>1, AccountDeletionAssumption DEF CheckStands, Active
<1>3. ~HeldInTime(db)  BY <1>1, <1>2, HeldEarlier DEF HeldInTime
<1>4. worker' \in [Workers -> Frame] /\ \A v \in Workers : worker'[v] = IF v = w THEN f ELSE worker[v]
  BY <1>1 DEF TypeOK
<1>5. TypeOK'  BY <1>1, <1>2, <1>4 DEF TypeOK
<1>6. ChecksStand'
  <2> SUFFICES ASSUME NEW v \in Workers PROVE CheckStands(worker[v])'  BY DEF ChecksStand
  <2>1. CheckStands(worker'[v])  BY <1>4 DEF HeldInv, ChecksStand
  <2> QED  BY <2>1 DEF CheckStands, Held
<1>7. Quiet'  BY <1>1, <1>4 DEF HeldInv, Quiet
<1>8. IntentsArePast' /\ NoRecordForHeldData' /\ BackupHeld' /\ BranchHeld'
  BY <1>3 DEF HeldInv, IntentsArePast, NoRecordForHeldData, HeldInTime, Held, BackupHeld, BranchHeld
<1> QED  BY <1>5, <1>6, <1>7, <1>8 DEF HeldInv

LEMMA HeldWriteStep ==
  ASSUME HeldInv, NEW w \in Workers, WriteRecord(w) \/ Fail(w)  PROVE HeldInv'
<1>1. TypeOK /\ CheckStands(worker[w]) /\ worker[w].step # "idle" /\ faults' \in 0..MaxFaults
  BY AccountDeletionAssumption
  DEF HeldInv, ChecksStand, WriteRecord, Fail, Fault, TypeOK
<1>2. CASE WriteRecord(w)
  <2>1. PICK f : f = [worker[w] EXCEPT !.step = "mark"]  OBVIOUS
  <2>2. /\ f \in Frame /\ f.step = "mark" /\ f.at = worker[w].at
        /\ f.requested = worker[w].requested
    BY <1>1, <2>1, GotoFrame DEF Steps
  <2>3. worker' = [worker EXCEPT ![w] = f]  BY <1>1, <1>2, <2>1 DEF WriteRecord, Goto, TypeOK
  <2>4. CheckStands(f)  BY <1>1, <1>2, <2>2 DEF CheckStands, Active, WriteRecord
  <2> QED  BY <1>1, <1>2, <2>2, <2>3, <2>4, HeldRecordStep DEF WriteRecord
<1>3. CASE Fail(w)
  <2>1. worker' = [worker EXCEPT ![w] = Idle]  BY <1>3 DEF Fail, End
  <2>2. CASE UNCHANGED journal
    BY <1>1, <1>3, <2>1, <2>2, IdleStands, HeldFrameStep DEF Fail
  <2>3. CASE worker[w].step = "write" /\ journal' = journal \cup {worker[w].requested}
    BY <1>1, <1>3, <2>1, <2>3, IdleStands, HeldRecordStep DEF Fail
  <2> QED  BY <1>3, <2>2, <2>3 DEF Fail
<1> QED  BY <1>2, <1>3

LEMMA HeldMarkStep ==
  ASSUME HeldInv, NEW w \in Workers, MarkJournaled(w)  PROVE HeldInv'
<1>1. /\ TypeOK /\ CheckStands(worker[w]) /\ Writable /\ Quiet' /\ db \in Db
      /\ db.requested \in Nat /\ db.requested <= now /\ heldUntil \in Nat
      /\ faults' \in 0..MaxFaults
      /\ UNCHANGED <<now, journal, heldUntil, backup, restore, restores>>
  BY Typed, HeldTyped
  DEF HeldInv, ChecksStand, IntentsArePast, MarkJournaled, Writable, Quiet, TypeOK
<1>2. /\ db' \in Db /\ db'.account = db.account /\ db'.requested = db.requested
      /\ db'.hold = db.hold /\ db'.heldInTime = db.heldInTime
  BY <1>1, MarkedFields DEF MarkJournaled
<1>3. PICK f : f = [worker[w] EXCEPT !.step = "delete"]  OBVIOUS
<1>4. /\ f \in Frame /\ f.step = "delete" /\ f.at = worker[w].at
      /\ f.requested = worker[w].requested
  BY <1>1, <1>3, GotoFrame DEF Steps
<1>5. worker' = [worker EXCEPT ![w] = f]  BY <1>1, <1>3 DEF MarkJournaled, Goto, TypeOK
<1>6. CheckStands(f)  BY <1>1, <1>4 DEF CheckStands, Active, MarkJournaled
<1>7. worker' \in [Workers -> Frame] /\ \A v \in Workers : worker'[v] = IF v = w THEN f ELSE worker[v]
  BY <1>1, <1>4, <1>5 DEF TypeOK
<1> QED  BY <1>1, <1>2, <1>6, <1>7, HoldUntouched

LEMMA HeldDeleteStep ==
  ASSUME HeldInv, NEW w \in Workers, DeleteAccount(w)  PROVE HeldInv'
<1>1. /\ TypeOK /\ Writable /\ db' = Erased /\ worker' = [worker EXCEPT ![w] = Idle]
      /\ UNCHANGED <<now, journal, heldUntil, backup, restore, faults, restores>>
  BY DEF HeldInv, DeleteAccount, End
<1>2. db' \in Db /\ ~db'.account /\ db'.requested = 0 /\ now \in Nat  BY <1>1, ErasedFields, Typed
<1>3. worker' \in [Workers -> Frame] /\ \A v \in Workers : worker'[v] = IF v = w THEN Idle ELSE worker[v]
  BY <1>1, IdleStands DEF TypeOK
<1>4. TypeOK'  BY <1>1, <1>2, <1>3 DEF TypeOK
<1>5. ChecksStand'
  <2> SUFFICES ASSUME NEW v \in Workers PROVE CheckStands(worker[v])'  BY DEF ChecksStand
  <2>1. CheckStands(worker'[v])  BY <1>3, IdleStands DEF HeldInv, ChecksStand
  <2> QED  BY <1>1, <1>2, <2>1 DEF CheckStands
<1>6. Quiet' /\ IntentsArePast' /\ NoRecordForHeldData' /\ BackupHeld' /\ BranchHeld'
  BY <1>1, <1>2 DEF HeldInv, Writable, Quiet, IntentsArePast, NoRecordForHeldData, HeldInTime,
                    BackupHeld, BranchHeld
<1> QED  BY <1>4, <1>5, <1>6 DEF HeldInv

LEMMA HeldProfileStep ==
  ASSUME HeldInv, Lapse \/ Resubscribe \/ JournalHold  PROVE HeldInv'
<1>1. /\ TypeOK /\ Writable /\ Quiet' /\ db \in Db /\ now \in Nat
      /\ db.requested \in Nat /\ db.requested <= now /\ heldUntil \in Nat /\ db.hold \in Nat
      /\ UNCHANGED <<now, journal, backup, worker, restore, faults, restores>>
  BY Typed, HeldTyped
  DEF HeldInv, IntentsArePast, Lapse, Resubscribe, JournalHold, Writable, Quiet
<1>2. CASE JournalHold
  BY <1>1, <1>2, HoldUntouched DEF JournalHold, TypeOK
<1>3. CASE Lapse \/ Resubscribe
  <2>1. PICK day \in Nat : db' = [db EXCEPT !.deadline = day]
    BY <1>1, <1>3, AccountDeletionAssumption DEF Lapse, Resubscribe
  <2>2. /\ db' \in Db /\ db'.account = db.account /\ db'.requested = db.requested
        /\ db'.hold = db.hold /\ db'.heldInTime = db.heldInTime
    BY <1>1, <2>1 DEF Db
  <2> QED  BY <1>1, <1>3, <2>2, HoldUntouched DEF Lapse, Resubscribe, TypeOK
<1> QED  BY <1>2, <1>3

LEMMA HeldPlaceStep ==
  ASSUME HeldInv, NEW until \in 1..Days, PlaceHold(until)  PROVE HeldInv'
<1>1. /\ TypeOK /\ Writable /\ db \in Db /\ db.hold \in Nat /\ now \in Nat /\ until \in Nat
      /\ backup.db \in Db /\ backup.db.hold \in Nat
      /\ UNCHANGED <<now, journal, heldUntil, backup, worker, restore, faults, restores>>
  BY Typed, HeldTyped, AccountDeletionAssumption DEF HeldInv, PlaceHold
<1>2. /\ db' \in Db /\ db'.account = db.account /\ db'.requested = db.requested
      /\ db'.hold >= db.hold
      /\ Held(db, now) => db'.heldInTime = db.heldInTime
      /\ ~Held(db, now) /\ PurgeBegun => ~db'.heldInTime
  <2>1. db' = WithHold(db, until, now, ~PurgeBegun)  BY DEF PlaceHold
  <2>2. db \in Db /\ until \in Nat  BY <1>1
  <2> QED  BY <2>1, <2>2, WithHoldFields
<1>3. db'.hold \in Nat  BY <1>2, HeldTyped, <1>1
<1>4. TypeOK'  BY <1>1, <1>2 DEF TypeOK
<1>5. ChecksStand'
  <2> SUFFICES ASSUME NEW w \in Workers PROVE CheckStands(worker[w])'  BY DEF ChecksStand
  <2>1. CheckStands(worker[w]) /\ worker[w].at \in Nat  BY <1>1, Typed DEF HeldInv, ChecksStand
  <2>2. ASSUME worker[w].step \in {"write", "mark", "delete"}
        PROVE  ~(db'.account /\ db'.heldInTime)
    <3>1. PurgeBegun  BY <2>2 DEF PurgeBegun
    <3>2. Held(db, now) => Held(db, worker[w].at)
      BY <1>1, <2>1, <2>2, HeldEarlier DEF CheckStands
    <3> QED  BY <1>2, <2>1, <2>2, <3>1, <3>2 DEF CheckStands
  <2> QED  BY <1>1, <2>1, <2>2 DEF CheckStands
<1>6. NoRecordForHeldData'
  BY <1>1, <1>2 DEF HeldInv, NoRecordForHeldData, HeldInTime, PurgeBegun
<1>7. BackupHeld'
  <2>1. Held(backup.db, now) /\ backup.db.hold <= db.hold => Held(db, now)  BY <1>1 DEF Held
  <2> QED  BY <1>1, <1>2, <1>3, <2>1 DEF HeldInv, BackupHeld, Held
<1>8. IntentsArePast' /\ Quiet' /\ BranchHeld'
  BY <1>1, <1>2 DEF HeldInv, Writable, IntentsArePast, Quiet, BranchHeld
<1> QED  BY <1>4, <1>5, <1>6, <1>7, <1>8 DEF HeldInv

LEMMA HeldSweepRecordsStep ==
  ASSUME HeldInv, SweepRecords  PROVE HeldInv'
<1>1. /\ TypeOK /\ journal' \subseteq journal
      /\ UNCHANGED <<now, db, heldUntil, backup, worker, restore, faults, restores>>
  BY DEF HeldInv, SweepRecords
<1>2. TypeOK'  BY <1>1 DEF TypeOK
<1>3. ChecksStand'  BY <1>1 DEF HeldInv, ChecksStand, CheckStands, Held
<1>4. IntentsArePast' /\ Quiet' /\ NoRecordForHeldData' /\ BackupHeld' /\ BranchHeld'
  BY <1>1 DEF HeldInv, IntentsArePast, Quiet, NoRecordForHeldData, HeldInTime, Held, BackupHeld,
              BranchHeld
<1> QED  BY <1>2, <1>3, <1>4 DEF HeldInv

LEMMA HeldCaptureStep ==
  ASSUME HeldInv, Capture  PROVE HeldInv'
<1>1. /\ TypeOK /\ Writable /\ backup' = [at |-> now, db |-> db]
      /\ now \in 1..Days /\ db \in Db /\ db.hold \in Nat
      /\ UNCHANGED <<now, db, journal, heldUntil, worker, restore, faults, restores>>
  BY Typed DEF HeldInv, TypeOK, Capture
<1>2. backup' \in [at : 0..Days, db : Db] /\ backup'.db = db
  BY <1>1, AccountDeletionAssumption
<1>3. TypeOK'  BY <1>1, <1>2 DEF TypeOK
<1>4. ChecksStand'  BY <1>1 DEF HeldInv, ChecksStand, CheckStands, Held
<1>5. BackupHeld'  BY <1>1, <1>2 DEF BackupHeld
<1>6. IntentsArePast' /\ Quiet' /\ NoRecordForHeldData' /\ BranchHeld'
  BY <1>1, <1>2 DEF HeldInv, Writable, IntentsArePast, Quiet, NoRecordForHeldData, HeldInTime, Held,
                    BranchHeld
<1> QED  BY <1>3, <1>4, <1>5, <1>6 DEF HeldInv

\* A day passes: holds run out, and none comes into force.
LEMMA HeldTickStep ==
  ASSUME HeldInv, Tick  PROVE HeldInv'
<1>1. /\ TypeOK /\ now \in Nat /\ now > 0 /\ now' = now + 1 /\ now < Days
      /\ UNCHANGED <<db, journal, heldUntil, backup, worker, restore, faults, restores>>
  BY Typed DEF HeldInv, Tick
<1>2. /\ db \in Db /\ backup.db \in Db /\ restore.db \in Db
      /\ \A d \in Db : d.requested \in Nat /\ (Held(d, now') => Held(d, now))
  <2>1. \A d \in Db : d.requested \in Nat /\ d.hold \in Nat  BY <1>1, HeldTyped
  <2>2. \A d \in Db : Held(d, now') => Held(d, now)  BY <1>1, <2>1 DEF Held
  <2> QED  BY <1>1, <2>1, <2>2, Typed, HeldTyped
<1>3. TypeOK'  BY <1>1, AccountDeletionAssumption DEF TypeOK
<1>4. ChecksStand'
  <2> SUFFICES ASSUME NEW w \in Workers PROVE CheckStands(worker[w])'  BY DEF ChecksStand
  <2>1. CheckStands(worker[w])  BY DEF HeldInv, ChecksStand
  <2>2. 1..now \subseteq 1..now'  BY <1>1
  <2> QED  BY <1>1, <2>1, <2>2 DEF CheckStands, Held
<1>5. IntentsArePast'  BY <1>1, <1>2 DEF HeldInv, IntentsArePast
<1>6. HeldInTime(db)' => HeldInTime(db)  BY <1>1, <1>2 DEF HeldInTime, Held
<1>7. BackupHeld'  BY <1>1, <1>2 DEF HeldInv, BackupHeld, Held
<1>8. Quiet' /\ NoRecordForHeldData' /\ BranchHeld'
  BY <1>1, <1>6 DEF HeldInv, Quiet, NoRecordForHeldData, BranchHeld
<1> QED  BY <1>3, <1>4, <1>5, <1>7, <1>8 DEF HeldInv

\* A step of the procedure on its branch alone.
LEMMA HeldBranchStep ==
  ASSUME HeldInv, restore' \in [step : RestoreSteps, db : Db, heldIntent : BOOLEAN],
         restores' \in 0..MaxRestores, restore'.db.requested <= now, Quiet', BranchHeld',
         UNCHANGED <<now, db, journal, heldUntil, backup, worker, faults>>
  PROVE  HeldInv'
<1>1. TypeOK'  BY DEF HeldInv, TypeOK
<1>2. ChecksStand'  BY DEF HeldInv, ChecksStand, CheckStands, Held
<1>3. IntentsArePast' /\ NoRecordForHeldData' /\ BackupHeld'
  BY DEF HeldInv, IntentsArePast, NoRecordForHeldData, HeldInTime, Held, BackupHeld
<1> QED  BY <1>1, <1>2, <1>3 DEF HeldInv

LEMMA HeldStopStep ==
  ASSUME HeldInv, StopWrites \/ Abandon  PROVE HeldInv'
<1>1. /\ TypeOK /\ now \in Nat /\ UNCHANGED <<now, db, journal, heldUntil, backup, worker, faults>>
  BY Typed DEF HeldInv, StopWrites, Abandon
<1>2. CASE StopWrites
  <2>1. /\ restore' = [step |-> "stopped", db |-> backup.db, heldIntent |-> FALSE]
        /\ backup # NoBackup /\ backup.db \in Db /\ restores' \in 0..MaxRestores
    BY <1>1, <1>2, Typed, AccountDeletionAssumption DEF StopWrites, TypeOK
  <2>2. /\ restore' \in [step : RestoreSteps, db : Db, heldIntent : BOOLEAN]
        /\ restore'.step = "stopped" /\ restore'.db = backup.db
    BY <2>1 DEF RestoreSteps
  <2>3. Quiet' /\ BranchHeld'  BY <1>1, <2>1, <2>2 DEF Quiet, BranchHeld
  <2> QED  BY <1>1, <2>1, <2>2, <2>3, HeldBranchStep DEF HeldInv, IntentsArePast
<1>3. CASE Abandon
  <2>1. /\ restore' \in [step : RestoreSteps, db : Db, heldIntent : BOOLEAN]
        /\ restore'.step = "none" /\ restore'.db.requested = 0 /\ restores' \in 0..MaxRestores
    BY <1>1, <1>3, ErasedFields DEF Abandon, NoRestore, RestoreSteps, TypeOK
  <2>2. Quiet' /\ BranchHeld'  BY <2>1 DEF Quiet, BranchHeld
  <2> QED  BY <1>1, <2>1, <2>2, HeldBranchStep
<1> QED  BY <1>2, <1>3

\* The intents of held accounts are left out of the journal.
LEMMA HeldJournalStep ==
  ASSUME HeldInv, JournalIntents  PROVE HeldInv'
<1> DEFINE held == db.requested # 0 /\ Held(db, now)
<1>1. /\ TypeOK /\ restore.step = "stopped" /\ now \in Nat /\ now <= Days
      /\ db.requested \in Nat /\ held \in BOOLEAN
      /\ restore' = [restore EXCEPT !.step = "journaled", !.heldIntent = held]
      /\ UNCHANGED <<now, db, heldUntil, backup, worker, faults, restores>>
  BY Typed DEF HeldInv, JournalIntents, Held
<1> HIDE DEF held
<1>2. /\ restore' \in [step : RestoreSteps, db : Db, heldIntent : BOOLEAN]
      /\ restore'.step = "journaled" /\ restore'.db = restore.db
  BY <1>1 DEF TypeOK, RestoreSteps
<1>3. /\ journal' \subseteq journal \cup ({db.requested} \ {0})
      /\ Held(db, now) => journal' = journal
  BY DEF JournalIntents
<1>4. db.requested # 0 => db.requested \in 1..Days
  BY <1>1, AccountDeletionAssumption DEF HeldInv, IntentsArePast
<1>5. TypeOK'  BY <1>1, <1>2, <1>3, <1>4 DEF TypeOK
<1>6. ChecksStand'  BY <1>1 DEF HeldInv, ChecksStand, CheckStands, Held
<1>7. IntentsArePast' /\ Quiet' /\ NoRecordForHeldData' /\ BackupHeld' /\ BranchHeld'
  BY <1>1, <1>2, <1>3
  DEF HeldInv, IntentsArePast, Quiet, NoRecordForHeldData, HeldInTime, Held, BackupHeld, BranchHeld
<1> QED  BY <1>5, <1>6, <1>7 DEF HeldInv

\* No record names the account, so the branch keeps it.
LEMMA HeldApplyStep ==
  ASSUME HeldInv, Drain \/ ApplyDeletionRecords  PROVE HeldInv'
<1>1. /\ TypeOK /\ UNCHANGED <<now, db, journal, heldUntil, backup, worker, faults, restores>>
      /\ restore.db.requested <= now /\ now \in Nat
  BY Typed DEF HeldInv, IntentsArePast, Drain, ApplyDeletionRecords
<1>2. CASE Drain
  <2>1. /\ restore' \in [step : RestoreSteps, db : Db, heldIntent : BOOLEAN]
        /\ restore.step = "journaled" /\ restore'.step = "drained" /\ restore'.db = restore.db
    BY <1>1, <1>2 DEF Drain, TypeOK, RestoreSteps
  <2>2. Quiet' /\ BranchHeld'
    BY <1>1, <1>2, <2>1 DEF HeldInv, Drain, Quiet, BranchHeld
  <2> QED  BY <1>1, <2>1, <2>2, HeldBranchStep DEF TypeOK
<1>3. CASE ApplyDeletionRecords
  <2>1. /\ restore' \in [step : RestoreSteps, db : Db, heldIntent : BOOLEAN]
        /\ restore.step = "drained" /\ restore'.step = "applied"
        /\ restore'.db = IF journal # {} THEN Erased ELSE restore.db
    BY <1>1, <1>3, ErasedFields DEF ApplyDeletionRecords, TypeOK, RestoreSteps
  <2>2. restore'.db.requested <= now  BY <1>1, <2>1, ErasedFields
  <2>3. HeldInTime(db) => restore'.db = backup.db
    BY <2>1 DEF HeldInv, NoRecordForHeldData, BranchHeld
  <2>4. HeldInTime(db)' = HeldInTime(db)  BY <1>1 DEF HeldInTime, Held
  <2>5. Quiet' /\ BranchHeld'
    BY <1>1, <2>1, <2>3, <2>4 DEF HeldInv, Quiet, BranchHeld
  <2> QED  BY <1>1, <2>1, <2>2, <2>5, HeldBranchStep DEF TypeOK
<1> QED  BY <1>2, <1>3

\* A hold that is in the journal is placed on the branch, in time: no purge is under
\* way and no record is there.
LEMMA HeldReconcileStep ==
  ASSUME HeldInv, Reconcile  PROVE HeldInv'
<1>1. /\ TypeOK /\ restore.step = "applied" /\ now \in Nat \ {0} /\ restore.db \in Db
      /\ db \in Db /\ db.hold \in Nat /\ heldUntil \in Nat
      /\ UNCHANGED <<now, db, journal, heldUntil, backup, worker, faults, restores>>
  BY Typed, HeldTyped DEF HeldInv, Reconcile
<1>2. PICK d : d = Reheld(restore.db)  OBVIOUS
<1>3. PICK b : b = IF restore.heldIntent THEN WithIntent(d, now, "owner_request") ELSE d  OBVIOUS
<1>4. restore' = [restore EXCEPT !.step = "reconciled", !.db = b]  BY <1>2, <1>3 DEF Reconcile
<1>5. /\ d \in Db /\ d.account = restore.db.account /\ d.requested = restore.db.requested
  BY <1>1, <1>2, ReheldFields
<1>6. /\ b \in Db /\ b.account = d.account /\ b.hold = d.hold /\ b.heldInTime = d.heldInTime
      /\ b.requested = d.requested \/ b.requested = now
  BY <1>1, <1>3, <1>5, WithIntentFields DEF Reason
<1>7. /\ restore' \in [step : RestoreSteps, db : Db, heldIntent : BOOLEAN]
      /\ restore'.step = "reconciled" /\ restore'.db = b
  BY <1>1, <1>4, <1>6 DEF TypeOK, RestoreSteps
<1>8. b.requested <= now  BY <1>1, <1>5, <1>6 DEF HeldInv, IntentsArePast
<1>9. ASSUME HeldInTime(db)
      PROVE  /\ d.account
             /\ heldUntil = db.hold => d.heldInTime /\ d.hold >= db.hold
  <2>1. restore.db = backup.db /\ backup # NoBackup  BY <1>1, <1>9 DEF HeldInv, BranchHeld
  <2>2. /\ restore.db.account /\ restore.db.hold <= db.hold /\ restore.db.hold \in Nat
        /\ Held(restore.db, now) => restore.db.heldInTime
    BY <1>1, <1>9, <2>1, HeldTyped DEF HeldInv, BackupHeld, HeldInTime
  <2>3. ~PurgeBegun  BY <1>1, <1>9 DEF HeldInv, NoRecordForHeldData, Quiet, PurgeBegun
  <2>4. ASSUME heldUntil = db.hold  PROVE d.heldInTime /\ d.hold >= db.hold
    <3>1. db.hold > now  BY <1>9 DEF HeldInTime, Held
    <3>2. CASE heldUntil > restore.db.hold
      <4>1. d = WithHold(restore.db, heldUntil, now, ~PurgeBegun)
        BY <1>2, <2>2, <2>4, <3>1, <3>2 DEF Reheld
      <4> QED  BY <1>1, <2>2, <2>3, <2>4, <4>1, WithHoldFields
    <3>3. CASE ~(heldUntil > restore.db.hold)
      <4>1. d = restore.db  BY <1>2, <3>3 DEF Reheld
      <4>2. restore.db.hold = db.hold  BY <1>1, <2>2, <2>4, <3>3
      <4> QED  BY <1>1, <2>2, <3>1, <4>1, <4>2 DEF Held
    <3> QED  BY <3>2, <3>3
  <2> QED  BY <1>5, <2>2, <2>4
<1>10. HeldInTime(db)' = HeldInTime(db)  BY <1>1 DEF HeldInTime, Held
<1>11. Quiet' /\ BranchHeld'
  BY <1>1, <1>6, <1>7, <1>9, <1>10 DEF HeldInv, Quiet, BranchHeld
<1> QED  BY <1>1, <1>7, <1>8, <1>11, HeldBranchStep DEF TypeOK

LEMMA HeldSwapStep ==
  ASSUME HeldInv, Swap  PROVE HeldInv'
<1>1. /\ TypeOK /\ restore.step = "reconciled" /\ db' = restore.db /\ restore.db \in Db
      /\ restore.db.account => journal = {}
      /\ restore' = NoRestore /\ backup' = NoBackup /\ now \in Nat
      /\ UNCHANGED <<now, journal, heldUntil, worker, faults, restores>>
  BY Typed, HeldTyped DEF HeldInv, Swap
<1>2. /\ backup' \in [at : 0..Days, db : Db] /\ backup'.db.requested = 0
      /\ restore' \in [step : RestoreSteps, db : Db, heldIntent : BOOLEAN]
      /\ restore'.step = "none" /\ restore'.db.requested = 0
  BY <1>1, ErasedFields, AccountDeletionAssumption DEF NoBackup, NoRestore, RestoreSteps
<1>3. TypeOK'  BY <1>1, <1>2 DEF TypeOK
<1>4. ChecksStand'
  <2> SUFFICES ASSUME NEW w \in Workers PROVE CheckStands(worker[w])'  BY DEF ChecksStand
  <2>1. worker'[w].step = "idle"  BY <1>1 DEF HeldInv, Quiet
  <2> QED  BY <2>1 DEF CheckStands, Active
<1>5. IntentsArePast'  BY <1>1, <1>2 DEF HeldInv, IntentsArePast
<1>6. Quiet' /\ NoRecordForHeldData' /\ BackupHeld' /\ BranchHeld'
  BY <1>1, <1>2 DEF Quiet, NoRecordForHeldData, HeldInTime, BackupHeld, BranchHeld
<1> QED  BY <1>3, <1>4, <1>5, <1>6 DEF HeldInv

LEMMA HeldPreserved == ASSUME HeldInv, [Next]_vars  PROVE HeldInv'
<1>1. ASSUME NEW w \in Workers, OwnerRequest(w) \/ ListDue(w) \/ SweepIntent(w) \/ Fail(w)  PROVE HeldInv'
  BY <1>1, HeldIntentStep, HeldListStep, HeldWriteStep
<1>2. ASSUME NEW w \in Workers, Complete(w)  PROVE HeldInv'
  BY <1>2, HeldIntentStep, HeldCheckStep, HeldWriteStep, HeldMarkStep, HeldDeleteStep DEF Complete
<1>3. ASSUME Lapse \/ Resubscribe \/ JournalHold \/ SweepRecords \/ Capture \/ Tick  PROVE HeldInv'
  BY <1>3, HeldProfileStep, HeldSweepRecordsStep, HeldCaptureStep, HeldTickStep
<1>4. ASSUME NEW until \in 1..Days, PlaceHold(until)  PROVE HeldInv'
  BY <1>4, HeldPlaceStep
<1>5. ASSUME StopWrites \/ Procedure \/ Abandon  PROVE HeldInv'
  BY <1>5, HeldStopStep, HeldJournalStep, HeldApplyStep, HeldReconcileStep, HeldSwapStep DEF Procedure
<1>6. CASE UNCHANGED vars
  <2>1. TypeOK'  BY <1>6 DEF HeldInv, TypeOK, vars
  <2>2. ChecksStand'  BY <1>6 DEF HeldInv, ChecksStand, CheckStands, Held, vars
  <2>3. IntentsArePast' /\ Quiet' /\ NoRecordForHeldData' /\ BackupHeld' /\ BranchHeld'
    BY <1>6 DEF HeldInv, IntentsArePast, Quiet, NoRecordForHeldData, HeldInTime, Held, BackupHeld,
                BranchHeld, vars
  <2> QED  BY <2>1, <2>2, <2>3 DEF HeldInv
<1> QED  BY <1>1, <1>2, <1>3, <1>4, <1>5, <1>6 DEF Next

LEMMA HeldInductive == Spec => []HeldInv
<1>1. Init => HeldInv  BY HeldInitially
<1>2. HeldInv /\ [Next]_vars => HeldInv'  BY HeldPreserved
<1> QED  BY <1>1, <1>2, PTL DEF Spec

\* The state keeps its types: no record, intent or restore point is dated after
\* the present day.
THEOREM DeletionTypes == Spec => []TypeOK
<1>1. HeldInv => TypeOK  BY DEF HeldInv
<1> QED  BY <1>1, HeldInductive, PTL

\* An account under a Legal Hold that came before every purge under way was past
\* its last safe point has no record a restore could apply, however long the
\* hold and whether it came before the request or after it (service.ts:69-71,
\* restore.ts:62).
THEOREM NoRecordForHeldDataAlways == Spec => []NoRecordForHeldData
<1>1. HeldInv => NoRecordForHeldData  BY DEF HeldInv
<1> QED  BY <1>1, HeldInductive, PTL

-----------------------------------------------------------------------------
(* The action properties: a step that takes the account, or claims it, is  *)
(* one that was entitled to.                                               *)

\* What a step leaves of the account and of a hold in force.
Keeps == /\ db'.account = db.account
         /\ Held(db, now) => db'.heldInTime = db.heldInTime /\ db'.hold >= db.hold

\* Every other step leaves the account, its hold and its intent's reason.
LEMMA RowStands ==
  ASSUME HeldInv, [Next]_vars,
         ~\E w \in Workers : DeleteAccount(w) \/ OwnerRequest(w) \/ ClaimPurge(w) \/ CommitClaimed(w),
         ~Swap
  PROVE  Keeps /\ db'.reason = db.reason
<1>0. TypeOK /\ db \in Db /\ db.hold \in Nat  BY Typed DEF HeldInv
<1>1. CASE UNCHANGED db  BY <1>0, <1>1 DEF Keeps
<1>2. ASSUME NEW w \in Workers, MarkJournaled(w)  PROVE Keeps /\ db'.reason = db.reason
  <2>1. db' = MarkedJournaled(db)  BY <1>2 DEF MarkJournaled
  <2> QED  BY <1>0, <2>1, MarkedFields DEF Keeps
<1>3. ASSUME NEW until \in 1..Days, PlaceHold(until)  PROVE Keeps /\ db'.reason = db.reason
  <2>1. until \in Nat /\ db' = WithHold(db, until, now, ~PurgeBegun)
    BY <1>3 DEF PlaceHold
  <2> QED  BY <1>0, <2>1, WithHoldFields DEF Keeps
<1>4. ASSUME Lapse \/ Resubscribe  PROVE Keeps /\ db'.reason = db.reason
  <2>1. PICK day : db' = [db EXCEPT !.deadline = day]  BY <1>4 DEF Lapse, Resubscribe
  <2>2. /\ db'.account = db.account /\ db'.hold = db.hold /\ db'.heldInTime = db.heldInTime
        /\ db'.reason = db.reason
    BY <1>0, <2>1 DEF Db
  <2> QED  BY <1>0, <2>2 DEF Keeps
<1>5. ASSUME NEW w \in Workers, ListDue(w) \/ SweepIntent(w) \/ Fail(w) \/ Refused(w)
                               \/ CancelBilling(w) \/ CheckHold(w) \/ WriteRecord(w)
      PROVE  UNCHANGED db
  BY <1>5 DEF ListDue, SweepIntent, Fail, Refused, CancelBilling, CheckHold, WriteRecord
<1>6. CASE JournalHold \/ SweepRecords \/ Capture \/ Tick \/ StopWrites \/ Abandon
           \/ JournalIntents \/ Drain \/ ApplyDeletionRecords \/ Reconcile \/ UNCHANGED vars
  <2>1. UNCHANGED db
    BY <1>6 DEF JournalHold, SweepRecords, Capture, Tick, StopWrites, Abandon, JournalIntents, Drain,
                ApplyDeletionRecords, Reconcile, vars
  <2> QED  BY <1>1, <2>1
<1> QED  BY <1>1, <1>2, <1>3, <1>4, <1>5, <1>6 DEF Next, Complete, Procedure

\* An intent that is committed takes nothing away, and names its reason.
LEMMA CommitStep ==
  ASSUME HeldInv, NEW w \in Workers, OwnerRequest(w) \/ ClaimPurge(w) \/ CommitClaimed(w)
  PROVE  /\ Keeps
         /\ \/ db'.reason \in {db.reason, "owner_request"}
            \/ ClaimPurge(w) /\ MayClaim(db, worker[w].deadline, worker[w].at)
<1>1. db \in Db /\ db.hold \in Nat /\ now \in Nat \ {0} /\ CheckStands(worker[w])
  BY Typed DEF HeldInv, ChecksStand
<1>2. "owner_request" \in Reason /\ "retention_deadline" \in Reason  BY DEF Reason
<1>3. ASSUME NEW at \in Nat \ {0}, NEW why \in Reason, db' = WithIntent(db, at, why)
      PROVE  Keeps /\ db'.reason \in {db.reason, why}
  BY <1>1, <1>3, WithIntentFields DEF Keeps
<1>4. CASE OwnerRequest(w)  BY <1>1, <1>2, <1>3, <1>4 DEF OwnerRequest
<1>5. CASE UNCHANGED db  BY <1>1, <1>5 DEF Keeps
<1>6. CASE ClaimPurge(w)
  <2>1. worker[w].at \in Nat \ {0}  BY <1>1, <1>6 DEF CheckStands, ClaimPurge
  <2> QED  BY <1>2, <1>3, <1>5, <1>6, <2>1 DEF ClaimPurge
<1>7. CASE CommitClaimed(w)
  <2>1. worker[w].at \in Nat \ {0}  BY <1>1, <1>7 DEF CheckStands, CommitClaimed
  <2> QED  BY <1>2, <1>3, <1>5, <1>7, <2>1 DEF CommitClaimed
<1> QED  BY <1>4, <1>6, <1>7

\* Nobody who may still delete has passed over the hold, and the branch that takes
\* production's place has the account, and the hold if it is in the journal.
LEMMA HeldKept ==
  ASSUME HeldInv, [Next]_vars, HeldInTime(db)
  PROVE  /\ db'.account
         /\ heldUntil = db.hold => db'.heldInTime /\ Held(db', now)
<1>1. /\ TypeOK /\ db \in Db /\ db.hold \in Nat /\ now \in Nat
      /\ db.account /\ db.heldInTime /\ Held(db, now)
  BY Typed DEF HeldInv, HeldInTime
<1>2. ASSUME NEW w \in Workers, DeleteAccount(w)  PROVE FALSE
  <2>1. CheckStands(worker[w]) /\ worker[w].step = "delete"
    BY <1>2 DEF HeldInv, ChecksStand, DeleteAccount
  <2>2. worker[w].at \in Nat /\ worker[w].at <= now  BY <1>1, <2>1 DEF CheckStands
  <2> QED  BY <1>1, <2>1, <2>2, HeldEarlier DEF CheckStands
<1>3. CASE Swap
  <2>1. db' = restore.db /\ restore.step = "reconciled" /\ restore.db.hold \in Nat
    BY <1>1, <1>3, HeldTyped DEF Swap
  <2> QED  BY <1>1, <2>1 DEF HeldInv, BranchHeld, Held
<1>4. ASSUME Keeps  PROVE db'.account /\ db'.heldInTime /\ Held(db', now)
  <2>1. db' \in Db  BY HeldPreserved, Typed DEF HeldInv, TypeOK
  <2>2. db'.hold \in Nat  BY <1>1, <2>1, HeldTyped
  <2>3. db'.account = db.account /\ db'.heldInTime = db.heldInTime /\ db'.hold >= db.hold
    BY <1>1, <1>4 DEF Keeps
  <2>4. Held(db', now)  BY <1>1, <2>2, <2>3 DEF Held
  <2> QED  BY <1>1, <2>3, <2>4
<1>5. CASE \E w \in Workers : OwnerRequest(w) \/ ClaimPurge(w) \/ CommitClaimed(w)
  BY <1>4, <1>5, CommitStep
<1> QED  BY <1>2, <1>3, <1>4, <1>5, RowStands

\* A hold placed before a purge under way was past its last safe point, whether
\* before the request or after it, keeps the account's data against sweeps, the
\* retention deadline and any number of restores; and once it is in the journal
\* no restore, to before the hold either, loses it (service.ts:71,
\* restore/procedure.ts:304, legal-hold.ts:53-69).
THEOREM HeldDataStaysAlways == Spec => HeldDataStays
<1>1. HeldInv /\ [Next]_vars =>
        [HeldInTime(db) => /\ db'.account
                           /\ heldUntil = db.hold => db'.heldInTime /\ Held(db', now)]_vars
  BY HeldKept
<1> QED  BY <1>1, HeldInductive, PTL DEF Spec, HeldDataStays

\* What the claim compared still holds when the day of the claim has passed.
LEMMA ClaimEntitled ==
  ASSUME HeldInv, [Next]_vars, db.reason = "owner_request", db'.reason = "retention_deadline"
  PROVE  \/ db.deadline # 0 /\ db.deadline <= now /\ ~Held(db, now)
         \/ restore.step = "reconciled"
<1>1. CASE \E w \in Workers : OwnerRequest(w) \/ ClaimPurge(w) \/ CommitClaimed(w)
  <2>1. PICK w \in Workers : ClaimPurge(w) /\ MayClaim(db, worker[w].deadline, worker[w].at)
    BY <1>1, CommitStep
  <2>2. /\ worker[w].at <= now /\ worker[w].at \in Nat /\ now \in Nat
        /\ db.hold \in Nat /\ db.deadline \in Nat
    BY <2>1, Typed DEF HeldInv, ChecksStand, CheckStands, ClaimPurge, Db
  <2> QED  BY <2>1, <2>2 DEF MayClaim, Held
<1>2. CASE Swap  BY <1>2 DEF Swap
<1>3. ASSUME NEW w \in Workers, DeleteAccount(w)  PROVE FALSE
  BY <1>3, ErasedFields DEF DeleteAccount
<1> QED  BY <1>1, <1>2, <1>3, RowStands

\* An account that resubscribed, or was held, between the sweep's listing and
\* its claim is not purged for its old deadline (drizzle-store.ts:180).
THEOREM OnlyLapsedPurgedAlways == Spec => OnlyLapsedPurged
<1>1. HeldInv /\ [Next]_vars =>
        [db.reason = "owner_request" /\ db'.reason = "retention_deadline"
           => \/ db.deadline # 0 /\ db.deadline <= now /\ ~Held(db, now)
              \/ restore.step = "reconciled"]_vars
  BY ClaimEntitled
<1> QED  BY <1>1, HeldInductive, PTL DEF Spec, OnlyLapsedPurged

-----------------------------------------------------------------------------
(* The refinement: what each step does to the account's status.            *)

\* Steps that leave the account and its intent where they are.
LEMMA StatusKept ==
  ASSUME db'.account = db.account, db'.requested = db.requested  PROVE UNCHANGED Status
BY DEF Status

\* An intent opens the deletion, or finds it open already.
LEMMA IntentAccepts ==
  ASSUME TypeOK, NEW at \in Nat \ {0}, NEW why \in Reason, db' = WithIntent(db, at, why)
  PROVE  Promise!Next \/ UNCHANGED Status
<1>1. db \in Db  BY Typed
<1>2. db'.account = db.account  BY <1>1, WithIntentFields
<1>3. CASE ~db.account \/ db.requested # 0
  <2>1. db' = db  BY <1>1, <1>3, WithIntentFields
  <2> QED  BY <2>1, StatusKept
<1>4. CASE db.account /\ db.requested = 0
  <2>1. db'.requested # 0  BY <1>1, <1>4, WithIntentFields
  <2> QED  BY <1>2, <1>4, <2>1 DEF Status, Promise!Next, Promise!Accept
<1> QED  BY <1>3, <1>4

LEMMA CommitKeepsPromise ==
  ASSUME IInv, NEW w \in Workers, OwnerRequest(w) \/ ClaimPurge(w) \/ CommitClaimed(w)
  PROVE  Promise!Next \/ UNCHANGED Status
<1>1. TypeOK /\ FrameFits(worker[w]) /\ now \in Nat \ {0} /\ worker[w].at \in Nat
  BY Typed DEF IInv, FramesFit
<1>2. "owner_request" \in Reason /\ "retention_deadline" \in Reason  BY DEF Reason
<1>3. CASE OwnerRequest(w)
  <2>1. db' = WithIntent(db, now, "owner_request")  BY <1>3 DEF OwnerRequest
  <2> QED  BY <1>1, <1>2, <2>1, IntentAccepts
<1>4. CASE ClaimPurge(w)
  <2>1. worker[w].at \in Nat \ {0}  BY <1>1, <1>4 DEF FrameFits, ClaimPurge
  <2>2. CASE db' = WithIntent(db, worker[w].at, "retention_deadline")
    BY <1>1, <1>2, <2>1, <2>2, IntentAccepts
  <2>3. CASE UNCHANGED db  BY <2>3, StatusKept
  <2> QED  BY <1>4, <2>2, <2>3 DEF ClaimPurge
<1>5. CASE CommitClaimed(w)
  <2>1. worker[w].at \in Nat \ {0}  BY <1>1, <1>5 DEF FrameFits, CommitClaimed
  <2>2. CASE db' = WithIntent(db, worker[w].at, "owner_request")
    BY <1>1, <1>2, <2>1, <2>2, IntentAccepts
  <2>3. CASE UNCHANGED db  BY <2>3, StatusKept
  <2> QED  BY <1>5, <2>2, <2>3 DEF CommitClaimed
<1> QED  BY <1>3, <1>4, <1>5

LEMMA DeleteKeepsPromise ==
  ASSUME IInv, NEW w \in Workers, DeleteAccount(w)
  PROVE  Promise!Next \/ UNCHANGED Status
<1>1. /\ FrameFits(worker[w]) /\ worker[w].step = "delete" /\ db' = Erased
  BY DEF IInv, FramesFit, DeleteAccount
<1>2. Status' = "erased"  BY <1>1, ErasedFields DEF Status
<1>3. CASE ~db.account  BY <1>2, <1>3 DEF Status
<1>4. CASE db.account
  <2>1. db.requested # 0
    BY <1>1, <1>4, Typed DEF FrameFits, Active, IInv
  <2> QED  BY <1>2, <1>4, <2>1 DEF Status, Promise!Next, Promise!Erase
<1> QED  BY <1>3, <1>4

\* The restored copy takes production's place and nothing is undone: an open
\* account is in the copy and open, a closing one is closing or deleted, and one
\* that is deleted is not there.
LEMMA SwapKeepsPromise ==
  ASSUME IInv, Swap  PROVE Promise!Next \/ UNCHANGED Status
<1>1. /\ restore.step = "reconciled" /\ db' = restore.db /\ backup # NoBackup
  BY DEF IInv, Swap, Restoring, BranchTaken
<1>2. /\ restore.db.account =>
           db.account /\ (db.requested # 0 <=> restore.db.requested # 0)
      /\ ~restore.db.account => journal # {} \/ ~backup.db.account
  BY <1>1 DEF IInv, Restoring, BranchReady
<1>3. CASE restore.db.account  BY <1>1, <1>2, <1>3 DEF Status
<1>4. CASE ~restore.db.account /\ ~db.account  BY <1>1, <1>4 DEF Status
<1>5. CASE ~restore.db.account /\ db.account
  <2>1. backup.db.account  BY <1>1, <1>5 DEF IInv, BackupIsPast
  <2>2. journal # {} /\ journal \subseteq {db.requested} /\ 0 \notin journal
    BY <1>2, <1>5, <2>1, Typed DEF IInv, JournalNamesIntent
  <2>3. db.requested # 0  BY <2>2
  <2> QED  BY <1>1, <1>5, <2>3 DEF Status, Promise!Next, Promise!Erase
<1> QED  BY <1>3, <1>4, <1>5

LEMMA StepKeepsPromise ==
  ASSUME IInv, [Next]_vars  PROVE [Promise!Next]_Status
<1> USE StatusKept
<1>1. ASSUME NEW w \in Workers, ListDue(w) \/ SweepIntent(w) \/ Fail(w) \/ Refused(w)
                               \/ CancelBilling(w) \/ CheckHold(w) \/ WriteRecord(w)
      PROVE  UNCHANGED Status
  BY <1>1 DEF ListDue, SweepIntent, Fail, Refused, CancelBilling, CheckHold, WriteRecord
<1>2. ASSUME NEW w \in Workers, MarkJournaled(w)  PROVE UNCHANGED Status
  <2>1. db \in Db /\ db' = MarkedJournaled(db)  BY <1>2, Typed DEF IInv, MarkJournaled
  <2> QED  BY <2>1, MarkedFields
<1>3. ASSUME NEW until \in 1..Days, PlaceHold(until)  PROVE UNCHANGED Status
  <2>1. db \in Db /\ until \in Nat /\ db' = WithHold(db, until, now, ~PurgeBegun)
    BY <1>3, Typed DEF IInv, PlaceHold
  <2> QED  BY <2>1, WithHoldFields
<1>4. ASSUME Lapse \/ Resubscribe  PROVE UNCHANGED Status
  <2>1. PICK day : db' = [db EXCEPT !.deadline = day]  BY <1>4 DEF Lapse, Resubscribe
  <2>2. db \in Db  BY Typed DEF IInv
  <2> QED  BY <2>1, <2>2 DEF Db
<1>5. CASE JournalHold \/ SweepRecords \/ Capture \/ Tick \/ StopWrites \/ Abandon
           \/ JournalIntents \/ Drain \/ ApplyDeletionRecords \/ Reconcile \/ UNCHANGED vars
  BY <1>5 DEF JournalHold, SweepRecords, Capture, Tick, StopWrites, Abandon, JournalIntents, Drain,
              ApplyDeletionRecords, Reconcile, vars
<1> QED
  BY <1>1, <1>2, <1>3, <1>4, <1>5, CommitKeepsPromise, DeleteKeepsPromise, SwapKeepsPromise
  DEF Next, Complete, Procedure

\* However requests, sweeps, crashes, holds and restores interleave, an account
\* whose deletion was accepted never opens again, and one that was deleted never
\* comes back (service.ts: commit, journal, delete; restore/procedure.ts).
THEOREM DeletionImplementsPromise == ASSUME Timely  PROVE PromptSpec => ImplementsPromise
<1>1. Init => Promise!Init  BY ErasedFields DEF Init, Promise!Init, Status
<1>2. IInv /\ [Next /\ Prompt']_vars => [Promise!Next]_Status  BY StepKeepsPromise
<1> QED  BY <1>1, <1>2, Inductive, PTL DEF PromptSpec, ImplementsPromise, Promise!Spec
=============================================================================
