--------------------------- MODULE AccountDeletion --------------------------
(***************************************************************************)
(* The irreversible purge of one account and the restore that must not     *)
(* undo it.  The owner's request, the purge of an account past its         *)
(* retention deadline and the recovery sweep all run the same steps:       *)
(* commit an intent, write the Deletion Record to the Recovery Journal,    *)
(* delete the row.  The journal is another store than the database, so     *)
(* any step may be the last one a process completes.  The database can be  *)
(* restored to any instant of the Backup Window; the restore applies the   *)
(* journal to the restored copy before it replaces production.             *)
(***************************************************************************)
EXTENDS AccountRecord, FiniteSets

CONSTANTS
  Workers,          \* invocations: requests and cron passes
  BackupWindow,     \* RETENTION.backupWindow, in days
  RecordRetention,  \* RETENTION.deletionRecord
  LapsedRetention,  \* RETENTION.lapsedAccount and terminatedAccount
  LongestWait,      \* the days within which the operator sees every deletion done
  Days, MaxFaults, MaxRestores   \* bounds: the last day, failed calls, restores

ASSUME AccountDeletionAssumption ==
  /\ IsFiniteSet(Workers)
  /\ BackupWindow \in Nat /\ RecordRetention \in Nat /\ LapsedRetention \in Nat \ {0}
  /\ LongestWait \in Nat \ {0}
  /\ Days \in Nat \ {0} /\ MaxFaults \in Nat /\ MaxRestores \in Nat

VARIABLES
  now,
  db,         \* production
  journal,    \* the times of the account's Deletion Records
  heldUntil,  \* the latest expiry of the holds the journal and the operations sheet name
  backup,     \* [at, db]: the instant a later restore goes back to; at 0: none chosen
  worker,     \* what each invocation is doing, and what it has read
  restore,    \* [step, db, heldIntent]: the restore procedure and its branch
  faults, restores

vars == <<now, db, journal, heldUntil, backup, worker, restore, faults, restores>>

Steps == {"idle", "claim", "commit", "billing", "check", "write", "mark", "delete"}

Frame == [step : Steps, at : Nat, requested : Nat, journaled : BOOLEAN, deadline : Nat]

Idle == [step |-> "idle", at |-> 0, requested |-> 0, journaled |-> FALSE, deadline |-> 0]

RestoreSteps == {"none", "stopped", "journaled", "drained", "applied", "reconciled"}

NoBackup == [at |-> 0, db |-> Erased]

NoRestore == [step |-> "none", db |-> Erased, heldIntent |-> FALSE]

TypeOK ==
  /\ now \in 1..Days
  /\ db \in Db
  /\ journal \subseteq 1..Days
  /\ heldUntil \in Nat
  /\ backup \in [at : 0..Days, db : Db]
  /\ worker \in [Workers -> Frame]
  /\ restore \in [step : RestoreSteps, db : Db, heldIntent : BOOLEAN]
  /\ faults \in 0..MaxFaults /\ restores \in 0..MaxRestores

Init ==
  /\ now = 1 /\ db = NewAccount
  /\ journal = {} /\ heldUntil = 0
  /\ backup = NoBackup
  /\ worker = [w \in Workers |-> Idle]
  /\ restore = NoRestore
  /\ faults = 0 /\ restores = 0

-----------------------------------------------------------------------------
(* Helpers.                                                                *)

Fault == faults < MaxFaults /\ faults' = faults + 1

\* Production takes writes until the restore procedure stops them, and the
\* cron stands down while outbound is paused, which it is for as long.
Writable == restore.step = "none"

Goto(w, step) == worker' = [worker EXCEPT ![w].step = step]

End(w) == worker' = [worker EXCEPT ![w] = Idle]

\* A process that goes on with the intent as it was read.
Resume(w, step, at, d) ==
  worker' = [worker EXCEPT ![w] =
    [step |-> step, at |-> at, requested |-> d.requested, journaled |-> d.journaled,
     deadline |-> 0]]

ExpiresWithBackups(at) == now - at >= BackupWindow   \* variant: no margin for a late deletion

\* isDeletionRecordExpired reads the record's age from its pathname.
IsExpired(at) == now - at >= RecordRetention

-----------------------------------------------------------------------------
(* The owner's request, the retention sweep and the recovery sweep.        *)

\* requestAccountDeletion: the request's time is the day it is made.
OwnerRequest(w) ==
  /\ worker[w].step = "idle" /\ Writable /\ db.account
  /\ db' = WithIntent(db, now, "owner_request")
  /\ Resume(w, "billing", now, db')
  /\ UNCHANGED <<now, journal, heldUntil, backup, restore, faults, restores>>

\* listDue: an account past its deadline, not held and with no intent.
ListDue(w) ==
  /\ worker[w].step = "idle" /\ Writable
  /\ db.account /\ db.requested = 0
  /\ db.deadline # 0 /\ db.deadline <= now /\ ~Held(db, now)
  /\ worker' = [worker EXCEPT ![w] =
       [step |-> "claim", at |-> now, requested |-> 0, journaled |-> FALSE,
        deadline |-> db.deadline]]
  /\ UNCHANGED <<now, db, journal, heldUntil, backup, restore, faults, restores>>

\* claimPurge, one statement; purgeAccount then calls requestAccountDeletion.
ClaimPurge(w) ==
  /\ worker[w].step = "claim" /\ Writable
  /\ IF MayClaim(db, worker[w].deadline, worker[w].at)
       THEN /\ db' = WithIntent(db, worker[w].at, "retention_deadline")
            /\ Goto(w, "commit")
       ELSE End(w) /\ UNCHANGED db
  /\ UNCHANGED <<now, journal, heldUntil, backup, restore, faults, restores>>

\* Its commitIntent: the account may have been deleted since, and the insert
\* then breaks its foreign key.
CommitClaimed(w) ==
  /\ worker[w].step = "commit" /\ Writable
  /\ IF db.account
       THEN /\ db' = WithIntent(db, worker[w].at, "owner_request")
            /\ Resume(w, "billing", worker[w].at, db')
       ELSE End(w) /\ UNCHANGED db
  /\ UNCHANGED <<now, journal, heldUntil, backup, restore, faults, restores>>

SweepUnjournaled(w) ==     \* variant: a journaled intent is taken for finished
  /\ worker[w].step = "idle" /\ Writable
  /\ db.requested # 0 /\ ~Held(db, now) /\ ~db.journaled
  /\ Resume(w, "billing", now, db)
  /\ UNCHANGED <<now, db, journal, heldUntil, backup, restore, faults, restores>>

\* runAccountDeletionSweep lists the intents that are not held.
SweepIntent(w) ==
  /\ worker[w].step = "idle" /\ Writable
  /\ db.requested # 0 /\ ~Held(db, now)
  /\ Resume(w, "billing", now, db)
  /\ UNCHANGED <<now, db, journal, heldUntil, backup, restore, faults, restores>>

-----------------------------------------------------------------------------
(* completeIntent.                                                         *)

\* cancelSubscriptions, and for a sweep revokeSessions before it.
CancelBilling(w) ==
  /\ worker[w].step = "billing"
  /\ Goto(w, "check")
  /\ UNCHANGED <<now, db, journal, heldUntil, backup, restore, faults, restores>>

CheckNoHold(w) ==          \* variant: trusts the listing, which left held intents out
  /\ worker[w].step = "check"
  /\ Goto(w, IF worker[w].journaled THEN "delete" ELSE "write")
  /\ UNCHANGED <<now, db, journal, heldUntil, backup, restore, faults, restores>>

\* The last safe point: a held account's intent waits for the sweep.
CheckHold(w) ==
  /\ worker[w].step = "check"
  /\ IF Held(db, worker[w].at) THEN End(w)
     ELSE Goto(w, IF worker[w].journaled THEN "delete" ELSE "write")
  /\ UNCHANGED <<now, db, journal, heldUntil, backup, restore, faults, restores>>

DeleteFirst(w) ==          \* variant: the rows go before the record
  /\ worker[w].step = "write"
  /\ Goto(w, "delete")
  /\ UNCHANGED <<now, db, journal, heldUntil, backup, restore, faults, restores>>

\* journal.write: the record is dated at the request, so a retry writes the
\* same pathname again.
WriteRecord(w) ==
  /\ worker[w].step = "write"
  /\ journal' = journal \cup {worker[w].requested}
  /\ Goto(w, "mark")
  /\ UNCHANGED <<now, db, heldUntil, backup, restore, faults, restores>>

MarkJournaled(w) ==
  /\ worker[w].step = "mark" /\ Writable
  /\ db' = MarkedJournaled(db)
  /\ Goto(w, "delete")
  /\ UNCHANGED <<now, journal, heldUntil, backup, restore, faults, restores>>

DeleteAccount(w) ==
  /\ worker[w].step = "delete" /\ Writable
  /\ db' = Erased
  /\ End(w)
  /\ UNCHANGED <<now, journal, heldUntil, backup, restore, faults, restores>>

\* A call fails, or the function is killed: the intent is left for the sweep.
\* A put that failed may still have stored the record.
Fail(w) ==
  /\ worker[w].step # "idle" /\ Fault
  /\ \/ UNCHANGED journal
     \/ worker[w].step = "write" /\ journal' = journal \cup {worker[w].requested}
  /\ End(w)
  /\ UNCHANGED <<now, db, heldUntil, backup, restore, restores>>

\* Once production is read-only, every statement that writes it fails.
Refused(w) ==
  /\ worker[w].step \in {"claim", "commit", "mark", "delete"} /\ ~Writable
  /\ End(w)
  /\ UNCHANGED <<now, db, journal, heldUntil, backup, restore, faults, restores>>

-----------------------------------------------------------------------------
(* What else happens to an account.                                        *)

\* Paid Access ends, or the operator terminates: the deadline is set.  One
\* after the last day is left out.
Lapse ==
  /\ Writable /\ db.account /\ db.deadline = 0 /\ now + LapsedRetention <= Days
  /\ db' = [db EXCEPT !.deadline = now + LapsedRetention]
  /\ UNCHANGED <<now, journal, heldUntil, backup, worker, restore, faults, restores>>

\* A Lapsed account resubscribes.
Resubscribe ==
  /\ Writable /\ db.account /\ db.deadline # 0
  /\ db' = [db EXCEPT !.deadline = 0]
  /\ UNCHANGED <<now, journal, heldUntil, backup, worker, restore, faults, restores>>

\* Is a purge past its last safe point?  (history: read by no guard)
PurgeBegun ==
  journal # {} \/ \E w \in Workers : worker[w].step \in {"write", "mark", "delete"}

\* placeLegalHold: the row, in force at once, until any date to come.
PlaceHold(until) ==
  /\ Writable /\ db.account /\ until > now
  /\ db' = WithHold(db, until, now, ~PurgeBegun)
  /\ UNCHANGED <<now, journal, heldUntil, backup, worker, restore, faults, restores>>

\* ... and its journal record, which the operator retries until it is written.
JournalHold ==
  /\ Writable /\ db.account /\ heldUntil < db.hold
  /\ heldUntil' = db.hold
  /\ UNCHANGED <<now, db, journal, backup, worker, restore, faults, restores>>

SweepRecords ==
  /\ Writable /\ \E at \in journal : IsExpired(at)
  /\ journal' = {at \in journal : ~IsExpired(at)}
  /\ UNCHANGED <<now, db, heldUntil, backup, worker, restore, faults, restores>>

\* The database history keeps every instant; this names the one the next
\* restore goes back to.
Capture ==
  /\ Writable /\ backup = NoBackup
  /\ backup' = [at |-> now, db |-> db]
  /\ UNCHANGED <<now, db, journal, heldUntil, worker, restore, faults, restores>>

\* A function lives for minutes: no invocation outlasts a second midnight.
Tick ==
  /\ now < Days
  /\ \A w \in Workers : worker[w].step # "idle" => worker[w].at = now
  /\ now' = now + 1
  /\ UNCHANGED <<db, journal, heldUntil, backup, worker, restore, faults, restores>>

-----------------------------------------------------------------------------
(* The restore procedure, in the order of the operator's runbook.          *)

\* A branch at the restore point, paused; then stopWrites makes production
\* read-only and ends its connections.
StopWrites ==
  /\ restore.step = "none" /\ restores < MaxRestores
  /\ backup # NoBackup /\ now - backup.at <= BackupWindow
  /\ restore' = [step |-> "stopped", db |-> backup.db, heldIntent |-> FALSE]
  /\ restores' = restores + 1
  /\ UNCHANGED <<now, db, journal, heldUntil, backup, worker, faults>>

JournalEveryIntent ==     \* variant: held or not
  /\ restore.step = "stopped"
  /\ journal' = IF db.requested # 0 THEN journal \cup {db.requested} ELSE journal
  /\ restore' = [restore EXCEPT !.step = "journaled"]
  /\ UNCHANGED <<now, db, heldUntil, backup, worker, faults, restores>>

\* stopWrites then journals the committed intent, unless a hold covers it.
JournalIntents ==
  /\ restore.step = "stopped"
  /\ journal' = IF db.requested # 0 /\ ~Held(db, now)
                  THEN journal \cup {db.requested} ELSE journal
  /\ restore' = [restore EXCEPT !.step = "journaled",
                                !.heldIntent = db.requested # 0 /\ Held(db, now)]
  /\ UNCHANGED <<now, db, heldUntil, backup, worker, faults, restores>>

\* The runbook waits longer than any function lives, then drains the journal
\* up to its cutover marker.
Drain ==
  /\ restore.step = "journaled"
  /\ \A w \in Workers : worker[w].step = "idle"
  /\ restore' = [restore EXCEPT !.step = "drained"]
  /\ UNCHANGED <<now, db, journal, heldUntil, backup, worker, faults, restores>>

\* applyDeletionRecords: every record in the journal, whatever its time.
ApplyDeletionRecords ==
  /\ restore.step = "drained"
  /\ restore' = [restore EXCEPT !.step = "applied",
                   !.db = IF journal # {} THEN Erased ELSE @]
  /\ UNCHANGED <<now, db, journal, heldUntil, backup, worker, faults, restores>>

\* The branch with the journaled hold placed again while it is still to run.
Reheld(d) ==
  IF d.account /\ heldUntil > now /\ heldUntil > d.hold
    THEN WithHold(d, heldUntil, now, ~PurgeBegun) ELSE d

\* reconcileAdmission lists the hold the restored data lost and the operator
\* places it again; the request of a held account is committed again too.
Reconcile ==
  /\ restore.step = "applied"
  /\ restore' = [restore EXCEPT !.step = "reconciled",
       !.db = IF restore.heldIntent THEN WithIntent(Reheld(@), now, "owner_request")
              ELSE Reheld(@)]
  /\ UNCHANGED <<now, db, journal, heldUntil, backup, worker, faults, restores>>

\* verify finds no Deletion Record's subject, and the branch is swapped in.
Swap ==
  /\ restore.step = "reconciled"
  /\ restore.db.account => journal = {}
  /\ db' = restore.db
  /\ restore' = NoRestore /\ backup' = NoBackup
  /\ UNCHANGED <<now, journal, heldUntil, worker, faults, restores>>

\* resumeWrites: the restore is given up before the swap.
Abandon ==
  /\ restore.step # "none"
  /\ restore' = NoRestore
  /\ UNCHANGED <<now, db, journal, heldUntil, backup, worker, faults, restores>>

-----------------------------------------------------------------------------
Complete(w) ==
  \/ ClaimPurge(w) \/ CommitClaimed(w)
  \/ CancelBilling(w) \/ CheckHold(w) \/ WriteRecord(w) \/ MarkJournaled(w) \/ DeleteAccount(w)
  \/ Refused(w)

Procedure ==
  JournalIntents \/ Drain \/ ApplyDeletionRecords \/ Reconcile \/ Swap

Next ==
  \/ \E w \in Workers : OwnerRequest(w) \/ ListDue(w) \/ SweepIntent(w) \/ Complete(w) \/ Fail(w)
  \/ Lapse \/ Resubscribe
  \/ \E until \in 1..Days : PlaceHold(until)
  \/ JournalHold \/ SweepRecords \/ Capture \/ Tick
  \/ StopWrites \/ Procedure \/ Abandon

Spec == Init /\ [][Next]_vars

\* What no code enforces and the operator promises: no deletion waits longer than
\* LongestWait, and no hold keeps one waiting for longer.
Prompt ==
  db.requested # 0 => now <= db.requested + LongestWait /\ db.hold <= db.requested + LongestWait

PromptSpec == Init /\ [][Next /\ Prompt']_vars

\* The platform runs an invocation to its end or kills it, the cron comes back
\* every hour, the days pass, and the operator finishes the restore.
Fairness ==
  /\ \A w \in Workers : WF_vars(Complete(w))
  /\ SF_vars(\E w \in Workers : SweepIntent(w))
  /\ WF_vars(Tick /\ Prompt')
  /\ WF_vars(Procedure)

FairSpec == PromptSpec /\ Fairness

-----------------------------------------------------------------------------
(* Properties.                                                             *)

Status == IF ~db.account THEN "erased" ELSE IF db.requested # 0 THEN "closing" ELSE "open"

Promise == INSTANCE ErasurePromise WITH status <- Status

\* However invocations, crashes, holds and a restore interleave, an account
\* whose deletion was accepted never opens again and one that was deleted never
\* comes back (service.ts: commit, journal, delete; restore/procedure.ts).
ImplementsPromise == Promise!Spec

\* A deletion that was accepted is carried out in the end, by whichever sweep
\* finds it once the calls stop failing and the hold has run out.
AcceptedIsCarriedOut == Promise!FairSpec

\* No account is gone without a Deletion Record for a restore to re-apply, for
\* as long as the Backup Window can still bring the account back
\* (service.ts:15, recovery-journal.ts:175).
RecordOutlivesBackups ==
  ~db.account /\ backup.db.account /\ now - backup.at <= BackupWindow => journal # {}

\* Under a Legal Hold that was in force when any purge under way read the holds,
\* and before any record.
HeldInTime(d) == d.account /\ d.heldInTime /\ Held(d, now)

\* A record a restore could apply never exists for data whose hold came before
\* the last safe point of every purge, whether before the request or after it
\* (service.ts:69-71, restore.ts:62).
NoRecordForHeldData == HeldInTime(db) => journal = {}

\* Such a hold keeps the account's data, against sweeps that listed the account
\* before it, the retention deadline and a restore; and once it is in the journal,
\* a restore to before the hold loses neither the hold nor what it protects
\* (service.ts:71, restore/procedure.ts:304, legal-hold.ts:53-69).
HeldDataStays ==
  [][HeldInTime(db) => /\ db'.account
                       /\ heldUntil = db.hold => db'.heldInTime /\ Held(db', now)]_vars

\* An account that resubscribed between the sweep's listing and its claim is
\* not purged for its old deadline (drizzle-store.ts:180).
OnlyLapsedPurged ==
  [][db.reason = "owner_request" /\ db'.reason = "retention_deadline"
       => \/ db.deadline # 0 /\ db.deadline <= now /\ ~Held(db, now)
          \/ restore.step = "reconciled"]_vars

\* As ImplementsPromise says of deleted accounts alone.
ErasedStaysErased == [][~db.account => ~db'.account]_vars
=============================================================================
