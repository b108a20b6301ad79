-------------------------- MODULE OwnerDataExport ---------------------------
(***************************************************************************)
(* One owner's data exports.  A request makes a job row, a queue consumer  *)
(* or the recovery pass claims it, writes the archive and marks the job    *)
(* completed; the bytes and the row expire a day later, cleaned up by      *)
(* whoever meets them first: the next request, a download, the pass.       *)
(* Bytes and rows are written by different statements, every process may   *)
(* stop between two of them, and a restore may take both back to an        *)
(* earlier instant while the fences of delivered exports stay.             *)
(***************************************************************************)
EXTENDS Naturals, FiniteSets

CONSTANTS
  Web,         \* invocations of the request action and of the download route
  Consumers,   \* invocations of the queue consumer
  Passes,      \* invocations of the recovery pass
  Lease,       \* DEFAULT_LEASE_DURATION_MS
  RetryDelay,  \* RETRY_DELAY_MS
  Life,        \* the twenty-four hours an archive is kept
  MaxRun,      \* how long an invocation may go on
  MaxJobs, MaxClaims, MaxClock, MaxFaults, MaxRestores,   \* bounds
  LastFault    \* bound: the last instant at which a call fails or a restore is made

ASSUME OwnerDataExportAssumption ==
  /\ Lease \in Nat /\ RetryDelay \in Nat /\ Life \in Nat \ {0} /\ MaxRun \in Nat
  /\ MaxJobs \in Nat /\ MaxClaims \in Nat /\ MaxClock \in Nat \ {0}
  /\ MaxFaults \in Nat /\ MaxRestores \in Nat /\ LastFault \in Nat

VARIABLES
  clock,
  jobs,       \* owner_data_export_jobs, by id; ids grow with createdAt
  archives,   \* owner_data_export_artifacts, by job id
  fences,     \* when the exports of each key were last fenced (0: never), in the journal's store
  fenced,     \* history: the rows whose delivery was fenced
  backup,     \* the instant of production a later restore goes back to
  procs,      \* what each invocation is doing
  made, tokens, faults, restores   \* ids and claim tokens issued, bounds' counters

vars == <<clock, jobs, archives, fences, fenced, backup, procs, made, tokens, faults, restores>>

Ids == 1..MaxJobs

Procs == Web \cup Consumers \cup Passes

Statuses == {"none", "pending", "running", "completed", "failed", "expired"}

Open == {"pending", "running", "failed"}

Done == {"completed", "expired"}

\* A row: key is the predecessor the idempotency key names, cursor is
\* artifactExpiresAt (0: null), by (history) the claim that completed it.
Job == [status : Statuses, key : 0..MaxJobs, runAfter : Nat, claimedAt : Nat,
        token : 0..MaxClaims, cursor : Nat, by : 0..MaxClaims]

NoJob == [status |-> "none", key |-> 0, runAfter |-> 0, claimedAt |-> 0,
          token |-> 0, cursor |-> 0, by |-> 0]

\* The bytes are told apart by the claim that wrote them.
Archive == [by : 0..MaxClaims, expires : Nat]

NoArchive == [by |-> 0, expires |-> 0]

Steps == {"idle", "enqueue", "mark", "delete", "clear", "present", "put", "complete",
          "fence", "fail", "claiming", "claim", "list", "sweep", "purge"}

\* now is the invocation's clock reading, at the one processJob takes; back is
\* where the invocation goes on after a job it processes or cleans up.
Frame == [step : Steps, back : Steps, job : 0..MaxJobs, token : 0..MaxClaims,
          now : Nat, at : Nat, todo : SUBSET Ids]

Idle == [step |-> "idle", back |-> "idle", job |-> 0, token |-> 0,
         now |-> 0, at |-> 0, todo |-> {}]

NoBackup == [saved |-> FALSE, jobs |-> [i \in Ids |-> NoJob],
             archives |-> [i \in Ids |-> NoArchive]]

Backup == [saved : BOOLEAN, jobs : [Ids -> Job], archives : [Ids -> Archive]]

TypeOK ==
  /\ clock \in 1..MaxClock
  /\ jobs \in [Ids -> Job] /\ archives \in [Ids -> Archive]
  /\ fences \in [0..MaxJobs -> Nat] /\ fenced \subseteq Ids
  /\ backup \in Backup
  /\ procs \in [Procs -> Frame]
  /\ made \in 0..MaxJobs /\ tokens \in 0..MaxClaims
  /\ faults \in 0..MaxFaults /\ restores \in 0..MaxRestores
  /\ \A i \in Ids : (jobs[i].status = "running") = (jobs[i].token # 0)

Init ==
  /\ clock = 1
  /\ jobs = NoBackup.jobs /\ archives = NoBackup.archives
  /\ fences = [k \in 0..MaxJobs |-> 0] /\ fenced = {} /\ backup = NoBackup
  /\ procs = [p \in Procs |-> Idle]
  /\ made = 0 /\ tokens = 0 /\ faults = 0 /\ restores = 0

-----------------------------------------------------------------------------
(* Helpers.                                                                *)

Exists(js, i) == js[i].status # "none"

\* getLatestForOwner, 0 when the owner has no job.
IsLatest(l) ==
  /\ l = 0 \/ (l \in Ids /\ Exists(jobs, l))
  /\ \A i \in Ids : Exists(jobs, i) => i <= l

Lapsed(i, now) == jobs[i].status \in Done /\ jobs[i].cursor # 0 /\ jobs[i].cursor <= now

ClaimableOnce(i, now) ==   \* variant: the lease of a running job never runs out
  jobs[i].status \in {"pending", "failed"} /\ jobs[i].runAfter <= now

Claimable(i, now) ==
  \/ jobs[i].status \in {"pending", "failed"} /\ jobs[i].runAfter <= now
  \/ jobs[i].status = "running" /\ jobs[i].claimedAt + Lease <= now

\* The claim a process presents is still the job's.
AnyRunning(i, token) == jobs[i].status = "running"   \* variant: the token is not compared

Holds(i, token) == jobs[i].status = "running" /\ jobs[i].token = token

Alive(p) == clock <= procs[p].now + MaxRun

At(p, step) == procs[p].step = step /\ Alive(p)

\* An invocation that begins.
Begin(step, back, i) == [step |-> step, back |-> back, job |-> i, token |-> 0,
                         now |-> clock, at |-> 0, todo |-> {}]

Goto(p, step) == procs' = [procs EXCEPT ![p].step = step]

\* The job at hand is done with: on with the rest, or the invocation ends.
Resume(p) ==
  procs' = [procs EXCEPT ![p] =
    IF procs[p].back = "idle" THEN Idle
    ELSE [procs[p] EXCEPT !.step = procs[p].back, !.token = 0, !.at = 0]]

Fault == faults < MaxFaults /\ clock <= LastFault /\ faults' = faults + 1

-----------------------------------------------------------------------------
(* The request action and the download route.                              *)

\* requestOwnerDataExportAction: an unfinished latest job is returned as it is;
\* a lapsed one is cleaned up first (getLatestOwnerDataExportJob).
Request(p) ==
  \E l \in 0..MaxJobs :
    /\ p \in Web /\ procs[p].step = "idle" /\ made < MaxJobs
    /\ IsLatest(l)
    /\ l # 0 => jobs[l].status \in Done
    /\ LET lapsed == l # 0 /\ jobs[l].status = "completed" /\ Lapsed(l, clock) IN
       procs' = [procs EXCEPT ![p] =
         Begin(IF lapsed THEN "mark" ELSE "enqueue", "enqueue", l)]
    /\ UNCHANGED <<clock, jobs, archives, fences, fenced, backup, made, tokens, faults, restores>>

\* enqueue: the key is the predecessor's, the loser of the conflict inserts nothing.
InsertAlways(p) ==         \* variant: a key of its own for each request
  /\ At(p, "enqueue") /\ made < MaxJobs
  /\ jobs' = [jobs EXCEPT ![made + 1] =
       [NoJob EXCEPT !.status = "pending", !.key = procs[p].job, !.runAfter = clock]]
  /\ made' = made + 1
  /\ procs' = [procs EXCEPT ![p] = Idle]
  /\ UNCHANGED <<clock, archives, fences, fenced, backup, tokens, faults, restores>>

Enqueue(p) ==
  /\ At(p, "enqueue")
  /\ IF \E i \in Ids : Exists(jobs, i) /\ jobs[i].key = procs[p].job
       THEN UNCHANGED <<jobs, made>>
       ELSE /\ made < MaxJobs
            /\ jobs' = [jobs EXCEPT ![made + 1] =
                 [NoJob EXCEPT !.status = "pending", !.key = procs[p].job, !.runAfter = clock]]
            /\ made' = made + 1
  /\ procs' = [procs EXCEPT ![p] = Idle]
  /\ UNCHANGED <<clock, archives, fences, fenced, backup, tokens, faults, restores>>

\* GET of a completed job whose expiry has passed; any other GET only reads.
Download(p, i) ==
  /\ p \in Web /\ procs[p].step = "idle"
  /\ jobs[i].status = "completed" /\ Lapsed(i, clock)
  /\ procs' = [procs EXCEPT ![p] = Begin("mark", "idle", i)]
  /\ UNCHANGED <<clock, jobs, archives, fences, fenced, backup, made, tokens, faults, restores>>

-----------------------------------------------------------------------------
(* Cleaning up after a lapsed export: the request, the download, the pass. *)

\* markExpired keeps the cursor.  Only the request stops when it is refused.
MarkForgetful(p) ==        \* variant: the cursor is cleared with the status
  /\ At(p, "mark")
  /\ jobs' = [jobs EXCEPT ![procs[p].job] =
       IF Lapsed(procs[p].job, procs[p].now)
         THEN [@ EXCEPT !.status = "expired", !.cursor = 0] ELSE @]
  /\ Goto(p, "delete")
  /\ UNCHANGED <<clock, archives, fences, fenced, backup, made, tokens, faults, restores>>

Mark(p) ==
  /\ At(p, "mark")
  /\ IF Lapsed(procs[p].job, procs[p].now)
       THEN /\ jobs' = [jobs EXCEPT ![procs[p].job].status = "expired"]
            /\ Goto(p, "delete")
       ELSE /\ Goto(p, IF procs[p].back = "enqueue" THEN "enqueue" ELSE "delete")
            /\ UNCHANGED jobs
  /\ UNCHANGED <<clock, archives, fences, fenced, backup, made, tokens, faults, restores>>

\* artifacts.delete, by job id.
Delete(p) ==
  /\ At(p, "delete")
  /\ archives' = [archives EXCEPT ![procs[p].job] = NoArchive]
  /\ Goto(p, "clear")
  /\ UNCHANGED <<clock, jobs, fences, fenced, backup, made, tokens, faults, restores>>

\* markArtifactDeleted.
Clear(p) ==
  /\ At(p, "clear")
  /\ jobs' = [jobs EXCEPT ![procs[p].job] =
       IF @.status = "expired" THEN [@ EXCEPT !.cursor = 0] ELSE @]
  /\ Resume(p)
  /\ UNCHANGED <<clock, archives, fences, fenced, backup, made, tokens, faults, restores>>

\* A cleanup call throws.  The request goes on with what it read, the download
\* goes on to delete when only the mark failed, and the pass gives up.
CleanupFails(p) ==
  /\ \/ /\ At(p, "mark") /\ p \in Web /\ procs[p].back = "idle" /\ Goto(p, "delete")
     \/ /\ procs[p].step \in {"delete", "clear"} /\ Alive(p) /\ p \in Web
        /\ Resume(p)
  /\ Fault
  /\ UNCHANGED <<clock, jobs, archives, fences, fenced, backup, made, tokens, restores>>

-----------------------------------------------------------------------------
(* The worker: a queue consumer's, or the recovery pass's next job.        *)

\* claim, one statement: a fresh token for a job that is due, or whose lease ran out.
TakeClaim(p, i, now, back) ==
  /\ tokens < MaxClaims
  /\ tokens' = tokens + 1
  /\ jobs' = [jobs EXCEPT ![i] =
       [@ EXCEPT !.status = "running", !.claimedAt = now, !.token = tokens + 1]]
  /\ procs' = [procs EXCEPT ![p] =
       [@ EXCEPT !.step = "present", !.back = back, !.job = i, !.token = tokens + 1,
                 !.now = IF back = "idle" THEN clock ELSE procs[p].now]]

\* A pointer may be delivered at any time, again, or never.
Consume(p, i) ==
  /\ p \in Consumers /\ procs[p].step = "idle"
  /\ Claimable(i, clock)
  /\ TakeClaim(p, i, clock, "idle")
  /\ UNCHANGED <<clock, archives, fences, fenced, backup, made, faults, restores>>

StartPass(p) ==
  /\ p \in Passes /\ procs[p].step = "idle"
  /\ procs' = [procs EXCEPT ![p] = Begin("claiming", "idle", 0)]
  /\ UNCHANGED <<clock, jobs, archives, fences, fenced, backup, made, tokens, faults, restores>>

\* claimNext selects the job due first, at the time the pass began.
SelectNext(p) ==
  /\ At(p, "claiming")
  /\ \E i \in Ids :
       /\ Claimable(i, procs[p].now)
       /\ \A k \in Ids : Claimable(k, procs[p].now) => jobs[i].runAfter <= jobs[k].runAfter
       /\ procs' = [procs EXCEPT ![p].step = "claim", ![p].job = i]
  /\ UNCHANGED <<clock, jobs, archives, fences, fenced, backup, made, tokens, faults, restores>>

\* Nothing is due, or the limit of jobs or of time is reached, never before the first.
StopClaiming(p) ==
  /\ At(p, "claiming")
  /\ procs[p].back = "claiming" \/ \A i \in Ids : ~Claimable(i, procs[p].now)
  /\ Goto(p, "list")
  /\ UNCHANGED <<clock, jobs, archives, fences, fenced, backup, made, tokens, faults, restores>>

\* The claim itself; the pass stops claiming when another process got there first.
ClaimNext(p) ==
  /\ At(p, "claim")
  /\ IF Claimable(procs[p].job, procs[p].now)
       THEN TakeClaim(p, procs[p].job, procs[p].now, "claiming")
       ELSE Goto(p, "list") /\ UNCHANGED <<jobs, tokens>>
  /\ UNCHANGED <<clock, archives, fences, fenced, backup, made, faults, restores>>

\* presentedClaim; processJob reads its own clock.
Present(p) ==
  /\ At(p, "present")
  /\ IF Holds(procs[p].job, procs[p].token)
       THEN procs' = [procs EXCEPT ![p].step = "put", ![p].at = clock]
       ELSE Resume(p)
  /\ UNCHANGED <<clock, jobs, archives, fences, fenced, backup, made, tokens, faults, restores>>

\* generate, then artifacts.put: no bytes are written under a lost claim.
PutAny(p) ==               \* variant: the claim is not checked with the upsert
  /\ At(p, "put")
  /\ archives' = [archives EXCEPT ![procs[p].job] =
       [by |-> procs[p].token, expires |-> procs[p].at + Life]]
  /\ Goto(p, "complete")
  /\ UNCHANGED <<clock, jobs, fences, fenced, backup, made, tokens, faults, restores>>

Put(p) ==
  /\ At(p, "put")
  /\ IF Holds(procs[p].job, procs[p].token)
       THEN /\ archives' = [archives EXCEPT ![procs[p].job] =
                 [by |-> procs[p].token, expires |-> procs[p].at + Life]]
            /\ Goto(p, "complete")
       ELSE Resume(p) /\ UNCHANGED archives
  /\ UNCHANGED <<clock, jobs, fences, fenced, backup, made, tokens, faults, restores>>

\* markCompleted.
Complete(p) ==
  /\ At(p, "complete")
  /\ IF Holds(procs[p].job, procs[p].token)
       THEN /\ jobs' = [jobs EXCEPT ![procs[p].job] =
                 [@ EXCEPT !.status = "completed", !.cursor = procs[p].at + Life,
                           !.claimedAt = 0, !.token = 0, !.by = procs[p].token]]
            /\ Goto(p, "fence")
       ELSE Resume(p) /\ UNCHANGED jobs
  /\ UNCHANGED <<clock, archives, fences, fenced, backup, made, tokens, faults, restores>>

\* fenceDelivery, under the job's idempotency key; a failed write is only logged.
FenceDelivery(p) ==
  /\ At(p, "fence")
  /\ fences' = [fences EXCEPT ![jobs[procs[p].job].key] =
       IF @ < procs[p].at THEN procs[p].at ELSE @]
  /\ fenced' = fenced \cup {procs[p].job}
  /\ Resume(p)
  /\ UNCHANGED <<clock, jobs, archives, backup, made, tokens, faults, restores>>

\* generate, put or markCompleted throws, or its answer is lost.
WorkFails(p) ==
  /\ procs[p].step \in {"put", "complete"} /\ Alive(p)
  /\ Goto(p, "fail")
  /\ Fault
  /\ UNCHANGED <<clock, jobs, archives, fences, fenced, backup, made, tokens, restores>>

FenceFails(p) ==
  /\ At(p, "fence")
  /\ Resume(p)
  /\ Fault
  /\ UNCHANGED <<clock, jobs, archives, fences, fenced, backup, made, tokens, restores>>

\* recordFailure: markFailed.
RecordFailure(p) ==
  /\ At(p, "fail")
  /\ jobs' = [jobs EXCEPT ![procs[p].job] =
       IF Holds(procs[p].job, procs[p].token)
         THEN [@ EXCEPT !.status = "failed", !.runAfter = procs[p].at + RetryDelay,
                        !.claimedAt = 0, !.token = 0]
         ELSE @]
  /\ Resume(p)
  /\ UNCHANGED <<clock, archives, fences, fenced, backup, made, tokens, faults, restores>>

-----------------------------------------------------------------------------
(* The pass's expiry sweep.                                                *)

\* listExpired, then one job at a time; the jobs done, deleteExpired.
ListCompleted(p) ==        \* variant: a job marked expired is taken for cleaned up
  /\ At(p, "list")
  /\ procs' = [procs EXCEPT ![p].step = "sweep", ![p].back = "sweep", ![p].todo =
       {i \in Ids : jobs[i].status = "completed" /\ Lapsed(i, procs[p].now)}]
  /\ UNCHANGED <<clock, jobs, archives, fences, fenced, backup, made, tokens, faults, restores>>

ListExpired(p) ==
  /\ At(p, "list")
  /\ procs' = [procs EXCEPT ![p].step = "sweep", ![p].back = "sweep",
                            ![p].todo = {i \in Ids : Lapsed(i, procs[p].now)}]
  /\ UNCHANGED <<clock, jobs, archives, fences, fenced, backup, made, tokens, faults, restores>>

SweepNext(p) ==
  /\ At(p, "sweep")
  /\ \E i \in procs[p].todo :
       procs' = [procs EXCEPT ![p].step = "mark", ![p].job = i, ![p].todo = @ \ {i}]
  /\ UNCHANGED <<clock, jobs, archives, fences, fenced, backup, made, tokens, faults, restores>>

\* deleteExpired: the ids of the lapsed archives are read, then deleted by id.
SelectOrphans(p) ==
  /\ At(p, "sweep") /\ procs[p].todo = {}
  /\ procs' = [procs EXCEPT ![p].step = "purge", ![p].todo =
       {i \in Ids : archives[i].by # 0 /\ archives[i].expires <= procs[p].now}]
  /\ UNCHANGED <<clock, jobs, archives, fences, fenced, backup, made, tokens, faults, restores>>

Purge(p) ==
  /\ At(p, "purge")
  /\ archives' = [i \in Ids |-> IF i \in procs[p].todo THEN NoArchive ELSE archives[i]]
  /\ procs' = [procs EXCEPT ![p] = Idle]
  /\ UNCHANGED <<clock, jobs, fences, fenced, backup, made, tokens, faults, restores>>

-----------------------------------------------------------------------------
(* Crashes, time and restores.                                             *)

Crash(p) ==
  /\ procs[p].step # "idle" /\ Alive(p)
  /\ procs' = [procs EXCEPT ![p] = Idle]
  /\ Fault
  /\ UNCHANGED <<clock, jobs, archives, fences, fenced, backup, made, tokens, restores>>

\* The platform ends an invocation that goes on too long.
TimeOut(p) ==
  /\ procs[p].step # "idle" /\ ~Alive(p)
  /\ procs' = [procs EXCEPT ![p] = Idle]
  /\ UNCHANGED <<clock, jobs, archives, fences, fenced, backup, made, tokens, faults, restores>>

Tick ==
  /\ clock < MaxClock
  /\ clock' = clock + 1
  /\ UNCHANGED <<jobs, archives, fences, fenced, backup, procs, made, tokens, faults, restores>>

SaveBackup ==
  /\ ~backup.saved /\ restores < MaxRestores
  /\ backup' = [saved |-> TRUE, jobs |-> jobs, archives |-> archives]
  /\ UNCHANGED <<clock, jobs, archives, fences, fenced, procs, made, tokens, faults, restores>>

\* markFencedExportJobs: the unfinished rows whose key a fence names are expired as of it.
MarkedRunning(js) ==       \* variant: only the rows a worker had in hand are marked
  [i \in Ids |->
    IF js[i].status = "running" /\ fences[js[i].key] # 0
      THEN [js[i] EXCEPT !.status = "expired", !.cursor = fences[js[i].key],
                         !.claimedAt = 0, !.token = 0]
      ELSE js[i]]

Marked(js) ==
  [i \in Ids |->
    IF js[i].status \in Open /\ fences[js[i].key] # 0
      THEN [js[i] EXCEPT !.status = "expired", !.cursor = fences[js[i].key],
                         !.claimedAt = 0, !.token = 0]
      ELSE js[i]]

\* The procedure runs against its branch, and outbound is held until the swap:
\* production goes on from the marked copy, and no invocation outlives it.
Restore ==
  /\ backup.saved /\ clock <= LastFault
  /\ jobs' = Marked(backup.jobs) /\ archives' = backup.archives
  /\ backup' = NoBackup
  /\ procs' = [p \in Procs |-> Idle]
  /\ restores' = restores + 1
  /\ UNCHANGED <<clock, fences, fenced, made, tokens, faults>>

-----------------------------------------------------------------------------
\* What an invocation does once begun; it never stops for good but by a fault.
Step(p) ==
  \/ Enqueue(p) \/ Mark(p) \/ Delete(p) \/ Clear(p)
  \/ SelectNext(p) \/ StopClaiming(p) \/ ClaimNext(p)
  \/ Present(p) \/ Put(p) \/ Complete(p) \/ FenceDelivery(p) \/ RecordFailure(p)
  \/ ListExpired(p) \/ SweepNext(p) \/ SelectOrphans(p) \/ Purge(p)
  \/ TimeOut(p)

Failure(p) == CleanupFails(p) \/ WorkFails(p) \/ FenceFails(p) \/ Crash(p)

Next ==
  \/ \E p \in Procs :
       \/ Request(p) \/ StartPass(p) \/ Step(p) \/ Failure(p)
       \/ \E i \in Ids : Download(p, i) \/ Consume(p, i)
  \/ Tick \/ SaveBackup \/ Restore

Spec == Init /\ [][Next]_vars

\* The cron begins a pass every so often, and time passes; requests, downloads,
\* queue pointers, failures and restores may never come.
Fairness ==
  /\ WF_vars(Tick)
  /\ \A p \in Procs : WF_vars(Step(p))
  /\ \A p \in Passes : WF_vars(StartPass(p))

FairSpec == Spec /\ Fairness

-----------------------------------------------------------------------------
\* Every export but the latest is over (processor.ts: concurrent requests see
\* the same predecessor and collide on one key): an owner never has two
\* archives of everything they own being made at once.
OneOpenExport ==
  \A i, k \in Ids : Exists(jobs, k) /\ i < k => jobs[i].status \notin Open

\* The bytes of a completed export are those its own claim wrote and expire
\* with it: a worker whose claim was taken over never replaces them.
ArchiveIsTheClaims ==
  \A i \in Ids : jobs[i].status = "completed" /\ archives[i].by # 0 =>
    archives[i].by = jobs[i].by /\ archives[i].expires = jobs[i].cursor

\* The cleanup cursor of an expired export is cleared only once its bytes are
\* gone: an export taken for cleaned up never leaves an archive behind.
CursorOutlivesBytes ==
  \A i \in Ids : jobs[i].status = "expired" /\ archives[i].by # 0 => jobs[i].cursor # 0

\* A row whose delivery was fenced is never open again, whatever instant the
\* database is restored to: no restore repeats a delivered export (ADR 0250).
FencedIsNotRepeated ==
  \A i \in fenced : jobs[i].status \notin Open

\* An export the owner asked for is not left unfinished.
ExportSettles == \A i \in Ids : jobs[i].status \in Open ~> jobs[i].status \notin Open

\* An export past its expiry is cleaned up to the end, its bytes and its cursor,
\* whichever step of an earlier cleanup failed; or a restore has reopened it.
LapsedIsCleanedUp ==
  \A i \in Ids : Lapsed(i, clock) ~>
    (jobs[i].cursor = 0 /\ archives[i].by = 0) \/ jobs[i].status \in Open
=============================================================================
