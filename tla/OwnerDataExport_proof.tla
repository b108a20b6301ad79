----------------------- MODULE OwnerDataExport_proof ------------------------
(***************************************************************************)
(* What OwnerDataExport promises, proved for any number of invocations,    *)
(* any periods and any bounds: one export at a time, bytes that are the    *)
(* completing claim's, no archive left behind by a finished cleanup, and   *)
(* no fenced export run again by a restore.                                *)
(***************************************************************************)
EXTENDS OwnerDataExport, TLAPS

-----------------------------------------------------------------------------
(* The inductive invariant.                                                *)

\* The rows of one copy of the database are a chain: each but the last is over
\* and has the next one's key, so a key not yet taken is the last row's.
Chained(js) ==
  /\ \A i, k \in Ids : Exists(js, k) /\ i < k => js[i].status \notin Open
  /\ \A i, k \in Ids : Exists(js, i) /\ Exists(js, k) /\ i < k =>
       \E m \in Ids : Exists(js, m) /\ js[m].key = i
  /\ (\E k \in Ids : Exists(js, k)) => \E m \in Ids : Exists(js, m) /\ js[m].key = 0

\* Rows and archives of one copy agree.
Agree(js, as) ==
  /\ \A i \in Ids : js[i].status = "expired" /\ js[i].cursor = 0 => as[i].by = 0
  /\ \A i \in Ids : js[i].status = "completed" /\ as[i].by # 0 =>
       as[i].by = js[i].by /\ as[i].expires = js[i].cursor

\* A fenced row is one whose key the fences name.
Fenced(js, fs, fd) == \A i \in fd : Exists(js, i) => fs[js[i].key] # 0

Issued(js, n) == \A i \in Ids : Exists(js, i) => i <= n

DoneRow(js, i) == js[i].status \in Done

Working == {"present", "put", "complete", "fence", "fail"}

Cleaning == {"mark", "delete", "clear"}

\* What an invocation relies on: the job it cleans up or follows is over, its
\* bytes stay deleted, and under its claim no other bytes than its own appear.
FrameFits(f, js, as, tk) ==
  /\ f.back \in {"idle", "enqueue", "claiming", "sweep"}
  /\ f.step \in {"enqueue", "sweep"} => f.back = f.step
  /\ f.back = "enqueue" => f.step \in Cleaning \cup {"enqueue"}
  /\ f.step \in Working \cup Cleaning \cup {"claim"} => f.job \in Ids
  /\ f.token <= tk
  /\ f.step \in Cleaning \cup {"fence"} => DoneRow(js, f.job)
  /\ f.step = "clear" => as[f.job].by = 0
  /\ f.back = "enqueue" /\ f.job # 0 => DoneRow(js, f.job)
  /\ f.back = "sweep" /\ f.step # "purge" => \A i \in f.todo : DoneRow(js, i)
  /\ f.step \in Working \ {"present"} => f.at # 0
  /\ f.step = "complete" /\ js[f.job].status = "running" /\ js[f.job].token = f.token =>
       as[f.job].by = 0 \/ (as[f.job].by = f.token /\ as[f.job].expires = f.at + Life)

FramesFit == \A p \in Procs : FrameFits(procs[p], jobs, archives, tokens)

\* No two invocations hold the same claim.
OwnClaims ==
  \A p, q \in Procs : procs[p].token = procs[q].token /\ p # q => procs[p].token = 0

SameKeys ==
  \A i \in Ids : Exists(jobs, i) /\ Exists(backup.jobs, i) => jobs[i].key = backup.jobs[i].key

RunningHasToken(js) == \A i \in Ids : (js[i].status = "running") = (js[i].token # 0)

\* One copy of the database, told apart from what the invocations are doing.
CopyFits(js, as) ==
  /\ Chained(js) /\ Agree(js, as) /\ Fenced(js, fences, fenced) /\ Issued(js, made)
  /\ RunningHasToken(js)

DataFits ==
  /\ CopyFits(jobs, archives)
  /\ CopyFits(backup.jobs, backup.archives)
  /\ SameKeys
  /\ \A i \in fenced : i <= made
  /\ FencedIsNotRepeated

\* A backup is taken only when a restore is left.
RestoreLeft == backup.saved => restores < MaxRestores

IInv == TypeOK /\ DataFits /\ FramesFit /\ OwnClaims /\ RestoreLeft

-----------------------------------------------------------------------------
(* Invocations.                                                            *)

LEMMA IdleFits ==
  ASSUME NEW js, NEW as, NEW tk \in Nat
  PROVE  Idle \in Frame /\ FrameFits(Idle, js, as, tk)
BY OwnerDataExportAssumption DEF Idle, Frame, Steps, FrameFits, Working, Cleaning

\* What another invocation relies on survives a change that keeps the rows that
\* are over, its deleted bytes, and the bytes under its claim.
LEMMA FrameStable ==
  ASSUME NEW f \in Frame, NEW js, NEW as, NEW js2, NEW as2,
         NEW tk \in Nat, NEW tk2 \in Nat, tk <= tk2,
         FrameFits(f, js, as, tk),
         \A i \in Ids : DoneRow(js, i) => DoneRow(js2, i),
         f.step = "clear" => as2[f.job].by = 0,
         f.step = "complete" /\ js2[f.job].status = "running" /\ js2[f.job].token = f.token =>
           /\ js[f.job].status = "running" /\ js[f.job].token = f.token
           /\ as2[f.job].by = 0 \/ as2[f.job] = as[f.job]
  PROVE  FrameFits(f, js2, as2, tk2)
<1>1. f.job # 0 => f.job \in Ids
  BY OwnerDataExportAssumption DEF Frame, Ids
<1>2. f.token \in Nat
  BY OwnerDataExportAssumption DEF Frame
<1>3. f.todo \subseteq Ids
  BY DEF Frame
<1>4. /\ f.back \in {"idle", "enqueue", "claiming", "sweep"}
      /\ f.step \in {"enqueue", "sweep"} => f.back = f.step
      /\ f.back = "enqueue" => f.step \in Cleaning \cup {"enqueue"}
      /\ f.step \in Working \cup Cleaning \cup {"claim"} => f.job \in Ids
      /\ f.step \in Working \ {"present"} => f.at # 0
      /\ f.token <= tk2
  BY <1>2 DEF FrameFits
<1>5. f.step \in Cleaning \cup {"fence"} => DoneRow(js2, f.job)
  BY DEF FrameFits, Working, Cleaning
<1>6. f.back = "enqueue" /\ f.job # 0 => DoneRow(js2, f.job)
  BY <1>1 DEF FrameFits
<1>7. f.back = "sweep" /\ f.step # "purge" => \A i \in f.todo : DoneRow(js2, i)
  BY <1>3 DEF FrameFits
<1>8. f.step = "complete" /\ js2[f.job].status = "running" /\ js2[f.job].token = f.token =>
        as2[f.job].by = 0 \/ (as2[f.job].by = f.token /\ as2[f.job].expires = f.at + Life)
  BY DEF FrameFits
<1> QED
  BY <1>4, <1>5, <1>6, <1>7, <1>8 DEF FrameFits

\* A frame that goes on after the job at hand relies on no more than before.
Resumed(f) == IF f.back = "idle" THEN Idle ELSE [f EXCEPT !.step = f.back, !.token = 0, !.at = 0]

LEMMA ResumedFits ==
  ASSUME NEW f \in Frame, NEW js, NEW as, NEW tk \in Nat,
         FrameFits(f, js, as, tk), f.step # "purge"
  PROVE  /\ Resumed(f) \in Frame /\ FrameFits(Resumed(f), js, as, tk)
         /\ Resumed(f).token = 0
<1>1. CASE f.back = "idle"
  BY <1>1, IdleFits DEF Resumed, Idle
<1>2. CASE f.back # "idle"
  <2> DEFINE g == [f EXCEPT !.step = f.back, !.token = 0, !.at = 0]
  <2>1. /\ f.back \in Steps /\ f.job \in 0..MaxJobs /\ f.now \in Nat /\ f.todo \in SUBSET Ids
        /\ 0 \in 0..MaxClaims
    BY OwnerDataExportAssumption DEF Frame
  <2>3. /\ g.step = f.back /\ g.back = f.back /\ g.job = f.job
        /\ g.token = 0 /\ g.todo = f.todo
    BY DEF Frame
  <2>4. g \in Frame
    BY <2>1 DEF Frame
  <2> HIDE DEF g
  <2>5. f.back \in {"enqueue", "claiming", "sweep"}
    BY <1>2 DEF FrameFits
  <2>6. g.step \notin Working \cup Cleaning \cup {"claim", "fence", "complete", "clear"}
    BY <2>3, <2>5 DEF Working, Cleaning
  <2>7. g.back = "enqueue" /\ g.job # 0 => DoneRow(js, g.job)
    BY <2>3 DEF FrameFits
  <2>8. g.back = "sweep" => \A i \in g.todo : DoneRow(js, i)
    BY <2>3 DEF FrameFits
  <2>9. FrameFits(g, js, as, tk)
    <3>1. g.token <= tk  BY <2>3
    <3>2. g.step \notin {"fence", "clear", "complete"} /\ g.step \notin Working
          /\ g.step \notin Cleaning /\ g.step # "claim"
      BY <2>6
    <3> QED  BY <2>3, <2>5, <2>7, <2>8, <3>1, <3>2 DEF FrameFits
  <2> QED  BY <1>2, <2>3, <2>4, <2>9 DEF Resumed, g
<1> QED  BY <1>1, <1>2

LEMMA ResumeIsResumed ==
  ASSUME NEW p \in Procs, Resume(p), procs \in [Procs -> Frame]
  PROVE  procs' = [procs EXCEPT ![p] = Resumed(procs[p])]
BY DEF Resume, Resumed

\* One invocation moves: the others' frames are untouched, and a claim it comes
\* to hold is its own or new.
LEMMA OneMoves ==
  ASSUME procs \in [Procs -> Frame], OwnClaims, FramesFit, tokens \in Nat,
         NEW p \in Procs, NEW f \in Frame, procs' = [procs EXCEPT ![p] = f],
         FrameFits(f, jobs', archives', tokens'),
         f.token \in {0, procs[p].token} \/ f.token = tokens + 1,
         \A q \in Procs \ {p} : FrameFits(procs[q], jobs', archives', tokens')
  PROVE  procs' \in [Procs -> Frame] /\ FramesFit' /\ OwnClaims'
<1>1. procs' \in [Procs -> Frame]
  OBVIOUS
<1>2. FramesFit'
  BY DEF FramesFit
<1>3. \A q \in Procs : procs[q].token \in Nat /\ procs[q].token <= tokens
  BY OwnerDataExportAssumption DEF FramesFit, FrameFits, Frame
<1>4. OwnClaims'
  BY <1>3 DEF OwnClaims
<1> QED  BY <1>1, <1>2, <1>4

\* Nothing but one invocation's own state changes.
LEMMA OnlyFrame ==
  ASSUME IInv, NEW p \in Procs, NEW f \in Frame, procs' = [procs EXCEPT ![p] = f],
         FrameFits(f, jobs, archives, tokens), f.token \in {0, procs[p].token},
         faults' \in 0..MaxFaults,
         UNCHANGED <<clock, jobs, archives, fences, fenced, backup, made, tokens, restores>>
  PROVE  IInv'
<1>1. procs' \in [Procs -> Frame] /\ FramesFit' /\ OwnClaims'
  <2>1. tokens \in Nat  BY OwnerDataExportAssumption DEF IInv, TypeOK
  <2>2. \A q \in Procs \ {p} : FrameFits(procs[q], jobs', archives', tokens')
    BY DEF IInv, FramesFit
  <2>3. FrameFits(f, jobs', archives', tokens')  OBVIOUS
  <2> QED  BY <2>1, <2>2, <2>3, OneMoves DEF IInv, TypeOK
<1>2. TypeOK'
  BY <1>1 DEF IInv, TypeOK
<1>3. DataFits'
  BY DEF IInv, DataFits, CopyFits, FencedIsNotRepeated, SameKeys, Chained, Agree, Fenced,
         Issued, RunningHasToken
<1>4. RestoreLeft'
  BY DEF IInv, RestoreLeft
<1> QED  BY <1>1, <1>2, <1>3, <1>4 DEF IInv

\* An invocation goes on to its next step, if it may rely on what that step needs.
LEMMA Advance ==
  ASSUME NEW f \in Frame, NEW js, NEW as, NEW tk \in Nat, NEW step \in Steps,
         FrameFits(f, js, as, tk), f.step # "purge",
         step \in {"enqueue", "sweep"} => f.back = step,
         f.back = "enqueue" => step \in Cleaning \cup {"enqueue"},
         step \in Working \cup Cleaning \cup {"claim"} => f.job \in Ids,
         step \in Cleaning \cup {"fence"} => DoneRow(js, f.job),
         step = "clear" => as[f.job].by = 0,
         step \in Working \ {"present"} => f.at # 0,
         step = "complete" /\ js[f.job].status = "running" /\ js[f.job].token = f.token =>
           as[f.job].by = 0 \/ (as[f.job].by = f.token /\ as[f.job].expires = f.at + Life)
  PROVE  /\ [f EXCEPT !.step = step] \in Frame
         /\ FrameFits([f EXCEPT !.step = step], js, as, tk)
         /\ [f EXCEPT !.step = step].token = f.token
<1> DEFINE g == [f EXCEPT !.step = step]
<1>1. /\ g.step = step /\ g.back = f.back /\ g.job = f.job /\ g.token = f.token
      /\ g.at = f.at /\ g.todo = f.todo
  BY DEF Frame
<1>2. g \in Frame
  BY DEF Frame
<1> HIDE DEF g
<1>3. /\ g.back \in {"idle", "enqueue", "claiming", "sweep"} /\ g.token <= tk
      /\ g.back = "enqueue" /\ g.job # 0 => DoneRow(js, g.job)
      /\ g.back = "sweep" => \A i \in g.todo : DoneRow(js, i)
  BY <1>1 DEF FrameFits
<1>4. FrameFits(g, js, as, tk)
  BY <1>1, <1>3 DEF FrameFits
<1> QED  BY <1>1, <1>2, <1>4 DEF g

-----------------------------------------------------------------------------
(* The steps that change an invocation and nothing else.                   *)

\* What IInv says of the invocation at hand.
LEMMA Own ==
  ASSUME IInv, NEW p \in Procs
  PROVE  /\ procs \in [Procs -> Frame] /\ procs[p] \in Frame
         /\ FrameFits(procs[p], jobs, archives, tokens)
         /\ tokens \in Nat /\ clock \in Nat \ {0} /\ faults \in 0..MaxFaults
BY OwnerDataExportAssumption DEF IInv, TypeOK, FramesFit

LEMMA FaultCounted ==
  ASSUME IInv, Fault  PROVE faults' \in 0..MaxFaults
BY OwnerDataExportAssumption DEF IInv, TypeOK, Fault

\* A job at hand is given up, or done with, without a change to the database.
LEMMA ResumeKeeps ==
  ASSUME IInv, NEW p \in Procs, Resume(p), procs[p].step # "purge", faults' \in 0..MaxFaults,
         UNCHANGED <<clock, jobs, archives, fences, fenced, backup, made, tokens, restores>>
  PROVE  IInv'
BY Own, ResumedFits, ResumeIsResumed, OnlyFrame

\* The invocation ends.
LEMMA EndKeeps ==
  ASSUME IInv, NEW p \in Procs, procs' = [procs EXCEPT ![p] = Idle], faults' \in 0..MaxFaults,
         UNCHANGED <<clock, jobs, archives, fences, fenced, backup, made, tokens, restores>>
  PROVE  IInv'
<1>1. Idle.token = 0  BY DEF Idle
<1> QED  BY <1>1, Own, IdleFits, OnlyFrame

\* The invocation goes on to a step that needs nothing more.
LEMMA GotoKeeps ==
  ASSUME IInv, NEW p \in Procs, NEW step \in Steps, Goto(p, step), procs[p].step # "purge",
         step \notin Working \cup Cleaning \cup {"claim", "enqueue", "sweep"},
         procs[p].back # "enqueue",
         faults' \in 0..MaxFaults,
         UNCHANGED <<clock, jobs, archives, fences, fenced, backup, made, tokens, restores>>
  PROVE  IInv'
<1>1. step \notin {"fence", "clear", "complete"}  BY DEF Working, Cleaning
<1>2. /\ [procs[p] EXCEPT !.step = step] \in Frame
      /\ FrameFits([procs[p] EXCEPT !.step = step], jobs, archives, tokens)
      /\ [procs[p] EXCEPT !.step = step].token = procs[p].token
  BY <1>1, Own, Advance
<1>3. procs' = [procs EXCEPT ![p] = [procs[p] EXCEPT !.step = step]]
  BY Own DEF Goto
<1> QED  BY <1>2, <1>3, Own, OnlyFrame

\* A web invocation begins with a job that is over, or with none.
LEMMA WebBegins ==
  ASSUME IInv, NEW l \in 0..MaxJobs, NEW step \in {"mark", "enqueue"},
         NEW back \in {"idle", "enqueue"},
         l # 0 => DoneRow(jobs, l), step = "mark" => l # 0,
         step = "enqueue" => back = "enqueue", NEW f, f = Begin(step, back, l)
  PROVE  f \in Frame /\ f.token = 0 /\ FrameFits(f, jobs, archives, tokens)
<1>1. f = [step |-> step, back |-> back, job |-> l, token |-> 0,
           now |-> clock, at |-> 0, todo |-> {}]
  BY DEF Begin
<1>2. clock \in Nat /\ tokens \in Nat
  BY OwnerDataExportAssumption DEF IInv, TypeOK
<1>3. f \in Frame
  BY <1>1, <1>2, OwnerDataExportAssumption DEF Frame, Steps
<1>4. l # 0 => l \in Ids
  BY OwnerDataExportAssumption DEF Ids
<1>5. /\ f.step = step /\ f.back = back /\ f.job = l /\ f.token = 0 /\ f.todo = {}
  BY <1>1
<1>6. /\ f.step \in Working \cup Cleaning \cup {"claim"} => f.job \in Ids
      /\ f.step \in Cleaning \cup {"fence"} => DoneRow(jobs, f.job)
      /\ f.step \notin {"clear", "complete", "sweep"} /\ f.step \notin Working
      /\ f.step \in Cleaning \cup {"enqueue"}
  BY <1>4, <1>5 DEF Working, Cleaning
<1>7. f.back = "enqueue" /\ f.job # 0 => DoneRow(jobs, f.job)
  BY <1>5
<1>8. FrameFits(f, jobs, archives, tokens)
  BY <1>2, <1>5, <1>6, <1>7 DEF FrameFits
<1> QED  BY <1>3, <1>5, <1>8

LEMMA RequestKeeps ==
  ASSUME IInv, NEW p \in Procs, Request(p)  PROVE IInv'
<1> DEFINE step(l) == IF l # 0 /\ jobs[l].status = "completed" /\ Lapsed(l, clock)
                      THEN "mark" ELSE "enqueue"
           f(l) == Begin(step(l), "enqueue", l)
<1>1. PICK l \in 0..MaxJobs :
        /\ l # 0 => jobs[l].status \in Done
        /\ procs' = [procs EXCEPT ![p] = f(l)]
        /\ UNCHANGED <<clock, jobs, archives, fences, fenced, backup, made, tokens, faults, restores>>
  BY DEF Request
<1>2. f(l) \in Frame /\ f(l).token = 0 /\ FrameFits(f(l), jobs, archives, tokens)
  <2>1. step(l) \in {"mark", "enqueue"} /\ (step(l) = "mark" => l # 0)  OBVIOUS
  <2> HIDE DEF step
  <2> QED  BY <1>1, <2>1, WebBegins DEF DoneRow
<1>3. faults' \in 0..MaxFaults  BY <1>1, Own
<1> QED  BY <1>1, <1>2, <1>3, OnlyFrame

LEMMA DownloadKeeps ==
  ASSUME IInv, NEW p \in Procs, NEW i \in Ids, Download(p, i)  PROVE IInv'
<1> DEFINE f == Begin("mark", "idle", i)
<1>2. i \in 0..MaxJobs /\ i # 0 /\ DoneRow(jobs, i)
  BY OwnerDataExportAssumption DEF Ids, Download, Done, DoneRow
<1>3. f \in Frame /\ f.token = 0 /\ FrameFits(f, jobs, archives, tokens)
  BY <1>2, WebBegins
<1>4. procs' = [procs EXCEPT ![p] = f]  BY DEF Download
<1>5. faults' \in 0..MaxFaults  BY Own DEF Download
<1> QED  BY <1>3, <1>4, <1>5, OnlyFrame DEF Download

LEMMA StartPassKeeps ==
  ASSUME IInv, NEW p \in Procs, StartPass(p)  PROVE IInv'
<1> DEFINE f == Begin("claiming", "idle", 0)
<1>1. f.token = 0 /\ f \in Frame
  BY Own, OwnerDataExportAssumption DEF Begin, Frame, Steps
<1>2. FrameFits(f, jobs, archives, tokens)
  BY Own DEF Begin, FrameFits, Working, Cleaning
<1>3. faults' \in 0..MaxFaults  BY Own DEF StartPass
<1> QED  BY <1>1, <1>2, <1>3, OnlyFrame DEF StartPass

LEMMA SelectNextKeeps ==
  ASSUME IInv, NEW p \in Procs, SelectNext(p)  PROVE IInv'
<1>1. PICK i \in Ids : procs' = [procs EXCEPT ![p].step = "claim", ![p].job = i]
  BY DEF SelectNext
<1> DEFINE f == [procs[p] EXCEPT !.step = "claim", !.job = i]
<1>2. procs[p] \in Frame /\ procs[p].step = "claiming" /\ i \in 0..MaxJobs /\ i \in Ids
      /\ FrameFits(procs[p], jobs, archives, tokens)
  BY Own, OwnerDataExportAssumption DEF SelectNext, At, Ids
<1>3. /\ f.step = "claim" /\ f.job = i /\ f.back = procs[p].back /\ f.token = procs[p].token
      /\ f.todo = procs[p].todo
  BY <1>2 DEF Frame
<1>4. f \in Frame
  BY <1>2 DEF Frame, Steps
<1>5. procs' = [procs EXCEPT ![p] = f]
  BY <1>1, Own
<1> HIDE DEF f
<1>6. f.back \in {"idle", "claiming", "sweep"} /\ f.token <= tokens
  BY <1>2, <1>3 DEF FrameFits, Cleaning
<1>7. f.back = "sweep" => \A k \in f.todo : DoneRow(jobs, k)
  BY <1>2, <1>3 DEF FrameFits
<1>8. FrameFits(f, jobs, archives, tokens)
  BY <1>2, <1>3, <1>6, <1>7 DEF FrameFits, Working, Cleaning
<1>9. faults' \in 0..MaxFaults  BY Own DEF SelectNext
<1> QED  BY <1>3, <1>4, <1>5, <1>8, <1>9, OnlyFrame DEF SelectNext

LEMMA StopClaimingKeeps ==
  ASSUME IInv, NEW p \in Procs, StopClaiming(p)  PROVE IInv'
<1>1. procs[p].step = "claiming" /\ procs[p].back # "enqueue"
  BY Own DEF StopClaiming, At, FrameFits, Cleaning
<1>2. "list" \in Steps \ (Working \cup Cleaning \cup {"claim", "enqueue", "sweep"})
  BY DEF Steps, Working, Cleaning
<1>3. faults' \in 0..MaxFaults  BY Own DEF StopClaiming
<1> QED  BY <1>1, <1>2, <1>3, GotoKeeps DEF StopClaiming

LEMMA PresentKeeps ==
  ASSUME IInv, NEW p \in Procs, Present(p)  PROVE IInv'
<1>1. /\ procs[p] \in Frame /\ procs[p].step = "present"
      /\ FrameFits(procs[p], jobs, archives, tokens) /\ clock \in Nat \ {0}
  BY Own DEF Present, At
<1>2. faults' \in 0..MaxFaults  BY Own DEF Present
<1>3. CASE Resume(p)
  BY <1>1, <1>2, <1>3, ResumeKeeps DEF Present
<1>4. CASE procs' = [procs EXCEPT ![p].step = "put", ![p].at = clock]
  <2> DEFINE f == [procs[p] EXCEPT !.step = "put", !.at = clock]
  <2>1. /\ f.step = "put" /\ f.job = procs[p].job /\ f.back = procs[p].back
        /\ f.token = procs[p].token /\ f.todo = procs[p].todo /\ f.at = clock
    BY <1>1 DEF Frame
  <2>2. f \in Frame
    BY <1>1 DEF Frame, Steps
  <2>3. procs' = [procs EXCEPT ![p] = f]
    BY <1>4, Own
  <2> HIDE DEF f
  <2>4. /\ f.back \in {"idle", "claiming", "sweep"} /\ f.token <= tokens /\ f.job \in Ids
    BY <1>1, <2>1 DEF FrameFits, Cleaning, Working
  <2>5. f.back = "sweep" => \A k \in f.todo : DoneRow(jobs, k)
    BY <1>1, <2>1 DEF FrameFits
  <2>6. FrameFits(f, jobs, archives, tokens)
    BY <1>1, <2>1, <2>4, <2>5 DEF FrameFits, Working, Cleaning
  <2> QED  BY <1>2, <2>1, <2>2, <2>3, <2>6, OnlyFrame DEF Present
<1> QED  BY <1>3, <1>4 DEF Present

\* The frame of a pass that sweeps: what it is to clean up next, or purge.
LEMMA SweepKeeps ==
  ASSUME IInv, NEW p \in Procs, NEW f \in Frame, procs' = [procs EXCEPT ![p] = f],
         f.back = "sweep", f.step \in {"sweep", "mark", "purge"}, f.token = procs[p].token,
         f.step # "purge" => \A k \in f.todo : DoneRow(jobs, k),
         f.step = "mark" => f.job \in Ids /\ DoneRow(jobs, f.job),
         UNCHANGED <<clock, jobs, archives, fences, fenced, backup, made, tokens, faults, restores>>
  PROVE  IInv'
<1>1. f.token <= tokens /\ faults' \in 0..MaxFaults
  BY Own DEF FrameFits
<1>2. FrameFits(f, jobs, archives, tokens)
  BY <1>1 DEF FrameFits, Working, Cleaning
<1> QED  BY <1>1, <1>2, OnlyFrame

LEMMA ListExpiredKeeps ==
  ASSUME IInv, NEW p \in Procs, ListExpired(p)  PROVE IInv'
<1> DEFINE todo == {i \in Ids : Lapsed(i, procs[p].now)}
           f == [procs[p] EXCEPT !.step = "sweep", !.back = "sweep", !.todo = todo]
<1>1. /\ f.step = "sweep" /\ f.back = "sweep" /\ f.todo = todo /\ f.token = procs[p].token
      /\ f \in Frame
  BY Own DEF Frame, Steps
<1>2. \A k \in todo : DoneRow(jobs, k)
  BY DEF Lapsed, DoneRow
<1>3. procs' = [procs EXCEPT ![p] = f]
  BY Own DEF ListExpired
<1> HIDE DEF f
<1> QED  BY <1>1, <1>2, <1>3, SweepKeeps DEF ListExpired

LEMMA SweepNextKeeps ==
  ASSUME IInv, NEW p \in Procs, SweepNext(p)  PROVE IInv'
<1>1. PICK i \in procs[p].todo :
        procs' = [procs EXCEPT ![p].step = "mark", ![p].job = i, ![p].todo = @ \ {i}]
  BY DEF SweepNext
<1> DEFINE f == [procs[p] EXCEPT !.step = "mark", !.job = i, !.todo = @ \ {i}]
<1>2. /\ procs[p] \in Frame /\ procs[p].step = "sweep" /\ procs[p].back = "sweep"
      /\ \A k \in procs[p].todo : DoneRow(jobs, k)
  BY Own DEF SweepNext, At, FrameFits
<1>3. i \in Ids /\ i \in 0..MaxJobs
  BY <1>1, <1>2, OwnerDataExportAssumption DEF Frame, Ids
<1>4. /\ f.step = "mark" /\ f.back = "sweep" /\ f.job = i /\ f.todo = procs[p].todo \ {i}
      /\ f.token = procs[p].token
  BY <1>2 DEF Frame
<1>5. f \in Frame
  BY <1>2, <1>3 DEF Frame, Steps
<1>6. procs' = [procs EXCEPT ![p] = f]
  BY <1>1, Own
<1> HIDE DEF f
<1> QED  BY <1>1, <1>2, <1>3, <1>4, <1>5, <1>6, SweepKeeps DEF SweepNext

LEMMA SelectOrphansKeeps ==
  ASSUME IInv, NEW p \in Procs, SelectOrphans(p)  PROVE IInv'
<1> DEFINE todo == {i \in Ids : archives[i].by # 0 /\ archives[i].expires <= procs[p].now}
           f == [procs[p] EXCEPT !.step = "purge", !.todo = todo]
<1>1. procs[p] \in Frame /\ procs[p].back = "sweep"
  BY Own DEF SelectOrphans, At, FrameFits
<1>2. /\ f.step = "purge" /\ f.back = "sweep" /\ f.token = procs[p].token /\ f \in Frame
  BY <1>1 DEF Frame, Steps
<1>3. procs' = [procs EXCEPT ![p] = f]
  BY Own DEF SelectOrphans
<1> HIDE DEF f
<1> QED  BY <1>2, <1>3, SweepKeeps DEF SelectOrphans

LEMMA WorkFailsKeeps ==
  ASSUME IInv, NEW p \in Procs, WorkFails(p)  PROVE IInv'
<1> DEFINE f == [procs[p] EXCEPT !.step = "fail"]
<1>1. /\ procs[p] \in Frame /\ procs[p].step \in {"put", "complete"}
      /\ FrameFits(procs[p], jobs, archives, tokens)
  BY Own DEF WorkFails
<1>2. procs[p].job \in Ids /\ procs[p].at # 0 /\ procs[p].back # "enqueue"
  BY <1>1 DEF FrameFits, Working, Cleaning
<1>3. "fail" \in Steps /\ "fail" \notin Cleaning
  BY DEF Steps, Cleaning
<1>4. f \in Frame /\ FrameFits(f, jobs, archives, tokens) /\ f.token = procs[p].token
  BY <1>1, <1>2, <1>3, Own, Advance
<1>5. procs' = [procs EXCEPT ![p] = f]
  BY Own DEF WorkFails, Goto
<1>6. faults' \in 0..MaxFaults  BY FaultCounted DEF WorkFails
<1> QED  BY <1>4, <1>5, <1>6, OnlyFrame DEF WorkFails

LEMMA CleanupFailsKeeps ==
  ASSUME IInv, NEW p \in Procs, CleanupFails(p)  PROVE IInv'
<1>1. faults' \in 0..MaxFaults  BY FaultCounted DEF CleanupFails
<1>2. CASE procs[p].step \in {"delete", "clear"} /\ Resume(p)
  BY <1>1, <1>2, ResumeKeeps DEF CleanupFails
<1>3. CASE procs[p].step = "mark" /\ procs[p].back = "idle" /\ Goto(p, "delete")
  <2> DEFINE f == [procs[p] EXCEPT !.step = "delete"]
  <2>1. procs[p].job \in Ids /\ DoneRow(jobs, procs[p].job)
    BY <1>3, Own DEF FrameFits, Cleaning
  <2>2. "delete" \in Steps /\ "delete" \notin Working
    BY DEF Steps, Working
  <2>3. f \in Frame /\ FrameFits(f, jobs, archives, tokens) /\ f.token = procs[p].token
    BY <1>3, <2>1, <2>2, Own, Advance
  <2>4. procs' = [procs EXCEPT ![p] = f]
    BY <1>3, Own DEF Goto
  <2> QED  BY <1>1, <2>3, <2>4, OnlyFrame DEF CleanupFails
<1> QED  BY <1>2, <1>3 DEF CleanupFails, At

\* The failures and ends that leave the database as it is.
LEMMA EndsKeep ==
  ASSUME IInv, NEW p \in Procs, FenceFails(p) \/ Crash(p) \/ TimeOut(p)  PROVE IInv'
<1>1. CASE FenceFails(p)
  <2>1. faults' \in 0..MaxFaults  BY <1>1, FaultCounted DEF FenceFails
  <2> QED  BY <1>1, <2>1, ResumeKeeps DEF FenceFails, At
<1>2. CASE Crash(p)
  <2>1. faults' \in 0..MaxFaults  BY <1>2, FaultCounted DEF Crash
  <2> QED  BY <1>2, <2>1, EndKeeps DEF Crash
<1>3. CASE TimeOut(p)
  <2>1. faults' \in 0..MaxFaults  BY <1>3, Own DEF TimeOut
  <2> QED  BY <1>3, <2>1, EndKeeps DEF TimeOut
<1> QED  BY <1>1, <1>2, <1>3

-----------------------------------------------------------------------------
(* The steps that change a row.                                            *)

\* A row that changes keeps its key, stays over once it is, and agrees with its
\* archive: the copy is as well formed as it was.
LEMMA RowChanges ==
  ASSUME IInv, NEW i \in Ids, NEW r \in Job, jobs' = [jobs EXCEPT ![i] = r],
         Exists(jobs, i), r.status # "none", r.key = jobs[i].key,
         DoneRow(jobs, i) => r.status \in Done,
         (r.status = "running") = (r.token # 0),
         r.status = "expired" /\ r.cursor = 0 => archives[i].by = 0,
         r.status = "completed" /\ archives[i].by # 0 =>
           archives[i].by = r.by /\ archives[i].expires = r.cursor,
         UNCHANGED <<archives, fences, fenced, backup, made>>
  PROVE  /\ DataFits' /\ jobs' \in [Ids -> Job] /\ RunningHasToken(jobs)'
         /\ \A k \in Ids : DoneRow(jobs, k) => DoneRow(jobs', k)
<1>1. /\ jobs \in [Ids -> Job] /\ CopyFits(jobs, archives) /\ CopyFits(backup.jobs, backup.archives)
      /\ SameKeys /\ FencedIsNotRepeated /\ \A k \in fenced : k <= made
      /\ fenced \subseteq Ids
  BY DEF IInv, TypeOK, DataFits
<1>2. /\ jobs' \in [Ids -> Job] /\ jobs'[i] = r
      /\ \A k \in Ids : k # i => jobs'[k] = jobs[k]
  BY <1>1
<1>3. \A k \in Ids : (Exists(jobs', k) <=> Exists(jobs, k)) /\ jobs'[k].key = jobs[k].key
  BY <1>2 DEF Exists
<1>4. \A k \in Ids : DoneRow(jobs, k) => DoneRow(jobs', k)
  BY <1>2 DEF DoneRow
<1>5. \A k \in Ids : Exists(jobs, k) /\ jobs[k].status \notin Open => jobs'[k].status \notin Open
  <2>1. \A k \in Ids : Exists(jobs, k) /\ jobs[k].status \notin Open => DoneRow(jobs, k)
    BY <1>1 DEF Exists, DoneRow, Job, Statuses, Open, Done
  <2> QED  BY <2>1, <1>4 DEF DoneRow, Open, Done
<1>6. \A k \in Ids : ~Exists(jobs, k) => jobs'[k].status \notin Open
  BY <1>3 DEF Exists, Open
<1>7. Chained(jobs')
  <2>1. \A k, m \in Ids : Exists(jobs', m) /\ k < m => jobs'[k].status \notin Open
    BY <1>1, <1>3, <1>5, <1>6 DEF CopyFits, Chained
  <2>2. \A k, m \in Ids : Exists(jobs', k) /\ Exists(jobs', m) /\ k < m =>
          \E n \in Ids : Exists(jobs', n) /\ jobs'[n].key = k
    BY <1>1, <1>3 DEF CopyFits, Chained
  <2>3. (\E k \in Ids : Exists(jobs', k)) => \E n \in Ids : Exists(jobs', n) /\ jobs'[n].key = 0
    BY <1>1, <1>3 DEF CopyFits, Chained
  <2> QED  BY <2>1, <2>2, <2>3 DEF Chained
<1>8. Agree(jobs', archives')
  BY <1>1, <1>2 DEF CopyFits, Agree
<1>9. Fenced(jobs', fences', fenced') /\ Issued(jobs', made')
  BY <1>1, <1>3 DEF CopyFits, Fenced, Issued
<1>10. RunningHasToken(jobs')
  BY <1>1, <1>2 DEF CopyFits, RunningHasToken
<1>11. FencedIsNotRepeated'
  BY <1>1, <1>5, <1>6 DEF FencedIsNotRepeated
<1>12. SameKeys'
  BY <1>1, <1>3 DEF SameKeys
<1>13. CopyFits(jobs, archives)' /\ CopyFits(backup.jobs, backup.archives)'
  <2>1. Chained(jobs)'  BY <1>7 DEF Chained
  <2>2. Agree(jobs, archives)'  BY <1>8 DEF Agree
  <2>3. Fenced(jobs, fences, fenced)' /\ Issued(jobs, made)'  BY <1>9 DEF Fenced, Issued
  <2>4. RunningHasToken(jobs)'  BY <1>10 DEF RunningHasToken
  <2>5. CopyFits(backup.jobs, backup.archives)'
    BY <1>1 DEF CopyFits, Fenced, Issued, Chained, Agree, RunningHasToken
  <2> QED  BY <2>1, <2>2, <2>3, <2>4, <2>5 DEF CopyFits
<1>14. DataFits'
  BY <1>1, <1>11, <1>12, <1>13 DEF DataFits
<1> QED  BY <1>2, <1>4, <1>10, <1>14 DEF RunningHasToken

\* The row of the job at hand changes, and the invocation that changes it moves
\* on: enough that no claim that was lost becomes a claim again.
LEMMA RowStep ==
  ASSUME IInv, NEW i \in Ids, NEW r \in Job, jobs' = [jobs EXCEPT ![i] = r],
         DataFits', jobs' \in [Ids -> Job], RunningHasToken(jobs)',
         \A k \in Ids : DoneRow(jobs, k) => DoneRow(jobs', k),
         NEW p \in Procs, NEW f \in Frame, procs' = [procs EXCEPT ![p] = f],
         FrameFits(f, jobs', archives, tokens'), tokens' \in 0..MaxClaims, tokens <= tokens',
         f.token \in {0, procs[p].token} \/ f.token = tokens + 1,
         r.status = "running" => r.token = tokens + 1,
         UNCHANGED <<clock, archives, fences, fenced, backup, made, faults, restores>>
  PROVE  IInv'
<1>1. /\ procs \in [Procs -> Frame] /\ OwnClaims /\ FramesFit
      /\ tokens \in Nat /\ tokens' \in Nat /\ jobs \in [Ids -> Job]
  BY OwnerDataExportAssumption DEF IInv, TypeOK
<1>2. ASSUME NEW q \in Procs \ {p}
      PROVE  FrameFits(procs[q], jobs', archives', tokens')
  <2>1. /\ procs[q] \in Frame /\ FrameFits(procs[q], jobs, archives, tokens)
        /\ procs[q].token \in Nat /\ procs[q].token <= tokens
    BY <1>1, OwnerDataExportAssumption DEF FramesFit, FrameFits, Frame
  <2>2. procs[q].step = "clear" => archives'[procs[q].job].by = 0
    BY <2>1 DEF FrameFits
  <2>3. ASSUME procs[q].step = "complete", jobs'[procs[q].job].status = "running",
               jobs'[procs[q].job].token = procs[q].token
        PROVE  /\ jobs[procs[q].job].status = "running"
               /\ jobs[procs[q].job].token = procs[q].token
               /\ archives'[procs[q].job] = archives[procs[q].job]
    <3>1. procs[q].job \in Ids  BY <2>1, <2>3 DEF FrameFits, Working
    <3>2. procs[q].job # i
      BY <1>1, <2>1, <2>3
    <3> QED  BY <1>1, <2>3, <3>1, <3>2
  <2> QED  BY <1>1, <2>1, <2>2, <2>3, FrameStable
<1>3. FrameFits(f, jobs', archives', tokens')
  OBVIOUS
<1>4. procs' \in [Procs -> Frame] /\ FramesFit' /\ OwnClaims'
  BY <1>1, <1>2, <1>3, OneMoves
<1>5. TypeOK'
  BY <1>4 DEF IInv, TypeOK, RunningHasToken
<1>6. RestoreLeft'
  BY DEF IInv, RestoreLeft
<1> QED  BY <1>4, <1>5, <1>6 DEF IInv

\* The row of the job at hand is no longer running: the invocation itself may
\* still rely on what it did.
LEMMA RowSettles ==
  ASSUME IInv, NEW p \in Procs, NEW i \in Ids, NEW r \in Job, jobs' = [jobs EXCEPT ![i] = r],
         r.status # "running", jobs \in [Ids -> Job],
         \A k \in Ids : DoneRow(jobs, k) => DoneRow(jobs', k)
  PROVE  FrameFits(procs[p], jobs', archives, tokens)
<1>1. /\ procs[p] \in Frame /\ FrameFits(procs[p], jobs, archives, tokens) /\ tokens \in Nat
  BY Own
<1>2. procs[p].step = "clear" => archives[procs[p].job].by = 0
  BY <1>1 DEF FrameFits
<1>3. ASSUME procs[p].step = "complete", jobs'[procs[p].job].status = "running",
             jobs'[procs[p].job].token = procs[p].token
      PROVE  jobs[procs[p].job].status = "running" /\ jobs[procs[p].job].token = procs[p].token
  <2>1. procs[p].job \in Ids  BY <1>1, <1>3 DEF FrameFits, Working
  <2>2. procs[p].job # i  BY <1>3
  <2> QED  BY <1>3, <2>1, <2>2
<1>4. tokens <= tokens /\ archives[procs[p].job] = archives[procs[p].job]
  BY <1>1
<1> QED  BY <1>1, <1>2, <1>3, <1>4, FrameStable

LEMMA MarkKeeps ==
  ASSUME IInv, NEW p \in Procs, Mark(p)  PROVE IInv'
<1> DEFINE j == procs[p].job
           r == [jobs[j] EXCEPT !.status = "expired"]
           f(step) == [procs[p] EXCEPT !.step = step]
<1>1. /\ procs[p] \in Frame /\ procs[p].step = "mark" /\ procs[p].step # "purge"
      /\ FrameFits(procs[p], jobs, archives, tokens) /\ tokens \in Nat
      /\ j \in Ids /\ DoneRow(jobs, j) /\ faults \in 0..MaxFaults
  BY Own DEF Mark, At, FrameFits, Cleaning
<1>2. "delete" \in Steps /\ "delete" \in Cleaning /\ "enqueue" \in Steps
      /\ "delete" \notin Working /\ "enqueue" \notin Working \cup Cleaning
  BY DEF Steps, Working, Cleaning
<1>3. CASE Lapsed(j, procs[p].now)
  <2>1. jobs[j] \in Job /\ jobs \in [Ids -> Job]
    BY <1>1 DEF IInv, TypeOK
  <2>2. jobs[j].token = 0 /\ jobs[j].cursor # 0
    BY <1>1, <1>3, <2>1 DEF IInv, TypeOK, Lapsed, Done
  <2>3. /\ r \in Job /\ r.status = "expired" /\ r.key = jobs[j].key /\ r.cursor = jobs[j].cursor
        /\ r.token = 0
    BY <2>1, <2>2 DEF Job, Statuses
  <2>4. jobs' = [jobs EXCEPT ![j] = r]
    BY <1>3, <2>1 DEF Mark
  <2>5. Exists(jobs, j)  BY <1>1 DEF DoneRow, Done, Exists
  <2> HIDE DEF r
  <2>6. UNCHANGED <<clock, archives, fences, fenced, backup, made, tokens, faults, restores>>
    BY DEF Mark
  <2>7. r.status # "none" /\ r.status # "running" /\ r.status # "completed" /\ r.status \in Done
        /\ r.cursor # 0
    BY <2>2, <2>3 DEF Done
  <2>8. /\ DataFits' /\ jobs' \in [Ids -> Job] /\ RunningHasToken(jobs)'
        /\ \A k \in Ids : DoneRow(jobs, k) => DoneRow(jobs', k)
    BY <1>1, <2>3, <2>4, <2>5, <2>6, <2>7, RowChanges
  <2>9. FrameFits(procs[p], jobs', archives, tokens)
    BY <1>1, <2>1, <2>3, <2>4, <2>7, <2>8, RowSettles
  <2>10. DoneRow(jobs', j)  BY <1>1, <2>8
  <2>11. f("delete") \in Frame /\ FrameFits(f("delete"), jobs', archives, tokens)
         /\ f("delete").token = procs[p].token
    BY <1>1, <1>2, <2>9, <2>10, Advance
  <2>12. procs' = [procs EXCEPT ![p] = f("delete")]
    BY <1>3, Own DEF Mark, Goto
  <2>13. tokens' \in 0..MaxClaims /\ tokens <= tokens' /\ tokens' = tokens
    BY <1>1, <2>6 DEF IInv, TypeOK
  <2> HIDE DEF f
  <2> QED  BY <1>1, <2>3, <2>4, <2>6, <2>7, <2>8, <2>11, <2>12, <2>13, RowStep
<1>4. CASE ~Lapsed(j, procs[p].now)
  <2>1. UNCHANGED <<clock, jobs, archives, fences, fenced, backup, made, tokens, faults, restores>>
    BY <1>4 DEF Mark
  <2>2. CASE procs[p].back = "enqueue"
    <3>1. f("enqueue") \in Frame /\ FrameFits(f("enqueue"), jobs, archives, tokens)
          /\ f("enqueue").token = procs[p].token
      BY <1>1, <1>2, <2>2, Advance
    <3>2. procs' = [procs EXCEPT ![p] = f("enqueue")]
      BY <1>4, <2>2, Own DEF Mark, Goto
    <3> HIDE DEF f
    <3> QED  BY <1>1, <2>1, <3>1, <3>2, OnlyFrame
  <2>3. CASE procs[p].back # "enqueue"
    <3>1. f("delete") \in Frame /\ FrameFits(f("delete"), jobs, archives, tokens)
          /\ f("delete").token = procs[p].token
      BY <1>1, <1>2, <2>3, Advance
    <3>2. procs' = [procs EXCEPT ![p] = f("delete")]
      BY <1>4, <2>3, Own DEF Mark, Goto
    <3> HIDE DEF f
    <3> QED  BY <1>1, <2>1, <3>1, <3>2, OnlyFrame
  <2> QED  BY <2>2, <2>3
<1> QED  BY <1>3, <1>4

\* A row that is no longer running, by an invocation that is done with the job.
LEMMA ResumeWithRow ==
  ASSUME IInv, NEW p \in Procs, NEW i \in Ids, NEW r \in Job, jobs' = [jobs EXCEPT ![i] = r],
         r.status # "running", DataFits', jobs' \in [Ids -> Job], RunningHasToken(jobs)',
         \A k \in Ids : DoneRow(jobs, k) => DoneRow(jobs', k),
         Resume(p), procs[p].step # "purge",
         UNCHANGED <<clock, archives, fences, fenced, backup, made, tokens, faults, restores>>
  PROVE  IInv'
<1>1. /\ procs \in [Procs -> Frame] /\ procs[p] \in Frame /\ tokens \in 0..MaxClaims
      /\ tokens \in Nat /\ jobs \in [Ids -> Job]
  BY Own DEF IInv, TypeOK
<1>2. FrameFits(procs[p], jobs', archives, tokens)
  BY <1>1, RowSettles
<1>3. /\ Resumed(procs[p]) \in Frame /\ FrameFits(Resumed(procs[p]), jobs', archives, tokens)
      /\ Resumed(procs[p]).token = 0
  BY <1>1, <1>2, ResumedFits
<1>4. procs' = [procs EXCEPT ![p] = Resumed(procs[p])]
  BY <1>1, ResumeIsResumed
<1>5. tokens' \in 0..MaxClaims /\ tokens <= tokens' /\ tokens' = tokens
  BY <1>1
<1> QED  BY <1>3, <1>4, <1>5, RowStep

LEMMA ClearKeeps ==
  ASSUME IInv, NEW p \in Procs, Clear(p)  PROVE IInv'
<1> DEFINE j == procs[p].job
           r == [jobs[j] EXCEPT !.cursor = 0]
<1>1. /\ procs[p].step # "purge" /\ j \in Ids /\ DoneRow(jobs, j) /\ archives[j].by = 0
      /\ Resume(p) /\ faults' \in 0..MaxFaults
      /\ UNCHANGED <<clock, archives, fences, fenced, backup, made, tokens, faults, restores>>
  BY Own DEF Clear, At, FrameFits, Cleaning
<1>2. jobs \in [Ids -> Job] /\ jobs[j] \in Job
  BY <1>1 DEF IInv, TypeOK
<1>3. CASE jobs[j].status = "expired"
  <2>1. /\ r \in Job /\ r.status = "expired" /\ r.key = jobs[j].key /\ r.cursor = 0
        /\ r.token = jobs[j].token
    BY <1>2, <1>3 DEF Job
  <2>2. jobs[j].token = 0
    BY <1>1, <1>3 DEF IInv, TypeOK
  <2>3. jobs' = [jobs EXCEPT ![j] = r]
    BY <1>2, <1>3 DEF Clear
  <2>4. Exists(jobs, j)  BY <1>3 DEF Exists
  <2> HIDE DEF r
  <2>5. r.status # "none" /\ r.status # "running" /\ r.status # "completed" /\ r.status \in Done
    BY <2>1 DEF Done
  <2>6. /\ DataFits' /\ jobs' \in [Ids -> Job] /\ RunningHasToken(jobs)'
        /\ \A k \in Ids : DoneRow(jobs, k) => DoneRow(jobs', k)
    BY <1>1, <2>1, <2>2, <2>3, <2>4, <2>5, RowChanges
  <2> QED  BY <1>1, <2>1, <2>3, <2>5, <2>6, ResumeWithRow
<1>4. CASE jobs[j].status # "expired"
  <2>1. jobs' = jobs  BY <1>1, <1>2, <1>4 DEF Clear
  <2> QED  BY <1>1, <2>1, ResumeKeeps
<1> QED  BY <1>3, <1>4

LEMMA TakeClaimKeeps ==
  ASSUME IInv, NEW p \in Procs, NEW i \in Ids, NEW now \in Nat, NEW back \in {"idle", "claiming"},
         Claimable(i, now), TakeClaim(p, i, now, back),
         UNCHANGED <<clock, archives, fences, fenced, backup, made, faults, restores>>
  PROVE  IInv'
<1> DEFINE r == [jobs[i] EXCEPT !.status = "running", !.claimedAt = now, !.token = tokens + 1]
           f == [procs[p] EXCEPT !.step = "present", !.back = back, !.job = i,
                   !.token = tokens + 1, !.now = IF back = "idle" THEN clock ELSE procs[p].now]
<1>0. tokens < MaxClaims
  BY DEF TakeClaim
<1>1. /\ jobs \in [Ids -> Job] /\ jobs[i] \in Job /\ tokens \in 0..MaxClaims
      /\ tokens + 1 \in 0..MaxClaims /\ tokens \in Nat /\ procs[p] \in Frame /\ clock \in Nat
  BY <1>0, Own, OwnerDataExportAssumption DEF IInv, TypeOK
<1>2. /\ r \in Job /\ r.status = "running" /\ r.token = tokens + 1 /\ r.key = jobs[i].key
  BY <1>1 DEF Job, Statuses
<1>3. jobs' = [jobs EXCEPT ![i] = r] /\ tokens' = tokens + 1
  BY <1>1 DEF TakeClaim
<1>4. Exists(jobs, i) /\ ~DoneRow(jobs, i)
  BY DEF Claimable, Exists, DoneRow, Done
<1>5. /\ f.step = "present" /\ f.back = back /\ f.job = i /\ f.token = tokens + 1
  BY <1>1 DEF Frame
<1>6. i \in 0..MaxJobs  BY OwnerDataExportAssumption DEF Ids
<1>7. f \in Frame
  BY <1>1, <1>6 DEF Frame, Steps
<1>8. procs' = [procs EXCEPT ![p] = f]
  BY Own DEF TakeClaim
<1> HIDE DEF r, f
<1>9. /\ DataFits' /\ jobs' \in [Ids -> Job] /\ RunningHasToken(jobs)'
      /\ \A k \in Ids : DoneRow(jobs, k) => DoneRow(jobs', k)
  <2>1. /\ r.status # "none" /\ (r.status = "running") = (r.token # 0)
        /\ r.status # "expired" /\ r.status # "completed"
    BY <1>1, <1>2
  <2> QED  BY <1>2, <1>3, <1>4, <2>1, RowChanges
<1>10. FrameFits(f, jobs', archives, tokens')
  BY <1>1, <1>3, <1>5 DEF FrameFits, Working, Cleaning
<1>11. tokens' \in 0..MaxClaims /\ tokens <= tokens'
  BY <1>1, <1>3
<1> QED  BY <1>2, <1>3, <1>5, <1>7, <1>8, <1>9, <1>10, <1>11, RowStep

LEMMA ConsumeKeeps ==
  ASSUME IInv, NEW p \in Procs, NEW i \in Ids, Consume(p, i)  PROVE IInv'
<1>1. clock \in Nat  BY Own
<1> QED  BY <1>1, TakeClaimKeeps DEF Consume

LEMMA ClaimNextKeeps ==
  ASSUME IInv, NEW p \in Procs, ClaimNext(p)  PROVE IInv'
<1>1. /\ procs[p] \in Frame /\ procs[p].step = "claim" /\ faults' \in 0..MaxFaults
      /\ procs[p].job \in Ids /\ procs[p].now \in Nat /\ procs[p].back # "enqueue"
      /\ UNCHANGED <<clock, archives, fences, fenced, backup, made, faults, restores>>
  BY Own DEF ClaimNext, At, FrameFits, Frame, Cleaning
<1>2. CASE Claimable(procs[p].job, procs[p].now)
  BY <1>1, <1>2, TakeClaimKeeps DEF ClaimNext
<1>3. CASE ~Claimable(procs[p].job, procs[p].now)
  <2>1. "list" \in Steps \ (Working \cup Cleaning \cup {"claim", "enqueue", "sweep"})
    BY DEF Steps, Working, Cleaning
  <2> QED  BY <1>1, <1>3, <2>1, GotoKeeps DEF ClaimNext
<1> QED  BY <1>2, <1>3

LEMMA CompleteKeeps ==
  ASSUME IInv, NEW p \in Procs, Complete(p)  PROVE IInv'
<1> DEFINE j == procs[p].job
           r == [jobs[j] EXCEPT !.status = "completed", !.cursor = procs[p].at + Life,
                   !.claimedAt = 0, !.token = 0, !.by = procs[p].token]
           f == [procs[p] EXCEPT !.step = "fence"]
<1>1. /\ procs[p] \in Frame /\ procs[p].step = "complete" /\ j \in Ids
      /\ FrameFits(procs[p], jobs, archives, tokens) /\ procs[p].at # 0
      /\ procs[p].back # "enqueue" /\ tokens \in Nat /\ faults' \in 0..MaxFaults
      /\ UNCHANGED <<clock, archives, fences, fenced, backup, made, tokens, faults, restores>>
  BY Own DEF Complete, At, FrameFits, Working, Cleaning
<1>2. CASE Holds(j, procs[p].token)
  <2>1. /\ jobs \in [Ids -> Job] /\ jobs[j] \in Job /\ procs[p].at + Life \in Nat
        /\ procs[p].token \in 0..MaxClaims /\ 0 \in 0..MaxClaims
    BY <1>1, OwnerDataExportAssumption DEF IInv, TypeOK, Frame
  <2>2. /\ r \in Job /\ r.status = "completed" /\ r.key = jobs[j].key
        /\ r.cursor = procs[p].at + Life /\ r.by = procs[p].token /\ r.token = 0
    BY <2>1 DEF Job, Statuses
  <2>3. jobs' = [jobs EXCEPT ![j] = r]
    BY <1>2, <2>1 DEF Complete
  <2>4. Exists(jobs, j) /\ jobs[j].status = "running" /\ jobs[j].token = procs[p].token
    BY <1>2 DEF Holds, Exists
  <2>5. archives[j].by # 0 => archives[j].by = r.by /\ archives[j].expires = r.cursor
    BY <1>1, <2>2, <2>4 DEF FrameFits
  <2> HIDE DEF r
  <2>6. /\ r.status # "none" /\ r.status # "running" /\ r.status # "expired" /\ r.status \in Done
    BY <2>2 DEF Done
  <2>7. /\ DataFits' /\ jobs' \in [Ids -> Job] /\ RunningHasToken(jobs)'
        /\ \A k \in Ids : DoneRow(jobs, k) => DoneRow(jobs', k)
    BY <1>1, <2>2, <2>3, <2>4, <2>5, <2>6, RowChanges
  <2>8. FrameFits(procs[p], jobs', archives, tokens)
    BY <2>1, <2>2, <2>3, <2>6, <2>7, <1>1, RowSettles
  <2>9. "fence" \in Steps /\ "fence" \notin Cleaning /\ DoneRow(jobs', j)
    BY <1>1, <2>1, <2>2, <2>3 DEF Steps, Cleaning, DoneRow, Done
  <2>10. f \in Frame /\ FrameFits(f, jobs', archives, tokens) /\ f.token = procs[p].token
    BY <1>1, <2>8, <2>9, Advance
  <2>11. procs' = [procs EXCEPT ![p] = f]
    BY <1>2, Own DEF Complete, Goto
  <2>12. tokens' \in 0..MaxClaims /\ tokens <= tokens' /\ tokens' = tokens
    BY <1>1 DEF IInv, TypeOK
  <2> HIDE DEF f
  <2> QED  BY <1>1, <2>2, <2>3, <2>6, <2>7, <2>10, <2>11, <2>12, RowStep
<1>3. CASE ~Holds(j, procs[p].token)
  BY <1>1, <1>3, ResumeKeeps DEF Complete
<1> QED  BY <1>2, <1>3

LEMMA RecordFailureKeeps ==
  ASSUME IInv, NEW p \in Procs, RecordFailure(p)  PROVE IInv'
<1> DEFINE j == procs[p].job
           r == [jobs[j] EXCEPT !.status = "failed", !.runAfter = procs[p].at + RetryDelay,
                   !.claimedAt = 0, !.token = 0]
<1>1. /\ procs[p] \in Frame /\ procs[p].step # "purge" /\ j \in Ids /\ faults' \in 0..MaxFaults
      /\ Resume(p)
      /\ UNCHANGED <<clock, archives, fences, fenced, backup, made, tokens, faults, restores>>
  BY Own DEF RecordFailure, At, FrameFits, Working
<1>2. /\ jobs \in [Ids -> Job] /\ jobs[j] \in Job /\ procs[p].at + RetryDelay \in Nat
      /\ 0 \in 0..MaxClaims
  BY <1>1, OwnerDataExportAssumption DEF IInv, TypeOK, Frame
<1>3. CASE Holds(j, procs[p].token)
  <2>1. /\ r \in Job /\ r.status = "failed" /\ r.key = jobs[j].key /\ r.token = 0
    BY <1>2 DEF Job, Statuses
  <2>2. jobs' = [jobs EXCEPT ![j] = r]
    BY <1>2, <1>3 DEF RecordFailure
  <2>3. Exists(jobs, j) /\ ~DoneRow(jobs, j)
    BY <1>3 DEF Holds, Exists, DoneRow, Done
  <2> HIDE DEF r
  <2>4. /\ r.status # "none" /\ r.status # "running" /\ r.status # "expired"
        /\ r.status # "completed"
    BY <2>1
  <2>5. /\ DataFits' /\ jobs' \in [Ids -> Job] /\ RunningHasToken(jobs)'
        /\ \A k \in Ids : DoneRow(jobs, k) => DoneRow(jobs', k)
    BY <1>1, <2>1, <2>2, <2>3, <2>4, RowChanges
  <2> QED  BY <1>1, <2>1, <2>2, <2>4, <2>5, ResumeWithRow
<1>4. CASE ~Holds(j, procs[p].token)
  <2>1. jobs' = jobs  BY <1>1, <1>2, <1>4 DEF RecordFailure
  <2> QED  BY <1>1, <2>1, ResumeKeeps
<1> QED  BY <1>3, <1>4

-----------------------------------------------------------------------------
(* The steps that change archives.                                         *)

\* Bytes go, or are replaced while their job runs: rows and archives still agree.
LEMMA ArchivesChange ==
  ASSUME IInv,
         \A i \in Ids : archives'[i] = archives[i] \/ archives'[i].by = 0
                        \/ jobs[i].status = "running",
         UNCHANGED <<jobs, fences, fenced, backup, made>>
  PROVE  DataFits'
<1>1. /\ CopyFits(jobs, archives) /\ CopyFits(backup.jobs, backup.archives)
      /\ SameKeys /\ FencedIsNotRepeated /\ \A k \in fenced : k <= made
  BY DEF IInv, DataFits
<1>2. Agree(jobs, archives)'
  BY <1>1 DEF CopyFits, Agree
<1>3. CopyFits(jobs, archives)'
  BY <1>1, <1>2 DEF CopyFits, Chained, Fenced, Issued, RunningHasToken
<1>4. CopyFits(backup.jobs, backup.archives)'
  BY <1>1 DEF CopyFits, Chained, Agree, Fenced, Issued, RunningHasToken
<1> QED  BY <1>1, <1>3, <1>4 DEF DataFits, SameKeys, FencedIsNotRepeated

\* The invocation that changes archives moves on, and takes from no other the
\* bytes it relies on.
LEMMA ArchivesStep ==
  ASSUME IInv, NEW p \in Procs, NEW f \in Frame, procs' = [procs EXCEPT ![p] = f],
         archives' \in [Ids -> Archive],
         \A i \in Ids : archives'[i] = archives[i] \/ archives'[i].by = 0
                        \/ jobs[i].status = "running",
         FrameFits(f, jobs, archives', tokens), f.token \in {0, procs[p].token},
         \A q \in Procs \ {p} :
           /\ procs[q].step = "clear" => archives'[procs[q].job].by = 0
           /\ procs[q].step = "complete" /\ jobs[procs[q].job].status = "running"
              /\ jobs[procs[q].job].token = procs[q].token =>
                archives'[procs[q].job].by = 0
                \/ archives'[procs[q].job] = archives[procs[q].job],
         UNCHANGED <<clock, jobs, fences, fenced, backup, made, tokens, faults, restores>>
  PROVE  IInv'
<1>1. procs \in [Procs -> Frame] /\ OwnClaims /\ FramesFit /\ tokens \in Nat
  BY Own DEF IInv
<1>2. ASSUME NEW q \in Procs \ {p}
      PROVE  FrameFits(procs[q], jobs', archives', tokens')
  <2>1. procs[q] \in Frame /\ FrameFits(procs[q], jobs, archives, tokens) /\ tokens <= tokens
    BY <1>1 DEF FramesFit
  <2>2. FrameFits(procs[q], jobs, archives', tokens)
    BY <1>1, <2>1, FrameStable
  <2> QED  BY <2>2
<1>3. FrameFits(f, jobs', archives', tokens')
  OBVIOUS
<1>4. procs' \in [Procs -> Frame] /\ FramesFit' /\ OwnClaims'
  BY <1>1, <1>2, <1>3, OneMoves
<1>5. DataFits'
  BY ArchivesChange
<1>6. TypeOK' /\ RestoreLeft'
  BY <1>4 DEF IInv, TypeOK, RestoreLeft
<1> QED  BY <1>4, <1>5, <1>6 DEF IInv

\* Where bytes only go, no invocation loses what it relies on.
LEMMA BytesGo ==
  ASSUME IInv, NEW p \in Procs, NEW f \in Frame, procs' = [procs EXCEPT ![p] = f],
         archives' \in [Ids -> Archive],
         \A i \in Ids : archives'[i] = archives[i] \/ archives'[i].by = 0,
         FrameFits(f, jobs, archives', tokens), f.token \in {0, procs[p].token},
         UNCHANGED <<clock, jobs, fences, fenced, backup, made, tokens, faults, restores>>
  PROVE  IInv'
<1>1. ASSUME NEW q \in Procs
      PROVE  /\ procs[q].step \in {"clear", "complete"} => procs[q].job \in Ids
             /\ procs[q].step = "clear" => archives[procs[q].job].by = 0
  BY DEF IInv, FramesFit, FrameFits, Working, Cleaning
<1>2. \A q \in Procs \ {p} :
        /\ procs[q].step = "clear" => archives'[procs[q].job].by = 0
        /\ procs[q].step = "complete" /\ jobs[procs[q].job].status = "running"
           /\ jobs[procs[q].job].token = procs[q].token =>
             archives'[procs[q].job].by = 0
             \/ archives'[procs[q].job] = archives[procs[q].job]
  BY <1>1
<1> QED  BY <1>2, ArchivesStep

LEMMA DeleteKeeps ==
  ASSUME IInv, NEW p \in Procs, Delete(p)  PROVE IInv'
<1> DEFINE j == procs[p].job
           f == [procs[p] EXCEPT !.step = "clear"]
<1>1. /\ procs[p] \in Frame /\ procs[p].step = "delete" /\ j \in Ids /\ DoneRow(jobs, j)
      /\ FrameFits(procs[p], jobs, archives, tokens) /\ tokens \in Nat /\ tokens <= tokens
      /\ archives \in [Ids -> Archive] /\ archives' = [archives EXCEPT ![j] = NoArchive]
      /\ UNCHANGED <<clock, jobs, fences, fenced, backup, made, tokens, faults, restores>>
  BY Own DEF Delete, At, FrameFits, Cleaning, IInv, TypeOK
<1>2. NoArchive \in Archive /\ NoArchive.by = 0
  BY OwnerDataExportAssumption DEF NoArchive, Archive
<1>3. /\ archives' \in [Ids -> Archive] /\ archives'[j].by = 0
      /\ \A i \in Ids : archives'[i] = archives[i] \/ archives'[i].by = 0
  BY <1>1, <1>2
<1>4. FrameFits(procs[p], jobs, archives', tokens)
  BY <1>1, FrameStable
<1>5. "clear" \in Steps /\ "clear" \notin Working
  BY DEF Steps, Working
<1>6. f \in Frame /\ FrameFits(f, jobs, archives', tokens) /\ f.token = procs[p].token
  <2>1. /\ procs[p] \in Frame /\ procs[p].step # "purge" /\ procs[p].job \in Ids
        /\ DoneRow(jobs, procs[p].job) /\ archives'[procs[p].job].by = 0 /\ tokens \in Nat
    BY <1>1, <1>3
  <2>2. "clear" \in Cleaning  BY DEF Cleaning
  <2> QED  BY <1>4, <1>5, <2>1, <2>2, Advance
<1>7. procs' = [procs EXCEPT ![p] = f]
  BY Own DEF Delete, Goto
<1> HIDE DEF f
<1> QED  BY <1>1, <1>3, <1>6, <1>7, BytesGo

LEMMA PurgeKeeps ==
  ASSUME IInv, NEW p \in Procs, Purge(p)  PROVE IInv'
<1>1. NoArchive \in Archive /\ NoArchive.by = 0
  BY OwnerDataExportAssumption DEF NoArchive, Archive
<1>2. /\ archives' \in [Ids -> Archive]
      /\ \A i \in Ids : archives'[i] = archives[i] \/ archives'[i].by = 0
  BY <1>1 DEF IInv, TypeOK, Purge
<1>3. Idle \in Frame /\ FrameFits(Idle, jobs, archives', tokens) /\ Idle.token = 0
  BY Own, IdleFits DEF Idle
<1> QED  BY <1>2, <1>3, BytesGo DEF Purge

LEMMA PutKeeps ==
  ASSUME IInv, NEW p \in Procs, Put(p)  PROVE IInv'
<1> DEFINE j == procs[p].job
           a == [by |-> procs[p].token, expires |-> procs[p].at + Life]
           f == [procs[p] EXCEPT !.step = "complete"]
<1>1. /\ procs \in [Procs -> Frame] /\ procs[p] \in Frame /\ procs[p].step = "put" /\ j \in Ids
      /\ FrameFits(procs[p], jobs, archives, tokens) /\ procs[p].at # 0
      /\ procs[p].back # "enqueue" /\ tokens \in Nat /\ tokens <= tokens
      /\ UNCHANGED <<clock, jobs, fences, fenced, backup, made, tokens, faults, restores>>
  BY Own DEF Put, At, FrameFits, Working, Cleaning
<1>2. CASE Holds(j, procs[p].token)
  <2>1. procs[p].token # 0 /\ procs[p].token = jobs[j].token /\ jobs[j].status = "running"
    BY <1>1, <1>2 DEF Holds, IInv, TypeOK
  <2>2. archives \in [Ids -> Archive] /\ archives' = [archives EXCEPT ![j] = a]
    BY <1>2 DEF Put, IInv, TypeOK
  <2>3. a \in Archive /\ a.by = procs[p].token /\ a.expires = procs[p].at + Life
    BY <1>1, OwnerDataExportAssumption DEF Archive, Frame
  <2> HIDE DEF a
  <2>4. /\ archives' \in [Ids -> Archive] /\ archives'[j] = a
        /\ \A i \in Ids : i # j => archives'[i] = archives[i]
    BY <1>1, <2>2, <2>3
  <2>5. ASSUME NEW q \in Procs \ {p}
        PROVE  /\ procs[q].step = "clear" => archives'[procs[q].job].by = 0
               /\ procs[q].step = "complete" /\ jobs[procs[q].job].status = "running"
                  /\ jobs[procs[q].job].token = procs[q].token =>
                    archives'[procs[q].job] = archives[procs[q].job]
    <3>1. FrameFits(procs[q], jobs, archives, tokens)
      BY DEF IInv, FramesFit
    <3>2. procs[q].token = procs[p].token => procs[q].token = 0
      BY DEF IInv, OwnClaims
    <3>3. CASE procs[q].step = "clear"
      <4>1. procs[q].job \in Ids /\ DoneRow(jobs, procs[q].job) /\ archives[procs[q].job].by = 0
        BY <3>1, <3>3 DEF FrameFits, Cleaning
      <4>2. procs[q].job # j
        BY <2>1, <4>1 DEF DoneRow, Done
      <4> QED  BY <2>4, <3>3, <4>1, <4>2
    <3>4. CASE procs[q].step = "complete" /\ jobs[procs[q].job].status = "running"
               /\ jobs[procs[q].job].token = procs[q].token
      <4>1. procs[q].job \in Ids
        BY <3>1, <3>4 DEF FrameFits, Working
      <4>2. procs[q].job # j
        BY <2>1, <3>2, <3>4
      <4> QED  BY <2>4, <3>4, <4>1, <4>2
    <3> QED  BY <3>3, <3>4
  <2>6. FrameFits(procs[p], jobs, archives', tokens)
    BY <1>1, FrameStable
  <2>7. "complete" \in Steps /\ "complete" \notin Cleaning
    BY DEF Steps, Cleaning
  <2>8. archives'[j].by = procs[p].token /\ archives'[j].expires = procs[p].at + Life
    BY <2>3, <2>4
  <2>9. f \in Frame /\ FrameFits(f, jobs, archives', tokens) /\ f.token = procs[p].token
    BY <1>1, <2>6, <2>7, <2>8, Advance
  <2>10. procs' = [procs EXCEPT ![p] = f]
    BY <1>1, <1>2 DEF Put, Goto
  <2> HIDE DEF f
  <2>11. \A i \in Ids : archives'[i] = archives[i] \/ archives'[i].by = 0
                        \/ jobs[i].status = "running"
    BY <2>1, <2>4
  <2> QED  BY <1>1, <2>4, <2>5, <2>9, <2>10, <2>11, ArchivesStep
<1>3. CASE ~Holds(j, procs[p].token)
  <2>1. faults' \in 0..MaxFaults  BY Own DEF Put
  <2> QED  BY <1>1, <1>3, <2>1, ResumeKeeps DEF Put
<1> QED  BY <1>2, <1>3

-----------------------------------------------------------------------------
(* A new row, a fence, time, and a restore.                                *)

\* When no row has the key of a request's predecessor, the predecessor is the
\* latest row and every row is over, so the new row is the only open one.
LEMMA Latest ==
  ASSUME NEW js \in [Ids -> Job], Chained(js), NEW l \in 0..MaxJobs,
         l # 0 => DoneRow(js, l),
         \A i \in Ids : Exists(js, i) => js[i].key # l
  PROVE  /\ \A i \in Ids : js[i].status \notin Open
         /\ \A i \in Ids : Exists(js, i) => i <= l
<1>1. l # 0 => l \in Ids /\ Exists(js, l)
  BY OwnerDataExportAssumption DEF Ids, DoneRow, Done, Exists
<1>2. ASSUME NEW i \in Ids, Exists(js, i)  PROVE i <= l
  <2>1. l # 0
    BY <1>2 DEF Chained
  <2>2. ~(l < i)
    BY <1>1, <1>2, <2>1 DEF Chained
  <2> QED  BY <2>2, OwnerDataExportAssumption DEF Ids
<1>3. ASSUME NEW i \in Ids  PROVE js[i].status \notin Open
  <2>1. CASE ~Exists(js, i)
    BY <2>1 DEF Exists, Open
  <2>2. CASE Exists(js, i)
    <3>1. i <= l /\ l # 0
      BY <1>2, <2>2, OwnerDataExportAssumption DEF Ids
    <3>2. CASE i = l
      BY <3>1, <3>2 DEF DoneRow, Done, Open
    <3>3. CASE i # l
      <4>1. i < l  BY <3>1, <3>3, OwnerDataExportAssumption DEF Ids
      <4> QED  BY <1>1, <3>1, <4>1 DEF Chained
    <3> QED  BY <3>2, <3>3
  <2> QED  BY <2>1, <2>2
<1> QED  BY <1>2, <1>3

LEMMA EnqueueKeeps ==
  ASSUME IInv, NEW p \in Procs, Enqueue(p)  PROVE IInv'
<1> DEFINE l == procs[p].job
           n == made + 1
           r == [NoJob EXCEPT !.status = "pending", !.key = l, !.runAfter = clock]
<1>1. /\ procs[p].step = "enqueue" /\ l \in 0..MaxJobs /\ (l # 0 => DoneRow(jobs, l))
      /\ tokens \in Nat /\ clock \in Nat /\ procs \in [Procs -> Frame]
  BY Own DEF Enqueue, At, FrameFits, Frame
<1>2. /\ procs' = [procs EXCEPT ![p] = Idle]
      /\ UNCHANGED <<clock, archives, fences, fenced, backup, tokens, faults, restores>>
  BY DEF Enqueue
<1>3. CASE \E i \in Ids : Exists(jobs, i) /\ jobs[i].key = l
  <2>1. jobs' = jobs /\ made' = made  BY <1>3 DEF Enqueue
  <2>2. faults' \in 0..MaxFaults  BY <1>2, Own
  <2> QED  BY <1>2, <2>1, <2>2, EndKeeps
<1>4. CASE ~\E i \in Ids : Exists(jobs, i) /\ jobs[i].key = l
  <2>1. made < MaxJobs /\ made' = n /\ jobs' = [jobs EXCEPT ![n] = r]
    BY <1>4 DEF Enqueue
  <2>2. made \in 0..MaxJobs /\ n \in Ids /\ n \in 0..MaxJobs /\ made < n
    BY <2>1, OwnerDataExportAssumption DEF IInv, TypeOK, Ids
  <2>3. /\ jobs \in [Ids -> Job] /\ CopyFits(jobs, archives)
        /\ CopyFits(backup.jobs, backup.archives) /\ SameKeys /\ FencedIsNotRepeated
        /\ \A k \in fenced : k <= made
    BY DEF IInv, TypeOK, DataFits
  <2>4. /\ r \in Job /\ r.status = "pending" /\ r.key = l /\ r.token = 0
    <3>1. NoJob \in Job /\ NoJob.token = 0
      BY OwnerDataExportAssumption DEF NoJob, Job, Statuses
    <3> QED  BY <1>1, <3>1 DEF Job, Statuses
  <2> HIDE DEF r
  <2>5. /\ jobs' \in [Ids -> Job] /\ jobs'[n] = r /\ \A k \in Ids : k # n => jobs'[k] = jobs[k]
    BY <2>1, <2>2, <2>3, <2>4
  <2>6. ~Exists(jobs, n) /\ ~Exists(backup.jobs, n) /\ n \notin fenced
    BY <2>2, <2>3 DEF CopyFits, Issued, Ids
  <2> HIDE DEF n
  <2>7. /\ \A i \in Ids : jobs[i].status \notin Open
        /\ \A i \in Ids : Exists(jobs, i) => i <= l
    BY <1>1, <1>4, <2>3, Latest DEF CopyFits
  <2>8. \A i \in Ids : Exists(jobs', i) <=> i = n \/ Exists(jobs, i)
    BY <2>4, <2>5 DEF Exists
  <2>9. \A i \in Ids : Exists(jobs', i) => i <= n
    BY <2>2, <2>3, <2>8 DEF CopyFits, Issued, Ids
  <2>10. Chained(jobs')
    <3>1. ASSUME NEW i \in Ids, NEW k \in Ids, Exists(jobs', k), i < k
          PROVE  jobs'[i].status \notin Open
      <4>1. i # n  BY <2>2, <2>9, <3>1 DEF Ids
      <4> QED  BY <2>5, <2>7, <4>1
    <3>2. ASSUME NEW i \in Ids, NEW k \in Ids, Exists(jobs', i), Exists(jobs', k), i < k
          PROVE  \E m \in Ids : Exists(jobs', m) /\ jobs'[m].key = i
      <4>1. i # n /\ Exists(jobs, i)
        BY <2>2, <2>8, <2>9, <3>2 DEF Ids
      <4>2. CASE i = l
        BY <2>2, <2>4, <2>5, <2>8, <4>2
      <4>3. CASE i # l
        <5>1. i < l /\ l # 0 /\ l \in Ids /\ Exists(jobs, l)
          BY <1>1, <2>7, <4>1, <4>3, OwnerDataExportAssumption DEF Ids, DoneRow, Done, Exists
        <5>2. PICK m \in Ids : Exists(jobs, m) /\ jobs[m].key = i
          BY <2>3, <4>1, <5>1 DEF CopyFits, Chained
        <5> QED  BY <2>5, <2>6, <2>8, <5>2
      <4> QED  BY <4>2, <4>3
    <3>3. \E m \in Ids : Exists(jobs', m) /\ jobs'[m].key = 0
      <4>1. CASE l = 0
        BY <2>2, <2>4, <2>5, <2>8, <4>1
      <4>2. CASE l # 0
        <5>1. l \in Ids /\ Exists(jobs, l)
          BY <1>1, <4>2, OwnerDataExportAssumption DEF Ids, DoneRow, Done, Exists
        <5>2. PICK m \in Ids : Exists(jobs, m) /\ jobs[m].key = 0
          BY <2>3, <5>1 DEF CopyFits, Chained
        <5> QED  BY <2>5, <2>6, <2>8, <5>2
      <4> QED  BY <4>1, <4>2
    <3> QED  BY <3>1, <3>2, <3>3 DEF Chained
  <2>11. Agree(jobs', archives)
    BY <2>3, <2>4, <2>5 DEF CopyFits, Agree
  <2>12. Fenced(jobs', fences, fenced)
    BY <2>3, <2>5, <2>6, <2>8 DEF CopyFits, Fenced, IInv, TypeOK
  <2>13. Issued(jobs', made') /\ RunningHasToken(jobs')
    BY <2>1, <2>3, <2>4, <2>5, <2>9 DEF CopyFits, Issued, RunningHasToken
  <2>14. CopyFits(jobs, archives)'
    BY <1>2, <2>10, <2>11, <2>12, <2>13 DEF CopyFits, Chained, Agree, Fenced, Issued, RunningHasToken
  <2>15. Issued(backup.jobs, made')
    BY <2>1, <2>2, <2>3 DEF CopyFits, Issued, Ids, n
  <2>16. CopyFits(backup.jobs, backup.archives)'
    BY <1>2, <2>3, <2>15 DEF CopyFits, Chained, Agree, Fenced, Issued, RunningHasToken
  <2>17. SameKeys'
    BY <1>2, <2>3, <2>5, <2>6, <2>8 DEF SameKeys
  <2>18. FencedIsNotRepeated' /\ \A k \in fenced' : k <= made'
    <3>1. fenced \subseteq Ids  BY DEF IInv, TypeOK
    <3>2. \A k \in fenced : k <= made'
      BY <2>1, <2>2, <2>3, <3>1 DEF Ids, n
    <3> QED  BY <1>2, <2>3, <2>5, <2>6, <3>1, <3>2 DEF FencedIsNotRepeated
  <2>19. DataFits'
    BY <2>14, <2>16, <2>17, <2>18 DEF DataFits
  <2>20. \A k \in Ids : DoneRow(jobs, k) => DoneRow(jobs', k)
    BY <2>5, <2>6 DEF DoneRow, Done, Exists
  <2>21. ASSUME NEW q \in Procs \ {p}
         PROVE  FrameFits(procs[q], jobs', archives', tokens')
    <3>1. procs[q] \in Frame /\ FrameFits(procs[q], jobs, archives, tokens) /\ tokens <= tokens
      BY <1>1 DEF IInv, FramesFit
    <3>2. procs[q].step = "clear" => archives[procs[q].job].by = 0
      BY <3>1 DEF FrameFits
    <3>3. ASSUME procs[q].step = "complete", jobs'[procs[q].job].status = "running",
                 jobs'[procs[q].job].token = procs[q].token
          PROVE  jobs[procs[q].job].status = "running" /\ jobs[procs[q].job].token = procs[q].token
      <4>1. procs[q].job \in Ids  BY <3>1, <3>3 DEF FrameFits, Working
      <4> QED  BY <2>4, <2>5, <3>3, <4>1
    <3>4. FrameFits(procs[q], jobs', archives, tokens)
      BY <1>1, <2>20, <3>1, <3>2, <3>3, FrameStable
    <3> QED  BY <1>2, <3>4
  <2>22. Idle \in Frame /\ FrameFits(Idle, jobs', archives', tokens') /\ Idle.token = 0
    BY <1>1, <1>2, IdleFits DEF Idle
  <2>23. procs' \in [Procs -> Frame] /\ FramesFit' /\ OwnClaims'
    BY <1>1, <1>2, <2>21, <2>22, OneMoves DEF IInv
  <2>24. TypeOK' /\ RestoreLeft'
    <3>1. \A k \in Ids : (jobs'[k].status = "running") = (jobs'[k].token # 0)
      BY <2>13 DEF RunningHasToken
    <3> QED  BY <1>2, <2>1, <2>2, <2>5, <2>23, <3>1 DEF IInv, TypeOK, RestoreLeft
  <2> QED  BY <2>19, <2>23, <2>24 DEF IInv
<1> QED  BY <1>3, <1>4

LEMMA FenceDeliveryKeeps ==
  ASSUME IInv, NEW p \in Procs, FenceDelivery(p)  PROVE IInv'
<1> DEFINE j == procs[p].job
           at == procs[p].at
<1>1. /\ procs[p] \in Frame /\ procs[p].step = "fence" /\ procs[p].step # "purge"
      /\ j \in Ids /\ DoneRow(jobs, j) /\ at \in Nat /\ at # 0 /\ Resume(p)
      /\ FrameFits(procs[p], jobs, archives, tokens) /\ procs \in [Procs -> Frame]
      /\ tokens \in Nat
      /\ UNCHANGED <<clock, jobs, archives, backup, made, tokens, faults, restores>>
  BY Own DEF FenceDelivery, At, FrameFits, Working, Cleaning, Frame
<1>2. /\ jobs \in [Ids -> Job] /\ jobs[j].key \in 0..MaxJobs /\ fences \in [0..MaxJobs -> Nat]
      /\ backup \in Backup /\ fenced \subseteq Ids
  BY <1>1 DEF IInv, TypeOK, Job
<1>3. /\ fences' \in [0..MaxJobs -> Nat] /\ fences'[jobs[j].key] # 0
      /\ \A k \in 0..MaxJobs : fences[k] # 0 => fences'[k] # 0
  BY <1>1, <1>2 DEF FenceDelivery
<1>4. fenced' = fenced \cup {j}
  BY DEF FenceDelivery
<1>5. Exists(jobs, j)
  BY <1>1 DEF DoneRow, Done, Exists
<1>6. /\ CopyFits(jobs, archives) /\ CopyFits(backup.jobs, backup.archives)
      /\ SameKeys /\ FencedIsNotRepeated /\ \A k \in fenced : k <= made
  BY DEF IInv, DataFits
<1>7. Fenced(jobs, fences', fenced')
  <2>1. \A i \in Ids : jobs[i].key \in 0..MaxJobs  BY <1>2 DEF Job
  <2> QED  BY <1>2, <1>3, <1>4, <1>6, <2>1 DEF CopyFits, Fenced
<1>8. Fenced(backup.jobs, fences', fenced')
  <2>1. \A i \in Ids : backup.jobs[i].key \in 0..MaxJobs  BY <1>2 DEF Job, Backup
  <2>2. Exists(backup.jobs, j) => backup.jobs[j].key = jobs[j].key
    BY <1>1, <1>5, <1>6 DEF SameKeys
  <2> QED  BY <1>2, <1>3, <1>4, <1>6, <2>1, <2>2 DEF CopyFits, Fenced
<1>9. CopyFits(jobs, archives)' /\ CopyFits(backup.jobs, backup.archives)'
  BY <1>1, <1>6, <1>7, <1>8 DEF CopyFits, Chained, Agree, Fenced, Issued, RunningHasToken
<1>10. \A k \in fenced' : k <= made'
  BY <1>1, <1>4, <1>5, <1>6 DEF CopyFits, Issued
<1>11. FencedIsNotRepeated'
  BY <1>1, <1>4, <1>6 DEF FencedIsNotRepeated, DoneRow, Done, Open
<1>12. DataFits'
  BY <1>1, <1>6, <1>9, <1>10, <1>11 DEF DataFits, SameKeys
<1>13. /\ Resumed(procs[p]) \in Frame /\ FrameFits(Resumed(procs[p]), jobs, archives, tokens)
       /\ Resumed(procs[p]).token = 0 /\ procs' = [procs EXCEPT ![p] = Resumed(procs[p])]
  BY <1>1, ResumedFits, ResumeIsResumed
<1>14. procs' \in [Procs -> Frame] /\ FramesFit' /\ OwnClaims'
  <2>1. FrameFits(Resumed(procs[p]), jobs', archives', tokens')
    BY <1>1, <1>13
  <2>2. \A q \in Procs \ {p} : FrameFits(procs[q], jobs', archives', tokens')
    BY <1>1 DEF IInv, FramesFit
  <2> QED  BY <1>1, <1>13, <2>1, <2>2, OneMoves DEF IInv
<1>15. TypeOK' /\ RestoreLeft'
  <2>1. fenced' \subseteq Ids  BY <1>1, <1>2, <1>4
  <2> QED  BY <1>1, <1>3, <1>14, <2>1 DEF IInv, TypeOK, RestoreLeft
<1> QED  BY <1>12, <1>14, <1>15 DEF IInv

LEMMA TickKeeps ==
  ASSUME IInv, Tick  PROVE IInv'
<1>1. UNCHANGED <<jobs, archives, fences, fenced, backup, procs, made, tokens, faults, restores>>
  BY DEF Tick
<1>2. clock' \in 1..MaxClock
  BY OwnerDataExportAssumption DEF IInv, TypeOK, Tick
<1>3. TypeOK' /\ RestoreLeft' /\ OwnClaims'
  BY <1>1, <1>2 DEF IInv, TypeOK, RestoreLeft, OwnClaims
<1>4. DataFits'
  BY <1>1 DEF IInv, DataFits, CopyFits, FencedIsNotRepeated, SameKeys, Chained, Agree, Fenced,
              Issued, RunningHasToken
<1>5. FramesFit'
  BY <1>1 DEF IInv, FramesFit
<1> QED  BY <1>3, <1>4, <1>5 DEF IInv

LEMMA SaveBackupKeeps ==
  ASSUME IInv, SaveBackup  PROVE IInv'
<1>1. /\ UNCHANGED <<clock, jobs, archives, fences, fenced, procs, made, tokens, faults, restores>>
      /\ backup' = [saved |-> TRUE, jobs |-> jobs, archives |-> archives]
      /\ restores < MaxRestores
  BY DEF SaveBackup
<1>2. backup'.jobs = jobs /\ backup'.archives = archives
  BY <1>1
<1>3. backup' \in Backup
  BY <1>1 DEF IInv, TypeOK, Backup
<1>4. TypeOK' /\ RestoreLeft' /\ OwnClaims'
  BY <1>1, <1>3 DEF IInv, TypeOK, RestoreLeft, OwnClaims
<1>5. CopyFits(jobs, archives)' /\ CopyFits(backup.jobs, backup.archives)'
  BY <1>1, <1>2 DEF IInv, DataFits, CopyFits, Chained, Agree, Fenced, Issued, RunningHasToken
<1>6. DataFits'
  BY <1>1, <1>2, <1>5 DEF IInv, DataFits, SameKeys, FencedIsNotRepeated
<1>7. FramesFit'
  BY <1>1 DEF IInv, FramesFit
<1> QED  BY <1>4, <1>6, <1>7 DEF IInv

\* Marking the rows that fences name only takes rows out of the open states.
LEMMA MarkedFits ==
  ASSUME NEW js \in [Ids -> Job], NEW as, CopyFits(js, as), fences \in [0..MaxJobs -> Nat],
         fenced \subseteq Ids, MaxClaims \in Nat
  PROVE  /\ CopyFits(Marked(js), as) /\ Marked(js) \in [Ids -> Job]
         /\ \A i \in Ids : Exists(Marked(js), i) => fences[js[i].key] = 0
                           \/ Marked(js)[i].status \notin Open
<1> DEFINE ms == Marked(js)
           e(i) == [js[i] EXCEPT !.status = "expired", !.cursor = fences[js[i].key],
                                 !.claimedAt = 0, !.token = 0]
<1>1. \A i \in Ids : ms[i] = IF js[i].status \in Open /\ fences[js[i].key] # 0
                             THEN e(i) ELSE js[i]
  BY DEF Marked
<1>2. ASSUME NEW i \in Ids
      PROVE  /\ e(i) \in Job /\ e(i).status = "expired" /\ e(i).key = js[i].key
             /\ e(i).token = 0 /\ e(i).cursor = fences[js[i].key]
  <2>1. js[i] \in Job /\ fences[js[i].key] \in Nat /\ 0 \in 0..MaxClaims
    BY DEF Job
  <2> QED  BY <2>1 DEF Job, Statuses
<1>3. ms \in [Ids -> Job]
  <2>1. \A i \in Ids : ms[i] \in Job
    <3> HIDE DEF ms, e
    <3> QED  BY <1>1, <1>2
  <2>2. ms = [i \in Ids |-> ms[i]]  BY DEF Marked
  <2> HIDE DEF ms
  <2> QED  BY <2>1, <2>2
<1> HIDE DEF ms, e
<1>4. \A i \in Ids : /\ Exists(ms, i) <=> Exists(js, i)
                     /\ ms[i].key = js[i].key
                     /\ js[i].status \notin Open => ms[i].status \notin Open
                     /\ ms[i].status \in Open => fences[js[i].key] = 0
  BY <1>1, <1>2 DEF Exists, Open
<1>5. Chained(ms)
  BY <1>4 DEF CopyFits, Chained
<1>6. Agree(ms, as)
  <2>1. ASSUME NEW i \in Ids, ms[i].status = "expired", ms[i].cursor = 0  PROVE as[i].by = 0
    <3>1. ms[i] = js[i]  BY <1>1, <1>2, <2>1
    <3> QED  BY <2>1, <3>1 DEF CopyFits, Agree
  <2>2. ASSUME NEW i \in Ids, ms[i].status = "completed", as[i].by # 0
        PROVE  as[i].by = ms[i].by /\ as[i].expires = ms[i].cursor
    <3>1. ms[i] = js[i]  BY <1>1, <1>2, <2>2
    <3> QED  BY <2>2, <3>1 DEF CopyFits, Agree
  <2> QED  BY <2>1, <2>2 DEF Agree
<1>7. Fenced(ms, fences, fenced)
  BY <1>1, <1>2 DEF CopyFits, Fenced, Exists, Open
<1>8. Issued(ms, made) /\ RunningHasToken(ms)
  BY <1>1, <1>2, <1>4 DEF CopyFits, Issued, RunningHasToken
<1> QED  BY <1>3, <1>4, <1>5, <1>6, <1>7, <1>8 DEF CopyFits, ms

LEMMA EmptyFits ==
  ASSUME fenced \subseteq Ids
  PROVE  /\ NoBackup \in Backup /\ CopyFits(NoBackup.jobs, NoBackup.archives)
         /\ NoBackup.jobs \in [Ids -> Job] /\ NoBackup.archives \in [Ids -> Archive]
         /\ \A i \in Ids : ~Exists(NoBackup.jobs, i) /\ NoBackup.jobs[i].status = "none"
<1>1. NoJob \in Job /\ NoJob.status = "none" /\ NoJob.token = 0
  BY OwnerDataExportAssumption DEF NoJob, Job, Statuses
<1>2. NoArchive \in Archive
  BY OwnerDataExportAssumption DEF NoArchive, Archive
<1>3. /\ \A i \in Ids : NoBackup.jobs[i] = NoJob
      /\ NoBackup.jobs \in [Ids -> Job] /\ NoBackup.archives \in [Ids -> Archive]
  BY <1>1, <1>2 DEF NoBackup
<1>4. NoBackup \in Backup
  BY <1>1, <1>2 DEF NoBackup, Backup
<1>5. \A i \in Ids : ~Exists(NoBackup.jobs, i)
  BY <1>1, <1>3 DEF Exists
<1>6. Chained(NoBackup.jobs) /\ Fenced(NoBackup.jobs, fences, fenced)
      /\ Issued(NoBackup.jobs, made)
  <2>1. \A i \in Ids : NoBackup.jobs[i].status \notin Open
    BY <1>1, <1>3 DEF Open
  <2> QED  BY <1>5, <2>1 DEF Chained, Fenced, Issued
<1>7. Agree(NoBackup.jobs, NoBackup.archives) /\ RunningHasToken(NoBackup.jobs)
  BY <1>1, <1>3 DEF Agree, RunningHasToken
<1> QED  BY <1>1, <1>3, <1>4, <1>5, <1>6, <1>7 DEF CopyFits

LEMMA InitFits ==
  ASSUME Init  PROVE IInv
<1>1. /\ jobs = NoBackup.jobs /\ archives = NoBackup.archives /\ backup = NoBackup
      /\ fenced = {} /\ fences = [k \in 0..MaxJobs |-> 0] /\ procs = [p \in Procs |-> Idle]
      /\ clock = 1 /\ made = 0 /\ tokens = 0 /\ faults = 0 /\ restores = 0
  BY DEF Init
<1>2. /\ NoBackup \in Backup /\ CopyFits(NoBackup.jobs, NoBackup.archives)
      /\ NoBackup.jobs \in [Ids -> Job] /\ NoBackup.archives \in [Ids -> Archive]
      /\ \A i \in Ids : ~Exists(NoBackup.jobs, i) /\ NoBackup.jobs[i].status = "none"
  BY <1>1, EmptyFits
<1>3. DataFits
  BY <1>1, <1>2 DEF DataFits, SameKeys, FencedIsNotRepeated
<1>4. Idle \in Frame /\ FrameFits(Idle, jobs, archives, tokens) /\ Idle.token = 0
  BY <1>1, IdleFits DEF Idle
<1>5. procs \in [Procs -> Frame] /\ FramesFit /\ OwnClaims
  BY <1>1, <1>4 DEF FramesFit, OwnClaims
<1>6. RestoreLeft
  BY <1>1 DEF RestoreLeft, NoBackup
<1>7. \A i \in Ids : (jobs[i].status = "running") = (jobs[i].token # 0)
  BY <1>1, <1>2 DEF CopyFits, RunningHasToken
<1>8. /\ clock \in 1..MaxClock /\ made \in 0..MaxJobs /\ tokens \in 0..MaxClaims
      /\ faults \in 0..MaxFaults /\ restores \in 0..MaxRestores
      /\ fences \in [0..MaxJobs -> Nat] /\ fenced \subseteq Ids
  BY <1>1, OwnerDataExportAssumption
<1>9. TypeOK
  BY <1>1, <1>2, <1>5, <1>7, <1>8 DEF TypeOK
<1> QED  BY <1>3, <1>5, <1>6, <1>9 DEF IInv

LEMMA RestoreKeeps ==
  ASSUME IInv, Restore  PROVE IInv'
<1>1. /\ backup.saved /\ jobs' = Marked(backup.jobs) /\ archives' = backup.archives
      /\ backup' = NoBackup /\ procs' = [p \in Procs |-> Idle] /\ restores' = restores + 1
      /\ UNCHANGED <<clock, fences, fenced, made, tokens, faults>>
  BY DEF Restore
<1>2. /\ backup.jobs \in [Ids -> Job] /\ backup.archives \in [Ids -> Archive]
      /\ fences \in [0..MaxJobs -> Nat] /\ fenced \subseteq Ids /\ MaxClaims \in Nat
      /\ CopyFits(backup.jobs, backup.archives) /\ tokens \in Nat
      /\ \A k \in fenced : k <= made
  BY OwnerDataExportAssumption DEF IInv, TypeOK, Backup, DataFits
<1>3. /\ CopyFits(Marked(backup.jobs), backup.archives) /\ Marked(backup.jobs) \in [Ids -> Job]
      /\ \A i \in Ids : Exists(Marked(backup.jobs), i) => fences[backup.jobs[i].key] = 0
                        \/ Marked(backup.jobs)[i].status \notin Open
  BY <1>2, MarkedFits
<1>4. CopyFits(jobs, archives)'
  BY <1>1, <1>3 DEF CopyFits, Chained, Agree, Fenced, Issued, RunningHasToken
<1>5. /\ NoBackup \in Backup /\ CopyFits(NoBackup.jobs, NoBackup.archives)
      /\ \A i \in Ids : ~Exists(NoBackup.jobs, i)
  BY <1>2, EmptyFits
<1>6. CopyFits(backup.jobs, backup.archives)'
  BY <1>1, <1>5 DEF CopyFits, Chained, Agree, Fenced, Issued, RunningHasToken
<1>7. SameKeys'
  BY <1>1, <1>5 DEF SameKeys
<1>8. FencedIsNotRepeated'
  <2>1. ASSUME NEW i \in fenced  PROVE Marked(backup.jobs)[i].status \notin Open
    <3>1. i \in Ids  BY <1>2
    <3>2. CASE Exists(backup.jobs, i)
      <4>1. fences[backup.jobs[i].key] # 0
        BY <1>2, <3>2 DEF CopyFits, Fenced
      <4> QED  BY <1>3, <3>1, <4>1 DEF Exists, Open
    <3>3. CASE ~Exists(backup.jobs, i)
      BY <3>1, <3>3 DEF Exists, Marked, Open
    <3> QED  BY <3>2, <3>3
  <2> QED  BY <1>1, <2>1 DEF FencedIsNotRepeated
<1>9. DataFits'
  BY <1>1, <1>2, <1>4, <1>6, <1>7, <1>8 DEF DataFits
<1>10. Idle \in Frame /\ FrameFits(Idle, jobs', archives', tokens') /\ Idle.token = 0
  BY <1>1, <1>2, IdleFits DEF Idle
<1>11. procs' \in [Procs -> Frame] /\ FramesFit' /\ OwnClaims'
  BY <1>1, <1>10 DEF FramesFit, OwnClaims
<1>12. RestoreLeft' /\ restores' \in 0..MaxRestores
  BY <1>1, OwnerDataExportAssumption DEF IInv, TypeOK, RestoreLeft, NoBackup
<1>13. \A i \in Ids : (jobs'[i].status = "running") = (jobs'[i].token # 0)
  BY <1>4 DEF CopyFits, RunningHasToken
<1>14. TypeOK'
  BY <1>1, <1>2, <1>3, <1>5, <1>11, <1>12, <1>13 DEF IInv, TypeOK
<1> QED  BY <1>9, <1>11, <1>12, <1>14 DEF IInv

-----------------------------------------------------------------------------
(* The theorems.                                                           *)

LEMMA NextKeeps ==
  ASSUME IInv, [Next]_vars  PROVE IInv'
<1>1. ASSUME NEW p \in Procs, Step(p)  PROVE IInv'
  BY <1>1, EnqueueKeeps, MarkKeeps, DeleteKeeps, ClearKeeps, SelectNextKeeps, StopClaimingKeeps,
     ClaimNextKeeps, PresentKeeps, PutKeeps, CompleteKeeps, FenceDeliveryKeeps,
     RecordFailureKeeps, ListExpiredKeeps, SweepNextKeeps, SelectOrphansKeeps, PurgeKeeps,
     EndsKeep DEF Step
<1>2. ASSUME NEW p \in Procs, Failure(p)  PROVE IInv'
  BY <1>2, CleanupFailsKeeps, WorkFailsKeeps, EndsKeep DEF Failure
<1>3. ASSUME NEW p \in Procs, Request(p) \/ StartPass(p)  PROVE IInv'
  BY <1>3, RequestKeeps, StartPassKeeps
<1>4. ASSUME NEW p \in Procs, NEW i \in Ids, Download(p, i) \/ Consume(p, i)  PROVE IInv'
  BY <1>4, DownloadKeeps, ConsumeKeeps
<1>5. CASE Tick  BY <1>5, TickKeeps
<1>6. CASE SaveBackup  BY <1>6, SaveBackupKeeps
<1>7. CASE Restore  BY <1>7, RestoreKeeps
<1>8. CASE UNCHANGED vars
  <2>1. UNCHANGED <<clock, jobs, archives, fences, fenced, backup, procs, made, tokens, faults, restores>>
    BY <1>8 DEF vars
  <2>2. TypeOK' /\ RestoreLeft' /\ OwnClaims'
    BY <2>1 DEF IInv, TypeOK, RestoreLeft, OwnClaims
  <2>3. DataFits'
    BY <2>1 DEF IInv, DataFits, CopyFits, FencedIsNotRepeated, SameKeys, Chained, Agree, Fenced,
                Issued, RunningHasToken
  <2>4. FramesFit'
    BY <2>1 DEF IInv, FramesFit
  <2> QED  BY <2>2, <2>3, <2>4 DEF IInv
<1> QED  BY <1>1, <1>2, <1>3, <1>4, <1>5, <1>6, <1>7, <1>8 DEF Next

LEMMA Inductive == Spec => []IInv
<1>1. Init => IInv  BY InitFits
<1>2. IInv /\ [Next]_vars => IInv'  BY NextKeeps
<1> QED  BY <1>1, <1>2, PTL DEF Spec

\* Every variable keeps its type, and a row has a claim token exactly while it
\* is running (the schema's claim columns).
THEOREM TypeCorrect == Spec => []TypeOK
<1>1. IInv => TypeOK  BY DEF IInv
<1> QED  BY <1>1, Inductive, PTL

\* An owner never has two unfinished exports, however the requests, the
\* invocations and the restores interleave: ownerDataExportIdempotencyKey.
THEOREM OneExportAtATime == Spec => []OneOpenExport
<1>1. IInv => OneOpenExport  BY DEF IInv, DataFits, CopyFits, Chained, OneOpenExport
<1> QED  BY <1>1, Inductive, PTL

\* The archive of a completed export is the one its own claim wrote: the claim
\* token in put and markCompleted keeps out every worker that was overtaken.
THEOREM ArchivesAreTheClaims == Spec => []ArchiveIsTheClaims
<1>1. IInv => ArchiveIsTheClaims  BY DEF IInv, DataFits, CopyFits, Agree, ArchiveIsTheClaims
<1> QED  BY <1>1, Inductive, PTL

\* No cleanup that is taken for finished leaves bytes behind: markExpired keeps
\* the cursor until markArtifactDeleted.
THEOREM CursorsOutliveBytes == Spec => []CursorOutlivesBytes
<1>1. IInv => CursorOutlivesBytes  BY DEF IInv, DataFits, CopyFits, Agree, CursorOutlivesBytes
<1> QED  BY <1>1, Inductive, PTL

\* A restore never puts a fenced export to work again: markFencedExportJobs.
THEOREM FencedStaysOver == Spec => []FencedIsNotRepeated
<1>1. IInv => FencedIsNotRepeated  BY DEF IInv, DataFits
<1> QED  BY <1>1, Inductive, PTL
=============================================================================
