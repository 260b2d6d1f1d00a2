-------------------------- MODULE SoleExecutionProofs --------------------------
(***************************************************************************)
(* A run whose template never pauses, whose steps are quicker than the     *)
(* reaper's patience: however many workers there are, and however often    *)
(* they and the API processes crash, jobs fail and runs are replayed, one  *)
(* leg at a time drives it, its outcome is final, it is not forgotten      *)
(* while it is queued, except as Forgotten tells, and its first replay     *)
(* carries out no recorded step again.                                     *)
(***************************************************************************)
EXTENDS RunExecutionProofs

\* No step waits or asks for an approval; no step takes RUN_REAPER_STALE_MS.
Straight ==
    /\ \A i \in Steps : Template[i] \in {"action", "pure"}
    /\ ~SlowSteps

----------------------------------------------------------------------------
(* The inductive invariant                                                 *)

Live(j) == jobs[j].state \in {"ready", "active", "stalled"}
JobsGone(j) == jobs[j].state = "absent"

\* A leg past the run's start, until it has written the outcome.
Drives == {"step", "begin", "exec", "record", "fail"}

\* A leg has a job or it is idle, adding the first job, or marking the run failed.
ShapeOK(s) ==
    /\ leg[s].pc \in {"idle", "enqueue_start", "load", "start", "return", "throw", "mark"}
                        \union Drives
    /\ leg[s].pc \in {"idle", "enqueue_start", "mark"} <=> leg[s].job = NoJob
    /\ leg[s].job # NoJob => ProcOf[s] \in Workers
    /\ leg[s].outcome \in {"next", "fail"}

Statuses4 == {"none", "queued", "running", "completed", "failed"}

\* What the row says where a leg, or a job, has come so far.
RowOK(s) ==
    /\ leg[s].pc \in {"enqueue_start", "start", "throw", "mark"} => row.status = "queued"
    /\ leg[s].pc \in Drives => row.status = "running" /\ cache[ProcOf[s]] = row
    /\ leg[s].pc = "return" => row.status # "queued"
    /\ leg[s].pc = "enqueue_start" => attempts = 0 /\ JobsGone(StartJob)
    /\ leg[s].pc = "mark" => jobs[LatestJob].state = "dropped"

LegsAgree ==
    /\ \A s \in Slots : ShapeOK(s) /\ RowOK(s)
    /\ \A s, t \in Slots :
           leg[s].pc = leg[t].pc /\ leg[s].pc \in {"enqueue_start", "mark"} => s = t

\* The only job that can run the run is the last that was added.
JobsAgree ==
    /\ \A j \in JobId : Live(j) => j = LatestJob
    /\ \A j \in JobId : jobs[j].state = "active" => \E s \in Slots : leg[s].job = j
    /\ \A j \in JobId : jobs[j].state = "ready" => row.status = "queued"
    /\ \A a \in 1..MaxAttempts : a > attempts => JobsGone(ResumeJob(a))

ReapingAgrees ==
    /\ \A w \in Workers : reaping[w] # 0 =>
           reaping[w] = attempts /\ JobsGone(ResumeJob(attempts)) /\ row.status = "queued"
    /\ \A v, w \in Workers : reaping[v] # 0 /\ reaping[w] # 0 => v = w

\* Before the run is created there is nothing, and an ended run has ended for all.
RowAgrees ==
    /\ row.status \in Statuses4
    /\ row.status = "none" =>
           /\ attempts = 0
           /\ \A j \in JobId : JobsGone(j)
           /\ \A s \in Slots : leg[s].pc = "idle"

CachesAgree ==
    \A w \in Workers :
        /\ cache[w] = NoRun \/ cache[w].status \in {"running", "completed", "failed"}
        /\ cache[w] # NoRun /\ cache[w].status \in Terminal => row.status \in Terminal
        /\ cache[w].status = "running" =>
               \E s \in Slots : ProcOf[s] = w /\ leg[s].pc \in Drives

SInv ==
    /\ LegsAgree /\ JobsAgree /\ ReapingAgrees /\ RowAgrees /\ CachesAgree
    /\ QueuedIsScheduled

\* Where the row's status and the replays may go in a step.
RowMoves ==
    \/ row' = row /\ attempts' = attempts
    \/ row.status = "none" /\ row'.status = "queued" /\ attempts' = attempts
    \/ row.status = "queued" /\ row'.status \in {"running", "failed"} /\ attempts' = attempts
    \/ /\ row.status = "running" /\ row'.status \in {"running", "completed", "failed"}
       /\ attempts' = attempts
    \/ /\ row.status = "running" /\ row'.status = "queued"
       /\ attempts < MaxAttempts /\ attempts' = attempts + 1

Holds == IInv /\ SInv /\ Straight

----------------------------------------------------------------------------
(* Who may be at work                                                      *)

LEMMA LatestFacts ==
    ASSUME IInv
    PROVE  /\ LatestJob \in JobId /\ LatestJob # NoJob
           /\ attempts = 0 => LatestJob = StartJob
           /\ attempts # 0 => LatestJob = ResumeJob(attempts)
           /\ attempts \in Nat
  BY JobFacts, NumberFacts DEF IInv, CountsOK, LatestJob

LEMMA LegJobs ==
    ASSUME IInv
    PROVE  \A s \in Slots : leg[s].job \in JobId \union {NoJob}
  BY DEF IInv, LegsOK, Leg

Quiet(s) == leg[s].pc = "idle" /\ leg[s].job = NoJob

\* Whoever has the run's job has it alone.
LEMMA JobHolder ==
    ASSUME Holds, NEW s \in Slots, leg[s].job # NoJob
    PROVE  /\ leg[s].job = LatestJob /\ jobs[LatestJob].state = "active"
           /\ \A j \in JobId : Live(j) => j = LatestJob
           /\ \A t \in Slots \ {s} : Quiet(t)
           /\ \A w \in Workers : reaping[w] = 0
           /\ row.status # "none"
  <1>1. leg[s].job \in JobId /\ jobs[leg[s].job].state = "active"
    BY LegJobs DEF Holds, IInv, JobsOK, Held
  <1>2. leg[s].job = LatestJob
    BY <1>1 DEF Holds, SInv, JobsAgree, Live
  <1>3. ASSUME NEW t \in Slots \ {s}
        PROVE  Quiet(t)
    <2>1. leg[t].job = NoJob
      <3>1. CASE leg[t].job # NoJob
        <4>1. leg[t].job \in JobId /\ jobs[leg[t].job].state = "active"
          BY <3>1, LegJobs DEF Holds, IInv, JobsOK, Held
        <4>2. leg[t].job = leg[s].job
          BY <1>2, <4>1 DEF Holds, SInv, JobsAgree, Live
        <4> QED
          BY <4>2, <3>1 DEF Holds, IInv, JobsOK, Held
      <3> QED
        BY <3>1
    <2>2. leg[t].pc \in {"idle", "enqueue_start", "mark"}
      BY <2>1 DEF Holds, SInv, LegsAgree, ShapeOK
    <2>3. leg[t].pc # "enqueue_start"
      BY <1>1, <1>2, LatestFacts DEF Holds, SInv, LegsAgree, RowOK, JobsGone
    <2>4. leg[t].pc # "mark"
      BY <1>1, <1>2 DEF Holds, SInv, LegsAgree, RowOK
    <2> QED
      BY <2>1, <2>2, <2>3, <2>4 DEF Quiet
  <1>4. \A w \in Workers : reaping[w] = 0
    BY <1>1, <1>2, LatestFacts DEF Holds, SInv, ReapingAgrees, JobsGone
  <1>5. row.status # "none"
    BY <1>1 DEF Holds, SInv, RowAgrees, JobsGone
  <1> QED
    BY <1>1, <1>2, <1>3, <1>4, <1>5 DEF Holds, SInv, JobsAgree

\* While a live job waits for a slot nobody is at work.
LEMMA JobWaits ==
    ASSUME Holds, NEW j \in JobId, jobs[j].state \in {"ready", "stalled"}
    PROVE  /\ j = LatestJob
           /\ \A s \in Slots : Quiet(s)
           /\ \A w \in Workers : reaping[w] = 0
           /\ row.status # "none"
  <1>1. j = LatestJob
    BY DEF Holds, SInv, JobsAgree, Live
  <1>2. \A s \in Slots : leg[s].job = NoJob
    BY <1>1, JobHolder
  <1>3. \A s \in Slots : leg[s].pc \in {"idle", "enqueue_start", "mark"}
    BY <1>2 DEF Holds, SInv, LegsAgree, ShapeOK
  <1>4. \A s \in Slots : leg[s].pc # "enqueue_start"
    BY <1>1, LatestFacts DEF Holds, SInv, LegsAgree, RowOK, JobsGone
  <1>5. \A s \in Slots : leg[s].pc # "mark"
    BY <1>1 DEF Holds, SInv, LegsAgree, RowOK
  <1>6. \A w \in Workers : reaping[w] = 0
    BY <1>1, LatestFacts DEF Holds, SInv, ReapingAgrees, JobsGone
  <1>7. row.status # "none"
    BY DEF Holds, SInv, RowAgrees, JobsGone
  <1> QED
    BY <1>1, <1>2, <1>3, <1>4, <1>5, <1>6, <1>7 DEF Quiet

\* So it is while the first job is being added or a run is being marked failed.
LEMMA Alone ==
    ASSUME Holds, NEW s \in Slots, leg[s].pc \in {"enqueue_start", "mark"}
    PROVE  /\ \A j \in JobId : ~Live(j)
           /\ \A t \in Slots \ {s} : Quiet(t)
           /\ \A w \in Workers : reaping[w] = 0
           /\ row.status = "queued"
  <1>1. jobs[LatestJob].state \in {"absent", "dropped"}
    BY LatestFacts DEF Holds, SInv, LegsAgree, RowOK, JobsGone
  <1>2. \A j \in JobId : ~Live(j)
    BY <1>1 DEF Holds, SInv, JobsAgree, Live
  <1>3. \A t \in Slots : leg[t].job = NoJob
    BY <1>1, JobHolder
  <1>4. \A t \in Slots : leg[t].pc \in {"idle", "enqueue_start", "mark"}
    BY <1>3 DEF Holds, SInv, LegsAgree, ShapeOK
  <1>5. \A t \in Slots \ {s} : leg[t].pc = "idle"
    BY <1>4, LatestFacts DEF Holds, SInv, LegsAgree, RowOK, JobsGone
  <1>6. \A w \in Workers : reaping[w] = 0
    BY LatestFacts DEF Holds, SInv, LegsAgree, RowOK, ReapingAgrees, JobsGone
  <1>7. row.status = "queued"
    BY DEF Holds, SInv, LegsAgree, RowOK
  <1> QED
    BY <1>2, <1>3, <1>5, <1>6, <1>7 DEF Quiet

\* And while the reaper has claimed a run and not enqueued it.
LEMMA Claimed ==
    ASSUME Holds, NEW w \in Workers, reaping[w] # 0
    PROVE  /\ \A j \in JobId : ~Live(j)
           /\ \A s \in Slots : Quiet(s)
           /\ \A v \in Workers \ {w} : reaping[v] = 0
           /\ reaping[w] = attempts /\ attempts # 0
           /\ LatestJob = ResumeJob(attempts) /\ jobs[LatestJob].state = "absent"
           /\ row.status = "queued"
  <1>1. /\ reaping[w] = attempts /\ attempts # 0 /\ row.status = "queued"
        /\ LatestJob = ResumeJob(attempts) /\ jobs[LatestJob].state = "absent"
    BY LatestFacts DEF Holds, SInv, ReapingAgrees, JobsGone
  <1>2. \A j \in JobId : ~Live(j)
    BY <1>1 DEF Holds, SInv, JobsAgree, Live
  <1>3. \A t \in Slots : leg[t].job = NoJob
    BY <1>1, JobHolder
  <1>4. \A t \in Slots : leg[t].pc \in {"idle", "enqueue_start", "mark"}
    BY <1>3 DEF Holds, SInv, LegsAgree, ShapeOK
  <1>5. \A t \in Slots : leg[t].pc \notin {"enqueue_start", "mark"}
    BY Alone
  <1>6. \A v \in Workers \ {w} : reaping[v] = 0
    BY DEF Holds, SInv, ReapingAgrees
  <1> QED
    BY <1>1, <1>2, <1>3, <1>4, <1>5, <1>6 DEF Quiet

\* A worker's copy says queued only where it is the row.
LEMMA WorkerCopy ==
    ASSUME Holds, NEW s \in Slots, ProcOf[s] \in Workers
    PROVE  Copy(s).status = "queued" <=> row.status = "queued"
  <1>1. CASE cache[ProcOf[s]] = NoRun
    BY <1>1 DEF Copy, Current
  <1>2. CASE cache[ProcOf[s]] # NoRun
    <2>1. Copy(s) = cache[ProcOf[s]]
      BY <1>2 DEF Copy, Current
    <2>2. Copy(s).status \in {"running", "completed", "failed"}
      BY <1>2, <2>1 DEF Holds, SInv, CachesAgree
    <2>3. row.status # "queued"
      BY <1>2, <2>1, <2>2 DEF Holds, SInv, CachesAgree, LegsAgree, RowOK, Terminal
    <2> QED
      BY <2>2, <2>3
  <1> QED
    BY <1>1, <1>2

----------------------------------------------------------------------------
(* Frames                                                                  *)

\* What the parts of SInv say where every slot but one is idle.
LEMMA LegsAgreeAlone ==
    ASSUME Holds, NEW s \in Slots, NEW l \in Leg, Goto(s, l),
           \A t \in Slots \ {s} : Quiet(t),
           ShapeOK(s)', RowOK(s)'
    PROVE  LegsAgree'
  <1>1. \A t \in Slots \ {s} : leg'[t] = leg[t]
    BY DEF Goto, Holds, IInv, LegsOK
  <1>2. ASSUME NEW t \in Slots \ {s}
        PROVE  ShapeOK(t)' /\ RowOK(t)'
    BY <1>1, <1>2 DEF Quiet, Holds, SInv, LegsAgree, ShapeOK, RowOK, Drives
  <1> QED
    BY <1>1, <1>2 DEF LegsAgree, Quiet

\* No worker but the one that drives the run has a copy of a run that is not over.
LEMMA NoCopies ==
    ASSUME Holds, row.status \notin Terminal, NEW w \in Workers,
           \A s \in Slots : ProcOf[s] = w => leg[s].pc \notin Drives
    PROVE  cache[w] = NoRun
  BY DEF Holds, SInv, CachesAgree, Terminal

\* A leg that has the job and goes on with it: the run is written by its process.
LEMMA DrivingStep ==
    ASSUME Holds, NEW s \in Slots, leg[s].pc \in Drives \union {"start"},
           NEW l \in Leg, Goto(s, l), l.job = leg[s].job, l.outcome \in {"next", "fail"},
           NEW run \in Run, Update(s, run),
           UNCHANGED <<jobs, attempts, reaping, crashes>>,
           \/ run.status = "running" /\ l.pc \in Drives
           \/ run.status \in {"completed", "failed"} /\ l.pc = "return" /\ leg[s].pc # "start"
    PROVE  SInv' /\ RowMoves
  <1>1. leg[s].job # NoJob /\ ProcOf[s] \in Workers
    BY DEF Holds, SInv, LegsAgree, ShapeOK, Drives
  <1>2. /\ leg[s].job = LatestJob /\ jobs[LatestJob].state = "active"
        /\ \A j \in JobId : Live(j) => j = LatestJob
        /\ \A t \in Slots \ {s} : Quiet(t)
        /\ \A w \in Workers : reaping[w] = 0
    BY <1>1, JobHolder
  <1>3. leg'[s] = l /\ \A t \in Slots \ {s} : leg'[t] = leg[t]
    BY DEF Goto, Holds, IInv, LegsOK
  <1>4. /\ row' = run /\ cache'[ProcOf[s]] = run
        /\ \A p \in Processes \ {ProcOf[s]} : cache'[p] = cache[p]
    BY ProcOfIsProcess DEF Update, UpdateIn, Holds, IInv, RunsOK
  <1>5. row.status \in {"queued", "running"} /\ (leg[s].pc # "start" => row.status = "running")
    BY DEF Holds, SInv, LegsAgree, RowOK, Drives
  <1>6. LegsAgree'
    <2>1. ShapeOK(s)'
      BY <1>1, <1>3 DEF ShapeOK, Drives
    <2>2. RowOK(s)'
      BY <1>3, <1>4 DEF RowOK, Drives
    <2> QED
      BY <1>2, <2>1, <2>2, LegsAgreeAlone
  <1>7. JobsAgree'
    <2>1. \A j \in JobId : jobs[j].state # "ready"
      BY <1>2 DEF Live
    <2>2. LatestJob' = LatestJob
      BY DEF LatestJob
    <2>3. \A j \in JobId : jobs[j].state = "active" => leg'[s].job = j
      BY <1>2, <1>3 DEF Live
    <2> QED
      BY <2>1, <2>2, <2>3 DEF Holds, SInv, JobsAgree, Live, JobsGone
  <1>8. ReapingAgrees'
    BY <1>2 DEF ReapingAgrees
  <1>9. RowAgrees'
    BY <1>4 DEF RowAgrees, Statuses4
  <1>10. CachesAgree'
    <2>1. ASSUME NEW w \in Workers \ {ProcOf[s]}
          PROVE  cache'[w] = NoRun
      <3>1. \A t \in Slots : ProcOf[t] = w => leg[t].pc \notin Drives
        BY <1>2 DEF Quiet, Drives
      <3>2. cache[w] = NoRun
        BY <1>5, <3>1, NoCopies DEF Terminal
      <3> QED
        BY <1>4, <3>2 DEF Processes
    <2> QED
      BY <1>3, <1>4, <2>1 DEF CachesAgree, Terminal, NoRun
  <1>11. QueuedIsScheduled'
    BY <1>4 DEF QueuedIsScheduled
  <1>12. RowMoves
    BY <1>4, <1>5 DEF RowMoves
  <1> QED
    BY <1>6, <1>7, <1>8, <1>9, <1>10, <1>11, <1>12 DEF SInv

\* A leg that has the job goes on with it, and the run stays as it is.
LEMMA HeldStep ==
    ASSUME Holds, NEW s \in Slots, leg[s].job # NoJob,
           NEW l \in Leg, Goto(s, l), l.job = leg[s].job,
           UNCHANGED <<row, cache, jobs, attempts, reaping, crashes>>,
           leg[s].pc \in Drives => l.pc \in Drives,
           ShapeOK(s)', RowOK(s)'
    PROVE  SInv' /\ RowMoves
  <1>2. /\ leg[s].job = LatestJob /\ jobs[LatestJob].state = "active"
        /\ \A j \in JobId : Live(j) => j = LatestJob
        /\ \A t \in Slots \ {s} : Quiet(t)
        /\ \A w \in Workers : reaping[w] = 0
        /\ row.status # "none"
    BY JobHolder
  <1>3. leg'[s] = l /\ \A t \in Slots \ {s} : leg'[t] = leg[t]
    BY DEF Goto, Holds, IInv, LegsOK
  <1>4. LatestJob' = LatestJob /\ LatestJob \in JobId
    BY LatestFacts DEF LatestJob, Holds
  <1>5. LegsAgree'
    BY <1>2, LegsAgreeAlone
  <1>6. JobsAgree'
    <2>1. \A t \in Slots : leg'[t].job = leg[t].job
      BY <1>3
    <2> QED
      BY <1>4, <2>1 DEF Holds, SInv, JobsAgree, Live, JobsGone
  <1>7. ReapingAgrees' /\ RowAgrees'
    BY <1>2 DEF Holds, SInv, ReapingAgrees, RowAgrees
  <1>8. CachesAgree'
    BY <1>3 DEF Holds, SInv, CachesAgree
  <1>9. QueuedIsScheduled'
    <2>1. Scheduled'
      BY <1>2, <1>4 DEF Scheduled
    <2> QED
      BY <2>1 DEF QueuedIsScheduled
  <1> QED
    BY <1>5, <1>6, <1>7, <1>8, <1>9 DEF SInv, RowMoves

----------------------------------------------------------------------------
(* The steps of a slot that has the job                                    *)

LEMMA SkipKeeps ==
    ASSUME Holds, NEW s \in Slots, SkipRun(s)
    PROVE  SInv' /\ RowMoves
  <1> DEFINE l == [leg[s] EXCEPT !.pc = "return"]
  <1>1. leg[s].pc = "load" /\ leg[s].job # NoJob /\ ProcOf[s] \in Workers
    BY DEF SkipRun, At, Holds, SInv, LegsAgree, ShapeOK
  <1>2. l \in Leg /\ l.pc = "return" /\ l.job = leg[s].job /\ l.outcome = leg[s].outcome
    BY LegFacts DEF Leg, Holds
  <1>3. Goto(s, l) /\ UNCHANGED <<row, cache, jobs, attempts, reaping, crashes>>
    BY DEF SkipRun, Done, elsewhere
  <1>4. leg'[s] = l
    BY <1>3 DEF Goto, Holds, IInv, LegsOK
  <1>5. row.status # "queued"
    BY <1>1, WorkerCopy DEF SkipRun, Queued
  <1>6. ShapeOK(s)' /\ RowOK(s)'
    BY <1>1, <1>2, <1>3, <1>4, <1>5 DEF ShapeOK, RowOK, Drives, Holds, SInv, LegsAgree
  <1> QED
    BY <1>1, <1>2, <1>3, <1>6, HeldStep DEF Drives

LEMMA StartFailsKeeps ==
    ASSUME Holds, NEW s \in Slots, StartFails(s)
    PROVE  SInv' /\ RowMoves
  <1> DEFINE l == [leg[s] EXCEPT !.pc = "throw"]
  <1>1. leg[s].pc = "start" /\ leg[s].job # NoJob /\ ProcOf[s] \in Workers
    BY DEF StartFails, At, Holds, SInv, LegsAgree, ShapeOK
  <1>2. l \in Leg /\ l.pc = "throw" /\ l.job = leg[s].job /\ l.outcome = leg[s].outcome
    BY LegFacts DEF Leg, Holds
  <1>3. Goto(s, l) /\ UNCHANGED <<row, cache, jobs, attempts, reaping, crashes>>
    BY DEF StartFails, elsewhere
  <1>4. leg'[s] = l
    BY <1>3 DEF Goto, Holds, IInv, LegsOK
  <1>5. ShapeOK(s)' /\ RowOK(s)'
    BY <1>1, <1>2, <1>3, <1>4 DEF ShapeOK, RowOK, Drives, Holds, SInv, LegsAgree
  <1> QED
    BY <1>1, <1>2, <1>3, <1>5, HeldStep DEF Drives

LEMMA LoadKeeps ==
    ASSUME Holds, NEW s \in Slots, LoadRun(s)
    PROVE  SInv' /\ RowMoves
  <1>1. leg[s].pc = "load" /\ leg[s].job # NoJob /\ ProcOf[s] \in Workers
    BY DEF LoadRun, At, Holds, SInv, LegsAgree, ShapeOK
  <1>2. leg' \in [Slots -> Leg]
    BY LoadStep DEF Holds, IInv, LegsOK
  <1>3. /\ leg'[s].pc = "start" /\ leg'[s].job = leg[s].job /\ leg'[s].outcome = leg[s].outcome
        /\ Goto(s, leg'[s])
        /\ UNCHANGED <<row, cache, jobs, attempts, reaping, crashes>>
    BY LegFacts DEF LoadRun, Goto, elsewhere, Holds, IInv, LegsOK, Leg
  <1>4. row.status = "queued"
    BY <1>1, WorkerCopy DEF LoadRun, Queued
  <1>5. ShapeOK(s)' /\ RowOK(s)'
    BY <1>1, <1>3, <1>4 DEF ShapeOK, RowOK, Drives, Holds, SInv, LegsAgree
  <1> QED
    BY <1>1, <1>2, <1>3, <1>5, HeldStep DEF Drives

\* Steps that write the run, told by what they leave in the leg and the row.
LEMMA WritingStep ==
    ASSUME Holds, IInv', NEW s \in Slots, leg[s].pc \in Drives \union {"start"},
           Goto(s, leg'[s]), leg'[s].job = leg[s].job, leg'[s].outcome = leg[s].outcome,
           Update(s, row'), UNCHANGED <<jobs, attempts, reaping, crashes>>,
           \/ row'.status = "running" /\ leg'[s].pc \in Drives
           \/ /\ row'.status \in {"completed", "failed"} /\ leg'[s].pc = "return"
              /\ leg[s].pc # "start"
    PROVE  SInv' /\ RowMoves
  <1>1. leg'[s] \in Leg /\ row' \in Run
    BY DEF IInv, LegsOK, RunsOK
  <1>2. leg'[s].outcome \in {"next", "fail"}
    BY DEF Holds, SInv, LegsAgree, ShapeOK
  <1> QED
    BY <1>1, <1>2, DrivingStep

\* The run its leg drives is in its process's memory as it is in the row.
LEMMA DrivenCopy ==
    ASSUME Holds, NEW s \in Slots, leg[s].pc \in Drives
    PROVE  Copy(s) = row /\ row.status = "running" /\ row \in Run
  BY DEF Holds, SInv, LegsAgree, RowOK, Copy, Current, IInv, RunsOK

LEMMA StartKeeps ==
    ASSUME Holds, IInv', NEW s \in Slots, StartRun(s)
    PROVE  SInv' /\ RowMoves
  <1>1. leg[s] \in Leg /\ leg[s].pc = "start" /\ Copy(s) \in Run
    BY LegFacts, CopyFacts DEF StartRun, At, Holds
  <1>2. /\ leg'[s].pc = "step" /\ leg'[s].job = leg[s].job /\ leg'[s].outcome = leg[s].outcome
        /\ Goto(s, leg'[s])
    BY <1>1 DEF StartRun, Goto, Holds, IInv, LegsOK, Leg
  <1>3. row'.status = "running" /\ Update(s, row')
    BY <1>1 DEF StartRun, Update, UpdateIn, Run
  <1>4. UNCHANGED <<jobs, attempts, reaping, crashes>>
    BY DEF StartRun, elsewhere
  <1> QED
    BY <1>1, <1>2, <1>3, <1>4, WritingStep DEF Drives

LEMMA ReachKeeps ==
    ASSUME Holds, IInv', NEW s \in Slots, ReachStep(s)
    PROVE  SInv' /\ RowMoves
  <1>1. leg[s] \in Leg /\ leg[s].pc = "step"
    BY LegFacts DEF ReachStep, At, Holds
  <1>2. Copy(s) \in Run /\ Copy(s).status = "running"
    BY <1>1, DrivenCopy DEF Drives
  <1>3. /\ leg'[s].pc = "begin" /\ leg'[s].job = leg[s].job /\ leg'[s].outcome = leg[s].outcome
        /\ Goto(s, leg'[s])
    BY <1>1 DEF ReachStep, Goto, Holds, IInv, LegsOK, Leg
  <1>4. row'.status = "running" /\ Update(s, row')
    BY <1>2 DEF ReachStep, Reached, Update, UpdateIn, Run
  <1>5. UNCHANGED <<jobs, attempts, reaping, crashes>>
    BY DEF ReachStep, elsewhere
  <1> QED
    BY <1>1, <1>3, <1>4, <1>5, WritingStep DEF Drives

LEMMA BeginKeeps ==
    ASSUME Holds, IInv', NEW s \in Slots, BeginStep(s)
    PROVE  SInv' /\ RowMoves
  <1>1. leg[s] \in Leg /\ leg[s].pc = "begin"
    BY LegFacts DEF BeginStep, At, Holds
  <1>2. Copy(s) \in Run /\ Copy(s).status = "running"
    BY <1>1, DrivenCopy DEF Drives
  <1>3. /\ leg'[s].pc = "exec" /\ leg'[s].job = leg[s].job /\ leg'[s].outcome = leg[s].outcome
        /\ Goto(s, leg'[s])
    BY <1>1 DEF BeginStep, Goto, Holds, IInv, LegsOK, Leg
  <1>4. row'.status = "running" /\ Update(s, row')
    BY <1>2 DEF BeginStep, Update, UpdateIn, Run
  <1>5. UNCHANGED <<jobs, attempts, reaping, crashes>>
    BY DEF BeginStep, elsewhere
  <1> QED
    BY <1>1, <1>3, <1>4, <1>5, WritingStep DEF Drives

LEMMA RecordKeeps ==
    ASSUME Holds, IInv', NEW s \in Slots, RecordStep(s)
    PROVE  SInv' /\ RowMoves
  <1>1. leg[s] \in Leg /\ leg[s].pc = "record" /\ leg[s].outcome \in {"next", "fail"}
    BY LegFacts DEF RecordStep, At, Holds, SInv, LegsAgree, ShapeOK
  <1>2. Copy(s) \in Run /\ Copy(s).status = "running"
    BY <1>1, DrivenCopy DEF Drives
  <1>3. /\ leg'[s].pc \in {"step", "fail"}
        /\ leg'[s].job = leg[s].job /\ leg'[s].outcome = leg[s].outcome
        /\ Goto(s, leg'[s])
    <2> DEFINE pc == CASE leg[s].outcome = "next" -> "step"
                       [] leg[s].outcome = "fail" -> "fail"
                       [] leg[s].outcome = "wait" -> "pause"
                       [] leg[s].outcome = "hook" -> "hook"
                       [] leg[s].outcome = "park" -> "return"
               at == IF leg[s].outcome = "next" THEN leg[s].at + 1 ELSE leg[s].at
               results == leg'[s].results
               l == [leg[s] EXCEPT !.results = results, !.at = at, !.pc = pc]
    <2>1. leg' = [leg EXCEPT ![s] = leg'[s]] /\ leg'[s] = l
      BY <1>1 DEF RecordStep, Goto, Holds, IInv, LegsOK, Leg
    <2>2. pc \in {"step", "fail"}
      BY <1>1
    <2> HIDE DEF pc, at, results
    <2>3. l.pc = pc /\ l.job = leg[s].job /\ l.outcome = leg[s].outcome
      BY <1>1 DEF Leg
    <2> QED
      BY <2>1, <2>2, <2>3 DEF Goto
  <1>4. row'.status = "running" /\ Update(s, row')
    BY <1>2 DEF RecordStep, Update, UpdateIn, Run
  <1>5. UNCHANGED <<jobs, attempts, reaping, crashes>>
    BY DEF RecordStep
  <1> QED
    BY <1>1, <1>3, <1>4, <1>5, WritingStep DEF Drives

\* The outcome is written and the leg returns.
LEMMA EndKeeps ==
    ASSUME Holds, IInv', NEW s \in Slots, DeadlinePasses(s) \/ CompleteRun(s) \/ FailRun(s)
    PROVE  SInv' /\ RowMoves
  <1>1. leg[s] \in Leg /\ leg[s].pc \in {"step", "fail"}
    BY LegFacts DEF DeadlinePasses, CompleteRun, FailRun, At, Holds
  <1>2. Copy(s) \in Run
    BY CopyFacts DEF Holds
  <1>3. /\ leg'[s].pc = "return" /\ leg'[s].job = leg[s].job
        /\ leg'[s].outcome = leg[s].outcome /\ Goto(s, leg'[s])
    BY <1>1 DEF DeadlinePasses, CompleteRun, FailRun, Done, Goto, Holds, IInv, LegsOK, Leg
  <1>4. row'.status \in {"completed", "failed"} /\ Update(s, row')
    BY <1>2 DEF DeadlinePasses, CompleteRun, FailRun, Reached, Update, UpdateIn, Run
  <1>5. UNCHANGED <<jobs, attempts, reaping, crashes>>
    BY DEF DeadlinePasses, CompleteRun, FailRun, elsewhere
  <1> QED
    BY <1>1, <1>3, <1>4, <1>5, WritingStep DEF Drives

LEMMA ExecutedKeeps ==
    ASSUME Holds, NEW s \in Slots, NEW outcome \in {"next", "fail"},
           At(s, "exec"), Executed(s, outcome)
    PROVE  SInv' /\ RowMoves
  <1> DEFINE l == [leg[s] EXCEPT !.pc = "record", !.outcome = outcome]
  <1>1. leg[s].pc = "exec" /\ leg[s].job # NoJob
    BY DEF At, Holds, SInv, LegsAgree, ShapeOK
  <1>2. l \in Leg /\ l.pc = "record" /\ l.job = leg[s].job /\ l.outcome = outcome
    BY LegFacts DEF Leg, Holds
  <1>3. Goto(s, l) /\ UNCHANGED <<row, cache, jobs, attempts, reaping, crashes>>
    BY DEF Executed, elsewhere
  <1>4. leg'[s] = l
    BY <1>3 DEF Goto, Holds, IInv, LegsOK
  <1>5. ShapeOK(s)' /\ RowOK(s)'
    BY <1>1, <1>2, <1>3, <1>4 DEF ShapeOK, RowOK, Drives, Holds, SInv, LegsAgree
  <1> QED
    BY <1>1, <1>2, <1>3, <1>5, HeldStep DEF Drives

LEMMA StepKeeps ==
    ASSUME Holds, IInv', NEW s \in Slots, Step(s)
    PROVE  SInv' /\ RowMoves
  <1>1. leg[s].pc \notin {"park", "stamp", "pause", "hook", "enqueue"}
    BY DEF Holds, SInv, LegsAgree, ShapeOK, Drives
  <1>2. leg[s].pc = "exec" => Kind(s) \in {"action", "pure"}
    BY LegFacts DEF Kind, Holds, Straight, Placed, OnStep
  <1>3. ReachStep(s) \/ BeginStep(s) \/ RecordStep(s)
            \/ DeadlinePasses(s) \/ CompleteRun(s) \/ FailRun(s)
            \/ ReuseStep(s) \/ RunAction(s) \/ RunPure(s) \/ StepFails(s)
    BY <1>1, <1>2 DEF Step, ReachWait, ReachApproval, CreateApproval, StampApproval, PauseRun,
                      EnqueueWait, EnqueueWaitFails, At
  <1>4. CASE ReuseStep(s) \/ RunAction(s) \/ RunPure(s) \/ StepFails(s)
    BY <1>4, ExecutedKeeps DEF ReuseStep, RunAction, RunPure, StepFails
  <1> QED
    BY <1>3, <1>4, ReachKeeps, BeginKeeps, RecordKeeps, EndKeeps

----------------------------------------------------------------------------
(* Where a slot takes the job or lets go of it                             *)

\* Nobody drives the run, and it is not over: no worker remembers it.
LEMMA NobodyDrives ==
    ASSUME Holds, row.status \notin Terminal, \A s \in Slots : leg[s].pc \notin Drives
    PROVE  \A w \in Workers : cache[w] = NoRun
  BY NoCopies

\* What is left of CachesAgree where nobody drives the run and workers' copies stay.
LEMMA CachesStay ==
    ASSUME Holds, \A s \in Slots : leg[s].pc \notin Drives,
           \A w \in Workers : cache'[w] = cache[w],
           row.status \in Terminal => row'.status \in Terminal
    PROVE  CachesAgree'
  BY DEF Holds, SInv, CachesAgree, NoRun

LEMMA DeliverKeeps ==
    ASSUME Holds, IInv', NEW s \in Slots, NEW j \in JobId, Deliver(s, j)
    PROVE  SInv' /\ RowMoves
  <1>1. /\ jobs[j].state \in {"ready", "stalled"} /\ jobs'[j].state = "active"
        /\ \A k \in JobId \ {j} : jobs'[k] = jobs[k]
    BY DEF Deliver, Holds, IInv, JobsOK, JobState
  <1>2. /\ j = LatestJob /\ (\A t \in Slots : Quiet(t))
        /\ (\A w \in Workers : reaping[w] = 0) /\ row.status # "none"
    BY <1>1, JobWaits
  <1>3. UNCHANGED <<row, cache, attempts, reaping, crashes>>
    BY DEF Deliver, elsewhere
  <1>4. /\ leg'[s] \in Leg /\ Goto(s, leg'[s]) /\ leg'[s].pc = "load" /\ leg'[s].job = j
        /\ leg'[s].outcome = "next" /\ ProcOf[s] \in Workers
        /\ \A t \in Slots \ {s} : leg'[t] = leg[t]
    BY IdleFacts DEF Deliver, Goto, Holds, IInv, LegsOK, Leg, Idle
  <1>5. LatestJob' = LatestJob /\ LatestJob \in JobId /\ j # NoJob
    BY <1>3, LatestFacts, JobFacts DEF LatestJob, Holds
  <1>6. LegsAgree'
    <2>1. ShapeOK(s)' /\ RowOK(s)'
      BY <1>4, <1>5 DEF ShapeOK, RowOK, Drives
    <2> QED
      BY <1>2, <1>4, <2>1, LegsAgreeAlone
  <1>7. JobsAgree'
    <2>1. \A k \in JobId \ {j} : ~Live(k)
      BY <1>2 DEF Holds, SInv, JobsAgree
    <2>2. \A k \in JobId \ {j} : jobs'[k].state \notin {"ready", "active", "stalled"}
      BY <1>1, <2>1 DEF Live
    <2>3. \A a \in 1..MaxAttempts : a > attempts' => JobsGone(ResumeJob(a))'
      BY <1>1, <1>3, JobFacts DEF Holds, SInv, JobsAgree, JobsGone
    <2>4. \A k \in JobId : Live(k)' => k = LatestJob'
      BY <1>2, <1>5, <2>2 DEF Live
    <2> QED
      BY <1>1, <1>4, <2>2, <2>3, <2>4 DEF JobsAgree
  <1>8. ReapingAgrees' /\ RowAgrees'
    BY <1>2, <1>3 DEF ReapingAgrees, RowAgrees, Holds, SInv
  <1>9. CachesAgree'
    BY <1>2, <1>3, CachesStay DEF Quiet, Drives
  <1>10. QueuedIsScheduled'
    <2>1. Scheduled'
      BY <1>1 DEF Scheduled
    <2> QED
      BY <2>1 DEF QueuedIsScheduled
  <1> QED
    BY <1>3, <1>6, <1>7, <1>8, <1>9, <1>10 DEF SInv, RowMoves

LEMMA ReturnKeeps ==
    ASSUME Holds, IInv', NEW s \in Slots, Return(s)
    PROVE  SInv' /\ RowMoves
  <1> DEFINE j == leg[s].job
  <1>1. leg[s].pc = "return" /\ j # NoJob /\ j \in JobId /\ row.status # "queued"
    BY LegJobs DEF Return, At, Holds, SInv, LegsAgree, ShapeOK, RowOK
  <1>2. /\ j = LatestJob /\ (\A t \in Slots \ {s} : Quiet(t))
        /\ (\A w \in Workers : reaping[w] = 0) /\ row.status # "none"
        /\ \A k \in JobId : Live(k) => k = LatestJob
    BY <1>1, JobHolder
  <1>3. UNCHANGED <<row, cache, attempts, reaping, crashes>>
    BY DEF Return, elsewhere
  <1>4. /\ jobs'[j].state = "kept"
        /\ \A k \in JobId \ {j} : jobs'[k] = jobs[k]
    BY <1>1 DEF Return, Holds, IInv, JobsOK, JobState
  <1>5. Idle \in Leg /\ leg'[s] = Idle /\ Goto(s, Idle)
    BY IdleFacts DEF Return, Goto, Holds, IInv, LegsOK
  <1>6. LegsAgree'
    <2>1. ShapeOK(s)' /\ RowOK(s)'
      BY <1>5, IdleFacts DEF ShapeOK, RowOK, Drives, Idle
    <2> QED
      BY <1>2, <1>5, <2>1, LegsAgreeAlone
  <1>7. \A k \in JobId : ~Live(k)'
    BY <1>2, <1>4 DEF Live
  <1>8. JobsAgree'
    <2>1. \A a \in 1..MaxAttempts : a > attempts' => JobsGone(ResumeJob(a))'
      <3>1. \A a \in 1..MaxAttempts : a > attempts => ResumeJob(a) # j
        BY <1>2, LatestFacts, NumberFacts DEF Holds, StartJob, ResumeJob
      <3> QED
        BY <1>3, <1>4, <3>1, JobFacts DEF Holds, SInv, JobsAgree, JobsGone
    <2> QED
      BY <1>7, <2>1 DEF JobsAgree, Live
  <1>9. ReapingAgrees' /\ RowAgrees'
    BY <1>2, <1>3 DEF ReapingAgrees, RowAgrees, Holds, SInv
  <1>10. CachesAgree'
    <2>1. \A t \in Slots : leg[t].pc \notin Drives
      BY <1>1, <1>2 DEF Quiet, Drives
    <2> QED
      BY <1>3, <2>1, CachesStay
  <1>11. QueuedIsScheduled'
    BY <1>1, <1>3 DEF QueuedIsScheduled
  <1> QED
    BY <1>3, <1>6, <1>8, <1>9, <1>10, <1>11 DEF SInv, RowMoves

LEMMA JobFailsKeeps ==
    ASSUME Holds, IInv', NEW s \in Slots, JobFails(s)
    PROVE  SInv' /\ RowMoves
  <1> DEFINE j == leg[s].job
  <1>1. leg[s].pc = "throw" /\ j # NoJob /\ j \in JobId /\ row.status = "queued"
    BY LegJobs DEF JobFails, At, Holds, SInv, LegsAgree, ShapeOK, RowOK
  <1>2. /\ j = LatestJob /\ (\A t \in Slots \ {s} : Quiet(t))
        /\ (\A w \in Workers : reaping[w] = 0) /\ row.status # "none"
        /\ \A k \in JobId : Live(k) => k = LatestJob
    BY <1>1, JobHolder
  <1>3. UNCHANGED <<row, cache, attempts, reaping, crashes>>
    BY DEF JobFails, elsewhere
  <1>4. /\ \/ jobs'[j].state = "ready" /\ leg'[s] = Idle
           \/ jobs'[j].state = "dropped" /\ leg'[s] = [Idle EXCEPT !.pc = "mark"]
        /\ \A k \in JobId \ {j} : jobs'[k] = jobs[k]
    <2> DEFINE tries == jobs[j].tries + 1
    <2>1. /\ jobs' = [jobs EXCEPT ![j].tries = tries,
                                  ![j].state = IF tries < MaxTries THEN "ready" ELSE "dropped"]
          /\ Goto(s, IF tries < MaxTries THEN Idle ELSE [Idle EXCEPT !.pc = "mark"])
      BY DEF JobFails
    <2>2. leg'[s] = IF tries < MaxTries THEN Idle ELSE [Idle EXCEPT !.pc = "mark"]
      BY <2>1 DEF Goto, Holds, IInv, LegsOK
    <2>3. jobs \in [JobId -> JobState]
      BY DEF Holds, IInv, JobsOK
    <2>4. /\ jobs'[j].state = IF tries < MaxTries THEN "ready" ELSE "dropped"
          /\ \A k \in JobId \ {j} : jobs'[k] = jobs[k]
      BY <1>1, <2>1, <2>3 DEF JobState
    <2> QED
      BY <2>2, <2>4
  <1>5. leg'[s] \in Leg /\ leg'[s].job = NoJob /\ leg'[s].outcome = "next" /\ Goto(s, leg'[s])
    <2>1. leg'[s] \in Leg
      BY DEF IInv, LegsOK
    <2>2. leg'[s].job = NoJob /\ leg'[s].outcome = "next"
      BY <1>4 DEF Idle
    <2>3. Goto(s, leg'[s])
      BY DEF JobFails, Goto, Holds, IInv, LegsOK
    <2> QED
      BY <2>1, <2>2, <2>3
  <1>6. \/ jobs'[j].state = "ready" /\ leg'[s].pc = "idle"
        \/ jobs'[j].state = "dropped" /\ leg'[s].pc = "mark"
    BY <1>4 DEF Idle
  <1>7. LatestJob' = LatestJob /\ LatestJob \in JobId
    BY <1>3, LatestFacts DEF LatestJob, Holds
  <1>8. LegsAgree'
    <2>1. ShapeOK(s)' /\ RowOK(s)'
      BY <1>1, <1>2, <1>3, <1>5, <1>6, <1>7 DEF ShapeOK, RowOK, Drives
    <2> QED
      BY <1>2, <1>5, <2>1, LegsAgreeAlone
  <1>9. JobsAgree'
    <2>1. \A k \in JobId \ {j} : jobs'[k].state \notin {"ready", "active", "stalled"}
      BY <1>2, <1>4 DEF Live
    <2>2. \A k \in JobId : Live(k)' => k = LatestJob'
      BY <1>2, <1>7, <2>1 DEF Live
    <2>3. \A a \in 1..MaxAttempts : a > attempts' => JobsGone(ResumeJob(a))'
      <3>1. \A a \in 1..MaxAttempts : a > attempts => ResumeJob(a) # j
        BY <1>2, LatestFacts, NumberFacts DEF Holds, StartJob, ResumeJob
      <3> QED
        BY <1>3, <1>4, <3>1, JobFacts DEF Holds, SInv, JobsAgree, JobsGone
    <2> QED
      BY <1>1, <1>3, <1>6, <2>1, <2>2, <2>3 DEF JobsAgree
  <1>10. ReapingAgrees' /\ RowAgrees'
    BY <1>2, <1>3 DEF ReapingAgrees, RowAgrees, Holds, SInv
  <1>11. CachesAgree'
    <2>1. \A t \in Slots : leg[t].pc \notin Drives
      BY <1>1, <1>2 DEF Quiet, Drives
    <2> QED
      BY <1>3, <2>1, CachesStay
  <1>12. QueuedIsScheduled'
    <2>1. Scheduled'
      BY <1>1, <1>6 DEF Scheduled
    <2> QED
      BY <2>1 DEF QueuedIsScheduled
  <1> QED
    BY <1>3, <1>8, <1>9, <1>10, <1>11, <1>12 DEF SInv, RowMoves

LEMMA MarkKeeps ==
    ASSUME Holds, IInv', NEW s \in Slots, MarkFailed(s)
    PROVE  SInv' /\ RowMoves
  <1>1. leg[s].pc = "mark"
    BY DEF MarkFailed, At
  <1>2. /\ \A j \in JobId : ~Live(j)
        /\ \A t \in Slots \ {s} : Quiet(t)
        /\ \A w \in Workers : reaping[w] = 0
        /\ row.status = "queued"
    BY <1>1, Alone
  <1>3. UNCHANGED <<jobs, attempts, reaping, crashes>>
    BY DEF MarkFailed, elsewhere
  <1>4. row'.status = "failed"
    BY DEF MarkFailed, Holds, IInv, RunsOK, Run
  <1>5. Idle \in Leg /\ leg'[s] = Idle /\ Goto(s, Idle)
    BY IdleFacts DEF MarkFailed, Goto, Holds, IInv, LegsOK
  <1>6. LegsAgree'
    <2>1. ShapeOK(s)' /\ RowOK(s)'
      BY <1>5, IdleFacts DEF ShapeOK, RowOK, Drives, Idle
    <2> QED
      BY <1>2, <1>5, <2>1, LegsAgreeAlone
  <1>7. JobsAgree'
    BY <1>2, <1>3 DEF Holds, SInv, JobsAgree, Live, JobsGone
  <1>8. ReapingAgrees' /\ RowAgrees'
    BY <1>2, <1>3, <1>4 DEF ReapingAgrees, RowAgrees, Statuses4
  <1>9. CachesAgree'
    <2>1. \A t \in Slots : leg[t].pc \notin Drives
      BY <1>1, <1>2 DEF Quiet, Drives
    <2>2. \A w \in Workers : cache[w] = NoRun
      BY <1>2, <2>1, NobodyDrives DEF Terminal
    <2>3. \A w \in Workers : cache'[w] = NoRun
      BY <2>2, ProcOfIsProcess DEF MarkFailed, Holds, IInv, RunsOK, Processes
    <2> QED
      BY <2>3 DEF CachesAgree, NoRun
  <1>10. QueuedIsScheduled'
    BY <1>4 DEF QueuedIsScheduled
  <1> QED
    BY <1>2, <1>3, <1>4, <1>6, <1>7, <1>8, <1>9, <1>10 DEF SInv, RowMoves

LEMMA ExecuteKeeps ==
    ASSUME Holds, IInv', NEW s \in Slots, Execute(s)
    PROVE  SInv' /\ RowMoves
  BY DeliverKeeps, SkipKeeps, LoadKeeps, StartFailsKeeps, StartKeeps, JobFailsKeeps, MarkKeeps,
     ReturnKeeps DEF Execute

----------------------------------------------------------------------------
(* startWorkflowRun                                                        *)

LEMMA ApiIsNoWorker == \A s \in Slots : ProcOf[s] \in Apis => \A w \in Workers : w # ProcOf[s]
  BY RunAssumption

LEMMA CreateRunKeeps ==
    ASSUME Holds, IInv', NEW s \in Slots, CreateRun(s)
    PROVE  SInv' /\ RowMoves
  <1>1. /\ row.status = "none" /\ attempts = 0
        /\ \A j \in JobId : JobsGone(j)
        /\ \A t \in Slots : leg[t].pc = "idle" /\ leg[t].job = NoJob
    BY DEF CreateRun, NoRun, Holds, SInv, RowAgrees, LegsAgree, ShapeOK
  <1>2. UNCHANGED <<jobs, attempts, reaping, crashes>>
    BY DEF CreateRun, elsewhere
  <1>3. row'.status = "queued" /\ \A w \in Workers : cache'[w] = cache[w]
    BY NoRunFacts, ApiIsNoWorker
    DEF CreateRun, Update, UpdateIn, Run, Holds, IInv, RunsOK, Processes
  <1>4. /\ leg'[s] \in Leg /\ leg'[s].pc = "enqueue_start" /\ leg'[s].job = NoJob
        /\ leg'[s].outcome = "next" /\ Goto(s, leg'[s])
    <2>1. leg'[s] \in Leg
      BY DEF IInv, LegsOK
    <2>2. leg'[s] = [Idle EXCEPT !.pc = "enqueue_start"] /\ Goto(s, leg'[s])
      BY DEF CreateRun, Goto, Holds, IInv, LegsOK
    <2> QED
      BY <2>1, <2>2 DEF Idle
  <1>5. LegsAgree'
    <2>1. ShapeOK(s)' /\ RowOK(s)'
      BY <1>1, <1>2, <1>3, <1>4, JobFacts DEF ShapeOK, RowOK, Drives, JobsGone
    <2> QED
      BY <1>1, <1>4, <2>1, LegsAgreeAlone DEF Quiet
  <1>6. JobsAgree'
    BY <1>1, <1>2, JobFacts DEF JobsAgree, Live, JobsGone
  <1>7. \A w \in Workers : reaping[w] = 0
    BY <1>1 DEF Holds, SInv, ReapingAgrees
  <1>8. ReapingAgrees' /\ RowAgrees'
    BY <1>2, <1>3, <1>7 DEF ReapingAgrees, RowAgrees, Statuses4
  <1>9. CachesAgree'
    <2>1. row.status \notin Terminal /\ \A t \in Slots : leg[t].pc \notin Drives
      BY <1>1 DEF Terminal, Drives
    <2> QED
      BY <1>3, <2>1, CachesStay
  <1>10. QueuedIsScheduled'
    BY <1>4 DEF QueuedIsScheduled, Scheduled
  <1> QED
    BY <1>1, <1>2, <1>3, <1>5, <1>6, <1>8, <1>9, <1>10 DEF SInv, RowMoves

LEMMA EnqueueStartKeeps ==
    ASSUME Holds, IInv', NEW s \in Slots, EnqueueStart(s)
    PROVE  SInv' /\ RowMoves
  <1>1. leg[s].pc = "enqueue_start" /\ attempts = 0 /\ JobsGone(StartJob)
    BY DEF EnqueueStart, At, Holds, SInv, LegsAgree, RowOK
  <1>2. /\ \A j \in JobId : ~Live(j)
        /\ \A t \in Slots \ {s} : Quiet(t)
        /\ \A w \in Workers : reaping[w] = 0
        /\ row.status = "queued"
    BY <1>1, Alone
  <1>3. UNCHANGED <<row, cache, attempts, reaping, crashes>>
    BY DEF EnqueueStart, elsewhere
  <1>4. /\ jobs'[StartJob].state = "ready"
        /\ \A k \in JobId \ {StartJob} : jobs'[k] = jobs[k]
    BY <1>1, JobFacts DEF EnqueueStart, Add, JobsGone, Holds, IInv, JobsOK, JobState
  <1>5. Idle \in Leg /\ leg'[s] = Idle /\ Goto(s, Idle)
    BY IdleFacts DEF EnqueueStart, Goto, Holds, IInv, LegsOK
  <1>6. LatestJob' = StartJob
    BY <1>1, <1>3 DEF LatestJob
  <1>7. LegsAgree'
    <2>1. ShapeOK(s)' /\ RowOK(s)'
      BY <1>5, IdleFacts DEF ShapeOK, RowOK, Drives, Idle
    <2> QED
      BY <1>2, <1>5, <2>1, LegsAgreeAlone
  <1>8. JobsAgree'
    <2>1. \A a \in 1..MaxAttempts : ResumeJob(a) # StartJob
      BY DEF ResumeJob, StartJob
    <2>2. \A a \in 1..MaxAttempts : a > attempts' => JobsGone(ResumeJob(a))'
      BY <1>3, <1>4, <2>1, JobFacts DEF Holds, SInv, JobsAgree, JobsGone
    <2>3. \A k \in JobId \ {StartJob} : ~Live(k)'
      BY <1>2, <1>4 DEF Live
    <2> QED
      BY <1>2, <1>3, <1>4, <1>6, <2>2, <2>3 DEF JobsAgree, Live
  <1>9. ReapingAgrees' /\ RowAgrees'
    BY <1>2, <1>3 DEF ReapingAgrees, RowAgrees, Statuses4
  <1>10. CachesAgree'
    <2>1. \A t \in Slots : leg[t].pc \notin Drives
      BY <1>1, <1>2 DEF Quiet, Drives
    <2> QED
      BY <1>3, <2>1, CachesStay
  <1>11. QueuedIsScheduled'
    BY <1>4, JobFacts DEF QueuedIsScheduled, Scheduled
  <1> QED
    BY <1>3, <1>7, <1>8, <1>9, <1>10, <1>11 DEF SInv, RowMoves

LEMMA EnqueueStartFailsKeeps ==
    ASSUME Holds, IInv', NEW s \in Slots, EnqueueStartFails(s)
    PROVE  SInv' /\ RowMoves
  <1>1. leg[s].pc = "enqueue_start" /\ Copy(s) \in Run
    BY CopyFacts DEF EnqueueStartFails, At, Holds
  <1>2. /\ \A j \in JobId : ~Live(j)
        /\ \A t \in Slots \ {s} : Quiet(t)
        /\ \A w \in Workers : reaping[w] = 0
        /\ row.status = "queued"
    BY <1>1, Alone
  <1>3. UNCHANGED <<jobs, attempts, reaping, crashes>>
    BY DEF EnqueueStartFails, elsewhere
  <1>4. row'.status = "failed" /\ cache' = [cache EXCEPT ![ProcOf[s]] = row']
    BY <1>1 DEF EnqueueStartFails, Update, UpdateIn, Run
  <1>5. Idle \in Leg /\ leg'[s] = Idle /\ Goto(s, Idle)
    BY IdleFacts DEF EnqueueStartFails, Goto, Holds, IInv, LegsOK
  <1>6. LegsAgree'
    <2>1. ShapeOK(s)' /\ RowOK(s)'
      BY <1>5, IdleFacts DEF ShapeOK, RowOK, Drives, Idle
    <2> QED
      BY <1>2, <1>5, <2>1, LegsAgreeAlone
  <1>7. JobsAgree'
    BY <1>2, <1>3 DEF Holds, SInv, JobsAgree, Live, JobsGone
  <1>8. ReapingAgrees' /\ RowAgrees'
    BY <1>2, <1>3, <1>4 DEF ReapingAgrees, RowAgrees, Statuses4
  <1>9. CachesAgree'
    <2>1. \A t \in Slots : leg[t].pc \notin Drives
      BY <1>1, <1>2 DEF Quiet, Drives
    <2>2. \A w \in Workers : cache[w] = NoRun
      BY <1>2, <2>1, NobodyDrives DEF Terminal
    <2>3. \A w \in Workers : cache'[w] = NoRun \/ cache'[w] = row'
      BY <1>4, <2>2 DEF Holds, IInv, RunsOK, Processes
    <2> QED
      BY <1>4, <2>3 DEF CachesAgree, NoRun, Terminal
  <1>10. QueuedIsScheduled'
    BY <1>4 DEF QueuedIsScheduled
  <1> QED
    BY <1>2, <1>3, <1>4, <1>6, <1>7, <1>8, <1>9, <1>10 DEF SInv, RowMoves

LEMMA CreateKeeps ==
    ASSUME Holds, IInv', NEW s \in Slots, Create(s)
    PROVE  SInv' /\ RowMoves
  BY CreateRunKeeps, EnqueueStartKeeps, EnqueueStartFailsKeeps DEF Create

----------------------------------------------------------------------------
(* The queue, the reaper, and crashes                                      *)

\* Where every slot is idle and stays so.
LEMMA IdleLegsAgree ==
    ASSUME Holds, UNCHANGED leg, \A s \in Slots : Quiet(s)
    PROVE  LegsAgree'
  BY DEF Holds, SInv, LegsAgree, ShapeOK, RowOK, Quiet, Drives

LEMMA DropStalledKeeps ==
    ASSUME Holds, NEW j \in JobId, DropStalled(j)
    PROVE  SInv' /\ RowMoves
  <1>1. jobs[j].state = "stalled"
    BY DEF DropStalled
  <1>2. /\ j = LatestJob /\ (\A s \in Slots : Quiet(s))
        /\ (\A w \in Workers : reaping[w] = 0) /\ row.status # "none"
        /\ \A k \in JobId : Live(k) => k = LatestJob
    BY <1>1, JobWaits DEF Holds, SInv, JobsAgree
  <1>3. UNCHANGED <<row, cache, leg, attempts, reaping, crashes>>
    BY DEF DropStalled, elsewhere
  <1>4. /\ jobs'[j].state = "dropped"
        /\ \A k \in JobId \ {j} : jobs'[k] = jobs[k]
    BY DEF DropStalled, Holds, IInv, JobsOK, JobState
  <1>5. LegsAgree'
    BY <1>2, <1>3, IdleLegsAgree
  <1>6. JobsAgree'
    <2>1. \A k \in JobId : ~Live(k)'
      BY <1>2, <1>4 DEF Live
    <2>2. \A a \in 1..MaxAttempts : a > attempts' => JobsGone(ResumeJob(a))'
      <3>1. \A a \in 1..MaxAttempts : a > attempts => ResumeJob(a) # j
        BY <1>2, LatestFacts, NumberFacts DEF Holds, StartJob, ResumeJob
      <3> QED
        BY <1>3, <1>4, <3>1, JobFacts DEF Holds, SInv, JobsAgree, JobsGone
    <2> QED
      BY <2>1, <2>2 DEF JobsAgree, Live
  <1>7. ReapingAgrees' /\ RowAgrees'
    BY <1>2, <1>3 DEF ReapingAgrees, RowAgrees, Holds, SInv
  <1>8. CachesAgree'
    BY <1>3 DEF Holds, SInv, CachesAgree
  <1>9. QueuedIsScheduled'
    <2>1. LatestJob' = LatestJob
      BY <1>3 DEF LatestJob
    <2> QED
      BY <1>2, <1>4, <2>1 DEF QueuedIsScheduled, Forgotten
  <1> QED
    BY <1>3, <1>5, <1>6, <1>7, <1>8, <1>9 DEF SInv, RowMoves

\* A stranded run is one that nobody works on and no job is left for.
LEMMA StrandedFacts ==
    ASSUME Holds, Stranded
    PROVE  /\ row.status = "running"
           /\ \A s \in Slots : Quiet(s)
           /\ \A j \in JobId : ~Live(j)
           /\ \A w \in Workers : reaping[w] = 0
           /\ \A w \in Workers : cache[w] = NoRun
  <1>1. row.status = "running" /\ \A s \in Slots : leg[s].pc = "idle" /\ leg[s].job = NoJob
    BY DEF Stranded, At, Holds, Straight, SInv, LegsAgree, ShapeOK
  <1>2. \A j \in JobId : jobs[j].state # "active"
    BY <1>1, JobFacts DEF Holds, SInv, JobsAgree
  <1>3. \A j \in JobId : jobs[j].state \notin {"stalled", "ready"}
    BY <1>1 DEF Stranded, Holds, SInv, JobsAgree
  <1>4. \A w \in Workers : reaping[w] = 0
    BY <1>1 DEF Holds, SInv, ReapingAgrees
  <1>5. \A w \in Workers : cache[w] = NoRun
    BY <1>1, NobodyDrives DEF Terminal, Drives
  <1> QED
    BY <1>1, <1>2, <1>3, <1>4, <1>5 DEF Quiet, Live

LEMMA ReapKeeps ==
    ASSUME Holds, NEW w \in Workers, Reap(w)
    PROVE  SInv' /\ RowMoves
  <1>1. /\ row.status = "running"
        /\ \A s \in Slots : Quiet(s)
        /\ \A j \in JobId : ~Live(j)
        /\ \A v \in Workers : reaping[v] = 0
        /\ \A v \in Workers : cache[v] = NoRun
    BY StrandedFacts DEF Reap
  <1>2. UNCHANGED <<cache, jobs, leg, crashes>>
    BY DEF Reap
  <1>3. /\ row'.status = "queued" /\ attempts' = attempts + 1 /\ attempts < MaxAttempts
        /\ attempts \in Nat
    BY LatestFacts DEF Reap, Holds, IInv, RunsOK, Run
  <1>4. reaping'[w] = attempts' /\ \A v \in Workers \ {w} : reaping'[v] = reaping[v]
    BY <1>3 DEF Reap, Holds, IInv, CountsOK
  <1>5. attempts' \in 1..MaxAttempts /\ JobsGone(ResumeJob(attempts'))
    BY <1>3, NumberFacts DEF Holds, SInv, JobsAgree
  <1>6. LegsAgree'
    BY <1>1, <1>2, IdleLegsAgree
  <1>7. JobsAgree'
    <2>1. \A k \in JobId : ~Live(k)'
      BY <1>1, <1>2 DEF Live
    <2>2. \A a \in 1..MaxAttempts : a > attempts' => JobsGone(ResumeJob(a))'
      BY <1>2, <1>3 DEF Holds, SInv, JobsAgree, JobsGone
    <2> QED
      BY <2>1, <2>2 DEF JobsAgree, Live
  <1>8. ReapingAgrees'
    <2>1. JobsGone(ResumeJob(attempts))'
      BY <1>2, <1>5 DEF JobsGone
    <2> QED
      BY <1>1, <1>3, <1>4, <2>1 DEF ReapingAgrees
  <1>9. RowAgrees' /\ CachesAgree'
    BY <1>1, <1>2, <1>3 DEF RowAgrees, Statuses4, CachesAgree, NoRun
  <1>10. QueuedIsScheduled'
    <2>1. reaping'[w] # 0
      BY <1>4, <1>5
    <2> QED
      BY <2>1 DEF QueuedIsScheduled, Scheduled
  <1> QED
    BY <1>1, <1>3, <1>6, <1>7, <1>8, <1>9, <1>10 DEF SInv, RowMoves

LEMMA EnqueueReplayKeeps ==
    ASSUME Holds, NEW w \in Workers, EnqueueReplay(w)
    PROVE  SInv' /\ RowMoves
  <1>1. /\ \A j \in JobId : ~Live(j)
        /\ \A s \in Slots : Quiet(s)
        /\ \A v \in Workers \ {w} : reaping[v] = 0
        /\ reaping[w] = attempts /\ attempts # 0
        /\ LatestJob = ResumeJob(attempts) /\ jobs[LatestJob].state = "absent"
        /\ row.status = "queued"
    BY Claimed DEF EnqueueReplay
  <1>2. UNCHANGED <<row, cache, leg, attempts, crashes>>
    BY DEF EnqueueReplay
  <1>3. LatestJob \in JobId /\ LatestJob' = LatestJob
    BY <1>2, LatestFacts DEF LatestJob, Holds
  <1>4. /\ jobs'[LatestJob].state \in {"absent", "ready"}
        /\ \A k \in JobId \ {LatestJob} : jobs'[k] = jobs[k]
    BY <1>1, <1>3 DEF EnqueueReplay, Add, Holds, IInv, JobsOK, JobState
  <1>5. \A v \in Workers : reaping'[v] = 0
    BY <1>1 DEF EnqueueReplay, Holds, IInv, CountsOK
  <1>6. LegsAgree'
    BY <1>1, <1>2, IdleLegsAgree
  <1>7. JobsAgree'
    <2>1. \A k \in JobId \ {LatestJob} : jobs'[k].state \notin {"ready", "active", "stalled"}
      BY <1>1, <1>4 DEF Live
    <2>2. \A k \in JobId : Live(k)' => k = LatestJob'
      BY <1>3, <2>1 DEF Live
    <2>3. \A a \in 1..MaxAttempts : a > attempts' => JobsGone(ResumeJob(a))'
      <3>1. \A a \in 1..MaxAttempts : a > attempts => ResumeJob(a) # LatestJob
        BY <1>1, LatestFacts, NumberFacts DEF Holds, ResumeJob
      <3> QED
        BY <1>2, <1>4, <3>1, JobFacts DEF Holds, SInv, JobsAgree, JobsGone
    <2> QED
      BY <1>1, <1>2, <1>4, <2>1, <2>2, <2>3 DEF JobsAgree
  <1>8. ReapingAgrees' /\ RowAgrees'
    BY <1>1, <1>2, <1>5 DEF ReapingAgrees, RowAgrees, Statuses4
  <1>9. CachesAgree'
    BY <1>2 DEF Holds, SInv, CachesAgree
  <1>10. QueuedIsScheduled'
    <2>1. CASE jobs'[LatestJob].state = "ready"
      BY <1>3, <2>1 DEF QueuedIsScheduled, Scheduled
    <2>2. CASE jobs'[LatestJob].state = "absent"
      <3>1. attempts' > 0
        BY <1>1, <1>2, LatestFacts DEF Holds
      <3> QED
        BY <1>3, <2>2, <3>1 DEF QueuedIsScheduled, Forgotten
    <2> QED
      BY <1>4, <2>1, <2>2
  <1> QED
    BY <1>2, <1>6, <1>7, <1>8, <1>9, <1>10 DEF SInv, RowMoves

LEMMA GiveUpKeeps ==
    ASSUME Holds, NEW w \in Workers, GiveUp(w)
    PROVE  SInv' /\ RowMoves
  <1>1. /\ row.status = "running"
        /\ \A s \in Slots : Quiet(s)
        /\ \A j \in JobId : ~Live(j)
        /\ \A v \in Workers : reaping[v] = 0
        /\ \A v \in Workers : cache[v] = NoRun
    BY StrandedFacts DEF GiveUp
  <1>2. UNCHANGED <<cache, jobs, leg, attempts, reaping, crashes>>
    BY DEF GiveUp
  <1>3. row'.status = "failed"
    BY DEF GiveUp, Holds, IInv, RunsOK, Run
  <1>4. LegsAgree'
    BY <1>1, <1>2, IdleLegsAgree
  <1>5. JobsAgree'
    BY <1>1, <1>2 DEF Holds, SInv, JobsAgree, Live, JobsGone
  <1>6. ReapingAgrees' /\ RowAgrees' /\ CachesAgree'
    BY <1>1, <1>2, <1>3 DEF ReapingAgrees, RowAgrees, Statuses4, CachesAgree, NoRun
  <1>7. QueuedIsScheduled'
    BY <1>3 DEF QueuedIsScheduled
  <1> QED
    BY <1>1, <1>2, <1>3, <1>4, <1>5, <1>6, <1>7 DEF SInv, RowMoves

LEMMA CrashKeeps ==
    ASSUME Holds, NEW p \in Processes, Crash(p)
    PROVE  SInv' /\ RowMoves
  <1> DEFINE dead == {s \in Slots : ProcOf[s] = p}
  <1>1. /\ UNCHANGED <<row, attempts>> /\ crashes' = crashes + 1 /\ crashes \in Nat
        /\ LatestJob' = LatestJob
    BY DEF Crash, LatestJob, Holds, IInv, CountsOK
  <1>2. \A s \in Slots : leg'[s] = IF s \in dead THEN Idle ELSE leg[s]
    BY DEF Crash
  <1>3. \A j \in JobId : IF \E s \in dead : leg[s].job = j
                         THEN jobs'[j].state = "stalled" /\ jobs[j].state = "active"
                         ELSE jobs'[j] = jobs[j]
    <2>1. ASSUME NEW j \in JobId, NEW s \in dead, leg[s].job = j
          PROVE  jobs[j].state = "active"
      BY <2>1, JobFacts DEF Holds, IInv, JobsOK, Held
    <2>2. \A j \in JobId : IF \E s \in dead : leg[s].job = j
                           THEN jobs'[j].state = "stalled" ELSE jobs'[j] = jobs[j]
      BY DEF Crash, Holds, IInv, JobsOK, JobState
    <2> QED
      BY <2>1, <2>2
  <1>4. /\ cache'[p] = NoRun
        /\ \A q \in Processes \ {p} : cache'[q] = cache[q]
        /\ \A w \in Workers : reaping'[w] \in {0, reaping[w]}
        /\ \A w \in Workers \ {p} : reaping'[w] = reaping[w]
    BY DEF Crash, Holds, IInv, RunsOK, CountsOK
  <1>5. \A j \in JobId : /\ Live(j)' <=> Live(j)
                         /\ JobsGone(j)' <=> JobsGone(j)
                         /\ jobs[j].state = "dropped" => jobs'[j].state = "dropped"
                         /\ jobs'[j].state = "ready" => jobs[j].state = "ready"
                         /\ jobs'[j].state = "active" =>
                                jobs[j].state = "active" /\ \A s \in dead : leg[s].job # j
    BY <1>3 DEF Live, JobsGone
  <1>6. LatestJob \in JobId /\ StartJob \in JobId
    BY LatestFacts, JobFacts DEF Holds
  <1>7. LegsAgree'
    <2>1. ASSUME NEW s \in Slots
          PROVE  ShapeOK(s)' /\ RowOK(s)'
      <3>1. CASE s \in dead
        BY <1>2, <3>1 DEF ShapeOK, RowOK, Drives, Idle
      <3>2. CASE s \notin dead
        <4>1. leg'[s] = leg[s] /\ cache'[ProcOf[s]] = cache[ProcOf[s]]
          BY <1>2, <1>4, <3>2, ProcOfIsProcess
        <4>2. ShapeOK(s)'
          BY <4>1 DEF Holds, SInv, LegsAgree, ShapeOK
        <4>3. RowOK(s)'
          BY <1>1, <1>5, <1>6, <4>1 DEF Holds, SInv, LegsAgree, RowOK
        <4> QED
          BY <4>2, <4>3
      <3> QED
        BY <3>1, <3>2
    <2> QED
      BY <1>2, <2>1, IdleFacts DEF Holds, SInv, LegsAgree
  <1>8. JobsAgree'
    <2>1. \A j \in JobId : Live(j)' => j = LatestJob'
      BY <1>1, <1>5 DEF Holds, SInv, JobsAgree
    <2>2. \A j \in JobId : jobs'[j].state = "active" => \E s \in Slots : leg'[s].job = j
      BY <1>2, <1>5 DEF Holds, SInv, JobsAgree
    <2>3. \A j \in JobId : jobs'[j].state = "ready" => row'.status = "queued"
      BY <1>1, <1>5 DEF Holds, SInv, JobsAgree
    <2>4. \A a \in 1..MaxAttempts : a > attempts' => JobsGone(ResumeJob(a))'
      BY <1>1, <1>5, JobFacts DEF Holds, SInv, JobsAgree
    <2> QED
      BY <2>1, <2>2, <2>3, <2>4 DEF JobsAgree
  <1>9. ReapingAgrees'
    <2>1. attempts # 0 => ResumeJob(attempts) \in JobId
      BY <1>6, LatestFacts DEF Holds
    <2> QED
      BY <1>1, <1>4, <1>5, <2>1 DEF Holds, SInv, ReapingAgrees
  <1>10. RowAgrees'
    BY <1>1, <1>2, <1>5, IdleFacts DEF Holds, SInv, RowAgrees
  <1>11. CachesAgree'
    <2>1. ASSUME NEW w \in Workers \ {p}
          PROVE  /\ cache'[w] = cache[w]
                 /\ \A s \in Slots : ProcOf[s] = w => leg'[s] = leg[s]
      BY <1>2, <1>4 DEF Processes
    <2>2. cache'[p].status = "none"
      BY <1>4 DEF NoRun
    <2> QED
      BY <1>1, <1>4, <2>1, <2>2 DEF Holds, SInv, CachesAgree
  <1>12. QueuedIsScheduled'
    <2> SUFFICES ASSUME row.status = "queued"
                 PROVE  \/ Scheduled'
                        \/ /\ crashes' > 0 \/ attempts' > 0
                           /\ jobs'[LatestJob].state = "absent"
                        \/ jobs'[LatestJob].state = "dropped"
      BY <1>1 DEF QueuedIsScheduled, Forgotten
    <2>1. CASE \E j \in JobId : Live(j)
      BY <1>5, <2>1 DEF Scheduled, Live
    <2>2. CASE \E s \in Slots : leg[s].pc \in {"enqueue_start", "mark"}
      <3>1. PICK s \in Slots : leg[s].pc \in {"enqueue_start", "mark"}
        BY <2>2
      <3>2. CASE leg[s].pc = "enqueue_start"
        <4>1. LatestJob = StartJob /\ JobsGone(StartJob)
          BY <3>2, LatestFacts DEF Holds, SInv, LegsAgree, RowOK
        <4> QED
          BY <1>1, <1>5, <1>6, <4>1 DEF JobsGone
      <3>3. CASE leg[s].pc = "mark"
        BY <1>5, <1>6, <3>3 DEF Holds, SInv, LegsAgree, RowOK
      <3> QED
        BY <3>1, <3>2, <3>3
    <2>3. CASE \E w \in Workers : reaping[w] # 0
      <3>1. PICK w \in Workers : reaping[w] # 0
        BY <2>3
      <3>2. jobs[LatestJob].state = "absent"
        BY <3>1, Claimed
      <3> QED
        BY <1>1, <1>5, <1>6, <3>2 DEF JobsGone
    <2>4. CASE Forgotten
      BY <1>1, <1>5, <1>6, <2>4 DEF Forgotten, JobsGone
    <2>5. Scheduled \/ Forgotten
      BY DEF Holds, SInv, QueuedIsScheduled
    <2>6. \A s \in Slots : leg[s].pc # "enqueue"
      BY DEF Holds, SInv, LegsAgree, ShapeOK, Drives
    <2> QED
      BY <2>1, <2>2, <2>3, <2>4, <2>5, <2>6 DEF Scheduled, Live
  <1> QED
    BY <1>1, <1>7, <1>8, <1>9, <1>10, <1>11, <1>12 DEF SInv, RowMoves

----------------------------------------------------------------------------
(* Every step                                                              *)

\* Decisions and timers are not about a run that never parks.
LEMMA ApproveKeeps ==
    ASSUME Holds, UNCHANGED <<row, attempts, cache, jobs, leg, reaping, crashes>>
    PROVE  SInv' /\ RowMoves
  BY DEF Holds, SInv, LegsAgree, ShapeOK, RowOK, JobsAgree, ReapingAgrees, RowAgrees, CachesAgree,
         QueuedIsScheduled, Scheduled, Forgotten, LatestJob, Live, JobsGone, RowMoves

LEMMA ResumeNever ==
    ASSUME Holds, NEW s \in Slots
    PROVE  ~Resume(s)
  BY DEF Holds, SInv, LegsAgree, ShapeOK, Drives, RowAgrees, Statuses4, Resume, ResumeSweep,
         ResumeFails, ResumeRun, RecordDecision, At

LEMMA NextSInv == Holds /\ IInv' /\ [Next]_vars => SInv' /\ RowMoves
  <1> SUFFICES ASSUME Holds, IInv', [Next]_vars PROVE SInv' /\ RowMoves
    OBVIOUS
  <1>1. ASSUME NEW s \in Slots, Create(s) \/ Execute(s) \/ Step(s) \/ Resume(s)
        PROVE  SInv' /\ RowMoves
    BY <1>1, CreateKeeps, ExecuteKeeps, StepKeeps, ResumeNever
  <1>2. CASE \E j \in JobId : DropStalled(j)
    BY <1>2, DropStalledKeeps
  <1>3. CASE Approve
    <2>1. UNCHANGED <<row, attempts, cache, jobs, leg, reaping, crashes>>
      BY <1>3 DEF Approve, Decide, PersistDecision, TimerFires, DropTimer
    <2> QED
      BY <2>1, ApproveKeeps
  <1>4. ASSUME NEW w \in Workers, Reaper(w)
        PROVE  SInv' /\ RowMoves
    BY <1>4, ReapKeeps, EnqueueReplayKeeps, GiveUpKeeps DEF Reaper
  <1>5. CASE \E p \in Processes : Crash(p)
    BY <1>5, CrashKeeps
  <1>6. CASE UNCHANGED vars
    BY <1>6, ApproveKeeps DEF vars
  <1> QED
    BY <1>1, <1>2, <1>3, <1>4, <1>5, <1>6 DEF Next, Work

LEMMA InitSInv == Init => SInv
  <1> SUFFICES ASSUME Init PROVE SInv
    OBVIOUS
  <1> USE DEF Init
  <1>1. LegsAgree
    BY DEF LegsAgree, ShapeOK, RowOK, Drives, Idle
  <1>2. JobsAgree
    BY JobFacts DEF JobsAgree, Live, JobsGone
  <1>3. ReapingAgrees
    BY DEF ReapingAgrees
  <1>4. RowAgrees /\ QueuedIsScheduled
    BY DEF RowAgrees, Statuses4, QueuedIsScheduled, NoRun, JobsGone, Idle
  <1>5. CachesAgree
    BY DEF CachesAgree, NoRun, Processes
  <1> QED
    BY <1>1, <1>2, <1>3, <1>4, <1>5 DEF SInv

\* The types and the agreement of row, copies, jobs and legs hold throughout a run that
\* never pauses.
THEOREM SoleInvariance == Spec /\ Straight => []Holds
  <1>1. Init /\ Straight => Holds
    BY InitIInv, InitSInv DEF Holds
  <1>2. Holds /\ [Next]_vars => Holds'
    BY NextIInv, NextSInv DEF Holds, Straight
  <1> QED
    BY <1>1, <1>2, PTL DEF Spec

\* At most one leg drives a run that never pauses, through redeliveries, retries and
\* replays, in whatever process.
THEOREM SoleExecutorHolds == Spec /\ Straight => []SoleExecutor
  <1>1. Holds => SoleExecutor
    <2> SUFFICES ASSUME Holds, NEW s \in Slots, NEW t \in Slots, Driving(s), Driving(t)
                 PROVE  s = t
      BY DEF SoleExecutor
    <2>1. leg[s].job # NoJob /\ leg[t].job # NoJob
      BY DEF Driving, Holds, SInv, LegsAgree, ShapeOK, Drives
    <2> QED
      BY <2>1, JobHolder DEF Quiet
  <1> QED
    BY <1>1, SoleInvariance, PTL

\* While such a run is queued its job is in the queue or being worked on, or somebody is
\* about to add one or to give the run up; the only gaps are those of Forgotten.
THEOREM QueuedIsScheduledHolds == Spec /\ Straight => []QueuedIsScheduled
  <1>1. Holds => QueuedIsScheduled
    BY DEF Holds, SInv
  <1> QED
    BY <1>1, SoleInvariance, PTL

\* Once such a run has ended its row does not change: no late leg, redelivered job, replay
\* or sweep writes over its outcome.
THEOREM TerminalIsFinalHolds == Spec /\ Straight => TerminalIsFinal
  <1>1. Holds /\ Holds' /\ [Next]_vars => [row.status \in Terminal => row' = row]_vars
    <2> SUFFICES ASSUME Holds, Holds', [Next]_vars, row.status \in Terminal
                 PROVE  row' = row
      OBVIOUS
    <2>1. RowMoves
      BY NextSInv DEF Holds
    <2> QED
      BY <2>1 DEF RowMoves, Terminal
  <1> QED
    BY <1>1, SoleInvariance, PTL DEF Spec, TerminalIsFinal

\* Such a run goes through its lifecycle as its readers know it: every step of any process
\* is a move of the lifecycle or leaves what they see alone.
THEOREM ImplementsLifecycleHolds == Spec /\ Straight => ImplementsLifecycle
  <1>1. Init => Lifecycle!Init
    BY DEF Init, NoRun, Awaited, Lifecycle!Init
  <1>2. Holds /\ Holds' /\ [Next]_vars => [Lifecycle!Next]_(Lifecycle!vars)
    <2> SUFFICES ASSUME Holds, Holds', [Next]_vars
                 PROVE  [Lifecycle!Next]_(Lifecycle!vars)
      OBVIOUS
    <2>1. RowMoves
      BY NextSInv DEF Holds
    <2>2. Awaited = FALSE /\ Awaited' = FALSE
      BY DEF Holds, SInv, RowAgrees, Statuses4, Awaited
    <2>3. CASE row' = row /\ attempts' = attempts
      BY <2>2, <2>3 DEF Lifecycle!vars
    <2>4. CASE row.status = "none" /\ row'.status = "queued" /\ attempts' = attempts
      BY <2>2, <2>4 DEF Lifecycle!Next, Lifecycle!Submit, Lifecycle!Moves
    <2>5. CASE row.status = "queued" /\ row'.status \in {"running", "failed"}
                  /\ attempts' = attempts
      BY <2>2, <2>5 DEF Lifecycle!Next, Lifecycle!Start, Lifecycle!Refuse, Lifecycle!Moves
    <2>6. CASE row.status = "running" /\ row'.status \in {"running", "completed", "failed"}
                  /\ attempts' = attempts
      BY <2>2, <2>6
      DEF Lifecycle!Next, Lifecycle!Complete, Lifecycle!Fail, Lifecycle!Moves, Lifecycle!vars
    <2>7. CASE row.status = "running" /\ row'.status = "queued" /\ attempts < MaxAttempts
                  /\ attempts' = attempts + 1
      BY <2>2, <2>7 DEF Lifecycle!Next, Lifecycle!Replay
    <2> QED
      BY <2>1, <2>3, <2>4, <2>5, <2>6, <2>7 DEF RowMoves
  <1> QED
    BY <1>1, <1>2, SoleInvariance, PTL DEF Spec, ImplementsLifecycle, Lifecycle!Spec
----------------------------------------------------------------------------
(* The results of a completed run                                          *)

\* The template has a step: the loaders refuse one that has none.
ToldWhole == Template # <<>> /\ ResultsComplete /\ \A s \in Slots : LegTells(s)

\* Whatever a job does, it runs the run from the top: nothing pauses.
LEMMA LoadStory ==
    ASSUME Holds, NEW s \in Slots, LoadRun(s)
    PROVE  Leads(leg'[s].results, Len(leg'[s].results), leg'[s].at)
  <1>1. leg[s].pc = "load" /\ leg[s].job # NoJob
    BY LoadRunEffect DEF Holds, SInv, LegsAgree, ShapeOK
  <1>2. leg[s].job = LatestJob
    BY <1>1, JobHolder
  <1>3. leg[s].job.kind \notin {"wait", "hook"}
    BY <1>2 DEF LatestJob, StartJob, ResumeJob
  <1>4. leg'[s].results = <<>> /\ leg'[s].at = 1
    BY <1>3, LoadRunEffect DEF Holds
  <1> QED
    BY <1>4, StoryBegins

LEMMA SlotToldWhole ==
    ASSUME Holds, Holds', ToldWhole, NEW s \in Slots, Acts(s)
    PROVE  ToldWhole'
  <1>0. IInv /\ IInv' /\ Others(s) /\ ShapeOK(s) /\ RowOK(s)
    BY SlotFrame DEF Holds, SInv, LegsAgree
  <1>1. LegTells(s)'
    BY <1>0, LoadStory, ResumeNever, LegStory DEF ToldWhole, Resume
  <1>2. \A t \in Slots \ {s} : LegTells(t)'
    BY <1>0 DEF ToldWhole, LegTells, Others
  <1>3. ResultsComplete'
    <2>1. CASE row'.status # "completed"
      BY <2>1 DEF ResultsComplete
    <2>2. CASE row' = row
      BY <2>2 DEF ToldWhole, ResultsComplete
    <2>3. CASE CompleteRun(s)
      BY <1>0, <2>3, CompletedStory DEF ToldWhole
    <2>4. CASE /\ leg[s].pc \in {"step", "begin", "stamp", "record", "resumed"}
               /\ Copy(s).status = "completed"
      <3>1. leg[s].pc \in Drives
        BY <1>0, <2>4 DEF ShapeOK, Drives
      <3>2. cache[ProcOf[s]] = row /\ row.status = "running"
        BY <1>0, <3>1 DEF RowOK
      <3> QED
        BY <2>4, <3>2 DEF Copy, Current
    <2> QED
      BY <1>0, <2>1, <2>2, <2>3, <2>4, Completing
  <1> QED
    BY <1>1, <1>2, <1>3 DEF ToldWhole

LEMMA NextToldWhole ==
    ASSUME Holds, Holds', ToldWhole, [Next]_vars
    PROVE  ToldWhole'
  <1>1. ASSUME row' = row \/ row'.status # "completed",
               \A s \in Slots : leg'[s] = leg[s] \/ leg'[s] = Idle
        PROVE  ToldWhole'
    <2>1. \A s \in Slots : LegTells(s)'
      BY <1>1, IdleFacts DEF ToldWhole, LegTells
    <2> QED
      BY <1>1, <2>1 DEF ToldWhole, ResultsComplete
  <1>2. CASE \E j \in JobId : DropStalled(j)
    BY <1>1, <1>2 DEF DropStalled
  <1>3. CASE Approve
    BY <1>1, <1>3 DEF Approve, Decide, PersistDecision, TimerFires, DropTimer
  <1>4. CASE \E w \in Workers : Reaper(w)
    <2>1. row \in Run
      BY DEF Holds, IInv, RunsOK
    <2> QED
      BY <1>1, <1>4, <2>1 DEF Reaper, Reap, EnqueueReplay, GiveUp, Run
  <1>5. CASE \E p \in Processes : Crash(p)
    BY <1>1, <1>5 DEF Crash
  <1>6. CASE UNCHANGED vars
    BY <1>1, <1>6 DEF vars
  <1>7. CASE \E s \in Slots : Acts(s)
    BY <1>7, SlotToldWhole
  <1> QED
    BY <1>2, <1>3, <1>4, <1>5, <1>6, <1>7 DEF Next, Work, Acts

\* A completed run's results tell its whole story, from the first step to the last, in the
\* order of the template and none failed, however often it was crashed and replayed, and
\* whatever the replays reused.
THEOREM ResultsCompleteHolds == Spec /\ Straight /\ Template # <<>> => []ResultsComplete
  <1>1. Init /\ Template # <<>> => ToldWhole
    <2> SUFFICES ASSUME Init, Template # <<>> PROVE ToldWhole
      OBVIOUS
    <2>1. \A s \in Slots : leg[s].pc = "idle"
      BY IdleFacts DEF Init
    <2> QED
      BY <2>1 DEF Init, ToldWhole, LegTells, ResultsComplete, NoRun
  <1>2. Holds /\ Holds' /\ ToldWhole /\ [Next]_vars => ToldWhole'
    BY NextToldWhole
  <1>3. ToldWhole => ResultsComplete
    BY DEF ToldWhole
  <1> QED
    BY <1>1, <1>2, <1>3, SoleInvariance, PTL DEF Spec

----------------------------------------------------------------------------
(* The first replay takes no recorded effect again                         *)

\* A run that has not been started has recorded nothing.
Fresh ==
    attempts = 0 /\ row.status \in {"none", "queued"} => row.results = <<>> /\ recorded = {}

\* What has been recorded is in the row for a replay to reuse, until the replay writes it.
Kept == attempts = 0 \/ row.status = "queued" => recorded \subseteq Reusable(row.results)

\* The ordinals a leg has behind it.
Behind(s) == IF leg[s].pc \in {"exec", "record"} THEN Ordinal(s) - 1 ELSE Ordinal(s)

\* What is recorded is the leg's to reuse, or the leg has recorded it itself.
LegKnows(s) ==
    /\ leg[s].pc = "start" => recorded \subseteq leg[s].prior /\ leg[s].results = <<>>
    /\ leg[s].pc \in Drives => recorded \subseteq leg[s].prior \union 1..Behind(s)
    /\ leg[s].pc \in {"exec", "record"} => Ordinal(s) # 0
    /\ attempts = 0 /\ leg[s].pc \in Drives \union {"start"} =>
           leg[s].prior = {} /\ leg[s].results = row.results

RInv == attempts <= 1 => Fresh /\ Kept /\ \A s \in Slots : LegKnows(s)

----------------------------------------------------------------------------
(* Frames                                                                  *)

\* A leg that has gone on in the run is as it was, or has left it.
LEMMA NothingRecorded ==
    ASSUME Holds, RInv, UNCHANGED <<recorded, attempts>>,
           attempts = 0 \/ row'.status = "queued" =>
               /\ row'.results = row.results
               /\ row'.status \in {"none", "queued"} => row.status \in {"none", "queued"},
           \A s \in Slots : leg'[s] = leg[s] \/ leg'[s].pc \notin Drives \union {"start"}
    PROVE  RInv'
  <1> SUFFICES ASSUME attempts <= 1 PROVE Fresh' /\ Kept' /\ \A s \in Slots : LegKnows(s)'
    BY DEF RInv
  <1>1. Fresh /\ Kept /\ \A s \in Slots : LegKnows(s)
    BY DEF RInv
  <1>2. Fresh'
    BY <1>1 DEF Fresh
  <1>3. Kept'
    <2>1. row.status = "none" => attempts = 0
      BY DEF Holds, SInv, RowAgrees
    <2> QED
      BY <1>1, <2>1 DEF Kept, Reusable
  <1>4. ASSUME NEW s \in Slots
        PROVE  LegKnows(s)'
    BY <1>1 DEF LegKnows, Behind, Ordinal, Drives
  <1> QED
    BY <1>2, <1>3, <1>4

\* The leg that has the job goes on.
LEMMA HolderKnows ==
    ASSUME Holds, NEW s \in Slots, leg[s].job # NoJob,
           \A t \in Slots \ {s} : leg'[t] = leg[t],
           attempts' <= 1 => Fresh' /\ Kept' /\ LegKnows(s)'
    PROVE  RInv'
  <1>1. \A t \in Slots \ {s} : LegKnows(t)'
    BY JobHolder DEF Quiet, LegKnows, Drives
  <1> QED
    BY <1>1 DEF RInv

LEMMA QueuedCopy ==
    ASSUME Holds, NEW s \in Slots, leg[s].pc \in {"load", "start"}, row.status = "queued"
    PROVE  Copy(s) = row
  <1>1. leg[s].job # NoJob /\ ProcOf[s] \in Workers
    BY DEF Holds, SInv, LegsAgree, ShapeOK
  <1>2. \A t \in Slots : leg[t].pc \notin Drives
    BY <1>1, JobHolder DEF Quiet, Drives
  <1>3. cache[ProcOf[s]] = NoRun
    BY <1>1, <1>2, NobodyDrives DEF Terminal
  <1> QED
    BY <1>3 DEF Copy, Current

LEMMA Holders ==
    ASSUME Holds, NEW s \in Slots, leg[s].pc \in Drives \union {"load", "start"}
    PROVE  leg[s].job # NoJob
  BY DEF Holds, SInv, LegsAgree, ShapeOK, Drives

LEMMA RunResults ==
    ASSUME Holds
    PROVE  row \in Run /\ row.results \in Seq(Result)
  BY DEF Holds, IInv, RunsOK, Run

LEMMA NoneReusable == Reusable(<<>>) = {}
  BY DEF Reusable

----------------------------------------------------------------------------
(* The leg's steps                                                         *)

LEMMA LoadKnows ==
    ASSUME Holds, RInv, NEW s \in Slots, LoadRun(s)
    PROVE  RInv'
  <1>1. leg[s].pc = "load" /\ leg[s].job # NoJob /\ leg[s] \in Leg
    BY Holders, LegFacts DEF LoadRun, At, Holds
  <1>2. row.status = "queued"
    BY <1>1, WorkerCopy DEF LoadRun, Queued, Holds, SInv, LegsAgree, ShapeOK
  <1>3. Copy(s) = row
    BY <1>1, <1>2, QueuedCopy
  <1>4. leg[s].job.kind \notin {"wait", "hook"}
    BY <1>1, JobHolder DEF LatestJob, StartJob, ResumeJob
  <1>5. /\ leg'[s].pc = "start" /\ leg'[s].results = <<>>
        /\ leg'[s].prior = Reusable(row.results)
        /\ \A t \in Slots \ {s} : leg'[t] = leg[t]
    <2>1. leg' = [leg EXCEPT ![s] = [leg[s] EXCEPT !.pc = "start", !.at = 1, !.results = <<>>,
                                                   !.prior = Reusable(row.results)]]
      BY <1>3, <1>4 DEF LoadRun, Goto
    <2> QED
      BY <2>1, <1>1 DEF Holds, IInv, LegsOK, Leg
  <1>6. UNCHANGED <<row, attempts, recorded>>
    BY DEF LoadRun, elsewhere, history
  <1>7. ASSUME attempts' <= 1
        PROVE  Fresh' /\ Kept' /\ LegKnows(s)'
    <2>1. Fresh /\ Kept
      BY <1>6, <1>7 DEF RInv
    <2>2. Fresh' /\ Kept'
      BY <1>6, <2>1 DEF Fresh, Kept, Reusable
    <2>3. LegKnows(s)'
      BY <1>2, <1>5, <1>6, <2>1, NoneReusable DEF Fresh, Kept, LegKnows, Drives
    <2> QED
      BY <2>2, <2>3
  <1> QED
    BY <1>1, <1>5, <1>7, HolderKnows

LEMMA StartKnows ==
    ASSUME Holds, RInv, NEW s \in Slots, StartRun(s)
    PROVE  RInv'
  <1>1. leg[s].pc = "start" /\ leg[s].job # NoJob /\ leg[s] \in Leg
    BY Holders, LegFacts DEF StartRun, At, Holds
  <1>2. row.status = "queued" /\ Copy(s) = row /\ row \in Run
    BY <1>1, QueuedCopy, RunResults DEF Holds, SInv, LegsAgree, RowOK
  <1>3. /\ leg'[s].pc = "step" /\ leg'[s].results = leg[s].results
        /\ leg'[s].prior = leg[s].prior
        /\ \A t \in Slots \ {s} : leg'[t] = leg[t]
    BY <1>1 DEF StartRun, Goto, Holds, IInv, LegsOK, Leg
  <1>4. row'.status = "running" /\ row'.results = row.results /\ UNCHANGED <<attempts, recorded>>
    BY <1>2 DEF StartRun, Update, UpdateIn, elsewhere, history, Run
  <1>5. ASSUME attempts' <= 1
        PROVE  Fresh' /\ Kept' /\ LegKnows(s)'
    <2>1. Kept /\ LegKnows(s)
      BY <1>4, <1>5 DEF RInv
    <2> QED
      BY <1>1, <1>2, <1>3, <1>4, <2>1 DEF Fresh, Kept, LegKnows, Reusable, Drives
  <1> QED
    BY <1>1, <1>3, <1>5, HolderKnows

LEMMA ReachKnows ==
    ASSUME Holds, RInv, NEW s \in Slots, ReachStep(s)
    PROVE  RInv'
  <1>1. leg[s].pc = "step" /\ leg[s].job # NoJob /\ leg[s] \in Leg
    BY Holders, LegFacts DEF ReachStep, At, Holds, Drives
  <1>2. row.status = "running" /\ Copy(s) = row /\ row \in Run
    BY <1>1, DrivenCopy DEF Drives
  <1>3. /\ leg'[s].pc = "begin" /\ leg'[s].results = leg[s].results
        /\ leg'[s].prior = leg[s].prior
        /\ \A t \in Slots \ {s} : leg'[t] = leg[t]
    BY <1>1 DEF ReachStep, Goto, Holds, IInv, LegsOK, Leg
  <1>4. row'.status = "running" /\ row'.results = row.results /\ UNCHANGED <<attempts, recorded>>
    BY <1>2 DEF ReachStep, Reached, Update, UpdateIn, elsewhere, history, Run
  <1>5. ASSUME attempts' <= 1
        PROVE  Fresh' /\ Kept' /\ LegKnows(s)'
    <2>1. Kept /\ LegKnows(s)
      BY <1>4, <1>5 DEF RInv
    <2> QED
      BY <1>1, <1>2, <1>3, <1>4, <2>1 DEF Fresh, Kept, LegKnows, Behind, Ordinal, Reusable, Drives
  <1> QED
    BY <1>1, <1>3, <1>5, HolderKnows

LEMMA BeginKnows ==
    ASSUME Holds, RInv, NEW s \in Slots, BeginStep(s)
    PROVE  RInv'
  <1> DEFINE result == [step |-> leg[s].at, status |-> "running", keyed |-> FALSE]
             results == Append(leg[s].results, result)
  <1>1. /\ leg[s].pc = "begin" /\ leg[s].job # NoJob
        /\ leg[s] \in Leg /\ leg[s].results \in Seq(Result)
    BY Holders, LegFacts DEF BeginStep, At, Holds, Drives
  <1>2. row.status = "running" /\ Copy(s) = row /\ row \in Run
    BY <1>1, DrivenCopy DEF Drives
  <1>3. result \in Result
    BY LegFacts DEF Result, Holds
  <1>4. /\ leg'[s].pc = "exec" /\ leg'[s].results = results
        /\ leg'[s].prior = leg[s].prior
        /\ \A t \in Slots \ {s} : leg'[t] = leg[t]
    BY <1>1 DEF BeginStep, Goto, Holds, IInv, LegsOK, Leg
  <1>5. row'.status = "running" /\ row'.results = results /\ UNCHANGED <<attempts, recorded>>
    BY <1>2 DEF BeginStep, Update, UpdateIn, elsewhere, history, Run
  <1> HIDE DEF result
  <1>6. /\ results \in Seq(Result) /\ Len(results) = Len(leg[s].results) + 1
        /\ Len(leg[s].results) \in Nat
        /\ \A o \in 1..Len(leg[s].results) : results[o] = leg[s].results[o]
    BY <1>1, <1>3, AppendProperties, LenProperties
  <1>7. Reusable(leg[s].results) \subseteq Reusable(results)
    BY <1>1, <1>6, LenProperties DEF Reusable
  <1> HIDE DEF results
  <1>8. ASSUME attempts' <= 1
        PROVE  Fresh' /\ Kept' /\ LegKnows(s)'
    <2>1. Kept /\ LegKnows(s)
      BY <1>5, <1>8 DEF RInv
    <2>2. Fresh'
      BY <1>5 DEF Fresh
    <2>3. Kept'
      <3>1. attempts = 0 => recorded \subseteq Reusable(leg[s].results)
        BY <1>1, <2>1 DEF Kept, LegKnows, Drives
      <3>2. Reusable(row.results)' = Reusable(results)
        BY <1>5 DEF Reusable
      <3> QED
        BY <1>5, <1>7, <3>1, <3>2 DEF Kept
    <2>4. Behind(s)' = Behind(s) /\ Ordinal(s)' # 0
      BY <1>1, <1>4, <1>6 DEF Behind, Ordinal
    <2>5. LegKnows(s)'
      BY <1>1, <1>4, <1>5, <2>1, <2>4 DEF LegKnows, Drives
    <2> QED
      BY <2>2, <2>3, <2>5
  <1> QED
    BY <1>1, <1>4, <1>8, HolderKnows

LEMMA ExecutedKnows ==
    ASSUME Holds, RInv, NEW s \in Slots, NEW outcome, At(s, "exec"), Executed(s, outcome)
    PROVE  RInv'
  <1>1. leg[s].pc = "exec" /\ leg[s].job # NoJob /\ leg[s] \in Leg
    BY Holders, LegFacts DEF At, Holds, Drives
  <1>2. row.status = "running"
    BY <1>1, DrivenCopy DEF Drives
  <1>3. /\ leg'[s].pc = "record" /\ leg'[s].results = leg[s].results
        /\ leg'[s].prior = leg[s].prior
        /\ \A t \in Slots \ {s} : leg'[t] = leg[t]
    BY <1>1 DEF Executed, Goto, Holds, IInv, LegsOK, Leg
  <1>4. UNCHANGED <<row, attempts, recorded>>
    BY DEF Executed, elsewhere, history
  <1>5. ASSUME attempts' <= 1
        PROVE  Fresh' /\ Kept' /\ LegKnows(s)'
    <2>1. Kept /\ LegKnows(s)
      BY <1>4, <1>5 DEF RInv
    <2> QED
      BY <1>1, <1>2, <1>3, <1>4, <2>1 DEF Fresh, Kept, LegKnows, Behind, Ordinal, Reusable, Drives
  <1> QED
    BY <1>1, <1>3, <1>5, HolderKnows

LEMMA RecordKnows ==
    ASSUME Holds, RInv, NEW s \in Slots, RecordStep(s)
    PROVE  RInv'
  <1> DEFINE failed == leg[s].outcome = "fail"
             result == [step |-> leg[s].at, keyed |-> TRUE,
                        status |-> IF failed THEN "failure" ELSE "success"]
             n == Ordinal(s)
             results == [leg[s].results EXCEPT ![n] = result]
  <1>1. /\ leg[s].pc = "record" /\ leg[s].job # NoJob
        /\ leg[s] \in Leg /\ leg[s].results \in Seq(Result)
    BY Holders, LegFacts DEF RecordStep, At, Holds, Drives
  <1>2. row.status = "running" /\ Copy(s) = row /\ row \in Run
    BY <1>1, DrivenCopy DEF Drives
  <1>3. result \in Result /\ result.keyed /\ (~failed => result.status = "success")
    BY LegFacts DEF Result, Holds
  <1>4. /\ leg'[s].pc \in {"step", "fail"} /\ leg'[s].results = results
        /\ leg'[s].prior = leg[s].prior
        /\ \A t \in Slots \ {s} : leg'[t] = leg[t]
    <2> DEFINE pc == CASE leg[s].outcome = "next" -> "step"
                       [] leg[s].outcome = "fail" -> "fail"
                       [] leg[s].outcome = "wait" -> "pause"
                       [] leg[s].outcome = "hook" -> "hook"
                       [] leg[s].outcome = "park" -> "return"
               at == IF leg[s].outcome = "next" THEN leg[s].at + 1 ELSE leg[s].at
               l == [leg[s] EXCEPT !.results = results, !.at = at, !.pc = pc]
    <2>1. leg' = [leg EXCEPT ![s] = l]
      BY DEF RecordStep, Goto
    <2>2. pc \in {"step", "fail"}
      BY DEF Holds, SInv, LegsAgree, ShapeOK
    <2> HIDE DEF pc, at, results
    <2>3. l.pc = pc /\ l.results = results /\ l.prior = leg[s].prior
      BY <1>1 DEF Leg
    <2> QED
      BY <2>1, <2>2, <2>3 DEF Holds, IInv, LegsOK
  <1>5. /\ row'.status = "running" /\ row'.results = results /\ UNCHANGED attempts
        /\ recorded' = recorded \/ (recorded' = recorded \union {n} /\ ~failed)
    BY <1>2 DEF RecordStep, Update, UpdateIn, Run
  <1>6. ASSUME attempts' <= 1
        PROVE  Fresh' /\ Kept' /\ LegKnows(s)'
    <2>1. Kept /\ LegKnows(s)
      BY <1>5, <1>6 DEF RInv
    <2>2. n \in Nat \ {0} /\ n = Len(leg[s].results) /\ n \in 1..Len(leg[s].results)
      BY <1>1, <2>1, LenProperties DEF LegKnows, Ordinal
    <2> HIDE DEF result, failed
    <2>3. /\ results \in Seq(Result) /\ Len(results) = n
          /\ \A o \in 1..n : results[o] = IF o = n THEN result ELSE leg[s].results[o]
      BY <1>1, <1>3, <2>2, ExceptSeq
    <2> HIDE DEF results, n
    <2>4. Fresh'
      BY <1>5 DEF Fresh
    <2>5. recorded \subseteq leg[s].prior \union 1..(n - 1)
      BY <1>1, <2>1 DEF LegKnows, Behind, Drives, n
    <2>6. LegKnows(s)'
      <3>1. Behind(s)' = n
        BY <1>4, <2>3 DEF Behind, Ordinal
      <3>2. recorded' \subseteq leg[s].prior \union 1..n
        BY <1>5, <2>2, <2>5
      <3>3. attempts = 0 => leg[s].prior = {}
        BY <1>1, <2>1 DEF LegKnows, Drives
      <3> QED
        BY <1>4, <1>5, <3>1, <3>2, <3>3 DEF LegKnows, Drives
    <2>7. Kept'
      <3> SUFFICES ASSUME attempts = 0
                   PROVE  recorded' \subseteq Reusable(row'.results)
        BY <1>5 DEF Kept, Reusable
      <3>1. leg[s].prior = {} /\ leg[s].results = row.results
        BY <1>1, <2>1 DEF LegKnows, Drives
      <3>2. recorded \subseteq Reusable(leg[s].results) /\ recorded \subseteq 1..(n - 1)
        BY <2>1, <2>5, <3>1 DEF Kept
      <3>3. DOMAIN results = 1..n
        BY <2>3, LenProperties
      <3>4. recorded \subseteq Reusable(results)
        BY <2>2, <2>3, <3>2, <3>3 DEF Reusable
      <3>5. ~failed => n \in Reusable(results)
        BY <1>3, <2>2, <2>3, <3>3 DEF Reusable
      <3> QED
        BY <1>5, <3>4, <3>5
    <2> QED
      BY <2>4, <2>6, <2>7
  <1> QED
    BY <1>1, <1>4, <1>6, HolderKnows

\* The outcome is written: the results are those the leg has, or those of the row.
LEMMA EndKnows ==
    ASSUME Holds, RInv, NEW s \in Slots, DeadlinePasses(s) \/ CompleteRun(s) \/ FailRun(s)
    PROVE  RInv'
  <1>1. /\ leg[s].pc \in {"step", "fail"} /\ leg[s].pc \in Drives /\ leg[s] \in Leg
    BY LegFacts DEF DeadlinePasses, CompleteRun, FailRun, At, Holds, Drives
  <1>2. Copy(s) = row /\ row \in Run
    BY <1>1, DrivenCopy
  <1>3. /\ leg'[s].pc = "return" /\ \A t \in Slots \ {s} : leg'[t] = leg[t]
    BY <1>1 DEF DeadlinePasses, CompleteRun, FailRun, Done, Goto, Holds, IInv, LegsOK, Leg
  <1>4. /\ row'.status \in {"completed", "failed"}
        /\ row'.results \in {row.results, leg[s].results}
    BY <1>2
    DEF DeadlinePasses, CompleteRun, FailRun, Reached, Update, UpdateIn, Run
  <1>5. UNCHANGED <<attempts, recorded>>
    BY DEF DeadlinePasses, CompleteRun, FailRun, elsewhere, history
  <1>6. attempts = 0 => leg[s].results = row.results
    BY <1>1 DEF RInv, LegKnows
  <1> QED
    BY <1>3, <1>4, <1>5, <1>6, NothingRecorded DEF Drives

LEMMA StepKnows ==
    ASSUME Holds, RInv, NEW s \in Slots, Step(s)
    PROVE  RInv'
  <1>1. leg[s].pc \notin {"park", "stamp", "pause", "hook", "enqueue"}
    BY DEF Holds, SInv, LegsAgree, ShapeOK, Drives
  <1>2. leg[s].pc = "exec" => Kind(s) \in {"action", "pure"}
    BY LegFacts DEF Kind, Holds, Straight, Placed, OnStep
  <1>3. ReachStep(s) \/ BeginStep(s) \/ RecordStep(s)
            \/ DeadlinePasses(s) \/ CompleteRun(s) \/ FailRun(s)
            \/ ReuseStep(s) \/ RunAction(s) \/ RunPure(s) \/ StepFails(s)
    BY <1>1, <1>2 DEF Step, ReachWait, ReachApproval, CreateApproval, StampApproval, PauseRun,
                      EnqueueWait, EnqueueWaitFails, At
  <1>4. CASE ReuseStep(s) \/ RunAction(s) \/ RunPure(s) \/ StepFails(s)
    BY <1>4, ExecutedKnows DEF ReuseStep, RunAction, RunPure, StepFails
  <1> QED
    BY <1>3, <1>4, ReachKnows, BeginKnows, RecordKnows, EndKnows

----------------------------------------------------------------------------
(* Everything else                                                         *)

LEMMA ExecuteKnows ==
    ASSUME Holds, RInv, NEW s \in Slots, Execute(s)
    PROVE  RInv'
  <1>1. CASE LoadRun(s) \/ StartRun(s)
    BY <1>1, LoadKnows, StartKnows
  <1>2. CASE MarkFailed(s)
    <2>1. row'.results = row.results /\ row'.status = "failed"
      BY <1>2, RunResults DEF MarkFailed, Run
    <2>2. \A t \in Slots : leg'[t] = leg[t] \/ leg'[t].pc = "idle"
      BY <1>2, IdleFacts DEF MarkFailed, Goto, Holds, IInv, LegsOK
    <2>3. UNCHANGED <<recorded, attempts>>
      BY <1>2 DEF MarkFailed, elsewhere, history
    <2> QED
      BY <2>1, <2>2, <2>3, NothingRecorded DEF Drives
  <1>3. CASE (\E j \in JobId : Deliver(s, j)) \/ SkipRun(s) \/ StartFails(s) \/ JobFails(s)
                 \/ Return(s)
    <2>1. UNCHANGED <<row, recorded, attempts>>
      BY <1>3 DEF Deliver, SkipRun, StartFails, JobFails, Return, elsewhere, history
    <2>2. leg'[s].pc \in {"load", "return", "throw", "idle", "mark"}
      <3>1. leg[s] \in Leg
        BY LegFacts DEF Holds
      <3>2. /\ SkipRun(s) => leg'[s].pc = "return"
            /\ StartFails(s) => leg'[s].pc = "throw"
        BY <3>1 DEF SkipRun, StartFails, Done, Goto, Holds, IInv, LegsOK, Leg
      <3>3. JobFails(s) \/ Return(s) => leg'[s].pc \in {"idle", "mark"}
        BY DEF JobFails, Return, Goto, Holds, IInv, LegsOK, Idle
      <3>4. ASSUME NEW j \in JobId, Deliver(s, j)
            PROVE  leg'[s].pc = "load"
        BY <3>4, IdleFacts DEF Deliver, Goto, Holds, IInv, LegsOK, Leg
      <3> QED
        BY <1>3, <3>2, <3>3, <3>4
    <2>3. \A t \in Slots \ {s} : leg'[t] = leg[t]
      BY <1>3 DEF Deliver, SkipRun, StartFails, JobFails, Return, Done, Goto, Holds, IInv, LegsOK
    <2> QED
      BY <2>1, <2>2, <2>3, NothingRecorded DEF Drives
  <1> QED
    BY <1>1, <1>2, <1>3 DEF Execute

LEMMA CreateKnows ==
    ASSUME Holds, RInv, NEW s \in Slots, Create(s)
    PROVE  RInv'
  <1>1. /\ leg'[s].pc \in {"enqueue_start", "idle"}
        /\ \A t \in Slots \ {s} : leg'[t] = leg[t]
    BY DEF Create, CreateRun, EnqueueStart, EnqueueStartFails, Goto, Holds, IInv, LegsOK, Idle
  <1>2. UNCHANGED <<recorded, attempts>>
    BY DEF Create, CreateRun, EnqueueStart, EnqueueStartFails, elsewhere, history
  <1>3. CASE CreateRun(s)
    <2>1. row.status = "none" /\ row'.results = row.results
      BY <1>3 DEF CreateRun, Update, UpdateIn, NoRun
    <2> QED
      BY <1>1, <1>2, <2>1, NothingRecorded DEF Drives
  <1>4. CASE EnqueueStart(s)
    <2>1. row' = row
      BY <1>4 DEF EnqueueStart
    <2> QED
      BY <1>1, <1>2, <2>1, NothingRecorded DEF Drives
  <1>5. CASE EnqueueStartFails(s)
    <2>1. row.status = "queued" /\ attempts = 0 /\ \A t \in Slots \ {s} : Quiet(t)
      BY <1>5, Alone DEF EnqueueStartFails, At, Holds, SInv, LegsAgree, RowOK
    <2>2. recorded = {}
      BY <2>1 DEF RInv, Fresh
    <2>3. row'.status = "failed"
      BY <1>5, CopyFacts DEF EnqueueStartFails, Update, UpdateIn, Run, Holds
    <2>4. \A t \in Slots : leg'[t].pc \notin Drives \union {"start"}
      BY <1>1, <2>1, <1>5, IdleFacts DEF Quiet, Drives, EnqueueStartFails, Goto, Holds, IInv, LegsOK
    <2>5. (\A t \in Slots : LegKnows(t))'
      BY <2>4 DEF LegKnows, Drives
    <2> QED
      BY <1>2, <2>2, <2>3, <2>5 DEF RInv, Fresh, Kept
  <1> QED
    BY <1>3, <1>4, <1>5 DEF Create

LEMMA ReapKnows ==
    ASSUME Holds, RInv, NEW w \in Workers, Reap(w)
    PROVE  RInv'
  <1>1. row.status = "running" /\ \A s \in Slots : Quiet(s)
    BY StrandedFacts DEF Reap
  <1>2. /\ row'.results = row.results /\ attempts' = attempts + 1 /\ attempts \in Nat
        /\ UNCHANGED <<leg, recorded>>
    BY RunResults, LatestFacts DEF Reap, Run, history, Holds
  <1> SUFFICES ASSUME attempts' <= 1 PROVE Fresh' /\ Kept' /\ \A s \in Slots : LegKnows(s)'
    BY DEF RInv
  <1>3. attempts = 0
    BY <1>2
  <1>4. recorded \subseteq Reusable(row.results)
    BY <1>3 DEF RInv, Kept
  <1> QED
    BY <1>1, <1>2, <1>4 DEF Fresh, Kept, LegKnows, Quiet, Drives, Reusable

LEMMA NextRInv == Holds /\ RInv /\ [Next]_vars => RInv'
  <1> SUFFICES ASSUME Holds, RInv, [Next]_vars PROVE RInv'
    OBVIOUS
  <1>1. ASSUME NEW s \in Slots, Create(s) \/ Execute(s) \/ Step(s) \/ Resume(s)
        PROVE  RInv'
    BY <1>1, CreateKnows, ExecuteKnows, StepKnows, ResumeNever
  <1>2. CASE (\E j \in JobId : DropStalled(j)) \/ Approve \/ UNCHANGED vars
    <2>1. UNCHANGED <<row, attempts, leg, recorded>>
      BY <1>2 DEF DropStalled, Approve, Decide, PersistDecision, TimerFires, DropTimer, elsewhere,
                  history, vars
    <2> QED
      BY <2>1, NothingRecorded
  <1>3. ASSUME NEW w \in Workers, Reaper(w)
        PROVE  RInv'
    <2>1. CASE Reap(w)
      BY <2>1, ReapKnows
    <2>2. CASE EnqueueReplay(w)
      BY <2>2, NothingRecorded DEF EnqueueReplay, history
    <2>3. CASE GiveUp(w)
      <3>1. row'.results = row.results /\ row'.status = "failed"
        BY <2>3, RunResults DEF GiveUp, Run
      <3> QED
        BY <2>3, <3>1, NothingRecorded DEF GiveUp, history
    <2> QED
      BY <1>3, <2>1, <2>2, <2>3 DEF Reaper
  <1>4. ASSUME NEW p \in Processes, Crash(p)
        PROVE  RInv'
    <2>1. \A s \in Slots : leg'[s] = leg[s] \/ leg'[s].pc = "idle"
      BY <1>4, IdleFacts DEF Crash
    <2>2. UNCHANGED <<row, attempts, recorded>>
      BY <1>4 DEF Crash, history
    <2> QED
      BY <2>1, <2>2, NothingRecorded DEF Drives
  <1> QED
    BY <1>1, <1>2, <1>3, <1>4 DEF Next, Work

\* Only the leg's own action refires an effect, and it knows what is recorded.
LEMMA NobodyRefires ==
    ASSUME Holds, RInv, attempts <= 1, NEW s \in Slots, RunAction(s)
    PROVE  Ordinal(s) \notin recorded
  <1>1. leg[s].pc = "exec" /\ Kind(s) = "action" /\ ~Reuses(s)
    BY DEF RunAction, At
  <1>2. Ordinal(s) \notin leg[s].prior
    BY <1>1 DEF Reuses
  <1>3. recorded \subseteq leg[s].prior \union 1..(Ordinal(s) - 1)
    BY <1>1 DEF RInv, LegKnows, Behind, Drives
  <1>4. Ordinal(s) \in Nat
    BY LegFacts DEF Holds
  <1> QED
    BY <1>2, <1>3, <1>4

LEMMA InitRInv == Init => RInv
  BY NoneReusable DEF Init, RInv, Fresh, Kept, LegKnows, Drives, Idle, NoRun

\* The first replay of a run that never pauses reuses every recorded step, wherever the crash
\* fell, however often its job was retried or redelivered.
THEOREM FirstReplayReusesHolds == Spec /\ Straight => FirstReplayReuses
  <1>1. Holds /\ RInv /\ [Next]_vars => [attempts <= 1 => \A s \in Slots : NotRefired(s)]_vars
    BY NobodyRefires DEF NotRefired
  <1> QED
    BY <1>1, InitRInv, NextRInv, SoleInvariance, PTL DEF Spec, FirstReplayReuses
=============================================================================
