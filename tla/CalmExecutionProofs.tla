------------------------- MODULE CalmExecutionProofs -------------------------
(***************************************************************************)
(* A run that may pause, park and be sent back as its template says, while *)
(* no process crashes: one leg at a time drives it, approvals gate what is *)
(* behind them, and its outcome is final, for any template, any number of  *)
(* processes, slots and decisions, with jobs that fail and are tried       *)
(* again.                                                                  *)
(***************************************************************************)
EXTENDS RunExecutionProofs

\* Nothing crashes, no step takes RUN_REAPER_STALE_MS, and no sweep catches a leg that
\* is parking or resuming the run.
Calm == Mortal = {} /\ ~SlowSteps /\ Unhurried

----------------------------------------------------------------------------
(* The inductive invariant                                                 *)

Drives(s) ==
    \/ leg[s].pc \in {"step", "begin", "exec", "fail", "pause", "hook", "resumed"}
    \/ leg[s].pc = "record" /\ leg[s].outcome # "park"

Parks(s) == leg[s].pc \in {"park", "stamp"}

\* The process's copy of the run is the row.
UpToDate(s) == cache[ProcOf[s]] = row

\* What the row, and the process's copy, say at each point of a leg.
PhaseOK(s) ==
    /\ leg[s].job # NoJob => ProcOf[s] \in Workers
    /\ leg[s].pc \in {"resume", "resumed", "mark", "enqueue_start"} => leg[s].job = NoJob
    /\ leg[s].pc = "enqueue_start" =>
           ProcOf[s] \in Apis /\ row.status = "queued" /\ UpToDate(s)
    /\ leg[s].pc \in {"load", "start", "throw"} => leg[s].job # NoJob
    /\ leg[s].pc \in {"load", "start", "throw", "mark"} => row.status \in {"queued", "failed"}
    /\ leg[s].pc = "start" => Copy(s).status = "queued"
    /\ Drives(s) => row.status = "running" /\ UpToDate(s) /\ row.waiting = 0
    /\ Parks(s) => row.status = "awaiting_approval" /\ UpToDate(s) /\ row.waiting = 0
    /\ leg[s].pc = "stamp" => leg[s].approval # 0
    /\ leg[s].pc = "record" /\ leg[s].outcome = "park" =>
           row.status = "awaiting_approval" /\ UpToDate(s) /\ row.waiting # 0
    /\ leg[s].pc = "enqueue" => row.status = "queued" /\ UpToDate(s)
    /\ leg[s].pc = "resume" =>
           /\ ProcOf[s] \in Apis
           /\ row.status = "awaiting_approval" /\ row.waiting # 0
           /\ Copy(s).status = "awaiting_approval"

OneBusy == \A s, t \in Slots : Busy(s) /\ Busy(t) => s = t

\* A copy that says the run is under way is that of a leg that is.
Explained(run, slots) ==
    /\ run.status = "running" => \E s \in slots : Drives(s)
    /\ run.status = "awaiting_approval" /\ run.waiting = 0 => \E s \in slots : Parks(s)
    /\ run.status = "queued" => run.waiting = 0

SlotsOf(p) == {s \in Slots : ProcOf[s] = p}

RunsExplained ==
    /\ Explained(row, Slots)
    /\ \A p \in Processes : Explained(cache[p], SlotsOf(p))

Unbegun ==
    row.status = "none" =>
        /\ \A s \in Slots : leg[s].pc = "idle"
        /\ \A j \in JobId : jobs[j].state = "absent"
        /\ \A p \in Processes : cache[p] = NoRun

LegsFit == OneBusy /\ (\A s \in Slots : PhaseOK(s)) /\ RunsExplained /\ Unbegun

\* A job that waits has the run to itself.
ReadyAlone ==
    \A j \in JobId : jobs[j].state = "ready" =>
        /\ \A s \in Slots : ~Busy(s)
        /\ row.status \in {"queued", "failed"}
        /\ \A k \in JobId : jobs[k].state = "ready" => k = j

\* Without crashes, nothing stalls, and the reaper finds nothing to replay.
NoCrash ==
    /\ attempts = 0 /\ \A w \in Workers : reaping[w] = 0
    /\ \A j \in JobId : jobs[j].state # "stalled"
    /\ \A j \in JobId : j.kind \in {"resume", "hook"} => jobs[j].state = "absent"

BInv == LegsFit /\ ReadyAlone /\ NoCrash

Holds == IInv /\ BInv /\ Calm

----------------------------------------------------------------------------
(* A step of the busy slot                                                 *)

LEMMA BusyAlone ==
    ASSUME Holds, NEW s \in Slots, Busy(s)
    PROVE  /\ \A t \in Slots \ {s} : ~Busy(t)
           /\ \A j \in JobId : jobs[j].state # "ready"
           /\ row.status # "none"
  BY DEF Holds, BInv, LegsFit, OneBusy, ReadyAlone, Unbegun, Busy

LEMMA CopyIsRow ==
    ASSUME NEW s \in Slots, UpToDate(s)
    PROVE  Copy(s) = row
  BY DEF UpToDate, Copy, Current

\* What is said of the other slots stays true when they are at rest.
LEMMA OthersRest ==
    ASSUME IInv, IInv', LegsFit, NEW s \in Slots, Others(s), \A t \in Slots \ {s} : ~Busy(t)
    PROVE  /\ \A t \in Slots \ {s} : ~Busy(t)' /\ PhaseOK(t)'
           /\ OneBusy'
  <1>1. ASSUME NEW t \in Slots \ {s}
        PROVE  ~Busy(t)' /\ PhaseOK(t)'
    <2>1. leg'[t] = leg[t] /\ leg[t].pc \in {"idle", "return"}
      BY DEF Others, Busy
    <2>2. leg[t].job # NoJob => ProcOf[t] \in Workers
      BY DEF LegsFit, PhaseOK
    <2> QED
      BY <2>1, <2>2 DEF Busy, PhaseOK, Drives, Parks
  <1> QED
    BY <1>1 DEF OneBusy

\* The slot goes on and nothing is written.
LEMMA QuietFit ==
    ASSUME IInv, IInv', LegsFit, NEW s \in Slots, Others(s), Unwritten,
           \A t \in Slots \ {s} : ~Busy(t), PhaseOK(s)', row.status # "none",
           Drives(s) => Drives(s)', Parks(s) => Parks(s)'
    PROVE  LegsFit'
  <1>1. (\A t \in Slots : PhaseOK(t)') /\ OneBusy'
    BY OthersRest
  <1>2. \A t \in Slots : (Drives(t) => Drives(t)') /\ (Parks(t) => Parks(t)')
    BY DEF Others, Drives, Parks
  <1>3. RunsExplained'
    BY <1>2 DEF LegsFit, RunsExplained, Explained, SlotsOf, Unwritten
  <1>4. Unbegun'
    BY DEF Unbegun, Unwritten
  <1> QED
    BY <1>1, <1>3, <1>4 DEF LegsFit

\* The slot goes on and writes the run.
LEMMA WrittenFit ==
    ASSUME IInv, IInv', LegsFit, NEW s \in Slots, Others(s), Written(s),
           \A t \in Slots \ {s} : ~Busy(t), PhaseOK(s)', row'.status # "none",
           row'.status = "running" => Drives(s)',
           row'.status = "awaiting_approval" /\ row'.waiting = 0 => Parks(s)',
           row'.status = "queued" => row'.waiting = 0
    PROVE  LegsFit'
  <1>1. (\A t \in Slots : PhaseOK(t)') /\ OneBusy'
    BY OthersRest
  <1>2. \A t \in Slots : Drives(t) \/ Parks(t) => t = s
    BY DEF Busy, Drives, Parks
  <1>3. RunsExplained'
    <2>1. Explained(row, Slots)'
      BY DEF Explained
    <2>2. ASSUME NEW p \in Processes
          PROVE  Explained(cache[p], SlotsOf(p))'
      <3>1. CASE p = ProcOf[s]
        <4>1. s \in SlotsOf(p)
          BY <3>1 DEF SlotsOf
        <4>2. cache'[p] = row'
          BY <3>1 DEF Written
        <4> QED
          BY <4>1, <4>2 DEF Explained, SlotsOf
      <3>2. CASE p # ProcOf[s]
        <4>1. cache'[p] = cache[p] /\ s \notin SlotsOf(p) /\ Explained(cache[p], SlotsOf(p))
          BY <3>2 DEF Written, SlotsOf, LegsFit, RunsExplained
        <4>2. \A t \in SlotsOf(p) : ~Drives(t) /\ ~Parks(t)
          BY <4>1, <1>2 DEF SlotsOf
        <4> QED
          BY <4>1, <4>2 DEF Explained
      <3> QED
        BY <3>1, <3>2
    <2> QED
      BY <2>1, <2>2 DEF RunsExplained
  <1>4. Unbegun'
    BY DEF Unbegun
  <1> QED
    BY <1>1, <1>3, <1>4 DEF LegsFit

LEMMA JobsStay ==
    ASSUME Holds, NEW s \in Slots, Busy(s), UNCHANGED jobs, UNCHANGED <<attempts, reaping>>
    PROVE  ReadyAlone' /\ NoCrash'
  BY BusyAlone DEF Holds, BInv, ReadyAlone, NoCrash

\* The two together, for a step that leaves the queue alone.
LEMMA QuietKeeps ==
    ASSUME Holds, IInv', NEW s \in Slots, Busy(s), Others(s), Unwritten, UNCHANGED jobs,
           UNCHANGED <<attempts, reaping>>,
           PhaseOK(s)', Drives(s) => Drives(s)', Parks(s) => Parks(s)'
    PROVE  BInv'
  BY BusyAlone, QuietFit, JobsStay DEF Holds, BInv

LEMMA WrittenKeeps ==
    ASSUME Holds, IInv', NEW s \in Slots, Busy(s), Others(s), Written(s), UNCHANGED jobs,
           UNCHANGED <<attempts, reaping>>,
           PhaseOK(s)', row'.status # "none",
           row'.status = "running" => Drives(s)',
           row'.status = "awaiting_approval" /\ row'.waiting = 0 => Parks(s)',
           row'.status = "queued" => row'.waiting = 0
    PROVE  BInv'
  BY BusyAlone, WrittenFit, JobsStay DEF Holds, BInv

----------------------------------------------------------------------------
(* Each step of a slot                                                     *)

LEMMA PhaseFacts ==
    ASSUME Holds, NEW s \in Slots
    PROVE  /\ IInv /\ PhaseOK(s)
           /\ UpToDate(s) => Copy(s) = row
           /\ row \in Run
  BY CopyIsRow DEF Holds, BInv, LegsFit, IInv, RunsOK

\* The actions of a slot that has work under way, and write nothing.
LEMMA QuietActions ==
    ASSUME Holds, IInv', NEW s \in Slots,
           \/ SkipRun(s) \/ LoadRun(s) \/ StartFails(s)
           \/ ReuseStep(s) \/ RunAction(s) \/ RunPure(s) \/ StepFails(s) \/ ReachWait(s)
           \/ CreateApproval(s)
    PROVE  BInv'
  <1> USE DEF elsewhere
  <1>0. IInv /\ PhaseOK(s)
    BY PhaseFacts
  <1>1. CASE SkipRun(s)
    <2>1. Busy(s) /\ PhaseOK(s)' /\ ~Drives(s) /\ ~Parks(s)
      BY <1>0, <1>1, SkipRunEffect DEF Busy, PhaseOK, Drives, Parks, SameLeg
    <2> QED
      BY <1>0, <1>1, <2>1, SkipRunEffect, QuietKeeps
  <1>2. CASE LoadRun(s)
    <2>1. Copy(s)' = Copy(s)
      BY <1>0, <1>2, LoadRunEffect DEF Unwritten, Copy, Current
    <2>2. Busy(s) /\ PhaseOK(s)' /\ ~Drives(s) /\ ~Parks(s)
      BY <1>0, <1>2, <2>1, LoadRunEffect DEF Busy, PhaseOK, Drives, Parks, Unwritten
    <2> QED
      BY <1>0, <1>2, <2>2, LoadRunEffect, QuietKeeps
  <1>3. CASE StartFails(s)
    <2>1. Busy(s) /\ PhaseOK(s)' /\ ~Drives(s) /\ ~Parks(s)
      BY <1>0, <1>3, StartFailsEffect DEF Busy, PhaseOK, Drives, Parks, SameLeg, Unwritten
    <2> QED
      BY <1>0, <1>3, <2>1, StartFailsEffect, QuietKeeps
  <1>4. ASSUME NEW outcome \in {"next", "fail", "wait"}, At(s, "exec"), Executed(s, outcome)
        PROVE  BInv'
    <2>1. Busy(s) /\ PhaseOK(s)' /\ Drives(s)' /\ ~Parks(s)
      BY <1>0, <1>4, ExecutedEffect DEF Busy, PhaseOK, Drives, Parks, Unwritten, UpToDate
    <2> QED
      BY <1>0, <1>4, <2>1, ExecutedEffect, QuietKeeps
  <1>5. CASE CreateApproval(s)
    <2>0. Len(approvals) + 1 # 0
      BY <1>0, LenOfApprovals DEF IInv
    <2>1. Busy(s) /\ PhaseOK(s)' /\ ~Drives(s) /\ Parks(s)'
      BY <1>0, <1>5, <2>0, CreateApprovalEffect
      DEF Busy, PhaseOK, Drives, Parks, Unwritten, UpToDate
    <2> QED
      BY <1>0, <1>5, <2>1, CreateApprovalEffect, QuietKeeps
  <1> QED
    BY <1>1, <1>2, <1>3, <1>4, <1>5
    DEF ReuseStep, RunAction, RunPure, StepFails, ReachWait

\* The actions of a leg that write the run and go on driving it.
LEMMA DrivingActions ==
    ASSUME Holds, IInv', NEW s \in Slots,
           StartRun(s) \/ ReachStep(s) \/ BeginStep(s) \/ ResumeRun(s) \/ RecordDecision(s)
    PROVE  BInv'
  <1> USE DEF elsewhere
  <1>0. IInv /\ PhaseOK(s) /\ (UpToDate(s) => Copy(s) = row)
    BY PhaseFacts
  <1>1. CASE StartRun(s)
    <2>1. Copy(s) = row \/ Copy(s) = cache[ProcOf[s]]
      BY DEF Copy, Current
    <2>2. Copy(s).waiting = 0
      BY <1>0, <1>1, <2>1, StartRunEffect, ProcOfIsProcess
      DEF PhaseOK, Holds, BInv, LegsFit, RunsExplained, Explained
    <2>3. Busy(s) /\ PhaseOK(s)' /\ Drives(s)'
      BY <1>0, <1>1, <2>2, StartRunEffect
      DEF Busy, PhaseOK, Drives, Parks, SameLeg, UpToDate, Written
    <2> QED
      BY <1>0, <1>1, <2>2, <2>3, StartRunEffect, WrittenKeeps
  <1>2. CASE ReachStep(s)
    <2>1. Busy(s) /\ PhaseOK(s)' /\ Drives(s)'
      BY <1>0, <1>2, ReachStepEffect
      DEF Busy, PhaseOK, Drives, Parks, SameLeg, UpToDate, Written
    <2> QED
      BY <1>0, <1>2, <2>1, ReachStepEffect, WrittenKeeps DEF PhaseOK, Drives
  <1>3. CASE BeginStep(s)
    <2>1. Busy(s) /\ PhaseOK(s)' /\ Drives(s)'
      BY <1>0, <1>3, BeginStepEffect DEF Busy, PhaseOK, Drives, Parks, UpToDate, Written
    <2> QED
      BY <1>0, <1>3, <2>1, BeginStepEffect, WrittenKeeps DEF PhaseOK, Drives
  <1>4. CASE ResumeRun(s)
    <2>1. Busy(s) /\ PhaseOK(s)' /\ Drives(s)'
      BY <1>0, <1>4, ResumeRunEffect
      DEF Busy, PhaseOK, Drives, Parks, SameLeg, UpToDate, Written
    <2> QED
      BY <1>0, <1>4, <2>1, ResumeRunEffect, WrittenKeeps
  <1>5. CASE RecordDecision(s)
    <2>1. Busy(s) /\ PhaseOK(s)' /\ Drives(s)'
      BY <1>0, <1>5, RecordDecisionEffect DEF Busy, PhaseOK, Drives, Parks, UpToDate, Written
    <2> QED
      BY <1>0, <1>5, <2>1, RecordDecisionEffect, WrittenKeeps DEF PhaseOK, Drives
  <1> QED
    BY <1>1, <1>2, <1>3, <1>4, <1>5

\* Those that park it, queue it again or record what it has come to.
LEMMA ParkingActions ==
    ASSUME Holds, IInv', NEW s \in Slots,
           RecordStep(s) \/ ReachApproval(s) \/ StampApproval(s) \/ PauseRun(s)
    PROVE  BInv'
  <1> USE DEF elsewhere
  <1>0. IInv /\ PhaseOK(s) /\ (UpToDate(s) => Copy(s) = row)
    BY PhaseFacts
  <1>1. CASE RecordStep(s)
    <2>1. leg[s].outcome \in {"next", "fail", "wait", "hook", "park"}
      BY LegFacts DEF Holds
    <2>2. Copy(s) = row
      BY <1>0, <1>1, <2>1, RecordStepEffect DEF PhaseOK, Drives
    <2>3. CASE leg[s].outcome = "park"
      <3>1. leg'[s].pc = "return" /\ row.status = "awaiting_approval" /\ row.waiting # 0
        BY <1>0, <1>1, <2>3, RecordStepEffect DEF PhaseOK, After
      <3>2. Busy(s) /\ PhaseOK(s)'
        BY <1>0, <1>1, <3>1, RecordStepEffect DEF Busy, PhaseOK, Drives, Parks
      <3> QED
        BY <1>0, <1>1, <2>2, <3>1, <3>2, RecordStepEffect, WrittenKeeps
    <2>4. CASE leg[s].outcome # "park"
      <3>1. leg'[s].pc \in {"step", "fail", "pause", "hook"}
        BY <1>0, <1>1, <2>1, <2>4, RecordStepEffect DEF After
      <3>2. row.status = "running" /\ row.waiting = 0
        BY <1>0, <1>1, <2>4, RecordStepEffect DEF PhaseOK, Drives
      <3>3. Busy(s) /\ PhaseOK(s)' /\ Drives(s)'
        BY <1>0, <1>1, <2>2, <3>1, <3>2, RecordStepEffect
        DEF Busy, PhaseOK, Drives, Parks, UpToDate, Written
      <3> QED
        BY <1>0, <1>1, <2>2, <3>2, <3>3, RecordStepEffect, WrittenKeeps
    <2> QED
      BY <2>3, <2>4
  <1>2. CASE ReachApproval(s)
    <2>1. row'.waiting = 0
      BY <1>0, <1>2, ReachApprovalEffect DEF PhaseOK, Drives
    <2>2. Busy(s) /\ PhaseOK(s)' /\ Parks(s)'
      BY <1>0, <1>2, <2>1, ReachApprovalEffect
      DEF Busy, PhaseOK, Drives, Parks, SameLeg, UpToDate, Written
    <2> QED
      BY <1>0, <1>2, <2>2, ReachApprovalEffect, WrittenKeeps
  <1>3. CASE StampApproval(s)
    <2>1. row'.waiting # 0 /\ row'.status = "awaiting_approval"
      BY <1>0, <1>3, StampApprovalEffect DEF PhaseOK, Parks
    <2>2. Busy(s) /\ PhaseOK(s)'
      BY <1>0, <1>3, <2>1, StampApprovalEffect
      DEF Busy, PhaseOK, Drives, Parks, UpToDate, Written
    <2> QED
      BY <1>0, <1>3, <2>1, <2>2, StampApprovalEffect, WrittenKeeps
  <1>4. CASE PauseRun(s)
    <2>1. Busy(s) /\ PhaseOK(s)'
      BY <1>0, <1>4, PauseRunEffect
      DEF Busy, PhaseOK, Drives, Parks, SameLeg, UpToDate, Written
    <2> QED
      BY <1>0, <1>4, <2>1, PauseRunEffect, WrittenKeeps
  <1> QED
    BY <1>1, <1>2, <1>3, <1>4

\* Those that end it.
LEMMA EndingActions ==
    ASSUME Holds, IInv', NEW s \in Slots,
           \/ EnqueueStartFails(s) \/ DeadlinePasses(s) \/ CompleteRun(s) \/ FailRun(s)
           \/ EnqueueWaitFails(s) \/ ResumeFails(s)
    PROVE  BInv'
  <1> USE DEF elsewhere
  <1>0. IInv /\ PhaseOK(s) /\ Idle.pc = "idle" /\ Idle.job = NoJob
    BY PhaseFacts, IdleFacts
  <1>1. CASE EnqueueStartFails(s)
    <2>1. Busy(s) /\ PhaseOK(s)'
      BY <1>0, <1>1, EnqueueStartFailsEffect DEF Busy, PhaseOK, Drives, Parks
    <2> QED
      BY <1>0, <1>1, <2>1, EnqueueStartFailsEffect, WrittenKeeps
  <1>2. CASE DeadlinePasses(s)
    <2>1. Busy(s) /\ PhaseOK(s)'
      BY <1>0, <1>2, DeadlinePassesEffect DEF Busy, PhaseOK, Drives, Parks, SameLeg
    <2> QED
      BY <1>0, <1>2, <2>1, DeadlinePassesEffect, WrittenKeeps
  <1>3. CASE CompleteRun(s)
    <2>1. Busy(s) /\ PhaseOK(s)'
      BY <1>0, <1>3, CompleteRunEffect DEF Busy, PhaseOK, Drives, Parks, SameLeg
    <2> QED
      BY <1>0, <1>3, <2>1, CompleteRunEffect, WrittenKeeps
  <1>4. CASE FailRun(s)
    <2>1. Busy(s) /\ PhaseOK(s)'
      BY <1>0, <1>4, FailRunEffect DEF Busy, PhaseOK, Drives, Parks, SameLeg
    <2> QED
      BY <1>0, <1>4, <2>1, FailRunEffect, WrittenKeeps
  <1>5. CASE EnqueueWaitFails(s)
    <2>1. Busy(s) /\ PhaseOK(s)'
      BY <1>0, <1>5, EnqueueWaitFailsEffect DEF Busy, PhaseOK, Drives, Parks, SameLeg
    <2> QED
      BY <1>0, <1>5, <2>1, EnqueueWaitFailsEffect, WrittenKeeps
  <1>6. CASE ResumeFails(s)
    <2>1. Busy(s) /\ PhaseOK(s)'
      BY <1>0, <1>6, ResumeFailsEffect DEF Busy, PhaseOK, Drives, Parks
    <2> QED
      BY <1>0, <1>6, <2>1, ResumeFailsEffect, WrittenKeeps
  <1> QED
    BY <1>1, <1>2, <1>3, <1>4, <1>5, <1>6

LEMMA MarkFailedKeeps ==
    ASSUME Holds, IInv', NEW s \in Slots, MarkFailed(s)
    PROVE  BInv'
  <1>0. IInv /\ PhaseOK(s) /\ Idle.pc = "idle" /\ Idle.job = NoJob
    BY PhaseFacts, IdleFacts
  <1>1. Busy(s) /\ PhaseOK(s)'
    BY <1>0, MarkFailedEffect DEF Busy, PhaseOK, Drives, Parks
  <1>2. (\A t \in Slots : PhaseOK(t)') /\ OneBusy'
    BY <1>0, <1>1, BusyAlone, OthersRest, MarkFailedEffect DEF Holds, BInv
  <1>3. \A t \in Slots : ~Drives(t) /\ ~Parks(t)
    BY <1>0, <1>1, BusyAlone, MarkFailedEffect DEF Busy, Drives, Parks
  <1>4. ASSUME NEW p \in Processes
        PROVE  Explained(cache[p], SlotsOf(p))'
    <2>1. Explained(cache[p], SlotsOf(p))
      BY DEF Holds, BInv, LegsFit, RunsExplained
    <2>2. cache'[p] = cache[p] \/ cache'[p] = NoRun \/ cache'[p].status = "failed"
      BY <1>0, MarkFailedEffect
    <2> QED
      BY <1>3, <2>1, <2>2 DEF Explained, SlotsOf, NoRun
  <1>5. RunsExplained' /\ Unbegun'
    BY <1>0, <1>4, MarkFailedEffect DEF RunsExplained, Explained, Unbegun
  <1>6. ReadyAlone' /\ NoCrash'
    BY <1>0, <1>1, JobsStay, MarkFailedEffect DEF elsewhere
  <1> QED
    BY <1>2, <1>5, <1>6 DEF BInv, LegsFit

----------------------------------------------------------------------------
(* The queue                                                               *)

\* A job is added when its slot is the busy one and rests afterwards.
LEMMA AddAlone ==
    ASSUME Holds, NEW s \in Slots, Busy(s), NEW j \in JobId, Add(j), Others(s), ~Busy(s)',
           row' = row, row.status \in {"queued", "failed"}, UNCHANGED <<attempts, reaping>>,
           j.kind \notin {"resume", "hook"}
    PROVE  ReadyAlone' /\ NoCrash'
  <1>1. /\ \A k \in JobId \ {j} : jobs'[k] = jobs[k]
        /\ jobs'[j] = jobs[j] \/ jobs'[j].state = "ready"
    BY DEF Add, Holds, IInv, JobsOK, JobState
  <1>2. \A k \in JobId : jobs'[k].state = "ready" => k = j
    BY <1>1, BusyAlone
  <1>3. \A t \in Slots : ~Busy(t)'
    BY BusyAlone DEF Others, Busy
  <1>4. ReadyAlone'
    BY <1>2, <1>3 DEF ReadyAlone
  <1>5. NoCrash'
    BY <1>1 DEF NoCrash, Holds, BInv
  <1> QED
    BY <1>4, <1>5

LEMMA EnqueueStartKeeps ==
    ASSUME Holds, IInv', NEW s \in Slots, EnqueueStart(s)
    PROVE  BInv'
  <1>0. IInv /\ PhaseOK(s) /\ Idle.pc = "idle" /\ Idle.job = NoJob
    BY PhaseFacts, IdleFacts
  <1>1. Busy(s) /\ PhaseOK(s)' /\ ~Busy(s)' /\ row.status = "queued"
    BY <1>0, EnqueueStartEffect DEF Busy, PhaseOK, Drives, Parks
  <1>2. ReadyAlone' /\ NoCrash'
    BY <1>0, <1>1, AddAlone, JobFacts, EnqueueStartEffect DEF elsewhere, Unwritten, StartJob
  <1>3. LegsFit'
    BY <1>0, <1>1, BusyAlone, QuietFit, EnqueueStartEffect DEF Holds, BInv, Drives, Parks
  <1> QED
    BY <1>2, <1>3 DEF BInv

LEMMA EnqueueWaitKeeps ==
    ASSUME Holds, IInv', NEW s \in Slots, EnqueueWait(s)
    PROVE  BInv'
  <1>0. IInv /\ PhaseOK(s)
    BY PhaseFacts
  <1>1. Busy(s) /\ PhaseOK(s)' /\ ~Busy(s)' /\ row.status = "queued"
    BY <1>0, EnqueueWaitEffect DEF Busy, PhaseOK, Drives, Parks, SameLeg
  <1>2. ReadyAlone' /\ NoCrash'
    BY <1>0, <1>1, AddAlone, EnqueueWaitEffect DEF elsewhere, Unwritten, WaitJob
  <1>3. LegsFit'
    BY <1>0, <1>1, BusyAlone, QuietFit, EnqueueWaitEffect DEF Holds, BInv, Drives, Parks
  <1> QED
    BY <1>2, <1>3 DEF BInv

LEMMA DeliverKeeps ==
    ASSUME Holds, IInv', NEW s \in Slots, NEW j \in JobId, Deliver(s, j)
    PROVE  BInv'
  <1>0. IInv /\ PhaseOK(s) /\ j # NoJob
    BY PhaseFacts, JobFacts
  <1>1. /\ jobs[j].state = "ready" /\ \A t \in Slots : ~Busy(t)
        /\ row.status \in {"queued", "failed"}
        /\ \A k \in JobId : jobs[k].state = "ready" => k = j
    BY <1>0, DeliverEffect DEF Holds, BInv, ReadyAlone, NoCrash
  <1>2. PhaseOK(s)'
    BY <1>0, <1>1, DeliverEffect DEF PhaseOK, Drives, Parks, Unwritten
  <1>3. LegsFit'
    BY <1>0, <1>1, <1>2, QuietFit, DeliverEffect DEF Holds, BInv, Drives, Parks, Busy
  <1>4. ReadyAlone' /\ NoCrash'
    BY <1>0, <1>1, DeliverEffect DEF ReadyAlone, NoCrash, Holds, BInv, elsewhere
  <1> QED
    BY <1>3, <1>4 DEF BInv

LEMMA JobFailsKeeps ==
    ASSUME Holds, IInv', NEW s \in Slots, JobFails(s)
    PROVE  BInv'
  <1>0. IInv /\ PhaseOK(s) /\ Idle.pc = "idle" /\ Idle.job = NoJob
    BY PhaseFacts, IdleFacts
  <1>1. leg[s].pc = "throw" /\ leg[s].job \in JobId /\ row.status \in {"queued", "failed"}
    BY <1>0, LegFacts DEF JobFails, At, PhaseOK, Leg
  <1>2. Busy(s) /\ PhaseOK(s)'
    BY <1>0, <1>1, JobFailsEffect DEF Busy, PhaseOK, Drives, Parks, Unwritten
  <1>3. LegsFit'
    BY <1>0, <1>1, <1>2, BusyAlone, QuietFit, JobFailsEffect DEF Holds, BInv, Drives, Parks
  <1>4. jobs[leg[s].job].state = "active"
    BY <1>0, <1>1, JobFacts DEF IInv, JobsOK, Held
  <1>5. leg[s].job.kind \notin {"resume", "hook"}
    BY <1>1, <1>4 DEF Holds, BInv, NoCrash
  <1>6. NoCrash'
    BY <1>0, <1>1, <1>5, JobFailsEffect DEF NoCrash, Holds, BInv, elsewhere
  <1>7. ReadyAlone'
    <2>1. CASE leg'[s] = Idle
      <3>1. \A t \in Slots : ~Busy(t)'
        BY <1>0, <1>1, <1>2, <2>1, BusyAlone, JobFailsEffect DEF Busy, Others
      <3>2. \A k \in JobId : jobs'[k].state = "ready" => k = leg[s].job
        BY <1>0, <1>1, <1>2, BusyAlone, JobFailsEffect
      <3> QED
        BY <1>0, <1>1, <3>1, <3>2, JobFailsEffect DEF ReadyAlone, Unwritten
    <2>2. CASE leg'[s].pc = "mark"
      <3>1. \A k \in JobId : jobs'[k].state # "ready"
        BY <1>0, <1>1, <1>2, <2>2, BusyAlone, JobFailsEffect
      <3> QED
        BY <3>1 DEF ReadyAlone
    <2> QED
      BY <1>0, <1>1, <2>1, <2>2, JobFailsEffect
  <1> QED
    BY <1>3, <1>6, <1>7 DEF BInv

\* The slot that returns was at rest already.
LEMMA ReturnKeeps ==
    ASSUME Holds, IInv', NEW s \in Slots, Return(s)
    PROVE  BInv'
  <1>0. IInv /\ PhaseOK(s) /\ Idle.pc = "idle" /\ Idle.job = NoJob
    BY PhaseFacts, IdleFacts
  <1>1. \A t \in Slots : /\ Busy(t)' <=> Busy(t)
                         /\ Drives(t)' <=> Drives(t)
                         /\ Parks(t)' <=> Parks(t)
    BY <1>0, ReturnEffect DEF Busy, Drives, Parks, Others
  <1>2. \A t \in Slots : PhaseOK(t)'
    <2>1. PhaseOK(s)'
      BY <1>0, ReturnEffect DEF PhaseOK, Drives, Parks
    <2>2. ASSUME NEW t \in Slots \ {s}
          PROVE  PhaseOK(t)'
      BY <1>0, ReturnEffect
      DEF Holds, BInv, LegsFit, PhaseOK, Drives, Parks, Others, Unwritten, UpToDate, Copy, Current
    <2> QED
      BY <2>1, <2>2
  <1>3. RunsExplained' /\ OneBusy'
    BY <1>0, <1>1, ReturnEffect
    DEF Holds, BInv, LegsFit, OneBusy, RunsExplained, Explained, SlotsOf, Unwritten
  <1>4. Unbegun'
    BY <1>0, ReturnEffect DEF Holds, BInv, LegsFit, Unbegun, Unwritten
  <1>5. ReadyAlone' /\ NoCrash'
    <2>1. \A k \in JobId : jobs'[k] = jobs[k] \/ jobs'[k].state = "kept"
      BY <1>0, ReturnEffect
    <2>2. \A k \in JobId : k.kind \in {"resume", "hook"} => jobs'[k] = jobs[k]
      <3>1. leg[s].job \in JobId => jobs[leg[s].job].state = "active"
        BY <1>0, JobFacts DEF IInv, JobsOK, Held
      <3> QED
        BY <1>0, <3>1, ReturnEffect DEF Holds, BInv, NoCrash
    <2> QED
      BY <1>0, <1>1, <2>1, <2>2, ReturnEffect
      DEF ReadyAlone, NoCrash, Holds, BInv, elsewhere, Unwritten
  <1> QED
    BY <1>2, <1>3, <1>4, <1>5 DEF BInv, LegsFit

----------------------------------------------------------------------------
(* Where nobody is busy                                                    *)

LEMMA CreateRunKeeps ==
    ASSUME Holds, IInv', NEW s \in Slots, CreateRun(s)
    PROVE  BInv'
  <1>0. IInv /\ PhaseOK(s)
    BY PhaseFacts
  <1>1. /\ \A t \in Slots : leg[t].pc = "idle"
        /\ \A j \in JobId : jobs[j].state = "absent"
    BY <1>0, CreateRunEffect DEF Holds, BInv, LegsFit, Unbegun, NoRun
  <1>2. PhaseOK(s)'
    BY <1>0, CreateRunEffect DEF PhaseOK, Drives, Parks, Written, UpToDate
  <1>3. LegsFit'
    BY <1>0, <1>1, <1>2, WrittenFit, CreateRunEffect DEF Holds, BInv, Busy
  <1>4. ReadyAlone' /\ NoCrash'
    BY <1>0, <1>1, CreateRunEffect DEF ReadyAlone, NoCrash, Holds, BInv, elsewhere
  <1> QED
    BY <1>3, <1>4 DEF BInv

\* The sweep finds the run parked, and no leg still about to park or resume it.
LEMMA SweepAlone ==
    ASSUME Holds, NEW s \in Slots, ResumeSweep(s)
    PROVE  \A t \in Slots : ~Busy(t)
  <1>0. IInv /\ PhaseOK(s)
    BY PhaseFacts
  <1>1. \A t \in Slots : leg[t].pc \notin {"record", "resume"}
    BY <1>0, ResumeSweepEffect DEF Settled, Holds, Calm
  <1>2. SUFFICES ASSUME NEW t \in Slots, Busy(t) PROVE FALSE
    OBVIOUS
  <1>3. row.status = "awaiting_approval" /\ row.waiting # 0
    BY <1>0, ResumeSweepEffect
  <1>4. PhaseOK(t) /\ leg[t].pc \notin {"record", "resume"} /\ leg[t] \in Leg
    BY <1>0, <1>1, PhaseFacts, LegFacts
  <1>5. \/ leg[t].pc \in {"enqueue_start", "load", "start", "throw", "mark", "enqueue"}
        \/ Drives(t) \/ Parks(t)
    BY <1>2, <1>4 DEF Busy, Drives, Parks, Leg
  <1> QED
    BY <1>3, <1>4, <1>5 DEF PhaseOK

LEMMA ResumeSweepKeeps ==
    ASSUME Holds, IInv', NEW s \in Slots, ResumeSweep(s)
    PROVE  BInv'
  <1>0. IInv /\ PhaseOK(s)
    BY PhaseFacts
  <1>2. \A t \in Slots : ~Busy(t)
    BY SweepAlone
  <1>3. PhaseOK(s)'
    BY <1>0, ResumeSweepEffect DEF PhaseOK, Drives, Parks, Unwritten, Copy, Current
  <1>4. LegsFit'
    BY <1>0, <1>2, <1>3, QuietFit, ResumeSweepEffect DEF Holds, BInv, Busy, Drives, Parks
  <1>5. ReadyAlone' /\ NoCrash'
    <2>1. \A j \in JobId : jobs[j].state # "ready"
      BY <1>0, ResumeSweepEffect DEF Holds, BInv, ReadyAlone
    <2> QED
      BY <1>0, <2>1, ResumeSweepEffect DEF ReadyAlone, NoCrash, Holds, BInv
  <1> QED
    BY <1>4, <1>5 DEF BInv

----------------------------------------------------------------------------
(* Steps that touch no leg, and steps that cannot happen                   *)

LEMMA AsideKeeps ==
    ASSUME Holds, UNCHANGED <<row, cache, jobs, leg, attempts, reaping>>
    PROVE  BInv'
  <1>1. \A t \in Slots : Busy(t)' = Busy(t) /\ Drives(t)' = Drives(t) /\ Parks(t)' = Parks(t)
    BY DEF Busy, Drives, Parks
  <1>2. \A t \in Slots : PhaseOK(t)'
    BY <1>1 DEF Holds, BInv, LegsFit, PhaseOK, UpToDate, Copy, Current
  <1>3. OneBusy' /\ RunsExplained' /\ Unbegun'
    BY <1>1 DEF Holds, BInv, LegsFit, OneBusy, RunsExplained, Explained, SlotsOf, Unbegun
  <1>4. ReadyAlone' /\ NoCrash'
    BY <1>1 DEF Holds, BInv, ReadyAlone, NoCrash
  <1> QED
    BY <1>2, <1>3, <1>4 DEF BInv, LegsFit

LEMMA ApproveFrames ==
    ASSUME Approve
    PROVE  UNCHANGED <<row, cache, jobs, leg, attempts, reaping, recorded, resumed>>
  BY DEF Approve, Decide, PersistDecision, TimerFires, DropTimer, history

\* The run is never stranded, no job stalls, no process crashes.
LEMMA NoReaping ==
    ASSUME Holds
    PROVE  /\ \A j \in JobId : ~DropStalled(j)
           /\ \A w \in Workers : ~Reaper(w)
           /\ \A p \in Processes : ~Crash(p)
  <1>1. \A j \in JobId : ~DropStalled(j)
    BY DEF DropStalled, Holds, BInv, NoCrash
  <1>2. \A p \in Processes : ~Crash(p)
    BY DEF Crash, Holds, Calm
  <1>3. ~Stranded
    <2>1. SUFFICES ASSUME Stranded PROVE FALSE
      OBVIOUS
    <2>2. PICK s \in Slots : Drives(s)
      BY <2>1 DEF Stranded, Holds, BInv, LegsFit, RunsExplained, Explained
    <2> QED
      BY <2>1, <2>2 DEF Stranded, At, Drives, Holds, Calm
  <1>4. \A w \in Workers : ~Reaper(w)
    BY <1>3 DEF Reaper, Reap, GiveUp, EnqueueReplay, Holds, BInv, NoCrash
  <1> QED
    BY <1>1, <1>2, <1>4

LEMMA NextBInv == Holds /\ IInv' /\ [Next]_vars => BInv'
  <1> SUFFICES ASSUME Holds, IInv', [Next]_vars PROVE BInv'
    OBVIOUS
  <1>1. ASSUME NEW s \in Slots, Create(s)
        PROVE  BInv'
    BY <1>1, CreateRunKeeps, EnqueueStartKeeps, EndingActions DEF Create
  <1>2. ASSUME NEW s \in Slots, Execute(s)
        PROVE  BInv'
    BY <1>2, DeliverKeeps, QuietActions, DrivingActions, JobFailsKeeps, MarkFailedKeeps,
       ReturnKeeps DEF Execute
  <1>3. ASSUME NEW s \in Slots, Step(s)
        PROVE  BInv'
    BY <1>3, QuietActions, DrivingActions, ParkingActions, EndingActions, EnqueueWaitKeeps
    DEF Step
  <1>4. ASSUME NEW s \in Slots, Resume(s)
        PROVE  BInv'
    BY <1>4, ResumeSweepKeeps, EndingActions, DrivingActions DEF Resume
  <1>5. CASE Approve
    BY <1>5, ApproveFrames, AsideKeeps
  <1>6. CASE UNCHANGED vars
    BY <1>6, AsideKeeps DEF vars
  <1> QED
    BY <1>1, <1>2, <1>3, <1>4, <1>5, <1>6, NoReaping DEF Next, Work

LEMMA InitBInv == Init => BInv
  <1> SUFFICES ASSUME Init PROVE BInv
    OBVIOUS
  <1>1. \A s \in Slots : leg[s] = Idle /\ leg[s].pc = "idle" /\ leg[s].job = NoJob
    BY IdleFacts DEF Init
  <1>2. LegsFit
    BY <1>1 DEF Init, LegsFit, OneBusy, Busy, PhaseOK, Drives, Parks, RunsExplained, Explained,
                NoRun, Unbegun
  <1>3. ReadyAlone /\ NoCrash
    BY DEF Init, ReadyAlone, NoCrash
  <1> QED
    BY <1>2, <1>3 DEF BInv

\* While no process crashes and no sweep is hurried, what the proofs below rest on holds
\* in every state: at most one leg is busy, it agrees with the stored row, and every other
\* delivery, decision and sweep finds the run in a state it has to let go of.
THEOREM CalmInvariance == Spec /\ Calm => []Holds
  <1>1. Init /\ IInv /\ Calm => Holds
    BY InitBInv DEF Holds
  <1>2. Holds /\ IInv' /\ [Next]_vars => Holds'
    BY NextBInv DEF Holds, Calm
  <1> QED
    BY <1>1, <1>2, Invariance, PTL DEF Spec

\* Whatever pauses a template has, and whoever decides, one leg at a time drives the run
\* while no process crashes and no sweep is hurried: every hand-over, from delivery to
\* pause and from sweep to resumption, lets go of the run before it is taken up again.
THEOREM SoleExecutorWithPauses == Spec /\ Calm => []SoleExecutor
  <1>1. Holds => SoleExecutor
    BY DEF Holds, BInv, LegsFit, OneBusy, Busy, SoleExecutor, Driving
  <1> QED
    BY <1>1, CalmInvariance, PTL

----------------------------------------------------------------------------
(* The first job finds the run as it was created                           *)

\* No worker knows the run as queued, and the row, while it is queued, has no results.
Pristine(w) ==
    /\ cache[w].status # "queued"
    /\ row.status = "queued" => row.results = <<>>

StartAhead ==
    jobs[StartJob].state \in {"absent", "ready"} => \A w \in Workers : Pristine(w)

Unstarted ==
    jobs[StartJob].state = "absent" =>
        /\ \A s \in Slots : leg[s].pc \in {"idle", "enqueue_start"}
        /\ \A j \in JobId : jobs[j].state = "absent"
        /\ row.status \in {"none", "queued", "failed"}

\* The leg that holds the first job is the first to know the run as queued, if it pauses.
StartUnderWay(s) ==
    leg[s].job = StartJob /\ Busy(s) =>
        /\ \A w \in Workers \ {ProcOf[s]} : cache[w].status # "queued"
        /\ leg[s].pc # "enqueue" => Pristine(ProcOf[s])

FInv == StartAhead /\ Unstarted /\ \A s \in Slots : StartUnderWay(s)

----------------------------------------------------------------------------
(* What becomes of jobs and copies                                         *)

\* What becomes of a job.
LEMMA JobMoves ==
    ASSUME Holds, NEW s \in Slots, Acts(s), NEW j \in JobId
    PROVE  \/ jobs'[j].state = jobs[j].state
           \/ /\ j = StartJob /\ EnqueueStart(s)
              /\ jobs[j].state = "absent" /\ jobs'[j].state = "ready"
           \/ /\ j = WaitJob(leg[s].at + 1) /\ EnqueueWait(s)
              /\ jobs[j].state = "absent" /\ jobs'[j].state = "ready"
           \/ Deliver(s, j) /\ jobs'[j].state = "active"
           \/ j = leg[s].job /\ JobFails(s) /\ jobs'[j].state \in {"ready", "dropped"}
           \/ j = leg[s].job /\ Return(s) /\ jobs'[j].state = "kept"
  <1>0. IInv /\ PhaseOK(s)
    BY PhaseFacts
  <1>1. ASSUME NEW k \in JobId, Add(k)
        PROVE  \/ jobs'[j] = jobs[j]
               \/ j = k /\ jobs[j].state = "absent" /\ jobs'[j].state = "ready"
    <2>1. jobs \in [JobId -> JobState]
      BY <1>0 DEF IInv, JobsOK
    <2>2. CASE jobs[k].state = "absent"
      BY <1>1, <2>1, <2>2 DEF Add, JobState
    <2> QED
      BY <1>1, <2>2 DEF Add
  <1>2. CASE EnqueueStart(s)
    BY <1>0, <1>1, <1>2, EnqueueStartEffect, JobFacts
  <1>3. CASE EnqueueWait(s)
    BY <1>0, <1>1, <1>3, EnqueueWaitEffect
  <1>4. CASE \E k \in JobId : Deliver(s, k)
    BY <1>0, <1>4, DeliverEffect
  <1>5. CASE JobFails(s)
    <2>1. leg[s].job \in JobId
      BY <1>0, <1>5, LegFacts DEF JobFails, At, PhaseOK, Leg
    <2> QED
      BY <1>0, <1>5, <2>1, JobFailsEffect
  <1>6. CASE Return(s)
    BY <1>0, <1>6, ReturnEffect
  <1>7. CASE UNCHANGED jobs
    BY <1>7
  <1> QED
    BY <1>2, <1>3, <1>4, <1>5, <1>6, <1>7
    DEF Acts, Create, Execute, Step, Resume, CreateRun, EnqueueStartFails, SkipRun, LoadRun,
        StartFails, MarkFailed, StartRun, ReachStep, BeginStep, DeadlinePasses, CompleteRun,
        Executed, ReuseStep, RunAction, RunPure, StepFails, ReachWait, ReachApproval,
        CreateApproval, StampApproval, RecordStep, FailRun, PauseRun, EnqueueWaitFails,
        ResumeSweep, ResumeFails, ResumeRun, RecordDecision

\* A leg that begins finds nobody at work.
LEMMA BeginsAlone ==
    ASSUME Holds, NEW s \in Slots, SetsOff(s)
    PROVE  \A t \in Slots : ~Busy(t)
  <1>0. IInv /\ PhaseOK(s)
    BY PhaseFacts
  <1>1. CASE CreateRun(s)
    BY <1>0, <1>1, CreateRunEffect DEF Holds, BInv, LegsFit, Unbegun, NoRun, Busy
  <1>2. CASE \E j \in JobId : Deliver(s, j)
    BY <1>0, <1>2, DeliverEffect DEF Holds, BInv, ReadyAlone, NoCrash
  <1>3. CASE ResumeSweep(s)
    BY <1>3, SweepAlone
  <1> QED
    BY <1>1, <1>2, <1>3 DEF SetsOff

\* All but the handler of used-up jobs write the copy and the row, or neither.
LEMMA Writers ==
    ASSUME IInv, NEW s \in Slots, Acts(s), ~MarkFailed(s)
    PROVE  Unwritten \/ Written(s)
  <1>1. ASSUME NEW run, Update(s, run)
        PROVE  Written(s)
    BY <1>1, Writes
  <1> QED
    BY <1>1 DEF Unwritten, Acts, Create, Execute, Step, Resume, CreateRun, EnqueueStart,
         EnqueueStartFails,
         Deliver, SkipRun, LoadRun, StartFails, JobFails, Return, StartRun,
         ReachStep, BeginStep, DeadlinePasses, CompleteRun, Executed, ReuseStep, RunAction,
         RunPure, StepFails, ReachWait, ReachApproval, CreateApproval, StampApproval, RecordStep,
         FailRun, PauseRun, EnqueueWait, EnqueueWaitFails, ResumeSweep, ResumeFails,
         ResumeRun, RecordDecision

\* A copy that a step writes says queued only when the run is created or paused.
LEMMA Queues ==
    ASSUME Holds, NEW s \in Slots, Acts(s)
    PROVE  \/ CreateRun(s) \/ PauseRun(s) \/ EnqueueWait(s)
           \/ Unwritten /\ leg[s].pc # "enqueue"
           \/ row'.status # "queued" /\ cache'[ProcOf[s]].status # "queued"
  <1>0. IInv /\ PhaseOK(s) /\ (UpToDate(s) => Copy(s) = row)
    BY PhaseFacts
  <1>1. CASE leg[s].pc = "idle"
    BY <1>0, <1>1, Departures, DeliverEffect, ResumeSweepEffect DEF Departs, SetsOff
  <1>2. CASE leg[s].pc \in {"enqueue_start", "load", "start", "throw"}
    <2>1. JobFails(s) => Unwritten
      BY DEF JobFails, Unwritten
    <2> QED
      BY <1>0, <1>2, <2>1, Departures, EnqueueStartEffect, EnqueueStartFailsEffect,
         SkipRunEffect, LoadRunEffect, StartRunEffect, StartFailsEffect
      DEF Departs, Written
  <1>3. CASE leg[s].pc \in {"mark", "fail", "pause", "enqueue", "return"}
    BY <1>0, <1>3, Departures, MarkFailedEffect, FailRunEffect, EnqueueWaitFailsEffect,
       ReturnEffect DEF Departs, Written, NoRun
  <1>4. CASE leg[s].pc \in {"step", "begin"}
    BY <1>0, <1>4, Departures, ReachStepEffect, DeadlinePassesEffect, CompleteRunEffect,
       BeginStepEffect DEF Departs, Written, PhaseOK, Drives
  <1>5. CASE leg[s].pc \in {"exec", "park"}
    <2>1. ReachApproval(s) \/ Unwritten
      BY <1>0, <1>5, Departures, CreateApprovalEffect
      DEF Departs, ReuseStep, RunAction, RunPure, StepFails, ReachWait, Executed, Unwritten
    <2> QED
      BY <1>0, <1>5, <2>1, ReachApprovalEffect DEF Written
  <1>6. CASE leg[s].pc \in {"stamp", "record"}
    BY <1>0, <1>6, Departures, StampApprovalEffect, RecordStepEffect
    DEF Departs, Written, PhaseOK, Drives, Parks
  <1>7. CASE leg[s].pc \in {"resume", "resumed"}
    BY <1>0, <1>7, Departures, ResumeFailsEffect, ResumeRunEffect, RecordDecisionEffect
    DEF Departs, Written, PhaseOK, Drives
  <1> QED
    BY <1>0, <1>1, <1>2, <1>3, <1>4, <1>5, <1>6, <1>7, NoHook, LegFacts DEF Leg

----------------------------------------------------------------------------
(* The first job, step by step                                             *)

LEMMA FirstJobStep ==
    ASSUME Holds, FInv, IInv', NEW s \in Slots, Acts(s)
    PROVE  FInv'
  <1>0. IInv /\ PhaseOK(s) /\ StartJob \in JobId /\ StartJob # NoJob
    BY PhaseFacts, JobFacts
  <1>1. CASE jobs'[StartJob].state = "active"
    <2>1. SUFFICES ASSUME NEW t \in Slots, Busy(t)', leg'[t].job = StartJob
                   PROVE  StartUnderWay(t)'
      BY <1>1 DEF FInv, StartAhead, Unstarted, StartUnderWay
    <2>2. CASE t # s
      <3>1. leg'[t] = leg[t] /\ Busy(t)
        BY <1>0, <2>1, <2>2, SlotFrame DEF Others, Busy
      <3>2. Return(s)
        BY <1>0, <2>2, <3>1, SlotFrame, BusyAlone, BeginsAlone
      <3> QED
        BY <1>0, <2>1, <3>1, <3>2, ReturnEffect DEF FInv, StartUnderWay, Pristine, Unwritten
    <2>3. CASE t = s /\ \E j \in JobId : Deliver(s, j)
      <3>1. jobs[StartJob].state = "ready" /\ Unwritten
        BY <1>0, <2>1, <2>3, DeliverEffect DEF Holds, BInv, NoCrash
      <3>2. ProcOf[s] \in Workers
        BY <1>0, <2>3, DeliverEffect
      <3> QED
        BY <2>3, <3>1, <3>2 DEF FInv, StartAhead, StartUnderWay, Pristine, Unwritten
    <2>4. CASE t = s /\ ~\E j \in JobId : Deliver(s, j)
      <3>1. leg[s].job = StartJob
        BY <1>0, <2>1, <2>4, SlotFrame
      <3>2. Busy(s)
        <4>1. ~Return(s)
          BY <1>0, <2>1, <2>4, ReturnEffect, IdleFacts DEF Busy
        <4>2. ~CreateRun(s) /\ ~ResumeSweep(s)
          BY <1>0, <2>1, <2>4, CreateRunEffect, ResumeSweepEffect
        <4> QED
          BY <1>0, <2>4, <4>1, <4>2, SlotFrame DEF SetsOff
      <3>3. StartUnderWay(s) /\ \A w \in Workers \ {ProcOf[s]} : cache'[w] = cache[w]
        BY <1>0, SlotFrame DEF FInv, Processes
      <3>4. CASE PauseRun(s)
        BY <1>0, <2>4, <3>1, <3>2, <3>3, <3>4, PauseRunEffect DEF StartUnderWay
      <3>5. CASE Unwritten /\ leg[s].pc # "enqueue"
        BY <2>4, <3>1, <3>2, <3>3, <3>5 DEF StartUnderWay, Pristine, Unwritten
      <3>6. CASE row'.status # "queued" /\ cache'[ProcOf[s]].status # "queued"
        BY <2>4, <3>1, <3>2, <3>3, <3>6 DEF StartUnderWay, Pristine
      <3>7. ~CreateRun(s) /\ ~EnqueueWait(s)
        BY <1>0, <2>1, <2>4, CreateRunEffect, EnqueueWaitEffect DEF Busy
      <3> QED
        BY <3>4, <3>5, <3>6, <3>7, Queues
    <2> QED
      BY <2>2, <2>3, <2>4
  <1>2. CASE jobs'[StartJob].state # "active"
    <2>0. \A t \in Slots : StartUnderWay(t)'
      BY <1>0, <1>2 DEF StartUnderWay, IInv, JobsOK, Held
    <2>1. CASE jobs[StartJob].state = "absent"
      <3>0. leg[s].pc \in {"idle", "enqueue_start"} /\ \A j \in JobId : jobs[j].state = "absent"
        BY <2>1 DEF FInv, Unstarted
      <3>1. CASE CreateRun(s)
        <4>1. \A w \in Workers : cache'[w] = NoRun
          BY <1>0, <3>1, CreateRunEffect, RunAssumption
          DEF Holds, BInv, LegsFit, Unbegun, NoRun, Written, Processes
        <4>2. StartAhead'
          BY <1>0, <3>1, <4>1, CreateRunEffect DEF StartAhead, Pristine, NoRun
        <4>3. Unstarted'
          BY <1>0, <2>1, <3>1, CreateRunEffect DEF Unstarted, FInv, Others
        <4> QED
          BY <2>0, <4>2, <4>3 DEF FInv
      <3>2. CASE EnqueueStart(s)
        <4>1. jobs'[StartJob].state = "ready" /\ Unwritten
          BY <1>0, <2>1, <3>2, EnqueueStartEffect DEF Add, IInv, JobsOK, JobState
        <4> QED
          BY <2>0, <2>1, <4>1 DEF FInv, StartAhead, Unstarted, Pristine, Unwritten
      <3>3. CASE EnqueueStartFails(s)
        <4>1. \A w \in Workers : cache'[w] = cache[w]
          BY <1>0, <3>3, EnqueueStartFailsEffect, RunAssumption DEF PhaseOK, Written, Processes
        <4>2. StartAhead'
          BY <1>0, <2>1, <3>3, <4>1, EnqueueStartFailsEffect DEF FInv, StartAhead, Pristine
        <4>3. Unstarted'
          BY <1>0, <2>1, <3>3, EnqueueStartFailsEffect, IdleFacts DEF Unstarted, FInv, Others
        <4> QED
          BY <2>0, <4>2, <4>3 DEF FInv
      <3>4. ~ResumeSweep(s) /\ \A j \in JobId : ~Deliver(s, j)
        BY <1>0, <2>1, <3>0, ResumeSweepEffect, DeliverEffect DEF FInv, Unstarted
      <3> QED
        BY <3>0, <3>1, <3>2, <3>3, <3>4, Departures DEF Departs, SetsOff
    <2>2. CASE jobs[StartJob].state # "absent"
      <3>1. Unstarted'
        BY <1>0, <2>2, JobMoves DEF Unstarted
      <3>2. StartAhead'
        <4>1. SUFFICES ASSUME jobs'[StartJob].state = "ready" PROVE \A w \in Workers : Pristine(w)'
          BY <1>0, <2>2, JobMoves DEF StartAhead
        <4>2. CASE jobs[StartJob].state = "ready"
          <5>1. ~Busy(s) /\ row.status \in {"queued", "failed"}
            BY <1>0, <4>2 DEF Holds, BInv, ReadyAlone
          <5>2. ~CreateRun(s) /\ ~ResumeSweep(s)
            BY <1>0, <5>1, CreateRunEffect, ResumeSweepEffect DEF NoRun
          <5>3. Unwritten
            BY <1>0, <5>1, <5>2, SlotFrame, DeliverEffect, ReturnEffect DEF SetsOff
          <5> QED
            BY <4>2, <5>3 DEF FInv, StartAhead, Pristine, Unwritten
        <4>3. CASE jobs[StartJob].state # "ready"
          <5>1. leg[s].job = StartJob /\ JobFails(s)
            BY <1>0, <2>2, <4>1, <4>3, JobMoves
          <5>2. leg[s].pc = "throw" /\ Unwritten /\ ProcOf[s] \in Workers
            BY <1>0, <5>1 DEF JobFails, At, Unwritten, PhaseOK
          <5>3. \A w \in Workers : Pristine(w)
            BY <5>1, <5>2 DEF FInv, StartUnderWay, Pristine, Busy
          <5> QED
            BY <5>2, <5>3 DEF Pristine, Unwritten
        <4> QED
          BY <4>2, <4>3
      <3> QED
        BY <2>0, <3>1, <3>2 DEF FInv
    <2> QED
      BY <2>1, <2>2
  <1> QED
    BY <1>1, <1>2

\* A step is one of a slot, or touches neither leg, run nor queue.
LEMMA StepsAreActs ==
    ASSUME Holds, [Next]_vars
    PROVE  \/ \E s \in Slots : Acts(s)
           \/ Approve
           \/ UNCHANGED vars
  BY NoReaping DEF Next, Work, Acts

LEMMA NextFInv == Holds /\ FInv /\ IInv' /\ [Next]_vars => FInv'
  <1> SUFFICES ASSUME Holds, FInv, IInv', [Next]_vars PROVE FInv'
    OBVIOUS
  <1>1. CASE UNCHANGED <<row, cache, jobs, leg>>
    BY <1>1 DEF FInv, StartAhead, Unstarted, StartUnderWay, Pristine, Busy
  <1> QED
    BY <1>1, StepsAreActs, FirstJobStep, ApproveFrames DEF vars

LEMMA InitFInv == Init => FInv
  <1> SUFFICES ASSUME Init PROVE FInv
    OBVIOUS
  <1>1. \A s \in Slots : leg[s] = Idle /\ leg[s].pc = "idle" /\ leg[s].job = NoJob
    BY IdleFacts DEF Init
  <1> QED
    BY <1>1, JobFacts, RunAssumption
    DEF Init, FInv, StartAhead, Unstarted, StartUnderWay, Pristine, NoRun, Busy, Processes

----------------------------------------------------------------------------
(* Approvals gate what is behind them                                      *)

\* The approval steps before step at have been approved.
Open(at) == \A i \in 1..(at - 1) : Template[i] = "approval" => i \in granted

\* A leg is where only approvals let it be; what it has to reuse, if anything, would skip
\* them.
LegGated(s) ==
    Busy(s) =>
        /\ leg[s].prior = {}
        /\ Open(leg[s].at)
        /\ leg[s].pc = "record" /\ leg[s].outcome = "next" => Template[leg[s].at] # "approval"
        /\ leg[s].pc = "record" /\ leg[s].outcome = "wait" => Template[leg[s].at] = "wait"
        /\ leg[s].pc \in {"pause", "enqueue"} => Template[leg[s].at] = "wait"
        /\ leg[s].pc = "stamp" => approvals[leg[s].approval].step = leg[s].at
        /\ leg[s].pc = "resumed" => Template[leg[s].at] = "approval"
        /\ leg[s].pc \in {"resume", "resumed"} /\ leg[s].verdict = "approved" =>
               leg[s].at \in granted

\* A parked run, or a copy of one, is at the step of the approval it waits for.
RunGated(run) ==
    run.status = "awaiting_approval" /\ run.waiting # 0 =>
        Open(run.at) /\ approvals[run.waiting].step = run.at

RunsGated == RunGated(row) /\ \A p \in Processes : RunGated(cache[p])

JobsGated ==
    \A j \in JobId : j.kind = "wait" /\ jobs[j].state # "absent" => Open(j.n)

GrantsKept ==
    \A n \in DOMAIN approvals :
        approvals[n].verdict = "approved" => approvals[n].step \in granted

GInv == (\A s \in Slots : LegGated(s)) /\ RunsGated /\ JobsGated /\ GrantsKept

LEMMA OpenFacts ==
    /\ Open(1)
    /\ \A at \in Nat : Open(at) /\ Template[at] # "approval" => Open(at + 1)
    /\ \A at \in Nat : Open(at) /\ at \in granted => Open(at + 1)
    /\ \A at, before \in Nat : Open(at) /\ before < at => Open(before)
  BY DEF Open

\* A slot grants nothing, and changes no approval that has been requested.
LEMMA SlotApprovals ==
    ASSUME Holds, NEW s \in Slots, Acts(s)
    PROVE  /\ granted' = granted
           /\ approvals' = approvals \/ CreateApproval(s)
           /\ \A n \in 1..Len(approvals) : approvals'[n] = approvals[n]
           /\ \A n \in DOMAIN approvals' :
                  n \in DOMAIN approvals \/ approvals'[n].verdict = "pending"
  <1>0. IInv /\ approvals \in Seq(Approval)
    BY DEF Holds, IInv, ApprovalsOK
  <1>1. CASE CreateApproval(s)
    <2> DEFINE e == [step |-> leg[s].at, verdict |-> "pending"]
    <2>1. approvals' = Append(approvals, e) /\ granted' = granted
      BY <1>0, <1>1, CreateApprovalEffect DEF history
    <2>2. e.verdict = "pending"
      OBVIOUS
    <2> HIDE DEF e
    <2> QED
      BY <1>0, <1>1, <2>1, <2>2, LenOfApprovals
  <1>2. CASE ~CreateApproval(s)
    <2>1. UNCHANGED <<approvals, granted>>
      BY <1>2
      DEF Acts, Create, Execute, Step, Resume, CreateRun, EnqueueStart, EnqueueStartFails,
          Deliver, SkipRun, LoadRun, StartFails, JobFails, MarkFailed, Return, StartRun,
          ReachStep, BeginStep, DeadlinePasses, CompleteRun, Executed,
          ReuseStep, RunAction, RunPure, StepFails, ReachWait, ReachApproval,
          StampApproval, RecordStep, FailRun, PauseRun, EnqueueWait,
          EnqueueWaitFails, ResumeSweep, ResumeFails, ResumeRun, RecordDecision,
          elsewhere, approvalVars, history
    <2> QED
      BY <2>1, <1>0, LenOfApprovals DEF IInv
  <1> QED
    BY <1>1, <1>2

\* The run is loaded from the top with nothing to reuse, or past a wait.
LEMMA LoadGated ==
    ASSUME Holds, FInv, GInv, NEW s \in Slots, LoadRun(s)
    PROVE  leg'[s].prior = {} /\ Open(leg'[s].at)
  <1>0. IInv /\ PhaseOK(s) /\ Busy(s)
    BY PhaseFacts, LoadRunEffect DEF Busy
  <1>1. leg[s].job \in JobId /\ jobs[leg[s].job].state = "active"
    BY <1>0, LegFacts, LoadRunEffect DEF PhaseOK, Leg, IInv, JobsOK, Held
  <1>2. CASE leg[s].job.kind = "wait"
    BY <1>0, <1>1, <1>2, LoadRunEffect DEF GInv, JobsGated, JobId
  <1>3. CASE leg[s].job.kind # "wait"
    <2>1. leg[s].job = StartJob
      BY <1>1, <1>3 DEF Holds, BInv, NoCrash, JobId, StartJob
    <2>2. Copy(s).results = <<>>
      <3>1. Pristine(ProcOf[s])
        BY <1>0, <2>1, LoadRunEffect DEF FInv, StartUnderWay
      <3> QED
        BY <1>0, <3>1, LoadRunEffect DEF Copy, Current, Pristine
    <2>3. Reusable(<<>>) = {}
      BY DEF Reusable
    <2> QED
      BY <1>0, <2>1, <2>2, <2>3, LoadRunEffect, OpenFacts DEF StartJob
  <1> QED
    BY <1>2, <1>3

\* The sweep resumes the run at the step of the approval its copy names.
LEMMA SweepGated ==
    ASSUME Holds, GInv, NEW s \in Slots, ResumeSweep(s)
    PROVE  /\ Open(leg'[s].at)
           /\ leg'[s].verdict = "approved" => leg'[s].at \in granted
           /\ leg'[s].approval = Copy(s).waiting /\ Copy(s).waiting # 0
  <1>0. IInv /\ PhaseOK(s) /\ Copy(s) \in Run /\ Copy(s).waiting <= Len(approvals)
    BY PhaseFacts, CopyFacts
  <1>1. Copy(s).status = "awaiting_approval"
    BY <1>0, ResumeSweepEffect
  <1>2. \A t \in Slots : ~Parks(t)
    BY SweepAlone DEF Busy, Parks
  <1>3. Copy(s).waiting # 0 /\ RunGated(Copy(s))
    BY <1>1, <1>2, ProcOfIsProcess
    DEF Copy, Current, Holds, BInv, LegsFit, RunsExplained, Explained, SlotsOf, GInv, RunsGated
  <1>4. Copy(s).waiting \in DOMAIN approvals
    BY <1>0, <1>3, LenOfApprovals DEF Run, IInv
  <1> QED
    BY <1>0, <1>1, <1>3, <1>4, ResumeSweepEffect DEF RunGated, ApprovalOf, GInv, GrantsKept

LEMMA DecisionGated ==
    ASSUME Holds, GInv, NEW s \in Slots, RecordDecision(s)
    PROVE  Open(leg'[s].at) /\ leg'[s].prior = {}
  <1>0. IInv /\ PhaseOK(s) /\ Busy(s) /\ LegGated(s)
    BY PhaseFacts, RecordDecisionEffect DEF Busy, GInv
  <1>1. leg[s].at \in Steps /\ leg[s].at \in Nat /\ ReviseFrom[leg[s].at] \in Nat
    BY <1>0, LegFacts, TemplateFacts, RecordDecisionEffect DEF Placed, OnStep
  <1>2. NextAfter(leg[s].at, leg[s].verdict) # 0 => Open(NextAfter(leg[s].at, leg[s].verdict))
    <2>1. Open(leg[s].at) /\ (leg[s].verdict = "approved" => leg[s].at \in granted)
      BY <1>0, RecordDecisionEffect DEF LegGated
    <2> QED
      BY <1>1, <2>1, OpenFacts DEF NextAfter
  <1> QED
    BY <1>0, <1>2, RecordDecisionEffect DEF LegGated

LEMMA LegStepGated ==
    ASSUME Holds, FInv, GInv, IInv', NEW s \in Slots, Acts(s)
    PROVE  LegGated(s)'
  <1> DEFINE Kept == leg'[s].prior = leg[s].prior /\ leg'[s].at = leg[s].at
  <1>0. /\ IInv /\ PhaseOK(s) /\ LegGated(s) /\ Arrives(s)
        /\ granted' = granted /\ leg[s].at \in Nat
    BY PhaseFacts, SlotApprovals, Arrivals, LegFacts DEF GInv
  <1>1. Open(leg'[s].at) => Open(leg[s].at)'
    BY <1>0 DEF Open
  <1>2. CASE leg'[s].pc \in {"enqueue_start", "load", "mark"}
    <2>1. leg'[s].prior = {} /\ leg'[s].at = 1
      <3>1. JobFails(s) /\ leg'[s].pc = "mark" => leg'[s].prior = {} /\ leg'[s].at = 1
        <4>1. JobFails(s) => leg'[s] = Idle \/ leg'[s] = [Idle EXCEPT !.pc = "mark"]
          BY <1>0, Goes DEF JobFails
        <4> QED
          BY <4>1 DEF Idle
      <3> QED
        BY <1>0, <1>2, <3>1, CreateRunEffect, DeliverEffect DEF Arrives
    <2> QED
      BY <1>1, <1>2, <2>1, OpenFacts DEF LegGated
  <1>3. CASE leg'[s].pc = "start"
    BY <1>0, <1>1, <1>3, LoadGated DEF LegGated, Arrives
  <1>4. CASE leg'[s].pc \in {"throw", "begin", "exec", "park"}
    <2>1. Kept /\ Busy(s)
      BY <1>0, <1>4, StartFailsEffect, EnqueueWaitFailsEffect, ReachStepEffect, BeginStepEffect,
         ReachApprovalEffect DEF Arrives, SameLeg, Busy
    <2> QED
      BY <1>0, <1>1, <1>4, <2>1 DEF LegGated
  <1>5. CASE leg'[s].pc = "stamp"
    <2>1. CreateApproval(s)
      BY <1>0, <1>5 DEF Arrives
    <2>2. Kept /\ Busy(s) /\ leg'[s].approval = Len(approvals) + 1
      BY <1>0, <2>1, CreateApprovalEffect DEF Busy
    <2>3. approvals'[Len(approvals) + 1].step = leg[s].at
      <3> DEFINE e == [step |-> leg[s].at, verdict |-> "pending"]
      <3>1. approvals \in Seq(Approval) /\ approvals' = Append(approvals, e)
        BY <1>0, <2>1, CreateApprovalEffect DEF IInv, ApprovalsOK
      <3>2. e.step = leg[s].at
        OBVIOUS
      <3> HIDE DEF e
      <3> QED
        BY <3>1, <3>2
    <2> QED
      BY <1>0, <1>1, <1>5, <2>2, <2>3 DEF LegGated
  <1>6. CASE leg'[s].pc = "record"
    <2>1. CASE StampApproval(s)
      BY <1>0, <1>1, <1>6, <2>1, StampApprovalEffect DEF LegGated, Busy
    <2>2. ASSUME NEW outcome, At(s, "exec"), Executed(s, outcome),
                 outcome = "next" => Template[leg[s].at] # "approval",
                 outcome = "wait" => Template[leg[s].at] = "wait"
          PROVE  LegGated(s)'
      <3>1. Kept /\ Busy(s) /\ leg'[s].outcome = outcome
        BY <1>0, <2>2, ExecutedEffect DEF Busy
      <3> QED
        BY <1>0, <1>1, <1>6, <2>2, <3>1 DEF LegGated
    <2>3. ~ReuseStep(s)
      BY <1>0 DEF ReuseStep, Reuses, At, LegGated, Busy
    <2> QED
      BY <1>0, <1>6, <2>1, <2>2, <2>3
      DEF Arrives, RunAction, RunPure, StepFails, ReachWait, Kind
  <1>7. CASE leg'[s].pc \in {"step", "fail", "pause", "hook"}
    <2>1. CASE StartRun(s)
      BY <1>0, <1>1, <1>7, <2>1, StartRunEffect DEF LegGated, SameLeg, Busy
    <2>2. CASE RecordDecision(s)
      <3>1. leg'[s].pc \in {"step", "fail"}
        BY <1>0, <2>2, RecordDecisionEffect
      <3> QED
        BY <1>1, <2>2, <3>1, DecisionGated DEF LegGated
    <2>3. CASE RecordStep(s)
      <3>1. leg[s].outcome \in {"next", "fail", "wait", "hook", "park"} /\ Busy(s)
        BY <1>0, <2>3, LegFacts, RecordStepEffect DEF Busy
      <3>2. leg'[s].prior = {} /\ Open(leg'[s].at)
        BY <1>0, <2>3, <3>1, RecordStepEffect, OpenFacts DEF LegGated
      <3>3. leg'[s].pc = "pause" => Template[leg'[s].at] = "wait"
        BY <1>0, <2>3, <3>1, RecordStepEffect DEF LegGated, After
      <3> QED
        BY <1>1, <1>7, <3>2, <3>3 DEF LegGated
    <2> QED
      BY <1>0, <1>7, <2>1, <2>2, <2>3 DEF Arrives
  <1>8. CASE leg'[s].pc = "enqueue"
    BY <1>0, <1>1, <1>8, PauseRunEffect DEF LegGated, SameLeg, Busy, Arrives
  <1>9. CASE leg'[s].pc = "resume"
    BY <1>0, <1>1, <1>9, SweepGated, ResumeSweepEffect DEF LegGated, Arrives
  <1>10. CASE leg'[s].pc = "resumed"
    BY <1>0, <1>1, <1>10, ResumeRunEffect DEF LegGated, SameLeg, Busy, Arrives
  <1>11. CASE leg'[s].pc \in {"idle", "return"}
    BY <1>11 DEF LegGated, Busy
  <1>12. leg'[s] \in Leg
    BY DEF IInv, LegsOK
  <1> QED
    BY <1>2, <1>3, <1>4, <1>5, <1>6, <1>7, <1>8, <1>9, <1>10, <1>11, <1>12 DEF Leg

\* A row that says the run is parked was written by the leg that parks it.
LEMMA Parking ==
    ASSUME Holds, NEW s \in Slots, Acts(s),
           row'.status = "awaiting_approval", row'.waiting # 0
    PROVE  \/ Unwritten
           \/ StampApproval(s) /\ Written(s)
           \/ /\ RecordStep(s) /\ Written(s)
              /\ row.status = "awaiting_approval" /\ row'.at = row.at /\ row'.waiting = row.waiting
  <1>0. IInv /\ PhaseOK(s) /\ (UpToDate(s) => Copy(s) = row)
    BY PhaseFacts
  <1>1. CASE leg[s].pc = "idle"
    BY <1>0, <1>1, Departures, DeliverEffect, ResumeSweepEffect, CreateRunEffect
    DEF Departs, SetsOff
  <1>2. CASE leg[s].pc \in {"enqueue_start", "load", "start", "throw"}
    <2>1. JobFails(s) => Unwritten
      BY DEF JobFails, Unwritten
    <2> QED
      BY <1>0, <1>2, <2>1, Departures, EnqueueStartEffect, EnqueueStartFailsEffect,
         SkipRunEffect, LoadRunEffect, StartRunEffect, StartFailsEffect DEF Departs
  <1>3. CASE leg[s].pc \in {"mark", "fail", "pause", "enqueue", "return"}
    BY <1>0, <1>3, Departures, MarkFailedEffect, FailRunEffect, PauseRunEffect,
       EnqueueWaitEffect, EnqueueWaitFailsEffect, ReturnEffect DEF Departs
  <1>4. CASE leg[s].pc \in {"step", "begin"}
    BY <1>0, <1>4, Departures, ReachStepEffect, DeadlinePassesEffect, CompleteRunEffect,
       BeginStepEffect DEF Departs, PhaseOK, Drives
  <1>5. CASE leg[s].pc \in {"exec", "park"}
    <2>1. ReachApproval(s) \/ Unwritten
      BY <1>0, <1>5, Departures, CreateApprovalEffect
      DEF Departs, ReuseStep, RunAction, RunPure, StepFails, ReachWait, Executed, Unwritten
    <2> QED
      BY <1>0, <1>5, <2>1, ReachApprovalEffect DEF PhaseOK, Drives
  <1>6. CASE leg[s].pc = "stamp"
    BY <1>0, <1>6, Departures, StampApprovalEffect DEF Departs
  <1>7. CASE leg[s].pc = "record"
    BY <1>0, <1>7, Departures, RecordStepEffect DEF Departs, PhaseOK, Drives
  <1>8. CASE leg[s].pc \in {"resume", "resumed"}
    BY <1>0, <1>8, Departures, ResumeFailsEffect, ResumeRunEffect, RecordDecisionEffect
    DEF Departs, PhaseOK, Drives
  <1> QED
    BY <1>0, <1>1, <1>2, <1>3, <1>4, <1>5, <1>6, <1>7, <1>8, NoHook, LegFacts DEF Leg

LEMMA SlotGated ==
    ASSUME Holds, FInv, GInv, IInv', NEW s \in Slots, Acts(s)
    PROVE  GInv'
  <1>0. /\ IInv /\ PhaseOK(s) /\ LegGated(s) /\ granted' = granted
        /\ Others(s) /\ \A at \in Nat : Open(at)' = Open(at)
        /\ \A n \in 1..Len(approvals) : approvals'[n] = approvals[n]
    BY PhaseFacts, SlotApprovals, SlotFrame DEF GInv, Open
  <1>1. ASSUME NEW t \in Slots
        PROVE  LegGated(t)'
    <2>1. CASE t = s
      BY <2>1, LegStepGated
    <2>2. CASE t # s /\ Busy(t)
      <3>1. Return(s) /\ leg'[t] = leg[t] /\ approvals' = approvals
        <4>1. Return(s) /\ ~CreateApproval(s)
          BY <1>0, <2>2, SlotFrame, BusyAlone, BeginsAlone DEF Return, CreateApproval, At
        <4> QED
          BY <1>0, <2>2, <4>1, SlotApprovals DEF Others
      <3> QED
        BY <1>0, <3>1 DEF GInv, LegGated, Open, Busy
    <2>3. CASE t # s /\ ~Busy(t)
      BY <1>0, <2>3 DEF LegGated, Busy, Others
    <2> QED
      BY <2>1, <2>2, <2>3
  <1>2. ASSUME NEW run \in Run, RunGated(run), run.waiting <= Len(approvals)
        PROVE  RunGated(run)'
    <2>1. run.waiting # 0 => run.waiting \in 1..Len(approvals)
      BY <1>0, <1>2, LenOfApprovals DEF Run, IInv
    <2>2. run.at \in Nat
      BY TemplateFacts DEF Run
    <2> QED
      BY <1>0, <1>2, <2>1, <2>2 DEF RunGated
  <1>3. RunGated(row)' /\ RunGated(cache[ProcOf[s]])'
    <2>1. CASE Unwritten
      BY <1>0, <1>2, <2>1, ProcOfIsProcess DEF Unwritten, GInv, RunsGated, IInv, RunsOK, RunGated
    <2>2. CASE ~Unwritten
      <3>1. RunGated(row)'
        <4>1. SUFFICES ASSUME row'.status = "awaiting_approval", row'.waiting # 0
                       PROVE  RunGated(row)'
          BY DEF RunGated
        <4>2. CASE StampApproval(s)
          <5>1. row'.at = leg[s].at /\ row'.waiting = leg[s].approval
            BY <1>0, <4>2, StampApprovalEffect
          <5>2. leg[s].approval \in 1..Len(approvals)
            BY <1>0, <4>1, <5>1, LegFacts, LenOfApprovals DEF Placed, IInv
          <5>3. approvals[leg[s].approval].step = leg[s].at /\ Open(leg[s].at)
            BY <1>0, <4>2, StampApprovalEffect DEF LegGated, Busy
          <5> QED
            BY <1>0, <5>1, <5>2, <5>3, LegFacts DEF RunGated
        <4>3. CASE /\ row.status = "awaiting_approval" /\ row'.at = row.at
                   /\ row'.waiting = row.waiting
          <5>1. RunGated(row)
            BY DEF GInv, RunsGated
          <5>2. RunGated(row) => RunGated(row)'
            <6>1. row.waiting \in 1..Len(approvals) /\ row.at \in Nat
              BY <1>0, <4>1, <4>3, LenOfApprovals, TemplateFacts DEF IInv, RunsOK, Run
            <6> QED
              BY <1>0, <4>3, <6>1 DEF RunGated
          <5> QED
            BY <5>1, <5>2
        <4> QED
          BY <2>2, <4>1, <4>2, <4>3, Parking
      <3>2. cache'[ProcOf[s]] = row' \/ cache'[ProcOf[s]].status # "awaiting_approval"
        <4>1. CASE MarkFailed(s)
          BY <1>0, <4>1, MarkFailedEffect DEF NoRun
        <4>2. CASE ~MarkFailed(s)
          BY <1>0, <2>2, <4>2, Writers DEF Written
        <4> QED
          BY <4>1, <4>2
      <3> QED
        BY <3>1, <3>2 DEF RunGated
    <2> QED
      BY <2>1, <2>2
  <1>4. RunsGated'
    <2>1. ASSUME NEW p \in Processes, p # ProcOf[s]
          PROVE  RunGated(cache[p])'
      <3>1. cache'[p] = cache[p] /\ RunGated(cache[p])
        BY <1>0, <2>1, SlotFrame DEF GInv, RunsGated
      <3>2. cache[p] \in Run /\ cache[p].waiting <= Len(approvals)
        BY <1>0 DEF IInv, RunsOK
      <3> QED
        BY <1>2, <3>1, <3>2 DEF RunGated
    <2> QED
      BY <1>3, <2>1 DEF RunsGated
  <1>5. JobsGated'
    <2>1. SUFFICES ASSUME NEW j \in JobId, j.kind = "wait", jobs'[j].state # "absent"
                   PROVE  Open(j.n)'
      BY DEF JobsGated
    <2>2. j.n \in Nat
      BY TemplateFacts DEF JobId
    <2>3. CASE jobs[j].state # "absent"
      BY <1>0, <2>1, <2>2, <2>3 DEF GInv, JobsGated
    <2>4. CASE jobs[j].state = "absent"
      <3>1. leg[s].job # j
        BY <1>0, <2>4, JobFacts DEF IInv, JobsOK, Held
      <3>2. EnqueueWait(s) /\ j = WaitJob(leg[s].at + 1)
        BY <1>0, <2>1, <2>4, <3>1, JobMoves, DeliverEffect DEF StartJob
      <3>3. Open(leg[s].at + 1)
        BY <1>0, <3>2, EnqueueWaitEffect, OpenFacts, LegFacts DEF LegGated, Busy
      <3> QED
        BY <1>0, <2>2, <3>2, <3>3 DEF WaitJob
    <2> QED
      BY <2>3, <2>4
  <1>6. GrantsKept'
    BY <1>0, SlotApprovals, LenOfApprovals DEF GInv, GrantsKept, IInv
  <1> QED
    BY <1>1, <1>4, <1>5, <1>6 DEF GInv

\* What decisions change: verdicts, and what they grant.
LEMMA ApproveEffect ==
    ASSUME IInv, Approve
    PROVE  /\ granted \subseteq granted'
           /\ DOMAIN approvals' = DOMAIN approvals
           /\ \A n \in DOMAIN approvals :
                  /\ approvals'[n].step = approvals[n].step
                  /\ \/ approvals'[n].verdict = approvals[n].verdict
                     \/ /\ approvals'[n].verdict # "pending"
                        /\ approvals'[n].verdict = "approved" => approvals[n].step \in granted'
  <1>0. approvals \in Seq(Approval) /\ deciding \in [Apis -> Decision]
    BY DEF IInv, ApprovalsOK
  <1>1. CASE \E p \in Apis, n \in DOMAIN approvals, v \in Decisions : Decide(p, n, v)
    BY <1>1 DEF Decide, history
  <1>2. CASE \E p \in Apis : \E n \in armed[p] : DropTimer(p, n)
    BY <1>2 DEF DropTimer, history
  <1>3. ASSUME NEW p \in Apis, PersistDecision(p)
        PROVE  /\ granted \subseteq granted'
               /\ DOMAIN approvals' = DOMAIN approvals
               /\ \A n \in DOMAIN approvals :
                      /\ approvals'[n].step = approvals[n].step
                      /\ \/ approvals'[n].verdict = approvals[n].verdict
                         \/ /\ approvals'[n].verdict # "pending"
                            /\ approvals'[n].verdict = "approved" => approvals[n].step \in granted'
    <2>1. deciding[p].verdict \in Verdicts
      BY <1>0 DEF Decision
    <2>2. deciding[p].verdict # "pending"
      BY <2>1 DEF Verdicts
    <2>3. approvals' = [approvals EXCEPT ![deciding[p].n].verdict = deciding[p].verdict]
      BY <1>3 DEF PersistDecision
    <2>4. granted \subseteq granted'
          /\ (deciding[p].verdict = "approved" => approvals[deciding[p].n].step \in granted')
      BY <1>3 DEF PersistDecision
    <2>5. \A n \in DOMAIN approvals : approvals[n] \in Approval
      BY <1>0
    <2> QED
      BY <1>0, <2>2, <2>3, <2>4, <2>5 DEF Approval
  <1>4. ASSUME NEW p \in Processes, NEW m \in armed[p], TimerFires(p, m)
        PROVE  /\ granted \subseteq granted'
               /\ DOMAIN approvals' = DOMAIN approvals
               /\ \A n \in DOMAIN approvals :
                      /\ approvals'[n].step = approvals[n].step
                      /\ \/ approvals'[n].verdict = approvals[n].verdict
                         \/ approvals'[n].verdict = "timed_out"
    <2>1. approvals' = [approvals EXCEPT ![m].verdict = "timed_out"] /\ granted' = granted
      BY <1>4 DEF TimerFires, history
    <2>2. \A n \in DOMAIN approvals : approvals[n] \in Approval
      BY <1>0
    <2> QED
      BY <1>0, <2>1, <2>2 DEF Approval
  <1> QED
    BY <1>1, <1>2, <1>3, <1>4 DEF Approve

LEMMA ApproveGated ==
    ASSUME Holds, GInv, Approve
    PROVE  GInv'
  <1>0. IInv /\ UNCHANGED <<row, cache, jobs, leg>>
    BY ApproveFrames DEF Holds
  <1>1. \A at : Open(at) => Open(at)'
    BY <1>0, ApproveEffect DEF Open
  <1>2. \A n \in 1..Len(approvals) : approvals'[n].step = approvals[n].step
    BY <1>0, ApproveEffect, LenOfApprovals DEF IInv
  <1>3. ASSUME NEW run \in Run, run.waiting <= Len(approvals), RunGated(run)
        PROVE  RunGated(run)'
    <2>1. run.waiting # 0 => run.waiting \in 1..Len(approvals)
      BY <1>0, <1>3, LenOfApprovals DEF Run, IInv
    <2> QED
      BY <1>1, <1>2, <1>3, <2>1 DEF RunGated
  <1>4. RunsGated'
    BY <1>0, <1>3 DEF GInv, RunsGated, IInv, RunsOK, RunGated
  <1>5. ASSUME NEW s \in Slots
        PROVE  LegGated(s)'
    <2>1. LegGated(s) /\ leg[s].approval \in Nat /\ leg[s].approval <= Len(approvals)
      BY <1>0, LegFacts DEF GInv, Placed
    <2>2. leg[s].approval # 0 => approvals'[leg[s].approval].step = approvals[leg[s].approval].step
      BY <1>0, <1>2, <2>1, LenOfApprovals DEF IInv
    <2>3. leg[s].pc = "stamp" => leg[s].approval # 0
      BY PhaseFacts DEF PhaseOK
    <2> QED
      BY <1>0, <1>1, <2>1, <2>2, <2>3, ApproveEffect DEF LegGated, Busy
  <1>6. JobsGated'
    BY <1>0, <1>1 DEF GInv, JobsGated
  <1>7. GrantsKept'
    BY <1>0, ApproveEffect DEF GInv, GrantsKept
  <1> QED
    BY <1>4, <1>5, <1>6, <1>7 DEF GInv

LEMMA NextGInv == Holds /\ FInv /\ GInv /\ IInv' /\ [Next]_vars => GInv'
  <1> SUFFICES ASSUME Holds, FInv, GInv, IInv', [Next]_vars PROVE GInv'
    OBVIOUS
  <1>1. CASE UNCHANGED vars
    BY <1>1 DEF vars, approvalVars, history, GInv, LegGated, RunsGated, RunGated, JobsGated,
                GrantsKept, Open, Busy
  <1> QED
    BY <1>1, StepsAreActs, SlotGated, ApproveGated DEF Holds

LEMMA InitGInv == Init => GInv
  <1> SUFFICES ASSUME Init PROVE GInv
    OBVIOUS
  <1>1. \A s \in Slots : leg[s].pc = "idle"
    BY IdleFacts DEF Init
  <1> QED
    BY <1>1 DEF Init, GInv, LegGated, Busy, RunsGated, RunGated, JobsGated, GrantsKept, NoRun

\* The first leg takes up the run before any pause, and no leg, queued job or parked row is
\* ever past an approval step that has not been approved.
THEOREM GatedInvariance == Spec /\ Calm => [](FInv /\ GInv)
  <1>1. Init => FInv /\ GInv
    BY InitFInv, InitGInv
  <1>2. Holds /\ Holds' /\ FInv /\ GInv /\ [Next]_vars => FInv' /\ GInv'
    BY NextFInv, NextGInv DEF Holds
  <1> QED
    BY <1>1, <1>2, CalmInvariance, PTL DEF Spec

\* An action behind an approval step takes effect only once the step has been approved,
\* however often the run is sent back and parked again.
THEOREM GatedByApprovalHolds == Spec /\ Calm => GatedByApproval
  <1>1. GInv => \A s \in Slots : RunAction(s) =>
                   \A i \in 1..(leg[s].at - 1) : Template[i] = "approval" => i \in granted
    BY DEF GInv, LegGated, Busy, Open, RunAction, At
  <1> QED
    BY <1>1, GatedInvariance, PTL DEF GatedByApproval

----------------------------------------------------------------------------
(* An outcome is final, and the run goes through its lifecycle             *)

OneWait == \A i, j \in Steps : Template[i] = "wait" /\ Template[j] = "wait" => i = j

\* No job is tried again while a worker still knows the run as an earlier wait left it.
FewWaits == OneWait \/ MaxTries = 1

\* A leg that goes on after a wait is past it.
PastWait(s) ==
    Busy(s) /\ leg[s].pc # "load" /\ leg[s].job # NoJob /\ leg[s].job.kind = "wait" =>
        leg[s].job.n <= leg[s].at

\* No worker would take the run up from a copy that is behind the row.
NoneBehind == row.status = "queued" \/ \A w \in Workers : cache[w].status # "queued"

StartsInStep(s) ==
    /\ leg[s].pc = "start" => row.status = "queued"
    /\ leg[s].pc = "load" \/ (leg[s].pc = "throw" /\ MaxTries # 1) => NoneBehind
    /\ leg[s].pc = "resume" => approvals[row.waiting].verdict # "pending"

JobsInStep ==
    \A j \in JobId :
        /\ jobs[j].state = "ready" => NoneBehind
        /\ j.kind = "wait" /\ jobs[j].state # "absent" => Template[j.n - 1] = "wait"

TInv == (\A s \in Slots : PastWait(s) /\ StartsInStep(s)) /\ JobsInStep

\* The leg whose wait cannot be scheduled is the first that paused the run.
LEMMA WaitFailsAlone ==
    ASSUME Holds, FInv, GInv, TInv, OneWait, NEW s \in Slots, EnqueueWaitFails(s),
           leg[s].job # NoJob
    PROVE  \A w \in Workers \ {ProcOf[s]} : cache[w].status # "queued"
  <1>0. IInv /\ PhaseOK(s) /\ leg[s].pc = "enqueue" /\ Busy(s)
    BY PhaseFacts, EnqueueWaitFailsEffect DEF Busy
  <1>1. leg[s].job \in JobId /\ jobs[leg[s].job].state = "active"
    BY <1>0, LegFacts DEF Leg, IInv, JobsOK, Held
  <1>2. leg[s].at \in Steps /\ Template[leg[s].at] = "wait"
    BY <1>0, LegFacts DEF GInv, LegGated, Placed, OnStep
  <1>3. leg[s].job.kind # "wait"
    <2>1. SUFFICES ASSUME leg[s].job.kind = "wait" PROVE FALSE
      OBVIOUS
    <2>2. leg[s].job.n - 1 \in Steps /\ leg[s].job.n \in Nat
      BY <1>1, <2>1, TemplateFacts DEF JobId
    <2>3. leg[s].job.n - 1 = leg[s].at
      BY <1>1, <1>2, <2>1, <2>2 DEF TInv, JobsInStep, OneWait
    <2>4. leg[s].job.n <= leg[s].at
      BY <1>0, <2>1 DEF TInv, PastWait
    <2> QED
      BY <1>2, <2>2, <2>3, <2>4, TemplateFacts
  <1>4. leg[s].job = StartJob
    BY <1>1, <1>3 DEF Holds, BInv, NoCrash, JobId, StartJob
  <1> QED
    BY <1>0, <1>4 DEF FInv, StartUnderWay

LEMMA LegStepInStep ==
    ASSUME Holds, FInv, GInv, TInv, FewWaits, IInv', NEW s \in Slots, Acts(s)
    PROVE  PastWait(s)' /\ StartsInStep(s)'
  <1>0. /\ IInv /\ PhaseOK(s) /\ Arrives(s) /\ PastWait(s) /\ StartsInStep(s)
        /\ leg[s].at \in Nat /\ leg'[s] \in Leg
    BY PhaseFacts, Arrivals, LegFacts DEF TInv, IInv, LegsOK
  <1>1. CASE leg'[s].pc \in {"idle", "return"}
    BY <1>1 DEF PastWait, StartsInStep, Busy
  <1>2. CASE leg'[s].pc = "enqueue_start"
    BY <1>0, <1>2, CreateRunEffect DEF PastWait, StartsInStep, Arrives
  <1>3. CASE leg'[s].pc = "mark"
    <2>1. JobFails(s) /\ leg'[s] = [Idle EXCEPT !.pc = "mark"]
      <3>1. JobFails(s) => leg'[s] = Idle \/ leg'[s] = [Idle EXCEPT !.pc = "mark"]
        BY <1>0, Goes DEF JobFails
      <3> QED
        BY <1>0, <1>3, <3>1, IdleFacts DEF Arrives
    <2>2. leg'[s].job = NoJob
      BY <2>1 DEF Idle
    <2> QED
      BY <1>3, <2>2 DEF PastWait, StartsInStep
  <1>4. CASE leg'[s].pc = "load"
    <2>1. NoneBehind /\ Unwritten
      BY <1>0, <1>4, DeliverEffect DEF Arrives, TInv, JobsInStep, Holds, BInv, NoCrash
    <2> QED
      BY <1>4, <2>1 DEF PastWait, StartsInStep, NoneBehind, Unwritten
  <1>5. CASE leg'[s].pc = "start"
    <2>1. LoadRun(s)
      BY <1>0, <1>5 DEF Arrives
    <2>2. row.status = "queued" /\ Unwritten
      <3>1. ProcOf[s] \in Workers /\ NoneBehind /\ Copy(s).status = "queued"
        BY <1>0, <2>1, LoadRunEffect DEF PhaseOK, StartsInStep
      <3> QED
        BY <1>0, <2>1, <3>1, LoadRunEffect DEF NoneBehind, Copy, Current
    <2>3. leg'[s].job # NoJob /\ leg'[s].job.kind = "wait" => leg'[s].job.n <= leg'[s].at
      <3>1. leg'[s].job \in JobId \union {NoJob}
        BY <1>0 DEF Leg
      <3> QED
        BY <1>0, <2>1, <3>1, LoadRunEffect DEF JobId
    <2> QED
      BY <1>5, <2>2, <2>3 DEF PastWait, StartsInStep, Unwritten
  <1>6. CASE leg'[s].pc = "throw"
    <2>1. CASE StartFails(s)
      BY <1>0, <1>6, <2>1, StartFailsEffect
      DEF PastWait, StartsInStep, SameLeg, Busy, NoneBehind, Unwritten
    <2>2. CASE EnqueueWaitFails(s)
      <3>1. leg[s].pc = "enqueue" /\ leg[s].job # NoJob /\ SameLeg(s)
        BY <1>0, <1>6, <2>2, EnqueueWaitFailsEffect
      <3>2. MaxTries # 1 => NoneBehind'
        <4>1. SUFFICES ASSUME MaxTries # 1, NEW w \in Workers PROVE cache'[w].status # "queued"
          BY DEF NoneBehind
        <4>2. w # ProcOf[s] => cache[w].status # "queued"
          BY <2>2, <3>1, <4>1, WaitFailsAlone DEF FewWaits
        <4> QED
          BY <1>0, <2>2, <4>2, EnqueueWaitFailsEffect DEF Written, Processes
      <3> QED
        BY <1>0, <1>6, <3>1, <3>2 DEF PastWait, StartsInStep, SameLeg, Busy
    <2> QED
      BY <1>0, <1>6, <2>1, <2>2 DEF Arrives
  <1>7. CASE leg'[s].pc \in {"begin", "exec", "park", "stamp", "enqueue"}
    <2> DEFINE Stays == /\ leg'[s].job = leg[s].job /\ leg'[s].at = leg[s].at
                        /\ Busy(s) /\ leg[s].pc # "load"
    <2>1. CASE ReachStep(s) \/ BeginStep(s)
      <3>1. Stays
        BY <1>0, <2>1, ReachStepEffect, BeginStepEffect DEF SameLeg, Busy
      <3> QED
        BY <1>0, <1>7, <3>1 DEF PastWait, StartsInStep
    <2>2. CASE ReachApproval(s) \/ CreateApproval(s)
      <3>1. Stays
        BY <1>0, <2>2, ReachApprovalEffect, CreateApprovalEffect DEF SameLeg, Busy
      <3> QED
        BY <1>0, <1>7, <3>1 DEF PastWait, StartsInStep
    <2>3. CASE PauseRun(s)
      <3>1. Stays
        BY <1>0, <2>3, PauseRunEffect DEF SameLeg, Busy
      <3> QED
        BY <1>0, <1>7, <3>1 DEF PastWait, StartsInStep
    <2> QED
      BY <1>0, <1>7, <2>1, <2>2, <2>3 DEF Arrives
  <1>8. CASE leg'[s].pc = "record"
    <2>1. leg'[s].job = leg[s].job /\ leg'[s].at = leg[s].at /\ Busy(s) /\ leg[s].pc # "load"
      BY <1>0, <1>8, StampApprovalEffect, ExecutedEffect
      DEF Arrives, Busy, ReuseStep, RunAction, RunPure, StepFails, ReachWait
    <2> QED
      BY <1>0, <1>8, <2>1 DEF PastWait, StartsInStep
  <1>9. CASE leg'[s].pc \in {"step", "fail", "pause", "hook"}
    <2>1. CASE StartRun(s)
      BY <1>0, <1>9, <2>1, StartRunEffect DEF PastWait, StartsInStep, SameLeg, Busy
    <2>2. CASE RecordDecision(s)
      <3>1. leg'[s].job = NoJob
        BY <1>0, <2>2, RecordDecisionEffect DEF PhaseOK
      <3> QED
        BY <1>9, <3>1 DEF PastWait, StartsInStep
    <2>3. CASE RecordStep(s)
      <3>1. leg'[s].job = leg[s].job /\ leg'[s].at \in {leg[s].at, leg[s].at + 1}
            /\ Busy(s) /\ leg[s].pc # "load"
        BY <1>0, <2>3, RecordStepEffect DEF Busy
      <3>2. leg'[s].job # NoJob /\ leg'[s].job.kind = "wait" => leg'[s].job.n \in Nat
        BY <1>0, TemplateFacts DEF Leg, JobId
      <3> QED
        BY <1>0, <1>9, <3>1, <3>2 DEF PastWait, StartsInStep
    <2> QED
      BY <1>0, <1>9, <2>1, <2>2, <2>3 DEF Arrives
  <1>10. CASE leg'[s].pc = "resume"
    BY <1>0, <1>10, ResumeSweepEffect DEF PastWait, StartsInStep, Arrives, Unwritten
  <1>11. CASE leg'[s].pc = "resumed"
    <2>1. leg'[s].job = NoJob
      BY <1>0, <1>11, ResumeRunEffect DEF PhaseOK, Arrives, SameLeg
    <2> QED
      BY <1>11, <2>1 DEF PastWait, StartsInStep
  <1> QED
    BY <1>0, <1>1, <1>2, <1>3, <1>4, <1>5, <1>6, <1>7, <1>8, <1>9, <1>10, <1>11 DEF Leg

LEMMA SlotInStep ==
    ASSUME Holds, FInv, GInv, TInv, FewWaits, IInv', NEW s \in Slots, Acts(s)
    PROVE  TInv'
  <1>0. IInv /\ PhaseOK(s) /\ Others(s) /\ PastWait(s) /\ StartsInStep(s) /\ LegGated(s)
    BY PhaseFacts, SlotFrame DEF TInv, GInv
  <1>1. ASSUME NEW t \in Slots
        PROVE  PastWait(t)' /\ StartsInStep(t)'
    <2>1. CASE t = s
      BY <2>1, LegStepInStep
    <2>2. CASE t # s /\ Busy(t)
      <3>1. Return(s) /\ leg'[t] = leg[t]
        BY <1>0, <2>2, SlotFrame, BusyAlone, BeginsAlone DEF Others
      <3>2. approvals' = approvals
        BY <3>1 DEF Return, elsewhere, approvalVars
      <3> QED
        BY <1>0, <3>1, <3>2, ReturnEffect
        DEF TInv, PastWait, StartsInStep, Busy, NoneBehind, Unwritten
    <2>3. CASE t # s /\ ~Busy(t)
      BY <1>0, <2>3 DEF PastWait, StartsInStep, Busy, Others
    <2> QED
      BY <2>1, <2>2, <2>3
  <1>2. ASSUME NEW j \in JobId, jobs'[j].state = "ready"
        PROVE  NoneBehind'
    <2>1. CASE jobs[j].state = "ready"
      <3>1. ~Busy(s) /\ row.status \in {"queued", "failed"} /\ NoneBehind
        BY <1>0, <2>1 DEF Holds, BInv, ReadyAlone, TInv, JobsInStep
      <3>2. ~CreateRun(s) /\ ~ResumeSweep(s)
        BY <1>0, <3>1, CreateRunEffect, ResumeSweepEffect DEF NoRun
      <3>3. Unwritten
        BY <1>0, <3>1, <3>2, SlotFrame, DeliverEffect, ReturnEffect DEF SetsOff
      <3> QED
        BY <3>1, <3>3 DEF NoneBehind, Unwritten
    <2>2. CASE EnqueueStart(s) \/ EnqueueWait(s)
      <3>1. row'.status = "queued"
        BY <1>0, <2>2, EnqueueStartEffect, EnqueueWaitEffect DEF PhaseOK, Unwritten
      <3> QED
        BY <3>1 DEF NoneBehind
    <2>3. CASE j = leg[s].job /\ JobFails(s)
      <3>1. leg[s].pc = "throw" /\ MaxTries # 1 /\ Unwritten
        BY <1>0, <1>2, <2>3, JobFailsEffect
      <3> QED
        BY <1>0, <3>1 DEF StartsInStep, NoneBehind, Unwritten
    <2> QED
      BY <1>0, <1>2, <2>1, <2>2, <2>3, JobMoves
  <1>3. ASSUME NEW j \in JobId, j.kind = "wait", jobs'[j].state # "absent"
        PROVE  Template[j.n - 1] = "wait"
    <2>1. CASE jobs[j].state # "absent"
      BY <1>3, <2>1 DEF TInv, JobsInStep
    <2>2. CASE jobs[j].state = "absent"
      <3>1. leg[s].job # j
        BY <1>0, <2>2, JobFacts DEF IInv, JobsOK, Held
      <3>2. EnqueueWait(s) /\ j = WaitJob(leg[s].at + 1)
        BY <1>0, <1>3, <2>2, <3>1, JobMoves, DeliverEffect DEF StartJob
      <3>3. Template[leg[s].at] = "wait" /\ leg[s].at \in Nat
        BY <1>0, <3>2, EnqueueWaitEffect, LegFacts DEF LegGated, Busy
      <3> QED
        BY <3>2, <3>3 DEF WaitJob
    <2> QED
      BY <2>1, <2>2
  <1> QED
    BY <1>1, <1>2, <1>3 DEF TInv, JobsInStep

LEMMA NextTInv == Holds /\ FInv /\ GInv /\ TInv /\ FewWaits /\ IInv' /\ [Next]_vars => TInv'
  <1> SUFFICES ASSUME Holds, FInv, GInv, TInv, FewWaits, IInv', [Next]_vars PROVE TInv'
    OBVIOUS
  <1>1. CASE UNCHANGED <<row, cache, jobs, leg, approvals>>
    BY <1>1 DEF TInv, PastWait, StartsInStep, JobsInStep, NoneBehind, Busy
  <1>2. CASE Approve
    <2>1. IInv /\ UNCHANGED <<row, cache, jobs, leg>>
      BY <1>2, ApproveFrames DEF Holds
    <2>2. ASSUME NEW s \in Slots, leg[s].pc = "resume"
          PROVE  approvals'[row.waiting].verdict # "pending"
      <3>1. row.waiting \in DOMAIN approvals
        BY <2>1, <2>2, PhaseFacts, LenOfApprovals DEF PhaseOK, IInv, RunsOK, Run
      <3>2. approvals[row.waiting].verdict # "pending"
        BY <2>2 DEF TInv, StartsInStep
      <3> QED
        BY <1>2, <2>1, <3>1, <3>2, ApproveEffect
    <2> QED
      BY <2>1, <2>2 DEF TInv, PastWait, StartsInStep, JobsInStep, NoneBehind, Busy
  <1> QED
    BY <1>1, <1>2, StepsAreActs, SlotInStep DEF vars, approvalVars

LEMMA InitTInv == Init => TInv
  <1> SUFFICES ASSUME Init PROVE TInv
    OBVIOUS
  <1>1. \A s \in Slots : leg[s].pc = "idle"
    BY IdleFacts DEF Init
  <1> QED
    BY <1>1 DEF Init, TInv, PastWait, StartsInStep, JobsInStep, Busy

\* What a step of a slot does to what the run's readers are told of it.
RunMoves ==
    \/ row' = row
    \/ row.status = "none" /\ row'.status = "queued"
    \/ row.status = "queued" /\ row'.status \in {"running", "failed"}
    \/ /\ row.status = "running"
       /\ row'.status \in {"running", "queued", "completed", "failed"}
    \/ row.status = "running" /\ row'.status = "awaiting_approval" /\ row'.waiting = 0
    \/ /\ row.status = "awaiting_approval" /\ row.waiting = 0
       /\ row'.status = "awaiting_approval"
    \/ /\ row.status = "awaiting_approval" /\ row'.status = "awaiting_approval"
       /\ row'.waiting = row.waiting
    \/ /\ row.status = "awaiting_approval" /\ row.waiting # 0
       /\ approvals[row.waiting].verdict # "pending"
       /\ row'.status \in {"running", "failed"}

LEMMA SlotMoves ==
    ASSUME Holds, TInv, NEW s \in Slots, Acts(s)
    PROVE  RunMoves
  <1>0. IInv /\ PhaseOK(s) /\ (UpToDate(s) => Copy(s) = row) /\ StartsInStep(s) /\ row \in Run
    BY PhaseFacts DEF TInv
  <1>1. CASE leg[s].pc = "idle"
    BY <1>0, <1>1, Departures, DeliverEffect, ResumeSweepEffect, CreateRunEffect
    DEF Departs, SetsOff, RunMoves, NoRun, Unwritten
  <1>2. CASE leg[s].pc \in {"enqueue_start", "load", "start", "throw"}
    <2>1. JobFails(s) => Unwritten
      BY DEF JobFails, Unwritten
    <2> QED
      BY <1>0, <1>2, <2>1, Departures, EnqueueStartEffect, EnqueueStartFailsEffect,
         SkipRunEffect, LoadRunEffect, StartRunEffect, StartFailsEffect
      DEF Departs, RunMoves, PhaseOK, StartsInStep, Unwritten
  <1>3. CASE leg[s].pc = "mark"
    <2>1. row' = [row EXCEPT !.status = "failed"] /\ row.status \in {"queued", "failed"}
      BY <1>0, <1>3, Departures, MarkFailedEffect DEF Departs, PhaseOK
    <2> QED
      BY <1>0, <2>1 DEF Run, RunMoves
  <1>4. CASE leg[s].pc \in {"fail", "pause", "enqueue", "return"}
    BY <1>0, <1>4, Departures, FailRunEffect, PauseRunEffect, EnqueueWaitEffect,
       EnqueueWaitFailsEffect, ReturnEffect
    DEF Departs, RunMoves, PhaseOK, Drives, Unwritten
  <1>5. CASE leg[s].pc \in {"step", "begin"}
    BY <1>0, <1>5, Departures, ReachStepEffect, DeadlinePassesEffect, CompleteRunEffect,
       BeginStepEffect DEF Departs, RunMoves, PhaseOK, Drives
  <1>6. CASE leg[s].pc \in {"exec", "park"}
    <2>1. ReachApproval(s) \/ Unwritten
      BY <1>0, <1>6, Departures, CreateApprovalEffect
      DEF Departs, ReuseStep, RunAction, RunPure, StepFails, ReachWait, Executed, Unwritten
    <2> QED
      BY <1>0, <1>6, <2>1, ReachApprovalEffect DEF RunMoves, PhaseOK, Drives, Unwritten
  <1>7. CASE leg[s].pc = "stamp"
    BY <1>0, <1>7, Departures, StampApprovalEffect DEF Departs, RunMoves, PhaseOK, Parks
  <1>8. CASE leg[s].pc = "record"
    BY <1>0, <1>8, Departures, RecordStepEffect DEF Departs, RunMoves, PhaseOK, Drives
  <1>9. CASE leg[s].pc \in {"resume", "resumed"}
    BY <1>0, <1>9, Departures, ResumeFailsEffect, ResumeRunEffect, RecordDecisionEffect
    DEF Departs, RunMoves, PhaseOK, Drives, StartsInStep
  <1> QED
    BY <1>0, <1>1, <1>2, <1>3, <1>4, <1>5, <1>6, <1>7, <1>8, <1>9, NoHook, LegFacts DEF Leg

TimelyHolds == Holds /\ FInv /\ GInv /\ TInv /\ FewWaits

\* A run with one wait, or whose jobs are tried once, has no copy left behind from which an
\* old job could start it again.
THEOREM TimelyInvariance == Spec /\ Calm /\ FewWaits => []TimelyHolds
  <1>1. Init /\ FewWaits /\ Holds => TimelyHolds
    BY InitFInv, InitGInv, InitTInv DEF TimelyHolds
  <1>2. TimelyHolds /\ Holds' /\ [Next]_vars => TimelyHolds'
    BY NextFInv, NextGInv, NextTInv DEF TimelyHolds, Holds, FewWaits, OneWait
  <1> QED
    BY <1>1, <1>2, CalmInvariance, PTL DEF Spec

\* A run that has ended does not change, even where it has paused and several processes
\* keep a copy of it as it was before.
THEOREM TerminalIsFinalWithPauses == Spec /\ Calm /\ FewWaits => TerminalIsFinal
  <1>1. TimelyHolds /\ [Next]_vars => [row.status \in Terminal => row' = row]_vars
    <2> SUFFICES ASSUME TimelyHolds, [Next]_vars, row.status \in Terminal
                 PROVE  row' = row
      OBVIOUS
    <2>1. CASE \E s \in Slots : Acts(s)
      BY <2>1, SlotMoves DEF TimelyHolds, RunMoves, Terminal
    <2>2. CASE Approve \/ UNCHANGED vars
      BY <2>2, ApproveFrames DEF vars
    <2> QED
      BY <2>1, <2>2, StepsAreActs DEF TimelyHolds
  <1> QED
    BY <1>1, TimelyInvariance, PTL DEF Spec, TerminalIsFinal

\* The run goes through its lifecycle as its readers know it, parked, decided, resumed and
\* paused by whichever process: nothing resumes or ends it while a decision is awaited.
THEOREM ImplementsLifecycleWithPauses == Spec /\ Calm /\ FewWaits => ImplementsLifecycle
  <1>1. Init => Lifecycle!Init
    BY DEF Init, NoRun, Awaited, Lifecycle!Init
  <1>2. TimelyHolds /\ TimelyHolds' /\ [Next]_vars => [Lifecycle!Next]_(Lifecycle!vars)
    <2> SUFFICES ASSUME TimelyHolds, TimelyHolds', [Next]_vars
                 PROVE  [Lifecycle!Next]_(Lifecycle!vars)
      OBVIOUS
    <2>0. /\ IInv /\ Awaited \in BOOLEAN /\ Awaited' \in BOOLEAN
          /\ attempts = 0 /\ attempts' = 0
      BY DEF TimelyHolds, Holds, BInv, NoCrash, Awaited
    <2>1. CASE \E s \in Slots : Acts(s)
      <3>1. PICK s \in Slots : Acts(s)
        BY <2>1
      <3>2. RunMoves
        BY <3>1, SlotMoves DEF TimelyHolds
      <3>3. row.status = "awaiting_approval" /\ row.waiting # 0 =>
                approvals'[row.waiting] = approvals[row.waiting]
        <4>1. row.waiting # 0 => row.waiting \in 1..Len(approvals)
          BY <2>0, LenOfApprovals DEF IInv, RunsOK, Run
        <4> QED
          BY <3>1, <4>1, SlotApprovals DEF TimelyHolds
      <3>4. CASE row' = row
        <4>1. Awaited' = Awaited
          BY <3>3, <3>4, <2>0 DEF Awaited
        <4> QED
          BY <2>0, <3>4, <4>1 DEF Lifecycle!vars
      <3>5. CASE row.status = "none" /\ row'.status = "queued"
        <4>1. Awaited = FALSE /\ Awaited' = FALSE
          BY <3>5 DEF Awaited
        <4> QED
          BY <2>0, <3>5, <4>1 DEF Lifecycle!Next, Lifecycle!Submit, Lifecycle!Moves
      <3>6. CASE row.status = "queued" /\ row'.status \in {"running", "failed"}
        <4>1. Awaited = FALSE /\ Awaited' = FALSE
          BY <3>6 DEF Awaited
        <4> QED
          BY <2>0, <3>6, <4>1
          DEF Lifecycle!Next, Lifecycle!Start, Lifecycle!Refuse, Lifecycle!Moves
      <3>7. CASE /\ row.status = "running"
                 /\ row'.status \in {"running", "queued", "completed", "failed"}
        <4>1. Awaited = FALSE /\ Awaited' = FALSE
          BY <3>7 DEF Awaited
        <4> QED
          BY <2>0, <3>7, <4>1
          DEF Lifecycle!Next, Lifecycle!Pause, Lifecycle!Complete, Lifecycle!Fail,
              Lifecycle!Moves, Lifecycle!vars
      <3>8. CASE row.status = "running" /\ row'.status = "awaiting_approval" /\ row'.waiting = 0
        <4>1. Awaited' = TRUE
          BY <3>8 DEF Awaited
        <4> QED
          BY <2>0, <3>8, <4>1 DEF Lifecycle!Next, Lifecycle!Park
      <3>9. CASE /\ row.status = "awaiting_approval" /\ row.waiting = 0
                 /\ row'.status = "awaiting_approval"
        <4>1. Awaited = TRUE
          BY <3>9 DEF Awaited
        <4> QED
          BY <2>0, <3>9, <4>1 DEF Lifecycle!Next, Lifecycle!Decide, Lifecycle!vars
      <3>10. CASE /\ row.status = "awaiting_approval" /\ row'.status = "awaiting_approval"
                  /\ row'.waiting = row.waiting
        <4>1. Awaited' = Awaited
          BY <3>3, <3>10, <2>0 DEF Awaited
        <4> QED
          BY <2>0, <3>10, <4>1 DEF Lifecycle!vars
      <3>11. CASE /\ row.status = "awaiting_approval" /\ row.waiting # 0
                  /\ approvals[row.waiting].verdict # "pending"
                  /\ row'.status \in {"running", "failed"}
        <4>1. Awaited = FALSE /\ Awaited' = FALSE
          BY <3>11 DEF Awaited
        <4> QED
          BY <2>0, <3>11, <4>1
          DEF Lifecycle!Next, Lifecycle!Resume, Lifecycle!ResumeFails, Lifecycle!Moves
      <3> QED
        BY <3>2, <3>4, <3>5, <3>6, <3>7, <3>8, <3>9, <3>10, <3>11 DEF RunMoves
    <2>2. CASE Approve
      <3>1. row' = row
        BY <2>2, ApproveFrames
      <3>2. row.waiting # 0 => row.waiting \in DOMAIN approvals
        BY <2>0, LenOfApprovals DEF IInv, RunsOK, Run
      <3>3. Awaited' => Awaited
        BY <2>0, <2>2, <3>1, <3>2, ApproveEffect DEF Awaited
      <3> QED
        BY <2>0, <3>1, <3>3 DEF Lifecycle!Next, Lifecycle!Decide, Lifecycle!vars
    <2>3. CASE UNCHANGED vars
      <3>1. Awaited' = Awaited
        BY <2>3 DEF vars, approvalVars, Awaited
      <3> QED
        BY <2>3, <3>1 DEF vars, Lifecycle!vars
    <2> QED
      BY <2>1, <2>2, <2>3, StepsAreActs DEF TimelyHolds
  <1> QED
    BY <1>1, <1>2, TimelyInvariance, PTL DEF Spec, ImplementsLifecycle, Lifecycle!Spec
=============================================================================
