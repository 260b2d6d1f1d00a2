------------------------- MODULE RunExecutionProofs -------------------------
(***************************************************************************)
(* The types of a run's execution, for any template, any number of         *)
(* processes and slots, and any number of crashes, and with them that a    *)
(* job is worked on by one slot at a time.                                 *)
(***************************************************************************)
EXTENDS RunExecutionProps, SequenceTheorems, TLAPS

----------------------------------------------------------------------------
(* The inductive invariant                                                 *)

\* Copies of the run name no approval that has not been requested.
RunsOK ==
    /\ row \in Run /\ row.waiting <= Len(approvals)
    /\ cache \in [Processes -> Run]
    /\ \A p \in Processes : cache[p].waiting <= Len(approvals)

\* Where a leg has a step under way, at is one of the template's.
OnStep == {"begin", "exec", "park", "stamp", "record", "fail", "pause", "hook",
           "enqueue", "resumed"}

Placed(l) ==
    /\ l.at <= Len(Template) + 1
    /\ l.pc \in {"start", "step"} => l.at # 0
    /\ l.pc \in OnStep => l.at \in Steps
    /\ l.approval <= Len(approvals)

LegsOK == leg \in [Slots -> Leg] /\ \A s \in Slots : Placed(leg[s])

\* A job a slot works on is active, no other slot works on it, and it has a try left.
Held ==
    /\ \A s \in Slots : leg[s].job # NoJob => jobs[leg[s].job].state = "active"
    /\ \A s, t \in Slots : s # t /\ leg[s].job = leg[t].job => leg[s].job = NoJob

TriesLeft ==
    \A j \in JobId : jobs[j].state \notin {"dropped", "kept"} => jobs[j].tries < MaxTries

JobsOK == jobs \in [JobId -> JobState] /\ TriesLeft /\ Held

Approval == [step : Steps, verdict : Verdicts \union {"pending"}]
Decision == [n : Nat, verdict : Verdicts]

\* Decisions and timers are about approvals that have been requested.
ApprovalsOK ==
    /\ approvals \in Seq(Approval)
    /\ deciding \in [Apis -> Decision]
    /\ \A p \in Apis : deciding[p].n <= Len(approvals)
    /\ armed \in [Processes -> SUBSET Nat]
    /\ \A p \in Processes : armed[p] \subseteq DOMAIN approvals

CountsOK ==
    /\ attempts \in 0..MaxAttempts
    /\ reaping \in [Workers -> 0..MaxAttempts]
    /\ crashes \in Nat
    /\ recorded \subseteq Nat /\ granted \subseteq Steps /\ resumed \subseteq Nat

IInv == RunsOK /\ LegsOK /\ JobsOK /\ ApprovalsOK /\ CountsOK

----------------------------------------------------------------------------
(* Constants and records                                                   *)

LEMMA TemplateFacts ==
    /\ Len(Template) \in Nat /\ Steps = 1..Len(Template)
    /\ \A i \in Steps : Template[i] \in Kinds /\ ReviseFrom[i] \in 0..Len(Template)
  BY LenProperties, RunAssumption DEF Steps

LEMMA NumberFacts ==
    /\ MaxAttempts \in Nat /\ MaxTries \in Nat \ {0} /\ MaxStalls \in Nat
  BY RunAssumption

LEMMA ProcOfIsProcess == \A s \in Slots : ProcOf[s] \in Processes
  BY RunAssumption DEF Processes

LEMMA JobFacts ==
    /\ StartJob \in JobId
    /\ \A i \in Steps : WaitJob(i + 1) \in JobId
    /\ \A a \in 1..MaxAttempts : ResumeJob(a) \in JobId
    /\ NoJob \notin JobId
  BY TemplateFacts DEF StartJob, WaitJob, ResumeJob, JobId, NoJob

LEMMA IdleFacts ==
    /\ Idle \in Leg /\ Idle.job = NoJob /\ Idle.pc = "idle" /\ Idle.at = 1 /\ Idle.approval = 0
  <1>1. <<>> \in Seq(Result)
    BY EmptySeq
  <1> QED
    BY <1>1 DEF Idle, Leg, Verdicts

LEMMA NoRunFacts == NoRun \in Run /\ NoRun.waiting = 0
  <1>1. <<>> \in Seq(Result)
    BY EmptySeq
  <1> QED
    BY <1>1, TemplateFacts DEF NoRun, Run, Statuses

LEMMA LenOfApprovals ==
    ApprovalsOK => Len(approvals) \in Nat /\ DOMAIN approvals = 1..Len(approvals)
  BY LenProperties DEF ApprovalsOK

LEMMA TypesFollow == IInv => TypeOK
  BY DEF IInv, RunsOK, LegsOK, JobsOK, ApprovalsOK, CountsOK, TypeOK, Approval, Decision

LEMMA InitIInv == Init => IInv
  <1> SUFFICES ASSUME Init PROVE IInv
    OBVIOUS
  <1> USE DEF Init
  <1>0. approvals \in Seq(Approval) /\ Len(approvals) = 0 /\ DOMAIN approvals = {}
    BY EmptySeq, LenProperties
  <1>1. RunsOK
    BY <1>0, NoRunFacts DEF RunsOK
  <1>2. LegsOK
    BY <1>0, IdleFacts, TemplateFacts DEF LegsOK, Placed, OnStep
  <1>3. JobsOK
    BY IdleFacts, NumberFacts DEF JobsOK, TriesLeft, Held, JobState
  <1>4. ApprovalsOK
    BY <1>0 DEF ApprovalsOK, Decision, NoDecision, Verdicts
  <1>5. CountsOK
    BY NumberFacts DEF CountsOK
  <1> QED
    BY <1>1, <1>2, <1>3, <1>4, <1>5 DEF IInv

----------------------------------------------------------------------------
(* A step of a slot                                                        *)

LEMMA CopyFacts ==
    ASSUME IInv, NEW s \in Slots
    PROVE  Copy(s) \in Run /\ Copy(s).waiting <= Len(approvals)
  BY ProcOfIsProcess DEF IInv, RunsOK, Copy, Current

LEMMA UpdateRuns ==
    ASSUME IInv, NEW s \in Slots, NEW run \in Run, run.waiting <= Len(approvals),
           Update(s, run), UNCHANGED approvals
    PROVE  RunsOK'
  BY ProcOfIsProcess DEF IInv, RunsOK, Update, UpdateIn

LEMMA GotoLegs ==
    ASSUME IInv, NEW s \in Slots, NEW l \in Leg, Placed(l), Goto(s, l), UNCHANGED approvals
    PROVE  LegsOK'
  BY DEF IInv, LegsOK, Goto, Placed

\* The slot goes on with its job, or lets go of it.
LEMMA KeepsJob ==
    ASSUME IInv, NEW s \in Slots, NEW l \in Leg, Goto(s, l),
           l.job = leg[s].job \/ l.job = NoJob, UNCHANGED jobs
    PROVE  JobsOK'
  BY DEF IInv, JobsOK, TriesLeft, Held, LegsOK, Goto

LEMMA ElsewhereOK ==
    ASSUME IInv, UNCHANGED elsewhere
    PROVE  ApprovalsOK' /\ CountsOK' /\ UNCHANGED approvals
  BY DEF IInv, ApprovalsOK, CountsOK, elsewhere, approvalVars, history

LEMMA AddJobs ==
    ASSUME IInv, NEW j \in JobId, Add(j), UNCHANGED leg
    PROVE  JobsOK'
  BY DEF IInv, JobsOK, TriesLeft, Held, Add, JobState

\* Most steps of a slot: the leg goes on, the run is written or not.
LEMMA QuietStep ==
    ASSUME IInv, NEW s \in Slots, NEW l \in Leg, Placed(l), Goto(s, l),
           l.job = leg[s].job \/ l.job = NoJob,
           UNCHANGED <<row, cache, jobs, elsewhere>>
    PROVE  IInv'
  <1>1. RunsOK'
    BY ElsewhereOK DEF IInv, RunsOK
  <1> QED
    BY <1>1, ElsewhereOK, GotoLegs, KeepsJob DEF IInv

LEMMA UpdateStep ==
    ASSUME IInv, NEW s \in Slots, NEW l \in Leg, Placed(l), Goto(s, l),
           l.job = leg[s].job \/ l.job = NoJob,
           NEW run \in Run, run.waiting <= Len(approvals), Update(s, run),
           UNCHANGED <<jobs, elsewhere>>
    PROVE  IInv'
  BY ElsewhereOK, UpdateRuns, GotoLegs, KeepsJob DEF IInv

----------------------------------------------------------------------------
(* What runs and legs are made of                                          *)

LEMMA LegFacts ==
    ASSUME IInv, NEW s \in Slots
    PROVE  /\ leg[s] \in Leg /\ Placed(leg[s])
           /\ leg[s].at \in Nat /\ leg[s].approval \in Nat /\ leg[s].results \in Seq(Result)
           /\ leg[s].outcome \in {"next", "fail", "wait", "hook", "park"}
           /\ leg[s].verdict \in Verdicts
           /\ Ordinal(s) \in Nat
  <1>1. leg[s] \in Leg /\ Placed(leg[s])
    BY DEF IInv, LegsOK
  <1>2. leg[s].results \in Seq(Result)
    BY <1>1 DEF Leg
  <1> QED
    BY <1>1, <1>2, LenProperties DEF Leg, Ordinal

LEMMA DoneFacts ==
    ASSUME IInv, NEW s \in Slots
    PROVE  LET l == [leg[s] EXCEPT !.pc = "return"] IN
           l \in Leg /\ Placed(l) /\ l.job = leg[s].job
  BY LegFacts, TemplateFacts DEF Leg, Placed, OnStep

LEMMA IdlePlaced ==
    ASSUME IInv
    PROVE  /\ Placed(Idle)
           /\ \A pc \in {"enqueue_start", "mark"} :
                  LET l == [Idle EXCEPT !.pc = pc] IN l \in Leg /\ Placed(l) /\ l.job = NoJob
  <1>1. Placed(Idle)
    BY IdleFacts, TemplateFacts, LenOfApprovals DEF IInv, Placed, OnStep
  <1>2. ASSUME NEW pc \in {"enqueue_start", "mark"}
        PROVE  LET l == [Idle EXCEPT !.pc = pc] IN l \in Leg /\ Placed(l) /\ l.job = NoJob
    BY IdleFacts, TemplateFacts, LenOfApprovals DEF IInv, Leg, Placed, OnStep
  <1> QED
    BY <1>1, <1>2

LEMMA ReachedFacts ==
    ASSUME NEW run \in Run, NEW at \in 0..(Len(Template) + 1)
    PROVE  Reached(run, at) \in Run /\ Reached(run, at).waiting = 0
  BY DEF Run, Reached

LEMMA StatusFacts ==
    ASSUME NEW run \in Run, NEW status \in Statuses
    PROVE  /\ [run EXCEPT !.status = status] \in Run
           /\ [run EXCEPT !.status = status].waiting = run.waiting
  BY DEF Run

LEMMA ResultsFacts ==
    ASSUME NEW run \in Run, NEW results \in Seq(Result)
    PROVE  /\ [run EXCEPT !.results = results] \in Run
           /\ [run EXCEPT !.results = results].waiting = run.waiting
  BY DEF Run

----------------------------------------------------------------------------
(* startWorkflowRun and executeQueuedRun                                   *)

LEMMA CreateStep ==
    ASSUME IInv, NEW s \in Slots, Create(s)
    PROVE  IInv'
  <1>1. CASE CreateRun(s)
    <2>0. NoRun \in Run /\ NoRun.waiting = 0 /\ "queued" \in Statuses
      BY NoRunFacts DEF Statuses
    <2>1. [NoRun EXCEPT !.status = "queued"] \in Run
          /\ [NoRun EXCEPT !.status = "queued"].waiting <= Len(approvals)
      BY <2>0, StatusFacts, LenOfApprovals DEF IInv
    <2> QED
      BY <1>1, <2>1, IdlePlaced, UpdateStep DEF CreateRun
  <1>2. CASE EnqueueStart(s)
    <2>1. LegsOK'
      BY <1>2, IdlePlaced, IdleFacts, GotoLegs, ElsewhereOK DEF EnqueueStart
    <2>2. JobsOK'
      BY <1>2, JobFacts, IdleFacts, NumberFacts
      DEF EnqueueStart, IInv, JobsOK, TriesLeft, Held, LegsOK, Goto, Add, JobState
    <2>3. RunsOK'
      BY <1>2, ElsewhereOK DEF EnqueueStart, IInv, RunsOK
    <2> QED
      BY <1>2, <2>1, <2>2, <2>3, ElsewhereOK DEF EnqueueStart, IInv
  <1>3. CASE EnqueueStartFails(s)
    <2>1. [Copy(s) EXCEPT !.status = "failed"] \in Run
          /\ [Copy(s) EXCEPT !.status = "failed"].waiting <= Len(approvals)
      BY CopyFacts, StatusFacts DEF Statuses
    <2> QED
      BY <1>3, <2>1, IdlePlaced, IdleFacts, UpdateStep DEF EnqueueStartFails
  <1> QED
    BY <1>1, <1>2, <1>3 DEF Create

LEMMA DeliverStep ==
    ASSUME IInv, NEW s \in Slots, NEW j \in JobId, Deliver(s, j)
    PROVE  IInv'
  <1>1. LegsOK'
    <2> DEFINE l == [Idle EXCEPT !.pc = "load", !.job = j]
    <2>1. l \in Leg
      BY IdleFacts DEF Leg
    <2>2. l.pc = "load" /\ l.at = 1 /\ l.approval = 0
      BY IdleFacts DEF Leg
    <2>3. Placed(l)
      BY <2>2, TemplateFacts, LenOfApprovals DEF IInv, Placed, OnStep
    <2> QED
      BY <2>1, <2>3, GotoLegs, ElsewhereOK DEF Deliver
  <1>2. /\ jobs[j].state \in {"ready", "stalled"}
        /\ jobs'[j].state = "active" /\ jobs'[j].tries = jobs[j].tries
        /\ jobs' \in [JobId -> JobState]
        /\ \A k \in JobId \ {j} : jobs'[k] = jobs[k]
    BY NumberFacts DEF Deliver, IInv, JobsOK, JobState
  <1>3. /\ leg'[s].job = j
        /\ \A t \in Slots \ {s} : leg'[t] = leg[t] /\ leg[t].job # j
    <2>1. [Idle EXCEPT !.pc = "load", !.job = j].job = j
      BY IdleFacts DEF Leg
    <2>2. leg' = [leg EXCEPT ![s] = [Idle EXCEPT !.pc = "load", !.job = j]]
      BY DEF Deliver, Goto
    <2>3. \A t \in Slots : leg[t].job # j
      BY <1>2, JobFacts DEF IInv, JobsOK, Held
    <2> QED
      BY <2>1, <2>2, <2>3 DEF IInv, LegsOK
  <1>4. JobsOK'
    <2>1. Held'
      <3>1. \A t \in Slots : leg[t].job \in JobId \union {NoJob}
        BY DEF IInv, LegsOK, Leg
      <3> QED
        BY <1>2, <1>3, <3>1, JobFacts DEF Held, IInv, JobsOK
    <2> QED
      BY <1>2, <2>1 DEF IInv, JobsOK, TriesLeft
  <1>5. RunsOK'
    BY ElsewhereOK DEF Deliver, IInv, RunsOK
  <1> QED
    BY <1>1, <1>4, <1>5, ElsewhereOK DEF Deliver, IInv

LEMMA LoadedLeg ==
    ASSUME NEW l \in Leg, NEW from \in Nat, NEW results \in Seq(Result),
           NEW prior, prior \subseteq Nat
    PROVE  [l EXCEPT !.pc = "start", !.at = from, !.results = results, !.prior = prior] \in Leg
  <1> DEFINE m == [l EXCEPT !.pc = "start", !.at = from, !.results = results]
  <1>1. m \in Leg
    BY DEF Leg
  <1> QED
    BY <1>1 DEF Leg

LEMMA LoadStep ==
    ASSUME IInv, NEW s \in Slots, LoadRun(s)
    PROVE  IInv'
  <1> DEFINE from == IF leg[s].job.kind \in {"wait", "hook"} THEN leg[s].job.n ELSE 1
             results == IF from > 1 THEN Copy(s).results ELSE <<>>
             prior == IF from > 1 THEN {} ELSE Reusable(Copy(s).results)
             l == [leg[s] EXCEPT !.pc = "start", !.at = from, !.results = results,
                                 !.prior = prior]
  <1>1. leg[s].job \in JobId \union {NoJob}
    BY LegFacts DEF Leg
  <1>2. from \in 1..(Len(Template) + 1)
    BY <1>1, TemplateFacts DEF JobId, NoJob
  <1>3. Copy(s).results \in Seq(Result) /\ <<>> \in Seq(Result)
    BY CopyFacts, EmptySeq DEF Run
  <1>4. Reusable(Copy(s).results) \subseteq Nat
    BY <1>3, LenProperties DEF Reusable
  <1>5. results \in Seq(Result) /\ prior \subseteq Nat
    BY <1>3, <1>4
  <1>6. Goto(s, l) /\ UNCHANGED <<row, cache, jobs, elsewhere>>
    BY Zenon DEF LoadRun
  <1> HIDE DEF from, results, prior
  <1>7. l \in Leg
    <2>1. leg[s] \in Leg /\ from \in Nat
      BY <1>2, LegFacts, TemplateFacts
    <2> QED
      BY <2>1, <1>5, LoadedLeg
  <1>8. l.pc = "start" /\ l.at = from /\ l.approval = leg[s].approval /\ l.job = leg[s].job
    BY LegFacts DEF Leg
  <1>9. Placed(l)
    BY <1>2, <1>8, LegFacts, TemplateFacts DEF Placed, OnStep
  <1> QED
    BY <1>6, <1>7, <1>8, <1>9, QuietStep

LEMMA JobFailsStep ==
    ASSUME IInv, NEW s \in Slots, JobFails(s)
    PROVE  IInv'
  <1> DEFINE j == leg[s].job
             l == IF jobs[j].tries + 1 < MaxTries THEN Idle ELSE [Idle EXCEPT !.pc = "mark"]
  <1>1. l \in Leg /\ Placed(l) /\ l.job = NoJob
    BY IdlePlaced, IdleFacts
  <1>2. Goto(s, l) /\ UNCHANGED <<row, cache, elsewhere>>
    BY DEF JobFails
  <1>3. LegsOK' /\ RunsOK'
    BY <1>1, <1>2, GotoLegs, ElsewhereOK DEF IInv, RunsOK
  <1>4. /\ leg'[s].job = NoJob
        /\ \A t \in Slots \ {s} : leg'[t] = leg[t]
    BY <1>1, <1>2 DEF Goto, IInv, LegsOK
  <1>5. CASE j \in JobId
    <2>1. /\ jobs[j] \in JobState /\ jobs[j].tries \in 0..(MaxTries - 1)
          /\ j # NoJob
      BY <1>5, JobFacts, NumberFacts DEF IInv, JobsOK, Held, TriesLeft, JobState
    <2>2. /\ jobs' \in [JobId -> JobState]
          /\ \A k \in JobId \ {j} : jobs'[k] = jobs[k]
          /\ jobs'[j].state # "dropped" => jobs'[j].tries < MaxTries
      <3> DEFINE tried == [jobs[j] EXCEPT
                     !.tries = jobs[j].tries + 1,
                     !.state = IF jobs[j].tries + 1 < MaxTries THEN "ready" ELSE "dropped"]
      <3>1. jobs \in [JobId -> JobState]
        BY DEF IInv, JobsOK
      <3>2. jobs' = [jobs EXCEPT ![j] = tried]
        BY <1>5, <3>1 DEF JobFails
      <3>3. jobs[j].tries + 1 \in 0..MaxTries
        BY <2>1, NumberFacts
      <3>4. /\ tried \in JobState
            /\ tried.state # "dropped" => tried.tries < MaxTries
        BY <2>1, <3>3 DEF JobState
      <3> HIDE DEF tried
      <3> QED
        BY <1>5, <3>1, <3>2, <3>4
    <2>3. \A t \in Slots \ {s} : leg[t].job # j
      BY <2>1 DEF IInv, JobsOK, Held
    <2>4. \A t \in Slots : leg[t].job \in JobId \union {NoJob}
      BY DEF IInv, LegsOK, Leg
    <2> QED
      BY <1>3, <1>4, <1>2, <2>2, <2>3, <2>4, ElsewhereOK
      DEF IInv, JobsOK, Held, TriesLeft
  <1>6. CASE j \notin JobId
    <2>1. jobs' = jobs
      BY <1>6 DEF JobFails, IInv, JobsOK
    <2> QED
      BY <1>1, <1>2, <1>3, <2>1, KeepsJob, ElsewhereOK DEF IInv
  <1> QED
    BY <1>5, <1>6

LEMMA ReturnStep ==
    ASSUME IInv, NEW s \in Slots, Return(s)
    PROVE  IInv'
  <1>1. LegsOK' /\ RunsOK'
    BY IdlePlaced, IdleFacts, GotoLegs, ElsewhereOK DEF Return, IInv, RunsOK
  <1>2. /\ leg'[s].job = NoJob
        /\ \A t \in Slots \ {s} : leg'[t] = leg[t]
    BY IdleFacts DEF Return, Goto, IInv, LegsOK
  <1>3. CASE leg[s].job = NoJob
    BY <1>1, <1>3, IdlePlaced, IdleFacts, KeepsJob, ElsewhereOK DEF Return, IInv
  <1>4. CASE leg[s].job # NoJob
    <2>1. /\ leg[s].job \in JobId
          /\ \A t \in Slots : leg[t].job \in JobId \union {NoJob}
      BY <1>4 DEF IInv, LegsOK, Leg
    <2>2. /\ jobs' \in [JobId -> JobState]
          /\ jobs'[leg[s].job].state = "kept"
          /\ \A k \in JobId \ {leg[s].job} : jobs'[k] = jobs[k]
      BY <1>4, <2>1 DEF Return, IInv, JobsOK, JobState
    <2>3. \A t \in Slots \ {s} : leg[t].job # leg[s].job
      BY <1>4 DEF IInv, JobsOK, Held
    <2>4. JobsOK'
      BY <1>2, <2>1, <2>2, <2>3 DEF IInv, JobsOK, Held, TriesLeft
    <2> QED
      BY <1>1, <2>4, ElsewhereOK DEF Return, IInv
  <1> QED
    BY <1>3, <1>4

LEMMA ExecuteStep ==
    ASSUME IInv, NEW s \in Slots, Execute(s)
    PROVE  IInv'
  <1>1. CASE \E j \in JobId : Deliver(s, j)
    BY <1>1, DeliverStep
  <1>2. CASE SkipRun(s)
    BY <1>2, DoneFacts, QuietStep DEF SkipRun, Done
  <1>3. CASE LoadRun(s)
    BY <1>3, LoadStep
  <1>4. CASE StartFails(s)
    <2> DEFINE l == [leg[s] EXCEPT !.pc = "throw"]
    <2>1. l \in Leg /\ Placed(l) /\ l.job = leg[s].job
      BY LegFacts DEF Leg, Placed, OnStep
    <2> QED
      BY <1>4, <2>1, QuietStep DEF StartFails
  <1>5. CASE StartRun(s)
    <2> DEFINE l == [leg[s] EXCEPT !.pc = "step"]
               run == [Copy(s) EXCEPT !.status = "running"]
    <2>1. l \in Leg /\ Placed(l) /\ l.job = leg[s].job
      BY <1>5, LegFacts DEF Leg, Placed, OnStep, StartRun, At
    <2>2. run \in Run /\ run.waiting <= Len(approvals)
      BY CopyFacts, StatusFacts DEF Statuses
    <2>3. Goto(s, l) /\ Update(s, run) /\ UNCHANGED <<jobs, elsewhere>>
      BY <1>5 DEF StartRun
    <2> HIDE DEF l, run
    <2> QED
      BY <2>1, <2>2, <2>3, UpdateStep
  <1>6. CASE JobFails(s)
    BY <1>6, JobFailsStep
  <1>7. CASE MarkFailed(s)
    <2>1. LegsOK' /\ JobsOK'
      BY <1>7, IdlePlaced, IdleFacts, GotoLegs, KeepsJob, ElsewhereOK DEF MarkFailed
    <2>2. RunsOK'
      BY <1>7, StatusFacts, ProcOfIsProcess, ElsewhereOK DEF MarkFailed, IInv, RunsOK, Statuses
    <2> QED
      BY <1>7, <2>1, <2>2, ElsewhereOK DEF MarkFailed, IInv
  <1>8. CASE Return(s)
    BY <1>8, ReturnStep
  <1> QED
    BY <1>1, <1>2, <1>3, <1>4, <1>5, <1>6, <1>7, <1>8 DEF Execute

----------------------------------------------------------------------------
(* _runSteps                                                               *)

LEMMA CopyReached ==
    ASSUME IInv, NEW s \in Slots, NEW at \in 0..(Len(Template) + 1)
    PROVE  /\ Reached(Copy(s), at) \in Run
           /\ Reached(Copy(s), at).waiting <= Len(approvals)
  BY CopyFacts, ReachedFacts, LenOfApprovals DEF IInv

\* A step's leg goes on to its next part: nothing else in it changes.
LEMMA PcStep ==
    ASSUME IInv, NEW s \in Slots, leg[s].pc \in OnStep \union {"step"},
           NEW pc \in {"exec", "park", "throw", "return", "enqueue", "begin"},
           leg[s].at \in Steps
    PROVE  LET l == [leg[s] EXCEPT !.pc = pc] IN l \in Leg /\ Placed(l) /\ l.job = leg[s].job
  BY LegFacts DEF Leg, Placed, OnStep

LEMMA ReachStepStep ==
    ASSUME IInv, NEW s \in Slots, ReachStep(s)
    PROVE  IInv'
  <1>1. leg[s].at \in Steps /\ leg[s].pc = "step"
    BY LegFacts, TemplateFacts DEF ReachStep, At, Placed
  <1>2. leg[s].at \in 0..(Len(Template) + 1)
    BY <1>1, TemplateFacts
  <1> QED
    BY <1>1, <1>2, PcStep, CopyReached, UpdateStep DEF ReachStep

LEMMA BeginStepStep ==
    ASSUME IInv, NEW s \in Slots, BeginStep(s)
    PROVE  IInv'
  <1> DEFINE result == [step |-> leg[s].at, status |-> "running", keyed |-> FALSE]
             results == Append(leg[s].results, result)
             l == [leg[s] EXCEPT !.pc = "exec", !.results = results]
             run == [Copy(s) EXCEPT !.results = results]
  <1>1. result \in Result
    BY LegFacts DEF Result
  <1>2. results \in Seq(Result)
    BY <1>1, LegFacts, AppendProperties
  <1>3. Goto(s, l) /\ Update(s, run) /\ UNCHANGED <<jobs, elsewhere>> /\ leg[s].pc = "begin"
    BY Zenon DEF BeginStep, At
  <1> HIDE DEF result, results
  <1>4. run \in Run /\ run.waiting <= Len(approvals)
    BY <1>2, CopyFacts, ResultsFacts
  <1>5. l \in Leg /\ l.job = leg[s].job
    <2>1. leg[s] \in Leg
      BY LegFacts
    <2> QED
      BY <1>2, <2>1 DEF Leg
  <1>6. l.pc = "exec" /\ l.at = leg[s].at /\ l.approval = leg[s].approval
    BY LegFacts DEF Leg
  <1>7. Placed(l)
    BY <1>3, <1>6, LegFacts DEF Placed, OnStep
  <1> QED
    BY <1>3, <1>4, <1>5, <1>7, UpdateStep

LEMMA DeadlineStep ==
    ASSUME IInv, NEW s \in Slots, DeadlinePasses(s)
    PROVE  IInv'
  <1> DEFINE run == [Reached(Copy(s), leg[s].at) EXCEPT !.status = "failed"]
  <1>1. leg[s].at \in 0..(Len(Template) + 1)
    BY LegFacts, TemplateFacts DEF Placed
  <1>2. run \in Run /\ run.waiting <= Len(approvals)
    BY <1>1, CopyReached, StatusFacts DEF Statuses
  <1> QED
    BY <1>2, DoneFacts, UpdateStep DEF DeadlinePasses, Done

LEMMA FinalFacts ==
    ASSUME NEW run \in Run, NEW status \in Statuses, NEW results \in Seq(Result)
    PROVE  /\ [run EXCEPT !.status = status, !.results = results] \in Run
           /\ [run EXCEPT !.status = status, !.results = results].waiting = run.waiting
  BY DEF Run

LEMMA FinalRun ==
    ASSUME IInv, NEW s \in Slots, NEW at \in 0..(Len(Template) + 1), NEW status \in Statuses
    PROVE  LET run == [Reached(Copy(s), at) EXCEPT !.status = status,
                                                   !.results = leg[s].results] IN
           run \in Run /\ run.waiting <= Len(approvals)
  <1> DEFINE reached == Reached(Copy(s), at)
             results == leg[s].results
  <1>1. reached \in Run /\ reached.waiting <= Len(approvals) /\ results \in Seq(Result)
    BY CopyReached, LegFacts
  <1> HIDE DEF reached, results
  <1>2. /\ [reached EXCEPT !.status = status, !.results = results] \in Run
        /\ [reached EXCEPT !.status = status, !.results = results].waiting = reached.waiting
    BY <1>1, FinalFacts
  <1> QED
    BY <1>1, <1>2 DEF reached, results

LEMMA CompleteStep ==
    ASSUME IInv, NEW s \in Slots, CompleteRun(s)
    PROVE  IInv'
  <1>1. Len(Template) \in 0..(Len(Template) + 1) /\ "completed" \in Statuses
    BY TemplateFacts DEF Statuses
  <1> QED
    BY <1>1, FinalRun, DoneFacts, UpdateStep DEF CompleteRun, Done

LEMMA FailRunStep ==
    ASSUME IInv, NEW s \in Slots, FailRun(s)
    PROVE  IInv'
  <1>1. leg[s].at \in 0..(Len(Template) + 1) /\ "failed" \in Statuses
    BY LegFacts, TemplateFacts DEF Placed, Statuses
  <1> QED
    BY <1>1, FinalRun, DoneFacts, UpdateStep DEF FailRun, Done

LEMMA ExecutedStep ==
    ASSUME IInv, NEW s \in Slots, NEW outcome \in {"next", "fail", "wait", "hook", "park"},
           At(s, "exec"), Executed(s, outcome)
    PROVE  IInv'
  <1> DEFINE l == [leg[s] EXCEPT !.pc = "record", !.outcome = outcome]
  <1>1. l \in Leg
    <2>1. leg[s] \in Leg
      BY LegFacts
    <2> QED
      BY <2>1 DEF Leg
  <1>2. l.pc = "record" /\ l.at = leg[s].at /\ l.approval = leg[s].approval /\ l.job = leg[s].job
    BY LegFacts DEF Leg
  <1>3. Placed(l)
    BY <1>2, LegFacts DEF Placed, OnStep, At
  <1> QED
    BY <1>1, <1>2, <1>3, QuietStep DEF Executed

LEMMA ReachApprovalStep ==
    ASSUME IInv, NEW s \in Slots, ReachApproval(s)
    PROVE  IInv'
  <1> DEFINE run == [Copy(s) EXCEPT !.status = "awaiting_approval"]
  <1>1. leg[s].pc = "exec" /\ leg[s].at \in Steps
    BY LegFacts DEF ReachApproval, At, Placed, OnStep
  <1>2. run \in Run /\ run.waiting <= Len(approvals)
    BY CopyFacts, StatusFacts DEF Statuses
  <1>3. leg[s].pc \in OnStep
    BY <1>1 DEF OnStep
  <1> QED
    BY <1>1, <1>2, <1>3, PcStep, UpdateStep DEF ReachApproval

LEMMA CreateApprovalStep ==
    ASSUME IInv, NEW s \in Slots, CreateApproval(s)
    PROVE  IInv'
  <1> DEFINE n == Len(approvals) + 1
             request == [step |-> leg[s].at, verdict |-> "pending"]
             l == [leg[s] EXCEPT !.pc = "stamp", !.approval = n]
  <1>1. leg[s].pc = "park" /\ leg[s].at \in Steps
    BY LegFacts DEF CreateApproval, At, Placed, OnStep
  <1>2. request \in Approval
    BY <1>1 DEF Approval
  <1>3. approvals \in Seq(Approval) /\ Len(approvals) \in Nat
    BY LenOfApprovals DEF IInv, ApprovalsOK
  <1>4. /\ approvals' \in Seq(Approval) /\ Len(approvals') = n
        /\ DOMAIN approvals' = 1..n /\ DOMAIN approvals = 1..(n - 1)
    BY <1>2, <1>3, AppendProperties, LenProperties, LenOfApprovals
    DEF CreateApproval, IInv
  <1>5. ApprovalsOK'
    <2>1. armed' \in [Processes -> SUBSET Nat]
      <3>1. armed \in [Processes -> SUBSET Nat] /\ n \in Nat
        BY <1>3 DEF IInv, ApprovalsOK
      <3>2. armed[ProcOf[s]] \union {n} \in SUBSET Nat
        BY <3>1, ProcOfIsProcess
      <3> QED
        BY <3>1, <3>2 DEF CreateApproval
    <2>2. \A p \in Processes : armed'[p] \subseteq armed[p] \union {n}
      BY DEF CreateApproval, IInv, ApprovalsOK
    <2>4. \A p \in Processes : armed[p] \subseteq 1..(n - 1)
      BY <1>4 DEF IInv, ApprovalsOK
    <2>5. 1..(n - 1) \union {n} = 1..n
      BY <1>3
    <2>6. \A p \in Processes : armed'[p] \subseteq DOMAIN approvals'
      BY <1>4, <2>2, <2>4, <2>5
    <2>3. \A p \in Apis : deciding'[p].n <= Len(approvals')
      BY <1>3, <1>4 DEF CreateApproval, IInv, ApprovalsOK, Decision
    <2> QED
      BY <1>4, <2>1, <2>3, <2>6 DEF CreateApproval, IInv, ApprovalsOK
  <1>6. l \in Leg
    <2>1. leg[s] \in Leg /\ n \in Nat
      BY <1>3, LegFacts
    <2> HIDE DEF n
    <2> QED
      BY <2>1 DEF Leg
  <1>7. /\ l.pc = "stamp" /\ l.at = leg[s].at /\ l.approval = n
        /\ l.job = leg[s].job
    <2>1. leg[s] \in Leg
      BY LegFacts
    <2> QED
      BY <2>1 DEF Leg
  <1>8. LegsOK'
    <2>1. \A t \in Slots : leg'[t] = IF t = s THEN l ELSE leg[t]
      BY DEF CreateApproval, Goto, IInv, LegsOK
    <2>2. l.at <= Len(Template) + 1 /\ l.at # 0 /\ l.at \in Steps /\ l.approval <= Len(approvals')
      BY <1>1, <1>3, <1>4, <1>7, TemplateFacts
    <2>3. \A t \in Slots : Placed(leg[t]) /\ leg[t].approval <= Len(approvals')
      BY LegFacts, <1>3, <1>4 DEF Placed
    <2>4. \A t \in Slots : Placed(leg[t])'
      BY <2>1, <2>2, <2>3 DEF Placed
    <2>5. leg' \in [Slots -> Leg]
      BY <1>6 DEF CreateApproval, Goto, IInv, LegsOK
    <2> QED
      BY <2>4, <2>5 DEF LegsOK
  <1>9. RunsOK'
    BY <1>3, <1>4 DEF CreateApproval, IInv, RunsOK, Run
  <1>10. JobsOK'
    BY <1>6, <1>7, KeepsJob DEF CreateApproval
  <1> QED
    BY <1>5, <1>8, <1>9, <1>10 DEF CreateApproval, IInv, CountsOK, history

LEMMA StampStep ==
    ASSUME IInv, NEW s \in Slots, StampApproval(s)
    PROVE  IInv'
  <1> DEFINE l == [leg[s] EXCEPT !.pc = "record", !.outcome = "park"]
             run == [Reached(Copy(s), leg[s].at) EXCEPT !.waiting = leg[s].approval]
  <1>1. leg[s].pc = "stamp" /\ leg[s].at \in Steps
    BY LegFacts DEF StampApproval, At, Placed, OnStep
  <1>2. leg[s].at \in 0..(Len(Template) + 1)
    BY <1>1, TemplateFacts
  <1>3. run \in Run /\ run.waiting = leg[s].approval
    <2>1. Reached(Copy(s), leg[s].at) \in Run /\ leg[s].approval \in Nat
      BY <1>2, CopyReached, LegFacts
    <2> QED
      BY <2>1 DEF Run
  <1>4. l \in Leg
    <2>1. leg[s] \in Leg
      BY LegFacts
    <2> QED
      BY <2>1 DEF Leg
  <1>5. l.pc = "record" /\ l.at = leg[s].at /\ l.approval = leg[s].approval /\ l.job = leg[s].job
    BY LegFacts DEF Leg
  <1>6. Placed(l)
    BY <1>1, <1>5, LegFacts DEF Placed, OnStep
  <1>7. run.waiting <= Len(approvals)
    BY <1>3, LegFacts DEF Placed
  <1> QED
    BY <1>3, <1>4, <1>5, <1>6, <1>7, UpdateStep DEF StampApproval

\* A sequence stays one when an element of it is replaced, or none is.
LEMMA Replaced ==
    ASSUME NEW S, NEW seq \in Seq(S), NEW e \in S, NEW i \in Nat, i <= Len(seq)
    PROVE  [seq EXCEPT ![i] = e] \in Seq(S)
  <1>1. Len(seq) \in Nat /\ seq \in [1..Len(seq) -> S] /\ DOMAIN seq = 1..Len(seq)
    BY LenProperties
  <1>2. CASE i = 0
    <2>1. [seq EXCEPT ![i] = e] = seq
      BY <1>1, <1>2
    <2> QED
      BY <2>1
  <1>3. CASE i # 0
    BY <1>1, <1>3, ExceptSeq
  <1> QED
    BY <1>2, <1>3

LEMMA RecordStepStep ==
    ASSUME IInv, NEW s \in Slots, RecordStep(s)
    PROVE  IInv'
  <1> DEFINE failed == leg[s].outcome = "fail"
             result == [step |-> leg[s].at, keyed |-> TRUE,
                        status |-> IF failed THEN "failure" ELSE "success"]
             results == [leg[s].results EXCEPT ![Ordinal(s)] = result]
             at == IF leg[s].outcome = "next" THEN leg[s].at + 1 ELSE leg[s].at
             pc == CASE leg[s].outcome = "next" -> "step"
                     [] leg[s].outcome = "fail" -> "fail"
                     [] leg[s].outcome = "wait" -> "pause"
                     [] leg[s].outcome = "hook" -> "hook"
                     [] leg[s].outcome = "park" -> "return"
             l == [leg[s] EXCEPT !.results = results, !.at = at, !.pc = pc]
             run == [Copy(s) EXCEPT !.results = results]
  <1>1. leg[s].pc = "record" /\ leg[s].at \in Steps
    BY LegFacts DEF RecordStep, At, Placed, OnStep
  <1>2. results \in Seq(Result)
    <2>1. result \in Result
      BY LegFacts DEF Result
    <2>2. Ordinal(s) <= Len(leg[s].results) /\ Ordinal(s) \in Nat
      BY LegFacts DEF Ordinal
    <2> HIDE DEF result
    <2> QED
      BY <2>1, <2>2, LegFacts, Replaced
  <1>3. /\ at \in Nat /\ at <= Len(Template) + 1 /\ at # 0
        /\ pc \in {"step", "fail", "pause", "hook", "return"}
        /\ pc # "step" => at \in Steps
    BY <1>1, LegFacts, TemplateFacts
  <1>4. Goto(s, l) /\ Update(s, run) /\ UNCHANGED jobs /\ UNCHANGED approvals
    BY LegFacts DEF RecordStep, approvalVars, Leg
  <1>5. ApprovalsOK' /\ CountsOK'
    <2>1. recorded' \subseteq Nat
      BY LegFacts DEF RecordStep, IInv, CountsOK
    <2> QED
      BY <2>1 DEF RecordStep, approvalVars, IInv, ApprovalsOK, CountsOK
  <1> HIDE DEF results, at, pc
  <1>6. run \in Run /\ run.waiting <= Len(approvals)
    BY <1>2, CopyFacts, ResultsFacts
  <1>7. leg[s] \in Leg
    BY LegFacts
  <1>8. l \in Leg
    BY <1>2, <1>3, <1>7 DEF Leg
  <1>9. l.pc = pc /\ l.at = at /\ l.approval = leg[s].approval /\ l.job = leg[s].job
    BY <1>7 DEF Leg
  <1>10. Placed(l)
    BY <1>3, <1>9, LegFacts DEF Placed, OnStep
  <1> QED
    BY <1>4, <1>5, <1>6, <1>8, <1>9, <1>10, UpdateRuns, GotoLegs, KeepsJob DEF IInv

LEMMA PauseStep ==
    ASSUME IInv, NEW s \in Slots, PauseRun(s)
    PROVE  IInv'
  <1>1. leg[s].pc = "pause" /\ leg[s].at \in Steps
    BY LegFacts DEF PauseRun, At, Placed, OnStep
  <1>2. leg[s].at + 1 \in 0..(Len(Template) + 1) /\ "queued" \in Statuses
    BY <1>1, TemplateFacts DEF Statuses
  <1>3. leg[s].pc \in OnStep
    BY <1>1 DEF OnStep
  <1> QED
    BY <1>1, <1>2, <1>3, FinalRun, PcStep, UpdateStep DEF PauseRun

LEMMA EnqueueWaitStep ==
    ASSUME IInv, NEW s \in Slots, EnqueueWait(s)
    PROVE  IInv'
  <1> DEFINE l == [leg[s] EXCEPT !.pc = "return"]
  <1>1. leg[s].pc = "enqueue" /\ leg[s].at \in Steps
    BY LegFacts DEF EnqueueWait, At, Placed, OnStep
  <1>2. WaitJob(leg[s].at + 1) \in JobId
    BY <1>1, JobFacts
  <1>3. LegsOK' /\ RunsOK'
    BY DoneFacts, GotoLegs, ElsewhereOK DEF EnqueueWait, Done, IInv, RunsOK
  <1>4. \A t \in Slots : leg'[t].job = leg[t].job
    BY DoneFacts DEF EnqueueWait, Done, Goto, IInv, LegsOK
  <1>5. JobsOK'
    BY <1>2, <1>4 DEF EnqueueWait, Add, IInv, JobsOK, TriesLeft, Held, JobState
  <1> QED
    BY <1>3, <1>5, ElsewhereOK DEF EnqueueWait, IInv

LEMMA EnqueueWaitFailsStep ==
    ASSUME IInv, NEW s \in Slots, EnqueueWaitFails(s)
    PROVE  IInv'
  <1> DEFINE pc == IF leg[s].job = NoJob THEN "return" ELSE "throw"
             run == [Copy(s) EXCEPT !.status = "failed"]
  <1>1. leg[s].pc = "enqueue" /\ leg[s].at \in Steps
    BY LegFacts DEF EnqueueWaitFails, At, Placed, OnStep
  <1>2. pc \in {"exec", "park", "throw", "return", "enqueue", "begin"} /\ leg[s].pc \in OnStep
    BY <1>1 DEF OnStep
  <1>3. run \in Run /\ run.waiting <= Len(approvals)
    BY CopyFacts, StatusFacts DEF Statuses
  <1>4. /\ Goto(s, [leg[s] EXCEPT !.pc = pc]) /\ Update(s, run)
        /\ UNCHANGED <<jobs, elsewhere>>
    BY Zenon DEF EnqueueWaitFails
  <1> HIDE DEF pc
  <1> QED
    BY <1>1, <1>2, <1>3, <1>4, PcStep, UpdateStep

LEMMA StepStep ==
    ASSUME IInv, NEW s \in Slots, Step(s)
    PROVE  IInv'
  <1>1. CASE ReachStep(s)
    BY <1>1, ReachStepStep
  <1>2. CASE BeginStep(s)
    BY <1>2, BeginStepStep
  <1>3. CASE DeadlinePasses(s)
    BY <1>3, DeadlineStep
  <1>4. CASE CompleteRun(s)
    BY <1>4, CompleteStep
  <1>5. CASE ReuseStep(s) \/ RunAction(s) \/ RunPure(s) \/ StepFails(s) \/ ReachWait(s)
    BY <1>5, ExecutedStep DEF ReuseStep, RunAction, RunPure, StepFails, ReachWait
  <1>6. CASE ReachApproval(s)
    BY <1>6, ReachApprovalStep
  <1>7. CASE CreateApproval(s)
    BY <1>7, CreateApprovalStep
  <1>8. CASE StampApproval(s)
    BY <1>8, StampStep
  <1>9. CASE RecordStep(s)
    BY <1>9, RecordStepStep
  <1>10. CASE FailRun(s)
    BY <1>10, FailRunStep
  <1>11. CASE PauseRun(s)
    BY <1>11, PauseStep
  <1>12. CASE EnqueueWait(s)
    BY <1>12, EnqueueWaitStep
  <1>13. CASE EnqueueWaitFails(s)
    BY <1>13, EnqueueWaitFailsStep
  <1> QED
    BY <1>1, <1>2, <1>3, <1>4, <1>5, <1>6, <1>7, <1>8, <1>9, <1>10, <1>11, <1>12, <1>13
    DEF Step

----------------------------------------------------------------------------
(* Resuming after an approval                                              *)

LEMMA ResumeSweepStep ==
    ASSUME IInv, NEW s \in Slots, ResumeSweep(s)
    PROVE  IInv'
  <1> DEFINE n == ApprovalOf(Copy(s))
             l == [Idle EXCEPT !.pc = "resume", !.at = Copy(s).at,
                               !.results = Copy(s).results, !.approval = n,
                               !.verdict = approvals[n].verdict]
  <1>1. /\ approvals \in Seq(Approval) /\ Len(approvals) \in Nat
        /\ DOMAIN approvals = 1..Len(approvals)
    BY LenOfApprovals DEF IInv, ApprovalsOK
  <1>2. row.waiting \in 1..Len(approvals)
    BY <1>1 DEF ResumeSweep, IInv, RunsOK, Run
  <1>3. n \in 1..Len(approvals)
    BY <1>1, <1>2, CopyFacts DEF ApprovalOf, Run
  <1>4. approvals[n].verdict \in Verdicts
    <2>1. approvals[n] \in Approval
      BY <1>1, <1>3, ElementOfSeq
    <2>2. approvals[n].verdict # "pending"
      BY Zenon DEF ResumeSweep
    <2> QED
      BY <2>1, <2>2 DEF Approval
  <1>5. Goto(s, l) /\ l.job = NoJob
    BY IdleFacts DEF ResumeSweep, Leg
  <1>6. ApprovalsOK' /\ CountsOK'
    <2>1. resumed' \subseteq Nat
      BY <1>1, <1>3 DEF ResumeSweep, IInv, CountsOK
    <2>2. /\ armed' \in [Processes -> SUBSET Nat]
          /\ \A p \in Processes : armed'[p] \subseteq armed[p]
      BY DEF ResumeSweep, IInv, ApprovalsOK
    <2> QED
      BY <2>1, <2>2 DEF ResumeSweep, IInv, ApprovalsOK, CountsOK
  <1> DEFINE at == Copy(s).at
             results == Copy(s).results
             verdict == approvals[n].verdict
  <1>7. /\ at \in Nat /\ at <= Len(Template) + 1 /\ results \in Seq(Result)
        /\ n \in Nat /\ n <= Len(approvals) /\ verdict \in Verdicts
    BY <1>1, <1>3, <1>4, CopyFacts, TemplateFacts DEF Run
  <1> HIDE DEF n, at, results, verdict
  <1>8. [Idle EXCEPT !.pc = "resume", !.at = at, !.results = results] \in Leg
    BY <1>7, IdleFacts DEF Leg
  <1>9. [Idle EXCEPT !.pc = "resume", !.at = at, !.results = results,
                     !.approval = n, !.verdict = verdict] \in Leg
    BY <1>7, <1>8, IdleFacts DEF Leg
  <1>10. l \in Leg
    BY <1>9 DEF at, results, verdict
  <1>11. l.pc = "resume" /\ l.at = at /\ l.approval = n
    BY IdleFacts DEF Leg, at
  <1>12. Placed(l)
    BY <1>7, <1>11 DEF Placed, OnStep
  <1>13. UNCHANGED <<row, cache, jobs, approvals>>
    BY DEF ResumeSweep
  <1>14. RunsOK'
    BY <1>13 DEF IInv, RunsOK
  <1> QED
    BY <1>5, <1>6, <1>10, <1>12, <1>13, <1>14, GotoLegs, KeepsJob DEF IInv

LEMMA ResumeFailsStep ==
    ASSUME IInv, NEW s \in Slots, ResumeFails(s)
    PROVE  IInv'
  <1>1. [Copy(s) EXCEPT !.status = "failed"] \in Run
        /\ [Copy(s) EXCEPT !.status = "failed"].waiting <= Len(approvals)
    BY CopyFacts, StatusFacts DEF Statuses
  <1> QED
    BY <1>1, IdleFacts, IdlePlaced, UpdateStep DEF ResumeFails

LEMMA ResumeRunStep ==
    ASSUME IInv, NEW s \in Slots, ResumeRun(s)
    PROVE  IInv'
  <1> DEFINE l == [leg[s] EXCEPT !.pc = "resumed"]
             reached == Reached(Copy(s), leg[s].at)
             run == [reached EXCEPT !.status = "running"]
  <1>1. leg[s].at \in Steps /\ leg[s].at \in 0..(Len(Template) + 1)
    BY TemplateFacts DEF ResumeRun
  <1>2. reached \in Run /\ reached.waiting <= Len(approvals)
    BY <1>1, CopyReached
  <1>3. run \in Run /\ run.waiting <= Len(approvals)
    BY <1>2, StatusFacts DEF Statuses
  <1>4. l \in Leg /\ l.job = leg[s].job
    BY LegFacts DEF Leg
  <1>5. l.pc = "resumed" /\ l.at = leg[s].at /\ l.approval = leg[s].approval
    BY LegFacts DEF Leg
  <1>6. Placed(l)
    BY <1>1, <1>5, LegFacts DEF Placed, OnStep
  <1> QED
    BY <1>3, <1>4, <1>6, UpdateStep DEF ResumeRun

\* Deciding a run leaves a sequence of results, one place longer at most.
LEMMA DecidedFacts ==
    ASSUME NEW results \in Seq(Result), NEW result \in Result
    PROVE  Decided(results, result) \in Seq(Result)
  <1>1. Len(results) \in Nat
    BY LenProperties
  <1>2. [results EXCEPT ![Len(results)] = result] \in Seq(Result)
    BY <1>1, Replaced
  <1> QED
    BY <1>2, AppendProperties DEF Decided

LEMMA RecordDecisionStep ==
    ASSUME IInv, NEW s \in Slots, RecordDecision(s)
    PROVE  IInv'
  <1> DEFINE at == leg[s].at
             next == NextAfter(at, leg[s].verdict)
             result == [step |-> at, keyed |-> FALSE,
                        status |-> IF next = 0 THEN "failure" ELSE "success"]
             results == Decided(leg[s].results, result)
             pc == IF next = 0 THEN "fail" ELSE "step"
             to == IF next = 0 THEN at ELSE next
             l == [leg[s] EXCEPT !.pc = pc, !.at = to, !.results = results]
             reached == Reached(Copy(s), at)
             run == [reached EXCEPT !.results = results]
  <1>1. leg[s].pc = "resumed" /\ at \in Steps /\ at \in 0..(Len(Template) + 1)
    BY LegFacts, TemplateFacts DEF RecordDecision, At, Placed, OnStep
  <1>2. next \in 0..(Len(Template) + 1)
    BY <1>1, TemplateFacts DEF NextAfter
  <1>3. result \in Result
    BY <1>1, TemplateFacts DEF Result
  <1>4. results \in Seq(Result)
    BY <1>3, LegFacts, DecidedFacts
  <1>5. /\ pc \in {"step", "fail"} /\ to \in Nat /\ to <= Len(Template) + 1 /\ to # 0
        /\ pc = "fail" => to \in Steps
    BY <1>1, <1>2, TemplateFacts
  <1>6. Goto(s, l) /\ Update(s, run) /\ UNCHANGED <<jobs, elsewhere>>
    BY Zenon DEF RecordDecision
  <1>7. reached \in Run /\ reached.waiting <= Len(approvals)
    BY <1>1, CopyReached
  <1> HIDE DEF next, result, results, pc, to, reached
  <1>8. run \in Run /\ run.waiting <= Len(approvals)
    BY <1>4, <1>7, ResultsFacts
  <1>9. leg[s] \in Leg
    BY LegFacts
  <1>10. l \in Leg
    BY <1>4, <1>5, <1>9 DEF Leg
  <1>11. l.pc = pc /\ l.at = to /\ l.approval = leg[s].approval /\ l.job = leg[s].job
    BY <1>9 DEF Leg
  <1>12. Placed(l)
    BY <1>5, <1>11, LegFacts DEF Placed, OnStep
  <1> QED
    BY <1>6, <1>8, <1>10, <1>11, <1>12, UpdateStep

LEMMA ResumeStep ==
    ASSUME IInv, NEW s \in Slots, Resume(s)
    PROVE  IInv'
  BY ResumeSweepStep, ResumeFailsStep, ResumeRunStep, RecordDecisionStep DEF Resume

----------------------------------------------------------------------------
(* Decisions and timers                                                    *)

\* A step that touches only the decisions under way, the timers and what is granted.
LEMMA ApproveFrame ==
    ASSUME IInv, UNCHANGED <<row, cache, jobs, leg, attempts, reaping, crashes>>,
           UNCHANGED <<recorded, resumed>>, granted' \subseteq Steps,
           ApprovalsOK', Len(approvals') = Len(approvals)
    PROVE  IInv'
  BY DEF IInv, RunsOK, LegsOK, Placed, JobsOK, TriesLeft, Held, CountsOK

LEMMA ApprovalsFacts ==
    ASSUME IInv
    PROVE  /\ approvals \in Seq(Approval) /\ Len(approvals) \in Nat
           /\ DOMAIN approvals = 1..Len(approvals)
           /\ deciding \in [Apis -> Decision] /\ armed \in [Processes -> SUBSET Nat]
           /\ \A p \in Apis : deciding[p].n <= Len(approvals) /\ deciding[p] \in Decision
           /\ \A p \in Processes : armed[p] \subseteq DOMAIN approvals /\ armed[p] \in SUBSET Nat
           /\ Apis \subseteq Processes /\ granted \subseteq Steps
           /\ \A i \in DOMAIN approvals : approvals[i] \in Approval
  BY LenOfApprovals, ElementOfSeq DEF IInv, ApprovalsOK, CountsOK, Processes

LEMMA DisarmFacts ==
    ASSUME IInv, NEW p \in Processes, NEW n, armed' = [armed EXCEPT ![p] = @ \ {n}]
    PROVE  /\ armed' \in [Processes -> SUBSET Nat]
           /\ \A q \in Processes : armed'[q] \subseteq DOMAIN approvals
  BY ApprovalsFacts

LEMMA VerdictFacts ==
    ASSUME IInv, NEW n \in DOMAIN approvals, NEW verdict \in Verdicts,
           approvals' = [approvals EXCEPT ![n].verdict = verdict]
    PROVE  /\ approvals' \in Seq(Approval) /\ Len(approvals') = Len(approvals)
           /\ DOMAIN approvals' = DOMAIN approvals
  <1> DEFINE a == [approvals[n] EXCEPT !.verdict = verdict]
  <1>1. a \in Approval
    BY ApprovalsFacts DEF Approval
  <1>2. approvals' = [approvals EXCEPT ![n] = a]
    OBVIOUS
  <1>3. n \in 1..Len(approvals)
    BY ApprovalsFacts
  <1> HIDE DEF a
  <1> QED
    BY <1>1, <1>2, <1>3, ApprovalsFacts, ExceptSeq, LenProperties

LEMMA DecideStep ==
    ASSUME IInv, NEW p \in Apis, NEW n \in DOMAIN approvals, NEW v \in Decisions,
           Decide(p, n, v)
    PROVE  IInv'
  <1>1. v \in Verdicts /\ n \in Nat /\ n <= Len(approvals)
    BY RunAssumption, ApprovalsFacts
  <1>2. [n |-> n, verdict |-> v] \in Decision
    BY <1>1 DEF Decision
  <1>3. /\ deciding' \in [Apis -> Decision]
        /\ \A q \in Apis : deciding'[q].n <= Len(approvals)
    BY <1>1, <1>2, ApprovalsFacts DEF Decide
  <1>4. ApprovalsOK'
    BY <1>3, ApprovalsFacts, DisarmFacts DEF Decide, ApprovalsOK
  <1> QED
    BY <1>4, ApprovalsFacts, ApproveFrame DEF Decide, history

LEMMA NoDecisionFacts == NoDecision \in Decision /\ NoDecision.n = 0
  BY DEF NoDecision, Decision, Verdicts

LEMMA PersistStep ==
    ASSUME IInv, NEW p \in Apis, PersistDecision(p)
    PROVE  IInv'
  <1>1. deciding[p].n \in DOMAIN approvals /\ deciding[p].verdict \in Verdicts
    BY ApprovalsFacts DEF PersistDecision, Decision
  <1>2. /\ approvals' \in Seq(Approval) /\ Len(approvals') = Len(approvals)
        /\ DOMAIN approvals' = DOMAIN approvals
    BY <1>1, VerdictFacts DEF PersistDecision
  <1>3. /\ deciding' \in [Apis -> Decision]
        /\ \A q \in Apis : deciding'[q].n <= Len(approvals)
    BY ApprovalsFacts, NoDecisionFacts DEF PersistDecision
  <1>4. ApprovalsOK'
    BY <1>2, <1>3, ApprovalsFacts DEF PersistDecision, ApprovalsOK
  <1>5. granted' \subseteq Steps
    BY <1>1, ApprovalsFacts DEF PersistDecision, Approval
  <1> QED
    BY <1>2, <1>4, <1>5, ApproveFrame DEF PersistDecision

LEMMA TimerStep ==
    ASSUME IInv, NEW p \in Processes, NEW n \in armed[p], TimerFires(p, n)
    PROVE  IInv'
  <1>1. n \in DOMAIN approvals /\ "timed_out" \in Verdicts
    BY ApprovalsFacts DEF Verdicts
  <1>2. /\ approvals' \in Seq(Approval) /\ Len(approvals') = Len(approvals)
        /\ DOMAIN approvals' = DOMAIN approvals
    BY <1>1, VerdictFacts DEF TimerFires
  <1>3. ApprovalsOK'
    BY <1>2, ApprovalsFacts, DisarmFacts DEF TimerFires, ApprovalsOK
  <1> QED
    BY <1>2, <1>3, ApprovalsFacts, ApproveFrame DEF TimerFires, history

LEMMA DropTimerStep ==
    ASSUME IInv, NEW p \in Apis, NEW n \in armed[p], DropTimer(p, n)
    PROVE  IInv'
  <1>1. ApprovalsOK'
    BY ApprovalsFacts, DisarmFacts DEF DropTimer, ApprovalsOK
  <1> QED
    BY <1>1, ApprovalsFacts, ApproveFrame DEF DropTimer, history

LEMMA ApproveStep ==
    ASSUME IInv, Approve
    PROVE  IInv'
  BY DecideStep, PersistStep, TimerStep, DropTimerStep DEF Approve

----------------------------------------------------------------------------
(* The queue, the reaper, and crashes                                      *)

LEMMA DropStalledStep ==
    ASSUME IInv, NEW j \in JobId, DropStalled(j)
    PROVE  IInv'
  <1>1. /\ jobs' \in [JobId -> JobState]
        /\ jobs'[j].state = "dropped" /\ jobs[j].state = "stalled"
        /\ \A k \in JobId \ {j} : jobs'[k] = jobs[k]
    BY DEF DropStalled, IInv, JobsOK, JobState
  <1>2. \A t \in Slots : leg[t].job \in JobId \union {NoJob}
    BY DEF IInv, LegsOK, Leg
  <1>3. JobsOK'
    BY <1>1, <1>2 DEF DropStalled, IInv, JobsOK, TriesLeft, Held
  <1> QED
    BY <1>3, ElsewhereOK DEF DropStalled, IInv, RunsOK, LegsOK, Placed

\* The reaper writes the row and its own attempts.
LEMMA ReaperFrame ==
    ASSUME IInv, row' \in Run, row'.waiting = row.waiting,
           attempts' \in 0..MaxAttempts, reaping' \in [Workers -> 0..MaxAttempts],
           UNCHANGED <<cache, approvalVars, leg, crashes, history>>, JobsOK'
    PROVE  IInv'
  BY DEF IInv, RunsOK, LegsOK, Placed, ApprovalsOK, CountsOK, approvalVars, history

LEMMA ReapStep ==
    ASSUME IInv, NEW w \in Workers, Reap(w)
    PROVE  IInv'
  <1>1. row' \in Run /\ row'.waiting = row.waiting
    BY StatusFacts DEF Reap, IInv, RunsOK, Statuses
  <1>2. attempts' \in 0..MaxAttempts /\ reaping' \in [Workers -> 0..MaxAttempts]
    BY NumberFacts DEF Reap, IInv, CountsOK
  <1>3. JobsOK'
    BY DEF Reap, IInv, JobsOK, TriesLeft, Held
  <1> QED
    BY <1>1, <1>2, <1>3, ReaperFrame DEF Reap

LEMMA EnqueueReplayStep ==
    ASSUME IInv, NEW w \in Workers, EnqueueReplay(w)
    PROVE  IInv'
  <1>1. row' \in Run /\ row'.waiting = row.waiting
    BY DEF EnqueueReplay, IInv, RunsOK
  <1>2. attempts' \in 0..MaxAttempts /\ reaping' \in [Workers -> 0..MaxAttempts]
    BY NumberFacts DEF EnqueueReplay, IInv, CountsOK
  <1>3. ResumeJob(reaping[w]) \in JobId
    BY JobFacts, NumberFacts DEF EnqueueReplay, IInv, CountsOK
  <1>4. JobsOK'
    <2>1. CASE Add(ResumeJob(reaping[w]))
      BY <1>3, <2>1, AddJobs DEF EnqueueReplay
    <2>2. CASE UNCHANGED jobs
      BY <2>2 DEF EnqueueReplay, IInv, JobsOK, TriesLeft, Held
    <2> QED
      BY <2>1, <2>2 DEF EnqueueReplay
  <1> QED
    BY <1>1, <1>2, <1>4, ReaperFrame DEF EnqueueReplay

LEMMA GiveUpStep ==
    ASSUME IInv, NEW w \in Workers, GiveUp(w)
    PROVE  IInv'
  <1>1. row' \in Run /\ row'.waiting = row.waiting
    BY StatusFacts DEF GiveUp, IInv, RunsOK, Statuses
  <1>2. JobsOK' /\ attempts' \in 0..MaxAttempts /\ reaping' \in [Workers -> 0..MaxAttempts]
    BY DEF GiveUp, IInv, CountsOK, JobsOK, TriesLeft, Held
  <1> QED
    BY <1>1, <1>2, ReaperFrame DEF GiveUp

LEMMA CrashStep ==
    ASSUME IInv, NEW p \in Processes, Crash(p)
    PROVE  IInv'
  <1> DEFINE dead == {s \in Slots : ProcOf[s] = p}
  <1>1. \A s \in Slots : leg'[s] = IF s \in dead THEN Idle ELSE leg[s]
    BY DEF Crash
  <1>2. LegsOK'
    <2>1. leg' \in [Slots -> Leg]
      BY IdleFacts DEF Crash, IInv, LegsOK
    <2>2. \A s \in Slots : Placed(leg'[s])
      BY <1>1, IdlePlaced DEF IInv, LegsOK
    <2>3. UNCHANGED approvals
      BY DEF Crash
    <2> QED
      BY <2>1, <2>2, <2>3 DEF LegsOK, Placed
  <1>3. \A j \in JobId : /\ jobs'[j] \in JobState /\ jobs'[j].tries = jobs[j].tries
                         /\ IF \E s \in dead : leg[s].job = j
                            THEN jobs'[j].state = "stalled" ELSE jobs'[j] = jobs[j]
    BY DEF Crash, IInv, JobsOK, JobState
  <1>4. jobs' \in [JobId -> JobState]
    <2>1. jobs' = [j \in JobId |-> jobs'[j]]
      BY DEF Crash
    <2> QED
      BY <1>3, <2>1
  <1>5. \A s \in Slots : leg'[s].job # NoJob =>
            /\ s \notin dead /\ leg'[s] = leg[s] /\ leg[s].job \in JobId
            /\ \A t \in dead : leg[t].job # leg[s].job
    <2>1. \A s \in Slots : leg[s].job \in JobId \union {NoJob}
      BY DEF IInv, LegsOK, Leg
    <2> QED
      BY <1>1, <2>1, IdleFacts DEF IInv, JobsOK, Held
  <1>6. Held'
    BY <1>1, <1>3, <1>5, IdleFacts DEF IInv, JobsOK, Held
  <1>7. TriesLeft'
    <2>1. \A j \in JobId : (\E s \in dead : leg[s].job = j) => jobs[j].state = "active"
      BY JobFacts DEF IInv, JobsOK, Held
    <2> QED
      BY <1>3, <2>1 DEF IInv, JobsOK, TriesLeft
  <1>8. RunsOK'
    BY NoRunFacts, LenOfApprovals DEF Crash, IInv, RunsOK
  <1>9. ApprovalsOK'
    <2>1. /\ deciding' \in [Apis -> Decision]
          /\ \A q \in Apis : deciding'[q].n <= Len(approvals)
      BY ApprovalsFacts, NoDecisionFacts DEF Crash
    <2>2. /\ armed' \in [Processes -> SUBSET Nat]
          /\ \A q \in Processes : armed'[q] \subseteq DOMAIN approvals
      BY ApprovalsFacts DEF Crash
    <2> QED
      BY <2>1, <2>2 DEF Crash, IInv, ApprovalsOK
  <1>10. CountsOK'
    BY NumberFacts DEF Crash, IInv, CountsOK, history
  <1> QED
    BY <1>2, <1>4, <1>6, <1>7, <1>8, <1>9, <1>10 DEF IInv, JobsOK

LEMMA NextIInv == IInv /\ [Next]_vars => IInv'
  <1> SUFFICES ASSUME IInv, [Next]_vars PROVE IInv'
    OBVIOUS
  <1>1. ASSUME NEW s \in Slots, Create(s) \/ Execute(s) \/ Step(s) \/ Resume(s)
        PROVE  IInv'
    BY <1>1, CreateStep, ExecuteStep, StepStep, ResumeStep
  <1>2. CASE \E j \in JobId : DropStalled(j)
    BY <1>2, DropStalledStep
  <1>3. CASE Approve
    BY <1>3, ApproveStep
  <1>4. ASSUME NEW w \in Workers, Reaper(w)
        PROVE  IInv'
    BY <1>4, ReapStep, EnqueueReplayStep, GiveUpStep DEF Reaper
  <1>5. CASE \E p \in Processes : Crash(p)
    BY <1>5, CrashStep
  <1>6. CASE UNCHANGED vars
    BY <1>6 DEF vars, history, approvalVars, IInv, RunsOK, LegsOK, Placed, JobsOK, TriesLeft,
                Held, ApprovalsOK, CountsOK
  <1> QED
    BY <1>1, <1>2, <1>3, <1>4, <1>5, <1>6 DEF Next, Work

\* Every step of every process, slot, queue, sweep and crash keeps the invariant.
THEOREM Invariance == Spec => []IInv
  BY InitIInv, NextIInv, PTL DEF Spec

\* A job that a slot works on is active in the queue and no other slot works on it: BullMQ's
\* deliveries, retries and redeliveries after a crash give it to one at a time.
THEOREM HeldAlways == Spec => []Held
  <1>1. IInv => Held
    BY DEF IInv, JobsOK
  <1> QED
    BY <1>1, Invariance, PTL

\* Copies of the run, legs, jobs, approvals, decisions and counters are always what they
\* should be: no copy names an approval that was never requested, and no leg works at a
\* step the template does not have, whatever crashed, was redelivered or was replayed.
THEOREM TypeCorrect == Spec => []TypeOK
  BY Invariance, TypesFollow, PTL

----------------------------------------------------------------------------
(* What an action of a slot does, field by field                           *)

Others(s) == \A t \in Slots \ {s} : leg'[t] = leg[t]

Unwritten == row' = row /\ cache' = cache

\* The slot's process writes the run.
Written(s) ==
    /\ cache'[ProcOf[s]] = row'
    /\ \A q \in Processes \ {ProcOf[s]} : cache'[q] = cache[q]

\* The leg keeps all but its program counter.
SameLeg(s) ==
    /\ leg'[s].job = leg[s].job /\ leg'[s].at = leg[s].at
    /\ leg'[s].results = leg[s].results /\ leg'[s].prior = leg[s].prior
    /\ leg'[s].outcome = leg[s].outcome /\ leg'[s].approval = leg[s].approval
    /\ leg'[s].verdict = leg[s].verdict

LEMMA Goes ==
    ASSUME IInv, NEW s \in Slots, NEW l, Goto(s, l)
    PROVE  leg'[s] = l /\ Others(s)
  BY DEF Goto, Others, IInv, LegsOK

LEMMA GoesOn ==
    ASSUME IInv, NEW s \in Slots, NEW pc, Goto(s, [leg[s] EXCEPT !.pc = pc])
    PROVE  leg'[s].pc = pc /\ SameLeg(s) /\ Others(s)
  <1>1. leg'[s] = [leg[s] EXCEPT !.pc = pc] /\ Others(s)
    BY Goes
  <1> QED
    BY <1>1, LegFacts DEF SameLeg, Leg

LEMMA GoesIdle ==
    ASSUME IInv, NEW s \in Slots, NEW pc, Goto(s, [Idle EXCEPT !.pc = pc])
    PROVE  leg'[s].pc = pc /\ leg'[s].job = NoJob /\ leg'[s].at = 1 /\ leg'[s].prior = {}
           /\ leg'[s].results = <<>> /\ Others(s)
  <1>1. leg'[s] = [Idle EXCEPT !.pc = pc] /\ Others(s)
    BY Goes
  <1> QED
    BY <1>1 DEF Idle

LEMMA Writes ==
    ASSUME IInv, NEW s \in Slots, NEW run, Update(s, run)
    PROVE  row' = run /\ Written(s)
  BY ProcOfIsProcess DEF Update, UpdateIn, Written, IInv, RunsOK

LEMMA CreateRunEffect ==
    ASSUME IInv, NEW s \in Slots, CreateRun(s)
    PROVE  /\ leg[s].pc = "idle" /\ ProcOf[s] \in Apis /\ row = NoRun
           /\ leg'[s].pc = "enqueue_start" /\ leg'[s].job = NoJob /\ leg'[s].at = 1
           /\ leg'[s].prior = {} /\ leg'[s].results = <<>> /\ Others(s)
           /\ row' = [NoRun EXCEPT !.status = "queued"] /\ Written(s)
           /\ row'.status = "queued" /\ row'.waiting = 0 /\ row'.results = <<>> /\ row'.at = 1
           /\ UNCHANGED <<jobs, elsewhere>>
  <1>1. /\ leg'[s].pc = "enqueue_start" /\ leg'[s].job = NoJob /\ leg'[s].at = 1
        /\ leg'[s].prior = {} /\ leg'[s].results = <<>> /\ Others(s)
    BY GoesIdle DEF CreateRun
  <1>2. row' = [NoRun EXCEPT !.status = "queued"] /\ Written(s)
    BY Writes DEF CreateRun
  <1>3. row'.status = "queued" /\ row'.waiting = 0 /\ row'.results = <<>> /\ row'.at = 1
    BY <1>2 DEF NoRun
  <1> QED
    BY <1>1, <1>2, <1>3 DEF CreateRun, At

LEMMA EnqueueStartEffect ==
    ASSUME IInv, NEW s \in Slots, EnqueueStart(s)
    PROVE  /\ leg[s].pc = "enqueue_start"
           /\ leg'[s] = Idle /\ Others(s) /\ Unwritten
           /\ Add(StartJob) /\ UNCHANGED elsewhere
  BY Goes DEF EnqueueStart, At, Unwritten

LEMMA EnqueueStartFailsEffect ==
    ASSUME IInv, NEW s \in Slots, EnqueueStartFails(s)
    PROVE  /\ leg[s].pc = "enqueue_start"
           /\ leg'[s] = Idle /\ Others(s)
           /\ row' = [Copy(s) EXCEPT !.status = "failed"] /\ Written(s)
           /\ row'.status = "failed" /\ row'.results = Copy(s).results
           /\ UNCHANGED <<jobs, elsewhere>>
  BY Goes, Writes, CopyFacts DEF EnqueueStartFails, At, Run

LEMMA DeliverEffect ==
    ASSUME IInv, NEW s \in Slots, NEW j \in JobId, Deliver(s, j)
    PROVE  /\ leg[s].pc = "idle" /\ ProcOf[s] \in Workers
           /\ jobs[j].state \in {"ready", "stalled"}
           /\ jobs'[j].state = "active" /\ \A k \in JobId \ {j} : jobs'[k] = jobs[k]
           /\ leg'[s].pc = "load" /\ leg'[s].job = j /\ leg'[s].at = 1 /\ leg'[s].prior = {}
           /\ Others(s) /\ Unwritten /\ UNCHANGED elsewhere
  <1>1. leg'[s] = [Idle EXCEPT !.pc = "load", !.job = j] /\ Others(s)
    BY Goes DEF Deliver
  <1>2. leg'[s].pc = "load" /\ leg'[s].job = j /\ leg'[s].at = 1 /\ leg'[s].prior = {}
    BY <1>1 DEF Idle
  <1>3. jobs'[j].state = "active" /\ \A k \in JobId \ {j} : jobs'[k] = jobs[k]
    BY DEF Deliver, IInv, JobsOK, JobState
  <1> QED
    BY <1>1, <1>2, <1>3 DEF Deliver, At, Unwritten

LEMMA SkipRunEffect ==
    ASSUME IInv, NEW s \in Slots, SkipRun(s)
    PROVE  /\ leg[s].pc = "load" /\ leg'[s].pc = "return" /\ SameLeg(s) /\ Others(s)
           /\ Unwritten /\ UNCHANGED <<jobs, elsewhere>>
  BY GoesOn DEF SkipRun, At, Done, Unwritten

LEMMA LoadRunEffect ==
    ASSUME IInv, NEW s \in Slots, LoadRun(s)
    PROVE  LET from == IF leg[s].job.kind \in {"wait", "hook"} THEN leg[s].job.n ELSE 1 IN
           /\ leg[s].pc = "load" /\ Copy(s).status = "queued"
           /\ leg'[s].pc = "start" /\ leg'[s].job = leg[s].job /\ leg'[s].at = from
           /\ leg'[s].results = (IF from > 1 THEN Copy(s).results ELSE <<>>)
           /\ leg'[s].prior = (IF from > 1 THEN {} ELSE Reusable(Copy(s).results))
           /\ Others(s) /\ Unwritten /\ UNCHANGED <<jobs, elsewhere>>
  <1> DEFINE from == IF leg[s].job.kind \in {"wait", "hook"} THEN leg[s].job.n ELSE 1
             results == IF from > 1 THEN Copy(s).results ELSE <<>>
             prior == IF from > 1 THEN {} ELSE Reusable(Copy(s).results)
             l == [leg[s] EXCEPT !.pc = "start", !.at = from, !.results = results,
                                 !.prior = prior]
  <1>1. leg'[s] = l /\ Others(s)
    BY Goes, Zenon DEF LoadRun
  <1>2. /\ leg'[s].pc = "start" /\ leg'[s].job = leg[s].job /\ leg'[s].at = from
        /\ leg'[s].results = results /\ leg'[s].prior = prior
    <2> HIDE DEF from, results, prior
    <2> QED
      BY <1>1, LegFacts DEF Leg
  <1> QED
    BY <1>1, <1>2 DEF LoadRun, At, Queued, Unwritten

LEMMA StartFailsEffect ==
    ASSUME IInv, NEW s \in Slots, StartFails(s)
    PROVE  /\ leg[s].pc = "start" /\ leg'[s].pc = "throw" /\ SameLeg(s) /\ Others(s)
           /\ Unwritten /\ UNCHANGED <<jobs, elsewhere>>
  BY GoesOn DEF StartFails, At, Unwritten

LEMMA JobFailsEffect ==
    ASSUME IInv, NEW s \in Slots, JobFails(s), leg[s].job \in JobId
    PROVE  /\ leg[s].pc = "throw"
           /\ \/ /\ leg'[s] = Idle /\ jobs'[leg[s].job].state = "ready" /\ MaxTries # 1
              \/ /\ leg'[s].pc = "mark" /\ leg'[s].job = NoJob /\ leg'[s].at = 1
                 /\ leg'[s].prior = {}
                 /\ jobs'[leg[s].job].state = "dropped"
           /\ \A k \in JobId \ {leg[s].job} : jobs'[k] = jobs[k]
           /\ Others(s) /\ Unwritten /\ UNCHANGED elsewhere
  <1> DEFINE tries == jobs[leg[s].job].tries + 1
             l == IF tries < MaxTries THEN Idle ELSE [Idle EXCEPT !.pc = "mark"]
  <1>1. leg'[s] = l /\ Others(s)
    BY Goes DEF JobFails
  <1>2. /\ jobs'[leg[s].job].state = IF tries < MaxTries THEN "ready" ELSE "dropped"
        /\ \A k \in JobId \ {leg[s].job} : jobs'[k] = jobs[k]
    BY DEF JobFails, IInv, JobsOK, JobState
  <1>3. [Idle EXCEPT !.pc = "mark"].pc = "mark" /\ [Idle EXCEPT !.pc = "mark"].job = NoJob
        /\ [Idle EXCEPT !.pc = "mark"].at = 1 /\ [Idle EXCEPT !.pc = "mark"].prior = {}
    BY DEF Idle
  <1>4. tries < MaxTries => MaxTries # 1
    BY NumberFacts DEF IInv, JobsOK, JobState
  <1> HIDE DEF tries
  <1> QED
    BY <1>1, <1>2, <1>3, <1>4 DEF JobFails, At, Unwritten

LEMMA MarkFailedEffect ==
    ASSUME IInv, NEW s \in Slots, MarkFailed(s)
    PROVE  /\ leg[s].pc = "mark" /\ leg'[s] = Idle /\ Others(s)
           /\ row' = [row EXCEPT !.status = "failed"]
           /\ row'.status = "failed" /\ row'.results = row.results
           /\ \A q \in Processes \ {ProcOf[s]} : cache'[q] = cache[q]
           /\ cache'[ProcOf[s]] = NoRun \/ cache'[ProcOf[s]].status = "failed"
           /\ UNCHANGED <<jobs, elsewhere>>
  <1>1. cache \in [Processes -> Run] /\ ProcOf[s] \in Processes /\ row \in Run
    BY ProcOfIsProcess DEF IInv, RunsOK
  <1>2. cache' = IF cache[ProcOf[s]] = NoRun THEN cache
                 ELSE [cache EXCEPT ![ProcOf[s]].status = "failed"]
    BY DEF MarkFailed
  <1>3. /\ \A q \in Processes \ {ProcOf[s]} : cache'[q] = cache[q]
        /\ cache'[ProcOf[s]] = NoRun \/ cache'[ProcOf[s]].status = "failed"
    BY <1>1, <1>2 DEF Run
  <1>4. row'.status = "failed" /\ row'.results = row.results
    BY <1>1 DEF MarkFailed, Run
  <1> QED
    BY <1>3, <1>4, Goes DEF MarkFailed, At

LEMMA StartRunEffect ==
    ASSUME IInv, NEW s \in Slots, StartRun(s)
    PROVE  /\ leg[s].pc = "start" /\ leg'[s].pc = "step" /\ SameLeg(s) /\ Others(s)
           /\ row'.status = "running" /\ row'.waiting = Copy(s).waiting
           /\ row'.results = Copy(s).results
           /\ Written(s) /\ UNCHANGED <<jobs, elsewhere>>
  <1>1. leg[s].pc = "start" /\ leg'[s].pc = "step" /\ SameLeg(s) /\ Others(s)
    BY GoesOn DEF StartRun, At
  <1>2. row' = [Copy(s) EXCEPT !.status = "running"] /\ Written(s)
    BY Writes DEF StartRun
  <1>3. /\ row'.status = "running" /\ row'.waiting = Copy(s).waiting
        /\ row'.results = Copy(s).results
    BY <1>2, CopyFacts DEF Run
  <1> QED
    BY <1>1, <1>2, <1>3 DEF StartRun

LEMMA CopiedReached ==
    ASSUME IInv, NEW s \in Slots, NEW at \in Nat
    PROVE  LET run == Reached(Copy(s), at) IN
           /\ run.status = Copy(s).status /\ run.at = at /\ run.waiting = 0
           /\ run.results = Copy(s).results
           /\ run = [run EXCEPT !.at = at]
           /\ DOMAIN run = {"status", "at", "waiting", "token", "results"}
  BY CopyFacts DEF Reached, Run

LEMMA ReachStepEffect ==
    ASSUME IInv, NEW s \in Slots, ReachStep(s)
    PROVE  /\ leg[s].pc = "step" /\ leg'[s].pc = "begin" /\ SameLeg(s) /\ Others(s)
           /\ row'.status = Copy(s).status /\ row'.at = leg[s].at /\ row'.waiting = 0
           /\ row'.results = Copy(s).results
           /\ leg[s].at \in Steps
           /\ Written(s) /\ UNCHANGED <<jobs, elsewhere>>
  <1>1. leg[s].at \in Nat /\ leg[s].at # 0
    BY LegFacts DEF ReachStep, At, Placed
  <1> QED
    BY <1>1, GoesOn, Writes, CopiedReached, TemplateFacts DEF ReachStep, At

Placeholder(s) == [step |-> leg[s].at, status |-> "running", keyed |-> FALSE]

LEMMA BeginStepEffect ==
    ASSUME IInv, NEW s \in Slots, BeginStep(s)
    PROVE  /\ leg[s].pc = "begin" /\ leg'[s].pc = "exec"
           /\ leg'[s].job = leg[s].job /\ leg'[s].at = leg[s].at
           /\ leg'[s].prior = leg[s].prior
           /\ leg'[s].results = Append(leg[s].results, Placeholder(s))
           /\ Others(s)
           /\ row'.status = Copy(s).status /\ row'.at = Copy(s).at
           /\ row'.waiting = Copy(s).waiting /\ row'.results = leg'[s].results
           /\ Written(s) /\ UNCHANGED <<jobs, elsewhere>>
  <1> DEFINE results == Append(leg[s].results, Placeholder(s))
  <1>1. /\ Update(s, [Copy(s) EXCEPT !.results = results])
        /\ Goto(s, [leg[s] EXCEPT !.pc = "exec", !.results = results])
    BY DEF BeginStep, Placeholder
  <1> HIDE DEF results
  <1>2. leg'[s] = [leg[s] EXCEPT !.pc = "exec", !.results = results] /\ Others(s)
    BY <1>1, Goes
  <1>3. row' = [Copy(s) EXCEPT !.results = results] /\ Written(s)
    BY <1>1, Writes
  <1>4. /\ leg'[s].pc = "exec" /\ leg'[s].job = leg[s].job /\ leg'[s].at = leg[s].at
        /\ leg'[s].prior = leg[s].prior /\ leg'[s].results = results
    BY <1>2, LegFacts DEF Leg
  <1>5. /\ row'.status = Copy(s).status /\ row'.at = Copy(s).at
        /\ row'.waiting = Copy(s).waiting /\ row'.results = results
    BY <1>3, CopyFacts DEF Run
  <1>6. leg[s].pc = "begin" /\ UNCHANGED <<jobs, elsewhere>>
    BY DEF BeginStep, At
  <1> QED
    BY <1>2, <1>3, <1>4, <1>5, <1>6 DEF results

LEMMA DeadlinePassesEffect ==
    ASSUME IInv, NEW s \in Slots, DeadlinePasses(s)
    PROVE  /\ leg[s].pc = "step" /\ leg'[s].pc = "return" /\ SameLeg(s) /\ Others(s)
           /\ row'.status = "failed" /\ Written(s) /\ UNCHANGED <<jobs, elsewhere>>
  <1>1. row' = [Reached(Copy(s), leg[s].at) EXCEPT !.status = "failed"] /\ Written(s)
    BY Writes DEF DeadlinePasses
  <1>2. leg[s].at \in Nat
    BY LegFacts
  <1>3. row'.status = "failed"
    BY <1>1, <1>2, CopiedReached
  <1> QED
    BY <1>1, <1>3, GoesOn DEF DeadlinePasses, At, Done

LEMMA CompleteRunEffect ==
    ASSUME IInv, NEW s \in Slots, CompleteRun(s)
    PROVE  /\ leg[s].pc = "step" /\ leg[s].at > Len(Template)
           /\ leg'[s].pc = "return" /\ SameLeg(s) /\ Others(s)
           /\ row'.status = "completed" /\ row'.results = leg[s].results
           /\ Written(s) /\ UNCHANGED <<jobs, elsewhere>>
  <1>1. /\ row' = [Reached(Copy(s), Len(Template)) EXCEPT
                     !.status = "completed", !.results = leg[s].results]
        /\ Written(s)
    BY Writes DEF CompleteRun
  <1>2. row'.status = "completed" /\ row'.results = leg[s].results
    BY <1>1, CopiedReached, TemplateFacts
  <1> QED
    BY <1>1, <1>2, GoesOn DEF CompleteRun, At, Done

LEMMA ExecutedEffect ==
    ASSUME IInv, NEW s \in Slots, NEW outcome, At(s, "exec"), Executed(s, outcome)
    PROVE  /\ leg[s].pc = "exec" /\ leg'[s].pc = "record" /\ leg'[s].outcome = outcome
           /\ leg'[s].job = leg[s].job /\ leg'[s].at = leg[s].at
           /\ leg'[s].prior = leg[s].prior /\ leg'[s].results = leg[s].results
           /\ Others(s) /\ Unwritten /\ UNCHANGED <<jobs, elsewhere>>
  <1>1. leg'[s] = [leg[s] EXCEPT !.pc = "record", !.outcome = outcome] /\ Others(s)
    BY Goes DEF Executed
  <1> QED
    BY <1>1, LegFacts DEF Executed, At, Leg, Unwritten

LEMMA ReachApprovalEffect ==
    ASSUME IInv, NEW s \in Slots, ReachApproval(s)
    PROVE  /\ leg[s].pc = "exec" /\ ~Reuses(s) /\ Kind(s) = "approval"
           /\ leg'[s].pc = "park" /\ SameLeg(s) /\ Others(s)
           /\ row'.status = "awaiting_approval" /\ row'.at = Copy(s).at
           /\ row'.waiting = Copy(s).waiting /\ row'.results = Copy(s).results
           /\ Written(s) /\ UNCHANGED <<jobs, elsewhere>>
  BY GoesOn, Writes, CopyFacts DEF ReachApproval, At, Run

LEMMA CreateApprovalEffect ==
    ASSUME IInv, NEW s \in Slots, CreateApproval(s)
    PROVE  /\ leg[s].pc = "park" /\ leg'[s].pc = "stamp"
           /\ leg'[s].approval = Len(approvals) + 1
           /\ leg'[s].job = leg[s].job /\ leg'[s].at = leg[s].at
           /\ leg'[s].prior = leg[s].prior /\ leg'[s].results = leg[s].results
           /\ Others(s) /\ Unwritten
           /\ approvals' = Append(approvals, [step |-> leg[s].at, verdict |-> "pending"])
           /\ UNCHANGED <<jobs, attempts, deciding, reaping, crashes, history>>
  <1>1. leg'[s] = [leg[s] EXCEPT !.pc = "stamp", !.approval = Len(approvals) + 1] /\ Others(s)
    BY Goes DEF CreateApproval
  <1> QED
    BY <1>1, LegFacts DEF CreateApproval, At, Leg, Unwritten

LEMMA StampApprovalEffect ==
    ASSUME IInv, NEW s \in Slots, StampApproval(s)
    PROVE  /\ leg[s].pc = "stamp" /\ leg'[s].pc = "record" /\ leg'[s].outcome = "park"
           /\ leg'[s].job = leg[s].job /\ leg'[s].at = leg[s].at
           /\ leg'[s].prior = leg[s].prior /\ leg'[s].results = leg[s].results
           /\ Others(s)
           /\ row'.status = Copy(s).status /\ row'.at = leg[s].at
           /\ row'.waiting = leg[s].approval /\ row'.results = Copy(s).results
           /\ Written(s) /\ UNCHANGED <<jobs, elsewhere>>
  <1>1. leg'[s] = [leg[s] EXCEPT !.pc = "record", !.outcome = "park"] /\ Others(s)
    BY Goes DEF StampApproval
  <1>2. /\ row' = [Reached(Copy(s), leg[s].at) EXCEPT !.waiting = leg[s].approval]
        /\ Written(s)
    BY Writes DEF StampApproval
  <1>3. leg[s].at \in Nat
    BY LegFacts
  <1>4. /\ row'.status = Copy(s).status /\ row'.at = leg[s].at
        /\ row'.waiting = leg[s].approval /\ row'.results = Copy(s).results
    BY <1>2, <1>3, CopiedReached
  <1> QED
    BY <1>1, <1>2, <1>4, LegFacts DEF StampApproval, At, Leg

\* Where a leg goes once its step's result is recorded.
After == [next |-> "step", fail |-> "fail", wait |-> "pause", hook |-> "hook",
          park |-> "return"]

\* The step's result in the place of its placeholder.
RecordedResults(s) ==
    [leg[s].results EXCEPT ![Ordinal(s)] =
        [step |-> leg[s].at, keyed |-> TRUE,
         status |-> IF leg[s].outcome = "fail" THEN "failure" ELSE "success"]]

LEMMA RecordStepEffect ==
    ASSUME IInv, NEW s \in Slots, RecordStep(s)
    PROVE  /\ leg[s].pc = "record" /\ leg'[s].pc = After[leg[s].outcome]
           /\ leg'[s].job = leg[s].job /\ leg'[s].prior = leg[s].prior
           /\ leg'[s].outcome = leg[s].outcome
           /\ leg'[s].at = IF leg[s].outcome = "next" THEN leg[s].at + 1 ELSE leg[s].at
           /\ leg'[s].results = RecordedResults(s)
           /\ Others(s)
           /\ row'.status = Copy(s).status /\ row'.at = Copy(s).at
           /\ row'.waiting = Copy(s).waiting /\ row'.results = leg'[s].results
           /\ recorded' = IF Kind(s) = "action" /\ leg[s].outcome # "fail"
                          THEN recorded \union {Ordinal(s)} ELSE recorded
           /\ Written(s)
           /\ UNCHANGED <<jobs, attempts, approvalVars, reaping, crashes, granted, resumed>>
  <1> DEFINE results == RecordedResults(s)
             o == leg[s].outcome
             at == IF o = "next" THEN leg[s].at + 1 ELSE leg[s].at
             l == [leg[s] EXCEPT
                      !.results = results,
                      !.at = at,
                      !.pc = CASE o = "next" -> "step"
                               [] o = "fail" -> "fail"
                               [] o = "wait" -> "pause"
                               [] o = "hook" -> "hook"
                               [] o = "park" -> "return"]
  <1>0. RecordStep(s) <=>
          /\ At(s, "record")
          /\ Update(s, [Copy(s) EXCEPT !.results = results])
          /\ recorded' = IF Kind(s) = "action" /\ o # "fail"
                         THEN recorded \union {Ordinal(s)} ELSE recorded
          /\ Goto(s, l)
          /\ UNCHANGED <<jobs, attempts, approvalVars, reaping, crashes, granted, resumed>>
    BY DEF RecordStep, RecordedResults
  <1>1. o \in {"next", "fail", "wait", "hook", "park"}
    BY LegFacts
  <1> HIDE DEF results, at
  <1>2. leg'[s] = l /\ Others(s)
    BY <1>0, Goes
  <1>3. row' = [Copy(s) EXCEPT !.results = results] /\ Written(s)
    BY <1>0, Writes
  <1>4. /\ leg'[s].job = leg[s].job /\ leg'[s].prior = leg[s].prior
        /\ leg'[s].outcome = leg[s].outcome
        /\ leg'[s].at = at /\ leg'[s].results = results
        /\ leg'[s].pc = After[o]
    BY <1>1, <1>2, LegFacts DEF Leg, After
  <1>5. /\ row'.status = Copy(s).status /\ row'.at = Copy(s).at
        /\ row'.waiting = Copy(s).waiting /\ row'.results = results
    BY <1>3, CopyFacts DEF Run
  <1> QED
    BY <1>0, <1>2, <1>3, <1>4, <1>5 DEF At, at, results

LEMMA FailRunEffect ==
    ASSUME IInv, NEW s \in Slots, FailRun(s)
    PROVE  /\ leg[s].pc = "fail" /\ leg'[s].pc = "return" /\ SameLeg(s) /\ Others(s)
           /\ row'.status = "failed" /\ Written(s) /\ UNCHANGED <<jobs, elsewhere>>
  <1>1. /\ row' = [Reached(Copy(s), leg[s].at) EXCEPT
                     !.status = "failed", !.results = leg[s].results]
        /\ Written(s)
    BY Writes DEF FailRun
  <1>2. row'.status = "failed"
    BY <1>1, CopiedReached, LegFacts
  <1> QED
    BY <1>1, <1>2, GoesOn DEF FailRun, At, Done

LEMMA PauseRunEffect ==
    ASSUME IInv, NEW s \in Slots, PauseRun(s)
    PROVE  /\ leg[s].pc = "pause" /\ leg'[s].pc = "enqueue" /\ SameLeg(s) /\ Others(s)
           /\ row'.status = "queued" /\ row'.waiting = 0 /\ row'.results = leg[s].results
           /\ Written(s) /\ UNCHANGED <<jobs, elsewhere>>
  <1>1. /\ row' = [Reached(Copy(s), leg[s].at + 1) EXCEPT
                     !.status = "queued", !.results = leg[s].results]
        /\ Written(s)
    BY Writes DEF PauseRun
  <1>2. leg[s].at + 1 \in Nat
    BY LegFacts
  <1>3. row'.status = "queued" /\ row'.waiting = 0 /\ row'.results = leg[s].results
    BY <1>1, <1>2, CopiedReached
  <1> QED
    BY <1>1, <1>3, GoesOn DEF PauseRun, At

LEMMA EnqueueWaitEffect ==
    ASSUME IInv, NEW s \in Slots, EnqueueWait(s)
    PROVE  /\ leg[s].pc = "enqueue" /\ leg'[s].pc = "return" /\ SameLeg(s) /\ Others(s)
           /\ WaitJob(leg[s].at + 1) \in JobId /\ Add(WaitJob(leg[s].at + 1))
           /\ Unwritten /\ UNCHANGED elsewhere
  <1>1. leg[s].at \in Steps
    BY LegFacts DEF EnqueueWait, At, Placed, OnStep
  <1> QED
    BY <1>1, GoesOn, JobFacts DEF EnqueueWait, At, Done, Unwritten

LEMMA EnqueueWaitFailsEffect ==
    ASSUME IInv, NEW s \in Slots, EnqueueWaitFails(s)
    PROVE  /\ leg[s].pc = "enqueue"
           /\ leg'[s].pc = IF leg[s].job = NoJob THEN "return" ELSE "throw"
           /\ SameLeg(s) /\ Others(s)
           /\ row'.status = "failed" /\ Written(s) /\ UNCHANGED <<jobs, elsewhere>>
  <1> DEFINE pc == IF leg[s].job = NoJob THEN "return" ELSE "throw"
  <1>1. Goto(s, [leg[s] EXCEPT !.pc = pc])
    BY DEF EnqueueWaitFails
  <1>2. leg'[s].pc = pc /\ SameLeg(s) /\ Others(s)
    <2> HIDE DEF pc
    <2> QED
      BY <1>1, GoesOn
  <1>3. row' = [Copy(s) EXCEPT !.status = "failed"] /\ Written(s)
    BY Writes DEF EnqueueWaitFails
  <1> QED
    BY <1>2, <1>3, CopyFacts DEF EnqueueWaitFails, At, Run

LEMMA ReturnEffect ==
    ASSUME IInv, NEW s \in Slots, Return(s)
    PROVE  /\ leg[s].pc = "return" /\ leg'[s] = Idle /\ Others(s) /\ Unwritten
           /\ \A k \in JobId : IF k = leg[s].job THEN jobs'[k].state = "kept"
                               ELSE jobs'[k] = jobs[k]
           /\ UNCHANGED elsewhere
  <1>1. leg[s].job \in JobId \union {NoJob}
    BY LegFacts DEF Leg
  <1>2. \A k \in JobId : IF k = leg[s].job THEN jobs'[k].state = "kept" ELSE jobs'[k] = jobs[k]
    BY <1>1, JobFacts DEF Return, IInv, JobsOK, JobState
  <1> QED
    BY <1>2, Goes DEF Return, At, Unwritten

LEMMA ResumeSweepEffect ==
    ASSUME IInv, NEW s \in Slots, ResumeSweep(s)
    PROVE  LET n == ApprovalOf(Copy(s)) IN
           /\ leg[s].pc = "idle" /\ ProcOf[s] \in Apis
           /\ row.status = "awaiting_approval" /\ row.waiting # 0
           /\ approvals[row.waiting].verdict # "pending"
           /\ Copy(s).status = "awaiting_approval" /\ (Unhurried => Settled)
           /\ leg'[s].pc = "resume" /\ leg'[s].job = NoJob /\ leg'[s].prior = {}
           /\ leg'[s].at = Copy(s).at /\ leg'[s].results = Copy(s).results
           /\ leg'[s].approval = n /\ leg'[s].verdict = approvals[n].verdict
           /\ resumed' = resumed \union {n}
           /\ Others(s) /\ Unwritten
           /\ UNCHANGED <<jobs, attempts, approvals, deciding, reaping, crashes, recorded,
                          granted>>
  <1> DEFINE n == ApprovalOf(Copy(s))
             l == [Idle EXCEPT !.pc = "resume", !.at = Copy(s).at, !.results = Copy(s).results,
                               !.approval = n, !.verdict = approvals[n].verdict]
  <1>1. Goto(s, l)
    BY DEF ResumeSweep
  <1>2. leg'[s] = l /\ Others(s)
    BY <1>1, Goes
  <1>3. /\ leg'[s].pc = "resume" /\ leg'[s].job = NoJob /\ leg'[s].prior = {}
        /\ leg'[s].at = Copy(s).at /\ leg'[s].results = Copy(s).results
        /\ leg'[s].approval = n /\ leg'[s].verdict = approvals[n].verdict
    <2> HIDE DEF n
    <2> QED
      BY <1>2 DEF Idle
  <1> QED
    BY <1>2, <1>3 DEF ResumeSweep, At, Unwritten

LEMMA ResumeFailsEffect ==
    ASSUME IInv, NEW s \in Slots, ResumeFails(s)
    PROVE  /\ leg[s].pc = "resume" /\ leg'[s] = Idle /\ Others(s)
           /\ row'.status = "failed" /\ Written(s) /\ UNCHANGED <<jobs, elsewhere>>
  BY Goes, Writes, CopyFacts DEF ResumeFails, At, Run

LEMMA ResumeRunEffect ==
    ASSUME IInv, NEW s \in Slots, ResumeRun(s)
    PROVE  /\ leg[s].pc = "resume" /\ leg'[s].pc = "resumed" /\ SameLeg(s) /\ Others(s)
           /\ leg[s].at \in Steps /\ Template[leg[s].at] = "approval"
           /\ row'.status = "running" /\ row'.waiting = 0 /\ row'.results = Copy(s).results
           /\ Written(s) /\ UNCHANGED <<jobs, elsewhere>>
  <1>1. row' = [Reached(Copy(s), leg[s].at) EXCEPT !.status = "running"] /\ Written(s)
    BY Writes DEF ResumeRun
  <1>2. row'.status = "running" /\ row'.waiting = 0 /\ row'.results = Copy(s).results
    BY <1>1, CopiedReached, LegFacts
  <1> QED
    BY <1>1, <1>2, GoesOn DEF ResumeRun, At, Kind

\* The result a decision leaves.
DecisionOf(s) ==
    [step |-> leg[s].at, keyed |-> FALSE,
     status |-> IF NextAfter(leg[s].at, leg[s].verdict) = 0 THEN "failure" ELSE "success"]

LEMMA RecordDecisionEffect ==
    ASSUME IInv, NEW s \in Slots, RecordDecision(s)
    PROVE  LET next == NextAfter(leg[s].at, leg[s].verdict) IN
           /\ leg[s].pc = "resumed"
           /\ leg'[s].pc = IF next = 0 THEN "fail" ELSE "step"
           /\ leg'[s].at = IF next = 0 THEN leg[s].at ELSE next
           /\ leg'[s].job = leg[s].job /\ leg'[s].prior = leg[s].prior
           /\ leg'[s].results = Decided(leg[s].results, DecisionOf(s))
           /\ Others(s)
           /\ row'.status = Copy(s).status /\ row'.waiting = 0
           /\ row'.results = leg'[s].results
           /\ Written(s) /\ UNCHANGED <<jobs, elsewhere>>
  <1> DEFINE next == NextAfter(leg[s].at, leg[s].verdict)
             results == Decided(leg[s].results, DecisionOf(s))
             pc == IF next = 0 THEN "fail" ELSE "step"
             at == IF next = 0 THEN leg[s].at ELSE next
  <1>0. /\ At(s, "resumed")
        /\ Update(s, [Reached(Copy(s), leg[s].at) EXCEPT !.results = results])
        /\ Goto(s, [leg[s] EXCEPT !.pc = pc, !.at = at, !.results = results])
        /\ UNCHANGED <<jobs, elsewhere>>
    BY DEF RecordDecision, DecisionOf
  <1> HIDE DEF next, results, pc, at
  <1>1. leg'[s] = [leg[s] EXCEPT !.pc = pc, !.at = at, !.results = results] /\ Others(s)
    BY <1>0, Goes
  <1>2. row' = [Reached(Copy(s), leg[s].at) EXCEPT !.results = results] /\ Written(s)
    BY <1>0, Writes
  <1>3. row'.status = Copy(s).status /\ row'.waiting = 0 /\ row'.results = results
    BY <1>2, CopiedReached, LegFacts
  <1>4. /\ leg'[s].pc = pc /\ leg'[s].at = at /\ leg'[s].results = results
        /\ leg'[s].job = leg[s].job /\ leg'[s].prior = leg[s].prior
    BY <1>1, LegFacts DEF Leg
  <1> QED
    BY <1>0, <1>1, <1>2, <1>3, <1>4 DEF At, next, results, pc, at
----------------------------------------------------------------------------
(* What all steps of a slot have in common                                 *)

Acts(s) == Create(s) \/ Execute(s) \/ Step(s) \/ Resume(s)

\* How a leg may begin and end: anything else is a step of a busy slot.
SetsOff(s) == CreateRun(s) \/ ResumeSweep(s) \/ \E j \in JobId : Deliver(s, j)

\* Between two deliveries: neither idle nor about to return.
Busy(s) == leg[s].pc \notin {"idle", "return"}

\* Whatever a slot does, it does to its own leg and its own process.
LEMMA SlotFrame ==
    ASSUME IInv, NEW s \in Slots, Acts(s)
    PROVE  /\ Others(s)
           /\ \A q \in Processes \ {ProcOf[s]} : cache'[q] = cache[q]
           /\ Busy(s) \/ SetsOff(s) \/ Return(s)
           /\ leg'[s].job \in {leg[s].job, NoJob} \/ \E j \in JobId : Deliver(s, j)
  <1>0. Idle.job = NoJob
    BY IdleFacts
  <1>1. CASE Create(s)
    BY <1>0, <1>1, CreateRunEffect, EnqueueStartEffect, EnqueueStartFailsEffect
    DEF Create, Busy, SetsOff, Written, Unwritten
  <1>2. CASE Execute(s)
    <2>1. CASE \E j \in JobId : Deliver(s, j)
      BY <2>1, DeliverEffect DEF SetsOff, Unwritten
    <2>2. CASE SkipRun(s) \/ LoadRun(s) \/ StartFails(s) \/ StartRun(s)
      BY <2>2, SkipRunEffect, LoadRunEffect, StartFailsEffect, StartRunEffect
      DEF Busy, Unwritten, Written, SameLeg
    <2>3. CASE JobFails(s)
      <3>1. leg'[s] = Idle \/ leg'[s] = [Idle EXCEPT !.pc = "mark"]
        BY <2>3, Goes DEF JobFails
      <3>2. leg'[s].job = NoJob
        BY <1>0, <3>1 DEF Idle
      <3> QED
        BY <2>3, <3>2, Goes DEF JobFails, At, Busy
    <2>4. CASE MarkFailed(s) \/ Return(s)
      BY <1>0, <2>4, MarkFailedEffect, ReturnEffect DEF Busy, Unwritten
    <2> QED
      BY <1>2, <2>1, <2>2, <2>3, <2>4 DEF Execute
  <1>3. CASE Step(s)
    <2>1. CASE ReachStep(s) \/ BeginStep(s) \/ DeadlinePasses(s) \/ CompleteRun(s)
      BY <2>1, ReachStepEffect, BeginStepEffect, DeadlinePassesEffect, CompleteRunEffect
      DEF Busy, Written, SameLeg
    <2>2. CASE ReuseStep(s) \/ RunAction(s) \/ RunPure(s) \/ StepFails(s) \/ ReachWait(s)
      BY <2>2, ExecutedEffect
      DEF ReuseStep, RunAction, RunPure, StepFails, ReachWait, Busy, Unwritten
    <2>3. CASE ReachApproval(s) \/ CreateApproval(s) \/ StampApproval(s) \/ RecordStep(s)
      <3>1. CASE ReachApproval(s)
        BY <3>1, ReachApprovalEffect DEF Busy, Unwritten, Written, SameLeg
      <3>2. CASE CreateApproval(s)
        BY <3>2, CreateApprovalEffect DEF Busy, Unwritten, Written, SameLeg
      <3>3. CASE StampApproval(s)
        BY <3>3, StampApprovalEffect DEF Busy, Unwritten, Written, SameLeg
      <3>4. CASE RecordStep(s)
        BY <3>4, RecordStepEffect DEF Busy, Unwritten, Written, SameLeg
      <3> QED
        BY <2>3, <3>1, <3>2, <3>3, <3>4
    <2>4. CASE FailRun(s) \/ PauseRun(s) \/ EnqueueWait(s) \/ EnqueueWaitFails(s)
      BY <2>4, FailRunEffect, PauseRunEffect, EnqueueWaitEffect, EnqueueWaitFailsEffect
      DEF Busy, Unwritten, Written, SameLeg
    <2> QED
      BY <1>3, <2>1, <2>2, <2>3, <2>4 DEF Step
  <1>4. CASE Resume(s)
    BY <1>0, <1>4, ResumeSweepEffect, ResumeFailsEffect, ResumeRunEffect, RecordDecisionEffect
    DEF Resume, Busy, SetsOff, Unwritten, Written, SameLeg
  <1> QED
    BY <1>1, <1>2, <1>3, <1>4 DEF Acts

\* Which step leads where.
Arrives(s) ==
    /\ leg'[s].pc = "enqueue_start" => CreateRun(s)
    /\ leg'[s].pc = "load" => \E j \in JobId : Deliver(s, j)
    /\ leg'[s].pc = "start" => LoadRun(s)
    /\ leg'[s].pc = "throw" => StartFails(s) \/ EnqueueWaitFails(s)
    /\ leg'[s].pc = "mark" => JobFails(s)
    /\ leg'[s].pc = "step" => StartRun(s) \/ RecordStep(s) \/ RecordDecision(s)
    /\ leg'[s].pc = "begin" => ReachStep(s)
    /\ leg'[s].pc = "exec" => BeginStep(s)
    /\ leg'[s].pc = "park" => ReachApproval(s)
    /\ leg'[s].pc = "stamp" => CreateApproval(s)
    /\ leg'[s].pc = "record" =>
           \/ ReuseStep(s) \/ RunAction(s) \/ RunPure(s) \/ StepFails(s) \/ ReachWait(s)
           \/ StampApproval(s)
    /\ leg'[s].pc = "fail" => RecordStep(s) \/ RecordDecision(s)
    /\ leg'[s].pc \in {"pause", "hook"} => RecordStep(s)
    /\ leg'[s].pc = "enqueue" => PauseRun(s)
    /\ leg'[s].pc = "resume" => ResumeSweep(s)
    /\ leg'[s].pc = "resumed" => ResumeRun(s)

LEMMA Arrivals ==
    ASSUME IInv, NEW s \in Slots, Acts(s)
    PROVE  Arrives(s)
  <1>0. Idle.pc = "idle"
    BY IdleFacts
  <1>1. CASE Create(s)
    BY <1>0, <1>1, CreateRunEffect, EnqueueStartEffect, EnqueueStartFailsEffect
    DEF Create, Arrives
  <1>2. CASE Execute(s)
    <2>1. CASE \E j \in JobId : Deliver(s, j)
      BY <2>1, DeliverEffect DEF Arrives
    <2>2. CASE SkipRun(s) \/ LoadRun(s) \/ StartFails(s) \/ StartRun(s)
      BY <2>2, SkipRunEffect, LoadRunEffect, StartFailsEffect, StartRunEffect DEF Arrives
    <2>3. CASE JobFails(s)
      <3>1. leg'[s] = Idle \/ leg'[s] = [Idle EXCEPT !.pc = "mark"]
        BY <2>3, Goes DEF JobFails
      <3>2. leg'[s].pc \in {"idle", "mark"}
        BY <3>1 DEF Idle
      <3> QED
        BY <2>3, <3>2 DEF Arrives
    <2>4. CASE MarkFailed(s) \/ Return(s)
      BY <1>0, <2>4, MarkFailedEffect, ReturnEffect DEF Arrives
    <2> QED
      BY <1>2, <2>1, <2>2, <2>3, <2>4 DEF Execute
  <1>3. CASE Step(s)
    <2>1. CASE ReachStep(s) \/ BeginStep(s) \/ DeadlinePasses(s) \/ CompleteRun(s)
      BY <2>1, ReachStepEffect, BeginStepEffect, DeadlinePassesEffect, CompleteRunEffect
      DEF Arrives
    <2>2. CASE ReuseStep(s) \/ RunAction(s) \/ RunPure(s) \/ StepFails(s) \/ ReachWait(s)
      <3>1. leg'[s].pc = "record"
        BY <2>2, ExecutedEffect DEF ReuseStep, RunAction, RunPure, StepFails, ReachWait
      <3> QED
        BY <2>2, <3>1 DEF Arrives
    <2>3. CASE ReachApproval(s) \/ CreateApproval(s) \/ StampApproval(s)
      <3>1. CASE ReachApproval(s)
        BY <3>1, ReachApprovalEffect DEF Arrives
      <3>2. CASE CreateApproval(s)
        BY <3>2, CreateApprovalEffect DEF Arrives
      <3>3. CASE StampApproval(s)
        BY <3>3, StampApprovalEffect DEF Arrives
      <3> QED
        BY <2>3, <3>1, <3>2, <3>3
    <2>4. CASE RecordStep(s)
      <3>1. leg'[s].pc \in {"step", "fail", "pause", "hook", "return"}
        BY <2>4, LegFacts, RecordStepEffect DEF After
      <3> QED
        BY <2>4, <3>1 DEF Arrives
    <2>5. CASE FailRun(s) \/ PauseRun(s) \/ EnqueueWait(s) \/ EnqueueWaitFails(s)
      BY <2>5, FailRunEffect, PauseRunEffect, EnqueueWaitEffect, EnqueueWaitFailsEffect
      DEF Arrives
    <2> QED
      BY <1>3, <2>1, <2>2, <2>3, <2>4, <2>5 DEF Step
  <1>4. CASE Resume(s)
    BY <1>0, <1>4, ResumeSweepEffect, ResumeFailsEffect, ResumeRunEffect, RecordDecisionEffect
    DEF Resume, Arrives
  <1> QED
    BY <1>1, <1>2, <1>3, <1>4 DEF Acts

\* Which step leads from where.
Departs(s) ==
    /\ leg[s].pc = "idle" => SetsOff(s)
    /\ leg[s].pc = "enqueue_start" => EnqueueStart(s) \/ EnqueueStartFails(s)
    /\ leg[s].pc = "load" => SkipRun(s) \/ LoadRun(s)
    /\ leg[s].pc = "start" => StartRun(s) \/ StartFails(s)
    /\ leg[s].pc = "throw" => JobFails(s)
    /\ leg[s].pc = "mark" => MarkFailed(s)
    /\ leg[s].pc = "step" => ReachStep(s) \/ DeadlinePasses(s) \/ CompleteRun(s)
    /\ leg[s].pc = "begin" => BeginStep(s)
    /\ leg[s].pc = "exec" =>
           \/ ReuseStep(s) \/ RunAction(s) \/ RunPure(s) \/ StepFails(s) \/ ReachWait(s)
           \/ ReachApproval(s)
    /\ leg[s].pc = "park" => CreateApproval(s)
    /\ leg[s].pc = "stamp" => StampApproval(s)
    /\ leg[s].pc = "record" => RecordStep(s)
    /\ leg[s].pc = "fail" => FailRun(s)
    /\ leg[s].pc = "pause" => PauseRun(s)
    /\ leg[s].pc = "enqueue" => EnqueueWait(s) \/ EnqueueWaitFails(s)
    /\ leg[s].pc = "return" => Return(s)
    /\ leg[s].pc = "resume" => ResumeFails(s) \/ ResumeRun(s)
    /\ leg[s].pc = "resumed" => RecordDecision(s)

LEMMA Departures ==
    ASSUME NEW s \in Slots, Acts(s)
    PROVE  Departs(s)
  <1>1. CASE Create(s)
    BY <1>1 DEF Create, CreateRun, EnqueueStart, EnqueueStartFails, At, Departs, SetsOff
  <1>2. CASE Execute(s)
    <2>1. CASE \E j \in JobId : Deliver(s, j)
      <3>1. leg[s].pc = "idle"
        BY <2>1 DEF Deliver, At
      <3> QED
        BY <2>1, <3>1 DEF Departs, SetsOff
    <2>2. CASE SkipRun(s) \/ LoadRun(s) \/ StartFails(s) \/ StartRun(s)
      <3>1. \/ leg[s].pc = "load" /\ (SkipRun(s) \/ LoadRun(s))
            \/ leg[s].pc = "start" /\ (StartFails(s) \/ StartRun(s))
        BY <2>2 DEF SkipRun, LoadRun, StartFails, StartRun, At
      <3> QED
        BY <3>1 DEF Departs
    <2>3. CASE JobFails(s) \/ MarkFailed(s) \/ Return(s)
      <3>1. \/ leg[s].pc = "throw" /\ JobFails(s)
            \/ leg[s].pc = "mark" /\ MarkFailed(s)
            \/ leg[s].pc = "return" /\ Return(s)
        BY <2>3 DEF JobFails, MarkFailed, Return, At
      <3> QED
        BY <3>1 DEF Departs
    <2> QED
      BY <1>2, <2>1, <2>2, <2>3 DEF Execute
  <1>3. CASE Step(s)
    <2>1. CASE ReachStep(s) \/ BeginStep(s) \/ DeadlinePasses(s) \/ CompleteRun(s)
      <3>1. \/ leg[s].pc = "step" /\ (ReachStep(s) \/ DeadlinePasses(s) \/ CompleteRun(s))
            \/ leg[s].pc = "begin" /\ BeginStep(s)
        BY <2>1 DEF ReachStep, BeginStep, DeadlinePasses, CompleteRun, At
      <3> QED
        BY <3>1 DEF Departs
    <2>2. CASE \/ ReuseStep(s) \/ RunAction(s) \/ RunPure(s) \/ StepFails(s) \/ ReachWait(s)
               \/ ReachApproval(s)
      <3>1. leg[s].pc = "exec"
        BY <2>2 DEF ReuseStep, RunAction, RunPure, StepFails, ReachWait, ReachApproval, At
      <3> QED
        BY <2>2, <3>1 DEF Departs
    <2>3. CASE CreateApproval(s) \/ StampApproval(s) \/ RecordStep(s) \/ FailRun(s)
      <3>1. \/ leg[s].pc = "park" /\ CreateApproval(s)
            \/ leg[s].pc = "stamp" /\ StampApproval(s)
            \/ leg[s].pc = "record" /\ RecordStep(s)
            \/ leg[s].pc = "fail" /\ FailRun(s)
        BY <2>3 DEF CreateApproval, StampApproval, RecordStep, FailRun, At
      <3> QED
        BY <3>1 DEF Departs
    <2>4. CASE PauseRun(s) \/ EnqueueWait(s) \/ EnqueueWaitFails(s)
      <3>1. \/ leg[s].pc = "pause" /\ PauseRun(s)
            \/ leg[s].pc = "enqueue" /\ (EnqueueWait(s) \/ EnqueueWaitFails(s))
        BY <2>4 DEF PauseRun, EnqueueWait, EnqueueWaitFails, At
      <3> QED
        BY <3>1 DEF Departs
    <2> QED
      BY <1>3, <2>1, <2>2, <2>3, <2>4 DEF Step
  <1>4. CASE Resume(s)
    <2>1. \/ leg[s].pc = "idle" /\ ResumeSweep(s)
          \/ leg[s].pc = "resume" /\ (ResumeFails(s) \/ ResumeRun(s))
          \/ leg[s].pc = "resumed" /\ RecordDecision(s)
      BY <1>4 DEF Resume, ResumeSweep, ResumeFails, ResumeRun, RecordDecision, At
    <2> QED
      BY <2>1 DEF Departs, SetsOff
  <1> QED
    BY <1>1, <1>2, <1>3, <1>4 DEF Acts

LEMMA NoHook ==
    ASSUME NEW s \in Slots, Acts(s)
    PROVE  leg[s].pc # "hook"
  BY DEF Acts, Create, Execute, Step, Resume, CreateRun, EnqueueStart, EnqueueStartFails,
         Deliver, SkipRun, LoadRun, StartFails, JobFails, MarkFailed, Return, StartRun,
         ReachStep, BeginStep, DeadlinePasses, CompleteRun, ReuseStep, RunAction, RunPure,
         StepFails, ReachWait, ReachApproval, CreateApproval, StampApproval, RecordStep,
         FailRun, PauseRun, EnqueueWait, EnqueueWaitFails, ResumeSweep, ResumeFails,
         ResumeRun, RecordDecision, At

----------------------------------------------------------------------------
(* The story the results tell                                              *)

\* The first n results: each a success, from step 1, each followed by the next step or by
\* the one its approval sends the run back to.
StoryTo(r, n) ==
    /\ \A o \in 1..n : r[o].step \in Steps /\ r[o].status = "success"
    /\ n # 0 => r[1].step = 1
    /\ \A o \in 1..(n - 1) : r[o + 1].step \in {r[o].step + 1, ReviseFrom[r[o].step]}

\* The first n results lead to step at.
Leads(r, n, at) ==
    /\ StoryTo(r, n)
    /\ IF n = 0 THEN at = 1 ELSE at \in {r[n].step + 1, ReviseFrom[r[n].step]}

\* The results end with that of step at.
Ended(r, at) == StoryTo(r, Len(r)) /\ Len(r) # 0 /\ r[Len(r)].step = at

\* A leg's results lead to its step, with a placeholder for it or without, or end with it.
LegTells(s) ==
    LET r == leg[s].results IN
    /\ leg[s].pc \in {"start", "step", "begin"} => Leads(r, Len(r), leg[s].at)
    /\ leg[s].pc \in {"exec", "park", "stamp", "record"} =>
           Len(r) # 0 /\ Leads(r, Len(r) - 1, leg[s].at)
    /\ leg[s].pc \in {"pause", "enqueue", "resume", "resumed"} => Ended(r, leg[s].at)

LEMMA StoryBegins == Leads(<<>>, 0, 1) /\ Len(<<>>) = 0
  BY EmptySeq, LenProperties DEF Leads, StoryTo

\* The story is about the results up to n, whatever comes behind them.
LEMMA SameStory ==
    ASSUME NEW r, NEW q, NEW n \in Nat, \A o \in 1..n : q[o] = r[o]
    PROVE  /\ StoryTo(r, n) => StoryTo(q, n)
           /\ \A at : Leads(r, n, at) => Leads(q, n, at)
  <1>1. StoryTo(r, n) => StoryTo(q, n)
    <2>1. ASSUME NEW o \in 1..(n - 1)
          PROVE  o \in 1..n /\ o + 1 \in 1..n
      BY <2>1
    <2>2. n # 0 => 1 \in 1..n
      OBVIOUS
    <2> QED
      BY <2>1, <2>2 DEF StoryTo
  <1>2. n # 0 => n \in 1..n
    OBVIOUS
  <1> QED
    BY <1>1, <1>2 DEF Leads

\* One more result, of the step the story leads to.
LEMMA StoryGrows ==
    ASSUME NEW r, NEW n \in Nat, NEW at \in Steps, Leads(r, n, at),
           r[n + 1].step = at, r[n + 1].status = "success"
    PROVE  StoryTo(r, n + 1)
  <1>1. ASSUME NEW o \in 1..(n + 1)
        PROVE  r[o].step \in Steps /\ r[o].status = "success"
    <2>1. CASE o = n + 1
      BY <2>1
    <2>2. CASE o # n + 1
      <3>1. o \in 1..n
        BY <2>2
      <3> QED
        BY <3>1 DEF Leads, StoryTo
    <2> QED
      BY <2>1, <2>2
  <1>2. r[1].step = 1
    BY DEF Leads, StoryTo
  <1>3. ASSUME NEW o \in 1..((n + 1) - 1)
        PROVE  r[o + 1].step \in {r[o].step + 1, ReviseFrom[r[o].step]}
    <2>1. CASE o = n
      BY <2>1 DEF Leads
    <2>2. CASE o # n
      <3>1. o \in 1..(n - 1)
        BY <2>2
      <3> QED
        BY <3>1 DEF Leads, StoryTo
    <2> QED
      BY <2>1, <2>2
  <1> QED
    BY <1>1, <1>2, <1>3 DEF StoryTo

\* The last result may be written anew for the same step.
LEMMA StoryRewritten ==
    ASSUME NEW r, NEW q, NEW n \in Nat \ {0}, StoryTo(r, n),
           \A o \in 1..(n - 1) : q[o] = r[o],
           q[n].step = r[n].step, q[n].status = "success"
    PROVE  StoryTo(q, n)
  <1>1. \A o \in 1..n : q[o].step = r[o].step /\ q[o].status = "success"
    <2> SUFFICES ASSUME NEW o \in 1..n
                 PROVE  q[o].step = r[o].step /\ q[o].status = "success"
      OBVIOUS
    <2>1. CASE o = n
      BY <2>1
    <2>2. CASE o # n
      <3>1. o \in 1..(n - 1)
        BY <2>2
      <3> QED
        BY <3>1 DEF StoryTo
    <2> QED
      BY <2>1, <2>2
  <1>2. \A o \in 1..(n - 1) : o \in 1..n /\ o + 1 \in 1..n
    OBVIOUS
  <1>3. 1 \in 1..n
    OBVIOUS
  <1> QED
    BY <1>1, <1>2, <1>3 DEF StoryTo

\* A placeholder behind the story.
LEMMA StoryHeld ==
    ASSUME NEW r \in Seq(Result), NEW e \in Result, NEW at, Leads(r, Len(r), at)
    PROVE  LET q == Append(r, e) IN Len(q) # 0 /\ Leads(q, Len(q) - 1, at)
  <1>1. /\ Len(r) \in Nat /\ Len(Append(r, e)) = Len(r) + 1
        /\ \A o \in 1..Len(r) : Append(r, e)[o] = r[o]
    BY LenProperties, AppendProperties
  <1>2. Leads(Append(r, e), Len(r), at)
    BY <1>1, SameStory
  <1> QED
    BY <1>1, <1>2

\* The placeholder, the last result, becomes that of its step.
LEMMA StoryRecorded ==
    ASSUME NEW r \in Seq(Result), Len(r) # 0, NEW at \in Steps, Leads(r, Len(r) - 1, at),
           NEW e \in Result, e.step = at, e.status = "success"
    PROVE  Ended([r EXCEPT ![Len(r)] = e], at)
  <1> DEFINE q == [r EXCEPT ![Len(r)] = e]
             n == Len(r) - 1
  <1>1. /\ Len(r) \in Nat /\ n \in Nat /\ n + 1 = Len(r) /\ DOMAIN r = 1..Len(r)
        /\ Len(r) \in 1..Len(r)
    BY LenProperties
  <1>2. q[Len(r)] = e /\ Len(q) = Len(r) /\ \A o \in 1..n : q[o] = r[o]
    <2>1. q \in Seq(Result)
      BY <1>1, Replaced
    <2>2. Len(q) = Len(r)
      BY <1>1, <2>1, LenProperties
    <2> QED
      BY <1>1, <2>2
  <1> HIDE DEF q, n
  <1>3. Leads(q, n, at)
    BY <1>1, <1>2, SameStory DEF n
  <1>4. StoryTo(q, n + 1)
    BY <1>1, <1>2, <1>3, StoryGrows
  <1> QED
    BY <1>1, <1>2, <1>4 DEF Ended, q

\* What the story ends with leads on.
LEMMA EndLeads ==
    ASSUME NEW r, NEW at, Ended(r, at)
    PROVE  /\ Leads(r, Len(r), at + 1)
           /\ Leads(r, Len(r), ReviseFrom[at])
  BY DEF Ended, Leads

\* A story that leads past the last step is that of the whole template.
LEMMA StoryTold ==
    ASSUME NEW r \in Seq(Result), NEW at \in Nat, Leads(r, Len(r), at), at > Len(Template),
           Template # <<>>
    PROVE  /\ r # <<>> /\ r[1].step = 1 /\ r[Len(r)].step = Len(Template)
           /\ \A o \in DOMAIN r : r[o].status = "success"
           /\ \A o \in 1..(Len(r) - 1) :
                 r[o + 1].step \in {r[o].step + 1, ReviseFrom[r[o].step]}
  <1>1. Len(r) \in Nat /\ DOMAIN r = 1..Len(r) /\ Len(Template) # 0
    BY LenProperties, EmptySeq, RunAssumption
  <1>2. Len(r) # 0
    BY <1>1, TemplateFacts DEF Leads
  <1>3. r[Len(r)].step \in Steps
    BY <1>1, <1>2 DEF Leads, StoryTo
  <1>4. r[Len(r)].step = Len(Template)
    BY <1>2, <1>3, TemplateFacts DEF Leads
  <1>5. r # <<>>
    BY <1>2, EmptySeq, LenProperties
  <1> QED
    BY <1>1, <1>2, <1>4, <1>5 DEF Leads, StoryTo
\* A decided result takes the place of the parked step's, or follows the story's.
LEMMA StoryDecided ==
    ASSUME NEW r \in Seq(Result), NEW at \in Steps, Ended(r, at),
           NEW e \in Result, e.step = at, e.status = "success"
    PROVE  Ended(Decided(r, e), at)
  <1>1. Len(r) \in Nat \ {0} /\ DOMAIN r = 1..Len(r) /\ r # <<>>
    BY LenProperties, EmptySeq DEF Ended
  <1>2. Last(r).step = at
    BY DEF Ended, Last
  <1> DEFINE q == [r EXCEPT ![Len(r)] = e]
  <1>3. Decided(r, e) = q
    BY <1>1, <1>2 DEF Decided
  <1>4. q \in Seq(Result) /\ DOMAIN q = DOMAIN r
    BY <1>1, Replaced
  <1>5. Len(q) = Len(r)
    BY <1>1, <1>4, LenProperties
  <1>6. q[Len(r)] = e /\ \A o \in 1..(Len(r) - 1) : q[o] = r[o]
    BY <1>1
  <1> HIDE DEF q
  <1>7. StoryTo(q, Len(r))
    BY <1>1, <1>6, StoryRewritten DEF Ended
  <1> QED
    BY <1>1, <1>3, <1>5, <1>6, <1>7 DEF Ended

LEMMA RecordStory ==
    ASSUME IInv, NEW s \in Slots, RecordStep(s), LegTells(s), leg[s].outcome # "fail"
    PROVE  Ended(leg'[s].results, leg[s].at)
  <1> DEFINE e == [step |-> leg[s].at, keyed |-> TRUE, status |-> "success"]
  <1>1. leg[s].pc = "record" /\ leg[s].at \in Steps /\ leg[s].results \in Seq(Result)
    BY LegFacts, RecordStepEffect DEF Placed, OnStep
  <1>2. e \in Result /\ e.step = leg[s].at /\ e.status = "success"
    BY <1>1, TemplateFacts DEF Result
  <1>3. leg'[s].results = [leg[s].results EXCEPT ![Len(leg[s].results)] = e]
    BY RecordStepEffect DEF RecordedResults, Ordinal
  <1> HIDE DEF e
  <1> QED
    BY <1>1, <1>2, <1>3, StoryRecorded DEF LegTells

LEMMA DecisionStory ==
    ASSUME IInv, NEW s \in Slots, RecordDecision(s), LegTells(s), leg'[s].pc = "step"
    PROVE  Leads(leg'[s].results, Len(leg'[s].results), leg'[s].at)
  <1> DEFINE e == [step |-> leg[s].at, keyed |-> FALSE, status |-> "success"]
             next == NextAfter(leg[s].at, leg[s].verdict)
  <1>1. leg[s].pc = "resumed" /\ leg[s].at \in Steps /\ leg[s].results \in Seq(Result)
    BY LegFacts, RecordDecisionEffect DEF Placed, OnStep
  <1>2. e \in Result /\ e.step = leg[s].at /\ e.status = "success"
    BY <1>1, TemplateFacts DEF Result
  <1>3. next # 0 /\ leg'[s].at = next
    BY RecordDecisionEffect
  <1>4. next \in {leg[s].at + 1, ReviseFrom[leg[s].at]}
    BY <1>3 DEF NextAfter
  <1>5. leg'[s].results = Decided(leg[s].results, e)
    BY <1>3, RecordDecisionEffect DEF DecisionOf
  <1> HIDE DEF e, next
  <1>6. Ended(leg'[s].results, leg[s].at)
    BY <1>1, <1>2, <1>5, StoryDecided DEF LegTells
  <1> QED
    BY <1>3, <1>4, <1>6, EndLeads

\* A leg tells its story on, if what it took up from a copy does.
LEMMA LegStory ==
    ASSUME IInv, IInv', NEW s \in Slots, Acts(s), LegTells(s),
           LoadRun(s) => Leads(leg'[s].results, Len(leg'[s].results), leg'[s].at),
           ResumeSweep(s) => Ended(leg'[s].results, leg'[s].at)
    PROVE  LegTells(s)'
  <1>0. Arrives(s) /\ leg'[s] \in Leg
    BY Arrivals DEF IInv, LegsOK
  <1>1. CASE leg'[s].pc \in {"idle", "enqueue_start", "load", "return", "throw", "mark", "fail",
                             "hook"}
    BY <1>1 DEF LegTells
  <1>2. CASE leg'[s].pc \in {"start", "resume"}
    BY <1>0, <1>2 DEF LegTells, Arrives
  <1>3. CASE leg'[s].pc = "step"
    <2>1. CASE StartRun(s)
      BY <1>3, <2>1, StartRunEffect DEF LegTells, SameLeg
    <2>2. CASE RecordDecision(s)
      BY <1>3, <2>2, DecisionStory DEF LegTells
    <2>3. CASE RecordStep(s)
      <3>1. leg[s].outcome = "next" /\ leg'[s].at = leg[s].at + 1
        BY <1>3, <2>3, LegFacts, RecordStepEffect DEF After
      <3>2. Ended(leg'[s].results, leg[s].at)
        BY <2>3, <3>1, RecordStory
      <3> QED
        BY <1>3, <3>1, <3>2, EndLeads DEF LegTells
    <2> QED
      BY <1>0, <1>3, <2>1, <2>2, <2>3 DEF Arrives
  <1>4. CASE leg'[s].pc = "begin"
    BY <1>0, <1>4, ReachStepEffect DEF LegTells, SameLeg, Arrives
  <1>5. CASE leg'[s].pc = "exec"
    <2>1. BeginStep(s)
      BY <1>0, <1>5 DEF Arrives
    <2>2. Leads(leg[s].results, Len(leg[s].results), leg[s].at) /\ leg[s].results \in Seq(Result)
      BY <2>1, LegFacts, BeginStepEffect DEF LegTells
    <2>3. Placeholder(s) \in Result
      BY LegFacts DEF Placeholder, Result
    <2> QED
      BY <1>5, <2>1, <2>2, <2>3, BeginStepEffect, StoryHeld DEF LegTells
  <1>6. CASE leg'[s].pc \in {"park", "stamp", "record"}
    <2>1. /\ leg[s].pc \in {"exec", "park", "stamp"}
          /\ leg'[s].at = leg[s].at /\ leg'[s].results = leg[s].results
      <3>1. CASE ReachApproval(s) \/ CreateApproval(s)
        BY <3>1, ReachApprovalEffect, CreateApprovalEffect DEF SameLeg
      <3>2. CASE StampApproval(s)
        BY <3>2, StampApprovalEffect
      <3> QED
        BY <1>0, <1>6, <3>1, <3>2, ExecutedEffect
        DEF Arrives, ReuseStep, RunAction, RunPure, StepFails, ReachWait
    <2> QED
      BY <1>6, <2>1 DEF LegTells
  <1>7. CASE leg'[s].pc = "pause"
    <2>1. RecordStep(s)
      BY <1>0, <1>7 DEF Arrives
    <2>2. leg[s].outcome # "fail" /\ leg'[s].at = leg[s].at
      BY <1>7, <2>1, LegFacts, RecordStepEffect DEF After
    <2> QED
      BY <1>7, <2>1, <2>2, RecordStory DEF LegTells
  <1>8. CASE leg'[s].pc \in {"enqueue", "resumed"}
    BY <1>0, <1>8, PauseRunEffect, ResumeRunEffect DEF LegTells, SameLeg, Arrives
  <1> QED
    BY <1>0, <1>1, <1>2, <1>3, <1>4, <1>5, <1>6, <1>7, <1>8 DEF Leg

\* Who may say that the run is completed.
LEMMA Completing ==
    ASSUME IInv, NEW s \in Slots, Acts(s), row'.status = "completed"
    PROVE  \/ row' = row
           \/ CompleteRun(s)
           \/ /\ leg[s].pc \in {"step", "begin", "stamp", "record", "resumed"}
              /\ Copy(s).status = "completed"
  <1>1. CASE leg[s].pc = "idle"
    BY <1>1, Departures, DeliverEffect, ResumeSweepEffect, CreateRunEffect
    DEF Departs, SetsOff, Unwritten
  <1>2. CASE leg[s].pc \in {"enqueue_start", "load", "start", "throw", "mark"}
    <2>1. JobFails(s) => Unwritten
      BY DEF JobFails, Unwritten
    <2> QED
      BY <1>2, <2>1, Departures, EnqueueStartEffect, EnqueueStartFailsEffect,
         SkipRunEffect, LoadRunEffect, StartRunEffect, StartFailsEffect, MarkFailedEffect
      DEF Departs, Unwritten
  <1>3. CASE leg[s].pc \in {"fail", "pause", "enqueue", "return"}
    BY <1>3, Departures, FailRunEffect, PauseRunEffect, EnqueueWaitEffect,
       EnqueueWaitFailsEffect, ReturnEffect DEF Departs, Unwritten
  <1>4. CASE leg[s].pc \in {"step", "begin"}
    BY <1>4, Departures, ReachStepEffect, DeadlinePassesEffect, BeginStepEffect DEF Departs
  <1>5. CASE leg[s].pc \in {"exec", "park"}
    <2>1. ReachApproval(s) \/ Unwritten
      BY <1>5, Departures, CreateApprovalEffect
      DEF Departs, ReuseStep, RunAction, RunPure, StepFails, ReachWait, Executed, Unwritten
    <2> QED
      BY <1>5, <2>1, ReachApprovalEffect DEF Unwritten
  <1>6. CASE leg[s].pc \in {"stamp", "record"}
    BY <1>6, Departures, StampApprovalEffect, RecordStepEffect DEF Departs
  <1>7. CASE leg[s].pc \in {"resume", "resumed"}
    BY <1>7, Departures, ResumeFailsEffect, ResumeRunEffect, RecordDecisionEffect DEF Departs
  <1> QED
    BY <1>1, <1>2, <1>3, <1>4, <1>5, <1>6, <1>7, NoHook, LegFacts DEF Leg

\* A run that a leg completes has its whole story.
LEMMA CompletedStory ==
    ASSUME IInv, NEW s \in Slots, CompleteRun(s), LegTells(s), Template # <<>>
    PROVE  ResultsComplete'
  <1>1. /\ leg[s].results \in Seq(Result) /\ leg[s].at \in Nat /\ leg[s].at > Len(Template)
        /\ Leads(leg[s].results, Len(leg[s].results), leg[s].at)
        /\ row'.results = leg[s].results
    BY LegFacts, CompleteRunEffect DEF LegTells
  <1> QED
    BY <1>1, StoryTold DEF ResultsComplete
=============================================================================
