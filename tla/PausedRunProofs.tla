--------------------------- MODULE PausedRunProofs ---------------------------
(***************************************************************************)
(* What the copies of a run that pauses, parks and is sent back are worth  *)
(* while no process crashes.  The results of a completed run tell its      *)
(* whole story, though each leg takes them over from a copy that another   *)
(* process wrote; no copy lets a decision resume the run a second time.    *)
(***************************************************************************)
EXTENDS CalmExecutionProofs

----------------------------------------------------------------------------
(* The results a leg takes over                                            *)

\* The results of a paused run end with its wait.
PausedAtWait(r) == \E i \in Steps : Template[i] = "wait" /\ Leads(r, Len(r), i + 1)

\* A leg that has queued the run has written its results; one that parks it, its step.
LegWrote(s) ==
    /\ leg[s].pc = "enqueue" => row.results = leg[s].results
    /\ leg[s].pc = "record" /\ leg[s].outcome = "park" => row.at = leg[s].at

\* A parked run ends with its approval, unless a leg has still to record it.
ParkTold(run, slots) ==
    run.status = "awaiting_approval" /\ run.waiting # 0 =>
        Ended(run.results, run.at) \/ \E s \in slots : leg[s].pc = "record"

\* A queued run is as it was created or as a wait has left it; to a worker, the latter.
QueueTold ==
    /\ row.status = "queued" =>
           \/ PausedAtWait(row.results)
           \/ \A j \in JobId : j.kind = "wait" => jobs[j].state = "absent"
    /\ \A w \in Workers : cache[w].status = "queued" => PausedAtWait(cache[w].results)

WInv ==
    /\ \A s \in Slots : LegTells(s) /\ LegWrote(s)
    /\ ParkTold(row, Slots) /\ \A p \in Processes : ParkTold(cache[p], SlotsOf(p))
    /\ QueueTold
    /\ ResultsComplete

\* The template has a step, and one wait at most.
Told == TimelyHolds /\ OneWait /\ Template # <<>> /\ WInv

----------------------------------------------------------------------------
(* What a leg takes up                                                     *)

LEMMA WaitStory ==
    ASSUME Told, NEW s \in Slots, LoadRun(s)
    PROVE  Leads(leg'[s].results, Len(leg'[s].results), leg'[s].at)
  <1>0. /\ IInv /\ PhaseOK(s) /\ Copy(s).status = "queued" /\ leg[s].pc = "load"
        /\ ProcOf[s] \in Workers
    BY PhaseFacts, LoadRunEffect DEF Told, TimelyHolds, PhaseOK
  <1>1. leg[s].job \in JobId /\ jobs[leg[s].job].state = "active"
    BY <1>0, LegFacts DEF PhaseOK, Leg, IInv, JobsOK, Held
  <1>2. CASE leg[s].job.kind = "wait"
    <2>1. PausedAtWait(Copy(s).results)
      BY <1>0, <1>1, <1>2 DEF Told, WInv, QueueTold, Copy, Current
    <2>2. PICK i \in Steps :
              Template[i] = "wait" /\ Leads(Copy(s).results, Len(Copy(s).results), i + 1)
      BY <2>1 DEF PausedAtWait
    <2>3. leg[s].job.n - 1 \in Steps /\ leg[s].job.n \in Nat /\ leg[s].job.n > 1
      BY <1>1, <1>2, TemplateFacts DEF JobId
    <2>4. Template[leg[s].job.n - 1] = "wait"
      BY <1>1, <1>2 DEF Told, TimelyHolds, TInv, JobsInStep
    <2>5. leg[s].job.n = i + 1
      BY <2>2, <2>3, <2>4, TemplateFacts DEF Told, OneWait
    <2>6. leg'[s].results = Copy(s).results /\ leg'[s].at = leg[s].job.n
      BY <1>0, <1>2, <2>3, LoadRunEffect
    <2> QED
      BY <2>2, <2>5, <2>6
  <1>3. CASE leg[s].job.kind # "wait"
    <2>1. leg[s].job.kind # "hook"
      BY <1>1 DEF Told, TimelyHolds, Holds, BInv, NoCrash
    <2>2. leg'[s].results = <<>> /\ leg'[s].at = 1
      BY <1>0, <1>3, <2>1, LoadRunEffect
    <2> QED
      BY <2>2, StoryBegins
  <1> QED
    BY <1>2, <1>3

LEMMA SweepStory ==
    ASSUME Told, NEW s \in Slots, ResumeSweep(s)
    PROVE  Ended(leg'[s].results, leg'[s].at)
  <1>0. /\ IInv /\ Copy(s).status = "awaiting_approval"
        /\ leg'[s].at = Copy(s).at /\ leg'[s].results = Copy(s).results
    BY PhaseFacts, ResumeSweepEffect DEF Told, TimelyHolds
  <1>1. \A t \in Slots : leg[t].pc # "record"
    BY SweepAlone DEF Told, TimelyHolds, Busy
  <1>2. Copy(s).waiting # 0
    BY SweepGated DEF Told, TimelyHolds
  <1>3. ParkTold(Copy(s), Slots)
    BY ProcOfIsProcess DEF Told, WInv, ParkTold, Copy, Current, SlotsOf
  <1> QED
    BY <1>0, <1>1, <1>2, <1>3 DEF ParkTold

----------------------------------------------------------------------------
(* A step of a slot                                                        *)

LEMMA SlotLegs ==
    ASSUME Told, IInv', NEW s \in Slots, Acts(s)
    PROVE  \A t \in Slots : LegTells(t)' /\ LegWrote(t)'
  <1>0. /\ IInv /\ PhaseOK(s) /\ Others(s) /\ Arrives(s) /\ LegTells(s)
        /\ UpToDate(s) => Copy(s) = row
    BY PhaseFacts, SlotFrame, Arrivals DEF Told, TimelyHolds, WInv
  <1>1. LegTells(s)'
    BY <1>0, WaitStory, SweepStory, LegStory
  <1>2. LegWrote(s)'
    <2>1. leg'[s].pc = "enqueue" => row'.results = leg'[s].results
      BY <1>0, PauseRunEffect DEF Arrives, SameLeg
    <2>2. ASSUME leg'[s].pc = "record", leg'[s].outcome = "park"
          PROVE  row'.at = leg'[s].at
      <3>1. StampApproval(s)
        BY <1>0, <2>2, ExecutedEffect
        DEF Arrives, ReuseStep, RunAction, RunPure, StepFails, ReachWait
      <3> QED
        BY <1>0, <3>1, StampApprovalEffect
    <2> QED
      BY <2>1, <2>2 DEF LegWrote
  <1>3. ASSUME NEW t \in Slots, t # s
        PROVE  LegTells(t)' /\ LegWrote(t)'
    <2>1. leg'[t] = leg[t] /\ LegTells(t) /\ LegWrote(t)
      BY <1>0, <1>3 DEF Others, Told, WInv
    <2>2. CASE Busy(t)
      <3>1. Return(s)
        BY <1>0, <1>3, <2>2, SlotFrame, BusyAlone, BeginsAlone DEF Told, TimelyHolds
      <3> QED
        BY <1>0, <2>1, <3>1, ReturnEffect DEF LegTells, LegWrote, Unwritten
    <2>3. CASE ~Busy(t)
      BY <2>1, <2>3 DEF LegTells, LegWrote, Busy
    <2> QED
      BY <2>2, <2>3
  <1> QED
    BY <1>1, <1>2, <1>3

\* A parked run's results end with its approval once the leg that parked it has recorded it.
LEMMA ParkRecorded ==
    ASSUME Told, NEW s \in Slots, RecordStep(s), row.status = "awaiting_approval",
           row'.at = row.at
    PROVE  Ended(row'.results, row'.at)
  <1>0. IInv /\ PhaseOK(s) /\ leg[s].pc = "record" /\ LegTells(s) /\ LegWrote(s)
    BY PhaseFacts, RecordStepEffect DEF Told, TimelyHolds, WInv
  <1>1. leg[s].outcome = "park"
    BY <1>0 DEF PhaseOK, Drives
  <1>2. row.at = leg[s].at
    BY <1>0, <1>1 DEF LegWrote
  <1> QED
    BY <1>0, <1>1, <1>2, RecordStory, RecordStepEffect

LEMMA SlotParks ==
    ASSUME Told, IInv', NEW s \in Slots, Acts(s)
    PROVE  /\ ParkTold(row, Slots)'
           /\ \A p \in Processes : ParkTold(cache[p], SlotsOf(p))'
  <1>0. IInv /\ PhaseOK(s) /\ Others(s) /\ Holds /\ ProcOf[s] \in Processes
    BY PhaseFacts, SlotFrame, ProcOfIsProcess DEF Told, TimelyHolds
  <1>1. ASSUME NEW run, NEW slots, ParkTold(run, slots), slots \subseteq Slots,
               RecordStep(s) => s \notin slots
        PROVE  ParkTold(run, slots)'
    <2>1. ASSUME NEW t \in slots, leg[t].pc = "record"
          PROVE  leg'[t].pc = "record"
      <3>1. CASE t = s
        <4>1. RecordStep(s)
          BY <2>1, <3>1, Departures DEF Departs
        <4> QED
          BY <1>1, <2>1, <3>1, <4>1
      <3>2. CASE t # s
        BY <1>0, <1>1, <2>1, <3>2 DEF Others
      <3> QED
        BY <3>1, <3>2
    <2> QED
      BY <1>1, <2>1 DEF ParkTold
  <1>2. ASSUME NEW slots, s \in slots, ~Unwritten \/ RecordStep(s),
               row'.status = "awaiting_approval", row'.waiting # 0
        PROVE  Ended(row'.results, row'.at) \/ \E t \in slots : leg'[t].pc = "record"
    <2>1. CASE StampApproval(s)
      BY <1>0, <1>2, <2>1, StampApprovalEffect
    <2>2. CASE RecordStep(s)
      <3>1. row.status = "awaiting_approval" /\ row'.at = row.at
        <4>1. row'.status = Copy(s).status /\ row'.at = Copy(s).at /\ leg[s].pc = "record"
          BY <1>0, <2>2, RecordStepEffect
        <4>2. UpToDate(s)
          BY <1>0, <4>1 DEF PhaseOK, Drives
        <4> QED
          BY <1>2, <4>1, <4>2, CopyIsRow
      <3> QED
        BY <2>2, <3>1, ParkRecorded
    <2> QED
      BY <1>0, <1>2, <2>1, <2>2, Parking
  <1>3. ParkTold(row, Slots)'
    <2>1. CASE Unwritten /\ ~RecordStep(s)
      BY <1>1, <2>1 DEF Told, WInv, Unwritten, ParkTold
    <2>2. CASE ~Unwritten \/ RecordStep(s)
      BY <1>2, <2>2 DEF ParkTold
    <2> QED
      BY <2>1, <2>2
  <1>4. ASSUME NEW p \in Processes
        PROVE  ParkTold(cache[p], SlotsOf(p))'
    <2>0. ParkTold(cache[p], SlotsOf(p)) /\ SlotsOf(p) \subseteq Slots
      BY DEF Told, WInv, SlotsOf
    <2>1. CASE cache'[p] = cache[p] /\ (RecordStep(s) => s \notin SlotsOf(p))
      BY <1>1, <2>0, <2>1 DEF ParkTold, SlotsOf
    <2>2. CASE p = ProcOf[s] /\ (~Unwritten \/ RecordStep(s))
      <3>1. cache'[p] = row' \/ cache'[p].status # "awaiting_approval"
        <4>1. CASE MarkFailed(s)
          BY <1>0, <2>2, <4>1, MarkFailedEffect DEF NoRun
        <4>2. CASE ~MarkFailed(s)
          BY <1>0, <2>2, <4>2, Writers, RecordStepEffect DEF Written
        <4> QED
          BY <4>1, <4>2
      <3>2. s \in SlotsOf(p)
        BY <2>2 DEF SlotsOf
      <3> QED
        BY <1>2, <2>2, <3>1, <3>2 DEF ParkTold, SlotsOf
    <2> QED
      BY <1>0, <2>1, <2>2, SlotFrame DEF Unwritten, SlotsOf
  <1> QED
    BY <1>3, <1>4

LEMMA SlotQueues ==
    ASSUME Told, IInv', NEW s \in Slots, Acts(s)
    PROVE  QueueTold'
  <1>0. IInv /\ PhaseOK(s) /\ Holds /\ GInv /\ LegTells(s) /\ LegWrote(s)
    BY PhaseFacts DEF Told, TimelyHolds, WInv
  <1>1. CASE CreateRun(s)
    <2>1. \A j \in JobId : jobs'[j].state = "absent"
      <3>1. row.status = "none" /\ jobs' = jobs
        BY <1>0, <1>1, CreateRunEffect DEF NoRun
      <3> QED
        BY <1>0, <3>1 DEF Holds, BInv, LegsFit, Unbegun
    <2>2. \A w \in Workers : cache'[w] = cache[w]
      <3>1. ProcOf[s] \notin Workers
        BY <1>0, <1>1, CreateRunEffect, RunAssumption
      <3> QED
        BY <1>0, <1>1, <3>1, CreateRunEffect DEF Written, Processes
    <2> QED
      BY <2>1, <2>2 DEF Told, WInv, QueueTold
  <1>2. CASE PauseRun(s)
    <2>1. PausedAtWait(row'.results)
      <3>1. leg[s].pc = "pause" /\ row'.results = leg[s].results
        BY <1>0, <1>2, PauseRunEffect
      <3>2. Template[leg[s].at] = "wait" /\ leg[s].at \in Steps /\ Ended(leg[s].results, leg[s].at)
        BY <1>0, <3>1, LegFacts DEF GInv, LegGated, Busy, LegTells, Placed, OnStep
      <3> QED
        BY <3>1, <3>2, EndLeads DEF PausedAtWait
    <2> QED
      BY <1>0, <1>2, <2>1, PauseRunEffect DEF Written, Told, WInv, QueueTold, Processes
  <1>3. CASE EnqueueWait(s)
    <2>1. leg[s].pc = "enqueue" /\ Unwritten /\ row.results = leg[s].results
      BY <1>0, <1>3, EnqueueWaitEffect DEF LegWrote
    <2>2. Template[leg[s].at] = "wait" /\ leg[s].at \in Steps /\ Ended(leg[s].results, leg[s].at)
      BY <1>0, <2>1, LegFacts DEF GInv, LegGated, Busy, LegTells, Placed, OnStep
    <2>3. PausedAtWait(row'.results)
      BY <2>1, <2>2, EndLeads DEF PausedAtWait, Unwritten
    <2> QED
      BY <2>1, <2>3 DEF Told, WInv, QueueTold, Unwritten
  <1>4. CASE Unwritten /\ ~EnqueueWait(s)
    <2>1. ASSUME NEW j \in JobId, j.kind = "wait", jobs[j].state = "absent"
          PROVE  jobs'[j].state = "absent"
      <3>1. leg[s].job # j
        BY <1>0, <2>1, JobFacts DEF IInv, JobsOK, Held
      <3> QED
        BY <1>0, <1>4, <2>1, <3>1, JobMoves, DeliverEffect DEF StartJob
    <2> QED
      BY <1>4, <2>1 DEF Told, WInv, QueueTold, Unwritten
  <1>5. CASE row'.status # "queued" /\ cache'[ProcOf[s]].status # "queued"
    BY <1>0, <1>5, SlotFrame DEF Told, WInv, QueueTold, Processes
  <1> QED
    BY <1>0, <1>1, <1>2, <1>3, <1>4, <1>5, Queues

LEMMA SlotCompletes ==
    ASSUME Told, NEW s \in Slots, Acts(s)
    PROVE  ResultsComplete'
  <1>0. IInv /\ PhaseOK(s) /\ LegTells(s) /\ (UpToDate(s) => Copy(s) = row) /\ leg[s] \in Leg
    BY PhaseFacts, LegFacts DEF Told, TimelyHolds, WInv
  <1>1. CASE row'.status # "completed"
    BY <1>1 DEF ResultsComplete
  <1>2. CASE row' = row
    BY <1>2 DEF Told, WInv, ResultsComplete
  <1>3. CASE CompleteRun(s)
    BY <1>0, <1>3, CompletedStory DEF Told
  <1>4. CASE /\ leg[s].pc \in {"step", "begin", "stamp", "record", "resumed"}
             /\ Copy(s).status = "completed"
    BY <1>0, <1>4 DEF PhaseOK, Drives, Parks
  <1> QED
    BY <1>0, <1>1, <1>2, <1>3, <1>4, Completing

LEMMA NextWInv == Told /\ IInv' /\ [Next]_vars => WInv'
  <1> SUFFICES ASSUME Told, IInv', [Next]_vars PROVE WInv'
    OBVIOUS
  <1>1. CASE \E s \in Slots : Acts(s)
    BY <1>1, SlotLegs, SlotParks, SlotQueues, SlotCompletes DEF WInv
  <1>2. CASE UNCHANGED <<row, cache, jobs, leg>>
    BY <1>2 DEF Told, WInv, LegTells, LegWrote, ParkTold, SlotsOf, QueueTold, ResultsComplete
  <1> QED
    BY <1>1, <1>2, StepsAreActs, ApproveFrames DEF Told, TimelyHolds, vars

\* Whatever a leg takes over from a copy, of the row or of its process, tells the story up
\* to where it goes on.
THEOREM StoryInvariance == Spec /\ Calm /\ OneWait /\ Template # <<>> => []Told
  <1>1. Init /\ TimelyHolds /\ OneWait /\ Template # <<>> => Told
    <2> SUFFICES ASSUME Init PROVE WInv
      BY DEF Told
    <2>1. \A s \in Slots : leg[s].pc = "idle"
      BY IdleFacts DEF Init
    <2> QED
      BY <2>1
      DEF Init, WInv, LegTells, LegWrote, ParkTold, QueueTold, ResultsComplete, NoRun, Processes
  <1>2. Told /\ TimelyHolds' /\ [Next]_vars => Told'
    BY NextWInv DEF Told, OneWait, TimelyHolds, Holds
  <1>3. OneWait => FewWaits
    BY DEF FewWaits
  <1> QED
    BY <1>1, <1>2, <1>3, TimelyInvariance, PTL DEF Spec

\* A completed run's results tell its whole story, though it was paused, parked and sent
\* back, and each leg took the results over from a copy that another process wrote.
THEOREM ResultsCompleteWithPauses == Spec /\ Calm /\ OneWait /\ Template # <<>> => []ResultsComplete
  <1>1. Told => ResultsComplete
    BY DEF Told, WInv
  <1> QED
    BY <1>1, StoryInvariance, PTL

----------------------------------------------------------------------------
(* A decision resumes the run once                                         *)

\* With a third API process, the copy that the one of an earlier resumption keeps would let
\* it resume the run for that approval again.
TwoApis == \A a, b, c \in Apis : a = b \/ b = c \/ a = c

\* The process that created the run, or has failed to resume it, will not resume it.
Aloof(p) ==
    /\ cache[p].status \in {"queued", "failed"}
    /\ \A s \in SlotsOf(p) : Busy(s) => leg[s].pc = "enqueue_start"

\* Another that knows the run as parked knows what the row says.
ApisFit ==
    /\ row.status # "none" => \E p \in Apis : Aloof(p)
    /\ \A p \in Apis :
           cache[p].status = "awaiting_approval" =>
               cache[p] = row /\ \A s \in Slots : Busy(s) => ProcOf[s] = p

\* No request that is still to be stamped has resumed the run, and one the parked run waits
\* for only if the leg it resumed has not written yet.
ResumedFits ==
    /\ resumed \subseteq 1..Len(approvals)
    /\ \A s \in Slots : leg[s].pc = "stamp" => leg[s].approval \notin resumed
    /\ row.status = "awaiting_approval" /\ row.waiting \in resumed =>
           \E s \in Slots : leg[s].pc = "resume"

Resumable == Holds /\ FInv /\ GInv /\ TwoApis /\ ApisFit /\ ResumedFits

LEMMA SlotHistory ==
    ASSUME NEW s \in Slots, Acts(s)
    PROVE  /\ resumed' = resumed \/ ResumeSweep(s)
           /\ recorded' = recorded \/ RecordStep(s)
  BY DEF Acts, Create, Execute, Step, Resume, CreateRun, EnqueueStart, EnqueueStartFails,
         Deliver, SkipRun, LoadRun, StartFails, JobFails, MarkFailed, Return, StartRun,
         ReachStep, BeginStep, DeadlinePasses, CompleteRun, Executed,
         ReuseStep, RunAction, RunPure, StepFails, ReachWait, ReachApproval, CreateApproval,
         StampApproval, RecordStep, FailRun, PauseRun, EnqueueWait,
         EnqueueWaitFails, ResumeSweep, ResumeFails, ResumeRun, RecordDecision,
         elsewhere, history

LEMMA SweepFresh ==
    ASSUME Resumable, NEW s \in Slots, ResumeSweep(s)
    PROVE  Copy(s) = row
  BY PhaseFacts, ResumeSweepEffect DEF Resumable, ApisFit, Copy, Current, Processes

LEMMA AloofKeeps ==
    ASSUME Resumable, NEW s \in Slots, Acts(s), NEW p \in Apis, Aloof(p), row.status # "none"
    PROVE  Aloof(p)'
  <1>0. IInv /\ PhaseOK(s) /\ p \in Processes /\ Others(s)
        /\ \A q \in Processes \ {ProcOf[s]} : cache'[q] = cache[q]
    BY PhaseFacts, SlotFrame DEF Resumable, Processes
  <1>1. CASE ProcOf[s] # p
    BY <1>0, <1>1 DEF Aloof, SlotsOf, Others, Busy
  <1>2. CASE ProcOf[s] = p
    <2>1. \/ EnqueueStart(s) \/ EnqueueStartFails(s) \/ Return(s)
      <3>1. ~SetsOff(s)
        <4>1. ~CreateRun(s)
          BY <1>0, CreateRunEffect DEF NoRun
        <4>2. \A j \in JobId : ~Deliver(s, j)
          BY <1>0, <1>2, DeliverEffect, RunAssumption
        <4>3. ~ResumeSweep(s)
          BY <1>0, <1>2, ResumeSweepEffect DEF Aloof, Copy, Current, NoRun
        <4> QED
          BY <4>1, <4>2, <4>3 DEF SetsOff
      <3>2. leg[s].pc \in {"idle", "return", "enqueue_start"}
        BY <1>2 DEF Aloof, SlotsOf, Busy
      <3> QED
        BY <3>1, <3>2, Departures DEF Departs
    <2>2. leg'[s].pc = "idle" /\ cache'[p].status \in {"queued", "failed"}
      BY <1>0, <1>2, <2>1, EnqueueStartEffect, EnqueueStartFailsEffect, ReturnEffect, IdleFacts
      DEF Aloof, Unwritten, Written
    <2> QED
      BY <1>0, <1>2, <2>2 DEF Aloof, SlotsOf, Others, Busy
  <1> QED
    BY <1>1, <1>2

LEMMA SlotApis ==
    ASSUME Resumable, NEW s \in Slots, Acts(s)
    PROVE  ApisFit'
  <1>0. IInv /\ PhaseOK(s) /\ Others(s) /\ Holds
        /\ \A q \in Processes \ {ProcOf[s]} : cache'[q] = cache[q]
    BY PhaseFacts, SlotFrame DEF Resumable
  <1>1. row'.status # "none" => \E p \in Apis : Aloof(p)'
    <2>1. CASE row.status # "none"
      BY <2>1, AloofKeeps DEF Resumable, ApisFit
    <2>2. CASE row.status = "none"
      <3>1. \A t \in Slots : leg[t].pc = "idle"
        BY <1>0, <2>2 DEF Holds, BInv, LegsFit, Unbegun
      <3>2. CreateRun(s) \/ Unwritten
        BY <1>0, <3>1, Departures, DeliverEffect, ResumeSweepEffect DEF Departs, SetsOff
      <3>3. CASE CreateRun(s)
        BY <1>0, <3>1, <3>3, CreateRunEffect DEF Written, Aloof, SlotsOf, Others, Busy
      <3>4. CASE Unwritten
        BY <2>2, <3>4 DEF Unwritten
      <3> QED
        BY <3>2, <3>3, <3>4
    <2> QED
      BY <2>1, <2>2
  <1>2. ASSUME NEW p \in Apis, cache'[p].status = "awaiting_approval"
        PROVE  cache'[p] = row' /\ \A t \in Slots : Busy(t)' => ProcOf[t] = p
    <2>0. p \in Processes
      BY DEF Processes
    <2>1. CASE Return(s)
      BY <1>0, <1>2, <2>1, ReturnEffect, IdleFacts DEF Resumable, ApisFit, Unwritten, Others, Busy
    <2>2. CASE ProcOf[s] = p /\ ~Return(s)
      <3>1. ~MarkFailed(s)
        BY <1>0, <1>2, <2>2, MarkFailedEffect DEF NoRun
      <3>2. cache'[p] = row'
        <4>1. Unwritten \/ Written(s)
          BY <1>0, <3>1, Writers
        <4> QED
          BY <1>2, <2>2, <4>1 DEF Unwritten, Written, Resumable, ApisFit
      <3>3. \A t \in Slots \ {s} : ~Busy(t)'
        <4>1. \A t \in Slots \ {s} : ~Busy(t)
          BY <1>0, <2>2, SlotFrame, BusyAlone, BeginsAlone
        <4> QED
          BY <1>0, <4>1 DEF Others, Busy
      <3> QED
        BY <2>2, <3>2, <3>3
    <2>3. CASE ProcOf[s] # p /\ ~Return(s)
      <3>1. cache[p].status = "awaiting_approval" /\ cache[p] = row
            /\ \A t \in Slots : Busy(t) => ProcOf[t] = p
        BY <1>0, <1>2, <2>0, <2>3 DEF Resumable, ApisFit
      <3>2. SetsOff(s)
        BY <1>0, <2>3, <3>1, SlotFrame
      <3>3. ResumeSweep(s)
        BY <1>0, <3>1, <3>2, CreateRunEffect, DeliverEffect
        DEF SetsOff, NoRun, Holds, BInv, ReadyAlone, NoCrash
      <3>4. PICK q \in Apis : Aloof(q)
        BY <3>1 DEF Resumable, ApisFit
      <3>5. ProcOf[s] \in Apis /\ q # p /\ q # ProcOf[s]
        BY <1>0, <3>1, <3>3, <3>4, ResumeSweepEffect DEF Aloof, Copy, Current, NoRun
      <3> QED
        BY <2>3, <3>4, <3>5 DEF Resumable, TwoApis
    <2> QED
      BY <2>1, <2>2, <2>3
  <1> QED
    BY <1>1, <1>2 DEF ApisFit

LEMMA SlotResumes ==
    ASSUME Resumable, NEW s \in Slots, Acts(s)
    PROVE  ResumedFits'
  <1>0. IInv /\ PhaseOK(s) /\ Others(s) /\ Holds /\ GInv
    BY PhaseFacts, SlotFrame DEF Resumable
  <1>1. CASE ResumeSweep(s)
    <2>1. \A t \in Slots : leg[t].pc # "stamp"
      BY <1>0, <1>1, SweepAlone DEF Busy
    <2>2. /\ leg'[s].pc = "resume" /\ approvals' = approvals
          /\ resumed' = resumed \union {Copy(s).waiting}
      BY <1>0, <1>1, ResumeSweepEffect, SweepGated DEF ApprovalOf
    <2>3. Copy(s).waiting \in 1..Len(approvals)
      BY <1>0, <1>1, CopyFacts, SweepGated, LenOfApprovals DEF Run, IInv
    <2> QED
      BY <1>0, <2>1, <2>2, <2>3 DEF Resumable, ResumedFits, Others
  <1>2. CASE ~ResumeSweep(s)
    <2>0. resumed' = resumed
      BY <1>2, SlotHistory
    <2>1. Len(approvals) \in Nat /\ resumed \subseteq 1..Len(approvals)
          /\ resumed \subseteq 1..Len(approvals')
      <3>1. approvals \in Seq(Approval) /\ Len(approvals) \in Nat
        BY <1>0, LenOfApprovals DEF IInv, ApprovalsOK
      <3>2. \A e : Len(Append(approvals, e)) = Len(approvals) + 1
        BY <3>1
      <3>3. Len(approvals') \in {Len(approvals), Len(approvals) + 1}
        <4>1. CASE CreateApproval(s)
          BY <1>0, <3>2, <4>1, CreateApprovalEffect
        <4>2. CASE approvals' = approvals
          BY <4>2
        <4> QED
          BY <1>0, <4>1, <4>2, SlotApprovals
      <3> QED
        BY <3>1, <3>3 DEF Resumable, ResumedFits
    <2>2. \A t \in Slots : leg'[t].pc = "stamp" => leg'[t].approval \notin resumed
      <3>1. leg'[s].pc = "stamp" => leg'[s].approval \notin resumed
        <4>1. leg'[s].pc = "stamp" => leg'[s].approval = Len(approvals) + 1
          BY <1>0, Arrivals, CreateApprovalEffect DEF Arrives
        <4>2. Len(approvals) + 1 \notin resumed
          BY <2>1
        <4> QED
          BY <4>1, <4>2
      <3> QED
        BY <1>0, <3>1 DEF Others, Resumable, ResumedFits
    <2>3. ASSUME row'.status = "awaiting_approval", row'.waiting \in resumed
          PROVE  \E t \in Slots : leg'[t].pc = "resume"
      <3>1. row'.waiting # 0
        BY <2>3 DEF Resumable, ResumedFits
      <3>2. ~StampApproval(s)
        BY <1>0, <2>3, StampApprovalEffect DEF Resumable, ResumedFits
      <3>3. row.status = "awaiting_approval" /\ row'.waiting = row.waiting
        BY <1>0, <2>3, <3>1, <3>2, Parking DEF Unwritten
      <3>4. PICK t \in Slots : leg[t].pc = "resume"
        BY <2>3, <3>3 DEF Resumable, ResumedFits
      <3>5. t # s
        BY <1>0, <2>3, <3>4, Departures, ResumeFailsEffect, ResumeRunEffect DEF Departs
      <3> QED
        BY <1>0, <3>4, <3>5 DEF Others
    <2> QED
      BY <2>0, <2>1, <2>2, <2>3 DEF ResumedFits
  <1> QED
    BY <1>1, <1>2

LEMMA NextResumes == Resumable /\ [Next]_vars => ApisFit' /\ ResumedFits'
  <1> SUFFICES ASSUME Resumable, [Next]_vars PROVE ApisFit' /\ ResumedFits'
    OBVIOUS
  <1>1. CASE \E s \in Slots : Acts(s)
    BY <1>1, SlotApis, SlotResumes
  <1>2. CASE Approve
    <2>1. UNCHANGED <<row, cache, leg, resumed>>
      BY <1>2, ApproveFrames
    <2>2. DOMAIN approvals' = DOMAIN approvals
      BY <1>2, ApproveEffect DEF Resumable, Holds
    <2>3. resumed \subseteq 1..Len(approvals')
      BY <2>2, LenOfApprovals, LenOfApprovals' DEF Resumable, ResumedFits, Holds
    <2> QED
      BY <2>1, <2>3 DEF Resumable, ApisFit, Aloof, SlotsOf, Busy, ResumedFits
  <1>3. CASE UNCHANGED vars
    BY <1>3
    DEF vars, approvalVars, history, Resumable, ApisFit, Aloof, SlotsOf, Busy, ResumedFits
  <1> QED
    BY <1>1, <1>2, <1>3, StepsAreActs DEF Resumable

\* Of two API processes, one is aloof, and the other's copy of a parked run is the row.
THEOREM ResumableInvariance == Spec /\ Calm /\ TwoApis => []Resumable
  <1>1. Init /\ TwoApis /\ Holds /\ FInv /\ GInv => Resumable
    <2> SUFFICES ASSUME Init PROVE ApisFit /\ ResumedFits
      BY DEF Resumable
    <2>1. \A s \in Slots : leg[s].pc = "idle"
      BY IdleFacts DEF Init
    <2> QED
      BY <2>1 DEF Init, ApisFit, ResumedFits, NoRun, Processes
  <1>2. Resumable /\ (Holds /\ FInv /\ GInv)' /\ [Next]_vars => Resumable'
    BY NextResumes DEF Resumable, TwoApis
  <1> QED
    BY <1>1, <1>2, CalmInvariance, GatedInvariance, PTL DEF Spec

\* A decision resumes the run once: the sweep never takes an approval that has resumed it
\* already, whatever its process's copy says.
THEOREM ResumedOnceHolds == Spec /\ Calm /\ TwoApis => ResumedOnce
  <1>1. Resumable /\ [Next]_vars =>
            [\A s \in Slots : ResumeSweep(s) => ApprovalOf(Copy(s)) \notin resumed]_vars
    <2> SUFFICES ASSUME Resumable, NEW s \in Slots, ResumeSweep(s)
                 PROVE  ApprovalOf(Copy(s)) \notin resumed
      OBVIOUS
    <2>1. Copy(s) = row /\ row.status = "awaiting_approval" /\ row.waiting # 0
      BY SweepFresh, PhaseFacts, ResumeSweepEffect DEF Resumable
    <2>2. \A t \in Slots : leg[t].pc # "resume"
      BY SweepAlone DEF Resumable, Busy
    <2> QED
      BY <2>1, <2>2 DEF Resumable, ResumedFits, ApprovalOf
  <1> QED
    BY <1>1, ResumableInvariance, PTL DEF Spec, ResumedOnce

----------------------------------------------------------------------------
(* A recorded step does not take effect again                              *)

\* Every effect recorded is among the first n results.
Within(n) == recorded \subseteq 1..n

\* A leg's results hold every recorded effect, before the placeholder of its step if there
\* is one.
LegWithin(s) ==
    /\ leg[s].pc \in {"start", "step", "begin", "pause", "enqueue", "resume", "resumed"} =>
           Within(Len(leg[s].results))
    /\ leg[s].pc \in {"exec", "park", "stamp", "record"} =>
           Len(leg[s].results) # 0 /\ Within(Len(leg[s].results) - 1)

\* So do those of a row that a leg may take up.
RowWithin ==
    /\ row.status = "none" => recorded = {}
    /\ row.status = "queued" => Within(Len(row.results))
    /\ row.status = "awaiting_approval" /\ row.waiting # 0 =>
           Within(Len(row.results)) \/ \E s \in Slots : leg[s].pc = "record"

\* A job waits, or a leg is about to take the run up.
Taking ==
    \/ \E j \in JobId : jobs[j].state = "ready"
    \/ \E s \in Slots : leg[s].pc \in {"load", "start", "throw"}

\* Then no worker's copy of the queued run is behind the row.
CopiesFresh ==
    row.status = "queued" /\ Taking =>
        \A w \in Workers : cache[w].status = "queued" => cache[w].results = row.results

\* Until a wait's job is added, only the worker that is about to knows the run as queued.
PauseCopies ==
    \A i \in Steps :
        Template[i] = "wait" /\ jobs[WaitJob(i + 1)].state = "absent" =>
            \A w \in Workers :
                cache[w].status = "queued" => \E s \in SlotsOf(w) : leg[s].pc = "enqueue"

NInv == (\A s \in Slots : LegWithin(s)) /\ RowWithin /\ CopiesFresh /\ PauseCopies

Kept == TimelyHolds /\ OneWait /\ Resumable /\ NInv

LEMMA ResultsNumber ==
    ASSUME IInv, NEW s \in Slots
    PROVE  /\ Len(leg[s].results) \in Nat /\ Ordinal(s) = Len(leg[s].results)
           /\ Len(Append(leg[s].results, Placeholder(s))) = Len(leg[s].results) + 1
           /\ Len(RecordedResults(s)) = Len(leg[s].results)
           /\ Len(Decided(leg[s].results, DecisionOf(s)))
                  \in {Len(leg[s].results), Len(leg[s].results) + 1}
  <1> DEFINE r == leg[s].results
  <1>1. r \in Seq(Result) /\ Len(r) \in Nat /\ DOMAIN r = 1..Len(r)
    BY LegFacts, LenProperties
  <1>2. \A e : Len(Append(r, e)) = Len(r) + 1
    BY <1>1
  <1>3. \A e, i : Len([r EXCEPT ![i] = e]) = Len(r)
    BY <1>1
  <1> QED
    BY <1>1, <1>2, <1>3 DEF Ordinal, RecordedResults, Decided

\* What the step that records one leaves behind.
LEMMA RecordWithin ==
    ASSUME Kept, NEW s \in Slots, RecordStep(s)
    PROVE  recorded' \subseteq 1..Len(leg'[s].results) /\ row'.results = leg'[s].results
  <1>0. IInv /\ leg[s].pc = "record" /\ LegWithin(s) /\ row'.results = leg'[s].results
        /\ leg'[s].results = RecordedResults(s)
        /\ recorded' \subseteq recorded \union {Ordinal(s)}
    BY PhaseFacts, RecordStepEffect DEF Kept, TimelyHolds, NInv
  <1>1. Len(leg[s].results) \in Nat /\ Ordinal(s) = Len(leg[s].results)
        /\ Len(leg'[s].results) = Len(leg[s].results)
    BY <1>0, ResultsNumber
  <1>2. Len(leg[s].results) # 0 /\ recorded \subseteq 1..(Len(leg[s].results) - 1)
    BY <1>0 DEF LegWithin, Within
  <1> QED
    BY <1>0, <1>1, <1>2 DEF Within

LEMMA LoadWithin ==
    ASSUME Kept, NEW s \in Slots, LoadRun(s)
    PROVE  Within(Len(leg'[s].results))
  <1>0. /\ IInv /\ PhaseOK(s) /\ Copy(s).status = "queued" /\ leg[s].pc = "load"
        /\ ProcOf[s] \in Workers /\ NoneBehind /\ Taking /\ StartUnderWay(s)
    BY PhaseFacts, LoadRunEffect
    DEF Kept, TimelyHolds, PhaseOK, TInv, StartsInStep, Taking, FInv
  <1>1. leg[s].job \in JobId /\ jobs[leg[s].job].state = "active"
    BY <1>0, LegFacts DEF PhaseOK, Leg, IInv, JobsOK, Held
  <1>2. row.status = "queued" /\ Copy(s).results = row.results
    BY <1>0 DEF NoneBehind, Copy, Current, Kept, NInv, CopiesFresh
  <1>3. Within(Len(row.results))
    BY <1>2 DEF Kept, NInv, RowWithin
  <1>4. CASE leg[s].job.kind = "wait"
    <2>1. leg[s].job.n > 1
      BY <1>1, <1>4, TemplateFacts DEF JobId
    <2>2. leg'[s].results = row.results
      BY <1>0, <1>2, <1>4, <2>1, LoadRunEffect
    <2> QED
      BY <1>3, <2>2
  <1>5. CASE leg[s].job.kind # "wait"
    <2>1. leg[s].job = StartJob
      BY <1>1, <1>5 DEF Kept, TimelyHolds, Holds, BInv, NoCrash, JobId, StartJob
    <2>2. row.results = <<>>
      BY <1>0, <1>2, <2>1 DEF StartUnderWay, Busy, Pristine
    <2>3. leg'[s].results = <<>>
      BY <1>0, <2>1, LoadRunEffect DEF StartJob
    <2> QED
      BY <1>3, <2>2, <2>3
  <1> QED
    BY <1>4, <1>5

LEMMA SweepWithin ==
    ASSUME Kept, NEW s \in Slots, ResumeSweep(s)
    PROVE  Within(Len(leg'[s].results))
  <1>1. leg'[s].results = row.results /\ row.status = "awaiting_approval" /\ row.waiting # 0
    BY PhaseFacts, SweepFresh, ResumeSweepEffect DEF Kept, TimelyHolds
  <1>2. \A t \in Slots : leg[t].pc # "record"
    BY SweepAlone DEF Kept, TimelyHolds, Busy
  <1> QED
    BY <1>1, <1>2 DEF Kept, NInv, RowWithin

LEMMA LegStepWithin ==
    ASSUME Kept, NEW s \in Slots, Acts(s)
    PROVE  LegWithin(s)'
  <1>0. IInv /\ PhaseOK(s) /\ Arrives(s) /\ LegWithin(s) /\ Len(leg[s].results) \in Nat
    BY PhaseFacts, Arrivals, ResultsNumber DEF Kept, TimelyHolds, NInv
  <1>1. CASE RecordStep(s)
    <2>1. leg'[s].pc \in {"step", "fail", "pause", "hook", "return"}
      BY <1>0, <1>1, LegFacts, RecordStepEffect DEF After
    <2> QED
      BY <1>1, <2>1, RecordWithin DEF LegWithin, Within
  <1>2. CASE ~RecordStep(s)
    <2>0. recorded' = recorded
      BY <1>2, SlotHistory
    <2>1. leg'[s].pc = "start" => Within(Len(leg'[s].results))
      BY <1>0, LoadWithin DEF Arrives
    <2>2. leg'[s].pc = "resume" => Within(Len(leg'[s].results))
      BY <1>0, SweepWithin DEF Arrives
    <2>3. leg'[s].pc = "step" => Within(Len(leg'[s].results))
      <3>1. CASE StartRun(s)
        BY <1>0, <3>1, StartRunEffect DEF SameLeg, LegWithin
      <3>2. CASE RecordDecision(s)
        BY <1>0, <3>2, RecordDecisionEffect, ResultsNumber DEF LegWithin, Within
      <3> QED
        BY <1>0, <1>2, <3>1, <3>2 DEF Arrives
    <2>4. leg'[s].pc \in {"begin", "enqueue", "resumed"} => Within(Len(leg'[s].results))
      BY <1>0, ReachStepEffect, PauseRunEffect, ResumeRunEffect DEF Arrives, SameLeg, LegWithin
    <2>5. leg'[s].pc = "exec" => Len(leg'[s].results) # 0 /\ Within(Len(leg'[s].results) - 1)
      BY <1>0, BeginStepEffect, ResultsNumber DEF Arrives, LegWithin
    <2>6. leg'[s].pc \in {"park", "stamp"} =>
              Len(leg'[s].results) # 0 /\ Within(Len(leg'[s].results) - 1)
      BY <1>0, ReachApprovalEffect, CreateApprovalEffect DEF Arrives, SameLeg, LegWithin
    <2>7. leg'[s].pc = "record" => Len(leg'[s].results) # 0 /\ Within(Len(leg'[s].results) - 1)
      BY <1>0, ExecutedEffect, StampApprovalEffect
      DEF Arrives, ReuseStep, RunAction, RunPure, StepFails, ReachWait, At, LegWithin
    <2>8. leg'[s].pc # "pause"
      BY <1>0, <1>2 DEF Arrives
    <2> QED
      BY <2>0, <2>1, <2>2, <2>3, <2>4, <2>5, <2>6, <2>7, <2>8 DEF LegWithin, Within
  <1> QED
    BY <1>1, <1>2

LEMMA SlotWithin ==
    ASSUME Kept, NEW s \in Slots, Acts(s)
    PROVE  \A t \in Slots : LegWithin(t)'
  <1>1. ASSUME NEW t \in Slots, t # s
        PROVE  LegWithin(t)'
    <2>0. IInv /\ Holds /\ leg'[t] = leg[t] /\ LegWithin(t)
      BY <1>1, PhaseFacts, SlotFrame DEF Kept, TimelyHolds, NInv, Others
    <2>1. CASE Busy(t)
      <3>1. Return(s)
        BY <1>1, <2>0, <2>1, SlotFrame, BusyAlone, BeginsAlone
      <3>2. recorded' = recorded
        BY <2>0, <3>1, ReturnEffect DEF elsewhere, history
      <3> QED
        BY <2>0, <3>2 DEF LegWithin, Within
    <2>2. CASE ~Busy(t)
      BY <2>0, <2>2 DEF LegWithin, Busy
    <2> QED
      BY <2>1, <2>2
  <1> QED
    BY <1>1, LegStepWithin

LEMMA SlotRow ==
    ASSUME Kept, NEW s \in Slots, Acts(s)
    PROVE  RowWithin'
  <1>0. IInv /\ PhaseOK(s) /\ Others(s) /\ Holds /\ TInv /\ RowWithin /\ LegWithin(s)
    BY PhaseFacts, SlotFrame DEF Kept, TimelyHolds, NInv
  <1>1. RecordStep(s) => row.status \in {"running", "awaiting_approval"} /\ leg[s].pc = "record"
    BY <1>0, RecordStepEffect DEF PhaseOK, Drives
  <1>2. row'.status = "none" => recorded' = {}
    <2>1. row'.status = "none" => row' = row
      BY <1>0, SlotMoves DEF RunMoves
    <2> QED
      BY <1>0, <1>1, <2>1, SlotHistory DEF RowWithin
  <1>3. ASSUME row'.status = "queued"
        PROVE  recorded' \subseteq 1..Len(row'.results)
    <2>1. CASE CreateRun(s)
      <3>1. row.status = "none" /\ recorded' = recorded
        BY <1>0, <2>1, CreateRunEffect DEF NoRun, elsewhere, history
      <3> QED
        BY <1>0, <3>1 DEF RowWithin, Within
    <2>2. CASE PauseRun(s)
      BY <1>0, <2>2, PauseRunEffect DEF elsewhere, history, LegWithin, Within
    <2>3. CASE Unwritten
      BY <1>0, <1>1, <1>3, <2>3, SlotHistory DEF RowWithin, Within, Unwritten
    <2> QED
      BY <1>0, <1>3, <2>1, <2>2, <2>3, Queues, EnqueueWaitEffect
  <1>4. ASSUME row'.status = "awaiting_approval", row'.waiting # 0
        PROVE  recorded' \subseteq 1..Len(row'.results) \/ \E t \in Slots : leg'[t].pc = "record"
    <2>1. CASE RecordStep(s)
      BY <2>1, RecordWithin
    <2>2. CASE StampApproval(s)
      BY <1>0, <2>2, StampApprovalEffect
    <2>3. CASE Unwritten /\ ~RecordStep(s)
      <3>1. \A t \in Slots : leg[t].pc = "record" => leg'[t].pc = "record"
        BY <1>0, <2>3, Departures DEF Departs, Others
      <3>2. recorded' = recorded
        BY <2>3, SlotHistory
      <3> QED
        BY <1>0, <1>4, <2>3, <3>1, <3>2 DEF RowWithin, Within, Unwritten
    <2> QED
      BY <1>0, <1>4, <2>1, <2>2, <2>3, Parking
  <1> QED
    BY <1>2, <1>3, <1>4 DEF RowWithin, Within

\* Only a job just added makes a leg ready to take the run up.
LEMMA TakesUp ==
    ASSUME Kept, NEW s \in Slots, Acts(s), Taking', row'.status = "queued"
    PROVE  \/ Taking
           \/ EnqueueStart(s) /\ jobs'[StartJob].state = "ready"
           \/ /\ EnqueueWait(s)
              /\ \E j \in JobId : /\ j = WaitJob(leg[s].at + 1)
                                  /\ jobs[j].state = "absent"
  <1>0. IInv /\ PhaseOK(s) /\ Holds /\ Others(s) /\ Arrives(s)
    BY PhaseFacts, SlotFrame, Arrivals DEF Kept, TimelyHolds
  <1>1. ASSUME NEW j \in JobId, jobs'[j].state = "ready", jobs[j].state # "ready"
        PROVE  \/ Taking
               \/ EnqueueStart(s) /\ jobs'[StartJob].state = "ready"
               \/ EnqueueWait(s) /\ j = WaitJob(leg[s].at + 1) /\ jobs[j].state = "absent"
    <2>1. JobFails(s) => Taking
      BY DEF JobFails, At, Taking
    <2> QED
      BY <1>0, <1>1, <2>1, JobMoves
  <1>2. ASSUME leg'[s].pc \in {"load", "start", "throw"}
        PROVE  Taking
    <2>1. CASE \E j \in JobId : Deliver(s, j)
      BY <1>0, <2>1, DeliverEffect DEF Holds, BInv, NoCrash, Taking
    <2>2. CASE LoadRun(s) \/ StartFails(s)
      BY <2>2 DEF LoadRun, StartFails, At, Taking
    <2>3. ~EnqueueWaitFails(s)
      BY <1>0, EnqueueWaitFailsEffect
    <2> QED
      BY <1>0, <1>2, <2>1, <2>2, <2>3 DEF Arrives
  <1>3. ASSUME NEW t \in Slots, leg'[t].pc \in {"load", "start", "throw"}
        PROVE  Taking
    BY <1>0, <1>2, <1>3 DEF Others, Taking
  <1>4. CASE \E j \in JobId : jobs'[j].state = "ready"
    BY <1>1, <1>4 DEF Taking
  <1> QED
    BY <1>3, <1>4 DEF Taking

LEMMA SlotFresh ==
    ASSUME Kept, IInv', NEW s \in Slots, Acts(s)
    PROVE  CopiesFresh'
  <1>0. IInv /\ PhaseOK(s) /\ Holds /\ FInv /\ GInv /\ Others(s) /\ CopiesFresh /\ PauseCopies
    BY PhaseFacts, SlotFrame DEF Kept, TimelyHolds, NInv
  <1> SUFFICES ASSUME row'.status = "queued", Taking', NEW w \in Workers,
                      cache'[w].status = "queued"
               PROVE  cache'[w].results = row'.results
    BY DEF CopiesFresh
  <1>1. CASE EnqueueStart(s)
    <2>1. CASE Taking
      BY <1>0, <1>1, <2>1, EnqueueStartEffect DEF Unwritten, CopiesFresh
    <2>2. CASE jobs'[StartJob].state = "ready"
      BY <1>0, <2>2, FirstJobStep DEF FInv, StartAhead, Pristine
    <2> QED
      BY <1>0, <1>1, <2>1, <2>2, TakesUp, EnqueueWaitEffect, EnqueueStartEffect
  <1>2. CASE EnqueueWait(s)
    <2>0. leg[s].pc = "enqueue" /\ Unwritten /\ Busy(s) /\ UpToDate(s)
      BY <1>0, <1>2, EnqueueWaitEffect DEF Busy, PhaseOK
    <2>1. CASE Taking
      BY <1>0, <2>0, <2>1 DEF Unwritten, CopiesFresh
    <2>2. CASE \E j \in JobId : j = WaitJob(leg[s].at + 1) /\ jobs[j].state = "absent"
      <3>1. leg[s].at \in Steps /\ Template[leg[s].at] = "wait"
        BY <1>0, <2>0, LegFacts DEF Placed, OnStep, GInv, LegGated
      <3>2. PICK t \in SlotsOf(w) : leg[t].pc = "enqueue"
        BY <1>0, <2>0, <2>2, <3>1 DEF PauseCopies, Unwritten
      <3>3. t = s /\ ProcOf[s] = w
        BY <1>0, <2>0, <3>2, BusyAlone DEF SlotsOf, Busy
      <3> QED
        BY <2>0, <3>3 DEF UpToDate, Unwritten
    <2> QED
      BY <1>0, <1>2, <2>0, <2>1, <2>2, TakesUp, EnqueueStartEffect
  <1>3. CASE ~EnqueueStart(s) /\ ~EnqueueWait(s)
    <2>0. Taking
      BY <1>3, TakesUp
    <2>1. ~CreateRun(s)
      BY <1>0, <2>0, CreateRunEffect DEF Holds, BInv, LegsFit, Unbegun, NoRun, Taking
    <2>2. ~PauseRun(s)
      <3>1. SUFFICES ASSUME PauseRun(s) PROVE FALSE
        OBVIOUS
      <3>2. leg[s].pc = "pause"
        BY <1>0, <3>1, PauseRunEffect
      <3> QED
        BY <1>0, <2>0, <3>2, BusyAlone DEF Taking, Busy
    <2>3. Unwritten
      BY <1>0, <1>3, <2>1, <2>2, Queues
    <2> QED
      BY <1>0, <2>0, <2>3 DEF Unwritten, CopiesFresh
  <1> QED
    BY <1>1, <1>2, <1>3

LEMMA SlotPauses ==
    ASSUME Kept, NEW s \in Slots, Acts(s)
    PROVE  PauseCopies'
  <1>0. IInv /\ PhaseOK(s) /\ Holds /\ GInv /\ Others(s) /\ PauseCopies
        /\ \A q \in Processes \ {ProcOf[s]} : cache'[q] = cache[q]
    BY PhaseFacts, SlotFrame DEF Kept, TimelyHolds, NInv
  <1> SUFFICES ASSUME NEW i \in Steps, Template[i] = "wait", jobs'[WaitJob(i + 1)].state = "absent",
                      NEW w \in Workers, cache'[w].status = "queued"
               PROVE  \E t \in SlotsOf(w) : leg'[t].pc = "enqueue"
    BY DEF PauseCopies, SlotsOf
  <1>1. WaitJob(i + 1) \in JobId /\ w \in Processes
    BY JobFacts DEF Processes
  <1>2. jobs[WaitJob(i + 1)].state = "absent"
    BY <1>0, <1>1, JobMoves
  <1>3. ~EnqueueWait(s)
    <2>1. SUFFICES ASSUME EnqueueWait(s) PROVE FALSE
      OBVIOUS
    <2>2. leg[s].pc = "enqueue" /\ Add(WaitJob(leg[s].at + 1))
      BY <1>0, <2>1, EnqueueWaitEffect
    <2>3. leg[s].at \in Steps /\ Template[leg[s].at] = "wait"
      BY <1>0, <2>2, LegFacts DEF Placed, OnStep, GInv, LegGated, Busy
    <2>4. leg[s].at = i
      BY <2>3 DEF Kept, OneWait
    <2>5. jobs' = [jobs EXCEPT ![WaitJob(i + 1)].state = "ready"]
      BY <1>2, <2>2, <2>4 DEF Add
    <2> QED
      BY <1>0, <1>1, <2>5 DEF IInv, JobsOK, JobState
  <1>4. ASSUME cache[w].status = "queued", w # ProcOf[s] \/ leg[s].pc # "enqueue"
        PROVE  \E t \in SlotsOf(w) : leg'[t].pc = "enqueue"
    <2>1. PICK t \in SlotsOf(w) : leg[t].pc = "enqueue"
      BY <1>0, <1>2, <1>4 DEF PauseCopies
    <2>2. t # s
      BY <1>4, <2>1 DEF SlotsOf
    <2> QED
      BY <1>0, <2>1, <2>2 DEF Others, SlotsOf
  <1>5. CASE w # ProcOf[s]
    BY <1>0, <1>1, <1>4, <1>5
  <1>6. CASE w = ProcOf[s] /\ PauseRun(s)
    BY <1>0, <1>6, PauseRunEffect DEF SlotsOf
  <1>7. CASE w = ProcOf[s] /\ Unwritten /\ leg[s].pc # "enqueue"
    BY <1>4, <1>7 DEF Unwritten
  <1>8. CreateRun(s) => w # ProcOf[s]
    BY <1>0, CreateRunEffect, RunAssumption
  <1> QED
    BY <1>0, <1>3, <1>5, <1>6, <1>7, <1>8, Queues

LEMMA NextNInv == Kept /\ IInv' /\ [Next]_vars => NInv'
  <1> SUFFICES ASSUME Kept, IInv', [Next]_vars PROVE NInv'
    OBVIOUS
  <1>1. CASE \E s \in Slots : Acts(s)
    BY <1>1, SlotWithin, SlotRow, SlotFresh, SlotPauses DEF NInv
  <1>2. CASE UNCHANGED <<row, cache, jobs, leg, recorded>>
    BY <1>2
    DEF Kept, NInv, LegWithin, Within, RowWithin, Taking, CopiesFresh, PauseCopies, SlotsOf
  <1> QED
    BY <1>1, <1>2, StepsAreActs, ApproveFrames DEF Kept, TimelyHolds, vars, history

\* Whatever the run is taken up from holds every effect recorded so far.
THEOREM KeptInvariance == Spec /\ Calm /\ OneWait /\ TwoApis => []Kept
  <1>1. Init /\ OneWait /\ TimelyHolds /\ Resumable => Kept
    <2> SUFFICES ASSUME Init PROVE NInv
      BY DEF Kept
    <2>1. \A s \in Slots : leg[s].pc = "idle"
      BY IdleFacts DEF Init
    <2> QED
      BY <2>1
      DEF Init, NInv, LegWithin, RowWithin, Taking, CopiesFresh, PauseCopies, NoRun, Processes
  <1>2. Kept /\ TimelyHolds' /\ Resumable' /\ [Next]_vars => Kept'
    BY NextNInv DEF Kept, OneWait, Resumable, Holds
  <1>3. OneWait => FewWaits
    BY DEF FewWaits
  <1> QED
    BY <1>1, <1>2, <1>3, TimelyInvariance, ResumableInvariance, PTL DEF Spec

\* No pause, approval or repeated decision makes a step take effect again once its effect
\* is recorded.
THEOREM RecordedNotRefiredWithPauses == Spec /\ Calm /\ OneWait /\ TwoApis => RecordedNotRefired
  <1>1. Kept => \A s \in Slots : NotRefired(s)
    <2> SUFFICES ASSUME Kept, NEW s \in Slots, RunAction(s)
                 PROVE  Ordinal(s) \notin recorded
      BY DEF NotRefired
    <2>1. leg[s].pc = "exec" /\ LegWithin(s) /\ IInv
      BY PhaseFacts DEF RunAction, At, Kept, TimelyHolds, NInv
    <2>2. Ordinal(s) \in Nat /\ recorded \subseteq 1..(Ordinal(s) - 1)
      BY <2>1, ResultsNumber DEF LegWithin, Within
    <2> QED
      BY <2>2
  <1> QED
    BY <1>1, KeptInvariance, PTL DEF RecordedNotRefired
=============================================================================
