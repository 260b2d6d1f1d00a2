-------------------------- MODULE RunControlProofs --------------------------
(***************************************************************************)
(* The types of run control, for any number of calls, what a cancel that   *)
(* comes in time holds to, and that somebody attends a queued run.         *)
(***************************************************************************)
EXTENDS RunControlProps, RunExecutionProofs

\* A call has read its place in the run, and the run, off a copy of it.
CallsOK ==
    /\ call \in [Calls -> Call]
    /\ \A c \in Calls : /\ call[c].at <= Len(Template) + 1
                        /\ call[c].found.waiting <= Len(approvals)

CInv == IInv /\ CallsOK

LEMMA CallFacts ==
    ASSUME CInv, NEW c \in Calls
    PROVE  /\ CallProc[c] \in Apis /\ CallProc[c] \in Processes
           /\ Seen(c) \in Run /\ Seen(c).waiting <= Len(approvals)
           /\ call[c] \in Call /\ call[c].at \in 0..(Len(Template) + 1)
           /\ call[c].found \in Run /\ call[c].found.waiting <= Len(approvals)
  BY ControlAssumption, TemplateFacts DEF CInv, CallsOK, IInv, RunsOK, Call, Seen,
                                                Current, Processes

----------------------------------------------------------------------------
(* A wait in webhook mode                                                  *)

LEMMA ReachHookStep ==
    ASSUME IInv, NEW s \in Slots, ReachHook(s)
    PROVE  IInv'
  BY ExecutedStep DEF ReachHook

LEMMA PauseForWebhookStep ==
    ASSUME IInv, NEW s \in Slots, PauseForWebhook(s)
    PROVE  IInv'
  <1> DEFINE reached == Reached(Copy(s), leg[s].at + 1)
             run == [reached EXCEPT !.status = "queued", !.results = leg[s].results,
                                    !.token = Ordinal(s)]
             l == [leg[s] EXCEPT !.pc = "return"]
  <1>1. reached \in Run /\ reached.waiting = 0
    <2>1. leg[s].at + 1 \in 0..(Len(Template) + 1)
      BY LegFacts, TemplateFacts DEF PauseForWebhook, At, Placed, OnStep
    <2> QED
      BY <2>1, CopyFacts, ReachedFacts
  <1>2. run \in Run /\ run.waiting <= Len(approvals)
    <2> HIDE DEF reached
    <2> DEFINE queued == [reached EXCEPT !.status = "queued"]
               told == [queued EXCEPT !.results = leg[s].results]
    <2>1. queued \in Run /\ queued.waiting = 0
      BY <1>1, StatusFacts DEF Statuses
    <2>2. told \in Run /\ told.waiting = 0
      <3> HIDE DEF queued
      <3> QED
        BY <2>1, LegFacts, ResultsFacts
    <2>3. [told EXCEPT !.token = Ordinal(s)] \in Run
          /\ [told EXCEPT !.token = Ordinal(s)].waiting = 0
      <3> HIDE DEF told
      <3> QED
        BY <2>2, LegFacts DEF Run
    <2>4. run = [told EXCEPT !.token = Ordinal(s)]
      BY <1>1 DEF Run
    <2> HIDE DEF run, told
    <2> QED
      BY <2>3, <2>4, LenOfApprovals DEF IInv
  <1>3. Goto(s, l) /\ Update(s, run) /\ UNCHANGED <<jobs, elsewhere>>
    BY DEF PauseForWebhook, Done
  <1>4. l \in Leg /\ Placed(l) /\ l.job = leg[s].job
    BY DoneFacts
  <1> HIDE DEF run, l
  <1> QED
    BY <1>2, <1>3, <1>4, UpdateStep

----------------------------------------------------------------------------
(* Requests for approval are never taken back                              *)

LEMMA ApprovalsGrow ==
    ASSUME IInv, Work \/ (\E s \in Slots : Hook(s)) \/ \E p \in Processes : Crash(p)
    PROVE  /\ Len(approvals) \in Nat /\ Len(approvals') \in Nat
           /\ Len(approvals) <= Len(approvals')
  <1>1. approvals \in Seq(Approval) /\ Len(approvals) \in Nat
    BY ApprovalsFacts
  <1>2. ASSUME NEW s \in Slots, CreateApproval(s)
        PROVE  Len(approvals') = Len(approvals) + 1
    <2>1. leg[s].at \in Steps
      BY <1>2, LegFacts DEF CreateApproval, At, Placed, OnStep
    <2>2. [step |-> leg[s].at, verdict |-> "pending"] \in Approval
      BY <2>1 DEF Approval
    <2> QED
      BY <1>1, <1>2, <2>2, AppendProperties DEF CreateApproval
  <1>3. ASSUME NEW p \in Apis, PersistDecision(p)
        PROVE  Len(approvals') = Len(approvals)
    <2>1. deciding[p].n \in DOMAIN approvals /\ deciding[p].verdict \in Verdicts
      BY <1>3, ApprovalsFacts DEF PersistDecision, Decision
    <2> QED
      BY <1>3, <2>1, VerdictFacts DEF PersistDecision
  <1>4. ASSUME NEW p \in Processes, NEW n \in armed[p], TimerFires(p, n)
        PROVE  Len(approvals') = Len(approvals)
    <2>1. n \in DOMAIN approvals /\ "timed_out" \in Verdicts
      BY <1>4, ApprovalsFacts DEF Verdicts
    <2> QED
      BY <1>4, <2>1, VerdictFacts DEF TimerFires
  <1>5. \/ \E s \in Slots : CreateApproval(s)
        \/ \E p \in Apis : PersistDecision(p)
        \/ \E p \in Processes : \E n \in armed[p] : TimerFires(p, n)
        \/ UNCHANGED approvals
    <2>1. ASSUME NEW s \in Slots, Step(s), ~CreateApproval(s)
          PROVE  UNCHANGED approvals
      BY <2>1 DEF Step, ReachStep, BeginStep, DeadlinePasses, CompleteRun, ReuseStep, RunAction,
             RunPure, StepFails, ReachWait, ReachApproval, StampApproval, RecordStep, FailRun,
             PauseRun, EnqueueWait, EnqueueWaitFails, Executed, elsewhere, approvalVars
    <2>2. ASSUME NEW s \in Slots, Create(s) \/ Execute(s) \/ Resume(s) \/ Hook(s)
          PROVE  UNCHANGED approvals
      <3>1. CASE Create(s)
        BY <3>1 DEF Create, CreateRun, EnqueueStart, EnqueueStartFails, elsewhere, approvalVars
      <3>2. CASE Execute(s)
        <4>1. CASE \E j \in JobId : Deliver(s, j)
          BY <4>1 DEF Deliver, elsewhere, approvalVars
        <4>2. CASE SkipRun(s) \/ LoadRun(s) \/ StartFails(s) \/ StartRun(s)
          BY <4>2 DEF SkipRun, LoadRun, StartFails, StartRun, elsewhere, approvalVars
        <4>3. CASE JobFails(s) \/ MarkFailed(s) \/ Return(s)
          BY <4>3 DEF JobFails, MarkFailed, Return, elsewhere, approvalVars
        <4> QED
          BY <3>2, <4>1, <4>2, <4>3 DEF Execute
      <3>3. CASE Resume(s)
        <4>1. CASE ResumeSweep(s)
          BY <4>1, Zenon DEF ResumeSweep
        <4>2. CASE ResumeFails(s) \/ ResumeRun(s) \/ RecordDecision(s)
          BY <4>2 DEF ResumeFails, ResumeRun, RecordDecision, elsewhere, approvalVars
        <4> QED
          BY <3>3, <4>1, <4>2 DEF Resume
      <3>4. CASE Hook(s)
        BY <3>4, Zenon DEF Hook, ReachHook, PauseForWebhook, Executed, elsewhere, approvalVars
      <3> QED
        BY <2>2, <3>1, <3>2, <3>3, <3>4
    <2>3. ASSUME Approve
          PROVE  \/ \E p \in Apis : PersistDecision(p)
                 \/ \E p \in Processes : \E n \in armed[p] : TimerFires(p, n)
                 \/ UNCHANGED approvals
      BY <2>3 DEF Approve, Decide, DropTimer
    <2>4. (\E j \in JobId : DropStalled(j)) \/ (\E w \in Workers : Reaper(w))
            \/ (\E p \in Processes : Crash(p)) => UNCHANGED approvals
      BY DEF DropStalled, Reaper, Reap, EnqueueReplay, GiveUp, Crash, elsewhere, approvalVars
    <2> QED
      BY <2>1, <2>2, <2>3, <2>4 DEF Work
  <1> QED
    BY <1>1, <1>2, <1>3, <1>4, <1>5

\* What a call has found still names an approval there is.
LEMMA CallsKept ==
    ASSUME CInv, Work \/ (\E s \in Slots : Hook(s)), UNCHANGED call
    PROVE  CallsOK'
  <1>1. \A c \in Calls : call[c].found.waiting \in Nat
    BY DEF CInv, CallsOK, Call, Run
  <1> QED
    BY <1>1, ApprovalsGrow DEF CInv, CallsOK

----------------------------------------------------------------------------
(* Calls                                                                   *)

LEMMA BeginsStep ==
    ASSUME CInv, NEW c \in Calls, NEW begun \in Call, begun.at <= Len(Template) + 1,
           begun.found = NoRun, Begins(c, begun)
    PROVE  CInv'
  <1>1. begun.found.waiting <= Len(approvals)
    BY LenOfApprovals DEF NoRun, CInv, IInv
  <1> QED
    BY <1>1 DEF Begins, CInv, CallsOK, vars, history, approvalVars, IInv, RunsOK, LegsOK, Placed,
                JobsOK, TriesLeft, Held, ApprovalsOK, CountsOK

LEMMA FindsStep ==
    ASSUME CInv, NEW c \in Calls, Finds(c)
    PROVE  CInv'
  <1>1. IInv'
    BY DEF Finds, CInv, vars, history, approvalVars, IInv, RunsOK, LegsOK, Placed, JobsOK,
           TriesLeft, Held, ApprovalsOK, CountsOK
  <1>2. call'[c] \in Call /\ call'[c].at = call[c].at /\ call'[c].found = Seen(c)
    <2>1. call[c] \in Call /\ Seen(c) \in Run
      BY CallFacts
    <2>2. call'[c] = [call[c] EXCEPT !.pc = "write", !.found = Seen(c)]
      BY DEF Finds, CInv, CallsOK
    <2> QED
      BY <2>1, <2>2 DEF Call
  <1>3. \A d \in Calls \ {c} : call'[d] = call[d]
    BY DEF Finds, CInv, CallsOK
  <1>4. call' = [d \in Calls |-> call'[d]] /\ UNCHANGED approvals
    BY DEF Finds, CInv, CallsOK, vars, approvalVars
  <1> QED
    BY <1>1, <1>2, <1>3, <1>4, CallFacts DEF CInv, CallsOK

LEMMA MovesFacts ==
    ASSUME CInv, NEW c \in Calls, NEW pc \in {"add", "find", "wake", "over"},
           Moves(c, pc), UNCHANGED approvals
    PROVE  CallsOK'
  BY DEF Moves, CInv, CallsOK, Call

\* A call that writes the run.
LEMMA CallWrites ==
    ASSUME CInv, NEW c \in Calls, NEW run \in Run, run.waiting <= Len(approvals),
           UpdateIn(CallProc[c], run), UNCHANGED <<jobs, untouched>>
    PROVE  IInv'
  <1>1. RunsOK'
    BY CallFacts DEF CInv, IInv, RunsOK, UpdateIn, untouched, approvalVars
  <1> QED
    BY <1>1 DEF untouched, approvalVars, history, CInv, IInv, LegsOK, Placed, JobsOK,
                TriesLeft, Held, ApprovalsOK, CountsOK

\* A call that works on the queue.
LEMMA CallQueues ==
    ASSUME CInv, JobsOK', UNCHANGED <<row, cache, untouched>>
    PROVE  IInv'
  BY DEF untouched, approvalVars, history, CInv, IInv, RunsOK, LegsOK, Placed,
         ApprovalsOK, CountsOK

\* A job that no worker holds is removed: none is taken from under a leg.
LEMMA RemoveJobKeeps ==
    ASSUME IInv, RemoveJob \/ UNCHANGED jobs, UNCHANGED leg
    PROVE  JobsOK'
  <1>1. CASE RemoveJob
    <2>1. /\ jobs' \in [JobId -> JobState]
          /\ jobs'[StartJob].tries = 0 /\ jobs[StartJob].state # "active"
          /\ \A k \in JobId \ {StartJob} : jobs'[k] = jobs[k]
      BY <1>1, JobFacts, NumberFacts DEF RemoveJob, Removable, IInv, JobsOK, JobState
    <2>2. \A t \in Slots : leg[t].job \in JobId \union {NoJob}
      BY DEF IInv, LegsOK, Leg
    <2> QED
      BY <2>1, <2>2, NumberFacts DEF IInv, JobsOK, TriesLeft, Held
  <1>2. CASE UNCHANGED jobs
    BY <1>2 DEF IInv, JobsOK, TriesLeft, Held
  <1> QED
    BY <1>1, <1>2

LEMMA NewCallFacts == NewCall \in Call /\ NewCall.at = 1 /\ NewCall.found = NoRun
  <1>1. NoRun \in Run
    BY NoRunFacts
  <1> QED
    BY <1>1 DEF NewCall, Call

LEMMA InFlightFacts ==
    ASSUME NEW begun \in Call, NEW inFlight \in BOOLEAN
    PROVE  /\ [begun EXCEPT !.inFlight = inFlight] \in Call
           /\ [begun EXCEPT !.inFlight = inFlight].at = begun.at
           /\ [begun EXCEPT !.inFlight = inFlight].found = begun.found
  BY Zenon DEF Call

LEMMA BegunFacts ==
    ASSUME NEW kind \in {"cancel", "retry", "post"}, NEW pc \in {"remove", "clear", "find"}
    PROVE  LET begun == [NewCall EXCEPT !.kind = kind, !.pc = pc] IN
           begun \in Call /\ begun.at <= Len(Template) + 1 /\ begun.found = NoRun
  <1> DEFINE begun == [NewCall EXCEPT !.kind = kind, !.pc = pc]
  <1>1. begun \in Call /\ begun.at = 1 /\ begun.found = NoRun
    BY NewCallFacts DEF Call
  <1>2. \A n : n = 1 => n <= Len(Template) + 1
    BY TemplateFacts
  <1> QED
    BY <1>1, <1>2, Zenon

LEMMA CancelStep ==
    ASSUME CInv, NEW c \in Calls, Cancel(c)
    PROVE  CInv'
  <1>1. CASE CancelReads(c)
    <2> DEFINE inFlight == Seen(c).status = "running"
               new == [NewCall EXCEPT !.kind = "cancel", !.pc = "remove"]
               begun == [new EXCEPT !.inFlight = inFlight]
    <2>1. begun \in Call /\ begun.at <= Len(Template) + 1 /\ begun.found = NoRun
      <3>1. new \in Call /\ new.at <= Len(Template) + 1 /\ new.found = NoRun
        BY BegunFacts
      <3> HIDE DEF new, inFlight
      <3>2. begun \in Call /\ begun.at = new.at /\ begun.found = new.found
        <4>1. inFlight \in BOOLEAN
          BY DEF inFlight
        <4> QED
          BY <3>1, <4>1, InFlightFacts
      <3> QED
        BY <3>1, <3>2
    <2>2. Begins(c, begun)
      BY <1>1 DEF CancelReads
    <2> HIDE DEF begun
    <2> QED
      BY <2>1, <2>2, BeginsStep
  <1>2. CASE CancelRemoves(c)
    BY <1>2, RemoveJobKeeps, MovesFacts, CallQueues DEF CancelRemoves, CInv, untouched,
                                                            approvalVars
  <1>3. CASE CancelWrites(c)
    <2> DEFINE status == IF call[c].inFlight THEN "cancelling" ELSE "canceled"
               run == [call[c].found EXCEPT !.status = status]
    <2>0. status \in Statuses
      BY DEF Statuses
    <2>1. run \in Run /\ run.waiting <= Len(approvals)
      <3> HIDE DEF status
      <3> QED
        BY <2>0, CallFacts, StatusFacts
    <2>2. UpdateIn(CallProc[c], run) /\ Moves(c, "over") /\ UNCHANGED <<jobs, untouched>>
      BY <1>3 DEF CancelWrites, WritesBack
    <2> HIDE DEF run
    <2> QED
      BY <2>1, <2>2, CallWrites, MovesFacts DEF CInv, untouched, approvalVars
  <1> QED
    BY <1>1, <1>2, <1>3 DEF Cancel

LEMMA FailedCallStep ==
    ASSUME CInv, NEW c \in Calls, Moves(c, "over"), UNCHANGED vars
    PROVE  CInv'
  BY MovesFacts DEF CInv, vars, history, approvalVars, IInv, RunsOK, LegsOK, Placed, JobsOK,
                    TriesLeft, Held, ApprovalsOK, CountsOK

LEMMA RetryStep ==
    ASSUME CInv, NEW c \in Calls, Retry(c)
    PROVE  CInv'
  <1>1. CASE RetryReads(c)
    <2> DEFINE begun == [NewCall EXCEPT !.kind = "retry", !.pc = "clear"]
    <2>1. begun \in Call /\ begun.at <= Len(Template) + 1 /\ begun.found = NoRun
      BY BegunFacts
    <2>2. Begins(c, begun)
      BY <1>1 DEF RetryReads
    <2> HIDE DEF begun
    <2> QED
      BY <2>1, <2>2, BeginsStep
  <1>2. CASE RetryClears(c)
    BY <1>2, RemoveJobKeeps, MovesFacts, CallQueues DEF RetryClears, CInv, untouched,
                                                            approvalVars
  <1>3. CASE RetryAdds(c)
    BY <1>3, JobFacts, AddJobs, MovesFacts, CallQueues DEF RetryAdds, CInv, untouched,
                                                               approvalVars
  <1>4. CASE RetryMarks(c)
    <2> DEFINE run == [call[c].found EXCEPT !.status = "queued"]
    <2>1. run \in Run /\ run.waiting <= Len(approvals)
      BY CallFacts, StatusFacts DEF Statuses
    <2>2. UpdateIn(CallProc[c], run) /\ Moves(c, "over") /\ UNCHANGED <<jobs, untouched>>
      BY <1>4 DEF RetryMarks, WritesBack
    <2> HIDE DEF run
    <2> QED
      BY <2>1, <2>2, CallWrites, MovesFacts DEF CInv, untouched, approvalVars
  <1>5. CASE RetryFails(c)
    BY <1>5, FailedCallStep DEF RetryFails
  <1> QED
    BY <1>1, <1>2, <1>3, <1>4, <1>5 DEF Retry

LEMMA PostStep ==
    ASSUME CInv, NEW c \in Calls, Post(c)
    PROVE  CInv'
  <1>1. CASE PostReads(c)
    <2> DEFINE new == [NewCall EXCEPT !.kind = "post", !.pc = "find"]
               begun == [new EXCEPT !.at = Seen(c).at]
    <2>1. Seen(c).at \in 0..(Len(Template) + 1)
      BY CallFacts DEF Run
    <2>2. begun \in Call /\ begun.at <= Len(Template) + 1 /\ begun.found = NoRun
      <3>1. new \in Call /\ new.found = NoRun
        BY BegunFacts
      <3> HIDE DEF new
      <3> QED
        BY <2>1, <3>1, TemplateFacts DEF Call
    <2>3. Begins(c, begun)
      BY <1>1 DEF PostReads
    <2> HIDE DEF begun
    <2> QED
      BY <2>2, <2>3, BeginsStep
  <1>2. CASE PostConsumes(c)
    <2> DEFINE run == Reached(call[c].found, call[c].at)
    <2>1. run \in Run /\ run.waiting <= Len(approvals)
      BY CallFacts, ReachedFacts, LenOfApprovals DEF CInv, IInv
    <2>2. UpdateIn(CallProc[c], run) /\ Moves(c, "wake") /\ UNCHANGED <<jobs, untouched>>
      BY <1>2 DEF PostConsumes, WritesBack
    <2> HIDE DEF run
    <2> QED
      BY <2>1, <2>2, CallWrites, MovesFacts DEF CInv, untouched, approvalVars
  <1>3. CASE PostWakes(c)
    <2>1. JobsOK'
      <3>1. CASE HookJob(call[c].at) \in JobId
        BY <1>3, <3>1, AddJobs DEF PostWakes, CInv, untouched
      <3>2. CASE HookJob(call[c].at) \notin JobId
        <4>1. UNCHANGED jobs
          BY <1>3, <3>2 DEF PostWakes, Add, CInv, IInv, JobsOK
        <4> QED
          BY <1>3, <4>1 DEF PostWakes, untouched, CInv, IInv, JobsOK, TriesLeft, Held
      <3> QED
        BY <3>1, <3>2
    <2> QED
      BY <1>3, <2>1, MovesFacts, CallQueues DEF PostWakes, CInv, untouched, approvalVars
  <1>4. CASE PostFails(c)
    BY <1>4, FailedCallStep DEF PostFails
  <1> QED
    BY <1>1, <1>2, <1>3, <1>4 DEF Post

----------------------------------------------------------------------------
(* Every step                                                              *)

LEMMA ControlCrashStep ==
    ASSUME CInv, NEW p \in Processes, ControlCrash(p)
    PROVE  CInv'
  <1>1. IInv'
    BY CrashStep DEF ControlCrash, CInv
  <1>2. \A c \in Calls : /\ call'[c] \in Call /\ call'[c].at = call[c].at
                         /\ call'[c].found = call[c].found
    <2> SUFFICES ASSUME NEW c \in Calls
                 PROVE  /\ call'[c] \in Call /\ call'[c].at = call[c].at
                        /\ call'[c].found = call[c].found
      OBVIOUS
    <2>1. call'[c] \in {call[c], [call[c] EXCEPT !.pc = "over"]}
      BY DEF ControlCrash
    <2> QED
      BY <2>1 DEF CInv, CallsOK, Call
  <1>3. call' = [c \in Calls |-> call'[c]] /\ UNCHANGED approvals
    BY DEF ControlCrash, Crash
  <1> QED
    BY <1>1, <1>2, <1>3 DEF CInv, CallsOK

LEMMA WorkStep ==
    ASSUME IInv, Work
    PROVE  IInv'
  BY NextIInv DEF Next

LEMMA NextCInv == CInv /\ [ControlNext]_controlVars => CInv'
  <1> SUFFICES ASSUME CInv, [ControlNext]_controlVars PROVE CInv'
    OBVIOUS
  <1>1. CASE Work /\ UNCHANGED call
    BY <1>1, WorkStep, CallsKept DEF CInv
  <1>2. ASSUME NEW s \in Slots, Hook(s), UNCHANGED call
        PROVE  CInv'
    BY <1>2, ReachHookStep, PauseForWebhookStep, CallsKept DEF Hook, CInv
  <1>3. ASSUME NEW p \in Processes, ControlCrash(p)
        PROVE  CInv'
    BY <1>3, ControlCrashStep
  <1>4. ASSUME NEW c \in Calls, Cancel(c) \/ Retry(c) \/ Post(c) \/ Finds(c)
        PROVE  CInv'
    BY <1>4, CancelStep, RetryStep, PostStep, FindsStep
  <1>5. CASE UNCHANGED controlVars
    BY <1>5 DEF controlVars, vars, history, approvalVars, CInv, CallsOK, IInv, RunsOK, LegsOK,
                Placed, JobsOK, TriesLeft, Held, ApprovalsOK, CountsOK
  <1> QED
    BY <1>1, <1>2, <1>3, <1>4, <1>5 DEF ControlNext

LEMMA InitCInv == ControlInit => CInv
  BY InitIInv, NewCallFacts, TemplateFacts, LenOfApprovals
  DEF ControlInit, CInv, CallsOK, NoRun, IInv

\* Run control keeps the types of the run's execution, and its calls have theirs.
THEOREM ControlInvariance == ControlSpec => []CInv
  BY InitCInv, NextCInv, PTL DEF ControlSpec

\* Copies of the run, legs, jobs and calls are always what they should be: no call writes a
\* run that names an approval nobody requested or a step the template does not have.
THEOREM ControlTypeCorrect == ControlSpec => []ControlTypeOK
  <1>1. CInv => ControlTypeOK
    BY TypesFollow DEF CInv, CallsOK, ControlTypeOK
  <1> QED
    BY <1>1, ControlInvariance, PTL

\* However many calls remove the run's first job and add it again, a job that a slot works
\* on is active and no other slot works on it: what is removed is never held.
THEOREM ControlHeldAlways == ControlSpec => []Held
  <1>1. CInv => Held
    BY DEF CInv, IInv, JobsOK
  <1> QED
    BY <1>1, ControlInvariance, PTL

----------------------------------------------------------------------------
(* A run canceled in time                                                  *)

\* No worker dies, so what a worker has read it goes on knowing, and the processes that
\* serve calls neither create the run nor resume it.
ServedApart ==
    /\ Workers \cap Mortal = {}
    /\ \A c \in Calls, s \in Slots : ProcOf[s] # CallProc[c]

Unread == \A w \in Workers : cache[w] = NoRun

Told == \A p \in Processes : cache[p] = NoRun \/ cache[p].status # "none"

\* Until the run is created there is nothing to work on.
NothingYet ==
    row.status = "none" =>
        /\ row = NoRun /\ \A p \in Processes : cache[p] = NoRun
        /\ \A s \in Slots : leg[s].pc = "idle"
        /\ \A c \in Calls : ~Under(c)
        /\ \A w \in Workers : reaping[w] = 0
        /\ \A j \in JobId : jobs[j].state = "absent"

Early(s) ==
    \/ leg[s].pc \in {"idle", "enqueue_start"}
    \/ leg[s].pc \in {"load", "start", "throw", "mark", "return"} /\ ProcOf[s] \in Workers

\* A call finds the run once, and then there is one.
Given ==
    \A c \in Calls :
        /\ call[c].pc = "new" => call[c].kind = "none"
        /\ call[c].pc \in {"new", "remove", "clear", "add", "find"} => call[c].found = NoRun
        /\ call[c].pc = "write" => call[c].found.status # "none"

\* Until a worker has written the run, it has no token, no call knows it as failed or has
\* found a token, and no leg is past its first look.
Untouched ==
    Unread =>
        /\ row.token = 0 /\ \A p \in Processes : cache[p].token = 0
        /\ row.status \notin {"running", "awaiting_approval"}
        /\ \A c \in Calls : /\ cache[CallProc[c]].status # "failed"
                            /\ Under(c) => call[c].kind # "post"
                            /\ call[c].pc = "write" => call[c].found.token = 0
        /\ \A s \in Slots : Early(s)

KInv == CInv /\ ServedApart /\ Told /\ NothingYet /\ Given /\ Untouched

LEMMA ProcessFacts ==
    /\ Workers \subseteq Processes /\ Workers \cap Apis = {}
    /\ \A c \in Calls : CallProc[c] \in Processes /\ CallProc[c] \notin Workers
  BY RunAssumption, ControlAssumption DEF Processes

Works(s) == Create(s) \/ Execute(s) \/ Step(s) \/ Resume(s) \/ Hook(s)

WritesOn(s) ==
    /\ leg[s].pc # "idle" /\ Written(s)
    /\ row'.status = Copy(s).status \/ row'.status # "none"

Takes(s) == CreateRun(s) \/ ResumeSweep(s) \/ \E j \in JobId : Deliver(s, j)

LEMMA PauseForWebhookEffect ==
    ASSUME IInv, NEW s \in Slots, PauseForWebhook(s)
    PROVE  leg[s].pc = "hook" /\ row'.status = "queued" /\ Written(s) /\ Others(s)
  <1> DEFINE reached == Reached(Copy(s), leg[s].at + 1)
             run == [reached EXCEPT !.status = "queued", !.results = leg[s].results,
                                    !.token = Ordinal(s)]
  <1>1. reached \in Run
    <2>1. leg[s].at + 1 \in 0..(Len(Template) + 1)
      BY LegFacts, TemplateFacts DEF PauseForWebhook, At, Placed, OnStep
    <2> QED
      BY <2>1, CopyFacts, ReachedFacts
  <1>2. run.status = "queued"
    <2> HIDE DEF reached
    <2> QED
      BY <1>1 DEF Run
  <1>3. Update(s, run) /\ Goto(s, [leg[s] EXCEPT !.pc = "return"]) /\ leg[s].pc = "hook"
    BY DEF PauseForWebhook, Done, At
  <1> HIDE DEF run
  <1> QED
    BY <1>2, <1>3, Writes, Goes

\* What a step of a slot does to the row and to its process's copy.
LEMMA SlotWrites ==
    ASSUME IInv, NEW s \in Slots, Works(s)
    PROVE  /\ Others(s)
           /\ Unwritten \/ CreateRun(s) \/ MarkFailed(s) \/ WritesOn(s)
           /\ leg[s].pc # "idle" \/ Takes(s)
  <1> USE DEF WritesOn, Takes
  <1>1. CASE Create(s)
    BY <1>1, CreateRunEffect, EnqueueStartEffect, EnqueueStartFailsEffect DEF Create
  <1>2. CASE Execute(s)
    <2>1. CASE \E j \in JobId : Deliver(s, j)
      BY <2>1, DeliverEffect
    <2>2. CASE SkipRun(s) \/ LoadRun(s) \/ StartFails(s)
      BY <2>2, SkipRunEffect, LoadRunEffect, StartFailsEffect
    <2>3. CASE StartRun(s)
      BY <2>3, StartRunEffect
    <2>4. CASE JobFails(s)
      BY <2>4, Goes DEF JobFails, At, Unwritten
    <2>5. CASE MarkFailed(s)
      BY <2>5, MarkFailedEffect
    <2>6. CASE Return(s)
      BY <2>6, ReturnEffect
    <2> QED
      BY <1>2, <2>1, <2>2, <2>3, <2>4, <2>5, <2>6 DEF Execute
  <1>3. CASE Step(s)
    <2>1. CASE ReachStep(s) \/ BeginStep(s)
      BY <2>1, ReachStepEffect, BeginStepEffect
    <2>2. CASE DeadlinePasses(s) \/ CompleteRun(s) \/ FailRun(s)
      BY <2>2, DeadlinePassesEffect, CompleteRunEffect, FailRunEffect
    <2>3. CASE ReuseStep(s) \/ RunAction(s) \/ RunPure(s) \/ StepFails(s) \/ ReachWait(s)
      BY <2>3, ExecutedEffect DEF ReuseStep, RunAction, RunPure, StepFails, ReachWait
    <2>4. CASE ReachApproval(s) \/ CreateApproval(s)
      BY <2>4, ReachApprovalEffect, CreateApprovalEffect
    <2>5. CASE StampApproval(s)
      BY <2>5, StampApprovalEffect
    <2>6. CASE RecordStep(s)
      BY <2>6, RecordStepEffect
    <2>7. CASE PauseRun(s) \/ EnqueueWait(s)
      BY <2>7, PauseRunEffect, EnqueueWaitEffect
    <2>8. CASE EnqueueWaitFails(s)
      BY <2>8, EnqueueWaitFailsEffect
    <2> QED
      BY <1>3, <2>1, <2>2, <2>3, <2>4, <2>5, <2>6, <2>7, <2>8 DEF Step
  <1>4. CASE Resume(s)
    <2>1. CASE ResumeSweep(s)
      BY <2>1, ResumeSweepEffect
    <2>2. CASE ResumeFails(s) \/ ResumeRun(s)
      BY <2>2, ResumeFailsEffect, ResumeRunEffect
    <2>3. CASE RecordDecision(s)
      BY <2>3, RecordDecisionEffect
    <2> QED
      BY <1>4, <2>1, <2>2, <2>3 DEF Resume
  <1>5. CASE Hook(s)
    BY <1>5, ExecutedEffect, PauseForWebhookEffect DEF Hook, ReachHook
  <1> QED
    BY <1>1, <1>2, <1>3, <1>4, <1>5 DEF Works

\* Who has a copy of the run keeps one, and who writes it has one.
LEMMA SlotTold ==
    ASSUME KInv, NEW s \in Slots, Works(s), UNCHANGED call
    PROVE  /\ Told'
           /\ row.status # "none" => row'.status # "none"
           /\ Unread' => Unread
           /\ WritesOn(s) /\ Unread' => ProcOf[s] \notin Workers
  <1>1. IInv /\ ProcOf[s] \in Processes /\ Told
    BY ProcOfIsProcess DEF KInv, CInv
  <1>2. NoRun.status = "none"
    BY DEF NoRun
  <1>3. CASE Unwritten
    <2>1. WritesOn(s) /\ ProcOf[s] \in Workers => cache[ProcOf[s]] = row
      BY <1>3 DEF WritesOn, Written, Unwritten
    <2>2. WritesOn(s) /\ Unread' => ProcOf[s] \notin Workers
      <3> SUFFICES ASSUME WritesOn(s), Unread, ProcOf[s] \in Workers PROVE FALSE
        BY <1>3 DEF Unwritten, Unread
      <3>1. cache[ProcOf[s]] = NoRun /\ row = NoRun
        BY <2>1 DEF Unread
      <3> QED
        BY <1>2, <3>1 DEF WritesOn, KInv, NothingYet
    <2> QED
      BY <1>1, <1>3, <2>2 DEF Unwritten, Told, Unread
  <1>4. CASE CreateRun(s)
    <2>1. row'.status = "queued" /\ Written(s) /\ ProcOf[s] \in Apis /\ leg[s].pc = "idle"
      BY <1>1, <1>4, CreateRunEffect
    <2> QED
      BY <1>1, <2>1, ProcessFacts DEF Written, Told, Unread, WritesOn
  <1>5. CASE MarkFailed(s)
    <2>1. /\ row'.status = "failed"
          /\ \A q \in Processes \ {ProcOf[s]} : cache'[q] = cache[q]
          /\ cache'[ProcOf[s]] = NoRun \/ cache'[ProcOf[s]].status = "failed"
      BY <1>1, <1>5, MarkFailedEffect
    <2>2. cache[ProcOf[s]] = NoRun \/ cache'[ProcOf[s]].status = "failed"
      BY <1>1, <1>5 DEF MarkFailed, IInv, RunsOK, Run
    <2> QED
      BY <1>1, <1>2, <2>1, <2>2, ProcessFacts DEF Told, Unread, WritesOn, Written
  <1>6. CASE WritesOn(s)
    <2>1. row.status # "none"
      BY <1>6 DEF WritesOn, KInv, NothingYet
    <2>2. Copy(s).status # "none"
      BY <1>1, <1>2, <2>1 DEF Copy, Current, Told
    <2>3. row'.status # "none" /\ Written(s)
      BY <1>6, <2>2 DEF WritesOn
    <2> QED
      BY <1>1, <1>2, <2>3, ProcessFacts DEF Written, Told, Unread
  <1> QED
    BY <1>1, <1>3, <1>4, <1>5, <1>6, SlotWrites

LEMMA SlotNothingYet ==
    ASSUME KInv, NEW s \in Slots, Works(s), UNCHANGED call
    PROVE  NothingYet'
  <1>1. row'.status = "none" => row.status = "none"
    BY SlotTold
  <1>2. row.status = "none" => row'.status = "queued"
    <2> SUFFICES ASSUME row.status = "none" PROVE row'.status = "queued"
      OBVIOUS
    <2>1. IInv /\ leg[s].pc = "idle" /\ \A j \in JobId : jobs[j].state = "absent"
      BY DEF KInv, CInv, NothingYet
    <2>2. CreateRun(s)
      BY <2>1, SlotWrites, ResumeSweepEffect, DeliverEffect DEF Takes
    <2> QED
      BY <2>1, <2>2, CreateRunEffect
  <1> QED
    BY <1>1, <1>2 DEF NothingYet

\* An early leg of a run that nobody has parked goes on to be early until the run starts.
LEMMA EarlySteps ==
    ASSUME IInv, NEW s \in Slots, Works(s), Early(s), row.status # "awaiting_approval"
    PROVE  /\ Create(s) \/ Execute(s)
           /\ Early(s)' \/ StartRun(s)
           /\ leg[s].pc = "enqueue_start" => EnqueueStart(s) \/ EnqueueStartFails(s)
  <1>1. ~Step(s)
    BY DEF Step, ReachStep, BeginStep, DeadlinePasses, CompleteRun, ReuseStep, RunAction, RunPure,
           StepFails, ReachWait, ReachApproval, CreateApproval, StampApproval, RecordStep,
           FailRun, PauseRun, EnqueueWait, EnqueueWaitFails, At, Early
  <1>2. ~Resume(s) /\ ~Hook(s)
    BY DEF Resume, ResumeSweep, ResumeFails, ResumeRun, RecordDecision, Hook, ReachHook,
           PauseForWebhook, At, Early
  <1>3. Create(s) \/ Execute(s)
    BY <1>1, <1>2 DEF Works
  <1>4. CASE Create(s)
    BY <1>3, <1>4, CreateRunEffect, EnqueueStartEffect, EnqueueStartFailsEffect, IdleFacts
    DEF Create, Early
  <1>5. CASE Execute(s)
    <2>1. CASE \E j \in JobId : Deliver(s, j)
      BY <1>3, <2>1, DeliverEffect DEF Early
    <2>2. CASE SkipRun(s) \/ LoadRun(s) \/ StartFails(s)
      BY <1>3, <2>2, SkipRunEffect, LoadRunEffect, StartFailsEffect DEF Early
    <2>3. CASE StartRun(s)
      BY <1>3, <2>3, StartRunEffect
    <2>4. CASE JobFails(s)
      <3>1. leg'[s] = Idle \/ leg'[s] = [Idle EXCEPT !.pc = "mark"]
        BY <2>4, Goes DEF JobFails
      <3>2. leg[s].pc = "throw"
        BY <2>4 DEF JobFails, At
      <3> QED
        BY <1>3, <3>1, <3>2 DEF Idle, Early
    <2>5. CASE MarkFailed(s)
      BY <1>3, <2>5, Goes, IdleFacts DEF MarkFailed, At, Early
    <2>6. CASE Return(s)
      BY <1>3, <2>6, ReturnEffect, IdleFacts DEF Early
    <2> QED
      BY <1>5, <2>1, <2>2, <2>3, <2>4, <2>5, <2>6 DEF Execute
  <1> QED
    BY <1>3, <1>4, <1>5

LEMMA SlotUntouched ==
    ASSUME KInv, NEW s \in Slots, Works(s), UNCHANGED call
    PROVE  Untouched'
  <1> SUFFICES ASSUME Unread' PROVE Untouched'
    BY DEF Untouched
  <1>1. /\ IInv /\ ProcOf[s] \in Processes /\ Unread
        /\ ServedApart /\ Others(s)
        /\ WritesOn(s) => ProcOf[s] \notin Workers
    BY ProcOfIsProcess, SlotTold, SlotWrites DEF KInv, CInv
  <1>2. /\ row.token = 0 /\ \A p \in Processes : cache[p].token = 0
        /\ row.status \notin {"running", "awaiting_approval"}
        /\ \A c \in Calls : /\ cache[CallProc[c]].status # "failed"
                            /\ Under(c) => call[c].kind # "post"
                            /\ call[c].pc = "write" => call[c].found.token = 0
        /\ \A t \in Slots : Early(t)
    BY <1>1 DEF KInv, Untouched
  <1>3. SUFFICES /\ row'.token = 0 /\ \A p \in Processes : cache'[p].token = 0
                 /\ row'.status \notin {"running", "awaiting_approval"}
                 /\ \A q \in Processes \ {ProcOf[s]} : cache'[q] = cache[q]
                 /\ Early(s)'
    BY <1>1, <1>2, ProcessFacts DEF Untouched, ServedApart, Early, Others, Under
  <1>4. CASE Unwritten
    <2>1. ~StartRun(s)
      <3> SUFFICES ASSUME StartRun(s) PROVE FALSE
        OBVIOUS
      <3>1. leg[s].pc = "start" /\ row'.status = "running"
        BY <1>1, StartRunEffect
      <3> QED
        BY <1>2, <1>4, <3>1 DEF Unwritten
    <2> QED
      BY <1>1, <1>2, <1>4, <2>1, EarlySteps DEF Unwritten
  <1>5. CASE CreateRun(s)
    BY <1>1, <1>2, <1>5, CreateRunEffect DEF Written, Early, NoRun
  <1>6. CASE MarkFailed(s)
    <2>1. /\ row' = [row EXCEPT !.status = "failed"]
          /\ cache' = IF cache[ProcOf[s]] = NoRun THEN cache
                      ELSE [cache EXCEPT ![ProcOf[s]].status = "failed"]
          /\ leg'[s] = Idle
      BY <1>1, <1>6, Goes DEF MarkFailed
    <2> QED
      BY <1>1, <1>2, <2>1, IdleFacts DEF IInv, RunsOK, Run, Early
  <1>7. CASE WritesOn(s)
    <2>1. leg[s].pc = "enqueue_start"
      BY <1>1, <1>2, <1>7 DEF WritesOn, Early
    <2>2. EnqueueStart(s) \/ EnqueueStartFails(s)
      BY <1>1, <1>2, <2>1, EarlySteps
    <2>3. CASE EnqueueStart(s)
      BY <1>1, <1>2, <1>4, <2>3, EnqueueStartEffect
    <2>4. CASE EnqueueStartFails(s)
      <3>1. /\ row' = [Copy(s) EXCEPT !.status = "failed"] /\ Written(s) /\ leg'[s] = Idle
        BY <1>1, <2>4, EnqueueStartFailsEffect
      <3>2. Copy(s) \in Run /\ Copy(s).token = 0
        BY <1>1, <1>2, CopyFacts DEF Copy, Current
      <3>3. row'.status = "failed" /\ row'.token = 0
        BY <3>1, <3>2 DEF Run
      <3>4. Early(s)'
        BY <3>1, IdleFacts DEF Early
      <3>5. /\ cache'[ProcOf[s]] = row'
            /\ \A q \in Processes \ {ProcOf[s]} : cache'[q] = cache[q]
        BY <3>1 DEF Written
      <3>6. \A q \in Processes : cache'[q].token = 0
        BY <1>2, <3>3, <3>5
      <3> QED
        BY <3>3, <3>4, <3>5, <3>6
    <2> QED
      BY <2>2, <2>3, <2>4
  <1> QED
    BY <1>1, <1>4, <1>5, <1>6, <1>7, SlotWrites

LEMMA SlotKInv ==
    ASSUME KInv, CInv', NEW s \in Slots, Works(s), UNCHANGED call
    PROVE  KInv'
  BY SlotTold, SlotNothingYet, SlotUntouched DEF KInv, ServedApart, Given

\* The queue, the decisions and the reaper.
LEMMA OtherWork ==
    ASSUME KInv, CInv', UNCHANGED call,
           \/ \E j \in JobId : DropStalled(j)
           \/ Approve
           \/ \E w \in Workers : Reaper(w)
    PROVE  KInv'
  <1>0. UNCHANGED <<cache, leg>>
    BY DEF DropStalled, Approve, Decide, PersistDecision, TimerFires, DropTimer, Reaper, Reap,
           EnqueueReplay, GiveUp, elsewhere
  <1>1. row' = row \/ (row.status = "running" /\ row'.status \in {"queued", "failed"})
    <2>1. row \in Run
      BY DEF KInv, CInv, IInv, RunsOK
    <2> QED
      BY <2>1 DEF DropStalled, Approve, Decide, PersistDecision, TimerFires, DropTimer, Reaper,
             Reap, EnqueueReplay, GiveUp, Stranded, Run
  <1>2. Told' /\ Untouched'
    BY <1>0, <1>1 DEF KInv, Told, Untouched, Unread, Early, Under
  <1>3. NothingYet'
    <2> SUFFICES ASSUME row'.status = "none" PROVE NothingYet'
      BY DEF NothingYet
    <2>1. row' = row
      BY <1>1
    <2>2. /\ \A j \in JobId : jobs[j].state = "absent"
          /\ \A w \in Workers : reaping[w] = 0
      BY <2>1 DEF KInv, NothingYet
    <2>3. UNCHANGED <<jobs, reaping>>
      BY <2>1, <2>2 DEF DropStalled, Approve, Decide, PersistDecision, TimerFires, DropTimer,
             Reaper, Reap, EnqueueReplay, GiveUp, Stranded, KInv, elsewhere
    <2> QED
      BY <1>0, <2>1, <2>3 DEF KInv, NothingYet, Under
  <1> QED
    BY <1>2, <1>3 DEF KInv, ServedApart, Given

LEMMA CrashKInv ==
    ASSUME KInv, CInv', NEW p \in Processes, ControlCrash(p)
    PROVE  KInv'
  <1>1. /\ p \notin Workers /\ cache' = [cache EXCEPT ![p] = NoRun] /\ row' = row
        /\ \A s \in Slots : leg'[s] = leg[s] \/ leg'[s] = Idle
        /\ \A w \in Workers : reaping'[w] = reaping[w]
        /\ \A c \in Calls : call'[c] = call[c] \/ call'[c].pc = "over"
    <2>1. p \notin Workers /\ cache' = [cache EXCEPT ![p] = NoRun] /\ row' = row
      BY DEF KInv, ServedApart, ControlCrash, Crash
    <2>2. \A s \in Slots : leg'[s] = leg[s] \/ leg'[s] = Idle
      BY DEF ControlCrash, Crash
    <2>3. \A w \in Workers : reaping'[w] = reaping[w]
      BY <2>1 DEF ControlCrash, Crash
    <2>4. ASSUME NEW c \in Calls
          PROVE  call'[c] = call[c] \/ call'[c].pc = "over"
      <3>1. call'[c] \in {call[c], [call[c] EXCEPT !.pc = "over"]}
        BY DEF ControlCrash
      <3> QED
        BY <3>1 DEF KInv, CInv, CallsOK, Call
    <2> QED
      BY <2>1, <2>2, <2>3, <2>4
  <1>2. /\ \A q \in Processes : cache'[q] = NoRun \/ cache'[q] = cache[q]
        /\ \A w \in Workers : cache'[w] = cache[w]
    BY <1>1, ProcessFacts DEF KInv, CInv, IInv, RunsOK
  <1>3. NoRun.status = "none" /\ NoRun.token = 0
    BY DEF NoRun
  <1>4. Told' /\ (Unread' <=> Unread)
    BY <1>2 DEF KInv, Told, Unread
  <1>5. Untouched'
    BY <1>1, <1>2, <1>3, <1>4, IdleFacts, ProcessFacts DEF KInv, Untouched, Early, Under
  <1>6. NothingYet'
    <2> SUFFICES ASSUME row.status = "none" PROVE NothingYet'
      BY <1>1 DEF NothingYet
    <2>1. \A j \in JobId : jobs'[j].state = "absent"
      <3>1. \A s \in Slots : leg[s].job \notin JobId
        BY JobFacts DEF KInv, CInv, IInv, JobsOK, Held, NothingYet
      <3> QED
        BY <3>1 DEF ControlCrash, Crash, KInv, NothingYet
    <2> QED
      BY <1>1, <1>2, <2>1, IdleFacts DEF KInv, NothingYet, Under
  <1> QED
    BY <1>1, <1>4, <1>5, <1>6 DEF KInv, ServedApart, Given

\* A call that writes the run puts a status in.
LEMMA CallWritesK ==
    ASSUME KInv, NEW c \in Calls, NEW run \in Run, NEW next \in {"over", "wake"},
           call[c].pc = "write", UpdateIn(CallProc[c], run), Moves(c, next),
           call[c].kind = "post" => run.status = call[c].found.status,
           call[c].kind # "post" => /\ run.status \in {"canceled", "cancelling", "queued"}
                                    /\ run.token = call[c].found.token,
           UNCHANGED <<jobs, untouched>>, CInv'
    PROVE  KInv'
  <1>1. /\ CallProc[c] \in Processes /\ CallProc[c] \notin Workers
        /\ row' = run /\ cache'[CallProc[c]] = run
        /\ \A q \in Processes \ {CallProc[c]} : cache'[q] = cache[q]
        /\ UNCHANGED <<leg, reaping>>
    BY ProcessFacts DEF KInv, CInv, IInv, RunsOK, UpdateIn, untouched
  <1>2. row.status # "none"
    BY DEF KInv, NothingYet, Under
  <1>3. run.status # "none"
    BY DEF KInv, Given
  <1>4. Told' /\ NothingYet' /\ (Unread' <=> Unread)
    BY <1>1, <1>3, ProcessFacts DEF KInv, Told, NothingYet, Unread
  <1>5. /\ call'[c].pc = next /\ call'[c].kind = call[c].kind
        /\ \A d \in Calls \ {c} : call'[d] = call[d]
    BY DEF KInv, Moves, CInv, CallsOK, Call
  <1>6. Untouched'
    <2> SUFFICES ASSUME Unread PROVE Untouched'
      BY <1>4 DEF Untouched
    <2>1. call[c].kind # "post"
      BY DEF KInv, Untouched, Under
    <2>2. run.token = 0 /\ run.status \in {"canceled", "cancelling", "queued"}
      BY <2>1 DEF KInv, Untouched
    <2> QED
      BY <1>1, <1>5, <2>1, <2>2, ProcessFacts DEF KInv, Untouched, Early, Under
  <1>7. Given'
    BY <1>5 DEF KInv, Given
  <1> QED
    BY <1>4, <1>6, <1>7 DEF KInv, ServedApart

\* A call that only begins, ends, reads, or works on the queue.
LEMMA CallMovesK ==
    ASSUME KInv, CInv', NEW c \in Calls, row.status # "none",
           UNCHANGED <<row, cache, leg, reaping>>,
           \A d \in Calls \ {c} : call'[d] = call[d],
           call'[c].pc # "new" /\ (call'[c].found = NoRun \/ call'[c].pc \in {"write", "over"}),
           call'[c].pc = "write" => call'[c].found = Seen(c),
           Unread => call'[c].kind # "post" \/ call'[c].pc = "over"
    PROVE  KInv'
  <1>1. Given'
    <2>1. Seen(c).status # "none"
      BY ProcessFacts DEF KInv, Told, Seen, Current
    <2> QED
      BY <2>1 DEF KInv, Given
  <1>2. Unread => Seen(c).token = 0
    BY ProcessFacts DEF KInv, Untouched, Seen, Current
  <1>3. Untouched'
    BY <1>2 DEF KInv, Untouched, Unread, Early, Under
  <1> QED
    BY <1>1, <1>3 DEF KInv, ServedApart, Told, NothingYet

LEMMA BeginsFacts ==
    ASSUME KInv, NEW c \in Calls, NEW begun, Begins(c, begun)
    PROVE  /\ call'[c] = begun /\ \A d \in Calls \ {c} : call'[d] = call[d]
           /\ UNCHANGED <<row, cache, leg, reaping, jobs>>
  BY DEF Begins, vars, KInv, CInv, CallsOK

LEMMA MovesOn ==
    ASSUME KInv, NEW c \in Calls, NEW pc, Moves(c, pc)
    PROVE  /\ call'[c].pc = pc /\ call'[c].kind = call[c].kind
           /\ call'[c].at = call[c].at /\ call'[c].found = call[c].found
           /\ \A d \in Calls \ {c} : call'[d] = call[d]
  BY DEF Moves, KInv, CInv, CallsOK, Call

LEMMA FindsFacts ==
    ASSUME KInv, NEW c \in Calls, Finds(c)
    PROVE  /\ call[c].pc = "find" /\ call'[c].pc = "write" /\ call'[c].kind = call[c].kind
           /\ call'[c].at = call[c].at /\ call'[c].found = Seen(c)
           /\ \A d \in Calls \ {c} : call'[d] = call[d]
           /\ UNCHANGED <<row, cache, leg, reaping, jobs>>
  <1>1. call'[c] = [call[c] EXCEPT !.pc = "write", !.found = Seen(c)]
    BY DEF Finds, KInv, CInv, CallsOK
  <1>2. call[c] \in Call
    BY CallFacts DEF KInv
  <1> QED
    BY <1>1, <1>2 DEF Finds, KInv, CInv, CallsOK, Call, vars

LEMMA ReachedKeeps ==
    ASSUME NEW run \in Run, NEW at \in 0..(Len(Template) + 1)
    PROVE  /\ Reached(run, at).status = run.status /\ Reached(run, at).at = at
           /\ Reached(run, at).token = 0 /\ Reached(run, at).results = run.results
  BY DEF Reached, Run

LEMMA CallKInv ==
    ASSUME KInv, CInv', NEW c \in Calls, Cancel(c) \/ Retry(c) \/ Post(c) \/ Finds(c)
    PROVE  KInv'
  <1>1. CASE CancelReads(c) \/ RetryReads(c)
    <2> DEFINE begun == IF CancelReads(c)
                        THEN [NewCall EXCEPT !.kind = "cancel", !.pc = "remove",
                                             !.inFlight = Seen(c).status = "running"]
                        ELSE [NewCall EXCEPT !.kind = "retry", !.pc = "clear"]
    <2>1. Begins(c, begun) /\ Seen(c).status \in {"queued", "running", "failed"}
      BY <1>1 DEF CancelReads, RetryReads
    <2>2. begun.pc \in {"remove", "clear"} /\ begun.kind # "post" /\ begun.found = NoRun
      BY DEF NewCall
    <2>3. row.status # "none"
      BY <2>1, ProcessFacts DEF KInv, NothingYet, Seen, Current
    <2> HIDE DEF begun
    <2> QED
      BY <2>1, <2>2, <2>3, BeginsFacts, CallMovesK
  <1>2. CASE CancelRemoves(c) \/ RetryClears(c) \/ RetryAdds(c) \/ RetryFails(c)
             \/ PostWakes(c) \/ PostFails(c)
    <2>1. row.status # "none"
      BY <1>2 DEF CancelRemoves, RetryClears, RetryAdds, RetryFails, PostWakes, PostFails, KInv,
                  NothingYet, Under
    <2>2. PICK pc \in {"add", "find", "over"} : Moves(c, pc)
      BY <1>2 DEF CancelRemoves, RetryClears, RetryAdds, RetryFails, PostWakes, PostFails
    <2>4. /\ Unread => call[c].kind # "post"
          /\ pc \in {"add", "find"} => call[c].found = NoRun
      <3>1. call[c].pc = "wake" => pc = "over"
        BY <1>2, <2>2, MovesOn DEF CancelRemoves, RetryClears, RetryAdds, RetryFails, PostWakes,
                                   PostFails
      <3>2. call[c].pc \in {"remove", "clear", "add", "wake"}
        BY <1>2 DEF CancelRemoves, RetryClears, RetryAdds, RetryFails, PostWakes, PostFails
      <3> QED
        BY <3>1, <3>2 DEF KInv, Given, Untouched, Under
    <2>3. UNCHANGED <<row, cache, leg, reaping>>
      BY <1>2 DEF CancelRemoves, RetryClears, RetryAdds, RetryFails, PostWakes, PostFails,
                  untouched, vars
    <2> QED
      BY <2>1, <2>2, <2>3, <2>4, MovesOn, CallMovesK
  <1>3. CASE CancelWrites(c)
    <2> DEFINE status == IF call[c].inFlight THEN "cancelling" ELSE "canceled"
               run == [call[c].found EXCEPT !.status = status]
    <2>1. status \in {"cancelling", "canceled"}
      OBVIOUS
    <2>2. /\ call[c].pc = "write" /\ UpdateIn(CallProc[c], run) /\ Moves(c, "over")
          /\ call[c].kind = "cancel" /\ UNCHANGED <<jobs, untouched>>
      BY <1>3 DEF CancelWrites, WritesBack
    <2> HIDE DEF status
    <2>3. run \in Run /\ run.status = status /\ run.token = call[c].found.token
      BY <2>1, CallFacts DEF KInv, Run, Statuses
    <2> HIDE DEF run
    <2> QED
      BY <2>1, <2>2, <2>3, CallWritesK
  <1>4. CASE RetryMarks(c)
    <2> DEFINE run == [call[c].found EXCEPT !.status = "queued"]
    <2>1. /\ call[c].pc = "write" /\ UpdateIn(CallProc[c], run) /\ Moves(c, "over")
          /\ call[c].kind = "retry" /\ UNCHANGED <<jobs, untouched>>
      BY <1>4 DEF RetryMarks, WritesBack
    <2>2. run \in Run /\ run.status = "queued" /\ run.token = call[c].found.token
      BY CallFacts DEF KInv, Run, Statuses
    <2> HIDE DEF run
    <2> QED
      BY <2>1, <2>2, CallWritesK
  <1>5. CASE PostReads(c)
    <2> DEFINE begun == [NewCall EXCEPT !.kind = "post", !.pc = "find", !.at = Seen(c).at]
    <2>1. Begins(c, begun)
      BY <1>5 DEF PostReads
    <2>2. row.token # 0 \/ cache[CallProc[c]].token # 0
      BY <1>5 DEF PostReads
    <2>3. ~Unread
      BY <2>2, ProcessFacts DEF KInv, Untouched
    <2>4. row.status # "none"
      BY <2>2, ProcessFacts DEF KInv, NothingYet, NoRun
    <2>5. begun.pc = "find" /\ begun.found = NoRun
      BY DEF NewCall
    <2> HIDE DEF begun
    <2> QED
      BY <2>1, <2>3, <2>4, <2>5, BeginsFacts, CallMovesK
  <1>6. CASE PostConsumes(c)
    <2> DEFINE run == Reached(call[c].found, call[c].at)
    <2>1. /\ call[c].pc = "write" /\ UpdateIn(CallProc[c], run) /\ Moves(c, "wake")
          /\ call[c].kind = "post" /\ UNCHANGED <<jobs, untouched>>
      BY <1>6 DEF PostConsumes, WritesBack
    <2>2. run \in Run /\ run.status = call[c].found.status
      BY CallFacts, ReachedFacts, ReachedKeeps DEF KInv
    <2> HIDE DEF run
    <2> QED
      BY <2>1, <2>2, CallWritesK
  <1>7. CASE Finds(c)
    <2>1. row.status # "none" /\ (Unread => call[c].kind # "post")
      BY <1>7 DEF Finds, KInv, NothingYet, Untouched, Under
    <2> QED
      BY <1>7, <2>1, FindsFacts, CallMovesK
  <1> QED
    BY <1>1, <1>2, <1>3, <1>4, <1>5, <1>6, <1>7 DEF Cancel, Retry, Post

LEMMA NextKInv == KInv /\ CInv' /\ [ControlNext]_controlVars => KInv'
  <1> SUFFICES ASSUME KInv, CInv', [ControlNext]_controlVars PROVE KInv'
    OBVIOUS
  <1>1. ASSUME NEW s \in Slots, Works(s), UNCHANGED call
        PROVE  KInv'
    BY <1>1, SlotKInv
  <1>2. CASE /\ UNCHANGED call
             /\ \/ \E j \in JobId : DropStalled(j)
                \/ Approve
                \/ \E w \in Workers : Reaper(w)
    BY <1>2, OtherWork
  <1>3. ASSUME NEW p \in Processes, ControlCrash(p)
        PROVE  KInv'
    BY <1>3, CrashKInv
  <1>4. ASSUME NEW c \in Calls, Cancel(c) \/ Retry(c) \/ Post(c) \/ Finds(c)
        PROVE  KInv'
    BY <1>4, CallKInv
  <1>5. CASE UNCHANGED controlVars
    BY <1>5 DEF controlVars, vars, KInv, ServedApart, Told, NothingYet, Given, Untouched, Unread,
                Early, Under
  <1> QED
    BY <1>1, <1>2, <1>3, <1>4, <1>5 DEF ControlNext, Work, Works

LEMMA InitKInv == ControlInit /\ ServedApart => KInv
  <1> SUFFICES ASSUME ControlInit, ServedApart PROVE KInv
    OBVIOUS
  <1>1. NoRun.status = "none" /\ NoRun.token = 0 /\ NewCall.pc = "new"
        /\ NewCall.kind = "none" /\ NewCall.found = NoRun
    BY DEF NoRun, NewCall
  <1> QED
    BY <1>1, InitCInv, IdleFacts, ProcessFacts
    DEF ControlInit, Init, KInv, Told, NothingYet, Given, Untouched, Early, Under

\* While no worker dies, and until a worker has written the run, it is queued, failed or
\* canceled, with no token, no leg past its first look and no post on its way.
THEOREM KInvariance == ControlSpec /\ ServedApart => []KInv
  <1>1. ControlInit /\ ServedApart => KInv
    BY InitKInv
  <1> QED
    BY <1>1, NextKInv, ControlInvariance, PTL DEF ControlSpec

\* A run canceled before a worker has read it stays canceled, however many calls are still
\* made for it and whatever is left of its jobs.
THEOREM CanceledStaysAlways == ControlSpec /\ ServedApart => CanceledStays
  <1> DEFINE Stays == CanceledInTime =>
                          /\ row'.status = "canceled"
                          /\ \A w \in Workers : cache'[w] = NoRun
                          /\ \A s \in Slots : leg'[s].pc \in {"idle", "load", "return"}
                          /\ \A c \in Calls : (call[c].kind # "cancel" => ~Under(c))'
  <1>1. KInv /\ [ControlNext]_controlVars => [Stays]_controlVars
    <2> SUFFICES ASSUME KInv, ControlNext, CanceledInTime PROVE Stays
      OBVIOUS
    <2>0. /\ IInv /\ Unread /\ row.status = "canceled"
          /\ \A c \in Calls : ~Under(c)
          /\ \A s \in Slots : leg[s].pc \in {"idle", "load", "return"} /\ Early(s)
      BY DEF KInv, CInv, CanceledInTime, Untouched, Unread
    <2>1. ASSUME NEW s \in Slots, Works(s), UNCHANGED call
          PROVE  Stays
      <3>1. Create(s) \/ Execute(s)
        BY <2>0, <2>1, EarlySteps
      <3>2. (\E j \in JobId : Deliver(s, j)) \/ SkipRun(s) \/ Return(s)
        <4>1. ~CreateRun(s)
          BY <2>0 DEF CreateRun, NoRun
        <4>2. ~LoadRun(s)
          <5>1. leg[s].pc = "load" => Copy(s) = row
            BY <2>0 DEF Early, Unread, Copy, Current
          <5> QED
            BY <2>0, <5>1 DEF LoadRun, Queued, At
        <4> QED
          BY <2>0, <3>1, <4>1, <4>2
          DEF Create, Execute, EnqueueStart, EnqueueStartFails, StartFails, StartRun, JobFails,
              MarkFailed, At
      <3>3. Unwritten /\ leg'[s].pc \in {"idle", "load", "return"} /\ Others(s)
        BY <2>0, <3>2, DeliverEffect, SkipRunEffect, ReturnEffect, IdleFacts
      <3> QED
        BY <2>0, <2>1, <3>3 DEF Unwritten, Others, Unread, Under
    <2>2. CASE /\ UNCHANGED call
               /\ \/ \E j \in JobId : DropStalled(j)
                  \/ Approve
                  \/ \E w \in Workers : Reaper(w)
      <3>1. UNCHANGED <<row, cache, leg>>
        BY <2>0, <2>2 DEF DropStalled, Approve, Decide, PersistDecision, TimerFires, DropTimer,
                          Reaper, Reap, EnqueueReplay, GiveUp, Stranded, elsewhere
      <3> QED
        BY <2>0, <2>2, <3>1 DEF Unread, Under
    <2>3. ASSUME NEW p \in Processes, ControlCrash(p)
          PROVE  Stays
      <3>1. p \notin Workers
        BY <2>3 DEF KInv, ServedApart, ControlCrash, Crash
      <3>2. /\ row' = row /\ \A w \in Workers : cache'[w] = cache[w]
            /\ \A s \in Slots : leg'[s] = leg[s] \/ leg'[s] = Idle
        BY <2>3, <3>1, ProcessFacts DEF ControlCrash, Crash, KInv, CInv, IInv, RunsOK
      <3>3. \A c \in Calls : ~Under(c)'
        <4> SUFFICES ASSUME NEW c \in Calls PROVE ~Under(c)'
          OBVIOUS
        <4>1. call'[c] \in {call[c], [call[c] EXCEPT !.pc = "over"]}
          BY <2>3 DEF ControlCrash
        <4> QED
          BY <2>0, <4>1 DEF Under, KInv, CInv, CallsOK, Call
      <3> QED
        BY <2>0, <3>2, <3>3, IdleFacts DEF Unread
    <2>4. ASSUME NEW c \in Calls, Cancel(c) \/ Retry(c) \/ Post(c) \/ Finds(c)
          PROVE  Stays
      <3>1. ~RetryReads(c)
        BY <2>0 DEF RetryReads, Seen, Current, KInv, Untouched
      <3>2. ~PostReads(c)
        BY <2>0, ProcessFacts DEF PostReads, KInv, Untouched
      <3>3. CancelReads(c)
        BY <2>0, <2>4, <3>1, <3>2
        DEF Under, Cancel, CancelRemoves, CancelWrites, Retry, RetryClears, RetryAdds,
            RetryMarks, RetryFails, Post, PostConsumes, PostWakes, PostFails, Finds, WritesBack
      <3> DEFINE begun == [NewCall EXCEPT !.kind = "cancel", !.pc = "remove",
                                          !.inFlight = Seen(c).status = "running"]
      <3>4. Begins(c, begun)
        BY <3>3 DEF CancelReads
      <3>5. begun.kind = "cancel"
        BY Zenon DEF NewCall
      <3> HIDE DEF begun
      <3>6. call'[c].kind = "cancel" /\ \A d \in Calls \ {c} : call'[d] = call[d]
        BY <3>4, <3>5, BeginsFacts
      <3>7. UNCHANGED <<row, cache, leg>>
        BY <3>4 DEF Begins, vars
      <3> QED
        BY <2>0, <3>6, <3>7 DEF Unread, Under
    <2> QED
      BY <2>1, <2>2, <2>3, <2>4 DEF ControlNext, Work, Works
  <1> QED
    BY <1>1, KInvariance, PTL DEF ControlSpec, CanceledStays

----------------------------------------------------------------------------
(* A queued run is attended                                                *)

\* The template has actions, pure steps and waits for webhooks, and no step outlasts
\* the reaper's patience.
Hooked ==
    /\ \A i \in Steps : Template[i] \in {"action", "pure", "hook"}
    /\ ~SlowSteps

\* A call finds no copy of the run that an earlier call has left in its process.
CallsApart == \A c, d \in Calls : CallProc[c] = CallProc[d] => c = d

\* The leg has started the run and not yet left it.
Drives(s) == leg[s].pc \in {"step", "begin", "exec", "record", "fail", "hook"}

\* The leg has a job and has not yet looked at the run, or not yet started it.
Opens(s) == leg[s].pc \in {"load", "start", "throw"}

\* The leg has read the run's results.
HasRun(s) == leg[s].pc = "start" \/ Drives(s)

\* The step that ends a leg is a wait for a webhook, and past the one that woke the run; the
\* step at work has an entry of its own among the results.
StepHooked(s) ==
    /\ leg[s].pc = "record" => leg[s].outcome \in {"next", "fail", "hook"}
    /\ leg[s].pc \in {"exec", "record", "hook"} => Len(leg[s].results) # 0
    /\ leg[s].pc \in {"exec", "record"} => ~leg[s].results[Ordinal(s)].keyed
    /\ (leg[s].pc = "record" /\ leg[s].outcome = "hook") \/ leg[s].pc = "hook"
         => Kind(s) = "hook"
    /\ HasRun(s) /\ leg[s].job.kind = "hook" => leg[s].at >= leg[s].job.n

\* Legs of workers alone have jobs, and none parks the run or pauses it for a while.
LegsHooked ==
    \A s \in Slots :
        /\ leg[s].pc \in {"idle", "enqueue_start", "mark", "return"} \/ Opens(s) \/ Drives(s)
        /\ leg[s].pc \notin {"idle", "enqueue_start"} => ProcOf[s] \in Workers
        /\ leg[s].pc = "enqueue_start" => ProcOf[s] \notin Workers
        /\ leg[s].pc \in {"idle", "enqueue_start", "mark"} => leg[s].job = NoJob
        /\ Opens(s) \/ Drives(s) => leg[s].job \in JobId
        /\ StepHooked(s)

\* A wait for a webhook is the step before n.
Behind(n) == n - 1 \in Steps /\ Template[n - 1] = "hook"

\* A token is minted behind a wait.
RunHooked(run) == run.status # "awaiting_approval" /\ (run.token # 0 => Behind(run.at))

CopiesHooked == RunHooked(row) /\ \A p \in Processes : RunHooked(cache[p])

\* The reaper finds nothing to replay: a run that is running is being driven.
Attended ==
    /\ attempts = 0 /\ \A w \in Workers : reaping[w] = 0
    /\ row.status = "running" => \E s \in Slots : Drives(s)

\* A call works on its own endpoint's steps, and reads the row until it has written it.
CallsPlaced ==
    \A c \in Calls :
        /\ call[c].pc \notin {"wake", "over"} => cache[CallProc[c]] = NoRun
        /\ call[c].pc = "new" <=> call[c].kind = "none"
        /\ call[c].pc = "remove" => call[c].kind = "cancel"
        /\ call[c].pc \in {"clear", "add"} => call[c].kind = "retry"
        /\ call[c].pc = "wake" => call[c].kind = "post"
        /\ call[c].kind = "post" => Behind(call[c].at)
        /\ call[c].pc = "write" => RunHooked(call[c].found)

Posted(c) == call[c].kind = "post" /\ call[c].pc = "over"

\* The job of a wait is there because a post was made for it; the first job is the only
\* other one.
JobsPosted ==
    \A j \in JobId :
        /\ jobs[j].state # "stalled"
        /\ j.kind \in {"wait", "resume"} => jobs[j].state = "absent"
        /\ j.kind = "hook" /\ jobs[j].state # "absent" =>
              \E c \in Calls : Posted(c) /\ call[c].at = j.n

QuietInv == LegsHooked /\ CopiesHooked /\ Attended /\ CallsPlaced /\ JobsPosted

NoRetry == \A c \in Calls : call[c].kind # "retry"

\* Until a worker has written the run, its first job is its only one, and it is added
\* once; afterwards the first job is used up.
FirstJobFirst ==
    /\ \A s, t \in Slots : leg[s].pc = "enqueue_start" /\ leg[t].pc = "enqueue_start" => s = t
    /\ \A s \in Slots : leg[s].pc = "enqueue_start" => jobs[StartJob].state = "absent" /\ Unread
    /\ Unread => \A j \in JobId \ {StartJob} : jobs[j].state = "absent"
    /\ ~Unread => /\ jobs[StartJob].state # "ready"
                  /\ \A s \in Slots : Opens(s) => leg[s].job # StartJob

FirstQueued ==
    \/ \E s \in Slots : leg[s].pc = "enqueue_start" \/ (Opens(s) /\ leg[s].job = StartJob)
    \/ jobs[StartJob].state \in {"ready", "dropped"}
    \/ /\ jobs[StartJob].state = "absent"
       /\ \/ crashes > 0
          \/ \E c \in Calls : call[c].kind = "cancel" /\ call[c].pc \in {"find", "write"}

\* The post's job is on its way to a leg, or its loss is one of WokenInVain.
PostQueued(c) ==
    /\ call[c].kind = "post" /\ row.at = call[c].at
    /\ \/ call[c].pc = "wake"
       \/ /\ call[c].pc = "over"
          /\ \/ jobs[HookJob(call[c].at)].state \in {"absent", "ready"}
             \/ \E s \in Slots : Opens(s) /\ leg[s].job = HookJob(call[c].at)
             \/ \E d \in Calls \ {c} : call[d].kind = "post" /\ call[d].pc # "new"
             \/ \E w \in Workers : cache[w].status \notin {"none", "queued"}

QueuedExplained ==
    row.status = "queued" =>
        \/ row.token # 0
        \/ \E s \in Slots : Drives(s) \/ leg[s].pc = "mark"
        \/ Unread /\ FirstQueued
        \/ \E c \in Calls : PostQueued(c)

QInv == QuietInv /\ (NoRetry => FirstJobFirst /\ QueuedExplained)
KQInv == KInv /\ Hooked /\ CallsApart /\ PostsInTime /\ QInv

LEMMA HookedFacts ==
    ASSUME KQInv, NEW s \in Slots
    PROVE  /\ IInv /\ leg[s].at \in Nat /\ Placed(leg[s])
           /\ leg[s].at \in Steps => Kind(s) \in {"action", "pure", "hook"}
           /\ Copy(s) \in Run /\ RunHooked(Copy(s))
           /\ ProcOf[s] \in Processes
  <1>1. IInv /\ ProcOf[s] \in Processes /\ Copy(s) \in Run
    BY CopyFacts, ProcOfIsProcess DEF KQInv, KInv, CInv
  <1>2. RunHooked(Copy(s))
    BY <1>1 DEF KQInv, QInv, QuietInv, CopiesHooked, Copy, Current
  <1> QED
    BY <1>1, <1>2, LegFacts DEF KQInv, Hooked, Kind

\* A copy that is written mints no token: if it has one, the writer's copy had it.
TokenKept(s) == row'.token # 0 => Copy(s).token # 0 /\ row'.at = Copy(s).at

\* A leg loses no result that it can reuse, adds what it records, and writes its own results
\* or those of its copy.
ResultsGoOn(s) ==
    /\ leg'[s].prior = leg[s].prior
    /\ Reusable(leg[s].results) \subseteq Reusable(leg'[s].results)
    /\ recorded' \subseteq recorded \union Reusable(leg'[s].results)
    /\ \/ Unwritten /\ recorded' = recorded
       \/ Written(s) /\ row'.results = leg'[s].results
       \/ Written(s) /\ row'.results = Copy(s).results /\ recorded' = recorded

\* What a leg that drives the run does with it.
DrivesOn(s) ==
    /\ Drives(s) /\ Others(s) /\ leg'[s].job = leg[s].job
    /\ UNCHANGED <<jobs, attempts, reaping, crashes>>
    /\ \/ /\ Drives(s)'
          /\ Unwritten \/ (Written(s) /\ row'.status = Copy(s).status /\ TokenKept(s))
       \/ /\ leg'[s].pc = "return" /\ Written(s)
          /\ \/ row'.status \in {"failed", "completed"} /\ row'.token = 0
             \/ /\ row'.status = "queued" /\ row'.token # 0
                /\ leg[s].pc = "hook" /\ row'.at = leg[s].at + 1
    /\ row'.token # 0 => Behind(row'.at)
    /\ StepHooked(s)' /\ ResultsGoOn(s)

\* A run that has been reached anew has no token.
LEMMA ReachedToken ==
    ASSUME NEW run \in Run, NEW at \in Nat
    PROVE  LET reached == Reached(run, at) IN
           /\ reached.token = 0 /\ reached.status = run.status /\ reached.at = at
           /\ reached.results = run.results
           /\ reached \in [status : Statuses, at : Nat, waiting : Nat, token : Nat,
                           results : Seq(Result)]
  BY DEF Reached, Run

LEMMA FinalToken ==
    ASSUME KQInv, NEW s \in Slots, NEW at \in Nat, NEW status, NEW results,
           Update(s, [Reached(Copy(s), at) EXCEPT !.status = status, !.results = results])
    PROVE  row'.token = 0
  <1> DEFINE reached == Reached(Copy(s), at)
  <1>1. /\ reached.token = 0
        /\ reached \in [status : Statuses, at : Nat, waiting : Nat, token : Nat,
                        results : Seq(Result)]
    BY HookedFacts, ReachedToken
  <1>2. row' = [reached EXCEPT !.status = status, !.results = results]
    BY HookedFacts, Writes
  <1> HIDE DEF reached
  <1> QED
    BY <1>1, <1>2

\* A leg whose place and results are what they were.
LEMMA SameStep ==
    ASSUME KQInv, NEW s \in Slots, SameLeg(s), Drives(s),
           leg'[s].pc \in {"begin", "return"}
    PROVE  StepHooked(s)'
  <1>1. StepHooked(s)
    BY DEF KQInv, QInv, QuietInv, LegsHooked
  <1> QED
    BY <1>1 DEF StepHooked, SameLeg, Kind, Ordinal, HasRun, Drives

LEMMA SameResults ==
    ASSUME NEW s \in Slots, SameLeg(s), UNCHANGED elsewhere,
           Written(s) /\ row'.results \in {leg[s].results, Copy(s).results}
    PROVE  ResultsGoOn(s)
  <1>1. recorded' = recorded /\ leg'[s].prior = leg[s].prior /\ leg'[s].results = leg[s].results
    BY DEF SameLeg, elsewhere, history
  <1> QED
    BY <1>1 DEF ResultsGoOn

LEMMA StepsOn ==
    ASSUME KQInv, NEW s \in Slots, leg[s].pc = "step",
           ReachStep(s) \/ DeadlinePasses(s) \/ CompleteRun(s)
    PROVE  DrivesOn(s)
  <1>1. leg[s].at \in Nat /\ Len(Template) \in Nat /\ IInv /\ Copy(s) \in Run
    BY HookedFacts, TemplateFacts
  <1>2. CASE ReachStep(s)
    <2>1. row'.token = 0
      BY <1>1, <1>2, Writes, ReachedToken DEF ReachStep
    <2>2. SameLeg(s) /\ leg'[s].pc = "begin" /\ Drives(s)
      BY <1>1, <1>2, ReachStepEffect DEF Drives
    <2>3. StepHooked(s)'
      BY <2>2, SameStep
    <2>4. ResultsGoOn(s)
      BY <1>1, <1>2, <2>2, ReachStepEffect, SameResults
    <2> QED
      BY <1>1, <1>2, <2>1, <2>3, <2>4, ReachStepEffect
      DEF DrivesOn, TokenKept, Drives, SameLeg, elsewhere
  <1>3. CASE DeadlinePasses(s)
    <2>1. row'.token = 0 /\ row'.results = Copy(s).results
      <3> DEFINE reached == Reached(Copy(s), leg[s].at)
      <3>1. /\ reached.token = 0 /\ reached.results = Copy(s).results
            /\ reached \in [status : Statuses, at : Nat, waiting : Nat, token : Nat,
                            results : Seq(Result)]
        BY <1>1, ReachedToken
      <3>2. row' = [reached EXCEPT !.status = "failed"]
        BY <1>1, <1>3, Writes DEF DeadlinePasses
      <3> HIDE DEF reached
      <3> QED
        BY <3>1, <3>2
    <2>2. /\ leg[s].pc = "step" /\ leg'[s].pc = "return" /\ SameLeg(s) /\ Others(s)
          /\ row'.status = "failed" /\ Written(s) /\ UNCHANGED <<jobs, elsewhere>>
      BY <1>1, <1>3, DeadlinePassesEffect
    <2>3. StepHooked(s)' /\ ResultsGoOn(s)
      BY <2>1, <2>2, SameStep, SameResults DEF Drives
    <2> QED
      BY <2>1, <2>2, <2>3 DEF DrivesOn, Drives, SameLeg, elsewhere
  <1>4. CASE CompleteRun(s)
    <2>1. row'.token = 0
      BY <1>1, <1>4, FinalToken DEF CompleteRun
    <2>2. StepHooked(s)' /\ ResultsGoOn(s)
      BY <1>1, <1>4, CompleteRunEffect, SameStep, SameResults DEF Drives
    <2> QED
      BY <1>1, <1>4, <2>1, <2>2, CompleteRunEffect DEF DrivesOn, Drives, SameLeg, elsewhere
  <1> QED
    BY <1>2, <1>3, <1>4

\* The placeholder is not to be reused.
LEMMA PlaceholderFacts ==
    ASSUME IInv, NEW s \in Slots
    PROVE  LET results == Append(leg[s].results, Placeholder(s)) IN
           /\ Len(results) # 0 /\ ~results[Len(results)].keyed
           /\ Reusable(leg[s].results) \subseteq Reusable(results)
  <1> DEFINE results == Append(leg[s].results, Placeholder(s))
             n == Len(leg[s].results)
  <1>1. /\ leg[s].results \in Seq(Result \union {Placeholder(s)}) /\ n \in Nat
        /\ DOMAIN leg[s].results = 1..n
    BY LegFacts, SeqMonotonic, LenProperties
  <1>2. /\ Len(results) = n + 1 /\ DOMAIN results = 1..(n + 1)
        /\ results[n + 1] = Placeholder(s)
        /\ \A o \in 1..n : results[o] = leg[s].results[o]
    BY <1>1, AppendProperties, LenProperties
  <1>3. ~Placeholder(s).keyed
    BY DEF Placeholder
  <1>4. Reusable(leg[s].results) \subseteq Reusable(results)
    <2> HIDE DEF results, n
    <2> QED
      BY <1>1, <1>2 DEF Reusable
  <1> QED
    BY <1>1, <1>2, <1>3, <1>4

LEMMA BeginsOn ==
    ASSUME KQInv, NEW s \in Slots, BeginStep(s)
    PROVE  DrivesOn(s)
  <1>1. /\ IInv /\ Copy(s) \in Run /\ RunHooked(Copy(s)) /\ StepHooked(s)
        /\ leg[s].results \in Seq(Result)
    BY HookedFacts, LegFacts DEF KQInv, QInv, QuietInv, LegsHooked
  <1> DEFINE results == Append(leg[s].results, Placeholder(s))
  <1>2. row' = [Copy(s) EXCEPT !.results = results]
    BY <1>1, Writes DEF BeginStep, Placeholder
  <1>3. row'.token = Copy(s).token /\ row'.at = Copy(s).at
    <2> HIDE DEF results
    <2> QED
      BY <1>1, <1>2 DEF Run
  <1>4. StepHooked(s)'
    <2>1. /\ leg[s].pc = "begin" /\ leg'[s].pc = "exec" /\ leg'[s].job = leg[s].job
          /\ leg'[s].at = leg[s].at /\ leg'[s].results = results
      BY <1>1, BeginStepEffect
    <2>2. Len(results) # 0 /\ ~results[Len(results)].keyed
      BY <1>1, PlaceholderFacts
    <2> HIDE DEF results
    <2> QED
      BY <1>1, <2>1, <2>2 DEF StepHooked, Ordinal, HasRun, Drives
  <1>5. ResultsGoOn(s)
    BY <1>1, BeginStepEffect, PlaceholderFacts DEF ResultsGoOn, elsewhere, history
  <1> QED
    BY <1>1, <1>3, <1>4, <1>5, BeginStepEffect
    DEF DrivesOn, TokenKept, Drives, RunHooked, elsewhere

LEMMA ExecutesOn ==
    ASSUME KQInv, NEW s \in Slots, leg[s].pc = "exec",
           \/ ReuseStep(s) \/ RunAction(s) \/ RunPure(s) \/ StepFails(s) \/ ReachHook(s)
    PROVE  DrivesOn(s)
  <1>1. PICK outcome \in {"next", "fail", "hook"} :
            At(s, "exec") /\ Executed(s, outcome) /\ (outcome = "hook" => Kind(s) = "hook")
    BY DEF ReuseStep, RunAction, RunPure, StepFails, ReachHook
  <1>2. RunHooked(row) /\ StepHooked(s)
    BY DEF KQInv, QInv, QuietInv, CopiesHooked, LegsHooked
  <1>3. IInv
    BY DEF KQInv, KInv, CInv
  <1>4. /\ leg[s].pc = "exec" /\ leg'[s].pc = "record" /\ leg'[s].outcome = outcome
        /\ leg'[s].job = leg[s].job /\ leg'[s].results = leg[s].results
        /\ leg'[s].at = leg[s].at /\ leg'[s].prior = leg[s].prior
        /\ Others(s) /\ Unwritten /\ UNCHANGED <<jobs, elsewhere>>
    BY <1>1, <1>3, ExecutedEffect
  <1>5. StepHooked(s)'
    BY <1>1, <1>2, <1>4 DEF StepHooked, Ordinal, Kind, HasRun, Drives
  <1>6. ResultsGoOn(s)
    BY <1>4 DEF ResultsGoOn, elsewhere, history
  <1> QED
    BY <1>2, <1>4, <1>5, <1>6 DEF DrivesOn, Drives, RunHooked, Unwritten, elsewhere

\* What the step leaves in the place of its placeholder may be reused if it succeeded.
LEMMA RecordedFacts ==
    ASSUME IInv, NEW s \in Slots, Ordinal(s) # 0, ~leg[s].results[Ordinal(s)].keyed
    PROVE  /\ Len(RecordedResults(s)) = Len(leg[s].results)
           /\ Reusable(leg[s].results) \subseteq Reusable(RecordedResults(s))
           /\ leg[s].outcome # "fail" => Ordinal(s) \in Reusable(RecordedResults(s))
  <1> DEFINE result == [step |-> leg[s].at, keyed |-> TRUE,
                        status |-> IF leg[s].outcome = "fail" THEN "failure" ELSE "success"]
             n == Ordinal(s)
             results == [leg[s].results EXCEPT ![n] = result]
  <1>1. /\ leg[s].results \in Seq(Result) /\ n \in 1..n /\ n = Len(leg[s].results)
        /\ DOMAIN leg[s].results = 1..n
    BY LegFacts, LenProperties DEF Ordinal
  <1>2. result.keyed /\ (leg[s].outcome # "fail" => result.status = "success")
        /\ result \in Result
    BY LegFacts DEF Result
  <1>3. RecordedResults(s) = results
    BY DEF RecordedResults
  <1> HIDE DEF result, n
  <1>4. /\ results \in Seq(Result) /\ Len(results) = n /\ DOMAIN results = 1..n
        /\ results[n] = result
        /\ \A o \in 1..n : o # n => results[o] = leg[s].results[o]
    BY <1>1, <1>2, ExceptSeq, LenProperties
  <1>5. ~leg[s].results[n].keyed
    BY DEF n
  <1> HIDE DEF results
  <1>6. /\ Reusable(leg[s].results) \subseteq Reusable(results)
        /\ leg[s].outcome # "fail" => n \in Reusable(results)
    BY <1>1, <1>2, <1>4, <1>5 DEF Reusable
  <1> QED
    BY <1>1, <1>3, <1>4, <1>6 DEF n

LEMMA RecordsOn ==
    ASSUME KQInv, NEW s \in Slots, RecordStep(s)
    PROVE  DrivesOn(s)
  <1>1. /\ IInv /\ Copy(s) \in Run /\ RunHooked(Copy(s)) /\ leg[s].pc = "record"
        /\ leg[s].outcome \in {"next", "fail", "hook"} /\ Len(leg[s].results) # 0
        /\ leg[s].results \in Seq(Result) /\ StepHooked(s)
        /\ Ordinal(s) # 0 /\ ~leg[s].results[Ordinal(s)].keyed /\ leg[s].at \in Nat
    BY HookedFacts, LegFacts
    DEF RecordStep, At, KQInv, QInv, QuietInv, LegsHooked, StepHooked, Ordinal
  <1>2. row' = [Copy(s) EXCEPT !.results = RecordedResults(s)]
    BY <1>1, Writes DEF RecordStep, RecordedResults
  <1>3. row'.token = Copy(s).token /\ row'.at = Copy(s).at
    BY <1>1, <1>2 DEF Run
  <1>4. /\ leg'[s].pc = After[leg[s].outcome]
        /\ leg'[s].job = leg[s].job /\ leg'[s].prior = leg[s].prior
        /\ leg'[s].at = (IF leg[s].outcome = "next" THEN leg[s].at + 1 ELSE leg[s].at)
        /\ leg'[s].results = RecordedResults(s)
        /\ row'.results = leg'[s].results /\ Written(s)
        /\ recorded' = IF Kind(s) = "action" /\ leg[s].outcome # "fail"
                       THEN recorded \union {Ordinal(s)} ELSE recorded
    BY <1>1, RecordStepEffect
  <1>5. StepHooked(s)'
    <2>1. /\ leg'[s].pc \in {"step", "fail", "hook"}
          /\ leg'[s].pc = "hook" => leg[s].outcome = "hook" /\ leg'[s].at = leg[s].at
      BY <1>1, <1>4 DEF After
    <2>2. leg[s].job \in JobId /\ (leg[s].job.kind = "hook" => leg[s].job.n \in Nat)
      BY <1>1 DEF KQInv, QInv, QuietInv, LegsHooked, Drives, JobId
    <2>3. leg[s].job.kind = "hook" => leg'[s].at >= leg[s].job.n
      BY <1>1, <1>4, <2>2 DEF StepHooked, HasRun, Drives
    <2>4. Len(leg'[s].results) # 0
      BY <1>1, <1>4, RecordedFacts
    <2> QED
      BY <1>1, <1>4, <2>1, <2>3, <2>4 DEF StepHooked, Kind
  <1>6. ResultsGoOn(s)
    BY <1>1, <1>4, RecordedFacts DEF ResultsGoOn
  <1> QED
    BY <1>1, <1>3, <1>5, <1>6, RecordStepEffect
    DEF DrivesOn, TokenKept, Drives, After, RunHooked

LEMMA FailsOn ==
    ASSUME KQInv, NEW s \in Slots, FailRun(s)
    PROVE  DrivesOn(s)
  <1>1. leg[s].at \in Nat /\ IInv /\ Copy(s) \in Run
    BY HookedFacts
  <1>2. row'.token = 0
    BY <1>1, FinalToken DEF FailRun
  <1>3. row'.results = leg[s].results
    <2> DEFINE reached == Reached(Copy(s), leg[s].at)
    <2>1. reached \in [status : Statuses, at : Nat, waiting : Nat, token : Nat,
                       results : Seq(Result)]
      BY <1>1, ReachedToken
    <2>2. row' = [reached EXCEPT !.status = "failed", !.results = leg[s].results]
      BY <1>1, Writes DEF FailRun
    <2> HIDE DEF reached
    <2> QED
      BY <2>1, <2>2
  <1>4. StepHooked(s)' /\ ResultsGoOn(s)
    BY <1>1, <1>3, FailRunEffect, SameStep, SameResults DEF Drives
  <1> QED
    BY <1>1, <1>2, <1>4, FailRunEffect DEF DrivesOn, Drives, SameLeg, elsewhere

LEMMA PausesOn ==
    ASSUME KQInv, NEW s \in Slots, PauseForWebhook(s)
    PROVE  DrivesOn(s)
  <1>1. /\ leg[s].at \in Steps /\ IInv /\ Copy(s) \in Run /\ Len(leg[s].results) # 0
        /\ Template[leg[s].at] = "hook"
    BY HookedFacts
    DEF PauseForWebhook, At, Placed, OnStep, KQInv, QInv, QuietInv, LegsHooked, StepHooked, Kind
  <1>2. leg[s].at \in Nat /\ leg[s].at >= 1
    BY <1>1, TemplateFacts
  <1>3. row' = [Reached(Copy(s), leg[s].at + 1) EXCEPT !.status = "queued",
                   !.results = leg[s].results, !.token = Ordinal(s)]
    BY <1>1, Writes DEF PauseForWebhook
  <1>4. row'.token = Ordinal(s) /\ row'.at = leg[s].at + 1 /\ row'.results = leg[s].results
    BY <1>1, <1>2, <1>3, ReachedToken
  <1>5. leg'[s].pc = "return" /\ SameLeg(s)
    BY <1>1, GoesOn DEF PauseForWebhook, Done
  <1>6. UNCHANGED <<jobs, elsewhere>>
    BY DEF PauseForWebhook
  <1>7. leg[s].pc = "hook" /\ row'.status = "queued" /\ Written(s) /\ Others(s)
    BY <1>1, PauseForWebhookEffect
  <1>8. row'.token # 0 /\ Behind(row'.at)
    BY <1>1, <1>2, <1>4 DEF Ordinal, Behind
  <1>9. StepHooked(s)' /\ ResultsGoOn(s)
    BY <1>4, <1>5, <1>6, <1>7, SameStep, SameResults DEF Drives
  <1> QED
    BY <1>4, <1>5, <1>6, <1>7, <1>8, <1>9 DEF DrivesOn, Drives, SameLeg, elsewhere

\* What a slot may do while nobody parks the run.
Opening(s) ==
    \/ CreateRun(s) \/ EnqueueStart(s) \/ EnqueueStartFails(s)
    \/ (\E j \in JobId : Deliver(s, j)) \/ SkipRun(s) \/ LoadRun(s) \/ StartFails(s)
    \/ JobFails(s) \/ MarkFailed(s) \/ StartRun(s) \/ Return(s)

LEMMA HookedSteps ==
    ASSUME KQInv, NEW s \in Slots, Works(s)
    PROVE  Opening(s) \/ DrivesOn(s)
  <1>1. /\ leg[s].pc \in {"idle", "enqueue_start", "mark", "return"} \/ Opens(s) \/ Drives(s)
        /\ row.status # "awaiting_approval"
    BY DEF KQInv, QInv, QuietInv, LegsHooked, CopiesHooked, RunHooked
  <1>2. CASE Hook(s)
    <2>1. CASE ReachHook(s)
      BY <2>1, ExecutesOn DEF ReachHook, At
    <2>2. CASE PauseForWebhook(s)
      BY <2>2, PausesOn
    <2> QED
      BY <1>2, <2>1, <2>2 DEF Hook
  <1>3. CASE Acts(s)
    <2>1. Departs(s) /\ leg[s].pc # "hook"
      BY <1>3, Departures, NoHook
    <2>2. CASE leg[s].pc \in {"idle", "enqueue_start", "mark", "return"} \/ Opens(s)
      BY <1>1, <2>1, <2>2 DEF Departs, SetsOff, ResumeSweep, Opening, Opens
    <2>3. CASE leg[s].pc = "step" \/ leg[s].pc = "begin"
      BY <2>1, <2>3, StepsOn, BeginsOn DEF Departs
    <2>4. CASE leg[s].pc = "exec"
      <3>1. leg[s].at \in Steps
        BY <2>4, HookedFacts DEF Placed, OnStep
      <3>2. ~ReachWait(s) /\ ~ReachApproval(s)
        BY <3>1, HookedFacts DEF ReachWait, ReachApproval
      <3> QED
        BY <2>1, <2>4, <3>2, ExecutesOn DEF Departs
    <2>5. CASE leg[s].pc = "record" \/ leg[s].pc = "fail"
      BY <2>1, <2>5, RecordsOn, FailsOn DEF Departs
    <2> QED
      BY <1>1, <2>1, <2>2, <2>3, <2>4, <2>5 DEF Drives
  <1> QED
    BY <1>2, <1>3 DEF Works, Acts

\* What a slot leaves as it is when it does not drive the run.
LEMMA OpeningFrame ==
    ASSUME KQInv, NEW s \in Slots, Opening(s)
    PROVE  /\ ~Drives(s) /\ Others(s) /\ UNCHANGED <<attempts, reaping, crashes>>
           /\ \A q \in Processes \ {ProcOf[s]} : cache'[q] = cache[q]
           /\ \A j \in JobId :
                  \/ jobs'[j] = jobs[j]
                  \/ jobs[j].state # "absent" /\ jobs'[j].state \notin {"absent", "stalled"}
                  \/ j = StartJob /\ jobs'[j].state = "ready"
  <1>0. IInv /\ (leg[s].pc = "throw" => leg[s].job \in JobId)
    BY DEF KQInv, KInv, CInv, QInv, QuietInv, LegsHooked, Opens
  <1>1. CASE CreateRun(s) \/ EnqueueStartFails(s)
    BY <1>0, <1>1, CreateRunEffect, EnqueueStartFailsEffect DEF Drives, Written, elsewhere
  <1>2. CASE EnqueueStart(s)
    <2>1. \A j \in JobId : jobs'[j] = jobs[j] \/ (j = StartJob /\ jobs'[j].state = "ready")
      BY <1>0, <1>2, EnqueueStartEffect, JobFacts DEF Add, IInv, JobsOK, JobState
    <2> QED
      BY <1>0, <1>2, <2>1, EnqueueStartEffect DEF Drives, Unwritten, elsewhere
  <1>3. CASE \E j \in JobId : Deliver(s, j)
    <2>1. PICK j \in JobId : Deliver(s, j)
      BY <1>3
    <2> QED
      BY <1>0, <2>1, DeliverEffect DEF Drives, Unwritten, elsewhere
  <1>4. CASE SkipRun(s) \/ LoadRun(s) \/ StartFails(s)
    BY <1>0, <1>4, SkipRunEffect, LoadRunEffect, StartFailsEffect
    DEF Drives, Unwritten, elsewhere
  <1>5. CASE JobFails(s)
    <2>1. leg[s].pc = "throw" /\ leg[s].job \in JobId
      BY <1>0, <1>5 DEF JobFails, At
    <2>2. jobs[leg[s].job].state = "active"
      BY <1>0, <2>1, JobFacts DEF IInv, JobsOK, Held
    <2> QED
      BY <1>0, <1>5, <2>1, <2>2, JobFailsEffect DEF Drives, Unwritten, elsewhere
  <1>6. CASE MarkFailed(s) \/ StartRun(s)
    BY <1>0, <1>6, MarkFailedEffect, StartRunEffect DEF Drives, Written, elsewhere
  <1>7. CASE Return(s)
    <2>1. \A j \in JobId : j = leg[s].job => jobs[j].state = "active"
      BY <1>0, JobFacts DEF IInv, JobsOK, Held
    <2> QED
      BY <1>0, <1>7, <2>1, ReturnEffect DEF Drives, Unwritten, elsewhere
  <1> QED
    BY <1>1, <1>2, <1>3, <1>4, <1>5, <1>6, <1>7 DEF Opening

\* What it writes when it does not drive the run.
LEMMA OpeningWrites ==
    ASSUME KQInv, NEW s \in Slots, Opening(s)
    PROVE  /\ RunHooked(row') /\ RunHooked(cache'[ProcOf[s]])
           /\ \/ Unwritten
              \/ CreateRun(s) /\ row'.status = "queued"
              \/ (EnqueueStartFails(s) \/ MarkFailed(s)) /\ row'.status = "failed"
              \/ StartRun(s) /\ row'.status = "running" /\ Drives(s)'
  <1>0. /\ IInv /\ RunHooked(row) /\ row \in Run /\ ProcOf[s] \in Processes
        /\ \A p \in Processes : RunHooked(cache[p]) /\ cache[p] \in Run
        /\ Copy(s) \in Run /\ RunHooked(Copy(s))
    BY HookedFacts DEF IInv, RunsOK, KQInv, QInv, QuietInv, CopiesHooked
  <1>1. CASE CreateRun(s)
    BY <1>0, <1>1, CreateRunEffect DEF Written, RunHooked, NoRun
  <1>2. CASE EnqueueStartFails(s)
    <2>1. row' = [Copy(s) EXCEPT !.status = "failed"] /\ cache'[ProcOf[s]] = row'
      BY <1>0, <1>2, EnqueueStartFailsEffect DEF Written
    <2> QED
      BY <1>0, <1>2, <2>1 DEF RunHooked, Run
  <1>3. CASE StartRun(s)
    <2>1. row' = [Copy(s) EXCEPT !.status = "running"] /\ cache'[ProcOf[s]] = row'
      BY <1>0, <1>3, Writes DEF StartRun, Written
    <2>2. Drives(s)'
      BY <1>0, <1>3, StartRunEffect DEF Drives
    <2> QED
      BY <1>0, <1>3, <2>1, <2>2 DEF RunHooked, Run
  <1>4. CASE MarkFailed(s)
    <2>1. /\ row' = [row EXCEPT !.status = "failed"]
          /\ cache' = IF cache[ProcOf[s]] = NoRun THEN cache
                      ELSE [cache EXCEPT ![ProcOf[s]].status = "failed"]
      BY <1>4 DEF MarkFailed
    <2>2. RunHooked(row') /\ row'.status = "failed"
      BY <1>0, <2>1 DEF RunHooked, Run
    <2>3. RunHooked(cache'[ProcOf[s]])
      <3>1. cache'[ProcOf[s]] \in {cache[ProcOf[s]], [cache[ProcOf[s]] EXCEPT !.status = "failed"]}
        BY <1>0, <2>1 DEF IInv, RunsOK
      <3> QED
        BY <1>0, <3>1 DEF RunHooked, Run
    <2> QED
      BY <1>4, <2>2, <2>3
  <1>5. CASE Unwritten
    BY <1>0, <1>5 DEF Unwritten
  <1>6. \/ CreateRun(s) \/ EnqueueStartFails(s) \/ StartRun(s) \/ MarkFailed(s)
        \/ Unwritten
    <2>1. CASE \E j \in JobId : Deliver(s, j)
      BY <1>0, <2>1, DeliverEffect
    <2>2. CASE EnqueueStart(s) \/ SkipRun(s) \/ LoadRun(s) \/ StartFails(s) \/ JobFails(s)
               \/ Return(s)
      BY <2>2 DEF EnqueueStart, SkipRun, LoadRun, StartFails, JobFails, Return, Unwritten
    <2> QED
      BY <2>1, <2>2 DEF Opening
  <1> QED
    BY <1>1, <1>2, <1>3, <1>4, <1>5, <1>6

LEMMA SlotLegs ==
    ASSUME KQInv, NEW s \in Slots, Works(s)
    PROVE  LegsHooked'
  <1>0. IInv /\ LegsHooked
    BY DEF KQInv, KInv, CInv, QInv, QuietInv
  <1> DEFINE Hooks ==
        /\ leg'[s].pc \in {"idle", "enqueue_start", "mark", "return"} \/ Opens(s)' \/ Drives(s)'
        /\ leg'[s].pc \notin {"idle", "enqueue_start"} => ProcOf[s] \in Workers
        /\ leg'[s].pc = "enqueue_start" => ProcOf[s] \notin Workers
        /\ leg'[s].pc \in {"idle", "enqueue_start", "mark"} => leg'[s].job = NoJob
        /\ Opens(s)' \/ Drives(s)' => leg'[s].job \in JobId
        /\ StepHooked(s)'
  <1>1. Others(s) => (Hooks => LegsHooked')
    BY <1>0 DEF LegsHooked, Others, Opens, Drives, StepHooked, HasRun, Kind, Ordinal
  <1>2. leg'[s].pc \in {"idle", "enqueue_start", "mark", "return", "load", "throw"}
            => StepHooked(s)'
    BY DEF StepHooked, HasRun, Drives
  <1>3. CASE DrivesOn(s)
    BY <1>0, <1>1, <1>3 DEF DrivesOn, LegsHooked, Drives, Opens
  <1>4. CASE Opening(s)
    <2>0. Others(s)
      BY <1>4, OpeningFrame DEF KQInv, KInv, CInv
    <2>1. CASE CreateRun(s)
      BY <1>0, <1>1, <1>2, <2>1, CreateRunEffect, ProcessFacts DEF Opens, Drives
    <2>2. CASE EnqueueStart(s) \/ EnqueueStartFails(s) \/ MarkFailed(s) \/ Return(s)
      <3>1. leg'[s] = Idle
        BY <1>0, <2>2, EnqueueStartEffect, EnqueueStartFailsEffect, MarkFailedEffect, ReturnEffect
      <3> QED
        BY <1>1, <1>2, <2>0, <3>1, IdleFacts DEF Opens, Drives
    <2>3. CASE \E j \in JobId : Deliver(s, j)
      BY <1>0, <1>1, <1>2, <2>3, DeliverEffect DEF Opens, Drives
    <2>4. CASE SkipRun(s) \/ StartFails(s) \/ StartRun(s)
      <3>1. StepHooked(s)'
        BY <1>0, <1>2, <2>4, SkipRunEffect, StartFailsEffect, StartRunEffect
        DEF SameLeg, LegsHooked, StepHooked, HasRun
      <3> QED
        BY <1>0, <1>1, <2>4, <3>1, SkipRunEffect, StartFailsEffect, StartRunEffect
        DEF Opens, Drives, SameLeg, LegsHooked
    <2>5. CASE LoadRun(s)
      <3>1. leg[s].job \in JobId /\ (leg[s].job.kind = "hook" => leg[s].job.n \in Nat)
        BY <1>0, <2>5 DEF LoadRun, At, LegsHooked, Opens, JobId
      <3>2. StepHooked(s)'
        BY <1>0, <2>5, <3>1, LoadRunEffect DEF StepHooked
      <3> QED
        BY <1>0, <1>1, <2>5, <3>2, LoadRunEffect DEF Opens, Drives, LegsHooked
    <2>6. CASE JobFails(s)
      <3>1. leg'[s] \in {Idle, [Idle EXCEPT !.pc = "mark"]}
        BY <1>0, <2>6, Goes DEF JobFails
      <3>2. leg'[s].pc \in {"idle", "mark"} /\ leg'[s].job = NoJob
        BY <3>1 DEF Idle
      <3>3. ProcOf[s] \in Workers
        BY <1>0, <2>6 DEF JobFails, At, LegsHooked
      <3> QED
        BY <1>1, <1>2, <2>0, <3>2, <3>3 DEF Opens, Drives
    <2> QED
      BY <1>4, <2>1, <2>2, <2>3, <2>4, <2>5, <2>6 DEF Opening
  <1> QED
    BY <1>3, <1>4, HookedSteps

LEMMA SlotQuiet ==
    ASSUME KQInv, NEW s \in Slots, Works(s), UNCHANGED call
    PROVE  QuietInv'
  <1>0. /\ IInv /\ LegsHooked /\ CopiesHooked /\ Attended /\ CallsPlaced /\ JobsPosted
        /\ ProcOf[s] \in Processes /\ ServedApart
    BY HookedFacts DEF KQInv, KInv, QInv, QuietInv
  <1>1. /\ Others(s) /\ UNCHANGED <<attempts, reaping>>
        /\ \A q \in Processes \ {ProcOf[s]} : cache'[q] = cache[q]
        /\ \A j \in JobId :
               \/ jobs'[j] = jobs[j]
               \/ jobs[j].state # "absent" /\ jobs'[j].state \notin {"absent", "stalled"}
               \/ j = StartJob /\ jobs'[j].state = "ready"
    BY HookedSteps, OpeningFrame DEF DrivesOn, Unwritten, Written
  <1>2. CopiesHooked'
    <2>1. RunHooked(row') /\ RunHooked(cache'[ProcOf[s]])
      <3>1. CASE Opening(s)
        BY <3>1, OpeningWrites
      <3>2. CASE DrivesOn(s)
        <4>1. CASE Unwritten
          BY <1>0, <4>1 DEF Unwritten, CopiesHooked
        <4>2. CASE ~Unwritten
          <5>1. Written(s) /\ RunHooked(row')
            BY <3>2, <4>2, HookedFacts DEF DrivesOn, RunHooked
          <5> QED
            BY <5>1 DEF Written
        <4> QED
          BY <4>1, <4>2
      <3> QED
        BY <3>1, <3>2, HookedSteps
    <2> QED
      BY <1>0, <1>1, <2>1 DEF CopiesHooked, RunHooked
  <1>3. Attended'
    <2> SUFFICES ASSUME row'.status = "running" PROVE \E t \in Slots : Drives(t)'
      BY <1>0, <1>1 DEF Attended
    <2>1. CASE DrivesOn(s)
      BY <2>1 DEF DrivesOn
    <2>2. CASE Opening(s)
      <3>1. Unwritten \/ Drives(s)'
        BY <2>2, OpeningWrites
      <3>2. CASE Unwritten
        <4>1. PICK t \in Slots : Drives(t)
          BY <1>0, <3>2 DEF Unwritten, Attended
        <4>2. t # s
          BY <2>2, <4>1, OpeningFrame
        <4> QED
          BY <1>1, <4>1, <4>2 DEF Others, Drives
      <3> QED
        BY <3>1, <3>2
    <2> QED
      BY <2>1, <2>2, HookedSteps
  <1>4. CallsPlaced'
    BY <1>0, <1>1, ProcessFacts DEF CallsPlaced, ServedApart
  <1>5. JobsPosted'
    BY <1>0, <1>1 DEF JobsPosted, Posted, StartJob
  <1> QED
    BY <1>2, <1>3, <1>4, <1>5, SlotLegs DEF QuietInv

\* The queue, the decisions and the reaper find nothing to do with the run.
LEMMA OthersQuiet ==
    ASSUME KQInv,
           \/ \E j \in JobId : DropStalled(j)
           \/ Approve
           \/ \E w \in Workers : Reaper(w)
    PROVE  UNCHANGED <<row, attempts, cache, jobs, leg, reaping, crashes>>
  <1>0. Attended /\ JobsPosted /\ ~SlowSteps
    BY DEF KQInv, QInv, QuietInv, Hooked
  <1>1. \A j \in JobId : ~DropStalled(j)
    BY <1>0 DEF DropStalled, JobsPosted
  <1>2. ~Stranded
    BY <1>0 DEF Stranded, Attended, Drives, At
  <1>3. \A w \in Workers : ~Reaper(w)
    BY <1>0, <1>2 DEF Reaper, Reap, EnqueueReplay, GiveUp, Attended
  <1>4. Approve
    BY <1>1, <1>3
  <1> QED
    BY <1>4 DEF Approve, Decide, PersistDecision, TimerFires, DropTimer

LEMMA QuietKeeps ==
    ASSUME QInv, UNCHANGED <<row, attempts, cache, jobs, leg, reaping, crashes, call>>
    PROVE  QInv'
  BY DEF QInv, QuietInv, LegsHooked, StepHooked, HasRun, Kind, Ordinal, Opens, Drives,
         CopiesHooked, RunHooked, Attended, CallsPlaced, JobsPosted, Posted, NoRetry,
         FirstJobFirst, Unread, QueuedExplained, FirstQueued, PostQueued

\* What a crash changes: no worker dies, and no job loses its leg.
LEMMA CrashQuietly ==
    ASSUME KQInv, NEW p \in Processes, ControlCrash(p)
    PROVE  /\ p \notin Workers /\ cache' = [cache EXCEPT ![p] = NoRun]
           /\ UNCHANGED <<row, attempts, jobs, reaping>> /\ crashes' = crashes + 1
           /\ \A s \in Slots : \/ leg'[s] = leg[s]
                               \/ leg'[s] = Idle /\ leg[s].pc \in {"idle", "enqueue_start"}
           /\ \A c \in Calls : /\ call'[c].kind = call[c].kind /\ call'[c].at = call[c].at
                               /\ call'[c].found = call[c].found
                               /\ call'[c].pc = call[c].pc
                                  \/ (call'[c].pc = "over" /\ call[c].pc # "new")
                               /\ CallProc[c] = p => call'[c].pc \in {"new", "over"}
                               /\ CallProc[c] # p => call'[c] = call[c]
  <1>1. /\ p \notin Workers /\ cache' = [cache EXCEPT ![p] = NoRun]
        /\ UNCHANGED <<row, attempts>> /\ crashes' = crashes + 1
    BY DEF KQInv, KInv, ServedApart, ControlCrash, Crash
  <1>2. IInv /\ LegsHooked
    BY DEF KQInv, KInv, CInv, QInv, QuietInv
  <1>3. \A s \in Slots :
            ProcOf[s] = p => leg[s].pc \in {"idle", "enqueue_start"} /\ leg[s].job = NoJob
    BY <1>1, <1>2 DEF LegsHooked
  <1>4. \A s \in Slots : \/ leg'[s] = leg[s]
                         \/ leg'[s] = Idle /\ leg[s].pc \in {"idle", "enqueue_start"}
    BY <1>3 DEF ControlCrash, Crash
  <1>5. jobs' = jobs
    <2>1. \A j \in JobId : ~\E s \in {t \in Slots : ProcOf[t] = p} : leg[s].job = j
      BY <1>3, JobFacts
    <2>2. jobs' = [j \in JobId |-> jobs[j]]
      BY <2>1 DEF ControlCrash, Crash
    <2> QED
      BY <1>2, <2>2 DEF IInv, JobsOK
  <1>6. reaping' = reaping
    <2>1. reaping' = [w \in Workers |-> reaping[w]]
      BY <1>1 DEF ControlCrash, Crash
    <2> QED
      BY <1>2, <2>1 DEF IInv, CountsOK
  <1>7. ASSUME NEW c \in Calls
        PROVE  /\ call'[c].kind = call[c].kind /\ call'[c].at = call[c].at
               /\ call'[c].found = call[c].found
               /\ call'[c].pc = call[c].pc
                  \/ (call'[c].pc = "over" /\ call[c].pc # "new")
               /\ CallProc[c] = p => call'[c].pc \in {"new", "over"}
               /\ CallProc[c] # p => call'[c] = call[c]
    <2>1. call'[c] = IF CallProc[c] = p /\ call[c].pc # "new"
                     THEN [call[c] EXCEPT !.pc = "over"] ELSE call[c]
      BY DEF ControlCrash
    <2>2. call[c] \in Call
      BY DEF KQInv, KInv, CInv, CallsOK
    <2> QED
      BY <2>1, <2>2 DEF Call
  <1> QED
    BY <1>1, <1>4, <1>5, <1>6, <1>7

LEMMA CrashQuiet ==
    ASSUME KQInv, NEW p \in Processes, ControlCrash(p)
    PROVE  QuietInv'
  <1>0. /\ LegsHooked /\ CopiesHooked /\ Attended /\ CallsPlaced /\ JobsPosted
        /\ cache \in [Processes -> Run]
    BY DEF KQInv, KInv, CInv, IInv, RunsOK, QInv, QuietInv
  <1>1. LegsHooked'
    <2>1. \A s \in Slots : leg'[s] = Idle \/ leg'[s] = leg[s]
      BY CrashQuietly
    <2> QED
      BY <1>0, <2>1, IdleFacts
      DEF LegsHooked, StepHooked, HasRun, Kind, Ordinal, Opens, Drives
  <1>2. CopiesHooked'
    <2>1. RunHooked(NoRun)
      BY DEF RunHooked, NoRun
    <2> QED
      BY <1>0, <2>1, CrashQuietly DEF CopiesHooked, RunHooked
  <1>3. Attended'
    <2>1. \A s \in Slots : Drives(s) => Drives(s)'
      BY CrashQuietly DEF Drives
    <2> QED
      BY <1>0, <2>1, CrashQuietly DEF Attended
  <1>4. CallsPlaced'
    BY <1>0, CrashQuietly, ProcessFacts DEF CallsPlaced
  <1>5. JobsPosted'
    BY <1>0, CrashQuietly DEF JobsPosted, Posted
  <1> QED
    BY <1>1, <1>2, <1>3, <1>4, <1>5 DEF QuietInv

\* A call writes the run.
WrittenIn(p) == row' = cache'[p] /\ \A q \in Processes \ {p} : cache'[q] = cache[q]

\* What a step of a call does.
CallReads(c) ==
    /\ call[c].pc = "new" /\ UNCHANGED <<row, cache, jobs>> /\ call'[c].found = NoRun
    /\ \/ call'[c].kind = "cancel" /\ call'[c].pc = "remove"
       \/ call'[c].kind = "retry" /\ call'[c].pc = "clear" /\ row.status = "failed"
       \/ /\ call'[c].kind = "post" /\ call'[c].pc = "find" /\ Behind(call'[c].at)
          /\ row.token # 0 /\ call'[c].at = row.at

CallWorks(c) ==
    /\ call[c].pc \in {"remove", "clear", "add", "wake"} /\ UNCHANGED <<row, cache>>
    /\ call'[c].found = call[c].found
    /\ \/ /\ call[c].pc = "remove" /\ call'[c].pc = "find"
          /\ RemoveJob \/ UNCHANGED jobs
       \/ /\ call[c].pc = "clear" /\ call'[c].pc \in {"add", "over"}
          /\ RemoveJob \/ UNCHANGED jobs
       \/ call[c].pc = "add" /\ call'[c].pc = "find" /\ Add(StartJob)
       \/ call[c].pc = "add" /\ call'[c].pc = "over" /\ UNCHANGED jobs
       \/ /\ call[c].pc = "wake" /\ call'[c].pc = "over"
          /\ Add(HookJob(call[c].at)) \/ UNCHANGED jobs

CallFinds(c) ==
    /\ call[c].pc = "find" /\ call'[c].pc = "write" /\ UNCHANGED <<row, cache, jobs>>
    /\ call'[c].found = row

CallWritesRun(c) ==
    /\ call[c].pc = "write" /\ call'[c].found = call[c].found
    /\ WrittenIn(CallProc[c]) /\ RunHooked(row') /\ UNCHANGED jobs
    /\ row'.results = call[c].found.results
    /\ row'.token # 0 => call[c].found.token # 0 /\ row'.at = call[c].found.at
    /\ \/ /\ call[c].kind = "cancel" /\ call'[c].pc = "over"
          /\ row'.status \in {"cancelling", "canceled"}
       \/ call[c].kind = "retry" /\ call'[c].pc = "over" /\ row'.status = "queued"
       \/ /\ call[c].kind = "post" /\ call'[c].pc = "wake"
          /\ row'.status = call[c].found.status /\ row'.status # "running"
          /\ row'.at = call[c].at /\ row'.token = 0

LEMMA CallDoes ==
    ASSUME KQInv, NEW c \in Calls, Cancel(c) \/ Retry(c) \/ Post(c) \/ Finds(c)
    PROVE  /\ UNCHANGED <<leg, attempts, reaping, crashes>>
           /\ \A d \in Calls \ {c} : call'[d] = call[d]
           /\ \/ CallReads(c)
              \/ /\ CallWorks(c) \/ CallFinds(c) \/ CallWritesRun(c)
                 /\ call'[c].kind = call[c].kind /\ call'[c].at = call[c].at
  <1>0. /\ KInv /\ IInv /\ CallsPlaced /\ row \in Run /\ RunHooked(row)
        /\ call[c] \in Call /\ call[c].at \in Nat /\ CallProc[c] \in Processes
        /\ call[c].pc \notin {"wake", "over"} => Seen(c) = row
        /\ call[c].found \in Run /\ (call[c].pc = "write" => RunHooked(call[c].found))
        /\ call[c].kind = "post" => call[c].found.status # "running" /\ Behind(call[c].at)
    BY CallFacts, TemplateFacts DEF KQInv, KInv, CInv, IInv, RunsOK, QInv, QuietInv, CopiesHooked,
                                    CallsPlaced, PostsInTime, Seen, Current
  <1>1. CASE CancelReads(c) \/ RetryReads(c)
    <2> DEFINE begun == IF CancelReads(c)
                        THEN [NewCall EXCEPT !.kind = "cancel", !.pc = "remove",
                                             !.inFlight = Seen(c).status = "running"]
                        ELSE [NewCall EXCEPT !.kind = "retry", !.pc = "clear"]
    <2>1. Begins(c, begun) /\ call[c].pc = "new"
      BY <1>1 DEF CancelReads, RetryReads, Begins
    <2>2. /\ \/ begun.kind = "cancel" /\ begun.pc = "remove"
             \/ begun.kind = "retry" /\ begun.pc = "clear" /\ row.status = "failed"
          /\ begun.found = NoRun
      BY <1>0, <1>1, <2>1 DEF NewCall, RetryReads
    <2>3. UNCHANGED <<attempts, crashes>>
      BY <2>1 DEF Begins, vars
    <2> HIDE DEF begun
    <2> QED
      BY <1>0, <2>1, <2>2, <2>3, BeginsFacts DEF CallReads
  <1>2. CASE PostReads(c)
    <2> DEFINE begun == [NewCall EXCEPT !.kind = "post", !.pc = "find", !.at = Seen(c).at]
    <2>1. Begins(c, begun) /\ call[c].pc = "new"
      BY <1>2 DEF PostReads, Begins
    <2>2. begun.kind = "post" /\ begun.pc = "find" /\ begun.at = row.at
          /\ begun.found = NoRun
      BY <1>0, <2>1 DEF NewCall
    <2>3. row.token # 0
      <3>1. cache[CallProc[c]] = NoRun
        BY <1>0, <2>1 DEF CallsPlaced
      <3> QED
        BY <1>2, <3>1 DEF PostReads, NoRun
    <2>4. UNCHANGED <<attempts, crashes>>
      BY <2>1 DEF Begins, vars
    <2> HIDE DEF begun
    <2> QED
      BY <1>0, <2>1, <2>2, <2>3, <2>4, BeginsFacts DEF CallReads, RunHooked
  <1>3. CASE CancelRemoves(c) \/ RetryClears(c) \/ RetryAdds(c) \/ RetryFails(c)
             \/ PostWakes(c) \/ PostFails(c)
    <2>1. CallWorks(c) /\ UNCHANGED <<leg, attempts, reaping, crashes>>
          /\ \E pc \in {"add", "find", "over"} : Moves(c, pc)
      <3>1. PICK pc \in {"add", "find", "over"} :
                /\ Moves(c, pc)
                /\ call[c].pc = "remove" => pc = "find"
                /\ call[c].pc = "clear" => pc \in {"add", "over"}
                /\ call[c].pc = "add" => pc \in {"find", "over"}
                /\ call[c].pc = "wake" => pc = "over"
        BY <1>3 DEF CancelRemoves, RetryClears, RetryAdds, RetryFails, PostWakes, PostFails
      <3>2. call'[c].pc = pc /\ call'[c].found = call[c].found
        BY <1>0, <3>1, MovesOn
      <3>3. UNCHANGED <<row, cache, leg, attempts, reaping, crashes>>
        BY <1>3 DEF CancelRemoves, RetryClears, RetryAdds, RetryFails, PostWakes, PostFails,
                    untouched, vars
      <3>4. /\ call[c].pc \in {"remove", "clear", "add", "wake"}
            /\ call[c].pc = "remove" => RemoveJob \/ UNCHANGED jobs
            /\ call[c].pc = "clear" => RemoveJob \/ UNCHANGED jobs
            /\ call[c].pc = "add" /\ call'[c].pc = "find" => Add(StartJob)
            /\ call[c].pc = "add" /\ call'[c].pc = "over" => UNCHANGED jobs
            /\ call[c].pc = "wake" => Add(HookJob(call[c].at)) \/ UNCHANGED jobs
        <4>1. call[c].pc = "add" => RetryAdds(c) \/ RetryFails(c)
          BY <1>3 DEF CancelRemoves, RetryClears, PostWakes, PostFails
        <4>2. RetryAdds(c) => call'[c].pc = "find"
          BY <1>0, MovesOn DEF RetryAdds
        <4>3. RetryFails(c) => call'[c].pc = "over"
          BY <1>0, MovesOn DEF RetryFails
        <4> QED
          BY <1>3, <4>1, <4>2, <4>3
          DEF CancelRemoves, RetryClears, RetryAdds, RetryFails, PostWakes, PostFails, vars
      <3> QED
        BY <3>1, <3>2, <3>3, <3>4 DEF CallWorks
    <2>2. PICK pc : Moves(c, pc)
      BY <2>1
    <2>3. call'[c].kind = call[c].kind /\ call'[c].at = call[c].at
      BY <1>0, <2>2 DEF Moves, Call, KInv, CInv, CallsOK
    <2> QED
      BY <1>0, <2>1, <2>2, <2>3, MovesOn
  <1>4. CASE CancelWrites(c) \/ RetryMarks(c) \/ PostConsumes(c)
    <2> DEFINE found == call[c].found
               status == IF call[c].inFlight THEN "cancelling" ELSE "canceled"
               run == CASE call[c].kind = "cancel" -> [found EXCEPT !.status = status]
                        [] call[c].kind = "retry" -> [found EXCEPT !.status = "queued"]
                        [] OTHER -> Reached(found, call[c].at)
               pc == IF call[c].kind = "post" THEN "wake" ELSE "over"
    <2>0. /\ CancelWrites(c) => call[c].kind = "cancel"
          /\ RetryMarks(c) => call[c].kind = "retry"
          /\ PostConsumes(c) => call[c].kind = "post"
          /\ call[c].pc = "write" /\ call[c].kind \in {"cancel", "retry", "post"}
      BY <1>4 DEF CancelWrites, RetryMarks, PostConsumes, WritesBack
    <2>1. UpdateIn(CallProc[c], run) /\ Moves(c, pc) /\ UNCHANGED <<jobs, untouched>>
      BY <1>0, <1>4, <2>0 DEF CancelWrites, RetryMarks, PostConsumes, WritesBack
    <2>2. /\ call[c].kind = "cancel" => run.status \in {"cancelling", "canceled"}
          /\ call[c].kind = "retry" => run.status = "queued"
          /\ call[c].kind \in {"cancel", "retry"} =>
                 /\ RunHooked(run)
                 /\ run.token = found.token /\ run.at = found.at /\ run.results = found.results
      BY <1>0, <2>0 DEF RunHooked, Run
    <2>3. call[c].kind = "post" =>
              /\ RunHooked(run) /\ run.status = found.status /\ run.at = call[c].at
              /\ run.token = 0 /\ run.results = found.results
      BY <1>0, <2>0, ReachedToken DEF RunHooked
    <2> HIDE DEF run, pc
    <2>5. row' = run /\ WrittenIn(CallProc[c])
      BY <1>0, <2>1 DEF UpdateIn, WrittenIn, IInv, RunsOK
    <2>6. call'[c].kind = call[c].kind /\ call'[c].at = call[c].at
      BY <1>0, <2>1 DEF Moves, Call, KInv, CInv, CallsOK
    <2>7. /\ call'[c].pc = pc /\ call'[c].found = found
          /\ \A d \in Calls \ {c} : call'[d] = call[d]
          /\ UNCHANGED <<leg, attempts, reaping, crashes>>
      BY <1>0, <2>1, MovesOn DEF untouched, pc
    <2>8. CallWritesRun(c)
      BY <1>0, <2>0, <2>1, <2>2, <2>3, <2>5, <2>7 DEF CallWritesRun, pc
    <2> QED
      BY <2>6, <2>7, <2>8
  <1>5. CASE Finds(c)
    <2>1. UNCHANGED <<attempts, crashes>>
      BY <1>5 DEF Finds, vars
    <2> QED
      BY <1>0, <1>5, <2>1, FindsFacts DEF CallFinds
  <1> QED
    BY <1>1, <1>2, <1>3, <1>4, <1>5 DEF Cancel, Retry, Post

LEMMA CallQuiet ==
    ASSUME KQInv, NEW c \in Calls, Cancel(c) \/ Retry(c) \/ Post(c) \/ Finds(c)
    PROVE  QuietInv'
  <1>0. /\ LegsHooked /\ CopiesHooked /\ Attended /\ CallsPlaced /\ JobsPosted
        /\ CallsApart /\ jobs \in [JobId -> JobState] /\ CallProc[c] \in Processes
    BY CallFacts DEF KQInv, KInv, CInv, IInv, JobsOK, QInv, QuietInv
  <1>1. /\ UNCHANGED <<leg, attempts, reaping>>
        /\ \A d \in Calls \ {c} : call'[d] = call[d]
        /\ \/ CallReads(c)
           \/ /\ CallWorks(c) \/ CallFinds(c) \/ CallWritesRun(c)
              /\ call'[c].kind = call[c].kind /\ call'[c].at = call[c].at
    BY CallDoes
  <1>2. LegsHooked'
    BY <1>0, <1>1 DEF LegsHooked, StepHooked, HasRun, Kind, Ordinal, Opens, Drives
  <1>3. CopiesHooked'
    BY <1>0, <1>1 DEF CopiesHooked, CallReads, CallWorks, CallFinds, CallWritesRun, WrittenIn,
                     RunHooked
  <1>4. Attended'
    BY <1>0, <1>1 DEF Attended, CallReads, CallWorks, CallFinds, CallWritesRun, Drives
  <1>5. CallsPlaced'
    <2>1. \A d \in Calls \ {c} : cache'[CallProc[d]] = cache[CallProc[d]]
      BY <1>0, <1>1, ProcessFacts
      DEF CallsApart, CallReads, CallWorks, CallFinds, CallWritesRun, WrittenIn
    <2>2. \A d \in Calls \ {c} :
              /\ call'[d].pc \notin {"wake", "over"} => cache'[CallProc[d]] = NoRun
              /\ call'[d].pc = "new" <=> call'[d].kind = "none"
              /\ call'[d].pc = "remove" => call'[d].kind = "cancel"
              /\ call'[d].pc \in {"clear", "add"} => call'[d].kind = "retry"
              /\ call'[d].pc = "wake" => call'[d].kind = "post"
              /\ call'[d].pc = "write" => RunHooked(call'[d].found)
              /\ call'[d].kind = "post" => Behind(call'[d].at)
      BY <1>0, <1>1, <2>1 DEF CallsPlaced
    <2>3. /\ call'[c].pc \notin {"wake", "over"} => cache'[CallProc[c]] = NoRun
          /\ call'[c].pc = "new" <=> call'[c].kind = "none"
          /\ call'[c].pc = "remove" => call'[c].kind = "cancel"
          /\ call'[c].pc \in {"clear", "add"} => call'[c].kind = "retry"
          /\ call'[c].pc = "wake" => call'[c].kind = "post"
          /\ call'[c].pc = "write" => RunHooked(call'[c].found)
          /\ call'[c].kind = "post" => Behind(call'[c].at)
      BY <1>0, <1>1 DEF CallsPlaced, CallReads, CallWorks, CallFinds, CallWritesRun, CopiesHooked
    <2> QED
      BY <2>2, <2>3 DEF CallsPlaced
  <1>6. JobsPosted'
    <2>1. \A d \in Calls : Posted(d) => Posted(d)' /\ call'[d].at = call[d].at
      BY <1>1 DEF Posted, CallReads, CallWorks, CallFinds, CallWritesRun
    <2>2. CASE jobs' = jobs
      BY <1>0, <2>1, <2>2 DEF JobsPosted
    <2>3. CASE RemoveJob
      <3>1. \A j \in JobId : jobs'[j] = jobs[j] \/ (j = StartJob /\ jobs'[j].state = "absent")
        BY <1>0, <2>3 DEF RemoveJob
      <3> QED
        BY <1>0, <2>1, <3>1 DEF JobsPosted, StartJob
    <2>4. CASE Add(StartJob)
      <3>1. \A j \in JobId : jobs'[j] = jobs[j] \/ (j = StartJob /\ jobs'[j].state = "ready")
        BY <1>0, <2>4, JobFacts DEF Add, JobState
      <3> QED
        BY <1>0, <2>1, <3>1 DEF JobsPosted, StartJob
    <2>5. CASE CallWorks(c) /\ call[c].pc = "wake" /\ Add(HookJob(call[c].at))
      <3> DEFINE k == HookJob(call[c].at)
      <3>1. \A j \in JobId : jobs'[j] = jobs[j] \/ (j = k /\ jobs'[j].state = "ready")
        BY <1>0, <2>5 DEF Add, JobState
      <3>2. Posted(c)' /\ call'[c].at = call[c].at
        BY <1>0, <1>1, <2>5 DEF Posted, CallWorks, CallReads, CallFinds, CallWritesRun, CallsPlaced
      <3>3. k.n = call[c].at /\ k.kind = "hook"
        BY DEF HookJob
      <3> QED
        BY <1>0, <2>1, <3>1, <3>2, <3>3 DEF JobsPosted
    <2> QED
      BY <1>1, <2>2, <2>3, <2>4, <2>5 DEF CallReads, CallWorks, CallFinds, CallWritesRun
  <1> QED
    BY <1>2, <1>3, <1>4, <1>5, <1>6 DEF QuietInv

----------------------------------------------------------------------------
(* A queued run is attended: the steps of a slot                           *)

Reads(s, j) == Opens(s) /\ leg[s].job = j

\* What a slot does to the jobs when it does not drive the run.
LEMMA JobsGoOn ==
    ASSUME KQInv, NEW s \in Slots, Opening(s), NEW j \in JobId
    PROVE  /\ jobs[j].state = "absent" =>
                  jobs'[j] = jobs[j] \/ (j = StartJob /\ leg[s].pc = "enqueue_start")
           /\ jobs[j].state = "ready" => jobs'[j] = jobs[j] \/ Reads(s, j)'
           /\ jobs[j].state = "dropped" => jobs'[j] = jobs[j]
           /\ jobs'[j].state = "ready" =>
                  \/ jobs[j].state = "ready" \/ Reads(s, j)
                  \/ j = StartJob /\ leg[s].pc = "enqueue_start"
           /\ Reads(s, j)' => Reads(s, j) \/ jobs[j].state = "ready"
           /\ Reads(s, j) /\ row.status = "queued" =>
                  \/ Reads(s, j)' \/ jobs'[j].state = "ready" \/ leg'[s].pc = "mark"
                  \/ StartRun(s)
                  \/ SkipRun(s) /\ cache[ProcOf[s]].status \notin {"none", "queued"}
  <1>0. /\ IInv /\ jobs \in [JobId -> JobState] /\ ProcOf[s] \in Processes /\ NoJob # j
        /\ Opens(s) => leg[s].job \in JobId
        /\ leg[s].job = j => jobs[j].state = "active"
        /\ jobs[j].state # "stalled" /\ Told
    BY HookedFacts, JobFacts DEF IInv, JobsOK, Held, KQInv, KInv, QInv, QuietInv, LegsHooked,
                                 JobsPosted
  <1>1. CASE CreateRun(s) \/ EnqueueStartFails(s) \/ MarkFailed(s)
    BY <1>0, <1>1, CreateRunEffect, EnqueueStartFailsEffect, MarkFailedEffect, IdleFacts
    DEF Reads, Opens
  <1>2. CASE EnqueueStart(s)
    <2>1. jobs'[j] = jobs[j] \/ (j = StartJob /\ jobs[j].state = "absent")
      BY <1>0, <1>2, JobFacts, EnqueueStartEffect DEF Add
    <2> QED
      BY <1>0, <1>2, <2>1, EnqueueStartEffect, IdleFacts DEF Reads, Opens
  <1>3. CASE \E k \in JobId : Deliver(s, k)
    <2>1. PICK k \in JobId : Deliver(s, k)
      BY <1>3
    <2> QED
      BY <1>0, <2>1, DeliverEffect DEF Reads, Opens
  <1>4. CASE SkipRun(s)
    <2>1. Reads(s, j) /\ row.status = "queued" =>
              cache[ProcOf[s]].status \notin {"none", "queued"}
      BY <1>0, <1>4 DEF SkipRun, Queued, Copy, Current, Told
    <2> QED
      BY <1>0, <1>4, <2>1, SkipRunEffect DEF Reads, Opens
  <1>5. CASE LoadRun(s) \/ StartFails(s)
    BY <1>0, <1>5, LoadRunEffect, StartFailsEffect DEF Reads, Opens, SameLeg
  <1>6. CASE StartRun(s)
    BY <1>0, <1>6, StartRunEffect DEF Reads, Opens, SameLeg
  <1>7. CASE JobFails(s)
    <2>1. leg[s].pc = "throw" /\ leg[s].job \in JobId /\ Opens(s)
      BY <1>0, <1>7 DEF JobFails, At, Opens
    <2>2. leg'[s] = Idle \/ leg'[s].pc = "mark"
      BY <1>0, <1>7, <2>1, JobFailsEffect
    <2> QED
      BY <1>0, <1>7, <2>1, <2>2, JobFailsEffect, IdleFacts DEF Reads, Opens
  <1>8. CASE Return(s)
    BY <1>0, <1>8, ReturnEffect, IdleFacts DEF Reads, Opens
  <1> QED
    BY <1>1, <1>2, <1>3, <1>4, <1>5, <1>6, <1>7, <1>8 DEF Opening

\* Only the first job's leg is the first to write the run.
LEMMA FirstToWrite ==
    ASSUME KQInv, FirstJobFirst, NEW s \in Slots, Works(s), UNCHANGED call, Unread, ~Unread'
    PROVE  StartRun(s) /\ leg[s].job = StartJob
  <1>0. /\ IInv /\ Early(s) /\ ServedApart /\ NothingYet /\ cache \in [Processes -> Run]
    BY DEF KQInv, KInv, CInv, IInv, RunsOK, Untouched
  <1>1. Opening(s)
    BY <1>0, HookedSteps DEF DrivesOn, Drives, Early
  <1>2. \A w \in Workers : ProcOf[s] # w => cache'[w] = cache[w]
    BY <1>1, ProcessFacts, OpeningFrame
  <1>3. ~Unwritten /\ ProcOf[s] \in Workers
    BY <1>2 DEF Unwritten, Unread
  <1>4. ~CreateRun(s) /\ ~EnqueueStartFails(s)
    BY <1>0, <1>3, ProcessFacts
    DEF CreateRun, EnqueueStartFails, At, KQInv, QInv, QuietInv, LegsHooked
  <1>5. ~MarkFailed(s)
    BY <1>2, <1>3 DEF MarkFailed, Unread
  <1>6. StartRun(s)
    BY <1>1, <1>3, <1>4, <1>5, OpeningWrites
  <1>7. leg[s].job \in JobId /\ jobs[leg[s].job].state = "active"
    <2>1. leg[s].job \in JobId
      BY <1>6 DEF StartRun, At, Opens, KQInv, QInv, QuietInv, LegsHooked
    <2> QED
      BY <1>0, <2>1, JobFacts DEF IInv, JobsOK, Held
  <1> QED
    BY <1>6, <1>7 DEF FirstJobFirst

LEMMA SlotFirstJob ==
    ASSUME KQInv, FirstJobFirst, NEW s \in Slots, Works(s), UNCHANGED call
    PROVE  FirstJobFirst'
  <1>0. /\ IInv /\ NothingYet /\ StartJob \in JobId /\ (Unread' => Unread)
    BY JobFacts, SlotTold DEF KQInv, KInv, CInv
  <1>1. Opening(s) \/ DrivesOn(s)
    BY HookedSteps
  <1>2. Others(s)
    BY <1>1, OpeningFrame DEF DrivesOn
  <1>3. leg'[s].pc = "enqueue_start" => CreateRun(s)
    <2>1. CASE DrivesOn(s)
      BY <2>1 DEF DrivesOn, Drives
    <2>2. CASE Acts(s)
      BY <1>0, <2>2, Arrivals DEF Arrives
    <2>3. CASE Hook(s)
      BY <2>3, <1>1 DEF Hook, ReachHook, PauseForWebhook, At, Opening, DrivesOn, Drives,
         CreateRun, EnqueueStart, EnqueueStartFails, Deliver, SkipRun, LoadRun, StartFails,
         JobFails, MarkFailed, StartRun, Return
    <2> QED
      BY <2>1, <2>2, <2>3 DEF Works, Acts
  <1>4. CASE CreateRun(s)
    <2>1. /\ \A t \in Slots : leg[t].pc = "idle"
          /\ \A j \in JobId : jobs[j].state = "absent"
          /\ \A w \in Workers : cache[w] = NoRun
      BY <1>4, ProcessFacts DEF CreateRun, NoRun, KQInv, KInv, NothingYet
    <2>2. /\ Unread' /\ jobs' = jobs
      BY <1>0, <1>4, <2>1, CreateRunEffect, ProcessFacts DEF Written, Unread
    <2> QED
      BY <1>0, <1>2, <2>1, <2>2 DEF FirstJobFirst, Others
  <1>5. CASE ~CreateRun(s)
    <2>1. \A t, u \in Slots :
              leg'[t].pc = "enqueue_start" /\ leg'[u].pc = "enqueue_start" => t = u
      BY <1>2, <1>3, <1>5 DEF FirstJobFirst, Others
    <2>2. ASSUME NEW t \in Slots, leg'[t].pc = "enqueue_start"
          PROVE  jobs'[StartJob].state = "absent" /\ Unread'
      <3>1. t # s /\ leg[t].pc = "enqueue_start"
        BY <1>2, <1>3, <1>5, <2>2 DEF Others
      <3>2. leg[s].pc # "enqueue_start" /\ jobs[StartJob].state = "absent" /\ Unread
        BY <3>1 DEF FirstJobFirst
      <3>3. Unread'
        <4>1. leg[s].job # StartJob
          BY <1>0, <3>2, JobFacts DEF IInv, JobsOK, Held
        <4> QED
          BY <3>2, <4>1, FirstToWrite
      <3>4. jobs'[StartJob].state = "absent"
        BY <1>0, <1>1, <3>2, JobsGoOn DEF DrivesOn
      <3> QED
        BY <3>3, <3>4
    <2>3. Unread' => \A j \in JobId \ {StartJob} : jobs'[j].state = "absent"
      BY <1>0, <1>1, JobsGoOn DEF FirstJobFirst, DrivesOn
    <2>4. ASSUME ~Unread'
          PROVE  /\ jobs'[StartJob].state # "ready"
                 /\ \A t \in Slots : ~Reads(t, StartJob)'
      <3>1. CASE ~Unread
        <4>1. /\ jobs[StartJob].state # "ready" /\ leg[s].pc # "enqueue_start"
              /\ \A t \in Slots : ~Reads(t, StartJob)
          BY <3>1 DEF FirstJobFirst, Reads
        <4>2. jobs'[StartJob].state # "ready" /\ ~Reads(s, StartJob)'
          BY <1>0, <1>1, <4>1, JobsGoOn DEF DrivesOn, Reads, Opens, Drives
        <4> QED
          BY <1>2, <4>1, <4>2 DEF Others, Reads, Opens
      <3>2. CASE Unread
        <4>1. StartRun(s) /\ leg[s].job = StartJob
          BY <2>4, <3>2, FirstToWrite
        <4>2. jobs' = jobs /\ jobs[StartJob].state = "active" /\ leg'[s].pc = "step"
          BY <1>0, <4>1, StartRunEffect, JobFacts DEF IInv, JobsOK, Held
        <4>3. \A t \in Slots \ {s} : leg[t].job # StartJob
          BY <1>0, <4>1, JobFacts DEF IInv, JobsOK, Held
        <4> QED
          BY <1>2, <4>2, <4>3 DEF Others, Reads, Opens
      <3> QED
        BY <3>1, <3>2
    <2> QED
      BY <2>1, <2>2, <2>3, <2>4 DEF FirstJobFirst, Reads
  <1> QED
    BY <1>4, <1>5

LEMMA PostFacts ==
    ASSUME KQInv, NEW c \in Calls, call[c].kind = "post"
    PROVE  HookJob(call[c].at) \in JobId /\ HookJob(call[c].at) # StartJob
  <1>1. Behind(call[c].at) /\ call[c].at \in Nat /\ call[c].at <= Len(Template) + 1
    BY DEF KQInv, KInv, CInv, CallsOK, Call, QInv, QuietInv, CallsPlaced
  <1> QED
    BY <1>1, TemplateFacts DEF Behind, HookJob, JobId, StartJob

LEMMA SlotExplained ==
    ASSUME KQInv, FirstJobFirst, QueuedExplained, NEW s \in Slots, Works(s), UNCHANGED call
    PROVE  QueuedExplained'
  <1> SUFFICES ASSUME row'.status = "queued" PROVE QueuedExplained'
    BY DEF QueuedExplained
  <1>0. /\ IInv /\ StartJob \in JobId /\ ProcOf[s] \in Processes /\ Others(s)
        /\ LegsHooked /\ CallsPlaced /\ CallsOK
    BY JobFacts, HookedFacts, SlotWrites DEF KQInv, KInv, CInv, QInv, QuietInv
  <1>1. CASE DrivesOn(s)
    BY <1>1 DEF DrivesOn, QueuedExplained
  <1>2. CASE CreateRun(s)
    <2>1. \A w \in Workers : cache[w] = NoRun
      BY <1>2, ProcessFacts DEF CreateRun, NoRun, KQInv, KInv, NothingYet
    <2>2. Unread' /\ leg'[s].pc = "enqueue_start"
      BY <1>0, <1>2, <2>1, CreateRunEffect, ProcessFacts DEF Written, Unread
    <2> QED
      BY <2>2 DEF QueuedExplained, FirstQueued
  <1>3. CASE Opening(s) /\ ~CreateRun(s)
    <2>0. /\ Unwritten /\ ~StartRun(s) /\ ~MarkFailed(s) /\ ~EnqueueStartFails(s)
          /\ crashes' = crashes
      <3>1. ~MarkFailed(s) /\ ~EnqueueStartFails(s) /\ ~StartRun(s)
        BY <1>0, MarkFailedEffect, EnqueueStartFailsEffect, StartRunEffect
      <3> QED
        BY <1>3, <3>1, OpeningWrites, OpeningFrame
    <2>1. row' = row /\ cache' = cache /\ row.status = "queued" /\ (Unread' <=> Unread)
      BY <2>0 DEF Unwritten, Unread
    <2>2. leg[s].pc # "mark" /\ ~Drives(s)
      BY <1>3, <2>0, OpeningFrame DEF Opening, CreateRun, EnqueueStart, Deliver, SkipRun, LoadRun,
                                      StartFails, JobFails, Return, At
    <2>3. CASE row.token # 0
      BY <2>1, <2>3 DEF QueuedExplained
    <2>4. CASE \E t \in Slots : Drives(t) \/ leg[t].pc = "mark"
      BY <1>0, <2>2, <2>4 DEF QueuedExplained, Others, Drives
    \* A job on its way goes on, or its leg marks the run failed, or skips it.
    <2>5. ASSUME NEW j \in JobId,
                 jobs[j].state = "ready" \/ \E t \in Slots : Reads(t, j)
          PROVE  \/ jobs'[j].state = "ready"
                 \/ \E t \in Slots : Reads(t, j)' \/ leg'[t].pc = "mark"
                 \/ SkipRun(s) /\ cache[ProcOf[s]].status \notin {"none", "queued"}
      BY <1>0, <1>3, <2>0, <2>1, <2>5, JobsGoOn DEF Others, Reads, Opens
    <2>6. CASE Unread /\ FirstQueued
      <3>1. ~(SkipRun(s) /\ cache[ProcOf[s]].status \notin {"none", "queued"})
        <4>1. SkipRun(s) => cache[ProcOf[s]] = NoRun
          BY <1>0, <2>6 DEF SkipRun, At, LegsHooked, Unread
        <4> QED
          BY <4>1 DEF NoRun
      <3>2. CASE \E t \in Slots : leg[t].pc = "enqueue_start"
        <4>1. PICK t \in Slots : leg[t].pc = "enqueue_start"
          BY <3>2
        <4>2. CASE t = s
          <5>1. EnqueueStart(s)
            BY <1>3, <2>0, <4>1, <4>2
            DEF Opening, Deliver, SkipRun, LoadRun, StartFails, JobFails, Return, At
          <5>2. jobs'[StartJob].state = "ready"
            BY <1>0, <4>1, <5>1 DEF FirstJobFirst, EnqueueStart, Add, IInv, JobsOK, JobState
          <5> QED
            BY <2>1, <2>6, <5>2 DEF QueuedExplained, FirstQueued
        <4>3. CASE t # s
          BY <1>0, <2>1, <2>6, <4>1, <4>3 DEF QueuedExplained, FirstQueued, Others
        <4> QED
          BY <4>2, <4>3
      <3>3. CASE jobs[StartJob].state = "ready" \/ \E t \in Slots : Reads(t, StartJob)
        BY <1>0, <2>1, <2>5, <2>6, <3>1, <3>3 DEF QueuedExplained, FirstQueued, Reads
      <3>4. CASE jobs[StartJob].state = "dropped"
        BY <1>0, <1>3, <2>1, <2>6, <3>4, JobsGoOn DEF QueuedExplained, FirstQueued
      <3>5. CASE /\ jobs[StartJob].state = "absent"
                 /\ \/ crashes > 0
                    \/ \E c \in Calls : call[c].kind = "cancel" /\ call[c].pc \in {"find", "write"}
                 /\ ~\E t \in Slots : leg[t].pc = "enqueue_start"
        <4>1. jobs'[StartJob].state = "absent"
          BY <1>0, <1>3, <3>5, JobsGoOn
        <4> QED
          BY <2>0, <2>1, <2>6, <3>5, <4>1 DEF QueuedExplained, FirstQueued
      <3> QED
        BY <2>6, <3>2, <3>3, <3>4, <3>5 DEF FirstQueued, Reads
    <2>7. CASE \E c \in Calls : PostQueued(c)
      <3>1. PICK c \in Calls : PostQueued(c)
        BY <2>7
      <3>2. PICK j \in JobId : j = HookJob(call[c].at) /\ j # StartJob
        <4>1. HookJob(call[c].at) \in JobId /\ HookJob(call[c].at) # StartJob
          BY <3>1, PostFacts DEF PostQueued
        <4> QED
          BY <4>1
      <3>3. CASE /\ jobs[j].state = "absent" \/ jobs[j].state = "ready"
                    \/ \E t \in Slots : Reads(t, j)
                 /\ call[c].pc = "over"
        <4>1. \/ jobs'[j].state \in {"absent", "ready"}
              \/ \E t \in Slots : Reads(t, j)' \/ leg'[t].pc = "mark"
              \/ SkipRun(s) /\ cache[ProcOf[s]].status \notin {"none", "queued"}
          <5>1. CASE jobs[j].state = "absent"
            BY <1>3, <3>2, <5>1, JobsGoOn
          <5>2. CASE jobs[j].state = "ready" \/ \E t \in Slots : Reads(t, j)
            BY <2>5, <3>2, <5>2
          <5> QED
            BY <3>3, <5>1, <5>2
        <4>2. SkipRun(s) => ProcOf[s] \in Workers
          BY <1>0 DEF SkipRun, At, LegsHooked
        <4>3. \/ jobs'[j].state \in {"absent", "ready"} \/ \E t \in Slots : Reads(t, j)'
              \/ \E w \in Workers : cache'[w].status \notin {"none", "queued"}
              \/ \E t \in Slots : leg'[t].pc = "mark"
          BY <2>1, <4>1, <4>2
        <4>4. CASE \E t \in Slots : leg'[t].pc = "mark"
          BY <4>4 DEF QueuedExplained
        <4>5. CASE \/ jobs'[j].state \in {"absent", "ready"} \/ \E t \in Slots : Reads(t, j)'
                   \/ \E w \in Workers : cache'[w].status \notin {"none", "queued"}
          <5>1. PostQueued(c)'
            BY <2>1, <3>1, <3>2, <3>3, <4>5 DEF PostQueued, Reads
          <5> QED
            BY <5>1 DEF QueuedExplained
        <4> QED
          BY <4>3, <4>4, <4>5
      <3>4. CASE \/ call[c].pc = "wake"
                 \/ call[c].pc = "over" /\ \E d \in Calls \ {c} :
                                               call[d].kind = "post" /\ call[d].pc # "new"
                 \/ call[c].pc = "over" /\ \E w \in Workers :
                                               cache[w].status \notin {"none", "queued"}
        <4>1. PostQueued(c)'
          BY <2>1, <3>1, <3>4 DEF PostQueued
        <4> QED
          BY <4>1 DEF QueuedExplained
      <3> QED
        BY <3>1, <3>2, <3>3, <3>4 DEF PostQueued, Reads
    <2> QED
      BY <2>1, <2>3, <2>4, <2>6, <2>7 DEF QueuedExplained
  <1> QED
    BY <1>1, <1>2, <1>3, HookedSteps

----------------------------------------------------------------------------
(* A queued run is attended: crashes and calls                             *)

\* A job that is there when a post comes to add it was added for another post.
LEMMA AnotherPost ==
    ASSUME KQInv, NEW c \in Calls, call[c].pc = "wake",
           jobs[HookJob(call[c].at)].state # "absent"
    PROVE  \E d \in Calls \ {c} : Posted(d)
  <1>1. call[c].kind = "post"
    BY DEF KQInv, QInv, QuietInv, CallsPlaced
  <1>2. \E d \in Calls : Posted(d)
    BY <1>1, PostFacts DEF KQInv, QInv, QuietInv, JobsPosted, HookJob
  <1> QED
    BY <1>2 DEF Posted

LEMMA CrashExplained ==
    ASSUME KQInv, FirstJobFirst, QueuedExplained, NEW p \in Processes, ControlCrash(p)
    PROVE  FirstJobFirst' /\ QueuedExplained'
  <1>0. /\ \A w \in Workers : cache'[w] = cache[w]
        /\ UNCHANGED <<row, jobs>> /\ crashes' > 0
        /\ \A s \in Slots : leg'[s] = leg[s]
                            \/ (leg'[s] = Idle /\ leg[s].pc \in {"idle", "enqueue_start"})
        /\ \A c \in Calls : /\ call'[c].kind = call[c].kind /\ call'[c].at = call[c].at
                            /\ call'[c].pc = call[c].pc
                               \/ (call'[c].pc = "over" /\ call[c].pc # "new")
    <2>1. cache \in [Processes -> Run] /\ crashes \in Nat
      BY DEF KQInv, KInv, CInv, IInv, RunsOK, CountsOK
    <2> QED
      BY <2>1, CrashQuietly, ProcessFacts
  <1>1. Unread' <=> Unread
    BY <1>0 DEF Unread
  <1>2. FirstJobFirst'
    BY <1>0, <1>1, IdleFacts DEF FirstJobFirst, Opens
  <1>3. QueuedExplained'
    <2> SUFFICES ASSUME row'.status = "queued" PROVE QueuedExplained'
      BY DEF QueuedExplained
    <2>1. CASE row.token # 0 \/ \E s \in Slots : Drives(s) \/ leg[s].pc = "mark"
      BY <1>0, <2>1 DEF QueuedExplained, Drives
    <2>2. CASE Unread /\ FirstQueued
      BY <1>0, <1>1, <2>2 DEF FirstJobFirst, FirstQueued, QueuedExplained, Opens
    <2>3. CASE \E c \in Calls : PostQueued(c)
      <3>1. PICK c \in Calls : PostQueued(c)
        BY <2>3
      <3>2. CASE call[c].pc = "over"
        BY <1>0, <3>1, <3>2 DEF PostQueued, QueuedExplained, Opens
      <3>3. CASE call[c].pc = "wake" /\ jobs[HookJob(call[c].at)].state = "absent"
        BY <1>0, <3>1, <3>3 DEF PostQueued, QueuedExplained
      <3>4. CASE call[c].pc = "wake" /\ jobs[HookJob(call[c].at)].state # "absent"
        <4>1. PICK d \in Calls \ {c} : Posted(d)
          BY <3>4, AnotherPost
        <4>2. call'[d].kind = "post" /\ call'[d].pc # "new"
          BY <1>0, <4>1 DEF Posted
        <4> QED
          BY <1>0, <3>1, <4>1, <4>2 DEF PostQueued, QueuedExplained
      <3> QED
        BY <3>1, <3>2, <3>3, <3>4 DEF PostQueued
    <2> QED
      BY <1>0, <2>1, <2>2, <2>3 DEF QueuedExplained
  <1> QED
    BY <1>2, <1>3

LEMMA CallExplained ==
    ASSUME KQInv, FirstJobFirst, QueuedExplained, NoRetry, NEW c \in Calls,
           Cancel(c) \/ Retry(c) \/ Post(c) \/ Finds(c), NoRetry'
    PROVE  FirstJobFirst' /\ QueuedExplained'
  <1>0. /\ UNCHANGED <<leg, crashes>> /\ \A d \in Calls \ {c} : call'[d] = call[d]
        /\ \/ CallReads(c)
           \/ /\ CallWorks(c) \/ CallFinds(c) \/ CallWritesRun(c)
              /\ call'[c].kind = call[c].kind /\ call'[c].at = call[c].at
        /\ jobs \in [JobId -> JobState] /\ StartJob \in JobId
        /\ CallProc[c] \in Processes /\ CallProc[c] \notin Workers
        /\ CallsPlaced /\ Untouched /\ call[c].kind # "retry"
    BY CallDoes, JobFacts, ProcessFacts DEF KQInv, KInv, CInv, IInv, JobsOK, QInv, QuietInv,
                                            NoRetry
  <1>1. (Unread' <=> Unread) /\ \A w \in Workers : cache'[w] = cache[w]
    BY <1>0, ProcessFacts DEF CallReads, CallWorks, CallFinds, CallWritesRun, WrittenIn, Unread
  <1>2. /\ call[c].pc \in {"new", "remove", "find", "write", "wake"}
        /\ call[c].pc = "write" => call[c].kind \in {"cancel", "post"}
    BY <1>0 DEF CallReads, CallWorks, CallFinds, CallWritesRun, CallsPlaced
  <1>3. CASE jobs' = jobs /\ call[c].pc # "wake"
    <2>1. FirstJobFirst'
      BY <1>0, <1>1, <1>3 DEF FirstJobFirst, Opens
    <2>2. ASSUME row'.status = "queued" PROVE QueuedExplained'
      <3>1. CASE call[c].pc = "write" /\ call[c].kind = "post"
        <4>1. PostQueued(c)'
          BY <1>0, <3>1 DEF CallReads, CallWorks, CallFinds, CallWritesRun, CallsPlaced, PostQueued
        <4> QED
          BY <4>1 DEF QueuedExplained
      <3>2. CASE call[c].pc \in {"new", "remove", "find"}
        <4>1. row' = row /\ call[c].pc # "write"
          BY <1>0, <3>2 DEF CallReads, CallWorks, CallFinds, CallWritesRun
        <4>2. \A d \in Calls : PostQueued(d) => d # c
          BY <1>0, <3>2 DEF PostQueued
        <4>3. ASSUME NEW d \in Calls, PostQueued(d) PROVE PostQueued(d)'
          <5>1. d # c /\ call'[d] = call[d]
            BY <1>0, <4>2, <4>3
          <5>2. \A e \in Calls \ {d} : call[e].kind = "post" /\ call[e].pc # "new" =>
                    call'[e].kind = "post" /\ call'[e].pc # "new"
            BY <1>0, <3>2 DEF CallReads, CallWorks, CallFinds, CallWritesRun
          <5> QED
            BY <1>0, <1>1, <1>3, <4>1, <4>3, <5>1, <5>2 DEF PostQueued, Opens
        <4>4. CASE row.token # 0 \/ \E s \in Slots : Drives(s) \/ leg[s].pc = "mark"
          BY <1>0, <4>1, <4>4 DEF QueuedExplained, Drives
        <4>5. CASE Unread /\ FirstQueued
          <5>1. ASSUME NEW d \in Calls, call[d].kind = "cancel", call[d].pc \in {"find", "write"}
                PROVE  call'[d].kind = "cancel" /\ call'[d].pc \in {"find", "write"}
            BY <1>0, <3>2, <5>1 DEF CallReads, CallWorks, CallFinds, CallWritesRun
          <5> QED
            BY <1>0, <1>1, <1>3, <4>1, <4>5, <5>1 DEF FirstQueued, QueuedExplained, Opens
        <4> QED
          BY <2>2, <4>1, <4>3, <4>4, <4>5 DEF QueuedExplained
      <3>3. ~(call[c].pc = "write" /\ call[c].kind = "cancel")
        BY <1>0, <2>2 DEF CallReads, CallWorks, CallFinds, CallWritesRun
      <3> QED
        BY <1>2, <1>3, <3>1, <3>2, <3>3
    <2> QED
      BY <2>1, <2>2 DEF QueuedExplained
  <1>4. CASE call[c].pc = "remove" /\ jobs' # jobs
    <2>1. /\ RemoveJob /\ row' = row
          /\ call'[c].pc = "find" /\ call'[c].kind = "cancel" /\ call[c].kind = "cancel"
      BY <1>0, <1>4 DEF CallReads, CallWorks, CallFinds, CallWritesRun, CallsPlaced
    <2>2. jobs'[StartJob].state = "absent" /\ \A j \in JobId \ {StartJob} : jobs'[j] = jobs[j]
      BY <1>0, <2>1 DEF RemoveJob
    <2>3. FirstJobFirst'
      BY <1>0, <1>1, <2>2 DEF FirstJobFirst, Opens
    <2>4. ASSUME NEW d \in Calls, PostQueued(d) PROVE PostQueued(d)'
      <3>1. d # c /\ call'[d] = call[d] /\ call[d].kind = "post"
        BY <1>0, <1>4, <2>4 DEF PostQueued
      <3>2. jobs'[HookJob(call[d].at)] = jobs[HookJob(call[d].at)]
        BY <2>2, <3>1, PostFacts
      <3>3. \A e \in Calls \ {d} : call[e].kind = "post" /\ call[e].pc # "new" =>
                call'[e].kind = "post" /\ call'[e].pc # "new"
        BY <1>0, <2>1
      <3> QED
        BY <1>0, <1>1, <2>1, <2>4, <3>1, <3>2, <3>3 DEF PostQueued, Opens
    <2>5. CASE row.token # 0 \/ \E s \in Slots : Drives(s) \/ leg[s].pc = "mark"
      BY <1>0, <2>1, <2>3, <2>5 DEF QueuedExplained, Drives
    <2>6. CASE Unread
      BY <1>1, <2>1, <2>2, <2>3, <2>6 DEF FirstQueued, QueuedExplained
    <2> QED
      BY <2>1, <2>3, <2>4, <2>5, <2>6 DEF QueuedExplained
  <1>5. CASE call[c].pc = "wake"
    <2> DEFINE j == HookJob(call[c].at)
    <2>0. /\ call[c].kind = "post" /\ call'[c].pc = "over" /\ row' = row
          /\ call'[c].kind = "post" /\ call'[c].at = call[c].at
          /\ Add(HookJob(call[c].at)) \/ UNCHANGED jobs
      BY <1>0, <1>5 DEF CallReads, CallWorks, CallFinds, CallWritesRun, CallsPlaced
    <2>1. j \in JobId /\ j # StartJob
      BY <2>0, PostFacts
    <2>2. /\ jobs'[j] = jobs[j] \/ (jobs[j].state = "absent" /\ jobs'[j].state = "ready")
          /\ \A k \in JobId \ {j} : jobs'[k] = jobs[k]
      BY <1>0, <2>0, <2>1 DEF Add, JobState
    <2>3. ~Unread
      BY <1>5, <2>0 DEF Untouched, Under, KQInv, KInv
    <2>4. FirstJobFirst'
      BY <1>0, <1>1, <2>1, <2>2, <2>3 DEF FirstJobFirst, Opens
    <2>5. ASSUME NEW d \in Calls, PostQueued(d) PROVE PostQueued(d)'
      <3> DEFINE k == HookJob(call[d].at)
      <3>1. /\ call'[d].kind = "post" /\ call'[d].at = call[d].at /\ row'.at = call'[d].at
            /\ k \in JobId /\ call[d].kind = "post"
        BY <1>0, <2>0, <2>5, PostFacts DEF PostQueued
      <3>2. jobs[k].state \in {"absent", "ready"} => jobs'[k].state \in {"absent", "ready"}
        <4> HIDE DEF j, k
        <4> QED
          BY <2>2, <3>1
      <3>3. \A e \in Calls \ {d} : call[e].kind = "post" /\ call[e].pc # "new" =>
                call'[e].kind = "post" /\ call'[e].pc # "new"
        BY <1>0, <2>0
      <3>4. CASE d # c
        <4>1. call'[d] = call[d]
          BY <1>0, <3>4
        <4> QED
          BY <1>0, <1>1, <2>5, <3>1, <3>2, <3>3, <4>1 DEF PostQueued, Opens
      <3>5. CASE d = c
        <4>1. CASE jobs[j].state = "absent"
          <5>1. jobs'[j].state \in {"absent", "ready"}
            <6> HIDE DEF j
            <6> QED
              BY <2>2, <4>1
          <5> QED
            BY <2>0, <3>1, <3>5, <5>1 DEF PostQueued
        <4>2. CASE jobs[j].state # "absent"
          <5>1. PICK e \in Calls \ {c} : Posted(e)
            BY <1>5, <4>2, AnotherPost
          <5>2. call'[e].kind = "post" /\ call'[e].pc # "new"
            BY <1>0, <5>1 DEF Posted
          <5> QED
            BY <2>0, <3>1, <3>5, <5>1, <5>2 DEF PostQueued
        <4> QED
          BY <4>1, <4>2
      <3> QED
        BY <3>4, <3>5
    <2>6. CASE row.token # 0 \/ \E s \in Slots : Drives(s) \/ leg[s].pc = "mark"
      BY <1>0, <2>0, <2>4, <2>6 DEF QueuedExplained, Drives
    <2> QED
      BY <2>0, <2>3, <2>4, <2>5, <2>6 DEF QueuedExplained
  <1>6. call[c].pc \in {"new", "find", "write"} => jobs' = jobs
    BY <1>0 DEF CallReads, CallWorks, CallFinds, CallWritesRun
  <1> QED
    BY <1>2, <1>3, <1>4, <1>5, <1>6

----------------------------------------------------------------------------
(* A queued run is attended: every step                                    *)

\* A retry is never unmade.
LEMMA RetryStays ==
    ASSUME KQInv, [ControlNext]_controlVars, NoRetry'
    PROVE  NoRetry
  <1>1. CASE UNCHANGED call
    BY <1>1 DEF NoRetry
  <1>2. ASSUME NEW p \in Processes, ControlCrash(p)
        PROVE  NoRetry
    BY <1>2, CrashQuietly DEF NoRetry
  <1>3. ASSUME NEW c \in Calls, Cancel(c) \/ Retry(c) \/ Post(c) \/ Finds(c)
        PROVE  NoRetry
    BY <1>3, CallDoes DEF NoRetry, CallReads, KQInv, QInv, QuietInv, CallsPlaced
  <1> QED
    BY <1>1, <1>2, <1>3 DEF ControlNext, controlVars

\* What a call has found it goes on having found.
LEMMA FoundStays ==
    ASSUME KInv, [ControlNext]_controlVars, NEW c \in Calls
    PROVE  \/ call'[c].kind = call[c].kind /\ call'[c].found = call[c].found
           \/ call[c].kind = "none"
           \/ call'[c].kind = call[c].kind /\ call[c].found = NoRun
  <1>1. CASE UNCHANGED call
    BY <1>1
  <1>2. ASSUME NEW p \in Processes, ControlCrash(p)
        PROVE  call'[c].kind = call[c].kind /\ call'[c].found = call[c].found
    <2>1. call'[c] \in {call[c], [call[c] EXCEPT !.pc = "over"]} /\ call[c] \in Call
      BY <1>2, CallFacts DEF ControlCrash, KInv
    <2> QED
      BY <2>1 DEF Call
  <1>3. ASSUME NEW d \in Calls, Cancel(d) \/ Retry(d) \/ Post(d) \/ Finds(d)
        PROVE  \/ call'[c].kind = call[c].kind /\ call'[c].found = call[c].found
               \/ call[c].kind = "none"
               \/ call'[c].kind = call[c].kind /\ call[c].found = NoRun
    <2>1. CASE CancelReads(d) \/ RetryReads(d) \/ PostReads(d)
      <3>1. call[d].pc = "new" /\ \E begun : call' = [call EXCEPT ![d] = begun]
        BY <2>1 DEF CancelReads, RetryReads, PostReads, Begins
      <3> QED
        BY <3>1 DEF KInv, CInv, CallsOK, Given
    <2>2. CASE \E pc : Moves(d, pc)
      BY <2>2, MovesOn
    <2>3. CASE Finds(d)
      BY <2>3, FindsFacts DEF KInv, Given
    <2> QED
      BY <1>3, <2>1, <2>2, <2>3
      DEF Cancel, CancelRemoves, CancelWrites, Retry, RetryClears, RetryAdds, RetryMarks,
          RetryFails, Post, PostConsumes, PostWakes, PostFails, WritesBack
  <1> QED
    BY <1>1, <1>2, <1>3 DEF ControlNext, controlVars

\* A post that comes too late is not forgotten.
LEMMA PostsStay ==
    ASSUME KInv, [ControlNext]_controlVars, PostsInTime'
    PROVE  PostsInTime
  <1>1. NoRun.status # "running"
    BY DEF NoRun
  <1> QED
    BY <1>1, FoundStays DEF PostsInTime

LEMMA NextQInv ==
    ASSUME KQInv, [ControlNext]_controlVars
    PROVE  QInv'
  <1>0. NoRetry' => NoRetry /\ FirstJobFirst /\ QueuedExplained
    BY RetryStays DEF KQInv, QInv
  <1>1. ASSUME NEW s \in Slots, Works(s), UNCHANGED call
        PROVE  QInv'
    BY <1>0, <1>1, SlotQuiet, SlotFirstJob, SlotExplained DEF QInv
  <1>2. CASE /\ UNCHANGED call
             /\ \/ \E j \in JobId : DropStalled(j)
                \/ Approve
                \/ \E w \in Workers : Reaper(w)
    BY <1>2, OthersQuiet, QuietKeeps DEF KQInv
  <1>3. ASSUME NEW p \in Processes, ControlCrash(p)
        PROVE  QInv'
    BY <1>0, <1>3, CrashQuiet, CrashExplained DEF QInv
  <1>4. ASSUME NEW c \in Calls, Cancel(c) \/ Retry(c) \/ Post(c) \/ Finds(c)
        PROVE  QInv'
    BY <1>0, <1>4, CallQuiet, CallExplained DEF QInv
  <1>5. CASE UNCHANGED controlVars
    BY <1>5, QuietKeeps DEF controlVars, vars, KQInv
  <1> QED
    BY <1>1, <1>2, <1>3, <1>4, <1>5 DEF ControlNext, Work, Works

LEMMA InitQInv == ControlInit => QInv
  <1> SUFFICES ASSUME ControlInit PROVE QInv
    OBVIOUS
  <1>1. /\ NoRun.status = "none" /\ NoRun.token = 0 /\ NewCall.pc = "new"
        /\ NewCall.kind = "none"
    BY DEF NoRun, NewCall
  <1> QED
    BY <1>1, IdleFacts, ProcessFacts, JobFacts
    DEF ControlInit, Init, QInv, QuietInv, LegsHooked, StepHooked, HasRun, Opens, Drives,
        CopiesHooked, RunHooked, Attended, CallsPlaced, JobsPosted, FirstJobFirst, Unread,
        QueuedExplained

\* What attends a queued run, or how it was lost.
LEMMA ExplainedIsAttended == (PostsInTime => KQInv) => QueuedIsAttended
  <1> SUFFICES ASSUME PostsInTime, KQInv, row.status = "queued", ~Scheduled,
                      \A c \in Calls : ~Under(c), row.token = 0, ~Forgotten, ~RetriedInVain
               PROVE  WokenInVain
    BY DEF QueuedIsAttended
  <1>0. /\ IInv /\ LegsHooked /\ Attended /\ CallsPlaced /\ JobsPosted
        /\ jobs \in [JobId -> JobState] /\ StartJob \in JobId
        /\ \A j \in JobId : jobs[j].state \in {"absent", "kept", "dropped"}
    <2>1. \A j \in JobId : jobs[j].state \in {"absent", "ready", "active", "stalled", "kept",
                                              "dropped"}
      BY DEF KQInv, KInv, CInv, IInv, JobsOK, JobState
    <2> QED
      BY <2>1, JobFacts DEF KQInv, KInv, CInv, IInv, JobsOK, QInv, QuietInv, Scheduled
  <1>1. \A s \in Slots : leg[s].job \notin JobId /\ ~Opens(s)
    <2>1. \A s \in Slots : leg[s].job \notin JobId
      BY <1>0, JobFacts DEF IInv, JobsOK, Held
    <2> QED
      BY <1>0, <2>1 DEF LegsHooked
  <1>2. LatestJob = StartJob
    BY <1>0 DEF Attended, LatestJob
  <1>3. NoRetry
    <2>1. ASSUME NEW c \in Calls, call[c].kind = "retry"
          PROVE  FALSE
      <3>1. call[c].pc = "over"
        BY <1>0, <2>1 DEF Under, CallsPlaced
      <3>2. jobs[StartJob].state = "dropped"
        BY <1>0, <2>1, <3>1 DEF RetriedInVain
      <3> QED
        BY <1>2, <3>2 DEF Forgotten
    <2> QED
      BY <2>1 DEF NoRetry
  <1>4. \A s \in Slots : ~Drives(s)
    <2>1. ASSUME NEW s \in Slots, Drives(s) PROVE FALSE
      <3>1. leg[s].job \in JobId
        BY <1>0, <2>1 DEF LegsHooked
      <3> QED
        BY <1>1, <3>1
    <2> QED
      BY <2>1
  <1>5. ~(Unread /\ FirstQueued)
    BY <1>0, <1>1, <1>2 DEF FirstQueued, Scheduled, Forgotten, Under
  <1>6. PICK c \in Calls : PostQueued(c)
    BY <1>3, <1>4, <1>5 DEF KQInv, QInv, QueuedExplained, Scheduled
  <1>7. HookJob(call[c].at) \in JobId
    BY <1>6, PostFacts DEF PostQueued
  <1> QED
    BY <1>0, <1>1, <1>6, <1>7 DEF PostQueued, Under, WokenInVain

\* While no worker dies, every call is served by a process of its own, and the run only acts
\* and waits for webhooks: until a post comes too late, a running run is driven, the reaper
\* finds nothing to replay, and until a call retries it, a queued run is explained by its
\* first job or by a post.
THEOREM QInvariance ==
    ControlSpec /\ ServedApart /\ CallsApart /\ Hooked => [](PostsInTime => KQInv)
  <1> DEFINE Inv == Hooked /\ CallsApart /\ (PostsInTime => KQInv)
  <1>1. ControlInit /\ ServedApart /\ CallsApart /\ Hooked => Inv
    BY InitKInv, InitQInv DEF KQInv
  <1>2. Inv /\ KInv /\ KInv' /\ [ControlNext]_controlVars => Inv'
    BY PostsStay, NextQInv DEF KQInv, Hooked, CallsApart
  <1> QED
    BY <1>1, <1>2, KInvariance, PTL DEF ControlSpec

\* However many calls cancel, retry and wake a run, a queued run has a job, a call on its way
\* or a token to be posted, but for the ways to lose it that QueuedIsAttended names.
THEOREM QueuedIsAttendedAlways ==
    ControlSpec /\ ServedApart /\ CallsApart /\ Hooked => []QueuedIsAttended
  BY QInvariance, ExplainedIsAttended, PTL
=============================================================================
