--------------------------- MODULE SoleDriverProofs ---------------------------
(***************************************************************************)
(* However calls, deliveries and crashes fall, one leg at a time drives    *)
(* the run, and a retry or a post carries out no recorded step again.      *)
(***************************************************************************)
EXTENDS RunControlProofs

----------------------------------------------------------------------------
(* The run is in one place                                                 *)

\* A copy of the run has the token of a wait before step n.
Bearing(run, n) == run.token # 0 /\ run.at = n

\* A post that has begun may still add the job of the wait before step n.
Waking(c, n) ==
    call[c].kind = "post" /\ call[c].pc \in {"find", "write", "wake"} /\ call[c].at = n

\* A call is about to put back the token of that wait.
PutsBack(c, n) ==
    call[c].kind # "post" /\ call[c].pc = "write" /\ Bearing(call[c].found, n)

\* A post may still add the job of the wait before step n.
Ahead(n) ==
    \/ Bearing(row, n)
    \/ \E p \in Processes : Bearing(cache[p], n)
    \/ \E c \in Calls : Waking(c, n) \/ PutsBack(c, n)

\* The job is in the queue, or the run is paused for it.
Due(j) ==
    \/ jobs[j].state = "ready"
    \/ j.kind = "hook" /\ jobs[j].state = "absent" /\ Ahead(j.n)

\* The leg has the run, or is about to add its first job or to mark it failed.
Carries(s) == leg[s].pc \in {"enqueue_start", "mark"} \/ Opens(s) \/ Drives(s)

\* Of legs that carry the run and jobs that are due there is one at most.
OneCarrier ==
    /\ \A s, t \in Slots : Carries(s) /\ Carries(t) => s = t
    /\ \A j, k \in JobId : Due(j) /\ Due(k) => j = k
    /\ \A s \in Slots, j \in JobId : ~(Carries(s) /\ Due(j))

Uncarried == (\A s \in Slots : ~Carries(s)) /\ (\A j \in JobId : ~Due(j))

Retrying(c) == call[c].kind = "retry" /\ call[c].pc \in {"clear", "add"}

\* The run has failed, as the row has it or a post that is about to write it back.
FailureSeen ==
    \/ row.status = "failed"
    \/ \E c \in Calls : call[c].kind = "post" /\ call[c].pc = "write"
                        /\ call[c].found.status = "failed"

\* Nobody carries a run that has failed, until a retry has added its job.
FailedIsOver ==
    (NoRetry /\ FailureSeen) \/ (\E c \in Calls : Retrying(c)) => Uncarried

DrivenIsRunning == \A s \in Slots : Drives(s) => cache[ProcOf[s]].status = "running"

SoleInv == OneCarrier /\ FailedIsOver /\ DrivenIsRunning

DInv == RetriedOnce => SoleInv

----------------------------------------------------------------------------
(* How the run passes from leg to job and back                             *)

CarriesNoMore == \A t \in Slots : Carries(t)' => Carries(t)
DueNoMore == \A j \in JobId : Due(j)' => Due(j)

\* Nobody carries the run who did not, or the leg puts it into the queue, or takes it out.
Passes(s) ==
    \/ CarriesNoMore /\ DueNoMore
    \/ /\ Carries(s) /\ ~Carries(s)' /\ CarriesNoMore
       /\ \E k \in JobId : \A j \in JobId \ {k} : Due(j)' => Due(j)
    \/ /\ \A t \in Slots \ {s} : Carries(t)' => Carries(t)
       /\ DueNoMore /\ \E k \in JobId : Due(k) /\ ~Due(k)'

\* What is handed on stays in one place.
LEMMA OneCarrierStays ==
    ASSUME OneCarrier, NEW s \in Slots, Passes(s)
    PROVE  OneCarrier'
  <1>1. CASE CarriesNoMore /\ DueNoMore
    BY <1>1 DEF CarriesNoMore, DueNoMore, OneCarrier
  <1>2. CASE /\ Carries(s) /\ ~Carries(s)' /\ CarriesNoMore
             /\ \E k \in JobId : \A j \in JobId \ {k} : Due(j)' => Due(j)
    <2>1. \A t \in Slots : ~Carries(t)'
      BY <1>2 DEF CarriesNoMore, OneCarrier
    <2>2. PICK k \in JobId : \A j \in JobId \ {k} : Due(j)' => Due(j)
      BY <1>2
    <2>3. \A j \in JobId \ {k} : ~Due(j)'
      BY <1>2, <2>2 DEF OneCarrier
    <2> QED
      BY <2>1, <2>3 DEF OneCarrier
  <1>3. CASE /\ \A t \in Slots \ {s} : Carries(t)' => Carries(t)
             /\ DueNoMore /\ \E k \in JobId : Due(k) /\ ~Due(k)'
    BY <1>3 DEF DueNoMore, OneCarrier
  <1> QED
    BY <1>1, <1>2, <1>3 DEF Passes

\* A failed run gets no carrier.
LEMMA UncarriedStays ==
    ASSUME NEW s \in Slots, Passes(s), Uncarried
    PROVE  Uncarried'
  <1>1. CarriesNoMore /\ DueNoMore
    BY DEF Passes, Uncarried
  <1> QED
    BY <1>1 DEF CarriesNoMore, DueNoMore, Uncarried

\* No job becomes due while the queue rests and no token is minted.
LEMMA DueStays ==
    ASSUME UNCHANGED jobs, \A n : Ahead(n)' => Ahead(n)
    PROVE  DueNoMore
  BY DEF DueNoMore, Due

\* A write that mints no token.
LEMMA AheadStays ==
    ASSUME KQInv, NEW s \in Slots, UNCHANGED call, Unwritten \/ (Written(s) /\ TokenKept(s))
    PROVE  \A n : Ahead(n)' => Ahead(n)
  <1> SUFFICES ASSUME NEW n, Ahead(n)' PROVE Ahead(n)
    OBVIOUS
  <1>1. CASE Unwritten
    BY <1>1 DEF Unwritten, Ahead, Bearing, Waking, PutsBack
  <1>2. CASE Written(s) /\ TokenKept(s)
    <2>1. ProcOf[s] \in Processes
      BY HookedFacts
    <2>2. Bearing(row, n)' => Bearing(Copy(s), n)
      BY <1>2 DEF TokenKept, Bearing
    <2>3. Bearing(Copy(s), n) => Ahead(n)
      BY <2>1 DEF Copy, Current, Ahead
    <2>4. \A p \in Processes : Bearing(cache[p], n)' => Ahead(n)
      BY <1>2, <2>1, <2>2, <2>3 DEF Written, Bearing, Ahead
    <2> QED
      BY <2>2, <2>3, <2>4 DEF Ahead, Bearing, Waking, PutsBack
  <1> QED
    BY <1>1, <1>2

\* The job a leg holds is active, hence not due.
LEMMA HeldFacts ==
    ASSUME KQInv, NEW s \in Slots
    PROVE  /\ IInv /\ LegsHooked /\ leg[s].job \in JobId \union {NoJob}
           /\ leg[s].job \in JobId => jobs[leg[s].job].state = "active"
           /\ Opens(s) \/ Drives(s) => leg[s].job \in JobId
           /\ \A t \in Slots \ {s} : leg[t].job = leg[s].job => leg[s].job = NoJob
  <1>1. IInv /\ LegsHooked
    BY DEF KQInv, KInv, CInv, QInv, QuietInv
  <1>2. leg[s].job \in JobId \union {NoJob}
    BY <1>1, LegFacts DEF Leg
  <1> QED
    BY <1>1, <1>2, JobFacts DEF IInv, JobsOK, Held, LegsHooked

----------------------------------------------------------------------------
(* The steps of a slot                                                     *)

\* The run that is created is with the leg that creates it.
LEMMA CreatePasses ==
    ASSUME KQInv, NEW s \in Slots, CreateRun(s), UNCHANGED call
    PROVE  /\ OneCarrier' /\ ~FailureSeen'
           /\ \A c \in Calls : ~Retrying(c)'
           /\ \A t \in Slots : ~Drives(t)'
  <1>0. /\ IInv /\ NoRun.status = "none" /\ NoRun.token = 0 /\ row = NoRun
        /\ \A p \in Processes : cache[p] = NoRun
        /\ \A t \in Slots : leg[t].pc = "idle"
        /\ \A c \in Calls : ~Under(c)
        /\ \A j \in JobId : jobs[j].state = "absent"
    BY DEF KQInv, KInv, CInv, NothingYet, CreateRun, NoRun
  <1>1. \A n : ~Ahead(n)
    BY <1>0 DEF Ahead, Bearing, Under, Waking, PutsBack
  <1>2. /\ row'.token = 0 /\ row'.status = "queued" /\ Written(s) /\ Others(s)
        /\ leg'[s].pc = "enqueue_start" /\ jobs' = jobs
    BY <1>0, CreateRunEffect DEF NoRun
  <1>3. \A n : ~Ahead(n)'
    <2>1. TokenKept(s)
      BY <1>2 DEF TokenKept
    <2> QED
      BY <1>1, <1>2, <2>1, AheadStays
  <1>4. \A j \in JobId : ~Due(j)'
    BY <1>0, <1>2, <1>3 DEF Due
  <1>5. \A t \in Slots \ {s} : ~Carries(t)' /\ ~Drives(t)'
    BY <1>0, <1>2 DEF Others, Carries, Opens, Drives
  <1>6. ~FailureSeen' /\ \A c \in Calls : ~Retrying(c)'
    BY <1>0, <1>2 DEF Retrying, Under, FailureSeen
  <1> QED
    BY <1>2, <1>4, <1>5, <1>6 DEF OneCarrier, Drives

\* The leg leaves the run to nobody.
Ends(s) == Carries(s) /\ ~Carries(s)' /\ CarriesNoMore /\ DueNoMore

\* A leg that marks the run failed leaves it with nobody.
LEMMA FailureEnds ==
    ASSUME KQInv, NEW s \in Slots, EnqueueStartFails(s) \/ MarkFailed(s), UNCHANGED call
    PROVE  Ends(s) /\ \A n : Ahead(n)' => Ahead(n)
  <1>0. IInv
    BY HeldFacts
  <1>1. Others(s) => \A t \in Slots \ {s} : Carries(t)' => Carries(t)
    BY DEF Others, Carries, Opens, Drives
  <1>2. CASE EnqueueStartFails(s)
    <2>1. /\ Carries(s) /\ ~Carries(s)' /\ CarriesNoMore /\ jobs' = jobs /\ Written(s)
          /\ row' = [Copy(s) EXCEPT !.status = "failed"]
      BY <1>0, <1>1, <1>2, EnqueueStartFailsEffect, IdleFacts
      DEF Carries, CarriesNoMore, Opens, Drives
    <2>2. TokenKept(s)
      BY <2>1, HookedFacts DEF TokenKept, Run
    <2>3. \A n : Ahead(n)' => Ahead(n)
      BY <2>1, <2>2, AheadStays
    <2> QED
      BY <2>1, <2>3, DueStays DEF Ends
  <1>3. CASE MarkFailed(s)
    <2>1. /\ Carries(s) /\ ~Carries(s)' /\ CarriesNoMore /\ jobs' = jobs
      BY <1>0, <1>1, <1>3, MarkFailedEffect, IdleFacts DEF Carries, CarriesNoMore, Opens, Drives
    <2>2. /\ row \in Run /\ cache \in [Processes -> Run] /\ ProcOf[s] \in Processes
          /\ row' = [row EXCEPT !.status = "failed"]
          /\ cache' = IF cache[ProcOf[s]] = NoRun THEN cache
                      ELSE [cache EXCEPT ![ProcOf[s]].status = "failed"]
      BY <1>0, <1>3, HookedFacts DEF MarkFailed, IInv, RunsOK
    <2>3. row'.token = row.token /\ row'.at = row.at
      BY <2>2 DEF Run
    <2>4. \A p \in Processes : cache'[p].token = cache[p].token /\ cache'[p].at = cache[p].at
      BY <2>2 DEF Run
    <2>5. \A n : Ahead(n)' => Ahead(n)
      BY <2>3, <2>4 DEF Ahead, Bearing, Waking, PutsBack
    <2> QED
      BY <2>1, <2>5, DueStays DEF Ends
  <1> QED
    BY <1>2, <1>3

\* A slot that neither drives the run nor creates it.
LEMMA OpeningPasses ==
    ASSUME KQInv, NEW s \in Slots, Opening(s), ~CreateRun(s), UNCHANGED call
    PROVE  /\ Passes(s) /\ \A n : Ahead(n)' => Ahead(n)
           /\ ~Carries(s) => Unwritten
  <1>0. /\ IInv /\ LegsHooked /\ StartJob \in JobId /\ NoJob \notin JobId
        /\ leg[s].job \in JobId \union {NoJob}
        /\ leg[s].job \in JobId => jobs[leg[s].job].state = "active"
        /\ Opens(s) \/ Drives(s) => leg[s].job \in JobId
    BY HeldFacts, JobFacts
  <1>1. Others(s) => \A t \in Slots \ {s} : Carries(t)' => Carries(t)
    BY DEF Others, Carries, Opens, Drives
  <1>2. CASE EnqueueStart(s)
    <2>1. /\ Carries(s) /\ ~Carries(s)' /\ CarriesNoMore /\ Unwritten
      BY <1>0, <1>1, <1>2, EnqueueStartEffect, IdleFacts DEF Carries, CarriesNoMore, Opens, Drives
    <2>2. \A n : Ahead(n)' => Ahead(n)
      BY <2>1, AheadStays
    <2>3. \A j \in JobId \ {StartJob} : jobs'[j] = jobs[j]
      BY <1>0, <1>2, EnqueueStartEffect DEF Add, IInv, JobsOK
    <2>4. \A j \in JobId \ {StartJob} : Due(j)' => Due(j)
      BY <2>2, <2>3 DEF Due
    <2> QED
      BY <1>0, <2>1, <2>2, <2>4 DEF Passes
  <1>3. CASE \E j \in JobId : Deliver(s, j)
    <2>1. PICK j \in JobId : Deliver(s, j)
      BY <1>3
    <2>2. /\ jobs[j].state = "ready" /\ jobs'[j].state = "active" /\ Unwritten
          /\ \A k \in JobId \ {j} : jobs'[k] = jobs[k]
          /\ \A t \in Slots \ {s} : Carries(t)' => Carries(t)
      BY <1>0, <1>1, <2>1, DeliverEffect DEF KQInv, QInv, QuietInv, JobsPosted
    <2>3. \A n : Ahead(n)' => Ahead(n)
      BY <2>2, AheadStays
    <2>4. DueNoMore /\ Due(j) /\ ~Due(j)'
      BY <2>2, <2>3 DEF DueNoMore, Due
    <2> QED
      BY <2>2, <2>3, <2>4 DEF Passes
  <1>4. CASE SkipRun(s) \/ LoadRun(s) \/ StartFails(s)
    <2>1. CarriesNoMore /\ Unwritten /\ jobs' = jobs
      BY <1>0, <1>1, <1>4, SkipRunEffect, LoadRunEffect, StartFailsEffect
      DEF Carries, CarriesNoMore, Opens
    <2> QED
      BY <2>1, AheadStays, DueStays DEF Passes
  <1>5. CASE JobFails(s)
    <2>1. /\ Carries(s) /\ leg[s].job \in JobId /\ Opens(s)
      BY <1>0, <1>5 DEF JobFails, At, Carries, Opens
    <2>2. /\ Unwritten /\ CarriesNoMore
          /\ \A k \in JobId \ {leg[s].job} : jobs'[k] = jobs[k]
          /\ \/ ~Carries(s)'
             \/ jobs'[leg[s].job].state = "dropped"
      BY <1>0, <1>1, <1>5, <2>1, JobFailsEffect, IdleFacts DEF Carries, CarriesNoMore, Opens, Drives
    <2>3. \A n : Ahead(n)' => Ahead(n)
      BY <2>2, AheadStays
    <2>4. \A j \in JobId \ {leg[s].job} : Due(j)' => Due(j)
      BY <2>2, <2>3 DEF Due
    <2>5. jobs'[leg[s].job].state = "dropped" => DueNoMore
      BY <2>4 DEF Due, DueNoMore
    <2> QED
      BY <2>1, <2>2, <2>3, <2>4, <2>5 DEF Passes
  <1>6. CASE EnqueueStartFails(s) \/ MarkFailed(s)
    BY <1>6, FailureEnds DEF Passes, Ends
  <1>7. CASE StartRun(s)
    <2>1. /\ Carries(s) /\ CarriesNoMore /\ jobs' = jobs /\ Written(s)
      BY <1>0, <1>1, <1>7, StartRunEffect DEF Carries, CarriesNoMore, Opens
    <2>2. row' = [Copy(s) EXCEPT !.status = "running"]
      BY <1>0, <1>7, Writes DEF StartRun
    <2>3. TokenKept(s)
      BY <2>2, HookedFacts DEF TokenKept, Run
    <2> QED
      BY <2>1, <2>3, AheadStays, DueStays DEF Passes
  <1>8. CASE Return(s)
    <2>1. /\ Unwritten /\ CarriesNoMore
          /\ \A k \in JobId : jobs'[k] = jobs[k] \/ jobs'[k].state = "kept"
      BY <1>0, <1>1, <1>8, ReturnEffect, IdleFacts DEF Carries, CarriesNoMore, Opens, Drives
    <2>2. \A n : Ahead(n)' => Ahead(n)
      BY <2>1, AheadStays
    <2>3. DueNoMore
      BY <2>1, <2>2 DEF DueNoMore, Due
    <2> QED
      BY <2>1, <2>2, <2>3 DEF Passes
  <1> QED
    BY <1>2, <1>3, <1>4, <1>5, <1>6, <1>7, <1>8 DEF Opening

\* A leg that leaves the run at a wait mints the token of that wait only.
LEMMA PausesAhead ==
    ASSUME KQInv, NEW s \in Slots, DrivesOn(s), ~Drives(s)', leg[s].pc = "hook", UNCHANGED call,
           NEW n, Ahead(n)', n # leg[s].at + 1
    PROVE  Ahead(n)
  <1>1. /\ Written(s)
        /\ row'.token # 0 => row'.at = leg[s].at + 1
        /\ ProcOf[s] \in Processes
    BY HookedFacts DEF DrivesOn
  <1>2. ~Bearing(row, n)' /\ ~Bearing(cache[ProcOf[s]], n)'
    BY <1>1 DEF Bearing, Written
  <1> QED
    BY <1>1, <1>2 DEF Ahead, Written, Bearing, Waking, PutsBack

\* A slot that drives the run goes on, ends it, or pauses it.
LEMMA DrivingPasses ==
    ASSUME KQInv, NEW s \in Slots, DrivesOn(s), UNCHANGED call
    PROVE  /\ Passes(s) /\ Carries(s)
           /\ Drives(s)' \/ Ends(s) \/ (row'.status = "queued" /\ leg[s].pc = "hook")
  <1>0. /\ Drives(s) /\ Carries(s) /\ Others(s) /\ jobs' = jobs /\ CarriesNoMore
        /\ ProcOf[s] \in Processes /\ (leg[s].pc = "hook" => leg[s].at \in Steps)
    BY HookedFacts, TemplateFacts
    DEF DrivesOn, Others, Carries, CarriesNoMore, Opens, Drives, Placed, OnStep
  <1>1. CASE Drives(s)'
    <2>1. \A n : Ahead(n)' => Ahead(n)
      BY <1>1, AheadStays DEF DrivesOn, Drives
    <2> QED
      BY <1>0, <1>1, <2>1, DueStays DEF Passes
  <1>2. CASE leg'[s].pc = "return" /\ Written(s) /\ row'.token = 0
    <2>1. \A n : Ahead(n)' => Ahead(n)
      BY <1>2, AheadStays DEF TokenKept
    <2> QED
      BY <1>0, <1>2, <2>1, DueStays DEF Passes, Ends, Carries, Opens, Drives
  <1>3. CASE /\ leg'[s].pc = "return" /\ Written(s) /\ row'.status = "queued"
             /\ row'.token # 0 /\ leg[s].pc = "hook" /\ row'.at = leg[s].at + 1
    <2> DEFINE k == HookJob(leg[s].at + 1)
    <2>1. k \in JobId /\ k.n = leg[s].at + 1 /\ k.kind = "hook"
      BY <1>0, <1>3, TemplateFacts DEF HookJob, JobId
    <2>2. ASSUME NEW n, Ahead(n)', n # leg[s].at + 1
          PROVE  Ahead(n)
      BY <1>3, <2>2, PausesAhead DEF Drives
    <2>3. \A j \in JobId \ {k} : j.kind = "hook" => j.n # leg[s].at + 1
      BY <2>1 DEF JobId, HookJob
    <2>4. \A j \in JobId \ {k} : Due(j)' => Due(j)
      BY <1>0, <2>2, <2>3 DEF Due
    <2>5. ~Carries(s)' /\ ~Drives(s)'
      BY <1>3 DEF Carries, Opens, Drives
    <2> QED
      BY <1>0, <1>3, <2>1, <2>4, <2>5 DEF Passes
  <1> QED
    BY <1>1, <1>2, <1>3 DEF DrivesOn

\* Only its start lets a leg drive the run.
LEMMA StartsDriving ==
    ASSUME KQInv, NEW s \in Slots, Opening(s)
    PROVE  /\ Drives(s)' => StartRun(s)
           /\ leg'[s].pc = "start" => LoadRun(s)
           /\ leg'[s].pc = "enqueue_start" => CreateRun(s)
  <1>1. CASE CreateRun(s)
    BY <1>1, HeldFacts, CreateRunEffect DEF Drives
  <1>2. CASE EnqueueStart(s) \/ EnqueueStartFails(s) \/ MarkFailed(s) \/ Return(s)
    BY <1>2, HeldFacts, IdleFacts, EnqueueStartEffect, EnqueueStartFailsEffect, MarkFailedEffect,
       ReturnEffect DEF Drives
  <1>3. CASE \E j \in JobId : Deliver(s, j)
    BY <1>3, HeldFacts, DeliverEffect DEF Drives
  <1>4. CASE SkipRun(s) \/ LoadRun(s) \/ StartFails(s) \/ StartRun(s)
    BY <1>4, HeldFacts, SkipRunEffect, LoadRunEffect, StartFailsEffect, StartRunEffect DEF Drives
  <1>5. CASE JobFails(s)
    <2>1. leg[s].job \in JobId
      BY <1>5, HeldFacts DEF JobFails, At, Opens
    <2> QED
      BY <1>5, <2>1, HeldFacts, IdleFacts, JobFailsEffect DEF Drives
  <1> QED
    BY <1>1, <1>2, <1>3, <1>4, <1>5 DEF Opening

\* Every step of a slot.
LEMMA SlotSole ==
    ASSUME KQInv, SoleInv, NEW s \in Slots, Works(s), UNCHANGED call
    PROVE  SoleInv'
  <1>0. /\ OneCarrier /\ FailedIsOver /\ DrivenIsRunning /\ IInv
        /\ ProcOf[s] \in Processes
    BY HookedFacts DEF SoleInv
  <1>1. CASE CreateRun(s)
    BY <1>0, <1>1, CreatePasses, OneCarrierStays DEF SoleInv, FailedIsOver, DrivenIsRunning
  <1>2. CASE Opening(s) /\ ~CreateRun(s)
    <2>1. /\ Passes(s) /\ (~Carries(s) => Unwritten) /\ OneCarrier' /\ Others(s) /\ ~Drives(s)
      BY <1>0, <1>2, OpeningPasses, OneCarrierStays, OpeningFrame
    <2>2. FailedIsOver'
      <3> SUFFICES ASSUME (NoRetry' /\ FailureSeen') \/ \E c \in Calls : Retrying(c)'
                   PROVE  Uncarried'
        BY DEF FailedIsOver
      <3>1. CASE Uncarried
        BY <2>1, <3>1, UncarriedStays
      <3>2. CASE ~Uncarried
        <4>1. row.status # "failed" /\ row'.status = "failed"
          BY <1>0, <3>2 DEF FailedIsOver, FailureSeen, NoRetry, Retrying
        <4>2. EnqueueStartFails(s) \/ MarkFailed(s)
          BY <1>2, <4>1, OpeningWrites DEF Unwritten
        <4>3. Ends(s)
          BY <4>2, FailureEnds
        <4> QED
          BY <1>0, <4>3 DEF Ends, CarriesNoMore, DueNoMore, OneCarrier, Uncarried
      <3> QED
        BY <3>1, <3>2
    <2>3. DrivenIsRunning'
      <3> SUFFICES ASSUME NEW t \in Slots, Drives(t)'
                   PROVE  cache'[ProcOf[t]].status = "running"
        BY DEF DrivenIsRunning
      <3>1. CASE t = s
        <4>1. StartRun(s)
          BY <1>2, <3>1, StartsDriving
        <4> QED
          BY <1>0, <3>1, <4>1, StartRunEffect DEF Written
      <3>2. CASE t # s
        <4>1. Drives(t) /\ Carries(t)
          BY <2>1, <3>2 DEF Others, Drives, Carries
        <4>2. Unwritten
          BY <1>0, <2>1, <3>2, <4>1 DEF OneCarrier
        <4> QED
          BY <1>0, <4>1, <4>2 DEF Unwritten, DrivenIsRunning
      <3> QED
        BY <3>1, <3>2
    <2> QED
      BY <2>1, <2>2, <2>3 DEF SoleInv
  <1>3. CASE DrivesOn(s)
    <2>1. /\ Passes(s) /\ Carries(s) /\ OneCarrier' /\ Others(s)
          /\ Copy(s).status = "running" /\ cache[ProcOf[s]].status = "running"
      <3>1. cache[ProcOf[s]].status = "running" /\ NoRun.status = "none"
        BY <1>0, <1>3 DEF DrivesOn, DrivenIsRunning, NoRun
      <3> QED
        BY <1>0, <1>3, <3>1, DrivingPasses, OneCarrierStays DEF DrivesOn, Copy, Current
    <2>2. FailedIsOver'
      <3> SUFFICES ASSUME (NoRetry' /\ FailureSeen') \/ \E c \in Calls : Retrying(c)'
                   PROVE  Uncarried'
        BY DEF FailedIsOver
      <3>1. ~Uncarried
        BY <2>1 DEF Uncarried
      <3>2. row.status # "failed" /\ row'.status = "failed"
        BY <1>0, <3>1 DEF FailedIsOver, FailureSeen, NoRetry, Retrying
      <3>3. Ends(s)
        <4>1. ~Drives(s)'
          BY <1>3, <2>1, <3>2 DEF DrivesOn, Unwritten, Drives
        <4> QED
          BY <1>3, <3>2, <4>1, DrivingPasses
      <3> QED
        BY <1>0, <3>3 DEF Ends, CarriesNoMore, DueNoMore, OneCarrier, Uncarried
    <2>3. DrivenIsRunning'
      <3> SUFFICES ASSUME NEW t \in Slots, Drives(t)'
                   PROVE  cache'[ProcOf[t]].status = "running"
        BY DEF DrivenIsRunning
      <3>1. t = s
        <4> SUFFICES ASSUME t # s PROVE FALSE
          OBVIOUS
        <4>1. Carries(t)
          BY <2>1 DEF Others, Drives, Carries
        <4> QED
          BY <1>0, <2>1, <4>1 DEF OneCarrier
      <3> QED
        BY <1>3, <2>1, <3>1 DEF DrivesOn, Unwritten, Written, Drives
    <2> QED
      BY <2>1, <2>2, <2>3 DEF SoleInv
  <1> QED
    BY <1>1, <1>2, <1>3, HookedSteps

----------------------------------------------------------------------------
(* The steps of calls, and crashes                                         *)

\* A step that hands nothing on.
LEMMA SoleStays ==
    ASSUME SoleInv, CarriesNoMore, DueNoMore, DrivenIsRunning',
           (NoRetry' /\ FailureSeen') \/ (\E c \in Calls : Retrying(c)') =>
               (NoRetry /\ FailureSeen) \/ (\E c \in Calls : Retrying(c))
    PROVE  SoleInv'
  <1>1. OneCarrier'
    BY DEF SoleInv, OneCarrier, CarriesNoMore, DueNoMore
  <1>2. Uncarried => Uncarried'
    BY DEF CarriesNoMore, DueNoMore, Uncarried
  <1>3. FailedIsOver'
    BY <1>2 DEF SoleInv, FailedIsOver
  <1> QED
    BY <1>1, <1>3 DEF SoleInv

LEMMA CrashDue ==
    ASSUME KQInv, NEW p \in Processes, ControlCrash(p)
    PROVE  DueNoMore
  <1>0. cache \in [Processes -> Run] /\ NoRun.token = 0
    BY DEF KQInv, KInv, CInv, IInv, RunsOK, NoRun
  <1>1. \A n : Ahead(n)' => Ahead(n)
    <2> SUFFICES ASSUME NEW n, Ahead(n)' PROVE Ahead(n)
      OBVIOUS
    <2>1. Bearing(row, n)' => Bearing(row, n)
      BY CrashQuietly DEF Bearing
    <2>2. \A q \in Processes : Bearing(cache[q], n)' => Bearing(cache[q], n)
      BY <1>0, CrashQuietly DEF Bearing
    <2>3. \A c \in Calls :
              Waking(c, n)' \/ PutsBack(c, n)' => Waking(c, n) \/ PutsBack(c, n)
      BY CrashQuietly DEF Waking, PutsBack, Bearing
    <2> QED
      BY <2>1, <2>2, <2>3 DEF Ahead
  <1> QED
    BY <1>1, DueStays, CrashQuietly

\* A crash takes calls and deciders along, but no leg of a worker.
LEMMA CrashSole ==
    ASSUME KQInv, SoleInv, NEW p \in Processes, ControlCrash(p)
    PROVE  SoleInv'
  <1>0. LegsHooked /\ DrivenIsRunning /\ cache \in [Processes -> Run]
    BY DEF KQInv, KInv, CInv, IInv, RunsOK, QInv, QuietInv, SoleInv
  <1>1. DueNoMore
    BY CrashDue
  <1>2. CarriesNoMore
    BY CrashQuietly, IdleFacts DEF CarriesNoMore, Carries, Opens, Drives
  <1>3. DrivenIsRunning'
    <2> SUFFICES ASSUME NEW s \in Slots, Drives(s)' PROVE cache'[ProcOf[s]].status = "running"
      BY DEF DrivenIsRunning
    <2>1. Drives(s) /\ ProcOf[s] \in Workers
      BY <1>0, CrashQuietly, IdleFacts DEF Drives, LegsHooked
    <2> QED
      BY <1>0, <2>1, CrashQuietly, ProcessFacts DEF DrivenIsRunning
  <1>4. /\ NoRetry' => NoRetry
        /\ \A c \in Calls : Retrying(c)' => Retrying(c)
        /\ FailureSeen' => FailureSeen
    BY CrashQuietly DEF NoRetry, Retrying, FailureSeen
  <1> QED
    BY <1>1, <1>2, <1>3, <1>4, SoleStays

\* The job a post adds was due.
LEMMA CallDue ==
    ASSUME KQInv, NEW c \in Calls, Cancel(c) \/ Retry(c) \/ Post(c) \/ Finds(c)
    PROVE  /\ \A n : Ahead(n)' => Ahead(n)
           /\ DueNoMore \/ (Retrying(c) /\ call'[c].pc = "find" /\ Add(StartJob))
  <1>0. /\ CallsPlaced /\ jobs \in [JobId -> JobState] /\ CallProc[c] \in Processes
        /\ \A d \in Calls \ {c} : call'[d] = call[d]
        /\ \/ CallReads(c)
           \/ /\ CallWorks(c) \/ CallFinds(c) \/ CallWritesRun(c)
              /\ call'[c].kind = call[c].kind /\ call'[c].at = call[c].at
    BY CallDoes, CallFacts DEF KQInv, KInv, CInv, IInv, JobsOK, QInv, QuietInv
  <1>1. \A n : Ahead(n)' => Ahead(n)
    <2> SUFFICES ASSUME NEW n, Ahead(n)' PROVE Ahead(n)
      OBVIOUS
    <2>1. \A p \in Processes : cache'[p] = cache[p] \/ (cache'[p] = row' /\ CallWritesRun(c))
      BY <1>0 DEF CallReads, CallWorks, CallFinds, CallWritesRun, WrittenIn
    <2>2. Bearing(row, n)' => Bearing(row, n) \/ PutsBack(c, n)
      BY <1>0 DEF PutsBack, CallReads, CallWorks, CallFinds, CallWritesRun, Bearing
    <2>3. \A p \in Processes :
              Bearing(cache[p], n)' => Bearing(cache[p], n) \/ Bearing(row, n) \/ PutsBack(c, n)
      BY <2>1, <2>2 DEF Bearing
    <2>4. Waking(c, n)' => Waking(c, n) \/ Bearing(row, n)
      BY <1>0 DEF Waking, CallReads, CallWorks, CallFinds, CallWritesRun, Bearing, CallsPlaced
    <2>5. PutsBack(c, n)' => Bearing(row, n)
      BY <1>0 DEF PutsBack, CallReads, CallWorks, CallFinds, CallWritesRun, Bearing
    <2>6. \A d \in Calls \ {c} : (Waking(d, n) \/ PutsBack(d, n))' => Waking(d, n) \/ PutsBack(d, n)
      BY <1>0 DEF Waking, PutsBack
    <2> QED
      BY <2>2, <2>3, <2>4, <2>5, <2>6 DEF Ahead
  <1>2. DueNoMore \/ (Retrying(c) /\ call'[c].pc = "find" /\ Add(StartJob))
    <2>1. CASE jobs' = jobs
      BY <1>1, <2>1, DueStays
    <2>2. CASE RemoveJob
      <3>1. \A j \in JobId : jobs'[j] = jobs[j] \/ (j = StartJob /\ jobs'[j].state = "absent")
        BY <1>0, <2>2 DEF RemoveJob
      <3> QED
        BY <1>1, <3>1 DEF DueNoMore, Due, StartJob
    <2>3. CASE CallWorks(c) /\ call[c].pc = "wake" /\ Add(HookJob(call[c].at))
      <3> DEFINE k == HookJob(call[c].at)
      <3>1. \A j \in JobId : jobs'[j] = jobs[j] \/ (j = k /\ jobs[j].state = "absent")
        BY <1>0, <2>3 DEF Add
      <3>2. k.kind = "hook" /\ Ahead(k.n)
        BY <1>0, <2>3 DEF HookJob, Ahead, Waking, CallsPlaced
      <3> QED
        BY <1>1, <3>1, <3>2 DEF DueNoMore, Due
    <2>4. CASE CallWorks(c) /\ call[c].pc = "add" /\ call'[c].pc = "find" /\ Add(StartJob)
      BY <1>0, <2>4 DEF Retrying, CallsPlaced
    <2> QED
      BY <1>0, <2>1, <2>2, <2>3, <2>4 DEF CallReads, CallWorks, CallFinds, CallWritesRun
  <1> QED
    BY <1>1, <1>2

\* Every step of a call.
LEMMA CallSole ==
    ASSUME KQInv, SoleInv, RetriedOnce', NEW c \in Calls,
           Cancel(c) \/ Retry(c) \/ Post(c) \/ Finds(c)
    PROVE  SoleInv'
  <1>0. /\ OneCarrier /\ FailedIsOver /\ DrivenIsRunning /\ CallsPlaced /\ LegsHooked
        /\ ServedApart /\ jobs \in [JobId -> JobState] /\ StartJob \in JobId
        /\ \A s \in Slots : ProcOf[s] \in Processes
        /\ UNCHANGED leg
        /\ \A d \in Calls \ {c} : call'[d] = call[d]
        /\ \/ CallReads(c)
           \/ /\ CallWorks(c) \/ CallFinds(c) \/ CallWritesRun(c)
              /\ call'[c].kind = call[c].kind /\ call'[c].at = call[c].at
    BY CallDoes, HookedFacts, JobFacts
    DEF KQInv, KInv, CInv, IInv, JobsOK, QInv, QuietInv, SoleInv
  <1>1. CarriesNoMore /\ \A s \in Slots : Drives(s)' => Drives(s)
    BY <1>0 DEF CarriesNoMore, Carries, Opens, Drives
  <1>2. DrivenIsRunning'
    BY <1>0, <1>1
    DEF DrivenIsRunning, ServedApart, CallReads, CallWorks, CallFinds, CallWritesRun, WrittenIn
  <1>3. CASE DueNoMore
    <2>1. NoRetry' => NoRetry
      BY <1>0 DEF NoRetry, CallReads, CallsPlaced
    <2>2. FailureSeen' => FailureSeen
      BY <1>0 DEF FailureSeen, CallReads, CallWorks, CallFinds, CallWritesRun
    <2>3. \A d \in Calls \ {c} : Retrying(d)' => Retrying(d)
      BY <1>0 DEF Retrying
    <2>4. Retrying(c)' => Retrying(c) \/ (NoRetry /\ FailureSeen)
      <3>1. CASE CallReads(c)
        <4>1. Retrying(c)' => row.status = "failed" /\ call'[c].kind = "retry"
          BY <3>1 DEF CallReads, Retrying
        <4>2. call'[c].kind = "retry" => NoRetry
          BY <1>0, <3>1 DEF NoRetry, RetriedOnce, CallReads, CallsPlaced
        <4> QED
          BY <4>1, <4>2 DEF FailureSeen
      <3>2. CASE CallWorks(c) \/ CallFinds(c) \/ CallWritesRun(c)
        BY <1>0, <3>2 DEF CallWorks, CallFinds, CallWritesRun, Retrying, CallsPlaced
      <3> QED
        BY <1>0, <3>1, <3>2
    <2> QED
      BY <1>1, <1>2, <1>3, <2>1, <2>2, <2>3, <2>4, SoleStays
  <1>4. CASE Retrying(c) /\ call'[c].pc = "find" /\ Add(StartJob)
    <2>1. Uncarried
      BY <1>0, <1>4 DEF FailedIsOver
    <2>2. \A s \in Slots : ~Carries(s)'
      BY <1>1, <2>1 DEF CarriesNoMore, Uncarried
    <2>3. \A j \in JobId \ {StartJob} : ~Due(j)'
      <3>1. \A j \in JobId \ {StartJob} : jobs'[j] = jobs[j]
        BY <1>0, <1>4 DEF Add
      <3> QED
        BY <2>1, <3>1, CallDue DEF Uncarried, Due
    <2>4. OneCarrier'
      BY <2>2, <2>3 DEF OneCarrier
    <2>5. FailedIsOver'
      <3>1. call'[c].kind = "retry" /\ ~Retrying(c)'
        BY <1>0, <1>4 DEF Retrying, CallReads
      <3>2. \A d \in Calls \ {c} : call'[d].kind # "retry"
        BY <3>1 DEF RetriedOnce
      <3> QED
        BY <3>1, <3>2 DEF FailedIsOver, NoRetry, Retrying
    <2> QED
      BY <1>2, <2>4, <2>5 DEF SoleInv
  <1> QED
    BY <1>3, <1>4, CallDue

----------------------------------------------------------------------------
(* One leg at a time                                                       *)

\* A call that has read its run stays what it is.
LEMMA RetriesStay ==
    ASSUME KQInv, [ControlNext]_controlVars, NEW c \in Calls, call[c].kind # "none"
    PROVE  call'[c].kind = call[c].kind
  <1>1. CASE UNCHANGED call
    BY <1>1
  <1>2. ASSUME NEW p \in Processes, ControlCrash(p)
        PROVE  call'[c].kind = call[c].kind
    BY <1>2, CrashQuietly
  <1>3. ASSUME NEW d \in Calls, Cancel(d) \/ Retry(d) \/ Post(d) \/ Finds(d)
        PROVE  call'[c].kind = call[c].kind
    BY <1>3, CallDoes DEF CallReads, KQInv, QInv, QuietInv, CallsPlaced
  <1> QED
    BY <1>1, <1>2, <1>3 DEF ControlNext, controlVars

LEMMA StaysSole ==
    ASSUME SoleInv, UNCHANGED <<row, cache, jobs, leg, call>>
    PROVE  SoleInv'
  BY DEF SoleInv, OneCarrier, FailedIsOver, DrivenIsRunning, Uncarried, Carries, Opens, Drives,
         Due, Ahead, Bearing, Waking, PutsBack, Retrying, NoRetry, FailureSeen

\* Every step.
LEMMA NextDInv ==
    ASSUME KQInv, DInv, [ControlNext]_controlVars
    PROVE  DInv'
  <1> SUFFICES ASSUME RetriedOnce' PROVE SoleInv'
    BY DEF DInv
  <1>0. SoleInv
    <2>1. \A c \in Calls : call[c].kind = "retry" => call'[c].kind = "retry"
      BY RetriesStay
    <2> QED
      BY <2>1 DEF DInv, RetriedOnce
  <1>1. ASSUME NEW s \in Slots, Works(s), UNCHANGED call
        PROVE  SoleInv'
    BY <1>0, <1>1, SlotSole
  <1>2. CASE /\ UNCHANGED call
             /\ \/ \E j \in JobId : DropStalled(j)
                \/ Approve
                \/ \E w \in Workers : Reaper(w)
    BY <1>0, <1>2, OthersQuiet, StaysSole
  <1>3. ASSUME NEW p \in Processes, ControlCrash(p)
        PROVE  SoleInv'
    BY <1>0, <1>3, CrashSole
  <1>4. ASSUME NEW c \in Calls, Cancel(c) \/ Retry(c) \/ Post(c) \/ Finds(c)
        PROVE  SoleInv'
    BY <1>0, <1>4, CallSole
  <1>5. CASE UNCHANGED controlVars
    BY <1>0, <1>5, StaysSole DEF controlVars, vars
  <1> QED
    BY <1>1, <1>2, <1>3, <1>4, <1>5 DEF ControlNext, Work, Works

LEMMA InitDInv == ControlInit => DInv
  <1> SUFFICES ASSUME ControlInit PROVE SoleInv
    BY DEF DInv
  <1>1. /\ NoRun.status = "none" /\ NoRun.token = 0 /\ NewCall.pc = "new"
        /\ NewCall.kind = "none"
    BY DEF NoRun, NewCall
  <1> QED
    BY <1>1, IdleFacts, ProcessFacts, JobFacts
    DEF ControlInit, Init, SoleInv, OneCarrier, FailedIsOver, DrivenIsRunning, Uncarried, Carries,
        Opens, Drives, Due, Ahead, Bearing, Waking, PutsBack, Retrying, NoRetry, FailureSeen

\* Nobody wakes a run that nobody posts to: its first job is the only one.
LEMMA UnpostedFirst ==
    ASSUME KQInv, Unposted, NEW s \in Slots, Opens(s) \/ Drives(s)
    PROVE  leg[s].job = StartJob
  <1>1. leg[s].job \in JobId /\ jobs[leg[s].job].state = "active"
    BY HeldFacts
  <1>2. leg[s].job.kind \notin {"wait", "resume", "hook"}
    BY <1>1 DEF KQInv, QInv, QuietInv, JobsPosted, Posted, Unposted
  <1> QED
    BY <1>1, <1>2 DEF JobId, StartJob

LEMMA DrivenBySole == (PostsInTime => KQInv /\ DInv) => SoleDriver
  <1> SUFFICES ASSUME KQInv, DInv, RetriedOnce \/ Unposted,
                      NEW s \in Slots, NEW t \in Slots, Driving(s), Driving(t)
               PROVE  s = t
    BY DEF SoleDriver, SoleExecutor
  <1>1. (Opens(s) \/ Drives(s)) /\ (Opens(t) \/ Drives(t))
    BY DEF Driving, KQInv, QInv, QuietInv, LegsHooked
  <1>2. CASE RetriedOnce
    BY <1>1, <1>2 DEF DInv, SoleInv, OneCarrier, Carries
  <1>3. CASE Unposted
    BY <1>1, <1>3, UnpostedFirst, HeldFacts, JobFacts
  <1> QED
    BY <1>2, <1>3

\* Under any number of calls, of which one at most retries, the run is in one place, until a
\* post comes too late: with one leg, or with one job that is there or that a post may still
\* add.
THEOREM DInvariance ==
    ControlSpec /\ ServedApart /\ CallsApart /\ Hooked => [](PostsInTime => KQInv /\ DInv)
  <1>1. ControlInit => DInv
    BY InitDInv
  <1>2. KInv /\ (PostsInTime => KQInv) /\ (PostsInTime => DInv) /\ [ControlNext]_controlVars =>
            (PostsInTime => DInv)'
    BY PostsStay, NextDInv
  <1> QED
    BY <1>1, <1>2, KInvariance, QInvariance, PTL DEF ControlSpec

\* However a retry, any posts in time and any deliveries fall, or any retries without a
\* post, and whatever API processes die, one leg at most drives the run.
THEOREM SoleDriverAlways ==
    ControlSpec /\ ServedApart /\ CallsApart /\ Hooked => []SoleDriver
  BY DInvariance, DrivenBySole, PTL

----------------------------------------------------------------------------
(* What the processes remember                                             *)

\* The template waits for one webhook at most.
OneHook == \A i, k \in Steps : Template[i] = "hook" /\ Template[k] = "hook" => i = k

\* Every recorded step may be reused from the results.
Remembers(results) == recorded \subseteq Reusable(results)

\* The first job may yet be loaded.
ToStart ==
    \/ jobs[StartJob].state = "ready"
    \/ \E s \in Slots : leg[s].pc = "enqueue_start" \/ (Opens(s) /\ leg[s].job = StartJob)

\* The job of a wait may yet be loaded.
ToGoOn ==
    \/ \E j \in JobId : j.kind = "hook" /\ Due(j)
    \/ \E s \in Slots : Opens(s) /\ leg[s].job.kind = "hook"

\* A worker knows the run as queued because it has paused it.
CopiesQueued ==
    /\ \A w \in Workers : cache[w].status = "queued" => cache[w].token # 0
    /\ \A s \in Slots : leg[s].pc = "start" =>
           cache[ProcOf[s]] = NoRun \/ cache[ProcOf[s]].status = "queued"

\* Whoever starts a queued run finds in the row what is recorded, and a leg that has the run
\* has it among its results or those of the run before.
Kept ==
    /\ Unread => recorded = {}
    /\ ToStart =>
          /\ row.status = "queued" => Remembers(row.results)
          /\ \A w \in Workers : cache[w].status # "queued"
    /\ \A s \in Slots :
          HasRun(s) => recorded \subseteq leg[s].prior \union Reusable(leg[s].results)

Retries(c) == call[c].kind = "retry" /\ Under(c)

\* The leg works on the run, or is about to write it.
Engaged(s) == HasRun(s) \/ leg[s].pc \in {"throw", "mark", "enqueue_start"}

\* A retry marks a run queued that has failed with all that is recorded, whatever cancels
\* write into the row meanwhile: until then nobody starts the run.
RetryKnows ==
    (\E c \in Calls : Retries(c)) =>
        /\ row.status \in {"failed", "cancelling", "canceled"}
        /\ row.status = "failed" => Remembers(row.results)
        /\ \A w \in Workers : cache[w].status # "queued"
        /\ \A s \in Slots : ~Engaged(s)
        /\ \A c \in Calls :
              Retries(c) /\ call[c].pc = "write" => Remembers(call[c].found.results)

\* Whoever goes on with a paused run finds in the row, or in the copy of the worker that
\* paused it, what is recorded, and a post that found it paused puts that back.
PausedKnows ==
    ToGoOn =>
        /\ row.status = "queued" => Remembers(row.results)
        /\ \A w \in Workers : cache[w].status = "queued" => Remembers(cache[w].results)
        /\ \A c \in Calls :
              /\ call[c].kind = "post" /\ call[c].pc = "write"
              /\ call[c].found.status = "queued"
              => Remembers(call[c].found.results)

\* Until the run is retried, the results of a leg lose nothing, nor those of a run that
\* fails while nobody posts to it.
FirstRun ==
    /\ \A s \in Slots :
          /\ HasRun(s) => Remembers(leg[s].results)
          /\ Drives(s) /\ leg[s].job = StartJob =>
                /\ Remembers(cache[ProcOf[s]].results)
                /\ \A w \in Workers \ {ProcOf[s]} : cache[w] = NoRun
    /\ PausedKnows
    /\ Unposted =>
          /\ row.status = "failed" => Remembers(row.results)
          /\ \A s \in Slots : leg[s].pc = "mark" => recorded = {}

Known == CopiesQueued /\ Kept /\ RetryKnows /\ (NoRetry => FirstRun)
NInv == RetriedAlone => Known

\* A step that records nothing and changes no copy, no leg that has the run and no call that
\* is about to write it.
LEMMA NothingNew ==
    ASSUME Known, LegsHooked, UNCHANGED <<recorded, row>>,
           \A w \in Workers : cache'[w] = cache[w],
           \A s \in Slots : HasRun(s)' => leg'[s] = leg[s],
           \A s \in Slots : Engaged(s)' => Engaged(s),
           \A s \in Slots : leg'[s].pc = "mark" =>
               leg[s].pc = "mark" \/ (NoRetry /\ Unposted => recorded = {}),
           \A c \in Calls : call'[c].pc = "write" => call'[c] = call[c],
           \A c \in Calls : Retries(c)' => Retries(c),
           ToStart' => ToStart, ToGoOn' => ToGoOn, NoRetry' => NoRetry, Unposted' => Unposted
    PROVE  Known'
  <1>1. \A s \in Slots : HasRun(s)' => HasRun(s) /\ ProcOf[s] \in Workers
    BY DEF LegsHooked, HasRun, Drives
  <1>2. CopiesQueued'
    BY <1>1 DEF Known, CopiesQueued, HasRun
  <1>3. Kept'
    BY <1>1 DEF Known, Kept, Unread, Remembers, Reusable
  <1>4. RetryKnows'
    BY DEF Known, RetryKnows, Remembers, Reusable
  <1>5. NoRetry' => PausedKnows'
    BY DEF Known, FirstRun, PausedKnows, Remembers, Reusable
  <1>6. NoRetry' => FirstRun'
    BY <1>1, <1>5 DEF Known, FirstRun, Remembers, Reusable, HasRun, Drives
  <1> QED
    BY <1>2, <1>3, <1>4, <1>6 DEF Known

\* A leg that is at work on the run shows that no retry is under way.
LEMMA EngagedUnretried ==
    ASSUME Known, NEW s \in Slots, Engaged(s), UNCHANGED call
    PROVE  RetryKnows'
  BY DEF Known, RetryKnows, Retries, Under

\* While a leg has the run nothing else starts it or goes on with it.
LEMMA DrivenAlone ==
    ASSUME SoleInv', NEW s \in Slots, Drives(s)'
    PROVE  ~ToStart' /\ ~ToGoOn'
  <1>1. Carries(s)' /\ ~Opens(s)' /\ leg'[s].pc # "enqueue_start"
    BY DEF Carries, Drives, Opens
  <1>2. \A t \in Slots \ {s} : ~Carries(t)'
    BY <1>1 DEF SoleInv, OneCarrier
  <1>3. \A j \in JobId : ~Due(j)'
    BY <1>1 DEF SoleInv, OneCarrier
  <1>4. jobs'[StartJob].state # "ready"
    BY <1>3, JobFacts DEF Due
  <1> QED
    BY <1>1, <1>2, <1>3, <1>4 DEF ToStart, ToGoOn, Carries

LEMMA EndedAlone ==
    ASSUME SoleInv, NEW s \in Slots, Ends(s)
    PROVE  ~ToStart' /\ ~ToGoOn' /\ \A t \in Slots : ~HasRun(t)' /\ leg'[t].pc # "mark"
  <1>1. \A t \in Slots : ~Carries(t)'
    BY DEF SoleInv, OneCarrier, Ends, CarriesNoMore
  <1>2. \A j \in JobId : ~Due(j)'
    BY DEF SoleInv, OneCarrier, Ends, DueNoMore
  <1>3. jobs'[StartJob].state # "ready"
    BY <1>2, JobFacts DEF Due
  <1> QED
    BY <1>1, <1>2, <1>3 DEF ToStart, ToGoOn, Carries, HasRun, Opens

LEMMA AloneWithRun ==
    ASSUME SoleInv, NEW s \in Slots, Carries(s), Others(s)
    PROVE  \A t \in Slots \ {s} : ~HasRun(t) /\ ~HasRun(t)' /\ leg'[t].pc # "mark"
  BY DEF SoleInv, OneCarrier, Carries, Others, HasRun, Opens, Drives

LEMMA OpeningWorks == \A s \in Slots : Opening(s) => Works(s)
  BY DEF Opening, Works, Create, Execute

\* A slot that does not create the run makes nothing new to start or to go on with.
LEMMA OpeningToStart ==
    ASSUME KQInv, NEW s \in Slots, Opening(s), ~CreateRun(s), UNCHANGED call
    PROVE  (ToStart' => ToStart) /\ (ToGoOn' => ToGoOn)
  <1>0. /\ StartJob \in JobId /\ Others(s) /\ leg'[s].pc # "enqueue_start"
        /\ \A n : Ahead(n)' => Ahead(n)
    BY JobFacts, OpeningFrame, StartsDriving, OpeningPasses
  <1>1. \A j \in JobId :
            /\ jobs'[j].state = "ready" => \/ jobs[j].state = "ready" \/ Reads(s, j)
                                           \/ j = StartJob /\ leg[s].pc = "enqueue_start"
            /\ Reads(s, j)' => Reads(s, j) \/ jobs[j].state = "ready"
    BY JobsGoOn
  <1>2. \A j \in JobId : jobs'[j].state = "absent" => jobs[j].state = "absent"
    BY OpeningFrame
  <1>3. \A t \in Slots \ {s}, j \in JobId : Reads(t, j)' => Reads(t, j)
    BY <1>0 DEF Others, Reads, Opens
  <1>4. ToStart' => ToStart
    <2>1. CASE jobs'[StartJob].state = "ready"
      BY <1>0, <1>1, <2>1 DEF ToStart, Reads
    <2>2. CASE \E t \in Slots : Reads(t, StartJob)'
      BY <1>0, <1>1, <1>3, <2>2 DEF ToStart, Reads
    <2>3. CASE \E t \in Slots : leg'[t].pc = "enqueue_start"
      BY <1>0, <2>3 DEF ToStart, Others
    <2> QED
      BY <2>1, <2>2, <2>3 DEF ToStart, Reads
  <1>5. ToGoOn' => ToGoOn
    <2>1. ASSUME NEW j \in JobId, j.kind = "hook", Due(j)'
          PROVE  ToGoOn
      <3>1. j # StartJob
        BY <2>1 DEF StartJob
      <3> QED
        BY <1>0, <1>1, <1>2, <2>1, <3>1 DEF Due, ToGoOn, Reads
    <2>2. ASSUME NEW t \in Slots, Opens(t)', leg'[t].job.kind = "hook"
          PROVE  ToGoOn
      <3>1. leg'[t].job \in JobId
        BY <2>2, SlotLegs, OpeningWorks DEF LegsHooked
      <3> DEFINE j == leg'[t].job
      <3>2. Reads(t, j) \/ jobs[j].state = "ready"
        BY <1>1, <1>3, <2>2, <3>1 DEF Reads
      <3> QED
        BY <2>2, <3>1, <3>2 DEF ToGoOn, Reads, Due
    <2> QED
      BY <2>1, <2>2 DEF ToGoOn
  <1> QED
    BY <1>4, <1>5

\* A leg that opens has the first job, or one a post has added: nobody retries the run then.
LEMMA OpenedBy ==
    ASSUME KQInv, RetriedAlone, NEW s \in Slots, Opens(s) \/ Drives(s)
    PROVE  \/ leg[s].job = StartJob
           \/ /\ leg[s].job.kind = "hook" /\ leg[s].job.n > 1 /\ NoRetry
              /\ Behind(leg[s].job.n)
  <1>1. leg[s].job \in JobId /\ jobs[leg[s].job].state = "active"
    BY HeldFacts
  <1>2. leg[s].job.kind \notin {"wait", "resume"}
    BY <1>1 DEF KQInv, QInv, QuietInv, JobsPosted
  <1>3. CASE leg[s].job.kind = "hook"
    <2>1. PICK c \in Calls : call[c].kind = "post" /\ call[c].at = leg[s].job.n
      BY <1>1, <1>3 DEF KQInv, QInv, QuietInv, JobsPosted, Posted
    <2>2. NoRetry /\ Behind(leg[s].job.n)
      BY <2>1 DEF RetriedAlone, Unposted, NoRetry, KQInv, QInv, QuietInv, CallsPlaced
    <2>3. leg[s].job.n > 1
      BY <1>1, <1>3, TemplateFacts DEF JobId
    <2> QED
      BY <1>3, <2>2, <2>3
  <1>4. CASE leg[s].job.kind # "hook"
    BY <1>1, <1>2, <1>4 DEF JobId, StartJob
  <1> QED
    BY <1>3, <1>4

\* The first job of a run that is not retried finds nothing recorded.
LEMMA NothingRecordedYet ==
    ASSUME KQInv, Known, NoRetry, ToStart
    PROVE  Unread /\ recorded = {}
  BY DEF KQInv, QInv, FirstJobFirst, Known, Kept, ToStart

----------------------------------------------------------------------------
(* What the processes remember: the steps of a slot                        *)

\* A leg that goes on with a job, or leaves it, and neither reads nor writes the run.
Stays(s) ==
    \/ EnqueueStart(s) \/ (\E j \in JobId : Deliver(s, j)) \/ SkipRun(s) \/ StartFails(s)
    \/ JobFails(s) \/ Return(s)

LEMMA StayKnown ==
    ASSUME KQInv, Known, NEW s \in Slots, Stays(s), UNCHANGED call
    PROVE  Known'
  <1>0. IInv /\ LegsHooked /\ (leg[s].pc = "throw" => leg[s].job \in JobId)
    BY HeldFacts DEF LegsHooked, Opens
  <1>1. /\ leg'[s].pc \in {"idle", "load", "return", "throw", "mark"}
        /\ Others(s) /\ Unwritten /\ UNCHANGED elsewhere
    <2>1. CASE EnqueueStart(s) \/ Return(s)
      BY <1>0, <2>1, EnqueueStartEffect, ReturnEffect, IdleFacts
    <2>2. CASE \E j \in JobId : Deliver(s, j)
      BY <1>0, <2>2, DeliverEffect
    <2>3. CASE SkipRun(s) \/ StartFails(s)
      BY <1>0, <2>3, SkipRunEffect, StartFailsEffect
    <2>4. CASE JobFails(s)
      <3>1. leg[s].job \in JobId
        BY <1>0, <2>4 DEF JobFails, At
      <3> QED
        BY <1>0, <2>4, <3>1, JobFailsEffect, IdleFacts
    <2> QED
      BY <2>1, <2>2, <2>3, <2>4 DEF Stays
  <1>2. Opening(s) /\ ~CreateRun(s)
    BY <1>0, <1>1, CreateRunEffect DEF Opening, Stays
  <1>3. \A t \in Slots : HasRun(t)' => leg'[t] = leg[t]
    BY <1>1 DEF HasRun, Drives, Others
  <1>4. (NoRetry' => NoRetry) /\ (Unposted' => Unposted)
        /\ \A c \in Calls : Retries(c)' => Retries(c)
    BY DEF NoRetry, Unposted, Retries, Under
  <1>5. leg'[s].pc \in {"throw", "mark"} => leg[s].pc \in {"start", "throw"}
    <2>1. CASE EnqueueStart(s) \/ Return(s) \/ (\E j \in JobId : Deliver(s, j)) \/ SkipRun(s)
      BY <1>0, <2>1, EnqueueStartEffect, ReturnEffect, DeliverEffect, SkipRunEffect, IdleFacts
    <2>2. CASE StartFails(s) \/ JobFails(s)
      BY <2>2 DEF StartFails, JobFails, At
    <2> QED
      BY <2>1, <2>2 DEF Stays
  <1>6. \A t \in Slots : Engaged(t)' => Engaged(t)
    BY <1>1, <1>3, <1>5 DEF Engaged, HasRun, Drives, Others
  <1>7. \A t \in Slots : leg'[t].pc = "mark" =>
            leg[t].pc = "mark" \/ (NoRetry /\ Unposted => recorded = {})
    <2>1. leg'[s].pc = "mark" /\ NoRetry /\ Unposted => recorded = {}
      <3> SUFFICES ASSUME leg'[s].pc = "mark", NoRetry, Unposted PROVE recorded = {}
        OBVIOUS
      <3>1. Opens(s)
        BY <1>5 DEF Opens
      <3>2. ToStart
        BY <3>1, UnpostedFirst DEF ToStart
      <3> QED
        BY <3>2, NothingRecordedYet
    <2> QED
      BY <1>1, <2>1 DEF Others
  <1>8. UNCHANGED <<recorded, row>> /\ \A w \in Workers : cache'[w] = cache[w]
    BY <1>1 DEF Unwritten, elsewhere, history
  <1>9. (ToStart' => ToStart) /\ (ToGoOn' => ToGoOn)
    BY <1>2, OpeningToStart
  <1> QED
    BY <1>0, <1>3, <1>4, <1>6, <1>7, <1>8, <1>9, NothingNew

LEMMA CreateKnown ==
    ASSUME KQInv, Known, NEW s \in Slots, CreateRun(s), UNCHANGED call
    PROVE  Known'
  <1>1. /\ IInv /\ NoRun.status = "none" /\ Unread
        /\ \A t \in Slots : leg[t].pc = "idle"
        /\ \A c \in Calls : ~Under(c)
    BY ProcessFacts DEF KQInv, KInv, CInv, NothingYet, CreateRun, NoRun, Unread
  <1>2. recorded' = {} /\ (\A w \in Workers : cache'[w] = NoRun)
        /\ leg'[s].pc = "enqueue_start" /\ Others(s)
    BY <1>1, CreateRunEffect, ProcessFacts DEF Known, Kept, Unread, Written, elsewhere, history
  <1>3. \A t \in Slots : ~HasRun(t)' /\ leg'[t].pc # "start"
    BY <1>1, <1>2 DEF HasRun, Drives, Others
  <1>4. RetryKnows'
    BY <1>1 DEF RetryKnows, Retries, Under
  <1>5. FirstRun'
    BY <1>1, <1>2, <1>3 DEF FirstRun, PausedKnows, Remembers, HasRun
  <1> QED
    BY <1>1, <1>2, <1>3, <1>4, <1>5
    DEF Known, CopiesQueued, Kept, Remembers

LEMMA FailureKnown ==
    ASSUME KQInv, SoleInv, Known, NEW s \in Slots, EnqueueStartFails(s) \/ MarkFailed(s),
           UNCHANGED call
    PROVE  Known'
  <1>1. IInv /\ LegsHooked /\ Works(s) /\ KInv /\ NoRun.status = "none"
    BY HeldFacts DEF Works, Create, Execute, KQInv, NoRun
  <1>2. ~ToStart' /\ ~ToGoOn' /\ \A t \in Slots : ~HasRun(t)' /\ leg'[t].pc # "mark"
    BY FailureEnds, EndedAlone
  <1>3. recorded' = recorded /\ (Unread' => Unread)
    <2>1. UNCHANGED elsewhere
      BY <1>1, EnqueueStartFailsEffect, MarkFailedEffect
    <2> QED
      BY <1>1, <2>1, SlotTold DEF elsewhere, history
  <1>4. \A w \in Workers : cache'[w].status = "queued" => cache'[w] = cache[w]
    <2>1. CASE EnqueueStartFails(s)
      BY <1>1, <2>1, EnqueueStartFailsEffect, ProcessFacts DEF LegsHooked, Written
    <2>2. CASE MarkFailed(s)
      BY <1>1, <2>2, MarkFailedEffect, ProcessFacts
    <2> QED
      BY <2>1, <2>2
  <1>5. leg[s].pc \in {"enqueue_start", "mark"} /\ Engaged(s)
    BY DEF EnqueueStartFails, MarkFailed, At, Engaged
  <1>6. CopiesQueued'
    BY <1>2, <1>4 DEF Known, CopiesQueued, HasRun
  <1>7. Kept'
    BY <1>2, <1>3 DEF Known, Kept
  <1>8. NoRetry' => FirstRun'
    <2> SUFFICES ASSUME NoRetry' PROVE FirstRun'
      OBVIOUS
    <2>1. NoRetry /\ FirstRun
      BY DEF NoRetry, Known
    <2>2. leg[s].pc = "enqueue_start" => recorded = {}
      BY <2>1, NothingRecordedYet DEF ToStart
    <2>3. Unposted' => recorded' = {}
      BY <1>3, <1>5, <2>1, <2>2 DEF FirstRun, Unposted
    <2> QED
      BY <1>2, <2>3 DEF FirstRun, PausedKnows, Remembers, HasRun
  <1> QED
    BY <1>5, <1>6, <1>7, <1>8, EngagedUnretried DEF Known

\* What a leg that opens the run finds in its process's copy of it.
LEMMA CopyRemembers ==
    ASSUME KQInv, RetriedAlone, Known, NEW s \in Slots, Opens(s), Copy(s).status = "queued"
    PROVE  /\ leg[s].job = StartJob => Remembers(Copy(s).results)
           /\ leg[s].job.kind = "hook" => Remembers(Copy(s).results)
  <1>1. ProcOf[s] \in Workers /\ NoRun.status = "none"
    BY HeldFacts DEF LegsHooked, Opens, NoRun
  <1>2. CASE leg[s].job = StartJob
    <2>1. ToStart
      BY <1>2 DEF ToStart
    <2>2. cache[ProcOf[s]] = NoRun /\ Remembers(row.results)
      BY <1>1, <2>1 DEF Known, Kept, Copy, Current
    <2> QED
      BY <1>2, <2>2 DEF Copy, Current, StartJob
  <1>3. CASE leg[s].job.kind = "hook"
    <2>1. ToGoOn /\ NoRetry
      BY <1>3, OpenedBy DEF ToGoOn, StartJob
    <2>2. /\ row.status = "queued" => Remembers(row.results)
          /\ cache[ProcOf[s]].status = "queued" => Remembers(cache[ProcOf[s]].results)
      BY <1>1, <2>1 DEF Known, FirstRun, PausedKnows
    <2> QED
      BY <1>3, <2>2 DEF Copy, Current, StartJob
  <1> QED
    BY <1>2, <1>3

LEMMA LoadKnown ==
    ASSUME KQInv, SoleInv, RetriedAlone, Known, NEW s \in Slots, LoadRun(s), UNCHANGED call
    PROVE  Known'
  <1>0. /\ IInv /\ Opens(s) /\ Opening(s) /\ ~CreateRun(s) /\ Carries(s)
        /\ leg'[s].pc = "start" /\ leg'[s].job = leg[s].job
        /\ Others(s) /\ Unwritten /\ UNCHANGED <<jobs, elsewhere>>
    BY HeldFacts, LoadRunEffect DEF Opens, Opening, CreateRun, At, Carries
  <1>1. recorded' = recorded /\ row' = row /\ cache' = cache /\ (NoRetry' => NoRetry)
    BY <1>0 DEF Unwritten, elsewhere, history, NoRetry
  <1>2. /\ \A t \in Slots \ {s} : ~HasRun(t)' /\ leg'[t].pc # "start" /\ ~Drives(t)'
        /\ \A t \in Slots : leg'[t].pc # "mark"
    BY <1>0, AloneWithRun DEF HasRun
  <1>3. (ToStart' => ToStart) /\ (ToGoOn' => ToGoOn)
    BY <1>0, OpeningToStart
  <1>4. /\ Copy(s).status = "queued"
        /\ cache[ProcOf[s]] = NoRun \/ cache[ProcOf[s]].status = "queued"
    BY <1>0, LoadRunEffect DEF Copy, Current
  <1>5. /\ recorded \subseteq leg'[s].prior \union Reusable(leg'[s].results)
        /\ NoRetry => recorded \subseteq Reusable(leg'[s].results)
    <2>1. CASE leg[s].job = StartJob
      <3>1. /\ leg'[s].prior = Reusable(Copy(s).results)
            /\ recorded \subseteq Reusable(Copy(s).results)
        BY <1>0, <1>4, <2>1, LoadRunEffect, CopyRemembers DEF StartJob, Remembers
      <3>2. NoRetry => recorded = {}
        BY <1>0, <2>1, NothingRecordedYet DEF ToStart
      <3> QED
        BY <3>1, <3>2
    <2>2. CASE leg[s].job.kind = "hook" /\ leg[s].job.n > 1
      BY <1>0, <1>4, <2>2, LoadRunEffect, CopyRemembers DEF Remembers
    <2> QED
      BY <1>0, <2>1, <2>2, OpenedBy
  <1>6. ~Drives(s)'
    BY <1>0 DEF Drives
  <1>7. CopiesQueued'
    BY <1>1, <1>2, <1>4 DEF Known, CopiesQueued
  <1>8. Kept'
    BY <1>1, <1>2, <1>3, <1>5 DEF Known, Kept, Unread, Remembers, Reusable
  <1>9. NoRetry' => PausedKnows'
    BY <1>1, <1>3 DEF Known, FirstRun, PausedKnows, Remembers, Reusable
  <1>10. NoRetry' => FirstRun'
    BY <1>0, <1>1, <1>2, <1>5, <1>6, <1>9 DEF Known, FirstRun, Remembers, Reusable, Unposted
  <1>11. RetryKnows'
    <2>1. ProcOf[s] \in Workers
      BY <1>0, HeldFacts DEF LegsHooked, Opens
    <2>2. \A c \in Calls : ~Retries(c)
      BY <1>4, <2>1 DEF Known, RetryKnows, Copy, Current
    <2> QED
      BY <2>2 DEF RetryKnows, Retries, Under
  <1> QED
    BY <1>7, <1>8, <1>10, <1>11 DEF Known

LEMMA StartKnown ==
    ASSUME KQInv, SoleInv, SoleInv', RetriedAlone, Known, NEW s \in Slots, StartRun(s),
           UNCHANGED call
    PROVE  Known'
  <1>0. /\ IInv /\ Opens(s) /\ leg[s].pc = "start" /\ Carries(s) /\ HasRun(s)
        /\ leg'[s].pc = "step" /\ SameLeg(s) /\ Others(s) /\ Written(s) /\ Drives(s)'
        /\ row'.status = "running" /\ row'.results = Copy(s).results
        /\ NoRun.status = "none" /\ UNCHANGED elsewhere
    BY HeldFacts, StartRunEffect DEF Opens, Carries, HasRun, Drives, NoRun
  <1>1. /\ recorded' = recorded /\ (NoRetry' => NoRetry) /\ ProcOf[s] \in Workers
        /\ cache'[ProcOf[s]] = row'
        /\ \A w \in Workers : w # ProcOf[s] => cache'[w] = cache[w]
    BY <1>0, HeldFacts, ProcessFacts DEF Written, elsewhere, history, NoRetry, LegsHooked
  <1>2. \A t \in Slots \ {s} : ~HasRun(t)' /\ leg'[t].pc # "start" /\ ~Drives(t)'
    BY <1>0, AloneWithRun DEF HasRun
  <1>3. ~ToStart' /\ ~ToGoOn'
    BY <1>0, DrivenAlone
  <1>4. CopiesQueued'
    BY <1>0, <1>1, <1>2 DEF Known, CopiesQueued
  <1>5. Kept'
    <2>1. ~Unread'
      BY <1>0, <1>1 DEF Unread
    <2>2. recorded' \subseteq leg'[s].prior \union Reusable(leg'[s].results)
      BY <1>0, <1>1 DEF Known, Kept, SameLeg
    <2> QED
      BY <1>2, <1>3, <2>1, <2>2 DEF Kept, Reusable
  <1>6. ASSUME NoRetry PROVE FirstRun'
    <2>1. Remembers(leg[s].results)'
      BY <1>0, <1>1, <1>6 DEF Known, FirstRun, Remembers, Reusable, SameLeg
    <2>2. leg[s].job = StartJob => Unread /\ recorded = {}
      BY <1>0, <1>6, NothingRecordedYet DEF ToStart
    <2>3. leg'[s].job = StartJob =>
              /\ Remembers(cache[ProcOf[s]].results)'
              /\ \A w \in Workers \ {ProcOf[s]} : cache'[w] = NoRun
      BY <1>0, <1>1, <2>2 DEF Unread, Remembers, SameLeg
    <2>4. \A t \in Slots : leg'[t].pc # "mark"
      BY <1>0, <1>2, AloneWithRun
    <2> QED
      BY <1>0, <1>2, <1>3, <2>1, <2>3, <2>4 DEF FirstRun, PausedKnows
  <1>7. RetryKnows'
    BY <1>0, EngagedUnretried DEF Engaged
  <1> QED
    BY <1>1, <1>4, <1>5, <1>6, <1>7 DEF Known

\* A leg that pauses the run leaves nothing that would start it.
LEMMA PausedAlone ==
    ASSUME SoleInv, NEW s \in Slots, Carries(s), Others(s), UNCHANGED jobs,
           leg'[s].pc = "return"
    PROVE  ~ToStart'
  <1>1. \A t \in Slots : ~Carries(t)'
    BY DEF SoleInv, OneCarrier, Others, Carries, Opens, Drives
  <1>2. jobs'[StartJob].state # "ready"
    BY JobFacts DEF SoleInv, OneCarrier, Due
  <1> QED
    BY <1>1, <1>2 DEF ToStart, Carries

\* The leg of a webhook's job does not pause the run again.
LEMMA PausesFirst ==
    ASSUME KQInv, OneHook, RetriedAlone, NEW s \in Slots, leg[s].pc = "hook"
    PROVE  leg[s].job = StartJob
  <1> SUFFICES ASSUME leg[s].job # StartJob PROVE FALSE
    OBVIOUS
  <1>1. Drives(s) /\ StepHooked(s) /\ leg[s].at \in Steps /\ leg[s].at \in Nat
    BY HeldFacts, HookedFacts DEF Drives, LegsHooked, Placed, OnStep
  <1>2. /\ leg[s].job.kind = "hook" /\ leg[s].job.n - 1 \in Steps
        /\ Template[leg[s].job.n - 1] = "hook"
    BY <1>1, OpenedBy DEF Behind
  <1>3. leg[s].at >= leg[s].job.n /\ Template[leg[s].at] = "hook"
    BY <1>1, <1>2 DEF StepHooked, HasRun, Kind
  <1>4. leg[s].at = leg[s].job.n - 1
    BY <1>1, <1>2, <1>3 DEF OneHook
  <1>5. leg[s].job.n \in Nat
    BY <1>1, <1>2, HeldFacts DEF JobId
  <1> QED
    BY <1>1, <1>3, <1>4, <1>5

\* A leg pauses the run before anybody can post, unless the job of the wait is used up.
LEMMA PausedUnposted ==
    ASSUME KQInv, SoleInv, OneHook, NEW s \in Slots, leg[s].pc = "hook", DrivesOn(s), ~Drives(s)',
           UNCHANGED call, ToGoOn'
    PROVE  \A c \in Calls : ~(call'[c].kind = "post" /\ call'[c].pc = "write")
  <1> SUFFICES ASSUME NEW c \in Calls, call[c].kind = "post", call[c].pc = "write" PROVE FALSE
    OBVIOUS
  <1>1. /\ Carries(s) /\ Others(s) /\ jobs' = jobs /\ leg'[s].pc = "return"
        /\ \A j \in JobId : ~Due(j)
        /\ \A t \in Slots \ {s} : ~Carries(t)
    BY DEF DrivesOn, Carries, SoleInv, OneCarrier
  <1>2. PICK j \in JobId : j.kind = "hook" /\ Due(j)'
    <2>1. \A t \in Slots : ~Opens(t)'
      BY <1>1 DEF Others, Carries, Opens
    <2> QED
      BY <2>1 DEF ToGoOn
  <1>3. jobs[j].state = "absent" /\ j.n - 1 \in Steps /\ Template[j.n - 1] = "hook"
    <2>1. jobs[j].state = "absent" /\ j.n = leg[s].at + 1
      BY <1>1, <1>2, PausesAhead DEF Due
    <2>2. leg[s].at \in Steps /\ leg[s].at \in Nat /\ Kind(s) = "hook"
      BY HeldFacts, HookedFacts DEF LegsHooked, StepHooked, Placed, OnStep
    <2> QED
      BY <2>1, <2>2 DEF Kind
  <1>4. call[c].at = j.n
    <2>1. Behind(call[c].at)
      BY DEF KQInv, QInv, QuietInv, CallsPlaced
    <2>2. call[c].at - 1 = j.n - 1
      BY <1>3, <2>1 DEF OneHook, Behind
    <2> QED
      BY <2>2, CallFacts, <1>2 DEF KQInv, KInv, JobId
  <1> QED
    BY <1>1, <1>2, <1>3, <1>4 DEF Due, Ahead, Waking

LEMMA DrivesKnown ==
    ASSUME KQInv, SoleInv, SoleInv', RetriedAlone, Known, OneHook, NEW s \in Slots,
           DrivesOn(s), UNCHANGED call
    PROVE  Known'
  <1>0. /\ LegsHooked /\ Drives(s) /\ Carries(s) /\ HasRun(s) /\ Others(s) /\ ResultsGoOn(s)
        /\ leg'[s].job = leg[s].job /\ jobs' = jobs
        /\ ProcOf[s] \in Workers /\ ProcOf[s] \in Processes /\ NoRun.status = "none"
        /\ Unwritten \/ Written(s)
        /\ leg'[s].pc # "start"
    BY HeldFacts, HookedFacts
    DEF DrivesOn, Carries, HasRun, LegsHooked, Drives, NoRun
  <1>1. /\ Copy(s) = cache[ProcOf[s]] /\ cache[ProcOf[s]].status = "running"
    BY <1>0 DEF SoleInv, DrivenIsRunning, Copy, Current
  <1>2. \A t \in Slots \ {s} : ~HasRun(t)' /\ leg'[t].pc # "start" /\ ~Drives(t)'
    BY <1>0, AloneWithRun DEF HasRun
  <1>3. \A w \in Workers : w # ProcOf[s] => cache'[w] = cache[w]
    BY <1>0, ProcessFacts DEF Unwritten, Written
  <1>4. /\ cache'[ProcOf[s]].status # "none"
        /\ cache'[ProcOf[s]].status = "queued" => cache'[ProcOf[s]].token # 0
    BY <1>1 DEF DrivesOn, Unwritten, Written
  <1>5. ~ToStart'
    <2>1. CASE Drives(s)'
      BY <2>1, DrivenAlone
    <2>2. CASE ~Drives(s)'
      BY <1>0, <2>2, PausedAlone DEF DrivesOn
    <2> QED
      BY <2>1, <2>2
  <1>6. CopiesQueued'
    BY <1>0, <1>2, <1>3, <1>4 DEF Known, CopiesQueued
  <1>7. Kept'
    <2>1. ~Unread'
      BY <1>0, <1>4 DEF Unread
    <2>2. recorded' \subseteq leg'[s].prior \union Reusable(leg'[s].results)
      BY <1>0 DEF Known, Kept, ResultsGoOn
    <2> QED
      BY <1>2, <1>5, <2>1, <2>2 DEF Kept, Reusable
  <1>8. ASSUME NoRetry PROVE FirstRun'
    <2>0. FirstRun /\ recorded \subseteq Reusable(leg[s].results)
      BY <1>0, <1>8 DEF Known, FirstRun, Remembers
    <2>1. recorded' \subseteq Reusable(leg'[s].results)
      BY <1>0, <2>0 DEF ResultsGoOn
    <2>2. leg[s].job = StartJob =>
              /\ recorded' \subseteq Reusable(cache'[ProcOf[s]].results)
              /\ Written(s) => recorded' \subseteq Reusable(row'.results)
              /\ \A w \in Workers \ {ProcOf[s]} : cache'[w] = NoRun
      <3> SUFFICES ASSUME leg[s].job = StartJob
                   PROVE  /\ recorded' \subseteq Reusable(cache'[ProcOf[s]].results)
                          /\ Written(s) => recorded' \subseteq Reusable(row'.results)
                          /\ \A w \in Workers \ {ProcOf[s]} : cache'[w] = NoRun
        OBVIOUS
      <3>1. /\ recorded \subseteq Reusable(cache[ProcOf[s]].results)
            /\ \A w \in Workers \ {ProcOf[s]} : cache'[w] = NoRun
        BY <1>0, <1>3, <2>0 DEF FirstRun, Remembers
      <3>2. CASE Unwritten /\ recorded' = recorded
        BY <3>1, <3>2 DEF Unwritten, Written
      <3>3. CASE Written(s) /\ row'.results = leg'[s].results
        BY <2>1, <3>1, <3>3 DEF Written
      <3>4. CASE Written(s) /\ row'.results = Copy(s).results /\ recorded' = recorded
        BY <1>1, <3>1, <3>4 DEF Written
      <3> QED
        BY <1>0, <3>2, <3>3, <3>4 DEF ResultsGoOn
    <2>3. Unposted' /\ row'.status = "failed" => recorded' \subseteq Reusable(row'.results)
      <3> SUFFICES ASSUME Unposted', row'.status = "failed"
                   PROVE  recorded' \subseteq Reusable(row'.results)
        OBVIOUS
      <3>1. Unposted /\ leg[s].job = StartJob
        BY <1>0, UnpostedFirst DEF Unposted
      <3>2. CASE Unwritten
        BY <1>0, <1>8, <3>2 DEF Unwritten, SoleInv, FailedIsOver, FailureSeen, Uncarried
      <3>3. CASE Written(s)
        BY <2>2, <3>1, <3>3
      <3> QED
        BY <1>0, <3>2, <3>3
    <2>4. \A t \in Slots : leg'[t].pc # "mark"
      BY <1>0, AloneWithRun DEF DrivesOn, Drives
    <2>5. PausedKnows'
      <3>1. CASE Drives(s)'
        BY <3>1, DrivenAlone DEF PausedKnows
      <3>2. CASE Ends(s)
        BY <3>2, EndedAlone DEF PausedKnows
      <3>3. CASE ~Drives(s)' /\ leg[s].pc = "hook"
        <4>1. leg[s].job = StartJob
          BY <3>3, PausesFirst
        <4>2. /\ \A w \in Workers \ {ProcOf[s]} : cache'[w].status # "queued"
              /\ Remembers(cache[ProcOf[s]].results)'
              /\ Remembers(row.results)'
          <5>1. Written(s)
            BY <3>3 DEF DrivesOn
          <5> QED
            BY <1>0, <2>2, <4>1, <5>1 DEF Remembers, Reusable
        <4>3. ToGoOn' => \A c \in Calls : ~(call'[c].kind = "post" /\ call'[c].pc = "write")
          BY <1>0, <3>3, PausedUnposted
        <4> QED
          BY <4>2, <4>3 DEF PausedKnows
      <3> QED
        BY <3>1, <3>2, <3>3, DrivingPasses
    <2> QED
      BY <1>0, <1>2, <2>1, <2>2, <2>3, <2>4, <2>5 DEF FirstRun, Remembers, Reusable
  <1>9. NoRetry' => NoRetry
    BY DEF NoRetry
  <1>10. RetryKnows'
    BY <1>0, EngagedUnretried DEF Engaged
  <1> QED
    BY <1>6, <1>7, <1>8, <1>9, <1>10 DEF Known

\* Every step of a slot.
LEMMA SlotKnown ==
    ASSUME KQInv, SoleInv, RetriedAlone, Known, OneHook, NEW s \in Slots, Works(s),
           UNCHANGED call
    PROVE  Known'
  <1>1. SoleInv'
    BY SlotSole
  <1>2. CASE DrivesOn(s)
    BY <1>1, <1>2, DrivesKnown
  <1>3. CASE Opening(s)
    BY <1>1, <1>3, StayKnown, CreateKnown, FailureKnown, LoadKnown, StartKnown
    DEF Opening, Stays
  <1> QED
    BY <1>2, <1>3, HookedSteps

----------------------------------------------------------------------------
(* What the processes remember: crashes and calls                          *)

LEMMA CrashKnown ==
    ASSUME KQInv, Known, NEW p \in Processes, ControlCrash(p)
    PROVE  Known'
  <1>1. recorded' = recorded
    BY DEF ControlCrash, Crash, history
  <1>2. /\ \A w \in Workers : cache'[w] = cache[w]
        /\ row' = row /\ jobs' = jobs /\ LegsHooked
    BY CrashQuietly, ProcessFacts DEF KQInv, KInv, CInv, IInv, RunsOK, QInv, QuietInv
  <1>3. \A s \in Slots : HasRun(s)' \/ Opens(s)' \/ leg'[s].pc = "enqueue_start" =>
            leg'[s] = leg[s]
    BY CrashQuietly, IdleFacts DEF HasRun, Drives, Opens
  <1>4. ToStart' => ToStart
    BY <1>2, <1>3, CrashQuietly DEF ToStart, Opens
  <1>5. ToGoOn' => ToGoOn
    BY <1>2, <1>3, CrashDue DEF ToGoOn, Opens, DueNoMore
  <1>6. /\ (NoRetry' => NoRetry) /\ (Unposted' => Unposted)
        /\ \A c \in Calls : Retries(c)' => Retries(c)
        /\ \A c \in Calls : call'[c].pc = "write" => call'[c] = call[c]
    BY CrashQuietly DEF NoRetry, Unposted, Retries, Under
  <1>7. \A s \in Slots : Engaged(s)' => Engaged(s)
    BY CrashQuietly, IdleFacts DEF Engaged, HasRun, Drives
  <1>8. \A s \in Slots : leg'[s].pc = "mark" =>
            leg[s].pc = "mark" \/ (NoRetry /\ Unposted => recorded = {})
    BY CrashQuietly, IdleFacts
  <1>9. \A s \in Slots : HasRun(s)' => leg'[s] = leg[s]
    BY <1>3
  <1> QED
    BY <1>1, <1>2, <1>4, <1>5, <1>6, <1>7, <1>8, <1>9, NothingNew

LEMMA CallsRecordNothing ==
    ASSUME NEW c \in Calls, Cancel(c) \/ Retry(c) \/ Post(c) \/ Finds(c)
    PROVE  recorded' = recorded
  <1>1. CASE Cancel(c)
    BY <1>1 DEF Cancel, CancelReads, CancelRemoves, CancelWrites, WritesBack, Begins, vars,
                untouched, history
  <1>2. CASE Retry(c)
    BY <1>2 DEF Retry, RetryReads, RetryClears, RetryAdds, RetryMarks, RetryFails, WritesBack,
                Begins, vars, untouched, history
  <1>3. CASE Post(c) \/ Finds(c)
    BY <1>3 DEF Post, PostReads, PostConsumes, PostWakes, PostFails, Finds, WritesBack, Begins,
                vars, untouched, history
  <1> QED
    BY <1>1, <1>2, <1>3

\* No worker remembers a run that has failed as paused: nobody can post its token any more.
LEMMA FailedUnpaused ==
    ASSUME KQInv, SoleInv, CopiesQueued, Unposted, NoRetry, row.status = "failed",
           NEW w \in Workers
    PROVE  cache[w].status # "queued"
  <1> SUFFICES ASSUME cache[w].status = "queued" PROVE FALSE
    OBVIOUS
  <1>1. w \in Processes /\ cache[w] \in Run
    BY ProcessFacts DEF KQInv, KInv, CInv, IInv, RunsOK
  <1>2. cache[w].token # 0 /\ Behind(cache[w].at) /\ cache[w].at \in Nat
    BY <1>1 DEF CopiesQueued, KQInv, QInv, QuietInv, CopiesHooked, RunHooked, Run
  <1>3. Ahead(cache[w].at)
    BY <1>1, <1>2 DEF Ahead, Bearing
  <1>4. HookJob(cache[w].at) \in JobId
    BY <1>2, TemplateFacts DEF Behind, HookJob, JobId
  <1>5. jobs[HookJob(cache[w].at)].state = "absent"
    BY <1>4 DEF KQInv, QInv, QuietInv, JobsPosted, Posted, Unposted, HookJob
  <1>6. Due(HookJob(cache[w].at))
    BY <1>3, <1>5 DEF Due, HookJob
  <1> QED
    BY <1>4, <1>6 DEF SoleInv, FailedIsOver, FailureSeen, Uncarried

\* A call that is accepted to retry finds a failed run with all that is recorded.
LEMMA RetryAccepted ==
    ASSUME KQInv, SoleInv, RetriedAlone', Known, NEW c \in Calls,
           CallReads(c), call'[c].kind = "retry", UNCHANGED <<leg, recorded>>,
           \A d \in Calls \ {c} : call'[d] = call[d]
    PROVE  Known'
  <1>0. CallsPlaced /\ LegsHooked
    BY DEF KQInv, QInv, QuietInv
  <1>1. row.status = "failed" /\ ~NoRetry' /\ UNCHANGED <<row, cache, jobs>>
    BY DEF CallReads, NoRetry
  <1>2. NoRetry
    BY <1>0 DEF RetriedAlone, RetriedOnce, NoRetry, CallReads, CallsPlaced
  <1>3. Unposted
    BY <1>0 DEF RetriedAlone, Unposted, CallReads, CallsPlaced
  <1>4. Uncarried /\ Remembers(row.results)
    BY <1>1, <1>2, <1>3 DEF SoleInv, FailedIsOver, FailureSeen, Known, FirstRun
  <1>5. \A w \in Workers : cache[w].status # "queued"
    BY <1>1, <1>2, <1>3, FailedUnpaused DEF Known
  <1>6. \A s \in Slots : ~Engaged(s)
    BY <1>4 DEF Uncarried, Carries, Engaged, HasRun, Opens
  <1>7. \A d \in Calls : call'[d].kind = "retry" => call'[d].pc # "write"
    <2>1. call'[c].pc = "clear"
      BY DEF CallReads
    <2> QED
      BY <1>2, <2>1 DEF NoRetry
  <1>8. RetryKnows'
    BY <1>1, <1>4, <1>5, <1>6, <1>7
    DEF RetryKnows, Remembers, Reusable, Engaged, HasRun, Drives, Retries
  <1>9. CopiesQueued'
    BY <1>0, <1>1 DEF Known, CopiesQueued
  <1>10. Kept'
    BY <1>1, <1>5
    DEF Known, Kept, Remembers, Reusable, Unread, HasRun, Drives, ToStart, Opens
  <1> QED
    BY <1>1, <1>8, <1>9, <1>10 DEF Known

\* What a call finds to write back.
LEMMA FindKnown ==
    ASSUME KQInv, RetriedAlone', Known, NEW c \in Calls, CallFinds(c), UNCHANGED <<leg, recorded>>,
           call'[c].kind = call[c].kind, \A d \in Calls \ {c} : call'[d] = call[d],
           ToGoOn' => ToGoOn
    PROVE  Known'
  <1>1. UNCHANGED <<row, cache, jobs>> /\ call'[c].found = row /\ call[c].pc = "find"
    BY DEF CallFinds
  <1>2. \A d \in Calls : /\ call'[d].kind = call[d].kind
                         /\ Retries(d)' => Retries(d)
                         /\ d # c => call'[d] = call[d]
    BY <1>1 DEF Retries, Under
  <1>3. (NoRetry' => NoRetry) /\ (Unposted' => Unposted)
    BY <1>2 DEF NoRetry, Unposted
  <1>4. CopiesQueued' /\ Kept'
    BY <1>1
    DEF Known, CopiesQueued, Kept, Remembers, Reusable, Unread, HasRun, Drives, ToStart, Opens
  <1>5. RetryKnows'
    <2> SUFFICES ASSUME \E d \in Calls : Retries(d)' PROVE RetryKnows'
      BY DEF RetryKnows
    <2>1. \E d \in Calls : Retries(d)
      BY <1>2
    <2>2. Retries(c)' => Remembers(call[c].found.results)'
      <3>1. call[c].kind = "retry" => row.status = "failed"
        <4>1. call[c].kind = "retry" => row.status \in {"none", "failed"}
          BY <1>1, <1>2 DEF RetriedAlone
        <4>2. row.status \in {"failed", "cancelling", "canceled"}
          BY <2>1 DEF Known, RetryKnows
        <4> QED
          BY <4>1, <4>2
      <3>2. row.status = "failed" => Remembers(row.results)
        BY <2>1 DEF Known, RetryKnows
      <3> QED
        BY <1>1, <1>2, <3>1, <3>2 DEF Retries, Remembers, Reusable
    <2> QED
      BY <1>1, <1>2, <2>1, <2>2
      DEF Known, RetryKnows, Remembers, Reusable, Engaged, HasRun, Drives
  <1>6. NoRetry' => PausedKnows'
    BY <1>1, <1>2, <1>3 DEF Known, FirstRun, PausedKnows, Remembers, Reusable
  <1>7. NoRetry' => FirstRun'
    BY <1>1, <1>3, <1>6 DEF Known, FirstRun, Remembers, Reusable, HasRun, Drives
  <1> QED
    BY <1>4, <1>5, <1>7 DEF Known

\* A call puts back the run as it has found it.
LEMMA WriteKnown ==
    ASSUME KQInv, RetriedAlone, Known, NEW c \in Calls, CallWritesRun(c),
           UNCHANGED <<leg, recorded>>,
           call'[c].kind = call[c].kind, \A d \in Calls \ {c} : call'[d] = call[d],
           ToGoOn' => ToGoOn
    PROVE  Known'
  <1>0. LegsHooked /\ CallsPlaced /\ ServedApart /\ CallProc[c] \notin Workers
    BY ControlAssumption, ProcessFacts DEF KQInv, KInv, QInv, QuietInv
  <1>1. /\ jobs' = jobs /\ \A w \in Workers : cache'[w] = cache[w]
        /\ row'.results = call[c].found.results /\ call[c].pc = "write"
        /\ call'[c].pc \in {"over", "wake"}
    BY <1>0, ProcessFacts DEF CallWritesRun, WrittenIn
  <1>2. \A d \in Calls : /\ call'[d].kind = call[d].kind
                         /\ Retries(d)' => Retries(d)
                         /\ call'[d].pc = "write" => call'[d] = call[d]
    BY <1>1 DEF Retries, Under
  <1>3. (NoRetry' => NoRetry) /\ (Unposted' => Unposted)
    BY <1>2 DEF NoRetry, Unposted
  <1>4. CopiesQueued'
    <2>1. \A s \in Slots : leg'[s].pc = "start" => ProcOf[s] \in Workers
      BY <1>0 DEF LegsHooked
    <2> QED
      BY <1>1, <2>1 DEF Known, CopiesQueued
  <1>5. ToStart /\ row'.status = "queued" => Remembers(row'.results)
    <2> SUFFICES ASSUME ToStart, row'.status = "queued" PROVE Remembers(row'.results)
      OBVIOUS
    <2>1. CASE call[c].kind = "retry"
      BY <1>1, <2>1 DEF Known, RetryKnows, Retries, Under
    <2>2. CASE call[c].kind = "post"
      <3>1. NoRetry
        BY <2>2 DEF RetriedAlone, Unposted, NoRetry
      <3> QED
        BY <3>1, NothingRecordedYet DEF Remembers
    <2> QED
      BY <2>1, <2>2 DEF CallWritesRun
  <1>6. Kept'
    <2>1. \A s \in Slots : HasRun(s)' => HasRun(s)
      BY DEF HasRun, Drives
    <2>2. ToStart' => ToStart
      BY <1>1 DEF ToStart, Opens
    <2> QED
      BY <1>1, <1>5, <2>1, <2>2 DEF Known, Kept, Remembers, Reusable, Unread
  <1>7. RetryKnows'
    <2> SUFFICES ASSUME NEW e \in Calls, Retries(e)' PROVE RetryKnows'
      BY DEF RetryKnows
    <2>1. Retries(e) /\ e # c
      BY <1>1, <1>2 DEF Retries, Under, CallWritesRun
    <2>2. call[c].kind = "cancel"
      BY <2>1 DEF CallWritesRun, RetriedAlone, RetriedOnce, Unposted, Retries
    <2>3. row'.status \in {"cancelling", "canceled"}
      BY <2>2 DEF CallWritesRun
    <2> QED
      BY <1>1, <1>2, <2>1, <2>3
      DEF Known, RetryKnows, Remembers, Reusable, Engaged, HasRun, Drives
  <1>8. ASSUME NoRetry' PROVE FirstRun'
    <2>1. NoRetry /\ FirstRun /\ call[c].kind \in {"cancel", "post"}
      BY <1>3, <1>8 DEF Known, CallWritesRun, NoRetry
    <2>2. /\ row'.status = "queued" => call[c].kind = "post" /\ call[c].found.status = "queued"
          /\ row'.status = "failed" => ~Unposted'
      BY <1>2, <2>1 DEF CallWritesRun, Unposted
    <2>3. PausedKnows'
      BY <1>1, <1>2, <2>1, <2>2 DEF FirstRun, PausedKnows, Remembers, Reusable
    <2>4. \A s \in Slots : HasRun(s)' \/ Drives(s)' => ProcOf[s] \in Workers
      BY <1>0 DEF LegsHooked, HasRun, Drives
    <2> QED
      BY <1>1, <1>3, <2>1, <2>2, <2>3, <2>4 DEF FirstRun, Remembers, Reusable, HasRun, Drives
  <1> QED
    BY <1>4, <1>6, <1>7, <1>8 DEF Known

\* A retry adds the job that starts the run again.
LEMMA AddKnown ==
    ASSUME KQInv, Known, NEW c \in Calls, CallWorks(c), call[c].pc = "add",
           UNCHANGED <<leg, recorded>>,
           call'[c].kind = call[c].kind, \A d \in Calls \ {c} : call'[d] = call[d]
    PROVE  Known'
  <1>1. Retries(c) /\ ~NoRetry' /\ UNCHANGED <<row, cache>> /\ call'[c].pc \in {"find", "over"}
    BY DEF CallWorks, Retries, Under, NoRetry, KQInv, QInv, QuietInv, CallsPlaced
  <1>2. \A d \in Calls : /\ Retries(d)' => Retries(d)
                         /\ call'[d].pc = "write" => call'[d] = call[d]
    BY <1>1 DEF Retries, Under
  <1>3. CopiesQueued' /\ RetryKnows'
    BY <1>1, <1>2
    DEF Known, CopiesQueued, RetryKnows, Remembers, Reusable, Engaged, HasRun, Drives
  <1>4. Kept'
    BY <1>1 DEF Known, RetryKnows, Kept, Remembers, Reusable, Unread, HasRun, Drives
  <1> QED
    BY <1>1, <1>3, <1>4 DEF Known

\* Every step of a call.
LEMMA CallKnown ==
    ASSUME KQInv, SoleInv, RetriedAlone, RetriedAlone', Known, NEW c \in Calls,
           Cancel(c) \/ Retry(c) \/ Post(c) \/ Finds(c)
    PROVE  Known'
  <1>0. /\ CallsPlaced /\ LegsHooked /\ jobs \in [JobId -> JobState] /\ StartJob \in JobId
        /\ UNCHANGED <<leg, recorded>>
        /\ \A d \in Calls \ {c} : call'[d] = call[d]
        /\ \/ CallReads(c)
           \/ /\ CallWorks(c) \/ CallFinds(c) \/ CallWritesRun(c)
              /\ call'[c].kind = call[c].kind /\ call'[c].at = call[c].at
    BY CallDoes, CallsRecordNothing, JobFacts DEF KQInv, KInv, CInv, IInv, JobsOK, QInv, QuietInv
  <1>1. ToGoOn' => ToGoOn
    <2>1. \A j \in JobId : j.kind = "hook" /\ Due(j)' => Due(j)
      <3>1. CASE DueNoMore
        BY <3>1 DEF DueNoMore
      <3>2. CASE Add(StartJob)
        <4>1. \A j \in JobId : j.kind = "hook" => jobs'[j] = jobs[j]
          BY <1>0, <3>2 DEF Add, StartJob
        <4> QED
          BY <4>1, CallDue DEF Due
      <3> QED
        BY <3>1, <3>2, CallDue
    <2> QED
      BY <1>0, <2>1 DEF ToGoOn, Opens
  <1>2. CASE CallReads(c) /\ call'[c].kind = "retry"
    BY <1>0, <1>2, RetryAccepted
  <1>3. CASE CallFinds(c) /\ call'[c].kind = call[c].kind
    BY <1>0, <1>1, <1>3, FindKnown
  <1>4. CASE CallWritesRun(c) /\ call'[c].kind = call[c].kind
    BY <1>0, <1>1, <1>4, WriteKnown
  <1>5. CASE CallWorks(c) /\ call[c].pc = "add" /\ call'[c].kind = call[c].kind
    BY <1>0, <1>5, AddKnown
  <1>6. CASE \/ CallReads(c) /\ call'[c].kind # "retry"
             \/ CallWorks(c) /\ call[c].pc # "add" /\ call'[c].kind = call[c].kind
    <2>1. /\ UNCHANGED <<row, cache>>
          /\ \A d \in Calls : /\ Retries(d)' => Retries(d)
                              /\ call'[d].pc = "write" => call'[d] = call[d]
      BY <1>0, <1>6 DEF Retries, Under, CallReads, CallWorks
    <2>2. (NoRetry' => NoRetry) /\ (Unposted' => Unposted)
      BY <1>0, <1>6 DEF NoRetry, Unposted, CallReads, CallsPlaced
    <2>3. ToStart' => ToStart
      <3>1. jobs'[StartJob].state = "ready" => jobs[StartJob].state = "ready"
        <4>1. CASE jobs' = jobs
          BY <4>1
        <4>2. CASE RemoveJob
          BY <1>0, <4>2 DEF RemoveJob
        <4>3. CASE CallWorks(c) /\ call[c].pc = "wake" /\ Add(HookJob(call[c].at))
          BY <1>0, <4>3 DEF Add, HookJob, StartJob
        <4> QED
          BY <1>6, <4>1, <4>2, <4>3 DEF CallReads, CallWorks
      <3> QED
        BY <1>0, <3>1 DEF ToStart, Opens
    <2>4. \A s \in Slots : Engaged(s)' => Engaged(s)
      BY <1>0 DEF Engaged, HasRun, Drives
    <2> QED
      BY <1>0, <1>1, <2>1, <2>2, <2>3, <2>4, NothingNew
  <1> QED
    BY <1>0, <1>2, <1>3, <1>4, <1>5, <1>6

----------------------------------------------------------------------------
(* No recorded step is carried out again                                   *)

LEMMA StaysKnown ==
    ASSUME Known, UNCHANGED <<row, cache, jobs, leg, call, recorded>>
    PROVE  Known'
  BY DEF Known, CopiesQueued, Kept, RetryKnows, Retries, Under, Engaged, FirstRun, PausedKnows,
         Unread, Remembers, Reusable, ToStart, ToGoOn, HasRun, Opens, Drives, Due, Ahead, Bearing,
         Waking, PutsBack, NoRetry, Unposted

\* Every step.
LEMMA NextNInv ==
    ASSUME KQInv, DInv, NInv, OneHook, [ControlNext]_controlVars
    PROVE  NInv'
  <1> SUFFICES ASSUME RetriedAlone' PROVE Known'
    BY DEF NInv
  <1>0. RetriedAlone /\ SoleInv /\ Known
    <2>1. \A c \in Calls : call[c].kind # "none" => call'[c].kind = call[c].kind
      BY RetriesStay
    <2>2. RetriedOnce /\ ((\A c \in Calls : call[c].kind # "retry") \/ Unposted)
      BY <2>1 DEF RetriedAlone, RetriedOnce, Unposted
    <2>3. ASSUME NEW c \in Calls, call[c].kind = "retry"
          PROVE  call[c].found.status \in {"none", "failed"}
      <3>1. call'[c].found.status \in {"none", "failed"}
        BY <2>1, <2>3 DEF RetriedAlone
      <3>2. call[c].found = call'[c].found \/ call[c].found = NoRun
        BY <2>3, FoundStays DEF KQInv
      <3> QED
        BY <3>1, <3>2 DEF NoRun
    <2> QED
      BY <2>2, <2>3 DEF RetriedAlone, DInv, NInv
  <1>1. ASSUME NEW s \in Slots, Works(s), UNCHANGED call
        PROVE  Known'
    BY <1>0, <1>1, SlotKnown
  <1>2. CASE /\ UNCHANGED call
             /\ \/ \E j \in JobId : DropStalled(j)
                \/ Approve
                \/ \E w \in Workers : Reaper(w)
    <2>1. recorded' = recorded
      BY <1>2 DEF DropStalled, elsewhere, Approve, Decide, PersistDecision, TimerFires, DropTimer,
                  Reaper, Reap, EnqueueReplay, GiveUp, history
    <2> QED
      BY <1>0, <1>2, <2>1, OthersQuiet, StaysKnown
  <1>3. ASSUME NEW p \in Processes, ControlCrash(p)
        PROVE  Known'
    BY <1>0, <1>3, CrashKnown
  <1>4. ASSUME NEW c \in Calls, Cancel(c) \/ Retry(c) \/ Post(c) \/ Finds(c)
        PROVE  Known'
    BY <1>0, <1>4, CallKnown
  <1>5. CASE UNCHANGED controlVars
    BY <1>0, <1>5, StaysKnown DEF controlVars, vars, history
  <1> QED
    BY <1>1, <1>2, <1>3, <1>4, <1>5 DEF ControlNext, Work, Works

LEMMA InitNInv == ControlInit => NInv
  <1> SUFFICES ASSUME ControlInit PROVE Known
    BY DEF NInv
  <1>1. NoRun.status = "none"
    BY DEF NoRun
  <1> QED
    BY <1>1, IdleFacts, ProcessFacts
    DEF ControlInit, Init, Known, CopiesQueued, Kept, RetryKnows, Retries, Under, NewCall,
        FirstRun, PausedKnows, Remembers, HasRun, Drives

\* A leg that knows what is recorded does not carry it out again.
LEMMA KnownNotRefired ==
    ASSUME KQInv, Known, NEW s \in Slots
    PROVE  NotRefired(s)
  <1> SUFFICES ASSUME RunAction(s), Ordinal(s) \in recorded PROVE FALSE
    BY DEF NotRefired
  <1>1. leg[s].pc = "exec" /\ Kind(s) = "action" /\ ~Reuses(s)
    BY DEF RunAction, At
  <1>2. HasRun(s) /\ StepHooked(s)
    BY <1>1 DEF HasRun, Drives, KQInv, QInv, QuietInv, LegsHooked
  <1>3. Ordinal(s) \notin leg[s].prior
    BY <1>1 DEF Reuses
  <1>4. Ordinal(s) \notin Reusable(leg[s].results)
    BY <1>1, <1>2 DEF StepHooked, Reusable
  <1> QED
    BY <1>2, <1>3, <1>4 DEF Known, Kept

\* A retry replays a failed run, and a post goes on with a waiting one, without carrying out
\* a step whose effect is recorded, however deliveries, posts of one token, the stale writes
\* of cancels and crashes of API processes fall; of a template that waits for one webhook at
\* most, and but for two retries, a retry beside a post, a retry that finds its run
\* overwritten by a cancel, and posts too late.
THEOREM NotRefiredByCallsAlways ==
    ControlSpec /\ ServedApart /\ CallsApart /\ Hooked /\ OneHook => NotRefiredByCalls
  <1>1. ControlInit => NInv
    BY InitNInv
  <1>2. KInv /\ (PostsInTime => KQInv /\ DInv) /\ OneHook /\ (PostsInTime => NInv)
            /\ [ControlNext]_controlVars => (PostsInTime => NInv)' /\ OneHook'
    BY PostsStay, NextNInv DEF OneHook
  <1>3. (PostsInTime => KQInv /\ DInv) /\ (PostsInTime => NInv) =>
            [RetriedAlone /\ PostsInTime => \A s \in Slots : NotRefired(s)]_controlVars
    BY KnownNotRefired DEF NInv
  <1> QED
    BY <1>1, <1>2, <1>3, KInvariance, DInvariance, PTL DEF ControlSpec, NotRefiredByCalls
=============================================================================
