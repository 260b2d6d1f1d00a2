---------------------------- MODULE RunExecution ----------------------------
(***************************************************************************)
(* The life of one workflow run: the API process that creates and enqueues *)
(* it, the BullMQ "runs" queue, the worker processes that drive its steps, *)
(* the approvals it parks on, the sweep that resumes it, and the reaper    *)
(* that replays a run a crash has stranded.                                *)
(*                                                                         *)
(* Every process reads a run through its own memory first (runStore.get)   *)
(* and writes it back whole (runStore.update); only a miss reads           *)
(* PostgreSQL.  An action is what runs between two awaits that another     *)
(* process, slot or crash could come between.  Steps, results and ordinals *)
(* count from 1, where the code counts from 0.                             *)
(***************************************************************************)
EXTENDS Naturals, Sequences, SequencesExt, FiniteSets

CONSTANTS
    Template,     \* kinds of the workflow's steps, in order
    ReviseFrom,   \* approvalRequestChangesStepId of a step, 0 when there is none
    Workers,      \* worker processes
    Apis,         \* API processes
    Slots,        \* executions a process can have under way at once
    ProcOf,       \* the process of a slot
    MaxAttempts,  \* RUN_REAPER_MAX_ATTEMPTS
    MaxTries,     \* attempts of a BullMQ job
    MaxStalls,    \* times BullMQ delivers it again after a crash: 1 by default
    Decisions,    \* decisions an approval may get
    Mortal,       \* processes that may crash ...
    MaxCrashes,   \* ... bound: so often in all
    MaxApprovals, \* bound: no changes are requested past so many approvals
    SlowSteps,    \* a step may take longer than RUN_REAPER_STALE_MS
    Unhurried     \* a sweep never catches a leg that is parking or resuming the run

\* hook: a wait in webhook mode, whose pausing and waking are in RunControl.
Kinds == {"action", "pure", "wait", "hook", "approval"}
Verdicts == {"approved", "rejected", "request_changes", "timed_out"}

ASSUME RunAssumption ==
    /\ Template \in Seq(Kinds)
    /\ ReviseFrom \in [DOMAIN Template -> 0..Len(Template)]
    /\ Workers \cap Apis = {}
    /\ ProcOf \in [Slots -> Workers \union Apis]
    /\ MaxAttempts \in Nat /\ MaxTries \in Nat \ {0} /\ MaxStalls \in Nat
    /\ MaxCrashes \in Nat /\ MaxApprovals \in Nat
    /\ Decisions \subseteq Verdicts
    /\ Mortal \subseteq Workers \union Apis
    /\ SlowSteps \in BOOLEAN /\ Unhurried \in BOOLEAN

VARIABLES
    row,        \* the runs row and its step_results, in PostgreSQL
    attempts,   \* its resume_attempts column
    cache,      \* memoryStore of each process: its copy of the run, or NoRun
    jobs,       \* the "runs" queue: state, failed tries and stalls of each job id
    approvals,  \* approval_requests of the run, oldest first
    deciding,   \* the decision on its way through approvalStore.resolve in an API process
    armed,      \* approvals whose own timeout a process has armed (its store map)
    leg,        \* what each slot is doing
    reaping,    \* attempt a worker's reaper has claimed and not yet enqueued, or 0
    crashes,
    \* history, read by no action
    recorded,   \* ordinals whose effect reached a step_results row
    granted,    \* approval steps that were approved
    resumed     \* approvals that have resumed the run

history == <<recorded, granted, resumed>>
approvalVars == <<approvals, deciding, armed>>
vars == <<row, attempts, cache, jobs, approvalVars, leg, reaping, crashes, history>>

Processes == Workers \union Apis
Steps == DOMAIN Template

----------------------------------------------------------------------------
(* Records                                                                 *)

Statuses == {"none", "queued", "running", "awaiting_approval", "completed", "failed",
             "cancelling", "canceled"}
Terminal == {"completed", "failed", "canceled"}

\* A step result; its place in the sequence is its ordinal, hence its key.
Result == [step : Nat, status : {"running", "success", "failure"}, keyed : BOOLEAN]

\* at: runtimeState.currentStepIndex; waiting: runtimeState.waitingApprovalId; token:
\* runtimeState.waitingResumeToken, told by the ordinal of the wait that minted it.
Run == [status : Statuses, at : 0..(Len(Template) + 1), waiting : Nat, token : Nat,
        results : Seq(Result)]
NoRun == [status |-> "none", at |-> 1, waiting |-> 0, token |-> 0, results |-> <<>>]

\* makeRuntimeState with neither an approval nor a token.
Reached(run, at) == [run EXCEPT !.at = at, !.waiting = 0, !.token = 0]

\* "<run>", "<run>:wait:<index>", "<run>:webhook-resume:<index>" and
\* "resume:<run>:<attempt>".
JobId == [kind : {"start"}, n : {1}]
            \union [kind : {"wait", "hook"}, n : 2..(Len(Template) + 1)]
            \union [kind : {"resume"}, n : 1..MaxAttempts]
StartJob == [kind |-> "start", n |-> 1]
\* Mutant: a wait's job takes the id of the run's first job.
WaitJobMutant(i) == [kind |-> "start", n |-> 1]

WaitJob(i) == [kind |-> "wait", n |-> i]

ResumeJob(a) == [kind |-> "resume", n |-> a]
NoJob == [kind |-> "none", n |-> 0]
\* kept: completed; dropped: BullMQ has given up on it.
JobState == [state : {"absent", "ready", "active", "stalled", "kept", "dropped"},
             tries : 0..MaxTries, stalls : 0..MaxStalls]

Leg == [pc : {"idle", "enqueue_start", "load", "start", "step", "begin", "exec", "park", "stamp",
              "record", "fail", "pause", "hook", "enqueue", "return", "throw", "mark", "resume", "resumed"},
        job : JobId \union {NoJob},
        at : Nat, results : Seq(Result), prior : SUBSET Nat,
        outcome : {"next", "fail", "wait", "hook", "park"},
        approval : Nat, verdict : Verdicts]
Idle == [pc |-> "idle", job |-> NoJob, at |-> 1, results |-> <<>>, prior |-> {},
         outcome |-> "next", approval |-> 0, verdict |-> "rejected"]

NoDecision == [n |-> 0, verdict |-> "rejected"]

TypeOK ==
    /\ row \in Run /\ attempts \in 0..MaxAttempts
    /\ cache \in [Processes -> Run]
    /\ jobs \in [JobId -> JobState]
    /\ approvals \in Seq([step : Steps, verdict : Verdicts \union {"pending"}])
    /\ deciding \in [Apis -> [n : Nat, verdict : Verdicts]]
    /\ armed \in [Processes -> SUBSET Nat]
    /\ leg \in [Slots -> Leg]
    /\ reaping \in [Workers -> 0..MaxAttempts]
    /\ crashes \in Nat
    /\ recorded \subseteq Nat /\ granted \subseteq Steps /\ resumed \subseteq Nat

Init ==
    /\ row = NoRun /\ attempts = 0
    /\ cache = [p \in Processes |-> NoRun]
    /\ jobs = [j \in JobId |-> [state |-> "absent", tries |-> 0, stalls |-> 0]]
    /\ approvals = <<>>
    /\ deciding = [p \in Apis |-> NoDecision]
    /\ armed = [p \in Processes |-> {}]
    /\ leg = [s \in Slots |-> Idle]
    /\ reaping = [w \in Workers |-> 0]
    /\ crashes = 0
    /\ recorded = {} /\ granted = {} /\ resumed = {}

----------------------------------------------------------------------------
(* runStore, the queue, and the frame of a leg                             *)

\* runStore.get: memory first; a row read from PostgreSQL is not kept.
Current(p) == IF cache[p] # NoRun THEN cache[p] ELSE row
Copy(s) == Current(ProcOf[s])

\* runStore.update: the process's own copy, patched, replaces the row whole.  A leg reads
\* and writes in one action: but for its first write its copy is in memory, and that one
\* is rewritten whole by the step that follows.  The calls of RunControl, whose process
\* has no copy, read and write apart.
UpdateIn(p, run) ==
    /\ cache' = [cache EXCEPT ![p] = run]
    /\ row' = run

Update(s, run) == UpdateIn(ProcOf[s], run)

\* Mutant: a job that is over may be added again under its id.
AddMutant(j) ==
    jobs' = IF jobs[j].state \in {"absent", "active", "kept"}
            THEN [jobs EXCEPT ![j].state = "ready"] ELSE jobs

\* queue.add: an id that is still known, in whatever state, is not added again.
Add(j) ==
    jobs' = IF jobs[j].state = "absent" THEN [jobs EXCEPT ![j].state = "ready"] ELSE jobs

Goto(s, l) == leg' = [leg EXCEPT ![s] = l]

\* The leg is over; the handler has only to return.
Done(s) == Goto(s, [leg[s] EXCEPT !.pc = "return"])

elsewhere == <<attempts, approvalVars, reaping, crashes, history>>

At(s, pc) == leg[s].pc = pc
Kind(s) == Template[leg[s].at]
Ordinal(s) == Len(leg[s].results)

----------------------------------------------------------------------------
(* startWorkflowRun, in an API process                                     *)

CreateRun(s) ==
    /\ At(s, "idle") /\ ProcOf[s] \in Apis
    /\ row = NoRun
    /\ Update(s, [NoRun EXCEPT !.status = "queued"])
    /\ Goto(s, [Idle EXCEPT !.pc = "enqueue_start"])
    /\ UNCHANGED <<jobs, elsewhere>>

EnqueueStart(s) ==
    /\ At(s, "enqueue_start")
    /\ Add(StartJob)
    /\ Goto(s, Idle)
    /\ UNCHANGED <<row, cache, elsewhere>>

\* Mutant: the error is swallowed.
EnqueueStartFailsMutant(s) ==
    /\ At(s, "enqueue_start")
    /\ Goto(s, Idle)
    /\ UNCHANGED <<row, cache, jobs, elsewhere>>

EnqueueStartFails(s) ==
    /\ At(s, "enqueue_start")
    /\ Update(s, [Copy(s) EXCEPT !.status = "failed"])
    /\ Goto(s, Idle)
    /\ UNCHANGED <<jobs, elsewhere>>

----------------------------------------------------------------------------
(* executeQueuedRun, in a worker slot                                      *)

\* A delayed wait job falls due at any time.
Deliver(s, j) ==
    /\ At(s, "idle") /\ ProcOf[s] \in Workers
    /\ \/ jobs[j].state = "ready"
          /\ jobs' = [jobs EXCEPT ![j].state = "active"]
       \/ jobs[j].state = "stalled" /\ jobs[j].stalls < MaxStalls
          /\ jobs' = [jobs EXCEPT ![j].state = "active", ![j].stalls = @ + 1]
    /\ Goto(s, [Idle EXCEPT !.pc = "load", !.job = j])
    /\ UNCHANGED <<row, cache, elsewhere>>

\* A job that stalls too often fails with tries left, so nothing marks the run.
DropStalled(j) ==
    /\ jobs[j].state = "stalled" /\ jobs[j].stalls >= MaxStalls
    /\ jobs' = [jobs EXCEPT ![j].state = "dropped"]
    /\ UNCHANGED <<row, cache, leg, elsewhere>>

\* Mutant: only a run that is under way is left alone.
QueuedMutant(s) == Copy(s).status # "running"

Queued(s) == Copy(s).status = "queued"

\* A run that is no longer queued, as this process knows it, is left alone.
SkipRun(s) ==
    /\ At(s, "load")
    /\ ~Queued(s)
    /\ Done(s)
    /\ UNCHANGED <<row, cache, jobs, elsewhere>>

\* buildPriorResultMap: ordinals whose recorded output a replay may reuse.
Reusable(results) ==
    {o \in DOMAIN results : results[o].keyed /\ results[o].status = "success"}

\* From the top: empty results, and the old ones to reuse from.  Past a wait:
\* the results so far, and nothing to reuse.
LoadRun(s) ==
    /\ At(s, "load")
    /\ Queued(s)
    /\ LET from == IF leg[s].job.kind \in {"wait", "hook"} THEN leg[s].job.n ELSE 1 IN
       Goto(s, [leg[s] EXCEPT
                   !.pc = "start",
                   !.at = from,
                   !.results = IF from > 1 THEN Copy(s).results ELSE <<>>,
                   !.prior = IF from > 1 THEN {} ELSE Reusable(Copy(s).results)])
    /\ UNCHANGED <<row, cache, jobs, elsewhere>>

\* _buildMemoryContext throws, with the run still queued.
StartFails(s) ==
    /\ At(s, "start")
    /\ Goto(s, [leg[s] EXCEPT !.pc = "throw"])
    /\ UNCHANGED <<row, cache, jobs, elsewhere>>

\* BullMQ tries the job again; the last try leaves it to the worker's "failed"
\* handler to mark the run.
JobFails(s) ==
    /\ At(s, "throw")
    /\ LET tries == jobs[leg[s].job].tries + 1 IN
       /\ jobs' = [jobs EXCEPT ![leg[s].job].tries = tries,
                                ![leg[s].job].state = IF tries < MaxTries
                                                      THEN "ready" ELSE "dropped"]
       /\ Goto(s, IF tries < MaxTries THEN Idle ELSE [Idle EXCEPT !.pc = "mark"])
    /\ UNCHANGED <<row, cache, elsewhere>>

\* markFailed: the copy, where there is one, and the status of the row.
MarkFailed(s) ==
    /\ At(s, "mark")
    /\ row' = [row EXCEPT !.status = "failed"]
    /\ cache' = IF cache[ProcOf[s]] = NoRun THEN cache
                ELSE [cache EXCEPT ![ProcOf[s]].status = "failed"]
    /\ Goto(s, Idle)
    /\ UNCHANGED <<jobs, elsewhere>>

StartRun(s) ==
    /\ At(s, "start")
    /\ Update(s, [Copy(s) EXCEPT !.status = "running"])
    /\ Goto(s, [leg[s] EXCEPT !.pc = "step"])
    /\ UNCHANGED <<jobs, elsewhere>>

----------------------------------------------------------------------------
(* _runSteps                                                               *)

\* currentStepIndex first ...
ReachStep(s) ==
    /\ At(s, "step") /\ leg[s].at <= Len(Template)
    /\ Update(s, Reached(Copy(s), leg[s].at))
    /\ Goto(s, [leg[s] EXCEPT !.pc = "begin"])
    /\ UNCHANGED <<jobs, elsewhere>>

\* ... then a placeholder at the end of the results: on a replay, the first write to
\* shed the results of the run before.
BeginStep(s) ==
    /\ At(s, "begin")
    /\ LET results == Append(leg[s].results,
                             [step |-> leg[s].at, status |-> "running", keyed |-> FALSE]) IN
       /\ Update(s, [Copy(s) EXCEPT !.results = results])
       /\ Goto(s, [leg[s] EXCEPT !.pc = "exec", !.results = results])
    /\ UNCHANGED <<jobs, elsewhere>>

DeadlinePasses(s) ==
    /\ At(s, "step") /\ leg[s].at <= Len(Template)
    /\ Update(s, [Reached(Copy(s), leg[s].at) EXCEPT !.status = "failed"])
    /\ Done(s)
    /\ UNCHANGED <<jobs, elsewhere>>

CompleteRun(s) ==
    /\ At(s, "step") /\ leg[s].at > Len(Template)
    /\ Update(s, [Reached(Copy(s), Len(Template)) EXCEPT
                     !.status = "completed", !.results = leg[s].results])
    /\ Done(s)
    /\ UNCHANGED <<jobs, elsewhere>>

Executed(s, outcome) ==
    /\ Goto(s, [leg[s] EXCEPT !.pc = "record", !.outcome = outcome])
    /\ UNCHANGED <<row, cache, jobs, elsewhere>>

\* Mutant: the ordinal is one too low.
ReusesMutant(s) == Kind(s) # "pure" /\ Ordinal(s) - 1 \in leg[s].prior

Reuses(s) == Kind(s) # "pure" /\ Ordinal(s) \in leg[s].prior

\* A recorded output is reused; a wait or an approval reused does not pause.
ReuseStep(s) == At(s, "exec") /\ Reuses(s) /\ Executed(s, "next")

\* The step takes effect outside: an email, a connector write, an agent's turn.
RunAction(s) == At(s, "exec") /\ ~Reuses(s) /\ Kind(s) = "action" /\ Executed(s, "next")

RunPure(s) == At(s, "exec") /\ Kind(s) = "pure" /\ Executed(s, "next")

StepFails(s) ==
    At(s, "exec") /\ ~Reuses(s) /\ Kind(s) \in {"action", "pure"} /\ Executed(s, "fail")

ReachWait(s) == At(s, "exec") /\ ~Reuses(s) /\ Kind(s) = "wait" /\ Executed(s, "wait")

\* An approval step parks the run in three awaits: status, request, its id.
ReachApproval(s) ==
    /\ At(s, "exec") /\ ~Reuses(s) /\ Kind(s) = "approval"
    /\ Update(s, [Copy(s) EXCEPT !.status = "awaiting_approval"])
    /\ Goto(s, [leg[s] EXCEPT !.pc = "park"])
    /\ UNCHANGED <<jobs, elsewhere>>

CreateApproval(s) ==
    /\ At(s, "park")
    /\ approvals' = Append(approvals, [step |-> leg[s].at, verdict |-> "pending"])
    /\ armed' = [armed EXCEPT ![ProcOf[s]] = @ \union {Len(approvals) + 1}]
    /\ Goto(s, [leg[s] EXCEPT !.pc = "stamp", !.approval = Len(approvals) + 1])
    /\ UNCHANGED <<row, cache, jobs, attempts, deciding, reaping, crashes, history>>

StampApproval(s) ==
    /\ At(s, "stamp")
    /\ Update(s, [Reached(Copy(s), leg[s].at) EXCEPT !.waiting = leg[s].approval])
    /\ Goto(s, [leg[s] EXCEPT !.pc = "record", !.outcome = "park"])
    /\ UNCHANGED <<jobs, elsewhere>>

\* The placeholder becomes the result, "success" for a step that only parked.
RecordStep(s) ==
    /\ At(s, "record")
    /\ LET failed == leg[s].outcome = "fail"
           results == [leg[s].results EXCEPT ![Ordinal(s)] =
                          [step |-> leg[s].at, keyed |-> TRUE,
                           status |-> IF failed THEN "failure" ELSE "success"]] IN
       /\ Update(s, [Copy(s) EXCEPT !.results = results])
       /\ recorded' = IF Kind(s) = "action" /\ ~failed
                      THEN recorded \union {Ordinal(s)} ELSE recorded
       /\ Goto(s, [leg[s] EXCEPT
                      !.results = results,
                      !.at = IF leg[s].outcome = "next" THEN @ + 1 ELSE @,
                      !.pc = CASE leg[s].outcome = "next" -> "step"
                               [] leg[s].outcome = "fail" -> "fail"
                               [] leg[s].outcome = "wait" -> "pause"
                               [] leg[s].outcome = "hook" -> "hook"
                               [] leg[s].outcome = "park" -> "return"])
    /\ UNCHANGED <<jobs, attempts, approvalVars, reaping, crashes, granted, resumed>>

FailRun(s) ==
    /\ At(s, "fail")
    /\ Update(s, [Reached(Copy(s), leg[s].at) EXCEPT
                     !.status = "failed", !.results = leg[s].results])
    /\ Done(s)
    /\ UNCHANGED <<jobs, elsewhere>>

\* _scheduleWaitResume: the run is queued again first, its job added second.
PauseRun(s) ==
    /\ At(s, "pause")
    /\ Update(s, [Reached(Copy(s), leg[s].at + 1) EXCEPT
                     !.status = "queued", !.results = leg[s].results])
    /\ Goto(s, [leg[s] EXCEPT !.pc = "enqueue"])
    /\ UNCHANGED <<jobs, elsewhere>>

EnqueueWait(s) ==
    /\ At(s, "enqueue")
    /\ Add(WaitJob(leg[s].at + 1))
    /\ Done(s)
    /\ UNCHANGED <<row, cache, elsewhere>>

\* The job cannot be added: the run fails, and in a worker so does the leg's own job.
EnqueueWaitFails(s) ==
    /\ At(s, "enqueue")
    /\ Update(s, [Copy(s) EXCEPT !.status = "failed"])
    /\ Goto(s, [leg[s] EXCEPT !.pc = IF leg[s].job = NoJob THEN "return" ELSE "throw"])
    /\ UNCHANGED <<jobs, elsewhere>>

\* The worker completes the job, if the leg has one, and BullMQ keeps it.
Return(s) ==
    /\ At(s, "return")
    /\ jobs' = IF leg[s].job = NoJob THEN jobs
               ELSE [jobs EXCEPT ![leg[s].job].state = "kept"]
    /\ Goto(s, Idle)
    /\ UNCHANGED <<row, cache, elsewhere>>

----------------------------------------------------------------------------
(* Approvals and the resume sweep, in the API processes                    *)

\* The sweep holds its advisory lock while it times an approval out.
SweepFree == \A p \in Apis : deciding[p].verdict = "timed_out" => deciding[p].n = 0

\* approvalStore.resolve finds a request pending and drops its own timer, for a person
\* or for the sweep that finds the parked run's approval overdue ...
Decide(p, n, verdict) ==
    /\ deciding[p].n = 0
    /\ approvals[n].verdict = "pending"
    /\ verdict = "timed_out" =>
           row.status = "awaiting_approval" /\ row.waiting = n /\ SweepFree
    /\ verdict = "request_changes" => Len(approvals) < MaxApprovals
    /\ deciding' = [deciding EXCEPT ![p] = [n |-> n, verdict |-> verdict]]
    /\ armed' = [armed EXCEPT ![p] = @ \ {n}]
    /\ UNCHANGED <<row, attempts, cache, jobs, approvals, leg, reaping, crashes, history>>

\* ... and writes its decision over whatever is there by then.
PersistDecision(p) ==
    /\ deciding[p].n # 0
    /\ approvals' = [approvals EXCEPT ![deciding[p].n].verdict = deciding[p].verdict]
    /\ granted' = IF deciding[p].verdict = "approved"
                  THEN granted \union {approvals[deciding[p].n].step} ELSE granted
    /\ deciding' = [deciding EXCEPT ![p] = NoDecision]
    /\ UNCHANGED <<row, attempts, cache, jobs, armed, leg, reaping, crashes, recorded,
                   resumed>>

\* The timer of the process that created the request asks that process's memory, where
\* the request is pending whatever PostgreSQL says.
TimerFires(p, n) ==
    /\ "timed_out" \in Decisions /\ n \in armed[p]
    /\ approvals' = [approvals EXCEPT ![n].verdict = "timed_out"]
    /\ armed' = [armed EXCEPT ![p] = @ \ {n}]
    /\ UNCHANGED <<row, attempts, cache, jobs, deciding, leg, reaping, crashes, history>>

\* approvalStore.get in an API process sees the request decided and drops its timer.
DropTimer(p, n) ==
    /\ n \in armed[p] /\ approvals[n].verdict # "pending"
    /\ armed' = [armed EXCEPT ![p] = @ \ {n}]
    /\ UNCHANGED <<row, attempts, cache, jobs, approvals, deciding, leg, reaping, crashes,
                   history>>

\* No leg is between the writes of parking or resuming the run.  Likely at a sweep
\* every two seconds; nothing guarantees it, and a decision starts a sweep at once.
Settled == \A s \in Slots : leg[s].pc \notin {"record", "resume"}

\* resumeRun takes the approval its process's copy names, or the run's latest.
ApprovalOf(run) == IF run.waiting # 0 THEN run.waiting ELSE Len(approvals)

\* The sweep holds the advisory lock while it lists, checks and calls resumeRun,
\* which lets go of the resumption unawaited: the row still says
\* "awaiting_approval" when the lock is free again.
ResumeSweep(s) ==
    /\ At(s, "idle") /\ ProcOf[s] \in Apis
    /\ row.status = "awaiting_approval" /\ row.waiting # 0
    /\ approvals[row.waiting].verdict # "pending"
    /\ Copy(s).status = "awaiting_approval"
    /\ SweepFree /\ (Unhurried => Settled)
    /\ LET n == ApprovalOf(Copy(s)) IN
       /\ approvals[n].verdict # "pending"
       /\ Goto(s, [Idle EXCEPT !.pc = "resume", !.at = Copy(s).at,
                              !.results = Copy(s).results, !.approval = n,
                              !.verdict = approvals[n].verdict])
       /\ resumed' = resumed \union {n}
       /\ armed' = [armed EXCEPT ![ProcOf[s]] = @ \ {row.waiting, n}]
    /\ UNCHANGED <<row, cache, jobs, attempts, approvals, deciding, reaping, crashes,
                   recorded, granted>>

\* _resumePausedRun throws before it has begun, as it does when the copy is not at an
\* approval step: resumeRun fails the run.
ResumeFails(s) ==
    /\ At(s, "resume")
    /\ Update(s, [Copy(s) EXCEPT !.status = "failed"])
    /\ Goto(s, Idle)
    /\ UNCHANGED <<jobs, elsewhere>>

\* Mutant: work begins before the run is marked running.
ResumeRunMutant(s) ==
    /\ At(s, "resume")
    /\ Goto(s, [leg[s] EXCEPT !.pc = "resumed"])
    /\ UNCHANGED <<row, cache, jobs, elsewhere>>

ResumeRun(s) ==
    /\ At(s, "resume")
    /\ leg[s].at \in Steps /\ Kind(s) = "approval"
    /\ Update(s, [Reached(Copy(s), leg[s].at) EXCEPT !.status = "running"])
    /\ Goto(s, [leg[s] EXCEPT !.pc = "resumed"])
    /\ UNCHANGED <<jobs, elsewhere>>

\* Mutant: an approval that timed out lets the run through.
NextAfterMutant(at, verdict) ==
    CASE verdict \in {"approved", "timed_out"} -> at + 1
      [] verdict = "request_changes" /\ ReviseFrom[at] < at -> ReviseFrom[at]
      [] OTHER -> 0

\* Where the run goes on after its approval, 0 when it does not.
NextAfter(at, verdict) ==
    CASE verdict = "approved" -> at + 1
      [] verdict = "request_changes" /\ ReviseFrom[at] < at -> ReviseFrom[at]
      [] OTHER -> 0

\* Mutant: the decision goes after the parked step's result.
DecidedMutant(results, result) == Append(results, result)

\* Mutant: the results before the approval are lost.
DecidedAfreshMutant(results, result) == <<result>>

\* The decision takes the place of the result the parked step left.
Decided(results, result) ==
    IF results # <<>> /\ Last(results).step = result.step
    THEN [results EXCEPT ![Len(results)] = result]
    ELSE Append(results, result)

\* It carries no key.
RecordDecision(s) ==
    /\ At(s, "resumed")
    /\ LET at == leg[s].at
           next == NextAfter(at, leg[s].verdict)
           result == [step |-> at, keyed |-> FALSE,
                      status |-> IF next = 0 THEN "failure" ELSE "success"]
           results == Decided(leg[s].results, result) IN
       /\ Update(s, [Reached(Copy(s), at) EXCEPT !.results = results])
       /\ Goto(s, [leg[s] EXCEPT !.pc = IF next = 0 THEN "fail" ELSE "step",
                                !.at = IF next = 0 THEN at ELSE next,
                                !.results = results])
    /\ UNCHANGED <<jobs, elsewhere>>

----------------------------------------------------------------------------
(* Crashes, and the reaper of the worker processes                         *)

\* The process's memory and legs are gone; BullMQ finds its jobs stalled.
Crash(p) ==
    /\ p \in Mortal /\ crashes < MaxCrashes
    /\ crashes' = crashes + 1
    /\ LET dead == {s \in Slots : ProcOf[s] = p} IN
       /\ leg' = [s \in Slots |-> IF s \in dead THEN Idle ELSE leg[s]]
       /\ jobs' = [j \in JobId |-> IF \E s \in dead : leg[s].job = j
                                   THEN [jobs[j] EXCEPT !.state = "stalled"] ELSE jobs[j]]
    /\ cache' = [cache EXCEPT ![p] = NoRun]
    /\ reaping' = [w \in Workers |-> IF w = p THEN 0 ELSE reaping[w]]
    /\ deciding' = [q \in Apis |-> IF q = p THEN NoDecision ELSE deciding[q]]
    /\ armed' = [armed EXCEPT ![p] = {}]
    /\ UNCHANGED <<row, attempts, approvals, history>>

\* Mutant: RUN_REAPER_STALE_MS is shorter than a redelivery.
StrandedMutant ==
    /\ row.status = "running"
    /\ \A s \in Slots : At(s, "idle") \/ (SlowSteps /\ At(s, "exec"))

\* updated_at has not moved for RUN_REAPER_STALE_MS.  Fifteen minutes are longer
\* than BullMQ takes to redeliver a stalled job, and than a step takes unless
\* SlowSteps.
Stranded ==
    /\ row.status = "running"
    /\ \A s \in Slots : At(s, "idle") \/ (SlowSteps /\ At(s, "exec"))
    /\ \A j \in JobId : jobs[j].state # "stalled"

\* runWithAdvisoryLock: one reaper at a time, from its claim to its enqueue.
LockFree == \A w \in Workers : reaping[w] = 0

\* Mutant: one attempt too many.
ReapMutant(w) ==
    /\ Stranded /\ attempts <= MaxAttempts
    /\ LockFree
    /\ row' = [row EXCEPT !.status = "queued"]
    /\ attempts' = attempts + 1
    /\ reaping' = [reaping EXCEPT ![w] = attempts + 1]
    /\ UNCHANGED <<cache, jobs, approvalVars, leg, crashes, history>>

\* The claim, then the job.
Reap(w) ==
    /\ Stranded /\ attempts < MaxAttempts
    /\ LockFree
    /\ row' = [row EXCEPT !.status = "queued"]
    /\ attempts' = attempts + 1
    /\ reaping' = [reaping EXCEPT ![w] = attempts + 1]
    /\ UNCHANGED <<cache, jobs, approvalVars, leg, crashes, history>>

\* The queue may answer with an error: the claim stands, with no job.
EnqueueReplay(w) ==
    /\ reaping[w] # 0
    /\ Add(ResumeJob(reaping[w])) \/ UNCHANGED jobs
    /\ reaping' = [reaping EXCEPT ![w] = 0]
    /\ UNCHANGED <<row, attempts, cache, approvalVars, leg, crashes, history>>

\* Mutant: a run whose attempts are used up is left as it is.
GiveUpMutant(w) ==
    /\ Stranded /\ attempts > MaxAttempts
    /\ LockFree
    /\ row' = [row EXCEPT !.status = "failed"]
    /\ UNCHANGED <<attempts, cache, jobs, approvalVars, leg, reaping, crashes, history>>

GiveUp(w) ==
    /\ Stranded /\ attempts >= MaxAttempts
    /\ LockFree
    /\ row' = [row EXCEPT !.status = "failed"]
    /\ UNCHANGED <<attempts, cache, jobs, approvalVars, leg, reaping, crashes, history>>

----------------------------------------------------------------------------
Create(s) == CreateRun(s) \/ EnqueueStart(s) \/ EnqueueStartFails(s)

Execute(s) == \/ \E j \in JobId : Deliver(s, j)
              \/ SkipRun(s) \/ LoadRun(s) \/ StartFails(s) \/ StartRun(s)
              \/ JobFails(s) \/ MarkFailed(s) \/ Return(s)

Step(s) == \/ ReachStep(s) \/ BeginStep(s) \/ DeadlinePasses(s) \/ CompleteRun(s)
           \/ ReuseStep(s) \/ RunAction(s) \/ RunPure(s) \/ StepFails(s)
           \/ ReachWait(s)
           \/ ReachApproval(s) \/ CreateApproval(s) \/ StampApproval(s)
           \/ RecordStep(s) \/ FailRun(s)
           \/ PauseRun(s) \/ EnqueueWait(s) \/ EnqueueWaitFails(s)

Resume(s) == ResumeSweep(s) \/ ResumeFails(s) \/ ResumeRun(s) \/ RecordDecision(s)

Approve == \/ \E p \in Apis, n \in DOMAIN approvals, v \in Decisions : Decide(p, n, v)
           \/ \E p \in Apis : PersistDecision(p)
           \/ \E p \in Processes : \E n \in armed[p] : TimerFires(p, n)
           \/ \E p \in Apis : \E n \in armed[p] : DropTimer(p, n)

Reaper(w) == Reap(w) \/ EnqueueReplay(w) \/ GiveUp(w)

Work == \/ \E s \in Slots : Create(s) \/ Execute(s) \/ Step(s) \/ Resume(s)
        \/ \E j \in JobId : DropStalled(j)
        \/ Approve
        \/ \E w \in Workers : Reaper(w)

Next == Work \/ \E p \in Processes : Crash(p)

Spec == Init /\ [][Next]_vars

\* A live process works on: its slots, its reaper, the resolutions it has begun; some
\* API machine's sweep times out what is overdue.  Nobody need start a run, decide or
\* crash, and a process's own timers need not fire.
Fairness ==
    /\ \A s \in Slots : WF_vars(Execute(s) \/ Step(s) \/ Resume(s))
    /\ \A s \in Slots : WF_vars(EnqueueStart(s) \/ EnqueueStartFails(s))
    /\ \A w \in Workers : WF_vars(Reaper(w))
    /\ WF_vars(\E j \in JobId : DropStalled(j))
    /\ \A p \in Apis : WF_vars(PersistDecision(p))
    /\ WF_vars(\E p \in Apis, n \in DOMAIN approvals : Decide(p, n, "timed_out"))

FairSpec == Spec /\ Fairness
=============================================================================
