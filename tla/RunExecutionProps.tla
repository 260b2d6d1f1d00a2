-------------------------- MODULE RunExecutionProps --------------------------
(***************************************************************************)
(* What must hold of a run's execution.                                    *)
(***************************************************************************)
EXTENDS RunExecution

Driving(s) ==
    leg[s].pc \notin {"idle", "enqueue_start", "load", "return", "throw", "mark"}

\* At most one leg drives the run at any time, in whatever process, through
\* redeliveries, replays and resumptions.
SoleExecutor == \A s, t \in Slots : Driving(s) /\ Driving(t) => s = t

\* The leg does not carry out a step whose effect is already recorded.
NotRefired(s) == RunAction(s) => Ordinal(s) \notin recorded

\* A step whose effect is in a step_results row does not take effect again:
\* replays reuse it (strandedRunReaper.ts, "already completed side-effecting steps
\* are reused, not re-fired").
RecordedNotRefired ==
    [][\A s \in Slots : NotRefired(s)]_vars

\* The first replay reuses every recorded step, wherever the crash fell.
FirstReplayReuses == [][attempts <= 1 => \A s \in Slots : NotRefired(s)]_vars

\* A run that has ended does not change: no late leg, replay or sweep writes over
\* its outcome.
TerminalIsFinal == [][row.status \in Terminal => row' = row]_vars

\* A job for the run is in the queue or being worked on, or somebody is about to
\* add one or to mark the run failed.
Scheduled ==
    \/ \E j \in JobId : jobs[j].state \in {"ready", "active", "stalled"}
    \/ \E s \in Slots : leg[s].pc \in {"enqueue_start", "enqueue", "mark"}
    \/ \E w \in Workers : reaping[w] # 0

\* The last job that was to run it from the top.
LatestJob == IF attempts = 0 THEN StartJob ELSE ResumeJob(attempts)

\* What a crash can leave behind, and no sweep looks for: a queued run whose job was
\* never added, since the process that was to add it died (the API that created the run,
\* or the reaper that claimed a replay) or the queue answered the reaper with an error; or
\* whose job BullMQ has given up on.
Forgotten ==
    /\ row.status = "queued" /\ ~Scheduled
    /\ \/ (crashes > 0 \/ attempts > 0) /\ jobs[LatestJob].state = "absent"
       \/ jobs[LatestJob].state = "dropped"

\* A queued run has somebody to run it while its worker pauses, retries, skips or
\* crashes; the gaps are those of Forgotten.
QueuedIsScheduled == row.status = "queued" => Scheduled \/ Forgotten

\* A completed run's results tell its whole story: from the first step to the last,
\* each followed by the next or, after changes were requested, by the step they
\* were requested for, and none unfinished or failed.
ResultsComplete ==
    row.status = "completed" =>
        LET r == row.results IN
        /\ r # <<>> /\ r[1].step = 1 /\ r[Len(r)].step = Len(Template)
        /\ \A o \in DOMAIN r : r[o].status = "success"
        /\ \A o \in 1..(Len(r) - 1) :
              r[o + 1].step \in {r[o].step + 1, ReviseFrom[r[o].step]}

\* An action behind an approval step takes effect only once that step has been
\* approved.
GatedByApproval ==
    [][\A s \in Slots : RunAction(s) =>
           \A i \in 1..(leg[s].at - 1) : Template[i] = "approval" => i \in granted]_vars

\* A decision resumes the run once (app.ts, "The sweep is advisory-locked +
\* status-guarded, so this can't double-resume").
ResumedOnce ==
    [][\A s \in Slots : ResumeSweep(s) =>
           ApprovalOf(Copy(s)) \notin resumed]_vars

\* A run that has been queued ends, completed or failed, whatever crashes, timeouts
\* and failing steps it meets, unless it is forgotten.
QueuedRunEnds == row.status = "queued" ~> row.status \in Terminal \/ Forgotten

\* A decision is awaited from the moment the run is parked until its request, once the
\* row names it, is no longer pending.
Awaited ==
    /\ row.status = "awaiting_approval"
    /\ row.waiting # 0 => approvals[row.waiting].verdict = "pending"

Lifecycle == INSTANCE RunLifecycle WITH
    MaxReplays <- MaxAttempts, status <- row.status, awaited <- Awaited,
    replays <- attempts

\* The run goes through its lifecycle as its readers know it: nothing resumes it while a
\* decision is awaited, ends it while it is parked or queued behind one, or starts it
\* again once it is over (runs.status in PostgreSQL, whoever writes it).
ImplementsLifecycle == Lifecycle!Spec
=============================================================================
