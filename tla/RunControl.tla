----------------------------- MODULE RunControl -----------------------------
(***************************************************************************)
(* Operators and webhooks act on a run that RunExecution drives: they      *)
(* cancel it, retry it once it has failed, or post the token of a wait in  *)
(* webhook mode.  A call is served by one API process, which decides from  *)
(* its own copy of the run, then works on the queue and on the row in      *)
(* separate awaits.  runStore.update takes two: it reads the run, from     *)
(* PostgreSQL when its process has no copy, and writes it back whole,      *)
(* patched, over whatever others have written in between.                  *)
(***************************************************************************)
EXTENDS RunExecution

CONSTANTS
    Calls,      \* calls that arrive, each once
    CallProc    \* the API process that serves a call

ASSUME ControlAssumption == CallProc \in [Calls -> Apis]

VARIABLE call   \* how far each call is, and what it has read

controlVars == <<vars, call>>

\* found: the run as the call's update has read it.
Call == [kind : {"none", "cancel", "retry", "post"},
         pc : {"new", "remove", "clear", "add", "find", "write", "wake", "over"},
         inFlight : BOOLEAN, at : Nat, found : Run]
NewCall == [kind |-> "none", pc |-> "new", inFlight |-> FALSE, at |-> 1, found |-> NoRun]

ControlTypeOK == TypeOK /\ call \in [Calls -> Call]

ControlInit == Init /\ call = [c \in Calls |-> NewCall]

Seen(c) == Current(CallProc[c])
Moves(c, pc) == call' = [call EXCEPT ![c].pc = pc]

\* The call is accepted and begins.
Begins(c, begun) ==
    /\ call[c].pc = "new"
    /\ call' = [call EXCEPT ![c] = begun]
    /\ UNCHANGED vars

untouched == <<attempts, approvalVars, leg, reaping, crashes, history>>

\* runStore.update reads the run ...
Finds(c) ==
    /\ call[c].pc = "find"
    /\ call' = [call EXCEPT ![c].pc = "write", ![c].found = Seen(c)]
    /\ UNCHANGED vars

\* ... and writes what it has read, patched: row and results replace the ones there.
WritesBack(c, kind, patched, pc) ==
    /\ call[c].kind = kind /\ call[c].pc = "write"
    /\ UpdateIn(CallProc[c], patched)
    /\ Moves(c, pc)
    /\ UNCHANGED <<jobs, untouched>>

----------------------------------------------------------------------------
(* A wait in webhook mode, in a leg                                        *)

\* The step mints a token.
ReachHook(s) == At(s, "exec") /\ ~Reuses(s) /\ Kind(s) = "hook" /\ Executed(s, "hook")

\* Mutant: the token is passed for an approval's id.
PauseForWebhookMutant(s) ==
    /\ At(s, "hook")
    /\ Update(s, [Reached(Copy(s), leg[s].at + 1) EXCEPT
                     !.status = "queued", !.results = leg[s].results,
                     !.waiting = Ordinal(s)])
    /\ Done(s)
    /\ UNCHANGED <<jobs, elsewhere>>

\* _pauseForWebhookResume: queued, with a token and no job.
PauseForWebhook(s) ==
    /\ At(s, "hook")
    /\ Update(s, [Reached(Copy(s), leg[s].at + 1) EXCEPT
                     !.status = "queued", !.results = leg[s].results,
                     !.token = Ordinal(s)])
    /\ Done(s)
    /\ UNCHANGED <<jobs, elsewhere>>

Hook(s) == ReachHook(s) \/ PauseForWebhook(s)

\* Mutant: the job that wakes a run takes the id of its first job.
HookJobMutant(i) == [kind |-> "start", n |-> 1]

HookJob(i) == [kind |-> "hook", n |-> i]

----------------------------------------------------------------------------
(* The first job of the run                                                *)

\* job.remove: a job a worker holds the lock of is not removed.  The lock of a job
\* whose worker has died may have run out, or not.
Removable == jobs[StartJob].state \in {"ready", "stalled", "kept", "dropped"}

\* Mutant: the job's tries are not forgotten with it.
RemoveJobMutant == Removable /\ jobs' = [jobs EXCEPT ![StartJob].state = "absent"]

RemoveJob ==
    /\ Removable
    /\ jobs' = [jobs EXCEPT ![StartJob] = [state |-> "absent", tries |-> 0, stalls |-> 0]]

----------------------------------------------------------------------------
(* DELETE /api/runs/:id/cancel                                             *)

CancelReads(c) ==
    /\ Seen(c).status \in {"queued", "running"}
    /\ Begins(c, [NewCall EXCEPT !.kind = "cancel", !.pc = "remove",
                                 !.inFlight = Seen(c).status = "running"])

\* An error of the queue is ignored.
CancelRemoves(c) ==
    /\ call[c].pc = "remove"
    /\ RemoveJob \/ UNCHANGED jobs
    /\ Moves(c, "find")
    /\ UNCHANGED <<row, cache, untouched>>

\* What status it writes was settled when it was accepted.
CancelWrites(c) ==
    WritesBack(c, "cancel",
               [call[c].found EXCEPT !.status = IF call[c].inFlight THEN "cancelling"
                                                ELSE "canceled"],
               "over")

----------------------------------------------------------------------------
(* POST /api/runs/:id/retry                                                *)

RetryReads(c) ==
    /\ Seen(c).status = "failed"
    /\ Begins(c, [NewCall EXCEPT !.kind = "retry", !.pc = "clear"])

\* Without the old job out of the way the new one would not be added.
RetryClears(c) ==
    /\ call[c].pc = "clear"
    /\ RemoveJob \/ (jobs[StartJob].state = "absent" /\ UNCHANGED jobs)
    /\ Moves(c, "add")
    /\ UNCHANGED <<row, cache, untouched>>

RetryAdds(c) ==
    /\ call[c].pc = "add"
    /\ Add(StartJob)
    /\ Moves(c, "find")
    /\ UNCHANGED <<row, cache, untouched>>

\* The job is there before the row says queued.
RetryMarks(c) ==
    WritesBack(c, "retry", [call[c].found EXCEPT !.status = "queued"], "over")

\* The old job is locked, or the queue answers with an error.
RetryFails(c) ==
    /\ call[c].pc \in {"clear", "add"}
    /\ Moves(c, "over")
    /\ UNCHANGED vars

----------------------------------------------------------------------------
(* POST /api/runs/resume/:token                                            *)

\* getByResumeToken: a copy in memory that carries the token, else the row that does,
\* read through memory again.
Bears(c, token) ==
    \/ cache[CallProc[c]].token = token
    \/ row.token = token /\ Seen(c).token = token

PostReads(c) ==
    /\ \E token \in {row.token, cache[CallProc[c]].token} \ {0} : Bears(c, token)
    /\ Begins(c, [NewCall EXCEPT !.kind = "post", !.pc = "find", !.at = Seen(c).at])

\* runtimeState goes back as it was read, with the token cleared.
PostConsumes(c) ==
    WritesBack(c, "post", Reached(call[c].found, call[c].at), "wake")

PostWakes(c) ==
    /\ call[c].pc = "wake"
    /\ Add(HookJob(call[c].at))
    /\ Moves(c, "over")
    /\ UNCHANGED <<row, cache, untouched>>

\* The job cannot be added, and the token is gone.
PostFails(c) ==
    /\ call[c].pc = "wake"
    /\ Moves(c, "over")
    /\ UNCHANGED vars

----------------------------------------------------------------------------
Cancel(c) == CancelReads(c) \/ CancelRemoves(c) \/ CancelWrites(c)
Retry(c) == RetryReads(c) \/ RetryClears(c) \/ RetryAdds(c) \/ RetryMarks(c) \/ RetryFails(c)
Post(c) == PostReads(c) \/ PostConsumes(c) \/ PostWakes(c) \/ PostFails(c)

\* A call dies with the process that serves it.
ControlCrash(p) ==
    /\ Crash(p)
    /\ call' = [c \in Calls |-> IF CallProc[c] = p /\ call[c].pc # "new"
                                THEN [call[c] EXCEPT !.pc = "over"] ELSE call[c]]

ControlNext ==
    \/ (Work \/ \E s \in Slots : Hook(s)) /\ UNCHANGED call
    \/ \E p \in Processes : ControlCrash(p)
    \/ \E c \in Calls : Cancel(c) \/ Retry(c) \/ Post(c) \/ Finds(c)

ControlSpec == ControlInit /\ [][ControlNext]_controlVars

\* A call that has begun goes on; nobody need make one.
Served(c) ==
    call[c].pc \notin {"new", "over"} /\ (Cancel(c) \/ Retry(c) \/ Post(c) \/ Finds(c))

ControlFairness ==
    /\ \A s \in Slots : WF_controlVars((Execute(s) \/ Step(s) \/ Hook(s)) /\ UNCHANGED call)
    /\ \A c \in Calls : WF_controlVars(Served(c))

FairControlSpec == ControlSpec /\ ControlFairness
=============================================================================
