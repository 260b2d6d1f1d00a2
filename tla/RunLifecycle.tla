---------------------------- MODULE RunLifecycle ----------------------------
(***************************************************************************)
(* What the dashboard and the public API are told of a run: its status,    *)
(* and whether a person's decision is still awaited.  The processes, jobs, *)
(* copies and sweeps behind it are those of RunExecution.                  *)
(***************************************************************************)
EXTENDS Naturals

CONSTANT MaxReplays   \* replays of a stranded run: RUN_REAPER_MAX_ATTEMPTS

VARIABLES
    status,    \* runs.status
    awaited,   \* a decision is awaited before the run may go on
    replays    \* runs.resume_attempts

vars == <<status, awaited, replays>>

Init == status = "none" /\ awaited = FALSE /\ replays = 0

Moves(from, to) ==
    /\ status = from /\ ~awaited
    /\ status' = to
    /\ UNCHANGED <<awaited, replays>>

Submit == Moves("none", "queued")
Start == Moves("queued", "running")
\* Its job was used up or could not be added.
Refuse == Moves("queued", "failed")

\* A wait gives the worker's slot back.
Pause == Moves("running", "queued")

Replay ==
    /\ status = "running" /\ replays < MaxReplays
    /\ status' = "queued" /\ replays' = replays + 1
    /\ UNCHANGED awaited

Park ==
    /\ status = "running"
    /\ status' = "awaiting_approval" /\ awaited' = TRUE
    /\ UNCHANGED replays

\* A person decides, or the request times out.
Decide ==
    /\ awaited
    /\ awaited' = FALSE
    /\ UNCHANGED <<status, replays>>

Resume == Moves("awaiting_approval", "running")
ResumeFails == Moves("awaiting_approval", "failed")
Complete == Moves("running", "completed")
Fail == Moves("running", "failed")

Next == \/ Submit \/ Start \/ Refuse \/ Pause \/ Replay \/ Park \/ Decide
        \/ Resume \/ ResumeFails \/ Complete \/ Fail

Spec == Init /\ [][Next]_vars
=============================================================================
