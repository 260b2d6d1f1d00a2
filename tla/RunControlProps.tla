-------------------------- MODULE RunControlProps --------------------------
(***************************************************************************)
(* What must hold of a run while it is canceled, retried and woken.        *)
(***************************************************************************)
EXTENDS RunControl, RunExecutionProps

Under(c) == call[c].pc \notin {"new", "over"}

RetriedOnce ==
    \A c, d \in Calls : call[c].kind = "retry" /\ call[d].kind = "retry" => c = d

Unposted == \A c \in Calls : call[c].kind # "post"

\* No post's update has found the run under way: the token was taken, and the run woken,
\* between the post's look and its update.
PostsInTime ==
    \A c \in Calls : call[c].kind = "post" => call[c].found.status # "running"

\* At most one leg drives the run, however retries, posts and deliveries fall.  Left out
\* are two retries beside a post: the second may add the first job again while the run is
\* under way behind the wait; and a post too late, which puts back a run under way.
SoleDriver == PostsInTime /\ (RetriedOnce \/ Unposted) => SoleExecutor

\* A retry comes alone: to a run that nobody has woken, and whose failure nobody has
\* overwritten when the retry's update reads it.
RetriedAlone ==
    \/ \A c \in Calls : call[c].kind # "retry"
    \/ /\ RetriedOnce /\ Unposted
       /\ \A c \in Calls :
            call[c].kind = "retry" => call[c].found.status \in {"none", "failed"}

\* A retry replays, and a post goes on, without carrying out again a step whose effect
\* is recorded, beside cancels whose updates have read the run before others wrote it.
\* What is left out does carry out a recorded step again:
\*  - the retry of a run that a cancel, accepted while the run was under way, writes
\*    back as it read it between the retry's look and its update: the results are lost;
\*  - a post whose update finds the run under way, as another post of the token has woken
\*    it, and writes that back once it has ended (resumeRoutes.ts, "one update, so a
\*    concurrent second POST loses"): the reaper takes it for stranded;
\*  - a second retry, and the retry of a run that was woken: a worker that remembers the
\*    run from the wait replays it from there;
\*  - a second webhook wait: a worker that remembers the first takes the second one's
\*    job from there.  Theorems and runs are of templates that wait for one.
\* The process that created the run serves no call here: its copy would wipe the record.
NotRefiredByCalls ==
    [][RetriedAlone /\ PostsInTime => \A s \in Slots : NotRefired(s)]_controlVars

\* Canceled before a worker has read it: no copy of it in a worker, no leg past its
\* first look, no call on its way.
CanceledInTime ==
    /\ row.status = "canceled"
    /\ \A w \in Workers : cache[w] = NoRun
    /\ \A s \in Slots : leg[s].pc \in {"idle", "load", "return"}
    /\ \A c \in Calls : ~Under(c)

\* A run canceled in time stays canceled: its job, which may still be in the queue, does
\* not start it, and no retry or post is accepted for it.
CanceledStays ==
    [][CanceledInTime =>
          /\ row'.status = "canceled"
          /\ \A w \in Workers : cache'[w] = NoRun
          /\ \A s \in Slots : leg'[s].pc \in {"idle", "load", "return"}
          /\ \A c \in Calls : (call[c].kind # "cancel" => ~Under(c))']_controlVars

\* The run is queued and no job is left of the post that woke it: the post took the token
\* and could not add the job; or a second post put the row back
\* to queued when the job of the first had been used; or a worker that remembers the
\* run from before a retry took the job and skipped it.
WokenInVain ==
    /\ row.status = "queued" /\ ~Scheduled
    /\ \E c \in Calls :
        /\ call[c].kind = "post" /\ call[c].pc = "over" /\ row.at = call[c].at
        /\ \/ jobs[HookJob(call[c].at)].state = "absent"
           \/ \E d \in Calls \ {c} : call[d].kind = "post" /\ call[d].pc # "new"
           \/ \E w \in Workers : cache[w].status \notin {"none", "queued"}

\* A retry marked the row queued when its job had been skipped or removed.
RetriedInVain ==
    /\ \E c \in Calls : call[c].kind = "retry" /\ call[c].pc = "over"
    /\ jobs[StartJob].state \in {"absent", "kept"}

\* A queued run has somebody to run it: a job, a call on its way, or a token that
\* somebody outside may post.  What is left out are the ways a call can lose it, and
\* what follows a post too late.
QueuedIsAttended ==
    PostsInTime /\ row.status = "queued" =>
        \/ Scheduled \/ Forgotten
        \/ row.token # 0
        \/ \E c \in Calls : Under(c)
        \/ WokenInVain \/ RetriedInVain

\* A post that has taken the token in time brings the run to an end, unless the run is
\* woken in vain or a cancel's "cancelling" meets a worker that has no copy of it.
WokenRunEnds ==
    (\E c \in Calls : call[c].pc = "wake" /\ call[c].found.status # "running") ~>
        row.status \in Terminal \union {"cancelling"} \/ WokenInVain
=============================================================================
