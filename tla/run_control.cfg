\* Two calls, each to cancel, retry or post, while two workers drive a run that waits for
\* a webhook.  The process of one of the calls may crash; no worker does: a crash between
\* a worker's pause and its return gives a run two legs, which RunExecution's hazards name.
SPECIFICATION FairControlSpec
CONSTANTS
    w1 = w1  w2 = w2  a1 = a1  a2 = a2  a3 = a3  s1 = s1  s2 = s2  s3 = s3
    c1 = c1  c2 = c2
    Template <- MCTemplate
    ReviseFrom <- MCNone
    Workers = {w1, w2}
    Apis = {a1, a2, a3}
    Slots = {s1, s2, s3}
    ProcOf <- MCSlots
    MaxAttempts = 1
    MaxTries = 1
    MaxStalls = 1
    Decisions = {}
    Mortal = {a3}
    MaxCrashes = 1
    MaxApprovals = 0
    SlowSteps = FALSE
    Unhurried = TRUE
    Calls = {c1, c2}
    CallProc <- MCCallProc
INVARIANTS
    ControlTypeOK
    SoleDriver
    QueuedIsAttended
PROPERTIES
    NotRefiredByCalls
    CanceledStays
    WokenRunEnds
\* A run that has ended is left alone.
CHECK_DEADLOCK FALSE
