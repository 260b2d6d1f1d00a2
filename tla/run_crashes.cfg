\* Two worker processes and the API process that crash, three times in all; every replay the reaper
\* allows, and its giving up.
SPECIFICATION FairSpec
CONSTANTS
    w1 = w1  w2 = w2  a1 = a1  a2 = a2  s1 = s1  s2 = s2  s3 = s3  s4 = s4
    Template <- MCActions
    ReviseFrom <- MCNone3
    Workers = {w1, w2}
    Apis = {a1}
    Slots = {s1, s2, s3}
    ProcOf <- MCTwoWorkers
    MaxAttempts = 2
    MaxTries = 2
    MaxStalls = 1
    Decisions = {}
    Mortal = {w1, w2, a1}
    MaxCrashes = 3
    MaxApprovals = 1
    SlowSteps = FALSE
    Unhurried = TRUE
INVARIANTS
    TypeOK
    SoleExecutor
    QueuedIsScheduled
PROPERTIES
    FirstReplayReuses
    TerminalIsFinal
    ImplementsLifecycle
    QueuedRunEnds
\* A run that has ended is left alone.
CHECK_DEADLOCK FALSE
