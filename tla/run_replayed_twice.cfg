\* A worker process that crashes during a replay.
SPECIFICATION Spec
CONSTANTS
    w1 = w1  w2 = w2  a1 = a1  a2 = a2  s1 = s1  s2 = s2  s3 = s3  s4 = s4
    Template <- MCActions
    ReviseFrom <- MCNone3
    Workers = {w1}
    Apis = {a1}
    Slots = {s1, s2, s3}
    ProcOf <- MCOneWorker
    MaxAttempts = 2
    MaxTries = 2
    MaxStalls = 1
    Decisions = {}
    Mortal = {w1}
    MaxCrashes = 2
    MaxApprovals = 1
    SlowSteps = FALSE
    Unhurried = TRUE
PROPERTIES
    RecordedNotRefired
\* A run that has ended is left alone.
CHECK_DEADLOCK FALSE
