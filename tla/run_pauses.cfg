\* A wait, then an approval that may send the run back; nothing crashes.
SPECIFICATION FairSpec
CONSTANTS
    w1 = w1  w2 = w2  a1 = a1  a2 = a2  s1 = s1  s2 = s2  s3 = s3  s4 = s4
    Template <- MCPauses
    ReviseFrom <- MCRevise4
    Workers = {w1}
    Apis = {a1, a2}
    Slots = {s1, s2, s3, s4}
    ProcOf <- MCTwoApis
    MaxAttempts = 2
    MaxTries = 1
    MaxStalls = 1
    Decisions = {"approved", "rejected", "request_changes", "timed_out"}
    Mortal = {}
    MaxCrashes = 0
    MaxApprovals = 2
    SlowSteps = FALSE
    Unhurried = TRUE
INVARIANTS
    ResultsComplete
PROPERTIES
    RecordedNotRefired
    GatedByApproval
    ResumedOnce
    ImplementsLifecycle
    QueuedRunEnds
\* A run that has ended is left alone.
CHECK_DEADLOCK FALSE
