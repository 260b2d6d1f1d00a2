\* A sweep while a resumption is still building its memory; nothing crashes.
SPECIFICATION Spec
CONSTANTS
    w1 = w1  w2 = w2  a1 = a1  a2 = a2  s1 = s1  s2 = s2  s3 = s3  s4 = s4
    Template <- MCApproval
    ReviseFrom <- MCNone3
    Workers = {w1}
    Apis = {a1, a2}
    Slots = {s1, s2, s3, s4}
    ProcOf <- MCTwoApis
    MaxAttempts = 2
    MaxTries = 2
    MaxStalls = 1
    Decisions = {"approved"}
    Mortal = {}
    MaxCrashes = 0
    MaxApprovals = 1
    SlowSteps = FALSE
    Unhurried = FALSE
PROPERTIES
    ResumedOnce
\* A run that has ended is left alone.
CHECK_DEADLOCK FALSE
