\* A pack bought, its event delivered twice at once and confirmed by the buyer; a
\* low wallet charged by the jobs of two machines across two half hours; two failures.
SPECIFICATION MCFairSpec
CONSTANTS
    s1 = s1  d1 = d1  d2 = d2  b1 = b1
    c1 = c1  c2 = c2  m1 = m1  m2 = m2
    Sessions = {s1}
    Deliveries = {d1, d2}
    Buyers = {b1}
    Cycles = {c1, c2}
    Procs = {m1, m2}
    CycleProc <- MCCycleProc
    PackCredits = 2
    TopupCredits = 1
    Trigger = 1
    Cooldown = 2
    MaxTime = 2
    MaxFailures = 2
INVARIANTS
    PaymentsTypeOK
    CreditedOnce
    AckedIsCredited
    FundedIsCredited
    FundingIsOnItsWay
    ChargesAreSpaced
PROPERTIES
    PaidIsCredited
    CreditedIsFunded
CHECK_DEADLOCK FALSE
