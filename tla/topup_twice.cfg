\* The jobs of two machines, no failure, and less than half an hour in all: the
\* clock passes from one bucket of keys into the next.
SPECIFICATION MCSpec
CONSTANTS
    s1 = s1  d1 = d1  d2 = d2  b1 = b1
    c1 = c1  c2 = c2  m1 = m1  m2 = m2
    Sessions = {s1}
    Deliveries = {d1}
    Buyers = {b1}
    Cycles = {c1, c2}
    Procs = {m1, m2}
    CycleProc <- MCCycleProc
    PackCredits = 2
    TopupCredits = 1
    Trigger = 1
    Cooldown = 2
    MaxTime = 2
    MaxFailures = 0
PROPERTIES
    OneChargeAwaited
CHECK_DEADLOCK FALSE
