\* Two steps, each with an executor of its own that calls twice; one purchase;
\* the expiration job.
SPECIFICATION Spec
CONSTANTS
    e1 = e1  e2 = e2  k1 = k1  k2 = k2
    confirm = confirm  webhook = webhook  topup = topup  s1 = s1  s2 = s2
    NoCap = NoCap
    Executors = {e1, e2}
    CallKeys = {k1, k2}
    CallKeyOf <- MCOwnKeys
    Estimates = {2}
    Actuals = {1, 3}
    MaxCalls = 2
    Granters = {confirm}
    GrantKeys = {s1}
    GrantKeyOf <- MCOneDelivery
    PackCredits = 4
    DailyCap = 5
    Jobs = {j1}
INVARIANTS
    TypeOK
    Conservation
    CallIsFunded
PROPERTIES
    ImplementsAccount
\* Executors stop after MaxCalls calls.
CHECK_DEADLOCK FALSE
