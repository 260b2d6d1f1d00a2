\* One executor whose step is retried: nothing here is concurrent.
SPECIFICATION Spec
CONSTANTS
    e1 = e1  e2 = e2  k1 = k1  k2 = k2
    confirm = confirm  webhook = webhook  topup = topup  s1 = s1  s2 = s2
    NoCap = NoCap
    Executors = {e1}
    CallKeys = {k1}
    CallKeyOf <- MCOneKey
    Estimates = {2}
    Actuals = {1}
    MaxCalls = 2
    Granters = {confirm}
    GrantKeys = {s1}
    GrantKeyOf <- MCOneDelivery
    PackCredits = 4
    DailyCap = NoCap
    Jobs = {}
INVARIANTS
    ErrorReturnsCredits
CHECK_DEADLOCK FALSE
