\* A stale wallet is spent down and topped up between the job's scan and its drain.
SPECIFICATION Spec
CONSTANTS
    e1 = e1  e2 = e2  k1 = k1  k2 = k2
    confirm = confirm  webhook = webhook  topup = topup  s1 = s1  s2 = s2
    NoCap = NoCap
    Executors = {e1, e2}
    CallKeys = {k1, k2}
    CallKeyOf <- MCOwnKeys
    Estimates = {1, 2}
    Actuals = {1}
    MaxCalls = 1
    Granters = {confirm, topup}
    GrantKeys = {s1, s2}
    GrantKeyOf <- MCTwoPurchases
    PackCredits = 2
    DailyCap = NoCap
    Jobs = {j1}
PROPERTIES
    FreshCreditsSurvive
CHECK_DEADLOCK FALSE
