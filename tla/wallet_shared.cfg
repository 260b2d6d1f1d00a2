\* Two executors of one step at once; one purchase delivered by both its ways
\* and a second purchase.
SPECIFICATION Spec
CONSTANTS
    e1 = e1  e2 = e2  k1 = k1  k2 = k2
    confirm = confirm  webhook = webhook  topup = topup  s1 = s1  s2 = s2
    NoCap = NoCap
    Executors = {e1, e2}
    CallKeys = {k1}
    CallKeyOf <- MCSharedKey
    Estimates = {2}
    Actuals = {1, 3}
    MaxCalls = 2
    Granters = {confirm, webhook, topup}
    GrantKeys = {s1, s2}
    GrantKeyOf <- MCDeliveries
    PackCredits = 3
    DailyCap = NoCap
    Jobs = {}
INVARIANTS
    OkMeansCharged
    PurchaseCreditedOnce
PROPERTIES
    ChargedOnce
CHECK_DEADLOCK FALSE
