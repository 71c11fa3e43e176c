CONSTANTS
    s1 = s1
    a1 = a1
    a2 = a2
    NoSA = NoSA
    Nil = Nil
    Requests = {r1}
    Shoots <- OneShoot
    ServiceAccounts <- OneAccount
    Scale = 2
    Rates <- ThreeRates
    SentRates <- ZeroRate
    TTLs <- ZeroRate
    Codes <- None
    SentBehaviors <- None
    ErrorBodies <- HandlerBodies
    ConnBodies <- None
    Arrivals <- HandlerArrivals
    MaxChanges = 2
SPECIFICATION Spec
INVARIANT SelectedTypeIsConfigured
CHECK_DEADLOCK FALSE
