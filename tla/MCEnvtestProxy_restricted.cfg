CONSTANTS
    s1 = s1
    a1 = a1
    a2 = a2
    NoSA = NoSA
    Nil = Nil
    Requests = {r1, r2}
    Shoots <- OneShoot
    ServiceAccounts <- OneAccount
    Scale = 2
    Rates <- ZeroRate
    SentRates <- ZeroRate
    TTLs <- ZeroRate
    Codes <- None
    SentBehaviors <- None
    ErrorBodies <- None
    ConnBodies <- None
    Arrivals <- RestrictedArrivals
    MaxChanges = 3
SYMMETRY RequestSymmetry
SPECIFICATION Spec
INVARIANTS
    ReplyExplained
    RestrictedNeverAdmitted
    NoKubeconfigForGhost
PROPERTY
    KeepsContract
CHECK_DEADLOCK FALSE
