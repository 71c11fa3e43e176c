CONSTANTS
    s1 = s1
    a1 = a1
    a2 = a2
    NoSA = NoSA
    Nil = Nil
    Requests = {r1}
    Shoots <- OneShoot
    ServiceAccounts <- OneAccount
    Scale = 2
    Rates <- WithNegativeRates
    SentRates <- ZeroRate
    TTLs <- ZeroRate
    Codes <- None
    SentBehaviors <- None
    ErrorBodies <- InjectionBodies
    ConnBodies <- InjectionConns
    Arrivals <- InjectionArrivals
    MaxChanges = 4
SPECIFICATION FairSpec
INVARIANTS
    ReplyExplained
    DisabledIsQuiet
    CertainErrorsStrike
PROPERTIES
    KeepsContract
    EveryRequestAnswered
CHECK_DEADLOCK FALSE
