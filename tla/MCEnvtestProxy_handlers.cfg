CONSTANTS
    s1 = s1
    a1 = a1
    a2 = a2
    NoSA = NoSA
    Nil = Nil
    Requests = {r1}
    Shoots <- OneShoot
    ServiceAccounts <- OneAccount
    Scale = 2
    Rates <- ThreeRates
    SentRates <- ThreeRates
    TTLs <- HandlerTTLs
    Codes <- HandlerCodes
    SentBehaviors <- HandlerBehaviors
    ErrorBodies <- HandlerBodies
    ConnBodies <- None
    Arrivals <- HandlerArrivals
    MaxChanges = 3
SPECIFICATION Spec
INVARIANTS
    TypeOK
    ReplyExplained
    FailingObjectNeverServed
    DisabledIsQuiet
    CertainErrorsStrike
CHECK_DEADLOCK FALSE
