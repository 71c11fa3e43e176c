SPECIFICATION Spec
CONSTANTS
    s1 = s1
    a1 = a1
    NoSA = NoSA
    Nil = Nil
    Absent = Absent
    Scale = 2
    Shoots <- OneShoot
    ServiceAccounts <- OneAccount
    Rates <- AllRates
    TTLs = {0, 60}
    Codes = {404, 42}
    Behaviors = {"", "expired", "invalid", "token_expired_error", "broken"}
    Keys = {"getshoot", "get_shoot", "tokenrequest"}
    Managers = {m1, m2}
    Started <- PlainOff
    Puts <- OneFull
    Posts <- TwoPosts
    ConnectionBodies <- Connections
    SentRates = {1, 2}
    SentBehaviors = {"expired", "invalid", "token_expired_error"}
    MaxCalls = 2
    Requests = {r1}
    KubeconfigTTL = 86400
    Arrivals <- EveryKind
SYMMETRY ManagerSymmetry
INVARIANTS
    ShowsCurrentConfig
CHECK_DEADLOCK FALSE
