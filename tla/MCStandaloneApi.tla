-------------------------- MODULE MCStandaloneApi --------------------------
(***************************************************************************)
(* An instance of StandaloneApi for TLC; the bounds are in the README.      *)
(***************************************************************************)
EXTENDS StandaloneApi, TLC

CONSTANTS s1, a1

OneShoot == {s1}
OneAccount == {a1}

\* Rates out of 2: never, sometimes, always.
AllRates == {0, 1, 2}

Ask(kind, bearer, seconds) ==
    [kind |-> kind, shoot |-> s1, sa |-> a1, bearer |-> bearer,
     seconds |-> seconds]

EveryKind ==
    {Ask("list", a1, Nil), Ask("get", a1, Nil), Ask("projects", NoSA, Nil),
     Ask("project", a1, Nil), Ask("namespaces", NoSA, Nil),
     Ask("adminkubeconfig", a1, 0), Ask("token", NoSA, 600),
     Ask("sakubeconfig", NoSA, -5)}

Plain(enabled) ==
    [enabled                          |-> enabled,
     operationRate                    |-> [op \in Operations |-> 0],
     typeRate                         |-> [t \in Named(TypeOrder) |-> 0],
     connectionRate                   |-> [t \in Named(ConnOrder) |-> 0],
     tokenExpiredErrorRate            |-> 0,
     invalidKubeconfigRate            |-> 0,
     expiredKubeconfigRate            |-> 0,
     shortTTLSeconds                  |-> 0,
     failingShoots                    |-> [s \in Shoots |-> Absent],
     failingServiceAccounts           |-> [a \in ServiceAccounts |-> Absent],
     shootKubeconfigBehavior          |-> [s \in Shoots |-> ""],
     serviceAccountKubeconfigBehavior |-> [a \in ServiceAccounts |-> ""],
     restrictedServiceAccounts        |-> {}]

BothPlain == {Plain(TRUE), Plain(FALSE)}

PlainOff == {Plain(FALSE)}

\* Every operation draws an error, one type takes half of the draws; the
\* objects carry words and the account is restricted.
Full ==
    [Plain(TRUE) EXCEPT
       !.operationRate = [op \in Operations |-> 1],
       !.typeRate["notFound"] = 1,
       !.shootKubeconfigBehavior = [s \in Shoots |-> "expired"],
       !.serviceAccountKubeconfigBehavior =
          [a \in ServiceAccounts |-> "broken"],
       !.restrictedServiceAccounts = {a1}]

OneFull == {Full}

\* Two spellings of one operation that disagree, and one of another.
Spelled ==
    [getshoot |-> 2, get_shoot |-> 1, tokenrequest |-> Absent]

TwoPosts ==
    {[enabled    |-> TRUE, errorRates |-> Spelled,
      errorCodes |-> [k \in Keys |-> IF k = "get_shoot" THEN 42 ELSE Absent]],
     [enabled    |-> FALSE,
      errorRates |-> [k \in Keys |-> IF k = "tokenrequest" THEN 2 ELSE Absent],
      errorCodes |-> [k \in Keys |-> Absent]]}

\* One connection in two breaks, or, in two ways, every one.
Connections ==
    {[t \in Named(ConnOrder) |-> IF t = "ioTimeout" THEN 1 ELSE 0],
     [t \in Named(ConnOrder) |-> IF t = "connectionReset" THEN 0 ELSE 1]}

ManagerSymmetry == Permutations(Managers)
=============================================================================
