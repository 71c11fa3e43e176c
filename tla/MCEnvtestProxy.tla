--------------------------- MODULE MCEnvtestProxy ---------------------------
(***************************************************************************)
(* Instances of EnvtestProxy for TLC.  Each instance sends the requests and *)
(* management calls one question needs; the bounds are in the README.       *)
(***************************************************************************)
EXTENDS EnvtestProxy, TLC

CONSTANTS s1, a1, a2

OneShoot == {s1}
OneAccount == {a1}
TwoAccounts == {a1, a2}

Ask(kind, bearer, seconds) ==
    [kind |-> kind, shoot |-> s1, sa |-> a1, bearer |-> bearer,
     seconds |-> seconds]

NoRates == [e \in HttpErrors |-> 0]

Body(enabled, http, operation, ttl) ==
    [enabled                  |-> enabled,
     http                     |-> http,
     adminKubeconfigErrorRate |-> operation,
     tokenRequestErrorRate    |-> operation,
     invalidKubeconfigRate    |-> 0,
     expiredKubeconfigRate    |-> 0,
     shortTTLSeconds          |-> ttl]

\* Rates out of 2: never, sometimes, always.
ThreeRates == {0, 1, 2}
WithNegativeRates == {-1, 0, 1, 2}

\* Bodies for the injection instance: two types at once, and a negative rate
\* (nothing rejects it) in front of a positive one.
InjectionBodies ==
    {Body(TRUE, [NoRates EXCEPT !["unauthorized"] = 1, !["timeout"] = 1], 0, 0),
     Body(FALSE, [NoRates EXCEPT !["forbidden"] = -1, !["rateLimit"] = 2], 0, 0)}

InjectionConns ==
    {[refused |-> 1, reset |-> 0, ioTimeout |-> 1],
     [refused |-> 0, reset |-> 2, ioTimeout |-> 0]}

InjectionArrivals == {Ask("other", NoSA, Nil)}

\* Requests of a restricted account, for restricted paths and another one,
\* that race on the Shoot object with requests of nobody.
RestrictedArrivals ==
    {Ask("get", a1, Nil), Ask("adminkubeconfig", a1, Nil),
     Ask("get", NoSA, Nil), Ask("other", a1, Nil),
     Ask("create", NoSA, Nil), Ask("delete", NoSA, Nil)}

\* The instance of the credential handlers: an operation that may fail together
\* with one type rate, which leaves the selection a remainder, and one that
\* must.
HandlerBodies ==
    {Body(TRUE, [NoRates EXCEPT !["serverError"] = 1], 1, 0),
     Body(TRUE, NoRates, 2, 0)}

HandlerArrivals ==
    {Ask("adminkubeconfig", NoSA, 0), Ask("token", NoSA, -5),
     Ask("sakubeconfig", NoSA, Nil)}

HandlerTTLs == {0, 60}

\* An ordinary code, one WriteHeader panics on and an informational one.
HandlerCodes == {404, 42, 100}

HandlerBehaviors == {"", "expired", "invalid", "broken"}

RequestSymmetry == Permutations(Requests)

None == {}
ZeroRate == {0}
=============================================================================
