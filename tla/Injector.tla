------------------------------ MODULE Injector ------------------------------
(***************************************************************************)
(* The error injector of the stand-alone API (type Injector): its settings, *)
(* what its methods answer from them, and what the writing ones make of     *)
(* them.  A method is an operator on the settings because it runs under the *)
(* injector's mutex from beginning to end: InjectorLock shows that it might *)
(* as well run in one instant.  Latencies delay an answer and decide        *)
(* nothing; they are left to InjectorLock.                                  *)
(***************************************************************************)
EXTENDS Draws, NetHttp

CONSTANTS
    Shoots,             \* namespace/name keys of shoots
    ServiceAccounts,    \* namespace/name keys of service accounts
    Rates,              \* the rates that occur
    TTLs,               \* the short lifetimes that occur
    Codes,              \* the error codes that occur
    Behaviors,          \* the kubeconfig behaviours that occur
    Keys,               \* the spellings of operations that occur
    Absent              \* a map has no such key

Operations == {"ListShoots", "GetShoot", "AdminKubeconfig", "TokenRequest"}

\* The error types in the order in which one draw is compared with their sums.
TypeOrder == <<"authFailure", "forbidden", "notFound", "serverError",
               "serviceUnavailable", "timeout", "rateLimit">>

TypeCodes == <<401, 403, 404, 500, 503, 504, 429>>

ConnOrder == <<"connectionRefused", "connectionReset", "ioTimeout">>

Named(order) == {order[i] : i \in DOMAIN order}

Marks == Codes \cup {Absent}

\* What NewInjector and PUT /errors are given.  A behaviour that is absent
\* reads as "", a restriction that is absent or false as false.
ErrorInjectionConfig ==
    [enabled                          : BOOLEAN,
     operationRate                    : [Operations -> Rates],
     typeRate                         : [Named(TypeOrder) -> Rates],
     connectionRate                   : [Named(ConnOrder) -> Rates],
     tokenExpiredErrorRate            : Rates,
     invalidKubeconfigRate            : Rates,
     expiredKubeconfigRate            : Rates,
     shortTTLSeconds                  : TTLs,
     failingShoots                    : [Shoots -> Marks],
     failingServiceAccounts           : [ServiceAccounts -> Marks],
     shootKubeconfigBehavior          : [Shoots -> Behaviors],
     serviceAccountKubeconfigBehavior : [ServiceAccounts -> Behaviors],
     restrictedServiceAccounts        : SUBSET ServiceAccounts]

\* What POST /errors is given, without the latencies.
SimpleErrorConfig ==
    [enabled    : BOOLEAN,
     errorRates : [Keys -> Rates \cup {Absent}],
     errorCodes : [Keys -> Marks]]

\* The injector: enabled and the configuration, and the simple maps.
Settings ==
    [config     : ErrorInjectionConfig,
     errorRates : [Operations -> Rates \cup {Absent}],
     errorCodes : [Operations -> Marks]]

ASSUME InjectorAssumption ==
    /\ Rates \subseteq Int /\ 0 \in Rates
    /\ TTLs \subseteq Int
    /\ Codes \subseteq Int
    /\ "" \in Behaviors
    /\ Absent \notin Int

----------------------------------------------------------------------------
(* What the reading methods answer, from one look at the settings. *)

\* The running sums a draw is compared with.
ConnectionSums(rate) ==
    LET refused == rate["connectionRefused"]
        reset   == refused + rate["connectionReset"]
    IN  <<refused, reset, reset + rate["ioTimeout"]>>

TypeSums(rate) ==
    LET authFailure        == rate["authFailure"]
        forbidden          == authFailure + rate["forbidden"]
        notFound           == forbidden + rate["notFound"]
        serverError        == notFound + rate["serverError"]
        serviceUnavailable == serverError + rate["serviceUnavailable"]
        timeout            == serviceUnavailable + rate["timeout"]
    IN  <<authFailure, forbidden, notFound, serverError, serviceUnavailable,
          timeout, timeout + rate["rateLimit"]>>

FailsShoot(c, s) == c.enabled /\ c.failingShoots[s] # Absent

FailsServiceAccount(c, a) == c.enabled /\ c.failingServiceAccounts[a] # Absent

ShootBehavior(c, s) == IF c.enabled THEN c.shootKubeconfigBehavior[s] ELSE ""

ServiceAccountBehavior(c, a) ==
    IF c.enabled THEN c.serviceAccountKubeconfigBehavior[a] ELSE ""

Restricts(c, a) == c.enabled /\ a \in c.restrictedServiceAccounts

\* The rates drawn on their own: invalid, expired, token expired.
MayInject(c, rate) == c.enabled /\ MayHit(rate)

MayNotInject(c, rate) == c.enabled => MayMiss(rate)

MayBreakConnection(c) ==
    /\ c.enabled
    /\ \E d \in Draw, i \in DOMAIN ConnOrder :
          FallsIn(ConnectionSums(c.connectionRate), d, i)

MayKeepConnection(c) ==
    c.enabled => \E d \in Draw : FallsPast(ConnectionSums(c.connectionRate), d)

\* A simple rate above zero replaces the legacy rate of the operation.
HasSimpleRate(s, op) == s.errorRates[op] # Absent /\ s.errorRates[op] > 0

\* The rate at which an operation fails.
EffectiveRate(s, op) ==
    IF HasSimpleRate(s, op) THEN s.errorRates[op] ELSE s.config.operationRate[op]

\* Mutant: the default of selectErrorType is the type compared last.
Selects_RateLimitLast(c, d, code) ==
    \/ \E i \in DOMAIN TypeOrder :
          FallsIn(TypeSums(c.typeRate), d, i) /\ code = TypeCodes[i]
    \/ FallsPast(TypeSums(c.typeRate), d) /\ code = 429

Selects(c, d, code) ==
    \/ \E i \in DOMAIN TypeOrder :
          FallsIn(TypeSums(c.typeRate), d, i) /\ code = TypeCodes[i]
    \/ FallsPast(TypeSums(c.typeRate), d) /\ code = 500

SimpleCode(s, op) == IF s.errorCodes[op] = Absent THEN 500 ELSE s.errorCodes[op]

\* Mutant: the simple rates hit although injection is disabled.
MayFail_Unguarded(s, op, code) ==
    IF HasSimpleRate(s, op)
    THEN MayHit(s.errorRates[op]) /\ code = SimpleCode(s, op)
    ELSE /\ s.config.enabled
         /\ MayHit(s.config.operationRate[op])
         /\ \E d \in Draw : Selects(s.config, d, code)

\* ShouldInjectError answers yes with this code.
MayFail(s, op, code) ==
    /\ s.config.enabled
    /\ IF HasSimpleRate(s, op)
       THEN MayHit(s.errorRates[op]) /\ code = SimpleCode(s, op)
       ELSE /\ MayHit(s.config.operationRate[op])
            /\ \E d \in Draw : Selects(s.config, d, code)

\* Mutant: the legacy rate is drawn although there is a simple one.
MaySucceed_ByLegacyRate(s, op) ==
    s.config.enabled => MayMiss(s.config.operationRate[op])

MaySucceed(s, op) ==
    s.config.enabled => MayMiss(EffectiveRate(s, op))

----------------------------------------------------------------------------
(* What the writing methods make of the settings. *)

NoSimple == [op \in Operations |-> Absent]

NoMaps(cfg) ==
    [cfg EXCEPT
       !.failingShoots                    = [s \in Shoots |-> Absent],
       !.failingServiceAccounts           = [a \in ServiceAccounts |-> Absent],
       !.shootKubeconfigBehavior          = [s \in Shoots |-> ""],
       !.serviceAccountKubeconfigBehavior = [a \in ServiceAccounts |-> ""],
       !.restrictedServiceAccounts        = {}]

\* NewInjector makes its maps empty and does not copy those of its argument.
NewInjector(cfg) ==
    [config |-> NoMaps(cfg), errorRates |-> NoSimple, errorCodes |-> NoSimple]

\* UpdateConfig keeps the simple maps.
UpdateConfig(s, cfg) == [s EXCEPT !.config = cfg]

\* Keys are lowered; the spellings with and without underscore meet.
NormalizeOperation(key) ==
    CASE key \in {"adminkubeconfig", "admin_kubeconfig", "AdminKubeconfig"} ->
            "AdminKubeconfig"
      [] key \in {"listshoots", "list_shoots", "ListShoots"} -> "ListShoots"
      [] key \in {"getshoot", "get_shoot", "GetShoot"} -> "GetShoot"
      [] key \in {"tokenrequest", "token_request", "TokenRequest"} ->
            "TokenRequest"
      [] OTHER -> key

Sent(map, op) ==
    {map[k] : k \in {key \in Keys : /\ NormalizeOperation(key) = op
                                    /\ map[key] # Absent}}

\* Copying a map in Go's iteration order: of several spellings of one
\* operation any may come last.
Normalized(map) ==
    {n \in [Operations -> {map[k] : k \in Keys} \cup {Absent}] :
        \A op \in Operations :
            IF Sent(map, op) = {} THEN n[op] = Absent
                                  ELSE n[op] \in Sent(map, op)}

\* Mutant: the flag of the body is forgotten.
UpdateSimpleConfig_KeepsEnabled(s, enabled, rates, codes) ==
    [s EXCEPT !.errorRates = rates, !.errorCodes = codes]

\* UpdateSimpleConfig keeps everything else.
UpdateSimpleConfig(s, enabled, rates, codes) ==
    [s EXCEPT !.config.enabled = enabled,
              !.errorRates     = rates,
              !.errorCodes     = codes]

SetEnabled(s, enabled) == [s EXCEPT !.config.enabled = enabled]

\* Mutant: code 0 is a mark like any other.
MarkOf_KeepsZero(code) == code

\* SetFailingShoot, SetFailingServiceAccount: code 0 deletes the key.
MarkOf(code) == IF code = 0 THEN Absent ELSE code
=============================================================================
