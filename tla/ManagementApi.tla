--------------------------- MODULE ManagementApi ---------------------------
(***************************************************************************)
(* The management handlers of the stand-alone API (ManagementHandler): what *)
(* they make of the injector, of the shoots, and of currentConfig, the      *)
(* object GET /errors and GET /status answer from.  Most handlers end in    *)
(* one call of the injector or of the store and are one step.  POST /errors *)
(* and /errors/enable and /disable touch currentConfig as well, which no    *)
(* mutex guards: each of their accesses is a step, and calls overlap.       *)
(***************************************************************************)
EXTENDS Injector

CONSTANTS
    Managers,           \* goroutines serving management calls
    Started,            \* the configurations NewInjector may be given
    Puts,               \* the bodies of PUT /errors
    Posts,              \* the bodies of POST /errors
    ConnectionBodies,   \* the bodies of POST /errors/connection
    SentRates,          \* rates that are sent to the endpoints for one rate
    SentBehaviors,      \* behaviours that are sent
    MaxCalls            \* bound on the management calls of a run

ShootWords == {"", "expired", "invalid"}

ServiceAccountWords == ShootWords \cup {"token_expired_error"}

ASSUME ManagementAssumption ==
    /\ Started \subseteq ErrorInjectionConfig
    /\ Puts \subseteq ErrorInjectionConfig
    /\ Posts \subseteq SimpleErrorConfig
    /\ ConnectionBodies \subseteq [Named(ConnOrder) -> Rates]
    /\ SentRates \subseteq Rates
    /\ SentBehaviors \subseteq Behaviors
    /\ MaxCalls \in Nat

VARIABLES
    injector,   \* the settings of h.injector
    shoots,     \* the shoots of h.store
    objects,    \* the SimpleErrorConfig objects allocated so far
    current,    \* the one h.currentConfig points to
    mpc,        \* per manager: where its call is
    object,     \* per manager: the object it has allocated or loaded
    flag,       \* per manager: the value it is about to set enabled to
    calls,      \* management calls so far
    alone,      \* history: the calls no other call has overlapped
    flagTold,   \* history: the flag was last set by a call that told
                \* currentConfig too, and that no other call overlapped
    ratesTold   \* history: so were the simple rates, or they never were

statusVars == <<objects, current, mpc, object, flag, alone>>
toldVars == <<flagTold, ratesTold>>
managementVars == <<injector, shoots, calls, toldVars, statusVars>>

\* currentConfig before the first POST /errors.
NewSimpleErrorConfig ==
    [enabled    |-> FALSE,
     errorRates |-> [k \in Keys |-> Absent],
     errorCodes |-> [k \in Keys |-> Absent]]

ManagementInit ==
    /\ \E cfg \in Started : injector = NewInjector(cfg)
    /\ shoots \in SUBSET Shoots
    /\ objects = <<NewSimpleErrorConfig>>
    /\ current = 1
    /\ mpc = [m \in Managers |-> "idle"]
    /\ object = [m \in Managers |-> 1]
    /\ flag = [m \in Managers |-> FALSE]
    /\ calls = 0
    /\ alone = {}
    /\ flagTold = FALSE
    /\ ratesTold = TRUE

ManagementTypeOK ==
    /\ injector \in Settings
    /\ shoots \subseteq Shoots
    /\ objects \in Seq(SimpleErrorConfig)
    /\ current \in 1 .. Len(objects)
    /\ mpc \in [Managers -> {"idle", "posted", "read", "set", "loaded"}]
    /\ object \in [Managers -> 1 .. Len(objects)]
    /\ flag \in [Managers -> BOOLEAN]
    /\ calls \in 0 .. MaxCalls
    /\ alone \subseteq Managers
    /\ flagTold \in BOOLEAN
    /\ ratesTold \in BOOLEAN

Count ==
    /\ calls < MaxCalls
    /\ calls' = calls + 1

MoveManager(m, there) == mpc' = [mpc EXCEPT ![m] = there]

AllIdle == \A m \in Managers : mpc[m] = "idle"

\* A call of several steps begins; a call that is under way is overlapped.
Begin(m, there) ==
    /\ mpc[m] = "idle"
    /\ Count
    /\ MoveManager(m, there)
    /\ alone' = IF AllIdle THEN {m} ELSE {}

End(m) ==
    /\ MoveManager(m, "idle")
    /\ alone' = alone \ {m}

----------------------------------------------------------------------------
(* Handlers that are one call of the injector.  A call that leaves the       *)
(* settings as they are is a stuttering step and is not counted.             *)

Configure(settings) ==
    /\ Count
    /\ settings # injector
    /\ injector' = settings
    /\ UNCHANGED <<shoots, statusVars>>

Assign(config) ==
    /\ Configure([injector EXCEPT !.config = config])
    /\ UNCHANGED toldVars

\* PUT /errors sets the flag and does not tell currentConfig.
HandleUpdateErrorConfig(cfg) ==
    /\ Count
    /\ injector' = UpdateConfig(injector, cfg)
    /\ flagTold' = FALSE
    /\ alone' = {}
    /\ UNCHANGED <<shoots, objects, current, mpc, object, flag, ratesTold>>

HandleSetShootFailure(s, code) ==
    Assign([injector.config EXCEPT !.failingShoots[s] = MarkOf(code)])

HandleClearFailingShoots ==
    Assign([injector.config EXCEPT !.failingShoots = [s \in Shoots |-> Absent]])

\* These two handlers validate the rate; the others do not.
HandleSetInvalidKubeconfig(rate) ==
    /\ rate \in 0 .. Scale
    /\ Assign([injector.config EXCEPT !.invalidKubeconfigRate = rate])

HandleSetExpiredKubeconfig(rate) ==
    /\ rate \in 0 .. Scale
    /\ Assign([injector.config EXCEPT !.expiredKubeconfigRate = rate])

HandleSetShortTTL(seconds) ==
    /\ seconds >= 0
    /\ Assign([injector.config EXCEPT !.shortTTLSeconds = seconds])

\* "" deletes the key; an unknown word is refused, though PUT takes it.
HandleSetShootKubeconfigBehavior(s, word) ==
    /\ word \in ShootWords
    /\ Assign([injector.config EXCEPT !.shootKubeconfigBehavior[s] = word])

HandleClearKubeconfigBehaviors ==
    Assign([injector.config EXCEPT
              !.shootKubeconfigBehavior = [s \in Shoots |-> ""]])

HandleSetServiceAccountFailure(a, code) ==
    Assign([injector.config EXCEPT !.failingServiceAccounts[a] = MarkOf(code)])

HandleClearFailingServiceAccounts ==
    Assign([injector.config EXCEPT
              !.failingServiceAccounts = [a \in ServiceAccounts |-> Absent]])

HandleSetServiceAccountKubeconfigBehavior(a, word) ==
    /\ word \in ServiceAccountWords
    /\ Assign([injector.config EXCEPT
                 !.serviceAccountKubeconfigBehavior[a] = word])

HandleClearServiceAccountKubeconfigBehaviors ==
    Assign([injector.config EXCEPT
              !.serviceAccountKubeconfigBehavior =
                 [a \in ServiceAccounts |-> ""]])

HandleSetConnectionErrors(rates) ==
    Assign([injector.config EXCEPT !.connectionRate = rates])

HandleSetTokenExpiredError(rate) ==
    Assign([injector.config EXCEPT !.tokenExpiredErrorRate = rate])

HandleSetServiceAccountRestricted(a, restricted) ==
    Assign([injector.config EXCEPT
              !.restrictedServiceAccounts =
                 IF restricted THEN @ \cup {a} ELSE @ \ {a}])

HandleClearRestrictedServiceAccounts ==
    Assign([injector.config EXCEPT !.restrictedServiceAccounts = {}])

(* Handlers that are one call of the store. *)

Store(set) ==
    /\ Count
    /\ set # shoots
    /\ shoots' = set
    /\ UNCHANGED <<injector, toldVars, statusVars>>

HandleAddShoot(s) == Store(shoots \cup {s})

HandleDeleteShoot(s) == Store(shoots \ {s})

----------------------------------------------------------------------------
(* POST /errors: publish the body as currentConfig, read its flag (which a   *)
(* concurrent enable may have changed), then update the injector.            *)

PublishBody(m, body) ==
    /\ Begin(m, "posted")
    /\ objects' = Append(objects, body)
    /\ current' = Len(objects')
    /\ object' = [object EXCEPT ![m] = Len(objects')]
    /\ UNCHANGED <<injector, shoots, flag, toldVars>>

ReadFlag(m) ==
    /\ mpc[m] = "posted"
    /\ flag' = [flag EXCEPT ![m] = objects[object[m]].enabled]
    /\ MoveManager(m, "read")
    /\ UNCHANGED <<injector, shoots, objects, current, object, calls, alone,
                   toldVars>>

ApplyBody(m) ==
    LET body == objects[object[m]]
    IN  /\ mpc[m] = "read"
        /\ \E rates \in Normalized(body.errorRates),
              codes \in Normalized(body.errorCodes) :
              injector' = UpdateSimpleConfig(injector, flag[m], rates, codes)
        /\ flagTold' = (m \in alone)
        /\ ratesTold' = (m \in alone)
        /\ End(m)
        /\ UNCHANGED <<shoots, objects, current, object, flag, calls>>

(* POST /errors/enable and /errors/disable: tell the injector, then follow   *)
(* the pointer and set the flag of whatever object it leads to.              *)

HandleSetEnabled(m, enabled) ==
    /\ Begin(m, "set")
    /\ injector' = SetEnabled(injector, enabled)
    /\ flag' = [flag EXCEPT ![m] = enabled]
    /\ UNCHANGED <<shoots, objects, current, object, toldVars>>

LoadCurrentConfig(m) ==
    /\ mpc[m] = "set"
    /\ object' = [object EXCEPT ![m] = current]
    /\ MoveManager(m, "loaded")
    /\ UNCHANGED <<injector, shoots, objects, current, flag, calls, alone,
                   toldVars>>

StoreFlag(m) ==
    /\ mpc[m] = "loaded"
    /\ objects' = [objects EXCEPT ![object[m]].enabled = flag[m]]
    /\ flagTold' = (m \in alone)
    /\ End(m)
    /\ UNCHANGED <<injector, shoots, current, object, flag, calls, ratesTold>>

----------------------------------------------------------------------------

OneCall ==
    \/ \E cfg \in Puts : HandleUpdateErrorConfig(cfg)
    \/ \E s \in Shoots, code \in Codes \cup {0} : HandleSetShootFailure(s, code)
    \/ HandleClearFailingShoots
    \/ \E rate \in SentRates : HandleSetInvalidKubeconfig(rate)
    \/ \E rate \in SentRates : HandleSetExpiredKubeconfig(rate)
    \/ \E seconds \in TTLs : HandleSetShortTTL(seconds)
    \/ \E s \in Shoots, word \in SentBehaviors :
          HandleSetShootKubeconfigBehavior(s, word)
    \/ HandleClearKubeconfigBehaviors
    \/ \E a \in ServiceAccounts, code \in Codes \cup {0} :
          HandleSetServiceAccountFailure(a, code)
    \/ HandleClearFailingServiceAccounts
    \/ \E a \in ServiceAccounts, word \in SentBehaviors :
          HandleSetServiceAccountKubeconfigBehavior(a, word)
    \/ HandleClearServiceAccountKubeconfigBehaviors
    \/ \E rates \in ConnectionBodies : HandleSetConnectionErrors(rates)
    \/ \E rate \in SentRates : HandleSetTokenExpiredError(rate)
    \/ \E a \in ServiceAccounts, restricted \in BOOLEAN :
          HandleSetServiceAccountRestricted(a, restricted)
    \/ HandleClearRestrictedServiceAccounts
    \/ \E s \in Shoots : HandleAddShoot(s) \/ HandleDeleteShoot(s)

StatusCall(m) ==
    \/ \E body \in Posts : PublishBody(m, body)
    \/ ReadFlag(m)
    \/ ApplyBody(m)
    \/ \E enabled \in BOOLEAN : HandleSetEnabled(m, enabled)
    \/ LoadCurrentConfig(m)
    \/ StoreFlag(m)

Management == OneCall \/ \E m \in Managers : StatusCall(m)

----------------------------------------------------------------------------

\* GET /errors and GET /status encode what currentConfig points to; they do
\* not ask the injector.
Shown == objects[current]

\* A simple rate drawn at under the settings s is one that the shown body
\* gives for the operation, in one of its spellings, and so is the code of its
\* errors (500 where the body gives none).  An operation that is drawn at its
\* legacy rate, which is shown nowhere, is one for which the body gives no
\* rate or, in some spelling, one that is not above zero.
RatesShown(s, shown) ==
    \A op \in Operations :
        LET rates == Sent(shown.errorRates, op)
            codes == Sent(shown.errorCodes, op)
        IN  IF HasSimpleRate(s, op)
            THEN /\ EffectiveRate(s, op) \in rates
                 /\ SimpleCode(s, op) \in IF codes = {} THEN {500} ELSE codes
            ELSE rates = {} \/ \E rate \in rates : rate <= 0

\* A POST has published its body and not yet told the injector.
Posting == \E m \in Managers : mpc[m] \in {"posted", "read"}

\* What GET /errors and GET /status show and the code keeps true.  The flag is
\* the injector's while no call is under way, from the first POST /errors,
\* enable or disable on, if the last of them overlapped no other and no PUT
\* /errors followed it: a start with injection enabled and a PUT are never
\* told to currentConfig.  Each simple rate in force, with its code, is one
\* that is shown, while no POST is under way and unless the last POST was
\* overlapped.  Of the legacy rates (PUT, or the start) nothing is shown; all
\* that holds is that an operation drawn at one is not shown with rates above
\* zero only.
StatusTellsTruth ==
    /\ AllIdle /\ flagTold =>
          injector.config.enabled = Shown.enabled
    /\ ~ Posting /\ ratesTold => RatesShown(injector, Shown)

\* What a call nothing has overlapped may rely on.
AloneInv(m) ==
    m \in alone =>
        /\ mpc[m] # "idle" /\ \A n \in Managers \ {m} : mpc[n] = "idle"
        /\ mpc[m] \in {"posted", "read", "loaded"} => object[m] = current
        /\ mpc[m] = "read" => flag[m] = objects[current].enabled
        /\ mpc[m] \in {"set", "loaded"} => injector.config.enabled = flag[m]

StatusInv == StatusTellsTruth /\ \A m \in Managers : AloneInv(m)

----------------------------------------------------------------------------
(* What a comment says and the code does not do. *)

\* "handleGetErrorConfig returns the current error injection configuration"
\* (management.go): once no call is under way, GET /errors shows whether errors
\* are injected, and, while they are, each rate above zero at which an operation
\* fails is one that is shown for it.
ShowsCurrentConfig ==
    AllIdle =>
        /\ injector.config.enabled = Shown.enabled
        /\ injector.config.enabled =>
              \A op \in Operations :
                  EffectiveRate(injector, op) > 0 =>
                      EffectiveRate(injector, op) \in Sent(Shown.errorRates, op)
=============================================================================
