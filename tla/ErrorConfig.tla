---------------------------- MODULE ErrorConfig ----------------------------
(***************************************************************************)
(* The error configuration of the envtest server (type ErrorConfig) and     *)
(* the management handlers that write it.  Every handler takes the write    *)
(* lock once and does nothing but assignments under it, so a management     *)
(* call is one atomic step.  The map of restricted service accounts is the  *)
(* one field whose REFERENCE leaves the lock (the proxy keeps it after      *)
(* RUnlock), so it is modelled as an allocated object: restrictedMaps is    *)
(* the sequence of maps ever allocated, the last one being the field's      *)
(* current value.                                                           *)
(***************************************************************************)
EXTENDS Draws, FiniteSets

CONSTANTS
    Shoots,             \* namespace/name keys of shoots
    ServiceAccounts,    \* namespace/name keys of service accounts
    Rates,              \* the rates that occur
    SentRates,          \* the ones sent to the single-rate endpoints
    TTLs,               \* the short-TTL overrides a client sends
    Codes,              \* the non-zero error codes a client sends
    SentBehaviors,      \* the kubeconfig behaviours a client sends
    ErrorBodies,        \* decoded bodies of POST/PUT /management/errors
    ConnBodies,         \* decoded bodies of POST .../errors/connection
    MaxChanges          \* bound: management calls in a behaviour

HttpErrors == {"unauthorized", "forbidden", "notFound", "serverError",
               "serviceUnavailable", "timeout", "rateLimit"}

ConnErrors == {"refused", "reset", "ioTimeout"}

Behaviors == {"", "expired", "invalid"}

\* The fields handleErrors decodes and overwrites together.
ErrorConfigRequest ==
    [enabled                  : BOOLEAN,
     http                     : [HttpErrors -> Rates],
     adminKubeconfigErrorRate : Rates,
     tokenRequestErrorRate    : Rates,
     invalidKubeconfigRate    : Rates,
     expiredKubeconfigRate    : Rates,
     shortTTLSeconds          : TTLs]

\* All fields but the restricted map.  An absent key of a per-object map
\* reads as the zero value, which no handler ever stores.
Config ==
    [enabled                  : BOOLEAN,
     http                     : [HttpErrors -> Rates],
     adminKubeconfigErrorRate : Rates,
     tokenRequestErrorRate    : Rates,
     invalidKubeconfigRate    : Rates,
     expiredKubeconfigRate    : Rates,
     shortTTLSeconds          : TTLs,
     conn                     : [ConnErrors -> Rates],
     tokenExpiredRate         : Rates,
     failingShoots            : [Shoots -> Codes \cup {0}],
     failingServiceAccounts   : [ServiceAccounts -> Codes \cup {0}],
     shootKubeconfigBehavior  : [Shoots -> Behaviors]]

ASSUME ConfigAssumption ==
    /\ Rates \subseteq Int /\ 0 \in Rates /\ SentRates \subseteq Rates
    /\ TTLs \subseteq Int /\ 0 \in TTLs
    /\ Codes \subseteq Int \ {0}
    /\ ErrorBodies \subseteq ErrorConfigRequest
    /\ ConnBodies \subseteq [ConnErrors -> Rates]
    /\ MaxChanges \in Nat

VARIABLES
    config,             \* Server.errorConfig
    restrictedMaps,     \* the maps restrictedServiceAccounts has pointed to
    changes             \* management calls so far

configVars == <<config, restrictedMaps, changes>>

\* The map the field restrictedServiceAccounts points to now.
CurrentMap == Len(restrictedMaps)

\* NewServer starts from zero values: it ignores the errorInjection section
\* of the configuration file.
NewConfig ==
    [enabled                  |-> FALSE,
     http                     |-> [e \in HttpErrors |-> 0],
     adminKubeconfigErrorRate |-> 0,
     tokenRequestErrorRate    |-> 0,
     invalidKubeconfigRate    |-> 0,
     expiredKubeconfigRate    |-> 0,
     shortTTLSeconds          |-> 0,
     conn                     |-> [e \in ConnErrors |-> 0],
     tokenExpiredRate         |-> 0,
     failingShoots            |-> [s \in Shoots |-> 0],
     failingServiceAccounts   |-> [a \in ServiceAccounts |-> 0],
     shootKubeconfigBehavior  |-> [s \in Shoots |-> ""]]

ConfigInit ==
    /\ config = NewConfig
    /\ restrictedMaps = <<{}>>
    /\ changes = 0

ConfigTypeOK ==
    /\ config \in Config
    /\ restrictedMaps \in Seq(SUBSET ServiceAccounts)
    /\ restrictedMaps # <<>>
    /\ changes \in 0 .. MaxChanges

----------------------------------------------------------------------------
(* Helpers of the handlers.  A call that leaves the configuration as it is  *)
(* is a stuttering step and is not counted.                                 *)

Assign(c) ==
    /\ changes < MaxChanges
    /\ c # config
    /\ config' = c
    /\ changes' = changes + 1
    /\ UNCHANGED restrictedMaps

----------------------------------------------------------------------------
(* The handlers that write.                                                 *)

HandleErrors(req) ==
    Assign([config EXCEPT
              !.enabled                  = req.enabled,
              !.http                     = req.http,
              !.adminKubeconfigErrorRate = req.adminKubeconfigErrorRate,
              !.tokenRequestErrorRate    = req.tokenRequestErrorRate,
              !.invalidKubeconfigRate    = req.invalidKubeconfigRate,
              !.expiredKubeconfigRate    = req.expiredKubeconfigRate,
              !.shortTTLSeconds          = req.shortTTLSeconds])

HandleEnableErrors == Assign([config EXCEPT !.enabled = TRUE])

HandleDisableErrors == Assign([config EXCEPT !.enabled = FALSE])

\* These two endpoints validate the rate; the others do not.
HandleSetInvalidKubeconfig(rate) ==
    /\ rate \in 0 .. Scale
    /\ Assign([config EXCEPT !.invalidKubeconfigRate = rate])

HandleSetExpiredKubeconfig(rate) ==
    /\ rate \in 0 .. Scale
    /\ Assign([config EXCEPT !.expiredKubeconfigRate = rate])

HandleSetShortTTL(seconds) ==
    /\ seconds >= 0
    /\ Assign([config EXCEPT !.shortTTLSeconds = seconds])

HandleSetConnectionErrors(rates) == Assign([config EXCEPT !.conn = rates])

HandleSetTokenExpiredError(rate) ==
    Assign([config EXCEPT !.tokenExpiredRate = rate])

\* .../shoots/{ns}/{name}/fail: error code 0 deletes the key.
HandleShootFail(s, code) ==
    Assign([config EXCEPT !.failingShoots[s] = code])

\* Mutant: any word is stored.
HandleShootBehavior_Unvalidated(s, behavior) ==
    Assign([config EXCEPT !.shootKubeconfigBehavior[s] = behavior])

\* .../kubeconfig-behavior: "" deletes the key, an unknown word is refused.
HandleShootBehavior(s, behavior) ==
    /\ behavior \in Behaviors
    /\ Assign([config EXCEPT !.shootKubeconfigBehavior[s] = behavior])

HandleServiceAccountFail(a, code) ==
    Assign([config EXCEPT !.failingServiceAccounts[a] = code])

HandleClearFailingShoots ==
    Assign([config EXCEPT !.failingShoots = [s \in Shoots |-> 0]])

HandleClearFailingServiceAccounts ==
    Assign([config EXCEPT
              !.failingServiceAccounts = [a \in ServiceAccounts |-> 0]])

HandleClearKubeconfigBehaviors ==
    Assign([config EXCEPT !.shootKubeconfigBehavior = [s \in Shoots |-> ""]])

\* .../serviceaccounts/{ns}/{name}/restricted writes into the current map.
HandleServiceAccountRestricted(a, restricted) ==
    /\ changes < MaxChanges
    /\ restricted # (a \in restrictedMaps[CurrentMap])
    /\ restrictedMaps' =
          [restrictedMaps EXCEPT
             ![CurrentMap] = IF restricted THEN @ \cup {a} ELSE @ \ {a}]
    /\ changes' = changes + 1
    /\ UNCHANGED config

\* DELETE allocates a new map; whoever holds the old one keeps it.
HandleRestrictedServiceAccounts ==
    /\ changes < MaxChanges
    /\ restrictedMaps' = Append(restrictedMaps, {})
    /\ changes' = changes + 1
    /\ UNCHANGED config

Management ==
    \/ \E req \in ErrorBodies : HandleErrors(req)
    \/ HandleEnableErrors
    \/ HandleDisableErrors
    \/ \E rate \in SentRates : HandleSetInvalidKubeconfig(rate)
    \/ \E rate \in SentRates : HandleSetExpiredKubeconfig(rate)
    \/ \E seconds \in TTLs : HandleSetShortTTL(seconds)
    \/ \E rates \in ConnBodies : HandleSetConnectionErrors(rates)
    \/ \E rate \in SentRates : HandleSetTokenExpiredError(rate)
    \/ \E s \in Shoots, code \in Codes \cup {0} : HandleShootFail(s, code)
    \/ \E s \in Shoots, b \in SentBehaviors : HandleShootBehavior(s, b)
    \/ \E a \in ServiceAccounts, code \in Codes \cup {0} :
          HandleServiceAccountFail(a, code)
    \/ HandleClearFailingShoots
    \/ HandleClearFailingServiceAccounts
    \/ HandleClearKubeconfigBehaviors
    \/ \E a \in ServiceAccounts, restricted \in BOOLEAN :
          HandleServiceAccountRestricted(a, restricted)
    \/ HandleRestrictedServiceAccounts
============================================================================
