-------------------------- MODULE ErrorConfigProofs --------------------------
(***************************************************************************)
(* Facts about the error configuration that every specification built on it *)
(* needs: management calls keep it well typed, and they never write a map   *)
(* of restricted accounts that is no longer the current one.                *)
(***************************************************************************)
EXTENDS ErrorConfig, TLAPS

\* A management call that only assigns keeps the types.
LEMMA AssignTyping ==
    ASSUME ConfigTypeOK, NEW c \in Config, Assign(c)
    PROVE  ConfigTypeOK'
BY ConfigAssumption DEF ConfigTypeOK, Assign

\* The configuration a server starts with has its type.
LEMMA NewConfigTyping == NewConfig \in Config
BY ConfigAssumption DEF NewConfig, Config, Behaviors

\* So do the initial states.
LEMMA ConfigInitTyping == ConfigInit => ConfigTypeOK
BY NewConfigTyping, ConfigAssumption DEF ConfigInit, ConfigTypeOK

\* Each kind of update yields a configuration.
LEMMA RatesUpdate ==
    ASSUME config \in Config, NEW req \in ErrorConfigRequest
    PROVE  [config EXCEPT
              !.enabled                  = req.enabled,
              !.http                     = req.http,
              !.adminKubeconfigErrorRate = req.adminKubeconfigErrorRate,
              !.tokenRequestErrorRate    = req.tokenRequestErrorRate,
              !.invalidKubeconfigRate    = req.invalidKubeconfigRate,
              !.expiredKubeconfigRate    = req.expiredKubeconfigRate,
              !.shortTTLSeconds          = req.shortTTLSeconds] \in Config
BY DEF Config, ErrorConfigRequest

\* Setting one field keeps the type.
LEMMA SingleUpdates ==
    ASSUME config \in Config
    PROVE  /\ \A b \in BOOLEAN : [config EXCEPT !.enabled = b] \in Config
           /\ \A rate \in Rates :
                 /\ [config EXCEPT !.invalidKubeconfigRate = rate] \in Config
                 /\ [config EXCEPT !.expiredKubeconfigRate = rate] \in Config
                 /\ [config EXCEPT !.tokenExpiredRate = rate] \in Config
           /\ \A seconds \in TTLs :
                 [config EXCEPT !.shortTTLSeconds = seconds] \in Config
           /\ \A rates \in [ConnErrors -> Rates] :
                 [config EXCEPT !.conn = rates] \in Config
<1>1. \A b \in BOOLEAN : [config EXCEPT !.enabled = b] \in Config
  BY DEF Config
<1>2. \A rate \in Rates :
         /\ [config EXCEPT !.invalidKubeconfigRate = rate] \in Config
         /\ [config EXCEPT !.expiredKubeconfigRate = rate] \in Config
         /\ [config EXCEPT !.tokenExpiredRate = rate] \in Config
  BY DEF Config
<1>3. \A seconds \in TTLs :
         [config EXCEPT !.shortTTLSeconds = seconds] \in Config
  BY DEF Config
<1>4. \A rates \in [ConnErrors -> Rates] :
         [config EXCEPT !.conn = rates] \in Config
  BY DEF Config
<1>5. QED BY <1>1, <1>2, <1>3, <1>4

\* Setting or clearing a per-object map keeps the type.
LEMMA PerObjectUpdates ==
    ASSUME config \in Config
    PROVE  /\ \A s \in Shoots, code \in Codes \cup {0} :
                 [config EXCEPT !.failingShoots[s] = code] \in Config
           /\ \A s \in Shoots, b \in Behaviors :
                 [config EXCEPT !.shootKubeconfigBehavior[s] = b] \in Config
           /\ \A a \in ServiceAccounts, code \in Codes \cup {0} :
                 [config EXCEPT !.failingServiceAccounts[a] = code] \in Config
           /\ [config EXCEPT !.failingShoots = [s \in Shoots |-> 0]] \in Config
           /\ [config EXCEPT !.failingServiceAccounts =
                 [a \in ServiceAccounts |-> 0]] \in Config
           /\ [config EXCEPT !.shootKubeconfigBehavior =
                 [s \in Shoots |-> ""]] \in Config
<1>1. \A s \in Shoots, code \in Codes \cup {0} :
         [config EXCEPT !.failingShoots[s] = code] \in Config
  BY DEF Config
<1>2. \A s \in Shoots, b \in Behaviors :
         [config EXCEPT !.shootKubeconfigBehavior[s] = b] \in Config
  BY DEF Config
<1>3. \A a \in ServiceAccounts, code \in Codes \cup {0} :
         [config EXCEPT !.failingServiceAccounts[a] = code] \in Config
  BY DEF Config
<1>4. /\ [config EXCEPT !.failingShoots = [s \in Shoots |-> 0]] \in Config
      /\ [config EXCEPT !.failingServiceAccounts =
            [a \in ServiceAccounts |-> 0]] \in Config
  BY DEF Config
<1>5. [config EXCEPT !.shootKubeconfigBehavior = [s \in Shoots |-> ""]]
         \in Config
  BY DEF Config, Behaviors
<1>6. QED BY <1>1, <1>2, <1>3, <1>4, <1>5

\* What a management call may do to the maps of restricted accounts: write
\* the current one or allocate a new one.
MapsEvolve ==
    /\ CurrentMap \in Nat \ {0}
    /\ CurrentMap' \in Nat
    /\ CurrentMap <= CurrentMap'
    /\ \A i \in 1 .. CurrentMap :
          i # CurrentMap' => restrictedMaps'[i] = restrictedMaps[i]

\* Restricting an account writes into the present map only.
LEMMA RestrictTyping ==
    ASSUME ConfigTypeOK, NEW a \in ServiceAccounts, NEW restricted \in BOOLEAN,
           HandleServiceAccountRestricted(a, restricted)
    PROVE  ConfigTypeOK' /\ MapsEvolve
<1>1. CurrentMap \in Nat \ {0} /\ CurrentMap' = CurrentMap
  BY DEF ConfigTypeOK, CurrentMap, HandleServiceAccountRestricted
<1>2. restrictedMaps' \in Seq(SUBSET ServiceAccounts) /\ restrictedMaps' # <<>>
  BY <1>1 DEF ConfigTypeOK, CurrentMap, HandleServiceAccountRestricted
<1>3. \A i \in 1 .. CurrentMap :
         i # CurrentMap' => restrictedMaps'[i] = restrictedMaps[i]
  <2>1. \E m : restrictedMaps' = [restrictedMaps EXCEPT ![CurrentMap] = m]
    BY DEF HandleServiceAccountRestricted
  <2>2. 1 .. CurrentMap = DOMAIN restrictedMaps
    BY DEF ConfigTypeOK, CurrentMap
  <2>3. QED BY <1>1, <2>1, <2>2
<1>4. config' \in Config /\ changes' \in 0 .. MaxChanges
  BY ConfigAssumption DEF ConfigTypeOK, HandleServiceAccountRestricted
<1>5. QED BY <1>1, <1>2, <1>3, <1>4 DEF ConfigTypeOK, MapsEvolve

\* Clearing the restrictions allocates another map and writes into none.
LEMMA ClearTyping ==
    ASSUME ConfigTypeOK, HandleRestrictedServiceAccounts
    PROVE  ConfigTypeOK' /\ MapsEvolve
<1>1. /\ restrictedMaps' \in Seq(SUBSET ServiceAccounts)
      /\ restrictedMaps' # <<>>
      /\ CurrentMap \in Nat \ {0}
      /\ CurrentMap' = CurrentMap + 1
      /\ \A i \in 1 .. CurrentMap : restrictedMaps'[i] = restrictedMaps[i]
  BY DEF ConfigTypeOK, CurrentMap, HandleRestrictedServiceAccounts
<1>2. config' \in Config /\ changes' \in 0 .. MaxChanges
  BY ConfigAssumption DEF ConfigTypeOK, HandleRestrictedServiceAccounts
<1>3. QED BY <1>1, <1>2 DEF ConfigTypeOK, MapsEvolve

\* Every management call keeps the configuration well typed and leaves the
\* maps it has replaced alone.
LEMMA ManagementTyping ==
    ASSUME ConfigTypeOK, Management
    PROVE  ConfigTypeOK' /\ MapsEvolve
<1>0. config \in Config
  BY DEF ConfigTypeOK
<1>a. ASSUME NEW c \in Config, Assign(c)
      PROVE  ConfigTypeOK' /\ MapsEvolve
  <2>1. ConfigTypeOK'
    BY <1>a, AssignTyping
  <2>2. MapsEvolve
    BY <1>a DEF ConfigTypeOK, Assign, MapsEvolve, CurrentMap
  <2>3. QED BY <2>1, <2>2
<1>1. CASE \E req \in ErrorBodies : HandleErrors(req)
  BY <1>0, <1>1, <1>a, RatesUpdate, ConfigAssumption DEF HandleErrors
<1>2. CASE HandleEnableErrors \/ HandleDisableErrors
  BY <1>0, <1>2, <1>a, SingleUpdates DEF HandleEnableErrors, HandleDisableErrors
<1>3. CASE \E rate \in SentRates :
              \/ HandleSetInvalidKubeconfig(rate)
              \/ HandleSetExpiredKubeconfig(rate)
              \/ HandleSetTokenExpiredError(rate)
  BY <1>0, <1>3, <1>a, SingleUpdates, ConfigAssumption
     DEF HandleSetInvalidKubeconfig, HandleSetExpiredKubeconfig,
         HandleSetTokenExpiredError
<1>4. CASE \E seconds \in TTLs : HandleSetShortTTL(seconds)
  BY <1>0, <1>4, <1>a, SingleUpdates DEF HandleSetShortTTL
<1>5. CASE \E rates \in ConnBodies : HandleSetConnectionErrors(rates)
  BY <1>0, <1>5, <1>a, SingleUpdates, ConfigAssumption
     DEF HandleSetConnectionErrors
<1>6. CASE \E s \in Shoots, code \in Codes \cup {0} : HandleShootFail(s, code)
  BY <1>0, <1>6, <1>a, PerObjectUpdates DEF HandleShootFail
<1>7. CASE \E s \in Shoots, b \in SentBehaviors : HandleShootBehavior(s, b)
  BY <1>0, <1>7, <1>a, PerObjectUpdates DEF HandleShootBehavior
<1>8. CASE \E a \in ServiceAccounts, code \in Codes \cup {0} :
              HandleServiceAccountFail(a, code)
  BY <1>0, <1>8, <1>a, PerObjectUpdates DEF HandleServiceAccountFail
<1>9. CASE \/ HandleClearFailingShoots
           \/ HandleClearFailingServiceAccounts
           \/ HandleClearKubeconfigBehaviors
  BY <1>0, <1>9, <1>a, PerObjectUpdates
     DEF HandleClearFailingShoots, HandleClearFailingServiceAccounts,
         HandleClearKubeconfigBehaviors
<1>10. CASE \E a \in ServiceAccounts, restricted \in BOOLEAN :
               HandleServiceAccountRestricted(a, restricted)
  BY <1>10, RestrictTyping
<1>11. CASE HandleRestrictedServiceAccounts
  BY <1>11, ClearTyping
<1>12. QED
  BY <1>1, <1>2, <1>3, <1>4, <1>5, <1>6, <1>7, <1>8, <1>9, <1>10, <1>11
     DEF Management
=============================================================================
