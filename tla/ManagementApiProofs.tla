------------------------ MODULE ManagementApiProofs ------------------------
(***************************************************************************)
(* What the management handlers of the stand-alone API preserve: the types, *)
(* and the invariant that relates the injector to the object the status is  *)
(* answered from.  StandaloneApiProofs uses both.                           *)
(***************************************************************************)
EXTENDS ManagementApi, TLAPS

----------------------------------------------------------------------------
(* Types.                                                                   *)

\* One field of a configuration is changed.
LEMMA ConfigFields ==
    ASSUME NEW c \in ErrorInjectionConfig
    PROVE
      /\ \A b \in BOOLEAN : [c EXCEPT !.enabled = b] \in ErrorInjectionConfig
      /\ \A rate \in Rates :
            /\ [c EXCEPT !.invalidKubeconfigRate = rate] \in ErrorInjectionConfig
            /\ [c EXCEPT !.expiredKubeconfigRate = rate] \in ErrorInjectionConfig
            /\ [c EXCEPT !.tokenExpiredErrorRate = rate] \in ErrorInjectionConfig
      /\ \A ttl \in TTLs :
            [c EXCEPT !.shortTTLSeconds = ttl] \in ErrorInjectionConfig
      /\ \A rates \in [Named(ConnOrder) -> Rates] :
            [c EXCEPT !.connectionRate = rates] \in ErrorInjectionConfig
      /\ \A map \in [Shoots -> Marks] :
            [c EXCEPT !.failingShoots = map] \in ErrorInjectionConfig
      /\ \A map \in [ServiceAccounts -> Marks] :
            [c EXCEPT !.failingServiceAccounts = map] \in ErrorInjectionConfig
      /\ \A map \in [Shoots -> Behaviors] :
            [c EXCEPT !.shootKubeconfigBehavior = map] \in ErrorInjectionConfig
      /\ \A map \in [ServiceAccounts -> Behaviors] :
            [c EXCEPT !.serviceAccountKubeconfigBehavior = map]
               \in ErrorInjectionConfig
      /\ \A set \in SUBSET ServiceAccounts :
            [c EXCEPT !.restrictedServiceAccounts = set] \in ErrorInjectionConfig
  BY DEF ErrorInjectionConfig

\* A new injector is well typed.
LEMMA NewInjectorTyping ==
    ASSUME NEW cfg \in ErrorInjectionConfig
    PROVE  NewInjector(cfg) \in Settings
<1>1. NoMaps(cfg) \in ErrorInjectionConfig
  BY InjectorAssumption DEF NoMaps, ErrorInjectionConfig, Marks
<1>2. QED BY <1>1 DEF NewInjector, NoSimple, Settings, Marks

\* What POST /errors and the flag make of the settings is well typed.
LEMMA SimpleTyping ==
    ASSUME NEW body \in SimpleErrorConfig,
           NEW rates \in Normalized(body.errorRates),
           NEW codes \in Normalized(body.errorCodes)
    PROVE  /\ rates \in [Operations -> Rates \cup {Absent}]
           /\ codes \in [Operations -> Marks]
  BY DEF SimpleErrorConfig, Normalized, Marks

\* The initial state is well typed.
LEMMA InitTyping == ManagementInit => ManagementTypeOK
<1> SUFFICES ASSUME ManagementInit PROVE ManagementTypeOK
  OBVIOUS
<1>1. injector \in Settings
  BY ManagementAssumption, NewInjectorTyping DEF ManagementInit
<1>2. NewSimpleErrorConfig \in SimpleErrorConfig
  BY DEF NewSimpleErrorConfig, SimpleErrorConfig, Marks
<1>3. /\ objects \in Seq(SimpleErrorConfig) /\ current \in 1 .. Len(objects)
      /\ object \in [Managers -> 1 .. Len(objects)]
  BY <1>2 DEF ManagementInit
<1>4. calls \in 0 .. MaxCalls
  BY ManagementAssumption DEF ManagementInit
<1>5. QED BY <1>1, <1>3, <1>4 DEF ManagementInit, ManagementTypeOK

\* Assigning a well-typed configuration keeps the typing.
LEMMA AssignTyping ==
    ASSUME ManagementTypeOK, NEW c \in ErrorInjectionConfig, Assign(c)
    PROVE  ManagementTypeOK'
<1>1. injector' \in Settings
  BY DEF ManagementTypeOK, Assign, Configure, Settings
<1>2. QED
  BY <1>1, ManagementAssumption
     DEF ManagementTypeOK, Assign, Configure, Count, statusVars,
         toldVars

\* The handlers of one step keep the typing.
LEMMA OneCallTyping ==
    ASSUME ManagementTypeOK, OneCall PROVE ManagementTypeOK'
<1> DEFINE c == injector.config
<1>0. /\ injector \in Settings
      /\ c \in ErrorInjectionConfig
      /\ c.failingShoots \in [Shoots -> Marks]
      /\ c.failingServiceAccounts \in [ServiceAccounts -> Marks]
      /\ c.shootKubeconfigBehavior \in [Shoots -> Behaviors]
      /\ c.serviceAccountKubeconfigBehavior \in [ServiceAccounts -> Behaviors]
      /\ c.restrictedServiceAccounts \subseteq ServiceAccounts
  BY DEF ManagementTypeOK, Settings, ErrorInjectionConfig
<1>00. \A code \in Codes \cup {0} : MarkOf(code) \in Marks
  BY InjectorAssumption DEF MarkOf, Marks
<1>1. ASSUME NEW cfg \in Puts, HandleUpdateErrorConfig(cfg)
      PROVE  ManagementTypeOK'
  <2>1. UpdateConfig(injector, cfg) \in Settings
    BY <1>0, ManagementAssumption DEF UpdateConfig, Settings
  <2>2. QED
    <3>1. calls' \in 0 .. MaxCalls
      BY <1>1, ManagementAssumption
         DEF ManagementTypeOK, HandleUpdateErrorConfig, Count
    <3>2. QED
      BY <1>1, <2>1, <3>1 DEF ManagementTypeOK, HandleUpdateErrorConfig
<1>2. ASSUME NEW s \in Shoots, NEW code \in Codes \cup {0},
             HandleSetShootFailure(s, code)
      PROVE  ManagementTypeOK'
  <2>1. [c.failingShoots EXCEPT ![s] = MarkOf(code)] \in [Shoots -> Marks]
    BY <1>0, <1>00
  <2>2. [c EXCEPT !.failingShoots[s] = MarkOf(code)] \in ErrorInjectionConfig
    BY <1>0, <2>1, ConfigFields
  <2>3. QED BY <1>2, <2>2, AssignTyping DEF HandleSetShootFailure
<1>3. ASSUME HandleClearFailingShoots PROVE ManagementTypeOK'
  <2>1. [c EXCEPT !.failingShoots = [s \in Shoots |-> Absent]]
           \in ErrorInjectionConfig
    BY <1>0, ConfigFields DEF Marks
  <2>2. QED BY <1>3, <2>1, AssignTyping DEF HandleClearFailingShoots
<1>4. ASSUME NEW rate \in SentRates,
             \/ HandleSetInvalidKubeconfig(rate)
             \/ HandleSetExpiredKubeconfig(rate)
             \/ HandleSetTokenExpiredError(rate)
      PROVE  ManagementTypeOK'
  BY <1>0, <1>4, ManagementAssumption, ConfigFields, AssignTyping
     DEF HandleSetInvalidKubeconfig, HandleSetExpiredKubeconfig,
         HandleSetTokenExpiredError
<1>5. ASSUME NEW seconds \in TTLs, HandleSetShortTTL(seconds)
      PROVE  ManagementTypeOK'
  BY <1>0, <1>5, ConfigFields, AssignTyping DEF HandleSetShortTTL
<1>6. ASSUME NEW s \in Shoots, NEW word \in SentBehaviors,
             HandleSetShootKubeconfigBehavior(s, word)
      PROVE  ManagementTypeOK'
  <2>1. [c.shootKubeconfigBehavior EXCEPT ![s] = word] \in [Shoots -> Behaviors]
    BY <1>0, ManagementAssumption
  <2>2. [c EXCEPT !.shootKubeconfigBehavior[s] = word] \in ErrorInjectionConfig
    BY <1>0, <2>1, ConfigFields
  <2>3. QED BY <1>6, <2>2, AssignTyping DEF HandleSetShootKubeconfigBehavior
<1>7. ASSUME HandleClearKubeconfigBehaviors PROVE ManagementTypeOK'
  <2>1. [c EXCEPT !.shootKubeconfigBehavior = [s \in Shoots |-> ""]]
           \in ErrorInjectionConfig
    BY <1>0, InjectorAssumption, ConfigFields
  <2>2. QED BY <1>7, <2>1, AssignTyping DEF HandleClearKubeconfigBehaviors
<1>8. ASSUME NEW a \in ServiceAccounts, NEW code \in Codes \cup {0},
             HandleSetServiceAccountFailure(a, code)
      PROVE  ManagementTypeOK'
  <2>1. [c.failingServiceAccounts EXCEPT ![a] = MarkOf(code)]
           \in [ServiceAccounts -> Marks]
    BY <1>0, <1>00
  <2>2. [c EXCEPT !.failingServiceAccounts[a] = MarkOf(code)]
           \in ErrorInjectionConfig
    BY <1>0, <2>1, ConfigFields
  <2>3. QED BY <1>8, <2>2, AssignTyping DEF HandleSetServiceAccountFailure
<1>9. ASSUME HandleClearFailingServiceAccounts PROVE ManagementTypeOK'
  <2>1. [c EXCEPT !.failingServiceAccounts =
            [a \in ServiceAccounts |-> Absent]] \in ErrorInjectionConfig
    BY <1>0, ConfigFields DEF Marks
  <2>2. QED BY <1>9, <2>1, AssignTyping DEF HandleClearFailingServiceAccounts
<1>10. ASSUME NEW a \in ServiceAccounts, NEW word \in SentBehaviors,
              HandleSetServiceAccountKubeconfigBehavior(a, word)
       PROVE  ManagementTypeOK'
  <2>1. [c.serviceAccountKubeconfigBehavior EXCEPT ![a] = word]
           \in [ServiceAccounts -> Behaviors]
    BY <1>0, ManagementAssumption
  <2>2. [c EXCEPT !.serviceAccountKubeconfigBehavior[a] = word]
           \in ErrorInjectionConfig
    BY <1>0, <2>1, ConfigFields
  <2>3. QED
    BY <1>10, <2>2, AssignTyping DEF HandleSetServiceAccountKubeconfigBehavior
<1>11. ASSUME HandleClearServiceAccountKubeconfigBehaviors
       PROVE  ManagementTypeOK'
  <2>1. [c EXCEPT !.serviceAccountKubeconfigBehavior =
            [a \in ServiceAccounts |-> ""]] \in ErrorInjectionConfig
    BY <1>0, InjectorAssumption, ConfigFields
  <2>2. QED
    BY <1>11, <2>1, AssignTyping
       DEF HandleClearServiceAccountKubeconfigBehaviors
<1>12. ASSUME NEW rates \in ConnectionBodies, HandleSetConnectionErrors(rates)
       PROVE  ManagementTypeOK'
  BY <1>0, <1>12, ManagementAssumption, ConfigFields, AssignTyping
     DEF HandleSetConnectionErrors
<1>13. ASSUME NEW a \in ServiceAccounts, NEW restricted \in BOOLEAN,
              HandleSetServiceAccountRestricted(a, restricted)
       PROVE  ManagementTypeOK'
  <2> DEFINE set == IF restricted THEN c.restrictedServiceAccounts \cup {a}
                                  ELSE c.restrictedServiceAccounts \ {a}
  <2>1. set \in SUBSET ServiceAccounts
    BY <1>0
  <2>2. [c EXCEPT !.restrictedServiceAccounts = set] \in ErrorInjectionConfig
    BY <1>0, <2>1, ConfigFields
  <2>3. Assign([c EXCEPT !.restrictedServiceAccounts = set])
    BY <1>13 DEF HandleSetServiceAccountRestricted
  <2>4. QED BY <2>2, <2>3, AssignTyping
<1>14. ASSUME HandleClearRestrictedServiceAccounts PROVE ManagementTypeOK'
  BY <1>0, <1>14, ConfigFields, AssignTyping
     DEF HandleClearRestrictedServiceAccounts
<1>15. ASSUME NEW s \in Shoots, HandleAddShoot(s) \/ HandleDeleteShoot(s)
       PROVE  ManagementTypeOK'
  BY <1>15, ManagementAssumption
     DEF ManagementTypeOK, HandleAddShoot, HandleDeleteShoot, Store, Count,
         statusVars, toldVars
<1>16. QED
  BY <1>1, <1>2, <1>3, <1>4, <1>5, <1>6, <1>7, <1>8, <1>9, <1>10, <1>11,
     <1>12, <1>13, <1>14, <1>15 DEF OneCall

\* Objects, once allocated, stay where they are.
LEMMA ObjectTyping ==
    ASSUME ManagementTypeOK, NEW m \in Managers
    PROVE  objects[object[m]] \in SimpleErrorConfig
  BY DEF ManagementTypeOK

\* The handlers of several steps keep the typing.
LEMMA StatusCallTyping ==
    ASSUME ManagementTypeOK, NEW m \in Managers, StatusCall(m)
    PROVE  ManagementTypeOK'
<1>1. ASSUME NEW body \in Posts, PublishBody(m, body) PROVE ManagementTypeOK'
  BY <1>1, ManagementAssumption
     DEF ManagementTypeOK, PublishBody, Begin, Count, MoveManager, toldVars
<1>2. ASSUME ReadFlag(m) PROVE ManagementTypeOK'
  <2>1. objects[object[m]].enabled \in BOOLEAN
    BY ObjectTyping DEF SimpleErrorConfig
  <2>2. QED BY <1>2, <2>1 DEF ManagementTypeOK, ReadFlag, MoveManager, toldVars
<1>3. ASSUME ApplyBody(m) PROVE ManagementTypeOK'
  <2>1. injector' \in Settings
    <3> DEFINE body == objects[object[m]]
    <3>1. PICK rates \in Normalized(body.errorRates),
               codes \in Normalized(body.errorCodes) :
             injector' = UpdateSimpleConfig(injector, flag[m], rates, codes)
      BY <1>3 DEF ApplyBody
    <3>2. body \in SimpleErrorConfig
      BY DEF ManagementTypeOK
    <3>3. /\ rates \in [Operations -> Rates \cup {Absent}]
          /\ codes \in [Operations -> Marks]
      BY <3>2, SimpleTyping
    <3>4. [injector.config EXCEPT !.enabled = flag[m]] \in ErrorInjectionConfig
      BY ConfigFields DEF ManagementTypeOK, Settings
    <3>5. QED
      BY <3>1, <3>3, <3>4 DEF ManagementTypeOK, UpdateSimpleConfig, Settings
  <2>2. QED
    BY <1>3, <2>1 DEF ManagementTypeOK, ApplyBody, End, MoveManager
<1>4. ASSUME NEW enabled \in BOOLEAN, HandleSetEnabled(m, enabled)
      PROVE  ManagementTypeOK'
  <2>1. SetEnabled(injector, enabled) \in Settings
    BY ConfigFields DEF ManagementTypeOK, SetEnabled, Settings
  <2>2. QED
    BY <1>4, <2>1, ManagementAssumption
       DEF ManagementTypeOK, HandleSetEnabled, Begin, Count, MoveManager,
           toldVars
<1>5. ASSUME LoadCurrentConfig(m) PROVE ManagementTypeOK'
  BY <1>5 DEF ManagementTypeOK, LoadCurrentConfig, MoveManager, toldVars
<1>6. ASSUME StoreFlag(m) PROVE ManagementTypeOK'
  <2>1. [objects[object[m]] EXCEPT !.enabled = flag[m]] \in SimpleErrorConfig
    BY ObjectTyping DEF ManagementTypeOK, SimpleErrorConfig
  <2>2. objects' \in Seq(SimpleErrorConfig) /\ Len(objects') = Len(objects)
    BY <1>6, <2>1 DEF ManagementTypeOK, StoreFlag
  <2>3. QED
    BY <1>6, <2>2 DEF ManagementTypeOK, StoreFlag, End, MoveManager
<1>7. QED BY <1>1, <1>2, <1>3, <1>4, <1>5, <1>6 DEF StatusCall

\* Every management step keeps the typing.
LEMMA ManagementTyping ==
    ASSUME ManagementTypeOK, Management PROVE ManagementTypeOK'
  BY OneCallTyping, StatusCallTyping DEF Management

----------------------------------------------------------------------------
(* The status.                                                              *)

\* The status is true at the start: what it shows of the flag counts only from
\* the first call on, and no operation has a simple rate.
LEMMA InitStatus == ManagementInit => StatusInv
<1> SUFFICES ASSUME ManagementInit PROVE StatusInv
  OBVIOUS
<1>1. \A m \in Managers : AloneInv(m)
  BY DEF ManagementInit, AloneInv
<1>2. RatesShown(injector, objects[current])
  <2>1. objects[current].errorRates = [k \in Keys |-> Absent]
    BY DEF ManagementInit, NewSimpleErrorConfig
  <2>2. \A op \in Operations : Sent(objects[current].errorRates, op) = {}
    BY <2>1 DEF Sent
  <2>3. \A op \in Operations : ~ HasSimpleRate(injector, op)
    BY DEF ManagementInit, NewInjector, NoSimple, HasSimpleRate
  <2>4. QED BY <2>2, <2>3 DEF RatesShown
<1>3. ~ flagTold
  BY DEF ManagementInit
<1>4. QED BY <1>1, <1>2, <1>3 DEF StatusInv, StatusTellsTruth, Shown

\* What is shown of the rates depends on the simple maps alone: an operation
\* with a simple rate is drawn at it, whatever its legacy rate.
LEMMA ShownBySimpleMaps ==
    ASSUME NEW s, NEW t, NEW shown, NEW told, RatesShown(s, shown),
           told.errorRates = shown.errorRates,
           told.errorCodes = shown.errorCodes,
           t.errorRates = s.errorRates, t.errorCodes = s.errorCodes
    PROVE  RatesShown(t, told)
<1>1. ASSUME NEW op \in Operations
      PROVE  /\ HasSimpleRate(t, op) <=> HasSimpleRate(s, op)
             /\ SimpleCode(t, op) = SimpleCode(s, op)
             /\ HasSimpleRate(s, op) =>
                   EffectiveRate(t, op) = EffectiveRate(s, op)
  BY DEF HasSimpleRate, SimpleCode, EffectiveRate
<1>2. QED BY <1>1 DEF RatesShown

\* A call that changes neither the flag nor the simple maps.
LEMMA UntoldStatus ==
    ASSUME StatusInv, UNCHANGED <<statusVars, toldVars>>,
           injector'.config.enabled = injector.config.enabled,
           injector'.errorRates = injector.errorRates,
           injector'.errorCodes = injector.errorCodes
    PROVE  StatusInv'
<1>1. UNCHANGED <<objects, current, mpc, object, flag, alone, flagTold,
                  ratesTold>>
  BY DEF statusVars, toldVars
<1>2. (Posting' <=> Posting) /\ (AllIdle' <=> AllIdle)
  BY <1>1 DEF Posting, AllIdle
<1>3. RatesShown(injector, objects[current]) =>
         RatesShown(injector, objects[current])'
  BY <1>1, ShownBySimpleMaps
<1>4. StatusTellsTruth'
  BY <1>1, <1>2, <1>3 DEF StatusInv, StatusTellsTruth, Shown
<1>5. \A m \in Managers : AloneInv(m)'
  BY <1>1 DEF StatusInv, AloneInv
<1>6. QED BY <1>4, <1>5 DEF StatusInv

\* The handlers of one step keep the status true: PUT /errors, which leaves
\* the simple maps alone, voids what is shown of the flag.
LEMMA OneCallStatus ==
    ASSUME ManagementTypeOK, StatusInv, OneCall PROVE StatusInv'
<1> DEFINE c == injector.config
<1>0. c \in ErrorInjectionConfig
  BY DEF ManagementTypeOK, Settings
<1>1. ASSUME NEW cfg \in Puts, HandleUpdateErrorConfig(cfg) PROVE StatusInv'
  <2>1. /\ flagTold' = FALSE /\ alone' = {}
        /\ UNCHANGED <<objects, current, mpc, ratesTold>>
    BY <1>1 DEF HandleUpdateErrorConfig
  <2>2. /\ injector'.errorRates = injector.errorRates
        /\ injector'.errorCodes = injector.errorCodes
    BY <1>1 DEF HandleUpdateErrorConfig, UpdateConfig, ManagementTypeOK, Settings
  <2>3. RatesShown(injector, objects[current]) =>
           RatesShown(injector, objects[current])'
    BY <2>1, <2>2, ShownBySimpleMaps
  <2>4. Posting' <=> Posting
    BY <2>1 DEF Posting
  <2>5. QED BY <2>1, <2>3, <2>4 DEF StatusInv, StatusTellsTruth, Shown, AloneInv
<1>2. ASSUME NEW s \in Shoots, HandleAddShoot(s) \/ HandleDeleteShoot(s)
      PROVE  StatusInv'
  BY <1>2, UntoldStatus DEF HandleAddShoot, HandleDeleteShoot, Store
<1>3. ASSUME NEW cc, Assign(cc), cc.enabled = c.enabled PROVE StatusInv'
  <2>1. /\ injector'.config.enabled = injector.config.enabled
        /\ injector'.errorRates = injector.errorRates
        /\ injector'.errorCodes = injector.errorCodes
    BY <1>3 DEF Assign, Configure, ManagementTypeOK, Settings
  <2>2. QED BY <1>3, <2>1, UntoldStatus DEF Assign, Configure
<1>4. ASSUME NEW s, NEW code, HandleSetShootFailure(s, code) PROVE StatusInv'
  <2> DEFINE cc == [c EXCEPT !.failingShoots[s] = MarkOf(code)]
  <2>1. cc.enabled = c.enabled
    BY <1>0 DEF ErrorInjectionConfig
  <2>2. Assign(cc)
    BY <1>4 DEF HandleSetShootFailure
  <2>3. QED BY <2>1, <2>2, <1>3
<1>5. ASSUME HandleClearFailingShoots PROVE StatusInv'
  <2> DEFINE cc == [c EXCEPT !.failingShoots = [s \in Shoots |-> Absent]]
  <2>1. cc.enabled = c.enabled
    BY <1>0 DEF ErrorInjectionConfig
  <2>2. Assign(cc)
    BY <1>5 DEF HandleClearFailingShoots
  <2>3. QED BY <2>1, <2>2, <1>3
<1>6. ASSUME NEW rate, HandleSetInvalidKubeconfig(rate) PROVE StatusInv'
  <2> DEFINE cc == [c EXCEPT !.invalidKubeconfigRate = rate]
  <2>1. cc.enabled = c.enabled
    BY <1>0 DEF ErrorInjectionConfig
  <2>2. Assign(cc)
    BY <1>6 DEF HandleSetInvalidKubeconfig
  <2>3. QED BY <2>1, <2>2, <1>3
<1>7. ASSUME NEW rate, HandleSetExpiredKubeconfig(rate) PROVE StatusInv'
  <2> DEFINE cc == [c EXCEPT !.expiredKubeconfigRate = rate]
  <2>1. cc.enabled = c.enabled
    BY <1>0 DEF ErrorInjectionConfig
  <2>2. Assign(cc)
    BY <1>7 DEF HandleSetExpiredKubeconfig
  <2>3. QED BY <2>1, <2>2, <1>3
<1>8. ASSUME NEW rate, HandleSetTokenExpiredError(rate) PROVE StatusInv'
  <2> DEFINE cc == [c EXCEPT !.tokenExpiredErrorRate = rate]
  <2>1. cc.enabled = c.enabled
    BY <1>0 DEF ErrorInjectionConfig
  <2>2. Assign(cc)
    BY <1>8 DEF HandleSetTokenExpiredError
  <2>3. QED BY <2>1, <2>2, <1>3
<1>9. ASSUME NEW seconds, HandleSetShortTTL(seconds) PROVE StatusInv'
  <2> DEFINE cc == [c EXCEPT !.shortTTLSeconds = seconds]
  <2>1. cc.enabled = c.enabled
    BY <1>0 DEF ErrorInjectionConfig
  <2>2. Assign(cc)
    BY <1>9 DEF HandleSetShortTTL
  <2>3. QED BY <2>1, <2>2, <1>3
<1>10. ASSUME NEW rates, HandleSetConnectionErrors(rates) PROVE StatusInv'
  <2> DEFINE cc == [c EXCEPT !.connectionRate = rates]
  <2>1. cc.enabled = c.enabled
    BY <1>0 DEF ErrorInjectionConfig
  <2>2. Assign(cc)
    BY <1>10 DEF HandleSetConnectionErrors
  <2>3. QED BY <2>1, <2>2, <1>3
<1>11. ASSUME NEW s, NEW word,
             HandleSetShootKubeconfigBehavior(s, word) PROVE StatusInv'
  <2> DEFINE cc == [c EXCEPT !.shootKubeconfigBehavior[s] = word]
  <2>1. cc.enabled = c.enabled
    BY <1>0 DEF ErrorInjectionConfig
  <2>2. Assign(cc)
    BY <1>11 DEF HandleSetShootKubeconfigBehavior
  <2>3. QED BY <2>1, <2>2, <1>3
<1>12. ASSUME HandleClearKubeconfigBehaviors PROVE StatusInv'
  <2> DEFINE cc == [c EXCEPT !.shootKubeconfigBehavior = [s \in Shoots |-> ""]]
  <2>1. cc.enabled = c.enabled
    BY <1>0 DEF ErrorInjectionConfig
  <2>2. Assign(cc)
    BY <1>12 DEF HandleClearKubeconfigBehaviors
  <2>3. QED BY <2>1, <2>2, <1>3
<1>13. ASSUME NEW a, NEW code,
             HandleSetServiceAccountFailure(a, code) PROVE StatusInv'
  <2> DEFINE cc == [c EXCEPT !.failingServiceAccounts[a] = MarkOf(code)]
  <2>1. cc.enabled = c.enabled
    BY <1>0 DEF ErrorInjectionConfig
  <2>2. Assign(cc)
    BY <1>13 DEF HandleSetServiceAccountFailure
  <2>3. QED BY <2>1, <2>2, <1>3
<1>14. ASSUME HandleClearFailingServiceAccounts PROVE StatusInv'
  <2> DEFINE cc == [c EXCEPT !.failingServiceAccounts =
                  [a \in ServiceAccounts |-> Absent]]
  <2>1. cc.enabled = c.enabled
    BY <1>0 DEF ErrorInjectionConfig
  <2>2. Assign(cc)
    BY <1>14 DEF HandleClearFailingServiceAccounts
  <2>3. QED BY <2>1, <2>2, <1>3
<1>15. ASSUME NEW a, NEW word,
             HandleSetServiceAccountKubeconfigBehavior(a, word) PROVE StatusInv'
  <2> DEFINE cc == [c EXCEPT !.serviceAccountKubeconfigBehavior[a] = word]
  <2>1. cc.enabled = c.enabled
    BY <1>0 DEF ErrorInjectionConfig
  <2>2. Assign(cc)
    BY <1>15 DEF HandleSetServiceAccountKubeconfigBehavior
  <2>3. QED BY <2>1, <2>2, <1>3
<1>16. ASSUME HandleClearServiceAccountKubeconfigBehaviors PROVE StatusInv'
  <2> DEFINE cc == [c EXCEPT !.serviceAccountKubeconfigBehavior =
                  [a \in ServiceAccounts |-> ""]]
  <2>1. cc.enabled = c.enabled
    BY <1>0 DEF ErrorInjectionConfig
  <2>2. Assign(cc)
    BY <1>16 DEF HandleClearServiceAccountKubeconfigBehaviors
  <2>3. QED BY <2>1, <2>2, <1>3
<1>17. ASSUME NEW a, NEW restricted,
             HandleSetServiceAccountRestricted(a, restricted) PROVE StatusInv'
  <2> DEFINE cc == [c EXCEPT !.restrictedServiceAccounts =
                  IF restricted THEN @ \cup {a} ELSE @ \ {a}]
  <2>1. cc.enabled = c.enabled
    BY <1>0 DEF ErrorInjectionConfig
  <2>2. Assign(cc)
    BY <1>17 DEF HandleSetServiceAccountRestricted
  <2>3. QED BY <2>1, <2>2, <1>3
<1>18. ASSUME HandleClearRestrictedServiceAccounts PROVE StatusInv'
  <2> DEFINE cc == [c EXCEPT !.restrictedServiceAccounts = {}]
  <2>1. cc.enabled = c.enabled
    BY <1>0 DEF ErrorInjectionConfig
  <2>2. Assign(cc)
    BY <1>18 DEF HandleClearRestrictedServiceAccounts
  <2>3. QED BY <2>1, <2>2, <1>3
<1>19. QED
  BY <1>1, <1>2, <1>4, <1>5, <1>6, <1>7, <1>8, <1>9, <1>10, <1>11, <1>12,
     <1>13, <1>14, <1>15, <1>16, <1>17, <1>18
     DEF OneCall

\* What POST /errors applies is what its body shows, whichever spelling of
\* an operation came last in the map.
LEMMA AppliedIsShown ==
    ASSUME NEW body \in SimpleErrorConfig, NEW s,
           s.errorRates \in Normalized(body.errorRates),
           s.errorCodes \in Normalized(body.errorCodes)
    PROVE  RatesShown(s, body)
<1> SUFFICES ASSUME NEW op \in Operations
             PROVE  LET rates == Sent(body.errorRates, op)
                        codes == Sent(body.errorCodes, op)
                    IN  IF HasSimpleRate(s, op)
                        THEN /\ EffectiveRate(s, op) \in rates
                             /\ SimpleCode(s, op) \in
                                   IF codes = {} THEN {500} ELSE codes
                        ELSE rates = {} \/ \E rate \in rates : rate <= 0
  BY DEF RatesShown
<1> DEFINE rates == Sent(body.errorRates, op)
           codes == Sent(body.errorCodes, op)
<1>1. /\ IF rates = {} THEN s.errorRates[op] = Absent
                      ELSE s.errorRates[op] \in rates
      /\ IF codes = {} THEN s.errorCodes[op] = Absent
                      ELSE s.errorCodes[op] \in codes
  BY DEF Normalized
<1>2. rates \subseteq Int /\ Absent \notin rates
  BY InjectorAssumption DEF Sent, SimpleErrorConfig
<1>3. Absent \notin codes
  BY DEF Sent
<1>4. SimpleCode(s, op) \in IF codes = {} THEN {500} ELSE codes
  BY <1>1, <1>3 DEF SimpleCode
<1>5. CASE HasSimpleRate(s, op)
  BY <1>1, <1>4, <1>5 DEF HasSimpleRate, EffectiveRate
<1>6. CASE ~ HasSimpleRate(s, op)
  <2>1. rates # {} => s.errorRates[op] \in rates /\ s.errorRates[op] <= 0
    BY <1>1, <1>2, <1>6 DEF HasSimpleRate
  <2>2. QED BY <1>6, <2>1
<1>7. QED BY <1>5, <1>6

\* What a call that begins makes of the calls under way.
LEMMA BeginStatus ==
    ASSUME ManagementTypeOK, StatusInv, NEW m \in Managers, NEW there,
           there # "idle", Begin(m, there)
    PROVE  /\ ~ AllIdle'
           /\ \A n \in alone' : n = m /\ AllIdle
           /\ mpc'[m] = there
           /\ AllIdle => \A n \in Managers \ {m} : mpc'[n] = "idle"
           /\ there \in {"posted", "read"} => Posting'
           /\ there \notin {"posted", "read"} => (Posting' <=> Posting)
  BY DEF ManagementTypeOK, Begin, MoveManager, AllIdle, Posting

\* The other calls are idle when an unoverlapped one ends.
LEMMA EndStatus ==
    ASSUME ManagementTypeOK, StatusInv, NEW m \in Managers, End(m),
           mpc[m] # "idle"
    PROVE  /\ \A n \in alone : n = m
           /\ alone' = {}
           /\ mpc[m] \notin {"posted", "read"} => (Posting' <=> Posting)
  BY DEF ManagementTypeOK, StatusInv, AloneInv, End, MoveManager, Posting

\* The handlers of several steps keep the status true.
LEMMA StatusCallStatus ==
    ASSUME ManagementTypeOK, StatusInv, NEW m \in Managers, StatusCall(m)
    PROVE  StatusInv'
<1>1. ASSUME NEW body \in Posts, PublishBody(m, body) PROVE StatusInv'
  <2>1. Begin(m, "posted")
    BY <1>1 DEF PublishBody
  <2>2. object'[m] = current'
    BY <1>1 DEF PublishBody, ManagementTypeOK
  <2>3. QED
    BY <2>1, <2>2, BeginStatus DEF StatusInv, StatusTellsTruth, Shown, AloneInv
<1>2. ASSUME ReadFlag(m) PROVE StatusInv'
  <2>1. /\ mpc[m] = "posted" /\ mpc' = [mpc EXCEPT ![m] = "read"]
        /\ flag' = [flag EXCEPT ![m] = objects[object[m]].enabled]
        /\ UNCHANGED <<injector, objects, current, object, alone>>
    BY <1>2 DEF ReadFlag, MoveManager
  <2>2. ~ AllIdle' /\ Posting'
    BY <2>1 DEF AllIdle, Posting, ManagementTypeOK
  <2>3. ASSUME NEW n \in Managers, n \in alone' PROVE AloneInv(n)'
    <3>1. n = m
      BY <2>1, <2>3 DEF StatusInv, AloneInv
    <3>2. object[m] = current
      BY <2>1, <2>3, <3>1 DEF StatusInv, AloneInv
    <3>3. mpc'[m] = "read" /\ flag'[m] = objects[current].enabled
      BY <2>1, <3>2 DEF ManagementTypeOK
    <3>4. \A k \in Managers \ {m} : mpc'[k] = "idle"
      BY <2>1, <2>3, <3>1 DEF StatusInv, AloneInv, ManagementTypeOK
    <3>5. QED BY <2>1, <3>1, <3>2, <3>3, <3>4 DEF AloneInv
  <2>4. QED BY <2>2, <2>3 DEF StatusInv, StatusTellsTruth, Shown, AloneInv
<1>3. ASSUME ApplyBody(m) PROVE StatusInv'
  <2> DEFINE body == objects[object[m]]
  <2>1. PICK rates \in Normalized(body.errorRates),
             codes \in Normalized(body.errorCodes) :
           injector' = UpdateSimpleConfig(injector, flag[m], rates, codes)
    BY <1>3 DEF ApplyBody
  <2>2. /\ mpc[m] = "read" /\ End(m)
        /\ flagTold' = (m \in alone) /\ ratesTold' = (m \in alone)
        /\ UNCHANGED <<objects, current>>
    BY <1>3 DEF ApplyBody
  <2>3. alone' = {}
    BY <2>2, EndStatus
  <2>4. ASSUME m \in alone
        PROVE  /\ injector'.config.enabled = objects[current].enabled
               /\ RatesShown(injector', objects[current])
    <3>1. object[m] = current /\ flag[m] = objects[current].enabled
      BY <2>2, <2>4 DEF StatusInv, AloneInv
    <3>2. /\ injector'.config.enabled = flag[m]
          /\ injector'.errorRates = rates /\ injector'.errorCodes = codes
      BY <2>1
         DEF UpdateSimpleConfig, ManagementTypeOK, Settings,
             ErrorInjectionConfig
    <3>3. objects[current] \in SimpleErrorConfig
      BY DEF ManagementTypeOK
    <3>4. RatesShown(injector', objects[current])
      BY <3>1, <3>2, <3>3, AppliedIsShown
    <3>5. QED BY <3>1, <3>2, <3>4
  <2>5. QED BY <2>2, <2>3, <2>4 DEF StatusInv, StatusTellsTruth, Shown, AloneInv
<1>4. ASSUME NEW enabled \in BOOLEAN, HandleSetEnabled(m, enabled)
      PROVE  StatusInv'
  <2>1. Begin(m, "set")
    BY <1>4 DEF HandleSetEnabled
  <2>2. /\ injector'.config.enabled = enabled
        /\ injector'.errorRates = injector.errorRates
        /\ injector'.errorCodes = injector.errorCodes
        /\ flag'[m] = enabled
        /\ UNCHANGED <<objects, current, ratesTold>>
    BY <1>4
       DEF HandleSetEnabled, SetEnabled, ManagementTypeOK, Settings,
           ErrorInjectionConfig, toldVars
  <2>3. ~ AllIdle' /\ (Posting' <=> Posting)
    BY <2>1, BeginStatus
  <2>4. RatesShown(injector, objects[current]) =>
           RatesShown(injector, objects[current])'
    BY <2>2, ShownBySimpleMaps
  <2>5. StatusTellsTruth'
    BY <2>2, <2>3, <2>4 DEF StatusInv, StatusTellsTruth, Shown
  <2>6. \A n \in Managers : AloneInv(n)'
    BY <2>1, <2>2, BeginStatus DEF AloneInv
  <2>7. QED BY <2>5, <2>6 DEF StatusInv
<1>5. ASSUME LoadCurrentConfig(m) PROVE StatusInv'
  <2>1. /\ mpc[m] = "set" /\ mpc' = [mpc EXCEPT ![m] = "loaded"]
        /\ object' = [object EXCEPT ![m] = current]
        /\ UNCHANGED <<injector, objects, current, flag, alone, ratesTold>>
    BY <1>5 DEF LoadCurrentConfig, MoveManager, toldVars
  <2>2. ~ AllIdle' /\ (Posting' <=> Posting)
    BY <2>1 DEF AllIdle, Posting, ManagementTypeOK
  <2>3. ASSUME NEW n \in Managers, n \in alone' PROVE AloneInv(n)'
    <3>1. n = m
      BY <2>1, <2>3 DEF StatusInv, AloneInv
    <3>2. injector.config.enabled = flag[m]
      BY <2>1, <2>3, <3>1 DEF StatusInv, AloneInv
    <3>3. mpc'[m] = "loaded" /\ object'[m] = current
      BY <2>1 DEF ManagementTypeOK
    <3>4. \A k \in Managers \ {m} : mpc'[k] = "idle"
      BY <2>1, <2>3, <3>1 DEF StatusInv, AloneInv, ManagementTypeOK
    <3>5. QED BY <2>1, <3>1, <3>2, <3>3, <3>4 DEF AloneInv
  <2>4. StatusTellsTruth'
    BY <2>1, <2>2 DEF StatusInv, StatusTellsTruth, Shown
  <2>5. QED BY <2>3, <2>4 DEF StatusInv, AloneInv
<1>6. ASSUME StoreFlag(m) PROVE StatusInv'
  <2>1. /\ mpc[m] = "loaded" /\ End(m) /\ flagTold' = (m \in alone)
        /\ objects' = [objects EXCEPT ![object[m]].enabled = flag[m]]
        /\ UNCHANGED <<injector, current, ratesTold>>
    BY <1>6 DEF StoreFlag
  <2>2. alone' = {} /\ (Posting' <=> Posting)
    BY <2>1, EndStatus
  <2>3. m \in alone => injector'.config.enabled = objects'[current].enabled
    <3>1. m \in alone => object[m] = current /\ injector.config.enabled = flag[m]
      BY <2>1 DEF StatusInv, AloneInv
    <3>2. object[m] = current => objects'[current].enabled = flag[m]
      BY <2>1, ObjectTyping DEF ManagementTypeOK, SimpleErrorConfig
    <3>3. QED BY <2>1, <3>1, <3>2
  <2>4. /\ objects'[current].errorRates = objects[current].errorRates
        /\ objects'[current].errorCodes = objects[current].errorCodes
    BY <2>1 DEF ManagementTypeOK, SimpleErrorConfig
  <2>5. RatesShown(injector, objects[current]) =>
           RatesShown(injector, objects[current])'
    BY <2>1, <2>4, ShownBySimpleMaps
  <2>6. QED
    BY <2>1, <2>2, <2>3, <2>5 DEF StatusInv, StatusTellsTruth, Shown, AloneInv
<1>7. QED BY <1>1, <1>2, <1>3, <1>4, <1>5, <1>6 DEF StatusCall

\* Every management step keeps the status true.
LEMMA ManagementStatus ==
    ASSUME ManagementTypeOK, StatusInv, Management PROVE StatusInv'
  BY OneCallStatus, StatusCallStatus DEF Management
=============================================================================
