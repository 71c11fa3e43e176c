--------------------------- MODULE InjectorFields ---------------------------
(***************************************************************************)
(* The fields of the error injector and which of them its methods touch, in *)
(* the order of their bodies.  The data of a field is abstracted to whether  *)
(* it is set: a rate above zero, a map with the key asked for, a latency,    *)
(* injection being enabled.                                                 *)
(***************************************************************************)
EXTENDS Sequences

\* The struct Injector, without its mutex.
Fields ==
    {"config", "enabled", "errorRates", "errorCodes", "latencyMs",
     "failingShoots", "failingServiceAccounts",
     "invalidKubeconfigRate", "expiredKubeconfigRate", "shortTTLSeconds",
     "shootKubeconfigBehavior", "serviceAccountKubeconfigBehavior",
     "connectionRefusedRate", "connectionResetRate", "ioTimeoutRate",
     "tokenExpiredErrorRate", "restrictedServiceAccounts"}

Settings == [Fields -> BOOLEAN]

ConnectionRates ==
    <<"connectionRefusedRate", "connectionResetRate", "ioTimeoutRate">>

PerObject ==
    {"failingShoots", "shootKubeconfigBehavior", "failingServiceAccounts",
     "serviceAccountKubeconfigBehavior", "restrictedServiceAccounts"}

\* The fields a writing method assigns, in the order of its body.
UpdateConfigFields ==
    <<"config", "enabled", "invalidKubeconfigRate", "expiredKubeconfigRate",
      "shortTTLSeconds">>
    \o ConnectionRates
    \o <<"tokenExpiredErrorRate", "failingShoots", "shootKubeconfigBehavior",
         "failingServiceAccounts", "serviceAccountKubeconfigBehavior",
         "restrictedServiceAccounts">>

UpdateSimpleConfigFields ==
    <<"enabled", "errorRates", "errorCodes", "latencyMs">>

\* Every other setter assigns the field (a Clear... method: resets the map) or
\* the key of a map it is named for; SetConnectionErrorRates assigns three.
SetterFields == {"enabled", "invalidKubeconfigRate", "expiredKubeconfigRate",
                 "shortTTLSeconds", "tokenExpiredErrorRate"} \cup PerObject

\* The fields a reading method looks at, in that order, if it does not return
\* early: the global latency, the operation latency, the operation's error,
\* the connection error, the short lifetime, and the methods that test
\* enabled and then one field.
LatencyFields == <<"enabled", "config">>
OperationLatencyFields == <<"latencyMs", "enabled">>
OperationErrorFields == <<"enabled", "errorRates", "errorCodes", "config">>
ConnectionErrorFields ==
    <<"enabled", "connectionRefusedRate", "connectionResetRate",
      "ioTimeoutRate">>

GuardedFields ==
    {"invalidKubeconfigRate", "expiredKubeconfigRate",
     "tokenExpiredErrorRate"} \cup PerObject

Reads ==
    {LatencyFields, OperationLatencyFields, OperationErrorFields,
     ConnectionErrorFields, <<"shortTTLSeconds">>,
     <<"restrictedServiceAccounts">>}
    \cup {<<"enabled", f>> : f \in GuardedFields}

Writes == {UpdateConfigFields, UpdateSimpleConfigFields, ConnectionRates}
          \cup {<<f>> : f \in SetterFields}
=============================================================================
