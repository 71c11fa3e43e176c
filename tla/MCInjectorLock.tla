--------------------------- MODULE MCInjectorLock ---------------------------
(***************************************************************************)
(* An instance of InjectorLock for TLC: goroutines that may each be a       *)
(* request or a management call, and the calls that matter to each other.   *)
(***************************************************************************)
EXTENDS InjectorLock

INSTANCE InjectorFields

NoneSet == [f \in Fields |-> FALSE]
AllSet  == [f \in Fields |-> TRUE]

Reading(fields) == [writes |-> FALSE, fields |-> fields, given |-> NoneSet]
Writing(fields, given) == [writes |-> TRUE, fields |-> fields, given |-> given]

\* A PUT that brings rates and latencies but leaves injection disabled, ...
Disabling == [AllSet EXCEPT !["enabled"] = FALSE]

\* ... against a POST that enables it, with rates and latencies of its own.
MCCalls ==
    {Reading(LatencyFields),
     Reading(OperationLatencyFields),
     Reading(OperationErrorFields),
     Writing(UpdateConfigFields, Disabling),
     Writing(UpdateSimpleConfigFields, AllSet)}

\* The default configuration, and one with every setting on.
MCStarted == {NoneSet, AllSet}

=============================================================================
