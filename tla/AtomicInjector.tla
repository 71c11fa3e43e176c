--------------------------- MODULE AtomicInjector ---------------------------
(***************************************************************************)
(* What the error injector of pkg/errors promises its callers: it behaves   *)
(* like one atomic register of settings.  A call that writes puts all its    *)
(* fields in place at one instant between its invocation and its return; a   *)
(* call that reads answers from fields that were all current at one such    *)
(* instant.  InjectorLock, which takes the lock and touches one field after  *)
(* the other, is shown to implement this.                                   *)
(***************************************************************************)
EXTENDS InjectorFields

CONSTANTS
    Callers,        \* goroutines that call the injector
    Calls,          \* the calls one may make, see Call
    Started         \* the settings NewInjector may be given

\* A call names the fields of the method called and the settings a writing
\* method is given.
Call == [writes : BOOLEAN, fields : Seq(Fields), given : Settings]

\* What the calls an instance allows must be.
CallsFit ==
    /\ Started \subseteq Settings
    /\ Calls \subseteq Call
    /\ \A m \in Calls : m.fields \in (IF m.writes THEN Writes ELSE Reads)

FieldsOf(m) == {m.fields[i] : i \in DOMAIN m.fields}

\* The settings after m has assigned those of its fields that are in D.
Assigned(settings, m, D) ==
    [f \in Fields |-> IF f \in D THEN m.given[f] ELSE settings[f]]

\* NewInjector copies the settings of its argument but none of the maps.
NewInjector(cfg) ==
    [f \in Fields |->
        cfg[f] /\ f \notin PerObject \cup {"errorRates", "errorCodes",
                                           "latencyMs"}]

NoAnswer == {}

NoCall ==
    [writes |-> FALSE, fields |-> <<>>, given |-> [f \in Fields |-> FALSE]]

VARIABLES
    register,       \* the injector's settings
    phase,          \* per caller: idle, called, or answered
    call,           \* per caller: its call
    answer          \* per caller: the fields its answer follows from,
                    \* each with the value it had

vars == <<register, phase, call, answer>>

Init ==
    /\ \E cfg \in Started : register = NewInjector(cfg)
    /\ phase = [c \in Callers |-> "idle"]
    /\ call = [c \in Callers |-> NoCall]
    /\ answer = [c \in Callers |-> NoAnswer]

Invoke(c) ==
    /\ phase[c] = "idle"
    /\ \E m \in Calls : call' = [call EXCEPT ![c] = m]
    /\ phase' = [phase EXCEPT ![c] = "called"]
    /\ UNCHANGED <<register, answer>>

\* All the fields at once.
Write(c) ==
    /\ phase[c] = "called" /\ call[c].writes
    /\ register' = Assigned(register, call[c], FieldsOf(call[c]))
    /\ phase' = [phase EXCEPT ![c] = "answered"]
    /\ UNCHANGED <<call, answer>>

\* The answer may follow from fewer fields than the method could look at.
Read(c) ==
    /\ phase[c] = "called" /\ ~ call[c].writes
    /\ \E D \in SUBSET FieldsOf(call[c]) :
          answer' = [answer EXCEPT ![c] = {<<f, register[f]>> : f \in D}]
    /\ phase' = [phase EXCEPT ![c] = "answered"]
    /\ UNCHANGED <<register, call>>

Return(c) ==
    /\ phase[c] = "answered"
    /\ phase' = [phase EXCEPT ![c] = "idle"]
    /\ call' = [call EXCEPT ![c] = NoCall]
    /\ answer' = [answer EXCEPT ![c] = NoAnswer]
    /\ UNCHANGED register

Next == \E c \in Callers : Invoke(c) \/ Write(c) \/ Read(c) \/ Return(c)

Spec == Init /\ [][Next]_vars

\* Every call returns.
CallsReturn == \A c \in Callers : phase[c] # "idle" ~> phase[c] = "idle"
=============================================================================
