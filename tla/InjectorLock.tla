---------------------------- MODULE InjectorLock ----------------------------
(***************************************************************************)
(* The locking of the error injector: every method of Injector takes the    *)
(* mutex, touches the fields one after the other and releases the mutex.    *)
(* MaybeInjectLatency sleeps while it holds the read lock,                  *)
(* MaybeInjectOperationLatency after it has released it.  The callers are   *)
(* the goroutines of API requests and management calls, call after call,    *)
(* for ever.                                                                *)
(***************************************************************************)
EXTENDS Integers, Sequences

CONSTANTS Callers, Calls, Started, NoWriter

ASSUME NoWriterAssumption == NoWriter \notin Callers

VARIABLES
    settings,   \* the fields of the Injector
    lock,       \* its mutex
    pc,         \* per caller: where its goroutine is
    call,       \* per caller: the method it has called
    todo,       \* per caller: the fields the method has yet to touch
    got         \* per caller: the fields a reading method has read, and what

vars == <<settings, lock, pc, call, todo, got>>

INSTANCE RWMutex

\* The names and calls of the injector are those of AtomicInjector.  A call
\* answers when it has the lock (writing) or has read its last field.
Linearized(c) ==
    IF call[c].writes THEN pc[c] = "writing" ELSE todo[c] = <<>>

phaseBar ==
    [c \in Callers |-> CASE pc[c] = "idle" -> "idle"
                         [] pc[c] # "idle" /\ ~ Linearized(c) -> "called"
                         [] pc[c] # "idle" /\ Linearized(c) -> "answered"]

answerBar == [c \in Callers |-> IF todo[c] = <<>> THEN got[c] ELSE {}]

Remaining(c) == {todo[c][i] : i \in DOMAIN todo[c]}

\* A writer that has the lock counts as done with all its fields.
settingsBar ==
    [f \in DOMAIN settings |->
        IF \E c \in Callers : pc[c] = "writing" /\ f \in Remaining(c)
        THEN call[lock.writer].given[f]
        ELSE settings[f]]

Atomic == INSTANCE AtomicInjector
          WITH register <- settingsBar, phase <- phaseBar, answer <- answerBar

ASSUME CallsAssumption == Atomic!CallsFit

Stages == {"idle", "called", "entered", "writing", "sleeping", "napping"}

Init ==
    /\ \E cfg \in Started : settings = Atomic!NewInjector(cfg)
    /\ lock = Unlocked
    /\ pc = [c \in Callers |-> "idle"]
    /\ call = [c \in Callers |-> Atomic!NoCall]
    /\ todo = [c \in Callers |-> <<>>]
    /\ got = [c \in Callers |-> {}]

MoveTo(c, there) == pc' = [pc EXCEPT ![c] = there]

Invoke(c) ==
    /\ pc[c] = "idle"
    /\ MoveTo(c, "called")
    /\ \E m \in Calls : /\ call' = [call EXCEPT ![c] = m]
                        /\ todo' = [todo EXCEPT ![c] = m.fields]
    /\ UNCHANGED <<settings, lock, got>>

(* The methods that read. *)

EnterReader(c) ==
    /\ pc[c] = "called" /\ ~ call[c].writes
    /\ RLock(c)
    /\ MoveTo(c, "entered")
    /\ UNCHANGED <<settings, call, todo, got>>

\* What the method may still look at once field f has turned out to be set or
\* not: it returns early when injection is disabled and when an error is
\* drawn, and an operation with a simple rate never looks at the legacy one.
After(f, set, rest) ==
    CASE f = "enabled" /\ ~ set -> {<<>>}
      [] f = "errorRates" /\ set -> {<<>>, <<"errorCodes">>}
      [] f = "errorRates" /\ ~ set -> {<<"config">>}
      [] f \in {"connectionRefusedRate", "connectionResetRate"} /\ set ->
            {<<>>, rest}
      [] OTHER -> {rest}

\* Mutant: a method that reads without waiting for RLock.
ReadField_Unlocked(c) ==
    /\ pc[c] = "entered" /\ ~ call[c].writes /\ todo[c] # <<>>
    /\ LET f == Head(todo[c]) IN
         /\ got' = [got EXCEPT ![c] = @ \cup {<<f, settings[f]>>}]
         /\ \E rest \in After(f, settings[f], Tail(todo[c])) :
               todo' = [todo EXCEPT ![c] = rest]
    /\ UNCHANGED <<settings, lock, pc, call>>

ReadField(c) ==
    /\ pc[c] = "entered" /\ HasRLock(c) /\ todo[c] # <<>>
    /\ LET f == Head(todo[c]) IN
         /\ got' = [got EXCEPT ![c] = @ \cup {<<f, settings[f]>>}]
         /\ \E rest \in After(f, settings[f], Tail(todo[c])) :
               todo' = [todo EXCEPT ![c] = rest]
    /\ UNCHANGED <<settings, lock, pc, call>>

\* Injection enabled and the latency the method looked at above zero.
Delays(c, method) ==
    /\ call[c].fields = method
    /\ {<<method[1], TRUE>>, <<method[2], TRUE>>} \subseteq got[c]

\* MaybeInjectLatency: time.Sleep before the deferred RUnlock, ...
Sleep(c) ==
    /\ pc[c] = "entered" /\ HasRLock(c) /\ todo[c] = <<>>
    /\ Delays(c, Atomic!LatencyFields)
    /\ MoveTo(c, "sleeping")
    /\ UNCHANGED <<settings, lock, call, todo, got>>

Return(c) ==
    /\ MoveTo(c, "idle")
    /\ call' = [call EXCEPT ![c] = Atomic!NoCall]
    /\ got' = [got EXCEPT ![c] = {}]

\* Mutant: a method that returns without RUnlock.
LeaveReader_NoUnlock(c) ==
    /\ pc[c] = "entered" /\ todo[c] = <<>>
    /\ Return(c)
    /\ UNCHANGED <<settings, lock, todo>>

\* ... which comes as soon as the method is done.
LeaveReader(c) ==
    /\ \/ /\ pc[c] = "entered" /\ todo[c] = <<>>
          /\ ~ Delays(c, Atomic!LatencyFields)
       \/ pc[c] = "sleeping"
    /\ RUnlock(c)
    /\ IF Delays(c, Atomic!OperationLatencyFields)
       THEN MoveTo(c, "napping") /\ UNCHANGED <<call, got>>
       ELSE Return(c)
    /\ UNCHANGED <<settings, todo>>

\* MaybeInjectOperationLatency sleeps after RUnlock.
WakeUp(c) ==
    /\ pc[c] = "napping"
    /\ Return(c)
    /\ UNCHANGED <<settings, lock, todo>>

(* The methods that write. *)

QueueWriter(c) ==
    /\ pc[c] = "called" /\ call[c].writes
    /\ Announce(c)
    /\ MoveTo(c, "entered")
    /\ UNCHANGED <<settings, call, todo, got>>

\* Mutant: the writer does not wait for the readers to leave.
EnterWriter_NoWait(c) ==
    /\ pc[c] = "entered" /\ lock.writer = c
    /\ MoveTo(c, "writing")
    /\ UNCHANGED <<settings, lock, call, todo, got>>

EnterWriter(c) ==
    /\ pc[c] = "entered" /\ HasLock(c)
    /\ MoveTo(c, "writing")
    /\ UNCHANGED <<settings, lock, call, todo, got>>

WriteField(c) ==
    /\ pc[c] = "writing" /\ todo[c] # <<>>
    /\ settings' = [settings EXCEPT ![Head(todo[c])] =
                                        call[c].given[Head(todo[c])]]
    /\ todo' = [todo EXCEPT ![c] = Tail(@)]
    /\ UNCHANGED <<lock, pc, call, got>>

LeaveWriter(c) ==
    /\ pc[c] = "writing" /\ todo[c] = <<>>
    /\ Unlock(c)
    /\ Return(c)
    /\ UNCHANGED <<settings, todo>>

Step(c) ==
    \/ EnterReader(c) \/ ReadField(c)   \/ Sleep(c)      \/ LeaveReader(c)
    \/ WakeUp(c)      \/ EnterWriter(c) \/ WriteField(c) \/ LeaveWriter(c)

Next == \E c \in Callers : Invoke(c) \/ QueueWriter(c) \/ Step(c)

Spec == Init /\ [][Next]_vars

\* Goroutines keep running, sleeps end, and the inner mutex, a sync.Mutex,
\* starves nobody who waits for it.
Fairness ==
    \A c \in Callers : WF_vars(Step(c)) /\ SF_vars(QueueWriter(c))

FairSpec == Spec /\ Fairness

----------------------------------------------------------------------------
(* Properties. *)

TypeOK ==
    /\ settings \in Atomic!Settings
    /\ lock \in [writer : Callers \cup {NoWriter}, readers : SUBSET Callers,
                 blocked : SUBSET Callers]
    /\ pc \in [Callers -> Stages]
    /\ call \in [Callers -> Calls \cup {Atomic!NoCall}]
    /\ todo \in [Callers -> Seq(Atomic!Fields)]
    /\ got \in [Callers -> SUBSET (Atomic!Fields \X BOOLEAN)]

\* A reader waits only while there is a writer to wake it.
WaitsForWriter == lock.blocked # {} => lock.writer # NoWriter

\* What the goroutines rely on: who is inside which part of a method holds
\* the mutex that way and nobody else, ...
HoldsFit(c) ==
    /\ pc[c] \in {"idle", "called", "napping"} =>
          lock.writer # c /\ c \notin lock.readers \cup lock.blocked
    /\ pc[c] = "entered" /\ ~ call[c].writes =>
          /\ lock.writer # c
          /\ c \in lock.readers \cup lock.blocked
          /\ c \notin lock.readers \cap lock.blocked
    /\ pc[c] = "sleeping" =>
          /\ lock.writer # c
          /\ c \in lock.readers \ lock.blocked
    /\ pc[c] = "entered" /\ call[c].writes =>
          lock.writer = c /\ c \notin lock.readers \cup lock.blocked
    /\ pc[c] = "writing" => HasLock(c) /\ c \notin lock.blocked

\* ... what is left to touch belongs to the method, ...
ProgressFits(c) ==
    /\ pc[c] = "idle" => call[c] = Atomic!NoCall /\ todo[c] = <<>>
    /\ pc[c] # "idle" => call[c] \in Calls
    /\ pc[c] = "writing" => call[c].writes
    /\ pc[c] \in {"sleeping", "napping"} => ~ call[c].writes /\ todo[c] = <<>>
    /\ \/ pc[c] = "called"
       \/ pc[c] = "entered" /\ (call[c].writes \/ c \in lock.blocked)
       => todo[c] = call[c].fields /\ got[c] = {}
    /\ pc[c] \in {"idle", "writing"} => got[c] = {}
    /\ Remaining(c) \subseteq Atomic!FieldsOf(call[c])

\* ... and what a reader has read is still so while it holds the lock.
GotFits(c) ==
    \A f \in Atomic!Fields, b \in BOOLEAN : <<f, b>> \in got[c] =>
        /\ f \in Atomic!FieldsOf(call[c])
        /\ HasRLock(c) => settings[f] = b

\* No call is inside a writing method while another is inside any method, and
\* what a request has read so far is what the injector holds until the
\* request lets go of the lock.
LockInv ==
    /\ TypeOK
    /\ WaitsForWriter
    /\ \A c \in Callers : HoldsFit(c) /\ ProgressFits(c) /\ GotFits(c)

\* The injector is atomic although it is not written in one step: no request
\* is answered from half of an update, whatever methods run concurrently,
\* and none from two configurations, even when it sleeps with the lock.
ImplementsAtomicInjector == Atomic!Spec

\* The goroutines that must leave the mutex before c gets it.
AwaitedBy(c) ==
    IF c \in lock.blocked \/ (pc[c] = "called" /\ call[c].writes)
    THEN {lock.writer} \ {NoWriter}
    ELSE {d \in lock.readers : pc[c] = "entered" /\ call[c].writes}

\* The guard of one of the steps of c's call holds.
CanMove(c) ==
    \/ pc[c] = "called" /\ (call[c].writes => lock.writer = NoWriter)
    \/ pc[c] = "entered" /\ IF call[c].writes THEN HasLock(c) ELSE HasRLock(c)
    \/ pc[c] = "writing" /\ HasLock(c)
    \/ pc[c] = "sleeping" /\ HasRLock(c)
    \/ pc[c] = "napping"

\* Goroutines never wait for each other in a circle, nor for one that is not
\* in a call: a blocked request and an update in the queue wait for the update
\* that is next, that one waits for the requests inside, asleep or not, and
\* each of these can go on.
NoCircularWait ==
    \A c \in Callers : pc[c] # "idle" /\ ~ CanMove(c) =>
        /\ AwaitedBy(c) # {}
        /\ \A d \in AwaitedBy(c) :
              \/ CanMove(d)
              \/ AwaitedBy(d) # {} /\ \A e \in AwaitedBy(d) : CanMove(e)

\* Every call returns: an update gets through an unending stream of requests
\* that overlap in their sleeps, because a waiting writer stops new readers,
\* and a request gets through an unending stream of updates, because Unlock
\* lets the blocked readers in first.
EveryCallReturns == \A c \in Callers : pc[c] # "idle" ~> pc[c] = "idle"
=============================================================================
