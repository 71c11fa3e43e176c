------------------------- MODULE InjectorLockProofs -------------------------
(***************************************************************************)
(* For every set of goroutines and every set of calls: the invariant of the *)
(* locking, and that the injector behaves like one atomic register.          *)
(***************************************************************************)
EXTENDS InjectorLock, TLAPS

RangeOf(s) == {s[i] : i \in DOMAIN s}

(* What is left of a sequence whose head has been dealt with. *)
LEMMA RangeOfTail ==
    ASSUME NEW S, NEW s \in Seq(S), s # <<>>
    PROVE  /\ Tail(s) \in Seq(S)
           /\ Head(s) \in S
           /\ RangeOf(s) = {Head(s)} \cup RangeOf(Tail(s))
  <1>1. Tail(s) \in Seq(S) /\ Head(s) \in S /\ Head(s) = s[1]
    OBVIOUS
  <1>2. Len(s) \in Nat /\ Len(s) > 0 /\ Len(Tail(s)) = Len(s) - 1
    OBVIOUS
  <1>3. DOMAIN s = 1 .. Len(s) /\ DOMAIN Tail(s) = 1 .. (Len(s) - 1)
    BY <1>1, <1>2
  <1>4. \A i \in 1 .. (Len(s) - 1) : Tail(s)[i] = s[i + 1]
    OBVIOUS
  <1>5. \A i \in DOMAIN s : i = 1 \/ i - 1 \in DOMAIN Tail(s)
    BY <1>2, <1>3
  <1>6. \A i \in DOMAIN s : i # 1 => Tail(s)[i - 1] = s[i]
    BY <1>2, <1>3, <1>4
  <1>7. RangeOf(s) \subseteq {Head(s)} \cup RangeOf(Tail(s))
    BY <1>1, <1>5, <1>6 DEF RangeOf
  <1>8. RangeOf(Tail(s)) \subseteq RangeOf(s)
    <2>1. \A i \in DOMAIN Tail(s) : i + 1 \in DOMAIN s /\ Tail(s)[i] = s[i + 1]
      BY <1>2, <1>3, <1>4
    <2> QED BY <2>1 DEF RangeOf
  <1>9. Head(s) \in RangeOf(s)
    BY <1>1, <1>2, <1>3 DEF RangeOf
  <1> QED BY <1>1, <1>7, <1>8, <1>9

(* The methods: a reading one looks at something, and the only one that looks *)
(* at the simple rates may look at what After makes of them.                *)
LEMMA CallFacts ==
    ASSUME NEW m \in Calls
    PROVE  /\ m.writes \in BOOLEAN
           /\ m.fields \in Seq(Atomic!Fields)
           /\ m.given \in Atomic!Settings
           /\ ~ m.writes => m.fields # <<>>
           /\ ~ m.writes /\ "errorRates" \in Atomic!FieldsOf(m) =>
                 {"errorCodes", "config"} \subseteq Atomic!FieldsOf(m)
  <1>1. m \in Atomic!Call /\ m.fields \in (IF m.writes THEN Atomic!Writes
                                                      ELSE Atomic!Reads)
    BY CallsAssumption DEF Atomic!CallsFit
  <1>2. /\ m.writes \in BOOLEAN
        /\ m.fields \in Seq(Atomic!Fields)
        /\ m.given \in Atomic!Settings
    BY <1>1 DEF Atomic!Call
  <1>3. ASSUME ~ m.writes
        PROVE  \/ m.fields = Atomic!OperationErrorFields
               \/ /\ m.fields # <<>>
                  /\ "errorRates" \notin Atomic!FieldsOf(m)
    <2>1. m.fields \in Atomic!Reads
      BY <1>1, <1>3
    <2>2. CASE m.fields = Atomic!LatencyFields
      BY <2>2 DEF Atomic!LatencyFields, Atomic!FieldsOf
    <2>3. CASE m.fields = Atomic!OperationLatencyFields
      BY <2>3 DEF Atomic!OperationLatencyFields, Atomic!FieldsOf
    <2>4. CASE m.fields = Atomic!ConnectionErrorFields
      BY <2>4 DEF Atomic!ConnectionErrorFields, Atomic!FieldsOf
    <2>5. ASSUME NEW f \in {"shortTTLSeconds", "restrictedServiceAccounts"},
                 m.fields = <<f>>
          PROVE  m.fields # <<>> /\ "errorRates" \notin Atomic!FieldsOf(m)
      BY <2>5 DEF Atomic!FieldsOf
    <2>6. ASSUME NEW f \in Atomic!GuardedFields, m.fields = <<"enabled", f>>
          PROVE  m.fields # <<>> /\ "errorRates" \notin Atomic!FieldsOf(m)
      <3>1. f # "errorRates"
        BY <2>6 DEF Atomic!GuardedFields, Atomic!PerObject
      <3> QED BY <2>6, <3>1 DEF Atomic!FieldsOf
    <2> QED BY <2>1, <2>2, <2>3, <2>4, <2>5, <2>6 DEF Atomic!Reads
  <1>4. m.fields = Atomic!OperationErrorFields =>
           /\ m.fields # <<>>
           /\ {"errorCodes", "config"} \subseteq Atomic!FieldsOf(m)
    <2> SUFFICES ASSUME m.fields = Atomic!OperationErrorFields
                 PROVE  /\ m.fields # <<>>
                        /\ {"errorCodes", "config"} \subseteq Atomic!FieldsOf(m)
      OBVIOUS
    <2>1. m.fields = <<"enabled", "errorRates", "errorCodes", "config">>
      BY DEF Atomic!OperationErrorFields
    <2>2. DOMAIN m.fields = 1 .. 4 /\ m.fields[3] = "errorCodes"
                                   /\ m.fields[4] = "config"
      BY <2>1
    <2> QED BY <2>1, <2>2 DEF Atomic!FieldsOf
  <1> QED BY <1>2, <1>3, <1>4

\* A goroutine without a call has no fields to deal with.
LEMMA NoCallFields ==
    Atomic!FieldsOf(Atomic!NoCall) = {} /\ Atomic!NoCall.writes = FALSE
  BY DEF Atomic!FieldsOf, Atomic!NoCall

----------------------------------------------------------------------------
(* The invariant, action by action. *)

\* The invariant holds at the start.
LEMMA LockInvInit == Init => LockInv
  <1> SUFFICES ASSUME Init PROVE LockInv
    OBVIOUS
  <1>1. settings \in Atomic!Settings
    <2> PICK cfg \in Started : settings = Atomic!NewInjector(cfg)
      BY DEF Init
    <2>1. cfg \in Atomic!Settings
      BY CallsAssumption DEF Atomic!CallsFit
    <2> QED BY <2>1 DEF Atomic!NewInjector, Atomic!Settings
  <1>2. TypeOK
    BY <1>1 DEF Init, TypeOK, Stages, Unlocked
  <1>3. ASSUME NEW c \in Callers
        PROVE  HoldsFit(c) /\ ProgressFits(c) /\ GotFits(c)
    <2>1. /\ pc[c] = "idle" /\ call[c] = Atomic!NoCall
          /\ todo[c] = <<>> /\ got[c] = {}
      BY DEF Init
    <2>2. HoldsFit(c)
      BY <2>1, NoWriterAssumption DEF Init, HoldsFit, Unlocked
    <2>3. Remaining(c) = {}
      BY <2>1 DEF Remaining
    <2>4. ProgressFits(c)
      BY <2>1, <2>3 DEF ProgressFits
    <2>5. GotFits(c)
      BY <2>1 DEF GotFits
    <2> QED BY <2>2, <2>4, <2>5
  <1> QED BY <1>2, <1>3 DEF LockInv, WaitsForWriter, Init, Unlocked

(* A goroutine whose variables a step leaves alone keeps its part. *)
LEMMA ProgressFrame ==
    ASSUME NEW d \in Callers, ProgressFits(d),
           pc'[d] = pc[d], call'[d] = call[d],
           todo'[d] = todo[d], got'[d] = got[d],
           d \in lock.blocked' => d \in lock.blocked
    PROVE  ProgressFits(d)'
  BY DEF ProgressFits, Remaining, Atomic!FieldsOf

\* What has been read stays explained when no field changes.
LEMMA GotFrame ==
    ASSUME NEW d \in Callers, GotFits(d),
           call'[d] = call[d], got'[d] = got[d], settings' = settings,
           HasRLock(d)' => HasRLock(d) \/ got[d] = {}
    PROVE  GotFits(d)'
  BY DEF GotFits, Atomic!FieldsOf

\* A call begins.
LEMMA LockInvInvoke ==
    ASSUME LockInv, NEW c \in Callers, Invoke(c)
    PROVE  LockInv'
  <1> USE DEF MoveTo, Return, HasRLock, HasLock
  <1>1. TypeOK'
    BY CallFacts DEF LockInv, TypeOK, Stages, Invoke
  <1>2. WaitsForWriter'
    BY DEF LockInv, TypeOK, HoldsFit, WaitsForWriter, Invoke
  <1>3. ASSUME NEW d \in Callers PROVE HoldsFit(d)'
    BY NoWriterAssumption, CallFacts, NoCallFields
       DEF LockInv, TypeOK, HoldsFit, WaitsForWriter, ProgressFits, Invoke
  <1>4. ASSUME NEW d \in Callers, d # c PROVE ProgressFits(d)' /\ GotFits(d)'
    <2>1. /\ pc'[d] = pc[d] /\ call'[d] = call[d]
          /\ todo'[d] = todo[d] /\ got'[d] = got[d]
      BY <1>4 DEF LockInv, TypeOK, Invoke
    <2>2. d \in lock.blocked' => d \in lock.blocked
      BY <1>4 DEF LockInv, TypeOK, Invoke
    <2>3. /\ settings' = settings
          /\ HasRLock(d)' => HasRLock(d) \/ got[d] = {}
      BY <1>4, <2>1
         DEF LockInv, TypeOK, HoldsFit, WaitsForWriter, ProgressFits, Invoke
    <2> QED BY <2>1, <2>2, <2>3, ProgressFrame, GotFrame DEF LockInv
  <1>5. ProgressFits(c)'
    BY CallFacts, NoCallFields
       DEF LockInv, TypeOK, HoldsFit, WaitsForWriter, ProgressFits, Remaining,
           Atomic!FieldsOf, Invoke
  <1>6. GotFits(c)'
    <2>1. got'[c] = {}
      BY DEF LockInv, ProgressFits, Invoke
    <2> QED BY <2>1 DEF GotFits
  <1> QED BY <1>1, <1>2, <1>3, <1>4, <1>5, <1>6 DEF LockInv

\* A reader gets the lock.
LEMMA LockInvEnterReader ==
    ASSUME LockInv, NEW c \in Callers, EnterReader(c)
    PROVE  LockInv'
  <1> USE DEF MoveTo, Return, HasRLock, HasLock
  <1>1. TypeOK'
    BY CallFacts DEF LockInv, TypeOK, Stages, EnterReader, RLock
  <1>2. WaitsForWriter'
    BY DEF LockInv, TypeOK, HoldsFit, WaitsForWriter, EnterReader, RLock
  <1>3. ASSUME NEW d \in Callers PROVE HoldsFit(d)'
    BY NoWriterAssumption, CallFacts, NoCallFields
       DEF LockInv, TypeOK, HoldsFit, WaitsForWriter, ProgressFits,
           EnterReader, RLock
  <1>4. ASSUME NEW d \in Callers, d # c PROVE ProgressFits(d)' /\ GotFits(d)'
    <2>1. /\ pc'[d] = pc[d] /\ call'[d] = call[d]
          /\ todo'[d] = todo[d] /\ got'[d] = got[d]
      BY <1>4 DEF LockInv, TypeOK, EnterReader
    <2>2. d \in lock.blocked' => d \in lock.blocked
      BY <1>4 DEF LockInv, TypeOK, EnterReader, RLock
    <2>3. /\ settings' = settings
          /\ HasRLock(d)' => HasRLock(d) \/ got[d] = {}
      BY <1>4, <2>1
         DEF LockInv, TypeOK, HoldsFit, WaitsForWriter, ProgressFits,
             EnterReader, RLock
    <2> QED BY <2>1, <2>2, <2>3, ProgressFrame, GotFrame DEF LockInv
  <1>5. ProgressFits(c)'
    BY CallFacts, NoCallFields
       DEF LockInv, TypeOK, HoldsFit, WaitsForWriter, ProgressFits, Remaining,
           Atomic!FieldsOf, EnterReader, RLock
  <1>6. GotFits(c)'
    BY GotFrame DEF LockInv, TypeOK, ProgressFits, EnterReader, RLock
  <1> QED BY <1>1, <1>2, <1>3, <1>4, <1>5, <1>6 DEF LockInv

\* A reader reads a field.
LEMMA LockInvReadField ==
    ASSUME LockInv, NEW c \in Callers, ReadField(c)
    PROVE  LockInv'
  <1> USE DEF HasRLock, HasLock
  <1> DEFINE f    == Head(todo[c])
             rest == todo'[c]
  <1>1. /\ pc[c] = "entered" /\ c \in lock.readers /\ todo[c] # <<>>
        /\ call[c] \in Calls /\ ~ call[c].writes
        /\ todo[c] \in Seq(Atomic!Fields)
    BY DEF LockInv, TypeOK, HoldsFit, ProgressFits, ReadField
  <1>2. /\ f \in Atomic!Fields
        /\ Tail(todo[c]) \in Seq(Atomic!Fields)
        /\ Remaining(c) = {f} \cup RangeOf(Tail(todo[c]))
    <2>1. Remaining(c) = RangeOf(todo[c])
      BY DEF Remaining, RangeOf
    <2> QED BY <1>1, <2>1, RangeOfTail
  <1>3. /\ rest \in After(f, settings[f], Tail(todo[c]))
        /\ todo' = [todo EXCEPT ![c] = rest]
    BY DEF LockInv, TypeOK, ReadField
  <1>4. Remaining(c) \subseteq Atomic!FieldsOf(call[c])
    BY DEF LockInv, ProgressFits
  <1>5. rest \in Seq(Atomic!Fields) /\ RangeOf(rest) \subseteq Remaining(c) \cup
                    (IF f = "errorRates" THEN {"errorCodes", "config"} ELSE {})
    <2>1. CASE rest = <<>>
      BY <2>1 DEF RangeOf
    <2>2. CASE rest = Tail(todo[c])
      BY <2>2, <1>2
    <2>3. ASSUME f = "errorRates", NEW g \in {"errorCodes", "config"},
                 rest = <<g>>
          PROVE  rest \in Seq(Atomic!Fields) /\ RangeOf(rest) = {g}
      <3>1. g \in Atomic!Fields
        BY DEF Atomic!Fields
      <3> HIDE DEF rest
      <3> QED BY <2>3, <3>1 DEF RangeOf
    <2> QED BY <1>3, <2>1, <2>2, <2>3 DEF After
  <1>6. f = "errorRates" =>
            {"errorCodes", "config"} \subseteq Atomic!FieldsOf(call[c])
    BY <1>1, <1>2, <1>4, CallFacts
  <1>7. RangeOf(rest) \subseteq Atomic!FieldsOf(call[c])
    BY <1>4, <1>5, <1>6
  <1>8. got' = [got EXCEPT ![c] = @ \cup {<<f, settings[f]>>}]
    BY DEF ReadField
  <1>9. settings[f] \in BOOLEAN
    BY <1>2 DEF LockInv, TypeOK, Atomic!Settings
  <1>10. TypeOK'
    BY <1>2, <1>3, <1>5, <1>8, <1>9 DEF LockInv, TypeOK, ReadField
  <1>11. ASSUME NEW d \in Callers PROVE HoldsFit(d)'
    BY DEF LockInv, HoldsFit, ReadField
  <1>12. ASSUME NEW d \in Callers, d # c
         PROVE  ProgressFits(d)' /\ GotFits(d)'
    BY <1>12, ProgressFrame, GotFrame DEF LockInv, TypeOK, ReadField
  <1>13. ProgressFits(c)'
    <2>1. Remaining(c)' \subseteq Atomic!FieldsOf(call[c])'
      BY <1>7 DEF Remaining, RangeOf, ReadField
    <2>2. c \notin lock.blocked
      BY <1>1 DEF LockInv, HoldsFit
    <2> QED BY <1>1, <2>1, <2>2 DEF ProgressFits, ReadField
  <1>14. GotFits(c)'
    <2>1. GotFits(c)
      BY DEF LockInv
    <2>2. got'[c] = got[c] \cup {<<f, settings[f]>>}
      BY <1>8 DEF LockInv, TypeOK
    <2>3. f \in Atomic!FieldsOf(call[c])
      BY <1>2, <1>4
    <2> QED BY <1>1, <2>1, <2>2, <2>3 DEF GotFits, ReadField, Atomic!FieldsOf
  <1> QED BY <1>10, <1>11, <1>12, <1>13, <1>14
             DEF LockInv, WaitsForWriter, ReadField

\* A reader begins to sleep.
LEMMA LockInvSleep ==
    ASSUME LockInv, NEW c \in Callers, Sleep(c)
    PROVE  LockInv'
  <1> USE DEF MoveTo, Return, HasRLock, HasLock
  <1>1. TypeOK'
    BY CallFacts DEF LockInv, TypeOK, Stages, Sleep
  <1>2. WaitsForWriter'
    BY DEF LockInv, TypeOK, HoldsFit, WaitsForWriter, Sleep
  <1>3. ASSUME NEW d \in Callers PROVE HoldsFit(d)'
    BY NoWriterAssumption, CallFacts, NoCallFields
       DEF LockInv, TypeOK, HoldsFit, WaitsForWriter, ProgressFits, Sleep
  <1>4. ASSUME NEW d \in Callers, d # c PROVE ProgressFits(d)' /\ GotFits(d)'
    <2>1. /\ pc'[d] = pc[d] /\ call'[d] = call[d]
          /\ todo'[d] = todo[d] /\ got'[d] = got[d]
      BY <1>4 DEF LockInv, TypeOK, Sleep
    <2>2. d \in lock.blocked' => d \in lock.blocked
      BY <1>4 DEF LockInv, TypeOK, Sleep
    <2>3. /\ settings' = settings
          /\ HasRLock(d)' => HasRLock(d) \/ got[d] = {}
      BY <1>4, <2>1
         DEF LockInv, TypeOK, HoldsFit, WaitsForWriter, ProgressFits, Sleep
    <2> QED BY <2>1, <2>2, <2>3, ProgressFrame, GotFrame DEF LockInv
  <1>5. ProgressFits(c)'
    BY CallFacts, NoCallFields
       DEF LockInv, TypeOK, HoldsFit, WaitsForWriter, ProgressFits, Remaining,
           Atomic!FieldsOf, Sleep
  <1>6. GotFits(c)'
    BY GotFrame DEF LockInv, TypeOK, HoldsFit, WaitsForWriter, Sleep
  <1> QED BY <1>1, <1>2, <1>3, <1>4, <1>5, <1>6 DEF LockInv

\* A reader releases the lock.
LEMMA LockInvLeaveReader ==
    ASSUME LockInv, NEW c \in Callers, LeaveReader(c)
    PROVE  LockInv'
  <1> USE DEF MoveTo, Return, HasRLock, HasLock
  <1>1. TypeOK'
    BY CallFacts DEF LockInv, TypeOK, Stages, LeaveReader, RUnlock
  <1>2. WaitsForWriter'
    BY DEF LockInv, TypeOK, HoldsFit, WaitsForWriter, LeaveReader, RUnlock
  <1>3. ASSUME NEW d \in Callers PROVE HoldsFit(d)'
    BY NoWriterAssumption, CallFacts, NoCallFields
       DEF LockInv, TypeOK, HoldsFit, WaitsForWriter, ProgressFits,
           LeaveReader, RUnlock
  <1>4. ASSUME NEW d \in Callers, d # c PROVE ProgressFits(d)' /\ GotFits(d)'
    <2>1. /\ pc'[d] = pc[d] /\ call'[d] = call[d]
          /\ todo'[d] = todo[d] /\ got'[d] = got[d]
      BY <1>4 DEF LockInv, TypeOK, LeaveReader
    <2>2. d \in lock.blocked' => d \in lock.blocked
      BY <1>4 DEF LockInv, TypeOK, LeaveReader, RUnlock
    <2>3. /\ settings' = settings
          /\ HasRLock(d)' => HasRLock(d) \/ got[d] = {}
      BY <1>4, <2>1
         DEF LockInv, TypeOK, HoldsFit, WaitsForWriter, ProgressFits,
             LeaveReader, RUnlock
    <2> QED BY <2>1, <2>2, <2>3, ProgressFrame, GotFrame DEF LockInv
  <1>5. ProgressFits(c)'
    BY CallFacts, NoCallFields
       DEF LockInv, TypeOK, HoldsFit, WaitsForWriter, ProgressFits, Remaining,
           Atomic!FieldsOf, LeaveReader, RUnlock
  <1>6. GotFits(c)'
    <2>1. CASE Delays(c, Atomic!OperationLatencyFields)
      BY <2>1, GotFrame DEF LockInv, TypeOK, LeaveReader, RUnlock
    <2>2. CASE ~ Delays(c, Atomic!OperationLatencyFields)
      <3>1. call'[c] = Atomic!NoCall /\ got'[c] = {}
        BY <2>2 DEF LockInv, TypeOK, LeaveReader
      <3> QED BY <3>1 DEF GotFits
    <2> QED BY <2>1, <2>2
  <1> QED BY <1>1, <1>2, <1>3, <1>4, <1>5, <1>6 DEF LockInv

\* A sleeper wakes up.
LEMMA LockInvWakeUp ==
    ASSUME LockInv, NEW c \in Callers, WakeUp(c)
    PROVE  LockInv'
  <1> USE DEF MoveTo, Return, HasRLock, HasLock
  <1>1. TypeOK'
    BY CallFacts DEF LockInv, TypeOK, Stages, WakeUp
  <1>2. WaitsForWriter'
    BY DEF LockInv, TypeOK, HoldsFit, WaitsForWriter, WakeUp
  <1>3. ASSUME NEW d \in Callers PROVE HoldsFit(d)'
    BY NoWriterAssumption, CallFacts, NoCallFields
       DEF LockInv, TypeOK, HoldsFit, WaitsForWriter, ProgressFits, WakeUp
  <1>4. ASSUME NEW d \in Callers, d # c PROVE ProgressFits(d)' /\ GotFits(d)'
    <2>1. /\ pc'[d] = pc[d] /\ call'[d] = call[d]
          /\ todo'[d] = todo[d] /\ got'[d] = got[d]
      BY <1>4 DEF LockInv, TypeOK, WakeUp
    <2>2. d \in lock.blocked' => d \in lock.blocked
      BY <1>4 DEF LockInv, TypeOK, WakeUp
    <2>3. /\ settings' = settings
          /\ HasRLock(d)' => HasRLock(d) \/ got[d] = {}
      BY <1>4, <2>1
         DEF LockInv, TypeOK, HoldsFit, WaitsForWriter, ProgressFits, WakeUp
    <2> QED BY <2>1, <2>2, <2>3, ProgressFrame, GotFrame DEF LockInv
  <1>5. ProgressFits(c)'
    BY CallFacts, NoCallFields
       DEF LockInv, TypeOK, HoldsFit, WaitsForWriter, ProgressFits, Remaining,
           Atomic!FieldsOf, WakeUp
  <1>6. GotFits(c)'
    <2>1. call'[c] = Atomic!NoCall /\ got'[c] = {}
      BY DEF LockInv, TypeOK, WakeUp
    <2> QED BY <2>1 DEF GotFits
  <1> QED BY <1>1, <1>2, <1>3, <1>4, <1>5, <1>6 DEF LockInv

\* A writer announces itself.
LEMMA LockInvQueueWriter ==
    ASSUME LockInv, NEW c \in Callers, QueueWriter(c)
    PROVE  LockInv'
  <1> USE DEF MoveTo, Return, HasRLock, HasLock
  <1>1. TypeOK'
    BY CallFacts DEF LockInv, TypeOK, Stages, QueueWriter, Announce
  <1>2. WaitsForWriter'
    BY DEF LockInv, TypeOK, HoldsFit, WaitsForWriter, QueueWriter, Announce
  <1>3. ASSUME NEW d \in Callers PROVE HoldsFit(d)'
    BY NoWriterAssumption, CallFacts, NoCallFields
       DEF LockInv, TypeOK, HoldsFit, WaitsForWriter, ProgressFits,
           QueueWriter, Announce
  <1>4. ASSUME NEW d \in Callers, d # c PROVE ProgressFits(d)' /\ GotFits(d)'
    <2>1. /\ pc'[d] = pc[d] /\ call'[d] = call[d]
          /\ todo'[d] = todo[d] /\ got'[d] = got[d]
      BY <1>4 DEF LockInv, TypeOK, QueueWriter
    <2>2. d \in lock.blocked' => d \in lock.blocked
      BY <1>4 DEF LockInv, TypeOK, QueueWriter, Announce
    <2>3. /\ settings' = settings
          /\ HasRLock(d)' => HasRLock(d) \/ got[d] = {}
      BY <1>4, <2>1
         DEF LockInv, TypeOK, HoldsFit, WaitsForWriter, ProgressFits,
             QueueWriter, Announce
    <2> QED BY <2>1, <2>2, <2>3, ProgressFrame, GotFrame DEF LockInv
  <1>5. ProgressFits(c)'
    BY CallFacts, NoCallFields
       DEF LockInv, TypeOK, HoldsFit, WaitsForWriter, ProgressFits, Remaining,
           Atomic!FieldsOf, QueueWriter, Announce
  <1>6. GotFits(c)'
    BY GotFrame
       DEF LockInv, TypeOK, HoldsFit, WaitsForWriter, QueueWriter, Announce
  <1> QED BY <1>1, <1>2, <1>3, <1>4, <1>5, <1>6 DEF LockInv

\* A writer gets the lock.
LEMMA LockInvEnterWriter ==
    ASSUME LockInv, NEW c \in Callers, EnterWriter(c)
    PROVE  LockInv'
  <1> USE DEF MoveTo, Return, HasRLock, HasLock
  <1>1. TypeOK'
    BY CallFacts DEF LockInv, TypeOK, Stages, EnterWriter
  <1>2. WaitsForWriter'
    BY DEF LockInv, TypeOK, HoldsFit, WaitsForWriter, EnterWriter
  <1>3. ASSUME NEW d \in Callers PROVE HoldsFit(d)'
    BY NoWriterAssumption, CallFacts, NoCallFields
       DEF LockInv, TypeOK, HoldsFit, WaitsForWriter, ProgressFits, EnterWriter
  <1>4. ASSUME NEW d \in Callers, d # c PROVE ProgressFits(d)' /\ GotFits(d)'
    <2>1. /\ pc'[d] = pc[d] /\ call'[d] = call[d]
          /\ todo'[d] = todo[d] /\ got'[d] = got[d]
      BY <1>4 DEF LockInv, TypeOK, EnterWriter
    <2>2. d \in lock.blocked' => d \in lock.blocked
      BY <1>4 DEF LockInv, TypeOK, EnterWriter
    <2>3. /\ settings' = settings
          /\ HasRLock(d)' => HasRLock(d) \/ got[d] = {}
      BY <1>4, <2>1
         DEF LockInv, TypeOK, HoldsFit, WaitsForWriter, ProgressFits,
             EnterWriter
    <2> QED BY <2>1, <2>2, <2>3, ProgressFrame, GotFrame DEF LockInv
  <1>5. ProgressFits(c)'
    BY CallFacts, NoCallFields
       DEF LockInv, TypeOK, HoldsFit, WaitsForWriter, ProgressFits, Remaining,
           Atomic!FieldsOf, EnterWriter
  <1>6. GotFits(c)'
    BY GotFrame DEF LockInv, TypeOK, HoldsFit, WaitsForWriter, EnterWriter
  <1> QED BY <1>1, <1>2, <1>3, <1>4, <1>5, <1>6 DEF LockInv

\* A writer writes a field.
LEMMA LockInvWriteField ==
    ASSUME LockInv, NEW c \in Callers, WriteField(c)
    PROVE  LockInv'
  <1> USE DEF HasRLock, HasLock
  <1> DEFINE f == Head(todo[c])
  <1>1. /\ pc[c] = "writing" /\ lock.readers = {} /\ todo[c] # <<>>
        /\ call[c] \in Calls /\ call[c].writes
        /\ todo[c] \in Seq(Atomic!Fields)
    BY DEF LockInv, TypeOK, HoldsFit, ProgressFits, WriteField
  <1>2. /\ f \in Atomic!Fields
        /\ Tail(todo[c]) \in Seq(Atomic!Fields)
        /\ Remaining(c) = {f} \cup RangeOf(Tail(todo[c]))
    <2>1. Remaining(c) = RangeOf(todo[c])
      BY DEF Remaining, RangeOf
    <2> QED BY <1>1, <2>1, RangeOfTail
  <1>3. call[c].given \in Atomic!Settings
    BY <1>1, CallFacts
  <1>4. settings' \in Atomic!Settings
    BY <1>2, <1>3 DEF LockInv, TypeOK, WriteField, Atomic!Settings
  <1>5. TypeOK'
    BY <1>2, <1>4 DEF LockInv, TypeOK, WriteField
  <1>6. ASSUME NEW d \in Callers PROVE HoldsFit(d)' /\ GotFits(d)'
    BY <1>1 DEF LockInv, HoldsFit, GotFits, WriteField, Atomic!FieldsOf
  <1>7. ASSUME NEW d \in Callers, d # c PROVE ProgressFits(d)'
    BY <1>7, ProgressFrame DEF LockInv, TypeOK, WriteField
  <1>8. ProgressFits(c)'
    <2>1. todo'[c] = Tail(todo[c])
      BY DEF LockInv, TypeOK, WriteField
    <2>2. Remaining(c)' \subseteq Atomic!FieldsOf(call[c])'
      <3>1. Remaining(c)' = RangeOf(Tail(todo[c]))
        BY <2>1 DEF Remaining, RangeOf
      <3>2. Remaining(c) \subseteq Atomic!FieldsOf(call[c])
        BY DEF LockInv, ProgressFits
      <3>3. Atomic!FieldsOf(call[c])' = Atomic!FieldsOf(call[c])
        BY DEF WriteField, Atomic!FieldsOf
      <3> QED BY <1>2, <3>1, <3>2, <3>3
    <2> QED BY <1>1, <2>2 DEF LockInv, ProgressFits, WriteField
  <1> QED BY <1>5, <1>6, <1>7, <1>8 DEF LockInv, WaitsForWriter, WriteField

\* A writer releases the lock.
LEMMA LockInvLeaveWriter ==
    ASSUME LockInv, NEW c \in Callers, LeaveWriter(c)
    PROVE  LockInv'
  <1> USE DEF MoveTo, Return, HasRLock, HasLock
  <1>1. TypeOK'
    BY CallFacts DEF LockInv, TypeOK, Stages, LeaveWriter, Unlock
  <1>2. WaitsForWriter'
    BY DEF LockInv, TypeOK, HoldsFit, WaitsForWriter, LeaveWriter, Unlock
  <1>3. ASSUME NEW d \in Callers PROVE HoldsFit(d)'
    BY NoWriterAssumption, CallFacts, NoCallFields
       DEF LockInv, TypeOK, HoldsFit, WaitsForWriter, ProgressFits,
           LeaveWriter, Unlock
  <1>4. ASSUME NEW d \in Callers, d # c PROVE ProgressFits(d)' /\ GotFits(d)'
    <2>1. /\ pc'[d] = pc[d] /\ call'[d] = call[d]
          /\ todo'[d] = todo[d] /\ got'[d] = got[d]
      BY <1>4 DEF LockInv, TypeOK, LeaveWriter
    <2>2. d \in lock.blocked' => d \in lock.blocked
      BY <1>4 DEF LockInv, TypeOK, LeaveWriter, Unlock
    <2>3. /\ settings' = settings
          /\ HasRLock(d)' => HasRLock(d) \/ got[d] = {}
      <3>1. HasRLock(d)' => d \in lock.blocked
        BY DEF LockInv, TypeOK, LeaveWriter, Unlock
      <3>2. d \in lock.blocked => pc[d] = "entered"
        BY DEF LockInv, TypeOK, Stages, HoldsFit
      <3>3. pc[d] = "entered" /\ d \in lock.blocked => got[d] = {}
        BY DEF LockInv, ProgressFits
      <3> QED BY <3>1, <3>2, <3>3 DEF LeaveWriter
    <2> QED BY <2>1, <2>2, <2>3, ProgressFrame, GotFrame DEF LockInv
  <1>5. ProgressFits(c)'
    BY CallFacts, NoCallFields
       DEF LockInv, TypeOK, HoldsFit, WaitsForWriter, ProgressFits, Remaining,
           Atomic!FieldsOf, LeaveWriter, Unlock
  <1>6. GotFits(c)'
    <2>1. call'[c] = Atomic!NoCall /\ got'[c] = {}
      BY DEF LockInv, TypeOK, LeaveWriter
    <2> QED BY <2>1 DEF GotFits
  <1> QED BY <1>1, <1>2, <1>3, <1>4, <1>5, <1>6 DEF LockInv

\* Every step keeps the invariant.
LEMMA LockInvStep == LockInv /\ [Next]_vars => LockInv'
  <1> SUFFICES ASSUME LockInv, [Next]_vars PROVE LockInv'
    OBVIOUS
  <1>1. CASE UNCHANGED vars
    <2>1. TypeOK' /\ WaitsForWriter'
      BY <1>1 DEF vars, LockInv, TypeOK, WaitsForWriter
    <2>2. ASSUME NEW c \in Callers PROVE HoldsFit(c)'
      BY <1>1 DEF vars, LockInv, HoldsFit, HasLock
    <2>3. ASSUME NEW c \in Callers PROVE ProgressFits(c)' /\ GotFits(c)'
      BY <1>1, ProgressFrame, GotFrame DEF vars, LockInv, HasRLock
    <2> QED BY <2>1, <2>2, <2>3 DEF LockInv
  <1>2. ASSUME NEW c \in Callers, Invoke(c) \/ QueueWriter(c) \/ Step(c)
        PROVE  LockInv'
    BY <1>2, LockInvInvoke, LockInvQueueWriter, LockInvEnterReader,
       LockInvReadField, LockInvSleep, LockInvLeaveReader, LockInvWakeUp,
       LockInvEnterWriter, LockInvWriteField, LockInvLeaveWriter DEF Step
  <1> QED BY <1>1, <1>2 DEF Next

(* No call is ever inside a writing method of the injector while another is *)
(* inside any method, and what a request has read under the lock stays what *)
(* the injector holds, for any number of goroutines and any calls.          *)
THEOREM LockInvariant == Spec => []LockInv
  BY LockInvInit, LockInvStep, PTL DEF Spec

----------------------------------------------------------------------------
(* Nobody waits in vain. *)

(* A goroutine inside the read lock can go on. *)
LEMMA ReaderMoves ==
    ASSUME LockInv, NEW e \in lock.readers
    PROVE  CanMove(e)
  <1>1. e \in Callers /\ pc[e] \in Stages
    BY DEF LockInv, TypeOK
  <1>2. HoldsFit(e)
    BY <1>1 DEF LockInv
  <1>3. QED BY <1>1, <1>2 DEF HoldsFit, Stages, CanMove, HasRLock, HasLock

(* The writer that is next can go on, or waits for readers inside. *)
LEMMA WriterMoves ==
    ASSUME LockInv, lock.writer # NoWriter
    PROVE  LET w == lock.writer IN
           \/ CanMove(w)
           \/ AwaitedBy(w) # {} /\ \A e \in AwaitedBy(w) : CanMove(e)
  <1> DEFINE w == lock.writer
  <1>1. w \in Callers /\ pc[w] \in Stages
    BY DEF LockInv, TypeOK
  <1>2. HoldsFit(w)
    BY <1>1 DEF LockInv
  <1>3. \/ pc[w] = "writing" /\ HasLock(w)
        \/ /\ pc[w] = "entered" /\ call[w].writes
           /\ w \notin lock.readers \cup lock.blocked
    BY <1>1, <1>2, CallFacts, NoCallFields DEF HoldsFit, Stages
  <1>4. CASE pc[w] = "writing" /\ HasLock(w)
    BY <1>4 DEF CanMove
  <1>5. CASE /\ pc[w] = "entered" /\ call[w].writes
             /\ w \notin lock.readers \cup lock.blocked
    <2>1. AwaitedBy(w) = lock.readers
      BY <1>5 DEF AwaitedBy
    <2>2. CASE lock.readers = {}
      BY <1>5, <2>2 DEF CanMove, HasLock
    <2>3. CASE lock.readers # {}
      BY <2>1, <2>3, ReaderMoves
    <2>4. QED BY <2>2, <2>3
  <1>6. QED BY <1>3, <1>4, <1>5

(* No goroutines wait for each other in a circle, however many there are. *)
THEOREM NoDeadlock == Spec => []NoCircularWait
  <1>1. ASSUME LockInv, NEW c \in Callers, pc[c] # "idle", ~ CanMove(c)
        PROVE  /\ AwaitedBy(c) # {}
               /\ \A d \in AwaitedBy(c) :
                     \/ CanMove(d)
                     \/ AwaitedBy(d) # {} /\ \A e \in AwaitedBy(d) : CanMove(e)
    <2>1. HoldsFit(c) /\ WaitsForWriter /\ pc[c] \in Stages
      BY <1>1 DEF LockInv, TypeOK
    <2>2. \/ c \in lock.blocked
          \/ /\ pc[c] = "called" /\ call[c].writes
             /\ lock.writer # NoWriter
          \/ pc[c] = "entered" /\ call[c].writes /\ lock.writer = c
      BY <1>1, <2>1 DEF HoldsFit, CanMove, Stages, HasRLock
    <2>3. CASE \/ c \in lock.blocked
               \/ /\ pc[c] = "called" /\ call[c].writes
                  /\ lock.writer # NoWriter
      <3>1. lock.writer # NoWriter
        BY <2>1, <2>3 DEF WaitsForWriter
      <3>2. AwaitedBy(c) = {lock.writer}
        BY <2>3, <3>1 DEF AwaitedBy
      <3>3. QED BY <1>1, <3>1, <3>2, WriterMoves
    <2>4. CASE pc[c] = "entered" /\ call[c].writes /\ lock.writer = c
      <3>1. AwaitedBy(c) # {} /\ \A e \in AwaitedBy(c) : CanMove(e)
        BY <1>1, <2>4, NoWriterAssumption, WriterMoves
      <3>2. QED BY <3>1
    <2>5. QED BY <2>2, <2>3, <2>4
  <1>2. LockInv => NoCircularWait
    BY <1>1 DEF NoCircularWait
  <1>3. QED BY <1>2, LockInvariant, PTL

----------------------------------------------------------------------------
(* The injector implements an atomic register. *)

(* What the mapping makes of a caller follows from that caller alone. *)
LEMMA BarFrame ==
    ASSUME NEW d \in Callers,
           pc'[d] = pc[d], call'[d] = call[d],
           todo'[d] = todo[d], got'[d] = got[d]
    PROVE  phaseBar'[d] = phaseBar[d] /\ answerBar'[d] = answerBar[d]
  BY DEF phaseBar, answerBar, Linearized

(* Without a writer at work the register holds what the fields hold. *)
LEMMA NobodyWrites ==
    ASSUME LockInv, \A d \in Callers : pc[d] = "writing" => todo[d] = <<>>
    PROVE  settingsBar = settings
  <1>1. \A d \in Callers : pc[d] = "writing" => Remaining(d) = {}
    BY DEF Remaining
  <1>2. settings = [f \in DOMAIN settings |-> settings[f]]
    BY DEF LockInv, TypeOK, Atomic!Settings
  <1> QED BY <1>1, <1>2 DEF settingsBar

(* At most one goroutine writes, and the register holds what it will leave. *)
LEMMA OneWrites ==
    ASSUME LockInv, NEW c \in Callers, pc[c] = "writing"
    PROVE  settingsBar = [f \in Atomic!Fields |->
                             IF f \in Remaining(c) THEN call[c].given[f]
                                                   ELSE settings[f]]
  <1>1. lock.writer = c /\ \A d \in Callers : pc[d] = "writing" => d = c
    BY DEF LockInv, HoldsFit, HasLock
  <1>2. DOMAIN settings = Atomic!Fields
    BY DEF LockInv, TypeOK, Atomic!Settings
  <1> QED BY <1>1, <1>2 DEF settingsBar

(* A step of c that nobody could tell from no step at all. *)
LEMMA Stutters ==
    ASSUME NEW c \in Callers,
           \A d \in Callers \ {c} : /\ pc'[d] = pc[d] /\ call'[d] = call[d]
                                    /\ todo'[d] = todo[d] /\ got'[d] = got[d],
           phaseBar'[c] = phaseBar[c], answerBar'[c] = answerBar[c],
           settingsBar' = settingsBar, call' = call
    PROVE  UNCHANGED Atomic!vars
  <1>1. \A d \in Callers : /\ phaseBar'[d] = phaseBar[d]
                           /\ answerBar'[d] = answerBar[d]
    BY BarFrame
  <1>2. phaseBar' = phaseBar
    BY <1>1 DEF phaseBar
  <1>3. answerBar' = answerBar
    BY <1>1 DEF answerBar
  <1> QED BY <1>2, <1>3 DEF Atomic!vars

(* A step of c that takes it to another phase. *)
LEMMA Moves ==
    ASSUME NEW c \in Callers, NEW there, NEW a,
           \A d \in Callers \ {c} : /\ pc'[d] = pc[d] /\ call'[d] = call[d]
                                    /\ todo'[d] = todo[d] /\ got'[d] = got[d],
           phaseBar'[c] = there, answerBar'[c] = a
    PROVE  /\ phaseBar' = [phaseBar EXCEPT ![c] = there]
           /\ answerBar' = [answerBar EXCEPT ![c] = a]
  <1>1. \A d \in Callers \ {c} : /\ phaseBar'[d] = phaseBar[d]
                                 /\ answerBar'[d] = answerBar[d]
    BY BarFrame
  <1>2. phaseBar' = [phaseBar EXCEPT ![c] = there]
    BY <1>1 DEF phaseBar
  <1>3. answerBar' = [answerBar EXCEPT ![c] = a]
    BY <1>1 DEF answerBar
  <1> QED BY <1>2, <1>3

(* Steps that neither begin, end nor advance a write leave the register. *)
LEMMA SettingsFrame ==
    ASSUME LockInv, settings' = settings,
           \A d \in Callers :
              /\ pc'[d] = "writing" <=> pc[d] = "writing"
              /\ pc[d] = "writing" => /\ todo'[d] = todo[d]
                                      /\ call'[d] = call[d]
                                      /\ lock'.writer = lock.writer
    PROVE  settingsBar' = settingsBar
  <1>1. \A d \in Callers : pc[d] = "writing" => lock.writer = d
    BY DEF LockInv, HoldsFit, HasLock
  <1>2. ASSUME NEW f
        PROVE  (\E d \in Callers : pc[d] = "writing" /\ f \in Remaining(d))'
                <=> \E d \in Callers : pc[d] = "writing" /\ f \in Remaining(d)
    BY DEF Remaining
  <1>3. ASSUME NEW d \in Callers, pc[d] = "writing"
        PROVE  call'[lock'.writer] = call[lock.writer]
    BY <1>1, <1>3
  <1> QED BY <1>2, <1>3 DEF settingsBar

\* A call is invoked.
LEMMA RefineInvoke ==
    ASSUME LockInv, NEW c \in Callers, Invoke(c)
    PROVE  Atomic!Invoke(c)
  <1> PICK m \in Calls : /\ call' = [call EXCEPT ![c] = m]
                         /\ todo' = [todo EXCEPT ![c] = m.fields]
    BY DEF Invoke
  <1>1. /\ pc[c] = "idle" /\ todo[c] = <<>> /\ got[c] = {}
        /\ pc'[c] = "called" /\ call'[c] = m /\ todo'[c] = m.fields
        /\ got'[c] = {}
    BY DEF LockInv, TypeOK, ProgressFits, Invoke, MoveTo
  <1>2. phaseBar[c] = "idle"
    BY <1>1 DEF phaseBar
  <1>3. phaseBar'[c] = "called"
    BY <1>1, CallFacts DEF phaseBar, Linearized
  <1>4. answerBar[c] = {} /\ answerBar'[c] = {}
    BY <1>1 DEF answerBar
  <1>5. \A d \in Callers \ {c} : /\ pc'[d] = pc[d] /\ call'[d] = call[d]
                                 /\ todo'[d] = todo[d] /\ got'[d] = got[d]
    BY DEF LockInv, TypeOK, Invoke, MoveTo
  <1>6. phaseBar' = [phaseBar EXCEPT ![c] = "called"]
    BY <1>3, <1>4, <1>5, Moves
  <1>7. answerBar' = answerBar
    BY <1>3, <1>4, <1>5, Moves DEF answerBar
  <1>8. settingsBar' = settingsBar
    BY <1>1, <1>5, SettingsFrame DEF Invoke
  <1> QED BY <1>2, <1>6, <1>7, <1>8 DEF Atomic!Invoke

\* A reader that gets the lock is not seen.
LEMMA RefineEnterReader ==
    ASSUME LockInv, NEW c \in Callers, EnterReader(c)
    PROVE  UNCHANGED Atomic!vars
  <1>1. pc[c] = "called" /\ pc'[c] = "entered"
    BY DEF LockInv, TypeOK, EnterReader, MoveTo
  <1>2. \A d \in Callers \ {c} : /\ pc'[d] = pc[d] /\ call'[d] = call[d]
                                 /\ todo'[d] = todo[d] /\ got'[d] = got[d]
    BY DEF LockInv, TypeOK, EnterReader, MoveTo
  <1>3. phaseBar'[c] = phaseBar[c] /\ answerBar'[c] = answerBar[c]
    BY <1>1 DEF EnterReader, phaseBar, answerBar, Linearized
  <1>4. lock'.writer = lock.writer
    BY DEF LockInv, TypeOK, EnterReader, RLock
  <1>5. settingsBar' = settingsBar
    BY <1>1, <1>2, <1>4, SettingsFrame DEF EnterReader
  <1> QED BY <1>2, <1>3, <1>5, Stutters DEF EnterReader

(* The last field read is the instant at which the request is answered. *)
LEMMA RefineReadField ==
    ASSUME LockInv, NEW c \in Callers, ReadField(c), LockInv'
    PROVE  Atomic!Read(c) \/ UNCHANGED Atomic!vars
  <1>1. /\ pc[c] = "entered" /\ pc'[c] = "entered" /\ c \in lock.readers
        /\ ~ call[c].writes /\ ~ call'[c].writes /\ todo[c] # <<>>
    BY DEF LockInv, HoldsFit, ReadField, HasRLock
  <1>2. \A d \in Callers \ {c} : /\ pc'[d] = pc[d] /\ call'[d] = call[d]
                                 /\ todo'[d] = todo[d] /\ got'[d] = got[d]
    BY DEF LockInv, TypeOK, ReadField
  <1>3. settingsBar' = settingsBar
    BY <1>1, <1>2, SettingsFrame DEF ReadField
  <1>4. phaseBar[c] = "called" /\ answerBar[c] = {}
    BY <1>1 DEF phaseBar, answerBar, Linearized
  <1>5. CASE todo'[c] # <<>>
    <2>1. phaseBar'[c] = "called" /\ answerBar'[c] = {}
      BY <1>1, <1>5 DEF phaseBar, answerBar, Linearized
    <2> QED BY <1>2, <1>3, <1>4, <2>1, Stutters DEF ReadField
  <1>6. CASE todo'[c] = <<>>
    <2> DEFINE D == {f \in Atomic!Fields : \E b \in BOOLEAN : <<f, b>> \in got'[c]}
    <2>1. phaseBar'[c] = "answered" /\ answerBar'[c] = got'[c]
      BY <1>1, <1>6 DEF phaseBar, answerBar, Linearized
    <2>2. settingsBar = settings
      <3>1. \A d \in Callers : pc[d] # "writing"
        BY <1>1 DEF LockInv, HoldsFit, HasLock
      <3> QED BY <3>1, NobodyWrites
    <2>3. got'[c] \subseteq Atomic!Fields \X BOOLEAN
      BY DEF LockInv, TypeOK
    <2>4. \A f \in Atomic!Fields, b \in BOOLEAN : <<f, b>> \in got'[c] =>
              /\ f \in Atomic!FieldsOf(call[c])
              /\ settings[f] = b
      BY <1>1 DEF LockInv, GotFits, HasRLock, ReadField, Atomic!FieldsOf
    <2>5. got'[c] = {<<f, settings[f]>> : f \in D}
      <3>1. ASSUME NEW p \in got'[c] PROVE \E f \in D : p = <<f, settings[f]>>
        <4>1. PICK f \in Atomic!Fields, b \in BOOLEAN : p = <<f, b>>
          BY <2>3, <3>1
        <4> QED BY <2>4, <3>1, <4>1
      <3>2. ASSUME NEW f \in D PROVE <<f, settings[f]>> \in got'[c]
        BY <2>4, <3>2
      <3> QED BY <3>1, <3>2
    <2>6. D \in SUBSET Atomic!FieldsOf(call[c])
      BY <2>4
    <2>7. answerBar' = [answerBar EXCEPT ![c] = {<<f, settingsBar[f]>> : f \in D}]
      <3>1. answerBar' = [answerBar EXCEPT ![c] = got'[c]]
        BY <1>2, <2>1, Moves
      <3> QED BY <2>2, <2>5, <3>1
    <2>8. phaseBar' = [phaseBar EXCEPT ![c] = "answered"]
      BY <1>2, <2>1, Moves
    <2>9. call' = call
      BY DEF ReadField
    <2> QED BY <1>1, <1>3, <1>4, <2>6, <2>7, <2>8, <2>9 DEF Atomic!Read
  <1> QED BY <1>5, <1>6

\* A reader that sleeps is not seen.
LEMMA RefineSleep ==
    ASSUME LockInv, NEW c \in Callers, Sleep(c)
    PROVE  UNCHANGED Atomic!vars
  <1>1. /\ pc[c] = "entered" /\ pc'[c] = "sleeping"
        /\ ~ call[c].writes /\ ~ call'[c].writes
    BY DEF LockInv, TypeOK, HoldsFit, Sleep, MoveTo, HasRLock
  <1>2. \A d \in Callers \ {c} : /\ pc'[d] = pc[d] /\ call'[d] = call[d]
                                 /\ todo'[d] = todo[d] /\ got'[d] = got[d]
    BY DEF LockInv, TypeOK, Sleep, MoveTo
  <1>3. phaseBar'[c] = phaseBar[c] /\ answerBar'[c] = answerBar[c]
    BY <1>1 DEF Sleep, phaseBar, answerBar, Linearized
  <1>4. settingsBar' = settingsBar
    BY <1>1, <1>2, SettingsFrame DEF Sleep
  <1> QED BY <1>2, <1>3, <1>4, Stutters DEF Sleep

(* What a method does when it returns, whatever it did before. *)
LEMMA RefineReturn ==
    ASSUME LockInv, NEW c \in Callers, Return(c),
           phaseBar[c] = "answered", todo' = todo, todo[c] = <<>>,
           settingsBar' = settingsBar
    PROVE  Atomic!Return(c)
  <1>1. /\ pc'[c] = "idle" /\ got'[c] = {}
        /\ call' = [call EXCEPT ![c] = Atomic!NoCall]
    BY DEF LockInv, TypeOK, Return, MoveTo
  <1>2. \A d \in Callers \ {c} : /\ pc'[d] = pc[d] /\ call'[d] = call[d]
                                 /\ todo'[d] = todo[d] /\ got'[d] = got[d]
    BY DEF LockInv, TypeOK, Return, MoveTo
  <1>3. phaseBar'[c] = "idle" /\ answerBar'[c] = {}
    BY <1>1 DEF phaseBar, answerBar
  <1>4. /\ phaseBar' = [phaseBar EXCEPT ![c] = "idle"]
        /\ answerBar' = [answerBar EXCEPT ![c] = {}]
    BY <1>2, <1>3, Moves
  <1> QED BY <1>1, <1>4 DEF Atomic!Return, Atomic!NoAnswer

\* A reader that releases the lock returns, or is not seen.
LEMMA RefineLeaveReader ==
    ASSUME LockInv, NEW c \in Callers, LeaveReader(c)
    PROVE  Atomic!Return(c) \/ UNCHANGED Atomic!vars
  <1>1. /\ pc[c] \in {"entered", "sleeping"} /\ todo[c] = <<>>
        /\ ~ call[c].writes /\ lock'.writer = lock.writer
    BY DEF LockInv, TypeOK, HoldsFit, ProgressFits, LeaveReader, RUnlock,
           HasRLock
  <1>2. pc'[c] \in {"napping", "idle"}
    BY DEF LockInv, TypeOK, LeaveReader, Return, MoveTo
  <1>3. \A d \in Callers \ {c} : /\ pc'[d] = pc[d] /\ call'[d] = call[d]
                                 /\ todo'[d] = todo[d] /\ got'[d] = got[d]
    BY DEF LockInv, TypeOK, LeaveReader, Return, MoveTo
  <1>4. phaseBar[c] = "answered"
    BY <1>1 DEF phaseBar, Linearized
  <1>5. settingsBar' = settingsBar
    BY <1>1, <1>2, <1>3, SettingsFrame DEF LeaveReader
  <1>6. CASE Return(c)
    BY <1>1, <1>4, <1>5, <1>6, RefineReturn DEF LeaveReader
  <1>7. CASE MoveTo(c, "napping") /\ UNCHANGED <<call, got>>
    <2>1. pc'[c] = "napping"
      BY <1>7 DEF LockInv, TypeOK, MoveTo
    <2>2. phaseBar'[c] = phaseBar[c] /\ answerBar'[c] = answerBar[c]
      BY <1>1, <1>4, <1>7, <2>1
         DEF LeaveReader, phaseBar, answerBar, Linearized
    <2> QED BY <1>3, <1>5, <1>7, <2>2, Stutters
  <1> QED BY <1>6, <1>7 DEF LeaveReader

\* A sleeper that wakes up is not seen.
LEMMA RefineWakeUp ==
    ASSUME LockInv, NEW c \in Callers, WakeUp(c)
    PROVE  Atomic!Return(c)
  <1>1. pc[c] = "napping" /\ ~ call[c].writes /\ todo[c] = <<>>
    BY DEF LockInv, ProgressFits, WakeUp
  <1>2. pc'[c] = "idle" /\ \A d \in Callers \ {c} : pc'[d] = pc[d] /\ call'[d] = call[d]
    BY DEF LockInv, TypeOK, WakeUp, Return, MoveTo
  <1>3. phaseBar[c] = "answered"
    BY <1>1 DEF phaseBar, Linearized
  <1>4. settingsBar' = settingsBar
    BY <1>1, <1>2, SettingsFrame DEF WakeUp
  <1> QED BY <1>1, <1>3, <1>4, RefineReturn DEF WakeUp

\* A writer that announces itself is not seen.
LEMMA RefineQueueWriter ==
    ASSUME LockInv, NEW c \in Callers, QueueWriter(c)
    PROVE  UNCHANGED Atomic!vars
  <1>1. /\ pc[c] = "called" /\ pc'[c] = "entered" /\ call[c].writes
        /\ lock.writer = NoWriter
    BY DEF LockInv, TypeOK, QueueWriter, Announce, MoveTo
  <1>2. \A d \in Callers \ {c} : /\ pc'[d] = pc[d] /\ call'[d] = call[d]
                                 /\ todo'[d] = todo[d] /\ got'[d] = got[d]
    BY DEF LockInv, TypeOK, QueueWriter, MoveTo
  <1>3. phaseBar'[c] = phaseBar[c] /\ answerBar'[c] = answerBar[c]
    BY <1>1 DEF QueueWriter, phaseBar, answerBar, Linearized
  <1>4. \A d \in Callers : pc[d] # "writing"
    BY <1>1, NoWriterAssumption DEF LockInv, HoldsFit, HasLock
  <1>5. settingsBar' = settingsBar
    BY <1>1, <1>2, <1>4, SettingsFrame DEF QueueWriter
  <1> QED BY <1>2, <1>3, <1>5, Stutters DEF QueueWriter

(* Getting the lock is the instant at which an update takes effect. *)
LEMMA RefineEnterWriter ==
    ASSUME LockInv, NEW c \in Callers, EnterWriter(c)
    PROVE  Atomic!Write(c)
  <1>1. /\ pc[c] = "entered" /\ pc'[c] = "writing" /\ call[c].writes
        /\ lock.writer = c /\ lock.readers = {}
        /\ todo[c] = call[c].fields /\ got[c] = {}
    BY DEF LockInv, TypeOK, HoldsFit, ProgressFits, EnterWriter, MoveTo, HasLock
  <1>2. \A d \in Callers \ {c} : /\ pc'[d] = pc[d] /\ call'[d] = call[d]
                                 /\ todo'[d] = todo[d] /\ got'[d] = got[d]
    BY DEF LockInv, TypeOK, EnterWriter, MoveTo
  <1>3. phaseBar[c] = "called" /\ phaseBar'[c] = "answered"
    BY <1>1 DEF EnterWriter, phaseBar, Linearized
  <1>4. phaseBar' = [phaseBar EXCEPT ![c] = "answered"]
    BY <1>2, <1>3, Moves
  <1>5. answerBar' = answerBar
    BY DEF EnterWriter, answerBar
  <1>6. \A d \in Callers : /\ pc[d] # "writing"
                           /\ pc'[d] = "writing" <=> d = c
    BY <1>1, <1>2 DEF LockInv, HoldsFit, HasLock
  <1>7. settingsBar = settings
    BY <1>6, NobodyWrites
  <1>8. Remaining(c)' = Atomic!FieldsOf(call[c])
    BY <1>1 DEF EnterWriter, Remaining, Atomic!FieldsOf
  <1>9. DOMAIN settings = Atomic!Fields
    BY DEF LockInv, TypeOK, Atomic!Settings
  <1>10. settingsBar' = Atomic!Assigned(settingsBar, call[c], Atomic!FieldsOf(call[c]))
    <2>1. ASSUME NEW f
          PROVE  (\E d \in Callers : pc[d] = "writing" /\ f \in Remaining(d))'
                  <=> f \in Atomic!FieldsOf(call[c])
      BY <1>6, <1>8
    <2> QED BY <1>1, <1>7, <1>9, <2>1
            DEF settingsBar, EnterWriter, Atomic!Assigned
  <1> QED BY <1>1, <1>3, <1>4, <1>5, <1>10
          DEF Atomic!Write, EnterWriter

(* Field after field, what the update promised comes true. *)
LEMMA RefineWriteField ==
    ASSUME LockInv, NEW c \in Callers, WriteField(c)
    PROVE  UNCHANGED Atomic!vars
  <1> DEFINE f == Head(todo[c])
  <1>1. /\ pc[c] = "writing" /\ todo[c] # <<>> /\ call[c].writes
        /\ got[c] = {} /\ lock.writer = c
        /\ todo[c] \in Seq(Atomic!Fields)
    BY DEF LockInv, TypeOK, HoldsFit, ProgressFits, HasLock, WriteField
  <1>2. \A d \in Callers \ {c} : /\ pc'[d] = pc[d] /\ call'[d] = call[d]
                                 /\ todo'[d] = todo[d] /\ got'[d] = got[d]
    BY DEF LockInv, TypeOK, WriteField
  <1>3. phaseBar'[c] = phaseBar[c] /\ answerBar'[c] = answerBar[c]
    BY <1>1 DEF WriteField, phaseBar, answerBar, Linearized
  <1>4. \A d \in Callers : /\ pc[d] = "writing" <=> d = c
                           /\ pc'[d] = "writing" <=> d = c
    BY <1>1 DEF LockInv, HoldsFit, HasLock, WriteField
  <1>5. /\ f \in Atomic!Fields
        /\ Remaining(c) = {f} \cup Remaining(c)'
    <2>1. Remaining(c) = RangeOf(todo[c])
      BY DEF Remaining, RangeOf
    <2>2. todo'[c] = Tail(todo[c])
      BY DEF LockInv, TypeOK, WriteField
    <2>3. Remaining(c)' = RangeOf(Tail(todo[c]))
      BY <2>2 DEF Remaining, RangeOf
    <2> QED BY <1>1, <2>1, <2>3, RangeOfTail
  <1>6. /\ settings \in [Atomic!Fields -> BOOLEAN]
        /\ settings' = [settings EXCEPT ![f] = call[c].given[f]]
    BY DEF LockInv, TypeOK, Atomic!Settings, WriteField
  <1>7. settingsBar' = settingsBar
    <2>1. settingsBar = [g \in Atomic!Fields |->
                            IF g \in Remaining(c) THEN call[c].given[g]
                                                  ELSE settings[g]]
      BY <1>1, OneWrites
    <2>2. settingsBar' = [g \in Atomic!Fields |->
                             IF g \in Remaining(c)' THEN call[c].given[g]
                                                    ELSE settings'[g]]
      <3>1. ASSUME NEW g
            PROVE  (\E d \in Callers : pc[d] = "writing" /\ g \in Remaining(d))'
                    <=> g \in Remaining(c)'
        BY <1>4
      <3>2. DOMAIN settings' = Atomic!Fields
        BY <1>6
      <3> QED BY <1>1, <3>1, <3>2 DEF settingsBar, WriteField
    <2>3. ASSUME NEW g \in Atomic!Fields
          PROVE  (IF g \in Remaining(c)' THEN call[c].given[g] ELSE settings'[g])
                 = (IF g \in Remaining(c) THEN call[c].given[g] ELSE settings[g])
      BY <1>5, <1>6
    <2> QED BY <2>1, <2>2, <2>3
  <1> QED BY <1>2, <1>3, <1>7, Stutters DEF WriteField

\* A writer that releases the lock returns.
LEMMA RefineLeaveWriter ==
    ASSUME LockInv, NEW c \in Callers, LeaveWriter(c)
    PROVE  Atomic!Return(c)
  <1>1. /\ pc[c] = "writing" /\ todo[c] = <<>> /\ call[c].writes
        /\ pc'[c] = "idle"
    BY DEF LockInv, TypeOK, ProgressFits, LeaveWriter, Return, MoveTo
  <1>2. \A d \in Callers \ {c} : pc[d] # "writing" /\ pc'[d] = pc[d]
    BY <1>1 DEF LockInv, TypeOK, HoldsFit, HasLock, LeaveWriter, Return, MoveTo
  <1>3. phaseBar[c] = "answered"
    BY <1>1 DEF phaseBar, Linearized
  <1>4. settingsBar = settings
    BY <1>1, <1>2, NobodyWrites
  <1>5. settingsBar' = settings
    <2>1. \A d \in Callers : pc'[d] # "writing"
      BY <1>1, <1>2
    <2>2. settings = [f \in DOMAIN settings |-> settings[f]]
      BY DEF LockInv, TypeOK, Atomic!Settings
    <2> QED BY <2>1, <2>2 DEF settingsBar, LeaveWriter
  <1> QED BY <1>1, <1>3, <1>4, <1>5, RefineReturn DEF LeaveWriter

\* The initial states map to initial states.
LEMMA RefineInit == Init => Atomic!Init
  <1> SUFFICES ASSUME Init PROVE Atomic!Init
    OBVIOUS
  <1>1. \A c \in Callers : pc[c] = "idle" /\ todo[c] = <<>> /\ got[c] = {}
    BY DEF Init
  <1>2. settingsBar = settings
    BY <1>1, LockInvInit, NobodyWrites
  <1>3. phaseBar = [c \in Callers |-> "idle"]
    BY <1>1 DEF phaseBar
  <1>4. answerBar = [c \in Callers |-> {}]
    BY <1>1 DEF answerBar
  <1> QED BY <1>2, <1>3, <1>4 DEF Init, Atomic!Init, Atomic!NoAnswer

\* Every step maps to a step or to none.
LEMMA RefineNext ==
    LockInv /\ LockInv' /\ [Next]_vars => [Atomic!Next]_(Atomic!vars)
  <1> SUFFICES ASSUME LockInv, LockInv', [Next]_vars
               PROVE  [Atomic!Next]_(Atomic!vars)
    OBVIOUS
  <1>1. CASE UNCHANGED vars
    BY <1>1 DEF vars, Atomic!vars, settingsBar, phaseBar, answerBar,
                Linearized, Remaining
  <1>2. ASSUME NEW c \in Callers, Invoke(c) \/ QueueWriter(c) \/ Step(c)
        PROVE  [Atomic!Next]_(Atomic!vars)
    <2>1. CASE Invoke(c)
      BY <2>1, RefineInvoke DEF Atomic!Next
    <2>2. CASE QueueWriter(c) \/ EnterReader(c) \/ Sleep(c) \/ WriteField(c)
      BY <2>2, RefineQueueWriter, RefineEnterReader, RefineSleep,
         RefineWriteField
    <2>3. CASE ReadField(c)
      BY <2>3, RefineReadField DEF Atomic!Next
    <2>4. CASE EnterWriter(c)
      BY <2>4, RefineEnterWriter DEF Atomic!Next
    <2>5. CASE LeaveReader(c) \/ WakeUp(c) \/ LeaveWriter(c)
      BY <2>5, RefineLeaveReader, RefineWakeUp, RefineLeaveWriter
         DEF Atomic!Next
    <2> QED BY <1>2, <2>1, <2>2, <2>3, <2>4, <2>5 DEF Step
  <1> QED BY <1>1, <1>2 DEF Next

(* Whatever calls run concurrently, the injector is indistinguishable from  *)
(* one in which every call takes effect at a single instant.                *)
THEOREM InjectorIsAtomic == Spec => ImplementsAtomicInjector
  BY LockInvariant, RefineInit, RefineNext, PTL
     DEF Spec, ImplementsAtomicInjector, Atomic!Spec
=============================================================================
