-------------------------- MODULE EnvtestProxyProofs --------------------------
(***************************************************************************)
(* Theorems of EnvtestProxy for all values of its constants: its types, and *)
(* the safety properties of the request chain from the inductive invariant  *)
(* IInv.                                                                    *)
(***************************************************************************)
EXTENDS EnvtestProxy, ErrorConfigProofs, DrawsProofs

----------------------------------------------------------------------------
(* Operators of the draws and the answers.                                  *)

\* The types of the fields of a configuration.
LEMMA ConfigFields ==
    ASSUME NEW c \in Config
    PROVE  /\ c.enabled \in BOOLEAN
           /\ \A e \in HttpErrors : c.http[e] \in Int
           /\ \A e \in ConnErrors : c.conn[e] \in Int
           /\ c.adminKubeconfigErrorRate \in Int
           /\ c.tokenRequestErrorRate \in Int
           /\ c.invalidKubeconfigRate \in Int
           /\ c.expiredKubeconfigRate \in Int
           /\ c.tokenExpiredRate \in Int
           /\ c.shortTTLSeconds \in Int
           /\ \A s \in Shoots : c.failingShoots[s] \in Int
           /\ \A a \in ServiceAccounts : c.failingServiceAccounts[a] \in Int
BY ConfigAssumption DEF Config

\* A cumulative draw selects only an error type with a positive rate, for
\* every combination of rates, negative ones included.
THEOREM DrawnRateIsPositive ==
    ASSUME NEW c \in Config, NEW d \in Draw, NEW i \in 1 .. 6,
           FallsIn(HttpSums(c), d, i)
    PROVE  c.http[DrawnErrors[i]] > 0
<1> DEFINE R(e) == c.http[e]
<1>1. /\ R("unauthorized") \in Int /\ R("forbidden") \in Int
      /\ R("notFound") \in Int /\ R("serverError") \in Int
      /\ R("timeout") \in Int /\ R("rateLimit") \in Int
  BY ConfigFields DEF HttpErrors
<1>2. d \in Int /\ d >= 0
  BY ScaleAssumption DEF Draw
<1>3. CASE i = 1
  BY <1>1, <1>2, <1>3 DEF FallsIn, HttpSums, DrawnErrors
<1>4. CASE i # 1
  <2>1. HttpSums(c)[i] = HttpSums(c)[i - 1] + R(DrawnErrors[i])
    BY <1>1, <1>4 DEF HttpSums, DrawnErrors
  <2>2. d < HttpSums(c)[i] /\ d >= HttpSums(c)[i - 1]
    BY <1>4 DEF FallsIn
  <2>3. HttpSums(c)[i - 1] \in Int /\ R(DrawnErrors[i]) \in Int
    BY <1>1, <1>4 DEF HttpSums, DrawnErrors
  <2>4. QED BY <1>2, <2>1, <2>2, <2>3
<1>5. QED BY <1>3, <1>4

\* No type of the middleware's errors has a negative rate, and together they
\* take no more than all the draws.
Shareable(c) ==
    /\ \A e \in HttpErrors : c.http[e] >= 0
    /\ HttpSums(c)[6] <= Scale

\* Under such rates an error type of the injection middleware strikes with
\* exactly its rate, whatever the rates of the types tried before it.
THEOREM DrawnShare ==
    ASSUME NEW c \in Config, Shareable(c), NEW i \in 1 .. 6
    PROVE  Cardinality({d \in Draw : FallsIn(HttpSums(c), d, i)}) =
              c.http[DrawnErrors[i]]
<1> DEFINE sums  == HttpSums(c)
           rates == [j \in 1 .. 6 |-> c.http[DrawnErrors[j]]]
<1>1. \A j \in 1 .. 6 : DrawnErrors[j] \in HttpErrors
  BY DEF DrawnErrors, HttpErrors
<1>2. \A j \in 1 .. 6 : rates[j] \in Nat
  BY <1>1, ConfigFields DEF Shareable
<1>3. sums = SumsOf6(rates) /\ sums[6] <= Scale
  BY DEF HttpSums, SumsOf6, DrawnErrors, Shareable
<1> HIDE DEF sums, rates
<1>4. /\ Growing(sums) /\ DOMAIN sums = 1 .. 6
      /\ \A j \in 1 .. 6 : sums[j] - Floor(sums, j) = rates[j]
  BY <1>2, <1>3, SixSums
<1>5. Cardinality({d \in Draw : FallsIn(sums, d, i)}) = sums[i] - Floor(sums, i)
  BY <1>4, PartShare
<1>6. QED BY <1>4, <1>5 DEF sums, rates

\* selectAdminKubeconfigErrorType picks a server error and a timeout with their
\* rates, and the 429 not with its own rate but with all that is left: the
\* proportion README.md speaks of holds among the other two only.
THEOREM SelectionShare ==
    ASSUME NEW c \in Config, Shareable(c)
    PROVE  LET share(code) == Cardinality({d \in Draw : Selects(c, d, code)})
           IN  /\ share(500) = c.http["serverError"]
               /\ share(504) = c.http["timeout"]
               /\ share(429) =
                     Scale - (c.http["serverError"] + c.http["timeout"])
<1> DEFINE first   == c.http["rateLimit"]
           second  == c.http["serverError"]
           third   == c.http["timeout"]
           rates   == <<first, second, third>>
           sums    == SelectSums(c)
           part(i) == {d \in Draw : FallsIn(sums, d, i)}
           rest    == {d \in Draw : FallsPast(sums, d)}
<1>1. first \in Nat /\ second \in Nat /\ third \in Nat /\ Scale \in Nat
  BY ConfigFields, ScaleAssumption DEF Shareable, HttpErrors
<1>2. first + second + third <= Scale
  BY <1>1, ConfigFields DEF Shareable, HttpErrors, HttpSums
<1>3. /\ sums = SumsOf3(rates)
      /\ sums[1] = first /\ sums[3] = first + second + third
  BY DEF SelectSums, SumsOf3
<1>4. \A d \in Draw : \A code :
         Selects(c, d, code) <=> \/ d \in part(1) /\ code = 429
                                 \/ d \in part(2) /\ code = 500
                                 \/ d \in part(3) /\ code = 504
                                 \/ d \in rest /\ code = 429
  BY DEF Selects, SelectCodes
<1> HIDE DEF first, second, third, sums
<1>5. /\ Growing(sums) /\ Len(sums) = 3 /\ DOMAIN sums = 1 .. 3
      /\ \A i \in 1 .. 3 : sums[i] - Floor(sums, i) = rates[i]
  <2>1. \A i \in 1 .. 3 : rates[i] \in Nat
    BY <1>1
  <2>2. sums[3] <= Scale
    BY <1>2, <1>3
  <2> HIDE DEF rates
  <2>3. QED BY <1>3, <2>1, <2>2, ThreeSums
<1>6. \A i \in 1 .. 3 :
         /\ IsFiniteSet(part(i))
         /\ Cardinality(part(i)) = sums[i] - Floor(sums, i)
         /\ part(i) = Floor(sums, i) .. (sums[i] - 1)
  BY <1>5, PartShare
<1>7. /\ Cardinality(part(1)) = first /\ Cardinality(part(2)) = second
      /\ Cardinality(part(3)) = third
  BY <1>5, <1>6
<1>8. /\ IsFiniteSet(rest) /\ Cardinality(rest) = Scale - sums[3]
      /\ rest = sums[3] .. (Scale - 1)
  BY <1>5, RestShare
<1>9. part(1) \cap rest = {}
  <2>1. part(1) = 0 .. (sums[1] - 1)
    BY <1>6 DEF Floor
  <2>2. sums[1] <= sums[3] /\ sums[1] \in Int /\ sums[3] \in Int
    BY <1>1, <1>3
  <2>3. QED BY <1>1, <1>8, <2>1, <2>2
<1>10. Cardinality(part(1) \cup rest) = Scale - (second + third)
  <2>1. Cardinality(part(1) \cap rest) = 0
    BY <1>9, FS_EmptySet
  <2>2. Cardinality(part(1) \cup rest) =
           Cardinality(part(1)) + Cardinality(rest)
              - Cardinality(part(1) \cap rest)
    BY <1>6, <1>8, FS_Union
  <2>3. Cardinality(rest) = Scale - (first + second + third)
    BY <1>3, <1>8
  <2>4. QED BY <1>1, <1>7, <2>1, <2>2, <2>3
<1>11. /\ {d \in Draw : Selects(c, d, 500)} = part(2)
       /\ {d \in Draw : Selects(c, d, 504)} = part(3)
       /\ {d \in Draw : Selects(c, d, 429)} = part(1) \cup rest
  BY <1>4
<1>12. QED BY <1>7, <1>10, <1>11 DEF second, third

\* The sums are numbers.
LEMMA SumsInt ==
    ASSUME NEW c \in Config
    PROVE  HttpSums(c)[6] \in Int /\ SelectSums(c)[3] \in Int
BY ConfigFields DEF HttpSums, SelectSums, HttpErrors

\* A copy that lets a request past the injection middleware held no
\* connection error and no drawn errors that were certain.
LEMMA PassedIsPassable ==
    ASSUME NEW c \in Config, NoConnError(c),
           NEW d \in Draw, FallsPast(HttpSums(c), d)
    PROVE  Passable(c)
<1>1. ~ CertainBreak(c)
  BY ConfigFields, MissIsNotAlways DEF NoConnError, CertainBreak
<1>2. d >= HttpSums(c)[6]
  BY DEF FallsPast, HttpSums
<1>3. ~ CertainError(c)
  BY <1>2, SumsInt, ScaleAssumption DEF CertainError, Always, Draw
<1>4. QED BY <1>1, <1>3 DEF Passable

\* An operation error takes the code of a type with a positive rate, or the
\* 429 that stands for what the three rates leave of the draw.
THEOREM SelectedCodeIsConfigured ==
    ASSUME NEW c \in Config, NEW d \in Draw, NEW code, Selects(c, d, code)
    PROVE  /\ code \in {429, 500, 504}
           /\ \/ c.http[TypeOfCode(code)] > 0
              \/ code = 429 /\ ~ Always(SelectSums(c)[3])
<1> DEFINE R(e) == c.http[e]
<1>1. R("rateLimit") \in Int /\ R("serverError") \in Int /\ R("timeout") \in Int
  BY ConfigFields DEF HttpErrors
<1>2. d \in Int /\ d >= 0 /\ d < Scale /\ Scale \in Int
  BY ScaleAssumption DEF Draw
<1>3. /\ SelectSums(c)[1] = R("rateLimit")
      /\ SelectSums(c)[2] = R("rateLimit") + R("serverError")
      /\ SelectSums(c)[3] = R("rateLimit") + R("serverError") + R("timeout")
  BY DEF SelectSums
<1>4. /\ TypeOfCode(429) = "rateLimit" /\ TypeOfCode(500) = "serverError"
      /\ TypeOfCode(504) = "timeout"
  BY DEF TypeOfCode
<1>5. CASE FallsPast(SelectSums(c), d) /\ code = 429
  <2>1. d >= SelectSums(c)[3]
    BY <1>5 DEF FallsPast, SelectSums
  <2>2. QED BY <1>1, <1>2, <1>3, <1>5, <2>1 DEF Always
<1>6. ASSUME NEW i \in 1 .. 3, FallsIn(SelectSums(c), d, i),
             code = SelectCodes[i]
      PROVE  c.http[TypeOfCode(code)] > 0 /\ code \in {429, 500, 504}
  <2>1. CASE i = 1
    <3>1. code = 429 /\ d < SelectSums(c)[1]
      BY <1>6, <2>1 DEF FallsIn, SelectCodes
    <3>2. QED BY <1>1, <1>2, <1>3, <1>4, <3>1
  <2>2. CASE i = 2
    <3>1. code = 500 /\ d < SelectSums(c)[2] /\ d >= SelectSums(c)[1]
      BY <1>6, <2>2 DEF FallsIn, SelectCodes
    <3>2. QED BY <1>1, <1>2, <1>3, <1>4, <3>1
  <2>3. CASE i = 3
    <3>1. code = 504 /\ d < SelectSums(c)[3] /\ d >= SelectSums(c)[2]
      BY <1>6, <2>3 DEF FallsIn, SelectCodes
    <3>2. QED BY <1>1, <1>2, <1>3, <1>4, <3>1
  <2>4. QED BY <2>1, <2>2, <2>3
<1>7. QED BY <1>5, <1>6 DEF Selects

\* Whatever code is stored, the client gets a number or no answer.
LEMMA WriteHeaderInt == \A code \in Int : WriteHeader(code) \in Int
BY DEF WriteHeader, Closed

\* The lifetime asked for is a number, with or without a body.
LEMMA AskedInt == \A q \in Arrivals : Asked(q) \in Int
BY ProxyAssumption DEF Asked, Request

\* The code an object is marked with is a number.
LEMMA FailCodeInt ==
    ASSUME NEW c \in Config, NEW q \in Arrivals
    PROVE  FailCode(c, q) \in Int
BY ConfigFields, ProxyAssumption DEF FailCode, Request

\* The rate of the operation a handler serves is a number.
LEMMA OperationRateInt ==
    ASSUME NEW c \in Config, NEW q \in Arrivals
    PROVE  OperationRate(c, q) \in Int
BY ConfigFields DEF OperationRate

\* A copy that passes the tests of a handler holds no certain failure.
LEMMA NoErrorNotCertain ==
    ASSUME NEW c \in Config, NEW q \in Arrivals, NoOperationError(c, q)
    PROVE  ~ CertainFailure(c, q)
BY ConfigFields, OperationRateInt, MissIsNotAlways
   DEF NoOperationError, CallerNotExpired, CertainFailure,
       CallerCertainlyExpired

\* An answer without a credential is a reply.
LEMMA AnswerTyping ==
    ASSUME NEW cause \in Causes, NEW code \in Int
    PROVE  Answer(cause, code) \in Reply
BY DEF Answer, Reply

\* So are the answers whose code is fixed.
LEMMA PlainAnswers ==
    /\ Answer("restricted", 403) \in Reply
    /\ Answer("tokenExpired", 401) \in Reply
    /\ Answer("badBody", 400) \in Reply
    /\ Answer("shootNotFound", 404) \in Reply
    /\ Answer("upstream", 502) \in Reply
BY DEF Answer, Reply, Causes

\* An answer with a credential is a reply.
LEMMA IssuedTyping ==
    ASSUME NEW code \in Int, NEW credential \in {"valid", "invalid"},
           NEW expiry \in Int
    PROVE  Issued(code, credential, expiry) \in Reply
BY DEF Issued, Reply, Causes

\* The lifetime of a token is a number, overridden or not.
LEMMA TokenLifetimeInt ==
    ASSUME NEW c \in Config, NEW q \in Arrivals
    PROVE  TokenLifetime(c, q) \in Int
BY ConfigFields, AskedInt DEF TokenLifetime

\* What history records is a world.
LEMMA WorldTyping == ASSUME TypeOK PROVE World \in Worlds
<1>1. CurrentMap \in 1 .. Len(restrictedMaps)
  BY DEF TypeOK, ConfigTypeOK, CurrentMap
<1>2. restrictedMaps[CurrentMap] \in SUBSET ServiceAccounts
  BY <1>1 DEF TypeOK, ConfigTypeOK
<1>3. QED BY <1>2 DEF TypeOK, ConfigTypeOK, World, Worlds

----------------------------------------------------------------------------
(* Type correctness.                                                        *)

\* Most steps answer, or move on, and touch nothing shared.
LEMMA RespondTyping ==
    ASSUME TypeOK, NEW r \in Requests, NEW a \in Reply, Respond(r, a),
           UNCHANGED <<snap, ref>>, Local
    PROVE  TypeOK'
BY DEF TypeOK, ConfigTypeOK, Respond, MoveTo, Local, configVars, Stages

\* A request that only moves on keeps the types.
LEMMA MoveTyping ==
    ASSUME TypeOK, NEW r \in Requests, NEW there \in Stages,
           MoveTo(r, there), UNCHANGED <<snap, ref, reply>>, Local
    PROVE  TypeOK'
BY DEF TypeOK, ConfigTypeOK, MoveTo, Local, configVars

\* So does one that copies the configuration.
LEMMA SnapshotTyping ==
    ASSUME TypeOK, NEW r \in Requests, NEW there \in Stages,
           snap' = [snap EXCEPT ![r] = config],
           MoveTo(r, there), UNCHANGED <<ref, reply>>, Local
    PROVE  TypeOK'
BY DEF TypeOK, ConfigTypeOK, MoveTo, Local, configVars

\* The initial states have their types.
LEMMA InitTyping == Init => TypeOK
<1> SUFFICES ASSUME Init PROVE TypeOK
  OBVIOUS
<1>1. ConfigTypeOK /\ CurrentMap = 1
  BY ConfigInitTyping DEF Init, ConfigInit, CurrentMap
<1>2. NoReply \in Reply
  BY AnswerTyping DEF NoReply, Causes, Closed
<1>3. Len(restrictedMaps) = 1
  BY DEF Init, ConfigInit
<1>4. QED
  BY <1>1, <1>2, <1>3, NewConfigTyping DEF Init, TypeOK, Stages

\* A step that changes the world keeps the types, if what it does to the
\* shared state does.
LEMMA ObserveTyping ==
    ASSUME TypeOK, Observe, World' \in Worlds
    PROVE  seen' \in [Requests -> SUBSET Worlds]
BY DEF TypeOK, Observe

\* Management calls keep the types.
LEMMA ManageTyping == ASSUME TypeOK, Manage PROVE TypeOK'
<1>1. ConfigTypeOK' /\ MapsEvolve
  BY ManagementTyping DEF TypeOK, Manage
<1>2. /\ shoots' \subseteq Shoots
      /\ pc' \in [Requests -> Stages]
      /\ req' \in [Requests -> Arrivals]
      /\ snap' \in [Requests -> Config]
      /\ reply' \in [Requests -> Reply]
  BY DEF TypeOK, Manage, requestVars
<1>3. ref' \in [Requests -> 1 .. Len(restrictedMaps')]
  BY <1>1 DEF TypeOK, Manage, requestVars, MapsEvolve, CurrentMap
<1>4. World' \in Worlds
  <2>1. CurrentMap' \in 1 .. Len(restrictedMaps')
    BY <1>1 DEF MapsEvolve, CurrentMap
  <2>2. restrictedMaps'[CurrentMap'] \in SUBSET ServiceAccounts
    BY <1>1, <2>1 DEF ConfigTypeOK
  <2>3. QED BY <1>1, <1>2, <2>2 DEF ConfigTypeOK, World, Worlds
<1>5. seen' \in [Requests -> SUBSET Worlds]
  BY <1>4, ObserveTyping DEF Manage
<1>6. QED BY <1>1, <1>2, <1>3, <1>5 DEF TypeOK

\* An arrival keeps the types.
LEMMA ArriveTyping ==
    ASSUME TypeOK, NEW r \in Requests, Arrive(r)
    PROVE  TypeOK'
<1>1. seen' \in [Requests -> SUBSET Worlds]
  BY WorldTyping DEF TypeOK, Arrive
<1>2. pc' \in [Requests -> Stages]
  BY DEF TypeOK, Arrive, MoveTo, Stages
<1>3. QED BY <1>1, <1>2 DEF TypeOK, ConfigTypeOK, Arrive, configVars

\* After the middleware a request is at a handler or is forwarded.
LEMMA NextHandlerStage == \A q : NextHandler(q) \in Stages
BY DEF NextHandler, Stages

\* The injection middleware keeps the types.
LEMMA InjectionTyping ==
    ASSUME TypeOK, NEW r \in Requests,
           \/ SnapshotRates(r) \/ BreakConnection(r) \/ StartTimeout(r)
           \/ FinishTimeout(r) \/ InjectHttpError(r) \/ PassInjection(r)
    PROVE  TypeOK'
<1>1. CASE SnapshotRates(r)
  BY <1>1, SnapshotTyping DEF SnapshotRates, Stages
<1>2. CASE BreakConnection(r)
  <2>1. PICK i \in {1, 2}, hijacked \in BOOLEAN :
           Respond(r, Answer(ConnOrder[i], IF hijacked THEN Closed
                                           ELSE FallbackCode(ConnOrder[i])))
    BY <1>2 DEF BreakConnection
  <2>2. ConnOrder[i] \in Causes
    BY DEF ConnOrder, Causes, ConnErrors
  <2>3. (IF hijacked THEN Closed ELSE FallbackCode(ConnOrder[i])) \in Int
    BY DEF ConnOrder, Closed, FallbackCode
  <2>4. QED
    BY <1>2, <2>1, <2>2, <2>3, AnswerTyping, RespondTyping
       DEF BreakConnection
<1>3. CASE StartTimeout(r)
  BY <1>3, MoveTyping DEF StartTimeout, Stages
<1>4. CASE FinishTimeout(r)
  <2>1. PICK hijacked \in BOOLEAN :
           Respond(r, Answer("ioTimeout", IF hijacked THEN Closed
                                          ELSE FallbackCode("ioTimeout")))
    BY <1>4 DEF FinishTimeout
  <2>2. /\ "ioTimeout" \in Causes
        /\ (IF hijacked THEN Closed ELSE FallbackCode("ioTimeout")) \in Int
    BY DEF Causes, ConnErrors, Closed, FallbackCode
  <2>3. QED
    BY <1>4, <2>1, <2>2, AnswerTyping, RespondTyping DEF FinishTimeout
<1>5. CASE InjectHttpError(r)
  <2>1. PICK d \in Draw, i \in 1 .. 6 :
           Respond(r, Answer(DrawnErrors[i], DrawnCodes[i]))
    BY <1>5 DEF InjectHttpError
  <2>2. DrawnErrors[i] \in Causes /\ DrawnCodes[i] \in Int
    BY DEF DrawnErrors, DrawnCodes, Causes, HttpErrors
  <2>3. QED
    BY <1>5, <2>1, <2>2, AnswerTyping, RespondTyping DEF InjectHttpError
<1>6. CASE PassInjection(r)
  BY <1>6, MoveTyping, NextHandlerStage DEF PassInjection, Stages
<1>7. QED BY <1>1, <1>2, <1>3, <1>4, <1>5, <1>6

\* The restriction middleware keeps the types.
LEMMA RestrictionTyping ==
    ASSUME TypeOK, NEW r \in Requests,
           CaptureRestricted(r) \/ CheckEmpty(r) \/ LookupRestricted(r)
    PROVE  TypeOK'
<1>1. CASE CaptureRestricted(r)
  <2>1. CurrentMap \in 1 .. Len(restrictedMaps)
    BY DEF TypeOK, ConfigTypeOK, CurrentMap
  <2>2. pc' \in [Requests -> Stages]
    BY <1>1, NextHandlerStage DEF TypeOK, CaptureRestricted, MoveTo, Stages
  <2>3. QED
    BY <1>1, <2>1, <2>2
       DEF TypeOK, ConfigTypeOK, CaptureRestricted, Local, configVars
<1>2. CASE CheckEmpty(r)
  BY <1>2, MoveTyping, NextHandlerStage DEF CheckEmpty, Stages
<1>3. CASE LookupRestricted(r)
  <2>1. CASE Respond(r, Answer("restricted", 403))
    BY <1>3, <2>1, PlainAnswers, RespondTyping DEF LookupRestricted
  <2>2. CASE MoveTo(r, NextHandler(req[r])) /\ UNCHANGED reply
    <3>1. NextHandler(req[r]) \in Stages /\ UNCHANGED <<snap, ref, reply>>
      BY <1>3, <2>2, NextHandlerStage DEF LookupRestricted
    <3>2. Local
      BY <1>3 DEF LookupRestricted
    <3>3. QED BY <2>2, <3>1, <3>2, MoveTyping
  <2>3. QED BY <1>3, <2>1, <2>2 DEF LookupRestricted
<1>4. QED BY <1>1, <1>2, <1>3

\* The handlers keep the types up to the issue of a credential.
LEMMA HandlerTyping ==
    ASSUME TypeOK, NEW r \in Requests,
           \/ SnapshotHandler(r) \/ FailObject(r) \/ ExpireCaller(r)
           \/ InjectOperationError(r) \/ FailBody(r) \/ ReadBody(r)
           \/ GetShoot(r)
    PROVE  TypeOK'
<1>0. snap[r] \in Config /\ req[r] \in Arrivals
  BY DEF TypeOK
<1>1. CASE SnapshotHandler(r)
  BY <1>1, SnapshotTyping DEF SnapshotHandler, Stages
<1>2. CASE FailObject(r)
  <2>1. WriteHeader(FailCode(snap[r], req[r])) \in Int
    BY <1>0, FailCodeInt, WriteHeaderInt
  <2>2. Answer("failing", WriteHeader(FailCode(snap[r], req[r]))) \in Reply
    BY <2>1, AnswerTyping DEF Causes
  <2>3. QED BY <1>2, <2>2, RespondTyping DEF FailObject
<1>3. CASE ExpireCaller(r)
  BY <1>3, PlainAnswers, RespondTyping DEF ExpireCaller
<1>4. CASE InjectOperationError(r)
  <2>1. PICK code \in {429, 500, 504} : Respond(r, Answer("operation", code))
    BY <1>4 DEF InjectOperationError
  <2>2. QED
    BY <1>4, <2>1, AnswerTyping, RespondTyping
       DEF InjectOperationError, Causes
<1>5. CASE FailBody(r)
  BY <1>5, PlainAnswers, RespondTyping DEF FailBody
<1>6. CASE ReadBody(r)
  BY <1>6, MoveTyping DEF ReadBody, Stages
<1>7. CASE GetShoot(r)
  <2>1. CASE MoveTo(r, "issue") /\ UNCHANGED reply
    BY <1>7, <2>1, MoveTyping DEF GetShoot, Stages
  <2>2. CASE Respond(r, Answer("shootNotFound", 404))
    BY <1>7, <2>2, PlainAnswers, RespondTyping DEF GetShoot
  <2>3. QED BY <1>7, <2>1, <2>2 DEF GetShoot
<1>8. QED BY <1>1, <1>2, <1>3, <1>4, <1>5, <1>6, <1>7

\* Issuing a credential keeps the types.
LEMMA IssueTyping ==
    ASSUME TypeOK, NEW r \in Requests,
           \/ IssueInvalid(r) \/ IssueExpired(r) \/ IssueKubeconfig(r)
           \/ IssueToken(r) \/ MintServiceAccountKubeconfig(r)
    PROVE  TypeOK'
<1>0. /\ snap[r] \in Config /\ config \in Config
      /\ Asked(req[r]) \in Int /\ HourAgo \in Int
      /\ TokenLifetime(snap[r], req[r]) \in Int
      /\ TokenLifetime(config, req[r]) \in Int
      /\ snap[r].shortTTLSeconds \in Int
  BY AskedInt, TokenLifetimeInt, ConfigFields
     DEF TypeOK, ConfigTypeOK, HourAgo
<1>1. CASE IssueInvalid(r)
  BY <1>0, <1>1, IssuedTyping, RespondTyping DEF IssueInvalid
<1>2. CASE IssueExpired(r)
  BY <1>0, <1>2, IssuedTyping, RespondTyping DEF IssueExpired
<1>3. CASE IssueKubeconfig(r)
  <2>1. (IF snap[r].enabled /\ snap[r].shortTTLSeconds > 0
         THEN snap[r].shortTTLSeconds ELSE Asked(req[r])) \in Int
    BY <1>0
  <2>2. QED BY <1>3, <2>1, IssuedTyping, RespondTyping DEF IssueKubeconfig
<1>4. CASE IssueToken(r)
  <2>1. CASE Respond(r, Issued(200, "valid", HourAgo))
    BY <1>0, <1>4, <2>1, IssuedTyping, RespondTyping DEF IssueToken
  <2>2. CASE Respond(r, Issued(200, "valid",
                               TokenLifetime(snap[r], req[r])))
    BY <1>0, <1>4, <2>2, IssuedTyping, RespondTyping DEF IssueToken
  <2>3. QED BY <1>4, <2>1, <2>2 DEF IssueToken
<1>5. CASE MintServiceAccountKubeconfig(r)
  BY <1>0, <1>5, IssuedTyping, RespondTyping
     DEF MintServiceAccountKubeconfig
<1>6. QED BY <1>1, <1>2, <1>3, <1>4, <1>5

\* The reverse proxy keeps the types.
LEMMA ForwardTyping ==
    ASSUME TypeOK, NEW r \in Requests, Forward(r) \/ ForwardFails(r)
    PROVE  TypeOK'
<1>1. CASE Forward(r)
  <2>1. /\ ApiServer(req[r]).code \in Int
        /\ ApiServer(req[r]).shoots \subseteq Shoots
    BY ProxyAssumption DEF TypeOK, ApiServer, Request
  <2>2. Answer("upstream", ApiServer(req[r]).code) \in Reply
    BY <2>1, AnswerTyping DEF Causes
  <2>3. /\ reply' \in [Requests -> Reply]
        /\ pc' \in [Requests -> Stages]
        /\ shoots' \subseteq Shoots
    BY <1>1, <2>1, <2>2 DEF TypeOK, Forward, Respond, MoveTo, Stages
  <2>4. World' \in Worlds
    <3>1. World \in Worlds
      BY WorldTyping
    <3>2. World' = [World EXCEPT !.shoots = shoots']
      BY <1>1 DEF Forward, configVars, World, CurrentMap
    <3>3. QED BY <2>3, <3>1, <3>2 DEF Worlds
  <2>5. seen' \in [Requests -> SUBSET Worlds]
    BY <1>1, <2>4, ObserveTyping DEF Forward
  <2>6. QED
    BY <1>1, <2>3, <2>5 DEF TypeOK, ConfigTypeOK, Forward, configVars
<1>2. CASE ForwardFails(r)
  BY <1>2, PlainAnswers, RespondTyping DEF ForwardFails
<1>3. QED BY <1>1, <1>2

\* Every step keeps the types.
LEMMA NextTyping == TypeOK /\ [Next]_vars => TypeOK'
<1> SUFFICES ASSUME TypeOK, [Next]_vars PROVE TypeOK'
  OBVIOUS
<1>1. ASSUME NEW r \in Requests, Arrive(r) PROVE TypeOK'
  BY <1>1, ArriveTyping
<1>2. ASSUME NEW r \in Requests, Step(r) PROVE TypeOK'
  BY <1>2, InjectionTyping, RestrictionTyping, HandlerTyping, IssueTyping,
     ForwardTyping DEF Step
<1>3. CASE Manage
  BY <1>3, ManageTyping
<1>4. CASE UNCHANGED vars
  BY <1>4 DEF vars, configVars, requestVars, TypeOK, ConfigTypeOK
<1>5. QED BY <1>1, <1>2, <1>3, <1>4 DEF Next

\* Every reachable state of the proxy is well typed: in particular a captured
\* map exists, and an answer's code and expiry are numbers.
THEOREM TypeCorrect == Spec => []TypeOK
<1>1. QED BY InitTyping, NextTyping, PTL DEF Spec

----------------------------------------------------------------------------
(* The inductive invariant.                                                 *)

\* A request is not disturbed by a local step of another one.
LEMMA Undisturbed ==
    ASSUME NEW q \in Requests, RequestInv(q), Local,
           pc'[q] = pc[q], snap'[q] = snap[q], ref'[q] = ref[q],
           reply'[q] = reply[q]
    PROVE  RequestInv(q)'
<1>1. /\ seen' = seen /\ req' = req
      /\ World' = World /\ restrictedMaps' = restrictedMaps
  BY DEF Local, configVars, World, CurrentMap
<1>2. (InFlight(q) => World \in seen[q])'
  BY <1>1 DEF RequestInv, InFlight
<1>3. SnapSeen(q)'
  BY <1>1 DEF RequestInv, SnapSeen
<1>4. RefSeen(q)'
  BY <1>1 DEF RequestInv, RefSeen
<1>5. StageFits(q)'
  BY <1>1 DEF RequestInv, StageFits
<1>6. (PastRestriction(q) => MayBeAdmitted(seen[q], req[q]))'
  BY <1>1 DEF RequestInv, PastRestriction, Answered
<1>7. AnswerFits(q)'
  BY <1>1 DEF RequestInv, AnswerFits, Answered
<1>8. (PastInjection(q) => MayPass(seen[q], req[q]))'
  BY <1>1 DEF RequestInv, PastInjection, Answered
<1>9. QED BY <1>2, <1>3, <1>4, <1>5, <1>6, <1>7, <1>8 DEF RequestInv

\* Answering needs an explanation of the answer and, past a middleware, the
\* right to be there.
LEMMA RespondInv ==
    ASSUME IInv, NEW r \in Requests, NEW a \in Reply, Respond(r, a),
           UNCHANGED <<snap, ref>>, Local,
           AnswerExplained(seen[r], req[r], a),
           GhostFree(seen[r], req[r], a),
           a.credential # "none" => a.cause = "issued",
           \/ MayPass(seen[r], req[r])
           \/ a.cause \in ConnErrors \cup HttpErrors,
           \/ MayBeAdmitted(seen[r], req[r])
           \/ a.cause \in ConnErrors \cup HttpErrors \cup {"restricted"}
    PROVE  IInv'
<1>1. TypeOK'
  BY RespondTyping DEF IInv
<1>2. /\ pc' = [pc EXCEPT ![r] = "done"]
      /\ reply' = [reply EXCEPT ![r] = a]
      /\ seen' = seen /\ req' = req
  BY DEF Respond, MoveTo, Local
<1>3. pc'[r] = "done" /\ reply'[r] = a
  BY <1>2 DEF IInv, TypeOK
<1>4. RequestInv(r)'
  <2>1. /\ (InFlight(r) => World \in seen[r])'
        /\ SnapSeen(r)' /\ RefSeen(r)' /\ StageFits(r)'
    BY <1>3 DEF InFlight, SnapSeen, RefSeen, StageFits
  <2>2. /\ (PastInjection(r) => MayPass(seen[r], req[r]))'
        /\ (PastRestriction(r) => MayBeAdmitted(seen[r], req[r]))'
    BY <1>2, <1>3 DEF PastInjection, PastRestriction, Answered
  <2>3. AnswerFits(r)'
    BY <1>2, <1>3 DEF AnswerFits
  <2>4. QED BY <2>1, <2>2, <2>3 DEF RequestInv
<1>5. ASSUME NEW q \in Requests, q # r PROVE RequestInv(q)'
  <2>1. pc'[q] = pc[q] /\ reply'[q] = reply[q]
    BY <1>2, <1>5 DEF IInv, TypeOK
  <2>2. QED BY <1>5, <2>1, Undisturbed DEF IInv
<1>6. QED BY <1>1, <1>4, <1>5 DEF IInv

\* Moving on from one stage to the next.
LEMMA MoveInv ==
    ASSUME IInv, NEW r \in Requests, NEW there \in Stages, MoveTo(r, there),
           \A q \in Requests \ {r} : snap'[q] = snap[q] /\ ref'[q] = ref[q],
           UNCHANGED reply, Local, TypeOK',
           InFlight(r), there \notin {"idle", "done"},
           SnapSeen(r)', RefSeen(r)', StageFits(r)',
           there \in {"restrict", "emptycheck", "lookup", "handler", "decide",
                      "get", "issue", "forward"} =>
              MayPass(seen[r], req[r]),
           there \in {"handler", "decide", "get", "issue", "forward"} =>
              MayBeAdmitted(seen[r], req[r])
    PROVE  IInv'
<1>1. pc' = [pc EXCEPT ![r] = there] /\ pc'[r] = there
  BY DEF MoveTo, IInv, TypeOK
<1>2. seen' = seen /\ req' = req /\ World' = World
  BY DEF Local, configVars, World, CurrentMap
<1>3. RequestInv(r)'
  <2>1. (InFlight(r) => World \in seen[r])'
    BY <1>2 DEF IInv, RequestInv
  <2>2. /\ (PastInjection(r) => MayPass(seen[r], req[r]))'
        /\ (PastRestriction(r) => MayBeAdmitted(seen[r], req[r]))'
    BY <1>1, <1>2 DEF PastInjection, PastRestriction, Answered
  <2>3. AnswerFits(r)'
    BY <1>1 DEF AnswerFits, Answered
  <2>4. QED BY <2>1, <2>2, <2>3 DEF RequestInv
<1>4. ASSUME NEW q \in Requests, q # r PROVE RequestInv(q)'
  <2>1. pc'[q] = pc[q] /\ reply'[q] = reply[q]
    BY <1>1, <1>4 DEF IInv, TypeOK
  <2>2. QED BY <1>4, <2>1, Undisturbed DEF IInv
<1>5. QED BY <1>3, <1>4 DEF IInv

\* The world may change around a request: its history only grows, the current
\* world stays in it, and a captured map keeps its contents or is current.
LEMMA WorldChange ==
    ASSUME IInv, Observe, MapsEvolve, NEW q \in Requests,
           pc'[q] = pc[q], req' = req, snap'[q] = snap[q], ref'[q] = ref[q],
           reply'[q] = reply[q]
    PROVE  RequestInv(q)'
<1>1. /\ InFlight(q) => seen'[q] = seen[q] \cup {World'}
      /\ ~ InFlight(q) => seen'[q] = seen[q]
  BY DEF Observe, IInv, TypeOK
<1>2. seen[q] \subseteq seen'[q]
  BY <1>1
<1>3. InFlight(q)' <=> InFlight(q)
  BY DEF InFlight
<1>4. (InFlight(q) => World \in seen[q])'
  BY <1>1, <1>3
<1>5. SnapSeen(q)'
  BY <1>2 DEF IInv, RequestInv, SnapSeen
<1>6. RefSeen(q)'
  <2>1. SUFFICES ASSUME pc[q] \in {"emptycheck", "lookup"}
                 PROVE  /\ \E w \in seen'[q] : w.cfg.enabled
                        /\ \E w \in seen'[q] :
                              w.restricted = restrictedMaps'[ref[q]]
    BY DEF RefSeen
  <2>2. InFlight(q)
    BY <2>1 DEF InFlight
  <2>3. /\ \E w \in seen[q] : w.cfg.enabled
        /\ \E w \in seen[q] : w.restricted = restrictedMaps[ref[q]]
    BY <2>1 DEF IInv, RequestInv, RefSeen
  <2>4. ref[q] \in 1 .. CurrentMap
    BY DEF IInv, TypeOK, CurrentMap
  <2>5. CASE ref[q] = CurrentMap'
    <3>1. World'.restricted = restrictedMaps'[ref[q]]
      BY <2>5 DEF World
    <3>2. World' \in seen'[q]
      BY <1>1, <2>2
    <3>3. QED BY <1>2, <2>3, <3>1, <3>2
  <2>6. CASE ref[q] # CurrentMap'
    <3>1. restrictedMaps'[ref[q]] = restrictedMaps[ref[q]]
      BY <2>4, <2>6 DEF MapsEvolve
    <3>2. QED BY <1>2, <2>3, <3>1
  <2>7. QED BY <2>5, <2>6
<1>7. StageFits(q)'
  BY <1>2 DEF IInv, RequestInv, StageFits
<1>8. (PastRestriction(q) => MayBeAdmitted(seen[q], req[q]))'
  BY <1>2 DEF IInv, RequestInv, PastRestriction, Answered, MayBeAdmitted
<1>9. (PastInjection(q) => MayPass(seen[q], req[q]))'
  BY <1>2 DEF IInv, RequestInv, PastInjection, Answered, MayPass
<1>10. AnswerFits(q)'
  <2>1. CASE pc[q] = "done"
    <3>1. seen'[q] = seen[q]
      BY <1>1, <2>1 DEF InFlight
    <3>2. QED BY <3>1 DEF IInv, RequestInv, AnswerFits, Answered
  <2>2. CASE pc[q] # "done"
    BY <2>2 DEF AnswerFits, Answered
  <2>3. QED BY <2>1, <2>2
<1>11. QED
  BY <1>4, <1>5, <1>6, <1>7, <1>8, <1>9, <1>10 DEF RequestInv

\* A management call changes the world and no request's own state.
LEMMA ManageInv == ASSUME IInv, Manage PROVE IInv'
<1>1. TypeOK' /\ MapsEvolve
  BY ManageTyping, ManagementTyping DEF IInv, TypeOK, Manage
<1>2. ASSUME NEW q \in Requests PROVE RequestInv(q)'
  BY <1>1, WorldChange DEF Manage, requestVars
<1>3. QED BY <1>1, <1>2 DEF IInv

\* A request that arrives has seen the present world.
LEMMA ArriveInv == ASSUME IInv, NEW r \in Requests, Arrive(r) PROVE IInv'
<1>1. TypeOK'
  BY ArriveTyping DEF IInv
<1>2. /\ pc'[r] = IF req[r].kind = "sakubeconfig" THEN "mint" ELSE "arrived"
      /\ seen'[r] = {World}
      /\ World' = World
  BY DEF IInv, TypeOK, Arrive, MoveTo, configVars, World, CurrentMap
<1>3. RequestInv(r)'
  <2>1. (InFlight(r) => World \in seen[r])'
    BY <1>2
  <2>2. StageFits(r)'
    BY <1>2 DEF StageFits, Arrive
  <2>3. /\ SnapSeen(r)' /\ RefSeen(r)' /\ AnswerFits(r)'
        /\ (PastInjection(r) => MayPass(seen[r], req[r]))'
        /\ (PastRestriction(r) => MayBeAdmitted(seen[r], req[r]))'
    BY <1>2 DEF SnapSeen, RefSeen, AnswerFits, PastInjection,
                PastRestriction, Answered
  <2>4. QED BY <2>1, <2>2, <2>3 DEF RequestInv
<1>4. ASSUME NEW q \in Requests, q # r PROVE RequestInv(q)'
  <2>1. /\ pc'[q] = pc[q] /\ seen'[q] = seen[q] /\ req' = req
        /\ snap' = snap /\ ref' = ref /\ reply' = reply
        /\ World' = World /\ restrictedMaps' = restrictedMaps
    BY <1>4 DEF IInv, TypeOK, Arrive, MoveTo, configVars, World, CurrentMap
  <2>2. RequestInv(q)
    BY DEF IInv
  <2>3. (InFlight(q) => World \in seen[q])' /\ SnapSeen(q)' /\ RefSeen(q)'
    BY <2>1, <2>2 DEF RequestInv, InFlight, SnapSeen, RefSeen
  <2>4. StageFits(q)'
    BY <2>1, <2>2 DEF RequestInv, StageFits
  <2>5. /\ (PastInjection(q) => MayPass(seen[q], req[q]))'
        /\ (PastRestriction(q) => MayBeAdmitted(seen[q], req[q]))'
        /\ AnswerFits(q)'
    BY <2>1, <2>2
       DEF RequestInv, PastInjection, PastRestriction, AnswerFits, Answered
  <2>6. QED BY <2>3, <2>4, <2>5 DEF RequestInv
<1>5. QED BY <1>1, <1>3, <1>4 DEF IInv

----------------------------------------------------------------------------
(* Which answers a configuration explains, one kind of answer at a time.    *)

\* A broken connection is explained by the rates it was drawn from.
LEMMA ConnExplained ==
    ASSUME NEW c, NEW q, NEW e \in ConnErrors, NEW code,
           c.enabled, c.conn[e] > 0
    PROVE  ConfigExplains(c, q, Answer(e, code))
BY DEF ConfigExplains, Answer, ConnErrors, HttpErrors

\* A drawn error is explained by the rates it was drawn from.
LEMMA HttpExplained ==
    ASSUME NEW c \in Config, NoConnError(c), NEW q,
           NEW d \in Draw, NEW i \in 1 .. 6, FallsIn(HttpSums(c), d, i)
    PROVE  ConfigExplains(c, q, Answer(DrawnErrors[i], DrawnCodes[i]))
<1>1. c.http[DrawnErrors[i]] > 0
  BY DrawnRateIsPositive
<1>2. DrawnErrors[i] \in HttpErrors /\ DrawnErrors[i] \notin ConnErrors
  BY DEF DrawnErrors, HttpErrors, ConnErrors
<1>3. /\ Answer(DrawnErrors[i], DrawnCodes[i]).cause = DrawnErrors[i]
      /\ Answer(DrawnErrors[i], DrawnCodes[i]).code = DrawnCodes[i]
  BY DEF Answer
<1>4. ~ CertainBreak(c)
  BY ConfigFields, MissIsNotAlways DEF NoConnError, CertainBreak
<1>5. QED BY <1>1, <1>2, <1>3, <1>4 DEF ConfigExplains, HttpErrors, ConnErrors

\* A per-object failure is explained by the mark it was read from.
LEMMA FailingExplained ==
    ASSUME NEW c, NEW q, FailCode(c, q) # 0
    PROVE  ConfigExplains(c, q, Answer("failing", WriteHeader(FailCode(c, q))))
BY DEF ConfigExplains, Answer, ConnErrors, HttpErrors

\* A 401 for an expired caller is explained by its rate.
LEMMA TokenExpiredExplained ==
    ASSUME NEW c, NEW q, c.enabled, c.tokenExpiredRate > 0, FailCode(c, q) = 0
    PROVE  ConfigExplains(c, q, Answer("tokenExpired", 401))
BY DEF ConfigExplains, Answer, ConnErrors, HttpErrors

\* An operation's error is explained by the operation's rate.
LEMMA OperationErrorExplained ==
    ASSUME NEW c, NEW q, NEW code,
           OperationExplained(c, q, Answer("operation", code))
    PROVE  ConfigExplains(c, q, Answer("operation", code))
BY DEF ConfigExplains, Answer, ConnErrors, HttpErrors

\* A bad body and a missing shoot are met only where no failure is certain.
LEMMA RefusedExplained ==
    ASSUME NEW c, NEW q, NEW code, ~ CertainFailure(c, q)
    PROVE  /\ ConfigExplains(c, q, Answer("badBody", code))
           /\ ConfigExplains(c, q, Answer("shootNotFound", code))
BY DEF ConfigExplains, Answer, ConnErrors, HttpErrors

\* What the API server answers needs no explanation.
LEMMA UpstreamExplained ==
    ASSUME NEW c, NEW q, NEW code
    PROVE  ConfigExplains(c, q, Answer("upstream", code))
BY DEF ConfigExplains, Answer, ConnErrors, HttpErrors

\* An admin kubeconfig is explained by the copy it was built from.
LEMMA KubeconfigIssueExplained ==
    ASSUME NEW c, NEW q, NEW code, NEW credential, NEW expiry,
           q.kind = "adminkubeconfig",
           KubeconfigExplained(c, q, Issued(code, credential, expiry))
    PROVE  ConfigExplains(c, q, Issued(code, credential, expiry))
BY DEF ConfigExplains, Issued, ConnErrors, HttpErrors

\* A token is explained by the copy it was built from.
LEMMA TokenIssueExplained ==
    ASSUME NEW c, NEW q, NEW code, NEW credential, NEW expiry,
           q.kind # "adminkubeconfig",
           TokenExplained(c, q, Issued(code, credential, expiry))
    PROVE  ConfigExplains(c, q, Issued(code, credential, expiry))
BY DEF ConfigExplains, Issued, ConnErrors, HttpErrors

\* A stage that works on a copy has its explanation in the history.
LEMMA ExplainedBySnapshot ==
    ASSUME IInv, NEW r \in Requests,
           pc[r] \in {"inject", "sleeping", "decide", "get", "issue"},
           NEW a, a.cause # "restricted", ConfigExplains(snap[r], req[r], a)
    PROVE  AnswerExplained(seen[r], req[r], a)
BY DEF IInv, RequestInv, SnapSeen, AnswerExplained

\* So has one that reads the current configuration.
LEMMA ExplainedNow ==
    ASSUME IInv, NEW r \in Requests, InFlight(r),
           NEW a, a.cause # "restricted", ConfigExplains(config, req[r], a)
    PROVE  AnswerExplained(seen[r], req[r], a)
BY DEF IInv, RequestInv, World, AnswerExplained

\* A plain answer carries no credential.
LEMMA PlainAnswer ==
    ASSUME NEW cause, NEW code, NEW ws, NEW q
    PROVE  /\ GhostFree(ws, q, Answer(cause, code))
           /\ Answer(cause, code).credential = "none"
           /\ Answer(cause, code).cause = cause
BY DEF GhostFree, Answer

----------------------------------------------------------------------------
(* The steps of a request keep the invariant.                                *)

\* The answers of the injection middleware keep the invariant.
LEMMA InjectionAnswersInv ==
    ASSUME IInv, NEW r \in Requests,
           BreakConnection(r) \/ FinishTimeout(r) \/ InjectHttpError(r)
    PROVE  IInv'
<1>0. snap[r] \in Config
  BY DEF IInv, TypeOK
<1>1. ASSUME NEW e \in ConnErrors, NEW code \in Int,
             snap[r].enabled, snap[r].conn[e] > 0,
             pc[r] \in {"inject", "sleeping"},
             Respond(r, Answer(e, code)), UNCHANGED <<snap, ref>>, Local
      PROVE  IInv'
  <2>1. Answer(e, code) \in Reply
    BY AnswerTyping DEF Causes
  <2>2. e # "restricted"
    BY DEF ConnErrors
  <2>3. AnswerExplained(seen[r], req[r], Answer(e, code))
    BY <1>1, <2>2, ConnExplained, ExplainedBySnapshot, PlainAnswer
  <2>4. QED BY <1>1, <2>1, <2>3, PlainAnswer, RespondInv
<1>2. CASE BreakConnection(r)
  <2>1. PICK i \in {1, 2}, hijacked \in BOOLEAN :
           /\ ConnErrorHits(snap[r], i)
           /\ Respond(r, Answer(ConnOrder[i],
                                IF hijacked THEN Closed
                                            ELSE FallbackCode(ConnOrder[i])))
    BY <1>2 DEF BreakConnection
  <2>2. /\ ConnOrder[i] \in ConnErrors
        /\ (IF hijacked THEN Closed ELSE FallbackCode(ConnOrder[i])) \in Int
    BY DEF ConnOrder, ConnErrors, Closed, FallbackCode
  <2>3. snap[r].enabled /\ snap[r].conn[ConnOrder[i]] > 0
    BY <1>0, <2>1, <2>2, ConfigFields, HitIsPositive DEF ConnErrorHits
  <2>4. QED BY <1>1, <1>2, <2>1, <2>2, <2>3 DEF BreakConnection
<1>3. CASE FinishTimeout(r)
  <2>1. PICK hijacked \in BOOLEAN :
           Respond(r, Answer("ioTimeout", IF hijacked THEN Closed
                                          ELSE FallbackCode("ioTimeout")))
    BY <1>3 DEF FinishTimeout
  <2>2. /\ "ioTimeout" \in ConnErrors
        /\ (IF hijacked THEN Closed ELSE FallbackCode("ioTimeout")) \in Int
    BY DEF ConnErrors, Closed, FallbackCode
  <2>3. snap[r].enabled /\ snap[r].conn["ioTimeout"] > 0
    BY <1>3 DEF FinishTimeout, IInv, RequestInv, StageFits
  <2>4. QED BY <1>1, <1>3, <2>1, <2>2, <2>3 DEF FinishTimeout
<1>4. CASE InjectHttpError(r)
  <2>1. PICK d \in Draw, i \in 1 .. 6 :
           /\ FallsIn(HttpSums(snap[r]), d, i)
           /\ Respond(r, Answer(DrawnErrors[i], DrawnCodes[i]))
           /\ NoConnError(snap[r])
    BY <1>4 DEF InjectHttpError
  <2>2. /\ DrawnErrors[i] \in HttpErrors /\ DrawnErrors[i] # "restricted"
        /\ DrawnCodes[i] \in Int
    BY DEF DrawnErrors, DrawnCodes, HttpErrors
  <2>3. Answer(DrawnErrors[i], DrawnCodes[i]) \in Reply
    BY <2>2, AnswerTyping DEF Causes
  <2>4. ConfigExplains(snap[r], req[r], Answer(DrawnErrors[i], DrawnCodes[i]))
    BY <1>0, <2>1, HttpExplained
  <2>5. pc[r] = "inject" /\ UNCHANGED <<snap, ref>> /\ Local
    BY <1>4 DEF InjectHttpError
  <2>6. AnswerExplained(seen[r], req[r],
                        Answer(DrawnErrors[i], DrawnCodes[i]))
    BY <2>2, <2>4, <2>5, ExplainedBySnapshot, PlainAnswer
  <2>7. QED BY <2>1, <2>2, <2>3, <2>5, <2>6, PlainAnswer, RespondInv
<1>5. QED BY <1>2, <1>3, <1>4

\* A request gets to a handler only if a handler takes it.
LEMMA NextHandlerFits ==
    \A q : /\ NextHandler(q) \in {"handler", "forward"}
           /\ NextHandler(q) = "handler" => IsHandled(q)
BY DEF NextHandler

\* Moving on to a stage that relies on nothing but the kind of the request.
LEMMA MoveToHandler ==
    ASSUME IInv, NEW r \in Requests, MoveTo(r, NextHandler(req[r])), Local,
           snap' = snap, UNCHANGED reply, TypeOK',
           \A q \in Requests \ {r} : ref'[q] = ref[q],
           InFlight(r), MayPass(seen[r], req[r]),
           MayBeAdmitted(seen[r], req[r])
    PROVE  IInv'
<1>1. NextHandler(req[r]) \in Stages \ {"idle", "done"}
  BY NextHandlerFits DEF Stages
<1>2. pc'[r] = NextHandler(req[r]) /\ req' = req
  BY DEF MoveTo, IInv, TypeOK, Local
<1>3. SnapSeen(r)' /\ RefSeen(r)' /\ StageFits(r)'
  BY <1>2, NextHandlerFits DEF SnapSeen, RefSeen, StageFits
<1>4. QED BY <1>1, <1>3, MoveInv

\* Passing the injection middleware keeps the invariant.
LEMMA InjectionMovesInv ==
    ASSUME IInv, NEW r \in Requests,
           SnapshotRates(r) \/ StartTimeout(r) \/ PassInjection(r)
    PROVE  IInv'
<1>0. TypeOK' /\ snap[r] \in Config
  BY InjectionTyping DEF IInv, TypeOK
<1>1. CASE SnapshotRates(r)
  <2>1. /\ pc'[r] = "inject" /\ snap'[r] = config /\ seen' = seen
        /\ \A q \in Requests \ {r} : snap'[q] = snap[q]
    BY <1>1 DEF SnapshotRates, MoveTo, Local, IInv, TypeOK
  <2>2. World \in seen[r] /\ InFlight(r)
    BY <1>1 DEF SnapshotRates, IInv, RequestInv, InFlight
  <2>3. SnapSeen(r)'
    BY <2>1, <2>2 DEF SnapSeen, World
  <2>4. RefSeen(r)' /\ StageFits(r)'
    BY <2>1 DEF RefSeen, StageFits
  <2>5. MoveTo(r, "inject") /\ Local /\ UNCHANGED reply /\ UNCHANGED ref
    BY <1>1 DEF SnapshotRates
  <2>6. QED BY <1>0, <2>1, <2>2, <2>3, <2>4, <2>5, MoveInv DEF Stages
<1>2. CASE StartTimeout(r)
  <2>1. /\ pc[r] = "inject" /\ pc'[r] = "sleeping" /\ InFlight(r)
        /\ seen' = seen /\ snap' = snap /\ ref' = ref /\ req' = req
    BY <1>2 DEF StartTimeout, MoveTo, Local, IInv, TypeOK, InFlight
  <2>2. SnapSeen(r)' /\ RefSeen(r)'
    BY <2>1 DEF SnapSeen, RefSeen, IInv, RequestInv
  <2>3. snap[r].enabled /\ snap[r].conn["ioTimeout"] > 0
    <3>1. ConnOrder[3] = "ioTimeout" /\ "ioTimeout" \in ConnErrors
      BY DEF ConnOrder, ConnErrors
    <3>2. QED
      BY <1>0, <1>2, <3>1, ConfigFields, HitIsPositive
         DEF StartTimeout, ConnErrorHits
  <2>4. StageFits(r)'
    BY <2>1, <2>3 DEF StageFits
  <2>5. MoveTo(r, "sleeping") /\ Local /\ UNCHANGED reply
    BY <1>2 DEF StartTimeout
  <2>6. QED BY <1>0, <2>1, <2>2, <2>4, <2>5, MoveInv DEF Stages
<1>3. CASE PassInjection(r)
  <2>1. /\ InFlight(r) /\ Local /\ snap' = snap /\ ref' = ref
        /\ UNCHANGED reply
    BY <1>3 DEF PassInjection, InFlight
  <2>0. MayPass(seen[r], req[r])
    <3>1. \E w \in seen[r] : w.cfg = snap[r]
      BY <1>3 DEF PassInjection, IInv, RequestInv, SnapSeen
    <3>2. Passable(snap[r])
      BY <1>0, <1>3, PassedIsPassable DEF PassInjection
    <3>3. QED BY <3>1, <3>2 DEF MayPass
  <2>2. CASE IsShootsOrProjects(req[r])
    <3>1. MoveTo(r, "restrict") /\ pc'[r] = "restrict"
      BY <1>3, <2>2 DEF PassInjection, MoveTo, IInv, TypeOK
    <3>2. SnapSeen(r)' /\ RefSeen(r)' /\ StageFits(r)'
      BY <3>1 DEF SnapSeen, RefSeen, StageFits
    <3>3. QED BY <1>0, <2>0, <2>1, <3>1, <3>2, MoveInv DEF Stages
  <2>3. CASE ~ IsShootsOrProjects(req[r])
    <3>1. MoveTo(r, NextHandler(req[r]))
      BY <1>3, <2>3 DEF PassInjection
    <3>2. MayBeAdmitted(seen[r], req[r])
      BY <2>3 DEF MayBeAdmitted
    <3>3. QED BY <1>0, <2>0, <2>1, <3>1, <3>2, MoveToHandler
  <2>4. QED BY <2>2, <2>3
<1>4. QED BY <1>1, <1>2, <1>3

\* The middleware for restricted accounts: whoever gets past it was not
\* restricted at some moment, whoever is stopped was.
LEMMA RestrictionInv ==
    ASSUME IInv, NEW r \in Requests,
           CaptureRestricted(r) \/ CheckEmpty(r) \/ LookupRestricted(r)
    PROVE  IInv'
<1>0. TypeOK' /\ MayPass(seen[r], req[r])
  BY RestrictionTyping
     DEF IInv, RequestInv, PastInjection, CaptureRestricted, CheckEmpty,
         LookupRestricted
<1>1. CASE CaptureRestricted(r)
  <2>1. /\ Local /\ snap' = snap /\ UNCHANGED reply /\ InFlight(r)
        /\ ref'[r] = CurrentMap /\ seen' = seen
        /\ restrictedMaps' = restrictedMaps
        /\ \A q \in Requests \ {r} : ref'[q] = ref[q]
    <3>1. ref \in [Requests -> 1 .. Len(restrictedMaps)]
      BY DEF IInv, TypeOK
    <3>2. QED
      BY <1>1, <3>1 DEF CaptureRestricted, Local, configVars, InFlight
  <2>2. World \in seen[r]
    BY <2>1 DEF IInv, RequestInv
  <2>3. CASE config.enabled
    <3>1. MoveTo(r, "emptycheck") /\ pc'[r] = "emptycheck"
      BY <1>1, <2>3 DEF CaptureRestricted, MoveTo, IInv, TypeOK
    <3>2. SnapSeen(r)' /\ StageFits(r)'
      BY <3>1 DEF SnapSeen, StageFits
    <3>3. RefSeen(r)'
      BY <2>1, <2>2, <2>3 DEF RefSeen, World
    <3>4. QED BY <1>0, <2>1, <3>1, <3>2, <3>3, MoveInv DEF Stages
  <2>4. CASE ~ config.enabled
    <3>1. MoveTo(r, NextHandler(req[r]))
      BY <1>1, <2>4 DEF CaptureRestricted
    <3>2. MayBeAdmitted(seen[r], req[r])
      BY <2>2, <2>4 DEF MayBeAdmitted, World
    <3>3. QED BY <1>0, <2>1, <3>1, <3>2, MoveToHandler
  <2>5. QED BY <2>3, <2>4
<1>2. CASE CheckEmpty(r)
  <2>1. /\ Local /\ snap' = snap /\ ref' = ref /\ UNCHANGED reply
        /\ InFlight(r) /\ pc[r] = "emptycheck" /\ seen' = seen
        /\ restrictedMaps' = restrictedMaps
    BY <1>2 DEF CheckEmpty, InFlight, Local, configVars
  <2>2. CASE restrictedMaps[ref[r]] = {} \/ req[r].bearer = NoSA
    <3>1. MoveTo(r, NextHandler(req[r]))
      BY <1>2, <2>2 DEF CheckEmpty
    <3>2. MayBeAdmitted(seen[r], req[r])
      BY <2>1, <2>2 DEF MayBeAdmitted, IInv, RequestInv, RefSeen
    <3>3. QED BY <1>0, <2>1, <3>1, <3>2, MoveToHandler
  <2>3. CASE ~ (restrictedMaps[ref[r]] = {} \/ req[r].bearer = NoSA)
    <3>1. MoveTo(r, "lookup") /\ pc'[r] = "lookup"
      BY <1>2, <2>3 DEF CheckEmpty, MoveTo, IInv, TypeOK
    <3>2. SnapSeen(r)' /\ StageFits(r)'
      BY <3>1 DEF SnapSeen, StageFits
    <3>3. RefSeen(r)'
      BY <2>1 DEF RefSeen, IInv, RequestInv
    <3>4. QED BY <1>0, <2>1, <3>1, <3>2, <3>3, MoveInv DEF Stages
  <2>4. QED BY <2>2, <2>3
<1>3. CASE LookupRestricted(r)
  <2>1. /\ Local /\ snap' = snap /\ ref' = ref
        /\ InFlight(r) /\ pc[r] = "lookup"
    BY <1>3 DEF LookupRestricted, InFlight
  <2>2. /\ \E w \in seen[r] : w.cfg.enabled
        /\ \E w \in seen[r] : w.restricted = restrictedMaps[ref[r]]
    BY <2>1 DEF IInv, RequestInv, RefSeen
  <2>3. CASE req[r].bearer \in restrictedMaps[ref[r]]
    <3>1. Respond(r, Answer("restricted", 403))
      BY <1>3, <2>3 DEF LookupRestricted
    <3>2. AnswerExplained(seen[r], req[r], Answer("restricted", 403))
      BY <2>2, <2>3, PlainAnswer DEF AnswerExplained, RestrictionExplains
    <3>3. QED BY <1>0, <2>1, <3>1, <3>2, PlainAnswers, PlainAnswer, RespondInv
  <2>4. CASE req[r].bearer \notin restrictedMaps[ref[r]]
    <3>1. MoveTo(r, NextHandler(req[r])) /\ UNCHANGED reply
      BY <1>3, <2>4 DEF LookupRestricted
    <3>2. MayBeAdmitted(seen[r], req[r])
      BY <2>2, <2>4 DEF MayBeAdmitted
    <3>3. QED BY <1>0, <2>1, <3>1, <3>2, MoveToHandler
  <2>5. QED BY <2>3, <2>4
<1>4. QED BY <1>1, <1>2, <1>3

\* Any answer explained by the stage's copy keeps the invariant, once the
\* request is past the middleware for restricted accounts.
LEMMA HandlerAnswer ==
    ASSUME IInv, NEW r \in Requests, pc[r] \in {"decide", "get", "issue"},
           NEW a \in Reply, Respond(r, a), UNCHANGED <<snap, ref>>, Local,
           a.cause # "restricted", ConfigExplains(snap[r], req[r], a),
           GhostFree(seen[r], req[r], a),
           a.credential # "none" => a.cause = "issued"
    PROVE  IInv'
<1>1. AnswerExplained(seen[r], req[r], a)
  BY ExplainedBySnapshot
<1>2. MayPass(seen[r], req[r]) /\ MayBeAdmitted(seen[r], req[r])
  BY DEF IInv, RequestInv, PastInjection, PastRestriction
<1>3. QED BY <1>1, <1>2, RespondInv

\* The errors a handler decides on keep the invariant.
LEMMA DecideInv ==
    ASSUME IInv, NEW r \in Requests,
           \/ FailObject(r) \/ ExpireCaller(r) \/ InjectOperationError(r)
           \/ FailBody(r)
    PROVE  IInv'
<1>0. snap[r] \in Config /\ req[r] \in Arrivals
  BY DEF IInv, TypeOK
<1>1. CASE FailObject(r)
  <2>1. WriteHeader(FailCode(snap[r], req[r])) \in Int
    BY <1>0, FailCodeInt, WriteHeaderInt
  <2>2. Answer("failing", WriteHeader(FailCode(snap[r], req[r]))) \in Reply
    BY <2>1, AnswerTyping DEF Causes
  <2>3. QED
    BY <1>1, <2>2, FailingExplained, PlainAnswer, HandlerAnswer
       DEF FailObject
<1>2. CASE ExpireCaller(r)
  <2>1. snap[r].tokenExpiredRate > 0
    BY <1>0, <1>2, ConfigFields, HitIsPositive DEF ExpireCaller
  <2>2. QED
    BY <1>2, <2>1, TokenExpiredExplained, PlainAnswers, PlainAnswer,
       HandlerAnswer DEF ExpireCaller
<1>3. CASE InjectOperationError(r)
  <2>1. PICK d \in Draw, code \in {429, 500, 504} :
           Selects(snap[r], d, code) /\ Respond(r, Answer("operation", code))
    BY <1>3 DEF InjectOperationError
  <2>2. OperationExplained(snap[r], req[r], Answer("operation", code))
    <3>1. ~ CallerCertainlyExpired(snap[r], req[r])
      BY <1>0, <1>3, ConfigFields, MissIsNotAlways
         DEF InjectOperationError, CallerNotExpired, CallerCertainlyExpired
    <3>2. \/ snap[r].http[TypeOfCode(code)] > 0
          \/ code = 429 /\ ~ Always(SelectSums(snap[r])[3])
      BY <1>0, <2>1, SelectedCodeIsConfigured
    <3>3. Answer("operation", code).code = code
      BY DEF Answer
    <3>4. QED
      BY <1>0, <1>3, <3>1, <3>2, <3>3, OperationRateInt, HitIsPositive
         DEF InjectOperationError, OperationExplained
  <2>3. Answer("operation", code) \in Reply
    BY AnswerTyping DEF Causes
  <2>4. ConfigExplains(snap[r], req[r], Answer("operation", code))
    BY <2>2, OperationErrorExplained
  <2>5. pc[r] = "decide" /\ UNCHANGED <<snap, ref>> /\ Local
    BY <1>3 DEF InjectOperationError
  <2>6. QED BY <2>1, <2>3, <2>4, <2>5, PlainAnswer, HandlerAnswer
<1>4. CASE FailBody(r)
  <2>1. ConfigExplains(snap[r], req[r], Answer("badBody", 400))
    BY <1>0, <1>4, NoErrorNotCertain, RefusedExplained DEF FailBody
  <2>2. QED
    BY <1>4, <2>1, PlainAnswers, PlainAnswer, HandlerAnswer DEF FailBody
<1>5. QED BY <1>1, <1>2, <1>3, <1>4

\* Passing a handler's tests keeps the invariant.
LEMMA HandlerMovesInv ==
    ASSUME IInv, NEW r \in Requests,
           SnapshotHandler(r) \/ ReadBody(r) \/ GetShoot(r)
    PROVE  IInv'
<1>0. TypeOK' /\ MayPass(seen[r], req[r])
  BY HandlerTyping
     DEF IInv, RequestInv, PastInjection, SnapshotHandler, ReadBody, GetShoot
<1>1. CASE SnapshotHandler(r)
  <2>1. /\ pc'[r] = "decide" /\ snap'[r] = config /\ seen' = seen
        /\ req' = req
        /\ \A q \in Requests \ {r} : snap'[q] = snap[q]
    BY <1>1 DEF SnapshotHandler, MoveTo, Local, IInv, TypeOK
  <2>2. World \in seen[r] /\ InFlight(r) /\ MayBeAdmitted(seen[r], req[r])
        /\ IsHandled(req[r])
    BY <1>1 DEF SnapshotHandler, IInv, RequestInv, InFlight, PastRestriction,
                StageFits
  <2>3. SnapSeen(r)'
    BY <2>1, <2>2 DEF SnapSeen, World
  <2>4. RefSeen(r)' /\ StageFits(r)'
    BY <2>1, <2>2 DEF RefSeen, StageFits
  <2>5. MoveTo(r, "decide") /\ Local /\ UNCHANGED reply /\ UNCHANGED ref
    BY <1>1 DEF SnapshotHandler
  <2>6. QED BY <1>0, <2>1, <2>2, <2>3, <2>4, <2>5, MoveInv DEF Stages
<1>2. CASE ReadBody(r)
  <2> DEFINE there == IF req[r].kind = "adminkubeconfig" THEN "get" ELSE "issue"
  <2>1. /\ pc[r] = "decide" /\ pc'[r] = there /\ MoveTo(r, there)
        /\ Local /\ seen' = seen /\ req' = req /\ snap' = snap /\ ref' = ref
        /\ UNCHANGED reply /\ NoOperationError(snap[r], req[r])
    BY <1>2 DEF ReadBody, MoveTo, Local, IInv, TypeOK
  <2>0. ~ CertainFailure(snap[r], req[r])
    BY <2>1, NoErrorNotCertain DEF IInv, TypeOK
  <2>2. /\ InFlight(r) /\ MayBeAdmitted(seen[r], req[r]) /\ SnapSeen(r)
        /\ IsHandled(req[r])
    BY <2>1 DEF InFlight, IInv, RequestInv, PastRestriction, StageFits
  <2>3. there \in {"get", "issue"}
    OBVIOUS
  <2>4. SnapSeen(r)' /\ RefSeen(r)'
    BY <2>1, <2>2, <2>3 DEF SnapSeen, RefSeen
  <2>5. StageFits(r)'
    BY <2>0, <2>1, <2>2 DEF StageFits, IsHandled
  <2>6. there \in Stages \ {"idle", "done"}
    BY <2>3 DEF Stages
  <2>7. QED BY <1>0, <2>1, <2>2, <2>4, <2>5, <2>6, MoveInv
<1>3. CASE GetShoot(r)
  <2>1. /\ pc[r] = "get" /\ Local /\ snap' = snap /\ ref' = ref
        /\ seen' = seen /\ req' = req
    BY <1>3 DEF GetShoot, Local
  <2>2. /\ InFlight(r) /\ MayBeAdmitted(seen[r], req[r]) /\ SnapSeen(r)
        /\ World \in seen[r] /\ req[r].kind = "adminkubeconfig"
        /\ ~ CertainFailure(snap[r], req[r])
    BY <2>1 DEF InFlight, IInv, RequestInv, PastRestriction, StageFits
  <2>3. CASE req[r].shoot \in shoots /\ MoveTo(r, "issue") /\ UNCHANGED reply
    <3>1. pc'[r] = "issue"
      BY <2>3 DEF MoveTo, IInv, TypeOK
    <3>2. SnapSeen(r)' /\ RefSeen(r)'
      BY <2>1, <2>2, <3>1 DEF SnapSeen, RefSeen
    <3>3. \E w \in seen[r] : req[r].shoot \in w.shoots
      BY <2>2, <2>3 DEF World
    <3>4. StageFits(r)'
      BY <2>1, <2>2, <3>1, <3>3 DEF StageFits, IsHandled
    <3>5. QED BY <1>0, <2>1, <2>2, <2>3, <3>2, <3>4, MoveInv DEF Stages
  <2>4. CASE Respond(r, Answer("shootNotFound", 404))
    BY <2>1, <2>2, <2>4, RefusedExplained, PlainAnswers, PlainAnswer,
       HandlerAnswer
  <2>5. QED BY <1>3, <2>3, <2>4 DEF GetShoot
<1>4. QED BY <1>1, <1>2, <1>3

\* An issued credential has a reply record of the expected fields.
LEMMA IssuedFields ==
    ASSUME NEW code, NEW credential, NEW expiry
    PROVE  /\ Issued(code, credential, expiry).cause = "issued"
           /\ Issued(code, credential, expiry).credential = credential
           /\ Issued(code, credential, expiry).expiry = expiry
BY DEF Issued

\* Issuing an admin kubeconfig keeps the invariant.
LEMMA AdminIssueInv ==
    ASSUME IInv, NEW r \in Requests,
           IssueInvalid(r) \/ IssueExpired(r) \/ IssueKubeconfig(r)
    PROVE  IInv'
<1> DEFINE c == snap[r]
           q == req[r]
<1>1. /\ pc[r] = "issue" /\ q.kind = "adminkubeconfig"
      /\ UNCHANGED <<snap, ref>> /\ Local
  BY DEF IssueInvalid, IssueExpired, IssueKubeconfig, AtIssue
<1>2. /\ c \in Config /\ q \in Arrivals /\ Asked(q) \in Int /\ HourAgo \in Int
      /\ c.shortTTLSeconds \in Int
      /\ c.invalidKubeconfigRate \in Int /\ c.expiredKubeconfigRate \in Int
  BY AskedInt, ConfigFields DEF IInv, TypeOK, HourAgo
<1>3. ~ CertainFailure(c, q)
  BY <1>1 DEF IInv, RequestInv, StageFits
<1>4. \E w \in seen[r] : q.shoot \in w.shoots
  BY <1>1 DEF IInv, RequestInv, StageFits
<1>5. ASSUME NEW credential \in {"valid", "invalid"}, NEW expiry \in Int,
             KubeconfigExplained(c, q, Issued(201, credential, expiry)),
             Respond(r, Issued(201, credential, expiry))
      PROVE  IInv'
  <2>1. Issued(201, credential, expiry) \in Reply
    BY IssuedTyping
  <2>2. ConfigExplains(c, q, Issued(201, credential, expiry))
    BY <1>1, <1>5, KubeconfigIssueExplained
  <2>3. GhostFree(seen[r], q, Issued(201, credential, expiry))
    BY <1>4 DEF GhostFree
  <2>4. QED BY <1>1, <1>5, <2>1, <2>2, <2>3, IssuedFields, HandlerAnswer
<1>6. CASE IssueInvalid(r)
  <2>1. \/ c.shootKubeconfigBehavior[q.shoot] = "invalid"
        \/ c.enabled /\ c.invalidKubeconfigRate > 0
    BY <1>2, <1>6, HitIsPositive DEF IssueInvalid
  <2>3. KubeconfigExplained(c, q, Issued(201, "invalid", Asked(q)))
    BY <1>3, <2>1, IssuedFields DEF KubeconfigExplained
  <2>4. QED BY <1>2, <1>5, <1>6, <2>3 DEF IssueInvalid
<1>7. CASE IssueExpired(r)
  <2>1. /\ c.shootKubeconfigBehavior[q.shoot] # "invalid"
        /\ ~ (c.enabled /\ Always(c.invalidKubeconfigRate))
    BY <1>2, <1>7, MissIsNotAlways DEF IssueExpired, NotInvalid
  <2>2. \/ c.shootKubeconfigBehavior[q.shoot] = "expired"
        \/ c.enabled /\ c.expiredKubeconfigRate > 0
    BY <1>2, <1>7, HitIsPositive DEF IssueExpired
  <2>3. KubeconfigExplained(c, q, Issued(201, "valid", HourAgo))
    BY <1>3, <2>1, <2>2, IssuedFields DEF KubeconfigExplained
  <2>4. QED BY <1>2, <1>5, <1>7, <2>3 DEF IssueExpired
<1>8. CASE IssueKubeconfig(r)
  <2> DEFINE expiry == IF c.enabled /\ c.shortTTLSeconds > 0
                       THEN c.shortTTLSeconds ELSE Asked(q)
  <2>1. /\ c.shootKubeconfigBehavior[q.shoot] # "invalid"
        /\ c.shootKubeconfigBehavior[q.shoot] # "expired"
        /\ ~ (c.enabled /\ Always(c.invalidKubeconfigRate))
        /\ ~ (c.enabled /\ Always(c.expiredKubeconfigRate))
    BY <1>2, <1>8, MissIsNotAlways DEF IssueKubeconfig, NotInvalid
  <2>2. expiry \in Int
    BY <1>2
  <2>3. KubeconfigExplained(c, q, Issued(201, "valid", expiry))
    BY <1>3, <2>1, IssuedFields DEF KubeconfigExplained
  <2>4. Respond(r, Issued(201, "valid", expiry))
    BY <1>8 DEF IssueKubeconfig
  <2> HIDE DEF expiry
  <2>5. QED BY <1>5, <2>2, <2>3, <2>4
<1>9. QED BY <1>6, <1>7, <1>8

\* Issuing a token keeps the invariant.
LEMMA TokenIssueInv ==
    ASSUME IInv, NEW r \in Requests,
           IssueToken(r) \/ MintServiceAccountKubeconfig(r)
    PROVE  IInv'
<1> DEFINE q == req[r]
<1>1. /\ snap[r] \in Config /\ config \in Config
      /\ TokenLifetime(snap[r], q) \in Int /\ TokenLifetime(config, q) \in Int
      /\ HourAgo \in Int /\ snap[r].expiredKubeconfigRate \in Int
  BY TokenLifetimeInt, ConfigFields
     DEF IInv, TypeOK, ConfigTypeOK, HourAgo
<1>2. ASSUME NEW c \in Config
      PROVE  \/ c.shortTTLSeconds > 0
                /\ TokenLifetime(c, q) = c.shortTTLSeconds
             \/ c.shortTTLSeconds <= 0 /\ TokenLifetime(c, q) = Asked(q)
  BY ConfigFields DEF TokenLifetime
<1>3. CASE IssueToken(r)
  <2>1. /\ pc[r] = "issue" /\ q.kind = "token"
        /\ UNCHANGED <<snap, ref>> /\ Local
    BY <1>3 DEF IssueToken, AtIssue
  <2>2. ~ CertainFailure(snap[r], q)
    BY <2>1 DEF IInv, RequestInv, StageFits
  <2>3. PICK expiry \in Int :
           /\ Respond(r, Issued(200, "valid", expiry))
           /\ \/ /\ expiry = TokenLifetime(snap[r], q)
                 /\ ~ (snap[r].enabled /\ Always(snap[r].expiredKubeconfigRate))
              \/ /\ snap[r].enabled /\ snap[r].expiredKubeconfigRate > 0
                 /\ expiry = HourAgo
    BY <1>1, <1>3, HitIsPositive, MissIsNotAlways DEF IssueToken
  <2>4. TokenExplained(snap[r], q, Issued(200, "valid", expiry))
    BY <1>1, <1>2, <2>1, <2>2, <2>3, IssuedFields DEF TokenExplained
  <2>5. ConfigExplains(snap[r], q, Issued(200, "valid", expiry))
    BY <2>1, <2>4, TokenIssueExplained
  <2>6. GhostFree(seen[r], q, Issued(200, "valid", expiry))
    BY <2>1 DEF GhostFree
  <2>7. Issued(200, "valid", expiry) \in Reply
    BY IssuedTyping
  <2>8. QED BY <2>1, <2>3, <2>5, <2>6, <2>7, IssuedFields, HandlerAnswer
<1>4. CASE MintServiceAccountKubeconfig(r)
  <2> DEFINE a == Issued(200, "valid", TokenLifetime(config, q))
  <2>1. /\ pc[r] = "mint" /\ q.kind = "sakubeconfig" /\ InFlight(r)
        /\ UNCHANGED <<snap, ref>> /\ Local /\ Respond(r, a)
    BY <1>4 DEF MintServiceAccountKubeconfig, InFlight, IInv, RequestInv,
                StageFits
  <2>2. TokenExplained(config, q, a)
    BY <1>1, <1>2, <2>1, IssuedFields DEF TokenExplained
  <2>3. ConfigExplains(config, q, a)
    BY <2>1, <2>2, TokenIssueExplained
  <2>4. a.cause = "issued" /\ a \in Reply
    <3>1. a.cause = "issued"
      BY IssuedFields
    <3>2. a \in Reply
      BY <1>1, IssuedTyping
    <3>3. QED BY <3>1, <3>2
  <2>5. /\ GhostFree(seen[r], q, a) /\ MayBeAdmitted(seen[r], q)
        /\ MayPass(seen[r], q)
    BY <2>1 DEF GhostFree, MayBeAdmitted, IsShootsOrProjects, MayPass
  <2> HIDE DEF a
  <2>6. AnswerExplained(seen[r], q, a)
    BY <2>1, <2>3, <2>4, ExplainedNow
  <2>7. QED BY <2>1, <2>4, <2>5, <2>6, RespondInv
<1>5. QED BY <1>3, <1>4

\* Forwarding keeps the invariant, though it may create and delete shoots.
LEMMA ForwardInv ==
    ASSUME IInv, NEW r \in Requests, Forward(r) \/ ForwardFails(r)
    PROVE  IInv'
<1>0. TypeOK'
  BY ForwardTyping DEF IInv
<1>a. /\ pc[r] = "forward" /\ InFlight(r) /\ World \in seen[r]
      /\ MayBeAdmitted(seen[r], req[r]) /\ MayPass(seen[r], req[r])
  BY DEF Forward, ForwardFails, InFlight, IInv, RequestInv, PastRestriction,
         PastInjection
<1>1. CASE Forward(r)
  <2> DEFINE a == Answer("upstream", ApiServer(req[r]).code)
  <2>1. /\ Respond(r, a) /\ Observe /\ req' = req /\ snap' = snap
        /\ ref' = ref /\ restrictedMaps' = restrictedMaps
    BY <1>1 DEF Forward, configVars
  <2>2. MapsEvolve
    BY <2>1 DEF MapsEvolve, CurrentMap, IInv, TypeOK, ConfigTypeOK
  <2>3. pc'[r] = "done" /\ reply'[r] = a
    BY <2>1 DEF Respond, MoveTo, IInv, TypeOK
  <2>4. World \in seen'[r] /\ seen[r] \subseteq seen'[r]
    BY <1>a, <2>1 DEF Observe, IInv, TypeOK
  <2>5. AnswerFits(r)'
    <3>1. ConfigExplains(World.cfg, req[r], a)
      BY UpstreamExplained
    <3>2. AnswerExplained(seen'[r], req[r], a)
      BY <2>4, <3>1, PlainAnswer DEF AnswerExplained
    <3>3. QED BY <2>1, <2>3, <3>2, PlainAnswer DEF AnswerFits
  <2>6. MayBeAdmitted(seen'[r], req[r]) /\ MayPass(seen'[r], req[r])
    BY <1>a, <2>4 DEF MayBeAdmitted, MayPass
  <2>7. RequestInv(r)'
    BY <2>1, <2>3, <2>5, <2>6
       DEF RequestInv, InFlight, SnapSeen, RefSeen, StageFits
  <2>8. ASSUME NEW q \in Requests, q # r PROVE RequestInv(q)'
    <3>1. pc'[q] = pc[q] /\ reply'[q] = reply[q]
      BY <2>1, <2>8 DEF Respond, MoveTo, IInv, TypeOK
    <3>2. QED BY <2>1, <2>2, <3>1, WorldChange
  <2>9. QED BY <1>0, <2>7, <2>8 DEF IInv
<1>2. CASE ForwardFails(r)
  <2> DEFINE a == Answer("upstream", 502)
  <2>1. Respond(r, a) /\ UNCHANGED <<snap, ref>> /\ Local
    BY <1>2 DEF ForwardFails
  <2>2. AnswerExplained(seen[r], req[r], a)
    BY <1>a, UpstreamExplained, PlainAnswer, ExplainedNow
  <2>3. QED
    BY <1>a, <2>1, <2>2, PlainAnswers, PlainAnswer, RespondInv
<1>3. QED BY <1>1, <1>2

\* The initial states are in the invariant.
LEMMA InitInv == Init => IInv
<1> SUFFICES ASSUME Init PROVE IInv
  OBVIOUS
<1>1. ASSUME NEW r \in Requests PROVE RequestInv(r)
  <2>1. pc[r] = "idle"
    BY DEF Init
  <2>2. QED
    BY <2>1 DEF RequestInv, InFlight, SnapSeen, RefSeen, StageFits,
                PastInjection, PastRestriction, AnswerFits, Answered
<1>2. QED BY <1>1, InitTyping DEF IInv

\* Every step keeps the invariant.
LEMMA NextInv == IInv /\ [Next]_vars => IInv'
<1> SUFFICES ASSUME IInv, [Next]_vars PROVE IInv'
  OBVIOUS
<1>1. ASSUME NEW r \in Requests, Arrive(r) PROVE IInv'
  BY <1>1, ArriveInv
<1>2. ASSUME NEW r \in Requests, Step(r) PROVE IInv'
  BY <1>2, InjectionAnswersInv, InjectionMovesInv, RestrictionInv, DecideInv,
     HandlerMovesInv, AdminIssueInv, TokenIssueInv, ForwardInv DEF Step
<1>3. CASE Manage
  BY <1>3, ManageInv
<1>4. CASE UNCHANGED vars
  <2>1. TypeOK'
    BY <1>4, NextTyping DEF IInv
  <2>2. ASSUME NEW q \in Requests PROVE RequestInv(q)'
    BY <1>4, Undisturbed DEF vars, configVars, requestVars, Local, IInv
  <2>3. QED BY <2>1, <2>2 DEF IInv
<1>5. QED BY <1>1, <1>2, <1>3, <1>4 DEF Next

\* The stages of a request rely on what IInv says of them, in every reachable
\* state.
THEOREM Invariance == Spec => []IInv
<1>1. QED BY InitInv, NextInv, PTL DEF Spec

----------------------------------------------------------------------------
(* The safety properties.                                                   *)

\* Every answer is explained by one configuration of the request's lifetime.
THEOREM EveryReplyExplained == Spec => []ReplyExplained
<1>1. IInv => ReplyExplained
  BY DEF IInv, RequestInv, AnswerFits, ReplyExplained
<1>2. QED BY <1>1, Invariance, PTL

\* A continuously restricted account never gets past the middleware.
THEOREM RestrictionHolds == Spec => []RestrictedNeverAdmitted
<1>1. IInv => RestrictedNeverAdmitted
  BY DEF IInv, RequestInv, RestrictedNeverAdmitted
<1>2. QED BY <1>1, Invariance, PTL

\* No kubeconfig for a shoot that was absent throughout the request.
THEOREM GhostsGetNothing == Spec => []NoKubeconfigForGhost
<1>1. IInv => NoKubeconfigForGhost
  BY DEF IInv, RequestInv, AnswerFits, NoKubeconfigForGhost
<1>2. QED BY <1>1, Invariance, PTL

\* An object marked failing throughout the request yields no credential.
THEOREM FailingGetsNothing == Spec => []FailingObjectNeverServed
<1>1. ASSUME IInv, NEW r \in Requests, Answered(r), IsHandled(req[r]),
             reply[r].credential # "none"
      PROVE  \E w \in seen[r] : FailCode(w.cfg, req[r]) = 0
  <2>1. /\ reply[r].cause = "issued"
        /\ AnswerExplained(seen[r], req[r], reply[r])
    BY <1>1 DEF IInv, RequestInv, AnswerFits
  <2>2. PICK w \in seen[r] : ConfigExplains(w.cfg, req[r], reply[r])
    BY <2>1 DEF AnswerExplained
  <2>3. CASE req[r].kind = "adminkubeconfig"
    <3>1. KubeconfigExplained(w.cfg, req[r], reply[r])
      BY <2>1, <2>2, <2>3 DEF ConfigExplains, ConnErrors, HttpErrors
    <3>2. QED BY <2>3, <3>1 DEF KubeconfigExplained, CertainFailure
  <2>4. CASE req[r].kind = "token"
    <3>1. TokenExplained(w.cfg, req[r], reply[r])
      BY <2>1, <2>2, <2>4 DEF ConfigExplains, ConnErrors, HttpErrors
    <3>2. QED BY <2>4, <3>1 DEF TokenExplained, CertainFailure
  <2>5. QED BY <1>1, <2>3, <2>4 DEF IsHandled
<1>2. IInv => FailingObjectNeverServed
  BY <1>1 DEF FailingObjectNeverServed
<1>3. QED BY <1>2, Invariance, PTL

\* What IInv says of an answer leaves a certain fault no way to be escaped.
LEMMA FitsStruck == IInv => CertainErrorsStrike
<1>1. ASSUME IInv, NEW r \in Requests, Answered(r)
      PROVE  Struck(seen[r], req[r], reply[r])
  <2> DEFINE ws == seen[r]
             q  == req[r]
             a  == reply[r]
  <2>1. /\ AnswerExplained(ws, q, a)
        /\ a.credential # "none" => a.cause = "issued"
        /\ PastInjection(r) => MayPass(ws, q)
        /\ q.kind \in Kinds
    BY <1>1, ProxyAssumption DEF IInv, TypeOK, RequestInv, AnswerFits, Request
  <2>2. ASSUME \A w \in ws : CertainBreak(w.cfg), q.kind # "sakubeconfig"
        PROVE  a.cause \in ConnErrors
    <3>1. a.cause \in ConnErrors \cup HttpErrors
      BY <1>1, <2>1, <2>2 DEF PastInjection, MayPass, Passable
    <3>2. ASSUME a.cause \in HttpErrors, a.cause \notin ConnErrors PROVE FALSE
      <4>1. a.cause # "restricted"
        BY <3>2 DEF HttpErrors
      <4>2. PICK w \in ws : ConfigExplains(w.cfg, q, a)
        BY <2>1, <4>1 DEF AnswerExplained
      <4>3. ~ CertainBreak(w.cfg)
        BY <3>2, <4>2 DEF ConfigExplains, ConnErrors, HttpErrors
      <4>4. QED BY <2>2, <4>3
    <3>3. QED BY <3>1, <3>2
  <2>3. ASSUME \A w \in ws : ~ Passable(w.cfg), q.kind # "sakubeconfig"
        PROVE  a.cause \in ConnErrors \cup HttpErrors
    BY <1>1, <2>1, <2>3 DEF PastInjection, MayPass
  <2>4. ASSUME a.credential # "none"
        PROVE  \E w \in ws : /\ q.kind = "adminkubeconfig" =>
                                 KubeconfigExplained(w.cfg, q, a)
                             /\ q.kind = "token" => TokenExplained(w.cfg, q, a)
    <3>1. a.cause = "issued"
      BY <2>1, <2>4
    <3>2. PICK w \in ws : ConfigExplains(w.cfg, q, a)
      BY <2>1, <3>1 DEF AnswerExplained
    <3>3. QED BY <3>1, <3>2 DEF ConfigExplains, ConnErrors, HttpErrors
  <2>5. ASSUME \A w \in ws : CertainFailure(w.cfg, q), IsHandled(q)
        PROVE  a.credential = "none"
    BY <2>4, <2>5 DEF KubeconfigExplained, TokenExplained, IsHandled
  <2>6. ASSUME \A w \in ws : w.cfg.enabled
                               /\ Always(w.cfg.invalidKubeconfigRate),
               q.kind = "adminkubeconfig"
        PROVE  a.credential # "valid"
    BY <2>4, <2>6 DEF KubeconfigExplained
  <2>7. ASSUME \A w \in ws : w.cfg.enabled
                               /\ Always(w.cfg.expiredKubeconfigRate),
               IsHandled(q), a.credential = "valid"
        PROVE  a.expiry = HourAgo
    BY <2>4, <2>7 DEF KubeconfigExplained, TokenExplained, IsHandled
  <2> HIDE DEF ws, q, a
  <2>8. QED BY <2>2, <2>3, <2>5, <2>6, <2>7 DEF Struck, ws, q, a
<1>2. QED BY <1>1 DEF CertainErrorsStrike

\* No request escapes a fault that was certain all its life.
THEOREM CertaintyStrikes == Spec => []CertainErrorsStrike
  BY FitsStruck, Invariance, PTL

\* A request that only ever sees injection disabled meets no guarded fault.
THEOREM QuietWhenDisabled == Spec => []DisabledIsQuiet
<1>1. ASSUME IInv, NEW r \in Requests, Answered(r),
             \A w \in seen[r] : ~ w.cfg.enabled
      PROVE  /\ reply[r].cause \notin ConnErrors \cup
                   {"restricted", "tokenExpired", "operation"}
             /\ reply[r].credential = "invalid" =>
                   \E w \in seen[r] :
                      w.cfg.shootKubeconfigBehavior[req[r].shoot] = "invalid"
  <2>1. /\ AnswerExplained(seen[r], req[r], reply[r])
        /\ reply[r].credential # "none" => reply[r].cause = "issued"
    BY <1>1 DEF IInv, RequestInv, AnswerFits
  <2>2. reply[r].cause # "restricted"
    BY <1>1, <2>1 DEF AnswerExplained, RestrictionExplains
  <2>3. PICK w \in seen[r] : ConfigExplains(w.cfg, req[r], reply[r])
    BY <2>1, <2>2 DEF AnswerExplained
  <2>4. reply[r].cause \notin ConnErrors \cup {"tokenExpired", "operation"}
    BY <1>1, <2>3 DEF ConfigExplains, OperationExplained, ConnErrors, HttpErrors
  <2>5. ASSUME reply[r].credential = "invalid"
        PROVE  w.cfg.shootKubeconfigBehavior[req[r].shoot] = "invalid"
    <3>1. reply[r].cause = "issued"
      BY <2>1, <2>5
    <3>2. req[r].kind = "adminkubeconfig"
      BY <2>3, <2>5, <3>1
         DEF ConfigExplains, TokenExplained, ConnErrors, HttpErrors
    <3>3. KubeconfigExplained(w.cfg, req[r], reply[r])
      BY <2>3, <3>1, <3>2 DEF ConfigExplains, ConnErrors, HttpErrors
    <3>4. QED BY <1>1, <2>5, <3>3 DEF KubeconfigExplained
  <2>6. QED BY <2>2, <2>4, <2>5
<1>2. IInv => DisabledIsQuiet
  BY <1>1 DEF DisabledIsQuiet
<1>3. QED BY <1>2, Invariance, PTL
----------------------------------------------------------------------------
(* The chain implements the contract of ErrorSimulator.                     *)

\* A step that answers changes no other request and nothing that is asked.
LEMMA AnswerShape ==
    ASSUME NEW r \in Requests,
           \/ BreakConnection(r) \/ FinishTimeout(r) \/ InjectHttpError(r)
           \/ FailObject(r) \/ ExpireCaller(r) \/ InjectOperationError(r)
           \/ FailBody(r) \/ IssueInvalid(r) \/ IssueExpired(r)
           \/ IssueKubeconfig(r) \/ IssueToken(r)
           \/ MintServiceAccountKubeconfig(r)
           \/ Forward(r) \/ ForwardFails(r)
    PROVE  /\ InFlight(r) /\ req' = req /\ (Local \/ Observe)
           /\ \E a : Respond(r, a)
<1>1. CASE BreakConnection(r) \/ FinishTimeout(r) \/ InjectHttpError(r)
  BY <1>1 DEF BreakConnection, FinishTimeout, InjectHttpError, InFlight, Local
<1>2. CASE FailObject(r) \/ ExpireCaller(r) \/ InjectOperationError(r)
           \/ FailBody(r)
  BY <1>2
     DEF FailObject, ExpireCaller, InjectOperationError, FailBody, InFlight, Local
<1>3. CASE IssueInvalid(r) \/ IssueExpired(r) \/ IssueKubeconfig(r)
  BY <1>3
     DEF IssueInvalid, IssueExpired, IssueKubeconfig, AtIssue, InFlight, Local
<1>4. CASE IssueToken(r) \/ MintServiceAccountKubeconfig(r)
  BY <1>4
     DEF IssueToken, MintServiceAccountKubeconfig, AtIssue, InFlight, Local
<1>5. CASE Forward(r) \/ ForwardFails(r)
  BY <1>5 DEF Forward, ForwardFails, InFlight, Local
<1>6. QED BY <1>1, <1>2, <1>3, <1>4, <1>5

\* Every other step moves a request on, unseen, or answers it.
LEMMA StepShape ==
    ASSUME NEW r \in Requests, Step(r)
    PROVE  /\ InFlight(r) /\ req' = req
           /\ \/ /\ Local /\ UNCHANGED reply
                 /\ \E there : /\ there \notin {"idle", "done"}
                               /\ MoveTo(r, there)
              \/ (Local \/ Observe) /\ \E a : Respond(r, a)
<1>1. \A q : NextHandler(q) \notin {"idle", "done"}
  BY DEF NextHandler
<1>2. CASE SnapshotRates(r) \/ StartTimeout(r) \/ PassInjection(r)
  BY <1>1, <1>2
     DEF SnapshotRates, StartTimeout, PassInjection, InFlight, Local
<1>3. CASE CaptureRestricted(r) \/ CheckEmpty(r) \/ LookupRestricted(r)
  BY <1>1, <1>3
     DEF CaptureRestricted, CheckEmpty, LookupRestricted, InFlight, Local
<1>4. CASE SnapshotHandler(r) \/ ReadBody(r) \/ GetShoot(r)
  BY <1>4 DEF SnapshotHandler, ReadBody, GetShoot, InFlight, Local
<1>5. QED BY <1>2, <1>3, <1>4, AnswerShape DEF Step

\* The initial states are those of the contract.
LEMMA ContractInit == Init => Contract!Init
<1> SUFFICES ASSUME Init PROVE Contract!Init
  OBVIOUS
<1>1. Phase = [r \in Requests |-> "idle"]
  BY DEF Init, Phase
<1>2. QED BY <1>1 DEF Init, Contract!Init

AnswersAllowed ==
    \A r \in Requests : Answered(r) => MayAnswer(seen[r], req[r], reply[r])

\* What IInv says of an answer is what the contract asks of it.
LEMMA FitsMayAnswer == IInv => AnswersAllowed
  BY FitsStruck DEF IInv, RequestInv, AnswerFits, CertainErrorsStrike, MayAnswer,
                    PastRestriction, AnswersAllowed

\* A move is no step of the contract, a response is its answer.
LEMMA StepKeepsContract ==
    ASSUME IInv, AnswersAllowed', NEW r \in Requests, Step(r)
    PROVE  UNCHANGED Contract!vars \/ Contract!Answer(r)
<1>1. /\ pc \in [Requests -> Stages] /\ reply \in [Requests -> Reply]
      /\ seen \in [Requests -> SUBSET Worlds]
  BY DEF IInv, TypeOK
<1>2. /\ InFlight(r) /\ req' = req /\ Phase[r] = "asked"
      /\ \A q \in Requests : Phase[q] = "asked" <=> InFlight(q)
  BY StepShape DEF Phase, InFlight, Answered
<1>3. ASSUME Local
      PROVE  seen' = seen /\ World' = World
  BY <1>3 DEF Local, configVars, World, CurrentMap
<1>4. ASSUME Local, UNCHANGED reply,
             NEW there, there \notin {"idle", "done"}, MoveTo(r, there)
      PROVE  UNCHANGED Contract!vars
  <2>1. Phase' = Phase
    BY <1>1, <1>2, <1>4 DEF MoveTo, Phase, InFlight, Answered
  <2>2. QED BY <1>2, <1>3, <1>4, <2>1 DEF Contract!vars
<1>5. ASSUME Local \/ Observe, NEW a, Respond(r, a) PROVE Contract!Answer(r)
  <2>1. /\ pc' = [pc EXCEPT ![r] = "done"] /\ reply' = [reply EXCEPT ![r] = a]
        /\ reply'[r] = a /\ Answered(r)'
    BY <1>1, <1>5 DEF Respond, MoveTo, Answered
  <2>2. Phase' = [Phase EXCEPT ![r] = "answered"]
    BY <1>1, <2>1 DEF Phase, Answered
  <2>3. Contract!Live
    <3>1. CASE Local
      <4>1. \A q \in Requests : InFlight(q) => World \in seen[q]
        BY DEF IInv, RequestInv
      <4>2. QED BY <1>1, <1>2, <1>3, <3>1, <4>1 DEF Contract!Live
    <3>2. CASE Observe
      BY <1>2, <3>2 DEF Observe, Contract!Live
    <3>3. QED BY <1>5, <3>1, <3>2
  <2>4. MayAnswer(seen'[r], req'[r], reply'[r])
    BY <2>1 DEF AnswersAllowed
  <2>5. QED BY <1>2, <2>1, <2>2, <2>3, <2>4 DEF Contract!Answer
<1>6. QED BY <1>4, <1>5, StepShape

\* A request that arrives is asked, and a management call is a change of the
\* world.
LEMMA OthersKeepContract ==
    ASSUME IInv
    PROVE  /\ \A r \in Requests : Arrive(r) => Contract!Ask(r)
           /\ Manage => Contract!Change
<1>1. ASSUME NEW r \in Requests, Arrive(r) PROVE Contract!Ask(r)
  <2>1. /\ pc[r] = "idle" /\ seen' = [seen EXCEPT ![r] = {World}]
        /\ pc' = [pc EXCEPT ![r] = IF req[r].kind = "sakubeconfig" THEN "mint"
                                   ELSE "arrived"]
        /\ UNCHANGED <<configVars, shoots, req, reply>>
        /\ pc \in [Requests -> Stages]
    BY <1>1 DEF Arrive, MoveTo, IInv, TypeOK
  <2>2. World' = World
    BY <2>1 DEF configVars, World, CurrentMap
  <2>3. Phase[r] = "idle" /\ Phase' = [Phase EXCEPT ![r] = "asked"]
    BY <2>1 DEF Phase, Answered
  <2>4. QED BY <2>1, <2>2, <2>3 DEF Contract!Ask
<1>2. ASSUME Manage PROVE Contract!Change
  <2>1. UNCHANGED <<pc, req, reply>> /\ Observe
    BY <1>2 DEF Manage, requestVars
  <2>2. Phase' = Phase
    BY <2>1 DEF Phase, Answered
  <2>3. \A q \in Requests : Phase[q] = "asked" <=> InFlight(q)
    BY DEF Phase, InFlight, Answered
  <2>4. Contract!Live
    BY <2>1, <2>3 DEF Observe, Contract!Live
  <2>5. QED BY <2>1, <2>2, <2>4 DEF Contract!Change
<1>3. QED BY <1>1, <1>2

\* The request path of the proxy implements the contract: each request gets
\* one answer, which is never taken back and which the worlds of its time
\* allow.
THEOREM ProxyKeepsContract == Spec => KeepsContract
<1>1. IInv /\ AnswersAllowed' /\ [Next]_vars => [Contract!Next]_(Contract!vars)
  <2> SUFFICES ASSUME IInv, AnswersAllowed', [Next]_vars
               PROVE  Contract!Next \/ UNCHANGED Contract!vars
    OBVIOUS
  <2>1. ASSUME NEW r \in Requests, Arrive(r) \/ Step(r)
        PROVE  Contract!Next \/ UNCHANGED Contract!vars
    BY <2>1, StepKeepsContract, OthersKeepContract DEF Contract!Next
  <2>2. CASE Manage
    BY <2>2, OthersKeepContract DEF Contract!Next
  <2>3. CASE UNCHANGED vars
    BY <2>3 DEF vars, configVars, requestVars, World, CurrentMap, Phase,
                Answered, Contract!vars
  <2>4. QED BY <2>1, <2>2, <2>3 DEF Next
<1>2. QED
  BY <1>1, FitsMayAnswer, ContractInit, Invariance, PTL
     DEF Spec, KeepsContract, Contract!Spec
=============================================================================
