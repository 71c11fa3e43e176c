--------------------------- MODULE EnvtestProxy ---------------------------
(***************************************************************************)
(* The request path of the envtest server: the chain                        *)
(*                                                                          *)
(*   errorInjection -> restrictedServiceAccount -> tokenRequest ->          *)
(*   adminKubeconfig -> reverse proxy                                       *)
(*                                                                          *)
(* run by one goroutine per request, against management calls that change   *)
(* the error configuration and API-server objects that come and go.  The    *)
(* chain takes the read lock up to four times per request and works on      *)
(* copies in between; each locked section is a step, and so is each piece   *)
(* of work between two of them.                                             *)
(***************************************************************************)
EXTENDS ErrorConfig, NetHttp

CONSTANTS
    Requests,           \* identities of the requests of a behaviour
    Arrivals,           \* the requests clients may send
    NoSA,               \* no bearer token naming a service account
    Nil                 \* the optional expirationSeconds is absent

\* A request to the proxy, or (sakubeconfig) to the management endpoint that
\* mints a token for a service account.
Kinds == {"adminkubeconfig", "token", "get", "create", "delete", "other",
          "sakubeconfig"}

Request ==
    [kind    : Kinds,
     shoot   : Shoots,
     sa      : ServiceAccounts,
     bearer  : ServiceAccounts \cup {NoSA},
     seconds : Int \cup {Nil}]

ASSUME ProxyAssumption ==
    /\ Arrivals \subseteq Request
    /\ NoSA \notin ServiceAccounts
    /\ Nil \notin Int

\* Error types in the order the middleware tries them.  serviceUnavailable is
\* configurable but never drawn.
ConnOrder == <<"refused", "reset", "ioTimeout">>

DrawnErrors == <<"unauthorized", "forbidden", "notFound", "serverError",
                 "timeout", "rateLimit">>

DrawnCodes == <<401, 403, 404, 500, 504, 429>>

HttpSums(c) ==
    LET unauthorized == c.http["unauthorized"]
        forbidden    == unauthorized + c.http["forbidden"]
        notFound     == forbidden + c.http["notFound"]
        serverError  == notFound + c.http["serverError"]
        timeout      == serverError + c.http["timeout"]
        rateLimit    == timeout + c.http["rateLimit"]
    IN  <<unauthorized, forbidden, notFound, serverError, timeout, rateLimit>>

\* What a connection error answers when the connection cannot be hijacked
\* (always so over HTTP/2); 0 stands for a closed connection.
FallbackCode(e) == CASE e = "refused" -> 503 [] e = "reset" -> 502
                     [] e = "ioTimeout" -> 504

\* selectAdminKubeconfigErrorType: 429 when the draw passes every sum.
SelectSums(c) ==
    LET rateLimit   == c.http["rateLimit"]
        serverError == rateLimit + c.http["serverError"]
        timeout     == serverError + c.http["timeout"]
    IN  <<rateLimit, serverError, timeout>>

SelectCodes == <<429, 500, 504>>

Selects(c, d, code) ==
    \/ \E i \in 1 .. 3 : /\ FallsIn(SelectSums(c), d, i)
                         /\ code = SelectCodes[i]
    \/ FallsPast(SelectSums(c), d) /\ code = 429

\* shootsProjectsPattern: a prefix match, so subresources of a shoot too.
IsShootsOrProjects(q) ==
    q.kind \in {"adminkubeconfig", "get", "create", "delete"}

IsHandled(q) == q.kind \in {"adminkubeconfig", "token"}

FailCode(c, q) ==
    IF q.kind = "adminkubeconfig" THEN c.failingShoots[q.shoot]
                                  ELSE c.failingServiceAccounts[q.sa]

OperationRate(c, q) ==
    IF q.kind = "adminkubeconfig" THEN c.adminKubeconfigErrorRate
                                  ELSE c.tokenRequestErrorRate

\* The lifetime asked for.  The admin handler takes any number, the token
\* handlers only a positive one.
Asked(q) ==
    IF q.kind = "adminkubeconfig"
    THEN IF q.seconds = Nil THEN 86400 ELSE q.seconds
    ELSE IF q.seconds = Nil THEN 3600
         ELSE IF q.seconds > 0 THEN q.seconds ELSE 3600

\* An expired credential is issued with an expiry one hour ago.
HourAgo == 0 - 3600

Causes == ConnErrors \cup HttpErrors \cup
          {"restricted", "failing", "tokenExpired", "operation", "badBody",
           "shootNotFound", "issued", "upstream"}

Reply ==
    [cause      : Causes,
     code       : Int,
     credential : {"none", "valid", "invalid"},
     expiry     : Int]                      \* seconds from now

Answer(cause, code) ==
    [cause |-> cause, code |-> code, credential |-> "none", expiry |-> 0]

Issued(code, credential, expiry) ==
    [cause |-> "issued", code |-> code, credential |-> credential,
     expiry |-> expiry]

VARIABLES
    shoots,     \* the Shoot objects the API server holds
    pc,         \* per request: where its goroutine is
    req,        \* per request: what was asked
    snap,       \* per request: the last copy of config taken under RLock
    ref,        \* per request: the restricted map captured under RLock
    reply,      \* per request: the answer written
    seen        \* history: the worlds current during the request

requestVars == <<pc, req, snap, ref, reply>>
vars == <<configVars, shoots, requestVars, seen>>

World == [cfg        |-> config,
          restricted |-> restrictedMaps[CurrentMap],
          shoots     |-> shoots]

Worlds == [cfg        : Config,
           restricted : SUBSET ServiceAccounts,
           shoots     : SUBSET Shoots]

Stages == {"idle", "arrived", "inject", "sleeping", "restrict", "emptycheck",
           "lookup", "handler", "decide", "get", "issue", "forward", "mint",
           "done"}

InFlight(r) == pc[r] \notin {"idle", "done"}

\* Placeholder values of a request that has not arrived, answered, ...
NoReply == Answer("upstream", Closed)

Init ==
    /\ ConfigInit
    /\ shoots = Shoots
    /\ pc = [r \in Requests |-> "idle"]
    /\ req \in [Requests -> Arrivals]
    /\ snap = [r \in Requests |-> NewConfig]
    /\ ref = [r \in Requests |-> 1]
    /\ reply = [r \in Requests |-> NoReply]
    /\ seen = [r \in Requests |-> {}]

TypeOK ==
    /\ ConfigTypeOK
    /\ shoots \subseteq Shoots
    /\ pc \in [Requests -> Stages]
    /\ req \in [Requests -> Arrivals]
    /\ snap \in [Requests -> Config]
    /\ ref \in [Requests -> 1 .. Len(restrictedMaps)]
    /\ reply \in [Requests -> Reply]
    /\ seen \in [Requests -> SUBSET Worlds]

----------------------------------------------------------------------------
(* Steps of a request, each guarded by the stage its goroutine is at.        *)

MoveTo(r, there) == pc' = [pc EXCEPT ![r] = there]

Respond(r, answer) ==
    /\ MoveTo(r, "done")
    /\ reply' = [reply EXCEPT ![r] = answer]

\* Every request in flight lives through the world a step leads to.
Observe ==
    seen' = [r \in Requests |-> IF InFlight(r) THEN seen[r] \cup {World'}
                                               ELSE seen[r]]

Local == UNCHANGED <<configVars, shoots, req, seen>>

\* The handler the rest of the chain leads to.
NextHandler(q) == IF IsHandled(q) THEN "handler" ELSE "forward"

Arrive(r) ==
    /\ pc[r] = "idle"
    /\ MoveTo(r, IF req[r].kind = "sakubeconfig" THEN "mint" ELSE "arrived")
    /\ seen' = [seen EXCEPT ![r] = {World}]
    /\ UNCHANGED <<configVars, shoots, req, snap, ref, reply>>

(* errorInjectionMiddleware *)

SnapshotRates(r) ==
    /\ pc[r] = "arrived"
    /\ snap' = [snap EXCEPT ![r] = config]
    /\ MoveTo(r, "inject")
    /\ UNCHANGED <<ref, reply>> /\ Local

\* Mutants: the rate re-read after RUnlock; the test of enabled dropped.
ConnErrorHits_Reread(c, i) ==
    c.enabled /\ MayHit(config.conn[ConnOrder[i]])

ConnErrorHits_Unguarded(c, i) == MayHit(c.conn[ConnOrder[i]])

\* The i-th connection error hits after the earlier ones missed.
ConnErrorHits(c, i) ==
    /\ c.enabled
    /\ MayHit(c.conn[ConnOrder[i]])
    /\ \A j \in 1 .. (i - 1) : MayMiss(c.conn[ConnOrder[j]])

BreakConnection(r) ==
    /\ pc[r] = "inject"
    /\ \E i \in {1, 2}, hijacked \in BOOLEAN :
          /\ ConnErrorHits(snap[r], i)
          /\ Respond(r, Answer(ConnOrder[i],
                               IF hijacked THEN Closed
                                           ELSE FallbackCode(ConnOrder[i])))
    /\ UNCHANGED <<snap, ref>> /\ Local

\* The I/O timeout sleeps 30 seconds, holding no lock, ...
StartTimeout(r) ==
    /\ pc[r] = "inject"
    /\ ConnErrorHits(snap[r], 3)
    /\ MoveTo(r, "sleeping")
    /\ UNCHANGED <<snap, ref, reply>> /\ Local

\* Mutant: a sleep that ends early only while injection is still enabled.
FinishTimeout_WhileEnabled(r) ==
    /\ pc[r] = "sleeping"
    /\ config.enabled
    /\ Respond(r, Answer("ioTimeout", Closed))
    /\ UNCHANGED <<snap, ref>> /\ Local

\* Mutant: the return after the timeout is missing.
FinishTimeout_WithoutReturn(r) ==
    /\ pc[r] = "sleeping"
    /\ reply' = [reply EXCEPT ![r] = Answer("ioTimeout", Closed)]
    /\ MoveTo(r, NextHandler(req[r]))
    /\ UNCHANGED <<snap, ref>> /\ Local

\* ... then gives up on the connection whatever changed meanwhile.
FinishTimeout(r) ==
    /\ pc[r] = "sleeping"
    /\ \E hijacked \in BOOLEAN :
          Respond(r, Answer("ioTimeout",
                            IF hijacked THEN Closed
                                        ELSE FallbackCode("ioTimeout")))
    /\ UNCHANGED <<snap, ref>> /\ Local

\* Mutant: one draw that misses lets the request past all three.
NoConnError_Any(c) ==
    c.enabled => \E e \in ConnErrors : MayMiss(c.conn[e])

NoConnError(c) ==
    c.enabled => \A e \in ConnErrors : MayMiss(c.conn[e])

\* This draw is outside the test of enabled.
InjectHttpError(r) ==
    /\ pc[r] = "inject"
    /\ NoConnError(snap[r])
    /\ \E d \in Draw, i \in 1 .. 6 :
          /\ FallsIn(HttpSums(snap[r]), d, i)
          /\ Respond(r, Answer(DrawnErrors[i], DrawnCodes[i]))
    /\ UNCHANGED <<snap, ref>> /\ Local

PassInjection(r) ==
    /\ pc[r] = "inject"
    /\ NoConnError(snap[r])
    /\ \E d \in Draw : FallsPast(HttpSums(snap[r]), d)
    /\ MoveTo(r, IF IsShootsOrProjects(req[r]) THEN "restrict"
                                               ELSE NextHandler(req[r]))
    /\ UNCHANGED <<snap, ref, reply>> /\ Local

(* restrictedServiceAccountMiddleware *)

\* Mutant: the map captured once, when the chain is built.
CaptureRestricted_Once(r) ==
    /\ pc[r] = "restrict"
    /\ ref' = [ref EXCEPT ![r] = 1]
    /\ MoveTo(r, IF config.enabled THEN "emptycheck" ELSE NextHandler(req[r]))
    /\ UNCHANGED <<snap, reply>> /\ Local

\* Copies enabled and the REFERENCE of the map.
CaptureRestricted(r) ==
    /\ pc[r] = "restrict"
    /\ ref' = [ref EXCEPT ![r] = CurrentMap]
    /\ MoveTo(r, IF config.enabled THEN "emptycheck" ELSE NextHandler(req[r]))
    /\ UNCHANGED <<snap, reply>> /\ Local

\* Mutant: len(restrictedSAs) <= 1 .
CheckEmpty_OffByOne(r) ==
    /\ pc[r] = "emptycheck"
    /\ MoveTo(r, IF Cardinality(restrictedMaps[ref[r]]) <= 1
                    \/ req[r].bearer = NoSA
                 THEN NextHandler(req[r]) ELSE "lookup")
    /\ UNCHANGED <<snap, ref, reply>> /\ Local

\* len(restrictedSAs) is read after RUnlock, from a map that a management
\* call may be writing: a data race whose outcome is the length before or
\* after that write.
CheckEmpty(r) ==
    /\ pc[r] = "emptycheck"
    /\ MoveTo(r, IF restrictedMaps[ref[r]] = {} \/ req[r].bearer = NoSA
                 THEN NextHandler(req[r]) ELSE "lookup")
    /\ UNCHANGED <<snap, ref, reply>> /\ Local

\* Mutant: the return after the 403 is missing.
LookupRestricted_WithoutReturn(r) ==
    /\ pc[r] = "lookup"
    /\ MoveTo(r, NextHandler(req[r]))
    /\ IF req[r].bearer \in restrictedMaps[ref[r]]
       THEN reply' = [reply EXCEPT ![r] = Answer("restricted", 403)]
       ELSE UNCHANGED reply
    /\ UNCHANGED <<snap, ref>> /\ Local

LookupRestricted(r) ==
    /\ pc[r] = "lookup"
    /\ IF req[r].bearer \in restrictedMaps[ref[r]]
       THEN Respond(r, Answer("restricted", 403))
       ELSE MoveTo(r, NextHandler(req[r])) /\ UNCHANGED reply
    /\ UNCHANGED <<snap, ref>> /\ Local

(* handleAdminKubeconfigRequest and handleTokenRequest: one snapshot, then  *)
(* the per-object failure, the drawn errors and the body, in that order.    *)

SnapshotHandler(r) ==
    /\ pc[r] = "handler"
    /\ snap' = [snap EXCEPT ![r] = config]
    /\ MoveTo(r, "decide")
    /\ UNCHANGED <<ref, reply>> /\ Local

FailObject(r) ==
    /\ pc[r] = "decide"
    /\ FailCode(snap[r], req[r]) # 0
    /\ Respond(r, Answer("failing", WriteHeader(FailCode(snap[r], req[r]))))
    /\ UNCHANGED <<snap, ref>> /\ Local

ExpireCaller(r) ==
    /\ pc[r] = "decide"
    /\ req[r].kind = "token"
    /\ FailCode(snap[r], req[r]) = 0
    /\ snap[r].enabled /\ MayHit(snap[r].tokenExpiredRate)
    /\ Respond(r, Answer("tokenExpired", 401))
    /\ UNCHANGED <<snap, ref>> /\ Local

CallerNotExpired(c, q) ==
    q.kind = "token" => (c.enabled => MayMiss(c.tokenExpiredRate))

InjectOperationError(r) ==
    /\ pc[r] = "decide"
    /\ FailCode(snap[r], req[r]) = 0
    /\ CallerNotExpired(snap[r], req[r])
    /\ snap[r].enabled /\ MayHit(OperationRate(snap[r], req[r]))
    /\ \E d \in Draw, code \in {429, 500, 504} :
          /\ Selects(snap[r], d, code)
          /\ Respond(r, Answer("operation", code))
    /\ UNCHANGED <<snap, ref>> /\ Local

\* Mutant: per-object failures honoured only while injection is enabled.
NoOperationError_IfEnabled(c, q) ==
    /\ c.enabled => FailCode(c, q) = 0 /\ MayMiss(OperationRate(c, q))
    /\ CallerNotExpired(c, q)

NoOperationError(c, q) ==
    /\ FailCode(c, q) = 0
    /\ CallerNotExpired(c, q)
    /\ c.enabled => MayMiss(OperationRate(c, q))

\* io.ReadAll(r.Body) fails.
FailBody(r) ==
    /\ pc[r] = "decide"
    /\ NoOperationError(snap[r], req[r])
    /\ Respond(r, Answer("badBody", 400))
    /\ UNCHANGED <<snap, ref>> /\ Local

ReadBody(r) ==
    /\ pc[r] = "decide"
    /\ NoOperationError(snap[r], req[r])
    /\ MoveTo(r, IF req[r].kind = "adminkubeconfig" THEN "get" ELSE "issue")
    /\ UNCHANGED <<snap, ref, reply>> /\ Local

\* Mutant: every error of client.Get taken for a transient one.
GetShoot_Unchecked(r) ==
    /\ pc[r] = "get"
    /\ MoveTo(r, "issue")
    /\ UNCHANGED <<snap, ref, reply>> /\ Local

\* client.Get; any error of it, the API server being away included, is
\* answered with 404.
GetShoot(r) ==
    /\ pc[r] = "get"
    /\ \/ req[r].shoot \in shoots /\ MoveTo(r, "issue") /\ UNCHANGED reply
       \/ Respond(r, Answer("shootNotFound", 404))
    /\ UNCHANGED <<snap, ref>> /\ Local

AtIssue(r, kind) == pc[r] = "issue" /\ req[r].kind = kind

\* Mutant: the invalid rate drawn without testing enabled.
IssueInvalid_Unguarded(r) ==
    /\ AtIssue(r, "adminkubeconfig")
    /\ MayHit(snap[r].invalidKubeconfigRate)
    /\ Respond(r, Issued(201, "invalid", Asked(req[r])))
    /\ UNCHANGED <<snap, ref>> /\ Local

IssueInvalid(r) ==
    /\ AtIssue(r, "adminkubeconfig")
    /\ \/ snap[r].shootKubeconfigBehavior[req[r].shoot] = "invalid"
       \/ snap[r].enabled /\ MayHit(snap[r].invalidKubeconfigRate)
    /\ Respond(r, Issued(201, "invalid", Asked(req[r])))
    /\ UNCHANGED <<snap, ref>> /\ Local

\* Mutant: the rate drawn only for shoots that have a behaviour.
NotInvalid_IfMarked(c, q) ==
    /\ c.shootKubeconfigBehavior[q.shoot] # "invalid"
    /\ c.enabled /\ c.shootKubeconfigBehavior[q.shoot] # "" =>
          MayMiss(c.invalidKubeconfigRate)

NotInvalid(c, q) ==
    /\ c.shootKubeconfigBehavior[q.shoot] # "invalid"
    /\ c.enabled => MayMiss(c.invalidKubeconfigRate)

IssueExpired(r) ==
    /\ AtIssue(r, "adminkubeconfig")
    /\ NotInvalid(snap[r], req[r])
    /\ \/ snap[r].shootKubeconfigBehavior[req[r].shoot] = "expired"
       \/ snap[r].enabled /\ MayHit(snap[r].expiredKubeconfigRate)
    /\ Respond(r, Issued(201, "valid", HourAgo))
    /\ UNCHANGED <<snap, ref>> /\ Local

IssueKubeconfig(r) ==
    /\ AtIssue(r, "adminkubeconfig")
    /\ NotInvalid(snap[r], req[r])
    /\ snap[r].shootKubeconfigBehavior[req[r].shoot] # "expired"
    /\ snap[r].enabled => MayMiss(snap[r].expiredKubeconfigRate)
    /\ Respond(r, Issued(201, "valid",
                         IF snap[r].enabled /\ snap[r].shortTTLSeconds > 0
                         THEN snap[r].shortTTLSeconds ELSE Asked(req[r])))
    /\ UNCHANGED <<snap, ref>> /\ Local

\* Mutant: the override re-read when the token is built.
TokenLifetime_Reread(c, q) ==
    IF config.shortTTLSeconds > 0 THEN config.shortTTLSeconds ELSE Asked(q)

\* Token handlers shorten the lifetime whether or not injection is enabled.
TokenLifetime(c, q) ==
    IF c.shortTTLSeconds > 0 THEN c.shortTTLSeconds ELSE Asked(q)

IssueToken(r) ==
    /\ AtIssue(r, "token")
    /\ \/ /\ snap[r].enabled => MayMiss(snap[r].expiredKubeconfigRate)
          /\ Respond(r, Issued(200, "valid", TokenLifetime(snap[r], req[r])))
       \/ /\ snap[r].enabled /\ MayHit(snap[r].expiredKubeconfigRate)
          /\ Respond(r, Issued(200, "valid", HourAgo))
    /\ UNCHANGED <<snap, ref>> /\ Local

(* handleServiceAccountKubeconfig, on the management port: one locked read. *)
MintServiceAccountKubeconfig(r) ==
    /\ pc[r] = "mint"
    /\ Respond(r, Issued(200, "valid", TokenLifetime(config, req[r])))
    /\ UNCHANGED <<snap, ref>> /\ Local

(* The reverse proxy and the API server behind it. *)

ApiServer(q) ==
    CASE q.kind = "get"    -> [code |-> IF q.shoot \in shoots THEN 200 ELSE 404,
                               shoots |-> shoots]
      [] q.kind = "create" -> [code |-> IF q.shoot \in shoots THEN 409 ELSE 201,
                               shoots |-> shoots \cup {q.shoot}]
      [] q.kind = "delete" -> [code |-> IF q.shoot \in shoots THEN 200 ELSE 404,
                               shoots |-> shoots \ {q.shoot}]
      [] OTHER             -> [code |-> 200, shoots |-> shoots]

Forward(r) ==
    /\ pc[r] = "forward"
    /\ Respond(r, Answer("upstream", ApiServer(req[r]).code))
    /\ shoots' = ApiServer(req[r]).shoots
    /\ UNCHANGED <<configVars, req, snap, ref>>
    /\ Observe

\* ReverseProxy answers 502 when the API server cannot be reached.
ForwardFails(r) ==
    /\ pc[r] = "forward"
    /\ Respond(r, Answer("upstream", 502))
    /\ UNCHANGED <<snap, ref>> /\ Local

Manage ==
    /\ Management
    /\ UNCHANGED <<shoots, requestVars>>
    /\ Observe

----------------------------------------------------------------------------

Step(r) ==
    \/ SnapshotRates(r)     \/ BreakConnection(r)  \/ StartTimeout(r)
    \/ FinishTimeout(r)     \/ InjectHttpError(r)  \/ PassInjection(r)
    \/ CaptureRestricted(r) \/ CheckEmpty(r)       \/ LookupRestricted(r)
    \/ SnapshotHandler(r)   \/ FailObject(r)       \/ ExpireCaller(r)
    \/ InjectOperationError(r) \/ FailBody(r)      \/ ReadBody(r)
    \/ GetShoot(r)          \/ IssueInvalid(r)     \/ IssueExpired(r)
    \/ IssueKubeconfig(r)   \/ IssueToken(r)
    \/ MintServiceAccountKubeconfig(r)
    \/ Forward(r)           \/ ForwardFails(r)

Next ==
    \/ \E r \in Requests : Arrive(r) \/ Step(r)
    \/ Manage

Spec == Init /\ [][Next]_vars

\* A goroutine the server has started keeps running; clients and management
\* calls owe nothing.
Fairness == \A r \in Requests : WF_vars(Step(r))

FairSpec == Spec /\ Fairness

----------------------------------------------------------------------------
(* Properties.                                                               *)

Answered(r) == pc[r] = "done"

\* What a configuration leaves no draw to escape from: a broken connection,
\* an error of the middleware, an error of the operation's handler.
CertainBreak(c) == c.enabled /\ \E e \in ConnErrors : Always(c.conn[e])

CertainError(c) == Always(HttpSums(c)[6])

Passable(c) == ~ CertainBreak(c) /\ ~ CertainError(c)

CallerCertainlyExpired(c, q) ==
    c.enabled /\ q.kind = "token" /\ Always(c.tokenExpiredRate)

CertainFailure(c, q) ==
    \/ FailCode(c, q) # 0
    \/ CallerCertainlyExpired(c, q)
    \/ c.enabled /\ Always(OperationRate(c, q))

TypeOfCode(code) == CASE code = 429 -> "rateLimit" [] code = 500 -> "serverError"
                      [] code = 504 -> "timeout"

\* What a single configuration c says for an answer a to the request q.  A
\* code of an operation error has a positive rate, or is the 429 that stands
\* for the remainder the three rates leave.
OperationExplained(c, q, a) ==
    /\ c.enabled
    /\ OperationRate(c, q) > 0
    /\ FailCode(c, q) = 0
    /\ ~ CallerCertainlyExpired(c, q)
    /\ a.code \in {429, 500, 504}
    /\ \/ c.http[TypeOfCode(a.code)] > 0
       \/ a.code = 429 /\ ~ Always(SelectSums(c)[3])

KubeconfigExplained(c, q, a) ==
    LET behavior == c.shootKubeconfigBehavior[q.shoot]
        invalid  == behavior = "invalid" \/
                    (c.enabled /\ c.invalidKubeconfigRate > 0)
        expired  == behavior = "expired" \/
                    (c.enabled /\ c.expiredKubeconfigRate > 0)
        short    == c.enabled /\ c.shortTTLSeconds > 0
        spoilt   == behavior = "invalid" \/
                    (c.enabled /\ Always(c.invalidKubeconfigRate))
        stale    == behavior = "expired" \/
                    (c.enabled /\ Always(c.expiredKubeconfigRate))
    IN  /\ ~ CertainFailure(c, q)
        /\ a.credential = "invalid" => invalid
        /\ spoilt => a.credential = "invalid"
        /\ a.credential = "valid" =>
              /\ stale => a.expiry = HourAgo
              /\ \/ expired /\ a.expiry = HourAgo
                 \/ short /\ a.expiry = c.shortTTLSeconds
                 \/ ~ short /\ a.expiry = Asked(q)

TokenExplained(c, q, a) ==
    /\ a.credential = "valid"
    /\ q.kind = "token" =>
          /\ ~ CertainFailure(c, q)
          /\ c.enabled /\ Always(c.expiredKubeconfigRate) =>
                a.expiry = HourAgo
    /\ \/ /\ c.enabled /\ c.expiredKubeconfigRate > 0 /\ q.kind = "token"
          /\ a.expiry = HourAgo
       \/ c.shortTTLSeconds > 0 /\ a.expiry = c.shortTTLSeconds
       \/ c.shortTTLSeconds <= 0 /\ a.expiry = Asked(q)

ConfigExplains(c, q, a) ==
    CASE a.cause \in ConnErrors ->
            c.enabled /\ c.conn[a.cause] > 0
      [] a.cause \in HttpErrors ->
            /\ ~ CertainBreak(c)
            /\ c.http[a.cause] > 0
            /\ \E i \in 1 .. 6 : a.cause = DrawnErrors[i]
                                 /\ a.code = DrawnCodes[i]
      [] a.cause = "failing" ->
            FailCode(c, q) # 0 /\ a.code = WriteHeader(FailCode(c, q))
      [] a.cause = "tokenExpired" ->
            c.enabled /\ c.tokenExpiredRate > 0 /\ FailCode(c, q) = 0
      [] a.cause = "operation" -> OperationExplained(c, q, a)
      [] a.cause \in {"badBody", "shootNotFound"} -> ~ CertainFailure(c, q)
      [] a.cause = "issued" /\ q.kind = "adminkubeconfig" ->
            KubeconfigExplained(c, q, a)
      [] a.cause = "issued" /\ q.kind # "adminkubeconfig" ->
            TokenExplained(c, q, a)
      [] OTHER -> TRUE

\* The middleware for restricted accounts reads enabled and the map in two
\* locked sections, so its 403 may combine two moments of the request.
RestrictionExplains(ws, q) ==
    /\ \E w \in ws : w.cfg.enabled
    /\ \E w \in ws : q.bearer \in w.restricted

AnswerExplained(ws, q, a) ==
    IF a.cause = "restricted" THEN RestrictionExplains(ws, q)
                              ELSE \E w \in ws : ConfigExplains(w.cfg, q, a)

\* Every answer follows from ONE configuration that was current at some
\* moment between the request's arrival and its answer, never from a mix of
\* two, although the rates, the per-object failures and the lifetimes are
\* read in several locked sections and used after the lock is released.  A
\* restriction answers 403 only if injection was enabled and the account was
\* restricted at some moment of the request, even when the map it looks up
\* has been replaced meanwhile.
ReplyExplained ==
    \A r \in Requests :
        Answered(r) => AnswerExplained(seen[r], req[r], reply[r])

\* The chain has let the request past the middleware for restricted accounts.
PastRestriction(r) ==
    \/ pc[r] \in {"handler", "decide", "get", "issue", "forward"}
    \/ Answered(r) /\ reply[r].cause \notin ConnErrors \cup HttpErrors
                                            \cup {"restricted"}

MayBeAdmitted(ws, q) ==
    IsShootsOrProjects(q) /\ q.bearer # NoSA =>
        \E w \in ws : ~ w.cfg.enabled \/ q.bearer \notin w.restricted

\* A service account that stays restricted, with injection enabled, for the
\* whole life of its request is never let through to the shoots and projects
\* endpoints: neither the unlocked emptiness test nor a lookup in a captured
\* map can miss it.
RestrictedNeverAdmitted ==
    \A r \in Requests : PastRestriction(r) => MayBeAdmitted(seen[r], req[r])

\* A shoot or service account marked as failing for the whole life of a
\* request gets no credential from the endpoint the mark is for.  Nothing is
\* said of a GET of the shoot: the proxy does not look at the mark and serves it.
FailingObjectNeverServed ==
    \A r \in Requests :
        /\ Answered(r) /\ IsHandled(req[r])
        /\ \A w \in seen[r] : FailCode(w.cfg, req[r]) # 0
        => reply[r].credential = "none"

\* The chain has let the request past the injection middleware.
PastInjection(r) ==
    \/ pc[r] \in {"restrict", "emptycheck", "lookup", "handler", "decide", "get",
                   "issue", "forward"}
    \/ Answered(r) /\ reply[r].cause \notin ConnErrors \cup HttpErrors

MayPass(ws, q) ==
    q.kind # "sakubeconfig" => \E w \in ws : Passable(w.cfg)

\* An answer a to a request q that lived through the worlds ws escapes no
\* fault that was certain in all of them.
Struck(ws, q, a) ==
    LET Throughout(P(_)) == \A w \in ws : P(w.cfg)
        Spoilt(c)        == c.enabled /\ Always(c.invalidKubeconfigRate)
        Stale(c)         == c.enabled /\ Always(c.expiredKubeconfigRate)
        Failure(c)       == CertainFailure(c, q)
        NoWay(c)         == ~ Passable(c)
    IN  /\ Throughout(CertainBreak) /\ q.kind # "sakubeconfig" =>
              a.cause \in ConnErrors
        /\ Throughout(NoWay) /\ q.kind # "sakubeconfig" =>
              a.cause \in ConnErrors \cup HttpErrors
        /\ Throughout(Failure) /\ IsHandled(q) => a.credential = "none"
        /\ Throughout(Spoilt) /\ q.kind = "adminkubeconfig" =>
              a.credential # "valid"
        /\ Throughout(Stale) /\ IsHandled(q) /\ a.credential = "valid" =>
              a.expiry = HourAgo

\* A rate of 1.0 always strikes (README.md, "Error Injection"): a request
\* that lives through certain faults only, be it a different one in each
\* world, is not let through to a server or given a usable credential, even
\* though the chain draws its rates from up to two copies, both out of date
\* when they are used.
CertainErrorsStrike ==
    \A r \in Requests : Answered(r) => Struck(seen[r], req[r], reply[r])

GhostFree(ws, q, a) ==
    q.kind = "adminkubeconfig" /\ a.credential # "none" =>
        \E w \in ws : q.shoot \in w.shoots

\* An admin kubeconfig is issued only for a shoot that existed at some moment
\* of the request, whatever proxied requests delete and recreate.
NoKubeconfigForGhost ==
    \A r \in Requests :
        Answered(r) => GhostFree(seen[r], req[r], reply[r])

\* While injection stays disabled no connection is broken, no operation rate
\* or token expiry is drawn, no account is restricted and only a per-shoot
\* behaviour spoils a kubeconfig.
DisabledIsQuiet ==
    \A r \in Requests :
        Answered(r) /\ (\A w \in seen[r] : ~ w.cfg.enabled) =>
            /\ reply[r].cause \notin ConnErrors \cup
                  {"restricted", "tokenExpired", "operation"}
            /\ reply[r].credential = "invalid" =>
                  \E w \in seen[r] :
                     w.cfg.shootKubeconfigBehavior[req[r].shoot] = "invalid"

Phase ==
    [r \in Requests |-> IF pc[r] = "idle" THEN "idle"
                        ELSE IF Answered(r) THEN "answered" ELSE "asked"]

\* The answers that worlds ws allow to a request q.
MayAnswer(ws, q, a) ==
    /\ AnswerExplained(ws, q, a)
    /\ GhostFree(ws, q, a)
    /\ Struck(ws, q, a)
    /\ a.cause \notin ConnErrors \cup HttpErrors \cup {"restricted"} =>
          MayBeAdmitted(ws, q)

Contract == INSTANCE ErrorSimulator WITH
    world <- World, asked <- req, phase <- Phase, lived <- seen,
    given <- reply, Allowed <- MayAnswer

\* The chain of handlers keeps the simulator's promise: each request gets one
\* answer, which no later handler of the chain takes back, and the worlds of
\* its time allow it, although the chain works on copies and served requests
\* change the world themselves.
KeepsContract == Contract!Spec

\* Every request that arrives is answered, whatever the management calls do
\* meanwhile.
EveryRequestAnswered ==
    \A r \in Requests : InFlight(r) ~> Answered(r)

----------------------------------------------------------------------------
(* The inductive invariant behind these properties: what each stage of a     *)
(* request may rely on.                                                      *)

\* The copy a stage works on was the configuration during the request.
SnapSeen(r) ==
    pc[r] \in {"inject", "sleeping", "decide", "get", "issue"} =>
        \E w \in seen[r] : w.cfg = snap[r]

\* The captured map has the contents the field had during the request: it is
\* the current map, or was frozen when it was replaced.
RefSeen(r) ==
    pc[r] \in {"emptycheck", "lookup"} =>
        /\ \E w \in seen[r] : w.cfg.enabled
        /\ \E w \in seen[r] : w.restricted = restrictedMaps[ref[r]]

StageFits(r) ==
    /\ pc[r] \in {"handler", "decide", "issue"} => IsHandled(req[r])
    /\ pc[r] = "get" => req[r].kind = "adminkubeconfig"
    /\ pc[r] = "mint" => req[r].kind = "sakubeconfig"
    /\ pc[r] = "sleeping" =>
          snap[r].enabled /\ snap[r].conn["ioTimeout"] > 0
    /\ pc[r] \in {"get", "issue"} => ~ CertainFailure(snap[r], req[r])
    /\ pc[r] = "issue" /\ req[r].kind = "adminkubeconfig" =>
          \E w \in seen[r] : req[r].shoot \in w.shoots

AnswerFits(r) ==
    Answered(r) => /\ AnswerExplained(seen[r], req[r], reply[r])
                   /\ GhostFree(seen[r], req[r], reply[r])
                   /\ reply[r].credential # "none" => reply[r].cause = "issued"

RequestInv(r) ==
    /\ InFlight(r) => World \in seen[r]
    /\ SnapSeen(r)
    /\ RefSeen(r)
    /\ StageFits(r)
    /\ PastInjection(r) => MayPass(seen[r], req[r])
    /\ PastRestriction(r) => MayBeAdmitted(seen[r], req[r])
    /\ AnswerFits(r)

IInv == TypeOK /\ \A r \in Requests : RequestInv(r)

----------------------------------------------------------------------------
(* What the documentation says and the code does not do.                     *)

\* "Disable error injection" (README.md), "Only inject errors if enabled"
\* (server.go): with injection disabled no error type is injected.
DisabledInjectsNothing ==
    \A r \in Requests :
        Answered(r) /\ (\A w \in seen[r] : ~ w.cfg.enabled) =>
            reply[r].cause \notin ConnErrors \cup HttpErrors

\* "Error type is selected proportionally to their configured rates"
\* (README.md): once the rate of some type is set, a type whose rate is 0 is
\* not selected.
SelectedTypeIsConfigured ==
    \A r \in Requests :
        Answered(r) /\ reply[r].cause = "operation" =>
            \E w \in seen[r] :
                \/ w.cfg.http[TypeOfCode(reply[r].code)] > 0
                \/ \A e \in HttpErrors : w.cfg.http[e] = 0
=============================================================================
