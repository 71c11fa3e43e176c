--------------------------- MODULE StandaloneApi ---------------------------
(***************************************************************************)
(* The stand-alone API (Handler): requests that put their questions to the  *)
(* injector and to the store one after the other, while management calls    *)
(* change both.  Every question takes the lock for itself, so a request may *)
(* see a different configuration at each; here each question is a step.     *)
(***************************************************************************)
EXTENDS ManagementApi

CONSTANTS
    Requests,           \* identities of the requests of a behaviour
    Arrivals,           \* the requests clients may send
    KubeconfigTTL,      \* how long a kubeconfig lives unless the body says
    NoSA,               \* no bearer token naming a service account
    Nil                 \* the body gives no expirationSeconds

Kinds == {"list", "get", "projects", "project", "namespaces",
          "adminkubeconfig", "token", "sakubeconfig"}

\* list is of one namespace or of all; sakubeconfig is the management
\* endpoint that mints a token for a service account.
Request ==
    [kind    : Kinds,
     shoot   : Shoots,
     sa      : ServiceAccounts,
     bearer  : ServiceAccounts \cup {NoSA},
     seconds : Int \cup {Nil}]

ASSUME ApiAssumption ==
    /\ Arrivals \subseteq Request
    /\ KubeconfigTTL \in Nat \ {0}
    /\ NoSA \notin ServiceAccounts
    /\ Nil \notin Int

\* Mutant: the shoot is looked up before its mark.
Checks_StoreFirst ==
    [list            |-> <<"restricted", "operation", "store">>,
     get             |-> <<"restricted", "store", "failing", "operation">>,
     projects        |-> <<"restricted", "store">>,
     project         |-> <<"restricted", "store">>,
     namespaces      |-> <<"store">>,
     adminkubeconfig |-> <<"failing", "operation", "store", "behavior",
                           "invalid", "expired", "ttl", "issue">>,
     token           |-> <<"connection", "behavior", "failing", "tokenExpired",
                           "operation", "body", "ttl", "expired", "issue">>,
     sakubeconfig    |-> <<"issue">>]

\* The questions each handler asks, in its order.
Checks ==
    [list            |-> <<"restricted", "operation", "store">>,
     get             |-> <<"restricted", "failing", "operation", "store">>,
     projects        |-> <<"restricted", "store">>,
     project         |-> <<"restricted", "store">>,
     namespaces      |-> <<"store">>,
     adminkubeconfig |-> <<"failing", "operation", "store", "behavior",
                           "invalid", "expired", "ttl", "issue">>,
     token           |-> <<"connection", "behavior", "failing", "tokenExpired",
                           "operation", "body", "ttl", "expired", "issue">>,
     sakubeconfig    |-> <<"issue">>]

\* The name under which a handler asks for a random error.
Operation == [list            |-> "ListShoots",
              get             |-> "GetShoot",
              adminkubeconfig |-> "AdminKubeconfig",
              token           |-> "TokenRequest"]

\* The lifetime asked for, when it is positive.
Asked(q) ==
    IF q.seconds # Nil /\ q.seconds > 0 THEN q.seconds
    ELSE IF q.kind = "adminkubeconfig" THEN KubeconfigTTL ELSE 3600

HourAgo == 0 - 3600

Causes == {"none", "restricted", "failing", "operation", "connection",
           "behavior", "tokenExpired", "body", "store", "invalid", "expired",
           "issue"}

\* The question a reply ended at, and what it carried.
Reply ==
    [cause      : Causes,
     code       : Int,
     credential : {"none", "valid", "invalid"},
     expiry     : Int]      \* expirationTimestamp, in seconds from now

Answer(cause, code) ==
    [cause |-> cause, code |-> code, credential |-> "none", expiry |-> 0]

Credential(cause, credential, expiry) ==
    [cause |-> cause, code |-> 200, credential |-> credential,
     expiry |-> expiry]

NoReply == Answer("none", Closed)

VARIABLES
    req,        \* per request: what is asked
    at,         \* per request: its next question, 0 before it arrives
    word,       \* per request: the behaviour captured for its object
    lifetime,   \* per request: the lifetime of the credential
    reply,      \* per request: the answer written
    seen        \* history: the worlds current during the request

requestVars == <<at, word, lifetime, reply>>
vars == <<managementVars, req, requestVars, seen>>

World == [injector |-> injector, shoots |-> shoots]

Worlds == [injector : Settings, shoots : SUBSET Shoots]

Done(r) == reply[r].cause # "none"

InFlight(r) == at[r] > 0 /\ ~ Done(r)

Questions(r) == Checks[req[r].kind]

\* The request has got past this question.
Past(r, check) ==
    \E i \in DOMAIN Questions(r) : i < at[r] /\ Questions(r)[i] = check

Init ==
    /\ ManagementInit
    /\ req \in [Requests -> Arrivals]
    /\ at = [r \in Requests |-> 0]
    /\ word = [r \in Requests |-> ""]
    /\ lifetime = [r \in Requests |-> 0]
    /\ reply = [r \in Requests |-> NoReply]
    /\ seen = [r \in Requests |-> {}]

TypeOK ==
    /\ ManagementTypeOK
    /\ req \in [Requests -> Arrivals]
    /\ at \in [Requests -> Nat]
    /\ \A r \in Requests : at[r] <= Len(Questions(r))
    /\ word \in [Requests -> Behaviors]
    /\ lifetime \in [Requests -> Int]
    /\ reply \in [Requests -> Reply]
    /\ seen \in [Requests -> SUBSET Worlds]

----------------------------------------------------------------------------
(* Steps of a request, one per question. *)

Local == UNCHANGED <<managementVars, req, seen>>

Observe ==
    seen' = [r \in Requests |-> IF InFlight(r) THEN seen[r] \cup {World'}
                                               ELSE seen[r]]

\* Mutant: handlers that go on after they have answered.
Asks_WithoutReturn(r, check) ==
    /\ at[r] > 0
    /\ Questions(r)[at[r]] = check

Asks(r, check) ==
    /\ InFlight(r)
    /\ Questions(r)[at[r]] = check

Continue(r) ==
    /\ at' = [at EXCEPT ![r] = @ + 1]
    /\ UNCHANGED reply

Respond(r, answer) ==
    /\ reply' = [reply EXCEPT ![r] = answer]
    /\ UNCHANGED at

\* The body is read later on, but it is the client's and does not change.
Arrive(r) ==
    /\ at[r] = 0
    /\ at' = [at EXCEPT ![r] = 1]
    /\ lifetime' = [lifetime EXCEPT ![r] = Asked(req[r])]
    /\ seen' = [seen EXCEPT ![r] = {World}]
    /\ UNCHANGED <<managementVars, req, word, reply>>

\* Mutant: lists are not checked.
IsRefused_UnlessList(c, q) ==
    q.kind # "list" /\ q.bearer # NoSA /\ Restricts(c, q.bearer)

\* extractServiceAccountFromAuth, IsServiceAccountRestricted
IsRefused(c, q) == q.bearer # NoSA /\ Restricts(c, q.bearer)

CheckRestricted(r) ==
    /\ Asks(r, "restricted")
    /\ IF IsRefused(injector.config, req[r])
       THEN Respond(r, Answer("restricted", 403)) ELSE Continue(r)
    /\ UNCHANGED <<word, lifetime>> /\ Local

\* ShouldInjectShootError, ShouldInjectServiceAccountError
IsMarked(c, q) ==
    IF q.kind = "token" THEN FailsServiceAccount(c, q.sa)
                        ELSE FailsShoot(c, q.shoot)

Mark(c, q) ==
    IF q.kind = "token" THEN c.failingServiceAccounts[q.sa]
                        ELSE c.failingShoots[q.shoot]

CheckFailing(r) ==
    LET c == injector.config
    IN  /\ Asks(r, "failing")
        /\ IF IsMarked(c, req[r])
           THEN Respond(r, Answer("failing", WriteHeader(Mark(c, req[r]))))
           ELSE Continue(r)
        /\ UNCHANGED <<word, lifetime>> /\ Local

CheckOperation(r) ==
    LET op == Operation[req[r].kind]
    IN  /\ Asks(r, "operation")
        /\ \/ \E code \in Codes \cup {500} \cup Named(TypeCodes) :
                 /\ MayFail(injector, op, code)
                 /\ Respond(r, Answer("operation", WriteHeader(code)))
           \/ MaySucceed(injector, op) /\ Continue(r)
        /\ UNCHANGED <<word, lifetime>> /\ Local

CheckConnection(r) ==
    /\ Asks(r, "connection")
    /\ \/ /\ MayBreakConnection(injector.config)
          /\ Respond(r, Answer("connection", 503))
       \/ MayKeepConnection(injector.config) /\ Continue(r)
    /\ UNCHANGED <<word, lifetime>> /\ Local

\* GetShootKubeconfigBehavior, GetServiceAccountKubeconfigBehavior
BehaviorOf(c, q) ==
    IF q.kind = "token" THEN ServiceAccountBehavior(c, q.sa)
                        ELSE ShootBehavior(c, q.shoot)

ReadBehavior(r) ==
    LET b == BehaviorOf(injector.config, req[r])
    IN  /\ Asks(r, "behavior")
        /\ word' = [word EXCEPT ![r] = b]
        /\ IF req[r].kind = "token" /\ b = "token_expired_error"
           THEN Respond(r, Answer("behavior", 401)) ELSE Continue(r)
        /\ UNCHANGED lifetime /\ Local

CheckTokenExpired(r) ==
    LET c == injector.config
    IN  /\ Asks(r, "tokenExpired")
        /\ \/ /\ MayInject(c, c.tokenExpiredErrorRate)
              /\ Respond(r, Answer("tokenExpired", 401))
           \/ MayNotInject(c, c.tokenExpiredErrorRate) /\ Continue(r)
        /\ UNCHANGED <<word, lifetime>> /\ Local

\* Only the token handler insists on a body it can parse.
ReadBody(r) ==
    /\ Asks(r, "body")
    /\ Respond(r, Answer("body", 400)) \/ Continue(r)
    /\ UNCHANGED <<word, lifetime>> /\ Local

\* Mutant: the lookup that precedes a kubeconfig is left out.
Found_Assumed(set, q) == q.kind \in {"get", "project"} => q.shoot \in set

\* The lists are never refused.  project stands for any project: there is
\* one, or there is not.
Found(set, q) == q.kind \in {"get", "adminkubeconfig"} => q.shoot \in set

ReadStore(r) ==
    /\ Asks(r, "store")
    /\ \/ /\ ~ Found(shoots, req[r]) \/ req[r].kind = "project"
          /\ Respond(r, Answer("store", 404))
       \/ /\ Found(shoots, req[r])
          /\ IF req[r].kind = "adminkubeconfig"
             THEN Continue(r) ELSE Respond(r, Answer("store", 200))
    /\ UNCHANGED <<word, lifetime>> /\ Local

\* A word that says so spares the draw.
MayBe(c, w, damage, rate) == w = damage \/ MayInject(c, rate)

\* Mutant: the captured word is forgotten.
MayNotBe_ByDraw(c, w, damage, rate) == MayNotInject(c, rate)

MayNotBe(c, w, damage, rate) == w # damage /\ MayNotInject(c, rate)

CheckInvalid(r) ==
    LET c == injector.config
    IN  /\ Asks(r, "invalid")
        /\ \/ /\ MayBe(c, word[r], "invalid", c.invalidKubeconfigRate)
              /\ Respond(r, Credential("invalid", "invalid", lifetime[r]))
           \/ /\ MayNotBe(c, word[r], "invalid", c.invalidKubeconfigRate)
              /\ Continue(r)
        /\ UNCHANGED <<word, lifetime>> /\ Local

\* An expired kubeconfig is answered at once; a token goes on with the
\* expiry it will carry.
CheckExpired(r) ==
    LET c == injector.config
    IN  /\ Asks(r, "expired")
        /\ \/ /\ MayBe(c, word[r], "expired", c.expiredKubeconfigRate)
              /\ \/ /\ req[r].kind = "token"
                    /\ lifetime' = [lifetime EXCEPT ![r] = HourAgo]
                    /\ Continue(r)
                 \/ /\ req[r].kind = "adminkubeconfig"
                    /\ \/ Respond(r, Credential("expired", "valid", HourAgo))
                       \/ Respond(r, Answer("expired", 500))
                    /\ UNCHANGED lifetime
           \/ /\ MayNotBe(c, word[r], "expired", c.expiredKubeconfigRate)
              /\ Continue(r)
              /\ UNCHANGED lifetime
        /\ UNCHANGED word /\ Local

\* GetShortTTLSeconds, which does not ask whether injection is enabled.
ReadShortTTL(r) ==
    LET ttl == injector.config.shortTTLSeconds
    IN  /\ Asks(r, "ttl")
        /\ lifetime' = [lifetime EXCEPT ![r] = IF ttl > 0 THEN ttl ELSE @]
        /\ Continue(r)
        /\ UNCHANGED word /\ Local

\* The generator may fail; a token is only text.
Issue(r) ==
    /\ Asks(r, "issue")
    /\ \/ Respond(r, Credential("issue",
                                IF req[r].kind = "token" /\ word[r] = "invalid"
                                THEN "invalid" ELSE "valid",
                                lifetime[r]))
       \/ req[r].kind = "adminkubeconfig" /\ Respond(r, Answer("issue", 500))
    /\ UNCHANGED <<word, lifetime>> /\ Local

Manage ==
    /\ Management
    /\ UNCHANGED <<req, requestVars>>
    /\ Observe

Step(r) ==
    \/ CheckRestricted(r)   \/ CheckFailing(r) \/ CheckOperation(r)
    \/ CheckConnection(r)   \/ ReadBehavior(r) \/ CheckTokenExpired(r)
    \/ ReadBody(r)          \/ ReadStore(r)    \/ CheckInvalid(r)
    \/ CheckExpired(r)      \/ ReadShortTTL(r) \/ Issue(r)

Next ==
    \/ \E r \in Requests : Arrive(r) \/ Step(r)
    \/ Manage

Spec == Init /\ [][Next]_vars

----------------------------------------------------------------------------
(* Properties. *)

MayBeExpired(c, q) ==
    BehaviorOf(c, q) = "expired" \/ MayInject(c, c.expiredKubeconfigRate)

MayBeInvalid(c, q) ==
    \/ BehaviorOf(c, q) = "invalid"
    \/ q.kind = "adminkubeconfig" /\ MayInject(c, c.invalidKubeconfigRate)

\* An expiry that is not the one asked for comes from an override or from an
\* expired credential of the request's time.
ExpiryExplained(ws, q, expiry) ==
    \/ expiry = Asked(q)
    \/ \E w \in ws : /\ w.injector.config.shortTTLSeconds > 0
                     /\ expiry = w.injector.config.shortTTLSeconds
    \/ expiry = HourAgo /\ \E w \in ws : MayBeExpired(w.injector.config, q)

\* A random error has the code of the simple rate, or one whose type has a
\* rate, or the default.
OperationExplained(s, q, a) ==
    LET op == Operation[q.kind]
    IN  /\ s.config.enabled
        /\ IF HasSimpleRate(s, op)
           THEN a.code = WriteHeader(SimpleCode(s, op))
           ELSE /\ s.config.operationRate[op] > 0
                /\ \/ a.code = 500
                   \/ \E i \in DOMAIN TypeOrder :
                         /\ s.config.typeRate[TypeOrder[i]] > 0
                         /\ a.code = TypeCodes[i]

\* What one world says for an answer to the request q.
WorldExplains(w, q, a) ==
    LET c == w.injector.config
    IN  CASE a.cause = "restricted"   -> Restricts(c, q.bearer)
          [] a.cause = "failing"      -> /\ IsMarked(c, q)
                                         /\ a.code = WriteHeader(Mark(c, q))
          [] a.cause = "operation"    -> OperationExplained(w.injector, q, a)
          [] a.cause = "connection"   -> MayBreakConnection(c)
          [] a.cause = "behavior"     ->
                BehaviorOf(c, q) = "token_expired_error"
          [] a.cause = "tokenExpired" -> MayInject(c, c.tokenExpiredErrorRate)
          [] a.cause = "store"        -> a.code = 200 => Found(w.shoots, q)
          [] a.cause = "invalid"      -> MayBeInvalid(c, q)
          [] a.cause = "expired"      -> MayBeExpired(c, q)
          [] OTHER                    -> TRUE

AnswerExplained(ws, q, a) ==
    /\ \E w \in ws : WorldExplains(w, q, a)
    /\ a.credential # "none" => ExpiryExplained(ws, q, a.expiry)
    /\ a.credential = "invalid" =>
          \E w \in ws : MayBeInvalid(w.injector.config, q)

\* Every refusal, every code and every damaged or shortened credential is
\* owed to a configuration that was current at some moment of the request,
\* although nothing keeps the configuration still between two questions and
\* an answer may be put together from several configurations.
ReplyExplained ==
    \A r \in Requests :
        Done(r) => AnswerExplained(seen[r], req[r], reply[r])

\* The handlers that look at the restriction.
Reads(q) == q.kind \in {"list", "get", "projects", "project"}

Refused(ws, q, a) ==
    Reads(q) /\ q.bearer # NoSA
    /\ (\A w \in ws : Restricts(w.injector.config, q.bearer))
        => a.cause = "restricted"

\* A service account that stays restricted for the whole of its request reads
\* neither shoots nor projects.
RestrictedNeverReads ==
    \A r \in Requests : Done(r) => Refused(seen[r], req[r], reply[r])

\* What may come before the mark of an object is looked at.
MarkedAnswers == {"failing", "restricted", "connection", "behavior"}

Withheld(ws, q, a) ==
    q.kind \in {"get", "adminkubeconfig", "token"}
    /\ (\A w \in ws : IsMarked(w.injector.config, q))
        => a.cause \in MarkedAnswers

\* A shoot or service account that stays marked as failing for the whole of
\* a request is neither shown nor given a credential.
MarkedNeverServed ==
    \A r \in Requests : Done(r) => Withheld(seen[r], req[r], reply[r])

Throughout(ws, q, damage) ==
    \A w \in ws : BehaviorOf(w.injector.config, q) = damage

Damaged(ws, q, a) ==
    q.kind \in {"adminkubeconfig", "token"} =>
        /\ Throughout(ws, q, "invalid") => a.credential # "valid"
        /\ Throughout(ws, q, "expired") /\ a.credential = "valid" =>
              a.expiry = HourAgo

\* A credential shows the damage that stays configured for its object from
\* the request's arrival to its answer, although the word is captured half
\* way and used several questions later.
BehaviorHonoured ==
    \A r \in Requests : Done(r) => Damaged(seen[r], req[r], reply[r])

GhostFree(ws, q, a) ==
    q.kind = "adminkubeconfig" /\ a.credential # "none" =>
        \E w \in ws : q.shoot \in w.shoots

\* An admin kubeconfig, whole or damaged, is issued only for a shoot that
\* existed at some moment of the request.
NoKubeconfigForGhost ==
    \A r \in Requests : Done(r) => GhostFree(seen[r], req[r], reply[r])

Quiet(ws, a) ==
    (\A w \in ws : ~ w.injector.config.enabled) =>
        /\ a.cause \in {"store", "body", "issue"}
        /\ a.credential # "invalid"
        /\ a.credential = "valid" => a.expiry # HourAgo

\* While injection stays disabled nothing is refused, broken or damaged.
\* (Only the short lifetime still applies.)
DisabledInjectsNothing ==
    \A r \in Requests : Done(r) => Quiet(seen[r], reply[r])

\* Settings under which no draw spares a request this question.
CertainlyStops(s, q, check) ==
    LET c == s.config
    IN  /\ c.enabled
        /\ CASE check = "operation" ->
                   Always(EffectiveRate(s, Operation[q.kind]))
             [] check = "connection" ->
                   \E i \in DOMAIN ConnOrder :
                      Always(ConnectionSums(c.connectionRate)[i])
             [] check = "tokenExpired" -> Always(c.tokenExpiredErrorRate)
             [] check = "invalid"      -> Always(c.invalidKubeconfigRate)
             [] check = "expired"      -> Always(c.expiredKubeconfigRate)
             [] OTHER                  -> FALSE

AlwaysStops(ws, q, check) ==
    \A w \in ws : CertainlyStops(w.injector, q, check)

\* A handler of this kind asks a no later than b.
NoLater(kind, a, b) ==
    \E i, j \in DOMAIN Checks[kind] :
        i <= j /\ Checks[kind][i] = a /\ Checks[kind][j] = b

Questioned(kind, check) == \E i \in DOMAIN Checks[kind] : Checks[kind][i] = check

Stopped(ws, q, a) ==
    \A check \in {"operation", "connection", "tokenExpired"} :
        Questioned(q.kind, check) /\ AlwaysStops(ws, q, check) =>
            NoLater(q.kind, a.cause, check)

Spoiled(ws, q, a) ==
    a.credential = "valid" =>
        /\ q.kind = "adminkubeconfig" => ~ AlwaysStops(ws, q, "invalid")
        /\ q.kind \in {"adminkubeconfig", "token"}
              /\ AlwaysStops(ws, q, "expired") => a.expiry = HourAgo

\* An error whose effective rate is at least 1 in every configuration of the
\* request's time is not escaped: a request it is to refuse is refused there
\* or before, an admin kubeconfig comes out invalid, and a credential that is
\* whole comes out expired, whichever of the spellings, simple rates and
\* legacy rates makes it certain and although each of these may change
\* between two questions.
CertainErrorsStrike ==
    \A r \in Requests : Done(r) => /\ Stopped(seen[r], req[r], reply[r])
                                  /\ Spoiled(seen[r], req[r], reply[r])

----------------------------------------------------------------------------
(* The inductive invariant behind these properties: some world of the        *)
(* request has let it past each question it has got past.                    *)

LetsPast(ws, q, w, check) ==
    CASE check = "restricted" ->
            q.bearer # NoSA =>
                \E v \in ws : ~ Restricts(v.injector.config, q.bearer)
      [] check = "failing"  -> \E v \in ws : ~ IsMarked(v.injector.config, q)
      [] check = "store"    -> \E v \in ws : Found(v.shoots, q)
      [] check = "behavior" ->
            \E v \in ws : BehaviorOf(v.injector.config, q) = w
      [] check = "invalid"  ->
            w # "invalid" /\ ~ AlwaysStops(ws, q, "invalid")
      [] check \in {"operation", "connection", "tokenExpired"} ->
            ~ AlwaysStops(ws, q, check)
      [] OTHER              -> TRUE

\* A token that is to be expired goes on with the expiry it will carry.
PastExpired(ws, q, w, expiry) ==
    \/ q.kind = "token" /\ expiry = HourAgo
    \/ w # "expired" /\ ~ AlwaysStops(ws, q, "expired")

UnderWay(r) ==
    /\ World \in seen[r]
    /\ \A check \in Causes :
          Past(r, check) => LetsPast(seen[r], req[r], word[r], check)
    /\ Past(r, "expired") =>
          PastExpired(seen[r], req[r], word[r], lifetime[r])
    /\ ExpiryExplained(seen[r], req[r], lifetime[r])

AnswerFits(ws, q, a) ==
    /\ AnswerExplained(ws, q, a)
    /\ Refused(ws, q, a)
    /\ Withheld(ws, q, a)
    /\ Damaged(ws, q, a)
    /\ GhostFree(ws, q, a)
    /\ Stopped(ws, q, a)
    /\ Spoiled(ws, q, a)

Phase ==
    [r \in Requests |-> IF at[r] = 0 THEN "idle"
                        ELSE IF Done(r) THEN "answered" ELSE "asked"]

Contract == INSTANCE ErrorSimulator WITH
    world <- World, asked <- req, phase <- Phase, lived <- seen,
    given <- reply, Allowed <- AnswerFits

\* The handlers keep the simulator's promise: question by question, with
\* management calls in between, a request is answered once, its answer is
\* never taken back, and the worlds of its time allow it.
KeepsContract == Contract!Spec

RequestInv(r) ==
    /\ at[r] = 0 => ~ Done(r)
    /\ InFlight(r) => UnderWay(r)
    /\ Done(r) => AnswerFits(seen[r], req[r], reply[r])

IInv == TypeOK /\ StatusInv /\ \A r \in Requests : RequestInv(r)
=============================================================================
