------------------------ MODULE StandaloneApiProofs ------------------------
(***************************************************************************)
(* The stand-alone API keeps its promises for every number of requests,     *)
(* managers, shoots and accounts, every rate and every sequence of          *)
(* management calls.  The argument: a world of the request has let it past  *)
(* each question it has got past, and a step only adds worlds.              *)
(***************************************************************************)
EXTENDS StandaloneApi, ManagementApiProofs, DrawsProofs

----------------------------------------------------------------------------
(* The order of the questions.                                              *)

\* A handler that reads asks about the restriction before anything else.
LEMMA RestrictionFirst ==
    ASSUME NEW k \in {"list", "get", "projects", "project"},
           NEW i \in DOMAIN Checks[k], Checks[k][i] # "restricted"
    PROVE  \E j \in DOMAIN Checks[k] : j < i /\ Checks[k][j] = "restricted"
<1>1. CASE k = "list"
  BY <1>1 DEF Checks
<1>2. CASE k = "get"
  BY <1>2 DEF Checks
<1>3. CASE k = "projects"
  BY <1>3 DEF Checks
<1>4. CASE k = "project"
  BY <1>4 DEF Checks
<1>5. QED BY <1>1, <1>2, <1>3, <1>4

\* A handler of a marked object asks about the mark early.
LEMMA MarkFirst ==
    ASSUME NEW k \in {"get", "adminkubeconfig", "token"},
           NEW i \in DOMAIN Checks[k], Checks[k][i] \notin MarkedAnswers
    PROVE  \E j \in DOMAIN Checks[k] : j < i /\ Checks[k][j] = "failing"
<1>1. CASE k = "get"
  BY <1>1 DEF Checks, MarkedAnswers
<1>2. CASE k = "adminkubeconfig"
  BY <1>2 DEF Checks, MarkedAnswers
<1>3. CASE k = "token"
  BY <1>3 DEF Checks, MarkedAnswers
<1>4. QED BY <1>1, <1>2, <1>3

\* Where the questions about a credential stand.
LEMMA CredentialOrder ==
    ASSUME NEW k \in Kinds, NEW i \in DOMAIN Checks[k],
           Checks[k][i] \in {"invalid", "expired", "ttl", "issue"},
           k # "sakubeconfig"
    PROVE  /\ k \in {"adminkubeconfig", "token"}
           /\ \E j \in DOMAIN Checks[k] : j < i /\ Checks[k][j] = "behavior"
           /\ k = "adminkubeconfig" =>
                 \E j \in DOMAIN Checks[k] : j < i /\ Checks[k][j] = "store"
           /\ Checks[k][i] = "issue" =>
                 \E j \in DOMAIN Checks[k] : j < i /\ Checks[k][j] = "expired"
           /\ k = "adminkubeconfig" /\ Checks[k][i] # "invalid" =>
                 \E j \in DOMAIN Checks[k] : j < i /\ Checks[k][j] = "invalid"
           /\ k = "token" /\ Checks[k][i] = "ttl" =>
                 \A j \in DOMAIN Checks[k] : j < i => Checks[k][j] # "expired"
           /\ k = "token" => Checks[k][i] # "invalid"
<1>1. CASE k = "adminkubeconfig"
  BY <1>1 DEF Checks
<1>2. CASE k = "token"
  BY <1>2 DEF Checks
<1>3. CASE k \in {"list", "get", "projects", "project", "namespaces"}
  BY <1>3 DEF Checks
<1>4. QED BY <1>1, <1>2, <1>3 DEF Kinds

\* The behaviour is captured before it is used, and used once per question.
LEMMA BehaviorOrder ==
    ASSUME NEW k \in Kinds, NEW i \in DOMAIN Checks[k],
           Checks[k][i] = "behavior"
    PROVE  \A j \in DOMAIN Checks[k] :
              j < i => Checks[k][j] \notin {"behavior", "invalid", "expired"}
<1>1. CASE k = "adminkubeconfig"
  BY <1>1 DEF Checks
<1>2. CASE k = "token"
  BY <1>2 DEF Checks
<1>3. CASE k \notin {"adminkubeconfig", "token"}
  BY <1>3 DEF Checks, Kinds
<1>4. QED BY <1>1, <1>2, <1>3

\* Only these questions come last.
LEMMA LastQuestion ==
    ASSUME NEW k \in Kinds, NEW i \in DOMAIN Checks[k],
           \/ Checks[k][i] \notin {"store", "issue"}
           \/ Checks[k][i] = "store" /\ k = "adminkubeconfig"
    PROVE  i < Len(Checks[k])
<1>1. CASE k = "adminkubeconfig"
  BY <1>1 DEF Checks
<1>2. CASE k = "token"
  BY <1>2 DEF Checks
<1>3. CASE k = "list"
  BY <1>3 DEF Checks
<1>4. CASE k = "get"
  BY <1>4 DEF Checks
<1>5. CASE k = "projects"
  BY <1>5 DEF Checks
<1>6. CASE k = "project"
  BY <1>6 DEF Checks
<1>7. CASE k \in {"namespaces", "sakubeconfig"}
  BY <1>7 DEF Checks
<1>8. QED BY <1>1, <1>2, <1>3, <1>4, <1>5, <1>6, <1>7 DEF Kinds

\* Which handlers ask a question, and that it is one of the causes.
LEMMA AskedBy ==
    ASSUME NEW k \in Kinds, NEW i \in DOMAIN Checks[k]
    PROVE  /\ Checks[k][i] \in (Causes \cup {"ttl"}) \ {"none"}
           /\ Checks[k][i] = "restricted" =>
                 k \in {"list", "get", "projects", "project"}
           /\ Checks[k][i] = "failing" =>
                 k \in {"get", "adminkubeconfig", "token"}
           /\ Checks[k][i] = "operation" =>
                 k \in {"list", "get", "adminkubeconfig", "token"}
           /\ Checks[k][i] = "invalid" => k = "adminkubeconfig"
           /\ Checks[k][i] \in {"expired", "ttl"} =>
                 k \in {"adminkubeconfig", "token"}
           /\ Checks[k][i] \in {"tokenExpired", "connection", "body"} =>
                 k = "token"
<1>1. CASE k = "adminkubeconfig"
  BY <1>1 DEF Checks, Causes
<1>2. CASE k = "token"
  BY <1>2 DEF Checks, Causes
<1>3. CASE k \in {"list", "get"}
  BY <1>3 DEF Checks, Causes
<1>4. CASE k \in {"projects", "project", "namespaces", "sakubeconfig"}
  BY <1>4 DEF Checks, Causes
<1>5. QED BY <1>1, <1>2, <1>3, <1>4 DEF Kinds

\* Every kind has questions.
LEMMA ChecksTyping ==
    ASSUME NEW k \in Kinds
    PROVE  /\ Len(Checks[k]) \in Nat
           /\ DOMAIN Checks[k] = 1 .. Len(Checks[k])
<1>1. CASE k = "list"
  BY <1>1 DEF Checks
<1>2. CASE k = "get"
  BY <1>2 DEF Checks
<1>3. CASE k = "projects"
  BY <1>3 DEF Checks
<1>4. CASE k = "project"
  BY <1>4 DEF Checks
<1>5. CASE k = "namespaces"
  BY <1>5 DEF Checks
<1>6. CASE k = "adminkubeconfig"
  BY <1>6 DEF Checks
<1>7. CASE k = "token"
  BY <1>7 DEF Checks
<1>8. CASE k = "sakubeconfig"
  BY <1>8 DEF Checks
<1>9. QED BY <1>1, <1>2, <1>3, <1>4, <1>5, <1>6, <1>7, <1>8 DEF Kinds

\* The request's next question.
LEMMA Position ==
    ASSUME TypeOK, NEW r \in Requests, NEW check, Asks(r, check)
    PROVE  /\ req[r] \in Request /\ req[r].kind \in Kinds
           /\ Questions(r) = Checks[req[r].kind]
           /\ at[r] \in DOMAIN Questions(r)
           /\ at[r] \in 1 .. Len(Questions(r))
           /\ check = Questions(r)[at[r]]
<1>1. req[r] \in Request /\ req[r].kind \in Kinds
  BY ApiAssumption DEF TypeOK, Request
<1>2. at[r] \in 1 .. Len(Questions(r))
  BY DEF TypeOK, Asks, InFlight
<1>3. DOMAIN Questions(r) = 1 .. Len(Questions(r))
  BY <1>1, ChecksTyping DEF Questions
<1>4. QED BY <1>1, <1>2, <1>3 DEF Asks, Questions

----------------------------------------------------------------------------
(* Types.                                                                   *)

\* What a request can see is a world.
LEMMA WorldTyping == ManagementTypeOK => World \in Worlds
  BY DEF ManagementTypeOK, World, Worlds

\* The initial state is well typed.
LEMMA ApiInitTyping == Init => TypeOK
<1> SUFFICES ASSUME Init PROVE TypeOK
  OBVIOUS
<1>1. \A r \in Requests : at[r] <= Len(Questions(r))
  <2>1. req \in [Requests -> Arrivals] /\ at = [r \in Requests |-> 0]
    BY DEF Init
  <2>2. ASSUME NEW r \in Requests PROVE 0 <= Len(Questions(r))
    <3>1. req[r].kind \in Kinds
      BY <2>1, ApiAssumption DEF Request
    <3>2. QED BY <3>1, ChecksTyping DEF Questions
  <2>3. QED BY <2>1, <2>2
<1>2. NoReply \in Reply
  BY DEF NoReply, Answer, Reply, Causes, Closed
<1>3. QED BY <1>1, <1>2, InitTyping, InjectorAssumption DEF Init, TypeOK

\* An answer without a credential is a reply.
LEMMA AnswerTyping ==
    ASSUME NEW cause \in Causes, NEW code \in Int
    PROVE  Answer(cause, code) \in Reply
  BY DEF Answer, Reply

\* An answer with a credential is a reply.
LEMMA CredentialTyping ==
    ASSUME NEW cause \in Causes, NEW credential \in {"valid", "invalid"},
           NEW expiry \in Int
    PROVE  Credential(cause, credential, expiry) \in Reply
  BY DEF Credential, Reply

\* What net/http makes of a code is a code.
LEMMA WriteHeaderTyping == \A code \in Int : WriteHeader(code) \in Int
  BY DEF WriteHeader, Closed

\* The lifetime asked for is a number.
LEMMA AskedTyping ==
    ASSUME NEW q \in Request PROVE Asked(q) \in Int /\ Asked(q) > 0
  BY ApiAssumption DEF Asked, Request

\* The behaviour of an object is one of the words.
LEMMA BehaviorTyping ==
    ASSUME NEW c \in ErrorInjectionConfig, NEW q \in Request
    PROVE  BehaviorOf(c, q) \in Behaviors
  BY InjectorAssumption
     DEF BehaviorOf, ServiceAccountBehavior, ShootBehavior,
         ErrorInjectionConfig, Request

\* The mark of a marked object is a code.
LEMMA MarkTyping ==
    ASSUME NEW c \in ErrorInjectionConfig, NEW q \in Request, IsMarked(c, q)
    PROVE  Mark(c, q) \in Int
  BY InjectorAssumption
     DEF IsMarked, Mark, FailsServiceAccount, FailsShoot,
         ErrorInjectionConfig, Request, Marks

\* A step of a request that answers or goes on to the next question.
LEMMA StepTyping ==
    ASSUME TypeOK, NEW r \in Requests, Local,
           word' \in [Requests -> Behaviors], lifetime' \in [Requests -> Int],
           \/ \E a \in Reply : Respond(r, a)
           \/ Continue(r) /\ at[r] < Len(Questions(r))
    PROVE  TypeOK'
<1>1. ManagementTypeOK'
  BY DEF TypeOK, Local, managementVars, toldVars, statusVars, ManagementTypeOK
<1>2. req' = req /\ seen' = seen
  BY DEF Local
<1>3. \A q \in Requests : Questions(q)' = Questions(q)
  BY <1>2 DEF Questions
<1>4. reply' \in [Requests -> Reply]
  BY DEF TypeOK, Respond, Continue
<1>5. /\ at' \in [Requests -> Nat]
      /\ \A q \in Requests : at'[q] <= Len(Questions(q))
  <2>1. CASE at' = at
    BY <2>1 DEF TypeOK
  <2>2. CASE Continue(r) /\ at[r] < Len(Questions(r))
    <3>1. at \in [Requests -> Nat] /\ at' = [at EXCEPT ![r] = @ + 1]
      BY <2>2 DEF TypeOK, Continue
    <3>2. req[r].kind \in Kinds
      BY ApiAssumption DEF TypeOK, Request
    <3>3. Len(Questions(r)) \in Nat
      BY <3>2, ChecksTyping DEF Questions
    <3>4. QED BY <2>2, <3>1, <3>3 DEF TypeOK
  <2>3. QED BY <2>1, <2>2 DEF Respond
<1>6. QED BY <1>1, <1>2, <1>3, <1>4, <1>5 DEF TypeOK

----------------------------------------------------------------------------
(* The inductive invariant.                                                 *)

\* A request keeps its part of the invariant when nothing of it changes.
LEMMA Undisturbed ==
    ASSUME NEW q \in Requests, RequestInv(q),
           at'[q] = at[q], word'[q] = word[q], lifetime'[q] = lifetime[q],
           reply'[q] = reply[q], req' = req, seen' = seen, World' = World
    PROVE  RequestInv(q)'
<1>1. /\ Done(q)' <=> Done(q)
      /\ InFlight(q)' <=> InFlight(q)
      /\ \A check : Past(q, check)' <=> Past(q, check)
  BY DEF Done, InFlight, Past, Questions
<1>2. InFlight(q) => UnderWay(q)'
  BY <1>1 DEF RequestInv, UnderWay
<1>3. QED BY <1>1, <1>2 DEF RequestInv

\* More worlds explain no less.
LEMMA MoreWorlds ==
    ASSUME NEW ws, NEW more, ws \subseteq more, NEW q
    PROVE  /\ \A w, check : LetsPast(ws, q, w, check) =>
                               LetsPast(more, q, w, check)
           /\ \A expiry : ExpiryExplained(ws, q, expiry) =>
                             ExpiryExplained(more, q, expiry)
           /\ \A w, expiry : PastExpired(ws, q, w, expiry) =>
                                PastExpired(more, q, w, expiry)
<1>0. \A check : AlwaysStops(more, q, check) => AlwaysStops(ws, q, check)
  BY DEF AlwaysStops
<1>1. ASSUME NEW w, NEW check, LetsPast(ws, q, w, check)
      PROVE  LetsPast(more, q, w, check)
  BY <1>0, <1>1 DEF LetsPast
<1>2. ASSUME NEW expiry, ExpiryExplained(ws, q, expiry)
      PROVE  ExpiryExplained(more, q, expiry)
  BY <1>2 DEF ExpiryExplained
<1>3. \A w, expiry : PastExpired(ws, q, w, expiry) =>
                        PastExpired(more, q, w, expiry)
  BY <1>0 DEF PastExpired
<1>4. QED BY <1>1, <1>2, <1>3

\* A step of a request leaves the management side alone.
LEMMA LocalFrame ==
    ASSUME Local
    PROVE  /\ req' = req /\ seen' = seen /\ World' = World
           /\ StatusInv => StatusInv'
  BY DEF Local, managementVars, toldVars, statusVars, World, StatusInv,
         StatusTellsTruth, Shown, AloneInv, AllIdle, Posting

\* Answering needs an answer that fits.
LEMMA RespondInv ==
    ASSUME IInv, NEW r \in Requests, NEW check, Asks(r, check),
           NEW a \in Reply, Respond(r, a), Local,
           word' \in [Requests -> Behaviors], lifetime' \in [Requests -> Int],
           \A q \in Requests \ {r} :
              word'[q] = word[q] /\ lifetime'[q] = lifetime[q],
           a.cause # "none", AnswerFits(seen[r], req[r], a)
    PROVE  IInv'
<1>1. TypeOK'
  BY StepTyping DEF IInv
<1>2. /\ reply' = [reply EXCEPT ![r] = a] /\ at' = at
      /\ reply \in [Requests -> Reply]
  BY DEF Respond, IInv, TypeOK
<1>3. RequestInv(r)'
  <2>1. reply'[r] = a /\ at[r] # 0
    BY <1>2 DEF Asks, InFlight, IInv, TypeOK
  <2>2. Done(r)' /\ ~ InFlight(r)'
    BY <2>1 DEF Done, InFlight
  <2>3. AnswerFits(seen[r], req[r], reply[r])'
    BY <2>1, LocalFrame
  <2>4. QED BY <1>2, <2>1, <2>2, <2>3 DEF RequestInv
<1>4. ASSUME NEW q \in Requests \ {r} PROVE RequestInv(q)'
  BY <1>2, LocalFrame, Undisturbed DEF IInv
<1>5. QED BY <1>1, <1>3, <1>4, LocalFrame DEF IInv

\* Going on to the next question needs a world that lets the request past
\* this one.
LEMMA ContinueInv ==
    ASSUME IInv, NEW r \in Requests, NEW check, Asks(r, check), Continue(r),
           at[r] < Len(Questions(r)), Local,
           word' \in [Requests -> Behaviors], lifetime' \in [Requests -> Int],
           \A q \in Requests \ {r} :
              word'[q] = word[q] /\ lifetime'[q] = lifetime[q],
           LetsPast(seen[r], req[r], word'[r], check),
           word'[r] = word[r] \/ check = "behavior",
           ExpiryExplained(seen[r], req[r], lifetime'[r]),
           check = "expired" \/ Past(r, "expired") =>
              PastExpired(seen[r], req[r], word'[r], lifetime'[r])
    PROVE  IInv'
<1>1. TypeOK'
  BY StepTyping DEF IInv
<1>2. /\ at' = [at EXCEPT ![r] = @ + 1] /\ reply' = reply
      /\ at \in [Requests -> Nat]
  BY DEF Continue, IInv, TypeOK
<1>3. at'[r] = at[r] + 1 /\ at[r] \in Nat
  BY <1>2
<1>4. TypeOK
  BY DEF IInv
<1>5. \A c : Past(r, c)' <=> Past(r, c) \/ c = check
  <2>1. Questions(r)' = Questions(r)
    BY LocalFrame DEF Questions
  <2>2. /\ DOMAIN Questions(r) = 1 .. Len(Questions(r))
        /\ at[r] \in 1 .. Len(Questions(r))
        /\ Questions(r)[at[r]] = check
        /\ Len(Questions(r)) \in Nat
    BY <1>4, Position, ChecksTyping DEF Asks
  <2>3. QED BY <1>3, <2>1, <2>2 DEF Past
<1>6. InFlight(r) /\ UnderWay(r)
  BY DEF Asks, IInv, RequestInv
<1>7. RequestInv(r)'
  <2>1. (World \in seen[r])'
    BY <1>6, LocalFrame DEF UnderWay
  <2>2. ASSUME NEW c \in Causes, Past(r, c)'
        PROVE  LetsPast(seen[r], req[r], word[r], c)'
    <3>1. CASE c = check
      BY <3>1, LocalFrame
    <3>2. CASE Past(r, c) /\ c # check
      <4>1. LetsPast(seen[r], req[r], word[r], c)
        BY <1>6, <3>2 DEF UnderWay
      <4>2. CASE word'[r] = word[r]
        BY <4>1, <4>2, LocalFrame
      <4>3. CASE check = "behavior"
        <5>1. c \notin {"behavior", "invalid", "expired"}
          <6>1. PICK i \in DOMAIN Questions(r) :
                   i < at[r] /\ Questions(r)[i] = c
            BY <3>2 DEF Past
          <6>2. QED BY <1>4, <4>3, <6>1, Position, BehaviorOrder
        <5>2. LetsPast(seen[r], req[r], word'[r], c)
          BY <4>1, <5>1 DEF LetsPast
        <5>3. QED BY <5>2, LocalFrame
      <4>4. QED BY <4>2, <4>3
    <3>3. QED BY <1>5, <2>2, <3>1, <3>2
  <2>3. (Past(r, "expired") =>
            PastExpired(seen[r], req[r], word[r], lifetime[r]))'
    BY <1>5, LocalFrame
  <2>4. ExpiryExplained(seen[r], req[r], lifetime[r])'
    BY LocalFrame
  <2>5. UnderWay(r)'
    BY <2>1, <2>2, <2>3, <2>4 DEF UnderWay
  <2>6. ~ Done(r)' /\ at'[r] # 0
    BY <1>2, <1>3, <1>6 DEF Done, InFlight
  <2>7. QED BY <2>5, <2>6 DEF RequestInv
<1>8. ASSUME NEW q \in Requests \ {r} PROVE RequestInv(q)'
  BY <1>2, LocalFrame, Undisturbed DEF IInv
<1>9. QED BY <1>1, <1>7, <1>8, LocalFrame DEF IInv

----------------------------------------------------------------------------
(* Answers that fit.                                                        *)

\* What a request that asks a question has been let past.
LEMMA LetPast ==
    ASSUME IInv, NEW r \in Requests, NEW check, Asks(r, check)
    PROVE  /\ Reads(req[r]) /\ check # "restricted" =>
                 LetsPast(seen[r], req[r], word[r], "restricted")
           /\ /\ req[r].kind \in {"get", "adminkubeconfig", "token"}
              /\ check \notin MarkedAnswers
              => LetsPast(seen[r], req[r], word[r], "failing")
           /\ /\ check \in {"invalid", "expired", "ttl", "issue"}
              /\ req[r].kind # "sakubeconfig"
              => /\ req[r].kind \in {"adminkubeconfig", "token"}
                 /\ LetsPast(seen[r], req[r], word[r], "behavior")
                 /\ req[r].kind = "adminkubeconfig" =>
                       LetsPast(seen[r], req[r], word[r], "store")
                 /\ check = "issue" => Past(r, "expired")
                 /\ req[r].kind = "adminkubeconfig" /\ check # "invalid" =>
                       LetsPast(seen[r], req[r], word[r], "invalid")
                 /\ req[r].kind = "token" /\ check = "ttl" =>
                       ~ Past(r, "expired")
                 /\ req[r].kind = "token" => check # "invalid"
<1> DEFINE k == req[r].kind
<1>1. /\ k \in Kinds /\ Questions(r) = Checks[k] /\ at[r] \in DOMAIN Checks[k]
      /\ check = Checks[k][at[r]]
  BY Position DEF IInv
<1>2. \A c \in Causes : Past(r, c) => LetsPast(seen[r], req[r], word[r], c)
  BY DEF Asks, IInv, RequestInv, UnderWay
<1>3. \A c : (\E j \in DOMAIN Checks[k] : j < at[r] /\ Checks[k][j] = c)
               <=> Past(r, c)
  BY <1>1 DEF Past
<1>4. {"restricted", "failing", "behavior", "store", "invalid"} \subseteq Causes
  BY DEF Causes
<1>5. Reads(req[r]) /\ check # "restricted" => Past(r, "restricted")
  BY <1>1, <1>3, RestrictionFirst DEF Reads
<1>6. k \in {"get", "adminkubeconfig", "token"} /\ check \notin MarkedAnswers
         => Past(r, "failing")
  BY <1>1, <1>3, MarkFirst
<1>7. check \in {"invalid", "expired", "ttl", "issue"} /\ k # "sakubeconfig"
         => /\ k \in {"adminkubeconfig", "token"}
            /\ Past(r, "behavior")
            /\ k = "adminkubeconfig" => Past(r, "store")
            /\ check = "issue" => Past(r, "expired")
            /\ k = "adminkubeconfig" /\ check # "invalid" => Past(r, "invalid")
            /\ k = "token" /\ check = "ttl" => ~ Past(r, "expired")
            /\ k = "token" => check # "invalid"
  BY <1>1, <1>3, CredentialOrder
<1>8. QED BY <1>2, <1>4, <1>5, <1>6, <1>7

\* The parts of the invariant about requests that asked before.
LEMMA PastFits ==
    ASSUME IInv, NEW r \in Requests, NEW check, Asks(r, check),
           NEW a, a.cause = check
    PROVE  /\ Refused(seen[r], req[r], a)
           /\ Withheld(seen[r], req[r], a)
           /\ Stopped(seen[r], req[r], a)
<1>1. Refused(seen[r], req[r], a)
  BY LetPast DEF Refused, LetsPast
<1>2. Withheld(seen[r], req[r], a)
  BY LetPast DEF Withheld, LetsPast
<1>3. Stopped(seen[r], req[r], a)
  <2> DEFINE k == req[r].kind
  <2> SUFFICES ASSUME NEW c \in {"operation", "connection", "tokenExpired"},
                      Questioned(k, c), AlwaysStops(seen[r], req[r], c)
               PROVE  NoLater(k, a.cause, c)
    BY DEF Stopped
  <2>1. /\ Questions(r) = Checks[k] /\ at[r] \in DOMAIN Checks[k]
        /\ DOMAIN Checks[k] = 1 .. Len(Checks[k]) /\ Len(Checks[k]) \in Nat
        /\ Checks[k][at[r]] = a.cause
    BY Position, ChecksTyping DEF IInv
  <2>2. PICK j \in DOMAIN Checks[k] : Checks[k][j] = c
    BY DEF Questioned
  <2>3. CASE at[r] <= j
    BY <2>1, <2>2, <2>3 DEF NoLater
  <2>4. CASE j < at[r]
    <3>1. Past(r, c)
      BY <2>1, <2>2, <2>4 DEF Past
    <3>2. LetsPast(seen[r], req[r], word[r], c)
      BY <3>1 DEF Asks, IInv, RequestInv, UnderWay, Causes
    <3>3. QED BY <3>2 DEF LetsPast
  <2>5. QED BY <2>1, <2>3, <2>4
<1>4. QED BY <1>1, <1>2, <1>3

\* An answer without a credential fits if a world of the request explains it.
LEMMA PlainFits ==
    ASSUME IInv, NEW r \in Requests, NEW check, Asks(r, check),
           NEW a, a.cause = check, a.credential = "none",
           \E w \in seen[r] : WorldExplains(w, req[r], a)
    PROVE  AnswerFits(seen[r], req[r], a)
<1>1. AnswerExplained(seen[r], req[r], a)
  BY DEF AnswerExplained
<1>2. /\ Damaged(seen[r], req[r], a)
      /\ GhostFree(seen[r], req[r], a)
      /\ Spoiled(seen[r], req[r], a)
  BY DEF Damaged, GhostFree, Spoiled
<1>3. QED BY <1>1, <1>2, PastFits DEF AnswerFits

\* An answer with a credential fits if it comes late enough.
LEMMA CredentialFits ==
    ASSUME IInv, NEW r \in Requests,
           NEW check \in {"invalid", "expired", "issue"}, Asks(r, check),
           NEW a, a.cause = check,
           \E w \in seen[r] : WorldExplains(w, req[r], a),
           ExpiryExplained(seen[r], req[r], a.expiry),
           a.credential = "invalid" =>
              \E w \in seen[r] : MayBeInvalid(w.injector.config, req[r]),
           Damaged(seen[r], req[r], a), Spoiled(seen[r], req[r], a)
    PROVE  AnswerFits(seen[r], req[r], a)
<1>1. AnswerExplained(seen[r], req[r], a)
  BY DEF AnswerExplained
<1>2. GhostFree(seen[r], req[r], a)
  BY LetPast DEF GhostFree, LetsPast, Found
<1>3. QED BY <1>1, <1>2, PastFits DEF AnswerFits

----------------------------------------------------------------------------
(* One lemma per question.                                                  *)

\* What the invariant says of the configuration in force.
LEMMA Present ==
    ASSUME IInv, NEW r \in Requests
    PROVE  /\ World.injector = injector /\ World.shoots = shoots
           /\ injector \in Settings
           /\ injector.config \in ErrorInjectionConfig
           /\ req[r] \in Request
           /\ word \in [Requests -> Behaviors] /\ word[r] \in Behaviors
           /\ lifetime \in [Requests -> Int] /\ lifetime[r] \in Int
<1>1. TypeOK
  BY DEF IInv
<1>2. req[r] \in Request
  BY <1>1, ApiAssumption DEF TypeOK
<1>3. QED
  BY <1>1, <1>2 DEF TypeOK, ManagementTypeOK, Settings, World

\* A request that answers without a credential, or goes on unchanged.
LEMMA PlainStep ==
    ASSUME IInv, NEW r \in Requests, NEW check, Asks(r, check),
           check \notin {"issue", "ttl", "expired"}, Local,
           UNCHANGED <<word, lifetime>>,
           \/ \E code \in Int :
                 /\ Respond(r, Answer(check, code))
                 /\ WorldExplains(World, req[r], Answer(check, code))
           \/ /\ Continue(r)
              /\ check = "store" => req[r].kind = "adminkubeconfig"
              /\ LetsPast(seen[r], req[r], word[r], check)
    PROVE  IInv'
<1>1. /\ word' \in [Requests -> Behaviors] /\ lifetime' \in [Requests -> Int]
      /\ word' = word /\ lifetime' = lifetime
  BY Present
<1>2. check \in Causes \ {"none"}
  BY Position, AskedBy DEF IInv
<1>3. ASSUME NEW code \in Int, Respond(r, Answer(check, code)),
             WorldExplains(World, req[r], Answer(check, code))
      PROVE  IInv'
  <2>1. /\ Answer(check, code) \in Reply
        /\ Answer(check, code).cause = check
        /\ Answer(check, code).credential = "none"
    BY <1>2, AnswerTyping DEF Answer
  <2>2. AnswerFits(seen[r], req[r], Answer(check, code))
    BY <1>3, <2>1, PlainFits DEF Asks, IInv, RequestInv, UnderWay
  <2>3. QED BY <1>1, <1>2, <1>3, <2>1, <2>2, RespondInv
<1>4. ASSUME Continue(r), check = "store" => req[r].kind = "adminkubeconfig",
             LetsPast(seen[r], req[r], word[r], check)
      PROVE  IInv'
  <2>1. at[r] < Len(Questions(r))
    BY <1>4, Position, LastQuestion DEF IInv
  <2>2. UnderWay(r)
    BY DEF Asks, IInv, RequestInv
  <2>3. Past(r, "expired") =>
           PastExpired(seen[r], req[r], word'[r], lifetime'[r])
    BY <1>1, <2>2 DEF UnderWay
  <2>4. QED BY <1>1, <1>4, <2>1, <2>2, <2>3, ContinueInv DEF UnderWay
<1>5. QED BY <1>3, <1>4

\* The restriction is asked about.
LEMMA RestrictedInv ==
    ASSUME IInv, NEW r \in Requests, CheckRestricted(r) PROVE IInv'
<1>1. /\ Asks(r, "restricted") /\ Local /\ UNCHANGED <<word, lifetime>>
      /\ World \in seen[r]
  BY DEF CheckRestricted, Asks, IInv, RequestInv, UnderWay
<1>2. CASE IsRefused(injector.config, req[r])
  <2>1. Respond(r, Answer("restricted", 403))
    BY <1>2 DEF CheckRestricted
  <2>2. WorldExplains(World, req[r], Answer("restricted", 403))
    BY <1>2 DEF WorldExplains, Answer, IsRefused, World
  <2>3. QED BY <1>1, <2>1, <2>2, PlainStep
<1>3. CASE ~ IsRefused(injector.config, req[r])
  <2>1. Continue(r)
    BY <1>3 DEF CheckRestricted
  <2>2. req[r].bearer # NoSA =>
           ~ Restricts(World.injector.config, req[r].bearer)
    BY <1>3 DEF IsRefused, World
  <2>3. LetsPast(seen[r], req[r], word[r], "restricted")
    BY <1>1, <2>2 DEF LetsPast
  <2>4. QED BY <1>1, <2>1, <2>3, PlainStep
<1>4. QED BY <1>2, <1>3

\* The mark is asked about.
LEMMA FailingInv ==
    ASSUME IInv, NEW r \in Requests, CheckFailing(r) PROVE IInv'
<1> DEFINE c == injector.config
<1>1. /\ Asks(r, "failing") /\ Local /\ UNCHANGED <<word, lifetime>>
      /\ World \in seen[r]
  BY DEF CheckFailing, Asks, IInv, RequestInv, UnderWay
<1>2. CASE IsMarked(c, req[r])
  <2>1. Respond(r, Answer("failing", WriteHeader(Mark(c, req[r]))))
    BY <1>2 DEF CheckFailing
  <2>2. WriteHeader(Mark(c, req[r])) \in Int
    BY <1>2, Present, MarkTyping, WriteHeaderTyping
  <2>3. WorldExplains(World, req[r],
                      Answer("failing", WriteHeader(Mark(c, req[r]))))
    BY <1>2 DEF WorldExplains, Answer, World
  <2>4. QED BY <1>1, <2>1, <2>2, <2>3, PlainStep
<1>3. CASE ~ IsMarked(c, req[r])
  <2>1. Continue(r)
    BY <1>3 DEF CheckFailing
  <2>2. ~ IsMarked(World.injector.config, req[r])
    BY <1>3 DEF World
  <2>3. LetsPast(seen[r], req[r], word[r], "failing")
    BY <1>1, <2>2 DEF LetsPast
  <2>4. QED BY <1>1, <2>1, <2>3, PlainStep
<1>4. QED BY <1>2, <1>3

\* The types of the rates of an injector configuration.
LEMMA RateTyping ==
    ASSUME NEW c \in ErrorInjectionConfig
    PROVE  /\ \A i \in 1 .. 7 : c.typeRate[TypeOrder[i]] \in Int
           /\ \A i \in 1 .. 3 : c.connectionRate[ConnOrder[i]] \in Int
<1>1. /\ c.typeRate \in [Named(TypeOrder) -> Int]
      /\ c.connectionRate \in [Named(ConnOrder) -> Int]
  BY InjectorAssumption DEF ErrorInjectionConfig
<1>2. DOMAIN TypeOrder = 1 .. 7 /\ DOMAIN ConnOrder = 1 .. 3
  BY DEF TypeOrder, ConnOrder
<1>3. QED BY <1>1, <1>2 DEF Named

\* No type of selectErrorType has a negative rate, and together they take no
\* more than all the draws.
TypesShareable(c) ==
    /\ \A i \in 1 .. 7 : c.typeRate[TypeOrder[i]] >= 0
    /\ TypeSums(c.typeRate)[7] <= Scale

\* Once the rate of an operation has struck, selectErrorType answers with each
\* code as often as the rate of its type says, and with 500 as often as the
\* rate of server errors and all that the seven rates leave of 1 together: the
\* type rates are shares of the errors of an operation, not of its calls.
THEOREM TypeShare ==
    ASSUME NEW c \in ErrorInjectionConfig, TypesShareable(c)
    PROVE  LET share(code) == Cardinality({d \in Draw : Selects(c, d, code)})
           IN  /\ \A i \in 1 .. 7 : TypeCodes[i] # 500 =>
                     share(TypeCodes[i]) = c.typeRate[TypeOrder[i]]
               /\ share(500) = c.typeRate["serverError"]
                                  + (Scale - TypeSums(c.typeRate)[7])
<1> DEFINE rates   == [i \in 1 .. 7 |-> c.typeRate[TypeOrder[i]]]
           sums    == TypeSums(c.typeRate)
           part(i) == {d \in Draw : FallsIn(sums, d, i)}
           rest    == {d \in Draw : FallsPast(sums, d)}
<1>1. \A i \in 1 .. 7 : rates[i] \in Nat
  BY RateTyping DEF TypesShareable
<1>2. sums = SumsOf7(rates) /\ sums[7] <= Scale
  BY DEF TypeSums, SumsOf7, TypeOrder, TypesShareable
<1>3. rates[4] = c.typeRate["serverError"]
  BY DEF TypeOrder
<1>4. /\ TypeCodes[4] = 500
      /\ \A i \in 1 .. 7 : TypeCodes[i] = 500 => i = 4
      /\ \A i, j \in 1 .. 7 : TypeCodes[i] = TypeCodes[j] => i = j
  BY DEF TypeCodes
<1>5. \A d \in Draw : \A code :
         Selects(c, d, code) <=>
            \/ \E i \in 1 .. 7 : d \in part(i) /\ code = TypeCodes[i]
            \/ d \in rest /\ code = 500
  <2>1. DOMAIN TypeOrder = 1 .. 7
    BY DEF TypeOrder
  <2>2. QED BY <2>1 DEF Selects
<1> HIDE DEF sums, rates
<1>6. /\ Growing(sums) /\ Len(sums) = 7 /\ DOMAIN sums = 1 .. 7
      /\ \A i \in 1 .. 7 : sums[i] - Floor(sums, i) = rates[i]
  BY <1>1, <1>2, SevenSums
<1>7. \A i \in 1 .. 7 :
         /\ IsFiniteSet(part(i))
         /\ Cardinality(part(i)) = rates[i]
         /\ part(i) = Floor(sums, i) .. (sums[i] - 1)
  BY <1>6, PartShare
<1>8. /\ IsFiniteSet(rest) /\ Cardinality(rest) = Scale - sums[7]
      /\ rest = sums[7] .. (Scale - 1)
  BY <1>6, RestShare
<1>9. /\ sums[3] \in Int /\ sums[4] \in Int /\ sums[7] \in Int
      /\ sums[4] <= sums[7]
  <2>1. \A i, j \in 1 .. 7 : i <= j => sums[i] <= sums[j]
    BY <1>6, GrowingSums
  <2>2. \A i \in 1 .. 7 : sums[i] \in Int
    BY <1>6, GrowingSums
  <2>3. QED BY <2>1, <2>2
<1> HIDE DEF part, rest
<1>10. ASSUME NEW i \in 1 .. 7, TypeCodes[i] # 500
       PROVE  Cardinality({d \in Draw : Selects(c, d, TypeCodes[i])}) = rates[i]
  <2>1. {d \in Draw : Selects(c, d, TypeCodes[i])} = part(i)
    BY <1>4, <1>5, <1>10 DEF part
  <2>2. QED BY <1>7, <2>1
<1>11. Cardinality(part(4) \cup rest) = rates[4] + (Scale - sums[7])
  <2>1. part(4) \cap rest = {}
    <3>1. part(4) = sums[3] .. (sums[4] - 1)
      BY <1>7 DEF Floor
    <3>2. QED BY <1>8, <1>9, <3>1, ScaleAssumption
  <2>2. Cardinality(part(4) \cap rest) = 0
    BY <2>1, FS_EmptySet
  <2>3. Cardinality(part(4) \cup rest) =
           Cardinality(part(4)) + Cardinality(rest)
              - Cardinality(part(4) \cap rest)
    <3>1. IsFiniteSet(part(4)) /\ IsFiniteSet(rest)
      BY <1>7, <1>8
    <3>2. QED BY <3>1, FS_Union
  <2>4. rates[4] \in Int /\ Scale \in Int
    BY <1>1, ScaleAssumption
  <2>5. QED BY <1>7, <1>8, <1>9, <2>2, <2>3, <2>4
<1>12. {d \in Draw : Selects(c, d, 500)} = part(4) \cup rest
  BY <1>4, <1>5 DEF part, rest
<1>13. QED BY <1>3, <1>10, <1>11, <1>12 DEF rates, sums

\* Under connection rates that are not negative and together at most 1, a
\* connection breaks in each way with exactly its rate, and is left alone in
\* all the other draws.
THEOREM ConnectionShare ==
    ASSUME NEW c \in ErrorInjectionConfig,
           \A i \in 1 .. 3 : c.connectionRate[ConnOrder[i]] >= 0,
           ConnectionSums(c.connectionRate)[3] <= Scale
    PROVE  LET sums == ConnectionSums(c.connectionRate)
           IN  /\ \A i \in 1 .. 3 :
                     Cardinality({d \in Draw : FallsIn(sums, d, i)}) =
                        c.connectionRate[ConnOrder[i]]
               /\ Cardinality({d \in Draw : FallsPast(sums, d)}) =
                     Scale - sums[3]
<1> DEFINE rates == [i \in 1 .. 3 |-> c.connectionRate[ConnOrder[i]]]
           sums  == ConnectionSums(c.connectionRate)
<1>1. \A i \in 1 .. 3 : rates[i] \in Nat
  BY RateTyping
<1>2. sums = SumsOf3(rates) /\ sums[3] <= Scale
  BY DEF ConnectionSums, SumsOf3, ConnOrder
<1> HIDE DEF sums, rates
<1>3. /\ Growing(sums) /\ Len(sums) = 3 /\ DOMAIN sums = 1 .. 3
      /\ \A i \in 1 .. 3 : sums[i] - Floor(sums, i) = rates[i]
  BY <1>1, <1>2, ThreeSums
<1>4. /\ \A i \in 1 .. 3 :
            Cardinality({d \in Draw : FallsIn(sums, d, i)}) = rates[i]
      /\ Cardinality({d \in Draw : FallsPast(sums, d)}) = Scale - sums[3]
  BY <1>3, PartShare, RestShare
<1>5. QED BY <1>4 DEF sums, rates

\* A connection that can be kept is not certain to break.
LEMMA KeptIsNotAlways ==
    ASSUME NEW c \in ErrorInjectionConfig, c.enabled, MayKeepConnection(c),
           NEW i \in DOMAIN ConnOrder
    PROVE  ~ Always(ConnectionSums(c.connectionRate)[i])
<1> DEFINE sums == ConnectionSums(c.connectionRate)
<1>1. /\ DOMAIN ConnOrder = 1 .. 3 /\ DOMAIN sums = 1 .. 3
      /\ {"connectionRefused", "connectionReset", "ioTimeout"}
            \subseteq Named(ConnOrder)
  BY DEF ConnOrder, ConnectionSums, Named
<1>2. c.connectionRate \in [Named(ConnOrder) -> Int]
  BY InjectorAssumption DEF ErrorInjectionConfig
<1>3. sums[i] \in Int
  BY <1>1, <1>2 DEF ConnectionSums
<1>4. PICK d \in Draw : d >= sums[i]
  BY <1>1 DEF MayKeepConnection, FallsPast
<1>5. QED BY <1>3, <1>4, ScaleAssumption DEF Always, Draw

\* Settings that can let a request past a question are not certain to stop
\* it there.
LEMMA SparedIsNotStopped ==
    ASSUME NEW s \in Settings, NEW q \in Request
    PROVE  /\ q.kind \in {"list", "get", "adminkubeconfig", "token"}
              /\ MaySucceed(s, Operation[q.kind])
              => ~ CertainlyStops(s, q, "operation")
           /\ MayKeepConnection(s.config) =>
                 ~ CertainlyStops(s, q, "connection")
           /\ MayNotInject(s.config, s.config.tokenExpiredErrorRate) =>
                 ~ CertainlyStops(s, q, "tokenExpired")
           /\ MayNotInject(s.config, s.config.invalidKubeconfigRate) =>
                 ~ CertainlyStops(s, q, "invalid")
           /\ MayNotInject(s.config, s.config.expiredKubeconfigRate) =>
                 ~ CertainlyStops(s, q, "expired")
<1> DEFINE c == s.config
<1>1. /\ c \in ErrorInjectionConfig
      /\ c.tokenExpiredErrorRate \in Int /\ c.invalidKubeconfigRate \in Int
      /\ c.expiredKubeconfigRate \in Int
  BY InjectorAssumption DEF Settings, ErrorInjectionConfig
<1>2. ASSUME q.kind \in {"list", "get", "adminkubeconfig", "token"},
             c.enabled, MaySucceed(s, Operation[q.kind])
      PROVE  ~ Always(EffectiveRate(s, Operation[q.kind]))
  <2> DEFINE op == Operation[q.kind]
  <2>1. op \in Operations
    BY <1>2 DEF Operation, Operations
  <2>2. /\ c.operationRate \in [Operations -> Int]
        /\ s.errorRates \in [Operations -> Int \cup {Absent}]
    BY InjectorAssumption DEF Settings, ErrorInjectionConfig
  <2>3. c.operationRate[op] \in Int /\ s.errorRates[op] \in Int \cup {Absent}
    BY <2>1, <2>2
  <2>4. EffectiveRate(s, op) \in Int
    BY <2>3 DEF EffectiveRate, HasSimpleRate
  <2>5. MayMiss(EffectiveRate(s, op))
    BY <1>2 DEF MaySucceed, EffectiveRate
  <2>6. QED BY <2>4, <2>5, MissIsNotAlways
<1>3. QED
  BY <1>1, <1>2, MissIsNotAlways, KeptIsNotAlways
     DEF CertainlyStops, MayNotInject

\* An error type a draw can select has a rate above zero.
LEMMA SelectedType ==
    ASSUME NEW c \in ErrorInjectionConfig, NEW d \in Draw, NEW code,
           Selects(c, d, code)
    PROVE  \/ code = 500
           \/ \E i \in DOMAIN TypeOrder :
                 c.typeRate[TypeOrder[i]] > 0 /\ code = TypeCodes[i]
<1> DEFINE rate == c.typeRate
<1>1. DOMAIN TypeOrder = 1 .. 7
  BY DEF TypeOrder
<1>2. /\ rate["authFailure"] \in Int /\ rate["forbidden"] \in Int
      /\ rate["notFound"] \in Int /\ rate["serverError"] \in Int
      /\ rate["serviceUnavailable"] \in Int /\ rate["timeout"] \in Int
      /\ rate["rateLimit"] \in Int
  <2>1. rate \in [Named(TypeOrder) -> Int]
    BY InjectorAssumption DEF ErrorInjectionConfig
  <2>2. /\ TypeOrder[1] = "authFailure" /\ TypeOrder[2] = "forbidden"
        /\ TypeOrder[3] = "notFound" /\ TypeOrder[4] = "serverError"
        /\ TypeOrder[5] = "serviceUnavailable" /\ TypeOrder[6] = "timeout"
        /\ TypeOrder[7] = "rateLimit"
    BY DEF TypeOrder
  <2>3. \A i \in 1 .. 7 : rate[TypeOrder[i]] \in Int
    BY <1>1, <2>1 DEF Named
  <2>4. QED BY <2>2, <2>3
<1>3. d \in Int /\ d >= 0
  BY ScaleAssumption DEF Draw
<1>4. ASSUME NEW i \in 1 .. 7, FallsIn(TypeSums(rate), d, i)
      PROVE  rate[TypeOrder[i]] > 0
  <2>1. CASE i = 1
    BY <1>2, <1>3, <1>4, <2>1 DEF FallsIn, TypeSums, TypeOrder
  <2>2. CASE i = 2
    BY <1>2, <1>3, <1>4, <2>2 DEF FallsIn, TypeSums, TypeOrder
  <2>3. CASE i = 3
    BY <1>2, <1>3, <1>4, <2>3 DEF FallsIn, TypeSums, TypeOrder
  <2>4. CASE i = 4
    BY <1>2, <1>3, <1>4, <2>4 DEF FallsIn, TypeSums, TypeOrder
  <2>5. CASE i = 5
    BY <1>2, <1>3, <1>4, <2>5 DEF FallsIn, TypeSums, TypeOrder
  <2>6. CASE i = 6
    BY <1>2, <1>3, <1>4, <2>6 DEF FallsIn, TypeSums, TypeOrder
  <2>7. CASE i = 7
    BY <1>2, <1>3, <1>4, <2>7 DEF FallsIn, TypeSums, TypeOrder
  <2>8. QED BY <2>1, <2>2, <2>3, <2>4, <2>5, <2>6, <2>7
<1>5. QED BY <1>1, <1>4 DEF Selects

\* Where the settings in force do not stop a request, not all of its worlds do.
LEMMA SparedNow ==
    ASSUME IInv, NEW r \in Requests, NEW check, Asks(r, check), NEW c,
           ~ CertainlyStops(injector, req[r], c)
    PROVE  ~ AlwaysStops(seen[r], req[r], c)
<1>1. World \in seen[r] /\ World.injector = injector
  BY Present DEF Asks, IInv, RequestInv, UnderWay
<1>2. QED BY <1>1 DEF AlwaysStops

\* A random error is drawn.
LEMMA OperationInv ==
    ASSUME IInv, NEW r \in Requests, CheckOperation(r) PROVE IInv'
<1> DEFINE op == Operation[req[r].kind]
<1>1. /\ Asks(r, "operation") /\ Local /\ UNCHANGED <<word, lifetime>>
  BY DEF CheckOperation
<1>2. ASSUME NEW code \in Codes \cup {500} \cup Named(TypeCodes),
             MayFail(injector, op, code),
             Respond(r, Answer("operation", WriteHeader(code)))
      PROVE  IInv'
  <2>1. code \in Int
    <3>1. \A i \in DOMAIN TypeCodes : TypeCodes[i] \in Int
      BY DEF TypeCodes
    <3>2. \A x \in Named(TypeCodes) : x \in Int
      BY <3>1 DEF Named
    <3>3. \A x \in Codes : x \in Int
      BY InjectorAssumption
    <3>4. CASE code = 500
      BY <3>4
    <3>5. QED BY <3>2, <3>3, <3>4
  <2>2. WriteHeader(code) \in Int
    BY <2>1, WriteHeaderTyping
  <2>3. OperationExplained(injector, req[r],
                           Answer("operation", WriteHeader(code)))
    <3>1. injector.config.enabled
      BY <1>2 DEF MayFail
    <3>2. CASE HasSimpleRate(injector, op)
      BY <1>2, <3>1, <3>2 DEF MayFail, OperationExplained, Answer
    <3>3. CASE ~ HasSimpleRate(injector, op)
      <4>1. /\ MayHit(injector.config.operationRate[op])
            /\ \E d \in Draw : Selects(injector.config, d, code)
        BY <1>2, <3>3 DEF MayFail
      <4>2. injector.config.operationRate[op] > 0
        BY <4>1 DEF MayHit, Hits
      <4>3. \/ code = 500
            \/ \E i \in DOMAIN TypeOrder :
                  /\ injector.config.typeRate[TypeOrder[i]] > 0
                  /\ code = TypeCodes[i]
        BY <4>1, Present, SelectedType
      <4>4. /\ WriteHeader(500) = 500
            /\ \A i \in DOMAIN TypeOrder :
                  WriteHeader(TypeCodes[i]) = TypeCodes[i]
        BY DEF WriteHeader, TypeOrder, TypeCodes
      <4>5. QED
        BY <3>1, <3>3, <4>2, <4>3, <4>4 DEF OperationExplained, Answer
    <3>4. QED BY <3>2, <3>3
  <2>4. WorldExplains(World, req[r], Answer("operation", WriteHeader(code)))
    BY <2>3 DEF WorldExplains, Answer, World
  <2>5. QED BY <1>1, <1>2, <2>2, <2>4, PlainStep
<1>3. ASSUME MaySucceed(injector, op), Continue(r) PROVE IInv'
  <2>1. req[r].kind \in {"list", "get", "adminkubeconfig", "token"}
    BY <1>1, Position, AskedBy DEF IInv
  <2>2. ~ CertainlyStops(injector, req[r], "operation")
    BY <1>3, <2>1, Present, SparedIsNotStopped
  <2>3. LetsPast(seen[r], req[r], word[r], "operation")
    BY <1>1, <2>2, SparedNow DEF LetsPast
  <2>4. QED BY <1>1, <1>3, <2>3, PlainStep
<1>4. QED BY <1>2, <1>3 DEF CheckOperation

\* The questions of the token handler that end in a refusal.
LEMMA TokenRefusalInv ==
    ASSUME IInv, NEW r \in Requests,
           CheckConnection(r) \/ CheckTokenExpired(r) \/ ReadBody(r)
    PROVE  IInv'
<1>1. CASE CheckConnection(r)
  <2>1. MayBreakConnection(injector.config) =>
           WorldExplains(World, req[r], Answer("connection", 503))
    BY DEF WorldExplains, Answer, World
  <2>2. MayKeepConnection(injector.config) =>
           LetsPast(seen[r], req[r], word[r], "connection")
    <3>1. Asks(r, "connection")
      BY <1>1 DEF CheckConnection
    <3>2. QED BY <3>1, Present, SparedIsNotStopped, SparedNow DEF LetsPast
  <2>3. QED BY <1>1, <2>1, <2>2, PlainStep DEF CheckConnection
<1>2. CASE CheckTokenExpired(r)
  <2>1. MayInject(injector.config, injector.config.tokenExpiredErrorRate) =>
           WorldExplains(World, req[r], Answer("tokenExpired", 401))
    BY DEF WorldExplains, Answer, World
  <2>2. MayNotInject(injector.config, injector.config.tokenExpiredErrorRate)
           => LetsPast(seen[r], req[r], word[r], "tokenExpired")
    <3>1. Asks(r, "tokenExpired")
      BY <1>2 DEF CheckTokenExpired
    <3>2. QED BY <3>1, Present, SparedIsNotStopped, SparedNow DEF LetsPast
  <2>3. QED BY <1>2, <2>1, <2>2, PlainStep DEF CheckTokenExpired
<1>3. CASE ReadBody(r)
  <2>1. WorldExplains(World, req[r], Answer("body", 400))
    BY DEF WorldExplains, Answer
  <2>2. LetsPast(seen[r], req[r], word[r], "body")
    BY DEF LetsPast
  <2>3. QED BY <1>3, <2>1, <2>2, PlainStep DEF ReadBody
<1>4. QED BY <1>1, <1>2, <1>3

\* The behaviour is captured.
LEMMA BehaviorInv ==
    ASSUME IInv, NEW r \in Requests, ReadBehavior(r) PROVE IInv'
<1> DEFINE b == BehaviorOf(injector.config, req[r])
<1>1. /\ Asks(r, "behavior") /\ Local /\ lifetime' = lifetime
      /\ word' = [word EXCEPT ![r] = b]
      /\ UnderWay(r)
  BY DEF ReadBehavior, Asks, IInv, RequestInv
<1>2. b \in Behaviors
  BY Present, BehaviorTyping
<1>3. /\ word' \in [Requests -> Behaviors] /\ lifetime' \in [Requests -> Int]
      /\ word'[r] = b
      /\ \A q \in Requests \ {r} :
            word'[q] = word[q] /\ lifetime'[q] = lifetime[q]
  BY <1>1, <1>2, Present
<1>4. /\ World \in seen[r]
      /\ BehaviorOf(World.injector.config, req[r]) = b
  BY <1>1 DEF UnderWay, World
<1>5. CASE b = "token_expired_error" /\ Respond(r, Answer("behavior", 401))
  <2>1. /\ Answer("behavior", 401) \in Reply
        /\ Answer("behavior", 401).cause = "behavior"
        /\ Answer("behavior", 401).credential = "none"
    BY AnswerTyping DEF Answer, Causes
  <2>2. WorldExplains(World, req[r], Answer("behavior", 401))
    BY <1>4, <1>5, <2>1 DEF WorldExplains
  <2>3. AnswerFits(seen[r], req[r], Answer("behavior", 401))
    BY <1>1, <1>4, <2>1, <2>2, PlainFits
  <2>4. QED BY <1>1, <1>3, <1>5, <2>1, <2>3, RespondInv
<1>6. CASE Continue(r)
  <2>1. at[r] < Len(Questions(r))
    BY <1>1, Position, LastQuestion DEF IInv
  <2>2. ~ Past(r, "expired")
    BY <1>1, Position, BehaviorOrder DEF IInv, Past
  <2>3. LetsPast(seen[r], req[r], word'[r], "behavior")
    BY <1>3, <1>4 DEF LetsPast
  <2>4. ExpiryExplained(seen[r], req[r], lifetime'[r])
    BY <1>1 DEF UnderWay
  <2>5. QED BY <1>1, <1>3, <1>6, <2>1, <2>2, <2>3, <2>4, ContinueInv
<1>7. QED BY <1>5, <1>6 DEF ReadBehavior

\* The store is asked.
LEMMA StoreInv ==
    ASSUME IInv, NEW r \in Requests, ReadStore(r) PROVE IInv'
<1>1. /\ Asks(r, "store") /\ Local /\ UNCHANGED <<word, lifetime>>
      /\ World \in seen[r] /\ World.shoots = shoots
  BY Present DEF ReadStore, Asks, IInv, RequestInv, UnderWay
<1>2. CASE Respond(r, Answer("store", 404))
  <2>1. WorldExplains(World, req[r], Answer("store", 404))
    BY DEF WorldExplains, Answer
  <2>2. QED BY <1>1, <1>2, <2>1, PlainStep
<1>3. CASE Found(shoots, req[r]) /\ Respond(r, Answer("store", 200))
  <2>1. WorldExplains(World, req[r], Answer("store", 200))
    BY <1>1, <1>3 DEF WorldExplains, Answer
  <2>2. QED BY <1>1, <1>3, <2>1, PlainStep
<1>4. CASE /\ Found(shoots, req[r]) /\ Continue(r)
           /\ req[r].kind = "adminkubeconfig"
  <2>1. LetsPast(seen[r], req[r], word[r], "store")
    BY <1>1, <1>4 DEF LetsPast
  <2>2. QED BY <1>1, <1>4, <2>1, PlainStep
<1>5. QED BY <1>2, <1>3, <1>4 DEF ReadStore

\* The captured word is the behaviour of a world of the request.
LEMMA WordSeen ==
    ASSUME IInv, NEW r \in Requests, NEW check, Asks(r, check),
           check \in {"invalid", "expired", "issue"},
           req[r].kind # "sakubeconfig"
    PROVE  \E w \in seen[r] : BehaviorOf(w.injector.config, req[r]) = word[r]
  BY LetPast DEF LetsPast

\* An invalid credential is drawn or called for.
LEMMA InvalidInv ==
    ASSUME IInv, NEW r \in Requests, CheckInvalid(r) PROVE IInv'
<1> DEFINE c == injector.config
           a == Credential("invalid", "invalid", lifetime[r])
<1>1. /\ Asks(r, "invalid") /\ Local /\ UNCHANGED <<word, lifetime>>
      /\ UnderWay(r)
  BY DEF CheckInvalid, Asks, IInv, RequestInv
<1>2. req[r].kind = "adminkubeconfig"
  BY <1>1, Position, AskedBy DEF IInv
<1>3. ASSUME MayBe(c, word[r], "invalid", c.invalidKubeconfigRate),
             Respond(r, a)
      PROVE  IInv'
  <2>1. /\ a \in Reply /\ a.cause = "invalid" /\ a.credential = "invalid"
        /\ a.expiry = lifetime[r]
    BY Present, CredentialTyping DEF Credential, Causes
  <2>2. PICK w \in seen[r] : MayBeInvalid(w.injector.config, req[r])
    <3>1. CASE word[r] = "invalid"
      BY <1>1, <1>2, <3>1, WordSeen DEF MayBeInvalid
    <3>2. CASE MayInject(c, c.invalidKubeconfigRate)
      BY <1>1, <1>2, <3>2 DEF MayBeInvalid, UnderWay, World
    <3>3. QED BY <1>3, <3>1, <3>2 DEF MayBe
  <2>3. WorldExplains(w, req[r], a)
    BY <2>1, <2>2 DEF WorldExplains
  <2>4. Damaged(seen[r], req[r], a) /\ Spoiled(seen[r], req[r], a)
    BY <2>1 DEF Damaged, Spoiled
  <2>5. ExpiryExplained(seen[r], req[r], a.expiry)
    BY <1>1, <2>1 DEF UnderWay
  <2>6. AnswerFits(seen[r], req[r], a)
    BY <1>1, <2>1, <2>2, <2>3, <2>4, <2>5, CredentialFits
  <2>7. QED BY <1>1, <1>3, <2>1, <2>6, Present, RespondInv
<1>4. ASSUME MayNotBe(c, word[r], "invalid", c.invalidKubeconfigRate),
             Continue(r)
      PROVE  IInv'
  <2>1. LetsPast(seen[r], req[r], word[r], "invalid")
    BY <1>1, <1>4, Present, SparedIsNotStopped, SparedNow
       DEF MayNotBe, LetsPast
  <2>2. QED BY <1>1, <1>4, <2>1, PlainStep
<1>5. QED BY <1>3, <1>4 DEF CheckInvalid

\* An expired credential is drawn or called for.
LEMMA ExpiredInv ==
    ASSUME IInv, NEW r \in Requests, CheckExpired(r) PROVE IInv'
<1> DEFINE c == injector.config
           a == Credential("expired", "valid", HourAgo)
<1>1. /\ Asks(r, "expired") /\ Local /\ word' = word /\ UnderWay(r)
  BY DEF CheckExpired, Asks, IInv, RequestInv
<1>2. /\ req[r].kind \in {"adminkubeconfig", "token"}
      /\ at[r] < Len(Questions(r))
  BY <1>1, Position, AskedBy, LastQuestion DEF IInv
<1>3. LetsPast(seen[r], req[r], word[r], "expired")
  BY DEF LetsPast
<1>4. ASSUME MayBe(c, word[r], "expired", c.expiredKubeconfigRate)
      PROVE  \E w \in seen[r] : MayBeExpired(w.injector.config, req[r])
  <2>1. CASE word[r] = "expired"
    BY <1>1, <1>2, <2>1, WordSeen DEF MayBeExpired
  <2>2. CASE MayInject(c, c.expiredKubeconfigRate)
    BY <1>1, <2>2 DEF MayBeExpired, UnderWay, World
  <2>3. QED BY <1>4, <2>1, <2>2 DEF MayBe
<1>5. HourAgo \in Int
  BY DEF HourAgo
<1>6. CASE /\ MayBe(c, word[r], "expired", c.expiredKubeconfigRate)
           /\ req[r].kind = "token" /\ Continue(r)
           /\ lifetime' = [lifetime EXCEPT ![r] = HourAgo]
  <2>1. /\ lifetime' \in [Requests -> Int] /\ lifetime'[r] = HourAgo
        /\ \A q \in Requests \ {r} : lifetime'[q] = lifetime[q]
    BY <1>5, <1>6, Present
  <2>2. ExpiryExplained(seen[r], req[r], lifetime'[r])
    BY <1>4, <1>6, <2>1 DEF ExpiryExplained
  <2>3. PastExpired(seen[r], req[r], word'[r], lifetime'[r])
    BY <1>6, <2>1 DEF PastExpired
  <2>4. QED
    BY <1>1, <1>2, <1>3, <1>6, <2>1, <2>2, <2>3, Present, ContinueInv
<1>7. CASE /\ MayBe(c, word[r], "expired", c.expiredKubeconfigRate)
           /\ req[r].kind = "adminkubeconfig" /\ Respond(r, a)
           /\ UNCHANGED lifetime
  <2>1. /\ a \in Reply /\ a.cause = "expired" /\ a.credential = "valid"
        /\ a.expiry = HourAgo
    BY <1>5, CredentialTyping DEF Credential, Causes
  <2>2. PICK w \in seen[r] : MayBeExpired(w.injector.config, req[r])
    BY <1>4, <1>7
  <2>3. WorldExplains(w, req[r], a)
    BY <2>1, <2>2 DEF WorldExplains
  <2>4. Damaged(seen[r], req[r], a)
    <3>1. word[r] # "invalid"
      BY <1>1, <1>7, LetPast DEF LetsPast
    <3>2. ~ Throughout(seen[r], req[r], "invalid")
      BY <1>1, <1>2, <3>1, WordSeen DEF Throughout
    <3>3. QED BY <2>1, <3>2 DEF Damaged
  <2>5. ExpiryExplained(seen[r], req[r], a.expiry)
    BY <2>1, <2>2 DEF ExpiryExplained
  <2>6. Spoiled(seen[r], req[r], a)
    BY <1>1, <1>7, <2>1, LetPast DEF LetsPast, Spoiled
  <2>7. AnswerFits(seen[r], req[r], a)
    BY <1>1, <2>1, <2>3, <2>4, <2>5, <2>6, CredentialFits
  <2>8. QED BY <1>1, <1>7, <2>1, <2>7, Present, RespondInv
<1>8. CASE /\ MayBe(c, word[r], "expired", c.expiredKubeconfigRate)
           /\ Respond(r, Answer("expired", 500)) /\ UNCHANGED lifetime
  <2>1. /\ Answer("expired", 500) \in Reply
        /\ Answer("expired", 500).cause = "expired"
        /\ Answer("expired", 500).credential = "none"
    BY AnswerTyping DEF Answer, Causes
  <2>2. \E w \in seen[r] : WorldExplains(w, req[r], Answer("expired", 500))
    BY <1>4, <1>8, <2>1 DEF WorldExplains
  <2>3. AnswerFits(seen[r], req[r], Answer("expired", 500))
    BY <1>1, <2>1, <2>2, PlainFits
  <2>4. QED BY <1>1, <1>8, <2>1, <2>3, Present, RespondInv
<1>9. CASE /\ MayNotBe(c, word[r], "expired", c.expiredKubeconfigRate)
           /\ Continue(r) /\ UNCHANGED lifetime
  <2>1. word[r] # "expired"
    BY <1>9 DEF MayNotBe
  <2>2. ExpiryExplained(seen[r], req[r], lifetime'[r])
    BY <1>1, <1>9 DEF UnderWay
  <2>3. ~ AlwaysStops(seen[r], req[r], "expired")
    BY <1>1, <1>9, Present, SparedIsNotStopped, SparedNow DEF MayNotBe
  <2>4. PastExpired(seen[r], req[r], word'[r], lifetime'[r])
    BY <1>1, <2>1, <2>3 DEF PastExpired
  <2>5. QED
    BY <1>1, <1>2, <1>3, <1>9, <2>1, <2>2, <2>4, Present, ContinueInv
<1>10. QED BY <1>6, <1>7, <1>8, <1>9 DEF CheckExpired

\* The short lifetime is read.
LEMMA ShortTTLInv ==
    ASSUME IInv, NEW r \in Requests, ReadShortTTL(r) PROVE IInv'
<1> DEFINE ttl == injector.config.shortTTLSeconds
<1>1. /\ Asks(r, "ttl") /\ Local /\ word' = word /\ Continue(r) /\ UnderWay(r)
      /\ lifetime' = [lifetime EXCEPT ![r] = IF ttl > 0 THEN ttl ELSE @]
  BY DEF ReadShortTTL, Asks, IInv, RequestInv
<1>2. /\ req[r].kind \in {"adminkubeconfig", "token"}
      /\ at[r] < Len(Questions(r))
  BY <1>1, Position, AskedBy, LastQuestion DEF IInv
<1>3. ttl \in Int
  BY Present, InjectorAssumption DEF ErrorInjectionConfig
<1>4. /\ lifetime' \in [Requests -> Int]
      /\ lifetime'[r] = IF ttl > 0 THEN ttl ELSE lifetime[r]
      /\ \A q \in Requests \ {r} : lifetime'[q] = lifetime[q]
  BY <1>1, <1>3, Present
<1>5. ExpiryExplained(seen[r], req[r], lifetime'[r])
  <2>1. CASE ttl > 0
    BY <1>1, <1>4, <2>1 DEF ExpiryExplained, UnderWay, World
  <2>2. CASE ~ (ttl > 0)
    BY <1>1, <1>4, <2>2 DEF UnderWay
  <2>3. QED BY <2>1, <2>2
<1>6. Past(r, "expired") =>
         PastExpired(seen[r], req[r], word'[r], lifetime'[r])
  BY <1>1, <1>2, LetPast DEF UnderWay, PastExpired
<1>7. LetsPast(seen[r], req[r], word[r], "ttl")
  BY DEF LetsPast
<1>8. QED
  BY <1>1, <1>2, <1>4, <1>5, <1>6, <1>7, Present, ContinueInv

\* The credential is issued.
LEMMA IssueInv ==
    ASSUME IInv, NEW r \in Requests, Issue(r) PROVE IInv'
<1> DEFINE credential == IF req[r].kind = "token" /\ word[r] = "invalid"
                         THEN "invalid" ELSE "valid"
           a == Credential("issue", credential, lifetime[r])
<1>1. /\ Asks(r, "issue") /\ Local /\ UNCHANGED <<word, lifetime>>
      /\ UnderWay(r)
  BY DEF Issue, Asks, IInv, RequestInv
<1>2. CASE Respond(r, a)
  <2>1. /\ a \in Reply /\ a.cause = "issue" /\ a.credential = credential
        /\ a.expiry = lifetime[r]
    BY Present, CredentialTyping DEF Credential, Causes
  <2>2. \E w \in seen[r] : WorldExplains(w, req[r], a)
    BY <1>1, <2>1 DEF WorldExplains, UnderWay
  <2>3. credential = "invalid" =>
           \E w \in seen[r] : MayBeInvalid(w.injector.config, req[r])
    BY <1>1, WordSeen DEF MayBeInvalid
  <2>4. Damaged(seen[r], req[r], a)
    <3>1. ASSUME req[r].kind \in {"adminkubeconfig", "token"},
                 Throughout(seen[r], req[r], "invalid")
          PROVE  a.credential # "valid"
      <4>1. word[r] = "invalid"
        BY <1>1, <3>1, WordSeen DEF Throughout
      <4>2. req[r].kind = "token"
        BY <1>1, <3>1, <4>1, LetPast DEF LetsPast
      <4>3. QED BY <2>1, <4>1, <4>2
    <3>2. ASSUME req[r].kind \in {"adminkubeconfig", "token"},
                 Throughout(seen[r], req[r], "expired")
          PROVE  a.expiry = HourAgo
      <4>1. word[r] = "expired"
        BY <1>1, <3>2, WordSeen DEF Throughout
      <4>2. Past(r, "expired")
        BY <1>1, <3>2, LetPast
      <4>3. QED BY <1>1, <2>1, <4>1, <4>2 DEF UnderWay, PastExpired
    <3>3. QED BY <3>1, <3>2 DEF Damaged
  <2>5. ExpiryExplained(seen[r], req[r], a.expiry)
    BY <1>1, <2>1 DEF UnderWay
  <2>6. Spoiled(seen[r], req[r], a)
    <3>1. ASSUME req[r].kind = "adminkubeconfig"
          PROVE  ~ AlwaysStops(seen[r], req[r], "invalid")
      BY <1>1, <3>1, LetPast DEF LetsPast
    <3>2. ASSUME req[r].kind \in {"adminkubeconfig", "token"},
                 AlwaysStops(seen[r], req[r], "expired")
          PROVE  a.expiry = HourAgo
      <4>1. Past(r, "expired")
        BY <1>1, <3>2, LetPast
      <4>2. QED BY <1>1, <2>1, <3>2, <4>1 DEF UnderWay, PastExpired
    <3>3. QED BY <3>1, <3>2 DEF Spoiled
  <2>7. AnswerFits(seen[r], req[r], a)
    BY <1>1, <2>1, <2>2, <2>3, <2>4, <2>5, <2>6, CredentialFits
  <2>8. QED BY <1>1, <1>2, <2>1, <2>7, Present, RespondInv
<1>3. CASE Respond(r, Answer("issue", 500))
  <2>1. /\ Answer("issue", 500) \in Reply
        /\ Answer("issue", 500).cause = "issue"
        /\ Answer("issue", 500).credential = "none"
    BY AnswerTyping DEF Answer, Causes
  <2>2. \E w \in seen[r] : WorldExplains(w, req[r], Answer("issue", 500))
    BY <1>1, <2>1 DEF WorldExplains, UnderWay
  <2>3. AnswerFits(seen[r], req[r], Answer("issue", 500))
    BY <1>1, <2>1, <2>2, PlainFits
  <2>4. QED BY <1>1, <1>3, <2>1, <2>3, Present, RespondInv
<1>4. QED BY <1>2, <1>3 DEF Issue

----------------------------------------------------------------------------
(* Arrivals, management calls, and the theorems.                            *)

\* The invariant holds at the start.
LEMMA ApiInit == Init => IInv
<1> SUFFICES ASSUME Init PROVE IInv
  OBVIOUS
<1>1. StatusInv
  BY InitStatus DEF Init
<1>2. ASSUME NEW r \in Requests PROVE RequestInv(r)
  <2>1. at[r] = 0 /\ reply[r] = NoReply
    BY DEF Init
  <2>2. ~ Done(r) /\ ~ InFlight(r)
    BY <2>1 DEF Done, InFlight, NoReply, Answer
  <2>3. QED BY <2>2 DEF RequestInv
<1>3. QED BY <1>1, <1>2, ApiInitTyping DEF IInv

\* A request arrives.
LEMMA ArriveInv ==
    ASSUME IInv, NEW r \in Requests, Arrive(r) PROVE IInv'
<1>1. /\ at[r] = 0 /\ at' = [at EXCEPT ![r] = 1]
      /\ lifetime' = [lifetime EXCEPT ![r] = Asked(req[r])]
      /\ seen' = [seen EXCEPT ![r] = {World}]
      /\ UNCHANGED <<managementVars, req, word, reply>>
      /\ at \in [Requests -> Nat] /\ lifetime \in [Requests -> Int]
      /\ seen \in [Requests -> SUBSET Worlds]
      /\ ManagementTypeOK
  BY DEF Arrive, IInv, TypeOK
<1>2. /\ ManagementTypeOK' /\ World' = World /\ StatusInv'
  BY <1>1 DEF managementVars, toldVars, statusVars, ManagementTypeOK, World,
              IInv, StatusInv, StatusTellsTruth, Shown, AloneInv, AllIdle, Posting
<1>3. /\ req[r] \in Request /\ Questions(r) = Checks[req[r].kind]
      /\ req[r].kind \in Kinds
  BY ApiAssumption DEF IInv, TypeOK, Request, Questions
<1>4. 1 <= Len(Questions(r))
  BY <1>3 DEF Checks, Kinds
<1>5. /\ at'[r] = 1 /\ lifetime'[r] = Asked(req[r]) /\ seen'[r] = {World}
      /\ \A q \in Requests \ {r} :
            at'[q] = at[q] /\ lifetime'[q] = lifetime[q] /\ seen'[q] = seen[q]
  BY <1>1
<1>6. TypeOK'
  <2>1. at' \in [Requests -> Nat] /\ lifetime' \in [Requests -> Int]
    BY <1>1, <1>3, AskedTyping
  <2>2. seen' \in [Requests -> SUBSET Worlds]
    BY <1>1, WorldTyping
  <2>3. \A q \in Requests : at'[q] <= Len(Questions(q)')
    BY <1>1, <1>4, <1>5 DEF IInv, TypeOK, Questions
  <2>4. QED BY <1>1, <1>2, <2>1, <2>2, <2>3 DEF IInv, TypeOK
<1>7. RequestInv(r)'
  <2>1. ~ Done(r)'
    BY <1>1 DEF Done, IInv, RequestInv
  <2>2. \A check : ~ Past(r, check)'
    <3>1. /\ Questions(r)' = Questions(r)
          /\ DOMAIN Questions(r) = 1 .. Len(Questions(r))
          /\ Len(Questions(r)) \in Nat
      BY <1>1, <1>3, ChecksTyping DEF Questions
    <3>2. QED BY <1>5, <3>1 DEF Past
  <2>3. ExpiryExplained(seen[r], req[r], lifetime[r])'
    BY <1>1, <1>5 DEF ExpiryExplained, Asked
  <2>4. (World \in seen[r])'
    BY <1>2, <1>5
  <2>5. QED BY <1>5, <2>1, <2>2, <2>3, <2>4 DEF RequestInv, UnderWay
<1>8. ASSUME NEW q \in Requests \ {r} PROVE RequestInv(q)'
  <2>1. /\ Done(q)' <=> Done(q)
        /\ InFlight(q)' <=> InFlight(q)
        /\ \A check : Past(q, check)' <=> Past(q, check)
    BY <1>1, <1>5 DEF Done, InFlight, Past, Questions
  <2>2. InFlight(q) => UnderWay(q)'
    BY <1>1, <1>2, <1>5, <2>1 DEF IInv, RequestInv, UnderWay
  <2>3. QED BY <1>1, <1>5, <2>1, <2>2 DEF IInv, RequestInv
<1>9. QED BY <1>2, <1>6, <1>7, <1>8 DEF IInv

\* A management step is taken.
LEMMA ManageInv == ASSUME IInv, Manage PROVE IInv'
<1>1. /\ Management /\ Observe /\ UNCHANGED <<req, at, word, lifetime, reply>>
      /\ ManagementTypeOK /\ StatusInv /\ seen \in [Requests -> SUBSET Worlds]
  BY DEF Manage, requestVars, IInv, TypeOK
<1>2. ManagementTypeOK' /\ StatusInv'
  BY <1>1, ManagementTyping, ManagementStatus
<1>3. World' \in Worlds
  BY <1>2 DEF ManagementTypeOK, World, Worlds
<1>4. \A q \in Requests :
         seen'[q] = IF InFlight(q) THEN seen[q] \cup {World'} ELSE seen[q]
  BY <1>1 DEF Observe
<1>5. TypeOK'
  <2>1. seen' \in [Requests -> SUBSET Worlds]
    BY <1>1, <1>3 DEF Observe
  <2>2. QED BY <1>1, <1>2, <2>1 DEF IInv, TypeOK, Questions
<1>6. ASSUME NEW q \in Requests PROVE RequestInv(q)'
  <2>1. /\ Done(q)' <=> Done(q)
        /\ InFlight(q)' <=> InFlight(q)
        /\ \A check : Past(q, check)' <=> Past(q, check)
    BY <1>1 DEF Done, InFlight, Past, Questions
  <2>2. ASSUME InFlight(q) PROVE UnderWay(q)'
    <3>1. UnderWay(q) /\ seen[q] \subseteq seen'[q] /\ World' \in seen'[q]
      BY <1>4, <2>2 DEF IInv, RequestInv
    <3>2. \A check \in Causes :
             Past(q, check) => LetsPast(seen'[q], req[q], word[q], check)
      BY <3>1, MoreWorlds DEF UnderWay
    <3>3. /\ ExpiryExplained(seen'[q], req[q], lifetime[q])
          /\ Past(q, "expired") =>
                PastExpired(seen'[q], req[q], word[q], lifetime[q])
      BY <3>1, MoreWorlds DEF UnderWay
    <3>4. QED BY <1>1, <2>1, <3>1, <3>2, <3>3 DEF UnderWay
  <2>3. Done(q) => seen'[q] = seen[q]
    BY <1>4 DEF InFlight
  <2>4. QED BY <1>1, <2>1, <2>2, <2>3 DEF IInv, RequestInv
<1>7. QED BY <1>2, <1>5, <1>6 DEF IInv

\* Nothing happens.
LEMMA StutterInv == ASSUME IInv, UNCHANGED vars PROVE IInv'
<1>1. /\ UNCHANGED <<managementVars, req, at, word, lifetime, reply, seen>>
      /\ Local
  BY DEF vars, requestVars, Local
<1>2. TypeOK'
  BY <1>1 DEF IInv, TypeOK, managementVars, toldVars, statusVars,
              ManagementTypeOK, Questions
<1>3. \A q \in Requests : RequestInv(q)'
  BY <1>1, LocalFrame, Undisturbed DEF IInv
<1>4. QED BY <1>1, <1>2, <1>3, LocalFrame DEF IInv

\* Every step keeps the invariant.
LEMMA NextInv == IInv /\ [Next]_vars => IInv'
<1> SUFFICES ASSUME IInv, [Next]_vars PROVE IInv'
  OBVIOUS
<1>1. ASSUME NEW r \in Requests, Step(r) PROVE IInv'
  BY <1>1, RestrictedInv, FailingInv, OperationInv, TokenRefusalInv,
     BehaviorInv, StoreInv, InvalidInv, ExpiredInv, ShortTTLInv, IssueInv
     DEF Step
<1>2. QED BY <1>1, ArriveInv, ManageInv, StutterInv DEF Next

\* The conjunction the properties are read from is inductive.
THEOREM Invariance == Spec => []IInv
  BY ApiInit, NextInv, PTL DEF Spec

\* The settings, the status object and every request stay well typed: no
\* sequence of management calls puts a rate, a code or a behaviour where the
\* code cannot read it.
THEOREM ApiTypeCorrect == Spec => []TypeOK
<1>1. IInv => TypeOK
  BY DEF IInv
<1>2. QED BY <1>1, Invariance, PTL

\* What GET /errors and GET /status show of the flag and of the simple rates
\* is so within the limits StatusTellsTruth states, for any number of managers
\* and calls: for the flag no PUT, no overlap and nothing before the first POST,
\* enable or disable; for the rates no overlapped POST; nothing of the legacy
\* rates.
THEOREM ApiStatusTruth == Spec => []StatusTellsTruth
<1>1. IInv => StatusTellsTruth
  BY DEF IInv, StatusInv
<1>2. QED BY <1>1, Invariance, PTL

\* Every answer of the stand-alone API is owed to configurations of the
\* request's time.
THEOREM ApiExplained == Spec => []ReplyExplained
<1>1. IInv => ReplyExplained
  BY DEF IInv, RequestInv, AnswerFits, ReplyExplained
<1>2. QED BY <1>1, Invariance, PTL

\* A service account that stays restricted reads neither shoots nor projects.
THEOREM ApiRestriction == Spec => []RestrictedNeverReads
<1>1. IInv => RestrictedNeverReads
  BY DEF IInv, RequestInv, AnswerFits, RestrictedNeverReads
<1>2. QED BY <1>1, Invariance, PTL

\* An object that stays marked as failing is not served.
THEOREM ApiMark == Spec => []MarkedNeverServed
<1>1. IInv => MarkedNeverServed
  BY DEF IInv, RequestInv, AnswerFits, MarkedNeverServed
<1>2. QED BY <1>1, Invariance, PTL

\* A credential shows the damage that stays configured for its object.
THEOREM ApiBehavior == Spec => []BehaviorHonoured
<1>1. IInv => BehaviorHonoured
  BY DEF IInv, RequestInv, AnswerFits, BehaviorHonoured
<1>2. QED BY <1>1, Invariance, PTL

\* An admin kubeconfig is for a shoot that existed during the request.
THEOREM ApiGhost == Spec => []NoKubeconfigForGhost
<1>1. IInv => NoKubeconfigForGhost
  BY DEF IInv, RequestInv, AnswerFits, NoKubeconfigForGhost
<1>2. QED BY <1>1, Invariance, PTL

\* An error that stays certain for the whole of a request is not escaped.
THEOREM ApiCertainty == Spec => []CertainErrorsStrike
<1>1. IInv => CertainErrorsStrike
  BY DEF IInv, RequestInv, AnswerFits, CertainErrorsStrike
<1>2. QED BY <1>1, Invariance, PTL

\* A disabled configuration owes nothing to anybody.
LEMMA DisabledOwesNothing ==
    ASSUME NEW c, ~ c.enabled, NEW q
    PROVE  /\ \A a : ~ Restricts(c, a)
           /\ ~ IsMarked(c, q)
           /\ BehaviorOf(c, q) = ""
           /\ \A rate : ~ MayInject(c, rate)
           /\ ~ MayBreakConnection(c)
           /\ ~ MayBeInvalid(c, q)
           /\ ~ MayBeExpired(c, q)
  BY DEF Restricts, IsMarked, FailsShoot, FailsServiceAccount, BehaviorOf,
         ShootBehavior, ServiceAccountBehavior, MayInject, MayBreakConnection,
         MayBeInvalid, MayBeExpired

\* While injection stays disabled nothing is refused, broken or damaged.
THEOREM ApiQuiet == Spec => []DisabledInjectsNothing
<1>1. ASSUME IInv, NEW r \in Requests, Done(r),
             \A w \in seen[r] : ~ w.injector.config.enabled
      PROVE  /\ reply[r].cause \in {"store", "body", "issue"}
             /\ reply[r].credential # "invalid"
             /\ reply[r].credential = "valid" => reply[r].expiry # HourAgo
  <2> DEFINE a == reply[r]
             q == req[r]
  <2>1. /\ AnswerExplained(seen[r], q, a)
        /\ a \in Reply
        /\ a.cause # "none"
        /\ q \in Arrivals
    BY <1>1 DEF IInv, TypeOK, RequestInv, AnswerFits, Done
  <2>2. PICK w \in seen[r] : WorldExplains(w, q, a)
    BY <2>1 DEF AnswerExplained
  <2>3. ~ w.injector.config.enabled
    BY <1>1
  <2>4. a.cause \in Causes
    BY <2>1 DEF Reply
  <2>5. a.cause \in {"store", "body", "issue"}
    BY <2>1, <2>2, <2>3, <2>4, DisabledOwesNothing
       DEF WorldExplains, OperationExplained, Causes
  <2>6. a.credential # "invalid"
    BY <1>1, <2>1, DisabledOwesNothing DEF AnswerExplained
  <2>7. ASSUME a.credential = "valid" PROVE a.expiry # HourAgo
    <3>1. ExpiryExplained(seen[r], q, a.expiry)
      BY <2>1, <2>7 DEF AnswerExplained
    <3>2. \A v \in seen[r] : ~ MayBeExpired(v.injector.config, q)
      BY <1>1, DisabledOwesNothing
    <3>3. Asked(q) # HourAgo
      BY <2>1, ApiAssumption DEF Request, Asked, HourAgo
    <3>4. a.expiry \in Int
      BY <2>1 DEF Reply
    <3>5. \A ttl \in Int : ttl > 0 => ttl # HourAgo
      BY DEF HourAgo
    <3>6. QED BY <3>1, <3>2, <3>3, <3>4, <3>5 DEF ExpiryExplained
  <2>8. QED BY <2>5, <2>6, <2>7
<1>2. IInv => DisabledInjectsNothing
  BY <1>1 DEF DisabledInjectsNothing, Quiet
<1>3. QED BY <1>2, Invariance, PTL
----------------------------------------------------------------------------
(* The handlers implement the contract of ErrorSimulator.                   *)

\* A question either passes or ends in an answer, and changes nothing else
\* that a client could see.
LEMMA StepShape ==
    ASSUME NEW r \in Requests, Step(r)
    PROVE  /\ InFlight(r) /\ Local
           /\ Continue(r) \/ \E a : Respond(r, a) /\ a.cause # "none"
<1>1. ASSUME NEW cause, NEW code, cause # "none"
      PROVE  Answer(cause, code).cause # "none"
  BY <1>1 DEF Answer
<1>2. ASSUME NEW cause, NEW credential, NEW expiry, cause # "none"
      PROVE  Credential(cause, credential, expiry).cause # "none"
  BY <1>2 DEF Credential
<1>3. CASE CheckRestricted(r) \/ CheckFailing(r)
  BY <1>1, <1>3 DEF CheckRestricted, CheckFailing, Asks
<1>4. CASE CheckOperation(r) \/ CheckConnection(r)
  BY <1>1, <1>4 DEF CheckOperation, CheckConnection, Asks
<1>5. CASE ReadBehavior(r) \/ CheckTokenExpired(r) \/ ReadBody(r)
  BY <1>1, <1>5 DEF ReadBehavior, CheckTokenExpired, ReadBody, Asks
<1>6. CASE ReadStore(r) \/ ReadShortTTL(r)
  BY <1>1, <1>6 DEF ReadStore, ReadShortTTL, Asks
<1>7. CASE CheckInvalid(r)
  BY <1>2, <1>7 DEF CheckInvalid, Asks
<1>8. CASE CheckExpired(r)
  BY <1>1, <1>2, <1>8 DEF CheckExpired, Asks
<1>9. CASE Issue(r)
  BY <1>1, <1>2, <1>9 DEF Issue, Asks
<1>10. QED BY <1>3, <1>4, <1>5, <1>6, <1>7, <1>8, <1>9 DEF Step

\* The initial states are those of the contract.
LEMMA ContractInit == Init => Contract!Init
<1> SUFFICES ASSUME Init PROVE Contract!Init
  OBVIOUS
<1>1. Phase = [r \in Requests |-> "idle"]
  BY DEF Init, Phase
<1>2. QED BY <1>1 DEF Init, Contract!Init

\* Who waits for an answer lives in the present world.
LEMMA LivesNow ==
    ASSUME IInv, NEW r \in Requests, Phase[r] = "asked"
    PROVE  World \in seen[r]
<1>1. InFlight(r)
  BY DEF Phase, InFlight, IInv, TypeOK
<1>2. QED BY <1>1 DEF IInv, RequestInv, UnderWay

\* A question that passes is no step of the contract, one that ends in an
\* answer is its answer.
LEMMA StepKeepsContract ==
    ASSUME IInv, IInv', NEW r \in Requests, Step(r)
    PROVE  UNCHANGED Contract!vars \/ Contract!Answer(r)
<1>1. /\ InFlight(r) /\ Local
      /\ Continue(r) \/ \E a : Respond(r, a) /\ a.cause # "none"
  BY StepShape
<1>2. /\ req' = req /\ seen' = seen /\ World' = World
      /\ at \in [Requests -> Nat] /\ reply \in [Requests -> Reply]
      /\ seen \in [Requests -> SUBSET Worlds]
  BY <1>1, LocalFrame DEF IInv, TypeOK
<1>3. /\ at[r] # 0 /\ ~ Done(r) /\ Phase[r] = "asked"
  BY <1>1, <1>2 DEF InFlight, Phase
<1>4. CASE Continue(r)
  <2>1. at' = [at EXCEPT ![r] = @ + 1] /\ reply' = reply
    BY <1>4 DEF Continue
  <2>2. \A q \in Requests : at'[q] = 0 <=> at[q] = 0
    BY <1>2, <1>3, <2>1
  <2>3. Phase' = Phase
    BY <2>1, <2>2 DEF Phase, Done
  <2>4. QED BY <1>2, <2>1, <2>3 DEF Contract!vars
<1>5. ASSUME NEW a, Respond(r, a), a.cause # "none" PROVE Contract!Answer(r)
  <2>1. reply' = [reply EXCEPT ![r] = a] /\ at' = at
    BY <1>5 DEF Respond
  <2>2. reply'[r] = a /\ Done(r)'
    BY <1>2, <1>5, <2>1 DEF Done
  <2>3. Phase' = [Phase EXCEPT ![r] = "answered"]
    BY <1>2, <1>3, <2>1, <2>2 DEF Phase, Done
  <2>4. Contract!Live
    BY <1>2, LivesNow DEF Contract!Live
  <2>5. AnswerFits(seen'[r], req[r], reply'[r])
    BY <1>2, <2>2 DEF IInv, RequestInv
  <2>6. QED BY <1>2, <1>3, <2>1, <2>2, <2>3, <2>4, <2>5 DEF Contract!Answer
<1>6. QED BY <1>1, <1>4, <1>5

\* A request that arrives is asked, and a management step is a change of the
\* world.
LEMMA OthersKeepContract ==
    ASSUME IInv
    PROVE  /\ \A r \in Requests : Arrive(r) => Contract!Ask(r)
           /\ Manage => Contract!Change
<1>1. ASSUME NEW r \in Requests, Arrive(r) PROVE Contract!Ask(r)
  <2>1. /\ at[r] = 0 /\ at' = [at EXCEPT ![r] = 1]
        /\ seen' = [seen EXCEPT ![r] = {World}]
        /\ UNCHANGED <<managementVars, req, reply>>
        /\ at \in [Requests -> Nat] /\ ~ Done(r)
    BY <1>1 DEF Arrive, IInv, TypeOK, RequestInv
  <2>2. World' = World
    BY <2>1 DEF managementVars, World
  <2>3. Phase[r] = "idle" /\ Phase' = [Phase EXCEPT ![r] = "asked"]
    <3>1. at'[r] = 1 /\ \A q \in Requests : q # r => at'[q] = at[q]
      BY <2>1
    <3>2. /\ reply[r].cause = "none" /\ reply' = reply
          /\ Phase = [q \in Requests |->
                         IF at[q] = 0 THEN "idle"
                         ELSE IF reply[q].cause # "none" THEN "answered"
                                                         ELSE "asked"]
          /\ Phase' = [q \in Requests |->
                          IF at'[q] = 0 THEN "idle"
                          ELSE IF reply[q].cause # "none" THEN "answered"
                                                          ELSE "asked"]
      BY <2>1 DEF Phase, Done
    <3>3. \A q \in Requests :
             Phase'[q] = IF q = r THEN "asked" ELSE Phase[q]
      BY <3>1, <3>2
    <3>4. QED BY <2>1, <3>2, <3>3
  <2>4. QED BY <2>1, <2>2, <2>3 DEF Contract!Ask
<1>2. ASSUME Manage PROVE Contract!Change
  <2>1. UNCHANGED <<req, at, reply>> /\ Observe
    BY <1>2 DEF Manage, requestVars
  <2>2. Phase' = Phase
    BY <2>1 DEF Phase, Done
  <2>3. \A q \in Requests : Phase[q] = "asked" <=> InFlight(q)
    BY DEF Phase, InFlight, IInv, TypeOK
  <2>4. Contract!Live
    BY <2>1, <2>3 DEF Observe, Contract!Live
  <2>5. QED BY <2>1, <2>2, <2>4 DEF Contract!Change
<1>3. QED BY <1>1, <1>2

\* The stand-alone API implements the contract: a request is answered once,
\* the answer is never taken back, and the worlds of its time allow it.
THEOREM ApiKeepsContract == Spec => KeepsContract
<1>1. IInv /\ IInv' /\ [Next]_vars => [Contract!Next]_(Contract!vars)
  <2> SUFFICES ASSUME IInv, IInv', [Next]_vars
               PROVE  Contract!Next \/ UNCHANGED Contract!vars
    OBVIOUS
  <2>1. ASSUME NEW r \in Requests, Arrive(r) \/ Step(r)
        PROVE  Contract!Next \/ UNCHANGED Contract!vars
    BY <2>1, StepKeepsContract, OthersKeepContract DEF Contract!Next
  <2>2. CASE Manage
    BY <2>2, OthersKeepContract DEF Contract!Next
  <2>3. CASE UNCHANGED vars
    BY <2>3 DEF vars, managementVars, requestVars, World, Phase, Done,
                Contract!vars
  <2>4. QED BY <2>1, <2>2, <2>3 DEF Next
<1>2. QED
  BY <1>1, ContractInit, Invariance, PTL DEF Spec, KeepsContract, Contract!Spec
=============================================================================
