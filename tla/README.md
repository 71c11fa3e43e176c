# A verification project for gardener-simulator

gardener-simulator pretends to be a Gardener API server. Clients (backup
operators, controllers) talk to it as to the real thing, and a management port
makes it misbehave on demand: HTTP errors, broken connections, credentials that
are expired, malformed or short-lived, service accounts that lose their rights.
This directory holds TLA+ modules that model it, TLC configurations that check
them, and TLAPS proofs.

## 1. Inventory

The repository holds two generations of the program that share only the types.

**The running program** is `main.go` and `pkg/envtest/server.go`.

| component | state | operations | hard behaviour |
|---|---|---|---|
| process life: `main`, `Server.Start/Stop`, two HTTP servers | `testEnv`, `stopCh`, signal channel, listeners, the control plane's processes | start the control plane, seed it, serve, stop | three goroutines that can end the process; startup that fails half way; a signal at any moment |
| error configuration (`ErrorConfig`) | 21 fields under a RWMutex, four of them maps | 16 writing management handlers, four reading ones | partial overwrites, unvalidated rates and codes, a map whose reference leaves the lock |
| request path of the proxy | per request: copies of the configuration | injection middleware, restriction middleware, token and adminkubeconfig handlers, reverse proxy | up to four locked sections per request and work on stale copies in between; 30-second sleeps |
| texts: kubeconfigs, JWTs, certificates | files in a temporary directory | formatting | none |

The proxy and the management API run one goroutine per request. They share the
error configuration (one RWMutex) and, through the API server, the objects.
`main` and the signal goroutine share `stopCh` (a channel that is only closed)
and, without a lock, `testEnv`.

**The stand-alone API** is `pkg/handlers`, `pkg/errors`, `pkg/store` and
`pkg/kubeconfig`. `main` does not use it: `NewHandler`, `NewManagementHandler` and
`NewInjector` are called by its own tests only. It is modelled all the same, as
the part of the repository whose locking and sharing are the most intricate.

| component | state | operations | hard behaviour |
|---|---|---|---|
| shoot store | maps of shoots and projects under a RWMutex | load, add, delete, set status, list, get | live pointers and shared arrays used after the lock is released |
| injector | 17 fields under a RWMutex, eight of them maps | should-inject tests, per-object failures, latency, setters | sleeps while it holds the read lock; two generations of rates, one hiding the other |
| API handlers | none of their own | list, get, adminkubeconfig, token, projects, namespaces | up to nine questions per request, each under a lock of its own |
| management handlers | `currentConfig`, and the injector's copy | configure, enable, disable, per-object settings | two copies of one configuration, one of them a pointer no mutex guards |
| kubeconfig generator | none | formatting | none |

What makes each component correct:

* *process*: nothing is served before the landscape is complete; every exit has
  a reason; a signal ends the process; what was started is stopped.
* *error configuration*: whatever is sent, the stored values keep their types.
* *request path*: an answer follows from one configuration the request lived
  through; a restriction or a per-object failure that holds throughout is not
  bypassed; disabled means quiet; credentials only for shoots that exist; every
  request is answered.
* *store*: an answer encoded after the lock shows one moment; the status read is
  the status configured or set (the configured one is not: section 6).
* *injector*: no caller sees half of an update; latency, slept with the read
  lock held, starves nobody.
* *API and management handlers*: an answer is owed to configurations of the
  request's time; a mark, a restriction or a behaviour that lasts is honoured;
  the configuration shown is the one in force (it need not be: section 6).

## 2. Modules

| module | models | composes |
|---|---|---|
| `Draws` | the random draws compared with rates | |
| `NetHttp` | what net/http makes of a status code | |
| `ErrorConfig` | type `ErrorConfig` and the handlers that write it | extends `Draws` |
| `EnvtestProxy` | the request path against management calls and API objects | extends `ErrorConfig`, `NetHttp` |
| `Lifecycle` | `main`, `Start`, `Stop`, the servers' life | |
| `ShootStore` | `pkg/store` and the get and list calls of `pkg/handlers` | |
| `InjectorFields` | the fields of `Injector`, and which of them a method touches | |
| `AtomicInjector` | what the injector promises: one atomic register of settings | extends `InjectorFields` |
| `RWMutex` | Go's `sync.RWMutex` | |
| `InjectorLock` | the injector's methods, field by field under the mutex | instantiates `RWMutex`; implements `AtomicInjector` |
| `Injector` | what the injector's methods answer and assign | extends `Draws`, `NetHttp` |
| `ManagementApi` | `pkg/handlers/management.go` | extends `Injector` |
| `StandaloneApi` | `pkg/handlers/handlers.go` | extends `ManagementApi` |
| `ErrorSimulator` | what both HTTP servers promise a client: one answer, allowed by the worlds of its time | implemented by `EnvtestProxy` and by `StandaloneApi` |
| `MC*` | instances for TLC | |
| `DrawsProofs`, `ErrorConfigProofs`, `EnvtestProxyProofs`, `LifecycleProofs`, `ShootStoreProofs`, `InjectorLockProofs`, `ManagementApiProofs`, `StandaloneApiProofs` | TLAPS proofs | each extends the module it is about |

### Draws

The code compares `mrand.Float64()`, a number of [0,1), with rates. A rate is a
number of parts out of `Scale`, a draw one of `0 .. Scale-1`: rate 0 never hits,
rate `Scale` always does, others may do either. In the state machines a draw is a
nondeterministic choice: which outcomes are possible. How likely they are is a
matter of counting, since draws are equally likely: the share of an outcome is the
number of draws, out of `Scale`, that lead to it (`DrawsProofs`, for every
`Scale`, hence for rates as finely divided as one likes). The cumulative draws
(`server.go:487`, `:549`) use the first running sum above the draw, spelled out
because nothing rejects a negative rate on `POST /management/errors`.

### ErrorConfig

`config` is the struct, `Handle...` are the handlers, each an atomic step since
each takes the write lock once. An absent key of a per-object map reads as the
zero value, which no handler stores, so maps are total functions. The map of
restricted accounts is different: the middleware keeps its *reference* after
`RUnlock` (`server.go:628`). `restrictedMaps` is the sequence of all maps ever
allocated; `POST .../restricted` writes into the last one, `DELETE
.../restricted-serviceaccounts` allocates another. A management call that
changes nothing, is refused (bad JSON, wrong method, invalid rate) or only reads
is a stuttering step.

### EnvtestProxy

Per request: `pc` (where its goroutine is), `req`, `snap` (the last copy of the
configuration), `ref` (the captured map), `reply`. Every locked section is an
action, and so is every piece of work between two of them: `SnapshotRates`, the
connection errors, the cumulative draw, `CaptureRestricted`, the unlocked
`CheckEmpty` (`len` of a map that may be written, a data race modelled as reading
the length before or after), `LookupRestricted`, `SnapshotHandler`, the
per-object failure, the token-expired and operation draws, the body, the
existence check and the issue of a credential. Requests that no handler takes
are forwarded to `ApiServer`, which is external: it keeps a set of shoots.
`Manage` interleaves any management call between any two of these steps.

`seen[r]` is a history variable: the set of worlds (configuration, restricted
accounts, existing shoots) that were current at some moment between `r`'s
arrival and its answer. The properties compare an answer with these worlds,
which is what a client could have observed.

Abstracted: paths and JSON (a request is a record; whether `shootsProjectsPattern`
matches is a function of its kind), the text of credentials (`valid` or
`invalid`, and an expiry in seconds from now), messages. Lifetimes are unbounded
integers.

### Lifecycle

`main` walks through `Start`; `item` is the loop position of
`createInitialResources`; `cp` is the external control plane; `server[s]`,
`waiter[s]` and `conns[s]` are an HTTP server, the goroutine that waits for
`stopCh` to shut it down, and its requests in flight; `sig` is the signal
goroutine. `exit` records who ended the process. Every step of `Start` may fail;
`Create` is refused for an object that exists, an empty name or a missing
namespace, or fails for no reason of its own.

### ShootStore

`store` is the heap behind the maps: shoots and arrays of conditions are
allocated objects referred to by index, because the question is what a reader
shares with a writer after the lock is released. `LoadFromConfig` is one locked
section; its two loops are taken apart (`LoadProject`, `LoadShoot`, `at` says how
far they are) and nothing else happens while they run. `GetShoot` returns a
pointer that the handler encodes later; `ListShoots` returns copies that share
their arrays. A status written while a shoot is being encoded is a data race; the
encoder may then produce a mixture or panic, which the model leaves open.
`createShoot` gives every shoot the conditions of a healthy one, whatever status
it is configured with; `wanted` records what was asked for, by the configuration
or by `UpdateShootStatus`, and `updated` for which shoots it was the latter.

### InjectorLock and AtomicInjector

A field is abstracted to whether it is set, a method to the fields it touches in
the order of its body (`InjectorFields`). `InjectorLock` has a goroutine per
caller, which calls method after method for ever: `EnterReader`/`QueueWriter` is
the call of `RLock`/`Lock`, `EnterWriter` the moment the lock is got, `ReadField`
and `WriteField` touch one field each, `LeaveReader`/`LeaveWriter` unlock. `After`
holds the early returns: disabled injection ends a reading method at once, a
simple rate hides the legacy one. `Sleep` is the latency slept with the read lock
held (`injector.go:475`), `napping` the operation latency slept without it.
`RWMutex` follows the documentation of Go's lock: a waiting writer stops new
readers, and its `Unlock` lets the blocked ones in.

`AtomicInjector` is the promise: a register that a call reads or writes in one
instant between invocation and return. The refinement mapping puts this instant
where a writer gets the lock and where a reader reads its last field.
`settingsBar` is what the fields will be once the writer that holds the lock has
assigned the rest, `phaseBar` and `answerBar` say whether a call has passed its
instant and what it has read by then.

### Injector, ManagementApi, StandaloneApi

With atomicity settled, `Injector` gives each method as an operator on one
record: the configuration, and beside it the simple rates, codes and spellings
of `POST /errors`. `NewInjector` drops the per-object maps of the configuration
file and `UpdateConfig` leaves the simple rates alone, as the code does. A draw
that selects nothing falls to 500 (`injector.go:605`). Absent keys are the value
`Absent`, because a key with code 0 is a mark and an absent key is not.

`ManagementApi` has one action per handler. Most call the injector or the store
once and are one step. `POST /errors`, `enable` and `disable` also touch
`currentConfig`, a pointer without a mutex: publishing the body, reading its
flag, loading the pointer and setting the flag behind it are steps of their own
(`mpc`, `object`, `flag` per goroutine), so that calls overlap. `objects` are the
bodies ever decoded. Normalising keys (`getshoot`, `get_shoot`) follows Go's
random map order: which spelling's value stays is left open. A bad body, a
negative lifetime and an unknown behaviour are refused where the code refuses
them. `Shown` is what `GET /errors` and `GET /status` encode: the object behind
`currentConfig`, never the injector's own settings. Three histories say how far it
can be trusted: `alone` (the calls no other has overlapped), `flagTold` and
`ratesTold` (the flag, or the simple rates, were last set by a call that told
`currentConfig` as well and was not overlapped).

`StandaloneApi` has, per request, the number of its next question (`at`) in the
list its handler asks (`Checks`: restriction, mark, random error, behaviour,
store, draws, short lifetime, issue), one step per question, because each takes
the lock anew. `word` and `lifetime` are what a handler carries from one question
to a later one. `seen` is the history of worlds (settings, shoots) as in
`EnvtestProxy`. Projects and namespaces are read without consequence, so their
content is not kept; `project` stands for a project that exists or does not.

### ErrorSimulator

The abstract simulator has a `world` that may change at any time and, per request,
what is `asked`, the worlds `lived` through, and a `phase`: idle, asked, answered.
`Answer` gives the one answer a request gets, and it is one the worlds lived
through allow; serving a request may itself change the world. The three
parameters say what a world is, what may be asked and what is `Allowed`.

`EnvtestProxy` and `StandaloneApi` instantiate it (`Contract`) with their own
`World`, `Phase` and notion of what worlds allow (`MayAnswer`, `AnswerFits`): the
conjunction of their statements about single answers. Implementing it says more
than these: that no later handler of the chain answers again or takes an
answer back, that what is asked and what was answered stays, that a request is
taken up and answered once, and that the history `seen` is what it claims to be,
the worlds current between arrival and answer, no fewer and no more.

## 3. What TLC checks

| run | question | bounds |
|---|---|---|
| `proxy_restricted` | can a restricted account slip past the unlocked test and the captured map; can a kubeconfig be issued for a shoot that is gone; is each request answered once and as its worlds allow? | two concurrent requests (symmetric) that read, create, delete or ask a kubeconfig, three management calls that restrict, clear and toggle; 848,140 states |
| `proxy_injection` | does an injected error follow from one configuration; does every request end? | one request, four changes, two bodies (one with a negative rate), two connection bodies, rates from -1 to 2 of 2; 66,485 states |
| `proxy_handlers` | do credentials and failures follow from one configuration? | one request of three kinds, three changes, two bodies (an operation rate of 1 of 2 with one type, and a certain one), codes 404, 42 (panics) and 100 (informational), lifetimes 0 and 60 |
| `lifecycle_process` | is startup complete before serving; does a signal end the process? | no project, two projects, two sharing a namespace, an empty namespace; one request per server; 38,982 states |
| `store_reads` | what may a reader see after the lock? | one reader, three writes, two configurations, two namespaces, two names; 235,849 states |
| `injector_lock` | is the injector atomic; can calls wait in a circle; does every call return? | three goroutines, five methods (two that sleep, one that draws, the two big updates), from all settings off or on; 76,210 states |
| `api_requests` | what may the stand-alone API answer; within which limits does `GET /errors` tell the truth? | one request of each of eight kinds, two managers (symmetric), two management calls of any kind, rates 1 and 2 of 2, two connection bodies; 454,601 states |
| `proxy_disabled`, `proxy_selected`, `lifecycle_graceful`, `store_namespaces`, `status_shown` | statements of the documentation the code does not keep (section 6) | the smallest instance that shows it |

One request is enough where requests share nothing but the configuration, which
only management calls write: a second adds no behaviour the first can observe. It
does for shoots behind the proxy, where requests write what others read, hence
two in `proxy_restricted`: one may create and delete between the existence check
and the issue of the other. `Scale = 2` gives a rate that never hits, one that
may and one that always does. Two management calls change a setting and change
it back, or overlap in `currentConfig`; the third of `proxy_restricted` toggles
injection in between. Three goroutines are what starvation takes: two readers
that overlap in their sleeps without a gap, and the writer they would keep out.
The proofs need none of these bounds. Runs whose clients or changes are bounded
stop when these are used up, hence `CHECK_DEADLOCK FALSE`; `Lifecycle` and
`InjectorLock` keep the deadlock check, `Lifecycle` with an explicit `Ended` step.

### Properties

*ReplyExplained* — every answer follows from one configuration current during the
request, never from a mix of two; an answer that names a code or a cause has a
positive rate, a mark or a restriction behind it, and so has the credential that
comes out damaged. *CertainErrorsStrike* — the other direction: a request that
lives through certain faults only, be it a different one at each moment, is
neither let through nor given a usable credential, for rates of any sign (a rate
of 1 behind a negative one is not certain, and the property says so).
*RestrictedNeverAdmitted* — an account restricted throughout, with injection
enabled throughout, does not reach shoots and projects.
*FailingObjectNeverServed*, *DisabledIsQuiet*, *NoKubeconfigForGhost* — the same
for per-object failures, the enabled flag and the existence of the shoot.
*EveryRequestAnswered* — liveness. *SeededBeforeServing*, *ExitExplained*,
*SignalStopsControlPlane*, *SignalEndsProcess* — the process. *ListIsSnapshot*,
*GetDisturbedOnlyByUpdate*, *StatusReadBack* — the store. *SharedLeftAlone* — an
action property: no step writes into an array of conditions that has been
published, or to a shoot that has been deleted or replaced, which readers may
still hold. *LockInv* — who is inside which part of a method holds the mutex that
way, and what a reader has read is still so. *NoCircularWait* — whoever waits for
the mutex waits for calls that can go on, or for an update that waits for such.
*ImplementsAtomicInjector* — the refinement. *EveryCallReturns* — updates get
through overlapping sleepers and requests through an unending stream of updates.
*StatusTellsTruth* — what is left of the promise that `GET /errors` shows the
configuration in force. The flag: once no call is under way, if the last of the
calls that set it was a `POST`, `enable` or `disable` that no other overlapped; so
not after a start with injection enabled, not after a `PUT`, not after an overlap.
The rates: while no `POST` is under way, and unless the last was overlapped, each
*simple* rate the injector draws at is one that is shown for the operation, with
its code. A legacy rate (from a `PUT` or the start) is shown nowhere; of an
operation drawn at one the property says only that the body shown gives it no rate
or, in some spelling, one that is not above zero. *ShowsCurrentConfig* states the
promise without these limits, and is violated. *StatusReadBack* is likewise limited
to shoots whose status a call has set: a configured one is not read back (section 6).
*RestrictedNeverReads*, *MarkedNeverServed*, *BehaviorHonoured*,
*DisabledInjectsNothing* — what holds of a setting that stays as it is from a
request's arrival to its answer; *ReplyExplained*, *CertainErrorsStrike* and
*NoKubeconfigForGhost* as for the proxy. *KeepsContract* (both) — the refinement
of `ErrorSimulator`. What the stand-alone API does not promise shows in their
wording: adminkubeconfig never asks for the restriction, and the short lifetime
applies even while injection is disabled. Each property has a mutant in
PROJECT.json: a plausible bug that violates it.

### Fairness

`EnvtestProxy!FairSpec` is weakly fair to each request's steps: the Go scheduler
runs a goroutine that can run, locks are held for assignments only, and the
injected sleep ends. Clients and management calls owe nothing.
`Lifecycle!FairSpec` is weakly fair to `main`, the signal goroutine, the servers
and their waiters; `testEnv.Start` is counted as returning because it has a
timeout of 120 seconds. Nothing is assumed of `testEnv.Stop` or of requests in
flight, so `SignalEndsProcess` says that neither can keep the process alive.
`InjectorLock!FairSpec` is weakly fair to each goroutine's steps (the scheduler,
and sleeps end) and strongly fair to `QueueWriter`: writers compete for the inner
`sync.Mutex`, whose starvation mode hands it to whoever has waited longest.
Nobody owes another call: `Invoke` has no fairness.

## 4. What TLAPS proves

`ErrorConfigProofs` shows that every management call keeps the types of the
configuration. `EnvtestProxyProofs` proves, for all constants that satisfy the
named assumptions (`ScaleAssumption`, `ConfigAssumption`, `ProxyAssumption`: rates
and lifetimes are integers, 0 among them, codes are not 0):

* `TypeCorrect`: `Spec => []TypeOK`
* `Invariance`: `Spec => []IInv`
* `EveryReplyExplained`, `RestrictionHolds`, `GhostsGetNothing`,
  `FailingGetsNothing`, `QuietWhenDisabled`: `Spec =>` always the property
* `CertaintyStrikes`: the same for `CertainErrorsStrike`
* `ProxyKeepsContract`: `Spec => KeepsContract`, the refinement of `ErrorSimulator`
* `DrawnRateIsPositive`, `SelectedCodeIsConfigured`: a cumulative draw selects only
  a type whose rate is positive, and the code of an operation error belongs to
  such a type or is the 429 of the remainder, negative rates included
* `DrawnShare`, `SelectionShare`: how many draws each type and each code gets

The argument. None of the properties is inductive: they speak of finished
requests and say nothing of the copy a request is working on. `IInv` adds, per
stage: the present world is among the worlds seen (`World \in seen[r]`); the copy
in `snap` was the configuration at some moment seen (`SnapSeen`); the captured map
has the content the field had at some moment seen (`RefSeen`); and what earlier
guards established (`StageFits`: no per-object failure in the copy, the shoot
existed, ...). `RefSeen` is the delicate one: the captured map is either still
the field's map, so its content is the present one and is in `seen`, or it was
replaced, and then nobody writes it any more. The proof has a lemma for a
request that answers (`RespondInv`), one for a request that moves on
(`MoveInv`), one for a step that changes the world (`WorldChange`), one per answer
that shows it explained by the copy it was computed from, and one per action.
`CertaintyStrikes` rests on the same: a stage that lets a request past shows that
the copy it drew from was not certain to stop it, and that copy was a world seen.

For the refinement, initial states map to initial states (`ContractInit`), a step
that answers maps to `Answer` (`StepKeepsContract`: `AnswerShape` says that it
leaves every other request alone, `IInv'` that the answer is one `MayAnswer`
allows, `FitsMayAnswer` how), a step that takes a request up maps to `Ask`, and any
other, management calls included, to `Change` or a stutter (`OthersKeepContract`).

**Shares.** `DrawsProofs` counts draws. `IndependentShare`: a rate drawn on its
own is hit by as many draws as it has parts. For a cumulative draw, sums that grow
and stay within `Scale` (`Growing`) cut the draws into intervals (`PartShare`,
`RestShare`), each as wide as its rate; that the running sums of three, six or
seven rates which are not negative and total at most 1 do grow is proved one
length at a time (`ThreeSums`, `SixSums`, `SevenSums`), for want of induction.
From these follow `DrawnShare` (the six types of the middleware get exactly their
rates, whatever stands before them in the order), `ConnectionShare` and
`TypeShare` of the injector (500 gets its rate and all that the seven leave), and
`SelectionShare`: `selectAdminKubeconfigErrorType` gives 500 and 504 their rates
and 429 all the rest, which is the quantity behind the finding of `proxy_selected`
and shows how far `README.md:250` ("proportionally") is true. The hypotheses
(`Shareable`, `TypesShareable`) are what a user of the documentation would
configure; nothing in the code enforces them, which is why `DrawnRateIsPositive`
and the invariants do without.

**The process.** `LifecycleProofs` proves `LifecycleTypes`, `SeedingBeforeServing`,
`EveryExitExplained` and `SignalStopsEnvironment` for every list of projects and
any number of requests. The invariant adds to the properties why they hold:
`Seeded` (every object before the loop's position exists, which survives the step
from one project to the next because a project's list of objects is never
empty), a server that has left its initial stage implies that `main` is in the
proxy, a server shuts down only once `stopCh` is closed, and `testEnv` is unset
only before anything could have been brought up.

**The store.** `ShootStoreProofs` proves `StoreTypes`, `ListShowsOneMoment`,
`GetDisturbed`, `StatusIsReadBack` and the action property `SharedIsLeftAlone`,
for any configuration and any number of concurrent calls. The heart is `Grows`:
shoots and arrays stay where they are and an array keeps what it holds, whatever
is written. Hence the arrays a list refers to are those of its lookup, and a
pointer leads to the same array unless `MarkRaced` says otherwise (`UnderWay`).
`StatusIsTold` shows that reading a status inverts writing it, `StatusInv` that
each shoot's array is the one written for the status a call set last, or the
healthy one of `createShoot` while no call has set any; so `StatusIsReadBack` is
about statuses set by `UpdateShootStatus` only.

**The injector.** `InjectorLockProofs` proves `LockInvariant`, for any number of
goroutines and any calls made of the methods' field lists, and from it
`NoDeadlock` (`NoCircularWait`) and
`InjectorIsAtomic`: initial states map to initial states and each step to a step of
the register or a stutter. A writer's steps after it has the lock leave
`settingsBar` as it is, because what it assigns is already counted; a reader's
last field is read while `GotFits` says all the earlier ones are still current.

**The stand-alone API.** `ManagementApiProofs` shows that management calls keep
the types and `StatusInv`; `StandaloneApiProofs` proves the type invariant, all
the safety properties of `api_requests` (`ApiCertainty` for `CertainErrorsStrike`)
and the refinement `ApiKeepsContract`, which goes as for the proxy.
`ApiStatusTruth` is `StatusTellsTruth` with its limits, for any number of managers
and calls. `StatusInv` adds what a call that nothing overlaps may rely on at each
of its steps (`AloneInv`); `AppliedIsShown` that what a `POST` applies is what its
body shows, in whatever order Go walks the maps; `ShownBySimpleMaps` that a `PUT`
does not disturb this, since a simple rate above zero hides the legacy one.
`RequestInv` says that some world of the request has let it past each
question it has got past (`LetsPast`); it is kept because `seen` only grows, and
it needs the order in which each handler asks: the mark comes before the
credential (`MarkFirst`), the restriction before everything (`RestrictionFirst`).

Model-checked only: the three liveness properties (`EveryRequestAnswered`,
`SignalEndsProcess`, `EveryCallReturns`), since fairness speaks of `ENABLED`,
which the prover does not reason about, and the statements the code does not
keep (section 6), which are false. `NoDeadlock` is the part of `EveryCallReturns`
that is a state's property: there is always somebody who can go on. Constants are
assumed to be what the named assumptions say (`ScaleAssumption`, `ConfigAssumption`,
`ProxyAssumption`, `LifecycleAssumption`, `StoreAssumption`, `CallsAssumption`,
`NoWriterAssumption`, `InjectorAssumption`, `ManagementAssumption`,
`ApiAssumption`); TLC evaluates each of them on the instances.

## 5. Not modelled

* The kubeconfig generator, certificates and the text of kubeconfigs and tokens:
  formatting and library calls without state. That they may fail is modelled.
  So the one expiry of a reply is its timestamp: that an "expired" kubeconfig of
  the stand-alone API holds a certificate that is still valid (`handlers.go:247`)
  is outside the model.
* CRDs, Helm chart, manifests, build files: declarations. The types beyond
  projects and shoots, and YAML decoding.
* The 64-bit product of seconds and nanoseconds in lifetimes: integers are
  unbounded here.
* Reading endpoints (`GET /errors`, `/status`, `/healthz`, discovery documents)
  change nothing; what `GET /errors` shows is the subject of `StatusTellsTruth` and
  `ShowsCurrentConfig`.
* Sequences of draws: each draw is a choice of its own, so nothing is said of how
  several come out together, nor of the generator behind `mrand`. Latencies delay
  and decide nothing; they matter in `InjectorLock` only.
  `MaybeInjectOperationLatency` is modelled although no handler calls it.
* `StandaloneApi` keeps the set of shoots and not their content; the pointers and
  arrays behind it are the subject of `ShootStore`.

Of the README's endpoints `POST /management/shoots`, `DELETE` and `PUT .../status`
are not served by the running program; they are handlers of the stand-alone API.

## 6. Findings

* **Disabled still injects.** `server.go:487`: the HTTP error draw stands after the
  `if enabled` block, so disabling injection does not stop 401, 403, 404, 500, 504
  and 429 answers (`README.md:521`, comment at `server.go:440`).
* **429 that nobody configured.** `server.go:572`: the remainder of the selecting
  draw falls to 429 although only another type has a rate (`README.md:250`).
* **Shutdown is not graceful.** `server.go:165`: closing `stopCh` lets `main` return
  and end the process while `testEnv.Stop` is still at work (comment at
  `main.go:55`).
* **Empty namespaces are listed.** `store.go:284`: a namespace stays listed after
  its last shoot is gone (comment at `store.go:279`).
* **`GET /errors` does not show what is in force**, against the comment at
  `management.go:208` and `README.md:524` ("Check current configuration"). The run
  shows a `PUT` (`management.go:180`), which enables injection and leaves the flag
  shown at off. The same property fails for a start with injection enabled
  (`management.go:44`); without any `PUT`, when calls overlap and one stays in
  `currentConfig` and the other in the injector, for good (`management.go:195`);
  and for an operation the last `POST` does not name, which is drawn at the legacy
  rate of an earlier `PUT` (`injector.go:513`).

Two more disagreements are plain from the code, and the properties next to them are
worded so as not to deny them:

* A configured status is not told. `store.go:79`: every shoot is loaded with the
  conditions of a healthy one, so a shoot configured as Progressing, Unhealthy or
  Hibernated (`examples/config.yaml:54`, `types.go:46`) is told Healthy until its
  status is set by a call; `StatusReadBack` speaks of set statuses only.
* A failing shoot is served. `server.go:705`: the mark is read by the
  adminkubeconfig handler only, so a `GET` of the shoot is answered ("Make a specific
  shoot always fail", `README.md:466`); `FailingObjectNeverServed` speaks of
  credentials only.

## 7. What could come next

* An arithmetic model of lifetimes modulo 2^64 and where they wrap.
* An abstract specification of the process (down, starting, serving, stopped)
  that `Lifecycle` implements, and in it the control plane that a failed `Start`
  leaves behind (`main.go:69`).
* The running program with `Lifecycle` and `EnvtestProxy` composed: requests that
  the end of the process cuts off.
