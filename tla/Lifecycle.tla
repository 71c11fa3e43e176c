----------------------------- MODULE Lifecycle -----------------------------
(***************************************************************************)
(* The life of the simulator process: main runs Server.Start, which brings  *)
(* up the envtest control plane, seeds it and blocks in the proxy; a        *)
(* goroutine of main turns the first SIGINT or SIGTERM into Server.Stop and *)
(* os.Exit; each HTTP server has a goroutine that shuts it down once stopCh *)
(* is closed.  The process ends as soon as ANY of them ends it.             *)
(***************************************************************************)
EXTENDS Naturals, Sequences

CONSTANTS
    Configs,        \* the config.Projects the process may be started with
    MaxConns        \* bound: requests a server handles at a time

\* Names are numbers, and 0 is a name left empty in the configuration file.
Empty == 0

\* config.ProjectConfig.
Project == [name : Nat, namespace : Nat, shoots : Seq(Nat)]

ASSUME LifecycleAssumption ==
    /\ Configs \subseteq Seq(Project)
    /\ MaxConns \in Nat

\* generateDefaultConfig, for the flags -projects and -shoots.
DefaultConfig(numProjects, numShoots) ==
    [p \in 1 .. numProjects |->
        [name |-> p, namespace |-> p, shoots |-> [s \in 1 .. numShoots |-> s]]]

\* createInitialResources falls back to one project of ten shoots.
Projects(c) == IF c = <<>> THEN DefaultConfig(1, 10) ELSE c

\* What it creates for a project, in order.
Items(project) ==
    <<<<"namespace", project.namespace>>, <<"project", project.name>>>>
    \o [s \in DOMAIN project.shoots |->
           <<"shoot", project.namespace, project.shoots[s]>>]

Configured(c) ==
    UNION {{Items(Projects(c)[p])[i] : i \in DOMAIN Items(Projects(c)[p])} :
              p \in DOMAIN Projects(c)}

Servers == {"proxy", "management"}

VARIABLES
    config,     \* the projects configured
    main,       \* where main is
    item,       \* the object createInitialResources creates next
    testEnv,    \* s.testEnv is set
    cp,         \* the control plane (etcd and the API server): "down" or "up"
    objects,    \* what the API server holds
    server,     \* per server: where its ListenAndServe is
    waiter,     \* per server: the goroutine that waits for stopCh
    conns,      \* per server: requests in flight
    sigChan,    \* signals buffered, at most one
    sig,        \* where the signal goroutine is
    closed,     \* stopCh is closed
    stop,       \* history: what testEnv.Stop came upon
    exit        \* who ended the process, and its status

mainVars == <<main, item, testEnv>>
serverVars == <<server, waiter, conns>>
signalVars == <<sigChan, sig, closed, stop>>
vars == <<config, mainVars, cp, objects, serverVars, signalVars, exit>>

MainStages == {"boot", "starting", "installing", "client", "seeding", "certs",
               "startProxy", "proxying"}

Running == exit.by = "nobody"

Init ==
    /\ config \in Configs
    /\ main = "boot"
    /\ item = [project |-> 1, index |-> 1]
    /\ testEnv = FALSE
    /\ cp = "down"
    /\ objects = {}
    /\ server = [s \in Servers |-> "none"]
    /\ waiter = [s \in Servers |-> "none"]
    /\ conns = [s \in Servers |-> 0]
    /\ sigChan = 0
    /\ sig = "waiting"
    /\ closed = FALSE
    /\ stop = [during |-> "boot", failed |-> FALSE]
    /\ exit = [by |-> "nobody", status |-> 0]

TypeOK ==
    /\ config \in Configs
    /\ main \in MainStages
    /\ item \in [project : 1 .. Len(Projects(config)) + 1, index : Nat]
    /\ IF item.project \in DOMAIN Projects(config)
       THEN item.index \in DOMAIN Items(Projects(config)[item.project])
       ELSE item.index = 1
    /\ testEnv \in BOOLEAN
    /\ cp \in {"down", "up"}
    /\ objects \subseteq Configured(config)
    /\ server \in [Servers -> {"none", "ready", "listening", "closed",
                               "refused"}]
    /\ waiter \in [Servers -> {"none", "waiting", "draining", "done"}]
    /\ conns \in [Servers -> 0 .. MaxConns]
    /\ sigChan \in 0 .. 1
    /\ sig \in {"waiting", "called", "check", "stopping", "stopped"}
    /\ closed \in BOOLEAN
    /\ stop \in [during : MainStages, failed : BOOLEAN]
    /\ exit \in [by : {"nobody", "main", "signal"}, status : 0 .. 1]

----------------------------------------------------------------------------
(* main and Server.Start *)

Exit(by, status) == exit' = [by |-> by, status |-> status]

\* An error of Start reaches log.Fatalf, which runs no deferred function and
\* never calls Stop.
Fatal ==
    /\ Exit("main", 1)
    /\ UNCHANGED <<config, mainVars, cp, objects, serverVars, signalVars>>

Proceed(there) ==
    /\ main' = there
    /\ UNCHANGED <<config, objects, serverVars, signalVars, exit>>

\* Register the types and set s.testEnv, without a lock ...
CreateEnvironment ==
    /\ main = "boot"
    /\ \/ testEnv' = TRUE /\ Proceed("starting") /\ UNCHANGED <<item, cp>>
       \/ Fatal

\* ... then testEnv.Start: the control plane comes up, or is given up on ...
StartControlPlane ==
    /\ main = "starting"
    /\ \/ cp' = "up" /\ Proceed("installing") /\ UNCHANGED <<item, testEnv>>
       \/ Fatal

\* ... and gets the CRDs; a failure here leaves it running.
InstallCRDs ==
    /\ main = "installing"
    /\ \/ cp = "up" /\ Proceed("client") /\ UNCHANGED <<item, testEnv, cp>>
       \/ Fatal

NewClient ==
    /\ main = "client"
    /\ \/ Proceed("seeding") /\ UNCHANGED <<item, testEnv, cp>>
       \/ Fatal

\* The API server refuses an empty name, an object it holds already and an
\* object in a namespace it does not hold.
Admits(o) ==
    /\ cp = "up"
    /\ o \notin objects
    /\ o[2] # Empty
    /\ o[1] = "shoot" => <<"namespace", o[2]>> \in objects

\* Mutant: the loop over the shoots runs once more.
NextItem_OffByOne(project) ==
    IF item.index <= Len(Items(project))
    THEN [item EXCEPT !.index = @ + 1]
    ELSE [project |-> item.project + 1, index |-> 1]

NextItem(project) ==
    IF item.index < Len(Items(project))
    THEN [item EXCEPT !.index = @ + 1]
    ELSE [project |-> item.project + 1, index |-> 1]

\* Mutant: an object that cannot be created is logged and skipped.
CreateObject_LogAndContinue ==
    /\ main = "seeding"
    /\ item.project <= Len(Projects(config))
    /\ LET project == Projects(config)[item.project]
           o       == Items(project)[item.index]
       IN  /\ \/ Admits(o) /\ objects' = objects \cup {o}
              \/ UNCHANGED objects
           /\ item' = NextItem(project)
    /\ UNCHANGED <<config, main, testEnv, cp, serverVars, signalVars, exit>>

\* One Create of createInitialResources; the first error ends Start.
CreateObject ==
    /\ main = "seeding"
    /\ item.project <= Len(Projects(config))
    /\ LET project == Projects(config)[item.project]
           o       == Items(project)[item.index]
       IN  \/ /\ Admits(o)
              /\ objects' = objects \cup {o}
              /\ item' = NextItem(project)
              /\ UNCHANGED <<config, main, testEnv, cp, serverVars,
                             signalVars, exit>>
           \/ Fatal

FinishSeeding ==
    /\ main = "seeding"
    /\ item.project > Len(Projects(config))
    /\ Proceed("certs") /\ UNCHANGED <<item, testEnv, cp>>

\* generateCertificates; a kubeconfig that cannot be written is only logged.
PrepareCertificates ==
    /\ main = "certs"
    /\ \/ Proceed("startProxy") /\ UNCHANGED <<item, testEnv, cp>>
       \/ Fatal

\* startProxy: start the management goroutine and the proxy's waiter.
StartProxy ==
    /\ main = "startProxy"
    /\ main' = "proxying"
    /\ server' = [server EXCEPT !["proxy"] = "ready"]
    /\ waiter' = [waiter EXCEPT !["proxy"] = "waiting"]
    /\ UNCHANGED <<config, item, testEnv, cp, objects, conns, signalVars, exit>>

\* startManagementAPI, in its own goroutine.
StartManagementAPI ==
    /\ main = "proxying"
    /\ server["management"] = "none"
    /\ server' = [server EXCEPT !["management"] = "ready"]
    /\ waiter' = [waiter EXCEPT !["management"] = "waiting"]
    /\ UNCHANGED <<config, mainVars, cp, objects, conns, signalVars, exit>>

----------------------------------------------------------------------------
(* The HTTP servers (net/http) and their waiters *)

InShutdown(s) == waiter[s] \in {"draining", "done"}

SetServer(s, state) ==
    /\ server' = [server EXCEPT ![s] = state]
    /\ UNCHANGED <<config, mainVars, cp, objects, waiter, conns, signalVars,
                   exit>>

\* ListenAndServe binds the port, unless Shutdown was called before.
Listen(s) ==
    /\ server[s] = "ready"
    /\ SetServer(s, IF InShutdown(s) THEN "closed" ELSE "listening")

\* Mutant: a port that is taken ends the process.
PortTaken_Fatal(s) ==
    /\ server[s] = "ready" /\ ~ InShutdown(s)
    /\ Fatal

\* A port that is taken is only logged.
PortTaken(s) ==
    /\ server[s] = "ready" /\ ~ InShutdown(s)
    /\ SetServer(s, "refused")

\* Shutdown makes ListenAndServe return at once ...
ServeReturns(s) ==
    /\ server[s] = "listening" /\ InShutdown(s)
    /\ SetServer(s, "closed")

\* ... while Shutdown itself waits for the requests in flight, with no
\* deadline: its context is context.Background().
Shutdown(s) ==
    /\ \/ waiter[s] = "waiting" /\ closed
          /\ waiter' = [waiter EXCEPT ![s] = "draining"]
       \/ waiter[s] = "draining" /\ conns[s] = 0
          /\ waiter' = [waiter EXCEPT ![s] = "done"]
    /\ UNCHANGED <<config, mainVars, cp, objects, server, conns, signalVars,
                   exit>>

Accept(s) ==
    /\ server[s] = "listening" /\ ~ InShutdown(s)
    /\ conns[s] < MaxConns
    /\ conns' = [conns EXCEPT ![s] = @ + 1]
    /\ UNCHANGED <<config, mainVars, cp, objects, server, waiter, signalVars,
                   exit>>

FinishRequest(s) ==
    /\ conns[s] > 0
    /\ conns' = [conns EXCEPT ![s] = @ - 1]
    /\ UNCHANGED <<config, mainVars, cp, objects, server, waiter, signalVars,
                   exit>>

\* The proxy's ListenAndServeTLS has returned: so does startProxy, Start
\* returns nil, and main returns, which ends the process.
MainReturns ==
    /\ main = "proxying"
    /\ server["proxy"] \in {"closed", "refused"}
    /\ Exit("main", 0)
    /\ UNCHANGED <<config, mainVars, cp, objects, serverVars, signalVars>>

----------------------------------------------------------------------------
(* The signal goroutine and Server.Stop *)

MoveSignal(there) ==
    /\ sig' = there
    /\ UNCHANGED <<config, mainVars, objects, serverVars, exit>>

\* signal.Notify drops what does not fit into sigChan.
Signal ==
    /\ sigChan = 0
    /\ sigChan' = 1
    /\ UNCHANGED <<config, mainVars, cp, objects, serverVars, sig, closed,
                   stop, exit>>

TakeSignal ==
    /\ sig = "waiting" /\ sigChan = 1
    /\ sigChan' = 0
    /\ MoveSignal("called") /\ UNCHANGED <<cp, closed, stop>>

\* Mutant: Stop leaves stopCh open.
CloseStopCh_Missing ==
    /\ sig = "called"
    /\ MoveSignal("check") /\ UNCHANGED <<cp, sigChan, closed, stop>>

CloseStopCh ==
    /\ sig = "called"
    /\ closed' = TRUE
    /\ MoveSignal("check") /\ UNCHANGED <<cp, sigChan, stop>>

\* Mutant: Stop tests s.client, which Start sets later than s.testEnv.
StopEnvironment_TestsClient ==
    /\ sig = "check"
    /\ MoveSignal(IF main \notin {"boot", "starting", "installing", "client"}
                  THEN "stopping" ELSE "stopped")
    /\ stop' = [stop EXCEPT !.during = main]
    /\ UNCHANGED <<cp, sigChan, closed>>

\* s.testEnv is read without a lock.
StopEnvironment ==
    /\ sig = "check"
    /\ MoveSignal(IF testEnv THEN "stopping" ELSE "stopped")
    /\ stop' = [stop EXCEPT !.during = main]
    /\ UNCHANGED <<cp, sigChan, closed>>

\* testEnv.Stop takes down what is up; a failure is only logged.
TestEnvStop ==
    /\ sig = "stopping"
    /\ \E failed \in BOOLEAN :
          /\ cp' = IF failed THEN cp ELSE "down"
          /\ stop' = [during |-> main, failed |-> failed]
    /\ MoveSignal("stopped") /\ UNCHANGED <<sigChan, closed>>

OsExit ==
    /\ sig = "stopped"
    /\ Exit("signal", 0)
    /\ UNCHANGED <<config, mainVars, cp, objects, serverVars, signalVars>>

----------------------------------------------------------------------------

MainStep ==
    /\ Running
    /\ \/ CreateEnvironment \/ StartControlPlane \/ InstallCRDs \/ NewClient
       \/ CreateObject \/ FinishSeeding \/ PrepareCertificates
       \/ StartProxy \/ MainReturns

ServerStep(s) == Running /\ (Listen(s) \/ PortTaken(s) \/ ServeReturns(s))

WaiterStep(s) == Running /\ Shutdown(s)

ManagementStep == Running /\ StartManagementAPI

SignalStep ==
    Running /\ (TakeSignal \/ CloseStopCh \/ StopEnvironment \/ OsExit)

\* What others do: clients, whoever sends signals, and the control plane.
Environment ==
    /\ Running
    /\ \/ Signal
       \/ TestEnvStop
       \/ \E s \in Servers : Accept(s) \/ FinishRequest(s)

Ended == ~ Running /\ UNCHANGED vars

Next ==
    \/ MainStep \/ ManagementStep \/ SignalStep
    \/ \E s \in Servers : ServerStep(s) \/ WaiterStep(s)
    \/ Environment
    \/ Ended

Spec == Init /\ [][Next]_vars

\* Goroutines that can run do run, and the calls of Start return (testEnv.Start
\* gives up after 120 seconds).  Nothing is assumed of testEnv.Stop, of the
\* clients or of how long a request takes.
Fairness ==
    /\ WF_vars(MainStep) /\ WF_vars(SignalStep)
    /\ \A s \in Servers : WF_vars(ServerStep(s)) /\ WF_vars(WaiterStep(s))

FairSpec == Spec /\ Fairness

----------------------------------------------------------------------------
(* Properties *)

\* No request reaches the proxy or the management API of a simulator that is
\* only partly seeded: a port is open only once every configured namespace,
\* project and shoot has been created.
SeededBeforeServing ==
    \A s \in Servers :
        server[s] = "listening" => Configured(config) \subseteq objects

\* The process leaves with status 1 only before a port was opened, and main
\* returns with status 0 only because of Stop or of a proxy port that is
\* taken: neither the management API nor a request in flight ends it.
ExitExplained ==
    /\ exit.by = "main" /\ exit.status = 1 =>
          \A s \in Servers : server[s] = "none"
    /\ exit.by = "main" /\ exit.status = 0 =>
          closed \/ server["proxy"] = "refused"

\* When the signal goroutine is the one that ends the process, the control
\* plane is left running only if testEnv.Stop failed or came before
\* testEnv.Start had brought it up.
SignalStopsControlPlane ==
    exit.by = "signal" /\ cp = "up" =>
        stop.failed \/ stop.during \in {"boot", "starting"}

\* A signal ends the process, however far Start has come, even if
\* testEnv.Stop or a request in flight never returns.
SignalEndsProcess == (sigChan = 1) ~> ~ Running

----------------------------------------------------------------------------
(* The inductive invariant behind the safety properties. *)

\* Every object before the one that comes next has been created.
Seeded ==
    \A p \in DOMAIN Projects(config) :
        \A i \in DOMAIN Items(Projects(config)[p]) :
            p < item.project \/ (p = item.project /\ i < item.index)
                => Items(Projects(config)[p])[i] \in objects

\* No port is opened before seeding is over.
SeedInv ==
    /\ Seeded
    /\ main \in {"certs", "startProxy", "proxying"} =>
          item.project > Len(Projects(config))
    /\ \A s \in Servers : server[s] # "none" => main = "proxying"

\* A server shuts down because of Stop.
ExitInv ==
    /\ \A s \in Servers : InShutdown(s) => closed
    /\ \A s \in Servers : server[s] = "closed" => InShutdown(s)
    /\ ExitExplained

\* What testEnv.Stop has left up, it failed to stop or came too early for.
StopInv ==
    /\ ~ testEnv => main = "boot"
    /\ sig = "stopped" =>
          \/ stop.failed
          \/ stop.during \in {"boot", "starting"}
          \/ cp = "down" /\ main \notin {"boot", "starting"}
    /\ exit.by = "signal" => sig = "stopped"

IInv == TypeOK /\ SeedInv /\ ExitInv /\ StopInv

----------------------------------------------------------------------------
(* What a comment says and the code does not do. *)

\* "Handle graceful shutdown" (main.go): when a signal has shut the proxy down
\* and the process ends for that reason, the control plane has been stopped.
GracefulShutdown ==
    closed /\ server["proxy"] = "closed" /\ exit.by = "main" => cp = "down"
============================================================================
