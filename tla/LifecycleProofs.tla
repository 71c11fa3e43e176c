-------------------------- MODULE LifecycleProofs --------------------------
(***************************************************************************)
(* Proofs about Lifecycle: whatever the configuration, no port is open      *)
(* before seeding is over, every end of the process has its reason, and the *)
(* control plane is not forgotten.                                          *)
(***************************************************************************)
EXTENDS Lifecycle, SequenceTheorems, TLAPS

\* Where a step of main, of its goroutines or of the environment can lead.
LEMMA NextCases ==
    ASSUME Next
    PROVE  /\ Running \/ UNCHANGED vars
           /\ \/ MainStep \/ ManagementStep \/ SignalStep
              \/ \E s \in Servers : ServerStep(s) \/ WaiterStep(s)
              \/ Environment
              \/ UNCHANGED vars
  BY DEF Next, MainStep, ManagementStep, SignalStep, ServerStep, WaiterStep,
         Environment, Ended

----------------------------------------------------------------------------
(* The objects to create. *)

\* There is always a project to create.
LEMMA ProjectsTyping ==
    ASSUME NEW c \in Seq(Project)
    PROVE  /\ Projects(c) \in Seq(Project)
           /\ Len(Projects(c)) > 0
<1>1. CASE c = <<>>
  <2> DEFINE ten == [s \in 1 .. 10 |-> s]
  <2>1. ten \in Seq(Nat)
    OBVIOUS
  <2>2. Projects(c) = [p \in 1 .. 1 |->
                         [name |-> p, namespace |-> p, shoots |-> ten]]
    BY <1>1 DEF Projects, DefaultConfig
  <2> HIDE DEF ten
  <2>3. QED BY <2>1, <2>2 DEF Project
<1>2. CASE c # <<>>
  BY <1>2 DEF Projects
<1>3. QED BY <1>1, <1>2

\* What is created for a project is a sequence that is not empty.
LEMMA ItemsTyping ==
    ASSUME NEW project \in Project
    PROVE  /\ Len(Items(project)) \in Nat \ {0}
           /\ DOMAIN Items(project) = 1 .. Len(Items(project))
<1> DEFINE head == <<<<"namespace", project.namespace>>,
                     <<"project", project.name>>>>
           tail == [s \in DOMAIN project.shoots |->
                      <<"shoot", project.namespace, project.shoots[s]>>]
           Object == {head[1], head[2]}
                     \cup {tail[s] : s \in DOMAIN project.shoots}
<1>1. head \in Seq(Object) /\ Len(head) = 2
  OBVIOUS
<1>2. project.shoots \in Seq(Nat)
  BY DEF Project
<1>3. tail \in Seq(Object)
  BY <1>2
<1>4. Items(project) = head \o tail
  BY DEF Items
<1> HIDE DEF head, tail, Object
<1>5. Items(project) \in Seq(Object)
      /\ Len(Items(project)) = Len(head) + Len(tail)
  BY <1>1, <1>3, <1>4, ConcatProperties
<1>6. Len(tail) \in Nat
  BY <1>3
<1>7. QED BY <1>1, <1>5, <1>6

\* The project and the object that come next, when they exist.
LEMMA NextItemTyping ==
    ASSUME TypeOK, item.project <= Len(Projects(config))
    PROVE  LET project == Projects(config)[item.project]
           IN  /\ item.project \in DOMAIN Projects(config)
               /\ item.index \in DOMAIN Items(project)
               /\ Items(project)[item.index] \in Configured(config)
               /\ Len(Items(project)) \in Nat \ {0}
               /\ DOMAIN Items(project) = 1 .. Len(Items(project))
<1>1. config \in Seq(Project)
  BY LifecycleAssumption DEF TypeOK
<1>2. Projects(config) \in Seq(Project)
  BY <1>1, ProjectsTyping
<1>3. item.project \in DOMAIN Projects(config)
  BY <1>2 DEF TypeOK
<1>4. Projects(config)[item.project] \in Project
  BY <1>2, <1>3
<1>5. item.index \in DOMAIN Items(Projects(config)[item.project])
  BY <1>3 DEF TypeOK
<1>6. Items(Projects(config)[item.project])[item.index] \in Configured(config)
  BY <1>3, <1>5 DEF Configured
<1>7. QED BY <1>3, <1>4, <1>5, <1>6, ItemsTyping

\* Seeding has a place in the list of projects, or is over.
LEMMA ItemProject ==
    ASSUME TypeOK
    PROVE  /\ Len(Projects(config)) \in Nat \ {0}
           /\ DOMAIN Projects(config) = 1 .. Len(Projects(config))
           /\ item.project \in Nat
<1>1. config \in Seq(Project)
  BY LifecycleAssumption DEF TypeOK
<1>2. QED BY <1>1, ProjectsTyping DEF TypeOK

----------------------------------------------------------------------------
(* The type invariant. *)

\* What the type invariant says of where createInitialResources is.
ItemOK ==
    /\ item \in [project : 1 .. Len(Projects(config)) + 1, index : Nat]
    /\ IF item.project \in DOMAIN Projects(config)
       THEN item.index \in DOMAIN Items(Projects(config)[item.project])
       ELSE item.index = 1
    /\ objects \subseteq Configured(config)

\* CreateObject moves on to the next object, and creates a configured one.
LEMMA CreateObjectItem ==
    ASSUME TypeOK, CreateObject
    PROVE  ItemOK'
<1> DEFINE project == Projects(config)[item.project]
           o       == Items(project)[item.index]
<1>1. CASE Fatal
  BY <1>1 DEF Fatal, mainVars, TypeOK, ItemOK, Projects
<1>2. ASSUME objects' = objects \cup {o}, item' = NextItem(project),
             config' = config
      PROVE  ItemOK'
  <2>1. item.project <= Len(Projects(config))
    BY DEF CreateObject
  <2>2. /\ item.project \in DOMAIN Projects(config)
        /\ item.index \in DOMAIN Items(project)
        /\ o \in Configured(config)
        /\ Len(Items(project)) \in Nat \ {0}
        /\ DOMAIN Items(project) = 1 .. Len(Items(project))
    BY <2>1, NextItemTyping
  <2>3. objects' \subseteq Configured(config')
    BY <1>2, <2>2 DEF TypeOK
  <2> DEFINE inner == [item EXCEPT !.index = @ + 1]
             outer == [project |-> item.project + 1, index |-> 1]
  <2>4. CASE item.index < Len(Items(project))
    <3>1. item' = inner
      BY <1>2, <2>4 DEF NextItem
    <3>2. item'.project = item.project /\ item'.index = item.index + 1
      BY <3>1 DEF TypeOK
    <3>3. item'.index \in DOMAIN Items(project)
      BY <2>2, <2>4, <3>2 DEF TypeOK
    <3>4. item' \in [project : 1 .. Len(Projects(config)) + 1, index : Nat]
      BY <3>1 DEF TypeOK
    <3>5. QED BY <1>2, <2>2, <2>3, <3>2, <3>3, <3>4 DEF ItemOK
  <2>5. CASE ~ item.index < Len(Items(project))
    <3>1. item' = outer
      BY <1>2, <2>5 DEF NextItem
    <3>2. outer \in [project : 1 .. Len(Projects(config)) + 1, index : Nat]
      BY <2>1, ItemProject
    <3>3. \A p \in DOMAIN Projects(config) :
             1 \in DOMAIN Items(Projects(config)[p])
      BY ProjectsTyping, ItemsTyping, LifecycleAssumption, ItemProject
         DEF TypeOK
    <3>4. QED BY <1>2, <2>3, <3>1, <3>2, <3>3 DEF ItemOK
  <2>6. QED BY <2>4, <2>5
<1>3. QED BY <1>1, <1>2 DEF CreateObject, ItemOK

\* Every step keeps the types.
LEMMA TypeStep ==
    ASSUME TypeOK, Next
    PROVE  TypeOK'
<1>1. ASSUME UNCHANGED vars
      PROVE  TypeOK'
  BY <1>1 DEF vars, mainVars, serverVars, signalVars, TypeOK, Projects
<1>2. ASSUME UNCHANGED <<config, item, objects>>
      PROVE  ItemOK'
  BY <1>2 DEF TypeOK, ItemOK
<1>3. ASSUME MainStep
      PROVE  TypeOK'
  <2> USE DEF mainVars, serverVars, signalVars, Proceed, Fatal, Exit,
              MainStages, Servers
  <2>1. CASE CreateEnvironment
    <3>1. CASE Fatal
      BY <1>2, <2>1, <3>1 DEF TypeOK, ItemOK
    <3>2. CASE testEnv' = TRUE /\ Proceed("starting") /\ UNCHANGED <<item, cp>>
      <4>1. testEnv' \in BOOLEAN
        BY <3>2, Zenon
      <4>2. QED BY <1>2, <3>2, <4>1 DEF TypeOK, ItemOK
    <3>3. QED BY <2>1, <3>1, <3>2 DEF CreateEnvironment
  <2>2. CASE StartControlPlane
    BY <1>2, <2>2 DEF StartControlPlane, TypeOK, ItemOK
  <2>3. CASE InstallCRDs
    BY <1>2, <2>3 DEF InstallCRDs, TypeOK, ItemOK
  <2>4. CASE NewClient
    BY <1>2, <2>4 DEF NewClient, TypeOK, ItemOK
  <2>5. CASE CreateObject
    BY <2>5, CreateObjectItem DEF CreateObject, TypeOK, ItemOK
  <2>6. CASE FinishSeeding
    BY <1>2, <2>6 DEF FinishSeeding, TypeOK, ItemOK
  <2>7. CASE PrepareCertificates
    BY <1>2, <2>7 DEF PrepareCertificates, TypeOK, ItemOK
  <2>8. CASE StartProxy
    BY <1>2, <2>8 DEF StartProxy, TypeOK, ItemOK
  <2>9. CASE MainReturns
    BY <1>2, <2>9 DEF MainReturns, TypeOK, ItemOK
  <2>10. QED BY <1>3, <2>1, <2>2, <2>3, <2>4, <2>5, <2>6, <2>7, <2>8, <2>9
             DEF MainStep
<1>4. CASE ManagementStep
  BY <1>2, <1>4 DEF ManagementStep, StartManagementAPI, mainVars, serverVars,
                    signalVars, TypeOK, ItemOK
<1>5. ASSUME SignalStep
      PROVE  TypeOK'
  <2> USE DEF mainVars, serverVars, signalVars, MoveSignal, Exit, MainStages
  <2>1. CASE TakeSignal
    BY <1>2, <2>1 DEF TakeSignal, TypeOK, ItemOK
  <2>2. CASE CloseStopCh
    BY <1>2, <2>2 DEF CloseStopCh, TypeOK, ItemOK
  <2>3. CASE StopEnvironment
    BY <1>2, <2>3 DEF StopEnvironment, TypeOK, ItemOK
  <2>4. CASE OsExit
    BY <1>2, <2>4 DEF OsExit, TypeOK, ItemOK
  <2>5. QED BY <1>5, <2>1, <2>2, <2>3, <2>4 DEF SignalStep
<1>6. ASSUME NEW s \in Servers, ServerStep(s) \/ WaiterStep(s)
      PROVE  TypeOK'
  <2> USE DEF mainVars, serverVars, signalVars, SetServer
  <2>1. CASE Listen(s)
    BY <1>2, <2>1 DEF Listen, TypeOK, ItemOK
  <2>2. CASE PortTaken(s)
    BY <1>2, <2>2 DEF PortTaken, TypeOK, ItemOK
  <2>3. CASE ServeReturns(s)
    BY <1>2, <2>3 DEF ServeReturns, TypeOK, ItemOK
  <2>4. CASE Shutdown(s)
    BY <1>2, <2>4 DEF Shutdown, TypeOK, ItemOK
  <2>5. QED BY <1>6, <2>1, <2>2, <2>3, <2>4 DEF ServerStep, WaiterStep
<1>7. ASSUME Environment
      PROVE  TypeOK'
  <2> USE DEF mainVars, serverVars, signalVars, MoveSignal
  <2>1. CASE Signal
    BY <1>2, <2>1 DEF Signal, TypeOK, ItemOK
  <2>2. CASE TestEnvStop
    BY <1>2, <2>2 DEF TestEnvStop, TypeOK, ItemOK
  <2>3. ASSUME NEW s \in Servers, Accept(s)
        PROVE  TypeOK'
    BY <1>2, <2>3, LifecycleAssumption DEF Accept, TypeOK, ItemOK
  <2>4. ASSUME NEW s \in Servers, FinishRequest(s)
        PROVE  TypeOK'
    BY <1>2, <2>4, LifecycleAssumption DEF FinishRequest, TypeOK, ItemOK
  <2>5. QED BY <1>7, <2>1, <2>2, <2>3, <2>4 DEF Environment
<1>8. QED BY <1>1, <1>3, <1>4, <1>5, <1>6, <1>7, NextCases

----------------------------------------------------------------------------
(* Seeding comes before serving. *)

\* An object that is created stays created, and the ones before the next one
\* include it.
LEMMA CreateObjectSeeded ==
    ASSUME TypeOK, Seeded, CreateObject
    PROVE  Seeded'
<1> DEFINE project == Projects(config)[item.project]
           o       == Items(project)[item.index]
<1>1. CASE Fatal
  BY <1>1 DEF Fatal, mainVars, Seeded, Projects
<1>2. ASSUME objects' = objects \cup {o}, item' = NextItem(project),
             config' = config
      PROVE  Seeded'
  <2>1. item.project <= Len(Projects(config))
    BY DEF CreateObject
  <2>2. /\ item.project \in DOMAIN Projects(config)
        /\ item.index \in DOMAIN Items(project)
        /\ Len(Items(project)) \in Nat \ {0}
        /\ DOMAIN Items(project) = 1 .. Len(Items(project))
    BY <2>1, NextItemTyping
  <2>3. item \in [project : Nat, index : Nat]
    BY ItemProject DEF TypeOK
  <2> SUFFICES ASSUME NEW p \in DOMAIN Projects(config),
                      NEW i \in DOMAIN Items(Projects(config)[p]),
                      \/ p < item'.project
                      \/ p = item'.project /\ i < item'.index
               PROVE  Items(Projects(config)[p])[i] \in objects'
    BY <1>2 DEF Seeded, Projects
  <2>4. p \in Nat
    BY ItemProject
  <2>5. CASE p = item.project
    <3>1. i \in 1 .. Len(Items(project))
      BY <2>2, <2>5
    <3>2. i <= item.index
      <4>1. CASE item.index < Len(Items(project))
        <5>1. item' = [item EXCEPT !.index = @ + 1]
          BY <1>2, <4>1 DEF NextItem
        <5>2. QED BY <2>3, <2>4, <2>5, <3>1, <5>1
      <4>2. CASE ~ item.index < Len(Items(project))
        BY <2>2, <2>3, <3>1, <4>2
      <4>3. QED BY <4>1, <4>2
    <3>3. CASE i = item.index
      BY <1>2, <2>5, <3>3
    <3>4. CASE i < item.index
      BY <1>2, <2>5, <3>4 DEF Seeded
    <3>5. QED BY <2>3, <3>1, <3>2, <3>3, <3>4
  <2>6. CASE p # item.project
    <3>1. p < item.project
      <4>1. CASE item.index < Len(Items(project))
        <5>1. item' = [item EXCEPT !.index = @ + 1]
          BY <1>2, <4>1 DEF NextItem
        <5>2. QED BY <2>3, <2>4, <2>6, <5>1
      <4>2. CASE ~ item.index < Len(Items(project))
        <5>1. item' = [project |-> item.project + 1, index |-> 1]
          BY <1>2, <4>2 DEF NextItem
        <5>2. \A q \in DOMAIN Projects(config) :
                 DOMAIN Items(Projects(config)[q])
                    = 1 .. Len(Items(Projects(config)[q]))
          BY ProjectsTyping, ItemsTyping, LifecycleAssumption, ItemProject
             DEF TypeOK
        <5>3. i \in Nat /\ i >= 1
          BY <5>2
        <5>4. ~ (i < item'.index)
          BY <5>1, <5>3
        <5>5. p < item.project + 1
          BY <5>1, <5>4
        <5>6. QED BY <2>3, <2>4, <2>6, <5>5
      <4>3. QED BY <4>1, <4>2
    <3>2. QED BY <1>2, <3>1 DEF Seeded
  <2>7. QED BY <2>5, <2>6
<1>3. QED BY <1>1, <1>2 DEF CreateObject

\* Every step keeps what has been created, and opens no port before seeding
\* is over.
LEMMA SeedStep ==
    ASSUME TypeOK, SeedInv, Next
    PROVE  SeedInv'
<1>1. ASSUME UNCHANGED <<config, item, objects, main, server>>
      PROVE  SeedInv'
  BY <1>1 DEF SeedInv, Seeded, Projects
<1>2. ASSUME UNCHANGED <<config, item, objects>>
      PROVE  Seeded'
  BY <1>2 DEF SeedInv, Seeded, Projects
<1>3. ASSUME MainStep
      PROVE  SeedInv'
  <2>1. CASE Fatal \/ MainReturns
    BY <1>1, <2>1 DEF Fatal, MainReturns, mainVars, serverVars
  <2>2. CASE CreateEnvironment /\ ~ Fatal
    BY <1>2, <2>2 DEF CreateEnvironment, Proceed, serverVars, SeedInv, Projects
  <2>3. CASE StartControlPlane /\ ~ Fatal
    BY <1>2, <2>3 DEF StartControlPlane, Proceed, serverVars, SeedInv, Projects
  <2>4. CASE InstallCRDs /\ ~ Fatal
    BY <1>2, <2>4 DEF InstallCRDs, Proceed, serverVars, SeedInv, Projects
  <2>5. CASE NewClient /\ ~ Fatal
    BY <1>2, <2>5 DEF NewClient, Proceed, serverVars, SeedInv, Projects
  <2>6. CASE CreateObject /\ ~ Fatal
    BY <2>6, CreateObjectSeeded DEF CreateObject, serverVars, SeedInv
  <2>7. CASE FinishSeeding
    BY <1>2, <2>7 DEF FinishSeeding, Proceed, serverVars, SeedInv, Projects
  <2>8. CASE PrepareCertificates /\ ~ Fatal
    BY <1>2, <2>8 DEF PrepareCertificates, Proceed, serverVars, SeedInv,
                      Projects
  <2>9. CASE StartProxy
    BY <1>2, <2>9 DEF StartProxy, SeedInv, Projects
  <2>10. QED BY <1>3, <2>1, <2>2, <2>3, <2>4, <2>5, <2>6, <2>7, <2>8, <2>9
             DEF MainStep
<1>4. ASSUME ManagementStep
      PROVE  SeedInv'
  BY <1>2, <1>4 DEF ManagementStep, StartManagementAPI, mainVars, SeedInv,
                    Projects
<1>5. ASSUME SignalStep
      PROVE  SeedInv'
  BY <1>1, <1>5 DEF SignalStep, TakeSignal, CloseStopCh, StopEnvironment,
                    OsExit, MoveSignal, mainVars, serverVars
<1>6. ASSUME NEW s \in Servers, ServerStep(s) \/ WaiterStep(s)
      PROVE  SeedInv'
  <2>1. CASE Shutdown(s)
    BY <1>1, <2>1 DEF Shutdown, mainVars
  <2>2. ASSUME NEW state, SetServer(s, state), server[s] # "none"
        PROVE  SeedInv'
    BY <1>2, <2>2 DEF SetServer, mainVars, SeedInv, Projects, TypeOK
  <2>3. QED BY <1>6, <2>1, <2>2 DEF ServerStep, WaiterStep, Listen, PortTaken,
                                    ServeReturns
<1>7. ASSUME Environment
      PROVE  SeedInv'
  BY <1>1, <1>7 DEF Environment, Signal, TestEnvStop, Accept, FinishRequest,
                    MoveSignal, mainVars, serverVars
<1>8. CASE UNCHANGED vars
  BY <1>1, <1>8 DEF vars, mainVars, serverVars
<1>9. QED BY <1>3, <1>4, <1>5, <1>6, <1>7, <1>8, NextCases

----------------------------------------------------------------------------
(* Every end has its reason. *)

\* A server that shuts down does so because of Stop, and stays shut down.
LEMMA ShutdownStep ==
    ASSUME TypeOK, SeedInv, ExitInv, Next
    PROVE  /\ closed => closed'
           /\ \A s \in Servers : InShutdown(s)' => closed'
           /\ \A s \in Servers : server'[s] = "closed" => InShutdown(s)'
<1>1. ASSUME UNCHANGED <<server, waiter>>, closed => closed'
      PROVE  /\ closed => closed'
             /\ \A s \in Servers : InShutdown(s)' => closed'
             /\ \A s \in Servers : server'[s] = "closed" => InShutdown(s)'
  BY <1>1 DEF ExitInv, InShutdown
<1>2. ASSUME MainStep
      PROVE  /\ closed => closed'
             /\ \A s \in Servers : InShutdown(s)' => closed'
             /\ \A s \in Servers : server'[s] = "closed" => InShutdown(s)'
  <2>1. CASE StartProxy
    BY <2>1 DEF StartProxy, signalVars, TypeOK, SeedInv, ExitInv, InShutdown,
                Servers
  <2>2. CASE ~ StartProxy
    BY <1>1, <1>2, <2>2
       DEF MainStep, CreateEnvironment, StartControlPlane, InstallCRDs,
           NewClient, CreateObject, FinishSeeding, PrepareCertificates,
           MainReturns, Proceed, Fatal, serverVars, signalVars
  <2>3. QED BY <2>1, <2>2
<1>3. CASE ManagementStep
  BY <1>3 DEF ManagementStep, StartManagementAPI, signalVars, TypeOK, ExitInv,
              InShutdown, Servers
<1>4. CASE SignalStep
  BY <1>1, <1>4 DEF SignalStep, TakeSignal, CloseStopCh, StopEnvironment,
                    OsExit, MoveSignal, serverVars, signalVars
<1>5. ASSUME NEW s \in Servers, ServerStep(s) \/ WaiterStep(s)
      PROVE  /\ closed => closed'
             /\ \A t \in Servers : InShutdown(t)' => closed'
             /\ \A t \in Servers : server'[t] = "closed" => InShutdown(t)'
  <2>1. CASE Shutdown(s)
    BY <2>1 DEF Shutdown, signalVars, TypeOK, ExitInv, InShutdown
  <2>2. ASSUME NEW state, SetServer(s, state),
               state = "closed" => InShutdown(s)
        PROVE  /\ closed => closed'
               /\ \A t \in Servers : InShutdown(t)' => closed'
               /\ \A t \in Servers : server'[t] = "closed" => InShutdown(t)'
    BY <2>2 DEF SetServer, signalVars, TypeOK, ExitInv, InShutdown
  <2>3. CASE Listen(s)
    BY <2>2, <2>3 DEF Listen
  <2>4. CASE PortTaken(s)
    BY <2>2, <2>4 DEF PortTaken
  <2>5. CASE ServeReturns(s)
    BY <2>2, <2>5 DEF ServeReturns
  <2>6. QED BY <1>5, <2>1, <2>3, <2>4, <2>5 DEF ServerStep, WaiterStep
<1>6. CASE Environment
  BY <1>1, <1>6 DEF Environment, Signal, TestEnvStop, Accept, FinishRequest,
                    MoveSignal, serverVars, signalVars
<1>7. CASE UNCHANGED vars
  BY <1>1, <1>7 DEF vars, serverVars, signalVars
<1>8. QED BY <1>2, <1>3, <1>4, <1>5, <1>6, <1>7, NextCases

\* The step that ends the process.
LEMMA EndingStep ==
    ASSUME Next
    PROVE  \/ UNCHANGED exit /\ (Running \/ UNCHANGED vars)
           \/ Fatal /\ main \in MainStages \ {"proxying"}
           \/ MainReturns
           \/ OsExit
<1> USE DEF mainVars, serverVars, signalVars
<1>1. ASSUME MainStep, ~ Fatal, ~ MainReturns
      PROVE  UNCHANGED exit
  BY <1>1 DEF MainStep, CreateEnvironment, StartControlPlane, InstallCRDs,
              NewClient, CreateObject, FinishSeeding, PrepareCertificates,
              StartProxy, Proceed
<1>2. ASSUME MainStep, Fatal
      PROVE  main \in MainStages \ {"proxying"} \/ MainReturns
  BY <1>2 DEF MainStep, CreateEnvironment, StartControlPlane, InstallCRDs,
              NewClient, CreateObject, FinishSeeding, PrepareCertificates,
              StartProxy, MainStages
<1>3. ASSUME SignalStep, ~ OsExit
      PROVE  UNCHANGED exit
  BY <1>3 DEF SignalStep, TakeSignal, CloseStopCh, StopEnvironment, MoveSignal
<1>4. ManagementStep => UNCHANGED exit
  BY DEF ManagementStep, StartManagementAPI
<1>5. ASSUME NEW s \in Servers, ServerStep(s) \/ WaiterStep(s)
      PROVE  UNCHANGED exit
  BY <1>5 DEF ServerStep, WaiterStep, Listen, PortTaken, ServeReturns,
              Shutdown, SetServer
<1>6. ASSUME Environment
      PROVE  UNCHANGED exit
  BY <1>6 DEF Environment, Signal, TestEnvStop, Accept, FinishRequest,
              MoveSignal
<1>7. UNCHANGED vars => UNCHANGED exit
  BY DEF vars
<1>8. QED BY <1>1, <1>2, <1>3, <1>4, <1>5, <1>6, <1>7, NextCases

\* Every step keeps the reasons why the process may end.
LEMMA ExitStep ==
    ASSUME TypeOK, SeedInv, ExitInv, Next
    PROVE  ExitInv'
<1>1. ExitExplained'
  <2>1. CASE UNCHANGED exit /\ Running
    BY <2>1 DEF Running, ExitExplained
  <2>2. CASE UNCHANGED vars
    BY <2>2 DEF vars, serverVars, signalVars, ExitInv, ExitExplained
  <2>3. CASE Fatal /\ main \in MainStages \ {"proxying"}
    BY <2>3 DEF Fatal, Exit, serverVars, SeedInv, ExitExplained
  <2>4. CASE MainReturns
    BY <2>4 DEF MainReturns, Exit, serverVars, signalVars, ExitInv,
                ExitExplained, Servers
  <2>5. CASE OsExit
    BY <2>5 DEF OsExit, Exit, ExitExplained
  <2>6. QED BY <2>1, <2>2, <2>3, <2>4, <2>5, EndingStep
<1>2. QED BY <1>1, ShutdownStep DEF ExitInv

----------------------------------------------------------------------------
(* The control plane. *)

\* Every step keeps what testEnv.Stop has done, or why it has not.
LEMMA StopStep ==
    ASSUME TypeOK, StopInv, Next
    PROVE  StopInv'
<1> USE DEF mainVars, serverVars, signalVars
<1>1. ASSUME UNCHANGED <<main, testEnv, cp, sig, stop, exit>>
      PROVE  StopInv'
  BY <1>1 DEF StopInv
<1>2. ASSUME MainStep
      PROVE  StopInv'
  <2> USE DEF StopInv, Proceed, Running
  <2>1. CASE Fatal
    BY <1>2, <2>1 DEF Fatal, Exit
  <2>2. CASE CreateEnvironment /\ ~ Fatal
    BY <1>2, <2>2 DEF MainStep, CreateEnvironment
  <2>3. CASE StartControlPlane /\ ~ Fatal
    BY <1>2, <2>3 DEF MainStep, StartControlPlane
  <2>4. CASE InstallCRDs /\ ~ Fatal
    BY <1>2, <2>4 DEF MainStep, InstallCRDs
  <2>5. CASE NewClient /\ ~ Fatal
    BY <1>2, <2>5 DEF MainStep, NewClient
  <2>6. CASE CreateObject /\ ~ Fatal
    BY <1>1, <2>6 DEF CreateObject
  <2>7. CASE FinishSeeding
    BY <1>2, <2>7 DEF MainStep, FinishSeeding
  <2>8. CASE PrepareCertificates /\ ~ Fatal
    BY <1>2, <2>8 DEF MainStep, PrepareCertificates
  <2>9. CASE StartProxy
    BY <1>2, <2>9 DEF MainStep, StartProxy
  <2>10. CASE MainReturns
    BY <1>2, <2>10 DEF MainReturns, Exit
  <2>11. QED BY <1>2, <2>1, <2>2, <2>3, <2>4, <2>5, <2>6, <2>7, <2>8, <2>9,
                <2>10 DEF MainStep
<1>3. ASSUME ManagementStep
      PROVE  StopInv'
  BY <1>1, <1>3 DEF ManagementStep, StartManagementAPI
<1>4. ASSUME SignalStep
      PROVE  StopInv'
  <2> USE <1>4 DEF SignalStep, MoveSignal, Running, StopInv
  <2>1. CASE TakeSignal
    BY <2>1 DEF TakeSignal
  <2>2. CASE CloseStopCh
    BY <2>2 DEF CloseStopCh
  <2>3. CASE StopEnvironment
    BY <2>3 DEF StopEnvironment, TypeOK
  <2>4. CASE OsExit
    BY <2>4 DEF OsExit, Exit
  <2>5. QED BY <2>1, <2>2, <2>3, <2>4
<1>5. ASSUME NEW s \in Servers, ServerStep(s) \/ WaiterStep(s)
      PROVE  StopInv'
  BY <1>1, <1>5 DEF ServerStep, WaiterStep, Listen, PortTaken, ServeReturns,
                    Shutdown, SetServer
<1>6. ASSUME Environment
      PROVE  StopInv'
  <2>1. CASE TestEnvStop
    BY <1>6, <2>1 DEF Environment, TestEnvStop, MoveSignal, Running, StopInv,
                      TypeOK, MainStages
  <2>2. CASE ~ TestEnvStop
    BY <1>1, <1>6, <2>2 DEF Environment, Signal, Accept, FinishRequest
  <2>3. QED BY <2>1, <2>2
<1>7. CASE UNCHANGED vars
  BY <1>1, <1>7 DEF vars
<1>8. QED BY <1>2, <1>3, <1>4, <1>5, <1>6, <1>7, NextCases

----------------------------------------------------------------------------
(* The theorems. *)

\* The initial states are in the invariant.
LEMMA InitInv == Init => IInv
<1> SUFFICES ASSUME Init
             PROVE  IInv
  OBVIOUS
<1>1. Projects(config) \in Seq(Project) /\ Len(Projects(config)) > 0
  BY ProjectsTyping, LifecycleAssumption DEF Init
<1>2. 1 \in DOMAIN Projects(config)
  BY <1>1
<1>3. 1 \in DOMAIN Items(Projects(config)[1])
  BY <1>1, <1>2, ItemsTyping
<1>4. item.project = 1 /\ item.index = 1
  BY DEF Init
<1>5. TypeOK
  <2>1. item \in [project : 1 .. Len(Projects(config)) + 1, index : Nat]
    BY <1>1 DEF Init
  <2>2. item.project \in DOMAIN Projects(config)
        /\ item.index \in DOMAIN Items(Projects(config)[item.project])
    BY <1>2, <1>3, <1>4
  <2>3. conns \in [Servers -> 0 .. MaxConns]
    BY LifecycleAssumption DEF Init
  <2>4. /\ testEnv \in BOOLEAN /\ closed \in BOOLEAN
        /\ stop \in [during : MainStages, failed : BOOLEAN]
    BY DEF Init, MainStages
  <2>5. /\ server \in [Servers -> {"none", "ready", "listening", "closed",
                                   "refused"}]
        /\ waiter \in [Servers -> {"none", "waiting", "draining", "done"}]
        /\ exit \in [by : {"nobody", "main", "signal"}, status : 0 .. 1]
    BY DEF Init
  <2>6. QED BY <2>1, <2>2, <2>3, <2>4, <2>5 DEF Init, TypeOK, MainStages
<1>6. Seeded
  <2> SUFFICES ASSUME NEW p \in DOMAIN Projects(config),
                      NEW i \in DOMAIN Items(Projects(config)[p])
               PROVE  ~ (p < 1 \/ (p = 1 /\ i < 1))
    BY <1>4 DEF Seeded
  <2>1. p \in Nat /\ p >= 1
    BY <1>1
  <2>2. i \in Nat /\ i >= 1
    BY <1>1, ItemsTyping
  <2>3. QED BY <2>1, <2>2
<1>7. QED BY <1>5, <1>6 DEF Init, IInv, SeedInv, ExitInv, StopInv, InShutdown,
                            ExitExplained

\* The conjuncts of the invariant hold in every state of every run, for every
\* list of projects and any number of requests.
THEOREM Invariance == Spec => []IInv
<1>1. IInv /\ [Next]_vars => IInv'
  <2> SUFFICES ASSUME IInv, [Next]_vars
               PROVE  IInv'
    OBVIOUS
  <2>1. CASE Next
    BY <2>1, TypeStep, SeedStep, ExitStep, StopStep DEF IInv
  <2>2. CASE UNCHANGED vars
    BY <2>2 DEF vars, mainVars, serverVars, signalVars, IInv, TypeOK, SeedInv,
                Seeded, ExitInv, ExitExplained, StopInv, InShutdown, Projects
  <2>3. QED BY <2>1, <2>2
<1>2. QED BY <1>1, InitInv, PTL DEF Spec

\* Every state of a run is one the types allow: seeding always stands at an
\* object that is there to create, and creates nothing that is not configured.
THEOREM LifecycleTypes == Spec => []TypeOK
<1>1. IInv => TypeOK
  BY DEF IInv
<1>2. QED BY <1>1, Invariance, PTL

\* No request reaches a simulator that is only partly seeded, however many
\* projects and shoots it is configured with.
THEOREM SeedingBeforeServing == Spec => []SeededBeforeServing
<1>1. IInv => SeededBeforeServing
  <2> SUFFICES ASSUME IInv,
                      NEW s \in Servers, server[s] = "listening",
                      NEW p \in DOMAIN Projects(config),
                      NEW i \in DOMAIN Items(Projects(config)[p])
               PROVE  Items(Projects(config)[p])[i] \in objects
    BY DEF SeededBeforeServing, Configured
  <2>1. item.project > Len(Projects(config))
    BY DEF IInv, SeedInv
  <2>2. p < item.project
    BY <2>1, ItemProject DEF IInv
  <2>3. QED BY <2>2 DEF IInv, SeedInv, Seeded
<1>2. QED BY <1>1, Invariance, PTL

\* The process ends with status 1 only before a port is opened, and main
\* returns only because of Stop or of the proxy's port.
THEOREM EveryExitExplained == Spec => []ExitExplained
<1>1. IInv => ExitExplained
  BY DEF IInv, ExitInv
<1>2. QED BY <1>1, Invariance, PTL

\* The signal goroutine never ends the process with the control plane up,
\* unless testEnv.Stop failed or came before testEnv.Start.
THEOREM SignalStopsEnvironment == Spec => []SignalStopsControlPlane
<1>1. IInv => SignalStopsControlPlane
  BY DEF IInv, StopInv, SignalStopsControlPlane
<1>2. QED BY <1>1, Invariance, PTL
=============================================================================
