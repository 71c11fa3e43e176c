SPECIFICATION FairSpec
CONSTANTS
    Configs <- MCConfigs
    MaxConns = 1
INVARIANTS
    TypeOK
    SeededBeforeServing
    ExitExplained
    SignalStopsControlPlane
PROPERTIES
    SignalEndsProcess
