SPECIFICATION Spec
CONSTANTS
    Configs <- MCConfigs
    MaxConns = 1
INVARIANTS
    GracefulShutdown
