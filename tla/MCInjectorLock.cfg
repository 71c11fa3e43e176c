CONSTANTS
    Callers = {c1, c2, c3}
    Calls <- MCCalls
    Started <- MCStarted
    NoWriter = NoWriter
SPECIFICATION FairSpec
INVARIANTS
    LockInv
    NoCircularWait
PROPERTIES
    ImplementsAtomicInjector
    EveryCallReturns
