SPECIFICATION FairSpec
CONSTANTS
    Conns = {c1, c2}
    UseTLS = TRUE
    WithDefaults = TRUE
    Limits <- MCLimits
    DefaultLimit = 15
    MaxStarts = 2
INVARIANTS
    TypeOK
    GracefulReturn
    NilMeansShutdown
    LeakOnlyOnCancel
    NoSilentUnlimited
PROPERTIES
    NothingAfterReturn
    CancelReturns
    FailureReturns
    LifecycleSpec
CHECK_DEADLOCK FALSE
