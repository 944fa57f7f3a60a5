SPECIFICATION MotionSpec
CONSTANTS
    Transport = {v1, v2}
    Operation = {o1, o2, o3}
    MaxClients = 2
    h1 = h1
    h2 = h2
    Host = {h1, h2}
    Closer = closer
    NoTransport = NoTransport
    NoOperation = NoOperation
    Scripts <- HostScripts
INVARIANTS
    SingleFlight
    ReadyMeansUsable
    CleanCloseEndsWorker
PROPERTIES
    LateCompletionSuppressed
    EveryCallReturns
CHECK_DEADLOCK FALSE
