SPECIFICATION FairSpec
CONSTANTS
    t1 = t1
    t2 = t2
    app = app
    old = old
    Thread = {t1, t2}
    Canonical = {app}
    Legacy = {old}
    HistoryLimit = 2
    PendingLimit = 2
    MaxEvents = 4
    MaxRejections = 2
    Hosts <- HostKinds
CHECK_DEADLOCK FALSE
INVARIANTS
    HistoryIsTheTail
    OneDispatcher
    BoundariesOwnTheQueue
PROPERTIES
    DeliversInOrder
    EveryEventIsDelivered
