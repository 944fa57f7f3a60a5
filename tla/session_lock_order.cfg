SPECIFICATION Spec
CONSTANTS
    t1 = t1
    t2 = t2
    h1 = h1
    h2 = h2
    Turn = {t1, t2}
    NoTurn = NoTurn
    Host = {h1, h2}
    Runtime = runtime
    NoThread = NoThread
    Scenarios <- RunAndStart
    MaxGenerations = 2
INVARIANT NoWaitCycle
