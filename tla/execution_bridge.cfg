SPECIFICATION FairSpec
CONSTANTS
    Coroutine = {c1, c2}
    Stopper = {s1, s2}
    SelfStopping = {c1}
INVARIANT TruthfulStop
PROPERTIES
    OpenBridgeAnswers
    SelfStopIsAnswered
    ParkedRunsAreCancelled
CHECK_DEADLOCK FALSE
