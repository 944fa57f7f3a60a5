SPECIFICATION OwnersSpec
CONSTANTS
    Turn = {t1, t2}
    NoTurn = NoTurn
    AdvanceReason = {"new_turn", "reset", "turn_terminal"}
    MaxGenerations = 4
    MaxCompletions = 3
    MaxAttempts = 2
    Item = {i1, i2, i3, i4}
    MaxPending = 2
    MaxInFlight = 2
    MaxOverflows = 2
PROPERTIES
    DeliversOnlyFresh
    RecordsOnlyGrow
    NoSilentDrop
CHECK_DEADLOCK FALSE
