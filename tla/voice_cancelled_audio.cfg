SPECIFICATION Spec
CONSTANTS
    Worker = {w1}
    Canceller = {canceller}
    Flusher = {flusher}
    MaxDepth = 1
    MaxWork = 2
    MaxContexts = 2
    MaxOverflows = 1
    Scenarios = {{}}
INVARIANTS
    CancelledStaysSilent
