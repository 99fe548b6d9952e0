SPECIFICATION SignInSpec
CONSTANTS
    None = None
    MaxAttempts = 1
    Window = 2
    MaxNow = 2
    Browsers = {b1, b2}
    Permits = {p1, p2}
    MaxPending = 2
    FlowLife = 1
    MaxFlows = 3
SYMMETRY Symmetry
INVARIANTS
    TwiceTheLimit
    FlowSignsInOnce
CHECK_DEADLOCK FALSE
