SPECIFICATION Spec
CONSTANTS
    None = None
    Alerts = {a1}
    Workers = {w1}
    Handlers = {h1, h2}
    MaxHops = 1
    MaxAttempts = 2
    Parallel = 1
    WindowEnds = FALSE
    MaxEvents = 3
    MaxRestarts = 0
INVARIANTS
    DecidedOnce
SYMMETRY Interchangeable
CHECK_DEADLOCK FALSE
