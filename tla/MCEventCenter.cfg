SPECIFICATION FairSpec
CONSTANTS
    None = None
    Alerts = {a1}
    Workers = {w1, w2}
    Handlers = {h1, h2}
    MaxHops = 0
    MaxAttempts = 2
    Parallel = 1
    WindowEnds = TRUE
    MaxEvents = 2
    MaxRestarts = 1
INVARIANTS
    DerivedWorkIsTamed
PROPERTIES
    KeepsQueue
    EventuallySettled
\* everything may be settled and no source reports any more
CHECK_DEADLOCK FALSE
