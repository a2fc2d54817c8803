SPECIFICATION Spec
CONSTANTS
    c1 = c1
    c2 = c2
    MaxSessions = 2
    Client = {c1}
    Kind = {"loop", "batch", "single"}
    Batch <- Batches
    Segments = 2
    MaxRuns = 2
    MaxSteps = 1
    MaxConcurrent = 1
    MaxChildrenTotal = 1
    MaxLiveChildren = 1
    MaxDepth = 2
    MaxFaults = 1
INVARIANTS
    WaitingIsVisible
    ResumableTranscript
PROPERTIES
    ConsentedOnly
    RunsEnd
CHECK_DEADLOCK FALSE
