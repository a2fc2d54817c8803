SPECIFICATION MCSpec
CONSTANTS
    d1 = d1
    Runs = {d1}
    Tools <- MCTools
    Timeout = 2
    LeaseTime = 3
    Chunks = 3
    ReadLimit = 1
    PipeRoom = 1
    Segments = 2
    MaxUpsets = 2
    NoLease = NoLease
    LedgerUpsets = 2
    W5 = 2
    WW = 3
    Day = 3
    QuotaPark = 1
    Configs <- MCConfigs
    Fills <- MCFills
    NoFill = NoFill
    MaxFlight = 2
    MaxTotal = 2
    PaceUpsets = 2
    Restarts = {"r1", "r2"}
    Kids = {1, 2, 3}
    Window = 3
    Nobody = Nobody
    TrayUpsets = 2
PROPERTY
    SavesTakeEffectEverywhere
CHECK_DEADLOCK FALSE
