SPECIFICATION MCSpec
CONSTANTS
    Names = {"zk-auto", "zk-long", "zk-vision"}
    Models = {"bulk", "eye", "flag"}
    Limit = 100
    MaxDepth = 2
    MaxOff = 1
    MaxEdits = 1
    DeploymentsOf <- MCDeploymentsOf
    ProviderOf <- MCProviderOf
    Caps <- MCCaps
    Priority <- MCPriority
    Window <- MCWindow
    Asks <- MCAsks
    Direct <- MCDirect
    Configured <- MCConfigured
    Offers <- MCOffers
    Requests <- MCRequests
    Sessions = {s1, s2}
    Turns = {r1, r2}
    Backends = {d1, d3}
    Keys = {k1, k2, k3}
    Serves <- MCServes
    Settings <- MCSettings
    FirstSetting <- Roomy
    Upsets = 1
    d1 = d1
    d3 = d3
    k1 = k1
    k2 = k2
    k3 = k3
SYMMETRY Interchangeable
INVARIANTS
    PlansServe
    OperatorIsObeyed
PROPERTIES
    TurnsStay
CHECK_DEADLOCK FALSE
