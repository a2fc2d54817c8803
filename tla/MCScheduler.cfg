CONSTANTS
    d1 = d1
    d2 = d2
    d3 = d3
    k1 = k1
    k2 = k2
    k3 = k3
    c1 = c1
    c2 = c2
    None = None
    Deployments <- MCDeployments
    Credentials <- MCCredentials
    KeysFor <- MCKeysFor
    MaxTotalAttempts = 4
    MaxDeployments = 2
    MaxCredentials = 2
    MaxRetries = 1
    StreamOpenRetries = 1
    Calls = {c1, c2}
    Ids = {i1}
    Kinds <- MCKinds
    Attempts = 2
    Mishaps = 1
SPECIFICATION MCSpec
INVARIANTS
    HonestConduct
    RecordIsTrue
PROPERTIES
    KeepsContract
    RequestEnds
    RowsClose
\* a request that is done takes no more steps
CHECK_DEADLOCK FALSE
