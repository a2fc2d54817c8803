SPECIFICATION FairSpec
CONSTANTS
    None = None
    k1 = k1
    k2 = k2
    acc = acc
    Keys = {k1, k2}
    Account <- MCAccount
    Requests = {r1, r2}
    Plans <- MCPlans
    Longest = 3
    Period = 2
    Keep = 1
    MaxBurst = 2
    MaxEdits = 1
    MaxRestarts = 1
INVARIANTS
    QuotasHold
    LossIsRecent
PROPERTIES
    WindowsReopen
