SPECIFICATION MCSpec
CONSTANTS
    NoSignature = NoSignature
    DbErrors = TRUE
    MaxWrites = 4
    a = a
    b = b
    Names = {a, b}
    Template <- MCTemplate
    Gone = Gone
    ConsoleWork = 4
    Ids = {c1, c2}
    Vars = {v1, v2}
    Secrets = {s1, s2}
    NoKey = NoKey
    FirstId = c1
    FirstVar = v1
    FirstSecret = s1
    KeyWork = 4
INVARIANTS
    MemoryIsFile
    DeploymentsHaveProviders
    KeysAreKept
PROPERTIES
    SaveKeepsEdits
    EditsTakeEffect
    GateHolds
\* the operator's work is bounded
CHECK_DEADLOCK FALSE
