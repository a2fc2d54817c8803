\* Two keys of one account with two concurrent requests and one operator step, and
\* the same keys beside one without a tag, with one request at a time.
SPECIFICATION MCSpec
CONSTRAINT OneAtATimeWithOutsider
SYMMETRY Interchangeable
CONSTANTS
    a1 = a1  a2 = a2  b1 = b1  p1 = p1  accA = accA
    None = None
    Credentials = {a1, a2, b1}
    Providers = {p1}
    Requests = {r1, r2}
    ProviderOf <- MCProviderOf
    AccountOf <- MCAccountOf
    Throttles <- AccountThrottles
    ThrottleScope <- MCThrottleScope
    RateLimitBase = 1
    RateLimitMax = 2
    RateLimitMultiplier = 2
    RateLimitDecay = 1
    QuotaCooldown = 2
    QuotaCooldownMax = 2
    TransientRests <- MCTransientRests
    AutoRecoverAfter = 1
    JitterPct = 0
    MaxFailures = 2
    MaxRetries = 0
    MaxRung = 2
    RestBound = 2
    MaxOperatorSteps = 1
INVARIANTS
    FailingKeyIsParked
PROPERTIES
    SharedBucketRests
    BlastRadius
