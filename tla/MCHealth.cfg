\* Two keys; two deployments, two concurrent requests; time that goes on.
SPECIFICATION MCSpec
CONSTANTS
    None = None
    Credentials = {u1, u2}
    Providers = {p1}
    Requests = {r1}
    ProviderOf <- MCProviderOf
    AccountOf <- MCAccountOf
    Throttles <- MCThrottles
    ThrottleScope <- MCThrottleScope
    RateLimitBase = 1
    RateLimitMax = 2
    RateLimitMultiplier = 2
    RateLimitDecay = 1
    QuotaCooldown = 2
    QuotaCooldownMax = 2
    TransientRests <- MCTransientRests
    AutoRecoverAfter = 1
    JitterPct = 0
    MaxFailures = 2
    MaxRetries = 1
    MaxRung = 2
    RestBound = 2
    MaxOperatorSteps = 1
    Deployments = {d1, d2}
    Visitors = {r1, r2}
    Threshold = 2
    Rungs = 2
    Ladder <- MCLadder
    DecayAfter = 2
    Cooldown = 1
    HoldLimit = 2
INVARIANTS
    QuarantineEarned
PROPERTIES
    FailureNeverShortens
    RestsEnd
