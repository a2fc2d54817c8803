--------------------------- MODULE CredentialPool ---------------------------
(***************************************************************************)
(* The key pool of the gateway: one state machine per API credential       *)
(* (app/credentials/health.py), the pool that selects among them and       *)
(* spreads a shared-bucket 429 (app/credentials/pool.py), the cooldown     *)
(* durations (app/credentials/cooldown.py), and what overlaps with them:   *)
(* requests in flight, health probes, the operator and hot reloads.        *)
(*                                                                         *)
(* Absolute timestamps are kept as what the code compares them with: the   *)
(* time still to rest (cooldown_until - now) and the time since the last   *)
(* error and the last 429, each saturating at the largest value the code   *)
(* tells apart.  A behaviour is therefore not cut off by a clock horizon.  *)
(***************************************************************************)
EXTENDS Naturals, FiniteSets

CONSTANTS
    Credentials,        \* credential ids
    Providers,          \* provider ids
    ProviderOf,         \* [Credentials -> Providers]
    AccountOf,          \* [Credentials -> account tags \cup {None}]
    Requests,           \* concurrent client requests
    None,               \* Python's None
    Throttles,          \* the 429s upstream sends: [kind, retryAfter (0: no header)]
    ThrottleScope,      \* cooldown.throttle_scopes, [ThrottleKinds -> Scopes]
    RateLimitBase, RateLimitMax, RateLimitMultiplier, RateLimitDecay,
    QuotaCooldown, QuotaCooldownMax,
    TransientRests,     \* server_error_cooldown and deployment_cooldown
    AutoRecoverAfter,
    JitterPct,          \* jitter, in percent
    MaxFailures,        \* max_consecutive_failures
    MaxRetries,         \* same-key retries of one request
    MaxRung,            \* the rung from which the ladder stays at RateLimitMax
    RestBound,          \* the longest rest any error can impose
    MaxOperatorSteps    \* bound on enable/disable/clear/reload in one behaviour

ThrottleKinds == {"quota", "throughput", "frequency", "unknown"}
Scopes == {"credential", "account", "provider"}

ASSUME TopologyAssumption ==
    /\ IsFiniteSet(Credentials)
    /\ ProviderOf \in [Credentials -> Providers]
    /\ DOMAIN AccountOf = Credentials
    /\ None \notin Credentials /\ None \notin Nat
    /\ ThrottleScope \in [ThrottleKinds -> Scopes]
    /\ Throttles \subseteq [kind : ThrottleKinds, retryAfter : Nat]

ASSUME DurationAssumption ==
    /\ RateLimitBase \in Nat \ {0} /\ RateLimitMultiplier \in Nat \ {0}
    /\ RateLimitMax \in Nat /\ RateLimitBase <= RateLimitMax
    /\ RateLimitDecay \in Nat \ {0} /\ AutoRecoverAfter \in Nat \ {0}
    /\ QuotaCooldown \in Nat \ {0} /\ QuotaCooldownMax \in Nat
    /\ QuotaCooldown <= QuotaCooldownMax
    /\ JitterPct \in 0..99
    /\ MaxFailures \in Nat \ {0} /\ MaxRetries \in Nat
    /\ MaxRung \in Nat \ {0} /\ MaxOperatorSteps \in Nat
    /\ RestBound \in Nat
    /\ TransientRests \subseteq 1..RestBound

\* The saturation points lose nothing: no rung above MaxRung rests longer, and
\* no jittered duration exceeds RestBound.
ASSUME SaturationAssumption ==
    /\ RateLimitBase * RateLimitMultiplier ^ (MaxRung - 1) >= RateLimitMax
    /\ 100 * RestBound >= RateLimitMax * (100 + JitterPct)
    /\ 100 * RestBound >= QuotaCooldownMax * (100 + JitterPct)

VARIABLES
    cred,       \* the CredentialRuntime of each id
    present,    \* the ids registered in the pool
    req,        \* per request: candidate list, key in use, retries on that key
    ops         \* operator steps left

vars == <<cred, present, req, ops>>

-----------------------------------------------------------------------------
(* Types *)

Statuses == {"HEALTHY", "COOLDOWN", "UNHEALTHY", "DISABLED"}

Runtime == [status     : Statuses,
            enabled    : BOOLEAN,                      \* what the operator last asked for
            left       : (0..RestBound) \cup {None},   \* cooldown_until - now
            fails      : 0..MaxFailures,               \* consecutive_failures
            ladder     : 0..MaxRung,                   \* consecutive_rate_limits
            sinceErr   : 0..AutoRecoverAfter,          \* now - last_error_at
            sinceLimit : 0..RateLimitDecay]            \* now - last_rate_limit_at

\* last_error_at is read only while UNHEALTHY and last_rate_limit_at only while the
\* ladder is up; entering either state stamps it.  Outside, both are kept saturated.
Settled(k) == [k EXCEPT
    !.sinceErr = IF k.status = "UNHEALTHY" THEN @ ELSE AutoRecoverAfter,
    !.sinceLimit = IF k.ladder > 0 THEN @ ELSE RateLimitDecay]

Flight == [keys    : SUBSET Credentials,
           key     : Credentials \cup {None},
           retries : 0..MaxRetries]

Idle == [keys |-> {}, key |-> None, retries |-> 0]

\* A freshly built runtime; no last error and no last 429 compare like ones
\* that are long past.
Fresh(on) == [status |-> IF on THEN "HEALTHY" ELSE "DISABLED", enabled |-> on,
              left |-> None, fails |-> 0, ladder |-> 0,
              sinceErr |-> AutoRecoverAfter, sinceLimit |-> RateLimitDecay]

TypeOK ==
    /\ cred \in [Credentials -> Runtime]
    /\ present \subseteq Credentials
    /\ req \in [Requests -> Flight]
    /\ ops \in 0..MaxOperatorSteps

-----------------------------------------------------------------------------
(* Cooldown durations: app/credentials/cooldown.py *)

Lesser(a, b) == IF a <= b THEN a ELSE b
Greater(a, b) == IF a >= b THEN a ELSE b
Capped(n, top) == Lesser(n, top)

\* Jitter is drawn after the cap, so a rest may exceed its configured maximum.
Jittered(d) == {x \in 1..RestBound : /\ 100 * x >= d * (100 - JitterPct)
                                     /\ 100 * x <= d * (100 + JitterPct)}

RateLimitCooldown(rung, retryAfter) ==
    IF retryAfter > 0
      THEN {x \in 1..RestBound : x = Lesser(retryAfter, RateLimitMax)}
      ELSE Jittered(Lesser(RateLimitBase * RateLimitMultiplier ^ (rung - 1), RateLimitMax))

QuotaRest(retryAfter) ==
    Jittered(IF retryAfter > 0
               THEN Lesser(Greater(retryAfter, QuotaCooldown), QuotaCooldownMax)
               ELSE QuotaCooldown)

CooldownFor(t, rung) ==
    IF t.kind = "quota" THEN QuotaRest(t.retryAfter)
                        ELSE RateLimitCooldown(rung, t.retryAfter)

-----------------------------------------------------------------------------
(* The state machine of one credential: app/credentials/health.py *)

Expired(k) == k.left \in {0, None}

IsUsable(k) == \/ k.status = "HEALTHY"
               \/ k.status = "COOLDOWN" /\ Expired(k)

OnSuccess(k) == Settled([k EXCEPT !.status = "HEALTHY", !.left = None,
                                  !.fails = 0, !.ladder = 0])

\* CLIENT and INTERNAL errors: recorded, never a penalty.
OnNoPenalty(k) == Settled([k EXCEPT !.sinceErr = 0])

OnAuthFailure(k) == [k EXCEPT !.status = "UNHEALTHY", !.left = None, !.sinceErr = 0,
                              !.fails = Capped(@ + 1, MaxFailures)]

NextRung(k) ==
    Capped((IF k.sinceLimit >= RateLimitDecay THEN 0 ELSE k.ladder) + 1, MaxRung)

OnThrottle(k, rest) ==
    Settled([k EXCEPT !.status = "COOLDOWN", !.left = rest, !.sinceErr = 0,
                      !.fails = Capped(@ + 1, MaxFailures),
                      !.ladder = NextRung(k), !.sinceLimit = 0])

OnTransient(k, rest) ==
    LET counted == [k EXCEPT !.sinceErr = 0, !.fails = Capped(@ + 1, MaxFailures)]
    IN  Settled(IF counted.fails >= MaxFailures
                  THEN [counted EXCEPT !.status = "COOLDOWN", !.left = rest]
                  ELSE counted)

MarkDisabled(k) == Settled([k EXCEPT !.status = "DISABLED", !.enabled = FALSE])

MarkEnabled(k) == Settled([k EXCEPT !.status = "HEALTHY", !.enabled = TRUE, !.left = None,
                                    !.fails = 0, !.ladder = 0])

Recovers(k) == \/ k.status = "UNHEALTHY" /\ k.sinceErr >= AutoRecoverAfter
               \/ k.status = "COOLDOWN" /\ Expired(k)

\* mutant: recovery forgets the failure counter.
RefreshKeepsFailures(k) ==
    IF Recovers(k) THEN Settled([k EXCEPT !.status = "HEALTHY", !.left = None]) ELSE k

\* Lazy recovery.  Only a served cooldown restarts the ladder.
Refresh(k) ==
    IF Recovers(k)
      THEN Settled([k EXCEPT !.status = "HEALTHY", !.fails = 0,
                             !.left = IF k.status = "COOLDOWN" THEN None ELSE @,
                             !.ladder = IF k.status = "COOLDOWN" THEN 0 ELSE @])
      ELSE k

\* One unit of time passes for a credential.
Age(k) == [k EXCEPT !.left = IF @ \in {0, None} THEN @ ELSE @ - 1,
                    !.sinceErr = Capped(@ + 1, AutoRecoverAfter),
                    !.sinceLimit = Capped(@ + 1, RateLimitDecay)]

-----------------------------------------------------------------------------
(* Pool-wide helpers: app/credentials/pool.py *)

KeysOf(p) == {c \in present : ProviderOf[c] = p}

\* effective_throttle_scope: account scope needs an account tag to name siblings;
\* for a key that left the pool the policy's answer is used as it is.
EffectiveScope(c, kind) ==
    IF ThrottleScope[kind] = "account" /\ c \in present /\ AccountOf[c] = None
      THEN "credential"
      ELSE ThrottleScope[kind]

\* mutant: only a provider-wide 429 finds siblings.
SiblingsOfProvider(c, scope) ==
    {x \in KeysOf(ProviderOf[c]) \ {c} : scope = "provider"}

\* mutant: the keys of an account are taken for all the keys of the provider.
SiblingsOfAnyAccount(c, scope) ==
    {x \in KeysOf(ProviderOf[c]) \ {c} : scope \in {"provider", "account"}}

\* The registered keys that share the throttled bucket of c.
Siblings(c, scope) ==
    {x \in KeysOf(ProviderOf[c]) \ {c} :
        \/ scope = "provider"
        \/ scope = "account" /\ AccountOf[x] = AccountOf[c]}

ParkedWith(k, rest) == [k EXCEPT !.status = "COOLDOWN", !.left = rest]

\* report_failure on a 429: the reported key steps up its ladder, its healthy
\* siblings rest exactly as long.
Throttled(c, kind, rest) ==
    LET parked == {x \in Siblings(c, EffectiveScope(c, kind)) : cred[x].status = "HEALTHY"}
    IN  [x \in Credentials |-> IF x = c THEN OnThrottle(cred[x], rest)
                              ELSE IF x \in parked THEN ParkedWith(cred[x], rest)
                              ELSE cred[x]]

\* A report about a key that was removed meanwhile finds no runtime to change.
Report(c, k) == cred' = IF c \in present THEN [cred EXCEPT ![c] = k] ELSE cred

-----------------------------------------------------------------------------
(* Requests: what the scheduler does with the pool *)

Init ==
    /\ present = Credentials
    /\ cred \in [Credentials -> {Fresh(TRUE), Fresh(FALSE)}]
    /\ req = [r \in Requests |-> Idle]
    /\ ops = MaxOperatorSteps

\* candidates(): every key of the provider is lazily refreshed, then the usable
\* ones are ordered.  The rate limiter and max_credentials_per_deployment may
\* keep any part of them.
TakeCandidates(r, p) ==
    /\ req[r] = Idle
    /\ cred' = [c \in Credentials |-> IF c \in KeysOf(p) THEN Refresh(cred[c]) ELSE cred[c]]
    /\ \E S \in SUBSET {c \in KeysOf(p) : IsUsable(cred'[c])} :
          req' = [req EXCEPT ![r].keys = S]
    /\ UNCHANGED <<present, ops>>

\* The candidate list is a snapshot: the next key is dispatched whatever became
\* of it since.
Dispatch(r) ==
    /\ req[r].key = None
    /\ \E c \in req[r].keys :
          req' = [req EXCEPT ![r] = [keys |-> @.keys \ {c}, key |-> c, retries |-> 0]]
    /\ UNCHANGED <<cred, present, ops>>

NextKey(r) == req' = [req EXCEPT ![r].key = None, ![r].retries = 0]
GiveUp(r) == req' = [req EXCEPT ![r] = Idle]
SameKey(r) == /\ req[r].retries < MaxRetries
              /\ req' = [req EXCEPT ![r].retries = @ + 1]

ReportSuccess(r) ==
    /\ req[r].key # None
    /\ Report(req[r].key, OnSuccess(cred[req[r].key]))
    /\ GiveUp(r)
    /\ UNCHANGED <<present, ops>>

\* 400, 404, 413 ... and gateway-side failures: the request fails or fails over.
ReportNoPenalty(r) ==
    /\ req[r].key # None
    /\ Report(req[r].key, OnNoPenalty(cred[req[r].key]))
    /\ GiveUp(r)
    /\ UNCHANGED <<present, ops>>

\* 401/403; in mid-stream the request ends instead of trying the next key.
ReportAuthFailure(r) ==
    /\ req[r].key # None
    /\ Report(req[r].key, OnAuthFailure(cred[req[r].key]))
    /\ NextKey(r) \/ GiveUp(r)
    /\ UNCHANGED <<present, ops>>

\* 429: a shared bucket fails over instead of sweeping the sibling keys.
ReportThrottle(r, t) ==
    /\ req[r].key # None
    /\ LET c == req[r].key IN
       /\ \/ EffectiveScope(c, t.kind) = "credential" /\ NextKey(r)
          \/ GiveUp(r)
       /\ \E rest \in CooldownFor(t, NextRung(cred[c])) :
             cred' = IF c \in present THEN Throttled(c, t.kind, rest) ELSE cred
    /\ UNCHANGED <<present, ops>>

\* 408, 5xx, 529, connection errors: retried on the key, or moved on.
ReportTransient(r) ==
    /\ req[r].key # None
    /\ \E rest \in TransientRests :
          Report(req[r].key, OnTransient(cred[req[r].key], rest))
    /\ SameKey(r) \/ NextKey(r) \/ GiveUp(r)
    /\ UNCHANGED <<present, ops>>

\* The client disconnects, or the wall clock runs out between attempts: the key
\* hears nothing of it.
Abandon(r) ==
    /\ req[r] # Idle
    /\ GiveUp(r)
    /\ UNCHANGED <<cred, present, ops>>

-----------------------------------------------------------------------------
(* Probes, the operator, hot reload, time *)

\* apply_health_check.  The verdict is about the key as it was when the probe was
\* sent; by the time it is applied the key may be in any state.
ProbeHealthy(c) ==
    /\ c \in present
    /\ cred' = IF cred[c].status \in {"UNHEALTHY", "COOLDOWN"}
                 THEN [cred EXCEPT ![c] = MarkEnabled(@)] ELSE cred
    /\ UNCHANGED <<present, req, ops>>

ProbeFlaky(c) ==
    /\ c \in present
    /\ cred' = [cred EXCEPT ![c] = OnNoPenalty(@)]
    /\ UNCHANGED <<present, req, ops>>

ProbeRejected(c) ==
    /\ c \in present
    /\ cred' = [cred EXCEPT ![c] = OnAuthFailure(@)]
    /\ UNCHANGED <<present, req, ops>>

OperatorStep == ops > 0 /\ ops' = ops - 1

Enable(c) ==
    /\ OperatorStep
    /\ c \in present
    /\ cred' = [cred EXCEPT ![c] = MarkEnabled(@)]
    /\ UNCHANGED <<present, req>>

Disable(c) ==
    /\ OperatorStep
    /\ c \in present
    /\ cred' = [cred EXCEPT ![c] = MarkDisabled(@)]
    /\ UNCHANGED <<present, req>>

InvalidateCooldowns(p) ==
    /\ OperatorStep
    /\ cred' = [c \in Credentials |->
                   IF c \in KeysOf(p) /\ cred[c].status = "COOLDOWN"
                     THEN MarkEnabled(cred[c]) ELSE cred[c]]
    /\ UNCHANGED <<present, req>>

\* Hot reload of a providers.yaml that lists the keys in `on` (usable) and `off`
\* (disabled, or their environment variable is missing): register_provider
\* builds every listed runtime anew, reconcile drops the others.
Reload(on, off) ==
    /\ OperatorStep
    /\ present' = on \cup off
    /\ cred' = [c \in Credentials |-> Fresh(c \in on \/ c \notin off)]
    /\ UNCHANGED req

Tick ==
    /\ cred' = [c \in Credentials |-> Age(cred[c])]
    /\ UNCHANGED <<present, req, ops>>

RequestStep(r) ==
    \/ \E p \in Providers : TakeCandidates(r, p)
    \/ Dispatch(r)
    \/ ReportSuccess(r)
    \/ ReportNoPenalty(r)
    \/ ReportAuthFailure(r)
    \/ \E t \in Throttles : ReportThrottle(r, t)
    \/ ReportTransient(r)
    \/ Abandon(r)

ProbeStep(c) == ProbeHealthy(c) \/ ProbeFlaky(c) \/ ProbeRejected(c)

AdminStep ==
    \/ \E c \in Credentials : Enable(c) \/ Disable(c)
    \/ \E p \in Providers : InvalidateCooldowns(p)
    \/ \E on \in SUBSET Credentials : \E off \in SUBSET (Credentials \ on) : Reload(on, off)

Next ==
    \/ \E r \in Requests : RequestStep(r)
    \/ \E c \in Credentials : ProbeStep(c)
    \/ AdminStep
    \/ Tick

Spec == Init /\ [][Next]_vars

\* Time does not stop.  Nothing else is assumed: clients, probes and operators
\* may do nothing at all.
FairSpec == Spec /\ WF_vars(Tick)

-----------------------------------------------------------------------------
(* Properties *)

\* A rest deadline belongs to a resting key: a key that can be handed out, or that
\* was rejected with 401/403, carries none, and a key in COOLDOWN always has one, so
\* no interleaving of late reports, probes and operators leaves a key resting for
\* ever or resting without being marked (health.py, every transition).
DeadlineOnlyWhileResting ==
    \A c \in Credentials :
        /\ cred[c].status \in {"HEALTHY", "UNHEALTHY"} => cred[c].left = None
        /\ cred[c].status = "COOLDOWN" => cred[c].left # None

\* A key that failed max_consecutive_failures times in a row is not HEALTHY, through
\* whichever of the failure, recovery, probe, enable and reload paths it came.
FailingKeyIsParked ==
    \A c \in Credentials : cred[c].status = "HEALTHY" => cred[c].fails < MaxFailures

\* The step ends the use of the key that request r holds and leaves it resting (or
\* the key is gone).
Told(r) ==
    /\ req[r].key # None /\ req'[r].key = None
    /\ req[r].key \in present => cred'[req[r].key].status = "COOLDOWN"

\* After a 429 on a bucket shared account- or provider-wide, no key of that bucket is
\* left HEALTHY for another request to be sent against it (pool.py,
\* _park_throttled_siblings).
SharedBucketRests ==
    [][\A r \in Requests : Told(r) => \A t \in Throttles : ReportThrottle(r, t) =>
        LET c == req[r].key IN
        \A x \in present :
            /\ c \in present /\ ProviderOf[x] = ProviderOf[c]
            /\ \/ ThrottleScope[t.kind] = "provider"
               \/ ThrottleScope[t.kind] = "account" /\ AccountOf[c] # None
                                                     /\ AccountOf[x] = AccountOf[c]
            => cred'[x].status # "HEALTHY"]_vars

\* A 429 never reaches further than its bucket: keys of other providers, keys of other
\* accounts and keys without an account tag keep their state, and so does every key
\* that was already out, whose reason is the operator's audit trail (pool.py,
\* _park_throttled_siblings and effective_throttle_scope).
BlastRadius ==
    [][\A r \in Requests : Told(r) => \A t \in Throttles : ReportThrottle(r, t) =>
        LET c == req[r].key IN
        \A x \in Credentials \ {c} : cred'[x] # cred[x] =>
            /\ ProviderOf[x] = ProviderOf[c]
            /\ cred[x].status = "HEALTHY"
            /\ \/ ThrottleScope[t.kind] = "provider"
               \/ ThrottleScope[t.kind] = "account" /\ AccountOf[x] # None
                                                     /\ AccountOf[x] = AccountOf[c]]_vars

\* Cooldowns recover: whatever else happens, a resting key becomes selectable again
\* (or is taken out for another reason); no sequence of reports keeps extending the
\* rest of a key nobody may be sent to (pool.py, next_available_in: "cooldowns recover").
Resting(c) == cred[c].status = "COOLDOWN" /\ ~Expired(cred[c])
RestEnds == \A c \in Credentials : Resting(c) ~> ~Resting(c)
=============================================================================
