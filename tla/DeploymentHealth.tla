-------------------------- MODULE DeploymentHealth --------------------------
(***************************************************************************)
(* What the scheduler remembers of a deployment across requests            *)
(* (app/routing/scheduler.py): the short cooldown after an overload error  *)
(* and the quarantine ladder after repeated failures.  Requests hold a     *)
(* deployment while they try its keys: they look at its health once, when  *)
(* they reach it in their plan, and report every failure since.            *)
(*                                                                         *)
(* As in CredentialPool, timestamps are kept as what they are compared     *)
(* with: time left, and saturating time since.                             *)
(***************************************************************************)
EXTENDS Naturals

CONSTANTS
    Deployments,
    Requests,
    None,
    Threshold,      \* QUARANTINE_THRESHOLD
    Rungs,          \* len(QUARANTINE_LADDER)
    Ladder,         \* QUARANTINE_LADDER, [1..Rungs -> seconds]
    DecayAfter,     \* QUARANTINE_DECAY_SECONDS
    Cooldown,       \* deployment_cooldown of the classifier
    HoldLimit       \* the longest a request stays with one deployment

\* The ladder climbs, and the wall-clock budget of a request plus its last attempt
\* (300 s each) is far below the decay window (3600 s).
Proper ==
    /\ None \notin Deployments
    /\ Threshold \in Nat \ {0} /\ Rungs \in Nat \ {0}
    /\ Ladder \in [1..Rungs -> Nat \ {0}]
    /\ \A i, j \in 1..Rungs : i <= j => Ladder[i] <= Ladder[j]
    /\ DecayAfter \in Nat /\ Cooldown \in Nat /\ HoldLimit \in Nat
    /\ HoldLimit <= DecayAfter

VARIABLES
    health,     \* DeploymentHealth and _deployment_cooldowns of each deployment
    dep,        \* the deployment each request is trying, or None
    age,        \* how long it has been trying it
    inService   \* history: whether it was out of quarantine for a while since its last failure

vars == <<health, dep, age, inService>>

-----------------------------------------------------------------------------

\* Beyond the last rung the count changes nothing.
FailCap == Threshold + Rungs - 1
Top == Ladder[Rungs]

Health == [fails : 0..FailCap,              \* consecutive_failures
           left  : 0..Top,                  \* quarantined_until - now
           since : 0..(DecayAfter + 1),     \* now - last_failure_at
           cool  : 0..Cooldown]             \* _deployment_cooldowns[d] - now

Lesser(a, b) == IF a <= b THEN a ELSE b
Below(n, by) == IF n >= by THEN n - by ELSE 0

TypeOK ==
    /\ health \in [Deployments -> Health]
    /\ dep \in [Requests -> Deployments \cup {None}]
    /\ age \in [Requests -> 0..HoldLimit]
    /\ inService \in [Deployments -> BOOLEAN]

\* What the classifier says of a failure: it counts against the deployment
\* (is_quarantine_worthy), or it also parks it for a while (cooldown_scope
\* "deployment": timeouts, 503, 504, 529, other 5xx), or neither.
Failures == {"unworthy", "worthy", "parking"}

-----------------------------------------------------------------------------
(* The bookkeeping *)

CoolingDown(h) == h.cool > 0 \/ h.left > 0

\* mutant: any pause since the last failure lets the count decay.
StaleAtOnce(h) == h.since > 0

Stale(h) == h.since > DecayAfter

CountedFails(h) == Lesser((IF Stale(h) THEN 0 ELSE h.fails) + 1, FailCap)

Rung(fails) == Lesser(fails - Threshold, Rungs - 1) + 1

\* _apply_deployment_cooldown, then _note_deployment_failure.
AfterFailure(h, kind) ==
    LET parked == IF kind = "parking" THEN [h EXCEPT !.cool = Cooldown] ELSE h
        fails  == CountedFails(h)
    IN  IF kind = "unworthy" THEN h
        ELSE [parked EXCEPT !.fails = fails, !.since = 0,
                            !.left = IF fails >= Threshold THEN Ladder[Rung(fails)] ELSE @]

\* mutant: a success resets the count but does not lift the quarantine.
SuccessKeepsQuarantine(h) == [h EXCEPT !.fails = 0]

\* _note_deployment_success: the quarantine is lifted, the short cooldown stays.
AfterSuccess(h) == [h EXCEPT !.fails = 0, !.left = 0]

-----------------------------------------------------------------------------
(* Actions *)

Init ==
    /\ health = [d \in Deployments |->
                    [fails |-> 0, left |-> 0, since |-> DecayAfter + 1, cool |-> 0]]
    /\ dep = [r \in Requests |-> None]
    /\ age = [r \in Requests |-> 0]
    /\ inService = [d \in Deployments |-> TRUE]

\* mutant: quarantine does not keep requests away.
VisitBlindly(r, d) ==
    /\ dep[r] = None
    /\ dep' = [dep EXCEPT ![r] = d]
    /\ age' = [age EXCEPT ![r] = 0]
    /\ UNCHANGED <<health, inService>>

\* The only look at the health of d: its keys are tried whatever becomes of it.
Visit(r, d) ==
    /\ dep[r] = None
    /\ ~CoolingDown(health[d])
    /\ dep' = [dep EXCEPT ![r] = d]
    /\ age' = [age EXCEPT ![r] = 0]
    /\ UNCHANGED <<health, inService>>

Left(r) == dep' = [dep EXCEPT ![r] = None] /\ age' = [age EXCEPT ![r] = 0]

\* An attempt fails; the request stays (same key or next key) or leaves.
Fail(r, kind) ==
    /\ dep[r] # None
    /\ health' = [health EXCEPT ![dep[r]] = AfterFailure(@, kind)]
    /\ inService' = IF kind = "unworthy" THEN inService ELSE [inService EXCEPT ![dep[r]] = FALSE]
    /\ UNCHANGED <<dep, age>> \/ Left(r)

\* A response, or the first chunk of a stream; what breaks a stream later is not noted.
Succeed(r) ==
    /\ dep[r] # None
    /\ health' = [health EXCEPT ![dep[r]] = AfterSuccess(@)]
    /\ Left(r)
    /\ UNCHANGED inService

\* No usable key, attempts or time used up, client gone.
Leave(r) ==
    /\ dep[r] # None
    /\ Left(r)
    /\ UNCHANGED <<health, inService>>

Tick ==
    /\ \A r \in Requests : dep[r] # None => age[r] < HoldLimit
    /\ health' = [d \in Deployments |->
                    [health[d] EXCEPT !.left = Below(@, 1), !.cool = Below(@, 1),
                                      !.since = Lesser(@ + 1, DecayAfter + 1)]]
    /\ age' = [r \in Requests |-> IF dep[r] = None THEN 0 ELSE age[r] + 1]
    /\ inService' = [d \in Deployments |-> inService[d] \/ health[d].left = 0]
    /\ UNCHANGED dep

Finish(r) == Succeed(r) \/ Leave(r)

Next ==
    \/ \E r \in Requests : \/ \E d \in Deployments : Visit(r, d)
                           \/ \E kind \in Failures : Fail(r, kind)
                           \/ Finish(r)
    \/ Tick

Spec == Init /\ [][Next]_vars

\* Time goes on, and a request does not stay with a deployment for ever: attempts time
\* out and the attempt and wall-clock budgets run out.
FairSpec == Spec /\ WF_vars(Tick) /\ \A r \in Requests : WF_vars(Finish(r))

-----------------------------------------------------------------------------
(* Properties *)

\* A deployment is out of the plans for its record only if it failed Threshold times in
\* a row: no order of late failures, late successes and decay quarantines a deployment
\* that has just worked (_note_deployment_failure, _note_deployment_success).
QuarantineEarned ==
    \A d \in Deployments : health[d].left > 0 => health[d].fails >= Threshold

\* A failure reported late, by a request that reached the deployment before it was
\* quarantined, never brings it back sooner (_note_deployment_failure overwrites
\* quarantined_until).
FailureNeverShortens ==
    [][\A r \in Requests : \A kind \in Failures : Fail(r, kind) =>
        \A d \in Deployments : /\ health'[d].left >= health[d].left
                               /\ health'[d].cool >= health[d].cool]_vars

\* Quarantine is not for ever: however badly the requests that still hold it fail, a
\* deployment is offered again ("half open", _note_deployment_success).
OfferedAgain == \A d \in Deployments : CoolingDown(health[d]) ~> ~CoolingDown(health[d])
=============================================================================
