------------------------------- MODULE MCHealth -------------------------------
(***************************************************************************)
(* What failures take out of service comes back, in two parts that share   *)
(* no state; a behaviour is one of them, chosen at first:                  *)
(*   "keys"         two keys without an account tag, one request with a    *)
(*                  retry, durations scaled down so that a short rest, a   *)
(*                  long rest, auto recovery and the decay window differ   *)
(*                  (CredentialPool);                                      *)
(*   "deployments"  two deployments and two requests, a ladder whose last  *)
(*                  rung is longer than the decay window, as 7200 s and    *)
(*                  21600 s are longer than 3600 s (DeploymentHealth).     *)
(***************************************************************************)
EXTENDS CredentialPool

CONSTANTS Deployments, Visitors, Threshold, Rungs, Ladder, DecayAfter, Cooldown, HoldLimit

VARIABLES part, health, dep, age, inService

healthVars == <<health, dep, age, inService>>
all == <<part, vars, healthVars>>

Deployment == INSTANCE DeploymentHealth WITH Requests <- Visitors

ASSUME HealthAssumption == Deployment!Proper

MCInit == part \in {"keys", "deployments"} /\ Init /\ Deployment!Init

Keyed == part = "keys" /\ UNCHANGED <<part, healthVars>>
Deployed == part = "deployments" /\ UNCHANGED <<part, vars>>

MCNext == (Keyed /\ Next) \/ (Deployed /\ Deployment!Next)

\* Time goes on, and no request stays with a deployment for ever (CredentialPool!FairSpec,
\* DeploymentHealth!FairSpec).
MCSpec ==
    /\ MCInit /\ [][MCNext]_all
    /\ WF_all((Keyed /\ Tick) \/ (Deployed /\ Deployment!Tick))
    /\ \A r \in Visitors : WF_all(Deployed /\ Deployment!Finish(r))

-----------------------------------------------------------------------------
(* The instance *)

MCProviderOf == [c \in Credentials |-> CHOOSE p \in Providers : TRUE]
MCAccountOf == [c \in Credentials |-> None]
MCThrottles == {[kind |-> "quota", retryAfter |-> 1], [kind |-> "frequency", retryAfter |-> 0],
                [kind |-> "throughput", retryAfter |-> 0]}
MCThrottleScope == [quota |-> "account", throughput |-> "provider",
                    frequency |-> "credential", unknown |-> "credential"]
MCTransientRests == {1}
MCLadder == <<1, 3>>

-----------------------------------------------------------------------------
\* A deployment is out of the plans for its record only if it failed Threshold times in a row
\* (_note_deployment_failure, _note_deployment_success).
QuarantineEarned == part = "deployments" => Deployment!QuarantineEarned

\* A failure reported late never brings a deployment back sooner (_note_deployment_failure
\* overwrites quarantined_until).
FailureNeverShortens == Deployment!FailureNeverShortens

\* However badly the requests that still use it fail, a deployment in quarantine is offered
\* again (_note_deployment_success, "half open"), and a key that rests is handed out again or
\* taken out (pool.py, next_available_in: "cooldowns recover").
RestsEnd == (part = "deployments" => Deployment!OfferedAgain) /\ (part = "keys" => RestEnds)
=============================================================================
