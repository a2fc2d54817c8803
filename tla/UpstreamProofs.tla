--------------------------- MODULE UpstreamProofs ---------------------------
(***************************************************************************)
(* Proofs about what the gateway keeps of its upstreams: the keys it may    *)
(* use (CredentialPool), whether a deployment is well (DeploymentHealth),   *)
(* what becomes of the answer it streams (StreamTranslation) and of the     *)
(* transcript it is sent (ChatHistory), the two parts of a ClientTurn.      *)
(* Each for all values of its constants that satisfy its assumptions.       *)
(*                                                                         *)
(* Keys.  The inductive invariant says of every credential that it is      *)
(* Sound: a well-typed runtime whose deadline and failure counter fit its  *)
(* status.  Each transition of health.py is shown to map sound runtimes to *)
(* sound ones; the actions then only choose which credentials they apply   *)
(* it to.                                                                  *)
(*                                                                         *)
(* Deployments.  Why a quarantine is always earned: a request only reaches *)
(* a deployment that is out of quarantine, so the failure that started a   *)
(* quarantine is younger than the visit of every request that still holds  *)
(* the deployment (Younger).  As no visit outlasts the decay window, none  *)
(* of their failures can find the count stale and restart it.              *)
(*                                                                         *)
(* Answers.  The events that wait for a client lead from the items it has  *)
(* been shown to those it will have been shown (Story), and it is these    *)
(* that account for all the upstream has sent so far (Tells): each item    *)
(* says, in rising order, just the pieces of its kind and call.  An        *)
(* adapter's step extends the story and the account together, the client   *)
(* takes the story's head, and the end closes every item.  An account of   *)
(* rising pieces leaves no choice of what a complete stream shows, which   *)
(* is then compared with the answer that was not streamed.                 *)
(*                                                                         *)
(* Transcripts.  While a transcript is read, the messages made of it are a  *)
(* history in which all is well but for the open calls of its last round    *)
(* (Half), and the calls that are pending or open are those that an output  *)
(* would still reach (Waiting).  What answers the open calls makes such a   *)
(* history whole; an end of a whole one that does not begin with a tool's   *)
(* message is whole, which is where trimming cuts; and a whole history is   *)
(* what Anthropic's turns and Gemini's names need.                          *)
(***************************************************************************)
EXTENDS MCHealth, MCClient, FiniteSetTheorems, NaturalsInduction, TLAPS

Fits(status, left, fails) ==
    /\ status \in {"HEALTHY", "UNHEALTHY"} => left = None
    /\ status = "COOLDOWN" => left # None
    /\ status = "HEALTHY" => fails < MaxFailures

Sound(k) == k \in Runtime /\ Fits(k.status, k.left, k.fails)

IInv ==
    /\ TypeOK
    /\ \A c \in Credentials : Sound(cred[c])

-----------------------------------------------------------------------------
(* Runtimes are changed a field at a time *)

\* What the assumptions say about the ranges of a runtime's fields.
LEMMA Ranges ==
    /\ 0 \in 0..MaxFailures /\ 0 < MaxFailures /\ MaxFailures \in Nat
    /\ 0 \in 0..MaxRung /\ MaxRung \in Nat
    /\ 0 \in 0..AutoRecoverAfter /\ AutoRecoverAfter \in 0..AutoRecoverAfter
    /\ 0 \in 0..RateLimitDecay /\ RateLimitDecay \in 0..RateLimitDecay
    /\ AutoRecoverAfter \in Nat /\ RateLimitDecay \in Nat /\ RestBound \in Nat
    /\ None \in (0..RestBound) \cup {None} /\ None \notin Nat
    /\ "HEALTHY" \in Statuses /\ "COOLDOWN" \in Statuses
    /\ "UNHEALTHY" \in Statuses /\ "DISABLED" \in Statuses
  BY TopologyAssumption, DurationAssumption DEF Statuses

\* Assigning a value of its type to one field of a runtime gives a runtime.
LEMMA FieldUpdate ==
    ASSUME NEW k \in Runtime
    PROVE  /\ \A v \in Statuses : [k EXCEPT !.status = v] \in Runtime
           /\ \A v \in BOOLEAN : [k EXCEPT !.enabled = v] \in Runtime
           /\ \A v \in (0..RestBound) \cup {None} : [k EXCEPT !.left = v] \in Runtime
           /\ \A v \in 0..MaxFailures : [k EXCEPT !.fails = v] \in Runtime
           /\ \A v \in 0..MaxRung : [k EXCEPT !.ladder = v] \in Runtime
           /\ \A v \in 0..AutoRecoverAfter : [k EXCEPT !.sinceErr = v] \in Runtime
           /\ \A v \in 0..RateLimitDecay : [k EXCEPT !.sinceLimit = v] \in Runtime
  BY DEF Runtime

\* The type of every field of a runtime.
LEMMA FieldTypes ==
    ASSUME NEW k \in Runtime
    PROVE  /\ k.status \in Statuses /\ k.enabled \in BOOLEAN
           /\ k.left \in (0..RestBound) \cup {None}
           /\ k.fails \in 0..MaxFailures /\ k.ladder \in 0..MaxRung
           /\ k.sinceErr \in 0..AutoRecoverAfter /\ k.sinceLimit \in 0..RateLimitDecay
  BY DEF Runtime

\* The counters stop at their bounds.
LEMMA CountersCapped ==
    ASSUME NEW k \in Runtime
    PROVE  /\ Capped(k.fails + 1, MaxFailures) \in 0..MaxFailures
           /\ NextRung(k) \in 0..MaxRung
           /\ Capped(k.sinceErr + 1, AutoRecoverAfter) \in 0..AutoRecoverAfter
           /\ Capped(k.sinceLimit + 1, RateLimitDecay) \in 0..RateLimitDecay
  BY FieldTypes, Ranges DEF NextRung, Capped, Lesser

-----------------------------------------------------------------------------
(* The transitions of one credential *)

\* Settling a runtime keeps it sound: timestamps that nothing reads are forgotten,
\* status, deadline and counters stay.
LEMMA SettledSound ==
    ASSUME NEW k, Sound(k) PROVE Sound(Settled(k))
  <1> USE DEF Sound
  <1>1. /\ (IF k.status = "UNHEALTHY" THEN k.sinceErr ELSE AutoRecoverAfter)
              \in 0..AutoRecoverAfter
        /\ (IF k.ladder > 0 THEN k.sinceLimit ELSE RateLimitDecay) \in 0..RateLimitDecay
    BY FieldTypes, Ranges
  <1>2. Settled(k) \in Runtime
    BY <1>1, FieldUpdate, Zenon DEF Settled
  <1>3. /\ Settled(k).status = k.status /\ Settled(k).left = k.left
        /\ Settled(k).fails = k.fails
    BY DEF Settled, Runtime
  <1>4. QED BY <1>2, <1>3

\* A runtime built at start-up or by a hot reload is sound.
LEMMA FreshSound ==
    ASSUME NEW on \in BOOLEAN PROVE Sound(Fresh(on))
  BY Ranges DEF Sound, Fits, Fresh, Runtime

\* health.py, on_success.
LEMMA OnSuccessSound ==
    ASSUME NEW k, Sound(k) PROVE Sound(OnSuccess(k))
  <1> USE DEF Sound
  <1> DEFINE m == [k EXCEPT !.status = "HEALTHY", !.left = None, !.fails = 0, !.ladder = 0]
  <1>1. m \in Runtime
    BY Ranges, FieldUpdate, Zenon
  <1>2. Fits(m.status, m.left, m.fails)
    BY Ranges DEF Fits, Runtime
  <1>3. QED BY <1>1, <1>2, SettledSound DEF OnSuccess

\* health.py, on_failure for CLIENT and INTERNAL errors.
LEMMA OnNoPenaltySound ==
    ASSUME NEW k, Sound(k) PROVE Sound(OnNoPenalty(k))
  <1> USE DEF Sound
  <1> DEFINE m == [k EXCEPT !.sinceErr = 0]
  <1>1. m \in Runtime /\ Fits(m.status, m.left, m.fails)
    BY Ranges, FieldUpdate DEF Runtime
  <1>2. QED BY <1>1, SettledSound DEF OnNoPenalty

\* health.py, on_failure for 401 and 403.
LEMMA OnAuthFailureSound ==
    ASSUME NEW k, Sound(k) PROVE Sound(OnAuthFailure(k))
  <1> USE DEF Sound
  <1> DEFINE m == OnAuthFailure(k)
  <1>1. m \in Runtime
    BY Ranges, CountersCapped, FieldUpdate, Zenon DEF OnAuthFailure
  <1>2. m.status = "UNHEALTHY" /\ m.left = None
    BY DEF OnAuthFailure, Runtime
  <1>3. QED BY <1>1, <1>2 DEF Fits

\* health.py, on_failure for a 429.
LEMMA OnThrottleSound ==
    ASSUME NEW k, Sound(k), NEW rest \in 1..RestBound PROVE Sound(OnThrottle(k, rest))
  <1> USE DEF Sound
  <1> DEFINE m == [k EXCEPT !.status = "COOLDOWN", !.left = rest, !.sinceErr = 0,
                            !.fails = Capped(@ + 1, MaxFailures),
                            !.ladder = NextRung(k), !.sinceLimit = 0]
  <1>1. rest \in (0..RestBound) \cup {None} /\ rest # None
    BY Ranges
  <1>2. m \in Runtime
    BY <1>1, Ranges, CountersCapped, FieldUpdate, Zenon
  <1>3. m.status = "COOLDOWN" /\ m.left = rest
    BY DEF Runtime
  <1>4. QED BY <1>1, <1>2, <1>3, SettledSound DEF OnThrottle, Fits

\* health.py, on_failure for transient errors.
LEMMA OnTransientSound ==
    ASSUME NEW k, Sound(k), NEW rest \in TransientRests PROVE Sound(OnTransient(k, rest))
  <1> USE DEF Sound
  <1> DEFINE counted == [k EXCEPT !.sinceErr = 0, !.fails = Capped(@ + 1, MaxFailures)]
             m == [counted EXCEPT !.status = "COOLDOWN", !.left = rest]
  <1>1. rest \in (0..RestBound) \cup {None} /\ rest # None
    BY Ranges, DurationAssumption
  <1>2. counted \in Runtime
    BY Ranges, CountersCapped, FieldUpdate, Zenon
  <1>3. counted.status = k.status /\ counted.left = k.left
    BY DEF Runtime
  <1>4. counted.fails < MaxFailures => Sound(counted)
    BY <1>2, <1>3 DEF Fits
  <1>5. Sound(m)
    <2> HIDE DEF counted
    <2>1. m \in Runtime
      BY <1>1, <1>2, Ranges, FieldUpdate, Zenon
    <2>2. m.status = "COOLDOWN" /\ m.left = rest
      BY <1>2 DEF Runtime
    <2>3. QED BY <1>1, <2>1, <2>2 DEF Fits
  <1>6. counted.fails >= MaxFailures \/ counted.fails < MaxFailures
    <2> HIDE DEF counted
    <2> QED BY <1>2, FieldTypes, Ranges
  <1>7. QED BY <1>4, <1>5, <1>6, SettledSound DEF OnTransient

\* health.py, mark_disabled.
LEMMA MarkDisabledSound ==
    ASSUME NEW k, Sound(k) PROVE Sound(MarkDisabled(k))
  <1> USE DEF Sound
  <1> DEFINE m == [k EXCEPT !.status = "DISABLED", !.enabled = FALSE]
  <1>1. m \in Runtime
    BY Ranges, FieldUpdate, Zenon
  <1>2. m.status = "DISABLED"
    BY DEF Runtime
  <1>3. QED BY <1>1, <1>2, SettledSound DEF MarkDisabled, Fits

\* health.py, mark_enabled.
LEMMA MarkEnabledSound ==
    ASSUME NEW k, Sound(k) PROVE Sound(MarkEnabled(k))
  <1> USE DEF Sound
  <1> DEFINE m == [k EXCEPT !.status = "HEALTHY", !.enabled = TRUE, !.left = None,
                            !.fails = 0, !.ladder = 0]
  <1>1. m \in Runtime
    BY Ranges, FieldUpdate, Zenon
  <1>2. Fits(m.status, m.left, m.fails)
    BY Ranges DEF Fits, Runtime
  <1>3. QED BY <1>1, <1>2, SettledSound DEF MarkEnabled

\* health.py, refresh.
LEMMA RefreshSound ==
    ASSUME NEW k, Sound(k) PROVE Sound(Refresh(k))
  <1> USE DEF Sound
  <1> DEFINE m == [k EXCEPT !.status = "HEALTHY", !.fails = 0,
                            !.left = IF k.status = "COOLDOWN" THEN None ELSE @,
                            !.ladder = IF k.status = "COOLDOWN" THEN 0 ELSE @]
  <1>1. CASE Recovers(k)
    <2>1. k.status = "UNHEALTHY" \/ k.status = "COOLDOWN"
      BY <1>1 DEF Recovers
    <2>2. /\ (IF k.status = "COOLDOWN" THEN None ELSE k.left) = None
          /\ (IF k.status = "COOLDOWN" THEN 0 ELSE k.ladder) \in 0..MaxRung
      BY <2>1, Ranges, FieldTypes DEF Fits
    <2>3. m \in Runtime
      BY <2>2, Ranges, FieldUpdate, Zenon
    <2>4. m.left = None /\ m.fails = 0
      BY <2>2 DEF Runtime
    <2>5. m.status = "HEALTHY"
      BY DEF Runtime
    <2>6. QED BY <1>1, <2>3, <2>4, <2>5, SettledSound, Ranges DEF Refresh, Fits
  <1>2. CASE ~Recovers(k)
    BY <1>2 DEF Refresh
  <1>3. QED BY <1>1, <1>2

\* Time passing leaves a runtime sound: a deadline counts down to 0, never away.
LEMMA AgeSound ==
    ASSUME NEW k, Sound(k) PROVE Sound(Age(k))
  <1> USE DEF Sound
  <1> DEFINE left == IF k.left \in {0, None} THEN k.left ELSE k.left - 1
  <1>1. left \in (0..RestBound) \cup {None} /\ (left = None <=> k.left = None)
    BY Ranges, FieldTypes
  <1>2. Age(k) \in Runtime
    BY <1>1, CountersCapped, FieldUpdate, Zenon DEF Age
  <1>3. Age(k).status = k.status /\ Age(k).fails = k.fails /\ Age(k).left = left
    BY DEF Age, Runtime
  <1>4. QED BY <1>1, <1>2, <1>3 DEF Fits

\* pool.py, _park_throttled_siblings.
LEMMA ParkedSound ==
    ASSUME NEW k, Sound(k), NEW rest \in 1..RestBound PROVE Sound(ParkedWith(k, rest))
  <1> USE DEF Sound
  <1>1. rest \in (0..RestBound) \cup {None} /\ rest # None
    BY Ranges
  <1>2. ParkedWith(k, rest) \in Runtime
    BY <1>1, Ranges, FieldUpdate, Zenon DEF ParkedWith
  <1>3. ParkedWith(k, rest).status = "COOLDOWN" /\ ParkedWith(k, rest).left = rest
    BY DEF ParkedWith, Runtime
  <1>4. QED BY <1>1, <1>2, <1>3 DEF Fits

\* Whatever upstream said, a 429 rests between one time unit and RestBound.
LEMMA CooldownForType ==
    ASSUME NEW t, NEW rung PROVE CooldownFor(t, rung) \subseteq 1..RestBound
  BY DEF CooldownFor, QuotaRest, RateLimitCooldown, Jittered

-----------------------------------------------------------------------------
(* The state as a whole *)

SoundRuntime == {k \in Runtime : Sound(k)}

\* The inductive invariant, part by part: the pool and the requests.
SoundPool == cred \in [Credentials -> SoundRuntime]
SoundRest ==
    /\ present \subseteq Credentials
    /\ req \in [Requests -> Flight]
    /\ ops \in 0..MaxOperatorSteps

LEMMA SoundRuntimeMember ==
    ASSUME NEW k PROVE k \in SoundRuntime <=> Sound(k)
  BY DEF SoundRuntime, Sound

\* The two parts are the invariant.
LEMMA IInvParts == IInv <=> SoundPool /\ SoundRest
  <1>1. ASSUME IInv PROVE SoundPool /\ SoundRest
    BY <1>1, SoundRuntimeMember DEF IInv, TypeOK, SoundPool, SoundRest
  <1>2. ASSUME SoundPool, SoundRest PROVE IInv
    BY <1>2, SoundRuntimeMember DEF IInv, TypeOK, SoundPool, SoundRest, SoundRuntime
  <1>3. QED BY <1>1, <1>2

\* The invariant gives the two properties of the runs.
LEMMA IInvImplies == IInv => TypeOK /\ DeadlineOnlyWhileResting /\ FailingKeyIsParked
  BY DEF IInv, Sound, Fits, DeadlineOnlyWhileResting, FailingKeyIsParked

\* A report changes one credential, or none when the key has left the pool.
LEMMA ReportSound ==
    ASSUME SoundPool, NEW c, NEW k, c \in Credentials => Sound(k), Report(c, k)
    PROVE  SoundPool'
  BY SoundRuntimeMember DEF SoundPool, Report

\* The bookkeeping of a request stays well typed, whatever follows the report.
LEMMA FlightTypes ==
    ASSUME SoundRest, NEW r \in Requests, req[r].key # None
    PROVE  /\ req[r].key \in Credentials
           /\ NextKey(r) => req' \in [Requests -> Flight]
           /\ GiveUp(r) => req' \in [Requests -> Flight]
           /\ SameKey(r) => req' \in [Requests -> Flight]
  <1> USE DEF SoundRest
  <1>1. req[r] \in Flight
    OBVIOUS
  <1>2. req[r].key \in Credentials
    BY <1>1 DEF Flight
  <1>3. 0 \in 0..MaxRetries
    BY DurationAssumption
  <1>4. ASSUME NextKey(r) PROVE req' \in [Requests -> Flight]
    <2> DEFINE f == [req EXCEPT ![r].key = None]
    <2>1. [req[r] EXCEPT !.key = None] \in Flight
      BY <1>1 DEF Flight
    <2>2. f \in [Requests -> Flight]
      BY <2>1
    <2> HIDE DEF f
    <2>3. [f[r] EXCEPT !.retries = 0] \in Flight
      BY <1>3, <2>2 DEF Flight
    <2>4. [f EXCEPT ![r].retries = 0] \in [Requests -> Flight]
      BY <2>2, <2>3
    <2>5. QED BY <1>4, <2>4 DEF NextKey, f
  <1>5. ASSUME GiveUp(r) PROVE req' \in [Requests -> Flight]
    BY <1>3, <1>5 DEF GiveUp, Idle, Flight
  <1>6. ASSUME SameKey(r) PROVE req' \in [Requests -> Flight]
    <2>1. req[r].retries + 1 \in 0..MaxRetries
      BY <1>1, <1>6, DurationAssumption DEF SameKey, Flight
    <2>2. [req[r] EXCEPT !.retries = @ + 1] \in Flight
      BY <1>1, <2>1 DEF Flight
    <2>3. QED BY <1>6, <2>2 DEF SameKey
  <1>7. QED BY <1>2, <1>4, <1>5, <1>6

\* Every step of a request keeps the pool sound.
LEMMA RequestStepInv ==
    ASSUME SoundPool, SoundRest, NEW r \in Requests, RequestStep(r)
    PROVE  SoundPool' /\ SoundRest'
  <1> DEFINE c == req[r].key
  <1>0. \A x \in Credentials : Sound(cred[x])
    BY SoundRuntimeMember DEF SoundPool
  <1>1. ASSUME NEW p \in Providers, TakeCandidates(r, p) PROVE SoundPool' /\ SoundRest'
    <2>1. SoundPool'
      BY <1>0, <1>1, RefreshSound, SoundRuntimeMember DEF TakeCandidates, SoundPool
    <2>2. PICK S \in SUBSET {x \in KeysOf(p) : IsUsable(cred'[x])} :
              req' = [req EXCEPT ![r].keys = S]
      BY <1>1 DEF TakeCandidates
    <2>3. S \subseteq Credentials
      BY <2>2 DEF SoundRest, KeysOf
    <2>4. req[r] \in Flight
      BY DEF SoundRest
    <2>5. [req[r] EXCEPT !.keys = S] \in Flight
      BY <2>3, <2>4 DEF Flight
    <2>6. req' \in [Requests -> Flight]
      BY <2>2, <2>5 DEF SoundRest
    <2>7. QED BY <1>1, <2>1, <2>6 DEF TakeCandidates, SoundRest
  <1>2. ASSUME Dispatch(r) PROVE SoundPool' /\ SoundRest'
    <2>1. PICK x \in req[r].keys :
              req' = [req EXCEPT ![r] = [keys |-> @.keys \ {x}, key |-> x, retries |-> 0]]
      BY <1>2 DEF Dispatch
    <2>2. req[r] \in Flight /\ 0 \in 0..MaxRetries
      BY DurationAssumption DEF SoundRest
    <2>3. [keys |-> req[r].keys \ {x}, key |-> x, retries |-> 0] \in Flight
      BY <2>1, <2>2 DEF Flight
    <2>4. QED BY <1>2, <2>1, <2>3 DEF Dispatch, SoundPool, SoundRest
  <1>3. ASSUME ReportSuccess(r) PROVE SoundPool' /\ SoundRest'
    <2>1. SoundPool'
      BY <1>0, <1>3, OnSuccessSound, ReportSound DEF ReportSuccess
    <2>2. QED BY <1>3, <2>1, FlightTypes DEF ReportSuccess, SoundRest
  <1>4. ASSUME ReportNoPenalty(r) PROVE SoundPool' /\ SoundRest'
    <2>1. SoundPool'
      BY <1>0, <1>4, OnNoPenaltySound, ReportSound DEF ReportNoPenalty
    <2>2. QED BY <1>4, <2>1, FlightTypes DEF ReportNoPenalty, SoundRest
  <1>5. ASSUME ReportAuthFailure(r) PROVE SoundPool' /\ SoundRest'
    <2>1. SoundPool'
      BY <1>0, <1>5, OnAuthFailureSound, ReportSound DEF ReportAuthFailure
    <2>2. QED BY <1>5, <2>1, FlightTypes DEF ReportAuthFailure, SoundRest
  <1>6. ASSUME NEW t \in Throttles, ReportThrottle(r, t) PROVE SoundPool' /\ SoundRest'
    <2>1. PICK rest \in CooldownFor(t, NextRung(cred[c])) :
              cred' = IF c \in present THEN Throttled(c, t.kind, rest) ELSE cred
      BY <1>6 DEF ReportThrottle
    <2>2. rest \in 1..RestBound
      BY <2>1, CooldownForType
    <2>3. SoundPool'
      BY <1>0, <2>1, <2>2, OnThrottleSound, ParkedSound, SoundRuntimeMember
         DEF Throttled, SoundPool
    <2>4. QED BY <1>6, <2>3, FlightTypes DEF ReportThrottle, SoundRest
  <1>7. ASSUME ReportTransient(r) PROVE SoundPool' /\ SoundRest'
    <2>1. PICK rest \in TransientRests : Report(c, OnTransient(cred[c], rest))
      BY <1>7 DEF ReportTransient
    <2>2. SoundPool'
      BY <1>0, <2>1, OnTransientSound, ReportSound
    <2>3. QED BY <1>7, <2>2, FlightTypes DEF ReportTransient, SoundRest
  <1>8. ASSUME Abandon(r) PROVE SoundPool' /\ SoundRest'
    <2>1. req' \in [Requests -> Flight]
      BY <1>8, DurationAssumption DEF Abandon, GiveUp, Idle, Flight, SoundRest
    <2>2. QED BY <1>8, <2>1 DEF Abandon, SoundPool, SoundRest
  <1>9. QED BY <1>1, <1>2, <1>3, <1>4, <1>5, <1>6, <1>7, <1>8 DEF RequestStep

\* So does every probe verdict, however late it is applied.
LEMMA ProbeStepInv ==
    ASSUME SoundPool, SoundRest, NEW c \in Credentials, ProbeStep(c)
    PROVE  SoundPool' /\ SoundRest'
  <1>0. Sound(cred[c])
    BY SoundRuntimeMember DEF SoundPool
  <1>1. /\ MarkEnabled(cred[c]) \in SoundRuntime
        /\ OnNoPenalty(cred[c]) \in SoundRuntime
        /\ OnAuthFailure(cred[c]) \in SoundRuntime
    BY <1>0, MarkEnabledSound, OnNoPenaltySound, OnAuthFailureSound, SoundRuntimeMember
  <1>2. CASE ProbeHealthy(c)
    BY <1>1, <1>2 DEF ProbeHealthy, SoundPool, SoundRest
  <1>3. CASE ProbeFlaky(c)
    BY <1>1, <1>3 DEF ProbeFlaky, SoundPool, SoundRest
  <1>4. CASE ProbeRejected(c)
    BY <1>1, <1>4 DEF ProbeRejected, SoundPool, SoundRest
  <1>5. QED BY <1>2, <1>3, <1>4 DEF ProbeStep

\* And every step of the operator, hot reloads included.
LEMMA AdminStepInv ==
    ASSUME SoundPool, SoundRest, AdminStep
    PROVE  SoundPool' /\ SoundRest'
  <1>0. \A x \in Credentials : Sound(cred[x])
    BY SoundRuntimeMember DEF SoundPool
  <1>1. OperatorStep => ops' \in 0..MaxOperatorSteps
    BY DurationAssumption DEF OperatorStep, SoundRest
  <1>2. ASSUME NEW c \in Credentials, Enable(c) PROVE SoundPool' /\ SoundRest'
    <2>1. MarkEnabled(cred[c]) \in SoundRuntime
      BY <1>0, MarkEnabledSound, SoundRuntimeMember
    <2>2. QED BY <1>1, <1>2, <2>1 DEF Enable, SoundPool, SoundRest
  <1>3. ASSUME NEW c \in Credentials, Disable(c) PROVE SoundPool' /\ SoundRest'
    <2>1. MarkDisabled(cred[c]) \in SoundRuntime
      BY <1>0, MarkDisabledSound, SoundRuntimeMember
    <2>2. QED BY <1>1, <1>3, <2>1 DEF Disable, SoundPool, SoundRest
  <1>4. ASSUME NEW p \in Providers, InvalidateCooldowns(p) PROVE SoundPool' /\ SoundRest'
    <2>1. SoundPool'
      BY <1>0, <1>4, MarkEnabledSound, SoundRuntimeMember DEF InvalidateCooldowns, SoundPool
    <2>2. QED BY <1>1, <1>4, <2>1 DEF InvalidateCooldowns, SoundRest
  <1>5. ASSUME NEW on \in SUBSET Credentials, NEW off \in SUBSET (Credentials \ on),
               Reload(on, off)
        PROVE  SoundPool' /\ SoundRest'
    <2>1. SoundPool'
      BY <1>5, FreshSound, SoundRuntimeMember DEF Reload, SoundPool
    <2>2. QED BY <1>1, <1>5, <2>1 DEF Reload, SoundRest
  <1>6. QED BY <1>2, <1>3, <1>4, <1>5 DEF AdminStep

\* The start-up state is sound.
LEMMA InitIInv == Init => IInv
  <1> SUFFICES ASSUME Init PROVE SoundPool /\ SoundRest
    BY IInvParts
  <1>1. \A on \in BOOLEAN : Fresh(on) \in SoundRuntime
    BY FreshSound, SoundRuntimeMember
  <1>2. SoundPool
    BY <1>1 DEF Init, SoundPool
  <1>3. Idle \in Flight
    BY DurationAssumption DEF Idle, Flight
  <1>4. QED BY <1>2, <1>3, DurationAssumption DEF Init, SoundRest

\* Every step preserves the inductive invariant.
LEMMA NextIInv == IInv /\ [Next]_vars => IInv'
  <1> SUFFICES ASSUME SoundPool, SoundRest, [Next]_vars PROVE SoundPool' /\ SoundRest'
    <2>1. (SoundPool /\ SoundRest)' => IInv'
      BY IInvParts, PTL
    <2>2. QED BY <2>1, IInvParts
  <1>1. CASE \E r \in Requests : RequestStep(r)
    BY <1>1, RequestStepInv
  <1>2. CASE \E c \in Credentials : ProbeStep(c)
    BY <1>2, ProbeStepInv
  <1>3. CASE AdminStep
    BY <1>3, AdminStepInv
  <1>4. CASE Tick
    BY <1>4, AgeSound, SoundRuntimeMember DEF Tick, SoundPool, SoundRest
  <1>5. CASE UNCHANGED vars
    BY <1>5 DEF vars, SoundPool, SoundRest
  <1>6. QED BY <1>1, <1>2, <1>3, <1>4, <1>5 DEF Next

-----------------------------------------------------------------------------
(* Theorems *)

\* The pool keeps its types and its inductive invariant, for every number of keys,
\* providers and concurrent requests and every configuration of the durations.
THEOREM Inductive == Spec => []IInv
  BY InitIInv, NextIInv, PTL DEF Spec

\* Every field of every runtime stays in its range.
THEOREM TypeCorrect == Spec => []TypeOK
  BY Inductive, IInvImplies, PTL

\* A key that can be handed out or was rejected carries no rest deadline, and a
\* resting key always has one (health.py, all transitions).
THEOREM DeadlinesFitStatuses == Spec => []DeadlineOnlyWhileResting
  BY Inductive, IInvImplies, PTL

\* No path of reports, probes, operators and reloads leaves a key HEALTHY that has
\* failed max_consecutive_failures times in a row.
THEOREM FailingKeysAreParked == Spec => []FailingKeyIsParked
  BY Inductive, IInvImplies, PTL

\* One 429 of request r, as far as other keys are concerned.
LEMMA ThrottleReach ==
    ASSUME IInv, NEW r \in Requests, NEW t \in Throttles, ReportThrottle(r, t)
    PROVE  LET c == req[r].key
               scope == EffectiveScope(c, t.kind)
           IN  \A x \in Credentials \ {c} :
                  cred'[x] # cred[x] => x \in Siblings(c, scope) /\ cred[x].status = "HEALTHY"
  BY DEF ReportThrottle, Throttled, IInv, TypeOK

\* A 429 changes no key outside its bucket and none that was already out (pool.py,
\* _park_throttled_siblings).
THEOREM BlastRadiusBounded == Spec => BlastRadius
  <1> DEFINE Bounded ==
        \A r \in Requests : Told(r) => \A t \in Throttles : ReportThrottle(r, t) =>
          LET c == req[r].key IN
          \A x \in Credentials \ {c} : cred'[x] # cred[x] =>
              /\ ProviderOf[x] = ProviderOf[c]
              /\ cred[x].status = "HEALTHY"
              /\ \/ ThrottleScope[t.kind] = "provider"
                 \/ ThrottleScope[t.kind] = "account" /\ AccountOf[x] # None
                                                       /\ AccountOf[x] = AccountOf[c]
  <1>1. IInv => Bounded
    <2> SUFFICES ASSUME IInv, NEW r \in Requests, NEW t \in Throttles, ReportThrottle(r, t),
                        NEW x \in Credentials \ {req[r].key}, cred'[x] # cred[x]
                 PROVE  LET c == req[r].key IN
                        /\ ProviderOf[x] = ProviderOf[c]
                        /\ cred[x].status = "HEALTHY"
                        /\ \/ ThrottleScope[t.kind] = "provider"
                           \/ ThrottleScope[t.kind] = "account" /\ AccountOf[x] # None
                                                                 /\ AccountOf[x] = AccountOf[c]
      OBVIOUS
    <2>1. x \in Siblings(req[r].key, EffectiveScope(req[r].key, t.kind))
          /\ cred[x].status = "HEALTHY"
      BY ThrottleReach
    <2>2. req[r].key \in present
      BY DEF ReportThrottle, Throttled
    <2>3. QED BY <2>1, <2>2 DEF Siblings, KeysOf, EffectiveScope
  <1>2. QED BY <1>1, Inductive, PTL DEF BlastRadius

\* After a 429 no registered key of the shared bucket is left HEALTHY (pool.py,
\* _park_throttled_siblings).
THEOREM SharedBucketsRest == Spec => SharedBucketRests
  <1> DEFINE Rests ==
        \A r \in Requests : Told(r) => \A t \in Throttles : ReportThrottle(r, t) =>
          LET c == req[r].key IN
          \A x \in present :
              /\ c \in present /\ ProviderOf[x] = ProviderOf[c]
              /\ \/ ThrottleScope[t.kind] = "provider"
                 \/ ThrottleScope[t.kind] = "account" /\ AccountOf[c] # None
                                                       /\ AccountOf[x] = AccountOf[c]
              => cred'[x].status # "HEALTHY"
  <1>1. IInv => Rests
    <2> SUFFICES ASSUME IInv, NEW r \in Requests, NEW t \in Throttles, ReportThrottle(r, t),
                        NEW x \in present, req[r].key \in present,
                        ProviderOf[x] = ProviderOf[req[r].key],
                        \/ ThrottleScope[t.kind] = "provider"
                        \/ ThrottleScope[t.kind] = "account" /\ AccountOf[req[r].key] # None
                                                   /\ AccountOf[x] = AccountOf[req[r].key]
                 PROVE  cred'[x].status # "HEALTHY"
      OBVIOUS
    <2> DEFINE c == req[r].key
    <2>1. x \in Credentials /\ Sound(cred[x]) /\ cred[x] \in Runtime
      BY DEF IInv, TypeOK
    <2>2. x \in Siblings(c, EffectiveScope(c, t.kind)) \/ x = c
      BY DEF Siblings, KeysOf, EffectiveScope
    <2>3. PICK rest \in CooldownFor(t, NextRung(cred[c])) : cred' = Throttled(c, t.kind, rest)
      BY DEF ReportThrottle
    <2>4. CASE x = c
      <3>1. Settled([cred[x] EXCEPT !.status = "COOLDOWN", !.left = rest, !.sinceErr = 0,
                       !.fails = Capped(@ + 1, MaxFailures), !.ladder = NextRung(cred[x]),
                       !.sinceLimit = 0]).status = "COOLDOWN"
        BY <2>1 DEF Settled, Runtime
      <3>2. QED BY <2>1, <2>3, <2>4, <3>1 DEF Throttled, OnThrottle
    <2>5. CASE x # c /\ cred[x].status = "HEALTHY"
      <3>1. ParkedWith(cred[x], rest).status = "COOLDOWN"
        BY <2>1 DEF ParkedWith, Runtime
      <3>2. QED BY <2>1, <2>2, <2>3, <2>5, <3>1 DEF Throttled
    <2>6. CASE x # c /\ cred[x].status # "HEALTHY"
      BY <2>1, <2>3, <2>6 DEF Throttled
    <2>7. QED BY <2>4, <2>5, <2>6
  <1>2. QED BY <1>1, Inductive, PTL DEF SharedBucketRests

-----------------------------------------------------------------------------
(* Deployments and their health (DeploymentHealth), for any deployments, requests, threshold, *)
(* ladder and decay window.                                                                   *)

Earned(h) == h.left > 0 => h.fails >= Threshold /\ h.left <= Ladder[Deployment!Rung(h.fails)]

Younger == \A d \in Deployments : \A r \in Visitors :
              health[d].left > 0 /\ dep[r] = d => health[d].since <= age[r]

HealthInv ==
    /\ Deployment!TypeOK
    /\ \A d \in Deployments : Earned(health[d])
    /\ Younger

-----------------------------------------------------------------------------

\* The assumptions, as the provers need them.
LEMMA Bounds ==
    /\ Threshold \in Nat /\ Threshold >= 1 /\ Rungs \in Nat /\ Rungs >= 1
    /\ Deployment!FailCap \in Nat /\ Deployment!FailCap = Threshold + Rungs - 1
    /\ Deployment!Top \in Nat /\ \A i \in 1..Rungs : Ladder[i] \in Nat /\ Ladder[i] >= 1 /\ Ladder[i] <= Deployment!Top
    /\ DecayAfter \in Nat /\ Cooldown \in Nat /\ HoldLimit \in Nat /\ HoldLimit <= DecayAfter
  BY HealthAssumption DEF Deployment!Proper, Deployment!FailCap, Deployment!Top

\* The fields of a deployment's health.
LEMMA HealthFields ==
    ASSUME NEW h \in Deployment!Health
    PROVE  /\ h.fails \in 0..Deployment!FailCap /\ h.left \in 0..Deployment!Top
           /\ h.since \in 0..(DecayAfter + 1) /\ h.cool \in 0..Cooldown
  BY DEF Deployment!Health

\* One field at a time.
LEMMA HealthUpdate ==
    ASSUME NEW h \in Deployment!Health
    PROVE  /\ \A v \in 0..Deployment!FailCap : [h EXCEPT !.fails = v] \in Deployment!Health
           /\ \A v \in 0..Deployment!Top : [h EXCEPT !.left = v] \in Deployment!Health
           /\ \A v \in 0..(DecayAfter + 1) : [h EXCEPT !.since = v] \in Deployment!Health
           /\ \A v \in 0..Cooldown : [h EXCEPT !.cool = v] \in Deployment!Health
  BY DEF Deployment!Health

\* The rung of a count that reached the threshold is on the ladder, and more failures
\* are never a lower rung.
LEMMA RungOnLadder ==
    ASSUME NEW n \in 0..Deployment!FailCap, n >= Threshold
    PROVE  /\ Deployment!Rung(n) \in 1..Rungs
           /\ \A k \in 0..Deployment!FailCap : k >= n => Ladder[Deployment!Rung(n)] <= Ladder[Deployment!Rung(k)]
  <1>1. ASSUME NEW k \in 0..Deployment!FailCap, k >= Threshold
        PROVE  Deployment!Rung(k) = k - Threshold + 1 /\ Deployment!Rung(k) \in 1..Rungs
    BY <1>1, Bounds DEF Deployment!Rung, Deployment!Lesser
  <1>2. QED BY <1>1, Bounds, HealthAssumption DEF Deployment!Proper

\* A failure counts one more, unless the count was stale.
LEMMA CountUp ==
    ASSUME NEW h \in Deployment!Health
    PROVE  /\ Deployment!CountedFails(h) \in 0..Deployment!FailCap
           /\ ~Deployment!Stale(h) => Deployment!CountedFails(h) >= h.fails
  BY HealthFields, Bounds DEF Deployment!CountedFails, Deployment!Lesser, Deployment!Stale

\* What a failure does to the record of its deployment.
LEMMA FailureEffect ==
    ASSUME NEW h \in Deployment!Health, Earned(h), NEW kind \in Deployment!Failures,
           h.left > 0 => ~Deployment!Stale(h)
    PROVE  LET g == Deployment!AfterFailure(h, kind) IN
           /\ g \in Deployment!Health
           /\ Earned(g)
           /\ g.left >= h.left /\ g.cool >= h.cool
           /\ g.left > 0 => (g.since = 0 \/ (g.left = h.left /\ g.since = h.since))
  <1> DEFINE fails == Deployment!CountedFails(h)
             left == IF fails >= Threshold THEN Ladder[Deployment!Rung(fails)] ELSE h.left
  <1>1. CASE kind = "unworthy"
    BY <1>1, HealthFields, Bounds DEF Deployment!AfterFailure
  <1>2. CASE kind # "unworthy"
    <2> DEFINE parked == IF kind = "parking" THEN [h EXCEPT !.cool = Cooldown] ELSE h
               g == [parked EXCEPT !.fails = fails, !.since = 0, !.left = left]
    <2>1. fails \in 0..Deployment!FailCap
      BY CountUp
    <2>2. left \in 0..Deployment!Top
      BY <2>1, RungOnLadder, HealthFields, Bounds
    <2>3. parked \in Deployment!Health /\ parked.left = h.left /\ parked.cool >= h.cool
      BY HealthFields, HealthUpdate, Bounds DEF Deployment!Health
    <2>4. 0 \in 0..(DecayAfter + 1)
      BY Bounds
    <2>5. g = Deployment!AfterFailure(h, kind)
      BY <1>2, <2>3 DEF Deployment!AfterFailure
    <2> HIDE DEF parked, left, fails
    <2>6. g \in Deployment!Health
      BY <2>1, <2>2, <2>3, <2>4, HealthUpdate, Zenon
    <2>7. g.fails = fails /\ g.left = left /\ g.since = 0 /\ g.cool = parked.cool
      BY <2>3 DEF Deployment!Health
    <2>8. left >= h.left
      <3>1. CASE h.left > 0
        <4>1. fails >= h.fails /\ h.fails >= Threshold /\ h.left <= Ladder[Deployment!Rung(h.fails)]
          BY <3>1, CountUp DEF Earned, fails
        <4>2. h.fails \in 0..Deployment!FailCap
          BY HealthFields
        <4>3. Ladder[Deployment!Rung(h.fails)] <= Ladder[Deployment!Rung(fails)]
          BY <2>1, <4>1, <4>2, RungOnLadder
        <4>4. Deployment!Rung(fails) \in 1..Rungs /\ Deployment!Rung(h.fails) \in 1..Rungs /\ fails >= Threshold
          BY <2>1, <4>1, <4>2, RungOnLadder, Bounds
        <4>5. QED BY <4>1, <4>3, <4>4, HealthFields, Bounds DEF left
      <3>2. CASE ~(h.left > 0)
        BY <2>2, <3>2, HealthFields
      <3>3. QED BY <3>1, <3>2
    <2>9. Earned(g)
      <3>1. CASE fails >= Threshold
        BY <2>1, <2>7, <3>1, RungOnLadder, Bounds DEF Earned, left
      <3>2. CASE ~(fails >= Threshold)
        <4>1. ~(h.left > 0)
          BY <2>1, <3>2, CountUp, HealthFields, Bounds DEF Earned, fails
        <4>2. QED BY <2>7, <3>2, <4>1 DEF Earned, left
      <3>3. QED BY <3>1, <3>2
    <2>10. QED BY <2>3, <2>5, <2>6, <2>7, <2>8, <2>9
  <1>3. QED BY <1>1, <1>2

\* What a success does to it.
LEMMA SuccessEffect ==
    ASSUME NEW h \in Deployment!Health
    PROVE  Deployment!AfterSuccess(h) \in Deployment!Health /\ Deployment!AfterSuccess(h).left = 0
  <1>1. 0 \in 0..Deployment!FailCap /\ 0 \in 0..Deployment!Top
    BY Bounds
  <1>2. Deployment!AfterSuccess(h) \in Deployment!Health
    BY <1>1, HealthUpdate, Zenon DEF Deployment!AfterSuccess
  <1>3. QED BY <1>2 DEF Deployment!AfterSuccess, Deployment!Health

\* What the passing of time does to it.
LEMMA TickEffect ==
    ASSUME NEW h \in Deployment!Health, Earned(h)
    PROVE  LET g == [h EXCEPT !.left = Deployment!Below(@, 1), !.cool = Deployment!Below(@, 1),
                              !.since = Deployment!Lesser(@ + 1, DecayAfter + 1)] IN
           /\ g \in Deployment!Health /\ Earned(g)
           /\ g.left > 0 => h.left > 0
           /\ g.since <= h.since + 1
  <1> DEFINE left == Deployment!Below(h.left, 1)
             cool == Deployment!Below(h.cool, 1)
             since == Deployment!Lesser(h.since + 1, DecayAfter + 1)
             g == [h EXCEPT !.left = left, !.cool = cool, !.since = since]
  <1>1. /\ left \in 0..Deployment!Top /\ cool \in 0..Cooldown /\ since \in 0..(DecayAfter + 1)
        /\ left <= h.left /\ since <= h.since + 1
    BY HealthFields, Bounds DEF Deployment!Below, Deployment!Lesser
  <1> HIDE DEF left, cool, since
  <1>2. g \in Deployment!Health
    BY <1>1, HealthUpdate, Zenon
  <1>3. g.left = left /\ g.since = since /\ g.fails = h.fails
    BY DEF Deployment!Health
  <1>4. Earned(g)
    <2>1. CASE g.left > 0
      <3>1. h.fails >= Threshold /\ h.left <= Ladder[Deployment!Rung(h.fails)] /\ h.fails \in 0..Deployment!FailCap
        BY <1>1, <1>3, <2>1, HealthFields, Bounds DEF Earned
      <3>2. Ladder[Deployment!Rung(h.fails)] \in Nat
        BY <3>1, RungOnLadder, Bounds
      <3>3. QED BY <1>1, <1>3, <3>1, <3>2, HealthFields, Bounds DEF Earned
    <2>2. QED BY <2>1 DEF Earned
  <1>5. QED BY <1>1, <1>2, <1>3, <1>4, HealthFields, Bounds DEF left, cool, since

-----------------------------------------------------------------------------

LEMMA InitHealthInv == Deployment!Init => HealthInv
  <1> SUFFICES ASSUME Deployment!Init PROVE HealthInv
    OBVIOUS
  <1>1. [fails |-> 0, left |-> 0, since |-> DecayAfter + 1, cool |-> 0] \in Deployment!Health
    BY Bounds DEF Deployment!Health
  <1>2. Deployment!TypeOK
    BY <1>1, Bounds DEF Deployment!Init, Deployment!TypeOK
  <1>3. QED BY <1>2 DEF Deployment!Init, HealthInv, Earned, Younger

\* A deployment in quarantine is never found stale by a request that holds it.
LEMMA HolderNotStale ==
    ASSUME HealthInv, NEW r \in Visitors, dep[r] # None
    PROVE  /\ dep[r] \in Deployments
           /\ health[dep[r]].left > 0 => ~Deployment!Stale(health[dep[r]])
  <1>1. dep[r] \in Deployments /\ age[r] \in 0..HoldLimit /\ health[dep[r]] \in Deployment!Health
    BY DEF HealthInv, Deployment!TypeOK
  <1>2. health[dep[r]].left > 0 => health[dep[r]].since <= age[r]
    BY <1>1 DEF HealthInv, Younger
  <1>3. QED BY <1>1, <1>2, HealthFields, Bounds DEF Deployment!Stale

\* Failures keep the invariant and shorten nothing.
LEMMA FailStep ==
    ASSUME HealthInv, NEW r \in Visitors, NEW kind \in Deployment!Failures, Deployment!Fail(r, kind)
    PROVE  /\ HealthInv'
           /\ \A d \in Deployments : /\ health'[d].left >= health[d].left
                                     /\ health'[d].cool >= health[d].cool
  <1> DEFINE d0 == dep[r]
             g == Deployment!AfterFailure(health[d0], kind)
  <1>1. d0 \in Deployments /\ (health[d0].left > 0 => ~Deployment!Stale(health[d0]))
    BY HolderNotStale DEF Deployment!Fail
  <1>2. health[d0] \in Deployment!Health /\ Earned(health[d0])
    BY <1>1 DEF HealthInv, Deployment!TypeOK
  <1>3. /\ g \in Deployment!Health /\ Earned(g)
        /\ g.left >= health[d0].left /\ g.cool >= health[d0].cool
        /\ g.left > 0 => (g.since = 0
                          \/ (g.left = health[d0].left /\ g.since = health[d0].since))
    BY <1>1, <1>2, FailureEffect
  <1>4. health' = [health EXCEPT ![d0] = g]
    BY DEF Deployment!Fail
  <1> HIDE DEF g
  <1>5. /\ dep' \in [Visitors -> Deployments \cup {None}] /\ age' \in [Visitors -> 0..HoldLimit]
        /\ \A q \in Visitors : dep'[q] \in Deployments => dep'[q] = dep[q] /\ age'[q] = age[q]
    <2>1. CASE UNCHANGED <<dep, age>>
      BY <2>1 DEF HealthInv, Deployment!TypeOK
    <2>2. CASE Deployment!Left(r)
      BY <2>2, Bounds, HealthAssumption DEF Deployment!Proper, Deployment!Left, HealthInv, Deployment!TypeOK
    <2>3. QED BY <2>1, <2>2 DEF Deployment!Fail
  <1>6. Deployment!TypeOK'
    BY <1>1, <1>3, <1>4, <1>5 DEF Deployment!Fail, HealthInv, Deployment!TypeOK
  <1>7. \A d \in Deployments : Earned(health'[d])
    BY <1>1, <1>3, <1>4 DEF HealthInv, Deployment!TypeOK
  <1>8. Younger'
    <2> SUFFICES ASSUME NEW d \in Deployments, NEW q \in Visitors,
                        health'[d].left > 0, dep'[q] = d
                 PROVE  health'[d].since <= age'[q]
      BY DEF Younger
    <2>1. dep[q] = d /\ age'[q] = age[q] /\ age[q] \in Nat
      BY <1>5 DEF HealthInv, Deployment!TypeOK
    <2>2. CASE d = d0
      BY <1>1, <1>3, <1>4, <2>1, <2>2 DEF HealthInv, Deployment!TypeOK, Younger
    <2>3. CASE d # d0
      BY <1>1, <1>4, <2>1, <2>3 DEF HealthInv, Deployment!TypeOK, Younger
    <2>4. QED BY <2>2, <2>3
  <1>9. \A d \in Deployments : /\ health'[d].left >= health[d].left
                               /\ health'[d].cool >= health[d].cool
    BY <1>1, <1>3, <1>4, HealthFields DEF HealthInv, Deployment!TypeOK
  <1>10. QED BY <1>6, <1>7, <1>8, <1>9 DEF HealthInv

\* The passing of time keeps the invariant: everyone grows older together.
LEMMA TickStep ==
    ASSUME HealthInv, Deployment!Tick
    PROVE  HealthInv'
  <1> DEFINE older(h) == [h EXCEPT !.left = Deployment!Below(@, 1), !.cool = Deployment!Below(@, 1),
                                   !.since = Deployment!Lesser(@ + 1, DecayAfter + 1)]
  <1>1. \A d \in Deployments :
          /\ health'[d] = older(health[d])
          /\ older(health[d]) \in Deployment!Health /\ Earned(older(health[d]))
          /\ older(health[d]).left > 0 => health[d].left > 0
          /\ older(health[d]).since <= health[d].since + 1
    BY TickEffect DEF Deployment!Tick, HealthInv, Deployment!TypeOK
  <1>2. age' \in [Visitors -> 0..HoldLimit]
    <2>1. \A r \in Visitors : (IF dep[r] = None THEN 0 ELSE age[r] + 1) \in 0..HoldLimit
      <3> TAKE r \in Visitors
      <3>1. age[r] \in 0..HoldLimit /\ (dep[r] # None => age[r] < HoldLimit)
        BY DEF Deployment!Tick, HealthInv, Deployment!TypeOK
      <3>2. QED BY <3>1, Bounds
    <2>2. QED BY <2>1 DEF Deployment!Tick
  <1>3. health' \in [Deployments -> Deployment!Health]
    BY <1>1 DEF Deployment!Tick
  <1>4. Deployment!TypeOK'
    BY <1>2, <1>3 DEF Deployment!Tick, HealthInv, Deployment!TypeOK
  <1>5. Younger'
    <2> SUFFICES ASSUME NEW d \in Deployments, NEW r \in Visitors,
                        health'[d].left > 0, dep'[r] = d
                 PROVE  health'[d].since <= age'[r]
      BY DEF Younger
    <2>1. dep[r] = d /\ age'[r] = age[r] + 1
      BY HealthAssumption DEF Deployment!Proper, Deployment!Tick
    <2>2. health[d].since <= age[r]
      BY <1>1, <2>1 DEF HealthInv, Younger
    <2>3. age[r] \in Nat /\ health[d].since \in Nat /\ health'[d].since \in Nat
      BY <1>3, HealthFields, Bounds DEF HealthInv, Deployment!TypeOK
    <2>4. health'[d].since <= health[d].since + 1
      BY <1>1
    <2>5. QED BY <2>1, <2>2, <2>3, <2>4
  <1>6. QED BY <1>1, <1>4, <1>5 DEF HealthInv

LEMMA NextHealthInv == HealthInv /\ [Deployment!Next]_Deployment!vars => HealthInv'
  <1> SUFFICES ASSUME HealthInv, [Deployment!Next]_Deployment!vars PROVE HealthInv'
    OBVIOUS
  <1>1. ASSUME NEW r \in Visitors, NEW d \in Deployments, Deployment!Visit(r, d) PROVE HealthInv'
    <2>1. Deployment!TypeOK'
      BY <1>1, Bounds DEF Deployment!Visit, HealthInv, Deployment!TypeOK
    <2>2. ~(health[d].left > 0)
      BY <1>1 DEF Deployment!Visit, Deployment!CoolingDown
    <2>3. Younger'
      BY <1>1, <2>2 DEF Deployment!Visit, HealthInv, Deployment!TypeOK, Younger
    <2>4. QED BY <1>1, <2>1, <2>3 DEF Deployment!Visit, HealthInv
  <1>2. ASSUME NEW r \in Visitors, NEW kind \in Deployment!Failures, Deployment!Fail(r, kind) PROVE HealthInv'
    BY <1>2, FailStep
  <1>3. ASSUME NEW r \in Visitors, Deployment!Succeed(r) PROVE HealthInv'
    <2> DEFINE g == Deployment!AfterSuccess(health[dep[r]])
    <2>1. dep[r] \in Deployments /\ health[dep[r]] \in Deployment!Health
      BY <1>3 DEF Deployment!Succeed, HealthInv, Deployment!TypeOK
    <2>2. g \in Deployment!Health /\ g.left = 0
      BY <2>1, SuccessEffect
    <2> HIDE DEF g
    <2>3. health' = [health EXCEPT ![dep[r]] = g]
      BY <1>3 DEF Deployment!Succeed, g
    <2>4. /\ dep' \in [Visitors -> Deployments \cup {None}]
          /\ age' \in [Visitors -> 0..HoldLimit]
          /\ \A q \in Visitors : dep'[q] \in Deployments => dep'[q] = dep[q] /\ age'[q] = age[q]
      BY <1>3, HealthAssumption DEF Deployment!Proper, Deployment!Succeed, Deployment!Left, HealthInv, Deployment!TypeOK
    <2>5. Deployment!TypeOK'
      BY <1>3, <2>1, <2>2, <2>3, <2>4 DEF Deployment!Succeed, HealthInv, Deployment!TypeOK
    <2>6. \A d \in Deployments : Earned(health'[d])
      BY <2>1, <2>2, <2>3 DEF HealthInv, Deployment!TypeOK, Earned
    <2>7. Younger'
      BY <2>1, <2>2, <2>3, <2>4 DEF HealthInv, Deployment!TypeOK, Younger
    <2>8. QED BY <2>5, <2>6, <2>7 DEF HealthInv
  <1>4. ASSUME NEW r \in Visitors, Deployment!Leave(r) PROVE HealthInv'
    <2>1. /\ dep' \in [Visitors -> Deployments \cup {None}]
          /\ age' \in [Visitors -> 0..HoldLimit]
          /\ \A q \in Visitors : dep'[q] \in Deployments => dep'[q] = dep[q] /\ age'[q] = age[q]
      BY <1>4, HealthAssumption DEF Deployment!Proper, Deployment!Leave, Deployment!Left, HealthInv, Deployment!TypeOK
    <2>2. QED BY <1>4, <2>1 DEF Deployment!Leave, HealthInv, Deployment!TypeOK, Younger
  <1>5. CASE Deployment!Tick
    BY <1>5, TickStep
  <1>6. CASE UNCHANGED Deployment!vars
    BY <1>6 DEF Deployment!vars, HealthInv, Deployment!TypeOK, Younger
  <1>7. QED BY <1>1, <1>2, <1>3, <1>4, <1>5, <1>6 DEF Deployment!Next, Deployment!Finish

-----------------------------------------------------------------------------

\* The invariant holds in every reachable state.
THEOREM HealthInductive == Deployment!Spec => []HealthInv
  BY InitHealthInv, NextHealthInv, PTL DEF Deployment!Spec

\* A behaviour of either part is one of the deployments.
LEMMA HealthBehaviour == MCSpec => Deployment!Spec
  <1>1. MCInit => Deployment!Init
    BY DEF MCInit
  <1>2. [MCNext]_all => [Deployment!Next]_Deployment!vars
    BY DEF MCNext, all, healthVars, Keyed, Deployed, Deployment!vars
  <1>. QED BY <1>1, <1>2, PTL DEF MCSpec, Deployment!Spec

\* The record of every deployment stays in its types, for every ladder and threshold.
THEOREM HealthTypeCorrect == MCSpec => []Deployment!TypeOK
  <1>1. HealthInv => Deployment!TypeOK
    BY DEF HealthInv
  <1>2. QED BY <1>1, HealthBehaviour, HealthInductive, PTL

\* A quarantined deployment has failed Threshold times in a row: no late failure, late
\* success or decay quarantines one that has just worked.
THEOREM QuarantineIsEarned == MCSpec => []QuarantineEarned
  <1>1. HealthInv => QuarantineEarned
    BY DEF HealthInv, Earned, QuarantineEarned, Deployment!QuarantineEarned
  <1>2. QED BY <1>1, HealthBehaviour, HealthInductive, PTL

\* A late failure never brings a deployment back sooner.
THEOREM FailuresNeverShorten == MCSpec => FailureNeverShortens
  <1> DEFINE Longer == \A r \in Visitors : \A kind \in Deployment!Failures : Deployment!Fail(r, kind) =>
                          \A d \in Deployments : /\ health'[d].left >= health[d].left
                                                 /\ health'[d].cool >= health[d].cool
  <1>1. HealthInv => Longer
    BY FailStep
  <1>2. QED BY <1>1, HealthBehaviour, HealthInductive, PTL DEF FailureNeverShortens, Deployment!FailureNeverShortens


-----------------------------------------------------------------------------
(* The answers of upstreams (StreamTranslation, ClientTurn), for any dialects and any bounds. *)

-----------------------------------------------------------------------------
(* What the client will have been shown *)

ItemType == [kind : Slot, id : 0 .. MaxCalls, said : Seq(1 .. MaxPieces), open : BOOLEAN]
EventType == [do : {"open", "say", "close", "completed", "failed"}, index : Nat,
              kind : Slot \cup {""}, id : 0 .. MaxCalls, piece : 0 .. MaxPieces]

\* What a client makes of an event, and the events that the grammar allows.
After(its, e) ==
    CASE e.do = "open" -> Append(its, [kind |-> e.kind, id |-> e.id, said |-> <<>>, open |-> TRUE])
      [] e.do = "say" -> [its EXCEPT ![e.index].said = Append(@, e.piece)]
      [] e.do = "close" -> [its EXCEPT ![e.index].open = FALSE]
      [] OTHER -> its

Legal(its, e) ==
    \/ e.do = "open" /\ e.index = Len(its) + 1 /\ e.kind \in Slot
    \/ /\ e.do = "say" /\ e.index \in DOMAIN its /\ its[e.index].open
       /\ e.piece # 0
    \/ e.do = "close" /\ e.index \in DOMAIN its /\ its[e.index].open
    \/ e.do = "completed" /\ \A i \in DOMAIN its : ~its[i].open
    \/ e.do = "failed"

\* Events that lead from one list of items to another.
Story(its, events, fin) ==
    \E st \in [1 .. Len(events) + 1 -> Seq(ItemType)] :
        /\ st[1] = its /\ st[Len(events) + 1] = fin
        /\ \A k \in 1 .. Len(events) :
              Legal(st[k], events[k]) /\ st[k + 1] = After(st[k], events[k])

\* Legal events keep items items.
LEMMA AfterType ==
  ASSUME NEW its \in Seq(ItemType), NEW e \in EventType, Legal(its, e)
  PROVE  After(its, e) \in Seq(ItemType)
  <1>1. CASE e.do = "open"
    <2>1. e.kind \in Slot /\ e.id \in 0 .. MaxCalls
      <3>1. e.kind \in Slot
        BY <1>1 DEF Legal
      <3>2. e.id \in 0 .. MaxCalls
        BY DEF EventType
      <3>. QED BY <3>1, <3>2
    <2>2. [kind |-> e.kind, id |-> e.id, said |-> <<>>, open |-> TRUE] \in ItemType
      BY <2>1 DEF ItemType
    <2>. QED BY <1>1, <2>2 DEF After
  <1>2. CASE e.do = "say"
    <2>1. e.index \in DOMAIN its /\ e.piece \in 1 .. MaxPieces
      <3>1. e.index \in DOMAIN its /\ e.piece # 0
        BY <1>2 DEF Legal
      <3>2. e.piece \in 0 .. MaxPieces /\ MaxPieces \in Nat
        BY StreamAssumption DEF EventType, StreamAssumption
      <3>. QED BY <3>1, <3>2
    <2>2. [its[e.index] EXCEPT !.said = Append(@, e.piece)] \in ItemType
      <3>1. its[e.index] \in ItemType
        BY <2>1
      <3>2. Append(its[e.index].said, e.piece) \in Seq(1 .. MaxPieces)
        BY <2>1, <3>1 DEF ItemType
      <3>. QED BY <3>1, <3>2 DEF ItemType
    <2>3. After(its, e) = [its EXCEPT ![e.index] = [its[e.index] EXCEPT !.said = Append(@, e.piece)]]
      BY <1>2 DEF After
    <2>. QED BY <2>1, <2>2, <2>3
  <1>3. CASE e.do = "close"
    <2>1. e.index \in DOMAIN its
      BY <1>3 DEF Legal
    <2>2. [its[e.index] EXCEPT !.open = FALSE] \in ItemType
      <3>1. its[e.index] \in ItemType
        BY <2>1
      <3>. QED BY <3>1 DEF ItemType
    <2>3. After(its, e) = [its EXCEPT ![e.index] = [its[e.index] EXCEPT !.open = FALSE]]
      BY <1>3 DEF After
    <2>. QED BY <2>1, <2>2, <2>3
  <1>4. CASE e.do \in {"completed", "failed"}
    BY <1>4 DEF After
  <1>. QED BY <1>1, <1>2, <1>3, <1>4 DEF EventType

\* Stories grow at their end, when the assembler sends, and lose their head, when the
\* client takes an event.
LEMMA StoryEmpty ==
  ASSUME NEW its \in Seq(ItemType), NEW fin
  PROVE  Story(its, <<>>, fin) <=> fin = its
  <1>1. ASSUME fin = its PROVE Story(its, <<>>, fin)
    <2>. DEFINE st == [k \in 1 .. 1 |-> its]
    <2>1. Len(<<>>) = 0
      OBVIOUS
    <2>2. st \in [1 .. Len(<<>>) + 1 -> Seq(ItemType)] /\ st[1] = its
      BY <2>1
    <2>. HIDE DEF st
    <2>. QED BY <1>1, <2>1, <2>2 DEF Story
  <1>. QED BY <1>1 DEF Story

LEMMA StoryGoesOn ==
  ASSUME NEW its, NEW events \in Seq(EventType), NEW fin, Story(its, events, fin),
         NEW e \in EventType, Legal(fin, e)
  PROVE  /\ Story(its, Append(events, e), After(fin, e))
         /\ fin \in Seq(ItemType) /\ After(fin, e) \in Seq(ItemType)
  <1>1. PICK st \in [1 .. Len(events) + 1 -> Seq(ItemType)] :
          /\ st[1] = its /\ st[Len(events) + 1] = fin
          /\ \A k \in 1 .. Len(events) :
                Legal(st[k], events[k]) /\ st[k + 1] = After(st[k], events[k])
    BY DEF Story
  <1>2. fin \in Seq(ItemType) /\ After(fin, e) \in Seq(ItemType)
    BY <1>1, AfterType
  <1>. DEFINE more == Append(events, e)
              s2 == [k \in 1 .. Len(events) + 2 |-> IF k = Len(events) + 2 THEN After(fin, e) ELSE st[k]]
  <1>3. Len(more) = Len(events) + 1 /\ more[Len(events) + 1] = e
          /\ \A k \in 1 .. Len(events) : more[k] = events[k]
    OBVIOUS
  <1>4. s2 \in [1 .. Len(more) + 1 -> Seq(ItemType)] /\ s2[1] = its /\ s2[Len(more) + 1] = After(fin, e)
    BY <1>1, <1>2, <1>3
  <1>5. ASSUME NEW k \in 1 .. Len(more)
        PROVE  Legal(s2[k], more[k]) /\ s2[k + 1] = After(s2[k], more[k])
    <2>1. CASE k = Len(events) + 1
      <3>1. s2[k] = fin /\ s2[k + 1] = After(fin, e) /\ more[k] = e
        BY <1>1, <1>3, <2>1
      <3>. QED BY <3>1
    <2>2. CASE k \in 1 .. Len(events)
      <3>1. s2[k] = st[k] /\ s2[k + 1] = st[k + 1] /\ more[k] = events[k]
        BY <1>3, <2>2
      <3>. QED BY <1>1, <2>2, <3>1
    <2>. QED BY <1>3, <2>1, <2>2
  <1>. HIDE DEF s2, more
  <1>6. Story(its, more, After(fin, e))
    BY <1>4, <1>5 DEF Story
  <1>. QED BY <1>2, <1>6 DEF more

LEMMA StoryBegins ==
  ASSUME NEW its, NEW events \in Seq(EventType), NEW fin, Story(its, events, fin), events # <<>>
  PROVE  /\ Legal(its, Head(events)) /\ its \in Seq(ItemType)
         /\ Story(After(its, Head(events)), Tail(events), fin)
  <1>1. PICK st \in [1 .. Len(events) + 1 -> Seq(ItemType)] :
          /\ st[1] = its /\ st[Len(events) + 1] = fin
          /\ \A k \in 1 .. Len(events) :
                Legal(st[k], events[k]) /\ st[k + 1] = After(st[k], events[k])
    BY DEF Story
  <1>2. Len(events) \in Nat \ {0} /\ Head(events) = events[1] /\ Tail(events) \in Seq(EventType)
          /\ Len(Tail(events)) = Len(events) - 1
          /\ \A k \in 1 .. Len(Tail(events)) : Tail(events)[k] = events[k + 1]
    OBVIOUS
  <1>. DEFINE rest == Tail(events)  s2 == [k \in 1 .. Len(rest) + 1 |-> st[k + 1]]
  <1>3. s2 \in [1 .. Len(rest) + 1 -> Seq(ItemType)] /\ s2[1] = After(its, Head(events))
          /\ s2[Len(rest) + 1] = fin
    BY <1>1, <1>2
  <1>4. ASSUME NEW k \in 1 .. Len(rest)
        PROVE  Legal(s2[k], rest[k]) /\ s2[k + 1] = After(s2[k], rest[k])
    <2>1. s2[k] = st[k + 1] /\ s2[k + 1] = st[k + 2] /\ rest[k] = events[k + 1] /\ k + 1 \in 1 .. Len(events)
      BY <1>2
    <2>. QED BY <1>1, <2>1
  <1>. HIDE DEF s2, rest
  <1>5. Story(After(its, Head(events)), rest, fin)
    BY <1>3, <1>4 DEF Story
  <1>. QED BY <1>1, <1>2, <1>5 DEF rest

-----------------------------------------------------------------------------
(* What feeding a slot makes of the items *)

SlotType == [kind : Slot, key : Nat]
WorkType == [slots : Seq(SlotType), events : Seq(EventType)]

\* The slot that a piece goes to, and the items then.
TheSlot(ss, kind, index) ==
    SlotOf(kind, IF index = NoIndex /\ kind = "call" THEN CallSlots(ss) + 1 ELSE index)

NewItem(kind, id) == [kind |-> kind, id |-> id, said |-> <<>>, open |-> TRUE]

SaidToo(its, n, piece) == IF piece = 0 THEN its ELSE [its EXCEPT ![n].said = Append(@, piece)]

Opened(its, n, kind, id) == IF n \in DOMAIN its THEN its ELSE Append(its, NewItem(kind, id))

Grown(its, n, kind, id, piece) == SaidToo(Opened(its, n, kind, id), n, piece)

LEMMA CallSlotsType ==
  ASSUME NEW ss \in Seq(SlotType)
  PROVE  CallSlots(ss) \in Nat
  <1>1. IsFiniteSet(1 .. Len(ss))
    BY FS_Interval
  <1>2. {i \in DOMAIN ss : ss[i].kind = "call"} \subseteq 1 .. Len(ss)
    OBVIOUS
  <1>. QED BY <1>1, <1>2, FS_Subset, FS_CardinalityType DEF CallSlots

\* The place of a slot is where it is, or the end.
LEMMA PlaceFacts ==
  ASSUME NEW ss \in Seq(SlotType), NEW slot
  PROVE  /\ Contains(ss, slot) => Place(ss, slot) \in DOMAIN ss /\ ss[Place(ss, slot)] = slot
         /\ ~Contains(ss, slot) => Place(ss, slot) = Len(ss) + 1 /\ \A i \in DOMAIN ss : ss[i] # slot
  BY DEF Place, Contains

LEMMA Joined ==
  ASSUME NEW T, NEW s \in Seq(T), NEW a \in T
  PROVE  s \o <<a>> = Append(s, a) /\ s \o <<>> = s
  OBVIOUS

FeedIs(work, its0, its, kind, piece, slot, n, fed, its2) ==
    /\ slot \in SlotType /\ slot.kind = kind /\ n \in 1 .. Len(its) + 1
    /\ n \in DOMAIN its => work.slots[n] = slot
    /\ n \notin DOMAIN its => \A i \in DOMAIN work.slots : work.slots[i] # slot
    /\ fed \in WorkType
    /\ fed.slots = IF n \in DOMAIN its THEN work.slots ELSE Append(work.slots, slot)
    /\ Story(its0, fed.events, its2) /\ its2 \in Seq(ItemType)
    /\ Len(its2) = Len(fed.slots) /\ \A i \in DOMAIN its2 : its2[i].open
    /\ \A e \in Range(fed.events) :
         e \in Range(work.events) \/ e.do = "open" \/ (e.do = "say" /\ e.piece = piece /\ piece # 0)

\* Feeding a slot adds an announcement if it is new and a saying if there is a piece: the
\* items follow.
LEMMA FeedFacts ==
  ASSUME NEW work \in WorkType, NEW its0, NEW its \in Seq(ItemType), Story(its0, work.events, its),
         Len(its) = Len(work.slots), \A i \in DOMAIN its : its[i].open,
         NEW kind \in Slot, NEW index \in Nat, NEW id \in 0 .. MaxCalls, NEW piece \in 0 .. MaxPieces,
         NEW slot, slot = TheSlot(work.slots, kind, index),
         NEW n, n = Place(work.slots, slot),
         NEW fed, fed = Feed(work, kind, index, id, piece),
         NEW its2, its2 = Grown(its, n, kind, id, piece)
  PROVE  FeedIs(work, its0, its, kind, piece, slot, n, fed, its2)
  <1>1. work.slots \in Seq(SlotType) /\ work.events \in Seq(EventType)
    BY DEF WorkType
  <1>2. slot \in SlotType /\ slot.kind = kind
    <2>1. CallSlots(work.slots) + 1 \in Nat
      BY <1>1, CallSlotsType
    <2>2. PICK key \in Nat : slot = SlotOf(kind, key)
      BY <2>1 DEF TheSlot
    <2>. QED BY <2>2 DEF SlotOf, SlotType
  <1>3. /\ Contains(work.slots, slot) <=> n \in DOMAIN its
        /\ n \in 1 .. Len(its) + 1
        /\ n \in DOMAIN its => work.slots[n] = slot
        /\ n \notin DOMAIN its => n = Len(its) + 1 /\ \A i \in DOMAIN work.slots : work.slots[i] # slot
    BY <1>1, PlaceFacts
  <1>4. MaxPieces \in Nat /\ MaxCalls \in Nat
    BY StreamAssumption DEF StreamAssumption
  <1>5. Opens(n, kind, id) \in EventType /\ (piece # 0 => Says(n, piece) \in EventType)
    <2>1. n \in Nat /\ 0 \in 0 .. MaxCalls /\ 0 \in 0 .. MaxPieces
      BY <1>3, <1>4
    <2>. QED BY <2>1 DEF Opens, Says, EventType
  <1>6. slot = SlotOf(kind, IF index = NoIndex /\ kind = "call" THEN CallSlots(work.slots) + 1 ELSE index)
    BY DEF TheSlot
  <1>7. fed.slots = (IF n \in DOMAIN its THEN work.slots ELSE Append(work.slots, slot))
    BY <1>3, <1>6 DEF Feed
  <1>8. fed.events = work.events \o (IF n \in DOMAIN its THEN <<>> ELSE <<Opens(n, kind, id)>>)
                                 \o (IF piece = 0 THEN <<>> ELSE <<Says(n, piece)>>)
    BY <1>3, <1>6 DEF Feed
  <1>9. fed = [slots |-> fed.slots, events |-> fed.events]
    BY DEF Feed
  <1>. DEFINE mid == IF n \in DOMAIN its THEN work.events ELSE Append(work.events, Opens(n, kind, id))
              its1 == Opened(its, n, kind, id)
  <1>10. fed.events = IF piece = 0 THEN mid ELSE Append(mid, Says(n, piece))
    <2>1. mid \in Seq(EventType)
      BY <1>1, <1>5
    <2>2. work.events \o (IF n \in DOMAIN its THEN <<>> ELSE <<Opens(n, kind, id)>>) = mid
      BY <1>1, <1>5, Joined
    <2>3. mid \o (IF piece = 0 THEN <<>> ELSE <<Says(n, piece)>>)
            = IF piece = 0 THEN mid ELSE Append(mid, Says(n, piece))
      <3>. HIDE DEF mid
      <3>. QED BY <2>1, <1>5, Joined
    <2>. QED BY <1>8, <2>2, <2>3
  <1>11. mid \in Seq(EventType) /\ fed.events \in Seq(EventType)
    BY <1>1, <1>5, <1>10
  <1>12. fed \in WorkType
    <2>1. fed.slots \in Seq(SlotType)
      BY <1>1, <1>2, <1>7
    <2>. QED BY <2>1, <1>9, <1>11 DEF WorkType
  <1>13. Story(its0, mid, its1) /\ its1 \in Seq(ItemType)
    <2>1. CASE n \in DOMAIN its
      BY <2>1 DEF Opened
    <2>2. CASE n \notin DOMAIN its
      <3>1. Legal(its, Opens(n, kind, id))
        BY <1>3, <2>2 DEF Legal, Opens
      <3>2. After(its, Opens(n, kind, id)) = Append(its, NewItem(kind, id))
        BY DEF After, Opens, NewItem
      <3>. QED BY <1>1, <1>5, <2>2, <3>1, <3>2, StoryGoesOn DEF Opened
    <2>. QED BY <2>1, <2>2
  <1>14. n \in DOMAIN its1 /\ \A i \in DOMAIN its1 : its1[i].open
    <2>1. CASE n \in DOMAIN its
      BY <2>1 DEF Opened
    <2>2. CASE n \notin DOMAIN its
      <3>1. its1 = Append(its, NewItem(kind, id)) /\ n = Len(its) + 1
        BY <1>3, <2>2 DEF Opened
      <3>2. NewItem(kind, id).open
        BY DEF NewItem
      <3>3. ASSUME NEW i \in DOMAIN its1 PROVE its1[i].open
        <4>1. CASE i = n
          BY <3>1, <3>2, <4>1
        <4>2. CASE i # n
          <5>1. i \in DOMAIN its /\ its1[i] = its[i]
            BY <3>1, <4>2
          <5>. QED BY <5>1
        <4>. QED BY <4>1, <4>2
      <3>. QED BY <3>1, <3>3
    <2>. QED BY <2>1, <2>2
  <1>15. its2 = IF piece = 0 THEN its1 ELSE After(its1, Says(n, piece))
    BY DEF After, Says, SaidToo, Grown
  <1>. HIDE DEF mid, its1
  <1>16. Story(its0, fed.events, its2) /\ its2 \in Seq(ItemType)
    <2>1. CASE piece = 0
      BY <2>1, <1>10, <1>13, <1>15
    <2>2. CASE piece # 0
      <3>1. Legal(its1, Says(n, piece))
        BY <1>14, <2>2 DEF Legal, Says
      <3>. QED BY <2>2, <3>1, <1>5, <1>10, <1>11, <1>13, <1>15, StoryGoesOn
    <2>. QED BY <2>1, <2>2
  <1>17. Len(its2) = Len(fed.slots) /\ \A i \in DOMAIN its2 : its2[i].open
    <2>1. Len(its1) = Len(fed.slots)
      BY <1>1, <1>2, <1>3, <1>7, <1>13 DEF its1, Opened
    <2>2. CASE piece = 0
      BY <2>1, <2>2, <1>14, <1>15
    <2>3. CASE piece # 0
      <3>1. its2 = [its1 EXCEPT ![n].said = Append(@, piece)]
        BY <2>3, <1>15 DEF After, Says
      <3>. QED BY <2>1, <3>1, <1>13, <1>14 DEF ItemType
    <2>. QED BY <2>2, <2>3
  <1>18. ASSUME NEW e \in Range(fed.events)
         PROVE  e \in Range(work.events) \/ e.do = "open" \/ (e.do = "say" /\ e.piece = piece /\ piece # 0)
    <2>1. e \in Range(work.events) \cup {Opens(n, kind, id)} \/ (e = Says(n, piece) /\ piece # 0)
      <3>1. PICK k \in DOMAIN fed.events : e = fed.events[k]
        BY DEF Range
      <3>2. e \in Range(mid) \/ (e = Says(n, piece) /\ piece # 0)
        <4>1. CASE piece = 0
          BY <3>1, <4>1, <1>10 DEF Range
        <4>2. CASE piece # 0
          <5>1. fed.events = Append(mid, Says(n, piece))
            BY <4>2, <1>10
          <5>2. k \in 1 .. Len(mid) + 1
            BY <5>1, <3>1, <1>11
          <5>3. k = Len(mid) + 1 => e = Says(n, piece)
            BY <5>1, <3>1, <1>11
          <5>4. k \in 1 .. Len(mid) => e = mid[k] /\ k \in DOMAIN mid
            BY <5>1, <3>1, <1>11
          <5>. QED BY <4>2, <5>2, <5>3, <5>4, <1>11 DEF Range
        <4>. QED BY <4>1, <4>2
      <3>3. Range(mid) \subseteq Range(work.events) \cup {Opens(n, kind, id)}
        <4>1. CASE n \in DOMAIN its
          BY <4>1 DEF mid
        <4>2. CASE n \notin DOMAIN its
          <5>1. mid = Append(work.events, Opens(n, kind, id))
            BY <4>2 DEF mid
          <5>2. ASSUME NEW j \in DOMAIN mid PROVE mid[j] \in Range(work.events) \cup {Opens(n, kind, id)}
            <6>1. j \in 1 .. Len(work.events) + 1
              BY <5>1, <1>1
            <6>2. j = Len(work.events) + 1 => mid[j] = Opens(n, kind, id)
              BY <5>1, <1>1
            <6>3. j \in 1 .. Len(work.events) => mid[j] = work.events[j] /\ j \in DOMAIN work.events
              BY <5>1, <1>1
            <6>4. CASE j = Len(work.events) + 1
              BY <6>2, <6>4
            <6>5. CASE j \in 1 .. Len(work.events)
              BY <6>3, <6>5 DEF Range
            <6>. QED BY <6>1, <6>4, <6>5, <1>1
          <5>. QED BY <5>2 DEF Range
        <4>. QED BY <4>1, <4>2
      <3>. QED BY <3>2, <3>3
    <2>2. Opens(n, kind, id).do = "open"
      BY DEF Opens
    <2>3. Says(n, piece).do = "say" /\ Says(n, piece).piece = piece
      BY DEF Says
    <2>. QED BY <2>1, <2>2, <2>3
  <1>. QED BY <1>1, <1>2, <1>3, <1>7, <1>12, <1>16, <1>17, <1>18 DEF FeedIs

-----------------------------------------------------------------------------
(* What the items tell of what was sent *)

Rising(s) == \A i, j \in DOMAIN s : i < j => s[i] < s[j]

\* Every item has pieces in order; only calls have ids.
Shape(its, N) ==
    \A i \in DOMAIN its :
        /\ Range(its[i].said) \subseteq 1 .. N /\ Rising(its[i].said)
        /\ its[i].kind # "call" => its[i].id = 0

\* The pieces that the items of a kind and an id say, and those that were sent.
Of(its, kind, id) ==
    UNION {Range(its[i].said) : i \in {j \in DOMAIN its : its[j].kind = kind /\ its[j].id = id}}

SentAs(S, kind, id) == {p \in DOMAIN S : S[p].kind = kind /\ S[p].call = id}

\* The pieces that the client gets for text and for thinking.
TextIs(S, T) ==
    /\ SentAs(S, "text", 0) \subseteq T
    /\ T \subseteq SentAs(S, "text", 0) \cup SentAs(S, "thinking", 0)
    /\ dialect \in {"anthropic", "ollama"} \/ (strip /\ dialect \in Compatible)
         => T = SentAs(S, "text", 0)
    /\ dialect \in Compatible /\ ~strip /\ SentAs(S, "text", 0) = {} => T = SentAs(S, "thinking", 0)

ThinkingIs(S, H) ==
    /\ H \subseteq SentAs(S, "thinking", 0)
    /\ strip \/ protocol = "responses" => H = {}
    /\ dialect = "anthropic" /\ ~strip /\ protocol # "responses" => H = SentAs(S, "thinking", 0)
    /\ dialect \in Compatible /\ SentAs(S, "text", 0) = {} => H = {}

Tells(its, S, C, X) ==
    /\ TextIs(S, Of(its, "text", 0)) /\ ThinkingIs(S, Of(its, "thinking", 0))
    /\ X => \A c \in 1 .. C : Of(its, "call", c) = SentAs(S, "call", c)

CallItems(its) == {i \in DOMAIN its : its[i].kind = "call"}

Alone(its) == \A i, j \in DOMAIN its : its[i].kind = its[j].kind /\ its[i].id = its[j].id => i = j

\* Items of an answer with N pieces and C calls, exact when no number of a call is used twice.
Itemised(its, N, C, X) ==
    /\ Shape(its, N)
    /\ \A i \in DOMAIN its : its[i].kind # "call" => its[i].said # <<>>
    /\ CallItems(its) # {} <=> C > 0
    /\ X => Alone(its) /\ {its[i].id : i \in CallItems(its)} = 1 .. C

\* The items and the assembler's slots.
Slotted(its, ss, X) ==
    /\ Len(its) = Len(ss)
    /\ \A i, j \in DOMAIN ss : ss[i] = ss[j] => i = j
    /\ \A i \in DOMAIN its :
        /\ its[i].open /\ its[i].kind = ss[i].kind
        /\ its[i].kind # "call" => ss[i].key = 0
        /\ its[i].kind = "call" /\ X => its[i].id = ss[i].key

Good(work, its0, its, N, C, X) ==
    /\ work \in WorkType /\ its \in Seq(ItemType)
    /\ Story(its0, work.events, its)
    /\ Itemised(its, N, C, X) /\ Slotted(its, work.slots, X)

\* What the assumption says of the bounds.
LEMMA BoundsAreNat == MaxPieces \in Nat /\ MaxCalls \in Nat
  BY StreamAssumption DEF StreamAssumption

LEMMA RangeAppend ==
  ASSUME NEW T, NEW s \in Seq(T), NEW a \in T
  PROVE  Range(Append(s, a)) = Range(s) \cup {a}
  <1>. DEFINE t == Append(s, a)
  <1>1. t \in Seq(T) /\ Len(t) = Len(s) + 1 /\ t[Len(s) + 1] = a /\ \A i \in 1 .. Len(s) : t[i] = s[i]
    OBVIOUS
  <1>. HIDE DEF t
  <1>2. ASSUME NEW x \in Range(t) PROVE x \in Range(s) \cup {a}
    <2>1. PICK i \in DOMAIN t : x = t[i]
      BY DEF Range
    <2>2. i \in 1 .. Len(s) + 1
      BY <1>1
    <2>3. CASE i = Len(s) + 1
      BY <2>1, <2>3, <1>1
    <2>4. CASE i \in 1 .. Len(s)
      BY <2>1, <2>4, <1>1 DEF Range
    <2>. QED BY <2>2, <2>3, <2>4
  <1>3. ASSUME NEW x \in Range(s) PROVE x \in Range(t)
    <2>1. PICK i \in DOMAIN s : x = s[i]
      BY DEF Range
    <2>. QED BY <2>1, <1>1 DEF Range
  <1>4. a \in Range(t)
    BY <1>1 DEF Range
  <1>. QED BY <1>2, <1>3, <1>4 DEF t

LEMMA RisingOn ==
  ASSUME NEW s \in Seq(Nat), Rising(s), NEW a \in Nat, \A x \in Range(s) : x < a
  PROVE  Rising(Append(s, a))
  <1>. DEFINE t == Append(s, a)
  <1>1. t \in Seq(Nat) /\ Len(t) = Len(s) + 1 /\ t[Len(s) + 1] = a /\ \A i \in 1 .. Len(s) : t[i] = s[i]
    OBVIOUS
  <1>2. \A i \in 1 .. Len(s) : s[i] < a /\ s[i] \in Nat
    BY DEF Range
  <1>. HIDE DEF t
  <1>3. ASSUME NEW i \in DOMAIN t, NEW j \in DOMAIN t, i < j PROVE t[i] < t[j]
    <2>1. i \in 1 .. Len(s) /\ j \in 1 .. Len(s) + 1
      BY <1>1, <1>3
    <2>2. CASE j = Len(s) + 1
      BY <1>1, <1>2, <2>1, <2>2
    <2>3. CASE j \in 1 .. Len(s)
      <3>1. i \in DOMAIN s /\ j \in DOMAIN s
        BY <2>1, <2>3
      <3>2. t[i] = s[i] /\ t[j] = s[j]
        BY <1>1, <2>1, <2>3
      <3>3. s[i] < s[j]
        BY <1>3, <3>1 DEF Rising
      <3>. QED BY <3>2, <3>3
    <2>. QED BY <2>1, <2>2, <2>3
  <1>4. Rising(t)
    BY <1>3 DEF Rising
  <1>. QED BY <1>4 DEF t

\* An item more, or a piece more in one of them.
OpenedIs(its, n, kind, id, its2) ==
    /\ its2 \in Seq(ItemType) /\ n \in DOMAIN its2
    /\ DOMAIN its2 = DOMAIN its \cup {n}
    /\ \A i \in DOMAIN its : its2[i] = its[i]
    /\ n \notin DOMAIN its => its2[n] = NewItem(kind, id)

LEMMA OpenedFacts ==
  ASSUME NEW its \in Seq(ItemType), NEW n \in 1 .. Len(its) + 1,
         NEW kind \in Slot, NEW id \in 0 .. MaxCalls
  PROVE  OpenedIs(its, n, kind, id, Opened(its, n, kind, id))
  <1>. DEFINE its2 == Opened(its, n, kind, id)
  <1>1. CASE n \in DOMAIN its
    BY <1>1 DEF Opened, OpenedIs
  <1>2. CASE n \notin DOMAIN its
    <2>1. its2 = Append(its, NewItem(kind, id)) /\ n = Len(its) + 1
      BY <1>2 DEF Opened
    <2>2. NewItem(kind, id) \in ItemType
      <3>1. <<>> \in Seq(1 .. MaxPieces)
        OBVIOUS
      <3>. QED BY <3>1 DEF NewItem, ItemType
    <2>. HIDE DEF its2
    <2>3. its2 \in Seq(ItemType) /\ Len(its2) = n /\ its2[n] = NewItem(kind, id)
      BY <2>1, <2>2
    <2>4. \A i \in DOMAIN its : its2[i] = its[i]
      BY <2>1, <2>2
    <2>5. DOMAIN its2 = 1 .. n /\ DOMAIN its = 1 .. Len(its)
      BY <2>3
    <2>. QED BY <2>1, <2>3, <2>4, <2>5 DEF OpenedIs, its2
  <1>. QED BY <1>1, <1>2

GrownIs(its, n, kind, id, piece, its2) ==
    /\ its2 \in Seq(ItemType) /\ n \in DOMAIN its2 /\ DOMAIN its2 = DOMAIN its \cup {n}
    /\ \A i \in DOMAIN its \ {n} : its2[i] = its[i]
    /\ its2[n].kind = kind
    /\ its2[n].id = IF n \in DOMAIN its THEN its[n].id ELSE id
    /\ its2[n].said = LET old == IF n \in DOMAIN its THEN its[n].said ELSE <<>>
                      IN  IF piece = 0 THEN old ELSE Append(old, piece)

Hosts(its, n, kind) == n \in DOMAIN its => its[n].kind = kind

LEMMA GrownFacts ==
  ASSUME NEW its \in Seq(ItemType), NEW n \in 1 .. Len(its) + 1,
         NEW kind \in Slot, NEW id \in 0 .. MaxCalls, NEW piece \in 0 .. MaxPieces,
         Hosts(its, n, kind)
  PROVE  GrownIs(its, n, kind, id, piece, Grown(its, n, kind, id, piece))
  <1>. DEFINE its1 == Opened(its, n, kind, id)
              its2 == Grown(its, n, kind, id, piece)
              old == IF n \in DOMAIN its THEN its[n].said ELSE <<>>
  <1>0. OpenedIs(its, n, kind, id, its1)
    BY OpenedFacts
  <1>. HIDE DEF its1
  <1>1. /\ its1 \in Seq(ItemType) /\ n \in DOMAIN its1
        /\ DOMAIN its1 = DOMAIN its \cup {n}
        /\ \A i \in DOMAIN its : its1[i] = its[i]
        /\ n \notin DOMAIN its => its1[n] = NewItem(kind, id)
    BY <1>0 DEF OpenedIs
  <1>2. /\ its1[n].kind = kind
        /\ its1[n].id = IF n \in DOMAIN its THEN its[n].id ELSE id
        /\ its1[n].said = old
    BY <1>1 DEF NewItem, Hosts
  <1>3. its2 = SaidToo(its1, n, piece)
    BY DEF Grown, its1
  <1>. HIDE DEF old, its2
  <1>4. CASE piece = 0
    <2>1. its2 = its1
      BY <1>3, <1>4 DEF SaidToo
    <2>2. its2[n].said = old
      BY <2>1, <1>2
    <2>3. GrownIs(its, n, kind, id, piece, its2)
      BY <2>1, <2>2, <1>1, <1>2, <1>4 DEF GrownIs, old
    <2>. QED BY <2>3 DEF its2
  <1>5. CASE piece # 0
    <2>1. its2 = [its1 EXCEPT ![n].said = Append(@, piece)]
      BY <1>3, <1>5 DEF SaidToo
    <2>2. piece \in 1 .. MaxPieces
      BY <1>5, BoundsAreNat
    <2>3. its1[n] \in ItemType
      BY <1>1
    <2>. DEFINE y == [its1[n] EXCEPT !.said = Append(@, piece)]
    <2>4. y \in ItemType /\ y.kind = its1[n].kind /\ y.id = its1[n].id /\ y.said = Append(its1[n].said, piece)
      <3>1. Append(its1[n].said, piece) \in Seq(1 .. MaxPieces)
        BY <2>2, <2>3 DEF ItemType
      <3>. QED BY <2>3, <3>1 DEF ItemType
    <2>5. its2 = [its1 EXCEPT ![n] = y]
      BY <2>1
    <2>. HIDE DEF y
    <2>6. its2 \in Seq(ItemType) /\ its2[n] = y /\ DOMAIN its2 = DOMAIN its1
            /\ \A i \in DOMAIN its1 \ {n} : its2[i] = its1[i]
      BY <2>4, <2>5, <1>1
    <2>7. GrownIs(its, n, kind, id, piece, its2)
      BY <2>4, <2>6, <1>1, <1>2, <1>5 DEF GrownIs, old
    <2>. QED BY <2>7 DEF its2
  <1>. QED BY <1>4, <1>5

MoreSaid(its, n, piece, its2) ==
    /\ Range(its2[n].said) = (IF n \in DOMAIN its THEN Range(its[n].said) ELSE {})
                                \cup (IF piece = 0 THEN {} ELSE {piece})
    /\ piece # 0 => its2[n].said # <<>>

\* A piece that is later than all of an item keeps its pieces rising.
LEMMA GrownShape ==
  ASSUME NEW its \in Seq(ItemType), NEW n \in 1 .. Len(its) + 1,
         NEW kind \in Slot, NEW id \in 0 .. MaxCalls, NEW piece \in 0 .. MaxPieces,
         Hosts(its, n, kind),
         NEW N \in Nat, NEW M \in Nat, N <= M, Shape(its, N), kind # "call" => id = 0,
         piece # 0 => N < piece /\ piece <= M
  PROVE  /\ Shape(Grown(its, n, kind, id, piece), M)
         /\ MoreSaid(its, n, piece, Grown(its, n, kind, id, piece))
  <1>. DEFINE its2 == Grown(its, n, kind, id, piece)
              old == IF n \in DOMAIN its THEN its[n].said ELSE <<>>
  <1>1. /\ its2 \in Seq(ItemType) /\ n \in DOMAIN its2 /\ DOMAIN its2 = DOMAIN its \cup {n}
        /\ \A i \in DOMAIN its \ {n} : its2[i] = its[i]
        /\ its2[n].kind = kind
        /\ its2[n].id = (IF n \in DOMAIN its THEN its[n].id ELSE id)
        /\ its2[n].said = IF piece = 0 THEN old ELSE Append(old, piece)
    <2>1. GrownIs(its, n, kind, id, piece, its2)
      BY GrownFacts
    <2>. HIDE DEF its2
    <2>. QED BY <2>1 DEF GrownIs
  <1>. HIDE DEF its2
  <1>2. old \in Seq(Nat) /\ Rising(old) /\ Range(old) \subseteq 1 .. N
          /\ Range(old) = IF n \in DOMAIN its THEN Range(its[n].said) ELSE {}
    <2>1. CASE n \in DOMAIN its
      <3>1. its[n].said \in Seq(1 .. MaxPieces)
        <4>1. its[n] \in ItemType
          BY <2>1
        <4>. QED BY <4>1 DEF ItemType
      <3>2. its[n].said \in Seq(Nat)
        BY <3>1, BoundsAreNat
      <3>. QED BY <2>1, <3>2 DEF Shape
    <2>2. CASE n \notin DOMAIN its
      <3>1. old = <<>> /\ <<>> \in Seq(Nat) /\ DOMAIN <<>> = {}
        BY <2>2
      <3>. QED BY <3>1, <2>2 DEF Rising, Range
    <2>. QED BY <2>1, <2>2
  <1>. HIDE DEF old
  <1>3. \A x \in Range(old) : x \in Nat /\ x <= N
    BY <1>2
  <1>4. /\ Rising(its2[n].said) /\ Range(its2[n].said) = Range(old) \cup (IF piece = 0 THEN {} ELSE {piece})
        /\ piece # 0 => its2[n].said # <<>>
    <2>1. CASE piece = 0
      BY <2>1, <1>1, <1>2
    <2>2. CASE piece # 0
      <3>1. piece \in Nat /\ \A x \in Range(old) : x < piece
        BY <2>2, <1>3, BoundsAreNat
      <3>2. its2[n].said = Append(old, piece)
        BY <1>1, <2>2
      <3>3. Append(old, piece) # <<>>
        BY <1>2, <3>1
      <3>4. Rising(Append(old, piece))
        BY <3>1, <1>2, RisingOn
      <3>5. Range(Append(old, piece)) = Range(old) \cup {piece}
        BY <3>1, <1>2, RangeAppend
      <3>. QED BY <3>2, <3>3, <3>4, <3>5, <2>2
    <2>. QED BY <2>1, <2>2
  <1>5. Range(its2[n].said) \subseteq 1 .. M
    <2>1. piece # 0 => piece \in 1 .. M
      BY BoundsAreNat
    <2>2. \A x \in Range(old) : x \in 1 .. M
      BY <1>2
    <2>. QED BY <1>4, <2>1, <2>2
  <1>6. kind # "call" => its2[n].id = 0
    BY <1>1 DEF Shape, Hosts
  <1>7. ASSUME NEW i \in DOMAIN its2
        PROVE  /\ Range(its2[i].said) \subseteq 1 .. M /\ Rising(its2[i].said)
               /\ its2[i].kind # "call" => its2[i].id = 0
    <2>1. CASE i = n
      BY <2>1, <1>1, <1>4, <1>5, <1>6
    <2>2. CASE i # n
      <3>1. i \in DOMAIN its /\ its2[i] = its[i]
        BY <1>1, <2>2
      <3>2. Range(its[i].said) \subseteq 1 .. N /\ Rising(its[i].said) /\ (its[i].kind # "call" => its[i].id = 0)
        BY <3>1 DEF Shape
      <3>. QED BY <3>1, <3>2
    <2>. QED BY <2>1, <2>2
  <1>. QED BY <1>2, <1>4, <1>7 DEF Shape, MoreSaid, its2

\* The pieces of a kind and an id after one more.
LEMMA GrownOf ==
  ASSUME NEW its \in Seq(ItemType), NEW n \in 1 .. Len(its) + 1,
         NEW kind \in Slot, NEW id \in 0 .. MaxCalls, NEW piece \in 0 .. MaxPieces,
         Hosts(its, n, kind),
         NEW N \in Nat, Shape(its, N), kind # "call" => id = 0, piece # 0 => N < piece,
         NEW k2, NEW i2, NEW its2, its2 = Grown(its, n, kind, id, piece)
  PROVE  /\ (n \in DOMAIN its => its[n].id = id)
               => Of(its2, k2, i2) = Of(its, k2, i2)
                     \cup (IF k2 = kind /\ i2 = id /\ piece # 0 THEN {piece} ELSE {})
         /\ k2 # kind => Of(its2, k2, i2) = Of(its, k2, i2)
  <1>1. /\ its2 \in Seq(ItemType) /\ n \in DOMAIN its2 /\ DOMAIN its2 = DOMAIN its \cup {n}
        /\ \A i \in DOMAIN its \ {n} : its2[i] = its[i]
        /\ its2[n].kind = kind
        /\ its2[n].id = (IF n \in DOMAIN its THEN its[n].id ELSE id)
    <2>1. GrownIs(its, n, kind, id, piece, its2)
      BY GrownFacts
    <2>. QED BY <2>1 DEF GrownIs
  <1>2. Range(its2[n].said) = (IF n \in DOMAIN its THEN Range(its[n].said) ELSE {})
                                \cup (IF piece = 0 THEN {} ELSE {piece})
    <2>1. \E M \in Nat : N <= M /\ (piece # 0 => piece <= M)
      <3>1. piece \in Nat
        BY BoundsAreNat
      <3>2. N <= N + piece /\ piece <= N + piece /\ N + piece \in Nat
        BY <3>1
      <3>. QED BY <3>2
    <2>2. PICK M \in Nat : N <= M /\ (piece # 0 => piece <= M)
      BY <2>1
    <2>3. MoreSaid(its, n, piece, Grown(its, n, kind, id, piece))
      BY <2>2, GrownShape
    <2>. QED BY <2>3 DEF MoreSaid
  <1>. DEFINE A == {j \in DOMAIN its : its[j].kind = k2 /\ its[j].id = i2}
              B == {j \in DOMAIN its2 : its2[j].kind = k2 /\ its2[j].id = i2}
  <1>3. \A j : j # n => (j \in A <=> j \in B) /\ (j \in A => its2[j].said = its[j].said)
    BY <1>1
  <1>4. n \in DOMAIN its => (n \in A <=> n \in B)
    BY <1>1 DEF Hosts
  <1>5. n \in B <=> k2 = kind /\ i2 = its2[n].id
    BY <1>1
  <1>6. n \in A => n \in DOMAIN its
    OBVIOUS
  <1>. HIDE DEF A, B
  <1>7. Of(its2, k2, i2) = UNION {Range(its2[i].said) : i \in B} /\ Of(its, k2, i2) = UNION {Range(its[i].said) : i \in A}
    BY DEF Of, A, B
  <1>8. CASE n \notin B
    <2>1. A = B /\ \A j \in A : its2[j].said = its[j].said
      <3>1. n \notin A
        BY <1>4, <1>6, <1>8
      <3>2. \A j : j \in A <=> j \in B
        BY <1>3, <1>8, <3>1
      <3>. QED BY <1>3, <3>1, <3>2
    <2>2. Of(its2, k2, i2) = Of(its, k2, i2)
      BY <1>7, <2>1
    <2>. QED BY <2>2, <1>1, <1>5, <1>8
  <1>9. CASE n \in B
    <2>1. k2 = kind /\ i2 = its2[n].id
      BY <1>5, <1>9
    <2>2. \A x : x \in Of(its2, k2, i2) <=> x \in Of(its, k2, i2) \/ (piece # 0 /\ x = piece)
      <3>1. ASSUME NEW x \in Of(its2, k2, i2) PROVE x \in Of(its, k2, i2) \/ (piece # 0 /\ x = piece)
        <4>1. PICK j \in B : x \in Range(its2[j].said)
          BY <1>7
        <4>2. CASE j = n
          BY <4>1, <4>2, <1>2, <1>4, <1>7
        <4>3. CASE j # n
          BY <4>1, <4>3, <1>3, <1>7
        <4>. QED BY <4>2, <4>3
      <3>2. ASSUME NEW x \in Of(its, k2, i2) PROVE x \in Of(its2, k2, i2)
        <4>1. PICK j \in A : x \in Range(its[j].said)
          BY <1>7
        <4>2. CASE j = n
          BY <4>1, <4>2, <1>2, <1>4, <1>6, <1>7
        <4>3. CASE j # n
          BY <4>1, <4>3, <1>3, <1>7
        <4>. QED BY <4>2, <4>3
      <3>3. piece # 0 => piece \in Of(its2, k2, i2)
        BY <1>2, <1>7, <1>9
      <3>. QED BY <3>1, <3>2, <3>3
    <2>3. (n \in DOMAIN its => its[n].id = id) => i2 = id
      BY <2>1, <1>1
    <2>4. (n \in DOMAIN its => its[n].id = id)
            => Of(its2, k2, i2) = Of(its, k2, i2)
                 \cup (IF k2 = kind /\ i2 = id /\ piece # 0 THEN {piece} ELSE {})
      <3>. SUFFICES ASSUME n \in DOMAIN its => its[n].id = id
                    PROVE  Of(its2, k2, i2) = Of(its, k2, i2)
                              \cup (IF k2 = kind /\ i2 = id /\ piece # 0 THEN {piece} ELSE {})
        OBVIOUS
      <3>1. k2 = kind /\ i2 = id
        BY <2>1, <2>3
      <3>. QED BY <3>1, <2>2
    <2>. QED BY <2>1, <2>4
  <1>. QED BY <1>8, <1>9

-----------------------------------------------------------------------------
(* Feeding one piece *)

NewEvents(old, new, P) ==
    \A e \in Range(new) : e \in Range(old) \/ e.do = "open" \/ (e.do = "say" /\ e.piece \in P \ {0})

\* What is true of every feed, whatever it does to the ids of calls.
FeedKeeps(work, its0, its, M, C2, kind, slot, n, piece, fed, its2) ==
    /\ slot \in SlotType /\ slot.kind = kind /\ n \in 1 .. Len(its) + 1
    /\ DOMAIN its = DOMAIN work.slots /\ DOMAIN its2 = DOMAIN fed.slots
    /\ n \in DOMAIN its => work.slots[n] = slot
    /\ n \notin DOMAIN its => \A i \in DOMAIN work.slots : work.slots[i] # slot
    /\ fed.slots[n] = slot /\ \A i \in DOMAIN its : fed.slots[i] = work.slots[i]
    /\ Hosts(its, n, kind)
    /\ fed \in WorkType /\ its2 \in Seq(ItemType)
    /\ Story(its0, fed.events, its2)
    /\ Shape(its2, M)
    /\ \A i \in DOMAIN its2 : its2[i].kind # "call" => its2[i].said # <<>>
    /\ CallItems(its2) # {} <=> C2 > 0
    /\ Slotted(its2, fed.slots, FALSE)
    /\ NewEvents(work.events, fed.events, {piece})

\* What a feed keeps, whatever it does to the ids of calls.
LEMMA FeedCommon ==
  ASSUME NEW work, NEW its0, NEW its, NEW N \in Nat, NEW M \in Nat, NEW C \in Nat, NEW C2 \in Nat,
         NEW X \in BOOLEAN, Good(work, its0, its, N, C, X),
         NEW kind \in Slot, NEW index \in Nat, NEW id \in 0 .. MaxCalls, NEW piece \in 0 .. MaxPieces,
         kind # "call" => index = 0 /\ id = 0 /\ piece # 0 /\ C2 = C,
         kind = "call" => C2 > 0,
         N <= M, piece # 0 => N < piece /\ piece <= M,
         NEW slot, slot = TheSlot(work.slots, kind, index),
         NEW n, n = Place(work.slots, slot),
         NEW fed, fed = Feed(work, kind, index, id, piece),
         NEW its2, its2 = Grown(its, n, kind, id, piece)
  PROVE  FeedKeeps(work, its0, its, M, C2, kind, slot, n, piece, fed, its2)
  <1>1. /\ work \in WorkType /\ its \in Seq(ItemType) /\ Story(its0, work.events, its)
        /\ Itemised(its, N, C, X) /\ Slotted(its, work.slots, X)
    BY DEF Good
  <1>2. Len(its) = Len(work.slots) /\ \A i \in DOMAIN its : its[i].open
    BY <1>1 DEF Slotted
  <1>3. /\ slot \in SlotType /\ slot.kind = kind /\ n \in 1 .. Len(its) + 1
        /\ n \in DOMAIN its => work.slots[n] = slot
        /\ n \notin DOMAIN its => \A i \in DOMAIN work.slots : work.slots[i] # slot
        /\ fed \in WorkType
        /\ fed.slots = IF n \in DOMAIN its THEN work.slots ELSE Append(work.slots, slot)
        /\ Story(its0, fed.events, its2) /\ its2 \in Seq(ItemType)
        /\ Len(its2) = Len(fed.slots) /\ \A i \in DOMAIN its2 : its2[i].open
        /\ \A e \in Range(fed.events) :
              e \in Range(work.events) \/ e.do = "open" \/ (e.do = "say" /\ e.piece = piece /\ piece # 0)
    <2>1. FeedIs(work, its0, its, kind, piece, slot, n, fed, its2)
      BY <1>1, <1>2, FeedFacts
    <2>. QED BY <2>1 DEF FeedIs
  <1>4. work.slots \in Seq(SlotType) /\ fed.slots \in Seq(SlotType)
    BY <1>1, <1>3 DEF WorkType
  <1>5. DOMAIN its = DOMAIN work.slots /\ DOMAIN its2 = DOMAIN fed.slots
    BY <1>1, <1>2, <1>3, <1>4
  <1>6. fed.slots[n] = slot /\ \A i \in DOMAIN its : fed.slots[i] = work.slots[i]
    <2>1. CASE n \in DOMAIN its
      BY <2>1, <1>3
    <2>2. CASE n \notin DOMAIN its
      <3>1. fed.slots = Append(work.slots, slot) /\ n = Len(work.slots) + 1
        BY <2>2, <1>1, <1>2, <1>3
      <3>. QED BY <3>1, <1>3, <1>4, <1>5
    <2>. QED BY <2>1, <2>2
  <1>7. Hosts(its, n, kind)
    BY <1>1, <1>3 DEF Hosts, Slotted
  <1>8. GrownIs(its, n, kind, id, piece, its2)
    BY <1>1, <1>3, <1>7, GrownFacts
  <1>9. Shape(its2, M) /\ MoreSaid(its, n, piece, its2)
    <2>1. Shape(its, N)
      BY <1>1 DEF Itemised
    <2>. QED BY <1>1, <1>3, <1>7, <2>1, GrownShape
  <1>10. ASSUME NEW i \in DOMAIN its2, its2[i].kind # "call" PROVE its2[i].said # <<>>
    <2>1. CASE i = n
      BY <2>1, <1>8, <1>9, <1>10 DEF GrownIs, MoreSaid
    <2>2. CASE i # n
      BY <2>2, <1>1, <1>8, <1>10 DEF GrownIs, Itemised
    <2>. QED BY <2>1, <2>2
  <1>11. CallItems(its2) # {} <=> C2 > 0
    <2>1. CASE kind = "call"
      BY <2>1, <1>8 DEF GrownIs, CallItems
    <2>2. CASE kind # "call"
      <3>1. CallItems(its2) = CallItems(its)
        BY <2>2, <1>7, <1>8 DEF GrownIs, CallItems, Hosts
      <3>. QED BY <2>2, <3>1, <1>1 DEF Itemised
    <2>. QED BY <2>1, <2>2
  <1>12. \A i \in DOMAIN fed.slots : i \in DOMAIN its \/ i = n
    BY <1>5, <1>8 DEF GrownIs
  <1>13. Slotted(its2, fed.slots, FALSE)
    <2>1. ASSUME NEW i \in DOMAIN fed.slots, NEW j \in DOMAIN fed.slots, fed.slots[i] = fed.slots[j]
          PROVE  i = j
      <3>1. CASE n \in DOMAIN its
        BY <2>1, <3>1, <1>1, <1>3 DEF Slotted
      <3>2. CASE n \notin DOMAIN its
        BY <2>1, <3>2, <1>1, <1>3, <1>5, <1>6, <1>12 DEF Slotted
      <3>. QED BY <3>1, <3>2
    <2>2. ASSUME NEW i \in DOMAIN its2
          PROVE  its2[i].kind = fed.slots[i].kind /\ (its2[i].kind # "call" => fed.slots[i].key = 0)
      <3>1. CASE i = n
        <4>1. kind # "call" => slot.key = 0
          BY DEF TheSlot, SlotOf
        <4>. QED BY <3>1, <4>1, <1>3, <1>6, <1>8 DEF GrownIs
      <3>2. CASE i # n
        <4>1. i \in DOMAIN its /\ its2[i] = its[i] /\ fed.slots[i] = work.slots[i]
          BY <3>2, <1>6, <1>8 DEF GrownIs
        <4>. QED BY <4>1, <1>1 DEF Slotted
      <3>. QED BY <3>1, <3>2
    <2>. QED BY <2>1, <2>2, <1>3 DEF Slotted
  <1>14. NewEvents(work.events, fed.events, {piece})
    BY <1>3 DEF NewEvents
  <1>. QED BY <1>3, <1>5, <1>6, <1>7, <1>9, <1>10, <1>11, <1>13, <1>14 DEF FeedKeeps

\* Items of different slots differ, when slots and items have the same numbers.
LEMMA SlotsApart ==
  ASSUME NEW its \in Seq(ItemType), NEW ss \in Seq(SlotType), Slotted(its, ss, TRUE)
  PROVE  Alone(its)
  <1>1. SUFFICES ASSUME NEW i \in DOMAIN its, NEW j \in DOMAIN its,
                        its[i].kind = its[j].kind, its[i].id = its[j].id
                 PROVE  i = j
    BY DEF Alone
  <1>2. i \in DOMAIN ss /\ j \in DOMAIN ss
    BY DEF Slotted
  <1>3. ss[i].kind = ss[j].kind /\ ss[i].key = ss[j].key
    BY <1>1 DEF Slotted
  <1>4. ss[i] = ss[j]
    <2>1. ss[i] \in SlotType /\ ss[j] \in SlotType
      BY <1>2
    <2>2. \A s \in SlotType : s = [kind |-> s.kind, key |-> s.key]
      BY DEF SlotType
    <2>. QED BY <1>3, <2>1, <2>2
  <1>. QED BY <1>2, <1>4 DEF Slotted

\* What is said more.
Grows(its, its2, kind, id, piece, X) ==
    \A k2 \in Slot, i2 \in 0 .. MaxCalls : (X \/ k2 # "call") =>
        Of(its2, k2, i2) = Of(its, k2, i2)
            \cup (IF k2 = kind /\ i2 = id /\ piece # 0 THEN {piece} ELSE {})

\* What a piece of text or of thinking does.
PlainlyFed(work, its0, its, M, C, X, kind, piece, fed) ==
    /\ \E its2 : Good(fed, its0, its2, M, C, X) /\ Grows(its, its2, kind, 0, piece, TRUE)
    /\ NewEvents(work.events, fed.events, {piece})

\* Text and thinking have a slot each.
LEMMA FeedPlain ==
  ASSUME NEW work, NEW its0, NEW its, NEW N \in Nat, NEW M \in Nat, NEW C \in Nat,
         NEW X \in BOOLEAN, Good(work, its0, its, N, C, X),
         NEW kind \in {"text", "thinking"}, NEW piece \in 1 .. MaxPieces, N < piece, piece <= M,
         NEW fed, fed = Feed(work, kind, 0, 0, piece)
  PROVE  PlainlyFed(work, its0, its, M, C, X, kind, piece, fed)
  <1>. DEFINE slot == TheSlot(work.slots, kind, 0)
              n == Place(work.slots, slot)
              its2 == Grown(its, n, kind, 0, piece)
  <1>1. kind \in Slot /\ kind # "call" /\ 0 \in Nat /\ 0 \in 0 .. MaxCalls /\ piece \in 0 .. MaxPieces
          /\ piece # 0 /\ N <= M
    BY BoundsAreNat DEF Slot
  <1>2. FeedKeeps(work, its0, its, M, C, kind, slot, n, piece, fed, its2)
    <2>. HIDE DEF slot, n, its2
    <2>1. slot = TheSlot(work.slots, kind, 0)
      BY DEF slot
    <2>2. n = Place(work.slots, slot)
      BY DEF n
    <2>3. its2 = Grown(its, n, kind, 0, piece)
      BY DEF its2
    <2>. QED BY <1>1, <2>1, <2>2, <2>3, FeedCommon
  <1>3. /\ its \in Seq(ItemType) /\ Itemised(its, N, C, X) /\ Slotted(its, work.slots, X)
        /\ Shape(its, N)
    BY DEF Good, Itemised
  <1>4. /\ n \in 1 .. Len(its) + 1 /\ Hosts(its, n, kind) /\ its2 \in Seq(ItemType)
        /\ fed \in WorkType /\ Slotted(its2, fed.slots, FALSE)
        /\ \A i \in DOMAIN its : fed.slots[i] = work.slots[i]
    BY <1>2 DEF FeedKeeps
  <1>5. n \in DOMAIN its => its[n].id = 0
    BY <1>1, <1>3, <1>4 DEF Hosts, Shape
  <1>. HIDE DEF n, slot
  <1>6. GrownIs(its, n, kind, 0, piece, its2)
    BY <1>1, <1>3, <1>4, GrownFacts
  <1>7. Grows(its, its2, kind, 0, piece, TRUE)
    <2>1. ASSUME NEW k2 \in Slot, NEW i2 \in 0 .. MaxCalls
          PROVE Of(its2, k2, i2) = Of(its, k2, i2)
                  \cup (IF k2 = kind /\ i2 = 0 /\ piece # 0 THEN {piece} ELSE {})
      BY <1>1, <1>3, <1>4, <1>5, GrownOf
    <2>. QED BY <2>1 DEF Grows
  <1>. HIDE DEF its2
  <1>8. CallItems(its2) = CallItems(its) /\ \A i \in CallItems(its) : i \in DOMAIN its /\ its2[i] = its[i]
    BY <1>1, <1>4, <1>6 DEF GrownIs, CallItems, Hosts
  <1>9. Slotted(its2, fed.slots, X)
    <2>1. ASSUME NEW i \in DOMAIN its2, its2[i].kind = "call", X PROVE its2[i].id = fed.slots[i].key
      <3>1. i \in CallItems(its)
        BY <2>1, <1>8 DEF CallItems
      <3>. QED BY <2>1, <3>1, <1>3, <1>4, <1>8 DEF Slotted, CallItems
    <2>. QED BY <2>1, <1>4 DEF Slotted
  <1>10. X => Alone(its2) /\ {its2[i].id : i \in CallItems(its2)} = 1 .. C
    <2>1. X => Alone(its2)
      <3>1. fed.slots \in Seq(SlotType)
        BY <1>4 DEF WorkType
      <3>. QED BY <1>4, <1>9, <3>1, SlotsApart
    <2>2. X => {its2[i].id : i \in CallItems(its2)} = 1 .. C
      BY <1>3, <1>8 DEF Itemised
    <2>. QED BY <2>1, <2>2
  <1>11. Good(fed, its0, its2, M, C, X)
    BY <1>2, <1>9, <1>10 DEF FeedKeeps, Good, Itemised
  <1>. QED BY <1>2, <1>7, <1>11 DEF FeedKeeps, PlainlyFed

\* The number by which a call is known: an unnumbered one is new.
Number(ss, index) == IF index = NoIndex THEN CallSlots(ss) + 1 ELSE index

CallFed(work, its0, its, M, C2, X2, q, piece, fed) ==
    /\ \E its2 : Good(fed, its0, its2, M, C2, X2) /\ Grows(its, its2, "call", q, piece, X2)
    /\ NewEvents(work.events, fed.events, {piece})

\* A call that is known by its number gets the piece; one that is not gets an item.
LEMMA FeedCall ==
  ASSUME NEW work, NEW its0, NEW its, NEW N \in Nat, NEW M \in Nat, NEW C \in Nat, NEW C2 \in Nat,
         NEW X \in BOOLEAN, NEW X2 \in BOOLEAN, X2 => X, Good(work, its0, its, N, C, X),
         NEW index \in Nat, NEW id \in 0 .. MaxCalls, NEW piece \in 0 .. MaxPieces,
         N <= M, piece # 0 => N < piece /\ piece <= M, C2 > 0,
         NEW q, q = Number(work.slots, index),
         X2 => /\ q \in 1 .. C + 1 /\ C2 = (IF q > C THEN q ELSE C)
               /\ q > C => id = q,
         NEW fed, fed = Feed(work, "call", index, id, piece)
  PROVE  CallFed(work, its0, its, M, C2, X2, q, piece, fed)
  <1>. DEFINE slot == TheSlot(work.slots, "call", index)
              n == Place(work.slots, slot)
              its2 == Grown(its, n, "call", id, piece)
  <1>1. "call" \in Slot
    BY DEF Slot
  <1>2. FeedKeeps(work, its0, its, M, C2, "call", slot, n, piece, fed, its2)
    <2>. HIDE DEF slot, n, its2
    <2>1. slot = TheSlot(work.slots, "call", index)
      BY DEF slot
    <2>2. n = Place(work.slots, slot)
      BY DEF n
    <2>3. its2 = Grown(its, n, "call", id, piece)
      BY DEF its2
    <2>. QED BY <1>1, <2>1, <2>2, <2>3, FeedCommon
  <1>3. /\ its \in Seq(ItemType) /\ Itemised(its, N, C, X) /\ Slotted(its, work.slots, X)
        /\ Shape(its, N) /\ work.slots \in Seq(SlotType)
    BY DEF Good, Itemised, WorkType
  <1>4. /\ n \in 1 .. Len(its) + 1 /\ Hosts(its, n, "call") /\ its2 \in Seq(ItemType)
        /\ fed \in WorkType /\ Slotted(its2, fed.slots, FALSE)
        /\ fed.slots[n] = slot
        /\ n \in DOMAIN its => work.slots[n] = slot
        /\ n \notin DOMAIN its => \A i \in DOMAIN work.slots : work.slots[i] # slot
        /\ \A i \in DOMAIN its : fed.slots[i] = work.slots[i]
        /\ DOMAIN its = DOMAIN work.slots
    BY <1>2 DEF FeedKeeps
  <1>5. slot = [kind |-> "call", key |-> q]
    BY DEF TheSlot, SlotOf, Number
  <1>6. slot.key = q
    BY <1>5
  <1>. HIDE DEF n, slot
  <1>7. GrownIs(its, n, "call", id, piece, its2)
    BY <1>1, <1>3, <1>4, GrownFacts
  <1>. DEFINE Ids(x) == {x[i].id : i \in CallItems(x)}
  <1>8. X2 => Ids(its) = 1 .. C /\ \A i \in CallItems(its) : i \in DOMAIN its /\ its[i].id = work.slots[i].key
    BY <1>3 DEF Itemised, Slotted, CallItems
  <1>9. ASSUME X2
        PROVE  /\ n \in DOMAIN its <=> q <= C
               /\ its2[n].id = q /\ (n \in DOMAIN its => its[n].id = q)
    <2>0. q \in Nat
      BY <1>9
    <2>1. CASE n \in DOMAIN its
      <3>1. n \in CallItems(its)
        BY <2>1, <1>4 DEF Hosts, CallItems
      <3>2. its[n].id = q
        <4>1. work.slots[n] = slot
          BY <2>1, <1>4
        <4>2. its[n].id = work.slots[n].key
          BY <3>1, <1>8, <1>9
        <4>. QED BY <4>1, <4>2, <1>6
      <3>3. q \in 1 .. C
        BY <3>1, <3>2, <1>8, <1>9
      <3>. QED BY <2>1, <3>2, <3>3, <1>7 DEF GrownIs
    <2>2. CASE n \notin DOMAIN its
      <3>1. q \notin 1 .. C
        <4>1. ASSUME q \in 1 .. C PROVE FALSE
          <5>1. PICK i \in CallItems(its) : its[i].id = q
            BY <4>1, <1>8, <1>9
          <5>2. i \in DOMAIN its /\ work.slots[i].key = q /\ work.slots[i].kind = "call"
            BY <5>1, <1>3, <1>8, <1>9 DEF Slotted, CallItems
          <5>3. work.slots[i] \in SlotType
            BY <5>2, <1>3, <1>4
          <5>4. work.slots[i] = slot
            BY <5>2, <5>3, <1>5 DEF SlotType
          <5>. QED BY <5>2, <5>4, <2>2, <1>4
        <4>. QED BY <4>1
      <3>2. q > C
        BY <3>1, <1>9
      <3>3. its2[n].id = id
        BY <2>2, <1>7 DEF GrownIs
      <3>. QED BY <2>2, <3>2, <3>3, <1>9, <2>0
    <2>. QED BY <2>1, <2>2
  <1>10. Grows(its, its2, "call", q, piece, X2)
    <2>1. ASSUME NEW k2 \in Slot, NEW i2 \in 0 .. MaxCalls, k2 # "call"
          PROVE  Of(its2, k2, i2) = Of(its, k2, i2)
      BY <2>1, <1>1, <1>3, <1>4, GrownOf
    <2>2. ASSUME NEW k2 \in Slot, NEW i2 \in 0 .. MaxCalls, X2
          PROVE Of(its2, k2, i2) = Of(its, k2, i2)
                  \cup (IF k2 = "call" /\ i2 = q /\ piece # 0 THEN {piece} ELSE {})
      <3>1. CASE n \in DOMAIN its => its[n].id = id
        <4>1. Of(its2, k2, i2) = Of(its, k2, i2)
                  \cup (IF k2 = "call" /\ i2 = id /\ piece # 0 THEN {piece} ELSE {})
          BY <3>1, <1>1, <1>3, <1>4, GrownOf
        <4>2. id = q
          BY <3>1, <2>2, <1>9, <1>7 DEF GrownIs
        <4>. QED BY <4>1, <4>2
      <3>2. CASE n \in DOMAIN its /\ its[n].id # id
        <4>1. q \in 0 .. MaxCalls
          <5>1. its[n] \in ItemType
            BY <3>2, <1>3
          <5>. QED BY <5>1, <3>2, <2>2, <1>9 DEF ItemType
        <4>2. its2 = Grown(its, n, "call", q, piece)
          BY <3>2 DEF Grown, Opened
        <4>. QED BY <3>2, <4>1, <4>2, <2>2, <1>1, <1>3, <1>4, <1>9, GrownOf
      <3>. QED BY <3>1, <3>2
    <2>. QED BY <2>1, <2>2 DEF Grows
  <1>. HIDE DEF its2
  <1>11. CallItems(its2) = CallItems(its) \cup {n}
    BY <1>4, <1>7 DEF GrownIs, CallItems, Hosts
  <1>12. Slotted(its2, fed.slots, X2)
    <2>1. ASSUME NEW i \in DOMAIN its2, its2[i].kind = "call", X2 PROVE its2[i].id = fed.slots[i].key
      <3>1. CASE i = n
        <4>1. fed.slots[n] = slot
          BY <1>4
        <4>2. its2[n].id = q
          BY <2>1, <1>9
        <4>. QED BY <3>1, <4>1, <4>2, <1>6
      <3>2. CASE i # n
        BY <3>2, <2>1, <1>3, <1>4, <1>7 DEF GrownIs, Slotted
      <3>. QED BY <3>1, <3>2
    <2>. QED BY <2>1, <1>4 DEF Slotted
  <1>13. X2 => Alone(its2)
    <2>1. fed.slots \in Seq(SlotType)
      BY <1>4 DEF WorkType
    <2>. QED BY <1>4, <1>12, <2>1, SlotsApart
  <1>14. ASSUME X2 PROVE Ids(its2) = 1 .. C2
    <2>1. Ids(its2) = Ids(its) \cup {q}
      <3>1. \A i \in CallItems(its) : its2[i].id = its[i].id
        <4>1. \A i \in CallItems(its) : i # n => its2[i] = its[i]
          BY <1>7 DEF GrownIs, CallItems
        <4>2. n \in CallItems(its) => its2[n].id = its[n].id
          BY <1>9, <1>14 DEF CallItems
        <4>. QED BY <4>1, <4>2
      <3>2. its2[n].id = q
        BY <1>9, <1>14
      <3>. QED BY <3>1, <3>2, <1>11
    <2>2. 1 .. C2 = 1 .. C \cup {q}
      BY <1>14
    <2>. QED BY <2>1, <2>2, <1>8, <1>14
  <1>15. Good(fed, its0, its2, M, C2, X2)
    BY <1>2, <1>12, <1>13, <1>14 DEF FeedKeeps, Good, Itemised
  <1>. QED BY <1>2, <1>10, <1>15 DEF FeedKeeps, CallFed

\* There are as many slots of calls as calls, when no number is used twice.
LEMMA CallNumbers ==
  ASSUME NEW its \in Seq(ItemType), NEW ss \in Seq(SlotType), NEW N, NEW C \in Nat,
         Itemised(its, N, C, TRUE), Slotted(its, ss, TRUE)
  PROVE  CallSlots(ss) = C
  <1>. DEFINE S == CallItems(its)  f == [i \in S |-> its[i].id]
  <1>1. {i \in DOMAIN ss : ss[i].kind = "call"} = S
    <2>1. DOMAIN ss = DOMAIN its
      BY DEF Slotted
    <2>. QED BY <2>1 DEF Slotted, CallItems
  <1>2. Alone(its) /\ {its[i].id : i \in S} = 1 .. C
    BY DEF Itemised
  <1>3. f \in [S -> 1 .. C]
    BY <1>2
  <1>4. ASSUME NEW a \in DOMAIN f, NEW b \in DOMAIN f, f[a] = f[b] PROVE a = b
    <2>1. a \in DOMAIN its /\ b \in DOMAIN its /\ its[a].kind = its[b].kind /\ its[a].id = its[b].id
      BY <1>4 DEF CallItems
    <2>. QED BY <2>1, <1>2 DEF Alone
  <1>5. ASSUME NEW t \in 1 .. C PROVE \E x \in S : f[x] = t
    BY <1>2
  <1>6. f \in Bijection(S, 1 .. C)
    <2>. HIDE DEF f, S
    <2>. QED BY <1>3, <1>4, <1>5 DEF Bijection, Injection, Surjection, IsInjective
  <1>7. IsFiniteSet(S)
    <2>1. S \subseteq 1 .. Len(its) /\ IsFiniteSet(1 .. Len(its))
      BY FS_Interval DEF CallItems
    <2>. QED BY <2>1, FS_Subset
  <1>8. Cardinality(1 .. C) = Cardinality(S)
    <2>. HIDE DEF f, S
    <2>. QED BY <1>6, <1>7, FS_Bijection DEF ExistsBijection
  <1>9. Cardinality(1 .. C) = C
    BY FS_Interval
  <1>. QED BY <1>1, <1>8, <1>9 DEF CallSlots

-----------------------------------------------------------------------------
(* Feeding the calls of a chunk *)

LEMMA FeedType ==
  ASSUME NEW work \in WorkType, NEW kind \in Slot, NEW index \in Nat,
         NEW id \in 0 .. MaxCalls, NEW piece \in 0 .. MaxPieces
  PROVE  Feed(work, kind, index, id, piece) \in WorkType
  <1>. DEFINE slot == SlotOf(kind, IF index = NoIndex /\ kind = "call"
                                   THEN CallSlots(work.slots) + 1 ELSE index)
              n == Place(work.slots, slot)
              opening == IF Contains(work.slots, slot) THEN <<>> ELSE <<Opens(n, kind, id)>>
              saying == IF piece = 0 THEN <<>> ELSE <<Says(n, piece)>>
  <1>1. work.slots \in Seq(SlotType) /\ work.events \in Seq(EventType)
    BY DEF WorkType
  <1>2. slot \in SlotType
    <2>1. CallSlots(work.slots) + 1 \in Nat
      BY <1>1, CallSlotsType
    <2>2. PICK key \in Nat : slot = SlotOf(kind, key)
      BY <2>1
    <2>. QED BY <2>2 DEF SlotOf, SlotType
  <1>. HIDE DEF slot
  <1>3. n \in Nat
    <2>1. Contains(work.slots, slot) => n \in DOMAIN work.slots
      BY <1>1, PlaceFacts
    <2>2. ~Contains(work.slots, slot) => n = Len(work.slots) + 1
      BY <1>1, PlaceFacts
    <2>. QED BY <2>1, <2>2, <1>1
  <1>. HIDE DEF n
  <1>4. Opens(n, kind, id) \in EventType /\ (piece # 0 => Says(n, piece) \in EventType)
    <2>1. 0 \in 0 .. MaxCalls /\ 0 \in 0 .. MaxPieces
      BY BoundsAreNat
    <2>. QED BY <2>1, <1>3 DEF Opens, Says, EventType
  <1>5. opening \in Seq(EventType) /\ saying \in Seq(EventType)
    BY <1>4
  <1>6. opening # <<>> => Append(work.slots, slot) \in Seq(SlotType)
    BY <1>1, <1>2
  <1>7. Feed(work, kind, index, id, piece)
          = [slots |-> IF opening = <<>> THEN work.slots ELSE Append(work.slots, slot),
             events |-> work.events \o opening \o saying]
    BY DEF Feed, slot, n
  <1>. HIDE DEF opening, saying
  <1>8. work.events \o opening \o saying \in Seq(EventType)
    BY <1>1, <1>5
  <1>. QED BY <1>1, <1>6, <1>7, <1>8 DEF WorkType

\* A set of numbers that is not empty has a least one.
LEMMA LeastNumber ==
  ASSUME NEW T \in SUBSET Nat, T # {}
  PROVE  \E x \in T : \A y \in T : x <= y
  <1>1. \E x \in T : \A y \in T : ~ (<<y, x>> \in OpToRel(<, Nat))
    <2>. HIDE DEF OpToRel
    <2>. QED BY NatLessThanWellFounded, WFMin
  <1>2. PICK x \in T : \A y \in T : ~ (<<y, x>> \in OpToRel(<, Nat))
    BY <1>1
  <1>3. \A y \in T : ~ (y < x)
    BY <1>2 DEF OpToRel
  <1>. QED BY <1>3

\* Induction, for the set of numbers that a statement holds of.
LEMMA SetInduction ==
  ASSUME NEW S, 0 \in S, \A n \in Nat : n \in S => n + 1 \in S
  PROVE  Nat \subseteq S
  <1>. SUFFICES ASSUME Nat \ S # {} PROVE FALSE
    OBVIOUS
  <1>1. PICK x \in Nat \ S : \A y \in Nat \ S : x <= y
    BY LeastNumber
  <1>2. x # 0 /\ x - 1 \in Nat
    BY <1>1
  <1>3. x - 1 \in S
    BY <1>1, <1>2
  <1>. QED BY <1>1, <1>2, <1>3

\* A step repeated from a starting point.
Run(f, x0, g, N) == f[0] = x0 /\ \A n \in 1 .. N : f[n] = g[<<n, f[n - 1]>>]

\* Every step can be repeated any number of times.
LEMMA Iteration ==
  ASSUME NEW X, NEW x0 \in X, NEW g \in [Nat \X X -> X]
  PROVE  \A N \in Nat : \E f \in [0 .. N -> X] : Run(f, x0, g, N)
  <1>. DEFINE Fine(f, N) == f[0] = x0 /\ \A n \in 1 .. N : f[n] = g[<<n, f[n - 1]>>]
              S == {N \in Nat : \E f \in [0 .. N -> X] : Fine(f, N)}
  <1>1. 0 \in S
    <2>1. [n \in 0 .. 0 |-> x0] \in [0 .. 0 -> X] /\ Fine([n \in 0 .. 0 |-> x0], 0)
      OBVIOUS
    <2>. QED BY <2>1
  <1>2. ASSUME NEW N \in Nat, N \in S PROVE N + 1 \in S
    <2>1. PICK f \in [0 .. N -> X] : Fine(f, N)
      BY <1>2
    <2>. DEFINE h == [n \in 0 .. N + 1 |-> IF n = N + 1 THEN g[<<n, f[N]>>] ELSE f[n]]
    <2>2. h \in [0 .. N + 1 -> X]
      <3>1. ASSUME NEW n \in 0 .. N + 1 PROVE (IF n = N + 1 THEN g[<<n, f[N]>>] ELSE f[n]) \in X
        <4>1. CASE n = N + 1
          <5>1. <<n, f[N]>> \in Nat \X X
            BY <4>1
          <5>. QED BY <4>1, <5>1
        <4>2. CASE n # N + 1
          BY <4>2
        <4>. QED BY <4>1, <4>2
      <3>. QED BY <3>1
    <2>3. h[0] = x0
      BY <2>1
    <2>4. ASSUME NEW n \in 1 .. N + 1 PROVE h[n] = g[<<n, h[n - 1]>>]
      <3>1. CASE n = N + 1
        <4>1. h[n - 1] = f[N]
          BY <3>1
        <4>. QED BY <3>1, <4>1
      <3>2. CASE n # N + 1
        <4>1. h[n - 1] = f[n - 1] /\ h[n] = f[n]
          BY <3>2
        <4>2. f[n] = g[<<n, f[n - 1]>>]
          BY <2>1, <3>2
        <4>. QED BY <4>1, <4>2
      <3>. QED BY <3>1, <3>2
    <2>5. Fine(h, N + 1)
      BY <2>3, <2>4
    <2>. HIDE DEF h, Fine
    <2>6. \E e \in [0 .. N + 1 -> X] : Fine(e, N + 1)
      BY <2>2, <2>5
    <2>. QED BY <2>6
  <1>. HIDE DEF S
  <1>3. Nat \subseteq S
    BY <1>1, <1>2, SetInduction
  <1>. QED BY <1>3 DEF S, Run
\* How the parts of a list are fed.
Parts == [index : Nat, id : 0 .. MaxCalls, piece : 0 .. MaxPieces]
FedBy(f, work, cs) ==
    /\ f[0] = work
    /\ \A k \in 1 .. Len(cs) : f[k] = Feed(f[k - 1], "call", cs[k].index, cs[k].id, cs[k].piece)

\* Parts are fed one after the other.
LEMMA FedCallsIs ==
  ASSUME NEW work \in WorkType, NEW chunk, chunk.calls \in Seq(Parts)
  PROVE  \E f : FedBy(f, work, chunk.calls) /\ FedCalls(work, chunk) = f[Len(chunk.calls)]
  <1>. DEFINE cs == chunk.calls
              F(h) == [k \in 0 .. Len(chunk.calls) |->
                         IF k = 0 THEN work
                         ELSE LET fragment == chunk.calls[k]
                              IN  Feed(h[k - 1], "call", fragment.index, fragment.id, fragment.piece)]
              g == [p \in Nat \X WorkType |->
                      IF p[1] \in 1 .. Len(cs)
                      THEN Feed(p[2], "call", cs[p[1]].index, cs[p[1]].id, cs[p[1]].piece)
                      ELSE p[2]]
  <1>1. g \in [Nat \X WorkType -> WorkType]
    <2>1. ASSUME NEW p \in Nat \X WorkType, p[1] \in 1 .. Len(cs)
          PROVE  Feed(p[2], "call", cs[p[1]].index, cs[p[1]].id, cs[p[1]].piece) \in WorkType
      <3>1. cs[p[1]] \in Parts
        BY <2>1
      <3>2. cs[p[1]].index \in Nat /\ cs[p[1]].id \in 0 .. MaxCalls /\ cs[p[1]].piece \in 0 .. MaxPieces
        BY <3>1 DEF Parts
      <3>3. p[2] \in WorkType /\ "call" \in Slot
        BY DEF Slot
      <3>. QED BY <3>2, <3>3, FeedType
    <2>. QED BY <2>1
  <1>2. PICK h \in [0 .. Len(cs) -> WorkType] : Run(h, work, g, Len(cs))
    <2>1. Len(cs) \in Nat
      OBVIOUS
    <2>. HIDE DEF g, cs
    <2>. QED BY <1>1, <2>1, Iteration
  <1>3. h = F(h)
    <2>1. ASSUME NEW k \in 0 .. Len(cs)
          PROVE h[k] = IF k = 0 THEN work
                       ELSE LET fragment == cs[k] IN Feed(h[k - 1], "call", fragment.index, fragment.id, fragment.piece)
      <3>1. CASE k = 0
        BY <3>1, <1>2 DEF Run
      <3>2. CASE k # 0
        <4>1. k \in 1 .. Len(cs) /\ k \in Nat /\ k - 1 \in 0 .. Len(cs)
          BY <3>2
        <4>2. h[k] = g[<<k, h[k - 1]>>]
          BY <4>1, <1>2 DEF Run
        <4>3. <<k, h[k - 1]>> \in Nat \X WorkType
          BY <4>1, <1>2
        <4>4. g[<<k, h[k - 1]>>] = Feed(h[k - 1], "call", cs[k].index, cs[k].id, cs[k].piece)
          <5>. HIDE DEF cs
          <5>. QED BY <4>1, <4>3
        <4>. QED BY <3>2, <4>2, <4>4
      <3>. QED BY <3>1, <3>2
    <2>. QED BY <2>1, <1>2
  <1>. DEFINE fed == CHOOSE f : f = F(f)
  <1>4. fed = F(fed)
    <2>. HIDE DEF F
    <2>. QED BY <1>3
  <1>5. FedCalls(work, chunk) = fed[Len(chunk.calls)]
    BY DEF FedCalls
  <1>. HIDE DEF fed
  <1>6. FedBy(fed, work, chunk.calls)
    <2>1. Len(chunk.calls) \in Nat
      OBVIOUS
    <2>2. fed[0] = work
      BY <1>4, <2>1
    <2>3. ASSUME NEW k \in 1 .. Len(chunk.calls)
          PROVE  fed[k] = Feed(fed[k - 1], "call", chunk.calls[k].index, chunk.calls[k].id, chunk.calls[k].piece)
      BY <1>4, <2>1
    <2>. QED BY <2>2, <2>3 DEF FedBy
  <1>. QED BY <1>5, <1>6

LEMMA FedCallsNone ==
  ASSUME NEW work \in WorkType, NEW chunk, chunk.calls = <<>>
  PROVE  FedCalls(work, chunk) = work
  <1>1. chunk.calls \in Seq(Parts) /\ Len(chunk.calls) = 0
    OBVIOUS
  <1>2. PICK f : FedBy(f, work, chunk.calls) /\ FedCalls(work, chunk) = f[Len(chunk.calls)]
    BY <1>1, FedCallsIs
  <1>. QED BY <1>1, <1>2 DEF FedBy

LEMMA FedCallsOne ==
  ASSUME NEW work \in WorkType, NEW chunk, NEW fragment \in Parts, chunk.calls = <<fragment>>
  PROVE  FedCalls(work, chunk) = Feed(work, "call", fragment.index, fragment.id, fragment.piece)
  <1>1. chunk.calls \in Seq(Parts) /\ Len(chunk.calls) = 1 /\ chunk.calls[1] = fragment
    OBVIOUS
  <1>2. PICK f : FedBy(f, work, chunk.calls) /\ FedCalls(work, chunk) = f[Len(chunk.calls)]
    BY <1>1, FedCallsIs
  <1>3. 1 \in 1 .. Len(chunk.calls) /\ 1 - 1 = 0
    BY <1>1
  <1>. QED BY <1>1, <1>2, <1>3 DEF FedBy

-----------------------------------------------------------------------------
(* Feeding the text and the thinking of a chunk *)

LEMMA GoodLess ==
  ASSUME NEW work, NEW its0, NEW its, NEW N \in Nat, NEW M \in Nat, NEW C \in Nat,
         NEW X \in BOOLEAN, NEW X2 \in BOOLEAN, Good(work, its0, its, N, C, X), N <= M, X2 => X
  PROVE  Good(work, its0, its, M, C, X2)
  <1>1. Shape(its, M)
    <2>1. 1 .. N \subseteq 1 .. M
      OBVIOUS
    <2>. QED BY <2>1 DEF Good, Itemised, Shape
  <1>2. Slotted(its, work.slots, X2)
    BY DEF Good, Slotted
  <1>. QED BY <1>1, <1>2 DEF Good, Itemised

LEMMA NewEventsTwice ==
  ASSUME NEW a, NEW b, NEW c, NEW P, NEW Q, NewEvents(a, b, P), NewEvents(b, c, Q)
  PROVE  NewEvents(a, c, P \cup Q)
  BY DEF NewEvents

PlainFed(work, chunk) ==
    FedText(IF protocol = "responses" THEN work ELSE FedThinking(work, chunk), chunk)

\* What of a chunk is shown as text and as thinking.
TextOf(chunk) == IF chunk.recovered /\ strip THEN 0 ELSE chunk.text
ThinkingOf(chunk) == IF strip \/ protocol = "responses" THEN 0 ELSE chunk.thinking

Only(p) == IF p = 0 THEN {} ELSE {p}

\* The pieces of text, of thinking and of calls, and what they grow by.
Growth(its, its2, T, H) ==
    /\ Of(its2, "text", 0) = Of(its, "text", 0) \cup T
    /\ Of(its2, "thinking", 0) = Of(its, "thinking", 0) \cup H

SameCalls(its, its2) == \A c \in 0 .. MaxCalls : Of(its2, "call", c) = Of(its, "call", c)

LEMMA GrowsPlain ==
  ASSUME NEW its, NEW its2, NEW kind \in {"text", "thinking"}, NEW piece,
         Grows(its, its2, kind, 0, piece, TRUE)
  PROVE  /\ kind = "text" => Growth(its, its2, Only(piece), {})
         /\ kind = "thinking" => Growth(its, its2, {}, Only(piece))
         /\ SameCalls(its, its2)
  <1>1. 0 \in 0 .. MaxCalls /\ "text" \in Slot /\ "thinking" \in Slot /\ "call" \in Slot
    BY BoundsAreNat DEF Slot
  <1>2. \A k2 \in Slot, i2 \in 0 .. MaxCalls :
          Of(its2, k2, i2) = Of(its, k2, i2)
            \cup (IF k2 = kind /\ i2 = 0 /\ piece # 0 THEN {piece} ELSE {})
    BY DEF Grows
  <1>3. SameCalls(its, its2)
    BY <1>1, <1>2 DEF SameCalls
  <1>4. Of(its2, "text", 0) = Of(its, "text", 0)
            \cup (IF "text" = kind /\ piece # 0 THEN {piece} ELSE {})
    BY <1>1, <1>2
  <1>5. Of(its2, "thinking", 0) = Of(its, "thinking", 0)
            \cup (IF "thinking" = kind /\ piece # 0 THEN {piece} ELSE {})
    BY <1>1, <1>2
  <1>. QED BY <1>3, <1>4, <1>5 DEF Growth, Only

CallGrows(its, its2, q, piece) ==
    \A c \in 0 .. MaxCalls :
        Of(its2, "call", c) = Of(its, "call", c) \cup (IF c = q THEN Only(piece) ELSE {})

LEMMA GrowsCall ==
  ASSUME NEW its, NEW its2, NEW q, NEW piece, NEW X \in BOOLEAN,
         Grows(its, its2, "call", q, piece, X)
  PROVE  Growth(its, its2, {}, {}) /\ (X => CallGrows(its, its2, q, piece))
  <1>1. 0 \in 0 .. MaxCalls /\ "text" \in Slot /\ "thinking" \in Slot /\ "call" \in Slot
    BY BoundsAreNat DEF Slot
  <1>2. \A k2 \in Slot, i2 \in 0 .. MaxCalls : X \/ k2 # "call" =>
          Of(its2, k2, i2) = Of(its, k2, i2)
            \cup (IF k2 = "call" /\ i2 = q /\ piece # 0 THEN {piece} ELSE {})
    BY DEF Grows
  <1>3. ASSUME X, NEW c \in 0 .. MaxCalls
        PROVE  Of(its2, "call", c) = Of(its, "call", c) \cup (IF c = q THEN Only(piece) ELSE {})
    <2>1. Of(its2, "call", c) = Of(its, "call", c)
            \cup (IF "call" = "call" /\ c = q /\ piece # 0 THEN {piece} ELSE {})
      BY <1>1, <1>2, <1>3
    <2>. QED BY <2>1 DEF Only
  <1>4. Of(its2, "text", 0) = Of(its, "text", 0)
    BY <1>1, <1>2
  <1>5. Of(its2, "thinking", 0) = Of(its, "thinking", 0)
    BY <1>1, <1>2
  <1>. QED BY <1>3, <1>4, <1>5 DEF Growth, CallGrows

PlainDone(work, its0, its, M, C, X, chunk, fed) ==
    /\ \E its2 :
        /\ Good(fed, its0, its2, M, C, X) /\ SameCalls(its, its2)
        /\ Growth(its, its2, Only(TextOf(chunk)), Only(ThinkingOf(chunk)))
    /\ NewEvents(work.events, fed.events, {TextOf(chunk), ThinkingOf(chunk)})

\* Text and thinking of a chunk, thinking first.
LEMMA PlainFacts ==
  ASSUME NEW work, NEW its0, NEW its, NEW N \in Nat, NEW M \in Nat, NEW L \in Nat, NEW C \in Nat,
         NEW X \in BOOLEAN, Good(work, its0, its, N, C, X),
         NEW chunk, chunk.text \in 0 .. MaxPieces, chunk.thinking \in 0 .. MaxPieces,
         N <= L, L <= M,
         chunk.thinking # 0 => N < chunk.thinking /\ chunk.thinking <= L,
         chunk.text # 0 => L < chunk.text /\ chunk.text <= M
  PROVE  PlainDone(work, its0, its, M, C, X, chunk, PlainFed(work, chunk))
  <1>. DEFINE mid == IF protocol = "responses" THEN work ELSE FedThinking(work, chunk)
              th == ThinkingOf(chunk)  tx == TextOf(chunk)
              fed == PlainFed(work, chunk)
  <1>0. "text" \in Slot /\ "thinking" \in Slot /\ 0 \in 0 .. MaxCalls
    BY BoundsAreNat DEF Slot
  <1>1. PICK its1 :
          /\ Good(mid, its0, its1, L, C, X)
          /\ Growth(its, its1, {}, Only(th)) /\ SameCalls(its, its1)
          /\ NewEvents(work.events, mid.events, {th})
    <2>1. CASE th = 0
      <3>1. mid = work
        BY <2>1 DEF ThinkingOf, FedThinking
      <3>2. Good(mid, its0, its, L, C, X)
        BY <3>1, GoodLess
      <3>. QED BY <2>1, <3>1, <3>2 DEF Only, NewEvents, Growth, SameCalls
    <2>2. CASE th # 0
      <3>1. mid = Feed(work, "thinking", 0, 0, th) /\ th = chunk.thinking
        BY <2>2 DEF ThinkingOf, FedThinking
      <3>2. th \in 1 .. MaxPieces /\ N < th /\ th <= L
        BY <2>2, <3>1, BoundsAreNat
      <3>. HIDE DEF mid, th
      <3>3. PlainlyFed(work, its0, its, L, C, X, "thinking", th, mid)
        BY <3>1, <3>2, FeedPlain
      <3>4. PICK its2 : Good(mid, its0, its2, L, C, X) /\ Grows(its, its2, "thinking", 0, th, TRUE)
        BY <3>3 DEF PlainlyFed
      <3>. QED BY <3>3, <3>4, GrowsPlain DEF PlainlyFed
    <2>. QED BY <2>1, <2>2
  <1>. HIDE DEF mid, th
  <1>2. PICK its2 :
          /\ Good(fed, its0, its2, M, C, X)
          /\ Growth(its1, its2, Only(tx), {}) /\ SameCalls(its1, its2)
          /\ NewEvents(mid.events, fed.events, {tx})
    <2>1. CASE tx = 0
      <3>1. fed = mid
        BY <2>1 DEF TextOf, FedText, PlainFed, mid
      <3>2. Good(fed, its0, its1, M, C, X)
        BY <3>1, <1>1, GoodLess
      <3>. QED BY <2>1, <3>1, <3>2 DEF Only, NewEvents, Growth, SameCalls
    <2>2. CASE tx # 0
      <3>1. fed = Feed(mid, "text", 0, 0, tx) /\ tx = chunk.text
        BY <2>2 DEF TextOf, FedText, PlainFed, mid
      <3>2. tx \in 1 .. MaxPieces /\ L < tx /\ tx <= M
        BY <2>2, <3>1, BoundsAreNat
      <3>. HIDE DEF fed, tx
      <3>3. PlainlyFed(mid, its0, its1, M, C, X, "text", tx, fed)
        BY <3>1, <3>2, <1>1, FeedPlain
      <3>4. PICK its2 : Good(fed, its0, its2, M, C, X) /\ Grows(its1, its2, "text", 0, tx, TRUE)
        BY <3>3 DEF PlainlyFed
      <3>. QED BY <3>3, <3>4, GrowsPlain DEF PlainlyFed
    <2>. QED BY <2>1, <2>2
  <1>. HIDE DEF fed, tx
  <1>3. Growth(its, its2, Only(tx), Only(th)) /\ SameCalls(its, its2)
    BY <1>1, <1>2 DEF Growth, SameCalls
  <1>4. NewEvents(work.events, fed.events, {tx, th})
    <2>1. {th} \cup {tx} = {tx, th}
      OBVIOUS
    <2>. QED BY <1>1, <1>2, <2>1, NewEventsTwice
  <1>. QED BY <1>2, <1>3, <1>4 DEF PlainDone, fed, tx, th

-----------------------------------------------------------------------------
(* What an upstream has sent *)

PieceType == [kind : Slot, call : 0 .. MaxCalls]

UpType ==
    /\ sent \in Seq(PieceType) /\ Len(sent) <= MaxPieces
    /\ calls \in 0 .. MaxCalls
    /\ \A p \in DOMAIN sent :
          /\ sent[p].kind = "call" => sent[p].call \in 1 .. calls
          /\ sent[p].kind # "call" => sent[p].call = 0
    /\ block \in Slot \cup {"none"} /\ (block = "call" => calls > 0)
    /\ bursts \in Nat
    /\ dialect # "ollama" => bursts = 0
    /\ dialect = "ollama" => (bursts = 0 => calls = 0) /\ \A p \in DOMAIN sent : sent[p].kind # "thinking"
    /\ toolIndex \in Nat
    /\ dialect \in {"anthropic", "gemini"} => toolIndex = calls

\* How one piece more changes what was sent as a kind.
SentGrows(S, S2, kind, call, p) ==
    \A k, c : SentAs(S2, k, c) = SentAs(S, k, c) \cup (IF kind = k /\ call = c THEN {p} ELSE {})

\* One piece more is sent.
LEMMA SentMore ==
  ASSUME NEW S \in Seq(PieceType), NEW x \in PieceType
  PROVE  /\ Append(S, x) \in Seq(PieceType) /\ Len(Append(S, x)) = Len(S) + 1
         /\ Append(S, x)[Len(S) + 1] = x
         /\ \A p \in DOMAIN S : Append(S, x)[p] = S[p]
         /\ SentGrows(S, Append(S, x), x.kind, x.call, Len(S) + 1)
  <1>. DEFINE S2 == Append(S, x)
  <1>1. /\ S2 \in Seq(PieceType) /\ Len(S2) = Len(S) + 1 /\ S2[Len(S) + 1] = x
        /\ DOMAIN S2 = DOMAIN S \cup {Len(S) + 1} /\ Len(S) + 1 \notin DOMAIN S
    OBVIOUS
  <1>2. \A p \in DOMAIN S : S2[p] = S[p]
    OBVIOUS
  <1>. HIDE DEF S2
  <1>3. ASSUME NEW k, NEW c
        PROVE  SentAs(S2, k, c) = SentAs(S, k, c) \cup (IF x.kind = k /\ x.call = c THEN {Len(S) + 1} ELSE {})
    BY <1>1, <1>2 DEF SentAs
  <1>4. SentGrows(S, S2, x.kind, x.call, Len(S) + 1)
    BY <1>3 DEF SentGrows
  <1>. QED BY <1>1, <1>2, <1>4 DEF S2

\* May the client see this piece?
Fair(p, S) == p \in DOMAIN S /\ (strip /\ dialect # "gemini" => S[p].kind # "thinking")

Proper(events, S) ==
    \A e \in Range(events) : e.do = "open" \/ (e.do = "say" /\ Fair(e.piece, S))

LEMMA ProperBy ==
  ASSUME NEW events, NEW S, NEW P, NewEvents(<<>>, events, P), \A p \in P \ {0} : Fair(p, S)
  PROVE  Proper(events, S)
  <1>1. Range(<<>>) = {}
    BY DEF Range
  <1>. QED BY <1>1 DEF NewEvents, Proper

\* A stream that may go on.
Ready ==
    /\ UpType /\ stage = "open" /\ end = "no" /\ outbox = <<>>
    /\ dialect \in Dialect /\ protocol \in Api
    /\ Good([slots |-> slots, events |-> <<>>], item, item, Len(sent), calls, bursts <= 1)
    /\ Tells(item, sent, calls, bursts <= 1)

\* Without a number used twice.
LEMMA ReadyExact ==
  ASSUME Ready, bursts <= 1
  PROVE  /\ Good([slots |-> slots, events |-> <<>>], item, item, Len(sent), calls, TRUE)
         /\ Tells(item, sent, calls, TRUE)
  <1>1. /\ Good([slots |-> slots, events |-> <<>>], item, item, Len(sent), calls, bursts <= 1)
        /\ Len(sent) \in Nat /\ calls \in Nat
    BY DEF Ready, UpType
  <1>2. TRUE \in BOOLEAN /\ (bursts <= 1) \in BOOLEAN /\ Len(sent) <= Len(sent)
    BY <1>1
  <1>3. Good([slots |-> slots, events |-> <<>>], item, item, Len(sent), calls, TRUE)
    BY <1>1, <1>2, GoodLess
  <1>. QED BY <1>3 DEF Ready, Tells

\* What the client will have been shown once it has what the step sends.
Onward(its2) ==
    /\ Good([slots |-> slots', events |-> outbox'], item, its2, Len(sent'), calls', bursts' <= 1)
    /\ Tells(its2, sent', calls', bursts' <= 1)
    /\ Proper(outbox', sent')

EmitsPlain(its2, chunk, M) ==
    /\ Good([slots |-> slots', events |-> outbox'], item, its2, M, calls, bursts <= 1)
    /\ SameCalls(item, its2)
    /\ Growth(item, its2, Only(TextOf(chunk)), Only(ThinkingOf(chunk)))
    /\ NewEvents(<<>>, outbox', {TextOf(chunk), ThinkingOf(chunk)})

LEMMA FedIs ==
  ASSUME NEW chunk, protocol \in Api
  PROVE  LET work == [slots |-> slots, events |-> <<>>]
         IN  Fed(chunk) = FedCalls(PlainFed(work, chunk), chunk)
  BY DEF Fed, MessagesFeed, ResponsesFeed, ChatFeed, PlainFed, Api

LEMMA WorkIs ==
  ASSUME NEW w \in WorkType
  PROVE  w = [slots |-> w.slots, events |-> w.events]
  BY DEF WorkType

\* A chunk without calls.
LEMMA EmitPlain ==
  ASSUME Ready, NEW chunk, Emit(chunk), chunk.calls = <<>>,
         NEW L \in Nat, NEW M \in Nat, Len(sent) <= L, L <= M,
         chunk.text \in 0 .. MaxPieces, chunk.thinking \in 0 .. MaxPieces,
         chunk.thinking # 0 => Len(sent) < chunk.thinking /\ chunk.thinking <= L,
         chunk.text # 0 => L < chunk.text /\ chunk.text <= M
  PROVE  \E its2 : EmitsPlain(its2, chunk, M)
  <1>. DEFINE work == [slots |-> slots, events |-> <<>>]
              fed == PlainFed(work, chunk)
  <1>1. /\ Good(work, item, item, Len(sent), calls, bursts <= 1) /\ protocol \in Api
        /\ Len(sent) \in Nat /\ calls \in Nat /\ (bursts <= 1) \in BOOLEAN /\ work.events = <<>>
    BY DEF Ready, UpType
  <1>. HIDE DEF work
  <1>2. PlainDone(work, item, item, M, calls, bursts <= 1, chunk, fed)
    BY <1>1, PlainFacts
  <1>. HIDE DEF fed
  <1>3. PICK its2 :
          /\ Good(fed, item, its2, M, calls, bursts <= 1) /\ SameCalls(item, its2)
          /\ Growth(item, its2, Only(TextOf(chunk)), Only(ThinkingOf(chunk)))
    BY <1>2 DEF PlainDone
  <1>4. fed \in WorkType
    BY <1>3 DEF Good
  <1>5. Fed(chunk) = fed
    BY <1>1, <1>4, FedIs, FedCallsNone DEF work, fed
  <1>6. outbox' = fed.events /\ slots' = fed.slots
    BY <1>5 DEF Emit
  <1>7. fed = [slots |-> slots', events |-> outbox']
    BY <1>4, <1>6, WorkIs
  <1>8. NewEvents(<<>>, outbox', {TextOf(chunk), ThinkingOf(chunk)})
    BY <1>1, <1>2, <1>6 DEF PlainDone
  <1>. QED BY <1>3, <1>7, <1>8 DEF EmitsPlain

-----------------------------------------------------------------------------
(* Text and thinking *)

\* What such a chunk makes of the account, when what is shown fits what was sent.
LEMMA OnwardBy ==
  ASSUME Ready, NEW chunk, NEW its2, sent' \in Seq(PieceType), EmitsPlain(its2, chunk, Len(sent')),
         calls' = calls, bursts' = bursts,
         TextIs(sent', Of(item, "text", 0) \cup Only(TextOf(chunk))),
         ThinkingIs(sent', Of(item, "thinking", 0) \cup Only(ThinkingOf(chunk))),
         \A c \in 1 .. calls : SentAs(sent', "call", c) = SentAs(sent, "call", c),
         \A p \in {TextOf(chunk), ThinkingOf(chunk)} \ {0} : Fair(p, sent')
  PROVE  Onward(its2)
  <1>1. Proper(outbox', sent')
    BY ProperBy DEF EmitsPlain
  <1>2. /\ Of(its2, "text", 0) = Of(item, "text", 0) \cup Only(TextOf(chunk))
        /\ Of(its2, "thinking", 0) = Of(item, "thinking", 0) \cup Only(ThinkingOf(chunk))
    BY DEF EmitsPlain, Growth
  <1>3. ASSUME bursts <= 1, NEW c \in 1 .. calls
        PROVE  Of(its2, "call", c) = SentAs(sent', "call", c)
    <2>1. c \in 0 .. MaxCalls
      BY BoundsAreNat DEF Ready, UpType
    <2>. QED BY <1>3, <2>1 DEF EmitsPlain, SameCalls, Ready, Tells
  <1>4. Tells(its2, sent', calls', bursts' <= 1)
    BY <1>2, <1>3 DEF Tells
  <1>. QED BY <1>1, <1>4 DEF EmitsPlain, Onward

\* Where the item stands before the step.
LEMMA ReadyTells ==
  ASSUME Ready
  PROVE  /\ TextIs(sent, Of(item, "text", 0)) /\ ThinkingIs(sent, Of(item, "thinking", 0))
         /\ sent \in Seq(PieceType) /\ Len(sent) \in Nat /\ Len(sent) + 1 \in Nat
  BY DEF Ready, Tells, UpType

\* One piece of text or of thinking more.
OnePiece(kind) == sent' = Append(sent, [kind |-> kind, call |-> 0])

LEMMA OnePieceSent ==
  ASSUME Ready, NEW kind \in {"text", "thinking"}, OnePiece(kind)
  PROVE  /\ sent' \in Seq(PieceType) /\ Len(sent') = Len(sent) + 1
         /\ SentAs(sent', "text", 0) = SentAs(sent, "text", 0)
               \cup (IF kind = "text" THEN {Len(sent) + 1} ELSE {})
         /\ SentAs(sent', "thinking", 0) = SentAs(sent, "thinking", 0)
               \cup (IF kind = "thinking" THEN {Len(sent) + 1} ELSE {})
         /\ \A c \in 1 .. calls : SentAs(sent', "call", c) = SentAs(sent, "call", c)
         /\ Len(sent) + 1 \in DOMAIN sent' /\ sent'[Len(sent) + 1].kind = kind
  <1>. DEFINE x == [kind |-> kind, call |-> 0]
  <1>1. x \in PieceType /\ sent \in Seq(PieceType)
    BY BoundsAreNat DEF PieceType, Slot, Ready, UpType
  <1>2. sent' = Append(sent, x) /\ x.kind = kind /\ x.call = 0
    BY DEF OnePiece
  <1>. HIDE DEF x
  <1>3. ASSUME NEW k, NEW c
        PROVE  SentAs(sent', k, c) = SentAs(sent, k, c)
                 \cup (IF kind = k /\ 0 = c THEN {Len(sent) + 1} ELSE {})
    <2>1. SentGrows(sent, sent', kind, 0, Len(sent) + 1)
      BY <1>1, <1>2, SentMore
    <2>. QED BY <2>1 DEF SentGrows
  <1>4. sent' \in Seq(PieceType) /\ Len(sent') = Len(sent) + 1 /\ sent'[Len(sent) + 1] = x
    BY <1>1, <1>2
  <1>5. SentAs(sent', "text", 0) = SentAs(sent, "text", 0)
               \cup (IF kind = "text" /\ 0 = 0 THEN {Len(sent) + 1} ELSE {})
    BY <1>3
  <1>6. SentAs(sent', "thinking", 0) = SentAs(sent, "thinking", 0)
               \cup (IF kind = "thinking" /\ 0 = 0 THEN {Len(sent) + 1} ELSE {})
    BY <1>3
  <1>7. ASSUME NEW c \in 1 .. calls PROVE SentAs(sent', "call", c) = SentAs(sent, "call", c)
    <2>1. 0 # c
      BY DEF Ready, UpType
    <2>. QED BY <2>1, <1>3
  <1>. QED BY <1>1, <1>2, <1>4, <1>5, <1>6, <1>7

\* What is in a chunk that the adapter passes on while the upstream streams.
ChunkIs(chunk, text, recovered, thinking, cs) ==
    /\ chunk.text = text /\ chunk.recovered = recovered /\ chunk.thinking = thinking
    /\ chunk.calls = cs /\ chunk.finish = "none"

\* One piece of text or of thinking, in each of the forms that adapters give it.
LEMMA PieceStep ==
  ASSUME Ready, NEW kind \in {"text", "thinking"}, OnePiece(kind), Len(sent) + 1 <= MaxPieces,
         calls' = calls, bursts' = bursts,
         NEW chunk, Emit(chunk),
         \/ ChunkIs(chunk, Len(sent) + 1, FALSE, 0, <<>>) /\ (kind = "text" \/ dialect = "gemini")
         \/ ChunkIs(chunk, Len(sent) + 1, TRUE, 0, <<>>) /\ kind = "thinking" /\ dialect \in Compatible
         \/ ChunkIs(chunk, 0, FALSE, Len(sent) + 1, <<>>) /\ kind = "thinking" /\ dialect = "anthropic"
  PROVE  \E its2 : Onward(its2)
  <1>. DEFINE N == Len(sent)
  <1>1. /\ sent' \in Seq(PieceType) /\ Len(sent') = N + 1
        /\ SentAs(sent', "text", 0) = SentAs(sent, "text", 0)
              \cup (IF kind = "text" THEN {N + 1} ELSE {})
        /\ SentAs(sent', "thinking", 0) = SentAs(sent, "thinking", 0)
              \cup (IF kind = "thinking" THEN {N + 1} ELSE {})
        /\ \A c \in 1 .. calls : SentAs(sent', "call", c) = SentAs(sent, "call", c)
        /\ N + 1 \in DOMAIN sent' /\ sent'[N + 1].kind = kind
    BY OnePieceSent
  <1>2. N \in Nat /\ N + 1 \in 1 .. MaxPieces
    BY ReadyTells, BoundsAreNat
  <1>. HIDE DEF N
  <1>3. /\ chunk.calls = <<>>
        /\ chunk.text \in {0, N + 1} /\ chunk.thinking \in {0, N + 1}
    BY DEF ChunkIs, N
  <1>4. PICK its2 : EmitsPlain(its2, chunk, Len(sent'))
    <2>0. /\ N \in Nat /\ Len(sent') \in Nat /\ N <= N /\ N <= Len(sent') /\ Len(sent') <= Len(sent')
          /\ chunk.text \in 0 .. MaxPieces /\ chunk.thinking \in 0 .. MaxPieces
          /\ N < N + 1 /\ N + 1 <= Len(sent')
      BY <1>1, <1>2, <1>3, BoundsAreNat
    <2>1. CASE chunk.text = 0
      <3>1. chunk.thinking # 0 => N < chunk.thinking /\ chunk.thinking <= Len(sent')
        BY <2>0, <1>3
      <3>2. chunk.text # 0 => Len(sent') < chunk.text /\ chunk.text <= Len(sent')
        BY <2>1
      <3>. QED BY <2>0, <3>1, <3>2, <1>3, EmitPlain DEF N
    <2>2. CASE chunk.text = N + 1
      <3>1. chunk.thinking = 0
        BY <2>2, <1>2 DEF ChunkIs, N
      <3>2. chunk.thinking # 0 => N < chunk.thinking /\ chunk.thinking <= N
        BY <3>1
      <3>3. chunk.text # 0 => N < chunk.text /\ chunk.text <= Len(sent')
        BY <2>0, <2>2
      <3>. QED BY <2>0, <3>2, <3>3, <1>3, EmitPlain DEF N
    <2>. QED BY <2>1, <2>2, <1>3
  <1>. DEFINE A == SentAs(sent, "text", 0)  B == SentAs(sent, "thinking", 0)
              T == Of(item, "text", 0)  H == Of(item, "thinking", 0)
              tx == TextOf(chunk)  th == ThinkingOf(chunk)
  <1>5. TextIs(sent, T) /\ ThinkingIs(sent, H)
    BY ReadyTells
  <1>6. \/ tx = N + 1 /\ th = 0 /\ (kind = "text" \/ dialect = "gemini")
        \/ tx = (IF strip THEN 0 ELSE N + 1) /\ th = 0 /\ kind = "thinking" /\ dialect \in Compatible
        \/ /\ tx = 0 /\ th = (IF strip \/ protocol = "responses" THEN 0 ELSE N + 1)
           /\ kind = "thinking" /\ dialect = "anthropic"
    BY DEF ChunkIs, TextOf, ThinkingOf, N
  <1>7. "anthropic" \notin Compatible /\ "gemini" \notin Compatible /\ "ollama" \notin Compatible
    BY DEF Compatible
  <1>. HIDE DEF T, H, tx, th
  <1>8. TextIs(sent', T \cup Only(tx))
    BY <1>1, <1>2, <1>5, <1>6, <1>7, kind \in {"text", "thinking"}, Ready DEF TextIs, Only, Ready, UpType
  <1>9. ThinkingIs(sent', H \cup Only(th))
    BY <1>1, <1>2, <1>5, <1>6, <1>7 DEF ThinkingIs, Only
  <1>10. \A p \in {tx, th} \ {0} : Fair(p, sent')
    <2>1. \A p \in {tx, th} \ {0} : p = N + 1
      BY <1>6
    <2>2. strip /\ dialect # "gemini" /\ kind = "thinking" => tx = 0 /\ th = 0
      BY <1>6
    <2>. QED BY <2>1, <2>2, <1>1 DEF Fair
  <1>. QED BY <1>1, <1>4, <1>8, <1>9, <1>10, OnwardBy DEF T, H, tx, th

\* A piece of thinking and a piece of text in one chunk.
LEMMA BothStep ==
  ASSUME Ready, dialect \in Compatible, Len(sent) + 2 <= MaxPieces, calls' = calls, bursts' = bursts,
         sent' = sent \o <<[kind |-> "thinking", call |-> 0], [kind |-> "text", call |-> 0]>>,
         NEW chunk, Emit(chunk), ChunkIs(chunk, Len(sent) + 2, FALSE, Len(sent) + 1, <<>>)
  PROVE  \E its2 : Onward(its2)
  <1>. DEFINE N == Len(sent)
              x == [kind |-> "thinking", call |-> 0]  y == [kind |-> "text", call |-> 0]
              mid == Append(sent, x)
  <1>1. /\ x \in PieceType /\ y \in PieceType /\ sent \in Seq(PieceType) /\ N \in Nat
        /\ x.kind = "thinking" /\ x.call = 0 /\ y.kind = "text" /\ y.call = 0
    BY BoundsAreNat DEF PieceType, Slot, Ready, UpType
  <1>2. sent' = Append(mid, y)
    <2>. HIDE DEF x, y
    <2>1. sent \o <<x, y>> = Append(Append(sent, x), y)
      BY <1>1
    <2>. QED BY <2>1 DEF x, y
  <1>. HIDE DEF x, y, mid
  <1>3. /\ mid \in Seq(PieceType) /\ Len(mid) = N + 1 /\ mid[N + 1] = x
        /\ \A p \in DOMAIN sent : mid[p] = sent[p]
    BY <1>1, SentMore DEF mid
  <1>4. ASSUME NEW k, NEW c
        PROVE  SentAs(mid, k, c) = SentAs(sent, k, c)
                 \cup (IF "thinking" = k /\ 0 = c THEN {N + 1} ELSE {})
    <2>1. SentGrows(sent, mid, "thinking", 0, N + 1)
      BY <1>1, SentMore DEF mid
    <2>. QED BY <2>1 DEF SentGrows
  <1>5. ASSUME NEW k, NEW c
        PROVE  SentAs(sent', k, c) = SentAs(mid, k, c)
                 \cup (IF "text" = k /\ 0 = c THEN {N + 2} ELSE {})
    <2>1. SentGrows(mid, sent', "text", 0, Len(mid) + 1)
      BY <1>1, <1>2, <1>3, SentMore
    <2>2. Len(mid) + 1 = N + 2
      BY <1>1, <1>3
    <2>. QED BY <2>1, <2>2 DEF SentGrows
  <1>6. /\ sent' \in Seq(PieceType) /\ Len(sent') = N + 2
        /\ N + 2 \in DOMAIN sent' /\ sent'[N + 2].kind = "text"
    BY <1>1, <1>2, <1>3
  <1>7. /\ SentAs(sent', "text", 0) = SentAs(sent, "text", 0) \cup {N + 2}
        /\ SentAs(sent', "thinking", 0) = SentAs(sent, "thinking", 0) \cup {N + 1}
        /\ \A c \in 1 .. calls : SentAs(sent', "call", c) = SentAs(sent, "call", c)
    <2>1. ASSUME NEW c PROVE SentAs(mid, "call", c) = SentAs(sent, "call", c)
      <3>1. SentAs(mid, "call", c) = SentAs(sent, "call", c)
                 \cup (IF "thinking" = "call" /\ 0 = c THEN {N + 1} ELSE {})
        BY <1>4
      <3>. QED BY <3>1
    <2>2. ASSUME NEW c PROVE SentAs(sent', "call", c) = SentAs(mid, "call", c)
      <3>1. SentAs(sent', "call", c) = SentAs(mid, "call", c)
                 \cup (IF "text" = "call" /\ 0 = c THEN {N + 2} ELSE {})
        BY <1>5
      <3>. QED BY <3>1
    <2>3. SentAs(sent', "text", 0) = SentAs(mid, "text", 0) \cup {N + 2}
            /\ SentAs(mid, "text", 0) = SentAs(sent, "text", 0)
      <3>1. SentAs(sent', "text", 0) = SentAs(mid, "text", 0)
                 \cup (IF "text" = "text" /\ 0 = 0 THEN {N + 2} ELSE {})
        BY <1>5
      <3>2. SentAs(mid, "text", 0) = SentAs(sent, "text", 0)
                 \cup (IF "thinking" = "text" /\ 0 = 0 THEN {N + 1} ELSE {})
        BY <1>4
      <3>. QED BY <3>1, <3>2
    <2>4. SentAs(sent', "thinking", 0) = SentAs(mid, "thinking", 0)
            /\ SentAs(mid, "thinking", 0) = SentAs(sent, "thinking", 0) \cup {N + 1}
      <3>1. SentAs(sent', "thinking", 0) = SentAs(mid, "thinking", 0)
                 \cup (IF "text" = "thinking" /\ 0 = 0 THEN {N + 2} ELSE {})
        BY <1>5
      <3>2. SentAs(mid, "thinking", 0) = SentAs(sent, "thinking", 0)
                 \cup (IF "thinking" = "thinking" /\ 0 = 0 THEN {N + 1} ELSE {})
        BY <1>4
      <3>. QED BY <3>1, <3>2
    <2>. QED BY <2>1, <2>2, <2>3, <2>4
  <1>8. /\ chunk.calls = <<>> /\ chunk.text = N + 2 /\ chunk.thinking = N + 1 /\ chunk.recovered = FALSE
        /\ chunk.text \in 0 .. MaxPieces /\ chunk.thinking \in 0 .. MaxPieces
        /\ N + 1 \in Nat /\ Len(sent') \in Nat /\ N <= N + 1 /\ N + 1 <= Len(sent')
        /\ N < N + 1 /\ N + 1 < N + 2 /\ N + 2 <= Len(sent') /\ N + 1 <= N + 1
    BY <1>1, <1>6, BoundsAreNat DEF ChunkIs
  <1>9. PICK its2 : EmitsPlain(its2, chunk, Len(sent'))
    <2>1. chunk.thinking # 0 => N < chunk.thinking /\ chunk.thinking <= N + 1
      BY <1>8
    <2>2. chunk.text # 0 => N + 1 < chunk.text /\ chunk.text <= Len(sent')
      BY <1>8
    <2>. QED BY <1>8, <2>1, <2>2, EmitPlain DEF N
  <1>. DEFINE T == Of(item, "text", 0)  H == Of(item, "thinking", 0)
              tx == TextOf(chunk)  th == ThinkingOf(chunk)
  <1>10. TextIs(sent, T) /\ ThinkingIs(sent, H)
    BY ReadyTells
  <1>11. tx = N + 2 /\ th = (IF strip \/ protocol = "responses" THEN 0 ELSE N + 1)
    BY <1>8 DEF TextOf, ThinkingOf
  <1>12. "anthropic" \notin Compatible
    BY DEF Compatible
  <1>. HIDE DEF T, H, tx, th, N
  <1>13. TextIs(sent', T \cup Only(tx))
    BY <1>1, <1>7, <1>10, <1>11, <1>12 DEF TextIs, Only
  <1>14. ThinkingIs(sent', H \cup Only(th))
    BY <1>1, <1>7, <1>10, <1>11, <1>12 DEF ThinkingIs, Only
  <1>15. \A p \in {tx, th} \ {0} : Fair(p, sent')
    <2>1. N + 1 \in DOMAIN sent'
      BY <1>1, <1>6
    <2>2. strip => th = 0
      BY <1>11
    <2>. QED BY <2>1, <2>2, <1>6, <1>11 DEF Fair
  <1>. QED BY <1>6, <1>7, <1>9, <1>13, <1>14, <1>15, OnwardBy DEF T, H, tx, th

-----------------------------------------------------------------------------
(* One call, or one part of a call *)

EmitsCall(its2, q, piece, M, C2) ==
    /\ Good([slots |-> slots', events |-> outbox'], item, its2, M, C2, TRUE)
    /\ Grows(item, its2, "call", q, piece, TRUE)
    /\ NewEvents(<<>>, outbox', {piece})

\* A chunk with one part of a call.
LEMMA EmitCall ==
  ASSUME Ready, bursts <= 1, NEW chunk, NEW fragment \in Parts, ChunkIs(chunk, 0, FALSE, 0, <<fragment>>), Emit(chunk),
         NEW M \in Nat, NEW C2 \in Nat, C2 > 0, Len(sent) <= M,
         fragment.piece # 0 => Len(sent) < fragment.piece /\ fragment.piece <= M,
         NEW q, q = Number(slots, fragment.index), q \in 1 .. calls + 1,
         C2 = (IF q > calls THEN q ELSE calls), q > calls => fragment.id = q
  PROVE  \E its2 : EmitsCall(its2, q, fragment.piece, M, C2)
  <1>. DEFINE work == [slots |-> slots, events |-> <<>>]
              fed == Feed(work, "call", fragment.index, fragment.id, fragment.piece)
  <1>1. /\ Good(work, item, item, Len(sent), calls, TRUE) /\ protocol \in Api
        /\ Len(sent) \in Nat /\ calls \in Nat /\ work.events = <<>> /\ work.slots = slots
    <2>1. Good(work, item, item, Len(sent), calls, TRUE)
      BY ReadyExact
    <2>2. protocol \in Api /\ Len(sent) \in Nat /\ calls \in Nat
      BY DEF Ready, UpType
    <2>. QED BY <2>1, <2>2
  <1>2. /\ chunk.text = 0 /\ chunk.thinking = 0 /\ chunk.calls = <<fragment>> /\ chunk.finish = "none"
        /\ fragment.index \in Nat /\ fragment.id \in 0 .. MaxCalls /\ fragment.piece \in 0 .. MaxPieces
    BY DEF ChunkIs, Parts
  <1>3. PlainFed(work, chunk) = work
    BY <1>2 DEF PlainFed, FedText, FedThinking
  <1>. HIDE DEF work
  <1>4. work \in WorkType
    BY <1>1 DEF Good
  <1>5. Fed(chunk) = fed
    <2>1. Fed(chunk) = FedCalls(PlainFed(work, chunk), chunk)
      BY <1>1, FedIs DEF work
    <2>. QED BY <2>1, <1>2, <1>3, <1>4, FedCallsOne
  <1>. HIDE DEF fed
  <1>6. CallFed(work, item, item, M, C2, TRUE, q, fragment.piece, fed)
    <2>1. fed = Feed(work, "call", fragment.index, fragment.id, fragment.piece)
      BY DEF fed
    <2>2. q = Number(work.slots, fragment.index)
      BY <1>1
    <2>. QED BY <2>1, <2>2, <1>1, <1>2, FeedCall
  <1>7. PICK its2 : Good(fed, item, its2, M, C2, TRUE) /\ Grows(item, its2, "call", q, fragment.piece, TRUE)
    BY <1>6 DEF CallFed
  <1>8. outbox' = fed.events /\ slots' = fed.slots
    BY <1>5 DEF Emit
  <1>9. fed = [slots |-> slots', events |-> outbox']
    BY <1>7, <1>8, WorkIs DEF Good
  <1>10. NewEvents(<<>>, outbox', {fragment.piece})
    BY <1>1, <1>6, <1>8 DEF CallFed
  <1>. QED BY <1>7, <1>9, <1>10 DEF EmitsCall

LEMMA CallStep ==
  ASSUME Ready, dialect # "ollama", bursts' = bursts,
         NEW fragment \in Parts, NEW q, q = Number(slots, fragment.index),
         q \in 1 .. calls + 1, q <= MaxCalls, q > calls => fragment.id = q,
         calls' = (IF q > calls THEN q ELSE calls),
         fragment.piece \in {0, Len(sent) + 1},
         sent' = IF fragment.piece = 0 THEN sent ELSE Append(sent, [kind |-> "call", call |-> q]),
         NEW chunk, ChunkIs(chunk, 0, FALSE, 0, <<fragment>>), Emit(chunk)
  PROVE  \E its2 : Onward(its2)
  <1>. DEFINE N == Len(sent)  piece == fragment.piece
              x == [kind |-> "call", call |-> q]
  <1>0. bursts = 0 /\ (bursts <= 1) = TRUE
    <2>1. bursts = 0
      BY DEF Ready, UpType
    <2>. QED BY <2>1
  <1>1. /\ sent \in Seq(PieceType) /\ N \in Nat /\ calls \in Nat /\ calls <= MaxCalls
        /\ q \in Nat /\ q > 0 /\ x \in PieceType /\ x.kind = "call" /\ x.call = q
        /\ Itemised(item, N, calls, TRUE) /\ Tells(item, sent, calls, TRUE)
        /\ \A p \in DOMAIN sent : sent[p].kind = "call" => sent[p].call \in 1 .. calls
    <2>1. Itemised(item, N, calls, TRUE) /\ Tells(item, sent, calls, TRUE)
      BY <1>0, ReadyExact DEF Good
    <2>2. /\ sent \in Seq(PieceType) /\ N \in Nat /\ calls \in 0 .. MaxCalls
          /\ \A p \in DOMAIN sent : sent[p].kind = "call" => sent[p].call \in 1 .. calls
      BY DEF Ready, UpType
    <2>3. q \in Nat /\ q > 0 /\ q \in 0 .. MaxCalls /\ calls \in Nat /\ calls <= MaxCalls
      BY <2>2, BoundsAreNat
    <2>4. x \in PieceType /\ x.kind = "call" /\ x.call = q
      BY <2>3 DEF PieceType, Slot
    <2>. QED BY <2>1, <2>2, <2>3, <2>4
  <1>. HIDE DEF x
  <1>2. ASSUME NEW k, NEW c
        PROVE  SentAs(sent', k, c) = SentAs(sent, k, c)
                 \cup (IF k = "call" /\ c = q /\ piece # 0 THEN {N + 1} ELSE {})
    <2>1. CASE piece = 0
      BY <2>1
    <2>2. CASE piece # 0
      <3>1. SentGrows(sent, sent', "call", q, N + 1)
        BY <2>2, <1>1, SentMore DEF x
      <3>. QED BY <2>2, <3>1 DEF SentGrows
    <2>. QED BY <2>1, <2>2
  <1>3. /\ sent' \in Seq(PieceType) /\ Len(sent') = (IF piece = 0 THEN N ELSE N + 1)
        /\ piece # 0 => N + 1 \in DOMAIN sent' /\ sent'[N + 1].kind = "call"
    BY <1>1 DEF x
  <1>4. calls' \in Nat /\ calls' > 0 /\ Len(sent') \in Nat /\ N <= Len(sent')
          /\ (piece # 0 => N < piece /\ piece <= Len(sent'))
    BY <1>1, <1>3
  <1>5. PICK its2 : EmitsCall(its2, q, piece, Len(sent'), calls')
    <2>1. bursts <= 1
      BY <1>0
    <2>. QED BY <1>4, <2>1, EmitCall
  <1>. DEFINE T == Of(item, "text", 0)  H == Of(item, "thinking", 0)
  <1>. HIDE DEF N, piece
  <1>6. Growth(item, its2, {}, {}) /\ CallGrows(item, its2, q, piece)
    BY <1>5, GrowsCall DEF EmitsCall
  <1>7. Of(its2, "text", 0) = T /\ Of(its2, "thinking", 0) = H
    BY <1>6 DEF Growth
  <1>8. SentAs(sent', "text", 0) = SentAs(sent, "text", 0)
          /\ SentAs(sent', "thinking", 0) = SentAs(sent, "thinking", 0)
    <2>1. SentAs(sent', "text", 0) = SentAs(sent, "text", 0)
                 \cup (IF "text" = "call" /\ 0 = q /\ piece # 0 THEN {N + 1} ELSE {})
      BY <1>2
    <2>2. SentAs(sent', "thinking", 0) = SentAs(sent, "thinking", 0)
                 \cup (IF "thinking" = "call" /\ 0 = q /\ piece # 0 THEN {N + 1} ELSE {})
      BY <1>2
    <2>. QED BY <2>1, <2>2
  <1>9. TextIs(sent', T) /\ ThinkingIs(sent', H)
    <2>1. TextIs(sent, T) /\ ThinkingIs(sent, H)
      BY ReadyTells
    <2>. HIDE DEF T, H
    <2>. QED BY <2>1, <1>8 DEF TextIs, ThinkingIs
  <1>10. ASSUME NEW c \in 1 .. calls' PROVE Of(its2, "call", c) = SentAs(sent', "call", c)
    <2>1. c \in 0 .. MaxCalls
      BY <1>1, <1>4, BoundsAreNat
    <2>2. Of(item, "call", c) = SentAs(sent, "call", c)
      <3>1. CASE c \in 1 .. calls
        BY <3>1, <1>1 DEF Tells
      <3>2. CASE c \notin 1 .. calls
        <4>1. SentAs(sent, "call", c) = {}
          BY <3>2, <1>1 DEF SentAs
        <4>2. \A i \in DOMAIN item : ~(item[i].kind = "call" /\ item[i].id = c)
          BY <3>2, <1>1 DEF Itemised, CallItems
        <4>3. Of(item, "call", c) = {}
          BY <4>2 DEF Of
        <4>. QED BY <4>1, <4>3
      <3>. QED BY <3>1, <3>2
    <2>3. Of(its2, "call", c) = Of(item, "call", c) \cup (IF c = q THEN Only(piece) ELSE {})
      BY <2>1, <1>6 DEF CallGrows
    <2>4. SentAs(sent', "call", c) = SentAs(sent, "call", c)
                 \cup (IF c = q /\ piece # 0 THEN {N + 1} ELSE {})
      BY <1>2
    <2>5. piece # 0 => piece = N + 1
      BY DEF N, piece
    <2>. QED BY <2>2, <2>3, <2>4, <2>5 DEF Only
  <1>11. Tells(its2, sent', calls', TRUE)
    BY <1>7, <1>9, <1>10 DEF Tells
  <1>12. Proper(outbox', sent')
    <2>1. \A p \in {piece} \ {0} : Fair(p, sent')
      BY <1>3 DEF Fair, N, piece
    <2>. QED BY <2>1, <1>5, ProperBy DEF EmitsCall
  <1>13. (bursts' <= 1) = TRUE
    BY <1>0
  <1>. QED BY <1>5, <1>11, <1>12, <1>13 DEF Onward, EmitsCall

-----------------------------------------------------------------------------
(* Whole calls, several in a message *)

BurstFed(work, its0, its, N, C, X2, n, fed) ==
    /\ \E its2 :
        /\ Good(fed, its0, its2, N + n, C + n, X2) /\ Growth(its, its2, {}, {})
        /\ X2 => \A c \in 0 .. MaxCalls : Of(its2, "call", c)
                    = Of(its, "call", c) \cup (IF c \in 1 .. n THEN {N + c} ELSE {})
    /\ NewEvents(work.events, fed.events, N + 1 .. N + n)

\* Several whole calls, numbered from the first of the message on.
LEMMA BurstOneMore ==
  ASSUME NEW work, NEW its0, NEW its, NEW N \in Nat, NEW C \in Nat, NEW X \in BOOLEAN,
         X => C = 0, NEW k \in Nat, C + k + 1 <= MaxCalls, N + k + 1 <= MaxPieces,
         NEW fed, BurstFed(work, its0, its, N, C, X, k, fed),
         NEW fed2, fed2 = Feed(fed, "call", k + 1, C + (k + 1), N + (k + 1))
  PROVE  BurstFed(work, its0, its, N, C, X, k + 1, fed2)
  <1>1. PICK its1 :
          /\ Good(fed, its0, its1, N + k, C + k, X) /\ Growth(its, its1, {}, {})
          /\ X => \A c \in 0 .. MaxCalls : Of(its1, "call", c)
                    = Of(its, "call", c) \cup (IF c \in 1 .. k THEN {N + c} ELSE {})
    BY DEF BurstFed
  <1>2. NewEvents(work.events, fed.events, N + 1 .. N + k)
    BY DEF BurstFed
  <1>3. CallFed(fed, its0, its1, N + (k + 1), C + (k + 1), X, k + 1, N + (k + 1), fed2)
    <2>1. /\ N + k \in Nat /\ C + k \in Nat /\ N + (k + 1) \in Nat /\ C + (k + 1) \in Nat
          /\ k + 1 \in Nat /\ C + (k + 1) \in 0 .. MaxCalls /\ N + (k + 1) \in 0 .. MaxPieces
          /\ N + k <= N + (k + 1) /\ N + k < N + (k + 1) /\ N + (k + 1) <= N + (k + 1)
          /\ C + (k + 1) > 0
      BY BoundsAreNat
    <2>2. k + 1 = Number(fed.slots, k + 1)
      BY DEF Number, NoIndex
    <2>3. X => /\ k + 1 \in 1 .. (C + k) + 1
               /\ C + (k + 1) = (IF k + 1 > C + k THEN k + 1 ELSE C + k)
               /\ k + 1 > C + k => C + (k + 1) = k + 1
      OBVIOUS
    <2>. QED BY <1>1, <2>1, <2>2, <2>3, FeedCall
  <1>4. PICK its2 : /\ Good(fed2, its0, its2, N + (k + 1), C + (k + 1), X)
                    /\ Grows(its1, its2, "call", k + 1, N + (k + 1), X)
    BY <1>3 DEF CallFed
  <1>5. Growth(its1, its2, {}, {}) /\ (X => CallGrows(its1, its2, k + 1, N + (k + 1)))
    BY <1>4, GrowsCall
  <1>6. Growth(its, its2, {}, {})
    BY <1>1, <1>5 DEF Growth
  <1>7. ASSUME X, NEW c \in 0 .. MaxCalls
        PROVE  Of(its2, "call", c) = Of(its, "call", c) \cup (IF c \in 1 .. k + 1 THEN {N + c} ELSE {})
    <2>1. Of(its2, "call", c) = Of(its1, "call", c)
            \cup (IF c = k + 1 THEN Only(N + (k + 1)) ELSE {})
      BY <1>5, <1>7 DEF CallGrows
    <2>2. Of(its1, "call", c) = Of(its, "call", c) \cup (IF c \in 1 .. k THEN {N + c} ELSE {})
      BY <1>1, <1>7
    <2>3. Only(N + (k + 1)) = {N + (k + 1)}
      BY DEF Only
    <2>4. CASE c = k + 1
      <3>1. c \in 1 .. k + 1 /\ c \notin 1 .. k
        BY <2>4
      <3>. QED BY <2>1, <2>2, <2>3, <2>4, <3>1
    <2>5. CASE c # k + 1
      <3>1. c \in 1 .. k + 1 <=> c \in 1 .. k
        BY <2>5
      <3>. QED BY <2>1, <2>2, <2>5, <3>1
    <2>. QED BY <2>4, <2>5
  <1>8. NewEvents(work.events, fed2.events, N + 1 .. N + (k + 1))
    <2>1. NewEvents(fed.events, fed2.events, {N + (k + 1)})
      BY <1>3 DEF CallFed
    <2>2. (N + 1 .. N + k) \cup {N + (k + 1)} = N + 1 .. N + (k + 1)
      OBVIOUS
    <2>3. NewEvents(work.events, fed2.events, (N + 1 .. N + k) \cup {N + (k + 1)})
      BY <1>2, <2>1, NewEventsTwice
    <2>. QED BY <2>2, <2>3
  <1>. QED BY <1>4, <1>6, <1>7, <1>8 DEF BurstFed

LEMMA BurstIs ==
  ASSUME NEW work, NEW its0, NEW its, NEW N \in Nat, NEW C \in Nat, NEW X \in BOOLEAN,
         Good(work, its0, its, N, C, X), NEW n \in Nat, n > 0 => (X => C = 0),
         C + n <= MaxCalls, N + n <= MaxPieces,
         NEW chunk, chunk.calls = [k \in 1 .. n |-> Part(k, C + k, N + k)]
  PROVE  BurstFed(work, its0, its, N, C, X, n, FedCalls(work, chunk))
  <1>. DEFINE cs == chunk.calls
  <1>1. work \in WorkType
    BY DEF Good
  <1>2. cs \in Seq(Parts) /\ Len(cs) = n
        /\ \A k \in 1 .. n : cs[k].index = k /\ cs[k].id = C + k /\ cs[k].piece = N + k
    <2>1. \A k \in 1 .. n : Part(k, C + k, N + k) \in Parts
      BY BoundsAreNat DEF Part, Parts
    <2>. QED BY <2>1 DEF Part
  <1>. HIDE DEF cs
  <1>3. PICK f : FedBy(f, work, cs) /\ FedCalls(work, chunk) = f[Len(cs)]
    BY <1>1, <1>2, FedCallsIs DEF cs
  <1>. DEFINE S == {k \in Nat : k <= n => BurstFed(work, its0, its, N, C, X, k, f[k])}
  <1>4. 0 \in S
    <2>1. N + 0 = N /\ C + 0 = C /\ f[0] = work
      BY <1>3 DEF FedBy
    <2>2. Growth(its, its, {}, {})
      BY DEF Growth
    <2>3. \A c \in 0 .. MaxCalls : Of(its, "call", c)
                    = Of(its, "call", c) \cup (IF c \in 1 .. 0 THEN {N + c} ELSE {})
      OBVIOUS
    <2>4. NewEvents(work.events, work.events, N + 1 .. N)
      BY DEF NewEvents
    <2>5. BurstFed(work, its0, its, N, C, X, 0, work)
      BY <2>1, <2>2, <2>3, <2>4 DEF BurstFed
    <2>. QED BY <2>1, <2>5
  <1>5. ASSUME NEW k \in Nat, k \in S PROVE k + 1 \in S
    <2>1. SUFFICES ASSUME k + 1 <= n PROVE BurstFed(work, its0, its, N, C, X, k + 1, f[k + 1])
      OBVIOUS
    <2>2. BurstFed(work, its0, its, N, C, X, k, f[k])
      BY <1>5, <2>1
    <2>3. f[k + 1] = Feed(f[k], "call", k + 1, C + (k + 1), N + (k + 1))
      <3>1. k + 1 \in 1 .. n /\ (k + 1) - 1 = k
        BY <2>1
      <3>2. f[k + 1] = Feed(f[(k + 1) - 1], "call", cs[k + 1].index, cs[k + 1].id, cs[k + 1].piece)
        BY <1>2, <1>3, <3>1 DEF FedBy
      <3>. QED BY <1>2, <3>1, <3>2
    <2>4. C + k + 1 <= MaxCalls /\ N + k + 1 <= MaxPieces /\ (X => C = 0)
      BY <2>1, BoundsAreNat
    <2>. HIDE DEF S
    <2>5. PICK fed, fed2 : fed = f[k] /\ fed2 = f[k + 1]
      OBVIOUS
    <2>6. BurstFed(work, its0, its, N, C, X, k, fed)
      BY <2>2, <2>5
    <2>7. fed2 = Feed(fed, "call", k + 1, C + (k + 1), N + (k + 1))
      BY <2>3, <2>5
    <2>8. BurstFed(work, its0, its, N, C, X, k + 1, fed2)
      BY <2>4, <2>6, <2>7, BurstOneMore
    <2>. QED BY <2>5, <2>8
  <1>6. n \in S
    <2>. HIDE DEF S
    <2>. QED BY <1>4, <1>5, SetInduction
  <1>. QED BY <1>2, <1>3, <1>6

CallsPart(n) == [k \in 1 .. n |-> [kind |-> "call", call |-> calls + k]]
TextPart(text) == IF text THEN <<[kind |-> "text", call |-> 0]>> ELSE <<>>

\* What a message adds to what was sent.
MessageSent(text, n, base) ==
    /\ sent' \in Seq(PieceType) /\ Len(sent') = base + n
    /\ \A p \in DOMAIN sent : p \in DOMAIN sent' /\ sent'[p] = sent[p]
    /\ text => base \in DOMAIN sent' /\ sent'[base] = [kind |-> "text", call |-> 0]
    /\ \A k \in 1 .. n :
          base + k \in DOMAIN sent' /\ sent'[base + k] = [kind |-> "call", call |-> calls + k]
    /\ DOMAIN sent' = DOMAIN sent \cup (IF text THEN {base} ELSE {}) \cup {base + k : k \in 1 .. n}

ConcatIs(T, s, t, M, n, u) ==
    /\ u \in Seq(T) /\ Len(u) = M + n /\ DOMAIN u = 1 .. M + n /\ DOMAIN s = 1 .. M
    /\ \A p \in 1 .. M : u[p] = s[p]
    /\ \A k \in 1 .. n : u[M + k] = t[k]

LEMMA Concatenated ==
  ASSUME NEW T, NEW s \in Seq(T), NEW t \in Seq(T), NEW M \in Nat, M = Len(s), NEW n \in Nat, n = Len(t),
         NEW u, u = s \o t
  PROVE  ConcatIs(T, s, t, M, n, u)
  <1>1. \A k \in 1 .. n : u[M + k] = t[k]
    <2>1. ASSUME NEW k \in 1 .. n PROVE u[M + k] = t[k]
      <3>1. M + k \in 1 .. M + n /\ M + k > M /\ (M + k) - M = k
        OBVIOUS
      <3>. QED BY <3>1
    <2>. QED BY <2>1
  <1>. QED BY <1>1 DEF ConcatIs

\* What a message of Ollama adds to what was sent.
LEMMA MessageIsSent ==
  ASSUME Ready, NEW text \in BOOLEAN, NEW n \in Nat, calls + n <= MaxCalls,
         NEW base, base = Len(sent) + (IF text THEN 1 ELSE 0),
         sent' = sent \o TextPart(text) \o CallsPart(n)
  PROVE  MessageSent(text, n, base)
  <1>. DEFINE x == [kind |-> "text", call |-> 0]
              b == CallsPart(n)
              mid == sent \o TextPart(text)
  <1>1. sent \in Seq(PieceType) /\ calls \in Nat /\ Len(sent) \in Nat /\ base \in Nat
    BY DEF Ready, UpType
  <1>2. x \in PieceType
    BY BoundsAreNat DEF PieceType, Slot
  <1>3. b \in Seq(PieceType) /\ Len(b) = n /\ \A k \in 1 .. n : b[k] = [kind |-> "call", call |-> calls + k]
    <2>1. ASSUME NEW k \in 1 .. n PROVE [kind |-> "call", call |-> calls + k] \in PieceType
      <3>1. calls + k \in 0 .. MaxCalls
        BY <1>1, BoundsAreNat
      <3>. QED BY <3>1 DEF PieceType, Slot
    <2>. QED BY <2>1 DEF CallsPart
  <1>. HIDE DEF b, x
  <1>4. /\ mid \in Seq(PieceType) /\ Len(mid) = base
        /\ \A p \in DOMAIN sent : p \in 1 .. base /\ mid[p] = sent[p]
        /\ text => mid[base] = x /\ base \in 1 .. base
        /\ 1 .. base = DOMAIN sent \cup (IF text THEN {base} ELSE {})
    <2>1. CASE text
      <3>1. mid = sent \o <<x>>
        BY <2>1 DEF TextPart, x
      <3>2. mid = Append(sent, x) /\ base = Len(sent) + 1
        BY <2>1, <3>1, <1>1, <1>2, Joined
      <3>3. DOMAIN sent = 1 .. Len(sent) /\ 1 .. base = DOMAIN sent \cup {base}
        BY <3>2, <1>1
      <3>4. mid \in Seq(PieceType) /\ Len(mid) = base /\ mid[base] = x
              /\ \A p \in 1 .. Len(sent) : mid[p] = sent[p]
        <4>. HIDE DEF mid
        <4>. QED BY <3>2, <1>1, <1>2
      <3>. QED BY <2>1, <3>2, <3>3, <3>4, <1>1
    <2>2. CASE ~text
      <3>1. mid = sent \o <<>>
        BY <2>2 DEF TextPart
      <3>2. mid = sent /\ base = Len(sent)
        BY <2>2, <3>1, <1>1
      <3>. QED BY <2>2, <3>2, <1>1
    <2>. QED BY <2>1, <2>2
  <1>5. sent' = mid \o b
    BY DEF b
  <1>. HIDE DEF mid
  <1>6. /\ sent' \in Seq(PieceType) /\ Len(sent') = base + n /\ DOMAIN sent' = 1 .. base + n
        /\ \A p \in 1 .. base : sent'[p] = mid[p]
        /\ \A k \in 1 .. n : sent'[base + k] = b[k]
    <2>1. ConcatIs(PieceType, mid, b, base, n, sent')
      BY <1>1, <1>3, <1>4, <1>5, Concatenated
    <2>. QED BY <2>1 DEF ConcatIs
  <1>7. 1 .. base + n = 1 .. base \cup {base + k : k \in 1 .. n}
    <2>1. ASSUME NEW p \in 1 .. base + n, p > base PROVE p \in {base + k : k \in 1 .. n}
      <3>1. p - base \in 1 .. n /\ p = base + (p - base)
        BY <2>1, <1>1
      <3>. QED BY <3>1
    <2>2. \A k \in 1 .. n : base + k \in 1 .. base + n
      BY <1>1
    <2>3. ASSUME NEW p \in 1 .. base + n, ~(p > base) PROVE p \in 1 .. base
      BY <2>3, <1>1
    <2>4. 1 .. base \subseteq 1 .. base + n
      BY <1>1
    <2>. QED BY <2>1, <2>2, <2>3, <2>4
  <1>8. DOMAIN sent' = DOMAIN sent \cup (IF text THEN {base} ELSE {}) \cup {base + k : k \in 1 .. n}
    BY <1>4, <1>6, <1>7
  <1>9. \A p \in DOMAIN sent : p \in DOMAIN sent' /\ sent'[p] = sent[p]
    BY <1>4, <1>6, <1>7
  <1>10. text => base \in DOMAIN sent' /\ sent'[base] = x
    BY <1>4, <1>6, <1>7
  <1>11. \A k \in 1 .. n : base + k \in DOMAIN sent' /\ sent'[base + k] = b[k]
    BY <1>6, <1>7
  <1>12. \A k \in 1 .. n : sent'[base + k] = [kind |-> "call", call |-> calls + k]
    BY <1>3, <1>11
  <1>. QED BY <1>6, <1>8, <1>9, <1>10, <1>11, <1>12 DEF MessageSent, x

MessageSetsAre(text, n, base) ==
    /\ SentAs(sent', "text", 0) = SentAs(sent, "text", 0) \cup (IF text THEN {base} ELSE {})
    /\ SentAs(sent', "thinking", 0) = SentAs(sent, "thinking", 0)
    /\ n = 0 => \A c : c # 0 => SentAs(sent', "call", c) = SentAs(sent, "call", c)
    /\ calls = 0 => \A c \in 1 .. n : SentAs(sent', "call", c) = {base + c}

LEMMA MessageSets ==
  ASSUME Ready, NEW text \in BOOLEAN, NEW n \in Nat, NEW base \in Nat, MessageSent(text, n, base)
  PROVE  MessageSetsAre(text, n, base)
  <1>1. /\ \A p \in DOMAIN sent : p \in DOMAIN sent' /\ sent'[p] = sent[p]
        /\ text => base \in DOMAIN sent' /\ sent'[base].kind = "text" /\ sent'[base].call = 0
        /\ \A k \in 1 .. n : /\ base + k \in DOMAIN sent'
                             /\ sent'[base + k].kind = "call" /\ sent'[base + k].call = calls + k
        /\ DOMAIN sent' = DOMAIN sent \cup (IF text THEN {base} ELSE {}) \cup {base + k : k \in 1 .. n}
    <2>1. \A x : x = [kind |-> "text", call |-> 0] => x.kind = "text" /\ x.call = 0
      OBVIOUS
    <2>2. \A x, k : x = [kind |-> "call", call |-> calls + k] => x.kind = "call" /\ x.call = calls + k
      OBVIOUS
    <2>. QED BY <2>1, <2>2 DEF MessageSent
  <1>2. SentAs(sent', "text", 0) = SentAs(sent, "text", 0) \cup (IF text THEN {base} ELSE {})
    BY <1>1 DEF SentAs
  <1>3. SentAs(sent', "thinking", 0) = SentAs(sent, "thinking", 0)
    BY <1>1 DEF SentAs
  <1>4. ASSUME n = 0, NEW c PROVE SentAs(sent', "call", c) = SentAs(sent, "call", c)
    <2>1. {base + k : k \in 1 .. n} = {}
      BY <1>4
    <2>. QED BY <2>1, <1>1 DEF SentAs
  <1>5. ASSUME calls = 0, NEW c \in 1 .. n PROVE SentAs(sent', "call", c) = {base + c}
    <2>1. \A p \in DOMAIN sent : sent[p].kind # "call"
      BY <1>5 DEF Ready, UpType
    <2>2. base + c \in SentAs(sent', "call", c)
      BY <1>1, <1>5 DEF SentAs
    <2>3. ASSUME NEW p \in SentAs(sent', "call", c) PROVE p = base + c
      <3>1. p \in DOMAIN sent' /\ sent'[p].kind = "call" /\ sent'[p].call = c
        BY DEF SentAs
      <3>2. p \in {base + k : k \in 1 .. n}
        BY <3>1, <1>1, <2>1
      <3>3. PICK k \in 1 .. n : p = base + k
        BY <3>2
      <3>4. sent'[p].call = calls + k
        BY <1>1, <3>3
      <3>. QED BY <3>1, <3>3, <3>4, <1>5
    <2>. QED BY <2>2, <2>3
  <1>. QED BY <1>2, <1>3, <1>4, <1>5 DEF MessageSetsAre

LEMMA OnlyTextFacts ==
  ASSUME NEW work, NEW its0, NEW its, NEW N \in Nat, NEW M \in Nat, NEW C \in Nat,
         NEW X \in BOOLEAN, Good(work, its0, its, N, C, X), N <= M,
         NEW chunk, chunk.text \in 0 .. MaxPieces, chunk.thinking = 0,
         chunk.text # 0 => N < chunk.text /\ chunk.text <= M,
         NEW fed, fed = PlainFed(work, chunk)
  PROVE  PlainDone(work, its0, its, M, C, X, chunk, fed)
  <1>1. chunk.thinking \in 0 .. MaxPieces /\ N <= N
          /\ (chunk.thinking # 0 => N < chunk.thinking /\ chunk.thinking <= N)
    BY BoundsAreNat
  <1>. QED BY <1>1, PlainFacts

\* A message of Ollama, with text and calls; calls keep apart only in the first that has any.
LEMMA MessageStep ==
  ASSUME Ready, dialect = "ollama", NEW text \in BOOLEAN, NEW n \in Nat,
         NEW base, base = Len(sent) + (IF text THEN 1 ELSE 0),
         base + n <= MaxPieces, calls + n <= MaxCalls,
         sent' = sent \o TextPart(text) \o CallsPart(n),
         calls' = calls + n, bursts' = (IF n > 0 THEN bursts + 1 ELSE bursts),
         NEW chunk, Emit(chunk),
         ChunkIs(chunk, IF text THEN base ELSE 0, FALSE, 0,
                 [k \in 1 .. n |-> Part(k, calls + k, base + k)])
  PROVE  \E its2 : Onward(its2)
  <1>. DEFINE N == Len(sent)  X == bursts <= 1  X2 == bursts' <= 1
              work == [slots |-> slots, events |-> <<>>]
              mid == PlainFed(work, chunk)
              fed == FedCalls(mid, chunk)
  <1>1. /\ N \in Nat /\ calls \in Nat /\ base \in Nat /\ protocol \in Api /\ N <= base
        /\ bursts \in Nat /\ (bursts = 0 => calls = 0)
        /\ \A p \in DOMAIN sent : sent[p].kind # "thinking"
    BY DEF Ready, UpType
  <1>2. Good(work, item, item, N, calls, X) /\ Tells(item, sent, calls, X) /\ work.events = <<>>
    BY DEF Ready
  <1>3. /\ X \in BOOLEAN /\ X2 \in BOOLEAN /\ (X2 => X) /\ (n > 0 => (X2 => calls = 0))
        /\ (n = 0 => X2 = X)
    BY <1>1
  <1>4. /\ text => chunk.text = base
        /\ ~text => chunk.text = 0
        /\ chunk.thinking = 0 /\ chunk.recovered = FALSE
        /\ chunk.calls = [k \in 1 .. n |-> Part(k, calls + k, base + k)] /\ chunk.finish = "none"
    BY DEF ChunkIs
  <1>. HIDE DEF N, work, X, X2
  <1>5. PlainDone(work, item, item, base, calls, X, chunk, mid)
    <2>1. chunk.text \in 0 .. MaxPieces /\ chunk.thinking \in 0 .. MaxPieces
      BY <1>1, <1>4, BoundsAreNat
    <2>2. chunk.text # 0 => N < chunk.text /\ chunk.text <= base
      BY <1>1, <1>4 DEF N
    <2>. HIDE DEF mid
    <2>3. mid = PlainFed(work, chunk)
      BY DEF mid
    <2>. QED BY <2>1, <2>2, <2>3, <1>1, <1>2, <1>3, <1>4, OnlyTextFacts
  <1>. HIDE DEF mid
  <1>6. PICK its1 :
          /\ Good(mid, item, its1, base, calls, X) /\ SameCalls(item, its1)
          /\ Growth(item, its1, Only(TextOf(chunk)), Only(ThinkingOf(chunk)))
    BY <1>5 DEF PlainDone
  <1>7. Good(mid, item, its1, base, calls, X2)
    <2>1. base <= base
      BY <1>1
    <2>. QED BY <1>1, <1>3, <1>6, <2>1, GoodLess
  <1>8. BurstFed(mid, item, its1, base, calls, X2, n, fed)
    <2>1. base \in Nat /\ calls \in Nat /\ X2 \in BOOLEAN /\ (n > 0 => (X2 => calls = 0))
      BY <1>1, <1>3
    <2>2. chunk.calls = [k \in 1 .. n |-> Part(k, calls + k, base + k)]
      BY <1>4
    <2>. QED BY <2>1, <2>2, <1>7, BurstIs DEF fed
  <1>. HIDE DEF fed
  <1>9. PICK its2 :
          /\ Good(fed, item, its2, base + n, calls + n, X2) /\ Growth(its1, its2, {}, {})
          /\ X2 => \A c \in 0 .. MaxCalls : Of(its2, "call", c)
                    = Of(its1, "call", c) \cup (IF c \in 1 .. n THEN {base + c} ELSE {})
    BY <1>8 DEF BurstFed
  <1>10. Fed(chunk) = fed /\ fed \in WorkType
    <2>1. Fed(chunk) = fed
      BY <1>1, FedIs DEF fed, mid, work
    <2>. QED BY <2>1, <1>9 DEF Good
  <1>11. fed = [slots |-> slots', events |-> outbox'] /\ outbox' = fed.events
    <2>1. outbox' = fed.events /\ slots' = fed.slots
      BY <1>10 DEF Emit
    <2>. QED BY <2>1, <1>10, WorkIs
  <1>12. MessageSent(text, n, base)
    BY MessageIsSent
  <1>13. /\ SentAs(sent', "text", 0) = SentAs(sent, "text", 0) \cup (IF text THEN {base} ELSE {})
         /\ SentAs(sent', "thinking", 0) = SentAs(sent, "thinking", 0)
         /\ n = 0 => \A c : c # 0 => SentAs(sent', "call", c) = SentAs(sent, "call", c)
         /\ calls = 0 => \A c \in 1 .. n : SentAs(sent', "call", c) = {base + c}
    <2>1. MessageSetsAre(text, n, base)
      BY <1>1, <1>12, MessageSets
    <2>. QED BY <2>1 DEF MessageSetsAre
  <1>14. Len(sent') = base + n
    BY <1>12 DEF MessageSent
  <1>15. /\ Of(its2, "text", 0) = Of(item, "text", 0) \cup (IF text THEN {base} ELSE {})
         /\ Of(its2, "thinking", 0) = Of(item, "thinking", 0)
    <2>1. Only(TextOf(chunk)) = (IF text THEN {base} ELSE {}) /\ Only(ThinkingOf(chunk)) = {}
      <3>1. TextOf(chunk) = chunk.text /\ ThinkingOf(chunk) = 0
        BY <1>4 DEF TextOf, ThinkingOf
      <3>2. text => base # 0
        BY <1>1 DEF N
      <3>. QED BY <3>1, <3>2, <1>4 DEF Only
    <2>2. Of(its1, "text", 0) = Of(item, "text", 0) \cup Only(TextOf(chunk))
            /\ Of(its1, "thinking", 0) = Of(item, "thinking", 0) \cup Only(ThinkingOf(chunk))
      BY <1>6 DEF Growth
    <2>3. Of(its2, "text", 0) = Of(its1, "text", 0) \cup {}
            /\ Of(its2, "thinking", 0) = Of(its1, "thinking", 0) \cup {}
      BY <1>9 DEF Growth
    <2>. QED BY <2>1, <2>2, <2>3
  <1>16. TextIs(sent', Of(its2, "text", 0)) /\ ThinkingIs(sent', Of(its2, "thinking", 0))
    <2>1. TextIs(sent, Of(item, "text", 0)) /\ ThinkingIs(sent, Of(item, "thinking", 0))
      BY ReadyTells
    <2>2. "ollama" \notin Compatible
      BY DEF Compatible
    <2>. QED BY <2>1, <2>2, <1>13, <1>15 DEF TextIs, ThinkingIs
  <1>17. ASSUME X2, NEW c \in 1 .. calls + n
         PROVE  Of(its2, "call", c) = SentAs(sent', "call", c)
    <2>1. c \in 0 .. MaxCalls /\ c # 0
      BY <1>1, BoundsAreNat
    <2>2. Of(its1, "call", c) = Of(item, "call", c)
      BY <2>1, <1>6 DEF SameCalls
    <2>3. Of(its2, "call", c) = Of(item, "call", c) \cup (IF c \in 1 .. n THEN {base + c} ELSE {})
      BY <2>1, <2>2, <1>9, <1>17
    <2>4. CASE n = 0
      <3>1. c \in 1 .. calls /\ X /\ c \notin 1 .. n
        BY <2>4, <1>1, <1>3, <1>17
      <3>2. Of(item, "call", c) = SentAs(sent, "call", c)
        BY <3>1, <1>2 DEF Tells
      <3>. QED BY <2>1, <2>3, <2>4, <3>1, <3>2, <1>13
    <2>5. CASE n > 0
      <3>1. calls = 0 /\ c \in 1 .. n
        BY <2>5, <1>1, <1>3, <1>17
      <3>2. Of(item, "call", c) = {}
        <4>1. CallItems(item) = {}
          BY <3>1, <1>2 DEF Good, Itemised
        <4>2. \A i \in DOMAIN item : item[i].kind # "call"
          BY <4>1 DEF CallItems
        <4>. QED BY <4>2 DEF Of
      <3>. QED BY <2>3, <3>1, <3>2, <1>13
    <2>. QED BY <2>4, <2>5
  <1>18. Tells(its2, sent', calls', X2)
    BY <1>16, <1>17 DEF Tells
  <1>19. Proper(outbox', sent')
    <2>1. NewEvents(<<>>, mid.events, {TextOf(chunk), ThinkingOf(chunk)})
      BY <1>2, <1>5 DEF PlainDone
    <2>2. NewEvents(mid.events, outbox', base + 1 .. base + n)
      BY <1>8, <1>11 DEF BurstFed
    <2>3. NewEvents(<<>>, outbox', {TextOf(chunk), ThinkingOf(chunk)} \cup (base + 1 .. base + n))
      BY <2>1, <2>2, NewEventsTwice
    <2>4. ASSUME NEW p \in {TextOf(chunk), ThinkingOf(chunk)} \ {0} PROVE Fair(p, sent')
      <3>1. TextOf(chunk) = chunk.text /\ ThinkingOf(chunk) = 0
        BY <1>4 DEF TextOf, ThinkingOf
      <3>2. p = base /\ text
        BY <3>1, <1>4
      <3>3. base \in DOMAIN sent' /\ sent'[base] = [kind |-> "text", call |-> 0]
        BY <3>2, <1>12 DEF MessageSent
      <3>4. sent'[base].kind = "text"
        BY <3>3
      <3>. QED BY <3>2, <3>3, <3>4 DEF Fair
    <2>5. ASSUME NEW p \in base + 1 .. base + n PROVE Fair(p, sent')
      <3>1. p - base \in 1 .. n /\ p = base + (p - base)
        <4>1. base \in Nat
          BY <1>1
        <4>. QED BY <4>1
      <3>2. p \in DOMAIN sent' /\ sent'[p] = [kind |-> "call", call |-> calls + (p - base)]
        BY <3>1, <1>12 DEF MessageSent
      <3>. QED BY <3>2 DEF Fair
    <2>. QED BY <2>3, <2>4, <2>5, ProperBy
  <1>. QED BY <1>9, <1>11, <1>14, <1>18, <1>19 DEF Onward, X2

-----------------------------------------------------------------------------
(* Every step of an upstream *)

SentStays == \A p \in DOMAIN sent : p \in DOMAIN sent' /\ sent'[p] = sent[p]

Goes ==
    /\ \E its2 : Onward(its2)
    /\ UpType' /\ SentStays /\ UNCHANGED Rest /\ stopReason' = stopReason

\* The counters of the upstream keep up with what it sends.
LEMMA UpOnePiece ==
  ASSUME Ready, NEW kind \in {"text", "thinking"}, OnePiece(kind), Len(sent) + 1 <= MaxPieces,
         dialect # "ollama", UNCHANGED <<Rest, calls, block, bursts, toolIndex>>
  PROVE  UpType' /\ SentStays
  <1>. DEFINE x == [kind |-> kind, call |-> 0]
  <1>1. x \in PieceType /\ sent' = Append(sent, x) /\ x.kind = kind /\ x.call = 0
    BY BoundsAreNat DEF PieceType, Slot, OnePiece
  <1>2. UpType
    BY DEF Ready
  <1>. HIDE DEF x
  <1>3. /\ sent' \in Seq(PieceType) /\ Len(sent') = Len(sent) + 1 /\ sent'[Len(sent) + 1] = x
        /\ \A p \in DOMAIN sent : p \in DOMAIN sent' /\ sent'[p] = sent[p]
        /\ \A p \in DOMAIN sent' : p \in DOMAIN sent \/ p = Len(sent) + 1
    BY <1>1, <1>2 DEF UpType
  <1>4. /\ \A p \in DOMAIN sent' :
             /\ sent'[p].kind = "call" => sent'[p].call \in 1 .. calls'
             /\ sent'[p].kind # "call" => sent'[p].call = 0
    BY <1>1, <1>2, <1>3 DEF UpType, Rest
  <1>. QED BY <1>2, <1>3, <1>4 DEF UpType, Rest, SentStays

LEMMA UpOneCall ==
  ASSUME Ready, NEW q \in 1 .. MaxCalls, sent' = Append(sent, [kind |-> "call", call |-> q]),
         Len(sent) + 1 <= MaxPieces, dialect # "ollama",
         calls' = (IF q > calls THEN q ELSE calls), bursts' = bursts, block' = block,
         toolIndex' \in Nat, dialect \in {"anthropic", "gemini"} => toolIndex' = calls',
         UNCHANGED Rest
  PROVE  UpType' /\ SentStays
  <1>. DEFINE x == [kind |-> "call", call |-> q]
  <1>0. q \in Nat /\ q > 0 /\ q <= MaxCalls /\ q \in 0 .. MaxCalls
    BY BoundsAreNat
  <1>1. x \in PieceType /\ sent' = Append(sent, x) /\ x.kind = "call" /\ x.call = q
    BY <1>0 DEF PieceType, Slot
  <1>2. UpType /\ calls \in Nat
    BY DEF Ready, UpType
  <1>. HIDE DEF x
  <1>3. /\ sent' \in Seq(PieceType) /\ Len(sent') = Len(sent) + 1 /\ sent'[Len(sent) + 1] = x
        /\ \A p \in DOMAIN sent : p \in DOMAIN sent' /\ sent'[p] = sent[p]
        /\ \A p \in DOMAIN sent' : p \in DOMAIN sent \/ p = Len(sent) + 1
    BY <1>1, <1>2 DEF UpType
  <1>4. calls' \in 0 .. MaxCalls /\ q \in 1 .. calls' /\ 1 .. calls \subseteq 1 .. calls' /\ calls' > 0
    BY <1>0, <1>2, BoundsAreNat DEF UpType
  <1>5. /\ \A p \in DOMAIN sent' :
             /\ sent'[p].kind = "call" => sent'[p].call \in 1 .. calls'
             /\ sent'[p].kind # "call" => sent'[p].call = 0
    BY <1>1, <1>2, <1>3, <1>4 DEF UpType
  <1>. QED BY <1>2, <1>3, <1>4, <1>5 DEF UpType, Rest, SentStays

LEMMA EmitKeepsReason ==
  ASSUME NEW chunk, Emit(chunk), chunk.finish = "none"
  PROVE  stopReason' = stopReason
  BY DEF Emit

\* Every kind of chunk goes on from where the stream stands.
LEMMA PieceGoes ==
  ASSUME Ready, NEW kind \in {"text", "thinking"}, OnePiece(kind), Len(sent) + 1 <= MaxPieces,
         dialect # "ollama", UNCHANGED <<Rest, calls, block, bursts, toolIndex>>,
         NEW chunk, Emit(chunk),
         \/ ChunkIs(chunk, Len(sent) + 1, FALSE, 0, <<>>) /\ (kind = "text" \/ dialect = "gemini")
         \/ ChunkIs(chunk, Len(sent) + 1, TRUE, 0, <<>>) /\ kind = "thinking" /\ dialect \in Compatible
         \/ ChunkIs(chunk, 0, FALSE, Len(sent) + 1, <<>>) /\ kind = "thinking" /\ dialect = "anthropic"
  PROVE  Goes
  <1>1. \E its2 : Onward(its2)
    BY PieceStep
  <1>2. UpType' /\ SentStays
    BY UpOnePiece
  <1>3. stopReason' = stopReason
    BY EmitKeepsReason DEF ChunkIs
  <1>. QED BY <1>1, <1>2, <1>3 DEF Goes

LEMMA CompatibleGoes ==
  ASSUME Ready, CompatibleText \/ CompatibleThinking
  PROVE  Goes
  <1>0. /\ Len(sent) + 1 <= MaxPieces /\ dialect \in Compatible /\ dialect # "ollama"
        /\ UNCHANGED <<Rest, calls, block, bursts, toolIndex>>
    BY DEF CompatibleText, CompatibleThinking, Streaming, Room, Compatible
  <1>1. CASE CompatibleText
    <2>1. OnePiece("text") /\ Emit([Blank EXCEPT !.text = NextPiece])
      BY <1>1 DEF CompatibleText, Sends, OnePiece
    <2>2. ChunkIs([Blank EXCEPT !.text = NextPiece], Len(sent) + 1, FALSE, 0, <<>>)
      BY DEF Blank, NextPiece, ChunkIs
    <2>. QED BY <1>0, <2>1, <2>2, PieceGoes
  <1>2. CASE CompatibleThinking
    <2>1. OnePiece("thinking") /\ Emit(Recovered([Blank EXCEPT !.thinking = NextPiece]))
      BY <1>2 DEF CompatibleThinking, Sends, OnePiece
    <2>2. ChunkIs(Recovered([Blank EXCEPT !.thinking = NextPiece]), Len(sent) + 1, TRUE, 0, <<>>)
      <3>1. NextPiece # 0 /\ NextPiece = Len(sent) + 1
        BY ReadyTells DEF NextPiece
      <3>. QED BY <3>1 DEF Recovered, Blank, ChunkIs
    <2>. QED BY <1>0, <2>1, <2>2, PieceGoes
  <1>. QED BY <1>1, <1>2

LEMMA BothGoes ==
  ASSUME Ready, CompatibleBoth
  PROVE  Goes
  <1>0. /\ Len(sent) + 2 <= MaxPieces /\ dialect \in Compatible /\ dialect # "ollama"
        /\ UNCHANGED <<Rest, calls, block, bursts, toolIndex>>
        /\ sent' = sent \o <<[kind |-> "thinking", call |-> 0], [kind |-> "text", call |-> 0]>>
        /\ Emit(Recovered([Blank EXCEPT !.thinking = NextPiece, !.text = NextPiece + 1]))
    BY DEF CompatibleBoth, Streaming, Room, Compatible
  <1>1. Len(sent) \in Nat /\ NextPiece + 1 = Len(sent) + 2 /\ NextPiece = Len(sent) + 1
    BY ReadyTells DEF NextPiece
  <1>. DEFINE chunk == Recovered([Blank EXCEPT !.thinking = NextPiece, !.text = NextPiece + 1])
  <1>2. ChunkIs(chunk, Len(sent) + 2, FALSE, Len(sent) + 1, <<>>)
    BY <1>1 DEF Recovered, Blank, ChunkIs
  <1>. HIDE DEF chunk
  <1>3. Emit(chunk) /\ chunk.finish = "none"
    BY <1>0, <1>2 DEF chunk, ChunkIs
  <1>4. \E its2 : Onward(its2)
    BY <1>0, <1>2, <1>3, BothStep DEF Rest
  <1>5. UpType' /\ SentStays
    <2>. DEFINE x == [kind |-> "thinking", call |-> 0]  y == [kind |-> "text", call |-> 0]
    <2>1. /\ x \in PieceType /\ x.kind = "thinking" /\ x.call = 0
          /\ y \in PieceType /\ y.kind = "text" /\ y.call = 0
      BY BoundsAreNat DEF PieceType, Slot
    <2>2. UpType /\ sent' = sent \o <<x, y>>
      BY <1>0 DEF Ready
    <2>. HIDE DEF x, y
    <2>3. /\ sent' \in Seq(PieceType) /\ Len(sent') = Len(sent) + 2
          /\ sent'[Len(sent) + 1] = x /\ sent'[Len(sent) + 2] = y
          /\ \A p \in DOMAIN sent : p \in DOMAIN sent' /\ sent'[p] = sent[p]
          /\ \A p \in DOMAIN sent' : p \in DOMAIN sent \/ p = Len(sent) + 1 \/ p = Len(sent) + 2
      BY <2>1, <2>2 DEF UpType
    <2>4. /\ \A p \in DOMAIN sent' :
               /\ sent'[p].kind = "call" => sent'[p].call \in 1 .. calls'
               /\ sent'[p].kind # "call" => sent'[p].call = 0
      BY <2>1, <2>2, <2>3, <1>0 DEF UpType, Rest
    <2>. QED BY <1>0, <2>2, <2>3, <2>4 DEF UpType, Rest, SentStays
  <1>. QED BY <1>0, <1>3, <1>4, <1>5, EmitKeepsReason DEF Goes

LEMMA CallGoes ==
  ASSUME Ready, dialect # "ollama", bursts' = bursts, block' = block, UNCHANGED Rest,
         NEW fragment \in Parts, fragment.piece = Len(sent) + 1, Len(sent) + 1 <= MaxPieces,
         NEW q, q = Number(slots, fragment.index),
         q \in 1 .. calls + 1, q <= MaxCalls, q > calls => fragment.id = q,
         calls' = (IF q > calls THEN q ELSE calls),
         sent' = Append(sent, [kind |-> "call", call |-> q]),
         toolIndex' \in Nat, dialect \in {"anthropic", "gemini"} => toolIndex' = calls',
         NEW chunk, ChunkIs(chunk, 0, FALSE, 0, <<fragment>>), Emit(chunk)
  PROVE  Goes
  <1>0. Len(sent) \in Nat /\ fragment.piece # 0 /\ fragment.piece \in {0, Len(sent) + 1} /\ calls \in Nat
    BY ReadyTells DEF Ready, UpType
  <1>1. \E its2 : Onward(its2)
    <2>1. sent' = IF fragment.piece = 0 THEN sent ELSE Append(sent, [kind |-> "call", call |-> q])
      BY <1>0
    <2>. QED BY <1>0, <2>1, CallStep
  <1>2. q \in 1 .. MaxCalls
    BY <1>0, BoundsAreNat
  <1>3. UpType' /\ SentStays
    BY <1>2, UpOneCall
  <1>4. stopReason' = stopReason
    BY EmitKeepsReason DEF ChunkIs
  <1>. QED BY <1>1, <1>3, <1>4 DEF Goes

\* Outside Ollama every call has a slot of its own.
LEMMA ReadyNumbers ==
  ASSUME Ready, dialect # "ollama"
  PROVE  CallSlots(slots) = calls /\ calls \in 0 .. MaxCalls /\ calls \in Nat
  <1>1. bursts <= 1 /\ calls \in 0 .. MaxCalls /\ calls \in Nat
    BY DEF Ready, UpType
  <1>. DEFINE w == [slots |-> slots, events |-> <<>>]
  <1>2. Good(w, item, item, Len(sent), calls, TRUE) /\ w.slots = slots
    BY <1>1, ReadyExact
  <1>. HIDE DEF w
  <1>3. /\ slots \in Seq(SlotType) /\ item \in Seq(ItemType)
        /\ Itemised(item, Len(sent), calls, TRUE) /\ Slotted(item, slots, TRUE)
    BY <1>2 DEF Good, WorkType
  <1>. QED BY <1>1, <1>3, CallNumbers

LEMMA CompatibleCallGoes ==
  ASSUME Ready, NEW c \in 1 .. MaxCalls, CompatibleCall(c)
  PROVE  Goes
  <1>. DEFINE index == IF dialect = "openai" THEN c ELSE NoIndex
              fragment == Part(index, c, NextPiece)
              chunk == [Blank EXCEPT !.calls = <<fragment>>]
  <1>0. /\ Len(sent) + 1 <= MaxPieces /\ dialect \in Compatible /\ dialect # "ollama"
        /\ dialect \notin {"anthropic", "gemini"}
        /\ bursts' = bursts /\ block' = block /\ UNCHANGED Rest /\ toolIndex' = toolIndex
        /\ c = calls + 1 \/ (c \in 1 .. calls /\ dialect = "openai")
        /\ calls' = (IF c > calls THEN c ELSE calls)
        /\ sent' = Append(sent, [kind |-> "call", call |-> c])
        /\ Emit(chunk)
    BY DEF CompatibleCall, Streaming, Room, Compatible, Sends
  <1>1. /\ CallSlots(slots) = calls /\ calls \in Nat /\ c \in Nat /\ c # 0 /\ c <= MaxCalls
        /\ toolIndex \in Nat
    BY <1>0, ReadyNumbers, BoundsAreNat DEF Ready, UpType
  <1>2. c = Number(slots, index)
    BY <1>0, <1>1 DEF Number, NoIndex
  <1>3. NextPiece = Len(sent) + 1 /\ NextPiece \in 0 .. MaxPieces
    BY <1>0, ReadyTells, BoundsAreNat DEF NextPiece
  <1>4. fragment \in Parts /\ fragment.index = index /\ fragment.id = c /\ fragment.piece = Len(sent) + 1
    BY <1>1, <1>3, BoundsAreNat DEF Part, Parts, NoIndex
  <1>5. ChunkIs(chunk, 0, FALSE, 0, <<fragment>>)
    BY DEF Blank, ChunkIs
  <1>. HIDE DEF fragment, chunk, index
  <1>6. c \in 1 .. calls + 1
    BY <1>0, <1>1
  <1>. QED BY <1>0, <1>1, <1>2, <1>4, <1>5, <1>6, CallGoes

LEMMA GeminiCallGoes ==
  ASSUME Ready, GeminiCall
  PROVE  Goes
  <1>. DEFINE fragment == Part(toolIndex + 1, calls + 1, NextPiece)
              chunk == [Blank EXCEPT !.calls = <<fragment>>]
  <1>0. /\ Len(sent) + 1 <= MaxPieces /\ dialect = "gemini" /\ dialect # "ollama" /\ calls < MaxCalls
        /\ bursts' = bursts /\ block' = block /\ UNCHANGED Rest /\ toolIndex' = toolIndex + 1
        /\ calls' = calls + 1
        /\ sent' = Append(sent, [kind |-> "call", call |-> calls + 1])
        /\ Emit(chunk)
    BY DEF GeminiCall, Streaming, Room, Sends
  <1>1. calls \in Nat /\ calls + 1 <= MaxCalls /\ toolIndex = calls /\ calls + 1 # 0
    BY <1>0, BoundsAreNat DEF Ready, UpType
  <1>2. calls + 1 = Number(slots, toolIndex + 1)
    BY <1>0, <1>1 DEF Number, NoIndex
  <1>3. NextPiece = Len(sent) + 1 /\ NextPiece \in 0 .. MaxPieces
    BY <1>0, ReadyTells, BoundsAreNat DEF NextPiece
  <1>4. /\ fragment \in Parts /\ fragment.index = toolIndex + 1 /\ fragment.id = calls + 1
        /\ fragment.piece = Len(sent) + 1
    BY <1>1, <1>3, BoundsAreNat DEF Part, Parts
  <1>5. ChunkIs(chunk, 0, FALSE, 0, <<fragment>>)
    BY DEF Blank, ChunkIs
  <1>. HIDE DEF fragment, chunk
  <1>6. /\ calls + 1 \in 1 .. calls + 1 /\ calls' = (IF calls + 1 > calls THEN calls + 1 ELSE calls)
        /\ toolIndex' \in Nat /\ toolIndex' = calls'
    BY <1>0, <1>1
  <1>. QED BY <1>0, <1>1, <1>2, <1>4, <1>5, <1>6, CallGoes

LEMMA GeminiTextGoes ==
  ASSUME Ready, NEW kind \in {"text", "thinking"}, GeminiText(kind)
  PROVE  Goes
  <1>1. /\ Len(sent) + 1 <= MaxPieces /\ dialect = "gemini" /\ dialect # "ollama"
        /\ UNCHANGED <<Rest, calls, block, bursts, toolIndex>>
        /\ OnePiece(kind) /\ Emit([Blank EXCEPT !.text = NextPiece])
    BY DEF GeminiText, Streaming, Room, Sends, OnePiece
  <1>2. ChunkIs([Blank EXCEPT !.text = NextPiece], Len(sent) + 1, FALSE, 0, <<>>)
    BY DEF Blank, NextPiece, ChunkIs
  <1>. QED BY <1>1, <1>2, PieceGoes

LEMMA BlockStartGoes ==
  ASSUME Ready, NEW kind \in Slot, BlockStart(kind)
  PROVE  Goes
  <1>0. /\ dialect = "anthropic" /\ dialect # "ollama" /\ outbox = <<>>
        /\ block' = kind /\ UNCHANGED <<Rest, sent, bursts>> /\ UpType
        /\ dialect' = dialect
    BY DEF BlockStart, Streaming, Ready, Rest
  <1>1. CASE kind # "call"
    <2>1. UNCHANGED <<calls, toolIndex, slots, stopReason, outbox>>
      BY <1>1 DEF BlockStart
    <2>2. Good([slots |-> slots', events |-> outbox'], item, item, Len(sent'), calls', bursts' <= 1)
      BY <1>0, <2>1 DEF Ready
    <2>3. Tells(item, sent', calls', bursts' <= 1)
      BY <1>0, <2>1 DEF Ready
    <2>4. Proper(outbox', sent')
      BY <1>0, <2>1 DEF Proper, Range
    <2>5. UpType' /\ SentStays
      BY <1>0, <1>1, <2>1 DEF UpType, SentStays
    <2>. QED BY <1>0, <2>1, <2>2, <2>3, <2>4, <2>5 DEF Goes, Onward
  <1>2. CASE kind = "call"
    <2>. DEFINE fragment == Part(toolIndex + 1, calls + 1, 0)
                chunk == [Blank EXCEPT !.calls = <<fragment>>]
    <2>0. /\ calls' = calls + 1 /\ toolIndex' = toolIndex + 1 /\ Emit(chunk) /\ calls < MaxCalls
      BY <1>2 DEF BlockStart
    <2>1. calls \in Nat /\ calls + 1 <= MaxCalls /\ toolIndex = calls /\ calls + 1 # 0
      BY <1>0, <2>0, BoundsAreNat DEF UpType
    <2>2. calls + 1 = Number(slots, toolIndex + 1)
      BY <2>1 DEF Number, NoIndex
    <2>4. fragment \in Parts /\ fragment.index = toolIndex + 1 /\ fragment.id = calls + 1 /\ fragment.piece = 0
      BY <2>1, BoundsAreNat DEF Part, Parts
    <2>5. ChunkIs(chunk, 0, FALSE, 0, <<fragment>>)
      BY DEF Blank, ChunkIs
    <2>. HIDE DEF fragment, chunk
    <2>6. /\ calls + 1 \in 1 .. calls + 1 /\ calls' = (IF calls + 1 > calls THEN calls + 1 ELSE calls)
          /\ bursts' = bursts /\ fragment.piece \in {0, Len(sent) + 1}
          /\ sent' = IF fragment.piece = 0 THEN sent
                     ELSE Append(sent, [kind |-> "call", call |-> calls + 1])
      BY <1>0, <2>0, <2>1, <2>4
    <2>7. \E its2 : Onward(its2)
      BY <1>0, <2>0, <2>1, <2>2, <2>4, <2>5, <2>6, CallStep
    <2>8. UpType'
      <3>1. /\ calls' \in 0 .. MaxCalls /\ calls' > 0 /\ 1 .. calls \subseteq 1 .. calls'
            /\ toolIndex' \in Nat /\ toolIndex' = calls'
        BY <2>0, <2>1, BoundsAreNat
      <3>. QED BY <1>0, <1>2, <3>1 DEF UpType
    <2>9. SentStays
      BY <1>0 DEF SentStays
    <2>10. stopReason' = stopReason
      BY <2>0, <2>5, EmitKeepsReason DEF ChunkIs
    <2>. QED BY <1>0, <2>7, <2>8, <2>9, <2>10 DEF Goes
  <1>. QED BY <1>1, <1>2

LEMMA BlockDeltaGoes ==
  ASSUME Ready, BlockDelta
  PROVE  Goes
  <1>0. /\ dialect = "anthropic" /\ dialect # "ollama" /\ Len(sent) + 1 <= MaxPieces
        /\ UNCHANGED <<Rest, calls, block, bursts, toolIndex>> /\ block \in Slot
        /\ sent' = Append(sent, [kind |-> block, call |-> IF block = "call" THEN calls ELSE 0])
    BY DEF BlockDelta, Streaming, Ready, Room, Sends, UpType
  <1>1. CASE block = "text"
    <2>1. OnePiece("text") /\ Emit([Blank EXCEPT !.text = NextPiece])
      BY <1>0, <1>1 DEF BlockDelta, OnePiece
    <2>2. ChunkIs([Blank EXCEPT !.text = NextPiece], Len(sent) + 1, FALSE, 0, <<>>)
      BY DEF Blank, NextPiece, ChunkIs
    <2>. QED BY <1>0, <2>1, <2>2, PieceGoes
  <1>2. CASE block = "thinking"
    <2>1. OnePiece("thinking") /\ Emit([Blank EXCEPT !.thinking = NextPiece])
      BY <1>0, <1>2 DEF BlockDelta, OnePiece
    <2>2. ChunkIs([Blank EXCEPT !.thinking = NextPiece], 0, FALSE, Len(sent) + 1, <<>>)
      BY DEF Blank, NextPiece, ChunkIs
    <2>. QED BY <1>0, <2>1, <2>2, PieceGoes
  <1>3. CASE block = "call"
    <2>. DEFINE fragment == Part(toolIndex, 0, NextPiece)
                chunk == [Blank EXCEPT !.calls = <<fragment>>]
    <2>0. Emit(chunk) /\ sent' = Append(sent, [kind |-> "call", call |-> calls])
      BY <1>0, <1>3 DEF BlockDelta
    <2>1. calls \in Nat /\ calls > 0 /\ calls <= MaxCalls /\ toolIndex = calls /\ calls # 0
      BY <1>0, <1>3, BoundsAreNat DEF Ready, UpType
    <2>2. calls = Number(slots, toolIndex)
      BY <2>1 DEF Number, NoIndex
    <2>3. NextPiece = Len(sent) + 1 /\ NextPiece \in 0 .. MaxPieces
      BY <1>0, ReadyTells, BoundsAreNat DEF NextPiece
    <2>4. fragment \in Parts /\ fragment.index = toolIndex /\ fragment.id = 0 /\ fragment.piece = Len(sent) + 1
      BY <2>1, <2>3, BoundsAreNat DEF Part, Parts
    <2>5. ChunkIs(chunk, 0, FALSE, 0, <<fragment>>)
      BY DEF Blank, ChunkIs
    <2>. HIDE DEF fragment, chunk
    <2>6. /\ calls \in 1 .. calls + 1 /\ ~(calls > calls) /\ calls' = (IF calls > calls THEN calls ELSE calls)
          /\ bursts' = bursts /\ block' = block /\ UNCHANGED Rest
          /\ toolIndex' \in Nat /\ toolIndex' = calls'
      BY <1>0, <2>1
    <2>. QED BY <1>0, <2>0, <2>1, <2>2, <2>4, <2>5, <2>6, CallGoes
  <1>. QED BY <1>0, <1>1, <1>2, <1>3 DEF Slot

LEMMA OllamaGoes ==
  ASSUME Ready, NEW text \in BOOLEAN, NEW n \in 0 .. MaxCalls, OllamaMessage(text, n)
  PROVE  Goes
  <1>. DEFINE base == Len(sent) + (IF text THEN 1 ELSE 0)
              chunk == [Blank EXCEPT !.text = IF text THEN base ELSE 0,
                                     !.calls = [k \in 1 .. n |-> Part(k, calls + k, base + k)]]
  <1>0. /\ dialect = "ollama" /\ base + n <= MaxPieces /\ calls + n <= MaxCalls
        /\ sent' = sent \o TextPart(text) \o CallsPart(n)
        /\ calls' = calls + n /\ bursts' = (IF n > 0 THEN bursts + 1 ELSE bursts)
        /\ UNCHANGED <<Rest, block, toolIndex>> /\ Emit(chunk)
    BY DEF OllamaMessage, Streaming, TextPart, CallsPart
  <1>1. ChunkIs(chunk, IF text THEN base ELSE 0, FALSE, 0,
                [k \in 1 .. n |-> Part(k, calls + k, base + k)])
    BY DEF Blank, ChunkIs
  <1>2. n \in Nat /\ UpType /\ calls \in Nat /\ bursts \in Nat /\ Len(sent) \in Nat
    BY BoundsAreNat DEF Ready, UpType
  <1>3. MessageSent(text, n, base)
    BY <1>0, <1>2, MessageIsSent
  <1>. HIDE DEF chunk
  <1>4. \E its2 : Onward(its2)
    BY <1>0, <1>1, <1>2, MessageStep
  <1>5. base \in Nat /\ base + n \in Nat /\ (text => base > 0)
    BY <1>2
  <1>. HIDE DEF base
  <1>6. UpType'
    <2>1. calls' \in 0 .. MaxCalls /\ bursts' \in Nat /\ (bursts' = 0 => calls' = 0)
          /\ 1 .. calls \subseteq 1 .. calls' /\ (calls > 0 => calls' > 0)
          /\ dialect' = "ollama"
      BY <1>0, <1>2, BoundsAreNat DEF UpType, Rest
    <2>2. sent' \in Seq(PieceType) /\ Len(sent') <= MaxPieces
      BY <1>0, <1>3, <1>5, BoundsAreNat DEF MessageSent
    <2>3. ASSUME NEW p \in DOMAIN sent'
          PROVE  /\ sent'[p].kind = "call" => sent'[p].call \in 1 .. calls'
                 /\ sent'[p].kind # "call" => sent'[p].call = 0
                 /\ sent'[p].kind # "thinking"
      <3>1. CASE p \in DOMAIN sent
        BY <1>0, <1>2, <1>3, <2>1, <3>1 DEF UpType, MessageSent
      <3>2. CASE text /\ p = base
        BY <1>3, <3>2 DEF MessageSent
      <3>3. CASE \E k \in 1 .. n : p = base + k
        <4>1. PICK k \in 1 .. n : p = base + k
          BY <3>3
        <4>2. sent'[p] = [kind |-> "call", call |-> calls + k]
          BY <1>3, <4>1 DEF MessageSent
        <4>3. calls + k \in 1 .. calls'
          BY <1>0, <1>2
        <4>. QED BY <4>2, <4>3
      <3>. QED BY <1>3, <3>1, <3>2, <3>3 DEF MessageSent
    <2>. QED BY <1>0, <1>2, <2>1, <2>2, <2>3 DEF UpType
  <1>7. SentStays
    BY <1>3 DEF SentStays, MessageSent
  <1>8. stopReason' = stopReason
    BY <1>0, <1>1, EmitKeepsReason DEF ChunkIs
  <1>. QED BY <1>0, <1>4, <1>6, <1>7, <1>8 DEF Goes

Sending ==
    \/ CompatibleText \/ CompatibleThinking \/ CompatibleBoth
    \/ \E c \in 1 .. MaxCalls : CompatibleCall(c)
    \/ \E kind \in Slot : BlockStart(kind)
    \/ BlockDelta
    \/ \E kind \in {"text", "thinking"} : GeminiText(kind)
    \/ GeminiCall
    \/ \E text \in BOOLEAN, n \in 0 .. MaxCalls : OllamaMessage(text, n)

LEMMA SendingGoes ==
  ASSUME Ready, Sending
  PROVE  Goes
  BY CompatibleGoes, BothGoes, CompatibleCallGoes, BlockStartGoes, BlockDeltaGoes,
     GeminiTextGoes, GeminiCallGoes, OllamaGoes DEF Sending

-----------------------------------------------------------------------------
(* The inductive invariant of a stream *)

\* What the client will have been shown once it has taken what waits for it.
Working(fin) ==
    /\ Good([slots |-> slots, events |-> outbox], item, fin, Len(sent), calls, bursts <= 1)
    /\ Tells(fin, sent, calls, bursts <= 1)
    /\ Proper(outbox, sent)

\* The end of a stream: everything is closed, or nothing, and then it is over.
LastEvents(events) ==
    /\ events \in Seq(EventType) /\ events # <<>>
    /\ \A k \in DOMAIN events : events[k].do \in IF k < Len(events) THEN {"close"}
                                                  ELSE {"completed", "failed"}

Telling(its) ==
    Itemised(its, Len(sent), calls, bursts <= 1) /\ Tells(its, sent, calls, bursts <= 1)

Closing(fin) == LastEvents(outbox) /\ Story(item, outbox, fin) /\ Telling(fin)

FairItems == \A i \in DOMAIN item : \A k \in DOMAIN item[i].said : Fair(item[i].said[k], sent)

Untouched ==
    /\ sent = <<>> /\ calls = 0 /\ block = "none" /\ bursts = 0 /\ toolIndex = 0
    /\ end = "no" /\ slots = <<>> /\ stopReason = "none" /\ outbox = <<>>
    /\ item = <<>> /\ ended = "no"

StopIs ==
    /\ end = "ended" /\ dialect # "ollama" =>
          stopReason = IF calls > 0 THEN "tool_calls" ELSE "stop"
    /\ end = "length" => stopReason = "length"

StreamInv ==
    /\ UpType
    /\ stage \in {"idle", "open", "over"}
    /\ stage = "idle" => Untouched
    /\ stage # "idle" => dialect \in Dialect /\ protocol \in Api
    /\ stage = "open" => /\ ended = "no"
                         /\ end = "no" => \E fin : Working(fin)
                         /\ end # "no" => \E fin : Closing(fin)
    /\ item \in Seq(ItemType) /\ FairItems
    /\ ended = "completed" => stage = "over" /\ Telling(item)
    /\ end = "no" => stopReason = "none"
    /\ StopIs

LEMMA NothingTold ==
  ASSUME NEW its, its = <<>>, NEW ss, ss = <<>>
  PROVE  Itemised(its, 0, 0, TRUE) /\ Slotted(its, ss, TRUE)
  <1>1. Shape(its, 0) /\ CallItems(its) = {} /\ Alone(its)
    BY DEF Shape, CallItems, Alone
  <1>2. {its[i].id : i \in CallItems(its)} = 1 .. 0 /\ ~(0 > 0)
    BY <1>1
  <1>3. Itemised(its, 0, 0, TRUE)
    BY <1>1, <1>2 DEF Itemised
  <1>4. Slotted(its, ss, TRUE)
    BY DEF Slotted
  <1>. QED BY <1>3, <1>4

LEMMA StreamBegins ==
  StreamInit => StreamInv
  <1>. SUFFICES ASSUME StreamInit PROVE StreamInv
    OBVIOUS
  <1>1. UpType
    BY BoundsAreNat DEF StreamInit, UpType
  <1>2. Untouched /\ stage = "idle"
    BY DEF StreamInit, Untouched
  <1>3. item \in Seq(ItemType) /\ FairItems
    BY <1>2 DEF Untouched, FairItems
  <1>. QED BY <1>1, <1>2, <1>3 DEF StreamInv, StopIs, Untouched

\* When nothing waits for the client, the stream may go on.
LEMMA InvReady ==
  ASSUME StreamInv, stage = "open", end = "no", outbox = <<>>
  PROVE  Ready
  <1>1. PICK fin : Working(fin)
    BY DEF StreamInv
  <1>. DEFINE w == [slots |-> slots, events |-> <<>>]
  <1>2. Good(w, item, fin, Len(sent), calls, bursts <= 1) /\ w.events = <<>>
    BY <1>1 DEF Working
  <1>. HIDE DEF w
  <1>3. fin = item
    BY <1>2, StoryEmpty DEF Good, StreamInv
  <1>4. Good([slots |-> slots, events |-> <<>>], item, item, Len(sent), calls, bursts <= 1)
    BY <1>2, <1>3 DEF w
  <1>5. Tells(item, sent, calls, bursts <= 1)
    BY <1>1, <1>3 DEF Working
  <1>. QED BY <1>4, <1>5 DEF Ready, StreamInv

LEMMA FairStays ==
  ASSUME FairItems, SentStays, UNCHANGED <<item, strip, dialect>>
  PROVE  FairItems'
  BY DEF FairItems, Fair, SentStays

\* The invariant is kept by everything an upstream sends.
LEMMA SendingKeeps ==
  ASSUME StreamInv, Sending
  PROVE  StreamInv'
  <1>1. stage = "open" /\ end = "no" /\ outbox = <<>>
    BY DEF Sending, CompatibleText, CompatibleThinking, CompatibleBoth, CompatibleCall, BlockStart,
           BlockDelta, GeminiText, GeminiCall, OllamaMessage, Streaming
  <1>2. Ready
    BY <1>1, InvReady
  <1>3. Goes
    BY <1>2, SendingGoes
  <1>4. UNCHANGED <<stage, dialect, protocol, strip, end, item, ended, stopReason>> /\ UpType'
    BY <1>3 DEF Goes, Rest
  <1>5. \E fin : Working(fin)'
    <2>1. PICK its2 : Onward(its2)
      BY <1>3 DEF Goes
    <2>2. Good([slots |-> slots, events |-> outbox], item, its2, Len(sent), calls, bursts <= 1)'
      BY <1>4, <2>1 DEF Onward
    <2>3. Tells(its2, sent, calls, bursts <= 1)'
      BY <1>4, <2>1 DEF Onward, Tells, TextIs, ThinkingIs
    <2>4. Proper(outbox, sent)'
      BY <1>4, <2>1 DEF Onward, Proper, Fair
    <2>5. Working(its2)'
      BY <2>2, <2>3, <2>4 DEF Working
    <2>. QED BY <2>5
  <1>6. FairItems'
    BY <1>3, <1>4, FairStays DEF Goes, StreamInv
  <1>. QED BY <1>1, <1>4, <1>5, <1>6 DEF StreamInv, StopIs

-----------------------------------------------------------------------------
(* The end of a stream *)

\* The items once the first k - 1 of them are closed.
Shut(it) == [it EXCEPT !.open = FALSE]
ShutTo(its, k) == [i \in DOMAIN its |-> IF i < k THEN Shut(its[i]) ELSE its[i]]

LEMMA ShutFacts ==
  ASSUME NEW it \in ItemType
  PROVE  /\ Shut(it) \in ItemType /\ ~Shut(it).open
         /\ Shut(it).kind = it.kind /\ Shut(it).id = it.id /\ Shut(it).said = it.said
  BY DEF Shut, ItemType

LEMMA ShutToFacts ==
  ASSUME NEW its \in Seq(ItemType), NEW k \in Nat
  PROVE  /\ ShutTo(its, k) \in Seq(ItemType) /\ DOMAIN ShutTo(its, k) = DOMAIN its
         /\ Len(ShutTo(its, k)) = Len(its)
         /\ \A i \in DOMAIN its :
              /\ ShutTo(its, k)[i] = IF i < k THEN Shut(its[i]) ELSE its[i]
              /\ ShutTo(its, k)[i].kind = its[i].kind /\ ShutTo(its, k)[i].id = its[i].id
              /\ ShutTo(its, k)[i].said = its[i].said
  <1>1. \A i \in DOMAIN its : its[i] \in ItemType
    OBVIOUS
  <1>2. /\ DOMAIN ShutTo(its, k) = DOMAIN its
        /\ \A i \in DOMAIN its : ShutTo(its, k)[i] = IF i < k THEN Shut(its[i]) ELSE its[i]
    BY DEF ShutTo
  <1>3. \A i \in DOMAIN its : ShutTo(its, k)[i] \in ItemType
    BY <1>1, <1>2, ShutFacts
  <1>4. ShutTo(its, k) \in Seq(ItemType) /\ Len(ShutTo(its, k)) = Len(its)
    <2>1. DOMAIN its = 1 .. Len(its) /\ Len(its) \in Nat
      OBVIOUS
    <2>. DEFINE f == ShutTo(its, k)
    <2>2. f = [i \in 1 .. Len(its) |-> f[i]]
      BY <1>2, <2>1 DEF ShutTo
    <2>3. \A i \in 1 .. Len(its) : f[i] \in ItemType
      BY <1>3, <2>1
    <2>. HIDE DEF f
    <2>4. f \in Seq(ItemType) /\ Len(f) = Len(its)
      BY <2>1, <2>2, <2>3
    <2>. QED BY <2>4 DEF f
  <1>5. \A i \in DOMAIN its :
           /\ ShutTo(its, k)[i].kind = its[i].kind /\ ShutTo(its, k)[i].id = its[i].id
           /\ ShutTo(its, k)[i].said = its[i].said
    BY <1>1, <1>2, ShutFacts
  <1>. QED BY <1>2, <1>4, <1>5

Closers(L) == [n \in 1 .. L |-> Closes(n)] \o <<Ends("completed")>>

LEMMA ClosersFacts ==
  ASSUME NEW L \in Nat
  PROVE  /\ Closers(L) \in Seq(EventType) /\ Len(Closers(L)) = L + 1 /\ DOMAIN Closers(L) = 1 .. L + 1
         /\ \A k \in 1 .. L : Closers(L)[k] = Closes(k)
         /\ Closers(L)[L + 1] = Ends("completed")
         /\ LastEvents(Closers(L))
  <1>. DEFINE s == [n \in 1 .. L |-> Closes(n)]  e == Ends("completed")
  <1>1. \A n \in Nat : Closes(n) \in EventType /\ Closes(n).do = "close"
    BY BoundsAreNat DEF Closes, EventType
  <1>2. e \in EventType /\ e.do = "completed"
    BY BoundsAreNat DEF Ends, EventType
  <1>3. s \in Seq(EventType) /\ Len(s) = L /\ \A k \in 1 .. L : s[k] = Closes(k)
    BY <1>1
  <1>4. Closers(L) = s \o <<e>>
    BY DEF Closers
  <1>. HIDE DEF s, e
  <1>5. /\ Closers(L) \in Seq(EventType) /\ Len(Closers(L)) = L + 1 /\ DOMAIN Closers(L) = 1 .. L + 1
        /\ \A k \in 1 .. L : Closers(L)[k] = Closes(k)
        /\ Closers(L)[L + 1] = e
    BY <1>2, <1>3, <1>4
  <1>6. \A k \in 1 .. L + 1 :
           Closers(L)[k].do \in IF k < L + 1 THEN {"close"} ELSE {"completed", "failed"}
    <2>. SUFFICES ASSUME NEW k \in 1 .. L + 1
                  PROVE  Closers(L)[k].do \in IF k < L + 1 THEN {"close"} ELSE {"completed", "failed"}
      OBVIOUS
    <2>1. CASE k < L + 1
      <3>1. k \in 1 .. L
        BY <2>1
      <3>. QED BY <1>1, <1>5, <2>1, <3>1
    <2>2. CASE ~(k < L + 1)
      BY <1>2, <1>5, <2>2
    <2>. QED BY <2>1, <2>2
  <1>7. LastEvents(Closers(L))
    BY <1>5, <1>6 DEF LastEvents
  <1>. QED BY <1>5, <1>7 DEF e

\* Closing all items in their order, and then the answer, is a story.
LEMMA ShutStory ==
  ASSUME NEW its \in Seq(ItemType), \A i \in DOMAIN its : its[i].open,
         NEW L \in Nat, L = Len(its)
  PROVE  Story(its, Closers(L), ShutTo(its, L + 1))
  <1>. DEFINE st == [k \in 1 .. L + 2 |-> ShutTo(its, k)]  es == Closers(L)
  <1>1. /\ Len(es) = L + 1 /\ \A k \in 1 .. L : es[k] = Closes(k)
        /\ es[L + 1] = Ends("completed")
    BY ClosersFacts
  <1>2. st \in [1 .. L + 2 -> Seq(ItemType)]
    BY ShutToFacts
  <1>3. ShutTo(its, 1) = its
    <2>1. \A i \in DOMAIN its : ShutTo(its, 1)[i] = its[i]
      BY ShutToFacts
    <2>. QED BY <2>1 DEF ShutTo
  <1>4. ShutTo(its, L + 2) = ShutTo(its, L + 1)
    <2>1. \A i \in DOMAIN its : (i < L + 2 <=> i < L + 1)
      OBVIOUS
    <2>. QED BY <2>1 DEF ShutTo
  <1>5. ASSUME NEW k \in 1 .. L
        PROVE  Legal(ShutTo(its, k), Closes(k)) /\ ShutTo(its, k + 1) = After(ShutTo(its, k), Closes(k))
    <2>. DEFINE a == ShutTo(its, k)  b == ShutTo(its, k + 1)
    <2>0. k \in Nat /\ k + 1 \in Nat /\ k \in DOMAIN its /\ ~(k < k)
      OBVIOUS
    <2>1. /\ a \in Seq(ItemType) /\ DOMAIN a = DOMAIN its /\ DOMAIN b = DOMAIN its
          /\ \A i \in DOMAIN its : a[i] = IF i < k THEN Shut(its[i]) ELSE its[i]
          /\ \A i \in DOMAIN its : b[i] = IF i < k + 1 THEN Shut(its[i]) ELSE its[i]
      BY <2>0, ShutToFacts
    <2>2. a[k] = its[k] /\ b[k] = Shut(its[k])
      BY <2>0, <2>1
    <2>3. Closes(k).do = "close" /\ Closes(k).index = k
      BY DEF Closes
    <2>4. Legal(a, Closes(k))
      BY <2>0, <2>1, <2>2, <2>3 DEF Legal
    <2>5. After(a, Closes(k)) = [a EXCEPT ![k] = Shut(a[k])]
      BY <2>3 DEF After, Shut
    <2>6. \A i \in DOMAIN its : i # k => a[i] = b[i]
      <3>. SUFFICES ASSUME NEW i \in DOMAIN its, i # k PROVE a[i] = b[i]
        OBVIOUS
      <3>1. i < k <=> i < k + 1
        BY <2>0
      <3>. QED BY <2>1, <3>1
    <2>7. b = [i \in DOMAIN its |-> b[i]] /\ a = [i \in DOMAIN its |-> a[i]]
      BY <2>1 DEF ShutTo
    <2>. HIDE DEF a, b
    <2>8. b = [a EXCEPT ![k] = Shut(a[k])]
      BY <2>0, <2>1, <2>2, <2>6, <2>7
    <2>. QED BY <2>4, <2>5, <2>8 DEF a, b
  <1>6. /\ Legal(ShutTo(its, L + 1), Ends("completed"))
        /\ ShutTo(its, L + 2) = After(ShutTo(its, L + 1), Ends("completed"))
    <2>1. Ends("completed").do = "completed"
      BY DEF Ends
    <2>2. \A i \in DOMAIN its : ShutTo(its, L + 1)[i] = Shut(its[i]) /\ ~Shut(its[i]).open
      <3>1. \A i \in DOMAIN its : i < L + 1 /\ its[i] \in ItemType
        OBVIOUS
      <3>. QED BY <3>1, ShutToFacts, ShutFacts
    <2>3. DOMAIN ShutTo(its, L + 1) = DOMAIN its
      BY ShutToFacts
    <2>. QED BY <1>4, <2>1, <2>2, <2>3 DEF Legal, After
  <1>7. \A k \in 1 .. L + 1 : Legal(st[k], es[k]) /\ st[k + 1] = After(st[k], es[k])
    <2>. SUFFICES ASSUME NEW k \in 1 .. L + 1
                  PROVE  Legal(st[k], es[k]) /\ st[k + 1] = After(st[k], es[k])
      OBVIOUS
    <2>1. st[k] = ShutTo(its, k) /\ st[k + 1] = ShutTo(its, k + 1)
      OBVIOUS
    <2>2. CASE k \in 1 .. L
      BY <1>1, <1>5, <2>1, <2>2
    <2>3. CASE k = L + 1
      BY <1>1, <1>6, <2>1, <2>3
    <2>. QED BY <2>2, <2>3
  <1>8. st[1] = its /\ st[L + 2] = ShutTo(its, L + 1)
    BY <1>3, <1>4
  <1>. HIDE DEF st, es
  <1>9. Story(its, es, ShutTo(its, L + 1))
    <2>1. Len(es) + 1 = L + 2 /\ 1 .. Len(es) = 1 .. L + 1
      BY <1>1
    <2>. QED BY <1>2, <1>7, <1>8, <2>1 DEF Story
  <1>. QED BY <1>9 DEF es

\* Closed items tell what they told.
LEMMA ShutTells ==
  ASSUME NEW its \in Seq(ItemType), NEW k \in Nat, NEW S, NEW N, NEW C, NEW X \in BOOLEAN,
         Itemised(its, N, C, X), Tells(its, S, C, X)
  PROVE  Itemised(ShutTo(its, k), N, C, X) /\ Tells(ShutTo(its, k), S, C, X)
  <1>. DEFINE b == ShutTo(its, k)
  <1>1. /\ DOMAIN b = DOMAIN its
        /\ \A i \in DOMAIN its : b[i].kind = its[i].kind /\ b[i].id = its[i].id /\ b[i].said = its[i].said
    BY ShutToFacts
  <1>. HIDE DEF b
  <1>2. CallItems(b) = CallItems(its)
    BY <1>1 DEF CallItems
  <1>3. {b[i].id : i \in CallItems(b)} = {its[i].id : i \in CallItems(its)}
    BY <1>1, <1>2 DEF CallItems
  <1>4. Shape(b, N)
    BY <1>1 DEF Itemised, Shape
  <1>5. Alone(its) => Alone(b)
    BY <1>1 DEF Alone
  <1>6. Itemised(b, N, C, X)
    BY <1>1, <1>2, <1>3, <1>4, <1>5 DEF Itemised
  <1>7. \A kind, c : Of(b, kind, c) = Of(its, kind, c)
    <2>. SUFFICES ASSUME NEW kind, NEW c PROVE Of(b, kind, c) = Of(its, kind, c)
      OBVIOUS
    <2>1. {j \in DOMAIN b : b[j].kind = kind /\ b[j].id = c}
             = {j \in DOMAIN its : its[j].kind = kind /\ its[j].id = c}
      BY <1>1
    <2>. QED BY <1>1, <2>1 DEF Of
  <1>8. Tells(b, S, C, X)
    BY <1>7 DEF Tells
  <1>. QED BY <1>6, <1>8 DEF b

LEMMA WorkOpen ==
  ASSUME Ready
  PROVE  /\ item \in Seq(ItemType) /\ slots \in Seq(SlotType) /\ Len(item) = Len(slots)
         /\ \A i \in DOMAIN item : item[i].open
         /\ Itemised(item, Len(sent), calls, bursts <= 1)
         /\ Tells(item, sent, calls, bursts <= 1)
  <1>. DEFINE w == [slots |-> slots, events |-> <<>>]
  <1>1. Good(w, item, item, Len(sent), calls, bursts <= 1) /\ w.slots = slots
    BY DEF Ready
  <1>. HIDE DEF w
  <1>2. Slotted(item, slots, bursts <= 1) /\ slots \in Seq(SlotType) /\ item \in Seq(ItemType)
    BY <1>1 DEF Good, WorkType
  <1>. QED BY <1>1, <1>2 DEF Good, Ready, Slotted

\* The reason that a stream ends with.
LEMMA EndsReason ==
  ASSUME StreamInv, NEW how \in Ending, UpstreamEnds(how)
  PROVE  StopIs'
  <1>1. /\ dialect \in {"openai", "unindexed", "anthropic", "gemini", "ollama"} /\ calls \in Nat
        /\ dialect = "gemini" => toolIndex = calls
    BY StreamAssumption DEF StreamAssumption, UpstreamEnds, Streaming, StreamInv, UpType
  <1>2. /\ end' = how /\ dialect' = dialect /\ calls' = calls
        /\ stopReason' = ReasonTold(FinalReason(how))
    BY DEF UpstreamEnds, upstream
  <1>3. ASSUME how = "ended", dialect # "ollama"
        PROVE  stopReason' = IF calls > 0 THEN "tool_calls" ELSE "stop"
    <2>1. FinalReason(how) = IF calls > 0 THEN "tool_calls" ELSE "stop"
      BY <1>1, <1>3 DEF FinalReason, Reason, Compatible
    <2>. QED BY <1>2, <2>1 DEF ReasonTold
  <1>4. ASSUME how = "length" PROVE stopReason' = "length"
    BY <1>1, <1>2, <1>4 DEF FinalReason, Reason, ReasonTold
  <1>. QED BY <1>2, <1>3, <1>4 DEF StopIs

LEMMA EndsKeeps ==
  ASSUME StreamInv, NEW how \in Ending, UpstreamEnds(how)
  PROVE  StreamInv'
  <1>0. /\ stage = "open" /\ end = "no" /\ outbox = <<>> /\ dialect \in Dialect
        /\ end' = how /\ outbox' = Finish /\ slots' = <<>>
        /\ UNCHANGED <<stage, dialect, protocol, strip, sent, calls, block, bursts, toolIndex, item, ended>>
    BY DEF UpstreamEnds, Streaming, upstream
  <1>1. Ready
    BY <1>0, InvReady
  <1>2. /\ item \in Seq(ItemType) /\ slots \in Seq(SlotType) /\ Len(item) = Len(slots)
        /\ \A i \in DOMAIN item : item[i].open
        /\ Itemised(item, Len(sent), calls, bursts <= 1)
        /\ Tells(item, sent, calls, bursts <= 1)
    BY <1>1, WorkOpen
  <1>. PICK L : L = Len(item)
    OBVIOUS
  <1>. PICK fin : fin = ShutTo(item, L + 1)
    OBVIOUS
  <1>3. L \in Nat /\ L + 1 \in Nat /\ (bursts <= 1) \in BOOLEAN
    BY <1>2
  <1>4. Finish = Closers(L)
    <2>1. DOMAIN slots = 1 .. L
      BY <1>2
    <2>. QED BY <2>1 DEF Finish, Closers
  <1>5. Story(item, Closers(L), fin) /\ LastEvents(Closers(L))
    BY <1>2, <1>3, ShutStory, ClosersFacts
  <1>6. Itemised(fin, Len(sent), calls, bursts <= 1) /\ Tells(fin, sent, calls, bursts <= 1)
    BY <1>2, <1>3, ShutTells
  <1>7. Closing(fin)'
    <2>1. LastEvents(outbox)'
      BY <1>0, <1>4, <1>5 DEF LastEvents
    <2>2. Story(item', outbox', fin)
      BY <1>0, <1>4, <1>5
    <2>3. Story(item, outbox, fin)'
      BY <2>2 DEF Story
    <2>4. Telling(fin)'
      BY <1>0, <1>6 DEF Telling, Tells, TextIs, ThinkingIs
    <2>. QED BY <2>1, <2>3, <2>4 DEF Closing
  <1>8. FairItems' /\ UpType'
    <2>1. SentStays
      BY <1>0 DEF SentStays
    <2>. QED BY <1>0, <2>1, FairStays DEF StreamInv, UpType
  <1>9. StopIs'
    BY EndsReason
  <1>10. /\ stage' = "open" /\ dialect' \in Dialect /\ protocol' \in Api /\ ended' = "no"
         /\ end' # "no" /\ item' \in Seq(ItemType)
    BY <1>0 DEF StreamInv, Ending
  <1>. QED BY <1>7, <1>8, <1>9, <1>10 DEF StreamInv

LEMMA FailsKeeps ==
  ASSUME StreamInv, UpstreamFails
  PROVE  StreamInv'
  <1>0. /\ stage = "open" /\ end = "no" /\ outbox = <<>> /\ dialect \in Dialect
        /\ end' = "error" /\ outbox' = <<Ends("failed")>>
        /\ UNCHANGED <<stage, dialect, protocol, strip, sent, calls, block, bursts, toolIndex, slots,
                       stopReason, item, ended>>
    BY DEF UpstreamFails, Streaming, upstream
  <1>1. Ready
    BY <1>0, InvReady
  <1>2. /\ item \in Seq(ItemType)
        /\ Itemised(item, Len(sent), calls, bursts <= 1)
        /\ Tells(item, sent, calls, bursts <= 1)
    BY <1>1, WorkOpen
  <1>. DEFINE e == Ends("failed")
  <1>3. e \in EventType /\ e.do = "failed"
    BY BoundsAreNat DEF Ends, EventType
  <1>4. outbox' = <<e>>
    BY <1>0
  <1>. HIDE DEF e
  <1>5. Story(item, <<e>>, item)
    <2>1. Story(item, <<>>, item)
      BY <1>2, StoryEmpty
    <2>2. Legal(item, e) /\ After(item, e) = item
      BY <1>3 DEF Legal, After
    <2>3. Story(item, Append(<<>>, e), After(item, e))
      <3>1. <<>> \in Seq(EventType)
        OBVIOUS
      <3>. QED BY <1>3, <2>1, <2>2, <3>1, StoryGoesOn
    <2>4. Append(<<>>, e) = <<e>>
      OBVIOUS
    <2>. QED BY <2>2, <2>3, <2>4
  <1>6. LastEvents(<<e>>)
    BY <1>3 DEF LastEvents
  <1>7. \E fin : Closing(fin)'
    <2>1. LastEvents(outbox)'
      BY <1>4, <1>6 DEF LastEvents
    <2>2. \A fin : fin = item => Story(item', outbox', fin)
      BY <1>0, <1>4, <1>5
    <2>3. \A fin : fin = item => Story(item, outbox, fin)'
      BY <2>2 DEF Story
    <2>4. \A fin : fin = item => Telling(fin)'
      BY <1>0, <1>2 DEF Telling, Tells, TextIs, ThinkingIs
    <2>5. \A fin : fin = item => Closing(fin)'
      BY <2>1, <2>3, <2>4 DEF Closing
    <2>. QED BY <2>5
  <1>8. FairItems' /\ UpType'
    <2>1. SentStays
      BY <1>0 DEF SentStays
    <2>. QED BY <1>0, <2>1, FairStays DEF StreamInv, UpType
  <1>10. /\ stage' = "open" /\ dialect' \in Dialect /\ protocol' \in Api /\ ended' = "no"
         /\ end' = "error" /\ item' \in Seq(ItemType)
    BY <1>0 DEF StreamInv
  <1>. QED BY <1>7, <1>8, <1>10 DEF StreamInv, StopIs

LEMMA LeaveKeeps ==
  ASSUME StreamInv, Leave
  PROVE  StreamInv'
  <1>1. /\ stage = "open" /\ stage' = "over"
        /\ UNCHANGED <<dialect, protocol, strip, sent, calls, block, bursts, toolIndex, end, slots,
                       stopReason, outbox, item, ended>>
    BY DEF Leave, upstream
  <1>2. FairItems' /\ UpType'
    <2>1. SentStays
      BY <1>1 DEF SentStays
    <2>. QED BY <1>1, <2>1, FairStays DEF StreamInv, UpType
  <1>. QED BY <1>1, <1>2 DEF StreamInv, StopIs

-----------------------------------------------------------------------------
(* The client takes an event *)

YieldsIs(e, fin) ==
    /\ e \in EventType /\ Legal(item, e) /\ item' = After(item, e) /\ item' \in Seq(ItemType)
    /\ outbox' = Tail(outbox) /\ outbox' \in Seq(EventType) /\ Story(item', outbox', fin)
    /\ e \in Range(outbox) /\ Range(outbox') \subseteq Range(outbox)

\* What the client takes is the beginning of the story.
LEMMA YieldIs ==
  ASSUME Yield, item \in Seq(ItemType), outbox \in Seq(EventType), NEW fin, Story(item, outbox, fin)
  PROVE  YieldsIs(Head(outbox), fin)
  <1>1. outbox # <<>> /\ outbox' = Tail(outbox) /\ item' = Shown(Head(outbox))
    BY DEF Yield
  <1>2. /\ Legal(item, Head(outbox))
        /\ Story(After(item, Head(outbox)), Tail(outbox), fin)
    BY <1>1, StoryBegins
  <1>3. Head(outbox) \in EventType /\ Tail(outbox) \in Seq(EventType)
    BY <1>1
  <1>4. After(item, Head(outbox)) \in Seq(ItemType)
    BY <1>2, <1>3, AfterType
  <1>5. Shown(Head(outbox)) = After(item, Head(outbox))
    <2>1. Head(outbox).do = "open" => Head(outbox).index \notin DOMAIN item
      BY <1>2 DEF Legal
    <2>. QED BY <2>1 DEF Shown, After
  <1>6. Head(outbox) \in Range(outbox) /\ Range(Tail(outbox)) \subseteq Range(outbox)
    <2>1. Head(outbox) = outbox[1] /\ 1 \in DOMAIN outbox
      BY <1>1
    <2>2. \A i \in DOMAIN Tail(outbox) : i + 1 \in DOMAIN outbox /\ Tail(outbox)[i] = outbox[i + 1]
      BY <1>1
    <2>. QED BY <2>1, <2>2 DEF Range
  <1>. QED BY <1>1, <1>2, <1>3, <1>4, <1>5, <1>6 DEF YieldsIs

\* It sees no piece that it may not.
LEMMA AfterFair ==
  ASSUME item \in Seq(ItemType), FairItems, NEW e \in EventType, Legal(item, e),
         e.do = "say" => Fair(e.piece, sent), item' = After(item, e),
         UNCHANGED <<sent, strip, dialect>>
  PROVE  FairItems'
  <1>0. \A p : Fair(p, sent)' <=> Fair(p, sent)
    BY DEF Fair
  <1>1. CASE e.do = "open"
    <2>. DEFINE x == [kind |-> e.kind, id |-> e.id, said |-> <<>>, open |-> TRUE]
    <2>1. item' = Append(item, x) /\ x.said = <<>>
      BY <1>1 DEF After
    <2>. HIDE DEF x
    <2>2. \A i \in DOMAIN item' : (i \in DOMAIN item /\ item'[i] = item[i]) \/ item'[i] = x
      BY <2>1
    <2>3. \A i \in DOMAIN item' : \A k \in DOMAIN item'[i].said : Fair(item'[i].said[k], sent)
      BY <2>1, <2>2 DEF FairItems
    <2>. QED BY <1>0, <2>3 DEF FairItems, Fair
  <1>2. CASE e.do = "say"
    <2>. DEFINE n == e.index
    <2>1. n \in DOMAIN item /\ item' = [item EXCEPT ![n].said = Append(@, e.piece)]
      BY <1>2 DEF After, Legal
    <2>. HIDE DEF n
    <2>2. item[n] \in ItemType /\ item[n].said \in Seq(1 .. MaxPieces)
      <3>1. item[n] \in ItemType
        BY <2>1
      <3>. QED BY <3>1 DEF ItemType
    <2>3. /\ DOMAIN item' = DOMAIN item
          /\ \A i \in DOMAIN item : i # n => item'[i] = item[i]
          /\ item'[n].said = Append(item[n].said, e.piece)
      BY <2>1, <2>2 DEF ItemType
    <2>4. \A k \in DOMAIN item'[n].said :
             \/ k \in DOMAIN item[n].said /\ item'[n].said[k] = item[n].said[k]
             \/ item'[n].said[k] = e.piece
      BY <2>2, <2>3
    <2>5. \A i \in DOMAIN item' : \A k \in DOMAIN item'[i].said : Fair(item'[i].said[k], sent)
      BY <1>2, <2>1, <2>3, <2>4 DEF FairItems
    <2>. QED BY <1>0, <2>5 DEF FairItems, Fair
  <1>3. CASE e.do = "close"
    <2>. DEFINE n == e.index
    <2>1. n \in DOMAIN item /\ item' = [item EXCEPT ![n].open = FALSE]
      BY <1>3 DEF After, Legal
    <2>. HIDE DEF n
    <2>2. item[n] \in ItemType
      BY <2>1
    <2>3. /\ DOMAIN item' = DOMAIN item
          /\ \A i \in DOMAIN item : item'[i].said = item[i].said
      BY <2>1, <2>2 DEF ItemType
    <2>4. \A i \in DOMAIN item' : \A k \in DOMAIN item'[i].said : Fair(item'[i].said[k], sent)
      BY <2>3 DEF FairItems
    <2>. QED BY <1>0, <2>4 DEF FairItems, Fair
  <1>4. CASE e.do \in {"completed", "failed"}
    <2>1. item' = item
      BY <1>4 DEF After
    <2>. QED BY <1>0, <2>1 DEF FairItems, Fair
  <1>. QED BY <1>1, <1>2, <1>3, <1>4 DEF EventType

LEMMA YieldKeeps ==
  ASSUME StreamInv, Yield
  PROVE  StreamInv'
  <1>. DEFINE e == Head(outbox)
  <1>0. /\ stage = "open" /\ outbox # <<>>
        /\ ended' = (IF e.do \in {"completed", "failed"} THEN e.do ELSE ended)
        /\ stage' = (IF ended' = "no" THEN "open" ELSE "over")
        /\ UNCHANGED <<dialect, protocol, strip, sent, calls, block, bursts, toolIndex, end, slots, stopReason>>
    BY DEF Yield, upstream
  <1>. HIDE DEF e
  <1>1. item \in Seq(ItemType) /\ FairItems /\ ended = "no" /\ dialect \in Dialect /\ protocol \in Api
        /\ UpType
    BY <1>0 DEF StreamInv
  <1>2. UpType'
    BY <1>0, <1>1 DEF UpType
  <1>3. CASE end = "no"
    <2>1. PICK fin : Working(fin)
      BY <1>0, <1>3 DEF StreamInv
    <2>. DEFINE w == [slots |-> slots, events |-> outbox]
    <2>2. /\ Good(w, item, fin, Len(sent), calls, bursts <= 1)
          /\ w.slots = slots /\ w.events = outbox
      BY <2>1 DEF Working
    <2>. HIDE DEF w
    <2>3. /\ outbox \in Seq(EventType) /\ slots \in Seq(SlotType) /\ Story(item, outbox, fin)
          /\ fin \in Seq(ItemType) /\ Itemised(fin, Len(sent), calls, bursts <= 1)
          /\ Slotted(fin, slots, bursts <= 1)
      BY <2>2 DEF Good, WorkType
    <2>4. YieldsIs(e, fin)
      BY <1>1, <2>3, YieldIs DEF e
    <2>5. e.do = "open" \/ (e.do = "say" /\ Fair(e.piece, sent))
      BY <2>1, <2>4 DEF Working, Proper, YieldsIs
    <2>6. ended' = "no" /\ stage' = "open"
      BY <1>0, <1>1, <2>5
    <2>7. FairItems'
      BY <1>0, <1>1, <2>4, <2>5, AfterFair DEF YieldsIs
    <2>8. Good([slots |-> slots', events |-> outbox'], item', fin, Len(sent'), calls', bursts' <= 1)
      <3>. DEFINE w2 == [slots |-> slots', events |-> outbox']
      <3>1. w2 \in WorkType /\ w2.slots = slots /\ w2.events = outbox'
        BY <1>0, <2>3, <2>4 DEF WorkType, YieldsIs
      <3>2. Len(sent') = Len(sent) /\ calls' = calls /\ bursts' = bursts
        BY <1>0
      <3>. HIDE DEF w2
      <3>3. Good(w2, item', fin, Len(sent), calls, bursts <= 1)
        BY <2>3, <2>4, <3>1 DEF Good, YieldsIs
      <3>4. Good(w2, item', fin, Len(sent'), calls', bursts' <= 1)
        BY <3>2, <3>3
      <3>. QED BY <3>4 DEF w2
    <2>9. Tells(fin, sent, calls, bursts <= 1)'
      BY <1>0, <2>1 DEF Working, Tells, TextIs, ThinkingIs
    <2>10. Proper(outbox, sent)'
      BY <1>0, <2>1, <2>4 DEF Working, Proper, Fair, YieldsIs
    <2>11. Working(fin)'
      BY <2>8, <2>9, <2>10 DEF Working, Good, Story
    <2>12. end' = "no" /\ stopReason' = "none" /\ dialect' \in Dialect /\ protocol' \in Api
           /\ item' \in Seq(ItemType)
      BY <1>0, <1>1, <1>3, <2>4 DEF StreamInv, YieldsIs
    <2>. QED BY <1>2, <2>6, <2>7, <2>11, <2>12 DEF StreamInv, StopIs
  <1>4. CASE end # "no"
    <2>1. PICK fin : Closing(fin)
      BY <1>0, <1>4 DEF StreamInv
    <2>2. outbox \in Seq(EventType) /\ Story(item, outbox, fin) /\ LastEvents(outbox) /\ Telling(fin)
      BY <2>1 DEF Closing, LastEvents
    <2>3. YieldsIs(e, fin)
      BY <1>1, <2>2, YieldIs DEF e
    <2>4. /\ e = outbox[1] /\ 1 \in DOMAIN outbox /\ Len(outbox) \in Nat
          /\ Len(outbox) > 0
      BY <1>0, <2>2 DEF e
    <2>5. e.do \in {"close", "completed", "failed"}
      BY <2>2, <2>4 DEF LastEvents
    <2>6. FairItems'
      BY <1>0, <1>1, <2>3, <2>5, AfterFair DEF YieldsIs
    <2>7. Telling(fin)'
      BY <1>0, <2>2 DEF Telling, Tells, TextIs, ThinkingIs
    <2>8. /\ end' = end /\ dialect' \in Dialect /\ protocol' \in Api /\ item' \in Seq(ItemType)
          /\ StopIs'
      BY <1>0, <1>1, <1>4, <2>3 DEF StreamInv, StopIs, YieldsIs
    <2>9. CASE Len(outbox) > 1
      <3>1. e.do = "close" /\ ended' = "no" /\ stage' = "open"
        BY <1>0, <1>1, <2>2, <2>4, <2>9 DEF LastEvents
      <3>2. /\ outbox' \in Seq(EventType) /\ outbox' # <<>> /\ Len(outbox') = Len(outbox) - 1
            /\ \A k \in DOMAIN outbox' : k + 1 \in DOMAIN outbox /\ outbox'[k] = outbox[k + 1]
                                          /\ (k < Len(outbox') <=> k + 1 < Len(outbox))
        BY <1>0, <2>2, <2>3, <2>9 DEF YieldsIs
      <3>3. LastEvents(outbox)'
        BY <2>2, <3>2 DEF LastEvents
      <3>4. Story(item, outbox, fin)'
        BY <2>3 DEF YieldsIs, Story
      <3>5. Closing(fin)'
        BY <2>7, <3>3, <3>4 DEF Closing
      <3>. QED BY <1>2, <1>4, <2>6, <2>8, <3>1, <3>5 DEF StreamInv
    <2>10. CASE Len(outbox) = 1
      <3>1. e.do \in {"completed", "failed"} /\ ended' = e.do /\ stage' = "over"
        BY <1>0, <1>1, <2>2, <2>4, <2>10 DEF LastEvents
      <3>2. outbox' = <<>>
        BY <2>2, <2>3, <2>10 DEF YieldsIs
      <3>3. fin = item'
        BY <2>3, <3>2, StoryEmpty DEF YieldsIs
      <3>4. Telling(item)'
        BY <2>7, <3>3 DEF Telling, Tells, TextIs, ThinkingIs
      <3>. QED BY <1>2, <1>4, <2>6, <2>8, <3>1, <3>4 DEF StreamInv
    <2>. QED BY <2>4, <2>9, <2>10
  <1>. QED BY <1>3, <1>4

-----------------------------------------------------------------------------
(* The turn *)

TurnInv == StreamInv /\ api \in Api

LEMMA ReplyKeeps ==
  ASSUME TurnInv, Reply
  PROVE  StreamInv'
  <1>1. /\ stage' = "open" /\ protocol' \in Api /\ dialect' \in Dialect
        /\ UNCHANGED <<sent, calls, block, bursts, toolIndex, end, slots, stopReason, outbox, item, ended>>
        /\ Untouched
    BY DEF Reply, TurnInv, StreamInv, upstream
  <1>2. /\ sent = <<>> /\ calls = 0 /\ block = "none" /\ bursts = 0 /\ toolIndex = 0
        /\ end = "no" /\ slots = <<>> /\ stopReason = "none" /\ outbox = <<>>
        /\ item = <<>> /\ ended = "no"
    BY <1>1 DEF Untouched
  <1>3. UpType'
    BY <1>1, <1>2, BoundsAreNat DEF UpType
  <1>4. Itemised(<<>>, 0, 0, TRUE) /\ Slotted(<<>>, <<>>, TRUE)
    BY NothingTold
  <1>5. Good([slots |-> <<>>, events |-> <<>>], <<>>, <<>>, 0, 0, TRUE)
    <2>. DEFINE w == [slots |-> <<>>, events |-> <<>>]
    <2>1. w \in WorkType /\ w.slots = <<>> /\ w.events = <<>>
      BY DEF WorkType
    <2>2. <<>> \in Seq(ItemType)
      OBVIOUS
    <2>3. Story(<<>>, <<>>, <<>>)
      BY <2>2, StoryEmpty
    <2>. HIDE DEF w
    <2>4. Good(w, <<>>, <<>>, 0, 0, TRUE)
      BY <1>4, <2>1, <2>2, <2>3 DEF Good
    <2>. QED BY <2>4 DEF w
  <1>6. Working(<<>>)'
    <2>1. /\ slots' = <<>> /\ outbox' = <<>> /\ item' = <<>> /\ Len(sent') = 0 /\ calls' = 0
          /\ (bursts' <= 1) = TRUE /\ sent' = <<>>
      BY <1>1, <1>2
    <2>2. Good([slots |-> slots', events |-> outbox'], item', <<>>, Len(sent'), calls', bursts' <= 1)
      BY <1>5, <2>1
    <2>3. Tells(<<>>, sent, calls, bursts <= 1)'
      <3>1. \A k, c : Of(<<>>, k, c) = {} /\ SentAs(sent', k, c) = {}
        BY <2>1 DEF Of, SentAs
      <3>. QED BY <2>1, <3>1 DEF Tells, TextIs, ThinkingIs
    <2>4. Proper(outbox, sent)'
      BY <2>1 DEF Proper, Range
    <2>. QED BY <2>2, <2>3, <2>4 DEF Working, Good, Story
  <1>7. FairItems' /\ item' \in Seq(ItemType)
    BY <1>1, <1>2 DEF FairItems
  <1>. QED BY <1>1, <1>2, <1>3, <1>6, <1>7 DEF StreamInv, StopIs

LEMMA StreamKeeps ==
  ASSUME StreamInv, StreamNext
  PROVE  StreamInv'
  <1>1. CASE Sending
    BY <1>1, SendingKeeps
  <1>2. CASE \E how \in Ending : UpstreamEnds(how)
    BY <1>2, EndsKeeps
  <1>3. CASE UpstreamFails
    BY <1>3, FailsKeeps
  <1>4. CASE Yield
    BY <1>4, YieldKeeps
  <1>5. CASE Leave
    BY <1>5, LeaveKeeps
  <1>. QED BY <1>1, <1>2, <1>3, <1>4, <1>5 DEF StreamNext, Sending

LEMMA StreamRests ==
  ASSUME StreamInv, UNCHANGED streamVars
  PROVE  StreamInv'
  <1>1. UNCHANGED <<stage, dialect, protocol, strip, sent, calls, block, bursts, toolIndex, end, slots,
                    stopReason, outbox, item, ended>>
    BY DEF streamVars, upstream
  <1>2. UpType' /\ FairItems'
    BY <1>1 DEF StreamInv, UpType, FairItems, Fair
  <1>3. ASSUME NEW fin, Working(fin) PROVE Working(fin)'
    BY <1>1, <1>3 DEF Working, Good, Story, Tells, TextIs, ThinkingIs, Proper, Fair
  <1>4. ASSUME NEW fin, Closing(fin) PROVE Closing(fin)'
    BY <1>1, <1>4 DEF Closing, LastEvents, Story, Telling, Tells, TextIs, ThinkingIs
  <1>5. Telling(item) => Telling(item)'
    BY <1>1 DEF Telling, Tells, TextIs, ThinkingIs
  <1>. QED BY <1>1, <1>2, <1>3, <1>4, <1>5 DEF StreamInv, StopIs, Untouched

LEMMA TurnKeeps ==
  ASSUME TurnInv, [TurnNext]_turnVars
  PROVE  TurnInv'
  <1>1. CASE HistoryNext /\ UNCHANGED streamVars
    <2>1. api' = api
      BY <1>1 DEF HistoryNext, ReadCall, ReadOutput, ReadImage, ReadMessage, ReadReasoning, Read,
                  AssistantTurn, UserTurn, Turn, Send
    <2>. QED BY <1>1, <2>1, StreamRests DEF TurnInv
  <1>2. CASE Reply
    <2>1. api' = api
      BY <1>2 DEF Reply
    <2>. QED BY <1>2, <2>1, ReplyKeeps DEF TurnInv
  <1>3. CASE StreamNext /\ UNCHANGED historyVars
    <2>1. api' = api
      BY <1>3 DEF historyVars
    <2>. QED BY <1>3, <2>1, StreamKeeps DEF TurnInv
  <1>4. CASE UNCHANGED turnVars
    <2>1. UNCHANGED streamVars /\ api' = api
      BY <1>4 DEF turnVars, historyVars
    <2>. QED BY <2>1, StreamRests DEF TurnInv
  <1>. QED BY <1>1, <1>2, <1>3, <1>4 DEF TurnNext

\* Whatever a client sends and an upstream streams, what waits for the client and what it has
\* been shown make up an account of what the upstream sent (TurnInv).
THEOREM StreamsStaySound == TurnSpec => []TurnInv
  <1>1. TurnInit => TurnInv
    BY StreamBegins DEF TurnInit, TurnInv, HistoryInit
  <1>. QED BY <1>1, TurnKeeps, PTL DEF TurnSpec

-----------------------------------------------------------------------------
(* The grammar of the events *)

\* Only Yield shows the client anything, and it shows a legal event.
LEMMA YieldIsLegal ==
  ASSUME StreamInv, Yield
  PROVE  \E e \in EventType : /\ Legal(item, e) /\ item' = After(item, e) /\ ended = "no"
                              /\ ended' = IF e.do \in {"completed", "failed"} THEN e.do ELSE ended
  <1>. DEFINE e == Head(outbox)
  <1>0. /\ stage = "open" /\ outbox # <<>> /\ ended = "no" /\ item \in Seq(ItemType)
        /\ ended' = (IF e.do \in {"completed", "failed"} THEN e.do ELSE ended)
    BY DEF Yield, StreamInv
  <1>1. \E fin : outbox \in Seq(EventType) /\ Story(item, outbox, fin)
    <2>1. CASE end = "no"
      <3>1. PICK fin : Working(fin)
        BY <1>0, <2>1 DEF StreamInv
      <3>. DEFINE w == [slots |-> slots, events |-> outbox]
      <3>2. Good(w, item, fin, Len(sent), calls, bursts <= 1) /\ w.events = outbox
        BY <3>1 DEF Working
      <3>. HIDE DEF w
      <3>. QED BY <3>2 DEF Good, WorkType
    <2>2. CASE end # "no"
      BY <1>0, <2>2 DEF StreamInv, Closing, LastEvents
    <2>. QED BY <2>1, <2>2
  <1>2. PICK fin : outbox \in Seq(EventType) /\ Story(item, outbox, fin)
    BY <1>1
  <1>3. YieldsIs(e, fin)
    BY <1>0, <1>2, YieldIs
  <1>. HIDE DEF e
  <1>. QED BY <1>0, <1>3 DEF YieldsIs

LEMMA LegalIsGrammar ==
  ASSUME item \in Seq(ItemType), NEW e \in EventType, Legal(item, e), item' = After(item, e),
         ended = "no", ended' = IF e.do \in {"completed", "failed"} THEN e.do ELSE ended
  PROVE  Grammar!Next
  <1>1. CASE e.do = "open"
    <2>1. e.kind \in Slot /\ e.id \in 0 .. MaxCalls
      BY <1>1 DEF Legal, EventType
    <2>2. Grammar!Announce(e.kind, e.id)
      BY <1>1 DEF After, Grammar!Announce, Grammar!Fresh
    <2>. QED BY <2>1, <2>2 DEF Grammar!Next
  <1>2. CASE e.do = "say"
    <2>1. e.index \in DOMAIN item /\ item[e.index].open /\ e.piece \in 1 .. MaxPieces
      <3>1. e.piece \in 0 .. MaxPieces
        BY DEF EventType
      <3>2. e.index \in DOMAIN item /\ item[e.index].open /\ e.piece # 0
        BY <1>2 DEF Legal
      <3>. QED BY <3>1, <3>2, BoundsAreNat
    <2>2. item' = [item EXCEPT ![e.index].said = Append(@, e.piece)] /\ ended' = ended
      BY <1>2 DEF After
    <2>3. Grammar!Say(e.index, e.piece)
      BY <2>1, <2>2 DEF Grammar!Say
    <2>. QED BY <2>1, <2>3 DEF Grammar!Next
  <1>3. CASE e.do = "close"
    <2>1. e.index \in DOMAIN item /\ item[e.index].open
      BY <1>3 DEF Legal
    <2>2. item' = [item EXCEPT ![e.index].open = FALSE] /\ ended' = ended
      BY <1>3 DEF After
    <2>3. Grammar!Close(e.index)
      BY <2>1, <2>2 DEF Grammar!Close
    <2>. QED BY <2>1, <2>3 DEF Grammar!Next
  <1>4. CASE e.do = "completed"
    <2>1. Grammar!Complete
      BY <1>4 DEF Legal, After, Grammar!Complete
    <2>. QED BY <2>1 DEF Grammar!Next
  <1>5. CASE e.do = "failed"
    <2>1. Grammar!Fail
      BY <1>5 DEF After, Grammar!Fail
    <2>. QED BY <2>1 DEF Grammar!Next
  <1>. QED BY <1>1, <1>2, <1>3, <1>4, <1>5 DEF EventType

LEMMA TurnIsGrammar ==
  ASSUME TurnInv, [TurnNext]_turnVars
  PROVE  [Grammar!Next]_<<item, ended>>
  <1>1. CASE UNCHANGED <<item, ended>>
    BY <1>1
  <1>2. CASE Yield
    BY <1>2, YieldIsLegal, LegalIsGrammar DEF TurnInv, StreamInv
  <1>3. ~Yield => UNCHANGED <<item, ended>>
    <2>1. UNCHANGED streamVars => UNCHANGED <<item, ended>>
      BY DEF streamVars
    <2>2. Reply => UNCHANGED <<item, ended>>
      BY DEF Reply
    <2>3. Sending => UNCHANGED <<item, ended>>
      BY DEF Sending, CompatibleText, CompatibleThinking, CompatibleBoth, CompatibleCall, BlockStart,
             BlockDelta, GeminiText, GeminiCall, OllamaMessage, Rest
    <2>4. ASSUME NEW how, UpstreamEnds(how) PROVE UNCHANGED <<item, ended>>
      BY <2>4 DEF UpstreamEnds
    <2>5. UpstreamFails \/ Leave => UNCHANGED <<item, ended>>
      BY DEF UpstreamFails, Leave
    <2>6. StreamNext => Sending \/ (\E how \in Ending : UpstreamEnds(how))
                          \/ UpstreamFails \/ Yield \/ Leave
      BY DEF StreamNext, Sending
    <2>. QED BY <2>1, <2>2, <2>3, <2>4, <2>5, <2>6 DEF TurnNext, turnVars
  <1>. QED BY <1>1, <1>2, <1>3

\* Every event a client gets is one that the grammar allows: no item is spoken in before it is
\* announced or after it is closed, and none is open when the answer is called complete
\* (feed_chunk and finish of both assemblers).
THEOREM EventsFollowTheGrammar == TurnSpec => FollowsGrammar
  <1>1. TurnInit => Grammar!Init
    BY DEF TurnInit, StreamInit, Grammar!Init
  <1>2. TurnInv /\ [TurnNext]_turnVars => [Grammar!Next]_<<item, ended>>
    BY TurnIsGrammar
  <1>3. TurnInv /\ [TurnNext]_turnVars => [Grammar!Next]_Grammar!grammarVars
    BY <1>2 DEF Grammar!grammarVars
  <1>. QED BY <1>1, <1>3, StreamsStaySound, PTL DEF TurnSpec, FollowsGrammar, Grammar!Spec

-----------------------------------------------------------------------------
(* Thinking and the stop reason *)

\* Thinking that is to be hidden is never shown, and of a stream that ended as it should chat and
\* messages say that it hit a limit, or that it stops for its calls exactly when it shows any; of
\* Ollama's streams, of a call Gemini got wrong and of an unknown word nothing is said.
THEOREM AnswersAreProper == TurnSpec => []AnswerIsProper
  <1>1. TurnInv => AnswerIsProper
    <2>. SUFFICES ASSUME TurnInv PROVE AnswerIsProper
      OBVIOUS
    <2>1. ThinkingIsHidden
      BY DEF TurnInv, StreamInv, FairItems, Fair, ThinkingIsHidden
    <2>2. StopReasonFits
      <3>. SUFFICES ASSUME ended = "completed", end \in {"ended", "length"}, dialect # "ollama"
                    PROVE  stopReason = IF end = "length" THEN "length"
                                        ELSE IF \E i \in DOMAIN item : item[i].kind = "call"
                                             THEN "tool_calls" ELSE "stop"
        BY DEF StopReasonFits
      <3>1. CallItems(item) # {} <=> calls > 0
        BY DEF TurnInv, StreamInv, Telling, Itemised
      <3>2. StopIs
        BY DEF TurnInv, StreamInv
      <3>. QED BY <3>1, <3>2 DEF CallItems, StopIs
    <2>. QED BY <2>1, <2>2 DEF AnswerIsProper
  <1>. QED BY <1>1, StreamsStaySound, PTL

-----------------------------------------------------------------------------
(* Pieces in order *)

\* A set of numbers has one rising sequence.
LEMMA RisingUnique ==
  ASSUME NEW n \in Nat, NEW P \in SUBSET Nat, NEW s \in [1 .. n -> P], NEW t \in [1 .. n -> P],
         Rising(s), Rising(t), Range(s) = P, Range(t) = P
  PROVE  s = t
  <1>. DEFINE D == {i \in 1 .. n : s[i] # t[i]}
  <1>1. CASE D = {}
    <2>1. \A i \in 1 .. n : s[i] = t[i]
      BY <1>1
    <2>. QED BY <2>1
  <1>2. CASE D # {}
    <2>0. D \in SUBSET Nat
      OBVIOUS
    <2>1. PICK i \in D : \A j \in D : i <= j
      <3>. HIDE DEF D
      <3>. QED BY <1>2, <2>0, LeastNumber
    <2>2. i \in 1 .. n /\ s[i] # t[i] /\ s[i] \in Nat /\ t[i] \in Nat
      BY <2>1
    <2>3. \A j \in 1 .. n : j < i => s[j] = t[j]
      BY <2>1, <2>2
    <2>. HIDE DEF D
    <2>4. CASE s[i] < t[i]
      <3>1. PICK j \in 1 .. n : t[j] = s[i]
        BY <2>2 DEF Range
      <3>2. CASE j < i
        BY <2>2, <2>3, <3>1, <3>2 DEF Rising
      <3>3. CASE i < j
        BY <2>2, <2>4, <3>1, <3>3 DEF Rising
      <3>. QED BY <2>2, <3>1, <3>2, <3>3
    <2>5. CASE t[i] < s[i]
      <3>1. PICK j \in 1 .. n : s[j] = t[i]
        BY <2>2 DEF Range
      <3>2. CASE j < i
        BY <2>2, <2>3, <3>1, <3>2 DEF Rising
      <3>3. CASE i < j
        BY <2>2, <2>5, <3>1, <3>3 DEF Rising
      <3>. QED BY <2>2, <3>1, <3>2, <3>3
    <2>. QED BY <2>2, <2>4, <2>5
  <1>. QED BY <1>1, <1>2

LEMMA RisingCounts ==
  ASSUME NEW n \in Nat, NEW t \in [1 .. n -> Nat], Rising(t)
  PROVE  IsFiniteSet(Range(t)) /\ Cardinality(Range(t)) = n
  <1>1. t \in [1 .. n -> Range(t)]
    BY DEF Range
  <1>2. ASSUME NEW a \in DOMAIN t, NEW b \in DOMAIN t, t[a] = t[b] PROVE a = b
    <2>1. a \in 1 .. n /\ b \in 1 .. n /\ t[a] \in Nat
      OBVIOUS
    <2>. QED BY <2>1, <1>2 DEF Rising
  <1>3. ASSUME NEW x \in Range(t) PROVE \E a \in 1 .. n : t[a] = x
    BY DEF Range
  <1>4. t \in Bijection(1 .. n, Range(t))
    BY <1>1, <1>2, <1>3 DEF Bijection, Injection, Surjection, IsInjective
  <1>5. IsFiniteSet(1 .. n) /\ Cardinality(1 .. n) = n
    BY FS_Interval
  <1>. QED BY <1>4, <1>5, FS_Bijection DEF ExistsBijection

\* InOrder is that sequence.
LEMMA InOrderIs ==
  ASSUME NEW s \in Seq(Nat), Rising(s), NEW P, P = Range(s)
  PROVE  InOrder(P) = s
  <1>. PICK n \in Nat : n = Len(s)
    OBVIOUS
  <1>1. s \in [1 .. n -> Nat] /\ s \in [1 .. n -> P] /\ P \in SUBSET Nat /\ DOMAIN s = 1 .. n
    BY DEF Range
  <1>2. IsFiniteSet(P) /\ Cardinality(P) = n
    BY <1>1, RisingCounts
  <1>. DEFINE Q(t) == \A i, j \in DOMAIN t : i < j => t[i] < t[j]
  <1>3. s \in [1 .. Cardinality(P) -> P] /\ Q(s)
    BY <1>1, <1>2 DEF Rising
  <1>4. InOrder(P) \in [1 .. Cardinality(P) -> P] /\ Q(InOrder(P))
    BY <1>3 DEF InOrder
  <1>5. PICK t : t = InOrder(P)
    OBVIOUS
  <1>6. t \in [1 .. n -> P] /\ t \in [1 .. n -> Nat] /\ Rising(t)
    BY <1>1, <1>2, <1>4, <1>5 DEF Rising
  <1>7. Cardinality(Range(t)) = n /\ Range(t) \subseteq P
    BY <1>6, RisingCounts DEF Range
  <1>8. Range(t) = P
    BY <1>2, <1>7, FS_Subset
  <1>9. s = t
    BY <1>1, <1>6, <1>8, RisingUnique
  <1>. QED BY <1>5, <1>9

\* Every bounded set has one.
LEMMA Orderable ==
  \A n \in Nat : \A P \in SUBSET (1 .. n) : \E s \in Seq(Nat) : Rising(s) /\ Range(s) = P
  <1>. DEFINE F(P) == \E s \in Seq(Nat) : Rising(s) /\ Range(s) = P
              S == {n \in Nat : \A P \in SUBSET (1 .. n) : F(P)}
  <1>1. 0 \in S
    <2>1. ASSUME NEW P \in SUBSET (1 .. 0) PROVE F(P)
      <3>1. P = {} /\ <<>> \in Seq(Nat) /\ Rising(<<>>) /\ Range(<<>>) = {}
        BY DEF Rising, Range
      <3>. QED BY <3>1
    <2>. QED BY <2>1
  <1>2. ASSUME NEW n \in Nat, n \in S PROVE n + 1 \in S
    <2>1. ASSUME NEW P \in SUBSET (1 .. n + 1) PROVE F(P)
      <3>1. P \ {n + 1} \in SUBSET (1 .. n)
        OBVIOUS
      <3>2. F(P \ {n + 1})
        BY <1>2, <3>1
      <3>3. PICK s \in Seq(Nat) : Rising(s) /\ Range(s) = P \ {n + 1}
        BY <3>2
      <3>4. CASE n + 1 \in P
        <4>1. \A x \in Range(s) : x < n + 1
          <5>1. \A x \in P \ {n + 1} : x \in 1 .. n
            BY <3>1
          <5>2. \A x \in 1 .. n : x < n + 1
            OBVIOUS
          <5>. QED BY <3>3, <5>1, <5>2
        <4>2. Rising(Append(s, n + 1))
          BY <3>3, <4>1, RisingOn
        <4>3. Range(Append(s, n + 1)) = Range(s) \cup {n + 1}
          BY RangeAppend
        <4>4. Append(s, n + 1) \in Seq(Nat) /\ Range(Append(s, n + 1)) = P
          BY <3>3, <3>4, <4>3
        <4>. QED BY <4>2, <4>4
      <3>5. CASE n + 1 \notin P
        <4>1. P \ {n + 1} = P
          BY <3>5
        <4>. QED BY <3>3, <4>1
      <3>. QED BY <3>4, <3>5
    <2>. HIDE DEF F
    <2>. QED BY <2>1
  <1>. HIDE DEF S
  <1>3. Nat \subseteq S
    BY <1>1, <1>2, SetInduction
  <1>. QED BY <1>3 DEF S

LEMMA InOrderFacts ==
  ASSUME NEW N \in Nat, NEW P \in SUBSET (1 .. N)
  PROVE  /\ InOrder(P) \in Seq(Nat) /\ Rising(InOrder(P)) /\ Range(InOrder(P)) = P
         /\ InOrder(P) = <<>> <=> P = {}
  <1>1. PICK s \in Seq(Nat) : Rising(s) /\ Range(s) = P
    BY Orderable
  <1>2. InOrder(P) = s
    BY <1>1, InOrderIs
  <1>3. s = <<>> <=> Range(s) = {}
    <2>1. CASE s = <<>>
      BY <2>1 DEF Range
    <2>2. CASE s # <<>>
      <3>1. 1 \in DOMAIN s
        BY <2>2
      <3>. QED BY <2>2, <3>1 DEF Range
    <2>. QED BY <2>1, <2>2
  <1>. QED BY <1>1, <1>2, <1>3

-----------------------------------------------------------------------------
(* The answer, streamed and whole *)

\* An item says the pieces of its kind and id in order.
LEMMA SaidInOrder ==
  ASSUME NEW its \in Seq(ItemType), NEW N, NEW C, Itemised(its, N, C, TRUE), NEW i \in DOMAIN its
  PROVE  its[i].said = InOrder(Of(its, its[i].kind, its[i].id))
  <1>1. its[i] \in ItemType
    OBVIOUS
  <1>2. its[i].said \in Seq(Nat) /\ Rising(its[i].said)
    <2>1. its[i].said \in Seq(1 .. MaxPieces)
      BY <1>1 DEF ItemType
    <2>2. its[i].said \in Seq(Nat)
      BY <2>1, BoundsAreNat
    <2>3. Rising(its[i].said)
      BY DEF Itemised, Shape
    <2>. QED BY <2>2, <2>3
  <1>3. {j \in DOMAIN its : its[j].kind = its[i].kind /\ its[j].id = its[i].id} = {i}
    BY DEF Itemised, Alone
  <1>4. Of(its, its[i].kind, its[i].id) = Range(its[i].said)
    BY <1>3 DEF Of
  <1>. QED BY <1>2, <1>4, InOrderIs

Shows(kind, P) == If(TRUE, kind, InOrder(P))

LEMMA NoneInOrder ==
  InOrder({}) = <<>>
  BY InOrderFacts

\* The item of text, or of thinking, and the items of calls.
LEMMA PlainShown ==
  ASSUME NEW its \in Seq(ItemType), NEW N, NEW C, Itemised(its, N, C, TRUE),
         NEW kind \in {"text", "thinking"}
  PROVE  {Given(its[i].kind, its[i].id, its[i].said) : i \in {j \in DOMAIN its : its[j].kind = kind}}
            = Shows(kind, Of(its, kind, 0))
  <1>. DEFINE P == Of(its, kind, 0)
              A == {Given(its[i].kind, its[i].id, its[i].said) :
                        i \in {j \in DOMAIN its : its[j].kind = kind}}
  <1>1. \A i \in DOMAIN its : its[i].kind = kind => its[i].id = 0 /\ its[i].said # <<>>
    BY DEF Itemised, Shape
  <1>2. \A i \in DOMAIN its : its[i].kind = kind => its[i].said = InOrder(P)
    BY <1>1, SaidInOrder
  <1>3. A \subseteq Shows(kind, P)
    BY <1>1, <1>2 DEF Shows, If
  <1>4. ASSUME NEW x \in Shows(kind, P) PROVE x \in A
    <2>1. InOrder(P) # <<>> /\ x = Given(kind, 0, InOrder(P))
      BY DEF Shows, If
    <2>2. P # {}
      BY <2>1, NoneInOrder
    <2>3. PICK i \in DOMAIN its : its[i].kind = kind /\ its[i].id = 0
      BY <2>2 DEF Of
    <2>4. x = Given(its[i].kind, its[i].id, its[i].said)
      BY <1>2, <2>1, <2>3
    <2>. QED BY <2>3, <2>4
  <1>. QED BY <1>3, <1>4

LEMMA CallsShown ==
  ASSUME NEW its \in Seq(ItemType), NEW N, NEW C, Itemised(its, N, C, TRUE)
  PROVE  {Given(its[i].kind, its[i].id, its[i].said) : i \in CallItems(its)}
            = {Given("call", c, InOrder(Of(its, "call", c))) : c \in 1 .. C}
  <1>. DEFINE A == {Given(its[i].kind, its[i].id, its[i].said) : i \in CallItems(its)}
              B == {Given("call", c, InOrder(Of(its, "call", c))) : c \in 1 .. C}
  <1>1. {its[i].id : i \in CallItems(its)} = 1 .. C
    BY DEF Itemised
  <1>2. \A i \in CallItems(its) :
           /\ i \in DOMAIN its /\ its[i].kind = "call" /\ its[i].id \in 1 .. C
           /\ its[i].said = InOrder(Of(its, "call", its[i].id))
    BY <1>1, SaidInOrder DEF CallItems
  <1>3. A \subseteq B
    BY <1>2
  <1>4. ASSUME NEW x \in B PROVE x \in A
    <2>1. PICK c \in 1 .. C : x = Given("call", c, InOrder(Of(its, "call", c)))
      OBVIOUS
    <2>2. PICK i \in CallItems(its) : its[i].id = c
      BY <1>1
    <2>3. x = Given(its[i].kind, its[i].id, its[i].said)
      BY <1>2, <2>1, <2>2
    <2>. QED BY <2>3
  <1>. QED BY <1>3, <1>4

StreamedIs(T, H) ==
    StreamedAnswer = Shows("thinking", H) \cup Shows("text", T)
                        \cup {Given("call", c, CallPieces(c)) : c \in 1 .. calls}

\* The pieces of the whole answer are those that were sent.
LEMMA SpokenIs ==
  ASSUME UpType
  PROVE  /\ Spoken("text") = InOrder(SentAs(sent, "text", 0))
         /\ Spoken("thinking") = InOrder(SentAs(sent, "thinking", 0))
         /\ \A c : CallPieces(c) = InOrder(SentAs(sent, "call", c))
         /\ Spoken("text") = <<>> <=> SentAs(sent, "text", 0) = {}
         /\ Spoken("thinking") = <<>> <=> SentAs(sent, "thinking", 0) = {}
  <1>1. \A p \in DOMAIN sent : sent[p].kind # "call" => sent[p].call = 0
    BY DEF UpType
  <1>2. /\ {p \in DOMAIN sent : sent[p].kind = "text"} = SentAs(sent, "text", 0)
        /\ {p \in DOMAIN sent : sent[p].kind = "thinking"} = SentAs(sent, "thinking", 0)
    BY <1>1 DEF SentAs
  <1>3. DOMAIN sent = 1 .. Len(sent) /\ Len(sent) \in Nat
    BY DEF UpType
  <1>4. /\ SentAs(sent, "text", 0) \in SUBSET (1 .. Len(sent))
        /\ SentAs(sent, "thinking", 0) \in SUBSET (1 .. Len(sent))
    BY <1>3 DEF SentAs
  <1>5. /\ Spoken("text") = InOrder(SentAs(sent, "text", 0))
        /\ Spoken("thinking") = InOrder(SentAs(sent, "thinking", 0))
    BY <1>2 DEF Spoken
  <1>6. \A c : CallPieces(c) = InOrder(SentAs(sent, "call", c))
    BY DEF CallPieces, SentAs
  <1>. QED BY <1>3, <1>4, <1>5, <1>6, InOrderFacts

\* A complete stream shows what the items tell.
LEMMA StreamShows ==
  ASSUME UpType, item \in Seq(ItemType), Itemised(item, Len(sent), calls, TRUE),
         Tells(item, sent, calls, TRUE)
  PROVE  StreamedIs(Of(item, "text", 0), Of(item, "thinking", 0))
  <1>. DEFINE g(i) == Given(item[i].kind, item[i].id, item[i].said)
              All(kind) == {g(i) : i \in {j \in DOMAIN item : item[j].kind = kind}}
  <1>1. StreamedAnswer = All("thinking") \cup All("text") \cup {g(i) : i \in CallItems(item)}
    <2>1. \A i \in DOMAIN item : item[i].kind \in {"text", "thinking", "call"}
      <3>1. \A i \in DOMAIN item : item[i] \in ItemType
        OBVIOUS
      <3>. QED BY <3>1 DEF ItemType, Slot
    <2>2. DOMAIN item = {j \in DOMAIN item : item[j].kind = "thinking"}
                          \cup {j \in DOMAIN item : item[j].kind = "text"} \cup CallItems(item)
      BY <2>1 DEF CallItems
    <2>3. StreamedAnswer = {g(i) : i \in DOMAIN item}
      BY DEF StreamedAnswer
    <2>. HIDE DEF g
    <2>. QED BY <2>2, <2>3
  <1>2. /\ All("thinking") = Shows("thinking", Of(item, "thinking", 0))
        /\ All("text") = Shows("text", Of(item, "text", 0))
    BY PlainShown
  <1>3. {g(i) : i \in CallItems(item)}
           = {Given("call", c, InOrder(Of(item, "call", c))) : c \in 1 .. calls}
    BY CallsShown
  <1>4. \A c \in 1 .. calls : InOrder(Of(item, "call", c)) = CallPieces(c)
    BY SpokenIs DEF Tells
  <1>5. {Given("call", c, InOrder(Of(item, "call", c))) : c \in 1 .. calls}
           = {Given("call", c, CallPieces(c)) : c \in 1 .. calls}
    BY <1>4
  <1>. HIDE DEF All, g
  <1>. QED BY <1>1, <1>2, <1>3, <1>5 DEF StreamedIs

\* What an answer of the other kind holds.
AnswerIs(r, text, thinking, cs, recovered) ==
    r.text = text /\ r.thinking = thinking /\ r.calls = cs /\ r.recovered = recovered

Complete ==
    /\ UpType /\ dialect \in Dialect /\ protocol \in Api
    /\ TextIs(sent, Of(item, "text", 0)) /\ ThinkingIs(sent, Of(item, "thinking", 0))
    /\ StreamedIs(Of(item, "text", 0), Of(item, "thinking", 0))

LEMMA CallsSentIs ==
  ASSUME calls \in Nat
  PROVE  /\ CallsSent = <<>> <=> calls = 0
         /\ \A r : r.calls = CallsSent
                => GivenCalls(r) = {Given("call", c, CallPieces(c)) : c \in 1 .. calls}
         /\ \A r : r.calls = <<>> => GivenCalls(r) = {}
  <1>1. DOMAIN CallsSent = 1 .. calls /\ \A c \in 1 .. calls : CallsSent[c] = CallPieces(c)
    BY DEF CallsSent
  <1>2. calls = 0 => CallsSent = <<>>
    BY DEF CallsSent
  <1>3. calls # 0 => CallsSent # <<>>
    <2>1. calls # 0 => 1 \in DOMAIN CallsSent
      BY <1>1
    <2>. QED BY <2>1
  <1>4. \A r : r.calls = CallsSent
                => GivenCalls(r) = {Given("call", c, CallPieces(c)) : c \in 1 .. calls}
    BY <1>1 DEF GivenCalls
  <1>5. \A r : r.calls = <<>> => GivenCalls(r) = {}
    BY DEF GivenCalls
  <1>. QED BY <1>2, <1>3, <1>4, <1>5

\* An answer of thinking alone, which is made its text.
LEMMA PromotedAgrees ==
  ASSUME Complete, ~ModesDiffer, OnlyThinking
  PROVE  StreamedAnswer = WholeAnswer
  <1>. DEFINE h == Spoken("thinking")
  <1>0. calls \in Nat /\ calls = 0 /\ Spoken("text") = <<>> /\ h # <<>>
    BY DEF Complete, UpType, OnlyThinking
  <1>1. /\ SentAs(sent, "text", 0) = {} /\ SentAs(sent, "thinking", 0) # {}
        /\ h = InOrder(SentAs(sent, "thinking", 0))
    BY <1>0, SpokenIs DEF Complete
  <1>2. dialect \in Compatible
    <2>1. dialect # "ollama"
      BY <1>1 DEF Complete, UpType, SentAs
    <2>2. dialect # "anthropic" /\ dialect # "gemini"
      BY <1>0 DEF ModesDiffer
    <2>. QED BY <2>1, <2>2, StreamAssumption DEF Complete, StreamAssumption, Compatible
  <1>3. ~(strip /\ protocol = "messages")
    BY DEF ModesDiffer
  <1>4. Of(item, "thinking", 0) = {} /\ Of(item, "text", 0) = IF strip THEN {} ELSE SentAs(sent, "thinking", 0)
    BY <1>1, <1>2 DEF Complete, TextIs, ThinkingIs
  <1>5. AnswerIs(Normalized, h, <<>>, <<>>, TRUE)
    <2>1. CallsSent = <<>>
      BY <1>0, CallsSentIs
    <2>. HIDE DEF h
    <2>2. NormalizeCompatible.text = <<>> /\ NormalizeCompatible.calls = <<>>
          /\ NormalizeCompatible.thinking = h
      BY <1>0, <2>1 DEF NormalizeCompatible, h
    <2>3. Normalized = Recover(NormalizeCompatible)
      BY <1>2 DEF Normalized, Compatible
    <2>. QED BY <1>0, <2>2, <2>3 DEF Recover, AnswerIs
  <1>6. GivenCalls(Normalized) = {}
    BY <1>0, <1>5, CallsSentIs DEF AnswerIs
  <1>. DEFINE shown == IF strip THEN {} ELSE {Given("text", 0, h)}
  <1>7. StreamedAnswer = shown
    <2>1. {Given("call", c, CallPieces(c)) : c \in 1 .. calls} = {}
      BY <1>0
    <2>2. Shows("thinking", {}) = {}
      BY NoneInOrder DEF Shows, If
    <2>3. Shows("text", Of(item, "text", 0)) = shown
      BY <1>0, <1>1, <1>4, NoneInOrder DEF Shows, If
    <2>. QED BY <1>4, <2>1, <2>2, <2>3 DEF Complete, StreamedIs
  <1>8. WholeAnswer = shown
    <2>1. If(~strip, "thinking", Normalized.thinking) = {}
      BY <1>5 DEF If, AnswerIs
    <2>2. If(TRUE, "text", Normalized.text) = {Given("text", 0, h)}
      BY <1>0, <1>5 DEF If, AnswerIs
    <2>3. If(~(strip /\ Normalized.recovered), "text", Normalized.text) = shown
      BY <1>0, <1>5 DEF If, AnswerIs
    <2>. HIDE DEF h
    <2>4. protocol \in Api
      BY DEF Complete
    <2>. QED BY <1>3, <1>6, <2>1, <2>2, <2>3, <2>4
         DEF WholeAnswer, MessagePayload, ResponsesOutput, ChatBody, Api
  <1>. QED BY <1>7, <1>8

\* Every other answer.
LEMMA PlainAgrees ==
  ASSUME Complete, ~ModesDiffer, ~OnlyThinking
  PROVE  StreamedAnswer = WholeAnswer
  <1>. DEFINE t == Spoken("text")  h == Spoken("thinking")
              T == SentAs(sent, "text", 0)  H == SentAs(sent, "thinking", 0)
              K == {Given("call", c, CallPieces(c)) : c \in 1 .. calls}
              h2 == IF dialect \in {"gemini", "ollama"} THEN <<>> ELSE h
  <1>0. /\ calls \in Nat /\ UpType /\ protocol \in {"messages", "responses", "chat"}
        /\ dialect \in {"openai", "unindexed", "anthropic", "gemini", "ollama"}
    BY StreamAssumption DEF Complete, UpType, Api, StreamAssumption
  <1>1. t = InOrder(T) /\ h = InOrder(H) /\ (t = <<>> <=> T = {}) /\ (h = <<>> <=> H = {})
    BY <1>0, SpokenIs
  <1>2. H # {} /\ dialect \in Compatible => strip
    BY <1>1 DEF ModesDiffer
  <1>3. dialect \in {"gemini", "ollama"} => H = {}
    <2>1. dialect = "ollama" => H = {}
      BY <1>0 DEF UpType, SentAs
    <2>2. dialect = "gemini" => H = {}
      BY <1>1 DEF ModesDiffer
    <2>. QED BY <2>1, <2>2
  <1>4. Of(item, "text", 0) = T
    BY <1>0, <1>2, <1>3 DEF Complete, TextIs, Compatible
  <1>5. Of(item, "thinking", 0) = IF strip \/ protocol = "responses" THEN {} ELSE H
    BY <1>0, <1>2, <1>3 DEF Complete, ThinkingIs, Compatible
  <1>6. AnswerIs(Normalized, t, h2, CallsSent, FALSE) /\ h2 = h
    <2>1. h2 = h
      BY <1>1, <1>3
    <2>2. ~(t = <<>> /\ CallsSent = <<>> /\ h # <<>>)
      BY <1>0, CallsSentIs DEF OnlyThinking
    <2>3. \A r : r.text = t /\ r.thinking = h2 /\ r.calls = CallsSent
                   => AnswerIs(Recover(r), t, h2, CallsSent, FALSE)
      BY <2>1, <2>2 DEF Recover, AnswerIs
    <2>4. \E r : Normalized = Recover(r) /\ r.text = t /\ r.thinking = h2 /\ r.calls = CallsSent
      <3>1. CASE dialect \in Compatible
        BY <3>1 DEF Normalized, NormalizeCompatible, Compatible
      <3>2. CASE dialect = "anthropic"
        BY <3>2 DEF Normalized, NormalizeAnthropic, Compatible
      <3>3. CASE dialect = "gemini"
        BY <3>3 DEF Normalized, NormalizeGemini, Compatible
      <3>4. CASE dialect = "ollama"
        BY <3>4 DEF Normalized, NormalizeOllama, Compatible
      <3>. QED BY <1>0, <3>1, <3>2, <3>3, <3>4 DEF Compatible
    <2>. HIDE DEF t, h, h2
    <2>. QED BY <2>1, <2>3, <2>4
  <1>7. GivenCalls(Normalized) = K
    BY <1>0, <1>6, CallsSentIs DEF AnswerIs
  <1>. DEFINE A == If(TRUE, "text", t)
              B == IF strip \/ protocol = "responses" THEN {} ELSE If(TRUE, "thinking", h)
  <1>8. StreamedAnswer = B \cup A \cup K
    <2>1. Shows("text", T) = A
      BY <1>1 DEF Shows
    <2>2. Shows("thinking", Of(item, "thinking", 0)) = B
      BY <1>1, <1>5, NoneInOrder DEF Shows, If
    <2>. HIDE DEF A, B, K, T, H, t, h, h2
    <2>3. StreamedAnswer = Shows("thinking", Of(item, "thinking", 0)) \cup Shows("text", T) \cup K
      BY <1>4 DEF Complete, StreamedIs, K
    <2>. QED BY <2>1, <2>2, <2>3
  <1>9. WholeAnswer = B \cup A \cup K
    <2>1. If(~(strip /\ Normalized.recovered), "text", Normalized.text) = A
          /\ If(TRUE, "text", Normalized.text) = A
      BY <1>6 DEF If, AnswerIs
    <2>2. protocol # "responses" => If(~strip, "thinking", Normalized.thinking) = B
      BY <1>6 DEF If, AnswerIs
    <2>3. protocol = "responses" => B = {}
      OBVIOUS
    <2>. HIDE DEF A, B, K, T, H, t, h, h2
    <2>. QED BY <1>0, <1>7, <2>1, <2>2, <2>3 DEF WholeAnswer, MessagePayload, ResponsesOutput, ChatBody
  <1>. QED BY <1>8, <1>9

\* The items of a streamed answer are those of the same answer not streamed, but for the cases
\* of ModesDiffer.
THEOREM StreamsAgree == TurnSpec => []StreamingIsNoDifferent
  <1>1. TurnInv => StreamingIsNoDifferent
    <2>. SUFFICES ASSUME TurnInv, ended = "completed", ~ModesDiffer
                  PROVE  StreamedAnswer = WholeAnswer
      BY DEF StreamingIsNoDifferent, ModesAgree
    <2>1. /\ UpType /\ item \in Seq(ItemType) /\ Telling(item)
          /\ dialect \in Dialect /\ protocol \in Api
      BY DEF TurnInv, StreamInv
    <2>2. (bursts <= 1) = TRUE
      BY <2>1 DEF ModesDiffer, UpType
    <2>3. Itemised(item, Len(sent), calls, TRUE) /\ Tells(item, sent, calls, TRUE)
      BY <2>1, <2>2 DEF Telling
    <2>4. Complete
      BY <2>1, <2>3, StreamShows DEF Complete, Tells
    <2>. QED BY <2>4, PromotedAgrees, PlainAgrees
  <1>. QED BY <1>1, StreamsStaySound, PTL

-----------------------------------------------------------------------------
(* Transcripts (ChatHistory), for any number of items, any budgets and costs. *)

-----------------------------------------------------------------------------
(* Rounds of calls and answers *)

\* Only an assistant calls.
MessageType == {m \in [role : {"system", "user", "assistant", "tool", "orphan"}, calls : Seq(Nat),
                       answers : Nat, item : Nat, image : BOOLEAN] :
                   m.calls # <<>> => m.role = "assistant"}
Plain == {m \in MessageType : m.role = "user"}

AllTools(ms, i) == \A k \in (i + 1) .. Len(ms) : ms[k].role = "tool"
AnswersOf(ms, i) == {ms[j].answers : j \in AnswersAfter(ms, i)}

Once(ms, i) == \A j, k \in AnswersAfter(ms, i) : ms[j].answers = ms[k].answers => j = k

\* A history in which all is well but for the calls of its last round, of which those in O
\* have still to be answered.
Half(ms, O) ==
    /\ \A i \in DOMAIN ms : ms[i].role # "tool" =>
          /\ AllTools(ms, i) => /\ AnswersOf(ms, i) \cup O = ToSet(ms[i].calls)
                                /\ AnswersOf(ms, i) \cap O = {}
          /\ ~AllTools(ms, i) => AnswersOf(ms, i) = ToSet(ms[i].calls)
          /\ Once(ms, i)
    /\ ms # <<>> => ms[1].role # "tool"
    /\ ms = <<>> => O = {}

LEMMA HalfIsStrict ==
  ASSUME NEW ms \in Seq(MessageType)
  PROVE  Half(ms, {}) <=> Strict(ms)
  <1>1. ms # <<>> => Head(ms) = ms[1]
    OBVIOUS
  <1>. QED BY <1>1 DEF Half, Once, Strict, AnswersOf

\* What follows a message does not depend on what is before it.
LEMMA Shift ==
  ASSUME NEW r \in Seq(MessageType), NEW t \in Seq(MessageType), NEW n \in Nat, Len(r) = n + Len(t),
         \A i \in 1 .. Len(t) : r[n + i] = t[i], NEW i \in 1 .. Len(t)
  PROVE  /\ AllTools(r, n + i) <=> AllTools(t, i)
         /\ AnswersOf(r, n + i) = AnswersOf(t, i)
         /\ Once(r, n + i) <=> Once(t, i)
  <1>0. Len(r) \in Nat /\ Len(t) \in Nat
    OBVIOUS
  <1>1. \A k \in (n + i + 1) .. Len(r) : k - n \in (i + 1) .. Len(t) /\ r[k] = t[k - n]
    <2>. SUFFICES ASSUME NEW k \in (n + i + 1) .. Len(r) PROVE k - n \in (i + 1) .. Len(t) /\ r[k] = t[k - n]
      OBVIOUS
    <2>1. k - n \in (i + 1) .. Len(t) /\ n + (k - n) = k
      BY <1>0
    <2>. QED BY <1>0, <2>1
  <1>2. \A k \in (i + 1) .. Len(t) : n + k \in (n + i + 1) .. Len(r) /\ r[n + k] = t[k]
    BY <1>0
  <1>3. AllTools(r, n + i) <=> AllTools(t, i)
    BY <1>1, <1>2 DEF AllTools
  <1>4. ASSUME NEW j \in AnswersAfter(r, n + i) PROVE j - n \in AnswersAfter(t, i) /\ r[j] = t[j - n]
    <2>1. j \in (n + i + 1) .. Len(r) /\ \A k \in (n + i + 1) .. j : r[k].role = "tool"
      BY <1>4 DEF AnswersAfter
    <2>2. ASSUME NEW k \in (i + 1) .. (j - n) PROVE t[k].role = "tool"
      <3>1. k \in (i + 1) .. Len(t) /\ n + k \in (n + i + 1) .. j
        BY <1>0, <2>1
      <3>. QED BY <1>2, <2>1, <3>1
    <2>. QED BY <1>1, <2>1, <2>2 DEF AnswersAfter
  <1>5. ASSUME NEW j \in AnswersAfter(t, i) PROVE n + j \in AnswersAfter(r, n + i) /\ r[n + j] = t[j]
    <2>1. j \in (i + 1) .. Len(t) /\ \A k \in (i + 1) .. j : t[k].role = "tool"
      BY <1>5 DEF AnswersAfter
    <2>2. ASSUME NEW k \in (n + i + 1) .. (n + j) PROVE r[k].role = "tool"
      <3>1. k \in (n + i + 1) .. Len(r) /\ k - n \in (i + 1) .. j
        BY <1>0, <2>1
      <3>. QED BY <1>1, <2>1, <3>1
    <2>. QED BY <1>2, <2>1, <2>2 DEF AnswersAfter
  <1>6. AnswersOf(r, n + i) = AnswersOf(t, i)
    <2>1. ASSUME NEW x \in AnswersOf(r, n + i) PROVE x \in AnswersOf(t, i)
      BY <1>4, <2>1 DEF AnswersOf
    <2>2. ASSUME NEW x \in AnswersOf(t, i) PROVE x \in AnswersOf(r, n + i)
      BY <1>5, <2>2 DEF AnswersOf
    <2>. QED BY <2>1, <2>2
  <1>7. ASSUME NEW j \in AnswersAfter(r, n + i) PROVE j \in Int /\ n + (j - n) = j
    BY <1>0 DEF AnswersAfter
  <1>8. ASSUME NEW j \in AnswersAfter(t, i) PROVE j \in Int /\ (n + j) - n = j
    BY <1>0 DEF AnswersAfter
  <1>9. ASSUME Once(t, i),
               NEW j \in AnswersAfter(r, n + i), NEW k \in AnswersAfter(r, n + i), r[j].answers = r[k].answers
        PROVE  j = k
    <2>1. j - n = k - n
      BY <1>4, <1>9 DEF Once
    <2>. QED BY <1>7, <2>1
  <1>10. ASSUME Once(r, n + i),
                NEW j \in AnswersAfter(t, i), NEW k \in AnswersAfter(t, i), t[j].answers = t[k].answers
         PROVE  j = k
    <2>1. /\ n + j \in AnswersAfter(r, n + i) /\ r[n + j] = t[j]
          /\ n + k \in AnswersAfter(r, n + i) /\ r[n + k] = t[k]
      BY <1>5, <1>10
    <2>2. n + j = n + k
      BY <1>10, <2>1 DEF Once
    <2>. QED BY <1>8, <2>2
  <1>. QED BY <1>3, <1>6, <1>9, <1>10 DEF Once

\* A history goes on with another.
LEMMA HalfConcat ==
  ASSUME NEW ms \in Seq(MessageType), NEW t \in Seq(MessageType), NEW O, Half(ms, {}), Half(t, O)
  PROVE  Half(ms \o t, O)
  <1>. DEFINE r == ms \o t
              n == Len(ms)
  <1>0. /\ n \in Nat /\ Len(t) \in Nat /\ Len(r) = n + Len(t)
        /\ \A i \in 1 .. n : r[i] = ms[i]
        /\ \A i \in 1 .. Len(t) : r[n + i] = t[i]
        /\ r \in Seq(MessageType) /\ DOMAIN r = 1 .. Len(r) /\ DOMAIN ms = 1 .. n /\ DOMAIN t = 1 .. Len(t)
    OBVIOUS
  <1>1. CASE t = <<>>
    <2>1. r = ms /\ O = {}
      BY <1>1 DEF Half, Once
    <2>. QED BY <2>1
  <1>2. CASE t # <<>>
    <2>0. r[n + 1] = t[1] /\ t[1].role # "tool" /\ n + 1 \in 1 .. Len(r)
      BY <1>0, <1>2 DEF Half, Once
    <2>. HIDE DEF r, n
    <2>1. ASSUME NEW i \in 1 .. n, r[i].role # "tool"
          PROVE  /\ ~AllTools(r, i)
                 /\ AnswersOf(r, i) = ToSet(r[i].calls)
                 /\ Once(r, i)
      <3>1. AnswersAfter(r, i) = AnswersAfter(ms, i)
        <4>1. ASSUME NEW j \in AnswersAfter(r, i) PROVE j \in AnswersAfter(ms, i)
          <5>1. j < n + 1
            BY <1>0, <2>0, <4>1 DEF AnswersAfter
          <5>. QED BY <1>0, <4>1, <5>1 DEF AnswersAfter, n
        <4>2. ASSUME NEW j \in AnswersAfter(ms, i) PROVE j \in AnswersAfter(r, i)
          <5>1. j \in (i + 1) .. n /\ \A k \in (i + 1) .. j : ms[k].role = "tool"
            BY <1>0, <4>2 DEF AnswersAfter, n
          <5>2. \A k \in (i + 1) .. j : k \in 1 .. n
            BY <1>0, <5>1
          <5>3. \A k \in (i + 1) .. j : r[k].role = "tool"
            BY <1>0, <5>1, <5>2
          <5>4. j \in (i + 1) .. Len(r)
            BY <1>0, <5>1
          <5>. QED BY <5>3, <5>4 DEF AnswersAfter
        <4>. QED BY <4>1, <4>2
      <3>2. \A j \in AnswersAfter(ms, i) : r[j] = ms[j]
        BY <1>0 DEF AnswersAfter, n
      <3>3. AnswersOf(r, i) = AnswersOf(ms, i)
        BY <3>1, <3>2 DEF AnswersOf
      <3>4. ms[i] = r[i] /\ i \in DOMAIN ms
        BY <1>0
      <3>5. AnswersOf(ms, i) = ToSet(ms[i].calls)
        BY <2>1, <3>4 DEF Half, Once
      <3>6. \A j, k \in AnswersAfter(ms, i) : ms[j].answers = ms[k].answers => j = k
        BY <2>1, <3>4 DEF Half, Once
      <3>7. ~AllTools(r, i)
        BY <1>0, <2>0 DEF AllTools
      <3>. QED BY <3>1, <3>2, <3>3, <3>4, <3>5, <3>6, <3>7 DEF Once
    <2>2. ASSUME NEW i \in 1 .. Len(t), t[i].role # "tool"
          PROVE  /\ AllTools(r, n + i) <=> AllTools(t, i)
                 /\ AnswersOf(r, n + i) = AnswersOf(t, i)
                 /\ Once(r, n + i)
      <3>1. Once(t, i)
        BY <1>0, <2>2 DEF Half
      <3>. QED BY <1>0, <3>1, Shift
    <2>3. ASSUME NEW i \in DOMAIN r, r[i].role # "tool"
          PROVE  /\ AllTools(r, i) => /\ AnswersOf(r, i) \cup O = ToSet(r[i].calls)
                                      /\ AnswersOf(r, i) \cap O = {}
                 /\ ~AllTools(r, i) => AnswersOf(r, i) = ToSet(r[i].calls)
                 /\ Once(r, i)
      <3>1. CASE i \in 1 .. n
        BY <2>1, <2>3, <3>1
      <3>2. CASE i \notin 1 .. n
        <4>1. i - n \in 1 .. Len(t) /\ i = n + (i - n)
          BY <1>0, <3>2
        <4>. DEFINE l == i - n
        <4>2. l \in 1 .. Len(t) /\ r[i] = t[l] /\ i = n + l
          BY <1>0, <4>1
        <4>. HIDE DEF l
        <4>3. /\ AllTools(t, l) => AnswersOf(t, l) \cup O = ToSet(t[l].calls) /\ AnswersOf(t, l) \cap O = {}
              /\ ~AllTools(t, l) => AnswersOf(t, l) = ToSet(t[l].calls)
          BY <1>0, <2>3, <4>2 DEF Half, Once
        <4>. QED BY <2>2, <2>3, <4>2, <4>3
      <3>. QED BY <3>1, <3>2
    <2>4. r # <<>> /\ r[1].role # "tool"
      <3>1. CASE ms = <<>>
        <4>1. n = 0
          BY <3>1 DEF n
        <4>. QED BY <1>0, <2>0, <4>1
      <3>2. CASE ms # <<>>
        <4>1. 1 \in 1 .. n /\ ms[1].role # "tool"
          BY <1>0, <3>2 DEF Half, Once, n
        <4>. QED BY <1>0, <4>1
      <3>. QED BY <3>1, <3>2
    <2>5. Half(r, O)
      BY <2>3, <2>4 DEF Half, Once
    <2>. QED BY <2>5 DEF r
  <1>. QED BY <1>1, <1>2

\* Tools answer some of the open calls, each once.
LEMMA HalfTools ==
  ASSUME NEW ms \in Seq(MessageType), NEW t \in Seq(MessageType), NEW O, Half(ms, O),
         \A j \in DOMAIN t : t[j].role = "tool" /\ t[j].answers \in O,
         \A j, k \in DOMAIN t : t[j].answers = t[k].answers => j = k
  PROVE  Half(ms \o t, O \ {t[j].answers : j \in DOMAIN t})
  <1>. DEFINE r == ms \o t
              n == Len(ms)
              Q == {t[j].answers : j \in DOMAIN t}
  <1>0. /\ n \in Nat /\ Len(t) \in Nat /\ Len(r) = n + Len(t)
        /\ \A i \in 1 .. n : r[i] = ms[i]
        /\ \A i \in 1 .. Len(t) : r[n + i] = t[i]
        /\ r \in Seq(MessageType) /\ DOMAIN r = 1 .. Len(r) /\ DOMAIN ms = 1 .. n /\ DOMAIN t = 1 .. Len(t)
    OBVIOUS
  <1>1. CASE t = <<>>
    <2>1. r = ms /\ O \ Q = O
      BY <1>0, <1>1
    <2>. QED BY <2>1
  <1>2. CASE t # <<>>
    <2>0. n > 0 /\ r # <<>> /\ r[1] = ms[1] /\ r[1].role # "tool"
      <3>1. 1 \in DOMAIN t
        BY <1>0, <1>2
      <3>2. O # {}
        BY <3>1
      <3>. QED BY <1>0, <3>2 DEF Half, Once
    <2>. HIDE DEF r, n
    <2>1. \A k \in (n + 1) .. Len(r) : k - n \in 1 .. Len(t) /\ r[k] = t[k - n] /\ r[k].role = "tool"
      <3>. SUFFICES ASSUME NEW k \in (n + 1) .. Len(r)
                    PROVE  k - n \in 1 .. Len(t) /\ r[k] = t[k - n] /\ r[k].role = "tool"
        OBVIOUS
      <3>1. k - n \in 1 .. Len(t) /\ n + (k - n) = k
        BY <1>0
      <3>. QED BY <1>0, <3>1
    <2>2. ASSUME NEW i \in 1 .. n, ms[i].role # "tool", AllTools(ms, i)
          PROVE  /\ AllTools(r, i)
                 /\ AnswersOf(r, i) = AnswersOf(ms, i) \cup Q
                 /\ Once(r, i)
      <3>1. \A k \in (i + 1) .. Len(r) : r[k].role = "tool"
        BY <1>0, <2>1, <2>2 DEF AllTools, n
      <3>2. AnswersAfter(r, i) = (i + 1) .. Len(r) /\ AnswersAfter(ms, i) = (i + 1) .. n
        BY <1>0, <2>2, <3>1 DEF AnswersAfter, AllTools, n
      <3>3. ASSUME NEW x \in AnswersOf(r, i) PROVE x \in AnswersOf(ms, i) \cup Q
        <4>1. PICK j \in (i + 1) .. Len(r) : x = r[j].answers
          BY <3>2, <3>3 DEF AnswersOf
        <4>2. CASE j \in (i + 1) .. n
          <5>1. r[j] = ms[j]
            BY <1>0, <4>2
          <5>. QED BY <3>2, <4>1, <4>2, <5>1 DEF AnswersOf
        <4>3. CASE j \notin (i + 1) .. n
          <5>1. j \in (n + 1) .. Len(r)
            BY <1>0, <4>3
          <5>. QED BY <1>0, <2>1, <4>1, <5>1
        <4>. QED BY <4>2, <4>3
      <3>4. ASSUME NEW x \in AnswersOf(ms, i) \cup Q PROVE x \in AnswersOf(r, i)
        <4>1. CASE x \in AnswersOf(ms, i)
          <5>1. PICK j \in (i + 1) .. n : x = ms[j].answers
            BY <3>2, <4>1 DEF AnswersOf
          <5>2. j \in (i + 1) .. Len(r) /\ r[j] = ms[j]
            BY <1>0
          <5>. QED BY <3>2, <5>1, <5>2 DEF AnswersOf
        <4>2. CASE x \in Q
          <5>1. PICK j \in 1 .. Len(t) : x = t[j].answers
            BY <1>0, <4>2
          <5>2. n + j \in (i + 1) .. Len(r) /\ r[n + j] = t[j]
            BY <1>0
          <5>. QED BY <3>2, <5>1, <5>2 DEF AnswersOf
        <4>. QED BY <4>1, <4>2
      <3>5. ASSUME NEW j \in (i + 1) .. Len(r), NEW k \in (i + 1) .. Len(r), r[j].answers = r[k].answers
            PROVE  j = k
        <4>0. /\ AnswersOf(ms, i) \cap O = {}
              /\ \A a, b \in AnswersAfter(ms, i) : ms[a].answers = ms[b].answers => a = b
          BY <1>0, <2>2 DEF Half, Once
        <4>1. ASSUME NEW l \in (i + 1) .. n PROVE r[l] = ms[l] /\ ms[l].answers \in AnswersOf(ms, i)
          <5>1. l \in AnswersAfter(ms, i) /\ l \in 1 .. n
            BY <1>0, <3>2
          <5>. QED BY <1>0, <5>1 DEF AnswersOf
        <4>2. ASSUME NEW l \in (n + 1) .. Len(r) PROVE l - n \in DOMAIN t /\ r[l].answers \in O
          <5>1. l - n \in DOMAIN t /\ r[l] = t[l - n]
            BY <1>0, <2>1
          <5>2. t[l - n].answers \in O
            BY <5>1
          <5>. QED BY <5>1, <5>2
        <4>3. CASE j \in (i + 1) .. n /\ k \in (i + 1) .. n
          BY <3>2, <3>5, <4>0, <4>1, <4>3
        <4>4. CASE j \in (n + 1) .. Len(r) /\ k \in (n + 1) .. Len(r)
          <5>1. j - n = k - n
            BY <2>1, <3>5, <4>2, <4>4
          <5>. QED BY <1>0, <5>1
        <4>5. CASE j \in (i + 1) .. n /\ k \in (n + 1) .. Len(r)
          BY <3>5, <4>0, <4>1, <4>2, <4>5
        <4>6. CASE k \in (i + 1) .. n /\ j \in (n + 1) .. Len(r)
          BY <3>5, <4>0, <4>1, <4>2, <4>6
        <4>. QED BY <1>0, <4>3, <4>4, <4>5, <4>6
      <3>. QED BY <3>1, <3>2, <3>3, <3>4, <3>5 DEF AllTools, Once
    <2>3. ASSUME NEW i \in 1 .. n, ms[i].role # "tool", ~AllTools(ms, i)
          PROVE  /\ ~AllTools(r, i)
                 /\ AnswersOf(r, i) = AnswersOf(ms, i)
                 /\ Once(r, i)
      <3>1. PICK l \in (i + 1) .. n : ms[l].role # "tool"
        BY <2>3 DEF AllTools, n
      <3>2. l \in (i + 1) .. Len(r) /\ r[l].role # "tool"
        BY <1>0, <3>1
      <3>3. AnswersAfter(r, i) = AnswersAfter(ms, i)
        <4>0. l \in Int /\ l <= n /\ i \in Int /\ n <= Len(r) /\ Len(ms) = n
          BY <1>0, <3>1 DEF n
        <4>1. ASSUME NEW j \in AnswersAfter(r, i) PROVE j \in AnswersAfter(ms, i)
          <5>0. j \in (i + 1) .. Len(r) /\ \A k \in (i + 1) .. j : r[k].role = "tool"
            BY <4>1 DEF AnswersAfter
          <5>1. j < l
            BY <1>0, <3>1, <3>2, <4>0, <5>0
          <5>2. \A k \in (i + 1) .. j : k \in 1 .. n
            BY <1>0, <4>0, <5>0, <5>1
          <5>3. \A k \in (i + 1) .. j : ms[k].role = "tool"
            BY <1>0, <5>0, <5>2
          <5>. QED BY <1>0, <4>0, <5>0, <5>1, <5>3 DEF AnswersAfter
        <4>2. ASSUME NEW j \in AnswersAfter(ms, i) PROVE j \in AnswersAfter(r, i)
          <5>0. j \in (i + 1) .. n /\ \A k \in (i + 1) .. j : ms[k].role = "tool"
            BY <4>0, <4>2 DEF AnswersAfter
          <5>1. \A k \in (i + 1) .. j : k \in 1 .. n
            BY <1>0, <4>0, <5>0
          <5>2. \A k \in (i + 1) .. j : r[k].role = "tool"
            BY <1>0, <5>0, <5>1
          <5>. QED BY <1>0, <4>0, <5>0, <5>2 DEF AnswersAfter
        <4>. QED BY <4>1, <4>2
      <3>4. \A j \in AnswersAfter(ms, i) : r[j] = ms[j]
        BY <1>0 DEF AnswersAfter, n
      <3>5. \A j, k \in AnswersAfter(ms, i) : ms[j].answers = ms[k].answers => j = k
        BY <1>0, <2>3 DEF Half, Once
      <3>. QED BY <3>2, <3>3, <3>4, <3>5 DEF AnswersOf, AllTools, Once
    <2>4. ASSUME NEW i \in DOMAIN r, r[i].role # "tool"
          PROVE  /\ AllTools(r, i) => /\ AnswersOf(r, i) \cup (O \ Q) = ToSet(r[i].calls)
                                      /\ AnswersOf(r, i) \cap (O \ Q) = {}
                 /\ ~AllTools(r, i) => AnswersOf(r, i) = ToSet(r[i].calls)
                 /\ Once(r, i)
      <3>1. i \in 1 .. n /\ r[i] = ms[i]
        BY <1>0, <2>1, <2>4
      <3>2. /\ AllTools(ms, i) => AnswersOf(ms, i) \cup O = ToSet(ms[i].calls) /\ AnswersOf(ms, i) \cap O = {}
            /\ ~AllTools(ms, i) => AnswersOf(ms, i) = ToSet(ms[i].calls)
        BY <1>0, <2>4, <3>1 DEF Half, Once
      <3>3. Q \subseteq O
        OBVIOUS
      <3>. HIDE DEF Q
      <3>4. CASE AllTools(ms, i)
        BY <2>2, <2>4, <3>1, <3>2, <3>3, <3>4
      <3>5. CASE ~AllTools(ms, i)
        BY <2>3, <2>4, <3>1, <3>2, <3>5
      <3>. QED BY <3>4, <3>5
    <2>5. Half(r, O \ Q)
      BY <2>0, <2>4 DEF Half, Once
    <2>. QED BY <2>5 DEF r
  <1>. QED BY <1>1, <1>2

\* Messages that neither call nor answer.
LEMMA HalfPlain ==
  ASSUME NEW ms \in Seq(MessageType), \A i \in DOMAIN ms : ms[i].role # "tool" /\ ms[i].calls = <<>>
  PROVE  Half(ms, {})
  <1>1. ASSUME NEW i \in DOMAIN ms PROVE AnswersAfter(ms, i) = {} /\ ToSet(ms[i].calls) = {}
    BY DEF AnswersAfter, ToSet
  <1>2. ms # <<>> => 1 \in DOMAIN ms
    OBVIOUS
  <1>. QED BY <1>1, <1>2 DEF Half, Once, AnswersOf

LEMMA HalfOne ==
  ASSUME NEW m \in MessageType, m.role # "tool"
  PROVE  Half(<<m>>, ToSet(m.calls))
  <1>1. Len(<<m>>) = 1 /\ <<m>>[1] = m /\ DOMAIN <<m>> = 1 .. 1
    OBVIOUS
  <1>2. AnswersAfter(<<m>>, 1) = {}
    BY <1>1 DEF AnswersAfter
  <1>. QED BY <1>1, <1>2 DEF Half, Once, AnswersOf, AllTools

\* An end of a history that begins with a message other than a tool's.
LEMMA HalfSuffix ==
  ASSUME NEW ms \in Seq(MessageType), Half(ms, {}), NEW c \in 1 .. Len(ms), ms[c].role # "tool"
  PROVE  Half(SubSeq(ms, c, Len(ms)), {}) /\ SubSeq(ms, c, Len(ms)) \in Seq(MessageType)
  <1>. DEFINE t == SubSeq(ms, c, Len(ms))
              n == c - 1
  <1>1. /\ t \in Seq(MessageType) /\ Len(ms) = n + Len(t) /\ n \in Nat /\ Len(t) \in Nat /\ Len(t) > 0
        /\ \A i \in 1 .. Len(t) : ms[n + i] = t[i]
    OBVIOUS
  <1>2. t # <<>> /\ t[1] = ms[c]
    <2>1. 1 \in 1 .. Len(t) /\ n + 1 = c
      BY <1>1
    <2>2. t[1] = ms[c]
      BY <1>1, <2>1
    <2>. HIDE DEF t
    <2>. QED BY <1>1, <2>2
  <1>. HIDE DEF t, n
  <1>3. ASSUME NEW i \in DOMAIN t, t[i].role # "tool"
        PROVE  /\ AnswersOf(t, i) = ToSet(t[i].calls)
               /\ Once(t, i)
    <2>1. i \in 1 .. Len(t) /\ n + i \in DOMAIN ms /\ ms[n + i] = t[i]
      BY <1>1, <1>3
    <2>2. /\ AnswersOf(ms, n + i) = ToSet(ms[n + i].calls)
          /\ Once(ms, n + i)
      BY <1>3, <2>1 DEF Half
    <2>. QED BY <1>1, <2>1, <2>2, Shift
  <1>4. Half(t, {})
    BY <1>2, <1>3 DEF Half, Once
  <1>. QED BY <1>1, <1>4 DEF t

-----------------------------------------------------------------------------
(* What messages cost *)

TotalOf(f, s) == f[0] = 0 /\ \A n \in 1 .. Len(s) : f[n] = f[n - 1] + Cost(s[n])

LEMMA TokensIs ==
  ASSUME NEW s \in Seq(MessageType)
  PROVE  \E f \in [0 .. Len(s) -> Nat] : TotalOf(f, s) /\ Tokens(s) = f[Len(s)]
  <1>. DEFINE F(h) == [n \in 0 .. Len(s) |-> IF n = 0 THEN 0 ELSE h[n - 1] + Cost(s[n])]
              g == [p \in Nat \X Nat |-> IF p[1] \in 1 .. Len(s) THEN p[2] + Cost(s[p[1]]) ELSE p[2]]
  <1>0. Len(s) \in Nat
    OBVIOUS
  <1>1. g \in [Nat \X Nat -> Nat]
    <2>1. ASSUME NEW p \in Nat \X Nat, p[1] \in 1 .. Len(s) PROVE p[2] + Cost(s[p[1]]) \in Nat
      BY DEF Cost
    <2>. QED BY <2>1
  <1>2. PICK h \in [0 .. Len(s) -> Nat] : Run(h, 0, g, Len(s))
    <2>. HIDE DEF g
    <2>. QED BY <1>0, <1>1, Iteration
  <1>3. h = F(h)
    <2>1. ASSUME NEW n \in 0 .. Len(s) PROVE h[n] = IF n = 0 THEN 0 ELSE h[n - 1] + Cost(s[n])
      <3>1. CASE n = 0
        BY <3>1, <1>2 DEF Run
      <3>2. CASE n # 0
        <4>1. n \in 1 .. Len(s) /\ n \in Nat /\ n - 1 \in 0 .. Len(s)
          BY <1>0, <3>2
        <4>2. h[n] = g[<<n, h[n - 1]>>] /\ <<n, h[n - 1]>> \in Nat \X Nat
          BY <4>1, <1>2 DEF Run
        <4>3. g[<<n, h[n - 1]>>] = h[n - 1] + Cost(s[n])
          BY <4>1, <4>2
        <4>. QED BY <3>2, <4>2, <4>3
      <3>. QED BY <3>1, <3>2
    <2>. QED BY <2>1, <1>2
  <1>. DEFINE total == CHOOSE f : f = F(f)
  <1>4. total = F(total)
    <2>. HIDE DEF F
    <2>. QED BY <1>3
  <1>5. Tokens(s) = total[Len(s)]
    BY DEF Tokens
  <1>. HIDE DEF total
  <1>6. TotalOf(total, s)
    <2>1. total[0] = 0
      BY <1>4, <1>0
    <2>2. ASSUME NEW n \in 1 .. Len(s) PROVE total[n] = total[n - 1] + Cost(s[n])
      BY <1>4, <1>0
    <2>. QED BY <2>1, <2>2 DEF TotalOf
  <1>7. total \in [0 .. Len(s) -> Nat]
    <2>. DEFINE S == {n \in Nat : n <= Len(s) => total[n] \in Nat}
    <2>1. 0 \in S
      BY <1>6 DEF TotalOf
    <2>2. ASSUME NEW n \in Nat, n \in S PROVE n + 1 \in S
      <3>. SUFFICES ASSUME n + 1 <= Len(s) PROVE total[n + 1] \in Nat
        OBVIOUS
      <3>1. n + 1 \in 1 .. Len(s) /\ (n + 1) - 1 = n
        BY <1>0
      <3>2. total[n + 1] = total[n] + Cost(s[n + 1])
        BY <1>6, <3>1 DEF TotalOf
      <3>. QED BY <1>0, <2>2, <3>2 DEF Cost
    <2>. HIDE DEF S
    <2>3. Nat \subseteq S
      BY <2>1, <2>2, SetInduction
    <2>4. \A n \in 0 .. Len(s) : total[n] \in Nat
      BY <1>0, <2>3 DEF S
    <2>5. total = [n \in 0 .. Len(s) |-> total[n]]
      BY <1>4
    <2>. QED BY <2>4, <2>5
  <1>. QED BY <1>5, <1>6, <1>7

LEMMA TokensType ==
  ASSUME NEW s \in Seq(MessageType)
  PROVE  Tokens(s) \in Nat
  <1>1. PICK f \in [0 .. Len(s) -> Nat] : Tokens(s) = f[Len(s)]
    BY TokensIs
  <1>. QED BY <1>1

LEMMA TokensNone == Tokens(<<>>) = 0
  <1>1. <<>> \in Seq(MessageType) /\ Len(<<>>) = 0
    OBVIOUS
  <1>. QED BY <1>1, TokensIs DEF TotalOf

LEMMA TokensMore ==
  ASSUME NEW m \in MessageType, NEW t \in Seq(MessageType)
  PROVE  Tokens(<<m>> \o t) = Cost(m) + Tokens(t)
  <1>. DEFINE r == <<m>> \o t
  <1>0. /\ r \in Seq(MessageType) /\ Len(r) = Len(t) + 1 /\ Len(t) \in Nat /\ r[1] = m
        /\ \A i \in 1 .. Len(t) : r[i + 1] = t[i]
    OBVIOUS
  <1>. HIDE DEF r
  <1>1. PICK f \in [0 .. Len(r) -> Nat] : TotalOf(f, r) /\ Tokens(r) = f[Len(r)]
    BY <1>0, TokensIs
  <1>2. PICK h \in [0 .. Len(t) -> Nat] : TotalOf(h, t) /\ Tokens(t) = h[Len(t)]
    BY TokensIs
  <1>. DEFINE S == {k \in Nat : k <= Len(t) => f[k + 1] = Cost(m) + h[k]}
  <1>3. 0 \in S
    <2>1. 1 \in 1 .. Len(r) /\ 1 - 1 = 0
      BY <1>0
    <2>2. f[1] = f[0] + Cost(r[1]) /\ f[0] = 0 /\ h[0] = 0
      BY <1>1, <1>2, <2>1 DEF TotalOf
    <2>3. Cost(m) \in Nat
      BY DEF Cost
    <2>. QED BY <1>0, <2>2, <2>3
  <1>4. ASSUME NEW k \in Nat, k \in S PROVE k + 1 \in S
    <2>. SUFFICES ASSUME k + 1 <= Len(t) PROVE f[(k + 1) + 1] = Cost(m) + h[k + 1]
      OBVIOUS
    <2>1. k + 1 \in 1 .. Len(t) /\ (k + 1) + 1 \in 1 .. Len(r) /\ (k + 1) - 1 = k /\ ((k + 1) + 1) - 1 = k + 1
          /\ k \in 0 .. Len(t)
      BY <1>0
    <2>2. f[(k + 1) + 1] = f[k + 1] + Cost(r[(k + 1) + 1]) /\ h[k + 1] = h[k] + Cost(t[k + 1])
      BY <1>1, <1>2, <2>1 DEF TotalOf
    <2>3. f[k + 1] = Cost(m) + h[k] /\ r[(k + 1) + 1] = t[k + 1]
      BY <1>0, <1>4, <2>1
    <2>4. Cost(m) \in Nat /\ Cost(t[k + 1]) \in Nat /\ h[k] \in Nat
      BY <1>2, <2>1 DEF Cost
    <2>. QED BY <2>2, <2>3, <2>4
  <1>. HIDE DEF S
  <1>5. Nat \subseteq S
    BY <1>3, <1>4, SetInduction
  <1>6. f[Len(t) + 1] = Cost(m) + h[Len(t)]
    BY <1>0, <1>5 DEF S
  <1>. QED BY <1>0, <1>1, <1>2, <1>6 DEF r

-----------------------------------------------------------------------------
(* Trimming *)

EndOf(ms, k) == SubSeq(ms, Len(ms) - k + 1, Len(ms))

LEMMA EndFacts ==
  ASSUME NEW ms \in Seq(MessageType), NEW k \in 0 .. Len(ms)
  PROVE  /\ EndOf(ms, k) \in Seq(MessageType) /\ Len(EndOf(ms, k)) = k
         /\ k > 0 => /\ Head(EndOf(ms, k)) = ms[Len(ms) - k + 1]
                     /\ EndOf(ms, k) = <<ms[Len(ms) - k + 1]>> \o EndOf(ms, k - 1)
                     /\ Tokens(EndOf(ms, k)) = Cost(ms[Len(ms) - k + 1]) + Tokens(EndOf(ms, k - 1))
  <1>0. Len(ms) \in Nat /\ k \in Nat /\ k <= Len(ms)
    OBVIOUS
  <1>1. ASSUME NEW j \in 0 .. Len(ms)
        PROVE  /\ EndOf(ms, j) \in Seq(MessageType) /\ Len(EndOf(ms, j)) = j
               /\ \A i \in 1 .. j : EndOf(ms, j)[i] = ms[Len(ms) - j + i]
    BY <1>0 DEF EndOf
  <1>2. ASSUME k > 0
        PROVE  /\ Head(EndOf(ms, k)) = ms[Len(ms) - k + 1]
               /\ EndOf(ms, k) = <<ms[Len(ms) - k + 1]>> \o EndOf(ms, k - 1)
               /\ Tokens(EndOf(ms, k)) = Cost(ms[Len(ms) - k + 1]) + Tokens(EndOf(ms, k - 1))
    <2>. DEFINE m == ms[Len(ms) - k + 1]
                e == EndOf(ms, k)
                r == EndOf(ms, k - 1)
    <2>1. m \in MessageType /\ k - 1 \in 0 .. Len(ms) /\ k \in 0 .. Len(ms) /\ 1 \in 1 .. k
      BY <1>0, <1>2
    <2>2. /\ e \in Seq(MessageType) /\ Len(e) = k /\ e[1] = m
          /\ r \in Seq(MessageType) /\ Len(r) = k - 1
          /\ \A i \in 1 .. k : e[i] = ms[Len(ms) - k + i]
          /\ \A i \in 1 .. (k - 1) : r[i] = ms[Len(ms) - (k - 1) + i]
      BY <1>1, <2>1
    <2>. HIDE DEF m, e, r
    <2>3. Head(e) = m
      BY <1>0, <1>2, <2>2
    <2>4. e = <<m>> \o r
      <3>. DEFINE q == <<m>> \o r
      <3>1. q \in Seq(MessageType) /\ Len(q) = k /\ q[1] = m /\ \A i \in 2 .. k : q[i] = r[i - 1]
        BY <1>0, <1>2, <2>1, <2>2
      <3>2. ASSUME NEW i \in 1 .. k PROVE e[i] = q[i]
        <4>1. CASE i = 1
          BY <2>2, <3>1, <4>1
        <4>2. CASE i # 1
          <5>1. i \in 2 .. k /\ i - 1 \in 1 .. (k - 1) /\ Len(ms) - (k - 1) + (i - 1) = Len(ms) - k + i
            BY <1>0, <4>2
          <5>2. r[i - 1] = ms[Len(ms) - (k - 1) + (i - 1)]
            BY <2>2, <5>1
          <5>. QED BY <2>2, <3>1, <5>1, <5>2
        <4>. QED BY <4>1, <4>2
      <3>. HIDE DEF q
      <3>3. e = q
        BY <2>2, <3>1, <3>2
      <3>. QED BY <3>3 DEF q
    <2>5. Tokens(e) = Cost(m) + Tokens(r)
      BY <2>1, <2>2, <2>4, TokensMore
    <2>. QED BY <2>3, <2>4, <2>5 DEF m, e, r
  <1>. QED BY <1>1, <1>2

WalkState == [running : Nat, over : BOOLEAN, cut : Nat]
Outset == [running |-> 0, over |-> FALSE, cut |-> 0]
Stepped(ms, budget, w, i) ==
    LET running == w.running + Cost(ms[i])
    IN  IF w.over \/ running > budget
        THEN [w EXCEPT !.over = TRUE]
        ELSE [running |-> running, over |-> FALSE,
              cut |-> IF IsTool(ms[i]) THEN w.cut ELSE i]
WalkOf(f, ms, from, budget) ==
    /\ f[0] = Outset
    /\ \A k \in 1 .. (Len(ms) - from) : f[k] = Stepped(ms, budget, f[k - 1], Len(ms) - k + 1)

LEMMA SteppedType ==
  ASSUME NEW ms \in Seq(MessageType), NEW budget \in Int, NEW w \in WalkState, NEW i \in 1 .. Len(ms)
  PROVE  Stepped(ms, budget, w, i) \in WalkState
  <1>1. Cost(ms[i]) \in Nat /\ w.running \in Nat /\ w.cut \in Nat /\ i \in Nat
    BY DEF Cost, WalkState
  <1>2. [w EXCEPT !.over = TRUE] \in WalkState
    BY DEF WalkState
  <1>3. w.running + Cost(ms[i]) \in Nat
    BY <1>1
  <1>. HIDE DEF Cost
  <1>4. [running |-> w.running + Cost(ms[i]), over |-> FALSE,
         cut |-> IF IsTool(ms[i]) THEN w.cut ELSE i] \in WalkState
    BY <1>1, <1>3 DEF WalkState
  <1>. QED BY <1>2, <1>4 DEF Stepped

LEMMA WalkIs ==
  ASSUME NEW ms \in Seq(MessageType), NEW from \in 0 .. Len(ms), NEW budget \in Int
  PROVE  \E f \in [0 .. (Len(ms) - from) -> WalkState] :
            WalkOf(f, ms, from, budget) /\ Walk(ms, from, budget) = f[Len(ms) - from].cut
  <1>. DEFINE N == Len(ms) - from
              F(h) == [k \in 0 .. (Len(ms) - from) |->
                         IF k = 0 THEN [running |-> 0, over |-> FALSE, cut |-> 0]
                         ELSE LET w == h[k - 1]
                                  i == Len(ms) - k + 1
                                  running == w.running + Cost(ms[i])
                              IN  IF w.over \/ running > budget
                                  THEN [w EXCEPT !.over = TRUE]
                                  ELSE [running |-> running, over |-> FALSE,
                                        cut |-> IF IsTool(ms[i]) THEN w.cut ELSE i]]
              g == [p \in Nat \X WalkState |->
                      IF p[1] \in 1 .. N THEN Stepped(ms, budget, p[2], Len(ms) - p[1] + 1) ELSE p[2]]
  <1>0. N \in Nat /\ Len(ms) \in Nat /\ \A k \in 1 .. N : Len(ms) - k + 1 \in 1 .. Len(ms)
    OBVIOUS
  <1>1. g \in [Nat \X WalkState -> WalkState]
    <2>1. ASSUME NEW p \in Nat \X WalkState, p[1] \in 1 .. N
          PROVE  Stepped(ms, budget, p[2], Len(ms) - p[1] + 1) \in WalkState
      <3>1. Len(ms) - p[1] + 1 \in 1 .. Len(ms) /\ p[2] \in WalkState
        BY <1>0, <2>1
      <3>. QED BY <3>1, SteppedType
    <2>. QED BY <2>1
  <1>2. Outset \in WalkState
    BY DEF Outset, WalkState
  <1>3. PICK h \in [0 .. N -> WalkState] : Run(h, Outset, g, N)
    <2>. HIDE DEF g, N
    <2>. QED BY <1>0, <1>1, <1>2, Iteration
  <1>4. ASSUME NEW k \in 1 .. N PROVE h[k] = Stepped(ms, budget, h[k - 1], Len(ms) - k + 1)
    <2>1. k \in Nat /\ k - 1 \in 0 .. N
      BY <1>0
    <2>2. h[k] = g[<<k, h[k - 1]>>] /\ <<k, h[k - 1]>> \in Nat \X WalkState
      BY <1>3, <2>1 DEF Run
    <2>3. g[<<k, h[k - 1]>>] = Stepped(ms, budget, h[k - 1], Len(ms) - k + 1)
      <3>. HIDE DEF N
      <3>. QED BY <2>2
    <2>. QED BY <2>2, <2>3
  <1>5. h = F(h)
    <2>1. ASSUME NEW k \in 0 .. N, k # 0
          PROVE h[k] = LET w == h[k - 1]
                           i == Len(ms) - k + 1
                           running == w.running + Cost(ms[i])
                       IN  IF w.over \/ running > budget
                           THEN [w EXCEPT !.over = TRUE]
                           ELSE [running |-> running, over |-> FALSE,
                                 cut |-> IF IsTool(ms[i]) THEN w.cut ELSE i]
      <3>1. k \in 1 .. N
        BY <1>0, <2>1
      <3>. QED BY <1>4, <3>1 DEF Stepped
    <2>2. h[0] = [running |-> 0, over |-> FALSE, cut |-> 0]
      BY <1>3 DEF Run, Outset
    <2>3. h = [k \in 0 .. N |-> h[k]]
      BY <1>3
    <2>. QED BY <2>1, <2>2, <2>3
  <1>. DEFINE walk == CHOOSE f : f = F(f)
  <1>6. walk = F(walk)
    <2>. HIDE DEF F
    <2>. QED BY <1>5
  <1>7. Walk(ms, from, budget) = walk[Len(ms) - from].cut
    BY DEF Walk
  <1>. HIDE DEF walk
  <1>8. walk[0] = Outset
    BY <1>6, <1>0 DEF Outset
  <1>9. ASSUME NEW k \in 1 .. N PROVE walk[k] = Stepped(ms, budget, walk[k - 1], Len(ms) - k + 1)
    <2>1. k \in 0 .. (Len(ms) - from) /\ k # 0
      BY <1>0
    <2>2. walk[k] = F(walk)[k]
      BY <1>6
    <2>. QED BY <2>1, <2>2 DEF Stepped
  <1>10. walk \in [0 .. N -> WalkState]
    <2>. DEFINE S == {n \in Nat : n <= N => walk[n] \in WalkState}
    <2>1. 0 \in S
      BY <1>2, <1>8
    <2>2. ASSUME NEW n \in Nat, n \in S PROVE n + 1 \in S
      <3>. SUFFICES ASSUME n + 1 <= N PROVE walk[n + 1] \in WalkState
        OBVIOUS
      <3>1. n + 1 \in 1 .. N /\ (n + 1) - 1 = n /\ Len(ms) - (n + 1) + 1 \in 1 .. Len(ms)
        BY <1>0
      <3>2. walk[n + 1] = Stepped(ms, budget, walk[n], Len(ms) - (n + 1) + 1)
        BY <1>9, <3>1
      <3>3. walk[n] \in WalkState
        BY <1>0, <2>2
      <3>. QED BY <3>1, <3>2, <3>3, SteppedType
    <2>. HIDE DEF S
    <2>3. Nat \subseteq S
      BY <2>1, <2>2, SetInduction
    <2>4. \A n \in 0 .. N : walk[n] \in WalkState
      <3>. HIDE DEF N
      <3>. QED BY <1>0, <2>3 DEF S
    <2>5. walk = [n \in 0 .. N |-> walk[n]]
      BY <1>6
    <2>. QED BY <2>4, <2>5
  <1>11. WalkOf(walk, ms, from, budget)
    BY <1>8, <1>9 DEF WalkOf
  <1>. QED BY <1>7, <1>10, <1>11

\* After k steps: the last k messages cost what has been counted, or too much, and every longer
\* end than the one found begins with a tool message or costs too much.
Walked(ms, budget, k, w) ==
    /\ ~w.over => w.running = Tokens(EndOf(ms, k))
    /\ w.over => Tokens(EndOf(ms, k)) > budget
    /\ w.cut # 0 => w.cut \in 1 .. Len(ms) /\ ~IsTool(ms[w.cut])
    /\ \A j \in 1 .. k : (w.cut = 0 \/ j > Len(ms) - w.cut + 1) =>
          IsTool(Head(EndOf(ms, j))) \/ Tokens(EndOf(ms, j)) > budget

LEMMA WalkedOn ==
  ASSUME NEW ms \in Seq(MessageType), NEW budget \in Int, NEW k \in Nat, k + 1 <= Len(ms),
         NEW w \in WalkState, Walked(ms, budget, k, w)
  PROVE  Walked(ms, budget, k + 1, Stepped(ms, budget, w, Len(ms) - (k + 1) + 1))
  <1>. DEFINE i == Len(ms) - (k + 1) + 1
              v == Stepped(ms, budget, w, i)
              T == Tokens(EndOf(ms, k + 1))
              cost == Cost(ms[i])
  <1>0. Len(ms) \in Nat /\ i \in 1 .. Len(ms) /\ k + 1 \in 0 .. Len(ms) /\ k \in 0 .. Len(ms) /\ k + 1 > 0
        /\ (k + 1) - 1 = k /\ Len(ms) - i + 1 = k + 1 /\ i # 0
    OBVIOUS
  <1>1. /\ Head(EndOf(ms, k + 1)) = ms[i]
        /\ T = cost + Tokens(EndOf(ms, k)) /\ EndOf(ms, k) \in Seq(MessageType)
    BY <1>0, EndFacts
  <1>2. cost \in Nat /\ Tokens(EndOf(ms, k)) \in Nat /\ T \in Nat
    <2>1. cost \in Nat
      BY <1>0 DEF Cost
    <2>. HIDE DEF cost, T
    <2>. QED BY <1>1, <2>1, TokensType
  <1>3. w.running \in Nat /\ w.over \in BOOLEAN /\ w.cut \in Nat
    BY DEF WalkState
  <1>4. CASE w.over \/ w.running + cost > budget
    <2>1. v.over /\ v.cut = w.cut
      BY <1>4 DEF Stepped, WalkState
    <2>2. T > budget
      <3>1. CASE w.over
        <4>1. Tokens(EndOf(ms, k)) > budget
          BY <3>1 DEF Walked
        <4>. HIDE DEF T, cost
        <4>. QED BY <1>1, <1>2, <4>1
      <3>2. CASE ~w.over
        <4>1. w.running = Tokens(EndOf(ms, k)) /\ w.running + cost > budget
          BY <1>4, <3>2 DEF Walked
        <4>. HIDE DEF T, cost
        <4>. QED BY <1>1, <1>2, <4>1
      <3>. QED BY <3>1, <3>2
    <2>3. ASSUME NEW j \in 1 .. (k + 1), w.cut = 0 \/ j > Len(ms) - w.cut + 1
          PROVE  IsTool(Head(EndOf(ms, j))) \/ Tokens(EndOf(ms, j)) > budget
      <3>1. CASE j \in 1 .. k
        BY <2>3, <3>1 DEF Walked
      <3>2. CASE j \notin 1 .. k
        <4>1. j = k + 1
          BY <3>2
        <4>. QED BY <2>2, <4>1
      <3>. QED BY <3>1, <3>2
    <2>4. w.cut # 0 => w.cut \in 1 .. Len(ms) /\ ~IsTool(ms[w.cut])
      BY DEF Walked
    <2>. HIDE DEF v
    <2>5. Walked(ms, budget, k + 1, v)
      BY <2>1, <2>2, <2>3, <2>4 DEF Walked
    <2>. QED BY <2>5 DEF v
  <1>5. CASE ~(w.over \/ w.running + cost > budget)
    <2>1. v = [running |-> w.running + cost, over |-> FALSE, cut |-> IF IsTool(ms[i]) THEN w.cut ELSE i]
      BY <1>5 DEF Stepped
    <2>2. ~v.over /\ v.running = T
      <3>1. w.running = Tokens(EndOf(ms, k))
        BY <1>5 DEF Walked
      <3>. HIDE DEF T, cost
      <3>. QED BY <1>1, <1>2, <2>1, <3>1
    <2>3. v.cut = IF IsTool(ms[i]) THEN w.cut ELSE i
      BY <2>1
    <2>4. v.cut # 0 => v.cut \in 1 .. Len(ms) /\ ~IsTool(ms[v.cut])
      <3>1. w.cut # 0 => w.cut \in 1 .. Len(ms) /\ ~IsTool(ms[w.cut])
        BY DEF Walked
      <3>. QED BY <1>0, <2>3, <3>1
    <2>5. ASSUME NEW j \in 1 .. (k + 1), v.cut = 0 \/ j > Len(ms) - v.cut + 1
          PROVE  IsTool(Head(EndOf(ms, j))) \/ Tokens(EndOf(ms, j)) > budget
      <3>1. CASE IsTool(ms[i])
        <4>1. v.cut = w.cut
          BY <2>3, <3>1
        <4>2. CASE j \in 1 .. k
          BY <2>5, <4>1, <4>2 DEF Walked
        <4>3. CASE j \notin 1 .. k
          <5>1. j = k + 1
            BY <4>3
          <5>. QED BY <1>1, <3>1, <5>1
        <4>. QED BY <4>2, <4>3
      <3>2. CASE ~IsTool(ms[i])
        <4>1. v.cut = i
          BY <2>3, <3>2
        <4>. HIDE DEF v, i
        <4>2. j <= k + 1 /\ k + 1 \in Nat /\ j \in Nat /\ ~(j > k + 1)
          OBVIOUS
        <4>3. ~(v.cut = 0 \/ j > Len(ms) - v.cut + 1)
          BY <1>0, <4>1, <4>2
        <4>. QED BY <2>5, <4>3
      <3>. QED BY <3>1, <3>2
    <2>. HIDE DEF v
    <2>6. Walked(ms, budget, k + 1, v)
      BY <2>2, <2>4, <2>5 DEF Walked
    <2>. QED BY <2>6 DEF v
  <1>. QED BY <1>4, <1>5

LEMMA WalkFacts ==
  ASSUME NEW ms \in Seq(MessageType), NEW from \in 0 .. Len(ms), NEW budget \in Int
  PROVE  \E w \in WalkState : Walked(ms, budget, Len(ms) - from, w) /\ Walk(ms, from, budget) = w.cut
  <1>1. PICK f \in [0 .. (Len(ms) - from) -> WalkState] :
            WalkOf(f, ms, from, budget) /\ Walk(ms, from, budget) = f[Len(ms) - from].cut
    BY WalkIs
  <1>. DEFINE N == Len(ms) - from
              S == {k \in Nat : k <= N => Walked(ms, budget, k, f[k])}
  <1>0. N \in Nat /\ N <= Len(ms) /\ Len(ms) \in Nat
    OBVIOUS
  <1>2. 0 \in S
    <2>1. f[0] = Outset /\ Outset.over = FALSE /\ Outset.running = 0 /\ Outset.cut = 0
      BY <1>1 DEF WalkOf, Outset
    <2>2. EndOf(ms, 0) = <<>>
      <3>1. Len(EndOf(ms, 0)) = 0 /\ EndOf(ms, 0) \in Seq(MessageType)
        BY <1>0, EndFacts
      <3>. QED BY <3>1
    <2>3. Walked(ms, budget, 0, f[0])
      BY <2>1, <2>2, TokensNone DEF Walked
    <2>. QED BY <2>3
  <1>3. ASSUME NEW k \in Nat, k \in S PROVE k + 1 \in S
    <2>. SUFFICES ASSUME k + 1 <= N PROVE Walked(ms, budget, k + 1, f[k + 1])
      OBVIOUS
    <2>1. k + 1 \in 1 .. N /\ (k + 1) - 1 = k /\ k \in 0 .. N /\ k + 1 <= Len(ms) /\ k <= N
      BY <1>0
    <2>2. f[k + 1] = Stepped(ms, budget, f[k], Len(ms) - (k + 1) + 1) /\ f[k] \in WalkState
      BY <1>1, <2>1 DEF WalkOf
    <2>3. Walked(ms, budget, k, f[k])
      BY <1>3, <2>1
    <2>. HIDE DEF N, S
    <2>. QED BY <2>1, <2>2, <2>3, WalkedOn
  <1>. HIDE DEF S
  <1>4. Nat \subseteq S
    BY <1>2, <1>3, SetInduction
  <1>5. Walked(ms, budget, N, f[N]) /\ f[N] \in WalkState
    BY <1>0, <1>4 DEF S
  <1>. QED BY <1>1, <1>5

LEMMA PreambleIs ==
  ASSUME NEW ms \in Seq(MessageType)
  PROVE  PreambleEnd(ms) \in 0 .. Len(ms) /\ \A i \in 1 .. PreambleEnd(ms) : ms[i].role = "system"
  <1>. DEFINE S == {n \in 0 .. Len(ms) : n < Len(ms) => ms[n + 1].role # "system"}
              Fit(n) == /\ \A i \in 1 .. n : ms[i].role = "system"
                        /\ n < Len(ms) => ms[n + 1].role # "system"
  <1>0. Len(ms) \in Nat
    OBVIOUS
  <1>1. S \in SUBSET Nat /\ S # {}
    <2>1. Len(ms) \in S
      BY <1>0
    <2>. QED BY <1>0, <2>1
  <1>2. PICK n \in S : \A y \in S : n <= y
    <2>. HIDE DEF S
    <2>. QED BY <1>1, LeastNumber
  <1>3. ASSUME NEW i \in 1 .. n PROVE ms[i].role = "system"
    <2>0. n \in 0 .. Len(ms)
      BY <1>2
    <2>1. i - 1 \in 0 .. Len(ms) /\ i - 1 < n /\ (i - 1) + 1 = i
      BY <1>0, <2>0
    <2>2. i - 1 \notin S
      <3>. HIDE DEF S
      <3>. QED BY <1>2, <2>0, <2>1
    <2>. QED BY <2>1, <2>2
  <1>4. n \in 0 .. Len(ms) /\ Fit(n)
    BY <1>2, <1>3
  <1>5. PreambleEnd(ms) = CHOOSE k \in 0 .. Len(ms) : Fit(k)
    BY DEF PreambleEnd
  <1>. HIDE DEF S, Fit
  <1>6. PreambleEnd(ms) \in 0 .. Len(ms) /\ Fit(PreambleEnd(ms))
    BY <1>4, <1>5
  <1>. QED BY <1>6 DEF Fit

LEMMA PlaceholderType == Placeholder \in MessageType /\ Placeholder.role = "user" /\ Placeholder.calls = <<>>
  BY DEF Placeholder, Said, MessageType

\* What is left of a history that upstreams accept is one that they accept, and all that fits.
LEMMA TrimFacts ==
  ASSUME NEW ms \in Seq(MessageType), NEW budget \in Nat
  PROVE  /\ Trim(ms, budget) \in Seq(MessageType)
         /\ Half(ms, {}) => Half(Trim(ms, budget), {})
         /\ Trim(ms, budget) # ms => Kept(Trim(ms, budget), ms, budget)
  <1>. DEFINE head == PreambleEnd(ms)
              first == SubSeq(ms, 1, head)
              room == budget - Tokens(first) - Reserve
              cut == Walk(ms, head, room)
              rest == SubSeq(ms, cut, Len(ms))
              shorter == first \o <<Placeholder>> \o rest
  <1>1. CASE Trim(ms, budget) = ms
    BY <1>1
  <1>2. CASE Trim(ms, budget) # ms
    <2>1. /\ Trim(ms, budget) = shorter
          /\ cut - head - 1 >= 2
          /\ Tokens(shorter) <= budget
      <3>. HIDE DEF head, first, rest
      <3>. QED BY <1>2 DEF Trim, head, first, rest
    <2>2. Len(ms) \in Nat /\ head \in 0 .. Len(ms) /\ \A i \in 1 .. head : ms[i].role = "system"
      BY PreambleIs
    <2>. HIDE DEF head
    <2>3. first \in Seq(MessageType) /\ Len(first) = head /\ \A i \in DOMAIN first : first[i].role = "system"
      BY <2>2
    <2>. HIDE DEF first
    <2>4. room \in Int
      <3>1. Tokens(first) \in Nat /\ Reserve \in Nat
        BY <2>3, TokensType, HistoryAssumption DEF HistoryAssumption
      <3>. QED BY <3>1
    <2>. HIDE DEF room
    <2>5. PICK w \in WalkState : Walked(ms, room, Len(ms) - head, w) /\ cut = w.cut
      BY <2>2, <2>4, WalkFacts
    <2>. HIDE DEF cut
    <2>6. cut \in 1 .. Len(ms) /\ ms[cut].role # "tool" /\ cut >= head + 3
      <3>1. cut \in Nat /\ cut # 0
        BY <2>1, <2>2, <2>5 DEF WalkState
      <3>2. cut \in 1 .. Len(ms) /\ ~IsTool(ms[cut]) /\ cut >= head + 3
        BY <2>1, <2>2, <2>5, <3>1 DEF Walked
      <3>. QED BY <3>2 DEF IsTool
    <2>7. rest \in Seq(MessageType) /\ Len(rest) = Len(ms) - cut + 1 /\ (Half(ms, {}) => Half(rest, {}))
      <3>1. rest \in Seq(MessageType) /\ Len(rest) = Len(ms) - cut + 1
        BY <2>2, <2>6
      <3>2. Half(ms, {}) => Half(rest, {})
        BY <2>6, HalfSuffix
      <3>. QED BY <3>1, <3>2
    <2>8. Half(first, {})
      <3>1. ASSUME NEW i \in DOMAIN first PROVE first[i].role # "tool" /\ first[i].calls = <<>>
        <4>1. first[i] \in MessageType /\ first[i].role = "system"
          BY <2>3
        <4>. QED BY <4>1 DEF MessageType
      <3>. QED BY <2>3, <3>1, HalfPlain
    <2>9. Half(<<Placeholder>>, {}) /\ <<Placeholder>> \in Seq(MessageType) /\ Len(<<Placeholder>>) = 1
      <3>1. <<Placeholder>> \in Seq(MessageType) /\ Len(<<Placeholder>>) = 1 /\ DOMAIN <<Placeholder>> = 1 .. 1
            /\ <<Placeholder>>[1] = Placeholder
        BY PlaceholderType
      <3>2. \A i \in DOMAIN <<Placeholder>> : <<Placeholder>>[i].role # "tool" /\ <<Placeholder>>[i].calls = <<>>
        BY <3>1, PlaceholderType
      <3>3. Half(<<Placeholder>>, {})
        BY <3>1, <3>2, HalfPlain
      <3>. QED BY <3>1, <3>3
    <2>. HIDE DEF rest
    <2>10. (Half(ms, {}) => Half(shorter, {})) /\ shorter \in Seq(MessageType)
           /\ Len(shorter) = head + 1 + (Len(ms) - cut + 1)
      <3>1. Half(first \o <<Placeholder>>, {}) /\ first \o <<Placeholder>> \in Seq(MessageType)
            /\ Len(first \o <<Placeholder>>) = head + 1
        <4>1. Half(first \o <<Placeholder>>, {})
          BY <2>3, <2>8, <2>9, HalfConcat
        <4>. QED BY <2>3, <2>9, <4>1
      <3>2. Half(ms, {}) => Half((first \o <<Placeholder>>) \o rest, {})
        BY <2>7, <3>1, HalfConcat
      <3>3. /\ (first \o <<Placeholder>>) \o rest \in Seq(MessageType)
            /\ Len((first \o <<Placeholder>>) \o rest) = Len(first \o <<Placeholder>>) + Len(rest)
        <4>. DEFINE pre == first \o <<Placeholder>>
        <4>1. pre \in Seq(MessageType) /\ rest \in Seq(MessageType)
          BY <2>7, <3>1
        <4>. HIDE DEF pre
        <4>2. pre \o rest \in Seq(MessageType) /\ Len(pre \o rest) = Len(pre) + Len(rest)
          BY <4>1
        <4>. QED BY <4>2 DEF pre
      <3>. QED BY <2>2, <2>7, <3>1, <3>2, <3>3
    <2>11. Kept(shorter, ms, budget)
      <3>. DEFINE n == Len(shorter) - head - 1
      <3>1. n = Len(ms) - cut + 1 /\ n >= 1 /\ Len(ms) - n + 1 = cut /\ n \in Nat
        <4>1. head \in Nat /\ Len(ms) \in Nat /\ cut \in Nat /\ cut <= Len(ms)
          BY <2>2, <2>6
        <4>2. n = Len(ms) - cut + 1
          BY <2>10, <4>1
        <4>. HIDE DEF n
        <4>. QED BY <4>1, <4>2
      <3>. HIDE DEF n
      <3>2. SubSeq(ms, Len(ms) - n + 1, Len(ms)) = rest
        BY <3>1 DEF rest
      <3>3. ASSUME NEW k \in (n + 1) .. (Len(ms) - head)
            PROVE  \/ IsTool(Head(SubSeq(ms, Len(ms) - k + 1, Len(ms))))
                   \/ Tokens(SubSeq(ms, Len(ms) - k + 1, Len(ms))) > room
        <4>1. k \in 1 .. (Len(ms) - head) /\ k > Len(ms) - cut + 1
          BY <2>2, <2>6, <3>1
        <4>. QED BY <2>5, <4>1 DEF Walked, EndOf
      <3>. HIDE DEF shorter
      <3>4. shorter = SubSeq(ms, 1, head) \o <<Placeholder>> \o SubSeq(ms, Len(ms) - n + 1, Len(ms))
        BY <3>2 DEF shorter, first
      <3>. QED BY <2>1, <3>1, <3>3, <3>4 DEF Kept, head, first, room, n
    <2>. QED BY <2>1, <2>10, <2>11
  <1>. QED BY <1>1, <1>2

-----------------------------------------------------------------------------
(* The upstreams' own protocols *)

\* A tool answers the message before it and its fellows.
LEMMA Caller ==
  ASSUME NEW ms \in Seq(MessageType), Half(ms, {}), NEW j \in DOMAIN ms, ms[j].role = "tool"
  PROVE  \E i \in 1 .. (j - 1) : /\ ms[i].role # "tool" /\ j \in AnswersAfter(ms, i)
                                 /\ ms[j].answers \in ToSet(ms[i].calls)
  <1>. DEFINE S == {d \in Nat : j - d \in 1 .. j /\ ms[j - d].role # "tool"}
  <1>0. Len(ms) \in Nat /\ j \in 1 .. Len(ms)
    OBVIOUS
  <1>1. j - 1 \in S
    <2>1. ms[1].role # "tool"
      BY <1>0 DEF Half
    <2>2. j - 1 \in Nat /\ j - (j - 1) = 1 /\ 1 \in 1 .. j
      BY <1>0
    <2>. QED BY <2>1, <2>2
  <1>2. S \in SUBSET Nat /\ S # {}
    BY <1>1
  <1>3. PICK d \in S : \A y \in S : d <= y
    <2>. HIDE DEF S
    <2>. QED BY <1>2, LeastNumber
  <1>. DEFINE i == j - d
  <1>4. d \in Nat /\ i \in 1 .. j /\ ms[i].role # "tool"
    BY <1>3
  <1>5. i # j
    BY <1>4
  <1>6. ASSUME NEW k \in (i + 1) .. j PROVE ms[k].role = "tool"
    <2>1. j - k \in Nat /\ j - (j - k) = k /\ k \in 1 .. j /\ j - k < d
      BY <1>0, <1>4
    <2>2. j - k \notin S
      <3>. HIDE DEF S
      <3>. QED BY <1>3, <1>4, <2>1
    <2>. QED BY <2>1, <2>2
  <1>. HIDE DEF i
  <1>7. j \in AnswersAfter(ms, i) /\ i \in 1 .. (j - 1) /\ i \in DOMAIN ms
    BY <1>0, <1>4, <1>5, <1>6 DEF AnswersAfter
  <1>8. ms[j].answers \in AnswersOf(ms, i) /\ AnswersOf(ms, i) = ToSet(ms[i].calls)
    BY <1>4, <1>7 DEF Half, AnswersOf
  <1>. QED BY <1>4, <1>7, <1>8

LEMMA GeminiKnows ==
  ASSUME NEW ms \in Seq(MessageType), Half(ms, {})
  PROVE  \A j \in DOMAIN ToGemini(ms) : ToGemini(ms)[j]
  <1>. SUFFICES ASSUME NEW j \in DOMAIN ms, ms[j].role = "tool"
                PROVE  \E i \in 1 .. (j - 1) : Contains(ms[i].calls, ms[j].answers)
    BY DEF ToGemini
  <1>1. PICK i \in 1 .. (j - 1) : ms[j].answers \in ToSet(ms[i].calls)
    BY Caller
  <1>2. i \in DOMAIN ms
    BY <1>1
  <1>3. ms[i].calls \in Seq(Nat)
    BY <1>2 DEF MessageType
  <1>. DEFINE q == ms[i].calls
  <1>4. PICK x \in DOMAIN q : ms[j].answers = q[x]
    BY <1>1 DEF ToSet
  <1>5. x \in 1 .. Len(q)
    <2>. HIDE DEF q
    <2>1. q \in Seq(Nat)
      BY <1>3 DEF q
    <2>. QED BY <1>4, <2>1
  <1>6. Contains(ms[i].calls, ms[j].answers)
    BY <1>4, <1>5 DEF Contains
  <1>. QED BY <1>1, <1>6

TurnType == [role : {"user", "assistant"}, calls : Seq(Nat), results : Seq(Nat), list : BOOLEAN]
AddedUp(f, ms) == f[0] = <<>> /\ \A n \in 1 .. Len(ms) : f[n] = Added(f[n - 1], ms[n])

LEMMA TurnTypes ==
  ASSUME NEW m \in MessageType
  PROVE  /\ AnthropicTurn(m) \in TurnType
         /\ AnthropicTurn(m).calls = m.calls
         /\ m.role = "tool" => Results(m) = <<m.answers>> /\ IsList(AnthropicTurn(m))
         /\ m.role # "tool" => Results(m) = <<>>
         /\ AnthropicTurn(m).results = Results(m) /\ Results(m) \in Seq(Nat)
         /\ m.role = "assistant" => ~IsList(AnthropicTurn(m))
  <1>1. m.calls \in Seq(Nat) /\ m.answers \in Nat /\ m.image \in BOOLEAN
    BY DEF MessageType
  <1>. DEFINE role == IF m.role = "assistant" THEN "assistant" ELSE "user"
              results == Results(m)
              list == IsTool(m) \/ m.image
  <1>2. role \in {"user", "assistant"} /\ list \in BOOLEAN
    BY <1>1 DEF IsTool
  <1>3. results \in Seq(Nat)
    BY <1>1 DEF Results
  <1>4. AnthropicTurn(m) = [role |-> role, calls |-> m.calls, results |-> results, list |-> list]
    BY DEF AnthropicTurn
  <1>5. AnthropicTurn(m) \in TurnType
    <2>. HIDE DEF role, results, list
    <2>. QED BY <1>1, <1>2, <1>3, <1>4 DEF TurnType
  <1>6. m.role = "tool" => role = "user" /\ list
    BY DEF IsTool
  <1>7. m.role = "assistant" => role = "assistant"
    OBVIOUS
  <1>8. /\ m.role = "tool" => results = <<m.answers>>
        /\ m.role # "tool" => results = <<>>
    BY DEF Results
  <1>10. results = Results(m)
    OBVIOUS
  <1>. HIDE DEF role, list, results
  <1>9. /\ AnthropicTurn(m).calls = m.calls /\ AnthropicTurn(m).role = role
        /\ AnthropicTurn(m).results = results /\ AnthropicTurn(m).list = list
    BY <1>4
  <1>. QED BY <1>3, <1>5, <1>6, <1>7, <1>8, <1>9, <1>10 DEF IsList

\* What is added: nothing, a result to the last turn, or a turn.
LEMMA AddedNothing ==
  ASSUME NEW ts \in Seq(TurnType), NEW m \in MessageType,
         m.role = "system" \/ (m.role = "orphan" /\ ts # <<>> /\ IsList(ts[Len(ts)]))
  PROVE  Added(ts, m) = ts
  <1>1. CASE m.role = "system"
    BY <1>1 DEF Added
  <1>2. CASE m.role = "orphan" /\ ts # <<>> /\ IsList(ts[Len(ts)])
    <2>. DEFINE n == Len(ts)
                t == [ts[n] EXCEPT !.results = @ \o Results(m)]
    <2>1. n \in 1 .. Len(ts) /\ ts[n] \in TurnType
      BY <1>2
    <2>2. Added(ts, m) = [ts EXCEPT ![n] = t]
      BY <1>2, <2>1 DEF Added, Last, IsTool
    <2>3. t = ts[n]
      <3>1. Results(m) = <<>> /\ ts[n].results \in Seq(Nat)
        BY <1>2, <2>1 DEF Results, TurnType
      <3>2. ts[n].results \o Results(m) = ts[n].results
        BY <3>1
      <3>. QED BY <2>1, <3>2 DEF TurnType
    <2>. HIDE DEF t
    <2>4. [ts EXCEPT ![n] = t] = ts
      BY <2>1, <2>3
    <2>. QED BY <2>2, <2>4
  <1>. QED BY <1>1, <1>2

LEMMA AddedResult ==
  ASSUME NEW ts \in Seq(TurnType), NEW m \in MessageType, m.role = "tool", ts # <<>>, IsList(ts[Len(ts)])
  PROVE  /\ Added(ts, m) \in Seq(TurnType) /\ Len(Added(ts, m)) = Len(ts)
         /\ \A i \in 1 .. (Len(ts) - 1) : Added(ts, m)[i] = ts[i]
         /\ Added(ts, m)[Len(ts)] = [ts[Len(ts)] EXCEPT !.results = Append(@, m.answers)]
  <1>. DEFINE n == Len(ts)
              t == [ts[n] EXCEPT !.results = Append(@, m.answers)]
  <1>1. n \in 1 .. Len(ts) /\ ts[n] \in TurnType /\ m.answers \in Nat
    BY DEF MessageType
  <1>2. t \in TurnType
    <2>1. Append(ts[n].results, m.answers) \in Seq(Nat)
      BY <1>1 DEF TurnType
    <2>. QED BY <1>1, <2>1 DEF TurnType
  <1>3. Added(ts, m) = [ts EXCEPT ![n] = t]
    <2>1. ts[n].results \o Results(m) = Append(ts[n].results, m.answers)
      <3>1. ts[n].results \in Seq(Nat) /\ Results(m) = <<m.answers>>
        BY <1>1 DEF Results, TurnType
      <3>. QED BY <1>1, <3>1
    <2>2. Added(ts, m) = [ts EXCEPT ![n].results = @ \o Results(m)]
      BY <1>1 DEF Added, Last, IsTool
    <2>3. [ts EXCEPT ![n].results = @ \o Results(m)]
            = [ts EXCEPT ![n] = [ts[n] EXCEPT !.results = ts[n].results \o Results(m)]]
      BY <1>1
    <2>. QED BY <2>1, <2>2, <2>3
  <1>. HIDE DEF t
  <1>4. /\ [ts EXCEPT ![n] = t] \in Seq(TurnType) /\ Len([ts EXCEPT ![n] = t]) = n
        /\ \A i \in 1 .. (n - 1) : [ts EXCEPT ![n] = t][i] = ts[i]
        /\ [ts EXCEPT ![n] = t][n] = t
    BY <1>1, <1>2
  <1>. QED BY <1>3, <1>4 DEF t

LEMMA AddedTurn ==
  ASSUME NEW ts \in Seq(TurnType), NEW m \in MessageType, m.role # "system",
         ~(IsTool(m) /\ ts # <<>> /\ IsList(ts[Len(ts)]))
  PROVE  /\ Added(ts, m) \in Seq(TurnType) /\ Len(Added(ts, m)) = Len(ts) + 1
         /\ \A i \in 1 .. Len(ts) : Added(ts, m)[i] = ts[i]
         /\ Added(ts, m)[Len(ts) + 1] = AnthropicTurn(m)
  <1>. DEFINE t == AnthropicTurn(m)
  <1>1. Added(ts, m) = Append(ts, t)
    BY DEF Added, Last
  <1>2. t \in TurnType
    BY TurnTypes
  <1>. HIDE DEF t
  <1>3. /\ Append(ts, t) \in Seq(TurnType) /\ Len(Append(ts, t)) = Len(ts) + 1
        /\ \A i \in 1 .. Len(ts) : Append(ts, t)[i] = ts[i]
        /\ Append(ts, t)[Len(ts) + 1] = t
    BY <1>2
  <1>. QED BY <1>1, <1>3 DEF t

LEMMA AddedType ==
  ASSUME NEW ts \in Seq(TurnType), NEW m \in MessageType
  PROVE  Added(ts, m) \in Seq(TurnType)
  <1>1. CASE m.role = "system"
    BY <1>1, AddedNothing
  <1>2. CASE m.role = "tool" /\ ts # <<>> /\ IsList(ts[Len(ts)])
    BY <1>2, AddedResult
  <1>3. CASE m.role = "orphan" /\ ts # <<>> /\ IsList(ts[Len(ts)])
    BY <1>3, AddedNothing
  <1>4. CASE m.role # "system" /\ ~(IsTool(m) /\ ts # <<>> /\ IsList(ts[Len(ts)]))
    BY <1>4, AddedTurn
  <1>. QED BY <1>1, <1>2, <1>3, <1>4 DEF IsTool

LEMMA TurnsAre ==
  ASSUME NEW ms \in Seq(MessageType)
  PROVE  \E f \in [0 .. Len(ms) -> Seq(TurnType)] : AddedUp(f, ms) /\ ToAnthropic(ms) = f[Len(ms)]
  <1>. DEFINE F(h) == [n \in 0 .. Len(ms) |-> IF n = 0 THEN <<>> ELSE Added(h[n - 1], ms[n])]
              g == [p \in Nat \X Seq(TurnType) |-> IF p[1] \in 1 .. Len(ms) THEN Added(p[2], ms[p[1]]) ELSE p[2]]
  <1>0. Len(ms) \in Nat /\ <<>> \in Seq(TurnType)
    OBVIOUS
  <1>1. g \in [Nat \X Seq(TurnType) -> Seq(TurnType)]
    <2>1. ASSUME NEW p \in Nat \X Seq(TurnType), p[1] \in 1 .. Len(ms)
          PROVE  Added(p[2], ms[p[1]]) \in Seq(TurnType)
      <3>1. p[2] \in Seq(TurnType) /\ ms[p[1]] \in MessageType
        BY <2>1
      <3>. QED BY <3>1, AddedType
    <2>. QED BY <2>1
  <1>2. PICK h \in [0 .. Len(ms) -> Seq(TurnType)] : Run(h, <<>>, g, Len(ms))
    <2>. HIDE DEF g
    <2>. QED BY <1>0, <1>1, Iteration
  <1>3. h = F(h)
    <2>1. ASSUME NEW n \in 0 .. Len(ms) PROVE h[n] = IF n = 0 THEN <<>> ELSE Added(h[n - 1], ms[n])
      <3>1. CASE n = 0
        BY <3>1, <1>2 DEF Run
      <3>2. CASE n # 0
        <4>1. n \in 1 .. Len(ms) /\ n \in Nat /\ n - 1 \in 0 .. Len(ms)
          BY <1>0, <3>2
        <4>2. h[n] = g[<<n, h[n - 1]>>] /\ <<n, h[n - 1]>> \in Nat \X Seq(TurnType)
          BY <4>1, <1>2 DEF Run
        <4>3. g[<<n, h[n - 1]>>] = Added(h[n - 1], ms[n])
          BY <4>1, <4>2
        <4>. QED BY <3>2, <4>2, <4>3
      <3>. QED BY <3>1, <3>2
    <2>. QED BY <2>1, <1>2
  <1>. DEFINE turns == CHOOSE f : f = F(f)
  <1>4. turns = F(turns)
    <2>. HIDE DEF F
    <2>. QED BY <1>3
  <1>5. ToAnthropic(ms) = turns[Len(ms)]
    BY DEF ToAnthropic
  <1>. HIDE DEF turns
  <1>6. AddedUp(turns, ms)
    <2>1. turns[0] = <<>>
      BY <1>4, <1>0
    <2>2. ASSUME NEW n \in 1 .. Len(ms) PROVE turns[n] = Added(turns[n - 1], ms[n])
      BY <1>4, <1>0
    <2>. QED BY <2>1, <2>2 DEF AddedUp
  <1>7. turns \in [0 .. Len(ms) -> Seq(TurnType)]
    <2>. DEFINE S == {n \in Nat : n <= Len(ms) => turns[n] \in Seq(TurnType)}
    <2>1. 0 \in S
      BY <1>0, <1>6 DEF AddedUp
    <2>2. ASSUME NEW n \in Nat, n \in S PROVE n + 1 \in S
      <3>. SUFFICES ASSUME n + 1 <= Len(ms) PROVE turns[n + 1] \in Seq(TurnType)
        OBVIOUS
      <3>1. n + 1 \in 1 .. Len(ms) /\ (n + 1) - 1 = n /\ ms[n + 1] \in MessageType
        BY <1>0
      <3>2. turns[n + 1] = Added(turns[n], ms[n + 1])
        BY <1>6, <3>1 DEF AddedUp
      <3>3. turns[n] \in Seq(TurnType)
        BY <1>0, <2>2
      <3>. QED BY <3>1, <3>2, <3>3, AddedType
    <2>. HIDE DEF S
    <2>3. Nat \subseteq S
      BY <2>1, <2>2, SetInduction
    <2>4. \A n \in 0 .. Len(ms) : turns[n] \in Seq(TurnType)
      BY <1>0, <2>3 DEF S
    <2>5. turns = [n \in 0 .. Len(ms) |-> turns[n]]
      BY <1>4
    <2>. QED BY <2>4, <2>5
  <1>. QED BY <1>5, <1>6, <1>7

\* The turns made of the first n messages: all is well but for the results of the last turn,
\* which are those of the tools read so far.
Turned(ms, n, ts) ==
    /\ n = 0 => ts = <<>>
    /\ \A i \in DOMAIN ts : ts[i].results # <<>> => i > 1 /\ ts[i - 1].calls # <<>>
    /\ \A i \in 1 .. (Len(ts) - 1) : ts[i].calls # <<>> =>
          \/ ToSet(ts[i + 1].results) = ToSet(ts[i].calls)
          \/ i + 1 = Len(ts) /\ n > 0 /\ ms[n].role = "tool"
    /\ n > 0 /\ ms[n].role = "tool" =>
          /\ Len(ts) > 1 /\ IsList(ts[Len(ts)]) /\ ts[Len(ts)].calls = <<>>
          /\ \E a \in 1 .. (n - 1) :
                /\ ms[a].role # "tool" /\ \A k \in (a + 1) .. n : ms[k].role = "tool"
                /\ ms[a].calls # <<>> /\ ts[Len(ts) - 1].calls = ms[a].calls
                /\ ToSet(ts[Len(ts)].results) = {ms[k].answers : k \in (a + 1) .. n}
    /\ n > 0 /\ ms[n].role # "tool" /\ ms[n].calls # <<>> =>
          ts # <<>> /\ ~IsList(ts[Len(ts)]) /\ ts[Len(ts)].calls = ms[n].calls
    /\ ts # <<>> /\ ts[Len(ts)].calls # <<>> =>
          n > 0 /\ ms[n].role # "tool" /\ ms[n].calls = ts[Len(ts)].calls

\* When no tool follows, the round is complete.
LEMMA RoundComplete ==
  ASSUME NEW ms \in Seq(MessageType), Half(ms, {}), NEW n \in 0 .. Len(ms),
         n < Len(ms) => ms[n + 1].role # "tool",
         NEW ts \in Seq(TurnType), Turned(ms, n, ts)
  PROVE  /\ \A i \in 1 .. (Len(ts) - 1) : ts[i].calls # <<>> => ToSet(ts[i + 1].results) = ToSet(ts[i].calls)
         /\ ts # <<>> => ts[Len(ts)].calls = <<>>
  <1>0. Len(ms) \in Nat /\ Len(ts) \in Nat
    OBVIOUS
  <1>1. ASSUME NEW a \in 1 .. n, ms[a].role # "tool", \A k \in (a + 1) .. n : ms[k].role = "tool"
        PROVE  {ms[k].answers : k \in (a + 1) .. n} = ToSet(ms[a].calls)
    <2>1. AnswersAfter(ms, a) = (a + 1) .. n
      <3>1. ASSUME NEW j \in AnswersAfter(ms, a) PROVE j \in (a + 1) .. n
        <4>1. j \in (a + 1) .. Len(ms) /\ \A k \in (a + 1) .. j : ms[k].role = "tool"
          BY <3>1 DEF AnswersAfter
        <4>2. ~(n + 1 <= j)
          BY <1>0, <4>1
        <4>. QED BY <1>0, <4>1, <4>2
      <3>2. ASSUME NEW j \in (a + 1) .. n PROVE j \in AnswersAfter(ms, a)
        BY <1>0, <1>1, <3>2 DEF AnswersAfter
      <3>. QED BY <3>1, <3>2
    <2>2. AnswersOf(ms, a) = ToSet(ms[a].calls)
      BY <1>0, <1>1 DEF Half
    <2>. QED BY <2>1, <2>2 DEF AnswersOf
  <1>2. ASSUME NEW i \in 1 .. (Len(ts) - 1), ts[i].calls # <<>>
        PROVE  ToSet(ts[i + 1].results) = ToSet(ts[i].calls)
    <2>1. CASE ToSet(ts[i + 1].results) = ToSet(ts[i].calls)
      BY <2>1
    <2>2. CASE i + 1 = Len(ts) /\ n > 0 /\ ms[n].role = "tool"
      <3>1. PICK a \in 1 .. (n - 1) :
                /\ ms[a].role # "tool" /\ \A k \in (a + 1) .. n : ms[k].role = "tool"
                /\ ts[Len(ts) - 1].calls = ms[a].calls
                /\ ToSet(ts[Len(ts)].results) = {ms[k].answers : k \in (a + 1) .. n}
        BY <2>2 DEF Turned
      <3>2. a \in 1 .. n /\ Len(ts) - 1 = i
        BY <1>0, <2>2
      <3>. QED BY <1>1, <2>2, <3>1, <3>2
    <2>. QED BY <1>2, <2>1, <2>2 DEF Turned
  <1>3. ASSUME ts # <<>>, ts[Len(ts)].calls # <<>> PROVE FALSE
    <2>1. n > 0 /\ ms[n].role # "tool" /\ ms[n].calls = ts[Len(ts)].calls
      BY <1>3 DEF Turned
    <2>2. n \in 1 .. n /\ (n + 1) .. n = {} /\ n \in DOMAIN ms
      BY <1>0, <2>1
    <2>3. ToSet(ms[n].calls) = {}
      BY <1>1, <2>1, <2>2
    <2>4. ms[n].calls \in Seq(Nat)
      BY <2>2 DEF MessageType
    <2>5. ms[n].calls = <<>>
      <3>. DEFINE q == ms[n].calls
      <3>1. q \in Seq(Nat) /\ \A x \in DOMAIN q : FALSE
        BY <2>3, <2>4 DEF ToSet
      <3>. HIDE DEF q
      <3>2. Len(q) \in Nat /\ DOMAIN q = 1 .. Len(q)
        BY <3>1
      <3>3. q = <<>>
        <4>1. ~(1 \in DOMAIN q)
          BY <3>1
        <4>2. Len(q) = 0
          BY <3>2, <4>1
        <4>. QED BY <3>1, <4>2
      <3>. QED BY <3>3 DEF q
    <2>. QED BY <1>3, <2>1, <2>5
  <1>. QED BY <1>2, <1>3

LEMMA TurnedOn ==
  ASSUME NEW ms \in Seq(MessageType), Half(ms, {}), NEW n \in 0 .. Len(ms), n < Len(ms),
         NEW ts \in Seq(TurnType), Turned(ms, n, ts)
  PROVE  Turned(ms, n + 1, Added(ts, ms[n + 1]))
  <1>. DEFINE m == ms[n + 1]
              us == Added(ts, m)
              l == Len(ts)
  <1>0. Len(ms) \in Nat /\ l \in Nat /\ n \in Nat /\ n + 1 \in 1 .. Len(ms) /\ n + 1 > 0 /\ m \in MessageType
        /\ DOMAIN ts = 1 .. l
    OBVIOUS
  <1>. HIDE DEF m
  <1>1. us \in Seq(TurnType) /\ DOMAIN us = 1 .. Len(us)
    <2>1. us \in Seq(TurnType)
      BY <1>0, AddedType
    <2>. HIDE DEF us
    <2>. QED BY <2>1
  <1>2. CASE m.role = "tool" /\ n > 0 /\ ms[n].role = "tool"
    <2>1. /\ l > 1 /\ IsList(ts[l]) /\ ts[l].calls = <<>>
      BY <1>2 DEF Turned
    <2>2. PICK a \in 1 .. (n - 1) :
                /\ ms[a].role # "tool" /\ \A k \in (a + 1) .. n : ms[k].role = "tool"
                /\ ms[a].calls # <<>> /\ ts[l - 1].calls = ms[a].calls
                /\ ToSet(ts[l].results) = {ms[k].answers : k \in (a + 1) .. n}
      BY <1>2 DEF Turned
    <2>3. /\ Len(us) = l /\ \A i \in 1 .. (l - 1) : us[i] = ts[i]
          /\ us[l] = [ts[l] EXCEPT !.results = Append(@, m.answers)]
      <3>1. ts # <<>>
        BY <1>0, <2>1
      <3>. QED BY <1>0, <1>2, <2>1, <3>1, AddedResult
    <2>. HIDE DEF us, l
    <2>4. ts[l] \in TurnType /\ l \in 1 .. l /\ l - 1 \in 1 .. (l - 1)
      BY <1>0, <2>1
    <2>5. /\ us[l].calls = <<>> /\ IsList(us[l]) /\ us[l].results = Append(ts[l].results, m.answers)
      BY <2>1, <2>3, <2>4 DEF TurnType, IsList
    <2>6. ToSet(us[l].results) = ToSet(ts[l].results) \cup {m.answers}
      <3>1. ts[l].results \in Seq(Nat) /\ m.answers \in Nat
        BY <1>0, <2>4 DEF TurnType, MessageType
      <3>. DEFINE q == ts[l].results
      <3>2. DOMAIN q = 1 .. Len(q) /\ Len(q) \in Nat /\ DOMAIN Append(q, m.answers) = 1 .. (Len(q) + 1)
            /\ (\A x \in 1 .. Len(q) : Append(q, m.answers)[x] = q[x])
            /\ Append(q, m.answers)[Len(q) + 1] = m.answers
        BY <3>1
      <3>. HIDE DEF q
      <3>3. {Append(q, m.answers)[x] : x \in 1 .. (Len(q) + 1)} = {q[x] : x \in 1 .. Len(q)} \cup {m.answers}
        <4>1. 1 .. (Len(q) + 1) = (1 .. Len(q)) \cup {Len(q) + 1}
          BY <3>2
        <4>. QED BY <3>2, <4>1
      <3>4. ToSet(Append(q, m.answers)) = ToSet(q) \cup {m.answers}
        BY <3>2, <3>3 DEF ToSet
      <3>. QED BY <2>5, <3>4 DEF q
    <2>7. {ms[k].answers : k \in (a + 1) .. (n + 1)} = {ms[k].answers : k \in (a + 1) .. n} \cup {m.answers}
      <3>1. (a + 1) .. (n + 1) = ((a + 1) .. n) \cup {n + 1}
        BY <1>0
      <3>. QED BY <3>1 DEF m
    <2>8. \A k \in (a + 1) .. (n + 1) : ms[k].role = "tool"
      <3>1. \A k \in (a + 1) .. (n + 1) : k \in (a + 1) .. n \/ k = n + 1
        BY <1>0
      <3>. QED BY <1>2, <2>2, <3>1 DEF m
    <2>9. ASSUME NEW i \in DOMAIN us, us[i].results # <<>> PROVE i > 1 /\ us[i - 1].calls # <<>>
      <3>1. CASE i = l
        BY <1>0, <2>1, <2>2, <2>3, <2>4, <3>1
      <3>2. CASE i # l
        <4>1. i \in 1 .. (l - 1) /\ i \in DOMAIN ts
          BY <1>0, <1>1, <2>3, <3>2
        <4>2. i > 1 /\ ts[i - 1].calls # <<>>
          BY <2>3, <2>9, <4>1 DEF Turned
        <4>3. i - 1 \in 1 .. (l - 1)
          BY <1>0, <4>1, <4>2
        <4>. QED BY <2>3, <4>2, <4>3
      <3>. QED BY <3>1, <3>2
    <2>10. ASSUME NEW i \in 1 .. (Len(us) - 1), us[i].calls # <<>>
           PROVE  \/ ToSet(us[i + 1].results) = ToSet(us[i].calls)
                  \/ i + 1 = Len(us) /\ n + 1 > 0 /\ m.role = "tool"
      <3>1. CASE i + 1 = l
        BY <1>0, <1>2, <2>3, <3>1
      <3>2. CASE i + 1 # l
        <4>1. i \in 1 .. (l - 1) /\ i + 1 \in 1 .. (l - 1)
          BY <1>0, <2>3, <3>2
        <4>2. ToSet(ts[i + 1].results) = ToSet(ts[i].calls)
          BY <2>3, <2>10, <3>2, <4>1 DEF Turned, l
        <4>. QED BY <2>3, <4>1, <4>2
      <3>. QED BY <3>1, <3>2
    <2>11. a \in 1 .. ((n + 1) - 1) /\ us[l - 1].calls = ms[a].calls
      BY <1>0, <2>2, <2>3, <2>4
    <2>12. us # <<>>
      BY <1>0, <2>1, <2>3
    <2>13. \E b \in 1 .. ((n + 1) - 1) :
                /\ ms[b].role # "tool" /\ \A k \in (b + 1) .. (n + 1) : ms[k].role = "tool"
                /\ ms[b].calls # <<>> /\ us[Len(us) - 1].calls = ms[b].calls
                /\ ToSet(us[Len(us)].results) = {ms[k].answers : k \in (b + 1) .. (n + 1)}
      BY <2>2, <2>3, <2>6, <2>7, <2>8, <2>11
    <2>14. Len(us) > 1 /\ IsList(us[Len(us)]) /\ us[Len(us)].calls = <<>>
      BY <2>1, <2>3, <2>5
    <2>15. Turned(ms, n + 1, us)
      <3>1. n + 1 # 0 /\ n + 1 > 0
        BY <1>0
      <3>2. m.role = "tool" /\ m = ms[n + 1]
        BY <1>2 DEF m
      <3>. QED BY <2>9, <2>10, <2>13, <2>14, <3>1, <3>2 DEF Turned
    <2>. QED BY <2>15 DEF us, m
  <1>3. CASE m.role = "tool" /\ ~(n > 0 /\ ms[n].role = "tool")
    <2>1. n > 0
      <3>1. n = 0 => m = ms[1] /\ ms # <<>>
        BY <1>0 DEF m
      <3>. QED BY <1>0, <1>3, <3>1 DEF Half
    <2>2. ms[n].role # "tool" /\ n \in DOMAIN ms
      BY <1>0, <1>3, <2>1
    <2>3. m.answers \in ToSet(ms[n].calls)
      <3>1. n + 1 \in AnswersAfter(ms, n)
        <4>1. \A k \in (n + 1) .. (n + 1) : k = n + 1
          BY <1>0
        <4>. QED BY <1>0, <1>3, <4>1 DEF AnswersAfter, m
      <3>2. m.answers \in AnswersOf(ms, n)
        BY <3>1 DEF AnswersOf, m
      <3>. QED BY <2>2, <3>2 DEF Half
    <2>4. ms[n].calls # <<>>
      BY <2>3 DEF ToSet
    <2>5. ts # <<>> /\ ~IsList(ts[l]) /\ ts[l].calls = ms[n].calls
      BY <2>1, <2>2, <2>4 DEF Turned
    <2>6. Len(us) = l + 1 /\ (\A i \in 1 .. l : us[i] = ts[i]) /\ us[l + 1] = AnthropicTurn(m)
      BY <1>0, <1>3, <2>5, AddedTurn DEF IsTool
    <2>7. l > 0
      BY <1>0, <2>5
    <2>. HIDE DEF us, l
    <2>8. us[l + 1].calls = <<>> /\ us[l + 1].results = <<m.answers>> /\ IsList(us[l + 1])
      <3>1. m.calls = <<>>
        BY <1>0, <1>3 DEF MessageType
      <3>2. /\ AnthropicTurn(m).calls = m.calls /\ AnthropicTurn(m).results = <<m.answers>>
            /\ IsList(AnthropicTurn(m))
        BY <1>0, <1>3, TurnTypes
      <3>. QED BY <2>6, <3>1, <3>2
    <2>9. ASSUME NEW i \in DOMAIN us, us[i].results # <<>> PROVE i > 1 /\ us[i - 1].calls # <<>>
      <3>1. CASE i = l + 1
        <4>1. i > 1 /\ i - 1 \in 1 .. l /\ i - 1 = l
          BY <1>0, <2>7, <3>1
        <4>. QED BY <2>4, <2>5, <2>6, <4>1
      <3>2. CASE i # l + 1
        <4>1. i \in 1 .. l
          BY <1>0, <1>1, <2>6, <3>2
        <4>2. i > 1 /\ ts[i - 1].calls # <<>>
          BY <1>0, <2>6, <2>9, <4>1 DEF Turned
        <4>3. i - 1 \in 1 .. l
          BY <1>0, <4>1, <4>2
        <4>. QED BY <2>6, <4>2, <4>3
      <3>. QED BY <3>1, <3>2
    <2>10. ASSUME NEW i \in 1 .. (Len(us) - 1), us[i].calls # <<>>
           PROVE  \/ ToSet(us[i + 1].results) = ToSet(us[i].calls)
                  \/ i + 1 = Len(us) /\ n + 1 > 0 /\ m.role = "tool"
      <3>1. CASE i = l
        BY <1>0, <1>3, <2>6, <3>1
      <3>2. CASE i # l
        <4>1. i \in 1 .. (l - 1) /\ i + 1 \in 1 .. l /\ i \in 1 .. l
          BY <1>0, <2>6, <3>2
        <4>2. ToSet(ts[i + 1].results) = ToSet(ts[i].calls)
          BY <2>2, <2>6, <2>10, <4>1 DEF Turned, l
        <4>. QED BY <2>6, <4>1, <4>2
      <3>. QED BY <3>1, <3>2
    <2>11. /\ n \in 1 .. ((n + 1) - 1) /\ \A k \in (n + 1) .. (n + 1) : ms[k].role = "tool"
           /\ us[(l + 1) - 1].calls = ms[n].calls
           /\ ToSet(us[l + 1].results) = {ms[k].answers : k \in (n + 1) .. (n + 1)}
      <3>1. (n + 1) .. (n + 1) = {n + 1}
        BY <1>0
      <3>2. (l + 1) - 1 = l /\ l \in 1 .. l
        BY <1>0, <2>7
      <3>3. ToSet(<<m.answers>>) = {m.answers}
        BY DEF ToSet
      <3>4. n \in 1 .. ((n + 1) - 1)
        BY <1>0, <2>1
      <3>. QED BY <1>3, <2>5, <2>6, <2>8, <3>1, <3>2, <3>3, <3>4 DEF m
    <2>12. \E b \in 1 .. ((n + 1) - 1) :
                /\ ms[b].role # "tool" /\ \A k \in (b + 1) .. (n + 1) : ms[k].role = "tool"
                /\ ms[b].calls # <<>> /\ us[Len(us) - 1].calls = ms[b].calls
                /\ ToSet(us[Len(us)].results) = {ms[k].answers : k \in (b + 1) .. (n + 1)}
      BY <2>2, <2>4, <2>6, <2>11
    <2>13. Len(us) > 1 /\ IsList(us[Len(us)]) /\ us[Len(us)].calls = <<>>
      BY <1>0, <2>6, <2>7, <2>8
    <2>14. Turned(ms, n + 1, us)
      <3>1. n + 1 # 0 /\ n + 1 > 0
        BY <1>0
      <3>2. m.role = "tool" /\ m = ms[n + 1]
        BY <1>3 DEF m
      <3>. QED BY <2>9, <2>10, <2>12, <2>13, <3>1, <3>2 DEF Turned
    <2>. QED BY <2>14 DEF us, m
  <1>4. CASE m.role # "tool"
    <2>1. /\ \A i \in 1 .. (l - 1) : ts[i].calls # <<>> => ToSet(ts[i + 1].results) = ToSet(ts[i].calls)
          /\ ts # <<>> => ts[l].calls = <<>>
      BY <1>4, RoundComplete DEF m
    <2>2. \A i \in DOMAIN ts : ts[i].results # <<>> => i > 1 /\ ts[i - 1].calls # <<>>
      BY DEF Turned
    <2>3. CASE m.role = "system" \/ (m.role = "orphan" /\ ts # <<>> /\ IsList(ts[l]))
      <3>1. us = ts /\ m.calls = <<>>
        <4>1. us = ts
          BY <1>0, <2>3, AddedNothing
        <4>2. m.calls = <<>>
          BY <1>0, <2>3 DEF MessageType
        <4>. QED BY <4>1, <4>2
      <3>2. Turned(ms, n + 1, ts)
        <4>1. n + 1 # 0 /\ n + 1 > 0 /\ m = ms[n + 1]
          BY <1>0 DEF m
        <4>. QED BY <1>4, <2>1, <2>2, <3>1, <4>1 DEF Turned
      <3>. QED BY <3>1, <3>2 DEF m
    <2>4. CASE ~(m.role = "system" \/ (m.role = "orphan" /\ ts # <<>> /\ IsList(ts[l])))
      <3>1. Len(us) = l + 1 /\ (\A i \in 1 .. l : us[i] = ts[i]) /\ us[l + 1] = AnthropicTurn(m)
        BY <1>0, <1>4, <2>4, AddedTurn DEF IsTool
      <3>2. us[l + 1].calls = m.calls /\ us[l + 1].results = <<>>
        <4>1. AnthropicTurn(m).calls = m.calls /\ AnthropicTurn(m).results = <<>>
          BY <1>0, <1>4, TurnTypes
        <4>. QED BY <3>1, <4>1
      <3>3. m.calls # <<>> => ~IsList(us[l + 1])
        <4>1. m.calls # <<>> => m.role = "assistant"
          BY <1>0 DEF MessageType
        <4>2. m.role = "assistant" => ~IsList(AnthropicTurn(m))
          BY <1>0, TurnTypes
        <4>. QED BY <3>1, <4>1, <4>2
      <3>. HIDE DEF us, l
      <3>4. ASSUME NEW i \in DOMAIN us, us[i].results # <<>> PROVE i > 1 /\ us[i - 1].calls # <<>>
        <4>1. i \in 1 .. l
          BY <1>0, <1>1, <3>1, <3>2, <3>4
        <4>2. i > 1 /\ ts[i - 1].calls # <<>>
          BY <1>0, <2>2, <3>1, <3>4, <4>1
        <4>3. i - 1 \in 1 .. l
          BY <1>0, <4>1, <4>2
        <4>. QED BY <3>1, <4>2, <4>3
      <3>5. ASSUME NEW i \in 1 .. (Len(us) - 1), us[i].calls # <<>>
            PROVE  ToSet(us[i + 1].results) = ToSet(us[i].calls)
        <4>1. i \in 1 .. l /\ ts[i].calls # <<>>
          BY <1>0, <3>1, <3>5
        <4>2. i # l
          <5>1. i = l => ts # <<>>
            BY <1>0, <4>1
          <5>. QED BY <2>1, <4>1, <5>1
        <4>3. i \in 1 .. (l - 1) /\ i + 1 \in 1 .. l
          BY <1>0, <4>1, <4>2
        <4>. QED BY <2>1, <3>1, <4>1, <4>3
      <3>6. us # <<>>
        BY <1>0, <3>1
      <3>7. Turned(ms, n + 1, us)
        <4>1. n + 1 # 0 /\ n + 1 > 0 /\ m = ms[n + 1] /\ Len(us) = l + 1
          BY <1>0, <3>1 DEF m
        <4>. QED BY <1>4, <3>2, <3>3, <3>4, <3>5, <3>6, <4>1 DEF Turned
      <3>. QED BY <3>7 DEF us, m
    <2>. QED BY <2>3, <2>4
  <1>. QED BY <1>2, <1>3, <1>4

\* Anthropic's form of a history that upstreams accept is one that Anthropic accepts.
LEMMA AnthropicAccepts ==
  ASSUME NEW ms \in Seq(MessageType), Half(ms, {})
  PROVE  StrictTurns(ToAnthropic(ms))
  <1>1. PICK f \in [0 .. Len(ms) -> Seq(TurnType)] : AddedUp(f, ms) /\ ToAnthropic(ms) = f[Len(ms)]
    BY TurnsAre
  <1>. DEFINE S == {n \in Nat : n <= Len(ms) => Turned(ms, n, f[n])}
  <1>0. Len(ms) \in Nat
    OBVIOUS
  <1>2. 0 \in S
    <2>1. f[0] = <<>>
      BY <1>1 DEF AddedUp
    <2>2. Turned(ms, 0, <<>>)
      BY DEF Turned
    <2>. QED BY <2>1, <2>2
  <1>3. ASSUME NEW n \in Nat, n \in S PROVE n + 1 \in S
    <2>. SUFFICES ASSUME n + 1 <= Len(ms) PROVE Turned(ms, n + 1, f[n + 1])
      OBVIOUS
    <2>1. n + 1 \in 1 .. Len(ms) /\ (n + 1) - 1 = n /\ n \in 0 .. Len(ms) /\ n < Len(ms)
      BY <1>0
    <2>2. f[n + 1] = Added(f[n], ms[n + 1]) /\ f[n] \in Seq(TurnType)
      BY <1>1, <2>1 DEF AddedUp
    <2>3. Turned(ms, n, f[n])
      BY <1>3, <2>1
    <2>. HIDE DEF S
    <2>. QED BY <2>1, <2>2, <2>3, TurnedOn
  <1>. HIDE DEF S
  <1>4. Nat \subseteq S
    BY <1>2, <1>3, SetInduction
  <1>. DEFINE ts == f[Len(ms)]
  <1>5. Turned(ms, Len(ms), ts) /\ ts \in Seq(TurnType) /\ Len(ms) \in 0 .. Len(ms)
    BY <1>0, <1>1, <1>4 DEF S
  <1>. HIDE DEF ts
  <1>6. /\ \A i \in 1 .. (Len(ts) - 1) : ts[i].calls # <<>> => ToSet(ts[i + 1].results) = ToSet(ts[i].calls)
        /\ ts # <<>> => ts[Len(ts)].calls = <<>>
    BY <1>0, <1>5, RoundComplete
  <1>7. ASSUME NEW i \in DOMAIN ts, ts[i].calls # <<>> PROVE i \in 1 .. (Len(ts) - 1)
    <2>1. i \in 1 .. Len(ts) /\ Len(ts) \in Nat /\ ts # <<>>
      BY <1>5
    <2>2. i # Len(ts)
      BY <1>6, <1>7, <2>1
    <2>. QED BY <2>1, <2>2
  <1>8. StrictTurns(ts)
    <2>1. ASSUME NEW i \in DOMAIN ts, ts[i].calls # <<>>
          PROVE  i < Len(ts) /\ ToSet(ts[i + 1].results) = ToSet(ts[i].calls)
      <3>1. i \in 1 .. (Len(ts) - 1) /\ Len(ts) \in Nat
        BY <1>5, <1>7, <2>1
      <3>. QED BY <1>6, <2>1, <3>1
    <2>2. \A i \in DOMAIN ts : ts[i].results # <<>> => i > 1 /\ ts[i - 1].calls # <<>>
      BY <1>5 DEF Turned
    <2>. QED BY <2>1, <2>2 DEF StrictTurns
  <1>. QED BY <1>1, <1>8 DEF ts

-----------------------------------------------------------------------------
(* Sequences *)

OnceEach(s) == \A i, j \in DOMAIN s : s[i] = s[j] => i = j

LEMMA AppendIs ==
  ASSUME NEW X, NEW s \in Seq(X), NEW x \in X
  PROVE  Append(s, x) = s \o <<x>>
  OBVIOUS

LEMMA ConcatSet ==
  ASSUME NEW X, NEW s \in Seq(X), NEW t \in Seq(X)
  PROVE  ToSet(s \o t) = ToSet(s) \cup ToSet(t) /\ s \o t \in Seq(X)
  <1>0. /\ Len(s) \in Nat /\ Len(t) \in Nat /\ DOMAIN (s \o t) = 1 .. (Len(s) + Len(t))
        /\ DOMAIN s = 1 .. Len(s) /\ DOMAIN t = 1 .. Len(t)
        /\ \A i \in 1 .. Len(s) : (s \o t)[i] = s[i]
        /\ \A i \in 1 .. Len(t) : (s \o t)[Len(s) + i] = t[i]
        /\ s \o t \in Seq(X)
    OBVIOUS
  <1>. DEFINE r == s \o t
  <1>. HIDE DEF r
  <1>1. ASSUME NEW x \in ToSet(r) PROVE x \in ToSet(s) \cup ToSet(t)
    <2>1. PICK i \in 1 .. (Len(s) + Len(t)) : x = r[i]
      BY <1>0, <1>1 DEF ToSet, r
    <2>2. CASE i \in 1 .. Len(s)
      BY <1>0, <2>1, <2>2 DEF ToSet, r
    <2>3. CASE i \notin 1 .. Len(s)
      <3>1. i - Len(s) \in 1 .. Len(t) /\ Len(s) + (i - Len(s)) = i
        BY <1>0, <2>1, <2>3
      <3>2. r[i] = t[i - Len(s)]
        BY <1>0, <3>1 DEF r
      <3>. QED BY <1>0, <2>1, <3>1, <3>2 DEF ToSet
    <2>. QED BY <2>2, <2>3
  <1>2. ASSUME NEW x \in ToSet(s) PROVE x \in ToSet(r)
    BY <1>0, <1>2 DEF ToSet, r
  <1>3. ASSUME NEW x \in ToSet(t) PROVE x \in ToSet(r)
    <2>1. PICK i \in 1 .. Len(t) : x = t[i]
      BY <1>0, <1>3 DEF ToSet
    <2>2. Len(s) + i \in 1 .. (Len(s) + Len(t))
      BY <1>0
    <2>. QED BY <1>0, <2>1, <2>2 DEF ToSet, r
  <1>. QED BY <1>0, <1>1, <1>2, <1>3 DEF r

LEMMA AppendSet ==
  ASSUME NEW X, NEW s \in Seq(X), NEW x \in X
  PROVE  ToSet(Append(s, x)) = ToSet(s) \cup {x} /\ Append(s, x) \in Seq(X)
  <1>1. <<x>> \in Seq(X) /\ ToSet(<<x>>) = {x}
    BY DEF ToSet
  <1>2. ToSet(s \o <<x>>) = ToSet(s) \cup ToSet(<<x>>) /\ s \o <<x>> \in Seq(X)
    BY <1>1, ConcatSet
  <1>3. Append(s, x) = s \o <<x>>
    BY AppendIs
  <1>. QED BY <1>1, <1>2, <1>3

\* What occurs once is gone when its first occurrence is.
LEMMA RemovedOnce ==
  ASSUME NEW s \in Seq(Nat), OnceEach(s), NEW e \in ToSet(s)
  PROVE  /\ RemoveFirst(s, e) \in Seq(Nat)
         /\ OnceEach(RemoveFirst(s, e))
         /\ ToSet(RemoveFirst(s, e)) = ToSet(s) \ {e}
  <1>0. Len(s) \in Nat /\ DOMAIN s = 1 .. Len(s)
    OBVIOUS
  <1>1. PICK i \in 1 .. Len(s) : s[i] = e
    BY <1>0 DEF ToSet
  <1>2. {j \in 1 .. Len(s) : s[j] = e} = {i}
    BY <1>0, <1>1 DEF OnceEach
  <1>3. Min({i}) = i
    BY DEF Min
  <1>4. SelectInSeq(s, LAMBDA v : v = e) = i
    BY <1>2, <1>3 DEF SelectInSeq
  <1>5. RemoveFirst(s, e) = RemoveAt(s, i)
    BY <1>1, <1>4 DEF RemoveFirst
  <1>. DEFINE r == RemoveAt(s, i)
  <1>6. /\ r \in Seq(Nat) /\ Len(r) = Len(s) - 1
        /\ \A j \in 1 .. (i - 1) : r[j] = s[j]
        /\ \A j \in i .. (Len(s) - 1) : r[j] = s[j + 1]
    <2>. DEFINE a == SubSeq(s, 1, i - 1)
                b == SubSeq(s, i + 1, Len(s))
    <2>0. i \in Nat /\ i >= 1 /\ i <= Len(s)
      BY <1>0, <1>1
    <2>1. /\ a \in Seq(Nat) /\ Len(a) = i - 1 /\ b \in Seq(Nat) /\ Len(b) = Len(s) - i
          /\ \A j \in 1 .. (i - 1) : a[j] = s[j]
          /\ \A j \in 1 .. (Len(s) - i) : b[j] = s[j + i]
      <3>1. a \in Seq(Nat) /\ Len(a) = i - 1 /\ \A j \in 1 .. (i - 1) : a[j] = s[j]
        BY <1>0, <2>0
      <3>2. b \in Seq(Nat) /\ Len(b) = Len(s) - i
        <4>1. \A j \in (i + 1) .. Len(s) : s[j] \in Nat
          BY <1>0, <2>0
        <4>. DEFINE m == i + 1
        <4>2. m \in Nat /\ m >= 1 /\ (Len(s) + 1) - m = Len(s) - i
          <5>1. Len(s) \in Int /\ i \in Int /\ i + 1 \in Int /\ i + 1 >= 1
            BY <1>0, <2>0
          <5>2. (Len(s) + 1) - (i + 1) = Len(s) - i
            BY <5>1
          <5>. QED BY <2>0, <5>1, <5>2
        <4>3. SubSeq(s, m, Len(s)) \in Seq(Nat)
          <5>. HIDE DEF m
          <5>. QED BY <1>0, <4>2
        <4>4. Len(SubSeq(s, m, Len(s))) = (Len(s) + 1) - m
          <5>1. m <= Len(s) + 1
            BY <1>0, <2>0
          <5>. HIDE DEF m
          <5>. QED BY <1>0, <4>2, <5>1
        <4>. QED BY <4>2, <4>3, <4>4
      <3>3. ASSUME NEW j \in 1 .. (Len(s) - i) PROVE b[j] = s[j + i]
        <4>1. b[j] = s[(i + 1) + j - 1] /\ (i + 1) + j - 1 = j + i
          BY <1>0, <2>0
        <4>. QED BY <4>1
      <3>. QED BY <3>1, <3>2, <3>3
    <2>. HIDE DEF a, b
    <2>2. /\ a \o b \in Seq(Nat) /\ Len(a \o b) = Len(s) - 1
          /\ \A j \in 1 .. (i - 1) : (a \o b)[j] = a[j]
          /\ \A j \in 1 .. (Len(s) - i) : (a \o b)[(i - 1) + j] = b[j]
      <3>1. /\ a \o b \in Seq(Nat) /\ Len(a \o b) = Len(a) + Len(b)
            /\ \A j \in 1 .. Len(a) : (a \o b)[j] = a[j]
            /\ \A j \in 1 .. Len(b) : (a \o b)[Len(a) + j] = b[j]
        <4>1. a \in Seq(Nat) /\ b \in Seq(Nat)
          BY <2>1
        <4>. QED BY <4>1
      <3>2. Len(a) + Len(b) = Len(s) - 1
        BY <1>0, <2>0, <2>1
      <3>. QED BY <2>1, <3>1, <3>2
    <2>3. ASSUME NEW j \in i .. (Len(s) - 1) PROVE (a \o b)[j] = s[j + 1]
      <3>1. j - i + 1 \in 1 .. (Len(s) - i) /\ (i - 1) + (j - i + 1) = j /\ (j - i + 1) + i = j + 1
        BY <1>0, <1>1, <2>3
      <3>2. (a \o b)[(i - 1) + (j - i + 1)] = b[j - i + 1]
        BY <2>2, <3>1
      <3>3. b[j - i + 1] = s[(j - i + 1) + i]
        BY <2>1, <3>1
      <3>. QED BY <3>1, <3>2, <3>3
    <2>4. r = a \o b
      BY DEF RemoveAt, a, b
    <2>. HIDE DEF r
    <2>. QED BY <2>1, <2>2, <2>3, <2>4
  <1>. HIDE DEF r
  <1>7. DOMAIN r = 1 .. (Len(s) - 1)
    BY <1>0, <1>1, <1>6
  <1>. DEFINE at(j) == IF j < i THEN j ELSE j + 1
  <1>8. \A j \in DOMAIN r : at(j) \in 1 .. Len(s) /\ r[j] = s[at(j)] /\ at(j) # i
    <2>1. ASSUME NEW j \in DOMAIN r PROVE at(j) \in 1 .. Len(s) /\ r[j] = s[at(j)] /\ at(j) # i
      <3>0. j \in 1 .. (Len(s) - 1) /\ i \in Nat /\ i >= 1
        BY <1>0, <1>1, <1>7, <2>1
      <3>1. CASE j < i
        <4>1. at(j) = j /\ j \in 1 .. (i - 1) /\ j \in 1 .. Len(s) /\ j # i
          BY <1>0, <3>0, <3>1
        <4>. QED BY <1>6, <4>1
      <3>2. CASE ~(j < i)
        <4>1. at(j) = j + 1 /\ j \in i .. (Len(s) - 1) /\ j + 1 \in 1 .. Len(s) /\ j + 1 # i
          BY <1>0, <3>0, <3>2
        <4>. QED BY <1>6, <4>1
      <3>. QED BY <3>1, <3>2
    <2>. QED BY <2>1
  <1>9. OnceEach(r)
    <2>1. ASSUME NEW j \in DOMAIN r, NEW k \in DOMAIN r, r[j] = r[k] PROVE j = k
      <3>1. at(j) = at(k)
        BY <1>0, <1>8, <2>1 DEF OnceEach
      <3>. QED BY <1>0, <1>1, <1>7, <3>1
    <2>. QED BY <2>1 DEF OnceEach
  <1>10. ASSUME NEW x \in ToSet(r) PROVE x \in ToSet(s) \ {e}
    <2>1. PICK j \in DOMAIN r : x = r[j]
      BY <1>10 DEF ToSet
    <2>2. x = s[at(j)] /\ at(j) \in 1 .. Len(s) /\ at(j) # i
      BY <1>8, <2>1
    <2>3. x # e
      BY <1>2, <2>2
    <2>. QED BY <1>0, <2>2, <2>3 DEF ToSet
  <1>11. ASSUME NEW x \in ToSet(s) \ {e} PROVE x \in ToSet(r)
    <2>1. PICK k \in 1 .. Len(s) : x = s[k]
      BY <1>0, <1>11 DEF ToSet
    <2>2. k # i
      BY <1>1, <1>11, <2>1
    <2>3. CASE k < i
      <3>1. k \in DOMAIN r /\ r[k] = s[k]
        BY <1>0, <1>1, <1>6, <1>7, <2>1, <2>3
      <3>. QED BY <2>1, <3>1 DEF ToSet
    <2>4. CASE k > i
      <3>1. k - 1 \in DOMAIN r /\ k - 1 \in i .. (Len(s) - 1) /\ (k - 1) + 1 = k
        BY <1>0, <1>1, <1>6, <1>7, <2>1, <2>4
      <3>2. r[k - 1] = s[k]
        BY <1>6, <3>1
      <3>. QED BY <2>1, <3>1, <3>2 DEF ToSet
    <2>. QED BY <1>1, <2>1, <2>2, <2>3, <2>4
  <1>. QED BY <1>5, <1>6, <1>9, <1>10, <1>11 DEF r

-----------------------------------------------------------------------------
(* Entries of the transcript *)

EntryType == {e \in [kind : {"call", "output", "image", "noise", "reasoning"} \cup Speaker, of : Nat] :
                 e.kind = "call" => e.of = 0}

\* The entries of s from the c-th to the n-th neither answer call c nor end its round.
Quiet(s, c, n) == \A i \in c .. n : s[i] # OutputItem(c) /\ s[i].kind \notin Speaker

\* The calls that an output would still reach, and the outputs that reached theirs.
Waiting(s) == {c \in DOMAIN s : s[c] = CallItem /\ Quiet(s, c, Len(s))}
Due(s, o) ==
    /\ s[o].kind = "output" /\ s[o].of # 0 /\ s[o].of < o
    /\ \A i \in s[o].of .. (o - 1) : s[i] # OutputItem(s[o].of)
    /\ \A i \in s[o].of .. o : s[i].kind \notin Speaker
Overlaps(s) ==
    \E c, o, d \in DOMAIN s :
        /\ c < o /\ o < d
        /\ s[c] = CallItem /\ s[o].kind = "output" /\ s[d] = CallItem
        /\ Quiet(s, c, d)

LEMMA OverlapsIs == Overlapping <=> Overlaps(items)
  BY DEF Overlapping, Overlaps, Unanswered, Quiet

LEMMA EntryAdded ==
  ASSUME NEW s \in Seq(EntryType), NEW e \in EntryType
  PROVE  LET t == Append(s, e)
             n == Len(s) + 1
         IN  /\ t \in Seq(EntryType) /\ Len(t) = n /\ t[n] = e /\ n \in Nat
             /\ DOMAIN s = 1 .. Len(s) /\ DOMAIN t = 1 .. n
             /\ \A i \in DOMAIN s : t[i] = s[i]
             /\ Waiting(t) = {c \in Waiting(s) : e # OutputItem(c) /\ e.kind \notin Speaker}
                             \cup (IF e = CallItem THEN {n} ELSE {})
             /\ \A o \in DOMAIN s : Due(t, o) => Due(s, o)
             /\ Overlaps(s) => Overlaps(t)
  <1>. DEFINE t == Append(s, e)
              n == Len(s) + 1
  <1>0. /\ t \in Seq(EntryType) /\ Len(t) = n /\ t[n] = e /\ n \in Nat
        /\ DOMAIN s = 1 .. Len(s) /\ DOMAIN t = 1 .. n
        /\ \A i \in DOMAIN s : t[i] = s[i]
    OBVIOUS
  <1>01. Len(s) \in Nat /\ n = Len(s) + 1 /\ n \notin DOMAIN s /\ DOMAIN t = DOMAIN s \cup {n}
    BY <1>0
  <1>. HIDE DEF t, n
  <1>1. \A c \in DOMAIN s : Quiet(t, c, n) <=> Quiet(s, c, Len(s)) /\ e # OutputItem(c) /\ e.kind \notin Speaker
    <2>1. ASSUME NEW c \in DOMAIN s
          PROVE  Quiet(t, c, n) <=> Quiet(s, c, Len(s)) /\ e # OutputItem(c) /\ e.kind \notin Speaker
      <3>1. c .. n = (c .. Len(s)) \cup {n} /\ c .. Len(s) \subseteq DOMAIN s
        BY <1>0, <1>01
      <3>. QED BY <1>0, <3>1 DEF Quiet
    <2>. QED BY <2>1
  <1>2. ASSUME NEW c \in Waiting(t)
        PROVE  c \in {x \in Waiting(s) : e # OutputItem(x) /\ e.kind \notin Speaker}
                     \cup (IF e = CallItem THEN {n} ELSE {})
    <2>1. c \in DOMAIN t /\ t[c] = CallItem /\ Quiet(t, c, n)
      BY <1>0, <1>2 DEF Waiting
    <2>2. CASE c = n
      BY <1>0, <2>1, <2>2
    <2>3. CASE c \in DOMAIN s
      BY <1>0, <1>1, <2>1, <2>3 DEF Waiting
    <2>. QED BY <1>01, <2>1, <2>2, <2>3
  <1>3. ASSUME NEW c \in {x \in Waiting(s) : e # OutputItem(x) /\ e.kind \notin Speaker}
        PROVE  c \in Waiting(t)
    <2>1. c \in DOMAIN s /\ s[c] = CallItem /\ Quiet(s, c, Len(s)) /\ e # OutputItem(c) /\ e.kind \notin Speaker
      BY <1>3 DEF Waiting
    <2>. QED BY <1>0, <1>01, <1>1, <2>1 DEF Waiting
  <1>4. ASSUME e = CallItem PROVE n \in Waiting(t)
    <2>1. n .. n = {n}
      BY <1>0
    <2>2. CallItem # OutputItem(n) /\ CallItem.kind \notin Speaker
      BY DEF CallItem, OutputItem, Speaker
    <2>3. Quiet(t, n, n)
      BY <1>0, <1>4, <2>1, <2>2 DEF Quiet
    <2>. QED BY <1>0, <1>01, <1>4, <2>3 DEF Waiting
  <1>5. Waiting(t) = {c \in Waiting(s) : e # OutputItem(c) /\ e.kind \notin Speaker}
                     \cup (IF e = CallItem THEN {n} ELSE {})
    BY <1>2, <1>3, <1>4
  <1>6. ASSUME NEW o \in DOMAIN s, Due(t, o) PROVE Due(s, o)
    <2>1. t[o] = s[o]
      BY <1>0
    <2>2. s[o].of \in Nat
      BY DEF EntryType
    <2>3. \A i \in s[o].of .. o : s[o].of # 0 => i \in DOMAIN s
      BY <1>0, <2>2
    <2>4. /\ s[o].kind = "output" /\ s[o].of # 0 /\ s[o].of < o
          /\ \A i \in s[o].of .. (o - 1) : t[i] # OutputItem(s[o].of)
          /\ \A i \in s[o].of .. o : t[i].kind \notin Speaker
      BY <1>6, <2>1 DEF Due
    <2>5. \A i \in s[o].of .. (o - 1) : i \in s[o].of .. o
      BY <1>0, <2>2
    <2>6. \A i \in s[o].of .. o : t[i] = s[i]
      BY <1>0, <2>3, <2>4
    <2>. QED BY <2>4, <2>5, <2>6 DEF Due
  <1>7. ASSUME Overlaps(s) PROVE Overlaps(t)
    <2>1. PICK c \in DOMAIN s, o \in DOMAIN s, d \in DOMAIN s :
             /\ c < o /\ o < d
             /\ s[c] = CallItem /\ s[o].kind = "output" /\ s[d] = CallItem
             /\ Quiet(s, c, d)
      BY <1>7 DEF Overlaps
    <2>2. \A i \in c .. d : i \in DOMAIN s
      BY <1>0
    <2>3. Quiet(t, c, d)
      BY <1>0, <2>1, <2>2 DEF Quiet
    <2>4. c \in DOMAIN t /\ o \in DOMAIN t /\ d \in DOMAIN t /\ t[c] = s[c] /\ t[o] = s[o] /\ t[d] = s[d]
      BY <1>0, <1>01
    <2>. QED BY <2>1, <2>3, <2>4 DEF Overlaps
  <1>. QED BY <1>0, <1>5, <1>6, <1>7 DEF t, n

-----------------------------------------------------------------------------
(* What is kept while the transcript is read *)

DeferredType == [images : Seq(Plain), texts : Seq(Plain)]

\* Calls in p come after every output; calls in o have one after them.
ResponsesRead(s, ms, p, o, d) ==
    /\ s \in Seq(EntryType) /\ ms \in Seq(MessageType) /\ p \in Seq(Nat) /\ o \in Seq(Nat)
    /\ d \in DeferredType
    /\ OnceEach(o \o p) /\ ToSet(o \o p) = Waiting(s)
    /\ \A c \in ToSet(p) : \A i \in c .. Len(s) : s[i].kind # "output"
    /\ \A c \in ToSet(o) : \E i \in c .. Len(s) : s[i].kind = "output"
    /\ ~Overlaps(s) => Half(ms, ToSet(o))
    /\ \A i \in DOMAIN s : Due(s, i) => Answering(s[i].of, i) \in ToSet(ms)

MessagesRead(ms, o) ==
    /\ ms \in Seq(MessageType) /\ o \in Seq(Nat)
    /\ OnceEach(o) /\ Half(ms, ToSet(o))

FlushedWith(ms, p) == IF p = <<>> THEN ms ELSE Append(ms, Calling(p, 0))

\* Calls in a row are not interrupted by an output: an open call would overlap with them.
LEMMA OneKindWaits ==
  ASSUME NEW s, NEW ms, NEW p, NEW o, NEW d, ResponsesRead(s, ms, p, o, d), ~Overlaps(s)
  PROVE  p = <<>> \/ o = <<>>
  <1>. SUFFICES ASSUME p # <<>>, o # <<>> PROVE Overlaps(s)
    OBVIOUS
  <1>0. s \in Seq(EntryType) /\ p \in Seq(Nat) /\ o \in Seq(Nat)
    BY DEF ResponsesRead
  <1>1. PICK c \in ToSet(o) : TRUE
    <2>1. 1 \in DOMAIN o
      BY <1>0
    <2>. QED BY <2>1 DEF ToSet
  <1>2. PICK x \in ToSet(p) : TRUE
    <2>1. 1 \in DOMAIN p
      BY <1>0
    <2>. QED BY <2>1 DEF ToSet
  <1>3. c \in Waiting(s) /\ x \in Waiting(s)
    <2>1. ToSet(o \o p) = ToSet(o) \cup ToSet(p)
      BY <1>0, ConcatSet
    <2>. QED BY <2>1, <1>1, <1>2 DEF ResponsesRead
  <1>4. c \in DOMAIN s /\ x \in DOMAIN s /\ s[c] = CallItem /\ s[x] = CallItem /\ Quiet(s, c, Len(s))
    BY <1>3 DEF Waiting
  <1>5. PICK i \in c .. Len(s) : s[i].kind = "output"
    BY DEF ResponsesRead
  <1>6. \A k \in x .. Len(s) : s[k].kind # "output"
    BY DEF ResponsesRead
  <1>7. DOMAIN s = 1 .. Len(s) /\ Len(s) \in Nat
    BY <1>0
  <1>8. s[c].kind = "call"
    BY <1>4 DEF CallItem
  <1>9. i \in DOMAIN s /\ c < i /\ i < x
    BY <1>4, <1>5, <1>6, <1>7, <1>8
  <1>10. Quiet(s, c, x)
    <2>1. \A k \in c .. x : k \in c .. Len(s)
      BY <1>4, <1>7
    <2>. QED BY <1>4, <2>1 DEF Quiet
  <1>. QED BY <1>4, <1>5, <1>9, <1>10 DEF Overlaps

LEMMA CallingType ==
  ASSUME NEW p \in Seq(Nat), NEW i \in Nat
  PROVE  Calling(p, i) \in MessageType /\ Calling(p, i).role = "assistant" /\ Calling(p, i).calls = p
  BY DEF Calling, Said, MessageType

LEMMA AnsweringType ==
  ASSUME NEW c \in Nat, NEW i \in Nat
  PROVE  /\ Answering(c, i) \in MessageType /\ Answering(c, i).role = "tool"
         /\ Answering(c, i).answers = c /\ Answering(c, i).calls = <<>>
  <1>. DEFINE m == Said("tool", i)
  <1>1. /\ m \in [role : {"system", "user", "assistant", "tool", "orphan"}, calls : Seq(Nat),
                   answers : Nat, item : Nat, image : BOOLEAN]
        /\ m.role = "tool" /\ m.calls = <<>>
    BY DEF Said
  <1>2. Answering(c, i) = [m EXCEPT !.answers = c]
    BY DEF Answering
  <1>. HIDE DEF m
  <1>. QED BY <1>1, <1>2 DEF MessageType

LEMMA SaidType ==
  ASSUME NEW role \in Speaker, NEW i \in Nat
  PROVE  /\ Said(role, i) \in MessageType /\ Said(role, i).role = role /\ Said(role, i).role # "tool"
         /\ Said(role, i).calls = <<>>
  BY DEF Said, MessageType, Speaker

\* A message that neither calls nor answers goes on a history whose calls are answered.
LEMMA HalfSaid ==
  ASSUME NEW ms \in Seq(MessageType), Half(ms, {}), NEW m \in MessageType, m.role # "tool"
  PROVE  Half(Append(ms, m), ToSet(m.calls))
  <1>1. <<m>> \in Seq(MessageType)
    OBVIOUS
  <1>2. Half(ms \o <<m>>, ToSet(m.calls))
    BY <1>1, HalfOne, HalfConcat
  <1>. QED BY <1>2, AppendIs

LEMMA NoElement == ToSet(<<>>) = {}
  BY DEF ToSet

LEMMA FlushedFacts ==
  ASSUME NEW s, NEW ms, NEW p, NEW o, NEW d, ResponsesRead(s, ms, p, o, d)
  PROVE  /\ FlushedWith(ms, p) \in Seq(MessageType)
         /\ ToSet(ms) \subseteq ToSet(FlushedWith(ms, p))
         /\ ~Overlaps(s) => Half(FlushedWith(ms, p), ToSet(o \o p))
  <1>0. ms \in Seq(MessageType) /\ p \in Seq(Nat) /\ o \in Seq(Nat)
    BY DEF ResponsesRead
  <1>1. CASE p = <<>>
    <2>1. o \o p = o
      BY <1>0, <1>1
    <2>. QED BY <1>0, <1>1, <2>1 DEF FlushedWith, ResponsesRead
  <1>2. CASE p # <<>>
    <2>1. FlushedWith(ms, p) = Append(ms, Calling(p, 0))
      BY <1>2 DEF FlushedWith
    <2>2. Calling(p, 0) \in MessageType /\ Calling(p, 0).role # "tool" /\ Calling(p, 0).calls = p
      BY <1>0, CallingType
    <2>3. ASSUME ~Overlaps(s) PROVE Half(FlushedWith(ms, p), ToSet(o \o p))
      <3>1. o = <<>>
        BY <1>2, <2>3, OneKindWaits
      <3>2. o \o p = p
        BY <1>0, <3>1
      <3>3. Half(ms, ToSet(o))
        BY <2>3 DEF ResponsesRead
      <3>4. Half(ms, {})
        BY <3>1, <3>3, NoElement
      <3>. QED BY <1>0, <2>1, <2>2, <3>2, <3>4, HalfSaid
    <2>. QED BY <1>0, <2>1, <2>2, <2>3, AppendSet
  <1>. QED BY <1>1, <1>2

LEMMA EntryKinds ==
  /\ CallItem \in EntryType /\ CallItem.kind = "call" /\ CallItem.kind # "output" /\ CallItem.kind \notin Speaker
  /\ ReasoningItem \in EntryType /\ ReasoningItem.kind = "reasoning" /\ ReasoningItem.kind \notin Speaker
  /\ \A r \in BOOLEAN : /\ ImageItem(r) \in EntryType
                        /\ ImageItem(r).kind \notin {"call", "output"} \cup Speaker
  /\ \A role \in Speaker : /\ MessageItem(role) \in EntryType /\ MessageItem(role).kind \in Speaker
                           /\ MessageItem(role).kind \notin {"call", "output"}
  /\ \A c \in Nat : /\ OutputItem(c) \in EntryType /\ OutputItem(c).kind = "output" /\ OutputItem(c).of = c
                    /\ OutputItem(c).kind \notin {"call"} \cup Speaker
  BY DEF CallItem, ReasoningItem, ImageItem, MessageItem, OutputItem, EntryType, Speaker

\* An entry that neither calls nor answers nor speaks changes nothing of the rounds.
LEMMA BystanderKeeps ==
  ASSUME NEW s, NEW ms, NEW p, NEW o, NEW d, ResponsesRead(s, ms, p, o, d),
         NEW e \in EntryType, e.kind \notin {"call", "output"} \cup Speaker
  PROVE  ResponsesRead(Append(s, e), ms, p, o, d)
  <1>. DEFINE t == Append(s, e)
              n == Len(s) + 1
  <1>1. s \in Seq(EntryType) /\ Len(s) \in Nat
    BY DEF ResponsesRead
  <1>2. /\ t \in Seq(EntryType) /\ Len(t) = n /\ t[n] = e /\ n \in Nat
        /\ DOMAIN s = 1 .. Len(s) /\ DOMAIN t = 1 .. n
        /\ \A i \in DOMAIN s : t[i] = s[i]
        /\ Waiting(t) = {c \in Waiting(s) : e # OutputItem(c) /\ e.kind \notin Speaker}
                        \cup (IF e = CallItem THEN {n} ELSE {})
        /\ \A i \in DOMAIN s : Due(t, i) => Due(s, i)
        /\ Overlaps(s) => Overlaps(t)
    BY <1>1, EntryAdded
  <1>. HIDE DEF t
  <1>3. Waiting(t) = Waiting(s)
    <2>1. e # CallItem /\ \A c \in Waiting(s) : e # OutputItem(c)
      BY DEF CallItem, OutputItem
    <2>. QED BY <1>2, <2>1
  <1>4. ToSet(o \o p) = Waiting(s) /\ ToSet(o \o p) = ToSet(o) \cup ToSet(p)
    BY ConcatSet DEF ResponsesRead
  <1>5. \A c \in Waiting(s) : c \in DOMAIN s
    BY DEF Waiting
  <1>6. \A c \in ToSet(p) : \A i \in c .. Len(t) : t[i].kind # "output"
    <2>1. ASSUME NEW c \in ToSet(p), NEW i \in c .. Len(t) PROVE t[i].kind # "output"
      <3>1. c \in DOMAIN s
        BY <1>4, <1>5
      <3>2. CASE i = n
        BY <1>2, <3>2
      <3>3. CASE i # n
        <4>1. i \in c .. Len(s) /\ i \in DOMAIN s
          BY <1>1, <1>2, <2>1, <3>1, <3>3
        <4>. QED BY <1>2, <4>1 DEF ResponsesRead
      <3>. QED BY <3>2, <3>3
    <2>. QED BY <2>1
  <1>7. \A c \in ToSet(o) : \E i \in c .. Len(t) : t[i].kind = "output"
    <2>1. ASSUME NEW c \in ToSet(o) PROVE \E i \in c .. Len(t) : t[i].kind = "output"
      <3>1. c \in DOMAIN s
        BY <1>4, <1>5
      <3>2. PICK i \in c .. Len(s) : s[i].kind = "output"
        BY <2>1 DEF ResponsesRead
      <3>3. i \in DOMAIN s /\ i \in c .. Len(t)
        BY <1>1, <1>2, <3>1, <3>2
      <3>. QED BY <1>2, <3>2, <3>3
    <2>. QED BY <2>1
  <1>8. \A i \in DOMAIN t : Due(t, i) => Answering(t[i].of, i) \in ToSet(ms)
    <2>1. ASSUME NEW i \in DOMAIN t, Due(t, i) PROVE Answering(t[i].of, i) \in ToSet(ms)
      <3>1. i # n
        BY <1>2, <2>1 DEF Due
      <3>2. i \in DOMAIN s
        BY <1>1, <1>2, <3>1
      <3>. QED BY <1>2, <2>1, <3>2 DEF ResponsesRead
    <2>. QED BY <2>1
  <1>9. ResponsesRead(t, ms, p, o, d)
    BY <1>2, <1>3, <1>6, <1>7, <1>8 DEF ResponsesRead
  <1>. QED BY <1>9 DEF t

\* A call that is read waits with those read since the last output.
LEMMA CallKeeps ==
  ASSUME NEW s, NEW ms, NEW p, NEW o, NEW d, ResponsesRead(s, ms, p, o, d)
  PROVE  ResponsesRead(Append(s, CallItem), ms, Append(p, Len(s) + 1), o, d)
  <1>. DEFINE t == Append(s, CallItem)
              n == Len(s) + 1
              q == Append(p, n)
  <1>1. s \in Seq(EntryType) /\ Len(s) \in Nat /\ p \in Seq(Nat) /\ o \in Seq(Nat)
    BY DEF ResponsesRead
  <1>2. /\ t \in Seq(EntryType) /\ Len(t) = n /\ t[n] = CallItem /\ n \in Nat
        /\ DOMAIN s = 1 .. Len(s) /\ DOMAIN t = 1 .. n
        /\ \A i \in DOMAIN s : t[i] = s[i]
        /\ Waiting(t) = {c \in Waiting(s) : CallItem # OutputItem(c) /\ CallItem.kind \notin Speaker}
                        \cup (IF CallItem = CallItem THEN {n} ELSE {})
        /\ \A i \in DOMAIN s : Due(t, i) => Due(s, i)
        /\ Overlaps(s) => Overlaps(t)
    BY <1>1, EntryKinds, EntryAdded
  <1>. HIDE DEF t
  <1>3. Waiting(t) = Waiting(s) \cup {n}
    <2>1. \A c \in Waiting(s) : CallItem # OutputItem(c)
      BY DEF CallItem, OutputItem
    <2>. QED BY <1>2, <2>1, EntryKinds
  <1>4. ToSet(o \o p) = Waiting(s) /\ ToSet(o \o p) = ToSet(o) \cup ToSet(p)
    BY ConcatSet DEF ResponsesRead
  <1>5. \A c \in Waiting(s) : c \in DOMAIN s /\ c # n /\ c \in Nat
    BY <1>1, <1>2 DEF Waiting
  <1>6. q \in Seq(Nat) /\ ToSet(q) = ToSet(p) \cup {n}
    BY <1>1, <1>2, AppendSet
  <1>7. o \o q = Append(o \o p, n)
    <2>1. o \in Seq(Nat) /\ p \in Seq(Nat) /\ n \in Nat
      BY <1>1, <1>2
    <2>. HIDE DEF n
    <2>. QED BY <2>1
  <1>8. OnceEach(o \o q) /\ ToSet(o \o q) = Waiting(t)
    <2>. DEFINE w == o \o p
    <2>1. w \in Seq(Nat) /\ OnceEach(w) /\ n \notin ToSet(w) /\ ToSet(w) = Waiting(s)
      BY <1>1, <1>4, <1>5, ConcatSet DEF ResponsesRead
    <2>. HIDE DEF w
    <2>2. /\ Len(w) \in Nat /\ DOMAIN w = 1 .. Len(w) /\ DOMAIN Append(w, n) = 1 .. (Len(w) + 1)
          /\ \A i \in 1 .. Len(w) : Append(w, n)[i] = w[i] /\ w[i] # n
          /\ Append(w, n)[Len(w) + 1] = n
      BY <1>2, <2>1 DEF ToSet
    <2>3. OnceEach(Append(w, n))
      BY <2>1, <2>2 DEF OnceEach
    <2>4. ToSet(Append(w, n)) = ToSet(w) \cup {n}
      BY <1>2, <2>1, AppendSet
    <2>. QED BY <1>3, <1>7, <2>1, <2>3, <2>4 DEF w
  <1>. HIDE DEF q
  <1>9. \A c \in ToSet(q) : \A i \in c .. Len(t) : t[i].kind # "output"
    <2>1. ASSUME NEW c \in ToSet(q), NEW i \in c .. Len(t) PROVE t[i].kind # "output"
      <3>1. CASE i = n
        BY <1>2, <3>1, EntryKinds
      <3>2. CASE i # n
        <4>1. c \in ToSet(p) /\ c \in DOMAIN s
          BY <1>2, <1>4, <1>5, <1>6, <2>1, <3>2
        <4>2. i \in c .. Len(s) /\ i \in DOMAIN s
          BY <1>1, <1>2, <2>1, <3>2, <4>1
        <4>. QED BY <1>2, <4>1, <4>2 DEF ResponsesRead
      <3>. QED BY <3>1, <3>2
    <2>. QED BY <2>1
  <1>10. \A c \in ToSet(o) : \E i \in c .. Len(t) : t[i].kind = "output"
    <2>1. ASSUME NEW c \in ToSet(o) PROVE \E i \in c .. Len(t) : t[i].kind = "output"
      <3>1. c \in DOMAIN s
        BY <1>4, <1>5
      <3>2. PICK i \in c .. Len(s) : s[i].kind = "output"
        BY <2>1 DEF ResponsesRead
      <3>3. i \in DOMAIN s /\ i \in c .. Len(t)
        BY <1>1, <1>2, <3>1, <3>2
      <3>. QED BY <1>2, <3>2, <3>3
    <2>. QED BY <2>1
  <1>11. \A i \in DOMAIN t : Due(t, i) => Answering(t[i].of, i) \in ToSet(ms)
    <2>1. ASSUME NEW i \in DOMAIN t, Due(t, i) PROVE Answering(t[i].of, i) \in ToSet(ms)
      <3>1. i # n
        BY <1>2, <2>1, EntryKinds DEF Due
      <3>2. i \in DOMAIN s
        BY <1>1, <1>2, <3>1
      <3>. QED BY <1>2, <2>1, <3>2 DEF ResponsesRead
    <2>. QED BY <2>1
  <1>12. ResponsesRead(t, ms, q, o, d)
    BY <1>2, <1>6, <1>8, <1>9, <1>10, <1>11 DEF ResponsesRead
  <1>. QED BY <1>12 DEF t, q

\* Whatever is made of an output, as long as the right calls stay open and the output that
\* was due is among the messages.
LEMMA OutputKeeps ==
  ASSUME NEW s, NEW ms, NEW p, NEW o, NEW d, ResponsesRead(s, ms, p, o, d),
         NEW c \in Nat, c # 0 => c \in DOMAIN s /\ s[c].kind = "call",
         NEW ms2 \in Seq(MessageType), ToSet(ms) \subseteq ToSet(ms2),
         NEW w \in Seq(Nat), OnceEach(w), ToSet(w) = Waiting(s) \ {c}, NEW d2 \in DeferredType,
         ~Overlaps(s) => Half(ms2, ToSet(w)),
         c \in Waiting(s) => Answering(c, Len(s) + 1) \in ToSet(ms2)
  PROVE  ResponsesRead(Append(s, OutputItem(c)), ms2, <<>>, w, d2)
  <1>. DEFINE e == OutputItem(c)
              t == Append(s, e)
              n == Len(s) + 1
  <1>0. e \in EntryType /\ e.kind = "output" /\ e.of = c /\ e # CallItem /\ e.kind \notin Speaker
    BY EntryKinds
  <1>1. s \in Seq(EntryType) /\ Len(s) \in Nat
    BY DEF ResponsesRead
  <1>01. \A x \in Nat : e = OutputItem(x) <=> x = c
    BY DEF OutputItem
  <1>. HIDE DEF e
  <1>2. /\ t \in Seq(EntryType) /\ Len(t) = n /\ t[n] = e /\ n \in Nat
        /\ DOMAIN s = 1 .. Len(s) /\ DOMAIN t = 1 .. n
        /\ \A i \in DOMAIN s : t[i] = s[i]
        /\ Waiting(t) = {x \in Waiting(s) : e # OutputItem(x) /\ e.kind \notin Speaker}
                        \cup (IF e = CallItem THEN {n} ELSE {})
        /\ \A i \in DOMAIN s : Due(t, i) => Due(s, i)
        /\ Overlaps(s) => Overlaps(t)
    BY <1>0, <1>1, EntryAdded
  <1>. HIDE DEF t
  <1>3. \A x \in Waiting(s) : x \in DOMAIN s /\ x \in Nat
    BY <1>1, <1>2 DEF Waiting
  <1>4. Waiting(t) = Waiting(s) \ {c}
    BY <1>0, <1>01, <1>2, <1>3
  <1>5. w \o <<>> = w /\ ToSet(<<>>) = {} /\ <<>> \in Seq(Nat)
    BY NoElement
  <1>6. \A x \in ToSet(w) : \E i \in x .. Len(t) : t[i].kind = "output"
    <2>1. ASSUME NEW x \in ToSet(w) PROVE n \in x .. Len(t)
      BY <1>1, <1>2, <1>3
    <2>. QED BY <1>0, <1>2, <2>1
  <1>7. ASSUME NEW i \in DOMAIN t, Due(t, i) PROVE Answering(t[i].of, i) \in ToSet(ms2)
    <2>1. CASE i \in DOMAIN s
      BY <1>2, <1>7, <2>1 DEF ResponsesRead
    <2>2. CASE i \notin DOMAIN s
      <3>1. i = n /\ t[i].of = c
        BY <1>0, <1>1, <1>2, <2>2
      <3>2. /\ c # 0 /\ c \in DOMAIN s /\ s[c].kind = "call"
            /\ \A k \in c .. (n - 1) : t[k] # OutputItem(c)
            /\ \A k \in c .. n : t[k].kind \notin Speaker
        BY <1>7, <3>1 DEF Due
      <3>3. s[c] = CallItem
        <4>1. s[c] \in EntryType
          BY <1>1, <3>2
        <4>. QED BY <3>2, <4>1 DEF EntryType, CallItem
      <3>4. Quiet(s, c, Len(s))
        <4>1. \A k \in c .. Len(s) : k \in DOMAIN s /\ k \in c .. (n - 1) /\ k \in c .. n
          BY <1>1, <1>2, <3>2
        <4>. QED BY <1>2, <3>2, <4>1 DEF Quiet
      <3>5. c \in Waiting(s)
        BY <3>2, <3>3, <3>4 DEF Waiting
      <3>. QED BY <3>1, <3>5
    <2>. QED BY <2>1, <2>2
  <1>8. ResponsesRead(t, ms2, <<>>, w, d2)
    BY <1>2, <1>4, <1>5, <1>6, <1>7 DEF ResponsesRead
  <1>. QED BY <1>8 DEF t, e

\* A message ends the round: no call waits any more.
LEMMA MessageKeeps ==
  ASSUME NEW s, NEW ms, NEW p, NEW o, NEW d, ResponsesRead(s, ms, p, o, d), NEW role \in Speaker,
         NEW ms2 \in Seq(MessageType), ToSet(ms) \subseteq ToSet(ms2), ~Overlaps(s) => Half(ms2, {})
  PROVE  ResponsesRead(Append(s, MessageItem(role)), ms2, <<>>, <<>>, d)
  <1>. DEFINE e == MessageItem(role)
              t == Append(s, e)
              n == Len(s) + 1
  <1>0. e \in EntryType /\ e.kind \in Speaker /\ e # CallItem /\ e.kind # "output"
    BY EntryKinds
  <1>1. s \in Seq(EntryType) /\ Len(s) \in Nat /\ d \in DeferredType
    BY DEF ResponsesRead
  <1>. HIDE DEF e
  <1>2. /\ t \in Seq(EntryType) /\ Len(t) = n /\ t[n] = e /\ n \in Nat
        /\ DOMAIN s = 1 .. Len(s) /\ DOMAIN t = 1 .. n
        /\ \A i \in DOMAIN s : t[i] = s[i]
        /\ Waiting(t) = {x \in Waiting(s) : e # OutputItem(x) /\ e.kind \notin Speaker}
                        \cup (IF e = CallItem THEN {n} ELSE {})
        /\ \A i \in DOMAIN s : Due(t, i) => Due(s, i)
        /\ Overlaps(s) => Overlaps(t)
    BY <1>0, <1>1, EntryAdded
  <1>. HIDE DEF t
  <1>3. Waiting(t) = {}
    BY <1>0, <1>2
  <1>4. <<>> \o <<>> = <<>> /\ ToSet(<<>>) = {} /\ <<>> \in Seq(Nat) /\ OnceEach(<<>>)
    BY NoElement DEF OnceEach
  <1>5. ASSUME NEW i \in DOMAIN t, Due(t, i) PROVE Answering(t[i].of, i) \in ToSet(ms2)
    <2>1. i # n
      BY <1>0, <1>2, <1>5 DEF Due
    <2>2. i \in DOMAIN s
      BY <1>1, <1>2, <2>1
    <2>. QED BY <1>2, <1>5, <2>2 DEF ResponsesRead
  <1>6. ResponsesRead(t, ms2, <<>>, <<>>, d)
    BY <1>1, <1>2, <1>3, <1>4, <1>5 DEF ResponsesRead
  <1>. QED BY <1>6 DEF t, e

AnsweredAt(ms, w, at) == ms \o [i \in DOMAIN w |-> Answering(w[i], at)]
DeferredTo(ms, d) == ms \o d.images \o d.texts

LEMMA AnsweredFacts ==
  ASSUME NEW ms \in Seq(MessageType), NEW w \in Seq(Nat), OnceEach(w), NEW at \in Nat
  PROVE  /\ AnsweredAt(ms, w, at) \in Seq(MessageType)
         /\ ToSet(ms) \subseteq ToSet(AnsweredAt(ms, w, at))
         /\ Half(ms, ToSet(w)) => Half(AnsweredAt(ms, w, at), {})
  <1>. DEFINE t == [i \in DOMAIN w |-> Answering(w[i], at)]
  <1>1. \A i \in DOMAIN w : Answering(w[i], at) \in MessageType /\ Answering(w[i], at).role = "tool"
                            /\ Answering(w[i], at).answers = w[i]
    BY AnsweringType
  <1>2. /\ t \in Seq(MessageType) /\ DOMAIN t = DOMAIN w
        /\ \A i \in DOMAIN t : t[i].role = "tool" /\ t[i].answers = w[i]
    <2>1. DOMAIN w = 1 .. Len(w) /\ Len(w) \in Nat
      OBVIOUS
    <2>. QED BY <1>1, <2>1
  <1>. HIDE DEF t
  <1>3. ASSUME Half(ms, ToSet(w)) PROVE Half(ms \o t, {})
    <2>1. \A j \in DOMAIN t : t[j].role = "tool" /\ t[j].answers \in ToSet(w)
      BY <1>2 DEF ToSet
    <2>2. \A j, k \in DOMAIN t : t[j].answers = t[k].answers => j = k
      BY <1>2 DEF OnceEach
    <2>3. ToSet(w) \ {t[j].answers : j \in DOMAIN t} = {}
      BY <1>2 DEF ToSet
    <2>4. Half(ms \o t, ToSet(w) \ {t[j].answers : j \in DOMAIN t})
      BY <1>2, <1>3, <2>1, <2>2, HalfTools
    <2>. QED BY <2>3, <2>4
  <1>4. ms \o t \in Seq(MessageType) /\ ToSet(ms) \subseteq ToSet(ms \o t)
    BY <1>2, ConcatSet
  <1>. QED BY <1>3, <1>4 DEF AnsweredAt, t

LEMMA DeferredFacts ==
  ASSUME NEW ms \in Seq(MessageType), NEW d \in DeferredType
  PROVE  /\ DeferredTo(ms, d) \in Seq(MessageType)
         /\ ToSet(ms) \subseteq ToSet(DeferredTo(ms, d))
         /\ Half(ms, {}) => Half(DeferredTo(ms, d), {})
  <1>1. \A m \in Plain : m \in MessageType /\ m.role # "tool" /\ m.calls = <<>>
    BY DEF Plain, MessageType
  <1>2. ASSUME NEW a \in Seq(Plain)
        PROVE  a \in Seq(MessageType) /\ Half(a, {})
    <2>1. Len(a) \in Nat /\ DOMAIN a = 1 .. Len(a) /\ \A i \in 1 .. Len(a) : a[i] \in Plain
      OBVIOUS
    <2>2. a \in Seq(MessageType)
      BY <1>1, <2>1
    <2>. QED BY <1>1, <2>1, <2>2, HalfPlain
  <1>3. d.images \in Seq(Plain) /\ d.texts \in Seq(Plain)
    BY DEF DeferredType
  <1>. DEFINE a == d.images
              b == d.texts
  <1>4. a \in Seq(MessageType) /\ Half(a, {}) /\ b \in Seq(MessageType) /\ Half(b, {})
    BY <1>2, <1>3
  <1>. HIDE DEF a, b
  <1>5. ms \o a \in Seq(MessageType) /\ ToSet(ms) \subseteq ToSet(ms \o a)
    BY <1>4, ConcatSet
  <1>6. (ms \o a) \o b \in Seq(MessageType) /\ ToSet(ms \o a) \subseteq ToSet((ms \o a) \o b)
    <2>. DEFINE x == ms \o a
    <2>1. x \in Seq(MessageType)
      BY <1>5
    <2>. HIDE DEF x
    <2>2. x \o b \in Seq(MessageType) /\ ToSet(x \o b) = ToSet(x) \cup ToSet(b)
      BY <1>4, <2>1, ConcatSet
    <2>. QED BY <2>2 DEF x
  <1>7. ASSUME Half(ms, {}) PROVE Half((ms \o a) \o b, {})
    <2>. DEFINE x == ms \o a
    <2>1. x \in Seq(MessageType) /\ Half(x, {})
      BY <1>4, <1>5, <1>7, HalfConcat
    <2>. HIDE DEF x
    <2>2. Half(x \o b, {})
      BY <1>4, <2>1, HalfConcat
    <2>. QED BY <2>2 DEF x
  <1>. QED BY <1>5, <1>6, <1>7 DEF DeferredTo, a, b

-----------------------------------------------------------------------------
(* The transcript is read and sent *)

HistInv ==
    /\ api \in Api
    /\ history = "reading" =>
          /\ api = "responses" => ResponsesRead(items, messages, pending, openCalls, deferred)
          /\ api = "messages" => items \in Seq(EntryType) /\ MessagesRead(messages, openCalls)
          /\ api = "chat" => items = <<>>
    /\ HistoryIsWhole

LEMMA FlushedIs == Flushed(messages) = FlushedWith(messages, pending)
  BY DEF Flushed, FlushedWith

\* What is read leaves the rest of the invariant to the endpoint of the Responses API.
LEMMA ReadKeeps ==
  ASSUME HistInv, NEW e, Read(e),
         ResponsesRead(items, messages, pending, openCalls, deferred)
            => ResponsesRead(Append(items, e), messages', pending', openCalls', deferred')
  PROVE  HistInv'
  <1>1. /\ history = "reading" /\ api = "responses" /\ items' = Append(items, e)
        /\ history' = history /\ api' = api
    BY DEF Read
  <1>2. ResponsesRead(items, messages, pending, openCalls, deferred)'
    BY <1>1 DEF HistInv
  <1>3. HistoryIsWhole'
    BY <1>1 DEF HistoryIsWhole, HistoryIsServable, OutputsReachTheModel
  <1>. QED BY <1>1, <1>2, <1>3 DEF HistInv

LEMMA ReadCallKeeps == HistInv /\ ReadCall => HistInv'
  <1>. SUFFICES ASSUME HistInv, ReadCall PROVE HistInv'
    OBVIOUS
  <1>1. /\ Read(CallItem) /\ pending' = Append(pending, Len(items) + 1)
        /\ messages' = messages /\ openCalls' = openCalls /\ deferred' = deferred
    BY DEF ReadCall, Here
  <1>2. ResponsesRead(items, messages, pending, openCalls, deferred)
           => ResponsesRead(Append(items, CallItem), messages', pending', openCalls', deferred')
    BY <1>1, CallKeeps
  <1>. QED BY <1>1, <1>2, ReadKeeps

LEMMA ReadOutputKeeps ==
  ASSUME HistInv, NEW c \in 0 .. Len(items), c # 0 => items[c].kind = "call", ReadOutput(c)
  PROVE  HistInv'
  <1>1. Read(OutputItem(c)) /\ pending' = <<>>
    BY DEF ReadOutput
  <1>2. ASSUME ResponsesRead(items, messages, pending, openCalls, deferred)
        PROVE  ResponsesRead(Append(items, OutputItem(c)), messages', pending', openCalls', deferred')
    <2>. DEFINE w == openCalls \o pending
                flushed == FlushedWith(messages, pending)
                n == Len(items) + 1
                ms == Append(flushed, Answering(c, n))
                rest == RemoveFirst(w, c)
    <2>1. /\ items \in Seq(EntryType) /\ messages \in Seq(MessageType)
          /\ pending \in Seq(Nat) /\ openCalls \in Seq(Nat) /\ deferred \in DeferredType
          /\ OnceEach(w) /\ ToSet(w) = Waiting(items)
      BY <1>2 DEF ResponsesRead
    <2>2. c \in Nat /\ n \in Nat /\ (c # 0 => c \in DOMAIN items /\ items[c].kind = "call") /\ w \in Seq(Nat)
      BY <2>1
    <2>3. /\ flushed \in Seq(MessageType) /\ ToSet(messages) \subseteq ToSet(flushed)
          /\ ~Overlaps(items) => Half(flushed, ToSet(w))
      BY <1>2, FlushedFacts
    <2>4. Contains(w, c) <=> c \in ToSet(w)
      <3>1. w \in Seq(Nat)
        BY <2>2
      <3>. HIDE DEF w
      <3>2. DOMAIN w = 1 .. Len(w)
        BY <3>1
      <3>. QED BY <3>2 DEF Contains, ToSet
    <2>5. /\ Contains(w, c) => /\ openCalls' = rest
                               /\ messages' = IF rest = <<>> THEN DeferredTo(ms, deferred) ELSE ms
                               /\ deferred' = IF rest = <<>> THEN NothingDeferred ELSE deferred
          /\ ~Contains(w, c) => messages' = flushed /\ openCalls' = w /\ deferred' = deferred
      BY FlushedIs DEF ReadOutput, OpenAfterFlush, Here, Deferred, DeferredTo
    <2>. HIDE DEF w, flushed, n
    <2>6. CASE Contains(w, c)
      <3>1. rest \in Seq(Nat) /\ OnceEach(rest) /\ ToSet(rest) = Waiting(items) \ {c}
        BY <2>1, <2>2, <2>4, <2>6, RemovedOnce
      <3>. HIDE DEF rest
      <3>. DEFINE m == Answering(c, n)
      <3>2. m \in MessageType /\ m.role = "tool" /\ m.answers = c
        BY <2>2, AnsweringType
      <3>. HIDE DEF m
      <3>3. ms \in Seq(MessageType) /\ ToSet(ms) = ToSet(flushed) \cup {m}
        <4>1. ms = Append(flushed, m)
          BY DEF m
        <4>. QED BY <2>3, <3>2, <4>1, AppendSet
      <3>4. ASSUME ~Overlaps(items) PROVE Half(ms, ToSet(rest))
        <4>1. <<m>> \in Seq(MessageType) /\ DOMAIN <<m>> = 1 .. 1 /\ <<m>>[1] = m
          BY <3>2
        <4>2. Half(flushed, ToSet(w)) /\ c \in ToSet(w)
          BY <2>3, <2>4, <2>6, <3>4
        <4>3. Half(flushed \o <<m>>, ToSet(w) \ {<<m>>[j].answers : j \in DOMAIN <<m>>})
          <5>1. \A j \in DOMAIN <<m>> : <<m>>[j].role = "tool" /\ <<m>>[j].answers \in ToSet(w)
            BY <3>2, <4>1, <4>2
          <5>2. \A j, k \in DOMAIN <<m>> : <<m>>[j].answers = <<m>>[k].answers => j = k
            BY <4>1
          <5>. QED BY <2>3, <4>1, <4>2, <5>1, <5>2, HalfTools
        <4>4. {<<m>>[j].answers : j \in DOMAIN <<m>>} = {c}
          BY <3>2, <4>1
        <4>5. ms = flushed \o <<m>>
          BY <2>3, <3>2, AppendIs DEF m
        <4>. QED BY <2>1, <3>1, <4>3, <4>4, <4>5
      <3>5. Answering(c, n) \in ToSet(ms)
        BY <3>3 DEF m
      <3>. HIDE DEF ms
      <3>6. CASE rest = <<>>
        <4>1. messages' = DeferredTo(ms, deferred) /\ deferred' = NothingDeferred /\ openCalls' = rest
          BY <2>5, <2>6, <3>6
        <4>2. /\ messages' \in Seq(MessageType) /\ ToSet(ms) \subseteq ToSet(messages')
              /\ Half(ms, {}) => Half(messages', {})
          BY <2>1, <3>3, <4>1, DeferredFacts
        <4>3. ToSet(rest) = {}
          BY <3>6, NoElement
        <4>4. ~Overlaps(items) => Half(messages', ToSet(rest))
          BY <3>4, <4>2, <4>3
        <4>5. NothingDeferred \in DeferredType
          BY DEF NothingDeferred, DeferredType
        <4>6. /\ ToSet(messages) \subseteq ToSet(messages')
              /\ c \in Waiting(items) => Answering(c, Len(items) + 1) \in ToSet(messages')
          BY <2>3, <3>3, <3>5, <4>2 DEF n
        <4>. QED BY <1>1, <1>2, <2>2, <3>1, <4>1, <4>2, <4>4, <4>5, <4>6, OutputKeeps
      <3>7. CASE rest # <<>>
        <4>1. messages' = ms /\ deferred' = deferred /\ openCalls' = rest
          BY <2>5, <2>6, <3>7
        <4>2. /\ ToSet(messages) \subseteq ToSet(messages')
              /\ c \in Waiting(items) => Answering(c, Len(items) + 1) \in ToSet(messages')
          BY <2>3, <3>3, <3>5, <4>1 DEF n
        <4>. QED BY <1>1, <1>2, <2>1, <2>2, <3>1, <3>3, <3>4, <4>1, <4>2, OutputKeeps
      <3>. QED BY <3>6, <3>7
    <2>7. CASE ~Contains(w, c)
      <3>1. messages' = flushed /\ openCalls' = w /\ deferred' = deferred
        BY <2>5, <2>7
      <3>2. c \notin Waiting(items) /\ ToSet(w) = Waiting(items) \ {c}
        BY <2>1, <2>4, <2>7
      <3>. QED BY <1>1, <1>2, <2>1, <2>2, <2>3, <3>1, <3>2, OutputKeeps
    <2>. QED BY <2>6, <2>7
  <1>. QED BY <1>1, <1>2, ReadKeeps

LEMMA ReadImageKeeps ==
  ASSUME HistInv, NEW readable \in BOOLEAN, ReadImage(readable)
  PROVE  HistInv'
  <1>. DEFINE e == ImageItem(readable)
              n == Len(items) + 1
              m == IF readable THEN Pictured(n) ELSE Said("user", n)
  <1>1. /\ Read(e) /\ pending' = pending /\ openCalls' = openCalls
        /\ pending # <<>> \/ openCalls # <<>> =>
              /\ deferred' = IF readable THEN [deferred EXCEPT !.images = Append(@, m)]
                                         ELSE [deferred EXCEPT !.texts = Append(@, m)]
              /\ messages' = messages
        /\ ~(pending # <<>> \/ openCalls # <<>>) => messages' = Append(messages, m) /\ deferred' = deferred
    BY DEF ReadImage, Here
  <1>2. e \in EntryType /\ e.kind \notin {"call", "output"} \cup Speaker
    BY EntryKinds
  <1>. HIDE DEF e
  <1>3. ASSUME ResponsesRead(items, messages, pending, openCalls, deferred)
        PROVE  ResponsesRead(Append(items, e), messages', pending', openCalls', deferred')
    <2>1. ResponsesRead(Append(items, e), messages, pending, openCalls, deferred)
      BY <1>2, <1>3, BystanderKeeps
    <2>2. /\ items \in Seq(EntryType) /\ messages \in Seq(MessageType) /\ deferred \in DeferredType
      BY <1>3 DEF ResponsesRead
    <2>3. m \in MessageType /\ m.role = "user" /\ m \in Plain /\ m.calls = <<>>
      <3>1. n \in Nat
        BY <2>2
      <3>. HIDE DEF n
      <3>2. CASE readable
        <4>1. Pictured(n) \in MessageType /\ Pictured(n).role = "user" /\ Pictured(n).calls = <<>>
          <5>. DEFINE u == Said("user", n)
          <5>1. u \in MessageType /\ u.role = "user" /\ u.calls = <<>>
            BY <3>1 DEF Said, MessageType
          <5>2. Pictured(n) = [u EXCEPT !.image = TRUE]
            BY DEF Pictured
          <5>. HIDE DEF u
          <5>. QED BY <5>1, <5>2 DEF MessageType
        <4>. QED BY <3>2, <4>1 DEF Plain
      <3>3. CASE ~readable
        <4>1. Said("user", n) \in MessageType /\ Said("user", n).role = "user" /\ Said("user", n).calls = <<>>
          BY <3>1 DEF Said, MessageType
        <4>. QED BY <3>3, <4>1 DEF Plain
      <3>. QED BY <3>2, <3>3
    <2>. HIDE DEF m
    <2>4. CASE pending # <<>> \/ openCalls # <<>>
      <3>1. deferred' \in DeferredType
        <4>1. /\ deferred.images \in Seq(Plain) /\ deferred.texts \in Seq(Plain)
              /\ Append(deferred.images, m) \in Seq(Plain) /\ Append(deferred.texts, m) \in Seq(Plain)
          BY <2>2, <2>3 DEF DeferredType
        <4>2. CASE readable
          <5>1. deferred' = [deferred EXCEPT !.images = Append(deferred.images, m)]
            BY <1>1, <2>4, <4>2
          <5>. QED BY <2>2, <4>1, <5>1 DEF DeferredType
        <4>3. CASE ~readable
          <5>1. deferred' = [deferred EXCEPT !.texts = Append(deferred.texts, m)]
            BY <1>1, <2>4, <4>3
          <5>. QED BY <2>2, <4>1, <5>1 DEF DeferredType
        <4>. QED BY <4>2, <4>3
      <3>2. messages' = messages /\ pending' = pending /\ openCalls' = openCalls
        BY <1>1, <2>4
      <3>. QED BY <2>1, <3>1, <3>2 DEF ResponsesRead
    <2>5. CASE ~(pending # <<>> \/ openCalls # <<>>)
      <3>1. messages' = Append(messages, m) /\ deferred' = deferred /\ pending' = pending /\ openCalls' = openCalls
        BY <1>1, <2>5
      <3>2. messages' \in Seq(MessageType) /\ ToSet(messages) \subseteq ToSet(messages')
        BY <2>2, <2>3, <3>1, AppendSet
      <3>3. ASSUME Half(messages, ToSet(openCalls)) PROVE Half(messages', ToSet(openCalls))
        <4>1. ToSet(openCalls) = {} /\ ToSet(m.calls) = {}
          BY <2>3, <2>5, NoElement
        <4>. QED BY <2>2, <2>3, <3>1, <3>3, <4>1, HalfSaid
      <3>. QED BY <2>1, <3>1, <3>2, <3>3 DEF ResponsesRead
    <2>. QED BY <2>4, <2>5
  <1>. QED BY <1>1, <1>3, ReadKeeps

LEMMA ReadMessageKeeps ==
  ASSUME HistInv, NEW role \in Speaker, ReadMessage(role)
  PROVE  HistInv'
  <1>. DEFINE w == openCalls \o pending
              flushed == FlushedWith(messages, pending)
              ms == AnsweredAt(flushed, w, 0)
              n == Len(items) + 1
              m == Said(role, n)
  <1>1. /\ Read(MessageItem(role)) /\ pending' = <<>> /\ openCalls' = <<>> /\ deferred' = deferred
        /\ messages' = Append(ms, m)
    BY FlushedIs DEF ReadMessage, Answered, AnsweredAt, OpenAfterFlush, Here
  <1>2. ASSUME ResponsesRead(items, messages, pending, openCalls, deferred)
        PROVE  ResponsesRead(Append(items, MessageItem(role)), messages', pending', openCalls', deferred')
    <2>1. items \in Seq(EntryType) /\ pending \in Seq(Nat) /\ openCalls \in Seq(Nat) /\ OnceEach(w)
      BY <1>2 DEF ResponsesRead
    <2>2. /\ flushed \in Seq(MessageType) /\ ToSet(messages) \subseteq ToSet(flushed)
          /\ ~Overlaps(items) => Half(flushed, ToSet(w))
      BY <1>2, FlushedFacts
    <2>3. w \in Seq(Nat) /\ 0 \in Nat /\ n \in Nat
      BY <2>1
    <2>. HIDE DEF w, flushed, n
    <2>4. /\ ms \in Seq(MessageType) /\ ToSet(flushed) \subseteq ToSet(ms)
          /\ Half(flushed, ToSet(w)) => Half(ms, {})
      BY <2>1, <2>2, <2>3, AnsweredFacts
    <2>. HIDE DEF ms
    <2>5. m \in MessageType /\ m.role # "tool" /\ m.calls = <<>>
      BY <2>3, SaidType
    <2>. HIDE DEF m
    <2>6. Append(ms, m) \in Seq(MessageType) /\ ToSet(ms) \subseteq ToSet(Append(ms, m))
      BY <2>4, <2>5, AppendSet
    <2>7. ASSUME ~Overlaps(items) PROVE Half(Append(ms, m), {})
      <3>1. Half(Append(ms, m), ToSet(m.calls))
        BY <2>2, <2>4, <2>5, <2>7, HalfSaid
      <3>. QED BY <2>5, <3>1, NoElement
    <2>8. ToSet(messages) \subseteq ToSet(Append(ms, m))
      BY <2>2, <2>4, <2>6
    <2>. QED BY <1>1, <1>2, <2>6, <2>7, <2>8, MessageKeeps
  <1>. QED BY <1>1, <1>2, ReadKeeps

LEMMA ReadReasoningKeeps == HistInv /\ ReadReasoning => HistInv'
  <1>. SUFFICES ASSUME HistInv, ReadReasoning PROVE HistInv'
    OBVIOUS
  <1>1. /\ Read(ReasoningItem) /\ pending' = pending
        /\ messages' = messages /\ openCalls' = openCalls /\ deferred' = deferred
    BY DEF ReadReasoning
  <1>2. ReasoningItem \in EntryType /\ ReasoningItem.kind \notin {"call", "output"} \cup Speaker
    BY EntryKinds DEF Speaker
  <1>3. ResponsesRead(items, messages, pending, openCalls, deferred)
           => ResponsesRead(Append(items, ReasoningItem), messages', pending', openCalls', deferred')
    BY <1>1, <1>2, BystanderKeeps
  <1>. QED BY <1>1, <1>3, ReadKeeps

LEMMA SpokenTurnKeeps ==
  ASSUME HistInv, NEW role \in {"user", "assistant"}, Turn(role),
         MessagesRead(messages, openCalls) => MessagesRead(messages', openCalls')
  PROVE  HistInv'
  <1>1. /\ history = "reading" /\ api = "messages" /\ items' = Append(items, MessageItem(role))
        /\ history' = history /\ api' = api
    BY DEF Turn
  <1>2. items \in Seq(EntryType) /\ MessagesRead(messages, openCalls)
    BY <1>1 DEF HistInv
  <1>3. items' \in Seq(EntryType)
    <2>1. MessageItem(role) \in EntryType
      BY EntryKinds DEF Speaker
    <2>. QED BY <1>1, <1>2, <2>1, AppendSet
  <1>4. MessagesRead(messages, openCalls)'
    BY <1>2
  <1>5. HistoryIsWhole'
    BY <1>1 DEF HistoryIsWhole, HistoryIsServable, OutputsReachTheModel
  <1>. QED BY <1>1, <1>3, <1>4, <1>5 DEF HistInv

LEMMA AssistantTurnKeeps ==
  ASSUME HistInv, NEW n \in 0 .. 2, AssistantTurn(n)
  PROVE  HistInv'
  <1>. DEFINE h == Len(items) + 1
              w == CallIds(h, n)
  <1>1. Turn("assistant") /\ openCalls = <<>> /\ messages' = Append(messages, Calling(w, h)) /\ openCalls' = w
    BY DEF AssistantTurn, Here
  <1>2. items \in Seq(EntryType)
    BY <1>1 DEF Turn, HistInv
  <1>3. h \in Nat
    BY <1>2
  <1>. HIDE DEF h
  <1>4. w \in Seq(Nat) /\ OnceEach(w)
    <2>1. \A k \in 1 .. n : h * 10 + k \in Nat
      BY <1>3
    <2>2. \A j, k \in 1 .. n : h * 10 + j = h * 10 + k => j = k
      <3>1. h * 10 \in Int
        BY <1>3
      <3>. DEFINE x == h * 10
      <3>. HIDE DEF x
      <3>2. \A j, k \in 1 .. n : x + j = x + k => j = k
        BY <3>1 DEF x
      <3>. QED BY <3>2 DEF x
    <2>. QED BY <2>1, <2>2 DEF CallIds, OnceEach
  <1>. HIDE DEF w
  <1>5. ASSUME MessagesRead(messages, openCalls) PROVE MessagesRead(messages', openCalls')
    <2>. DEFINE m == Calling(w, h)
    <2>1. m \in MessageType /\ m.role # "tool" /\ m.calls = w
      BY <1>3, <1>4, CallingType
    <2>. HIDE DEF m
    <2>2. messages \in Seq(MessageType) /\ Half(messages, {})
      BY <1>1, <1>5, NoElement DEF MessagesRead
    <2>3. Append(messages, m) \in Seq(MessageType) /\ Half(Append(messages, m), ToSet(w))
      <3>1. Half(Append(messages, m), ToSet(m.calls))
        BY <2>1, <2>2, HalfSaid
      <3>. QED BY <2>1, <2>2, <3>1, AppendSet
    <2>. QED BY <1>1, <1>4, <2>3 DEF MessagesRead, m
  <1>. QED BY <1>1, <1>5, SpokenTurnKeeps

LEMMA UserTurnKeeps ==
  ASSUME HistInv, NEW adds \in BOOLEAN, UserTurn(adds)
  PROVE  HistInv'
  <1>. DEFINE h == Len(items) + 1
              results == [i \in DOMAIN openCalls |-> Answering(openCalls[i], h)]
              text == IF adds \/ results = <<>> THEN <<Said("user", h)>> ELSE <<>>
  <1>1. Turn("user") /\ messages' = AnsweredAt(messages, openCalls, h) \o text /\ openCalls' = <<>>
    BY DEF UserTurn, Here, AnsweredAt
  <1>2. items \in Seq(EntryType)
    BY <1>1 DEF Turn, HistInv
  <1>3. h \in Nat
    BY <1>2
  <1>. HIDE DEF h
  <1>4. text \in Seq(MessageType) /\ Half(text, {})
    <2>. DEFINE m == Said("user", h)
    <2>1. m \in MessageType /\ m.role # "tool" /\ m.calls = <<>>
      BY <1>3, SaidType DEF Speaker
    <2>. HIDE DEF m
    <2>2. Half(<<m>>, {}) /\ <<m>> \in Seq(MessageType)
      <3>1. Half(<<m>>, ToSet(m.calls))
        BY <2>1, HalfOne
      <3>. QED BY <2>1, <3>1, NoElement
    <2>3. Half(<<>>, {}) /\ <<>> \in Seq(MessageType)
      BY DEF Half
    <2>4. text = <<m>> \/ text = <<>>
      BY DEF m
    <2>. HIDE DEF text
    <2>. QED BY <2>2, <2>3, <2>4
  <1>. HIDE DEF text
  <1>5. ASSUME MessagesRead(messages, openCalls) PROVE MessagesRead(messages', openCalls')
    <2>. DEFINE ms == AnsweredAt(messages, openCalls, h)
    <2>1. ms \in Seq(MessageType) /\ Half(ms, {})
      BY <1>3, <1>5, AnsweredFacts DEF MessagesRead
    <2>2. messages' = ms \o text
      BY <1>1
    <2>. HIDE DEF ms
    <2>3. messages' \in Seq(MessageType) /\ Half(messages', {})
      BY <1>4, <2>1, <2>2, ConcatSet, HalfConcat
    <2>4. openCalls' = <<>> /\ <<>> \in Seq(Nat) /\ OnceEach(<<>>) /\ ToSet(<<>>) = {}
      BY <1>1, NoElement DEF OnceEach
    <2>. QED BY <2>3, <2>4 DEF MessagesRead
  <1>. QED BY <1>1, <1>5, SpokenTurnKeeps

\* What is sent is accepted whatever the budget, for it was all answered before it was cut.
LEMMA SendKeeps ==
  ASSUME HistInv, NEW budget \in Budget, Send(budget)
  PROVE  HistInv'
  <1>. DEFINE w == openCalls \o pending
              flushed == FlushedWith(messages, pending)
              answered == AnsweredAt(flushed, w, 0)
              whole == IF api = "responses" THEN DeferredTo(answered, deferred) ELSE messages
  <1>1. /\ history = "reading" /\ items # <<>> /\ (api = "messages" => openCalls = <<>>)
        /\ history' = "sent" /\ messages' = Trim(whole, budget)
        /\ trimmed' = [budget |-> budget, before |-> whole] /\ api' = api /\ items' = items
    BY FlushedIs DEF Send, Deferred, DeferredTo, Answered, AnsweredAt, OpenAfterFlush
  <1>2. api \in {"responses", "messages"}
    BY <1>1 DEF HistInv, Api
  <1>3. /\ whole \in Seq(MessageType)
        /\ ~Overlaps(items) => Half(whole, {})
        /\ api = "responses" => \A i \in DOMAIN items : Due(items, i) => Answering(items[i].of, i) \in ToSet(whole)
    <2>1. CASE api = "responses"
      <3>1. ResponsesRead(items, messages, pending, openCalls, deferred)
        BY <1>1, <2>1 DEF HistInv
      <3>2. /\ pending \in Seq(Nat) /\ openCalls \in Seq(Nat) /\ OnceEach(w) /\ deferred \in DeferredType
        BY <3>1 DEF ResponsesRead
      <3>3. /\ flushed \in Seq(MessageType) /\ ToSet(messages) \subseteq ToSet(flushed)
            /\ ~Overlaps(items) => Half(flushed, ToSet(w))
        BY <3>1, FlushedFacts
      <3>4. w \in Seq(Nat) /\ 0 \in Nat
        BY <3>2
      <3>5. whole = DeferredTo(answered, deferred)
        BY <2>1
      <3>. HIDE DEF w, flushed, whole
      <3>6. /\ answered \in Seq(MessageType) /\ ToSet(flushed) \subseteq ToSet(answered)
            /\ Half(flushed, ToSet(w)) => Half(answered, {})
        BY <3>2, <3>3, <3>4, AnsweredFacts
      <3>. HIDE DEF answered
      <3>7. /\ whole \in Seq(MessageType) /\ ToSet(answered) \subseteq ToSet(whole)
            /\ Half(answered, {}) => Half(whole, {})
        BY <3>2, <3>5, <3>6, DeferredFacts
      <3>. QED BY <3>1, <3>3, <3>6, <3>7 DEF ResponsesRead
    <2>2. CASE api = "messages"
      <3>1. MessagesRead(messages, openCalls) /\ openCalls = <<>>
        BY <1>1, <2>2 DEF HistInv
      <3>. QED BY <2>2, <3>1, NoElement DEF MessagesRead
    <2>. QED BY <1>2, <2>1, <2>2
  <1>. HIDE DEF whole
  <1>4. /\ messages' \in Seq(MessageType)
        /\ Half(whole, {}) => Half(messages', {})
        /\ messages' # whole => Kept(messages', whole, budget)
    <2>1. budget \in Nat
      BY HistoryAssumption DEF HistoryAssumption
    <2>. QED BY <1>1, <1>3, <2>1, TrimFacts
  <1>5. Overlapping' <=> Overlaps(items)
    BY <1>1 DEF Overlapping, Overlaps, Unanswered, Quiet
  <1>6. HistoryIsServable'
    <2>1. ASSUME ~Overlapping'
          PROVE  /\ Strict(messages') /\ StrictTurns(ToAnthropic(messages'))
                 /\ \A j \in DOMAIN ToGemini(messages') : ToGemini(messages')[j]
      <3>1. Half(messages', {})
        BY <1>3, <1>4, <1>5, <2>1
      <3>. QED BY <1>4, <3>1, HalfIsStrict, AnthropicAccepts, GeminiKnows
    <2>2. trimmed'.before = whole /\ trimmed'.budget = budget
      BY <1>1
    <2>. QED BY <1>4, <2>1, <2>2 DEF HistoryIsServable
  <1>7. OutputsReachTheModel'
    <2>1. trimmed'.before = whole
      BY <1>1
    <2>2. \A i \in DOMAIN items :
             LET c == items[i].of
                 fresh == /\ items[i].kind = "output" /\ c # 0 /\ c < i
                          /\ \A k \in c .. (i - 1) : items[k] # OutputItem(c)
                          /\ \A k \in c .. i : items[k].kind \notin Speaker
             IN  fresh => Due(items, i)
      BY DEF Due
    <2>. QED BY <1>1, <1>3, <2>1, <2>2 DEF OutputsReachTheModel, Unanswered
  <1>. QED BY <1>1, <1>6, <1>7 DEF HistInv, HistoryIsWhole

LEMMA HistInvInit == TurnInit => HistInv
  <1>. SUFFICES ASSUME HistoryInit PROVE HistInv
    BY DEF TurnInit
  <1>1. /\ history = "reading" /\ api \in Api /\ items = <<>> /\ messages = <<>>
        /\ pending = <<>> /\ openCalls = <<>> /\ deferred = NothingDeferred
    BY DEF HistoryInit
  <1>2. /\ <<>> \in Seq(EntryType) /\ <<>> \in Seq(MessageType) /\ <<>> \in Seq(Nat)
        /\ NothingDeferred \in DeferredType /\ ToSet(<<>>) = {} /\ <<>> \o <<>> = <<>>
        /\ OnceEach(<<>>) /\ Half(<<>>, {}) /\ Waiting(<<>>) = {}
    BY NoElement DEF NothingDeferred, DeferredType, OnceEach, Half, Waiting
  <1>3. ResponsesRead(<<>>, <<>>, <<>>, <<>>, NothingDeferred) /\ MessagesRead(<<>>, <<>>)
    <2>1. \A i \in DOMAIN <<>> : FALSE
      OBVIOUS
    <2>2. ResponsesRead(<<>>, <<>>, <<>>, <<>>, NothingDeferred)
      <3>. DEFINE none == <<>>
                  nothing == NothingDeferred
      <3>1. /\ none \in Seq(EntryType) /\ none \in Seq(MessageType) /\ none \in Seq(Nat)
            /\ nothing \in DeferredType /\ ToSet(none) = {} /\ none \o none = none
            /\ OnceEach(none) /\ Half(none, {}) /\ Waiting(none) = {}
            /\ \A i \in DOMAIN none : FALSE
        BY <1>2, <2>1
      <3>. HIDE DEF none, nothing
      <3>2. ResponsesRead(none, none, none, none, nothing)
        BY <3>1 DEF ResponsesRead
      <3>. QED BY <3>2 DEF none, nothing
    <2>3. MessagesRead(<<>>, <<>>)
      BY <1>2 DEF MessagesRead
    <2>. QED BY <2>2, <2>3
  <1>4. HistoryIsWhole
    BY <1>1 DEF HistoryIsWhole, HistoryIsServable, OutputsReachTheModel
  <1>. QED BY <1>1, <1>2, <1>3, <1>4 DEF HistInv

LEMMA HistInvNext == HistInv /\ [TurnNext]_turnVars => HistInv'
  <1>. SUFFICES ASSUME HistInv, [TurnNext]_turnVars PROVE HistInv'
    OBVIOUS
  <1>1. CASE HistoryNext
    <2>1. CASE ReadCall
      BY <2>1, ReadCallKeeps
    <2>2. CASE \E c \in 0 .. Len(items) : (c # 0 => items[c].kind = "call") /\ ReadOutput(c)
      BY <2>2, ReadOutputKeeps
    <2>3. CASE \E readable \in BOOLEAN : ReadImage(readable)
      BY <2>3, ReadImageKeeps
    <2>4. CASE \E role \in Speaker : ReadMessage(role)
      BY <2>4, ReadMessageKeeps
    <2>5. CASE ReadReasoning
      BY <2>5, ReadReasoningKeeps
    <2>6. CASE \E n \in 0 .. 2 : AssistantTurn(n)
      BY <2>6, AssistantTurnKeeps
    <2>7. CASE \E adds \in BOOLEAN : UserTurn(adds)
      BY <2>7, UserTurnKeeps
    <2>8. CASE \E budget \in Budget : Send(budget)
      BY <2>8, SendKeeps
    <2>. QED BY <1>1, <2>1, <2>2, <2>3, <2>4, <2>5, <2>6, <2>7, <2>8 DEF HistoryNext
  <1>2. CASE Reply
    <2>1. history' = "answered" /\ api' = api
      BY <1>2 DEF Reply
    <2>. QED BY <2>1 DEF HistInv, HistoryIsWhole, HistoryIsServable, OutputsReachTheModel
  <1>3. CASE UNCHANGED historyVars
    BY <1>3 DEF historyVars, HistInv, HistoryIsWhole, HistoryIsServable, OutputsReachTheModel,
                Overlapping, Unanswered
  <1>. QED BY <1>1, <1>2, <1>3 DEF TurnNext, turnVars

\* Every transcript is sent as a history that the upstream accepts (but for what its client
\* says as a tool without a call), in the chat form, in Anthropic's and in Gemini's, with every
\* output that reached its call, and is cut no more than the budget asks (_translate_input,
\* _translate_message, trim_history).
THEOREM HistoriesAreWhole == TurnSpec => []HistoryIsWhole
  <1>1. HistInv => HistoryIsWhole
    BY DEF HistInv
  <1>. QED BY <1>1, HistInvInit, HistInvNext, PTL DEF TurnSpec
=============================================================================
