------------------------------ MODULE Scheduler ------------------------------
(***************************************************************************)
(* The execution of one client request (app/routing/scheduler.py, execute  *)
(* and stream): three nested loops over the deployments of the plan, the   *)
(* keys the pool offers and the retries on a key, with the decision matrix *)
(* of app/retry/classifier.py and the limits of app/retry/policy.py.       *)
(*                                                                         *)
(* Other requests meet this one only in the pool, the limiter and the      *)
(* deployment health, which may answer anything here: any deployment may   *)
(* be cooling down, any keys may be offered, any key may be over quota.    *)
(***************************************************************************)
EXTENDS Naturals, FiniteSets

CONSTANTS
    Deployments,
    Credentials,
    KeysFor,            \* [Deployments -> SUBSET Credentials], the keys of its provider
    None,
    MaxTotalAttempts,   \* retry: max_total_attempts, max_deployments, ...
    MaxDeployments,
    MaxCredentials,
    MaxRetries,
    StreamOpenRetries

ASSUME LimitAssumption ==
    /\ IsFiniteSet(Deployments) /\ IsFiniteSet(Credentials)
    /\ KeysFor \in [Deployments -> SUBSET Credentials]
    /\ None \notin Deployments /\ None \notin Credentials
    /\ MaxTotalAttempts \in Nat \ {0} /\ MaxDeployments \in Nat \ {0}
    /\ MaxCredentials \in Nat \ {0}
    /\ MaxRetries \in Nat /\ StreamOpenRetries \in Nat

VARIABLES
    mode,       \* "chat" or "stream"
    phase,      \* where the loops stand
    todo,       \* eligible candidates of the plan not visited yet
    tried,      \* deployments_tried
    dep, keys,  \* the deployment being tried, its keys still to try
    key,        \* the key in use
    attempt,    \* attempt_number
    retries,    \* retries_done of this key; stream_open_retries of the request
    late,       \* the wall-clock budget is spent
    last,       \* errors[-1] and whom it hit
    log,        \* the attempt outcomes, by number
    result,     \* what the client got
    sends       \* history: calls made to upstreams

vars == <<mode, phase, todo, tried, dep, keys, key, attempt, retries, late, last, log,
          result, sends>>

-----------------------------------------------------------------------------
(* The decision matrix: app/retry/classifier.py *)

\* One row per kind of failure: who is to blame, whether to retry on the same key, to
\* try another key, to fail over, and the status the client sees if it comes to that.
Row(class, retry, switchKey, switchDep, status) ==
    [class |-> class, retry |-> retry, switchKey |-> switchKey,
     switchDep |-> switchDep, status |-> status]

Matrix == [
    invalid  |-> Row("client", FALSE, FALSE, FALSE, 400),         \* 400 409 413 422
    missing  |-> Row("client", FALSE, FALSE, TRUE, 404),          \* 404 410, no adapter
    rejected |-> Row("credential", FALSE, TRUE, FALSE, 401),      \* 401 403
    throttle |-> Row("throttle", FALSE, TRUE, FALSE, 429),        \* 429, bucket of the key
    shared   |-> Row("throttle", FALSE, TRUE, FALSE, 429),        \* 429, bucket of many keys
    slow     |-> Row("transient", TRUE, FALSE, FALSE, 408),       \* 408
    broken   |-> Row("transient", TRUE, TRUE, TRUE, 502),         \* 500 502, connection
    timeout  |-> Row("transient", TRUE, FALSE, TRUE, 504),        \* 504, transport timeout
    overload |-> Row("availability", TRUE, FALSE, TRUE, 503),     \* 503 529, other 5xx
    unknown  |-> Row("internal", FALSE, FALSE, TRUE, 502),
    nokey    |-> Row("availability", FALSE, FALSE, TRUE, 503)]

Errors == DOMAIN Matrix
UpstreamErrors == Errors \ {"nokey"}

\* _normalize_throttle: a 429 of a shared bucket fails over instead of sweeping keys.
Classified(e) ==
    IF e = "shared" THEN Row(Matrix[e].class, Matrix[e].retry, FALSE, TRUE, Matrix[e].status)
                    ELSE Matrix[e]

\* mutant: the class of the last error is mirrored to the client.
StatusMirrored(e) == IF e = None THEN 503 ELSE Matrix[e].status

\* _client_status_for, of the last error there was.
ExhaustedStatus(e) ==
    LET class == IF e = None THEN "availability" ELSE Matrix[e].class
    IN  IF class \in {"client", "transient"} THEN Matrix[e].status
        ELSE IF class = "throttle" THEN 429
        ELSE IF class = "internal" THEN 502
        ELSE 503

RetryLimit == IF mode = "stream" THEN StreamOpenRetries ELSE MaxRetries

\* _decide and _decide_open_stream.  (Request errors are never retryable, so
\* should_retry adds only its limit.)
Decide(e) ==
    LET row == Classified(e) IN
    IF row.retry /\ retries < RetryLimit THEN "retry"
    ELSE IF row.switchKey THEN "key"
    ELSE IF row.switchDep THEN "deployment"
    ELSE "abort"

-----------------------------------------------------------------------------
(* State *)

Phases == {"plan",      \* about to look at the next candidate
           "wait",      \* queueing for a key of dep to come out of its cooldown
           "keys",      \* about to take the next key of dep
           "backoff",   \* about to call again with the same key
           "sent",      \* call in flight, nothing sent to the client
           "open",      \* chunks are going to the client
           "done"}

Verdict == [err : Errors \cup {None}, dep : Deployments \cup {None},
            key : Credentials \cup {None}]

NoError == [err |-> None, dep |-> None, key |-> None]

Outcome == [n : Nat, status : {"success", "error", "cancelled"}]

Result == [kind : {"answer", "stream", "failure", "cancelled"}, status : Nat]

TypeOK ==
    /\ mode \in {"chat", "stream"} /\ phase \in Phases
    /\ todo \subseteq Deployments /\ tried \in 0..MaxDeployments
    /\ dep \in Deployments \cup {None} /\ keys \subseteq Credentials
    /\ key \in Credentials \cup {None}
    /\ attempt \in Nat /\ sends \in Nat
    /\ retries \in 0..RetryLimit
    /\ late \in BOOLEAN /\ last \in Verdict
    /\ log \subseteq Outcome
    /\ result \in Result \cup {None}

Init ==
    /\ mode \in {"chat", "stream"} /\ phase = "plan"
    /\ todo \in SUBSET Deployments /\ tried = 0
    /\ dep = None /\ keys = {} /\ key = None
    /\ attempt = 0 /\ retries = 0 /\ late = FALSE
    /\ last = NoError /\ log = {} /\ result = None /\ sends = 0

Record(n, status) == log' = log \cup {[n |-> n, status |-> status]}

Done(kind, status) == phase' = "done" /\ result' = [kind |-> kind, status |-> status]

Exhausted == Done("failure", ExhaustedStatus(last.err))

-----------------------------------------------------------------------------
(* The candidate loop *)

\* A deployment in cooldown or quarantine is skipped.
Skip(d) ==
    /\ phase = "plan" /\ d \in todo
    /\ todo' = todo \ {d}
    /\ UNCHANGED <<mode, phase, tried, dep, keys, key, attempt, retries, late, last, log,
                   result, sends>>

NextCandidate(d) ==
    /\ phase = "plan" /\ d \in todo /\ tried < MaxDeployments
    /\ todo' = todo \ {d} /\ tried' = tried + 1 /\ dep' = d /\ key' = None

\* The provider has no adapter (_adapter_or_none).
NoAdapter(d) ==
    /\ NextCandidate(d)
    /\ last' = [err |-> "missing", dep |-> d, key |-> None]
    /\ UNCHANGED <<mode, phase, keys, attempt, retries, late, log, result, sends>>

Offers(d) == {S \in SUBSET KeysFor[d] : S # {} /\ Cardinality(S) <= MaxCredentials}

TakeKeys(d) ==
    /\ NextCandidate(d)
    /\ keys' \in Offers(d) /\ phase' = "keys"
    /\ UNCHANGED <<mode, attempt, retries, late, last, log, result, sends>>

\* Nothing is usable, but a key will be soon (_wait_for_credential).
QueueForKey(d) ==
    /\ NextCandidate(d) /\ ~late
    /\ phase' = "wait" /\ keys' = {}
    /\ UNCHANGED <<mode, attempt, retries, late, last, log, result, sends>>

KeyCameBack ==
    /\ phase = "wait"
    /\ keys' \in Offers(dep) /\ phase' = "keys"
    /\ UNCHANGED <<mode, todo, tried, dep, key, attempt, retries, late, last, log, result,
                   sends>>

\* An attempt is recorded though nothing was sent, and the next candidate is up.
NoKeyOutcome ==
    /\ attempt' = attempt + 1
    /\ Record(attempt', "error")
    /\ phase' = "plan" /\ keys' = {}
    /\ UNCHANGED <<mode, retries, late, result, sends>>

NoKey(d) ==
    /\ NextCandidate(d) /\ NoKeyOutcome
    /\ last' = [err |-> "nokey", dep |-> d, key |-> None]

\* mutant: a candidate still without a key goes back into the plan.
StillNoKeyQueues ==
    /\ phase = "wait"
    /\ phase' = "plan" /\ todo' = todo \cup {dep} /\ tried' = tried - 1
    /\ UNCHANGED <<mode, dep, keys, key, attempt, retries, late, last, log, result, sends>>

StillNoKey ==
    /\ phase = "wait" /\ NoKeyOutcome
    /\ last' = [err |-> "nokey", dep |-> dep, key |-> None]
    /\ UNCHANGED <<todo, tried, dep, key>>

OutOfCandidates ==
    /\ phase = "plan" /\ (todo = {} \/ tried = MaxDeployments)
    /\ Exhausted
    /\ UNCHANGED <<mode, todo, tried, dep, keys, key, attempt, retries, late, last, log, sends>>

-----------------------------------------------------------------------------
(* The key loop and the attempts *)

\* The limiter refuses the key (_admit).
OverQuota(k) ==
    /\ phase = "keys" /\ k \in keys
    /\ keys' = keys \ {k}
    /\ UNCHANGED <<mode, phase, todo, tried, dep, key, attempt, retries, late, last, log,
                   result, sends>>

OutOfKeys ==
    /\ phase = "keys" /\ keys = {}
    /\ phase' = "plan"
    /\ UNCHANGED <<mode, todo, tried, dep, keys, key, attempt, retries, late, last, log,
                   result, sends>>

\* mutant: the ceiling is checked when a key is taken, not before every attempt.
SendUnchecked ==
    IF late THEN Done("failure", 504) /\ UNCHANGED <<attempt, sends>>
            ELSE phase' = "sent" /\ attempt' = attempt + 1 /\ sends' = sends + 1
                 /\ UNCHANGED result

\* The top of the attempt loop: the two budgets, then the call.
Send ==
    IF attempt >= MaxTotalAttempts THEN Exhausted /\ UNCHANGED <<attempt, sends>>
    ELSE SendUnchecked

TryKey(k) ==
    /\ phase = "keys" /\ k \in keys
    /\ keys' = keys \ {k} /\ key' = k
    /\ retries' = IF mode = "chat" THEN 0 ELSE retries
    /\ Send
    /\ UNCHANGED <<mode, todo, tried, dep, late, last, log>>

CallAgain ==
    /\ phase = "backoff"
    /\ Send
    /\ UNCHANGED <<mode, todo, tried, dep, keys, key, retries, late, last, log>>

Reply ==
    /\ phase = "sent" /\ mode = "chat"
    /\ Record(attempt, "success") /\ Done("answer", 200)
    /\ UNCHANGED <<mode, todo, tried, dep, keys, key, attempt, retries, late, last, sends>>

\* A chat call failed, or a stream failed to open.
Fail(e) ==
    /\ phase = "sent"
    /\ last' = [err |-> e, dep |-> dep, key |-> key]
    /\ Record(attempt, "error")
    /\ \/ Decide(e) = "retry" /\ phase' = "backoff" /\ retries' = retries + 1
          /\ UNCHANGED <<keys, result>>
       \/ Decide(e) = "key" /\ phase' = "keys" /\ UNCHANGED <<retries, keys, result>>
       \/ Decide(e) = "deployment" /\ phase' = "plan" /\ keys' = {}
          /\ UNCHANGED <<retries, result>>
       \/ Decide(e) = "abort" /\ Done("failure", Matrix[e].status)
          /\ UNCHANGED <<retries, keys>>
    /\ UNCHANGED <<mode, todo, tried, dep, key, attempt, late, sends>>

\* The first chunk (or the end of an empty stream) arrived.
Open ==
    /\ phase = "sent" /\ mode = "stream"
    /\ phase' = "open"
    /\ UNCHANGED <<mode, todo, tried, dep, keys, key, attempt, retries, late, last, log,
                   result, sends>>

StreamEnds ==
    /\ phase = "open"
    /\ Record(attempt, "success") /\ Done("stream", 200)
    /\ UNCHANGED <<mode, todo, tried, dep, keys, key, attempt, retries, late, last, sends>>

\* Too late to retry: the client gets an error event and the end of the stream.
StreamBreaks(e) ==
    /\ phase = "open"
    /\ last' = [err |-> e, dep |-> dep, key |-> key]
    /\ Record(attempt, "error") /\ Done("stream", 200)
    /\ UNCHANGED <<mode, todo, tried, dep, keys, key, attempt, retries, late, sends>>

\* The client leaves, at one of the awaits.  A call in flight is recorded as cancelled
\* unless its stream is open.
Disconnect ==
    /\ phase \in {"wait", "backoff", "sent", "open"}
    /\ Done("cancelled", 499)
    /\ IF phase = "sent" THEN Record(attempt, "cancelled") ELSE UNCHANGED log
    /\ UNCHANGED <<mode, todo, tried, dep, keys, key, attempt, retries, late, last, sends>>

BudgetSpent ==
    /\ phase # "done"
    /\ late' = TRUE
    /\ UNCHANGED <<mode, phase, todo, tried, dep, keys, key, attempt, retries, last, log,
                   result, sends>>

Candidates(d) == Skip(d) \/ NoAdapter(d) \/ TakeKeys(d) \/ QueueForKey(d) \/ NoKey(d)

Step ==
    \/ \E d \in Deployments : Candidates(d)
    \/ KeyCameBack \/ StillNoKey \/ OutOfCandidates
    \/ \E k \in Credentials : OverQuota(k) \/ TryKey(k)
    \/ OutOfKeys \/ CallAgain \/ Reply \/ Open \/ StreamEnds
    \/ \E e \in UpstreamErrors : Fail(e) \/ StreamBreaks(e)
    \/ Disconnect

Next == Step \/ BudgetSpent

Spec == Init /\ [][Next]_vars

\* The event loop runs every request, and every upstream call ends: it is answered or
\* times out.
FairSpec == Spec /\ WF_vars(Step)

-----------------------------------------------------------------------------
(* Properties *)

\* What a failure allows the request to do next.  A request the upstream calls malformed
\* is never sent again; the key that was used is used again only after a failure that a
\* pause may cure, and a sibling key only when the failure is the key's own or the node's:
\* a 429 of a bucket the siblings share never sweeps them.  A 408 stays with its key.
FailoverDiscipline ==
    phase = "sent" /\ last.err # None =>
        /\ last.err # "invalid"
        /\ last.dep # dep => last.err # "slow"
        /\ last.dep = dep /\ last.key = key =>
               last.err \in {"slow", "broken", "timeout", "overload"}
        /\ last.dep = dep /\ last.key # key =>
               last.err \in {"rejected", "throttle", "broken"}

\* The status of a failed request tells whose problem it is: the upstream's verdict on
\* the gateway's own key (401) never reaches the client, a 400 only when the upstream
\* faulted the request, a 504 only when time ran out somewhere.
HonestStatus ==
    result # None /\ result.kind = "failure" =>
        /\ result.status # 401
        /\ result.status = 400 => last.err = "invalid"
        /\ result.status = 504 => late \/ last.err = "timeout"

Numbers == {o.n : o \in log}

\* The audit trail is monotonic and has one outcome for an attempt number: all numbers
\* up to the current attempt, which lacks one only while it is in flight or when the
\* client left it.  At most the last attempt succeeds, and then the client has an answer.
AuditTrail ==
    /\ Numbers \subseteq 1..attempt /\ 1..(attempt - 1) \subseteq Numbers
    /\ attempt > 0 /\ attempt \notin Numbers =>
           \/ phase \in {"sent", "open"}
           \/ phase = "done" /\ result.kind = "cancelled"
    /\ \A o, p \in log : o.n = p.n => o = p
    /\ \A o \in log : o.status = "success" =>
           o.n = attempt /\ phase = "done" /\ result.kind \in {"answer", "stream"}

\* What execute and stream do between attempts, what they answer and what they put on record,
\* together: none of them holds because another is broken.
HonestConduct == FailoverDiscipline /\ HonestStatus /\ AuditTrail

\* Upstream calls on record: the outcomes less the attempts that sent nothing.
Settled == Cardinality(log) - (attempt - sends)

Contract == INSTANCE RequestContract WITH
    MaxCalls <- MaxTotalAttempts,
    state    <- IF phase = "done" THEN "closed"
                ELSE IF phase = "open" THEN "streaming" ELSE "open",
    calls    <- sends,
    settled  <- Settled,
    overtime <- late

\* However the loops, the pool, the limiter and the failures interleave, at most
\* max_total_attempts upstream calls are made, one at a time, each on record before the
\* next, none after the first byte reached the client or the time budget ran out.
KeepsContract == Contract!Spec

\* Every request is answered, refused or abandoned by its client.
EventuallyDone == (phase # "done") ~> (phase = "done")

=============================================================================
