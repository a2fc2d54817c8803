---------------------------- MODULE SessionAffinity ----------------------------
(***************************************************************************)
(* Sticky sessions: a conversation goes back to the deployment and to the  *)
(* key that served it last, where the provider's prompt cache is warm.     *)
(* Two ordered dictionaries, one in the credential pool (app/credentials/  *)
(* pool.py) and one in the scheduler (app/routing/scheduler.py), are read  *)
(* when a request is planned and when a deployment's keys are ordered, and *)
(* written when an attempt succeeds; other requests, failures, time and a  *)
(* hot reload of the settings come in between.                             *)
(*                                                                         *)
(* The strategies' orders (router, rotation) are any order.  Which keys    *)
(* rest and which deployments are not called is any set: CredentialPool    *)
(* and DeploymentHealth say how they come about.                           *)
(***************************************************************************)
EXTENDS Integers, FiniteSets, SequencesExt

CONSTANTS
    Sessions, Requests, Deployments, Keys,
    Serves,         \* [Deployments -> SUBSET Keys], the keys of its provider
    Settings,       \* possible credential_affinity sections: [on, ttl, cap]
    FirstSetting,
    MaxFailures,    \* bound: failed attempts
    None

\* Who is who is known, and a time and a room are numbers (apply_affinity_config).
Proper ==
    /\ IsFiniteSet(Deployments) /\ IsFiniteSet(Keys) /\ Serves \in [Deployments -> SUBSET Keys]
    /\ None \notin Sessions
    /\ Settings \subseteq [on : BOOLEAN, ttl : Nat, cap : Nat] /\ FirstSetting \in Settings

VARIABLES
    keyPins,    \* CredentialPool._affinity, youngest first: [session, to, left]
    depPins,    \* Scheduler._deployment_affinity, the same of deployments
    setting,    \* affinity_enabled, affinity_ttl, affinity_max_sessions
    resting,    \* keys that are not usable, or whose quota window is full
    down,       \* deployments that are not called
    req,        \* requests under way
    last,       \* what served a session last: [dep, key, left, others, room]
    failures

pinVars == <<keyPins, depPins>>
vars == <<pinVars, setting, resting, down, req, last, failures>>

Unserved == [dep |-> None, key |-> None, left |-> 0, others |-> {}, room |-> 0]
NoRequest == [session |-> None, todo |-> <<>>, keys |-> <<>>]

TypeOK ==
    /\ \A p \in Range(keyPins) : p.session \in Sessions /\ p.to \in Keys /\ p.left \in Nat
    /\ \A p \in Range(depPins) : p.session \in Sessions /\ p.to \in Deployments /\ p.left \in Nat
    /\ setting \in Settings /\ resting \subseteq Keys /\ down \subseteq Deployments
    /\ \A r \in Requests :
        /\ req[r].session \in Sessions \cup {None}
        /\ Range(req[r].todo) \subseteq Deployments /\ Range(req[r].keys) \subseteq Keys

Init ==
    /\ keyPins = <<>> /\ depPins = <<>>
    /\ setting = FirstSetting /\ failures = 0
    /\ resting = {} /\ down = {}
    /\ req = [r \in Requests |-> NoRequest]
    /\ last = [s \in Sessions |-> Unserved]

-----------------------------------------------------------------------------
(* The dictionaries *)

Of(pins, s) == {i \in DOMAIN pins : pins[i].session = s}

Without(pins, s) ==
    IF Of(pins, s) = {} THEN pins ELSE RemoveAt(pins, CHOOSE i \in Of(pins, s) : TRUE)
Live(pins, s) == {p \in Range(pins) : p.session = s /\ p.left > 0}

\* A lookup drops a binding whose time is over.
Pruned(pins, s) == IF Live(pins, s) = {} THEN Without(pins, s) ELSE pins

Fitting(pins) == SubSeq(pins, 1, IF Len(pins) > setting.cap THEN setting.cap ELSE Len(pins))
Pin(s, to) == [session |-> s, to |-> to, left |-> setting.ttl]

\* mutant: a binding is renewed where it stands.
NotedInPlace(pins, s, to) ==
    Fitting(IF Of(pins, s) = {} THEN <<Pin(s, to)>> \o pins
            ELSE [pins EXCEPT ![CHOOSE i \in Of(pins, s) : TRUE] = Pin(s, to)])

\* A success binds the session, as the youngest; the oldest ones go for it.
Noted(pins, s, to) == Fitting(<<Pin(s, to)>> \o Without(pins, s))

\* The bound one moves to the front, or behind a front model that the operator pinned.
Fronted(order, to, front) ==
    LET at == IF front THEN 2 ELSE 1
        here == {i \in DOMAIN order : i > at /\ order[i] = to}
    IN  IF here = {} THEN order
        ELSE InsertAt(RemoveAt(order, CHOOSE i \in here : TRUE), at, to)

\* The order made of a strategy's order for session s.
Sticky(order, pins, s, front) ==
    IF s = None \/ Live(pins, s) = {} THEN order
    ELSE Fronted(order, (CHOOSE p \in Live(pins, s) : TRUE).to, front)

-----------------------------------------------------------------------------
(* Requests *)

\* The loop over the deployments as far as the next attempt, which nothing interrupts: the
\* first that is called and has a usable key (_credentials_for, candidates), its keys with the
\* bound one first. Without one the request fails.
Continue(r, s, todo) ==
    LET open == {i \in DOMAIN todo : todo[i] \notin down' /\ ~(Serves[todo[i]] \subseteq resting')}
        first == CHOOSE i \in open : \A j \in open : i <= j
        known == IF setting.on THEN s ELSE None
    IN  \/ open = {} /\ req' = [req EXCEPT ![r] = NoRequest] /\ UNCHANGED keyPins
        \/ /\ open # {} /\ keyPins' = Pruned(keyPins, known)
           /\ \E order \in SetToSeqs(Serves[todo[first]] \ resting') :
                req' = [req EXCEPT ![r] =
                    [session |-> s, todo |-> SubSeq(todo, first, Len(todo)),
                     keys |-> Sticky(order, keyPins, known, FALSE)]]

\* execute and stream: the session is nobody's while affinity is off (_session_key). Every
\* deployment is a candidate; a bound one that is down stays where it is.
Begin(r, s, front) ==
    /\ req[r] = NoRequest
    /\ UNCHANGED <<setting, resting, down, last, failures>>
    /\ LET known == IF setting.on THEN s ELSE None IN
        /\ depPins' = Pruned(depPins, known)
        /\ \E order \in SetToSeqs(Deployments) :
            Continue(r, known, IF \E p \in Live(depPins, known) : p.to \in down THEN order
                               ELSE Sticky(order, depPins, known, front))

\* An attempt fails: the key may have to rest, the deployment may be parked, and the next
\* key or the next deployment is tried.
AttemptFails(r) ==
    /\ req[r] # NoRequest
    /\ resting' \in {resting, resting \cup {Head(req[r].keys)}}
    /\ down' \in {down, down \cup {Head(req[r].todo)}}
    /\ \/ /\ Len(req[r].keys) > 1 /\ down' = down
          /\ req' = [req EXCEPT ![r].keys = Tail(@)] /\ UNCHANGED keyPins
       \/ /\ Len(req[r].keys) = 1 \/ down' # down
          /\ Continue(r, req[r].session, Tail(req[r].todo))
    /\ failures < MaxFailures /\ failures' = failures + 1
    /\ UNCHANGED <<depPins, setting, last>>

Served(s, d, k) ==
    [x \in Sessions |->
        IF x = s THEN [dep |-> d, key |-> k, left |-> setting.ttl, others |-> {}, room |-> setting.cap]
        ELSE [last[x] EXCEPT !.others = @ \cup {s},
                             !.room = IF setting.cap < @ THEN setting.cap ELSE @]]

\* An attempt succeeds: report_success makes the key usable, note_affinity binds it while
\* affinity is on, _note_deployment_affinity binds the deployment to a known session, and a
\* quarantine ends.
Succeed(r) ==
    /\ req[r] # NoRequest
    /\ LET s == req[r].session
           d == Head(req[r].todo)
           k == Head(req[r].keys)
       IN  /\ resting' = resting \ {k}
           /\ down' \in {down, down \ {d}}
           /\ keyPins' = IF s # None /\ setting.on THEN Noted(keyPins, s, k) ELSE keyPins
           /\ depPins' = IF s # None THEN Noted(depPins, s, d) ELSE depPins
           /\ last' = IF s = None THEN last
                      ELSE IF setting.on THEN Served(s, d, k)
                      ELSE [x \in Sessions |-> Unserved]
    /\ req' = [req EXCEPT ![r] = NoRequest]
    /\ UNCHANGED <<setting, failures>>

-----------------------------------------------------------------------------
(* The rest of the gateway *)

\* apply_affinity_config: what is bound stays bound, for as long as it was to be.
Reload ==
    /\ setting' \in Settings \ {setting}
    /\ UNCHANGED <<pinVars, resting, down, req, last, failures>>

Older(pins) == [i \in DOMAIN pins |-> [pins[i] EXCEPT !.left = IF @ = 0 THEN 0 ELSE @ - 1]]

\* Time passes; keys and deployments come back.
Tick ==
    /\ keyPins' = Older(keyPins) /\ depPins' = Older(depPins)
    /\ last' = [s \in Sessions |-> [last[s] EXCEPT !.left = IF @ = 0 THEN 0 ELSE @ - 1]]
    /\ resting' \in SUBSET resting /\ down' \in SUBSET down
    /\ UNCHANGED <<setting, req, failures>>

Next ==
    \/ \E r \in Requests :
        \/ \E s \in Sessions, front \in BOOLEAN : Begin(r, s, front)
        \/ AttemptFails(r) \/ Succeed(r)
    \/ Reload \/ Tick

Spec == Init /\ [][Next]_vars

-----------------------------------------------------------------------------
(* Properties *)

\* A session that was served not longer ago than the time it is bound for, with no more other
\* sessions served since than there is room for.
Due(s) == s # None /\ last[s].left > 0 /\ Cardinality(last[s].others) < last[s].room

\* A conversation stays where its cache is warm: unless it is idle for too long or crowded out,
\* its next request is first sent to the deployment and with the key that served it last,
\* whatever other requests of the same or of other sessions did in between, save when the one
\* is parked or the other rests (README section 10); a front model may go before it.
TurnsStay ==
    [][\A r \in Requests, s \in Sessions :
        (/\ req[r] = NoRequest /\ req'[r].session = s /\ setting.on /\ Due(s)
         /\ last[s].dep \notin down /\ last[s].key \notin resting
         /\ Begin(r, s, FALSE))
            => /\ Head(req'[r].todo) = last[s].dep
               /\ Head(req'[r].keys) = last[s].key]_vars

\* The dictionaries of pool and scheduler do not drift apart: the key a session is bound to
\* is one of the deployment it is bound to, as long as affinity was never switched off. (A
\* shorter time after a reload could leave younger bindings to expire before older ones, which
\* an eviction then takes from the dictionary that still has the expired one, and only there.)
PinsAgree ==
    (\A t, u \in Settings : t.on /\ t.ttl = u.ttl) =>
        \A s \in Sessions :
            /\ Live(keyPins, s) # {} <=> Live(depPins, s) # {}
            /\ \A p \in Live(keyPins, s), q \in Live(depPins, s) : p.to \in Serves[q.to]

=============================================================================
