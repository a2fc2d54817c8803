-------------------------- MODULE MCCredentialPool --------------------------
(***************************************************************************)
(* An instance of the key pool: one provider with the two keys of an       *)
(* account (a1, a2) and a key without an account tag (b1), so that a 429   *)
(* meets keys inside and outside its bucket, and a reporter that has none. *)
(* Durations are scaled down so that a short rest, a long rest, auto       *)
(* recovery and the decay window all differ.                               *)
(***************************************************************************)
EXTENDS CredentialPool, TLC

CONSTANTS a1, a2, b1, p1, accA

MCProviderOf == [c \in Credentials |-> p1]
MCAccountOf == [c \in Credentials |-> IF c = b1 THEN None ELSE accA]
MCThrottleScope == [quota |-> "account", throughput |-> "provider",
                    frequency |-> "credential", unknown |-> "credential"]
AccountThrottles == {[kind |-> "quota", retryAfter |-> 1],
                     [kind |-> "frequency", retryAfter |-> 0]}
MCTransientRests == {1}
Interchangeable == Permutations(Requests) \cup Permutations({a1, a2})

\* The pool starts with the account's keys alone or with all three; in the second
\* case the operator has done nothing yet and will not.
MCInit ==
    /\ present \in {{a1, a2}, Credentials}
    /\ cred \in [Credentials -> {Fresh(TRUE), Fresh(FALSE)}]
    /\ b1 \notin present => cred[b1] = Fresh(TRUE)
    /\ req = [r \in Requests |-> Idle]
    /\ ops = IF b1 \in present THEN 0 ELSE MaxOperatorSteps

MCSpec == MCInit /\ [][Next]_vars

\* Two requests overlap on the keys of the account; once b1 is registered too they
\* come one at a time, with one candidate each.
OneAtATimeWithOutsider ==
    b1 \in present =>
        /\ \E r \in Requests : req[r] = Idle
        /\ \A r \in Requests : Cardinality(req[r].keys) <= 1
=============================================================================
