------------------------------ MODULE WorkQueue ------------------------------
(***************************************************************************)
(* What the event center promises its workers and operators: a queue that  *)
(* delivers an item at most MaxDeliveries times, leases at most Limit      *)
(* items at a time, and never hands out an item again once it is settled.  *)
(***************************************************************************)
EXTENDS Naturals, FiniteSets

CONSTANTS Items, MaxDeliveries, Limit

VARIABLES
    state,      \* [Items -> {"none", "queued", "leased", "settled"}]
    deliveries  \* [Items -> how often it was leased]

vars == <<state, deliveries>>

Leased == {i \in Items : state[i] = "leased"}

Init ==
    /\ state = [i \in Items |-> "none"]
    /\ deliveries = [i \in Items |-> 0]

\* An item nobody is to work on is settled from the start.
Add(i) ==
    /\ state[i] = "none"
    /\ \E s \in {"queued", "settled"} : state' = [state EXCEPT ![i] = s]
    /\ UNCHANGED deliveries

Deliver(i) ==
    /\ state[i] = "queued" /\ deliveries[i] < MaxDeliveries
    /\ Cardinality(Leased) < Limit
    /\ state' = [state EXCEPT ![i] = "leased"]
    /\ deliveries' = [deliveries EXCEPT ![i] = @ + 1]

\* A late result settles an item that is queued again, too.
Settle(i) ==
    /\ state[i] \in {"queued", "leased"}
    /\ state' = [state EXCEPT ![i] = "settled"]
    /\ UNCHANGED deliveries

\* Leases end without a result: back to the queue, or given up after the last delivery.
Return(S) ==
    /\ S \subseteq Leased
    /\ state' = [i \in Items |-> IF i \notin S THEN state[i]
                                 ELSE IF deliveries[i] < MaxDeliveries THEN "queued"
                                 ELSE "settled"]
    /\ UNCHANGED deliveries

Next ==
    \/ \E i \in Items : Add(i) \/ Deliver(i) \/ Settle(i)
    \/ \E S \in SUBSET Items : Return(S)

Spec == Init /\ [][Next]_vars

=============================================================================
