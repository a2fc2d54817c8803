----------------------------- MODULE MCScheduler -----------------------------
(***************************************************************************)
(* Requests, in two parts that share no state; a behaviour is one of them, *)
(* chosen at first:                                                        *)
(*   "request"   how one is served; a provider serves two deployments with *)
(*               its two keys, another one deployment with the third key   *)
(*               (Scheduler);                                              *)
(*   "audit"     the rows that two calls with one request id leave, or one *)
(*               call alone (RequestAudit).                                *)
(***************************************************************************)
EXTENDS Scheduler, TLC

CONSTANTS
    d1, d2, d3, k1, k2, k3, c1, c2,
    Calls, Ids, Kinds, Attempts, Mishaps

ASSUME CallsAssumption == IsFiniteSet(Calls) /\ Attempts \in Nat /\ Mishaps \in Nat

MCDeployments == {d1, d2, d3}
MCCredentials == {k1, k2, k3}
MCKeysFor == d1 :> {k1, k2} @@ d2 :> {k1, k2} @@ d3 :> {k3}

\* The calls are alike: it is enough to look at a pair of kinds in one order.
MCKinds == {c1 :> "whole" @@ c2 :> "chat", c1 :> "whole" @@ c2 :> "events",
            c1 :> "chat" @@ c2 :> "events"}

VARIABLES
    part,
    pc, kind, rid, made, known, flags, fate, left, row, trail, bill, up, mishaps, spoilt

auditVars == <<pc, kind, rid, made, known, flags, fate, left, row, trail, bill, up, mishaps, spoilt>>
all == <<part, vars, auditVars>>

Audit == INSTANCE RequestAudit WITH
    MaxAttempts <- Attempts, MaxMishaps <- Mishaps, mode <- kind, tried <- made

MCInit ==
    /\ part \in {"request", "audit"} /\ Init /\ Audit!Init /\ kind \in Kinds
    /\ part = "audit" => mode = "chat" /\ todo = {}
    /\ part = "request" => kind = CHOOSE k \in Kinds : TRUE

RequestNext == part = "request" /\ Next /\ UNCHANGED <<part, auditVars>>
RequestStep == part = "request" /\ Step /\ UNCHANGED <<part, auditVars>>
AuditNext == part = "audit" /\ Audit!Next /\ UNCHANGED <<part, vars>>

\* FairSpec of the request, Spec of the calls.
MCSpec == MCInit /\ [][RequestNext \/ AuditNext]_all /\ WF_all(RequestStep) /\ Audit!Fair

-----------------------------------------------------------------------------
\* Every request is answered, refused or abandoned by its client.
RequestEnds == part = "request" => EventuallyDone

\* The record of a request (RequestAudit): its status is what happened, its attempts add up,
\* and bills and requests agree, also after pruning (_start, _finish, usage.record, prune).
RecordIsTrue == Audit!HonestAudit /\ Audit!AuditAddsUp /\ Audit!BillsAgree

\* Rows are closed (request_service.py's finalizers, close_stale_pending).
RowsClose == Audit!RowsClose
=============================================================================
