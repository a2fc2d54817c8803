------------------------------- MODULE MCRouting -------------------------------
(***************************************************************************)
(* Where a request goes, in two parts that share no state; a behaviour is  *)
(* one of them, chosen at first:                                           *)
(*   "plans"     a flagship with two deployments, a bulk model and one     *)
(*               that sees; zk-auto, zk-long and zk-vision as configured,  *)
(*               and what an operator may make of them, cycles included    *)
(*               (Routing);                                                *)
(*   "sessions"  the turns of two conversations on two deployments, the    *)
(*               provider of one has two keys, and room for two bindings   *)
(*               or, after a hot reload, for one (SessionAffinity).        *)
(***************************************************************************)
EXTENDS Routing, TLC

CONSTANTS Sessions, Turns, Backends, Keys, Serves, Settings, FirstSetting, Upsets
CONSTANTS d1, d3, k1, k2, k3    \* the backends and the keys

VARIABLES part, keyPins, depPins, setting, resting, down, turn, served, failures

sessionVars == <<keyPins, depPins, setting, resting, down, turn, served, failures>>
both == <<part, vars, sessionVars>>

Affinity == INSTANCE SessionAffinity WITH
    Requests <- Turns, Deployments <- Backends, MaxFailures <- Upsets, req <- turn, last <- served

ASSUME AffinityAssumption == Affinity!Proper

MCInit == part \in {"plans", "sessions"} /\ Init /\ Affinity!Init

MCNext ==
    \/ part = "plans" /\ Next /\ UNCHANGED <<part, sessionVars>>
    \/ part = "sessions" /\ Affinity!Next /\ UNCHANGED <<part, vars>>

MCSpec == MCInit /\ [][MCNext]_both

-----------------------------------------------------------------------------
(* The instance *)

MCDeploymentsOf == "bulk" :> <<1>> @@ "eye" :> <<2>> @@ "flag" :> <<3, 4>>
MCProviderOf == 1 :> "p1" @@ 2 :> "p1" @@ 3 :> "p2" @@ 4 :> "p1"
Cap(reasoning, long, vision, speed) ==
    [reasoning |-> reasoning, tool_use |-> 5, long_context |-> long, vision |-> vision,
     speed |-> speed, cost |-> speed]
MCCaps == 1 :> Cap(4, 9, 0, 9) @@ 2 :> Cap(5, 3, 8, 7) @@ 3 :> Cap(9, 5, 0, 2) @@ 4 :> Cap(9, 5, 0, 2)
MCPriority == 1 :> 100 @@ 2 :> 50 @@ 3 :> 100 @@ 4 :> 80
MCWindow == 1 :> 1000 @@ 2 :> 64 @@ 3 :> 256 @@ 4 :> 32
Zero == [n \in Dims |-> 0]
MCAsks == 1 :> Zero @@ 2 :> Zero @@ 3 :> [Zero EXCEPT !.reasoning = 3] @@ 4 :> Zero
MCDirect == "bulk" :> "capability" @@ "eye" :> "capability" @@ "flag" :> "round_robin"

Alias(targets, strategy) == [Absent EXCEPT !.targets = targets, !.enabled = TRUE, !.strategy = strategy]
AutoAlias == Alias(<<"flag", "bulk", "eye">>, "capability")
MCConfigured ==
    "zk-auto" :> [AutoAlias EXCEPT !.front = "bulk"]
    @@ "zk-long" :> [Alias(<<"bulk">>, "capability") EXCEPT !.requires.long_context = 9]
    @@ "zk-vision" :> [Alias(<<"eye", "zk-auto">>, "capability") EXCEPT !.requires.vision = 8]
MCOffers == {
    <<"zk-auto", [AutoAlias EXCEPT !.strategy = "round_robin"]>>,
    <<"zk-auto", Alias(<<"zk-long", "zk-vision", "flag">>, "priority")>>,
    <<"zk-long", [Alias(<<"zk-auto", "bulk">>, "cost") EXCEPT !.floors.reasoning = 6]>>,
    <<"zk-vision", [Alias(<<"bulk", "eye", "flag">>, "speed") EXCEPT !.front = "flag"]>>,
    <<"zk-vision", [Alias(<<"zk-auto", "eye">>, "capability") EXCEPT !.requires.vision = 0]>>,
    <<"zk-long", [Alias(<<"bulk", "flag">>, "capability") EXCEPT !.enabled = FALSE]>>}

Shape0 == [model |-> "zk-auto", image |-> FALSE, result |-> FALSE, tools |-> FALSE,
           tokens |-> 1, thinks |-> FALSE]
MCRequests == {Shape0, [Shape0 EXCEPT !.result = TRUE],
               [Shape0 EXCEPT !.tokens = 110], [Shape0 EXCEPT !.image = TRUE],
               [Shape0 EXCEPT !.tools = TRUE, !.tokens = 30, !.image = TRUE, !.thinks = TRUE],
               [Shape0 EXCEPT !.model = "flag", !.tokens = 110]}


MCServes == d1 :> {k1, k2} @@ d3 :> {k3}
Roomy == [on |-> TRUE, ttl |-> 1, cap |-> 2]
MCSettings == {Roomy, [Roomy EXCEPT !.cap = 1]}

\* Sessions, requests and the keys of one provider are alike.
Interchangeable == Permutations(Sessions) \cup Permutations(Turns) \cup Permutations({k1, k2})

-----------------------------------------------------------------------------
\* The plans: aliases expand to what is reachable; a request whose model name or rewritten name
\* something can serve has a plan, but when the rewriting left it with an alias whose models are
\* all off; and images go to models that see them (Router.plan).
PlansServe == part = "plans" => ExpandIsReach /\ NobodyIsRefused /\ ImagesAreSeen

\* A pinned model leads the attempts where the operator's alias says so, and a front model is
\* called first or right after the session's own deployment when the reason names it
\* (Router.plan, Scheduler._apply_deployment_affinity).
OperatorIsObeyed == part = "plans" => OperatorLeads /\ FrontIsTruthful

\* A conversation stays with the deployment and the key that served it last, and the two
\* dictionaries that say so agree (note_affinity, _note_deployment_affinity).
TurnsStay == Affinity!TurnsStay /\ []Affinity!PinsAgree
===============================================================================
